---------------------------- MODULE SequenceFacts -----------------------------
(***************************************************************************)
(* Facts about numbers and sequences that the proofs about data rest on.   *)
(*                                                                         *)
(* The provers cannot instantiate the induction theorems of the library,   *)
(* which take an operator as a parameter.  WFMin does not: it says that a  *)
(* set has a minimum.  From it follows induction for sets (Induct), and    *)
(* from that the existence of functions that are defined step by step      *)
(* (Recursion), with which a recursive definition can be unfolded.         *)
(***************************************************************************)
EXTENDS Naturals, Sequences, SequencesExt, TLAPS, WellFoundedInduction,
        SequenceTheorems

\* A set of numbers has a least one.
LEMMA Least ==
    ASSUME NEW T, T \subseteq Nat, T # {}
    PROVE  \E n \in T : \A m \in T : n <= m
<1> DEFINE R == {ss \in Nat \X Nat : ss[1] < ss[2]}
<1>1. IsWellFoundedOn(R, Nat)
  BY NatLessThanWellFounded DEF OpToRel
<1>2. PICK n \in T : \A m \in T : ~(<<m, n>> \in R)
  <2> HIDE DEF R
  <2> QED
    BY <1>1, WFMin
<1>3. ASSUME NEW m \in T PROVE n <= m
  <2>1. m \in Nat /\ n \in Nat
    OBVIOUS
  <2>2. ~(<<m, n>> \in R)
    BY <1>2
  <2>3. m < n => <<m, n>> \in R
    BY <2>1
  <2> QED
    BY <2>1, <2>2, <2>3
<1> QED
  BY <1>3

\* If it is bounded it has a greatest one.
LEMMA Greatest ==
    ASSUME NEW n \in Nat, NEW T, T \subseteq 0 .. n, T # {}
    PROVE  \E m \in T : \A k \in T : k <= m
<1> DEFINE D == {d \in 0 .. n : n - d \in T}
<1>1. PICK d \in D : \A e \in D : d <= e
  <2>1. PICK m \in T : TRUE
    OBVIOUS
  <2>2. n - m \in D
    OBVIOUS
  <2>3. D \subseteq Nat /\ D # {}
    BY <2>2
  <2> HIDE DEF D
  <2> QED
    BY <2>3, Least
<1>2. ASSUME NEW k \in T PROVE k <= n - d
  <2>1. n - k \in D
    OBVIOUS
  <2> QED
    BY <1>1, <2>1
<1> QED
  BY <1>1, <1>2

\* What holds of 0, and of every successor, holds of all.
LEMMA Induct ==
    ASSUME NEW T, 0 \in T, \A n \in Nat : n \in T => n + 1 \in T
    PROVE  Nat \subseteq T
<1> SUFFICES ASSUME Nat \ T # {} PROVE FALSE
  OBVIOUS
<1>1. PICK n \in Nat \ T : \A m \in Nat \ T : n <= m
  BY Least
<1>2. n # 0 /\ n - 1 \in Nat
  OBVIOUS
<1>3. n - 1 \in T
  BY <1>1, <1>2
<1> QED
  BY <1>2, <1>3

-----------------------------------------------------------------------------

\* A first value and a step define a function on the numbers.
Runs(g, n, base, step) ==
    g[0] = base /\ \A i \in 1 .. n : g[i] = step[<<i, g[i - 1]>>]

LEMMA RunsExist ==
    ASSUME NEW V, NEW base \in V, NEW step \in [Nat \X V -> V], NEW k \in Nat
    PROVE  \E g \in [0 .. k -> V] : Runs(g, k, base, step)
<1> DEFINE T == {n \in Nat : \E g \in [0 .. n -> V] : Runs(g, n, base, step)}
<1>1. 0 \in T
  <2>1. Runs([i \in 0 .. 0 |-> base], 0, base, step)
    BY DEF Runs
  <2> QED
    BY <2>1
<1>2. ASSUME NEW n \in Nat, n \in T PROVE n + 1 \in T
  <2>1. PICK g \in [0 .. n -> V] : Runs(g, n, base, step)
    BY <1>2
  <2> DEFINE h == [i \in 0 .. n + 1 |-> IF i = n + 1 THEN step[<<n + 1, g[n]>>] ELSE g[i]]
  <2>2. h \in [0 .. n + 1 -> V] /\ \A i \in 0 .. n : h[i] = g[i]
    OBVIOUS
  <2>3. h[n + 1] = step[<<n + 1, g[n]>>]
    OBVIOUS
  <2> HIDE DEF h
  <2>4. ASSUME NEW i \in 1 .. n + 1 PROVE h[i] = step[<<i, h[i - 1]>>]
    <3>1. i - 1 \in 0 .. n
      OBVIOUS
    <3>2. CASE i = n + 1
      <4>1. i - 1 = n /\ h[n] = g[n]
        BY <2>2, <3>2
      <4> QED
        BY <2>3, <3>2, <4>1
    <3>3. CASE i # n + 1
      <4>1. i \in 1 .. n
        BY <3>3
      <4>2. g[i] = step[<<i, g[i - 1]>>]
        BY <2>1, <4>1 DEF Runs
      <4>3. h[i] = g[i] /\ h[i - 1] = g[i - 1]
        BY <2>2, <3>1, <4>1
      <4> QED
        BY <4>2, <4>3
    <3> QED
      BY <3>2, <3>3
  <2>5. Runs(h, n + 1, base, step)
    BY <2>1, <2>2, <2>4 DEF Runs
  <2> QED
    BY <2>2, <2>5
<1> HIDE DEF T
<1>3. Nat \subseteq T
  BY <1>1, <1>2, Induct
<1> QED
  BY <1>3 DEF T

LEMMA RunsAgree ==
    ASSUME NEW base, NEW step, NEW n \in Nat, NEW m \in Nat,
           NEW g, Runs(g, n, base, step), NEW h, Runs(h, m, base, step),
           NEW k \in Nat, k <= n, k <= m
    PROVE  g[k] = h[k]
<1> DEFINE T == {i \in Nat : i <= n /\ i <= m => g[i] = h[i]}
<1>1. 0 \in T
  BY DEF Runs
<1>2. ASSUME NEW i \in Nat, i \in T PROVE i + 1 \in T
  <2>1. CASE i + 1 <= n /\ i + 1 <= m
    <3>1. g[i] = h[i] /\ i + 1 \in 1 .. n /\ i + 1 \in 1 .. m /\ (i + 1) - 1 = i
      BY <1>2, <2>1
    <3>2. g[i + 1] = step[<<i + 1, g[(i + 1) - 1]>>]
      BY <3>1 DEF Runs
    <3>3. h[i + 1] = step[<<i + 1, h[(i + 1) - 1]>>]
      BY <3>1 DEF Runs
    <3> QED
      BY <3>1, <3>2, <3>3
  <2> QED
    BY <2>1
<1> HIDE DEF T
<1>3. Nat \subseteq T
  BY <1>1, <1>2, Induct
<1> QED
  BY <1>3 DEF T

Follows(f, base, step) ==
    f[0] = base /\ \A n \in Nat : f[n + 1] = step[<<n + 1, f[n]>>]
LEMMA Recursion ==
    ASSUME NEW V, NEW base \in V, NEW step \in [Nat \X V -> V]
    PROVE  \E f \in [Nat -> V] : Follows(f, base, step)
<1> DEFINE G(n) == CHOOSE g \in [0 .. n -> V] : Runs(g, n, base, step)
           f == [n \in Nat |-> G(n)[n]]
<1>1. ASSUME NEW n \in Nat PROVE G(n) \in [0 .. n -> V] /\ Runs(G(n), n, base, step)
  BY RunsExist
<1>2. \A n \in Nat : f[n] = G(n)[n]
  OBVIOUS
<1> HIDE DEF G
<1>3. f \in [Nat -> V]
  <2>1. ASSUME NEW n \in Nat PROVE G(n)[n] \in V
    BY <1>1
  <2> QED
    BY <2>1
<1> HIDE DEF f
<1>4. f[0] = base
  BY <1>1, <1>2 DEF Runs
<1>5. ASSUME NEW n \in Nat PROVE f[n + 1] = step[<<n + 1, f[n]>>]
  <2>1. n + 1 \in Nat /\ n + 1 \in 1 .. n + 1 /\ (n + 1) - 1 = n /\ n <= n + 1
    OBVIOUS
  <2>2. G(n + 1)[n + 1] = step[<<n + 1, G(n + 1)[n]>>]
    BY <1>1, <2>1 DEF Runs
  <2>3. G(n + 1)[n] = G(n)[n]
    BY <1>1, <2>1, RunsAgree
  <2> QED
    BY <1>2, <2>1, <2>2, <2>3
<1>6. Follows(f, base, step)
  BY <1>4, <1>5 DEF Follows
<1> QED
  BY <1>3, <1>6

-----------------------------------------------------------------------------
(* What a sequence holds.                                                  *)

Elements(s) == {s[i] : i \in DOMAIN s}

\* A function on 1 .. n is a sequence.
LEMMA FunctionIsSequence ==
    ASSUME NEW S, NEW n \in Nat, NEW f \in [1 .. n -> S]
    PROVE  f \in Seq(S) /\ Len(f) = n /\ DOMAIN f = 1 .. n
<1>1. f \in Seq(S) /\ DOMAIN f = 1 .. n
  BY SeqDef
<1> QED
  BY <1>1, LenProperties

LEMMA ElementsOfConcat ==
    ASSUME NEW S, NEW s \in Seq(S), NEW t \in Seq(S)
    PROVE  s \o t \in Seq(S) /\ Elements(s \o t) = Elements(s) \cup Elements(t)
<1>1. /\ s \o t \in Seq(S) /\ Len(s \o t) = Len(s) + Len(t)
      /\ \A i \in 1 .. Len(s) + Len(t) :
            (s \o t)[i] = IF i <= Len(s) THEN s[i] ELSE t[i - Len(s)]
  BY ConcatProperties
<1>2. /\ DOMAIN s = 1 .. Len(s) /\ DOMAIN t = 1 .. Len(t)
      /\ DOMAIN (s \o t) = 1 .. Len(s) + Len(t) /\ Len(s) \in Nat /\ Len(t) \in Nat
  BY <1>1, LenProperties
<1>3. ASSUME NEW i \in DOMAIN (s \o t)
      PROVE  (s \o t)[i] \in Elements(s) \cup Elements(t)
  BY <1>1, <1>2 DEF Elements
<1>4. ASSUME NEW i \in DOMAIN s PROVE s[i] \in Elements(s \o t)
  <2>1. i \in DOMAIN (s \o t) /\ (s \o t)[i] = s[i]
    BY <1>1, <1>2
  <2> QED
    BY <2>1 DEF Elements
<1>5. ASSUME NEW i \in DOMAIN t PROVE t[i] \in Elements(s \o t)
  <2>1. i + Len(s) \in DOMAIN (s \o t) /\ (s \o t)[i + Len(s)] = t[i]
    BY <1>1, <1>2
  <2> QED
    BY <2>1 DEF Elements
<1>6. Elements(s \o t) \subseteq Elements(s) \cup Elements(t)
  BY <1>3 DEF Elements
<1>7. Elements(s) \cup Elements(t) \subseteq Elements(s \o t)
  BY <1>4, <1>5 DEF Elements
<1> QED
  BY <1>1, <1>6, <1>7

\* Where the elements of three sequences, one behind the other, are.
LEMMA ConcatThree ==
    ASSUME NEW S, NEW a \in Seq(S), NEW b \in Seq(S), NEW c \in Seq(S)
    PROVE  /\ Len(a \o b \o c) = Len(a) + Len(b) + Len(c)
           /\ \A i \in 1 .. Len(a) : (a \o b \o c)[i] = a[i]
           /\ \A i \in 1 .. Len(b) : (a \o b \o c)[i + Len(a)] = b[i]
           /\ \A i \in 1 .. Len(c) : (a \o b \o c)[i + (Len(a) + Len(b))] = c[i]
<1>1. Len(a) \in Nat /\ Len(b) \in Nat /\ Len(c) \in Nat
  BY LenProperties
<1> DEFINE d == a \o b
<1>2. /\ d \in Seq(S) /\ Len(d) = Len(a) + Len(b)
      /\ \A i \in 1 .. Len(a) + Len(b) : d[i] = IF i <= Len(a) THEN a[i] ELSE b[i - Len(a)]
  BY ConcatProperties
<1> HIDE DEF d
<1>3. /\ Len(d \o c) = Len(d) + Len(c)
      /\ \A i \in 1 .. Len(d) + Len(c) :
            (d \o c)[i] = IF i <= Len(d) THEN d[i] ELSE c[i - Len(d)]
  <2>1. d \in Seq(S)
    BY <1>2
  <2> QED
    BY <2>1, ConcatProperties
<1>4. ASSUME NEW i \in 1 .. Len(a) PROVE (d \o c)[i] = a[i]
  <2>1. i \in 1 .. Len(a) + Len(b) /\ i \in 1 .. Len(d) + Len(c) /\ i <= Len(d) /\ i <= Len(a)
    BY <1>1, <1>2
  <2> QED
    BY <1>2, <1>3, <2>1
<1>5. ASSUME NEW i \in 1 .. Len(b) PROVE (d \o c)[i + Len(a)] = b[i]
  <2> DEFINE j == i + Len(a)
  <2>1. /\ j \in 1 .. Len(a) + Len(b) /\ j \in 1 .. Len(d) + Len(c) /\ j <= Len(d)
        /\ ~(j <= Len(a)) /\ j - Len(a) = i
    BY <1>1, <1>2
  <2> HIDE DEF j
  <2>2. (d \o c)[j] = b[i]
    BY <1>2, <1>3, <2>1
  <2> QED
    BY <2>2 DEF j
<1>6. ASSUME NEW i \in 1 .. Len(c) PROVE (d \o c)[i + (Len(a) + Len(b))] = c[i]
  <2> DEFINE j == i + (Len(a) + Len(b))
  <2>1. j \in 1 .. Len(d) + Len(c) /\ ~(j <= Len(d)) /\ j - Len(d) = i
    BY <1>1, <1>2
  <2> HIDE DEF j
  <2>2. (d \o c)[j] = c[i]
    BY <1>3, <2>1
  <2> QED
    BY <2>2 DEF j
<1>7. Len(d \o c) = Len(a) + Len(b) + Len(c)
  BY <1>2, <1>3
<1> QED
  BY <1>4, <1>5, <1>6, <1>7 DEF d

LEMMA ElementsOfTail ==
    ASSUME NEW S, NEW s \in Seq(S), s # <<>>
    PROVE  /\ Head(s) \in S /\ Tail(s) \in Seq(S)
           /\ Elements(s) = {Head(s)} \cup Elements(Tail(s))
<1>1. /\ Head(s) \in S /\ Tail(s) \in Seq(S) /\ Len(Tail(s)) = Len(s) - 1
      /\ \A i \in 1 .. Len(Tail(s)) : Tail(s)[i] = s[i + 1]
  BY HeadTailProperties
<1>2. /\ Len(s) \in Nat /\ Len(s) # 0 /\ DOMAIN s = 1 .. Len(s) /\ Head(s) = s[1]
      /\ DOMAIN Tail(s) = 1 .. Len(s) - 1
  BY <1>1, LenProperties, EmptySeq
<1>3. ASSUME NEW i \in 1 .. Len(s) PROVE s[i] \in {s[1]} \cup Elements(Tail(s))
  <2>1. CASE i = 1
    BY <2>1
  <2>2. CASE i # 1
    <3>1. i - 1 \in DOMAIN Tail(s) /\ Tail(s)[i - 1] = s[i]
      BY <1>1, <1>2, <2>2
    <3> QED
      BY <3>1 DEF Elements
  <2> QED
    BY <2>1, <2>2
<1>4. ASSUME NEW i \in 1 .. Len(s) - 1 PROVE Tail(s)[i] \in Elements(s)
  <2>1. Tail(s)[i] = s[i + 1] /\ i + 1 \in DOMAIN s
    BY <1>1, <1>2
  <2> QED
    BY <2>1 DEF Elements
<1>5. s[1] \in Elements(s)
  BY <1>2 DEF Elements
<1>6. Elements(s) \subseteq {Head(s)} \cup Elements(Tail(s))
  BY <1>2, <1>3 DEF Elements
<1>7. {Head(s)} \cup Elements(Tail(s)) \subseteq Elements(s)
  BY <1>2, <1>4, <1>5 DEF Elements
<1> QED
  BY <1>1, <1>6, <1>7

LEMMA ElementsOfAppend ==
    ASSUME NEW S, NEW s \in Seq(S), NEW x \in S
    PROVE  /\ Append(s, x) \in Seq(S)
           /\ Elements(Append(s, x)) = Elements(s) \cup {x}
<1>1. /\ Append(s, x) \in Seq(S) /\ Len(Append(s, x)) = Len(s) + 1
      /\ \A i \in 1 .. Len(s) : Append(s, x)[i] = s[i]
      /\ Append(s, x)[Len(s) + 1] = x
  BY AppendProperties
<1>2. /\ Len(s) \in Nat /\ DOMAIN s = 1 .. Len(s)
      /\ DOMAIN Append(s, x) = 1 .. Len(s) + 1
  BY <1>1, LenProperties
<1>3. 1 .. Len(s) + 1 = 1 .. Len(s) \cup {Len(s) + 1}
  BY <1>2
<1>4. Elements(Append(s, x)) \subseteq Elements(s) \cup {x}
  BY <1>1, <1>2, <1>3 DEF Elements
<1>5. Elements(s) \cup {x} \subseteq Elements(Append(s, x))
  BY <1>1, <1>2, <1>3 DEF Elements
<1> QED
  BY <1>1, <1>4, <1>5

\* Each of c's is the one before with the next of ss behind it.
Appends(c, ss, n) == \A i \in 2 .. n : c[i] = c[i - 1] \o ss[i]

LEMMA SameRuns ==
    ASSUME NEW n \in Nat, n # 0, NEW ss, NEW c, NEW g, c[1] = g[1],
           Appends(c, ss, n), Appends(g, ss, n)
    PROVE  c[n] = g[n]
<1> DEFINE T == {i \in Nat : i + 1 <= n => c[i + 1] = g[i + 1]}
<1>1. 0 \in T
  OBVIOUS
<1>2. ASSUME NEW i \in Nat, i \in T PROVE i + 1 \in T
  <2>1. CASE i + 2 <= n
    <3> DEFINE j == i + 2
    <3>1. j \in 2 .. n /\ j - 1 = i + 1 /\ i + 1 <= n /\ j = (i + 1) + 1
      BY <2>1
    <3>2. c[i + 1] = g[i + 1]
      BY <1>2, <3>1
    <3> HIDE DEF j
    <3>3. c[j] = c[j - 1] \o ss[j] /\ g[j] = g[j - 1] \o ss[j]
      BY <3>1 DEF Appends
    <3>4. c[j] = g[j]
      BY <3>1, <3>2, <3>3
    <3> QED
      BY <3>1, <3>4
  <2>2. CASE ~(i + 2 <= n)
    BY <2>2
  <2> QED
    BY <2>1, <2>2
<1>3. n - 1 \in Nat /\ (n - 1) + 1 = n /\ n <= n
  OBVIOUS
<1>4. Nat \subseteq T
  <2> HIDE DEF T
  <2> QED
    BY <1>1, <1>2, Induct
<1>5. n - 1 \in T
  BY <1>3, <1>4
<1> QED
  BY <1>3, <1>5

\* FlattenSeq puts one sequence behind the other.
LEMMA FlattenUnfolds ==
    ASSUME NEW S, NEW ss \in Seq(Seq(S))
    PROVE  \E f \in [0 .. Len(ss) -> Seq(S)] :
               /\ f[0] = <<>> /\ f[Len(ss)] = FlattenSeq(ss)
               /\ \A i \in 1 .. Len(ss) : f[i] = f[i - 1] \o ss[i]
<1>1. Len(ss) \in Nat /\ ss \in [1 .. Len(ss) -> Seq(S)]
  BY LenProperties
<1> DEFINE n == Len(ss)
           step == [x \in Nat \X Seq(S) |->
                      IF x[1] \in 1 .. n THEN x[2] \o ss[x[1]] ELSE <<>>]
<1>2. step \in [Nat \X Seq(S) -> Seq(S)]
  <2>1. ASSUME NEW x \in Nat \X Seq(S), x[1] \in 1 .. n PROVE x[2] \o ss[x[1]] \in Seq(S)
    <3>1. x[2] \in Seq(S) /\ ss[x[1]] \in Seq(S)
      BY <1>1, <2>1
    <3> QED
      BY <3>1, ConcatProperties
  <2>2. <<>> \in Seq(S)
    BY EmptySeq
  <2> QED
    BY <2>1, <2>2
<1>3. <<>> \in Seq(S)
  BY EmptySeq
<1>4. \A i \in 1 .. n, v \in Seq(S) : step[<<i, v>>] = v \o ss[i]
  <2> SUFFICES ASSUME NEW i \in 1 .. n, NEW v \in Seq(S) PROVE step[<<i, v>>] = v \o ss[i]
    OBVIOUS
  <2>1. <<i, v>> \in Nat \X Seq(S) /\ <<i, v>>[1] = i /\ <<i, v>>[2] = v
    BY <1>1
  <2> QED
    BY <2>1
<1> HIDE DEF step
<1>5. PICK f \in [Nat -> Seq(S)] : Follows(f, <<>>, step)
  <2> DEFINE V == Seq(S)
             E == <<>>
  <2>1. step \in [Nat \X V -> V] /\ E \in V
    BY <1>2, <1>3
  <2> HIDE DEF V, E
  <2>2. \E x \in [Nat -> V] : Follows(x, E, step)
    BY <2>1, Recursion
  <2> QED
    BY <2>2 DEF V, E
<1>6. \A i \in 1 .. n : f[i] = f[i - 1] \o ss[i]
  <2> SUFFICES ASSUME NEW i \in 1 .. n PROVE f[i] = f[i - 1] \o ss[i]
    OBVIOUS
  <2>1. i - 1 \in Nat /\ (i - 1) + 1 = i /\ f[i - 1] \in Seq(S)
    BY <1>1
  <2>2. f[(i - 1) + 1] = step[<<(i - 1) + 1, f[i - 1]>>]
    BY <1>5, <2>1 DEF Follows
  <2> QED
    BY <1>4, <2>1, <2>2
<1> DEFINE g == [i \in 0 .. n |-> f[i]]
<1>7. /\ g \in [0 .. n -> Seq(S)] /\ g[0] = <<>>
      /\ \A i \in 1 .. n : g[i] = g[i - 1] \o ss[i]
  <2>1. ASSUME NEW i \in 1 .. n PROVE g[i] = g[i - 1] \o ss[i]
    <3>1. i \in 0 .. n /\ i - 1 \in 0 .. n
      BY <1>1
    <3>2. g[i] = f[i] /\ g[i - 1] = f[i - 1]
      BY <3>1
    <3> QED
      BY <1>6, <3>2
  <2>2. 0 \in 0 .. n /\ 0 .. n \subseteq Nat
    BY <1>1
  <2>3. g \in [0 .. n -> Seq(S)]
    <3> DEFINE V == Seq(S)
    <3> HIDE DEF V
    <3>1. f \in [Nat -> V]
      BY DEF V
    <3>2. g \in [0 .. n -> V]
      BY <2>2, <3>1
    <3> QED
      BY <3>2 DEF V
  <2>4. g[0] = f[0]
    BY <2>2
  <2> HIDE DEF g
  <2> QED
    BY <1>5, <2>1, <2>3, <2>4 DEF Follows
<1>8. CASE n = 0
  <2>1. FlattenSeq(ss) = ss /\ ss = <<>>
    BY <1>8, EmptySeq DEF FlattenSeq
  <2> QED
    BY <1>7, <1>8, <2>1, ZenonT(40)
<1>9. CASE n # 0
  <2> DEFINE IsFlat(h) == h = [i \in 1 .. n |-> IF i = 1 THEN ss[i] ELSE h[i - 1] \o ss[i]]
             h == [i \in 1 .. n |-> g[i]]
             c == CHOOSE x : IsFlat(x)
  <2>1. IsFlat(h)
    <3>1. g[1] = ss[1]
      <4>1. 1 \in 1 .. n /\ ss[1] \in Seq(S)
        BY <1>1, <1>9
      <4>2. g[1] = g[1 - 1] \o ss[1]
        BY <1>7, <4>1
      <4>3. g[1 - 1] = <<>>
        BY <1>7
      <4> QED
        BY <4>1, <4>2, <4>3, ConcatEmptySeq
    <3> HIDE DEF g
    <3>2. \A i \in 1 .. n : g[i] = IF i = 1 THEN ss[i] ELSE h[i - 1] \o ss[i]
      <4> SUFFICES ASSUME NEW i \in 1 .. n, i # 1 PROVE g[i] = h[i - 1] \o ss[i]
        BY <3>1
      <4>1. i - 1 \in 1 .. n
        BY <1>1
      <4> QED
        BY <1>7, <4>1
    <3> QED
      BY <3>2
  <2>2. IsFlat(c)
    <3> HIDE DEF IsFlat, h
    <3> QED
      BY <2>1
  <2>3. FlattenSeq(ss) = c[n]
    BY <1>9 DEF FlattenSeq
  <2>4. \A i \in 1 .. n : c[i] = IF i = 1 THEN ss[i] ELSE c[i - 1] \o ss[i]
    <3> HIDE DEF c
    <3> QED
      BY <2>2
  <2> HIDE DEF c, h, IsFlat, g
  <2>5. g[1] = ss[1] /\ c[1] = ss[1]
    <3>1. 1 \in 1 .. n /\ ss[1] \in Seq(S)
      BY <1>1, <1>9
    <3>2. g[1] = g[1 - 1] \o ss[1]
      <4> DEFINE u == 1
      <4> HIDE DEF u
      <4>1. u \in 1 .. n
        BY <3>1 DEF u
      <4>2. g[u] = g[u - 1] \o ss[u]
        BY <1>7, <4>1
      <4> QED
        BY <4>2 DEF u
    <3>3. 1 - 1 = 0
      OBVIOUS
    <3>4. g[1] = <<>> \o ss[1]
      BY <1>7, <3>2, <3>3
    <3> QED
      BY <2>4, <3>1, <3>4, ConcatEmptySeq
  <2>6. Appends(c, ss, n) /\ Appends(g, ss, n)
    <3>1. \A i \in 2 .. n : i \in 1 .. n /\ i # 1
      BY <1>1
    <3>2. \A i \in 2 .. n : c[i] = c[i - 1] \o ss[i]
      BY <2>4, <3>1
    <3>3. \A i \in 2 .. n : g[i] = g[i - 1] \o ss[i]
      BY <1>7, <3>1
    <3> QED
      BY <3>2, <3>3 DEF Appends
  <2>7. c[1] = g[1] /\ n \in Nat
    BY <1>1, <2>5
  <2>8. c[n] = g[n]
    <3> HIDE DEF n
    <3> QED
      BY <1>9, <2>6, <2>7, SameRuns
  <2>9. g[n] = FlattenSeq(ss)
    BY <2>3, <2>8
  <2> QED
    BY <1>7, <2>9
<1> QED
  BY <1>8, <1>9

\* What it holds is what the sequences it is made of hold.
LEMMA FlattenElements ==
    ASSUME NEW S, NEW ss \in Seq(Seq(S))
    PROVE  /\ FlattenSeq(ss) \in Seq(S)
           /\ Elements(FlattenSeq(ss)) = UNION {Elements(ss[i]) : i \in DOMAIN ss}
<1>1. Len(ss) \in Nat /\ DOMAIN ss = 1 .. Len(ss)
      /\ \A i \in 1 .. Len(ss) : ss[i] \in Seq(S)
  BY LenProperties
<1>2. PICK f \in [0 .. Len(ss) -> Seq(S)] :
               /\ f[0] = <<>> /\ f[Len(ss)] = FlattenSeq(ss)
               /\ \A i \in 1 .. Len(ss) : f[i] = f[i - 1] \o ss[i]
  BY FlattenUnfolds
<1> DEFINE Upto(k) == UNION {Elements(ss[i]) : i \in 1 .. k}
           T == {k \in Nat : k <= Len(ss) => f[k] \in Seq(S) /\ Elements(f[k]) = Upto(k)}
<1>3. 0 \in T
  <2>1. Elements(<<>>) = {} /\ Upto(0) = {}
    BY DEF Elements
  <2>2. f[0] \in Seq(S)
    BY <1>2, EmptySeq
  <2> QED
    BY <1>2, <2>1, <2>2
<1>4. ASSUME NEW k \in Nat, k \in T PROVE k + 1 \in T
  <2> SUFFICES ASSUME k + 1 <= Len(ss)
               PROVE  f[k + 1] \in Seq(S) /\ Elements(f[k + 1]) = Upto(k + 1)
    OBVIOUS
  <2>1. k + 1 \in 1 .. Len(ss) /\ (k + 1) - 1 = k /\ k <= Len(ss)
    BY <1>1
  <2>2. f[k] \in Seq(S) /\ Elements(f[k]) = Upto(k)
    BY <1>4, <2>1
  <2>3. f[k + 1] = f[k] \o ss[k + 1]
    BY <1>2, <2>1
  <2>4. f[k + 1] \in Seq(S) /\ Elements(f[k + 1]) = Elements(f[k]) \cup Elements(ss[k + 1])
    BY <1>1, <2>1, <2>2, <2>3, ElementsOfConcat
  <2>5. Upto(k + 1) = Upto(k) \cup Elements(ss[k + 1])
    <3>1. 1 .. k + 1 = 1 .. k \cup {k + 1}
      OBVIOUS
    <3> QED
      BY <3>1
  <2> QED
    BY <2>2, <2>4, <2>5
<1> HIDE DEF T
<1>5. Len(ss) \in T
  BY <1>1, <1>3, <1>4, Induct
<1> QED
  BY <1>1, <1>2, <1>5 DEF T

\* The same of a function that is known by its domain.
LEMMA FlatMapElements ==
    ASSUME NEW S, NEW n \in Nat, NEW ss \in [1 .. n -> Seq(S)]
    PROVE  /\ FlattenSeq(ss) \in Seq(S)
           /\ \A x : x \in Elements(FlattenSeq(ss)) <=>
                     \E i \in 1 .. n : x \in Elements(ss[i])
<1>1. ss \in Seq(Seq(S)) /\ DOMAIN ss = 1 .. n
  BY SeqDef
<1>2. /\ FlattenSeq(ss) \in Seq(S)
      /\ Elements(FlattenSeq(ss)) = UNION {Elements(ss[i]) : i \in DOMAIN ss}
  BY <1>1, FlattenElements
<1> QED
  BY <1>1, <1>2

\* Of sequences of two, the i-th is at 2 * i - 1 and 2 * i.
LEMMA FlattenPairs ==
    ASSUME NEW S, NEW ss \in Seq(Seq(S)), \A i \in 1 .. Len(ss) : Len(ss[i]) = 2
    PROVE  /\ Len(FlattenSeq(ss)) = 2 * Len(ss)
           /\ \A i \in 1 .. Len(ss) :
                 /\ FlattenSeq(ss)[2 * i - 1] = ss[i][1]
                 /\ FlattenSeq(ss)[2 * i] = ss[i][2]
<1>1. Len(ss) \in Nat /\ \A i \in 1 .. Len(ss) : ss[i] \in Seq(S)
  BY LenProperties
<1>2. PICK f \in [0 .. Len(ss) -> Seq(S)] :
               /\ f[0] = <<>> /\ f[Len(ss)] = FlattenSeq(ss)
               /\ \A i \in 1 .. Len(ss) : f[i] = f[i - 1] \o ss[i]
  BY FlattenUnfolds
<1> DEFINE Paired(k) == /\ Len(f[k]) = 2 * k
                        /\ \A i \in 1 .. k : /\ f[k][2 * i - 1] = ss[i][1]
                                             /\ f[k][2 * i] = ss[i][2]
           T == {k \in Nat : k <= Len(ss) => Paired(k)}
<1>3. 0 \in T
  <2>1. Len(f[0]) = 0
    BY <1>2
  <2> QED
    BY <2>1
<1>4. ASSUME NEW k \in Nat, k \in T PROVE k + 1 \in T
  <2> SUFFICES ASSUME k + 1 <= Len(ss) PROVE Paired(k + 1)
    OBVIOUS
  <2>1. k + 1 \in 1 .. Len(ss) /\ (k + 1) - 1 = k /\ k <= Len(ss) /\ k \in 0 .. Len(ss)
    BY <1>1
  <2>2. Paired(k)
    BY <1>4, <2>1
  <2>3. f[k + 1] = f[k] \o ss[k + 1] /\ f[k] \in Seq(S) /\ ss[k + 1] \in Seq(S)
    BY <1>1, <1>2, <2>1
  <2>4. Len(ss[k + 1]) = 2
    BY <2>1
  <2>5. /\ Len(f[k] \o ss[k + 1]) = Len(f[k]) + Len(ss[k + 1])
        /\ \A i \in 1 .. Len(f[k]) + Len(ss[k + 1]) : (f[k] \o ss[k + 1])[i] =
              IF i <= Len(f[k]) THEN f[k][i] ELSE ss[k + 1][i - Len(f[k])]
    BY <2>3, ConcatProperties
  <2>6. /\ Len(f[k + 1]) = 2 * k + 2
        /\ \A i \in 1 .. 2 * k + 2 :
              f[k + 1][i] = IF i <= 2 * k THEN f[k][i] ELSE ss[k + 1][i - 2 * k]
    BY <2>2, <2>3, <2>4, <2>5
  <2> HIDE DEF Paired
  <2>7. ASSUME NEW i \in 1 .. k + 1
        PROVE  f[k + 1][2 * i - 1] = ss[i][1] /\ f[k + 1][2 * i] = ss[i][2]
    <3>1. 2 * i - 1 \in 1 .. 2 * k + 2 /\ 2 * i \in 1 .. 2 * k + 2
      OBVIOUS
    <3>2. CASE i <= k
      <4>1. 2 * i - 1 <= 2 * k /\ 2 * i <= 2 * k /\ i \in 1 .. k
        BY <3>2
      <4> QED
        BY <2>2, <2>6, <3>1, <4>1 DEF Paired
    <3>3. CASE i = k + 1
      <4>1. ~(2 * i - 1 <= 2 * k) /\ ~(2 * i <= 2 * k)
            /\ (2 * i - 1) - 2 * k = 1 /\ 2 * i - 2 * k = 2
        BY <3>3
      <4> QED
        BY <2>6, <3>1, <3>3, <4>1
    <3> QED
      BY <3>2, <3>3
  <2> QED
    BY <2>6, <2>7 DEF Paired
<1> HIDE DEF T
<1>5. Len(ss) \in T
  BY <1>1, <1>3, <1>4, Induct
<1> QED
  BY <1>1, <1>2, <1>5 DEF T

-----------------------------------------------------------------------------
(* Prefixes.                                                               *)

LEMMA PrefixAt ==
    ASSUME NEW S, NEW s \in Seq(S), NEW t \in Seq(S), IsPrefix(s, t)
    PROVE  Len(s) <= Len(t) /\ \A i \in 1 .. Len(s) : s[i] = t[i]
<1>1. Len(s) \in Nat /\ Len(t) \in Nat /\ Len(s) <= Len(t)
      /\ SubSeq(s, 1, Len(s)) = SubSeq(t, 1, Len(s))
  BY LenProperties DEF IsPrefix
<1>2. ASSUME NEW i \in 1 .. Len(s) PROVE s[i] = t[i]
  <2>1. SubSeq(s, 1, Len(s))[i] = s[i]
    BY <1>1
  <2>2. SubSeq(t, 1, Len(s))[i] = t[i]
    BY <1>1
  <2> QED
    BY <1>1, <2>1, <2>2
<1> QED
  BY <1>1, <1>2

LEMMA PrefixOfItself ==
    ASSUME NEW S, NEW s \in Seq(S)
    PROVE  IsPrefix(s, s)
<1>1. Len(s) \in Nat
  BY LenProperties
<1> QED
  BY <1>1 DEF IsPrefix

-----------------------------------------------------------------------------
(* Sequences put together, one after another.                              *)

Unfolds(f, ss) == f[0] = <<>> /\ \A i \in 1 .. Len(ss) : f[i] = f[i - 1] \o ss[i]

\* Whatever is put together step by step in this way is the whole.
LEMMA FlattenIs ==
    ASSUME NEW S, NEW ss \in Seq(Seq(S)), NEW f, Unfolds(f, ss)
    PROVE  /\ FlattenSeq(ss) = f[Len(ss)]
           /\ \A k \in 0 .. Len(ss) : f[k] \in Seq(S)
<1> DEFINE n == Len(ss)
<1>1. n \in Nat /\ \A i \in 1 .. n : ss[i] \in Seq(S)
  BY LenProperties
<1>2. PICK g \in [0 .. n -> Seq(S)] :
        /\ g[0] = <<>> /\ g[n] = FlattenSeq(ss)
        /\ \A i \in 1 .. n : g[i] = g[i - 1] \o ss[i]
  BY FlattenUnfolds
<1> DEFINE T == {k \in Nat : k <= n => f[k] = g[k]}
<1> HIDE DEF n
<1>3. 0 \in T
  BY <1>2 DEF Unfolds
<1>4. ASSUME NEW k \in Nat, k \in T PROVE k + 1 \in T
  <2> SUFFICES ASSUME k + 1 <= n PROVE f[k + 1] = g[k + 1]
    OBVIOUS
  <2>1. k + 1 \in 1 .. n /\ (k + 1) - 1 = k /\ k <= n
    BY <1>1
  <2>2. f[k + 1] = f[k] \o ss[k + 1]
    BY <2>1 DEF Unfolds, n
  <2>3. g[k + 1] = g[k] \o ss[k + 1]
    BY <1>2, <2>1
  <2> QED
    BY <1>4, <2>1, <2>2, <2>3
<1> HIDE DEF T
<1>5. Nat \subseteq T
  BY <1>3, <1>4, Induct
<1>6. \A k \in 0 .. n : f[k] = g[k]
  BY <1>1, <1>5 DEF T
<1>7. \A k \in 0 .. n : g[k] \in Seq(S)
  BY <1>2
<1>8. n \in 0 .. n
  BY <1>1
<1> QED
  BY <1>2, <1>6, <1>7, <1>8 DEF n

LEMMA FlattenHas ==
    ASSUME NEW S, NEW ss \in Seq(Seq(S))
    PROVE  \E f : Unfolds(f, ss)
<1>1. PICK g \in [0 .. Len(ss) -> Seq(S)] :
        /\ g[0] = <<>> /\ g[Len(ss)] = FlattenSeq(ss)
        /\ \A i \in 1 .. Len(ss) : g[i] = g[i - 1] \o ss[i]
  BY FlattenUnfolds
<1>2. Unfolds(g, ss)
  BY <1>1 DEF Unfolds
<1> QED
  BY <1>2

LEMMA FlattenEmpty == FlattenSeq(<<>>) = <<>>
BY EmptySeq DEF FlattenSeq

LEMMA FlattenOne ==
    ASSUME NEW S, NEW x \in Seq(S)
    PROVE  FlattenSeq(<<x>>) = x
<1> DEFINE V  == Seq(S)
           ss == <<x>>
           f  == [i \in 0 .. 1 |-> IF i = 0 THEN <<>> ELSE x]
<1>1. ss \in Seq(V) /\ Len(ss) = 1 /\ ss[1] = x
  OBVIOUS
<1>2. f[0] = <<>> /\ f[1] = x /\ 1 - 1 = 0
  OBVIOUS
<1>3. <<>> \o x = x
  BY ConcatEmptySeq
<1> HIDE DEF ss, f
<1>4. f[1] = f[1 - 1] \o ss[1]
  BY <1>1, <1>2, <1>3
<1>5. \A i \in 1 .. Len(ss) : i = 1
  BY <1>1
<1>6. Unfolds(f, ss)
  BY <1>2, <1>4, <1>5 DEF Unfolds
<1> QED
  BY <1>1, <1>2, <1>6, FlattenIs DEF ss

\* Putting together two lists of sequences.
LEMMA FlattenConcat ==
    ASSUME NEW S, NEW ss \in Seq(Seq(S)), NEW tt \in Seq(Seq(S))
    PROVE  FlattenSeq(ss \o tt) = FlattenSeq(ss) \o FlattenSeq(tt)
<1> DEFINE V  == Seq(S)
           n  == Len(ss)
           m  == Len(tt)
           uu == ss \o tt
<1>1. ss \in Seq(V) /\ tt \in Seq(V)
  OBVIOUS
<1> HIDE DEF V
<1>2. n \in Nat /\ m \in Nat
  BY <1>1, LenProperties
<1>3. /\ uu \in Seq(V) /\ Len(uu) = n + m
      /\ \A i \in 1 .. n + m : uu[i] = IF i <= n THEN ss[i] ELSE tt[i - n]
  BY <1>1, ConcatProperties
<1>4. PICK f : Unfolds(f, ss)
  BY FlattenHas DEF V
<1>5. PICK g : Unfolds(g, tt)
  BY FlattenHas DEF V
<1>6. FlattenSeq(ss) = f[n] /\ \A k \in 0 .. n : f[k] \in Seq(S)
  BY <1>4, FlattenIs DEF V
<1>7. FlattenSeq(tt) = g[m] /\ \A k \in 0 .. m : g[k] \in Seq(S)
  BY <1>5, FlattenIs DEF V
<1> DEFINE a == f[n]
           h == [i \in 0 .. n + m |-> IF i <= n THEN f[i] ELSE a \o g[i - n]]
<1> HIDE DEF n, m, uu
<1>8. a \in Seq(S) /\ a \o g[0] = a
  <2>1. n \in 0 .. n
    BY <1>2
  <2>2. a \in Seq(S) /\ g[0] = <<>>
    BY <1>5, <1>6, <2>1 DEF Unfolds
  <2> HIDE DEF a
  <2> QED
    BY <2>2, ConcatEmptySeq
<1> HIDE DEF a
<1>9. \A i \in 0 .. n : h[i] = f[i]
  BY <1>2
<1>10. \A i \in n .. n + m : h[i] = a \o g[i - n]
  <2> SUFFICES ASSUME NEW i \in n .. n + m PROVE h[i] = a \o g[i - n]
    OBVIOUS
  <2>1. i \in 0 .. n + m
    BY <1>2
  <2>2. CASE i = n
    <3>1. h[i] = f[n] /\ i - n = 0
      BY <1>2, <2>1, <2>2
    <3> QED
      BY <1>8, <3>1 DEF a
  <2>3. CASE i # n
    <3>1. ~(i <= n)
      BY <1>2, <2>3
    <3> QED
      BY <2>1, <3>1
  <2> QED
    BY <2>2, <2>3
<1> HIDE DEF h
<1>11. ASSUME NEW i \in 1 .. n + m PROVE h[i] = h[i - 1] \o uu[i]
  <2>1. CASE i <= n
    <3>1. i \in 0 .. n /\ i - 1 \in 0 .. n /\ i \in 1 .. n
      BY <1>2, <2>1
    <3>2. f[i] = f[i - 1] \o ss[i]
      BY <1>4, <3>1 DEF Unfolds, n
    <3> QED
      BY <1>3, <1>9, <2>1, <3>1, <3>2
  <2>2. CASE ~(i <= n)
    <3> DEFINE j == i - n
    <3>1. /\ i \in n .. n + m /\ i - 1 \in n .. n + m /\ (i - 1) - n = j - 1
          /\ j \in 1 .. m /\ j - 1 \in 0 .. m
      BY <1>2, <2>2
    <3>2. h[i] = a \o g[j] /\ h[i - 1] = a \o g[j - 1] /\ uu[i] = tt[j]
      BY <1>3, <1>10, <2>2, <3>1
    <3> HIDE DEF j
    <3>3. g[j] = g[j - 1] \o tt[j]
      BY <1>5, <3>1 DEF Unfolds, m
    <3>4. g[j - 1] \in Seq(S) /\ tt[j] \in Seq(S)
      <4>1. \A k \in 1 .. m : tt[k] \in V
        BY <1>1, LenProperties DEF m
      <4> QED
        BY <1>7, <3>1, <4>1 DEF V
    <3>5. (a \o g[j - 1]) \o tt[j] = a \o (g[j - 1] \o tt[j])
      <4> DEFINE y == g[j - 1]
                 z == tt[j]
      <4>1. a \in Seq(S) /\ y \in Seq(S) /\ z \in Seq(S)
        BY <1>8, <3>4
      <4> HIDE DEF y, z
      <4>2. (a \o y) \o z = a \o (y \o z)
        BY ONLY <4>1, ConcatAssociative, SMTT(40)
      <4> QED
        BY <4>2 DEF y, z
    <3> QED
      BY <3>2, <3>3, <3>5
  <2> QED
    BY <2>1, <2>2
<1>12. h[0] = <<>>
  <2>1. 0 \in 0 .. n
    BY <1>2
  <2> QED
    BY <1>4, <1>9, <2>1 DEF Unfolds
<1>13. Unfolds(h, uu)
  BY <1>3, <1>11, <1>12 DEF Unfolds
<1>14. FlattenSeq(uu) = h[n + m]
  BY <1>3, <1>13, FlattenIs DEF V
<1>15. h[n + m] = a \o g[m]
  <2>1. n + m \in n .. n + m /\ (n + m) - n = m
    BY <1>2
  <2> QED
    BY <1>10, <2>1
<1> QED
  BY <1>6, <1>7, <1>14, <1>15 DEF a, uu

LEMMA FlattenTyped ==
    ASSUME NEW S, NEW ss \in Seq(Seq(S))
    PROVE  FlattenSeq(ss) \in Seq(S)
<1>1. PICK f : Unfolds(f, ss)
  BY FlattenHas
<1>2. Len(ss) \in 0 .. Len(ss)
  BY LenProperties
<1> QED
  BY <1>1, <1>2, FlattenIs

\* Where the sequences come to lie in the whole.
LEMMA FlattenPlaces ==
    ASSUME NEW S, NEW ss \in Seq(Seq(S)), NEW f, Unfolds(f, ss)
    PROVE  /\ f[0] = <<>> /\ \A i \in 0 .. Len(ss) : Len(f[i]) \in Nat
           /\ \A i \in 1 .. Len(ss) : Len(f[i]) = Len(f[i - 1]) + Len(ss[i])
           /\ \A i \in 0 .. Len(ss) : Len(f[i]) <= Len(FlattenSeq(ss))
           /\ \A i \in 1 .. Len(ss) : \A a \in 1 .. Len(ss[i]) :
                 FlattenSeq(ss)[Len(f[i - 1]) + a] = ss[i][a]
<1> DEFINE n == Len(ss)
<1>1. n \in Nat /\ \A i \in 1 .. n : ss[i] \in Seq(S)
  BY LenProperties
<1>2. /\ f[0] = <<>> /\ FlattenSeq(ss) = f[n] /\ \A i \in 0 .. n : f[i] \in Seq(S)
      /\ \A i \in 1 .. n : f[i] = f[i - 1] \o ss[i]
  BY FlattenIs DEF Unfolds
<1> HIDE DEF n
<1>3. \A i \in 0 .. n : Len(f[i]) \in Nat
  BY <1>2, LenProperties
<1>4. ASSUME NEW i \in 1 .. n
      PROVE  /\ Len(f[i]) = Len(f[i - 1]) + Len(ss[i]) /\ Len(ss[i]) \in Nat
             /\ \A x \in 1 .. Len(f[i - 1]) : f[i][x] = f[i - 1][x]
             /\ \A a \in 1 .. Len(ss[i]) : f[i][Len(f[i - 1]) + a] = ss[i][a]
  <2> DEFINE u == f[i - 1]
             v == ss[i]
  <2>1. u \in Seq(S) /\ v \in Seq(S) /\ f[i] = u \o v
    <3>1. i - 1 \in 0 .. n
      BY <1>1
    <3> QED
      BY <1>1, <1>2, <3>1
  <2> HIDE DEF u, v
  <2>2. Len(u) \in Nat /\ Len(v) \in Nat
    BY <2>1, LenProperties
  <2>3. /\ Len(u \o v) = Len(u) + Len(v)
        /\ \A x \in 1 .. Len(u) + Len(v) : (u \o v)[x] = IF x <= Len(u) THEN u[x] ELSE v[x - Len(u)]
    BY <2>1, ConcatProperties
  <2>4. \A x \in 1 .. Len(u) : f[i][x] = u[x]
    BY <2>1, <2>2, <2>3
  <2>5. ASSUME NEW a \in 1 .. Len(v) PROVE f[i][Len(u) + a] = v[a]
    <3>1. Len(u) + a \in 1 .. Len(u) + Len(v) /\ ~(Len(u) + a <= Len(u))
          /\ (Len(u) + a) - Len(u) = a
      BY <2>2
    <3> QED
      BY <2>1, <2>3, <3>1
  <2> QED
    BY <2>1, <2>2, <2>3, <2>4, <2>5 DEF u, v
\* Nothing that is there moves any more.
<1> DEFINE Stays(i, k) == /\ Len(f[i]) <= Len(f[i + k])
                          /\ \A x \in 1 .. Len(f[i]) : f[i + k][x] = f[i][x]
<1>5. ASSUME NEW i \in 0 .. n, NEW k \in Nat, i + k <= n PROVE Stays(i, k)
  <2> DEFINE T == {l \in Nat : i + l <= n => Stays(i, l)}
  <2>1. 0 \in T
    <3>1. i + 0 = i /\ Len(f[i]) <= Len(f[i])
      BY <1>1, <1>3
    <3>2. Stays(i, 0)
      BY <3>1
    <3> HIDE DEF Stays
    <3> QED
      BY <3>2
  <2>2. ASSUME NEW l \in Nat, l \in T PROVE l + 1 \in T
    <3> SUFFICES ASSUME i + (l + 1) <= n PROVE Stays(i, l + 1)
      OBVIOUS
    <3> DEFINE j == i + (l + 1)
    <3>1. j \in 1 .. n /\ j - 1 = i + l /\ i + l <= n /\ i + l \in 0 .. n
      BY <1>1
    <3>2. Stays(i, l)
      BY <2>2, <3>1
    <3> HIDE DEF j
    <3>3. /\ Len(f[j]) = Len(f[i + l]) + Len(ss[j]) /\ Len(ss[j]) \in Nat
          /\ \A x \in 1 .. Len(f[i + l]) : f[j][x] = f[i + l][x]
      BY <1>4, <3>1, ZenonT(40)
    <3>4. Len(f[i]) \in Nat /\ Len(f[i + l]) \in Nat
      BY <1>3, <3>1
    <3>5. Len(f[i]) <= Len(f[j])
      <4> DEFINE p == Len(f[i])
                 q == Len(f[i + l])
                 r == Len(ss[j])
                 w == Len(f[j])
      <4>1. p <= q /\ p \in Nat /\ q \in Nat /\ r \in Nat /\ w = q + r
        BY <3>2, <3>3, <3>4
      <4> HIDE DEF p, q, r, w
      <4>2. p <= w
        BY <4>1
      <4> QED
        BY <4>2 DEF p, w
    <3>6. \A x \in 1 .. Len(f[i]) : x \in 1 .. Len(f[i + l])
      BY <3>2, <3>4
    <3>7. \A x \in 1 .. Len(f[i]) : f[j][x] = f[i][x]
      BY <3>2, <3>3, <3>6
    <3> QED
      BY <3>5, <3>7 DEF j
  <2> HIDE DEF T
  <2>3. k \in T
    BY <2>1, <2>2, Induct
  <2> QED
    BY <1>5, <2>3 DEF T
<1>6. ASSUME NEW i \in 0 .. n
      PROVE  /\ Len(f[i]) <= Len(f[n])
             /\ \A x \in 1 .. Len(f[i]) : f[n][x] = f[i][x]
  <2>1. n - i \in Nat /\ i + (n - i) = n
    BY <1>1
  <2> DEFINE k == n - i
  <2> HIDE DEF k
  <2>2. k \in Nat /\ i + k = n /\ i + k <= n
    BY <1>1, <2>1 DEF k
  <2>3. Stays(i, k)
    BY <1>5, <2>2
  <2>4. Len(f[i]) <= Len(f[i + k]) /\ \A x \in 1 .. Len(f[i]) : f[i + k][x] = f[i][x]
    BY <2>3
  <2> QED
    BY <2>2, <2>4
<1>7. ASSUME NEW i \in 1 .. n, NEW a \in 1 .. Len(ss[i])
      PROVE  f[n][Len(f[i - 1]) + a] = ss[i][a]
  <2> DEFINE x == Len(f[i - 1]) + a
  <2>1. i - 1 \in 0 .. n /\ i \in 0 .. n
    BY <1>1
  <2>2. Len(f[i - 1]) \in Nat
    BY <1>3, <2>1
  <2>3. x \in 1 .. Len(f[i]) /\ f[i][x] = ss[i][a]
    <3>1. Len(f[i]) = Len(f[i - 1]) + Len(ss[i]) /\ Len(ss[i]) \in Nat
      BY <1>4
    <3>2. f[i][x] = ss[i][a]
      BY <1>4
    <3>3. x \in 1 .. Len(f[i])
      <4> DEFINE p == Len(f[i - 1])
                 r == Len(ss[i])
                 w == Len(f[i])
      <4>1. p \in Nat /\ r \in Nat /\ w = p + r /\ a \in 1 .. r
        BY <2>2, <3>1
      <4> HIDE DEF p, r, w
      <4>2. p + a \in 1 .. w
        BY <4>1
      <4> QED
        BY <4>2 DEF p, w
    <3> QED
      BY <3>2, <3>3
  <2> HIDE DEF x
  <2>4. f[n][x] = f[i][x]
    BY <1>6, <2>1, <2>3
  <2> QED
    BY <2>3, <2>4 DEF x
<1> QED
  BY <1>2, <1>3, <1>4, <1>6, <1>7 DEF n

\* Lists of sequences of the same lengths are equally long in all.
LEMMA LengthsAgree ==
    ASSUME NEW S, NEW ss \in Seq(Seq(S)), NEW f, Unfolds(f, ss), NEW k \in 0 .. Len(ss),
           NEW V, NEW tt \in Seq(Seq(V)), Len(tt) = k,
           \A j \in 1 .. k : Len(tt[j]) = Len(ss[j])
    PROVE  Len(FlattenSeq(tt)) = Len(f[k])
<1> DEFINE n == Len(ss)
<1>1. PICK g : Unfolds(g, tt)
  BY FlattenHas
<1>2. n \in Nat
  BY LenProperties
<1>3. /\ f[0] = <<>> /\ \A i \in 0 .. n : Len(f[i]) \in Nat
      /\ \A i \in 1 .. n : Len(f[i]) = Len(f[i - 1]) + Len(ss[i])
  BY FlattenPlaces
<1>4. /\ g[0] = <<>> /\ \A i \in 1 .. k : Len(g[i]) = Len(g[i - 1]) + Len(tt[i])
  BY <1>1, FlattenPlaces
<1>5. FlattenSeq(tt) = g[k]
  BY <1>1, FlattenIs
<1> DEFINE T == {l \in Nat : l <= k => Len(g[l]) = Len(f[l])}
<1> HIDE DEF n
<1>6. 0 \in T
  BY <1>3, <1>4
<1>7. ASSUME NEW l \in Nat, l \in T PROVE l + 1 \in T
  <2> SUFFICES ASSUME l + 1 <= k PROVE Len(g[l + 1]) = Len(f[l + 1])
    OBVIOUS
  <2> DEFINE j == l + 1
  <2>1. j \in 1 .. k /\ j \in 1 .. n /\ j - 1 = l /\ l <= k
    BY <1>2 DEF n
  <2>2. Len(g[l]) = Len(f[l])
    BY <1>7, <2>1
  <2> HIDE DEF j
  <2>3. Len(g[j]) = Len(g[l]) + Len(tt[j]) /\ Len(f[j]) = Len(f[l]) + Len(ss[j])
    BY <1>3, <1>4, <2>1
  <2>4. Len(tt[j]) = Len(ss[j])
    BY <2>1
  <2>5. Len(g[j]) = Len(f[j])
    BY <2>2, <2>3, <2>4
  <2> QED
    BY <2>5 DEF j
<1> HIDE DEF T
<1>8. k \in Nat
  BY <1>2 DEF n
<1>9. k \in T
  BY <1>6, <1>7, <1>8, Induct
<1> QED
  BY <1>5, <1>8, <1>9 DEF T

\* The first sequence, and the others behind it.
LEMMA FlattenCons ==
    ASSUME NEW S, NEW ss \in Seq(Seq(S)), ss # <<>>
    PROVE  /\ Head(ss) \in Seq(S) /\ Tail(ss) \in Seq(Seq(S))
           /\ FlattenSeq(ss) = Head(ss) \o FlattenSeq(Tail(ss))
<1> DEFINE V == Seq(S)
           x == Head(ss)
           t == Tail(ss)
           one == <<x>>
<1>1. ss \in Seq(V)
  OBVIOUS
<1> HIDE DEF V
<1>2. x \in V /\ t \in Seq(V) /\ Len(t) = Len(ss) - 1 /\ \A i \in 1 .. Len(t) : t[i] = ss[i + 1]
  BY <1>1, HeadTailProperties
<1>3. x = ss[1] /\ Len(ss) \in Nat /\ Len(ss) # 0
  BY <1>1, LenProperties, EmptySeq
<1> HIDE DEF x, t
<1>4. one \in Seq(V) /\ Len(one) = 1 /\ one[1] = x
  BY <1>2
<1> HIDE DEF one
<1>5. /\ one \o t \in Seq(V) /\ Len(one \o t) = Len(one) + Len(t)
      /\ \A i \in 1 .. Len(one) + Len(t) : (one \o t)[i] = IF i <= Len(one) THEN one[i] ELSE t[i - Len(one)]
  <2>1. one \in Seq(V) /\ t \in Seq(V)
    BY <1>2, <1>4
  <2> QED
    BY ONLY <2>1, ConcatProperties
<1>6. Len(one \o t) = Len(ss)
  BY <1>2, <1>3, <1>4, <1>5
<1>7. ASSUME NEW i \in 1 .. Len(ss) PROVE (one \o t)[i] = ss[i]
  <2>1. CASE i = 1
    BY <1>2, <1>3, <1>4, <1>5, <2>1
  <2>2. CASE i # 1
    <3>1. /\ i \in 1 .. Len(one) + Len(t) /\ ~(i <= Len(one))
          /\ i - Len(one) \in 1 .. Len(t) /\ (i - Len(one)) + 1 = i
      BY <1>2, <1>3, <1>4, <2>2
    <3> QED
      BY <1>2, <1>5, <3>1
  <2> QED
    BY <2>1, <2>2
<1>8. ss = one \o t
  BY <1>1, <1>5, <1>6, <1>7, SeqEqual
<1>9. FlattenSeq(one \o t) = FlattenSeq(one) \o FlattenSeq(t)
  BY <1>2, <1>4, FlattenConcat DEF V
<1>10. FlattenSeq(one) = x
  BY <1>2, FlattenOne DEF V, one
<1> QED
  BY <1>2, <1>8, <1>9, <1>10 DEF V, x, t

\* The whole has at least what the last has.
LEMMA FlattenLast ==
    ASSUME NEW S, NEW ss \in Seq(Seq(S)), ss # <<>>, ss[Len(ss)] # <<>>
    PROVE  Len(FlattenSeq(ss)) \in Nat /\ Len(FlattenSeq(ss)) > 0
<1> DEFINE n == Len(ss)
           x == ss[n]
<1>1. n \in Nat /\ n # 0 /\ x \in Seq(S)
  <2> DEFINE V == Seq(S)
  <2>1. ss \in Seq(V)
    OBVIOUS
  <2> HIDE DEF V
  <2>2. Len(ss) \in Nat /\ Len(ss) # 0
    BY <2>1, LenProperties, EmptySeq
  <2>3. Len(ss) \in 1 .. Len(ss)
    BY <2>2
  <2>4. ss[Len(ss)] \in V
    BY <2>1, <2>3, LenProperties
  <2> QED
    BY <2>2, <2>4 DEF V
<1>2. Len(x) \in Nat /\ Len(x) # 0
  BY <1>1, LenProperties, EmptySeq
<1>3. PICK f : Unfolds(f, ss)
  BY FlattenHas
<1>4. /\ \A i \in 0 .. n : Len(f[i]) \in Nat
      /\ \A i \in 1 .. n : Len(f[i]) = Len(f[i - 1]) + Len(ss[i])
  BY <1>3, FlattenPlaces
<1>5. FlattenSeq(ss) = f[n]
  BY <1>3, FlattenIs
<1> HIDE DEF n
<1>6. Len(f[n]) = Len(f[n - 1]) + Len(ss[n])
  <2>1. n \in 1 .. n
    BY <1>1
  <2> QED
    BY <1>4, <2>1
<1>7. Len(f[n - 1]) \in Nat
  <2>1. n - 1 \in 0 .. n
    BY <1>1
  <2> QED
    BY <1>4, <2>1
<1> DEFINE a == Len(f[n - 1])
           b == Len(ss[n])
           c == Len(f[n])
<1>8. a \in Nat /\ b \in Nat /\ b # 0 /\ c = a + b
  BY <1>2, <1>6, <1>7 DEF n
<1> HIDE DEF a, b, c
<1>9. c \in Nat /\ c > 0
  BY <1>8
<1> QED
  BY <1>5, <1>9 DEF c

\* A list of two sequences.
LEMMA FlattenPair ==
    ASSUME NEW S, NEW a \in Seq(S), NEW b \in Seq(S), NEW ab, ab = <<a, b>>
    PROVE  ab \in Seq(Seq(S)) /\ FlattenSeq(ab) = a \o b
<1> DEFINE V == Seq(S)
           x == <<a>>
           y == <<b>>
           z == <<a, b>>
<1>1. x \in Seq(Seq(S)) /\ y \in Seq(Seq(S)) /\ z \in Seq(Seq(S))
  OBVIOUS
<1>2. z = x \o y
  <2>1. a \in V /\ b \in V
    OBVIOUS
  <2> HIDE DEF V
  <2>2. /\ x \in Seq(V) /\ Len(x) = 1 /\ x[1] = a
        /\ y \in Seq(V) /\ Len(y) = 1 /\ y[1] = b
        /\ z \in Seq(V) /\ Len(z) = 2 /\ z[1] = a /\ z[2] = b
    BY <2>1
  <2> HIDE DEF x, y, z
  <2>3. /\ x \o y \in Seq(V) /\ Len(x \o y) = Len(x) + Len(y)
        /\ \A i \in 1 .. Len(x) + Len(y) :
              (x \o y)[i] = IF i <= Len(x) THEN x[i] ELSE y[i - Len(x)]
    <3>1. x \in Seq(V) /\ y \in Seq(V)
      BY <2>2
    <3> QED
      BY ONLY <3>1, ConcatProperties
  <2>4. Len(x \o y) = 2 /\ (x \o y)[1] = a /\ (x \o y)[2] = b
    BY <2>2, <2>3
  <2>5. \A i \in 1 .. Len(z) : z[i] = (x \o y)[i]
    BY <2>2, <2>4
  <2> QED
    BY <2>2, <2>3, <2>4, <2>5, SeqEqual
<1>3. FlattenSeq(x) = a /\ FlattenSeq(y) = b
  BY FlattenOne
<1> HIDE DEF x, y, z
<1>4. FlattenSeq(x \o y) = FlattenSeq(x) \o FlattenSeq(y)
  BY <1>1, FlattenConcat
<1> QED
  BY <1>1, <1>2, <1>3, <1>4 DEF z

\* Two sequences in front of a list of others.
LEMMA FlattenTwo ==
    ASSUME NEW S, NEW a \in Seq(S), NEW b \in Seq(S), NEW ss \in Seq(Seq(S)),
           NEW ab, ab = <<a, b>>
    PROVE  ab \o ss \in Seq(Seq(S)) /\ FlattenSeq(ab \o ss) = (a \o b) \o FlattenSeq(ss)
<1> DEFINE V == Seq(S)
<1>1. ab \in Seq(Seq(S)) /\ FlattenSeq(ab) = a \o b
  BY FlattenPair
<1>2. FlattenSeq(ab \o ss) = FlattenSeq(ab) \o FlattenSeq(ss)
  BY <1>1, FlattenConcat
<1>3. ab \o ss \in Seq(Seq(S))
  <2>1. ab \in Seq(V) /\ ss \in Seq(V)
    BY <1>1
  <2> HIDE DEF V
  <2>2. ab \o ss \in Seq(V)
    BY <2>1
  <2> QED
    BY <2>2 DEF V
<1> QED
  BY <1>1, <1>2, <1>3

\* A sequence cut in two.
IsCut(ss, k, a, b) ==
    /\ ss = a \o b /\ Len(a) = k /\ Len(b) = Len(ss) - k
    /\ \A i \in 1 .. k : a[i] = ss[i]

LEMMA CutInTwo ==
    ASSUME NEW V, NEW ss \in Seq(V), NEW k \in 0 .. Len(ss)
    PROVE  /\ SubSeq(ss, 1, k) \in Seq(V)
           /\ \E b \in Seq(V) : IsCut(ss, k, SubSeq(ss, 1, k), b)
<1> DEFINE n == Len(ss)
           a == SubSeq(ss, 1, k)
           b == SubSeq(ss, k + 1, n)
<1>1. ss \in Seq(V)
  OBVIOUS
<1>2. n \in Nat /\ k \in Nat /\ k <= n /\ \A i \in 1 .. n : ss[i] \in V
  <2>1. n \in Nat
    BY <1>1, LenProperties
  <2> QED
    BY <1>1, <2>1, LenProperties
<1>3. a \in Seq(V) /\ Len(a) = k /\ \A i \in 1 .. k : a[i] = ss[i]
  <2>1. \A i \in 1 .. k : ss[i] \in V
    BY <1>2
  <2>2. /\ a \in Seq(V) /\ Len(a) = (IF 1 <= k THEN k - 1 + 1 ELSE 0)
        /\ \A i \in 1 .. k - 1 + 1 : a[i] = ss[1 + i - 1]
    <3> HIDE DEF n
    <3> QED
      BY <1>2, <2>1, SubSeqProperties
  <2> HIDE DEF a
  <2> QED
    BY <1>2, <2>2
<1>4. b \in Seq(V) /\ Len(b) = n - k /\ \A i \in 1 .. n - k : b[i] = ss[k + i]
  <2> DEFINE x == k + 1
  <2>1. x \in Int /\ n \in Int /\ \A i \in x .. n : ss[i] \in V
    <3> HIDE DEF n
    <3> QED
      BY <1>2
  <2>2. /\ b \in Seq(V) /\ Len(b) = (IF x <= n THEN n - x + 1 ELSE 0)
        /\ \A i \in 1 .. n - x + 1 : b[i] = ss[x + i - 1]
    <3> HIDE DEF n, x
    <3> QED
      BY <2>1, SubSeqProperties DEF x
  <2> HIDE DEF b, n
  <2>3. Len(b) = n - k
    BY <1>2, <2>2
  <2>4. ASSUME NEW i \in 1 .. n - k PROVE b[i] = ss[k + i]
    <3>1. i \in 1 .. n - x + 1 /\ x + i - 1 = k + i
      BY <1>2
    <3> QED
      BY <2>2, <3>1
  <2> QED
    BY <2>2, <2>3, <2>4
<1> HIDE DEF a, b, n
<1>5. /\ a \o b \in Seq(V) /\ Len(a \o b) = Len(a) + Len(b)
      /\ \A i \in 1 .. Len(a) + Len(b) : (a \o b)[i] = IF i <= Len(a) THEN a[i] ELSE b[i - Len(a)]
  <2>1. a \in Seq(V) /\ b \in Seq(V)
    BY <1>3, <1>4
  <2> QED
    BY ONLY <2>1, ConcatProperties
<1>6. Len(a \o b) = n
  BY <1>2, <1>3, <1>4, <1>5
<1>7. ASSUME NEW i \in 1 .. n PROVE (a \o b)[i] = ss[i]
  <2>1. i \in 1 .. Len(a) + Len(b)
    BY <1>5, <1>6
  <2>2. CASE i <= k
    BY <1>2, <1>3, <1>5, <2>1, <2>2
  <2>3. CASE ~(i <= k)
    <3>1. i - k \in 1 .. n - k /\ k + (i - k) = i
      BY <1>2, <2>3
    <3> QED
      BY <1>3, <1>4, <1>5, <2>1, <2>3, <3>1
  <2> QED
    BY <2>2, <2>3
<1>8. ss = a \o b
  <2>1. \A i \in 1 .. Len(ss) : ss[i] = (a \o b)[i]
    BY <1>7 DEF n
  <2> QED
    BY <1>1, <1>5, <1>6, <2>1, SeqEqual DEF n
<1>9. IsCut(ss, k, a, b)
  BY <1>3, <1>4, <1>8 DEF IsCut, n
<1> QED
  BY <1>3, <1>4, <1>9 DEF a

\* A list cut in two.
LEMMA FlattenParts ==
    ASSUME NEW S, NEW ss \in Seq(Seq(S)), NEW k \in 0 .. Len(ss)
    PROVE  \E b \in Seq(Seq(S)) :
              /\ SubSeq(ss, 1, k) \in Seq(Seq(S)) /\ Len(SubSeq(ss, 1, k)) = k
              /\ \A i \in 1 .. k : SubSeq(ss, 1, k)[i] = ss[i]
              /\ FlattenSeq(ss) = FlattenSeq(SubSeq(ss, 1, k)) \o FlattenSeq(b)
              /\ k = Len(ss) => b = <<>>
<1> DEFINE V == Seq(S)
           a == SubSeq(ss, 1, k)
<1>1. ss \in Seq(V)
  OBVIOUS
<1> HIDE DEF V
<1>2. PICK b \in Seq(V) :
        /\ SubSeq(ss, 1, k) \in Seq(V) /\ Len(SubSeq(ss, 1, k)) = k
        /\ \A i \in 1 .. k : SubSeq(ss, 1, k)[i] = ss[i]
        /\ ss = SubSeq(ss, 1, k) \o b /\ Len(b) = Len(ss) - k
  <2>1. SubSeq(ss, 1, k) \in Seq(V) /\ \E b \in Seq(V) : IsCut(ss, k, SubSeq(ss, 1, k), b)
    BY <1>1, CutInTwo
  <2> QED
    BY <2>1 DEF IsCut
<1>3. k = Len(ss) => b = <<>>
  <2>1. Len(ss) \in Nat
    BY <1>1, LenProperties
  <2> QED
    BY <1>2, <2>1, EmptySeq
<1>4. a \in Seq(Seq(S)) /\ b \in Seq(Seq(S)) /\ ss = a \o b
  BY <1>2 DEF V
<1> HIDE DEF a
<1>5. FlattenSeq(a \o b) = FlattenSeq(a) \o FlattenSeq(b)
  BY <1>4, FlattenConcat
<1> QED
  BY <1>2, <1>3, <1>4, <1>5 DEF a
=============================================================================
