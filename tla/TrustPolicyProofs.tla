-------------------------- MODULE TrustPolicyProofs --------------------------
(***************************************************************************)
(* Proofs about the trust policies: what terminals may lose of the file,   *)
(* for any number of them and any lengths of the sections, and that the    *)
(* recursion of the wildcards is what a pattern means.                     *)
(***************************************************************************)
EXTENDS TrustPolicy, SequenceFacts, FiniteSetTheorems

-----------------------------------------------------------------------------
(* The bytes of a text, and what a write leaves of the file under it.      *)

Weight(x) == IF x.pattern = None THEN 1 ELSE Size[x.pattern]

LEMMA WeightIsNat ==
    ASSUME NEW x \in Section
    PROVE  Weight(x) \in Nat
BY SizeAssumption DEF SizeAssumption, Section, Weight

LEMMA BytesIsNat ==
    ASSUME NEW s \in Seq(Section)
    PROVE  Bytes(s) \in Nat
<1> DEFINE n == Len(s)
           step == [x \in Nat \X Nat |->
                      IF x[1] \in 1 .. n THEN x[2] + Weight(s[x[1]]) ELSE 0]
           IsTotal(h) == h = [i \in 0 .. n |-> IF i = 0 THEN 0
                                               ELSE h[i - 1] + Weight(s[i])]
           c == CHOOSE x : IsTotal(x)
<1>1. n \in Nat /\ \A i \in 1 .. n : Weight(s[i]) \in Nat
  BY LenProperties, WeightIsNat
<1>2. step \in [Nat \X Nat -> Nat]
  <2> SUFFICES ASSUME NEW x \in Nat \X Nat
               PROVE  (IF x[1] \in 1 .. n THEN x[2] + Weight(s[x[1]]) ELSE 0) \in Nat
    OBVIOUS
  <2> HIDE DEF n
  <2> QED
    BY <1>1
<1>3. PICK g \in [0 .. n -> Nat] : Runs(g, n, 0, step)
  <2> HIDE DEF step, n
  <2> QED
    BY <1>1, <1>2, RunsExist
<1>4. IsTotal(g)
  <2>1. ASSUME NEW i \in 1 .. n PROVE g[i] = g[i - 1] + Weight(s[i])
    <3>1. i - 1 \in 0 .. n /\ i \in Nat
      BY <1>1
    <3>2. g[i - 1] \in Nat
      BY <3>1
    <3>3. <<i, g[i - 1]>> \in Nat \X Nat
      BY <3>1, <3>2
    <3>4. step[<<i, g[i - 1]>>] = g[i - 1] + Weight(s[i])
      BY <3>3
    <3> QED
      BY <1>3, <3>4 DEF Runs
  <2>2. g[0] = 0
    BY <1>3 DEF Runs
  <2> HIDE DEF step, n
  <2> QED
    BY <1>1, <2>1, <2>2
<1>5. IsTotal(c)
  <2> HIDE DEF IsTotal
  <2> QED
    BY <1>4
<1>6. Bytes(s) = c[n]
  BY DEF Bytes, Weight
<1> HIDE DEF c, n
<1>7. c[0] = 0 /\ \A i \in 1 .. n : c[i] = c[i - 1] + Weight(s[i])
  BY <1>1, <1>5
<1> DEFINE T == {k \in Nat : k <= n => c[k] \in Nat}
<1>8. ASSUME NEW k \in Nat, k \in T PROVE k + 1 \in T
  <2> SUFFICES ASSUME k + 1 <= n PROVE c[k + 1] \in Nat
    OBVIOUS
  <2>1. k + 1 \in 1 .. n /\ (k + 1) - 1 = k
    BY <1>1
  <2>2. c[k + 1] = c[k] + Weight(s[k + 1])
    BY <1>7, <2>1
  <2> QED
    BY <1>1, <1>8, <2>1, <2>2
<1>9. 0 \in T
  BY <1>7
<1> HIDE DEF T
<1>10. n \in T
  BY <1>1, <1>8, <1>9, Induct
<1> QED
  BY <1>1, <1>6, <1>10 DEF T

LEMMA EmptyHasNoBytes == Bytes(<<>>) = 0
<1> DEFINE IsTotal(h) == h = [i \in 0 .. 0 |-> IF i = 0 THEN 0
                              ELSE h[i - 1] + Weight(<<>>[i])]
           g == [i \in 0 .. 0 |-> 0]
           c == CHOOSE x : IsTotal(x)
<1>1. IsTotal(g)
  OBVIOUS
<1>2. IsTotal(c)
  <2> HIDE DEF IsTotal, g
  <2> QED
    BY <1>1
<1>3. Bytes(<<>>) = c[0]
  BY EmptySeq DEF Bytes, Weight
<1> HIDE DEF c
<1> QED
  BY <1>2, <1>3

\* The patterns of a text are those of its sections.
LEMMA PatternsOf ==
    ASSUME NEW s, NEW t, Elements(s) \subseteq Elements(t)
    PROVE  PatternsIn(s) \subseteq PatternsIn(t)
BY DEF PatternsIn, Elements

\* With nothing in the file, a write makes it what was written.  With
\* sections in it, they come behind.
LEMMA OverFile ==
    ASSUME NEW s \in Seq(Section), NEW old \in Seq(Section), NEW r \in Over(s, old)
    PROVE  /\ r \in Seq(Section)
           /\ PatternsIn(s) \subseteq PatternsIn(r)
           /\ old = <<>> => r = s
<1> DEFINE gone == {i \in DOMAIN old : Bytes(SubSeq(old, 1, i - 1)) < Bytes(s)}
           g    == Cardinality(gone)
           kept == SubSeq(old, g + 1, Len(old))
           torn == Bytes(SubSeq(old, 1, g)) > Bytes(s)
<1>1. r \in {s \o kept} \cup IF torn THEN {s \o <<Piece>> \o kept} ELSE {}
  BY DEF Over
<1>2. /\ Len(old) \in Nat /\ DOMAIN old = 1 .. Len(old)
      /\ \A i \in 1 .. Len(old) : old[i] \in Section
  BY LenProperties
<1>3. g \in Nat
  <2>1. IsFiniteSet(1 .. Len(old)) /\ gone \subseteq 1 .. Len(old)
    BY <1>2, FS_Interval
  <2> HIDE DEF gone
  <2> QED
    BY <2>1, FS_Subset, FS_CardinalityType
<1> HIDE DEF gone, g
<1>4. kept \in Seq(Section)
  <2>1. \A i \in g + 1 .. Len(old) : old[i] \in Section
    BY <1>2, <1>3
  <2>2. g + 1 \in Int /\ Len(old) \in Int
    BY <1>2, <1>3
  <2> QED
    BY <2>1, <2>2, SubSeqProperties
<1>5. Piece \in Section /\ <<Piece>> \in Seq(Section)
  <2>1. Piece \in Section
    BY DEF Piece, Section
  <2> QED
    BY <2>1
<1> HIDE DEF kept, torn
<1>6. /\ s \o kept \in Seq(Section)
      /\ Elements(s \o kept) = Elements(s) \cup Elements(kept)
  BY <1>4, ElementsOfConcat
<1>7. /\ s \o <<Piece>> \in Seq(Section)
      /\ Elements(s \o <<Piece>>) = Elements(s) \cup Elements(<<Piece>>)
  BY <1>5, ElementsOfConcat
<1>8. /\ s \o <<Piece>> \o kept \in Seq(Section)
      /\ Elements(s \o <<Piece>> \o kept) = Elements(s \o <<Piece>>) \cup Elements(kept)
  <2> DEFINE a == s \o <<Piece>>
  <2>1. a \in Seq(Section)
    BY <1>7
  <2> HIDE DEF a
  <2>2. a \o kept \in Seq(Section) /\ Elements(a \o kept) = Elements(a) \cup Elements(kept)
    BY <1>4, <2>1, ElementsOfConcat
  <2> QED
    BY <2>2 DEF a
<1>9. r \in Seq(Section) /\ Elements(s) \subseteq Elements(r)
  <2>1. r = s \o kept \/ r = s \o <<Piece>> \o kept
    BY <1>1
  <2>2. CASE r = s \o kept
    BY <1>6, <2>2
  <2>3. CASE r = s \o <<Piece>> \o kept
    BY <1>7, <1>8, <2>3
  <2> QED
    BY <2>1, <2>2, <2>3
<1>10. ASSUME old = <<>> PROVE r = s
  <2>1. gone = {}
    BY <1>2, <1>10 DEF gone
  <2>2. g = 0
    BY <2>1, FS_EmptySet DEF g
  <2>3. kept = <<>>
    <3>1. Len(old) = 0
      BY <1>10, EmptySeq
    <3> QED
      BY <1>10, <2>2, <3>1, SubSeqEmpty DEF kept
  <2>4. SubSeq(old, 1, g) = <<>>
    BY <2>2, SubSeqEmpty
  <2>5. Bytes(<<>>) = 0
    BY EmptyHasNoBytes
  <2>6. ~torn
    <3>1. Bytes(s) \in Nat
      BY BytesIsNat
    <3>2. ~(0 > Bytes(s))
      BY <3>1
    <3>3. Bytes(SubSeq(old, 1, g)) = 0
      BY <2>4, <2>5
    <3> QED
      BY <3>2, <3>3 DEF torn
  <2> QED
    BY <1>1, <2>3, <2>6, ConcatEmptySeq
<1> QED
  BY <1>9, <1>10, PatternsOf

-----------------------------------------------------------------------------
(* The invariant.                                                          *)

\* The file was emptied for a text, and still is.
Emptied ==
    \A t \in Terminal : pc[t] = "write" /\ t \notin stale => toml = <<>>

\* What is about to be added is one section, behind what was read.
Additions == {Piece} \cup {Policy(q) : q \in Pattern}
AddsOne ==
    \A t \in Terminal :
        pc[t] \in {"open", "write"} /\ adding[t] # None =>
            \E s \in Seq(Section), x \in Additions : text[t] = Append(s, x)

\* A terminal is about to write an outdated text: it will do harm.
Doomed == \E t \in Terminal : pc[t] = "write" /\ t \in stale

Holds(t) == told \subseteq PatternsIn(text[t])
Kept ==
    harm = {} /\ ~Doomed =>
        /\ \A t \in Terminal : pc[t] = "write" => Holds(t)
        /\ (\A t \in Terminal : pc[t] # "write") =>
              /\ told \subseteq Policies
              /\ \A t \in Terminal : pc[t] \in {"open", "editor"} => t \in stale \/ Holds(t)

\* A file that does not load has its reason, and so has a text that was read
\* from one, as long as it is not outdated.
Explained ==
    /\ ~Loads => blame # {}
    /\ \A t \in Terminal, s \in Seq(Section), x \in Additions :
         /\ pc[t] \in {"open", "write"} /\ adding[t] # None
         /\ t \notin stale /\ text[t] = Append(s, x)
         => Parses(s) \/ blame # {}

TrustInv == TypeOK /\ Emptied /\ AddsOne /\ Kept /\ Explained

LEMMA SectionsTyped ==
    ASSUME TypeOK
    PROVE  Sections \in Seq(Section) /\ Len(Sections) \in Nat
<1>1. <<>> \in Seq(Section)
  BY EmptySeq
<1>2. Sections \in Seq(Section)
  BY <1>1 DEF TypeOK, Sections
<1> QED
  BY <1>2, LenProperties

LEMMA PolicyTyped ==
    ASSUME NEW p \in Pattern
    PROVE  Policy(p) \in Section /\ Policy(p).pattern = p /\ Policy(p).identities = TRUE
BY DEF Policy, Section

LEMMA AdditionTyped ==
    ASSUME NEW x \in Additions
    PROVE  x \in Section
<1>1. x = Piece => x \in Section
  BY DEF Piece, Section
<1> QED
  BY <1>1, PolicyTyped DEF Additions

LEMMA PastedTyped ==
    ASSUME NEW p \in Pattern, NEW x \in Pasted(p)
    PROVE  x \in Additions
<1>1. x = Piece \/ (Key[p] # None /\ x = Policy(Key[p]))
  BY DEF Pasted
<1>2. Key[p] # None => Key[p] \in Pattern
  BY KeyAssumption DEF KeyAssumption
<1> QED
  BY <1>1, <1>2 DEF Additions

LEMMA TemplateTyped == Template \in Section
BY PatternAssumption DEF PatternAssumption, Template, Section

LEMMA EmptyParses == Parses(<<>>)
<1>1. DOMAIN <<>> = {} /\ Len(<<>>) = 0
  BY EmptySeq
<1>2. PatternsIn(<<>>) = {}
  BY <1>1 DEF PatternsIn
<1> QED
  BY <1>1, <1>2, FS_EmptySet DEF Parses

LEMMA InitTrust == Init => TrustInv
<1> SUFFICES ASSUME Init PROVE TrustInv
  OBVIOUS
<1>1. <<>> \in Seq(Section)
  BY EmptySeq
<1>2. TypeOK
  BY <1>1, BoundAssumption DEF BoundAssumption, Init, TypeOK
<1>3. Sections = <<>>
  BY DEF Init, Sections
<1>4. Explained
  BY <1>3, EmptyParses DEF Init, Explained, Loads
<1>5. Emptied /\ AddsOne /\ Kept
  BY <1>3 DEF Init, Emptied, AddsOne, Kept
<1> QED
  BY <1>2, <1>4, <1>5 DEF TrustInv

-----------------------------------------------------------------------------
(* The steps.                                                              *)

PCs == {"idle", "open", "write", "launch", "editor"}

LEMMA AtStep ==
    ASSUME TypeOK, NEW t \in Terminal, NEW l, NEW next \in PCs, At(t, l, next)
    PROVE  /\ pc[t] = l /\ pc'[t] = next /\ pc' \in [Terminal -> PCs]
           /\ \A u \in Terminal \ {t} : pc'[u] = pc[u]
BY DEF TypeOK, At, PCs

LEMMA InPatterns ==
    ASSUME NEW s, NEW p
    PROVE  p \in PatternsIn(s) <=> p # None /\ \E x \in Elements(s) : x.pattern = p
BY DEF PatternsIn, Elements

\* A text with one section more.
LEMMA Appended ==
    ASSUME NEW s \in Seq(Section), NEW x \in Section
    PROVE  /\ Append(s, x) \in Seq(Section)
           /\ Len(Append(s, x)) = Len(s) + 1
           /\ Append(s, x)[Len(Append(s, x))] = x
           /\ SubSeq(Append(s, x), 1, Len(Append(s, x)) - 1) = s
           /\ PatternsIn(Append(s, x)) = PatternsIn(s) \cup ({x.pattern} \ {None})
<1> DEFINE r == Append(s, x)
           n == Len(s)
<1>1. /\ r \in Seq(Section) /\ Len(r) = n + 1 /\ r[n + 1] = x
      /\ \A i \in 1 .. n : r[i] = s[i]
  BY AppendProperties
<1>2. n \in Nat /\ DOMAIN s = 1 .. n /\ DOMAIN r = 1 .. n + 1
      /\ \A i \in 1 .. n : s[i] \in Section
  BY <1>1, LenProperties
<1> HIDE DEF r
<1>3. SubSeq(r, 1, n) = s
  <2>1. 1 \in Int /\ n \in Int /\ \A i \in 1 .. n : r[i] \in Section
    BY <1>1, <1>2
  <2>2. /\ SubSeq(r, 1, n) \in Seq(Section)
        /\ Len(SubSeq(r, 1, n)) = IF 1 <= n THEN n - 1 + 1 ELSE 0
        /\ \A i \in 1 .. n - 1 + 1 : SubSeq(r, 1, n)[i] = r[1 + i - 1]
    BY <2>1, SubSeqProperties
  <2>3. Len(SubSeq(r, 1, n)) = n /\ \A i \in 1 .. n : SubSeq(r, 1, n)[i] = s[i]
    BY <1>1, <1>2, <2>2
  <2> QED
    BY <2>2, <2>3, SeqEqual
<1>4. PatternsIn(r) = PatternsIn(s) \cup ({x.pattern} \ {None})
  <2>1. \A p : (\E i \in DOMAIN r : r[i].pattern = p)
                 <=> p = x.pattern \/ \E i \in DOMAIN s : s[i].pattern = p
    BY <1>1, <1>2
  <2>2. \A z \in {r, s} : \A p :
          p \in PatternsIn(z) <=> p # None /\ \E i \in DOMAIN z : z[i].pattern = p
    BY DEF PatternsIn
  <2>3. \A p : p \in PatternsIn(r)
                 <=> p \in PatternsIn(s) \/ (p # None /\ p = x.pattern)
    BY <2>1, <2>2
  <2> QED
    BY <2>3
<1>5. Len(r) - 1 = n
  BY <1>1, <1>2
<1> QED
  BY <1>1, <1>3, <1>4, <1>5 DEF r

\* The patterns of a text can be counted.
LEMMA PatternsFinite ==
    ASSUME NEW s \in Seq(Section)
    PROVE  IsFiniteSet(PatternsIn(s))
<1> DEFINE All == {s[i].pattern : i \in 1 .. Len(s)}
           f   == [i \in 1 .. Len(s) |-> s[i].pattern]
<1>1. Len(s) \in Nat /\ DOMAIN s = 1 .. Len(s)
  BY LenProperties
<1>2. IsFiniteSet(1 .. Len(s))
  BY <1>1, FS_Interval
<1>3. f \in Surjection(1 .. Len(s), All)
  BY DEF Surjection
<1> HIDE DEF f
<1>4. IsFiniteSet(All)
  BY <1>2, <1>3, FS_Surjection
<1>5. PatternsIn(s) \subseteq All
  BY <1>1 DEF PatternsIn
<1> HIDE DEF All
<1> QED
  BY <1>4, <1>5, FS_Subset

\* What loads still does with one policy more, if its pattern is a new one.
LEMMA StillParses ==
    ASSUME NEW s \in Seq(Section), NEW q \in Pattern, Parses(s), q \notin PatternsIn(s)
    PROVE  Parses(Append(s, Policy(q)))
<1> DEFINE r == Append(s, Policy(q))
<1>1. Policy(q) \in Section /\ Policy(q).pattern = q /\ Policy(q).identities
  BY PolicyTyped
<1>2. /\ r \in Seq(Section) /\ Len(r) = Len(s) + 1
      /\ PatternsIn(r) = PatternsIn(s) \cup ({q} \ {None})
  BY <1>1, Appended
<1>3. /\ Len(s) \in Nat /\ DOMAIN s = 1 .. Len(s) /\ DOMAIN r = 1 .. Len(s) + 1
      /\ r[Len(s) + 1] = Policy(q) /\ \A i \in 1 .. Len(s) : r[i] = s[i]
  BY <1>1, <1>2, AppendProperties, LenProperties
<1> HIDE DEF r
<1>4. PatternsIn(r) = PatternsIn(s) \cup {q}
  BY <1>2, NoneAssumption DEF NoneAssumption
<1>5. Cardinality(PatternsIn(r)) = Cardinality(PatternsIn(s)) + 1
  BY <1>4, PatternsFinite, FS_AddElement
<1>6. Cardinality(PatternsIn(r)) = Len(r)
  BY <1>2, <1>5 DEF Parses
<1>7. \A i \in DOMAIN r : r[i].identities
  <2>1. \A i \in 1 .. Len(s) : s[i].identities
    BY <1>3 DEF Parses
  <2> QED
    BY <1>1, <1>3, <2>1
<1> QED
  BY <1>6, <1>7 DEF Parses, r

LEMMA TrustStep ==
    ASSUME TrustInv, NEW t \in Terminal, NEW p \in Pattern, Trust(t, p)
    PROVE  TrustInv'
<1>1. /\ pc[t] = "idle" /\ pc'[t] = "open" /\ pc' \in [Terminal -> PCs]
      /\ \A u \in Terminal \ {t} : pc'[u] = pc[u]
  BY AtStep DEF TrustInv, Trust, PCs
<1>2. PICK x \in Pasted(p) : text' = [text EXCEPT ![t] = Append(Sections, x)]
  BY DEF Trust
<1> DEFINE new == Append(Sections, x)
<1>3. /\ text' = [text EXCEPT ![t] = new] /\ adding' = [adding EXCEPT ![t] = p]
      /\ toml' = toml /\ stale' = stale /\ told' = told /\ harm' = harm /\ blame' = blame
      /\ faults' = faults /\ Sections' = Sections
  BY <1>2 DEF Trust, history, Sections
<1>4. TypeOK /\ Sections \in Seq(Section) /\ x \in Additions /\ x \in Section
  BY SectionsTyped, PastedTyped, AdditionTyped DEF TrustInv
<1>5. /\ new \in Seq(Section) /\ Policies \subseteq PatternsIn(new)
      /\ SubSeq(new, 1, Len(new) - 1) = Sections
  BY <1>4, Appended DEF Policies
<1>6. \E s \in Seq(Section), y \in Additions : new = Append(s, y)
  BY <1>4
<1> HIDE DEF new
<1>7. /\ text'[t] = new /\ adding'[t] = p
      /\ \A u \in Terminal \ {t} : text'[u] = text[u] /\ adding'[u] = adding[u]
  BY <1>3, <1>4 DEF TypeOK
<1>8. TypeOK'
  <2>1. text' \in [Terminal -> Seq(Section)]
    BY <1>3, <1>4, <1>5 DEF TypeOK
  <2>2. adding' \in [Terminal -> Pattern \cup {None}]
    BY <1>3, <1>4 DEF TypeOK
  <2>3. \A u \in Terminal :
          /\ adding'[u] # None => pc'[u] \in {"open", "write"}
          /\ text'[u] # <<>> => pc'[u] \in {"open", "write", "editor"}
    BY <1>1, <1>4, <1>7 DEF TypeOK
  <2>4. stale' \subseteq {u \in Terminal : pc'[u] # "idle"}
    BY <1>1, <1>3, <1>4 DEF TypeOK
  <2> QED
    BY <1>1, <1>3, <1>4, <2>1, <2>2, <2>3, <2>4 DEF TypeOK, PCs
<1>9. Emptied'
  BY <1>1, <1>3 DEF TrustInv, Emptied
<1>10. AddsOne'
  <2>1. ASSUME NEW u \in Terminal \ {t}, pc'[u] \in {"open", "write"}, adding'[u] # None
        PROVE  \E s \in Seq(Section), y \in Additions : text'[u] = Append(s, y)
    BY <1>1, <1>7, <2>1 DEF TrustInv, AddsOne
  <2> QED
    BY <1>6, <1>7, <2>1 DEF AddsOne
<1>11. Kept'
  <2> SUFFICES ASSUME harm' = {}, ~Doomed' PROVE
        /\ \A u \in Terminal : pc'[u] = "write" => Holds(u)'
        /\ (\A u \in Terminal : pc'[u] # "write") =>
              /\ told' \subseteq Policies'
              /\ \A u \in Terminal : pc'[u] \in {"open", "editor"} => u \in stale' \/ Holds(u)'
    BY DEF Kept
  <2>1. harm = {} /\ ~Doomed
    BY <1>1, <1>3 DEF Doomed
  <2>2. \A u \in Terminal : pc[u] = "write" <=> pc'[u] = "write"
    BY <1>1
  <2>3. Policies' = Policies /\ \A u \in Terminal \ {t} : Holds(u)' <=> Holds(u)
    BY <1>3, <1>7 DEF Policies, Holds
  <2>4. told \subseteq Policies => Holds(t)'
    BY <1>3, <1>5, <1>7 DEF Holds
  <2> QED
    BY <1>1, <1>3, <2>1, <2>2, <2>3, <2>4 DEF TrustInv, Kept
<1>12. Explained'
  <2>1. Loads' <=> Loads
    BY <1>3 DEF Loads, Parses, PatternsIn
  <2>2. ASSUME NEW u \in Terminal, NEW s \in Seq(Section), NEW y \in Additions,
               pc'[u] \in {"open", "write"}, adding'[u] # None,
               u \notin stale', text'[u] = Append(s, y)
        PROVE  Parses(s) \/ blame' # {}
    <3>1. CASE u = t
      <4>1. s = Sections
        BY <1>5, <1>7, <2>2, <3>1, Appended, AdditionTyped
      <4> QED
        BY <1>3, <4>1 DEF TrustInv, Explained, Loads
    <3>2. CASE u # t
      BY <1>1, <1>3, <1>7, <2>2, <3>2 DEF TrustInv, Explained
    <3> QED
      BY <3>1, <3>2
  <2> QED
    BY <1>3, <2>1, <2>2 DEF TrustInv, Explained
<1> QED
  BY <1>8, <1>9, <1>10, <1>11, <1>12 DEF TrustInv

\* nxpk trust --edit, to where the editor is started: what it may write is
\* the template alone.
LEMMA StartEditStep ==
    ASSUME TrustInv, NEW t \in Terminal, StartEdit(t)
    PROVE  TrustInv'
<1> DEFINE next == IF toml = None THEN "open" ELSE "launch"
           new  == IF toml = None THEN <<Template>> ELSE text[t]
<1>1. /\ At(t, "idle", next) /\ next \in PCs
      /\ toml' = toml /\ adding' = adding /\ faults' = faults
      /\ stale' = stale /\ told' = told /\ harm' = harm /\ blame' = blame
      /\ Sections' = Sections
  BY DEF StartEdit, history, Sections, PCs
<1>2. TypeOK /\ <<Template>> \in Seq(Section)
  <2>1. Template \in Section
    BY TemplateTyped
  <2> QED
    BY <2>1 DEF TrustInv
<1>3. text' = [text EXCEPT ![t] = new]
  BY <1>2 DEF StartEdit, TypeOK
<1> HIDE DEF next
<1>4. /\ pc[t] = "idle" /\ pc'[t] = next /\ pc' \in [Terminal -> PCs]
      /\ \A u \in Terminal \ {t} : pc'[u] = pc[u]
  BY <1>1, <1>2, AtStep
<1>5. new \in Seq(Section) /\ text[t] = <<>> /\ adding[t] = None /\ t \notin stale
  BY <1>2, <1>4 DEF TypeOK
<1>6. next = "open" \/ (next = "launch" /\ new = <<>>)
  BY <1>5 DEF next
<1>7. toml = None => Sections = <<>> /\ Policies = {}
  BY EmptySeq DEF Sections, Policies, PatternsIn
<1>8. next = "open" => toml = None
  BY DEF next
<1> HIDE DEF new
<1>9. text'[t] = new /\ \A u \in Terminal \ {t} : text'[u] = text[u]
  BY <1>2, <1>3 DEF TypeOK
<1>10. TypeOK'
  <2>1. text' \in [Terminal -> Seq(Section)]
    BY <1>2, <1>3, <1>5 DEF TypeOK
  <2>2. \A u \in Terminal :
          /\ adding'[u] # None => pc'[u] \in {"open", "write"}
          /\ text'[u] # <<>> => pc'[u] \in {"open", "write", "editor"}
    BY <1>1, <1>2, <1>4, <1>5, <1>6, <1>9 DEF TypeOK
  <2>3. stale' \subseteq {u \in Terminal : pc'[u] # "idle"}
    BY <1>1, <1>2, <1>4, <1>5 DEF TypeOK
  <2> QED
    BY <1>1, <1>2, <1>4, <2>1, <2>2, <2>3 DEF TypeOK, PCs
<1>11. Emptied'
  BY <1>1, <1>4, <1>6 DEF TrustInv, Emptied
<1>12. AddsOne'
  <2>1. ASSUME NEW u \in Terminal \ {t}, pc'[u] \in {"open", "write"}, adding'[u] # None
        PROVE  \E s \in Seq(Section), x \in Additions : text'[u] = Append(s, x)
    BY <1>1, <1>4, <1>9, <2>1 DEF TrustInv, AddsOne
  <2> QED
    BY <1>1, <1>5, <2>1 DEF AddsOne
<1>13. Kept'
  <2> SUFFICES ASSUME harm' = {}, ~Doomed' PROVE
        /\ \A u \in Terminal : pc'[u] = "write" => Holds(u)'
        /\ (\A u \in Terminal : pc'[u] # "write") =>
              /\ told' \subseteq Policies'
              /\ \A u \in Terminal : pc'[u] \in {"open", "editor"} => u \in stale' \/ Holds(u)'
    BY DEF Kept
  <2>1. harm = {} /\ ~Doomed
    BY <1>1, <1>4 DEF Doomed
  <2>2. \A u \in Terminal : pc[u] = "write" <=> pc'[u] = "write"
    BY <1>4, <1>6
  <2>3. Policies' = Policies /\ \A u \in Terminal \ {t} : Holds(u)' <=> Holds(u)
    BY <1>1, <1>9 DEF Policies, Holds
  <2>4. told \subseteq Policies /\ next = "open" => Holds(t)'
    BY <1>1, <1>7, <1>8 DEF Holds
  <2> QED
    BY <1>1, <1>4, <1>6, <2>1, <2>2, <2>3, <2>4 DEF TrustInv, Kept
<1>14. Explained'
  <2>1. Loads' <=> Loads
    BY <1>1 DEF Loads, Parses, PatternsIn
  <2>2. ASSUME NEW u \in Terminal \ {t}, NEW s \in Seq(Section), NEW x \in Additions,
               pc'[u] \in {"open", "write"}, adding'[u] # None,
               u \notin stale', text'[u] = Append(s, x)
        PROVE  Parses(s) \/ blame' # {}
    BY <1>1, <1>4, <1>9, <2>2 DEF TrustInv, Explained
  <2> QED
    BY <1>1, <1>5, <2>1, <2>2 DEF TrustInv, Explained
<1> QED
  BY <1>10, <1>11, <1>12, <1>13, <1>14 DEF TrustInv

\* The editor has what the file holds.
LEMMA OpenEditorStep ==
    ASSUME TrustInv, NEW t \in Terminal, OpenEditor(t)
    PROVE  TrustInv'
<1>1. /\ pc[t] = "launch" /\ pc'[t] = "editor" /\ pc' \in [Terminal -> PCs]
      /\ \A u \in Terminal \ {t} : pc'[u] = pc[u]
  BY AtStep DEF TrustInv, OpenEditor, PCs
<1>2. /\ text' = [text EXCEPT ![t] = Sections] /\ stale' = stale \ {t}
      /\ toml' = toml /\ adding' = adding /\ told' = told /\ harm' = harm /\ blame' = blame
      /\ faults' = faults /\ Sections' = Sections
  BY DEF OpenEditor, Sections
<1>3. TypeOK /\ Sections \in Seq(Section)
  BY SectionsTyped DEF TrustInv
<1>4. text'[t] = Sections /\ \A u \in Terminal \ {t} : text'[u] = text[u]
  BY <1>2, <1>3 DEF TypeOK
<1>5. adding[t] = None
  BY <1>1, <1>3 DEF TypeOK
<1>6. TypeOK'
  <2>1. text' \in [Terminal -> Seq(Section)]
    BY <1>2, <1>3 DEF TypeOK
  <2>2. \A u \in Terminal :
          /\ adding'[u] # None => pc'[u] \in {"open", "write"}
          /\ text'[u] # <<>> => pc'[u] \in {"open", "write", "editor"}
    BY <1>1, <1>2, <1>3, <1>4, <1>5 DEF TypeOK
  <2>3. stale' \subseteq {u \in Terminal : pc'[u] # "idle"}
    BY <1>1, <1>2, <1>3 DEF TypeOK
  <2> QED
    BY <1>1, <1>2, <1>3, <2>1, <2>2, <2>3 DEF TypeOK, PCs
<1>7. Emptied'
  BY <1>1, <1>2 DEF TrustInv, Emptied
<1>8. AddsOne'
  <2>1. ASSUME NEW u \in Terminal \ {t}, pc'[u] \in {"open", "write"}, adding'[u] # None
        PROVE  \E s \in Seq(Section), x \in Additions : text'[u] = Append(s, x)
    BY <1>1, <1>2, <1>4, <2>1 DEF TrustInv, AddsOne
  <2> QED
    BY <1>2, <1>5, <2>1 DEF AddsOne
<1>9. Kept'
  <2> SUFFICES ASSUME harm' = {}, ~Doomed' PROVE
        /\ \A u \in Terminal : pc'[u] = "write" => Holds(u)'
        /\ (\A u \in Terminal : pc'[u] # "write") =>
              /\ told' \subseteq Policies'
              /\ \A u \in Terminal : pc'[u] \in {"open", "editor"} => u \in stale' \/ Holds(u)'
    BY DEF Kept
  <2>1. harm = {} /\ ~Doomed
    BY <1>1, <1>2 DEF Doomed
  <2>2. \A u \in Terminal : pc[u] = "write" <=> pc'[u] = "write"
    BY <1>1
  <2>3. Policies' = Policies /\ \A u \in Terminal \ {t} : Holds(u)' <=> Holds(u)
    BY <1>2, <1>4 DEF Policies, Holds
  <2>4. told \subseteq Policies => Holds(t)'
    BY <1>2, <1>4 DEF Holds, Policies
  <2> QED
    BY <1>1, <1>2, <2>1, <2>2, <2>3, <2>4 DEF TrustInv, Kept
<1>10. Explained'
  <2>1. Loads' <=> Loads
    BY <1>2 DEF Loads, Parses, PatternsIn
  <2>2. ASSUME NEW u \in Terminal \ {t}, NEW s \in Seq(Section), NEW x \in Additions,
               pc'[u] \in {"open", "write"}, adding'[u] # None,
               u \notin stale', text'[u] = Append(s, x)
        PROVE  Parses(s) \/ blame' # {}
    BY <1>1, <1>2, <1>4, <2>2 DEF TrustInv, Explained
  <2> QED
    BY <1>2, <1>5, <2>1, <2>2 DEF TrustInv, Explained
<1> QED
  BY <1>6, <1>7, <1>8, <1>9, <1>10 DEF TrustInv

\* The editor is left without a change.
LEMMA QuitStep ==
    ASSUME TrustInv, NEW t \in Terminal, Quit(t)
    PROVE  TrustInv'
<1>1. /\ pc[t] = "editor" /\ pc'[t] = "idle" /\ pc' \in [Terminal -> PCs]
      /\ \A u \in Terminal \ {t} : pc'[u] = pc[u]
  BY AtStep DEF TrustInv, Quit, PCs
<1>2. /\ text' = [text EXCEPT ![t] = <<>>] /\ stale' = stale \ {t}
      /\ toml' = toml /\ adding' = adding /\ told' = told /\ harm' = harm /\ blame' = blame
      /\ faults' = faults /\ Sections' = Sections
  BY DEF Quit, Sections
<1>3. TypeOK /\ <<>> \in Seq(Section)
  BY EmptySeq DEF TrustInv
<1>4. text'[t] = <<>> /\ \A u \in Terminal \ {t} : text'[u] = text[u]
  BY <1>2, <1>3 DEF TypeOK
<1>5. adding[t] = None
  BY <1>1, <1>3 DEF TypeOK
<1>6. TypeOK'
  <2>1. text' \in [Terminal -> Seq(Section)]
    BY <1>2, <1>3 DEF TypeOK
  <2>2. \A u \in Terminal :
          /\ adding'[u] # None => pc'[u] \in {"open", "write"}
          /\ text'[u] # <<>> => pc'[u] \in {"open", "write", "editor"}
    BY <1>1, <1>2, <1>3, <1>4, <1>5 DEF TypeOK
  <2>3. stale' \subseteq {u \in Terminal : pc'[u] # "idle"}
    BY <1>1, <1>2, <1>3 DEF TypeOK
  <2> QED
    BY <1>1, <1>2, <1>3, <2>1, <2>2, <2>3 DEF TypeOK, PCs
<1>7. Emptied'
  BY <1>1, <1>2 DEF TrustInv, Emptied
<1>8. AddsOne'
  <2>1. ASSUME NEW u \in Terminal \ {t}, pc'[u] \in {"open", "write"}, adding'[u] # None
        PROVE  \E s \in Seq(Section), x \in Additions : text'[u] = Append(s, x)
    BY <1>1, <1>2, <1>4, <2>1 DEF TrustInv, AddsOne
  <2> QED
    BY <1>2, <1>5, <2>1 DEF AddsOne
<1>9. Kept'
  <2> SUFFICES ASSUME harm' = {}, ~Doomed' PROVE
        /\ \A u \in Terminal : pc'[u] = "write" => Holds(u)'
        /\ (\A u \in Terminal : pc'[u] # "write") =>
              /\ told' \subseteq Policies'
              /\ \A u \in Terminal : pc'[u] \in {"open", "editor"} => u \in stale' \/ Holds(u)'
    BY DEF Kept
  <2>1. harm = {} /\ ~Doomed
    BY <1>1, <1>2 DEF Doomed
  <2>2. \A u \in Terminal : pc[u] = "write" <=> pc'[u] = "write"
    BY <1>1
  <2>3. Policies' = Policies /\ \A u \in Terminal \ {t} : Holds(u)' <=> Holds(u)
    BY <1>2, <1>4 DEF Policies, Holds
  <2> QED
    BY <1>1, <1>2, <2>1, <2>2, <2>3 DEF TrustInv, Kept
<1>10. Explained'
  <2>1. Loads' <=> Loads
    BY <1>2 DEF Loads, Parses, PatternsIn
  <2>2. ASSUME NEW u \in Terminal \ {t}, NEW s \in Seq(Section), NEW x \in Additions,
               pc'[u] \in {"open", "write"}, adding'[u] # None,
               u \notin stale', text'[u] = Append(s, x)
        PROVE  Parses(s) \/ blame' # {}
    BY <1>1, <1>2, <1>4, <2>2 DEF TrustInv, Explained
  <2> QED
    BY <1>2, <1>5, <2>1, <2>2 DEF TrustInv, Explained
<1> QED
  BY <1>6, <1>7, <1>8, <1>9, <1>10 DEF TrustInv

\* Who changes the file outdates the texts of all others at work, and a text
\* of the file as it was before does harm.
LEMMA ChangesFile ==
    ASSUME TypeOK, NEW t \in Terminal, stale' \in {stale \cup Busy(t), (stale \ {t}) \cup Busy(t)},
           pc' \in [Terminal -> PCs], \A u \in Terminal \ {t} : pc'[u] = pc[u]
    PROVE  /\ \A u \in Terminal \ {t} : u \in stale' <=> pc'[u] # "idle"
           /\ ~Doomed' => \A u \in Terminal \ {t} : pc[u] # "write"
BY DEF TypeOK, Busy, Doomed

LEMMA Outdated ==
    ASSUME NEW t \in Terminal, Outdates(t)
    PROVE  /\ stale' \in {stale \cup Busy(t), (stale \ {t}) \cup Busy(t)}
           /\ t \notin stale'
BY DEF Outdates, Busy

\* What broke the file is one of these.
Causes == {"cut", "overlap", "template", "quotes", "twice", "edit"}

LEMMA BlamesTyped ==
    ASSUME TypeOK, NEW rs \in SUBSET Causes, Blames(rs)
    PROVE  /\ blame' \subseteq Causes
           /\ rs # {} \/ blame # {} \/ Loads' => (~Loads' => blame' # {})
BY DEF TypeOK, Blames, Causes

LEMMA ReasonsTyped ==
    ASSUME NEW t \in Terminal
    PROVE  Reasons(t) \in SUBSET Causes
BY DEF Reasons, Causes

LEMMA NoHarmNotStale ==
    ASSUME NEW t \in Terminal, Overlaps(t), harm' = {}
    PROVE  t \notin stale /\ harm = {}
BY DEF Overlaps

\* The file is emptied for a text.
LEMMA OpenStep ==
    ASSUME TrustInv, NEW t \in Terminal, Open(t)
    PROVE  TrustInv'
<1>1. /\ pc[t] = "open" /\ pc'[t] = "write" /\ pc' \in [Terminal -> PCs]
      /\ \A u \in Terminal \ {t} : pc'[u] = pc[u]
  BY AtStep DEF TrustInv, Open, PCs
<1>2. /\ toml' = <<>> /\ text' = text /\ adding' = adding /\ told' = told
      /\ faults' = faults /\ blame' = blame /\ stale' = stale \cup Busy(t) /\ Overlaps(t)
  BY DEF Open
<1>3. TypeOK
  BY DEF TrustInv
<1>4. /\ \A u \in Terminal \ {t} : u \in stale' <=> pc'[u] # "idle"
      /\ ~Doomed' => \A u \in Terminal \ {t} : pc[u] # "write"
  BY <1>1, <1>2, <1>3, ChangesFile
<1>5. Sections' = <<>> /\ <<>> \in Seq(Section)
  BY <1>2, EmptySeq DEF Sections
<1>6. TypeOK'
  <2>1. \A u \in Terminal :
          /\ adding'[u] # None => pc'[u] \in {"open", "write"}
          /\ text'[u] # <<>> => pc'[u] \in {"open", "write", "editor"}
    BY <1>1, <1>2, <1>3 DEF TypeOK
  <2>2. stale' \subseteq {u \in Terminal : pc'[u] # "idle"}
    BY <1>1, <1>2, <1>3 DEF TypeOK, Busy
  <2>3. harm' \subseteq {"cut", "overlap"}
    BY <1>2, <1>3 DEF TypeOK, Overlaps
  <2> QED
    BY <1>1, <1>2, <1>3, <1>5, <2>1, <2>2, <2>3 DEF TypeOK, PCs
<1>7. Emptied'
  BY <1>2 DEF Emptied
<1>8. AddsOne'
  <2>1. ASSUME NEW u \in Terminal, pc'[u] \in {"open", "write"}, adding'[u] # None
        PROVE  \E s \in Seq(Section), x \in Additions : text'[u] = Append(s, x)
    BY <1>1, <1>2, <2>1 DEF TrustInv, AddsOne
  <2> QED
    BY <2>1 DEF AddsOne
<1>9. Kept'
  <2> SUFFICES ASSUME harm' = {}, ~Doomed'
               PROVE  \A u \in Terminal : pc'[u] = "write" => Holds(u)'
    BY <1>1 DEF Kept
  <2>1. t \notin stale /\ harm = {}
    BY <1>2, NoHarmNotStale
  <2>2. \A u \in Terminal : pc[u] # "write"
    BY <1>1, <1>4
  <2>3. ~Doomed
    BY <2>2 DEF Doomed
  <2>4. Holds(t)
    BY <1>1, <2>1, <2>2, <2>3 DEF TrustInv, Kept
  <2>5. \A u \in Terminal : pc'[u] = "write" => u = t
    BY <1>1, <2>2
  <2>6. Holds(t)'
    BY <1>2, <2>4 DEF Holds
  <2> QED
    BY <2>5, <2>6
<1>10. Explained'
  <2>1. Loads'
    <3>1. Parses(<<>>)
      BY EmptyParses
    <3> QED
      BY <1>5, <3>1 DEF Loads, Parses, PatternsIn
  <2>2. ASSUME NEW u \in Terminal, NEW s \in Seq(Section), NEW x \in Additions,
               pc'[u] \in {"open", "write"}, adding'[u] # None,
               u \notin stale', text'[u] = Append(s, x)
        PROVE  Parses(s) \/ blame' # {}
    <3>1. u = t
      BY <1>1, <1>4, <2>2
    <3>2. pc[u] \in {"open", "write"} /\ adding[u] # None /\ u \notin stale
          /\ text[u] = Append(s, x)
      BY <1>1, <1>2, <2>2, <3>1
    <3> QED
      BY <1>2, <3>2 DEF TrustInv, Explained
  <2> QED
    BY <2>1, <2>2 DEF Explained
<1> QED
  BY <1>6, <1>7, <1>8, <1>9, <1>10 DEF TrustInv

\* What a step of t at its end leaves of the types: t is done with its text.
LEMMA DoneTyped ==
    ASSUME TypeOK, NEW t \in Terminal, NEW l \in {"idle", "launch"},
           pc' \in [Terminal -> PCs], pc'[t] = l, \A u \in Terminal \ {t} : pc'[u] = pc[u],
           text' = [text EXCEPT ![t] = <<>>], Outdates(t),
           adding' = [adding EXCEPT ![t] = None]
    PROVE  /\ text' \in [Terminal -> Seq(Section)]
           /\ adding' \in [Terminal -> Pattern \cup {None}]
           /\ \A u \in Terminal :
                /\ adding'[u] # None => pc'[u] \in {"open", "write"}
                /\ text'[u] # <<>> => pc'[u] \in {"open", "write", "editor"}
           /\ stale' \subseteq {u \in Terminal : pc'[u] # "idle"}
           /\ text'[t] = <<>> /\ adding'[t] = None
           /\ \A u \in Terminal \ {t} : text'[u] = text[u] /\ adding'[u] = adding[u]
<1>1. <<>> \in Seq(Section)
  BY EmptySeq
<1>2. /\ text' \in [Terminal -> Seq(Section)] /\ text'[t] = <<>>
      /\ \A u \in Terminal \ {t} : text'[u] = text[u]
  BY <1>1 DEF TypeOK
<1>3. /\ adding' \in [Terminal -> Pattern \cup {None}] /\ adding'[t] = None
      /\ \A u \in Terminal \ {t} : adding'[u] = adding[u]
  BY DEF TypeOK
<1>4. \A u \in Terminal :
        /\ adding'[u] # None => pc'[u] \in {"open", "write"}
        /\ text'[u] # <<>> => pc'[u] \in {"open", "write", "editor"}
  BY <1>2, <1>3 DEF TypeOK
<1>5. stale' \subseteq {u \in Terminal : pc'[u] # "idle"}
  BY DEF TypeOK, Outdates, Busy
<1> QED
  BY <1>2, <1>3, <1>4, <1>5

\* What holds after it, whatever is in the file.
LEMMA DoneKeeps ==
    ASSUME TrustInv, NEW t \in Terminal, NEW l \in {"idle", "launch"},
           pc' \in [Terminal -> PCs], pc'[t] = l, \A u \in Terminal \ {t} : pc'[u] = pc[u],
           text' = [text EXCEPT ![t] = <<>>], Outdates(t),
           adding' = [adding EXCEPT ![t] = None]
    PROVE  /\ Emptied' /\ AddsOne'
           /\ harm' # {} \/ told' \subseteq Policies' => Kept'
           /\ (~Loads' => blame' # {}) => Explained'
<1>1. TypeOK
  BY DEF TrustInv
<1>2. /\ text'[t] = <<>> /\ adding'[t] = None
      /\ \A u \in Terminal \ {t} : text'[u] = text[u] /\ adding'[u] = adding[u]
      /\ \A u \in Terminal :
           text'[u] # <<>> => pc'[u] \in {"open", "write", "editor"}
  BY <1>1, DoneTyped
<1>3. t \notin stale' /\ \A u \in Terminal \ {t} : u \in stale' <=> pc'[u] # "idle"
  BY <1>1, ChangesFile, Outdated
<1>4. Emptied'
  BY <1>3 DEF Emptied
<1>5. AddsOne'
  <2>1. ASSUME NEW u \in Terminal \ {t}, pc'[u] \in {"open", "write"}, adding'[u] # None
        PROVE  \E s \in Seq(Section), x \in Additions : text'[u] = Append(s, x)
    BY <1>2, <2>1 DEF TrustInv, AddsOne
  <2> QED
    BY <2>1 DEF AddsOne
<1>6. ASSUME harm' # {} \/ told' \subseteq Policies' PROVE Kept'
  <2>1. \A u \in Terminal : pc'[u] = "write" => Doomed'
    BY <1>3 DEF Doomed
  <2>2. \A u \in Terminal : pc'[u] \in {"open", "editor"} => u \in stale'
    BY <1>3
  <2> QED
    BY <1>6, <2>1, <2>2 DEF Kept
<1>7. ASSUME ~Loads' => blame' # {} PROVE Explained'
  <2>1. \A u \in Terminal : pc'[u] \in {"open", "write"} => u \in stale'
    BY <1>3
  <2> QED
    BY <1>7, <2>1 DEF Explained
<1> QED
  BY <1>4, <1>5, <1>6, <1>7

\* A text that is not outdated finds the file empty, and is what it holds then.
LEMMA WriteStep ==
    ASSUME TrustInv, NEW t \in Terminal, Write(t)
    PROVE  TrustInv'
<1> DEFINE l == IF adding[t] = None THEN "launch" ELSE "idle"
<1>1. At(t, "write", l) /\ l \in {"idle", "launch"} /\ l \in PCs
  BY DEF Write, PCs
<1> HIDE DEF l
<1>2. /\ toml' \in Over(text[t], Sections) /\ Tells(t) /\ Blames(Reasons(t))
      /\ text' = [text EXCEPT ![t] = <<>>] /\ adding' = [adding EXCEPT ![t] = None]
      /\ faults' = faults /\ Outdates(t) /\ Overlaps(t)
  BY DEF Write
<1>3. TypeOK /\ text[t] \in Seq(Section) /\ Sections \in Seq(Section)
  BY SectionsTyped DEF TrustInv, TypeOK
<1>4. /\ pc[t] = "write" /\ pc'[t] = l /\ pc' \in [Terminal -> PCs]
      /\ \A u \in Terminal \ {t} : pc'[u] = pc[u]
  BY <1>1, <1>3, AtStep
<1>5. /\ toml' \in Seq(Section) /\ (Sections = <<>> => toml' = text[t])
  BY <1>2, <1>3, OverFile
<1>6. Sections' = toml'
  BY <1>5, NoneAssumption DEF NoneAssumption, Sections
<1>7. TypeOK'
  <2>1. /\ text' \in [Terminal -> Seq(Section)]
        /\ adding' \in [Terminal -> Pattern \cup {None}]
        /\ \A u \in Terminal :
             /\ adding'[u] # None => pc'[u] \in {"open", "write"}
             /\ text'[u] # <<>> => pc'[u] \in {"open", "write", "editor"}
        /\ stale' \subseteq {u \in Terminal : pc'[u] # "idle"}
    BY <1>1, <1>2, <1>3, <1>4, DoneTyped
  <2>2. told' \subseteq Pattern /\ harm' \subseteq {"cut", "overlap"}
    BY <1>2, <1>3 DEF TypeOK, Overlaps, Tells, PatternsIn
  <2>3. blame' \subseteq Causes
    BY <1>2, <1>3, BlamesTyped, ReasonsTyped
  <2> QED
    BY <1>2, <1>3, <1>4, <1>5, <2>1, <2>2, <2>3 DEF TypeOK, PCs, Causes
<1>8. /\ Emptied' /\ AddsOne'
      /\ harm' # {} \/ told' \subseteq Policies' => Kept'
      /\ (~Loads' => blame' # {}) => Explained'
  BY <1>1, <1>2, <1>4, DoneKeeps
<1>9. t \notin stale => Sections' = text[t]
  <2> SUFFICES ASSUME t \notin stale PROVE Sections' = text[t]
    OBVIOUS
  <2>1. Sections = <<>>
    BY <1>4 DEF TrustInv, Emptied, Sections
  <2> QED
    BY <1>5, <1>6, <2>1
<1>10. Kept'
  <2> SUFFICES ASSUME harm' = {}, ~Doomed' PROVE told' \subseteq Policies'
    BY <1>8 DEF Kept
  <2>1. t \notin stale /\ harm = {}
    BY <1>2, NoHarmNotStale
  <2>2. \A u \in Terminal \ {t} : pc[u] # "write"
    BY <1>2, <1>3, <1>4, ChangesFile, Outdated
  <2>3. ~Doomed
    BY <2>1, <2>2 DEF Doomed
  <2>4. Holds(t)
    BY <1>4, <2>1, <2>3 DEF TrustInv, Kept
  <2>5. Policies' = PatternsIn(text[t])
    BY <1>9, <2>1 DEF Policies, PatternsIn
  <2> QED
    BY <1>2, <2>4, <2>5 DEF Holds, Tells
<1>11. Explained'
  <2>1. ASSUME t \notin stale, adding[t] # None, Reasons(t) = {}, blame = {}
        PROVE  Loads'
    <3>1. PICK s \in Seq(Section), x \in Additions : text[t] = Append(s, x)
      BY <1>4, <2>1 DEF TrustInv, AddsOne
    <3>2. Parses(s)
      BY <1>4, <2>1, <3>1 DEF TrustInv, Explained
    <3>3. Read(t) = s /\ Added(t) = x
      BY <3>1, AdditionTyped, Appended DEF Read, Added
    <3>4. x # Piece
      BY <2>1, <3>3 DEF Reasons
    <3>5. PICK q \in Pattern : x = Policy(q)
      BY <3>4 DEF Additions
    <3>6. q \notin PatternsIn(s)
      <4>1. x.pattern = q
        BY <3>5, PolicyTyped
      <4> QED
        BY <2>1, <3>3, <4>1 DEF Reasons
    <3>7. Parses(text[t])
      BY <3>1, <3>2, <3>5, <3>6, StillParses
    <3> QED
      BY <1>9, <2>1, <3>7 DEF Loads, Parses, PatternsIn
  <2>2. t \in stale \/ adding[t] = None => Reasons(t) # {}
    <3>1. t \in stale => "overlap" \in Reasons(t)
      BY DEF Reasons
    <3>2. adding[t] = None => "template" \in Reasons(t)
      BY DEF Reasons
    <3> QED
      BY <3>1, <3>2
  <2>3. Reasons(t) # {} \/ blame # {} \/ Loads'
    BY <2>1, <2>2
  <2> QED
    BY <1>2, <1>3, <1>8, <2>3, BlamesTyped, ReasonsTyped
<1> QED
  BY <1>7, <1>8, <1>10, <1>11 DEF TrustInv

\* A write that is cut short does harm, and keeps the types.
LEMMA CutShortStep ==
    ASSUME TrustInv, NEW t \in Terminal, CutShort(t)
    PROVE  TrustInv'
<1>1. /\ pc[t] = "write" /\ pc'[t] = "idle" /\ pc' \in [Terminal -> PCs]
      /\ \A u \in Terminal \ {t} : pc'[u] = pc[u]
  BY AtStep DEF TrustInv, CutShort, PCs
<1>2. /\ text' = [text EXCEPT ![t] = <<>>] /\ adding' = [adding EXCEPT ![t] = None]
      /\ harm' = harm \cup {"cut"} /\ told' = told /\ Outdates(t)
      /\ Blames({"cut"})
      /\ faults < MaxFaults /\ faults' = faults + 1
  BY DEF CutShort
<1>3. PICK k \in 0 .. Len(text[t]) - 1, end \in {<<>>, <<Piece>>} :
        toml' \in Over(SubSeq(text[t], 1, k) \o end, Sections)
  BY DEF CutShort
<1>4. TypeOK /\ text[t] \in Seq(Section) /\ Sections \in Seq(Section)
  BY SectionsTyped DEF TrustInv, TypeOK
<1>5. toml' \in Seq(Section)
  <2>1. SubSeq(text[t], 1, k) \in Seq(Section)
    <3>1. /\ Len(text[t]) \in Nat /\ \A i \in 1 .. Len(text[t]) : text[t][i] \in Section
      BY <1>4, LenProperties
    <3>2. k \in Int /\ 1 \in Int /\ \A i \in 1 .. k : text[t][i] \in Section
      BY <3>1
    <3> QED
      BY <3>2, SubSeqProperties
  <2>2. Piece \in Section
    BY DEF Piece, Section
  <2>3. end \in Seq(Section)
    <3>1. <<>> \in Seq(Section) /\ <<Piece>> \in Seq(Section)
      BY <2>2, EmptySeq
    <3> QED
      BY <3>1
  <2>4. SubSeq(text[t], 1, k) \o end \in Seq(Section)
    BY <2>1, <2>3, ConcatProperties
  <2> QED
    BY <1>3, <1>4, <2>4, OverFile
<1>6. TypeOK'
  <2>1. /\ text' \in [Terminal -> Seq(Section)]
        /\ adding' \in [Terminal -> Pattern \cup {None}]
        /\ \A u \in Terminal :
             /\ adding'[u] # None => pc'[u] \in {"open", "write"}
             /\ text'[u] # <<>> => pc'[u] \in {"open", "write", "editor"}
        /\ stale' \subseteq {u \in Terminal : pc'[u] # "idle"}
    BY <1>1, <1>2, <1>4, DoneTyped
  <2>2. faults' \in 0 .. MaxFaults
    BY <1>2, <1>4, BoundAssumption DEF BoundAssumption, TypeOK
  <2>3. blame' \subseteq Causes
    BY <1>2, <1>4, BlamesTyped DEF Causes
  <2> QED
    BY <1>1, <1>2, <1>4, <1>5, <2>1, <2>2, <2>3 DEF TypeOK, PCs, Causes
<1>7. ~Loads' => blame' # {}
  BY <1>2, <1>4, BlamesTyped DEF Causes
<1>8. /\ Emptied' /\ AddsOne' /\ Explained' /\ (harm' # {} => Kept')
  BY <1>1, <1>2, <1>7, DoneKeeps
<1> QED
  BY <1>2, <1>6, <1>8 DEF TrustInv

LEMMA WithoutTyped ==
    ASSUME NEW s \in Seq(Section), NEW i \in DOMAIN s
    PROVE  Without(s, i) \in Seq(Section)
<1>1. /\ Len(s) \in Nat /\ i \in 1 .. Len(s)
      /\ \A j \in 1 .. Len(s) : s[j] \in Section
  BY LenProperties
<1>2. SubSeq(s, 1, i - 1) \in Seq(Section)
  <2>1. i - 1 \in Int /\ \A j \in 1 .. i - 1 : s[j] \in Section
    BY <1>1
  <2> QED
    BY <2>1, SubSeqProperties
<1>3. SubSeq(s, i + 1, Len(s)) \in Seq(Section)
  <2>1. /\ i + 1 \in Int /\ Len(s) \in Int
        /\ \A j \in i + 1 .. Len(s) : s[j] \in Section
    BY <1>1
  <2> QED
    BY <2>1, SubSeqProperties
<1> QED
  BY <1>2, <1>3, ConcatProperties DEF Without

LEMMA TypedTyped ==
    ASSUME NEW s \in Seq(Section), NEW r \in Typed(s)
    PROVE  r \in Seq(Section)
<1>1. PICK x \in Additions : r = Append(s, x)
  BY DEF Typed, Additions
<1> QED
  BY <1>1, AdditionTyped, AppendProperties

\* The editor saves what it had, or less, or more; what is lost by that is not
\* told any more.
LEMMA SaveStep ==
    ASSUME TrustInv, NEW t \in Terminal, Save(t)
    PROVE  TrustInv'
<1>1. /\ pc[t] = "editor" /\ pc'[t] = "idle" /\ pc' \in [Terminal -> PCs]
      /\ \A u \in Terminal \ {t} : pc'[u] = pc[u]
  BY AtStep DEF TrustInv, Save, PCs
<1>2. /\ toml' \in {text[t]} \cup {Without(text[t], i) : i \in DOMAIN text[t]}
                  \cup Typed(text[t])
      /\ told' = told \ (PatternsIn(text[t]) \ PatternsIn(toml'))
      /\ text' = [text EXCEPT ![t] = <<>>] /\ adding' = adding
      /\ faults' = faults /\ Blames({"edit"}) /\ Outdates(t) /\ Overlaps(t)
  BY DEF Save
<1>3. TypeOK /\ text[t] \in Seq(Section) /\ adding[t] = None
  BY <1>1 DEF TrustInv, TypeOK
<1>4. adding' = [adding EXCEPT ![t] = None]
  BY <1>2, <1>3 DEF TypeOK
<1>5. toml' \in Seq(Section)
  BY <1>2, <1>3, WithoutTyped, TypedTyped
<1>6. Sections' = toml' /\ Policies' = PatternsIn(toml')
  BY <1>5, NoneAssumption DEF NoneAssumption, Sections, Policies, PatternsIn
<1>7. TypeOK'
  <2>1. /\ text' \in [Terminal -> Seq(Section)]
        /\ adding' \in [Terminal -> Pattern \cup {None}]
        /\ \A u \in Terminal :
             /\ adding'[u] # None => pc'[u] \in {"open", "write"}
             /\ text'[u] # <<>> => pc'[u] \in {"open", "write", "editor"}
        /\ stale' \subseteq {u \in Terminal : pc'[u] # "idle"}
    BY <1>1, <1>2, <1>3, <1>4, DoneTyped
  <2>2. told' \subseteq Pattern /\ harm' \subseteq {"cut", "overlap"}
    BY <1>2, <1>3 DEF TypeOK, Overlaps
  <2>3. blame' \subseteq Causes
    BY <1>2, <1>3, BlamesTyped DEF Causes
  <2> QED
    BY <1>1, <1>2, <1>3, <1>5, <2>1, <2>2, <2>3 DEF TypeOK, PCs, Causes
<1>8. /\ Emptied' /\ AddsOne'
      /\ harm' # {} \/ told' \subseteq Policies' => Kept'
      /\ (~Loads' => blame' # {}) => Explained'
  BY <1>1, <1>2, <1>4, DoneKeeps
<1>9. Kept'
  <2> SUFFICES ASSUME harm' = {}, ~Doomed' PROVE told' \subseteq Policies'
    BY <1>8 DEF Kept
  <2>1. t \notin stale /\ harm = {}
    BY <1>2, NoHarmNotStale
  <2>2. \A u \in Terminal : pc[u] # "write"
    <3>1. \A u \in Terminal \ {t} : pc[u] # "write"
      BY <1>1, <1>2, <1>3, ChangesFile, Outdated
    <3> QED
      BY <1>1, <3>1
  <2>3. ~Doomed
    BY <2>2 DEF Doomed
  <2>4. Holds(t)
    BY <1>1, <2>1, <2>2, <2>3 DEF TrustInv, Kept
  <2> QED
    BY <1>2, <1>6, <2>4 DEF Holds
<1>10. Explained'
  BY <1>2, <1>3, <1>8, BlamesTyped DEF Causes
<1> QED
  BY <1>7, <1>8, <1>9, <1>10 DEF TrustInv

LEMMA TrustInvStep == TrustInv /\ [Next]_vars => TrustInv'
<1> SUFFICES ASSUME TrustInv, [Next]_vars PROVE TrustInv'
  OBVIOUS
<1>1. CASE UNCHANGED vars
  <2>1. TypeOK'
    BY <1>1 DEF TrustInv, TypeOK, vars, history
  <2>2. Emptied' /\ AddsOne' /\ Kept'
    BY <1>1 DEF TrustInv, Emptied, AddsOne, Kept, Doomed, Holds, Policies, Sections,
                PatternsIn, vars, history
  <2>3. Explained'
    <3>1. Loads' <=> Loads
      BY <1>1 DEF Loads, Parses, Sections, PatternsIn, vars
    <3> QED
      BY <1>1, <3>1 DEF TrustInv, Explained, vars, history
  <2> QED
    BY <2>1, <2>2, <2>3 DEF TrustInv
<1>2. ASSUME NEW t \in Terminal, NEW p \in Pattern, Trust(t, p) PROVE TrustInv'
  BY <1>2, TrustStep
<1>3. ASSUME NEW t \in Terminal,
             StartEdit(t) \/ Open(t) \/ Write(t) \/ CutShort(t)
               \/ OpenEditor(t) \/ Save(t) \/ Quit(t)
      PROVE  TrustInv'
  BY <1>3, StartEditStep, OpenStep, WriteStep, CutShortStep, OpenEditorStep, SaveStep,
     QuitStep
<1> QED
  BY <1>1, <1>2, <1>3 DEF Next

LEMMA AlwaysTrust == Spec => []TrustInv
<1>1. Init => TrustInv
  BY InitTrust
<1>2. TrustInv /\ [Next]_vars => TrustInv'
  BY TrustInvStep
<1> QED
  BY <1>1, <1>2, PTL DEF Spec

-----------------------------------------------------------------------------
(* The theorems about the file.                                            *)

\* The types of the model: the file is sections, whatever is left of them.
THEOREM TypeCorrect == Spec => []TypeOK
<1>1. TrustInv => TypeOK
  BY DEF TrustInv
<1> QED
  BY <1>1, AlwaysTrust, PTL

\* For any number of terminals: what was reported as trusted stays trusted
\* until a text of an earlier file is written, or a write is cut short.
THEOREM KeptCorrect == Spec => []ToldIsKept
<1>1. TrustInv => ToldIsKept
  BY DEF TrustInv, Kept, Doomed, ToldIsKept
<1> QED
  BY <1>1, AlwaysTrust, PTL

\* For any number of terminals, any patterns and any identities: only what blame
\* names keeps the file from loading.  An addition that is whole, of the file as
\* it is, of a new pattern, and with quotes that match, leaves it loading.
THEOREM ReasonCorrect == Spec => []BrokenHasReason
<1>1. TrustInv => BrokenHasReason
  BY DEF TrustInv, Explained, BrokenHasReason
<1> QED
  BY <1>1, AlwaysTrust, PTL

-----------------------------------------------------------------------------
(* The wildcards.                                                          *)

\* The rest of p from its i-th character on means the rest of s from its
\* j-th on, by a cut of that rest.
Fits(p, s, cut, a) ==
    IF p[a] = "*" THEN cut[a] >= cut[a - 1]
    ELSE cut[a] = cut[a - 1] + 1 /\ p[a] \in {"?", s[cut[a]]}
Cuts(p, s, i, j, cut) ==
    /\ cut[i - 1] = j - 1 /\ cut[Len(p)] = Len(s)
    /\ \A a \in i .. Len(p) : Fits(p, s, cut, a)
MeantFrom(p, s, i, j) ==
    \E cut \in [i - 1 .. Len(p) -> 0 .. Len(s)] : Cuts(p, s, i, j, cut)

\* A cut without its first piece is one of what is behind that piece.
LEMMA CutRest ==
    ASSUME NEW p, NEW s, Len(p) \in Nat, Len(s) \in Nat,
           NEW i \in 1 .. Len(p), NEW j \in 1 .. Len(s) + 1,
           NEW cut \in [i - 1 .. Len(p) -> 0 .. Len(s)], Cuts(p, s, i, j, cut)
    PROVE  MeantFrom(p, s, i + 1, cut[i] + 1)
<1> DEFINE n == Len(p)
           l == Len(s)
           r == [a \in i .. n |-> cut[a]]
<1>1. n \in Nat /\ l \in Nat /\ (i + 1) - 1 = i
  OBVIOUS
<1>2. i \in i - 1 .. n /\ \A a \in i .. n : a \in i - 1 .. n
  OBVIOUS
<1>3. r \in [i .. n -> 0 .. l]
  BY <1>2
<1>4. \A a \in i .. n : r[a] = cut[a]
  OBVIOUS
<1> HIDE DEF r
<1>5. cut[i] \in 0 .. l /\ r[i] = (cut[i] + 1) - 1
  <2>1. cut[i] \in 0 .. l
    BY <1>2
  <2>2. r[i] = cut[i]
    BY <1>4
  <2> QED
    BY <1>1, <2>1, <2>2
<1>6. r[n] = l
  BY <1>4 DEF Cuts
<1>7. ASSUME NEW a \in i + 1 .. n PROVE Fits(p, s, r, a)
  <2>1. a \in i .. n /\ a - 1 \in i .. n
    OBVIOUS
  <2>2. r[a] = cut[a] /\ r[a - 1] = cut[a - 1]
    BY <1>4, <2>1
  <2>3. Fits(p, s, cut, a)
    BY <2>1 DEF Cuts
  <2> QED
    BY <2>2, <2>3 DEF Fits
<1>8. Cuts(p, s, i + 1, cut[i] + 1, r)
  BY <1>1, <1>5, <1>6, <1>7 DEF Cuts
<1> QED
  BY <1>1, <1>3, <1>8 DEF MeantFrom

\* And a cut of what is behind it, with a piece before, is one of the whole.
LEMMA CutMore ==
    ASSUME NEW p, NEW s, Len(p) \in Nat, Len(s) \in Nat,
           NEW i \in 1 .. Len(p), NEW j \in 1 .. Len(s) + 1, NEW k \in 1 .. Len(s) + 1,
           MeantFrom(p, s, i + 1, k),
           IF p[i] = "*" THEN k >= j ELSE k = j + 1 /\ p[i] \in {"?", s[j]}
    PROVE  MeantFrom(p, s, i, j)
<1> DEFINE n == Len(p)
           l == Len(s)
<1>1. n \in Nat /\ l \in Nat /\ (i + 1) - 1 = i /\ i - 1 \in Nat
  OBVIOUS
<1>2. PICK r \in [i .. n -> 0 .. l] : Cuts(p, s, i + 1, k, r)
  BY <1>1 DEF MeantFrom
<1> DEFINE e == [a \in i - 1 .. n |-> IF a = i - 1 THEN j - 1 ELSE r[a]]
<1>3. \A a \in i - 1 .. n : a # i - 1 => a \in i .. n
  OBVIOUS
<1>4. j - 1 \in 0 .. l
  OBVIOUS
<1>5. e \in [i - 1 .. n -> 0 .. l]
  BY <1>3, <1>4
<1>6. e[i - 1] = j - 1 /\ \A a \in i .. n : e[a] = r[a]
  <2>1. i - 1 \in i - 1 .. n /\ \A a \in i .. n : a \in i - 1 .. n /\ a # i - 1
    OBVIOUS
  <2> QED
    BY <2>1
<1> HIDE DEF e
<1>7. r[i] = k - 1 /\ r[n] = l
  BY <1>1, <1>2 DEF Cuts
<1>8. Fits(p, s, e, i)
  <2>1. e[i] = k - 1
    BY <1>6, <1>7
  <2>2. CASE p[i] = "*"
    BY <1>6, <2>1, <2>2 DEF Fits
  <2>3. CASE p[i] # "*"
    <3>1. e[i] = j /\ e[i] = (j - 1) + 1
      BY <2>1, <2>3
    <3> QED
      BY <1>6, <2>3, <3>1 DEF Fits
  <2> QED
    BY <2>2, <2>3
<1>9. ASSUME NEW a \in i + 1 .. n PROVE Fits(p, s, e, a)
  <2>1. a \in i .. n /\ a - 1 \in i .. n
    OBVIOUS
  <2>2. e[a] = r[a] /\ e[a - 1] = r[a - 1]
    BY <1>6, <2>1
  <2>3. Fits(p, s, r, a)
    BY <1>2 DEF Cuts
  <2> QED
    BY <2>2, <2>3 DEF Fits
<1>10. Cuts(p, s, i, j, e)
  <2>1. \A a \in i .. n : a = i \/ a \in i + 1 .. n
    OBVIOUS
  <2>2. e[n] = l
    BY <1>6, <1>7
  <2> QED
    BY <1>6, <1>8, <1>9, <2>1, <2>2 DEF Cuts
<1> QED
  BY <1>5, <1>10 DEF MeantFrom

\* Before the end of the pattern, the rest is meant by the character that is
\* next, and the rest behind that.
LEMMA MeantEnd ==
    ASSUME NEW p, NEW s, Len(p) \in Nat, Len(s) \in Nat, NEW j \in 1 .. Len(s) + 1
    PROVE  MeantFrom(p, s, Len(p) + 1, j) <=> j > Len(s)
<1> DEFINE n == Len(p)
           l == Len(s)
<1>1. n \in Nat /\ l \in Nat /\ (n + 1) - 1 = n /\ n + 1 .. n = {}
  OBVIOUS
<1>2. ASSUME MeantFrom(p, s, n + 1, j) PROVE j > l
  <2>1. PICK cut : Cuts(p, s, n + 1, j, cut)
    BY <1>2 DEF MeantFrom
  <2>2. cut[n] = j - 1 /\ cut[n] = l
    BY <1>1, <2>1 DEF Cuts
  <2> QED
    BY <2>2
<1>3. ASSUME j > l PROVE MeantFrom(p, s, n + 1, j)
  <2> DEFINE cut == [a \in n .. n |-> l]
  <2>1. cut \in [n .. n -> 0 .. l] /\ cut[n] = l
    OBVIOUS
  <2>2. j - 1 = l
    BY <1>3
  <2> HIDE DEF cut
  <2>3. Cuts(p, s, n + 1, j, cut)
    BY <1>1, <2>1, <2>2 DEF Cuts
  <2> QED
    BY <1>1, <2>1, <2>3 DEF MeantFrom
<1> QED
  BY <1>2, <1>3

LEMMA MeantStar ==
    ASSUME NEW p, NEW s, Len(p) \in Nat, Len(s) \in Nat,
           NEW i \in 1 .. Len(p), NEW j \in 1 .. Len(s) + 1, p[i] = "*"
    PROVE  MeantFrom(p, s, i, j)
             <=> i = Len(p) \/ \E k \in j .. Len(s) + 1 : MeantFrom(p, s, i + 1, k)
<1>1. ASSUME MeantFrom(p, s, i, j)
      PROVE  \E k \in j .. Len(s) + 1 : MeantFrom(p, s, i + 1, k)
  <2>1. PICK cut \in [i - 1 .. Len(p) -> 0 .. Len(s)] : Cuts(p, s, i, j, cut)
    BY <1>1 DEF MeantFrom
  <2>2. MeantFrom(p, s, i + 1, cut[i] + 1)
    BY <2>1, CutRest
  <2>3. i \in i .. Len(p) /\ cut[i] \in 0 .. Len(s)
    OBVIOUS
  <2>4. cut[i] >= j - 1
    BY <2>1, <2>3 DEF Cuts, Fits
  <2>5. cut[i] + 1 \in j .. Len(s) + 1
    BY <2>3, <2>4
  <2> QED
    BY <2>2, <2>5
<1>2. ASSUME NEW k \in j .. Len(s) + 1, MeantFrom(p, s, i + 1, k)
      PROVE  MeantFrom(p, s, i, j)
  <2>1. k \in 1 .. Len(s) + 1 /\ k >= j
    OBVIOUS
  <2> QED
    BY <1>2, <2>1, CutMore
<1>3. ASSUME i = Len(p) PROVE MeantFrom(p, s, i, j)
  <2> DEFINE k == Len(s) + 1
  <2>1. k \in j .. Len(s) + 1 /\ k \in 1 .. Len(s) + 1 /\ k > Len(s)
    OBVIOUS
  <2> HIDE DEF k
  <2>2. MeantFrom(p, s, Len(p) + 1, k)
    BY <2>1, MeantEnd
  <2> QED
    BY <1>2, <1>3, <2>1, <2>2
<1> QED
  BY <1>1, <1>2, <1>3

LEMMA MeantOne ==
    ASSUME NEW p, NEW s, Len(p) \in Nat, Len(s) \in Nat,
           NEW i \in 1 .. Len(p), NEW j \in 1 .. Len(s) + 1, p[i] # "*"
    PROVE  MeantFrom(p, s, i, j)
             <=> j <= Len(s) /\ p[i] \in {s[j], "?"} /\ MeantFrom(p, s, i + 1, j + 1)
<1>1. ASSUME MeantFrom(p, s, i, j)
      PROVE  j <= Len(s) /\ p[i] \in {s[j], "?"} /\ MeantFrom(p, s, i + 1, j + 1)
  <2>1. PICK cut \in [i - 1 .. Len(p) -> 0 .. Len(s)] : Cuts(p, s, i, j, cut)
    BY <1>1 DEF MeantFrom
  <2>2. MeantFrom(p, s, i + 1, cut[i] + 1)
    BY <2>1, CutRest
  <2>3. i \in i .. Len(p) /\ cut[i] \in 0 .. Len(s)
    OBVIOUS
  <2>4. cut[i] = (j - 1) + 1 /\ p[i] \in {"?", s[cut[i]]}
    BY <2>1, <2>3 DEF Cuts, Fits
  <2>5. cut[i] = j
    BY <2>4
  <2> QED
    BY <2>2, <2>3, <2>4, <2>5
<1>2. ASSUME j <= Len(s), p[i] \in {s[j], "?"}, MeantFrom(p, s, i + 1, j + 1)
      PROVE  MeantFrom(p, s, i, j)
  <2> DEFINE k == j + 1
  <2>1. k \in 1 .. Len(s) + 1 /\ k = j + 1 /\ MeantFrom(p, s, i + 1, k)
    BY <1>2
  <2> HIDE DEF k
  <2>2. p[i] \in {"?", s[j]}
    BY <1>2
  <2> QED
    BY <2>1, <2>2, CutMore
<1> QED
  BY <1>1, <1>2

\* The recursion of wildmatch_recursive, one call at a time.
Call(p, s, m, i, j) ==
    IF i > Len(p) THEN j > Len(s)
    ELSE IF p[i] = "*"
         THEN i = Len(p) \/ \E k \in j .. Len(s) + 1 : m[i + 1][k]
    ELSE j <= Len(s) /\ p[i] \in {s[j], "?"} /\ m[i + 1][j + 1]
IsMatch(p, s, m) ==
    m = [i \in 1 .. Len(p) + 1 |-> [j \in 1 .. Len(s) + 1 |-> Call(p, s, m, i, j)]]

LEMMA MatchAt ==
    ASSUME NEW p, NEW s, NEW m, IsMatch(p, s, m),
           NEW i \in 1 .. Len(p) + 1, NEW j \in 1 .. Len(s) + 1
    PROVE  m[i][j] = Call(p, s, m, i, j)
<1> DEFINE E(h, a, b) == Call(p, s, h, a, b)
<1>1. m = [a \in 1 .. Len(p) + 1 |-> [b \in 1 .. Len(s) + 1 |-> E(m, a, b)]]
  BY DEF IsMatch
<1> HIDE DEF E
<1>2. m[i] = [b \in 1 .. Len(s) + 1 |-> E(m, i, b)]
  BY <1>1
<1>3. m[i][j] = E(m, i, j)
  BY <1>2
<1> QED
  BY <1>3 DEF E

\* It ends, for what is meant is a solution of it.
LEMMA MatchExists ==
    ASSUME NEW p, NEW s, Len(p) \in Nat, Len(s) \in Nat
    PROVE  \E m : IsMatch(p, s, m)
<1> DEFINE E(a, b) == MeantFrom(p, s, a, b)
           m == [i \in 1 .. Len(p) + 1 |-> [j \in 1 .. Len(s) + 1 |-> E(i, j)]]
           C(a, b) == Call(p, s, m, a, b)
<1>1. ASSUME NEW i \in 1 .. Len(p) + 1, NEW j \in 1 .. Len(s) + 1
      PROVE  m[i][j] = E(i, j)
  <2> HIDE DEF E
  <2> QED
    OBVIOUS
<1>2. ASSUME NEW i \in 1 .. Len(p) + 1, NEW j \in 1 .. Len(s) + 1
      PROVE  E(i, j) = C(i, j)
  <2> HIDE DEF m
  <2>0. (E(i, j) <=> C(i, j)) => E(i, j) = C(i, j)
    <3>1. E(i, j) \in BOOLEAN
      BY DEF MeantFrom
    <3>2. C(i, j) \in BOOLEAN
      <4>1. (j > Len(s)) \in BOOLEAN
        OBVIOUS
      <4>2. (i = Len(p) \/ \E k \in j .. Len(s) + 1 : m[i + 1][k]) \in BOOLEAN
        OBVIOUS
      <4>3. (j <= Len(s) /\ p[i] \in {s[j], "?"} /\ m[i + 1][j + 1]) \in BOOLEAN
        OBVIOUS
      <4> QED
        BY <4>1, <4>2, <4>3, Zenon DEF Call
    <3> HIDE DEF E, C
    <3> QED
      BY <3>1, <3>2
  <2>1. CASE i = Len(p) + 1
    <3>1. E(i, j) <=> j > Len(s)
      BY <2>1, MeantEnd
    <3>2. C(i, j) <=> j > Len(s)
      BY <2>1 DEF Call
    <3> HIDE DEF E, C
    <3> QED
      BY <2>0, <3>1, <3>2
  <2>2. CASE i # Len(p) + 1 /\ p[i] = "*"
    <3>1. i \in 1 .. Len(p) /\ i + 1 \in 1 .. Len(p) + 1
      BY <2>2
    <3>2. E(i, j) <=> i = Len(p) \/ \E k \in j .. Len(s) + 1 : E(i + 1, k)
      BY <2>2, <3>1, MeantStar
    <3>3. \A k \in j .. Len(s) + 1 : k \in 1 .. Len(s) + 1
      OBVIOUS
    <3>4. \A k \in j .. Len(s) + 1 : m[i + 1][k] = E(i + 1, k)
      BY <1>1, <3>1, <3>3
    <3>5. C(i, j) <=> i = Len(p) \/ \E k \in j .. Len(s) + 1 : m[i + 1][k]
      BY <2>2, <3>1 DEF Call
    <3> HIDE DEF E, C
    <3>6. E(i, j) <=> C(i, j)
      BY <3>2, <3>4, <3>5
    <3> QED
      BY <2>0, <3>6
  <2>3. CASE i # Len(p) + 1 /\ p[i] # "*"
    <3>1. i \in 1 .. Len(p) /\ i + 1 \in 1 .. Len(p) + 1
      BY <2>3
    <3>2. E(i, j) <=> j <= Len(s) /\ p[i] \in {s[j], "?"} /\ E(i + 1, j + 1)
      BY <2>3, <3>1, MeantOne
    <3>3. j <= Len(s) => j + 1 \in 1 .. Len(s) + 1
      OBVIOUS
    <3>4. j <= Len(s) => m[i + 1][j + 1] = E(i + 1, j + 1)
      BY <1>1, <3>1, <3>3
    <3>5. C(i, j) <=> j <= Len(s) /\ p[i] \in {s[j], "?"} /\ m[i + 1][j + 1]
      BY <2>3, <3>1 DEF Call
    <3> HIDE DEF E, C
    <3>6. E(i, j) <=> C(i, j)
      BY <3>2, <3>4, <3>5
    <3> QED
      BY <2>0, <3>6
  <2> QED
    BY <2>1, <2>2, <2>3
<1>3. m = [i \in 1 .. Len(p) + 1 |-> [j \in 1 .. Len(s) + 1 |-> C(i, j)]]
  <2> HIDE DEF E, C
  <2>1. ASSUME NEW i \in 1 .. Len(p) + 1
        PROVE  [j \in 1 .. Len(s) + 1 |-> E(i, j)] = [j \in 1 .. Len(s) + 1 |-> C(i, j)]
    BY <1>2
  <2> QED
    BY <2>1
<1>4. IsMatch(p, s, m)
  BY <1>3 DEF IsMatch
<1> QED
  BY <1>4

\* And every solution is, from the end of the pattern on.
LEMMA MatchIsMeant ==
    ASSUME NEW p, NEW s, Len(p) \in Nat, Len(s) \in Nat, NEW m, IsMatch(p, s, m)
    PROVE  m[1][1] <=> MeantFrom(p, s, 1, 1)
<1> DEFINE n == Len(p)
           J == 1 .. Len(s) + 1
           Right(i) == \A j \in J : m[i][j] <=> MeantFrom(p, s, i, j)
           T == {k \in Nat : k <= n => Right((n + 1) - k)}
<1>1. 0 \in T
  <2>1. (n + 1) - 0 = n + 1 /\ n + 1 \in 1 .. n + 1
    OBVIOUS
  <2>2. ASSUME NEW j \in J PROVE m[n + 1][j] <=> MeantFrom(p, s, n + 1, j)
    <3>1. m[n + 1][j] = Call(p, s, m, n + 1, j)
      BY <2>1, MatchAt
    <3>2. Call(p, s, m, n + 1, j) <=> j > Len(s)
      BY DEF Call
    <3> QED
      BY <3>1, <3>2, MeantEnd
  <2>3. Right(n + 1)
    BY <2>2
  <2> HIDE DEF Right
  <2> QED
    BY <2>1, <2>3
<1>2. ASSUME NEW k \in Nat, k \in T PROVE k + 1 \in T
  <2> SUFFICES ASSUME k + 1 <= n PROVE Right((n + 1) - (k + 1))
    OBVIOUS
  <2> DEFINE i == n - k
  <2>1. /\ i \in 1 .. n /\ i \in 1 .. n + 1 /\ (n + 1) - (k + 1) = i
        /\ (n + 1) - k = i + 1 /\ k <= n
    OBVIOUS
  <2> HIDE DEF i, Right
  <2>2. Right(i + 1)
    BY <1>2, <2>1
  <2>3. ASSUME NEW j \in J PROVE m[i][j] <=> MeantFrom(p, s, i, j)
    <3>1. m[i][j] = Call(p, s, m, i, j)
      BY <2>1, MatchAt
    <3>2. ~(i > n)
      BY <2>1
    <3>3. CASE p[i] = "*"
      <4>1. Call(p, s, m, i, j) <=> i = n \/ \E l \in j .. Len(s) + 1 : m[i + 1][l]
        BY <3>2, <3>3 DEF Call
      <4>2. \A l \in j .. Len(s) + 1 : l \in J
        OBVIOUS
      <4>3. \A l \in j .. Len(s) + 1 : m[i + 1][l] <=> MeantFrom(p, s, i + 1, l)
        BY <2>2, <4>2 DEF Right
      <4>4. MeantFrom(p, s, i, j)
              <=> i = n \/ \E l \in j .. Len(s) + 1 : MeantFrom(p, s, i + 1, l)
        BY <2>1, <3>3, MeantStar
      <4> QED
        BY <3>1, <4>1, <4>3, <4>4
    <3>4. CASE p[i] # "*"
      <4>1. Call(p, s, m, i, j)
              <=> j <= Len(s) /\ p[i] \in {s[j], "?"} /\ m[i + 1][j + 1]
        BY <3>2, <3>4 DEF Call
      <4>2. j <= Len(s) => j + 1 \in J
        OBVIOUS
      <4>3. j <= Len(s) => (m[i + 1][j + 1] <=> MeantFrom(p, s, i + 1, j + 1))
        BY <2>2, <4>2 DEF Right
      <4>4. MeantFrom(p, s, i, j)
              <=> j <= Len(s) /\ p[i] \in {s[j], "?"} /\ MeantFrom(p, s, i + 1, j + 1)
        BY <2>1, <3>4, MeantOne
      <4> QED
        BY <3>1, <4>1, <4>3, <4>4
    <3> QED
      BY <3>3, <3>4
  <2>4. Right(i)
    BY <2>3 DEF Right
  <2> QED
    BY <2>1, <2>4
<1> HIDE DEF T
<1>3. n \in T
  BY <1>1, <1>2, Induct
<1>4. Right((n + 1) - n) /\ (n + 1) - n = 1 /\ 1 \in J
  BY <1>3 DEF T
<1> QED
  BY <1>4

LEMMA WildMatchesIsMeant ==
    ASSUME NEW p, NEW s, Len(p) \in Nat, Len(s) \in Nat
    PROVE  WildMatches(p, s) <=> Meant(p, s)
<1> DEFINE c == CHOOSE m : IsMatch(p, s, m)
<1>1. IsMatch(p, s, c)
  <2> HIDE DEF c
  <2>1. \E m : IsMatch(p, s, m)
    BY MatchExists
  <2> QED
    BY <2>1 DEF c
<1>2. WildMatches(p, s) <=> c[1][1]
  BY DEF WildMatches, IsMatch, Call
<1> HIDE DEF c
<1>3. c[1][1] <=> MeantFrom(p, s, 1, 1)
  BY <1>1, MatchIsMeant
<1>4. MeantFrom(p, s, 1, 1) <=> Meant(p, s)
  <2>1. 1 - 1 = 0
    OBVIOUS
  <2> QED
    BY <2>1 DEF MeantFrom, Cuts, Fits, Meant
<1> QED
  BY <1>2, <1>3, <1>4

-----------------------------------------------------------------------------
(* The policy that applies.                                                *)

\* Every name means itself: a plain one, and one with a star in it too.
LEMMA MeansItself ==
    ASSUME NEW id, Len(id) \in Nat
    PROVE  Meant(id, id)
<1> DEFINE cut == [i \in 0 .. Len(id) |-> i]
<1>1. cut \in [0 .. Len(id) -> 0 .. Len(id)] /\ cut[0] = 0 /\ cut[Len(id)] = Len(id)
  OBVIOUS
<1>2. ASSUME NEW i \in 1 .. Len(id) PROVE cut[i] = i /\ cut[i - 1] = i - 1
  OBVIOUS
<1> HIDE DEF cut
<1>3. ASSUME NEW i \in 1 .. Len(id)
      PROVE  IF id[i] = "*" THEN cut[i] >= cut[i - 1]
             ELSE cut[i] = cut[i - 1] + 1 /\ id[i] \in {"?", id[cut[i]]}
  <2>1. i >= i - 1 /\ i = (i - 1) + 1
    OBVIOUS
  <2> QED
    BY <1>2, <2>1
<1> QED
  BY <1>1, <1>3 DEF Meant

\* The sections are finitely many, and so the patterns have a longest.
LEMMA Longest ==
    ASSUME NEW s \in Seq(Section), NEW S, S \subseteq PatternsIn(s), S # {},
           \A p \in S : Length[p] \in Nat
    PROVE  \E p \in S : \A q \in S : Length[q] <= Length[p]
<1> DEFINE Bound(b, k) == \A i \in 1 .. k : s[i].pattern \in S => Length[s[i].pattern] <= b
           T == {k \in Nat : \E b \in Nat : Bound(b, k)}
<1>1. 0 \in T
  <2>1. Bound(0, 0)
    OBVIOUS
  <2> HIDE DEF Bound
  <2> QED
    BY <2>1
<1>2. ASSUME NEW k \in Nat, k \in T PROVE k + 1 \in T
  <2>1. PICK b \in Nat : Bound(b, k)
    BY <1>2
  <2> DEFINE x == s[k + 1].pattern
             c == IF x \in S /\ Length[x] > b THEN Length[x] ELSE b
  <2>2. c \in Nat /\ c >= b /\ (x \in S => Length[x] <= c)
    OBVIOUS
  <2> HIDE DEF c
  <2>3. ASSUME NEW i \in 1 .. k + 1, s[i].pattern \in S PROVE Length[s[i].pattern] <= c
    <3>1. CASE i = k + 1
      BY <2>2, <2>3, <3>1
    <3>2. CASE i # k + 1
      <4>1. i \in 1 .. k
        BY <3>2
      <4>2. Length[s[i].pattern] <= b /\ Length[s[i].pattern] \in Nat
        BY <2>1, <2>3, <4>1
      <4> QED
        BY <2>2, <4>2
    <3> QED
      BY <3>1, <3>2
  <2>4. Bound(c, k + 1)
    BY <2>3
  <2> HIDE DEF Bound
  <2> QED
    BY <2>2, <2>4
<1> HIDE DEF T
<1>3. Len(s) \in T /\ DOMAIN s = 1 .. Len(s)
  <2>1. Len(s) \in Nat /\ DOMAIN s = 1 .. Len(s)
    BY LenProperties
  <2> QED
    BY <1>1, <1>2, <2>1, Induct
<1>4. PICK b \in Nat : Bound(b, Len(s))
  BY <1>3 DEF T
<1>5. \A p \in S : Length[p] \in 0 .. b
  <2> SUFFICES ASSUME NEW p \in S PROVE Length[p] \in 0 .. b
    OBVIOUS
  <2>1. PICK i \in 1 .. Len(s) : s[i].pattern = p
    BY <1>3 DEF PatternsIn
  <2>2. Length[p] <= b /\ Length[p] \in Nat
    BY <1>4, <2>1
  <2> QED
    BY <2>2
<1> DEFINE L == {Length[p] : p \in S}
<1>6. L \subseteq 0 .. b /\ L # {}
  BY <1>5
<1>7. PICK m \in L : \A k \in L : k <= m
  <2> HIDE DEF L
  <2> QED
    BY <1>6, Greatest
<1> QED
  BY <1>7

\* Of whatever policies the file can come to hold, the one that applies is
\* meant for the application, and is its own or one of the longest: the
\* recursion of the wildcards ends and finds what a pattern means.
THEOREM MatchCorrect == Spec => []PolicyIsMeant
<1>1. TypeOK => PolicyIsMeant
  <2> SUFFICES ASSUME TypeOK, NEW id \in AppId
               PROVE  LET meant == {p \in Policies : id \in Language[p]} IN
                      /\ meant # {} => MatchPolicy(id) # {}
                      /\ \A p \in MatchPolicy(id) :
                           /\ p \in meant
                           /\ p = id \/ ( /\ id \notin meant
                                          /\ \A q \in meant : Length[p] >= Length[q])
    BY DEF PolicyIsMeant
  <2> DEFINE meant == {p \in Policies : id \in Language[p]}
             matching == {p \in Policies : id \in WildMatch[p]}
  <2>1. Policies \subseteq Pattern
    <3>1. Sections \in Seq(Section)
      BY SectionsTyped
    <3>2. \A i \in DOMAIN Sections : Sections[i].pattern \in Pattern \cup {None}
      <4>1. \A i \in DOMAIN Sections : Sections[i] \in Section
        BY <3>1, LenProperties
      <4> QED
        BY <4>1 DEF Section
    <3> QED
      BY <3>2 DEF Policies, PatternsIn
  <2>2. \A p \in Pattern \cup AppId : Len(p) \in Nat
    <3> SUFFICES ASSUME NEW p \in Pattern \cup AppId PROVE Len(p) \in Nat
      OBVIOUS
    <3>1. p \in Seq(STRING)
      BY PatternAssumption DEF PatternAssumption
    <3> QED
      BY <3>1, LenProperties
  <2>3. \A p \in Pattern : WildMatches(p, id) <=> Meant(p, id)
    BY <2>2, WildMatchesIsMeant
  <2>4. \A p \in Pattern : id \in WildMatch[p] <=> id \in Language[p]
    <3> SUFFICES ASSUME NEW p \in Pattern
                 PROVE  id \in WildMatch[p] <=> id \in Language[p]
      OBVIOUS
    <3>1. id \in WildMatch[p] <=> WildMatches(p, id)
      BY DEF WildMatch
    <3>2. id \in Language[p] <=> Meant(p, id)
      BY DEF Language
    <3> QED
      BY <2>3, <3>1, <3>2
  <2>5. matching = meant
    BY <2>1, <2>4
  <2>6. MatchPolicy(id) = IF id \in Policies THEN {id}
                          ELSE {p \in matching : \A q \in matching : Length[q] <= Length[p]}
    BY DEF MatchPolicy
  <2>7. meant \subseteq Policies
    OBVIOUS
  <2>8. id \in Policies => id \in meant
    <3> SUFFICES ASSUME id \in Policies PROVE id \in Language[id]
      OBVIOUS
    <3>1. id \in Pattern
      BY <2>1
    <3>2. Meant(id, id)
      BY <2>2, MeansItself
    <3> QED
      BY <3>1, <3>2 DEF Language
  <2> HIDE DEF meant, matching
  <2>9. \A p \in meant : Length[p] \in Nat
    BY <2>1, <2>7, LengthAssumption DEF LengthAssumption
  <2>10. CASE id \in Policies
    BY <2>6, <2>8, <2>10 DEF meant
  <2>11. CASE id \notin Policies
    <3>1. MatchPolicy(id) = {p \in meant : \A q \in meant : Length[q] <= Length[p]}
      BY <2>5, <2>6, <2>11
    <3>2. meant # {} => \E p \in meant : \A q \in meant : Length[q] <= Length[p]
      <4>1. meant \subseteq PatternsIn(Sections) /\ Sections \in Seq(Section)
        BY <2>7, SectionsTyped DEF Policies
      <4> QED
        BY <2>9, <4>1, Longest
    <3>3. \A p, q \in meant : Length[q] <= Length[p] => Length[p] >= Length[q]
      BY <2>9
    <3>4. id \notin meant
      BY <2>7, <2>11
    <3>5. meant # {} => MatchPolicy(id) # {}
      BY <3>1, <3>2
    <3>6. ASSUME NEW p \in MatchPolicy(id)
          PROVE  p \in meant /\ \A q \in meant : Length[p] >= Length[q]
      <4>1. p \in meant /\ \A q \in meant : Length[q] <= Length[p]
        BY <3>1
      <4> QED
        BY <3>3, <4>1
    <3> QED
      BY <3>4, <3>5, <3>6 DEF meant
  <2> QED
    BY <2>10, <2>11 DEF meant
<1>2. TrustInv => TypeOK
  BY DEF TrustInv
<1> QED
  BY <1>1, <1>2, AlwaysTrust, PTL
=============================================================================
