------------------------- MODULE BundleFormatProofs -------------------------
(***************************************************************************)
(* Proofs about bundle files, for layers of any number and size: that what *)
(* the readers compute from a header is where the writers put it, and what *)
(* that means for files whose writer can be stopped at every cell.         *)
(***************************************************************************)
EXTENDS BundleFormat, SequenceFacts

-----------------------------------------------------------------------------
(* The pieces.                                                             *)

\* Cells that the stub does not take for a trailer.
Plain == {c \in Cell : c.kind # "NXBT"}

\* A bundle as it is meant: the sizes are those of the layers, and the length
\* of the section is that of the binaries, if there are any.
Digests(h) == [i \in DOMAIN h.layers |-> h.layers[i].digest]
Sized(h) == \A i \in DOMAIN h.layers : h.layers[i].size = Size[h.layers[i].digest]
Fits(h, boot) == boot # <<>> => h.boot = Len(BootstrapData(boot))
Proper(h, boot) == h \in Header /\ boot \in Seq(File) /\ Sized(h) /\ Fits(h, boot)

Main(h) == (StubBytes \o Encode(h)) \o FlattenSeq(Layers(Digests(h)))
Section(h, boot) ==
    IF boot = <<>> THEN <<>>
    ELSE BootstrapData(boot) \o Trailer(Len(Main(h)), Len(BootstrapData(boot)))
Whole(h, boot) == Main(h) \o Section(h, boot)

\* An element more for what a sequence may hold.
LEMMA SeqMonotone ==
    ASSUME NEW S, NEW T, S \subseteq T, NEW s \in Seq(S)
    PROVE  s \in Seq(T)
<1>1. Len(s) \in Nat /\ s \in [1 .. Len(s) -> S]
  BY LenProperties
<1>2. s \in [1 .. Len(s) -> T]
  BY <1>1
<1> QED
  BY <1>1, <1>2, FunctionIsSequence

LEMMA CellsTyped ==
    ASSUME NEW n \in Nat, NEW S, NEW c \in S
    PROVE  /\ Cells(n, c) \in Seq(S) /\ Len(Cells(n, c)) = n
           /\ \A i \in 1 .. n : Cells(n, c)[i] = c
<1>1. Cells(n, c) \in [1 .. n -> S]
  BY DEF Cells
<1>2. \A i \in 1 .. n : Cells(n, c)[i] = c
  BY DEF Cells
<1> QED
  BY <1>1, <1>2, FunctionIsSequence

LEMMA KindsTyped ==
    /\ [kind |-> "stub"] \in Plain /\ [kind |-> "header"] \in Plain
    /\ \A h \in Header : [kind |-> "NX02", header |-> h] \in Plain
    /\ \A d \in Digest, i \in Nat : [kind |-> "layer", digest |-> d, at |-> i] \in Plain
    /\ \A n \in Nat : /\ [kind |-> "count", n |-> n] \in Plain
                      /\ [kind |-> "len", n |-> n] \in Plain
    /\ \A f \in File : /\ [kind |-> "name", name |-> f] \in Plain
                       /\ [kind |-> "bin", name |-> f] \in Plain
    /\ \A o, s \in Nat : [kind |-> "NXBT", offset |-> o, size |-> s] \in Cell
    /\ Plain \subseteq Cell
<1>1. [kind |-> "stub"] \in Plain /\ [kind |-> "header"] \in Plain
  BY DEF Plain, Cell
<1>2. ASSUME NEW h \in Header PROVE [kind |-> "NX02", header |-> h] \in Plain
  BY DEF Plain, Cell
<1>3. ASSUME NEW d \in Digest, NEW i \in Nat
      PROVE  [kind |-> "layer", digest |-> d, at |-> i] \in Plain
  BY DEF Plain, Cell
<1>4. ASSUME NEW n \in Nat
      PROVE  [kind |-> "count", n |-> n] \in Plain /\ [kind |-> "len", n |-> n] \in Plain
  BY DEF Plain, Cell
<1>5. ASSUME NEW f \in File
      PROVE  [kind |-> "name", name |-> f] \in Plain /\ [kind |-> "bin", name |-> f] \in Plain
  BY DEF Plain, Cell
<1>6. ASSUME NEW o \in Nat, NEW s \in Nat
      PROVE  [kind |-> "NXBT", offset |-> o, size |-> s] \in Cell
  BY DEF Cell
<1>7. Plain \subseteq Cell
  BY DEF Plain
<1> QED
  BY <1>1, <1>2, <1>3, <1>4, <1>5, <1>6, <1>7

LEMMA StubTyped ==
    /\ StubBytes \in Seq(Plain) /\ Len(StubBytes) = StubLen /\ StubLen \in Nat
    /\ \A i \in 1 .. StubLen : StubBytes[i].kind = "stub"
<1>1. StubLen \in Nat
  BY SizeAssumption DEF SizeAssumption
<1>2. [kind |-> "stub"] \in Plain
  BY KindsTyped
<1>3. /\ StubBytes \in Seq(Plain) /\ Len(StubBytes) = StubLen
      /\ \A i \in 1 .. StubLen : StubBytes[i] = [kind |-> "stub"]
  BY <1>1, <1>2, CellsTyped DEF StubBytes
<1> QED
  BY <1>1, <1>3

LEMMA LayerTyped ==
    ASSUME NEW d \in Digest
    PROVE  /\ Size[d] \in Nat /\ Size[d] # 0
           /\ Layer(d) \in Seq(Plain) /\ Len(Layer(d)) = Size[d]
<1>1. Size[d] \in Nat /\ Size[d] # 0
  BY SizeAssumption DEF SizeAssumption
<1>2. Layer(d) \in [1 .. Size[d] -> Plain]
  <2> SUFFICES ASSUME NEW i \in 1 .. Size[d]
               PROVE  [kind |-> "layer", digest |-> d, at |-> i] \in Plain
    BY DEF Layer
  <2>1. i \in Nat
    BY <1>1
  <2> QED
    BY <2>1, KindsTyped
<1> QED
  BY <1>1, <1>2, FunctionIsSequence

LEMMA HeaderTyped ==
    ASSUME NEW h \in Header
    PROVE  /\ h.layers \in Seq(LayerEntry) /\ Len(h.layers) \in Nat
           /\ DOMAIN h.layers = 1 .. Len(h.layers)
           /\ \A i \in 1 .. Len(h.layers) : h.layers[i] \in LayerEntry
           /\ EncodedLen(h) \in Nat \ {0}
<1>1. h.layers \in Seq(LayerEntry)
  BY DEF Header
<1>2. /\ Len(h.layers) \in Nat /\ DOMAIN h.layers = 1 .. Len(h.layers)
      /\ \A i \in 1 .. Len(h.layers) : h.layers[i] \in LayerEntry
  BY <1>1, LenProperties
<1>3. EncodedLen(h) \in Nat \ {0}
  <2> DEFINE n == Len(h.layers)
  <2>1. n \in Nat
    BY <1>2
  <2> HIDE DEF n
  <2>2. 1 + n + (IF h.sig = None THEN 0 ELSE 1) \in Nat \ {0}
    BY <2>1
  <2> QED
    BY <2>2 DEF EncodedLen, n
<1> QED
  BY <1>1, <1>2, <1>3

LEMMA EncodeTyped ==
    ASSUME NEW h \in Header
    PROVE  /\ Encode(h) \in Seq(Plain) /\ Len(Encode(h)) = EncodedLen(h)
           /\ Encode(h)[1] = [kind |-> "NX02", header |-> h]
<1> DEFINE x == <<[kind |-> "NX02", header |-> h]>>
           n == EncodedLen(h) - 1
           y == Cells(n, [kind |-> "header"])
<1>1. n \in Nat /\ n + 1 = EncodedLen(h)
  BY HeaderTyped
<1>2. y \in Seq(Plain) /\ Len(y) = n
  <2> HIDE DEF n
  <2> QED
    BY <1>1, CellsTyped, KindsTyped
<1>3. x \in Seq(Plain) /\ Len(x) = 1 /\ x[1] = [kind |-> "NX02", header |-> h]
  <2>1. [kind |-> "NX02", header |-> h] \in Plain
    BY KindsTyped
  <2> QED
    BY <2>1
<1> HIDE DEF x, y, n
<1>4. /\ x \o y \in Seq(Plain) /\ Len(x \o y) = Len(x) + Len(y)
      /\ \A i \in 1 .. Len(x) + Len(y) : (x \o y)[i] = IF i <= Len(x) THEN x[i] ELSE y[i - Len(x)]
  BY <1>2, <1>3, ConcatProperties
<1>5. (x \o y)[1] = x[1]
  BY <1>1, <1>2, <1>3, <1>4
<1>6. Len(x \o y) = EncodedLen(h)
  BY <1>1, <1>2, <1>3, <1>4
<1>7. Encode(h) = x \o y
  BY DEF Encode, x, y, n
<1> QED
  BY <1>3, <1>4, <1>5, <1>6, <1>7

LEMMA EntryTyped ==
    ASSUME NEW f \in File
    PROVE  /\ BinLen \in Nat
           /\ Entry(f) \in Seq(Plain) /\ Len(Entry(f)) = BinLen + 2
           /\ Entry(f)[1].kind = "name"
           /\ Entry(f)[2].kind = "len" /\ Entry(f)[2].n = BinLen
<1> DEFINE u == [kind |-> "name", name |-> f]
           v == [kind |-> "len", n |-> BinLen]
           x == <<u, v>>
           y == Cells(BinLen, [kind |-> "bin", name |-> f])
<1>1. BinLen \in Nat
  BY SizeAssumption DEF SizeAssumption
<1>2. u \in Plain /\ v \in Plain
  BY <1>1, KindsTyped
<1>3. y \in Seq(Plain) /\ Len(y) = BinLen
  <2>1. [kind |-> "bin", name |-> f] \in Plain
    BY KindsTyped
  <2> QED
    BY <1>1, <2>1, CellsTyped
<1>4. u.kind = "name" /\ v.kind = "len" /\ v.n = BinLen
  OBVIOUS
<1> HIDE DEF u, v
<1>5. x \in Seq(Plain) /\ Len(x) = 2 /\ x[1] = u /\ x[2] = v
  BY <1>2
<1> HIDE DEF x, y
<1>6. /\ x \o y \in Seq(Plain) /\ Len(x \o y) = Len(x) + Len(y)
      /\ \A i \in 1 .. Len(x) + Len(y) : (x \o y)[i] = IF i <= Len(x) THEN x[i] ELSE y[i - Len(x)]
  BY <1>3, <1>5, ConcatProperties
<1>7. (x \o y)[1] = u /\ (x \o y)[2] = v /\ Len(x \o y) = BinLen + 2
  BY <1>1, <1>3, <1>5, <1>6
<1>8. Entry(f) = x \o y
  BY DEF Entry, x, y, u, v
<1> QED
  BY <1>1, <1>4, <1>6, <1>7, <1>8

\* Where the elements of two sequences are, one behind the other.
LEMMA ConcatAt ==
    ASSUME NEW S, NEW s \in Seq(S), NEW t \in Seq(S)
    PROVE  /\ s \o t \in Seq(S) /\ Len(s) \in Nat /\ Len(t) \in Nat
           /\ Len(s \o t) = Len(s) + Len(t)
           /\ \A i \in 1 .. Len(s) : (s \o t)[i] = s[i]
           /\ \A i \in 1 .. Len(t) : (s \o t)[Len(s) + i] = t[i]
<1>1. Len(s) \in Nat /\ Len(t) \in Nat
  BY LenProperties
<1>2. /\ s \o t \in Seq(S) /\ Len(s \o t) = Len(s) + Len(t)
      /\ \A i \in 1 .. Len(s) + Len(t) :
            (s \o t)[i] = IF i <= Len(s) THEN s[i] ELSE t[i - Len(s)]
  BY ConcatProperties
<1>3. ASSUME NEW i \in 1 .. Len(s) PROVE (s \o t)[i] = s[i]
  BY <1>1, <1>2
<1>4. ASSUME NEW i \in 1 .. Len(t) PROVE (s \o t)[Len(s) + i] = t[i]
  <2>1. /\ Len(s) + i \in 1 .. Len(s) + Len(t) /\ ~(Len(s) + i <= Len(s))
        /\ (Len(s) + i) - Len(s) = i
    BY <1>1
  <2> QED
    BY <1>2, <2>1
<1> QED
  BY <1>1, <1>2, <1>3, <1>4

LEMMA DigestsTyped ==
    ASSUME NEW h \in Header
    PROVE  /\ Digests(h) \in Seq(Digest) /\ Len(Digests(h)) = Len(h.layers)
           /\ \A i \in 1 .. Len(h.layers) : /\ Digests(h)[i] = h.layers[i].digest
                                            /\ h.layers[i].digest \in Digest
<1>1. /\ Len(h.layers) \in Nat /\ DOMAIN h.layers = 1 .. Len(h.layers)
      /\ \A i \in 1 .. Len(h.layers) : h.layers[i] \in LayerEntry
  BY HeaderTyped
<1>2. \A i \in 1 .. Len(h.layers) : h.layers[i].digest \in Digest
  BY <1>1 DEF LayerEntry
<1>3. Digests(h) \in [1 .. Len(h.layers) -> Digest]
  BY <1>1, <1>2 DEF Digests
<1>4. \A i \in 1 .. Len(h.layers) : Digests(h)[i] = h.layers[i].digest
  BY <1>1 DEF Digests
<1> QED
  BY <1>1, <1>2, <1>3, <1>4, FunctionIsSequence

LEMMA LayersTyped ==
    ASSUME NEW ds \in Seq(Digest)
    PROVE  /\ Layers(ds) \in Seq(Seq(Plain)) /\ Len(Layers(ds)) = Len(ds)
           /\ \A i \in 1 .. Len(ds) : Layers(ds)[i] = Layer(ds[i])
<1> DEFINE V == Seq(Plain)
<1>1. /\ Len(ds) \in Nat /\ DOMAIN ds = 1 .. Len(ds)
      /\ \A i \in 1 .. Len(ds) : ds[i] \in Digest
  BY LenProperties
<1>2. \A i \in 1 .. Len(ds) : Layer(ds[i]) \in V
  BY <1>1, LayerTyped
<1> HIDE DEF V
<1>3. Layers(ds) \in [1 .. Len(ds) -> V]
  BY <1>1, <1>2 DEF Layers
<1>4. \A i \in 1 .. Len(ds) : Layers(ds)[i] = Layer(ds[i])
  BY <1>1 DEF Layers
<1>5. Layers(ds) \in Seq(V) /\ Len(Layers(ds)) = Len(ds)
  BY <1>1, <1>3, FunctionIsSequence
<1> QED
  BY <1>4, <1>5 DEF V

\* The layers of a header, one behind the other, with their ends.
Spans(g, h) == Unfolds(g, Layers(Digests(h)))

LEMMA SpansAt ==
    ASSUME NEW h \in Header, NEW g, Spans(g, h)
    PROVE  LET ls == Layers(Digests(h)) IN
           /\ ls \in Seq(Seq(Plain)) /\ Len(ls) = Len(h.layers)
           /\ FlattenSeq(ls) \in Seq(Plain) /\ FlattenSeq(ls) = g[Len(h.layers)]
           /\ g[0] = <<>>
           /\ \A i \in 0 .. Len(h.layers) : /\ g[i] \in Seq(Plain) /\ Len(g[i]) \in Nat
                                            /\ Len(g[i]) <= Len(g[Len(h.layers)])
           /\ \A i \in 1 .. Len(h.layers) :
                /\ Len(g[i]) = Len(g[i - 1]) + Size[h.layers[i].digest]
                /\ \A a \in 1 .. Size[h.layers[i].digest] :
                      g[Len(h.layers)][Len(g[i - 1]) + a] = Layer(h.layers[i].digest)[a]
<1> DEFINE ls == Layers(Digests(h))
           n  == Len(h.layers)
<1>1. ls \in Seq(Seq(Plain)) /\ Len(ls) = n
  BY DigestsTyped, LayersTyped
<1>2. ASSUME NEW i \in 1 .. n
      PROVE  ls[i] = Layer(h.layers[i].digest) /\ Len(ls[i]) = Size[h.layers[i].digest]
  <2>1. h.layers[i].digest \in Digest /\ Digests(h)[i] = h.layers[i].digest
    BY DigestsTyped
  <2>2. ls[i] = Layer(h.layers[i].digest)
    BY <2>1, DigestsTyped, LayersTyped
  <2> QED
    BY <2>1, <2>2, LayerTyped
<1>3. Unfolds(g, ls)
  BY DEF Spans
<1> HIDE DEF ls, n
<1>4. FlattenSeq(ls) = g[n] /\ \A k \in 0 .. n : g[k] \in Seq(Plain)
  BY <1>1, <1>3, FlattenIs
<1>5. FlattenSeq(ls) \in Seq(Plain)
  BY <1>1, FlattenTyped
<1>6. /\ g[0] = <<>> /\ \A i \in 0 .. n : Len(g[i]) \in Nat
      /\ \A i \in 1 .. n : Len(g[i]) = Len(g[i - 1]) + Len(ls[i])
      /\ \A i \in 0 .. n : Len(g[i]) <= Len(FlattenSeq(ls))
      /\ \A i \in 1 .. n : \A a \in 1 .. Len(ls[i]) :
            FlattenSeq(ls)[Len(g[i - 1]) + a] = ls[i][a]
  <2>1. /\ g[0] = <<>> /\ \A i \in 0 .. Len(ls) : Len(g[i]) \in Nat
        /\ \A i \in 1 .. Len(ls) : Len(g[i]) = Len(g[i - 1]) + Len(ls[i])
        /\ \A i \in 0 .. Len(ls) : Len(g[i]) <= Len(FlattenSeq(ls))
        /\ \A i \in 1 .. Len(ls) : \A a \in 1 .. Len(ls[i]) :
              FlattenSeq(ls)[Len(g[i - 1]) + a] = ls[i][a]
    BY <1>1, <1>3, FlattenPlaces, Zenon
  <2> QED
    BY <1>1, <2>1
<1>7. \A i \in 0 .. n : Len(g[i]) <= Len(g[n])
  BY <1>4, <1>6
<1>8. ASSUME NEW i \in 1 .. n, NEW a \in 1 .. Size[h.layers[i].digest]
      PROVE  g[n][Len(g[i - 1]) + a] = Layer(h.layers[i].digest)[a]
  BY <1>2, <1>4, <1>6
<1>9. ASSUME NEW i \in 1 .. n PROVE Len(g[i]) = Len(g[i - 1]) + Size[h.layers[i].digest]
  BY <1>2, <1>6
<1>10. /\ ls \in Seq(Seq(Plain)) /\ Len(ls) = Len(h.layers)
       /\ FlattenSeq(ls) \in Seq(Plain) /\ FlattenSeq(ls) = g[Len(h.layers)]
  BY <1>1, <1>4, <1>5 DEF n
<1>11. \A i \in 0 .. n : g[i] \in Seq(Plain) /\ Len(g[i]) \in Nat /\ Len(g[i]) <= Len(g[n])
  BY <1>4, <1>6, <1>7
<1> QED
  BY <1>6, <1>8, <1>9, <1>10, <1>11 DEF ls, n

LEMMA SpansExist ==
    ASSUME NEW h \in Header
    PROVE  \E g : Spans(g, h)
<1>1. Layers(Digests(h)) \in Seq(Seq(Plain))
  BY DigestsTyped, LayersTyped
<1> QED
  BY <1>1, FlattenHas DEF Spans

-----------------------------------------------------------------------------
(* The whole, and what of it is where.                                     *)

Binaries(boot) == [i \in DOMAIN boot |-> Entry(boot[i])]

LEMMA BinariesTyped ==
    ASSUME NEW boot \in Seq(File)
    PROVE  /\ Binaries(boot) \in Seq(Seq(Plain)) /\ Len(Binaries(boot)) = Len(boot)
           /\ Len(boot) \in Nat
           /\ \A i \in 1 .. Len(boot) : boot[i] \in File /\ Binaries(boot)[i] = Entry(boot[i])
<1> DEFINE V == Seq(Plain)
<1>1. /\ Len(boot) \in Nat /\ DOMAIN boot = 1 .. Len(boot)
      /\ \A i \in 1 .. Len(boot) : boot[i] \in File
  BY LenProperties
<1>2. \A i \in 1 .. Len(boot) : Entry(boot[i]) \in V
  BY <1>1, EntryTyped
<1> HIDE DEF V
<1>3. Binaries(boot) \in [1 .. Len(boot) -> V]
  BY <1>1, <1>2 DEF Binaries
<1>4. \A i \in 1 .. Len(boot) : Binaries(boot)[i] = Entry(boot[i])
  BY <1>1 DEF Binaries
<1>5. Binaries(boot) \in Seq(V) /\ Len(Binaries(boot)) = Len(boot)
  BY <1>1, <1>3, FunctionIsSequence
<1> QED
  BY <1>1, <1>4, <1>5 DEF V

LEMMA DataTyped ==
    ASSUME NEW boot \in Seq(File)
    PROVE  LET data == BootstrapData(boot)
               all  == FlattenSeq(Binaries(boot)) IN
           /\ data \in Seq(Plain) /\ all \in Seq(Plain) /\ Len(all) \in Nat
           /\ Len(data) = 1 + Len(all)
           /\ data[1] = [kind |-> "count", n |-> Len(boot)]
           /\ \A i \in 1 .. Len(all) : data[1 + i] = all[i]
<1> DEFINE c   == [kind |-> "count", n |-> Len(boot)]
           x   == <<c>>
           all == FlattenSeq(Binaries(boot))
<1>1. c \in Plain
  BY BinariesTyped, KindsTyped
<1> HIDE DEF c
<1>2. x \in Seq(Plain) /\ Len(x) = 1 /\ x[1] = c
  BY <1>1
<1>3. all \in Seq(Plain)
  <2>1. Binaries(boot) \in Seq(Seq(Plain))
    BY BinariesTyped
  <2> QED
    BY <2>1, FlattenTyped
<1>4. BootstrapData(boot) = x \o all
  BY DEF BootstrapData, Binaries, c
<1> HIDE DEF x, all
<1>5. /\ x \o all \in Seq(Plain) /\ Len(all) \in Nat
      /\ Len(x \o all) = Len(x) + Len(all)
      /\ \A i \in 1 .. Len(x) : (x \o all)[i] = x[i]
      /\ \A i \in 1 .. Len(all) : (x \o all)[Len(x) + i] = all[i]
  <2>1. x \in Seq(Plain) /\ all \in Seq(Plain)
    BY <1>2, <1>3
  <2> QED
    BY ONLY <2>1, ConcatAt
<1>6. /\ Len(x \o all) = 1 + Len(all) /\ (x \o all)[1] = c
      /\ \A i \in 1 .. Len(all) : (x \o all)[1 + i] = all[i]
  BY <1>2, <1>5
<1> QED
  BY <1>3, <1>4, <1>5, <1>6 DEF all, c

\* The length of what comes before the layers.
HeadLen(h) == StubLen + EncodedLen(h)

LaidOut(h, g) ==
    \A i \in 1 .. Len(g[Len(h.layers)]) :
        Main(h)[HeadLen(h) + i] = g[Len(h.layers)][i]

LEMMA MainAt ==
    ASSUME NEW h \in Header, NEW g, Spans(g, h)
    PROVE  LET m == HeadLen(h)
               n == Len(g[Len(h.layers)]) IN
           /\ Main(h) \in Seq(Plain) /\ StubLen \in Nat /\ m \in Nat /\ n \in Nat
           /\ StubLen + 1 <= m /\ Len(Main(h)) = m + n
           /\ \A i \in 1 .. StubLen : Main(h)[i] = StubBytes[i] /\ Main(h)[i].kind = "stub"
           /\ Main(h)[StubLen + 1] = [kind |-> "NX02", header |-> h]
           /\ LaidOut(h, g)
<1> DEFINE s  == StubBytes
           e  == Encode(h)
           ls == FlattenSeq(Layers(Digests(h)))
           all == g[Len(h.layers)]
           u  == s \o e
           w  == u \o ls
<1>1. /\ s \in Seq(Plain) /\ Len(s) = StubLen /\ StubLen \in Nat
      /\ \A i \in 1 .. StubLen : s[i].kind = "stub"
  BY StubTyped
<1>2. /\ e \in Seq(Plain) /\ Len(e) = EncodedLen(h)
      /\ e[1] = [kind |-> "NX02", header |-> h]
  BY EncodeTyped
<1>3. EncodedLen(h) \in Nat /\ EncodedLen(h) >= 1
  BY HeaderTyped
<1>4. ls \in Seq(Plain) /\ ls = all
  BY SpansAt
<1> HIDE DEF s, e, ls, all
<1>5. /\ u \in Seq(Plain) /\ Len(u) = Len(s) + Len(e)
      /\ \A i \in 1 .. Len(s) : u[i] = s[i]
      /\ \A i \in 1 .. Len(e) : u[Len(s) + i] = e[i]
  <2>1. s \in Seq(Plain) /\ e \in Seq(Plain)
    BY <1>1, <1>2
  <2> QED
    BY ONLY <2>1, ConcatAt
<1> HIDE DEF u
<1>6. /\ w \in Seq(Plain) /\ Len(w) = Len(u) + Len(ls) /\ Len(ls) \in Nat
      /\ \A i \in 1 .. Len(u) : w[i] = u[i]
      /\ \A i \in 1 .. Len(ls) : w[Len(u) + i] = ls[i]
  <2>1. u \in Seq(Plain) /\ ls \in Seq(Plain)
    BY <1>4, <1>5
  <2> QED
    BY ONLY <2>1, ConcatAt
<1> HIDE DEF w
<1>7. Len(u) = HeadLen(h) /\ HeadLen(h) \in Nat /\ StubLen + 1 <= HeadLen(h)
  <2> DEFINE p == StubLen
             q == EncodedLen(h)
  <2>1. p \in Nat /\ q \in Nat /\ q >= 1 /\ Len(u) = p + q /\ HeadLen(h) = p + q
    BY <1>1, <1>2, <1>3, <1>5 DEF HeadLen
  <2> HIDE DEF p, q
  <2>2. p + q \in Nat /\ p + 1 <= p + q
    BY <2>1
  <2> QED
    BY <2>1, <2>2 DEF p
<1>8. ASSUME NEW i \in 1 .. StubLen PROVE w[i] = s[i] /\ w[i].kind = "stub"
  <2>1. i \in 1 .. Len(u) /\ i \in 1 .. Len(s)
    BY <1>1, <1>7
  <2> QED
    BY <1>1, <1>5, <1>6, <2>1
<1>9. w[StubLen + 1] = e[1]
  <2>1. StubLen + 1 \in 1 .. Len(u) /\ 1 \in 1 .. Len(e)
    BY <1>1, <1>2, <1>3, <1>7
  <2> QED
    BY <1>1, <1>5, <1>6, <2>1
<1>10. \A i \in 1 .. Len(all) : w[HeadLen(h) + i] = all[i]
  BY <1>4, <1>6, <1>7
<1>11. Len(w) = HeadLen(h) + Len(all) /\ Len(all) \in Nat
  BY <1>4, <1>6, <1>7
<1>12. Main(h) = w
  BY DEF Main, w, u, s, e, ls
<1> QED
  BY <1>1, <1>2, <1>6, <1>7, <1>8, <1>9, <1>10, <1>11, <1>12 DEF all, s, LaidOut

LEMMA SectionAt ==
    ASSUME NEW h \in Header, NEW boot \in Seq(File)
    PROVE  LET data == BootstrapData(boot) IN
           /\ Section(h, boot) \in Seq(Cell)
           /\ boot = <<>> => Len(Section(h, boot)) = 0
           /\ boot # <<>> =>
                /\ Len(Section(h, boot)) = Len(data) + 1
                /\ \A i \in 1 .. Len(data) : Section(h, boot)[i] = data[i]
                /\ Section(h, boot)[Len(data) + 1]
                     = [kind |-> "NXBT", offset |-> Len(Main(h)), size |-> Len(data)]
<1> DEFINE data == BootstrapData(boot)
           c == [kind |-> "NXBT", offset |-> Len(Main(h)), size |-> Len(data)]
           t == <<c>>
<1>1. data \in Seq(Plain) /\ Len(data) \in Nat
  BY DataTyped, LenProperties
<1>2. Main(h) \in Seq(Plain)
  BY SpansExist, MainAt
<1>3. data \in Seq(Cell)
  BY <1>1, KindsTyped, SeqMonotone
<1>4. c \in Cell
  <2>1. Len(Main(h)) \in Nat
    BY <1>2, LenProperties
  <2> HIDE DEF data
  <2> QED
    BY <1>1, <2>1, KindsTyped
<1>5. Trailer(Len(Main(h)), Len(data)) = t
  BY DEF Trailer
<1> HIDE DEF c
<1>6. t \in Seq(Cell) /\ Len(t) = 1 /\ t[1] = c
  BY <1>4
<1> HIDE DEF t
<1>7. Section(h, boot) = IF boot = <<>> THEN <<>> ELSE data \o t
  BY <1>5 DEF Section
<1> HIDE DEF data
<1>8. /\ data \o t \in Seq(Cell) /\ Len(data \o t) = Len(data) + Len(t)
      /\ \A i \in 1 .. Len(data) : (data \o t)[i] = data[i]
      /\ \A i \in 1 .. Len(t) : (data \o t)[Len(data) + i] = t[i]
  BY <1>3, <1>6, ConcatAt
<1>9. (data \o t)[Len(data) + 1] = c /\ Len(data \o t) = Len(data) + 1
  BY <1>6, <1>8
<1>10. <<>> \in Seq(Cell) /\ Len(<<>>) = 0
  BY EmptySeq
<1> QED
  BY <1>7, <1>8, <1>9, <1>10 DEF data, c

LEMMA WholeAt ==
    ASSUME NEW h \in Header, NEW boot \in Seq(File)
    PROVE  LET m == Len(Main(h))
               l == Len(Section(h, boot)) IN
           /\ Whole(h, boot) \in Seq(Cell) /\ m \in Nat /\ l \in Nat
           /\ Len(Whole(h, boot)) = m + l
           /\ \A i \in 1 .. m : /\ Whole(h, boot)[i] = Main(h)[i]
                                /\ Main(h)[i] \in Plain
           /\ \A i \in 1 .. l : Whole(h, boot)[m + i] = Section(h, boot)[i]
<1>1. Main(h) \in Seq(Plain)
  BY SpansExist, MainAt
<1>2. Main(h) \in Seq(Cell)
  BY <1>1, KindsTyped, SeqMonotone
<1>3. Section(h, boot) \in Seq(Cell)
  BY SectionAt
<1>4. \A i \in 1 .. Len(Main(h)) : Main(h)[i] \in Plain
  BY <1>1, LenProperties
<1> QED
  BY <1>2, <1>3, <1>4, ConcatAt DEF Whole

-----------------------------------------------------------------------------
(* What the readers find in a file that is written up to some cell.        *)

Part(f, rest, h, boot) ==
    /\ f \in Seq(Cell) /\ rest \in Seq(Cell) /\ f \o rest = Whole(h, boot)
    /\ Proper(h, boot)

LEMMA PartAt ==
    ASSUME NEW f, NEW rest, NEW h, NEW boot, Part(f, rest, h, boot)
    PROVE  /\ f \in Seq(Cell) /\ f # None /\ h \in Header /\ boot \in Seq(File)
           /\ Len(f) \in Nat /\ Len(rest) \in Nat /\ Len(Main(h)) \in Nat
           /\ Len(Whole(h, boot)) = Len(f) + Len(rest)
           /\ \A i \in 1 .. Len(f) : f[i] = Whole(h, boot)[i]
           /\ \A i \in 1 .. Len(f) : i <= Len(Main(h)) =>
                 f[i] = Main(h)[i] /\ f[i].kind # "NXBT" /\ f[i] \in Plain
<1>1. /\ f \in Seq(Cell) /\ rest \in Seq(Cell) /\ f \o rest = Whole(h, boot)
      /\ h \in Header /\ boot \in Seq(File)
  BY DEF Part, Proper
<1>2. f # None
  BY <1>1, SentinelAssumption DEF SentinelAssumption
<1> DEFINE w == f \o rest
<1>3. /\ Len(f) \in Nat /\ Len(rest) \in Nat /\ Len(w) = Len(f) + Len(rest)
      /\ \A i \in 1 .. Len(f) : w[i] = f[i]
  <2>1. f \in Seq(Cell) /\ rest \in Seq(Cell)
    BY <1>1
  <2> QED
    BY ONLY <2>1, ConcatAt
<1>4. w = Whole(h, boot)
  BY <1>1
<1> HIDE DEF w
<1>5. /\ Len(Main(h)) \in Nat
      /\ \A i \in 1 .. Len(Main(h)) : Whole(h, boot)[i] = Main(h)[i] /\ Main(h)[i] \in Plain
  BY <1>1, WholeAt
<1>6. ASSUME NEW i \in 1 .. Len(f), i <= Len(Main(h))
      PROVE  f[i] = Main(h)[i] /\ f[i].kind # "NXBT" /\ f[i] \in Plain
  <2>1. i \in 1 .. Len(Main(h))
    BY <1>3, <1>5, <1>6
  <2>2. f[i] = Main(h)[i] /\ f[i] \in Plain
    BY <1>3, <1>4, <1>5, <2>1
  <2>3. f[i].kind # "NXBT"
    BY <2>2 DEF Plain
  <2> QED
    BY <2>2, <2>3
<1> QED
  BY <1>1, <1>2, <1>3, <1>4, <1>5, <1>6

\* BundleHeader::parse finds the header that was written, or none yet.
LEMMA HeaderIsRead ==
    ASSUME NEW f, NEW rest, NEW h, NEW boot, Part(f, rest, h, boot)
    PROVE  /\ Len(f) <= StubLen => MagicAt(f) = 0
           /\ Len(f) > StubLen =>
                MagicAt(f) = StubLen + 1 /\ HeaderOf(f) = h /\ Offset(f) = StubLen
           /\ Parses(f) <=> Len(f) >= HeadLen(h)
<1>1. /\ f \in Seq(Cell) /\ f # None /\ h \in Header /\ Len(f) \in Nat
      /\ \A i \in 1 .. Len(f) : i <= Len(Main(h)) => f[i] = Main(h)[i]
      /\ DOMAIN f = 1 .. Len(f)
  BY PartAt, LenProperties
<1>2. PICK g : Spans(g, h)
  BY <1>1, SpansExist
<1>3. /\ StubLen \in Nat /\ HeadLen(h) \in Nat /\ StubLen + 1 <= HeadLen(h)
      /\ HeadLen(h) <= Len(Main(h)) /\ Len(Main(h)) \in Nat
      /\ \A i \in 1 .. StubLen : Main(h)[i].kind = "stub"
      /\ Main(h)[StubLen + 1] = [kind |-> "NX02", header |-> h]
  <2> DEFINE n == Len(g[Len(h.layers)])
  <2>1. /\ StubLen \in Nat /\ HeadLen(h) \in Nat /\ n \in Nat
        /\ StubLen + 1 <= HeadLen(h) /\ Len(Main(h)) = HeadLen(h) + n
        /\ \A i \in 1 .. StubLen : Main(h)[i].kind = "stub"
        /\ Main(h)[StubLen + 1] = [kind |-> "NX02", header |-> h]
    BY <1>1, <1>2, MainAt
  <2> HIDE DEF n
  <2> QED
    BY <2>1
<1>4. ASSUME NEW i \in 1 .. Len(f), i <= StubLen PROVE f[i].kind # "NX02"
  <2>1. i \in 1 .. StubLen /\ i <= Len(Main(h))
    BY <1>1, <1>3, <1>4
  <2>2. f[i].kind = "stub"
    BY <1>1, <1>3, <2>1
  <2> QED
    BY <2>2
<1>5. ASSUME Len(f) <= StubLen PROVE MagicAt(f) = 0
  <2>1. \A i \in DOMAIN f : f[i].kind # "NX02"
    BY <1>1, <1>3, <1>4, <1>5
  <2> QED
    BY <2>1 DEF MagicAt
<1>6. ASSUME Len(f) > StubLen
      PROVE  MagicAt(f) = StubLen + 1 /\ HeaderOf(f) = h /\ Offset(f) = StubLen
  <2> DEFINE First(i) == f[i].kind = "NX02" /\ \A j \in 1 .. i - 1 : f[j].kind # "NX02"
             k == StubLen + 1
  <2>1. k \in 1 .. Len(f) /\ k <= Len(Main(h)) /\ k \in Nat
    BY <1>1, <1>3, <1>6
  <2>2. f[k] = [kind |-> "NX02", header |-> h]
    BY <1>1, <1>3, <2>1
  <2>3. First(k)
    <3>1. \A j \in 1 .. k - 1 : f[j].kind # "NX02"
      BY <1>1, <1>3, <1>4, <1>6
    <3> QED
      BY <2>2, <3>1
  <2>4. ASSUME NEW i \in DOMAIN f, First(i) PROVE i = k
    <3>1. i \in 1 .. Len(f)
      BY <1>1
    <3>2. ~(i <= StubLen)
      BY <1>4, <2>4, <3>1
    <3>3. ~(i > k)
      <4> SUFFICES ASSUME i > k PROVE FALSE
        OBVIOUS
      <4>1. k \in 1 .. i - 1
        BY <1>3, <3>1
      <4>2. f[k].kind # "NX02"
        BY <2>4, <4>1
      <4> QED
        BY <2>2, <4>2
    <3> QED
      BY <1>3, <3>1, <3>2, <3>3
  <2>5. MagicAt(f) = CHOOSE i \in DOMAIN f : First(i)
    <3>1. \E i \in DOMAIN f : f[i].kind = "NX02"
      BY <1>1, <2>1, <2>3
    <3> QED
      BY <3>1 DEF MagicAt
  <2>6. MagicAt(f) = k
    <3>1. k \in DOMAIN f
      BY <1>1, <2>1
    <3> HIDE DEF First, k
    <3> QED
      BY <2>3, <2>4, <2>5, <3>1
  <2>7. HeaderOf(f) = h
    BY <2>2, <2>6 DEF HeaderOf
  <2>8. Offset(f) = StubLen
    BY <1>3, <2>6 DEF Offset
  <2> QED
    BY <2>6, <2>7, <2>8
<1>7. Parses(f) <=> Len(f) >= HeadLen(h)
  <2>1. CASE Len(f) <= StubLen
    <3>1. ~Parses(f)
      BY <1>5, <2>1 DEF Parses
    <3> QED
      BY <1>1, <1>3, <2>1, <3>1
  <2>2. CASE Len(f) > StubLen
    <3>1. MagicAt(f) = StubLen + 1 /\ HeaderOf(f) = h /\ Offset(f) = StubLen
      BY <1>6, <2>2
    <3>2. StubLen + 1 # 0
      BY <1>3
    <3> QED
      BY <1>1, <3>1, <3>2 DEF Parses, HeadLen
  <2> QED
    BY <1>1, <1>3, <2>1, <2>2
<1> QED
  BY <1>5, <1>6, <1>7

\* What is cut out of a sequence.
LEMMA CutOut ==
    ASSUME NEW S, NEW f \in Seq(S), NEW t \in Seq(S), NEW p \in Nat,
           p + Len(t) <= Len(f), \A a \in 1 .. Len(t) : f[p + a] = t[a]
    PROVE  SubSeq(f, p + 1, p + Len(t)) = t
<1> DEFINE n == Len(t)
           l == Len(f)
           x == p + 1
           y == p + n
           c == SubSeq(f, x, y)
<1>1. n \in Nat /\ l \in Nat /\ y <= l /\ \A i \in 1 .. l : f[i] \in S
  BY LenProperties
<1>2. x \in Int /\ y \in Int
  BY <1>1
<1>3. \A i \in x .. y : f[i] \in S
  <2> HIDE DEF l, n
  <2> QED
    BY <1>1
<1>4. Len(c) = n
  <2>1. Len(c) = IF x <= y THEN y - x + 1 ELSE 0
    <3> HIDE DEF x, y
    <3> QED
      BY <1>2, <1>3, SubSeqProperties
  <2> HIDE DEF c, n
  <2> QED
    BY <1>1, <2>1
<1>5. c \in Seq(S) /\ \A i \in 1 .. y - x + 1 : c[i] = f[x + i - 1]
  <2> HIDE DEF x, y
  <2> QED
    BY <1>2, <1>3, SubSeqProperties
<1>6. ASSUME NEW a \in 1 .. n PROVE c[a] = t[a]
  <2>1. a \in 1 .. y - x + 1 /\ x + a - 1 = p + a
    <3> HIDE DEF n
    <3> QED
      BY <1>1
  <2>2. c[a] = f[x + a - 1]
    BY <1>5, <2>1
  <2>3. f[p + a] = t[a]
    OBVIOUS
  <2> HIDE DEF c, x, n
  <2> QED
    BY <2>1, <2>2, <2>3
<1>7. c = t
  <2> HIDE DEF c
  <2>1. \A a \in 1 .. Len(c) : c[a] = t[a]
    BY <1>4, <1>6
  <2>2. Len(c) = Len(t)
    BY <1>4
  <2> QED
    BY <1>5, <2>1, <2>2, SeqEqual
<1> QED
  BY <1>7

\* Bundle::extract_layer looks where the layer was put.
LEMMA StartsAreRead ==
    ASSUME NEW f, NEW rest, NEW h, NEW boot, Part(f, rest, h, boot), Len(f) > StubLen,
           NEW g, Spans(g, h)
    PROVE  /\ \A i \in 1 .. Len(h.layers) + 1 : LayerStart(f, i) = HeadLen(h) + Len(g[i - 1])
           /\ LayersEnd(f) = Len(Main(h))
<1> DEFINE n  == Len(h.layers)
           ls == Layers(Digests(h))
<1>1. h \in Header /\ h.layers \in Seq(LayerEntry) /\ n \in Nat /\ Sized(h)
      /\ DOMAIN h.layers = 1 .. n
  BY HeaderTyped DEF Part, Proper
<1>2. MagicAt(f) = StubLen + 1 /\ HeaderOf(f) = h /\ Offset(f) = StubLen
  BY HeaderIsRead
<1>3. LayersOffset(f) = HeadLen(h)
  BY <1>2 DEF LayersOffset, HeadLen
<1>4. ls \in Seq(Seq(Plain)) /\ Len(ls) = n
  BY <1>1, SpansAt
<1>5. ASSUME NEW j \in 1 .. n
      PROVE  h.layers[j].size \in Nat /\ Len(ls[j]) = h.layers[j].size
  <2>1. h.layers[j].digest \in Digest /\ Digests(h)[j] = h.layers[j].digest
    BY <1>1, DigestsTyped
  <2>2. ls[j] = Layer(h.layers[j].digest)
    <3>1. Digests(h) \in Seq(Digest) /\ Len(Digests(h)) = n
      BY <1>1, DigestsTyped
    <3> QED
      BY <2>1, <3>1, LayersTyped
  <2>3. h.layers[j].size = Size[h.layers[j].digest]
    BY <1>1 DEF Sized
  <2> QED
    BY <2>1, <2>2, <2>3, LayerTyped
<1>6. ASSUME NEW i \in 1 .. n + 1 PROVE LayerStart(f, i) = HeadLen(h) + Len(g[i - 1])
  <2> DEFINE k == i - 1
             Z == Seq({0})
             sizes == [j \in 1 .. k |-> Cells(h.layers[j].size, 0)]
  <2>1. k \in 0 .. n /\ k \in Nat /\ \A j \in 1 .. k : j \in 1 .. n
    BY <1>1
  <2>2. ASSUME NEW j \in 1 .. k
        PROVE  Cells(h.layers[j].size, 0) \in Z /\ Len(Cells(h.layers[j].size, 0)) = Len(ls[j])
    <3>1. h.layers[j].size \in Nat /\ Len(ls[j]) = h.layers[j].size /\ 0 \in {0}
      BY <1>5, <2>1
    <3> QED
      BY <3>1, CellsTyped
  <2>3. LayerStart(f, i) = HeadLen(h) + Len(FlattenSeq(sizes))
    BY <1>2, <1>3 DEF LayerStart, Total
  <2> HIDE DEF k, ls, Z
  <2>4. \A j \in 1 .. k : sizes[j] = Cells(h.layers[j].size, 0)
    OBVIOUS
  <2>5. sizes \in [1 .. k -> Z]
    BY <2>2
  <2> HIDE DEF sizes
  <2>6. sizes \in Seq(Z) /\ Len(sizes) = k
    BY <2>1, <2>5, FunctionIsSequence
  <2>7. \A j \in 1 .. k : Len(sizes[j]) = Len(ls[j])
    BY <2>2, <2>4
  <2>8. Unfolds(g, ls)
    BY DEF Spans, ls
  <2>9. Len(FlattenSeq(sizes)) = Len(g[k])
    <3>1. sizes \in Seq(Seq({0}))
      BY <2>6 DEF Z
    <3>2. k \in 0 .. Len(ls)
      <4>1. Len(ls) = n /\ k \in 0 .. n
        BY ONLY <1>4, <2>1
      <4> QED
        BY ONLY <4>1
    <3> QED
      BY <1>4, <2>6, <2>7, <2>8, <3>1, <3>2, LengthsAgree, SMTT(40)
  <2> QED
    BY <2>3, <2>9 DEF k
<1>7. LayersEnd(f) = Len(Main(h))
  <2>1. n + 1 \in 1 .. n + 1 /\ (n + 1) - 1 = n
    BY <1>1
  <2>2. LayerStart(f, n + 1) = HeadLen(h) + Len(g[(n + 1) - 1])
    BY <1>6, <2>1
  <2>3. LayerStart(f, n + 1) = HeadLen(h) + Len(g[n])
    <3> DEFINE k == n + 1
    <3>1. k - 1 = n
      BY <2>1
    <3>2. LayerStart(f, k) = HeadLen(h) + Len(g[k - 1])
      BY <2>2
    <3> HIDE DEF k, n
    <3>3. LayerStart(f, k) = HeadLen(h) + Len(g[n])
      BY <3>1, <3>2
    <3> QED
      BY <3>3 DEF k
  <2>4. Len(Main(h)) = HeadLen(h) + Len(g[n])
    BY <1>1, MainAt
  <2> QED
    BY <1>2, <2>3, <2>4 DEF LayersEnd
<1> QED
  BY <1>6, <1>7

LEMMA LayersAreRead ==
    ASSUME NEW f, NEW rest, NEW h, NEW boot, Part(f, rest, h, boot), Len(f) > StubLen,
           NEW g, Spans(g, h), NEW i \in 1 .. Len(h.layers)
    PROVE  /\ ExtractLayer(f, i) = IF HeadLen(h) + Len(g[i]) > Len(f) THEN None
                                   ELSE Layer(h.layers[i].digest)
           /\ Layer(h.layers[i].digest) # None
<1> DEFINE n == Len(h.layers)
           d == h.layers[i].digest
           start == HeadLen(h) + Len(g[i - 1])
           t == Layer(d)
<1>1. h \in Header /\ n \in Nat /\ d \in Digest /\ h.layers[i].size = Size[d]
  <2>1. h \in Header /\ Sized(h)
    BY DEF Part, Proper
  <2>2. n \in Nat /\ DOMAIN h.layers = 1 .. n /\ d \in Digest
    BY <2>1, HeaderTyped, DigestsTyped
  <2> QED
    BY <2>1, <2>2 DEF Sized
<1>2. HeaderOf(f) = h
  BY HeaderIsRead
<1>3. LayerStart(f, i) = start
  <2>1. i \in 1 .. n + 1
    BY <1>1
  <2> QED
    BY <2>1, StartsAreRead
<1>4. Size[d] \in Nat /\ t \in Seq(Plain) /\ Len(t) = Size[d]
  BY <1>1, LayerTyped
<1>5. t \in Seq(Cell)
  BY <1>4, KindsTyped, SeqMonotone
<1>6. t # None
  BY <1>5, SentinelAssumption DEF SentinelAssumption
<1>7. /\ Len(g[i]) = Len(g[i - 1]) + Size[d] /\ Len(g[i - 1]) \in Nat
      /\ \A a \in 1 .. Size[d] : g[n][Len(g[i - 1]) + a] = t[a]
      /\ Len(g[i]) <= Len(g[n]) /\ Len(g[i]) \in Nat /\ Len(g[n]) \in Nat
  <2>1. i - 1 \in 0 .. n /\ i \in 0 .. n /\ n \in 0 .. n
    BY <1>1
  <2> HIDE DEF t, d, n
  <2>2. Len(g[i]) = Len(g[i - 1]) + Size[d] /\ \A a \in 1 .. Size[d] : g[n][Len(g[i - 1]) + a] = t[a]
    BY <1>1, SpansAt DEF t, d, n
  <2>3. \A j \in 0 .. n : Len(g[j]) \in Nat /\ Len(g[j]) <= Len(g[n])
    BY <1>1, SpansAt DEF n
  <2> QED
    BY <2>1, <2>2, <2>3
<1>8. /\ HeadLen(h) \in Nat /\ Len(Main(h)) = HeadLen(h) + Len(g[n])
      /\ \A k \in 1 .. Len(g[n]) : Main(h)[HeadLen(h) + k] = g[n][k]
  <2>1. /\ HeadLen(h) \in Nat /\ Len(Main(h)) = HeadLen(h) + Len(g[n])
        /\ LaidOut(h, g)
    BY <1>1, MainAt
  <2> QED
    BY <2>1 DEF LaidOut
<1>9. /\ f \in Seq(Cell) /\ Len(f) \in Nat
      /\ \A k \in 1 .. Len(f) : k <= Len(Main(h)) => f[k] = Main(h)[k]
  BY PartAt
<1>10. start \in Nat /\ start + Size[d] = HeadLen(h) + Len(g[i])
  <2> DEFINE p == HeadLen(h)
             q == Len(g[i - 1])
             r == Size[d]
  <2>1. p \in Nat /\ q \in Nat /\ r \in Nat /\ Len(g[i]) = q + r
    BY <1>4, <1>7, <1>8
  <2> HIDE DEF p, q, r
  <2>2. p + q \in Nat /\ (p + q) + r = p + (q + r)
    BY <2>1
  <2> QED
    BY <2>1, <2>2 DEF p, q, r
<1>11. ASSUME ~(start + Size[d] > Len(f)), NEW a \in 1 .. Len(t) PROVE f[start + a] = t[a]
  <2> DEFINE p == HeadLen(h)
             q == Len(g[i - 1])
             r == Size[d]
             m == Len(g[n])
             l == Len(f)
  <2>1. /\ p \in Nat /\ q \in Nat /\ r \in Nat /\ m \in Nat /\ l \in Nat /\ a \in 1 .. r
        /\ Len(g[i]) = q + r /\ q + r <= m /\ ~((p + q) + r > l)
    BY <1>4, <1>7, <1>8, <1>9, <1>11
  <2> HIDE DEF p, q, r, m, l
  <2>2. /\ q + a \in 1 .. m /\ (p + q) + a = p + (q + a)
        /\ (p + q) + a \in 1 .. l /\ (p + q) + a <= p + m
    BY <2>1
  <2>3. f[(p + q) + a] = Main(h)[(p + q) + a]
    <3>1. Len(Main(h)) = p + m
      BY <1>8 DEF p, m
    <3> QED
      BY <1>9, <2>2, <3>1 DEF l
  <2>4. Main(h)[p + (q + a)] = g[n][q + a]
    BY <1>8, <2>2 DEF p, m
  <2>5. g[n][q + a] = t[a]
    BY <1>7, <2>1 DEF q, r
  <2> QED
    BY <2>2, <2>3, <2>4, <2>5 DEF p, q
<1>12. ExtractLayer(f, i) = IF start + Size[d] > Len(f) THEN None
                            ELSE SubSeq(f, start + 1, start + Size[d])
  BY <1>1, <1>2, <1>3 DEF ExtractLayer
<1> HIDE DEF t, start, d, n
<1>13. ASSUME ~(start + Size[d] > Len(f))
       PROVE  SubSeq(f, start + 1, start + Size[d]) = t
  <2>1. start + Len(t) <= Len(f)
    BY <1>4, <1>9, <1>10, <1>13
  <2>2. \A a \in 1 .. Len(t) : f[start + a] = t[a]
    BY <1>11, <1>13
  <2>3. SubSeq(f, start + 1, start + Len(t)) = t
    BY <1>5, <1>9, <1>10, <2>1, <2>2, CutOut
  <2> QED
    BY <1>4, <2>3
<1>14. ExtractLayer(f, i) = IF HeadLen(h) + Len(g[i]) > Len(f) THEN None ELSE t
  BY <1>10, <1>12, <1>13
<1> QED
  BY <1>6, <1>14 DEF t, d

\* What was written to the end reads back.
LEMMA WholeIsRead ==
    ASSUME NEW f, NEW h, NEW boot, Part(f, <<>>, h, boot)
    PROVE  Parses(f) /\ HeaderOf(f) = h /\ VerifyLayers(f)
<1>1. h \in Header /\ f \in Seq(Cell) /\ f = Whole(h, boot) /\ boot \in Seq(File)
  BY ConcatEmptySeq DEF Part, Proper
<1>2. PICK g : Spans(g, h)
  BY <1>1, SpansExist
<1> DEFINE n == Len(h.layers)
           m == Len(g[n])
<1>3. /\ n \in Nat /\ DOMAIN h.layers = 1 .. n
  BY <1>1, HeaderTyped
<1>4. /\ HeadLen(h) \in Nat /\ Len(Main(h)) = HeadLen(h) + m /\ m \in Nat
      /\ StubLen \in Nat /\ StubLen + 1 <= HeadLen(h)
  BY <1>1, <1>2, MainAt
<1>5. /\ Len(f) = Len(Main(h)) + Len(Section(h, boot)) /\ Len(Section(h, boot)) \in Nat
  BY <1>1, WholeAt
<1> HIDE DEF m
<1>6. Len(f) \in Nat /\ Len(f) >= HeadLen(h) + m /\ Len(f) > StubLen /\ Len(f) >= HeadLen(h)
  <2> DEFINE p == HeadLen(h)
             q == Len(Section(h, boot))
  <2>1. p \in Nat /\ q \in Nat /\ m \in Nat /\ Len(f) = (p + m) + q
    BY <1>4, <1>5
  <2> HIDE DEF p, q
  <2>2. Len(f) \in Nat /\ Len(f) >= p + m /\ Len(f) >= p
    BY <2>1
  <2>3. Len(f) > StubLen
    BY <1>4, <2>2 DEF p
  <2> QED
    BY <2>2, <2>3 DEF p
<1>7. Parses(f) /\ HeaderOf(f) = h
  BY <1>6, HeaderIsRead
<1>8. ASSUME NEW i \in DOMAIN h.layers PROVE LayerOK(f, i)
  <2>1. i \in 1 .. n
    BY <1>3
  <2>2. Len(g[i]) \in Nat /\ Len(g[i]) <= m
    <3>1. i \in 0 .. n
      BY <1>3, <2>1
    <3>2. \A j \in 0 .. n : Len(g[j]) \in Nat /\ Len(g[j]) <= Len(g[n])
      BY <1>1, <1>2, SpansAt
    <3> QED
      BY <3>1, <3>2 DEF m
  <2>3. ~(HeadLen(h) + Len(g[i]) > Len(f))
    <3> DEFINE p == HeadLen(h)
               q == Len(g[i])
               l == Len(f)
    <3>1. p \in Nat /\ q \in Nat /\ q <= m /\ l \in Nat /\ l >= p + m /\ m \in Nat
      BY <1>4, <1>6, <2>2
    <3> HIDE DEF p, q, l
    <3>2. ~(p + q > l)
      BY <3>1
    <3> QED
      BY <3>2 DEF p, q, l
  <2>4. ExtractLayer(f, i) = Layer(h.layers[i].digest)
    BY <1>2, <1>6, <2>1, <2>3, LayersAreRead
  <2> QED
    BY <1>7, <2>4 DEF LayerOK
<1> QED
  BY <1>7, <1>8 DEF VerifyLayers

\* What sign takes along of a bundle: its stub, and the layers up to the first
\* that is not all there.
LEMMA ReadableIs ==
    ASSUME NEW f, NEW rest, NEW h, NEW boot, Part(f, rest, h, boot), Len(f) > StubLen
    PROVE  /\ SubSeq(f, 1, Offset(f)) = StubBytes
           /\ \E k \in 0 .. Len(h.layers) :
                 Readable(f) = SubSeq(Layers(Digests(h)), 1, k) /\ Len(Readable(f)) = k
<1> DEFINE n  == Len(h.layers)
           ls == Layers(Digests(h))
<1>1. /\ f \in Seq(Cell) /\ h \in Header /\ Len(f) \in Nat /\ Len(Main(h)) \in Nat
      /\ \A i \in 1 .. Len(f) : i <= Len(Main(h)) => f[i] = Main(h)[i]
  BY PartAt
<1>2. n \in Nat
  BY <1>1, HeaderTyped
<1>3. PICK g : Spans(g, h)
  BY <1>1, SpansExist
<1>4. /\ StubLen \in Nat /\ StubLen <= Len(Main(h))
      /\ \A i \in 1 .. StubLen : Main(h)[i] = StubBytes[i]
  <2> DEFINE m == Len(g[Len(h.layers)])
  <2>1. /\ StubLen \in Nat /\ HeadLen(h) \in Nat /\ m \in Nat
        /\ StubLen + 1 <= HeadLen(h) /\ Len(Main(h)) = HeadLen(h) + m
        /\ \A i \in 1 .. StubLen : Main(h)[i] = StubBytes[i]
    BY <1>1, <1>3, MainAt
  <2> HIDE DEF m
  <2> QED
    BY <2>1
<1>5. HeaderOf(f) = h /\ Offset(f) = StubLen
  BY HeaderIsRead
<1>6. SubSeq(f, 1, StubLen) = StubBytes
  <2>1. StubBytes \in Seq(Cell) /\ Len(StubBytes) = StubLen
    BY StubTyped, KindsTyped, SeqMonotone
  <2>2. ASSUME NEW i \in 1 .. StubLen PROVE f[0 + i] = StubBytes[i]
    <3>1. i \in 1 .. Len(f) /\ i <= Len(Main(h)) /\ 0 + i = i
      BY <1>1, <1>4
    <3> QED
      BY <1>1, <1>4, <3>1
  <2>3. 0 + StubLen <= Len(f) /\ 0 + 1 = 1 /\ 0 + StubLen = StubLen /\ 0 \in Nat
    BY <1>1, <1>4
  <2>4. SubSeq(f, 0 + 1, 0 + Len(StubBytes)) = StubBytes
    BY <1>1, <2>1, <2>2, <2>3, CutOut
  <2> QED
    BY <2>1, <2>3, <2>4
<1>7. ASSUME NEW i \in 1 .. n
      PROVE  ls[i] = Layer(h.layers[i].digest)
             /\ (ExtractLayer(f, i) # None => ExtractLayer(f, i) = ls[i])
  <2>1. ls[i] = Layer(h.layers[i].digest)
    <3>1. Digests(h) \in Seq(Digest) /\ Len(Digests(h)) = n
          /\ Digests(h)[i] = h.layers[i].digest
      BY <1>1, DigestsTyped
    <3> QED
      BY <3>1, LayersTyped
  <2>2. ExtractLayer(f, i) = IF HeadLen(h) + Len(g[i]) > Len(f) THEN None
                             ELSE Layer(h.layers[i].digest)
    BY <1>3, LayersAreRead
  <2> QED
    BY <2>1, <2>2
<1> DEFINE ok == {k \in 0 .. n : \A i \in 1 .. k : ExtractLayer(f, i) # None}
           c  == CHOOSE k \in ok : \A j \in ok : j <= k
<1>8. c \in ok
  <2>1. ok \subseteq 0 .. n /\ 0 \in ok
    BY <1>2
  <2> HIDE DEF ok
  <2>2. \E k \in ok : \A j \in ok : j <= k
    BY <1>2, <2>1, Greatest
  <2> QED
    BY <2>2
<1>9. Readable(f) = [i \in 1 .. c |-> ExtractLayer(f, i)]
  BY <1>5 DEF Readable
<1>10. c \in 0 .. n /\ c \in Nat /\ \A i \in 1 .. c : i \in 1 .. n /\ ExtractLayer(f, i) # None
  BY <1>2, <1>8
<1>11. ls \in Seq(Seq(Plain)) /\ Len(ls) = n
  BY <1>1, <1>3, SpansAt
<1> HIDE DEF ok, c, ls
<1>12. /\ SubSeq(ls, 1, c) \in Seq(Seq(Plain)) /\ Len(SubSeq(ls, 1, c)) = c
       /\ \A i \in 1 .. c : SubSeq(ls, 1, c)[i] = ls[i]
  BY <1>10, <1>11, FlattenParts
<1>13. Readable(f) = SubSeq(ls, 1, c) /\ Len(Readable(f)) = c
  <2> DEFINE V == Seq(Plain)
             r == Readable(f)
             t == SubSeq(ls, 1, c)
  <2>1. t \in Seq(V) /\ Len(t) = c
    BY <1>12
  <2> HIDE DEF V, t
  <2>2. \A i \in 1 .. c : r[i] = t[i]
    <3> SUFFICES ASSUME NEW i \in 1 .. c PROVE r[i] = t[i]
      OBVIOUS
    <3>1. r[i] = ExtractLayer(f, i)
      BY <1>9
    <3>2. ExtractLayer(f, i) = ls[i]
      BY <1>7, <1>10
    <3>3. t[i] = ls[i]
      BY <1>12 DEF t
    <3> QED
      BY <3>1, <3>2, <3>3
  <2>3. t \in [1 .. c -> V]
    BY <2>1, LenProperties
  <2>4. DOMAIN r = 1 .. c
    BY <1>9
  <2>5. \A i \in 1 .. c : t[i] \in V
    BY <2>3
  <2>6. r \in [1 .. c -> V]
    <3>1. r = [i \in 1 .. c |-> t[i]]
      BY <1>9, <2>2
    <3> HIDE DEF r
    <3> QED
      BY <2>5, <3>1
  <2> HIDE DEF r
  <2>7. r \in Seq(V) /\ Len(r) = c
    BY <1>10, <2>6, FunctionIsSequence
  <2>8. r = t
    BY <2>1, <2>2, <2>7, SeqEqual
  <2> QED
    BY <2>7, <2>8 DEF r, t
<1> QED
  BY <1>5, <1>6, <1>10, <1>13 DEF ls, n

-----------------------------------------------------------------------------
(* The bootstrap section.                                                  *)

\* c begins with the section that is written for boot.
Begins(c, boot) ==
    /\ c \in Seq(Cell) /\ Len(BootstrapData(boot)) <= Len(c)
    /\ \A i \in 1 .. Len(BootstrapData(boot)) : c[i] = BootstrapData(boot)[i]

\* The reader's way from one binary to the next.
StepFrom(c, p) ==
    IF \/ p = 0 \/ p + 1 > Len(c)
       \/ c[p].kind # "name" \/ c[p + 1].kind # "len"
       \/ p + 1 + c[p + 1].n > Len(c)
    THEN 0 ELSE p + 2 + c[p + 1].n
IsNext(x, c, n) == x = [k \in 0 .. n |-> IF k = 0 THEN 2 ELSE StepFrom(c, x[k - 1])]

\* Behind its first p cells c goes on with t.
Holds(c, p, t) == \A a \in 1 .. Len(t) : c[p + a] = t[a]

LEMMA BinaryAt ==
    ASSUME NEW boot \in Seq(File), NEW c, Begins(c, boot),
           NEW e, Unfolds(e, Binaries(boot)), NEW k \in 1 .. Len(boot)
    PROVE  /\ BinLen \in Nat /\ Len(e[k - 1]) \in Nat /\ Len(e[k]) \in Nat /\ Len(c) \in Nat
           /\ Len(e[k]) = Len(e[k - 1]) + (BinLen + 2)
           /\ 1 + Len(e[k]) <= Len(c)
           /\ Entry(boot[k]) \in Seq(Cell) /\ Len(Entry(boot[k])) = BinLen + 2
           /\ Holds(c, 1 + Len(e[k - 1]), Entry(boot[k]))
<1> DEFINE n    == Len(boot)
           es   == Binaries(boot)
           all  == FlattenSeq(es)
           data == BootstrapData(boot)
           t    == Entry(boot[k])
<1>1. /\ es \in Seq(Seq(Plain)) /\ Len(es) = n /\ n \in Nat
      /\ boot[k] \in File /\ es[k] = t
  BY BinariesTyped
<1>2. BinLen \in Nat /\ t \in Seq(Plain) /\ Len(t) = BinLen + 2
  BY <1>1, EntryTyped
<1>3. t \in Seq(Cell)
  BY <1>2, KindsTyped, SeqMonotone
<1>4. /\ Len(all) \in Nat /\ Len(data) = 1 + Len(all)
      /\ \A i \in 1 .. Len(all) : data[1 + i] = all[i]
  BY DataTyped
<1>5. /\ Len(data) <= Len(c) /\ Len(c) \in Nat
      /\ \A i \in 1 .. Len(data) : c[i] = data[i]
  <2>1. c \in Seq(Cell)
    BY DEF Begins
  <2>2. Len(c) \in Nat
    BY <2>1, LenProperties
  <2> QED
    BY <2>2 DEF Begins
<1> HIDE DEF t, data, all
<1>6. /\ \A i \in 0 .. Len(es) : Len(e[i]) \in Nat
      /\ \A i \in 1 .. Len(es) : Len(e[i]) = Len(e[i - 1]) + Len(es[i])
      /\ \A i \in 0 .. Len(es) : Len(e[i]) <= Len(all)
      /\ \A i \in 1 .. Len(es) : \A a \in 1 .. Len(es[i]) : all[Len(e[i - 1]) + a] = es[i][a]
  <2>1. es \in Seq(Seq(Plain)) /\ Unfolds(e, es)
    BY <1>1
  <2> HIDE DEF es
  <2> QED
    BY <2>1, FlattenPlaces DEF all
<1>7. k - 1 \in 0 .. Len(es) /\ k \in 0 .. Len(es) /\ k \in 1 .. Len(es)
  BY <1>1
<1> HIDE DEF es, n
<1> DEFINE u == Len(e[k - 1])
           v == Len(e[k])
<1>8. u \in Nat /\ v \in Nat /\ v = u + (BinLen + 2) /\ v <= Len(all)
  BY <1>1, <1>2, <1>6, <1>7
<1>9. \A a \in 1 .. BinLen + 2 : all[u + a] = t[a]
  <2>1. Len(es[k]) = BinLen + 2 /\ es[k] = t
    BY <1>1, <1>2
  <2>2. \A a \in 1 .. Len(es[k]) : all[Len(e[k - 1]) + a] = es[k][a]
    BY <1>6, <1>7
  <2> QED
    BY <2>1, <2>2
<1> HIDE DEF u, v
<1>10. ASSUME NEW a \in 1 .. BinLen + 2 PROVE c[(1 + u) + a] = t[a]
  <2> DEFINE j == u + a
             l == Len(all)
             b == BinLen + 2
  <2>1. b \in Nat /\ a \in 1 .. b /\ l \in Nat /\ v = u + b /\ v <= l
    BY <1>2, <1>4, <1>8
  <2>2. j \in 1 .. l /\ 1 + j \in 1 .. 1 + l /\ (1 + u) + a = 1 + j
    <3> HIDE DEF b, l
    <3> QED
      BY <1>8, <2>1
  <2> HIDE DEF j
  <2>3. data[1 + j] = all[j] /\ c[1 + j] = data[1 + j]
    BY <1>4, <1>5, <2>2
  <2>4. all[j] = t[a]
    BY <1>9 DEF j
  <2> QED
    BY <2>2, <2>3, <2>4
<1>11. 1 + v <= Len(c)
  BY <1>4, <1>5, <1>8
<1>12. Holds(c, 1 + u, t)
  BY <1>2, <1>10 DEF Holds
<1> QED
  BY <1>2, <1>3, <1>5, <1>8, <1>11, <1>12 DEF u, v, t

LEMMA StepIs ==
    ASSUME NEW boot \in Seq(File), NEW c, Begins(c, boot),
           NEW e, Unfolds(e, Binaries(boot)), NEW k \in 1 .. Len(boot)
    PROVE  StepFrom(c, 2 + Len(e[k - 1])) = 2 + Len(e[k])
<1> DEFINE t == Entry(boot[k])
           u == Len(e[k - 1])
           v == Len(e[k])
           l == Len(c)
           p == 2 + u
<1>1. /\ BinLen \in Nat /\ u \in Nat /\ v \in Nat /\ l \in Nat
      /\ v = u + (BinLen + 2) /\ 1 + v <= l
      /\ Len(t) = BinLen + 2 /\ Holds(c, 1 + u, t)
  BY BinaryAt
<1>2. boot[k] \in File
  BY BinariesTyped
<1>3. t[1].kind = "name" /\ t[2].kind = "len" /\ t[2].n = BinLen
  BY <1>2, EntryTyped
<1> HIDE DEF t, u, v, l
<1>4. c[p] = t[1] /\ c[p + 1] = t[2]
  <2>1. /\ 1 \in 1 .. BinLen + 2 /\ 2 \in 1 .. BinLen + 2
        /\ (1 + u) + 1 = p /\ (1 + u) + 2 = p + 1
    BY <1>1
  <2>2. c[(1 + u) + 1] = t[1] /\ c[(1 + u) + 2] = t[2]
    BY <1>1, <2>1 DEF Holds
  <2> QED
    BY <2>1, <2>2
<1>5. p # 0 /\ ~(p + 1 > l) /\ ~(p + 1 + BinLen > l) /\ p + 2 + BinLen = 2 + v
  BY <1>1
<1> HIDE DEF p
<1>6. StepFrom(c, p) = p + 2 + c[p + 1].n
  BY <1>3, <1>4, <1>5 DEF StepFrom, l
<1>7. StepFrom(c, p) = 2 + v
  BY <1>3, <1>4, <1>5, <1>6
<1> QED
  BY <1>7 DEF p, u, v

\* The places of the binaries are what the reader's recursion comes to.
LEMMA NextIsPlace ==
    ASSUME NEW boot \in Seq(File), NEW c, Begins(c, boot),
           NEW e, Unfolds(e, Binaries(boot))
    PROVE  LET x == CHOOSE y : IsNext(y, c, Len(boot)) IN
           \A k \in 0 .. Len(boot) : x[k] = 2 + Len(e[k])
<1> DEFINE n == Len(boot)
           w == [k \in 0 .. n |-> 2 + Len(e[k])]
           x == CHOOSE y : IsNext(y, c, n)
<1>1. n \in Nat /\ e[0] = <<>> /\ Len(<<>>) = 0
  BY BinariesTyped, EmptySeq DEF Unfolds
<1>2. \A k \in 1 .. n : StepFrom(c, 2 + Len(e[k - 1])) = 2 + Len(e[k])
  BY StepIs
<1> HIDE DEF n
<1>3. \A k \in 0 .. n : w[k] = 2 + Len(e[k])
  OBVIOUS
<1>4. IsNext(w, c, n)
  <2>1. ASSUME NEW k \in 0 .. n
        PROVE  2 + Len(e[k]) = IF k = 0 THEN 2 ELSE StepFrom(c, w[k - 1])
    <3>1. CASE k = 0
      BY <1>1, <3>1
    <3>2. CASE k # 0
      <4>1. k \in 1 .. n /\ k - 1 \in 0 .. n
        BY <1>1, <3>2
      <4>2. w[k - 1] = 2 + Len(e[k - 1])
        BY <4>1
      <4> HIDE DEF w
      <4> QED
        BY <1>2, <3>2, <4>1, <4>2
    <3> QED
      BY <3>1, <3>2
  <2> DEFINE G(k) == IF k = 0 THEN 2 ELSE StepFrom(c, w[k - 1])
  <2>2. w = [k \in 0 .. n |-> G(k)]
    <3>1. \A k \in 0 .. n : 2 + Len(e[k]) = G(k)
      BY <2>1
    <3> HIDE DEF G
    <3> QED
      BY <3>1
  <2> HIDE DEF w
  <2> QED
    BY <2>2 DEF IsNext
<1>5. IsNext(x, c, n)
  <2> HIDE DEF w
  <2> QED
    BY <1>4
<1> HIDE DEF w, x
<1> DEFINE G(k) == IF k = 0 THEN 2 ELSE StepFrom(c, x[k - 1])
<1>6. \A k \in 0 .. n : x[k] = G(k)
  <2>1. x = [k \in 0 .. n |-> G(k)]
    BY <1>5 DEF IsNext
  <2> HIDE DEF G
  <2> QED
    BY <2>1
<1> DEFINE T == {k \in Nat : k <= n => x[k] = 2 + Len(e[k])}
<1>7. 0 \in T
  <2>1. x[0] = 2
    BY <1>1, <1>6
  <2> QED
    BY <1>1, <2>1
<1>8. ASSUME NEW k \in Nat, k \in T PROVE k + 1 \in T
  <2> SUFFICES ASSUME k + 1 <= n PROVE x[k + 1] = 2 + Len(e[k + 1])
    OBVIOUS
  <2> DEFINE j == k + 1
  <2>1. j \in 1 .. n /\ j \in 0 .. n /\ j # 0 /\ j - 1 = k /\ k <= n
    BY <1>1
  <2>2. x[k] = 2 + Len(e[k])
    BY <1>8, <2>1
  <2> HIDE DEF j
  <2>3. x[j] = StepFrom(c, x[j - 1])
    BY <1>6, <2>1
  <2>4. x[j] = 2 + Len(e[j])
    BY <1>2, <2>1, <2>2, <2>3
  <2> QED
    BY <2>4 DEF j
<1> HIDE DEF T
<1>9. Nat \subseteq T
  BY <1>7, <1>8, Induct
<1>10. \A k \in 0 .. n : x[k] = 2 + Len(e[k])
  BY <1>1, <1>9 DEF T
<1> QED
  BY <1>10 DEF x, n

\* Both readers find the binaries, if they are given the section.
LEMMA EntriesAreFound ==
    ASSUME NEW boot \in Seq(File), NEW c, Begins(c, boot)
    PROVE  Entries(c) = Binaries(boot)
<1> DEFINE n == Len(boot)
           x == CHOOSE y : IsNext(y, c, n)
           data == BootstrapData(boot)
<1>1. c \in Seq(Cell) /\ Len(c) \in Nat /\ DOMAIN boot = 1 .. n /\ n \in Nat
  BY BinariesTyped, LenProperties DEF Begins
<1>2. c # <<>> /\ c[1] = [kind |-> "count", n |-> n]
  <2>1. Len(data) \in Nat /\ 1 <= Len(data) /\ data[1] = [kind |-> "count", n |-> n]
    <3> DEFINE l == Len(FlattenSeq(Binaries(boot)))
    <3>1. l \in Nat /\ Len(data) = 1 + l /\ data[1] = [kind |-> "count", n |-> n]
      BY DataTyped
    <3> HIDE DEF l, data
    <3> QED
      BY <3>1
  <2>2. Len(data) <= Len(c) /\ \A i \in 1 .. Len(data) : c[i] = data[i]
    BY DEF Begins
  <2> HIDE DEF data, n
  <2>3. c[1] = data[1] /\ Len(c) # 0
    BY <1>1, <2>1, <2>2
  <2> QED
    BY <2>1, <2>3, EmptySeq
<1>3. PICK e : Unfolds(e, Binaries(boot))
  BY BinariesTyped, FlattenHas
<1>4. \A k \in 0 .. n : x[k] = 2 + Len(e[k])
  BY <1>3, NextIsPlace
<1>5. x = CHOOSE y : y = [k \in 0 .. n |->
                            IF k = 0 THEN 2
                            ELSE LET p == y[k - 1] IN
                                 IF \/ p = 0 \/ p + 1 > Len(c)
                                    \/ c[p].kind # "name" \/ c[p + 1].kind # "len"
                                    \/ p + 1 + c[p + 1].n > Len(c)
                                 THEN 0 ELSE p + 2 + c[p + 1].n]
  BY DEF IsNext, StepFrom
<1>6. Entries(c) = IF x[n] = 0 THEN Garbage
                   ELSE [k \in 1 .. n |-> SubSeq(c, x[k - 1], x[k] - 1)]
  <2>1. c[1].kind = "count" /\ c[1].n = n
    BY <1>2
  <2> HIDE DEF x, n
  <2> QED
    BY <1>2, <1>5, <2>1 DEF Entries
<1> HIDE DEF x
<1>7. ASSUME NEW k \in 1 .. n PROVE SubSeq(c, x[k - 1], x[k] - 1) = Entry(boot[k])
  <2> DEFINE t == Entry(boot[k])
             u == Len(e[k - 1])
             v == Len(e[k])
             b == BinLen + 2
             l == Len(c)
  <2>1. /\ BinLen \in Nat /\ u \in Nat /\ v \in Nat /\ l \in Nat
        /\ v = u + b /\ 1 + v <= l
        /\ t \in Seq(Cell) /\ Len(t) = b /\ Holds(c, 1 + u, t)
    BY <1>3, BinaryAt
  <2>2. x[k - 1] = 2 + u /\ x[k] = 2 + v
    BY <1>1, <1>4
  <2>3. b \in Nat
    BY <2>1
  <2> HIDE DEF t, u, v, b, l
  <2>4. /\ 1 + u \in Nat /\ 2 + u = (1 + u) + 1 /\ (2 + v) - 1 = (1 + u) + b
        /\ (1 + u) + b <= l
    BY <2>1, <2>3
  <2>5. SubSeq(c, (1 + u) + 1, (1 + u) + Len(t)) = t
    <3>1. \A a \in 1 .. Len(t) : c[(1 + u) + a] = t[a]
      BY <2>1 DEF Holds
    <3>2. (1 + u) + Len(t) <= Len(c)
      BY <2>1, <2>4 DEF l
    <3> QED
      BY <1>1, <2>1, <2>4, <3>1, <3>2, CutOut
  <2> QED
    BY <2>1, <2>2, <2>4, <2>5 DEF t
<1>8. x[n] # 0
  <2>1. n \in 0 .. n
    BY <1>1
  <2>2. x[n] = 2 + Len(e[n])
    BY <1>4, <2>1
  <2>3. Len(e[n]) \in Nat
    <3>1. Binaries(boot) \in Seq(Seq(Plain)) /\ Len(Binaries(boot)) = n
      BY BinariesTyped
    <3>2. \A i \in 0 .. Len(Binaries(boot)) : e[i] \in Seq(Plain)
      BY <1>3, <3>1, FlattenIs
    <3>3. e[n] \in Seq(Plain)
      BY <2>1, <3>1, <3>2
    <3> QED
      BY <3>3, LenProperties
  <2> QED
    BY <2>2, <2>3
<1> HIDE DEF n
<1>9. Entries(c) = [k \in 1 .. n |-> SubSeq(c, x[k - 1], x[k] - 1)]
  BY <1>6, <1>8
<1>10. Binaries(boot) = [k \in 1 .. n |-> Entry(boot[k])]
  BY <1>1 DEF Binaries
<1> QED
  BY <1>7, <1>9, <1>10

\* The stub does not take a file for a whole one that is not one.
LEMMA StubSeesNothing ==
    ASSUME NEW f, NEW rest, NEW h, NEW boot, Part(f, rest, h, boot),
           boot = <<>> \/ rest # <<>>
    PROVE  StubBootstrap(f) = None
<1> SUFFICES ASSUME f # <<>> PROVE f[Len(f)].kind # "NXBT"
  BY DEF StubBootstrap
<1> DEFINE l == Len(f)
           m == Len(Main(h))
           s == Len(Section(h, boot))
           r == Len(rest)
           data == BootstrapData(boot)
<1>1. /\ f \in Seq(Cell) /\ h \in Header /\ boot \in Seq(File)
      /\ l \in Nat /\ r \in Nat /\ m \in Nat /\ Len(Whole(h, boot)) = l + r
      /\ \A i \in 1 .. l : f[i] = Whole(h, boot)[i]
      /\ \A i \in 1 .. l : i <= m => f[i].kind # "NXBT"
  BY PartAt
<1>2. l # 0
  BY <1>1, EmptySeq
<1>3. /\ s \in Nat /\ l + r = m + s
      /\ \A i \in 1 .. s : Whole(h, boot)[m + i] = Section(h, boot)[i]
  BY <1>1, WholeAt
<1>4. boot = <<>> \/ r # 0
  <2>1. rest \in Seq(Cell)
    BY DEF Part
  <2> QED
    BY <2>1, EmptySeq
<1>5. /\ boot = <<>> => s = 0
      /\ boot # <<>> => /\ s = Len(data) + 1
                        /\ \A i \in 1 .. Len(data) : Section(h, boot)[i] = data[i]
  BY <1>1, SectionAt
<1>6. data \in Seq(Plain) /\ Len(data) \in Nat
  BY <1>1, DataTyped, LenProperties
<1>7. CASE l <= m
  <2>1. l \in 1 .. l
    BY <1>1, <1>2
  <2> QED
    BY <1>1, <1>7, <2>1
<1>8. CASE ~(l <= m)
  <2> HIDE DEF l, m, s, r, data
  <2> DEFINE j == l - m
  <2>1. boot # <<>> /\ s = Len(data) + 1
    BY <1>1, <1>3, <1>5, <1>8
  <2>2. r # 0
    BY <1>4, <2>1
  <2>3. j \in 1 .. Len(data) /\ j \in 1 .. s /\ m + j = l /\ l \in 1 .. l
    BY <1>1, <1>3, <1>6, <1>8, <2>1, <2>2
  <2> HIDE DEF j
  <2>4. f[l] = Whole(h, boot)[l]
    BY <1>1, <2>3
  <2>5. Whole(h, boot)[m + j] = Section(h, boot)[j]
    BY <1>3, <2>3
  <2>6. Section(h, boot)[j] = data[j]
    BY <1>5, <2>1, <2>3
  <2>7. data[j] \in Plain
    BY <1>6, <2>3, LenProperties
  <2>8. f[l].kind # "NXBT"
    BY <2>3, <2>4, <2>5, <2>6, <2>7 DEF Plain
  <2> QED
    BY <2>8 DEF l
<1> QED
  BY <1>7, <1>8

\* In a whole bundle with binaries the stub and Bundle::extract_bootstrap find
\* them both, each in its own way.
LEMMA BothFindBinaries ==
    ASSUME NEW f, NEW h, NEW boot, Part(f, <<>>, h, boot), boot # <<>>
    PROVE  StubBootstrap(f) = Binaries(boot) /\ ExtractBootstrap(f) = Binaries(boot)
<1> DEFINE l == Len(f)
           m == Len(Main(h))
           data == BootstrapData(boot)
           d == Len(data)
<1>1. /\ h \in Header /\ f \in Seq(Cell) /\ f = Whole(h, boot) /\ boot \in Seq(File)
      /\ h.boot = d
  BY ConcatEmptySeq DEF Part, Proper, Fits
<1>2. data \in Seq(Plain) /\ d \in Nat /\ d # 0
  <2> DEFINE k == Len(FlattenSeq(Binaries(boot)))
  <2>1. data \in Seq(Plain) /\ k \in Nat /\ d = 1 + k
    BY <1>1, DataTyped
  <2> HIDE DEF k, d
  <2> QED
    BY <2>1
<1>3. /\ Len(Section(h, boot)) = d + 1
      /\ \A i \in 1 .. d : Section(h, boot)[i] = data[i]
      /\ Section(h, boot)[d + 1] = [kind |-> "NXBT", offset |-> m, size |-> d]
  BY <1>1, SectionAt
<1>4. /\ m \in Nat /\ l = m + Len(Section(h, boot))
      /\ \A i \in 1 .. Len(Section(h, boot)) : f[m + i] = Section(h, boot)[i]
  BY <1>1, WholeAt
<1> HIDE DEF data, d, m, l
<1>5. l = m + (d + 1) /\ l \in Nat /\ \A i \in 1 .. d : f[m + i] = data[i]
  BY <1>2, <1>3, <1>4
<1>6. f[l] = [kind |-> "NXBT", offset |-> m, size |-> d]
  <2>1. d + 1 \in 1 .. Len(Section(h, boot))
    BY <1>2, <1>3
  <2> QED
    BY <1>3, <1>4, <1>5, <2>1
<1>7. f # <<>> /\ l > StubLen
  <2>1. f # <<>>
    BY <1>2, <1>4, <1>5, EmptySeq DEF l
  <2>2. PICK g : Spans(g, h)
    BY <1>1, SpansExist
  <2> DEFINE n == Len(g[Len(h.layers)])
             p == HeadLen(h)
  <2>3. StubLen \in Nat /\ p \in Nat /\ n \in Nat /\ StubLen + 1 <= p /\ m = p + n
    BY <1>1, <2>2, MainAt DEF m
  <2> HIDE DEF n, p
  <2>4. l > StubLen
    BY <1>2, <1>5, <2>3
  <2> QED
    BY <2>1, <2>4
<1>8. ASSUME NEW y \in {m + d, l} PROVE Begins(SubSeq(f, m + 1, y), boot)
  <2> DEFINE c == SubSeq(f, m + 1, y)
             x == m + 1
  <2>1. /\ x \in Int /\ y \in Int /\ x <= y /\ y <= l
        /\ \A i \in x .. y : i \in 1 .. l
    BY <1>2, <1>4, <1>5
  <2>2. \A i \in x .. y : f[i] \in Cell
    <3>1. \A i \in 1 .. l : f[i] \in Cell
      BY <1>1, LenProperties DEF l
    <3> QED
      BY <2>1, <3>1
  <2>3. /\ c \in Seq(Cell) /\ Len(c) = (IF x <= y THEN y - x + 1 ELSE 0)
        /\ \A i \in 1 .. y - x + 1 : c[i] = f[x + i - 1]
    <3> HIDE DEF x
    <3>1. /\ SubSeq(f, x, y) \in Seq(Cell)
          /\ Len(SubSeq(f, x, y)) = (IF x <= y THEN y - x + 1 ELSE 0)
          /\ \A i \in 1 .. y - x + 1 : SubSeq(f, x, y)[i] = f[x + i - 1]
      BY <2>1, <2>2, SubSeqProperties
    <3> QED
      BY <3>1 DEF x
  <2> HIDE DEF c
  <2>4. d <= Len(c)
    BY <1>2, <1>4, <1>5, <2>1, <2>3
  <2>5. ASSUME NEW i \in 1 .. d PROVE c[i] = data[i]
    <3>1. i \in 1 .. y - x + 1 /\ x + i - 1 = m + i
      BY <1>2, <1>4, <1>5
    <3> QED
      BY <1>5, <2>3, <3>1
  <2>6. Begins(c, boot)
    BY <2>3, <2>4, <2>5 DEF Begins, data, d
  <2> QED
    BY <2>6 DEF c
<1>9. StubBootstrap(f) = Entries(SubSeq(f, m + 1, l))
  BY <1>6, <1>7 DEF StubBootstrap, l
<1>10. ExtractBootstrap(f) = Entries(SubSeq(f, m + 1, m + d))
  <2>1. HeaderOf(f) = h
    BY <1>7, HeaderIsRead DEF l
  <2>2. LayersEnd(f) = m
    <3>1. PICK g : Spans(g, h)
      BY <1>1, SpansExist
    <3> QED
      BY <1>7, <3>1, StartsAreRead DEF l, m
  <2>3. ~(m + d > l)
    BY <1>2, <1>4, <1>5
  <2> QED
    BY <1>1, <1>2, <2>1, <2>2, <2>3 DEF ExtractBootstrap, l
<1>11. /\ Entries(SubSeq(f, m + 1, l)) = Binaries(boot)
       /\ Entries(SubSeq(f, m + 1, m + d)) = Binaries(boot)
  BY <1>1, <1>8, EntriesAreFound
<1> QED
  BY <1>9, <1>10, <1>11

-----------------------------------------------------------------------------
(* The invariant.  Every file, at every cell, is a beginning of a bundle   *)
(* that somebody meant, and a finished one is all of it; what the running  *)
(* writer has still to append leads on in the same bundle.                 *)

SigOK(h) == h.sig # None => h.sig = Artifact(h)

\* What a file holds, d is what it was finished as, and ed whether its header
\* was edited.
IsFile(f, d, ed) ==
    IF f = None THEN d = None
    ELSE \E rest, h, boot :
           /\ Part(f, rest, h, boot)
           /\ ed \/ SigOK(h)
           /\ IF d = None THEN boot = <<>> \/ rest # <<>>
              ELSE rest = <<>> /\ d = [header |-> h, boot |-> boot]

\* What comes of a file when t is appended to it, and it is finished as r then.
Comes(f, t, r, ed) ==
    \E rest, h, boot :
       /\ Part(f \o FlattenSeq(t), rest, h, boot)
       /\ ed \/ SigOK(h)
       /\ boot # <<>> => t[Len(t)] # <<>>
       /\ IF r = None THEN boot = <<>>
          ELSE rest = <<>> /\ r = [header |-> h, boot |-> boot]

FileOK(n) == IsFile(file[n], done[n], n \in edited)
JobOK ==
    IF todo = <<>> THEN job = NoJob
    ELSE /\ job.op \in {"pack", "sign", "export"}
         /\ job.to \in Name /\ job.result \in Result
         /\ file[job.to] # None /\ done[job.to] = None
         /\ Comes(file[job.to], todo, job.result, job.to \in edited)
MetaOK == meta # None => Sized(meta) /\ (changed \/ SigOK(meta))

Typed ==
    /\ file \in [Name -> {None} \cup Seq(Cell)] /\ todo \in Seq(Seq(Cell))
    /\ stored \subseteq Digest /\ meta \in {None} \cup Header
    /\ done \in [Name -> Result] /\ edited \subseteq Name /\ changed \in BOOLEAN

BundleInv == Typed /\ (\A n \in Name : FileOK(n)) /\ JobOK /\ MetaOK

LEMMA InitBundle == Init => BundleInv
<1> SUFFICES ASSUME Init PROVE BundleInv
  OBVIOUS
<1>1. Typed
  <2>1. <<>> \in Seq(Seq(Cell)) /\ None \in Result
    BY DEF Result
  <2> QED
    BY <2>1 DEF Init, Typed
<1>2. ASSUME NEW n \in Name PROVE FileOK(n)
  BY DEF Init, FileOK, IsFile
<1>3. JobOK /\ MetaOK
  BY DEF Init, JobOK, MetaOK
<1> QED
  BY <1>1, <1>2, <1>3 DEF BundleInv

\* A file that is left alone stays right.
LEMMA FileKeeps ==
    ASSUME NEW n \in Name, FileOK(n), file'[n] = file[n], done'[n] = done[n],
           n \in edited' <=> n \in edited
    PROVE  FileOK(n)'
<1>1. IsFile(file[n], done[n], n \in edited)
  BY DEF FileOK
<1>2. IsFile(file'[n], done'[n], n \in edited')
  <2>1. (n \in edited') = (n \in edited)
    OBVIOUS
  <2> QED
    BY <1>1, <2>1
<1> QED
  BY <1>2 DEF FileOK

LEMMA FilesKeep ==
    ASSUME BundleInv, UNCHANGED <<file, done, edited>>
    PROVE  \A n \in Name : FileOK(n)'
<1> SUFFICES ASSUME NEW n \in Name PROVE FileOK(n)'
  OBVIOUS
<1> QED
  BY FileKeeps DEF BundleInv

\* What is stored, installed or edited is read from files and from meta.
LEMMA RestKeeps ==
    ASSUME BundleInv, UNCHANGED <<file, todo, job, done, edited>>,
           stored' \subseteq Digest, meta' \in {None} \cup Header, changed' \in BOOLEAN,
           meta' # None => Sized(meta') /\ (changed' \/ SigOK(meta'))
    PROVE  BundleInv'
<1>1. Typed'
  BY DEF BundleInv, Typed
<1>2. \A n \in Name : FileOK(n)'
  BY FilesKeep
<1>3. JobOK'
  BY DEF BundleInv, JobOK
<1>4. MetaOK'
  BY DEF MetaOK
<1> QED
  BY <1>1, <1>2, <1>3, <1>4 DEF BundleInv

\* What a file is that parses.
LEMMA ParsedFile ==
    ASSUME BundleInv, NEW n \in Name, Parses(file[n])
    PROVE  \E rest, boot : LET h == HeaderOf(file[n]) IN
              /\ Part(file[n], rest, h, boot) /\ Len(file[n]) > StubLen
              /\ h \in Header /\ Sized(h) /\ (n \in edited \/ SigOK(h))
<1> DEFINE f == file[n]
<1>1. f # None
  BY DEF Parses
<1>2. PICK rest, h, boot : Part(f, rest, h, boot) /\ (n \in edited \/ SigOK(h))
  BY <1>1 DEF BundleInv, FileOK, IsFile
<1>3. h \in Header /\ Sized(h)
  BY <1>2 DEF Part, Proper
<1>4. Len(f) \in Nat
  BY <1>2, PartAt
<1> HIDE DEF f
<1>5. Len(f) >= HeadLen(h)
  BY <1>2, HeaderIsRead DEF f
<1>6. PICK g : Spans(g, h)
  BY <1>3, SpansExist
<1>7. StubLen \in Nat /\ HeadLen(h) \in Nat /\ StubLen + 1 <= HeadLen(h)
  BY <1>3, <1>6, MainAt
<1>8. Len(f) > StubLen
  BY <1>4, <1>5, <1>7
<1>9. HeaderOf(f) = h
  BY <1>2, <1>8, HeaderIsRead
<1> QED
  BY <1>2, <1>3, <1>8, <1>9 DEF f

LEMMA DigestsOfHeader ==
    ASSUME NEW h \in Header, NEW j
    PROVE  /\ {h.layers[i].digest : i \in DOMAIN h.layers} \subseteq Digest
           /\ j \in DOMAIN h.layers => {h.layers[i].digest : i \in 1 .. j - 1} \subseteq Digest
<1>1. /\ Len(h.layers) \in Nat /\ DOMAIN h.layers = 1 .. Len(h.layers)
      /\ \A i \in 1 .. Len(h.layers) : h.layers[i].digest \in Digest
  BY HeaderTyped, DigestsTyped
<1> QED
  BY <1>1

LEMMA InstallKeeps ==
    ASSUME BundleInv, NEW n \in Name, Install(n)
    PROVE  BundleInv'
<1> DEFINE h == HeaderOf(file[n])
<1>1. h \in Header /\ Sized(h) /\ (n \in edited \/ SigOK(h))
  BY ParsedFile DEF Install
<1>2. meta' = h /\ changed' = (n \in edited) /\ UNCHANGED <<file, todo, job, done, edited>>
  BY DEF Install
<1>3. stored' \subseteq Digest
  <2>1. stored' = stored \cup {h.layers[i].digest : i \in DOMAIN h.layers}
    BY DEF Install
  <2> QED
    BY <1>1, <2>1, DigestsOfHeader DEF BundleInv, Typed
<1>4. changed' \in BOOLEAN
  <2>1. (n \in edited) \in BOOLEAN
    OBVIOUS
  <2> QED
    BY <1>2, <2>1
<1>5. changed' \/ SigOK(meta')
  BY <1>1, <1>2
<1> HIDE DEF h
<1> QED
  BY <1>1, <1>2, <1>3, <1>4, <1>5, RestKeeps

LEMMA InstallFailsKeeps ==
    ASSUME BundleInv, NEW n \in Name, InstallFails(n)
    PROVE  BundleInv'
<1> DEFINE h == HeaderOf(file[n])
<1>1. h \in Header
  BY ParsedFile DEF InstallFails
<1>2. UNCHANGED <<file, todo, job, meta, done, edited, changed>>
  BY DEF InstallFails
<1>3. PICK i \in DOMAIN h.layers : stored' = stored \cup {h.layers[j].digest : j \in 1 .. i - 1}
  BY DEF InstallFails
<1>4. stored' \subseteq Digest
  BY <1>1, <1>3, DigestsOfHeader DEF BundleInv, Typed
<1> QED
  BY <1>2, <1>4, RestKeeps DEF BundleInv, Typed, MetaOK

LEMMA MountKeeps ==
    ASSUME BundleInv, NEW n \in Name, Mount(n)
    PROVE  BundleInv'
<1> DEFINE h == HeaderOf(file[n])
<1>1. h \in Header
  BY ParsedFile DEF Mount
<1>2. UNCHANGED <<file, todo, job, meta, done, edited, changed>>
  BY DEF Mount
<1>3. stored' = stored \cup {h.layers[i].digest : i \in DOMAIN h.layers}
  BY DEF Mount
<1>4. stored' \subseteq Digest
  BY <1>1, <1>3, DigestsOfHeader DEF BundleInv, Typed
<1> QED
  BY <1>2, <1>4, RestKeeps DEF BundleInv, Typed, MetaOK

LEMMA EditKeeps ==
    ASSUME BundleInv, NEW p \in Perm, Edit(p)
    PROVE  BundleInv'
<1>1. meta # None /\ meta' = [meta EXCEPT !.perm = p] /\ changed' = TRUE
      /\ UNCHANGED <<file, todo, job, stored, done, edited>>
  BY DEF Edit
<1>2. meta \in Header /\ Sized(meta) /\ stored \subseteq Digest
  BY <1>1 DEF BundleInv, Typed, MetaOK
<1>3. meta' \in Header /\ meta'.layers = meta.layers
  BY <1>1, <1>2 DEF Header
<1>4. Sized(meta')
  BY <1>2, <1>3 DEF Sized
<1> QED
  BY <1>1, <1>2, <1>3, <1>4, RestKeeps

LEMMA GcKeeps ==
    ASSUME BundleInv, Gc
    PROVE  BundleInv'
<1>1. UNCHANGED <<file, todo, job, meta, done, edited, changed>>
  BY DEF Gc
<1>2. stored' \subseteq stored
  BY DEF Gc
<1> QED
  BY <1>1, <1>2, RestKeeps DEF BundleInv, Typed, MetaOK

-----------------------------------------------------------------------------
(* The writers.                                                            *)

\* A writer sets out to write a bundle, or the beginning of one without
\* binaries.
LEMMA CreateKeeps ==
    ASSUME BundleInv, NEW n \in Name, NEW op \in {"pack", "sign", "export"},
           NEW parts \in Seq(Seq(Cell)), parts # <<>>, NEW result \in Result,
           NEW ed \in BOOLEAN, Create(op, n, parts, result, ed),
           NEW rest, NEW h, NEW boot, Part(FlattenSeq(parts), rest, h, boot),
           ed \/ SigOK(h), boot # <<>> => parts[Len(parts)] # <<>>,
           IF result = None THEN boot = <<>>
           ELSE rest = <<>> /\ result = [header |-> h, boot |-> boot]
    PROVE  BundleInv'
<1> DEFINE all == FlattenSeq(parts)
<1>1. /\ job' = [op |-> op, to |-> n, result |-> result] /\ todo' = parts
      /\ file' = [file EXCEPT ![n] = <<>>]
      /\ edited' = (IF ed THEN edited \cup {n} ELSE edited \ {n})
      /\ done' = [done EXCEPT ![n] = None]
      /\ UNCHANGED <<stored, meta, changed>>
  BY DEF Create, Unfinished
<1>2. Typed /\ MetaOK
  BY DEF BundleInv
<1>3. <<>> \in Seq(Cell) /\ <<>> # None
  BY EmptySeq, SentinelAssumption DEF SentinelAssumption
<1>4. Typed'
  <2>1. file' \in [Name -> {None} \cup Seq(Cell)]
    BY <1>1, <1>2, <1>3 DEF Typed
  <2>2. done' \in [Name -> Result]
    BY <1>1, <1>2 DEF Typed, Result
  <2>3. edited' \subseteq Name
    BY <1>1, <1>2 DEF Typed
  <2> QED
    BY <1>1, <1>2, <2>1, <2>2, <2>3 DEF Typed
<1>5. file'[n] = <<>> /\ done'[n] = None /\ (n \in edited' <=> ed)
  BY <1>1, <1>2 DEF Typed
<1>6. /\ all \in Seq(Cell) /\ rest \in Seq(Cell) /\ all \o rest = Whole(h, boot)
      /\ Proper(h, boot)
  BY DEF Part
<1>7. (boot # <<>>) => all # <<>>
  BY FlattenLast, EmptySeq
<1> HIDE DEF all
<1>8. IsFile(file'[n], done'[n], n \in edited')
  <2>1. all \o rest \in Seq(Cell) /\ <<>> \o (all \o rest) = all \o rest
    <3> DEFINE w == all \o rest
    <3>1. w \in Seq(Cell)
      BY <1>6, ConcatProperties
    <3> HIDE DEF w
    <3>2. <<>> \o w = w
      BY <3>1, ConcatEmptySeq
    <3> QED
      BY <3>1, <3>2 DEF w
  <2>2. Part(<<>>, all \o rest, h, boot)
    BY <1>3, <1>6, <2>1 DEF Part
  <2>3. boot = <<>> \/ all \o rest # <<>>
    <3> SUFFICES ASSUME boot # <<>> PROVE Len(all \o rest) # 0
      BY EmptySeq
    <3>1. all \in Seq(Cell) /\ rest \in Seq(Cell)
      BY <1>6
    <3>2. Len(all) \in Nat /\ Len(all) # 0 /\ Len(rest) \in Nat
      BY <1>7, <3>1, LenProperties, EmptySeq
    <3>3. Len(all \o rest) = Len(all) + Len(rest)
      BY ONLY <3>1, ConcatProperties
    <3> QED
      BY <3>2, <3>3
  <2> QED
    BY <1>3, <1>5, <2>2, <2>3 DEF IsFile
<1>9. ASSUME NEW m \in Name PROVE FileOK(m)'
  <2>1. CASE m = n
    BY <1>8, <2>1 DEF FileOK
  <2>2. CASE m # n
    <3>1. FileOK(m) /\ file'[m] = file[m] /\ done'[m] = done[m]
          /\ (m \in edited' <=> m \in edited)
      BY <1>1, <1>2, <2>2 DEF BundleInv, Typed
    <3> QED
      BY <3>1, FileKeeps
  <2> QED
    BY <2>1, <2>2
<1>10. Comes(<<>>, parts, result, ed)
  <2>1. <<>> \o all = all
    BY <1>6, ConcatEmptySeq
  <2>2. Part(<<>> \o all, rest, h, boot)
    BY <2>1 DEF all
  <2> QED
    BY <2>2 DEF Comes, all
<1>11. JobOK'
  <2>1. job'.op = op /\ job'.to = n /\ job'.result = result
    BY <1>1
  <2>2. Comes(file'[n], todo', result, n \in edited')
    BY <1>1, <1>5, <1>10 DEF Comes
  <2> QED
    BY <1>1, <1>3, <1>5, <2>1, <2>2 DEF JobOK
<1>12. MetaOK'
  BY <1>1, <1>2 DEF MetaOK
<1> QED
  BY <1>4, <1>9, <1>11, <1>12 DEF BundleInv

\* The writer of a file, and what it has written and still has to write.
LEMMA Writing ==
    ASSUME BundleInv, todo # <<>>
    PROVE  /\ job.op \in {"pack", "sign", "export"} /\ job.to \in Name /\ job.result \in Result
           /\ file[job.to] \in Seq(Cell) /\ done[job.to] = None
           /\ Comes(file[job.to], todo, job.result, job.to \in edited)
           /\ Head(todo) \in Seq(Cell) /\ Tail(todo) \in Seq(Seq(Cell))
           /\ FlattenSeq(Tail(todo)) \in Seq(Cell)
           /\ FlattenSeq(todo) = Head(todo) \o FlattenSeq(Tail(todo))
<1>1. JobOK /\ Typed
  BY DEF BundleInv
<1>2. /\ job.op \in {"pack", "sign", "export"} /\ job.to \in Name /\ job.result \in Result
      /\ file[job.to] # None /\ done[job.to] = None
      /\ Comes(file[job.to], todo, job.result, job.to \in edited)
  BY <1>1 DEF JobOK
<1>3. file[job.to] \in Seq(Cell) /\ todo \in Seq(Seq(Cell))
  BY <1>1, <1>2 DEF Typed
<1>4. /\ Head(todo) \in Seq(Cell) /\ Tail(todo) \in Seq(Seq(Cell))
      /\ FlattenSeq(todo) = Head(todo) \o FlattenSeq(Tail(todo))
  BY <1>3, FlattenCons
<1>5. FlattenSeq(Tail(todo)) \in Seq(Cell)
  BY <1>4, FlattenTyped
<1> QED
  BY <1>2, <1>3, <1>4, <1>5

LEMMA StopKeeps ==
    ASSUME BundleInv, NEW n \in Name, NEW s \in Seq(Cell), file' = [file EXCEPT ![n] = s],
           Finish, UNCHANGED <<stored, meta, edited, changed>>,
           done' = done \/ \E r \in Result : done' = [done EXCEPT ![n] = r],
           IsFile(s, done'[n], n \in edited)
    PROVE  BundleInv'
<1>1. Typed /\ MetaOK
  BY DEF BundleInv
<1>2. Typed'
  <2>1. file' \in [Name -> {None} \cup Seq(Cell)]
    BY <1>1 DEF Typed
  <2>2. done' \in [Name -> Result]
    BY <1>1 DEF Typed
  <2>3. todo' \in Seq(Seq(Cell))
    BY DEF Finish
  <2> QED
    BY <1>1, <2>1, <2>2, <2>3 DEF Typed
<1>3. ASSUME NEW m \in Name PROVE FileOK(m)'
  <2>1. CASE m = n
    <3>1. file'[n] = s
      BY <1>1 DEF Typed
    <3>2. IsFile(file'[n], done'[n], n \in edited')
      BY <3>1
    <3> QED
      BY <2>1, <3>2 DEF FileOK
  <2>2. CASE m # n
    <3>1. FileOK(m) /\ file'[m] = file[m] /\ done'[m] = done[m]
      BY <1>1, <2>2 DEF BundleInv, Typed
    <3> QED
      BY <3>1, FileKeeps
  <2> QED
    BY <2>1, <2>2
<1>4. JobOK'
  BY DEF Finish, JobOK
<1>5. MetaOK'
  BY <1>1 DEF MetaOK
<1> QED
  BY <1>2, <1>3, <1>4, <1>5 DEF BundleInv

\* (f \o t) \o (u \o r) = (f \o (t \o u)) \o r, in the three ways it is needed.
Regroups(f, t, u, r) ==
    /\ (f \o t) \o u = f \o (t \o u)
    /\ (f \o t) \o (u \o r) = (f \o (t \o u)) \o r

LEMMA Regroup ==
    ASSUME NEW S, NEW f \in Seq(S), NEW t \in Seq(S), NEW u \in Seq(S), NEW r \in Seq(S)
    PROVE  f \o t \in Seq(S) /\ u \o r \in Seq(S) /\ Regroups(f, t, u, r)
<1>1. f \o t \in Seq(S) /\ u \o r \in Seq(S) /\ t \o u \in Seq(S)
  BY ConcatProperties
<1>2. (f \o t) \o u = f \o (t \o u)
  BY ConcatAssociative
<1> DEFINE x == f \o t
<1>3. x \in Seq(S)
  BY <1>1
<1> HIDE DEF x
<1>4. (x \o u) \o r = x \o (u \o r)
  BY ONLY <1>3, u \in Seq(S), r \in Seq(S), ConcatAssociative
<1> QED
  BY <1>1, <1>2, <1>4 DEF x, Regroups

\* If one of two is not empty, neither are they together.
LEMMA NotEmpty ==
    ASSUME NEW S, NEW s \in Seq(S), NEW t \in Seq(S), s # <<>>
    PROVE  s \o t # <<>>
<1>1. Len(s \o t) = Len(s) + Len(t)
  BY ConcatProperties
<1>2. Len(s) \in Nat /\ Len(s) # 0 /\ Len(t) \in Nat
  BY LenProperties, EmptySeq
<1> QED
  BY <1>1, <1>2, EmptySeq

LEMMA WritePartKeeps ==
    ASSUME BundleInv, WritePart
    PROVE  BundleInv'
<1> DEFINE n == job.to
           f == file[n]
           t == Head(todo)
           u == FlattenSeq(Tail(todo))
           ed == n \in edited
           s == f \o t
<1>1. /\ todo # <<>> /\ file' = [file EXCEPT ![n] = s]
      /\ UNCHANGED <<stored, meta, edited, changed>>
  BY DEF WritePart
<1>2. /\ job.op \in {"pack", "sign", "export"} /\ n \in Name /\ job.result \in Result
      /\ f \in Seq(Cell) /\ done[n] = None
      /\ Comes(f, todo, job.result, ed)
      /\ t \in Seq(Cell) /\ Tail(todo) \in Seq(Seq(Cell)) /\ u \in Seq(Cell)
      /\ FlattenSeq(todo) = t \o u
  BY <1>1, Writing
<1>3. PICK rest, h, boot :
        /\ Part(f \o FlattenSeq(todo), rest, h, boot)
        /\ ed \/ SigOK(h)
        /\ boot # <<>> => todo[Len(todo)] # <<>>
        /\ IF job.result = None THEN boot = <<>>
           ELSE rest = <<>> /\ job.result = [header |-> h, boot |-> boot]
  BY <1>2 DEF Comes
<1>4. Typed /\ MetaOK /\ todo \in Seq(Seq(Cell))
  BY DEF BundleInv, Typed
<1>5. /\ Len(todo) \in Nat /\ Len(todo) # 0 /\ Len(Tail(todo)) = Len(todo) - 1
      /\ \A i \in 1 .. Len(todo) - 1 : Tail(todo)[i] = todo[i + 1]
  <2> DEFINE V == Seq(Cell)
  <2>1. todo \in Seq(V) /\ todo # <<>>
    BY <1>1, <1>4
  <2> HIDE DEF V
  <2>2. Len(todo) \in Nat /\ Len(todo) # 0
    BY <2>1, LenProperties, EmptySeq
  <2>3. /\ Len(Tail(todo)) = Len(todo) - 1
        /\ \A i \in 1 .. Len(Tail(todo)) : Tail(todo)[i] = todo[i + 1]
    BY <2>1, HeadTailProperties
  <2> QED
    BY <2>2, <2>3
<1> HIDE DEF n, f, t, u, ed
<1>6. rest \in Seq(Cell) /\ Proper(h, boot)
  BY <1>3 DEF Part
<1>7. s \in Seq(Cell) /\ s \o u = f \o (t \o u) /\ u \o rest \in Seq(Cell)
      /\ s \o (u \o rest) = (f \o (t \o u)) \o rest
  <2>1. f \in Seq(Cell) /\ t \in Seq(Cell) /\ u \in Seq(Cell) /\ rest \in Seq(Cell)
    BY <1>2, <1>6
  <2>2. Regroups(f, t, u, rest) /\ f \o t \in Seq(Cell) /\ u \o rest \in Seq(Cell)
    BY ONLY <2>1, Regroup
  <2> QED
    BY <2>2 DEF Regroups
<1>8. (f \o (t \o u)) \o rest = Whole(h, boot) /\ f \o (t \o u) \in Seq(Cell)
  BY <1>2, <1>3 DEF Part
<1> HIDE DEF s
<1>9. CASE Len(todo) > 1
  <2>1. todo' = Tail(todo) /\ UNCHANGED <<job, done>>
    BY <1>9 DEF WritePart
  <2>2. Tail(todo) # <<>> /\ Tail(todo)[Len(Tail(todo))] = todo[Len(todo)]
    <3> DEFINE l == Len(todo)
    <3>1. l - 1 \in 1 .. l - 1 /\ (l - 1) + 1 = l /\ Len(Tail(todo)) # 0
      BY <1>5, <1>9
    <3>2. Tail(todo)[l - 1] = todo[(l - 1) + 1]
      BY <1>5, <3>1
    <3> QED
      BY <1>5, <3>1, <3>2, EmptySeq
  <2>3. boot # <<>> => u # <<>>
    <3> SUFFICES ASSUME boot # <<>> PROVE u # <<>>
      OBVIOUS
    <3>1. Tail(todo)[Len(Tail(todo))] # <<>>
      BY <1>3, <2>2
    <3>2. Len(u) > 0
      BY <1>2, <2>2, <3>1, FlattenLast DEF u
    <3> QED
      BY <3>2, EmptySeq
  <2>4. IsFile(s, None, ed)
    <3>1. boot = <<>> \/ u \o rest # <<>>
      BY <1>2, <1>6, <2>3, NotEmpty
    <3>2. Part(s, u \o rest, h, boot)
      BY <1>6, <1>7, <1>8 DEF Part
    <3>3. s # None
      BY <1>7, SentinelAssumption DEF SentinelAssumption
    <3> QED
      BY <1>3, <3>1, <3>2, <3>3 DEF IsFile
  <2>5. Comes(s, Tail(todo), job.result, ed)
    <3>1. Part(s \o u, rest, h, boot)
      BY <1>3, <1>2, <1>7 DEF Part
    <3> QED
      BY <1>3, <2>2, <3>1 DEF Comes, u
  <2>6. file'[n] = s /\ done'[n] = None /\ (n \in edited' <=> ed) /\ job'.to = n
    BY <1>1, <1>2, <1>4, <2>1 DEF Typed, ed, n
  <2>7. Typed'
    <3>1. file' \in [Name -> {None} \cup Seq(Cell)]
      BY <1>1, <1>4, <1>7 DEF Typed
    <3> QED
      BY <1>1, <1>2, <1>4, <2>1, <3>1 DEF Typed
  <2>8. ASSUME NEW m \in Name PROVE FileOK(m)'
    <3>1. CASE m = n
      <4>1. IsFile(file'[n], done'[n], n \in edited')
        BY <2>4, <2>6 DEF IsFile
      <4> QED
        BY <3>1, <4>1 DEF FileOK
    <3>2. CASE m # n
      <4>1. FileOK(m) /\ file'[m] = file[m] /\ done'[m] = done[m]
        BY <1>1, <1>4, <2>1, <3>2 DEF BundleInv, Typed
      <4> QED
        BY <1>1, <4>1, FileKeeps
    <3> QED
      BY <3>1, <3>2
  <2>9. JobOK'
    <3>1. Comes(file'[n], todo', job'.result, n \in edited')
      BY <2>1, <2>5, <2>6 DEF Comes
    <3>2. file'[n] # None
      BY <1>7, <2>6, SentinelAssumption DEF SentinelAssumption
    <3> QED
      BY <1>2, <2>1, <2>2, <2>6, <3>1, <3>2 DEF JobOK
  <2>10. MetaOK'
    BY <1>1, <1>4 DEF MetaOK
  <2> QED
    BY <2>7, <2>8, <2>9, <2>10 DEF BundleInv
<1>10. CASE ~(Len(todo) > 1)
  <2>1. done' = [done EXCEPT ![n] = job.result] /\ Finish
    BY <1>10 DEF WritePart, n
  <2>2. u = <<>>
    <3>1. Len(Tail(todo)) = 0
      BY <1>5, <1>10
    <3>2. Tail(todo) = <<>>
      BY <1>2, <3>1, EmptySeq
    <3> QED
      BY <3>2, FlattenEmpty DEF u
  <2>3. done'[n] = job.result
    BY <1>2, <1>4, <2>1 DEF Typed
  <2>4. u \o rest = rest
    BY <1>6, <2>2, ConcatEmptySeq
  <2>5. Part(s, rest, h, boot)
    BY <1>6, <1>7, <1>8, <2>4 DEF Part
  <2>6. s # None
    BY <1>7, SentinelAssumption DEF SentinelAssumption
  <2>7. IsFile(s, done'[n], n \in edited)
    BY <1>3, <2>3, <2>5, <2>6 DEF IsFile, ed
  <2> QED
    BY <1>1, <1>2, <1>7, <2>1, <2>7, StopKeeps
<1> QED
  BY <1>9, <1>10

LEMMA ExportFailsKeeps ==
    ASSUME BundleInv, ExportFails
    PROVE  BundleInv'
<1>1. Typed /\ MetaOK
  BY DEF BundleInv
<1>2. Typed'
  BY <1>1 DEF ExportFails, Finish, Typed
<1>3. \A n \in Name : FileOK(n)'
  BY FilesKeep DEF ExportFails
<1>4. JobOK'
  BY DEF ExportFails, Finish, JobOK
<1>5. MetaOK'
  BY <1>1 DEF ExportFails, MetaOK
<1> QED
  BY <1>2, <1>3, <1>4, <1>5 DEF BundleInv

LEMMA InterruptKeeps ==
    ASSUME BundleInv, Interrupt
    PROVE  BundleInv'
<1> DEFINE n == job.to
           f == file[n]
           t == Head(todo)
           u == FlattenSeq(Tail(todo))
           ed == n \in edited
<1>1. PICK k \in 0 .. Len(t) - 1 : file' = [file EXCEPT ![n] = f \o SubSeq(t, 1, k)]
  BY DEF Interrupt
<1>2. todo # <<>> /\ Finish /\ UNCHANGED <<stored, meta, done, edited, changed>>
  BY DEF Interrupt
<1>3. /\ n \in Name /\ f \in Seq(Cell) /\ done[n] = None
      /\ Comes(f, todo, job.result, ed)
      /\ t \in Seq(Cell) /\ u \in Seq(Cell) /\ FlattenSeq(todo) = t \o u
  BY <1>2, Writing
<1>4. PICK rest, h, boot :
        Part(f \o FlattenSeq(todo), rest, h, boot) /\ (ed \/ SigOK(h))
  BY <1>3 DEF Comes
<1> HIDE DEF n, f, t, u, ed
<1>5. Len(t) \in Nat /\ k \in 0 .. Len(t) /\ k < Len(t)
  <2>1. Len(t) \in Nat
    BY <1>3, LenProperties
  <2> QED
    BY <2>1
<1>6. PICK b \in Seq(Cell) : /\ SubSeq(t, 1, k) \in Seq(Cell)
                             /\ t = SubSeq(t, 1, k) \o b /\ Len(b) = Len(t) - k
  <2>1. SubSeq(t, 1, k) \in Seq(Cell) /\ \E b \in Seq(Cell) : IsCut(t, k, SubSeq(t, 1, k), b)
    BY <1>3, <1>5, CutInTwo
  <2> QED
    BY <2>1 DEF IsCut
<1> DEFINE a == SubSeq(t, 1, k)
           s == f \o a
           r == u \o rest
<1>7. b # <<>>
  BY <1>5, <1>6, EmptySeq
<1>8. a \in Seq(Cell) /\ t = a \o b
  BY <1>6
<1> HIDE DEF a
<1>9. rest \in Seq(Cell) /\ Proper(h, boot) /\ (f \o (t \o u)) \o rest = Whole(h, boot)
  BY <1>3, <1>4 DEF Part
<1>10. r \in Seq(Cell) /\ (f \o t) \o r = (f \o (t \o u)) \o rest
  <2>1. f \in Seq(Cell) /\ t \in Seq(Cell) /\ u \in Seq(Cell) /\ rest \in Seq(Cell)
    BY <1>3, <1>9
  <2>2. Regroups(f, t, u, rest) /\ f \o t \in Seq(Cell) /\ u \o rest \in Seq(Cell)
    BY ONLY <2>1, Regroup
  <2> QED
    BY <2>2 DEF Regroups
<1> HIDE DEF r
<1>11. s \in Seq(Cell) /\ b \o r \in Seq(Cell) /\ s \o (b \o r) = (f \o (a \o b)) \o r
  <2>1. f \in Seq(Cell) /\ a \in Seq(Cell) /\ b \in Seq(Cell) /\ r \in Seq(Cell)
    BY <1>3, <1>8, <1>10
  <2>2. Regroups(f, a, b, r) /\ f \o a \in Seq(Cell) /\ b \o r \in Seq(Cell)
    BY ONLY <2>1, Regroup
  <2> QED
    BY <2>2 DEF Regroups
<1> HIDE DEF s
<1>12. Part(s, b \o r, h, boot)
  <2>1. s \o (b \o r) = Whole(h, boot)
    BY <1>8, <1>9, <1>10, <1>11
  <2> QED
    BY <1>9, <1>11, <2>1 DEF Part
<1>13. b \o r # <<>>
  BY <1>6, <1>7, <1>10, NotEmpty
<1>14. s # None
  BY <1>11, SentinelAssumption DEF SentinelAssumption
<1>15. IsFile(s, done'[n], n \in edited)
  BY <1>2, <1>3, <1>4, <1>12, <1>13, <1>14 DEF IsFile, ed
<1> QED
  BY <1>1, <1>2, <1>3, <1>11, <1>15, StopKeeps DEF s, a

LEMMA PlainIsCell ==
    /\ \A s \in Seq(Plain) : s \in Seq(Cell)
    /\ \A ss \in Seq(Seq(Plain)) : ss \in Seq(Seq(Cell))
<1> DEFINE P == Seq(Plain)
           C == Seq(Cell)
<1>1. \A s \in P : s \in C
  BY KindsTyped, SeqMonotone
<1> HIDE DEF P, C
<1>2. P \subseteq C
  BY <1>1
<1>3. \A ss \in Seq(P) : ss \in Seq(C)
  BY <1>2, SeqMonotone
<1> QED
  BY <1>1, <1>3 DEF P, C

\* The stub, the header and the first k layers.
Body(h, k) == <<StubBytes, Encode(h)>> \o SubSeq(Layers(Digests(h)), 1, k)

LEMMA BodyTyped ==
    ASSUME NEW h \in Header, NEW k \in 0 .. Len(h.layers)
    PROVE  /\ Body(h, k) \in Seq(Seq(Cell)) /\ Body(h, k) # <<>>
           /\ FlattenSeq(Body(h, k)) \in Seq(Cell)
           /\ \E r \in Seq(Cell) : /\ FlattenSeq(Body(h, k)) \o r = Main(h)
                                   /\ k = Len(h.layers) => r = <<>>
<1> DEFINE ls == Layers(Digests(h))
           s  == StubBytes
           e  == Encode(h)
           x  == SubSeq(ls, 1, k)
           y  == <<s, e>> \o x
<1>1. ls \in Seq(Seq(Cell)) /\ Len(ls) = Len(h.layers)
  <2>1. Digests(h) \in Seq(Digest) /\ Len(Digests(h)) = Len(h.layers)
    BY DigestsTyped
  <2>2. ls \in Seq(Seq(Plain)) /\ Len(ls) = Len(h.layers)
    BY <2>1, LayersTyped
  <2> QED
    BY <2>2, PlainIsCell
<1>2. s \in Seq(Cell) /\ e \in Seq(Cell)
  BY StubTyped, EncodeTyped, PlainIsCell
<1>3. Main(h) = (s \o e) \o FlattenSeq(ls)
  BY DEF Main
<1>4. Body(h, k) = y
  BY DEF Body
<1> HIDE DEF ls, s, e
<1>5. PICK b \in Seq(Seq(Cell)) :
        /\ x \in Seq(Seq(Cell))
        /\ FlattenSeq(ls) = FlattenSeq(x) \o FlattenSeq(b)
        /\ k = Len(ls) => b = <<>>
  <2>1. ls \in Seq(Seq(Cell)) /\ k \in 0 .. Len(ls)
    BY <1>1
  <2>2. \E b \in Seq(Seq(Cell)) :
          /\ SubSeq(ls, 1, k) \in Seq(Seq(Cell)) /\ Len(SubSeq(ls, 1, k)) = k
          /\ \A i \in 1 .. k : SubSeq(ls, 1, k)[i] = ls[i]
          /\ FlattenSeq(ls) = FlattenSeq(SubSeq(ls, 1, k)) \o FlattenSeq(b)
          /\ k = Len(ls) => b = <<>>
    BY <2>1, FlattenParts, Zenon
  <2> QED
    BY <2>2
<1> HIDE DEF x
<1> DEFINE r == FlattenSeq(b)
           z == FlattenSeq(x)
           u == s \o e
<1>6. /\ r \in Seq(Cell) /\ z \in Seq(Cell) /\ u \in Seq(Cell)
      /\ FlattenSeq(ls) = z \o r
  <2>1. r \in Seq(Cell) /\ z \in Seq(Cell)
    BY <1>5, FlattenTyped
  <2>2. u \in Seq(Cell)
    BY <1>2, ConcatProperties
  <2> QED
    BY <1>5, <2>1, <2>2
<1>7. y \in Seq(Seq(Cell)) /\ FlattenSeq(y) = u \o z
  <2> DEFINE se == <<s, e>>
  <2>1. s \in Seq(Cell) /\ e \in Seq(Cell) /\ x \in Seq(Seq(Cell)) /\ se = <<s, e>>
    BY <1>2, <1>5
  <2> HIDE DEF se
  <2>2. se \o x \in Seq(Seq(Cell)) /\ FlattenSeq(se \o x) = (s \o e) \o FlattenSeq(x)
    BY <2>1, FlattenTwo
  <2> QED
    BY <2>2 DEF se
<1>8. y # <<>>
  <2> DEFINE V == Seq(Cell)
             p == <<s, e>>
  <2>1. p \in Seq(V) /\ p # <<>> /\ x \in Seq(V)
    BY <1>2, <1>5
  <2> HIDE DEF V, p
  <2>2. p \o x # <<>>
    BY <2>1, NotEmpty
  <2> QED
    BY <2>2 DEF p
<1>9. k = Len(h.layers) => r = <<>>
  BY <1>1, <1>5, FlattenEmpty
<1> HIDE DEF y, r, z
<1>10. u \o z \in Seq(Cell) /\ (u \o z) \o r = Main(h)
  <2> HIDE DEF u
  <2>1. u \o z \in Seq(Cell)
    BY <1>6, ConcatProperties
  <2>2. (u \o z) \o r = u \o (z \o r)
    BY <1>6, ConcatAssociative
  <2>3. Main(h) = u \o (z \o r)
    BY <1>3, <1>6 DEF u
  <2> QED
    BY <2>1, <2>2, <2>3
<1>11. /\ FlattenSeq(y) \in Seq(Cell) /\ FlattenSeq(y) \o r = Main(h)
  BY <1>7, <1>10
<1> QED
  BY <1>4, <1>6, <1>7, <1>8, <1>9, <1>11

LEMMA BodyOfAll ==
    ASSUME NEW h \in Header
    PROVE  /\ <<StubBytes, Encode(h)>> \o Layers(Digests(h)) \in Seq(Seq(Cell))
           /\ <<StubBytes, Encode(h)>> \o Layers(Digests(h)) # <<>>
           /\ FlattenSeq(<<StubBytes, Encode(h)>> \o Layers(Digests(h))) = Main(h)
           /\ Main(h) \in Seq(Cell)
<1> DEFINE ls == Layers(Digests(h))
           n  == Len(h.layers)
           y  == <<StubBytes, Encode(h)>> \o ls
<1>1. n \in 0 .. n
  BY HeaderTyped
<1>2. ls \in Seq(Seq(Cell)) /\ Len(ls) = n
  <2>1. Digests(h) \in Seq(Digest) /\ Len(Digests(h)) = n
    BY DigestsTyped
  <2> QED
    BY <2>1, LayersTyped, PlainIsCell
<1>3. SubSeq(ls, 1, n) = ls
  <2> DEFINE V == Seq(Cell)
  <2>1. ls \in Seq(V)
    BY <1>2
  <2> HIDE DEF V, ls
  <2> QED
    BY <1>2, <2>1, SubSeqFull
<1>4. Body(h, n) = y
  BY <1>3 DEF Body
<1> HIDE DEF y, n
<1>5. PICK r \in Seq(Cell) : FlattenSeq(y) \o r = Main(h) /\ r = <<>>
  BY <1>1, <1>4, BodyTyped DEF n
<1>6. y \in Seq(Seq(Cell)) /\ y # <<>> /\ FlattenSeq(y) \in Seq(Cell)
  BY <1>1, <1>4, BodyTyped DEF n
<1>7. FlattenSeq(y) = Main(h)
  BY <1>5, <1>6, ConcatEmptySeq
<1> QED
  BY <1>6, <1>7 DEF y

LEMMA WithoutSection ==
    ASSUME NEW h \in Header, Sized(h), NEW f \in Seq(Cell), NEW r \in Seq(Cell),
           f \o r = Main(h)
    PROVE  Part(f, r, h, <<>>)
<1>1. Main(h) \in Seq(Cell)
  BY BodyOfAll
<1>2. Whole(h, <<>>) = Main(h) \o <<>>
  BY DEF Whole, Section
<1>3. Whole(h, <<>>) = Main(h)
  BY <1>1, <1>2, ConcatEmptySeq
<1>4. <<>> \in Seq(File)
  BY EmptySeq
<1> QED
  BY <1>3, <1>4 DEF Part, Proper, Fits

LEMMA ExportKeeps ==
    ASSUME BundleInv, Export
    PROVE  BundleInv'
<1> DEFINE h == meta
           parts == <<StubBytes, Encode(h)>> \o Layers(Digests(h))
           result == [header |-> h, boot |-> <<>>]
<1>1. /\ meta # None
      /\ Create("export", "app.nxpk", parts, result, changed)
  BY DEF Export, ExportHeader, Digests
<1>2. h \in Header /\ Sized(h) /\ (changed \/ SigOK(h)) /\ changed \in BOOLEAN
  BY <1>1 DEF BundleInv, Typed, MetaOK
<1>3. "app.nxpk" \in Name /\ "export" \in {"pack", "sign", "export"}
  BY DEF Name
<1>4. result \in Result /\ result # None
  <2>1. result \in Bundle
    BY <1>2, EmptySeq DEF Bundle
  <2> QED
    BY <2>1, SentinelAssumption DEF SentinelAssumption, Result
<1> HIDE DEF h
<1>5. parts \in Seq(Seq(Cell)) /\ parts # <<>> /\ FlattenSeq(parts) = Main(h)
      /\ Main(h) \in Seq(Cell)
  BY <1>2, BodyOfAll
<1>6. Part(FlattenSeq(parts), <<>>, h, <<>>)
  <2>1. <<>> \in Seq(Cell) /\ Main(h) \o <<>> = Main(h)
    BY <1>5, EmptySeq, ConcatEmptySeq
  <2> HIDE DEF parts
  <2> QED
    BY <1>2, <1>5, <2>1, WithoutSection
<1>7. result = [header |-> h, boot |-> <<>>]
  OBVIOUS
<1> HIDE DEF parts, result
<1> QED
  BY <1>1, <1>2, <1>3, <1>4, <1>5, <1>6, <1>7, CreateKeeps

LEMMA SignKeeps ==
    ASSUME BundleInv, NEW n \in Name, NEW to \in Name, Sign(n, to)
    PROVE  BundleInv'
<1> DEFINE f == file[n]
           h == HeaderOf(f)
           signed == [h EXCEPT !.sig = Artifact(h)]
           parts == <<SubSeq(f, 1, Offset(f)), Encode(signed)>> \o Readable(f)
           result == IF Len(Readable(f)) = Len(h.layers)
                     THEN [header |-> signed, boot |-> <<>>] ELSE None
<1>1. /\ Parses(f) /\ h.sig = None
      /\ Create("sign", to, parts, result, FALSE)
  BY DEF Sign
<1>2. PICK rest, boot : Part(f, rest, h, boot) /\ Len(f) > StubLen /\ h \in Header /\ Sized(h)
  BY <1>1, ParsedFile
<1>3. SubSeq(f, 1, Offset(f)) = StubBytes
  BY <1>2, ReadableIs
<1>4. PICK k \in 0 .. Len(h.layers) :
         Readable(f) = SubSeq(Layers(Digests(h)), 1, k) /\ Len(Readable(f)) = k
  BY <1>2, ReadableIs
<1>5. Artifact(h) = h
  <2> HIDE DEF h
  <2>1. h = [layers |-> h.layers, perm |-> h.perm, boot |-> h.boot, sig |-> h.sig]
    BY <1>2 DEF Header
  <2>2. [h EXCEPT !.sig = None] = h
    BY <1>1, <2>1
  <2> QED
    BY <2>2 DEF Artifact
<1>6. signed = [h EXCEPT !.sig = h]
  BY <1>5
<1> HIDE DEF h, f
<1>7. signed \in Header /\ signed.layers = h.layers /\ signed.sig = h
  <2>1. h \in [layers : Seq(LayerEntry), perm : Perm, boot : Nat, sig : {None}]
    BY <1>1, <1>2 DEF Header
  <2>2. [h EXCEPT !.sig = h] \in Header
    BY <1>2, <2>1 DEF Header
  <2>3. [h EXCEPT !.sig = h].layers = h.layers /\ [h EXCEPT !.sig = h].sig = h
    BY <1>2 DEF Header
  <2> QED
    BY <1>6, <2>2, <2>3
<1>8. SigOK(signed)
  <2>1. [signed EXCEPT !.sig = None] = h
    <3>1. h = [layers |-> h.layers, perm |-> h.perm, boot |-> h.boot, sig |-> None]
      BY <1>1, <1>2 DEF Header
    <3>2. signed = [layers |-> h.layers, perm |-> h.perm, boot |-> h.boot, sig |-> h]
      BY <1>6, <3>1
    <3> HIDE DEF signed
    <3> QED
      BY <3>1, <3>2
  <2> HIDE DEF signed
  <2> QED
    BY <1>7, <2>1 DEF SigOK, Artifact
<1> HIDE DEF signed
<1>9. Sized(signed) /\ Digests(signed) = Digests(h)
  BY <1>2, <1>7 DEF Sized, Digests
<1>10. parts = Body(signed, k)
  BY <1>3, <1>4, <1>9 DEF Body
<1>11. k \in 0 .. Len(signed.layers)
  BY <1>7
<1>12. /\ parts \in Seq(Seq(Cell)) /\ parts # <<>> /\ FlattenSeq(parts) \in Seq(Cell)
       /\ \E r \in Seq(Cell) : /\ FlattenSeq(parts) \o r = Main(signed)
                               /\ k = Len(signed.layers) => r = <<>>
  <2> HIDE DEF parts
  <2> QED
    BY <1>7, <1>10, <1>11, BodyTyped
<1>13. PICK r \in Seq(Cell) : /\ FlattenSeq(parts) \o r = Main(signed)
                              /\ k = Len(signed.layers) => r = <<>>
  BY <1>12
<1>14. Part(FlattenSeq(parts), r, signed, <<>>)
  <2> HIDE DEF parts
  <2> QED
    BY <1>7, <1>9, <1>12, <1>13, WithoutSection
<1>15. [header |-> signed, boot |-> <<>>] \in Bundle
  BY <1>7, EmptySeq DEF Bundle
<1>16. result \in Result
  BY <1>15 DEF Result
<1>17. result # None => r = <<>> /\ result = [header |-> signed, boot |-> <<>>]
  BY <1>4, <1>7, <1>13
<1>18. "sign" \in {"pack", "sign", "export"}
  OBVIOUS
<1> HIDE DEF parts, result
<1> QED
  BY <1>1, <1>8, <1>12, <1>14, <1>16, <1>17, <1>18, CreateKeeps

\* The header that pack writes, for a section of b cells.
Packed(c, b) ==
    [layers |-> [i \in DOMAIN c.layers |->
                   [digest |-> c.layers[i], size |-> Size[c.layers[i]]]],
     perm |-> BundlePerm, sig |-> None, boot |-> b]

LEMMA PackedTyped ==
    ASSUME NEW c \in Content, NEW b \in Nat
    PROVE  /\ Packed(c, b) \in Header /\ Sized(Packed(c, b)) /\ SigOK(Packed(c, b))
           /\ Packed(c, b).boot = b /\ Digests(Packed(c, b)) = c.layers
           /\ c.boot \in Seq(File)
<1> DEFINE ls == [i \in DOMAIN c.layers |-> [digest |-> c.layers[i], size |-> Size[c.layers[i]]]]
           n  == Len(c.layers)
           h  == Packed(c, b)
<1>1. c.layers \in Seq(Digest) /\ c.boot \in Seq(File)
  BY ContentAssumption DEF ContentAssumption
<1>2. /\ n \in Nat /\ DOMAIN c.layers = 1 .. n
      /\ \A i \in 1 .. n : c.layers[i] \in Digest /\ Size[c.layers[i]] \in Nat
  BY <1>1, LenProperties, LayerTyped
<1>3. \A i \in 1 .. n : /\ ls[i].digest = c.layers[i]
                        /\ ls[i].size = Size[c.layers[i]] /\ ls[i] \in LayerEntry
  BY <1>2 DEF LayerEntry
<1>4. ls \in Seq(LayerEntry) /\ DOMAIN ls = 1 .. n
  <2>1. ls \in [1 .. n -> LayerEntry]
    <3>1. ls = [i \in 1 .. n |-> ls[i]]
      BY <1>2
    <3> HIDE DEF ls, n
    <3> QED
      BY <1>3, <3>1
  <2> HIDE DEF ls
  <2> QED
    BY <1>2, <2>1, FunctionIsSequence
<1>5. h.layers = ls /\ h.boot = b /\ h.sig = None
  BY DEF Packed
<1>6. h \in Header
  <2>1. h = [layers |-> ls, perm |-> BundlePerm, sig |-> None, boot |-> b]
    BY DEF Packed
  <2> HIDE DEF ls, h
  <2> QED
    BY <1>4, <2>1, PermAssumption DEF PermAssumption, Header
<1> HIDE DEF ls, h
<1>7. Sized(h) /\ SigOK(h)
  BY <1>3, <1>4, <1>5 DEF Sized, SigOK
<1>8. Digests(h) = c.layers
  <2>1. Digests(h) = [i \in 1 .. n |-> ls[i].digest]
    BY <1>4, <1>5 DEF Digests
  <2>2. Digests(h) = [i \in 1 .. n |-> c.layers[i]]
    BY <1>3, <2>1
  <2>3. c.layers = [i \in 1 .. n |-> c.layers[i]]
    BY <1>1, LenProperties
  <2> QED
    BY <2>2, <2>3
<1> QED
  BY <1>1, <1>5, <1>6, <1>7, <1>8 DEF h

\* The pieces of a bundle with binaries.
LEMMA WithSection ==
    ASSUME NEW h \in Header, NEW boot \in Seq(File), boot # <<>>, Proper(h, boot)
    PROVE  LET body  == <<StubBytes, Encode(h)>> \o Layers(Digests(h))
               data  == BootstrapData(boot)
               extra == <<data, Trailer(BootOffset(body, data), Len(data))>>
               parts == body \o extra IN
           /\ parts \in Seq(Seq(Cell)) /\ parts # <<>> /\ parts[Len(parts)] # <<>>
           /\ Part(FlattenSeq(parts), <<>>, h, boot)
<1> DEFINE V     == Seq(Cell)
           body  == <<StubBytes, Encode(h)>> \o Layers(Digests(h))
           data  == BootstrapData(boot)
           tr    == Trailer(BootOffset(body, data), Len(data))
           extra == <<data, tr>>
           parts == body \o extra
<1>1. /\ body \in Seq(Seq(Cell)) /\ body # <<>> /\ FlattenSeq(body) = Main(h)
      /\ Main(h) \in Seq(Cell)
  BY BodyOfAll
<1>2. data \in Seq(Cell) /\ Len(data) \in Nat
  BY DataTyped, PlainIsCell, LenProperties
<1> HIDE DEF body, data
<1>3. tr = Trailer(Len(Main(h)), Len(data))
  BY <1>1 DEF BootOffset, Total
<1>4. tr \in Seq(Cell) /\ tr # <<>>
  <2> DEFINE x == [kind |-> "NXBT", offset |-> Len(Main(h)), size |-> Len(data)]
  <2>1. Len(Main(h)) \in Nat
    BY <1>1, LenProperties
  <2>2. x \in Cell
    BY <1>2, <2>1, KindsTyped
  <2>3. tr = <<x>>
    BY <1>3 DEF Trailer
  <2> HIDE DEF x, tr
  <2> QED
    BY <2>2, <2>3
<1> HIDE DEF tr
<1>5. extra \in Seq(V) /\ Len(extra) = 2 /\ extra[2] = tr
  <2>1. data \in V /\ tr \in V
    BY <1>2, <1>4
  <2> HIDE DEF V
  <2> QED
    BY <2>1
<1>6. FlattenSeq(extra) = data \o tr
  <2>1. data \in Seq(Cell) /\ tr \in Seq(Cell) /\ extra = <<data, tr>>
    BY <1>2, <1>4
  <2> HIDE DEF extra, V
  <2> QED
    BY ONLY <2>1, FlattenPair
<1> HIDE DEF extra
<1>7. /\ parts \in Seq(V) /\ Len(body) \in Nat /\ Len(parts) = Len(body) + 2
      /\ parts[Len(body) + 2] = tr
  <2>1. body \in Seq(V) /\ extra \in Seq(V)
    BY <1>1, <1>5
  <2> HIDE DEF V
  <2>2. /\ parts \in Seq(V) /\ Len(body) \in Nat /\ Len(parts) = Len(body) + Len(extra)
        /\ \A i \in 1 .. Len(extra) : parts[Len(body) + i] = extra[i]
    BY ONLY <2>1, ConcatAt
  <2>3. 2 \in 1 .. Len(extra)
    BY <1>5
  <2> QED
    BY <1>5, <2>2, <2>3
<1>8. FlattenSeq(parts) = Main(h) \o (data \o tr)
  <2>1. body \in Seq(Seq(Cell)) /\ extra \in Seq(Seq(Cell))
    BY <1>1, <1>5
  <2>2. FlattenSeq(body \o extra) = FlattenSeq(body) \o FlattenSeq(extra)
    BY <2>1, FlattenConcat
  <2> QED
    BY <1>1, <1>6, <2>2
<1>9. Whole(h, boot) = Main(h) \o (data \o tr)
  BY <1>3 DEF Whole, Section, data
<1>10. Whole(h, boot) \in Seq(Cell) /\ Whole(h, boot) \o <<>> = Whole(h, boot)
       /\ <<>> \in Seq(Cell)
  BY WholeAt, ConcatEmptySeq, EmptySeq
<1>11. Part(FlattenSeq(parts), <<>>, h, boot)
  <2> HIDE DEF parts
  <2> QED
    BY <1>8, <1>9, <1>10 DEF Part
<1>12. parts # <<>> /\ parts[Len(parts)] # <<>>
  <2> HIDE DEF parts
  <2> QED
    BY <1>4, <1>7, EmptySeq
<1> QED
  BY <1>7, <1>11, <1>12 DEF body, data, extra, tr

LEMMA PackKeeps ==
    ASSUME BundleInv, NEW c \in Content, Pack(c)
    PROVE  BundleInv'
<1> DEFINE boot == c.boot
           data == IF boot = <<>> THEN <<>> ELSE BootstrapData(boot)
           h    == Packed(c, Len(data))
           body == <<StubBytes, Encode(h)>> \o Layers(c.layers)
           extra == IF data = <<>> THEN <<>>
                    ELSE <<data, Trailer(BootOffset(body, data), Len(data))>>
           parts == body \o extra
           result == [header |-> h, boot |-> boot]
<1>1. Create("pack", "app.nxpk", parts, result, FALSE)
  BY DEF Pack, Packed
<1>2. boot \in Seq(File)
  BY PackedTyped
<1>3. Len(data) \in Nat /\ (data = <<>> <=> boot = <<>>)
  <2>1. CASE boot = <<>>
    BY <2>1, EmptySeq
  <2>2. CASE boot # <<>>
    <3> DEFINE l == Len(FlattenSeq(Binaries(boot)))
    <3>1. BootstrapData(boot) \in Seq(Plain) /\ l \in Nat /\ Len(BootstrapData(boot)) = 1 + l
      BY <1>2, DataTyped
    <3>2. data = BootstrapData(boot)
      BY <2>2
    <3> HIDE DEF l, data, boot
    <3>3. Len(data) \in Nat /\ Len(data) # 0
      BY <3>1, <3>2
    <3> QED
      BY <2>2, <3>3, EmptySeq
  <2> QED
    BY <2>1, <2>2
<1> DEFINE b == Len(data)
<1>4. /\ h \in Header /\ Sized(h) /\ SigOK(h) /\ h.boot = b /\ Digests(h) = c.layers
  <2>1. b \in Nat
    BY <1>3
  <2> HIDE DEF b
  <2>2. LET x == Packed(c, b) IN
        /\ x \in Header /\ Sized(x) /\ SigOK(x) /\ x.boot = b /\ Digests(x) = c.layers
    BY <2>1, PackedTyped
  <2> QED
    BY <2>2 DEF b
<1>5. Proper(h, boot)
  <2>1. boot # <<>> => h.boot = Len(BootstrapData(boot))
    BY <1>4
  <2> HIDE DEF h, boot
  <2> QED
    BY <1>2, <1>4, <2>1 DEF Proper, Fits
<1>6. body = <<StubBytes, Encode(h)>> \o Layers(Digests(h))
  BY <1>4
<1>7. "app.nxpk" \in Name /\ "pack" \in {"pack", "sign", "export"}
  BY DEF Name
<1>8. result \in Result /\ result # None
  <2>1. result \in Bundle
    <3> HIDE DEF h, boot
    <3> QED
      BY <1>2, <1>4 DEF Bundle
  <2> QED
    BY <2>1, SentinelAssumption DEF SentinelAssumption, Result
<1>9. /\ parts \in Seq(Seq(Cell)) /\ parts # <<>>
      /\ boot # <<>> => parts[Len(parts)] # <<>>
      /\ Part(FlattenSeq(parts), <<>>, h, boot)
  <2>1. CASE boot = <<>>
    <3>1. /\ body \in Seq(Seq(Cell)) /\ body # <<>> /\ FlattenSeq(body) = Main(h)
          /\ Main(h) \in Seq(Cell)
      <4> HIDE DEF h, body
      <4> QED
        BY <1>4, <1>6, BodyOfAll
    <3>2. parts = body
      <4>1. extra = <<>>
        BY <1>3, <2>1
      <4> DEFINE V == Seq(Cell)
      <4>2. body \in Seq(V)
        BY <3>1
      <4> HIDE DEF V, body, extra
      <4> QED
        BY <4>1, <4>2, ConcatEmptySeq
    <3>3. <<>> \in Seq(Cell) /\ Main(h) \o <<>> = Main(h)
      <4> HIDE DEF h
      <4> QED
        BY <3>1, EmptySeq, ConcatEmptySeq
    <3> HIDE DEF h, body, parts, boot
    <3>4. Part(Main(h), <<>>, h, <<>>)
      BY <1>4, <3>1, <3>3, WithoutSection
    <3> QED
      BY <2>1, <3>1, <3>2, <3>4
  <2>2. CASE boot # <<>>
    <3>1. data = BootstrapData(boot) /\ data # <<>>
      BY <1>3, <2>2
    <3>2. extra = <<BootstrapData(boot), Trailer(BootOffset(body, BootstrapData(boot)),
                                                Len(BootstrapData(boot)))>>
      <4> HIDE DEF data, body, boot
      <4> QED
        BY <3>1
    <3> HIDE DEF h, boot, extra, body
    <3>3. LET q == body \o <<BootstrapData(boot), Trailer(BootOffset(body, BootstrapData(boot)),
                                                         Len(BootstrapData(boot)))>> IN
          q \in Seq(Seq(Cell)) /\ q # <<>> /\ q[Len(q)] # <<>> /\ Part(FlattenSeq(q), <<>>, h, boot)
      BY <1>2, <1>4, <1>5, <1>6, <2>2, WithSection
    <3> QED
      BY <3>2, <3>3
  <2> QED
    BY <2>1, <2>2
<1>10. result = [header |-> h, boot |-> boot]
  OBVIOUS
<1> HIDE DEF parts, result, h, boot
<1> QED
  BY <1>1, <1>4, <1>7, <1>8, <1>9, <1>10, CreateKeeps

-----------------------------------------------------------------------------

LEMMA StepBundle == BundleInv /\ [Next]_vars => BundleInv'
<1> SUFFICES ASSUME BundleInv, [Next]_vars PROVE BundleInv'
  OBVIOUS
<1>1. CASE UNCHANGED vars
  <2>1. UNCHANGED <<file, todo, job, stored, meta, done, edited, changed>>
    BY <1>1 DEF vars
  <2> QED
    BY <2>1, RestKeeps DEF BundleInv, Typed, MetaOK
<1>2. ASSUME NEW c \in Content, Pack(c) PROVE BundleInv'
  BY <1>2, PackKeeps
<1>3. ASSUME NEW n \in Name, NEW to \in Name, Sign(n, to) PROVE BundleInv'
  BY <1>3, SignKeeps
<1>4. CASE Export
  BY <1>4, ExportKeeps
<1>5. CASE WritePart
  BY <1>5, WritePartKeeps
<1>6. CASE ExportFails
  BY <1>6, ExportFailsKeeps
<1>7. CASE Interrupt
  BY <1>7, InterruptKeeps
<1>8. ASSUME NEW n \in Name, Install(n) PROVE BundleInv'
  BY <1>8, InstallKeeps
<1>9. ASSUME NEW n \in Name, InstallFails(n) PROVE BundleInv'
  BY <1>9, InstallFailsKeeps
<1>10. ASSUME NEW n \in Name, Mount(n) PROVE BundleInv'
  BY <1>10, MountKeeps
<1>11. ASSUME NEW p \in Perm, Edit(p) PROVE BundleInv'
  BY <1>11, EditKeeps
<1>12. CASE Gc
  BY <1>12, GcKeeps
<1> QED
  BY <1>1, <1>2, <1>3, <1>4, <1>5, <1>6, <1>7, <1>8, <1>9, <1>10, <1>11, <1>12 DEF Next

LEMMA AlwaysBundle == Spec => []BundleInv
BY InitBundle, StepBundle, PTL DEF Spec

\* A finished file is a whole bundle, an unfinished one the beginning of one.
LEMMA FinishedIsWhole ==
    ASSUME BundleInv, NEW n \in Name, done[n] # None
    PROVE  \E h, boot : /\ Part(file[n], <<>>, h, boot) /\ (n \in edited \/ SigOK(h))
                        /\ done[n].header = h /\ done[n].boot = boot
                        /\ file[n] # None
<1>1. IsFile(file[n], done[n], n \in edited)
  BY DEF BundleInv, FileOK
<1>2. file[n] # None
  BY <1>1 DEF IsFile
<1>3. PICK rest, h, boot : /\ Part(file[n], rest, h, boot) /\ (n \in edited \/ SigOK(h))
                           /\ rest = <<>> /\ done[n] = [header |-> h, boot |-> boot]
  BY <1>1, <1>2 DEF IsFile
<1> QED
  BY <1>2, <1>3

\* Every state of the bundles has the types of the model; nobody but the
\* running writer is at work, and what it writes to is not finished.
THEOREM TypeCorrect == Spec => []TypeOK
<1>1. BundleInv => TypeOK
  <2> SUFFICES ASSUME BundleInv PROVE TypeOK
    OBVIOUS
  <2>1. Typed /\ JobOK
    BY DEF BundleInv
  <2>2. CASE todo = <<>>
    <3>1. job = NoJob
      BY <2>1, <2>2 DEF JobOK
    <3>2. /\ job.op \in {"none", "pack", "sign", "export"}
          /\ job.to \in Name \cup {None} /\ job.result \in Result
          /\ job.to = None
      BY <3>1 DEF NoJob, Result
    <3> QED
      BY <2>1, <2>2, <3>1, <3>2 DEF Typed, TypeOK
  <2>3. CASE todo # <<>>
    <3>1. job.op \in {"pack", "sign", "export"} /\ job.to \in Name /\ job.result \in Result
          /\ done[job.to] = None
      BY <2>1, <2>3 DEF JobOK
    <3>2. job # NoJob
      BY <3>1 DEF NoJob
    <3> QED
      BY <2>1, <2>3, <3>1, <3>2 DEF Typed, TypeOK
  <2> QED
    BY <2>2, <2>3
<1> QED
  BY <1>1, AlwaysBundle, PTL

\* Whatever the chain of pack, sign, install, edit, gc and export that a
\* finished bundle comes from, the readers find its header, and each layer at
\* the offset they compute (Bundle::layers_offset, extract_layer), for layers
\* of any number and size.
THEOREM WholeCorrect == Spec => []WholeReadsBack
<1>1. BundleInv => WholeReadsBack
  <2> SUFFICES ASSUME BundleInv, NEW n \in Name, done[n] # None
               PROVE  /\ Parses(file[n]) /\ HeaderOf(file[n]) = done[n].header
                      /\ VerifyLayers(file[n])
    BY DEF WholeReadsBack
  <2> QED
    BY FinishedIsWhole, WholeIsRead
<1> QED
  BY <1>1, AlwaysBundle, PTL

\* The stub takes a file for a bundle with binaries exactly when it is a
\* finished one, never the torn file of a writer that was stopped, and gets
\* what was packed, as Bundle::extract_bootstrap does (stub.c:211, lib.rs:106).
THEOREM StubCorrect == Spec => []StubFindsWhole
<1>1. BundleInv => StubFindsWhole
  <2> SUFFICES ASSUME BundleInv, NEW n \in Name, file[n] # None
               PROVE  LET found == StubBootstrap(file[n])
                          boot  == IF done[n] = None THEN <<>> ELSE done[n].boot
                      IN  IF boot = <<>> THEN found = None
                          ELSE /\ found = [k \in DOMAIN boot |-> Entry(boot[k])]
                               /\ ExtractBootstrap(file[n]) = found
    BY DEF StubFindsWhole
  <2>1. CASE done[n] = None
    <3>1. IsFile(file[n], done[n], n \in edited)
      BY DEF BundleInv, FileOK
    <3>2. PICK rest, h, boot : Part(file[n], rest, h, boot) /\ (boot = <<>> \/ rest # <<>>)
      BY <2>1, <3>1 DEF IsFile
    <3>3. StubBootstrap(file[n]) = None
      BY <3>2, StubSeesNothing
    <3> QED
      BY <2>1, <3>3
  <2>2. CASE done[n] # None
    <3>1. PICK h, boot : Part(file[n], <<>>, h, boot) /\ done[n].boot = boot
      BY <2>2, FinishedIsWhole
    <3>2. CASE boot = <<>>
      <4>1. StubBootstrap(file[n]) = None
        BY <3>1, <3>2, StubSeesNothing
      <4> QED
        BY <2>2, <3>1, <3>2, <4>1
    <3>3. CASE boot # <<>>
      <4>1. /\ StubBootstrap(file[n]) = Binaries(boot)
            /\ ExtractBootstrap(file[n]) = Binaries(boot)
        BY <3>1, <3>3, BothFindBinaries
      <4> QED
        BY <2>2, <3>1, <3>3, <4>1 DEF Binaries
    <3> QED
      BY <3>2, <3>3
  <2> QED
    BY <2>1, <2>2
<1> QED
  BY <1>1, AlwaysBundle, PTL

\* A signature that a finished bundle carries is one of what it names, unless
\* its header was edited: signing again adds none, and installing, collecting
\* and exporting keep it (signing.rs:5).
THEOREM SignatureCorrect == Spec => []SignatureStands
<1>1. BundleInv => SignatureStands
  <2> SUFFICES ASSUME BundleInv, NEW n \in Name \ edited, done[n] # None
               PROVE  SigOK(HeaderOf(file[n]))
    BY DEF SignatureStands, SigOK
  <2>1. PICK h, boot : Part(file[n], <<>>, h, boot) /\ (n \in edited \/ SigOK(h))
    BY FinishedIsWhole
  <2>2. HeaderOf(file[n]) = h
    BY <2>1, WholeIsRead
  <2> QED
    BY <2>1, <2>2
<1> QED
  BY <1>1, AlwaysBundle, PTL
=============================================================================
