---------------------------- MODULE BundleFormat ----------------------------
(***************************************************************************)
(* Bundle files: what pack, sign and export write, piece by piece, and     *)
(* what Bundle (nexpack-core/src/lib.rs) and the ELF stub read back, with  *)
(* install, permissions --edit, gc and the daemon between them.            *)
(*                                                                         *)
(* A file is a sequence of cells.  A cell stands for a run of bytes that   *)
(* is never looked into: the magic with the header behind it, one piece of *)
(* the header, one block of a layer, a field of the bootstrap section, the *)
(* trailer.  Offsets and sizes count cells, so an offset that is wrong by  *)
(* any field reads something else.  Writers make the file and then append  *)
(* to it; they can be killed, or meet an error, at every cell.  No action  *)
(* changes update_url, and pack leaves it empty, so nxpk update does not   *)
(* apply to these bundles.                                                 *)
(***************************************************************************)
EXTENDS Naturals, SequencesExt

CONSTANTS
    Digest,
    Size,     \* the size of a layer
    StubLen,
    BinLen,   \* the size of each binary in the bootstrap section
    Content,  \* what can be packed: [layers : Seq(Digest), boot : Seq(File)]
    Perm, BundlePerm,
    None, Garbage

File == {"nexpackd", "nxpk"}
Name == {"app.nxpk", "app_signed.nxpk"}

\* A header, the cells of a file, and a bundle as it is meant.
LayerEntry == [digest : Digest, size : Nat]
Header == [layers : Seq(LayerEntry), perm : Perm, boot : Nat,
           sig : {None} \cup [layers : Seq(LayerEntry), perm : Perm, boot : Nat,
                              sig : {None}]]
Cell == [kind : {"stub", "header"}] \cup [kind : {"NX02"}, header : Header]
          \cup [kind : {"layer"}, digest : Digest, at : Nat]
          \cup [kind : {"count", "len"}, n : Nat] \cup [kind : {"name", "bin"}, name : File]
          \cup [kind : {"NXBT"}, offset : Nat, size : Nat]
Bundle == [header : Header, boot : Seq(File)]

ASSUME SizeAssumption == Size \in [Digest -> Nat \ {0}] /\ StubLen \in Nat /\ BinLen \in Nat
ASSUME ContentAssumption ==
    Content \subseteq [layers : Seq(Digest) \ {<<>>}, boot : Seq(File)]
ASSUME PermAssumption == BundlePerm \in Perm
ASSUME SentinelAssumption == None \notin {Garbage} \cup Seq(Cell) \cup Bundle

VARIABLES
    file,    \* the cells of each bundle file, None if there is none
    todo,    \* the pieces the running writer has still to write
    job,     \* the writer: where it writes, and what shall come of it
    stored,  \* layers in the store
    meta,    \* the header of the installed application
    done,    \* history: what each file was finished as
    edited,  \* history: files whose header an edit changed after signing
    changed  \* history: the same of meta

vars == <<file, todo, job, stored, meta, done, edited, changed>>

NoJob == [op |-> "none", to |-> None, result |-> None]

Init ==
    /\ file = [n \in Name |-> None]
    /\ todo = <<>> /\ job = NoJob
    /\ stored = {} /\ meta = None
    /\ done = [n \in Name |-> None] /\ edited = {} /\ changed = FALSE

-----------------------------------------------------------------------------
(* Writing.                                                                *)

Cells(n, cell) == [i \in 1 .. n |-> cell]
StubBytes == Cells(StubLen, [kind |-> "stub"])
Layer(d) == [i \in 1 .. Size[d] |-> [kind |-> "layer", digest |-> d, at |-> i]]

\* One piece per layer, one for a signature.
EncodedLen(h) == 1 + Len(h.layers) + (IF h.sig = None THEN 0 ELSE 1)
Encode(h) ==
    <<[kind |-> "NX02", header |-> h]>>
        \o Cells(EncodedLen(h) - 1, [kind |-> "header"])

\* Name and length of a binary are a cell each.
Entry(f) == <<[kind |-> "name", name |-> f], [kind |-> "len", n |-> BinLen]>>
                \o Cells(BinLen, [kind |-> "bin", name |-> f])
BootstrapData(boot) ==
    <<[kind |-> "count", n |-> Len(boot)]>>
        \o FlattenSeq([i \in DOMAIN boot |-> Entry(boot[i])])
Trailer(offset, size) == <<[kind |-> "NXBT", offset |-> offset, size |-> size]>>

Total(parts) == Len(FlattenSeq(parts))

\* Mutant of BootOffset: the length of the file is taken after the write.
LateOffset(before, data) == Total(before) + Len(data)

\* The length of the file when the section is about to be written.
BootOffset(before, data) == Total(before)

-----------------------------------------------------------------------------
(* Reading: BundleHeader::parse and Bundle.                                *)

\* Where the first magic is; 0 if there is none.
MagicAt(f) ==
    IF \E i \in DOMAIN f : f[i].kind = "NX02"
    THEN CHOOSE i \in DOMAIN f :
           f[i].kind = "NX02" /\ \A j \in 1 .. i - 1 : f[j].kind # "NX02"
    ELSE 0
HeaderOf(f) == f[MagicAt(f)].header
Offset(f) == MagicAt(f) - 1
Parses(f) ==
    /\ f # None
    /\ MagicAt(f) # 0
    /\ Len(f) >= Offset(f) + EncodedLen(HeaderOf(f))

\* Mutant of LayersOffset: the magic is not counted.
WithoutMagic(f) == Offset(f) + EncodedLen(HeaderOf(f)) - 1
LayersOffset(f) == Offset(f) + EncodedLen(HeaderOf(f))

\* Where layer i starts, counted in cells before it.
LayerStart(f, i) ==
    LET sizes == [j \in 1 .. i - 1 |-> Cells(HeaderOf(f).layers[j].size, 0)]
    IN  LayersOffset(f) + Total(sizes)
LayersEnd(f) == LayerStart(f, Len(HeaderOf(f).layers) + 1)

ExtractLayer(f, i) ==
    LET start == LayerStart(f, i)
        end   == start + HeaderOf(f).layers[i].size
    IN  IF end > Len(f) THEN None ELSE SubSeq(f, start + 1, end)

\* The digest of the bytes is the one of the header.
LayerOK(f, i) == ExtractLayer(f, i) = Layer(HeaderOf(f).layers[i].digest)
VerifyLayers(f) == \A i \in DOMAIN HeaderOf(f).layers : LayerOK(f, i)

\* parse_bootstrap_entries and the loop of extract_self_bootstrap: the
\* binaries that c starts with, Garbage for anything else.
Entries(c) ==
    IF c = <<>> \/ c[1].kind # "count" THEN Garbage
    ELSE LET n == c[1].n
             next[k \in 0 .. n] ==
               IF k = 0 THEN 2
               ELSE LET p == next[k - 1] IN
                    IF \/ p = 0 \/ p + 1 > Len(c)
                       \/ c[p].kind # "name" \/ c[p + 1].kind # "len"
                       \/ p + 1 + c[p + 1].n > Len(c)
                    THEN 0 ELSE p + 2 + c[p + 1].n
         IN  IF next[n] = 0 THEN Garbage
             ELSE [k \in 1 .. n |->
                     SubSeq(c, next[k - 1], next[k] - 1)]

\* Bundle::extract_bootstrap.
ExtractBootstrap(f) ==
    LET size == HeaderOf(f).boot IN
    IF size = 0 \/ LayersEnd(f) + size > Len(f) THEN None
    ELSE Entries(SubSeq(f, LayersEnd(f) + 1, LayersEnd(f) + size))

\* The stub: it looks at the trailer only.
StubBootstrap(f) ==
    IF f = <<>> \/ f[Len(f)].kind # "NXBT" THEN None
    ELSE Entries(SubSeq(f, f[Len(f)].offset + 1, Len(f)))

\* What is signed: the header without signature, and the digests it names.
Artifact(h) == [h EXCEPT !.sig = None]

-----------------------------------------------------------------------------
(* The writers: nxpk pack, sign, export.                                   *)

\* Mutant of Unfinished: the new file passes for the old one.
StillFinished(n) == done' = done
Unfinished(n) == done' = [done EXCEPT ![n] = None]

\* File::create, after all that can fail before it.
Create(op, n, parts, result, ed) ==
    /\ job = NoJob
    /\ job' = [op |-> op, to |-> n, result |-> result]
    /\ todo' = parts
    /\ file' = [file EXCEPT ![n] = <<>>]
    /\ edited' = IF ed THEN edited \cup {n} ELSE edited \ {n}
    /\ Unfinished(n)
    /\ UNCHANGED <<stored, meta, changed>>

Layers(ds) == [i \in DOMAIN ds |-> Layer(ds[i])]

Pack(c) ==
    LET data  == IF c.boot = <<>> THEN <<>> ELSE BootstrapData(c.boot)
        h     == [layers |-> [i \in DOMAIN c.layers |->
                                [digest |-> c.layers[i], size |-> Size[c.layers[i]]]],
                  perm |-> BundlePerm, sig |-> None, boot |-> Len(data)]
        body  == <<StubBytes, Encode(h)>> \o Layers(c.layers)
        extra == IF data = <<>> THEN <<>>
                 ELSE <<data, Trailer(BootOffset(body, data), Len(data))>>
    IN  Create("pack", "app.nxpk", body \o extra,
               [header |-> h, boot |-> c.boot], FALSE)

\* The layers that can be read, up to the first that cannot.
Readable(f) ==
    LET ok == {k \in 0 .. Len(HeaderOf(f).layers) :
                 \A i \in 1 .. k : ExtractLayer(f, i) # None}
        k  == CHOOSE k \in ok : \A j \in ok : j <= k
    IN  [i \in 1 .. k |-> ExtractLayer(f, i)]

\* The stub is the bundle's own; the bootstrap section is not taken along.
Sign(n, to) ==
    /\ Parses(file[n])
    /\ LET f == file[n]
           h == HeaderOf(f)
           signed == [h EXCEPT !.sig = Artifact(h)]
       IN  /\ h.sig = None
           /\ Create("sign", to,
                     <<SubSeq(f, 1, Offset(f)), Encode(signed)>> \o Readable(f),
                     IF Len(Readable(f)) = Len(h.layers)
                     THEN [header |-> signed, boot |-> <<>>] ELSE None, FALSE)

\* Mutant of ExportHeader: the header forgets the section that is left out.
WithoutBoot(h) == [h EXCEPT !.boot = 0]
\* The header of meta.capnp as it is.
ExportHeader(h) == h

Export ==
    /\ meta # None
    /\ LET h == ExportHeader(meta) IN
       Create("export", "app.nxpk",
              <<StubBytes, Encode(h)>>
                  \o Layers([i \in DOMAIN h.layers |-> h.layers[i].digest]),
              [header |-> h, boot |-> <<>>], changed)

Finish == job' = NoJob /\ todo' = <<>>

\* Export reads each layer from the store as it comes to it.
Missing ==
    job.op = "export" /\ \E d \in Digest \ stored : Head(todo) = Layer(d)

WritePart ==
    /\ todo # <<>>
    /\ ~Missing
    /\ file' = [file EXCEPT ![job.to] = @ \o Head(todo)]
    /\ IF Len(todo) > 1
       THEN todo' = Tail(todo) /\ UNCHANGED <<job, done>>
       ELSE done' = [done EXCEPT ![job.to] = job.result] /\ Finish
    /\ UNCHANGED <<stored, meta, edited, changed>>

\* The layer is gone: the command fails, and what it wrote stays.
ExportFails ==
    /\ todo # <<>>
    /\ Missing
    /\ Finish
    /\ UNCHANGED <<file, stored, meta, done, edited, changed>>

\* Killed, or out of space, anywhere in a piece.
Interrupt ==
    /\ todo # <<>>
    /\ \E k \in 0 .. Len(Head(todo)) - 1 :
         file' = [file EXCEPT ![job.to] = @ \o SubSeq(Head(todo), 1, k)]
    /\ Finish
    /\ UNCHANGED <<stored, meta, done, edited, changed>>

-----------------------------------------------------------------------------
(* Those who read bundles and change what export writes.                   *)

\* Layers that are in the store already are not looked at in the bundle.
Installable(f, i) == HeaderOf(f).layers[i].digest \in stored \/ LayerOK(f, i)

Install(n) ==
    /\ Parses(file[n])
    /\ LET h == HeaderOf(file[n]) IN
       /\ \A i \in DOMAIN h.layers : Installable(file[n], i)
       /\ stored' = stored \cup {h.layers[i].digest : i \in DOMAIN h.layers}
       /\ meta' = h
    /\ changed' = (n \in edited)
    /\ UNCHANGED <<file, todo, job, done, edited>>

\* Stops at the first layer that is not right; those before it are stored.
InstallFails(n) ==
    /\ Parses(file[n])
    /\ LET h == HeaderOf(file[n]) IN
       \E i \in DOMAIN h.layers :
         /\ ~Installable(file[n], i)
         /\ \A j \in 1 .. i - 1 : Installable(file[n], j)
         /\ stored' = stored \cup {h.layers[j].digest : j \in 1 .. i - 1}
    /\ UNCHANGED <<file, todo, job, meta, done, edited, changed>>

\* The daemon mounts a bundle: all layers are verified before any is stored.
Mount(n) ==
    /\ Parses(file[n])
    /\ VerifyLayers(file[n])
    /\ LET ls == HeaderOf(file[n]).layers IN
       stored' = stored \cup {ls[i].digest : i \in DOMAIN ls}
    /\ UNCHANGED <<file, todo, job, meta, done, edited, changed>>

Edit(p) ==
    /\ meta # None
    /\ meta' = [meta EXCEPT !.perm = p]
    /\ changed' = TRUE
    /\ UNCHANGED <<file, todo, job, stored, done, edited>>

\* Only the top layer of the application is rooted.
Gc ==
    /\ stored' = IF meta = None THEN {}
                 ELSE stored \cap {meta.layers[Len(meta.layers)].digest}
    /\ UNCHANGED <<file, todo, job, meta, done, edited, changed>>

Next ==
    \/ \E c \in Content : Pack(c)
    \/ \E n, to \in Name : Sign(n, to)
    \/ Export \/ WritePart \/ ExportFails \/ Interrupt
    \/ \E n \in Name : Install(n) \/ InstallFails(n) \/ Mount(n)
    \/ \E p \in Perm : Edit(p)
    \/ Gc

Spec == Init /\ [][Next]_vars

-----------------------------------------------------------------------------
(* Properties.                                                             *)

Result == {None} \cup Bundle
TypeOK ==
    /\ file \in [Name -> {None} \cup Seq(Cell)] /\ todo \in Seq(Seq(Cell))
    /\ job.op \in {"none", "pack", "sign", "export"}
    /\ job.to \in Name \cup {None} /\ job.result \in Result
    /\ job = NoJob <=> todo = <<>>
    /\ job.to # None => done[job.to] = None
    /\ stored \subseteq Digest
    /\ meta \in {None} \cup Header
    /\ done \in [Name -> Result]
    /\ edited \subseteq Name /\ changed \in BOOLEAN

\* A bundle that was written to the end reads back as what went in, through
\* any chain of pack, sign, install, edit, gc and export: the header is the
\* one written, and each layer is found at the offset the readers compute
\* (Bundle::layers_offset, extract_layer).
WholeReadsBack ==
    \A n \in Name : done[n] # None =>
        /\ Parses(file[n]) /\ HeaderOf(file[n]) = done[n].header
        /\ VerifyLayers(file[n])

\* The stub knows nothing of the header: it extracts from a file exactly when
\* that file is a finished bundle with binaries, never from one whose writer
\* was stopped, and it gets the binaries that were packed, which are also
\* those that Bundle::extract_bootstrap finds (stub.c:211, lib.rs:106).
StubFindsWhole ==
    \A n \in Name : file[n] # None =>
        LET found == StubBootstrap(file[n])
            boot  == IF done[n] = None THEN <<>> ELSE done[n].boot
        IN  IF boot = <<>> THEN found = None
            ELSE /\ found = [k \in DOMAIN boot |-> Entry(boot[k])]
                 /\ ExtractBootstrap(file[n]) = found

\* A signature stays valid while nobody edits what it covers: signing again
\* adds none, and a signed bundle that is installed and exported still
\* verifies, although its bytes are not the same (signing.rs:5).
SignatureStands ==
    \A n \in Name \ edited : done[n] # None =>
        LET h == HeaderOf(file[n]) IN h.sig # None => h.sig = Artifact(h)
=============================================================================
