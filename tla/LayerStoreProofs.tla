-------------------------- MODULE LayerStoreProofs --------------------------
(***************************************************************************)
(* What LayerStore promises for any number of processes, applications,     *)
(* layers and faults.  The order is: the type invariant with what each     *)
(* program point knows about its job (Typing), then the inductive          *)
(* invariants that use it: for the garbage collector's scan (ScanInv), for *)
(* what a process has seen stored (LinkInv), for torn files                *)
(* (ImagesExplained, HeadersExplained), for which command is where         *)
(* (OpsInv), and for commands that do not overlap (RestInv).               *)
(***************************************************************************)
EXTENDS LayerStore, TLAPS

\* Program points at which a process works on a release for an application.
StorePC == {"layer", "create", "write_image"}
MetaPC  == {"app_dir", "open_meta", "write_meta", "unlink_current",
            "link_current", "check_top", "unlink_tmp", "link_tmp", "rename",
            "unlink_root", "link_root"}
AppPC   == StorePC \cup MetaPC \cup {"plan", "remove"}

(* What the code before program point l has put into the job j: the type   *)
(* invariant alone would let a step write a header without a release.      *)
JobFits(l, j) ==
    /\ l \in AppPC => j.app \in App
    /\ l \in StorePC \cup MetaPC => j.rel \in Release
    /\ l \in StorePC => j.at >= 1
    /\ l \in {"create", "write_image"} =>
          j.at <= Len(LayersOf[j.rel]) /\ j.data \in {"whole", "wrong"}
    /\ l \in MetaPC \cup {"plan"} => j.perm \in Perm
    /\ l \in StorePC /\ j.op # "mount" => j.perm \in Perm

\* The two halves of the type invariant: the store, and the processes.
FilesOK ==
    /\ image \in [Digest -> Image]
    /\ appdir \subseteq App
    /\ meta \in [App -> Header \cup {None, Torn}]
    /\ current \in [App -> Digest \cup {None}]
    /\ tmp \in [App -> Digest \cup {None}]
    /\ root \in [App -> Digest \cup {None}]
    /\ swept \subseteq Digest
    /\ cutImage \subseteq Digest
    /\ cutMeta \subseteq App
    /\ asked \in [App -> Perm \cup {None}]
    /\ faults \in 0..MaxFaults

Scans == [links : SUBSET App, reach : SUBSET Digest, dirs : SUBSET Digest]
LocalOK ==
    /\ pc \in [Proc -> PC]
    /\ job \in [Proc -> Job]
    /\ linked \in [Proc -> BOOLEAN]
    /\ scan \in [Proc -> Scans]
    /\ steady \in [Proc -> SUBSET App]
    /\ \A p \in Proc : JobFits(pc[p], job[p])

Typing == FilesOK /\ LocalOK

-----------------------------------------------------------------------------

LEMMA TypingTypes == Typing => TypeOK
BY DEF Typing, FilesOK, LocalOK, TypeOK, Scans

\* Every release has a top layer, and each of its indices names a layer.
LEMMA LayersTyped ==
    ASSUME NEW r \in Release
    PROVE  /\ Len(LayersOf[r]) \in Nat \ {0}
           /\ Top(r) \in Digest
           /\ \A i \in 1..Len(LayersOf[r]) : LayersOf[r][i] \in Digest
<1>1. LayersOf[r] \in Seq(Digest) /\ LayersOf[r] # <<>>
  BY ReleaseAssumption
<1> DEFINE s == LayersOf[r]
<1>2. Len(s) \in Nat /\ s \in [1..Len(s) -> Digest] /\ Len(s) # 0
  BY <1>1
<1> QED
  BY <1>2 DEF Top

LEMMA InitTyping == Init => Typing
<1> SUFFICES ASSUME Init PROVE Typing
  OBVIOUS
<1>1. FilesOK
  BY BoundAssumption DEF Init, FilesOK, Image
<1>2. LocalOK
  BY DEF Init, LocalOK, NoJob, NoScan, Job, Scans, PC, Image, JobFits, AppPC,
     StorePC, MetaPC
<1> QED
  BY <1>1, <1>2 DEF Typing

\* A process moves to l with job j; the others stand where they stood.
LEMMA Moves ==
    ASSUME LocalOK, NEW p \in Proc, NEW l \in PC, NEW j \in Job, JobFits(l, j),
           pc' = [pc EXCEPT ![p] = l], job' = [job EXCEPT ![p] = j],
           linked' \in [Proc -> BOOLEAN], scan' \in [Proc -> Scans],
           steady' \in [Proc -> SUBSET App]
    PROVE  LocalOK'
<1>1. ASSUME NEW q \in Proc PROVE JobFits(pc'[q], job'[q])
  <2>1. CASE q = p
    BY <2>1 DEF LocalOK
  <2>2. CASE q # p
    <3>1. pc'[q] = pc[q] /\ job'[q] = job[q]
      BY <2>2 DEF LocalOK
    <3> QED
      BY <3>1 DEF LocalOK
  <2> QED
    BY <2>1, <2>2
<1>2. pc' \in [Proc -> PC] /\ job' \in [Proc -> Job]
  BY DEF LocalOK
<1>3. (\A q \in Proc : JobFits(pc[q], job[q]))'
  BY <1>1 DEF JobFits
<1> QED
  BY <1>2, <1>3 DEF LocalOK

\* The same when it keeps its job.
LEMMA Steps ==
    ASSUME LocalOK, NEW p \in Proc, NEW l \in PC, JobFits(l, job[p]),
           pc' = [pc EXCEPT ![p] = l], job' = job,
           linked' \in [Proc -> BOOLEAN], scan' \in [Proc -> Scans],
           steady' \in [Proc -> SUBSET App]
    PROVE  LocalOK'
<1>1. job' = [job EXCEPT ![p] = job[p]] /\ job[p] \in Job
  BY DEF LocalOK
<1> QED
  BY <1>1, Moves

\* A process that returns or dies is idle and fits anything.
LEMMA Leaves ==
    ASSUME LocalOK, NEW p \in Proc, Leave(p), steady' \in [Proc -> SUBSET App]
    PROVE  LocalOK'
<1>1. NoJob \in Job /\ NoScan \in Scans /\ "idle" \in PC
  BY DEF NoJob, Job, NoScan, Scans, PC, Image
<1>2. JobFits("idle", NoJob)
  BY DEF JobFits, AppPC, StorePC, MetaPC
<1>3. linked' \in [Proc -> BOOLEAN] /\ scan' \in [Proc -> Scans]
  BY <1>1 DEF Leave, LocalOK
<1>4. pc' = [pc EXCEPT ![p] = "idle"] /\ job' = [job EXCEPT ![p] = NoJob]
  BY DEF Leave, Goto
<1> QED
  BY <1>1, <1>2, <1>3, <1>4, Moves

LEMMA Starts ==
    ASSUME LocalOK, NEW p \in Proc, NEW op \in Command, NEW l \in PC,
           NEW j \in Job, JobFits(l, [j EXCEPT !.op = op]), Start(p, op, l, j),
           steady' = steady
    PROVE  LocalOK'
<1>1. [j EXCEPT !.op = op] \in Job
  BY DEF Job
<1> QED
  BY <1>1, Moves DEF Start, Goto, LocalOK

\* The job of each command fits the point where the command starts.
LEMMA BeginTyping ==
    ASSUME Typing, NEW p \in Proc, Begin(p)
    PROVE  Typing'
<1> USE DEF Typing
<1> DEFINE Pcs == {"layer", "plan", "open_meta", "remove", "gc_roots"}
<1>0. Pcs \subseteq PC
  BY DEF PC
<1>1. ASSUME NEW r \in Release, Install(p, r) \/ Mount(p, r) PROVE Typing'
  <2>1. FilesOK'
    BY <1>1 DEF Install, Mount, FilesOK, layers, apps, roots
  <2>2. CASE Install(p, r)
    <3> DEFINE j == [NoJob EXCEPT !.app = AppOf[r], !.rel = r,
                                  !.perm = BundlePerm, !.at = 1]
    <3>1. j \in Job /\ [j EXCEPT !.op = "install"] \in Job
      BY ReleaseAssumption DEF NoJob, Job, Image, Command
    <3>2. JobFits("layer", [j EXCEPT !.op = "install"])
      BY ReleaseAssumption DEF NoJob, JobFits, AppPC, StorePC, MetaPC
    <3>3. Start(p, "install", "layer", j) /\ steady' = steady
      BY <2>2 DEF Install, roots
    <3>4. "install" \in Command
      BY DEF Command
    <3> HIDE DEF j
    <3>5. LocalOK'
      BY <3>1, <3>2, <3>3, <3>4, <1>0, Starts
    <3> QED
      BY <2>1, <3>5
  <2>3. CASE Mount(p, r)
    <3> DEFINE j == [NoJob EXCEPT !.app = AppOf[r], !.rel = r, !.at = 1]
    <3>1. j \in Job /\ [j EXCEPT !.op = "mount"] \in Job
      BY ReleaseAssumption DEF NoJob, Job, Image, Command
    <3>2. JobFits("layer", [j EXCEPT !.op = "mount"])
      BY ReleaseAssumption DEF NoJob, JobFits, AppPC, StorePC, MetaPC
    <3>3. Start(p, "mount", "layer", j) /\ steady' = steady
      BY <2>3 DEF Mount, roots
    <3>4. "mount" \in Command
      BY DEF Command
    <3> HIDE DEF j
    <3>5. LocalOK'
      BY <3>1, <3>2, <3>3, <3>4, <1>0, Starts
    <3> QED
      BY <2>1, <3>5
  <2> QED
    BY <1>1, <2>2, <2>3
<1>2. ASSUME NEW a \in App, NEW op \in Command, ReadMeta(p, op, a)
      PROVE  Typing'
  <2> DEFINE j == [NoJob EXCEPT !.app = a, !.rel = meta[a].rel,
                                !.perm = meta[a].perm]
  <2>1. FilesOK'
    BY <1>2 DEF ReadMeta, FilesOK, layers, apps, roots
  <2>2. meta[a].rel \in Release /\ meta[a].perm \in Perm
    BY <1>2 DEF ReadMeta, Header
  <2>3. j \in Job
    BY <2>2 DEF NoJob, Job, Image
  <2>4. JobFits("plan", [j EXCEPT !.op = op])
    BY <2>2 DEF NoJob, JobFits, AppPC, StorePC, MetaPC
  <2>5. Start(p, op, "plan", j) /\ steady' = steady
    BY <1>2 DEF ReadMeta, roots
  <2> HIDE DEF j
  <2>6. LocalOK'
    BY <2>3, <2>4, <2>5, <1>0, Starts
  <2> QED
    BY <2>1, <2>6
<1>3. ASSUME NEW a \in App, NEW perm \in Perm, Edit(p, a, perm)
      PROVE  Typing'
  <2> DEFINE j == [NoJob EXCEPT !.app = a, !.rel = meta[a].rel, !.perm = perm]
  <2>1. FilesOK'
    BY <1>3 DEF Edit, FilesOK, layers, apps, roots
  <2>2. meta[a].rel \in Release
    BY <1>3 DEF Edit, Header
  <2>3. j \in Job /\ "edit" \in Command
    BY <2>2 DEF NoJob, Job, Image, Command
  <2>4. JobFits("open_meta", [j EXCEPT !.op = "edit"])
    BY <2>2 DEF NoJob, JobFits, AppPC, StorePC, MetaPC
  <2>5. Start(p, "edit", "open_meta", j) /\ steady' = steady
    BY <1>3 DEF Edit, roots
  <2> HIDE DEF j
  <2>6. LocalOK'
    BY <2>3, <2>4, <2>5, <1>0, Starts
  <2> QED
    BY <2>1, <2>6
<1>4. ASSUME NEW a \in App, Remove(p, a) PROVE Typing'
  <2> DEFINE j == [NoJob EXCEPT !.app = a, !.files = Present(a)]
  <2>1. FilesOK'
    BY <1>4 DEF Remove, FilesOK, layers, apps, roots
  <2>2. j \in Job /\ "remove" \in Command
    BY DEF NoJob, Job, Image, Command, Present
  <2>3. JobFits("remove", [j EXCEPT !.op = "remove"])
    BY DEF NoJob, JobFits, AppPC, StorePC, MetaPC
  <2>4. Start(p, "remove", "remove", j) /\ steady' = steady
    BY <1>4 DEF Remove, roots
  <2> HIDE DEF j
  <2>5. LocalOK'
    BY <2>2, <2>3, <2>4, <1>0, Starts
  <2> QED
    BY <2>1, <2>5
<1>5. CASE Gc(p)
  <2>1. FilesOK'
    BY <1>5 DEF Gc, FilesOK, layers, apps
  <2>2. JobFits("gc_roots", job[p])
    BY DEF JobFits, AppPC, StorePC, MetaPC
  <2>3. scan' \in [Proc -> Scans] /\ steady' \in [Proc -> SUBSET App]
    BY <1>5 DEF Gc, LocalOK, Scans
  <2>4. LocalOK'
    BY <1>5, <1>0, <2>2, <2>3, Steps DEF Gc, Goto, LocalOK
  <2> QED
    BY <2>1, <2>4
<1> QED
  BY <1>1, <1>2, <1>3, <1>4, <1>5 DEF Begin

\* The layer a process works on, while it works on one.
LEMMA LayerTyped ==
    ASSUME Typing, NEW p \in Proc, pc[p] \in {"create", "write_image"}
    PROVE  Layer(p) \in Digest
<1>1. job[p].rel \in Release /\ job[p].at \in 1..Len(LayersOf[job[p].rel])
  BY LayersTyped DEF Typing, LocalOK, JobFits, StorePC, Job
<1> QED
  BY <1>1, LayersTyped DEF Layer

\* The steps of the loop over the layers, at the same index or the next.
LEMMA LoopTyping ==
    ASSUME LocalOK, NEW p \in Proc, pc[p] \in StorePC, steady' = steady,
           linked' \in [Proc -> BOOLEAN], scan' = scan,
           \/ Goto(p, "layer") /\ Advance(p)
           \/ pc' = pc /\ pc[p] = "layer" /\ Advance(p)
    PROVE  LocalOK'
<1> DEFINE j == [job[p] EXCEPT !.at = @ + 1]
<1>1. j \in Job
  BY DEF LocalOK, Job
<1>2. JobFits("layer", j)
  BY DEF LocalOK, JobFits, AppPC, StorePC, MetaPC, Job
<1>3. job' = [job EXCEPT ![p] = j]
  BY DEF Advance
<1>4. pc' = [pc EXCEPT ![p] = "layer"] /\ "layer" \in PC
  BY DEF Goto, LocalOK, PC
<1>5. scan' \in [Proc -> Scans] /\ steady' \in [Proc -> SUBSET App]
  BY DEF LocalOK
<1> HIDE DEF j
<1> QED
  BY <1>1, <1>2, <1>3, <1>4, <1>5, Moves

LEMMA StoreTyping ==
    ASSUME Typing, NEW p \in Proc, StoreStep(p)
    PROVE  Typing'
<1> FilesOK /\ LocalOK
  BY DEF Typing
<1>0. {"layer", "create", "write_image", "app_dir", "check_top"} \subseteq PC
  BY DEF PC
<1>1. ASSUME NEW r \in Release, Plan(p, r) PROVE Typing'
  <2> DEFINE j == [job[p] EXCEPT !.rel = r, !.at = 1,
                                 !.need = {d \in Digest : ~HasLayer(d)}]
  <2>1. FilesOK'
    BY <1>1 DEF Plan, FilesOK, layers, apps, roots
  <2>2. j \in Job
    BY DEF LocalOK, Job
  <2>3. JobFits("layer", j)
    BY <1>1 DEF Plan, LocalOK, JobFits, AppPC, StorePC, MetaPC, Job
  <2>4. job' = [job EXCEPT ![p] = j]
    BY <1>1 DEF Plan
  <2> HIDE DEF j
  <2>5. LocalOK'
    BY <1>0, <1>1, <2>2, <2>3, <2>4, Moves DEF Plan, Goto, LocalOK, roots
  <2> QED
    BY <2>1, <2>5 DEF Typing
<1>2. CASE NothingNew(p)
  <2>1. FilesOK'
    BY <1>2 DEF NothingNew, FilesOK, layers, apps, roots
  <2>2. LocalOK'
    BY <1>2, Leaves DEF NothingNew, Exit, roots, LocalOK
  <2> QED
    BY <2>1, <2>2 DEF Typing
<1>3. CASE SkipLayer(p)
  <2>1. FilesOK'
    BY <1>3 DEF SkipLayer, FilesOK, layers, apps, roots
  <2>2. LocalOK'
    BY <1>3, LoopTyping DEF SkipLayer, StorePC, roots, LocalOK
  <2> QED
    BY <2>1, <2>2 DEF Typing
<1>4. CASE FetchFails(p)
  <2>1. FilesOK'
    BY <1>4 DEF FetchFails, FilesOK, layers, apps, roots
  <2>2. LocalOK'
    BY <1>4, LoopTyping, Leaves DEF FetchFails, StorePC, roots, LocalOK
  <2> QED
    BY <2>1, <2>2 DEF Typing
<1>5. CASE LayersDone(p)
  <2>1. FilesOK'
    BY <1>5 DEF LayersDone, FilesOK, layers, apps, roots
  <2>2. CASE AfterLayers(p) = "idle"
    <3>1. Leave(p)
      BY <1>5, <2>2 DEF LayersDone, Step, Exit
    <3>2. steady' \in [Proc -> SUBSET App]
      BY <1>5 DEF LayersDone, roots, LocalOK
    <3>3. LocalOK'
      BY <3>1, <3>2, Leaves
    <3> QED
      BY <2>1, <3>3 DEF Typing
  <2>3. CASE AfterLayers(p) # "idle"
    <3>1. At(p, "layer", AfterLayers(p)) /\ job[p].op # "mount"
      BY <1>5, <2>3 DEF LayersDone, Step, AfterLayers
    <3>2. AfterLayers(p) \in {"app_dir", "check_top"}
      BY <3>1 DEF AfterLayers
    <3>3. JobFits(AfterLayers(p), job[p])
      BY <3>1, <3>2 DEF At, JobFits, LocalOK, AppPC, StorePC, MetaPC
    <3>4. LocalOK'
      BY <1>0, <1>5, <3>1, <3>2, <3>3, Steps
      DEF LayersDone, At, Goto, LocalOK, roots
    <3> QED
      BY <2>1, <3>4 DEF Typing
  <2> QED
    BY <2>1, <2>2, <2>3 DEF Typing
<1>6. ASSUME NEW data \in {"whole", "wrong"}, FetchLayer(p, data)
      PROVE  Typing'
  <2> DEFINE j == [job[p] EXCEPT !.data = data]
  <2>1. job[p].rel \in Release /\ job[p].at \in 1..Len(LayersOf[job[p].rel])
    BY <1>6, LayersTyped DEF FetchLayer, LastLayer, LocalOK, JobFits, StorePC,
       Job
  <2>2. FilesOK'
    BY <1>6 DEF FetchLayer, FilesOK, apps, roots, Image
  <2>3. j \in Job
    BY DEF LocalOK, Job, Image
  <2>4. JobFits("create", j)
    BY <1>6, <2>1 DEF FetchLayer, LocalOK, JobFits, AppPC, StorePC, MetaPC, Job
  <2>5. job' = [job EXCEPT ![p] = j]
    BY <1>6 DEF FetchLayer
  <2> HIDE DEF j
  <2>6. LocalOK'
    BY <1>0, <1>6, <2>3, <2>4, <2>5, Moves DEF FetchLayer, Goto, LocalOK, roots
  <2> QED
    BY <2>2, <2>6 DEF Typing
<1>7. CASE CreateImage(p)
  <2>1. Layer(p) \in Digest
    BY <1>7, LayerTyped DEF CreateImage
  <2>2. FilesOK'
    BY <1>7, <2>1 DEF CreateImage, FilesOK, apps, roots, Image
  <2>3. JobFits("write_image", job[p])
    BY <1>7 DEF CreateImage, LocalOK, JobFits, AppPC, StorePC, MetaPC
  <2>4. LocalOK'
    BY <1>0, <1>7, <2>3, Steps DEF CreateImage, Goto, LocalOK, roots
  <2> QED
    BY <2>2, <2>4 DEF Typing
<1>8. CASE CreateFails(p)
  <2>1. FilesOK'
    BY <1>8 DEF CreateFails, FilesOK, layers, apps, roots
  <2>2. LocalOK'
    BY <1>8, LoopTyping, Leaves DEF CreateFails, StorePC, roots, LocalOK
  <2> QED
    BY <2>1, <2>2 DEF Typing
<1>9. CASE WriteImage(p)
  <2>1. job[p].data \in Image /\ Layer(p) \in Digest
    BY <1>9, LayerTyped DEF WriteImage, LocalOK, Job
  <2>2. FilesOK'
    BY <1>9, <2>1 DEF WriteImage, FilesOK, apps, roots
  <2>3. LocalOK'
    BY <1>9, LoopTyping DEF WriteImage, StorePC, roots, LocalOK
  <2> QED
    BY <2>2, <2>3 DEF Typing
<1>10. CASE WriteFails(p)
  <2>1. Layer(p) \in Digest
    BY <1>10, LayerTyped DEF WriteFails
  <2>2. FilesOK'
    BY <1>10, <2>1, BoundAssumption DEF WriteFails, FilesOK, apps, roots
  <2>3. LocalOK'
    BY <1>10, LoopTyping, Leaves DEF WriteFails, StorePC, roots, LocalOK
  <2> QED
    BY <2>2, <2>3 DEF Typing
<1> QED
  BY <1>1, <1>2, <1>3, <1>4, <1>5, <1>6, <1>7, <1>8, <1>9, <1>10 DEF StoreStep

\* Between the steps that make an application's files and links, the job
\* stays as it is and keeps fitting.
LEMMA MetaMoves ==
    ASSUME LocalOK, NEW p \in Proc, pc[p] \in MetaPC, NEW l \in MetaPC,
           Goto(p, l), job' = job, scan' = scan,
           linked' \in [Proc -> BOOLEAN], steady' \in [Proc -> SUBSET App]
    PROVE  LocalOK'
<1>1. JobFits(l, job[p])
  BY DEF LocalOK, JobFits, AppPC, StorePC, MetaPC
<1>2. l \in PC /\ scan' \in [Proc -> Scans]
  BY DEF MetaPC, PC, LocalOK
<1> QED
  BY <1>1, <1>2, Steps DEF Goto

LEMMA AppTyping ==
    ASSUME Typing, NEW p \in Proc, AppStep(p)
    PROVE  Typing'
<1> FilesOK /\ LocalOK
  BY DEF Typing
<1>0. pc[p] \in MetaPC => /\ job[p].app \in App
                          /\ job[p].rel \in Release
                          /\ job[p].perm \in Perm
                          /\ Top(job[p].rel) \in Digest
  BY LayersTyped DEF LocalOK, JobFits, AppPC
<1>1. CASE MakeAppDir(p) \/ UnlinkCurrent(p) \/ LinkCurrent(p)
  <2>1. pc[p] \in MetaPC
    BY <1>1 DEF MakeAppDir, UnlinkCurrent, LinkCurrent, At, MetaPC
  <2>2. FilesOK'
    BY <1>0, <1>1, <2>1
    DEF MakeAppDir, UnlinkCurrent, LinkCurrent, FilesOK, layers, roots
  <2>3. LocalOK'
    BY <1>1, <2>1, MetaMoves
    DEF MakeAppDir, UnlinkCurrent, LinkCurrent, At, LocalOK, MetaPC, roots
  <2> QED
    BY <2>2, <2>3 DEF Typing
<1>2. CASE CheckTop(p) \/ UnlinkTmp(p) \/ LinkTmp(p) \/ RenameTmp(p)
  <2>1. pc[p] \in MetaPC
    BY <1>2 DEF CheckTop, UnlinkTmp, LinkTmp, RenameTmp, At, MetaPC
  <2>2. FilesOK'
    BY <1>0, <1>2, <2>1
    DEF CheckTop, UnlinkTmp, LinkTmp, RenameTmp, FilesOK, layers, apps, roots
  <2>3. LocalOK'
    BY <1>2, <2>1, MetaMoves
    DEF CheckTop, UnlinkTmp, LinkTmp, RenameTmp, At, LocalOK, MetaPC, apps,
        roots
  <2> QED
    BY <2>2, <2>3 DEF Typing
<1>3. CASE \/ OpenMetaFails(p) \/ LinkCurrentFails(p) \/ LinkTmpFails(p)
           \/ RenameFails(p) \/ LinkRootFails(p)
  <2>1. FilesOK'
    BY <1>3 DEF OpenMetaFails, LinkCurrentFails, LinkTmpFails, RenameFails,
       LinkRootFails, FilesOK, layers, apps, roots
  <2>2. steady' = steady
    BY <1>3 DEF OpenMetaFails, LinkCurrentFails, LinkTmpFails, RenameFails,
       LinkRootFails, roots
  <2>3. \/ Leave(p)
        \/ /\ pc[p] \in MetaPC
           /\ \E l \in MetaPC : Goto(p, l)
           /\ UNCHANGED <<job, linked, scan>>
    BY <1>3 DEF OpenMetaFails, LinkCurrentFails, LinkTmpFails, RenameFails,
       LinkRootFails, Exit, Fails, At, MetaPC
  <2>4. LocalOK'
    BY <2>2, <2>3, MetaMoves, Leaves DEF LocalOK
  <2> QED
    BY <2>1, <2>4 DEF Typing
<1>4. CASE OpenMeta(p)
  <2>1. pc[p] \in MetaPC
    BY <1>4 DEF OpenMeta, MetaPC
  <2>2. FilesOK'
    BY <1>0, <1>4, <2>1 DEF OpenMeta, FilesOK, layers, roots
  <2>3. LocalOK'
    BY <1>4, <2>1, MetaMoves DEF OpenMeta, LocalOK, MetaPC, roots
  <2> QED
    BY <2>2, <2>3 DEF Typing
<1>5. CASE WriteMeta(p)
  <2>1. pc[p] \in MetaPC
    BY <1>5 DEF WriteMeta, MetaPC
  <2>2. [rel |-> job[p].rel, perm |-> job[p].perm] \in Header
    BY <1>0, <2>1 DEF Header
  <2>3. FilesOK'
    BY <1>0, <1>5, <2>1, <2>2 DEF WriteMeta, FilesOK, layers, roots
  <2>4. steady' = steady
    BY <1>5 DEF WriteMeta, roots
  <2>5. LocalOK'
    BY <1>5, <2>1, <2>4, MetaMoves, Leaves
    DEF WriteMeta, AfterMeta, LocalOK, MetaPC
  <2> QED
    BY <2>3, <2>5 DEF Typing
<1>6. CASE UnlinkRoot(p) \/ LinkRoot(p)
  <2>1. pc[p] \in MetaPC
    BY <1>6 DEF UnlinkRoot, LinkRoot, At, MetaPC
  <2>2. FilesOK'
    BY <1>0, <1>6, <2>1 DEF UnlinkRoot, LinkRoot, FilesOK, layers, apps
  <2>3. steady' \in [Proc -> SUBSET App]
    BY <1>6 DEF UnlinkRoot, LinkRoot, LocalOK
  <2>4. \/ Leave(p)
        \/ (\E l \in MetaPC : Goto(p, l)) /\ UNCHANGED <<job, linked, scan>>
    BY <1>6 DEF UnlinkRoot, LinkRoot, AfterRoot, Step, Exit, At, MetaPC
  <2>5. LocalOK'
    BY <2>1, <2>3, <2>4, MetaMoves, Leaves DEF LocalOK
  <2> QED
    BY <2>2, <2>5 DEF Typing
<1>7. ASSUME NEW f \in AppFile, RemoveEntry(p, f) PROVE Typing'
  <2> DEFINE j == [job[p] EXCEPT !.files = @ \ {f}]
  <2>1. job[p].app \in App
    BY <1>7 DEF RemoveEntry, LocalOK, JobFits, AppPC
  <2>2. FilesOK'
    BY <1>7, <2>1 DEF RemoveEntry, FilesOK, layers, roots
  <2>3. j \in Job
    BY DEF LocalOK, Job
  <2>4. JobFits("remove", j) /\ pc[p] = "remove" /\ "remove" \in PC
    BY <1>7, <2>1 DEF RemoveEntry, JobFits, LocalOK, Job, StorePC, MetaPC, PC
  <2>5. pc' = [pc EXCEPT ![p] = "remove"] /\ job' = [job EXCEPT ![p] = j]
    BY <1>7, <2>4 DEF RemoveEntry, LocalOK
  <2>6. linked' \in [Proc -> BOOLEAN]
    BY <1>7 DEF RemoveEntry, LocalOK
  <2> HIDE DEF j
  <2>7. LocalOK'
    BY <1>7, <2>3, <2>4, <2>5, <2>6, Moves DEF RemoveEntry, LocalOK, roots
  <2> QED
    BY <2>2, <2>7 DEF Typing
<1>8. CASE RemoveDir(p)
  <2>1. FilesOK'
    BY <1>8 DEF RemoveDir, FilesOK, layers, roots
  <2>2. LocalOK'
    BY <1>8, Leaves DEF RemoveDir, Exit, roots, LocalOK
  <2> QED
    BY <2>1, <2>2 DEF Typing
<1> QED
  BY <1>1, <1>2, <1>3, <1>4, <1>5, <1>6, <1>7, <1>8 DEF AppStep

LEMMA GcTyping ==
    ASSUME Typing, NEW p \in Proc, GcStep(p)
    PROVE  Typing'
<1> FilesOK /\ LocalOK
  BY DEF Typing
<1>0. /\ JobFits("gc_roots", job[p]) /\ JobFits("gc_sweep", job[p])
      /\ {"gc_roots", "gc_sweep"} \subseteq PC
  BY DEF JobFits, AppPC, StorePC, MetaPC, PC
<1>1. ASSUME NEW a \in App, GcReadLink(p, a) PROVE Typing'
  <2>1. FilesOK'
    BY <1>1 DEF GcReadLink, FilesOK, layers, apps, roots
  <2> DEFINE s == [links |-> scan[p].links \ {a},
                   reach |-> scan[p].reach \cup ({root[a]} \ {None}),
                   dirs  |-> {}]
  <2>2. scan' \in [Proc -> Scans]
    <3>0. {root[a]} \ {None} \subseteq Digest
      BY DEF FilesOK
    <3>1. s \in Scans
      BY <3>0 DEF LocalOK, Scans
    <3>2. scan' = [scan EXCEPT ![p] = s]
      BY <1>1 DEF GcReadLink
    <3> HIDE DEF s
    <3> QED
      BY <3>1, <3>2 DEF LocalOK
  <2>3. LocalOK'
    BY <1>0, <1>1, <2>2 DEF GcReadLink, LocalOK, roots
  <2> QED
    BY <2>1, <2>3 DEF Typing
<1>2. CASE GcListLayers(p)
  <2>1. FilesOK'
    BY <1>2 DEF GcListLayers, FilesOK, layers, apps, roots
  <2>2. scan' \in [Proc -> Scans]
    BY <1>2 DEF GcListLayers, LocalOK, Scans
  <2>3. LocalOK'
    BY <1>0, <1>2, <2>2, Steps DEF GcListLayers, Goto, LocalOK, roots
  <2> QED
    BY <2>1, <2>3 DEF Typing
<1>3. ASSUME NEW d \in Digest, GcKeep(p, d) PROVE Typing'
  <2>1. FilesOK'
    BY <1>3 DEF GcKeep, FilesOK, layers, apps, roots
  <2>2. scan' \in [Proc -> Scans]
    BY <1>3 DEF GcKeep, LocalOK, Scans
  <2>3. LocalOK'
    BY <1>3, <2>2 DEF GcKeep, LocalOK, roots
  <2> QED
    BY <2>1, <2>3 DEF Typing
<1>4. ASSUME NEW d \in Digest, NEW left \in Image, GcDelete(p, d, left)
      PROVE Typing'
  <2>1. FilesOK'
    BY <1>4 DEF GcDelete, FilesOK, apps, roots
  <2>2. scan' \in [Proc -> Scans] /\ linked' \in [Proc -> BOOLEAN]
    BY <1>4 DEF GcDelete, LocalOK, Scans
  <2>3. LocalOK'
    BY <1>4, <2>2 DEF GcDelete, LocalOK, roots
  <2> QED
    BY <2>1, <2>3 DEF Typing
<1>5. CASE GcEnd(p)
  <2>1. FilesOK'
    BY <1>5 DEF GcEnd, FilesOK, layers, apps
  <2>2. LocalOK'
    BY <1>5, Leaves DEF GcEnd, Exit, LocalOK
  <2> QED
    BY <2>1, <2>2 DEF Typing
<1> QED
  BY <1>1, <1>2, <1>3, <1>4, <1>5 DEF GcStep

LEMMA CrashTyping ==
    ASSUME Typing, NEW p \in Proc, Crash(p)
    PROVE  Typing'
<1>1. FilesOK'
  BY BoundAssumption DEF Typing, Crash, FilesOK
<1>2. LocalOK'
  BY Leaves DEF Typing, Crash, LocalOK
<1> QED
  BY <1>1, <1>2 DEF Typing

LEMMA TypingStep == Typing /\ [Next]_vars => Typing'
<1> SUFFICES ASSUME Typing, [Next]_vars PROVE Typing'
  OBVIOUS
<1>1. CASE Next
  BY <1>1, BeginTyping, StoreTyping, AppTyping, GcTyping, CrashTyping DEF Next
<1>2. CASE UNCHANGED vars
  BY <1>2 DEF vars, layers, apps, roots, local, Typing, FilesOK, LocalOK
<1> QED
  BY <1>1, <1>2

\* The store and the processes stay well typed, and every program point
\* finds in its job what the code before it has put there.
THEOREM TypeCorrect == Spec => []Typing /\ []TypeOK
BY TypingStep, InitTyping, TypingTypes, PTL DEF Spec

-----------------------------------------------------------------------------
(* The garbage collector.                                                  *)

(* A root that nobody touched since the scan began still exists, and it is *)
(* either still to be read or already counted among the reachable layers;  *)
(* once the sweep has begun nothing is left to be read.                    *)
ScanOK(p) ==
    /\ pc[p] \in {"gc_roots", "gc_sweep"} =>
          \A a \in steady[p] : /\ root[a] # None
                               /\ a \in scan[p].links \/ root[a] \in scan[p].reach
    /\ pc[p] = "gc_sweep" => scan[p].links = {}
ScanInv == \A p \in Proc : ScanOK(p)

\* A step that leaves the collections and the roots alone keeps ScanInv: the
\* process that takes it does not start to collect, and forgets at most.
LEMMA ScanFrame ==
    ASSUME LocalOK, ScanInv, NEW p \in Proc, NEW l,
           l \notin {"gc_roots", "gc_sweep"}, Goto(p, l),
           UNCHANGED roots, \A q \in Proc \ {p} : scan'[q] = scan[q]
    PROVE  ScanInv'
<1>1. ASSUME NEW q \in Proc PROVE ScanOK(q)'
  <2>1. CASE q = p
    BY <2>1 DEF ScanOK, Goto, LocalOK
  <2>2. CASE q # p
    BY <2>2 DEF ScanInv, ScanOK, Goto, LocalOK, roots
  <2> QED
    BY <2>1, <2>2
<1> QED
  BY <1>1 DEF ScanInv

\* The same for a process that ends or dies, whose own scan is forgotten.
LEMMA ScanLeave ==
    ASSUME LocalOK, ScanInv, NEW p \in Proc, Leave(p), UNCHANGED root,
           \A q \in Proc \ {p} : steady'[q] = steady[q]
    PROVE  ScanInv'
<1>1. ASSUME NEW q \in Proc PROVE ScanOK(q)'
  <2>1. CASE q = p
    BY <2>1 DEF ScanOK, Leave, Goto, LocalOK
  <2>2. CASE q # p
    BY <2>2 DEF ScanInv, ScanOK, Leave, Goto, LocalOK
  <2> QED
    BY <2>1, <2>2
<1> QED
  BY <1>1 DEF ScanInv

LEMMA ScanBegin ==
    ASSUME Typing, ScanInv, NEW p \in Proc, Begin(p)
    PROVE  ScanInv'
<1> LocalOK
  BY DEF Typing
<1>1. ASSUME ~Gc(p) PROVE ScanInv'
  <2>1. \E l \in {"layer", "plan", "open_meta", "remove"} : Goto(p, l)
    BY <1>1 DEF Begin, Install, Mount, ReadMeta, Edit, Remove, Start
  <2>2. UNCHANGED roots /\ scan' = scan
    BY <1>1 DEF Begin, Install, Mount, ReadMeta, Edit, Remove, Start
  <2> QED
    BY <2>1, <2>2, ScanFrame
<1>2. CASE Gc(p)
  <2>1. ASSUME NEW q \in Proc PROVE ScanOK(q)'
    <3>1. CASE q = p
      BY <1>2, <3>1 DEF Gc, ScanOK, Goto, LocalOK
    <3>2. CASE q # p
      BY <1>2, <3>2 DEF Gc, ScanInv, ScanOK, Goto, LocalOK
    <3> QED
      BY <3>1, <3>2
  <2> QED
    BY <2>1 DEF ScanInv
<1> QED
  BY <1>1, <1>2

LEMMA ScanStore ==
    ASSUME Typing, ScanInv, NEW p \in Proc, StoreStep(p)
    PROVE  ScanInv'
<1> LocalOK
  BY DEF Typing
<1>1. UNCHANGED roots
  BY DEF StoreStep, Plan, NothingNew, SkipLayer, FetchFails, LayersDone,
     FetchLayer, CreateImage, CreateFails, WriteImage, WriteFails
<1>2. \/ Leave(p)
      \/ /\ scan' = scan
         /\ \E l \in {"layer", "create", "write_image", "app_dir",
                      "check_top"} : Goto(p, l)
  BY DEF StoreStep, Plan, NothingNew, SkipLayer, FetchFails, LayersDone,
     FetchLayer, CreateImage, CreateFails, WriteImage, WriteFails, Exit, Step,
     At, AfterLayers, Goto, LocalOK
<1> QED
  BY <1>1, <1>2, ScanFrame, ScanLeave DEF roots

LEMMA ScanApp ==
    ASSUME Typing, ScanInv, NEW p \in Proc, AppStep(p)
    PROVE  ScanInv'
<1> LocalOK
  BY DEF Typing
<1> USE DEF Exit, Step, Fails, At, AfterMeta, AfterRoot
<1>1. CASE UnlinkRoot(p)
  <2>1. ASSUME NEW q \in Proc PROVE ScanOK(q)'
    <3>1. CASE q = p
      BY <1>1, <3>1 DEF UnlinkRoot, ScanOK, Goto, LocalOK
    <3>2. CASE q # p
      <4>1. /\ pc'[q] = pc[q] /\ scan'[q] = scan[q]
            /\ steady'[q] = steady[q] \ {job[p].app}
            /\ \A a \in steady'[q] : root'[a] = root[a]
        BY <1>1, <3>2 DEF UnlinkRoot, Goto, LocalOK, Typing, FilesOK
      <4> QED
        BY <4>1 DEF ScanInv, ScanOK
    <3> QED
      BY <3>1, <3>2
  <2> QED
    BY <2>1 DEF ScanInv
<1>2. CASE LinkRoot(p)
  <2>1. ASSUME NEW q \in Proc PROVE ScanOK(q)'
    <3>1. CASE q = p
      BY <1>2, <3>1 DEF LinkRoot, ScanOK, Leave, Goto, LocalOK
    <3>2. CASE q # p
      <4>1. /\ pc'[q] = pc[q] /\ scan'[q] = scan[q] /\ steady'[q] = steady[q]
        BY <1>2, <3>2 DEF LinkRoot, Leave, Goto, LocalOK
      <4>2. ASSUME NEW a \in steady[q], pc[q] \in {"gc_roots", "gc_sweep"}
            PROVE  root'[a] = root[a]
        BY <1>2, <4>2 DEF LinkRoot, ScanInv, ScanOK, LocalOK, Typing, FilesOK
      <4> QED
        BY <4>1, <4>2 DEF ScanInv, ScanOK
    <3> QED
      BY <3>1, <3>2
  <2> QED
    BY <2>1 DEF ScanInv
<1>3. ASSUME ~UnlinkRoot(p), ~LinkRoot(p) PROVE ScanInv'
  <2>1. UNCHANGED roots
    BY <1>3 DEF AppStep, MakeAppDir, OpenMeta, OpenMetaFails, WriteMeta,
       UnlinkCurrent, LinkCurrent, LinkCurrentFails, CheckTop, UnlinkTmp,
       LinkTmp, LinkTmpFails, RenameTmp, RenameFails, LinkRootFails,
       RemoveEntry, RemoveDir
  <2>2. \/ Leave(p)
        \/ scan' = scan /\ \E l \in MetaPC \cup {"remove"} : Goto(p, l)
    BY <1>3 DEF AppStep, MakeAppDir, OpenMeta, OpenMetaFails, WriteMeta,
       UnlinkCurrent, LinkCurrent, LinkCurrentFails, CheckTop, UnlinkTmp,
       LinkTmp, LinkTmpFails, RenameTmp, RenameFails, LinkRootFails,
       RemoveEntry, RemoveDir, MetaPC, Goto, LocalOK
  <2> QED
    BY <2>1, <2>2, ScanFrame, ScanLeave DEF roots, MetaPC
<1> QED
  BY <1>1, <1>2, <1>3

LEMMA ScanGc ==
    ASSUME Typing, ScanInv, NEW p \in Proc, GcStep(p)
    PROVE  ScanInv'
<1> LocalOK
  BY DEF Typing
<1>1. CASE GcEnd(p)
  BY <1>1, ScanLeave DEF GcEnd, Exit, LocalOK
<1>2. ASSUME ~GcEnd(p), NEW q \in Proc PROVE ScanOK(q)'
  <2>1. root' = root /\ steady' = steady
    BY <1>2 DEF GcStep, GcReadLink, GcListLayers, GcKeep, GcDelete, roots
  <2>2. CASE q # p
    <3>1. pc'[q] = pc[q] /\ scan'[q] = scan[q]
      BY <1>2, <2>2 DEF GcStep, GcReadLink, GcListLayers, GcKeep, GcDelete,
         Goto, LocalOK
    <3> QED
      BY <2>1, <3>1 DEF ScanInv, ScanOK
  <2>3. CASE q = p
    <3>1. ASSUME NEW a \in App, GcReadLink(p, a) PROVE ScanOK(p)'
      <4>1. /\ pc'[p] = "gc_roots" /\ pc[p] = "gc_roots"
            /\ scan'[p].links = scan[p].links \ {a}
            /\ scan'[p].reach = scan[p].reach \cup ({root[a]} \ {None})
        BY <3>1 DEF GcReadLink, LocalOK
      <4> QED
        BY <2>1, <4>1 DEF ScanInv, ScanOK
    <3>2. ASSUME GcListLayers(p) PROVE ScanOK(p)'
      <4>1. /\ pc'[p] = "gc_sweep" /\ pc[p] = "gc_roots"
            /\ scan[p].links = {} /\ scan'[p].links = scan[p].links
            /\ scan'[p].reach = scan[p].reach
        BY <3>2 DEF GcListLayers, Goto, LocalOK, Scans
      <4>2. \A a \in steady[p] : root[a] # None /\ root[a] \in scan[p].reach
        BY <4>1 DEF ScanInv, ScanOK
      <4> QED
        BY <2>1, <4>1, <4>2 DEF ScanOK
    <3>3. ASSUME NEW d \in Digest, NEW left \in Image,
                 GcKeep(p, d) \/ GcDelete(p, d, left)
          PROVE  ScanOK(p)'
      <4>1. /\ pc'[p] = pc[p] /\ scan'[p].links = scan[p].links
            /\ scan'[p].reach = scan[p].reach
        BY <3>3 DEF GcKeep, GcDelete, LocalOK, Scans
      <4> QED
        BY <2>1, <4>1 DEF ScanInv, ScanOK
    <3>4. ScanOK(p)'
      BY <1>2, <3>1, <3>2, <3>3 DEF GcStep, Image
    <3> QED
      BY <2>3, <3>4 DEF ScanOK
  <2> QED
    BY <2>2, <2>3
<1> QED
  BY <1>1, <1>2 DEF ScanInv

LEMMA ScanInvariant == Spec => []ScanInv
<1>1. Init => ScanInv
  BY DEF Init, ScanInv, ScanOK
<1>2. Typing /\ ScanInv /\ [Next]_vars => ScanInv'
  <2> SUFFICES ASSUME Typing, ScanInv, [Next]_vars PROVE ScanInv'
    OBVIOUS
  <2>1. ASSUME NEW p \in Proc, Crash(p) PROVE ScanInv'
    BY <2>1, ScanLeave DEF Crash, Typing, LocalOK
  <2>2. CASE UNCHANGED vars
    BY <2>2 DEF vars, roots, local, ScanInv, ScanOK
  <2> QED
    BY <2>1, <2>2, ScanBegin, ScanStore, ScanApp, ScanGc DEF Next
<1> QED
  BY <1>1, <1>2, TypeCorrect, PTL DEF Spec

\* A step takes a stored image away only in GcDelete: no writer, updater or
\* installer does.
LEMMA OnlyGcDeletes ==
    ASSUME Typing, [Next]_vars, NEW d \in Digest, HasLayer(d), ~HasLayer(d)'
    PROVE  \E p \in Proc, left \in Image : GcDelete(p, d, left)
<1>1. image'[d] \in {"none", "dir"} /\ image[d] \notin {"none", "dir"}
  BY DEF HasLayer
<1>2. PICK p \in Proc : Begin(p) \/ StoreStep(p) \/ AppStep(p) \/ GcStep(p)
                           \/ Crash(p)
  BY <1>1 DEF Next, vars, layers
<1>3. ~Begin(p)
  BY <1>1 DEF Begin, Install, Mount, ReadMeta, Edit, Remove, Gc, layers
<1>4. ~AppStep(p)
  BY <1>1 DEF AppStep, MakeAppDir, OpenMeta, OpenMetaFails, WriteMeta,
     UnlinkCurrent, LinkCurrent, LinkCurrentFails, CheckTop, UnlinkTmp,
     LinkTmp, LinkTmpFails, RenameTmp, RenameFails, UnlinkRoot, LinkRoot,
     LinkRootFails, RemoveEntry, RemoveDir, layers
<1>5. ~StoreStep(p)
  <2>1. image \in [Digest -> Image]
    BY DEF Typing, FilesOK
  <2>2. ASSUME NEW data \in {"whole", "wrong"} PROVE ~FetchLayer(p, data)
    BY <1>1, <2>1 DEF FetchLayer
  <2>3. ~CreateImage(p)
    BY <1>1, <2>1 DEF CreateImage
  <2>4. ~WriteImage(p)
    <3>1. WriteImage(p) => job[p].data \in {"whole", "wrong"}
      BY DEF WriteImage, Typing, LocalOK, JobFits
    <3> QED
      BY <1>1, <2>1, <3>1 DEF WriteImage
  <2>5. ~(\/ \E r \in Release : Plan(p, r)
          \/ NothingNew(p) \/ SkipLayer(p) \/ FetchFails(p) \/ LayersDone(p)
          \/ CreateFails(p) \/ WriteFails(p))
    BY <1>1 DEF Plan, NothingNew, SkipLayer, FetchFails, LayersDone,
       CreateFails, WriteFails, layers
  <2> QED
    BY <2>2, <2>3, <2>4, <2>5 DEF StoreStep
<1>6. ~Crash(p)
  BY <1>1 DEF Crash
<1>7. GcStep(p)
  BY <1>2, <1>3, <1>4, <1>5, <1>6
<1>8. PICK e \in Digest, left \in Image : GcDelete(p, e, left)
  BY <1>1, <1>7 DEF GcStep, GcReadLink, GcListLayers, GcKeep, GcEnd, layers
<1>9. e = d
  BY <1>1, <1>8 DEF GcDelete, Typing, FilesOK
<1> QED
  BY <1>8, <1>9

\* Store::gc never takes away the image a root names that was there,
\* untouched, since its scan began, with any number of installs, updates,
\* removals and other collections at work at the same time.
THEOREM GcSafe == Spec => GcSparesSteadyRoots
<1>1. ASSUME Typing, ScanInv, [Next]_vars, NEW d \in Digest,
             HasLayer(d), ~HasLayer(d)'
      PROVE  \E p \in Proc : /\ pc[p] = "gc_sweep"
                             /\ \A a \in steady[p] : root[a] # d
  <2>1. PICK p \in Proc, left \in Image : GcDelete(p, d, left)
    BY <1>1, OnlyGcDeletes
  <2>2. pc[p] = "gc_sweep" /\ d \notin scan[p].reach
    BY <2>1 DEF GcDelete
  <2>3. \A a \in steady[p] : root[a] \in scan[p].reach
    BY <1>1, <2>2 DEF ScanInv, ScanOK
  <2> QED
    BY <2>2, <2>3
<1>2. Typing /\ ScanInv /\ [Next]_vars =>
        [\A d \in Digest :
            HasLayer(d) /\ ~HasLayer(d)' =>
               \E p \in Proc : /\ pc[p] = "gc_sweep"
                               /\ \A a \in steady[p] : root[a] # d]_vars
  BY <1>1
<1> QED
  BY <1>2, TypeCorrect, ScanInvariant, PTL DEF Spec, GcSparesSteadyRoots

-----------------------------------------------------------------------------
(* The links and the headers.                                              *)

\* The layers that were stored and that at most gc has taken away since.
Stored == {d \in Digest : HasLayer(d) \/ d \in swept}
AllLayers(r) == {LayersOf[r][i] : i \in 1..Len(LayersOf[r])}

\* No process runs the background update checker.
NoChecker == \A p \in Proc : "refresh" \notin May[p]

(* What a process at l with job j has seen in the set S of stored layers:  *)
(* before a link is made, the layer it will name; in the loop of a         *)
(* command, the layers up to its index; at the header, every layer of the  *)
(* release, except where a failed prefetch, or an edit of the header it    *)
(* left behind, breaks that.                                               *)
LinkPC == {"unlink_current", "link_current", "unlink_tmp", "link_tmp",
           "rename", "unlink_root", "link_root"}
Careful(j) == j.op # "refresh" /\ (j.op = "edit" => NoChecker)
Seen(l, j, S) ==
    /\ j.op = "refresh" => ~NoChecker
    /\ l \in LinkPC => Top(j.rel) \in S
    /\ l \in MetaPC /\ Careful(j) => AllLayers(j.rel) \subseteq S
    /\ l \in StorePC /\ j.op # "refresh" =>
          \A i \in 1..Len(LayersOf[j.rel]) : i < j.at => LayersOf[j.rel][i] \in S
    /\ l \in StorePC /\ j.op \notin {"install", "mount"} =>
          Digest \ j.need \subseteq S
    /\ l = "write_image" => LayersOf[j.rel][j.at] \in S
SeenInv == \A p \in Proc : Seen(pc[p], job[p], Stored)

LinksIn(S) ==
    \A a \in App : {current[a], tmp[a], root[a]} \ {None} \subseteq S
HeadersIn(S) ==
    NoChecker => \A a \in App :
                    meta[a] \in Header => AllLayers(meta[a].rel) \subseteq S

LinkInv == LinksIn(Stored) /\ HeadersIn(Stored) /\ SeenInv

LEMMA SeenGrows ==
    ASSUME NEW l, NEW j, NEW S, NEW T, S \subseteq T, Seen(l, j, S)
    PROVE  Seen(l, j, T)
BY DEF Seen

\* Once a layer was stored it stays so, or gc has taken it.
LEMMA StoredGrows ==
    ASSUME Typing, [Next]_vars
    PROVE  Stored \subseteq Stored'
<1> SUFFICES ASSUME NEW d \in Digest, HasLayer(d) \/ d \in swept
             PROVE  HasLayer(d)' \/ d \in swept'
  BY DEF Stored
<1>1. CASE HasLayer(d)
  <2> SUFFICES ASSUME ~HasLayer(d)' PROVE d \in swept'
    OBVIOUS
  <2>1. PICK p \in Proc, left \in Image : GcDelete(p, d, left)
    BY <1>1, OnlyGcDeletes
  <2>2. image'[d] = left /\ image'[d] \in {"none", "dir"}
    BY <1>1, <2>1 DEF GcDelete, HasLayer, Typing, FilesOK
  <2> QED
    BY <2>1, <2>2 DEF GcDelete
<1>2. CASE ~HasLayer(d)
  <2> SUFFICES ASSUME ~HasLayer(d)' PROVE d \in swept'
    OBVIOUS
  <2>0. d \in swept
    BY <1>2
  <2>1. CASE UNCHANGED vars
    BY <2>0, <2>1 DEF vars, layers
  <2>2. ASSUME NEW p \in Proc, Begin(p) PROVE d \in swept'
    BY <2>0, <2>2 DEF Begin, Install, Mount, ReadMeta, Edit, Remove, Gc, layers
  <2>3. ASSUME NEW p \in Proc, StoreStep(p) PROVE d \in swept'
    <3>1. CASE CreateImage(p)
      <4>1. image'[Layer(p)] = "torn"
        BY <3>1, LayerTyped DEF CreateImage, Typing, FilesOK
      <4>2. d # Layer(p)
        BY <4>1 DEF HasLayer
      <4> QED
        BY <2>0, <3>1, <4>2 DEF CreateImage
    <3>2. CASE ~CreateImage(p)
      BY <2>0, <2>3, <3>2 DEF StoreStep, Plan, NothingNew, SkipLayer,
         FetchFails, LayersDone, FetchLayer, CreateFails, WriteImage,
         WriteFails, layers
    <3> QED
      BY <3>1, <3>2
  <2>4. ASSUME NEW p \in Proc, AppStep(p) PROVE d \in swept'
    BY <2>0, <2>4 DEF AppStep, MakeAppDir, OpenMeta, OpenMetaFails, WriteMeta,
       UnlinkCurrent, LinkCurrent, LinkCurrentFails, CheckTop, UnlinkTmp,
       LinkTmp, LinkTmpFails, RenameTmp, RenameFails, UnlinkRoot, LinkRoot,
       LinkRootFails, RemoveEntry, RemoveDir, layers
  <2>5. ASSUME NEW p \in Proc, GcStep(p) PROVE d \in swept'
    BY <2>0, <2>5 DEF GcStep, GcReadLink, GcListLayers, GcKeep, GcDelete,
       GcEnd, layers
  <2>6. ASSUME NEW p \in Proc, Crash(p) PROVE d \in swept'
    BY <2>0, <2>6 DEF Crash
  <2> QED
    BY <2>1, <2>2, <2>3, <2>4, <2>5, <2>6 DEF Next
<1> QED
  BY <1>1, <1>2

\* It is enough that the process taking the step has seen what its new
\* place asks for.
LEMMA SeenMoves ==
    ASSUME Typing, [Next]_vars, SeenInv, NEW p \in Proc,
           Seen(pc'[p], job'[p], Stored'),
           \A q \in Proc \ {p} : pc'[q] = pc[q] /\ job'[q] = job[q]
    PROVE  SeenInv'
<1>1. ASSUME NEW q \in Proc PROVE Seen(pc'[q], job'[q], Stored')
  <2>1. CASE q = p
    BY <2>1
  <2>2. CASE q # p
    BY <2>2, SeenGrows, StoredGrows DEF SeenInv
  <2> QED
    BY <2>1, <2>2
<1> QED
  BY <1>1 DEF SeenInv

\* The links are as good as before when no step writes them, and so are the
\* headers.
LEMMA LinksFrame ==
    ASSUME Typing, [Next]_vars, LinksIn(Stored), UNCHANGED <<current, tmp, root>>
    PROVE  LinksIn(Stored)'
BY StoredGrows DEF LinksIn

LEMMA HeadersFrame ==
    ASSUME Typing, [Next]_vars, HeadersIn(Stored), UNCHANGED meta
    PROVE  HeadersIn(Stored)'
BY StoredGrows DEF HeadersIn

\* A process that ends has nothing left to have seen.
LEMMA SeenLeave ==
    ASSUME Typing, [Next]_vars, SeenInv, NEW p \in Proc, Leave(p)
    PROVE  SeenInv'
<1>1. pc'[p] = "idle" /\ job'[p] = NoJob
  BY DEF Leave, Goto, Typing, LocalOK
<1>2. Seen("idle", NoJob, Stored')
  BY DEF Seen, NoJob, LinkPC, MetaPC, StorePC
<1>3. \A q \in Proc \ {p} : pc'[q] = pc[q] /\ job'[q] = job[q]
  BY DEF Leave, Goto, Typing, LocalOK
<1> QED
  BY <1>1, <1>2, <1>3, SeenMoves

LEMMA LinkBegin ==
    ASSUME Typing, LinkInv, [Next]_vars, NEW p \in Proc, Begin(p)
    PROVE  LinkInv'
<1> Typing /\ LocalOK /\ LinksIn(Stored) /\ HeadersIn(Stored) /\ SeenInv
  BY DEF LinkInv, Typing
<1>1. UNCHANGED <<current, tmp, root, meta>>
  BY DEF Begin, Install, Mount, ReadMeta, Edit, Remove, Gc, apps, roots
<1>2. \A q \in Proc \ {p} : pc'[q] = pc[q] /\ job'[q] = job[q]
  BY DEF Begin, Install, Mount, ReadMeta, Edit, Remove, Gc, Start, Goto, LocalOK
<1>3. Seen(pc'[p], job'[p], Stored')
  <2>1. ASSUME NEW r \in Release, Install(p, r) \/ Mount(p, r)
        PROVE  Seen(pc'[p], job'[p], Stored')
    <3>1. /\ pc'[p] = "layer" /\ job'[p].op \in {"install", "mount"}
          /\ job'[p].rel = r /\ job'[p].at = 1
      BY <2>1 DEF Install, Mount, Start, Goto, NoJob, LocalOK
    <3> QED
      BY <3>1, LayersTyped DEF Seen, LinkPC, MetaPC
  <2>2. ASSUME NEW a \in App, NEW op \in Command, ReadMeta(p, op, a)
        PROVE  Seen(pc'[p], job'[p], Stored')
    <3>1. pc'[p] = "plan" /\ job'[p].op = op /\ op \in May[p]
      BY <2>2 DEF ReadMeta, Start, Goto, NoJob, LocalOK
    <3> QED
      BY <3>1 DEF Seen, LinkPC, MetaPC, StorePC, NoChecker
  <2>3. ASSUME NEW a \in App, NEW perm \in Perm, Edit(p, a, perm)
        PROVE  Seen(pc'[p], job'[p], Stored')
    <3>1. /\ pc'[p] = "open_meta" /\ job'[p].op = "edit"
          /\ job'[p].rel = meta[a].rel /\ meta[a] \in Header
      BY <2>3 DEF Edit, Start, Goto, NoJob, LocalOK
    <3>2. NoChecker => AllLayers(job'[p].rel) \subseteq Stored'
      BY <3>1, StoredGrows DEF HeadersIn
    <3> QED
      BY <3>1, <3>2 DEF Seen, LinkPC, StorePC, Careful
  <2>4. ASSUME NEW a \in App, Remove(p, a)
        PROVE  Seen(pc'[p], job'[p], Stored')
    <3>1. pc'[p] = "remove" /\ job'[p].op = "remove"
      BY <2>4 DEF Remove, Start, Goto, NoJob, LocalOK
    <3> QED
      BY <3>1 DEF Seen, LinkPC, MetaPC, StorePC
  <2>5. CASE Gc(p)
    <3>1. pc'[p] = "gc_roots" /\ job'[p] = job[p]
      BY <2>5 DEF Gc, Goto, LocalOK
    <3> QED
      BY <3>1 DEF Seen, SeenInv, LinkPC, MetaPC, StorePC
  <2> QED
    BY <2>1, <2>2, <2>3, <2>4, <2>5 DEF Begin
<1> QED
  BY <1>1, <1>2, <1>3, LinksFrame, HeadersFrame, SeenMoves DEF LinkInv

LEMMA LinkStore ==
    ASSUME Typing, LinkInv, [Next]_vars, NEW p \in Proc, StoreStep(p)
    PROVE  LinkInv'
<1> /\ Typing /\ FilesOK /\ LocalOK
    /\ LinksIn(Stored) /\ HeadersIn(Stored) /\ SeenInv
  BY DEF LinkInv, Typing
<1> DEFINE r == job[p].rel
           Good == Seen(pc'[p], job'[p], Stored')
<1>0. Seen(pc[p], job[p], Stored) /\ Stored \subseteq Stored'
  BY StoredGrows DEF SeenInv
<1>1. UNCHANGED <<current, tmp, root, meta>>
  BY DEF StoreStep, Plan, NothingNew, SkipLayer, FetchFails, LayersDone,
     FetchLayer, CreateImage, CreateFails, WriteImage, WriteFails, apps, roots
<1>2. \A q \in Proc \ {p} : pc'[q] = pc[q] /\ job'[q] = job[q]
  BY DEF StoreStep, Plan, NothingNew, SkipLayer, FetchFails, LayersDone,
     FetchLayer, CreateImage, CreateFails, WriteImage, WriteFails, Exit, Step,
     At, Leave, Goto, Advance, LocalOK
<1>3. Leave(p) \/ Good
  <2>1. ASSUME NEW s \in Release, Plan(p, s) PROVE Good
    <3>1. /\ pc'[p] = "layer" /\ job'[p].rel = s /\ job'[p].at = 1
          /\ job'[p].op = job[p].op
          /\ job'[p].need = {d \in Digest : ~HasLayer(d)}
      BY <2>1 DEF Plan, Goto, LocalOK, Job
    <3>2. Digest \ job'[p].need \subseteq Stored
      BY <3>1 DEF Stored
    <3> QED
      BY <1>0, <3>1, <3>2, LayersTyped DEF Seen, LinkPC, MetaPC
  <2>2. CASE NothingNew(p)
    BY <2>2 DEF NothingNew, Exit
  <2>3. ASSUME pc[p] \in StorePC, pc'[p] = "layer", Advance(p),
               job[p].op # "refresh" => LayersOf[r][job[p].at] \in Stored'
        PROVE  Good
    <3>1. /\ job'[p].rel = r /\ job'[p].at = job[p].at + 1
          /\ job'[p].op = job[p].op /\ job'[p].need = job[p].need
          /\ job[p].at \in Nat /\ r \in Release
      BY <2>3 DEF Advance, LocalOK, Job, JobFits
    <3>2. ASSUME job[p].op # "refresh",
                 NEW i \in 1..Len(LayersOf[r]), i < job[p].at + 1
          PROVE  LayersOf[r][i] \in Stored'
      <4>1. i < job[p].at \/ i = job[p].at
        BY <3>1, <3>2, LayersTyped
      <4> QED
        BY <1>0, <2>3, <3>2, <4>1 DEF Seen
    <3>3. job[p].op \notin {"install", "mount"} => Digest \ job[p].need \subseteq Stored'
      BY <1>0, <2>3 DEF Seen
    <3> QED
      BY <1>0, <2>3, <3>1, <3>2, <3>3 DEF Seen, LinkPC, MetaPC
  <2>4. CASE SkipLayer(p)
    <3>1. job[p].at \in 1..Len(LayersOf[r]) /\ r \in Release
      BY <2>4, LayersTyped DEF SkipLayer, LastLayer, LocalOK, JobFits, StorePC, Job
    <3>2. Layer(p) \in Digest /\ Layer(p) = LayersOf[r][job[p].at]
      BY <3>1, LayersTyped DEF Layer
    <3>3. Layer(p) \in Stored
      BY <1>0, <2>4, <3>2 DEF SkipLayer, Skips, Seen, Stored, StorePC
    <3> QED
      BY <1>0, <2>3, <2>4, <3>2, <3>3 DEF SkipLayer, StorePC
  <2>5. CASE FetchFails(p) \/ CreateFails(p) \/ WriteFails(p)
    <3>1. CASE job[p].op = "refresh"
      <4>1. pc[p] \in StorePC /\ pc'[p] = "layer" /\ Advance(p)
        BY <2>5, <3>1 DEF FetchFails, CreateFails, WriteFails, Goto, StorePC, LocalOK
      <4> QED
        BY <2>3, <3>1, <4>1
    <3>2. CASE job[p].op # "refresh"
      BY <2>5, <3>2 DEF FetchFails, CreateFails, WriteFails
    <3> QED
      BY <3>1, <3>2
  <2>6. CASE LayersDone(p)
    <3>1. Leave(p) \/ At(p, "layer", AfterLayers(p))
      BY <2>6 DEF LayersDone, Step, Exit
    <3>2. ASSUME At(p, "layer", AfterLayers(p)) PROVE Good
      <4>1. pc[p] = "layer" /\ pc'[p] = AfterLayers(p) /\ job'[p] = job[p]
            /\ job[p].at > Len(LayersOf[r]) /\ job[p].at \in Nat /\ r \in Release
        BY <2>6, <3>2 DEF LayersDone, LastLayer, At, Goto, LocalOK, Job,
           JobFits, StorePC
      <4>2. AfterLayers(p) \in {"app_dir", "idle", "check_top"}
        BY DEF AfterLayers
      <4>3. job[p].op # "refresh" => AllLayers(r) \subseteq Stored'
        BY <1>0, <4>1, LayersTyped DEF Seen, AllLayers, StorePC
      <4> QED
        BY <1>0, <4>1, <4>2, <4>3 DEF Seen, LinkPC, StorePC, Careful
    <3> QED
      BY <3>1, <3>2
  <2>7. ASSUME NEW data \in {"whole", "wrong"}, FetchLayer(p, data) PROVE Good
    <3>1. /\ pc[p] = "layer" /\ pc'[p] = "create" /\ job'[p].rel = r
          /\ job'[p].at = job[p].at /\ job'[p].op = job[p].op
          /\ job'[p].need = job[p].need
      BY <2>7 DEF FetchLayer, Goto, LocalOK, Job
    <3> QED
      BY <1>0, <3>1 DEF Seen, LinkPC, MetaPC, StorePC
  <2>8. CASE CreateImage(p)
    <3>1. pc[p] = "create" /\ pc'[p] = "write_image" /\ job'[p] = job[p]
      BY <2>8 DEF CreateImage, Goto, LocalOK
    <3>2. Layer(p) \in Stored'
      BY <2>8, <3>1, LayerTyped DEF CreateImage, Stored, HasLayer, FilesOK
    <3> QED
      BY <1>0, <3>1, <3>2 DEF Seen, LinkPC, MetaPC, StorePC, Layer
  <2>9. CASE WriteImage(p)
    BY <1>0, <2>3, <2>9 DEF WriteImage, Goto, StorePC, LocalOK, Seen
  <2> QED
    BY <2>1, <2>2, <2>4, <2>5, <2>6, <2>7, <2>8, <2>9 DEF StoreStep
<1> QED
  BY <1>1, <1>2, <1>3, LinksFrame, HeadersFrame, SeenMoves, SeenLeave DEF LinkInv

\* Between the steps of the links nothing new has to be seen.
LEMMA SeenMeta ==
    ASSUME Typing, [Next]_vars, SeenInv, NEW p \in Proc, NEW l \in MetaPC,
           pc[p] \in MetaPC, Goto(p, l), UNCHANGED job,
           l \in LinkPC => Top(job[p].rel) \in Stored'
    PROVE  SeenInv'
<1>1. pc'[p] = l /\ \A q \in Proc \ {p} : pc'[q] = pc[q]
  BY DEF Goto, Typing, LocalOK
<1>2. Seen(pc[p], job[p], Stored) /\ Stored \subseteq Stored'
  BY StoredGrows DEF SeenInv
<1>3. Seen(l, job[p], Stored')
  BY <1>2 DEF Seen, StorePC, MetaPC
<1> QED
  BY <1>1, <1>3, SeenMoves

LEMMA LinkApp ==
    ASSUME Typing, LinkInv, [Next]_vars, NEW p \in Proc, AppStep(p)
    PROVE  LinkInv'
<1> /\ Typing /\ FilesOK /\ LocalOK
    /\ LinksIn(Stored) /\ HeadersIn(Stored) /\ SeenInv
  BY DEF LinkInv, Typing
<1> DEFINE a == job[p].app
           top == Top(job[p].rel)
<1>0. Seen(pc[p], job[p], Stored) /\ Stored \subseteq Stored'
  BY StoredGrows DEF SeenInv
<1>1. pc[p] \in LinkPC => top \in Stored /\ top \in Stored'
  BY <1>0 DEF Seen
<1>2. pc[p] \in MetaPC => /\ a \in App /\ job[p].rel \in Release
                          /\ top \in Digest
                          /\ top \in AllLayers(job[p].rel)
  <2>1. ASSUME pc[p] \in MetaPC PROVE a \in App /\ job[p].rel \in Release
    BY <2>1 DEF LocalOK, JobFits, AppPC
  <2> QED
    BY <2>1, LayersTyped DEF AllLayers, Top
<1>3. CASE MakeAppDir(p) \/ OpenMeta(p)
  <2>1. SeenInv'
    BY <1>3, SeenMeta DEF MakeAppDir, OpenMeta, At, MetaPC, LinkPC
  <2>2. LinksIn(Stored)'
    BY <1>3, LinksFrame DEF MakeAppDir, OpenMeta, roots
  <2>3. \A b \in App : meta'[b] \in Header => meta[b] = meta'[b]
    BY <1>3, SentinelAssumption DEF MakeAppDir, OpenMeta, FilesOK, Header
  <2>4. HeadersIn(Stored)'
    BY <1>0, <2>3 DEF HeadersIn
  <2> QED
    BY <2>1, <2>2, <2>4 DEF LinkInv
<1>4. CASE WriteMeta(p)
  <2>1. LinksIn(Stored)'
    BY <1>4, LinksFrame DEF WriteMeta, roots
  <2>2. pc[p] = "write_meta" /\ pc[p] \in MetaPC
    BY <1>4 DEF WriteMeta, MetaPC
  <2>3. NoChecker => AllLayers(job[p].rel) \subseteq Stored'
    BY <1>0, <2>2 DEF Seen, Careful
  <2>4. ASSUME NEW b \in App, meta'[b] \in Header, NoChecker
        PROVE  AllLayers(meta'[b].rel) \subseteq Stored'
    <3>1. meta'[b] = meta[b] \/ meta'[b].rel = job[p].rel
      BY <1>4 DEF WriteMeta, FilesOK
    <3> QED
      BY <1>0, <2>3, <2>4, <3>1 DEF HeadersIn
  <2>5. HeadersIn(Stored)'
    BY <2>4 DEF HeadersIn
  <2>6. Leave(p) => SeenInv'
    BY SeenLeave
  <2>7. ASSUME ~Leave(p) PROVE SeenInv'
    <3>1. Goto(p, "unlink_current") /\ UNCHANGED job /\ job[p].op = "install"
      BY <1>4, <2>7 DEF WriteMeta, AfterMeta
    <3>2. top \in Stored'
      BY <1>0, <1>2, <2>2, <3>1 DEF Seen, Careful
    <3> QED
      BY <2>2, <3>1, <3>2, SeenMeta DEF MetaPC
  <2> QED
    BY <2>1, <2>5, <2>6, <2>7 DEF LinkInv
<1>5. CASE \/ UnlinkCurrent(p) \/ UnlinkTmp(p) \/ UnlinkRoot(p)
           \/ LinkCurrent(p) \/ LinkTmp(p) \/ RenameTmp(p)
  <2>1. pc[p] \in MetaPC /\ pc[p] \in LinkPC
    BY <1>5 DEF UnlinkCurrent, UnlinkTmp, UnlinkRoot, LinkCurrent, LinkTmp,
       RenameTmp, At, MetaPC, LinkPC
  <2>2. SeenInv'
    BY <1>1, <1>5, <2>1, SeenMeta DEF UnlinkCurrent, UnlinkTmp, UnlinkRoot,
       LinkCurrent, LinkTmp, RenameTmp, At, MetaPC
  <2>3. HeadersIn(Stored)'
    BY <1>5, HeadersFrame DEF UnlinkCurrent, UnlinkTmp, UnlinkRoot,
       LinkCurrent, LinkTmp, RenameTmp, apps
  <2>4. ASSUME NEW b \in App
        PROVE  /\ current'[b] \in {current[b], tmp[b], top, None}
               /\ tmp'[b] \in {tmp[b], top, None}
               /\ root'[b] \in {root[b], None}
    BY <1>5 DEF UnlinkCurrent, UnlinkTmp, UnlinkRoot, LinkCurrent, LinkTmp,
       RenameTmp, apps, roots, FilesOK
  <2>5. LinksIn(Stored)'
    BY <1>0, <1>1, <2>1, <2>4 DEF LinksIn
  <2> QED
    BY <2>2, <2>3, <2>5 DEF LinkInv
<1>6. CASE LinkRoot(p)
  <2>1. pc[p] = "link_root" /\ pc[p] \in MetaPC /\ pc[p] \in LinkPC
    BY <1>6 DEF LinkRoot, MetaPC, LinkPC
  <2>2. Leave(p) \/ (Goto(p, "open_meta") /\ UNCHANGED job)
    BY <1>6 DEF LinkRoot, Step, Exit, AfterRoot, At
  <2>3. SeenInv'
    BY <2>1, <2>2, SeenMeta, SeenLeave DEF MetaPC, LinkPC
  <2>4. HeadersIn(Stored)'
    BY <1>6, HeadersFrame DEF LinkRoot, apps
  <2>5. ASSUME NEW b \in App
        PROVE  /\ current'[b] = current[b] /\ tmp'[b] = tmp[b]
               /\ root'[b] \in {root[b], top}
    BY <1>6 DEF LinkRoot, apps, FilesOK
  <2>6. LinksIn(Stored)'
    BY <1>0, <1>1, <2>1, <2>5 DEF LinksIn
  <2> QED
    BY <2>3, <2>4, <2>6 DEF LinkInv
<1>7. CASE CheckTop(p)
  <2>1. pc[p] \in MetaPC
    BY <1>7 DEF CheckTop, At, MetaPC
  <2>2. \/ Goto(p, "unlink_tmp") /\ HasLayer(top)
        \/ Goto(p, "open_meta")
    BY <1>7 DEF CheckTop, At
  <2>3. HasLayer(top) => top \in Stored'
    BY <1>0, <1>2, <2>1 DEF Stored
  <2>4. SeenInv'
    BY <1>7, <2>1, <2>2, <2>3, SeenMeta DEF CheckTop, At, MetaPC, LinkPC
  <2> QED
    BY <1>7, <2>4, LinksFrame, HeadersFrame DEF CheckTop, LinkInv, apps, roots
<1>8. CASE \/ OpenMetaFails(p) \/ LinkCurrentFails(p) \/ LinkTmpFails(p)
           \/ RenameFails(p) \/ LinkRootFails(p) \/ RemoveDir(p)
  <2>1. \/ Leave(p)
        \/ /\ pc[p] \in LinkPC /\ pc[p] \in MetaPC /\ UNCHANGED job
           /\ \E l \in {"unlink_root", "open_meta"} : Goto(p, l)
    BY <1>8 DEF OpenMetaFails, LinkCurrentFails, LinkTmpFails, RenameFails,
       LinkRootFails, RemoveDir, Exit, Fails, At, LinkPC, MetaPC
  <2>2. SeenInv'
    BY <1>1, <2>1, SeenMeta, SeenLeave DEF MetaPC
  <2>3. UNCHANGED <<current, tmp, root, meta>>
    BY <1>8 DEF OpenMetaFails, LinkCurrentFails, LinkTmpFails, RenameFails,
       LinkRootFails, RemoveDir, apps, roots
  <2> QED
    BY <2>2, <2>3, LinksFrame, HeadersFrame DEF LinkInv
<1>9. ASSUME NEW f \in AppFile, RemoveEntry(p, f) PROVE LinkInv'
  <2>1. a \in App /\ pc[p] = "remove"
    BY <1>9 DEF RemoveEntry, LocalOK, JobFits, AppPC
  <2>2. /\ pc' = pc /\ job'[p].op = job[p].op
        /\ \A q \in Proc \ {p} : job'[q] = job[q]
    BY <1>9 DEF RemoveEntry, LocalOK, Job
  <2>3. Seen("remove", job'[p], Stored')
    BY <1>0, <2>1, <2>2 DEF Seen, LinkPC, MetaPC, StorePC
  <2>4. SeenInv'
    BY <2>1, <2>2, <2>3, SeenMoves
  <2>5. ASSUME NEW b \in App
        PROVE  /\ current'[b] \in {current[b], None} /\ tmp'[b] \in {tmp[b], None}
               /\ root'[b] = root[b] /\ meta'[b] \in {meta[b], None}
    BY <1>9, <2>1 DEF RemoveEntry, roots, FilesOK
  <2>6. LinksIn(Stored)'
    BY <1>0, <2>5 DEF LinksIn
  <2>7. None \notin Header
    BY SentinelAssumption DEF Header
  <2>8. HeadersIn(Stored)'
    BY <1>0, <2>5, <2>7 DEF HeadersIn
  <2> QED
    BY <2>4, <2>6, <2>8 DEF LinkInv
<1> QED
  BY <1>3, <1>4, <1>5, <1>6, <1>7, <1>8, <1>9 DEF AppStep

LEMMA LinkGc ==
    ASSUME Typing, LinkInv, [Next]_vars, NEW p \in Proc, GcStep(p)
    PROVE  LinkInv'
<1> Typing /\ LocalOK /\ LinksIn(Stored) /\ HeadersIn(Stored) /\ SeenInv
  BY DEF LinkInv, Typing
<1>1. UNCHANGED <<current, tmp, root, meta>>
  BY DEF GcStep, GcReadLink, GcListLayers, GcKeep, GcDelete, GcEnd, apps, roots
<1>2. Leave(p) \/ /\ UNCHANGED job
                  /\ pc'[p] \in {"gc_roots", "gc_sweep"}
                  /\ \A q \in Proc \ {p} : pc'[q] = pc[q]
  BY DEF GcStep, GcReadLink, GcListLayers, GcKeep, GcDelete, GcEnd, Exit, Goto,
     LocalOK
<1>3. ASSUME ~Leave(p) PROVE SeenInv'
  <2>1. Seen(pc'[p], job'[p], Stored')
    BY <1>2, <1>3 DEF Seen, SeenInv, LinkPC, MetaPC, StorePC
  <2> QED
    BY <1>2, <1>3, <2>1, SeenMoves
<1> QED
  BY <1>1, <1>3, SeenLeave, LinksFrame, HeadersFrame DEF LinkInv

LEMMA LinkInvariant == Spec => []LinkInv
<1>1. Init => LinkInv
  <2> SUFFICES ASSUME Init PROVE LinkInv
    OBVIOUS
  <2>1. LinksIn(Stored)
    BY DEF Init, LinksIn
  <2>2. HeadersIn(Stored)
    BY SentinelAssumption DEF Init, HeadersIn, Header
  <2>3. SeenInv
    BY DEF Init, SeenInv, Seen, NoJob, LinkPC, MetaPC, StorePC
  <2> QED
    BY <2>1, <2>2, <2>3 DEF LinkInv
<1>2. Typing /\ LinkInv /\ [Next]_vars => LinkInv'
  <2> SUFFICES ASSUME Typing, LinkInv, [Next]_vars PROVE LinkInv'
    OBVIOUS
  <2> LinksIn(Stored) /\ HeadersIn(Stored) /\ SeenInv
    BY DEF LinkInv
  <2>1. ASSUME NEW p \in Proc, Crash(p) PROVE LinkInv'
    BY <2>1, SeenLeave, LinksFrame, HeadersFrame DEF Crash, LinkInv
  <2>2. CASE UNCHANGED vars
    <3>1. Stored' = Stored
      BY <2>2 DEF vars, layers, Stored, HasLayer
    <3> QED
      BY <2>2, <3>1 DEF vars, apps, roots, local, LinkInv, LinksIn, HeadersIn,
         SeenInv
  <2> QED
    BY <2>1, <2>2, LinkBegin, LinkStore, LinkApp, LinkGc DEF Next
<1> QED
  BY <1>1, <1>2, TypeCorrect, PTL DEF Spec

\* Whatever the commands, the daemon and crashes do in between, the current
\* link, the temporary link and the gc root of every application name a
\* layer that was stored, unless gc has taken it away.
THEOREM LinksCorrect == Spec => []LinksStored
<1>1. Typing /\ LinkInv => LinksStored
  BY DEF LinkInv, LinksIn, LinksStored, Stored
<1> QED
  BY <1>1, LinkInvariant, TypeCorrect, PTL

\* Without the background update checker, so with any number of nxpk
\* commands and mount requests, an installed header names only layers that
\* were stored.
THEOREM HeadersCorrect ==
    ASSUME NoChecker
    PROVE  Spec => []InstalledLayersStored
<1>1. Typing /\ LinkInv => InstalledLayersStored
  <2> SUFFICES ASSUME Typing, LinkInv, NEW a \in App, meta[a] \in Header,
                      NEW i \in DOMAIN LayersOf[meta[a].rel]
               PROVE  LET d == LayersOf[meta[a].rel][i]
                      IN  HasLayer(d) \/ d \in swept
    BY DEF InstalledLayersStored
  <2>1. meta[a].rel \in Release
    BY DEF Header
  <2>2. DOMAIN LayersOf[meta[a].rel] = 1..Len(LayersOf[meta[a].rel])
    BY <2>1, ReleaseAssumption
  <2> QED
    BY <2>2 DEF LinkInv, HeadersIn, AllLayers, Stored
<1> QED
  BY <1>1, LinkInvariant, TypeCorrect, PTL

-----------------------------------------------------------------------------
(* Torn files.  The two halves of TornOnlyByFault are inductive with the   *)
(* types: a step that tears a file makes a writer of it, and a writer ends *)
(* by finishing the file, by losing its name, or by leaving it on record.  *)

ImagesExplained ==
    \A d \in Digest : image[d] = "torn" =>
        d \in cutImage \/ \E p \in Proc : WritesImage(p, d)
HeadersExplained ==
    \A a \in App : meta[a] = Torn =>
        a \in cutMeta \/ \E p \in Proc : WritesMeta(p, a)

\* The other processes stand where they stood, and keep their files.
OthersStay(p) == \A q \in Proc \ {p} : /\ pc'[q] = pc[q] /\ job'[q] = job[q]
                                       /\ linked'[q] = linked[q]

\* A step changes one process; only an unlink takes a name from others.
LEMMA StepIsLocal ==
    ASSUME Typing, NEW p \in Proc,
           \/ Begin(p) \/ StoreStep(p) \/ Crash(p)
           \/ AppStep(p) /\ ~\E f \in AppFile : RemoveEntry(p, f)
           \/ GcStep(p) /\ ~\E d \in Digest, left \in Image : GcDelete(p, d, left)
    PROVE  OthersStay(p)
<1> USE DEF OthersStay, Goto, Leave, Exit, At, Step, Fails, Advance, Start, Typing, LocalOK
<1>1. CASE Begin(p)
  BY <1>1 DEF Begin, Install, Mount, ReadMeta, Edit, Remove, Gc
<1>2. CASE StoreStep(p)
  BY <1>2 DEF StoreStep, Plan, NothingNew, SkipLayer, FetchFails, LayersDone,
     FetchLayer, CreateImage, CreateFails, WriteImage, WriteFails
<1>3. CASE Crash(p)
  BY <1>3 DEF Crash
<1>4. CASE AppStep(p) /\ ~\E f \in AppFile : RemoveEntry(p, f)
  BY <1>4 DEF AppStep, MakeAppDir, OpenMeta, OpenMetaFails, WriteMeta,
     UnlinkCurrent, LinkCurrent, LinkCurrentFails, CheckTop, UnlinkTmp,
     LinkTmp, LinkTmpFails, RenameTmp, RenameFails, UnlinkRoot, LinkRoot,
     LinkRootFails, RemoveDir
<1>5. CASE GcStep(p) /\ ~\E d \in Digest, left \in Image : GcDelete(p, d, left)
  BY <1>5 DEF GcStep, GcReadLink, GcListLayers, GcKeep, GcEnd
<1> QED
  BY <1>1, <1>2, <1>3, <1>4, <1>5

\* The halves depend on the files, the record of cut writes and the writers.
LEMMA ImagesFrame ==
    ASSUME ImagesExplained, UNCHANGED <<image, cutImage>>,
           \A q \in Proc, d \in Digest : WritesImage(q, d) => WritesImage(q, d)'
    PROVE  ImagesExplained'
BY DEF ImagesExplained

LEMMA HeadersExplainedFrame ==
    ASSUME HeadersExplained, UNCHANGED <<meta, cutMeta>>,
           \A q \in Proc, a \in App : WritesMeta(q, a) => WritesMeta(q, a)'
    PROVE  HeadersExplained'
BY DEF HeadersExplained

\* A process that is not writing has no writer to lose.
LEMMA ImagesElsewhere ==
    ASSUME ImagesExplained, NEW p \in Proc, OthersStay(p), pc[p] # "write_image",
           UNCHANGED <<image, cutImage>>
    PROVE  ImagesExplained'
BY ImagesFrame DEF OthersStay, WritesImage, Layer

LEMMA HeadersElsewhere ==
    ASSUME HeadersExplained, NEW p \in Proc, OthersStay(p), pc[p] # "write_meta",
           UNCHANGED <<meta, cutMeta>>
    PROVE  HeadersExplained'
BY HeadersExplainedFrame DEF OthersStay, WritesMeta

\* Writing an image: the steps of store_layer.
LEMMA ImagesStore ==
    ASSUME Typing, ImagesExplained, NEW p \in Proc, StoreStep(p)
    PROVE  ImagesExplained'
<1>1. OthersStay(p)
  BY StepIsLocal
<1>2. /\ \A q \in Proc \ {p}, d \in Digest : WritesImage(q, d) => WritesImage(q, d)'
      /\ \A d \in Digest : WritesImage(p, d) => pc[p] = "write_image" /\ linked[p] /\ d = Layer(p)
  BY <1>1 DEF OthersStay, WritesImage, Layer
<1>3. image \in [Digest -> Image]
  BY DEF Typing, FilesOK
<1>4. ASSUME NEW data \in {"whole", "wrong"}, FetchLayer(p, data)
      PROVE  ImagesExplained'
  <2>1. /\ pc[p] = "layer" /\ cutImage' = cutImage
        /\ image' = [image EXCEPT ![Layer(p)] = IF @ = "none" THEN "dir" ELSE @]
    BY <1>4 DEF FetchLayer
  <2>2. \A d \in Digest : image'[d] = "torn" => image[d] = "torn"
    BY <1>3, <2>1
  <2>3. \A d \in Digest : ~WritesImage(p, d)
    BY <2>1 DEF WritesImage
  <2> QED
    BY <1>2, <2>1, <2>2, <2>3 DEF ImagesExplained
<1>5. CASE CreateImage(p)
  <2>1. /\ pc[p] = "create" /\ pc'[p] = "write_image" /\ linked'[p] /\ job' = job
        /\ cutImage' = cutImage \ {Layer(p)}
        /\ \A d \in Digest : d # Layer(p) => image'[d] = image[d]
    BY <1>3, <1>5 DEF CreateImage, Goto, Typing, LocalOK
  <2>2. WritesImage(p, Layer(p))'
    BY <2>1 DEF WritesImage, Layer
  <2>3. \A d \in Digest : ~WritesImage(p, d)
    BY <2>1 DEF WritesImage
  <2>4. ASSUME NEW d \in Digest, image'[d] = "torn"
        PROVE  d \in cutImage' \/ \E q \in Proc : WritesImage(q, d)'
    <3>1. CASE d = Layer(p)
      <4>1. WritesImage(p, d)'
        BY <2>1, <3>1 DEF WritesImage, Layer
      <4> QED
        BY <4>1
    <3>2. CASE d # Layer(p)
      BY <1>2, <2>1, <2>3, <2>4, <3>2 DEF ImagesExplained
    <3> QED
      BY <3>1, <3>2
  <2> QED
    BY <2>4 DEF ImagesExplained
<1>6. CASE WriteImage(p)
  <2>1. Layer(p) \in Digest /\ job[p].data # "torn" /\ pc[p] = "write_image"
    BY <1>6, LayerTyped DEF WriteImage, Typing, LocalOK, JobFits
  <2>2. CASE linked[p]
    <3>1. /\ image' = [image EXCEPT ![Layer(p)] = job[p].data]
          /\ cutImage' = cutImage \ {Layer(p)}
      BY <1>6, <2>2 DEF WriteImage
    <3>2. \A d \in Digest : image'[d] = "torn" => image[d] = "torn" /\ d # Layer(p)
      BY <1>3, <2>1, <3>1
    <3> QED
      BY <1>2, <3>1, <3>2 DEF ImagesExplained
  <2>3. CASE ~linked[p]
    <3>1. UNCHANGED <<image, cutImage>>
      BY <1>6, <2>3 DEF WriteImage
    <3> QED
      BY <1>2, <2>3, <3>1, ImagesFrame
  <2> QED
    BY <2>2, <2>3
<1>7. CASE WriteFails(p)
  <2>1. /\ image' = image
        /\ cutImage' = IF linked[p] THEN cutImage \cup {Layer(p)} ELSE cutImage
    BY <1>7 DEF WriteFails
  <2> QED
    BY <1>2, <2>1 DEF ImagesExplained
<1>8. CASE \/ \E r \in Release : Plan(p, r)
           \/ NothingNew(p) \/ SkipLayer(p) \/ FetchFails(p) \/ LayersDone(p)
           \/ CreateFails(p)
  <2>1. UNCHANGED <<image, cutImage>> /\ pc[p] # "write_image"
    BY <1>8 DEF Plan, NothingNew, SkipLayer, FetchFails, LayersDone, CreateFails,
       Exit, Step, At, layers
  <2> QED
    BY <1>1, <2>1, ImagesElsewhere
<1> QED
  BY <1>4, <1>5, <1>6, <1>7, <1>8 DEF StoreStep

\* Sweeping: the name of an image goes, or the image stays as it is.
LEMMA ImagesGc ==
    ASSUME Typing, ImagesExplained, NEW p \in Proc, GcStep(p)
    PROVE  ImagesExplained'
<1>1. ASSUME NEW d \in Digest, NEW left \in Image, GcDelete(p, d, left)
      PROVE  ImagesExplained'
  <2>1. /\ pc' = pc /\ job' = job
        /\ image' = [image EXCEPT ![d] = left]
        /\ image \in [Digest -> Image]
    BY <1>1 DEF GcDelete, Typing, FilesOK
  <2>2. CASE left \in {"none", "dir"}
    <3>1. /\ cutImage' = cutImage \ {d}
          /\ linked' = [q \in Proc |-> linked[q] /\ ~WritesImage(q, d)]
      BY <1>1, <2>2 DEF GcDelete
    <3>2. \A e \in Digest : image'[e] = "torn" => e # d /\ image[e] = "torn"
      BY <2>1, <2>2
    <3>3. \A q \in Proc, e \in Digest : e # d /\ WritesImage(q, e) => WritesImage(q, e)'
      BY <2>1, <3>1 DEF WritesImage, Layer
    <3> QED
      BY <3>1, <3>2, <3>3 DEF ImagesExplained
  <2>3. CASE left \notin {"none", "dir"}
    <3>1. left = image[d] /\ UNCHANGED <<cutImage, linked>>
      BY <1>1, <2>3 DEF GcDelete
    <3>2. image' = image
      BY <2>1, <3>1
    <3> QED
      BY <2>1, <3>1, <3>2, ImagesFrame DEF WritesImage, Layer
  <2> QED
    BY <2>2, <2>3
<1>2. ASSUME ~\E d \in Digest, left \in Image : GcDelete(p, d, left)
      PROVE  ImagesExplained'
  <2>1. UNCHANGED <<image, cutImage>> /\ pc[p] # "write_image"
    BY <1>2 DEF GcStep, GcReadLink, GcListLayers, GcKeep, GcEnd, Exit, layers
  <2>2. OthersStay(p)
    BY <1>2, StepIsLocal
  <2> QED
    BY <2>1, <2>2, ImagesElsewhere
<1> QED
  BY <1>1, <1>2

LEMMA ImagesStep == Typing /\ ImagesExplained /\ [Next]_vars => ImagesExplained'
<1> SUFFICES ASSUME Typing, ImagesExplained, [Next]_vars PROVE ImagesExplained'
  OBVIOUS
<1>1. ASSUME NEW p \in Proc, Begin(p) PROVE ImagesExplained'
  <2>1. UNCHANGED <<image, cutImage>> /\ pc[p] = "idle"
    BY <1>1 DEF Begin, Install, Mount, ReadMeta, Edit, Remove, Gc, Start, layers
  <2> QED
    BY <1>1, <2>1, StepIsLocal, ImagesElsewhere
<1>2. ASSUME NEW p \in Proc, AppStep(p) PROVE ImagesExplained'
  <2>1. UNCHANGED <<image, cutImage>> /\ pc[p] # "write_image"
    BY <1>2 DEF AppStep, MakeAppDir, OpenMeta, OpenMetaFails, WriteMeta,
       UnlinkCurrent, LinkCurrent, LinkCurrentFails, CheckTop, UnlinkTmp,
       LinkTmp, LinkTmpFails, RenameTmp, RenameFails, UnlinkRoot, LinkRoot,
       LinkRootFails, RemoveEntry, RemoveDir, Fails, Exit, At, Step, layers
  <2>2. CASE \E f \in AppFile : RemoveEntry(p, f)
    <3>1. /\ pc' = pc /\ \A q \in Proc : job'[q].rel = job[q].rel /\ job'[q].at = job[q].at
          /\ \A q \in Proc : linked[q] /\ pc[q] # "write_meta" => linked'[q]
      BY <2>2 DEF RemoveEntry, WritesMeta, Typing, LocalOK, Job
    <3> QED
      BY <2>1, <3>1, ImagesFrame DEF WritesImage, Layer
  <2> QED
    BY <1>2, <2>1, <2>2, StepIsLocal, ImagesElsewhere
<1>3. ASSUME NEW p \in Proc, Crash(p) PROVE ImagesExplained'
  <2>1. /\ image' = image
        /\ cutImage' = cutImage \cup {d \in Digest : WritesImage(p, d)}
    BY <1>3 DEF Crash
  <2>2. \A q \in Proc \ {p}, d \in Digest : WritesImage(q, d) => WritesImage(q, d)'
    BY <1>3, StepIsLocal DEF OthersStay, WritesImage, Layer
  <2> QED
    BY <2>1, <2>2 DEF ImagesExplained
<1>4. CASE UNCHANGED vars
  BY <1>4, ImagesFrame DEF vars, layers, local, WritesImage, Layer
<1> QED
  BY <1>1, <1>2, <1>3, <1>4, ImagesStore, ImagesGc DEF Next

\* Headers: what write_meta, remove and a crash do to them.
LEMMA HeadersStep == Typing /\ HeadersExplained /\ [Next]_vars => HeadersExplained'
<1> SUFFICES ASSUME Typing, HeadersExplained, [Next]_vars PROVE HeadersExplained'
  OBVIOUS
<1>0. meta \in [App -> Header \cup {None, Torn}]
  BY DEF Typing, FilesOK
<1>1. ASSUME NEW p \in Proc, Begin(p) \/ StoreStep(p) PROVE HeadersExplained'
  <2>1. UNCHANGED <<meta, cutMeta>> /\ pc[p] # "write_meta"
    BY <1>1 DEF Begin, Install, Mount, ReadMeta, Edit, Remove, Gc, Start, StoreStep,
       Plan, NothingNew, SkipLayer, FetchFails, LayersDone, FetchLayer, CreateImage,
       CreateFails, WriteImage, WriteFails, Exit, At, Step, apps
  <2> QED
    BY <1>1, <2>1, StepIsLocal, HeadersElsewhere
<1>2. ASSUME NEW p \in Proc, GcStep(p) PROVE HeadersExplained'
  <2>1. UNCHANGED <<meta, cutMeta>> /\ pc[p] # "write_meta"
    BY <1>2 DEF GcStep, GcReadLink, GcListLayers, GcKeep, GcDelete, GcEnd, Exit, apps
  <2>2. CASE \E d \in Digest, left \in Image : GcDelete(p, d, left)
    <3>1. /\ pc' = pc /\ job' = job
          /\ \A q \in Proc : linked[q] /\ pc[q] # "write_image" => linked'[q]
      BY <2>2 DEF GcDelete, WritesImage
    <3> QED
      BY <2>1, <3>1, HeadersExplainedFrame DEF WritesMeta
  <2> QED
    BY <1>2, <2>1, <2>2, StepIsLocal, HeadersElsewhere
<1>3. ASSUME NEW p \in Proc, OpenMeta(p) PROVE HeadersExplained'
  <2>1. /\ pc[p] = "open_meta" /\ pc'[p] = "write_meta" /\ linked'[p] /\ job' = job
        /\ cutMeta' = cutMeta \ {job[p].app}
        /\ \A a \in App : a # job[p].app => meta'[a] = meta[a]
    BY <1>0, <1>3 DEF OpenMeta, Goto, Typing, LocalOK
  <2>2. WritesMeta(p, job[p].app)'
    BY <2>1 DEF WritesMeta
  <2>3. \A q \in Proc, a \in App : WritesMeta(q, a) => WritesMeta(q, a)'
    BY <1>3, <2>1, StepIsLocal DEF AppStep, RemoveEntry, OpenMeta, OthersStay, WritesMeta
  <2>4. ASSUME NEW a \in App, meta'[a] = Torn
        PROVE  a \in cutMeta' \/ \E q \in Proc : WritesMeta(q, a)'
    BY <2>1, <2>2, <2>3, <2>4 DEF HeadersExplained, WritesMeta
  <2> QED
    BY <2>4 DEF HeadersExplained
<1>4. ASSUME NEW p \in Proc, WriteMeta(p) PROVE HeadersExplained'
  <2>1. /\ pc[p] = "write_meta" /\ job[p].app \in App
        /\ job[p].rel \in Release /\ job[p].perm \in Perm
    BY <1>4 DEF WriteMeta, Typing, LocalOK, JobFits, MetaPC, AppPC
  <2>2. \A q \in Proc \ {p}, a \in App : WritesMeta(q, a) => WritesMeta(q, a)'
    BY <1>4, <2>1, StepIsLocal DEF AppStep, RemoveEntry, OthersStay, WritesMeta
  <2>3. CASE linked[p]
    <3>1. /\ meta' = [meta EXCEPT ![job[p].app] = [rel |-> job[p].rel, perm |-> job[p].perm]]
          /\ cutMeta' = cutMeta \ {job[p].app}
      BY <1>4, <2>3 DEF WriteMeta
    <3>2. [rel |-> job[p].rel, perm |-> job[p].perm] # Torn
      BY <2>1, SentinelAssumption
    <3>3. \A a \in App : meta'[a] = Torn => meta[a] = Torn /\ a # job[p].app
      BY <1>0, <2>1, <3>1, <3>2
    <3> QED
      BY <2>2, <3>1, <3>3 DEF HeadersExplained, WritesMeta
  <2>4. CASE ~linked[p]
    <3>1. UNCHANGED <<meta, cutMeta>>
      BY <1>4, <2>4 DEF WriteMeta
    <3> QED
      BY <2>2, <2>4, <3>1, HeadersExplainedFrame DEF WritesMeta
  <2> QED
    BY <2>3, <2>4
<1>5. ASSUME NEW p \in Proc, NEW f \in AppFile, RemoveEntry(p, f)
      PROVE  HeadersExplained'
  <2>1. /\ pc[p] = "remove" /\ pc' = pc /\ \A q \in Proc : job'[q].app = job[q].app
    BY <1>5 DEF RemoveEntry, Typing, LocalOK, Job
  <2>2. linked' = [q \in Proc |-> linked[q] /\ ~(f = "meta" /\ WritesMeta(q, job[p].app))]
    BY <1>5 DEF RemoveEntry
  <2>3. CASE f = "meta"
    <3>1. meta' = [meta EXCEPT ![job[p].app] = None] /\ cutMeta' = cutMeta \ {job[p].app}
      BY <1>5, <2>3 DEF RemoveEntry
    <3>2. \A a \in App : meta'[a] = Torn => meta[a] = Torn /\ a # job[p].app
      BY <1>0, <3>1, SentinelAssumption
    <3>3. \A q \in Proc, a \in App :
              a # job[p].app /\ WritesMeta(q, a) => WritesMeta(q, a)'
      BY <2>1, <2>2 DEF WritesMeta
    <3> QED
      BY <3>1, <3>2, <3>3 DEF HeadersExplained
  <2>4. CASE f # "meta"
    <3>1. UNCHANGED <<meta, cutMeta>>
      BY <1>5, <2>4 DEF RemoveEntry
    <3>2. \A q \in Proc, a \in App : WritesMeta(q, a) => WritesMeta(q, a)'
      BY <2>1, <2>2, <2>4 DEF WritesMeta
    <3> QED
      BY <3>1, <3>2, HeadersExplainedFrame
  <2> QED
    BY <2>3, <2>4
<1>6. ASSUME NEW p \in Proc, AppStep(p), ~OpenMeta(p), ~WriteMeta(p),
             ~\E f \in AppFile : RemoveEntry(p, f)
      PROVE  HeadersExplained'
  <2>1. UNCHANGED <<meta, cutMeta>> /\ pc[p] # "write_meta"
    BY <1>6 DEF AppStep, MakeAppDir, OpenMetaFails, UnlinkCurrent, LinkCurrent,
       LinkCurrentFails, CheckTop, UnlinkTmp, LinkTmp, LinkTmpFails, RenameTmp,
       RenameFails, UnlinkRoot, LinkRoot, LinkRootFails, RemoveDir, Fails, Exit, At,
       Step, apps
  <2> QED
    BY <1>6, <2>1, StepIsLocal, HeadersElsewhere
<1>7. ASSUME NEW p \in Proc, Crash(p) PROVE HeadersExplained'
  <2>1. meta' = meta /\ cutMeta' = cutMeta \cup {a \in App : WritesMeta(p, a)}
    BY <1>7 DEF Crash
  <2>2. \A q \in Proc \ {p}, a \in App : WritesMeta(q, a) => WritesMeta(q, a)'
    BY <1>7, StepIsLocal DEF OthersStay, WritesMeta
  <2> QED
    BY <2>1, <2>2 DEF HeadersExplained
<1>8. CASE UNCHANGED vars
  BY <1>8, HeadersExplainedFrame DEF vars, apps, local, WritesMeta
<1> QED
  BY <1>1, <1>2, <1>3, <1>4, <1>5, <1>6, <1>7, <1>8 DEF Next

\* However many processes store the same layer or write the same header, a
\* file that is cut short has a writer at work on it, or one died or failed in
\* the middle of it: no interleaving of successful commands leaves one behind
\* (Store::store_layer, register_app and remove_app).
THEOREM TornCorrect == Spec => []TornOnlyByFault
<1>1. Init => ImagesExplained /\ HeadersExplained
  BY SentinelAssumption DEF Init, ImagesExplained, HeadersExplained
<1>2. ImagesExplained /\ HeadersExplained => TornOnlyByFault
  BY DEF ImagesExplained, HeadersExplained, TornOnlyByFault
<1> QED
  BY <1>1, <1>2, ImagesStep, HeadersStep, TypeCorrect, PTL DEF Spec

-----------------------------------------------------------------------------
\* The steps of one process.
Acts(p) == Begin(p) \/ StoreStep(p) \/ AppStep(p) \/ GcStep(p) \/ Crash(p)

-----------------------------------------------------------------------------
\* Which command a process can run at program point l, and what its job j
\* then says of the release.

Updating == {"update", "refresh"}
OpFits(l, j) ==
    /\ l \in {"idle", "gc_roots", "gc_sweep"} => j = NoJob
    /\ l = "plan" => j.op \in Updating
    /\ l \in StorePC => j.op \in Updating \cup {"install", "mount"}
    /\ l \in {"app_dir", "unlink_current", "link_current"} => j.op = "install"
    /\ l \in {"check_top", "unlink_tmp", "link_tmp", "rename"} => j.op \in Updating
    /\ l \in {"unlink_root", "link_root"} => j.op \in Updating \cup {"install"}
    /\ l \in {"open_meta", "write_meta"} => j.op \in Updating \cup {"install", "edit"}
    /\ l = "remove" => j.op = "remove"
    /\ j.op = "install" => j.perm = BundlePerm
    /\ j.op \in {"install", "mount"} \/ (j.op \in Updating /\ l # "plan")
          => j.rel \in Release /\ AppOf[j.rel] = j.app
OpsInv == \A p \in Proc : OpFits(pc[p], job[p])

\* A step takes one process from its place; the others keep place and job.
LEMMA StepMovesOne ==
    ASSUME Typing, NEW p \in Proc, Acts(p)
    PROVE  \A q \in Proc \ {p} : pc'[q] = pc[q] /\ job'[q] = job[q]
<1>1. CASE \E f \in AppFile : RemoveEntry(p, f)
  BY <1>1 DEF RemoveEntry, Typing, LocalOK
<1>2. CASE \E d \in Digest, left \in Image : GcDelete(p, d, left)
  BY <1>2 DEF GcDelete
<1>3. CASE /\ ~\E f \in AppFile : RemoveEntry(p, f)
           /\ ~\E d \in Digest, left \in Image : GcDelete(p, d, left)
  BY <1>3, StepIsLocal DEF Acts, OthersStay
<1> QED
  BY <1>1, <1>2, <1>3

LEMMA OpsLeave ==
    ASSUME Typing, NEW p \in Proc, Leave(p)
    PROVE  OpFits(pc'[p], job'[p])
<1>1. pc'[p] = "idle" /\ job'[p] = NoJob
  BY DEF Leave, Goto, Typing, LocalOK
<1> QED
  BY <1>1 DEF OpFits, NoJob, StorePC, Updating

LEMMA OpsBegin ==
    ASSUME Typing, OpsInv, NEW p \in Proc, Begin(p)
    PROVE  OpFits(pc'[p], job'[p])
<1> USE DEF Typing, LocalOK, Start, Goto, OpFits, NoJob, StorePC, Updating
<1>1. ASSUME NEW r \in Release, Install(p, r) PROVE OpFits(pc'[p], job'[p])
  BY <1>1 DEF Install
<1>2. ASSUME NEW r \in Release, Mount(p, r) PROVE OpFits(pc'[p], job'[p])
  BY <1>2 DEF Mount
<1>3. ASSUME NEW a \in App, NEW op \in Command, ReadMeta(p, op, a)
      PROVE  OpFits(pc'[p], job'[p])
  BY <1>3 DEF ReadMeta
<1>4. ASSUME NEW a \in App, NEW perm \in Perm, Edit(p, a, perm)
      PROVE  OpFits(pc'[p], job'[p])
  BY <1>4 DEF Edit
<1>5. ASSUME NEW a \in App, Remove(p, a) PROVE OpFits(pc'[p], job'[p])
  BY <1>5 DEF Remove
<1>6. CASE Gc(p)
  BY <1>6 DEF Gc, OpsInv
<1> QED
  BY <1>1, <1>2, <1>3, <1>4, <1>5, <1>6 DEF Begin

LEMMA OpsStore ==
    ASSUME Typing, OpsInv, NEW p \in Proc, StoreStep(p)
    PROVE  OpFits(pc'[p], job'[p])
<1>1. OpFits(pc[p], job[p]) /\ job[p] \in Job
  BY DEF OpsInv, Typing, LocalOK
<1> USE DEF Typing, LocalOK, Goto, Advance, OpFits, StorePC, Updating, Job
<1>2. ASSUME NEW r \in Release, Plan(p, r) PROVE OpFits(pc'[p], job'[p])
  BY <1>1, <1>2 DEF Plan
<1>3. CASE SkipLayer(p)
  BY <1>1, <1>3 DEF SkipLayer
<1>4. ASSUME NEW data \in {"whole", "wrong"}, FetchLayer(p, data)
      PROVE  OpFits(pc'[p], job'[p])
  BY <1>1, <1>4 DEF FetchLayer
<1>5. CASE NothingNew(p)
  BY <1>5, OpsLeave DEF NothingNew, Exit
<1>6. CASE FetchFails(p)
  BY <1>1, <1>6, OpsLeave DEF FetchFails
<1>7. CASE LayersDone(p)
  BY <1>1, <1>7, OpsLeave DEF LayersDone, AfterLayers, Step, Exit, At
<1>8. CASE CreateImage(p)
  BY <1>1, <1>8 DEF CreateImage
<1>9. CASE CreateFails(p)
  BY <1>1, <1>9, OpsLeave DEF CreateFails
<1>10. CASE WriteImage(p)
  BY <1>1, <1>10 DEF WriteImage
<1>11. CASE WriteFails(p)
  BY <1>1, <1>11, OpsLeave DEF WriteFails
<1> QED
  BY <1>2, <1>3, <1>4, <1>5, <1>6, <1>7, <1>8, <1>9, <1>10, <1>11 DEF StoreStep

LEMMA OpsApp ==
    ASSUME Typing, OpsInv, NEW p \in Proc, AppStep(p)
    PROVE  OpFits(pc'[p], job'[p])
<1>1. OpFits(pc[p], job[p]) /\ job[p] \in Job
  BY DEF OpsInv, Typing, LocalOK
<1>2. CASE Leave(p)
  BY <1>2, OpsLeave
<1> USE DEF Typing, LocalOK, Goto, OpFits, StorePC, Updating, Job, Exit, At, Fails, Step,
        AfterMeta, AfterRoot
<1>3. CASE MakeAppDir(p) \/ OpenMeta(p) \/ OpenMetaFails(p)
  BY <1>1, <1>2, <1>3 DEF MakeAppDir, OpenMeta, OpenMetaFails
<1>4. CASE WriteMeta(p)
  BY <1>1, <1>2, <1>4 DEF WriteMeta
<1>5. CASE UnlinkCurrent(p) \/ LinkCurrent(p) \/ LinkCurrentFails(p)
  BY <1>1, <1>2, <1>5 DEF UnlinkCurrent, LinkCurrent, LinkCurrentFails
<1>6. CASE CheckTop(p)
  BY <1>1, <1>6 DEF CheckTop
<1>7. CASE UnlinkTmp(p) \/ LinkTmp(p) \/ LinkTmpFails(p)
  BY <1>1, <1>2, <1>7 DEF UnlinkTmp, LinkTmp, LinkTmpFails
<1>8. CASE RenameTmp(p) \/ RenameFails(p)
  BY <1>1, <1>2, <1>8 DEF RenameTmp, RenameFails
<1>9. CASE UnlinkRoot(p) \/ LinkRoot(p) \/ LinkRootFails(p)
  BY <1>1, <1>2, <1>9 DEF UnlinkRoot, LinkRoot, LinkRootFails
<1>10. ASSUME NEW f \in AppFile, RemoveEntry(p, f) PROVE OpFits(pc'[p], job'[p])
  BY <1>1, <1>10 DEF RemoveEntry
<1>11. CASE RemoveDir(p)
  BY <1>2, <1>11 DEF RemoveDir
<1> QED
  BY <1>3, <1>4, <1>5, <1>6, <1>7, <1>8, <1>9, <1>10, <1>11 DEF AppStep

LEMMA OpsStep == Typing /\ OpsInv /\ [Next]_vars => OpsInv'
<1> SUFFICES ASSUME Typing, OpsInv, [Next]_vars PROVE OpsInv'
  OBVIOUS
<1>1. ASSUME NEW p \in Proc, Acts(p) PROVE OpsInv'
  <2>1. OpFits(pc'[p], job'[p])
    <3>1. CASE GcStep(p)
      <4>1. CASE GcEnd(p)
        BY <4>1, OpsLeave DEF GcEnd, Exit
      <4>2. CASE ~GcEnd(p)
        <5>1. pc[p] \in {"gc_roots", "gc_sweep"} /\ pc'[p] \in {"gc_roots", "gc_sweep"}
              /\ job'[p] = job[p]
          BY <3>1, <4>2 DEF GcStep, GcReadLink, GcListLayers, GcKeep, GcDelete, Goto,
             Typing, LocalOK
        <5>2. job[p] = NoJob
          BY <5>1 DEF OpsInv, OpFits
        <5> QED
          BY <5>1, <5>2 DEF OpFits, NoJob, StorePC, Updating
      <4> QED
        BY <4>1, <4>2
    <3>2. CASE Crash(p)
      BY <3>2, OpsLeave DEF Crash
    <3> QED
      BY <1>1, <3>1, <3>2, OpsBegin, OpsStore, OpsApp DEF Acts
  <2>2. ASSUME NEW q \in Proc PROVE OpFits(pc'[q], job'[q])
    BY <1>1, <2>1, StepMovesOne DEF OpsInv
  <2> QED
    BY <2>2 DEF OpsInv, OpFits
<1>2. CASE UNCHANGED vars
  BY <1>2 DEF vars, local, OpsInv, OpFits
<1> QED
  BY <1>1, <1>2 DEF Next, Acts

-----------------------------------------------------------------------------
(* Commands that do not overlap.  Without a second process at work, nobody *)
(* takes from a command what it has found or done: its layers are there    *)
(* (Have), its links are (Way), and a header that does not agree with them *)
(* is that of the application it is at work on (SettledInv).               *)

GcPC == {"gc_roots", "gc_sweep"}
InTurns == \A p, q \in Proc : pc[p] # "idle" /\ pc[q] # "idle" => p = q
Undisturbed == InTurns /\ faults = 0

\* Images hold what their digest names, or are being written.
ImagesMeant ==
    /\ cutImage = {}
    /\ \A d \in Digest : image[d] # "wrong"
    /\ \A p \in Proc : pc[p] \in {"create", "write_image"} => job[p].data = "whole"

InStore == {d \in Digest : HasLayer(d)}
RootsInStore == \A a \in App : root[a] = None \/ root[a] \in InStore

\* What a command at l with job j has found among the layers S, or stored there.
Have(l, j, S) ==
    /\ l \in StorePC =>
          /\ \A i \in 1 .. Len(LayersOf[j.rel]) : i < j.at => LayersOf[j.rel][i] \in S
          /\ j.op = "update" => Digest \ j.need \subseteq S
    /\ l = "write_image" => LayersOf[j.rel][j.at] \in S
    /\ l \in MetaPC /\ j.op # "edit" => Top(j.rel) \in S
HaveInv == \A p \in Proc : Have(pc[p], job[p], InStore)

\* A collection misses no root.
Reaches(p) ==
    /\ pc[p] \in GcPC => \A a \in App : root[a] = None \/ a \in scan[p].links
                                                       \/ root[a] \in scan[p].reach
    /\ pc[p] = "gc_sweep" => scan[p].links = {}
ReachesInv == \A p \in Proc : Reaches(p)

\* What a command at l with job j has made of its application a.
WayOf(p, l, j, a) ==
    /\ j.op = "update" => a \in appdir /\ j.perm = asked[a]
    /\ j.op = "edit" => a \in appdir
    /\ l \in MetaPC \ {"app_dir"} /\ j.op = "install" => a \in appdir
    /\ l \in {"open_meta", "write_meta"} /\ j.op # "install" =>
          current[a] = Top(j.rel) /\ root[a] = Top(j.rel)
    /\ l = "write_meta" => linked[p] /\ meta[a] = Torn
    /\ l \in {"unlink_current", "link_current", "unlink_root", "link_root"}
       /\ j.op = "install" =>
          meta[a] = [rel |-> j.rel, perm |-> j.perm] /\ asked[a] = j.perm
    /\ l = "link_current" => current[a] = None
    /\ l \in {"unlink_root", "link_root"} => current[a] = Top(j.rel)
    /\ l = "link_root" => root[a] = None
    /\ l = "link_tmp" => tmp[a] = None
    /\ l = "rename" => tmp[a] = Top(j.rel)
    /\ l = "remove" /\ meta[a] # None => "meta" \in j.files
Way(p) == WayOf(p, pc[p], job[p], job[p].app)
WayInv == \A p \in Proc : Way(p)

\* An application as a command leaves it, or between two writes of one.
Settled(a) ==
    meta[a] # None =>
        /\ meta[a] \in Header /\ a \in appdir
        /\ current[a] = Top(meta[a].rel) /\ root[a] = Top(meta[a].rel)
        /\ meta[a].perm = asked[a]
Mid(l, j) ==
    \/ l \in {"write_meta", "unlink_current", "link_current", "unlink_root",
              "link_root", "remove"}
    \/ l = "open_meta" /\ j.op = "update"
SettledInv ==
    \A a \in App : Settled(a) \/ \E p \in Proc : Mid(pc[p], job[p]) /\ job[p].app = a

RestInv == /\ ImagesMeant /\ RootsInStore /\ HaveInv
           /\ ReachesInv /\ WayInv /\ SettledInv

\* The process that takes a step has the store for itself, before and after.
LEMMA OthersIdle ==
    ASSUME Typing, InTurns, InTurns', NEW p \in Proc, Acts(p)
    PROVE  \A q \in Proc \ {p} : pc[q] = "idle" /\ pc'[q] = "idle" /\ job'[q] = job[q]
<1>1. pc[p] # "idle" \/ pc'[p] # "idle"
  <2>1. CASE Begin(p)
    BY <2>1 DEF Begin, Install, Mount, ReadMeta, Edit, Remove, Gc, Start, Goto,
       Typing, LocalOK
  <2>2. CASE StoreStep(p)
    BY <2>2 DEF StoreStep, Plan, NothingNew, SkipLayer, FetchFails, LayersDone,
       FetchLayer, CreateImage, CreateFails, WriteImage, WriteFails, Exit, Step, At
  <2>3. CASE AppStep(p)
    BY <2>3 DEF AppStep, MakeAppDir, OpenMeta, OpenMetaFails, WriteMeta, UnlinkCurrent,
       LinkCurrent, LinkCurrentFails, CheckTop, UnlinkTmp, LinkTmp, LinkTmpFails,
       RenameTmp, RenameFails, UnlinkRoot, LinkRoot, LinkRootFails, RemoveEntry,
       RemoveDir, Fails, Exit, At, Step
  <2>4. CASE GcStep(p)
    BY <2>4 DEF GcStep, GcReadLink, GcListLayers, GcKeep, GcDelete, GcEnd, Exit
  <2>5. CASE Crash(p)
    BY <2>5 DEF Crash
  <2> QED
    BY <2>1, <2>2, <2>3, <2>4, <2>5 DEF Acts
<1>2. \A q \in Proc \ {p} : pc'[q] = pc[q] /\ job'[q] = job[q]
  BY StepMovesOne
<1> QED
  BY <1>1, <1>2 DEF InTurns

\* An idle process claims nothing.
LEMMA IdleClaimsNothing ==
    ASSUME NEW p, NEW l, NEW j, NEW a, NEW S, l = "idle", j = NoJob
    PROVE  Have(l, j, S) /\ WayOf(p, l, j, a) /\ ~Mid(l, j)
BY DEF Have, WayOf, Mid, NoJob, StorePC, MetaPC

\* What no command that is not the checker's can be doing.
LEMMA NoRefresh ==
    ASSUME NoChecker, LinkInv, NEW p \in Proc
    PROVE  job[p].op # "refresh"
BY DEF LinkInv, SeenInv, Seen

\* Outside a collection, what is in the store stays there.
LEMMA StoreGrows ==
    ASSUME Typing, NEW p \in Proc, Acts(p), pc[p] \notin GcPC, InTurns, InTurns'
    PROVE  InStore \subseteq InStore'
<1> SUFFICES ASSUME NEW d \in Digest, HasLayer(d), ~HasLayer(d)' PROVE FALSE
  BY DEF InStore
<1>1. [Next]_vars
  BY DEF Next, Acts
<1>2. PICK q \in Proc, left \in Image : GcDelete(q, d, left)
  BY <1>1, OnlyGcDeletes
<1>3. q = p
  BY <1>2, OthersIdle DEF GcDelete
<1> QED
  BY <1>2, <1>3 DEF GcDelete, GcPC

\* The download was compared with its digest, and the write is whole.
LEMMA MeantStep ==
    ASSUME Typing, OpsInv, LinkInv, NoChecker, Undisturbed, Undisturbed', RestInv,
           NEW p \in Proc, Acts(p)
    PROVE  ImagesMeant'
<1> DEFINE Fits == pc'[p] \in {"create", "write_image"} => job'[p].data = "whole"
<1>0. /\ cutImage = {} /\ \A d \in Digest : image[d] # "wrong"
      /\ pc[p] \in {"create", "write_image"} => job[p].data = "whole"
      /\ image \in [Digest -> Image] /\ job \in [Proc -> Job] /\ pc \in [Proc -> PC]
      /\ faults = 0 /\ faults' = 0 /\ job[p].op # "refresh"
  BY NoRefresh DEF RestInv, ImagesMeant, Typing, FilesOK, LocalOK, Undisturbed
<1>1. ASSUME Fits, cutImage' = {}, \A d \in Digest : image'[d] # "wrong"
      PROVE  ImagesMeant'
  <2>1. \A q \in Proc \ {p} : pc'[q] = "idle"
    BY OthersIdle DEF Undisturbed
  <2>2. \A q \in Proc : pc'[q] \in {"create", "write_image"} => job'[q].data = "whole"
    BY <1>1, <2>1
  <2> QED
    BY <1>1, <2>2 DEF ImagesMeant
<1>2. CASE Begin(p)
  <2>1. UNCHANGED <<image, cutImage>> /\ pc'[p] \notin {"create", "write_image"}
    BY <1>0, <1>2 DEF Begin, Install, Mount, ReadMeta, Edit, Remove, Gc, Start, Goto, layers
  <2> QED
    BY <1>0, <1>1, <2>1
<1>3. CASE StoreStep(p)
  <2>1. ASSUME NEW data \in {"whole", "wrong"}, FetchLayer(p, data) PROVE ImagesMeant'
    <3>1. data = "whole" /\ job'[p].data = data /\ cutImage' = cutImage
      BY <1>0, <2>1 DEF FetchLayer, Fetched, Job
    <3>2. \A d \in Digest : image'[d] # "wrong"
      BY <1>0, <2>1 DEF FetchLayer
    <3> QED
      BY <1>0, <1>1, <3>1, <3>2
  <2>2. CASE CreateImage(p)
    BY <1>0, <1>1, <2>2 DEF CreateImage
  <2>3. CASE WriteImage(p)
    BY <1>0, <1>1, <2>3 DEF WriteImage, Goto
  <2>4. CASE WriteFails(p)
    BY <1>0, <2>4 DEF WriteFails
  <2>5. ASSUME NEW r \in Release, Plan(p, r) PROVE ImagesMeant'
    BY <1>0, <1>1, <2>5 DEF Plan, Goto, layers
  <2>6. CASE NothingNew(p) \/ SkipLayer(p) \/ FetchFails(p) \/ LayersDone(p) \/ CreateFails(p)
    <3>1. UNCHANGED <<image, cutImage>> /\ pc'[p] \notin {"create", "write_image"}
      BY <1>0, <2>6 DEF NothingNew, SkipLayer, FetchFails, LayersDone, CreateFails, Exit,
         Step, At, Leave, Goto, AfterLayers, layers
    <3> QED
      BY <1>0, <1>1, <3>1
  <2> QED
    BY <1>3, <2>1, <2>2, <2>3, <2>4, <2>5, <2>6 DEF StoreStep
<1>4. CASE AppStep(p)
  <2>1. UNCHANGED <<image, cutImage>> /\ pc'[p] \notin {"create", "write_image"}
    BY <1>0, <1>4 DEF AppStep, MakeAppDir, OpenMeta, OpenMetaFails, WriteMeta, UnlinkCurrent,
       LinkCurrent, LinkCurrentFails, CheckTop, UnlinkTmp, LinkTmp, LinkTmpFails,
       RenameTmp, RenameFails, UnlinkRoot, LinkRoot, LinkRootFails, RemoveEntry,
       RemoveDir, Fails, Exit, At, Step, Leave, Goto, AfterMeta, AfterRoot, layers
  <2> QED
    BY <1>0, <1>1, <2>1
<1>5. CASE GcStep(p)
  <2>1. pc'[p] \notin {"create", "write_image"}
    BY <1>0, <1>5 DEF GcStep, GcReadLink, GcListLayers, GcKeep, GcDelete, GcEnd, Exit, Leave,
       Goto
  <2>2. cutImage' = {}
    BY <1>0, <1>5 DEF GcStep, GcReadLink, GcListLayers, GcKeep, GcDelete, GcEnd, layers
  <2>3. \A d \in Digest : image'[d] # "wrong"
    BY <1>0, <1>5 DEF GcStep, GcReadLink, GcListLayers, GcKeep, GcDelete, GcEnd, layers
  <2> QED
    BY <1>1, <2>1, <2>2, <2>3
<1>6. CASE Crash(p)
  BY <1>0, <1>6 DEF Crash
<1> QED
  BY <1>2, <1>3, <1>4, <1>5, <1>6 DEF Acts

\* With the store for itself, a collection sees every root there is.
LEMMA ReachesStep ==
    ASSUME Typing, OpsInv, Undisturbed, Undisturbed', RestInv, NEW p \in Proc, Acts(p)
    PROVE  ReachesInv'
<1>0. Reaches(p) /\ LocalOK /\ pc \in [Proc -> PC] /\ faults = 0 /\ faults' = 0
  BY DEF RestInv, ReachesInv, Typing, LocalOK, Undisturbed
<1>1. ASSUME Reaches(p)' PROVE ReachesInv'
  <2>1. \A q \in Proc \ {p} : Reaches(q)'
    BY OthersIdle DEF Undisturbed, Reaches, GcPC
  <2> QED
    BY <1>1, <2>1 DEF ReachesInv
<1>2. CASE pc'[p] \notin GcPC
  BY <1>1, <1>2 DEF Reaches, GcPC
<1>3. CASE Gc(p)
  BY <1>0, <1>1, <1>3 DEF Gc, Reaches, Goto, LocalOK, GcPC, Scans, roots
<1>4. CASE GcStep(p)
  <2>1. ASSUME NEW a \in App, GcReadLink(p, a) PROVE Reaches(p)'
    BY <1>0, <2>1 DEF GcReadLink, Reaches, LocalOK, Scans, roots
  <2>2. CASE GcListLayers(p)
    BY <1>0, <1>1, <2>2 DEF GcListLayers, Reaches, Goto, LocalOK, GcPC, Scans, roots
  <2>3. ASSUME NEW d \in Digest, GcKeep(p, d) \/ \E left \in Image : GcDelete(p, d, left)
        PROVE  Reaches(p)'
    BY <1>0, <2>3 DEF GcKeep, GcDelete, Reaches, LocalOK, GcPC, Scans, roots
  <2>4. CASE GcEnd(p)
    BY <1>0, <1>2, <2>4 DEF GcEnd, Exit, Leave, Goto, GcPC
  <2> QED
    BY <1>1, <1>4, <2>1, <2>2, <2>3, <2>4 DEF GcStep
<1>5. ASSUME pc'[p] \in GcPC PROVE Gc(p) \/ GcStep(p)
  <2>1. CASE Begin(p)
    BY <1>0, <1>5, <2>1 DEF Begin, Install, Mount, ReadMeta, Edit, Remove, Start, Goto, GcPC
  <2>2. CASE StoreStep(p)
    BY <1>0, <1>5, <2>2 DEF StoreStep, Plan, NothingNew, SkipLayer, FetchFails, LayersDone,
       FetchLayer, CreateImage, CreateFails, WriteImage, WriteFails, Exit, Step, At, Leave,
       Goto, AfterLayers, GcPC
  <2>3. CASE AppStep(p)
    BY <1>0, <1>5, <2>3 DEF AppStep, MakeAppDir, OpenMeta, OpenMetaFails, WriteMeta,
       UnlinkCurrent, LinkCurrent, LinkCurrentFails, CheckTop, UnlinkTmp, LinkTmp,
       LinkTmpFails, RenameTmp, RenameFails, UnlinkRoot, LinkRoot, LinkRootFails,
       RemoveEntry, RemoveDir, Fails, Exit, At, Step, Leave, Goto, AfterMeta, AfterRoot,
       GcPC
  <2>4. CASE Crash(p)
    BY <1>0, <2>4 DEF Crash
  <2> QED
    BY <2>1, <2>2, <2>3, <2>4 DEF Acts
<1> QED
  BY <1>1, <1>2, <1>3, <1>4, <1>5 DEF Reaches, Gc

\* A collection deletes no layer that a root names; everything else adds to
\* the store, and a root is made of a layer that is there.
LEMMA RootsStep ==
    ASSUME Typing, OpsInv, LinkInv, NoChecker, Undisturbed, Undisturbed', RestInv,
           NEW p \in Proc, Acts(p)
    PROVE  RootsInStore'
<1>0. /\ Have(pc[p], job[p], InStore) /\ Reaches(p) /\ faults = 0 /\ faults' = 0
      /\ root \in [App -> Digest \cup {None}] /\ image \in [Digest -> Image]
  BY DEF RestInv, HaveInv, ReachesInv, Typing, FilesOK, Undisturbed
<1>1. \A a \in App : root[a] = None \/ root[a] \in InStore
  BY DEF RestInv, RootsInStore
<1>2. CASE pc[p] \notin GcPC
  <2>1. InStore \subseteq InStore'
    BY <1>2, StoreGrows DEF Undisturbed
  <2>2. CASE LinkRoot(p)
    <3>1. pc[p] = "link_root" /\ job[p].op # "edit"
      BY <2>2 DEF LinkRoot, OpsInv, OpFits, Updating
    <3>2. Top(job[p].rel) \in InStore
      BY <1>0, <3>1 DEF Have, MetaPC
    <3>3. root' = [root EXCEPT ![job[p].app] = Top(job[p].rel)]
      BY <2>2 DEF LinkRoot
    <3> QED
      BY <1>0, <1>1, <2>1, <3>2, <3>3 DEF RootsInStore
  <2>3. CASE UnlinkRoot(p)
    BY <1>0, <1>1, <2>1, <2>3 DEF UnlinkRoot, RootsInStore
  <2>4. ASSUME ~LinkRoot(p), ~UnlinkRoot(p) PROVE UNCHANGED root
    <3>1. CASE Begin(p)
      BY <3>1 DEF Begin, Install, Mount, ReadMeta, Edit, Remove, Gc, roots
    <3>2. CASE StoreStep(p)
      BY <3>2 DEF StoreStep, Plan, NothingNew, SkipLayer, FetchFails, LayersDone,
         FetchLayer, CreateImage, CreateFails, WriteImage, WriteFails, roots
    <3>3. CASE AppStep(p)
      BY <2>4, <3>3 DEF AppStep, MakeAppDir, OpenMeta, OpenMetaFails, WriteMeta,
         UnlinkCurrent, LinkCurrent, LinkCurrentFails, CheckTop, UnlinkTmp, LinkTmp,
         LinkTmpFails, RenameTmp, RenameFails, LinkRootFails, RemoveEntry, RemoveDir, roots
    <3>4. CASE GcStep(p)
      BY <3>4 DEF GcStep, GcReadLink, GcListLayers, GcKeep, GcDelete, GcEnd, roots
    <3>5. CASE Crash(p)
      BY <3>5 DEF Crash
    <3> QED
      BY <3>1, <3>2, <3>3, <3>4, <3>5 DEF Acts
  <2> QED
    BY <1>1, <2>1, <2>2, <2>3, <2>4 DEF RootsInStore
<1>3. CASE pc[p] \in GcPC
  <2>1. GcStep(p)
    <3>1. ~Begin(p) /\ ~StoreStep(p) /\ ~AppStep(p)
      BY <1>3 DEF GcPC, Begin, Install, Mount, ReadMeta, Edit, Remove, Gc, Start,
         StoreStep, Plan, NothingNew, SkipLayer, FetchFails, LayersDone, FetchLayer,
         CreateImage, CreateFails, WriteImage, WriteFails, AppStep, MakeAppDir, OpenMeta,
         OpenMetaFails, WriteMeta, UnlinkCurrent, LinkCurrent, LinkCurrentFails, CheckTop,
         UnlinkTmp, LinkTmp, LinkTmpFails, RenameTmp, RenameFails, UnlinkRoot, LinkRoot,
         LinkRootFails, RemoveEntry, RemoveDir, Fails, Exit, At, Step
    <3>2. ~Crash(p)
      BY <1>0 DEF Crash
    <3> QED
      BY <3>1, <3>2 DEF Acts
  <2>2. UNCHANGED root
    BY <2>1 DEF GcStep, GcReadLink, GcListLayers, GcKeep, GcDelete, GcEnd, roots
  <2>3. ASSUME NEW a \in App, root[a] # None PROVE HasLayer(root[a])'
    <3>1. HasLayer(root[a]) /\ root[a] \in Digest
      BY <1>1, <2>3 DEF InStore
    <3>2. ASSUME NEW d \in Digest, NEW left \in Image, GcDelete(p, d, left)
          PROVE  root[a] # d /\ image' = [image EXCEPT ![d] = left]
      BY <1>0, <2>3, <3>2 DEF GcDelete, Reaches, GcPC
    <3>3. ASSUME ~\E d \in Digest, left \in Image : GcDelete(p, d, left)
          PROVE  UNCHANGED image
      BY <2>1, <3>3 DEF GcStep, GcReadLink, GcListLayers, GcKeep, GcEnd, layers
    <3> QED
      BY <1>0, <2>2, <3>1, <3>2, <3>3 DEF HasLayer
  <2> QED
    BY <2>2, <2>3, <1>0 DEF RootsInStore, InStore
<1> QED
  BY <1>2, <1>3

\* What a command finds in the store or puts there stays until it ends.
LEMMA HaveStep ==
    ASSUME Typing, OpsInv, OpsInv', LinkInv, NoChecker, Undisturbed, Undisturbed', RestInv,
           NEW p \in Proc, Acts(p)
    PROVE  HaveInv'
<1> DEFINE l == pc[p]
           j == job[p]
           Goal == Have(pc'[p], job'[p], InStore')
<1>0. /\ Have(l, j, InStore) /\ OpFits(l, j) /\ j.op # "refresh" /\ JobFits(l, j) /\ j \in Job
      /\ pc \in [Proc -> PC] /\ job \in [Proc -> Job] /\ image \in [Digest -> Image]
  BY NoRefresh DEF RestInv, HaveInv, OpsInv, Typing, LocalOK, FilesOK
<1>1. ASSUME Goal PROVE HaveInv'
  <2>1. ASSUME NEW q \in Proc \ {p} PROVE Have(pc'[q], job'[q], InStore')
    <3>1. pc'[q] = "idle" /\ OpFits(pc'[q], job'[q])
      BY OthersIdle DEF Undisturbed, OpsInv, OpFits
    <3> QED
      BY <3>1, IdleClaimsNothing DEF OpFits
  <2>2. \A q \in Proc : Have(pc'[q], job'[q], InStore')
    BY <1>1, <2>1
  <2> QED
    BY <2>2 DEF HaveInv
<1>2. ASSUME pc'[p] = "idle" PROVE Goal
  <2>1. OpFits(pc'[p], job'[p])
    BY DEF OpsInv, OpFits
  <2> QED
    BY <1>2, <2>1, IdleClaimsNothing DEF OpFits
<1>3. ASSUME pc'[p] \notin StorePC \cup MetaPC PROVE Goal
  BY <1>3 DEF Have, StorePC
<1>4. l \notin GcPC => InStore \subseteq InStore'
  BY StoreGrows DEF Undisturbed
<1>5. CASE Begin(p)
  <2>1. ASSUME NEW r \in Release, Install(p, r) \/ Mount(p, r) PROVE Goal
    <3>1. pc'[p] = "layer" /\ job'[p].at = 1 /\ job'[p].op # "update"
      BY <1>0, <2>1 DEF Install, Mount, Start, Goto, NoJob
    <3> QED
      BY <3>1 DEF Have, MetaPC
  <2>2. ASSUME NEW a \in App, NEW perm \in Perm, Edit(p, a, perm) PROVE Goal
    <3>1. pc'[p] = "open_meta" /\ job'[p].op = "edit"
      BY <1>0, <2>2 DEF Edit, Start, Goto, NoJob
    <3> QED
      BY <3>1 DEF Have, StorePC
  <2>3. ASSUME \/ \E a \in App : Remove(p, a) \/ \E op \in Command : ReadMeta(p, op, a)
               \/ Gc(p)
        PROVE  pc'[p] \notin StorePC \cup MetaPC
    BY <1>0, <2>3 DEF Remove, ReadMeta, Gc, Start, Goto, StorePC, MetaPC
  <2> QED
    BY <1>1, <1>3, <1>5, <2>1, <2>2, <2>3 DEF Begin
<1>6. CASE StoreStep(p)
  <2>0. InStore \subseteq InStore'
    BY <1>4, <1>6 DEF GcPC, StoreStep, Plan, NothingNew, SkipLayer, FetchFails, LayersDone,
       FetchLayer, CreateImage, CreateFails, WriteImage, WriteFails, Exit
  <2>1. ASSUME NEW r \in Release, Plan(p, r) PROVE Goal
    <3>1. /\ pc'[p] = "layer" /\ job'[p].at = 1
          /\ job'[p].need = {d \in Digest : ~HasLayer(d)}
      BY <1>0, <2>1 DEF Plan, Goto, Job
    <3>2. Digest \ job'[p].need \subseteq InStore
      BY <3>1 DEF InStore
    <3> QED
      BY <2>0, <3>1, <3>2 DEF Have, MetaPC
  <2>2. ASSUME l \in StorePC, pc'[p] = "layer", Advance(p), LayersOf[j.rel][j.at] \in InStore'
        PROVE  Goal
    <3>1. /\ job'[p].rel = j.rel /\ job'[p].at = j.at + 1 /\ job'[p].op = j.op
          /\ job'[p].need = j.need /\ j.at \in Nat /\ j.rel \in Release
      BY <1>0, <2>2 DEF Advance, Job, JobFits
    <3>2. ASSUME NEW i \in 1 .. Len(LayersOf[j.rel]), i < j.at + 1
          PROVE  LayersOf[j.rel][i] \in InStore'
      <4>1. i < j.at \/ i = j.at
        BY <3>1, <3>2, LayersTyped
      <4> QED
        BY <1>0, <2>0, <2>2, <4>1 DEF Have
    <3>3. j.op = "update" => Digest \ j.need \subseteq InStore'
      BY <1>0, <2>0, <2>2 DEF Have
    <3> QED
      BY <2>2, <3>1, <3>2, <3>3 DEF Have, MetaPC
  <2>3. CASE SkipLayer(p)
    <3>1. l \in StorePC /\ j.at \in 1 .. Len(LayersOf[j.rel]) /\ j.rel \in Release
      BY <1>0, <2>3, LayersTyped DEF SkipLayer, LastLayer, JobFits, StorePC, Job
    <3>2. Layer(p) \in Digest /\ Layer(p) = LayersOf[j.rel][j.at]
      BY <3>1, LayersTyped DEF Layer
    <3>3. j.op \in {"update", "install", "mount"}
      BY <1>0, <3>1 DEF OpFits, Updating
    <3>4. Layer(p) \in InStore
      BY <1>0, <2>3, <3>1, <3>2, <3>3 DEF SkipLayer, Skips, Have, InStore
    <3> QED
      BY <1>1, <2>0, <2>2, <2>3, <3>1, <3>2, <3>4 DEF SkipLayer
  <2>4. CASE NothingNew(p) \/ FetchFails(p) \/ CreateFails(p) \/ WriteFails(p)
    BY <1>0, <1>1, <1>2, <2>4 DEF NothingNew, FetchFails, CreateFails, WriteFails, Exit, Leave, Goto
  <2>5. CASE LayersDone(p)
    <3>1. /\ l = "layer" /\ j.rel \in Release /\ j.at > Len(LayersOf[j.rel]) /\ j.at \in Nat
          /\ Len(LayersOf[j.rel]) \in Nat \ {0}
      BY <1>0, <2>5, LayersTyped DEF LayersDone, LastLayer, JobFits, StorePC, Job
    <3>2. Top(j.rel) \in InStore
      BY <1>0, <3>1 DEF Have, StorePC, Top
    <3>3. \/ pc'[p] = "idle"
          \/ pc'[p] \in {"app_dir", "check_top"} /\ job'[p] = j
      BY <1>0, <2>5 DEF LayersDone, AfterLayers, Step, Exit, At, Leave, Goto
    <3> QED
      BY <1>1, <1>2, <2>0, <3>2, <3>3 DEF Have, StorePC
  <2>6. ASSUME NEW data \in {"whole", "wrong"}, FetchLayer(p, data) PROVE Goal
    <3>1. /\ l = "layer" /\ pc'[p] = "create" /\ job'[p].rel = j.rel
          /\ job'[p].at = j.at /\ job'[p].op = j.op /\ job'[p].need = j.need
      BY <1>0, <2>6 DEF FetchLayer, Goto, Job
    <3> QED
      BY <1>0, <2>0, <3>1 DEF Have, MetaPC, StorePC
  <2>7. CASE CreateImage(p)
    <3>1. l = "create" /\ pc'[p] = "write_image" /\ job'[p] = j
      BY <1>0, <2>7 DEF CreateImage, Goto
    <3>2. Layer(p) \in InStore'
      BY <1>0, <2>7, <3>1, LayerTyped DEF CreateImage, InStore, HasLayer, Typing
    <3> QED
      BY <1>0, <1>1, <2>0, <3>1, <3>2 DEF Have, MetaPC, StorePC, Layer
  <2>8. CASE WriteImage(p)
    <3>1. l = "write_image" /\ pc'[p] = "layer" /\ Advance(p)
      BY <1>0, <2>8 DEF WriteImage, Goto
    <3> QED
      BY <1>0, <1>1, <2>0, <2>2, <3>1 DEF Have, StorePC
  <2> QED
    BY <1>1, <1>6, <2>1, <2>3, <2>4, <2>5, <2>6, <2>7, <2>8 DEF StoreStep
<1>7. CASE AppStep(p)
  <2>1. \/ pc'[p] = "idle" \/ pc'[p] = "remove"
        \/ l \in MetaPC /\ pc'[p] \in MetaPC /\ job'[p] = j
    BY <1>0, <1>7 DEF AppStep, MakeAppDir, OpenMeta, OpenMetaFails, WriteMeta, UnlinkCurrent,
       LinkCurrent, LinkCurrentFails, CheckTop, UnlinkTmp, LinkTmp, LinkTmpFails,
       RenameTmp, RenameFails, UnlinkRoot, LinkRoot, LinkRootFails, RemoveEntry,
       RemoveDir, Fails, Exit, At, Step, Leave, Goto, AfterMeta, AfterRoot, MetaPC
  <2>2. ASSUME l \in MetaPC, pc'[p] \in MetaPC, job'[p] = j PROVE Goal
    BY <1>0, <1>4, <2>2 DEF Have, StorePC, MetaPC, GcPC
  <2> QED
    BY <1>1, <1>2, <1>3, <2>1, <2>2 DEF StorePC, MetaPC
<1>8. CASE GcStep(p) \/ Crash(p)
  <2>1. pc'[p] \notin StorePC \cup MetaPC
    BY <1>0, <1>8 DEF GcStep, GcReadLink, GcListLayers, GcKeep, GcDelete, GcEnd, Crash, Exit,
       Leave, Goto, StorePC, MetaPC
  <2> QED
    BY <1>1, <1>3, <2>1
<1> QED
  BY <1>5, <1>6, <1>7, <1>8 DEF Acts

\* The files of an application that are not touched.
SameApp(b) ==
    /\ meta'[b] = meta[b] /\ current'[b] = current[b] /\ tmp'[b] = tmp[b]
    /\ root'[b] = root[b] /\ asked'[b] = asked[b] /\ (b \in appdir' <=> b \in appdir)

LEMMA SettledSame ==
    ASSUME NEW b, SameApp(b), Settled(b)
    PROVE  Settled(b)'
BY DEF SameApp, Settled

\* An application that nobody is at work on is settled.
LEMMA SettledNow ==
    ASSUME SettledInv, NEW p \in Proc, \A q \in Proc \ {p} : pc[q] = "idle",
           NEW b \in App, job[p].app # b \/ ~Mid(pc[p], job[p])
    PROVE  Settled(b)
<1>1. \A q \in Proc \ {p} : ~Mid(pc[q], job[q])
  BY DEF Mid
<1> QED
  BY <1>1 DEF SettledInv

\* One application at most is touched, and it is settled or still at work on.
LEMMA SettledOne ==
    ASSUME SettledInv, NEW p \in Proc, \A q \in Proc \ {p} : pc[q] = "idle",
           NEW a, \A b \in App \ {a} : SameApp(b),
           Mid(pc[p], job[p]) => job[p].app = a,
           a \in App => Settled(a)' \/ (Mid(pc[p], job[p])' /\ job'[p].app = a)
    PROVE  SettledInv'
<1>1. ASSUME NEW b \in App, b # a PROVE Settled(b)'
  <2>1. Settled(b)
    BY <1>1, SettledNow
  <2> QED
    BY <1>1, <2>1, SettledSame
<1>2. ASSUME a \in App
      PROVE  Settled(a)' \/ (\E q \in Proc : Mid(pc[q], job[q])' /\ job'[q].app = a)
  BY <1>2
<1>3. \A b \in App : Settled(b)' \/ \E q \in Proc : Mid(pc[q], job[q])' /\ job'[q].app = b
  BY <1>1, <1>2
<1> QED
  BY <1>3 DEF SettledInv

\* What the other processes claim is nothing, so it is enough to look at p.
LEMMA WayOne ==
    ASSUME OpsInv', NEW p \in Proc, \A q \in Proc \ {p} : pc'[q] = "idle", Way(p)'
    PROVE  WayInv'
<1>1. ASSUME NEW q \in Proc \ {p} PROVE Way(q)'
  <2>1. job'[q] = NoJob
    BY DEF OpsInv, OpFits
  <2> QED
    BY <2>1 DEF Way, WayOf, NoJob
<1> QED
  BY <1>1 DEF WayInv

\* A command begins at an application that is settled.
LEMMA WayBegin ==
    ASSUME Typing, OpsInv', NoChecker, RestInv, NEW p \in Proc, Begin(p),
           \A q \in Proc \ {p} : pc[q] = "idle" /\ pc'[q] = "idle"
    PROVE  WayInv' /\ SettledInv'
<1>0. /\ SettledInv /\ pc \in [Proc -> PC] /\ job \in [Proc -> Job]
      /\ meta \in [App -> Header \cup {None, Torn}]
  BY DEF RestInv, Typing, LocalOK, FilesOK
<1>1. pc[p] = "idle"
  BY DEF Begin, Install, Mount, ReadMeta, Edit, Remove, Gc, Start
<1>2. UNCHANGED <<appdir, meta, current, tmp, root, asked>>
  BY DEF Begin, Install, Mount, ReadMeta, Edit, Remove, Gc, apps, roots
<1>3. \A b \in App : Settled(b)
  BY <1>0, <1>1, SettledNow DEF Mid
<1>4. SettledInv'
  BY <1>2, <1>3 DEF SettledInv, Settled
<1>5. Way(p)'
  <2>1. ASSUME NEW r \in Release, Install(p, r) \/ Mount(p, r) PROVE Way(p)'
    <3>1. pc'[p] = "layer" /\ job'[p].op \in {"install", "mount"}
      BY <1>0, <2>1 DEF Install, Mount, Start, Goto, NoJob
    <3> QED
      BY <3>1 DEF Way, WayOf, MetaPC
  <2>2. ASSUME NEW a \in App, NEW op \in Command, ReadMeta(p, op, a) PROVE Way(p)'
    <3>1. /\ pc'[p] = "plan" /\ job'[p].op = op /\ job'[p].app = a /\ op # "refresh"
          /\ job'[p].perm = meta[a].perm /\ meta[a] \in Header
      BY <1>0, <2>2 DEF ReadMeta, Start, Goto, NoJob, NoChecker
    <3>2. a \in appdir /\ meta[a].perm = asked[a]
      BY <1>3, <3>1, SentinelAssumption DEF Settled, Header
    <3> QED
      BY <1>2, <2>2, <3>1, <3>2 DEF Way, WayOf, MetaPC, ReadMeta
  <2>3. ASSUME NEW a \in App, NEW perm \in Perm, Edit(p, a, perm) PROVE Way(p)'
    <3>1. /\ pc'[p] = "open_meta" /\ job'[p].op = "edit" /\ job'[p].app = a
          /\ job'[p].rel = meta[a].rel /\ meta[a] \in Header
      BY <1>0, <2>3 DEF Edit, Start, Goto, NoJob
    <3>2. a \in appdir /\ current[a] = Top(meta[a].rel) /\ root[a] = Top(meta[a].rel)
      BY <1>3, <3>1, SentinelAssumption DEF Settled, Header
    <3> QED
      BY <1>2, <3>1, <3>2 DEF Way, WayOf, MetaPC
  <2>4. ASSUME NEW a \in App, Remove(p, a) PROVE Way(p)'
    <3>1. /\ pc'[p] = "remove" /\ job'[p].op = "remove" /\ job'[p].app = a
          /\ job'[p].files = Present(a)
      BY <1>0, <2>4 DEF Remove, Start, Goto, NoJob
    <3>2. meta[a] # None => "meta" \in Present(a)
      BY DEF Present, AppFile
    <3> QED
      BY <1>2, <3>1, <3>2 DEF Way, WayOf, MetaPC
  <2>5. CASE Gc(p)
    <3>1. pc'[p] = "gc_roots"
      BY <1>0, <2>5 DEF Gc, Goto
    <3>2. job'[p] = NoJob
      BY <3>1 DEF OpsInv, OpFits
    <3> QED
      BY <3>1, <3>2 DEF Way, WayOf, NoJob, MetaPC
  <2> QED
    BY <2>1, <2>2, <2>3, <2>4, <2>5 DEF Begin
<1> QED
  BY <1>4, <1>5, WayOne

\* Outside the directory of its application a command keeps its way.
LEMMA WayStore ==
    ASSUME Typing, OpsInv, OpsInv', NoChecker, LinkInv, RestInv, NEW p \in Proc,
           StoreStep(p), \A q \in Proc \ {p} : pc[q] = "idle" /\ pc'[q] = "idle"
    PROVE  WayInv' /\ SettledInv'
<1>0. /\ SettledInv /\ Way(p) /\ pc \in [Proc -> PC] /\ job \in [Proc -> Job]
      /\ OpFits(pc[p], job[p]) /\ job[p].op # "refresh"
  BY NoRefresh DEF RestInv, WayInv, OpsInv, Typing, LocalOK
<1>1. pc[p] \in StorePC \cup {"plan"}
  BY DEF StoreStep, Plan, NothingNew, SkipLayer, FetchFails, LayersDone, FetchLayer,
     CreateImage, CreateFails, WriteImage, WriteFails, Exit, StorePC
<1>2. UNCHANGED <<appdir, meta, current, tmp, root, asked>>
  BY DEF StoreStep, Plan, NothingNew, SkipLayer, FetchFails, LayersDone, FetchLayer,
     CreateImage, CreateFails, WriteImage, WriteFails, apps, roots
<1>3. SettledInv'
  <2>1. \A b \in App : Settled(b)
    BY <1>0, <1>1, SettledNow DEF Mid, StorePC
  <2> QED
    BY <1>2, <2>1 DEF SettledInv, Settled
<1>4. \/ pc'[p] = "idle"
      \/ /\ pc'[p] \in StorePC \cup {"app_dir", "check_top"}
         /\ job'[p].op = job[p].op /\ job'[p].app = job[p].app /\ job'[p].perm = job[p].perm
  <2>1. ASSUME NEW r \in Release, Plan(p, r)
        PROVE  /\ pc'[p] = "layer" /\ job'[p].op = job[p].op
               /\ job'[p].app = job[p].app /\ job'[p].perm = job[p].perm
    BY <1>0, <2>1 DEF Plan, Goto, Job
  <2>2. ASSUME pc'[p] = "layer", Advance(p)
        PROVE  job'[p].op = job[p].op /\ job'[p].app = job[p].app /\ job'[p].perm = job[p].perm
    BY <1>0, <2>2 DEF Advance, Job
  <2>3. ASSUME NEW data \in {"whole", "wrong"}, FetchLayer(p, data)
        PROVE  /\ pc'[p] = "create" /\ job'[p].op = job[p].op
               /\ job'[p].app = job[p].app /\ job'[p].perm = job[p].perm
    BY <1>0, <2>3 DEF FetchLayer, Goto, Job
  <2>4. CASE SkipLayer(p) \/ WriteImage(p)
    <3>1. pc'[p] = "layer" /\ Advance(p)
      BY <1>0, <2>4 DEF SkipLayer, WriteImage, Goto
    <3> QED
      BY <2>2, <3>1 DEF StorePC
  <2>5. CASE NothingNew(p) \/ FetchFails(p) \/ CreateFails(p) \/ WriteFails(p)
    BY <1>0, <2>5 DEF NothingNew, FetchFails, CreateFails, WriteFails, Exit, Leave, Goto
  <2>6. CASE LayersDone(p)
    BY <1>0, <2>6 DEF LayersDone, AfterLayers, Step, Exit, At, Leave, Goto
  <2>7. CASE CreateImage(p)
    BY <1>0, <2>7 DEF CreateImage, Goto, StorePC
  <2> QED
    BY <2>1, <2>3, <2>4, <2>5, <2>6, <2>7 DEF StoreStep, StorePC
<1>5. Way(p)'
  <2>1. CASE pc'[p] = "idle"
    <3>1. job'[p] = NoJob
      BY <2>1 DEF OpsInv, OpFits
    <3> QED
      BY <2>1, <3>1 DEF Way, WayOf, NoJob, MetaPC
  <2>2. CASE pc'[p] # "idle"
    <3>1. job'[p].op # "edit"
      BY <1>0, <1>1, <1>4, <2>2 DEF OpFits, Updating, StorePC
    <3>2. pc'[p] = "check_top" => job'[p].op = "update"
      BY <1>0, <1>4, <2>2 DEF OpsInv, OpFits, Updating
    <3> QED
      BY <1>0, <1>2, <1>4, <2>2, <3>1, <3>2 DEF Way, WayOf, StorePC, MetaPC
  <2> QED
    BY <2>1, <2>2
<1> QED
  BY <1>3, <1>5, WayOne

\* A command that has ended claims nothing any more.
LEMMA WayIdle ==
    ASSUME OpsInv', NEW p \in Proc, pc'[p] = "idle"
    PROVE  Way(p)'
<1>1. job'[p] = NoJob
  BY DEF OpsInv, OpFits
<1> QED
  BY <1>1 DEF Way, WayOf, NoJob, MetaPC

\* What a step of p makes of its own application, a.
Kept(p, a) ==
    /\ Way(p)'
    /\ \A b \in App \ {a} : SameApp(b)
    /\ Settled(a)' \/ (Mid(pc[p], job[p])' /\ job'[p].app = a)

\* The context of the three lemmas below: p has the store for itself, and
\* its application is a.
Own(p, a) ==
    /\ Typing /\ OpFits(pc[p], job[p]) /\ job[p].op # "refresh"
    /\ Way(p) /\ Have(pc[p], job[p], InStore)
    /\ job[p].app = a /\ (Mid(pc[p], job[p]) \/ Settled(a))

\* The header is written: torn before, all of the new release after.
LEMMA KeptMeta ==
    ASSUME NEW p \in Proc, NEW a \in App, Own(p, a), OpsInv',
           \/ MakeAppDir(p) \/ OpenMeta(p) \/ OpenMetaFails(p) \/ WriteMeta(p)
    PROVE  Kept(p, a)
<1>0. /\ pc \in [Proc -> PC] /\ job \in [Proc -> Job] /\ linked \in [Proc -> BOOLEAN]
      /\ meta \in [App -> Header \cup {None, Torn}] /\ asked \in [App -> Perm \cup {None}]
      /\ job[p].app = a
  BY DEF Own, Typing, FilesOK, LocalOK
<1>1. CASE MakeAppDir(p)
  <2>1. /\ pc[p] = "app_dir" /\ pc'[p] = "open_meta" /\ job'[p] = job[p]
        /\ appdir' = appdir \cup {a}
        /\ UNCHANGED <<meta, current, tmp, root, asked>>
    BY <1>0, <1>1 DEF MakeAppDir, At, Goto, roots
  <2>2. job[p].op = "install"
    BY <2>1 DEF Own, OpFits
  <2>3. Way(p)'
    BY <1>0, <2>1, <2>2 DEF Way, WayOf, MetaPC
  <2>4. Settled(a)
    BY <2>1 DEF Own, Mid
  <2> QED
    BY <2>1, <2>3, <2>4 DEF Kept, SameApp, Settled
<1>2. CASE OpenMeta(p)
  <2>1. /\ pc[p] = "open_meta" /\ pc'[p] = "write_meta" /\ job'[p] = job[p]
        /\ meta' = [meta EXCEPT ![a] = Torn] /\ linked'[p] /\ a \in appdir
        /\ UNCHANGED <<appdir, current, tmp, root, asked>>
    BY <1>0, <1>2 DEF OpenMeta, Goto, roots
  <2>2. Way(p)'
    BY <1>0, <2>1 DEF Own, Way, WayOf, MetaPC
  <2>3. \A b \in App \ {a} : SameApp(b)
    BY <1>0, <2>1 DEF SameApp
  <2> QED
    BY <1>0, <2>1, <2>2, <2>3 DEF Kept, Mid
<1>3. CASE OpenMetaFails(p)
  <2>1. pc[p] = "open_meta" /\ a \notin appdir
    BY <1>0, <1>3 DEF OpenMetaFails, Exit
  <2>2. job[p].op \in {"install", "update", "edit"}
    BY <2>1 DEF Own, OpFits, Updating
  <2> QED
    BY <1>0, <2>1, <2>2 DEF Own, Way, WayOf, MetaPC
<1>4. CASE WriteMeta(p)
  <2> DEFINE h == [rel |-> job[p].rel, perm |-> job[p].perm]
  <2>1. /\ pc[p] = "write_meta" /\ linked[p]
        /\ meta' = [meta EXCEPT ![a] = h]
        /\ asked' = IF job[p].op \in {"install", "edit"}
                    THEN [asked EXCEPT ![a] = job[p].perm] ELSE asked
        /\ UNCHANGED <<appdir, current, tmp, root>>
    BY <1>0, <1>4 DEF WriteMeta, Own, Way, WayOf, roots
  <2>2. job[p].op \in {"install", "update", "edit"} /\ h \in Header /\ a \in appdir
    <3>1. job[p].op \in {"install", "update", "edit"}
      BY <2>1 DEF Own, OpFits, Updating
    <3>2. job[p].rel \in Release /\ job[p].perm \in Perm
      BY <2>1 DEF Own, Typing, LocalOK, JobFits, MetaPC
    <3> QED
      BY <1>0, <2>1, <3>1, <3>2 DEF Own, Way, WayOf, MetaPC, Header
  <2>3. meta'[a] = h /\ asked'[a] = job[p].perm
    <3>1. job[p].op = "update" => asked[a] = job[p].perm
      BY <1>0 DEF Own, Way, WayOf
    <3> QED
      BY <1>0, <2>1, <2>2, <3>1
  <2>4. \A b \in App \ {a} : SameApp(b)
    BY <1>0, <2>1 DEF SameApp
  <2>5. CASE job[p].op = "install"
    <3>1. pc'[p] = "unlink_current" /\ job'[p] = job[p]
      BY <1>0, <1>4, <2>5 DEF WriteMeta, AfterMeta, Goto
    <3>2. Way(p)'
      BY <1>0, <2>1, <2>2, <2>3, <2>5, <3>1 DEF Way, WayOf, MetaPC
    <3> QED
      BY <1>0, <2>4, <3>1, <3>2 DEF Kept, Mid
  <2>6. CASE job[p].op # "install"
    <3>1. pc'[p] = "idle"
      BY <1>0, <1>4, <2>6 DEF WriteMeta, AfterMeta, Leave, Goto
    <3>2. current[a] = Top(job[p].rel) /\ root[a] = Top(job[p].rel)
      BY <1>0, <2>1, <2>6 DEF Own, Way, WayOf
    <3>3. Settled(a)'
      BY <2>1, <2>2, <2>3, <3>2 DEF Settled, Top
    <3> QED
      BY <2>4, <3>1, <3>3, WayIdle DEF Kept
  <2> QED
    BY <2>5, <2>6
<1> QED
  BY <1>1, <1>2, <1>3, <1>4

\* The links are made again one after the other; nobody is in the way.
LEMMA KeptCurrent ==
    ASSUME NEW p \in Proc, NEW a \in App, Own(p, a), OpsInv',
           UnlinkCurrent(p) \/ LinkCurrent(p) \/ LinkCurrentFails(p)
    PROVE  Kept(p, a)
<1>0. /\ pc \in [Proc -> PC] /\ job \in [Proc -> Job]
      /\ current \in [App -> Digest \cup {None}] /\ job[p].app = a
  BY DEF Own, Typing, FilesOK, LocalOK
<1>1. pc[p] \in {"unlink_current", "link_current"}
  BY DEF UnlinkCurrent, LinkCurrent, LinkCurrentFails, At, Exit
<1>2. /\ job[p].op = "install" /\ a \in appdir
      /\ meta[a] = [rel |-> job[p].rel, perm |-> job[p].perm] /\ asked[a] = job[p].perm
  BY <1>0, <1>1 DEF Own, OpFits, Way, WayOf, MetaPC
<1>3. CASE UnlinkCurrent(p)
  <2>1. /\ pc'[p] = "link_current" /\ job'[p] = job[p]
        /\ current' = [current EXCEPT ![a] = None]
        /\ UNCHANGED <<appdir, meta, tmp, root, asked>>
    BY <1>0, <1>3 DEF UnlinkCurrent, At, Goto, roots
  <2>2. Way(p)'
    BY <1>0, <1>2, <2>1 DEF Way, WayOf, MetaPC
  <2>3. \A b \in App \ {a} : SameApp(b)
    BY <1>0, <2>1 DEF SameApp
  <2> QED
    BY <1>0, <2>1, <2>2, <2>3 DEF Kept, Mid
<1>4. CASE LinkCurrent(p)
  <2>1. /\ pc'[p] = "unlink_root" /\ job'[p] = job[p]
        /\ current' = [current EXCEPT ![a] = Top(job[p].rel)]
        /\ UNCHANGED <<appdir, meta, tmp, root, asked>>
    BY <1>0, <1>4 DEF LinkCurrent, At, Goto, roots
  <2>2. Way(p)'
    <3>1. current'[a] = Top(job[p].rel)
      BY <1>0, <2>1
    <3> QED
      BY <1>0, <1>2, <2>1, <3>1 DEF Way, WayOf, MetaPC, Top
  <2>3. \A b \in App \ {a} : SameApp(b)
    BY <1>0, <2>1 DEF SameApp
  <2> QED
    BY <1>0, <2>1, <2>2, <2>3 DEF Kept, Mid
<1>5. CASE LinkCurrentFails(p)
  <2>1. pc[p] = "link_current" /\ (a \notin appdir \/ current[a] # None)
    BY <1>0, <1>5 DEF LinkCurrentFails, Exit
  <2> QED
    BY <1>0, <1>2, <2>1 DEF Own, Way, WayOf
<1> QED
  BY <1>3, <1>4, <1>5

LEMMA KeptTmp ==
    ASSUME NEW p \in Proc, NEW a \in App, Own(p, a), OpsInv',
           \/ CheckTop(p) \/ UnlinkTmp(p) \/ LinkTmp(p) \/ LinkTmpFails(p)
           \/ RenameTmp(p) \/ RenameFails(p)
    PROVE  Kept(p, a)
<1>0. /\ pc \in [Proc -> PC] /\ job \in [Proc -> Job] /\ job[p].app = a
      /\ current \in [App -> Digest \cup {None}] /\ tmp \in [App -> Digest \cup {None}]
  BY DEF Own, Typing, FilesOK, LocalOK
<1>1. pc[p] \in {"check_top", "unlink_tmp", "link_tmp", "rename"}
  BY DEF CheckTop, UnlinkTmp, LinkTmp, LinkTmpFails, RenameTmp, RenameFails, Fails, At, Exit
<1>2. job[p].op = "update" /\ a \in appdir /\ asked[a] = job[p].perm /\ Settled(a)
  <2>1. job[p].op = "update"
    BY <1>1 DEF Own, OpFits, Updating
  <2> QED
    BY <1>0, <1>1, <2>1 DEF Own, Way, WayOf, Mid
<1>3. Top(job[p].rel) \in InStore /\ Top(job[p].rel) \in Digest /\ Top(job[p].rel) # None
  <2>1. Top(job[p].rel) \in InStore
    BY <1>1, <1>2 DEF Own, Have, MetaPC
  <2> QED
    BY <2>1, SentinelAssumption DEF InStore
<1>4. CASE CheckTop(p)
  <2>1. /\ pc'[p] = "unlink_tmp" /\ job'[p] = job[p]
        /\ UNCHANGED <<appdir, meta, current, tmp, root, asked>>
    BY <1>0, <1>3, <1>4 DEF CheckTop, InStore, At, Goto, roots, apps
  <2>2. Way(p)'
    BY <1>0, <1>2, <2>1 DEF Way, WayOf, MetaPC
  <2> QED
    BY <1>2, <2>1, <2>2 DEF Kept, SameApp, Settled
<1>5. CASE UnlinkTmp(p)
  <2>1. /\ pc'[p] = "link_tmp" /\ job'[p] = job[p] /\ tmp' = [tmp EXCEPT ![a] = None]
        /\ UNCHANGED <<appdir, meta, current, root, asked>>
    BY <1>0, <1>5 DEF UnlinkTmp, At, Goto, roots
  <2>2. Way(p)'
    BY <1>0, <1>2, <2>1 DEF Way, WayOf, MetaPC
  <2>3. Settled(a)' /\ \A b \in App \ {a} : SameApp(b)
    BY <1>0, <1>2, <2>1 DEF SameApp, Settled
  <2> QED
    BY <2>2, <2>3 DEF Kept
<1>6. CASE LinkTmp(p)
  <2>1. /\ pc'[p] = "rename" /\ job'[p] = job[p]
        /\ tmp' = [tmp EXCEPT ![a] = Top(job[p].rel)]
        /\ UNCHANGED <<appdir, meta, current, root, asked>>
    BY <1>0, <1>6 DEF LinkTmp, At, Goto, roots
  <2>2. tmp'[a] = Top(job[p].rel)
    BY <1>0, <2>1
  <2>3. Way(p)'
    BY <1>0, <1>2, <2>1, <2>2 DEF Way, WayOf, MetaPC, Top
  <2>4. Settled(a)' /\ \A b \in App \ {a} : SameApp(b)
    BY <1>0, <1>2, <2>1 DEF SameApp, Settled
  <2> QED
    BY <2>3, <2>4 DEF Kept
<1>7. CASE RenameTmp(p)
  <2>1. /\ pc'[p] = "unlink_root" /\ job'[p] = job[p] /\ tmp[a] = Top(job[p].rel)
        /\ current' = [current EXCEPT ![a] = tmp[a]] /\ tmp' = [tmp EXCEPT ![a] = None]
        /\ UNCHANGED <<appdir, meta, root, asked>>
    BY <1>0, <1>7 DEF RenameTmp, At, Goto, roots, Own, Way, WayOf
  <2>2. current'[a] = Top(job[p].rel)
    BY <1>0, <2>1
  <2>3. Way(p)'
    BY <1>0, <1>2, <2>1, <2>2 DEF Way, WayOf, MetaPC, Top
  <2>4. \A b \in App \ {a} : SameApp(b)
    BY <1>0, <2>1 DEF SameApp
  <2> QED
    BY <1>0, <2>1, <2>3, <2>4 DEF Kept, Mid
<1>8. CASE LinkTmpFails(p)
  <2>1. pc[p] = "link_tmp" /\ (a \notin appdir \/ tmp[a] # None)
    BY <1>0, <1>8 DEF LinkTmpFails, Fails, At, Exit
  <2> QED
    BY <1>0, <1>2, <2>1 DEF Own, Way, WayOf
<1>9. CASE RenameFails(p)
  <2>1. pc[p] = "rename" /\ tmp[a] = None
    BY <1>0, <1>9 DEF RenameFails, Fails, At, Exit
  <2> QED
    BY <1>0, <1>3, <2>1 DEF Own, Way, WayOf
<1> QED
  BY <1>4, <1>5, <1>6, <1>7, <1>8, <1>9

LEMMA KeptRoot ==
    ASSUME NEW p \in Proc, NEW a \in App, Own(p, a), OpsInv',
           UnlinkRoot(p) \/ LinkRoot(p) \/ LinkRootFails(p)
    PROVE  Kept(p, a)
<1>0. /\ pc \in [Proc -> PC] /\ job \in [Proc -> Job] /\ job[p].app = a
      /\ root \in [App -> Digest \cup {None}]
  BY DEF Own, Typing, FilesOK, LocalOK
<1>1. pc[p] \in {"unlink_root", "link_root"}
  BY DEF UnlinkRoot, LinkRoot, LinkRootFails, Fails, At, Exit
<1>2. job[p].op \in {"install", "update"} /\ a \in appdir /\ current[a] = Top(job[p].rel)
  <2>1. job[p].op \in {"install", "update"}
    BY <1>1 DEF Own, OpFits, Updating
  <2> QED
    BY <1>0, <1>1, <2>1 DEF Own, Way, WayOf, MetaPC
<1>3. job[p].op = "install" =>
         meta[a] = [rel |-> job[p].rel, perm |-> job[p].perm] /\ asked[a] = job[p].perm
  BY <1>0, <1>1 DEF Own, Way, WayOf
<1>4. job[p].op = "update" => asked[a] = job[p].perm
  BY <1>0 DEF Own, Way, WayOf
<1>5. job[p].rel \in Release /\ job[p].perm \in Perm
  BY <1>1 DEF Own, Typing, LocalOK, JobFits, MetaPC
<1>6. CASE UnlinkRoot(p)
  <2>1. /\ pc'[p] = "link_root" /\ job'[p] = job[p] /\ root' = [root EXCEPT ![a] = None]
        /\ UNCHANGED <<appdir, meta, current, tmp, asked>>
    BY <1>0, <1>6 DEF UnlinkRoot, At, Goto, apps
  <2>2. Way(p)'
    BY <1>0, <1>2, <1>3, <1>4, <2>1 DEF Way, WayOf, MetaPC, Top
  <2>3. \A b \in App \ {a} : SameApp(b)
    BY <1>0, <2>1 DEF SameApp
  <2> QED
    BY <1>0, <2>1, <2>2, <2>3 DEF Kept, Mid
<1>7. CASE LinkRoot(p)
  <2>1. /\ root' = [root EXCEPT ![a] = Top(job[p].rel)]
        /\ UNCHANGED <<appdir, meta, current, tmp, asked>>
    BY <1>0, <1>7 DEF LinkRoot, apps
  <2>2. root'[a] = Top(job[p].rel) /\ \A b \in App \ {a} : SameApp(b)
    BY <1>0, <2>1 DEF SameApp
  <2>3. CASE job[p].op = "install"
    <3>1. pc'[p] = "idle"
      BY <1>0, <1>7, <2>3 DEF LinkRoot, Step, AfterRoot, Exit, Leave, Goto
    <3>2. Settled(a)'
      BY <1>2, <1>3, <1>5, <2>1, <2>2, <2>3 DEF Settled, Top, Header
    <3> QED
      BY <2>2, <3>1, <3>2, WayIdle DEF Kept
  <2>4. CASE job[p].op = "update"
    <3>1. pc'[p] = "open_meta" /\ job'[p] = job[p]
      BY <1>0, <1>7, <2>4 DEF LinkRoot, Step, AfterRoot, At, Goto
    <3>2. Way(p)'
      BY <1>0, <1>2, <1>4, <2>1, <2>2, <2>4, <3>1 DEF Way, WayOf, MetaPC, Top
    <3> QED
      BY <1>0, <2>2, <2>4, <3>1, <3>2 DEF Kept, Mid
  <2> QED
    BY <1>2, <2>3, <2>4
<1>8. CASE LinkRootFails(p)
  <2>1. pc[p] = "link_root" /\ root[a] # None
    BY <1>0, <1>8 DEF LinkRootFails, Fails, At, Exit
  <2> QED
    BY <1>0, <2>1 DEF Own, Way, WayOf
<1> QED
  BY <1>6, <1>7, <1>8

\* The header goes with the directory, which nobody fills meanwhile.
LEMMA KeptRemove ==
    ASSUME NEW p \in Proc, NEW a \in App, Own(p, a), OpsInv',
           (\E f \in AppFile : RemoveEntry(p, f)) \/ RemoveDir(p)
    PROVE  Kept(p, a)
<1>0. /\ pc \in [Proc -> PC] /\ job \in [Proc -> Job] /\ job[p].app = a
      /\ meta \in [App -> Header \cup {None, Torn}]
      /\ current \in [App -> Digest \cup {None}] /\ tmp \in [App -> Digest \cup {None}]
  BY DEF Own, Typing, FilesOK, LocalOK
<1>1. pc[p] = "remove"
  BY DEF RemoveEntry, RemoveDir, Exit
<1>2. job[p].op = "remove" /\ (meta[a] # None => "meta" \in job[p].files)
  BY <1>0, <1>1 DEF Own, OpFits, Way, WayOf
<1>3. ASSUME NEW f \in AppFile, RemoveEntry(p, f) PROVE Kept(p, a)
  <2>1. /\ meta' = IF f = "meta" THEN [meta EXCEPT ![a] = None] ELSE meta
        /\ current' = IF f = "current" THEN [current EXCEPT ![a] = None] ELSE current
        /\ tmp' = IF f = "current.tmp" THEN [tmp EXCEPT ![a] = None] ELSE tmp
        /\ UNCHANGED <<appdir, root, asked>>
    BY <1>0, <1>3 DEF RemoveEntry, roots
  <2>2. /\ pc'[p] = "remove" /\ job'[p].op = "remove" /\ job'[p].app = a
        /\ job'[p].files = job[p].files \ {f}
    BY <1>0, <1>1, <1>2, <1>3 DEF RemoveEntry, Job
  <2>3. meta'[a] # None => meta[a] # None /\ f # "meta"
    BY <1>0, <2>1
  <2>4. Way(p)'
    BY <1>2, <2>2, <2>3 DEF Way, WayOf, MetaPC
  <2>5. \A b \in App \ {a} : SameApp(b)
    BY <1>0, <2>1 DEF SameApp
  <2> QED
    BY <2>2, <2>4, <2>5 DEF Kept, Mid
<1>4. CASE RemoveDir(p)
  <2>1. /\ job[p].files = {} /\ pc'[p] = "idle"
        /\ appdir' \in {appdir, appdir \ {a}}
        /\ UNCHANGED <<meta, current, tmp, root, asked>>
    BY <1>0, <1>4 DEF RemoveDir, Exit, Leave, Goto, roots
  <2>2. Settled(a)'
    BY <1>2, <2>1 DEF Settled
  <2>3. \A b \in App \ {a} : SameApp(b)
    BY <2>1 DEF SameApp
  <2> QED
    BY <2>1, <2>2, <2>3, WayIdle DEF Kept
<1> QED
  BY <1>3, <1>4

LEMMA WayApp ==
    ASSUME Typing, OpsInv, OpsInv', NoChecker, LinkInv, RestInv, NEW p \in Proc,
           AppStep(p), \A q \in Proc \ {p} : pc[q] = "idle" /\ pc'[q] = "idle"
    PROVE  WayInv' /\ SettledInv'
<1>1. pc[p] \in MetaPC \cup {"remove"}
  BY DEF AppStep, MakeAppDir, OpenMeta, OpenMetaFails, WriteMeta, UnlinkCurrent,
     LinkCurrent, LinkCurrentFails, CheckTop, UnlinkTmp, LinkTmp, LinkTmpFails,
     RenameTmp, RenameFails, UnlinkRoot, LinkRoot, LinkRootFails, RemoveEntry,
     RemoveDir, Fails, Exit, At, MetaPC
<1>2. PICK a \in App : job[p].app = a
  BY <1>1 DEF Typing, LocalOK, JobFits, AppPC
<1>3. SettledInv
  BY DEF RestInv
<1>4. Mid(pc[p], job[p]) \/ Settled(a)
  BY <1>3, SettledNow
<1>5. Own(p, a)
  BY <1>2, <1>4, NoRefresh DEF Own, OpsInv, RestInv, WayInv, HaveInv
<1>6. Kept(p, a)
  BY <1>5, KeptMeta, KeptCurrent, KeptTmp, KeptRoot, KeptRemove DEF AppStep
<1>7. Way(p)' /\ (\A b \in App \ {a} : SameApp(b))
      /\ (Settled(a)' \/ (Mid(pc[p], job[p])' /\ job'[p].app = a))
  BY <1>6 DEF Kept
<1> QED
  BY <1>2, <1>3, <1>7, SettledOne, WayOne

\* A collection has nothing to do with the directories of the applications.
LEMMA WayGc ==
    ASSUME Typing, OpsInv, OpsInv', RestInv, NEW p \in Proc,
           GcStep(p), \A q \in Proc \ {p} : pc[q] = "idle" /\ pc'[q] = "idle"
    PROVE  WayInv' /\ SettledInv'
<1>1. pc[p] \in GcPC /\ pc'[p] \in GcPC \cup {"idle"}
  BY DEF GcStep, GcReadLink, GcListLayers, GcKeep, GcDelete, GcEnd, Exit, Leave, Goto,
     Typing, LocalOK, GcPC
<1>2. job'[p] = NoJob
  BY <1>1 DEF OpsInv, OpFits, GcPC
<1>3. Way(p)'
  BY <1>1, <1>2 DEF Way, WayOf, NoJob, MetaPC, GcPC
<1>4. UNCHANGED <<appdir, meta, current, tmp, root, asked>>
  BY DEF GcStep, GcReadLink, GcListLayers, GcKeep, GcDelete, GcEnd, apps, roots
<1>5. \A b \in App : Settled(b)
  BY <1>1, SettledNow DEF RestInv, Mid, GcPC
<1>6. SettledInv'
  BY <1>4, <1>5 DEF SettledInv, Settled
<1> QED
  BY <1>3, <1>6, WayOne

\* Everything that holds between two commands, and what a command at work
\* makes of it, carried over one step.
LEMMA RestStep ==
    ASSUME Typing, OpsInv, OpsInv', LinkInv, NoChecker, Undisturbed, Undisturbed', RestInv,
           [Next]_vars
    PROVE  RestInv'
<1>1. ASSUME NEW p \in Proc, Acts(p) PROVE RestInv'
  <2>1. \A q \in Proc \ {p} : pc[q] = "idle" /\ pc'[q] = "idle"
    BY <1>1, OthersIdle DEF Undisturbed
  <2>2. ~Crash(p)
    BY DEF Crash, Undisturbed, Typing, FilesOK
  <2>3. WayInv' /\ SettledInv'
    BY <1>1, <2>1, <2>2, WayBegin, WayStore, WayApp, WayGc DEF Acts
  <2>4. ImagesMeant' /\ RootsInStore' /\ HaveInv' /\ ReachesInv'
    BY <1>1, MeantStep, RootsStep, HaveStep, ReachesStep
  <2> QED
    BY <2>3, <2>4 DEF RestInv
<1>2. CASE UNCHANGED vars
  <2>1. UNCHANGED <<image, cutImage, appdir, meta, current, tmp, root, asked, pc, job,
                    linked, scan>>
    BY <1>2 DEF vars, layers, apps, roots, local
  <2>2. ImagesMeant'
    BY <2>1 DEF RestInv, ImagesMeant
  <2>3. InStore' = InStore
    BY <2>1 DEF InStore, HasLayer
  <2>4. RootsInStore' /\ HaveInv'
    BY <2>1, <2>3 DEF RestInv, RootsInStore, HaveInv
  <2>5. ReachesInv'
    BY <2>1 DEF RestInv, ReachesInv, Reaches
  <2>6. WayInv'
    BY <2>1 DEF RestInv, WayInv, Way, WayOf
  <2>7. SettledInv'
    BY <2>1 DEF RestInv, SettledInv, Settled
  <2> QED
    BY <2>2, <2>4, <2>5, <2>6, <2>7 DEF RestInv
<1> QED
  BY <1>1, <1>2 DEF Next, Acts

LEMMA RestInit == Init => OpsInv /\ RestInv
<1> SUFFICES ASSUME Init PROVE OpsInv /\ RestInv
  OBVIOUS
<1>1. \A p \in Proc : pc[p] = "idle" /\ job[p] = NoJob
  BY DEF Init
<1>2. OpsInv
  BY <1>1 DEF OpsInv, OpFits, NoJob, StorePC, Updating
<1>3. ImagesMeant
  BY <1>1 DEF Init, ImagesMeant
<1>4. RootsInStore /\ SettledInv
  BY DEF Init, RootsInStore, SettledInv, Settled
<1>5. HaveInv
  BY <1>1, IdleClaimsNothing DEF HaveInv
<1>6. ReachesInv
  BY <1>1 DEF ReachesInv, Reaches, GcPC
<1>7. WayInv
  BY <1>1, IdleClaimsNothing DEF WayInv, Way
<1> QED
  BY <1>2, <1>3, <1>4, <1>5, <1>6, <1>7 DEF RestInv

\* What the invariant says once nobody is at work.
LEMMA RestMeans ==
    ASSUME Typing, LinkInv, ImagesExplained, RestInv, NoChecker
    PROVE  AtRestConsistent
<1> SUFFICES ASSUME AtRest, NEW a \in App, meta[a] # None
             PROVE  /\ meta[a] \in Header
                    /\ current[a] = Top(meta[a].rel)
                    /\ root[a] = current[a]
                    /\ image[root[a]] = "whole"
                    /\ \A d \in LayersIn(a) : image[d] = "whole" \/ d \in swept
                    /\ meta[a].perm = asked[a]
  BY DEF AtRestConsistent
<1>1. \A p \in Proc : pc[p] = "idle"
  BY DEF AtRest
<1>2. Settled(a)
  BY <1>1 DEF RestInv, SettledInv, Mid
<1>3. /\ meta[a] \in Header /\ current[a] = Top(meta[a].rel) /\ root[a] = Top(meta[a].rel)
      /\ meta[a].perm = asked[a] /\ meta[a].rel \in Release
  BY <1>2 DEF Settled, Header
<1>4. ASSUME NEW d \in Digest, HasLayer(d) PROVE image[d] = "whole"
  <2>1. image[d] # "torn"
    BY <1>1 DEF RestInv, ImagesMeant, ImagesExplained, WritesImage
  <2>2. image[d] # "wrong" /\ image[d] \in Image
    BY DEF RestInv, ImagesMeant, Typing, FilesOK
  <2> QED
    BY <1>4, <2>1, <2>2 DEF HasLayer, Image
<1>5. image[root[a]] = "whole"
  <2>1. Top(meta[a].rel) \in Digest
    BY <1>3, LayersTyped DEF Top
  <2>2. root[a] \in InStore
    BY <1>3, <2>1, SentinelAssumption DEF RestInv, RootsInStore
  <2> QED
    BY <1>4, <2>2 DEF InStore
<1>6. ASSUME NEW d \in LayersIn(a) PROVE image[d] = "whole" \/ d \in swept
  <2>1. DOMAIN LayersOf[meta[a].rel] = 1 .. Len(LayersOf[meta[a].rel])
    BY <1>3, ReleaseAssumption
  <2>2. d \in Stored
    BY <1>3, <1>6, <2>1 DEF LayersIn, LinkInv, HeadersIn, AllLayers
  <2> QED
    BY <1>4, <2>2 DEF Stored
<1> QED
  BY <1>3, <1>5, <1>6

\* Any number of nxpk commands and mount requests that do not overlap and do
\* not fail, on any releases, leave every installed application all of one
\* release: header, current link, root, layers and permissions agree.
THEOREM RestCorrect ==
    ASSUME NoChecker
    PROVE  Spec /\ []Undisturbed => []AtRestConsistent
<1>1. Init => ImagesExplained
  BY DEF Init, ImagesExplained
<1>2. /\ Typing /\ OpsInv /\ OpsInv' /\ LinkInv /\ Undisturbed /\ Undisturbed' /\ RestInv
      /\ [Next]_vars
      => RestInv'
  BY RestStep
<1>3. Typing /\ LinkInv /\ ImagesExplained /\ RestInv => AtRestConsistent
  BY RestMeans
<1> QED
  BY <1>1, <1>2, <1>3, RestInit, OpsStep, ImagesStep, TypeCorrect, LinkInvariant, PTL DEF Spec

\* In particular: one process, running one command after the other.
COROLLARY RestAlone ==
    ASSUME NoChecker, MaxFaults = 0, NEW one, Proc = {one}
    PROVE  Spec => []AtRestConsistent
<1>1. Typing => Undisturbed
  BY DEF Typing, FilesOK, Undisturbed, InTurns
<1> QED
  BY <1>1, RestCorrect, TypeCorrect, PTL

=============================================================================
