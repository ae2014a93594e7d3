--------------------------- MODULE RegistryProofs ---------------------------
(***************************************************************************)
(* LayerStore implements AppRegistry, for any number of processes,         *)
(* applications, layers, releases and faults.                              *)
(*                                                                         *)
(* Of an application that is not mixed one process at most is at work on   *)
(* it; what that process carries agrees with the installed header until it *)
(* writes its own (SoleInv).  So each of its steps shows as the command's  *)
(* step of the registry or not at all, and the steps of all others leave   *)
(* the application alone (Footprint).                                      *)
(***************************************************************************)
EXTENDS Registry, LayerStoreProofs

-----------------------------------------------------------------------------
\* What a step does to the headers.

\* A step touches the application that its process works on, and no other.
LEMMA Untouched ==
    ASSUME Typing, OpsInv, NEW p \in Proc, Acts(p), NEW a \in App, ~WorksOn(p, a)
    PROVE  /\ meta'[a] = meta[a] /\ asked'[a] = asked[a]
           /\ a \in cutMeta' <=> a \in cutMeta
           /\ \A q \in Proc \ {p} : pc[q] = "write_meta" /\ job[q].app = a
                                      => linked'[q] = linked[q]
<1> USE DEF WorksOn
<1>0. OpFits(pc[p], job[p]) /\ meta \in [App -> Header \cup {None, Torn}]
      /\ asked \in [App -> Perm \cup {None}] /\ linked \in [Proc -> BOOLEAN]
  BY DEF OpsInv, Typing, FilesOK, LocalOK
<1>1. CASE OpenMeta(p) \/ WriteMeta(p)
  <2>1. job[p].app # a
    BY <1>0, <1>1 DEF OpenMeta, WriteMeta, OpFits, Updating
  <2>2. OthersStay(p)
    BY <1>1, StepIsLocal DEF AppStep, OpenMeta, WriteMeta, RemoveEntry
  <2> QED
    BY <1>0, <1>1, <2>1, <2>2 DEF OpenMeta, WriteMeta, OthersStay
<1>2. ASSUME NEW f \in AppFile, RemoveEntry(p, f)
      PROVE  /\ meta'[a] = meta[a] /\ asked'[a] = asked[a]
             /\ a \in cutMeta' <=> a \in cutMeta
             /\ \A q \in Proc \ {p} : pc[q] = "write_meta" /\ job[q].app = a
                                        => linked'[q] = linked[q]
  <2>1. job[p].app # a
    BY <1>0, <1>2 DEF RemoveEntry, OpFits
  <2> QED
    BY <1>0, <1>2, <2>1 DEF RemoveEntry, WritesMeta, apps
<1>3. CASE Crash(p)
  BY <1>0, <1>3, StepIsLocal DEF Crash, OthersStay, WritesMeta, OpFits, Updating
<1>4. CASE \E d \in Digest, left \in Image : GcDelete(p, d, left)
  BY <1>0, <1>4 DEF GcDelete, WritesImage, apps
<1>5. CASE /\ ~OpenMeta(p) /\ ~WriteMeta(p) /\ ~Crash(p)
           /\ ~\E f \in AppFile : RemoveEntry(p, f)
           /\ ~\E d \in Digest, left \in Image : GcDelete(p, d, left)
  <2>1. OthersStay(p)
    BY <1>5, StepIsLocal DEF Acts
  <2>2. CASE Begin(p)
    BY <2>1, <2>2 DEF OthersStay, Begin, Install, Mount, ReadMeta, Edit, Remove, Gc, apps
  <2>3. CASE StoreStep(p)
    BY <2>1, <2>3 DEF OthersStay, StoreStep, Plan, NothingNew, SkipLayer, FetchFails,
       LayersDone, FetchLayer, CreateImage, CreateFails, WriteImage, WriteFails, apps
  <2>4. CASE AppStep(p)
    BY <1>5, <2>1, <2>4 DEF OthersStay, AppStep, MakeAppDir, OpenMetaFails,
       UnlinkCurrent, LinkCurrent, LinkCurrentFails, CheckTop, UnlinkTmp, LinkTmp,
       LinkTmpFails, RenameTmp, RenameFails, UnlinkRoot, LinkRoot, LinkRootFails,
       RemoveDir, apps
  <2>5. CASE GcStep(p)
    BY <1>5, <2>1, <2>5 DEF OthersStay, GcStep, GcReadLink, GcListLayers, GcKeep,
       GcEnd, apps
  <2> QED
    BY <1>5, <2>2, <2>3, <2>4, <2>5 DEF Acts
<1> QED
  BY <1>1, <1>2, <1>3, <1>4, <1>5

\* A command that goes on keeps its application, its permissions and, unless
\* it is an update that has found a new release, its release.
Keeps(p) == /\ pc[p] # "plan" /\ pc'[p] # "plan"
            /\ job'[p].op = job[p].op /\ job'[p].app = job[p].app
            /\ job'[p].rel = job[p].rel /\ job'[p].perm = job[p].perm

\* Steps of a command that do not write, remove or tear a header.
LEMMA QuietStep ==
    ASSUME Typing, NEW p \in Proc, Acts(p), pc[p] # "idle", ~Crash(p),
           ~OpenMeta(p), ~WriteMeta(p), ~\E f \in AppFile : RemoveEntry(p, f)
    PROVE  /\ UNCHANGED <<meta, asked, cutMeta>>
           /\ pc[p] # "write_meta" /\ pc'[p] # "write_meta"
           /\ Leave(p) \/ Keeps(p) \/ \E r \in Release : Plan(p, r)
<1> USE DEF Typing, LocalOK, Job, Goto, Advance, Keeps
<1>1. ~Begin(p)
  BY DEF Begin, Install, Mount, ReadMeta, Edit, Remove, Gc, Start
<1>2. CASE StoreStep(p)
  <2>1. ASSUME NEW r \in Release, Plan(p, r)
        PROVE  UNCHANGED <<meta, asked, cutMeta>> /\ pc[p] = "plan" /\ pc'[p] = "layer"
    BY <2>1 DEF Plan, apps
  <2>2. CASE NothingNew(p) \/ SkipLayer(p) \/ FetchFails(p) \/ LayersDone(p)
    BY <2>2 DEF NothingNew, SkipLayer, FetchFails, LayersDone, Exit, At, Step, Leave,
       AfterLayers, apps
  <2>3. CASE \E data \in {"whole", "wrong"} : FetchLayer(p, data)
    BY <2>3 DEF FetchLayer, apps
  <2>4. CASE CreateImage(p) \/ CreateFails(p)
    BY <2>4 DEF CreateImage, CreateFails, Leave, apps
  <2>5. CASE WriteImage(p) \/ WriteFails(p)
    BY <2>5 DEF WriteImage, WriteFails, Leave, apps
  <2> QED
    BY <1>2, <2>1, <2>2, <2>3, <2>4, <2>5 DEF StoreStep
<1>3. CASE AppStep(p)
  <2>1. CASE MakeAppDir(p) \/ OpenMetaFails(p) \/ UnlinkCurrent(p) \/ LinkCurrent(p)
             \/ LinkCurrentFails(p) \/ CheckTop(p) \/ UnlinkTmp(p) \/ LinkTmp(p)
    BY <2>1 DEF MakeAppDir, OpenMetaFails, UnlinkCurrent, LinkCurrent,
       LinkCurrentFails, CheckTop, UnlinkTmp, LinkTmp, Exit, At, Leave, apps
  <2>2. CASE LinkTmpFails(p) \/ RenameTmp(p) \/ RenameFails(p) \/ UnlinkRoot(p)
             \/ LinkRootFails(p) \/ RemoveDir(p)
    BY <2>2 DEF LinkTmpFails, RenameTmp, RenameFails, UnlinkRoot, LinkRootFails,
       RemoveDir, Fails, Exit, At, Leave, apps
  <2>3. CASE LinkRoot(p)
    BY <2>3 DEF LinkRoot, Step, AfterRoot, Exit, At, Leave, apps
  <2> QED
    BY <1>3, <2>1, <2>2, <2>3 DEF AppStep
<1>4. CASE GcStep(p)
  BY <1>4 DEF GcStep, GcReadLink, GcListLayers, GcKeep, GcDelete, GcEnd, Exit, Leave, apps
<1> QED
  BY <1>1, <1>2, <1>3, <1>4 DEF Acts

-----------------------------------------------------------------------------
\* The invariant.

\* Where commands met or a header was torn is on record, for as long as it lasts.
MixOK ==
    \A a \in App : /\ Meet(a) => a \in mixed
                   /\ a \in cutMeta => a \in mixed
                   /\ a \in mixed => Workers(a) # {} \/ a \in cutMeta

\* What the job j of a process at l has in common with the header h it read.
Agrees(l, j, h) ==
    /\ j.op \in Updating => /\ h \in Header /\ h.perm = j.perm
                            /\ l = "plan" <=> h.rel = j.rel
    /\ j.op = "edit" => h \in Header /\ h.rel = j.rel

\* The only process at work on an application knows its header: it is torn
\* while that process writes it, and is otherwise the one it has read.
Sole(p, a) ==
    a \notin mixed /\ WorksOn(p, a) =>
        IF pc[p] = "write_meta" THEN linked[p] /\ meta[a] = Torn
        ELSE meta[a] # Torn /\ Agrees(pc[p], job[p], meta[a])
SoleInv == \A p \in Proc, a \in App : Sole(p, a)

RegInv == /\ Typing /\ HeadersExplained /\ OpsInv
          /\ MixOK /\ SoleInv

LEMMA MixStep == Mixes => MixOK'
BY DEF Mixes, MixOK, Meet, Workers

\* Whoever writes a header works on its application.
LEMMA WritersWork ==
    OpsInv => \A p \in Proc, a \in App : WritesMeta(p, a) => WorksOn(p, a)
BY DEF OpsInv, OpFits, Updating, WritesMeta, WorksOn

\* The header of an application at rest is whole.
LEMMA RestIsWhole ==
    HeadersExplained /\ OpsInv => \A a \in App :
        a \notin cutMeta /\ Workers(a) = {} => meta[a] # Torn
BY WritersWork DEF HeadersExplained, Workers

\* A step takes up an application, goes on with it or leaves it.
LEMMA JobStep ==
    ASSUME Typing, NEW p \in Proc, Acts(p)
    PROVE  \/ pc[p] = "idle" /\ Begin(p)
           \/ Leave(p)
           \/ pc[p] # "idle" /\ job'[p].app = job[p].app /\ job'[p].op = job[p].op
<1> USE DEF Typing, LocalOK, Job
<1>1. CASE Begin(p)
  BY <1>1 DEF Begin, Install, Mount, ReadMeta, Edit, Remove, Gc, Start
<1>2. CASE Crash(p)
  BY <1>2 DEF Crash
<1>3. CASE OpenMeta(p) \/ WriteMeta(p)
  BY <1>3 DEF OpenMeta, WriteMeta
<1>4. CASE \E f \in AppFile : RemoveEntry(p, f)
  BY <1>4 DEF RemoveEntry
<1>5. CASE /\ ~Begin(p) /\ ~Crash(p) /\ ~OpenMeta(p) /\ ~WriteMeta(p)
           /\ ~\E f \in AppFile : RemoveEntry(p, f)
  <2>1. pc[p] # "idle"
    BY <1>5 DEF Acts, StoreStep, Plan, NothingNew, SkipLayer, FetchFails, LayersDone,
       FetchLayer, CreateImage, CreateFails, WriteImage, WriteFails, AppStep,
       MakeAppDir, OpenMetaFails, UnlinkCurrent, LinkCurrent, LinkCurrentFails,
       CheckTop, UnlinkTmp, LinkTmp, LinkTmpFails, RenameTmp, RenameFails, UnlinkRoot,
       LinkRoot, LinkRootFails, RemoveDir, GcStep, GcReadLink, GcListLayers, GcKeep,
       GcDelete, GcEnd, Fails, Exit, At, Step
  <2>2. Leave(p) \/ Keeps(p) \/ \E r \in Release : Plan(p, r)
    BY <1>5, <2>1, QuietStep
  <2>3. ASSUME NEW r \in Release, Plan(p, r)
        PROVE  job'[p].app = job[p].app /\ job'[p].op = job[p].op
    BY <2>3 DEF Plan
  <2> QED
    BY <2>1, <2>2, <2>3 DEF Keeps
<1> QED
  BY <1>1, <1>2, <1>3, <1>4, <1>5

\* Who has returned, and who has not begun, works on nothing.
LEMMA LeftIsOff ==
    ASSUME Typing, OpsInv, NEW p \in Proc, NEW a \in App
    PROVE  /\ pc[p] = "idle" => ~WorksOn(p, a)
           /\ Leave(p) => pc'[p] = "idle" /\ ~WorksOn(p, a)'
BY SentinelAssumption DEF Typing, LocalOK, OpsInv, OpFits, NoJob, WorksOn, Leave, Goto

\* As long as an application is not mixed, the process that works on it is
\* the only one to do so, before a step and after it.
LEMMA Alone ==
    ASSUME Typing, OpsInv, MixOK, NEW p \in Proc, Acts(p), Mixes,
           NEW a \in App, NEW q \in Proc, WorksOn(q, a)', a \notin mixed'
    PROVE  /\ a \notin mixed /\ a \notin cutMeta'
           /\ \A s \in Proc \ {q} : ~WorksOn(s, a) /\ ~WorksOn(s, a)'
<1>1. a \notin mixed /\ a \notin cutMeta' /\ \A s \in Proc \ {q} : ~WorksOn(s, a)'
  BY DEF Mixes, Meet, Workers
<1>2. \A s, t \in Proc : s # t => ~WorksOn(s, a) \/ ~WorksOn(t, a)
  BY <1>1 DEF MixOK, Meet, Workers
<1>3. \A s \in Proc \ {p} : WorksOn(s, a) <=> WorksOn(s, a)'
  BY StepMovesOne DEF WorksOn
<1>4. CASE q = p
  BY <1>1, <1>3, <1>4
<1>5. CASE q # p
  <2>1. WorksOn(q, a)
    BY <1>3, <1>5
  <2> QED
    BY <1>1, <1>2, <2>1
<1> QED
  BY <1>4, <1>5

\* The command that has just begun on an application has read its header.
LEMMA SoleBegin ==
    ASSUME RegInv, NEW p \in Proc, Begin(p), Mixes,
           NEW a \in App, WorksOn(p, a)', a \notin mixed'
    PROVE  Sole(p, a)' /\ pc'[p] # "write_meta" /\ UNCHANGED <<meta, asked>>
<1> USE DEF RegInv, Typing, LocalOK
<1>1. pc[p] = "idle" /\ UNCHANGED <<meta, cutMeta, asked>>
  BY DEF Begin, Install, Mount, ReadMeta, Edit, Remove, Gc, Start, apps
<1>2. a \notin cutMeta /\ \A s \in Proc : ~WorksOn(s, a)
  BY <1>1, Alone, LeftIsOff DEF Acts
<1>3. meta[a] # Torn
  BY <1>2, RestIsWhole DEF Workers
<1>4. pc'[p] # "write_meta" /\ Agrees(pc'[p], job'[p], meta[a])
  <2>1. job'[p].app = a /\ job'[p].op # "mount"
    BY DEF WorksOn
  <2> USE DEF Start, Goto, NoJob, Agrees, Updating
  <2>2. ASSUME NEW r \in Release, Install(p, r) \/ Mount(p, r)
        PROVE  pc'[p] # "write_meta" /\ Agrees(pc'[p], job'[p], meta[a])
    <3>1. pc'[p] = "layer" /\ job'[p].op \in {"install", "mount"}
      BY <2>2 DEF Install, Mount
    <3> QED
      BY <3>1
  <2>3. ASSUME NEW b \in App, NEW op \in Command, ReadMeta(p, op, b)
        PROVE  pc'[p] # "write_meta" /\ Agrees(pc'[p], job'[p], meta[a])
    BY <2>1, <2>3 DEF ReadMeta
  <2>4. ASSUME NEW b \in App, NEW perm \in Perm, Edit(p, b, perm)
        PROVE  pc'[p] # "write_meta" /\ Agrees(pc'[p], job'[p], meta[a])
    BY <2>1, <2>4 DEF Edit
  <2>5. CASE \E b \in App : Remove(p, b)
    BY <2>1, <2>5 DEF Remove
  <2>6. CASE Gc(p)
    BY <1>1, <2>1, <2>6, LeftIsOff DEF Gc, OpsInv, OpFits, WorksOn
  <2> QED
    BY <2>2, <2>3, <2>4, <2>5, <2>6 DEF Begin
<1> QED
  BY <1>1, <1>3, <1>4 DEF Sole

\* It keeps what it has read until it writes, and what it writes until it ends.
LEMMA SoleGoesOn ==
    ASSUME RegInv, NEW p \in Proc, Acts(p), ~Begin(p), Mixes,
           NEW a \in App, WorksOn(p, a)', a \notin mixed'
    PROVE  Sole(p, a)'
<1> USE DEF RegInv
<1>1. /\ WorksOn(p, a) /\ a \notin mixed /\ ~Leave(p)
      /\ job[p].app = a /\ job'[p].app = a /\ pc[p] # "idle"
  BY JobStep, LeftIsOff, Alone DEF WorksOn
<1>2. IF pc[p] = "write_meta" THEN linked[p] /\ meta[a] = Torn
      ELSE meta[a] # Torn /\ Agrees(pc[p], job[p], meta[a])
  BY <1>1 DEF SoleInv, Sole
<1>3. meta \in [App -> Header \cup {None, Torn}] /\ pc \in [Proc -> PC] /\ job \in [Proc -> Job]
      /\ linked \in [Proc -> BOOLEAN]
  BY DEF Typing, FilesOK, LocalOK
<1>4. CASE OpenMeta(p)
  BY <1>1, <1>3, <1>4 DEF OpenMeta, Goto, Sole
<1>5. CASE WriteMeta(p)
  <2>1. /\ job[p].rel \in Release /\ job[p].perm \in Perm
        /\ AfterMeta(p) # "idle" /\ pc'[p] = "unlink_current" /\ job' = job
    BY <1>1, <1>3, <1>5 DEF WriteMeta, Goto, AfterMeta, Typing, LocalOK, JobFits, MetaPC, AppPC
  <2>2. meta'[a] = [rel |-> job[p].rel, perm |-> job[p].perm] /\ job[p].op = "install"
    BY <1>1, <1>2, <1>3, <1>5, <2>1 DEF WriteMeta, AfterMeta
  <2>3. meta'[a] # Torn
    BY <2>1, <2>2, SentinelAssumption
  <2> QED
    BY <2>1, <2>2, <2>3 DEF Sole, Agrees, Updating
<1>6. CASE \E f \in AppFile : RemoveEntry(p, f)
  <2>1. /\ pc'[p] = "remove" /\ pc[p] = "remove" /\ meta'[a] \in {meta[a], None}
        /\ job'[p].op = job[p].op
    BY <1>1, <1>3, <1>6 DEF RemoveEntry, Job
  <2>2. job[p].op = "remove"
    BY <2>1 DEF OpsInv, OpFits
  <2> QED
    BY <1>2, <2>1, <2>2, SentinelAssumption DEF Sole, Agrees, Updating
<1>7. CASE ~OpenMeta(p) /\ ~WriteMeta(p) /\ ~\E f \in AppFile : RemoveEntry(p, f)
  <2>1. ~Crash(p)
    BY <1>1 DEF Crash
  <2>2. /\ UNCHANGED <<meta, asked, cutMeta>>
        /\ pc[p] # "write_meta" /\ pc'[p] # "write_meta"
        /\ Keeps(p) \/ \E r \in Release : Plan(p, r)
    BY <1>1, <1>7, <2>1, QuietStep
  <2>3. CASE Keeps(p)
    BY <1>2, <2>2, <2>3 DEF Keeps, Sole, Agrees
  <2>4. ASSUME NEW r \in Release, Plan(p, r) PROVE Sole(p, a)'
    <3>1. /\ pc[p] = "plan" /\ pc'[p] = "layer" /\ r # job[p].rel
          /\ job'[p].op = job[p].op /\ job'[p].perm = job[p].perm /\ job'[p].rel = r
      BY <1>3, <2>4 DEF Plan, Goto, Job
    <3>2. job[p].op \in Updating
      BY <3>1 DEF OpsInv, OpFits
    <3> QED
      BY <1>2, <2>2, <3>1, <3>2 DEF Sole, Agrees, Updating
  <2> QED
    BY <2>2, <2>3, <2>4
<1> QED
  BY <1>4, <1>5, <1>6, <1>7

LEMMA RegInvStep == RegInv /\ [MixNext]_<<vars, mixed>> => RegInv'
<1> SUFFICES ASSUME RegInv, [MixNext]_<<vars, mixed>> PROVE RegInv'
  OBVIOUS
<1> USE DEF RegInv
<1>1. [Next]_vars
  BY DEF MixNext
<1>2. Typing' /\ HeadersExplained' /\ OpsInv'
  BY <1>1, TypingStep, HeadersStep, OpsStep
<1>3. CASE UNCHANGED <<vars, mixed>>
  BY <1>2, <1>3 DEF vars, apps, local, MixOK, SoleInv, Sole, Meet, Workers, WorksOn, Agrees
<1>4. ASSUME NEW p \in Proc, Acts(p), Mixes PROVE RegInv'
  <2>1. ASSUME NEW q \in Proc, NEW a \in App, WorksOn(q, a)', a \notin mixed'
        PROVE  Sole(q, a)'
    <3>1. CASE q = p
      BY <1>4, <2>1, <3>1, SoleBegin, SoleGoesOn
    <3>2. CASE q # p
      <4>1. ~WorksOn(p, a) /\ a \notin mixed
        BY <1>4, <2>1, <3>2, Alone
      <4>2. pc'[q] = pc[q] /\ job'[q] = job[q] /\ WorksOn(q, a)
        BY <1>4, <2>1, <3>2, StepMovesOne DEF WorksOn
      <4>3. /\ meta'[a] = meta[a]
            /\ pc[q] = "write_meta" /\ job[q].app = a => linked'[q] = linked[q]
        BY <1>4, <3>2, <4>1, Untouched
      <4> QED
        BY <4>1, <4>2, <4>3 DEF SoleInv, Sole, WorksOn
    <3> QED
      BY <3>1, <3>2
  <2>2. SoleInv'
    BY <2>1 DEF SoleInv, Sole
  <2> QED
    BY <1>2, <1>4, <2>2, MixStep
<1> QED
  BY <1>3, <1>4 DEF MixNext, Next, Acts

LEMMA InitRegInv == MixInit => RegInv
<1> SUFFICES ASSUME MixInit PROVE RegInv
  OBVIOUS
<1>1. Typing /\ HeadersExplained
  BY InitTyping, SentinelAssumption DEF MixInit, Init, HeadersExplained
<1>2. OpsInv
  BY DEF MixInit, Init, OpsInv, OpFits, NoJob, StorePC, Updating
<1>3. \A p \in Proc, a \in App : ~WorksOn(p, a)
  BY <1>1, <1>2, LeftIsOff DEF MixInit, Init
<1>4. MixOK /\ SoleInv
  BY <1>3 DEF MixInit, Init, MixOK, SoleInv, Sole, Meet, Workers
<1> QED
  BY <1>1, <1>2, <1>4 DEF RegInv

-----------------------------------------------------------------------------
\* The refinement.

\* How an application looks through the mapping, without the choice of its
\* writer: there is at most one.
Looks(a, h, c) == Shown(a) = h /\ Chosen(a) = c
LooksRight ==
    \A a \in App :
        /\ a \in mixed => Looks(a, Unknown, Unknown)
        /\ a \notin mixed /\ meta[a] # Torn => Looks(a, meta[a], asked[a])
        /\ \A p \in Proc : a \notin mixed /\ WritesMeta(p, a) =>
              Looks(a, Carried(p), IF Asks(p) THEN job[p].perm ELSE asked[a])
        /\ a \notin mixed /\ meta[a] = Torn => \E p \in Proc : WritesMeta(p, a)

LEMMA ShownMeans == RegInv => LooksRight
<1> SUFFICES ASSUME RegInv, NEW a \in App, a \notin mixed
             PROVE  /\ meta[a] # Torn => Looks(a, meta[a], asked[a])
                    /\ \A p \in Proc : WritesMeta(p, a) =>
                          Looks(a, Carried(p), IF Asks(p) THEN job[p].perm ELSE asked[a])
                    /\ meta[a] = Torn => \E p \in Proc : WritesMeta(p, a)
  BY DEF LooksRight, Looks, Shown, Chosen
<1> USE DEF RegInv
<1>1. meta[a] = Torn => \E p \in Proc : WritesMeta(p, a)
  BY DEF MixOK, HeadersExplained
<1>2. ASSUME NEW p \in Proc, WritesMeta(p, a)
      PROVE  Looks(a, Carried(p), IF Asks(p) THEN job[p].perm ELSE asked[a])
  <2>1. Writer(a) \in Proc /\ WritesMeta(Writer(a), a)
    BY <1>2 DEF Writer
  <2>2. WorksOn(p, a) /\ WorksOn(Writer(a), a)
    BY <1>2, <2>1, WritersWork
  <2>3. Writer(a) = p
    BY <2>1, <2>2 DEF MixOK, Meet, Workers
  <2>4. meta[a] = Torn
    BY <1>2, <2>2 DEF SoleInv, Sole, WritesMeta
  <2> QED
    BY <2>3, <2>4 DEF Looks, Shown, Chosen
<1> QED
  BY <1>1, <1>2 DEF Looks, Shown, Chosen

LEMMA ShownMeansNext == RegInv' => LooksRight'
BY ShownMeans, PTL

\* What a step does not touch looks the same afterwards (Footprint).
LEMMA Footprint ==
    ASSUME RegInv, RegInv', NEW p \in Proc, Acts(p), Mixes, NEW a \in App,
           ~WorksOn(p, a), ~WorksOn(p, a)'
    PROVE  Shown(a)' = Shown(a) /\ Chosen(a)' = Chosen(a)
<1> USE DEF RegInv
<1>1. /\ meta'[a] = meta[a] /\ asked'[a] = asked[a]
      /\ a \in cutMeta' <=> a \in cutMeta
      /\ \A q \in Proc \ {p} : pc[q] = "write_meta" /\ job[q].app = a
                                 => linked'[q] = linked[q]
  BY Untouched
<1>2. \A q \in Proc \ {p} : pc'[q] = pc[q] /\ job'[q] = job[q]
  BY StepMovesOne
<1>3. \A q \in Proc : WorksOn(q, a)' <=> WorksOn(q, a)
  BY <1>2 DEF WorksOn
<1>4. a \in mixed' <=> a \in mixed
  BY <1>1, <1>3 DEF Mixes, MixOK, Meet, Workers
<1>5. CASE a \in mixed
  BY <1>4, <1>5, ShownMeans, ShownMeansNext DEF LooksRight, Looks
<1>6. CASE a \notin mixed /\ meta[a] # Torn
  BY <1>1, <1>4, <1>6, ShownMeans, ShownMeansNext DEF LooksRight, Looks
<1>7. CASE a \notin mixed /\ meta[a] = Torn
  <2>1. PICK q \in Proc : WritesMeta(q, a)
    BY <1>7, ShownMeans DEF LooksRight
  <2>2. q # p
    BY <2>1, WritersWork
  <2>3. WritesMeta(q, a)' /\ Carried(q)' = Carried(q) /\ (Asks(q)' <=> Asks(q))
        /\ job'[q].perm = job[q].perm
    BY <1>1, <1>2, <2>1, <2>2 DEF WritesMeta, Carried, Asks
  <2>4. Looks(a, Carried(q), IF Asks(q) THEN job[q].perm ELSE asked[a])
    BY <1>7, <2>1, ShownMeans DEF LooksRight
  <2>5. Looks(a, Carried(q), IF Asks(q) THEN job[q].perm ELSE asked[a])'
    BY <1>4, <1>7, <2>3, ShownMeansNext DEF LooksRight
  <2> QED
    BY <1>1, <2>3, <2>4, <2>5 DEF Looks
<1> QED
  BY <1>5, <1>6, <1>7

\* What a step may do to the one application it touches: a step of AppRegistry.
Shows(a, h, c) ==
    \/ h = Shown(a) /\ c = Chosen(a)
    \/ \E r \in Release :
          /\ AppOf[r] = a
          /\ h = [rel |-> r, perm |-> BundlePerm] /\ c = BundlePerm
    \/ \E r \in Release :
          /\ Shown(a) \in Header /\ AppOf[r] = a /\ r # Shown(a).rel
          /\ h = [Shown(a) EXCEPT !.rel = r] /\ c = Chosen(a)
    \/ \E perm \in Perm :
          /\ Shown(a) \in Header
          /\ h = [Shown(a) EXCEPT !.perm = perm] /\ c = perm
    \/ Shown(a) # Unknown /\ h = None /\ c = Chosen(a)
    \/ h = Unknown /\ c = Unknown
    \/ /\ Shown(a) = Unknown
       /\ h \in Header \cup {None} /\ c \in Perm \cup {None}

\* To open the header for writing is to install, to update or to edit.
LEMMA OpenShows ==
    ASSUME RegInv, RegInv', NEW p \in Proc, OpenMeta(p), NEW a \in App,
           WorksOn(p, a), a \notin mixed, a \notin mixed'
    PROVE  Shows(a, Shown(a)', Chosen(a)')
<1> USE DEF RegInv
<1>1. /\ pc[p] = "open_meta" /\ pc'[p] = "write_meta" /\ linked'[p] /\ job' = job
      /\ asked' = asked /\ job[p].app = a
  BY DEF OpenMeta, Goto, Typing, LocalOK, WorksOn
<1>2. /\ job[p].rel \in Release /\ job[p].perm \in Perm
      /\ job[p].op \in Updating \cup {"install", "edit"}
      /\ job[p].op = "install" => job[p].perm = BundlePerm
      /\ job[p].op \in Updating \cup {"install"} => AppOf[job[p].rel] = a
  BY <1>1 DEF Typing, LocalOK, JobFits, MetaPC, OpsInv, OpFits
<1>3. meta[a] # Torn /\ Agrees("open_meta", job[p], meta[a])
  BY <1>1 DEF SoleInv, Sole
<1>4. Shown(a) = meta[a] /\ Chosen(a) = asked[a]
  BY <1>3, ShownMeans DEF LooksRight, Looks
<1>5. /\ Shown(a)' = [rel |-> job[p].rel, perm |-> job[p].perm]
      /\ Chosen(a)' = IF job[p].op \in {"install", "edit"} THEN job[p].perm ELSE asked[a]
  <2>1. WritesMeta(p, a)'
    BY <1>1 DEF WritesMeta
  <2>2. Looks(a, Carried(p), IF Asks(p) THEN job[p].perm ELSE asked[a])'
    BY <2>1, ShownMeansNext DEF LooksRight
  <2> QED
    BY <1>1, <2>2 DEF Looks, Carried, Asks
<1>6. CASE job[p].op = "install"
  BY <1>2, <1>5, <1>6 DEF Shows
<1>7. CASE job[p].op = "edit"
  <2>1. meta[a] \in Header /\ meta[a].rel = job[p].rel
    BY <1>3, <1>7 DEF Agrees
  <2>2. [rel |-> job[p].rel, perm |-> job[p].perm] = [meta[a] EXCEPT !.perm = job[p].perm]
    BY <2>1 DEF Header
  <2> QED
    BY <1>2, <1>4, <1>5, <1>7, <2>1, <2>2 DEF Shows
<1>8. CASE job[p].op \in Updating
  <2>1. meta[a] \in Header /\ meta[a].perm = job[p].perm /\ meta[a].rel # job[p].rel
    BY <1>3, <1>8 DEF Agrees
  <2>2. [rel |-> job[p].rel, perm |-> job[p].perm] = [meta[a] EXCEPT !.rel = job[p].rel]
    BY <2>1 DEF Header
  <2>3. Chosen(a)' = Chosen(a)
    BY <1>4, <1>5, <1>8 DEF Updating
  <2> QED
    BY <1>2, <1>4, <1>5, <1>8, <2>1, <2>2, <2>3 DEF Shows
<1> QED
  BY <1>2, <1>6, <1>7, <1>8

\* The write that follows changes nothing that was not already shown.
LEMMA WriteShows ==
    ASSUME RegInv, RegInv', NEW p \in Proc, WriteMeta(p), NEW a \in App,
           WorksOn(p, a), a \notin mixed, a \notin mixed'
    PROVE  Shown(a)' = Shown(a) /\ Chosen(a)' = Chosen(a)
<1> USE DEF RegInv
<1>1. pc[p] = "write_meta" /\ linked[p] /\ job[p].app = a
  BY DEF WriteMeta, SoleInv, Sole, WorksOn
<1>2. /\ meta'[a] = Carried(p)
      /\ asked'[a] = IF Asks(p) THEN job[p].perm ELSE asked[a]
  BY <1>1 DEF WriteMeta, Carried, Asks, Typing, FilesOK
<1>3. Carried(p) # Torn
  BY <1>1, SentinelAssumption DEF Carried, Typing, LocalOK, JobFits, MetaPC
<1>4. Looks(a, Carried(p), IF Asks(p) THEN job[p].perm ELSE asked[a])
  BY <1>1, ShownMeans DEF LooksRight, WritesMeta
<1>5. Looks(a, meta[a], asked[a])'
  BY <1>2, <1>3, ShownMeansNext DEF LooksRight
<1> QED
  BY <1>2, <1>4, <1>5 DEF Looks

\* The other steps of the only command at work show nothing, but for the
\* removal of the header.
LEMMA OthersShow ==
    ASSUME RegInv, RegInv', NEW p \in Proc, Acts(p), ~OpenMeta(p), ~WriteMeta(p), Mixes,
           NEW a \in App, WorksOn(p, a) \/ WorksOn(p, a)', a \notin mixed, a \notin mixed'
    PROVE  Shows(a, Shown(a)', Chosen(a)')
<1> USE DEF RegInv
<1>1. CASE meta'[a] = meta[a] /\ asked'[a] = asked[a] /\ meta[a] # Torn
  BY <1>1, ShownMeans, ShownMeansNext DEF LooksRight, Looks, Shows
<1>2. CASE Begin(p)
  <2>1. pc[p] = "idle" /\ UNCHANGED <<meta, asked>>
    BY <1>2 DEF Begin, Install, Mount, ReadMeta, Edit, Remove, Gc, Start, apps
  <2>2. WorksOn(p, a)'
    BY <2>1, LeftIsOff
  <2>3. pc'[p] # "write_meta"
    BY <1>2, <2>2, SoleBegin
  <2>4. meta'[a] # Torn
    BY <2>2, <2>3 DEF SoleInv, Sole
  <2> QED
    BY <1>1, <2>1, <2>4
<1>3. CASE ~Begin(p)
  <2>1. pc[p] # "idle" /\ WorksOn(p, a) /\ job[p].app = a
    BY <1>3, JobStep, LeftIsOff DEF WorksOn
  <2>2. IF pc[p] = "write_meta" THEN linked[p] ELSE meta[a] # Torn
    BY <2>1 DEF SoleInv, Sole
  <2>3. CASE Crash(p)
    <3>1. pc[p] # "write_meta"
      <4>1. a \notin cutMeta'
        BY DEF MixOK
      <4> QED
        BY <2>1, <2>2, <2>3, <4>1 DEF Crash, WritesMeta
    <3> QED
      BY <1>1, <2>2, <2>3, <3>1 DEF Crash
  <2>4. ASSUME NEW f \in AppFile, RemoveEntry(p, f)
        PROVE  Shows(a, Shown(a)', Chosen(a)')
    <3>1. pc[p] = "remove" /\ asked' = asked /\ meta[a] # Torn
      BY <2>2, <2>4 DEF RemoveEntry
    <3>2. CASE f = "meta"
      <4>1. meta'[a] = None
        BY <2>1, <2>4, <3>2 DEF RemoveEntry, Typing, FilesOK
      <4>2. Looks(a, None, asked[a])' /\ Looks(a, meta[a], asked[a])
        BY <3>1, <4>1, SentinelAssumption, ShownMeans, ShownMeansNext DEF LooksRight
      <4>3. meta[a] # Unknown
        BY <3>1, UnknownAssumption DEF Typing, FilesOK
      <4> QED
        BY <3>1, <4>2, <4>3 DEF Looks, Shows
    <3>3. CASE f # "meta"
      BY <1>1, <2>4, <3>1, <3>3 DEF RemoveEntry
    <3> QED
      BY <3>2, <3>3
  <2>5. CASE ~Crash(p) /\ ~\E f \in AppFile : RemoveEntry(p, f)
    <3>1. UNCHANGED <<meta, asked>> /\ pc[p] # "write_meta"
      BY <2>1, <2>5, QuietStep
    <3> QED
      BY <1>1, <2>2, <3>1
  <2> QED
    BY <2>3, <2>4, <2>5
<1> QED
  BY <1>2, <1>3

\* The application a step touches, whether others are at work on it or not.
LEMMA TouchedShows ==
    ASSUME RegInv, RegInv', NEW p \in Proc, Acts(p), Mixes, NEW a \in App,
           WorksOn(p, a) \/ WorksOn(p, a)'
    PROVE  Shows(a, Shown(a)', Chosen(a)')
<1> USE DEF RegInv
<1>1. CASE a \in mixed'
  BY <1>1, ShownMeansNext DEF LooksRight, Looks, Shows
<1>2. CASE a \in mixed /\ a \notin mixed'
  <2>1. Workers(a)' = {} /\ a \notin cutMeta'
    BY <1>2 DEF Mixes
  <2>2. meta'[a] # Torn
    <3>1. \A q \in Proc : ~WorksOn(q, a)'
      BY <2>1 DEF Workers
    <3>2. \A q \in Proc : ~WritesMeta(q, a)'
      BY <3>1 DEF OpsInv, OpFits, Updating, WritesMeta, WorksOn
    <3> QED
      BY <2>1, <3>1, <3>2 DEF HeadersExplained
  <2>3. Looks(a, meta[a], asked[a])' /\ Looks(a, Unknown, Unknown)
    BY <1>2, <2>2, ShownMeans, ShownMeansNext DEF LooksRight
  <2>4. meta'[a] \in Header \cup {None} /\ asked'[a] \in Perm \cup {None}
    BY <2>2 DEF Typing, FilesOK, Header
  <2> QED
    BY <2>3, <2>4 DEF Looks, Shows
<1>3. CASE a \notin mixed /\ a \notin mixed'
  <2>1. CASE OpenMeta(p) \/ WriteMeta(p)
    <3>1. WorksOn(p, a)
      <4>1. ~Begin(p) /\ pc[p] # "idle"
        BY <2>1 DEF OpenMeta, WriteMeta, Begin, Install, Mount, ReadMeta, Edit,
           Remove, Gc, Start
      <4> QED
        BY <4>1, JobStep, LeftIsOff DEF WorksOn
    <3> QED
      BY <1>3, <2>1, <3>1, OpenShows, WriteShows DEF Shows
  <2>2. CASE ~OpenMeta(p) /\ ~WriteMeta(p)
    BY <1>3, <2>2, OthersShow
  <2> QED
    BY <2>1, <2>2
<1> QED
  BY <1>1, <1>2, <1>3

\* In terms of the registry: one entry of each function may change.
LEMMA ShowsIsStep ==
    ASSUME NEW a \in App, Shows(a, Shown(a)', Chosen(a)'),
           \A b \in App \ {a} : Shown(b)' = Shown(b) /\ Chosen(b)' = Chosen(b)
    PROVE  [Reg!Next]_(Reg!vars)
<1> DEFINE H == [b \in App |-> Shown(b)]
           C == [b \in App |-> Chosen(b)]
<1>1. /\ H' = [H EXCEPT ![a] = Shown(a)'] /\ C' = [C EXCEPT ![a] = Chosen(a)']
      /\ H[a] = Shown(a) /\ C[a] = Chosen(a)
  OBVIOUS
<1>2. Reg!Becomes(a, Shown(a)', Chosen(a)')
  BY <1>1 DEF Reg!Becomes
<1> HIDE DEF H, C
<1>3. CASE Shown(a)' = Shown(a) /\ Chosen(a)' = Chosen(a)
  <2>1. \A b \in App : Shown(b)' = Shown(b) /\ Chosen(b)' = Chosen(b)
    BY <1>3
  <2>2. H' = H /\ C' = C
    BY <2>1 DEF H, C
  <2> QED
    BY <2>2 DEF Reg!vars, H, C
<1>4. ASSUME NEW r \in Release, AppOf[r] = a,
             Shown(a)' = [rel |-> r, perm |-> BundlePerm], Chosen(a)' = BundlePerm
      PROVE  Reg!Next
  BY <1>2, <1>4 DEF Reg!Next, Reg!Install
<1>5. ASSUME NEW r \in Release, Shown(a) \in Header, AppOf[r] = a, r # Shown(a).rel,
             Shown(a)' = [Shown(a) EXCEPT !.rel = r], Chosen(a)' = Chosen(a)
      PROVE  Reg!Next
  <2>1. Reg!Update(a, r)
    BY <1>1, <1>2, <1>5 DEF Reg!Update, Reg!Header, Header, H, C
  <2> QED
    BY <2>1 DEF Reg!Next
<1>6. ASSUME NEW perm \in Perm, Shown(a) \in Header,
             Shown(a)' = [Shown(a) EXCEPT !.perm = perm], Chosen(a)' = perm
      PROVE  Reg!Next
  <2>1. Reg!Edit(a, perm)
    BY <1>1, <1>2, <1>6 DEF Reg!Edit, Reg!Header, Header, H, C
  <2> QED
    BY <2>1 DEF Reg!Next
<1>7. CASE Shown(a) # Unknown /\ Shown(a)' = None /\ Chosen(a)' = Chosen(a)
  <2>1. Reg!Remove(a)
    BY <1>1, <1>2, <1>7 DEF Reg!Remove, H, C
  <2> QED
    BY <2>1 DEF Reg!Next
<1>8. CASE Shown(a)' = Unknown /\ Chosen(a)' = Unknown
  <2>1. Reg!Confuse(a)
    BY <1>2, <1>8 DEF Reg!Confuse
  <2> QED
    BY <2>1 DEF Reg!Next
<1>9. CASE /\ Shown(a) = Unknown
           /\ Shown(a)' \in Header \cup {None} /\ Chosen(a)' \in Perm \cup {None}
  <2>1. Reg!Settle(a)
    BY <1>1, <1>2, <1>9 DEF Reg!Settle, Reg!Header, Header, H, C
  <2> QED
    BY <2>1 DEF Reg!Next
<1> QED
  BY <1>3, <1>4, <1>5, <1>6, <1>7, <1>8, <1>9 DEF Shows

LEMMA RegStep ==
    RegInv /\ RegInv' /\ [MixNext]_<<vars, mixed>> => [Reg!Next]_(Reg!vars)
<1> SUFFICES ASSUME RegInv, RegInv', [MixNext]_<<vars, mixed>>
             PROVE  [Reg!Next]_(Reg!vars)
  OBVIOUS
<1>1. CASE UNCHANGED <<vars, mixed>>
  <2>1. \A p \in Proc, a \in App : WritesMeta(p, a)' <=> WritesMeta(p, a)
    BY <1>1 DEF vars, local, WritesMeta
  <2>2. ASSUME NEW a \in App PROVE Shown(a)' = Shown(a) /\ Chosen(a)' = Chosen(a)
    BY <1>1 DEF vars, local, apps, Shown, Chosen, Writer, WritesMeta, Carried, Asks
  <2> QED
    BY <2>2 DEF Reg!vars
<1>2. ASSUME NEW p \in Proc, Acts(p), Mixes PROVE [Reg!Next]_(Reg!vars)
  <2>1. CASE \E a \in App : WorksOn(p, a) \/ WorksOn(p, a)'
    <3>1. PICK a \in App : WorksOn(p, a) \/ WorksOn(p, a)'
      BY <2>1
    <3>2. \A b \in App \ {a} : ~WorksOn(p, b) /\ ~WorksOn(p, b)'
      BY <1>2, <3>1, JobStep, LeftIsOff DEF RegInv, WorksOn
    <3>3. \A b \in App \ {a} : Shown(b)' = Shown(b) /\ Chosen(b)' = Chosen(b)
      BY <1>2, <3>2, Footprint
    <3> QED
      BY <1>2, <3>1, <3>3, TouchedShows, ShowsIsStep
  <2>2. CASE ~\E a \in App : WorksOn(p, a) \/ WorksOn(p, a)'
    <3>1. \A a \in App : Shown(a)' = Shown(a) /\ Chosen(a)' = Chosen(a)
      BY <1>2, <2>2, Footprint
    <3> QED
      BY <3>1 DEF Reg!vars
  <2> QED
    BY <2>1, <2>2
<1> QED
  BY <1>1, <1>2 DEF MixNext, Next, Acts

\* The store implements the registry, for any number of processes and
\* applications and wherever commands are killed: of an application that one
\* command at a time works on, the header changes as install, update, edit and
\* remove say and at no other step; an update carries the permissions over, an
\* edit the release (register_app, check_and_apply_updates, edit_permissions,
\* remove_app).
THEOREM RegistryCorrect == MixSpec => ImplementsRegistry
<1>1. MixInit => Reg!Init
  <2> SUFFICES ASSUME MixInit PROVE Reg!Init
    OBVIOUS
  <2>1. \A a \in App : Shown(a) = None /\ Chosen(a) = None
    BY SentinelAssumption DEF MixInit, Init, Shown, Chosen
  <2> QED
    BY <2>1 DEF Reg!Init
<1>2. RegInv /\ [MixNext]_<<vars, mixed>> => RegInv'
  BY RegInvStep
<1> QED
  BY <1>1, <1>2, InitRegInv, RegStep, PTL DEF MixSpec, ImplementsRegistry, Reg!Spec

=============================================================================
