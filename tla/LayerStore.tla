----------------------------- MODULE LayerStore -----------------------------
(***************************************************************************)
(* The on-disk store of nexpack (nexpack-core/src/store.rs) and every      *)
(* program that changes it: the nxpk commands install, update, remove,     *)
(* permissions --edit and gc, and inside nexpackd the background update    *)
(* checker ("refresh") and the part of a mount request that stores layers  *)
(* ("mount").  They are separate processes or threads and take no lock, so *)
(* an action is one system call on the store together with the code up to  *)
(* the next one.                                                           *)
(*                                                                         *)
(* A layer directory layers/blake3-<d>/ is image[d]; the files of          *)
(* apps/<a>/ are meta[a] (meta.capnp), current[a] and tmp[a] (the symlinks *)
(* current and current.tmp); gc-roots/<a> is root[a].  A symlink is the    *)
(* digest it names.  A header is what the properties tell apart: the       *)
(* release it describes and the permissions it grants.                     *)
(***************************************************************************)
EXTENDS Naturals, Sequences, FiniteSets

CONSTANTS
    Proc,       \* processes and daemon threads
    App,        \* application ids
    Digest,     \* blake3 digests of layers
    Release,    \* releases: a bundle, or an entry of an update feed
    Perm,       \* permission sets
    AppOf,      \* the application a release belongs to
    LayersOf,   \* the layers of a release, lowest first
    BundlePerm, \* the permissions every bundle ships with
    May,        \* the commands a process can run
    Busy,       \* layers in use by a mount, whose umount can fail
    MaxFaults,  \* bound: crashes and failed writes in a behaviour
    None, Torn  \* "no value" and "header that does not parse"

Command == {"install", "update", "refresh", "mount", "edit", "remove", "gc"}

ASSUME ReleaseAssumption ==
    /\ AppOf \in [Release -> App]
    /\ LayersOf \in [Release -> Seq(Digest) \ {<<>>}]
    /\ BundlePerm \in Perm
ASSUME CommandAssumption == May \in [Proc -> SUBSET Command]
ASSUME BusyAssumption == Busy \subseteq Digest
ASSUME BoundAssumption == MaxFaults \in Nat
ASSUME SentinelAssumption ==
    /\ None \notin App \cup Digest \cup Release \cup Perm
    /\ None # Torn
    /\ \A h \in [rel : Release, perm : Perm] : h # None /\ h # Torn

VARIABLES
    image,    \* what layers/blake3-<d>/ holds
    appdir,   \* the applications that have a directory
    meta, current, tmp, root,
    pc, job,  \* where each process stands, and the values it carries
    linked,   \* the file a process is writing still has its name
    scan,     \* what a collection has read so far
    steady,   \* history: roots that nobody touched since the scan began
    swept,    \* history: images taken away by gc and not stored again
    cutImage, \* history: images whose writer died or failed half way
    cutMeta,  \* history: headers whose writer died half way
    asked,    \* history: the permissions last chosen for an application
    faults

layers == <<image, swept, cutImage>>
apps   == <<appdir, meta, current, tmp, cutMeta, asked>>
roots  == <<root, steady>>
local  == <<pc, job, linked, scan>>
vars   == <<layers, apps, roots, local, faults>>

(***************************************************************************)
(* An image is missing with its directory ("none"), missing in an existing *)
(* directory ("dir"), truncated or partly written ("torn"), the bytes its  *)
(* digest names ("whole"), or other bytes ("wrong").                       *)
(***************************************************************************)
Image   == {"none", "dir", "torn", "whole", "wrong"}
AppFile == {"meta", "current", "current.tmp"}
Header  == [rel : Release, perm : Perm]

PC == {"idle", "plan", "layer", "create", "write_image", "app_dir",
       "open_meta", "write_meta", "unlink_current", "link_current",
       "check_top", "unlink_tmp", "link_tmp", "rename", "unlink_root",
       "link_root", "remove", "rmdir", "gc_roots", "gc_layers", "gc_sweep"}

HasLayer(d) == image[d] \notin {"none", "dir"}
Top(r)      == LayersOf[r][Len(LayersOf[r])]
Layer(p)    == LayersOf[job[p].rel][job[p].at]

NoJob  == [op |-> "none", app |-> None, rel |-> None, perm |-> None,
           at |-> 0, need |-> {}, data |-> "none", files |-> {}]
NoScan == [links |-> {}, reach |-> {}, dirs |-> {}]

WritesImage(p, d) == pc[p] = "write_image" /\ linked[p] /\ Layer(p) = d
WritesMeta(p, a)  == pc[p] = "write_meta" /\ linked[p] /\ job[p].app = a

Init ==
    /\ image = [d \in Digest |-> "none"]
    /\ appdir = {}
    /\ meta = [a \in App |-> None]
    /\ current = [a \in App |-> None]
    /\ tmp = [a \in App |-> None]
    /\ root = [a \in App |-> None]
    /\ pc = [p \in Proc |-> "idle"]
    /\ job = [p \in Proc |-> NoJob]
    /\ linked = [p \in Proc |-> FALSE]
    /\ scan = [p \in Proc |-> NoScan]
    /\ steady = [p \in Proc |-> {}]
    /\ swept = {} /\ cutImage = {} /\ cutMeta = {}
    /\ asked = [a \in App |-> None]
    /\ faults = 0

-----------------------------------------------------------------------------
(* Control flow inside one process.                                        *)

Goto(p, l) == pc' = [pc EXCEPT ![p] = l]

At(p, l, next) ==
    /\ pc[p] = l
    /\ Goto(p, next)
    /\ UNCHANGED <<job, linked, scan>>

\* The command returns, with success or an error: its locals are gone.
Leave(p) ==
    /\ Goto(p, "idle")
    /\ job' = [job EXCEPT ![p] = NoJob]
    /\ linked' = [linked EXCEPT ![p] = FALSE]
    /\ scan' = [scan EXCEPT ![p] = NoScan]

Exit(p, l) == pc[p] = l /\ Leave(p)

Start(p, op, l, j) ==
    /\ pc[p] = "idle"
    /\ op \in May[p]
    /\ Goto(p, l)
    /\ job' = [job EXCEPT ![p] = [j EXCEPT !.op = op]]
    /\ UNCHANGED <<linked, scan>>

\* An I/O error ends a command; the background thread carries on at next.
Fails(p, l, next) ==
    \/ job[p].op # "refresh" /\ Exit(p, l)
    \/ job[p].op = "refresh" /\ At(p, l, next)

AfterLayers(p) ==
    CASE job[p].op = "install" -> "app_dir"
      [] job[p].op = "mount" -> "idle"
      [] OTHER -> "check_top"
AfterMeta(p) == IF job[p].op = "install" THEN "unlink_current" ELSE "idle"
AfterRoot(p) == IF job[p].op = "install" THEN "idle" ELSE "open_meta"

Step(p, l, next) ==
    IF next = "idle" THEN Exit(p, l) ELSE At(p, l, next)

-----------------------------------------------------------------------------
(* Commands begin.                                                         *)

\* nxpk install: the bundle is opened; layers are stored next.
Install(p, r) ==
    /\ Start(p, "install", "layer",
             [NoJob EXCEPT !.app = AppOf[r], !.rel = r, !.perm = BundlePerm,
                           !.at = 1])
    /\ UNCHANGED <<layers, apps, roots, faults>>

\* nexpackd: a mount request stores what is missing of a verified bundle.
Mount(p, r) ==
    /\ Start(p, "mount", "layer",
             [NoJob EXCEPT !.app = AppOf[r], !.rel = r, !.at = 1])
    /\ UNCHANGED <<layers, apps, roots, faults>>

\* Mutant of ReadMeta: the permissions are those of a new bundle again.
ReadRelease(p, op, a) ==
    /\ op \in {"update", "refresh"}
    /\ meta[a] \in Header
    /\ Start(p, op, "plan",
             [NoJob EXCEPT !.app = a, !.rel = meta[a].rel, !.perm = BundlePerm])
    /\ UNCHANGED <<layers, apps, roots, faults>>

\* nxpk update, or one round of the background checker: the installed
\* header is read.  A header that does not parse ends the round at once.
ReadMeta(p, op, a) ==
    /\ op \in {"update", "refresh"}
    /\ meta[a] \in Header
    /\ Start(p, op, "plan",
             [NoJob EXCEPT !.app = a, !.rel = meta[a].rel,
                           !.perm = meta[a].perm])
    /\ UNCHANGED <<layers, apps, roots, faults>>

\* nxpk permissions --edit: the header is read, the user edits, and the
\* save writes the header that was read with the new permissions.
Edit(p, a, perm) ==
    /\ meta[a] \in Header
    /\ Start(p, "edit", "open_meta",
             [NoJob EXCEPT !.app = a, !.rel = meta[a].rel, !.perm = perm])
    /\ UNCHANGED <<layers, apps, roots, faults>>

\* nxpk remove: remove_dir_all lists the directory of the application.
Present(a) ==
    {f \in AppFile : \/ f = "meta" /\ meta[a] # None
                     \/ f = "current" /\ current[a] # None
                     \/ f = "current.tmp" /\ tmp[a] # None}
Remove(p, a) ==
    /\ a \in appdir
    /\ Start(p, "remove", "remove",
             [NoJob EXCEPT !.app = a, !.files = Present(a)])
    /\ UNCHANGED <<layers, apps, roots, faults>>

-----------------------------------------------------------------------------
(* Update feeds.                                                           *)

\* The feed names release r as the latest, and it is not the one the header
\* names: missing_layers is computed once, here.
Plan(p, r) ==
    /\ pc[p] = "plan"
    /\ AppOf[r] = job[p].app
    /\ r # job[p].rel
    /\ job' = [job EXCEPT ![p].rel = r, ![p].at = 1,
                          ![p].need = {d \in Digest : ~HasLayer(d)}]
    /\ Goto(p, "layer")
    /\ UNCHANGED <<layers, apps, roots, linked, scan, faults>>

\* The feed cannot be fetched, does not parse, or has nothing new.
NothingNew(p) ==
    /\ Exit(p, "plan")
    /\ UNCHANGED <<layers, apps, roots, faults>>

-----------------------------------------------------------------------------
(* The loop over the layers of a release.                                  *)

Advance(p) == job' = [job EXCEPT ![p].at = @ + 1]
LastLayer(p) == job[p].at > Len(LayersOf[job[p].rel])

\* install and mount look again before each layer, an update does not.
Skips(p) ==
    IF job[p].op \in {"install", "mount"} THEN HasLayer(Layer(p))
                                          ELSE Layer(p) \notin job[p].need

SkipLayer(p) ==
    /\ pc[p] = "layer" /\ ~LastLayer(p) /\ Skips(p)
    /\ Advance(p)
    /\ UNCHANGED <<pc, linked, scan, layers, apps, roots, faults>>

\* What the commands hand to store_layer: only the background checker may
\* pass on bytes it has not compared with the digest.
Fetched(p) == IF job[p].op = "refresh" THEN {"whole", "wrong"} ELSE {"whole"}

\* The bytes are there, and store_layer makes the directory of the layer.
FetchLayer(p, data) ==
    /\ pc[p] = "layer" /\ ~LastLayer(p) /\ ~Skips(p)
    /\ data \in Fetched(p)
    /\ job' = [job EXCEPT ![p].data = data]
    /\ Goto(p, "create")
    /\ image' = [image EXCEPT ![Layer(p)] = IF @ = "none" THEN "dir" ELSE @]
    /\ UNCHANGED <<linked, scan, swept, cutImage, apps, roots, faults>>

\* Mutant of FetchFails: an update, too, goes on to the next layer.
FetchSkipped(p) ==
    /\ pc[p] = "layer" /\ ~LastLayer(p) /\ ~Skips(p)
    /\ IF job[p].op \in {"refresh", "update"}
       THEN Advance(p) /\ UNCHANGED <<pc, linked, scan>>
       ELSE Leave(p)
    /\ UNCHANGED <<layers, apps, roots, faults>>

\* The bundle or the download is damaged: the commands give up, the
\* background checker goes to the next layer.
FetchFails(p) ==
    /\ pc[p] = "layer" /\ ~LastLayer(p) /\ ~Skips(p)
    /\ IF job[p].op = "refresh"
       THEN Advance(p) /\ UNCHANGED <<pc, linked, scan>>
       ELSE Leave(p)
    /\ UNCHANGED <<layers, apps, roots, faults>>

LayersDone(p) ==
    /\ pc[p] = "layer" /\ LastLayer(p)
    /\ Step(p, "layer", AfterLayers(p))
    /\ UNCHANGED <<layers, apps, roots, faults>>

(* Then store_layer creates or truncates the image, and writes it.         *)

CreateImage(p) ==
    /\ pc[p] = "create"
    /\ image[Layer(p)] # "none"
    /\ image' = [image EXCEPT ![Layer(p)] = "torn"]
    /\ swept' = swept \ {Layer(p)}
    /\ cutImage' = cutImage \ {Layer(p)}
    /\ linked' = [linked EXCEPT ![p] = TRUE]
    /\ Goto(p, "write_image")
    /\ UNCHANGED <<job, scan, apps, roots, faults>>

\* The directory was swept between the two calls.
CreateFails(p) ==
    /\ pc[p] = "create"
    /\ image[Layer(p)] = "none"
    /\ IF job[p].op = "refresh"
       THEN Goto(p, "layer") /\ Advance(p) /\ UNCHANGED <<linked, scan>>
       ELSE Leave(p)
    /\ UNCHANGED <<layers, apps, roots, faults>>

\* Mutant of WriteImage: a single write call, which may be short.
ShortWrite(p) ==
    /\ pc[p] = "write_image"
    /\ Goto(p, "layer")
    /\ Advance(p)
    /\ linked' = [linked EXCEPT ![p] = FALSE]
    /\ UNCHANGED <<scan, layers, apps, roots, faults>>

WriteImage(p) ==
    /\ pc[p] = "write_image"
    /\ IF linked[p]
       THEN /\ image' = [image EXCEPT ![Layer(p)] = job[p].data]
            /\ cutImage' = cutImage \ {Layer(p)}
       ELSE UNCHANGED <<image, cutImage>>
    /\ Goto(p, "layer")
    /\ Advance(p)
    /\ linked' = [linked EXCEPT ![p] = FALSE]
    /\ UNCHANGED <<scan, swept, apps, roots, faults>>

\* The disk is full: the file stays as it is.
WriteFails(p) ==
    /\ pc[p] = "write_image"
    /\ faults < MaxFaults /\ faults' = faults + 1
    /\ cutImage' = IF linked[p] THEN cutImage \cup {Layer(p)} ELSE cutImage
    /\ IF job[p].op = "refresh"
       THEN /\ Goto(p, "layer") /\ Advance(p)
            /\ linked' = [linked EXCEPT ![p] = FALSE] /\ UNCHANGED scan
       ELSE Leave(p)
    /\ UNCHANGED <<image, swept, apps, roots>>

-----------------------------------------------------------------------------
(* The directory of an application: Store::register_app and the writes of  *)
(* update, background update and permissions --edit.                       *)

MakeAppDir(p) ==
    /\ At(p, "app_dir", "open_meta")
    /\ appdir' = appdir \cup {job[p].app}
    /\ UNCHANGED <<meta, current, tmp, cutMeta, asked, layers, roots, faults>>

OpenMeta(p) ==
    /\ pc[p] = "open_meta"
    /\ job[p].app \in appdir
    /\ meta' = [meta EXCEPT ![job[p].app] = Torn]
    /\ cutMeta' = cutMeta \ {job[p].app}
    /\ linked' = [linked EXCEPT ![p] = TRUE]
    /\ Goto(p, "write_meta")
    /\ UNCHANGED <<job, scan, appdir, current, tmp, asked, layers, roots, faults>>

\* The application was removed meanwhile.
OpenMetaFails(p) ==
    /\ Exit(p, "open_meta")
    /\ job[p].app \notin appdir
    /\ UNCHANGED <<layers, apps, roots, faults>>

WriteMeta(p) ==
    /\ pc[p] = "write_meta"
    /\ LET a == job[p].app IN
       /\ IF linked[p]
          THEN /\ meta' = [meta EXCEPT ![a] = [rel  |-> job[p].rel,
                                               perm |-> job[p].perm]]
               /\ cutMeta' = cutMeta \ {a}
          ELSE UNCHANGED <<meta, cutMeta>>
       /\ asked' = IF job[p].op \in {"install", "edit"}
                   THEN [asked EXCEPT ![a] = job[p].perm] ELSE asked
    /\ IF AfterMeta(p) = "idle"
       THEN Leave(p)
       ELSE /\ Goto(p, AfterMeta(p))
            /\ linked' = [linked EXCEPT ![p] = FALSE]
            /\ UNCHANGED <<job, scan>>
    /\ UNCHANGED <<appdir, current, tmp, layers, roots, faults>>

UnlinkCurrent(p) ==
    /\ At(p, "unlink_current", "link_current")
    /\ current' = [current EXCEPT ![job[p].app] = None]
    /\ UNCHANGED <<appdir, meta, tmp, cutMeta, asked, layers, roots, faults>>

LinkCurrent(p) ==
    /\ At(p, "link_current", "unlink_root")
    /\ job[p].app \in appdir
    /\ current[job[p].app] = None
    /\ current' = [current EXCEPT ![job[p].app] = Top(job[p].rel)]
    /\ UNCHANGED <<appdir, meta, tmp, cutMeta, asked, layers, roots, faults>>

\* Another process made the link first, or removed the directory.
LinkCurrentFails(p) ==
    /\ Exit(p, "link_current")
    /\ \/ job[p].app \notin appdir
       \/ current[job[p].app] # None
    /\ UNCHANGED <<layers, apps, roots, faults>>

\* Mutant of CheckTop: the relink does not ask for the layer.
RelinkBlindly(p) ==
    /\ At(p, "check_top", "unlink_tmp")
    /\ UNCHANGED <<layers, apps, roots, faults>>

\* An update relinks only when it finds the top layer in the store; it
\* writes the new header either way.
CheckTop(p) ==
    /\ At(p, "check_top",
          IF HasLayer(Top(job[p].rel)) THEN "unlink_tmp" ELSE "open_meta")
    /\ UNCHANGED <<layers, apps, roots, faults>>

UnlinkTmp(p) ==
    /\ At(p, "unlink_tmp", "link_tmp")
    /\ tmp' = [tmp EXCEPT ![job[p].app] = None]
    /\ UNCHANGED <<appdir, meta, current, cutMeta, asked, layers, roots, faults>>

LinkTmp(p) ==
    /\ At(p, "link_tmp", "rename")
    /\ job[p].app \in appdir
    /\ tmp[job[p].app] = None
    /\ tmp' = [tmp EXCEPT ![job[p].app] = Top(job[p].rel)]
    /\ UNCHANGED <<appdir, meta, current, cutMeta, asked, layers, roots, faults>>

LinkTmpFails(p) ==
    /\ Fails(p, "link_tmp", "unlink_root")
    /\ \/ job[p].app \notin appdir
       \/ tmp[job[p].app] # None
    /\ UNCHANGED <<layers, apps, roots, faults>>

RenameTmp(p) ==
    /\ At(p, "rename", "unlink_root")
    /\ tmp[job[p].app] # None
    /\ current' = [current EXCEPT ![job[p].app] = tmp[job[p].app]]
    /\ tmp' = [tmp EXCEPT ![job[p].app] = None]
    /\ UNCHANGED <<appdir, meta, cutMeta, asked, layers, roots, faults>>

\* The other updater renamed the shared current.tmp away.
RenameFails(p) ==
    /\ Fails(p, "rename", "unlink_root")
    /\ tmp[job[p].app] = None
    /\ UNCHANGED <<layers, apps, roots, faults>>

(* Store::add_gc_root: the old link goes before the new one is made.       *)

\* Mutant of UnlinkRoot: the old root is not removed first.
KeepRoot(p) ==
    /\ At(p, "unlink_root", "link_root")
    /\ UNCHANGED <<layers, apps, roots, faults>>

UnlinkRoot(p) ==
    /\ At(p, "unlink_root", "link_root")
    /\ root' = [root EXCEPT ![job[p].app] = None]
    /\ steady' = [q \in Proc |-> steady[q] \ {job[p].app}]
    /\ UNCHANGED <<layers, apps, faults>>

LinkRoot(p) ==
    /\ pc[p] = "link_root"
    /\ root[job[p].app] = None
    /\ root' = [root EXCEPT ![job[p].app] = Top(job[p].rel)]
    /\ Step(p, "link_root", AfterRoot(p))
    /\ UNCHANGED <<steady, layers, apps, faults>>

LinkRootFails(p) ==
    /\ Fails(p, "link_root", "open_meta")
    /\ root[job[p].app] # None
    /\ UNCHANGED <<layers, apps, roots, faults>>

-----------------------------------------------------------------------------
(* Store::remove_app: the files it listed, one by one, then the directory. *)
(* The root of the application stays.                                      *)

RemoveEntry(p, f) ==
    /\ pc[p] = "remove"
    /\ f \in job[p].files
    /\ LET a == job[p].app IN
       /\ meta' = IF f = "meta" THEN [meta EXCEPT ![a] = None] ELSE meta
       /\ cutMeta' = IF f = "meta" THEN cutMeta \ {a} ELSE cutMeta
       /\ current' = IF f = "current" THEN [current EXCEPT ![a] = None]
                                      ELSE current
       /\ tmp' = IF f = "current.tmp" THEN [tmp EXCEPT ![a] = None] ELSE tmp
       /\ linked' = [q \in Proc |->
                        linked[q] /\ ~(f = "meta" /\ WritesMeta(q, a))]
    /\ job' = [job EXCEPT ![p].files = @ \ {f}]
    /\ UNCHANGED <<pc, scan, appdir, asked, layers, roots, faults>>

\* rmdir fails when somebody added a file to the directory meanwhile.
RemoveDir(p) ==
    /\ Exit(p, "remove")
    /\ job[p].files = {}
    /\ appdir' = IF Present(job[p].app) = {} THEN appdir \ {job[p].app}
                                             ELSE appdir
    /\ UNCHANGED <<meta, current, tmp, cutMeta, asked, layers, roots, faults>>

-----------------------------------------------------------------------------
(* Store::gc: read every root, then delete every layer directory that no   *)
(* root names.  The loop over the applications' current links adds nothing *)
(* here: it records the last component of ../layers/<dir>/image.erofs,     *)
(* which is no directory of layers/.                                       *)

Gc(p) ==
    /\ pc[p] = "idle"
    /\ "gc" \in May[p]
    /\ Goto(p, "gc_roots")
    /\ scan' = [scan EXCEPT ![p].links = {a \in App : root[a] # None}]
    /\ steady' = [steady EXCEPT ![p] = {a \in App : root[a] # None}]
    /\ UNCHANGED <<root, job, linked, layers, apps, faults>>

\* Mutant of GcReadLink: a root that vanished counts as a target.
GcReadDeadLink(p, a) ==
    /\ pc[p] = "gc_roots"
    /\ a \in scan[p].links
    /\ scan' = [scan EXCEPT ![p] = [links |-> @.links \ {a},
                                    reach |-> @.reach \cup {root[a]},
                                    dirs  |-> {}]]
    /\ UNCHANGED <<pc, job, linked, layers, apps, roots, faults>>

GcReadLink(p, a) ==
    /\ pc[p] = "gc_roots"
    /\ a \in scan[p].links
    /\ scan' = [scan EXCEPT ![p] = [links |-> @.links \ {a},
                                    reach |-> @.reach \cup ({root[a]} \ {None}),
                                    dirs  |-> {}]]
    /\ UNCHANGED <<pc, job, linked, layers, apps, roots, faults>>

\* Mutant of GcListLayers: the scan ends at the first root.
GcListEarly(p) ==
    /\ pc[p] = "gc_roots"
    /\ scan' = [scan EXCEPT ![p].dirs = {d \in Digest : image[d] # "none"}]
    /\ Goto(p, "gc_sweep")
    /\ UNCHANGED <<job, linked, layers, apps, roots, faults>>

GcListLayers(p) ==
    /\ pc[p] = "gc_roots"
    /\ scan[p].links = {}
    /\ scan' = [scan EXCEPT ![p].dirs = {d \in Digest : image[d] # "none"}]
    /\ Goto(p, "gc_sweep")
    /\ UNCHANGED <<job, linked, layers, apps, roots, faults>>

GcKeep(p, d) ==
    /\ pc[p] = "gc_sweep"
    /\ d \in scan[p].dirs \cap scan[p].reach
    /\ scan' = [scan EXCEPT ![p].dirs = @ \ {d}]
    /\ UNCHANGED <<pc, job, linked, layers, apps, roots, faults>>

\* What remove_dir_all leaves: nothing, or, when the layer is mounted under
\* mnt/ and umount refuses, the directory with or without its image.
GcDelete(p, d, left) ==
    /\ pc[p] = "gc_sweep"
    /\ d \in scan[p].dirs \ scan[p].reach
    /\ \/ left = "none"
       \/ d \in Busy /\ image[d] # "none" /\ left \in {"dir", image[d]}
    /\ image' = [image EXCEPT ![d] = left]
    /\ scan' = [scan EXCEPT ![p].dirs = @ \ {d}]
    /\ IF left \in {"none", "dir"}
       THEN /\ swept' = swept \cup {d}
            /\ cutImage' = cutImage \ {d}
            /\ linked' = [q \in Proc |-> linked[q] /\ ~WritesImage(q, d)]
       ELSE UNCHANGED <<swept, cutImage, linked>>
    /\ UNCHANGED <<pc, job, apps, roots, faults>>

GcEnd(p) ==
    /\ Exit(p, "gc_sweep")
    /\ scan[p].dirs = {}
    /\ steady' = [steady EXCEPT ![p] = {}]
    /\ UNCHANGED <<root, layers, apps, faults>>

-----------------------------------------------------------------------------
(* A process is killed at any point; what it was writing stays torn.       *)
Crash(p) ==
    /\ pc[p] # "idle"
    /\ faults < MaxFaults /\ faults' = faults + 1
    /\ Leave(p)
    /\ steady' = [steady EXCEPT ![p] = {}]
    /\ cutImage' = cutImage \cup {d \in Digest : WritesImage(p, d)}
    /\ cutMeta' = cutMeta \cup {a \in App : WritesMeta(p, a)}
    /\ UNCHANGED <<image, swept, appdir, meta, current, tmp, asked, root>>

Begin(p) ==
    \/ \E r \in Release : Install(p, r) \/ Mount(p, r)
    \/ \E a \in App : \/ \E op \in Command : ReadMeta(p, op, a)
                      \/ \E perm \in Perm : Edit(p, a, perm)
                      \/ Remove(p, a)
    \/ Gc(p)

StoreStep(p) ==
    \/ \E r \in Release : Plan(p, r)
    \/ NothingNew(p) \/ SkipLayer(p) \/ FetchFails(p) \/ LayersDone(p)
    \/ \E data \in {"whole", "wrong"} : FetchLayer(p, data)
    \/ CreateImage(p) \/ CreateFails(p)
    \/ WriteImage(p) \/ WriteFails(p)

AppStep(p) ==
    \/ MakeAppDir(p) \/ OpenMeta(p) \/ OpenMetaFails(p) \/ WriteMeta(p)
    \/ UnlinkCurrent(p) \/ LinkCurrent(p) \/ LinkCurrentFails(p)
    \/ CheckTop(p) \/ UnlinkTmp(p) \/ LinkTmp(p) \/ LinkTmpFails(p)
    \/ RenameTmp(p) \/ RenameFails(p)
    \/ UnlinkRoot(p) \/ LinkRoot(p) \/ LinkRootFails(p)
    \/ \E f \in AppFile : RemoveEntry(p, f)
    \/ RemoveDir(p)

GcStep(p) ==
    \/ \E a \in App : GcReadLink(p, a)
    \/ GcListLayers(p) \/ GcEnd(p)
    \/ \E d \in Digest : \/ GcKeep(p, d)
                         \/ \E left \in Image : GcDelete(p, d, left)

Next == \E p \in Proc : Begin(p) \/ StoreStep(p) \/ AppStep(p) \/ GcStep(p)
                        \/ Crash(p)

Spec == Init /\ [][Next]_vars

-----------------------------------------------------------------------------
(* Properties.                                                             *)

\* The store, the processes and the history have the shapes given above.
Job == [op : Command \cup {"none"}, app : App \cup {None},
        rel : Release \cup {None}, perm : Perm \cup {None}, at : Nat,
        need : SUBSET Digest, data : Image, files : SUBSET AppFile]
TypeOK ==
    /\ image \in [Digest -> Image]
    /\ appdir \subseteq App
    /\ meta \in [App -> Header \cup {None, Torn}]
    /\ current \in [App -> Digest \cup {None}]
    /\ tmp \in [App -> Digest \cup {None}]
    /\ root \in [App -> Digest \cup {None}]
    /\ pc \in [Proc -> PC]
    /\ job \in [Proc -> Job]
    /\ linked \in [Proc -> BOOLEAN]
    /\ scan \in [Proc -> [links : SUBSET App, reach : SUBSET Digest,
                          dirs : SUBSET Digest]]
    /\ steady \in [Proc -> SUBSET App]
    /\ swept \subseteq Digest
    /\ cutImage \subseteq Digest
    /\ cutMeta \subseteq App
    /\ asked \in [App -> Perm \cup {None}]
    /\ faults \in 0..MaxFaults

\* Store::gc takes a stored image away only while sweeping, and never the
\* one a root names that has been there, untouched, since the scan began,
\* whatever installs, updates and other collections do meanwhile.
GcSparesSteadyRoots ==
    [][\A d \in Digest :
          HasLayer(d) /\ ~HasLayer(d)' =>
             \E p \in Proc : /\ pc[p] = "gc_sweep"
                             /\ \A a \in steady[p] : root[a] # d]_vars

\* A truncated image or header is explained by a writer that is still at
\* work on that very file, or by one that died or failed in the middle.
TornOnlyByFault ==
    /\ \A d \in Digest : image[d] = "torn" =>
          d \in cutImage \/ \E p \in Proc : WritesImage(p, d)
    /\ \A a \in App : meta[a] = Torn =>
          a \in cutMeta \/ \E p \in Proc : WritesMeta(p, a)

\* Whatever the interleaving, current, current.tmp and the gc root of an
\* application name a layer that was stored; only gc can have taken it away.
LinksStored ==
    \A a \in App : \A d \in {current[a], tmp[a], root[a]} \ {None} :
        HasLayer(d) \/ d \in swept

\* The header of an installed application names only layers that were
\* stored; only gc can have taken one away.
InstalledLayersStored ==
    \A a \in App : meta[a] \in Header =>
        \A i \in DOMAIN LayersOf[meta[a].rel] :
            LET d == LayersOf[meta[a].rel][i] IN HasLayer(d) \/ d \in swept

\* Between commands, an installed application is all of one release: its
\* header, its current link and its root agree, every layer is complete
\* unless gc took it away (the top one it runs from always is), and its
\* permissions are the ones last chosen for it.
AtRest == \A p \in Proc : pc[p] = "idle"
LayersIn(a) == {LayersOf[meta[a].rel][i] : i \in DOMAIN LayersOf[meta[a].rel]}
AtRestConsistent ==
    AtRest => \A a \in App : meta[a] # None =>
        /\ meta[a] \in Header
        /\ current[a] = Top(meta[a].rel)
        /\ root[a] = current[a]
        /\ image[root[a]] = "whole"
        /\ \A d \in LayersIn(a) : image[d] = "whole" \/ d \in swept
        /\ meta[a].perm = asked[a]

-----------------------------------------------------------------------------
(* What the documentation and the messages of the program claim, where the *)
(* code does something else.                                               *)

\* "Garbage collect unused layers": a layer that an installed application
\* names is in use, so gc leaves it.
GcKeepsInstalledLayers ==
    AtRest => \A a \in App : meta[a] \in Header =>
                 \A d \in LayersIn(a) : HasLayer(d)

\* "Layers are content-addressed by their blake3 hash": no image holds bytes
\* of another digest.
ContentAddressed == \A d \in Digest : image[d] # "wrong"

=============================================================================
