---------------------------- MODULE MountDaemon -----------------------------
(***************************************************************************)
(* The mount side of nexpackd: one thread per client request, the table of *)
(* mounts behind a mutex, and the idle cleaner thread.                     *)
(*                                                                         *)
(* A client is a run of an application.  It asks for a mount (the thread   *)
(* that serves it builds the overlay with no lock held, then counts the    *)
(* run under the lock), looks for the entrypoint, runs, and ends; only a   *)
(* polite one tells the daemon that it ended.  A daemon that dies takes    *)
(* its threads and its table with it and leaves the mounts and the runs:   *)
(* the next one starts with an empty table over them.                      *)
(*                                                                         *)
(* mount(8), erofsfuse and fuse-overlayfs are modelled by what the daemon  *)
(* can tell of them: whether something is mounted at a path, and whether   *)
(* the call succeeded.  Mounts made one over the other at a rootfs stack   *)
(* up, and an unmount takes the last.  Unmounting can fail: the mount is   *)
(* in use, or it is not one that fusermount takes down.  An overlay keeps  *)
(* the layers it was mounted with, so it is complete for its whole life if *)
(* all its layers were mounted when it was.                                *)
(***************************************************************************)
EXTENDS Naturals, Sequences, FiniteSets

CONSTANTS
    Client, App, Digest,
    LayersOf,      \* the layers of the bundle of an application, lowest first
    Polite,        \* clients that send Unmount when they end; nxpk run does not
    Sticky,        \* layers and applications whose unmount can fail
    Swept,         \* layers a garbage collection can take during a mount
    MaxAbandoned,  \* bound: runs of an application that ended silently
    MaxStack,      \* bound: overlays mounted over one that cannot be unmounted
    MaxRestarts,   \* bound: daemons that die
    None

ASSUME LayersAssumption == LayersOf \in [App -> Seq(Digest)]
ASSUME ClientAssumption == IsFiniteSet(Client) /\ Polite \subseteq Client
ASSUME StickyAssumption == Sticky \subseteq App \cup Digest
ASSUME BoundAssumption == MaxAbandoned \in Nat /\ MaxStack \in Nat /\ MaxRestarts \in Nat
ASSUME NoneAssumption == None \notin Client \cup App

Cleaner == "cleaner"
ASSUME CleanerAssumption == Cleaner \notin Client /\ Cleaner # None

VARIABLES
    entry,     \* applications with an entry in DaemonState.mounts
    rc,        \* MountEntry.refcount
    old,       \* entries whose last_active is idle_timeout or more ago
    lock,      \* who holds the mutex of DaemonState
    mounted,   \* layers mounted at layers/blake3-<d>/mnt
    overlay,   \* the overlays at rootfs, "whole", "partial" or "wiped", last first
    rundir,    \* applications whose upper, work and rootfs directories exist
    pc, app, at,        \* per client: place, application, index of the layer
    cpc, victims, victim,  \* the cleaner
    abandoned, \* history: runs that ended without an Unmount
    crossed,   \* history: applications whose count an Unmount of a run took
               \* down that an earlier daemon had counted
    leaky,     \* history: applications with an overlay that was mounted over,
               \* or that an earlier daemon left
    restarts

table  == <<entry, rc, old>>
fs     == <<mounted, overlay, rundir>>
client == <<pc, app, at>>
clean  == <<cpc, victims, victim>>
hist   == <<abandoned, crossed, leaky, restarts>>
vars   == <<table, lock, fs, client, clean, hist>>

PC == {"idle", "layers", "mount_layer", "clear", "wipe", "overlay", "count",
       "reply", "running", "stray", "umount", "rmdir"}
Counted == {"reply", "running"}

Layers(a)  == {LayersOf[a][i] : i \in DOMAIN LayersOf[a]}
Layer(c)   == LayersOf[app[c]][at[c]]
Holders(a) == {c \in Client : pc[c] \in Counted /\ app[c] = a}
Free       == [a \in App |-> 0]

Init ==
    /\ entry = {} /\ rc = Free /\ old = {}
    /\ lock = None
    /\ mounted = {} /\ overlay = [a \in App |-> <<>>] /\ rundir = {}
    /\ pc = [c \in Client |-> "idle"]
    /\ app = [c \in Client |-> None]
    /\ at = [c \in Client |-> 0]
    /\ cpc = "sleep" /\ victims = {} /\ victim = None
    /\ abandoned = Free /\ crossed = {} /\ leaky = {} /\ restarts = 0

-----------------------------------------------------------------------------
At(c, l, next) == pc[c] = l /\ pc' = [pc EXCEPT ![c] = next]

\* The request, or the run, is over.
Idle(c, l) ==
    /\ At(c, l, "idle")
    /\ app' = [app EXCEPT ![c] = None]
    /\ at' = [at EXCEPT ![c] = 0]

\* One unmount takes the last overlay; removing the run directory takes the
\* files of all of them, the upper directory being theirs in common.
Popped(a) == [overlay EXCEPT ![a] = Tail(@)]
Wiped(a)  == [overlay EXCEPT ![a] = [i \in DOMAIN overlay[a] |-> "wiped"]]

(* handle_mount.  The bundle has been verified and its layers stored (see  *)
(* LayerStore); build_overlay goes through them.                           *)

Mount(c, a) ==
    /\ At(c, "idle", "layers")
    /\ app' = [app EXCEPT ![c] = a]
    /\ at' = [at EXCEPT ![c] = 1]
    /\ UNCHANGED <<table, lock, fs, clean, hist>>

LayersLeft(c) == at[c] <= Len(LayersOf[app[c]])

\* A layer found mounted is taken for a stale mount and unmounted; whether
\* that worked is not looked at.
CleanLayer(c) ==
    /\ At(c, "layers", "mount_layer")
    /\ LayersLeft(c)
    /\ \/ mounted' = mounted \ {Layer(c)}
       \/ Layer(c) \in mounted \cap Sticky /\ UNCHANGED mounted
    /\ UNCHANGED <<table, lock, overlay, rundir, app, at, clean, hist>>

\* The image is mounted if it is still there.
MountLayer(c) ==
    /\ At(c, "mount_layer", "layers")
    /\ at' = [at EXCEPT ![c] = @ + 1]
    /\ \/ mounted' = mounted \cup {Layer(c)}
       \/ Layer(c) \in Swept /\ UNCHANGED mounted
    /\ UNCHANGED <<table, lock, overlay, rundir, app, clean, hist>>

\* Mounting the layer or the overlay fails: the client gets an error.
MountFails(c) ==
    /\ Idle(c, "mount_layer") \/ Idle(c, "overlay")
    /\ UNCHANGED <<table, lock, fs, clean, hist>>

LayersReady(c) ==
    /\ At(c, "layers", "clear")
    /\ ~LayersLeft(c)
    /\ UNCHANGED <<table, lock, fs, app, at, clean, hist>>

\* Whatever is mounted at rootfs is taken for stale and unmounted.
ClearOld(c) ==
    /\ At(c, "clear", "wipe")
    /\ \/ overlay[app[c]] # <<>> /\ overlay' = Popped(app[c])
       \/ /\ \/ overlay[app[c]] = <<>>
             \/ app[c] \in Sticky /\ Len(overlay[app[c]]) < MaxStack
          /\ UNCHANGED overlay
    /\ UNCHANGED <<table, lock, mounted, rundir, app, at, clean, hist>>

\* remove_dir_all on the run directory, through an overlay that is mounted
\* there, and the directories are made again.
WipeRunDir(c) ==
    /\ At(c, "wipe", "overlay")
    /\ rundir' = rundir \cup {app[c]}
    /\ overlay' = Wiped(app[c])
    /\ UNCHANGED <<table, lock, mounted, app, at, clean, hist>>

MountOverlay(c) ==
    /\ At(c, "overlay", "count")
    /\ app[c] \in rundir
    /\ LET made == IF Layers(app[c]) \subseteq mounted THEN "whole"
                                                       ELSE "partial"
       IN overlay' = [overlay EXCEPT ![app[c]] = <<made>> \o overlay[app[c]]]
    /\ leaky' = IF overlay[app[c]] = <<>> THEN leaky ELSE leaky \cup {app[c]}
    /\ UNCHANGED <<table, lock, mounted, rundir, app, at, clean>>
    /\ UNCHANGED <<abandoned, crossed, restarts>>

\* Only now the lock is taken, and the run is counted.
Count(c) ==
    /\ At(c, "count", "reply")
    /\ lock = None
    /\ entry' = entry \cup {app[c]}
    /\ rc' = [rc EXCEPT ![app[c]] = @ + 1]
    /\ old' = old \ {app[c]}
    /\ UNCHANGED <<lock, fs, app, at, clean, hist>>

-----------------------------------------------------------------------------
(* The client: commands/run.rs.                                            *)

\* bwrap is executed without a look at the rootfs; without bwrap, a rootfs
\* that has no entrypoint is the end of the run instead.
Launch(c) ==
    /\ At(c, "reply", "running")
    /\ UNCHANGED <<table, lock, fs, app, at, clean, hist>>

\* nxpk run ends: no entrypoint in the rootfs, or the program is over.  It
\* tells the daemon nothing.
EndSilently(c) ==
    /\ c \notin Polite
    /\ Idle(c, "reply") \/ Idle(c, "running")
    /\ abandoned[app[c]] < MaxAbandoned
    /\ abandoned' = [abandoned EXCEPT ![app[c]] = @ + 1]
    /\ UNCHANGED <<table, lock, fs, clean, crossed, leaky, restarts>>

\* A run that an earlier daemon counted.
EndStray(c) ==
    /\ c \notin Polite
    /\ Idle(c, "stray")
    /\ UNCHANGED <<table, lock, fs, clean, hist>>

-----------------------------------------------------------------------------
(* handle_unmount holds the lock to the end, the calls of umount included. *)

Decremented(a) == IF rc[a] = 0 THEN 0 ELSE rc[a] - 1

\* Mutant of Unmount: the lock is dropped before the unmount.
UnlockEarly(c) ==
    /\ c \in Polite
    /\ lock = None
    /\ pc[c] \in Counted
    /\ LET a == app[c] IN
       /\ rc' = [rc EXCEPT ![a] = Decremented(a)]
       /\ old' = old \ {a}
       /\ IF Decremented(a) = 0
          THEN At(c, pc[c], "umount") /\ UNCHANGED <<app, at>>
          ELSE Idle(c, pc[c])
    /\ UNCHANGED <<entry, lock, fs, clean, hist>>

\* An application that is not in the table is "not mounted".  The request
\* names an application: that it is from a run which an earlier daemon counted
\* is not to be seen.
Unmount(c) ==
    /\ c \in Polite
    /\ lock = None
    /\ pc[c] \in Counted \cup {"stray"}
    /\ LET a    == app[c]
           last == a \in entry /\ Decremented(a) = 0
       IN
       /\ rc' = IF a \in entry THEN [rc EXCEPT ![a] = Decremented(a)] ELSE rc
       /\ old' = old \ {a}
       /\ IF last
          THEN At(c, pc[c], "umount") /\ lock' = c /\ UNCHANGED <<app, at>>
          ELSE Idle(c, pc[c]) /\ UNCHANGED lock
       /\ crossed' = IF pc[c] = "stray" THEN crossed \cup ({a} \cap entry)
                                        ELSE crossed
    /\ UNCHANGED <<entry, fs, clean, abandoned, leaky, restarts>>

\* unmount_overlay: unmount, then remove the run directory.
Umount(c) ==
    /\ At(c, "umount", "rmdir")
    /\ overlay[app[c]] # <<>>
    /\ overlay' = Popped(app[c])
    /\ UNCHANGED <<table, lock, mounted, rundir, app, at, clean, hist>>

\* The overlay is in use, or not mounted: the entry stays, counting nobody.
UmountFails(c) ==
    /\ Idle(c, "umount")
    /\ app[c] \in Sticky \/ overlay[app[c]] = <<>>
    /\ lock' = None
    /\ UNCHANGED <<table, fs, clean, hist>>

\* The run directory goes, through any overlay that is still mounted in it,
\* and the entry with it.
RemoveRunDir(a) ==
    /\ rundir' = rundir \ {a}
    /\ overlay' = Wiped(a)
    /\ entry' = entry \ {a}
    /\ rc' = [rc EXCEPT ![a] = 0]
    /\ old' = old \ {a}
    /\ lock' = None

Forget(c) ==
    /\ Idle(c, "rmdir")
    /\ RemoveRunDir(app[c])
    /\ UNCHANGED <<mounted, clean, hist>>

-----------------------------------------------------------------------------
(* idle_mount_cleaner.                                                     *)

\* Time passes for an entry nobody asks about.
Age(a) ==
    /\ a \in entry \ old
    /\ old' = old \cup {a}
    /\ UNCHANGED <<entry, rc, lock, fs, client, clean, hist>>

Expired == {a \in entry : rc[a] = 0 /\ a \in old}

Wake ==
    /\ cpc = "sleep"
    /\ lock = None
    /\ victims' = Expired
    /\ cpc' = "next"
    /\ UNCHANGED <<table, lock, fs, client, victim, hist>>

\* Mutant of Recheck: the list made under the earlier lock is trusted.
TrustList(a) ==
    /\ cpc = "next"
    /\ lock = None
    /\ a \in victims
    /\ victims' = victims \ {a}
    /\ IF a \in entry
       THEN victim' = a /\ cpc' = "umount" /\ lock' = Cleaner
       ELSE UNCHANGED <<victim, cpc, lock>>
    /\ UNCHANGED <<table, fs, client, hist>>

\* The lock is taken again for each application, and the entry looked at again.
Recheck(a) ==
    /\ cpc = "next"
    /\ lock = None
    /\ a \in victims
    /\ victims' = victims \ {a}
    /\ IF a \in Expired
       THEN victim' = a /\ cpc' = "umount" /\ lock' = Cleaner
       ELSE UNCHANGED <<victim, cpc, lock>>
    /\ UNCHANGED <<table, fs, client, hist>>

CleanUmount ==
    /\ cpc = "umount"
    /\ overlay[victim] # <<>>
    /\ overlay' = Popped(victim)
    /\ cpc' = "rmdir"
    /\ UNCHANGED <<table, lock, mounted, rundir, client, victims, victim, hist>>

\* Mutant of CleanUmountFails: an error ends the thread.
CleanerDies ==
    /\ cpc = "umount"
    /\ victim \in Sticky \/ overlay[victim] = <<>>
    /\ cpc' = "dead"
    /\ lock' = None
    /\ UNCHANGED <<table, fs, client, victims, victim, hist>>

\* Mutant of CleanUmountFails: the entry goes although the mount stays.
DropAnyway ==
    /\ cpc = "umount"
    /\ victim \in Sticky \/ overlay[victim] = <<>>
    /\ cpc' = "next"
    /\ victim' = None
    /\ lock' = None
    /\ entry' = entry \ {victim} /\ old' = old \ {victim}
    /\ UNCHANGED <<rc, fs, client, victims, hist>>

CleanUmountFails ==
    /\ cpc = "umount"
    /\ victim \in Sticky \/ overlay[victim] = <<>>
    /\ cpc' = "next"
    /\ victim' = None
    /\ lock' = None
    /\ UNCHANGED <<table, fs, client, victims, hist>>

CleanForget ==
    /\ cpc = "rmdir"
    /\ RemoveRunDir(victim)
    /\ cpc' = "next"
    /\ victim' = None
    /\ UNCHANGED <<mounted, client, victims, hist>>

Sleep ==
    /\ cpc = "next"
    /\ victims = {}
    /\ cpc' = "sleep"
    /\ UNCHANGED <<table, lock, fs, client, victims, victim, hist>>

-----------------------------------------------------------------------------
(* A daemon dies, and the next one starts (main).                          *)

\* What is mounted stays mounted, and what runs goes on.  The requests that
\* were not answered fail.
Restart ==
    /\ restarts < MaxRestarts /\ restarts' = restarts + 1
    /\ entry' = {} /\ rc' = Free /\ old' = {}
    /\ lock' = None
    /\ cpc' = "sleep" /\ victims' = {} /\ victim' = None
    /\ \E answered \in SUBSET {c \in Client : pc[c] = "reply"} :
         LET left == {c \in Client : pc[c] \in {"running", "stray"}} \cup answered IN
         /\ pc' = [c \in Client |-> IF c \in left THEN "stray" ELSE "idle"]
         /\ app' = [c \in Client |-> IF c \in left THEN app[c] ELSE None]
         /\ at' = [c \in Client |-> IF c \in left THEN at[c] ELSE 0]
    /\ abandoned' = Free /\ crossed' = {}
    /\ leaky' = leaky \cup {a \in App : overlay[a] # <<>>}
    /\ UNCHANGED fs

-----------------------------------------------------------------------------
Build(c) ==
    \/ CleanLayer(c) \/ MountLayer(c) \/ MountFails(c) \/ LayersReady(c)
    \/ ClearOld(c) \/ WipeRunDir(c) \/ MountOverlay(c) \/ Count(c)
Release(c) == Umount(c) \/ UmountFails(c) \/ Forget(c)
Clean == \/ Wake \/ CleanUmount \/ CleanUmountFails \/ CleanForget \/ Sleep
         \/ \E a \in App : Recheck(a)

Next ==
    \/ \E c \in Client : \/ \E a \in App : Mount(c, a)
                         \/ Build(c) \/ Release(c)
                         \/ Launch(c) \/ EndSilently(c) \/ EndStray(c)
                         \/ Unmount(c)
    \/ \E a \in App : Age(a)
    \/ Clean
    \/ Restart

Spec == Init /\ [][Next]_vars

\* The threads of the daemon run.  A thread that waits for the mutex gets it,
\* however often others take it first; time passes; and every call of umount
\* returns, with success or with an error: that one of them succeeds is never
\* promised, however often it is tried.  Nothing makes a client ask for a
\* mount, or tell that its run is over.
FairSpec ==
    /\ Spec
    /\ \A c \in Client : WF_vars(Build(c)) /\ SF_vars(Count(c)) /\ WF_vars(Release(c))
    /\ \A a \in App : WF_vars(Age(a)) /\ SF_vars(Recheck(a))
    /\ SF_vars(Wake)
    /\ WF_vars(CleanUmount \/ CleanUmountFails) /\ WF_vars(CleanForget)
    /\ WF_vars(Sleep)

-----------------------------------------------------------------------------
\* Every variable has its type, a place that needs an application has one,
\* the layer to mount is one of the bundle's,
\* and the mutex is held exactly by the thread that is in its critical
\* section with calls of umount in it.
TypeOK ==
    /\ entry \subseteq App /\ old \subseteq entry
    /\ rc \in [App -> Nat]
    /\ mounted \subseteq Digest /\ rundir \subseteq App
    /\ overlay \in [App -> Seq({"whole", "partial", "wiped"})]
    /\ pc \in [Client -> PC]
    /\ app \in [Client -> App \cup {None}]
    /\ at \in [Client -> Nat]
    /\ \A c \in Client : app[c] = None <=> pc[c] = "idle"
    /\ \A c \in Client : /\ pc[c] = "layers" => at[c] > 0
                         /\ pc[c] = "mount_layer" => at[c] \in DOMAIN LayersOf[app[c]]
    /\ cpc \in {"sleep", "next", "umount", "rmdir"}
    /\ victims \subseteq App /\ victim \in App \cup {None}
    /\ victim = None <=> cpc \in {"sleep", "next"}
    /\ abandoned \in [App -> Nat] /\ crossed \subseteq App
    /\ leaky \subseteq App /\ restarts \in Nat
    /\ lock \in Client \cup {None, Cleaner}
    /\ \A c \in Client : lock = c <=> pc[c] \in {"umount", "rmdir"}
    /\ lock = Cleaner <=> victim # None

\* main.rs counts runs by hand, and removes entries in two places: the count
\* is that of the runs that were answered and have not sent Unmount, in all
\* interleavings of mounts, unmounts and the cleaner, and an application
\* with such a run is in the table.  Only an Unmount for a run of an earlier
\* daemon breaks that.
RefcountIsHolders ==
    \A a \in App \ crossed :
        /\ rc[a] = Cardinality(Holders(a)) + abandoned[a]
        /\ rc[a] > 0 => a \in entry

\* The threads that unmount: nobody can be counted for an application between
\* the moment a thread decides to unmount it and the moment its entry and its
\* run directory are gone (handle_unmount and idle_mount_cleaner).
NoRunIsTornDown ==
    /\ \A c \in Client : pc[c] \in {"umount", "rmdir"} /\ app[c] \notin crossed
                        => Holders(app[c]) = {}
    /\ victim \notin crossed \cup {None} => Holders(victim) = {}

\* Nothing that is mounted is out of everybody's sight: an overlay belongs to an
\* entry of the table, or to a thread that has just mounted it and is about to
\* count it; all others are what an earlier daemon left (main.rs:21), or what
\* was mounted over when two mounts of one application met or an unmount failed.
JustMade(a) == \E c \in Client : pc[c] = "count" /\ app[c] = a
OverlaysTracked ==
    \A a \in App \ leaky : overlay[a] # <<>> => a \in entry \/ JustMade(a)

\* The threads, the mutex and the counts do together what a table does that
\* knows its users: whoever is told "mounted" keeps the application in the
\* table until it gives it back, and an entry goes only when it has no users.
Table == INSTANCE MountTable WITH users <- [a \in App |-> Holders(a)],
                                  silent <- abandoned,
                                  kept <- entry,
                                  doubted <- crossed
ImplementsTable == Table!Spec

\* An unmount that fails leaves the entry in the table with nobody counted
\* (main.rs:390, the error of unmount_overlay), and the cleaner goes on
\* (main.rs:228-231).  Such an entry is never given up: as long as it is there
\* and nobody counts on it, the cleaner comes for it again and again, whatever
\* became of the attempts before.  Whether one of them succeeds is up to the
\* mount: a kernel mount, which `umount -u` does not take down, stays for ever.
Leftover(a) == a \in entry /\ rc[a] = 0
Attempted(a) == cpc = "umount" /\ victim = a
LeftoversRetried == \A a \in App : Leftover(a) ~> ~Leftover(a) \/ Attempted(a)

\* "stale mount at {}, cleaning up" (mount.rs:36) is what build_overlay says
\* of a mount that it takes down: a run that was told "mounted" and has not
\* ended keeps the overlay it was told of, with all its layers and its files.
WholeAt(a) == overlay[a] # <<>> /\ Head(overlay[a]) = "whole"
HeldStaysWhole ==
    [][\A c \in Client :
          pc[c] \in Counted /\ WholeAt(app[c]) /\ pc'[c] \in Counted
            => WholeAt(app[c])']_vars
=============================================================================
