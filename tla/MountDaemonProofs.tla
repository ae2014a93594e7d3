------------------------- MODULE MountDaemonProofs -------------------------
(***************************************************************************)
(* Proofs about MountDaemon, for any number of runs, applications and      *)
(* layers, any set of polite clients and any set of mounts whose unmount   *)
(* can fail: the types, that the count of an entry is the number of runs   *)
(* that hold it, and that nothing is taken down under a run.               *)
(***************************************************************************)
EXTENDS MountDaemon, FiniteSetTheorems, TLAPS

Content == {"whole", "partial", "wiped"}

-----------------------------------------------------------------------------
\* The two shapes a step of a client has: it goes to another place, or back
\* to "idle"; both keep the types of the client's variables.

LEMMA MoveTyped ==
    ASSUME TypeOK, NEW c \in Client, NEW l \in PC, NEW m \in PC,
           pc[c] = l, pc' = [pc EXCEPT ![c] = m], UNCHANGED app,
           l # "idle", m # "idle"
    PROVE  /\ pc' \in [Client -> PC]
           /\ app[c] \in App
           /\ \A x \in Client : app'[x] = None <=> pc'[x] = "idle"
           /\ pc'[c] = m
           /\ \A x \in Client : x # c => pc'[x] = pc[x]
BY DEF TypeOK

LEMMA IdleTyped ==
    ASSUME TypeOK, NEW c \in Client, NEW l \in PC, l # "idle", pc[c] = l,
           pc' = [pc EXCEPT ![c] = "idle"],
           app' = [app EXCEPT ![c] = None],
           at' = [at EXCEPT ![c] = 0]
    PROVE  /\ pc' \in [Client -> PC]
           /\ app' \in [Client -> App \cup {None}]
           /\ at' \in [Client -> Nat]
           /\ app[c] \in App
           /\ \A x \in Client : app'[x] = None <=> pc'[x] = "idle"
           /\ pc'[c] = "idle"
           /\ \A x \in Client : x # c => pc'[x] = pc[x] /\ app'[x] = app[x]
BY NoneAssumption DEF TypeOK, PC

\* Unmounting and removing the run directory keep the stacks of overlays.
LEMMA StackTyped ==
    ASSUME overlay \in [App -> Seq(Content)], NEW a \in App
    PROVE  /\ overlay[a] # <<>> => Popped(a) \in [App -> Seq(Content)]
           /\ Wiped(a) \in [App -> Seq(Content)]
<1>1. ASSUME overlay[a] # <<>> PROVE Popped(a) \in [App -> Seq(Content)]
  <2>1. Tail(overlay[a]) \in Seq(Content)
    BY <1>1
  <2>2. QED BY <2>1 DEF Popped
<1>2. Wiped(a) \in [App -> Seq(Content)]
  <2>1. overlay[a] \in Seq(Content)
    OBVIOUS
  <2>2. DOMAIN overlay[a] = 1 .. Len(overlay[a]) /\ Len(overlay[a]) \in Nat
    BY <2>1
  <2>3. [i \in DOMAIN overlay[a] |-> "wiped"] \in Seq(Content)
    BY <2>2 DEF Content
  <2>4. QED BY <2>3 DEF Wiped
<1>3. QED BY <1>1, <1>2

-----------------------------------------------------------------------------
\* Types, and who is in a critical section of the mutex.

LEMMA TypeInit == Init => TypeOK
BY LayersAssumption, NoneAssumption, CleanerAssumption DEF Init, Free, TypeOK, PC

LEMMA BuildTyped ==
    ASSUME TypeOK, NEW c \in Client, Build(c)
    PROVE  TypeOK'
<1> USE DEF At, Idle, table, fs, clean, hist, PC
<1>1. CASE CleanLayer(c)
  <2>1. /\ pc[c] = "layers" /\ pc' = [pc EXCEPT ![c] = "mount_layer"]
        /\ UNCHANGED <<table, lock, overlay, rundir, app, at, clean, hist>>
        /\ at[c] <= Len(LayersOf[app[c]])
        /\ mounted' \subseteq mounted
    BY <1>1 DEF CleanLayer, LayersLeft
  <2>2. app[c] \in App
    BY <2>1, MoveTyped
  <2>3. at[c] \in DOMAIN LayersOf[app[c]]
    <3>1. LayersOf[app[c]] \in Seq(Digest)
      BY <2>2, LayersAssumption
    <3>2. at[c] \in Nat /\ at[c] > 0
      <4>1. pc[c] = "layers"
        BY <2>1
      <4>2. at[c] > 0
        BY <4>1 DEF TypeOK
      <4>3. at[c] \in Nat
        BY DEF TypeOK
      <4>4. QED BY <4>2, <4>3
    <3>3. at[c] \in 1 .. Len(LayersOf[app[c]])
      <4>1. at[c] <= Len(LayersOf[app[c]])
        BY <2>1
      <4>2. Len(LayersOf[app[c]]) \in Nat
        BY <3>1
      <4>3. QED BY <3>2, <4>1, <4>2
    <3>4. QED BY <3>1, <3>3
  <2>4. QED BY <2>1, <2>3, MoveTyped DEF TypeOK
<1>2. CASE MountLayer(c)
  <2>1. /\ pc[c] = "mount_layer" /\ pc' = [pc EXCEPT ![c] = "layers"]
        /\ UNCHANGED <<table, lock, overlay, rundir, app, clean, hist>>
        /\ at' = [at EXCEPT ![c] = @ + 1]
        /\ mounted' \subseteq mounted \cup {Layer(c)}
    BY <1>2 DEF MountLayer
  <2>2. app[c] \in App /\ at[c] \in DOMAIN LayersOf[app[c]] /\ at[c] \in Nat
    BY <2>1, MoveTyped DEF TypeOK
  <2>3. Layer(c) \in Digest /\ at[c] > 0
    BY <2>2, LayersAssumption DEF Layer
  <2>4. at' \in [Client -> Nat] /\ at'[c] > 0 /\ \A x \in Client : x # c => at'[x] = at[x]
    BY <2>1, <2>2, <2>3 DEF TypeOK
  <2>5. mounted' \subseteq Digest
    BY <2>1, <2>3 DEF TypeOK
  <2>6. QED BY <2>1, <2>4, <2>5, MoveTyped DEF TypeOK
<1>3. CASE MountFails(c)
  BY <1>3, IdleTyped DEF MountFails, TypeOK
<1>4. CASE LayersReady(c)
  BY <1>4, MoveTyped DEF LayersReady, TypeOK
<1>5. CASE ClearOld(c)
  <2>1. /\ pc[c] = "clear" /\ pc' = [pc EXCEPT ![c] = "wipe"]
        /\ UNCHANGED <<table, lock, mounted, rundir, app, at, clean, hist>>
    BY <1>5 DEF ClearOld
  <2>2. app[c] \in App
    BY <2>1, MoveTyped
  <2>3. overlay' \in [App -> Seq(Content)]
    BY <1>5, <2>2, StackTyped DEF ClearOld, TypeOK, Content
  <2>4. QED BY <2>1, <2>3, MoveTyped DEF TypeOK, Content
<1>6. CASE WipeRunDir(c)
  <2>1. /\ pc[c] = "wipe" /\ pc' = [pc EXCEPT ![c] = "overlay"]
        /\ UNCHANGED <<table, lock, mounted, app, at, clean, hist>>
    BY <1>6 DEF WipeRunDir
  <2>2. app[c] \in App
    BY <2>1, MoveTyped
  <2>3. overlay' \in [App -> Seq(Content)] /\ rundir' \subseteq App
    BY <1>6, <2>2, StackTyped DEF WipeRunDir, TypeOK, Content
  <2>4. QED BY <2>1, <2>3, MoveTyped DEF TypeOK, Content
<1>7. CASE MountOverlay(c)
  <2>1. /\ pc[c] = "overlay" /\ pc' = [pc EXCEPT ![c] = "count"]
        /\ UNCHANGED <<table, lock, mounted, rundir, app, at, clean>>
        /\ UNCHANGED <<abandoned, crossed, restarts>>
        /\ leaky' \subseteq leaky \cup {app[c]}
    BY <1>7 DEF MountOverlay
  <2>2. app[c] \in App
    BY <2>1, MoveTyped
  <2>3. PICK made \in Content :
            overlay' = [overlay EXCEPT ![app[c]] = <<made>> \o overlay[app[c]]]
    BY <1>7 DEF MountOverlay, Content
  <2>4. <<made>> \o overlay[app[c]] \in Seq(Content)
    BY <2>2 DEF TypeOK, Content
  <2>5. overlay' \in [App -> Seq(Content)]
    BY <2>3, <2>4 DEF TypeOK, Content
  <2>6. QED BY <2>1, <2>5, MoveTyped, ZenonT(40) DEF TypeOK, Content
<1>8. CASE Count(c)
  <2>1. /\ pc[c] = "count" /\ pc' = [pc EXCEPT ![c] = "reply"]
        /\ UNCHANGED <<lock, fs, app, at, clean, hist>>
        /\ entry' = entry \cup {app[c]} /\ old' = old \ {app[c]}
        /\ rc' = [rc EXCEPT ![app[c]] = @ + 1]
    BY <1>8 DEF Count
  <2>2. app[c] \in App
    BY <2>1, MoveTyped
  <2>3. entry' \subseteq App /\ old' \subseteq entry' /\ rc' \in [App -> Nat]
    BY <2>1, <2>2 DEF TypeOK
  <2>4. QED BY <2>1, <2>3, MoveTyped DEF TypeOK
<1>9. QED
  BY <1>1, <1>2, <1>3, <1>4, <1>5, <1>6, <1>7, <1>8 DEF Build

\* The client's own steps, and handle_unmount.
LEMMA ClientTyped ==
    ASSUME TypeOK, NEW c \in Client, NEW a \in App,
           \/ Mount(c, a) \/ Launch(c) \/ EndSilently(c) \/ EndStray(c)
           \/ Unmount(c)
    PROVE  TypeOK'
<1> USE DEF At, Idle, table, fs, clean, hist, PC, Counted
<1>1. CASE Mount(c, a)
  BY <1>1, NoneAssumption DEF Mount, TypeOK
<1>2. CASE Launch(c)
  BY <1>2, MoveTyped DEF Launch, TypeOK
<1>3. CASE EndSilently(c)
  <2>1. /\ pc[c] \in Counted
        /\ pc' = [pc EXCEPT ![c] = "idle"]
        /\ app' = [app EXCEPT ![c] = None]
        /\ at' = [at EXCEPT ![c] = 0]
        /\ abandoned' = [abandoned EXCEPT ![app[c]] = @ + 1]
        /\ UNCHANGED <<table, lock, fs, clean, crossed, leaky, restarts>>
    BY <1>3 DEF EndSilently
  <2>2. app[c] \in App
    BY <2>1, IdleTyped
  <2>3. abandoned' \in [App -> Nat]
    BY <2>1, <2>2 DEF TypeOK
  <2>4. QED BY <2>1, <2>3, IdleTyped, SMTT(30) DEF TypeOK
<1>4. CASE Unmount(c)
  <2>1. /\ pc[c] \in Counted \cup {"stray"} /\ app[c] \in App
        /\ rc[app[c]] \in Nat /\ lock = None
    BY <1>4, NoneAssumption DEF Unmount, TypeOK
  <2>2. rc' \in [App -> Nat] /\ old' \subseteq old
    BY <1>4, <2>1 DEF Unmount, Decremented, TypeOK
  <2>3. /\ UNCHANGED <<entry, fs, clean, abandoned, leaky, restarts>>
        /\ crossed' \subseteq crossed \cup {app[c]}
    BY <1>4 DEF Unmount
  <2>4. CASE /\ pc' = [pc EXCEPT ![c] = "umount"] /\ lock' = c
             /\ UNCHANGED <<app, at>>
    <3>1. \A x \in Client : lock' = x <=> pc'[x] \in {"umount", "rmdir"}
      BY <2>1, <2>4, NoneAssumption DEF TypeOK
    <3>2. lock' # Cleaner /\ lock # Cleaner
      BY <2>1, <2>4, CleanerAssumption
    <3>3. QED BY <2>1, <2>2, <2>3, <2>4, <3>1, <3>2, MoveTyped DEF TypeOK
  <2>5. CASE Idle(c, pc[c]) /\ UNCHANGED lock
    BY <2>1, <2>2, <2>3, <2>5, IdleTyped, SMTT(30) DEF TypeOK
  <2>6. QED BY <1>4, <2>4, <2>5 DEF Unmount
<1>5. CASE EndStray(c)
  BY <1>5, IdleTyped DEF EndStray, TypeOK
<1>6. QED BY <1>1, <1>2, <1>3, <1>4, <1>5

\* A new daemon.
LEMMA RestartTyped ==
    ASSUME TypeOK, Restart
    PROVE  TypeOK'
<1>1. PICK left \in SUBSET Client :
         /\ \A c \in left : pc[c] \in Counted \cup {"stray"}
         /\ pc' = [c \in Client |-> IF c \in left THEN "stray" ELSE "idle"]
         /\ app' = [c \in Client |-> IF c \in left THEN app[c] ELSE None]
         /\ at' = [c \in Client |-> IF c \in left THEN at[c] ELSE 0]
  BY DEF Restart, Counted
<1>2. /\ entry' = {} /\ rc' = Free /\ old' = {} /\ lock' = None
      /\ cpc' = "sleep" /\ victims' = {} /\ victim' = None
      /\ abandoned' = Free /\ crossed' = {} /\ leaky' \subseteq leaky \cup App
      /\ restarts' = restarts + 1 /\ UNCHANGED fs
  BY DEF Restart
<1>3. \A c \in left : app[c] \in App
  BY <1>1 DEF TypeOK, Counted
<1>4. /\ pc' \in [Client -> PC] /\ app' \in [Client -> App \cup {None}]
      /\ at' \in [Client -> Nat]
      /\ \A c \in Client : app'[c] = None <=> pc'[c] = "idle"
      /\ \A c \in Client : pc'[c] \in {"idle", "stray"}
  BY <1>1, <1>3, NoneAssumption DEF TypeOK, PC
<1>5. Free \in [App -> Nat]
  BY DEF Free
<1>6. /\ \A c \in Client : lock' = c <=> pc'[c] \in {"umount", "rmdir"}
      /\ lock' # Cleaner
  BY <1>2, <1>4, NoneAssumption, CleanerAssumption
<1>7. \A c \in Client : pc'[c] \notin {"layers", "mount_layer"}
  BY <1>4
<1>8. /\ entry' \subseteq App /\ old' \subseteq entry' /\ rc' \in [App -> Nat]
      /\ mounted' \subseteq Digest /\ rundir' \subseteq App
      /\ overlay' \in [App -> Seq(Content)]
      /\ cpc' \in {"sleep", "next", "umount", "rmdir"}
      /\ victims' \subseteq App /\ victim' \in App \cup {None}
      /\ (victim' = None <=> cpc' \in {"sleep", "next"})
      /\ abandoned' \in [App -> Nat] /\ crossed' \subseteq App
      /\ leaky' \subseteq App /\ restarts' \in Nat
      /\ lock' = None /\ victim' = None
  BY <1>2, <1>5 DEF TypeOK, fs, Content
<1>9. QED BY <1>4, <1>6, <1>7, <1>8 DEF TypeOK, Content

\* The calls of umount of handle_unmount, and the end of its critical section.
LEMMA ReleaseTyped ==
    ASSUME TypeOK, NEW c \in Client, Release(c)
    PROVE  TypeOK'
<1> USE DEF At, Idle, table, fs, clean, hist, PC
<1>1. CASE Umount(c)
  <2>1. /\ pc[c] = "umount" /\ pc' = [pc EXCEPT ![c] = "rmdir"]
        /\ UNCHANGED <<table, lock, mounted, rundir, app, at, clean, hist>>
    BY <1>1 DEF Umount
  <2>2. app[c] \in App
    BY <2>1, MoveTyped
  <2>3. overlay' \in [App -> Seq(Content)]
    BY <1>1, <2>2, StackTyped DEF Umount, TypeOK, Content
  <2>4. QED BY <2>1, <2>3, MoveTyped DEF TypeOK, Content
<1>2. CASE UmountFails(c)
  <2>1. lock = c /\ lock' = None /\ pc[c] = "umount"
    BY <1>2 DEF UmountFails, TypeOK
  <2>2. \A x \in Client : lock' = x <=> pc'[x] \in {"umount", "rmdir"}
    BY <1>2, <2>1, NoneAssumption DEF UmountFails, TypeOK
  <2>3. lock # Cleaner /\ lock' # Cleaner
    BY <2>1, CleanerAssumption
  <2>4. QED BY <1>2, <2>1, <2>2, <2>3, IdleTyped DEF UmountFails, TypeOK
<1>3. CASE Forget(c)
  <2>1. lock = c /\ lock' = None /\ pc[c] = "rmdir" /\ pc' = [pc EXCEPT ![c] = "idle"]
    BY <1>3 DEF Forget, RemoveRunDir, TypeOK
  <2>2. \A x \in Client : lock' = x <=> pc'[x] \in {"umount", "rmdir"}
    BY <2>1, NoneAssumption DEF TypeOK
  <2>3. lock # Cleaner /\ lock' # Cleaner
    BY <2>1, CleanerAssumption
  <2>4. app[c] \in App
    BY <2>1 DEF TypeOK
  <2>5. /\ overlay' \in [App -> Seq(Content)] /\ rundir' \subseteq App
        /\ entry' \subseteq App /\ old' \subseteq entry' /\ rc' \in [App -> Nat]
    BY <1>3, <2>4, StackTyped DEF Forget, RemoveRunDir, TypeOK, Content
  <2>6. UNCHANGED <<mounted, clean, hist>>
    BY <1>3 DEF Forget
  <2>7. QED
    BY <1>3, <2>1, <2>2, <2>3, <2>5, <2>6, IdleTyped DEF Forget, TypeOK, Content
<1>4. QED BY <1>1, <1>2, <1>3 DEF Release

LEMMA CleanTyped ==
    ASSUME TypeOK, Clean
    PROVE  TypeOK'
<1> USE DEF table, fs, client, hist, PC
<1>1. CASE Wake
  BY <1>1 DEF Wake, Expired, TypeOK
<1>2. ASSUME NEW b \in App, Recheck(b) PROVE TypeOK'
  <2>1. CASE b \in Expired
    <3>1. /\ victims' = victims \ {b} /\ victim' = b /\ cpc' = "umount"
          /\ lock = None /\ lock' = Cleaner
          /\ UNCHANGED <<table, fs, client, hist>>
      BY <1>2, <2>1 DEF Recheck
    <3>2. \A x \in Client : lock' = x <=> pc'[x] \in {"umount", "rmdir"}
      BY <3>1, NoneAssumption, CleanerAssumption DEF TypeOK
    <3>3. QED BY <3>1, <3>2, NoneAssumption DEF TypeOK
  <2>2. CASE b \notin Expired
    BY <1>2, <2>2 DEF Recheck, TypeOK
  <2>3. QED BY <2>1, <2>2
<1>3. CASE CleanUmount
  <2>1. cpc = "umount" /\ victim \in App
    BY <1>3 DEF CleanUmount, TypeOK
  <2>2. overlay' \in [App -> Seq(Content)]
    BY <1>3, <2>1, StackTyped DEF CleanUmount, TypeOK, Content
  <2>3. QED BY <1>3, <2>1, <2>2 DEF CleanUmount, TypeOK, Content
<1>4. CASE CleanUmountFails
  <2>1. lock = Cleaner /\ lock' = None
    BY <1>4 DEF CleanUmountFails, TypeOK
  <2>2. \A x \in Client : lock' = x <=> pc'[x] \in {"umount", "rmdir"}
    BY <1>4, <2>1, NoneAssumption, CleanerAssumption DEF CleanUmountFails, TypeOK
  <2>3. QED BY <1>4, <2>1, <2>2, CleanerAssumption DEF CleanUmountFails, TypeOK
<1>5. CASE CleanForget
  <2>1. lock = Cleaner /\ lock' = None /\ victim \in App
    BY <1>5 DEF CleanForget, RemoveRunDir, TypeOK
  <2>2. \A x \in Client : lock' = x <=> pc'[x] \in {"umount", "rmdir"}
    BY <1>5, <2>1, NoneAssumption, CleanerAssumption DEF CleanForget, TypeOK
  <2>3. /\ overlay' \in [App -> Seq(Content)] /\ rundir' \subseteq App
        /\ entry' \subseteq App /\ old' \subseteq entry' /\ rc' \in [App -> Nat]
    BY <1>5, <2>1, StackTyped DEF CleanForget, RemoveRunDir, TypeOK, Content
  <2>4. QED
    BY <1>5, <2>1, <2>2, <2>3, CleanerAssumption DEF CleanForget, TypeOK, Content
<1>6. CASE Sleep
  BY <1>6 DEF Sleep, TypeOK
<1>7. QED BY <1>1, <1>2, <1>3, <1>4, <1>5, <1>6 DEF Clean

LEMMA TypeStep == TypeOK /\ [Next]_vars => TypeOK'
<1> SUFFICES ASSUME TypeOK, [Next]_vars PROVE TypeOK'
  OBVIOUS
<1>1. ASSUME NEW c \in Client, NEW a \in App, Mount(c, a) PROVE TypeOK'
  BY <1>1, ClientTyped
<1>2. ASSUME NEW c \in Client, Build(c) \/ Release(c) PROVE TypeOK'
  BY <1>2, BuildTyped, ReleaseTyped
<1>3. ASSUME NEW c \in Client,
             Launch(c) \/ EndSilently(c) \/ EndStray(c) \/ Unmount(c)
      PROVE  TypeOK'
  <2>1. app[c] \in App
    BY <1>3 DEF Launch, EndSilently, EndStray, Unmount, Idle, At, Counted, TypeOK
  <2>2. QED BY <1>3, <2>1, ClientTyped
<1>4. ASSUME NEW a \in App, Age(a) PROVE TypeOK'
  <2>1. /\ a \in entry /\ old' = old \cup {a}
        /\ UNCHANGED <<entry, rc, lock, fs, client, clean, hist>>
    BY <1>4 DEF Age
  <2>2. QED BY <2>1 DEF TypeOK, fs, client, clean, hist
<1>5. CASE Clean
  BY <1>5, CleanTyped
<1>6. CASE UNCHANGED vars
  BY <1>6 DEF vars, table, fs, client, clean, hist, TypeOK
<1>7. CASE Restart
  BY <1>7, RestartTyped
<1>8. QED BY <1>1, <1>2, <1>3, <1>4, <1>5, <1>6, <1>7 DEF Next

\* Every variable keeps its type, and the mutex is held exactly by the thread
\* in its critical section, in every run of the daemon.
THEOREM TypeCorrect == Spec => []TypeOK
BY TypeInit, TypeStep, PTL DEF Spec

-----------------------------------------------------------------------------
\* The counts.  RefcountIsHolders is not inductive: that an entry is gone
\* without taking a count with it needs to know that the thread that holds the
\* mutex to unmount an application holds it with nobody counted.
Claimed ==
    /\ \A c \in Client : pc[c] \in {"umount", "rmdir"} => rc[app[c]] = 0
    /\ victim # None => rc[victim] = 0

Counting == TypeOK /\ RefcountIsHolders /\ Claimed

LEMMA HoldersFinite ==
    ASSUME NEW a \in App
    PROVE  IsFiniteSet(Holders(a)) /\ Cardinality(Holders(a)) \in Nat
<1>1. Holders(a) \in SUBSET Client
  BY DEF Holders
<1>2. IsFiniteSet(Holders(a))
  BY <1>1, FS_Subset, ClientAssumption
<1>3. QED BY <1>2, FS_CardinalityType

\* Nobody holds an application whose count is zero.
LEMMA ZeroIsFree ==
    ASSUME TypeOK, RefcountIsHolders, NEW a \in App \ crossed, rc[a] = 0
    PROVE  Holders(a) = {} /\ abandoned[a] = 0
<1>1. /\ rc[a] = Cardinality(Holders(a)) + abandoned[a]
      /\ abandoned[a] \in Nat
  BY DEF RefcountIsHolders, TypeOK
<1>2. Cardinality(Holders(a)) = 0 /\ abandoned[a] = 0
  BY <1>1, HoldersFinite
<1>3. QED BY <1>2, HoldersFinite, FS_EmptySet

\* A step that changes no count, no entry and no holder.
LEMMA NothingCounted ==
    ASSUME Counting, TypeOK', UNCHANGED <<entry, rc, abandoned, crossed>>,
           \A a \in App : Holders(a)' = Holders(a),
           \A c \in Client : pc'[c] \in {"umount", "rmdir"} =>
               pc[c] \in {"umount", "rmdir"} /\ app'[c] = app[c],
           victim' # None => victim' = victim
    PROVE  Counting'
<1>1. RefcountIsHolders'
  BY DEF Counting, RefcountIsHolders
<1>2. Claimed'
  BY DEF Counting, Claimed
<1>3. QED BY <1>1, <1>2 DEF Counting

LEMMA CountingInit == Init => Counting
<1> SUFFICES ASSUME Init PROVE Counting
  OBVIOUS
<1>1. TypeOK
  BY TypeInit
<1>2. \A a \in App : Holders(a) = {}
  BY DEF Init, Holders, Counted
<1>3. RefcountIsHolders
  <2>1. ASSUME NEW a \in App
        PROVE  rc[a] = 0 /\ abandoned[a] = 0 /\ Cardinality(Holders(a)) = 0
    <3>1. Cardinality(Holders(a)) = 0
      BY <1>2, FS_EmptySet
    <3>2. QED BY <3>1 DEF Init, Free
  <2>2. QED BY <2>1 DEF RefcountIsHolders
<1>4. Claimed
  BY DEF Init, Claimed
<1>5. QED BY <1>1, <1>3, <1>4 DEF Counting

LEMMA CountCounting ==
    ASSUME Counting, TypeOK', NEW c \in Client, Count(c)
    PROVE  Counting'
<1> DEFINE a == app[c]
<1>1. /\ pc[c] = "count" /\ pc' = [pc EXCEPT ![c] = "reply"] /\ lock = None
      /\ entry' = entry \cup {a} /\ rc' = [rc EXCEPT ![a] = @ + 1]
      /\ UNCHANGED <<lock, app, victim, abandoned, crossed>>
  BY DEF Count, At, clean, hist
<1>2. a \in App /\ pc \in [Client -> PC] /\ rc \in [App -> Nat] /\ abandoned \in [App -> Nat]
  BY <1>1 DEF Counting, TypeOK
<1>3. /\ Holders(a)' = Holders(a) \cup {c} /\ c \notin Holders(a)
      /\ \A b \in App \ {a} : Holders(b)' = Holders(b)
  BY <1>1, <1>2 DEF Holders, Counted
<1>4. Cardinality(Holders(a)') = Cardinality(Holders(a)) + 1
  BY <1>2, <1>3, HoldersFinite, FS_AddElement
<1>5. ASSUME NEW b \in App \ crossed
      PROVE  /\ rc'[b] = Cardinality(Holders(b)') + abandoned'[b]
             /\ rc'[b] > 0 => b \in entry'
  <2>1. rc[b] = Cardinality(Holders(b)) + abandoned[b] /\ (rc[b] > 0 => b \in entry)
    BY <1>5 DEF Counting, RefcountIsHolders
  <2>2. CASE b = a
    <3>1. /\ rc'[b] = rc[b] + 1 /\ b \in entry'
          /\ Cardinality(Holders(b)') = Cardinality(Holders(b)) + 1
      BY <1>1, <1>2, <1>4, <2>2
    <3>2. Cardinality(Holders(b)) \in Nat /\ abandoned[b] \in Nat
      BY <1>2, <1>5, HoldersFinite
    <3>3. QED BY <1>1, <2>1, <3>1, <3>2
  <2>3. CASE b # a
    BY <1>1, <1>2, <1>3, <2>1, <2>3
  <2>4. QED BY <2>2, <2>3
<1>6. RefcountIsHolders'
  BY <1>1, <1>5 DEF RefcountIsHolders
<1>7. Claimed'
  \* With the mutex free, nobody is in a critical section.
  <2>1. /\ \A x \in Client : pc'[x] \notin {"umount", "rmdir"}
        /\ victim' = None
    BY <1>1, <1>2, NoneAssumption, CleanerAssumption DEF Counting, TypeOK
  <2>2. QED BY <2>1 DEF Claimed
<1>8. QED BY <1>6, <1>7 DEF Counting

LEMMA UnmountMoves ==
    ASSUME Counting, NEW c \in Client, Unmount(c)
    PROVE  /\ pc'[c] \notin Counted
           /\ \A x \in Client \ {c} : pc'[x] = pc[x] /\ app'[x] = app[x]
<1>1. app \in [Client -> App \cup {None}] /\ pc \in [Client -> PC]
  BY DEF Counting, TypeOK
<1>2. \/ pc' = [pc EXCEPT ![c] = "umount"] /\ app' = app
      \/ pc' = [pc EXCEPT ![c] = "idle"] /\ app' = [app EXCEPT ![c] = None]
  BY DEF Unmount, At, Idle
<1>3. QED BY <1>1, <1>2 DEF Counted

\* An Unmount of a run that this daemon counted.
LEMMA GivenBack ==
    ASSUME Counting, NEW c \in Client, Unmount(c), pc[c] \in Counted,
           app[c] \notin crossed
    PROVE  RefcountIsHolders'
<1>1. UNCHANGED <<entry, abandoned, crossed>>
  BY DEF Unmount, Counted
<1>2. PICK a \in App \ crossed : a = app[c]
  BY DEF Counting, TypeOK, Counted
<1>3. /\ pc \in [Client -> PC] /\ rc \in [App -> Nat] /\ abandoned \in [App -> Nat]
      /\ c \in Holders(a)
  BY <1>2 DEF Counting, TypeOK, Holders
<1>4. rc[a] > 0 /\ a \in entry
  <2>1. Cardinality(Holders(a)) # 0 /\ Cardinality(Holders(a)) \in Nat
    <3>1. Holders(a) # {}
      BY <1>3
    <3>2. QED BY <3>1, HoldersFinite, FS_EmptySet
  <2>2. rc[a] = Cardinality(Holders(a)) + abandoned[a] /\ (rc[a] > 0 => a \in entry)
    BY <1>2 DEF Counting, RefcountIsHolders
  <2>3. abandoned[a] \in Nat
    BY <1>3
  <2>4. QED BY <2>1, <2>2, <2>3
<1>5. rc' = [rc EXCEPT ![a] = rc[a] - 1]
  <2>1. rc' = [rc EXCEPT ![a] = Decremented(a)]
    BY <1>2, <1>4 DEF Unmount
  <2>2. Decremented(a) = rc[a] - 1
    BY <1>3, <1>4 DEF Decremented
  <2>3. QED BY <2>1, <2>2
<1>6. /\ pc'[c] \notin Counted
      /\ \A x \in Client \ {c} : pc'[x] = pc[x] /\ app'[x] = app[x]
  BY UnmountMoves
<1>7. /\ Holders(a)' = Holders(a) \ {c}
      /\ \A b \in App \ {a} : Holders(b)' = Holders(b)
  BY <1>2, <1>3, <1>6 DEF Holders
<1>8. Cardinality(Holders(a)') = Cardinality(Holders(a)) - 1
  BY <1>2, <1>3, <1>7, HoldersFinite, FS_RemoveElement
<1>9. ASSUME NEW b \in App \ crossed
      PROVE  /\ rc'[b] = Cardinality(Holders(b)') + abandoned'[b]
             /\ rc'[b] > 0 => b \in entry'
  <2>1. rc[b] = Cardinality(Holders(b)) + abandoned[b] /\ (rc[b] > 0 => b \in entry)
    BY <1>9 DEF Counting, RefcountIsHolders
  <2>2. CASE b = a
    <3>1. /\ rc'[b] = rc[b] - 1 /\ b \in entry'
          /\ Cardinality(Holders(b)') = Cardinality(Holders(b)) - 1
      BY <1>1, <1>3, <1>4, <1>5, <1>8, <2>2
    <3>2. Cardinality(Holders(b)) \in Nat /\ abandoned[b] \in Nat
      BY <1>3, <1>9, HoldersFinite
    <3>3. QED BY <1>1, <2>1, <3>1, <3>2
  <2>3. CASE b # a
    BY <1>1, <1>3, <1>5, <1>7, <2>1, <2>3
  <2>4. QED BY <2>2, <2>3
<1>10. QED BY <1>1, <1>9 DEF RefcountIsHolders

LEMMA UnmountCounting ==
    ASSUME Counting, TypeOK', NEW c \in Client, Unmount(c)
    PROVE  Counting'
<1>1. /\ pc[c] \in Counted \cup {"stray"} /\ lock = None
      /\ UNCHANGED <<entry, victim, abandoned>>
      /\ crossed \subseteq crossed'
  BY DEF Unmount, clean
<1>2. PICK a \in App : a = app[c]
  BY <1>1 DEF Counting, TypeOK, Counted
<1>3. /\ pc \in [Client -> PC] /\ rc \in [App -> Nat] /\ app[c] = a
      /\ Decremented(a) \in Nat
  BY <1>2 DEF Counting, TypeOK, Decremented
<1>4. rc' = IF a \in entry THEN [rc EXCEPT ![a] = Decremented(a)] ELSE rc
  BY <1>2 DEF Unmount
<1>5. /\ pc'[c] \notin Counted
      /\ \A x \in Client \ {c} : pc'[x] = pc[x] /\ app'[x] = app[x]
  BY UnmountMoves
<1>6. RefcountIsHolders'
  <2>1. CASE pc[c] \in Counted /\ a \notin crossed
    BY <1>3, <2>1, GivenBack
  <2>2. ASSUME \/ pc[c] \in Counted /\ a \in crossed
               \/ pc[c] = "stray"
        PROVE  RefcountIsHolders'
    <3>1. ASSUME NEW b \in App \ crossed'
          PROVE  /\ rc'[b] = Cardinality(Holders(b)') + abandoned'[b]
                 /\ rc'[b] > 0 => b \in entry'
      <4>1. b \notin crossed /\ b \in App
        BY <1>1, <3>1
      <4>2. b = a => pc[c] = "stray" /\ a \notin entry
        BY <1>2, <2>2, <3>1, <4>1 DEF Unmount
      <4>3. rc'[b] = rc[b]
        BY <1>3, <1>4, <4>2, <4>1
      <4>4. Holders(b)' = Holders(b)
        BY <1>2, <1>5, <4>2 DEF Holders, Counted
      <4>5. QED BY <1>1, <4>1, <4>3, <4>4 DEF Counting, RefcountIsHolders
    <3>2. QED BY <3>1 DEF RefcountIsHolders
  <2>3. QED BY <1>1, <2>1, <2>2
<1>7. Claimed'
  <2>1. /\ \A x \in Client : pc[x] \notin {"umount", "rmdir"}
        /\ victim' = None
    BY <1>1, NoneAssumption, CleanerAssumption DEF Counting, TypeOK
  <2>2. ASSUME pc'[c] = "umount" PROVE app'[c] = a /\ rc'[a] = 0
    <3>1. a \in entry /\ Decremented(a) = 0 /\ UNCHANGED app
      BY <1>2, <1>3, <2>2 DEF Unmount, Idle, At
    <3>2. QED BY <1>3, <1>4, <3>1
  <2>3. pc'[c] # "rmdir"
    BY <1>1, <1>3 DEF Unmount, Idle, At
  <2>4. QED BY <1>5, <2>1, <2>2, <2>3 DEF Claimed
<1>8. QED BY <1>6, <1>7 DEF Counting

\* A run that ends silently is one holder less and one abandoned run more.
LEMMA EndCounting ==
    ASSUME Counting, TypeOK', NEW c \in Client, EndSilently(c)
    PROVE  Counting'
<1>1. /\ pc[c] \in Counted /\ pc' = [pc EXCEPT ![c] = "idle"]
      /\ app' = [app EXCEPT ![c] = None]
      /\ abandoned' = [abandoned EXCEPT ![app[c]] = @ + 1]
      /\ UNCHANGED <<entry, rc, victim, crossed>>
  BY DEF EndSilently, Idle, At, Counted, table, clean
<1>2. /\ pc \in [Client -> PC] /\ app \in [Client -> App \cup {None}]
      /\ rc \in [App -> Nat] /\ abandoned \in [App -> Nat]
  BY DEF Counting, TypeOK
<1>a. PICK a \in App : a = app[c]
  BY <1>1 DEF Counting, TypeOK, Counted
<1>3. /\ c \in Holders(a) /\ Holders(a)' = Holders(a) \ {c}
      /\ \A b \in App \ {a} : Holders(b)' = Holders(b)
  <2>1. pc'[c] \notin Counted
    BY <1>1, <1>2 DEF Counted
  <2>2. \A x \in Client \ {c} : pc'[x] = pc[x] /\ app'[x] = app[x]
    BY <1>1, <1>2
  <2>3. QED BY <1>1, <1>a, <2>1, <2>2 DEF Holders
<1>4. Cardinality(Holders(a)') = Cardinality(Holders(a)) - 1
  BY <1>2, <1>3, HoldersFinite, FS_RemoveElement
<1>5. ASSUME NEW b \in App \ crossed
      PROVE  /\ rc'[b] = Cardinality(Holders(b)') + abandoned'[b]
             /\ rc'[b] > 0 => b \in entry'
  <2>1. rc[b] = Cardinality(Holders(b)) + abandoned[b] /\ (rc[b] > 0 => b \in entry)
    BY <1>5 DEF Counting, RefcountIsHolders
  <2>2. CASE b = a
    <3>1. /\ abandoned'[b] = abandoned[b] + 1
          /\ Cardinality(Holders(b)') = Cardinality(Holders(b)) - 1
      BY <1>1, <1>2, <1>a, <1>4, <2>2
    <3>2. Cardinality(Holders(b)) \in Nat /\ abandoned[b] \in Nat
      BY <1>2, <1>5, HoldersFinite
    <3>3. QED BY <1>1, <2>1, <3>1, <3>2
  <2>3. CASE b # a
    BY <1>1, <1>2, <1>a, <1>3, <2>1, <2>3
  <2>4. QED BY <2>2, <2>3
<1>6. RefcountIsHolders'
  BY <1>1, <1>5 DEF RefcountIsHolders
<1>7. Claimed'
  BY <1>1, <1>2 DEF Counting, Claimed
<1>8. QED BY <1>6, <1>7 DEF Counting

\* The table loses an application that nobody holds.
LEMMA ForgetCounting ==
    ASSUME Counting, TypeOK', NEW a \in App, rc[a] = 0, RemoveRunDir(a),
           UNCHANGED <<abandoned, crossed>>,
           \A b \in App : Holders(b)' = Holders(b),
           \A c \in Client : pc'[c] \notin {"umount", "rmdir"},
           victim' = None
    PROVE  Counting'
<1>1. rc' = rc
  BY DEF RemoveRunDir, Counting, TypeOK
<1>2. RefcountIsHolders'
  BY <1>1 DEF RemoveRunDir, Counting, RefcountIsHolders
<1>3. Claimed'
  BY DEF Claimed
<1>4. QED BY <1>2, <1>3 DEF Counting

\* A new daemon counts nobody, and nobody is counted.
LEMMA RestartCounting ==
    ASSUME TypeOK, TypeOK', Restart
    PROVE  Counting'
<1>1. /\ entry' = {} /\ rc' = Free /\ abandoned' = Free /\ victim' = None
      /\ \A c \in Client : pc'[c] \in {"idle", "stray"}
  BY DEF Restart
<1>2. ASSUME NEW a \in App
      PROVE  rc'[a] = 0 /\ abandoned'[a] = 0 /\ Cardinality(Holders(a)') = 0
  <2>1. Holders(a)' = {}
    BY <1>1 DEF Holders, Counted
  <2>2. QED BY <1>1, <2>1, FS_EmptySet DEF Free
<1>3. RefcountIsHolders'
  BY <1>2 DEF RefcountIsHolders
<1>4. Claimed'
  BY <1>1 DEF Claimed
<1>5. QED BY <1>3, <1>4 DEF Counting

LEMMA CountingStep == Counting /\ [Next]_vars => Counting'
<1> SUFFICES ASSUME Counting, [Next]_vars PROVE Counting'
  OBVIOUS
<1>1. TypeOK /\ TypeOK'
  BY TypeStep DEF Counting
<1>2. ASSUME NEW c \in Client, NEW a \in App, Mount(c, a) PROVE Counting'
  <2>1. /\ UNCHANGED <<entry, rc, abandoned, crossed, victim>>
        /\ pc[c] = "idle" /\ pc' = [pc EXCEPT ![c] = "layers"]
        /\ app' = [app EXCEPT ![c] = a]
    BY <1>2 DEF Mount, At, table, clean, hist
  <2>2. \A b \in App : Holders(b)' = Holders(b)
    BY <1>1, <2>1 DEF Holders, Counted, TypeOK
  <2>3. QED BY <1>1, <2>1, <2>2, NothingCounted DEF TypeOK
<1>3. ASSUME NEW c \in Client, Build(c), ~Count(c) PROVE Counting'
  <2>1. /\ UNCHANGED <<entry, rc, abandoned, crossed, victim>>
        /\ pc[c] \notin Counted /\ pc'[c] \notin Counted \cup {"umount", "rmdir"}
        /\ \A x \in Client \ {c} : pc'[x] = pc[x] /\ app'[x] = app[x]
    BY <1>1, <1>3 DEF Build, CleanLayer, MountLayer, MountFails, LayersReady,
       ClearOld, WipeRunDir, MountOverlay, At, Idle, table, clean, hist, Counted, TypeOK
  <2>2. \A b \in App : Holders(b)' = Holders(b)
    BY <2>1 DEF Holders
  <2>3. QED BY <1>1, <2>1, <2>2, NothingCounted
<1>4. ASSUME NEW c \in Client, Count(c) PROVE Counting'
  BY <1>1, <1>4, CountCounting
<1>5. ASSUME NEW c \in Client, Umount(c) \/ UmountFails(c) PROVE Counting'
  <2>1. /\ UNCHANGED <<entry, rc, abandoned, crossed, victim>>
        /\ pc[c] = "umount" /\ pc'[c] \notin Counted
        /\ pc'[c] = "rmdir" => app'[c] = app[c]
        /\ pc'[c] # "umount"
        /\ \A x \in Client \ {c} : pc'[x] = pc[x] /\ app'[x] = app[x]
    BY <1>1, <1>5 DEF Umount, UmountFails, At, Idle, table, clean, hist, Counted, TypeOK
  <2>2. \A b \in App : Holders(b)' = Holders(b)
    BY <2>1 DEF Holders, Counted
  <2>3. QED BY <1>1, <2>1, <2>2, NothingCounted
<1>6. ASSUME NEW c \in Client, Forget(c) PROVE Counting'
  <2>1. /\ pc[c] = "rmdir" /\ pc'[c] = "idle" /\ UNCHANGED <<victim, abandoned, crossed>>
        /\ \A x \in Client \ {c} : pc'[x] = pc[x] /\ app'[x] = app[x]
        /\ RemoveRunDir(app[c])
    BY <1>1, <1>6 DEF Forget, At, Idle, clean, hist, TypeOK
  <2>2. lock = c /\ app[c] \in App /\ rc[app[c]] = 0
    BY <1>1, <2>1 DEF Counting, Claimed, TypeOK
  <2>3. \A b \in App : Holders(b)' = Holders(b)
    BY <2>1 DEF Holders, Counted
  <2>4. victim' = None /\ \A x \in Client : pc'[x] \notin {"umount", "rmdir"}
    BY <1>1, <2>1, <2>2, CleanerAssumption DEF TypeOK
  <2>5. QED BY <1>1, <2>1, <2>2, <2>3, <2>4, ForgetCounting
<1>7. ASSUME NEW c \in Client, Launch(c) PROVE Counting'
  <2>1. /\ UNCHANGED <<entry, rc, abandoned, crossed, victim, app>>
        /\ pc[c] = "reply" /\ pc' = [pc EXCEPT ![c] = "running"]
    BY <1>7 DEF Launch, At, table, clean, hist
  <2>2. \A b \in App : Holders(b)' = Holders(b)
    BY <1>1, <2>1 DEF Holders, Counted, TypeOK
  <2>3. QED BY <1>1, <2>1, <2>2, NothingCounted DEF TypeOK
<1>8. ASSUME NEW c \in Client, EndSilently(c) PROVE Counting'
  BY <1>1, <1>8, EndCounting
<1>9. ASSUME NEW c \in Client, Unmount(c) PROVE Counting'
  BY <1>1, <1>9, UnmountCounting
<1>10. CASE \/ \E a \in App : Age(a)
            \/ Wake \/ CleanUmount \/ CleanUmountFails \/ Sleep \/ UNCHANGED vars
  <2>1. /\ UNCHANGED <<entry, rc, abandoned, crossed, pc, app>>
        /\ victim' # None => victim' = victim
    BY <1>10 DEF Age, Wake, CleanUmount, CleanUmountFails, Sleep, vars,
       table, client, clean, hist
  <2>2. \A b \in App : Holders(b)' = Holders(b)
    BY <2>1 DEF Holders
  <2>3. QED BY <1>1, <2>1, <2>2, NothingCounted
<1>11. ASSUME NEW a \in App, Recheck(a) PROVE Counting'
  <2>1. /\ UNCHANGED <<entry, rc, abandoned, crossed, pc, app>>
        /\ victim' = victim \/ (victim' = a /\ rc[a] = 0)
    BY <1>11 DEF Recheck, Expired, table, client, hist
  <2>2. \A b \in App : Holders(b)' = Holders(b)
    BY <2>1 DEF Holders
  <2>3. RefcountIsHolders' /\ Claimed'
    BY <2>1, <2>2 DEF Counting, RefcountIsHolders, Claimed
  <2>4. QED BY <1>1, <2>3 DEF Counting
<1>12. CASE CleanForget
  <2>1. /\ cpc = "rmdir" /\ victim' = None /\ UNCHANGED <<pc, app, abandoned, crossed>>
        /\ RemoveRunDir(victim)
    BY <1>12 DEF CleanForget, client, hist
  <2>2. lock = Cleaner /\ victim \in App /\ rc[victim] = 0
    BY <1>1, <2>1, NoneAssumption DEF Counting, Claimed, TypeOK
  <2>3. \A b \in App : Holders(b)' = Holders(b)
    BY <2>1 DEF Holders
  <2>4. \A x \in Client : pc'[x] \notin {"umount", "rmdir"}
    BY <1>1, <2>1, <2>2, CleanerAssumption DEF TypeOK
  <2>5. QED BY <1>1, <2>1, <2>2, <2>3, <2>4, ForgetCounting
<1>13. ASSUME NEW c \in Client, EndStray(c) PROVE Counting'
  <2>1. /\ UNCHANGED <<entry, rc, abandoned, crossed, victim>>
        /\ pc[c] = "stray" /\ pc'[c] = "idle"
        /\ \A x \in Client \ {c} : pc'[x] = pc[x] /\ app'[x] = app[x]
    BY <1>1, <1>13 DEF EndStray, At, Idle, table, clean, hist, TypeOK
  <2>2. \A b \in App : Holders(b)' = Holders(b)
    BY <2>1 DEF Holders, Counted
  <2>3. QED BY <1>1, <2>1, <2>2, NothingCounted
<1>14. CASE Restart
  BY <1>1, <1>14, RestartCounting
<1>15. QED
  BY <1>2, <1>3, <1>4, <1>5, <1>6, <1>7, <1>8, <1>9, <1>10, <1>11, <1>12, <1>13,
     <1>14 DEF Next, Release, Clean

\* The count of an entry is the number of runs that hold it, and an
\* application with such a run is in the table (handle_mount, handle_unmount,
\* idle_mount_cleaner).
THEOREM CountCorrect == Spec => []RefcountIsHolders
<1>1. Counting => RefcountIsHolders
  BY DEF Counting
<1>2. QED BY <1>1, CountingInit, CountingStep, PTL DEF Spec

\* Nobody becomes a holder of an application while a thread unmounts it and
\* removes its run directory.
THEOREM TearDownCorrect == Spec => []NoRunIsTornDown
<1>1. Counting => NoRunIsTornDown
  <2> SUFFICES ASSUME Counting PROVE NoRunIsTornDown
    OBVIOUS
  <2>1. ASSUME NEW c \in Client, pc[c] \in {"umount", "rmdir"}, app[c] \notin crossed
        PROVE  Holders(app[c]) = {}
    <3>1. app[c] \in App \ crossed /\ rc[app[c]] = 0
      BY <2>1 DEF Counting, Claimed, TypeOK
    <3>2. QED BY <3>1, ZeroIsFree DEF Counting
  <2>2. ASSUME victim \notin crossed \cup {None} PROVE Holders(victim) = {}
    <3>1. victim \in App \ crossed /\ rc[victim] = 0
      BY <2>2 DEF Counting, Claimed, TypeOK
    <3>2. QED BY <3>1, ZeroIsFree DEF Counting
  <2>3. QED BY <2>1, <2>2 DEF NoRunIsTornDown
<1>2. QED BY <1>1, CountingInit, CountingStep, PTL DEF Spec

-----------------------------------------------------------------------------
\* The refinement.  Users is what the table's users are mapped to.
Users == [a \in App |-> Holders(a)]

LEMMA TableInit == Init => Table!Init
<1> SUFFICES ASSUME Init PROVE Table!Init
  OBVIOUS
<1>1. \A a \in App : Holders(a) = {}
  BY DEF Init, Holders, Counted
<1>2. QED BY <1>1 DEF Init, Free, Table!Init, Table!Nobody, Table!NoCount

\* A step that leaves the table, the counts and the holders alone.
LEMMA Stutters ==
    ASSUME \A a \in App : Holders(a)' = Holders(a),
           UNCHANGED <<abandoned, entry, crossed>>
    PROVE  UNCHANGED Table!vars
BY DEF Table!vars

\* A client that holds nothing does not come to hold anything.
LEMMA NotHeld ==
    ASSUME NEW c \in Client, pc[c] \notin Counted, pc'[c] \notin Counted,
           \A x \in Client \ {c} : pc'[x] = pc[x] /\ app'[x] = app[x]
    PROVE  \A a \in App : Holders(a)' = Holders(a)
BY DEF Holders

\* A client that holds an application ceases to.
LEMMA LetGo ==
    ASSUME NEW c \in Client, NEW a \in App, app[c] = a,
           pc[c] \in Counted, pc'[c] \notin Counted,
           \A x \in Client \ {c} : pc'[x] = pc[x] /\ app'[x] = app[x]
    PROVE  c \in Users[a] /\ Users' = [Users EXCEPT ![a] = @ \ {c}]
<1>1. c \in Holders(a) /\ Holders(a)' = Holders(a) \ {c}
  BY DEF Holders
<1>2. \A b \in App \ {a} : Holders(b)' = Holders(b)
  BY DEF Holders
<1>3. QED BY <1>1, <1>2 DEF Users

LEMMA CountAcquires ==
    ASSUME Counting, NEW c \in Client, Count(c)
    PROVE  \E a \in App : Table!Acquire(c, a)
<1>1. /\ pc[c] = "count" /\ pc' = [pc EXCEPT ![c] = "reply"]
      /\ entry' = entry \cup {app[c]}
      /\ UNCHANGED <<app, abandoned, crossed>>
  BY DEF Count, At, hist
<1>2. PICK a \in App : a = app[c]
  BY <1>1 DEF Counting, TypeOK
<1>3. /\ \A b \in App : c \notin Users[b]
      /\ Users' = [Users EXCEPT ![a] = @ \cup {c}]
  <2>1. pc \in [Client -> PC]
    BY DEF Counting, TypeOK
  <2>2. /\ \A b \in App : c \notin Holders(b)
        /\ Holders(a)' = Holders(a) \cup {c}
        /\ \A b \in App \ {a} : Holders(b)' = Holders(b)
    BY <1>1, <1>2, <2>1 DEF Holders, Counted
  <2>3. QED BY <2>2 DEF Users
<1>4. Table!Acquire(c, a)
  BY <1>1, <1>2, <1>3 DEF Table!Acquire, Users
<1>5. QED BY <1>4

LEMMA EndSilentlyEnds ==
    ASSUME Counting, NEW c \in Client, EndSilently(c)
    PROVE  \E a \in App : Table!EndSilently(c, a)
<1>1. /\ pc[c] \in Counted /\ pc' = [pc EXCEPT ![c] = "idle"]
      /\ app' = [app EXCEPT ![c] = None]
      /\ abandoned' = [abandoned EXCEPT ![app[c]] = @ + 1]
      /\ UNCHANGED <<entry, crossed>>
  BY DEF EndSilently, Idle, At, Counted, table
<1>2. /\ pc \in [Client -> PC] /\ app \in [Client -> App \cup {None}]
  BY DEF Counting, TypeOK
<1>3. PICK a \in App : a = app[c]
  BY <1>1 DEF Counting, TypeOK, Counted
<1>4. c \in Users[a] /\ Users' = [Users EXCEPT ![a] = @ \ {c}]
  <2>1. /\ pc'[c] \notin Counted
        /\ \A x \in Client \ {c} : pc'[x] = pc[x] /\ app'[x] = app[x]
    BY <1>1, <1>2 DEF Counted
  <2>2. QED BY <1>1, <1>3, <2>1, LetGo
<1>5. Table!EndSilently(c, a)
  BY <1>1, <1>3, <1>4 DEF Table!EndSilently, Users
<1>6. QED BY <1>5

\* An Unmount gives back what its run holds; that of a run of an earlier daemon
\* makes the count doubtful, or does nothing.
LEMMA UnmountGivesBack ==
    ASSUME Counting, NEW c \in Client, Unmount(c)
    PROVE  \/ \E a \in App : Table!GiveBack(c, a) \/ Table!GiveBackOld(a)
           \/ UNCHANGED Table!vars
<1>1. /\ pc[c] \in Counted \cup {"stray"} /\ UNCHANGED <<entry, abandoned>>
      /\ crossed' = IF pc[c] = "stray" THEN crossed \cup ({app[c]} \cap entry)
                                       ELSE crossed
  BY DEF Unmount
<1>2. PICK a \in App : a = app[c]
  BY <1>1 DEF Counting, TypeOK, Counted
<1>3. /\ pc'[c] \notin Counted
      /\ \A x \in Client \ {c} : pc'[x] = pc[x] /\ app'[x] = app[x]
  BY UnmountMoves
<1>4. CASE pc[c] \in Counted
  <2>1. c \in Users[a] /\ Users' = [Users EXCEPT ![a] = @ \ {c}]
    BY <1>2, <1>3, <1>4, LetGo
  <2>2. crossed' = crossed
    BY <1>1, <1>4 DEF Counted
  <2>3. Table!GiveBack(c, a)
    BY <1>1, <2>1, <2>2 DEF Table!GiveBack, Users
  <2>4. QED BY <2>3
<1>5. CASE pc[c] = "stray"
  <2>1. \A b \in App : Holders(b)' = Holders(b)
    BY <1>3, <1>5, NotHeld DEF Counted
  <2>2. CASE a \in entry
    <3>1. crossed' = crossed \cup {a}
      BY <1>1, <1>2, <1>5, <2>2
    <3>2. Table!GiveBackOld(a)
      BY <1>1, <2>1, <2>2, <3>1 DEF Table!GiveBackOld
    <3>3. QED BY <3>2
  <2>3. CASE a \notin entry
    BY <1>1, <1>2, <1>5, <2>1, <2>3, Stutters
  <2>4. QED BY <2>2, <2>3
<1>6. QED BY <1>1, <1>4, <1>5

\* The end of a critical section, of handle_unmount or of the cleaner.
LEMMA RemoveReclaims ==
    ASSUME Counting, NEW a \in App, rc[a] = 0, RemoveRunDir(a),
           UNCHANGED <<abandoned, crossed>>,
           \A b \in App : Holders(b)' = Holders(b)
    PROVE  Table!Reclaim(a) \/ UNCHANGED Table!vars
<1>1. entry' = entry \ {a}
  BY DEF RemoveRunDir
<1>2. Users' = Users
  BY DEF Users
<1>3. CASE a \in entry
  <2>1. a \in crossed \/ (Users[a] = {} /\ abandoned[a] = 0)
    BY ZeroIsFree DEF Counting, Users
  <2>2. Table!Reclaim(a)
    BY <1>1, <1>2, <1>3, <2>1 DEF Table!Reclaim, Table!Unused, Users
  <2>3. QED BY <2>2
<1>4. CASE a \notin entry
  BY <1>1, <1>4, Stutters
<1>5. QED BY <1>3, <1>4

LEMMA RestartStartsAfresh ==
    ASSUME Restart
    PROVE  Table!StartAfresh
<1>1. \A a \in App : Holders(a)' = {}
  <2>1. \A c \in Client : pc'[c] \in {"idle", "stray"}
    BY DEF Restart
  <2>2. QED BY <2>1 DEF Holders, Counted
<1>2. QED BY <1>1 DEF Restart, Free, Table!StartAfresh, Table!Nobody, Table!NoCount

LEMMA TableStep == Counting /\ [Next]_vars => [Table!Next]_Table!vars
<1> SUFFICES ASSUME Counting, [Next]_vars PROVE Table!Next \/ UNCHANGED Table!vars
  OBVIOUS
<1>1. TypeOK
  BY DEF Counting
<1>2. ASSUME NEW c \in Client, NEW a \in App, Mount(c, a)
      PROVE  UNCHANGED Table!vars
  <2>1. /\ UNCHANGED <<abandoned, entry, crossed>>
        /\ pc[c] \notin Counted /\ pc'[c] \notin Counted
        /\ \A x \in Client \ {c} : pc'[x] = pc[x] /\ app'[x] = app[x]
    BY <1>1, <1>2 DEF Mount, At, table, hist, Counted, TypeOK
  <2>2. QED BY <2>1, NotHeld, Stutters
<1>3. ASSUME NEW c \in Client, Build(c), ~Count(c)
      PROVE  UNCHANGED Table!vars
  <2>1. /\ UNCHANGED <<abandoned, entry, crossed>>
        /\ pc[c] \notin Counted /\ pc'[c] \notin Counted
        /\ \A x \in Client \ {c} : pc'[x] = pc[x] /\ app'[x] = app[x]
    BY <1>1, <1>3 DEF Build, CleanLayer, MountLayer, MountFails, LayersReady,
       ClearOld, WipeRunDir, MountOverlay, At, Idle, table, hist, Counted, TypeOK
  <2>2. QED BY <2>1, NotHeld, Stutters
<1>4. ASSUME NEW c \in Client, Count(c) PROVE Table!Next
  BY <1>4, CountAcquires DEF Table!Next
<1>5. ASSUME NEW c \in Client, Umount(c) \/ UmountFails(c) \/ EndStray(c)
      PROVE  UNCHANGED Table!vars
  <2>1. /\ UNCHANGED <<abandoned, entry, crossed>>
        /\ pc[c] \notin Counted /\ pc'[c] \notin Counted
        /\ \A x \in Client \ {c} : pc'[x] = pc[x] /\ app'[x] = app[x]
    BY <1>1, <1>5 DEF Umount, UmountFails, EndStray, At, Idle, table, hist,
       Counted, TypeOK
  <2>2. QED BY <2>1, NotHeld, Stutters
<1>6. ASSUME NEW c \in Client, Forget(c) PROVE Table!Next \/ UNCHANGED Table!vars
  <2>1. /\ UNCHANGED <<abandoned, crossed>>
        /\ pc[c] = "rmdir" /\ pc'[c] = "idle"
        /\ \A x \in Client \ {c} : pc'[x] = pc[x] /\ app'[x] = app[x]
        /\ RemoveRunDir(app[c])
    BY <1>1, <1>6 DEF Forget, At, Idle, hist, TypeOK
  <2>2. \A b \in App : Holders(b)' = Holders(b)
    BY <2>1, NotHeld DEF Counted
  <2>3. app[c] \in App /\ rc[app[c]] = 0
    BY <1>1, <2>1 DEF Counting, Claimed, TypeOK
  <2>4. Table!Reclaim(app[c]) \/ UNCHANGED Table!vars
    BY <2>1, <2>2, <2>3, RemoveReclaims
  <2>5. QED BY <2>3, <2>4 DEF Table!Next
<1>7. ASSUME NEW c \in Client, Launch(c) PROVE UNCHANGED Table!vars
  <2>1. /\ UNCHANGED <<abandoned, entry, crossed, app>>
        /\ pc[c] = "reply" /\ pc' = [pc EXCEPT ![c] = "running"]
    BY <1>7 DEF Launch, At, table, hist
  <2>2. \A b \in App : Holders(b)' = Holders(b)
    BY <1>1, <2>1 DEF Holders, Counted, TypeOK
  <2>3. QED BY <2>1, <2>2, Stutters
<1>8. ASSUME NEW c \in Client, EndSilently(c) PROVE Table!Next
  BY <1>8, EndSilentlyEnds DEF Table!Next
<1>9. ASSUME NEW c \in Client, Unmount(c) PROVE Table!Next \/ UNCHANGED Table!vars
  BY <1>9, UnmountGivesBack DEF Table!Next
<1>10. CASE \/ \E a \in App : Age(a) \/ Recheck(a)
            \/ Wake \/ CleanUmount \/ CleanUmountFails \/ Sleep \/ UNCHANGED vars
  <2>1. UNCHANGED <<abandoned, entry, crossed, pc, app>>
    BY <1>10 DEF Age, Recheck, Wake, CleanUmount, CleanUmountFails, Sleep, vars,
       table, client, hist
  <2>2. \A b \in App : Holders(b)' = Holders(b)
    BY <2>1 DEF Holders
  <2>3. QED BY <2>1, <2>2, Stutters
<1>11. CASE CleanForget
  <2>1. /\ UNCHANGED <<abandoned, crossed, pc, app>> /\ RemoveRunDir(victim)
        /\ cpc = "rmdir"
    BY <1>11 DEF CleanForget, client, hist
  <2>2. \A b \in App : Holders(b)' = Holders(b)
    BY <2>1 DEF Holders
  <2>3. victim \in App /\ rc[victim] = 0
    BY <1>1, <2>1 DEF Counting, Claimed, TypeOK
  <2>4. Table!Reclaim(victim) \/ UNCHANGED Table!vars
    BY <2>1, <2>2, <2>3, RemoveReclaims
  <2>5. QED BY <2>3, <2>4 DEF Table!Next
<1>12. CASE Restart
  BY <1>12, RestartStartsAfresh DEF Table!Next
<1>13. QED
  BY <1>2, <1>3, <1>4, <1>5, <1>6, <1>7, <1>8, <1>9, <1>10, <1>11, <1>12
  DEF Next, Release, Clean

\* The daemon is a table that knows its users: every step of its threads and of
\* its clients is a step of MountTable, or none (handle_mount, handle_unmount,
\* idle_mount_cleaner, and a restart).
THEOREM TableCorrect == Spec => ImplementsTable
<1>1. Init => Table!Init
  BY TableInit
<1>2. Counting /\ [Next]_vars => [Table!Next]_Table!vars
  BY TableStep
<1>3. QED BY <1>1, <1>2, CountingInit, CountingStep, PTL DEF Spec, ImplementsTable, Table!Spec

-----------------------------------------------------------------------------
(* The inductive invariant behind OverlaysTracked.  Whoever takes an entry *)
(* out of the table has unmounted the overlay before, and it was the only  *)
(* one: from then on a new overlay can be mounted but not counted, because *)
(* the mutex is held until the entry is gone.                              *)

TakenDown(a) == \/ \E c \in Client : pc[c] = "rmdir" /\ app[c] = a
                \/ cpc = "rmdir" /\ victim = a
InSight(a) == JustMade(a) \/ (a \in entry /\ ~TakenDown(a))
Tracked ==
    \A a \in App \ leaky : Len(overlay[a]) <= 1 /\ (overlay[a] # <<>> => InSight(a))

\* What the two helpers do to the stacks.
LEMMA StackShrinks ==
    ASSUME overlay \in [App -> Seq(Content)], NEW a \in App
    PROVE  /\ \A b \in App : b # a => Popped(a)[b] = overlay[b] /\ Wiped(a)[b] = overlay[b]
           /\ Len(overlay[a]) <= 1 => Popped(a)[a] = <<>> \/ overlay[a] = <<>>
           /\ overlay[a] # <<>> => Len(Popped(a)[a]) <= Len(overlay[a])
           /\ Len(Wiped(a)[a]) = Len(overlay[a])
           /\ overlay[a] = <<>> => Wiped(a)[a] = <<>>
<1>1. overlay[a] \in Seq(Content) /\ Len(overlay[a]) \in Nat
  OBVIOUS
<1>2. \A b \in App : b # a => Popped(a)[b] = overlay[b] /\ Wiped(a)[b] = overlay[b]
  BY DEF Popped, Wiped
<1>3. Popped(a)[a] = Tail(overlay[a])
  BY DEF Popped
<1>4. ASSUME overlay[a] # <<>>
      PROVE  /\ Tail(overlay[a]) \in Seq(Content)
             /\ Len(Tail(overlay[a])) = Len(overlay[a]) - 1
             /\ Len(overlay[a]) = 1 => Tail(overlay[a]) = <<>>
  <2>1. /\ Tail(overlay[a]) \in Seq(Content)
        /\ Len(Tail(overlay[a])) = Len(overlay[a]) - 1
    BY <1>1, <1>4
  <2>2. ASSUME Len(overlay[a]) = 1 PROVE Tail(overlay[a]) = <<>>
    <3>1. Len(Tail(overlay[a])) = 0
      BY <2>1, <2>2
    <3>2. \A s \in Seq(Content) : Len(s) = 0 => s = <<>>
      OBVIOUS
    <3>3. QED BY <2>1, <3>1, <3>2
  <2>3. QED BY <2>1, <2>2
<1>5. overlay[a] # <<>> => Len(overlay[a]) # 0
  BY <1>1
<1>6. Wiped(a)[a] = [i \in 1 .. Len(overlay[a]) |-> "wiped"]
  BY <1>1 DEF Wiped
<1>7. Wiped(a)[a] \in Seq(Content) /\ Len(Wiped(a)[a]) = Len(overlay[a])
  BY <1>1, <1>6 DEF Content
<1>8. overlay[a] = <<>> => Wiped(a)[a] = <<>>
  BY <1>7
<1>9. QED BY <1>1, <1>2, <1>3, <1>4, <1>5, <1>7, <1>8

\* A step that mounts nothing, takes no entry and starts no removal of a
\* mounted overlay keeps what is tracked in sight.
LEMMA TrackedFrame ==
    ASSUME TypeOK, Tracked, UNCHANGED leaky,
           \A a \in App : overlay'[a] # <<>> => overlay[a] # <<>>,
           \A a \in App : Len(overlay[a]) <= 1 => Len(overlay'[a]) <= 1,
           \A a \in App : JustMade(a) /\ overlay'[a] # <<>> => InSight(a)',
           entry \subseteq entry',
           \A a \in App : Len(overlay[a]) <= 1 /\ TakenDown(a)' =>
                             TakenDown(a) \/ overlay'[a] = <<>>
    PROVE  Tracked'
<1>1. SUFFICES ASSUME NEW a \in App \ leaky
               PROVE  Len(overlay'[a]) <= 1 /\ (overlay'[a] # <<>> => InSight(a)')
  BY DEF Tracked
<1>2. Len(overlay[a]) <= 1 /\ (overlay[a] # <<>> => InSight(a))
  BY DEF Tracked
<1>3. ASSUME overlay'[a] # <<>>, ~JustMade(a) PROVE InSight(a)'
  <2>1. a \in entry /\ ~TakenDown(a)
    BY <1>2, <1>3 DEF InSight
  <2>2. a \in entry' /\ ~TakenDown(a)'
    BY <1>2, <1>3, <2>1
  <2>3. QED BY <2>2 DEF InSight
<1>4. QED BY <1>2, <1>3

\* A client that is neither at "count" before nor at "rmdir" after its step
\* changes nothing that Tracked speaks of, the stacks apart.
LEMMA TrackedClient ==
    ASSUME TypeOK, Tracked, NEW c \in Client, pc[c] # "count", pc'[c] # "rmdir",
           \A x \in Client : x # c => pc'[x] = pc[x] /\ app'[x] = app[x],
           UNCHANGED <<leaky, entry, cpc, victim>>,
           \A a \in App : overlay'[a] # <<>> => overlay[a] # <<>>,
           \A a \in App : Len(overlay[a]) <= 1 => Len(overlay'[a]) <= 1
    PROVE  Tracked'
<1>1. \A a \in App : JustMade(a) => JustMade(a)'
  BY DEF JustMade
<1>2. \A a \in App : TakenDown(a)' => TakenDown(a)
  BY DEF TakenDown
<1>3. QED BY <1>1, <1>2, TrackedFrame DEF InSight

LEMMA TrackedBuild ==
    ASSUME TypeOK, Tracked, NEW c \in Client, Build(c)
    PROVE  Tracked'
<1> USE DEF At, Idle, table, fs, clean, hist
<1>0. overlay \in [App -> Seq(Content)] /\ leaky \subseteq App
  BY DEF TypeOK, Content
<1>1. CASE CleanLayer(c) \/ MountLayer(c) \/ MountFails(c) \/ LayersReady(c)
  <2>1. /\ pc[c] # "count" /\ pc'[c] # "rmdir"
        /\ \A x \in Client : x # c => pc'[x] = pc[x] /\ app'[x] = app[x]
        /\ UNCHANGED <<leaky, entry, cpc, victim, overlay>>
    BY <1>1 DEF CleanLayer, MountLayer, MountFails, LayersReady, TypeOK
  <2>2. QED BY <2>1, TrackedClient
<1>2. CASE ClearOld(c) \/ WipeRunDir(c)
  <2>1. /\ pc[c] \in {"clear", "wipe"} /\ pc'[c] # "rmdir"
        /\ \A x \in Client : x # c => pc'[x] = pc[x] /\ app'[x] = app[x]
        /\ UNCHANGED <<leaky, entry, cpc, victim>>
    BY <1>2 DEF ClearOld, WipeRunDir, TypeOK
  <2>2. app[c] \in App
    BY <2>1 DEF TypeOK
  <2>3. \/ UNCHANGED overlay
        \/ overlay[app[c]] # <<>> /\ overlay' = Popped(app[c])
        \/ overlay' = Wiped(app[c])
    BY <1>2 DEF ClearOld, WipeRunDir
  <2>4. \A a \in App : /\ overlay'[a] # <<>> => overlay[a] # <<>>
                       /\ Len(overlay[a]) <= 1 => Len(overlay'[a]) <= 1
    <3>1. CASE UNCHANGED overlay
      BY <3>1
    <3>2. CASE overlay[app[c]] # <<>> /\ overlay' = Popped(app[c])
      <4>1. \A a \in App : a # app[c] => overlay'[a] = overlay[a]
        BY <1>0, <2>2, <3>2, StackShrinks
      <4>2. /\ overlay[app[c]] # <<>>
            /\ Len(overlay[app[c]]) <= 1 => overlay'[app[c]] = <<>>
        BY <1>0, <2>2, <3>2, StackShrinks
      <4>3. QED BY <4>1, <4>2
    <3>3. CASE overlay' = Wiped(app[c])
      BY <1>0, <2>2, <3>3, StackShrinks
    <3>4. QED BY <2>3, <3>1, <3>2, <3>3
  <2>5. QED BY <2>1, <2>4, TrackedClient
<1>3. CASE MountOverlay(c)
  <2>1. /\ pc[c] = "overlay" /\ pc' = [pc EXCEPT ![c] = "count"] /\ UNCHANGED app
        /\ UNCHANGED <<entry, cpc, victim>>
        /\ leaky' = IF overlay[app[c]] = <<>> THEN leaky ELSE leaky \cup {app[c]}
    BY <1>3 DEF MountOverlay
  <2>2. PICK made \in Content :
            overlay' = [overlay EXCEPT ![app[c]] = <<made>> \o overlay[app[c]]]
    BY <1>3 DEF MountOverlay, Content
  <2>3. pc'[c] = "count" /\ \A x \in Client : x # c => pc'[x] = pc[x]
    BY <2>1 DEF TypeOK
  <2>4. ASSUME NEW a \in App \ leaky'
        PROVE  Len(overlay'[a]) <= 1 /\ (overlay'[a] # <<>> => InSight(a)')
    <3>1. CASE a = app[c]
      <4>1. overlay'[a] = <<made>> \o overlay[a] /\ overlay[a] = <<>>
        BY <1>0, <2>1, <2>2, <2>4, <3>1
      <4>2. Len(overlay'[a]) = 1
        BY <4>1
      <4>3. JustMade(a)'
        BY <2>1, <2>3, <3>1 DEF JustMade
      <4>4. QED BY <4>2, <4>3 DEF InSight
    <3>2. CASE a # app[c]
      <4>1. overlay'[a] = overlay[a] /\ a \notin leaky
        BY <1>0, <2>1, <2>2, <2>4, <3>2
      <4>2. (JustMade(a) => JustMade(a)') /\ (TakenDown(a)' => TakenDown(a))
        BY <2>1, <2>3 DEF JustMade, TakenDown
      <4>3. QED BY <2>1, <4>1, <4>2 DEF Tracked, InSight
    <3>3. QED BY <3>1, <3>2
  <2>5. QED BY <2>4 DEF Tracked
<1>4. CASE Count(c)
  <2>1. /\ pc[c] = "count" /\ pc' = [pc EXCEPT ![c] = "reply"] /\ lock = None
        /\ entry' = entry \cup {app[c]}
        /\ UNCHANGED <<overlay, leaky, cpc, victim, app>>
    BY <1>4 DEF Count
  <2>2. pc'[c] = "reply" /\ \A x \in Client : x # c => pc'[x] = pc[x]
    BY <2>1 DEF TypeOK
  <2>3. \A a \in App : ~TakenDown(a)'
    <3>1. \A x \in Client : pc[x] # "rmdir"
      BY <2>1, NoneAssumption DEF TypeOK
    <3>2. victim = None
      BY <2>1, CleanerAssumption DEF TypeOK
    <3>3. QED BY <2>1, <2>2, <3>1, <3>2, NoneAssumption DEF TakenDown
  <2>4. \A a \in App : JustMade(a) => InSight(a)'
    <3>1. ASSUME NEW a \in App, JustMade(a) PROVE JustMade(a)' \/ a \in entry'
      <4>1. PICK x \in Client : pc[x] = "count" /\ app[x] = a
        BY <3>1 DEF JustMade
      <4>2. CASE x = c
        BY <2>1, <4>1, <4>2
      <4>3. CASE x # c
        BY <2>1, <2>2, <4>1, <4>3 DEF JustMade
      <4>4. QED BY <4>2, <4>3
    <3>2. QED BY <2>3, <3>1 DEF InSight
  <2>5. QED BY <2>1, <2>3, <2>4, TrackedFrame
<1>5. QED BY <1>1, <1>2, <1>3, <1>4 DEF Build

\* The end of a removal: who removes the run directory has nothing mounted
\* there but what another thread has just made.
LEMMA TrackedRemove ==
    ASSUME TypeOK, Tracked, NEW a \in App, TakenDown(a), RemoveRunDir(a),
           UNCHANGED leaky,
           \A b \in App : JustMade(b) => JustMade(b)',
           \A b \in App : TakenDown(b)' => TakenDown(b)
    PROVE  Tracked'
<1>1. /\ overlay \in [App -> Seq(Content)] /\ overlay' = Wiped(a)
      /\ entry' = entry \ {a}
  BY DEF RemoveRunDir, TypeOK, Content
<1>2. ASSUME NEW b \in App \ leaky
      PROVE  Len(overlay'[b]) <= 1 /\ (overlay'[b] # <<>> => InSight(b)')
  <2>1. Len(overlay[b]) <= 1 /\ (overlay[b] # <<>> => InSight(b))
    BY DEF Tracked
  <2>2. Len(overlay'[b]) <= 1 /\ (overlay'[b] # <<>> => overlay[b] # <<>>)
    BY <1>1, <2>1, StackShrinks
  <2>3. CASE b = a
    <3>1. overlay[b] # <<>> => JustMade(b)
      BY <2>1, <2>3 DEF InSight
    <3>2. QED BY <2>2, <3>1 DEF InSight
  <2>4. CASE b # a
    BY <1>1, <2>1, <2>2, <2>4 DEF InSight
  <2>5. QED BY <2>3, <2>4
<1>3. QED BY <1>2 DEF Tracked

\* An unmount takes the only overlay, so that nothing is left to be forgotten.
LEMMA TrackedPop ==
    ASSUME TypeOK, Tracked, NEW a \in App, overlay[a] # <<>>, overlay' = Popped(a),
           UNCHANGED <<leaky, entry>>,
           \A b \in App : JustMade(b) => JustMade(b)',
           \A b \in App : TakenDown(b)' => TakenDown(b) \/ b = a
    PROVE  Tracked'
<1>1. overlay \in [App -> Seq(Content)]
  BY DEF TypeOK, Content
<1>2. \A b \in App : b # a => overlay'[b] = overlay[b]
  BY <1>1, StackShrinks
<1>3. Len(overlay[a]) <= 1 => overlay'[a] = <<>>
  BY <1>1, StackShrinks
<1>4. \A b \in App : Len(overlay[b]) <= 1 => Len(overlay'[b]) <= 1
  BY <1>2, <1>3
<1>5. QED BY <1>2, <1>3, <1>4, TrackedFrame DEF InSight

LEMMA TrackedStep == TypeOK /\ Tracked /\ [Next]_vars => Tracked'
<1>1. SUFFICES ASSUME TypeOK, Tracked, [Next]_vars PROVE Tracked'
  OBVIOUS
<1> USE DEF At, Idle, table, fs, client, clean, hist
<1>2. ASSUME NEW c \in Client,
             \/ \E a \in App : Mount(c, a)
             \/ Launch(c) \/ EndSilently(c) \/ EndStray(c) \/ Unmount(c) \/ UmountFails(c)
      PROVE  Tracked'
  <2>1. /\ pc[c] # "count" /\ pc'[c] # "rmdir"
        /\ \A x \in Client : x # c => pc'[x] = pc[x] /\ app'[x] = app[x]
        /\ UNCHANGED <<leaky, entry, cpc, victim, overlay>>
    BY <1>1, <1>2 DEF Mount, Launch, EndSilently, EndStray, Unmount, UmountFails,
       Counted, TypeOK
  <2>2. QED BY <1>1, <2>1, TrackedClient
<1>3. ASSUME NEW c \in Client, Umount(c) PROVE Tracked'
  <2>1. /\ pc[c] = "umount" /\ pc' = [pc EXCEPT ![c] = "rmdir"] /\ UNCHANGED app
        /\ overlay[app[c]] # <<>> /\ overlay' = Popped(app[c])
        /\ UNCHANGED <<leaky, entry, cpc, victim>>
    BY <1>3 DEF Umount
  <2>2. app[c] \in App /\ \A x \in Client : x # c => pc'[x] = pc[x]
    BY <1>1, <2>1 DEF TypeOK
  <2>3. \A b \in App : JustMade(b) => JustMade(b)'
    BY <2>1, <2>2 DEF JustMade
  <2>4. \A b \in App : TakenDown(b)' => TakenDown(b) \/ b = app[c]
    BY <2>1, <2>2 DEF TakenDown
  <2>5. QED BY <1>1, <2>1, <2>2, <2>3, <2>4, TrackedPop
<1>4. ASSUME NEW c \in Client, Forget(c) PROVE Tracked'
  <2>1. /\ pc[c] = "rmdir" /\ RemoveRunDir(app[c]) /\ pc'[c] = "idle"
        /\ \A x \in Client : x # c => pc'[x] = pc[x] /\ app'[x] = app[x]
        /\ UNCHANGED <<leaky, cpc, victim>>
    BY <1>1, <1>4 DEF Forget, TypeOK
  <2>2. app[c] \in App /\ TakenDown(app[c])
    BY <1>1, <2>1 DEF TypeOK, TakenDown
  <2>3. \A b \in App : /\ JustMade(b) => JustMade(b)'
                       /\ TakenDown(b)' => TakenDown(b)
    BY <2>1 DEF JustMade, TakenDown
  <2>4. QED BY <1>1, <2>1, <2>2, <2>3, TrackedRemove
<1>5. CASE \/ \E a \in App : Age(a) \/ Recheck(a)
           \/ Wake \/ CleanUmountFails \/ Sleep \/ UNCHANGED vars
  <2>1. UNCHANGED <<leaky, entry, overlay, pc, app>> /\ (cpc' = "rmdir" => UNCHANGED <<cpc, victim>>)
    BY <1>5 DEF Age, Recheck, Wake, CleanUmountFails, Sleep, vars
  <2>2. \A b \in App : /\ JustMade(b) => JustMade(b)'
                       /\ TakenDown(b)' => TakenDown(b)
    BY <2>1 DEF JustMade, TakenDown
  <2>3. QED BY <1>1, <2>1, <2>2, TrackedFrame DEF InSight
<1>6. CASE CleanUmount
  <2>1. /\ cpc = "umount" /\ overlay[victim] # <<>> /\ overlay' = Popped(victim)
        /\ UNCHANGED <<leaky, entry, pc, app, victim>>
    BY <1>6 DEF CleanUmount
  <2>2. victim \in App
    BY <1>1, <2>1 DEF TypeOK
  <2>3. \A b \in App : JustMade(b) => JustMade(b)'
    BY <2>1 DEF JustMade
  <2>4. \A b \in App : TakenDown(b)' => TakenDown(b) \/ b = victim
    BY <2>1 DEF TakenDown
  <2>5. QED BY <1>1, <2>1, <2>2, <2>3, <2>4, TrackedPop
<1>7. CASE CleanForget
  <2>1. /\ cpc = "rmdir" /\ RemoveRunDir(victim) /\ cpc' = "next"
        /\ UNCHANGED <<leaky, pc, app>>
    BY <1>7 DEF CleanForget
  <2>2. victim \in App /\ TakenDown(victim)
    BY <1>1, <2>1 DEF TypeOK, TakenDown
  <2>3. \A b \in App : /\ JustMade(b) => JustMade(b)'
                       /\ TakenDown(b)' => TakenDown(b)
    BY <2>1 DEF JustMade, TakenDown
  <2>4. QED BY <1>1, <2>1, <2>2, <2>3, TrackedRemove
<1>8. CASE Restart
  <2>1. leaky' = leaky \cup {a \in App : overlay[a] # <<>>} /\ UNCHANGED overlay
    BY <1>8 DEF Restart
  <2>2. \A a \in App \ leaky' : overlay'[a] = <<>> /\ Len(overlay'[a]) <= 1
    BY <1>1, <2>1 DEF Tracked
  <2>3. QED BY <2>2 DEF Tracked
<1>9. QED
  BY <1>1, <1>2, <1>3, <1>4, <1>5, <1>6, <1>7, <1>8, TrackedBuild
  DEF Next, Release, Clean

\* However mounts, unmounts, the cleaner and restarts interleave, an overlay
\* that was mounted over nothing, by this daemon, is in the table or about to
\* be: none is forgotten while it is mounted (handle_mount, unmount_overlay).
THEOREM TrackCorrect == Spec => []OverlaysTracked
<1>1. Init => Tracked
  <2>1. Init => \A a \in App : overlay[a] = <<>> /\ Len(overlay[a]) = 0
    BY DEF Init
  <2>2. QED BY <2>1 DEF Tracked
<1>2. Tracked => OverlaysTracked
  BY DEF Tracked, InSight, OverlaysTracked
<1>3. QED BY <1>1, <1>2, TrackedStep, TypeCorrect, PTL DEF Spec

=============================================================================
