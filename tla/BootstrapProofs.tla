-------------------------- MODULE BootstrapProofs --------------------------
(***************************************************************************)
(* Proofs about Bootstrap, for any number of launches and daemons, any     *)
(* bundle and any number of faults: the types, that a torn binary is       *)
(* executed only when another launch tore it, and that the handover of the *)
(* socket leaves no living daemon without it.                              *)
(***************************************************************************)
EXTENDS Bootstrap, TLAPS

-----------------------------------------------------------------------------
\* The shapes a step of a launch has.

\* A launch that goes from one place to another.
LEMMA AtTyped ==
    ASSUME TypeOK, NEW r \in Run, NEW l, NEW next \in RunPC, At(r, l, next)
    PROVE  /\ pc[r] = l /\ pc' \in [Run -> RunPC] /\ pc'[r] = next
           /\ \A x \in Run : x # r => pc'[x] = pc[x]
BY DEF At, TypeOK

\* A launch that fails leaves nothing behind but the reason.
LEMMA FailsTyped ==
    ASSUME TypeOK, NEW r \in Run, NEW l, NEW reason \in Reason, reason # "none",
           Fails(r, l, reason)
    PROVE  /\ pc[r] = l /\ pc' \in [Run -> RunPC] /\ pc'[r] = "failed"
           /\ \A x \in Run : x # r => pc'[x] = pc[x] /\ nxpk'[x] = nxpk[x]
           /\ item' \in [Run -> 0 .. Len(Embedded)]
           /\ \A x \in Run : pc'[x] \in {"open", "write"} => item'[x] # 0
           /\ \A x \in Run : x # r => item'[x] = item[x]
           /\ reached' \in [Run -> BOOLEAN]
           /\ peer' \in [Run -> Daemon \cup {None}]
           /\ \A x \in Run : pc'[x] = "served" <=> peer'[x] # None
           /\ nxpk' \in [Run -> {"none", "path", "bin"}] /\ nxpk'[r] = "none"
           /\ why' \in [Run -> Reason]
           /\ \A x \in Run : pc'[x] = "failed" <=> why'[x] # "none"
<1>1. Len(Embedded) \in Nat
  BY EmbeddedAssumption
<1>2. pc[r] = l /\ pc' \in [Run -> RunPC] /\ pc'[r] = "failed"
  BY AtTyped DEF Fails, RunPC
<1>3. \A x \in Run : x # r => /\ pc'[x] = pc[x] /\ nxpk'[x] = nxpk[x]
                              /\ item'[x] = item[x] /\ why'[x] = why[x]
                              /\ peer'[x] = peer[x]
  BY DEF Fails, At, TypeOK
<1>4. item'[r] = 0 /\ peer'[r] = None /\ nxpk'[r] = "none" /\ why'[r] = reason
  BY DEF Fails, TypeOK
<1>5. item' \in [Run -> 0 .. Len(Embedded)] /\ reached' \in [Run -> BOOLEAN]
  BY <1>1 DEF Fails, TypeOK
<1>6. /\ peer' \in [Run -> Daemon \cup {None}] /\ why' \in [Run -> Reason]
      /\ nxpk' \in [Run -> {"none", "path", "bin"}]
  BY DEF Fails, TypeOK
<1>7. ASSUME NEW x \in Run
      PROVE  /\ pc'[x] = "served" <=> peer'[x] # None
             /\ pc'[x] = "failed" <=> why'[x] # "none"
             /\ pc'[x] \in {"open", "write"} => item'[x] # 0
  <2>1. CASE x = r
    BY <1>2, <1>4, <2>1
  <2>2. CASE x # r
    <3>1. /\ pc[x] = "served" <=> peer[x] # None
          /\ pc[x] = "failed" <=> why[x] # "none"
          /\ pc[x] \in {"open", "write"} => item[x] # 0
      BY DEF TypeOK
    <3>2. QED BY <1>3, <2>2, <3>1
  <2>3. QED BY <2>1, <2>2
<1>8. QED BY <1>2, <1>3, <1>4, <1>5, <1>6, <1>7

\* A launch that is extracting a file has one before it.
LEMMA ItemTyped ==
    ASSUME TypeOK, NEW r \in Run, pc[r] \in {"open", "write"}
    PROVE  item[r] \in DOMAIN Embedded /\ Embedded[item[r]] \in File
<1>1. item[r] \in 0 .. Len(Embedded) /\ item[r] # 0
  BY DEF TypeOK
<1>2. Len(Embedded) \in Nat /\ DOMAIN Embedded = 1 .. Len(Embedded)
  BY EmbeddedAssumption
<1>3. item[r] \in DOMAIN Embedded
  BY <1>1, <1>2
<1>4. QED BY <1>3, EmbeddedAssumption

\* Who executes a torn file is on record with who tore it.
LEMMA ExecutesTyped ==
    ASSUME TypeOK, NEW r \in Run, NEW f \in File, Executes(r, f)
    PROVE  /\ ran' \subseteq Run \X (Run \cup {None})
           /\ \A x \in ran' : \/ x \in ran
                              \/ /\ x = <<r, tornBy[f]>>
                                 /\ file[f] = "torn" /\ ~Written(f)
BY DEF Executes, Executable, TypeOK

LEMMA SpawnTyped ==
    ASSUME TypeOK, NEW d \in Daemon, NEW exe \in {"path", "bin"}, Spawn(d, exe)
    PROVE  /\ dpc' \in [Daemon -> DaemonPC]
           /\ dexe' \in [Daemon -> {"none", "path", "bin"}]
           /\ UNCHANGED socket
           /\ dpc[d] = "off" /\ socket # d
           /\ UNCHANGED dpc \/ dpc' = [dpc EXCEPT ![d] = "started"]
<1>1. /\ UNCHANGED socket /\ dpc[d] = "off" /\ socket # d
  BY DEF Spawn, Free
<1>2. \/ UNCHANGED <<dpc, dexe>>
      \/ dpc' = [dpc EXCEPT ![d] = "started"] /\ dexe' = [dexe EXCEPT ![d] = exe]
  BY DEF Spawn
<1>3. dpc \in [Daemon -> DaemonPC] /\ dexe \in [Daemon -> {"none", "path", "bin"}]
  BY DEF TypeOK
<1>4. QED BY <1>1, <1>2, <1>3 DEF DaemonPC

-----------------------------------------------------------------------------
\* Types.

LEMMA TypeInit == Init => TypeOK
<1>1. 0 \in 0 .. Len(Embedded) /\ 0 \in 0 .. MaxFaults
  BY EmbeddedAssumption, BoundAssumption
<1>2. SUFFICES ASSUME Init PROVE TypeOK
  OBVIOUS
<1>3. /\ file \in [File -> {"none", "torn", "whole"}]
      /\ truncator \in [File -> Run \cup {None}]
      /\ tornBy \in [File -> Run \cup {None}]
      /\ socket \in Daemon \cup {None}
      /\ dpc \in [Daemon -> DaemonPC]
      /\ dexe \in [Daemon -> {"none", "path", "bin"}]
  BY <1>2 DEF Init, DaemonPC
<1>4. /\ pc \in [Run -> RunPC] /\ item \in [Run -> 0 .. Len(Embedded)]
      /\ reached \in [Run -> BOOLEAN] /\ peer \in [Run -> Daemon \cup {None}]
      /\ nxpk \in [Run -> {"none", "path", "bin"}] /\ why \in [Run -> Reason]
      /\ ran \subseteq Run \X (Run \cup {None}) /\ faults \in 0 .. MaxFaults
  BY <1>1, <1>2 DEF Init, RunPC, Reason
<1>5. \A r \in Run : pc[r] = "idle" /\ peer[r] = None /\ why[r] = "none"
  BY <1>2 DEF Init
<1>6. QED BY <1>3, <1>4, <1>5 DEF TypeOK

LEMMA StubTyped ==
    ASSUME TypeOK, NEW r \in Run, StubStep(r)
    PROVE  TypeOK'
<1> USE DEF RunPC, bin, daemon
<1>1. CASE Connect(r)
  BY <1>1, AtTyped DEF Connect, Serves, TypeOK
<1>2. CASE FoundInPath(r)
  BY <1>2, AtTyped DEF FoundInPath, TypeOK
<1>3. CASE Bootstrap(r)
  <2>1. CASE Embedded = <<>>
    BY <1>3, <2>1, FailsTyped DEF Bootstrap, Reason, TypeOK
  <2>2. CASE Embedded # <<>>
    <3>1. 1 \in 0 .. Len(Embedded)
      <4>1. Len(Embedded) \in Nat /\ Len(Embedded) # 0
        BY <2>2, EmbeddedAssumption
      <4>2. QED BY <4>1
    <3>2. QED BY <1>3, <2>2, <3>1, AtTyped DEF Bootstrap, TypeOK
  <2>3. QED BY <2>1, <2>2
<1>4. CASE OpenFile(r)
  <2>1. pc[r] = "open" /\ Embedded[item[r]] \in File /\ item[r] # 0
    BY <1>4, AtTyped, ItemTyped DEF OpenFile, TypeOK
  <2>2. QED BY <1>4, <2>1, AtTyped DEF OpenFile, TypeOK
<1>5. CASE OpenFileFails(r)
  BY <1>5, FailsTyped DEF OpenFileFails, Reason, TypeOK
<1>6. CASE WriteFile(r)
  <2>1. pc[r] = "write" /\ Embedded[item[r]] \in File /\ item[r] \in DOMAIN Embedded
    BY <1>6, ItemTyped DEF WriteFile
  <2>2. /\ truncator' \in [File -> Run \cup {None}]
        /\ file' \in [File -> {"none", "torn", "whole"}]
        /\ tornBy' \in [File -> Run \cup {None}]
    BY <1>6, <2>1 DEF WriteFile, Stops, TypeOK
  <2>3. /\ item' \in [Run -> 0 .. Len(Embedded)]
        /\ \A x \in Run : pc'[x] \in {"open", "write"} => item'[x] # 0
        /\ pc' \in [Run -> RunPC]
        /\ pc'[r] \notin {"served", "failed"}
        /\ \A x \in Run : x # r => pc'[x] = pc[x]
    <3>1. CASE item[r] < Len(Embedded)
      <4>1. item[r] + 1 \in 0 .. Len(Embedded) /\ item[r] + 1 # 0
        BY <2>1, <3>1, EmbeddedAssumption
      <4>2. item' = [item EXCEPT ![r] = @ + 1] /\ At(r, "write", "open")
        BY <1>6, <3>1 DEF WriteFile, NextFile
      <4>3. QED BY <4>1, <4>2, AtTyped DEF TypeOK
    <3>2. CASE ~(item[r] < Len(Embedded))
      <4>1. UNCHANGED item /\ At(r, "write", "fork")
        BY <1>6, <3>2 DEF WriteFile, NextFile
      <4>2. QED BY <4>1, AtTyped DEF TypeOK
    <3>3. QED BY <3>1, <3>2
  <2>4. QED BY <1>6, <2>1, <2>2, <2>3 DEF WriteFile, TypeOK
<1>7. CASE ForkFails(r)
  BY <1>7, FailsTyped DEF ForkFails, Reason, TypeOK
<1>8. ASSUME NEW d \in Daemon, Fork(r, d) PROVE TypeOK'
  <2>1. /\ dpc' \in [Daemon -> DaemonPC]
        /\ dexe' \in [Daemon -> {"none", "path", "bin"}]
        /\ UNCHANGED socket
    BY <1>8, SpawnTyped DEF Fork
  <2>2. ran' \subseteq Run \X (Run \cup {None})
    BY <1>8, ExecutesTyped DEF Fork, File
  <2>3. QED BY <1>8, <2>1, <2>2, AtTyped DEF Fork, TypeOK
<1>9. CASE Sleep(r)
  <2>1. \E next \in {"exec", "reconnect"} : At(r, "sleep", next)
    BY <1>9 DEF Sleep
  <2>2. PICK next \in {"exec", "reconnect"} : At(r, "sleep", next)
    BY <2>1
  <2>3. 0 \in 0 .. Len(Embedded)
    BY EmbeddedAssumption
  <2>4. QED BY <1>9, <2>2, <2>3, AtTyped DEF Sleep, TypeOK
<1>10. CASE Reconnect(r)
  BY <1>10, AtTyped DEF Reconnect, TypeOK
<1>11. CASE ReconnectFails(r)
  BY <1>11, FailsTyped DEF ReconnectFails, Reason, TypeOK
<1>12. CASE Exec(r)
  BY <1>12, AtTyped DEF Exec, TypeOK
<1>13. CASE ExecFails(r)
  <2>1. ran' \subseteq Run \X (Run \cup {None})
    BY <1>13, ExecutesTyped DEF ExecFails, File
  <2>2. QED BY <1>13, <2>1, FailsTyped DEF ExecFails, Reason, TypeOK
<1>14. QED
  BY <1>1, <1>2, <1>3, <1>4, <1>5, <1>6, <1>7, <1>8, <1>9, <1>10, <1>11, <1>12,
     <1>13 DEF StubStep

LEMMA RunTyped ==
    ASSUME TypeOK, NEW r \in Run, RunStep(r) \/ Answered(r)
    PROVE  TypeOK'
<1> USE DEF RunPC, bin, daemon
<1>1. CASE CheckSocket(r)
  <2>1. PICK next \in {"dial", "start"} : At(r, "socket", next)
    BY <1>1 DEF CheckSocket
  <2>2. QED BY <1>1, <2>1, AtTyped DEF CheckSocket, TypeOK
<1>2. CASE StartFails(r)
  <2>1. ran' \subseteq Run \X (Run \cup {None})
    <3>1. CASE UNCHANGED ran
      BY <3>1 DEF TypeOK
    <3>2. CASE Executes(r, "nexpackd")
      BY <3>2, ExecutesTyped DEF File
    <3>3. QED BY <1>2, <3>1, <3>2 DEF StartFails
  <2>2. QED BY <1>2, <2>1, FailsTyped DEF StartFails, Reason, TypeOK
<1>3. ASSUME NEW d \in Daemon, StartDaemon(r, d) PROVE TypeOK'
  <2>1. /\ dpc' \in [Daemon -> DaemonPC]
        /\ dexe' \in [Daemon -> {"none", "path", "bin"}]
        /\ UNCHANGED socket
    <3>1. CASE nxpk[r] \in {"path", "bin"}
      BY <1>3, <3>1, SpawnTyped DEF StartDaemon
    <3>2. CASE nxpk[r] = "none"
      <4>1. Spawn(d, "none")
        BY <1>3, <3>2 DEF StartDaemon
      <4>2. UNCHANGED socket /\ dpc' = [dpc EXCEPT ![d] = "started"]
            /\ dexe' = [dexe EXCEPT ![d] = "none"]
        BY <4>1 DEF Spawn
      <4>3. QED BY <4>2 DEF TypeOK, DaemonPC
    <3>3. QED BY <3>1, <3>2 DEF TypeOK
  <2>2. ran' \subseteq Run \X (Run \cup {None})
    <3>1. CASE UNCHANGED ran
      BY <3>1 DEF TypeOK
    <3>2. CASE Executes(r, "nexpackd")
      BY <3>2, ExecutesTyped DEF File
    <3>3. QED BY <1>3, <3>1, <3>2 DEF StartDaemon
  <2>3. QED BY <1>3, <2>1, <2>2, AtTyped DEF StartDaemon, TypeOK
<1>4. CASE SocketAppears(r)
  BY <1>4, AtTyped DEF SocketAppears, TypeOK
<1>5. CASE WaitTimesOut(r)
  BY <1>5, FailsTyped DEF WaitTimesOut, Reason, TypeOK
<1>6. CASE Dial(r)
  <2>1. socket \in Daemon /\ socket # None
    BY <1>6 DEF Dial, Serves, TypeOK
  <2>2. /\ peer' \in [Run -> Daemon \cup {None}]
        /\ peer'[r] # None /\ \A x \in Run : x # r => peer'[x] = peer[x]
    BY <1>6, <2>1 DEF Dial, TypeOK
  <2>3. QED BY <1>6, <2>2, AtTyped DEF Dial, TypeOK
<1>7. CASE DialFails(r)
  BY <1>7, FailsTyped DEF DialFails, Reason, TypeOK
<1>8. CASE Launch(r)
  <2>1. 0 \in 0 .. Len(Embedded)
    BY EmbeddedAssumption
  <2>2. /\ pc[r] = "served" /\ pc' \in [Run -> RunPC] /\ pc'[r] = "launched"
        /\ \A x \in Run : x # r => pc'[x] = pc[x]
    BY <1>8, AtTyped DEF Launch
  <2>3. /\ peer' \in [Run -> Daemon \cup {None}] /\ peer'[r] = None
        /\ \A x \in Run : x # r => peer'[x] = peer[x] /\ item'[x] = item[x]
        /\ item' \in [Run -> 0 .. Len(Embedded)]
    BY <1>8, <2>1 DEF Launch, TypeOK
  <2>4. QED BY <1>8, <2>2, <2>3 DEF Launch, TypeOK
<1>9. CASE NotMounted(r)
  BY <1>9, FailsTyped DEF NotMounted, Reason, TypeOK
<1>10. CASE BundleRefused(r)
  BY <1>10, FailsTyped DEF BundleRefused, Reason, TypeOK
<1>11. CASE ConnectionLost(r)
  BY <1>11, FailsTyped DEF ConnectionLost, Reason, TypeOK
<1>12. QED
  BY <1>1, <1>2, <1>3, <1>4, <1>5, <1>6, <1>7, <1>8, <1>9, <1>10, <1>11
  DEF RunStep, Answered

\* A fault is counted.
LEMMA FaultTyped ==
    ASSUME TypeOK, faults < MaxFaults, faults' = faults + 1
    PROVE  faults' \in 0 .. MaxFaults /\ faults' # 0
BY BoundAssumption DEF TypeOK

LEMMA DaemonTyped ==
    ASSUME TypeOK, NEW d \in Daemon, DaemonStep(d) \/ Die(d)
    PROVE  TypeOK'
<1> USE DEF DaemonPC, DaemonAt, launch, bin
<1>1. CASE RemoveSocket(d)
  BY <1>1 DEF RemoveSocket, TypeOK
<1>2. CASE Bind(d)
  BY <1>2 DEF Bind, TypeOK
<1>3. CASE BindFails(d)
  BY <1>3 DEF BindFails, TypeOK
<1>4. CASE Listen(d)
  BY <1>4 DEF Listen, TypeOK
<1>5. CASE Die(d)
  <2>1. faults' \in 0 .. MaxFaults
    BY <1>5, FaultTyped DEF Die
  <2>2. QED BY <1>5, <2>1 DEF Die, TypeOK
<1>6. QED BY <1>1, <1>2, <1>3, <1>4, <1>5 DEF DaemonStep

\* Who stops half way through a file has its name beside it.
LEMMA HalfwayTyped ==
    ASSUME TypeOK, NEW r \in Run, pc[r] = "write",
           StopsHalfway(r, Embedded[item[r]])
    PROVE  /\ truncator' \in [File -> Run \cup {None}]
           /\ tornBy' \in [File -> Run \cup {None}]
BY ItemTyped DEF StopsHalfway, Stops, TypeOK

LEMMA EndTyped ==
    ASSUME TypeOK, NEW r \in Run,
           Begin(r) \/ Over(r) \/ WriteFileFails(r) \/ Kill(r)
    PROVE  TypeOK'
<1> USE DEF bin, daemon
<1>1. CASE Begin(r)
  BY <1>1, AtTyped DEF Begin, RunPC, TypeOK
<1>2. CASE Over(r)
  <2>1. PICK l \in {"launched", "failed"} : At(r, l, "idle")
    BY <1>2 DEF Over
  <2>2. /\ why' \in [Run -> Reason] /\ why'[r] = "none"
        /\ \A x \in Run : x # r => why'[x] = why[x]
    BY <1>2 DEF Over, Reason, TypeOK
  <2>3. QED BY <1>2, <2>1, <2>2, AtTyped DEF Over, RunPC, TypeOK
<1>3. CASE WriteFileFails(r)
  <2>1. faults' \in 0 .. MaxFaults
    BY <1>3, FaultTyped DEF WriteFileFails
  <2>2. pc[r] = "write"
    BY <1>3, FailsTyped DEF WriteFileFails, Reason
  <2>3. truncator' \in [File -> Run \cup {None}] /\ tornBy' \in [File -> Run \cup {None}]
    BY <1>3, <2>2, HalfwayTyped DEF WriteFileFails
  <2>4. QED BY <1>3, <2>1, <2>3, FailsTyped DEF WriteFileFails, Reason, TypeOK
<1>4. CASE Kill(r)
  <2>1. faults' \in 0 .. MaxFaults
    BY <1>4, FaultTyped DEF Kill
  <2>2. truncator' \in [File -> Run \cup {None}] /\ tornBy' \in [File -> Run \cup {None}]
    <3>1. CASE pc[r] = "write"
      BY <1>4, <3>1, HalfwayTyped DEF Kill
    <3>2. CASE pc[r] # "write"
      BY <1>4, <3>2 DEF Kill, TypeOK
    <3>3. QED BY <3>1, <3>2
  <2>3. QED BY <1>4, <2>1, <2>2, FailsTyped DEF Kill, Reason, TypeOK
<1>5. QED BY <1>1, <1>2, <1>3, <1>4

LEMMA TypeStep == TypeOK /\ [Next]_vars => TypeOK'
<1>1. SUFFICES ASSUME TypeOK, [Next]_vars PROVE TypeOK'
  OBVIOUS
<1>2. CASE UNCHANGED vars
  BY <1>1, <1>2 DEF vars, launch, bin, daemon, TypeOK
<1>3. QED
  BY <1>1, <1>2, StubTyped, RunTyped, DaemonTyped, EndTyped DEF Next

\* Whatever launches and daemons do, the files, the socket and the place of
\* each of them keep their type; a launch that extracts has a file to extract,
\* and one that waits for an answer knows from whom (stub.c, run.rs, main.rs).
THEOREM TypeCorrect == Spec => []TypeOK
BY TypeInit, TypeStep, PTL DEF Spec

-----------------------------------------------------------------------------
\* The inductive invariant behind TornByAnother.  Whoever last emptied a file
\* is still writing it, or it has left its name beside the torn file when it
\* stopped; and a launch that gets as far as executing something has opened
\* every file of the bundle since, which took its name away.

Writes(r, f) == pc[r] = "write" /\ Embedded[item[r]] = f

\* r may execute what is in bin/.
Ready(r) == pc[r] \in {"fork", "sleep", "reconnect", "exec"} \/ nxpk[r] = "bin"

\* Before r executes anything of bin/, it opens f.
StillToOpen(r, f) ==
    /\ ~Ready(r)
    /\ pc[r] = "open" => \E i \in item[r] .. Len(Embedded) : Embedded[i] = f
    /\ pc[r] = "write" => \E i \in (item[r] + 1) .. Len(Embedded) : Embedded[i] = f

Blamed ==
    /\ \A f \in File : truncator[f] # None => Writes(truncator[f], f)
    /\ \A f \in File : file[f] = "torn" => truncator[f] # None \/ tornBy[f] # None
    /\ \A f \in File : tornBy[f] # None => \E i \in DOMAIN Embedded : Embedded[i] = f
    /\ \A f \in File, r \in Run : tornBy[f] = r => StillToOpen(r, f)

LEMMA BlamedInit == Init => Blamed
<1>1. SUFFICES ASSUME Init PROVE Blamed
  OBVIOUS
<1>2. \A f \in File : truncator[f] = None /\ tornBy[f] = None /\ file[f] = "none"
  BY <1>1 DEF Init
<1>3. \A f \in File, r \in Run : tornBy[f] # r
  BY <1>2, NoneAssumption
<1>4. QED BY <1>2, <1>3 DEF Blamed

\* A launch that leaves the files alone, and is not writing, keeps Blamed when
\* it is no nearer to executing them, or starts with the first of them.
LEMMA BlamedOutside ==
    ASSUME TypeOK, Blamed, NEW r \in Run, UNCHANGED bin, pc[r] # "write",
           \A x \in Run : x # r => /\ pc'[x] = pc[x] /\ nxpk'[x] = nxpk[x]
                                   /\ item'[x] = item[x],
           ~Ready(r) => /\ ~Ready(r)' /\ pc'[r] # "write"
                        /\ pc'[r] = "open" => item'[r] = 1
    PROVE  Blamed'
<1>1. \A f \in File : truncator'[f] # None => Writes(truncator[f], f)'
  BY DEF bin, Blamed, Writes, TypeOK
<1>2. ASSUME NEW f \in File, NEW x \in Run, tornBy'[f] = x
      PROVE  StillToOpen(x, f)'
  <2>1. tornBy[f] = x /\ StillToOpen(x, f)
    BY <1>2 DEF bin, Blamed
  <2>2. CASE x # r
    BY <2>1, <2>2 DEF StillToOpen, Ready
  <2>3. CASE x = r
    <3>1. ~Ready(r)' /\ pc'[r] # "write" /\ (pc'[r] = "open" => item'[r] = 1)
      BY <2>1, <2>3 DEF StillToOpen
    <3>2. \E i \in DOMAIN Embedded : Embedded[i] = f
      BY <2>1, NoneAssumption DEF Blamed
    <3>3. \E i \in 1 .. Len(Embedded) : Embedded[i] = f
      BY <3>2, EmbeddedAssumption
    <3>4. QED BY <2>3, <3>1, <3>3 DEF StillToOpen
  <2>4. QED BY <2>2, <2>3
<1>3. QED BY <1>1, <1>2 DEF bin, Blamed

\* A launch that has opened a file is no longer the one that left it torn.
LEMMA BlamedOpen ==
    ASSUME TypeOK, Blamed, NEW r \in Run, OpenFile(r)
    PROVE  Blamed'
<1> DEFINE f == Embedded[item[r]]
<1>1. /\ pc[r] = "open" /\ pc'[r] = "write" /\ f \in File /\ item[r] \in DOMAIN Embedded
      /\ \A x \in Run : x # r => pc'[x] = pc[x]
      /\ UNCHANGED <<item, nxpk>>
  BY AtTyped, ItemTyped DEF OpenFile, RunPC
<1>2. /\ file' = [file EXCEPT ![f] = "torn"]
      /\ truncator' = [truncator EXCEPT ![f] = r]
      /\ tornBy' = [tornBy EXCEPT ![f] = None]
  BY DEF OpenFile
<1>3. \A g \in File : truncator'[g] # None => Writes(truncator[g], g)'
  BY <1>1, <1>2 DEF Blamed, Writes, TypeOK
<1>4. \A g \in File : file'[g] = "torn" => truncator'[g] # None \/ tornBy'[g] # None
  BY <1>1, <1>2, NoneAssumption DEF Blamed, TypeOK
<1>5. \A g \in File : tornBy'[g] # None => \E i \in DOMAIN Embedded : Embedded[i] = g
  BY <1>1, <1>2 DEF Blamed, TypeOK
<1>6. ASSUME NEW g \in File, NEW x \in Run, tornBy'[g] = x
      PROVE  StillToOpen(x, g)'
  <2>1. g # f /\ tornBy[g] = x /\ StillToOpen(x, g)
    BY <1>1, <1>2, <1>6, NoneAssumption DEF Blamed, TypeOK
  <2>2. CASE x # r
    BY <1>1, <2>1, <2>2 DEF StillToOpen, Ready
  <2>3. CASE x = r
    <3>1. PICK i \in item[r] .. Len(Embedded) : Embedded[i] = g
      BY <1>1, <2>1, <2>3 DEF StillToOpen
    <3>2. i # item[r] /\ item[r] \in Nat /\ Len(Embedded) \in Nat
      BY <1>1, <2>1, <3>1, EmbeddedAssumption
    <3>3. i \in (item[r] + 1) .. Len(Embedded)
      BY <3>1, <3>2
    <3>4. ~Ready(r)'
      BY <1>1, <2>1, <2>3 DEF StillToOpen, Ready
    <3>5. QED BY <1>1, <2>3, <3>1, <3>3, <3>4 DEF StillToOpen
  <2>4. QED BY <2>2, <2>3
<1>7. QED BY <1>3, <1>4, <1>5, <1>6 DEF Blamed

LEMMA BlamedWrite ==
    ASSUME TypeOK, Blamed, NEW r \in Run, WriteFile(r)
    PROVE  Blamed'
<1> DEFINE f == Embedded[item[r]]
<1>1. /\ pc[r] = "write" /\ f \in File /\ item[r] \in DOMAIN Embedded
      /\ Stops(r, f) /\ UNCHANGED nxpk
      /\ \/ file' = [file EXCEPT ![f] = "whole"] /\ tornBy' = [tornBy EXCEPT ![f] = None]
         \/ truncator[f] # r /\ UNCHANGED <<file, tornBy>>
  BY ItemTyped DEF WriteFile
<1>2. /\ \A x \in Run : x # r => pc'[x] = pc[x] /\ item'[x] = item[x]
      /\ \/ /\ item[r] < Len(Embedded) /\ pc'[r] = "open" /\ item'[r] = item[r] + 1
         \/ ~(item[r] < Len(Embedded)) /\ pc'[r] = "fork"
  BY AtTyped DEF WriteFile, NextFile, RunPC, TypeOK
<1>3. \A g \in File : /\ truncator'[g] # r
                      /\ truncator'[g] # None => truncator'[g] = truncator[g]
                      /\ truncator'[g] = None => truncator[g] \in {None, r}
                      /\ truncator'[g] # truncator[g] => g = f
  <2>1. truncator' = [truncator EXCEPT ![f] = IF @ = r THEN None ELSE @]
    BY <1>1 DEF Stops
  <2>2. \A g \in File : truncator[g] = r => g = f
    BY NoneAssumption DEF Blamed, Writes
  <2>3. QED BY <1>1, <2>1, <2>2, NoneAssumption DEF TypeOK
<1>4. \A g \in File : truncator'[g] # None => Writes(truncator[g], g)'
  BY <1>2, <1>3 DEF Blamed, Writes, TypeOK
<1>5. \A g \in File : file'[g] = "torn" => truncator'[g] # None \/ tornBy'[g] # None
  BY <1>1, <1>3 DEF Blamed, Stops, TypeOK
<1>6. \A g \in File : tornBy'[g] # None => tornBy'[g] = tornBy[g]
  BY <1>1 DEF TypeOK
<1>7. ASSUME NEW g \in File, NEW x \in Run, tornBy'[g] = x
      PROVE  StillToOpen(x, g)'
  <2>1. tornBy[g] = x /\ StillToOpen(x, g)
    BY <1>6, <1>7, NoneAssumption DEF Blamed
  <2>2. CASE x # r
    BY <1>1, <1>2, <2>1, <2>2 DEF StillToOpen, Ready
  <2>3. CASE x = r
    <3>1. PICK i \in (item[r] + 1) .. Len(Embedded) : Embedded[i] = g
      BY <1>1, <2>1, <2>3 DEF StillToOpen
    <3>2. item[r] < Len(Embedded)
      BY <1>1, <3>1, EmbeddedAssumption
    <3>3. pc'[r] = "open" /\ item'[r] = item[r] + 1
      BY <1>2, <3>2
    <3>4. ~Ready(r)'
      BY <1>1, <2>1, <2>3, <3>3 DEF StillToOpen, Ready
    <3>5. QED BY <2>3, <3>1, <3>3, <3>4 DEF StillToOpen
  <2>4. QED BY <2>2, <2>3
<1>8. QED BY <1>4, <1>5, <1>6, <1>7 DEF Blamed

\* A launch that fails while it writes leaves its name, and starts again.
LEMMA BlamedHalfway ==
    ASSUME TypeOK, Blamed, NEW r \in Run, NEW l, NEW reason \in Reason,
           reason # "none", pc[r] = "write", Fails(r, l, reason),
           StopsHalfway(r, Embedded[item[r]]), UNCHANGED file
    PROVE  Blamed'
<1> DEFINE f == Embedded[item[r]]
<1>1. /\ f \in File /\ item[r] \in DOMAIN Embedded
      /\ truncator' = [truncator EXCEPT ![f] = IF @ = r THEN None ELSE @]
      /\ tornBy' = [tornBy EXCEPT ![f] = IF file[f] = "torn" THEN r ELSE @]
  BY ItemTyped DEF StopsHalfway, Stops
<1>2. /\ pc'[r] = "failed" /\ nxpk'[r] = "none"
      /\ \A x \in Run : x # r => /\ pc'[x] = pc[x] /\ nxpk'[x] = nxpk[x]
                                /\ item'[x] = item[x]
  BY FailsTyped
<1>3. \A g \in File : truncator'[g] # r /\ (truncator'[g] # None => truncator'[g] = truncator[g])
  BY <1>1, NoneAssumption DEF Blamed, Writes, TypeOK
<1>4. \A g \in File : truncator'[g] # None => Writes(truncator[g], g)'
  BY <1>2, <1>3 DEF Blamed, Writes, TypeOK
<1>5. \A g \in File : file'[g] = "torn" => truncator'[g] # None \/ tornBy'[g] # None
  BY <1>1, NoneAssumption DEF Blamed, TypeOK
<1>6. \A g \in File : tornBy'[g] # None => \E i \in DOMAIN Embedded : Embedded[i] = g
  BY <1>1 DEF Blamed, TypeOK
<1>7. ASSUME NEW g \in File, NEW x \in Run, tornBy'[g] = x
      PROVE  StillToOpen(x, g)'
  <2>1. CASE x = r
    BY <1>2, <2>1 DEF StillToOpen, Ready
  <2>2. CASE x # r
    <3>1. tornBy[g] = x
      BY <1>1, <1>7, <2>2 DEF TypeOK
    <3>2. StillToOpen(x, g)
      BY <3>1 DEF Blamed
    <3>3. QED BY <1>2, <2>2, <3>2 DEF StillToOpen, Ready
  <2>3. QED BY <2>1, <2>2
<1>8. QED BY <1>4, <1>5, <1>6, <1>7 DEF Blamed

\* The steps of a launch that leave the files alone.
LEMMA BlamedElsewhere ==
    ASSUME TypeOK, Blamed, NEW r \in Run,
           \/ Begin(r) \/ Over(r) \/ RunStep(r) \/ Answered(r) \/ Connect(r)
           \/ FoundInPath(r) \/ Bootstrap(r) \/ OpenFileFails(r) \/ ForkFails(r)
           \/ \E d \in Daemon : Fork(r, d)
           \/ Sleep(r) \/ Reconnect(r) \/ ReconnectFails(r) \/ Exec(r) \/ ExecFails(r)
    PROVE  Blamed'
<1>1. UNCHANGED bin /\ pc[r] # "write"
  BY DEF RunStep, Begin, Over, Connect, FoundInPath, Bootstrap, OpenFileFails, ForkFails,
     Fork, Sleep, Reconnect, ReconnectFails, Exec, ExecFails, CheckSocket, StartFails,
     StartDaemon, SocketAppears, WaitTimesOut, Dial, DialFails, Launch, NotMounted,
     BundleRefused, ConnectionLost, Answered, Fails, At
<1>2. \A x \in Run : x # r => /\ pc'[x] = pc[x] /\ nxpk'[x] = nxpk[x]
                              /\ item'[x] = item[x]
  BY DEF RunStep, Begin, Over, Connect, FoundInPath, Bootstrap, OpenFileFails, ForkFails,
     Fork, Sleep, Reconnect, ReconnectFails, Exec, ExecFails, CheckSocket, StartFails,
     StartDaemon, SocketAppears, WaitTimesOut, Dial, DialFails, Launch, NotMounted,
     BundleRefused, ConnectionLost, Answered, Fails, At, TypeOK
<1>3. ASSUME ~Ready(r)
      PROVE  /\ ~Ready(r)' /\ pc'[r] # "write"
             /\ pc'[r] = "open" => item'[r] = 1
  <2>1. CASE Begin(r) \/ Over(r) \/ Connect(r) \/ FoundInPath(r)
    BY <1>3, <2>1 DEF Ready, Begin, Over, Connect, FoundInPath, At, TypeOK
  <2>2. CASE \/ OpenFileFails(r) \/ ForkFails(r) \/ ReconnectFails(r) \/ ExecFails(r)
             \/ StartFails(r) \/ WaitTimesOut(r) \/ DialFails(r) \/ NotMounted(r)
             \/ BundleRefused(r) \/ ConnectionLost(r)
    <3>1. nxpk'[r] = "none" /\ pc'[r] = "failed"
      BY <2>2 DEF OpenFileFails, ForkFails, ReconnectFails, ExecFails, StartFails,
         WaitTimesOut, DialFails, NotMounted, BundleRefused, ConnectionLost, Fails, At,
         TypeOK
    <3>2. QED BY <3>1 DEF Ready
  <2>3. CASE Bootstrap(r)
    <3>1. \/ nxpk'[r] = "none" /\ pc'[r] = "failed"
          \/ UNCHANGED nxpk /\ pc'[r] = "open" /\ item'[r] = 1
      BY <2>3 DEF Bootstrap, Fails, At, TypeOK
    <3>2. QED BY <1>3, <3>1 DEF Ready
  <2>4. CASE \/ Sleep(r) \/ Reconnect(r) \/ Exec(r) \/ \E d \in Daemon : Fork(r, d)
    BY <1>3, <2>4 DEF Ready, Sleep, Reconnect, Exec, Fork, At
  <2>5. CASE \/ CheckSocket(r) \/ SocketAppears(r) \/ Dial(r)
             \/ \E d \in Daemon : StartDaemon(r, d)
    BY <1>3, <2>5 DEF Ready, CheckSocket, SocketAppears, Dial, StartDaemon, At, TypeOK
  <2>6. CASE Launch(r)
    BY <1>3, <2>6 DEF Ready, Launch, At, TypeOK
  <2>7. QED BY <2>1, <2>2, <2>3, <2>4, <2>5, <2>6 DEF RunStep, Answered
<1>4. QED BY <1>1, <1>2, <1>3, BlamedOutside

LEMMA BlamedStep == TypeOK /\ Blamed /\ [Next]_vars => Blamed'
<1>1. SUFFICES ASSUME TypeOK, Blamed, [Next]_vars PROVE Blamed'
  OBVIOUS
<1>2. ASSUME NEW r \in Run, Begin(r) \/ StubStep(r) \/ RunStep(r) \/ Answered(r) \/ Over(r)
      PROVE  Blamed'
  BY <1>1, <1>2, BlamedElsewhere, BlamedOpen, BlamedWrite DEF StubStep
<1>3. ASSUME NEW r \in Run, WriteFileFails(r) PROVE Blamed'
  <2>1. pc[r] = "write" /\ StopsHalfway(r, Embedded[item[r]]) /\ UNCHANGED file
        /\ Fails(r, "write", "extract")
    BY <1>3 DEF WriteFileFails, Fails, At
  <2>2. QED BY <1>1, <2>1, BlamedHalfway DEF Reason
<1>4. ASSUME NEW r \in Run, Kill(r) PROVE Blamed'
  <2>1. Fails(r, pc[r], "killed") /\ UNCHANGED file
    BY <1>4 DEF Kill
  <2>2. CASE pc[r] = "write"
    <3>1. StopsHalfway(r, Embedded[item[r]])
      BY <1>4, <2>2 DEF Kill
    <3>2. QED BY <1>1, <2>1, <2>2, <3>1, BlamedHalfway DEF Reason
  <2>3. CASE pc[r] # "write"
    <3>1. UNCHANGED bin
      BY <1>4, <2>3 DEF Kill, bin
    <3>2. /\ pc'[r] = "failed" /\ nxpk'[r] = "none"
          /\ \A x \in Run : x # r => /\ pc'[x] = pc[x] /\ nxpk'[x] = nxpk[x]
                                    /\ item'[x] = item[x]
      BY <1>1, <2>1, FailsTyped DEF Reason
    <3>3. ~Ready(r)'
      BY <3>2 DEF Ready
    <3>4. QED BY <1>1, <2>3, <3>1, <3>2, <3>3, BlamedOutside
  <2>4. QED BY <2>2, <2>3
<1>5. CASE UNCHANGED <<launch, bin>>
  BY <1>1, <1>5 DEF launch, bin, Blamed, Writes, StillToOpen, Ready
<1>6. ASSUME NEW d \in Daemon, DaemonStep(d) \/ Die(d) PROVE UNCHANGED <<launch, bin>>
  BY <1>6 DEF DaemonStep, RemoveSocket, Bind, BindFails, Listen, Die
<1>7. QED BY <1>1, <1>2, <1>3, <1>4, <1>5, <1>6 DEF Next, vars

\* Whoever executes a torn file can blame another launch for it.
LEMMA ExecutesBlamed ==
    ASSUME TypeOK, Blamed, TornByAnother, NEW r \in Run, NEW f \in File,
           Ready(r), Executes(r, f)
    PROVE  TornByAnother'
<1>1. SUFFICES ASSUME file[f] = "torn", ~Written(f)
               PROVE  tornBy[f] \notin {None, r}
  BY ExecutesTyped DEF TornByAnother
<1>2. truncator[f] = None
  BY <1>1, NoneAssumption DEF Blamed, Writes, Written, TypeOK
<1>3. QED BY <1>1, <1>2 DEF Blamed, StillToOpen

LEMMA BlameStep ==
    TypeOK /\ Blamed /\ TornByAnother /\ [Next]_vars => TornByAnother'
<1>1. SUFFICES ASSUME TypeOK, Blamed, TornByAnother, [Next]_vars PROVE TornByAnother'
  OBVIOUS
<1>2. CASE UNCHANGED ran
  BY <1>1, <1>2 DEF TornByAnother
<1>3. ASSUME NEW r \in Run, NEW d \in Daemon, Fork(r, d) PROVE TornByAnother'
  BY <1>1, <1>3, ExecutesBlamed DEF Fork, At, Ready, File
<1>4. ASSUME NEW r \in Run, ExecFails(r) PROVE TornByAnother'
  BY <1>1, <1>4, ExecutesBlamed DEF ExecFails, Fails, At, Ready, File
<1>5. ASSUME NEW r \in Run, NEW d \in Daemon, StartDaemon(r, d) PROVE TornByAnother'
  BY <1>1, <1>2, <1>5, ExecutesBlamed DEF StartDaemon, Ready, File
<1>6. ASSUME NEW r \in Run, StartFails(r) PROVE TornByAnother'
  BY <1>1, <1>2, <1>6, ExecutesBlamed DEF StartFails, Ready, File
<1>7. ASSUME NEW r \in Run,
             \/ Begin(r) \/ Answered(r) \/ Over(r) \/ WriteFileFails(r) \/ Kill(r)
             \/ StubStep(r) /\ ~ExecFails(r) /\ ~\E d \in Daemon : Fork(r, d)
             \/ RunStep(r) /\ ~StartFails(r) /\ ~\E d \in Daemon : StartDaemon(r, d)
      PROVE  UNCHANGED ran
  BY <1>7 DEF StubStep, RunStep, Begin, Over, WriteFileFails, Kill, Connect, FoundInPath,
     Bootstrap, OpenFile, OpenFileFails, WriteFile, ForkFails, Sleep, Reconnect,
     ReconnectFails, Exec, CheckSocket, SocketAppears, WaitTimesOut, Dial, DialFails,
     Launch, NotMounted, BundleRefused, ConnectionLost, Answered
<1>8. ASSUME NEW d \in Daemon, DaemonStep(d) \/ Die(d) PROVE UNCHANGED ran
  BY <1>8 DEF DaemonStep, RemoveSocket, Bind, BindFails, Listen, Die
<1>9. QED
  BY <1>1, <1>2, <1>3, <1>4, <1>5, <1>6, <1>7, <1>8
  DEF Next, vars, StubStep, RunStep

\* Launches extract over each other's files, are killed and fail to write, in
\* any number: a torn binary is executed only when another launch stopped half
\* way through it, after this one had written its own
\* (extract_self_bootstrap and main of stub.c).
THEOREM BlameCorrect == Spec => []TornByAnother
<1>1. Init => TornByAnother
  BY DEF Init, TornByAnother
<1>2. QED BY <1>1, BlamedInit, BlamedStep, BlameStep, TypeCorrect, PTL DEF Spec

-----------------------------------------------------------------------------
\* The inductive invariant behind OneServes: while nothing is killed, a socket
\* has a living owner, and some daemon has the socket or is on its way to it.
Handover ==
    faults = 0 =>
    /\ socket # None => dpc[socket] \in {"bound", "serving"}
    /\ (\E d \in Daemon : dpc[d] # "off") =>
         socket # None \/ \E d \in Daemon : dpc[d] \in {"started", "unbound"}

\* A step of a launch starts a daemon or leaves the daemons alone.
LEMMA LaunchLeavesDaemons ==
    ASSUME TypeOK, NEW r \in Run,
           \/ Begin(r) \/ StubStep(r) \/ RunStep(r) \/ Answered(r) \/ Over(r)
           \/ WriteFileFails(r) \/ Kill(r)
    PROVE  /\ UNCHANGED socket
           /\ \/ UNCHANGED dpc
              \/ \E d \in Daemon : /\ dpc[d] = "off" /\ socket # d
                                  /\ dpc' = [dpc EXCEPT ![d] = "started"]
<1>1. ASSUME NEW d \in Daemon, NEW exe, Spawn(d, exe)
      PROVE  /\ UNCHANGED socket /\ dpc[d] = "off" /\ socket # d
             /\ UNCHANGED dpc \/ dpc' = [dpc EXCEPT ![d] = "started"]
  BY <1>1 DEF Spawn, Free
<1>2. CASE \E d \in Daemon : Fork(r, d) \/ StartDaemon(r, d)
  BY <1>1, <1>2 DEF Fork, StartDaemon
<1>3. ASSUME ~\E d \in Daemon : Fork(r, d) \/ StartDaemon(r, d)
      PROVE  UNCHANGED daemon
  BY <1>3 DEF StubStep, RunStep, Begin, Over, WriteFileFails, Kill, Connect, FoundInPath,
     Bootstrap, OpenFile, OpenFileFails, WriteFile, ForkFails, Sleep, Reconnect,
     ReconnectFails, Exec, ExecFails, CheckSocket, StartFails, SocketAppears,
     WaitTimesOut, Dial, DialFails, Launch, NotMounted, BundleRefused, ConnectionLost,
     Answered
<1>4. QED BY <1>2, <1>3 DEF daemon

LEMMA HandoverStep == TypeOK /\ Handover /\ [Next]_vars => Handover'
<1>1. SUFFICES ASSUME TypeOK, Handover, [Next]_vars, faults' = 0 PROVE Handover'
  BY DEF Handover
<1>2. CASE UNCHANGED vars
  BY <1>1, <1>2 DEF vars, daemon, Handover
<1>3. ASSUME NEW r \in Run,
             \/ Begin(r) \/ StubStep(r) \/ RunStep(r) \/ Answered(r) \/ Over(r)
             \/ WriteFileFails(r) \/ Kill(r),
             faults = 0
      PROVE  Handover'
  <2>1. CASE UNCHANGED dpc
    BY <1>1, <1>3, <2>1, LaunchLeavesDaemons DEF Handover
  <2>2. CASE ~UNCHANGED dpc
    <3>1. PICK d \in Daemon : /\ dpc[d] = "off" /\ socket # d
                              /\ dpc' = [dpc EXCEPT ![d] = "started"]
      BY <1>1, <1>3, <2>2, LaunchLeavesDaemons
    <3>2. dpc'[d] = "started" /\ \A x \in Daemon : x # d => dpc'[x] = dpc[x]
      BY <1>1, <3>1 DEF TypeOK
    <3>3. UNCHANGED socket /\ socket \in Daemon \cup {None}
      BY <1>1, <1>3, LaunchLeavesDaemons DEF TypeOK
    <3>4. QED BY <1>1, <1>3, <3>1, <3>2, <3>3 DEF Handover
  <2>3. QED BY <2>1, <2>2
<1>4. ASSUME NEW d \in Daemon, DaemonStep(d), faults = 0 PROVE Handover'
  <2>1. socket \in Daemon \cup {None} /\ dpc \in [Daemon -> DaemonPC]
        /\ (socket # None => dpc[socket] \in {"bound", "serving"})
    BY <1>1, <1>4 DEF TypeOK, Handover
  <2>2. CASE RemoveSocket(d)
    <3>1. socket' = None /\ dpc'[d] = "unbound"
      BY <2>1, <2>2 DEF RemoveSocket, DaemonAt
    <3>2. QED BY <3>1 DEF Handover
  <2>3. CASE Bind(d)
    <3>1. socket' = d /\ dpc'[d] = "bound"
      BY <2>1, <2>3 DEF Bind, DaemonAt
    <3>2. QED BY <3>1, NoneAssumption DEF Handover
  <2>4. CASE BindFails(d)
    <3>1. /\ socket # None /\ UNCHANGED socket /\ dpc[d] = "unbound"
          /\ \A x \in Daemon : x # d => dpc'[x] = dpc[x]
      BY <2>1, <2>4 DEF BindFails, DaemonAt
    <3>2. socket # d
      BY <2>1, <3>1
    <3>3. QED BY <2>1, <3>1, <3>2 DEF Handover
  <2>5. CASE Listen(d)
    <3>1. /\ UNCHANGED socket /\ dpc[d] = "bound" /\ dpc'[d] = "serving"
          /\ \A x \in Daemon : x # d => dpc'[x] = dpc[x]
      BY <2>1, <2>5 DEF Listen, DaemonAt
    <3>2. socket' # None => dpc'[socket'] \in {"bound", "serving"}
      BY <2>1, <3>1
    <3>3. socket # None \/ \E x \in Daemon : x # d /\ dpc[x] \in {"started", "unbound"}
      BY <1>1, <1>4, <3>1 DEF Handover
    <3>4. QED BY <3>1, <3>2, <3>3 DEF Handover
  <2>6. QED BY <1>4, <2>2, <2>3, <2>4, <2>5 DEF DaemonStep
<1>5. faults \in Nat /\ (UNCHANGED faults \/ faults' = faults + 1)
  <2>1. faults \in Nat
    BY <1>1, BoundAssumption DEF TypeOK
  <2>2. ASSUME NEW r \in Run, Begin(r) \/ StubStep(r) \/ RunStep(r) \/ Answered(r) \/ Over(r)
        PROVE  UNCHANGED faults
    BY <2>2 DEF StubStep, RunStep, Begin, Over, Connect, FoundInPath, Bootstrap, OpenFile,
       OpenFileFails, WriteFile, Fork, ForkFails, Sleep, Reconnect, ReconnectFails, Exec,
       ExecFails, CheckSocket, StartDaemon, StartFails, SocketAppears, WaitTimesOut, Dial,
       DialFails, Launch, NotMounted, BundleRefused, ConnectionLost, Answered
  <2>3. ASSUME NEW r \in Run, WriteFileFails(r) \/ Kill(r) PROVE faults' = faults + 1
    BY <2>3 DEF WriteFileFails, Kill
  <2>4. ASSUME NEW d \in Daemon, DaemonStep(d) PROVE UNCHANGED faults
    BY <2>4 DEF DaemonStep, RemoveSocket, Bind, BindFails, Listen
  <2>5. ASSUME NEW d \in Daemon, Die(d) PROVE faults' = faults + 1
    BY <2>5 DEF Die
  <2>6. QED BY <1>1, <2>1, <2>2, <2>3, <2>4, <2>5 DEF Next, vars
<1>6. faults = 0
  BY <1>1, <1>5
<1>7. \A d \in Daemon : ~Die(d)
  BY <1>1, <1>6 DEF Die
<1>8. QED BY <1>1, <1>2, <1>3, <1>4, <1>6, <1>7 DEF Next

\* However many daemons start at once and in whatever order they remove and
\* bind the socket, as long as none is killed the handover ends with a daemon
\* that serves at the path (main of nexpackd).
THEOREM HandoverCorrect == Spec => []OneServes
<1>1. Init => Handover
  BY NoneAssumption DEF Init, Handover
<1>2. TypeOK /\ Handover => OneServes
  BY DEF Handover, OneServes, Serves, TypeOK, DaemonPC
<1>3. QED BY <1>1, <1>2, HandoverStep, TypeCorrect, PTL DEF Spec

=============================================================================
