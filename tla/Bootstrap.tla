----------------------------- MODULE Bootstrap ------------------------------
(***************************************************************************)
(* How a bundle gets from "./app.nxpk" to a program that runs: the ELF     *)
(* stub (stub/stub.c), nxpk run (commands/run.rs) as far as it finds or    *)
(* starts a daemon, and the start of nexpackd (main.rs), which takes the   *)
(* socket over from whoever had it.  Several launches go on at once; they  *)
(* share the directory bin/, the socket path and nothing else.             *)
(*                                                                         *)
(* The kernel's part: connect succeeds when the path names a socket whose  *)
(* owner listens; bind fails when the path exists; a file that a process   *)
(* executes cannot be opened for writing, and one that is open for writing *)
(* cannot be executed.                                                     *)
(***************************************************************************)
EXTENDS Naturals, Sequences, FiniteSets

CONSTANTS
    Run,        \* launches
    Daemon,     \* identities of daemon processes: the limit on their number
    InPath,     \* launches that may find nxpk and nexpackd in PATH
    NotInPath,  \* launches that may not: PATHs differ, nxpk is installed late
    Embedded,   \* what the bundle carries for bin/, in the order of extraction
    MaxFaults,  \* bound: processes killed and writes that fail
    None

File == {"nexpackd", "nxpk"}

ASSUME PathAssumption == InPath \cup NotInPath = Run
ASSUME EmbeddedAssumption == Embedded \in Seq(File)
ASSUME BoundAssumption == MaxFaults \in Nat
ASSUME NoneAssumption == None \notin Run \cup Daemon

VARIABLES
    file,     \* bin/<f>: "none", "torn" or "whole"
    truncator, \* the launch that last emptied bin/<f>, as long as it writes
    socket,   \* the daemon whose socket is at nexpack.sock; it may be gone
    dpc, dexe,        \* per daemon: place, where its executable came from
    pc, item,         \* per launch: place, index in Embedded
    reached,          \* the stub found a daemon at the first try
    peer,             \* the daemon nxpk is connected to
    nxpk,             \* where the nxpk that runs the launch came from
    why,              \* what ended a launch that failed
    tornBy,   \* history: the launch that did not finish the torn bin/<f>
    ran,      \* history: <<launch that executed a torn file, its tornBy>>
    faults

launch == <<pc, item, reached, peer, nxpk, why>>
bin    == <<file, truncator, tornBy>>
daemon == <<socket, dpc, dexe>>
vars   == <<launch, bin, daemon, ran, faults>>

RunPC    == {"idle", "connect", "path", "open", "write", "fork", "sleep",
             "reconnect", "exec", "socket", "start", "wait", "dial",
             "served", "launched", "failed"}
DaemonPC == {"off", "started", "unbound", "bound", "serving"}
Reason   == {"none", "extract", "fork", "bundle", "daemon", "nxpk", "timeout",
             "killed"}

Init ==
    /\ file = [f \in File |-> "none"]
    /\ socket = None
    /\ dpc = [d \in Daemon |-> "off"] /\ dexe = [d \in Daemon |-> "none"]
    /\ pc = [r \in Run |-> "idle"] /\ item = [r \in Run |-> 0]
    /\ reached = [r \in Run |-> FALSE] /\ peer = [r \in Run |-> None]
    /\ nxpk = [r \in Run |-> "none"] /\ why = [r \in Run |-> "none"]
    /\ truncator = [f \in File |-> None] /\ tornBy = [f \in File |-> None]
    /\ ran = {} /\ faults = 0

Serves == socket # None /\ dpc[socket] = "serving"

\* Who executes, and who writes, a file of bin/.
InUse(f) ==
    \/ f = "nexpackd" /\ \E d \in Daemon : dpc[d] # "off" /\ dexe[d] = "bin"
    \/ f = "nxpk" /\ \E r \in Run : nxpk[r] = "bin"
Written(f) == \E r \in Run : pc[r] = "write" /\ Embedded[item[r]] = f
Executable(f) == file[f] # "none" /\ ~Written(f)

-----------------------------------------------------------------------------
At(r, l, next) == pc[r] = l /\ pc' = [pc EXCEPT ![r] = next]

\* The launch is over; its nxpk, if it was one, is gone.
Fails(r, l, reason) ==
    /\ At(r, l, "failed")
    /\ why' = [why EXCEPT ![r] = reason]
    /\ nxpk' = [nxpk EXCEPT ![r] = "none"]
    /\ item' = [item EXCEPT ![r] = 0]
    /\ reached' = [reached EXCEPT ![r] = FALSE]
    /\ peer' = [peer EXCEPT ![r] = None]

-----------------------------------------------------------------------------
(* The stub.                                                               *)

Begin(r) ==
    /\ At(r, "idle", "connect")
    /\ UNCHANGED <<item, reached, peer, nxpk, why, bin, daemon, ran, faults>>

\* A first try at the socket; the answer matters only for what comes after
\* an extraction.
Connect(r) ==
    /\ At(r, "connect", "path")
    /\ reached' = [reached EXCEPT ![r] = Serves]
    /\ UNCHANGED <<item, peer, nxpk, why, bin, daemon, ran, faults>>

\* nxpk of PATH takes over, with or without a daemon.
FoundInPath(r) ==
    /\ At(r, "path", "socket")
    /\ r \in InPath
    /\ nxpk' = [nxpk EXCEPT ![r] = "path"]
    /\ reached' = [reached EXCEPT ![r] = FALSE]
    /\ UNCHANGED <<item, peer, why, bin, daemon, ran, faults>>

\* Otherwise the stub extracts, whatever bin/ already holds.  A bundle
\* without bootstrap data ends here.
Bootstrap(r) ==
    /\ pc[r] = "path"
    /\ r \in NotInPath
    /\ IF Embedded = <<>>
       THEN Fails(r, "path", "extract")
       ELSE /\ At(r, "path", "open")
            /\ item' = [item EXCEPT ![r] = 1]
            /\ UNCHANGED <<reached, peer, nxpk, why>>
    /\ UNCHANGED <<bin, daemon, ran, faults>>

\* O_TRUNC empties the file before anything is written to it.
OpenFile(r) ==
    /\ At(r, "open", "write")
    /\ LET f == Embedded[item[r]] IN
       /\ ~InUse(f)
       /\ file' = [file EXCEPT ![f] = "torn"]
       /\ truncator' = [truncator EXCEPT ![f] = r]
       /\ tornBy' = [tornBy EXCEPT ![f] = None]
    /\ UNCHANGED <<item, reached, peer, nxpk, why, daemon, ran, faults>>

\* The file is being executed: text file busy.
OpenFileFails(r) ==
    /\ Fails(r, "open", "extract")
    /\ InUse(Embedded[item[r]])
    /\ UNCHANGED <<bin, daemon, ran, faults>>

\* r stops writing f; if it does so half way through, f stays torn unless
\* another launch writes it.
Stops(r, f) ==
    truncator' = [truncator EXCEPT ![f] = IF @ = r THEN None ELSE @]
StopsHalfway(r, f) ==
    /\ Stops(r, f)
    /\ tornBy' = [tornBy EXCEPT ![f] = IF file[f] = "torn" THEN r ELSE @]

\* Mutant of NextFile: the count is off by one.
OneMoreFile(r) ==
    IF item[r] <= Len(Embedded)
    THEN At(r, "write", "open") /\ item' = [item EXCEPT ![r] = @ + 1]
    ELSE At(r, "write", "fork") /\ UNCHANGED item

NextFile(r) ==
    IF item[r] < Len(Embedded)
    THEN At(r, "write", "open") /\ item' = [item EXCEPT ![r] = @ + 1]
    ELSE At(r, "write", "fork") /\ UNCHANGED item

\* All is written.  If another launch has emptied the file meanwhile, what
\* this one wrote before that is lost.
WriteFile(r) ==
    /\ pc[r] = "write"
    /\ LET f == Embedded[item[r]] IN
       /\ Stops(r, f)
       /\ \/ /\ file' = [file EXCEPT ![f] = "whole"]
             /\ tornBy' = [tornBy EXCEPT ![f] = None]
          \/ truncator[f] # r /\ UNCHANGED <<file, tornBy>>
    /\ NextFile(r)
    /\ UNCHANGED <<reached, peer, nxpk, why, daemon, ran, faults>>

\* Mutant of WriteFileFails: the result of write_all is not looked at.
WriteIgnored(r) ==
    /\ pc[r] = "write"
    /\ faults < MaxFaults /\ faults' = faults + 1
    /\ StopsHalfway(r, Embedded[item[r]])
    /\ NextFile(r)
    /\ UNCHANGED <<file, reached, peer, nxpk, why, daemon, ran>>

WriteFileFails(r) ==
    /\ Fails(r, "write", "extract")
    /\ faults < MaxFaults /\ faults' = faults + 1
    /\ StopsHalfway(r, Embedded[item[r]])
    /\ UNCHANGED <<file, daemon, ran>>

\* The launch r executes bin/<f>, whatever is in it.
Executes(r, f) ==
    ran' = IF file[f] = "torn" /\ Executable(f)
           THEN ran \cup {<<r, tornBy[f]>>} ELSE ran

\* An identity is used again when no socket bears it and no launch is
\* connected to the process that had it.
Free == {d \in Daemon : dpc[d] = "off" /\ socket # d /\ \A r \in Run : peer[r] # d}

\* A new process that is to become nexpackd.  The execve of the child can
\* fail, which the stub is not told; a file that is cut short starts
\* nothing.
Spawn(d, exe) ==
    /\ d \in Free
    /\ IF exe = "bin" /\ (file["nexpackd"] # "whole" \/ Written("nexpackd"))
       THEN UNCHANGED <<dpc, dexe>>
       ELSE /\ dpc' = [dpc EXCEPT ![d] = "started"]
            /\ dexe' = [dexe EXCEPT ![d] = exe]
    /\ UNCHANGED socket

\* fork, exec of bin/nexpackd in the child, and a sleep of 0.8 s.
Fork(r, d) ==
    /\ At(r, "fork", "sleep")
    /\ Spawn(d, "bin")
    /\ Executes(r, "nexpackd")
    /\ UNCHANGED <<item, reached, peer, nxpk, why, bin, faults>>

\* No further process can be had.
ForkFails(r) ==
    /\ Fails(r, "fork", "fork")
    /\ Free = {}
    /\ UNCHANGED <<bin, daemon, ran, faults>>

\* A stub that had found a daemon at first does not ask again.
Sleep(r) ==
    /\ At(r, "sleep", IF reached[r] THEN "exec" ELSE "reconnect")
    /\ reached' = [reached EXCEPT ![r] = FALSE]
    /\ item' = [item EXCEPT ![r] = 0]
    /\ UNCHANGED <<peer, nxpk, why, bin, daemon, ran, faults>>

Reconnect(r) ==
    /\ At(r, "reconnect", "exec")
    /\ Serves
    /\ UNCHANGED <<item, reached, peer, nxpk, why, bin, daemon, ran, faults>>

ReconnectFails(r) ==
    /\ Fails(r, "reconnect", "daemon")
    /\ ~Serves
    /\ UNCHANGED <<bin, daemon, ran, faults>>

Exec(r) ==
    /\ At(r, "exec", "socket")
    /\ Executable("nxpk") /\ file["nxpk"] = "whole"
    /\ nxpk' = [nxpk EXCEPT ![r] = "bin"]
    /\ UNCHANGED <<item, reached, peer, why, bin, daemon, ran, faults>>

ExecFails(r) ==
    /\ Fails(r, "exec", "nxpk")
    /\ ~(Executable("nxpk") /\ file["nxpk"] = "whole")
    /\ Executes(r, "nxpk")
    /\ UNCHANGED <<bin, daemon, faults>>

-----------------------------------------------------------------------------
(* nxpk run.                                                               *)

\* The bundle cannot be opened, or one of its layers does not have its hash.
BundleRefused(r) ==
    /\ Fails(r, "socket", "bundle")
    /\ UNCHANGED <<bin, daemon, ran, faults>>

\* The path of the socket exists, whether or not anybody listens.
CheckSocket(r) ==
    /\ At(r, "socket", IF socket # None THEN "dial" ELSE "start")
    /\ UNCHANGED <<item, reached, peer, nxpk, why, bin, daemon, ran, faults>>

\* nexpackd of PATH, or the one beside this nxpk.  A file that is cut short
\* may be refused at once or start and crash.
StartDaemon(r, d) ==
    /\ At(r, "start", "wait")
    /\ Spawn(d, nxpk[r])
    /\ nxpk[r] = "bin" => Executable("nexpackd")
    /\ IF nxpk[r] = "bin" THEN Executes(r, "nexpackd") ELSE UNCHANGED ran
    /\ UNCHANGED <<item, reached, peer, nxpk, why, bin, faults>>

\* No process, no file, or one that cannot be executed.
StartFails(r) ==
    /\ Fails(r, "start", "daemon")
    /\ \/ Free = {} /\ UNCHANGED ran
       \/ /\ nxpk[r] = "bin"
          /\ file["nexpackd"] # "whole" \/ ~Executable("nexpackd")
          /\ Executes(r, "nexpackd")
    /\ UNCHANGED <<bin, daemon, faults>>

SocketAppears(r) ==
    /\ At(r, "wait", "dial")
    /\ socket # None
    /\ UNCHANGED <<item, reached, peer, nxpk, why, bin, daemon, ran, faults>>

\* Mutant of WaitTimesOut: the launch waits for the socket for ever.
WaitLonger(r) ==
    /\ At(r, "wait", "wait")
    /\ socket = None
    /\ UNCHANGED <<item, reached, peer, nxpk, why, bin, daemon, ran, faults>>

\* Five seconds have passed.
WaitTimesOut(r) ==
    /\ Fails(r, "wait", "timeout")
    /\ socket = None
    /\ UNCHANGED <<bin, daemon, ran, faults>>

Dial(r) ==
    /\ At(r, "dial", "served")
    /\ Serves
    /\ peer' = [peer EXCEPT ![r] = socket]
    /\ UNCHANGED <<item, reached, nxpk, why, bin, daemon, ran, faults>>

\* Nobody listens at the path: the launch fails, no daemon is started.
DialFails(r) ==
    /\ Fails(r, "dial", "daemon")
    /\ ~Serves
    /\ UNCHANGED <<bin, daemon, ran, faults>>

\* The daemon answers "mounted", and nxpk becomes the application.
Launch(r) ==
    /\ At(r, "served", "launched")
    /\ dpc[peer[r]] = "serving"
    /\ peer' = [peer EXCEPT ![r] = None]
    /\ nxpk' = [nxpk EXCEPT ![r] = "none"]
    /\ item' = [item EXCEPT ![r] = 0]
    /\ reached' = [reached EXCEPT ![r] = FALSE]
    /\ UNCHANGED <<why, bin, daemon, ran, faults>>

\* The daemon answers with an error.
NotMounted(r) ==
    /\ Fails(r, "served", "daemon")
    /\ dpc[peer[r]] = "serving"
    /\ UNCHANGED <<bin, daemon, ran, faults>>

\* The daemon is gone, and the connection with it: read_message fails.  Of a
\* daemon that lives and does not answer, nxpk hears nothing, for any time.
ConnectionLost(r) ==
    /\ Fails(r, "served", "daemon")
    /\ dpc[peer[r]] = "off"
    /\ UNCHANGED <<bin, daemon, ran, faults>>

\* The application ends, or the user has read the message.
Over(r) ==
    /\ At(r, "launched", "idle") \/ At(r, "failed", "idle")
    /\ why' = [why EXCEPT ![r] = "none"]
    /\ UNCHANGED <<item, reached, peer, nxpk, bin, daemon, ran, faults>>

\* The user gives up on a launch.
Kill(r) ==
    /\ pc[r] \notin {"idle", "launched", "failed"}
    /\ faults < MaxFaults /\ faults' = faults + 1
    /\ IF pc[r] = "write"
       THEN StopsHalfway(r, Embedded[item[r]])
       ELSE UNCHANGED <<truncator, tornBy>>
    /\ Fails(r, pc[r], "killed")
    /\ UNCHANGED <<file, daemon, ran>>

-----------------------------------------------------------------------------
(* nexpackd: main.                                                         *)

DaemonAt(d, l, next) == dpc[d] = l /\ dpc' = [dpc EXCEPT ![d] = next]

RemoveSocket(d) ==
    /\ DaemonAt(d, "started", "unbound")
    /\ socket' = None
    /\ UNCHANGED <<dexe, launch, bin, ran, faults>>

Bind(d) ==
    /\ DaemonAt(d, "unbound", "bound")
    /\ socket = None
    /\ socket' = d
    /\ UNCHANGED <<dexe, launch, bin, ran, faults>>

\* Mutant of BindFails: a daemon that cannot bind cleans up after itself.
CleansUp(d) ==
    /\ DaemonAt(d, "unbound", "off")
    /\ socket # None
    /\ socket' = None
    /\ dexe' = [dexe EXCEPT ![d] = "none"]
    /\ UNCHANGED <<launch, bin, ran, faults>>

\* Another daemon has bound meanwhile: this one ends.
BindFails(d) ==
    /\ DaemonAt(d, "unbound", "off")
    /\ socket # None
    /\ dexe' = [dexe EXCEPT ![d] = "none"]
    /\ UNCHANGED <<socket, launch, bin, ran, faults>>

Listen(d) ==
    /\ DaemonAt(d, "bound", "serving")
    /\ UNCHANGED <<socket, dexe, launch, bin, ran, faults>>

\* accept fails, or the process is killed; the socket's path stays.
Die(d) ==
    /\ dpc[d] # "off"
    /\ faults < MaxFaults /\ faults' = faults + 1
    /\ dpc' = [dpc EXCEPT ![d] = "off"]
    /\ dexe' = [dexe EXCEPT ![d] = "none"]
    /\ UNCHANGED <<socket, launch, bin, ran>>

-----------------------------------------------------------------------------
StubStep(r) ==
    \/ Connect(r) \/ FoundInPath(r) \/ Bootstrap(r)
    \/ OpenFile(r) \/ OpenFileFails(r) \/ WriteFile(r)
    \/ ForkFails(r) \/ \E d \in Daemon : Fork(r, d)
    \/ Sleep(r) \/ Reconnect(r) \/ ReconnectFails(r) \/ Exec(r) \/ ExecFails(r)

RunStep(r) ==
    \/ BundleRefused(r) \/ CheckSocket(r)
    \/ StartFails(r) \/ \E d \in Daemon : StartDaemon(r, d)
    \/ SocketAppears(r) \/ WaitTimesOut(r) \/ Dial(r) \/ DialFails(r)
    \/ ConnectionLost(r)

\* What the daemon decides: whether it answers, and how.
Answered(r) == Launch(r) \/ NotMounted(r)

DaemonStep(d) == RemoveSocket(d) \/ Bind(d) \/ BindFails(d) \/ Listen(d)

Next ==
    \/ \E r \in Run : \/ Begin(r) \/ StubStep(r) \/ RunStep(r) \/ Answered(r)
                      \/ Over(r) \/ WriteFileFails(r) \/ Kill(r)
    \/ \E d \in Daemon : DaemonStep(d) \/ Die(d)

Spec == Init /\ [][Next]_vars

\* Processes run; sleeps and time limits pass; who waits for a process that
\* is gone hears of it.  That a daemon answers is not promised: a mount can
\* take any time.
FairSpec ==
    /\ Spec
    /\ \A r \in Run : WF_vars(StubStep(r) \/ RunStep(r))
    /\ \A d \in Daemon : WF_vars(DaemonStep(d))

-----------------------------------------------------------------------------
(* Properties.                                                             *)

TypeOK ==
    /\ file \in [File -> {"none", "torn", "whole"}]
    /\ truncator \in [File -> Run \cup {None}]
    /\ tornBy \in [File -> Run \cup {None}]
    /\ socket \in Daemon \cup {None}
    /\ dpc \in [Daemon -> DaemonPC]
    /\ dexe \in [Daemon -> {"none", "path", "bin"}]
    /\ pc \in [Run -> RunPC]
    /\ item \in [Run -> 0 .. Len(Embedded)]
    /\ \A r \in Run : pc[r] \in {"open", "write"} => item[r] # 0
    /\ reached \in [Run -> BOOLEAN]
    /\ peer \in [Run -> Daemon \cup {None}]
    /\ \A r \in Run : pc[r] = "served" <=> peer[r] # None
    /\ nxpk \in [Run -> {"none", "path", "bin"}]
    /\ why \in [Run -> Reason]
    /\ \A r \in Run : pc[r] = "failed" <=> why[r] # "none"
    /\ ran \subseteq Run \X (Run \cup {None})
    /\ faults \in 0 .. MaxFaults

\* Daemons take the socket from each other (remove, then bind), and the one
\* that loses ends.  However their starts interleave, once none of them is on
\* its way and none was killed, whoever connects is served: the handover never
\* leaves a living daemon and a path that nobody listens at
\* (nexpackd/src/main.rs:21, 35).
OneServes ==
    (/\ faults = 0
     /\ \E d \in Daemon : dpc[d] # "off"
     /\ \A d \in Daemon : dpc[d] \in {"off", "serving"})
    => Serves

\* Launches extract over each other's files.  A torn binary is executed only
\* when ANOTHER launch was killed, or failed to write, half way through it;
\* never for want of waiting for a writer, and never by the launch whose own
\* extraction failed (stub.c:250, the returns of extract_self_bootstrap).
TornByAnother == \A x \in ran : x[2] \notin {None, x[1]}

\* Whatever daemons and other launches do, a launch comes to its end, with the
\* application started or the user told why not, unless it waits for the answer
\* of a daemon that lives: no other wait is without an end, neither the one for
\* the socket (run.rs:35, 173) nor the one of the stub (stub.c:385), and not
\* that for an answer when its daemon dies.  The exception is the code's:
\* read_message (run.rs:53) has no time limit.
AwaitsAnswer(r) == pc[r] = "served" /\ dpc[peer[r]] = "serving"
LaunchEnds ==
    \A r \in Run : \/ []<>(pc[r] \in {"idle", "launched", "failed"})
                   \/ <>[]AwaitsAnswer(r)
=============================================================================
