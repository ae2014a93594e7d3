------------------------------- MODULE Sandbox -------------------------------
(***************************************************************************)
(* nxpk run --sandbox: from the permissions of a bundle the daemon makes   *)
(* the arguments of bwrap and a seccomp program (nexpackd/src/sandbox.rs), *)
(* bwrap mounts one argument after the other and executes the application, *)
(* and the kernel asks the program about every system call.                *)
(*                                                                         *)
(* A path is the sequence of its names.  Every path that is bound from the *)
(* host is bound to the same path in the sandbox, so a mount is described  *)
(* by its place, by what it shows (the host, the application, or something *)
(* that is the sandbox's own) and by whether it can be written.  bwrap and *)
(* the kernel are modelled as far as the arguments ask: a mount hides what *)
(* was at its place and below, and a source that is missing is the end.    *)
(* The variables that the arguments set are left out, and of the home only *)
(* a ~ that is a whole name is modelled.                                   *)
(***************************************************************************)
EXTENDS Naturals, FiniteSets, Sequences, SequencesExt

CONSTANTS
    Name,       \* names that make up paths, and words of pack specs
    PackSpecs,  \* the [permissions] of pack specs
    Environments, \* what the daemon may find in its environment
    Lasting,    \* paths of the host that are always there
    Volatile,   \* paths that can be missing, and can go
    SystemCall, \* numbers of system calls that are tried
    MaxGone,    \* bound: paths that go while bwrap mounts
    None

Path == Seq(Name)
PermissionSet ==
    [network : {"yes", "patterns", "no"}, filesystem : Seq(Path),
     devices : Seq(Name), ipc : Seq(Name), display : Name]

\* The names that the code itself writes.
ASSUME NameAssumption ==
    { "proc", "dev", "tmp", "run", "app", "usr", "lib", "lib64", "bin", "sbin",
      "etc", "nix", "store", "dri", "snd", "input", ".X11-unix", "wayland-0",
      "bus", "doc", "by-app", "wayland", "dbus-session" } \subseteq Name
ASSUME PathAssumption == Lasting \cup Volatile \subseteq Path
ASSUME CallAssumption == SystemCall \subseteq Nat /\ MaxGone \in Nat
ASSUME NoneAssumption == None \notin Path \cup PermissionSet

\* What serde accepts as [permissions]; only the network may be anything.
ASSUME SpecAssumption ==
    \A s \in PackSpecs :
        /\ s.filesystem \in {None} \cup Seq(Path)
        /\ s.devices \in {None} \cup Seq(Name)
        /\ s.ipc \in {None} \cup Seq(Name)
        /\ s.display \in {None} \cup Name
ASSUME EnvironmentAssumption ==
    \A e \in Environments :
        /\ {"$XDG_RUNTIME_DIR", "$XAUTHORITY"} \subseteq DOMAIN e
        /\ \A v \in DOMAIN e : e[v] \in {None} \cup Path

VARIABLES
    pc,     \* packing, packed, mounting, running, killed, failed
    spec,   \* the spec of the bundle
    perm,   \* the PermissionSet in its header
    env,    \* the environment of the daemon: variable -> path, or None
    host,   \* the paths that are there
    gone,   \* history: the paths that went
    args,   \* the mounts that bwrap was asked for and has not made yet
    mounts, \* those it has made
    net,    \* whether the sandbox shares the network of the host
    filter, \* the seccomp program
    call    \* the last system call and its answer

vars == <<pc, spec, perm, env, host, gone, args, mounts, net, filter, call>>

Arch == {"x86-64", "other"}

-----------------------------------------------------------------------------
(* Packing.                                                                *)

\* spec_to_permissions.  A field that the spec does not have is None, and a
\* spec without permissions has none of them; a network that is neither a
\* boolean nor a list is other.
Or(given, default) == IF given = None THEN default ELSE given
Permissions(s) ==
    [network    |-> IF s.network \in {"yes", "patterns"} THEN s.network
                                                         ELSE "no",
     filesystem |-> Or(s.filesystem, <<>>),
     devices    |-> Or(s.devices, <<>>),
     ipc        |-> Or(s.ipc, <<"wayland", "dbus-session">>),
     display    |-> Or(s.display, "wayland")]

-----------------------------------------------------------------------------
(* The arguments for bwrap.                                                *)

Mount(dest, of, rw) == [dest |-> dest, of |-> of, rw |-> rw, try |-> FALSE]
Bind(p) == Mount(p, "host", TRUE)
\* Mutant of RoBind: Bind.
RoBind(p) == Mount(p, "host", FALSE)
RoBindTry(p) == [RoBind(p) EXCEPT !.try = TRUE]
\* Mutant of RoBindIfThere: the daemon does not look.
RoBindBlindly(p) == << RoBind(p) >>

RoBindIfThere(p) == IF p \in host THEN <<RoBind(p)>> ELSE <<>>

App == <<"run", "app">>
Own == << Mount(<<"proc">>, "own", TRUE), Mount(<<"dev">>, "own", TRUE),
          Mount(<<"tmp">>, "own", TRUE),  Mount(<<"run">>, "own", TRUE),
          Mount(App, "app", FALSE) >>
SystemPaths == << <<"usr">>, <<"lib">>, <<"lib64">>, <<"bin">>, <<"sbin">>,
                  <<"etc">>, <<"nix", "store">> >>

\* shellexpand: a variable that is not set leaves nothing in its place, and
\* of a path that was nothing else the empty string remains.
Expand(p) ==
    FlattenSeq([i \in DOMAIN p |->
        IF p[i] \notin DOMAIN env THEN <<p[i]>> ELSE Or(env[p[i]], <<>>)])
Grant(p) == IF p # <<>> /\ Expand(p) = <<>> THEN None ELSE Expand(p)

Runtime(names) ==
    IF env["$XDG_RUNTIME_DIR"] = None THEN <<>>
    ELSE RoBindIfThere(env["$XDG_RUNTIME_DIR"] \o names)

Device(d) ==
    CASE d = "dri"   -> RoBindIfThere(<<"dev", "dri">>)
      [] d = "audio" -> RoBindIfThere(<<"dev", "snd">>)
      [] d = "input" -> RoBindIfThere(<<"dev", "input">>)
      [] OTHER       -> <<>>

X11Socket == <<"tmp", ".X11-unix">>
Ipc(i) ==
    CASE i = "wayland"      -> Runtime(<<"wayland-0">>)
      [] i = "x11"          -> << RoBind(X11Socket) >>
      [] i = "dbus-session" -> Runtime(<<"bus">>)
      [] OTHER              -> <<>>

Display(d) ==
    IF d = "x11" /\ env["$XAUTHORITY"] # None
    THEN << RoBindTry(env["$XAUTHORITY"]) >> ELSE <<>>

FlatMap(f(_), s) == FlattenSeq([i \in DOMAIN s |-> f(s[i])])

\* Mutant of BwrapMounts: the grants come first.
GrantsFirst(p) ==
    [i \in DOMAIN p.filesystem |-> Bind(Grant(p.filesystem[i]))]
    \o Own
    \o FlatMap(RoBindIfThere, SystemPaths)
    \o FlatMap(Device, p.devices)
    \o FlatMap(Ipc, p.ipc)
    \o Runtime(<<"doc", "by-app">>)
    \o Display(p.display)

\* build_bwrap_args, as far as it mounts.
BwrapMounts(p) ==
    Own
    \o FlatMap(RoBindIfThere, SystemPaths)
    \o [i \in DOMAIN p.filesystem |-> Bind(Grant(p.filesystem[i]))]
    \o FlatMap(Device, p.devices)
    \o FlatMap(Ipc, p.ipc)
    \o Runtime(<<"doc", "by-app">>)
    \o Display(p.display)

\* Mutant of SharesNetwork: patterns do not count as network.
SharesIfYes(p) == p.network = "yes"

\* The first has_network: without it, --unshare-net.
SharesNetwork(p) == p.network # "no"

-----------------------------------------------------------------------------
(* The seccomp program.                                                    *)

Load(field)       == [op |-> "ld", k |-> field, jt |-> 0, jf |-> 0]
JumpEq(k, jt, jf) == [op |-> "jeq", k |-> k, jt |-> jt, jf |-> jf]
Return(verdict)   == [op |-> "ret", k |-> verdict, jt |-> 0, jf |-> 0]

Blacklist == <<41, 42, 43, 44, 45, 46, 47, 48, 49, 50, 51, 52, 53, 54, 57, 288>>

AllowAll == << Return("allow") >>

\* Mutant of Block: the jump goes on to the next test if the number is equal.
BlockSwapped ==
    << Load("arch"), JumpEq("x86-64", 1, 0), Return("kill"), Load("nr") >>
    \o FlattenSeq([i \in DOMAIN Blacklist |->
            << JumpEq(Blacklist[i], 1, 0), Return("eperm") >>])
    \o << Return("allow") >>

\* block_network_syscalls.
Block ==
    << Load("arch"), JumpEq("x86-64", 1, 0), Return("kill"), Load("nr") >>
    \o FlattenSeq([i \in DOMAIN Blacklist |->
            << JumpEq(Blacklist[i], 0, 1), Return("eperm") >>])
    \o << Return("allow") >>

\* Mutant of SeccompFilter: only a plain yes is network.
FilterUnlessYes(p) == IF p.network = "yes" THEN AllowAll ELSE Block

\* generate_seccomp_filter, with a has_network of its own.
SeccompFilter(p) == IF p.network # "no" THEN AllowAll ELSE Block

\* The field that the accumulator holds at an instruction: the one that was
\* loaded last.
Loaded(prog, i) ==
    LET loads == {j \in 1 .. i : prog[j].op = "ld"} IN
    prog[CHOOSE j \in loads : \A l \in loads : l <= j].k

\* The kernel: a jump is relative to the next instruction.  Both operands of
\* a test come from the same field, as the program was written.
Answer(prog, nr, arch) ==
    LET value(i) == IF Loaded(prog, i) = "arch" THEN arch ELSE nr
        from[i \in 1 .. Len(prog)] ==
          CASE prog[i].op = "ret" -> prog[i].k
            [] prog[i].op = "ld"  -> from[i + 1]
            [] OTHER -> from[i + 1 + (IF value(i) = prog[i].k THEN prog[i].jt
                                                              ELSE prog[i].jf)]
    IN  from[1]

-----------------------------------------------------------------------------
(* The run.                                                                *)

Init ==
    /\ pc = "packing" /\ spec \in PackSpecs /\ perm = None
    /\ env \in Environments
    /\ \E there \in SUBSET Volatile : host = Lasting \cup there
    /\ gone = {} /\ args = <<>> /\ mounts = <<>>
    /\ net = FALSE /\ filter = <<>> /\ call = None

Pack ==
    /\ pc = "packing" /\ pc' = "packed"
    /\ perm' = Permissions(spec)
    /\ UNCHANGED <<spec, env, host, gone, args, mounts, net, filter, call>>

\* handle_mount answers with the arguments and the program; nxpk run takes
\* the permissions of the bundle file, and adds --seccomp before the command.
Ask ==
    /\ pc = "packed" /\ pc' = "mounting"
    /\ args' = BwrapMounts(perm)
    /\ net' = SharesNetwork(perm)
    /\ filter' = SeccompFilter(perm)
    /\ UNCHANGED <<spec, perm, env, host, gone, mounts, call>>

\* Something on the host ends after the daemon looked, or before.
Vanish(p) ==
    /\ pc \in {"packed", "mounting"} /\ p \in host \cap Volatile
    /\ Cardinality(gone) < MaxGone
    /\ host' = host \ {p} /\ gone' = gone \cup {p}
    /\ UNCHANGED <<pc, spec, perm, env, args, mounts, net, filter, call>>

HasSource(m) == m.of = "host" => m.dest \in host

MountNext ==
    /\ pc = "mounting" /\ args # <<>> /\ args' = Tail(args)
    /\ LET m == Head(args) IN
       \/ HasSource(m) /\ mounts' = Append(mounts, m) /\ UNCHANGED pc
       \/ ~HasSource(m) /\ m.try /\ UNCHANGED <<mounts, pc>>
       \/ ~HasSource(m) /\ ~m.try /\ pc' = "failed" /\ UNCHANGED mounts
    /\ UNCHANGED <<spec, perm, env, host, gone, net, filter, call>>

\* What the sandbox shows at p: the last mount at p or above it.  Where
\* there is none, the root is bwrap's own.
Shown(p) ==
    LET over == {i \in DOMAIN mounts : IsPrefix(mounts[i].dest, p)} IN
    IF over = {} THEN Mount(<<>>, "own", TRUE)
    ELSE mounts[CHOOSE i \in over : \A j \in over : j <= i]

\* Mutant of Exec: the last mount is not waited for.
ExecEarly ==
    /\ pc = "mounting" /\ Len(args) < 2
    /\ pc' = IF Shown(App).of = "app" THEN "running" ELSE "failed"
    /\ UNCHANGED <<spec, perm, env, host, gone, args, mounts, net, filter, call>>

\* The entry point is a path in /run/app.
Exec ==
    /\ pc = "mounting" /\ args = <<>>
    /\ pc' = IF Shown(App).of = "app" THEN "running" ELSE "failed"
    /\ UNCHANGED <<spec, perm, env, host, gone, args, mounts, net, filter, call>>

Syscall(nr, arch) ==
    /\ pc = "running"
    /\ call' = [nr |-> nr, arch |-> arch, answer |-> Answer(filter, nr, arch)]
    /\ pc' = IF call'.answer = "kill" THEN "killed" ELSE "running"
    /\ UNCHANGED <<spec, perm, env, host, gone, args, mounts, net, filter>>

Next ==
    \/ Pack \/ Ask \/ MountNext \/ Exec
    \/ \E p \in Volatile : Vanish(p)
    \/ \E nr \in SystemCall, arch \in Arch : Syscall(nr, arch)

Spec == Init /\ [][Next]_vars

-----------------------------------------------------------------------------
(* Properties.  They speak of the spec, not of what became of it.          *)

TypeOK ==
    /\ pc \in {"packing", "packed", "mounting", "running", "killed", "failed"}
    /\ perm = None <=> pc = "packing"
    /\ host \subseteq Lasting \cup Volatile /\ gone \subseteq Volatile \ host
    /\ pc \in {"running", "killed"} => args = <<>> /\ mounts # <<>>
    /\ net \in BOOLEAN
    /\ filter = <<>> <=> pc \in {"packing", "packed"}
    /\ call # None => pc \in {"running", "killed"}

Listed(field, x) ==
    spec[field] # None /\ \E i \in DOMAIN spec[field] : spec[field][i] = x
Granted ==
    IF spec.filesystem = None THEN {}
    ELSE {Grant(spec.filesystem[i]) : i \in DOMAIN spec.filesystem}

\* What the application may read beside its grants: the system and the
\* portal, and for each device, socket and display of the spec its path.
InRuntime(names) ==
    IF env["$XDG_RUNTIME_DIR"] = None THEN {}
    ELSE {env["$XDG_RUNTIME_DIR"] \o names}
Readable ==
    {SystemPaths[i] : i \in DOMAIN SystemPaths} \cup InRuntime(<<"doc", "by-app">>)
    \cup {p \in {<<"dev", "dri">>} : Listed("devices", "dri")}
    \cup {p \in {<<"dev", "snd">>} : Listed("devices", "audio")}
    \cup {p \in {<<"dev", "input">>} : Listed("devices", "input")}
    \cup {p \in {X11Socket} : Listed("ipc", "x11")}
    \cup {p \in {env["$XAUTHORITY"]} \ {None} : spec.display = "x11"}
    \cup {p \in InRuntime(<<"wayland-0">>) :
            spec.ipc = None \/ Listed("ipc", "wayland")}
    \cup {p \in InRuntime(<<"bus">>) :
            spec.ipc = None \/ Listed("ipc", "dbus-session")}

Executed == pc \in {"running", "killed"}
Within(p, places) == \E q \in places \ {None} : IsPrefix(q, p)

\* "Filesystem: restricted to paths declared in [permissions]" (README.md:86):
\* whatever of the host the running application sees was asked for in the
\* spec, or belongs to the system or to the document portal, which every
\* sandbox gets to read; and it can write only where a grant is.
OnlyGranted ==
    Executed => \A p \in Lasting \cup Volatile :
        LET m == Shown(p) IN
        m.of = "host" => Within(p, IF m.rw THEN Granted ELSE Granted \cup Readable)

\* A grant is worth something: the running application sees the host at every
\* path it was granted, and can write there unless the path belongs to what
\* the spec asks to read; no mount of the sandbox's own hides it.
GrantsHold ==
    Executed => \A g \in Granted :
        Shown(g).of = "host" /\ (Shown(g).rw \/ Within(g, Readable))

\* A sandbox that does not start has a reason in the spec or on the host: a
\* grant that is not there or hides the application, an X11 socket that was
\* asked for and is not there, an XAUTHORITY that is no file but a directory
\* above the application, or a path to be read that has gone since the daemon
\* looked (sandbox.rs:22-26, 57-81): that the sandbox mounts on a guess, or
\* that something else on the host has gone, is never the reason.
FailureExplained ==
    pc = "failed" =>
        \/ gone \cap Readable # {}
        \/ \E g \in Granted : g \notin host \/ IsPrefix(g, App)
        \/ Listed("ipc", "x11") /\ X11Socket \notin host
        \/ /\ spec.display = "x11" /\ env["$XAUTHORITY"] # None
           /\ IsPrefix(env["$XAUTHORITY"], App)

\* has_network is computed once for the namespace (sandbox.rs:49-52) and once
\* for the program (sandbox.rs:163-171), in different ways: an application is
\* cut off by the one exactly if it is by the other, it has the network if its
\* spec says yes, and has it not if its spec says no, nothing, or something
\* that is no network permission.  What a list of patterns should mean is left
\* open here.
NetworkAgrees ==
    Executed =>
        /\ net <=> filter = AllowAll
        /\ spec.network = "yes" => net
        /\ spec.network \notin {"yes", "patterns"} => ~net

\* Whatever the call, its answer is the one that was meant: in the network of
\* the host everything passes; in a namespace of its own, the calls of the list
\* are refused and not killed, all others pass, and a foreign architecture is
\* killed (sandbox.rs:182-203).
CallsAreJudged ==
    call # None =>
        call.answer =
            IF net THEN "allow"
            ELSE IF call.arch # "x86-64" THEN "kill"
            ELSE IF \E i \in DOMAIN Blacklist : Blacklist[i] = call.nr THEN "eperm"
            ELSE "allow"

\* "Seccomp: blocked network syscalls return -EPERM" (README.md:89): a call
\* that is refused is one of the calls on sockets, 41 (socket) to 55
\* (getsockopt) and 288 (accept4), and not, say, 57, which is fork.
OnlyNetworkRefused ==
    call # None /\ call.answer = "eperm" => call.nr \in 41 .. 55 \cup {288}
=============================================================================
