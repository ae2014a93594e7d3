--------------------------- MODULE SandboxProofs ---------------------------
(***************************************************************************)
(* Proofs about Sandbox, for any pack spec, environment and host: what the *)
(* running application sees of the host was granted and what was granted   *)
(* it sees, a start that fails has a reason, the two computations of       *)
(* has_network agree, and the program answers every call as it was meant.  *)
(***************************************************************************)
EXTENDS Sandbox, SequenceFacts

-----------------------------------------------------------------------------
(* What bwrap is asked for.                                                *)

MountOf == [dest : {None} \cup Path, of : {"own", "app", "host"},
            rw : BOOLEAN, try : BOOLEAN]

\* Why the daemon asks for a mount, and why its source may be missing.
Explained(m) ==
    m.of = "host" =>
        /\ m.rw => m.dest \in Granted
        /\ ~m.rw => m.dest \in Readable
        /\ ~m.try => \/ m.dest \in Granted
                     \/ m.dest = X11Socket /\ Listed("ipc", "x11")
                     \/ m.dest \in host \cup gone

\* Mounts of the host that have an explanation.
HostOnly(s) ==
    s \in Seq(MountOf) /\ \A m \in Elements(s) : m.of = "host" /\ Explained(m)

Given == spec \in PackSpecs /\ env \in Environments /\ perm = Permissions(spec)

LEMMA PermTyped ==
    ASSUME NEW s \in PackSpecs
    PROVE  Permissions(s) \in PermissionSet
<1>1. /\ s.filesystem \in {None} \cup Seq(Path)
      /\ s.devices \in {None} \cup Seq(Name)
      /\ s.ipc \in {None} \cup Seq(Name)
      /\ s.display \in {None} \cup Name
  BY SpecAssumption DEF SpecAssumption
<1>2. <<>> \in Seq(Path) /\ <<>> \in Seq(Name) /\ <<"wayland", "dbus-session">> \in Seq(Name)
  <2>1. "wayland" \in Name /\ "dbus-session" \in Name
    BY NameAssumption DEF NameAssumption
  <2> QED
    BY <2>1
<1>3. /\ Or(s.filesystem, <<>>) \in Seq(Path)
      /\ Or(s.devices, <<>>) \in Seq(Name)
      /\ Or(s.ipc, <<"wayland", "dbus-session">>) \in Seq(Name)
      /\ Or(s.display, "wayland") \in Name
  BY <1>1, <1>2 DEF Or
<1> QED
  BY <1>3 DEF Permissions, PermissionSet

LEMMA EnvTyped ==
    ASSUME env \in Environments
    PROVE  /\ env["$XDG_RUNTIME_DIR"] \in {None} \cup Path
           /\ env["$XAUTHORITY"] \in {None} \cup Path
           /\ \A v \in DOMAIN env : env[v] \in {None} \cup Path
BY EnvironmentAssumption DEF EnvironmentAssumption

\* What is left of a path when its variables are replaced is a path.
LEMMA GrantTyped ==
    ASSUME env \in Environments, NEW p \in Path
    PROVE  Grant(p) \in {None} \cup Path
<1> DEFINE ss == [i \in DOMAIN p |->
                    IF p[i] \notin DOMAIN env THEN <<p[i]>> ELSE Or(env[p[i]], <<>>)]
<1>1. Len(p) \in Nat /\ DOMAIN p = 1 .. Len(p) /\ \A i \in DOMAIN p : p[i] \in Name
  BY LenProperties DEF Path
<1>2. ASSUME NEW i \in DOMAIN p
      PROVE  (IF p[i] \notin DOMAIN env THEN <<p[i]>> ELSE Or(env[p[i]], <<>>)) \in Path
  <2>1. CASE p[i] \notin DOMAIN env
    <3>1. <<p[i]>> \in Path
      BY <1>1 DEF Path
    <3> QED
      BY <2>1, <3>1
  <2>2. CASE p[i] \in DOMAIN env
    <3>1. env[p[i]] \in {None} \cup Path /\ <<>> \in Path
      BY <2>2, EnvTyped DEF Path
    <3> QED
      BY <2>2, <3>1 DEF Or
  <2> QED
    BY <2>1, <2>2
<1>3. ss \in [1 .. Len(p) -> Path]
  BY <1>1, <1>2
<1>4. Expand(p) = FlattenSeq(ss)
  BY DEF Expand
<1> HIDE DEF ss
<1>5. Expand(p) \in Path
  BY <1>1, <1>3, <1>4, FlatMapElements DEF Path
<1> QED
  BY <1>5 DEF Grant

LEMMA HostOnlyOne ==
    ASSUME NEW m \in MountOf, m.of = "host", Explained(m)
    PROVE  HostOnly(<<m>>)
<1>1. <<m>> \in Seq(MountOf) /\ Elements(<<m>>) = {m}
  BY DEF Elements
<1> QED
  BY <1>1 DEF HostOnly

LEMMA HostOnlyNone == HostOnly(<<>>)
<1>1. <<>> \in Seq(MountOf) /\ Elements(<<>>) = {}
  BY DEF Elements
<1> QED
  BY <1>1 DEF HostOnly

LEMMA HostOnlyBoth ==
    ASSUME NEW s, HostOnly(s), NEW t, HostOnly(t)
    PROVE  HostOnly(s \o t)
<1>1. s \in Seq(MountOf) /\ t \in Seq(MountOf)
  BY DEF HostOnly
<1>2. s \o t \in Seq(MountOf) /\ Elements(s \o t) = Elements(s) \cup Elements(t)
  BY <1>1, ElementsOfConcat
<1> QED
  BY <1>2 DEF HostOnly

LEMMA HostOnlyAll ==
    ASSUME NEW n \in Nat, NEW ss, ss = [i \in 1 .. n |-> ss[i]],
           \A i \in 1 .. n : HostOnly(ss[i])
    PROVE  HostOnly(FlattenSeq(ss))
<1>1. ss \in [1 .. n -> Seq(MountOf)]
  <2>1. \A i \in 1 .. n : ss[i] \in Seq(MountOf)
    BY DEF HostOnly
  <2> QED
    BY <2>1
<1>2. /\ FlattenSeq(ss) \in Seq(MountOf)
      /\ \A x : x \in Elements(FlattenSeq(ss)) <=> \E i \in 1 .. n : x \in Elements(ss[i])
  BY <1>1, FlatMapElements
<1> QED
  BY <1>2 DEF HostOnly

LEMMA MountFields ==
    ASSUME NEW p
    PROVE  /\ Bind(p).dest = p /\ Bind(p).of = "host" /\ Bind(p).rw = TRUE
           /\ Bind(p).try = FALSE
           /\ RoBind(p).dest = p /\ RoBind(p).of = "host" /\ RoBind(p).rw = FALSE
           /\ RoBind(p).try = FALSE
           /\ RoBindTry(p).dest = p /\ RoBindTry(p).of = "host"
           /\ RoBindTry(p).rw = FALSE /\ RoBindTry(p).try = TRUE
           /\ p \in {None} \cup Path =>
                Bind(p) \in MountOf /\ RoBind(p) \in MountOf /\ RoBindTry(p) \in MountOf
BY DEF Bind, RoBind, RoBindTry, Mount, MountOf

LEMMA IfThere ==
    ASSUME NEW p \in Path, p \in Readable
    PROVE  HostOnly(RoBindIfThere(p))
<1>1. CASE p \in host
  <2>1. Explained(RoBind(p))
    BY <1>1, MountFields DEF Explained
  <2>2. HostOnly(<<RoBind(p)>>)
    BY <2>1, MountFields, HostOnlyOne
  <2> QED
    BY <1>1, <2>2 DEF RoBindIfThere
<1>2. CASE p \notin host
  BY <1>2, HostOnlyNone DEF RoBindIfThere
<1> QED
  BY <1>1, <1>2

LEMMA RuntimeFine ==
    ASSUME env \in Environments, NEW names \in Path, InRuntime(names) \subseteq Readable
    PROVE  HostOnly(Runtime(names))
<1>1. CASE env["$XDG_RUNTIME_DIR"] = None
  BY <1>1, HostOnlyNone DEF Runtime
<1>2. CASE env["$XDG_RUNTIME_DIR"] # None
  <2>1. env["$XDG_RUNTIME_DIR"] \in Path
    BY <1>2, EnvTyped
  <2>2. env["$XDG_RUNTIME_DIR"] \o names \in Path
    BY <2>1, ConcatProperties DEF Path
  <2>3. env["$XDG_RUNTIME_DIR"] \o names \in Readable
    BY <1>2 DEF InRuntime
  <2> QED
    BY <1>2, <2>2, <2>3, IfThere DEF Runtime
<1> QED
  BY <1>1, <1>2

\* The system.
LEMMA SystemFine ==
    HostOnly(FlatMap(RoBindIfThere, SystemPaths))
<1> DEFINE ss == [i \in DOMAIN SystemPaths |-> RoBindIfThere(SystemPaths[i])]
<1>1. DOMAIN SystemPaths = 1 .. 7 /\ \A i \in 1 .. 7 : SystemPaths[i] \in Path
  <2>1. /\ <<"usr">> \in Path /\ <<"lib">> \in Path /\ <<"lib64">> \in Path
        /\ <<"bin">> \in Path /\ <<"sbin">> \in Path /\ <<"etc">> \in Path
        /\ <<"nix", "store">> \in Path
    BY NameAssumption DEF NameAssumption, Path
  <2>2. SystemPaths \in Seq(Path) /\ Len(SystemPaths) = 7
    BY <2>1 DEF SystemPaths
  <2> QED
    BY <2>2, LenProperties
<1>2. \A i \in 1 .. 7 : SystemPaths[i] \in Readable
  BY <1>1 DEF Readable
<1>3. \A i \in 1 .. 7 : HostOnly(ss[i])
  BY <1>1, <1>2, IfThere
<1>4. ss = [i \in 1 .. 7 |-> ss[i]]
  BY <1>1
<1> HIDE DEF ss
<1>5. HostOnly(FlattenSeq(ss))
  BY <1>3, <1>4, HostOnlyAll
<1> QED
  BY <1>5 DEF FlatMap, ss

\* The grants: each is bound, and nothing else is.
LEMMA GrantsFine ==
    ASSUME Given
    PROVE  LET s == [i \in DOMAIN perm.filesystem |-> Bind(Grant(perm.filesystem[i]))] IN
           HostOnly(s) /\ \A g \in Granted : Bind(g) \in Elements(s)
<1> DEFINE fs == perm.filesystem
           s == [i \in DOMAIN fs |-> Bind(Grant(fs[i]))]
<1>1. fs \in Seq(Path) /\ fs = Or(spec.filesystem, <<>>)
  BY PermTyped DEF Given, PermissionSet, Permissions
<1>2. Len(fs) \in Nat /\ DOMAIN fs = 1 .. Len(fs) /\ \A i \in DOMAIN fs : fs[i] \in Path
  BY <1>1, LenProperties
<1>3. Granted = {Grant(fs[i]) : i \in DOMAIN fs}
  <2>1. CASE spec.filesystem = None
    <3>1. fs = <<>>
      BY <1>1, <2>1 DEF Or
    <3>2. {Grant(fs[i]) : i \in DOMAIN fs} = {}
      BY <3>1
    <3> QED
      BY <2>1, <3>2 DEF Granted
  <2>2. CASE spec.filesystem # None
    <3>1. fs = spec.filesystem
      BY <1>1, <2>2 DEF Or
    <3> HIDE DEF fs
    <3> QED
      BY <2>2, <3>1 DEF Granted
  <2> QED
    BY <2>1, <2>2
<1> HIDE DEF fs
<1>4. \A i \in DOMAIN fs : Grant(fs[i]) \in {None} \cup Path
  BY <1>2, GrantTyped DEF Given
<1>5. s \in Seq(MountOf)
  <2>1. \A i \in 1 .. Len(fs) : Bind(Grant(fs[i])) \in MountOf
    BY <1>2, <1>4, MountFields
  <2>2. s \in [1 .. Len(fs) -> MountOf]
    BY <1>2, <2>1
  <2> HIDE DEF s
  <2> QED
    BY <1>2, <2>2, SeqDef
<1>6. \A g \in Granted : Bind(g).of = "host" /\ Explained(Bind(g))
  <2> SUFFICES ASSUME NEW g \in Granted PROVE Bind(g).of = "host" /\ Explained(Bind(g))
    OBVIOUS
  <2>1. Bind(g).of = "host" /\ Bind(g).rw = TRUE /\ Bind(g).dest = g
    BY MountFields
  <2> QED
    BY <2>1 DEF Explained
<1>7. \A m : m \in Elements(s) <=> \E i \in DOMAIN fs : m = Bind(Grant(fs[i]))
  BY DEF Elements
<1> HIDE DEF s
<1>8. HostOnly(s)
  <2>1. \A m \in Elements(s) : m.of = "host" /\ Explained(m)
    BY <1>3, <1>6, <1>7
  <2> QED
    BY <1>5, <2>1 DEF HostOnly
<1>9. \A g \in Granted : Bind(g) \in Elements(s)
  BY <1>3, <1>7
<1> QED
  BY <1>8, <1>9 DEF fs, s

LEMMA ReadablePlaces ==
    ASSUME Given
    PROVE  /\ InRuntime(<<"doc", "by-app">>) \subseteq Readable
           /\ Listed("devices", "dri") => <<"dev", "dri">> \in Readable
           /\ Listed("devices", "audio") => <<"dev", "snd">> \in Readable
           /\ Listed("devices", "input") => <<"dev", "input">> \in Readable
           /\ Listed("ipc", "x11") => X11Socket \in Readable
           /\ spec.display = "x11" /\ env["$XAUTHORITY"] # None =>
                env["$XAUTHORITY"] \in Readable
           /\ spec.ipc = None \/ Listed("ipc", "wayland") =>
                InRuntime(<<"wayland-0">>) \subseteq Readable
           /\ spec.ipc = None \/ Listed("ipc", "dbus-session") =>
                InRuntime(<<"bus">>) \subseteq Readable
BY DEF Readable

LEMMA PlacesTyped ==
    /\ <<"dev", "dri">> \in Path /\ <<"dev", "snd">> \in Path
    /\ <<"dev", "input">> \in Path /\ X11Socket \in Path /\ App \in Path
    /\ <<"wayland-0">> \in Path /\ <<"bus">> \in Path /\ <<"doc", "by-app">> \in Path
BY NameAssumption DEF NameAssumption, Path, X11Socket, App

\* The devices of the spec.
LEMMA DevicesFine ==
    ASSUME Given
    PROVE  HostOnly(FlatMap(Device, perm.devices))
<1> DEFINE ds == perm.devices
           ss == [i \in DOMAIN ds |-> Device(ds[i])]
<1>1. ds \in Seq(Name) /\ ds = Or(spec.devices, <<>>)
  BY PermTyped DEF Given, PermissionSet, Permissions
<1>2. Len(ds) \in Nat /\ DOMAIN ds = 1 .. Len(ds)
  BY <1>1, LenProperties
<1>3. \A i \in DOMAIN ds : Listed("devices", ds[i])
  <2>1. CASE spec.devices = None
    <3>1. ds = <<>>
      BY <1>1, <2>1 DEF Or
    <3> QED
      BY <3>1
  <2>2. CASE spec.devices # None
    <3>1. ds = spec.devices
      BY <1>1, <2>2 DEF Or
    <3> HIDE DEF ds
    <3> QED
      BY <2>2, <3>1 DEF Listed
  <2> QED
    BY <2>1, <2>2
<1> HIDE DEF ds
<1>4. ASSUME NEW i \in DOMAIN ds PROVE HostOnly(Device(ds[i]))
  <2>1. Listed("devices", ds[i])
    BY <1>3
  <2>2. CASE ds[i] = "dri"
    <3>1. HostOnly(RoBindIfThere(<<"dev", "dri">>))
      BY <2>1, <2>2, ReadablePlaces, PlacesTyped, IfThere
    <3> QED
      BY <2>2, <3>1 DEF Device
  <2>3. CASE ds[i] = "audio"
    <3>1. HostOnly(RoBindIfThere(<<"dev", "snd">>))
      BY <2>1, <2>3, ReadablePlaces, PlacesTyped, IfThere
    <3> QED
      BY <2>3, <3>1 DEF Device
  <2>4. CASE ds[i] = "input"
    <3>1. HostOnly(RoBindIfThere(<<"dev", "input">>))
      BY <2>1, <2>4, ReadablePlaces, PlacesTyped, IfThere
    <3> QED
      BY <2>4, <3>1 DEF Device
  <2>5. CASE ds[i] \notin {"dri", "audio", "input"}
    BY <2>5, HostOnlyNone DEF Device
  <2> QED
    BY <2>2, <2>3, <2>4, <2>5
<1>5. \A i \in 1 .. Len(ds) : HostOnly(ss[i])
  BY <1>2, <1>4
<1>6. ss = [i \in 1 .. Len(ds) |-> ss[i]]
  BY <1>2
<1>7. FlatMap(Device, perm.devices) = FlattenSeq(ss)
  BY DEF FlatMap, ds
<1> HIDE DEF ss
<1> QED
  BY <1>2, <1>5, <1>6, <1>7, HostOnlyAll

\* Its sockets.
LEMMA IpcFine ==
    ASSUME Given
    PROVE  HostOnly(FlatMap(Ipc, perm.ipc))
<1> DEFINE is == perm.ipc
           ss == [i \in DOMAIN is |-> Ipc(is[i])]
<1>1. is \in Seq(Name) /\ is = Or(spec.ipc, <<"wayland", "dbus-session">>)
  BY PermTyped DEF Given, PermissionSet, Permissions
<1>2. Len(is) \in Nat /\ DOMAIN is = 1 .. Len(is)
  BY <1>1, LenProperties
<1>3. \A i \in DOMAIN is : \/ Listed("ipc", is[i])
                           \/ spec.ipc = None /\ is[i] \in {"wayland", "dbus-session"}
  <2>1. CASE spec.ipc = None
    <3>1. is = <<"wayland", "dbus-session">>
      BY <1>1, <2>1 DEF Or
    <3> QED
      BY <2>1, <3>1
  <2>2. CASE spec.ipc # None
    <3>1. is = spec.ipc
      BY <1>1, <2>2 DEF Or
    <3> HIDE DEF is
    <3> QED
      BY <2>2, <3>1 DEF Listed
  <2> QED
    BY <2>1, <2>2
<1> HIDE DEF is
<1>4. ASSUME NEW i \in DOMAIN is PROVE HostOnly(Ipc(is[i]))
  <2>1. CASE is[i] = "wayland"
    <3>1. HostOnly(Runtime(<<"wayland-0">>))
      BY <1>3, <2>1, ReadablePlaces, PlacesTyped, RuntimeFine DEF Given
    <3> QED
      BY <2>1, <3>1 DEF Ipc
  <2>2. CASE is[i] = "x11"
    <3>1. Listed("ipc", "x11")
      BY <1>3, <2>2
    <3>2. X11Socket \in Readable /\ X11Socket \in Path
      BY <3>1, ReadablePlaces, PlacesTyped
    <3>3. Explained(RoBind(X11Socket))
      <4> DEFINE m == RoBind(X11Socket)
      <4>1. m.rw = FALSE /\ m.dest = X11Socket
        BY MountFields
      <4> QED
        BY <3>1, <3>2, <4>1 DEF Explained
    <3>4. HostOnly(<< RoBind(X11Socket) >>)
      BY <3>2, <3>3, MountFields, HostOnlyOne
    <3> QED
      BY <2>2, <3>4 DEF Ipc
  <2>3. CASE is[i] = "dbus-session"
    <3>1. HostOnly(Runtime(<<"bus">>))
      BY <1>3, <2>3, ReadablePlaces, PlacesTyped, RuntimeFine DEF Given
    <3> QED
      BY <2>3, <3>1 DEF Ipc
  <2>4. CASE is[i] \notin {"wayland", "x11", "dbus-session"}
    BY <2>4, HostOnlyNone DEF Ipc
  <2> QED
    BY <2>1, <2>2, <2>3, <2>4
<1>5. \A i \in 1 .. Len(is) : HostOnly(ss[i])
  BY <1>2, <1>4
<1>6. ss = [i \in 1 .. Len(is) |-> ss[i]]
  BY <1>2
<1>7. FlatMap(Ipc, perm.ipc) = FlattenSeq(ss)
  BY DEF FlatMap, is
<1> HIDE DEF ss
<1> QED
  BY <1>2, <1>5, <1>6, <1>7, HostOnlyAll

\* Its display.
LEMMA DisplayFine ==
    ASSUME Given
    PROVE  HostOnly(Display(perm.display))
<1>1. perm.display = Or(spec.display, "wayland")
  BY DEF Given, Permissions
<1>2. perm.display = "x11" => spec.display = "x11"
  BY <1>1 DEF Or
<1>3. CASE perm.display = "x11" /\ env["$XAUTHORITY"] # None
  <2> DEFINE m == RoBindTry(env["$XAUTHORITY"])
  <2>1. env["$XAUTHORITY"] \in {None} \cup Path /\ env["$XAUTHORITY"] \in Readable
    BY <1>2, <1>3, EnvTyped, ReadablePlaces DEF Given
  <2>2. m.of = "host" /\ m.rw = FALSE /\ m.try = TRUE /\ m.dest = env["$XAUTHORITY"]
        /\ m \in MountOf
    BY <2>1, MountFields
  <2>3. Display(perm.display) = <<m>>
    BY <1>3 DEF Display
  <2> HIDE DEF m
  <2>4. Explained(m)
    BY <2>1, <2>2 DEF Explained
  <2> QED
    BY <2>2, <2>3, <2>4, HostOnlyOne
<1>4. CASE ~(perm.display = "x11" /\ env["$XAUTHORITY"] # None)
  BY <1>4, HostOnlyNone DEF Display
<1> QED
  BY <1>3, <1>4

-----------------------------------------------------------------------------
(* The order of the mounts: first what is the sandbox's own, then the      *)
(* application, then the host.                                             *)

Rank(m) == IF m.of = "own" THEN 1 ELSE IF m.of = "app" THEN 2 ELSE 3
InOrder(s) == \A i, j \in DOMAIN s : i < j => Rank(s[i]) <= Rank(s[j])
AppMount == Mount(App, "app", FALSE)

\* What stands before the mounts of the host, and some of those.
Begins(s) ==
    /\ s \in Seq(MountOf) /\ InOrder(s) /\ AppMount \in Elements(s)
    /\ \A m \in Elements(s) : Explained(m)

LEMMA OwnBegins == Begins(Own)
<1>1. /\ <<"proc">> \in Path /\ <<"dev">> \in Path /\ <<"tmp">> \in Path
      /\ <<"run">> \in Path /\ App \in Path
  BY NameAssumption DEF NameAssumption, Path, App
<1>2. /\ Mount(<<"proc">>, "own", TRUE) \in MountOf
      /\ Mount(<<"dev">>, "own", TRUE) \in MountOf
      /\ Mount(<<"tmp">>, "own", TRUE) \in MountOf
      /\ Mount(<<"run">>, "own", TRUE) \in MountOf
      /\ Mount(App, "app", FALSE) \in MountOf
  BY <1>1 DEF Mount, MountOf
<1>3. Own \in Seq(MountOf) /\ Len(Own) = 5
  <2> DEFINE a == Mount(<<"proc">>, "own", TRUE)
             b == Mount(<<"dev">>, "own", TRUE)
             c == Mount(<<"tmp">>, "own", TRUE)
             d == Mount(<<"run">>, "own", TRUE)
             e == Mount(App, "app", FALSE)
  <2>1. Own = <<a, b, c, d, e>>
    BY DEF Own
  <2>2. a \in MountOf /\ b \in MountOf /\ c \in MountOf /\ d \in MountOf /\ e \in MountOf
    BY <1>2
  <2> HIDE DEF a, b, c, d, e
  <2> QED
    BY <2>1, <2>2
<1>4. DOMAIN Own = 1 .. 5
  BY <1>3, LenProperties
<1>5. /\ Own[5] = AppMount
      /\ \A i \in 1 .. 4 : Own[i].of = "own"
  BY DEF Own, AppMount, Mount
<1>6. AppMount.of = "app"
  BY DEF AppMount, Mount
<1>7. /\ \A i \in 1 .. 4 : Rank(Own[i]) = 1
      /\ Rank(Own[5]) = 2
  BY <1>5, <1>6 DEF Rank
<1>8. InOrder(Own)
  <2> SUFFICES ASSUME NEW i \in 1 .. 5, NEW j \in 1 .. 5, i < j
               PROVE  Rank(Own[i]) <= Rank(Own[j])
    BY <1>4 DEF InOrder
  <2>1. i \in 1 .. 4 /\ (j \in 1 .. 4 \/ j = 5)
    OBVIOUS
  <2> QED
    BY <1>7, <2>1
<1>9. \A m \in Elements(Own) : m.of # "host"
  BY <1>4, <1>5, <1>6 DEF Elements
<1>10. AppMount \in Elements(Own)
  BY <1>4, <1>5 DEF Elements
<1> QED
  BY <1>3, <1>8, <1>9, <1>10 DEF Begins, Explained

LEMMA Behind ==
    ASSUME NEW s, Begins(s), NEW t, HostOnly(t)
    PROVE  Begins(s \o t) /\ Elements(s \o t) = Elements(s) \cup Elements(t)
<1>1. s \in Seq(MountOf) /\ t \in Seq(MountOf)
  BY DEF HostOnly, Begins
<1>2. s \o t \in Seq(MountOf) /\ Elements(s \o t) = Elements(s) \cup Elements(t)
  BY <1>1, ElementsOfConcat
<1>3. /\ Len(s) \in Nat /\ Len(t) \in Nat /\ DOMAIN s = 1 .. Len(s)
      /\ DOMAIN t = 1 .. Len(t) /\ DOMAIN (s \o t) = 1 .. Len(s) + Len(t)
      /\ \A i \in 1 .. Len(s) + Len(t) :
            (s \o t)[i] = IF i <= Len(s) THEN s[i] ELSE t[i - Len(s)]
  BY <1>1, <1>2, LenProperties, ConcatProperties
<1>4. \A i \in DOMAIN t : Rank(t[i]) = 3
  <2>1. \A i \in DOMAIN t : t[i].of = "host"
    BY DEF HostOnly, Elements
  <2> QED
    BY <2>1 DEF Rank
<1>5. ASSUME NEW i \in DOMAIN (s \o t), NEW j \in DOMAIN (s \o t), i < j
      PROVE  Rank((s \o t)[i]) <= Rank((s \o t)[j])
  <2>1. CASE j <= Len(s)
    <3>1. i \in DOMAIN s /\ j \in DOMAIN s /\ (s \o t)[i] = s[i] /\ (s \o t)[j] = s[j]
      BY <1>3, <1>5, <2>1
    <3> QED
      BY <1>5, <3>1 DEF Begins, InOrder
  <2>2. CASE ~(j <= Len(s))
    <3>1. j - Len(s) \in DOMAIN t /\ (s \o t)[j] = t[j - Len(s)]
      BY <1>3, <2>2
    <3>2. Rank((s \o t)[j]) = 3
      BY <1>4, <3>1
    <3>3. Rank((s \o t)[i]) <= 3
      BY DEF Rank
    <3> QED
      BY <3>2, <3>3
  <2> QED
    BY <2>1, <2>2
<1>6. InOrder(s \o t)
  BY <1>5 DEF InOrder
<1>7. \A m \in Elements(s \o t) : Explained(m)
  BY <1>2 DEF HostOnly, Begins
<1> QED
  BY <1>2, <1>6, <1>7 DEF Begins

\* bwrap is asked for its own mounts, the application and every grant, in
\* this order, and for nothing that has no explanation.
LEMMA Asked ==
    ASSUME Given
    PROVE  /\ Begins(BwrapMounts(perm))
           /\ \A g \in Granted : Bind(g) \in Elements(BwrapMounts(perm))
<1> DEFINE system  == FlatMap(RoBindIfThere, SystemPaths)
           grants  == [i \in DOMAIN perm.filesystem |-> Bind(Grant(perm.filesystem[i]))]
           devices == FlatMap(Device, perm.devices)
           sockets == FlatMap(Ipc, perm.ipc)
           portal  == Runtime(<<"doc", "by-app">>)
           display == Display(perm.display)
<1>1. HostOnly(system)
  BY SystemFine
<1>2. HostOnly(grants) /\ \A g \in Granted : Bind(g) \in Elements(grants)
  BY GrantsFine
<1>3. HostOnly(devices)
  BY DevicesFine
<1>4. HostOnly(sockets)
  BY IpcFine
<1>5. HostOnly(portal)
  BY ReadablePlaces, PlacesTyped, RuntimeFine DEF Given
<1>6. HostOnly(display)
  BY DisplayFine
<1>7. BwrapMounts(perm) =
        Own \o system \o grants \o devices \o sockets \o portal \o display
  BY DEF BwrapMounts
<1> HIDE DEF system, grants, devices, sockets, portal, display
<1> DEFINE a == Own \o system
           b == a \o grants
           c == b \o devices
           d == c \o sockets
           e == d \o portal
<1>8. Begins(a)
  BY <1>1, OwnBegins, Behind
<1> HIDE DEF a
<1>9. Begins(b) /\ Elements(b) = Elements(a) \cup Elements(grants)
  BY <1>2, <1>8, Behind
<1> HIDE DEF b
<1>10. Begins(c) /\ Elements(c) = Elements(b) \cup Elements(devices)
  BY <1>3, <1>9, Behind
<1> HIDE DEF c
<1>11. Begins(d) /\ Elements(d) = Elements(c) \cup Elements(sockets)
  BY <1>4, <1>10, Behind
<1> HIDE DEF d
<1>12. Begins(e) /\ Elements(e) = Elements(d) \cup Elements(portal)
  BY <1>5, <1>11, Behind
<1> HIDE DEF e
<1>13. Begins(e \o display) /\ Elements(e \o display) = Elements(e) \cup Elements(display)
  BY <1>6, <1>12, Behind
<1>14. BwrapMounts(perm) = e \o display
  BY <1>7 DEF a, b, c, d, e
<1> QED
  BY <1>2, <1>9, <1>10, <1>11, <1>12, <1>13, <1>14

LEMMA Made ==
    ASSUME NEW s \in Seq(MountOf), InOrder(s), NEW m \in MountOf,
           \A x \in Elements(s) : Rank(x) <= Rank(m)
    PROVE  InOrder(Append(s, m))
<1>1. /\ Append(s, m) \in Seq(MountOf) /\ Len(Append(s, m)) = Len(s) + 1
      /\ \A i \in 1 .. Len(s) : Append(s, m)[i] = s[i]
      /\ Append(s, m)[Len(s) + 1] = m
  BY AppendProperties
<1>2. /\ Len(s) \in Nat /\ DOMAIN s = 1 .. Len(s)
      /\ DOMAIN Append(s, m) = 1 .. Len(s) + 1
  BY <1>1, LenProperties
<1> SUFFICES ASSUME NEW i \in 1 .. Len(s) + 1, NEW j \in 1 .. Len(s) + 1, i < j
             PROVE  Rank(Append(s, m)[i]) <= Rank(Append(s, m)[j])
  BY <1>2 DEF InOrder
<1>3. i \in 1 .. Len(s) /\ Append(s, m)[i] = s[i] /\ s[i] \in Elements(s)
  BY <1>1, <1>2 DEF Elements
<1>4. CASE j = Len(s) + 1
  BY <1>1, <1>3, <1>4
<1>5. CASE j # Len(s) + 1
  <2>1. j \in 1 .. Len(s) /\ Append(s, m)[j] = s[j]
    BY <1>1, <1>2, <1>5
  <2> QED
    BY <1>2, <1>3, <2>1 DEF InOrder
<1> QED
  BY <1>4, <1>5

LEMMA Left ==
    ASSUME NEW s \in Seq(MountOf), s # <<>>, InOrder(s)
    PROVE  InOrder(Tail(s)) /\ \A x \in Elements(Tail(s)) : Rank(Head(s)) <= Rank(x)
<1>1. /\ Tail(s) \in Seq(MountOf) /\ Len(Tail(s)) = Len(s) - 1
      /\ \A i \in 1 .. Len(Tail(s)) : Tail(s)[i] = s[i + 1]
  BY HeadTailProperties
<1>2. /\ Len(s) \in Nat /\ Len(s) # 0 /\ DOMAIN s = 1 .. Len(s) /\ Head(s) = s[1]
      /\ DOMAIN Tail(s) = 1 .. Len(s) - 1
  BY <1>1, LenProperties, EmptySeq
<1>3. \A i \in 1 .. Len(s) - 1 :
        i + 1 \in DOMAIN s /\ 1 \in DOMAIN s /\ 1 < i + 1 /\ Tail(s)[i] = s[i + 1]
  BY <1>1, <1>2
<1>4. InOrder(Tail(s))
  <2> SUFFICES ASSUME NEW i \in 1 .. Len(s) - 1, NEW j \in 1 .. Len(s) - 1, i < j
               PROVE  Rank(Tail(s)[i]) <= Rank(Tail(s)[j])
    BY <1>2 DEF InOrder
  <2>1. i + 1 < j + 1
    BY <1>2
  <2> QED
    BY <1>3, <2>1 DEF InOrder
<1>5. ASSUME NEW i \in 1 .. Len(s) - 1 PROVE Rank(Head(s)) <= Rank(Tail(s)[i])
  BY <1>2, <1>3 DEF InOrder
<1>6. \A x \in Elements(Tail(s)) : Rank(Head(s)) <= Rank(x)
  BY <1>2, <1>5 DEF Elements
<1> QED
  BY <1>4, <1>6

-----------------------------------------------------------------------------
(* What the sandbox shows.                                                 *)

\* The last mount over a path is what it shows.
LEMMA ShownIsLast ==
    ASSUME NEW n \in Nat, DOMAIN mounts = 1 .. n, NEW p,
           NEW k \in 1 .. n, IsPrefix(mounts[k].dest, p)
    PROVE  \E i \in 1 .. n : /\ k <= i /\ Shown(p) = mounts[i]
                             /\ IsPrefix(mounts[i].dest, p)
<1> DEFINE over == {i \in DOMAIN mounts : IsPrefix(mounts[i].dest, p)}
           last == CHOOSE i \in over : \A j \in over : j <= i
<1>1. over \subseteq 0 .. n /\ k \in over
  OBVIOUS
<1>2. \E i \in over : \A j \in over : j <= i
  <2> HIDE DEF over
  <2> QED
    BY <1>1, Greatest
<1>3. last \in over /\ \A j \in over : j <= last
  <2> HIDE DEF over
  <2> QED
    BY <1>2
<1>4. Shown(p) = mounts[last]
  <2>1. over # {}
    BY <1>1
  <2> QED
    BY <2>1 DEF Shown
<1>5. last \in 1 .. n /\ IsPrefix(mounts[last].dest, p) /\ k <= last
  BY <1>1, <1>3
<1> QED
  BY <1>4, <1>5

LEMMA ShownOwn ==
    ASSUME NEW p, Shown(p).of # "own"
    PROVE  \E k \in DOMAIN mounts : IsPrefix(mounts[k].dest, p)
<1> DEFINE over == {i \in DOMAIN mounts : IsPrefix(mounts[i].dest, p)}
<1>1. CASE over = {}
  <2>1. Shown(p) = Mount(<<>>, "own", TRUE)
    BY <1>1 DEF Shown
  <2>2. Shown(p).of = "own"
    BY <2>1 DEF Mount
  <2> QED
    BY <2>2
<1>2. CASE over # {}
  BY <1>2
<1> QED
  BY <1>1, <1>2

\* A path that ends in another name than run or app is not above /run/app.
LEMMA NotAbove ==
    ASSUME NEW q \in Path, NEW names \in Path, Len(names) # 0,
           names[Len(names)] \notin {"run", "app"}
    PROVE  ~IsPrefix(q \o names, App)
<1> DEFINE p == q \o names
<1>1. Len(q) \in Nat /\ Len(names) \in Nat
  BY LenProperties DEF Path
<1>2. /\ p \in Path /\ Len(p) = Len(q) + Len(names)
      /\ \A i \in 1 .. Len(p) : p[i] = IF i <= Len(q) THEN q[i] ELSE names[i - Len(q)]
  BY ConcatProperties DEF Path
<1> HIDE DEF p
<1>3. p[Len(p)] = names[Len(names)] /\ Len(p) \in 1 .. Len(p) /\ Len(p) \in Nat
  BY <1>1, <1>2
<1>4. App \in Path /\ Len(App) = 2 /\ App[1] = "run" /\ App[2] = "app"
  BY PlacesTyped DEF App
<1>5. ASSUME IsPrefix(p, App) PROVE FALSE
  <2>1. Len(p) <= Len(App) /\ \A i \in 1 .. Len(p) : p[i] = App[i]
    BY <1>2, <1>4, <1>5, PrefixAt DEF Path
  <2>2. Len(p) \in {1, 2} /\ p[Len(p)] = App[Len(p)]
    BY <1>3, <1>4, <2>1
  <2> QED
    BY <1>3, <1>4, <2>2
<1> QED
  BY <1>5 DEF p

LEMMA NotAboveAlone ==
    ASSUME NEW names \in Path, Len(names) # 0, names[Len(names)] \notin {"run", "app"}
    PROVE  ~IsPrefix(names, App)
<1>1. <<>> \in Path /\ <<>> \o names = names
  BY ConcatEmptySeq DEF Path
<1> QED
  BY <1>1, NotAbove

LEMMA NotAboveNames ==
    ASSUME NEW a \in Name, NEW b \in Name \ {"run", "app"}
    PROVE  ~IsPrefix(<<a, b>>, App) /\ ~IsPrefix(<<b>>, App)
<1>1. <<a, b>> \in Path /\ <<b>> \in Path
  BY DEF Path
<1>2. /\ Len(<<a, b>>) = 2 /\ <<a, b>>[2] = b
      /\ Len(<<b>>) = 1 /\ <<b>>[1] = b
  OBVIOUS
<1>3. ~IsPrefix(<<a, b>>, App)
  <2> DEFINE p == <<a, b>>
  <2>1. p \in Path /\ Len(p) = 2 /\ p[Len(p)] \notin {"run", "app"}
    BY <1>1, <1>2
  <2> HIDE DEF p
  <2>2. p \in Path /\ Len(p) # 0 /\ p[Len(p)] \notin {"run", "app"}
    BY <2>1
  <2>3. ~IsPrefix(p, App)
    BY ONLY <2>2, NotAboveAlone
  <2> QED
    BY <2>3 DEF p
<1>4. ~IsPrefix(<<b>>, App)
  <2> DEFINE p == <<b>>
  <2>1. p \in Path /\ Len(p) = 1 /\ p[Len(p)] \notin {"run", "app"}
    BY <1>1, <1>2
  <2> HIDE DEF p
  <2>2. p \in Path /\ Len(p) # 0 /\ p[Len(p)] \notin {"run", "app"}
    BY <2>1
  <2>3. ~IsPrefix(p, App)
    BY ONLY <2>2, NotAboveAlone
  <2> QED
    BY <2>3 DEF p
<1> QED
  BY <1>3, <1>4

\* Of what is bound to be read, only XAUTHORITY can hide the application.
LEMMA ReadableNotAbove ==
    ASSUME env \in Environments, NEW p \in Readable, IsPrefix(p, App)
    PROVE  /\ spec.display = "x11" /\ env["$XAUTHORITY"] # None
           /\ IsPrefix(env["$XAUTHORITY"], App)
<1>1. /\ <<"usr">> \in Path /\ <<"lib">> \in Path /\ <<"lib64">> \in Path
      /\ <<"bin">> \in Path /\ <<"sbin">> \in Path /\ <<"etc">> \in Path
      /\ <<"nix", "store">> \in Path
  BY NameAssumption DEF NameAssumption, Path
<1>2. /\ ~IsPrefix(<<"usr">>, App) /\ ~IsPrefix(<<"lib">>, App)
      /\ ~IsPrefix(<<"lib64">>, App) /\ ~IsPrefix(<<"bin">>, App)
      /\ ~IsPrefix(<<"sbin">>, App) /\ ~IsPrefix(<<"etc">>, App)
      /\ ~IsPrefix(<<"nix", "store">>, App)
  BY NameAssumption, NotAboveNames DEF NameAssumption
<1>3. ~IsPrefix(<<"dev", "dri">>, App) /\ ~IsPrefix(<<"dev", "snd">>, App)
      /\ ~IsPrefix(<<"dev", "input">>, App)
  BY NameAssumption, NotAboveNames DEF NameAssumption
<1>4. ~IsPrefix(X11Socket, App)
  BY NameAssumption, NotAboveNames DEF NameAssumption, X11Socket
<1>5. ASSUME NEW names \in {<<"doc", "by-app">>, <<"wayland-0">>, <<"bus">>},
             NEW q \in InRuntime(names)
      PROVE  ~IsPrefix(q, App)
  <2>1. names \in Path
    BY PlacesTyped
  <2>2. Len(names) # 0 /\ names[Len(names)] \notin {"run", "app"}
    <3>1. CASE names = <<"doc", "by-app">>
      <4>1. Len(names) = 2 /\ names[2] = "by-app"
        BY ONLY <3>1
      <4> QED
        BY ONLY <4>1
    <3>2. CASE names = <<"wayland-0">>
      <4>1. Len(names) = 1 /\ names[1] = "wayland-0"
        BY ONLY <3>2
      <4> QED
        BY ONLY <4>1
    <3>3. CASE names = <<"bus">>
      <4>1. Len(names) = 1 /\ names[1] = "bus"
        BY ONLY <3>3
      <4> QED
        BY ONLY <4>1
    <3> QED
      BY <3>1, <3>2, <3>3
  <2>3. /\ env["$XDG_RUNTIME_DIR"] \in Path
        /\ q = env["$XDG_RUNTIME_DIR"] \o names
    BY EnvTyped DEF InRuntime
  <2> QED
    BY <2>1, <2>2, <2>3, NotAbove
<1>6. \A i \in DOMAIN SystemPaths : ~IsPrefix(SystemPaths[i], App)
  <2>1. DOMAIN SystemPaths = 1 .. 7
    BY <1>1 DEF SystemPaths
  <2> QED
    BY <1>2, <2>1 DEF SystemPaths
<1>7. ASSUME NEW names, p \in InRuntime(names),
             names \in {<<"doc", "by-app">>, <<"wayland-0">>, <<"bus">>}
      PROVE  FALSE
  BY <1>5, <1>7
<1>8. /\ p \notin InRuntime(<<"doc", "by-app">>) /\ p \notin InRuntime(<<"wayland-0">>)
      /\ p \notin InRuntime(<<"bus">>)
  BY <1>7
<1>9. /\ p \notin {SystemPaths[i] : i \in DOMAIN SystemPaths}
      /\ p \notin {<<"dev", "dri">>} /\ p \notin {<<"dev", "snd">>}
      /\ p \notin {<<"dev", "input">>} /\ p \notin {X11Socket}
  BY <1>3, <1>4, <1>6
<1>10. p \in {env["$XAUTHORITY"]} \ {None} /\ spec.display = "x11"
  BY <1>8, <1>9 DEF Readable
<1> QED
  BY <1>10

-----------------------------------------------------------------------------
(* The invariant.                                                          *)

\* Of bwrap's mounts: those to make follow those that are made, each has an
\* explanation, those made were there, and until bwrap fails the application
\* and every grant are among them.
Mounts ==
    /\ args \in Seq(MountOf) /\ mounts \in Seq(MountOf)
    /\ InOrder(args) /\ InOrder(mounts)
    /\ \A x \in Elements(mounts), y \in Elements(args) : Rank(x) <= Rank(y)
    /\ \A x \in Elements(args) \cup Elements(mounts) : Explained(x)
    /\ \A x \in Elements(mounts) : x.of = "host" => x.dest \in Lasting \cup Volatile
    /\ pc # "failed" =>
          /\ AppMount \in Elements(args) \cup Elements(mounts)
          /\ \A g \in Granted : Bind(g) \in Elements(args) \cup Elements(mounts)
    /\ Executed => args = <<>> /\ mounts # <<>>

Before == pc \in {"packing", "packed"}

SandboxInv ==
    /\ pc \in {"packing", "packed", "mounting", "running", "killed", "failed"}
    /\ spec \in PackSpecs /\ env \in Environments
    /\ perm = IF pc = "packing" THEN None ELSE Permissions(spec)
    /\ host \subseteq Lasting \cup Volatile /\ gone \subseteq Volatile \ host
    /\ Before => args = <<>> /\ mounts = <<>> /\ filter = <<>> /\ net = FALSE
    /\ ~Before => Mounts /\ net = SharesNetwork(perm) /\ filter = SeccompFilter(perm)
    /\ call # None => Executed
    /\ FailureExplained

LEMMA InitSandbox ==
    ASSUME Init
    PROVE  SandboxInv
<1>1. pc = "packing" /\ Before /\ host \subseteq Lasting \cup Volatile
  BY DEF Init, Before
<1>2. FailureExplained
  BY <1>1 DEF FailureExplained
<1> QED
  BY <1>1, <1>2 DEF Init, SandboxInv

\* What the spec asks for does not change.
LEMMA AskedForStays ==
    ASSUME UNCHANGED <<spec, env>>
    PROVE  /\ Granted' = Granted /\ Readable' = Readable
           /\ Listed("ipc", "x11")' = Listed("ipc", "x11")
<1>1. Granted' = Granted
  BY DEF Granted, Grant, Expand
<1>2. Readable' = Readable
  BY DEF Readable, InRuntime, Listed
<1>3. Listed("ipc", "x11")' = Listed("ipc", "x11")
  BY DEF Listed
<1> QED
  BY <1>1, <1>2, <1>3

LEMMA ExplainedStays ==
    ASSUME UNCHANGED <<spec, env>>, host \cup gone \subseteq host' \cup gone',
           NEW m, Explained(m)
    PROVE  Explained(m)'
BY AskedForStays DEF Explained

\* Where neither the host nor the end of bwrap is concerned, the explanation
\* of a failure stays.
LEMMA FailureStays ==
    ASSUME FailureExplained, UNCHANGED <<spec, env, host, gone>>,
           pc' = "failed" => pc = "failed"
    PROVE  FailureExplained'
<1>1. /\ Granted' = Granted /\ Readable' = Readable
      /\ Listed("ipc", "x11")' = Listed("ipc", "x11")
  BY AskedForStays
<1> QED
  BY <1>1 DEF FailureExplained

LEMMA PackStep ==
    ASSUME SandboxInv, Pack
    PROVE  SandboxInv'
<1>1. pc = "packing" /\ pc' = "packed" /\ Before /\ Before' /\ call = None
  BY DEF SandboxInv, Pack, Executed, Before
<1>2. FailureExplained'
  BY <1>1, FailureStays DEF SandboxInv, Pack
<1> QED
  BY <1>1, <1>2 DEF SandboxInv, Pack

LEMMA AskStep ==
    ASSUME SandboxInv, Ask
    PROVE  SandboxInv'
<1>1. /\ pc = "packed" /\ pc' = "mounting" /\ Before /\ ~Before' /\ ~Executed'
      /\ call = None /\ mounts = <<>>
  BY DEF SandboxInv, Ask, Executed, Before
<1>2. Given /\ perm' = perm
  BY <1>1 DEF SandboxInv, Ask, Given
<1>3. /\ Begins(args')
      /\ \A g \in Granted : Bind(g) \in Elements(args')
  BY <1>2, Asked DEF Ask
<1>4. FailureExplained'
  BY <1>1, FailureStays DEF SandboxInv, Ask
<1>5. Mounts'
  <2>1. mounts' = <<>> /\ mounts' \in Seq(MountOf) /\ Elements(mounts') = {} /\ InOrder(mounts')
    BY <1>1 DEF Ask, Elements, InOrder
  <2>2. \A x \in Elements(args') : Explained(x)'
    BY <1>3, ExplainedStays DEF Ask, Begins
  <2>3. Granted' = Granted
    BY AskedForStays DEF Ask
  <2> QED
    BY <1>1, <1>3, <2>1, <2>2, <2>3 DEF Mounts, Begins
<1>6. net' = SharesNetwork(perm)' /\ filter' = SeccompFilter(perm)'
  BY <1>2 DEF Ask, SharesNetwork, SeccompFilter
<1> QED
  BY <1>1, <1>4, <1>5, <1>6 DEF SandboxInv, Ask

LEMMA VanishStep ==
    ASSUME SandboxInv, NEW p \in Volatile, Vanish(p)
    PROVE  SandboxInv'
<1>1. /\ pc' = pc /\ pc \in {"packed", "mounting"} /\ ~Executed /\ ~Executed'
      /\ Before' = Before
  BY DEF Vanish, Executed, Before
<1>2. /\ host' \subseteq Lasting \cup Volatile /\ gone' \subseteq Volatile \ host'
      /\ host \cup gone \subseteq host' \cup gone'
  BY DEF SandboxInv, Vanish
<1>3. FailureExplained'
  BY <1>1 DEF FailureExplained
<1>4. Mounts => Mounts'
  <2> SUFFICES ASSUME Mounts PROVE Mounts'
    OBVIOUS
  <2>1. \A x \in Elements(args) \cup Elements(mounts) : Explained(x)'
    BY <1>2, ExplainedStays DEF Mounts, Vanish
  <2>2. Granted' = Granted
    BY AskedForStays DEF Vanish
  <2> QED
    BY <1>1, <2>1, <2>2 DEF Mounts, Vanish
<1> QED
  BY <1>1, <1>2, <1>3, <1>4 DEF SandboxInv, Vanish

LEMMA MountStep ==
    ASSUME SandboxInv, MountNext
    PROVE  SandboxInv'
<1> DEFINE m == Head(args)
<1>1. pc = "mounting" /\ ~Before /\ args # <<>> /\ Mounts /\ pc' \in {"mounting", "failed"}
      /\ ~Before' /\ ~Executed' /\ ~Executed
  BY DEF SandboxInv, MountNext, Before, Executed
<1>2. /\ m \in MountOf /\ args' = Tail(args) /\ args' \in Seq(MountOf)
      /\ Elements(args) = {m} \cup Elements(args')
  BY <1>1, ElementsOfTail DEF Mounts, MountNext
<1>3. InOrder(args') /\ \A x \in Elements(args') : Rank(m) <= Rank(x)
  BY <1>1, <1>2, Left DEF Mounts
<1>4. \A x \in Elements(args) \cup Elements(mounts) : Explained(x)'
  BY <1>1, ExplainedStays DEF Mounts, MountNext
<1>5. /\ Granted' = Granted /\ Readable' = Readable
      /\ Listed("ipc", "x11")' = Listed("ipc", "x11")
  BY AskedForStays DEF MountNext
<1> HIDE DEF m
<1>6. CASE HasSource(m) /\ mounts' = Append(mounts, m) /\ UNCHANGED pc
  <2>1. /\ mounts' \in Seq(MountOf) /\ Elements(mounts') = Elements(mounts) \cup {m}
    BY <1>1, <1>2, <1>6, ElementsOfAppend DEF Mounts
  <2>2. InOrder(mounts')
    BY <1>1, <1>2, <1>6, Made DEF Mounts
  <2>3. m.of = "host" => m.dest \in Lasting \cup Volatile
    BY <1>6 DEF HasSource, SandboxInv
  <2>4. \A x \in Elements(mounts'), y \in Elements(args') : Rank(x) <= Rank(y)
    BY <1>1, <1>2, <1>3, <2>1 DEF Mounts
  <2>5. /\ AppMount \in Elements(args') \cup Elements(mounts')
        /\ \A g \in Granted : Bind(g) \in Elements(args') \cup Elements(mounts')
    BY <1>1, <1>2, <2>1 DEF Mounts
  <2>6. Mounts'
    BY <1>1, <1>2, <1>3, <1>4, <1>5, <2>1, <2>2, <2>3, <2>4, <2>5 DEF Mounts
  <2>7. FailureExplained'
    BY <1>1, <1>6 DEF FailureExplained
  <2> QED
    BY <1>1, <1>6, <2>6, <2>7 DEF SandboxInv, MountNext, SharesNetwork, SeccompFilter
<1>7. CASE ~HasSource(m) /\ m.try /\ UNCHANGED <<mounts, pc>>
  <2>1. m # AppMount /\ \A g : m # Bind(g)
    <3>1. AppMount.try = FALSE /\ \A g : Bind(g).try = FALSE
      BY MountFields DEF AppMount, Mount
    <3>2. m.try
      BY <1>7
    <3> QED
      BY <3>1, <3>2
  <2>2. /\ AppMount \in Elements(args') \cup Elements(mounts')
        /\ \A g \in Granted : Bind(g) \in Elements(args') \cup Elements(mounts')
    BY <1>1, <1>2, <1>7, <2>1 DEF Mounts
  <2>3. \A x \in Elements(mounts'), y \in Elements(args') : Rank(x) <= Rank(y)
    BY <1>1, <1>2, <1>7 DEF Mounts
  <2>4. Mounts'
    BY <1>1, <1>2, <1>3, <1>4, <1>5, <1>7, <2>2, <2>3 DEF Mounts
  <2>5. FailureExplained'
    BY <1>1, <1>7 DEF FailureExplained
  <2> QED
    BY <1>1, <1>7, <2>4, <2>5 DEF SandboxInv, MountNext, SharesNetwork, SeccompFilter
<1>8. CASE ~HasSource(m) /\ ~m.try /\ pc' = "failed" /\ UNCHANGED mounts
  <2>1. \A x \in Elements(mounts'), y \in Elements(args') : Rank(x) <= Rank(y)
    BY <1>1, <1>2, <1>8 DEF Mounts
  <2>2. Mounts'
    BY <1>1, <1>2, <1>3, <1>4, <1>8, <2>1 DEF Mounts
  <2>3. m.of = "host" /\ m.dest \notin host /\ Explained(m)
    BY <1>1, <1>2, <1>8 DEF HasSource, Mounts
  <2>4. \/ m.dest \in Granted
        \/ m.dest = X11Socket /\ Listed("ipc", "x11")
        \/ m.dest \in gone \cap Readable
    BY <1>8, <2>3 DEF Explained
  <2>5. FailureExplained'
    BY <1>5, <2>3, <2>4 DEF FailureExplained, MountNext
  <2> QED
    BY <1>1, <1>8, <2>2, <2>5 DEF SandboxInv, MountNext, SharesNetwork, SeccompFilter
<1> QED
  BY <1>6, <1>7, <1>8 DEF MountNext, m

LEMMA ExecStep ==
    ASSUME SandboxInv, Exec
    PROVE  SandboxInv'
<1>1. /\ pc = "mounting" /\ ~Before /\ ~Before' /\ Mounts /\ args = <<>>
      /\ pc' \in {"running", "failed"} /\ ~Executed
  BY DEF SandboxInv, Exec, Before, Executed
<1>2. Len(mounts) \in Nat /\ DOMAIN mounts = 1 .. Len(mounts) /\ Elements(args) = {}
  BY <1>1, LenProperties DEF Mounts, Elements
<1>3. PICK k \in 1 .. Len(mounts) : mounts[k] = AppMount
  BY <1>1, <1>2 DEF Mounts, Elements
<1>4. IsPrefix(mounts[k].dest, App)
  <2>1. AppMount.dest = App
    BY DEF AppMount, Mount
  <2> QED
    BY <1>3, <2>1, PlacesTyped, PrefixOfItself DEF Path
<1>5. PICK i \in 1 .. Len(mounts) : /\ k <= i /\ Shown(App) = mounts[i]
                                    /\ IsPrefix(mounts[i].dest, App)
  BY <1>2, <1>4, ShownIsLast
<1>6. mounts[i] \in Elements(mounts)
  BY <1>2 DEF Elements
<1>7. Rank(AppMount) = 2 /\ Rank(AppMount) <= Rank(mounts[i])
  <2>1. AppMount.of = "app"
    BY DEF AppMount, Mount
  <2>2. k = i \/ k < i
    BY <1>5
  <2>3. Rank(AppMount) <= Rank(mounts[i])
    BY <1>1, <1>2, <1>3, <2>1, <2>2 DEF Mounts, InOrder, Rank
  <2> QED
    BY <2>1, <2>3 DEF Rank
<1>8. mounts[i].of = "app" \/ mounts[i].of = "host"
  <2>1. mounts[i] \in MountOf
    BY <1>1, <1>2 DEF Mounts
  <2>2. mounts[i].of \in {"own", "app", "host"}
    BY <2>1 DEF MountOf
  <2> QED
    BY <1>7, <2>2 DEF Rank
<1>9. FailureExplained'
  <2> SUFFICES ASSUME pc' = "failed" PROVE FailureExplained'
    BY DEF FailureExplained
  <2>1. mounts[i].of = "host" /\ Explained(mounts[i])
    BY <1>1, <1>5, <1>6, <1>8 DEF Exec, Mounts
  <2>2. mounts[i].dest \in Granted \cup Readable
    BY <2>1 DEF Explained
  <2>3. Granted' = Granted
    BY AskedForStays DEF Exec
  <2>4. CASE mounts[i].dest \in Granted
    BY <1>5, <2>3, <2>4 DEF FailureExplained
  <2>5. CASE mounts[i].dest \in Readable
    <3>1. /\ spec.display = "x11" /\ env["$XAUTHORITY"] # None
          /\ IsPrefix(env["$XAUTHORITY"], App)
      BY <1>5, <2>5, ReadableNotAbove DEF SandboxInv
    <3> QED
      BY <3>1 DEF FailureExplained, Exec
  <2> QED
    BY <2>2, <2>4, <2>5
<1>10. Mounts'
  <2>1. \A x \in Elements(args) \cup Elements(mounts) : Explained(x)'
    BY <1>1, ExplainedStays DEF Mounts, Exec
  <2>2. Granted' = Granted
    BY AskedForStays DEF Exec
  <2>3. mounts # <<>>
    BY <1>2, <1>3
  <2> QED
    BY <1>1, <2>1, <2>2, <2>3 DEF Mounts, Exec
<1>11. call = None
  BY <1>1 DEF SandboxInv
<1> QED
  BY <1>1, <1>9, <1>10, <1>11 DEF SandboxInv, Exec, SharesNetwork, SeccompFilter

LEMMA SyscallStep ==
    ASSUME SandboxInv, NEW nr \in SystemCall, NEW arch \in Arch, Syscall(nr, arch)
    PROVE  SandboxInv'
<1>1. /\ pc = "running" /\ pc' \in {"running", "killed"} /\ Executed /\ Executed'
      /\ ~Before /\ ~Before' /\ UNCHANGED <<spec, perm, env, host, gone, args, mounts, net, filter>>
  BY DEF Syscall, Before, Executed
<1>2. FailureExplained'
  BY <1>1 DEF FailureExplained
<1>3. Mounts'
  <2>1. Mounts
    BY <1>1 DEF SandboxInv
  <2>2. \A x \in Elements(args) \cup Elements(mounts) : Explained(x)'
    BY <1>1, <2>1, ExplainedStays DEF Mounts
  <2>3. Granted' = Granted
    BY <1>1, AskedForStays
  <2> QED
    BY <1>1, <2>1, <2>2, <2>3 DEF Mounts
<1> QED
  BY <1>1, <1>2, <1>3 DEF SandboxInv, SharesNetwork, SeccompFilter

LEMMA SandboxStep ==
    ASSUME SandboxInv, [Next]_vars
    PROVE  SandboxInv'
<1>1. CASE Pack
  BY <1>1, PackStep
<1>2. CASE Ask
  BY <1>2, AskStep
<1>3. CASE MountNext
  BY <1>3, MountStep
<1>4. CASE Exec
  BY <1>4, ExecStep
<1>5. CASE \E p \in Volatile : Vanish(p)
  BY <1>5, VanishStep
<1>6. CASE \E nr \in SystemCall, arch \in Arch : Syscall(nr, arch)
  BY <1>6, SyscallStep
<1>7. CASE UNCHANGED vars
  <2>1. \A x : Explained(x) => Explained(x)'
    BY <1>7, ExplainedStays DEF vars
  <2>2. Granted' = Granted
    BY <1>7, AskedForStays DEF vars
  <2>3. FailureExplained'
    BY <1>7, FailureStays DEF vars, SandboxInv
  <2>4. Mounts => Mounts'
    BY <1>7, <2>1, <2>2 DEF vars, Mounts, Executed
  <2> QED
    BY <1>7, <2>3, <2>4 DEF vars, SandboxInv, Before, Executed, SharesNetwork, SeccompFilter
<1> QED
  BY <1>1, <1>2, <1>3, <1>4, <1>5, <1>6, <1>7 DEF Next

-----------------------------------------------------------------------------
(* The seccomp program.                                                    *)

Instruction == [op : {"ld", "jeq", "ret"},
                k : Nat \cup {"arch", "nr", "x86-64", "kill", "eperm", "allow"},
                jt : Nat, jf : Nat]

LEMMA BlacklistTyped ==
    Len(Blacklist) = 16 /\ DOMAIN Blacklist = 1 .. 16 /\ \A k \in 1 .. 16 : Blacklist[k] \in Nat
<1>1. Blacklist \in Seq(Nat) /\ Len(Blacklist) = 16
  BY DEF Blacklist
<1> QED
  BY <1>1, LenProperties

\* Where the instructions are: the test of the architecture, two for each
\* call of the list, and the verdict on the rest.
LEMMA BlockLayout ==
    /\ Len(Block) = 37
    /\ Block[1] = Load("arch") /\ Block[2] = JumpEq("x86-64", 1, 0)
    /\ Block[3] = Return("kill") /\ Block[4] = Load("nr")
    /\ \A k \in 1 .. 16 : /\ Block[2 * k + 3] = JumpEq(Blacklist[k], 0, 1)
                          /\ Block[2 * k + 4] = Return("eperm")
    /\ Block[37] = Return("allow")
<1> DEFINE head == << Load("arch"), JumpEq("x86-64", 1, 0), Return("kill"), Load("nr") >>
           pair(k) == << JumpEq(Blacklist[k], 0, 1), Return("eperm") >>
           pairs == [k \in DOMAIN Blacklist |-> pair(k)]
           rest == << Return("allow") >>
<1>1. /\ Load("arch") \in Instruction /\ JumpEq("x86-64", 1, 0) \in Instruction
      /\ Return("kill") \in Instruction /\ Load("nr") \in Instruction
      /\ Return("eperm") \in Instruction /\ Return("allow") \in Instruction
  BY DEF Load, JumpEq, Return, Instruction
<1>2. \A k \in 1 .. 16 : JumpEq(Blacklist[k], 0, 1) \in Instruction
  BY BlacklistTyped DEF JumpEq, Instruction
<1>3. /\ head \in Seq(Instruction) /\ Len(head) = 4
      /\ head[1] = Load("arch") /\ head[2] = JumpEq("x86-64", 1, 0)
      /\ head[3] = Return("kill") /\ head[4] = Load("nr")
  <2> DEFINE a == Load("arch")
             b == JumpEq("x86-64", 1, 0)
             c == Return("kill")
             d == Load("nr")
  <2>1. head = <<a, b, c, d>>
    OBVIOUS
  <2>2. a \in Instruction /\ b \in Instruction /\ c \in Instruction /\ d \in Instruction
    BY <1>1
  <2> HIDE DEF a, b, c, d, head
  <2>3. head \in Seq(Instruction) /\ Len(head) = 4
        /\ head[1] = a /\ head[2] = b /\ head[3] = c /\ head[4] = d
    BY <2>1, <2>2
  <2> QED
    BY <2>3 DEF a, b, c, d
<1>4. rest \in Seq(Instruction) /\ Len(rest) = 1 /\ rest[1] = Return("allow")
  BY <1>1
<1>5. ASSUME NEW k \in 1 .. 16
      PROVE  /\ pair(k) \in Seq(Instruction) /\ Len(pair(k)) = 2
             /\ pair(k)[1] = JumpEq(Blacklist[k], 0, 1) /\ pair(k)[2] = Return("eperm")
  <2> DEFINE a == JumpEq(Blacklist[k], 0, 1)
             b == Return("eperm")
  <2>1. a \in Instruction /\ b \in Instruction /\ pair(k) = <<a, b>>
    BY <1>1, <1>2
  <2> HIDE DEF a, b, pair
  <2>2. pair(k) \in Seq(Instruction) /\ Len(pair(k)) = 2 /\ pair(k)[1] = a /\ pair(k)[2] = b
    BY <2>1
  <2> QED
    BY <2>2 DEF a, b
<1> HIDE DEF head, rest, pair
<1>6. /\ pairs \in Seq(Seq(Instruction)) /\ Len(pairs) = 16
      /\ \A k \in 1 .. 16 : pairs[k] = pair(k)
  <2>1. pairs \in [1 .. 16 -> Seq(Instruction)]
    BY <1>5, BlacklistTyped
  <2>2. \A k \in 1 .. 16 : pairs[k] = pair(k)
    BY BlacklistTyped
  <2> DEFINE V == Seq(Instruction)
  <2> HIDE DEF pairs, V
  <2>3. pairs \in [1 .. 16 -> V]
    BY <2>1 DEF V
  <2>4. pairs \in Seq(V) /\ Len(pairs) = 16
    BY <2>3, FunctionIsSequence
  <2> QED
    BY <2>2, <2>4 DEF V
<1>7. Block = head \o FlattenSeq(pairs) \o rest
  BY DEF Block, head, rest, pair
<1> HIDE DEF pairs
<1> DEFINE flat == FlattenSeq(pairs)
<1>8. flat \in Seq(Instruction) /\ Len(flat) = 32
      /\ \A k \in 1 .. 16 : flat[2 * k - 1] = pairs[k][1] /\ flat[2 * k] = pairs[k][2]
  <2>1. flat \in Seq(Instruction)
    BY <1>6, FlattenElements
  <2>2. \A k \in 1 .. Len(pairs) : Len(pairs[k]) = 2
    BY <1>5, <1>6
  <2>3. /\ Len(flat) = 2 * Len(pairs)
        /\ \A k \in 1 .. Len(pairs) :
              flat[2 * k - 1] = pairs[k][1] /\ flat[2 * k] = pairs[k][2]
    BY <1>6, <2>2, FlattenPairs
  <2>4. Len(pairs) = 16 /\ 2 * 16 = 32
    BY <1>6
  <2> HIDE DEF flat
  <2> QED
    BY <2>1, <2>3, <2>4
<1> HIDE DEF flat
<1> DEFINE all == head \o flat \o rest
<1>9. /\ Len(all) = Len(head) + Len(flat) + Len(rest)
      /\ \A i \in 1 .. Len(head) : all[i] = head[i]
      /\ \A i \in 1 .. Len(flat) : all[i + Len(head)] = flat[i]
      /\ \A i \in 1 .. Len(rest) : all[i + (Len(head) + Len(flat))] = rest[i]
  <2>1. head \in Seq(Instruction) /\ flat \in Seq(Instruction) /\ rest \in Seq(Instruction)
    BY <1>3, <1>4, <1>8
  <2>2. /\ Len(head \o flat \o rest) = Len(head) + Len(flat) + Len(rest)
        /\ \A i \in 1 .. Len(head) : (head \o flat \o rest)[i] = head[i]
        /\ \A i \in 1 .. Len(flat) : (head \o flat \o rest)[i + Len(head)] = flat[i]
        /\ \A i \in 1 .. Len(rest) :
              (head \o flat \o rest)[i + (Len(head) + Len(flat))] = rest[i]
    BY ONLY <2>1, ConcatThree
  <2> QED
    BY <2>2
<1>10. Len(head) = 4 /\ Len(flat) = 32 /\ Len(rest) = 1
  BY <1>3, <1>4, <1>8
<1>11. Block = all
  BY <1>7 DEF flat
<1> HIDE DEF all
<1>12. /\ Len(Block) = 37
       /\ \A i \in 1 .. 4 : Block[i] = head[i]
       /\ \A i \in 1 .. 32 : Block[i + 4] = flat[i]
       /\ \A i \in 1 .. 1 : Block[i + (4 + 32)] = rest[i]
  BY <1>9, <1>10, <1>11
<1>13. ASSUME NEW k \in 1 .. 16
       PROVE  /\ Block[2 * k + 3] = JumpEq(Blacklist[k], 0, 1)
              /\ Block[2 * k + 4] = Return("eperm")
  <2> DEFINE i == 2 * k - 1
             j == 2 * k
  <2>1. i \in 1 .. 32 /\ j \in 1 .. 32 /\ i + 4 = 2 * k + 3 /\ j + 4 = 2 * k + 4
    OBVIOUS
  <2>2. flat[i] = pairs[k][1] /\ flat[j] = pairs[k][2]
    BY <1>8
  <2> HIDE DEF i, j
  <2>3. Block[i + 4] = flat[i] /\ Block[j + 4] = flat[j]
    BY <1>12, <2>1
  <2>4. pairs[k] = pair(k)
    BY <1>6
  <2>5. pair(k)[1] = JumpEq(Blacklist[k], 0, 1) /\ pair(k)[2] = Return("eperm")
    BY <1>5
  <2>6. Block[i + 4] = JumpEq(Blacklist[k], 0, 1) /\ Block[j + 4] = Return("eperm")
    BY <2>2, <2>3, <2>4, <2>5
  <2> QED
    BY <2>1, <2>6
<1>14. Block[37] = Return("allow")
  <2>1. 1 \in 1 .. 1 /\ 1 + (4 + 32) = 37
    OBVIOUS
  <2> QED
    BY <1>4, <1>12, <2>1
<1> QED
  BY <1>3, <1>12, <1>13, <1>14

LEMMA Positions ==
    ASSUME NEW i \in 1 .. 37
    PROVE  \/ i \in {1, 2, 3, 4, 37}
           \/ \E k \in 1 .. 16 : i = 2 * k + 3 \/ i = 2 * k + 4
<1>1. CASE i \in 5 .. 36
  <2> DEFINE k == (i - 3) \div 2
  <2>1. k \in 1 .. 16 /\ (i = 2 * k + 3 \/ i = 2 * k + 4)
    BY <1>1
  <2> QED
    BY <2>1
<1> QED
  BY <1>1

\* The program that allows all differs in its first instruction.
LEMMA ProgramsDiffer ==
    AllowAll # <<>> /\ Block # <<>> /\ Block # AllowAll
<1>1. Len(AllowAll) = 1
  BY DEF AllowAll
<1>2. Len(Block) = 37
  BY BlockLayout
<1>3. AllowAll # <<>> /\ Block # AllowAll
  BY <1>1, <1>2 DEF AllowAll
<1>4. Block # <<>>
  <2> DEFINE b == Block
  <2>1. Len(b) # 0
    BY <1>2
  <2> HIDE DEF b
  <2>2. b # <<>>
    BY <2>1
  <2> QED
    BY <2>2 DEF b
<1> QED
  BY <1>3, <1>4

\* One step of the kernel: what it answers at i if h answers after it.
Judges(prog, nr, arch, h) ==
    LET value(i) == IF Loaded(prog, i) = "arch" THEN arch ELSE nr IN
    [i \in 1 .. Len(prog) |->
          CASE prog[i].op = "ret" -> prog[i].k
            [] prog[i].op = "ld"  -> h[i + 1]
            [] OTHER -> h[i + 1 + (IF value(i) = prog[i].k THEN prog[i].jt
                                                           ELSE prog[i].jf)]]

LEMMA AnswerIsFixpoint ==
    ASSUME NEW prog, NEW nr, NEW arch
    PROVE  Answer(prog, nr, arch) = (CHOOSE h : h = Judges(prog, nr, arch, h))[1]
BY DEF Answer, Judges

LEMMA AllowAllAnswers ==
    ASSUME NEW nr, NEW arch
    PROVE  Answer(AllowAll, nr, arch) = "allow"
<1> DEFINE w == [i \in {1} |-> "allow"]
           c == CHOOSE h : h = Judges(AllowAll, nr, arch, h)
<1>1. Len(AllowAll) = 1 /\ AllowAll[1].op = "ret" /\ AllowAll[1].k = "allow"
  BY DEF AllowAll, Return
<1>2. ASSUME NEW h PROVE Judges(AllowAll, nr, arch, h) = w
  BY <1>1 DEF Judges
<1>3. c = Judges(AllowAll, nr, arch, c)
  <2>1. w = Judges(AllowAll, nr, arch, w)
    BY <1>2
  <2> HIDE DEF w
  <2> QED
    BY <2>1
<1>4. c[1] = "allow"
  <2> HIDE DEF c
  <2> QED
    BY <1>2, <1>3
<1> QED
  BY <1>4, AnswerIsFixpoint

LEMMA BlockFields ==
    /\ Len(Block) = 37
    /\ Block[1].op = "ld" /\ Block[1].k = "arch"
    /\ Block[2].op = "jeq" /\ Block[2].k = "x86-64" /\ Block[2].jt = 1 /\ Block[2].jf = 0
    /\ Block[3].op = "ret" /\ Block[3].k = "kill"
    /\ Block[4].op = "ld" /\ Block[4].k = "nr"
    /\ \A k \in 1 .. 16 :
          /\ Block[2 * k + 3].op = "jeq" /\ Block[2 * k + 3].k = Blacklist[k]
          /\ Block[2 * k + 3].jt = 0 /\ Block[2 * k + 3].jf = 1
          /\ Block[2 * k + 4].op = "ret" /\ Block[2 * k + 4].k = "eperm"
    /\ Block[37].op = "ret" /\ Block[37].k = "allow"
<1>1. \A f, t, u : /\ JumpEq(f, t, u).op = "jeq" /\ JumpEq(f, t, u).k = f
                   /\ JumpEq(f, t, u).jt = t /\ JumpEq(f, t, u).jf = u
                   /\ Load(f).op = "ld" /\ Load(f).k = f
                   /\ Return(f).op = "ret" /\ Return(f).k = f
  BY DEF JumpEq, Load, Return
<1> QED
  BY <1>1, BlockLayout

\* The accumulator holds the architecture at the first test, and the number
\* of the call at the others.
LEMMA Accumulator ==
    ASSUME NEW i \in 1 .. 37
    PROVE  (i = 2 => Loaded(Block, i) = "arch") /\ (4 <= i => Loaded(Block, i) = "nr")
<1> DEFINE loads == {j \in 1 .. i : Block[j].op = "ld"}
           last == CHOOSE j \in loads : \A l \in loads : l <= j
<1>1. ASSUME NEW j \in 1 .. 37, Block[j].op = "ld" PROVE j \in {1, 4}
  BY <1>1, Positions, BlockFields
<1>2. Loaded(Block, i) = Block[last].k
  BY DEF Loaded
<1>3. CASE i = 2
  <2>1. loads = {1}
    BY <1>1, <1>3, BlockFields
  <2>2. last \in loads
    <3> HIDE DEF loads
    <3>1. 1 \in loads /\ \A l \in loads : l <= 1
      BY <2>1
    <3> QED
      BY <3>1
  <2> HIDE DEF last, loads
  <2> QED
    BY <1>2, <1>3, <2>1, <2>2, BlockFields
<1>4. CASE 4 <= i
  <2>1. loads = {1, 4}
    BY <1>1, <1>4, BlockFields
  <2>2. last \in loads /\ \A l \in loads : l <= last
    <3> HIDE DEF loads
    <3>1. 4 \in loads /\ \A l \in loads : l <= 4
      BY <2>1
    <3> QED
      BY <3>1
  <2> HIDE DEF last, loads
  <2>3. last = 4
    BY <2>1, <2>2
  <2> QED
    BY <1>2, <1>4, <2>3, BlockFields
<1> HIDE DEF last
<1> QED
  BY <1>3, <1>4

\* What each instruction of the program answers.
LEMMA BlockJudges ==
    ASSUME NEW nr, NEW arch, NEW h
    PROVE  LET j == Judges(Block, nr, arch, h) IN
           /\ j = [i \in 1 .. 37 |-> j[i]]
           /\ j[1] = h[2] /\ j[2] = (IF arch = "x86-64" THEN h[4] ELSE h[3])
           /\ j[3] = "kill" /\ j[4] = h[5] /\ j[37] = "allow"
           /\ \A k \in 1 .. 16 :
                 /\ j[2 * k + 3] = (IF nr = Blacklist[k] THEN h[2 * k + 4] ELSE h[2 * k + 5])
                 /\ j[2 * k + 4] = "eperm"
<1> DEFINE value(i) == IF Loaded(Block, i) = "arch" THEN arch ELSE nr
           at(i) == CASE Block[i].op = "ret" -> Block[i].k
                      [] Block[i].op = "ld"  -> h[i + 1]
                      [] OTHER -> h[i + 1 + (IF value(i) = Block[i].k THEN Block[i].jt
                                                                      ELSE Block[i].jf)]
           j == Judges(Block, nr, arch, h)
<1>1. j = [i \in 1 .. 37 |-> at(i)]
  BY BlockFields DEF Judges
<1>2. Loaded(Block, 2) = "arch" /\ \A k \in 1 .. 16 : Loaded(Block, 2 * k + 3) = "nr"
  <2>1. Loaded(Block, 2) = "arch"
    BY Accumulator
  <2>2. ASSUME NEW k \in 1 .. 16 PROVE Loaded(Block, 2 * k + 3) = "nr"
    <3> DEFINE i == 2 * k + 3
    <3>1. i \in 1 .. 37 /\ 4 <= i
      OBVIOUS
    <3> HIDE DEF i
    <3>2. Loaded(Block, i) = "nr"
      BY <3>1, Accumulator
    <3> QED
      BY <3>2 DEF i
  <2> QED
    BY <2>1, <2>2
<1>3. value(2) = arch /\ \A k \in 1 .. 16 : value(2 * k + 3) = nr
  BY <1>2
<1> HIDE DEF value
<1>4. \A i \in 1 .. 37 : j[i] = at(i)
  <2> HIDE DEF at
  <2> QED
    BY <1>1
<1>5. at(1) = h[2] /\ at(3) = "kill" /\ at(4) = h[5] /\ at(37) = "allow"
  BY BlockFields
<1>6. at(2) = IF arch = "x86-64" THEN h[4] ELSE h[3]
  <2>1. at(2) = h[2 + 1 + (IF arch = "x86-64" THEN 1 ELSE 0)]
    BY <1>3, BlockFields
  <2>2. 2 + 1 + 1 = 4 /\ 2 + 1 + 0 = 3
    OBVIOUS
  <2> HIDE DEF at
  <2> QED
    BY <2>1, <2>2
<1>7. ASSUME NEW k \in 1 .. 16
      PROVE  /\ at(2 * k + 3) = (IF nr = Blacklist[k] THEN h[2 * k + 4] ELSE h[2 * k + 5])
             /\ at(2 * k + 4) = "eperm"
  <2> DEFINE i == 2 * k + 3
  <2>1. /\ Block[i].op = "jeq" /\ Block[i].k = Blacklist[k]
        /\ Block[i].jt = 0 /\ Block[i].jf = 1 /\ value(i) = nr
    BY <1>3, BlockFields
  <2>2. i + 1 + 0 = 2 * k + 4 /\ i + 1 + 1 = 2 * k + 5
    OBVIOUS
  <2> HIDE DEF i
  <2>3. at(i) = h[i + 1 + (IF nr = Blacklist[k] THEN 0 ELSE 1)]
    BY <2>1
  <2>4. at(i) = IF nr = Blacklist[k] THEN h[2 * k + 4] ELSE h[2 * k + 5]
    BY <2>2, <2>3
  <2>5. at(2 * k + 4) = "eperm"
    BY BlockFields
  <2> QED
    BY <2>4, <2>5 DEF i
<1>8. \A k \in 1 .. 16 : 2 * k + 3 \in 1 .. 37 /\ 2 * k + 4 \in 1 .. 37
  OBVIOUS
<1>9. /\ j[1] = at(1) /\ j[2] = at(2) /\ j[3] = at(3) /\ j[4] = at(4) /\ j[37] = at(37)
      /\ \A k \in 1 .. 16 : j[2 * k + 3] = at(2 * k + 3) /\ j[2 * k + 4] = at(2 * k + 4)
  <2> HIDE DEF at, j
  <2> QED
    BY <1>4, <1>8
<1>10. j = [i \in 1 .. 37 |-> j[i]]
  <2> HIDE DEF at
  <2> QED
    BY <1>1
<1> HIDE DEF at, j
<1>11. /\ j[1] = h[2] /\ j[2] = (IF arch = "x86-64" THEN h[4] ELSE h[3])
       /\ j[3] = "kill" /\ j[4] = h[5] /\ j[37] = "allow"
  BY <1>5, <1>6, <1>9
<1>12. \A k \in 1 .. 16 :
          /\ j[2 * k + 3] = (IF nr = Blacklist[k] THEN h[2 * k + 4] ELSE h[2 * k + 5])
          /\ j[2 * k + 4] = "eperm"
  BY <1>7, <1>9
<1> QED
  BY <1>10, <1>11, <1>12 DEF j

\* What the tests from the k-th on answer.
Refused(nr, k) == \E l \in k .. 16 : Blacklist[l] = nr
Rest(nr, k) == IF Refused(nr, k) THEN "eperm" ELSE "allow"

LEMMA RestUnfolds ==
    ASSUME NEW nr
    PROVE  /\ Rest(nr, 17) = "allow"
           /\ \A k \in 1 .. 16 :
                 Rest(nr, k) = IF nr = Blacklist[k] THEN "eperm" ELSE Rest(nr, k + 1)
<1>1. ~Refused(nr, 17)
  BY DEF Refused
<1>2. ASSUME NEW k \in 1 .. 16
      PROVE  Refused(nr, k) <=> nr = Blacklist[k] \/ Refused(nr, k + 1)
  <2>1. k .. 16 = {k} \cup (k + 1) .. 16
    OBVIOUS
  <2> QED
    BY <2>1 DEF Refused
<1> QED
  BY <1>1, <1>2 DEF Rest

\* There is a function that the program answers by,
LEMMA BlockHasAnswers ==
    ASSUME NEW nr, NEW arch
    PROVE  \E h : h = Judges(Block, nr, arch, h)
<1> DEFINE at(i) == IF i = 37 THEN "allow"
                    ELSE IF i = 3 THEN "kill"
                    ELSE IF i = 4 THEN Rest(nr, 1)
                    ELSE IF i \in {1, 2} THEN IF arch = "x86-64" THEN Rest(nr, 1) ELSE "kill"
                    ELSE IF \E k \in 1 .. 16 : i = 2 * k + 4 THEN "eperm"
                    ELSE Rest(nr, (i - 3) \div 2)
           w == [i \in 1 .. 37 |-> at(i)]
           j == Judges(Block, nr, arch, w)
<1>1. \A i \in 1 .. 37 : w[i] = at(i)
  OBVIOUS
<1>2. w = [i \in 1 .. 37 |-> w[i]]
  OBVIOUS
<1>3. /\ at(1) = (IF arch = "x86-64" THEN Rest(nr, 1) ELSE "kill") /\ at(2) = at(1)
      /\ at(3) = "kill" /\ at(4) = Rest(nr, 1) /\ at(37) = "allow"
  OBVIOUS
<1>4. ASSUME NEW k \in 1 .. 16
      PROVE  at(2 * k + 3) = Rest(nr, k) /\ at(2 * k + 4) = "eperm"
  <2> DEFINE i == 2 * k + 3
  <2>1. /\ i \notin {1, 2, 3, 4, 37} /\ (i - 3) \div 2 = k
        /\ ~ \E l \in 1 .. 16 : i = 2 * l + 4
    OBVIOUS
  <2>2. at(2 * k + 4) = "eperm"
    OBVIOUS
  <2> HIDE DEF i
  <2>3. at(i) = Rest(nr, k)
    BY <2>1
  <2> QED
    BY <2>2, <2>3 DEF i
<1> HIDE DEF at, w
<1>5. /\ w[1] = w[2] /\ w[2] = (IF arch = "x86-64" THEN w[4] ELSE w[3])
      /\ w[3] = "kill" /\ w[4] = Rest(nr, 1) /\ w[37] = "allow"
  BY <1>1, <1>3
<1>6. ASSUME NEW k \in 1 .. 16
      PROVE  w[2 * k + 3] = Rest(nr, k) /\ w[2 * k + 4] = "eperm"
  <2> DEFINE a == 2 * k + 3
             b == 2 * k + 4
  <2>1. a \in 1 .. 37 /\ b \in 1 .. 37
    OBVIOUS
  <2>2. at(a) = Rest(nr, k) /\ at(b) = "eperm"
    BY <1>4
  <2> HIDE DEF a, b
  <2>3. w[a] = Rest(nr, k) /\ w[b] = "eperm"
    BY <1>1, <2>1, <2>2
  <2> QED
    BY <2>3 DEF a, b
<1>7. ASSUME NEW k \in 1 .. 16 PROVE w[2 * k + 5] = Rest(nr, k + 1)
  <2>1. CASE k = 16
    <3>1. 2 * k + 5 = 37 /\ k + 1 = 17
      BY <2>1
    <3> QED
      BY <1>5, <3>1, RestUnfolds
  <2>2. CASE k # 16
    <3> DEFINE l == k + 1
    <3>1. l \in 1 .. 16 /\ 2 * k + 5 = 2 * l + 3
      BY <2>2
    <3> HIDE DEF l
    <3>2. w[2 * k + 5] = Rest(nr, l)
      BY <1>6, <3>1
    <3> QED
      BY <3>2 DEF l
  <2> QED
    BY <2>1, <2>2
<1>8. /\ j = [i \in 1 .. 37 |-> j[i]]
      /\ j[1] = w[2] /\ j[2] = (IF arch = "x86-64" THEN w[4] ELSE w[3])
      /\ j[3] = "kill" /\ j[4] = w[5] /\ j[37] = "allow"
      /\ \A k \in 1 .. 16 :
            /\ j[2 * k + 3] = (IF nr = Blacklist[k] THEN w[2 * k + 4] ELSE w[2 * k + 5])
            /\ j[2 * k + 4] = "eperm"
  BY BlockJudges
<1> HIDE DEF j
<1>9. w[5] = Rest(nr, 1)
  <2>1. 1 \in 1 .. 16 /\ 2 * 1 + 3 = 5
    OBVIOUS
  <2> QED
    BY <1>6, <2>1
<1>10. ASSUME NEW k \in 1 .. 16
       PROVE  j[2 * k + 3] = w[2 * k + 3] /\ j[2 * k + 4] = w[2 * k + 4]
  <2>1. w[2 * k + 3] = Rest(nr, k) /\ w[2 * k + 4] = "eperm"
    BY <1>6
  <2>2. w[2 * k + 5] = Rest(nr, k + 1)
    BY <1>7
  <2>3. Rest(nr, k) = IF nr = Blacklist[k] THEN "eperm" ELSE Rest(nr, k + 1)
    BY RestUnfolds
  <2>4. /\ j[2 * k + 3] = (IF nr = Blacklist[k] THEN w[2 * k + 4] ELSE w[2 * k + 5])
        /\ j[2 * k + 4] = "eperm"
    BY <1>8
  <2> QED
    BY <2>1, <2>2, <2>3, <2>4
<1>11. \A i \in {1, 2, 3, 4, 37} : j[i] = w[i]
  BY <1>5, <1>8, <1>9
<1>12. \A i \in 1 .. 37 : j[i] = w[i]
  BY <1>10, <1>11, Positions
<1>13. j = w
  BY <1>2, <1>8, <1>12
<1> QED
  BY <1>13 DEF j

\* and by any such function it answers as it was meant.
LEMMA BlockAnswersBy ==
    ASSUME NEW nr, NEW arch, NEW h, h = Judges(Block, nr, arch, h)
    PROVE  h[1] = IF arch = "x86-64" THEN Rest(nr, 1) ELSE "kill"
<1>1. /\ h[1] = h[2] /\ h[2] = (IF arch = "x86-64" THEN h[4] ELSE h[3])
      /\ h[3] = "kill" /\ h[4] = h[5] /\ h[37] = "allow"
      /\ \A k \in 1 .. 16 :
            /\ h[2 * k + 3] = (IF nr = Blacklist[k] THEN h[2 * k + 4] ELSE h[2 * k + 5])
            /\ h[2 * k + 4] = "eperm"
  <2> DEFINE j == Judges(Block, nr, arch, h)
  <2>1. /\ j[1] = h[2] /\ j[2] = (IF arch = "x86-64" THEN h[4] ELSE h[3])
        /\ j[3] = "kill" /\ j[4] = h[5] /\ j[37] = "allow"
        /\ \A k \in 1 .. 16 :
              /\ j[2 * k + 3] = (IF nr = Blacklist[k] THEN h[2 * k + 4] ELSE h[2 * k + 5])
              /\ j[2 * k + 4] = "eperm"
    BY BlockJudges
  <2>2. j = h
    OBVIOUS
  <2> HIDE DEF j
  <2> QED
    BY <2>1, <2>2
\* From the last test back to the first.
<1> DEFINE T == {n \in Nat : n <= 16 => h[37 - 2 * n] = Rest(nr, 17 - n)}
<1>2. 0 \in T
  BY <1>1, RestUnfolds
<1>3. ASSUME NEW n \in Nat, n \in T PROVE n + 1 \in T
  <2> SUFFICES ASSUME n + 1 <= 16 PROVE h[37 - 2 * (n + 1)] = Rest(nr, 17 - (n + 1))
    OBVIOUS
  <2> DEFINE k == 16 - n
  <2>1. /\ k \in 1 .. 16 /\ 37 - 2 * (n + 1) = 2 * k + 3 /\ 17 - (n + 1) = k
        /\ 37 - 2 * n = 2 * k + 5 /\ 17 - n = k + 1 /\ n <= 16
    OBVIOUS
  <2>2. h[37 - 2 * n] = Rest(nr, 17 - n)
    BY <1>3, <2>1
  <2> HIDE DEF k
  <2>3. h[2 * k + 5] = Rest(nr, k + 1)
    BY <2>1, <2>2
  <2>4. /\ h[2 * k + 3] = (IF nr = Blacklist[k] THEN h[2 * k + 4] ELSE h[2 * k + 5])
        /\ h[2 * k + 4] = "eperm"
    BY <1>1, <2>1
  <2>5. Rest(nr, k) = IF nr = Blacklist[k] THEN "eperm" ELSE Rest(nr, k + 1)
    BY <2>1, RestUnfolds
  <2>6. h[2 * k + 3] = Rest(nr, k)
    BY <2>3, <2>4, <2>5
  <2> QED
    BY <2>1, <2>6
<1>4. Nat \subseteq T
  <2> HIDE DEF T
  <2> QED
    BY <1>2, <1>3, Induct
<1>5. h[37 - 2 * 16] = Rest(nr, 17 - 16)
  BY <1>4
<1>6. 37 - 2 * 16 = 5 /\ 17 - 16 = 1
  OBVIOUS
<1>7. h[5] = Rest(nr, 1)
  BY <1>5, <1>6
<1> QED
  BY <1>1, <1>7

LEMMA BlockAnswers ==
    ASSUME NEW nr, NEW arch
    PROVE  Answer(Block, nr, arch) = IF arch # "x86-64" THEN "kill"
                                     ELSE IF \E i \in DOMAIN Blacklist : Blacklist[i] = nr
                                          THEN "eperm" ELSE "allow"
<1> DEFINE c == CHOOSE h : h = Judges(Block, nr, arch, h)
<1>1. c = Judges(Block, nr, arch, c)
  BY BlockHasAnswers
<1>2. Answer(Block, nr, arch) = c[1]
  BY AnswerIsFixpoint
<1> HIDE DEF c
<1>3. c[1] = IF arch = "x86-64" THEN Rest(nr, 1) ELSE "kill"
  BY <1>1, BlockAnswersBy
<1>4. Refused(nr, 1) <=> \E i \in DOMAIN Blacklist : Blacklist[i] = nr
  BY BlacklistTyped DEF Refused
<1> QED
  BY <1>2, <1>3, <1>4 DEF Rest

-----------------------------------------------------------------------------
(* The theorems.                                                           *)

LEMMA AlwaysSandbox == Spec => []SandboxInv
<1>1. Init => SandboxInv
  BY InitSandbox
<1>2. SandboxInv /\ [Next]_vars => SandboxInv'
  BY SandboxStep
<1> QED
  BY <1>1, <1>2, PTL DEF Spec

\* The types of the model, with what is known of a sandbox at each place:
\* bwrap executes only when every mount is made.
THEOREM TypeCorrect == Spec => []TypeOK
<1>1. SandboxInv => TypeOK
  <2> SUFFICES ASSUME SandboxInv PROVE TypeOK
    OBVIOUS
  <2>1. perm = None <=> pc = "packing"
    <3>1. Permissions(spec) # None
      BY PermTyped, NoneAssumption DEF SandboxInv, NoneAssumption
    <3> QED
      BY <3>1 DEF SandboxInv
  <2>2. filter = <<>> <=> Before
    BY ProgramsDiffer DEF SandboxInv, SeccompFilter
  <2>3. net \in BOOLEAN
    BY DEF SandboxInv, SharesNetwork
  <2>4. Executed => ~Before
    BY DEF Executed, Before
  <2>5. Executed => args = <<>> /\ mounts # <<>>
    BY <2>4 DEF SandboxInv, Mounts
  <2> QED
    BY <2>1, <2>2, <2>3, <2>5 DEF TypeOK, SandboxInv, Before, Executed
<1> QED
  BY <1>1, AlwaysSandbox, PTL

\* Every path at which the running application sees the host was asked for
\* in the spec or belongs to what every sandbox may read, and only the grants
\* can be written, whatever was granted and in whatever order it is mounted.
THEOREM GrantedCorrect == Spec => []OnlyGranted
<1>1. SandboxInv => OnlyGranted
  <2> SUFFICES ASSUME SandboxInv, Executed, NEW p \in Lasting \cup Volatile,
                      Shown(p).of = "host"
               PROVE  Within(p, IF Shown(p).rw THEN Granted ELSE Granted \cup Readable)
    BY DEF OnlyGranted
  <2>1. Mounts
    BY DEF SandboxInv, Executed, Before
  <2>2. Len(mounts) \in Nat /\ DOMAIN mounts = 1 .. Len(mounts)
    BY <2>1, LenProperties DEF Mounts
  <2>3. PICK k \in 1 .. Len(mounts) : IsPrefix(mounts[k].dest, p)
    BY <2>2, ShownOwn
  <2>4. PICK i \in 1 .. Len(mounts) : Shown(p) = mounts[i] /\ IsPrefix(mounts[i].dest, p)
    BY <2>2, <2>3, ShownIsLast
  <2>5. mounts[i] \in Elements(mounts)
    BY <2>2 DEF Elements
  <2>6. Explained(mounts[i]) /\ mounts[i].dest \in Path
    BY <2>1, <2>4, <2>5, PathAssumption DEF Mounts, PathAssumption
  <2>7. mounts[i].dest # None
    BY <2>6, NoneAssumption DEF NoneAssumption
  <2>8. mounts[i].dest \in IF Shown(p).rw THEN Granted ELSE Granted \cup Readable
    BY <2>4, <2>6 DEF Explained
  <2> QED
    BY <2>4, <2>7, <2>8 DEF Within
<1> QED
  BY <1>1, AlwaysSandbox, PTL

\* The application sees the host at every path it was granted: no mount of
\* the sandbox's own is made after a grant.
THEOREM GrantsCorrect == Spec => []GrantsHold
<1>1. SandboxInv => GrantsHold
  <2> SUFFICES ASSUME SandboxInv, Executed, NEW g \in Granted
               PROVE  Shown(g).of = "host" /\ (Shown(g).rw \/ Within(g, Readable))
    BY DEF GrantsHold
  <2>1. Mounts /\ args = <<>> /\ pc # "failed"
    BY DEF SandboxInv, Executed, Before, Mounts
  <2>2. Len(mounts) \in Nat /\ DOMAIN mounts = 1 .. Len(mounts) /\ Elements(args) = {}
    BY <2>1, LenProperties DEF Mounts, Elements
  <2>3. Bind(g) \in Elements(mounts)
    BY <2>1, <2>2 DEF Mounts
  <2>4. PICK k \in 1 .. Len(mounts) : mounts[k] = Bind(g)
    BY <2>2, <2>3 DEF Elements
  <2>5. g \in Path /\ mounts[k].dest = g /\ mounts[k].of = "host"
    <3>1. Bind(g).dest = g /\ Bind(g).of = "host"
      BY MountFields
    <3> QED
      BY <2>1, <2>3, <2>4, <3>1, PathAssumption DEF Mounts, PathAssumption
  <2>6. PICK i \in 1 .. Len(mounts) : /\ k <= i /\ Shown(g) = mounts[i]
                                      /\ IsPrefix(mounts[i].dest, g)
    BY <2>2, <2>5, PrefixOfItself, ShownIsLast DEF Path
  <2>7. Rank(mounts[k]) = 3 /\ Rank(mounts[k]) <= Rank(mounts[i])
    <3>1. Rank(mounts[k]) = 3
      BY <2>5 DEF Rank
    <3>2. k = i \/ k < i
      BY <2>6
    <3>3. k < i => Rank(mounts[k]) <= Rank(mounts[i])
      BY <2>1, <2>2 DEF Mounts, InOrder
    <3> QED
      BY <3>1, <3>2, <3>3
  <2>8. mounts[i].of = "host"
    <3>1. mounts[i] \in MountOf
      BY <2>1, <2>2 DEF Mounts
    <3>2. mounts[i].of \in {"own", "app", "host"}
      BY <3>1 DEF MountOf
    <3> QED
      BY <2>7, <3>2 DEF Rank
  <2>9. mounts[i] \in Elements(mounts)
    BY <2>2 DEF Elements
  <2>10. Explained(mounts[i]) /\ mounts[i].dest \in Path
    BY <2>1, <2>8, <2>9, PathAssumption DEF Mounts, PathAssumption
  <2>11. mounts[i].dest # None
    BY <2>10, NoneAssumption DEF NoneAssumption
  <2>12. ~mounts[i].rw => mounts[i].dest \in Readable
    BY <2>8, <2>10 DEF Explained
  <2> QED
    BY <2>6, <2>8, <2>11, <2>12 DEF Within
<1> QED
  BY <1>1, AlwaysSandbox, PTL

\* A sandbox that does not start has a reason in the spec, in the environment
\* or in something that went after the daemon looked.
THEOREM FailureCorrect == Spec => []FailureExplained
<1>1. SandboxInv => FailureExplained
  BY DEF SandboxInv
<1> QED
  BY <1>1, AlwaysSandbox, PTL

\* The namespace and the program agree on the network, and both with a spec that
\* says plainly yes or no, or nothing.
THEOREM NetworkCorrect == Spec => []NetworkAgrees
<1>1. SandboxInv => NetworkAgrees
  <2> SUFFICES ASSUME SandboxInv, Executed PROVE NetworkAgrees
    BY DEF NetworkAgrees
  <2>1. /\ ~Before /\ perm = Permissions(spec)
        /\ net = SharesNetwork(perm) /\ filter = SeccompFilter(perm)
    BY DEF SandboxInv, Executed, Before
  <2>2. /\ spec.network = "yes" => perm.network # "no"
        /\ spec.network \notin {"yes", "patterns"} => perm.network = "no"
    BY <2>1 DEF Permissions
  <2>3. filter = AllowAll <=> perm.network # "no"
    BY <2>1, ProgramsDiffer DEF SeccompFilter
  <2> QED
    BY <2>1, <2>2, <2>3 DEF NetworkAgrees, SharesNetwork
<1> QED
  BY <1>1, AlwaysSandbox, PTL

\* Whatever the number of the call and the architecture, the program answers
\* as it was meant.
THEOREM CallsCorrect == Spec => []CallsAreJudged
<1>1. Init => CallsAreJudged
  BY DEF Init, CallsAreJudged
<1>2. ASSUME SandboxInv, CallsAreJudged, NEW nr \in SystemCall, NEW arch \in Arch,
             Syscall(nr, arch)
      PROVE  CallsAreJudged'
  <2>1. /\ ~Before /\ net = SharesNetwork(perm) /\ filter = SeccompFilter(perm)
    BY <1>2 DEF SandboxInv, Syscall, Before
  <2>2. net <=> perm.network # "no"
    BY <2>1 DEF SharesNetwork
  <2>3. /\ call'.nr = nr /\ call'.arch = arch /\ net' = net
        /\ call'.answer = Answer(filter, nr, arch)
    BY <1>2 DEF Syscall
  <2>4. CASE net
    BY <2>1, <2>2, <2>3, <2>4, AllowAllAnswers DEF SeccompFilter, CallsAreJudged
  <2>5. CASE ~net
    <3>1. filter = Block
      BY <2>1, <2>2, <2>5 DEF SeccompFilter
    <3> QED
      BY <2>3, <2>5, <3>1, BlockAnswers DEF CallsAreJudged
  <2> QED
    BY <2>4, <2>5
<1>3. ASSUME SandboxInv, CallsAreJudged, [Next]_vars,
             ~ \E nr \in SystemCall, arch \in Arch : Syscall(nr, arch)
      PROVE  CallsAreJudged'
  <2>1. call' = call /\ (net' = net \/ Ask)
    BY <1>3 DEF Next, vars, Pack, Ask, MountNext, Exec, Vanish
  <2>2. Ask => call = None
    BY <1>3 DEF Ask, SandboxInv, Executed
  <2> QED
    BY <1>3, <2>1, <2>2 DEF CallsAreJudged
<1>4. SandboxInv /\ CallsAreJudged /\ [Next]_vars => CallsAreJudged'
  BY <1>2, <1>3
<1> QED
  BY <1>1, <1>4, AlwaysSandbox, PTL DEF Spec
=============================================================================
