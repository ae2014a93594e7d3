------------------------------ MODULE MCSandbox ------------------------------
(***************************************************************************)
(* A small instance of Sandbox: specs that grant parts of the host that    *)
(* the sandbox covers with its own mounts, that hide the application, that *)
(* come from variables, and that overlap what is bound to be read; and     *)
(* specs with every kind of network.  The system calls are those at the    *)
(* edges of the list.                                                      *)
(***************************************************************************)
EXTENDS Sandbox, TLC

Home    == <<"home", "u">>
RunDir  == <<"run", "user">>
XAuth   == Home \o <<".Xauthority">>
Docs    == Home \o <<"docs">>
Wayland == RunDir \o <<"wayland-0">>

Names ==
    { "proc", "dev", "tmp", "run", "app", "usr", "lib", "lib64", "bin", "sbin",
      "etc", "nix", "store", "dri", "snd", "input", ".X11-unix", "wayland-0",
      "bus", "doc", "by-app", "wayland", "dbus-session", "x11", "audio", "tpm",
      "home", "u", "user", "docs", ".Xauthority",
      "~", "$HOME", "$XAUTHORITY", "$XDG_RUNTIME_DIR" }

Default == [network |-> None, filesystem |-> None, devices |-> None,
            ipc |-> None, display |-> None]

Grants ==
    { <<>>, << <<"~">> >>, << <<"$HOME", "docs">> >>, << <<"$XAUTHORITY">> >>,
      << <<"tmp">> >>, << <<"etc">> >>, << <<"dev">>, <<"$HOME">> >>,
      << <<"run">> >>, << <<>> >>, << <<"$XDG_RUNTIME_DIR">>, <<"home">> >> }
Specs ==
    { [Default EXCEPT !.filesystem = fs, !.devices = <<"dri", "audio", "tpm">>,
                      !.ipc = ipc, !.display = d] :
        fs \in Grants, d \in {"wayland", "x11"},
        ipc \in {None, <<>>, <<"x11", "wayland">>} }
    \cup { [Default EXCEPT !.network = n] :
             n \in {None, "yes", "no", "patterns", "other"} }

Found ==
    { ("~" :> h @@ "$HOME" :> h @@ "$XDG_RUNTIME_DIR" :> r @@ "$XAUTHORITY" :> x) :
        h \in {Home, None}, r \in {RunDir, None}, x \in {XAuth, <<"run">>, None} }

Always ==
    { <<>>, <<"usr">>, <<"etc">>, <<"home">>, Home, <<"tmp">>, <<"run">>, RunDir,
      RunDir \o <<"bus">>, RunDir \o <<"doc", "by-app">>, XAuth,
      <<"dev">>, <<"dev", "dri">> }
CanGo == { Wayland, X11Socket, Docs }

Calls == {0, 40, 41, 54, 55, 56, 57, 58, 287, 288, 289}
=============================================================================
