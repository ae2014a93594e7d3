---------------------------- MODULE MCLayerStore ----------------------------
(***************************************************************************)
(* Small instances of LayerStore.  The second release of app adds a layer  *)
(* on top of the first, so that each update changes the top layer and the  *)
(* first release's top becomes a lower one; other_app shares the lowest.   *)
(* Two processes are enough for the races: each hazard of the store has    *)
(* one process acting between two steps of another.                        *)
(***************************************************************************)
EXTENDS LayerStore, TLC

CONSTANTS cli, other, app, other_app, d1, d2, d3, r1, r2, s1, low, high

AppOfOne    == r1 :> app @@ r2 :> app
LayersOfOne == r1 :> <<d1>> @@ r2 :> <<d1, d2>>

AppOfTwo    == AppOfOne @@ s1 :> other_app
LayersOfTwo == LayersOfOne @@ s1 :> <<d1, d3>>

CliCommand == {"install", "update", "edit", "remove", "gc"}

\* One command at a time, no daemon.
Alone == cli :> CliCommand
\* Two terminals, each with its share of the commands.
TwoTerminals ==
    cli :> {"install", "update", "remove", "gc"} @@ other :> {"install", "edit"}
\* A user who installs, updates, removes and collects, beside the daemon.
BesideDaemon ==
    cli :> {"install", "update", "remove", "gc"} @@ other :> {"refresh", "mount"}
\* A user who installs, and the background update checker.
InstallBesideChecker == cli :> {"install"} @@ other :> {"refresh"}
=============================================================================
