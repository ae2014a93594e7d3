--------------------------- MODULE MCMountDaemon ---------------------------
(***************************************************************************)
(* Small instances of MountDaemon: two runs of one application, one of     *)
(* which tells the daemon that it ended and one of which does not.         *)
(* The daemon keeps nothing that relates two applications but the mutex    *)
(* and the layers they share, and a second run of the same application     *)
(* shares both; the proofs are for any number of applications.             *)
(***************************************************************************)
EXTENDS MountDaemon, TLC

CONSTANTS c1, c2, app1, d1, d2

OneLayer  == app1 :> <<d1>>
TwoLayers == app1 :> <<d1, d2>>
=============================================================================
