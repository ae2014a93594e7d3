---------------------------- MODULE MCBootstrap ----------------------------
(***************************************************************************)
(* Small instances of Bootstrap: a bundle with both binaries and two       *)
(* launches of it, one of which may find an installed nxpk instead.        *)
(***************************************************************************)
EXTENDS Bootstrap, TLC

CONSTANTS r1, r2, d1, d2

\* pack.rs writes nexpackd before nxpk.
BothBinaries == <<"nexpackd", "nxpk">>
=============================================================================
