-------------------------- MODULE MCBundleFormat ---------------------------
(***************************************************************************)
(* A small instance of BundleFormat: layers of different sizes, alone and  *)
(* two in both orders, without binaries, with one and with both.           *)
(***************************************************************************)
EXTENDS BundleFormat, TLC

CONSTANTS d1, d2, p1, p2

Sizes == d1 :> 1 @@ d2 :> 2

Contents ==
    {[layers |-> <<d2>>,     boot |-> <<"nxpk">>],
     [layers |-> <<d2, d1>>, boot |-> <<"nexpackd", "nxpk">>],
     [layers |-> <<d1, d2>>, boot |-> <<>>]}
=============================================================================
