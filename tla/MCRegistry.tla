----------------------------- MODULE MCRegistry -----------------------------
(***************************************************************************)
(* The instances of MCLayerStore, with the history that Registry adds.     *)
(***************************************************************************)
EXTENDS Registry, MCLayerStore
=============================================================================
