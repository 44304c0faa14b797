------------------------------- MODULE HubMC --------------------------------
(***************************************************************************)
(* Small instances of Hub for TLC.  The safety runs take the connections   *)
(* up to symmetry, which is sound: no action or invariant names one.       *)
(***************************************************************************)
EXTENDS Hub, TLC

ClientSymmetry == Permutations(Client)
=============================================================================
