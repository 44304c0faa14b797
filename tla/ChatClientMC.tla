---------------------------- MODULE ChatClientMC ----------------------------
(***************************************************************************)
(* ChatClient for TLC: channel ids are interchangeable.                    *)
(***************************************************************************)
EXTENDS ChatClient, TLC

Symmetry == Permutations(Channel)
=============================================================================
