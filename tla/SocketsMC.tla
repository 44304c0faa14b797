----------------------------- MODULE SocketsMC ------------------------------
(***************************************************************************)
(* A small instance of Sockets for TLC.                                    *)
(***************************************************************************)
EXTENDS Sockets, TLC

CONSTANTS c1, c2, u1, u2

MCOwner == (c1 :> u1) @@ (c2 :> u2)
=============================================================================
