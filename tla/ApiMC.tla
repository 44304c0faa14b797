------------------------------- MODULE ApiMC --------------------------------
(***************************************************************************)
(* Small instances of Api for TLC.  Requests, names, emails and passwords  *)
(* may be permuted: no action or property tells one from another.          *)
(***************************************************************************)
EXTENDS Api, TLC

Symmetry == UNION {Permutations(s) : s \in {Req, Name, Email, Pass}}
=============================================================================
