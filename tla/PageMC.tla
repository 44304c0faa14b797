------------------------------- MODULE PageMC -------------------------------
(***************************************************************************)
(* A small instance of Page for TLC.  A name begins with a blank; without  *)
(* it, it is another's name, and it can be an email, which is then without *)
(* an '@' and may be sent as that name.                                    *)
(***************************************************************************)
EXTENDS Page

MCName  == {" ann", "ann"}
MCEmail == {"bob@x", "ann"}
MCSignUps == {[name |-> n, email |-> "bob@x"] : n \in MCName}
MCWithAt == {"bob@x"}
MCTrim == [t \in MCName \cup MCEmail \cup {Blank} |->
             IF t = " ann" THEN "ann" ELSE t]
=============================================================================
