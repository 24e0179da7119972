------------------------ MODULE MCBonusTransaction ------------------------
(* BonusTransaction on small instances: the shares have one author, which  *)
(* is where concurrent bonuses meet.                                       *)
EXTENDS BonusTransaction

CONSTANTS u1

OneAuthor == [s \in Share |-> u1]
=============================================================================
