--------------------------- MODULE MCEmailOutbox ---------------------------
(***************************************************************************)
(* Small instances of EmailOutbox for TLC.  Events named w are welcome     *)
(* mails, n notification mails, c the recipients of the campaign.          *)
(***************************************************************************)
EXTENDS EmailOutbox, TLC

CONSTANTS alice, bob, c1, c2, w1, n1, cli1, cli2

KindByName  == [e \in Events |->
  CASE e = w1 -> "WELCOME" [] e = n1 -> "NOTIFICATION" [] OTHER -> "CAMPAIGN"]

(* Alice owns everything but the second campaign mail, so that her mails     *)
(* compete for the lock of one user row.                                     *)
OwnerByName == [e \in Events |-> IF e = c2 THEN bob ELSE alice]
(* Two runs of the periodic command are interchangeable. *)
CommandSymmetry == Permutations({cli1, cli2})
=============================================================================
