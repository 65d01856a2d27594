------------------------------ MODULE MCAuth ------------------------------
(* Small instances of Auth.                                                *)
EXTENDS Auth, TLC

(* Two mailboxes, one of them spelled in two ways.                         *)
MCEmails == {[box |-> "ana", spelling |-> "plain"], [box |-> "ana", spelling |-> "mixed"],
             [box |-> "bia", spelling |-> "plain"]}

MCOldEmails == {[box |-> "ana", spelling |-> "mixed"]}

Symmetry == Permutations(Requests)

=============================================================================
