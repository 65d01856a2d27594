----------------------------- MODULE MCBlocos -----------------------------
(* Small instances of Blocos, with Nucleos.                                *)
EXTENDS Blocos, TLC

(* A body that edits and makes a text of the bloco, one that edits only,   *)
(* and one that moves it under the first, sets a position and makes it a   *)
(* canvas.                                                                 *)
MCUpdates == {[tipo |-> "texto", parent |-> Same, posicao |-> Same, edits |-> TRUE],
              [tipo |-> Same, parent |-> Same, posicao |-> Same, edits |-> TRUE],
              [tipo |-> "canvas", parent |-> First, posicao |-> 1, edits |-> FALSE]}

Symmetry == Permutations(Requests)

=============================================================================
