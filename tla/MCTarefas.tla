----------------------------- MODULE MCTarefas -----------------------------
(***************************************************************************)
(* Tarefas with one tarefa to begin with.  A status that is neither the    *)
(* first nor the last behaves as "pendente" does and is left out.          *)
(***************************************************************************)
EXTENDS Tarefas

MCUpdates == {[status |-> "pendente", edits |-> FALSE],
              [status |-> "concluida", edits |-> FALSE],
              [status |-> Unchanged, edits |-> TRUE]}

=============================================================================
