------------------------------ MODULE Agenda ------------------------------
(***************************************************************************)
(* The eventos of the calendário of a núcleo, and the treinos of a bloco   *)
(* with their exercícios.  An evento is deleted for good, a treino softly; *)
(* an update of an evento is the same upsert as its creation.              *)
(***************************************************************************)
EXTENDS Handlers

CONSTANT Antigo         \* the evento, the treino and the exercício there are to begin with

ASSUME AgendaAssumption == Antigo \notin Requests \cup {Nobody}

AgendaIds == Requests \cup {Antigo}

VARIABLES
    eventos,        \* the ids of the rows of calendario_eventos
    treinos,        \* the rows of treino_templates: "none", "live" or "deleted"
    exercicios      \* the rows [id, template, ordem] of treino_exercicios

agenda_rows == <<eventos, treinos, exercicios>>

ExerciciosOf(t) == {e \in exercicios : e.template = t}

AgendaInit ==
    /\ eventos = {Antigo}
    /\ treinos = [t \in AgendaIds |-> IF t = Antigo THEN "live" ELSE "none"]
    /\ exercicios = {[id |-> Antigo, template |-> Antigo, ordem |-> 0]}

AgendaReads == UNCHANGED agenda_rows

-----------------------------------------------------------------------------
(* CalendarioController: an id or núcleo that is missing is refused; the    *)
(* id may be of an evento deleted since the client read it.                *)

AskEvento(r, op, id) == (Arrive(r, "findNucleo", op, id, Nobody) \/ Refuse(r, op, 400)) /\ AgendaReads

getEventos(r) == AskEvento(r, "getEventos", Nobody)
getEvento(r) == \E e \in AgendaIds : AskEvento(r, "getEvento", e)
createEvento(r) == AskEvento(r, "createEvento", r)
updateEvento(r) == \E e \in AgendaIds : AskEvento(r, "updateEvento", e)
deleteEvento(r) == \E e \in AgendaIds : AskEvento(r, "deleteEvento", e)

(* Every handler asks for the núcleo first; another request may have       *)
(* deleted it.                                                             *)
findNucleo(r, op, next) ==
    /\ On(r, op, "findNucleo")
    /\ \/ Goto(r, next)
       \/ Reply(r, IF op = "getEvento" THEN 404 ELSE 400)

(* Then, but for creation, for the evento.                                 *)
findEvento(r, op, next) ==
    /\ On(r, op, "findEvento")
    /\ IF call[r].id \in eventos THEN Goto(r, next)
       ELSE Reply(r, IF op = "getEvento" THEN 404 ELSE 400)

(* CalendarioRepository.save: INSERT ... ON CONFLICT (id) DO UPDATE        *)
save(r, status) ==
    /\ eventos' = eventos \cup {call[r].id}
    /\ Reply(r, status)

(* An evento without a title or a date throws before it is saved.          *)
CreateEventoHandler(r) ==
    /\ \/ findNucleo(r, "createEvento", "save") /\ UNCHANGED eventos
       \/ On(r, "createEvento", "save") /\ Reply(r, 400) /\ UNCHANGED eventos
       \/ On(r, "createEvento", "save") /\ save(r, 201)
    /\ UNCHANGED <<treinos, exercicios>>

(* Mutant: the evento is not asked for.                                    *)
UpsertEventoHandler(r) ==
    /\ \/ findNucleo(r, "updateEvento", "save") /\ UNCHANGED eventos
       \/ On(r, "updateEvento", "save") /\ save(r, 200)
    /\ UNCHANGED <<treinos, exercicios>>

(* An evento deleted after it was found is there again.                    *)
UpdateEventoHandler(r) ==
    /\ \/ findNucleo(r, "updateEvento", "findEvento") /\ UNCHANGED eventos
       \/ findEvento(r, "updateEvento", "save") /\ UNCHANGED eventos
       \/ On(r, "updateEvento", "save") /\ Reply(r, 400) /\ UNCHANGED eventos
       \/ On(r, "updateEvento", "save") /\ save(r, 200)
    /\ UNCHANGED <<treinos, exercicios>>

DeleteEventoHandler(r) ==
    /\ \/ findNucleo(r, "deleteEvento", "findEvento") /\ UNCHANGED eventos
       \/ findEvento(r, "deleteEvento", "delete") /\ UNCHANGED eventos
       \/ /\ On(r, "deleteEvento", "delete")
          /\ eventos' = eventos \ {call[r].id}
          /\ Reply(r, 204)
    /\ UNCHANGED <<treinos, exercicios>>

GetEventoByIdHandler(r) ==
    /\ \/ findNucleo(r, "getEvento", "findEvento")
       \/ findEvento(r, "getEvento", "return")
       \/ On(r, "getEvento", "return") /\ Reply(r, 200)
    /\ AgendaReads

GetEventosByNucleoHandler(r) ==
    /\ \/ findNucleo(r, "getEventos", "select")
       \/ On(r, "getEventos", "select") /\ Reply(r, 200)
    /\ AgendaReads

-----------------------------------------------------------------------------
(* ExerciciosController *)

AskTreino(r, op, id, arg) == Arrive(r, "check", op, id, arg) /\ AgendaReads
NoField(r, op) == Refuse(r, op, 400) /\ AgendaReads

listTreinos(r) == AskTreino(r, "listTreinos", Nobody, Nobody)
createTemplate(r) == AskTreino(r, "createTemplate", r, Nobody) \/ NoField(r, "createTemplate")
updateTemplate(r) == \E t \in AgendaIds : treinos[t] # "none" /\ AskTreino(r, "updateTemplate", t, Nobody)
deleteTemplate(r) == \E t \in AgendaIds : treinos[t] # "none" /\ AskTreino(r, "deleteTemplate", t, Nobody)
addExercicio(r) ==
    \/ \E t \in AgendaIds : treinos[t] # "none" /\ AskTreino(r, "addExercicio", r, t)
    \/ NoField(r, "addExercicio")
removeExercicio(r) == \E e \in exercicios : AskTreino(r, "removeExercicio", e.id, Nobody)

(* findTemplateById: only a treino that is not deleted.                    *)
findTemplate(r, op, t) == Permit(r, op, treinos[t] = "live", "checkBloco", 400)

(* The bloco is there, deleted or not, and its núcleo the user's.          *)
checkBloco(r, op, next) ==
    /\ On(r, op, "checkBloco")
    /\ \/ Goto(r, next)
       \/ Reply(r, 400)

CreateTreinoTemplateHandler(r) ==
    /\ \/ \E found \in BOOLEAN : Permit(r, "createTemplate", found, "save", 400) /\ UNCHANGED treinos
       \/ /\ On(r, "createTemplate", "save")
          /\ treinos' = [treinos EXCEPT ![r] = "live"]
          /\ Reply(r, 201)
    /\ UNCHANGED <<eventos, exercicios>>

(* The statement is only for a treino that is not deleted, and is answered *)
(* 200 all the same; the exercícios and sessões are read for the answer.   *)
UpdateTreinoTemplateHandler(r) ==
    /\ \/ findTemplate(r, "updateTemplate", call[r].id)
       \/ checkBloco(r, "updateTemplate", "update")
       \/ On(r, "updateTemplate", "update") /\ Goto(r, "findExercicios")
       \/ On(r, "updateTemplate", "findExercicios") /\ Goto(r, "countSessoes")
       \/ On(r, "updateTemplate", "countSessoes") /\ Reply(r, 200)
    /\ AgendaReads

DeleteTreinoTemplateHandler(r) ==
    /\ \/ findTemplate(r, "deleteTemplate", call[r].id) /\ UNCHANGED treinos
       \/ checkBloco(r, "deleteTemplate", "delete") /\ UNCHANGED treinos
       \/ /\ On(r, "deleteTemplate", "delete")
          /\ treinos' = [treinos EXCEPT ![call[r].id] = "deleted"]
          /\ Reply(r, 204)
    /\ UNCHANGED <<eventos, exercicios>>

(* Without an ordem in the body it is how many exercícios were read.       *)
AddExercicioHandler(r) ==
    /\ \/ findTemplate(r, "addExercicio", call[r].arg) /\ UNCHANGED exercicios
       \/ checkBloco(r, "addExercicio", "findExercicios") /\ UNCHANGED exercicios
       \/ /\ On(r, "addExercicio", "findExercicios")
          /\ Keep(r, Cardinality(ExerciciosOf(call[r].arg)), "save")
          /\ UNCHANGED exercicios
       \/ /\ On(r, "addExercicio", "save")
          /\ exercicios' = exercicios \cup
                {[id |-> r, template |-> call[r].arg, ordem |-> call[r].read]}
          /\ Reply(r, 201)
    /\ UNCHANGED <<eventos, treinos>>

RemoveExercicioHandler(r) ==
    /\ \/ /\ Permit(r, "removeExercicio", \E e \in exercicios : e.id = call[r].id, "delete", 400)
          /\ UNCHANGED exercicios
       \/ /\ On(r, "removeExercicio", "delete")
          /\ exercicios' = {e \in exercicios : e.id # call[r].id}
          /\ Reply(r, 204)
    /\ UNCHANGED <<eventos, treinos>>

(* For all treinos at the same time; every error is an empty list.         *)
GetTreinosByBlocoHandler(r) ==
    /\ \/ \E found \in BOOLEAN : Permit(r, "listTreinos", found, "findTemplates", 200)
       \/ On(r, "listTreinos", "findTemplates") /\ Goto(r, "each")
       \/ On(r, "listTreinos", "each") /\ Reply(r, 200)
    /\ AgendaReads

-----------------------------------------------------------------------------
AgendaArrival(r) ==
    \/ getEventos(r) \/ getEvento(r) \/ createEvento(r) \/ updateEvento(r) \/ deleteEvento(r)
    \/ listTreinos(r) \/ createTemplate(r) \/ updateTemplate(r) \/ deleteTemplate(r)
    \/ addExercicio(r) \/ removeExercicio(r)

AgendaStep(r) ==
    \/ CreateEventoHandler(r) \/ UpdateEventoHandler(r) \/ DeleteEventoHandler(r)
    \/ GetEventoByIdHandler(r) \/ GetEventosByNucleoHandler(r)
    \/ CreateTreinoTemplateHandler(r) \/ UpdateTreinoTemplateHandler(r)
    \/ DeleteTreinoTemplateHandler(r) \/ AddExercicioHandler(r) \/ RemoveExercicioHandler(r)
    \/ GetTreinosByBlocoHandler(r)

=============================================================================
