----------------------------- MODULE Conteudo -----------------------------
(***************************************************************************)
(* What blocos hold: listas, coleções, hábitos, and the calendário and     *)
(* treinos, behind the same authentication and the same catch.             *)
(*                                                                         *)
(* The tables of one area are not read or written by the handlers of       *)
(* another: interleaving requests of two areas shows nothing that requests *)
(* of each do not.  A behaviour therefore has requests of one area, chosen *)
(* to begin with.                                                          *)
(***************************************************************************)
EXTENDS Listas, Colecoes, Habitos, Agenda

CONSTANT Areas

ASSUME ConteudoAssumption == Areas \subseteq {"listas", "colecoes", "habitos", "agenda"}

VARIABLE area

vars == <<handlers, caches, lista_rows, colecao_rows, habito_rows, agenda_rows, clock, area>>

(* The rows of another area are none of the behaviour's.                   *)
Init ==
    /\ HandlersInit /\ CacheInit
    /\ area \in Areas
    /\ ListasInit /\ ColecoesInit /\ AgendaInit
    /\ HabitosInit
    /\ (area # "habitos" => registros = {})

-----------------------------------------------------------------------------
(* Labels at which no statement of the database is awaited, or one whose   *)
(* failure is handled apart.                                               *)
NoStatement == {"idle", "done", "getCache", "setCache", "uncache"}

(* The catch of the controllers.  A list of hábitos or treinos that fails  *)
(* is answered as an empty one.                                            *)
catch(op) ==
    CASE op \in {"listHabitos", "listTreinos"} -> 200
      [] op \in {"getListaById", "getEvento"} -> 404
      [] op \in {"listColecoes", "createColecao", "updateColecao", "deleteColecao",
                 "getColecaoById", "getCampos", "createCampo", "updateCampo", "deleteCampo",
                 "getItems", "createItem", "updateItem", "deleteItem"} -> handleError("Error")
      [] OTHER -> 400

Fail(r) ==
    /\ call[r].pc \notin NoStatement
    /\ ~ On(r, "listHabitos", "each") /\ ~ On(r, "listHabitos", "hoje")
    /\ FailWith(r, catch(call[r].op))
    /\ UNCHANGED <<caches, lista_rows, colecao_rows, habito_rows, agenda_rows>>

Rejected(r) ==
    /\ Unauthenticated(r)
    /\ UNCHANGED <<caches, lista_rows, colecao_rows, habito_rows, agenda_rows>>

InListas(r) ==
    /\ area = "listas"
    /\ ListasArrival(r) \/ ListasStep(r)
    /\ UNCHANGED <<colecao_rows, habito_rows, agenda_rows>>

InColecoes(r) ==
    /\ area = "colecoes"
    /\ ColecoesArrival(r) \/ ColecoesStep(r)
    /\ UNCHANGED <<caches, lista_rows, habito_rows, agenda_rows>>

InHabitos(r) ==
    /\ area = "habitos"
    /\ HabitosArrival(r) \/ HabitosStep(r)
    /\ UNCHANGED <<lista_rows, colecao_rows, agenda_rows>>

InAgenda(r) ==
    /\ area = "agenda"
    /\ AgendaArrival(r) \/ AgendaStep(r)
    /\ UNCHANGED <<caches, lista_rows, colecao_rows, habito_rows>>

Expiry ==
    /\ \E e \in cache : Expire(e)
    /\ UNCHANGED <<lista_rows, colecao_rows, habito_rows, agenda_rows>>

Next ==
    \/ /\ \/ \E r \in Requests :
                InListas(r) \/ InColecoes(r) \/ InHabitos(r) \/ InAgenda(r) \/ Rejected(r) \/ Fail(r)
          \/ Expiry
       /\ UNCHANGED <<clock, area>>
    \/ /\ area = "habitos" /\ Midnight
       /\ UNCHANGED <<lista_rows, colecao_rows, agenda_rows, area>>
    \/ AllAnswered /\ UNCHANGED vars

Spec == Init /\ [][Next]_vars

-----------------------------------------------------------------------------
(* A permission is asked of live rows, and the row is written later.  What *)
(* was deleted - a lista, an item of one, an evento, a treino - is written *)
(* again, joined by a new row, or back, only by a request that overlapped. *)
AfterDeletion ==
    [][/\ \A l \in RowIds : listas[l].deleted /\ listas'[l] # listas[l] =>
             \E r \in Overlapped : call[r].op \in {"updateLista", "deleteLista"} /\ call[r].id = l
       /\ \A i \in RowIds : itens_lista[i].deleted /\ itens_lista'[i] # itens_lista[i] =>
             \E r \in Overlapped : call[r].op \in {"updateItemLista", "toggleItem"} /\ call[r].id = i
       /\ \A i \in RowIds : itens_lista'[i].exists /\ ~ itens_lista[i].exists =>
             i \in Overlapped \/ itens_lista'[i].lista \in LiveListas
       /\ \A e \in eventos' \ eventos :
             \E r \in Requests : /\ call[r].id = e
                                /\ \/ call[r].op = "createEvento"
                                   \/ call[r].op = "updateEvento" /\ r \in Overlapped
       /\ \A x \in exercicios' \ exercicios :
             x.id \in Overlapped \/ treinos[x.template] = "live"]_vars

=============================================================================
