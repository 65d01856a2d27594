------------------------------ MODULE Listas ------------------------------
(***************************************************************************)
(* The listas of a bloco, their itens and categorias.                      *)
(*                                                                         *)
(* Every command asks for a permission, writes with one statement, and     *)
(* reads the row again to answer it: a failure of the last is answered 400 *)
(* although the row was written.  No command deletes the cached list of    *)
(* the bloco.  One definition stands for a method of the controller, one   *)
(* for a handler; the disjuncts of the latter are its awaits.              *)
(***************************************************************************)
EXTENDS Cache

CONSTANTS
    First,          \* the row of every table there is to begin with
    Same            \* undefined: a field the body does not have

ASSUME ListasAssumption == {First, Same} \cap (Requests \cup {Nobody}) = {} /\ First # Same

RowIds == Requests \cup {First}
listasByBloco == <<"listas:bloco", First>>

VARIABLES
    listas,         \* the rows of listas
    itens_lista,    \* the rows of itens_lista
    categorias,     \* the ids of the rows of categorias, all of lista First
    written         \* history: what was last asked for each column of an item

lista_rows == <<listas, itens_lista, categorias, written>>

AbsentLista == [exists |-> FALSE, deleted |-> FALSE, nome |-> Nobody]
AbsentItem == [exists |-> FALSE, deleted |-> FALSE, lista |-> First,
               nome |-> Nobody, categoria |-> Nobody, checked |-> FALSE]

LiveListas == {l \in RowIds : listas[l].exists /\ ~ listas[l].deleted}
LiveItens == {i \in RowIds : itens_lista[i].exists /\ ~ itens_lista[i].deleted}

ListasInit ==
    /\ listas = [l \in RowIds |-> [AbsentLista EXCEPT !.exists = (l = First)]]
    /\ itens_lista = [i \in RowIds |-> [AbsentItem EXCEPT !.exists = (i = First)]]
    /\ categorias = {First}
    /\ written = [i \in RowIds |-> [nome |-> Nobody, checked |-> FALSE]]

ListaReads == UNCHANGED <<lista_rows, caches>>

-----------------------------------------------------------------------------
(* ListasController *)

ArriveAt(r, op, id, arg) == Arrive(r, "check", op, id, arg) /\ ListaReads

getListaById(r) == \E l \in RowIds : listas[l].exists /\ ArriveAt(r, "getListaById", l, Nobody)
listasByBlocoList(r) == Arrive(r, "getCache", "listListas", First, Nobody) /\ ListaReads
createLista(r) == \/ ArriveAt(r, "createLista", r, Nobody)
                  \/ Refuse(r, "createLista", 400) /\ ListaReads
updateLista(r) == \E l \in RowIds : listas[l].exists /\ ArriveAt(r, "updateLista", l, Nobody)
deleteLista(r) == \E l \in RowIds : listas[l].exists /\ ArriveAt(r, "deleteLista", l, Nobody)
getItemsByLista(r) == \E l \in RowIds : listas[l].exists /\ ArriveAt(r, "getItemsByLista", l, Nobody)
createItemLista(r) == \E l \in RowIds : listas[l].exists /\ ArriveAt(r, "createItemLista", r, l)
updateItemLista(r) ==
    \E i \in RowIds, categoria \in {Same, Nobody, First} :
        itens_lista[i].exists /\ ArriveAt(r, "updateItemLista", i, categoria)
toggleItem(r) ==
    \E i \in RowIds, checked \in {"true", "false", "absent"} :
        itens_lista[i].exists /\ ArriveAt(r, "toggleItem", i, checked)
deleteItemLista(r) ==
    \E i \in RowIds : itens_lista[i].exists /\ ArriveAt(r, "deleteItemLista", i, Nobody)
getCategoriasByLista(r) == ArriveAt(r, "getCategorias", First, Nobody)
createCategoria(r) == ArriveAt(r, "createCategoria", r, First)
deleteCategoria(r) == \E c \in categorias : ArriveAt(r, "deleteCategoria", c, Nobody)

-----------------------------------------------------------------------------
(* Commands on listas.  A bloco may have been deleted, by module Blocos.   *)

CreateListaHandler(r) ==
    /\ \/ \E live \in BOOLEAN : Permit(r, "createLista", live, "write", 400) /\ UNCHANGED listas
       \/ /\ On(r, "createLista", "write")
          /\ listas' = [listas EXCEPT ![r] = [AbsentLista EXCEPT !.exists = TRUE, !.nome = r]]
          /\ Goto(r, "reread")
       \/ On(r, "createLista", "reread") /\ Reply(r, 201) /\ UNCHANGED listas
    /\ UNCHANGED <<itens_lista, categorias, written, caches>>

(* A body without nome and tipoLista is refused after the check.           *)
UpdateListaHandler(r) ==
    /\ \/ /\ Permit(r, "updateLista", call[r].id \in LiveListas, "write", 400)
          /\ UNCHANGED listas
       \/ On(r, "updateLista", "write") /\ Reply(r, 400) /\ UNCHANGED listas
       \/ /\ On(r, "updateLista", "write")
          /\ listas' = [listas EXCEPT ![call[r].id].nome = r]
          /\ Goto(r, "reread")
       \/ On(r, "updateLista", "reread") /\ Reply(r, 200) /\ UNCHANGED listas
    /\ UNCHANGED <<itens_lista, categorias, written, caches>>

(* The itens of the lista stay as they are.                                *)
DeleteListaHandler(r) ==
    /\ \/ /\ Permit(r, "deleteLista", call[r].id \in LiveListas, "write", 400)
          /\ UNCHANGED listas
       \/ /\ On(r, "deleteLista", "write")
          /\ listas' = [listas EXCEPT ![call[r].id].deleted = TRUE]
          /\ Reply(r, 204)
    /\ UNCHANGED <<itens_lista, categorias, written, caches>>

-----------------------------------------------------------------------------
(* Commands on itens.  The first asks for the lista, the others only for   *)
(* the item.                                                               *)

CreateItemListaHandler(r) ==
    /\ \/ /\ Permit(r, "createItemLista", call[r].arg \in LiveListas, "write", 400)
          /\ UNCHANGED <<itens_lista, written>>
       \/ /\ On(r, "createItemLista", "write")
          /\ itens_lista' = [itens_lista EXCEPT ![r] =
                [AbsentItem EXCEPT !.exists = TRUE, !.lista = call[r].arg, !.nome = r]]
          /\ written' = [written EXCEPT ![r].nome = r]
          /\ Goto(r, "reread")
       \/ On(r, "createItemLista", "reread") /\ Reply(r, 201) /\ UNCHANGED <<itens_lista, written>>
    /\ UNCHANGED <<listas, categorias, caches>>

(* What an update does with a row; here a body has a name or a categoria.  *)
UpdatedItem(item, r) ==
    IF call[r].arg = Same THEN [item EXCEPT !.nome = r]
    ELSE [item EXCEPT !.categoria = call[r].arg]

(* Mutant: the permission is asked of the row alone.                       *)
CheckNothing(i) == itens_lista[i].exists
CheckItem(i) == i \in LiveItens

(* Mutant: the row is written as it was when the permission was asked.     *)
WriteWhole(r) ==
    /\ itens_lista' = [itens_lista EXCEPT ![call[r].id] = UpdatedItem(call[r].read, r)]
    /\ written' = IF call[r].arg = Same THEN [written EXCEPT ![call[r].id].nome = r] ELSE written
    /\ Goto(r, "reread")

(* Only the columns of the body are set; the categoria may be of another   *)
(* lista, but must exist.                                                  *)
WriteItem(r) ==
    /\ IF call[r].arg \in RowIds \ categorias
       THEN Reply(r, 400) /\ UNCHANGED <<itens_lista, written>>
       ELSE /\ itens_lista' = [itens_lista EXCEPT ![call[r].id] = UpdatedItem(@, r)]
            /\ written' = IF call[r].arg = Same THEN [written EXCEPT ![call[r].id].nome = r]
                          ELSE written
            /\ Goto(r, "reread")

(* A body with none of the fields is refused after the check.              *)
UpdateItemListaHandler(r) ==
    /\ \/ /\ On(r, "updateItemLista", "check")
          /\ IF CheckItem(call[r].id) THEN Keep(r, itens_lista[call[r].id], "write")
             ELSE Reply(r, 400)
          /\ UNCHANGED <<itens_lista, written>>
       \/ On(r, "updateItemLista", "write") /\ Reply(r, 400) /\ UNCHANGED <<itens_lista, written>>
       \/ On(r, "updateItemLista", "write") /\ WriteItem(r)
       \/ On(r, "updateItemLista", "reread") /\ Reply(r, 200) /\ UNCHANGED <<itens_lista, written>>
    /\ UNCHANGED <<listas, categorias, caches>>

(* Without checked in the body the item is checked; the notification is    *)
(* only for one that says true.  It is deduplicated in module Timers.      *)
ToggleItemCheckedHandler(r) ==
    /\ \/ /\ Permit(r, "toggleItem", CheckItem(call[r].id), "write", 400)
          /\ UNCHANGED <<itens_lista, written>>
       \/ /\ On(r, "toggleItem", "write")
          /\ itens_lista' = [itens_lista EXCEPT ![call[r].id].checked = (call[r].arg # "false")]
          /\ written' = [written EXCEPT ![call[r].id].checked = (call[r].arg # "false")]
          /\ Goto(r, "reread")
       \/ /\ On(r, "toggleItem", "reread")
          /\ IF call[r].arg = "true" THEN Goto(r, "notify") ELSE Reply(r, 200)
          /\ UNCHANGED <<itens_lista, written>>
       \/ On(r, "toggleItem", "notify") /\ Reply(r, 200) /\ UNCHANGED <<itens_lista, written>>
    /\ UNCHANGED <<listas, categorias, caches>>

DeleteItemListaHandler(r) ==
    /\ \/ /\ Permit(r, "deleteItemLista", CheckItem(call[r].id), "write", 400)
          /\ UNCHANGED itens_lista
       \/ /\ On(r, "deleteItemLista", "write")
          /\ itens_lista' = [itens_lista EXCEPT ![call[r].id].deleted = TRUE]
          /\ Reply(r, 204)
    /\ UNCHANGED <<listas, categorias, written, caches>>

-----------------------------------------------------------------------------
(* Commands on categorias *)

CreateCategoriaHandler(r) ==
    /\ \/ /\ Permit(r, "createCategoria", call[r].arg \in LiveListas, "write", 400)
          /\ UNCHANGED categorias
       \/ /\ On(r, "createCategoria", "write")
          /\ categorias' = categorias \cup {r}
          /\ Goto(r, "reread")
       \/ On(r, "createCategoria", "reread") /\ Reply(r, 201) /\ UNCHANGED categorias
    /\ UNCHANGED <<listas, itens_lista, written, caches>>

(* The foreign key of an item, deleted or not, refuses the statement.      *)
DeleteCategoriaHandler(r) ==
    /\ \/ /\ Permit(r, "deleteCategoria", call[r].id \in categorias, "write", 400)
          /\ UNCHANGED categorias
       \/ /\ On(r, "deleteCategoria", "write")
          /\ IF \E i \in RowIds : itens_lista[i].categoria = call[r].id
             THEN Reply(r, 400) /\ UNCHANGED categorias
             ELSE categorias' = categorias \ {call[r].id} /\ Reply(r, 204)
    /\ UNCHANGED <<listas, itens_lista, written, caches>>

-----------------------------------------------------------------------------
(* Queries *)

GetListaByIdHandler(r) ==
    /\ \/ Permit(r, "getListaById", call[r].id \in LiveListas, "itens", 404)
       \/ On(r, "getListaById", "itens") /\ Goto(r, "categorias")
       \/ On(r, "getListaById", "categorias") /\ Reply(r, 200)
    /\ ListaReads

GetItemsByListaHandler(r) ==
    /\ \/ Permit(r, "getItemsByLista", call[r].id \in LiveListas, "itens", 400)
       \/ On(r, "getItemsByLista", "itens") /\ Reply(r, 200)
    /\ ListaReads

GetCategoriasByListaHandler(r) ==
    /\ \/ Permit(r, "getCategorias", call[r].id \in LiveListas, "categorias", 400)
       \/ On(r, "getCategorias", "categorias") /\ Reply(r, 200)
    /\ ListaReads

GetListasByBlocoHandler(r) ==
    /\ \/ On(r, "listListas", "getCache") /\ GetCache(r, listasByBloco, "check")
       \/ \E live \in BOOLEAN : Permit(r, "listListas", live, "select", 400) /\ UNCHANGED caches
       \/ On(r, "listListas", "select") /\ Keep(r, LiveListas, "setCache") /\ UNCHANGED caches
       \/ On(r, "listListas", "setCache") /\ SetCache(r, listasByBloco, call[r].read)
    /\ UNCHANGED lista_rows

-----------------------------------------------------------------------------
ListasArrival(r) ==
    \/ getListaById(r) \/ listasByBlocoList(r) \/ createLista(r) \/ updateLista(r) \/ deleteLista(r)
    \/ getItemsByLista(r) \/ createItemLista(r) \/ updateItemLista(r) \/ toggleItem(r)
    \/ deleteItemLista(r) \/ getCategoriasByLista(r) \/ createCategoria(r) \/ deleteCategoria(r)

ListasStep(r) ==
    \/ CreateListaHandler(r) \/ UpdateListaHandler(r) \/ DeleteListaHandler(r)
    \/ CreateItemListaHandler(r) \/ UpdateItemListaHandler(r) \/ ToggleItemCheckedHandler(r)
    \/ DeleteItemListaHandler(r) \/ CreateCategoriaHandler(r) \/ DeleteCategoriaHandler(r)
    \/ GetListaByIdHandler(r) \/ GetItemsByListaHandler(r) \/ GetCategoriasByListaHandler(r)
    \/ GetListasByBlocoHandler(r)

-----------------------------------------------------------------------------
(* The name and the mark of an item are each what the last request that    *)
(* set that column asked for: no update undoes a toggle it interleaves     *)
(* with, and no toggle an update.                                          *)
FieldsKept ==
    \A i \in RowIds : /\ itens_lista[i].nome = written[i].nome
                      /\ itens_lista[i].checked = written[i].checked

=============================================================================
