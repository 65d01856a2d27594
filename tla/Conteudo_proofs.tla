-------------------------- MODULE Conteudo_proofs --------------------------
(***************************************************************************)
(* What holds of the contents of blocos for any number of requests, days,  *)
(* failures and errors of Redis, and any degree of concurrency.  A         *)
(* behaviour has requests of one area: there is an invariant for each, of  *)
(* its rows and of what its requests have read of them, and a step of      *)
(* another area leaves the rows as they are.                               *)
(***************************************************************************)
EXTENDS Conteudo, Handlers_proofs

(* Request r arrives or goes on; of the others none runs alone that did    *)
(* not before, and what was overlapped stays so.                           *)
Moves(r) ==
    /\ OnlyMoves(r) /\ call[r].pc # "done" /\ call'[r].pc # "idle"
    /\ Solo' /\ alone' \subseteq alone \cup {r}
    /\ Overlapped \subseteq Overlapped'

(* Request r goes on, or ends: what else is in flight overlaps it.         *)
Works(r) ==
    /\ Moves(r) /\ r \in InFlight /\ alone' = alone
    /\ \A q \in InFlight \ {r} : q \in Overlapped /\ r \in Overlapped

LEMMA WorksIs ==
  ASSUME HandlersOK, Solo, NEW r \in InFlight, OnlyMoves(r), call'[r].pc # "idle", alone' = alone
  PROVE  r \in Requests /\ Works(r)
  <1>1. r \in Requests /\ call[r].pc # "done" /\ call[r].pc # "idle"
    BY DEF InFlight, At
  <1>2. Solo'
    BY SoloStays
  <1>3. Overlapped \subseteq Overlapped'
    BY <1>1 DEF Overlapped, OnlyMoves, At
  <1>4. \A q \in InFlight \ {r} : q \in Overlapped /\ r \in Overlapped
    BY <1>1, NoOtherIsAlone DEF Overlapped, InFlight, At
  <1> QED
    BY <1>1, <1>2, <1>3, <1>4 DEF Works, Moves

LEMMA GotoWorks ==
  ASSUME HandlersOK, Solo, NEW r \in InFlight, NEW label, label # "idle", Goto(r, label)
  PROVE  /\ r \in Requests /\ Works(r) /\ GoesTo(r, label) /\ call'[r].read = call[r].read
         /\ answer' = answer
  <1>1. r \in Requests /\ call[r].pc # "done"
    BY DEF InFlight, At
  <1>2. /\ OnlyMoves(r) /\ GoesTo(r, label) /\ call'[r].read = call[r].read
        /\ answer' = answer /\ alone' = alone
    BY <1>1, GotoIs
  <1> QED
    BY <1>1, <1>2, WorksIs DEF GoesTo, GoesAs

LEMMA KeepWorks ==
  ASSUME HandlersOK, Solo, NEW r \in InFlight, NEW label, label # "idle", NEW read,
         Keep(r, read, label)
  PROVE  /\ r \in Requests /\ Works(r) /\ GoesTo(r, label) /\ call'[r].read = read
         /\ answer' = answer
  <1>1. r \in Requests /\ call[r].pc # "done"
    BY DEF InFlight, At
  <1>2. /\ OnlyMoves(r) /\ GoesTo(r, label) /\ call'[r].read = read
        /\ answer' = answer /\ alone' = alone
    BY <1>1, KeepIs
  <1> QED
    BY <1>1, <1>2, WorksIs DEF GoesTo, GoesAs

LEMMA ReplyWorks ==
  ASSUME HandlersOK, Solo, NEW r \in InFlight, NEW status,
         Reply(r, status) \/ FailWith(r, status)
  PROVE  /\ r \in Requests /\ Works(r) /\ call'[r].pc = "done" /\ call'[r].op = call[r].op
         /\ answer'[r] = status
  <1>1. r \in Requests
    BY DEF InFlight
  <1>2. /\ OnlyMoves(r) /\ call'[r].pc = "done" /\ call'[r].op = call[r].op
        /\ answer'[r] = status /\ alone' = alone
    BY <1>1, ReplyIs, FailIs
  <1> QED
    BY <1>1, <1>2, WorksIs

LEMMA ArriveMoves ==
  ASSUME HandlersOK, Solo, NEW r \in Requests, NEW label, label \notin {"idle", "done"},
         NEW op, NEW id, NEW arg, Arrive(r, label, op, id, arg)
  PROVE  /\ Moves(r) /\ call[r].pc = "idle" /\ GoesAs(r, label, op, id, arg)
         /\ call'[r].read = Nobody /\ answer' = answer
  <1>1. /\ OnlyMoves(r) /\ answer' = answer /\ call[r].pc = "idle"
        /\ GoesAs(r, label, op, id, arg) /\ call'[r].read = Nobody
    BY ArriveIs
  <1>2. Solo' /\ alone' \subseteq alone \cup {r} /\ \A q \in InFlight : q \notin alone'
    BY SoloArrive
  <1>3. Overlapped \subseteq Overlapped'
    BY <1>1, <1>2 DEF Overlapped, OnlyMoves, At
  <1> QED
    BY <1>1, <1>2, <1>3 DEF Moves, GoesAs

LEMMA RefuseMoves ==
  ASSUME HandlersOK, Solo, NEW r \in Requests, NEW op, NEW status, Refuse(r, op, status)
  PROVE  /\ Moves(r) /\ call[r].pc = "idle" /\ call'[r].pc = "done" /\ call'[r].op = op
         /\ answer'[r] = status
  <1>1. /\ OnlyMoves(r) /\ call'[r].pc = "done" /\ call'[r].op = op /\ answer'[r] = status
        /\ alone' = alone
    BY RefuseIs
  <1>2. call[r].pc = "idle"
    BY DEF Refuse, At
  <1>3. Solo'
    BY <1>1, <1>2, SoloRefuse
  <1>4. Overlapped \subseteq Overlapped'
    BY <1>1, <1>2 DEF Overlapped, OnlyMoves, At
  <1> QED
    BY <1>1, <1>2, <1>3, <1>4 DEF Moves

BaseInv == HandlersOK /\ Solo

LEMMA MovesBase ==
  ASSUME NEW r, Moves(r)
  PROVE  BaseInv'
  BY DEF Moves, OnlyMoves, BaseInv

-----------------------------------------------------------------------------
(* Listas and itens                                                        *)

ListaRow == [exists : BOOLEAN, deleted : BOOLEAN, nome : Requests \cup {Nobody}]
ItemRow == [exists : BOOLEAN, deleted : BOOLEAN, lista : RowIds, nome : Requests \cup {Nobody},
            categoria : {Nobody, First}, checked : BOOLEAN]

ListasOK ==
    /\ listas \in [RowIds -> ListaRow] /\ itens_lista \in [RowIds -> ItemRow]
    /\ written \in [RowIds -> [nome : Requests \cup {Nobody}, checked : BOOLEAN]]
    /\ \A l \in RowIds : ~ listas[l].exists => ~ listas[l].deleted
    /\ \A i \in RowIds : ~ itens_lista[i].exists =>
                            ~ itens_lista[i].deleted /\ ~ itens_lista[i].checked
    /\ FieldsKept

Asks(c, ops) == c.op \in ops /\ c.pc \in {"check", "write"}

OnLista == {"updateLista", "deleteLista"}
OnItem == {"updateItemLista", "toggleItem", "deleteItemLista"}

(* A creation brings a new row, the other commands name one that is there; *)
(* and what a request that runs alone was permitted is so until it writes. *)
ListaCall(r, c) ==
    /\ c.pc = "idle" \/ Asks(c, {"createLista"}) => ~ listas[r].exists
    /\ c.pc = "idle" \/ Asks(c, {"createItemLista"}) => ~ itens_lista[r].exists
    /\ Asks(c, {"createItemLista"}) => c.arg \in RowIds
    /\ Asks(c, OnLista) => c.id \in RowIds /\ listas[c.id].exists
    /\ Asks(c, OnItem) => c.id \in RowIds /\ itens_lista[c.id].exists
    /\ Asks(c, {"updateItemLista"}) => c.arg \in {Same, Nobody, First}
    /\ c.pc = "write" /\ r \in alone =>
          /\ c.op \in OnLista => ~ listas[c.id].deleted
          /\ c.op \in OnItem => ~ itens_lista[c.id].deleted
          /\ c.op = "createItemLista" => c.arg \in LiveListas

ListasInv == ListasOK /\ (area = "listas" => \A r \in Requests : ListaCall(r, call[r]))

(* What AfterDeletion says of listas and their itens.                      *)
ListasStayDeleted ==
    /\ \A l \in RowIds : listas[l].deleted /\ listas'[l] # listas[l] =>
          \E r \in Overlapped : call[r].op \in {"updateLista", "deleteLista"} /\ call[r].id = l
    /\ \A i \in RowIds : itens_lista[i].deleted /\ itens_lista'[i] # itens_lista[i] =>
          \E r \in Overlapped : call[r].op \in {"updateItemLista", "toggleItem"} /\ call[r].id = i
    /\ \A i \in RowIds : itens_lista'[i].exists /\ ~ itens_lista[i].exists =>
          i \in Overlapped \/ itens_lista'[i].lista \in LiveListas

ListaRowsStay == UNCHANGED <<listas, itens_lista, written>>

LEMMA ListasInit_ == Init => ListasInv
  <1> SUFFICES ASSUME Init PROVE ListasInv
    OBVIOUS
  <1>1. /\ listas = [l \in RowIds |-> [AbsentLista EXCEPT !.exists = (l = First)]]
        /\ itens_lista = [i \in RowIds |-> [AbsentItem EXCEPT !.exists = (i = First)]]
        /\ written = [i \in RowIds |-> [nome |-> Nobody, checked |-> FALSE]]
        /\ \A r \in Requests : call[r] = Idle
    BY DEF Init, HandlersInit, ListasInit
  <1>2. First \in RowIds /\ First \notin Requests /\ Requests \subseteq RowIds
    BY ListasAssumption DEF RowIds
  <1>3. listas \in [RowIds -> ListaRow]
    BY <1>1, <1>2 DEF AbsentLista, ListaRow
  <1>4. itens_lista \in [RowIds -> ItemRow]
    BY <1>1, <1>2 DEF AbsentItem, ItemRow
  <1>5. /\ \A l \in RowIds : ~ listas[l].deleted /\ (listas[l].exists => l = First)
        /\ \A i \in RowIds : /\ ~ itens_lista[i].deleted /\ (itens_lista[i].exists => i = First)
                             /\ ~ itens_lista[i].checked
                             /\ itens_lista[i].checked = FALSE /\ itens_lista[i].nome = Nobody
    BY <1>1 DEF AbsentLista, AbsentItem
  <1>6. ListasOK
    BY <1>1, <1>3, <1>4, <1>5 DEF ListasOK, FieldsKept
  <1>7. \A r \in Requests : /\ call[r].pc = "idle"
                            /\ ~ listas[r].exists /\ ~ itens_lista[r].exists
    <2>1. \A r \in Requests : call[r].pc = "idle"
      BY <1>1 DEF Idle
    <2> QED
      BY <1>2, <1>5, <2>1
  <1>8. \A r \in Requests : ListaCall(r, call[r])
    BY <1>7 DEF ListaCall, Asks
  <1> QED
    BY <1>6, <1>8 DEF ListasInv

(* A step that writes none of the rows.                                    *)
LEMMA ListasQuiet ==
  ASSUME ListasInv, area' = area, ListaRowsStay, NEW r \in Requests, Moves(r),
         area = "listas" => ListaCall(r, call[r])'
  PROVE  ListasInv' /\ ListasStayDeleted
  <1>1. ListasOK' /\ ListasStayDeleted
    BY DEF ListasInv, ListasOK, ListaRowsStay, FieldsKept, ListasStayDeleted
  <1>2. ASSUME area = "listas", NEW q \in Requests \ {r}
        PROVE  ListaCall(q, call[q])'
    <2>1. call'[q] = call[q] /\ ListaCall(q, call[q]) /\ (q \in alone' => q \in alone)
      BY <1>2 DEF ListasInv, Moves, OnlyMoves
    <2> QED
      BY <2>1 DEF ListaCall, ListaRowsStay, LiveListas, Asks
  <1> QED
    BY <1>1, <1>2 DEF ListasInv

(* Where no row is named yet, or no longer.                                *)
LEMMA ListaElsewhere ==
  ASSUME NEW r, \/ call'[r].pc \notin {"idle", "check", "write"}
                \/ /\ call'[r].pc # "idle"
                   /\ call'[r].op \notin {"createLista", "createItemLista"} \cup OnLista \cup OnItem
  PROVE  ListaCall(r, call[r])'
  BY DEF ListaCall, Asks, OnItem

(* A step that writes rows: those that were there are, and of the others   *)
(* only the one of r.                                                      *)
LEMMA ListasWritten ==
  ASSUME ListasInv, area' = area, area = "listas", NEW r \in Requests, Works(r), ListasOK',
         ListaCall(r, call[r])',
         \A l \in RowIds : listas[l].exists => listas'[l].exists,
         \A l \in RowIds \ {r} : listas'[l].exists => listas[l].exists,
         \A i \in RowIds : itens_lista[i].exists => itens_lista'[i].exists,
         \A i \in RowIds \ {r} : itens_lista'[i].exists => itens_lista[i].exists
  PROVE  ListasInv'
  <1>1. ASSUME NEW q \in Requests \ {r}
        PROVE  ListaCall(q, call[q])'
    <2>1. call'[q] = call[q] /\ ListaCall(q, call[q]) /\ q \in RowIds
      BY DEF ListasInv, Works, Moves, OnlyMoves, RowIds
    <2>2. call[q].pc = "write" => q \notin alone'
      BY DEF Works, InFlight, At, Overlapped
    <2> QED
      BY <2>1, <2>2 DEF ListaCall, Asks
  <1> QED
    BY <1>1 DEF ListasInv

LEMMA ListasArrives ==
  ASSUME BaseInv, ListasInv, area' = area, NEW r \in Requests, ListasArrival(r)
  PROVE  Moves(r) /\ ListasInv' /\ ListasStayDeleted
  <1>0. r \in RowIds /\ ListaRowsStay
    BY DEF RowIds, ListasArrival, getListaById, listasByBlocoList, createLista, updateLista,
           deleteLista, getItemsByLista, createItemLista, updateItemLista, toggleItem,
           deleteItemLista, getCategoriasByLista, createCategoria, deleteCategoria, ArriveAt,
           ListaReads, lista_rows, ListaRowsStay
  <1>1. ASSUME NEW label \in {"check", "getCache"}, NEW op, NEW id, NEW arg,
               Arrive(r, label, op, id, arg),
               op \in OnLista => id \in RowIds /\ listas[id].exists,
               op \in OnItem => id \in RowIds /\ itens_lista[id].exists,
               op = "createItemLista" => arg \in RowIds,
               op = "updateItemLista" => arg \in {Same, Nobody, First}
        PROVE  Moves(r) /\ ListasInv' /\ ListasStayDeleted
    <2>1. Moves(r) /\ call[r].pc = "idle" /\ GoesAs(r, label, op, id, arg)
      BY <1>1, ArriveMoves DEF BaseInv
    <2>2. area = "listas" => ~ listas[r].exists /\ ~ itens_lista[r].exists
      BY <2>1 DEF ListasInv, ListaCall
    <2>3. area = "listas" => ListaCall(r, call[r])'
      BY <1>0, <1>1, <2>1, <2>2 DEF ListaCall, Asks, GoesAs, ListaRowsStay
    <2> QED
      BY <1>0, <2>1, <2>3, ListasQuiet
  <1>2. ASSUME NEW op, NEW status, Refuse(r, op, status)
        PROVE  Moves(r) /\ ListasInv' /\ ListasStayDeleted
    <2>1. Moves(r) /\ call'[r].pc = "done"
      BY <1>2, RefuseMoves DEF BaseInv
    <2>2. ListaCall(r, call[r])'
      BY <2>1, ListaElsewhere
    <2> QED
      BY <1>0, <2>1, <2>2, ListasQuiet
  <1>3. CASE getListaById(r) \/ listasByBlocoList(r) \/ createLista(r) \/ getItemsByLista(r)
             \/ getCategoriasByLista(r) \/ createCategoria(r) \/ deleteCategoria(r)
    BY <1>1, <1>2, <1>3
       DEF getListaById, listasByBlocoList, createLista, getItemsByLista, getCategoriasByLista,
           createCategoria, deleteCategoria, ArriveAt, OnLista, OnItem
  <1>4. CASE updateLista(r) \/ deleteLista(r)
    BY <1>1, <1>4 DEF updateLista, deleteLista, ArriveAt, OnLista, OnItem
  <1>5. CASE createItemLista(r)
    BY <1>1, <1>5 DEF createItemLista, ArriveAt, OnLista, OnItem
  <1>6. CASE updateItemLista(r) \/ toggleItem(r) \/ deleteItemLista(r)
    BY <1>1, <1>6 DEF updateItemLista, toggleItem, deleteItemLista, ArriveAt, OnLista, OnItem
  <1> QED
    BY <1>3, <1>4, <1>5, <1>6 DEF ListasArrival

(* A step that writes none of the rows, and ends or leaves the labels at   *)
(* which a row is named.                                                   *)
LEMMA ListasPasses ==
  ASSUME BaseInv, ListasInv, area' = area, ListaRowsStay, NEW r \in InFlight,
         \/ \E status : Reply(r, status) \/ FailWith(r, status)
         \/ \E label : /\ label \notin {"idle", "check", "write"}
                       /\ Goto(r, label) \/ \E read : Keep(r, read, label)
         \/ /\ call[r].op \notin {"createLista", "createItemLista"} \cup OnLista \cup OnItem
            /\ \E label : /\ label # "idle"
                          /\ Goto(r, label) \/ \E read : Keep(r, read, label)
  PROVE  Moves(r) /\ ListasInv' /\ ListasStayDeleted
  <1>1. r \in Requests /\ HandlersOK /\ Solo
    BY DEF BaseInv, InFlight
  <1>2. CASE \E status : Reply(r, status) \/ FailWith(r, status)
    <2>1. Moves(r) /\ call'[r].pc = "done"
      BY <1>1, <1>2, ReplyWorks DEF Works
    <2> QED
      BY <1>1, <2>1, ListaElsewhere, ListasQuiet
  <1>3. ASSUME NEW label, label # "idle", Goto(r, label) \/ \E read : Keep(r, read, label),
               \/ label \notin {"check", "write"}
               \/ call[r].op \notin {"createLista", "createItemLista"} \cup OnLista \cup OnItem
        PROVE  Moves(r) /\ ListasInv' /\ ListasStayDeleted
    <2>1. Moves(r) /\ call'[r].pc = label /\ call'[r].op = call[r].op
      BY <1>1, <1>3, GotoWorks, KeepWorks DEF Works, GoesTo, GoesAs
    <2> QED
      BY <1>1, <1>3, <2>1, ListaElsewhere, ListasQuiet
  <1> QED
    BY <1>2, <1>3

(* The permission of a command, which then writes.                         *)
LEMMA ListasPermits ==
  ASSUME BaseInv, ListasInv, area' = area, ListaRowsStay, NEW r \in InFlight, area = "listas",
         call[r].pc = "check",
         Goto(r, "write") \/ \E read : Keep(r, read, "write"),
         call[r].op \in OnLista => call[r].id \in LiveListas,
         call[r].op \in OnItem => call[r].id \in LiveItens,
         call[r].op = "createItemLista" => call[r].arg \in LiveListas
  PROVE  Moves(r) /\ ListasInv' /\ ListasStayDeleted
  <1>1. r \in Requests /\ HandlersOK /\ Solo
    BY DEF BaseInv, InFlight
  <1>2. Moves(r) /\ GoesTo(r, "write")
    BY <1>1, GotoWorks, KeepWorks DEF Works
  <1>3. ListaCall(r, call[r])
    BY <1>1 DEF ListasInv
  <1>4. ListaCall(r, call[r])'
    BY <1>2, <1>3 DEF ListaCall, Asks, GoesTo, GoesAs, ListaRowsStay, LiveListas, LiveItens
  <1> QED
    BY <1>1, <1>2, <1>4, ListasQuiet

(* A lista is written: the row of r, or one that is there.                 *)
LEMMA ListaWritten ==
  ASSUME BaseInv, ListasInv, area' = area, area = "listas", NEW r \in InFlight,
         NEW l \in RowIds, NEW row \in ListaRow, listas' = [listas EXCEPT ![l] = row],
         UNCHANGED <<itens_lista, written>>, row.exists,
         l = r \/ listas[l].exists,
         listas[l].deleted => call[r].op \in OnLista /\ call[r].id = l /\ r \notin alone,
         \/ \E status : Reply(r, status)
         \/ Goto(r, "reread")
  PROVE  Moves(r) /\ ListasInv' /\ ListasStayDeleted
  <1>1. r \in Requests /\ HandlersOK /\ Solo /\ r \in RowIds
    BY DEF BaseInv, InFlight, RowIds
  <1>2. Works(r) /\ call'[r].pc \in {"reread", "done"}
    BY <1>1, GotoWorks, ReplyWorks DEF GoesTo, GoesAs
  <1>3. listas'[l] = row /\ \A k \in RowIds \ {l} : listas'[k] = listas[k]
    BY DEF ListasInv, ListasOK
  <1>4. ListasOK'
    BY <1>3 DEF ListasInv, ListasOK, FieldsKept
  <1>5. ListasInv'
    BY <1>1, <1>2, <1>3, <1>4, ListaElsewhere, ListasWritten
  <1>6. ListasStayDeleted
    BY <1>1, <1>3 DEF ListasStayDeleted, OnLista, Overlapped, InFlight, At
  <1> QED
    BY <1>2, <1>5, <1>6 DEF Works

LEMMA ListasCommands ==
  ASSUME BaseInv, ListasInv, area' = area, area = "listas", NEW r \in Requests,
         CreateListaHandler(r) \/ UpdateListaHandler(r) \/ DeleteListaHandler(r)
  PROVE  Moves(r) /\ ListasInv' /\ ListasStayDeleted
  <1>1. r \in InFlight /\ ListaCall(r, call[r]) /\ r \in RowIds
    BY DEF CreateListaHandler, UpdateListaHandler, DeleteListaHandler, Permit, On, At, InFlight,
           ListasInv, RowIds
  <1>2. /\ UNCHANGED <<itens_lista, written>>
        /\ listas' = listas => ListaRowsStay
    BY DEF CreateListaHandler, UpdateListaHandler, DeleteListaHandler, ListaRowsStay
  <1>3. /\ listas \in [RowIds -> ListaRow]
        /\ \A k \in RowIds : ~ listas[k].exists => ~ listas[k].deleted
    BY DEF ListasInv, ListasOK
  <1>4. ASSUME At(r, "check"), call[r].op \in {"createLista"} \cup OnLista, Goto(r, "write"),
               listas' = listas, call[r].op \in OnLista => call[r].id \in LiveListas
        PROVE  Moves(r) /\ ListasInv' /\ ListasStayDeleted
    BY <1>1, <1>2, <1>4, ListasPermits DEF OnItem, OnLista, At
  <1>5. CASE listas' = listas /\ (Goto(r, "reread") \/ \E status : Reply(r, status))
    BY <1>1, <1>2, <1>5, ListasPasses
  <1>6. CASE CreateListaHandler(r)
    <2>1. CASE /\ On(r, "createLista", "write")
               /\ listas' = [listas EXCEPT ![r] = [AbsentLista EXCEPT !.exists = TRUE, !.nome = r]]
               /\ Goto(r, "reread")
      <3>1. PICK row : row = [AbsentLista EXCEPT !.exists = TRUE, !.nome = r]
        OBVIOUS
      <3>2. row \in ListaRow /\ row.exists
        BY <3>1 DEF AbsentLista, ListaRow
      <3>3. ~ listas[r].deleted
        BY <1>1, <1>3, <2>1 DEF ListaCall, Asks, On, At
      <3> QED
        BY <1>1, <1>2, <2>1, <3>1, <3>2, <3>3, ListaWritten
    <2> QED
      BY <1>4, <1>5, <1>6, <2>1 DEF CreateListaHandler, Permit, On, OnLista
  <1>7. ASSUME call[r].pc = "write", call[r].op \in OnLista
        PROVE  /\ call[r].id \in RowIds /\ listas[call[r].id].exists
               /\ listas[call[r].id] \in ListaRow
               /\ listas[call[r].id].deleted => r \notin alone
    BY <1>1, <1>3, <1>7 DEF ListaCall, Asks
  <1>8. CASE UpdateListaHandler(r)
    <2>1. CASE /\ On(r, "updateLista", "write")
               /\ listas' = [listas EXCEPT ![call[r].id].nome = r]
               /\ Goto(r, "reread")
      <3>1. PICK l : l = call[r].id
        OBVIOUS
      <3>2. /\ l \in RowIds /\ listas[l].exists /\ listas[l] \in ListaRow
            /\ listas[l].deleted => r \notin alone
        BY <1>7, <2>1, <3>1 DEF On, At, OnLista
      <3>3. PICK row : row = [listas[l] EXCEPT !.nome = r]
        OBVIOUS
      <3>4. row \in ListaRow /\ row.exists /\ listas' = [listas EXCEPT ![l] = row]
        BY <2>1, <3>1, <3>2, <3>3 DEF ListaRow
      <3> QED
        BY <1>1, <1>2, <2>1, <3>1, <3>2, <3>4, ListaWritten DEF On, OnLista
    <2> QED
      BY <1>4, <1>5, <1>8, <2>1 DEF UpdateListaHandler, Permit, On, OnLista
  <1>9. CASE DeleteListaHandler(r)
    <2>1. CASE /\ On(r, "deleteLista", "write")
               /\ listas' = [listas EXCEPT ![call[r].id].deleted = TRUE]
               /\ Reply(r, 204)
      <3>1. PICK l : l = call[r].id
        OBVIOUS
      <3>2. /\ l \in RowIds /\ listas[l].exists /\ listas[l] \in ListaRow
            /\ listas[l].deleted => r \notin alone
        BY <1>7, <2>1, <3>1 DEF On, At, OnLista
      <3>3. PICK row : row = [listas[l] EXCEPT !.deleted = TRUE]
        OBVIOUS
      <3>4. row \in ListaRow /\ row.exists /\ listas' = [listas EXCEPT ![l] = row]
        BY <2>1, <3>1, <3>2, <3>3 DEF ListaRow
      <3> QED
        BY <1>1, <1>2, <2>1, <3>1, <3>2, <3>4, ListaWritten DEF On, OnLista
    <2> QED
      BY <1>4, <1>5, <1>9, <2>1 DEF DeleteListaHandler, Permit, On, OnLista
  <1> QED
    BY <1>6, <1>8, <1>9

(* An item is written, and with it what was asked for: the row of r, or    *)
(* one that is there.                                                      *)
LEMMA ItemWritten ==
  ASSUME BaseInv, ListasInv, area' = area, area = "listas", NEW r \in InFlight,
         NEW i \in RowIds, NEW row \in ItemRow, itens_lista' = [itens_lista EXCEPT ![i] = row],
         NEW asked \in [nome : Requests \cup {Nobody}, checked : BOOLEAN],
         written' = [written EXCEPT ![i] = asked], listas' = listas, row.exists,
         row.nome = asked.nome, row.checked = asked.checked,
         itens_lista[i].exists \/ (i = r /\ (r \in alone => row.lista \in LiveListas)),
         itens_lista[i].deleted => \/ row = itens_lista[i]
                                   \/ /\ call[r].op \in {"updateItemLista", "toggleItem"}
                                      /\ call[r].id = i /\ r \notin alone,
         \/ \E status : Reply(r, status)
         \/ Goto(r, "reread")
  PROVE  Moves(r) /\ ListasInv' /\ ListasStayDeleted
  <1>1. r \in Requests /\ HandlersOK /\ Solo /\ r \in RowIds
    BY DEF BaseInv, InFlight, RowIds
  <1>2. Works(r) /\ call'[r].pc \in {"reread", "done"}
    BY <1>1, GotoWorks, ReplyWorks DEF GoesTo, GoesAs
  <1>3. /\ itens_lista'[i] = row /\ written'[i] = asked
        /\ \A k \in RowIds \ {i} : itens_lista'[k] = itens_lista[k] /\ written'[k] = written[k]
    BY DEF ListasInv, ListasOK
  <1>4. ListasOK'
    BY <1>3 DEF ListasInv, ListasOK, FieldsKept
  <1>5. ListasInv'
    BY <1>1, <1>2, <1>3, <1>4, ListaElsewhere, ListasWritten
  <1>6. ListasStayDeleted
    BY <1>1, <1>3 DEF ListasStayDeleted, Overlapped, InFlight, At
  <1> QED
    BY <1>2, <1>5, <1>6 DEF Works

(* What a command on an item finds when it writes.                         *)
LEMMA ItemNamed ==
  ASSUME ListasInv, area = "listas", NEW r \in Requests, call[r].pc = "write",
         call[r].op \in OnItem, NEW i, i = call[r].id
  PROVE  /\ i \in RowIds /\ itens_lista[i] \in ItemRow /\ itens_lista[i].exists
         /\ itens_lista[i].deleted => r \notin alone
         /\ written[i] \in [nome : Requests \cup {Nobody}, checked : BOOLEAN]
         /\ itens_lista[i].nome = written[i].nome /\ itens_lista[i].checked = written[i].checked
  <1>1. i \in RowIds /\ itens_lista[i].exists /\ (r \in alone => ~ itens_lista[i].deleted)
    BY DEF ListasInv, ListaCall, Asks
  <1> QED
    BY <1>1 DEF ListasInv, ListasOK, FieldsKept

LEMMA ItensCommands ==
  ASSUME BaseInv, ListasInv, area' = area, area = "listas", NEW r \in Requests,
         \/ CreateItemListaHandler(r) \/ UpdateItemListaHandler(r)
         \/ ToggleItemCheckedHandler(r) \/ DeleteItemListaHandler(r)
  PROVE  Moves(r) /\ ListasInv' /\ ListasStayDeleted
  <1>1. r \in InFlight /\ ListaCall(r, call[r]) /\ r \in RowIds
    BY DEF CreateItemListaHandler, UpdateItemListaHandler, ToggleItemCheckedHandler,
           DeleteItemListaHandler, Permit, On, At, InFlight, ListasInv, RowIds
  <1>2. /\ listas' = listas
        /\ UNCHANGED <<itens_lista, written>> => ListaRowsStay
    BY DEF CreateItemListaHandler, UpdateItemListaHandler, ToggleItemCheckedHandler,
           DeleteItemListaHandler, ListaRowsStay
  <1>3. /\ itens_lista \in [RowIds -> ItemRow]
        /\ written \in [RowIds -> [nome : Requests \cup {Nobody}, checked : BOOLEAN]]
    BY DEF ListasInv, ListasOK
  <1>4. ASSUME At(r, "check"), call[r].op \in {"createItemLista"} \cup OnItem,
               Goto(r, "write") \/ \E read : Keep(r, read, "write"),
               UNCHANGED <<itens_lista, written>>,
               call[r].op = "createItemLista" => call[r].arg \in LiveListas,
               call[r].op \in OnItem => call[r].id \in LiveItens
        PROVE  Moves(r) /\ ListasInv' /\ ListasStayDeleted
    BY <1>1, <1>2, <1>4, ListasPermits DEF OnItem, OnLista, At
  <1>5. CASE /\ UNCHANGED <<itens_lista, written>>
             /\ \/ Goto(r, "reread") \/ Goto(r, "notify")
                \/ \E status : Reply(r, status)
    BY <1>1, <1>2, <1>5, ListasPasses
  <1>6. CASE CreateItemListaHandler(r)
    <2>1. CASE /\ On(r, "createItemLista", "write")
               /\ itens_lista' = [itens_lista EXCEPT ![r] =
                     [AbsentItem EXCEPT !.exists = TRUE, !.lista = call[r].arg, !.nome = r]]
               /\ written' = [written EXCEPT ![r].nome = r]
               /\ Goto(r, "reread")
      <3>1. /\ call[r].arg \in RowIds /\ ~ itens_lista[r].exists
            /\ r \in alone => call[r].arg \in LiveListas
        BY <1>1, <2>1 DEF ListaCall, Asks, On, At
      <3>2. ~ itens_lista[r].deleted /\ ~ written[r].checked /\ written[r].checked \in BOOLEAN
        <4>1. itens_lista[r].checked = written[r].checked
          BY <1>1 DEF ListasInv, ListasOK, FieldsKept
        <4> QED
          BY <1>1, <1>3, <3>1, <4>1 DEF ListasInv, ListasOK
      <3>3. PICK row : row = [AbsentItem EXCEPT !.exists = TRUE, !.lista = call[r].arg, !.nome = r]
        OBVIOUS
      <3>4. /\ row \in ItemRow /\ row.exists /\ row.nome = r /\ row.checked = FALSE
            /\ row.lista = call[r].arg
        BY <3>1, <3>3 DEF AbsentItem, ItemRow
      <3>5. PICK asked : asked = [written[r] EXCEPT !.nome = r]
        OBVIOUS
      <3>6. /\ asked \in [nome : Requests \cup {Nobody}, checked : BOOLEAN]
            /\ asked.nome = r /\ asked.checked = FALSE
        BY <1>1, <1>3, <3>2, <3>5
      <3>7. /\ itens_lista' = [itens_lista EXCEPT ![r] = row]
            /\ written' = [written EXCEPT ![r] = asked]
        BY <2>1, <3>3, <3>5
      <3>8. /\ r \in alone => row.lista \in LiveListas
            /\ row.nome = asked.nome /\ row.checked = asked.checked
        BY <3>1, <3>4, <3>6
      <3> QED
        BY <1>1, <1>2, <2>1, <3>2, <3>4, <3>6, <3>7, <3>8, ItemWritten
    <2> QED
      BY <1>4, <1>5, <1>6, <2>1 DEF CreateItemListaHandler, Permit, On, OnItem
  <1>7. CASE UpdateItemListaHandler(r)
    <2>1. CASE On(r, "updateItemLista", "write") /\ WriteItem(r) /\ ~ (call[r].arg \in RowIds \ categorias)
      <3>1. PICK i : i = call[r].id
        OBVIOUS
      <3>2. call[r].op \in OnItem /\ call[r].pc = "write"
        BY <2>1 DEF On, At, OnItem
      <3>3. /\ i \in RowIds /\ itens_lista[i] \in ItemRow /\ itens_lista[i].exists
            /\ itens_lista[i].deleted => r \notin alone
            /\ written[i] \in [nome : Requests \cup {Nobody}, checked : BOOLEAN]
            /\ itens_lista[i].nome = written[i].nome
            /\ itens_lista[i].checked = written[i].checked
        BY <3>1, <3>2, ItemNamed
      <3>4. call[r].arg \in {Same, Nobody, First}
        BY <1>1, <2>1 DEF ListaCall, Asks, On, At
      <3>5. PICK row : row = UpdatedItem(itens_lista[i], r)
        OBVIOUS
      <3>6. PICK asked : asked = IF call[r].arg = Same THEN [written[i] EXCEPT !.nome = r]
                                 ELSE written[i]
        OBVIOUS
      <3>7. /\ row \in ItemRow /\ row.exists /\ row.checked = itens_lista[i].checked
            /\ row.nome = IF call[r].arg = Same THEN r ELSE itens_lista[i].nome
        BY <3>3, <3>4, <3>5 DEF UpdatedItem, ItemRow
      <3>8. /\ asked \in [nome : Requests \cup {Nobody}, checked : BOOLEAN]
            /\ asked.checked = written[i].checked
            /\ asked.nome = IF call[r].arg = Same THEN r ELSE written[i].nome
        BY <3>3, <3>6
      <3>9. /\ itens_lista' = [itens_lista EXCEPT ![i] = row]
            /\ written' = [written EXCEPT ![i] = asked]
            /\ Goto(r, "reread")
        BY <1>3, <2>1, <3>1, <3>3, <3>5, <3>6 DEF WriteItem, UpdatedItem
      <3>10. row.nome = asked.nome /\ row.checked = asked.checked
        BY <3>3, <3>7, <3>8
      <3>11. itens_lista[i].deleted =>
                 /\ call[r].op \in {"updateItemLista", "toggleItem"}
                 /\ call[r].id = i /\ r \notin alone
        BY <2>1, <3>1, <3>3 DEF On
      <3> QED
        BY <1>1, <1>2, <3>3, <3>7, <3>8, <3>9, <3>10, <3>11, ItemWritten
    <2>2. CASE On(r, "updateItemLista", "write") /\ WriteItem(r) /\ call[r].arg \in RowIds \ categorias
      BY <1>5, <2>2 DEF WriteItem
    <2>3. CASE On(r, "updateItemLista", "check")
      <3>1. UNCHANGED <<itens_lista, written>>
        BY <1>7, <2>3 DEF UpdateItemListaHandler, On, At
      <3>2. \/ Keep(r, itens_lista[call[r].id], "write") /\ call[r].id \in LiveItens
            \/ Reply(r, 400)
        BY <1>7, <2>3 DEF UpdateItemListaHandler, On, At, CheckItem
      <3> QED
        BY <1>4, <1>5, <2>3, <3>1, <3>2 DEF On, OnItem
    <2> QED
      BY <1>5, <1>7, <2>1, <2>2, <2>3 DEF UpdateItemListaHandler
  <1>8. CASE ToggleItemCheckedHandler(r)
    <2>1. CASE /\ On(r, "toggleItem", "write")
               /\ itens_lista' = [itens_lista EXCEPT ![call[r].id].checked = (call[r].arg # "false")]
               /\ written' = [written EXCEPT ![call[r].id].checked = (call[r].arg # "false")]
               /\ Goto(r, "reread")
      <3>1. PICK i : i = call[r].id
        OBVIOUS
      <3>2. call[r].op \in OnItem /\ call[r].pc = "write"
        BY <2>1 DEF On, At, OnItem
      <3>3. /\ i \in RowIds /\ itens_lista[i] \in ItemRow /\ itens_lista[i].exists
            /\ itens_lista[i].deleted => r \notin alone
            /\ written[i] \in [nome : Requests \cup {Nobody}, checked : BOOLEAN]
            /\ itens_lista[i].nome = written[i].nome
        BY <3>1, <3>2, ItemNamed
      <3>4. PICK mark \in BOOLEAN : mark = (call[r].arg # "false")
        BY Zenon
      <3>5. PICK row : row = [itens_lista[i] EXCEPT !.checked = mark]
        OBVIOUS
      <3>6. PICK asked : asked = [written[i] EXCEPT !.checked = mark]
        OBVIOUS
      <3>7. /\ row \in ItemRow /\ row.exists /\ row.checked = mark
            /\ row.nome = itens_lista[i].nome
        BY <3>3, <3>5 DEF ItemRow
      <3>8. /\ asked \in [nome : Requests \cup {Nobody}, checked : BOOLEAN]
            /\ asked.checked = mark /\ asked.nome = written[i].nome
        BY <3>3, <3>6
      <3>9. /\ itens_lista' = [itens_lista EXCEPT ![i].checked = mark]
            /\ written' = [written EXCEPT ![i].checked = mark]
        BY <2>1, <3>1, <3>4, Zenon
      <3>10. /\ itens_lista' = [itens_lista EXCEPT ![i] = row]
             /\ written' = [written EXCEPT ![i] = asked]
        BY <1>3, <3>3, <3>5, <3>6, <3>9
      <3>11. row.nome = asked.nome /\ row.checked = asked.checked
        BY <3>3, <3>7, <3>8
      <3>12. /\ Goto(r, "reread")
             /\ itens_lista[i].deleted =>
                   /\ call[r].op \in {"updateItemLista", "toggleItem"}
                   /\ call[r].id = i /\ r \notin alone
        BY <2>1, <3>1, <3>3 DEF On
      <3> QED
        BY <1>1, <1>2, <3>3, <3>7, <3>8, <3>10, <3>11, <3>12, ItemWritten
    <2> QED
      BY <1>4, <1>5, <1>8, <2>1 DEF ToggleItemCheckedHandler, Permit, On, OnItem, CheckItem
  <1>9. CASE DeleteItemListaHandler(r)
    <2>1. CASE /\ On(r, "deleteItemLista", "write")
               /\ itens_lista' = [itens_lista EXCEPT ![call[r].id].deleted = TRUE]
               /\ Reply(r, 204)
      <3>1. PICK i : i = call[r].id
        OBVIOUS
      <3>2. call[r].op \in OnItem /\ call[r].pc = "write"
        BY <2>1 DEF On, At, OnItem
      <3>3. /\ i \in RowIds /\ itens_lista[i] \in ItemRow /\ itens_lista[i].exists
            /\ written[i] \in [nome : Requests \cup {Nobody}, checked : BOOLEAN]
            /\ itens_lista[i].nome = written[i].nome
            /\ itens_lista[i].checked = written[i].checked
        BY <3>1, <3>2, ItemNamed
      <3>4. PICK row : row = [itens_lista[i] EXCEPT !.deleted = TRUE]
        OBVIOUS
      <3>5. /\ row \in ItemRow /\ row.exists /\ row.checked = itens_lista[i].checked
            /\ row.nome = itens_lista[i].nome
            /\ itens_lista[i].deleted => row = itens_lista[i]
        BY <3>3, <3>4 DEF ItemRow
      <3>6. itens_lista' = [itens_lista EXCEPT ![i] = row]
        BY <2>1, <3>1, <3>4
      <3>7. PICK asked : asked = written[i]
        OBVIOUS
      <3>8. written' = [written EXCEPT ![i] = asked]
        BY <1>3, <1>9, <3>3, <3>7 DEF DeleteItemListaHandler
      <3>9. /\ asked \in [nome : Requests \cup {Nobody}, checked : BOOLEAN]
            /\ row.nome = asked.nome /\ row.checked = asked.checked
        BY <3>3, <3>5, <3>7
      <3>10. \E status : Reply(r, status)
        BY <2>1
      <3> QED
        BY <1>1, <1>2, <3>3, <3>5, <3>6, <3>8, <3>9, <3>10, ItemWritten
    <2>2. UNCHANGED written
      BY <1>9 DEF DeleteItemListaHandler
    <2> QED
      BY <1>4, <1>5, <1>9, <2>1, <2>2 DEF DeleteItemListaHandler, Permit, On, OnItem, CheckItem
  <1> QED
    BY <1>6, <1>7, <1>8, <1>9

(* Categorias and queries write none of these rows.                        *)
LEMMA ListasQueries ==
  ASSUME BaseInv, ListasInv, area' = area, area = "listas", NEW r \in Requests,
         \/ CreateCategoriaHandler(r) \/ DeleteCategoriaHandler(r)
         \/ GetListaByIdHandler(r) \/ GetItemsByListaHandler(r) \/ GetCategoriasByListaHandler(r)
         \/ GetListasByBlocoHandler(r)
  PROVE  Moves(r) /\ ListasInv' /\ ListasStayDeleted
  <1>1. r \in InFlight /\ ListaRowsStay
    BY DEF CreateCategoriaHandler, DeleteCategoriaHandler, GetListaByIdHandler,
           GetItemsByListaHandler, GetCategoriasByListaHandler, GetListasByBlocoHandler, GetCache,
           SetCache, Permit, On, At, InFlight, ListaReads, lista_rows, ListaRowsStay
  <1>2. call[r].op \in {"createCategoria", "deleteCategoria", "getListaById", "getItemsByLista",
                        "getCategorias", "listListas"}
    BY DEF CreateCategoriaHandler, DeleteCategoriaHandler, GetListaByIdHandler,
           GetItemsByListaHandler, GetCategoriasByListaHandler, GetListasByBlocoHandler, Permit, On
  <1>3. call[r].op \notin {"createLista", "createItemLista"} \cup OnLista \cup OnItem
    BY <1>2 DEF OnLista, OnItem
  <1>4. \/ \E status : Reply(r, status)
        \/ \E label : label # "idle" /\ (Goto(r, label) \/ \E read : Keep(r, read, label))
    BY DEF CreateCategoriaHandler, DeleteCategoriaHandler, GetListaByIdHandler,
           GetItemsByListaHandler, GetCategoriasByListaHandler, GetListasByBlocoHandler, GetCache,
           SetCache, Permit
  <1> QED
    BY <1>1, <1>3, <1>4, ListasPasses

LEMMA ListasSteps ==
  ASSUME BaseInv, ListasInv, area' = area, NEW r \in Requests, InListas(r)
  PROVE  Moves(r) /\ ListasInv' /\ ListasStayDeleted
  <1>1. area = "listas" /\ (ListasArrival(r) \/ ListasStep(r))
    BY DEF InListas
  <1>2. CASE ListasArrival(r)
    BY <1>2, ListasArrives
  <1>3. CASE ListasStep(r)
    BY <1>1, <1>3, ListasCommands, ItensCommands, ListasQueries DEF ListasStep
  <1> QED
    BY <1>1, <1>2, <1>3

(* A statement that fails, and what the middleware refuses, end a request. *)
LEMMA EndMoves ==
  ASSUME BaseInv, NEW r \in Requests, Fail(r) \/ Rejected(r)
  PROVE  Moves(r) /\ call'[r].pc = "done"
  <1>1. CASE Fail(r)
    <2>1. r \in InFlight /\ \E status : FailWith(r, status)
      BY <1>1 DEF Fail, InFlight, At, NoStatement
    <2> QED
      BY <2>1, ReplyWorks DEF BaseInv, Works
  <1>2. CASE Rejected(r)
    BY <1>2, RefuseMoves DEF Rejected, Unauthenticated, BaseInv
  <1> QED
    BY <1>1, <1>2

-----------------------------------------------------------------------------
(* Eventos and exercícios                                                  *)

(* What a request that runs alone has found is there until it saves.       *)
AgendaCall(r, c) ==
    r \in alone => /\ c.op = "updateEvento" /\ c.pc = "save" => c.id \in eventos
                   /\ c.op = "addExercicio" /\ c.pc \in {"checkBloco", "findExercicios", "save"} =>
                         treinos[c.arg] = "live"

AgendaInv == area = "agenda" => \A r \in Requests : AgendaCall(r, call[r])

(* What AfterDeletion says of eventos and exercícios.                      *)
AgendaStaysDeleted ==
    /\ \A e \in eventos' \ eventos :
          \E r \in Requests : /\ call[r].id = e
                             /\ \/ call[r].op = "createEvento"
                                \/ call[r].op = "updateEvento" /\ r \in Overlapped
    /\ \A x \in exercicios' \ exercicios :
          x.id \in Overlapped \/ treinos[x.template] = "live"

LEMMA AgendaInit_ == Init => AgendaInv
  <1> SUFFICES ASSUME Init PROVE AgendaInv
    OBVIOUS
  <1>1. alone = {}
    BY DEF Init, HandlersInit
  <1> QED
    BY <1>1 DEF AgendaInv, AgendaCall

(* The rows stay, or r writes them while whoever else is in flight is      *)
(* overlapped.                                                             *)
LEMMA AgendaOthers ==
  ASSUME AgendaInv, area' = area, NEW r \in Requests, Moves(r),
         UNCHANGED <<eventos, treinos>> \/ Works(r),
         area = "agenda" => AgendaCall(r, call[r])'
  PROVE  AgendaInv'
  <1>1. ASSUME area = "agenda", NEW q \in Requests \ {r}
        PROVE  AgendaCall(q, call[q])'
    <2>1. call'[q] = call[q] /\ AgendaCall(q, call[q]) /\ (q \in alone' => q \in alone)
      BY <1>1 DEF AgendaInv, Moves, OnlyMoves
    <2>2. CASE UNCHANGED <<eventos, treinos>>
      BY <2>1, <2>2 DEF AgendaCall
    <2>3. CASE Works(r)
      <3>1. q \in alone' => q \notin InFlight
        BY <2>1, <2>3 DEF Works, Overlapped
      <3> QED
        BY <2>1, <3>1 DEF AgendaCall, InFlight, At
    <2> QED
      BY <2>2, <2>3
  <1> QED
    BY <1>1 DEF AgendaInv

LEMMA AgendaQuiet ==
  ASSUME UNCHANGED agenda_rows
  PROVE  AgendaStaysDeleted
  BY DEF AgendaStaysDeleted, agenda_rows

LEMMA AgendaElsewhere ==
  ASSUME NEW r, call'[r].pc \in {"idle", "findNucleo", "check", "done"}
  PROVE  AgendaCall(r, call[r])'
  BY DEF AgendaCall

LEMMA AgendaArrives ==
  ASSUME BaseInv, AgendaInv, area' = area, NEW r \in Requests, AgendaArrival(r)
  PROVE  Moves(r) /\ AgendaInv' /\ AgendaStaysDeleted
  <1>1. /\ UNCHANGED agenda_rows
        /\ \E op, id, arg, label, status :
              \/ label \in {"findNucleo", "check"} /\ Arrive(r, label, op, id, arg)
              \/ Refuse(r, op, status)
    BY DEF AgendaArrival, getEventos, getEvento, createEvento, updateEvento, deleteEvento, AskEvento,
           listTreinos, createTemplate, updateTemplate, deleteTemplate, addExercicio,
           removeExercicio, AskTreino, NoField, AgendaReads
  <1>2. Moves(r) /\ call'[r].pc \in {"findNucleo", "check", "done"}
    BY <1>1, ArriveMoves, RefuseMoves DEF BaseInv, GoesAs
  <1> QED
    BY <1>1, <1>2, AgendaElsewhere, AgendaOthers, AgendaQuiet DEF agenda_rows

(* A step that writes no row, to the next label or to the end.             *)
LEMMA AgendaPasses ==
  ASSUME BaseInv, AgendaInv, area' = area, area = "agenda", NEW r \in InFlight,
         UNCHANGED agenda_rows,
         \/ \E status : Reply(r, status)
         \/ \E label : /\ label # "idle"
                       /\ Goto(r, label) \/ \E read : Keep(r, read, label)
                       /\ call[r].op = "updateEvento" /\ label = "save" => call[r].id \in eventos
                       /\ call[r].op = "addExercicio" =>
                             \/ treinos[call[r].arg] = "live"
                             \/ call[r].pc \in {"checkBloco", "findExercicios"}
  PROVE  Moves(r) /\ AgendaInv' /\ AgendaStaysDeleted
  <1>1. r \in Requests /\ HandlersOK /\ Solo /\ AgendaCall(r, call[r])
    BY DEF BaseInv, InFlight, AgendaInv
  <1>2. CASE \E status : Reply(r, status)
    <2>1. Moves(r) /\ call'[r].pc = "done"
      BY <1>1, <1>2, ReplyWorks DEF Works
    <2> QED
      BY <1>1, <2>1, AgendaElsewhere, AgendaOthers, AgendaQuiet DEF agenda_rows
  <1>3. ASSUME NEW label, label # "idle", Goto(r, label) \/ \E read : Keep(r, read, label),
               call[r].op = "updateEvento" /\ label = "save" => call[r].id \in eventos,
               call[r].op = "addExercicio" => \/ treinos[call[r].arg] = "live"
                                              \/ call[r].pc \in {"checkBloco", "findExercicios"}
        PROVE  Moves(r) /\ AgendaInv' /\ AgendaStaysDeleted
    <2>1. Moves(r) /\ alone' = alone /\ GoesTo(r, label)
      BY <1>1, <1>3, GotoWorks, KeepWorks DEF Works
    <2>2. AgendaCall(r, call[r])'
      BY <1>1, <1>3, <2>1 DEF AgendaCall, GoesTo, GoesAs, agenda_rows
    <2> QED
      BY <1>1, <2>1, <2>2, AgendaOthers, AgendaQuiet DEF agenda_rows
  <1> QED
    BY <1>2, <1>3

(* The last step of a command: it writes and answers.                      *)
LEMMA AgendaWrites ==
  ASSUME BaseInv, AgendaInv, area' = area, area = "agenda", NEW r \in InFlight,
         \E status : Reply(r, status),
         \/ eventos' \subseteq eventos
         \/ /\ On(r, "createEvento", "save") \/ On(r, "updateEvento", "save")
            /\ eventos' = eventos \cup {call[r].id},
         \/ exercicios' \subseteq exercicios
         \/ /\ On(r, "addExercicio", "save")
            /\ \E ordem : exercicios' = exercicios \cup
                             {[id |-> r, template |-> call[r].arg, ordem |-> ordem]}
  PROVE  Moves(r) /\ AgendaInv' /\ AgendaStaysDeleted
  <1>1. r \in Requests /\ HandlersOK /\ Solo /\ AgendaCall(r, call[r])
    BY DEF BaseInv, InFlight, AgendaInv
  <1>2. Moves(r) /\ Works(r) /\ call'[r].pc = "done"
    BY <1>1, ReplyWorks DEF Works
  <1>3. AgendaInv'
    BY <1>1, <1>2, AgendaElsewhere, AgendaOthers
  <1>4. r \in alone \/ r \in Overlapped
    BY <1>1 DEF Overlapped, InFlight, At
  <1>5. \A e \in eventos' \ eventos :
          \E q \in Requests : /\ call[q].id = e
                             /\ \/ call[q].op = "createEvento"
                                \/ call[q].op = "updateEvento" /\ q \in Overlapped
    BY <1>1, <1>4 DEF AgendaCall, On, At
  <1>6. \A x \in exercicios' \ exercicios : x.id \in Overlapped \/ treinos[x.template] = "live"
    BY <1>1, <1>4 DEF AgendaCall, On, At
  <1> QED
    BY <1>2, <1>3, <1>5, <1>6 DEF AgendaStaysDeleted

LEMMA AgendaSteps ==
  ASSUME BaseInv, AgendaInv, area' = area, NEW r \in Requests, InAgenda(r)
  PROVE  Moves(r) /\ AgendaInv' /\ AgendaStaysDeleted
  <1>1. area = "agenda" /\ (AgendaArrival(r) \/ AgendaStep(r))
    BY DEF InAgenda
  <1>2. ASSUME AgendaStep(r)
        PROVE  r \in InFlight
    BY <1>2 DEF AgendaStep, CreateEventoHandler, UpdateEventoHandler, DeleteEventoHandler,
           GetEventoByIdHandler, GetEventosByNucleoHandler, CreateTreinoTemplateHandler,
           UpdateTreinoTemplateHandler, DeleteTreinoTemplateHandler, AddExercicioHandler,
           RemoveExercicioHandler, GetTreinosByBlocoHandler, findNucleo, findEvento, findTemplate,
           checkBloco, Permit, On, At, InFlight
  <1>3. CASE CreateEventoHandler(r) \/ UpdateEventoHandler(r)
    <2>1. r \in InFlight /\ UNCHANGED <<treinos, exercicios>>
      BY <1>2, <1>3 DEF AgendaStep, CreateEventoHandler, UpdateEventoHandler
    <2>2. CASE \/ On(r, "createEvento", "save") /\ save(r, 201)
               \/ On(r, "updateEvento", "save") /\ save(r, 200)
      BY <1>1, <2>1, <2>2, AgendaWrites DEF save
    <2>3. ASSUME UNCHANGED eventos,
                 \/ \E status : Reply(r, status)
                 \/ \E label \in {"findEvento", "save"} :
                       /\ Goto(r, label) /\ call[r].op \in {"createEvento", "updateEvento"}
                       /\ call[r].op = "updateEvento" /\ label = "save" => call[r].id \in eventos
          PROVE  Moves(r) /\ AgendaInv' /\ AgendaStaysDeleted
      BY <1>1, <2>1, <2>3, AgendaPasses DEF agenda_rows
    <2> QED
      BY <1>3, <2>2, <2>3 DEF CreateEventoHandler, UpdateEventoHandler, findNucleo, findEvento, On
  <1>4. CASE DeleteEventoHandler(r) \/ GetEventoByIdHandler(r) \/ GetEventosByNucleoHandler(r)
    <2>1. /\ r \in InFlight /\ UNCHANGED <<treinos, exercicios>>
          /\ call[r].op \in {"deleteEvento", "getEvento", "getEventos"}
      BY <1>2, <1>4 DEF AgendaStep, DeleteEventoHandler, GetEventoByIdHandler,
             GetEventosByNucleoHandler, findNucleo, findEvento, On, AgendaReads, agenda_rows
    <2>2. CASE On(r, "deleteEvento", "delete") /\ eventos' = eventos \ {call[r].id} /\ Reply(r, 204)
      BY <1>1, <2>1, <2>2, AgendaWrites
    <2>3. ASSUME UNCHANGED eventos,
                 \/ \E status : Reply(r, status)
                 \/ \E label \in {"findEvento", "delete", "select", "return"} : Goto(r, label)
          PROVE  Moves(r) /\ AgendaInv' /\ AgendaStaysDeleted
      BY <1>1, <2>1, <2>3, AgendaPasses DEF agenda_rows
    <2> QED
      BY <1>4, <2>2, <2>3 DEF DeleteEventoHandler, GetEventoByIdHandler, GetEventosByNucleoHandler,
             findNucleo, findEvento, AgendaReads, agenda_rows
  <1>5. CASE AddExercicioHandler(r)
    <2>1. r \in InFlight /\ UNCHANGED <<eventos, treinos>> /\ call[r].op = "addExercicio"
      BY <1>2, <1>5 DEF AgendaStep, AddExercicioHandler, findTemplate, Permit, checkBloco, On
    <2>2. CASE /\ On(r, "addExercicio", "save") /\ Reply(r, 201)
               /\ exercicios' = exercicios \cup
                    {[id |-> r, template |-> call[r].arg, ordem |-> call[r].read]}
      BY <1>1, <2>1, <2>2, AgendaWrites
    <2>3. ASSUME UNCHANGED exercicios,
                 \/ \E status : Reply(r, status)
                 \/ \E label \in {"checkBloco", "findExercicios", "save"} :
                       /\ Goto(r, label) \/ \E read : Keep(r, read, label)
                       /\ \/ treinos[call[r].arg] = "live"
                          \/ call[r].pc \in {"checkBloco", "findExercicios"}
          PROVE  Moves(r) /\ AgendaInv' /\ AgendaStaysDeleted
      BY <1>1, <2>1, <2>3, AgendaPasses DEF agenda_rows
    <2> QED
      BY <1>5, <2>2, <2>3 DEF AddExercicioHandler, findTemplate, Permit, checkBloco, On, At
  <1>6. CASE \/ CreateTreinoTemplateHandler(r) \/ UpdateTreinoTemplateHandler(r)
             \/ DeleteTreinoTemplateHandler(r) \/ RemoveExercicioHandler(r)
             \/ GetTreinosByBlocoHandler(r)
    <2>1. /\ r \in InFlight /\ UNCHANGED eventos
          /\ call[r].op \notin {"updateEvento", "addExercicio"}
      BY <1>2, <1>6 DEF AgendaStep, CreateTreinoTemplateHandler, UpdateTreinoTemplateHandler,
             DeleteTreinoTemplateHandler, RemoveExercicioHandler, GetTreinosByBlocoHandler,
             findTemplate, Permit, checkBloco, On, AgendaReads, agenda_rows
    <2>2. CASE exercicios' \subseteq exercicios /\ \E status : Reply(r, status)
      BY <1>1, <2>1, <2>2, AgendaWrites
    <2>3. ASSUME UNCHANGED <<treinos, exercicios>>,
                 \E label \in {"save", "update", "findExercicios", "countSessoes", "delete",
                               "findTemplates", "each", "checkBloco"} : Goto(r, label)
          PROVE  Moves(r) /\ AgendaInv' /\ AgendaStaysDeleted
      BY <1>1, <2>1, <2>3, AgendaPasses DEF agenda_rows
    <2> QED
      BY <1>6, <2>2, <2>3 DEF CreateTreinoTemplateHandler, UpdateTreinoTemplateHandler,
             DeleteTreinoTemplateHandler, RemoveExercicioHandler, GetTreinosByBlocoHandler,
             findTemplate, Permit, checkBloco, AgendaReads, agenda_rows
  <1> QED
    BY <1>1, <1>3, <1>4, <1>5, <1>6, AgendaArrives DEF AgendaStep

-----------------------------------------------------------------------------
(* The cached list of hábitos                                              *)

IsLine(t) == \E S : t \in [id : S, nome : S, streak : S, hoje : S]

(* Lines of the list of which neither streak nor day has been read yet, or *)
(* only the streak.                                                        *)
Unread(t) == /\ IsLine(t) /\ t.id \in LiveHabitos /\ t.nome = Listed(t.id).nome
StreakRead(t) == Unread(t) /\ t.streak = Listed(t.id).streak

(* What reader r has, and what it still reads, make the list.              *)
Parts(r, pc, todo, rows, now) ==
    /\ \A t \in todo : Unread(t)
    /\ pc = "hoje" => StreakRead(now)
    /\ \A line \in rows : IsCurrent(line, r)
    /\ failures = 0 => {t.id : t \in rows} \cup {t.id : t \in todo} \cup
                          {t.id : t \in IF pc = "hoje" THEN {now} ELSE {}} = LiveHabitos

Reading(r, c) ==
    c.op = "listHabitos" /\ c.pc \in {"each", "hoje"} =>
        \E todo, rows, now : /\ c.read = [todo |-> todo, rows |-> rows, now |-> now]
                             /\ Parts(r, c.pc, todo, rows, now)

Counted == failures \in Nat /\ faults \in Nat
CountsOn == failures' \in {failures, failures + 1} /\ faults' \in {faults, faults + 1}

HabitosInv ==
    /\ area # "habitos" => \A e \in cache : e.key # habitosByBloco
    /\ area = "habitos" => /\ Counted /\ ListIsCurrent
                           /\ \A r \in alone : Reading(r, call[r])

LEMMA HabitosInit_ == Init => HabitosInv
  <1> SUFFICES ASSUME Init PROVE HabitosInv
    OBVIOUS
  <1>1. alone = {} /\ cache = {} /\ failures = 0 /\ faults = 0
    BY DEF Init, HandlersInit, CacheInit
  <1> QED
    BY <1>1 DEF HabitosInv, Counted, ListIsCurrent

LEMMA LineStreak ==
  ASSUME NEW t, IsLine(t), NEW a, NEW v, v = [t EXCEPT !.streak = a]
  PROVE  IsLine(v) /\ v.streak = a /\ v.id = t.id /\ v.nome = t.nome
  <1>1. PICK S : t \in [id : S, nome : S, streak : S, hoje : S]
    BY DEF IsLine
  <1>2. PICK T : T = S \cup {a}
    OBVIOUS
  <1>3. v \in [id : T, nome : T, streak : T, hoje : T]
    BY <1>1, <1>2
  <1> QED
    BY <1>1, <1>3 DEF IsLine

LEMMA LineHoje ==
  ASSUME NEW t, IsLine(t), NEW a, NEW v, v = [t EXCEPT !.hoje = a]
  PROVE  IsLine(v) /\ v.hoje = a /\ v.id = t.id /\ v.nome = t.nome /\ v.streak = t.streak
  <1>1. PICK S : t \in [id : S, nome : S, streak : S, hoje : S]
    BY DEF IsLine
  <1>2. PICK T : T = S \cup {a}
    OBVIOUS
  <1>3. v \in [id : T, nome : T, streak : T, hoje : T]
    BY <1>1, <1>2
  <1> QED
    BY <1>1, <1>3 DEF IsLine

LEMMA SameLine ==
  ASSUME NEW t, NEW u, IsLine(t), IsLine(u), t.id = u.id, t.nome = u.nome, t.streak = u.streak,
         t.hoje = u.hoje
  PROVE  t = u
  BY DEF IsLine

LEMMA ListedIsLine ==
  ASSUME NEW h
  PROVE  /\ IsLine(Listed(h)) /\ Listed(h).id = h
         /\ \E hoje : hoje = isCompletoHoje(h) /\ Listed(h).hoje = hoje
  <1>1. PICK nome : nome = habitos[h].nome
    OBVIOUS
  <1>2. PICK atual : atual = getStreak(RowsOf(h)).atual
    BY Zenon
  <1>3. PICK hoje : hoje = isCompletoHoje(h)
    BY Zenon
  <1>4. Listed(h) = [id |-> h, nome |-> nome, streak |-> atual, hoje |-> hoje]
    BY <1>1, <1>2, <1>3, Zenon DEF Listed
  <1> HIDE <1>1, <1>2
  <1>5. PICK S : S = {h, nome, atual, hoje}
    OBVIOUS
  <1>6. /\ Listed(h) \in [id : S, nome : S, streak : S, hoje : S]
        /\ Listed(h).id = h /\ Listed(h).hoje = hoje
    BY <1>4, <1>5
  <1>7. IsLine(Listed(h))
    BY <1>6 DEF IsLine
  <1> QED
    BY <1>3, <1>6, <1>7, Zenon

(* Where the rows stay, midnight changes the day of a line alone.          *)
LEMMA ListedSame ==
  ASSUME UNCHANGED <<habitos, registros>>
  PROVE  /\ LiveHabitos' = LiveHabitos
         /\ \A h : Listed(h).id = h /\ Listed(h)'.id = h /\ IsLine(Listed(h)')
         /\ \A h : Listed(h)'.nome = Listed(h).nome /\ Listed(h)'.streak = Listed(h).streak
         /\ today' = today => \A h : Listed(h)' = Listed(h)
  <1>1. LiveHabitos' = LiveHabitos
    BY DEF LiveHabitos
  <1>2. ASSUME NEW h
        PROVE  /\ Listed(h).id = h /\ Listed(h)'.id = h /\ IsLine(Listed(h)')
               /\ Listed(h)'.nome = Listed(h).nome /\ Listed(h)'.streak = Listed(h).streak
    <2>1. PICK nome : nome = habitos[h].nome
      OBVIOUS
    <2>2. PICK atual : atual = getStreak(RowsOf(h)).atual
      BY Zenon
    <2>3. PICK hoje : hoje = isCompletoHoje(h)
      BY Zenon
    <2>4. PICK amanha : amanha = isCompletoHoje(h)'
      BY Zenon
    <2>5. RowsOf(h)' = RowsOf(h)
      BY DEF RowsOf
    <2>6. Listed(h) = [id |-> h, nome |-> nome, streak |-> atual, hoje |-> hoje]
      BY <2>1, <2>2, <2>3, Zenon DEF Listed
    <2>7. getStreak(RowsOf(h)').atual = atual
      BY <2>2, <2>5, Zenon
    <2>8. Listed(h)' = [id |-> h, nome |-> nome, streak |-> atual, hoje |-> amanha]
      BY <2>1, <2>4, <2>7, Zenon DEF Listed
    <2> HIDE <2>1, <2>2, <2>3, <2>4
    <2>9. PICK S : S = {h, nome, atual, amanha}
      OBVIOUS
    <2>10. Listed(h)' \in [id : S, nome : S, streak : S, hoje : S]
      BY <2>8, <2>9
    <2> QED
      BY <2>6, <2>8, <2>10 DEF IsLine
  <1>3. ASSUME today' = today, NEW h
        PROVE  Listed(h)' = Listed(h)
    BY <1>3 DEF Listed, RowsOf, isCompletoHoje, DaysOf
  <1> QED
    BY <1>1, <1>2, <1>3

LEMMA LinesSame ==
  ASSUME UNCHANGED <<habitos, registros>>
  PROVE  /\ \A t : Unread(t) => Unread(t)'
         /\ \A t : StreakRead(t) => StreakRead(t)'
  BY ListedSame DEF Unread, StreakRead

(* A line that differs from another in the day, or not even there.         *)
LEMMA LineIs ==
  ASSUME NEW line, NEW x, IsLine(x), x.id = line.id, NEW y, y = [x EXCEPT !.hoje = line.hoje]
  PROVE  /\ IsLine(y) /\ y.id = x.id /\ y.nome = x.nome /\ y.streak = x.streak
         /\ IsLine(line) /\ line.nome = x.nome /\ line.streak = x.streak =>
               line = y /\ (line.hoje = x.hoje => line = x)
  <1>1. PICK hoje : hoje = line.hoje
    OBVIOUS
  <1>2. IsLine(y) /\ y.hoje = hoje /\ y.id = x.id /\ y.nome = x.nome /\ y.streak = x.streak
    BY <1>1, LineHoje
  <1> QED
    BY <1>1, <1>2, SameLine

(* A line is current if the streak is read, and the day is of today or of  *)
(* the day before midnight.                                                *)
LEMMA CurrentIs ==
  ASSUME NEW line, NEW reader
  PROVE  IsCurrent(line, reader) <=>
            StreakRead(line) /\ (line.hoje = Listed(line.id).hoje \/ reader \in before)
  <1>1. PICK x : x = Listed(line.id)
    OBVIOUS
  <1>2. PICK y : y = [x EXCEPT !.hoje = line.hoje]
    OBVIOUS
  <1>3. IsLine(x) /\ x.id = line.id
    BY <1>1, ListedIsLine
  <1>4. IsCurrent(line, reader) <=>
           line.id \in LiveHabitos /\ (line = x \/ (reader \in before /\ line = y))
    BY <1>1, <1>2, Zenon DEF IsCurrent
  <1>5. StreakRead(line) <=> /\ IsLine(line) /\ line.id \in LiveHabitos
                             /\ line.nome = x.nome /\ line.streak = x.streak
    BY <1>1, Zenon DEF StreakRead, Unread
  <1>6. /\ IsLine(y) /\ y.id = x.id /\ y.nome = x.nome /\ y.streak = x.streak
        /\ IsLine(line) /\ line.nome = x.nome /\ line.streak = x.streak =>
              line = y /\ (line.hoje = x.hoje => line = x)
    BY <1>2, <1>3, LineIs
  <1>7. Listed(line.id).hoje = x.hoje
    BY <1>1
  <1> HIDE <1>1, <1>2
  <1> QED
    BY <1>3, <1>4, <1>5, <1>6, <1>7

(* Lines stay current where the day stays, or their reader had come.       *)
LEMMA CurrentSame ==
  ASSUME UNCHANGED <<habitos, registros>>, NEW line, NEW reader, IsCurrent(line, reader),
         UNCHANGED clock \/ reader \in before'
  PROVE  IsCurrent(line, reader)'
  <1>1. StreakRead(line) /\ (line.hoje = Listed(line.id).hoje \/ reader \in before)
    BY CurrentIs
  <1>2. PICK x : x = Listed(line.id)'
    OBVIOUS
  <1>3. PICK y : y = [x EXCEPT !.hoje = line.hoje]
    OBVIOUS
  <1>4. IsLine(x) /\ x.id = line.id
    BY <1>2, ListedSame
  <1>5. IsLine(line) /\ line.nome = x.nome /\ line.streak = x.streak
    BY <1>1, <1>2, ListedSame DEF StreakRead, Unread
  <1>6. line = y /\ (line.hoje = x.hoje => line = x)
    BY <1>3, <1>4, <1>5, LineIs
  <1>7. line.hoje = x.hoje \/ reader \in before'
    <2>1. CASE UNCHANGED clock
      <3>1. Listed(line.id)' = Listed(line.id)
        BY <2>1, ListedSame DEF clock
      <3> QED
        BY <1>1, <1>2, <2>1, <3>1 DEF clock
    <2> QED
      BY <2>1
  <1>8. line.id \in LiveHabitos'
    BY <1>1, ListedSame DEF StreakRead, Unread
  <1>9. IsCurrent(line, reader)' <=>
           line.id \in LiveHabitos' /\ (line = x \/ (reader \in before' /\ line = y))
    BY <1>2, <1>3, Zenon DEF IsCurrent
  <1> QED
    BY <1>6, <1>7, <1>8, <1>9

LEMMA PartsSame ==
  ASSUME UNCHANGED <<habitos, registros>>, NEW r, UNCHANGED clock \/ r \in before',
         failures' = 0 => failures = 0,
         NEW pc, NEW todo, NEW rows, NEW now, Parts(r, pc, todo, rows, now)
  PROVE  Parts(r, pc, todo, rows, now)'
  <1>1. \A t \in todo : Unread(t)'
    BY LinesSame DEF Parts
  <1>2. pc = "hoje" => StreakRead(now)'
    BY LinesSame DEF Parts
  <1>3. \A line \in rows : IsCurrent(line, r)'
    BY CurrentSame DEF Parts
  <1>4. failures' = 0 => {t.id : t \in rows} \cup {t.id : t \in todo} \cup
                            {t.id : t \in IF pc = "hoje" THEN {now} ELSE {}} = LiveHabitos'
    BY ListedSame DEF Parts
  <1> QED
    BY <1>1, <1>2, <1>3, <1>4 DEF Parts

(* What is read of a hábito one after the other is its line of the list.   *)
LEMMA ReadLines ==
  ASSUME NEW h
  PROVE  /\ [Listed(h) EXCEPT !.streak = 0, !.hoje = FALSE].id = h
         /\ h \in LiveHabitos => Unread([Listed(h) EXCEPT !.streak = 0, !.hoje = FALSE])
  <1>1. PICK x : x = Listed(h)
    OBVIOUS
  <1>2. PICK no : no = FALSE
    BY Zenon
  <1>3. PICK y : y = [x EXCEPT !.streak = 0]
    OBVIOUS
  <1>4. PICK v : v = [y EXCEPT !.hoje = no]
    OBVIOUS
  <1>5. IsLine(v) /\ v.id = x.id /\ v.nome = x.nome
    <2>1. IsLine(Listed(h))
      BY ListedIsLine, Zenon
    <2>2. IsLine(x)
      BY <1>1, <2>1
    <2> HIDE <1>1
    <2>3. IsLine(y) /\ y.id = x.id /\ y.nome = x.nome
      BY <1>3, <2>2, LineStreak
    <2> HIDE <1>3
    <2> QED
      BY <1>4, <2>3, LineHoje
  <1>6. x.id = h
    BY <1>1, ListedIsLine
  <1>7. v = [Listed(h) EXCEPT !.streak = 0, !.hoje = FALSE]
    BY <1>1, <1>2, <1>3, <1>4, Zenon
  <1>8. v.id = h /\ (h \in LiveHabitos => Unread(v))
    BY <1>1, <1>5, <1>6 DEF Unread
  <1> QED
    BY <1>7, <1>8, Zenon

LEMMA StreakLine ==
  ASSUME NEW t, Unread(t), NEW v, v = [t EXCEPT !.streak = Listed(t.id).streak]
  PROVE  StreakRead(v) /\ v.id = t.id
  <1>1. IsLine(v) /\ v.streak = Listed(t.id).streak /\ v.id = t.id /\ v.nome = t.nome
    BY LineStreak DEF Unread
  <1> QED
    BY <1>1 DEF Unread, StreakRead

LEMMA WholeLine ==
  ASSUME NEW t, StreakRead(t), NEW v, v = [t EXCEPT !.hoje = isCompletoHoje(t.id)]
  PROVE  v = Listed(t.id)
  <1>1. PICK x : x = Listed(t.id)
    OBVIOUS
  <1>2. PICK hoje : hoje = isCompletoHoje(t.id) /\ x.hoje = hoje
    BY <1>1, ListedIsLine, Zenon
  <1>3. v = [t EXCEPT !.hoje = hoje]
    BY <1>2, Zenon
  <1>4. IsLine(x) /\ x.id = t.id /\ IsLine(t) /\ t.nome = x.nome /\ t.streak = x.streak
    BY <1>1, ListedIsLine DEF StreakRead, Unread
  <1> HIDE <1>1
  <1>5. PICK w : w = [t EXCEPT !.hoje = hoje]
    OBVIOUS
  <1>6. IsLine(w) /\ w.hoje = hoje /\ w.id = t.id /\ w.nome = t.nome /\ w.streak = t.streak
    BY <1>4, <1>5, LineHoje
  <1>7. w = x
    BY <1>2, <1>4, <1>6, SameLine
  <1> QED
    BY <1>1, <1>3, <1>5, <1>7, Zenon

(* A step of the area: what others have read stays right, for the rows     *)
(* stay or the others are overlapped.                                      *)
LEMMA HabitosOthers ==
  ASSUME BaseInv, HabitosInv, area' = area, area = "habitos", UNCHANGED clock,
         NEW r \in Requests, Moves(r), CountsOn,
         UNCHANGED <<habitos, registros>> \/ Works(r),
         r \in alone' => Reading(r, call[r])',
         \A e \in cache' : e.key = habitosByBloco => e \in cache \/ e.reader = r,
         ListIsCurrent'
  PROVE  HabitosInv'
  <1>1. Counted' /\ (failures' = 0 => failures = 0)
    BY DEF HabitosInv, Counted, CountsOn
  <1>2. ASSUME NEW q \in alone' \ {r}
        PROVE  Reading(q, call[q])'
    <2>1. q \in Requests /\ call'[q] = call[q] /\ Reading(q, call[q]) /\ q \in alone
      BY <1>2 DEF HabitosInv, Moves, OnlyMoves, BaseInv, HandlersOK
    <2>2. CASE UNCHANGED <<habitos, registros>>
      <3>1. CASE ~ (call[q].op = "listHabitos" /\ call[q].pc \in {"each", "hoje"})
        BY <2>1, <3>1 DEF Reading
      <3>2. CASE call[q].op = "listHabitos" /\ call[q].pc \in {"each", "hoje"}
        <4>1. PICK todo, rows, now :
                 /\ call[q].read = [todo |-> todo, rows |-> rows, now |-> now]
                 /\ Parts(q, call[q].pc, todo, rows, now)
          BY <2>1, <3>2 DEF Reading
        <4>2. PICK pc : pc = call[q].pc
          OBVIOUS
        <4>3. Parts(q, pc, todo, rows, now)'
          BY <1>1, <2>2, <4>1, <4>2, PartsSame
        <4> QED
          BY <2>1, <4>1, <4>2, <4>3 DEF Reading
      <3> QED
        BY <3>1, <3>2
    <2>3. CASE Works(r)
      <3>1. q \notin InFlight
        BY <1>2, <2>1, <2>3 DEF Works, Overlapped
      <3> QED
        BY <2>1, <3>1 DEF Reading, InFlight, At
    <2> QED
      BY <2>2, <2>3 DEF Moves
  <1> QED
    BY <1>1, <1>2 DEF HabitosInv

(* What is listed of an entry whose rows are current, or one left out.     *)
Current(e) ==
    /\ \A line \in e.rows : IsCurrent(line, e.reader)
    /\ {line.id : line \in e.rows} = LiveHabitos \/ failures > 0

LEMMA EntrySame ==
  ASSUME Counted, CountsOn, UNCHANGED <<habitos, registros>>, NEW e, Current(e),
         UNCHANGED clock \/ e.reader \in before'
  PROVE  Current(e)'
  <1>1. \A line \in e.rows : IsCurrent(line, e.reader)'
    BY CurrentSame DEF Current
  <1>2. {line.id : line \in e.rows} = LiveHabitos' \/ failures' > 0
    BY ListedSame DEF Current, Counted, CountsOn
  <1> QED
    BY <1>1, <1>2 DEF Current

LEMMA StaysCurrent ==
  ASSUME Counted, CountsOn, ListIsCurrent, UNCHANGED <<habitos, registros, clock>>,
         cache' \subseteq cache, NEW r \in Requests, Moves(r), call[r].pc # "uncache"
  PROVE  ListIsCurrent'
  <1>1. SUFFICES ASSUME NEW e \in cache', e.key = habitosByBloco
                 PROVE  \/ Current(e)'
                        \/ \E q \in InFlight' : call'[q].pc = "uncache"
                        \/ faults' > 0
                        \/ e.reader \in Overlapped'
    BY DEF ListIsCurrent, Current, At
  <1>2. \/ Current(e)
        \/ \E q \in InFlight : call[q].pc = "uncache"
        \/ faults > 0
        \/ e.reader \in Overlapped
    BY <1>1 DEF ListIsCurrent, Current, At
  <1>3. Current(e) => Current(e)'
    BY EntrySame DEF clock
  <1>4. ASSUME NEW q \in InFlight, call[q].pc = "uncache"
        PROVE  q \in InFlight' /\ call'[q].pc = "uncache"
    BY <1>4 DEF InFlight, At, Moves, OnlyMoves
  <1>5. faults > 0 => faults' > 0
    BY DEF Counted, CountsOn
  <1> QED
    BY <1>2, <1>3, <1>4, <1>5 DEF Moves

LEMMA ToUncache ==
  ASSUME NEW r \in Requests, call'[r].pc = "uncache"
  PROVE  ListIsCurrent'
  BY DEF ListIsCurrent, InFlight, At

LEMMA NoneIsCurrent ==
  ASSUME Counted, (\A e \in cache' : e.key # habitosByBloco) \/ faults' = faults + 1
  PROVE  ListIsCurrent'
  BY DEF ListIsCurrent, Counted

(* A step to the end, or to a label at which no list is being read.        *)
Elsewhere(r) ==
    \/ \E status : Reply(r, status) \/ FailWith(r, status)
    \/ \E label : /\ label # "idle"
                  /\ label \notin {"each", "hoje"} \/ call[r].op # "listHabitos"
                  /\ Goto(r, label) \/ \E read : Keep(r, read, label)

LEMMA ElsewhereWorks ==
  ASSUME BaseInv, NEW r \in InFlight, Elsewhere(r)
  PROVE  /\ r \in Requests /\ Works(r) /\ failures' \in {failures, failures + 1}
         /\ Reading(r, call[r])'
  <1>1. r \in Requests /\ HandlersOK /\ Solo
    BY DEF BaseInv, InFlight
  <1>2. CASE \E status : Reply(r, status) \/ FailWith(r, status)
    <2>1. Works(r) /\ call'[r].pc = "done"
      BY <1>1, <1>2, ReplyWorks
    <2>2. failures' \in {failures, failures + 1}
      BY <1>2 DEF Reply, FailWith
    <2> QED
      BY <1>1, <2>1, <2>2 DEF Reading
  <1>3. ASSUME NEW label, label # "idle", label \notin {"each", "hoje"} \/ call[r].op # "listHabitos",
               Goto(r, label) \/ \E read : Keep(r, read, label)
        PROVE  Works(r) /\ failures' = failures /\ Reading(r, call[r])'
    <2>1. Works(r) /\ call'[r].pc = label /\ call'[r].op = call[r].op
      BY <1>1, <1>3, GotoWorks, KeepWorks DEF GoesTo, GoesAs
    <2>2. failures' = failures
      BY <1>3 DEF Goto, Keep
    <2> QED
      BY <1>3, <2>1, <2>2 DEF Reading
  <1> QED
    BY <1>1, <1>2, <1>3 DEF Elsewhere

(* A step that writes no row and leaves the cache.                         *)
LEMMA HabitosPasses ==
  ASSUME BaseInv, HabitosInv, area' = area, area = "habitos", NEW r \in InFlight, Elsewhere(r),
         UNCHANGED <<habitos, registros, clock>>, call[r].pc # "uncache",
         \/ UNCHANGED caches
         \/ RedisError
  PROVE  Moves(r) /\ HabitosInv'
  <1>1. /\ r \in Requests /\ Works(r) /\ failures' \in {failures, failures + 1}
        /\ Reading(r, call[r])'
    BY ElsewhereWorks
  <1>2. cache' = cache /\ CountsOn /\ Counted /\ Moves(r) /\ ListIsCurrent
    BY <1>1 DEF caches, RedisError, CountsOn, Works, HabitosInv
  <1>3. ListIsCurrent'
    BY <1>1, <1>2, StaysCurrent
  <1> QED
    BY <1>1, <1>2, <1>3, HabitosOthers

(* A row is written, and the cached list is to be deleted.                 *)
LEMMA HabitosWrites ==
  ASSUME BaseInv, HabitosInv, area' = area, area = "habitos", NEW r \in InFlight,
         Goto(r, "uncache"), UNCHANGED <<caches, clock>>
  PROVE  Moves(r) /\ HabitosInv'
  <1>1. Elsewhere(r)
    BY DEF Elsewhere
  <1>2. /\ r \in Requests /\ Works(r) /\ failures' \in {failures, failures + 1}
        /\ Reading(r, call[r])'
    BY <1>1, ElsewhereWorks
  <1>3. call'[r].pc = "uncache"
    BY <1>2, GotoWorks DEF GoesTo, GoesAs, BaseInv
  <1>4. ListIsCurrent'
    BY <1>2, <1>3, ToUncache
  <1>5. CountsOn /\ Moves(r) /\ cache' = cache
    BY <1>2 DEF caches, CountsOn, Works
  <1> QED
    BY <1>2, <1>4, <1>5, HabitosOthers

LEMMA HabitosUncaches ==
  ASSUME BaseInv, HabitosInv, area' = area, area = "habitos", NEW r \in InFlight, Elsewhere(r),
         DeleteCache({habitosByBloco}), UNCHANGED clock
  PROVE  Moves(r) /\ HabitosInv'
  <1>1. /\ r \in Requests /\ Works(r) /\ failures' \in {failures, failures + 1}
        /\ Reading(r, call[r])'
    BY ElsewhereWorks
  <1>2. /\ CountsOn /\ Moves(r) /\ Counted /\ cache' \subseteq cache
        /\ (\A e \in cache' : e.key # habitosByBloco) \/ faults' = faults + 1
    BY <1>1 DEF DeleteCache, RedisError, CountsOn, Works, HabitosInv
  <1>3. ListIsCurrent'
    BY <1>2, NoneIsCurrent
  <1> QED
    BY <1>1, <1>2, <1>3, HabitosOthers

LEMMA HabitosArrives ==
  ASSUME BaseInv, HabitosInv, area' = area, area = "habitos", UNCHANGED clock,
         NEW r \in Requests, HabitosArrival(r)
  PROVE  Moves(r) /\ HabitosInv'
  <1>1. /\ UNCHANGED <<habitos, registros, cache, faults>>
        /\ \E op, id, arg, label, status :
              \/ label \in {"getCache", "check"} /\ Arrive(r, label, op, id, arg)
              \/ Refuse(r, op, status)
    BY DEF HabitosArrival, listHabitos, createHabito, updateHabito, registrar, deleteHabito,
           AskHabito, HabitoReads, habito_rows, caches
  <1>2. Moves(r) /\ call'[r].pc \in {"getCache", "check", "done"} /\ call[r].pc # "uncache"
    BY <1>1, ArriveMoves, RefuseMoves DEF BaseInv, GoesAs
  <1>3. failures' = failures
    BY <1>1 DEF Arrive, Refuse
  <1>4. CountsOn /\ Counted /\ ListIsCurrent
    BY <1>1, <1>3 DEF CountsOn, HabitosInv
  <1>5. ListIsCurrent'
    BY <1>1, <1>2, <1>4, StaysCurrent
  <1>6. Reading(r, call[r])'
    BY <1>2 DEF Reading
  <1> QED
    BY <1>1, <1>2, <1>4, <1>5, <1>6, HabitosOthers

LEMMA HabitosCommands ==
  ASSUME BaseInv, HabitosInv, area' = area, area = "habitos", UNCHANGED clock,
         NEW r \in Requests,
         \/ CreateHabitoHandler(r) \/ UpdateHabitoHandler(r)
         \/ DeleteHabitoHandler(r) \/ RegistrarHabitoHandler(r)
  PROVE  Moves(r) /\ HabitosInv'
  <1>1. r \in InFlight
    BY DEF CreateHabitoHandler, UpdateHabitoHandler, DeleteHabitoHandler, RegistrarHabitoHandler,
           saveRegistro, ExistsStreak, WriteStreak, CommitRegistro, Permit, On, At, InFlight
  <1>2. call[r].op # "listHabitos"
    BY DEF CreateHabitoHandler, UpdateHabitoHandler, DeleteHabitoHandler, RegistrarHabitoHandler,
           saveRegistro, ExistsStreak, WriteStreak, CommitRegistro, Permit, On
  <1>3. \/ Goto(r, "uncache") /\ UNCHANGED caches
        \/ Elsewhere(r) /\ DeleteCache({habitosByBloco})
        \/ /\ Elsewhere(r) /\ call[r].pc # "uncache" /\ UNCHANGED <<habitos, registros>>
           /\ UNCHANGED caches
    <2>1. ASSUME NEW label, label # "idle", Goto(r, label) \/ \E read : Keep(r, read, label)
          PROVE  Elsewhere(r)
      BY <1>2, <2>1 DEF Elsewhere
    <2>2. ASSUME NEW status, Reply(r, status)
          PROVE  Elsewhere(r)
      BY <2>2 DEF Elsewhere
    <2>3. CASE CreateHabitoHandler(r)
      BY <2>1, <2>2, <2>3 DEF CreateHabitoHandler, Permit, On, At
    <2>4. CASE UpdateHabitoHandler(r)
      BY <2>1, <2>2, <2>4 DEF UpdateHabitoHandler, Permit, On, At
    <2>5. CASE DeleteHabitoHandler(r)
      BY <2>1, <2>2, <2>5 DEF DeleteHabitoHandler, Permit, On, At, habito_rows
    <2>6. CASE RegistrarHabitoHandler(r)
      BY <2>1, <2>2, <2>6
         DEF RegistrarHabitoHandler, saveRegistro, ExistsStreak, WriteStreak, CommitRegistro,
             UncacheRegistro, Permit, On, At, HabitoReads, habito_rows, caches
    <2> QED
      BY <2>3, <2>4, <2>5, <2>6
  <1> QED
    BY <1>1, <1>3, HabitosWrites, HabitosUncaches, HabitosPasses

LEMMA ReadTodo ==
  ASSUME NEW todo, NEW rows, NEW now, NEW a, NEW b
  PROVE  [[todo |-> todo, rows |-> rows, now |-> now] EXCEPT !.todo = a, !.now = b]
            = [todo |-> a, rows |-> rows, now |-> b]
  <1>1. PICK S : S = {todo, rows, now, a, b}
    OBVIOUS
  <1>2. PICK read : read = [todo |-> todo, rows |-> rows, now |-> now]
    OBVIOUS
  <1>3. read \in [todo : S, rows : S, now : S]
    BY <1>1, <1>2
  <1>4. PICK m : m = [read EXCEPT !.todo = a]
    OBVIOUS
  <1>5. m = [todo |-> a, rows |-> rows, now |-> now]
    BY <1>1, <1>2, <1>3, <1>4
  <1>6. [m EXCEPT !.now = b] = [todo |-> a, rows |-> rows, now |-> b]
    BY <1>1, <1>5
  <1> QED
    BY <1>2, <1>4, <1>6, Zenon

LEMMA ReadRows ==
  ASSUME NEW todo, NEW rows, NEW now, NEW a, NEW b
  PROVE  [[todo |-> todo, rows |-> rows, now |-> now] EXCEPT !.rows = a, !.now = b]
            = [todo |-> todo, rows |-> a, now |-> b]
  <1>1. PICK S : S = {todo, rows, now, a, b}
    OBVIOUS
  <1>2. PICK read : read = [todo |-> todo, rows |-> rows, now |-> now]
    OBVIOUS
  <1>3. read \in [todo : S, rows : S, now : S]
    BY <1>1, <1>2
  <1>4. PICK m : m = [read EXCEPT !.rows = a]
    OBVIOUS
  <1>5. m = [todo |-> todo, rows |-> a, now |-> now]
    BY <1>1, <1>2, <1>3, <1>4
  <1>6. [m EXCEPT !.now = b] = [todo |-> todo, rows |-> a, now |-> b]
    BY <1>1, <1>5
  <1> QED
    BY <1>2, <1>4, <1>6, Zenon

(* A reader takes one step in the list; the hábitos stay.                  *)
LEMMA ReaderSteps ==
  ASSUME BaseInv, HabitosInv, area' = area, area = "habitos", NEW r \in InFlight,
         UNCHANGED <<habitos, registros, clock, cache, faults>>,
         NEW label \in {"each", "hoje"}, NEW read,
         Keep(r, read, label), call[r].pc \in {"select", "each", "hoje"},
         r \in alone =>
            \E todo, rows, now : /\ read = [todo |-> todo, rows |-> rows, now |-> now]
                                 /\ Parts(r, label, todo, rows, now)
  PROVE  Moves(r) /\ HabitosInv'
  <1>1. /\ r \in Requests /\ Works(r) /\ call'[r].pc = label /\ call'[r].read = read
        /\ failures' = failures
    <2>1. r \in Requests /\ Works(r) /\ GoesTo(r, label) /\ call'[r].read = read
      BY KeepWorks DEF BaseInv
    <2> QED
      BY <2>1 DEF GoesTo, GoesAs, Keep
  <1>2. CountsOn /\ Counted /\ ListIsCurrent /\ Moves(r) /\ alone' = alone
    BY <1>1 DEF CountsOn, HabitosInv, Works
  <1>3. ListIsCurrent'
    BY <1>1, <1>2, StaysCurrent
  <1>4. ASSUME r \in alone'
        PROVE  Reading(r, call[r])'
    <2>1. PICK todo, rows, now : /\ read = [todo |-> todo, rows |-> rows, now |-> now]
                                 /\ Parts(r, label, todo, rows, now)
      BY <1>1, <1>2, <1>4
    <2>2. Parts(r, label, todo, rows, now)'
      BY <1>1, <2>1, PartsSame
    <2> QED
      BY <1>1, <2>1, <2>2 DEF Reading
  <1> QED
    BY <1>1, <1>2, <1>3, <1>4, HabitosOthers

LEMMA PartsToBegin ==
  ASSUME NEW r, NEW todo, todo = {[Listed(h) EXCEPT !.streak = 0, !.hoje = FALSE] : h \in LiveHabitos},
         NEW now
  PROVE  Parts(r, "each", todo, {}, now)
  <1>1. \A h \in LiveHabitos : /\ [Listed(h) EXCEPT !.streak = 0, !.hoje = FALSE].id = h
                               /\ Unread([Listed(h) EXCEPT !.streak = 0, !.hoje = FALSE])
    BY ReadLines, Zenon
  <1>2. \A t \in todo : Unread(t)
    BY <1>1, Zenon
  <1>3. /\ \A t \in todo : t.id \in LiveHabitos
        /\ \A h \in LiveHabitos : \E t \in todo : t.id = h
    BY <1>1, <1>2, Zenon DEF Unread
  <1> QED
    BY <1>2, <1>3 DEF Parts

LEMMA PartsEach ==
  ASSUME NEW r, NEW todo, NEW rows, NEW now, Parts(r, "each", todo, rows, now), NEW t \in todo,
         NEW v, StreakRead(v), v.id = t.id
  PROVE  Parts(r, "hoje", todo \ {t}, rows, v)
  BY DEF Parts

LEMMA PartsHoje ==
  ASSUME NEW r, NEW todo, NEW rows, NEW now, Parts(r, "hoje", todo, rows, now),
         NEW v, IsCurrent(v, r), v.id = now.id, NEW n
  PROVE  Parts(r, "each", todo, rows \cup {v}, n)
  BY DEF Parts

LEMMA PartsRead ==
  ASSUME NEW r, NEW rows, NEW now, Parts(r, "each", {}, rows, now)
  PROVE  /\ \A line \in rows : IsCurrent(line, r)
         /\ failures = 0 => {line.id : line \in rows} = LiveHabitos
  BY DEF Parts

LEMMA HabitosList ==
  ASSUME BaseInv, HabitosInv, area' = area, area = "habitos", UNCHANGED clock,
         NEW r \in Requests, GetHabitosByBlocoHandler(r)
  PROVE  Moves(r) /\ HabitosInv'
  <1>1. r \in InFlight /\ UNCHANGED <<habitos, registros>> /\ call[r].op = "listHabitos"
    BY DEF GetHabitosByBlocoHandler, Permit, On, At, InFlight, habito_rows
  <1>2. ASSUME r \in alone
        PROVE  Reading(r, call[r])
    BY <1>2 DEF HabitosInv
  <1>3. ASSUME call[r].pc \in {"getCache", "check"},
               \/ \E status : Reply(r, status)
               \/ Goto(r, "check") \/ Goto(r, "select"),
               UNCHANGED caches \/ RedisError
        PROVE  Moves(r) /\ HabitosInv'
    BY <1>1, <1>3, HabitosPasses DEF Elsewhere
  <1>4. CASE On(r, "listHabitos", "getCache") /\ GetCache(r, habitosByBloco, "check")
    BY <1>3, <1>4 DEF GetCache, On, At
  <1>5. CASE \E found \in BOOLEAN : Permit(r, "listHabitos", found, "select", 200) /\ UNCHANGED caches
    BY <1>3, <1>5 DEF Permit, On, At
  <1>6. CASE /\ On(r, "listHabitos", "select")
             /\ Keep(r, [todo |-> {[Listed(h) EXCEPT !.streak = 0, !.hoje = FALSE] : h \in LiveHabitos},
                         rows |-> {}, now |-> Nobody],
                     "each")
             /\ UNCHANGED caches
    <2>1. PICK todo : todo = {[Listed(h) EXCEPT !.streak = 0, !.hoje = FALSE] : h \in LiveHabitos}
      OBVIOUS
    <2>2. PICK read : read = [todo |-> todo, rows |-> {}, now |-> Nobody]
      OBVIOUS
    <2>3. Parts(r, "each", todo, {}, Nobody)
      BY <2>1, PartsToBegin
    <2>4. Keep(r, read, "each")
      BY <1>6, <2>1, <2>2, Zenon
    <2>5. call[r].pc = "select" /\ UNCHANGED <<cache, faults>>
      BY <1>6 DEF On, At, caches
    <2> HIDE <2>1
    <2> QED
      BY <1>1, <2>2, <2>3, <2>4, <2>5, ReaderSteps
  <1>7. CASE /\ On(r, "listHabitos", "each")
             /\ \E h \in call[r].read.todo :
                   Keep(r, [call[r].read EXCEPT !.todo = @ \ {h},
                                !.now = [h EXCEPT !.streak = Listed(h.id).streak]], "hoje")
             /\ UNCHANGED caches
    <2>1. PICK t \in call[r].read.todo :
             Keep(r, [call[r].read EXCEPT !.todo = @ \ {t},
                          !.now = [t EXCEPT !.streak = Listed(t.id).streak]], "hoje")
      BY <1>7
    <2>2. PICK v : v = [t EXCEPT !.streak = Listed(t.id).streak]
      OBVIOUS
    <2>3. PICK read : read = [call[r].read EXCEPT !.todo = @ \ {t}, !.now = v]
      OBVIOUS
    <2>4. Keep(r, read, "hoje")
      BY <2>1, <2>2, <2>3, Zenon
    <2>5. ASSUME r \in alone
          PROVE  \E todo, rows, now : /\ read = [todo |-> todo, rows |-> rows, now |-> now]
                                      /\ Parts(r, "hoje", todo, rows, now)
      <3>1. PICK todo, rows, now :
               /\ call[r].read = [todo |-> todo, rows |-> rows, now |-> now]
               /\ Parts(r, "each", todo, rows, now)
        BY <1>1, <1>2, <1>7, <2>5 DEF Reading, On, At
      <3>2. t \in todo /\ read = [todo |-> todo \ {t}, rows |-> rows, now |-> v]
        <4>1. call[r].read.todo = todo
          BY <3>1
        <4>2. read = [[todo |-> todo, rows |-> rows, now |-> now] EXCEPT !.todo = todo \ {t}, !.now = v]
          BY <2>3, <3>1, <4>1, Zenon
        <4> QED
          BY <2>1, <4>1, <4>2, ReadTodo, Zenon
      <3>3. Unread(t)
        BY <3>1, <3>2 DEF Parts
      <3>4. StreakRead(v) /\ v.id = t.id
        BY <2>2, <3>3, StreakLine
      <3>5. Parts(r, "hoje", todo \ {t}, rows, v)
        BY <3>1, <3>2, <3>4, PartsEach
      <3> QED
        BY <3>2, <3>5
    <2>6. call[r].pc = "each" /\ UNCHANGED <<cache, faults>>
      BY <1>7 DEF On, At, caches
    <2> HIDE <2>2, <2>3
    <2> QED
      BY <1>1, <2>4, <2>5, <2>6, ReaderSteps
  <1>8. CASE /\ On(r, "listHabitos", "hoje")
             /\ LET row == [call[r].read.now EXCEPT !.hoje = isCompletoHoje(call[r].read.now.id)]
                IN  Keep(r, [call[r].read EXCEPT !.rows = @ \cup {row}, !.now = Nobody], "each")
             /\ UNCHANGED caches
    <2>1. PICK n : n = call[r].read.now
      OBVIOUS
    <2>2. PICK v : v = [n EXCEPT !.hoje = isCompletoHoje(n.id)]
      BY Zenon
    <2>3. PICK read : read = [call[r].read EXCEPT !.rows = @ \cup {v}, !.now = Nobody]
      OBVIOUS
    <2>4. Keep(r, read, "each")
      BY <1>8, <2>1, <2>2, <2>3, Zenon
    <2>5. ASSUME r \in alone
          PROVE  \E todo, rows, now : /\ read = [todo |-> todo, rows |-> rows, now |-> now]
                                      /\ Parts(r, "each", todo, rows, now)
      <3>1. PICK todo, rows, now :
               /\ call[r].read = [todo |-> todo, rows |-> rows, now |-> now]
               /\ Parts(r, "hoje", todo, rows, now)
        BY <1>1, <1>2, <1>8, <2>5 DEF Reading, On, At
      <3>2. n = now /\ read = [todo |-> todo, rows |-> rows \cup {v}, now |-> Nobody]
        <4>1. call[r].read.rows = rows /\ n = now
          BY <2>1, <3>1
        <4>2. read = [[todo |-> todo, rows |-> rows, now |-> now] EXCEPT !.rows = rows \cup {v},
                                                                      !.now = Nobody]
          BY <2>3, <3>1, <4>1, Zenon
        <4> QED
          BY <4>1, <4>2, ReadRows, Zenon
      <3>3. StreakRead(n)
        BY <3>1, <3>2 DEF Parts
      <3>4. v = Listed(n.id)
        BY <2>2, <3>3, WholeLine, Zenon
      <3>5. v.id = n.id /\ IsCurrent(v, r)
        <4>1. n.id \in LiveHabitos
          BY <3>3 DEF StreakRead, Unread
        <4>2. Listed(n.id).id = n.id
          BY ListedIsLine
        <4> HIDE <2>2
        <4> QED
          BY <3>4, <4>1, <4>2, Zenon DEF IsCurrent
      <3> HIDE <2>2
      <3>6. Parts(r, "each", todo, rows \cup {v}, Nobody)
        BY <3>1, <3>2, <3>5, PartsHoje
      <3> QED
        BY <3>2, <3>6
    <2>6. call[r].pc = "hoje" /\ UNCHANGED <<cache, faults>>
      BY <1>8 DEF On, At, caches
    <2> HIDE <2>2, <2>3
    <2> QED
      BY <1>1, <2>4, <2>5, <2>6, ReaderSteps
  <1>9. CASE /\ On(r, "listHabitos", "each") /\ call[r].read.todo = {}
             /\ SetCache(r, habitosByBloco, call[r].read.rows)
    <2>1. Elsewhere(r)
      BY <1>9 DEF SetCache, Elsewhere
    <2>2. Works(r) /\ failures' = failures /\ Reading(r, call[r])' /\ call'[r].pc = "done"
      <3>1. Works(r) /\ Reading(r, call[r])'
        BY <1>1, <2>1, ElsewhereWorks
      <3>2. failures' = failures /\ call'[r].pc = "done"
        BY <1>1, <1>9, ReplyWorks DEF SetCache, Reply, BaseInv
      <3> QED
        BY <3>1, <3>2
    <2>3. CountsOn /\ Counted /\ Moves(r)
      BY <1>9, <2>2 DEF SetCache, RedisError, CountsOn, HabitosInv, Works
    <2>4. ASSUME cache' = (cache \ Entries(habitosByBloco)) \cup
                            {[key |-> habitosByBloco, rows |-> call[r].read.rows, reader |-> r]}
          PROVE  ListIsCurrent'
      <3>1. PICK new : new = [key |-> habitosByBloco, rows |-> call[r].read.rows, reader |-> r]
        OBVIOUS
      <3>2. \A e \in cache' : e.key = habitosByBloco => e = new
        BY <2>4, <3>1 DEF Entries
      <3>3. new.rows = call[r].read.rows /\ new.reader = r
        BY <3>1
      <3>4. r \in alone' \/ r \in Overlapped'
        BY <2>2 DEF Overlapped, At
      <3>5. ASSUME r \in alone'
            PROVE  Current(new)'
        <4>1. PICK todo, rows, now :
                 /\ call[r].read = [todo |-> todo, rows |-> rows, now |-> now]
                 /\ Parts(r, "each", todo, rows, now)
          BY <1>1, <1>2, <1>9, <2>2, <3>5 DEF Reading, On, At, Works
        <4>2. todo = {} /\ call[r].read.rows = rows
          BY <1>9, <4>1
        <4>3. /\ \A line \in rows : IsCurrent(line, r)
              /\ failures = 0 => {line.id : line \in rows} = LiveHabitos
          BY <4>1, <4>2, PartsRead
        <4>4. failures = 0 \/ failures > 0
          BY <2>3 DEF Counted
        <4>5. Current(new)
          BY <3>3, <4>2, <4>3, <4>4 DEF Current
        <4> HIDE <3>1
        <4> QED
          BY <1>1, <2>3, <4>5, EntrySame
      <3> HIDE <2>4, <3>1
      <3>6. ASSUME NEW e \in cache', e.key = habitosByBloco
            PROVE  Current(e)' \/ e.reader \in Overlapped'
        <4>1. e = new
          BY <3>2, <3>6
        <4> QED
          BY <3>3, <3>4, <3>5, <4>1
      <3> QED
        BY <3>6 DEF ListIsCurrent, Current
    <2>5. ASSUME RedisError
          PROVE  ListIsCurrent'
      <3>1. faults' = faults + 1
        BY <2>5 DEF RedisError
      <3> QED
        BY <2>3, <3>1, NoneIsCurrent
    <2>6. \A e \in cache' : e.key = habitosByBloco => e \in cache \/ e.reader = r
      BY <1>9 DEF SetCache, RedisError
    <2> QED
      BY <1>1, <1>9, <2>2, <2>3, <2>4, <2>5, <2>6, HabitosOthers DEF SetCache
  <1> QED
    BY <1>4, <1>5, <1>6, <1>7, <1>8, <1>9 DEF GetHabitosByBlocoHandler

(* A query of a list that fails is counted.                                *)
LEMMA ReadLocals ==
  ASSUME NEW c, IsLocals(c), NEW read, NEW d, d = [c EXCEPT !.read = read]
  PROVE  IsLocals(d) /\ d.pc = c.pc
  <1>1. PICK S : c \in [pc : S, op : S, id : S, arg : S, read : S]
    BY DEF IsLocals
  <1>2. PICK T : T = S \cup {read}
    OBVIOUS
  <1>3. d \in [pc : T, op : T, id : T, arg : T, read : T]
    BY <1>1, <1>2
  <1> QED
    BY <1>1, <1>3 DEF IsLocals

LEMMA LeaveOutWorks ==
  ASSUME BaseInv, NEW r \in Requests, LeaveOut(r)
  PROVE  /\ Works(r) /\ call'[r].pc = "each"
         /\ \/ /\ call[r].pc = "each"
               /\ \E t \in call[r].read.todo :
                     call'[r].read = [call[r].read EXCEPT !.todo = call[r].read.todo \ {t}]
            \/ call[r].pc = "hoje" /\ call'[r].read = [call[r].read EXCEPT !.now = Nobody]
  <1>1. r \in InFlight /\ call[r].pc \in {"each", "hoje"} /\ UNCHANGED <<answer, alone>>
    BY DEF LeaveOut, On, At, InFlight
  <1>2. HandlersOK /\ Solo /\ IsLocals(call[r]) /\ answer[r] = Pending
    BY <1>1 DEF BaseInv, HandlersOK
  <1>3. ASSUME NEW c, IsLocals(c), c.pc = "each", call' = [call EXCEPT ![r] = c]
        PROVE  Works(r) /\ call'[r] = c
    <2>1. answer' = [answer EXCEPT ![r] = Pending] /\ alone' \subseteq Requests
      BY <1>1, <1>2 DEF HandlersOK
    <2>2. OnlyMoves(r) /\ call'[r] = c
      BY <1>2, <1>3, <2>1, MovedOK
    <2>3. call'[r].pc = "each" /\ alone' = alone
      BY <1>1, <1>3, <2>2
    <2>4. Works(r)
      BY <1>1, <1>2, <2>2, <2>3, WorksIs
    <2> QED
      BY <2>2, <2>4
  <1>4. CASE /\ On(r, "listHabitos", "each")
             /\ \E t \in call[r].read.todo :
                   call' = [call EXCEPT ![r].read.todo = call[r].read.todo \ {t}]
    <2>1. PICK t \in call[r].read.todo : call' = [call EXCEPT ![r].read.todo = call[r].read.todo \ {t}]
      BY <1>4
    <2>2. PICK todo : todo = call[r].read.todo \ {t}
      OBVIOUS
    <2>3. PICK read : read = [call[r].read EXCEPT !.todo = todo]
      OBVIOUS
    <2>4. PICK c : c = [call[r] EXCEPT !.read = read]
      OBVIOUS
    <2>5. call' = [call EXCEPT ![r] = c]
      BY <2>1, <2>2, <2>3, <2>4, Zenon
    <2>6. IsLocals(c) /\ c.pc = "each" /\ c.read = read
      BY <1>2, <1>4, <2>4, ReadLocals DEF On, At
    <2>7. Works(r) /\ call'[r] = c
      BY <1>3, <2>5, <2>6
    <2>8. call[r].pc = "each"
      BY <1>4 DEF On, At
    <2>9. call'[r].read = [call[r].read EXCEPT !.todo = call[r].read.todo \ {t}]
      BY <2>2, <2>3, <2>6, <2>7, Zenon
    <2> QED
      BY <2>6, <2>7, <2>8, <2>9, Zenon
  <1>5. CASE call[r].pc = "hoje" /\ call' = [call EXCEPT ![r].pc = "each", ![r].read.now = Nobody]
    <2>1. PICK b : b = [call[r] EXCEPT !.pc = "each"]
      OBVIOUS
    <2>2. IsLocals(b) /\ b.pc = "each" /\ b.read = call[r].read
      BY <1>2, <2>1, LabelledLocals
    <2>3. PICK read : read = [call[r].read EXCEPT !.now = Nobody]
      OBVIOUS
    <2>4. PICK c : c = [b EXCEPT !.read = read]
      OBVIOUS
    <2>5. IsLocals(c) /\ c.pc = "each" /\ c.read = read
      BY <2>2, <2>4, ReadLocals
    <2>6. call' = [call EXCEPT ![r] = c]
      <3>1. PICK f : f = [call EXCEPT ![r] = b]
        OBVIOUS
      <3>2. f[r] = b
        BY <1>2, <3>1 DEF HandlersOK
      <3>3. call' = [f EXCEPT ![r].read.now = Nobody]
        BY <1>5, <2>1, <3>1, Zenon
      <3>4. call' = [f EXCEPT ![r] = c]
        BY <2>2, <2>3, <2>4, <3>2, <3>3, Zenon
      <3> QED
        BY <1>2, <3>1, <3>4 DEF HandlersOK
    <2>7. Works(r) /\ call'[r] = c
      BY <1>3, <2>5, <2>6
    <2> QED
      BY <1>5, <2>3, <2>5, <2>7, Zenon
  <1>6. call[r].pc = "hoje" \/ ~ On(r, "listHabitos", "hoje")
    BY DEF On, At
  <1> QED
    BY <1>4, <1>5, <1>6 DEF LeaveOut

(* A list without a hábito has no line that is not current.                *)
LEMMA LeftOut ==
  ASSUME BaseInv, HabitosInv, area' = area, area = "habitos", UNCHANGED clock,
         NEW r \in Requests, LeaveOut(r)
  PROVE  Moves(r) /\ HabitosInv'
  <1>1. Works(r) /\ Moves(r) /\ call'[r].pc = "each" /\ alone' = alone
    BY LeaveOutWorks DEF Works
  <1>2. /\ failures' = failures + 1 /\ UNCHANGED <<habitos, registros, cache, faults>>
        /\ call[r].pc # "uncache" /\ call[r].op = "listHabitos"
    BY DEF LeaveOut, HabitoReads, habito_rows, caches, On, At
  <1>3. CountsOn /\ Counted /\ ListIsCurrent /\ failures' # 0
    BY <1>2 DEF CountsOn, Counted, HabitosInv
  <1>4. ListIsCurrent'
    BY <1>1, <1>2, <1>3, StaysCurrent
  <1>5. ASSUME r \in alone'
        PROVE  Reading(r, call[r])'
    <2>1. Reading(r, call[r])
      BY <1>1, <1>5 DEF HabitosInv
    <2>2. call[r].pc \in {"each", "hoje"}
      BY DEF LeaveOut, On, At
    <2>3. PICK todo, rows, now : /\ call[r].read = [todo |-> todo, rows |-> rows, now |-> now]
                                 /\ Parts(r, call[r].pc, todo, rows, now)
      BY <1>2, <2>1, <2>2 DEF Reading
    <2>4. PICK left, n : /\ left \subseteq todo
                         /\ call'[r].read = [todo |-> left, rows |-> rows, now |-> n]
      <3>1. ASSUME NEW t, call'[r].read = [call[r].read EXCEPT !.todo = call[r].read.todo \ {t}]
            PROVE  call'[r].read = [todo |-> todo \ {t}, rows |-> rows, now |-> now]
        BY <2>3, <3>1
      <3>2. ASSUME call'[r].read = [call[r].read EXCEPT !.now = Nobody]
            PROVE  call'[r].read = [todo |-> todo, rows |-> rows, now |-> Nobody]
        BY <2>3, <3>2
      <3>3. CASE \E t \in call[r].read.todo :
                    call'[r].read = [call[r].read EXCEPT !.todo = call[r].read.todo \ {t}]
        <4>1. PICK t : call'[r].read = [call[r].read EXCEPT !.todo = call[r].read.todo \ {t}]
          BY <3>3
        <4>2. call'[r].read = [todo |-> todo \ {t}, rows |-> rows, now |-> now]
          BY <3>1, <4>1, Zenon
        <4> QED
          BY <4>2
      <3>4. CASE call'[r].read = [call[r].read EXCEPT !.now = Nobody]
        BY <3>2, <3>4
      <3> QED
        BY <3>3, <3>4, LeaveOutWorks, Zenon
    <2>5. (\A line \in rows : IsCurrent(line, r)) /\ (\A t \in left : Unread(t))
      BY <2>3, <2>4 DEF Parts
    <2>6. (\A line \in rows : IsCurrent(line, r)') /\ (\A t \in left : Unread(t)')
      BY <1>2, <2>5, CurrentSame, LinesSame
    <2>7. Parts(r, "each", left, rows, n)'
      BY <1>3, <2>6 DEF Parts
    <2> QED
      BY <1>1, <2>4, <2>7 DEF Reading
  <1> QED
    BY <1>1, <1>2, <1>3, <1>4, <1>5, HabitosOthers

LEMMA HabitosSteps ==
  ASSUME BaseInv, HabitosInv, area' = area, UNCHANGED clock, NEW r \in Requests, InHabitos(r)
  PROVE  Moves(r) /\ HabitosInv'
  <1>1. area = "habitos" /\ (HabitosArrival(r) \/ HabitosStep(r))
    BY DEF InHabitos
  <1>2. CASE LeaveOut(r)
    BY <1>1, <1>2, LeftOut
  <1>3. CASE HabitosArrival(r)
    BY <1>1, <1>3, HabitosArrives
  <1>4. CASE HabitosStep(r) /\ ~ LeaveOut(r)
    BY <1>1, <1>4, HabitosCommands, HabitosList DEF HabitosStep
  <1> QED
    BY <1>1, <1>2, <1>3, <1>4

-----------------------------------------------------------------------------
(* Coleções, campos, itens and values                                      *)

IsValor(v) == \E S : v \in [id : S, item : S, campo : S, valor : S]
IsPlan(read) == \E S : read \in [todo : S, now : S]

(* Of whom the id of a campo is, and of whom the id of an item.            *)
Made(x) == x \in Requests => call[x].op = "createCampo" /\ call[x].pc = "done"
Born(i) == i \in Requests => call[i].op = "createItem" /\ call[i].pc \in {"valores", "done"}

(* A campo that a handler has read: it is the row that has its id, if any. *)
Snapshot(d) == Made(d.id) /\ \A c \in campos : c.id = d.id => c = d

(* Rows keep their ids and refer to rows of the same coleção.              *)
Referred(v) ==
    \E p \in itens, c \in campos : p.id = v.item /\ c.id = v.campo /\ c.colecao = p.colecao

RowsOK ==
    /\ \A c \in campos : Snapshot(c) /\ c.tipo \in Tipos
    /\ \A p \in itens : p.id \in Ids /\ Born(p.id) /\ \A q \in itens : q.id = p.id => q = p
    /\ \A v \in item_valores : IsValor(v) /\ Referred(v)
    /\ \A p \in due : /\ Made(p[2])
                      /\ p[1] \in Requests => /\ call[p[1]].op = "createItem"
                                              /\ call[p[1]].pc \in {"write", "valores", "done"}
    /\ saved = [i \in Ids |-> saved[i]]

(* Who wrote a value: a request that has come to it, and, if of an item    *)
(* another still creates, one that overlapped with it.                     *)
WritersOK ==
    \A v \in item_valores :
        /\ v.id[1] \in Requests =>
              /\ call[v.id[1]].pc # "idle"
              /\ call[v.id[1]].op = "createItem" => call[v.id[1]].pc \in {"valores", "done"}
        /\ v.item \in InFlight /\ v.id[1] # v.item => {v.id[1], v.item} \subseteq Overlapped

(* A deletion has removed the values of item i, and not yet the item.      *)
Removed(i) ==
    \E q \in Requests : /\ call[q].op = "deleteItem"
                        /\ \/ call[q].pc = "write" /\ call[q].id = i
                           \/ answer[q] = 500

Whole ==
    \A i \in itens, c \in campos : <<i.id, c.id>> \in due =>
        \/ HasValor(i.id, c)
        \/ i.id \in Requests /\ \/ call[i.id].pc = "done" /\ answer[i.id] # 201
                                \/ call[i.id].pc = "valores" /\ c \in call[i.id].read
        \/ Removed(i.id)

Typed(v) == ~ \E c \in campos : c.id = v.campo /\ c.tipo = "other"

FailedSave == \E r \in Requests : call[r].op \in {"createItem", "updateItem"} /\ answer[r] = 500

(* A request writes item i that has only two ends: saved, or failed.       *)
Saving(r, i) ==
    \/ call[r].op = "createItem" /\ r = i /\ call[r].pc \in {"campos", "write", "valores"}
    \/ /\ call[r].op = "updateItem" /\ call[r].id = i
       /\ call[r].pc \in {"colecao", "campos", "valores", "setValor", "addValor", "touch", "reread"}

Saves ==
    \A v \in item_valores : Typed(v) /\ v.valor # saved[v.item] =>
        \/ FailedSave \/ saved[v.item] \in Overlapped
        \/ \E r \in Requests : Saving(r, v.item)

(* What a creation has read and has still to write.                        *)
Creating(r, c) ==
    /\ c.pc \in {"write", "valores"} =>
          /\ \A d \in c.read : Snapshot(d) /\ d.colecao = c.arg
          /\ \A d, e \in c.read : d.id = e.id => d = e
    /\ c.pc = "write" => \A p \in due : p[1] = r => \E d \in c.read : d.id = p[2]
    /\ c.pc = "valores" =>
          /\ \A p \in itens : p.id = r => p.colecao = c.arg
          /\ \A d \in c.read, v \in item_valores : v.item = r /\ v.id[1] = r => v.campo # d.id
          /\ r \in alone => \A v \in item_valores : v.item = r => v.valor = r

(* What an update has.  One that runs alone finds every value where it     *)
(* looked, and leaves none of another's but for the campos still to come.  *)
Updating(r, c) ==
    /\ c.pc \notin {"idle", "check", "done"} => Born(c.id)
    /\ c.pc = "campos" => \A p \in itens : p.id = c.id => p.colecao = c.read
    /\ c.pc \in {"valores", "setValor", "addValor"} =>
          /\ IsPlan(c.read)
          /\ \A d \in c.read.todo : /\ Snapshot(d)
                                    /\ \A p \in itens : p.id = c.id => p.colecao = d.colecao
          /\ r \in alone => \A v \in item_valores : v.item = c.id /\ Typed(v) =>
                                v.valor = r \/ \E d \in c.read.todo : d.id = v.campo
    /\ c.pc \in {"setValor", "addValor"} => c.read.now \in c.read.todo
    /\ c.pc = "addValor" => \A v \in item_valores : v.item = c.id /\ v.campo = c.read.now.id =>
                                {r, v.id[1]} \subseteq Overlapped
    /\ c.pc \in {"touch", "reread"} /\ r \in alone =>
          \A v \in item_valores : v.item = c.id /\ Typed(v) => v.valor = r

ColecaoCall(r, c) ==
    /\ c.op = "createCampo" /\ c.pc \in {"check", "write"} => c.arg.id = r /\ c.arg.tipo \in Tipos
    /\ c.op = "createItem" => Creating(r, c)
    /\ c.op = "updateItem" => Updating(r, c)

ColecoesInv ==
    /\ area # "colecoes" => ColecoesInit
    /\ area = "colecoes" => /\ RowsOK /\ OneValuePerCampo /\ WritersOK /\ Whole /\ Saves
                            /\ \A r \in Requests : ColecaoCall(r, call[r])

LEMMA ColecoesInit_ == Init => ColecoesInv
  <1> SUFFICES ASSUME Init PROVE ColecoesInv
    OBVIOUS
  <1>1. /\ ColecoesInit
        /\ \A r \in Requests : call[r].pc = "idle"
    BY DEF Init, HandlersInit, Idle
  <1>2. /\ campos = {[id |-> Primeira, colecao |-> Primeira, tipo |-> "typed"]}
        /\ itens = {[id |-> Primeira, colecao |-> Primeira]}
        /\ item_valores = {[id |-> <<Primeira, Primeira>>, item |-> Primeira, campo |-> Primeira,
                            valor |-> Nobody]}
        /\ saved = [i \in Ids |-> Nobody] /\ due = {<<Primeira, Primeira>>}
        /\ Primeira \notin Requests /\ Primeira \in Ids
    BY <1>1, ColecoesAssumption DEF ColecoesInit, Ids
  <1>3. \A v \in item_valores : /\ v.id = <<Primeira, Primeira>> /\ v.item = Primeira
                                /\ v.campo = Primeira /\ v.valor = Nobody
    BY <1>2
  <1>4. RowsOK
    <2>1. \A c \in campos : Snapshot(c) /\ c.tipo \in Tipos
      BY <1>2 DEF Snapshot, Made, Tipos
    <2>2. \A p \in itens : p.id \in Ids /\ Born(p.id) /\ \A q \in itens : q.id = p.id => q = p
      BY <1>2 DEF Born
    <2>3. \A v \in item_valores : IsValor(v)
      <3>1. PICK S : S = {Primeira, <<Primeira, Primeira>>, Nobody}
        OBVIOUS
      <3>2. \A v \in item_valores : v \in [id : S, item : S, campo : S, valor : S]
        BY <1>2, <3>1
      <3> QED
        BY <3>2 DEF IsValor
    <2>4. \A v \in item_valores : Referred(v)
      BY <1>2, <1>3 DEF Referred
    <2>5. \A p \in due : p[1] = Primeira /\ p[2] = Primeira
      BY <1>2
    <2>6. saved = [i \in Ids |-> saved[i]]
      BY <1>2
    <2> QED
      BY <1>2, <2>1, <2>2, <2>3, <2>4, <2>5, <2>6 DEF RowsOK, Made
  <1>5. OneValuePerCampo
    BY <1>2 DEF OneValuePerCampo
  <1>6. WritersOK
    BY <1>2, <1>3 DEF WritersOK, InFlight
  <1>7. Whole
    BY <1>2, <1>3 DEF Whole, HasValor, ValoresOf
  <1>8. Saves
    BY <1>2, <1>3 DEF Saves
  <1>9. \A r \in Requests : ColecaoCall(r, call[r])
    BY <1>1 DEF ColecaoCall, Creating, Updating
  <1> QED
    BY <1>1, <1>4, <1>5, <1>6, <1>7, <1>8, <1>9 DEF ColecoesInv

(* What a step of r may do to the rows: those it brings are its own.       *)
Kin(v) == \E u \in item_valores : u.id = v.id /\ u.item = v.item /\ u.campo = v.campo

Writes(r) ==
    /\ \A c \in campos' : c \in campos \/ c.id = r
    /\ \A p \in itens' : p \in itens \/ (p.id = r /\ call[r].pc = "write")
    /\ \A p \in due' : p \in due \/ p[1] = r
    /\ \A v \in item_valores' : IsValor(v) /\ (Kin(v) \/ v.id[1] = r)
    /\ UNCHANGED <<campos, itens, item_valores, due>> \/ Works(r)

(* A command is not exchanged for another, and a creation goes ahead.      *)
Onward(r) ==
    /\ call[r].pc # "idle" => call'[r].op = call[r].op
    /\ call[r].op = "createItem" /\ call[r].pc \in {"write", "valores"} =>
          call'[r].pc \in {"valores", "done"}

LEMMA StandingOn ==
  ASSUME BaseInv, NEW r \in Requests, Moves(r), Onward(r)
  PROVE  /\ \A x : Made(x) => Made(x)'
         /\ \A i : Born(i) => Born(i)'
         /\ FailedSave => FailedSave'
         /\ Made(r) => FALSE
         /\ Born(r) => call[r].op = "createItem" /\ call[r].pc = "valores"
  <1>1. /\ call[r].pc # "done" /\ answer[r] # 500
        /\ \A q \in Requests \ {r} : call'[q] = call[q] /\ answer'[q] = answer[q]
    BY DEF Moves, OnlyMoves, BaseInv, HandlersOK, Pending
  <1>2. ASSUME NEW i, Born(i)
        PROVE  Born(i)'
    BY <1>1, <1>2 DEF Born, Onward
  <1>3. ASSUME NEW x, Made(x)
        PROVE  Made(x)'
    BY <1>1, <1>3 DEF Made
  <1>4. FailedSave => FailedSave'
    BY <1>1 DEF FailedSave
  <1> QED
    BY <1>1, <1>2, <1>3, <1>4 DEF Made, Born

LEMMA SnapshotsStay ==
  ASSUME BaseInv, NEW r \in Requests, Moves(r), Onward(r), Writes(r), NEW d, Snapshot(d)
  PROVE  Snapshot(d)'
  <1>1. Made(d.id)' /\ d.id # r
    BY StandingOn DEF Snapshot
  <1>2. \A c \in campos' : c.id = d.id => c = d
    BY <1>1 DEF Writes, Snapshot
  <1> QED
    BY <1>1, <1>2 DEF Snapshot

LEMMA ColecoesOthers ==
  ASSUME BaseInv, ColecoesInv, area = "colecoes", NEW r \in Requests, Moves(r), Onward(r), Writes(r),
         \A v \in item_valores : Typed(v)' => Typed(v),
         NEW q \in Requests \ {r}
  PROVE  ColecaoCall(q, call[q])'
  <1>1. /\ call'[q] = call[q] /\ ColecaoCall(q, call[q]) /\ (q \in alone' => q \in alone)
        /\ Overlapped \subseteq Overlapped'
    BY DEF Moves, OnlyMoves, ColecoesInv
  <1>2. PICK c : c = call[q]
    OBVIOUS
  <1>3. /\ c.pc \notin {"idle", "done"} /\ q \in alone' => UNCHANGED <<campos, itens, item_valores, due>>
        /\ c.pc \notin {"idle", "done"} =>
              \/ UNCHANGED <<campos, itens, item_valores, due>>
              \/ q \in Overlapped /\ r \in Overlapped
    BY <1>1, <1>2 DEF Writes, Works, InFlight, At, Overlapped
  <1>4. \A d : Snapshot(d) => Snapshot(d)'
    BY SnapshotsStay
  <1>5. ASSUME c.op = "createItem"
        PROVE  Creating(q, c)'
    <2>1. Creating(q, c)
      BY <1>1, <1>2, <1>5 DEF ColecaoCall
    <2>2. c.pc \in {"write", "valores"} =>
             /\ \A d \in c.read : Snapshot(d)' /\ d.colecao = c.arg
             /\ \A d, e \in c.read : d.id = e.id => d = e
      BY <1>4, <2>1 DEF Creating
    <2>3. c.pc = "write" => \A p \in due' : p[1] = q => \E d \in c.read : d.id = p[2]
      BY <2>1 DEF Creating, Writes
    <2>4. c.pc = "valores" => \A p \in itens' : p.id = q => p.colecao = c.arg
      BY <2>1 DEF Creating, Writes
    <2>5. c.pc = "valores" =>
             \A d \in c.read, v \in item_valores' : v.item = q /\ v.id[1] = q => v.campo # d.id
      BY <2>1 DEF Creating, Writes, Kin
    <2>6. c.pc = "valores" /\ q \in alone' => \A v \in item_valores' : v.item = q => v.valor = q
      BY <1>1, <1>3, <2>1 DEF Creating
    <2> QED
      BY <1>2, <2>2, <2>3, <2>4, <2>5, <2>6 DEF Creating
  <1>6. ASSUME c.op = "updateItem"
        PROVE  Updating(q, c)'
    <2>1. Updating(q, c)
      BY <1>1, <1>2, <1>6 DEF ColecaoCall
    <2>2. c.pc \notin {"idle", "check", "done"} => Born(c.id) /\ Born(c.id)'
      BY <2>1, StandingOn DEF Updating
    <2>3. c.pc \notin {"idle", "check", "done"} => \A p \in itens' : p.id = c.id => p \in itens
      BY <2>2, StandingOn DEF Writes
    <2>4. c.pc = "campos" => \A p \in itens' : p.id = c.id => p.colecao = c.read
      BY <2>1, <2>3 DEF Updating
    <2>5. c.pc \in {"valores", "setValor", "addValor"} =>
             /\ IsPlan(c.read)
             /\ \A d \in c.read.todo : /\ Snapshot(d)'
                                       /\ \A p \in itens' : p.id = c.id => p.colecao = d.colecao
      BY <1>4, <2>1, <2>3 DEF Updating
    <2>6. c.pc \in {"valores", "setValor", "addValor"} /\ q \in alone' =>
             \A v \in item_valores' : v.item = c.id /\ Typed(v)' =>
                v.valor = q \/ \E d \in c.read.todo : d.id = v.campo
      BY <1>1, <1>3, <2>1 DEF Updating
    <2>7. c.pc \in {"setValor", "addValor"} => c.read.now \in c.read.todo
      BY <2>1 DEF Updating
    <2>8. c.pc = "addValor" =>
             \A v \in item_valores' : v.item = c.id /\ v.campo = c.read.now.id =>
                {q, v.id[1]} \subseteq Overlapped'
      <3>1. CASE UNCHANGED <<campos, itens, item_valores, due>>
        BY <1>1, <2>1, <3>1 DEF Updating
      <3>2. CASE q \in Overlapped /\ r \in Overlapped
        BY <1>1, <2>1, <3>2 DEF Updating, Writes, Kin
      <3> QED
        BY <1>3, <3>1, <3>2
    <2>9. c.pc \in {"touch", "reread"} /\ q \in alone' =>
             \A v \in item_valores' : v.item = c.id /\ Typed(v)' => v.valor = q
      BY <1>1, <1>3, <2>1 DEF Updating
    <2> QED
      BY <1>2, <2>2, <2>4, <2>5, <2>6, <2>7, <2>8, <2>9 DEF Updating
  <1>7. c.op = "createCampo" /\ c.pc \in {"check", "write"} => c.arg.id = q /\ c.arg.tipo \in Tipos
    BY <1>1, <1>2 DEF ColecaoCall
  <1> QED
    BY <1>1, <1>2, <1>5, <1>6, <1>7 DEF ColecaoCall

(* The same rows, or rows that bring what they must with them.             *)
LEMMA RowsStay ==
  ASSUME BaseInv, ColecoesInv, area = "colecoes", NEW r \in Requests, Moves(r), Onward(r), Writes(r),
         \A c \in campos' \ campos : /\ Made(r)' /\ c.tipo \in Tipos
                                     /\ \A d \in campos' : d.id = r => d = c,
         \A p \in itens' \ itens : Born(r)' /\ \A s \in itens' : s.id = r => s = p,
         \A v \in item_valores' : Referred(v)',
         \A p \in due' \ due : /\ Made(p[2]) /\ call'[r].op = "createItem"
                               /\ call'[r].pc \in {"write", "valores", "done"},
         saved' = [i \in Ids |-> saved'[i]]
  PROVE  RowsOK'
  <1>1. RowsOK
    BY DEF ColecoesInv
  <1>2. /\ \A x : Made(x) => Made(x)'
        /\ \A i : Born(i) => Born(i)'
        /\ \A q \in Requests \ {r} : call'[q] = call[q]
    BY StandingOn DEF Moves, OnlyMoves
  <1>3. ASSUME NEW c \in campos'
        PROVE  Snapshot(c)' /\ c.tipo \in Tipos
    <2>1. CASE c \in campos
      BY <1>1, <2>1, SnapshotsStay DEF RowsOK
    <2>2. CASE c \notin campos
      BY <2>2 DEF Writes, Snapshot
    <2> QED
      BY <2>1, <2>2
  <1>4. ASSUME NEW p \in itens'
        PROVE  p.id \in Ids /\ Born(p.id)' /\ \A s \in itens' : s.id = p.id => s = p
    <2>1. CASE p \in itens
      <3>1. p.id \in Ids /\ Born(p.id) /\ \A s \in itens : s.id = p.id => s = p
        BY <1>1, <2>1 DEF RowsOK
      <3>2. \A s \in itens' : s.id = p.id => s \in itens
        BY <3>1, StandingOn DEF Writes
      <3> QED
        BY <1>2, <3>1, <3>2
    <2>2. CASE p \notin itens
      BY <2>2 DEF Writes, Ids
    <2> QED
      BY <2>1, <2>2
  <1>5. \A v \in item_valores' : IsValor(v)
    BY DEF Writes
  <1>6. ASSUME NEW p \in due'
        PROVE  /\ Made(p[2])'
               /\ p[1] \in Requests => /\ call'[p[1]].op = "createItem"
                                       /\ call'[p[1]].pc \in {"write", "valores", "done"}
    <2>1. CASE p \in due
      <3>1. /\ Made(p[2])'
            /\ p[1] \in Requests => /\ call[p[1]].op = "createItem"
                                    /\ call[p[1]].pc \in {"write", "valores", "done"}
        BY <1>1, <1>2, <2>1 DEF RowsOK
      <3>2. CASE p[1] \in Requests \ {r}
        BY <1>2, <3>1, <3>2
      <3>3. CASE p[1] = r
        BY <3>1, <3>3 DEF Onward, Moves
      <3> QED
        BY <3>1, <3>2, <3>3
    <2>2. CASE p \notin due
      BY <1>2, <2>2 DEF Writes
    <2> QED
      BY <2>1, <2>2
  <1> QED
    BY <1>3, <1>4, <1>5, <1>6 DEF RowsOK

LEMMA ReferredStays ==
  ASSUME NEW v, NEW u, Referred(u), u.item = v.item, u.campo = v.campo,
         \A c \in campos : c.id = v.campo => c \in campos',
         \A p \in itens : p.id = v.item => p \in itens'
  PROVE  Referred(v)'
  BY DEF Referred

LEMMA WritersStay ==
  ASSUME BaseInv, ColecoesInv, area = "colecoes", NEW r \in Requests, Moves(r), Onward(r), Writes(r),
         \A v \in item_valores' : \/ Kin(v)
                                  \/ call'[r].op = "createItem" => call'[r].pc \in {"valores", "done"}
  PROVE  WritersOK'
  <1>1. /\ \A q \in Requests \ {r} : call'[q] = call[q]
        /\ call'[r].pc # "idle" /\ call[r].pc # "done" /\ Overlapped \subseteq Overlapped'
        /\ RowsOK /\ WritersOK
    BY DEF Moves, OnlyMoves, ColecoesInv
  <1>2. ASSUME NEW v \in item_valores'
        PROVE  /\ v.id[1] \in Requests =>
                     /\ call'[v.id[1]].pc # "idle"
                     /\ call'[v.id[1]].op = "createItem" => call'[v.id[1]].pc \in {"valores", "done"}
               /\ v.item \in InFlight' /\ v.id[1] # v.item => {v.id[1], v.item} \subseteq Overlapped'
    <2>1. CASE Kin(v)
      <3>1. PICK u \in item_valores : u.id = v.id /\ u.item = v.item /\ u.campo = v.campo
        BY <2>1 DEF Kin
      <3>2. /\ v.id[1] \in Requests =>
                  /\ call[v.id[1]].pc # "idle"
                  /\ call[v.id[1]].op = "createItem" => call[v.id[1]].pc \in {"valores", "done"}
            /\ v.item \in InFlight /\ v.id[1] # v.item => {v.id[1], v.item} \subseteq Overlapped
        BY <1>1, <3>1 DEF WritersOK
      <3>3. Born(v.item)
        BY <1>1, <3>1 DEF RowsOK, Referred
      <3>4. v.item \in InFlight' => v.item \in InFlight
        BY <1>1, <3>3 DEF InFlight, At, Born
      <3>5. v.id[1] \in Requests =>
                  /\ call'[v.id[1]].pc # "idle"
                  /\ call'[v.id[1]].op = "createItem" => call'[v.id[1]].pc \in {"valores", "done"}
        BY <1>1, <3>2 DEF Onward
      <3> QED
        BY <1>1, <3>2, <3>4, <3>5
    <2>2. CASE ~ Kin(v)
      <3>1. v.id[1] = r /\ v \notin item_valores
        BY <2>2 DEF Kin, Writes
      <3>2. Works(r)
        BY <3>1 DEF Writes
      <3>3. v.item \in InFlight' /\ v.item # r => {r, v.item} \subseteq Overlapped
        BY <1>1, <3>2 DEF Works, InFlight, At
      <3> QED
        BY <1>1, <2>2, <3>1, <3>3
    <2> QED
      BY <2>1, <2>2
  <1> QED
    BY <1>2 DEF WritersOK

LEMMA WholeStays ==
  ASSUME BaseInv, ColecoesInv, area = "colecoes", NEW r \in Requests, Moves(r), Onward(r), Writes(r),
         \A p \in itens' \ itens, c \in campos :
            <<r, c.id>> \in due => call'[r].pc = "valores" /\ c \in call'[r].read,
         \A i, c : HasValor(i, c) => HasValor(i, c)' \/ Removed(i)',
         \A p \in itens' : Removed(p.id) => Removed(p.id)',
         due' = due \/ (itens' = itens /\ call[r].pc # "valores"),
         call[r].op = "createItem" /\ call[r].pc = "valores" =>
            \/ call'[r].pc = "done" /\ answer'[r] # 201
            \/ \A c \in campos : c \in call[r].read =>
                  HasValor(r, c)' \/ (call'[r].pc = "valores" /\ c \in call'[r].read)
  PROVE  Whole'
  <1>1. /\ \A q \in Requests \ {r} : call'[q] = call[q] /\ answer'[q] = answer[q]
        /\ call[r].pc # "done" /\ RowsOK /\ Whole
    BY DEF Moves, OnlyMoves, ColecoesInv
  <1>2. ASSUME NEW p \in itens', NEW c \in campos', <<p.id, c.id>> \in due'
        PROVE  \/ HasValor(p.id, c)'
               \/ p.id \in Requests /\ \/ call'[p.id].pc = "done" /\ answer'[p.id] # 201
                                       \/ call'[p.id].pc = "valores" /\ c \in call'[p.id].read
               \/ Removed(p.id)'
    <2>1. <<p.id, c.id>> \in due
      <3>1. CASE due' # due
        <4>1. p \in itens /\ call[r].pc # "valores"
          BY <3>1
        <4>2. p.id # r
          BY <1>1, <4>1, StandingOn DEF RowsOK
        <4>3. <<p.id, c.id>>[1] = p.id
          OBVIOUS
        <4> QED
          BY <4>2, <4>3, <1>2 DEF Writes
      <3> QED
        BY <1>2, <3>1
    <2>2. c \in campos
      <3>1. Made(<<p.id, c.id>>[2])
        BY <1>1, <2>1 DEF RowsOK
      <3>2. Made(c.id)
        BY <3>1
      <3> QED
        BY <3>2, StandingOn DEF Writes
    <2>3. CASE p \notin itens
      BY <2>1, <2>2, <2>3 DEF Writes
    <2>4. CASE p \in itens
      <3>1. \/ HasValor(p.id, c)
            \/ p.id \in Requests /\ \/ call[p.id].pc = "done" /\ answer[p.id] # 201
                                    \/ call[p.id].pc = "valores" /\ c \in call[p.id].read
            \/ Removed(p.id)
        BY <1>1, <2>1, <2>2, <2>4 DEF Whole
      <3>2. CASE p.id = r
        <4>1. call[r].op = "createItem" /\ call[r].pc = "valores"
          BY <1>1, <2>4, <3>2, StandingOn DEF RowsOK
        <4> QED
          BY <1>1, <2>2, <3>1, <3>2, <4>1
      <3>3. CASE p.id # r
        BY <1>1, <3>1, <3>3
      <3> QED
        BY <3>2, <3>3
    <2> QED
      BY <2>3, <2>4
  <1> QED
    BY <1>2 DEF Whole

LEMMA SavesStay ==
  ASSUME BaseInv, ColecoesInv, area = "colecoes", NEW r \in Requests, Moves(r), Onward(r),
         \A v \in item_valores' : Typed(v)' /\ v.valor # saved'[v.item] =>
            \/ FailedSave' \/ saved'[v.item] \in Overlapped' \/ Saving(r, v.item)'
            \/ /\ v \in item_valores /\ Typed(v) /\ saved'[v.item] = saved[v.item]
               /\ ~ Saving(r, v.item)
  PROVE  Saves'
  <1>1. /\ \A q \in Requests \ {r} : call'[q] = call[q]
        /\ FailedSave => FailedSave'
        /\ Overlapped \subseteq Overlapped' /\ Saves
    BY StandingOn DEF Moves, OnlyMoves, ColecoesInv
  <1>2. ASSUME NEW v \in item_valores', Typed(v)', v.valor # saved'[v.item],
               ~ FailedSave', saved'[v.item] \notin Overlapped'
        PROVE  \E q \in Requests : Saving(q, v.item)'
    <2>1. CASE Saving(r, v.item)'
      BY <2>1
    <2>2. CASE ~ Saving(r, v.item)'
      <3>1. v \in item_valores /\ Typed(v) /\ saved'[v.item] = saved[v.item] /\ ~ Saving(r, v.item)
        BY <1>2, <2>2
      <3>2. PICK q \in Requests \ {r} : Saving(q, v.item)
        BY <1>1, <1>2, <3>1 DEF Saves
      <3>3. Saving(q, v.item)'
        BY <1>1, <3>2 DEF Saving
      <3> QED
        BY <3>3
    <2> QED
      BY <2>1, <2>2
  <1> QED
    BY <1>2 DEF Saves

(* The parts the invariant of every request and of the rows is made of.    *)
LEMMA ColecoesParts ==
  ASSUME area' = area, area = "colecoes", RowsOK', OneValuePerCampo', WritersOK', Whole', Saves',
         NEW r \in Requests, ColecaoCall(r, call[r])',
         \A q \in Requests \ {r} : ColecaoCall(q, call[q])'
  PROVE  ColecoesInv'
  BY DEF ColecoesInv

RowsUntouched == UNCHANGED <<campos, itens, item_valores, saved, due>>

(* A step that writes none of these rows.                                  *)
LEMMA ColecoesQuiet ==
  ASSUME BaseInv, ColecoesInv, area' = area, area = "colecoes", NEW r \in Requests,
         Moves(r), Onward(r), RowsUntouched, ColecaoCall(r, call[r])',
         \A i : Saving(r, i) => Saving(r, i)' \/ FailedSave',
         \A p \in itens : Removed(p.id) => Removed(p.id)',
         call[r].op = "createItem" /\ call[r].pc = "valores" =>
            call'[r].pc = "done" /\ answer'[r] # 201
  PROVE  ColecoesInv'
  <1>1. RowsOK /\ OneValuePerCampo /\ Saves /\ Overlapped \subseteq Overlapped'
    BY DEF ColecoesInv, Moves
  <1>2. Writes(r)
    BY <1>1 DEF Writes, Kin, RowsOK, RowsUntouched
  <1>3. \A v \in item_valores : Typed(v)' <=> Typed(v)
    BY DEF Typed, RowsUntouched
  <1>4. \A q \in Requests \ {r} : ColecaoCall(q, call[q])'
    BY <1>2, <1>3, ColecoesOthers
  <1>5. RowsOK'
    <2>1. \A v \in item_valores' : Referred(v)'
      BY <1>1 DEF RowsOK, Referred, RowsUntouched
    <2> QED
      BY <1>1, <1>2, <2>1, RowsStay DEF RowsUntouched, RowsOK
  <1>6. OneValuePerCampo'
    BY <1>1 DEF OneValuePerCampo, RowsUntouched
  <1>7. WritersOK'
    BY <1>2, WritersStay DEF RowsUntouched, Kin
  <1>8. Whole'
    <2>1. \A i, c : HasValor(i, c) => HasValor(i, c)'
      BY DEF HasValor, ValoresOf, RowsUntouched
    <2> QED
      BY <1>2, <2>1, WholeStays DEF RowsUntouched
  <1>9. Saves'
    <2>1. \A v \in item_valores' : Typed(v)' /\ v.valor # saved'[v.item] =>
            \/ FailedSave' \/ saved'[v.item] \in Overlapped' \/ Saving(r, v.item)'
            \/ /\ v \in item_valores /\ Typed(v) /\ saved'[v.item] = saved[v.item]
               /\ ~ Saving(r, v.item)
      BY <1>3 DEF RowsUntouched
    <2> QED
      BY <2>1, SavesStay
  <1> QED
    BY <1>4, <1>5, <1>6, <1>7, <1>8, <1>9, ColecoesParts

(* A request arrives, or is refused.                                       *)
LEMMA ColecoesArrives ==
  ASSUME BaseInv, ColecoesInv, area' = area, area = "colecoes", NEW r \in Requests,
         ColecoesArrival(r) \/ Rejected(r)
  PROVE  Moves(r) /\ ColecoesInv'
  <1>1. /\ RowsUntouched
        /\ \/ \E op, status : Refuse(r, op, status)
           \/ \E op, id, arg : /\ op = "createCampo" => arg.id = r /\ arg.tipo \in Tipos
                               /\ Arrive(r, "check", op, id, arg)
    <2>1. CASE createCampo(r)
      <3>1. RowsUntouched
        BY <2>1 DEF createCampo, Ask, Invalid, ColecaoReads, colecao_rows, RowsUntouched
      <3>2. CASE \E c \in colecoes, tipo \in Tipos :
                    Ask(r, "createCampo", r, [id |-> r, colecao |-> c, tipo |-> tipo])
        <4>1. PICK c \in colecoes, tipo \in Tipos :
                    Ask(r, "createCampo", r, [id |-> r, colecao |-> c, tipo |-> tipo])
          BY <3>2
        <4>2. PICK arg : arg = [id |-> r, colecao |-> c, tipo |-> tipo]
          OBVIOUS
        <4>3. arg.id = r /\ arg.tipo \in Tipos
          BY <4>2
        <4>4. Arrive(r, "check", "createCampo", r, arg)
          BY <4>1, <4>2 DEF Ask
        <4> QED
          BY <3>1, <4>3, <4>4
      <3> QED
        BY <2>1, <3>1, <3>2 DEF createCampo, Invalid
    <2>2. CASE Rejected(r)
      BY <2>2 DEF Rejected, Unauthenticated, colecao_rows, RowsUntouched
    <2>3. CASE ColecoesArrival(r) /\ ~ createCampo(r)
      BY <2>3 DEF ColecoesArrival, listColecoes, createColecao, updateColecao, deleteColecao,
             getColecaoById, getCamposByColecao, updateCampo, deleteCampo, getItemsByColecao,
             createItem, updateItem, deleteItem, Ask, Invalid, ColecaoReads, colecao_rows,
             RowsUntouched
    <2> QED
      BY <2>1, <2>2, <2>3
  <1>2. /\ Moves(r) /\ call[r].pc = "idle"
        /\ \/ call'[r].pc = "done"
           \/ /\ call'[r].pc = "check"
              /\ call'[r].op = "createCampo" => call'[r].arg.id = r /\ call'[r].arg.tipo \in Tipos
    <2>1. CASE \E op, status : Refuse(r, op, status)
      BY <2>1, RefuseMoves DEF BaseInv
    <2>2. ASSUME NEW op, NEW id, NEW arg, op = "createCampo" => arg.id = r /\ arg.tipo \in Tipos,
                 Arrive(r, "check", op, id, arg)
          PROVE  /\ Moves(r) /\ call[r].pc = "idle" /\ call'[r].pc = "check"
                 /\ call'[r].op = "createCampo" => call'[r].arg.id = r /\ call'[r].arg.tipo \in Tipos
      BY <2>2, ArriveMoves DEF BaseInv, GoesAs
    <2> QED
      BY <1>1, <2>1, <2>2
  <1>3. Onward(r) /\ ColecaoCall(r, call[r])' /\ \A i : ~ Saving(r, i)
    BY <1>2 DEF Onward, ColecaoCall, Creating, Updating, Saving
  <1>4. \A i : Removed(i) => Removed(i)'
    BY <1>2 DEF Removed, Moves, OnlyMoves, BaseInv, HandlersOK, Pending
  <1> QED
    BY <1>1, <1>2, <1>3, <1>4, ColecoesQuiet

(* A request ends and writes nothing; one that writes an item, and one     *)
(* that has removed its values, with a 500.                                *)
LEMMA ColecoesEnds ==
  ASSUME BaseInv, ColecoesInv, area' = area, area = "colecoes", NEW r \in InFlight, RowsUntouched,
         NEW status, Reply(r, status) \/ FailWith(r, status),
         call[r].op \in {"createItem", "updateItem", "deleteItem"} /\ call[r].pc # "check" =>
            status = 500
  PROVE  Moves(r) /\ ColecoesInv'
  <1>1. /\ r \in Requests /\ Works(r) /\ Moves(r) /\ call'[r].pc = "done" /\ call'[r].op = call[r].op
        /\ answer'[r] = status /\ answer[r] = Pending
    BY ReplyWorks DEF BaseInv, Works, InFlight, At, HandlersOK
  <1>2. Onward(r) /\ ColecaoCall(r, call[r])'
    BY <1>1 DEF Onward, ColecaoCall, Creating, Updating
  <1>3. \A i : Saving(r, i) => FailedSave'
    BY <1>1 DEF Saving, FailedSave
  <1>4. \A i : Removed(i) => Removed(i)'
    BY <1>1 DEF Removed, Moves, OnlyMoves, Pending
  <1> QED
    BY <1>1, <1>2, <1>3, <1>4, ColecoesQuiet

(* A request goes on, and writes nothing.                                  *)
LEMMA ColecoesGoes ==
  ASSUME BaseInv, ColecoesInv, area' = area, area = "colecoes", NEW r \in InFlight, RowsUntouched,
         NEW label, label \notin {"idle", "done"}, NEW read,
         Keep(r, read, label) \/ (Goto(r, label) /\ read = call[r].read),
         call[r].op = "createCampo" => call[r].pc = "check",
         call[r].op = "createItem" => call[r].pc = "check" /\ label = "campos",
         call[r].op = "updateItem" => label \in {"colecao", "campos", "valores", "setValor",
                                                 "addValor", "touch", "reread"},
         call[r].op = "deleteItem" => call[r].pc = "check",
         Works(r) /\ call'[r].read = read /\ GoesTo(r, label) =>
            (call[r].op = "updateItem" => Updating(r, call[r])')
  PROVE  Moves(r) /\ ColecoesInv'
  <1>1. /\ r \in Requests /\ Works(r) /\ Moves(r) /\ GoesTo(r, label)
        /\ call'[r].read = read /\ answer' = answer
    BY GotoWorks, KeepWorks DEF BaseInv, Works
  <1>2. /\ call'[r].pc = label /\ call'[r].op = call[r].op /\ call'[r].id = call[r].id
        /\ call'[r].arg = call[r].arg
    BY <1>1 DEF GoesTo, GoesAs
  <1>3. Onward(r)
    BY <1>2 DEF Onward
  <1>4. ColecaoCall(r, call[r])'
    <2>1. ColecaoCall(r, call[r])
      BY <1>1 DEF ColecoesInv
    <2> QED
      BY <1>1, <1>2, <2>1 DEF ColecaoCall, Creating
  <1>5. \A i : Saving(r, i) => Saving(r, i)'
    BY <1>2 DEF Saving
  <1>6. \A i : Removed(i) => Removed(i)'
    BY <1>1, <1>2 DEF Removed, Moves, OnlyMoves
  <1> QED
    BY <1>1, <1>3, <1>4, <1>5, <1>6, ColecoesQuiet

-----------------------------------------------------------------------------
LEMMA ColecoesQueries ==
  ASSUME BaseInv, ColecoesInv, area' = area, area = "colecoes", NEW r \in Requests,
         \/ CreateColecaoHandler(r) \/ UpdateColecaoHandler(r) \/ DeleteColecaoHandler(r)
         \/ UpdateCampoHandler(r)
         \/ GetColecoesByBlocoHandler(r) \/ GetColecaoByIdHandler(r)
         \/ GetCamposByColecaoHandler(r) \/ GetItemsByColecaoHandler(r)
  PROVE  Moves(r) /\ ColecoesInv'
  <1>1. /\ r \in InFlight /\ RowsUntouched
        /\ call[r].op \in {"createColecao", "updateColecao", "deleteColecao", "updateCampo",
                           "listColecoes", "getColecaoById", "getCampos", "getItems"}
    BY DEF CreateColecaoHandler, UpdateColecaoHandler, DeleteColecaoHandler, UpdateCampoHandler,
           GetColecoesByBlocoHandler, GetColecaoByIdHandler, GetCamposByColecaoHandler,
           GetItemsByColecaoHandler, Query, Permit, On, At, InFlight, ColecaoReads, colecao_rows,
           RowsUntouched
  <1>2. \/ \E status : Reply(r, status)
        \/ \E label \in {"write", "select", "each"} : Goto(r, label) \/ \E read : Keep(r, read, label)
    BY DEF CreateColecaoHandler, UpdateColecaoHandler, DeleteColecaoHandler, UpdateCampoHandler,
           GetColecoesByBlocoHandler, GetColecaoByIdHandler, GetCamposByColecaoHandler,
           GetItemsByColecaoHandler, Query, Permit
  <1>3. CASE \E status : Reply(r, status)
    BY <1>1, <1>3, ColecoesEnds
  <1>4. ASSUME NEW label \in {"write", "select", "each"}, NEW read,
               Keep(r, read, label) \/ (Goto(r, label) /\ read = call[r].read)
        PROVE  Moves(r) /\ ColecoesInv'
    BY <1>1, <1>4, ColecoesGoes
  <1> QED
    BY <1>2, <1>3, <1>4

LEMMA CampoAdded ==
  ASSUME BaseInv, ColecoesInv, area' = area, area = "colecoes", NEW r \in InFlight,
         On(r, "createCampo", "write"), campos' = campos \cup {call[r].arg}, Reply(r, 201),
         UNCHANGED <<itens, item_valores, saved, due>>
  PROVE  Moves(r) /\ ColecoesInv'
  <1>1. /\ r \in Requests /\ Works(r) /\ Moves(r) /\ call'[r].pc = "done"
        /\ call'[r].op = "createCampo" /\ call[r].op = "createCampo" /\ call[r].pc = "write"
    BY ReplyWorks DEF BaseInv, Works, On, At
  <1>2. PICK d : d = call[r].arg
    OBVIOUS
  <1>3. d.id = r /\ d.tipo \in Tipos /\ RowsOK /\ OneValuePerCampo /\ Overlapped \subseteq Overlapped'
    BY <1>1, <1>2 DEF ColecoesInv, ColecaoCall, Moves
  <1>4. campos' = campos \cup {d}
    BY <1>2
  <1> HIDE <1>2
  <1>5. Onward(r) /\ Writes(r) /\ ColecaoCall(r, call[r])'
    BY <1>1, <1>3, <1>4 DEF Onward, Writes, Kin, RowsOK, ColecaoCall, Creating, Updating
  <1>6. \A v : Typed(v)' => Typed(v)
    BY <1>4 DEF Typed
  <1>7. \A q \in Requests \ {r} : ColecaoCall(q, call[q])'
    BY <1>1, <1>5, <1>6, ColecoesOthers
  <1>8. RowsOK'
    <2>1. Made(r)' /\ \A c \in campos : c.id # r
      BY <1>1, <1>3, StandingOn, <1>5 DEF Made, RowsOK, Snapshot
    <2>2. \A v \in item_valores' : Referred(v)'
      BY <1>3, <1>4 DEF RowsOK, Referred
    <2> QED
      BY <1>1, <1>3, <1>4, <1>5, <2>1, <2>2, RowsStay DEF RowsOK
  <1>9. OneValuePerCampo'
    BY <1>3 DEF OneValuePerCampo
  <1>10. WritersOK'
    BY <1>1, <1>5, WritersStay
  <1>11. Whole'
    <2>1. \A i, c : HasValor(i, c) => HasValor(i, c)'
      BY DEF HasValor, ValoresOf
    <2>2. \A i : Removed(i) => Removed(i)'
      BY <1>1 DEF Removed, Moves, OnlyMoves
    <2> QED
      BY <1>1, <1>5, <2>1, <2>2, WholeStays
  <1>12. Saves'
    BY <1>1, <1>5, <1>6, SavesStay DEF Saving
  <1> QED
    BY <1>1, <1>5, <1>7, <1>8, <1>9, <1>10, <1>11, <1>12, ColecoesParts

LEMMA CampoDeleted ==
  ASSUME BaseInv, ColecoesInv, area' = area, area = "colecoes", NEW r \in InFlight,
         On(r, "deleteCampo", "write"), campos' = {c \in campos : c.id # call[r].id},
         ~ \E v \in item_valores : v.campo = call[r].id, Reply(r, 204),
         UNCHANGED <<itens, item_valores, saved, due>>
  PROVE  Moves(r) /\ ColecoesInv'
  <1>1. /\ r \in Requests /\ Works(r) /\ Moves(r) /\ call'[r].pc = "done"
        /\ call'[r].op = "deleteCampo" /\ call[r].op = "deleteCampo" /\ call[r].pc = "write"
    BY ReplyWorks DEF BaseInv, Works, On, At
  <1>2. RowsOK /\ OneValuePerCampo /\ Overlapped \subseteq Overlapped'
    BY <1>1 DEF ColecoesInv, Moves
  <1>3. Onward(r) /\ Writes(r) /\ ColecaoCall(r, call[r])'
    BY <1>1, <1>2 DEF Onward, Writes, Kin, RowsOK, ColecaoCall, Creating, Updating
  <1>4. \A v \in item_valores, c \in campos : c.id = v.campo => c \in campos'
    OBVIOUS
  <1>5. \A v \in item_valores : Typed(v)' => Typed(v)
    BY <1>4 DEF Typed
  <1>6. \A q \in Requests \ {r} : ColecaoCall(q, call[q])'
    BY <1>1, <1>3, <1>5, ColecoesOthers
  <1>7. RowsOK'
    <2>1. \A v \in item_valores' : Referred(v)'
      BY <1>2, <1>4 DEF RowsOK, Referred
    <2> QED
      BY <1>1, <1>2, <1>3, <2>1, RowsStay DEF RowsOK
  <1>8. OneValuePerCampo'
    BY <1>2 DEF OneValuePerCampo
  <1>9. WritersOK'
    BY <1>1, <1>3, WritersStay
  <1>10. Whole'
    <2>1. \A i, c : HasValor(i, c) => HasValor(i, c)'
      BY DEF HasValor, ValoresOf
    <2>2. \A i : Removed(i) => Removed(i)'
      BY <1>1 DEF Removed, Moves, OnlyMoves
    <2> QED
      BY <1>1, <1>3, <2>1, <2>2, WholeStays
  <1>11. Saves'
    BY <1>1, <1>3, <1>5, SavesStay DEF Saving
  <1> QED
    BY <1>1, <1>3, <1>6, <1>7, <1>8, <1>9, <1>10, <1>11, ColecoesParts

LEMMA CamposCommands ==
  ASSUME BaseInv, ColecoesInv, area' = area, area = "colecoes", NEW r \in Requests,
         CreateCampoHandler(r) \/ DeleteCampoHandler(r)
  PROVE  Moves(r) /\ ColecoesInv'
  <1>1. r \in InFlight /\ UNCHANGED <<itens, item_valores, saved, due>>
    BY DEF CreateCampoHandler, DeleteCampoHandler, Permit, On, At, InFlight
  <1>2. CASE /\ UNCHANGED campos
             /\ call[r].op \in {"createCampo", "deleteCampo"} /\ \E status : Reply(r, status)
    BY <1>1, <1>2, ColecoesEnds DEF RowsUntouched
  <1>3. CASE /\ UNCHANGED campos /\ call[r].op \in {"createCampo", "deleteCampo"}
             /\ call[r].pc = "check" /\ Goto(r, "write")
    BY <1>1, <1>3, ColecoesGoes DEF RowsUntouched
  <1>4. CASE /\ On(r, "createCampo", "write") /\ campos' = campos \cup {call[r].arg}
             /\ Reply(r, 201)
    BY <1>1, <1>4, CampoAdded
  <1>5. CASE /\ On(r, "deleteCampo", "write") /\ campos' = {c \in campos : c.id # call[r].id}
             /\ ~ (\E v \in item_valores : v.campo = call[r].id) /\ Reply(r, 204)
    BY <1>1, <1>5, CampoDeleted
  <1> QED
    BY <1>2, <1>3, <1>4, <1>5 DEF CreateCampoHandler, DeleteCampoHandler, Permit, On, At

LEMMA ValoresDeleted ==
  ASSUME BaseInv, ColecoesInv, area' = area, area = "colecoes", NEW r \in InFlight,
         On(r, "deleteItem", "valores"), item_valores' = item_valores \ ValoresOf(call[r].id),
         Goto(r, "write"), UNCHANGED <<campos, itens, saved, due>>
  PROVE  Moves(r) /\ ColecoesInv'
  <1>1. /\ r \in Requests /\ Works(r) /\ Moves(r) /\ call'[r].pc = "write" /\ answer' = answer
        /\ call'[r].op = "deleteItem" /\ call[r].op = "deleteItem" /\ call[r].pc = "valores"
        /\ call'[r].id = call[r].id
    BY GotoWorks DEF BaseInv, Works, On, At, GoesTo, GoesAs
  <1>2. /\ RowsOK /\ OneValuePerCampo /\ Overlapped \subseteq Overlapped'
        /\ item_valores' \subseteq item_valores
    BY <1>1 DEF ColecoesInv, Moves
  <1>3. Onward(r) /\ Writes(r) /\ ColecaoCall(r, call[r])'
    BY <1>1, <1>2 DEF Onward, Writes, Kin, RowsOK, ColecaoCall, Creating, Updating
  <1>4. \A v : Typed(v)' => Typed(v)
    BY DEF Typed
  <1>5. \A q \in Requests \ {r} : ColecaoCall(q, call[q])'
    BY <1>1, <1>3, <1>4, ColecoesOthers
  <1>6. RowsOK'
    <2>1. \A v \in item_valores' : Referred(v)'
      BY <1>2 DEF RowsOK, Referred
    <2> QED
      BY <1>1, <1>2, <1>3, <2>1, RowsStay DEF RowsOK
  <1>7. OneValuePerCampo'
    BY <1>2 DEF OneValuePerCampo
  <1>8. WritersOK'
    BY <1>1, <1>2, <1>3, WritersStay DEF Kin
  <1>9. Whole'
    <2>1. \A i, c : HasValor(i, c) => HasValor(i, c)' \/ Removed(i)'
      BY <1>1 DEF HasValor, ValoresOf, Removed
    <2>2. \A i : Removed(i) => Removed(i)'
      BY <1>1 DEF Removed, Moves, OnlyMoves
    <2> QED
      BY <1>1, <1>3, <2>1, <2>2, WholeStays
  <1>10. Saves'
    BY <1>1, <1>2, <1>3, <1>4, SavesStay DEF Saving
  <1> QED
    BY <1>1, <1>3, <1>5, <1>6, <1>7, <1>8, <1>9, <1>10, ColecoesParts

LEMMA ItemDeleted ==
  ASSUME BaseInv, ColecoesInv, area' = area, area = "colecoes", NEW r \in InFlight,
         On(r, "deleteItem", "write"), itens' = {row \in itens : row.id # call[r].id},
         ValoresOf(call[r].id) = {}, Reply(r, 204), UNCHANGED <<campos, item_valores, saved, due>>
  PROVE  Moves(r) /\ ColecoesInv'
  <1>1. /\ r \in Requests /\ Works(r) /\ Moves(r) /\ call'[r].pc = "done"
        /\ call'[r].op = "deleteItem" /\ call[r].op = "deleteItem" /\ call[r].pc = "write"
    BY ReplyWorks DEF BaseInv, Works, On, At
  <1>2. RowsOK /\ OneValuePerCampo /\ Overlapped \subseteq Overlapped' /\ itens' \subseteq itens
    BY <1>1 DEF ColecoesInv, Moves
  <1>3. Onward(r) /\ Writes(r) /\ ColecaoCall(r, call[r])'
    BY <1>1, <1>2 DEF Onward, Writes, Kin, RowsOK, ColecaoCall, Creating, Updating
  <1>4. \A v : Typed(v)' => Typed(v)
    BY DEF Typed
  <1>5. \A q \in Requests \ {r} : ColecaoCall(q, call[q])'
    BY <1>1, <1>3, <1>4, ColecoesOthers
  <1>6. RowsOK'
    <2>1. \A v \in item_valores : v.item # call[r].id
      BY DEF ValoresOf
    <2>2. \A v \in item_valores' : Referred(v)'
      BY <1>2, <2>1 DEF RowsOK, Referred
    <2> QED
      BY <1>1, <1>2, <1>3, <2>2, RowsStay DEF RowsOK
  <1>7. OneValuePerCampo'
    BY <1>2 DEF OneValuePerCampo
  <1>8. WritersOK'
    BY <1>1, <1>3, WritersStay
  <1>9. Whole'
    <2>1. \A i, c : HasValor(i, c) => HasValor(i, c)'
      BY DEF HasValor, ValoresOf
    <2>2. \A p \in itens' : Removed(p.id) => Removed(p.id)'
      <3>1. \A p \in itens' : p.id # call[r].id
        OBVIOUS
      <3>2. answer[r] # 500 /\ \A q \in Requests \ {r} : call'[q] = call[q] /\ answer'[q] = answer[q]
        BY <1>1 DEF Moves, OnlyMoves, BaseInv, HandlersOK, Pending
      <3> QED
        BY <3>1, <3>2 DEF Removed
    <2> QED
      BY <1>1, <1>2, <1>3, <2>1, <2>2, WholeStays
  <1>10. Saves'
    BY <1>1, <1>3, <1>4, SavesStay DEF Saving
  <1> QED
    BY <1>1, <1>3, <1>5, <1>6, <1>7, <1>8, <1>9, <1>10, ColecoesParts

LEMMA DeleteItemSteps ==
  ASSUME BaseInv, ColecoesInv, area' = area, area = "colecoes", NEW r \in Requests,
         DeleteItemHandler(r)
  PROVE  Moves(r) /\ ColecoesInv'
  <1>1. r \in InFlight /\ UNCHANGED <<campos, saved, due>> /\ call[r].op = "deleteItem"
    BY DEF DeleteItemHandler, Permit, On, At, InFlight
  <1>2. CASE UNCHANGED <<itens, item_valores>> /\ call[r].pc = "check" /\ \E status : Reply(r, status)
    BY <1>1, <1>2, ColecoesEnds DEF RowsUntouched
  <1>3. CASE UNCHANGED <<itens, item_valores>> /\ call[r].pc = "check" /\ Goto(r, "valores")
    BY <1>1, <1>3, ColecoesGoes DEF RowsUntouched
  <1>4. CASE /\ On(r, "deleteItem", "valores")
             /\ item_valores' = item_valores \ ValoresOf(call[r].id)
             /\ Goto(r, "write") /\ UNCHANGED itens
    BY <1>1, <1>4, ValoresDeleted
  <1>5. CASE UNCHANGED <<itens, item_valores>> /\ Reply(r, 500)
    BY <1>1, <1>5, ColecoesEnds DEF RowsUntouched
  <1>6. CASE /\ On(r, "deleteItem", "write") /\ itens' = {row \in itens : row.id # call[r].id}
             /\ ValoresOf(call[r].id) = {} /\ Reply(r, 204) /\ UNCHANGED item_valores
    BY <1>1, <1>6, ItemDeleted
  <1>7. handleError("Error") = 500
    BY DEF handleError
  <1> QED
    BY <1>2, <1>3, <1>4, <1>5, <1>6, <1>7 DEF DeleteItemHandler, Permit, On, At

-----------------------------------------------------------------------------
LEMMA CamposRead ==
  ASSUME BaseInv, ColecoesInv, area' = area, area = "colecoes", NEW r \in InFlight,
         On(r, "createItem", "campos"), Keep(r, CamposOf(call[r].arg), "write"),
         due' = due \cup {<<r, campo.id>> : campo \in CamposOf(call[r].arg)},
         UNCHANGED <<campos, itens, item_valores, saved>>
  PROVE  Moves(r) /\ ColecoesInv'
  <1>1. PICK read : read = CamposOf(call[r].arg)
    OBVIOUS
  <1>2. Keep(r, read, "write")
    BY <1>1, Zenon
  <1>3. /\ r \in Requests /\ Works(r) /\ Moves(r) /\ call'[r].pc = "write" /\ answer' = answer
        /\ call'[r].op = "createItem" /\ call[r].op = "createItem" /\ call[r].pc = "campos"
        /\ call'[r].arg = call[r].arg /\ call'[r].read = read
    BY <1>2, KeepWorks DEF BaseInv, Works, On, At, GoesTo, GoesAs
  <1>4. RowsOK /\ OneValuePerCampo /\ Overlapped \subseteq Overlapped'
    BY <1>3 DEF ColecoesInv, Moves
  <1>5. /\ \A d \in read : d \in campos /\ d.colecao = call[r].arg
        /\ \A p \in due' : p \in due \/ \E d \in read : p = <<r, d.id>>
    BY <1>1 DEF CamposOf
  <1> HIDE <1>1
  <1>6. \A p \in due' : p \in due \/ (p[1] = r /\ \E d \in read : p[2] = d.id)
    BY <1>5
  <1>7. Onward(r) /\ Writes(r)
    BY <1>3, <1>4, <1>6 DEF Onward, Writes, Kin, RowsOK
  <1>8. ColecaoCall(r, call[r])'
    <2>1. \A d \in read : Snapshot(d)' /\ d.colecao = call[r].arg
      BY <1>3, <1>4, <1>5, <1>7, SnapshotsStay DEF RowsOK
    <2>2. \A d, e \in read : d.id = e.id => d = e
      BY <1>4, <1>5 DEF RowsOK, Snapshot
    <2>3. \A p \in due : p[1] # r
      BY <1>3, <1>4 DEF RowsOK
    <2>4. Creating(r, call[r])'
      BY <1>3, <1>6, <2>1, <2>2, <2>3 DEF Creating
    <2> QED
      BY <1>3, <2>4 DEF ColecaoCall
  <1>9. \A v : Typed(v)' => Typed(v)
    BY DEF Typed
  <1>10. \A q \in Requests \ {r} : ColecaoCall(q, call[q])'
    BY <1>3, <1>7, <1>9, ColecoesOthers
  <1>11. RowsOK'
    <2>1. \A v \in item_valores' : Referred(v)'
      BY <1>4 DEF RowsOK, Referred
    <2>2. \A p \in due' \ due : Made(p[2])
      BY <1>4, <1>5, <1>6 DEF RowsOK, Snapshot
    <2> QED
      BY <1>3, <1>4, <1>7, <2>1, <2>2, RowsStay DEF RowsOK
  <1>12. OneValuePerCampo'
    BY <1>4 DEF OneValuePerCampo
  <1>13. WritersOK'
    BY <1>3, <1>7, WritersStay DEF Kin
  <1>14. Whole'
    <2>1. \A i, c : HasValor(i, c) => HasValor(i, c)'
      BY DEF HasValor, ValoresOf
    <2>2. \A i : Removed(i) => Removed(i)'
      BY <1>3 DEF Removed, Moves, OnlyMoves
    <2> QED
      BY <1>3, <1>7, <2>1, <2>2, WholeStays
  <1>15. Saves'
    BY <1>3, <1>7, <1>9, SavesStay DEF Saving
  <1> QED
    BY <1>3, <1>8, <1>10, <1>11, <1>12, <1>13, <1>14, <1>15, ColecoesParts

LEMMA ItemAdded ==
  ASSUME BaseInv, ColecoesInv, area' = area, area = "colecoes", NEW r \in InFlight,
         On(r, "createItem", "write"), Goto(r, "valores"),
         itens' = itens \cup {[id |-> r, colecao |-> call[r].arg]},
         UNCHANGED <<campos, item_valores, saved, due>>
  PROVE  Moves(r) /\ ColecoesInv'
  <1>1. /\ r \in Requests /\ Works(r) /\ Moves(r) /\ call'[r].pc = "valores" /\ answer' = answer
        /\ call'[r].op = "createItem" /\ call[r].op = "createItem" /\ call[r].pc = "write"
        /\ call'[r].arg = call[r].arg /\ call'[r].read = call[r].read
    BY GotoWorks DEF BaseInv, Works, On, At, GoesTo, GoesAs
  <1>2. /\ RowsOK /\ OneValuePerCampo /\ Overlapped \subseteq Overlapped'
        /\ Creating(r, call[r])
    BY <1>1 DEF ColecoesInv, Moves, ColecaoCall
  <1>3. PICK p : p = [id |-> r, colecao |-> call[r].arg]
    OBVIOUS
  <1>4. itens' = itens \cup {p} /\ p.id = r /\ p.colecao = call[r].arg
    BY <1>3
  <1> HIDE <1>3
  <1>5. Onward(r) /\ Writes(r)
    BY <1>1, <1>2, <1>4 DEF Onward, Writes, Kin, RowsOK
  <1>6. \A s \in itens : s.id # r
    BY <1>1, <1>2 DEF RowsOK, Born
  <1>7. \A v \in item_valores : v.item # r
    BY <1>2, <1>6 DEF RowsOK, Referred
  <1>8. ColecaoCall(r, call[r])'
    <2>1. \A d \in call[r].read : Snapshot(d)' /\ d.colecao = call[r].arg
      BY <1>1, <1>2, <1>5, SnapshotsStay DEF Creating
    <2>2. \A s \in itens' : s.id = r => s.colecao = call[r].arg
      BY <1>4, <1>6
    <2>3. Creating(r, call[r])'
      BY <1>1, <1>2, <1>7, <2>1, <2>2 DEF Creating
    <2> QED
      BY <1>1, <2>3 DEF ColecaoCall
  <1>9. \A v : Typed(v)' => Typed(v)
    BY DEF Typed
  <1>10. \A q \in Requests \ {r} : ColecaoCall(q, call[q])'
    BY <1>1, <1>5, <1>9, ColecoesOthers
  <1>11. RowsOK'
    <2>1. \A v \in item_valores' : Referred(v)'
      BY <1>2, <1>4 DEF RowsOK, Referred
    <2>2. Born(r)' /\ \A s \in itens' : s.id = r => s = p
      BY <1>1, <1>4, <1>6 DEF Born
    <2> QED
      BY <1>1, <1>2, <1>4, <1>5, <2>1, <2>2, RowsStay DEF RowsOK
  <1>12. OneValuePerCampo'
    BY <1>2 DEF OneValuePerCampo
  <1>13. WritersOK'
    BY <1>1, <1>5, WritersStay DEF Kin
  <1>14. Whole'
    <2>1. \A i, c : HasValor(i, c) => HasValor(i, c)'
      BY DEF HasValor, ValoresOf
    <2>2. \A i : Removed(i) => Removed(i)'
      BY <1>1 DEF Removed, Moves, OnlyMoves
    <2>3. ASSUME NEW c \in campos, <<r, c.id>> \in due
          PROVE  c \in call[r].read
      <3>1. \A s \in due : s[1] = r => \E d \in call[r].read : d.id = s[2]
        BY <1>1, <1>2 DEF Creating
      <3>2. PICK d \in call[r].read : d.id = <<r, c.id>>[2]
        BY <2>3, <3>1
      <3>3. d.id = c.id /\ Snapshot(d)
        BY <1>1, <1>2, <3>2 DEF Creating
      <3> QED
        BY <3>2, <3>3 DEF Snapshot
    <2> QED
      BY <1>1, <1>5, <2>1, <2>2, <2>3, WholeStays
  <1>15. Saves'
    BY <1>1, <1>5, <1>7, <1>9, SavesStay DEF Saving
  <1> QED
    BY <1>1, <1>8, <1>10, <1>11, <1>12, <1>13, <1>14, <1>15, ColecoesParts

(* A value is added, by a creation or an update.                           *)
LEMMA ValorAdded ==
  ASSUME BaseInv, ColecoesInv, area' = area, area = "colecoes", NEW r \in Requests,
         Works(r), call'[r].op = call[r].op, call'[r].pc = "valores", answer' = answer,
         NEW i, NEW campo \in campos, i \in IdsOf(itens),
         item_valores' = item_valores \cup {NewValor(r, i, campo)},
         UNCHANGED <<campos, itens, saved, due>>,
         call[r].pc \in {"valores", "addValor"}, Saving(r, i) /\ Saving(r, i)',
         \A p \in itens : p.id = i => p.colecao = campo.colecao,
         \A w \in item_valores : w.item = i /\ w.campo = campo.id => {r, w.id[1]} \subseteq Overlapped,
         call[r].op = "createItem" => /\ i = r
                                      /\ \A c \in call[r].read : c = campo \/ c \in call'[r].read,
         ColecaoCall(r, call[r])'
  PROVE  ColecoesInv'
  <1>1. Moves(r) /\ RowsOK /\ OneValuePerCampo /\ Overlapped \subseteq Overlapped'
    BY DEF ColecoesInv, Moves, Works
  <1>2. PICK n : n = NewValor(r, i, campo)
    OBVIOUS
  <1>3. n.id[1] = r /\ n.item = i /\ n.campo = campo.id /\ IsValor(n)
    <2>1. PICK S : S = {<<r, campo.id>>, i, campo.id, r}
      OBVIOUS
    <2>2. n \in [id : S, item : S, campo : S, valor : S] /\ n.id = <<r, campo.id>>
          /\ n.item = i /\ n.campo = campo.id
      BY <1>2, <2>1 DEF NewValor
    <2> QED
      BY <2>2 DEF IsValor
  <1>4. item_valores' = item_valores \cup {n}
    BY <1>2
  <1> HIDE <1>2
  <1>5. Onward(r) /\ Writes(r)
    BY <1>1, <1>3, <1>4 DEF Onward, Writes, Kin, RowsOK
  <1>6. \A v : Typed(v)' => Typed(v)
    BY DEF Typed
  <1>7. \A q \in Requests \ {r} : ColecaoCall(q, call[q])'
    BY <1>1, <1>5, <1>6, ColecoesOthers
  <1>8. RowsOK'
    <2>1. \A v \in item_valores : Referred(v)'
      BY <1>1 DEF RowsOK, Referred
    <2>2. Referred(n)'
      BY <1>3 DEF Referred, IdsOf
    <2>3. \A v \in item_valores' : Referred(v)'
      BY <1>4, <2>1, <2>2
    <2> QED
      BY <1>1, <1>5, <2>3, RowsStay DEF RowsOK
  <1>9. OneValuePerCampo'
    BY <1>1, <1>3, <1>4 DEF OneValuePerCampo
  <1>10. WritersOK'
    BY <1>1, <1>5, WritersStay
  <1>11. Whole'
    <2>1. HasValor(i, campo)'
      BY <1>3, <1>4 DEF HasValor, ValoresOf
    <2>2. \A k, c : HasValor(k, c) => HasValor(k, c)'
      BY <1>4 DEF HasValor, ValoresOf
    <2>3. \A k : Removed(k) => Removed(k)'
      BY <1>1 DEF Removed, Moves, OnlyMoves
    <2> QED
      BY <1>1, <1>5, <2>1, <2>2, <2>3, WholeStays
  <1>12. Saves'
    <2>1. ASSUME NEW v \in item_valores', Typed(v)', v.valor # saved'[v.item]
          PROVE  \/ Saving(r, v.item)'
                 \/ /\ v \in item_valores /\ Typed(v) /\ saved'[v.item] = saved[v.item]
                    /\ ~ Saving(r, v.item)
      <3>1. CASE v.item = i
        BY <3>1
      <3>2. CASE v.item # i
        BY <1>3, <1>4, <1>6, <2>1, <3>2 DEF Saving
      <3> QED
        BY <3>1, <3>2
    <2> QED
      BY <1>1, <1>5, <2>1, SavesStay
  <1> QED
    BY <1>7, <1>8, <1>9, <1>10, <1>11, <1>12, ColecoesParts

(* An item is saved: by a request that runs alone, as a whole.             *)
LEMMA ItemSaved ==
  ASSUME BaseInv, ColecoesInv, area' = area, area = "colecoes", NEW r \in InFlight,
         NEW status \in {200, 201}, Reply(r, status),
         NEW i \in Ids, saved' = [saved EXCEPT ![i] = r],
         UNCHANGED <<campos, itens, item_valores, due>>, Saving(r, i),
         r \in alone => \A v \in item_valores : v.item = i /\ Typed(v) => v.valor = r,
         call[r].op = "createItem" => call[r].pc = "valores" /\ call[r].read = {}
  PROVE  Moves(r) /\ ColecoesInv'
  <1>1. /\ r \in Requests /\ Works(r) /\ Moves(r) /\ call'[r].pc = "done"
        /\ call'[r].op = call[r].op /\ alone' = alone /\ call[r].pc \notin {"idle", "done"}
    BY ReplyWorks DEF BaseInv, Works, InFlight, At
  <1>2. RowsOK /\ OneValuePerCampo /\ Overlapped \subseteq Overlapped'
    BY <1>1 DEF ColecoesInv, Moves
  <1>3. Onward(r) /\ Writes(r) /\ ColecaoCall(r, call[r])'
    BY <1>1, <1>2 DEF Onward, Writes, Kin, RowsOK, ColecaoCall, Creating, Updating
  <1>4. \A v : (Typed(v)' <=> Typed(v))
    BY DEF Typed
  <1>5. \A q \in Requests \ {r} : ColecaoCall(q, call[q])'
    BY <1>1, <1>3, <1>4, ColecoesOthers
  <1>6. saved' = [k \in Ids |-> saved'[k]] /\ saved'[i] = r /\ \A k : k # i => saved'[k] = saved[k]
    <2>1. saved = [k \in Ids |-> saved[k]]
      BY <1>2 DEF RowsOK
    <2> QED
      BY <2>1
  <1>7. RowsOK'
    <2>1. \A v \in item_valores' : Referred(v)'
      BY <1>2 DEF RowsOK, Referred
    <2> QED
      BY <1>1, <1>2, <1>3, <1>6, <2>1, RowsStay DEF RowsOK
  <1>8. OneValuePerCampo'
    BY <1>2 DEF OneValuePerCampo
  <1>9. WritersOK'
    BY <1>1, <1>3, WritersStay DEF Kin
  <1>10. Whole'
    <2>1. \A k, c : HasValor(k, c) => HasValor(k, c)'
      BY DEF HasValor, ValoresOf
    <2>2. \A k : Removed(k) => Removed(k)'
      BY <1>1 DEF Removed, Moves, OnlyMoves, Saving
    <2> QED
      BY <1>1, <1>3, <2>1, <2>2, WholeStays
  <1>11. Saves'
    <2>1. r \in alone \/ r \in Overlapped'
      BY <1>1 DEF Overlapped, At
    <2>2. ASSUME NEW v \in item_valores', Typed(v)', v.valor # saved'[v.item]
          PROVE  \/ saved'[v.item] \in Overlapped'
                 \/ /\ v \in item_valores /\ Typed(v) /\ saved'[v.item] = saved[v.item]
                    /\ ~ Saving(r, v.item)
      <3>1. CASE v.item = i
        BY <1>4, <1>6, <2>1, <2>2, <3>1
      <3>2. CASE v.item # i
        BY <1>4, <1>6, <2>2, <3>2 DEF Saving
      <3> QED
        BY <3>1, <3>2
    <2> QED
      BY <1>1, <1>3, <2>2, SavesStay
  <1> QED
    BY <1>1, <1>3, <1>5, <1>7, <1>8, <1>9, <1>10, <1>11, ColecoesParts

LEMMA CreateItemSteps ==
  ASSUME BaseInv, ColecoesInv, area' = area, area = "colecoes", NEW r \in Requests,
         CreateItemHandler(r)
  PROVE  Moves(r) /\ ColecoesInv'
  <1>1. r \in InFlight /\ call[r].op = "createItem" /\ Creating(r, call[r]) /\ RowsOK
    BY DEF CreateItemHandler, Permit, On, At, InFlight, ColecoesInv, ColecaoCall
  <1>2. handleError("Error") = 500
    BY DEF handleError
  <1>3. CASE /\ Permit(r, "createItem", call[r].arg \in colecoes, "campos",
                       handleError("NotFoundException"))
             /\ ColecaoReads
    <2>1. RowsUntouched /\ call[r].pc = "check"
      BY <1>3 DEF Permit, On, At, ColecaoReads, colecao_rows, RowsUntouched
    <2>2. CASE \E status : Reply(r, status)
      BY <1>1, <2>1, <2>2, ColecoesEnds
    <2>3. CASE Goto(r, "campos")
      BY <1>1, <2>1, <2>3, ColecoesGoes
    <2> QED
      BY <1>3, <2>2, <2>3 DEF Permit
  <1>4. CASE /\ On(r, "createItem", "campos")
             /\ Keep(r, CamposOf(call[r].arg), "write")
             /\ due' = due \cup {<<r, campo.id>> : campo \in CamposOf(call[r].arg)}
             /\ UNCHANGED <<colecoes, campos, itens, item_valores, saved>>
    BY <1>1, <1>4, CamposRead
  <1>5. CASE /\ On(r, "createItem", "write")
             /\ itens' = itens \cup {[id |-> r, colecao |-> call[r].arg]} /\ Goto(r, "valores")
             /\ UNCHANGED <<colecoes, campos, item_valores, saved, due>>
    BY <1>1, <1>5, ItemAdded
  <1>6. CASE Reply(r, handleError("Error")) /\ RowsUntouched
    BY <1>1, <1>2, <1>6, ColecoesEnds
  <1>7. CASE /\ On(r, "createItem", "valores") /\ call[r].read = {} /\ Reply(r, 201)
             /\ saved' = [saved EXCEPT ![r] = r]
             /\ UNCHANGED <<colecoes, campos, itens, item_valores, due>>
    <2>1. /\ call[r].pc = "valores" /\ r \in Ids /\ Saving(r, r)
          /\ r \in alone => \A v \in item_valores : v.item = r /\ Typed(v) => v.valor = r
      BY <1>1, <1>7 DEF On, At, Creating, Saving, Ids
    <2> QED
      BY <1>1, <1>7, <2>1, ItemSaved
  <1>8. ASSUME On(r, "createItem", "valores"), NEW campo \in call[r].read, InsertValor(r, r, campo),
               UNCHANGED <<colecoes, campos, itens, saved, due>>
        PROVE  Moves(r) /\ ColecoesInv'
    <2>1. CASE ~ (campo \in campos /\ r \in IdsOf(itens))
      BY <1>6, <1>8, <2>1 DEF InsertValor, RowsUntouched
    <2>2. CASE campo \in campos /\ r \in IdsOf(itens)
      <3>1. PICK read : read = call[r].read \ {campo}
        OBVIOUS
      <3>2. Keep(r, read, "valores") /\ item_valores' = item_valores \cup {NewValor(r, r, campo)}
        BY <1>8, <2>2, <3>1, Zenon DEF InsertValor
      <3>3. Keep(r, read, "valores")
        BY <3>2
      <3>4. /\ Works(r) /\ Moves(r) /\ call'[r].pc = "valores" /\ call'[r].op = "createItem"
            /\ call'[r].arg = call[r].arg /\ call'[r].read = read /\ answer' = answer
            /\ call[r].pc = "valores"
        BY <1>1, <1>8, <3>3, KeepWorks DEF BaseInv, Works, On, At, GoesTo, GoesAs
      <3>5. Saving(r, r) /\ Saving(r, r)'
        BY <1>1, <3>4 DEF Saving
      <3>6. /\ \A p \in itens : p.id = r => p.colecao = campo.colecao
            /\ \A w \in item_valores : w.item = r /\ w.campo = campo.id => {r, w.id[1]} \subseteq Overlapped
        <4>1. \A p \in itens : p.id = r => p.colecao = campo.colecao
          BY <1>1, <1>8, <3>4 DEF Creating
        <4>2. \A w \in item_valores : w.item = r /\ w.campo = campo.id => w.id[1] # r
          BY <1>1, <1>8, <3>4 DEF Creating
        <4>3. \A w \in item_valores : w.item = r /\ w.id[1] # r => {r, w.id[1]} \subseteq Overlapped
          BY <1>1 DEF ColecoesInv, WritersOK
        <4> QED
          BY <4>1, <4>2, <4>3
      <3>7. ColecaoCall(r, call[r])'
        <4>1. Onward(r)
          BY <1>1, <3>4 DEF Onward
        <4>2. PICK n : n = NewValor(r, r, campo)
          OBVIOUS
        <4>3. n.campo = campo.id /\ n.valor = r /\ item_valores' = item_valores \cup {n}
              /\ n.id[1] = r /\ IsValor(n)
          <5>1. PICK S : S = {<<r, campo.id>>, r, campo.id}
            OBVIOUS
          <5>2. n \in [id : S, item : S, campo : S, valor : S] /\ n.id = <<r, campo.id>>
                /\ n.valor = r /\ n.campo = campo.id
            BY <4>2, <5>1 DEF NewValor
          <5> QED
            BY <3>2, <4>2, <5>2 DEF IsValor
        <4>4. Writes(r)
          BY <1>1, <1>8, <3>4, <4>3 DEF Writes, Kin, RowsOK
        <4>5. \A d \in read : Snapshot(d)' /\ d.colecao = call[r].arg
          BY <1>1, <1>8, <3>1, <3>4, <4>1, <4>4, SnapshotsStay DEF Creating
        <4>6. \A d \in read : d.id # campo.id
          BY <1>1, <1>8, <3>1, <3>4 DEF Creating
        <4>7. Creating(r, call[r])'
          BY <1>1, <1>8, <3>1, <3>4, <4>3, <4>5, <4>6 DEF Creating, Moves, Works
        <4> QED
          BY <3>4, <4>7 DEF ColecaoCall
      <3>8. \A c \in call[r].read : c = campo \/ c \in call'[r].read
        BY <3>1, <3>4
      <3> QED
        BY <1>1, <1>8, <2>2, <3>2, <3>4, <3>5, <3>6, <3>7, <3>8, ValorAdded
    <2> QED
      BY <2>1, <2>2
  <1> QED
    BY <1>3, <1>4, <1>5, <1>6, <1>7, <1>8 DEF CreateItemHandler, RowsUntouched

-----------------------------------------------------------------------------
LEMMA PlanNow ==
  ASSUME NEW read, IsPlan(read), NEW campo, NEW plan, plan = [read EXCEPT !.now = campo]
  PROVE  IsPlan(plan) /\ plan.now = campo /\ plan.todo = read.todo
  <1>1. PICK S : read \in [todo : S, now : S]
    BY DEF IsPlan
  <1>2. PICK T : T = S \cup {campo}
    OBVIOUS
  <1>3. plan \in [todo : T, now : T]
    BY <1>1, <1>2
  <1> QED
    BY <1>1, <1>3 DEF IsPlan

LEMMA PlanTodo ==
  ASSUME NEW read, IsPlan(read), NEW todo, NEW plan, plan = [read EXCEPT !.todo = todo]
  PROVE  IsPlan(plan) /\ plan.todo = todo /\ plan.now = read.now
  <1>1. PICK S : read \in [todo : S, now : S]
    BY DEF IsPlan
  <1>2. PICK T : T = S \cup {todo}
    OBVIOUS
  <1>3. plan \in [todo : T, now : T]
    BY <1>1, <1>2
  <1> QED
    BY <1>1, <1>3 DEF IsPlan

(* One campo less to write.                                                *)
LEMMA PlanLess ==
  ASSUME NEW read, IsPlan(read), NEW campo,
         NEW plan, plan = [read EXCEPT !.todo = @ \ {campo}, !.now = Nobody]
  PROVE  IsPlan(plan) /\ plan.todo = read.todo \ {campo}
  <1>1. PICK todo : todo = read.todo \ {campo}
    OBVIOUS
  <1>2. PICK m : m = [read EXCEPT !.todo = todo]
    OBVIOUS
  <1>3. PICK p : p = [m EXCEPT !.now = Nobody]
    OBVIOUS
  <1>4. p = plan
    BY <1>1, <1>2, <1>3, Zenon
  <1> HIDE <1>1
  <1>5. IsPlan(m) /\ m.todo = todo
    BY <1>2, PlanTodo
  <1> HIDE <1>2
  <1>6. IsPlan(p) /\ p.todo = todo
    BY <1>3, <1>5, PlanNow
  <1> HIDE <1>3
  <1> USE <1>1
  <1> QED
    BY <1>4, <1>6

LEMMA PlanMade ==
  ASSUME NEW todo, NEW plan, plan = [todo |-> todo, now |-> Nobody]
  PROVE  IsPlan(plan) /\ plan.todo = todo
  <1>1. PICK T : T = {todo, Nobody}
    OBVIOUS
  <1>2. plan \in [todo : T, now : T] /\ plan.todo = todo
    BY <1>1
  <1> QED
    BY <1>2 DEF IsPlan

LEMMA ValorSet ==
  ASSUME NEW v, IsValor(v), NEW r, NEW w, w = [v EXCEPT !.valor = r]
  PROVE  IsValor(w) /\ w.id = v.id /\ w.item = v.item /\ w.campo = v.campo /\ w.valor = r
  <1>1. PICK S : v \in [id : S, item : S, campo : S, valor : S]
    BY DEF IsValor
  <1>2. PICK T : T = S \cup {r}
    OBVIOUS
  <1>3. w \in [id : T, item : T, campo : T, valor : T]
    BY <1>1, <1>2
  <1> QED
    BY <1>1, <1>3 DEF IsValor

(* The values of a pair are set; the rows are the same but for that.       *)
LEMMA ValoresSet ==
  ASSUME BaseInv, ColecoesInv, area' = area, area = "colecoes", NEW r \in Requests,
         Works(r), call'[r].op = "updateItem", call[r].op = "updateItem", answer' = answer,
         NEW i, NEW campo,
         item_valores' = {IF v.item = i /\ v.campo = campo.id /\ campo.tipo = "typed"
                          THEN [v EXCEPT !.valor = r] ELSE v : v \in item_valores},
         UNCHANGED <<campos, itens, saved, due>>,
         Saving(r, i) /\ Saving(r, i)' /\ (\A k : Saving(r, k) => k = i),
         (\A v \in item_valores' : IsValor(v) /\ \E u \in item_valores :
             /\ u.id = v.id /\ u.item = v.item /\ u.campo = v.campo
             /\ u.valor = v.valor \/ v.valor = r
             /\ u.item = i /\ u.campo = campo.id /\ campo.tipo = "typed" => v.valor = r)
            => ColecaoCall(r, call[r])'
  PROVE  ColecoesInv'
  <1>1. Moves(r) /\ RowsOK /\ OneValuePerCampo /\ Overlapped \subseteq Overlapped'
    BY DEF ColecoesInv, Moves, Works
  <1>2. ASSUME NEW u \in item_valores, NEW v,
               v = IF u.item = i /\ u.campo = campo.id /\ campo.tipo = "typed"
                   THEN [u EXCEPT !.valor = r] ELSE u
        PROVE  /\ IsValor(v) /\ u.id = v.id /\ u.item = v.item /\ u.campo = v.campo
               /\ v = u \/ (v.item = i /\ v.valor = r)
               /\ u.valor = v.valor \/ v.valor = r
               /\ u.item = i /\ u.campo = campo.id /\ campo.tipo = "typed" => v.valor = r
    <2>1. IsValor(u)
      BY <1>1 DEF RowsOK
    <2>2. CASE u.item = i /\ u.campo = campo.id /\ campo.tipo = "typed"
      <3>1. v = [u EXCEPT !.valor = r]
        BY <1>2, <2>2
      <3>2. IsValor(v) /\ v.id = u.id /\ v.item = u.item /\ v.campo = u.campo /\ v.valor = r
        BY <2>1, <3>1, ValorSet
      <3> QED
        BY <2>2, <3>2
    <2>3. CASE ~ (u.item = i /\ u.campo = campo.id /\ campo.tipo = "typed")
      BY <1>2, <2>1, <2>3
    <2> QED
      BY <2>2, <2>3
  <1>3. PICK set : \A u \in item_valores :
           set[u] = IF u.item = i /\ u.campo = campo.id /\ campo.tipo = "typed"
                    THEN [u EXCEPT !.valor = r] ELSE u
    <2>1. \A u \in item_valores :
             [v \in item_valores |-> IF v.item = i /\ v.campo = campo.id /\ campo.tipo = "typed"
                                     THEN [v EXCEPT !.valor = r] ELSE v][u]
               = IF u.item = i /\ u.campo = campo.id /\ campo.tipo = "typed"
                 THEN [u EXCEPT !.valor = r] ELSE u
      BY Zenon
    <2> QED
      BY <2>1, Zenon
  <1>4. item_valores' = {set[u] : u \in item_valores}
    <2>1. \A x : x \in item_valores' => \E u \in item_valores : x = set[u]
      BY <1>3
    <2>2. \A u \in item_valores : set[u] \in item_valores'
      BY <1>3
    <2> QED
      BY <2>1, <2>2
  <1>5. \A u \in item_valores :
           /\ IsValor(set[u]) /\ u.id = set[u].id /\ u.item = set[u].item /\ u.campo = set[u].campo
           /\ set[u] = u \/ (set[u].item = i /\ set[u].valor = r)
           /\ u.valor = set[u].valor \/ set[u].valor = r
           /\ u.item = i /\ u.campo = campo.id /\ campo.tipo = "typed" => set[u].valor = r
    BY <1>2, <1>3, Zenon
  <1> HIDE <1>3
  <1>6. Onward(r) /\ Writes(r) /\ \A v \in item_valores' : Kin(v)
    BY <1>4, <1>5, <1>1 DEF Onward, Writes, Kin
  <1>7. ColecaoCall(r, call[r])'
    BY <1>4, <1>5
  <1>8. \A v : Typed(v)' => Typed(v)
    BY DEF Typed
  <1>9. \A q \in Requests \ {r} : ColecaoCall(q, call[q])'
    BY <1>1, <1>6, <1>8, ColecoesOthers
  <1>10. RowsOK'
    <2>1. ASSUME NEW v \in item_valores'
          PROVE  Referred(v)'
      <3>1. PICK u \in item_valores : v = set[u]
        BY <1>4
      <3>2. Referred(u) /\ u.item = v.item /\ u.campo = v.campo
        BY <1>1, <1>5, <3>1 DEF RowsOK
      <3> QED
        BY <3>2, ReferredStays
    <2> QED
      BY <1>1, <1>6, <2>1, RowsStay DEF RowsOK
  <1>11. OneValuePerCampo'
    <2>1. ASSUME NEW v \in item_valores', NEW w \in item_valores', v.item = w.item, v.campo = w.campo
          PROVE  v = w \/ {v.id[1], w.id[1]} \subseteq Overlapped'
      <3>1. PICK t \in item_valores, u \in item_valores : v = set[t] /\ w = set[u]
        BY <1>4
      <3>2. t.id = v.id /\ u.id = w.id /\ t.item = u.item /\ t.campo = u.campo
        BY <1>5, <2>1, <3>1
      <3>3. t = u \/ {t.id[1], u.id[1]} \subseteq Overlapped
        BY <1>1, <3>2 DEF OneValuePerCampo
      <3> QED
        BY <1>1, <3>1, <3>2, <3>3
    <2> QED
      BY <2>1 DEF OneValuePerCampo
  <1>12. WritersOK'
    BY <1>1, <1>6, WritersStay
  <1>13. Whole'
    <2>1. \A k, c : HasValor(k, c) => HasValor(k, c)'
      BY <1>4, <1>5 DEF HasValor, ValoresOf
    <2>2. \A k : Removed(k) => Removed(k)'
      BY <1>1 DEF Removed, Moves, OnlyMoves
    <2> QED
      BY <1>1, <1>6, <2>1, <2>2, WholeStays
  <1>14. Saves'
    <2>1. ASSUME NEW v \in item_valores', Typed(v)', v.valor # saved'[v.item]
          PROVE  \/ Saving(r, v.item)'
                 \/ /\ v \in item_valores /\ Typed(v) /\ saved'[v.item] = saved[v.item]
                    /\ ~ Saving(r, v.item)
      <3>1. CASE v.item = i
        BY <3>1
      <3>2. CASE v.item # i
        BY <1>4, <1>5, <1>8, <2>1, <3>2
      <3> QED
        BY <3>1, <3>2
    <2> QED
      BY <1>1, <1>6, <2>1, SavesStay
  <1> QED
    BY <1>7, <1>9, <1>10, <1>11, <1>12, <1>13, <1>14, ColecoesParts

(* The plan of an update that has come to the next of its campos.          *)
LEMMA UpdateGoes ==
  ASSUME BaseInv, ColecoesInv, area' = area, area = "colecoes", NEW r \in Requests,
         UpdateItemHandler(r), RowsUntouched, call[r].pc \notin {"setValor", "addValor", "reread"},
         ~ \E status : Reply(r, status) /\ (call[r].pc # "check" => status = 500)
  PROVE  Moves(r) /\ ColecoesInv'
  <1>1. /\ r \in InFlight /\ call[r].op = "updateItem" /\ Updating(r, call[r]) /\ RowsOK
        /\ Overlapped \subseteq Overlapped' \/ ~ Works(r)
    BY DEF UpdateItemHandler, Permit, On, At, InFlight, ColecoesInv, ColecaoCall, Works, Moves
  <1>2. PICK i : i = call[r].id
    OBVIOUS
  <1>3. \A d : Snapshot(d) /\ Works(r) /\ (call'[r].op = "updateItem") => Snapshot(d)'
    <2>1. ASSUME Works(r), call'[r].op = "updateItem"
          PROVE  Onward(r) /\ Writes(r) /\ Moves(r)
      BY <1>1, <2>1 DEF Onward, Writes, Kin, RowsOK, RowsUntouched, Works
    <2> QED
      BY <2>1, SnapshotsStay
  <1>4. \A k : Born(k) /\ Works(r) /\ (call'[r].op = "updateItem") => Born(k)'
    <2>1. ASSUME Works(r), call'[r].op = "updateItem"
          PROVE  Onward(r) /\ Moves(r)
      BY <1>1, <2>1 DEF Onward, Works
    <2> QED
      BY <2>1, StandingOn
  <1>5. \A v : (Typed(v)' <=> Typed(v)) /\ (v \in item_valores' <=> v \in item_valores)
    BY DEF Typed, RowsUntouched
  <1>6. Works(r) => alone' = alone
    BY DEF Works
  <1>7. CASE On(r, "updateItem", "check") /\ i \in IdsOf(itens) /\ Goto(r, "colecao")
    <2>1. Born(i)
      BY <1>1, <1>7 DEF RowsOK, IdsOf
    <2>2. ASSUME Works(r), GoesTo(r, "colecao")
          PROVE  Updating(r, call[r])'
      BY <1>1, <1>2, <1>4, <2>1, <2>2 DEF Updating, GoesTo, GoesAs
    <2> QED
      BY <1>1, <1>7, <2>2, ColecoesGoes
  <1>8. CASE On(r, "updateItem", "colecao") /\ i \in IdsOf(itens) /\ Keep(r, ColecaoOf(i), "campos")
    <2>1. PICK read : read = ColecaoOf(i)
      OBVIOUS
    <2>2. \A p \in itens : p.id = i => p.colecao = read
      <3>1. PICK s \in itens : s.id = i /\ read = s.colecao
        BY <1>8, <2>1 DEF IdsOf, ColecaoOf
      <3> QED
        BY <1>1, <3>1 DEF RowsOK
    <2>3. Keep(r, read, "campos")
      BY <1>8, <2>1, Zenon
    <2> HIDE <2>1
    <2>4. ASSUME Works(r), GoesTo(r, "campos"), call'[r].read = read
          PROVE  Updating(r, call[r])'
      <3>1. Born(i)
        BY <1>1, <1>2, <1>8 DEF Updating, On, At
      <3> QED
        BY <1>1, <1>2, <1>4, <2>2, <2>4, <3>1 DEF Updating, GoesTo, GoesAs, RowsUntouched
    <2> QED
      BY <1>1, <2>3, <2>4, ColecoesGoes
  <1>9. CASE /\ On(r, "updateItem", "campos")
             /\ Keep(r, [todo |-> CamposOf(call[r].read), now |-> Nobody], "valores")
    <2>1. PICK todo : todo = CamposOf(call[r].read)
      OBVIOUS
    <2>2. PICK plan : plan = [todo |-> todo, now |-> Nobody]
      OBVIOUS
    <2>3. Keep(r, plan, "valores")
      BY <1>9, <2>1, <2>2, Zenon
    <2>4. IsPlan(plan) /\ plan.todo = todo
      BY <2>2, PlanMade
    <2> HIDE <2>2
    <2>5. /\ \A d \in todo : Snapshot(d) /\ d.colecao = call[r].read
          /\ \A c \in campos : c.colecao = call[r].read => c \in todo
      BY <1>1, <2>1 DEF CamposOf, RowsOK
    <2>6. \A p \in itens : p.id = i => p.colecao = call[r].read
      BY <1>1, <1>2, <1>9 DEF Updating, On, At
    <2>7. \A v \in item_valores : v.item = i => \E d \in todo : d.id = v.campo
      BY <1>1, <2>5, <2>6 DEF RowsOK, Referred
    <2>8. ASSUME Works(r), GoesTo(r, "valores"), call'[r].read = plan
          PROVE  Updating(r, call[r])'
      <3>1. Born(i)
        BY <1>1, <1>2, <1>9 DEF Updating, On, At
      <3>2. call'[r].op = "updateItem" /\ call'[r].pc = "valores" /\ call'[r].id = i
        BY <1>1, <1>2, <2>8 DEF GoesTo, GoesAs
      <3>3. \A d \in todo : Snapshot(d)' /\ \A p \in itens' : p.id = i => p.colecao = d.colecao
        BY <1>3, <2>5, <2>6, <2>8, <3>2 DEF RowsUntouched
      <3> QED
        BY <1>4, <1>5, <2>4, <2>7, <2>8, <3>1, <3>2, <3>3 DEF Updating
    <2> QED
      BY <1>1, <2>3, <2>8, ColecoesGoes
  <1>10. ASSUME On(r, "updateItem", "valores"), NEW campo \in call[r].read.todo,
                NEW label, label = IF HasValor(i, campo) THEN "setValor" ELSE "addValor",
                Keep(r, [call[r].read EXCEPT !.now = campo], label)
         PROVE  Moves(r) /\ ColecoesInv'
    <2>1. PICK plan : plan = [call[r].read EXCEPT !.now = campo]
      OBVIOUS
    <2>2. Keep(r, plan, label)
      BY <1>10, <2>1, Zenon
    <2>3. IsPlan(plan) /\ plan.now = campo /\ plan.todo = call[r].read.todo
      BY <1>1, <1>10, <2>1, PlanNow DEF Updating, On, At
    <2> HIDE <2>1
    <2>4. /\ label \in {"setValor", "addValor"}
          /\ label = "addValor" => \A v \in item_valores : v.item = i => v.campo # campo.id
      BY <1>10 DEF HasValor, ValoresOf
    <2>5. ASSUME Works(r), GoesTo(r, label), call'[r].read = plan
          PROVE  Updating(r, call[r])'
      <3>1. Born(i)
        BY <1>1, <1>2, <1>10 DEF Updating, On, At
      <3>2. call'[r].op = "updateItem" /\ call'[r].pc = label /\ call'[r].id = i
        BY <1>1, <1>2, <2>5 DEF GoesTo, GoesAs
      <3>3. \A d \in plan.todo : Snapshot(d)' /\ \A p \in itens' : p.id = i => p.colecao = d.colecao
        BY <1>1, <1>2, <1>3, <1>10, <2>3, <2>5, <3>2 DEF RowsUntouched, Updating, On, At
      <3>4. r \in alone => \A v \in item_valores : v.item = i /\ Typed(v) =>
                                v.valor = r \/ \E d \in plan.todo : d.id = v.campo
        BY <1>1, <1>2, <1>10, <2>3 DEF Updating, On, At
      <3> QED
        BY <1>4, <1>5, <1>6, <1>10, <2>3, <2>4, <2>5, <3>1, <3>2, <3>3, <3>4 DEF Updating
    <2> QED
      BY <1>1, <2>2, <2>4, <2>5, ColecoesGoes
  <1>11. CASE /\ On(r, "updateItem", "valores") /\ call[r].read.todo = {}
              /\ Goto(r, "touch")
    <2>1. ASSUME Works(r), GoesTo(r, "touch")
          PROVE  Updating(r, call[r])'
      <3>1. Born(i) /\ (r \in alone => \A v \in item_valores : v.item = i /\ Typed(v) => v.valor = r)
        BY <1>1, <1>2, <1>11 DEF Updating, On, At
      <3> QED
        BY <1>1, <1>2, <1>4, <1>5, <1>6, <2>1, <3>1 DEF Updating, GoesTo, GoesAs
    <2> QED
      BY <1>1, <1>11, <2>1, ColecoesGoes
  <1>12. CASE On(r, "updateItem", "touch") /\ Goto(r, "reread")
    <2>1. ASSUME Works(r), GoesTo(r, "reread")
          PROVE  Updating(r, call[r])'
      <3>1. Born(i) /\ (r \in alone => \A v \in item_valores : v.item = i /\ Typed(v) => v.valor = r)
        BY <1>1, <1>2, <1>12 DEF Updating, On, At
      <3> QED
        BY <1>1, <1>2, <1>4, <1>5, <1>6, <2>1, <3>1 DEF Updating, GoesTo, GoesAs
    <2> QED
      BY <1>1, <1>12, <2>1, ColecoesGoes
  <1>13. handleError("Error") = 500
    BY DEF handleError
  <1> QED
    BY <1>2, <1>7, <1>8, <1>9, <1>10, <1>11, <1>12, <1>13 DEF UpdateItemHandler, Permit, On, At

(* A value that an update writes, if its campo is still there, is typed as *)
(* the campo was read.                                                     *)
LEMMA TypedAsRead ==
  ASSUME RowsOK, NEW v \in item_valores, Typed(v), NEW d, Snapshot(d), d.id = v.campo
  PROVE  d.tipo = "typed"
  <1>1. PICK c \in campos : c.id = v.campo
    BY DEF RowsOK, Referred
  <1>2. c = d /\ c.tipo \in Tipos
    BY <1>1 DEF Snapshot, RowsOK
  <1> QED
    BY <1>1, <1>2 DEF Typed, Tipos

(* One campo less to write.                                                *)
LEMMA UpdatingOn ==
  ASSUME BaseInv, ColecoesInv, area = "colecoes", NEW r \in Requests, call[r].op = "updateItem",
         call[r].pc \in {"setValor", "addValor"}, Works(r), GoesTo(r, "valores"),
         NEW plan, IsPlan(plan), plan.todo = call[r].read.todo \ {call[r].read.now},
         call'[r].read = plan, Onward(r), Writes(r), UNCHANGED <<campos, itens>>,
         r \in alone => \A v \in item_valores' : v.item = call[r].id /\ Typed(v) =>
            v.valor = r \/ \E d \in plan.todo : d.id = v.campo
  PROVE  Updating(r, call[r])' /\ ColecaoCall(r, call[r])'
  <1>1. Updating(r, call[r]) /\ Moves(r) /\ alone' = alone
    BY DEF ColecoesInv, ColecaoCall, Works
  <1>2. call'[r].op = "updateItem" /\ call'[r].pc = "valores" /\ call'[r].id = call[r].id
    BY DEF GoesTo, GoesAs
  <1>3. Born(call[r].id)'
    <2>1. PICK i : i = call[r].id
      OBVIOUS
    <2>2. Born(i)
      BY <1>1, <2>1 DEF Updating
    <2>3. Born(i)'
      BY <1>1, <2>2, StandingOn
    <2> QED
      BY <1>2, <2>1, <2>3
  <1>4. \A d \in plan.todo :
           /\ Snapshot(d)'
           /\ \A p \in itens' : p.id = call[r].id => p.colecao = d.colecao
    BY <1>1, SnapshotsStay DEF Updating
  <1>5. \A v : Typed(v)' <=> Typed(v)
    BY DEF Typed
  <1>6. Updating(r, call[r])'
    BY <1>1, <1>2, <1>3, <1>4, <1>5 DEF Updating
  <1> QED
    BY <1>2, <1>6 DEF ColecaoCall

LEMMA UpdateSets ==
  ASSUME BaseInv, ColecoesInv, area' = area, area = "colecoes", NEW r \in Requests,
         On(r, "updateItem", "setValor"), SetValor(r, call[r].id, call[r].read.now),
         UNCHANGED <<colecoes, campos, itens, saved, due>>
  PROVE  Moves(r) /\ ColecoesInv'
  <1>1. /\ r \in InFlight /\ call[r].op = "updateItem" /\ call[r].pc = "setValor"
        /\ Updating(r, call[r]) /\ RowsOK /\ HandlersOK /\ Solo
    BY DEF On, At, InFlight, ColecoesInv, ColecaoCall, BaseInv
  <1>2. PICK now : now = call[r].read.now
    OBVIOUS
  <1>3. PICK plan : plan = [call[r].read EXCEPT !.todo = @ \ {now}, !.now = Nobody]
    OBVIOUS
  <1>4. Keep(r, plan, "valores")
    BY <1>2, <1>3, Zenon DEF SetValor
  <1>5. IsPlan(plan) /\ plan.todo = call[r].read.todo \ {now}
    <2>1. IsPlan(call[r].read)
      BY <1>1 DEF Updating
    <2> QED
      BY <1>3, <2>1, PlanLess, Zenon
  <1> HIDE <1>3
  <1>6. /\ Works(r) /\ Moves(r) /\ GoesTo(r, "valores") /\ call'[r].read = plan /\ answer' = answer
        /\ call'[r].op = "updateItem" /\ call'[r].pc = "valores" /\ call'[r].id = call[r].id
    BY <1>1, <1>4, KeepWorks DEF Works, GoesTo, GoesAs
  <1>7. PICK i : i = call[r].id
    OBVIOUS
  <1>8. Saving(r, i) /\ Saving(r, i)' /\ \A k : Saving(r, k) => k = i
    BY <1>1, <1>6, <1>7 DEF Saving
  <1>9. item_valores' = {IF v.item = i /\ v.campo = now.id /\ now.tipo = "typed"
                         THEN [v EXCEPT !.valor = r] ELSE v : v \in item_valores}
    BY <1>2, <1>7, Zenon DEF SetValor
  <1>10. ASSUME \A v \in item_valores' : IsValor(v) /\ \E u \in item_valores :
                   /\ u.id = v.id /\ u.item = v.item /\ u.campo = v.campo
                   /\ u.valor = v.valor \/ v.valor = r
                   /\ u.item = i /\ u.campo = now.id /\ now.tipo = "typed" => v.valor = r
         PROVE  ColecaoCall(r, call[r])'
    <2>1. Onward(r) /\ Writes(r)
      BY <1>1, <1>6, <1>10 DEF Onward, Writes, Kin
    <2>2. ASSUME r \in alone, NEW v \in item_valores', v.item = i, Typed(v), v.valor # r
          PROVE  \E d \in plan.todo : d.id = v.campo
      <3>1. PICK u \in item_valores :
                   /\ u.id = v.id /\ u.item = v.item /\ u.campo = v.campo
                   /\ u.valor = v.valor \/ v.valor = r
                   /\ u.item = i /\ u.campo = now.id /\ now.tipo = "typed" => v.valor = r
        BY <1>10, <2>2
      <3>2. Typed(u) /\ u.valor # r
        BY <2>2, <3>1 DEF Typed
      <3>3. PICK d \in call[r].read.todo : d.id = u.campo
        BY <1>1, <1>7, <2>2, <3>1, <3>2 DEF Updating
      <3>4. d.tipo = "typed"
        BY <1>1, <3>2, <3>3, TypedAsRead DEF Updating
      <3>5. d # now
        BY <2>2, <3>1, <3>3, <3>4
      <3> QED
        BY <1>5, <3>1, <3>3, <3>5
    <2> QED
      BY <1>1, <1>2, <1>5, <1>6, <1>7, <2>1, <2>2, UpdatingOn
  <1> QED
    BY <1>1, <1>6, <1>8, <1>9, <1>10, ValoresSet

LEMMA UpdateAdds ==
  ASSUME BaseInv, ColecoesInv, area' = area, area = "colecoes", NEW r \in Requests,
         On(r, "updateItem", "addValor"), AddValor(r, call[r].id, call[r].read.now),
         UNCHANGED <<colecoes, campos, itens, saved, due>>
  PROVE  Moves(r) /\ ColecoesInv'
  <1>1. /\ r \in InFlight /\ call[r].op = "updateItem" /\ call[r].pc = "addValor"
        /\ Updating(r, call[r]) /\ RowsOK /\ HandlersOK /\ Solo
    BY DEF On, At, InFlight, ColecoesInv, ColecaoCall, BaseInv
  <1>2. PICK now : now = call[r].read.now
    OBVIOUS
  <1>3. PICK plan : plan = [call[r].read EXCEPT !.todo = @ \ {now}, !.now = Nobody]
    OBVIOUS
  <1>4. PICK i : i = call[r].id
    OBVIOUS
  <1>5. CASE Reply(r, handleError("Error")) /\ UNCHANGED item_valores
    <2>1. handleError("Error") = 500
      BY DEF handleError
    <2> QED
      BY <1>1, <1>5, <2>1, ColecoesEnds DEF RowsUntouched
  <1>6. IsPlan(plan) /\ plan.todo = call[r].read.todo \ {now}
    <2>1. IsPlan(call[r].read)
      BY <1>1 DEF Updating
    <2> QED
      BY <1>3, <2>1, PlanLess, Zenon
  <1>7. CASE now.tipo # "typed" /\ Keep(r, plan, "valores") /\ UNCHANGED item_valores
    <2> HIDE <1>3
    <2>1. ASSUME Works(r), GoesTo(r, "valores"), call'[r].read = plan
          PROVE  Updating(r, call[r])'
      <3>1. Onward(r) /\ Writes(r)
        BY <1>1, <1>7, <2>1 DEF Onward, Writes, Kin, RowsOK, GoesTo, GoesAs
      <3>2. ASSUME r \in alone, NEW v \in item_valores, v.item = i, Typed(v), v.valor # r
            PROVE  \E d \in plan.todo : d.id = v.campo
        <4>1. PICK d \in call[r].read.todo : d.id = v.campo
          BY <1>1, <1>4, <3>2 DEF Updating
        <4>2. d.tipo = "typed"
          BY <1>1, <3>2, <4>1, TypedAsRead DEF Updating
        <4> QED
          BY <1>6, <1>7, <4>1, <4>2
      <3> QED
        BY <1>1, <1>2, <1>4, <1>6, <1>7, <2>1, <3>1, <3>2, UpdatingOn
    <2> QED
      BY <1>1, <1>7, <2>1, ColecoesGoes DEF RowsUntouched
  <1>8. CASE /\ now \in campos /\ i \in IdsOf(itens) /\ Keep(r, plan, "valores")
             /\ item_valores' = item_valores \cup {NewValor(r, i, now)}
    <2> HIDE <1>3
    <2>1. /\ Works(r) /\ Moves(r) /\ GoesTo(r, "valores") /\ call'[r].read = plan /\ answer' = answer
          /\ call'[r].op = "updateItem" /\ call'[r].pc = "valores" /\ call'[r].id = call[r].id
      BY <1>1, <1>8, KeepWorks DEF Works, GoesTo, GoesAs
    <2>2. Saving(r, i) /\ Saving(r, i)'
      BY <1>1, <1>4, <2>1 DEF Saving
    <2>3. /\ \A p \in itens : p.id = i => p.colecao = now.colecao
          /\ \A w \in item_valores : w.item = i /\ w.campo = now.id => {r, w.id[1]} \subseteq Overlapped
      BY <1>1, <1>2, <1>4 DEF Updating
    <2>4. PICK n : n = NewValor(r, i, now)
      OBVIOUS
    <2>5. n.valor = r /\ item_valores' = item_valores \cup {n} /\ n.id[1] = r /\ IsValor(n)
      <3>1. PICK S : S = {<<r, now.id>>, i, now.id, r}
        OBVIOUS
      <3>2. n \in [id : S, item : S, campo : S, valor : S] /\ n.id = <<r, now.id>> /\ n.valor = r
        BY <2>4, <3>1 DEF NewValor
      <3> QED
        BY <1>8, <2>4, <3>2 DEF IsValor
    <2>6. ColecaoCall(r, call[r])'
      <3>1. Onward(r) /\ Writes(r)
        BY <1>1, <2>1, <2>5 DEF Onward, Writes, Kin, RowsOK
      <3>2. ASSUME r \in alone, NEW v \in item_valores', v.item = i, Typed(v), v.valor # r
            PROVE  \E d \in plan.todo : d.id = v.campo
        <4>1. v \in item_valores
          BY <2>5, <3>2
        <4>2. PICK d \in call[r].read.todo : d.id = v.campo
          BY <1>1, <1>4, <3>2, <4>1 DEF Updating
        <4>3. d # now
          BY <2>3, <3>2, <4>1, <4>2 DEF Overlapped
        <4> QED
          BY <1>6, <4>2, <4>3
      <3> QED
        BY <1>1, <1>2, <1>4, <1>6, <2>1, <3>1, <3>2, UpdatingOn
    <2> QED
      BY <1>1, <1>8, <2>1, <2>2, <2>3, <2>6, ValorAdded
  <1> QED
    BY <1>2, <1>3, <1>4, <1>5, <1>7, <1>8, Zenon DEF AddValor

LEMMA UpdateItemSteps ==
  ASSUME BaseInv, ColecoesInv, area' = area, area = "colecoes", NEW r \in Requests,
         UpdateItemHandler(r)
  PROVE  Moves(r) /\ ColecoesInv'
  <1>1. r \in InFlight /\ call[r].op = "updateItem" /\ Updating(r, call[r]) /\ RowsOK
    BY DEF UpdateItemHandler, Permit, On, At, InFlight, ColecoesInv, ColecaoCall
  <1>2. handleError("Error") = 500
    BY DEF handleError
  <1>3. CASE On(r, "updateItem", "setValor")
    BY <1>3, UpdateSets DEF UpdateItemHandler, Permit, On, At
  <1>4. CASE On(r, "updateItem", "addValor")
    BY <1>4, UpdateAdds DEF UpdateItemHandler, Permit, On, At
  <1>5. CASE /\ On(r, "updateItem", "reread") /\ call[r].id \in IdsOf(itens) /\ Reply(r, 200)
             /\ saved' = [saved EXCEPT ![call[r].id] = r]
             /\ UNCHANGED <<colecoes, campos, itens, item_valores, due>>
    <2>1. PICK i : i = call[r].id
      OBVIOUS
    <2>2. i \in Ids /\ Saving(r, i)
      BY <1>1, <1>5, <2>1 DEF RowsOK, IdsOf, Saving, On, At
    <2>3. r \in alone => \A v \in item_valores : v.item = i /\ Typed(v) => v.valor = r
      BY <1>1, <1>5, <2>1 DEF Updating, On, At
    <2>4. saved' = [saved EXCEPT ![i] = r]
      BY <1>5, <2>1
    <2> HIDE <2>1
    <2> QED
      BY <1>1, <1>5, <2>2, <2>3, <2>4, ItemSaved
  <1>6. ASSUME NEW status, Reply(r, status), RowsUntouched, call[r].pc # "check" => status = 500
        PROVE  Moves(r) /\ ColecoesInv'
    BY <1>1, <1>6, ColecoesEnds
  <1>7. CASE On(r, "updateItem", "reread") /\ ~ On(r, "updateItem", "addValor")
    BY <1>2, <1>5, <1>6, <1>7 DEF UpdateItemHandler, Permit, On, At, ColecaoReads, colecao_rows,
           RowsUntouched
  <1>8. CASE call[r].pc \notin {"setValor", "addValor", "reread"}
    <2>1. RowsUntouched
      BY <1>8 DEF UpdateItemHandler, Permit, On, At, ColecaoReads, colecao_rows, RowsUntouched
    <2> QED
      BY <1>6, <1>8, <2>1, UpdateGoes
  <1> QED
    BY <1>1, <1>3, <1>4, <1>7, <1>8 DEF On, At

LEMMA ColecoesSteps ==
  ASSUME BaseInv, ColecoesInv, area' = area, NEW r \in Requests, InColecoes(r)
  PROVE  Moves(r) /\ ColecoesInv'
  <1>1. area = "colecoes" /\ (ColecoesArrival(r) \/ ColecoesStep(r))
    BY DEF InColecoes
  <1>2. CASE ColecoesArrival(r)
    BY <1>1, <1>2, ColecoesArrives
  <1>3. CASE ColecoesStep(r)
    BY <1>1, <1>3, ColecoesQueries, CamposCommands, CreateItemSteps, UpdateItemSteps,
       DeleteItemSteps DEF ColecoesStep
  <1> QED
    BY <1>1, <1>2, <1>3

(* A statement of one of its requests fails.                               *)
LEMMA ColecoesFails ==
  ASSUME BaseInv, ColecoesInv, area' = area, area = "colecoes", NEW r \in Requests,
         Fail(r) \/ Rejected(r)
  PROVE  ColecoesInv'
  <1>1. CASE Fail(r)
    <2>1. r \in InFlight /\ RowsUntouched /\ FailWith(r, catch(call[r].op))
      BY <1>1 DEF Fail, InFlight, At, NoStatement, colecao_rows, RowsUntouched
    <2>2. call[r].op \in {"createItem", "updateItem", "deleteItem"} => catch(call[r].op) = 500
      BY DEF catch, handleError
    <2>3. PICK status : status = catch(call[r].op)
      BY Zenon
    <2>4. FailWith(r, status)
      BY <2>1, <2>3, Zenon
    <2> QED
      BY <2>1, <2>2, <2>3, <2>4, ColecoesEnds
  <1>2. CASE Rejected(r)
    BY <1>2, ColecoesArrives
  <1> QED
    BY <1>1, <1>2

-----------------------------------------------------------------------------
(* The areas together                                                      *)

ConteudoInv == BaseInv /\ ListasInv /\ ColecoesInv /\ HabitosInv /\ AgendaInv

(* What no step of another area does.                                      *)
LEMMA OtherAreas ==
  ASSUME area' = area
  PROVE  /\ UNCHANGED lista_rows /\ area # "listas" /\ ListasInv => ListasInv' /\ ListasStayDeleted
         /\ UNCHANGED colecao_rows /\ area # "colecoes" /\ ColecoesInv => ColecoesInv'
         /\ UNCHANGED agenda_rows /\ area # "agenda" => AgendaInv' /\ AgendaStaysDeleted
         /\ UNCHANGED caches /\ area # "habitos" /\ HabitosInv => HabitosInv'
  <1>1. UNCHANGED lista_rows /\ area # "listas" /\ ListasInv => ListasInv' /\ ListasStayDeleted
    BY DEF ListasInv, ListasOK, FieldsKept, ListasStayDeleted, lista_rows
  <1>2. UNCHANGED colecao_rows /\ area # "colecoes" /\ ColecoesInv => ColecoesInv'
    BY DEF ColecoesInv, ColecoesInit, colecao_rows
  <1>3. UNCHANGED agenda_rows /\ area # "agenda" => AgendaInv' /\ AgendaStaysDeleted
    BY AgendaQuiet DEF AgendaInv
  <1>4. UNCHANGED caches /\ area # "habitos" /\ HabitosInv => HabitosInv'
    BY DEF HabitosInv, caches
  <1> QED
    BY <1>1, <1>2, <1>3, <1>4

(* Listas are cached under another key than hábitos.                       *)
LEMMA OtherKey ==
  ASSUME HabitosInv, area' = area, NEW r, InListas(r)
  PROVE  HabitosInv'
  <1>1. area = "listas" /\ (ListasArrival(r) \/ ListasStep(r))
    BY DEF InListas
  <1>2. listasByBloco # habitosByBloco
    BY DEF listasByBloco, habitosByBloco
  <1>3. CASE UNCHANGED caches
    BY <1>1, <1>3, OtherAreas
  <1>4. ASSUME ~ UNCHANGED caches
        PROVE  GetListasByBlocoHandler(r)
    BY <1>1, <1>4 DEF ListasArrival, getListaById, listasByBlocoList, createLista, updateLista,
           deleteLista, getItemsByLista, createItemLista, updateItemLista, toggleItem,
           deleteItemLista, getCategoriasByLista, createCategoria, deleteCategoria, ArriveAt,
           ListaReads, ListasStep, CreateListaHandler, UpdateListaHandler, DeleteListaHandler,
           CreateItemListaHandler, UpdateItemListaHandler, ToggleItemCheckedHandler,
           DeleteItemListaHandler, CreateCategoriaHandler, DeleteCategoriaHandler,
           GetListaByIdHandler, GetItemsByListaHandler, GetCategoriasByListaHandler
  <1>5. CASE GetListasByBlocoHandler(r)
    <2>1. \A e \in cache' : e \in cache \/ e.key = listasByBloco
      BY <1>5 DEF GetListasByBlocoHandler, GetCache, SetCache, RedisError, caches
    <2> QED
      BY <1>1, <1>2, <2>1 DEF HabitosInv
  <1> QED
    BY <1>3, <1>4, <1>5

(* An entry of the cache expires, midnight falls, or nothing happens.      *)
LEMMA HabitosStill ==
  ASSUME BaseInv, HabitosInv, UNCHANGED <<handlers, habitos, registros, faults, area>>,
         cache' \subseteq cache,
         UNCHANGED clock \/ before' = {e.reader : e \in cache} \cup {r \in Requests : At(r, "each") \/ At(r, "hoje")}
  PROVE  HabitosInv'
  <1>1. CASE area = "habitos"
    <2>1. /\ Counted /\ Counted' /\ CountsOn /\ InFlight' = InFlight /\ Overlapped' = Overlapped
          /\ UNCHANGED <<call, failures, alone>>
      BY <1>1 DEF HabitosInv, Counted, CountsOn, handlers, InFlight, Overlapped, At
    <2>3. ListIsCurrent'
      <3>1. ASSUME NEW e \in cache', e.key = habitosByBloco
            PROVE  \/ Current(e)'
                   \/ \E r \in InFlight' : At(r, "uncache")'
                   \/ faults' > 0
                   \/ e.reader \in Overlapped'
        <4>1. \/ Current(e)
              \/ \E r \in InFlight : At(r, "uncache")
              \/ faults > 0
              \/ e.reader \in Overlapped
          BY <1>1, <3>1 DEF HabitosInv, ListIsCurrent, Current
        <4>2. UNCHANGED clock \/ e.reader \in before'
          BY <3>1
        <4>3. Current(e) => Current(e)'
          BY <2>1, <4>2, EntrySame
        <4>4. \A r : At(r, "uncache")' <=> At(r, "uncache")
          BY <2>1 DEF At
        <4> QED
          BY <2>1, <4>1, <4>3, <4>4
      <3> QED
        BY <3>1 DEF ListIsCurrent, Current
    <2>4. ASSUME NEW r \in alone'
          PROVE  Reading(r, call[r])'
      <3>1. call'[r] = call[r] /\ Reading(r, call[r]) /\ r \in Requests
        BY <1>1, <2>1, <2>4 DEF HabitosInv, BaseInv, HandlersOK
      <3>2. CASE ~ (call[r].op = "listHabitos" /\ call[r].pc \in {"each", "hoje"})
        BY <3>1, <3>2 DEF Reading
      <3>3. CASE call[r].op = "listHabitos" /\ call[r].pc \in {"each", "hoje"}
        <4>1. PICK todo, rows, now :
                 /\ call[r].read = [todo |-> todo, rows |-> rows, now |-> now]
                 /\ Parts(r, call[r].pc, todo, rows, now)
          BY <3>1, <3>3 DEF Reading
        <4>2. PICK pc : pc = call[r].pc
          OBVIOUS
        <4>3. UNCHANGED clock \/ r \in before'
          BY <3>1, <3>3 DEF At
        <4>4. Parts(r, pc, todo, rows, now)'
          BY <2>1, <4>1, <4>2, <4>3, PartsSame
        <4> QED
          BY <3>1, <4>1, <4>2, <4>4 DEF Reading
      <3> QED
        BY <3>2, <3>3
    <2> QED
      BY <1>1, <2>1, <2>3, <2>4 DEF HabitosInv
  <1>2. CASE area # "habitos"
    BY <1>2 DEF HabitosInv
  <1> QED
    BY <1>1, <1>2

LEMMA ColecoesStill ==
  ASSUME ColecoesInv, UNCHANGED <<handlers, colecao_rows, area>>
  PROVE  ColecoesInv'
  <1>1. CASE area # "colecoes"
    BY <1>1 DEF ColecoesInv, ColecoesInit, colecao_rows
  <1>2. CASE area = "colecoes"
    <2>1. /\ UNCHANGED <<call, answer, alone, campos, itens, item_valores, saved, due>>
          /\ InFlight' = InFlight /\ Overlapped' = Overlapped
      BY DEF handlers, colecao_rows, InFlight, Overlapped, At
    <2>2. /\ \A x : (Made(x)' <=> Made(x)) /\ (Born(x)' <=> Born(x)) /\ (Removed(x)' <=> Removed(x))
          /\ \A d : Snapshot(d)' <=> Snapshot(d)
          /\ \A v : (Typed(v)' <=> Typed(v)) /\ (Referred(v)' <=> Referred(v))
          /\ \A q, i : Saving(q, i)' <=> Saving(q, i)
          /\ \A i, c : HasValor(i, c)' <=> HasValor(i, c)
          /\ FailedSave' <=> FailedSave
      BY <2>1 DEF Made, Born, Removed, Snapshot, Typed, Referred, Saving, HasValor, ValoresOf,
             FailedSave
    <2>3. RowsOK' /\ OneValuePerCampo' /\ WritersOK'
      BY <1>2, <2>1, <2>2 DEF ColecoesInv, RowsOK, OneValuePerCampo, WritersOK
    <2>4. Whole' /\ Saves'
      BY <1>2, <2>1, <2>2 DEF ColecoesInv, Whole, Saves
    <2>5. ASSUME NEW r \in Requests
          PROVE  ColecaoCall(r, call[r])'
      BY <1>2, <2>1, <2>2 DEF ColecoesInv, ColecaoCall, Creating, Updating
    <2> QED
      BY <1>2, <2>3, <2>4, <2>5 DEF ColecoesInv
  <1> QED
    BY <1>1, <1>2

LEMMA NothingHappens ==
  ASSUME ConteudoInv, UNCHANGED <<handlers, lista_rows, colecao_rows, habito_rows, agenda_rows, faults, area>>,
         cache' \subseteq cache,
         UNCHANGED clock \/ before' = {e.reader : e \in cache} \cup {r \in Requests : At(r, "each") \/ At(r, "hoje")}
  PROVE  ConteudoInv' /\ ListasStayDeleted /\ AgendaStaysDeleted
  <1>1. BaseInv' /\ InFlight' = InFlight /\ Overlapped' = Overlapped
    BY DEF ConteudoInv, BaseInv, HandlersOK, Solo, handlers, InFlight, Overlapped, At
  <1>2. ListasInv' /\ ListasStayDeleted
    BY DEF ConteudoInv, ListasInv, ListasOK, FieldsKept, ListaCall, LiveListas, ListasStayDeleted,
           handlers, lista_rows
  <1>3. AgendaInv' /\ AgendaStaysDeleted
    BY AgendaQuiet DEF ConteudoInv, AgendaInv, AgendaCall, handlers, agenda_rows
  <1>4. HabitosInv'
    BY HabitosStill DEF ConteudoInv, habito_rows
  <1>5. ColecoesInv'
    BY ColecoesStill DEF ConteudoInv
  <1> QED
    BY <1>1, <1>2, <1>3, <1>4, <1>5 DEF ConteudoInv

LEMMA ConteudoInit == Init => ConteudoInv
  <1> SUFFICES ASSUME Init PROVE ConteudoInv
    OBVIOUS
  <1>1. HandlersOK /\ alone = {}
    BY InitHandlersOK DEF Init, HandlersInit
  <1>2. Solo
    BY <1>1 DEF Solo
  <1> QED
    BY <1>1, <1>2, ListasInit_, ColecoesInit_, HabitosInit_, AgendaInit_ DEF ConteudoInv, BaseInv

(* A failed statement, or a request the middleware refuses.                *)
LEMMA ConteudoEnds ==
  ASSUME ConteudoInv, area' = area, UNCHANGED clock, NEW r \in Requests, Fail(r) \/ Rejected(r)
  PROVE  ConteudoInv' /\ ListasStayDeleted /\ AgendaStaysDeleted
  <1>1. Moves(r) /\ call'[r].pc = "done" /\ BaseInv'
    BY EndMoves, MovesBase DEF ConteudoInv
  <1>2. /\ UNCHANGED <<caches, lista_rows, colecao_rows, agenda_rows>>
        /\ UNCHANGED <<habitos, registros>>
    BY DEF Fail, Rejected, habito_rows
  <1>3. ListasInv' /\ ListasStayDeleted
    BY <1>1, <1>2, ListaElsewhere, ListasQuiet DEF ConteudoInv, lista_rows, ListaRowsStay
  <1>4. AgendaInv' /\ AgendaStaysDeleted
    BY <1>1, <1>2, AgendaElsewhere, AgendaOthers, AgendaQuiet DEF ConteudoInv, agenda_rows
  <1>5. ColecoesInv'
    BY <1>2, ColecoesFails, OtherAreas DEF ConteudoInv
  <1>6. HabitosInv'
    <2>1. CASE area # "habitos"
      BY <1>2, <2>1, OtherAreas DEF ConteudoInv
    <2>2. CASE area = "habitos" /\ Fail(r)
      <3>1. r \in InFlight /\ call[r].pc # "uncache" /\ Elsewhere(r)
        BY <2>2 DEF Fail, NoStatement, InFlight, At, Elsewhere
      <3> QED
        BY <1>2, <2>2, <3>1, HabitosPasses DEF ConteudoInv
    <2>3. CASE area = "habitos" /\ Rejected(r)
      <3>1. call[r].pc = "idle" /\ failures' = failures
        BY <2>3 DEF Rejected, Unauthenticated, Refuse, At
      <3>2. CountsOn /\ Counted /\ ListIsCurrent /\ cache' = cache
        BY <1>2, <2>3, <3>1 DEF CountsOn, ConteudoInv, HabitosInv, Counted, caches
      <3>3. ListIsCurrent'
        BY <1>1, <1>2, <3>1, <3>2, StaysCurrent
      <3>4. Reading(r, call[r])'
        BY <1>1 DEF Reading
      <3> QED
        BY <1>1, <1>2, <2>3, <3>2, <3>3, <3>4, HabitosOthers DEF ConteudoInv
    <2> QED
      BY <2>1, <2>2, <2>3
  <1> QED
    BY <1>1, <1>3, <1>4, <1>5, <1>6 DEF ConteudoInv

LEMMA ConteudoNext ==
  ASSUME ConteudoInv, [Next]_vars
  PROVE  ConteudoInv' /\ ListasStayDeleted /\ AgendaStaysDeleted
  <1> USE DEF ConteudoInv
  <1>1. ASSUME UNCHANGED <<clock, area>>, NEW r \in Requests, InListas(r)
        PROVE  ConteudoInv' /\ ListasStayDeleted /\ AgendaStaysDeleted
    <2>1. area = "listas" /\ UNCHANGED <<colecao_rows, agenda_rows>>
      BY <1>1 DEF InListas
    <2>2. Moves(r) /\ BaseInv' /\ ListasInv' /\ ListasStayDeleted
      BY <1>1, ListasSteps, MovesBase
    <2>3. ColecoesInv' /\ HabitosInv' /\ AgendaInv' /\ AgendaStaysDeleted
      BY <1>1, <2>1, OtherAreas, OtherKey
    <2> QED
      BY <2>2, <2>3
  <1>2. ASSUME UNCHANGED <<clock, area>>, NEW r \in Requests, InColecoes(r)
        PROVE  ConteudoInv' /\ ListasStayDeleted /\ AgendaStaysDeleted
    <2>1. area = "colecoes" /\ UNCHANGED <<caches, lista_rows, agenda_rows>>
      BY <1>2 DEF InColecoes
    <2>2. Moves(r) /\ BaseInv' /\ ColecoesInv'
      BY <1>2, ColecoesSteps, MovesBase
    <2>3. ListasInv' /\ ListasStayDeleted /\ HabitosInv' /\ AgendaInv' /\ AgendaStaysDeleted
      BY <1>2, <2>1, OtherAreas
    <2> QED
      BY <2>2, <2>3
  <1>3. ASSUME UNCHANGED <<clock, area>>, NEW r \in Requests, InHabitos(r)
        PROVE  ConteudoInv' /\ ListasStayDeleted /\ AgendaStaysDeleted
    <2>1. area = "habitos" /\ UNCHANGED <<lista_rows, colecao_rows, agenda_rows>>
      BY <1>3 DEF InHabitos
    <2>2. Moves(r) /\ BaseInv' /\ HabitosInv'
      BY <1>3, HabitosSteps, MovesBase
    <2>3. ListasInv' /\ ListasStayDeleted /\ ColecoesInv' /\ AgendaInv' /\ AgendaStaysDeleted
      BY <1>3, <2>1, OtherAreas
    <2> QED
      BY <2>2, <2>3
  <1>4. ASSUME UNCHANGED <<clock, area>>, NEW r \in Requests, InAgenda(r)
        PROVE  ConteudoInv' /\ ListasStayDeleted /\ AgendaStaysDeleted
    <2>1. area = "agenda" /\ UNCHANGED <<caches, lista_rows, colecao_rows>>
      BY <1>4 DEF InAgenda
    <2>2. Moves(r) /\ BaseInv' /\ AgendaInv' /\ AgendaStaysDeleted
      BY <1>4, AgendaSteps, MovesBase
    <2>3. ListasInv' /\ ListasStayDeleted /\ ColecoesInv' /\ HabitosInv'
      BY <1>4, <2>1, OtherAreas
    <2> QED
      BY <2>2, <2>3
  <1>5. ASSUME UNCHANGED <<clock, area>>, NEW r \in Requests, Rejected(r) \/ Fail(r)
        PROVE  ConteudoInv' /\ ListasStayDeleted /\ AgendaStaysDeleted
    BY <1>5, ConteudoEnds
  <1>6. CASE UNCHANGED <<clock, area>> /\ Expiry
    <2>1. /\ UNCHANGED <<handlers, lista_rows, colecao_rows, habito_rows, agenda_rows, faults, area>>
          /\ cache' \subseteq cache
      BY <1>6 DEF Expiry, Expire
    <2> QED
      BY <1>6, <2>1, NothingHappens
  <1>7. CASE Midnight /\ UNCHANGED <<lista_rows, colecao_rows, agenda_rows, area>>
    <2>1. /\ UNCHANGED <<handlers, lista_rows, colecao_rows, habito_rows, agenda_rows, faults, area>>
          /\ cache' \subseteq cache /\ before' = {e.reader : e \in cache} \cup {r \in Requests : At(r, "each") \/ At(r, "hoje")}
      BY <1>7 DEF Midnight, caches
    <2> QED
      BY <2>1, NothingHappens
  <1>8. CASE UNCHANGED vars
    <2>1. /\ UNCHANGED <<handlers, lista_rows, colecao_rows, habito_rows, agenda_rows, faults, area>>
          /\ cache' \subseteq cache /\ UNCHANGED clock
      BY <1>8 DEF vars, caches
    <2> QED
      BY <2>1, NothingHappens
  <1> QED
    BY <1>1, <1>2, <1>3, <1>4, <1>5, <1>6, <1>7, <1>8 DEF Next

(* The five parts are inductive together: of the handlers, and of the rows *)
(* of each area with what its requests have read of them.                  *)
THEOREM ConteudoInvariant == Spec => []ConteudoInv
  <1>1. ConteudoInv /\ [Next]_vars => ConteudoInv'
    BY ConteudoNext
  <1> QED
    BY <1>1, ConteudoInit, PTL DEF Spec

-----------------------------------------------------------------------------
(* The name and the mark of an item of a lista are each what the last      *)
(* request that set that column asked for, whatever updates and toggles    *)
(* interleave: an update writes only the columns its body has, and a       *)
(* toggle only the mark (UpdateItemListaHandler, ToggleItemCheckedHandler).*)
THEOREM FieldsAreKept == Spec => []FieldsKept
  <1>1. ConteudoInv => FieldsKept
    BY DEF ConteudoInv, ListasInv, ListasOK
  <1> QED
    BY <1>1, ConteudoInvariant, PTL

(* A lista, an item of one, an evento or a treino that was deleted is      *)
(* written again, joined by a new row, or back, only by a request that     *)
(* overlapped another: one that runs alone writes what it was permitted.   *)
THEOREM DeletedStaysSo == Spec => AfterDeletion
  <1>1. ConteudoInv /\ [Next]_vars => ListasStayDeleted /\ AgendaStaysDeleted
    BY ConteudoNext
  <1>2. ListasStayDeleted /\ AgendaStaysDeleted =>
           /\ \A l \in RowIds : listas[l].deleted /\ listas'[l] # listas[l] =>
                \E r \in Overlapped : call[r].op \in {"updateLista", "deleteLista"} /\ call[r].id = l
           /\ \A i \in RowIds : itens_lista[i].deleted /\ itens_lista'[i] # itens_lista[i] =>
                \E r \in Overlapped : call[r].op \in {"updateItemLista", "toggleItem"} /\ call[r].id = i
           /\ \A i \in RowIds : itens_lista'[i].exists /\ ~ itens_lista[i].exists =>
                i \in Overlapped \/ itens_lista'[i].lista \in LiveListas
           /\ \A e \in eventos' \ eventos :
                \E r \in Requests : /\ call[r].id = e
                                   /\ \/ call[r].op = "createEvento"
                                      \/ call[r].op = "updateEvento" /\ r \in Overlapped
           /\ \A x \in exercicios' \ exercicios :
                x.id \in Overlapped \/ treinos[x.template] = "live"
    BY DEF ListasStayDeleted, AgendaStaysDeleted
  <1> QED
    BY <1>1, <1>2, ConteudoInvariant, PTL DEF Spec, AfterDeletion

(* An entry of the cached list of hábitos has, line by line, what the      *)
(* queries say of a hábito that is there, and but after a query for one of *)
(* them failed it has every hábito; the day's mark may be of the day       *)
(* before, where the reader had come by midnight: isCompletoHoje asks for  *)
(* the day, and its answer is cached.  Excepted are entries while a        *)
(* command that wrote has not come to its deleteCache, after an error of   *)
(* Redis, and of a reader that overlapped another request                  *)
(* (GetHabitosByBlocoHandler and the four commands).                       *)
THEOREM CachedListIsCurrent == Spec => []ListIsCurrent
  <1>1. ConteudoInv => ListIsCurrent
    BY DEF ConteudoInv, HabitosInv, ListIsCurrent
  <1> QED
    BY <1>1, ConteudoInvariant, PTL

(* What holds of the rows there are to begin with.                         *)
LEMMA ColecoesInitially ==
  ASSUME ColecoesInit
  PROVE  OneValuePerCampo /\ ItemsAreWhole /\ ItemIsOneSave
  <1>1. /\ itens = {[id |-> Primeira, colecao |-> Primeira]}
        /\ campos = {[id |-> Primeira, colecao |-> Primeira, tipo |-> "typed"]}
        /\ item_valores = {[id |-> <<Primeira, Primeira>>, item |-> Primeira, campo |-> Primeira,
                            valor |-> Nobody]}
        /\ saved = [i \in Ids |-> Nobody] /\ Primeira \in Ids
    BY DEF ColecoesInit, Ids
  <1>2. \A v \in item_valores : v.item = Primeira /\ v.campo = Primeira /\ v.valor = Nobody
    BY <1>1
  <1>3. OneValuePerCampo
    BY <1>1 DEF OneValuePerCampo
  <1>4. ItemsAreWhole
    <2>1. \A i \in itens, c \in campos : i.id = Primeira /\ c.id = Primeira
      BY <1>1
    <2>2. \E v \in item_valores : v.item = Primeira /\ v.campo = Primeira
      BY <1>1, <1>2
    <2> QED
      BY <2>1, <2>2 DEF ItemsAreWhole, HasValor, ValoresOf
  <1>5. ItemIsOneSave
    BY <1>1, <1>2 DEF ItemIsOneSave
  <1> QED
    BY <1>3, <1>4, <1>5

(* An item has one value for a campo; two only of requests that overlapped *)
(* and both looked for one before either wrote: the SELECT and the INSERT  *)
(* of UpdateItemHandler are two statements, and no constraint of           *)
(* item_valores refuses the second row.                                    *)
THEOREM ValuesAreUnique == Spec => []OneValuePerCampo
  <1>1. ConteudoInv => OneValuePerCampo
    BY ColecoesInitially DEF ConteudoInv, ColecoesInv
  <1> QED
    BY <1>1, ConteudoInvariant, PTL

(* An item whose creation was answered 201 has a value for each campo its  *)
(* coleção had; unless a deletion of it is between its two statements, or  *)
(* failed there.                                                           *)
THEOREM CreatedWhole == Spec => []ItemsAreWhole
  <1>1. ASSUME ConteudoInv, area = "colecoes"
        PROVE  ItemsAreWhole
    <2>1. Whole /\ HandlersOK
      BY <1>1 DEF ConteudoInv, ColecoesInv, BaseInv
    <2>2. \A r \in Requests : call[r].pc = "valores" => answer[r] # 201
      BY <2>1 DEF HandlersOK, Pending
    <2>3. \A i : Removed(i) =>
             \E r \in Requests : call[r].op = "deleteItem" /\ (r \in InFlight \/ answer[r] = 500)
      BY DEF Removed, InFlight, At
    <2> QED
      BY <2>1, <2>2, <2>3 DEF Whole, ItemsAreWhole
  <1>2. ConteudoInv => ItemsAreWhole
    BY <1>1, ColecoesInitially DEF ConteudoInv, ColecoesInv
  <1> QED
    BY <1>2, ConteudoInvariant, PTL

(* The values of an item are all of the request that saved it last; one of *)
(* another is of a tipo no update writes, or the request overlapped, or a  *)
(* save is not over or failed between two of its statements.               *)
THEOREM SavesAreWhole == Spec => []ItemIsOneSave
  <1>1. ASSUME ConteudoInv, area = "colecoes"
        PROVE  ItemIsOneSave
    <2>1. Saves
      BY <1>1 DEF ConteudoInv, ColecoesInv
    <2>2. \A r, i : Saving(r, i) /\ r \in Requests =>
             call[r].op \in {"createItem", "updateItem"} /\ r \in InFlight
      BY DEF Saving, InFlight, At
    <2> QED
      BY <2>1, <2>2 DEF Saves, Typed, FailedSave, ItemIsOneSave
  <1>2. ConteudoInv => ItemIsOneSave
    BY <1>1, ColecoesInitially DEF ConteudoInv, ColecoesInv
  <1> QED
    BY <1>2, ConteudoInvariant, PTL

-----------------------------------------------------------------------------
(* Folds over finite sets                                                  *)

(* A claim that fails of a subset of a finite set fails of a least one.    *)
LEMMA LeastSet ==
  ASSUME NEW S, IsFiniteSet(S), NEW Bad, Bad \subseteq SUBSET S, Bad # {}
  PROVE  \E T \in Bad : \A U \in Bad : ~ (U \subseteq T /\ U # T)
  <1>1. Bad \subseteq FiniteSubsetsOf(S)
    BY FS_Subset DEF FiniteSubsetsOf
  <1>2. PICK T \in Bad : \A U \in Bad : <<U, T>> \notin StrictSubsetOrdering(S)
    BY <1>1, FS_StrictSubsetOrderingWellFounded, WFMin
  <1>3. \A U \in Bad : ~ (U \subseteq T /\ U # T)
    BY <1>1, <1>2 DEF StrictSubsetOrdering, FiniteSubsetsOf
  <1> QED
    BY <1>3

(* What is folded: the numbers of rows, from an arbitrary row on, or the   *)
(* dates of registros, from the last index back to the first.              *)
Sum == [of |-> "sum", dates |-> << >>]
Loop(dates) == [of |-> "loop", dates |-> dates]
Service(dates) == [of |-> "service", dates |-> dates]

Some(s) == CHOOSE x \in s : TRUE
Chosen(k, s) == IF k.of = "sum" THEN Some(s) ELSE Max(s)
Start(k) ==
    IF k.of = "sum" THEN 0
    ELSE IF k.of = "loop" THEN [atual |-> 0, maximo |-> 0, last |-> Nobody]
    ELSE [run |-> 1, maximo |-> 1]

(* A day in the loop of getStreak, and one of StreakDomainService.         *)
LoopDay(s, day) ==
    LET run == IF s.last = Nobody THEN 1
               ELSE IF day - s.last = 1 THEN s.atual + 1
               ELSE IF day - s.last > 1 THEN 1 ELSE s.atual
    IN  [atual |-> run, maximo |-> IF run > s.maximo THEN run ELSE s.maximo, last |-> day]
ServiceDay(dates, s, i) ==
    LET diffDays == dates[i] - dates[i - 1]
        run == IF diffDays = 1 THEN s.run + 1 ELSE IF diffDays > 1 THEN 1 ELSE s.run
    IN  [run |-> run, maximo |-> IF diffDays = 1 /\ run > s.maximo THEN run ELSE s.maximo]

Then(k, x, s) ==
    IF k.of = "sum" THEN x.vezes + s
    ELSE IF k.of = "loop" THEN LoopDay(s, k.dates[x])
    ELSE ServiceDay(k.dates, s, x + 1)

(* f folds the subsets of S.                                               *)
Folds(k, f, S) ==
    f = [s \in SUBSET S |-> IF s = {} THEN Start(k) ELSE Then(k, Chosen(k, s), f[s \ {Chosen(k, s)}])]

(* The chosen elements are elements.                                       *)
Choosing(k, S) == \A s \in SUBSET S : s # {} => Chosen(k, s) \in s

(* Two such functions agree where both are defined.                        *)
LEMMA FoldsAgree ==
  ASSUME NEW k, NEW S, NEW T, NEW f, NEW g, Folds(k, f, S), Folds(k, g, T), Choosing(k, S),
         NEW s, s \subseteq S, s \subseteq T, IsFiniteSet(s)
  PROVE  f[s] = g[s]
  <1> DEFINE Bad == {t \in SUBSET s : f[t] # g[t]}
  <1>1. ASSUME Bad # {} PROVE FALSE
    <2>1. PICK t \in Bad : \A u \in Bad : ~ (u \subseteq t /\ u # t)
      <3>1. Bad \subseteq SUBSET s
        OBVIOUS
      <3> HIDE DEF Bad
      <3> QED
        BY <1>1, <3>1, LeastSet
    <2>2. t \in SUBSET S /\ t \in SUBSET T /\ f[t] # g[t]
      OBVIOUS
    <2>3. PICK x : x = Chosen(k, t)
      OBVIOUS
    <2>4. /\ f[t] = IF t = {} THEN Start(k) ELSE Then(k, x, f[t \ {x}])
          /\ g[t] = IF t = {} THEN Start(k) ELSE Then(k, x, g[t \ {x}])
      BY <2>2, <2>3 DEF Folds
    <2>5. t # {}
      BY <2>2, <2>4
    <2>6. PICK u : u = t \ {x}
      OBVIOUS
    <2>7. u \subseteq t /\ u # t /\ u \in SUBSET s
      BY <2>2, <2>3, <2>5, <2>6 DEF Choosing
    <2>8. f[u] = g[u]
      BY <2>1, <2>7
    <2> QED
      BY <2>2, <2>4, <2>5, <2>6, <2>8
  <1> QED
    BY <1>1

LEMMA FoldsExists ==
  ASSUME NEW k, NEW S, IsFiniteSet(S), Choosing(k, S)
  PROVE  \E f : Folds(k, f, S)
  <1> DEFINE Bad == {t \in SUBSET S : ~ \E f : Folds(k, f, t)}
  <1>1. ASSUME Bad # {} PROVE FALSE
    <2>1. PICK t \in Bad : \A u \in Bad : ~ (u \subseteq t /\ u # t)
      <3>1. Bad \subseteq SUBSET S
        OBVIOUS
      <3> HIDE DEF Bad
      <3> QED
        BY <1>1, <3>1, LeastSet
    <2>2. t \in SUBSET S /\ ~ \E f : Folds(k, f, t)
      OBVIOUS
    <2>3. PICK G : G = [u \in SUBSET t |-> CHOOSE g : Folds(k, g, u)]
      OBVIOUS
    <2>4. ASSUME NEW u \in SUBSET t, u # t
          PROVE  Folds(k, G[u], u) /\ IsFiniteSet(u) /\ Choosing(k, u)
      <3>1. u \in SUBSET S /\ u \notin Bad
        BY <2>1, <2>2, <2>4
      <3>2. \E g : Folds(k, g, u)
        BY <3>1
      <3>3. IsFiniteSet(u) /\ Choosing(k, u)
        BY <3>1, FS_Subset DEF Choosing
      <3> QED
        BY <2>3, <3>2, <3>3
    <2>5. PICK c : c = [s \in SUBSET t |-> Chosen(k, s)]
      OBVIOUS
    <2>6. \A s \in SUBSET t : s # {} => c[s] \in s
      BY <2>2, <2>5 DEF Choosing
    <2>7. PICK f : f = [s \in SUBSET t |-> IF s = {} THEN Start(k) ELSE
                          Then(k, c[s], G[s \ {c[s]}][s \ {c[s]}])]
      OBVIOUS
    <2>8. ASSUME NEW u \in SUBSET t, u # t
          PROVE  f[u] = G[u][u]
      <3>1. G[u][u] = IF u = {} THEN Start(k) ELSE Then(k, c[u], G[u][u \ {c[u]}])
        BY <2>4, <2>5, <2>8 DEF Folds
      <3>2. CASE u = {}
        BY <2>7, <3>1, <3>2
      <3>3. CASE u # {}
        <4>1. PICK v : v = u \ {c[u]}
          OBVIOUS
        <4>2. v \in SUBSET t /\ v # t /\ v \subseteq u
          BY <2>6, <2>8, <3>3, <4>1
        <4>3. G[u][v] = G[v][v]
          BY <2>4, <2>8, <4>2, FoldsAgree
        <4> QED
          BY <2>7, <3>1, <3>3, <4>1, <4>3
      <3> QED
        BY <3>2, <3>3
    <2>9. ASSUME NEW s \in SUBSET t, s # {}
          PROVE  f[s \ {c[s]}] = G[s \ {c[s]}][s \ {c[s]}]
      <3>1. s \ {c[s]} \in SUBSET t /\ s \ {c[s]} # t
        BY <2>6, <2>9
      <3> QED
        BY <2>8, <3>1
    <2>10. f = [s \in SUBSET t |-> IF s = {} THEN Start(k) ELSE Then(k, c[s], f[s \ {c[s]}])]
      BY <2>7, <2>9
    <2>11. Folds(k, f, t)
      BY <2>5, <2>10 DEF Folds
    <2> QED
      BY <2>2, <2>11
  <1>2. S \notin Bad
    BY <1>1
  <1> QED
    BY <1>2

-----------------------------------------------------------------------------
(* Sums over rows                                                          *)

(* f adds up the rows of the subsets of S, one after the other.            *)
Adds(f, S) == f = [s \in SUBSET S |-> IF s = {} THEN 0 ELSE Some(s).vezes + f[s \ {Some(s)}]]

LEMMA TotalIs == \A S : Total(S) = (CHOOSE f : Adds(f, S))[S]
  BY DEF Total, MapThenSumSet, MapThenFoldSet, Adds, Some

LEMMA SomeIn == \A s : s # {} => Some(s) \in s
  BY DEF Some

LEMMA AddsFolds ==
  ASSUME NEW f, NEW S
  PROVE  Choosing(Sum, S) /\ (Adds(f, S) <=> Folds(Sum, f, S))
  <1>1. \A s : Chosen(Sum, s) = Some(s) /\ \A x, n : Then(Sum, x, n) = x.vezes + n
    BY DEF Sum, Chosen, Then
  <1>2. Start(Sum) = 0
    BY DEF Sum, Start
  <1> QED
    BY <1>1, <1>2, SomeIn DEF Adds, Folds, Choosing

LEMMA AddsAgree ==
  ASSUME NEW S, NEW T, NEW f, NEW g, Adds(f, S), Adds(g, T),
         NEW s, s \subseteq S, s \subseteq T, IsFiniteSet(s)
  PROVE  f[s] = g[s]
  BY AddsFolds, FoldsAgree

LEMMA AddsExists ==
  ASSUME NEW S, IsFiniteSet(S)
  PROVE  \E f : Adds(f, S)
  <1>1. \E f : Folds(Sum, f, S)
    BY AddsFolds, FoldsExists
  <1> QED
    BY <1>1, AddsFolds

LEMMA TotalStep ==
  ASSUME NEW S, IsFiniteSet(S)
  PROVE  Total(S) = IF S = {} THEN 0 ELSE Some(S).vezes + Total(S \ {Some(S)})
  <1>1. PICK f : f = CHOOSE g : Adds(g, S)
    OBVIOUS
  <1>2. PICK T : T = S \ {Some(S)}
    OBVIOUS
  <1>3. PICK h : h = CHOOSE g : Adds(g, T)
    OBVIOUS
  <1>4. IsFiniteSet(T) /\ T \subseteq S
    BY <1>2, FS_Subset
  <1>5. Adds(f, S) /\ Adds(h, T)
    BY <1>1, <1>3, <1>4, AddsExists
  <1>6. f[S] = IF S = {} THEN 0 ELSE Some(S).vezes + f[T]
    BY <1>2, <1>5 DEF Adds
  <1>7. f[T] = h[T]
    BY <1>4, <1>5, AddsAgree
  <1>8. Total(S) = f[S] /\ Total(T) = h[T]
    BY <1>1, <1>3, TotalIs
  <1> QED
    BY <1>2, <1>6, <1>7, <1>8

(* Whichever row is taken out, its number is taken from the total.         *)
LEMMA TotalTakes ==
  ASSUME NEW S, IsFiniteSet(S), \A x \in S : x.vezes \in Nat
  PROVE  Total(S) \in Nat /\ \A x \in S : Total(S) = x.vezes + Total(S \ {x})
  <1> DEFINE Claim(s) == Total(s) \in Nat /\ \A x \in s : Total(s) = x.vezes + Total(s \ {x})
             Bad == {t \in SUBSET S : ~ Claim(t)}
  <1>1. ASSUME Bad # {} PROVE FALSE
    <2>1. PICK t \in Bad : \A u \in Bad : ~ (u \subseteq t /\ u # t)
      <3>1. Bad \subseteq SUBSET S
        OBVIOUS
      <3> HIDE DEF Bad
      <3> QED
        BY <1>1, <3>1, LeastSet
    <2>2. t \in SUBSET S /\ ~ Claim(t) /\ IsFiniteSet(t)
      BY FS_Subset
    <2>3. ASSUME NEW x \in t PROVE Claim(t \ {x})
      <3>1. t \ {x} \in SUBSET S /\ t \ {x} # t /\ t \ {x} \subseteq t
        BY <2>2
      <3> QED
        BY <2>1, <3>1
    <2> HIDE DEF Bad
    <2>4. CASE t = {}
      BY <2>2, <2>4, TotalStep
    <2>5. CASE t # {}
      <3>1. PICK y \in t : y = Some(t)
        BY <2>5, SomeIn
      <3>2. Total(t) = y.vezes + Total(t \ {y})
        BY <2>2, <2>5, <3>1, TotalStep
      <3>3. Total(t \ {y}) \in Nat /\ y.vezes \in Nat
        BY <2>2, <2>3
      <3>4. ASSUME NEW x \in t, x # y PROVE Total(t) = x.vezes + Total(t \ {x})
        <4>1. x \in t \ {y} /\ y \in t \ {x} /\ (t \ {y}) \ {x} = (t \ {x}) \ {y}
          BY <3>4
        <4>2. PICK w : w = Total((t \ {y}) \ {x})
          OBVIOUS
        <4>3. Total(t \ {y}) = x.vezes + w
          BY <2>3, <4>1, <4>2
        <4>4. Total(t \ {x}) = y.vezes + w
          BY <2>3, <4>1, <4>2
        <4>5. ((t \ {y}) \ {x}) \in SUBSET S /\ Claim((t \ {y}) \ {x})
          <5>1. (t \ {y}) \ {x} \in SUBSET S /\ (t \ {y}) \ {x} # t /\ (t \ {y}) \ {x} \subseteq t
            BY <2>2
          <5> QED
            BY <2>1, <5>1 DEF Bad
        <4>6. w \in Nat /\ x.vezes \in Nat
          BY <2>2, <4>2, <4>5
        <4> QED
          BY <3>2, <3>3, <4>3, <4>4, <4>6
      <3>5. Total(t) \in Nat
        BY <3>2, <3>3
      <3>6. \A x \in t : Total(t) = x.vezes + Total(t \ {x})
        BY <3>2, <3>4
      <3> QED
        BY <2>2, <3>5, <3>6
    <2> QED
      BY <2>4, <2>5
  <1>2. S \notin Bad
    BY <1>1
  <1> QED
    BY <1>2

(* If each row holds at most the marks that f attributes to it, together   *)
(* the rows hold at most all marks.                                        *)
LEMMA TotalAtMost ==
  ASSUME NEW R, IsFiniteSet(R), NEW A, IsFiniteSet(A), NEW f,
         \A x, y \in R : x.id = y.id => x = y,
         \A x \in R : x.vezes \in Nat /\ x.vezes <= Cardinality({p \in A : f[p] = x.id})
  PROVE  Total(R) <= Cardinality(A)
  <1> DEFINE Marks(x) == {p \in A : f[p] = x.id}
             All(s) == {p \in A : \E x \in s : f[p] = x.id}
             Claim(s) == Total(s) <= Cardinality(All(s))
             Bad == {s \in SUBSET R : ~ Claim(s)}
  <1>1. ASSUME Bad # {} PROVE FALSE
    <2>1. PICK s \in Bad : \A u \in Bad : ~ (u \subseteq s /\ u # s)
      <3>1. Bad \subseteq SUBSET R
        OBVIOUS
      <3> HIDE DEF Bad
      <3> QED
        BY <1>1, <3>1, LeastSet
    <2>2. s \in SUBSET R /\ ~ Claim(s) /\ IsFiniteSet(s)
      BY FS_Subset
    <2>3. \A u : All(u) \subseteq A /\ IsFiniteSet(All(u)) /\ Cardinality(All(u)) \in Nat
      <3>1. ASSUME NEW u PROVE IsFiniteSet(All(u)) /\ Cardinality(All(u)) \in Nat
        <4>1. All(u) \in SUBSET A
          OBVIOUS
        <4> HIDE DEF All
        <4>2. IsFiniteSet(All(u))
          BY <4>1, FS_Subset
        <4> QED
          BY <4>2, FS_CardinalityType
      <3> QED
        BY <3>1
    <2>4. CASE s = {}
      <3>1. Total(s) = 0
        BY <2>2, <2>4, TotalStep
      <3>2. PICK n \in Nat : n = Cardinality(All(s))
        <4> HIDE DEF All
        <4> QED
          BY <2>3
      <3> HIDE DEF All
      <3>3. ~ (Total(s) <= n)
        BY <2>2, <3>2
      <3> QED
        BY <3>1, <3>3
    <2>5. CASE s # {}
      <3>1. PICK x \in s : TRUE
        BY <2>5
      <3>2. PICK u : u = s \ {x}
        OBVIOUS
      <3>3. u \in SUBSET R /\ u # s /\ u \subseteq s
        BY <2>2, <3>1, <3>2
      <3>4. Claim(u)
        BY <2>1, <3>3
      <3>5. Total(s) = x.vezes + Total(u) /\ Total(u) \in Nat
        <4>1. IsFiniteSet(u)
          BY <2>2, <3>3, FS_Subset
        <4>2. \A y \in s : y.vezes \in Nat
          BY <2>2
        <4> QED
          BY <2>2, <3>1, <3>2, <3>3, <4>1, <4>2, TotalTakes
      <3>6. IsFiniteSet(Marks(x)) /\ Cardinality(Marks(x)) \in Nat
        <4>1. Marks(x) \subseteq A
          OBVIOUS
        <4> QED
          BY <4>1, FS_Subset, FS_CardinalityType
      <3>7. All(s) = All(u) \cup Marks(x)
        BY <3>1, <3>2
      <3>8. All(u) \cap Marks(x) = {}
        BY <2>2, <3>1, <3>2, <3>3
      <3>9. Cardinality(All(s)) = Cardinality(All(u)) + Cardinality(Marks(x))
        <4> HIDE DEF All, Marks
        <4>1. PICK b : b = All(u)
          OBVIOUS
        <4>2. PICK m : m = Marks(x)
          OBVIOUS
        <4>3. IsFiniteSet(b) /\ IsFiniteSet(m) /\ Cardinality(b \cap m) = 0
          BY <2>3, <3>6, <3>8, <4>1, <4>2, FS_EmptySet
        <4>4. Cardinality(b \cup m) = Cardinality(b) + Cardinality(m) - Cardinality(b \cap m)
          BY <4>3, FS_Union
        <4>5. Cardinality(b) \in Nat /\ Cardinality(m) \in Nat
          BY <4>3, FS_CardinalityType
        <4> QED
          BY <3>7, <4>1, <4>2, <4>3, <4>4, <4>5
      <3>10. x.vezes \in Nat /\ x.vezes <= Cardinality(Marks(x))
        BY <2>2, <3>1
      <3> HIDE DEF All, Marks
      <3> QED
        BY <2>2, <2>3, <3>4, <3>5, <3>6, <3>9, <3>10
    <2> QED
      BY <2>4, <2>5
  <1>2. Claim(R)
    BY <1>1
  <1>3. All(R) \subseteq A
    OBVIOUS
  <1>4. Cardinality(All(R)) <= Cardinality(A) /\ Cardinality(All(R)) \in Nat /\ Cardinality(A) \in Nat
    <2> HIDE DEF All
    <2>1. IsFiniteSet(All(R))
      BY <1>3, FS_Subset
    <2> QED
      BY <1>3, <2>1, FS_Subset, FS_CardinalityType
  <1>5. Total(R) \in Nat
    BY TotalTakes
  <1> HIDE DEF All
  <1> QED
    BY <1>2, <1>4, <1>5

-----------------------------------------------------------------------------
(* Registros                                                               *)

RowsFor(h, d) == {x \in RowsOf(h) : x.data = d}
Marks(h, d) == {p \in registered : p.habito = h /\ p.data = d}

IsRegistro(x) == x = [id |-> x.id, habito |-> x.habito, data |-> x.data, vezes |-> x.vezes]

RegistrosOK ==
    /\ IsFiniteSet(registros) /\ IsFiniteSet(registered)
    /\ \A x, y \in registros : y.id = x.id => y = x
    /\ \A x \in registros :
          /\ IsRegistro(x) /\ x.vezes \in Nat
          /\ \E q \in registered : q.habito = x.habito /\ q.data = x.data
          /\ \A r \in Requests : x.id[1] = r => \E p \in registered : p.by = r

(* Each registration is credited to a row of its hábito and day.  A row    *)
(* holds, and a request that is about to save it writes, at most what is   *)
(* credited to it, and the one that is being made.                         *)
Credited(f, i) == {p \in registered : f[p] = i}
Inserting(c) == c.op = "registrar" /\ c.pc \in {"exists", "streak", "commit"}
Registering(c) == c.op = "registrar" /\ c.pc \in {"save", "exists", "streak", "commit"}
Credits(f) ==
    /\ \A p \in registered :
          \E x \in registros : x.id = f[p] /\ x.habito = p.habito /\ x.data = p.data
    /\ \A x \in registros : x.vezes <= Cardinality(Credited(f, x.id))
    /\ \A r \in Requests : Registering(call[r]) =>
          call[r].read.registro.vezes <= Cardinality(Credited(f, call[r].read.registro.id)) + 1

(* The row r saves is a new one, or one that is there; alone, it is the    *)
(* only one or has one more than it has there.                             *)
RowToSave(r, h, d, x) ==
    /\ IsRegistro(x) /\ x.habito = h /\ x.data = d /\ x.vezes \in Nat
    /\ x.id = <<r, d>> \/ \E y \in RowsFor(h, d) : y.id = x.id
    /\ r \in alone => \/ RowsFor(h, d) = {} /\ x.vezes = 1
                      \/ \E y \in RowsFor(h, d) : y.id = x.id /\ x.vezes = y.vezes + 1

NotYet(r) == \A p \in registered : p.by # r
Unsaved(c) == \/ c.pc = "idle" \/ Registering(c)
              \/ c.op = "registrar" /\ c.pc \in {"check", "findRegistro"}
IsHand(read) == read = [registro |-> read.registro, atual |-> read.atual, found |-> read.found]
RegistroCall(r, c) ==
    /\ Unsaved(c) => NotYet(r)
    /\ Registering(c) => IsHand(c.read) /\ RowToSave(r, c.id, c.arg, c.read.registro)
    /\ Inserting(c) => c.read.registro.id = <<r, c.arg>>

(* What no overlapped request registered is in one row.                    *)
OneRow ==
    \A q \in registered :
        {p.by : p \in Marks(q.habito, q.data)} \cap Overlapped = {} =>
            \E z \in registros : /\ RowsFor(q.habito, q.data) = {z}
                                 /\ z.vezes = Cardinality(Marks(q.habito, q.data))

RegistrosInv ==
    /\ area # "habitos" => registros = {} /\ registered = {}
    /\ area = "habitos" => /\ RegistrosOK /\ OneRow
                           /\ \A r \in Requests : RegistroCall(r, call[r])
                           /\ \E f : Credits(f)

LEMMA RegistrosInit_ == Init => RegistrosInv
  <1> SUFFICES ASSUME Init PROVE RegistrosInv
    OBVIOUS
  <1>1. PICK days \in Registrados :
          /\ registros = {[id |-> <<Inicial, d>>, habito |-> Inicial, data |-> d, vezes |-> 1] : d \in days}
          /\ registered = {[by |-> Inicial, habito |-> Inicial, data |-> d] : d \in days}
    BY DEF Init, HabitosInit
  <1>2. \A r \in Requests : call[r].pc = "idle" /\ r # Inicial
    BY HabitosAssumption DEF Init, HandlersInit, Idle
  <1>3. CASE area # "habitos"
    BY <1>1, <1>3 DEF Init, RegistrosInv
  <1>4. IsFiniteSet(days) /\ days \subseteq Days
    <2>1. days \subseteq Days
      BY RegistradosAssumption
    <2> QED
      BY <2>1, HabitosAssumption, FS_Subset
  <1>5. PICK row : row = [d \in days |-> [id |-> <<Inicial, d>>, habito |-> Inicial, data |-> d, vezes |-> 1]]
    OBVIOUS
  <1>6. PICK mark : mark = [d \in days |-> [by |-> Inicial, habito |-> Inicial, data |-> d]]
    OBVIOUS
  <1>7. registros = {row[d] : d \in days} /\ registered = {mark[d] : d \in days}
    BY <1>1, <1>5, <1>6
  <1>8. /\ \A d \in days : /\ row[d].id = <<Inicial, d>> /\ row[d].habito = Inicial
                           /\ row[d].data = d /\ row[d].vezes = 1 /\ IsRegistro(row[d])
                           /\ mark[d].by = Inicial /\ mark[d].habito = Inicial /\ mark[d].data = d
    BY <1>4, <1>5, <1>6 DEF IsRegistro
  <1>9. IsFiniteSet(registros) /\ IsFiniteSet(registered)
    <2>1. row \in Surjection(days, registros) /\ mark \in Surjection(days, registered)
      BY <1>5, <1>6, <1>7 DEF Surjection
    <2> QED
      BY <1>4, <2>1, FS_Surjection
  <1> HIDE <1>1, <1>5, <1>6
  <1>10. RegistrosOK
    <2>1. \A x, y \in registros : y.id = x.id => y = x
      BY <1>7, <1>8
    <2>2. ASSUME NEW d \in days
          PROVE  /\ IsRegistro(row[d]) /\ row[d].vezes \in Nat
                 /\ \E q \in registered : q.habito = row[d].habito /\ q.data = row[d].data
                 /\ \A r \in Requests : row[d].id[1] # r
      BY <1>2, <1>7, <1>8
    <2> QED
      BY <1>7, <1>9, <2>1, <2>2 DEF RegistrosOK
  <1>11. \A d \in days : RowsFor(Inicial, d) = {row[d]} /\ Marks(Inicial, d) = {mark[d]}
    BY <1>7, <1>8 DEF RowsFor, RowsOf, Marks
  <1>12. \A d \in days : Cardinality({mark[d]}) = 1
    BY FS_Singleton
  <1>13. OneRow
    <2>1. ASSUME NEW d \in days
          PROVE  \E z \in registros : /\ RowsFor(Inicial, d) = {z}
                                      /\ z.vezes = Cardinality(Marks(Inicial, d))
      BY <1>7, <1>8, <1>11, <1>12
    <2> QED
      BY <1>7, <1>8, <2>1 DEF OneRow
  <1>14. \A r \in Requests : RegistroCall(r, call[r])
    BY <1>2, <1>7, <1>8 DEF RegistroCall, NotYet, Registering, Inserting
  <1>15. \E f : Credits(f)
    <2>1. PICK f : f = [p \in registered |-> <<Inicial, p.data>>]
      OBVIOUS
    <2>2. \A d \in days : f[mark[d]] = <<Inicial, d>>
      BY <1>7, <1>8, <2>1
    <2>3. \A d \in days : Credited(f, row[d].id) = {mark[d]}
      <3>1. \A d, e \in days : <<Inicial, d>> = <<Inicial, e>> => d = e
        OBVIOUS
      <3>2. \A d, e \in days : f[mark[e]] = row[d].id <=> e = d
        BY <1>8, <2>2, <3>1
      <3> QED
        BY <1>7, <3>2 DEF Credited
    <2>4. \A p \in registered :
            \E x \in registros : x.id = f[p] /\ x.habito = p.habito /\ x.data = p.data
      BY <1>7, <1>8, <2>2
    <2>5. \A x \in registros : x.vezes <= Cardinality(Credited(f, x.id))
      BY <1>7, <1>8, <1>12, <2>3
    <2>6. \A r \in Requests : ~ Registering(call[r])
      BY <1>2 DEF Registering
    <2> QED
      BY <2>4, <2>5, <2>6 DEF Credits
  <1> QED
    BY <1>3, <1>10, <1>13, <1>14, <1>15 DEF RegistrosInv

(* A step that writes no registro.                                         *)
LEMMA RegistrosQuiet ==
  ASSUME RegistrosInv, area' = area, UNCHANGED <<registros, registered>>,
         NEW r \in Requests, Moves(r),
         area = "habitos" => RegistroCall(r, call[r])',
         area = "habitos" /\ Registering(call'[r]) =>
            \/ call'[r].read.registro.vezes = 1
            \/ \E y \in registros : /\ y.id = call'[r].read.registro.id
                                    /\ call'[r].read.registro.vezes = y.vezes + 1
            \/ Registering(call[r]) /\ call'[r].read.registro = call[r].read.registro
  PROVE  RegistrosInv'
  <1>1. CASE area # "habitos"
    BY <1>1 DEF RegistrosInv
  <1>2. CASE area = "habitos"
    <2>1. /\ \A h, d : RowsFor(h, d)' = RowsFor(h, d) /\ Marks(h, d)' = Marks(h, d)
          /\ \A f, i : Credited(f, i)' = Credited(f, i)
          /\ \A q : NotYet(q)' <=> NotYet(q)
      BY DEF RowsFor, RowsOf, Marks, Credited, NotYet
    <2>2. RegistrosOK'
      BY <1>2 DEF RegistrosInv, RegistrosOK
    <2>3. OneRow'
      <3>1. Overlapped \subseteq Overlapped'
        BY DEF Moves
      <3> QED
        BY <1>2, <2>1, <3>1 DEF RegistrosInv, OneRow
    <2>4. ASSUME NEW q \in Requests, q # r
          PROVE  RegistroCall(q, call[q])'
      <3>1. call'[q] = call[q] /\ (q \in alone' => q \in alone)
        BY <2>4 DEF Moves, OnlyMoves
      <3>2. RegistroCall(q, call[q])
        BY <1>2 DEF RegistrosInv
      <3> QED
        BY <2>1, <3>1, <3>2 DEF RegistroCall, RowToSave
    <2>5. PICK f : Credits(f)
      BY <1>2 DEF RegistrosInv
    <2>6. Credits(f)'
      <3>1. \A i : Cardinality(Credited(f, i)) \in Nat
        BY <1>2, FS_Subset, FS_CardinalityType DEF RegistrosInv, RegistrosOK, Credited
      <3>2. ASSUME NEW q \in Requests, Registering(call'[q])
            PROVE  call'[q].read.registro.vezes <= Cardinality(Credited(f, call'[q].read.registro.id)) + 1
        <4>1. CASE q # r
          BY <2>5, <3>2, <4>1 DEF Credits, Moves, OnlyMoves
        <4>2. CASE q = r /\ call'[r].read.registro.vezes = 1
          BY <3>1, <4>2
        <4>3. CASE q = r /\ \E y \in registros : /\ y.id = call'[r].read.registro.id
                                                 /\ call'[r].read.registro.vezes = y.vezes + 1
          <5>1. PICK y \in registros : y.id = call'[r].read.registro.id /\ call'[r].read.registro.vezes = y.vezes + 1
            BY <4>3
          <5>2. y.vezes \in Nat /\ y.vezes <= Cardinality(Credited(f, y.id))
            BY <1>2, <2>5 DEF Credits, RegistrosInv, RegistrosOK
          <5> QED
            BY <3>1, <4>3, <5>1, <5>2
        <4>4. CASE q = r /\ Registering(call[r]) /\ call'[r].read.registro = call[r].read.registro
          BY <2>5, <4>4 DEF Credits
        <4> QED
          BY <1>2, <3>2, <4>1, <4>2, <4>3, <4>4
      <3>3. /\ \A p \in registered' :
                 \E x \in registros' : x.id = f[p] /\ x.habito = p.habito /\ x.data = p.data
            /\ \A x \in registros' : x.vezes <= Cardinality(Credited(f, x.id)')
        BY <2>1, <2>5 DEF Credits
      <3> QED
        BY <2>1, <3>2, <3>3 DEF Credits
    <2> QED
      BY <1>2, <2>2, <2>3, <2>4, <2>6 DEF RegistrosInv
  <1> QED
    BY <1>1, <1>2

(* What a step to the save of a registro needs of the request.             *)
LEMMA SaveWhat ==
  ASSUME RegistrosInv, area = "habitos", NEW r \in Requests, Registering(call[r]),
         NEW h, NEW d, NEW x, h = call[r].id, d = call[r].arg,
         x = call[r].read.registro
  PROVE  /\ NotYet(r) /\ RowToSave(r, h, d, x)
         /\ \A y \in registros : y.id = x.id => y \in RowsFor(h, d)
  <1>1. NotYet(r) /\ RowToSave(r, h, d, x)
    BY DEF RegistrosInv, RegistroCall, Registering, Unsaved
  <1>2. ASSUME NEW y \in registros, y.id = x.id
        PROVE  y \in RowsFor(h, d)
    <2>1. CASE x.id = <<r, d>>
      <3>1. y.id[1] = r
        BY <1>2, <2>1
      <3> QED
        BY <1>1, <1>2, <3>1 DEF RegistrosInv, RegistrosOK, NotYet
    <2>2. CASE \E z \in RowsFor(h, d) : z.id = x.id
      BY <1>2, <2>2 DEF RegistrosInv, RegistrosOK, RowsFor, RowsOf
    <2> QED
      BY <1>1, <2>1, <2>2 DEF RowToSave
  <1> QED
    BY <1>1, <1>2

(* The save of x, and the registration p it is.                            *)
Saved(r, h, d, x, p) ==
    /\ p.by = r /\ p.habito = h /\ p.data = d /\ p \notin registered
    /\ registered' = registered \cup {p}
    /\ registros' = {y \in registros : y.id # x.id} \cup {x}

LEMMA SavedOK ==
  ASSUME RegistrosInv, area = "habitos", NEW r \in Requests, NEW h, NEW d, NEW x, NEW p,
         Saved(r, h, d, x, p), RowToSave(r, h, d, x),
         \A y \in registros : y.id = x.id => y \in RowsFor(h, d)
  PROVE  RegistrosOK'
  <1>1. RegistrosOK
    BY DEF RegistrosInv
  <1>2. IsFiniteSet(registered')
    BY <1>1, FS_AddElement DEF RegistrosOK, Saved
  <1>3. IsFiniteSet(registros')
    <2>1. IsFiniteSet({y \in registros : y.id # x.id})
      BY <1>1, FS_Subset DEF RegistrosOK
    <2> QED
      BY <2>1, FS_AddElement DEF Saved
  <1>4. \A y, z \in registros' : z.id = y.id => z = y
    BY <1>1 DEF RegistrosOK, Saved
  <1>5. \A y \in registros' :
          /\ IsRegistro(y) /\ y.vezes \in Nat
          /\ \E q \in registered' : q.habito = y.habito /\ q.data = y.data
    BY <1>1 DEF RegistrosOK, Saved, RowToSave
  <1>6. ASSUME NEW y \in registros', NEW q \in Requests, y.id[1] = q
        PROVE  \E m \in registered' : m.by = q
    <2>1. CASE y \in registros
      BY <1>1, <1>6, <2>1 DEF RegistrosOK, Saved
    <2>2. CASE y = x /\ \E z \in RowsFor(h, d) : z.id = x.id
      BY <1>1, <1>6, <2>2 DEF RegistrosOK, Saved, RowsFor, RowsOf
    <2>3. CASE y = x /\ x.id = <<r, d>>
      <3>1. q = r
        BY <1>6, <2>3
      <3> QED
        BY <3>1 DEF Saved
    <2> QED
      BY <1>6, <2>1, <2>2, <2>3 DEF Saved, RowToSave
  <1> QED
    BY <1>2, <1>3, <1>4, <1>5, <1>6 DEF RegistrosOK

(* The new registration is credited to the row it was saved in.            *)
LEMMA SavedCredits ==
  ASSUME RegistrosInv, area = "habitos", NEW r \in Requests, NEW h, NEW d, NEW x, NEW p,
         Saved(r, h, d, x, p), Registering(call[r]), call[r].read.registro = x, ~ Registering(call'[r]),
         OnlyMoves(r), RowToSave(r, h, d, x),
         \A y \in registros : y.id = x.id => y \in RowsFor(h, d)
  PROVE  \E f : Credits(f)'
  <1>1. RegistrosOK
    BY DEF RegistrosInv
  <1>2. PICK f : Credits(f)
    BY DEF RegistrosInv
  <1>3. PICK g : g = [q \in registered' |-> IF q = p THEN x.id ELSE f[q]]
    OBVIOUS
  <1>4. /\ p \in registered' /\ g[p] = x.id
        /\ \A q \in registered : g[q] = f[q] /\ q \in registered'
        /\ \A q \in registered' : q = p \/ q \in registered
    BY <1>3 DEF Saved
  <1>5. \A i : IsFiniteSet(Credited(f, i)) /\ Cardinality(Credited(f, i)) \in Nat
    BY <1>1, FS_Subset, FS_CardinalityType DEF RegistrosOK, Credited
  <1>6. Credited(g, x.id)' = Credited(f, x.id) \cup {p} /\ p \notin Credited(f, x.id)
    BY <1>4 DEF Credited, Saved
  <1>7. \A i : i # x.id => Credited(g, i)' = Credited(f, i)
    BY <1>4 DEF Credited
  <1>8. Cardinality(Credited(g, x.id)') = Cardinality(Credited(f, x.id)) + 1
    BY <1>5, <1>6, FS_AddElement
  <1>9. \A i : Cardinality(Credited(f, i)) <= Cardinality(Credited(g, i)')
    <2>1. ASSUME NEW i
          PROVE  Cardinality(Credited(f, i)) <= Cardinality(Credited(g, i)')
      <3>1. CASE i = x.id
        BY <1>5, <1>8, <3>1
      <3>2. CASE i # x.id
        BY <1>5, <1>7, <3>2
      <3> QED
        BY <3>1, <3>2
    <2> QED
      BY <2>1
  <1> HIDE <1>3
  <1>10. ASSUME NEW q \in registered'
         PROVE  \E y \in registros' : y.id = g[q] /\ y.habito = q.habito /\ y.data = q.data
    <2>1. CASE q = p
      BY <1>4, <2>1 DEF Saved, RowToSave
    <2>2. CASE q \in registered
      <3>1. PICK y \in registros : y.id = f[q] /\ y.habito = q.habito /\ y.data = q.data
        BY <1>2, <2>2 DEF Credits
      <3>2. CASE y.id = x.id
        <4>1. y.habito = h /\ y.data = d
          BY <3>2 DEF RowsFor, RowsOf
        <4> QED
          BY <1>4, <2>2, <3>1, <3>2, <4>1 DEF Saved, RowToSave
      <3>3. CASE y.id # x.id
        BY <1>4, <2>2, <3>1, <3>3 DEF Saved
      <3> QED
        BY <3>2, <3>3
    <2> QED
      BY <1>4, <1>10, <2>1, <2>2
  <1>11. ASSUME NEW y \in registros'
         PROVE  y.vezes <= Cardinality(Credited(g, y.id)')
    <2>1. CASE y = x
      <3>1. x.vezes <= Cardinality(Credited(f, x.id)) + 1
        BY <1>2 DEF Credits
      <3> QED
        BY <1>8, <2>1, <3>1
    <2>2. CASE y \in registros
      <3>1. y.vezes \in Nat /\ y.vezes <= Cardinality(Credited(f, y.id))
        BY <1>1, <1>2, <2>2 DEF RegistrosOK, Credits
      <3>2. Cardinality(Credited(g, y.id)') \in Nat
        BY <1>5, <1>7, <1>8
      <3> QED
        BY <1>5, <1>9, <3>1, <3>2
    <2> QED
      BY <2>1, <2>2 DEF Saved
  <1>12. ASSUME NEW q \in Requests, Registering(call'[q]), NEW i, i = call'[q].read.registro.id
         PROVE  call'[q].read.registro.vezes <= Cardinality(Credited(g, i)') + 1
    <2>1. q # r /\ call'[q] = call[q]
      BY <1>12 DEF OnlyMoves
    <2>2. RowToSave(q, call[q].id, call[q].arg, call[q].read.registro)
      BY <1>12, <2>1, SaveWhat
    <2>4. call[q].read.registro.vezes \in Nat /\ call[q].read.registro.vezes <= Cardinality(Credited(f, i)) + 1
      BY <1>2, <1>12, <2>1, <2>2 DEF Credits, RowToSave
    <2>5. Cardinality(Credited(g, i)') \in Nat
      BY <1>5, <1>7, <1>8
    <2>6. Cardinality(Credited(f, i)) <= Cardinality(Credited(g, i)')
      BY <1>9
    <2> QED
      BY <1>5, <2>1, <2>4, <2>5, <2>6
  <1>13. Credits(g)'
    BY <1>10, <1>11, <1>12 DEF Credits
  <1> QED
    BY <1>13

(* Where nobody overlapped, the row saved is still the only one.           *)
LEMMA SavedOneRow ==
  ASSUME RegistrosInv, area = "habitos", NEW r \in InFlight, Works(r), NEW h, NEW d, NEW x, NEW p,
         Saved(r, h, d, x, p), RowToSave(r, h, d, x),
         \A y \in registros : y.id = x.id => y \in RowsFor(h, d)
  PROVE  OneRow'
  <1>1. RegistrosOK /\ OneRow
    BY DEF RegistrosInv
  <1>2. Overlapped \subseteq Overlapped'
    BY DEF Works, Moves
  <1>3. /\ Marks(h, d)' = Marks(h, d) \cup {p} /\ p \notin Marks(h, d)
        /\ \A k, e : k # h \/ e # d => Marks(k, e)' = Marks(k, e)
    BY DEF Saved, Marks
  <1>4. \A k, e : k # h \/ e # d => RowsFor(k, e)' = RowsFor(k, e)
    BY DEF Saved, RowsFor, RowsOf, RowToSave
  <1>5. RowsFor(h, d)' = {y \in RowsFor(h, d) : y.id # x.id} \cup {x}
    BY DEF Saved, RowsFor, RowsOf, RowToSave
  <1>6. IsFiniteSet(Marks(h, d)) /\ Cardinality(Marks(h, d)) \in Nat
    BY <1>1, FS_Subset, FS_CardinalityType DEF RegistrosOK, Marks
  <1>7. Cardinality(Marks(h, d)') = Cardinality(Marks(h, d)) + 1
    BY <1>3, <1>6, FS_AddElement
  <1>8. ASSUME {m.by : m \in Marks(h, d)'} \cap Overlapped' = {}
        PROVE  \E z \in registros' : RowsFor(h, d)' = {z} /\ z.vezes = Cardinality(Marks(h, d)')
    <2>1. r \in alone
      <3>1. r \notin Overlapped
        BY <1>2, <1>3, <1>8 DEF Saved
      <3> QED
        BY <3>1 DEF Overlapped, InFlight
    <2>2. {m.by : m \in Marks(h, d)} \cap Overlapped = {}
      BY <1>2, <1>3, <1>8
    <2>3. x \in registros'
      BY DEF Saved
    <2>4. CASE RowsFor(h, d) = {} /\ x.vezes = 1
      <3>1. Marks(h, d) = {}
        <4>1. ASSUME NEW m \in Marks(h, d)
              PROVE  FALSE
          <5>1. m \in registered /\ m.habito = h /\ m.data = d
            BY <4>1 DEF Marks
          <5>2. RowsFor(h, d) # {}
            BY <1>1, <2>2, <5>1 DEF OneRow
          <5> QED
            BY <2>4, <5>2
        <4> QED
          BY <4>1
      <3>2. Cardinality(Marks(h, d)') = 1
        BY <1>7, <3>1, FS_EmptySet
      <3>3. RowsFor(h, d)' = {x}
        BY <1>5, <2>4
      <3> QED
        BY <2>3, <2>4, <3>2, <3>3
    <2>5. CASE \E y \in RowsFor(h, d) : y.id = x.id /\ x.vezes = y.vezes + 1
      <3>1. PICK y \in RowsFor(h, d) : y.id = x.id /\ x.vezes = y.vezes + 1
        BY <2>5
      <3>2. PICK m \in registered : m.habito = h /\ m.data = d
        BY <1>1, <3>1 DEF RegistrosOK, RowsFor, RowsOf
      <3>3. PICK z \in registros : RowsFor(h, d) = {z} /\ z.vezes = Cardinality(Marks(h, d))
        BY <1>1, <2>2, <3>2 DEF OneRow
      <3>4. z = y
        BY <3>1, <3>3
      <3>5. RowsFor(h, d)' = {x} /\ x.vezes = Cardinality(Marks(h, d)')
        BY <1>5, <1>7, <3>1, <3>3, <3>4
      <3> QED
        BY <2>3, <3>5
    <2> QED
      BY <2>1, <2>4, <2>5 DEF RowToSave
  <1>9. ASSUME NEW q \in registered', {m.by : m \in Marks(q.habito, q.data)'} \cap Overlapped' = {}
        PROVE  \E z \in registros' : /\ RowsFor(q.habito, q.data)' = {z}
                                     /\ z.vezes = Cardinality(Marks(q.habito, q.data)')
    <2>1. CASE q.habito = h /\ q.data = d
      BY <1>8, <1>9, <2>1
    <2>2. CASE q.habito # h \/ q.data # d
      <3>1. q \in registered
        BY <1>9, <2>2 DEF Saved
      <3>2. {m.by : m \in Marks(q.habito, q.data)} \cap Overlapped = {}
        BY <1>2, <1>3, <1>9, <2>2
      <3>3. PICK z \in registros : /\ RowsFor(q.habito, q.data) = {z}
                                   /\ z.vezes = Cardinality(Marks(q.habito, q.data))
        BY <1>1, <3>1, <3>2 DEF OneRow
      <3>4. RowsFor(q.habito, q.data)' = {z} /\ z.vezes = Cardinality(Marks(q.habito, q.data)')
        BY <1>3, <1>4, <2>2, <3>3
      <3>5. z \in registros'
        BY <3>4 DEF RowsFor, RowsOf
      <3> QED
        BY <3>4, <3>5
    <2> QED
      BY <2>1, <2>2
  <1> QED
    BY <1>9 DEF OneRow

LEMMA RegistroSaved ==
  ASSUME BaseInv, RegistrosInv, area' = area, area = "habitos", NEW r \in InFlight,
         Registering(call[r]), registered' = registered \cup {Registered(r)},
         NEW x, x = call[r].read.registro,
         registros' = {y \in registros : y.id # x.id} \cup {x}, Goto(r, "uncache")
  PROVE  RegistrosInv'
  <1>1. r \in Requests /\ Works(r) /\ GoesTo(r, "uncache")
    BY GotoWorks DEF BaseInv
  <1>2. Registering(call[r]) /\ ~ Registering(call'[r]) /\ ~ Unsaved(call'[r]) /\ OnlyMoves(r)
    BY <1>1 DEF Registering, Unsaved, GoesTo, GoesAs, Works, Moves
  <1>3. PICK h, d : h = call[r].id /\ d = call[r].arg
    OBVIOUS
  <1>4. PICK p : p = [by |-> r, habito |-> h, data |-> d]
    OBVIOUS
  <1>5. /\ NotYet(r) /\ RowToSave(r, h, d, x)
        /\ \A y \in registros : y.id = x.id => y \in RowsFor(h, d)
    BY <1>1, <1>2, <1>3, SaveWhat
  <1>6. Saved(r, h, d, x, p)
    BY <1>3, <1>4, <1>5 DEF Saved, Registered, NotYet
  <1> HIDE <1>4
  <1>7. RegistrosOK' /\ OneRow' /\ \E f : Credits(f)'
    BY <1>1, <1>2, <1>3, <1>5, <1>6, SavedOK, SavedOneRow, SavedCredits
  <1>8. ASSUME NEW q \in Requests, q # r
        PROVE  RegistroCall(q, call[q])'
    <2>1. call'[q] = call[q] /\ RegistroCall(q, call[q])
      BY <1>2, <1>8 DEF OnlyMoves, RegistrosInv
    <2>2. NotYet(q) => NotYet(q)'
      BY <1>6, <1>8 DEF NotYet, Saved
    <2>3. ASSUME Registering(call[q])
          PROVE  RowToSave(q, call[q].id, call[q].arg, call[q].read.registro)'
      <3>1. q \notin alone'
        BY <1>1, <1>8, <2>3 DEF Works, Overlapped, InFlight, At, Registering
      <3>2. PICK k, e, w : k = call[q].id /\ e = call[q].arg /\ w = call[q].read.registro
        OBVIOUS
      <3>3. RowToSave(q, k, e, w)
        BY <2>1, <2>3, <3>2 DEF RegistroCall
      <3>4. (\E y \in RowsFor(k, e) : y.id = w.id) => \E y \in RowsFor(k, e)' : y.id = w.id
        <4>1. ASSUME NEW y \in RowsFor(k, e), y.id = w.id
              PROVE  \E z \in RowsFor(k, e)' : z.id = w.id
          <5>1. CASE y.id # x.id
            BY <1>6, <4>1, <5>1 DEF Saved, RowsFor, RowsOf
          <5>2. CASE y.id = x.id
            <6>1. k = h /\ e = d
              BY <1>5, <4>1, <5>2 DEF RowsFor, RowsOf
            <6> QED
              BY <1>5, <1>6, <4>1, <5>2, <6>1 DEF Saved, RowsFor, RowsOf, RowToSave
          <5> QED
            BY <5>1, <5>2
        <4> QED
          BY <4>1
      <3>5. RowToSave(q, k, e, w)'
        BY <3>1, <3>3, <3>4 DEF RowToSave
      <3> QED
        BY <2>1, <3>2, <3>5
    <2> QED
      BY <2>1, <2>2, <2>3 DEF RegistroCall
  <1>9. RegistroCall(r, call[r])'
    BY <1>2 DEF RegistroCall, Registering, Inserting
  <1> QED
    BY <1>7, <1>8, <1>9 DEF RegistrosInv

(* Past the save, or in another command.                                   *)
LEMMA RegistroElsewhere ==
  ASSUME NEW r, call'[r].pc # "idle",
         \/ call'[r].op # "registrar"
         \/ call'[r].pc \notin {"check", "findRegistro", "save", "exists", "streak", "commit"}
  PROVE  RegistroCall(r, call[r])' /\ ~ Registering(call'[r])
  BY DEF RegistroCall, Unsaved, Registering, Inserting

LEMMA RegistrosArrives ==
  ASSUME BaseInv, RegistrosInv, area' = area, area = "habitos", NEW r \in Requests, HabitosArrival(r)
  PROVE  RegistrosInv'
  <1>1. /\ UNCHANGED <<registros, registered>>
        /\ \E op, id, arg, label, status :
              \/ label \in {"getCache", "check"} /\ Arrive(r, label, op, id, arg)
              \/ Refuse(r, op, status)
    BY DEF HabitosArrival, listHabitos, createHabito, updateHabito, registrar, deleteHabito,
           AskHabito, HabitoReads, habito_rows
  <1>2. Moves(r) /\ call'[r].pc \in {"getCache", "check", "done"} /\ call[r].pc = "idle"
    BY <1>1, ArriveMoves, RefuseMoves DEF BaseInv, GoesAs
  <1>3. NotYet(r)
    BY <1>2 DEF RegistrosInv, RegistroCall, Unsaved
  <1>4. RegistroCall(r, call[r])' /\ ~ Registering(call'[r])
    BY <1>1, <1>2, <1>3 DEF RegistroCall, NotYet, Registering, Inserting
  <1> QED
    BY <1>1, <1>2, <1>4, RegistrosQuiet

(* A step that writes no registro, of a request that is past its own or    *)
(* has none.                                                               *)
LEMMA RegistrosPasses ==
  ASSUME BaseInv, RegistrosInv, area' = area, UNCHANGED <<registros, registered>>, NEW r \in InFlight,
         \/ \E status : Reply(r, status) \/ FailWith(r, status)
         \/ \E label : /\ label # "idle" /\ call[r].op # "registrar"
                       /\ Goto(r, label) \/ \E read : Keep(r, read, label)
  PROVE  RegistrosInv'
  <1>1. r \in Requests
    BY DEF InFlight
  <1>2. CASE \E status : Reply(r, status) \/ FailWith(r, status)
    <2>1. Moves(r) /\ call'[r].pc = "done"
      BY <1>2, ReplyWorks DEF BaseInv, Works
    <2> QED
      BY <1>1, <2>1, RegistroElsewhere, RegistrosQuiet
  <1>3. ASSUME NEW label, label # "idle", call[r].op # "registrar",
               Goto(r, label) \/ \E read : Keep(r, read, label)
        PROVE  RegistrosInv'
    <2>1. Moves(r) /\ call'[r].pc = label /\ call'[r].op = call[r].op
      BY <1>3, GotoWorks, KeepWorks DEF BaseInv, Works, GoesTo, GoesAs
    <2> QED
      BY <1>1, <1>3, <2>1, RegistroElsewhere, RegistrosQuiet
  <1> QED
    BY <1>2, <1>3

(* The registro of the day is looked for, and made or incremented.         *)
LEMMA RegistroRead ==
  ASSUME BaseInv, RegistrosInv, area' = area, area = "habitos",
         UNCHANGED <<registros, registered>>, NEW r \in InFlight, On(r, "registrar", "findRegistro"),
         NEW h, NEW d, h = call[r].id, d = call[r].arg, NEW x, Keep(r, InHand(x), "save"),
         \/ RowsFor(h, d) = {} /\ x = [id |-> <<r, d>>, habito |-> h, data |-> d, vezes |-> 1]
         \/ \E y \in RowsFor(h, d) : x = Incremented(y)
  PROVE  RegistrosInv'
  <1>1. /\ r \in Requests /\ Moves(r) /\ GoesTo(r, "save") /\ call'[r].read.registro = x
        /\ IsHand(call'[r].read)
    <2>1. r \in Requests /\ Moves(r) /\ GoesTo(r, "save") /\ call'[r].read = InHand(x)
      BY KeepWorks DEF BaseInv, Works
    <2> QED
      BY <2>1 DEF InHand, IsHand
  <1>2. NotYet(r) /\ RegistrosOK
    BY <1>1 DEF RegistrosInv, RegistroCall, Unsaved, On, At
  <1>3. /\ IsRegistro(x) /\ x.habito = h /\ x.data = d /\ x.vezes \in Nat
        /\ \/ RowsFor(h, d) = {} /\ x.id = <<r, d>> /\ x.vezes = 1
           \/ \E y \in RowsFor(h, d) : y.id = x.id /\ x.vezes = y.vezes + 1
    <2>1. CASE RowsFor(h, d) = {} /\ x = [id |-> <<r, d>>, habito |-> h, data |-> d, vezes |-> 1]
      BY <2>1 DEF IsRegistro
    <2>2. ASSUME NEW y \in RowsFor(h, d), x = Incremented(y)
          PROVE  /\ IsRegistro(x) /\ x.habito = h /\ x.data = d /\ x.vezes \in Nat
                 /\ y.id = x.id /\ x.vezes = y.vezes + 1
      <3>1. IsRegistro(y) /\ y.habito = h /\ y.data = d /\ y.vezes \in Nat
        BY <1>2, <2>2 DEF RegistrosOK, RowsFor, RowsOf
      <3>2. x = [id |-> y.id, habito |-> h, data |-> d, vezes |-> y.vezes + 1]
        BY <2>2, <3>1 DEF Incremented, IsRegistro
      <3> QED
        BY <3>1, <3>2 DEF IsRegistro
    <2> QED
      BY <2>1, <2>2
  <1>4. RowToSave(r, h, d, x)'
    BY <1>3 DEF RowToSave, RowsFor, RowsOf
  <1>5. RegistroCall(r, call[r])'
    BY <1>1, <1>2, <1>4 DEF RegistroCall, Inserting, GoesTo, GoesAs, NotYet
  <1> QED
    BY <1>1, <1>3, <1>5, RegistrosQuiet DEF RowsFor, RowsOf

(* A statement of the transaction of the INSERT, before its COMMIT.        *)
LEMMA RegistroHeld ==
  ASSUME BaseInv, RegistrosInv, area' = area, area = "habitos",
         UNCHANGED <<registros, registered>>, NEW r \in InFlight, Registering(call[r]),
         NEW read, NEW label \in {"exists", "streak", "commit"}, Keep(r, read, label),
         IsHand(read), read.registro = call[r].read.registro,
         read.registro.id = <<r, call[r].arg>>
  PROVE  RegistrosInv'
  <1>1. r \in Requests /\ Moves(r) /\ GoesTo(r, label) /\ call'[r].read = read /\ alone' = alone
    BY KeepWorks DEF BaseInv, Works
  <1>2. NotYet(r) /\ RowToSave(r, call[r].id, call[r].arg, read.registro)
    BY <1>1 DEF RegistrosInv, RegistroCall, Unsaved
  <1>3. PICK h, d, x : h = call[r].id /\ d = call[r].arg /\ x = read.registro
    OBVIOUS
  <1>4. RowToSave(r, h, d, x)'
    BY <1>1, <1>2, <1>3 DEF RowToSave, RowsFor, RowsOf
  <1>5. RegistroCall(r, call[r])'
    BY <1>1, <1>2, <1>3, <1>4 DEF RegistroCall, GoesTo, GoesAs, NotYet
  <1> QED
    BY <1>1, <1>5, RegistrosQuiet

LEMMA RegistrarSteps ==
  ASSUME BaseInv, RegistrosInv, area' = area, area = "habitos", NEW r \in Requests,
         RegistrarHabitoHandler(r)
  PROVE  RegistrosInv'
  <1>0. r \in InFlight /\ HandlersOK /\ Solo
    BY DEF RegistrarHabitoHandler, saveRegistro, ExistsStreak, WriteStreak, CommitRegistro,
           Permit, On, At, InFlight, BaseInv
  <1>1. CASE UNCHANGED <<registros, registered>> /\ \E status : Reply(r, status)
    BY <1>0, <1>1, RegistrosPasses
  <1>2. CASE /\ UNCHANGED <<registros, registered>>
             /\ On(r, "registrar", "check") /\ Goto(r, "findRegistro")
    <2>1. Moves(r) /\ call'[r].pc = "findRegistro"
      BY <1>0, <1>2, GotoWorks DEF Works, GoesTo, GoesAs
    <2>2. NotYet(r)
      BY <1>2 DEF RegistrosInv, RegistroCall, Unsaved, On, At
    <2>3. RegistroCall(r, call[r])' /\ ~ Registering(call'[r])
      BY <1>2, <2>1, <2>2 DEF RegistroCall, NotYet, Registering, Inserting
    <2> QED
      BY <1>2, <2>1, <2>3, RegistrosQuiet
  <1>3. CASE /\ On(r, "registrar", "findRegistro") /\ UNCHANGED <<registros, registered>>
             /\ LET found == RowsFor(call[r].id, call[r].arg)
                IN  IF found = {}
                    THEN Keep(r, InHand([id |-> <<r, call[r].arg>>, habito |-> call[r].id,
                                         data |-> call[r].arg, vezes |-> 1]), "save")
                    ELSE \E x \in found : Keep(r, InHand(Incremented(x)), "save")
    <2>1. PICK h, d : h = call[r].id /\ d = call[r].arg
      OBVIOUS
    <2>2. PICK x : /\ Keep(r, InHand(x), "save")
                   /\ \/ /\ RowsFor(h, d) = {}
                         /\ x = [id |-> <<r, d>>, habito |-> h, data |-> d, vezes |-> 1]
                      \/ \E y \in RowsFor(h, d) : x = Incremented(y)
      BY <1>3, <2>1
    <2> QED
      BY <1>0, <1>3, <2>1, <2>2, RegistroRead
  <1>4. ASSUME Registering(call[r])
        PROVE  /\ IsHand(call[r].read)
               /\ NotYet(r) /\ RowToSave(r, call[r].id, call[r].arg, call[r].read.registro)
               /\ Inserting(call[r]) => call[r].read.registro.id = <<r, call[r].arg>>
               /\ \A y \in registros : y.id # <<r, call[r].arg>>
    <2>1. /\ IsHand(call[r].read)
          /\ NotYet(r) /\ RowToSave(r, call[r].id, call[r].arg, call[r].read.registro)
          /\ Inserting(call[r]) => call[r].read.registro.id = <<r, call[r].arg>>
      BY <1>4 DEF RegistrosInv, RegistroCall, Unsaved
    <2>2. ASSUME NEW y \in registros, y.id = <<r, call[r].arg>>
          PROVE  FALSE
      <3>1. y.id[1] = r
        BY <2>2
      <3> QED
        BY <2>1, <2>2, <3>1 DEF RegistrosInv, RegistrosOK, NotYet
    <2> QED
      BY <2>1, <2>2
  <1>5. CASE saveRegistro(r)
    <2>1. Registering(call[r]) /\ call[r].pc = "save"
      BY <1>5 DEF saveRegistro, On, At, Registering
    <2>2. PICK x, old : x = call[r].read.registro /\ old = {y \in registros : y.id = x.id}
      OBVIOUS
    <2>3. CASE /\ registros' = (registros \ old) \cup {x}
               /\ registered' = registered \cup {Registered(r)} /\ Goto(r, "uncache")
      <3>1. registros' = {y \in registros : y.id # x.id} \cup {x}
        BY <2>2, <2>3
      <3> QED
        BY <1>0, <2>1, <2>2, <2>3, <3>1, RegistroSaved
    <2>4. CASE /\ old = {} /\ UNCHANGED <<registros, registered>>
               /\ \E atual : Keep(r, [call[r].read EXCEPT !.atual = atual], "exists")
      <3>1. PICK atual : Keep(r, [call[r].read EXCEPT !.atual = atual], "exists")
        BY <2>4
      <3>2. PICK read : read = [call[r].read EXCEPT !.atual = atual]
        OBVIOUS
      <3>3. Keep(r, read, "exists")
        BY <3>1, <3>2, Zenon
      <3>4. IsHand(read) /\ read.registro = call[r].read.registro
        BY <1>4, <2>1, <3>2 DEF IsHand
      <3>5. x.id = <<r, call[r].arg>>
        BY <1>4, <2>1, <2>2, <2>4 DEF RowToSave, RowsFor, RowsOf
      <3> QED
        BY <1>0, <2>1, <2>2, <2>4, <3>3, <3>4, <3>5, RegistroHeld
    <2>5. PICK atual : atual = recalculaStreak(RowsOf(x.habito) \cup {x})
      BY Zenon
    <2>6. \/ /\ old # {} /\ registros' = (registros \ old) \cup {x}
             /\ registered' = registered \cup {Registered(r)} /\ Goto(r, "uncache")
          \/ /\ old = {} /\ Keep(r, [call[r].read EXCEPT !.atual = atual], "exists")
             /\ UNCHANGED <<registros, registered>>
      BY <1>5, <2>2, <2>5, Zenon DEF saveRegistro
    <2> HIDE <2>2, <2>5
    <2> QED
      BY <2>3, <2>4, <2>6
  <1>6. CASE ExistsStreak(r) \/ WriteStreak(r)
    <2>1. PICK found, label : /\ label \in {"streak", "commit"}
                              /\ Keep(r, [call[r].read EXCEPT !.found = found], label)
      BY <1>6, Zenon DEF ExistsStreak, WriteStreak
    <2>2. Registering(call[r]) /\ Inserting(call[r]) /\ UNCHANGED <<registros, registered>>
      BY <1>6 DEF ExistsStreak, WriteStreak, On, At, Registering, Inserting, HabitoReads, habito_rows
    <2>3. PICK read : read = [call[r].read EXCEPT !.found = found]
      OBVIOUS
    <2>4. Keep(r, read, label)
      BY <2>1, <2>3, Zenon
    <2>5. IsHand(read) /\ read.registro = call[r].read.registro
      BY <1>4, <2>2, <2>3 DEF IsHand
    <2> QED
      BY <1>0, <1>4, <2>1, <2>2, <2>4, <2>5, RegistroHeld
  <1>7. CASE CommitRegistro(r)
    <2>1. Registering(call[r]) /\ Inserting(call[r])
      BY <1>7 DEF CommitRegistro, On, At, Registering, Inserting
    <2>2. PICK x : x = call[r].read.registro
      OBVIOUS
    <2>3. /\ registros' = registros \cup {x} /\ Goto(r, "uncache")
          /\ registered' = registered \cup {Registered(r)}
      BY <1>7, <2>2 DEF CommitRegistro
    <2>4. registros' = {y \in registros : y.id # x.id} \cup {x}
      BY <1>4, <2>1, <2>2, <2>3
    <2> QED
      BY <1>0, <2>1, <2>2, <2>3, <2>4, RegistroSaved
  <1> QED
    BY <1>1, <1>2, <1>3, <1>5, <1>6, <1>7
       DEF RegistrarHabitoHandler, Permit, HabitoReads, habito_rows, UncacheRegistro, RowsFor

LEMMA RegistrosSteps ==
  ASSUME BaseInv, RegistrosInv, area' = area, NEW r \in Requests, InHabitos(r)
  PROVE  RegistrosInv'
  <1>1. area = "habitos"
    BY DEF InHabitos
  <1>2. CASE HabitosArrival(r)
    BY <1>1, <1>2, RegistrosArrives
  <1>3. CASE RegistrarHabitoHandler(r)
    BY <1>1, <1>3, RegistrarSteps
  <1>4. CASE LeaveOut(r)
    <2>1. Moves(r) /\ call'[r].pc = "each" /\ UNCHANGED <<registros, registered>>
      BY <1>4, LeaveOutWorks DEF Works, LeaveOut, HabitoReads, habito_rows
    <2> QED
      BY <2>1, RegistroElsewhere, RegistrosQuiet
  <1>5. CASE \/ CreateHabitoHandler(r) \/ UpdateHabitoHandler(r)
             \/ DeleteHabitoHandler(r) \/ GetHabitosByBlocoHandler(r)
    <2>1. r \in InFlight /\ call[r].op # "registrar" /\ UNCHANGED <<registros, registered>>
      BY <1>5 DEF CreateHabitoHandler, UpdateHabitoHandler, DeleteHabitoHandler,
           GetHabitosByBlocoHandler, Permit, On, At, InFlight, habito_rows
    <2>2. \/ \E status : Reply(r, status)
          \/ \E label : label # "idle" /\ (Goto(r, label) \/ \E read : Keep(r, read, label))
      <3>1. CASE CreateHabitoHandler(r)
        BY <3>1 DEF CreateHabitoHandler, Permit
      <3>2. CASE UpdateHabitoHandler(r)
        BY <3>2 DEF UpdateHabitoHandler, Permit
      <3>3. CASE DeleteHabitoHandler(r)
        BY <3>3 DEF DeleteHabitoHandler, Permit
      <3>4. CASE GetHabitosByBlocoHandler(r)
        BY <3>4 DEF GetHabitosByBlocoHandler, Permit, GetCache, SetCache
      <3> QED
        BY <1>5, <3>1, <3>2, <3>3, <3>4
    <2> QED
      BY <2>1, <2>2, RegistrosPasses
  <1> QED
    BY <1>1, <1>2, <1>3, <1>4, <1>5 DEF InHabitos, HabitosStep

LEMMA RegistrosNext ==
  ASSUME BaseInv, RegistrosInv, [Next]_vars
  PROVE  RegistrosInv'
  <1>1. ASSUME UNCHANGED area, NEW r \in Requests, InHabitos(r)
        PROVE  RegistrosInv'
    BY <1>1, RegistrosSteps
  <1>2. ASSUME UNCHANGED area, NEW r \in Requests, InListas(r) \/ InColecoes(r) \/ InAgenda(r)
        PROVE  RegistrosInv'
    BY <1>2 DEF InListas, InColecoes, InAgenda, habito_rows, RegistrosInv
  <1>3. ASSUME UNCHANGED area, NEW r \in Requests, Rejected(r) \/ Fail(r)
        PROVE  RegistrosInv'
    <2>1. Moves(r) /\ call'[r].pc = "done" /\ UNCHANGED <<registros, registered>>
      BY <1>3, EndMoves DEF Rejected, Fail, habito_rows
    <2> QED
      BY <1>3, <2>1, RegistroElsewhere, RegistrosQuiet
  <1>4. CASE (UNCHANGED area /\ (Expiry \/ Midnight)) \/ UNCHANGED vars
    <2>1. UNCHANGED <<call, answer, failures, alone, registros, registered, area>>
      BY <1>4 DEF Expiry, Expire, Midnight, vars, handlers, habito_rows
    <2>2. Overlapped' = Overlapped
      BY <2>1 DEF Overlapped, At
    <2>3. /\ RegistrosOK' <=> RegistrosOK
          /\ OneRow' <=> OneRow
          /\ \A f : Credits(f)' <=> Credits(f)
      BY <2>1, <2>2 DEF RegistrosOK, OneRow, RowsFor, RowsOf, Marks, Credits, Credited
    <2>4. \A r \in Requests : RegistroCall(r, call[r])' <=> RegistroCall(r, call[r])
      BY <2>1 DEF RegistroCall, NotYet, RowToSave, RowsFor, RowsOf
    <2> QED
      BY <2>1, <2>3, <2>4 DEF RegistrosInv
  <1> QED
    BY <1>1, <1>2, <1>3, <1>4 DEF Next, vars

(* The rows of a hábito on a day hold no more than was registered, and     *)
(* exactly that, in one row, where the requests that registered it ran     *)
(* alone: a registro is looked for, incremented in memory and saved whole  *)
(* (RegistrarHabitoHandler, HabitoRepository.saveRegistro).                *)
THEOREM RegistrosAreCounted == Spec => []RegistrosCount
  <1>1. ASSUME RegistrosInv
        PROVE  RegistrosCount
    <2>1. CASE area # "habitos"
      BY <1>1, <2>1 DEF RegistrosInv, RegistrosCount
    <2>2. CASE area = "habitos"
      <3>1. RegistrosOK /\ OneRow
        BY <1>1, <2>2 DEF RegistrosInv
      <3>2. PICK f : Credits(f)
        BY <1>1, <2>2 DEF RegistrosInv
      <3>3. ASSUME NEW q \in registered, NEW rows, rows = RowsFor(q.habito, q.data),
                   NEW asked, asked = Marks(q.habito, q.data)
            PROVE  /\ Total(rows) <= Cardinality(asked)
                   /\ {p.by : p \in asked} \cap Overlapped = {}
                         => Total(rows) = Cardinality(asked) /\ Cardinality(rows) <= 1
        <4>1. rows \subseteq registros /\ IsFiniteSet(rows) /\ IsFiniteSet(asked)
          BY <3>1, <3>3, FS_Subset DEF RegistrosOK, RowsFor, RowsOf, Marks
        <4>2. ASSUME NEW x \in rows
              PROVE  x.vezes \in Nat /\ x.vezes <= Cardinality({p \in asked : f[p] = x.id})
          <5>1. Credited(f, x.id) = {p \in asked : f[p] = x.id}
            BY <3>1, <3>2, <3>3, <4>2 DEF Credits, Credited, RegistrosOK, RowsFor, RowsOf, Marks
          <5> QED
            BY <3>1, <3>2, <4>1, <4>2, <5>1 DEF Credits, RegistrosOK
        <4>3. \A x, y \in rows : x.id = y.id => x = y
          BY <3>1, <4>1 DEF RegistrosOK
        <4>4. Total(rows) <= Cardinality(asked)
          BY <4>1, <4>2, <4>3, TotalAtMost
        <4>5. ASSUME {p.by : p \in asked} \cap Overlapped = {}
              PROVE  Total(rows) = Cardinality(asked) /\ Cardinality(rows) <= 1
          <5>1. PICK z \in registros : rows = {z} /\ z.vezes = Cardinality(asked)
            BY <3>1, <3>3, <4>5 DEF OneRow
          <5>2. Total({z}) = z.vezes + Total({}) /\ z.vezes \in Nat
            <6>1. \A x \in {z} : x.vezes \in Nat
              BY <3>1 DEF RegistrosOK
            <6>2. IsFiniteSet({z}) /\ {z} \ {z} = {}
              BY FS_Singleton
            <6> QED
              BY <6>1, <6>2, TotalTakes
          <5>3. Total({}) = 0
            BY FS_EmptySet, TotalStep
          <5>4. Cardinality(rows) = 1
            BY <5>1, FS_Singleton
          <5> QED
            BY <5>1, <5>2, <5>3, <5>4
        <4> QED
          BY <4>4, <4>5
      <3> QED
        BY <3>1, <3>3 DEF RegistrosCount, RowsFor, Marks, RegistrosOK
    <2> QED
      BY <2>1, <2>2
  <1>2. ConteudoInv /\ RegistrosInv /\ [Next]_vars => RegistrosInv'
    BY RegistrosNext DEF ConteudoInv
  <1> QED
    BY <1>1, <1>2, RegistrosInit_, ConteudoInvariant, PTL DEF Spec

-----------------------------------------------------------------------------
(* The three streaks of a hábito                                           *)

LEMMA LeastNumber ==
  ASSUME NEW T, T \subseteq Nat, T # {}
  PROVE  \E x \in T : \A y \in T : x <= y
  <1>1. PICK x \in T : \A y \in T : ~ (<<y, x>> \in OpToRel(<, Nat))
    BY NatLessThanWellFounded, WFMin
  <1>2. \A y \in T : ~ (y < x)
    BY <1>1 DEF OpToRel
  <1> QED
    BY <1>2

LEMMA SomeGreatest ==
  ASSUME NEW S, IsFiniteSet(S)
  PROVE  \A t \in SUBSET S : t \subseteq Nat /\ t # {} => \E x \in t : \A y \in t : x >= y
  <1> DEFINE HasMax(t) == \E x \in t : \A y \in t : x >= y
             Bad == {t \in SUBSET S : t \subseteq Nat /\ t # {} /\ ~ HasMax(t)}
  <1>1. ASSUME Bad # {} PROVE FALSE
    <2>1. PICK t \in Bad : \A u \in Bad : ~ (u \subseteq t /\ u # t)
      <3>1. Bad \subseteq SUBSET S
        OBVIOUS
      <3> HIDE DEF Bad
      <3> QED
        BY <1>1, <3>1, LeastSet
    <2>2. t \subseteq S /\ t \subseteq Nat /\ ~ HasMax(t)
      OBVIOUS
    <2>3. PICK x \in t : TRUE
      OBVIOUS
    <2>4. CASE t \ {x} = {}
      <3>1. \A y \in t : x >= y
        BY <2>2, <2>3, <2>4
      <3> QED
        BY <2>2, <2>3, <3>1
    <2>5. CASE t \ {x} # {}
      <3>1. PICK u : u = t \ {x}
        OBVIOUS
      <3>2. u \notin Bad /\ u \in SUBSET S /\ u \subseteq Nat
        BY <2>1, <2>2, <2>3, <3>1
      <3>3. PICK y \in u : \A z \in u : y >= z
        BY <2>5, <3>1, <3>2
      <3>4. x \in Nat /\ y \in Nat /\ y \in t /\ \A z \in t : z = x \/ z \in u
        BY <2>2, <2>3, <3>1, <3>3
      <3>5. HasMax(t)
        <4>1. CASE x >= y
          <5>1. \A z \in t : x >= z
            BY <2>2, <3>3, <3>4, <4>1
          <5> QED
            BY <2>3, <5>1
        <4>2. CASE y >= x
          BY <3>3, <3>4, <4>2
        <4> QED
          BY <3>4, <4>1, <4>2
      <3> QED
        BY <2>2, <3>5
    <2> QED
      BY <2>4, <2>5
  <1> QED
    BY <1>1

LEMMA MaxIs ==
  ASSUME NEW S, IsFiniteSet(S), S \subseteq Nat, S # {}
  PROVE  Max(S) \in S /\ \A y \in S : y <= Max(S)
  <1>1. \E x \in S : \A y \in S : x >= y
    BY SomeGreatest
  <1>2. Max(S) \in S /\ \A y \in S : Max(S) >= y
    BY <1>1 DEF Max
  <1> QED
    BY <1>2

(* The dates of rows, as a query ordered by date returns them.             *)
Ordered(dates, n, days) ==
    /\ dates \in [1 .. n -> days]
    /\ \A k, l \in 1 .. n : k <= l => dates[k] <= dates[l]
    /\ \A day \in days : \E k \in 1 .. n : dates[k] = day

LEMMA DatesOrdered ==
  ASSUME NEW rows, IsFiniteSet(rows), NEW days, days = {x.data : x \in rows}, days \subseteq Days,
         NEW n, n = Cardinality(rows)
  PROVE  n \in Nat /\ IsFiniteSet(days) /\ Ordered(DatesInOrder(rows), n, days)
  <1> DEFINE Before(d) == {x \in rows : x.data < d}
             UpTo(d) == {x \in rows : x.data <= d}
  <1>1. n \in Nat /\ days \subseteq Nat /\ IsFiniteSet(days) /\ \A x \in rows : x.data \in Nat
    BY FS_CardinalityType, FS_Subset, HabitosAssumption
  <1>2. \A d : /\ IsFiniteSet(Before(d)) /\ Cardinality(Before(d)) \in Nat
               /\ IsFiniteSet(UpTo(d)) /\ Cardinality(UpTo(d)) \in Nat
               /\ Cardinality(UpTo(d)) <= n
    <2>1. \A T : T \subseteq rows => /\ IsFiniteSet(T) /\ Cardinality(T) \in Nat
                                     /\ Cardinality(T) <= n
      BY FS_Subset, FS_CardinalityType
    <2> QED
      BY <2>1
  <1>3. ASSUME NEW c \in Nat, NEW d \in Nat, c <= d
        PROVE  /\ Cardinality(Before(c)) <= Cardinality(UpTo(c))
               /\ Cardinality(UpTo(c)) <= Cardinality(UpTo(d))
               /\ c < d => Cardinality(UpTo(c)) <= Cardinality(Before(d))
    <2>1. /\ \A x \in Before(c) : x \in UpTo(c)
          /\ \A x \in UpTo(c) : x \in UpTo(d)
      BY <1>1, <1>3
    <2>2. c < d => \A x \in UpTo(c) : x \in Before(d)
      BY <1>1, <1>3
    <2> HIDE DEF Before, UpTo
    <2> QED
      BY <1>2, <2>1, <2>2, FS_Subset
  <1>4. ASSUME NEW k \in 1 .. n
        PROVE  \E day \in days : Cardinality(Before(day)) < k /\ k <= Cardinality(UpTo(day))
    <2> DEFINE T == {d \in Nat : k <= Cardinality(UpTo(d))}
    <2>1. T # {}
      <3>1. rows # {}
        BY <1>1, <1>4, FS_EmptySet
      <3>2. days # {}
        BY <3>1
      <3>3. Max(days) \in Nat /\ \A y \in days : y <= Max(days)
        BY <1>1, <3>2, MaxIs
      <3>4. UpTo(Max(days)) = rows
        BY <3>3
      <3> QED
        BY <1>4, <3>3, <3>4
    <2>2. PICK d \in T : \A e \in T : d <= e
      <3>1. T \subseteq Nat
        OBVIOUS
      <3> HIDE DEF T
      <3> QED
        BY <2>1, <3>1, LeastNumber
    <2>3. d \in Nat /\ k <= Cardinality(UpTo(d))
      BY <2>2
    <2>4. Cardinality(Before(d)) < k
      <3>1. CASE d = 0
        <4>1. Before(d) = {}
          BY <1>1, <3>1
        <4>2. Cardinality(Before(d)) = 0
          BY <4>1, FS_EmptySet
        <4>3. k > 0
          BY <1>1, <1>4
        <4> HIDE DEF Before
        <4> QED
          BY <4>2, <4>3
      <3>2. CASE d # 0
        <4>1. d - 1 \in Nat /\ d - 1 \notin T
          BY <2>2, <2>3, <3>2
        <4>2. ~ (k <= Cardinality(UpTo(d - 1)))
          BY <4>1
        <4>3. Before(d) = UpTo(d - 1)
          BY <1>1, <2>3
        <4>4. Cardinality(UpTo(d - 1)) \in Nat
          BY <1>2
        <4>5. k \in Nat
          BY <1>1, <1>4
        <4> HIDE DEF Before, UpTo
        <4> QED
          BY <4>2, <4>3, <4>4, <4>5
      <3> QED
        BY <3>1, <3>2
    <2>5. d \in days
      <3>1. ASSUME d \notin days
            PROVE  Before(d) = UpTo(d)
        BY <1>1, <2>3, <3>1
      <3> HIDE DEF Before, UpTo
      <3> QED
        BY <1>2, <1>4, <2>3, <2>4, <3>1
    <2> QED
      BY <2>3, <2>4, <2>5
  <1>5. PICK dates : dates = DatesInOrder(rows)
    OBVIOUS
  <1>6. dates = [k \in 1 .. n |-> CHOOSE day \in Days : /\ Cardinality(Before(day)) < k
                                                        /\ k <= Cardinality(UpTo(day))]
    BY <1>5 DEF DatesInOrder
  <1>7. ASSUME NEW k \in 1 .. n
        PROVE  /\ dates[k] \in Days
               /\ Cardinality(Before(dates[k])) < k /\ k <= Cardinality(UpTo(dates[k]))
    <2>1. \E day \in Days : Cardinality(Before(day)) < k /\ k <= Cardinality(UpTo(day))
      BY <1>4
    <2> HIDE DEF Before, UpTo
    <2> QED
      BY <1>6, <2>1
  <1> HIDE <1>5, <1>6
  <1>8. \A k \in 1 .. n : dates[k] \in Nat
    BY <1>7, HabitosAssumption
  <1>9. \A k \in 1 .. n : dates[k] \in days
    <2>1. ASSUME NEW k \in 1 .. n, dates[k] \notin days
          PROVE  FALSE
      <3>1. Before(dates[k]) = UpTo(dates[k])
        BY <1>1, <1>8, <2>1
      <3>2. /\ Cardinality(Before(dates[k])) < k /\ k <= Cardinality(UpTo(dates[k]))
            /\ Cardinality(UpTo(dates[k])) \in Nat /\ k \in Nat
        <4>1. k \in Nat
          BY <1>1
        <4> HIDE DEF Before, UpTo
        <4> QED
          BY <1>2, <1>7, <4>1
      <3> HIDE DEF Before, UpTo
      <3> QED
        BY <3>1, <3>2
    <2> QED
      BY <2>1
  <1>10. ASSUME NEW k \in 1 .. n, NEW l \in 1 .. n, k <= l
         PROVE  dates[k] <= dates[l]
    <2>1. ASSUME dates[l] < dates[k] PROVE FALSE
      <3>1. Cardinality(UpTo(dates[l])) <= Cardinality(Before(dates[k]))
        <4> HIDE DEF Before, UpTo
        <4> QED
          BY <1>3, <1>8, <2>1
      <3>2. Cardinality(Before(dates[k])) < k /\ l <= Cardinality(UpTo(dates[l]))
        BY <1>7
      <3>3. Cardinality(UpTo(dates[l])) \in Nat /\ Cardinality(Before(dates[k])) \in Nat
        BY <1>2
      <3> HIDE DEF Before, UpTo
      <3> QED
        BY <1>1, <1>10, <3>1, <3>2, <3>3
    <2> QED
      BY <1>8, <2>1
  <1>11. ASSUME NEW day \in days
         PROVE  \E k \in 1 .. n : dates[k] = day
    <2>1. PICK k : k = Cardinality(UpTo(day))
      OBVIOUS
    <2>2. Cardinality(Before(day)) < k
      <3>1. PICK x \in rows : x.data = day
        OBVIOUS
      <3>2. x \in UpTo(day) /\ x \notin Before(day) /\ Before(day) \subseteq UpTo(day)
        <4>1. \A y \in rows : y.data < day => y.data <= day
          BY <1>1
        <4>2. day <= day /\ ~ (day < day)
          BY <1>1
        <4> QED
          BY <3>1, <4>1, <4>2
      <3> HIDE DEF Before, UpTo
      <3>3. Before(day) # UpTo(day) /\ Cardinality(Before(day)) <= Cardinality(UpTo(day))
        BY <1>2, <3>2, FS_Subset
      <3>4. Cardinality(Before(day)) # Cardinality(UpTo(day))
        BY <1>2, <3>2, <3>3, FS_Subset
      <3> QED
        BY <1>2, <2>1, <3>3, <3>4
    <2>3. k \in 1 .. n /\ day \in Nat
      <3>1. k <= n /\ k \in Nat /\ Cardinality(Before(day)) \in Nat
        BY <1>2, <2>1
      <3> QED
        BY <1>1, <2>2, <3>1
    <2>4. /\ dates[k] \in Nat
          /\ Cardinality(Before(dates[k])) < k /\ k <= Cardinality(UpTo(dates[k]))
      BY <1>7, <1>8, <2>3
    <2>5. ASSUME dates[k] < day PROVE FALSE
      <3>1. Cardinality(UpTo(dates[k])) <= Cardinality(Before(day))
        <4> HIDE DEF Before, UpTo
        <4> QED
          BY <1>3, <2>3, <2>4, <2>5
      <3>2. Cardinality(UpTo(dates[k])) \in Nat /\ Cardinality(Before(day)) \in Nat
        BY <1>2
      <3> HIDE DEF Before, UpTo
      <3> QED
        BY <2>2, <2>3, <2>4, <3>1, <3>2
    <2>6. ASSUME day < dates[k] PROVE FALSE
      <3>1. Cardinality(UpTo(day)) <= Cardinality(Before(dates[k]))
        <4> HIDE DEF Before, UpTo
        <4> QED
          BY <1>3, <2>3, <2>4, <2>6
      <3>2. Cardinality(Before(dates[k])) \in Nat
        BY <1>2
      <3> HIDE DEF Before, UpTo
      <3> QED
        BY <2>1, <2>3, <2>4, <3>1, <3>2
    <2> QED
      BY <2>3, <2>4, <2>5, <2>6
  <1>12. dates = [k \in 1 .. n |-> dates[k]]
    <2> HIDE DEF Before, UpTo
    <2> QED
      BY <1>6
  <1>13. dates \in [1 .. n -> days]
    BY <1>9, <1>12
  <1> QED
    BY <1>1, <1>5, <1>10, <1>11, <1>13 DEF Ordered


(* What a fold over the first m indices gives, one index after the other.  *)
LEMMA PrefixFolds ==
  ASSUME NEW k, k.of # "sum", NEW n \in Nat
  PROVE  /\ IsFiniteSet(1 .. n) /\ Choosing(k, 1 .. n)
         /\ \E f : Folds(k, f, 1 .. n)
         /\ \A f : Folds(k, f, 1 .. n) =>
               /\ f[1 .. 0] = Start(k)
               /\ \A m \in 1 .. n : f[1 .. m] = Then(k, m, f[1 .. m - 1])
  <1>1. IsFiniteSet(1 .. n)
    BY FS_Interval
  <1>2. Choosing(k, 1 .. n)
    <2>1. ASSUME NEW s \in SUBSET (1 .. n), s # {}
          PROVE  Max(s) \in s
      <3>1. IsFiniteSet(s)
        BY <1>1, FS_Subset
      <3>2. s \subseteq Nat
        OBVIOUS
      <3> QED
        BY <2>1, <3>1, <3>2, MaxIs
    <2> QED
      BY <2>1 DEF Choosing, Chosen
  <1>3. ASSUME NEW f, Folds(k, f, 1 .. n)
        PROVE  /\ f[1 .. 0] = Start(k)
               /\ \A m \in 1 .. n : f[1 .. m] = Then(k, m, f[1 .. m - 1])
    <2>1. f[1 .. 0] = Start(k)
      <3>1. 1 .. 0 = {} /\ {} \in SUBSET (1 .. n)
        OBVIOUS
      <3>2. f[{}] = Start(k)
        BY <1>3, <3>1 DEF Folds
      <3> QED
        BY <3>1, <3>2
    <2>2. ASSUME NEW m \in 1 .. n
          PROVE  f[1 .. m] = Then(k, m, f[1 .. m - 1])
      <3>1. PICK s : s = 1 .. m
        OBVIOUS
      <3>2. s \in SUBSET (1 .. n) /\ s # {} /\ m \in s /\ \A y \in s : y <= m
        BY <3>1
      <3>3. Max(s) = m
        <4>0. IsFiniteSet(s)
          BY <1>1, <3>2, FS_Subset
        <4>1. s \subseteq Nat
          BY <3>2
        <4>2. Max(s) \in s /\ m <= Max(s)
          BY <3>2, <4>0, <4>1, MaxIs
        <4>3. Max(s) \in Nat /\ m \in Nat /\ Max(s) <= m
          BY <3>2, <4>1, <4>2
        <4> QED
          BY <4>2, <4>3
      <3>4. s \ {m} = 1 .. m - 1
        BY <3>1
      <3>5. Chosen(k, s) = m
        BY <3>3 DEF Chosen
      <3>6. f[s] = Then(k, m, f[s \ {m}])
        BY <1>3, <3>2, <3>5 DEF Folds
      <3> QED
        BY <3>1, <3>4, <3>6
    <2> QED
      BY <2>1, <2>2
  <1> QED
    BY <1>1, <1>2, <1>3, FoldsExists

(* getStreak folds the loop over its dates.                                *)
LEMMA GetStreakFolds ==
  ASSUME NEW rows, NEW n \in Nat, n = Cardinality(rows)
  PROVE  \E f : Folds(Loop(DatesInOrder(rows)), f, 1 .. n) /\ getStreak(rows) = f[1 .. n]
  <1> DEFINE Literal(dates, f, S) ==
               f = [s \in SUBSET S |->
                      IF s = {} THEN [atual |-> 0, maximo |-> 0, last |-> Nobody]
                      ELSE LoopDay(f[s \ {Max(s)}], dates[Max(s)])]
             Folded(dates) == (CHOOSE f : Literal(dates, f, DOMAIN dates))[DOMAIN dates]
  <1>1. PICK dates : dates = DatesInOrder(rows)
    BY Zenon
  <1>2. DOMAIN dates = 1 .. n
    BY <1>1 DEF DatesInOrder
  <1>3. getStreak(rows) = (CHOOSE f : Literal(dates, f, DOMAIN dates))[DOMAIN dates]
    <2>1. getStreak(rows) = Folded(DatesInOrder(rows))
      BY DEF getStreak, FoldLeft, MapThenFoldSet, LoopDay
    <2> HIDE DEF Folded
    <2>2. getStreak(rows) = Folded(dates)
      BY <1>1, <2>1, Zenon
    <2> USE DEF Folded
    <2> HIDE DEF Literal
    <2> QED
      BY <2>2, Zenon
  <1>4. PICK k : k = Loop(dates)
    BY Zenon
  <1>5. ASSUME NEW f
        PROVE  Literal(dates, f, 1 .. n) <=> Folds(k, f, 1 .. n)
    <2>1. \A s : Chosen(k, s) = Max(s)
      BY <1>4 DEF Loop, Chosen
    <2>2. \A x, s : Then(k, x, s) = LoopDay(s, dates[x])
      BY <1>4 DEF Loop, Then
    <2>3. Start(k) = [atual |-> 0, maximo |-> 0, last |-> Nobody]
      BY <1>4 DEF Loop, Start
    <2>4. \A s : LoopDay(f[s \ {Max(s)}], dates[Max(s)]) = Then(k, Chosen(k, s), f[s \ {Chosen(k, s)}])
      BY <2>1, <2>2, Zenon
    <2>5. [s \in SUBSET (1 .. n) |->
             IF s = {} THEN [atual |-> 0, maximo |-> 0, last |-> Nobody]
             ELSE LoopDay(f[s \ {Max(s)}], dates[Max(s)])]
          = [s \in SUBSET (1 .. n) |->
               IF s = {} THEN Start(k) ELSE Then(k, Chosen(k, s), f[s \ {Chosen(k, s)}])]
      BY <2>3, <2>4
    <2> QED
      BY <2>5, Zenon DEF Folds
  <1>6. k.of # "sum"
    BY <1>4 DEF Loop
  <1>7. \E f : Literal(dates, f, 1 .. n)
    BY <1>5, <1>6, PrefixFolds, Zenon
  <1>8. PICK g : g = CHOOSE f : Literal(dates, f, 1 .. n)
    BY Zenon
  <1> HIDE DEF Literal
  <1>9. Literal(dates, g, 1 .. n)
    BY <1>7, <1>8, Zenon
  <1>10. getStreak(rows) = g[1 .. n]
    BY <1>2, <1>3, <1>8, Zenon
  <1> QED
    BY <1>1, <1>4, <1>5, <1>9, <1>10, Zenon

(* StreakDomainService folds its walk over the second date and the rest.   *)
LEMMA CalculateFolds ==
  ASSUME NEW dates, NEW n \in Nat, DOMAIN dates = 1 .. n, Len(dates) = n, n # 0
  PROVE  \E f : /\ Folds(Service(dates), f, 1 .. n - 1)
                /\ calculate(dates) =
                      [atual |-> IF today - dates[n] <= 1 THEN f[1 .. n - 1].run ELSE 0,
                       maximo |-> f[1 .. n - 1].maximo]
  <1> DEFINE Literal(f, seq, S) ==
               f = [s \in SUBSET S |->
                      IF s = {} THEN [run |-> 1, maximo |-> 1]
                      ELSE ServiceDay(dates, f[s \ {Max(s)}], seq[Max(s)])]
             Walk(seq) == (CHOOSE f : Literal(f, seq, DOMAIN seq))[DOMAIN seq]
  <1>1. PICK seq : seq = [m \in 1 .. Len(dates) - 1 |-> m + 1]
    OBVIOUS
  <1>2. DOMAIN seq = 1 .. n - 1
    BY <1>1
  <1>3. dates # << >>
    OBVIOUS
  <1>4. calculate(dates) =
          IF dates = << >> THEN [atual |-> 0, maximo |-> 0]
          ELSE [atual |-> IF today - dates[Len(dates)] <= 1
                          THEN Walk([m \in 1 .. Len(dates) - 1 |-> m + 1]).run ELSE 0,
                maximo |-> Walk([m \in 1 .. Len(dates) - 1 |-> m + 1]).maximo]
    BY DEF calculate, FoldLeft, MapThenFoldSet, ServiceDay, Last
  <1>5. PICK walk : walk = Walk(seq)
    BY Zenon
  <1> HIDE DEF Walk
  <1>13. calculate(dates) = [atual |-> IF today - dates[n] <= 1 THEN walk.run ELSE 0,
                             maximo |-> walk.maximo]
    BY <1>1, <1>3, <1>4, <1>5, Zenon
  <1>6. PICK k : k = Service(dates)
    BY Zenon
  <1>7. k.of # "sum"
    BY <1>6 DEF Service
  <1>8. Choosing(k, 1 .. n - 1) /\ \E f : Folds(k, f, 1 .. n - 1)
    <2>1. n - 1 \in Nat
      OBVIOUS
    <2> QED
      BY <1>7, <2>1, PrefixFolds
  <1>9. ASSUME NEW f
        PROVE  Literal(f, seq, 1 .. n - 1) <=> Folds(k, f, 1 .. n - 1)
    <2>1. \A s : Chosen(k, s) = Max(s)
      BY <1>6 DEF Service, Chosen
    <2>2. \A x, s : Then(k, x, s) = ServiceDay(dates, s, x + 1)
      BY <1>6 DEF Service, Then
    <2>3. Start(k) = [run |-> 1, maximo |-> 1]
      BY <1>6 DEF Service, Start
    <2>4. \A s \in SUBSET (1 .. n - 1) : s # {} => seq[Max(s)] = Max(s) + 1
      BY <1>1, <1>8, <2>1 DEF Choosing
    <2>5. \A s \in SUBSET (1 .. n - 1) : s # {} =>
             ServiceDay(dates, f[s \ {Max(s)}], seq[Max(s)])
             = Then(k, Chosen(k, s), f[s \ {Chosen(k, s)}])
      BY <2>1, <2>2, <2>4, Zenon
    <2>6. [s \in SUBSET (1 .. n - 1) |->
             IF s = {} THEN [run |-> 1, maximo |-> 1]
             ELSE ServiceDay(dates, f[s \ {Max(s)}], seq[Max(s)])]
          = [s \in SUBSET (1 .. n - 1) |->
               IF s = {} THEN Start(k) ELSE Then(k, Chosen(k, s), f[s \ {Chosen(k, s)}])]
      BY <2>3, <2>5
    <2> QED
      BY <2>6, Zenon DEF Folds
  <1>10. PICK g : g = CHOOSE f : Literal(f, seq, 1 .. n - 1)
    BY Zenon
  <1> HIDE DEF Literal
  <1>11. Literal(g, seq, 1 .. n - 1)
    BY <1>8, <1>9, <1>10, Zenon
  <1>12. walk = g[1 .. n - 1]
    BY <1>2, <1>5, <1>10, Zenon DEF Walk
  <1> QED
    BY <1>6, <1>9, <1>11, <1>12, <1>13, Zenon


-----------------------------------------------------------------------------
(* The streaks of a set of days                                            *)

(* Of a set of days: that k of them follow one another from day a on; how  *)
(* many do at most; and how many do up to the last.                        *)
Unbroken(D, a, k) == \A i \in Nat : a <= i /\ i < a + k => i \in D
Longest(D, m) ==
    /\ m \in Nat /\ \E a \in Nat : Unbroken(D, a, m)
    /\ \A a, k \in Nat : Unbroken(D, a, k) => k <= m
Running(D, last, c) ==
    /\ c \in Nat /\ c # 0 /\ c <= last + 1 /\ last - c \notin D
    /\ \A i \in Nat : last - c < i /\ i <= last => i \in D
Streaks(D, last, c, m) ==
    /\ D \subseteq Nat /\ last \in D /\ (\A y \in D : y <= last)
    /\ Running(D, last, c) /\ Longest(D, m) /\ c <= m

LEMMA FirstDay ==
  ASSUME NEW d \in Nat
  PROVE  Streaks({d}, d, 1, 1)
  <1>1. Running({d}, d, 1)
    BY DEF Running
  <1>2. Unbroken({d}, d, 1)
    BY DEF Unbroken
  <1>3. ASSUME NEW a \in Nat, NEW k \in Nat, Unbroken({d}, a, k), k > 1
        PROVE  FALSE
    <2>1. a \in {d} /\ a + 1 \in {d}
      BY <1>3 DEF Unbroken
    <2> QED
      BY <2>1
  <1>4. Longest({d}, 1)
    BY <1>2, <1>3 DEF Longest
  <1> QED
    BY <1>1, <1>4 DEF Streaks

(* A set of days has one last day, one current and one longest streak.     *)
LEMMA StreaksAreUnique ==
  ASSUME NEW D, NEW l, NEW c, NEW m, Streaks(D, l, c, m), NEW k, NEW d, NEW n, Streaks(D, k, d, n)
  PROVE  l = k /\ c = d /\ m = n
  <1>1. l = k /\ l \in Nat
    BY DEF Streaks
  <1>2. c \in Nat /\ d \in Nat /\ m \in Nat /\ n \in Nat
    BY DEF Streaks, Running, Longest
  <1>3. ASSUME c < d PROVE FALSE
    <2>1. l - c \in Nat /\ l - d < l - c /\ l - c <= l
      BY <1>1, <1>2, <1>3 DEF Streaks, Running
    <2> QED
      BY <1>1, <2>1 DEF Streaks, Running
  <1>4. ASSUME d < c PROVE FALSE
    <2>1. l - d \in Nat /\ l - c < l - d /\ l - d <= l
      BY <1>1, <1>2, <1>4 DEF Streaks, Running
    <2> QED
      BY <1>1, <2>1 DEF Streaks, Running
  <1>5. m <= n /\ n <= m
    BY DEF Streaks, Longest
  <1> QED
    BY <1>1, <1>2, <1>3, <1>4, <1>5

(* The next date: the same day, the day after, or one after a missed day.  *)
LEMMA NextDate ==
  ASSUME NEW D, NEW last, NEW c, NEW m, Streaks(D, last, c, m), NEW d \in Nat, last <= d,
         NEW run, run = IF d - last = 1 THEN c + 1 ELSE IF d - last > 1 THEN 1 ELSE c,
         NEW E, E = D \cup {d}
  PROVE  Streaks(E, d, run, IF run > m THEN run ELSE m)
  <1>1. last \in Nat /\ c \in Nat /\ c # 0 /\ m \in Nat /\ c <= m /\ c <= last + 1 /\ run \in Nat
    BY DEF Streaks, Running, Longest
  <1>2. /\ E \subseteq Nat /\ d \in E /\ (\A y \in E : y <= d)
        /\ \A i \in Nat : i \in E <=> i = d \/ i \in D
    BY <1>1 DEF Streaks
  <1>3. CASE d = last
    <2>1. E = D /\ run = c /\ (IF run > m THEN run ELSE m) = m
      BY <1>1, <1>3 DEF Streaks
    <2> QED
      BY <1>3, <2>1
  <1>4. CASE d # last
    <2>1. d > last /\ d \notin D
      BY <1>1, <1>4 DEF Streaks
    <2>2. Running(E, d, run)
      <3>1. CASE d - last = 1
        <4>1. d - run = last - c /\ run = c + 1 /\ run <= d + 1
          BY <1>1, <3>1
        <4>2. d - run \notin E
          BY <1>1, <2>1, <4>1 DEF Streaks, Running
        <4>3. ASSUME NEW i \in Nat, d - run < i, i <= d
              PROVE  i \in E
          <5>1. i = d \/ (last - c < i /\ i <= last)
            BY <1>1, <3>1, <4>1, <4>3
          <5> QED
            BY <1>2, <4>3, <5>1 DEF Streaks, Running
        <4> QED
          BY <1>1, <4>1, <4>2, <4>3 DEF Running
      <3>2. CASE d - last > 1
        <4>1. run = 1 /\ d - 1 > last /\ run <= d + 1
          BY <1>1, <3>2
        <4>2. d - run \notin E
          BY <1>1, <4>1 DEF Streaks
        <4>3. \A i \in Nat : d - run < i /\ i <= d => i = d
          BY <4>1
        <4> QED
          BY <1>2, <4>1, <4>2, <4>3 DEF Running
      <3> QED
        BY <1>1, <2>1, <3>1, <3>2
    <2>3. \A i \in Nat : d - run < i /\ i <= d => i \in E
      BY <2>2 DEF Running
    <2>4. run # 0 /\ run <= d + 1 /\ d - run \notin E
      BY <2>2 DEF Running
    <2>5. PICK n : n = IF run > m THEN run ELSE m
      OBVIOUS
    <2>6. n \in Nat /\ run <= n /\ m <= n
      BY <1>1, <2>5
    <2>7. \E a \in Nat : Unbroken(E, a, n)
      <3>1. CASE n = m
        <4>1. PICK a \in Nat : Unbroken(D, a, m)
          BY DEF Streaks, Longest
        <4> QED
          BY <1>2, <3>1, <4>1 DEF Unbroken
      <3>2. CASE n = run
        <4>1. PICK a \in Nat : a = d - run + 1
          BY <1>1, <2>4
        <4>2. \A i \in Nat : a <= i /\ i < a + n => d - run < i /\ i <= d
          BY <1>1, <3>2, <4>1
        <4>3. Unbroken(E, a, n)
          BY <2>3, <4>2 DEF Unbroken
        <4> QED
          BY <4>3
      <3> QED
        BY <2>5, <3>1, <3>2
    <2>8. ASSUME NEW a \in Nat, NEW k \in Nat, Unbroken(E, a, k)
          PROVE  k <= n
      <3>1. CASE d < a \/ a + k <= d
        <4>1. \A i \in Nat : a <= i /\ i < a + k => i # d
          BY <3>1
        <4>2. Unbroken(D, a, k)
          BY <1>2, <2>8, <4>1 DEF Unbroken
        <4>3. k <= m
          BY <4>2 DEF Streaks, Longest
        <4> QED
          BY <1>1, <2>6, <4>3
      <3>2. CASE a <= d /\ d < a + k
        <4>1. a + k = d + 1
          <5>1. ASSUME d + 1 < a + k PROVE FALSE
            <6>1. d + 1 \in E
              BY <2>8, <3>2, <5>1 DEF Unbroken
            <6> QED
              BY <1>2, <6>1
          <5> QED
            BY <3>2, <5>1
        <4>2. k <= run
          <5>1. ASSUME run < k PROVE FALSE
            <6>1. d - run \in Nat /\ a <= d - run /\ d - run < a + k
              BY <1>1, <2>4, <4>1, <5>1
            <6>2. d - run \in E
              BY <2>8, <6>1 DEF Unbroken
            <6> QED
              BY <2>4, <6>2
          <5> QED
            BY <1>1, <5>1
        <4> QED
          BY <1>1, <2>6, <4>2
      <3> QED
        BY <3>1, <3>2
    <2>9. Longest(E, n)
      BY <2>6, <2>7, <2>8 DEF Longest
    <2> QED
      BY <1>2, <2>2, <2>5, <2>6, <2>9 DEF Streaks
  <1> QED
    BY <1>3, <1>4

(* Of all days of a streak, the rank of which is less than that of the     *)
(* last by the days between: the current streak.                           *)
LEMMA RunByRank ==
  ASSUME NEW D, IsFiniteSet(D), NEW last, NEW c, NEW m, Streaks(D, last, c, m)
  PROVE  Cardinality({day \in D : day - Cardinality({d \in D : d <= day})
                                  = last - Cardinality({d \in D : d <= last})}) = c
  <1> DEFINE UpTo(day) == {d \in D : d <= day}
             After(day) == {d \in D : day < d /\ d <= last}
  <1>1. /\ last \in Nat /\ last \in D /\ D \subseteq Nat /\ (\A y \in D : y <= last)
        /\ c \in Nat /\ c # 0 /\ c <= last + 1 /\ last - c \notin D
        /\ \A i \in Nat : last - c < i /\ i <= last => i \in D
    BY DEF Streaks, Running
  <1>2. \A a, b \in Nat : IsFiniteSet(a .. b) /\ Cardinality(a .. b) = IF a > b THEN 0 ELSE b - a + 1
    BY FS_Interval
  <1>3. \A day : /\ IsFiniteSet(UpTo(day)) /\ Cardinality(UpTo(day)) \in Nat
                 /\ IsFiniteSet(After(day)) /\ Cardinality(After(day)) \in Nat
    <2>1. \A T : T \subseteq D => IsFiniteSet(T) /\ Cardinality(T) \in Nat
      BY FS_Subset, FS_CardinalityType
    <2> QED
      BY <2>1
  <1>4. ASSUME NEW day \in D
        PROVE  Cardinality(UpTo(last)) = Cardinality(UpTo(day)) + Cardinality(After(day))
    <2>0. \A e \in D : e <= last /\ (e <= day <=> ~ (day < e))
      <3>1. day \in Nat /\ \A e \in D : e \in Nat
        BY <1>1
      <3> QED
        BY <1>1, <3>1
    <2>1. \A e : e \in UpTo(last) <=> e \in UpTo(day) \cup After(day)
      BY <2>0
    <2>2. \A e : e \notin UpTo(day) \cap After(day)
      BY <2>0
    <2>3. Cardinality({}) = 0
      BY FS_EmptySet
    <2>4. Cardinality(UpTo(day) \cup After(day))
          = Cardinality(UpTo(day)) + Cardinality(After(day)) - Cardinality(UpTo(day) \cap After(day))
      <3> HIDE DEF UpTo, After
      <3> QED
        BY <1>3, FS_Union
    <2> HIDE DEF UpTo, After
    <2>5. UpTo(last) = UpTo(day) \cup After(day) /\ UpTo(day) \cap After(day) = {}
      BY <2>1, <2>2
    <2>6. PICK a, b : a = Cardinality(UpTo(day)) /\ b = Cardinality(After(day))
      OBVIOUS
    <2>7. a \in Nat /\ b \in Nat
      BY <1>3, <2>6
    <2>8. Cardinality(UpTo(last)) = a + b - 0
      BY <2>3, <2>4, <2>5, <2>6, Zenon
    <2>9. Cardinality(UpTo(last)) = a + b
      BY <2>7, <2>8
    <2> QED
      BY <2>6, <2>9
  <1>5. ASSUME NEW day \in D
        PROVE  Cardinality(After(day)) = last - day <=> last - c < day
    <2>0. day \in Nat /\ day <= last
      BY <1>1
    <2>1. PICK S : S = day + 1 .. last
      OBVIOUS
    <2>2. IsFiniteSet(S) /\ Cardinality(S) = last - day
      <3>1. PICK a \in Nat : a = day + 1
        BY <2>0
      <3>2. IsFiniteSet(a .. last) /\ Cardinality(a .. last) = IF a > last THEN 0 ELSE last - a + 1
        BY <1>1, <1>2
      <3>3. (IF a > last THEN 0 ELSE last - a + 1) = last - day
        BY <1>1, <2>0, <3>1
      <3> QED
        BY <2>1, <3>1, <3>2, <3>3
    <2>3. ASSUME NEW e \in After(day)
          PROVE  e \in S
      <3>1. e \in Nat /\ day < e /\ e <= last
        BY <1>1, <2>3
      <3> QED
        BY <1>1, <2>0, <2>1, <3>1
    <2>4. ASSUME last - c < day
          PROVE  After(day) = S
      <3>1. ASSUME NEW e \in S
            PROVE  e \in After(day)
        <4>1. e \in Nat /\ day < e /\ e <= last /\ last - c < e
          BY <1>1, <2>0, <2>1, <2>4, <3>1
        <4> QED
          BY <1>1, <4>1
      <3> HIDE DEF After
      <3> QED
        BY <2>3, <3>1
    <2>5. ASSUME After(day) = S, ~ (last - c < day)
          PROVE  FALSE
      <3>1. day # last - c /\ day < last - c /\ last - c \in Nat
        BY <1>1, <2>0, <2>5
      <3>2. last - c \in S
        BY <1>1, <2>0, <2>1, <3>1
      <3> QED
        BY <1>1, <2>5, <3>2
    <2> HIDE DEF After
    <2>6. Cardinality(After(day)) = Cardinality(S) => After(day) = S
      BY <2>2, <2>3, FS_Subset
    <2> QED
      BY <2>2, <2>4, <2>5, <2>6
  <1>6. ASSUME NEW day \in D
        PROVE  day - Cardinality(UpTo(day)) = last - Cardinality(UpTo(last)) <=> last - c < day
    <2>1. day \in Nat
      BY <1>1
    <2> HIDE DEF UpTo, After
    <2> QED
      BY <1>1, <1>3, <1>4, <1>5, <2>1
  <1>7. {day \in D : day - Cardinality(UpTo(day)) = last - Cardinality(UpTo(last))}
        = last - c + 1 .. last
    <2>1. ASSUME NEW day
          PROVE  (day \in D /\ last - c < day) <=> day \in last - c + 1 .. last
      <3>1. ASSUME day \in D, last - c < day
            PROVE  day \in last - c + 1 .. last
        <4>1. day \in Nat /\ day <= last
          BY <1>1, <3>1
        <4> QED
          BY <1>1, <3>1, <4>1
      <3>2. ASSUME day \in last - c + 1 .. last
            PROVE  day \in D /\ last - c < day
        <4>1. day \in Nat /\ last - c < day /\ day <= last
          BY <1>1, <3>2
        <4> QED
          BY <1>1, <4>1
      <3> QED
        BY <3>1, <3>2
    <2> HIDE DEF UpTo, After
    <2> QED
      BY <1>6, <2>1
  <1>8. last - c + 1 \in Nat
    BY <1>1
  <1>9. Cardinality(last - c + 1 .. last) = c
    BY <1>1, <1>2, <1>8
  <1> QED
    BY <1>7, <1>9


(* The days of the first m dates.                                          *)
DaysTo(dates, m) == {dates[j] : j \in 1 .. m}

LEMMA DaysToNext ==
  ASSUME NEW dates, NEW m \in Nat
  PROVE  DaysTo(dates, m + 1) = DaysTo(dates, m) \cup {dates[m + 1]}
  <1>1. \A j : j \in 1 .. m + 1 <=> j \in 1 .. m \/ j = m + 1
    OBVIOUS
  <1> QED
    BY <1>1 DEF DaysTo

(* A claim that holds of the first number and passes to the next, stated   *)
(* as a set of numbers.                                                    *)
LEMMA UpToN ==
  ASSUME NEW n \in Nat, NEW T, 1 \in T, \A m \in 1 .. n : m \in T /\ m < n => m + 1 \in T
  PROVE  \A m \in 1 .. n : m \in T
  <1> DEFINE Bad == {m \in 1 .. n : m \notin T}
  <1>1. ASSUME Bad # {} PROVE FALSE
    <2>1. PICK m \in Bad : \A l \in Bad : m <= l
      <3>1. Bad \subseteq Nat
        OBVIOUS
      <3> HIDE DEF Bad
      <3> QED
        BY <1>1, <3>1, LeastNumber
    <2>2. m \in 1 .. n /\ m \notin T /\ m # 1
      OBVIOUS
    <2>3. m - 1 \in 1 .. n /\ m - 1 < n /\ (m - 1) + 1 = m /\ ~ (m <= m - 1)
      BY <2>2
    <2>4. m - 1 \in T
      BY <2>1, <2>3
    <2> QED
      BY <2>2, <2>3, <2>4
  <1> QED
    BY <1>1

Dated(dates, n) ==
    /\ dates \in [1 .. n -> Days]
    /\ \A k, l \in 1 .. n : k <= l => dates[k] <= dates[l]

(* The loop of getStreak, after m dates.                                   *)
LEMMA LoopStreaks ==
  ASSUME NEW n \in Nat, n # 0, NEW dates, Dated(dates, n),
         NEW f, Folds(Loop(dates), f, 1 .. n)
  PROVE  Streaks(DaysTo(dates, n), dates[n], f[1 .. n].atual, f[1 .. n].maximo)
  <1> DEFINE T == {m \in 1 .. n : /\ f[1 .. m].last = dates[m]
                                  /\ Streaks(DaysTo(dates, m), dates[m], f[1 .. m].atual, f[1 .. m].maximo)}
  <1>1. /\ f[1 .. 0] = [atual |-> 0, maximo |-> 0, last |-> Nobody]
        /\ \A m \in 1 .. n : f[1 .. m] = LoopDay(f[1 .. m - 1], dates[m])
    <2>1. PICK k : k = Loop(dates)
      OBVIOUS
    <2>2. k.of = "loop" /\ k.dates = dates
      BY <2>1 DEF Loop
    <2>3. f[1 .. 0] = Start(k) /\ \A m \in 1 .. n : f[1 .. m] = Then(k, m, f[1 .. m - 1])
      BY <2>1, <2>2, PrefixFolds
    <2> QED
      BY <2>2, <2>3 DEF Start, Then
  <1>2. \A m \in 1 .. n : dates[m] \in Nat /\ dates[m] # Nobody
    BY HabitosAssumption DEF Dated
  <1>3. 1 \in T
    <2>1. 1 \in 1 .. n /\ 1 - 1 = 0
      OBVIOUS
    <2>2. f[1 .. 1] = LoopDay(f[1 .. 0], dates[1])
      BY <1>1, <2>1
    <2>3. f[1 .. 1].atual = 1 /\ f[1 .. 1].maximo = 1 /\ f[1 .. 1].last = dates[1]
      BY <1>1, <2>2 DEF LoopDay
    <2>4. DaysTo(dates, 1) = {dates[1]}
      BY DEF DaysTo
    <2> QED
      BY <1>2, <2>1, <2>3, <2>4, FirstDay
  <1>4. ASSUME NEW m \in 1 .. n, m \in T, m < n
        PROVE  m + 1 \in T
    <2>1. m \in Nat /\ m + 1 \in 1 .. n /\ (m + 1) - 1 = m
      BY <1>4
    <2>2. PICK s : s = f[1 .. m]
      OBVIOUS
    <2>3. s.last = dates[m] /\ Streaks(DaysTo(dates, m), dates[m], s.atual, s.maximo)
      BY <1>4, <2>2
    <2>4. f[1 .. m + 1] = LoopDay(s, dates[m + 1])
      BY <1>1, <2>1, <2>2
    <2>5. PICK run : run = IF dates[m + 1] - dates[m] = 1 THEN s.atual + 1
                           ELSE IF dates[m + 1] - dates[m] > 1 THEN 1 ELSE s.atual
      OBVIOUS
    <2>6. PICK t : t = f[1 .. m + 1]
      OBVIOUS
    <2>7. /\ t.atual = run /\ t.last = dates[m + 1]
          /\ t.maximo = IF run > s.maximo THEN run ELSE s.maximo
      BY <1>2, <2>3, <2>4, <2>5, <2>6 DEF LoopDay
    <2>8. dates[m] <= dates[m + 1]
      BY <2>1 DEF Dated
    <2>9. Streaks(DaysTo(dates, m + 1), dates[m + 1], run, IF run > s.maximo THEN run ELSE s.maximo)
      BY <1>2, <2>1, <2>3, <2>5, <2>8, DaysToNext, NextDate
    <2> QED
      BY <2>1, <2>6, <2>7, <2>9
  <1>5. n \in 1 .. n
    OBVIOUS
  <1>6. n \in T
    <2> HIDE DEF T
    <2> QED
      BY <1>3, <1>4, <1>5, UpToN
  <1> QED
    BY <1>6

(* The walk of StreakDomainService, after its first m steps.               *)
LEMMA ServiceStreaks ==
  ASSUME NEW n \in Nat, n # 0, NEW dates, Dated(dates, n),
         NEW f, Folds(Service(dates), f, 1 .. n - 1)
  PROVE  Streaks(DaysTo(dates, n), dates[n], f[1 .. n - 1].run, f[1 .. n - 1].maximo)
  <1> DEFINE T == {m \in 1 .. n : Streaks(DaysTo(dates, m), dates[m], f[1 .. m - 1].run, f[1 .. m - 1].maximo)}
  <1>1. /\ f[1 .. 0] = [run |-> 1, maximo |-> 1]
        /\ \A m \in 1 .. n - 1 : f[1 .. m] = ServiceDay(dates, f[1 .. m - 1], m + 1)
    <2>1. PICK k : k = Service(dates)
      OBVIOUS
    <2>2. k.of = "service" /\ k.dates = dates /\ n - 1 \in Nat
      BY <2>1 DEF Service
    <2>3. f[1 .. 0] = Start(k) /\ \A m \in 1 .. n - 1 : f[1 .. m] = Then(k, m, f[1 .. m - 1])
      BY <2>1, <2>2, PrefixFolds
    <2> QED
      BY <2>2, <2>3 DEF Start, Then
  <1>2. \A m \in 1 .. n : dates[m] \in Nat
    BY HabitosAssumption DEF Dated
  <1>3. 1 \in T
    <2>1. 1 \in 1 .. n /\ 1 - 1 = 0
      OBVIOUS
    <2>2. f[1 .. 0].run = 1 /\ f[1 .. 0].maximo = 1
      BY <1>1
    <2>3. DaysTo(dates, 1) = {dates[1]}
      BY DEF DaysTo
    <2> QED
      BY <1>2, <2>1, <2>2, <2>3, FirstDay
  <1>4. ASSUME NEW m \in 1 .. n, m \in T, m < n
        PROVE  m + 1 \in T
    <2>1. m \in Nat /\ m \in 1 .. n - 1 /\ m + 1 \in 1 .. n /\ (m + 1) - 1 = m
      BY <1>4
    <2>2. PICK s : s = f[1 .. m - 1]
      OBVIOUS
    <2>3. Streaks(DaysTo(dates, m), dates[m], s.run, s.maximo)
      BY <1>4, <2>2
    <2>4. f[1 .. m] = ServiceDay(dates, s, m + 1)
      BY <1>1, <2>1, <2>2
    <2>5. PICK run : run = IF dates[m + 1] - dates[m] = 1 THEN s.run + 1
                           ELSE IF dates[m + 1] - dates[m] > 1 THEN 1 ELSE s.run
      OBVIOUS
    <2>6. PICK t : t = f[1 .. m]
      OBVIOUS
    <2>7. /\ t.run = run
          /\ t.maximo = IF dates[m + 1] - dates[m] = 1 /\ run > s.maximo THEN run ELSE s.maximo
      BY <2>1, <2>4, <2>5, <2>6 DEF ServiceDay
    <2>8. dates[m] <= dates[m + 1]
      BY <2>1 DEF Dated
    <2>9. Streaks(DaysTo(dates, m + 1), dates[m + 1], run, IF run > s.maximo THEN run ELSE s.maximo)
      BY <1>2, <2>1, <2>3, <2>5, <2>8, DaysToNext, NextDate
    <2>10. t.maximo = IF run > s.maximo THEN run ELSE s.maximo
      <3>1. s.run \in Nat /\ s.maximo \in Nat /\ s.run <= s.maximo /\ s.run # 0
        BY <2>3 DEF Streaks, Running, Longest
      <3> QED
        BY <2>5, <2>7, <3>1
    <2> QED
      BY <2>1, <2>6, <2>7, <2>9, <2>10
  <1>5. n \in 1 .. n
    OBVIOUS
  <1>6. n \in T
    <2> HIDE DEF T
    <2> QED
      BY <1>3, <1>4, <1>5, UpToN
  <1> QED
    BY <1>6


(* What the three computations say of the rows of a hábito that has some:  *)
(* the streaks of the set of its days.                                     *)
LEMMA StreaksOfRows ==
  ASSUME NEW rows, IsFiniteSet(rows), rows # {}, NEW D, D = {x.data : x \in rows}, D \subseteq Days
  PROVE  /\ Streaks(D, Max(D), getStreak(rows).atual, getStreak(rows).maximo)
         /\ \E s : /\ calculate(DatesInOrder(rows)) = s
                   /\ s.maximo = getStreak(rows).maximo
                   /\ s.atual = IF today - Max(D) <= 1 THEN getStreak(rows).atual ELSE 0
         /\ recalculaStreak(rows) = getStreak(rows).atual
  <1>1. PICK dates, n : dates = DatesInOrder(rows) /\ n = Cardinality(rows)
    OBVIOUS
  <1>2. n \in Nat /\ IsFiniteSet(D) /\ Ordered(dates, n, D)
    BY <1>1, DatesOrdered
  <1>3. n # 0
    BY <1>1, FS_EmptySet
  <1>4. D # {} /\ D \subseteq Nat
    BY HabitosAssumption
  <1>5. Max(D) \in D /\ \A y \in D : y <= Max(D)
    BY <1>2, <1>4, MaxIs
  <1>6. Dated(dates, n)
    <2>1. dates \in [1 .. n -> Days]
      BY <1>2 DEF Ordered
    <2> QED
      BY <1>2, <2>1 DEF Ordered, Dated
  <1>7. DaysTo(dates, n) = D
    <2>1. \A j \in 1 .. n : dates[j] \in D
      BY <1>2 DEF Ordered
    <2>2. \A day \in D : \E j \in 1 .. n : dates[j] = day
      BY <1>2 DEF Ordered
    <2> QED
      BY <2>1, <2>2 DEF DaysTo
  <1>8. PICK f : Folds(Loop(dates), f, 1 .. n) /\ getStreak(rows) = f[1 .. n]
    BY <1>1, <1>2, GetStreakFolds
  <1>9. PICK c, m : c = f[1 .. n].atual /\ m = f[1 .. n].maximo
    OBVIOUS
  <1>10. Streaks(D, dates[n], c, m)
    BY <1>2, <1>3, <1>6, <1>7, <1>8, <1>9, LoopStreaks
  <1>11. dates[n] = Max(D)
    <2>1. dates[n] \in D /\ \A y \in D : y <= dates[n]
      BY <1>10 DEF Streaks
    <2>2. dates[n] <= Max(D) /\ Max(D) <= dates[n] /\ dates[n] \in Nat /\ Max(D) \in Nat
      BY <1>4, <1>5, <2>1
    <2> QED
      BY <2>2
  <1>12. DOMAIN dates = 1 .. n /\ Len(dates) = n
    <2>1. dates \in [1 .. n -> Days]
      BY <1>6 DEF Dated
    <2> QED
      BY <1>2, <2>1
  <1>13. PICK g : /\ Folds(Service(dates), g, 1 .. n - 1)
                  /\ calculate(dates) =
                        [atual |-> IF today - dates[n] <= 1 THEN g[1 .. n - 1].run ELSE 0,
                         maximo |-> g[1 .. n - 1].maximo]
    BY <1>2, <1>3, <1>12, CalculateFolds
  <1>14. g[1 .. n - 1].run = c /\ g[1 .. n - 1].maximo = m
    <2>1. PICK d, e : d = g[1 .. n - 1].run /\ e = g[1 .. n - 1].maximo
      OBVIOUS
    <2>2. Streaks(D, dates[n], d, e)
      BY <1>2, <1>3, <1>6, <1>7, <1>13, <2>1, ServiceStreaks
    <2>3. d = c /\ e = m
      BY <1>10, <2>2, StreaksAreUnique
    <2> QED
      BY <2>1, <2>3
  <1>15. PICK s : s = [atual |-> IF today - Max(D) <= 1 THEN c ELSE 0, maximo |-> m]
    OBVIOUS
  <1>16. calculate(DatesInOrder(rows)) = s
    BY <1>1, <1>11, <1>13, <1>14, <1>15
  <1>17. recalculaStreak(rows) = c
    <2>1. PICK last : last = Max(D)
      OBVIOUS
    <2>2. Streaks(D, last, c, m)
      BY <1>10, <1>11, <2>1
    <2>3. recalculaStreak(rows) =
            Cardinality({day \in D : day - Cardinality({d \in D : d <= day})
                                     = Max(D) - Cardinality({d \in D : d <= Max(D)})})
      BY DEF recalculaStreak
    <2> QED
      BY <1>2, <2>1, <2>2, <2>3, RunByRank
  <1>18. getStreak(rows).atual = c /\ getStreak(rows).maximo = m
    BY <1>8, <1>9
  <1>19. s.maximo = m /\ s.atual = IF today - Max(D) <= 1 THEN c ELSE 0
    BY <1>15
  <1> QED
    BY <1>10, <1>11, <1>16, <1>17, <1>18, <1>19

LEMMA StreakOfNone ==
  getStreak({}).atual = 0 /\ getStreak({}).maximo = 0
  <1>1. IsFiniteSet({}) /\ Cardinality({}) = 0 /\ 0 \in Nat
    BY FS_EmptySet
  <1>2. PICK k : k = Loop(DatesInOrder({}))
    OBVIOUS
  <1>3. PICK f : Folds(k, f, 1 .. 0) /\ getStreak({}) = f[1 .. 0]
    BY <1>1, <1>2, GetStreakFolds
  <1>4. k.of = "loop"
    BY <1>2 DEF Loop
  <1>5. f[1 .. 0] = Start(k)
    BY <1>1, <1>3, <1>4, PrefixFolds
  <1>6. Start(k) = [atual |-> 0, maximo |-> 0, last |-> Nobody]
    BY <1>4 DEF Start
  <1> QED
    BY <1>3, <1>5, <1>6

(* The streak depends on the days alone, and the longest grows with them.  *)
LEMMA StreakOfDays ==
  ASSUME NEW rows, IsFiniteSet(rows), \A x \in rows : x.data \in Days,
         NEW others, IsFiniteSet(others), \A x \in others : x.data \in Days,
         \A x \in rows : \E y \in others : y.data = x.data
  PROVE  /\ getStreak(rows).atual \in Nat /\ getStreak(rows).maximo \in Nat
         /\ getStreak(rows).atual <= getStreak(rows).maximo
         /\ getStreak(rows).maximo <= getStreak(others).maximo
         /\ (\A y \in others : \E x \in rows : y.data = x.data) =>
               getStreak(others).atual = getStreak(rows).atual
  <1>1. PICK D, E : D = {x.data : x \in rows} /\ E = {x.data : x \in others}
    OBVIOUS
  <1>2. D \subseteq E /\ E \subseteq Days
    BY <1>1
  <1>3. PICK c, m : c = getStreak(rows).atual /\ m = getStreak(rows).maximo
    OBVIOUS
  <1>4. PICK d, n : d = getStreak(others).atual /\ n = getStreak(others).maximo
    OBVIOUS
  <1>5. /\ rows # {} => Streaks(D, Max(D), c, m)
        /\ others # {} => Streaks(E, Max(E), d, n)
    BY <1>1, <1>2, <1>3, <1>4, StreaksOfRows
  <1>6. CASE rows = {}
    <2>1. c = 0 /\ m = 0
      BY <1>3, <1>6, StreakOfNone
    <2>2. n \in Nat
      <3>1. CASE others = {}
        BY <1>4, <3>1, StreakOfNone
      <3>2. CASE others # {}
        BY <1>5, <3>2 DEF Streaks, Longest
      <3> QED
        BY <3>1, <3>2
    <2>3. (\A y \in others : \E x \in rows : y.data = x.data) => d = 0
      BY <1>4, <1>6, StreakOfNone
    <2> QED
      BY <1>3, <1>4, <2>1, <2>2, <2>3
  <1>7. CASE rows # {}
    <2>1. others # {}
      BY <1>7
    <2>2. Streaks(D, Max(D), c, m) /\ Streaks(E, Max(E), d, n)
      BY <1>5, <1>7, <2>1
    <2>3. c \in Nat /\ m \in Nat /\ c <= m
      BY <2>2 DEF Streaks, Running, Longest
    <2>4. m <= n
      <3>1. PICK a \in Nat : Unbroken(D, a, m)
        BY <2>2 DEF Streaks, Longest
      <3>2. Unbroken(E, a, m)
        BY <1>2, <3>1 DEF Unbroken
      <3> QED
        BY <2>2, <2>3, <3>2 DEF Streaks, Longest
    <2>5. ASSUME \A y \in others : \E x \in rows : y.data = x.data
          PROVE  d = c
      <3>1. E = D
        BY <1>1, <1>2, <2>5
      <3> QED
        BY <2>2, <3>1, StreaksAreUnique
    <2> QED
      BY <1>3, <1>4, <2>3, <2>4, <2>5
  <1> QED
    BY <1>6, <1>7


-----------------------------------------------------------------------------
(* The rows of streaks                                                     *)

HabitoRow == [exists : BOOLEAN, nome : Requests \cup {Nobody}]

HabitosTyped ==
    /\ habitos \in [HabitoIds -> HabitoRow]
    /\ IsFiniteSet(registros) /\ \A x \in registros : x.data \in Days

Atual(h) == getStreak(RowsOf(h)).atual
Maximo(h) == getStreak(RowsOf(h)).maximo

IsStreak(s) ==
    s = [id |-> s.id, by |-> s.by, habito |-> s.habito, current |-> s.current, max |-> s.max]

(* What StreakRow says of a row.                                           *)
Fits(s) ==
    /\ IsStreak(s) /\ s.current \in Nat /\ s.max \in Nat
    /\ s.by \notin Overlapped => s.current = Atual(s.habito)
    /\ s.current <= Maximo(s.habito)
    /\ \E h \in LiveHabitos : s.max <= Maximo(h)

StreaksOK ==
    /\ \A s \in streaks : Fits(s)
    /\ \A s, t \in streaks : s = t \/ {s.id, t.id} \subseteq Overlapped

(* A request that has still to save a registro names a hábito and a day.   *)
(* The streak its trigger has counted is, if it runs alone, the one there  *)
(* will be when it commits, and is no longer than the longest there is     *)
(* then.  The rows it has not found are of requests that overlap it.       *)
Names(c) ==
    c.op = "registrar" /\ c.pc \in {"check", "findRegistro", "save", "exists", "streak", "commit"} =>
        c.id \in LiveHabitos /\ c.arg \in Days
Hand(r, c) ==
    Inserting(c) =>
        \E S : /\ S = RowsOf(c.id) \cup {c.read.registro} /\ c.read.registro.data \in Days
               /\ c.read.atual \in Nat /\ c.read.atual <= getStreak(S).maximo
               /\ r \in alone => c.read.atual = getStreak(S).atual
Sees(r, c) ==
    c.op = "registrar" /\ c.pc \in {"streak", "commit"} =>
        \A s \in streaks : s.id \in c.read.found \/ {r, s.by, s.id} \subseteq Overlapped
StreakCall(r, c) == Names(c) /\ Hand(r, c) /\ Sees(r, c)

StreakInv ==
    /\ HabitosTyped
    /\ area # "habitos" => streaks = {}
    /\ area = "habitos" => StreaksOK /\ \A r \in Requests : StreakCall(r, call[r])

LEMMA RowsTyped ==
  ASSUME HabitosTyped, NEW h
  PROVE  IsFiniteSet(RowsOf(h)) /\ \A x \in RowsOf(h) : x.data \in Days
  BY FS_Subset DEF HabitosTyped, RowsOf

LEMMA StreakInit_ == Init => StreakInv
  <1> SUFFICES ASSUME Init PROVE StreakInv
    OBVIOUS
  <1>1. PICK days \in Registrados :
          /\ habitos = [h \in HabitoIds |-> [exists |-> h = Inicial, nome |-> Nobody]]
          /\ registros = {[id |-> <<Inicial, d>>, habito |-> Inicial, data |-> d, vezes |-> 1] : d \in days}
          /\ streaks = IF days = {} THEN {} ELSE
                       {[id |-> Inicial, by |-> Inicial, habito |-> Inicial,
                         current |-> getStreak(registros).atual,
                         max |-> getStreak(registros).maximo]}
    BY DEF Init, HabitosInit
  <1>0. days \subseteq Days
    BY RegistradosAssumption
  <1>2. Inicial \in LiveHabitos
    BY <1>1 DEF LiveHabitos, HabitoIds
  <1>3. RowsOf(Inicial) = registros
    BY <1>1 DEF RowsOf
  <1>4. HabitosTyped
    <2>1. habitos \in [HabitoIds -> HabitoRow]
      BY <1>1 DEF HabitoRow
    <2>2. PICK row : row = [d \in days |-> [id |-> <<Inicial, d>>, habito |-> Inicial, data |-> d, vezes |-> 1]]
      OBVIOUS
    <2>3. row \in Surjection(days, registros)
      BY <1>1, <2>2 DEF Surjection
    <2>4. IsFiniteSet(registros)
      <3>1. IsFiniteSet(days)
        BY <1>0, HabitosAssumption, FS_Subset
      <3> QED
        BY <2>3, <3>1, FS_Surjection
    <2>5. \A x \in registros : x.data \in Days
      BY <1>0, <1>1
    <2> QED
      BY <2>1, <2>4, <2>5 DEF HabitosTyped
  <1>5. PICK a, m : a = getStreak(registros).atual /\ m = getStreak(registros).maximo
    BY Zenon
  <1>6. \A s \in streaks : s = [id |-> Inicial, by |-> Inicial, habito |-> Inicial,
                               current |-> a, max |-> m]
    BY <1>1, <1>5
  <1>7. a \in Nat /\ m \in Nat /\ a <= m
    BY <1>4, <1>5, StreakOfDays DEF HabitosTyped
  <1>8. a = Atual(Inicial) /\ m = Maximo(Inicial)
    BY <1>3, <1>5, Zenon DEF Atual, Maximo
  <1>9. StreaksOK
    <2>1. \A s \in streaks : Fits(s)
      BY <1>2, <1>6, <1>7, <1>8 DEF Fits, IsStreak
    <2> QED
      BY <1>6, <2>1 DEF StreaksOK
  <1>10. \A r \in Requests : StreakCall(r, call[r])
    BY DEF Init, HandlersInit, Idle, StreakCall, Names, Hand, Sees, Inserting
  <1>11. area # "habitos" => streaks = {}
    <2>1. ASSUME area # "habitos" PROVE days = {}
      <3>1. registros = {}
        BY <2>1 DEF Init
      <3> QED
        BY <1>1, <3>1
    <2> QED
      BY <1>1, <2>1
  <1> QED
    BY <1>4, <1>9, <1>10, <1>11 DEF StreakInv

(* The days of each hábito after a step: those it had, and perhaps more.   *)
DaysGrow == \A x \in registros : \E y \in registros' : y.habito = x.habito /\ y.data = x.data
DaysStay(h) == \A y \in registros' : y.habito = h => \E x \in registros : x.habito = h /\ x.data = y.data

LEMMA StreaksGrow ==
  ASSUME HabitosTyped, HabitosTyped', DaysGrow, NEW h
  PROVE  /\ Atual(h) \in Nat /\ Maximo(h) \in Nat /\ Maximo(h)' \in Nat
         /\ Maximo(h) <= Maximo(h)'
         /\ DaysStay(h) => Atual(h)' = Atual(h)
  <1>1. PICK R, S : R = RowsOf(h) /\ S = RowsOf(h)'
    OBVIOUS
  <1>2. IsFiniteSet(R) /\ \A x \in R : x.data \in Days
    BY <1>1, RowsTyped
  <1>3. IsFiniteSet(S) /\ \A x \in S : x.data \in Days
    BY <1>1, FS_Subset DEF HabitosTyped, RowsOf
  <1>4. /\ \A x \in R : \E y \in S : y.data = x.data
        /\ \A y \in S : \E x \in S : x.data = y.data
        /\ DaysStay(h) => \A y \in S : \E x \in R : y.data = x.data
    BY <1>1 DEF RowsOf, DaysGrow, DaysStay
  <1>5. /\ getStreak(R).atual \in Nat /\ getStreak(R).maximo \in Nat
        /\ getStreak(R).maximo <= getStreak(S).maximo
        /\ (\A y \in S : \E x \in R : y.data = x.data) => getStreak(S).atual = getStreak(R).atual
    BY <1>2, <1>3, <1>4, StreakOfDays
  <1>6. getStreak(S).maximo \in Nat
    BY <1>3, <1>4, StreakOfDays
  <1>7. /\ Atual(h) = getStreak(R).atual /\ Maximo(h) = getStreak(R).maximo
        /\ Atual(h)' = getStreak(S).atual /\ Maximo(h)' = getStreak(S).maximo
    BY <1>1, Zenon DEF Atual, Maximo
  <1> QED
    BY <1>4, <1>5, <1>6, <1>7

(* A row that is not written, and a request that does not move.            *)
LEMMA FitsStays ==
  ASSUME HabitosTyped, HabitosTyped', DaysGrow, LiveHabitos \subseteq LiveHabitos',
         Overlapped \subseteq Overlapped', NEW s, Fits(s),
         s.by \notin Overlapped' => DaysStay(s.habito)
  PROVE  Fits(s)'
  <1>1. PICK h \in LiveHabitos : s.max <= Maximo(h)
    BY DEF Fits
  <1>2. s.max \in Nat /\ s.current \in Nat /\ s.current <= Maximo(s.habito) /\ IsStreak(s)
    BY DEF Fits
  <1>3. Maximo(h) \in Nat /\ Maximo(h)' \in Nat /\ Maximo(h) <= Maximo(h)'
    BY StreaksGrow
  <1>4. PICK k : k = s.habito
    OBVIOUS
  <1>5. /\ Maximo(k) \in Nat /\ Maximo(k)' \in Nat /\ Maximo(k) <= Maximo(k)'
        /\ DaysStay(k) => Atual(k)' = Atual(k)
    BY StreaksGrow
  <1>6. s.max <= Maximo(h)'
    BY <1>1, <1>2, <1>3
  <1>7. s.current <= Maximo(k)'
    BY <1>2, <1>4, <1>5
  <1>8. s.by \notin Overlapped' => s.current = Atual(k)'
    BY <1>4, <1>5 DEF Fits
  <1>9. h \in LiveHabitos'
    BY <1>1
  <1> QED
    BY <1>2, <1>4, <1>6, <1>7, <1>8, <1>9 DEF Fits, IsStreak

LEMMA StreakCallStays ==
  ASSUME HabitosTyped, HabitosTyped', DaysGrow, LiveHabitos \subseteq LiveHabitos',
         Overlapped \subseteq Overlapped', NEW q \in Requests, call'[q] = call[q],
         StreakCall(q, call[q]),
         q \in InFlight /\ q \in alone' => q \in alone /\ \A h : DaysStay(h),
         call[q].op = "registrar" /\ call[q].pc \in {"streak", "commit"} =>
            \A s \in streaks' : \/ s \in streaks
                               \/ s.id \in call[q].read.found
                               \/ {q, s.by, s.id} \subseteq Overlapped'
  PROVE  StreakCall(q, call[q])'
  <1>1. PICK c : c = call[q]
    OBVIOUS
  <1>2. StreakCall(q, c) /\ (c.pc \notin {"idle", "done"} => q \in InFlight)
    BY <1>1 DEF InFlight, At
  <1>3. Names(c)'
    BY <1>2 DEF StreakCall, Names
  <1>4. Hand(q, c)'
    <2>1. SUFFICES ASSUME Inserting(c) PROVE Hand(q, c)'
      BY DEF Hand
    <2>2. q \in InFlight
      BY <1>2, <2>1 DEF Inserting
    <2>3. PICK h, x, a : h = c.id /\ x = c.read.registro /\ a = c.read.atual
      OBVIOUS
    <2>4. PICK S, T : S = RowsOf(h) \cup {x} /\ T = RowsOf(h)' \cup {x}
      OBVIOUS
    <2>5. /\ x.data \in Days /\ a \in Nat /\ a <= getStreak(S).maximo
          /\ q \in alone => a = getStreak(S).atual
      BY <1>2, <2>1, <2>3, <2>4 DEF StreakCall, Hand
    <2>6. IsFiniteSet(S) /\ \A y \in S : y.data \in Days
      BY <2>4, <2>5, RowsTyped, FS_AddElement
    <2>7. IsFiniteSet(T) /\ \A y \in T : y.data \in Days
      <3>1. IsFiniteSet(RowsOf(h)') /\ \A y \in RowsOf(h)' : y.data \in Days
        BY FS_Subset DEF HabitosTyped, RowsOf
      <3> QED
        BY <2>4, <2>5, <3>1, FS_AddElement
    <2>8. \A y \in S : \E z \in T : z.data = y.data
      BY <2>4 DEF DaysGrow, RowsOf
    <2>9. (\A i : DaysStay(i)) => \A y \in T : \E z \in S : y.data = z.data
      BY <2>4 DEF DaysStay, RowsOf
    <2>10. \A y \in T : \E z \in T : z.data = y.data
      OBVIOUS
    <2>11. PICK m, n, b, d : /\ m = getStreak(S).maximo /\ n = getStreak(T).maximo
                             /\ b = getStreak(S).atual /\ d = getStreak(T).atual
      OBVIOUS
    <2>12. m \in Nat /\ m <= n /\ ((\A y \in T : \E z \in S : y.data = z.data) => d = b)
      BY <2>6, <2>7, <2>8, <2>11, StreakOfDays
    <2>13. n \in Nat
      BY <2>7, <2>10, <2>11, StreakOfDays
    <2>14. a <= n
      BY <2>5, <2>11, <2>12, <2>13
    <2>15. q \in alone' => a = d
      BY <2>2, <2>5, <2>9, <2>11, <2>12
    <2> QED
      BY <2>3, <2>4, <2>5, <2>11, <2>14, <2>15 DEF Hand
  <1>5. Sees(q, c)'
    <2>1. Sees(q, c)
      BY <1>2 DEF StreakCall
    <2>2. ASSUME c.op = "registrar", c.pc \in {"streak", "commit"}, NEW s \in streaks'
          PROVE  s.id \in c.read.found \/ {q, s.by, s.id} \subseteq Overlapped'
      BY <1>1, <1>2, <2>1, <2>2 DEF Sees
    <2> QED
      BY <2>2 DEF Sees
  <1> QED
    BY <1>1, <1>3, <1>4, <1>5 DEF StreakCall

(* A step that leaves the rows of streaks, and the days of each hábito.    *)
LEMMA StreakKept ==
  ASSUME StreakInv, area' = area, HabitosTyped', LiveHabitos \subseteq LiveHabitos',
         streaks' = streaks, DaysGrow, \A h : DaysStay(h),
         NEW r \in Requests, Moves(r), area = "habitos" => StreakCall(r, call[r])'
  PROVE  StreakInv'
  <1>1. CASE area # "habitos"
    BY <1>1 DEF StreakInv
  <1>2. CASE area = "habitos"
    <2>1. HabitosTyped /\ Overlapped \subseteq Overlapped'
      BY DEF StreakInv, Moves
    <2>2. \A s \in streaks : Fits(s)'
      BY <1>2, <2>1, FitsStays DEF StreakInv, StreaksOK
    <2>3. StreaksOK'
      BY <1>2, <2>1, <2>2 DEF StreakInv, StreaksOK
    <2>4. ASSUME NEW q \in Requests, q # r
          PROVE  StreakCall(q, call[q])'
      <3>1. call'[q] = call[q] /\ (q \in alone' => q \in alone) /\ StreakCall(q, call[q])
        BY <1>2, <2>4 DEF Moves, OnlyMoves, StreakInv
      <3> QED
        BY <2>1, <3>1, StreakCallStays
    <2>5. StreakCall(r, call[r])'
      BY <1>2
    <2> QED
      BY <1>2, <2>3, <2>4, <2>5 DEF StreakInv
  <1> QED
    BY <1>1, <1>2

LEMMA StreakQuiet ==
  ASSUME StreakInv, area' = area, UNCHANGED <<habitos, registros, streaks>>,
         NEW r \in Requests, Moves(r), area = "habitos" => StreakCall(r, call[r])'
  PROVE  StreakInv'
  <1>1. HabitosTyped' /\ LiveHabitos' = LiveHabitos
    BY DEF StreakInv, HabitosTyped, LiveHabitos
  <1>2. DaysGrow /\ \A h : DaysStay(h)
    BY DEF DaysGrow, DaysStay
  <1> QED
    BY <1>1, <1>2, StreakKept

(* Past the save, or in another command.                                   *)
LEMMA StreakElsewhere ==
  ASSUME NEW r,
         \/ call'[r].op # "registrar"
         \/ call'[r].pc \notin {"check", "findRegistro", "save", "exists", "streak", "commit"}
  PROVE  StreakCall(r, call[r])'
  BY DEF StreakCall, Names, Hand, Sees, Inserting

LEMMA StreakPasses ==
  ASSUME BaseInv, StreakInv, area' = area, UNCHANGED <<habitos, registros, streaks>>,
         NEW r \in InFlight,
         \/ \E status : Reply(r, status) \/ FailWith(r, status)
         \/ \E label : /\ label # "idle" /\ call[r].op # "registrar"
                       /\ Goto(r, label) \/ \E read : Keep(r, read, label)
  PROVE  StreakInv'
  <1>1. r \in Requests
    BY DEF InFlight
  <1>2. CASE \E status : Reply(r, status) \/ FailWith(r, status)
    <2>1. Moves(r) /\ call'[r].pc = "done"
      BY <1>2, ReplyWorks DEF BaseInv, Works
    <2> QED
      BY <1>1, <2>1, StreakElsewhere, StreakQuiet
  <1>3. ASSUME NEW label, label # "idle", call[r].op # "registrar",
               Goto(r, label) \/ \E read : Keep(r, read, label)
        PROVE  StreakInv'
    <2>1. Moves(r) /\ call'[r].op = call[r].op
      BY <1>3, GotoWorks, KeepWorks DEF BaseInv, Works, GoesTo, GoesAs
    <2> QED
      BY <1>1, <1>3, <2>1, StreakElsewhere, StreakQuiet
  <1> QED
    BY <1>2, <1>3

LEMMA StreakArrives ==
  ASSUME BaseInv, StreakInv, area' = area, area = "habitos", NEW r \in Requests, HabitosArrival(r)
  PROVE  StreakInv'
  <1>1. UNCHANGED <<habitos, registros, streaks>>
    BY DEF HabitosArrival, listHabitos, createHabito, updateHabito, registrar, deleteHabito,
           AskHabito, HabitoReads, habito_rows
  <1>2. \/ \E op, id, arg, label : /\ label \in {"getCache", "check"} /\ Arrive(r, label, op, id, arg)
                                   /\ op = "registrar" => id \in LiveHabitos /\ arg \in Days
        \/ \E op, status : Refuse(r, op, status)
    BY DEF HabitosArrival, listHabitos, createHabito, updateHabito, registrar, deleteHabito, AskHabito
  <1>3. CASE \E op, status : Refuse(r, op, status)
    <2>1. Moves(r) /\ call'[r].pc = "done"
      BY <1>3, RefuseMoves DEF BaseInv
    <2> QED
      BY <1>1, <2>1, StreakElsewhere, StreakQuiet
  <1>4. ASSUME NEW op, NEW id, NEW arg, NEW label, label \in {"getCache", "check"},
               Arrive(r, label, op, id, arg), op = "registrar" => id \in LiveHabitos /\ arg \in Days
        PROVE  StreakInv'
    <2>1. Moves(r) /\ GoesAs(r, label, op, id, arg)
      BY <1>4, ArriveMoves DEF BaseInv
    <2>2. LiveHabitos' = LiveHabitos
      BY <1>1 DEF LiveHabitos
    <2>3. StreakCall(r, call[r])'
      BY <1>4, <2>1, <2>2 DEF StreakCall, Names, Hand, Sees, Inserting, GoesAs
    <2> QED
      BY <1>1, <2>1, <2>3, StreakQuiet
  <1> QED
    BY <1>2, <1>3, <1>4

(* A hábito is created or renamed; none goes.                              *)
LEMMA StreakWrites ==
  ASSUME BaseInv, StreakInv, area' = area, UNCHANGED <<registros, streaks>>, NEW r \in InFlight,
         call[r].op # "registrar", Goto(r, "uncache"),
         \/ habitos' = [habitos EXCEPT ![r] = [exists |-> TRUE, nome |-> r]]
         \/ habitos' = [habitos EXCEPT ![call[r].id].nome = r]
  PROVE  StreakInv'
  <1>1. r \in Requests /\ Moves(r) /\ call'[r].op = call[r].op
    BY GotoWorks DEF BaseInv, Works, GoesTo, GoesAs
  <1>2. habitos \in [HabitoIds -> HabitoRow]
    BY DEF StreakInv, HabitosTyped
  <1>3. /\ habitos' \in [HabitoIds -> HabitoRow]
        /\ \A h \in HabitoIds : habitos[h].exists => habitos'[h].exists
    <2>1. CASE habitos' = [habitos EXCEPT ![r] = [exists |-> TRUE, nome |-> r]]
      BY <1>1, <1>2, <2>1 DEF HabitoRow
    <2>2. CASE habitos' = [habitos EXCEPT ![call[r].id].nome = r]
      <3>1. PICK i : i = call[r].id
        OBVIOUS
      <3>2. habitos' = [habitos EXCEPT ![i] = [habitos[i] EXCEPT !.nome = r]]
        BY <2>2, <3>1
      <3>3. CASE i \in HabitoIds
        <4>1. PICK x : x = [habitos[i] EXCEPT !.nome = r]
          OBVIOUS
        <4>2. habitos[i] \in HabitoRow
          BY <1>2, <3>3
        <4>3. x \in HabitoRow /\ x.exists = habitos[i].exists
          BY <1>1, <4>1, <4>2 DEF HabitoRow
        <4>4. habitos' = [habitos EXCEPT ![i] = x]
          BY <3>2, <4>1
        <4> QED
          BY <1>2, <4>3, <4>4
      <3>4. CASE i \notin HabitoIds
        <4>1. habitos' = habitos
          BY <1>2, <3>2, <3>4
        <4> QED
          BY <1>2, <4>1
      <3> QED
        BY <3>3, <3>4
    <2> QED
      BY <2>1, <2>2
  <1>4. LiveHabitos \subseteq LiveHabitos'
    BY <1>3 DEF LiveHabitos
  <1>5. HabitosTyped'
    BY <1>3 DEF StreakInv, HabitosTyped
  <1>6. DaysGrow /\ \A h : DaysStay(h)
    BY DEF DaysGrow, DaysStay
  <1> QED
    BY <1>1, <1>4, <1>5, <1>6, StreakElsewhere, StreakKept

(* A registro that is there is written in its place.                       *)
LEMMA StreakRewritten ==
  ASSUME BaseInv, RegistrosInv, StreakInv, area' = area, area = "habitos",
         UNCHANGED <<habitos, streaks>>, NEW r \in InFlight, On(r, "registrar", "save"),
         NEW x, x = call[r].read.registro, NEW old, old = {y \in registros : y.id = x.id}, old # {},
         registros' = (registros \ old) \cup {x}, Goto(r, "uncache")
  PROVE  StreakInv'
  <1>1. r \in Requests /\ Moves(r) /\ call'[r].pc = "uncache"
    BY GotoWorks DEF BaseInv, Works, GoesTo, GoesAs
  <1>2. Registering(call[r])
    BY DEF Registering, On, At
  <1>3. PICK h, d : h = call[r].id /\ d = call[r].arg
    OBVIOUS
  <1>4. /\ x.habito = h /\ x.data = d
        /\ \A y \in old : y.habito = h /\ y.data = d
    BY <1>1, <1>2, <1>3, SaveWhat DEF RowToSave, RowsFor, RowsOf
  <1>5. d \in Days
    BY <1>1, <1>3 DEF StreakInv, StreakCall, Names, On, At
  <1>6. HabitosTyped'
    <2>1. HabitosTyped
      BY DEF StreakInv
    <2>2. IsFiniteSet(registros \ old)
      BY <2>1, FS_Subset DEF HabitosTyped
    <2>3. IsFiniteSet(registros')
      BY <2>2, FS_AddElement
    <2>4. \A y \in registros' : y.data \in Days
      BY <1>4, <1>5, <2>1 DEF HabitosTyped
    <2> QED
      BY <2>1, <2>3, <2>4 DEF HabitosTyped
  <1>7. DaysGrow
    BY <1>4 DEF DaysGrow
  <1>8. ASSUME NEW k PROVE DaysStay(k)
    BY <1>4 DEF DaysStay
  <1>9. LiveHabitos' = LiveHabitos
    BY DEF LiveHabitos
  <1> QED
    BY <1>1, <1>6, <1>7, <1>8, <1>9, StreakElsewhere, StreakKept

(* A new one is inserted, and the trigger counts the streak.               *)
LEMMA StreakCounted ==
  ASSUME BaseInv, RegistrosInv, StreakInv, area' = area, area = "habitos",
         UNCHANGED <<habitos, registros, streaks>>, NEW r \in InFlight, On(r, "registrar", "save"),
         NEW x, x = call[r].read.registro,
         NEW a, a = recalculaStreak(RowsOf(x.habito) \cup {x}),
         NEW read, read.registro = x, read.atual = a, Keep(r, read, "exists")
  PROVE  StreakInv'
  <1>1. r \in Requests /\ Moves(r) /\ GoesTo(r, "exists") /\ call'[r].read = read /\ alone' = alone
    BY KeepWorks DEF BaseInv, Works
  <1>2. Registering(call[r])
    BY DEF Registering, On, At
  <1>3. PICK h, d : h = call[r].id /\ d = call[r].arg
    OBVIOUS
  <1>4. x.habito = h /\ x.data = d
    BY <1>1, <1>2, <1>3, SaveWhat DEF RowToSave
  <1>5. h \in LiveHabitos /\ d \in Days
    BY <1>1, <1>3 DEF StreakInv, StreakCall, Names, On, At
  <1>6. PICK S : S = RowsOf(h) \cup {x}
    OBVIOUS
  <1>7. IsFiniteSet(S) /\ S # {} /\ \A y \in S : y.data \in Days
    BY <1>4, <1>5, <1>6, RowsTyped, FS_AddElement DEF StreakInv
  <1>8. a = getStreak(S).atual
    <2>1. PICK D : D = {y.data : y \in S}
      OBVIOUS
    <2>2. D \subseteq Days
      BY <1>7, <2>1
    <2>3. recalculaStreak(S) = getStreak(S).atual
      BY <1>7, <2>1, <2>2, StreaksOfRows
    <2> QED
      BY <1>4, <1>6, <2>3, Zenon
  <1>9. a \in Nat /\ a <= getStreak(S).maximo
    <2>1. \A y \in S : \E z \in S : z.data = y.data
      OBVIOUS
    <2> QED
      BY <1>7, <1>8, <2>1, StreakOfDays
  <1>10. RowsOf(h)' = RowsOf(h) /\ LiveHabitos' = LiveHabitos
    BY DEF RowsOf, LiveHabitos
  <1>11. Hand(r, call[r])'
    BY <1>1, <1>3, <1>4, <1>5, <1>6, <1>8, <1>9, <1>10 DEF Hand, GoesTo, GoesAs
  <1>12. StreakCall(r, call[r])'
    BY <1>1, <1>3, <1>5, <1>10, <1>11 DEF StreakCall, Names, Sees, GoesTo, GoesAs
  <1> QED
    BY <1>1, <1>12, StreakQuiet

(* The trigger looks for the rows of streaks; what it does not find is of  *)
(* a request that overlaps.                                                *)
LEMMA StreakHeld ==
  ASSUME BaseInv, StreakInv, area' = area, area = "habitos",
         UNCHANGED <<habitos, registros, streaks>>, NEW r \in InFlight, Inserting(call[r]),
         NEW read, NEW label \in {"streak", "commit"}, Keep(r, read, label),
         read.registro = call[r].read.registro, read.atual = call[r].read.atual,
         \A s \in streaks : s.id \in read.found \/ {r, s.by, s.id} \subseteq Overlapped
  PROVE  StreakInv'
  <1>1. /\ r \in Requests /\ Moves(r) /\ GoesTo(r, label) /\ call'[r].read = read /\ alone' = alone
        /\ Overlapped \subseteq Overlapped'
    BY KeepWorks DEF BaseInv, Works, Moves
  <1>2. Names(call[r]) /\ Hand(r, call[r])
    BY <1>1 DEF StreakInv, StreakCall
  <1>3. PICK h : h = call[r].id
    OBVIOUS
  <1>4. RowsOf(h)' = RowsOf(h) /\ LiveHabitos' = LiveHabitos
    BY DEF RowsOf, LiveHabitos
  <1>5. Hand(r, call[r])'
    BY <1>1, <1>2, <1>3, <1>4 DEF Hand, GoesTo, GoesAs
  <1>6. Names(call[r])'
    BY <1>1, <1>2, <1>4 DEF Names, Inserting, GoesTo, GoesAs
  <1>7. Sees(r, call[r])'
    BY <1>1 DEF Sees
  <1>8. StreakCall(r, call[r])'
    BY <1>5, <1>6, <1>7 DEF StreakCall
  <1> QED
    BY <1>1, <1>8, StreakQuiet

(* A row the trigger of r writes, for hábito h.                            *)
LEMMA StreakWritten ==
  ASSUME NEW r, r \notin Overlapped' => r \in alone, NEW h \in LiveHabitos',
         NEW a \in Nat, a <= Maximo(h)', r \in alone => a = Atual(h)',
         NEW t, IsStreak(t), t.by = r, t.habito = h, t.current = a, t.max \in Nat,
         t.max = a \/ \E i \in LiveHabitos' : t.max <= Maximo(i)'
  PROVE  Fits(t)'
  <1>1. \E i \in LiveHabitos' : t.max <= Maximo(i)'
    OBVIOUS
  <1>2. t.current <= Maximo(t.habito)'
    OBVIOUS
  <1>3. t.by \notin Overlapped' => t.current = Atual(t.habito)'
    OBVIOUS
  <1> QED
    BY <1>1, <1>2, <1>3 DEF Fits, IsStreak

LEMMA StreakCommits ==
  ASSUME BaseInv, RegistrosInv, StreakInv, area' = area, area = "habitos",
         NEW r \in InFlight, CommitRegistro(r)
  PROVE  StreakInv'
  <1>1. /\ r \in Requests /\ Works(r) /\ Moves(r) /\ call'[r].pc = "uncache" /\ alone' = alone
        /\ Overlapped \subseteq Overlapped'
    BY GotoWorks DEF CommitRegistro, BaseInv, Works, Moves, GoesTo, GoesAs
  <1>2. Registering(call[r]) /\ Inserting(call[r]) /\ call[r].op = "registrar" /\ call[r].pc = "commit"
    BY DEF CommitRegistro, On, At, Registering, Inserting
  <1>3. PICK h, x, a, found : /\ h = call[r].id /\ x = call[r].read.registro
                              /\ a = call[r].read.atual /\ found = call[r].read.found
    OBVIOUS
  <1>4. StreakCall(r, call[r]) /\ StreaksOK /\ HabitosTyped
    BY <1>1 DEF StreakInv
  <1>5. x.habito = h
    BY <1>1, <1>2, <1>3, SaveWhat DEF RowToSave
  <1>6. h \in LiveHabitos
    BY <1>2, <1>3, <1>4 DEF StreakCall, Names
  <1>7. PICK S : S = RowsOf(h) \cup {x}
    OBVIOUS
  <1>8. /\ x.data \in Days /\ a \in Nat /\ a <= getStreak(S).maximo
        /\ r \in alone => a = getStreak(S).atual
    BY <1>2, <1>3, <1>4, <1>7 DEF StreakCall, Hand
  <1>9. \A s \in streaks : s.id \in found \/ {r, s.by, s.id} \subseteq Overlapped
    BY <1>2, <1>3, <1>4 DEF StreakCall, Sees
  <1>10. UNCHANGED habitos /\ registros' = registros \cup {x}
    BY <1>3 DEF CommitRegistro
  <1>11. PICK set : set = [s \in streaks |->
              [s EXCEPT !.by = r, !.habito = h, !.current = a, !.max = IF a > @ THEN a ELSE @]]
    OBVIOUS
  <1>12. streaks' = IF found = {}
                    THEN streaks \cup {[id |-> r, by |-> r, habito |-> h, current |-> a, max |-> a]}
                    ELSE {IF s.id \in found THEN set[s] ELSE s : s \in streaks}
    BY <1>3, <1>11 DEF CommitRegistro
  <1>13. \A s \in streaks : Fits(s) /\ IsStreak(s) /\ s.max \in Nat
    BY <1>4 DEF StreaksOK, Fits
  <1>14. ASSUME NEW s \in streaks
         PROVE  /\ IsStreak(set[s]) /\ set[s].id = s.id /\ set[s].by = r /\ set[s].habito = h
                /\ set[s].current = a /\ set[s].max = IF a > s.max THEN a ELSE s.max
    <2>1. PICK i, b, k, c, m : s = [id |-> i, by |-> b, habito |-> k, current |-> c, max |-> m]
      BY <1>13 DEF IsStreak
    <2>2. set[s] = [id |-> i, by |-> r, habito |-> h, current |-> a, max |-> IF a > m THEN a ELSE m]
      BY <1>11, <2>1
    <2> QED
      BY <2>1, <2>2 DEF IsStreak
  <1> HIDE <1>3, <1>11
  <1>15. HabitosTyped' /\ LiveHabitos' = LiveHabitos /\ DaysGrow
    BY <1>4, <1>8, <1>10, FS_AddElement DEF HabitosTyped, LiveHabitos, DaysGrow
  <1>16. a <= Maximo(h)' /\ (r \in alone => a = Atual(h)')
    <2>1. RowsOf(h)' = S
      BY <1>5, <1>7, <1>10 DEF RowsOf
    <2>2. Atual(h)' = getStreak(S).atual /\ Maximo(h)' = getStreak(S).maximo
      BY <2>1, Zenon DEF Atual, Maximo
    <2> QED
      BY <1>8, <2>2
  <1>17. r \notin Overlapped' => r \in alone
    BY <1>1 DEF Overlapped, At
  <1>18. \A s \in streaks : s.id \in found \/ {r, s.by, s.id} \subseteq Overlapped'
    BY <1>1, <1>9
  <1>19. ASSUME NEW s \in streaks
         PROVE  /\ s.id \notin found => Fits(s)'
                /\ Fits(set[s])'
    <2>1. ASSUME s.id \notin found PROVE Fits(s)'
      <3>1. s.by \in Overlapped' /\ Overlapped \subseteq Overlapped' /\ Fits(s)
        BY <1>1, <1>13, <1>18, <2>1
      <3> QED
        BY <1>4, <1>15, <3>1, FitsStays
    <2>2. Fits(set[s])'
      <3>1. PICK t : t = set[s]
        OBVIOUS
      <3>2. /\ IsStreak(t) /\ t.by = r /\ t.habito = h /\ t.current = a
            /\ t.max = IF a > s.max THEN a ELSE s.max
        BY <1>14, <3>1
      <3>3. t.max = a \/ \E i \in LiveHabitos' : t.max <= Maximo(i)'
        <4>1. PICK i \in LiveHabitos : s.max <= Maximo(i)
          BY <1>13 DEF Fits
        <4>2. Maximo(i) \in Nat /\ Maximo(i)' \in Nat /\ Maximo(i) <= Maximo(i)'
          BY <1>4, <1>15, StreaksGrow
        <4>3. s.max <= Maximo(i)'
          BY <1>13, <4>1, <4>2
        <4> QED
          BY <1>15, <3>2, <4>3
      <3>4. t.max \in Nat
        BY <1>8, <1>13, <3>2
      <3>5. Fits(t)'
        BY <1>6, <1>8, <1>15, <1>16, <1>17, <3>2, <3>3, <3>4, StreakWritten
      <3> QED
        BY <3>1, <3>5
    <2> QED
      BY <2>1, <2>2
  <1>20. PICK new : new = [id |-> r, by |-> r, habito |-> h, current |-> a, max |-> a]
    OBVIOUS
  <1>21. Fits(new)' /\ new.id = r /\ new.by = r
    <2>1. /\ IsStreak(new) /\ new.by = r /\ new.habito = h /\ new.current = a
          /\ new.max = a /\ new.id = r
      BY <1>20 DEF IsStreak
    <2>2. Fits(new)'
      BY <1>6, <1>8, <1>15, <1>16, <1>17, <2>1, StreakWritten
    <2> QED
      BY <2>1, <2>2
  <1>22. ASSUME NEW t \in streaks'
         PROVE  /\ Fits(t)'
                /\ \/ t \in streaks
                   \/ t.by = r /\ \E s \in streaks : s.id = t.id
                   \/ t.by = r /\ t.id = r
    BY <1>12, <1>14, <1>19, <1>20, <1>21, <1>18
  <1>23. StreaksOK'
    <2>1. ASSUME NEW s \in streaks', NEW t \in streaks', s # t
          PROVE  {s.id, t.id} \subseteq Overlapped'
      <3>1. \A u, v \in streaks : u = v \/ {u.id, v.id} \subseteq Overlapped'
        BY <1>1, <1>4 DEF StreaksOK
      <3>2. CASE found = {}
        BY <1>12, <1>18, <1>20, <1>21, <2>1, <3>1, <3>2
      <3>3. CASE found # {}
        <4>1. PICK u \in streaks : s = IF u.id \in found THEN set[u] ELSE u
          BY <1>12, <3>3
        <4>2. PICK v \in streaks : t = IF v.id \in found THEN set[v] ELSE v
          BY <1>12, <3>3
        <4>3. u # v /\ s.id = u.id /\ t.id = v.id
          BY <1>14, <2>1, <4>1, <4>2
        <4> QED
          BY <3>1, <4>3
      <3> QED
        BY <3>2, <3>3
    <2> QED
      BY <1>22, <2>1 DEF StreaksOK
  <1>24. ASSUME NEW q \in Requests, q # r
         PROVE  StreakCall(q, call[q])'
    <2>1. call'[q] = call[q] /\ StreakCall(q, call[q])
      BY <1>1, <1>24 DEF Moves, OnlyMoves, StreakInv
    <2>2. q \in InFlight => q \in Overlapped /\ r \in Overlapped /\ q \notin alone'
      BY <1>1, <1>24 DEF Works, Overlapped
    <2>3. ASSUME call[q].op = "registrar", call[q].pc \in {"streak", "commit"}, NEW t \in streaks'
          PROVE  \/ t \in streaks \/ t.id \in call[q].read.found
                 \/ {q, t.by, t.id} \subseteq Overlapped'
      <3>1. q \in Overlapped' /\ r \in Overlapped'
        BY <1>1, <2>2, <2>3 DEF InFlight, At
      <3>2. \A s \in streaks : s.id \in call[q].read.found \/ s.id \in Overlapped'
        BY <1>1, <2>1, <2>3 DEF StreakCall, Sees
      <3> QED
        BY <1>22, <2>3, <3>1, <3>2
    <2> QED
      BY <1>1, <1>4, <1>15, <2>1, <2>2, <2>3, StreakCallStays
  <1>25. StreakCall(r, call[r])'
    BY <1>1, StreakElsewhere
  <1> QED
    BY <1>15, <1>23, <1>24, <1>25 DEF StreakInv

LEMMA StreakRegistrar ==
  ASSUME BaseInv, RegistrosInv, StreakInv, area' = area, area = "habitos", NEW r \in Requests,
         RegistrarHabitoHandler(r)
  PROVE  StreakInv'
  <1>1. r \in InFlight
    BY DEF RegistrarHabitoHandler, saveRegistro, ExistsStreak, WriteStreak, CommitRegistro,
           Permit, On, At, InFlight
  <1>2. CASE UNCHANGED <<habitos, registros, streaks>> /\ \E status : Reply(r, status)
    BY <1>1, <1>2, StreakPasses
  <1>3. CASE /\ UNCHANGED <<habitos, registros, streaks>> /\ call[r].op = "registrar"
             /\ \/ On(r, "registrar", "check") /\ Goto(r, "findRegistro")
                \/ On(r, "registrar", "findRegistro") /\ \E read : Keep(r, read, "save")
    <2>1. /\ Moves(r) /\ call'[r].id = call[r].id /\ call'[r].arg = call[r].arg
          /\ call[r].pc \in {"check", "findRegistro"} /\ call'[r].pc \in {"findRegistro", "save"}
      BY <1>1, <1>3, GotoWorks, KeepWorks DEF BaseInv, Works, GoesTo, GoesAs, On, At
    <2>2. Names(call[r]) /\ LiveHabitos' = LiveHabitos
      BY <1>3 DEF StreakInv, StreakCall, LiveHabitos
    <2>3. StreakCall(r, call[r])'
      BY <1>3, <2>1, <2>2 DEF StreakCall, Names, Hand, Sees, Inserting
    <2> QED
      BY <1>3, <2>1, <2>3, StreakQuiet
  <1>4. ASSUME Inserting(call[r]) \/ On(r, "registrar", "save")
        PROVE  IsHand(call[r].read)
    BY <1>4 DEF RegistrosInv, RegistroCall, Registering, Inserting, On, At
  <1>5. CASE saveRegistro(r)
    <2>1. On(r, "registrar", "save") /\ IsHand(call[r].read) /\ UNCHANGED <<habitos, streaks>>
      BY <1>4, <1>5 DEF saveRegistro, On, At
    <2>2. PICK x, old : x = call[r].read.registro /\ old = {y \in registros : y.id = x.id}
      OBVIOUS
    <2>3. PICK a : a = recalculaStreak(RowsOf(x.habito) \cup {x})
      BY Zenon
    <2>4. PICK read : read = [call[r].read EXCEPT !.atual = a]
      OBVIOUS
    <2>5. \/ /\ old # {} /\ registros' = (registros \ old) \cup {x} /\ Goto(r, "uncache")
          \/ Keep(r, read, "exists") /\ UNCHANGED registros
      BY <1>5, <2>2, <2>3, <2>4, Zenon DEF saveRegistro
    <2>6. read.registro = x /\ read.atual = a
      BY <2>1, <2>2, <2>4 DEF IsHand
    <2> HIDE <2>4
    <2> QED
      BY <1>1, <2>1, <2>2, <2>3, <2>5, <2>6, StreakRewritten, StreakCounted
  <1>6. CASE ExistsStreak(r) \/ WriteStreak(r)
    <2>1. PICK found : found = IF call[r].pc = "streak" /\ call[r].read.found = {} THEN {}
                               ELSE {s.id : s \in streaks}
      OBVIOUS
    <2>2. PICK read : read = [call[r].read EXCEPT !.found = found]
      OBVIOUS
    <2>3. /\ Inserting(call[r]) /\ UNCHANGED <<habitos, registros, streaks>>
          /\ call[r].op = "registrar" /\ call[r].pc \in {"exists", "streak"}
      BY <1>6 DEF ExistsStreak, WriteStreak, On, At, Inserting, HabitoReads, habito_rows
    <2>4. /\ read.registro = call[r].read.registro /\ read.atual = call[r].read.atual
          /\ read.found = found
      BY <1>4, <2>2, <2>3 DEF IsHand
    <2>5. \E label \in {"streak", "commit"} : Keep(r, read, label)
      <3>1. CASE ExistsStreak(r)
        <4>1. found = {s.id : s \in streaks}
          BY <2>1, <3>1 DEF ExistsStreak, On, At
        <4>2. Keep(r, [call[r].read EXCEPT !.found = {s.id : s \in streaks}], "streak")
          BY <3>1, Zenon DEF ExistsStreak
        <4> QED
          BY <2>2, <4>1, <4>2, Zenon
      <3>2. CASE WriteStreak(r)
        <4>1. Keep(r, [call[r].read EXCEPT !.found = IF @ = {} THEN {} ELSE {s.id : s \in streaks}],
                   "commit")
          BY <3>2, Zenon DEF WriteStreak
        <4>2. [call[r].read EXCEPT !.found = IF @ = {} THEN {} ELSE {s.id : s \in streaks}] = read
          BY <2>1, <2>2, <3>2 DEF WriteStreak, On, At
        <4> QED
          BY <4>1, <4>2, Zenon
      <3> QED
        BY <1>6, <3>1, <3>2
    <2>6. \A s \in streaks : s.id \in read.found \/ {r, s.by, s.id} \subseteq Overlapped
      <3>1. CASE call[r].pc = "streak" /\ call[r].read.found = {}
        BY <2>1, <2>3, <2>4, <3>1 DEF StreakInv, StreakCall, Sees
      <3>2. CASE ~ (call[r].pc = "streak" /\ call[r].read.found = {})
        BY <2>1, <2>4, <3>2
      <3> QED
        BY <3>1, <3>2
    <2> HIDE <2>2
    <2> QED
      BY <1>1, <2>3, <2>4, <2>5, <2>6, StreakHeld
  <1>7. CASE CommitRegistro(r)
    BY <1>1, <1>7, StreakCommits
  <1> QED
    BY <1>2, <1>3, <1>5, <1>6, <1>7
       DEF RegistrarHabitoHandler, Permit, HabitoReads, habito_rows, UncacheRegistro, On

LEMMA StreakSteps ==
  ASSUME BaseInv, RegistrosInv, StreakInv, area' = area, NEW r \in Requests, InHabitos(r)
  PROVE  StreakInv'
  <1>1. area = "habitos"
    BY DEF InHabitos
  <1>2. CASE HabitosArrival(r)
    BY <1>1, <1>2, StreakArrives
  <1>3. CASE RegistrarHabitoHandler(r)
    BY <1>1, <1>3, StreakRegistrar
  <1>4. CASE LeaveOut(r)
    <2>1. Moves(r) /\ call'[r].pc = "each" /\ UNCHANGED <<habitos, registros, streaks>>
      BY <1>4, LeaveOutWorks DEF Works, LeaveOut, HabitoReads, habito_rows
    <2> QED
      BY <2>1, StreakElsewhere, StreakQuiet
  <1>5. CASE \/ CreateHabitoHandler(r) \/ UpdateHabitoHandler(r)
             \/ DeleteHabitoHandler(r) \/ GetHabitosByBlocoHandler(r)
    <2>1. r \in InFlight /\ call[r].op # "registrar" /\ UNCHANGED <<registros, streaks>>
      BY <1>5 DEF CreateHabitoHandler, UpdateHabitoHandler, DeleteHabitoHandler,
           GetHabitosByBlocoHandler, Permit, On, At, InFlight, habito_rows
    <2>2. \/ /\ UNCHANGED habitos
             /\ \/ \E status : Reply(r, status)
                \/ \E label : label # "idle" /\ (Goto(r, label) \/ \E read : Keep(r, read, label))
          \/ /\ Goto(r, "uncache")
             /\ \/ habitos' = [habitos EXCEPT ![r] = [exists |-> TRUE, nome |-> r]]
                \/ habitos' = [habitos EXCEPT ![call[r].id].nome = r]
      <3>1. CASE CreateHabitoHandler(r)
        BY <3>1 DEF CreateHabitoHandler, Permit
      <3>2. CASE UpdateHabitoHandler(r)
        BY <3>2 DEF UpdateHabitoHandler, Permit
      <3>3. CASE DeleteHabitoHandler(r)
        BY <3>3 DEF DeleteHabitoHandler, Permit, habito_rows
      <3>4. CASE GetHabitosByBlocoHandler(r)
        BY <3>4 DEF GetHabitosByBlocoHandler, Permit, GetCache, SetCache, habito_rows
      <3> QED
        BY <1>5, <3>1, <3>2, <3>3, <3>4
    <2> QED
      BY <2>1, <2>2, StreakPasses, StreakWrites
  <1> QED
    BY <1>1, <1>2, <1>3, <1>4, <1>5 DEF InHabitos, HabitosStep

LEMMA StreakStill ==
  ASSUME StreakInv, UNCHANGED <<call, alone, habitos, registros, streaks, area>>
  PROVE  StreakInv'
  <1>1. HabitosTyped /\ HabitosTyped' /\ LiveHabitos' = LiveHabitos /\ Overlapped' = Overlapped
    BY DEF StreakInv, HabitosTyped, LiveHabitos, Overlapped, At
  <1>2. DaysGrow /\ \A h : DaysStay(h)
    BY DEF DaysGrow, DaysStay
  <1>3. CASE area # "habitos"
    BY <1>1, <1>3 DEF StreakInv
  <1>4. CASE area = "habitos"
    <2>1. \A s \in streaks : Fits(s)'
      BY <1>1, <1>2, <1>4, FitsStays DEF StreakInv, StreaksOK
    <2>2. StreaksOK'
      BY <1>1, <1>4, <2>1 DEF StreakInv, StreaksOK
    <2>3. ASSUME NEW q \in Requests
          PROVE  StreakCall(q, call[q])'
      <3>1. call'[q] = call[q] /\ (q \in alone' => q \in alone) /\ StreakCall(q, call[q])
        BY <1>4 DEF StreakInv
      <3> QED
        BY <1>1, <1>2, <3>1, StreakCallStays
    <2> QED
      BY <1>1, <1>4, <2>2, <2>3 DEF StreakInv
  <1> QED
    BY <1>3, <1>4

LEMMA StreakNext ==
  ASSUME BaseInv, RegistrosInv, StreakInv, [Next]_vars
  PROVE  StreakInv'
  <1>1. ASSUME UNCHANGED area, NEW r \in Requests, InHabitos(r)
        PROVE  StreakInv'
    BY <1>1, StreakSteps
  <1>2. ASSUME UNCHANGED area, NEW r \in Requests, InListas(r) \/ InColecoes(r) \/ InAgenda(r)
        PROVE  StreakInv'
    <2>1. UNCHANGED <<habitos, registros, streaks>> /\ area # "habitos"
      BY <1>2 DEF InListas, InColecoes, InAgenda, habito_rows
    <2>2. HabitosTyped'
      BY <2>1 DEF StreakInv, HabitosTyped
    <2> QED
      BY <1>2, <2>1, <2>2 DEF StreakInv
  <1>3. ASSUME UNCHANGED area, NEW r \in Requests, Rejected(r) \/ Fail(r)
        PROVE  StreakInv'
    <2>1. Moves(r) /\ call'[r].pc = "done" /\ UNCHANGED <<habitos, registros, streaks>>
      BY <1>3, EndMoves DEF Rejected, Fail, habito_rows
    <2> QED
      BY <1>3, <2>1, StreakElsewhere, StreakQuiet
  <1>4. CASE (UNCHANGED area /\ (Expiry \/ Midnight)) \/ UNCHANGED vars
    <2>1. UNCHANGED <<call, alone, habitos, registros, streaks, area>>
      BY <1>4 DEF Expiry, Expire, Midnight, vars, handlers, habito_rows
    <2> QED
      BY <2>1, StreakStill
  <1> QED
    BY <1>1, <1>2, <1>3, <1>4 DEF Next, vars

THEOREM StreakInvariant == Spec => []StreakInv
  <1>1. ConteudoInv /\ RegistrosInv /\ StreakInv /\ [Next]_vars => RegistrosInv' /\ StreakInv'
    BY RegistrosNext, StreakNext DEF ConteudoInv
  <1> QED
    BY <1>1, RegistrosInit_, StreakInit_, ConteudoInvariant, PTL DEF Spec

(* The streak of a hábito is one, whoever computes it: the loop of         *)
(* HabitoRepository.getStreak, StreakDomainService.calculate and the SQL   *)
(* of fn_recalcula_streak_habito agree on the longest and on the current,  *)
(* of any rows, in whatever order their days were registered, how often,   *)
(* and on whatever day they are asked.                                     *)
THEOREM StreaksAreOne == Spec => []StreaksAgree
  <1>1. ASSUME StreakInv
        PROVE  StreaksAgree
    <2>1. ASSUME NEW h \in LiveHabitos, RowsOf(h) # {},
                 NEW R, R = RowsOf(h), NEW D, D = DaysOf(h)
          PROVE  /\ recalculaStreak(R) = getStreak(R).atual
                 /\ calculate(DatesInOrder(R)).maximo = getStreak(R).maximo
                 /\ calculate(DatesInOrder(R)).atual = IF today - Max(D) <= 1 THEN getStreak(R).atual ELSE 0
      <3>1. IsFiniteSet(R) /\ \A x \in R : x.data \in Days
        BY <1>1, <2>1, RowsTyped DEF StreakInv
      <3>2. D = {x.data : x \in R} /\ D \subseteq Days
        BY <2>1, <3>1 DEF DaysOf
      <3>3. PICK s : /\ calculate(DatesInOrder(R)) = s
                     /\ s.maximo = getStreak(R).maximo
                     /\ s.atual = IF today - Max(D) <= 1 THEN getStreak(R).atual ELSE 0
        BY <2>1, <3>1, <3>2, StreaksOfRows
      <3>4. recalculaStreak(R) = getStreak(R).atual
        BY <2>1, <3>1, <3>2, StreaksOfRows
      <3> QED
        BY <3>3, <3>4, Zenon
    <2> QED
      BY <2>1, Zenon DEF StreaksAgree
  <1> QED
    BY <1>1, StreakInvariant, PTL

(* The trigger counts in the transaction of the INSERT and sees of others  *)
(* what they have committed; its row is written by the COMMIT.  The row it *)
(* leaves has the current streak of the hábito it was written for, if the  *)
(* request that wrote it overlapped no other, never more than that hábito  *)
(* had in a row nor a maximum that no hábito has; and there is one row for *)
(* the núcleo, but for those of requests that overlapped.                  *)
THEOREM StreakRowIsRight == Spec => []StreakRow
  <1>1. ASSUME StreakInv
        PROVE  StreakRow
    <2>1. StreaksOK
      <3>1. CASE area = "habitos"
        BY <1>1, <3>1 DEF StreakInv
      <3>2. CASE area # "habitos"
        BY <1>1, <3>2 DEF StreakInv, StreaksOK
      <3> QED
        BY <3>1, <3>2
    <2>2. ASSUME NEW s \in streaks
          PROVE  /\ s.by \notin Overlapped => s.current = getStreak(RowsOf(s.habito)).atual
                 /\ s.current <= getStreak(RowsOf(s.habito)).maximo
                 /\ \E h \in LiveHabitos : s.max <= getStreak(RowsOf(h)).maximo
      <3>1. Fits(s)
        BY <2>1 DEF StreaksOK
      <3> QED
        BY <3>1, Zenon DEF Fits, Atual, Maximo
    <2> QED
      BY <2>1, <2>2, Zenon DEF StreaksOK, StreakRow
  <1> QED
    BY <1>1, StreakInvariant, PTL

=============================================================================
