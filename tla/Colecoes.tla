----------------------------- MODULE Colecoes -----------------------------
(***************************************************************************)
(* The coleções of a bloco, their campos, itens, and a value of each item  *)
(* for each campo.  Nothing is cached, nothing is deleted softly, and no   *)
(* handler opens a transaction: an item is written in as many statements   *)
(* as its coleção has campos.  The foreign keys refuse what would leave a  *)
(* row without the row it refers to.                                       *)
(***************************************************************************)
EXTENDS Handlers, FiniteSetsExt

CONSTANT Primeira       \* the row of every table there is to begin with

ASSUME ColecoesAssumption == Primeira \notin Requests \cup {Nobody}

Ids == Requests \cup {Primeira}

(* The types of campo a value is written for by an update ("texto",        *)
(* "numero", "data", "booleano"), and the others the type allows.          *)
Tipos == {"typed", "other"}

VARIABLES
    colecoes,       \* the ids of the rows
    campos,         \* the rows [id, colecao, tipo]
    itens,          \* the rows [id, colecao]
    item_valores,   \* the rows [id, item, campo, valor]; valor is the request that set it
    saved,          \* history: the request that saved an item and was answered last
    due             \* history: the pairs of item and campo a creation set out to write

colecao_rows == <<colecoes, campos, itens, item_valores, saved, due>>

ColecoesInit ==
    /\ colecoes = {Primeira}
    /\ campos = {[id |-> Primeira, colecao |-> Primeira, tipo |-> "typed"]}
    /\ itens = {[id |-> Primeira, colecao |-> Primeira]}
    /\ item_valores = {[id |-> <<Primeira, Primeira>>, item |-> Primeira, campo |-> Primeira,
                        valor |-> Nobody]}
    /\ saved = [i \in Ids |-> Nobody]
    /\ due = {<<Primeira, Primeira>>}

IdsOf(rows) == {row.id : row \in rows}
CamposOf(c) == {campo \in campos : campo.colecao = c}
ColecaoOf(i) == (CHOOSE row \in itens : row.id = i).colecao
ValoresOf(i) == {v \in item_valores : v.item = i}

ColecaoReads == UNCHANGED colecao_rows

-----------------------------------------------------------------------------
(* ColecoesController.  requireString and requireParam throw a 400.        *)

Ask(r, op, id, arg) == Arrive(r, "check", op, id, arg) /\ ColecaoReads
Invalid(r, op) == Refuse(r, op, 400) /\ ColecaoReads

listColecoes(r) == Ask(r, "listColecoes", Primeira, Nobody)
createColecao(r) == Ask(r, "createColecao", r, Nobody) \/ Invalid(r, "createColecao")
(* The command is made without the user: nome is where the user should be. *)
updateColecao(r) == (\E c \in colecoes : Ask(r, "updateColecao", c, Nobody))
                        \/ Invalid(r, "updateColecao")
deleteColecao(r) == \E c \in colecoes : Ask(r, "deleteColecao", c, Nobody)
getColecaoById(r) == \E c \in colecoes : Ask(r, "getColecaoById", c, Nobody)
getCamposByColecao(r) == \E c \in colecoes : Ask(r, "getCampos", c, Nobody)
createCampo(r) == (\E c \in colecoes, tipo \in Tipos :
                        Ask(r, "createCampo", r, [id |-> r, colecao |-> c, tipo |-> tipo]))
                      \/ Invalid(r, "createCampo")
(* As in updateColecao.                                                    *)
updateCampo(r) == \E c \in IdsOf(campos) : Ask(r, "updateCampo", c, Nobody)
deleteCampo(r) == \E c \in IdsOf(campos) : Ask(r, "deleteCampo", c, Nobody)
getItemsByColecao(r) == \E c \in colecoes : Ask(r, "getItems", c, Nobody)
createItem(r) == (\E c \in colecoes : Ask(r, "createItem", r, c)) \/ Invalid(r, "createItem")
updateItem(r) == (\E i \in IdsOf(itens) : Ask(r, "updateItem", i, Nobody))
                     \/ Invalid(r, "updateItem")
deleteItem(r) == \E i \in IdsOf(itens) : Ask(r, "deleteItem", i, Nobody)

(* The status handleError makes of the message of what was thrown.         *)
handleError(thrown) ==
    CASE thrown = "NotFoundException" -> 404
      [] thrown = "ForbiddenException" -> 403
      [] thrown = "Error" -> 500

-----------------------------------------------------------------------------
(* Coleções *)

CreateColecaoHandler(r) ==
    /\ \/ \E live \in BOOLEAN :
             /\ Permit(r, "createColecao", live, "write", handleError("NotFoundException"))
             /\ UNCHANGED colecoes
       \/ /\ On(r, "createColecao", "write")
          /\ colecoes' = colecoes \cup {r}
          /\ Reply(r, 201)
    /\ UNCHANGED <<campos, itens, item_valores, saved, due>>

(* user_id is never the nome.                                              *)
UpdateColecaoHandler(r) ==
    /\ On(r, "updateColecao", "check")
    /\ Reply(r, handleError(IF call[r].id \in colecoes THEN "ForbiddenException"
                            ELSE "NotFoundException"))
    /\ ColecaoReads

DeleteColecaoHandler(r) ==
    /\ \/ /\ Permit(r, "deleteColecao", call[r].id \in colecoes, "write",
                    handleError("NotFoundException"))
          /\ UNCHANGED colecoes
       \/ /\ On(r, "deleteColecao", "write")
          /\ IF \E row \in campos \cup itens : row.colecao = call[r].id
             THEN Reply(r, handleError("Error")) /\ UNCHANGED colecoes
             ELSE colecoes' = colecoes \ {call[r].id} /\ Reply(r, 204)
    /\ UNCHANGED <<campos, itens, item_valores, saved, due>>

-----------------------------------------------------------------------------
(* Campos *)

CreateCampoHandler(r) ==
    /\ \/ /\ Permit(r, "createCampo", call[r].arg.colecao \in colecoes, "write",
                    handleError("NotFoundException"))
          /\ UNCHANGED campos
       \/ /\ On(r, "createCampo", "write")
          /\ IF call[r].arg.colecao \in colecoes
             THEN campos' = campos \cup {call[r].arg} /\ Reply(r, 201)
             ELSE Reply(r, handleError("Error")) /\ UNCHANGED campos
    /\ UNCHANGED <<colecoes, itens, item_valores, saved, due>>

UpdateCampoHandler(r) ==
    /\ On(r, "updateCampo", "check")
    /\ Reply(r, handleError(IF call[r].id \in IdsOf(campos) THEN "ForbiddenException"
                            ELSE "NotFoundException"))
    /\ ColecaoReads

(* The values of the campo refuse it.                                      *)
DeleteCampoHandler(r) ==
    /\ \/ /\ Permit(r, "deleteCampo", call[r].id \in IdsOf(campos), "write",
                    handleError("NotFoundException"))
          /\ UNCHANGED campos
       \/ /\ On(r, "deleteCampo", "write")
          /\ IF \E v \in item_valores : v.campo = call[r].id
             THEN Reply(r, handleError("Error")) /\ UNCHANGED campos
             ELSE campos' = {c \in campos : c.id # call[r].id} /\ Reply(r, 204)
    /\ UNCHANGED <<colecoes, itens, item_valores, saved, due>>

-----------------------------------------------------------------------------
(* Itens *)

(* The campos are written in the order they were read, here in any.        *)
NewValor(r, i, campo) ==
    [id |-> <<r, campo.id>>, item |-> i, campo |-> campo.id, valor |-> r]

(* Mutant: only the tipos an update knows, as in AddValor.                 *)
InsertTyped(r, i, campo) ==
    /\ item_valores' = IF campo.tipo = "typed" THEN item_valores \cup {NewValor(r, i, campo)}
                       ELSE item_valores
    /\ Keep(r, call[r].read \ {campo}, "valores")

InsertValor(r, i, campo) ==
    IF campo \in campos /\ i \in IdsOf(itens)
    THEN /\ item_valores' = item_valores \cup {NewValor(r, i, campo)}
         /\ Keep(r, call[r].read \ {campo}, "valores")
    ELSE Reply(r, handleError("Error")) /\ UNCHANGED item_valores

CreateItemHandler(r) ==
    \/ /\ Permit(r, "createItem", call[r].arg \in colecoes, "campos",
                 handleError("NotFoundException"))
       /\ ColecaoReads
    \/ /\ On(r, "createItem", "campos")
       /\ Keep(r, CamposOf(call[r].arg), "write")
       /\ due' = due \cup {<<r, campo.id>> : campo \in CamposOf(call[r].arg)}
       /\ UNCHANGED <<colecoes, campos, itens, item_valores, saved>>
    \/ /\ On(r, "createItem", "write")
       /\ IF call[r].arg \in colecoes
          THEN itens' = itens \cup {[id |-> r, colecao |-> call[r].arg]} /\ Goto(r, "valores")
          ELSE Reply(r, handleError("Error")) /\ UNCHANGED itens
       /\ UNCHANGED <<colecoes, campos, item_valores, saved, due>>
    \/ /\ On(r, "createItem", "valores")
       /\ \E campo \in call[r].read : InsertValor(r, r, campo)
       /\ UNCHANGED <<colecoes, campos, itens, saved, due>>
    \/ /\ On(r, "createItem", "valores") /\ call[r].read = {}
       /\ Reply(r, 201)
       /\ saved' = [saved EXCEPT ![r] = r]
       /\ UNCHANGED <<colecoes, campos, itens, item_valores, due>>

(* Mutant: the switch has no case for the tipo.                            *)
SetNothing(r, i, campo) ==
    /\ Keep(r, [call[r].read EXCEPT !.todo = @ \ {campo}, !.now = Nobody], "valores")
    /\ UNCHANGED item_valores

(* UPDATE: every row of the pair, and only for a tipo the switch names.    *)
SetValor(r, i, campo) ==
    /\ item_valores' = {IF v.item = i /\ v.campo = campo.id /\ campo.tipo = "typed"
                        THEN [v EXCEPT !.valor = r] ELSE v : v \in item_valores}
    /\ Keep(r, [call[r].read EXCEPT !.todo = @ \ {campo}, !.now = Nobody], "valores")

(* INSERT, for the same tipos.                                             *)
AddValor(r, i, campo) ==
    IF campo.tipo # "typed"
    THEN /\ Keep(r, [call[r].read EXCEPT !.todo = @ \ {campo}, !.now = Nobody], "valores")
         /\ UNCHANGED item_valores
    ELSE IF campo \in campos /\ i \in IdsOf(itens)
    THEN /\ item_valores' = item_valores \cup {NewValor(r, i, campo)}
         /\ Keep(r, [call[r].read EXCEPT !.todo = @ \ {campo}, !.now = Nobody], "valores")
    ELSE Reply(r, handleError("Error")) /\ UNCHANGED item_valores

(* Mutant: a value is never looked for.                                    *)
NeverExists(i, campo) == FALSE
HasValor(i, campo) == \E v \in ValoresOf(i) : v.campo = campo.id

UpdateItemHandler(r) ==
    LET i == call[r].id
    IN  \/ /\ Permit(r, "updateItem", i \in IdsOf(itens), "colecao",
                     handleError("NotFoundException"))
           /\ ColecaoReads
        \/ /\ On(r, "updateItem", "colecao")
           /\ IF i \in IdsOf(itens) THEN Keep(r, ColecaoOf(i), "campos")
              ELSE Reply(r, handleError("Error"))
           /\ ColecaoReads
        \/ /\ On(r, "updateItem", "campos")
           /\ Keep(r, [todo |-> CamposOf(call[r].read), now |-> Nobody], "valores")
           /\ ColecaoReads
        \/ /\ On(r, "updateItem", "valores")
           /\ \E campo \in call[r].read.todo :
                 Keep(r, [call[r].read EXCEPT !.now = campo],
                      IF HasValor(i, campo) THEN "setValor" ELSE "addValor")
           /\ ColecaoReads
        \/ /\ On(r, "updateItem", "setValor")
           /\ SetValor(r, i, call[r].read.now)
           /\ UNCHANGED <<colecoes, campos, itens, saved, due>>
        \/ /\ On(r, "updateItem", "addValor")
           /\ AddValor(r, i, call[r].read.now)
           /\ UNCHANGED <<colecoes, campos, itens, saved, due>>
        \/ /\ On(r, "updateItem", "valores") /\ call[r].read.todo = {}
           /\ Goto(r, "touch")
           /\ ColecaoReads
        \/ On(r, "updateItem", "touch") /\ Goto(r, "reread") /\ ColecaoReads
        \/ /\ On(r, "updateItem", "reread")
           /\ IF i \in IdsOf(itens) THEN Reply(r, 200) /\ saved' = [saved EXCEPT ![i] = r]
              ELSE Reply(r, handleError("Error")) /\ UNCHANGED saved
           /\ UNCHANGED <<colecoes, campos, itens, item_valores, due>>

(* Two statements: the second fails if a value was added in between.       *)
DeleteItemHandler(r) ==
    /\ \/ /\ Permit(r, "deleteItem", call[r].id \in IdsOf(itens), "valores",
                    handleError("NotFoundException"))
          /\ UNCHANGED <<itens, item_valores>>
       \/ /\ On(r, "deleteItem", "valores")
          /\ item_valores' = item_valores \ ValoresOf(call[r].id)
          /\ Goto(r, "write")
          /\ UNCHANGED itens
       \/ /\ On(r, "deleteItem", "write")
          /\ IF ValoresOf(call[r].id) # {}
             THEN Reply(r, handleError("Error")) /\ UNCHANGED itens
             ELSE itens' = {row \in itens : row.id # call[r].id} /\ Reply(r, 204)
          /\ UNCHANGED item_valores
    /\ UNCHANGED <<colecoes, campos, saved, due>>

-----------------------------------------------------------------------------
(* Queries *)

Query(r, op, allowed) ==
    /\ \/ Permit(r, op, allowed, "select", handleError("NotFoundException"))
       \/ On(r, op, "select") /\ Reply(r, 200)
    /\ ColecaoReads

GetColecoesByBlocoHandler(r) == \E live \in BOOLEAN : Query(r, "listColecoes", live)
GetColecaoByIdHandler(r) == Query(r, "getColecaoById", call[r].id \in colecoes)
GetCamposByColecaoHandler(r) == Query(r, "getCampos", call[r].id \in colecoes)

(* A query for the itens, and one for the values of each.                  *)
GetItemsByColecaoHandler(r) ==
    /\ \/ Permit(r, "getItems", call[r].id \in colecoes, "select", handleError("NotFoundException"))
       \/ /\ On(r, "getItems", "select")
          /\ Keep(r, {row.id : row \in {i \in itens : i.colecao = call[r].id}}, "each")
       \/ On(r, "getItems", "each") /\ \E i \in call[r].read : Keep(r, call[r].read \ {i}, "each")
       \/ On(r, "getItems", "each") /\ call[r].read = {} /\ Reply(r, 200)
    /\ ColecaoReads

-----------------------------------------------------------------------------
ColecoesArrival(r) ==
    \/ listColecoes(r) \/ createColecao(r) \/ updateColecao(r) \/ deleteColecao(r)
    \/ getColecaoById(r) \/ getCamposByColecao(r) \/ createCampo(r) \/ updateCampo(r)
    \/ deleteCampo(r) \/ getItemsByColecao(r) \/ createItem(r) \/ updateItem(r) \/ deleteItem(r)

ColecoesStep(r) ==
    \/ CreateColecaoHandler(r) \/ UpdateColecaoHandler(r) \/ DeleteColecaoHandler(r)
    \/ CreateCampoHandler(r) \/ UpdateCampoHandler(r) \/ DeleteCampoHandler(r)
    \/ CreateItemHandler(r) \/ UpdateItemHandler(r) \/ DeleteItemHandler(r)
    \/ GetColecoesByBlocoHandler(r) \/ GetColecaoByIdHandler(r) \/ GetCamposByColecaoHandler(r)
    \/ GetItemsByColecaoHandler(r)

-----------------------------------------------------------------------------
(* An item has one value for a campo; two are due to requests that         *)
(* overlapped while both looked for one and found none.                    *)
OneValuePerCampo ==
    \A v, w \in item_valores : (v.item = w.item /\ v.campo = w.campo)
        => v = w \/ {v.id[1], w.id[1]} \subseteq Overlapped

(* The values of an item are all of the request that saved it last.  A     *)
(* value of another is of a tipo no update writes, or one of the two was   *)
(* overlapped, or a save of the item is not over or has failed.            *)
ItemIsOneSave ==
    \A v \in item_valores : v.valor # saved[v.item] =>
        \/ \E c \in campos : c.id = v.campo /\ c.tipo = "other"
        \/ {v.valor, saved[v.item]} \cap Overlapped # {}
        \/ \E r \in Requests : /\ call[r].op \in {"createItem", "updateItem"}
                               /\ r \in InFlight \/ answer[r] = 500

(* An item whose creation was answered 201 has a value for every campo the *)
(* coleção had; unless a deletion of the item is between its two           *)
(* statements, or failed there.                                            *)
ItemsAreWhole ==
    \A i \in itens, c \in campos : <<i.id, c.id>> \in due =>
        \/ HasValor(i.id, c)
        \/ i.id \in Requests /\ answer[i.id] # 201
        \/ \E r \in Requests : call[r].op = "deleteItem" /\ (r \in InFlight \/ answer[r] = 500)

=============================================================================
