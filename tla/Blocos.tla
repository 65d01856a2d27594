------------------------------ MODULE Blocos ------------------------------
(***************************************************************************)
(* The blocos of the núcleo Home: a tree with positions, contents and a    *)
(* canvas, and the cached lists of it, together with the núcleos.          *)
(*                                                                         *)
(* A bloco has columns that different handlers write: conteudo only by     *)
(* patchContent; tipo, titulo, configuracoes, posicao and parent_id by an  *)
(* update that writes back what it has read, and single ones by reorder,   *)
(* move, patchContent and saveCanvasContent.  is_canvas stays what it was  *)
(* when the bloco was made, but a canvas is looked for by tipo as well.    *)
(* Nothing asks whether a bloco is made its own ancestor.                  *)
(***************************************************************************)
EXTENDS Nucleos

CONSTANTS
    First,          \* the bloco there is to begin with
    Firsts,         \* the tipos it may have
    Updates,        \* what the body of an update asks for
    Same            \* undefined: a field the body does not have

Root == Nobody      \* parent_id IS NULL
Tipos == {"canvas", "texto"}    \* "texto" for each of the others

ASSUME BlocosAssumption ==
    /\ First \notin Requests \cup {Nobody} /\ Firsts \subseteq Tipos
    /\ \A u \in Updates : /\ u.parent \in {First, Root, Same}
                          /\ u.posicao \in Nat \cup {Same} /\ u.edits \in BOOLEAN
                          /\ u.tipo \in Tipos \cup {Same}

BlocoIds == Requests \cup {First}

VARIABLES
    blocos,     \* the rows, by id
    patched,    \* history: the patchContent of a bloco that was answered last
    moved       \* history: blocos whose parent_id was changed

bloco_rows == <<blocos, patched, moved>>
vars == <<handlers, caches, nucleos, bloco_rows>>

(* canvas is is_canvas; edition, the request that last set titulo or       *)
(* configuracoes.  History: onDemand, that it was made because there was   *)
(* no canvas, and retyped, that its tipo was changed since it was made.    *)
AbsentBloco == [exists |-> FALSE, deleted |-> FALSE, parent |-> Root, posicao |-> 0,
                conteudo |-> Nobody, edition |-> Nobody, tipo |-> "texto", canvas |-> FALSE,
                onDemand |-> FALSE, retyped |-> FALSE]

(* tipo and is_canvas of what a creation makes (BlocoRepository.save), and *)
(* of what a look for a canvas does.                                       *)
OfTipo(tipo) == [AbsentBloco EXCEPT !.exists = TRUE, !.tipo = tipo, !.canvas = (tipo = "canvas")]
OnDemand == [OfTipo("canvas") EXCEPT !.onDemand = TRUE]

LiveBlocos == {b \in BlocoIds : blocos[b].exists /\ ~ blocos[b].deleted}
Canvases == {b \in LiveBlocos : blocos[b].tipo = "canvas" /\ blocos[b].canvas}

(* The keys of the lists: of all blocos, and of the children of one.       *)
All == "all"
blocosByNucleo(parent) == <<"blocos:nucleo", parent>>
ListOf(parent) == IF parent = All THEN LiveBlocos
                  ELSE {b \in LiveBlocos : blocos[b].parent = parent}

(* To begin with, a bloco: a text, or the canvas of the núcleo.            *)
Init ==
    /\ HandlersInit /\ CacheInit /\ NucleosInit
    /\ \E tipo \in Firsts :
          blocos = [b \in BlocoIds |-> IF b # First THEN AbsentBloco
                                      ELSE IF tipo = "canvas" THEN OnDemand ELSE OfTipo(tipo)]
    /\ patched = [b \in BlocoIds |-> Nobody]
    /\ moved = {}

OnlyReads == UNCHANGED <<bloco_rows, nucleos, caches>>

-----------------------------------------------------------------------------
(* BlocosController *)

GetByNucleo(r) ==
    /\ \E parent \in {All, First} :
          Arrive(r, "getBlocos", "getByNucleo", Nobody, parent)
    /\ OnlyReads

Create(r) ==
    /\ \/ \E parent \in {Root, First}, tipo \in Tipos :
             Arrive(r, "checkNucleo", "create", r, [OfTipo(tipo) EXCEPT !.parent = parent])
       \/ Refuse(r, "create", 400)
    /\ OnlyReads

Update(r) ==
    /\ \E b \in BlocoIds, u \in Updates :
          blocos[b].exists /\ Arrive(r, "findBloco", "update", b, u)
    /\ OnlyReads

Delete(r) ==
    /\ \E b \in BlocoIds : blocos[b].exists /\ Arrive(r, "checkBoth", "delete", b, Nobody)
    /\ OnlyReads

Reorder(r) ==
    /\ Arrive(r, "checkNucleo", "reorder", Nobody, Nobody)
    /\ OnlyReads

Move(r) ==
    /\ \E b \in BlocoIds, parent \in {First, Root} :
          blocos[b].exists /\ Arrive(r, "move", "move", b, parent)
    /\ OnlyReads

PatchContent(r) ==
    /\ \E b \in BlocoIds, tipo \in Tipos \cup {Same} :
          blocos[b].exists /\ Arrive(r, "patchContent", "patchContent", b, tipo)
    /\ OnlyReads

GetCanvasByNucleo(r) ==
    /\ Arrive(r, "findCanvas", "getCanvas", Nobody, Nobody)
    /\ OnlyReads

SaveCanvasContent(r) ==
    /\ Arrive(r, "findCanvas", "saveCanvas", Nobody, Nobody)
    /\ OnlyReads

(* GetBlocoByIdHandler, getChildren and getAncestors change nothing, and   *)
(* answer from one or two queries.                                         *)
GetById(r) ==
    /\ \E b \in BlocoIds : blocos[b].exists /\ Arrive(r, "checkNucleo", "getById", b, Nobody)
    /\ OnlyReads

-----------------------------------------------------------------------------
(* CreateBlocoHandler *)

(* The núcleo is live and the user's.                                      *)
CheckNucleo(r) ==
    /\ At(r, "checkNucleo")
    /\ IF Home \notin LiveNucleos
       THEN Reply(r, IF call[r].op = "getById" THEN 404 ELSE 400)
       ELSE CASE call[r].op = "create" ->
                   Goto(r, IF call[r].arg.parent = Root THEN "saveBloco" ELSE "findParent")
              [] call[r].op = "reorder" -> Keep(r, LiveBlocos, "reorder")
              [] call[r].op = "getByNucleo" -> Goto(r, "findBlocos")
              [] call[r].op = "getById" -> Goto(r, "findBloco")
    /\ OnlyReads

FindParent(r) ==
    /\ At(r, "findParent")
    /\ IF call[r].arg.parent \in LiveBlocos THEN Goto(r, "saveBloco") ELSE Reply(r, 400)
    /\ OnlyReads

SaveBloco(r) ==
    /\ At(r, "saveBloco")
    /\ blocos' = [blocos EXCEPT ![r] = [call[r].arg EXCEPT !.edition = r]]
    /\ Goto(r, "uncacheBlocos")
    /\ UNCHANGED <<nucleos, caches, patched, moved>>

(* Mutant: the key of the núcleo is deleted, not those it is a prefix of.  *)
UncacheAllOnly(r) ==
    /\ At(r, "uncacheBlocos")
    /\ Reply(r, IF call[r].op = "create" THEN 201 ELSE 204)
    /\ DeleteCache({blocosByNucleo(All)})
    /\ UNCHANGED <<nucleos, bloco_rows>>

(* deleteCacheByPrefix; then BlocoCriadoEvent is dispatched.               *)
UncacheBlocos(r) ==
    /\ At(r, "uncacheBlocos")
    /\ Reply(r, IF call[r].op = "create" THEN 201 ELSE 204)
    /\ DeleteCache({blocosByNucleo(parent) : parent \in BlocoIds \cup {All}})
    /\ UNCHANGED <<nucleos, bloco_rows>>

-----------------------------------------------------------------------------
(* UpdateBlocoHandler, DeleteBlocoHandler, ReorderBlocosHandler, move *)

(* The fields the body has.                                                *)
Updated(bloco, u, r) ==
    [bloco EXCEPT !.tipo = IF u.tipo = Same THEN @ ELSE u.tipo,
                  !.parent = IF u.parent = Same THEN @ ELSE u.parent,
                  !.posicao = IF u.posicao = Same THEN @ ELSE u.posicao,
                  !.edition = IF u.edits THEN r ELSE @]

(* A tipo that is none of the list throws before anything is written.      *)
FindBloco(r) ==
    /\ At(r, "findBloco")
    /\ LET live == call[r].id \in LiveBlocos
       IN  \/ ~ live /\ Reply(r, IF call[r].op = "getById" THEN 404 ELSE 400)
           \/ live /\ call[r].op = "getById" /\ Reply(r, 200)
           \/ live /\ call[r].op = "update"
              /\ \/ call[r].arg.tipo # Same /\ Reply(r, 400)
                 \/ Keep(r, Updated(blocos[call[r].id], call[r].arg, r), "updateBloco")
    /\ OnlyReads

(* Mutant: the statement of save, with conteudo and deleted_at as read.    *)
UpsertBloco(r) ==
    /\ At(r, "updateBloco")
    /\ LET b == call[r].id
       IN  /\ blocos' = [blocos EXCEPT ![b] = call[r].read]
           /\ moved' = IF call[r].arg.parent = Same THEN moved ELSE moved \cup {b}
    /\ Reply(r, 200)
    /\ UNCHANGED <<nucleos, caches, patched>>

(* Whether b was given another tipo, once tipo is written.                 *)
Retyped(b, tipo) == blocos[b].retyped \/ blocos[b].tipo # tipo

(* BlocoRepository.update: every column but conteudo and is_canvas, of a   *)
(* live row; the cached lists stay.                                        *)
UpdateBloco(r) ==
    /\ At(r, "updateBloco")
    /\ LET b == call[r].id
       IN  /\ blocos' = IF b \notin LiveBlocos THEN blocos
                        ELSE [blocos EXCEPT ![b] =
                                 [call[r].read EXCEPT !.conteudo = blocos[b].conteudo,
                                                      !.retyped = Retyped(b, call[r].read.tipo)]]
           /\ moved' = IF call[r].read.parent = blocos[b].parent THEN moved ELSE moved \cup {b}
    /\ Reply(r, 200)
    /\ UNCHANGED <<nucleos, caches, patched>>

(* The join of the bloco and its núcleo, both live.                        *)
CheckBoth(r) ==
    /\ At(r, "checkBoth")
    /\ IF Home \in LiveNucleos /\ call[r].id \in LiveBlocos
       THEN Goto(r, "deleteBloco")
       ELSE Reply(r, 400)
    /\ OnlyReads

(* The children of the bloco stay.                                         *)
DeleteBloco(r) ==
    /\ At(r, "deleteBloco")
    /\ blocos' = [blocos EXCEPT ![call[r].id].deleted = TRUE]
    /\ Goto(r, "uncacheBlocos")
    /\ UNCHANGED <<nucleos, caches, patched, moved>>

(* The positions a reorder asks for.                                       *)
Order(b) == IF b = First THEN 1 ELSE 0

(* updatePosition of one of the blocos still to be ordered.                *)
UpdatePosition(r) ==
    /\ At(r, "reorder")
    /\ \/ /\ call[r].read = {}
          /\ Reply(r, 200)
          /\ UNCHANGED blocos
       \/ \E b \in call[r].read :
             /\ blocos' = IF b \in LiveBlocos THEN [blocos EXCEPT ![b].posicao = Order(b)]
                          ELSE blocos
             /\ Keep(r, call[r].read \ {b}, "reorder")
    /\ UNCHANGED <<nucleos, caches, patched, moved>>

(* move_bloco, a function of the database that is not in the repository,   *)
(* as moveToParent uses it.                                                *)
MoveToParent(r) ==
    /\ At(r, "move")
    /\ blocos' = [blocos EXCEPT ![call[r].id].parent = call[r].arg]
    /\ moved' = moved \cup {call[r].id}
    /\ Reply(r, 200)
    /\ UNCHANGED <<nucleos, caches, patched>>

-----------------------------------------------------------------------------
(* Contents *)

(* One statement, which also asks whether the bloco is live; the tipo, if  *)
(* the body has one, is any.                                               *)
PatchRow(r) ==
    /\ At(r, "patchContent")
    /\ LET b == call[r].id
           tipo == IF call[r].arg = Same THEN blocos[b].tipo ELSE call[r].arg
       IN  IF b \in LiveBlocos
           THEN /\ blocos' = [blocos EXCEPT ![b] = [@ EXCEPT !.conteudo = r, !.tipo = tipo,
                                                            !.retyped = Retyped(b, tipo)]]
                /\ patched' = [patched EXCEPT ![b] = r]
                /\ Reply(r, 200)
           ELSE Reply(r, 404) /\ UNCHANGED <<blocos, patched>>
    /\ UNCHANGED <<nucleos, caches, moved>>

(* Mutant: the canvas is looked for only to be saved.                      *)
FindNoCanvas(r) ==
    /\ At(r, "findCanvas")
    /\ Goto(r, "insertCanvas")
    /\ OnlyReads

(* SELECT ... LIMIT 1                                                      *)
FindCanvas(r) ==
    /\ At(r, "findCanvas")
    /\ \/ Canvases = {} /\ Goto(r, "insertCanvas")
       \/ \E b \in Canvases : IF call[r].op = "getCanvas" THEN Reply(r, 200)
                              ELSE Keep(r, b, "updateCanvas")
    /\ OnlyReads

(* Made because there was none; the cached lists stay.                     *)
InsertCanvas(r) ==
    /\ At(r, "insertCanvas")
    /\ blocos' = [blocos EXCEPT ![r] = [OnDemand EXCEPT !.edition = r]]
    /\ Reply(r, 200)
    /\ UNCHANGED <<nucleos, caches, patched, moved>>

(* jsonb_set of the content, of the row found, deleted or not.             *)
UpdateCanvas(r) ==
    /\ At(r, "updateCanvas")
    /\ blocos' = [blocos EXCEPT ![call[r].read].edition = r]
    /\ Reply(r, 200)
    /\ UNCHANGED <<nucleos, caches, patched, moved>>

-----------------------------------------------------------------------------
(* GetBlocosByNucleoHandler *)

GetBlocos(r) ==
    /\ At(r, "getBlocos")
    /\ GetCache(r, blocosByNucleo(call[r].arg), "checkNucleo")
    /\ UNCHANGED <<nucleos, bloco_rows>>

FindBlocos(r) ==
    /\ At(r, "findBlocos")
    /\ Keep(r, ListOf(call[r].arg), "cacheBlocos")
    /\ OnlyReads

CacheBlocos(r) ==
    /\ At(r, "cacheBlocos")
    /\ SetCache(r, blocosByNucleo(call[r].arg), call[r].read)
    /\ UNCHANGED <<nucleos, bloco_rows>>

-----------------------------------------------------------------------------
Queries == NucleosQueries \cup
    {"checkNucleo", "findParent", "saveBloco", "findBloco", "updateBloco", "checkBoth",
     "deleteBloco", "reorder", "move", "patchContent", "findCanvas", "insertCanvas",
     "updateCanvas", "findBlocos"}

(* The catch of the controllers.                                           *)
Fail(r) ==
    /\ call[r].pc \in Queries
    /\ FailWith(r, IF call[r].op \in {"getById", "getNucleo"} THEN 404 ELSE 400)
    /\ OnlyReads

BlocosArrival(r) ==
    \/ GetByNucleo(r) \/ GetById(r) \/ Create(r) \/ Update(r) \/ Delete(r)
    \/ Reorder(r) \/ Move(r) \/ PatchContent(r) \/ GetCanvasByNucleo(r) \/ SaveCanvasContent(r)
    \/ Unauthenticated(r) /\ OnlyReads

BlocosStep(r) ==
    \/ CheckNucleo(r) \/ FindParent(r) \/ SaveBloco(r) \/ UncacheBlocos(r)
    \/ FindBloco(r) \/ UpdateBloco(r) \/ CheckBoth(r) \/ DeleteBloco(r)
    \/ UpdatePosition(r) \/ MoveToParent(r) \/ PatchRow(r)
    \/ FindCanvas(r) \/ InsertCanvas(r) \/ UpdateCanvas(r)
    \/ GetBlocos(r) \/ FindBlocos(r) \/ CacheBlocos(r)

Expiry == (\E e \in cache : Expire(e)) /\ UNCHANGED <<nucleos, bloco_rows>>

Quiet == AllAnswered /\ UNCHANGED vars

Next ==
    \/ \E r \in Requests :
          \/ BlocosArrival(r) \/ BlocosStep(r) \/ Fail(r)
          \/ (NucleosArrival(r) \/ NucleosStep(r)) /\ UNCHANGED bloco_rows
    \/ Expiry
    \/ Quiet

Spec == Init /\ [][Next]_vars

-----------------------------------------------------------------------------
(* The content of a bloco is what the patchContent answered last has set,  *)
(* whatever updates, moves and reorders interleave with it and write back  *)
(* what they have read before.                                             *)
ContentKept == \A b \in BlocoIds : blocos[b].conteudo = patched[b]

(* What was deleted stays deleted: a bloco always; a núcleo comes back by  *)
(* an update that another request overlapped, and by nothing else.         *)
NoResurrection ==
    [][/\ \A b \in BlocoIds : blocos[b].deleted => blocos'[b].deleted
       /\ \A n \in NucleoIds : (nucleos[n].deleted /\ ~ nucleos'[n].deleted)
             => \E r \in Overlapped : call[r].op = "updateNucleo" /\ call[r].id = n]_vars

(* A canvas is made on demand only when there is none.  Two that both were *)
(* made so are due to requests that overlapped, or one of them was given   *)
(* another tipo, and that of a canvas again when there was a new one.      *)
StillOnDemand == {b \in Canvases : blocos[b].onDemand /\ ~ blocos[b].retyped}
OneCanvas == \A b, c \in StillOnDemand : b = c \/ {b, c} \subseteq Overlapped

(* A cached list lacks or has a bloco wrongly only for a cause: a writer   *)
(* is about to delete it, Redis has failed, its reader was overlapped, the *)
(* bloco is a canvas made on demand, or was moved from or to the parent.   *)
ListsHaveTheirBlocos ==
    \A e \in cache, parent \in {All, First} : e.key = blocosByNucleo(parent) =>
        LET wrong == (e.rows \ ListOf(parent)) \cup (ListOf(parent) \ e.rows)
            excused == {b \in wrong : blocos[b].onDemand} \cup (IF parent = All THEN {} ELSE moved)
        IN  \/ wrong \subseteq excused
            \/ \E r \in InFlight : At(r, "uncacheBlocos")
            \/ faults > 0
            \/ e.reader \notin alone

=============================================================================
