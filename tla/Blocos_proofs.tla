---------------------------- MODULE Blocos_proofs ----------------------------
(***************************************************************************)
(* What holds of the blocos and núcleos of a user for any number of        *)
(* requests, updates, failures and errors of Redis, and any degree of      *)
(* concurrency.                                                            *)
(***************************************************************************)
EXTENDS Blocos, Handlers_proofs

BlocoRow == [exists : BOOLEAN, deleted : BOOLEAN, parent : {First, Root}, posicao : Nat,
             conteudo : Requests \cup {Nobody}, edition : Requests \cup {Nobody},
             tipo : Tipos, canvas : BOOLEAN, onDemand : BOOLEAN, retyped : BOOLEAN]

NucleoRow == [exists : BOOLEAN, deleted : BOOLEAN, edition : Requests \cup {Nobody}]

RowsTyped ==
    /\ blocos \in [BlocoIds -> BlocoRow] /\ nucleos \in [NucleoIds -> NucleoRow]
    /\ patched \in [BlocoIds -> Requests \cup {Nobody}]

(* Only what is there is deleted or has a content.                         *)
RowsAreThere ==
    /\ \A b \in BlocoIds : ~ blocos[b].exists => ~ blocos[b].deleted /\ blocos[b].conteudo = Nobody
    /\ \A n \in NucleoIds : ~ nucleos[n].exists => ~ nucleos[n].deleted

(* A request makes its row once, as the last thing but the cache and the   *)
(* notification.                                                           *)
NotYetThere(r, c) ==
    /\ c.pc \notin {"uncacheBlocos", "done"} => ~ blocos[r].exists
    /\ c.pc \notin {"uncacheNucleos", "notifyNucleo", "done"} => ~ nucleos[r].exists

(* What a creation is going to insert has no content yet.                  *)
NewIsEmpty(c) ==
    (\/ c.pc = "checkNucleo" /\ c.op = "create"
     \/ c.pc \in {"findParent", "saveBloco"}) =>
        /\ c.arg \in BlocoRow /\ c.arg.conteudo = Nobody /\ c.arg.exists
        /\ ~ c.arg.deleted /\ ~ c.arg.onDemand

(* What a handler has read of a bloco, and what nobody changes of it.      *)
BlocoRead(c) ==
    /\ c.pc = "updateBloco" =>
          /\ c.read \in BlocoRow /\ c.id \in BlocoIds
          /\ blocos[c.id].exists /\ c.read.exists
          /\ c.read.canvas = blocos[c.id].canvas /\ c.read.onDemand = blocos[c.id].onDemand
    /\ c.pc = "deleteBloco" => c.id \in BlocoIds /\ blocos[c.id].exists
    /\ c.pc = "move" => c.arg \in {First, Root}
    /\ c.pc = "patchContent" => c.arg \in Tipos \cup {Same}

(* The canvases still as they were made on demand when a request found     *)
(* none are those of requests that overlapped it.                          *)
CanvasMissing(r, c) ==
    c.pc = "insertCanvas" =>
        \A b \in StillOnDemand : b \in Overlapped /\ r \notin alone

(* The núcleo a handler has found; still live, if nothing overlaps it.     *)
NucleoRead(r, c) ==
    /\ c.pc = "findIcon" => c.op \in {"createNucleo", "updateNucleo"}
    /\ c.pc = "updateNucleo" => c.op = "updateNucleo"
    /\ c.pc \in {"findIcon", "updateNucleo"} /\ c.op = "updateNucleo" =>
          /\ c.read \in NucleoRow /\ c.read.exists
          /\ c.id \in NucleoIds /\ nucleos[c.id].exists
          /\ r \in alone => ~ nucleos[c.id].deleted
    /\ c.pc = "deleteNucleo" => c.id \in NucleoIds /\ nucleos[c.id].exists

(* The operations that come to a label, and what an update asks for.       *)
Operation(c) ==
    /\ c.pc = "getBlocos" => c.op = "getByNucleo"
    /\ c.pc = "checkNucleo" => c.op \in {"create", "reorder", "getByNucleo", "getById"}
    /\ c.pc = "findBloco" => c.op = "getById" \/ (c.op = "update" /\ c.arg \in Updates)

Consistent(r, c) ==
    /\ Operation(c) /\ NotYetThere(r, c) /\ NewIsEmpty(c)
    /\ BlocoRead(c) /\ CanvasMissing(r, c) /\ NucleoRead(r, c)

(* Only a change of tipo that is seen takes a canvas from those there are. *)
KeepsCanvas(row, b) ==
    /\ row.canvas = blocos[b].canvas /\ row.onDemand = blocos[b].onDemand
    /\ ~ row.retyped => ~ blocos[b].retyped /\ row.tipo = blocos[b].tipo

BlocoInv ==
    /\ HandlersOK /\ Solo /\ RowsTyped /\ RowsAreThere
    /\ ContentKept /\ OneCanvas
    /\ \A r \in Requests : Consistent(r, call[r])

LEMMA IdsFacts ==
  /\ Requests \subseteq BlocoIds /\ First \in BlocoIds
  /\ Requests \subseteq NucleoIds /\ Home \in NucleoIds
  /\ First \notin Requests /\ Home \notin Requests /\ Nobody \notin Requests
  /\ First # Nobody
  BY BlocosAssumption, NucleosAssumption, HandlersAssumption DEF BlocoIds, NucleoIds

(* What is made is there, and has no content yet.                          *)
NewRow(row) ==
    row \in BlocoRow /\ row.conteudo = Nobody /\ row.exists /\ ~ row.deleted /\ ~ row.retyped

LEMMA AbsentRows == AbsentBloco \in BlocoRow /\ AbsentNucleo \in NucleoRow
  BY DEF AbsentBloco, BlocoRow, AbsentNucleo, NucleoRow, Root, Tipos

LEMMA NewRows ==
  /\ NewRow(OnDemand) /\ OnDemand.onDemand
  /\ \A tipo \in Tipos, parent \in {Root, First} :
        LET row == [OfTipo(tipo) EXCEPT !.parent = parent]
        IN  /\ NewRow(OfTipo(tipo)) /\ ~ OfTipo(tipo).onDemand
            /\ NewRow(row) /\ ~ row.onDemand
  <1>1. ASSUME NEW tipo \in Tipos, NEW made, made = OfTipo(tipo)
        PROVE  NewRow(made) /\ ~ made.onDemand
    <2>1. PICK canvas \in BOOLEAN : canvas = (tipo = "canvas")
      OBVIOUS
    <2>2. made = [AbsentBloco EXCEPT !.exists = TRUE, !.tipo = tipo, !.canvas = canvas]
      BY <1>1, <2>1 DEF OfTipo
    <2>3. made \in BlocoRow
      BY <2>2, AbsentRows DEF BlocoRow
    <2> QED
      BY <2>2, <2>3 DEF NewRow, AbsentBloco
  <1>2. ASSUME NEW made, NewRow(made), ~ made.onDemand, NEW parent \in {Root, First}, NEW row,
               row = [made EXCEPT !.parent = parent]
        PROVE  NewRow(row) /\ ~ row.onDemand
    BY <1>2 DEF NewRow, BlocoRow
  <1>3. ASSUME NEW made, NewRow(made), NEW row, row = [made EXCEPT !.onDemand = TRUE]
        PROVE  NewRow(row) /\ row.onDemand
    BY <1>3 DEF NewRow, BlocoRow
  <1>4. NewRow(OnDemand) /\ OnDemand.onDemand
    BY <1>1, <1>3 DEF OnDemand, Tipos
  <1> QED
    BY <1>1, <1>2, <1>4

LEMMA InitBlocos == Init => BlocoInv
  <1> SUFFICES ASSUME Init PROVE BlocoInv
    OBVIOUS
  <1>1. HandlersOK
    BY InitHandlersOK DEF Init
  <1>2. Solo /\ \A r \in Requests : call[r].pc = "idle"
    BY DEF Init, HandlersInit, Solo, Idle
  <1>3. PICK row : /\ NewRow(row)
                   /\ blocos = [b \in BlocoIds |-> IF b = First THEN row ELSE AbsentBloco]
    <2>1. PICK tipo \in Firsts :
             blocos = [b \in BlocoIds |-> IF b # First THEN AbsentBloco
                                         ELSE IF tipo = "canvas" THEN OnDemand ELSE OfTipo(tipo)]
      BY DEF Init
    <2>2. PICK row : row = IF tipo = "canvas" THEN OnDemand ELSE OfTipo(tipo)
      OBVIOUS
    <2>3. NewRow(row)
      BY <2>2, NewRows, BlocosAssumption
    <2>4. blocos = [b \in BlocoIds |-> IF b = First THEN row ELSE AbsentBloco]
      BY <2>1, <2>2
    <2> QED
      BY <2>3, <2>4
  <1>4. /\ \A b \in BlocoIds : /\ blocos[b].exists <=> b = First
                              /\ ~ blocos[b].deleted /\ blocos[b].conteudo = Nobody
        /\ \A n \in NucleoIds : ~ nucleos[n].deleted /\ (nucleos[n].exists <=> n = Home)
        /\ \A b \in BlocoIds : patched[b] = Nobody
    BY <1>3 DEF Init, NucleosInit, AbsentBloco, AbsentNucleo, NewRow
  <1>5. RowsAreThere /\ ContentKept /\ OneCanvas
    BY <1>4, IdsFacts
       DEF RowsAreThere, ContentKept, OneCanvas, StillOnDemand, Canvases, LiveBlocos
  <1>7. RowsTyped
    BY <1>3, AbsentRows DEF Init, NucleosInit, RowsTyped, NucleoRow, NewRow
  <1>6. \A r \in Requests : Consistent(r, call[r])
    BY <1>2, <1>4, IdsFacts
       DEF Consistent, Operation, NotYetThere, NewIsEmpty, BlocoRead, CanvasMissing, NucleoRead
  <1> QED
    BY <1>1, <1>2, <1>5, <1>6, <1>7 DEF BlocoInv

-----------------------------------------------------------------------------
(* Steps that leave the rows alone                                         *)

RowsStay == blocos' = blocos /\ patched' = patched /\ nucleos' = nucleos

(* A request goes on or arrives.                                           *)
LEMMA MoveOK ==
  ASSUME BlocoInv, RowsStay, NEW r \in Requests, OnlyMoves(r), Solo', call'[r].pc # "idle",
         \/ alone' = alone
         \/ call[r].pc = "idle" /\ alone' \subseteq alone \cup {r},
         Consistent(r, call[r])'
  PROVE  BlocoInv'
  <1>1. RowsTyped' /\ RowsAreThere' /\ ContentKept' /\ StillOnDemand' = StillOnDemand
    BY DEF BlocoInv, RowsStay, RowsTyped, RowsAreThere, ContentKept, StillOnDemand, Canvases,
           LiveBlocos
  <1>3. Overlapped \subseteq Overlapped'
    BY DEF BlocoInv, Overlapped, OnlyMoves, At
  <1>4. OneCanvas'
    BY <1>1, <1>3 DEF BlocoInv, OneCanvas
  <1>5. ASSUME NEW q \in Requests \ {r}
        PROVE  Consistent(q, call[q])'
    <2>1. call'[q] = call[q] /\ Consistent(q, call[q]) /\ (q \in alone' => q \in alone)
      BY DEF OnlyMoves, BlocoInv
    <2> QED
      BY <1>1, <1>3, <2>1
         DEF RowsStay, Consistent, Operation, NotYetThere, NewIsEmpty, BlocoRead, CanvasMissing, NucleoRead
  <1> QED
    BY <1>1, <1>4, <1>5 DEF BlocoInv, OnlyMoves

LEMMA DoneConsistent ==
  ASSUME NEW r \in Requests, call'[r].pc = "done"
  PROVE  Consistent(r, call[r])'
  BY DEF Consistent, Operation, NotYetThere, NewIsEmpty, BlocoRead, CanvasMissing, NucleoRead

LEMMA ReplyOK ==
  ASSUME BlocoInv, RowsStay, NEW r \in InFlight, NEW status, Reply(r, status)
  PROVE  BlocoInv'
  <1>1. r \in Requests /\ OnlyMoves(r) /\ call'[r].pc = "done" /\ alone' = alone
    BY ReplyIs DEF InFlight, BlocoInv
  <1> QED
    BY <1>1, SoloStays, DoneConsistent, MoveOK DEF BlocoInv

LEMMA FailOK ==
  ASSUME BlocoInv, NEW r \in Requests, Fail(r)
  PROVE  BlocoInv'
  <1>1. PICK status : FailWith(r, status)
    BY DEF Fail
  <1>2. OnlyMoves(r) /\ call'[r].pc = "done" /\ alone' = alone /\ RowsStay /\ r \in InFlight
    BY <1>1, FailIs DEF BlocoInv, Fail, OnlyReads, bloco_rows, RowsStay, InFlight, Queries,
                        NucleosQueries, At
  <1> QED
    BY <1>2, SoloStays, DoneConsistent, MoveOK DEF BlocoInv

LEMMA RefuseOK ==
  ASSUME BlocoInv, RowsStay, NEW r \in Requests, NEW op, NEW status, Refuse(r, op, status)
  PROVE  BlocoInv'
  <1>1. /\ OnlyMoves(r) /\ call[r].pc = "idle" /\ call'[r].pc = "done" /\ alone' = alone
    BY RefuseIs DEF BlocoInv, Refuse, At
  <1> QED
    BY <1>1, SoloRefuse, DoneConsistent, MoveOK DEF BlocoInv

(* The labels requests arrive at, and what they bring.                     *)
LEMMA ArriveOK ==
  ASSUME BlocoInv, RowsStay, NEW r \in Requests, NEW label, NEW op, NEW id, NEW arg,
         label \in {"getBlocos", "checkNucleo", "findBloco", "checkBoth", "move", "patchContent",
                    "findCanvas", "getNucleos", "findNucleo", "findIcon"},
         label = "checkNucleo" /\ op = "create" =>
            arg \in BlocoRow /\ arg.conteudo = Nobody /\ arg.exists /\ ~ arg.deleted /\ ~ arg.onDemand,
         label = "getBlocos" => op = "getByNucleo",
         label = "checkNucleo" => op \in {"create", "reorder", "getById"},
         label = "findBloco" => op = "update" /\ arg \in Updates,
         label = "move" => arg \in {First, Root},
         label = "patchContent" => arg \in Tipos \cup {Same},
         label = "findIcon" => op = "createNucleo",
         Arrive(r, label, op, id, arg)
  PROVE  BlocoInv'
  <1>1. /\ OnlyMoves(r) /\ call[r].pc = "idle" /\ GoesAs(r, label, op, id, arg)
        /\ Solo' /\ alone' \subseteq alone \cup {r}
    BY ArriveIs, SoloArrive DEF BlocoInv
  <1>2. Consistent(r, call[r])'
    BY <1>1 DEF BlocoInv, RowsStay, GoesAs, Consistent, Operation, NotYetThere, NewIsEmpty, BlocoRead,
                CanvasMissing, NucleoRead
  <1> QED
    BY <1>1, <1>2, MoveOK DEF GoesAs

LEMMA BlocosArrivalOK ==
  ASSUME BlocoInv, NEW r \in Requests, BlocosArrival(r)
  PROVE  BlocoInv'
  <1>0. RowsStay
    BY DEF RowsStay, OnlyReads, bloco_rows, BlocosArrival, GetByNucleo, GetById, Create, Update,
           Delete, Reorder, Move, PatchContent, GetCanvasByNucleo, SaveCanvasContent
  <1>1. CASE Create(r)
    <2>2. CASE Refuse(r, "create", 400)
      BY <1>0, <2>2, RefuseOK
    <2>3. CASE \E parent \in {Root, First}, tipo \in Tipos :
             Arrive(r, "checkNucleo", "create", r, [OfTipo(tipo) EXCEPT !.parent = parent])
      <3>1. PICK parent \in {Root, First}, tipo \in Tipos :
             Arrive(r, "checkNucleo", "create", r, [OfTipo(tipo) EXCEPT !.parent = parent])
        BY <2>3
      <3>2. PICK arg : arg = [OfTipo(tipo) EXCEPT !.parent = parent]
        OBVIOUS
      <3>3. Arrive(r, "checkNucleo", "create", r, arg)
        BY <3>1, <3>2
      <3>4. /\ arg \in BlocoRow /\ arg.conteudo = Nobody /\ arg.exists
            /\ ~ arg.deleted /\ ~ arg.onDemand
        BY <3>2, NewRows DEF NewRow
      <3> QED
        BY <1>0, <3>3, <3>4, ArriveOK
    <2> QED
      BY <1>1, <2>2, <2>3 DEF Create
  <1>2. CASE Move(r)
    BY <1>0, <1>2, ArriveOK DEF Move
  <1>3. CASE Unauthenticated(r)
    BY <1>0, <1>3, RefuseOK DEF Unauthenticated
  <1>4. CASE Reorder(r) \/ GetCanvasByNucleo(r) \/ SaveCanvasContent(r) \/ PatchContent(r)
    BY <1>0, <1>4, ArriveOK DEF Reorder, GetCanvasByNucleo, SaveCanvasContent, PatchContent
  <1>5. CASE GetByNucleo(r) \/ GetById(r) \/ Update(r) \/ Delete(r)
    BY <1>0, <1>5, ArriveOK DEF GetByNucleo, GetById, Update, Delete
  <1> QED
    BY <1>1, <1>2, <1>3, <1>4, <1>5 DEF BlocosArrival

LEMMA NucleosArrivalOK ==
  ASSUME BlocoInv, NEW r \in Requests, NucleosArrival(r), UNCHANGED bloco_rows
  PROVE  BlocoInv'
  <1>0. RowsStay
    BY DEF RowsStay, bloco_rows, NucleosArrival, ListNucleos, GetNucleo, CreateNucleo, UpdateNucleo,
           DeleteNucleo
  <1> QED
    BY <1>0, ArriveOK, RefuseOK
       DEF NucleosArrival, ListNucleos, GetNucleo, CreateNucleo, UpdateNucleo, DeleteNucleo

(* A request in flight goes on to its next await.                          *)
LEMMA GoesOnOK ==
  ASSUME BlocoInv, RowsStay, NEW r \in InFlight, OnlyMoves(r), call'[r].pc # "idle",
         alone' = alone, Consistent(r, call[r])'
  PROVE  BlocoInv'
  <1> QED
    BY SoloStays, MoveOK DEF InFlight, BlocoInv

(* A request that goes on with the command it has.                         *)
LEMMA GotoOK ==
  ASSUME BlocoInv, RowsStay, NEW r \in InFlight, NEW label, Goto(r, label),
         label \notin {"idle", "done"},
         OnlyMoves(r) /\ GoesTo(r, label) /\ alone' = alone /\ call'[r].read = call[r].read
            => Consistent(r, call[r])'
  PROVE  BlocoInv'
  <1>1. OnlyMoves(r) /\ GoesTo(r, label) /\ alone' = alone /\ call'[r].read = call[r].read
    BY GotoIs DEF InFlight, BlocoInv, At
  <1> QED
    BY <1>1, GoesOnOK DEF GoesTo, GoesAs

LEMMA KeepOK ==
  ASSUME BlocoInv, RowsStay, NEW r \in InFlight, NEW label, NEW read, Keep(r, read, label),
         label \notin {"idle", "done"},
         OnlyMoves(r) /\ GoesTo(r, label) /\ alone' = alone /\ call'[r].read = read
            => Consistent(r, call[r])'
  PROVE  BlocoInv'
  <1>1. OnlyMoves(r) /\ GoesTo(r, label) /\ alone' = alone /\ call'[r].read = read
    BY KeepIs DEF InFlight, BlocoInv, At
  <1> QED
    BY <1>1, GoesOnOK DEF GoesTo, GoesAs

(* Labels that ask nothing of what is kept or read.                        *)
FreeLabels == {"reorder", "findBlocos", "findBloco", "findNucleos", "cacheBlocos", "cacheNucleos",
               "checkNucleo", "updateCanvas"}

LEMMA FreeGotoOK ==
  ASSUME BlocoInv, RowsStay, NEW r \in InFlight, NEW label \in FreeLabels, Goto(r, label),
         call[r].pc \notin {"uncacheBlocos", "uncacheNucleos", "notifyNucleo"},
         label = "checkNucleo" => call[r].op = "getByNucleo",
         label = "findBloco" => call[r].op = "getById"
  PROVE  BlocoInv'
  <1>1. ASSUME GoesTo(r, label)
        PROVE  Consistent(r, call[r])'
    BY <1>1 DEF BlocoInv, InFlight, At, RowsStay, FreeLabels, GoesTo, GoesAs, Consistent,
                Operation, NotYetThere, NewIsEmpty, BlocoRead, CanvasMissing, NucleoRead
  <1> QED
    BY <1>1, GotoOK DEF FreeLabels

LEMMA FreeKeepOK ==
  ASSUME BlocoInv, RowsStay, NEW r \in InFlight, NEW label \in FreeLabels, NEW read,
         Keep(r, read, label), label \notin {"checkNucleo", "findBloco"},
         call[r].pc \notin {"uncacheBlocos", "uncacheNucleos", "notifyNucleo"}
  PROVE  BlocoInv'
  <1>1. ASSUME GoesTo(r, label)
        PROVE  Consistent(r, call[r])'
    BY <1>1 DEF BlocoInv, InFlight, At, RowsStay, FreeLabels, GoesTo, GoesAs, Consistent,
                Operation, NotYetThere, NewIsEmpty, BlocoRead, CanvasMissing, NucleoRead
  <1> QED
    BY <1>1, KeepOK DEF FreeLabels

LEMMA CheckNucleoOK ==
  ASSUME BlocoInv, NEW r \in Requests, CheckNucleo(r)
  PROVE  BlocoInv'
  <1>0. RowsStay /\ r \in InFlight /\ call[r].pc = "checkNucleo"
    BY DEF CheckNucleo, RowsStay, OnlyReads, bloco_rows, InFlight, At
  <1>1. CASE Home \notin LiveNucleos
    BY <1>0, <1>1, ReplyOK DEF CheckNucleo
  <1>2. CASE Home \in LiveNucleos /\ call[r].op = "create"
    <2>1. PICK label \in {"saveBloco", "findParent"} : Goto(r, label)
      BY <1>2 DEF CheckNucleo
    <2>2. ASSUME GoesTo(r, label)
          PROVE  Consistent(r, call[r])'
      BY <1>0, <1>2, <2>1, <2>2
         DEF BlocoInv, RowsStay, GoesTo, GoesAs, Consistent,
             Operation, NotYetThere, NewIsEmpty, BlocoRead, CanvasMissing, NucleoRead
    <2> QED
      BY <1>0, <2>1, <2>2, GotoOK
  <1>3. CASE Home \in LiveNucleos /\ call[r].op = "reorder"
    <2>1. Keep(r, LiveBlocos, "reorder")
      BY <1>3 DEF CheckNucleo
    <2> QED
      BY <1>0, <2>1, FreeKeepOK DEF FreeLabels
  <1>4. CASE Home \in LiveNucleos /\ call[r].op = "getByNucleo"
    <2>1. Goto(r, "findBlocos")
      BY <1>4 DEF CheckNucleo
    <2> QED
      BY <1>0, <2>1, FreeGotoOK DEF FreeLabels
  <1>5. CASE Home \in LiveNucleos /\ call[r].op = "getById"
    <2>1. Goto(r, "findBloco")
      BY <1>5 DEF CheckNucleo
    <2> QED
      BY <1>0, <1>5, <2>1, FreeGotoOK DEF FreeLabels
  <1> QED
    BY <1>0, <1>1, <1>2, <1>3, <1>4, <1>5 DEF BlocoInv, Consistent, Operation

LEMMA FindParentOK ==
  ASSUME BlocoInv, NEW r \in Requests, FindParent(r)
  PROVE  BlocoInv'
  <1>0. RowsStay /\ r \in InFlight /\ call[r].pc = "findParent"
    BY DEF FindParent, RowsStay, OnlyReads, bloco_rows, InFlight, At
  <1>1. CASE Reply(r, 400)
    BY <1>0, <1>1, ReplyOK
  <1>2. CASE Goto(r, "saveBloco")
    <2>1. ASSUME GoesTo(r, "saveBloco")
          PROVE  Consistent(r, call[r])'
      BY <1>0, <2>1
         DEF BlocoInv, RowsStay, GoesTo, GoesAs, Consistent,
             Operation, NotYetThere, NewIsEmpty, BlocoRead, CanvasMissing, NucleoRead
    <2> QED
      BY <1>0, <1>2, <2>1, GotoOK
  <1> QED
    BY <1>1, <1>2 DEF FindParent

LEMMA UpdatedRow ==
  ASSUME NEW bloco \in BlocoRow, bloco.exists, NEW u \in Updates, NEW r \in Requests
  PROVE  /\ Updated(bloco, u, r) \in BlocoRow /\ Updated(bloco, u, r).exists
         /\ Updated(bloco, u, r).canvas = bloco.canvas
         /\ Updated(bloco, u, r).onDemand = bloco.onDemand
         /\ Updated(bloco, u, r).deleted = bloco.deleted
  BY BlocosAssumption DEF Updated, BlocoRow

LEMMA FindBlocoOK ==
  ASSUME BlocoInv, NEW r \in Requests, FindBloco(r)
  PROVE  BlocoInv'
  <1>0. RowsStay /\ r \in InFlight /\ call[r].pc = "findBloco"
    BY DEF FindBloco, RowsStay, OnlyReads, bloco_rows, InFlight, At
  <1>1. CASE \E status : Reply(r, status)
    BY <1>0, <1>1, ReplyOK
  <1>2. CASE /\ call[r].id \in LiveBlocos /\ call[r].op = "update"
             /\ Keep(r, Updated(blocos[call[r].id], call[r].arg, r), "updateBloco")
    <2>1. PICK read : read = Updated(blocos[call[r].id], call[r].arg, r)
      OBVIOUS
    <2>2. /\ call[r].id \in BlocoIds /\ blocos[call[r].id] \in BlocoRow
          /\ blocos[call[r].id].exists /\ call[r].arg \in Updates
      BY <1>0, <1>2 DEF LiveBlocos, BlocoInv, RowsTyped, Consistent, Operation
    <2>3. /\ read \in BlocoRow /\ read.exists
          /\ read.canvas = blocos[call[r].id].canvas /\ read.onDemand = blocos[call[r].id].onDemand
      BY <2>1, <2>2, UpdatedRow
    <2>4. ASSUME GoesTo(r, "updateBloco"), call'[r].read = read
          PROVE  Consistent(r, call[r])'
      BY <1>0, <2>2, <2>3, <2>4
         DEF BlocoInv, RowsStay, GoesTo, GoesAs, Consistent,
             Operation, NotYetThere, NewIsEmpty, BlocoRead, CanvasMissing, NucleoRead
    <2>5. Keep(r, read, "updateBloco")
      BY <1>2, <2>1
    <2> QED
      BY <1>0, <2>4, <2>5, KeepOK
  <1> QED
    BY <1>1, <1>2 DEF FindBloco

LEMMA CheckBothOK ==
  ASSUME BlocoInv, NEW r \in Requests, CheckBoth(r)
  PROVE  BlocoInv'
  <1>0. RowsStay /\ r \in InFlight /\ call[r].pc = "checkBoth"
    BY DEF CheckBoth, RowsStay, OnlyReads, bloco_rows, InFlight, At
  <1>1. CASE Reply(r, 400)
    BY <1>0, <1>1, ReplyOK
  <1>2. CASE call[r].id \in LiveBlocos /\ Goto(r, "deleteBloco")
    <2>1. ASSUME GoesTo(r, "deleteBloco")
          PROVE  Consistent(r, call[r])'
      BY <1>0, <1>2, <2>1
         DEF BlocoInv, LiveBlocos, RowsStay, GoesTo, GoesAs, Consistent,
             Operation, NotYetThere, NewIsEmpty, BlocoRead, CanvasMissing, NucleoRead
    <2> QED
      BY <1>0, <1>2, <2>1, GotoOK
  <1> QED
    BY <1>1, <1>2 DEF CheckBoth

LEMMA FindCanvasOK ==
  ASSUME BlocoInv, NEW r \in Requests, FindCanvas(r)
  PROVE  BlocoInv'
  <1>0. RowsStay /\ r \in InFlight /\ call[r].pc = "findCanvas"
    BY DEF FindCanvas, RowsStay, OnlyReads, bloco_rows, InFlight, At
  <1>1. CASE Reply(r, 200)
    BY <1>0, <1>1, ReplyOK
  <1>2. CASE Canvases = {} /\ Goto(r, "insertCanvas")
    <2>1. ASSUME GoesTo(r, "insertCanvas")
          PROVE  Consistent(r, call[r])'
      BY <1>0, <1>2, <2>1
         DEF BlocoInv, StillOnDemand, Canvases, LiveBlocos, RowsStay, GoesTo, GoesAs, Consistent,
             Operation, NotYetThere, NewIsEmpty, BlocoRead, CanvasMissing, NucleoRead
    <2> QED
      BY <1>0, <1>2, <2>1, GotoOK
  <1>3. CASE \E b \in Canvases : Keep(r, b, "updateCanvas")
    BY <1>0, <1>3, FreeKeepOK DEF FreeLabels
  <1> QED
    BY <1>1, <1>2, <1>3 DEF FindCanvas

LEMMA ListBlocosOK ==
  ASSUME BlocoInv, NEW r \in Requests,
         GetBlocos(r) \/ FindBlocos(r) \/ CacheBlocos(r) \/ UncacheBlocos(r)
  PROVE  BlocoInv'
  <1>0. RowsStay /\ r \in InFlight
    BY DEF GetBlocos, FindBlocos, CacheBlocos, UncacheBlocos, RowsStay, OnlyReads, bloco_rows,
           InFlight, At
  <1>1. CASE GetBlocos(r)
    <2>1. call[r].pc = "getBlocos" /\ call[r].op = "getByNucleo"
      BY <1>1 DEF GetBlocos, At, BlocoInv, Consistent, Operation
    <2>2. CASE Reply(r, 200)
      BY <1>0, <2>2, ReplyOK
    <2>3. CASE Goto(r, "checkNucleo")
      BY <1>0, <2>1, <2>3, FreeGotoOK DEF FreeLabels
    <2> QED
      BY <1>1, <2>2, <2>3 DEF GetBlocos, GetCache
  <1>2. CASE FindBlocos(r)
    <2>1. call[r].pc = "findBlocos" /\ Keep(r, ListOf(call[r].arg), "cacheBlocos")
      BY <1>2 DEF FindBlocos, At
    <2> QED
      BY <1>0, <2>1, FreeKeepOK DEF FreeLabels
  <1>3. CASE CacheBlocos(r) \/ UncacheBlocos(r)
    BY <1>0, <1>3, ReplyOK DEF CacheBlocos, UncacheBlocos, SetCache
  <1> QED
    BY <1>1, <1>2, <1>3

-----------------------------------------------------------------------------
(* Reads of núcleos                                                        *)

LEMMA FindNucleoOK ==
  ASSUME BlocoInv, NEW r \in Requests, FindNucleo(r), UNCHANGED bloco_rows
  PROVE  BlocoInv'
  <1>0. RowsStay /\ r \in InFlight /\ call[r].pc = "findNucleo"
    BY DEF FindNucleo, RowsStay, bloco_rows, InFlight, At
  <1>1. CASE \E status : Reply(r, status)
    BY <1>0, <1>1, ReplyOK
  <1>2. ASSUME call[r].id \in LiveNucleos, call[r].op = "updateNucleo",
               NEW next \in {"findIcon", "updateNucleo"}, Keep(r, nucleos[call[r].id], next)
        PROVE  BlocoInv'
    <2>1. /\ call[r].id \in NucleoIds /\ nucleos[call[r].id].exists
          /\ ~ nucleos[call[r].id].deleted /\ nucleos[call[r].id] \in NucleoRow
      BY <1>2 DEF LiveNucleos, BlocoInv, RowsTyped
    <2>2. ASSUME GoesTo(r, next), call'[r].read = nucleos[call[r].id]
          PROVE  Consistent(r, call[r])'
      BY <1>0, <1>2, <2>1, <2>2
         DEF BlocoInv, RowsStay, GoesTo, GoesAs, Consistent,
             Operation, NotYetThere, NewIsEmpty, BlocoRead, CanvasMissing, NucleoRead
    <2>3. PICK read : read = nucleos[call[r].id]
      OBVIOUS
    <2> QED
      BY <1>0, <1>2, <2>2, <2>3, KeepOK
  <1>3. CASE call[r].id \in LiveNucleos /\ Goto(r, "deleteNucleo")
    <2>1. ASSUME GoesTo(r, "deleteNucleo")
          PROVE  Consistent(r, call[r])'
      BY <1>0, <1>3, <2>1
         DEF BlocoInv, LiveNucleos, RowsStay, GoesTo, GoesAs, Consistent,
             Operation, NotYetThere, NewIsEmpty, BlocoRead, CanvasMissing, NucleoRead
    <2> QED
      BY <1>0, <1>3, <2>1, GotoOK
  <1> QED
    BY <1>1, <1>2, <1>3 DEF FindNucleo

LEMMA FindIconOK ==
  ASSUME BlocoInv, NEW r \in Requests, FindIcon(r), UNCHANGED bloco_rows
  PROVE  BlocoInv'
  <1>0. RowsStay /\ r \in InFlight /\ call[r].pc = "findIcon"
    BY DEF FindIcon, RowsStay, bloco_rows, InFlight, At
  <1>1. CASE Reply(r, 400)
    BY <1>0, <1>1, ReplyOK
  <1>2. CASE call[r].op = "createNucleo" /\ Goto(r, "saveNucleo")
    <2>1. ASSUME GoesTo(r, "saveNucleo")
          PROVE  Consistent(r, call[r])'
      BY <1>0, <2>1
         DEF BlocoInv, RowsStay, GoesTo, GoesAs, Consistent,
             Operation, NotYetThere, NewIsEmpty, BlocoRead, CanvasMissing, NucleoRead
    <2> QED
      BY <1>0, <1>2, <2>1, GotoOK
  <1>3. CASE call[r].op # "createNucleo" /\ Goto(r, "updateNucleo")
    <2>1. ASSUME GoesTo(r, "updateNucleo"), call'[r].read = call[r].read, alone' = alone
          PROVE  Consistent(r, call[r])'
      BY <1>0, <1>3, <2>1
         DEF BlocoInv, RowsStay, GoesTo, GoesAs, Consistent,
             Operation, NotYetThere, NewIsEmpty, BlocoRead, CanvasMissing, NucleoRead
    <2> QED
      BY <1>0, <1>3, <2>1, GotoOK
  <1> QED
    BY <1>1, <1>2, <1>3 DEF FindIcon

LEMMA ListNucleosOK ==
  ASSUME BlocoInv, NEW r \in Requests, UNCHANGED bloco_rows,
         \/ GetNucleos(r) \/ FindNucleos(r) \/ CacheNucleos(r)
         \/ UncacheNucleos(r) \/ NotifyNucleo(r)
  PROVE  BlocoInv'
  <1>0. RowsStay /\ r \in InFlight
    BY DEF GetNucleos, FindNucleos, CacheNucleos, UncacheNucleos, NotifyNucleo, RowsStay,
           bloco_rows, InFlight, At
  <1>1. CASE GetNucleos(r)
    <2>1. call[r].pc = "getNucleos"
      BY <1>1 DEF GetNucleos, At
    <2>2. CASE Reply(r, 200)
      BY <1>0, <2>2, ReplyOK
    <2>3. CASE Goto(r, "findNucleos")
      BY <1>0, <2>1, <2>3, FreeGotoOK DEF FreeLabels
    <2> QED
      BY <1>1, <2>2, <2>3 DEF GetNucleos, GetCache
  <1>2. CASE FindNucleos(r)
    <2>1. call[r].pc = "findNucleos" /\ Keep(r, LiveNucleos, "cacheNucleos")
      BY <1>2 DEF FindNucleos, At
    <2> QED
      BY <1>0, <2>1, FreeKeepOK DEF FreeLabels
  <1>3. CASE CacheNucleos(r) \/ NotifyNucleo(r)
    BY <1>0, <1>3, ReplyOK DEF CacheNucleos, NotifyNucleo, SetCache
  <1>4. CASE UncacheNucleos(r)
    <2>1. call[r].pc = "uncacheNucleos"
      BY <1>4 DEF UncacheNucleos, At
    <2>2. CASE Reply(r, 204)
      BY <1>0, <2>2, ReplyOK
    <2>3. CASE Goto(r, "notifyNucleo")
      <3>1. ASSUME GoesTo(r, "notifyNucleo")
            PROVE  Consistent(r, call[r])'
        BY <1>0, <2>1, <3>1
           DEF BlocoInv, RowsStay, GoesTo, GoesAs, Consistent,
               Operation, NotYetThere, NewIsEmpty, BlocoRead, CanvasMissing, NucleoRead
      <3> QED
        BY <1>0, <2>3, <3>1, GotoOK
    <2> QED
      BY <1>4, <2>2, <2>3 DEF UncacheNucleos
  <1> QED
    BY <1>1, <1>2, <1>3, <1>4

-----------------------------------------------------------------------------
(* Steps that write rows                                                   *)

(* What no step does: a deleted row comes back, but for a núcleo that an   *)
(* overlapped update had read before.                                      *)
BlocosStayDeleted == \A b \in BlocoIds : blocos[b].deleted => blocos'[b].deleted

NucleosStayDeleted ==
    \A n \in NucleoIds : (nucleos[n].deleted /\ ~ nucleos'[n].deleted)
       => \E r \in Overlapped : call[r].op = "updateNucleo" /\ call[r].id = n

(* A request changes columns of blocos that are there.                     *)
LEMMA RewriteOK ==
  ASSUME BlocoInv, NEW r \in InFlight, OnlyMoves(r), alone' = alone, nucleos' = nucleos,
         call'[r].pc # "idle", Consistent(r, call[r])', RowsTyped', ContentKept',
         \A b \in BlocoIds : /\ blocos'[b].exists = blocos[b].exists
                             /\ KeepsCanvas(blocos'[b], b)
                             /\ blocos[b].deleted => blocos'[b].deleted
                             /\ ~ blocos[b].exists => /\ ~ blocos'[b].deleted
                                                      /\ blocos'[b].conteudo = Nobody
  PROVE  BlocoInv' /\ BlocosStayDeleted
  <1>1. RowsAreThere'
    BY IdsFacts DEF BlocoInv, RowsAreThere
  <1>2. Solo' /\ r \in Requests
    BY SoloStays DEF BlocoInv, InFlight
  <1>3. StillOnDemand' \subseteq StillOnDemand
    BY DEF StillOnDemand, Canvases, LiveBlocos, KeepsCanvas
  <1>4. Overlapped \subseteq Overlapped'
    BY <1>2 DEF Overlapped, OnlyMoves, At
  <1>5. OneCanvas'
    BY <1>3, <1>4 DEF BlocoInv, OneCanvas
  <1>6. ASSUME NEW q \in Requests \ {r}
        PROVE  Consistent(q, call[q])'
    <2>1. call'[q] = call[q] /\ Consistent(q, call[q]) /\ (q \in alone' => q \in alone)
      BY <1>2 DEF OnlyMoves, BlocoInv
    <2>2. blocos'[q].exists = blocos[q].exists
      BY IdsFacts
    <2> QED
      BY <1>3, <1>4, <2>1, <2>2
         DEF Consistent, Operation, NotYetThere, NewIsEmpty, BlocoRead, CanvasMissing, NucleoRead,
             KeepsCanvas
  <1> QED
    BY <1>1, <1>2, <1>5, <1>6 DEF BlocoInv, OnlyMoves, BlocosStayDeleted

(* A request makes its bloco.                                              *)
LEMMA InsertOK ==
  ASSUME BlocoInv, NEW r \in InFlight, OnlyMoves(r), alone' = alone, nucleos' = nucleos,
         patched' = patched, call'[r].pc \in {"done", "uncacheBlocos"},
         call[r].pc \in {"saveBloco", "insertCanvas"},
         NEW row \in BlocoRow, blocos' = [blocos EXCEPT ![r] = row],
         row.exists, ~ row.deleted, row.conteudo = Nobody,
         row.onDemand => \A b \in StillOnDemand : b \in Overlapped /\ r \notin alone
  PROVE  BlocoInv' /\ BlocosStayDeleted
  <1>1. r \in Requests /\ r \in BlocoIds /\ r # First /\ Solo' /\ ~ blocos[r].exists
    BY IdsFacts, SoloStays DEF BlocoInv, InFlight, Consistent, NotYetThere
  <1>2. RowsTyped' /\ blocos'[r] = row /\ \A b \in BlocoIds \ {r} : blocos'[b] = blocos[b]
    BY <1>1 DEF BlocoInv, RowsTyped
  <1>3. RowsAreThere' /\ ContentKept' /\ BlocosStayDeleted
    BY <1>1, <1>2, IdsFacts DEF BlocoInv, RowsAreThere, ContentKept, BlocosStayDeleted
  <1>4. /\ StillOnDemand' \subseteq StillOnDemand \cup {r} /\ r \notin StillOnDemand
        /\ r \in StillOnDemand' => row.onDemand
    BY <1>1, <1>2 DEF StillOnDemand, Canvases, LiveBlocos
  <1>5. r \in Overlapped' <=> r \notin alone
    BY <1>1 DEF Overlapped, At
  <1>6. Overlapped \subseteq Overlapped'
    BY <1>1 DEF Overlapped, OnlyMoves, At
  <1>8. OneCanvas'
    BY <1>4, <1>5, <1>6 DEF BlocoInv, OneCanvas
  <1>9. Consistent(r, call[r])'
    BY <1>1 DEF BlocoInv, Consistent, Operation, NotYetThere, NewIsEmpty, BlocoRead,
                CanvasMissing, NucleoRead
  <1>10. ASSUME NEW q \in Requests \ {r}
         PROVE  Consistent(q, call[q])'
    <2>1. call'[q] = call[q] /\ Consistent(q, call[q]) /\ q \in BlocoIds /\ blocos'[q] = blocos[q]
      BY <1>1, <1>2, IdsFacts DEF OnlyMoves, BlocoInv
    <2>2. CanvasMissing(q, call[q])'
      <3>1. call[q].pc = "insertCanvas" => q \notin alone /\ r \notin alone
        BY NoOtherIsAlone DEF BlocoInv, InFlight, At
      <3> QED
        BY <1>4, <1>5, <1>6, <2>1, <3>1 DEF Consistent, CanvasMissing
    <2>3. BlocoRead(call[q])'
      BY <1>1, <1>2, <2>1 DEF Consistent, BlocoRead
    <2> QED
      BY <2>1, <2>2, <2>3 DEF Consistent, Operation, NotYetThere, NewIsEmpty, NucleoRead
  <1> QED
    BY <1>1, <1>2, <1>3, <1>8, <1>9, <1>10 DEF BlocoInv, OnlyMoves

LEMMA SaveBlocoOK ==
  ASSUME BlocoInv, NEW r \in Requests, SaveBloco(r)
  PROVE  BlocoInv' /\ BlocosStayDeleted
  <1>1. r \in InFlight /\ call[r].pc = "saveBloco"
    BY DEF SaveBloco, InFlight, At
  <1>2. OnlyMoves(r) /\ call'[r].pc = "uncacheBlocos" /\ alone' = alone
    BY <1>1, GotoIs DEF SaveBloco, BlocoInv, GoesTo, GoesAs
  <1>3. PICK row : row = [call[r].arg EXCEPT !.edition = r]
    OBVIOUS
  <1>4. row \in BlocoRow /\ row.exists /\ ~ row.deleted /\ row.conteudo = Nobody /\ ~ row.onDemand
    BY <1>1, <1>3 DEF BlocoInv, Consistent, NewIsEmpty, BlocoRow
  <1> QED
    BY <1>1, <1>2, <1>3, <1>4, InsertOK DEF SaveBloco

LEMMA InsertCanvasOK ==
  ASSUME BlocoInv, NEW r \in Requests, InsertCanvas(r)
  PROVE  BlocoInv' /\ BlocosStayDeleted
  <1>1. r \in InFlight /\ call[r].pc = "insertCanvas"
    BY DEF InsertCanvas, InFlight, At
  <1>2. OnlyMoves(r) /\ call'[r].pc = "done" /\ alone' = alone
    BY <1>1, ReplyIs DEF InsertCanvas, BlocoInv
  <1>3. PICK row : row = [OnDemand EXCEPT !.edition = r]
    OBVIOUS
  <1>4. row \in BlocoRow /\ row.exists /\ ~ row.deleted /\ row.conteudo = Nobody
    BY <1>3, NewRows DEF NewRow, BlocoRow
  <1>5. \A b \in StillOnDemand : b \in Overlapped /\ r \notin alone
    BY <1>1 DEF BlocoInv, Consistent, CanvasMissing
  <1> QED
    BY <1>1, <1>2, <1>3, <1>4, <1>5, InsertOK DEF InsertCanvas

(* A request that is done has nothing left to keep.                        *)
LEMMA AnsweredOK ==
  ASSUME BlocoInv, NEW r \in InFlight, NEW status, Reply(r, status)
  PROVE  /\ OnlyMoves(r) /\ alone' = alone /\ call'[r].pc = "done" /\ Consistent(r, call[r])'
         /\ r \in Requests
  BY ReplyIs, DoneConsistent DEF BlocoInv, InFlight

LEMMA UpdateBlocoOK ==
  ASSUME BlocoInv, NEW r \in Requests, UpdateBloco(r)
  PROVE  BlocoInv' /\ BlocosStayDeleted
  <1>1. r \in InFlight /\ call[r].pc = "updateBloco"
    BY DEF UpdateBloco, InFlight, At
  <1>2. /\ OnlyMoves(r) /\ alone' = alone /\ call'[r].pc = "done" /\ Consistent(r, call[r])'
    BY <1>1, AnsweredOK DEF UpdateBloco
  <1>3. /\ call[r].read \in BlocoRow /\ call[r].id \in BlocoIds
        /\ blocos[call[r].id].exists /\ call[r].read.exists
        /\ call[r].read.canvas = blocos[call[r].id].canvas
        /\ call[r].read.onDemand = blocos[call[r].id].onDemand
    BY <1>1 DEF BlocoInv, Consistent, BlocoRead
  <1>4. CASE call[r].id \notin LiveBlocos
    <2>1. blocos' = blocos /\ patched' = patched /\ nucleos' = nucleos
      BY <1>4 DEF UpdateBloco
    <2>2. RowsTyped' /\ ContentKept'
      BY <2>1 DEF BlocoInv, RowsTyped, ContentKept
    <2> QED
      BY <1>1, <1>2, <2>1, <2>2, RewriteOK DEF BlocoInv, RowsAreThere, KeepsCanvas
  <1>5. CASE call[r].id \in LiveBlocos
    <2>1. PICK row : row = [call[r].read EXCEPT
                              !.conteudo = blocos[call[r].id].conteudo,
                              !.retyped = Retyped(call[r].id, call[r].read.tipo)]
      OBVIOUS
    <2>2. /\ row \in BlocoRow /\ row.exists /\ row.conteudo = blocos[call[r].id].conteudo
          /\ KeepsCanvas(row, call[r].id)
      BY <1>3, <2>1 DEF BlocoInv, RowsTyped, BlocoRow, Retyped, KeepsCanvas
    <2>3. /\ blocos' = [blocos EXCEPT ![call[r].id] = row]
          /\ patched' = patched /\ nucleos' = nucleos
      BY <1>5, <2>1 DEF UpdateBloco
    <2>4. /\ blocos'[call[r].id] = row
          /\ \A b \in BlocoIds \ {call[r].id} : blocos'[b] = blocos[b]
      BY <1>3, <2>3 DEF BlocoInv, RowsTyped
    <2>5. RowsTyped' /\ ContentKept'
      BY <1>3, <2>2, <2>3, <2>4 DEF BlocoInv, RowsTyped, ContentKept
    <2>6. ~ blocos[call[r].id].deleted
      BY <1>5 DEF LiveBlocos
    <2>7. \A b \in BlocoIds : /\ blocos'[b].exists = blocos[b].exists
                              /\ KeepsCanvas(blocos'[b], b)
                              /\ blocos[b].deleted => blocos'[b].deleted
                              /\ ~ blocos[b].exists => /\ ~ blocos'[b].deleted
                                                       /\ blocos'[b].conteudo = Nobody
      <3> SUFFICES ASSUME NEW b \in BlocoIds
                   PROVE  /\ blocos'[b].exists = blocos[b].exists
                          /\ KeepsCanvas(blocos'[b], b)
                          /\ blocos[b].deleted => blocos'[b].deleted
                          /\ ~ blocos[b].exists => /\ ~ blocos'[b].deleted
                                                   /\ blocos'[b].conteudo = Nobody
        OBVIOUS
      <3>1. CASE b = call[r].id
        <4>1. row.exists = blocos[b].exists
          BY <1>3, <2>2, <3>1 DEF BlocoRow, BlocoInv, RowsTyped
        <4> QED
          BY <1>3, <2>2, <2>4, <2>6, <3>1, <4>1
      <3>2. CASE b # call[r].id
        BY <2>4, <3>2 DEF BlocoInv, RowsAreThere, KeepsCanvas
      <3> QED
        BY <3>1, <3>2
    <2> QED
      BY <1>1, <1>2, <2>3, <2>5, <2>7, RewriteOK
  <1> QED
    BY <1>4, <1>5

LEMMA DeleteBlocoOK ==
  ASSUME BlocoInv, NEW r \in Requests, DeleteBloco(r)
  PROVE  BlocoInv' /\ BlocosStayDeleted
  <1>1. r \in InFlight /\ call[r].pc = "deleteBloco"
    BY DEF DeleteBloco, InFlight, At
  <1>2. OnlyMoves(r) /\ GoesTo(r, "uncacheBlocos") /\ alone' = alone
    BY <1>1, GotoIs DEF DeleteBloco, BlocoInv
  <1>3. call[r].id \in BlocoIds /\ blocos[call[r].id].exists
    BY <1>1 DEF BlocoInv, Consistent, BlocoRead
  <1>4. RowsTyped' /\ ContentKept'
    <2>1. PICK b, row : b = call[r].id /\ row = [blocos[b] EXCEPT !.deleted = TRUE]
      OBVIOUS
    <2>2. blocos' = [blocos EXCEPT ![b] = row] /\ patched' = patched /\ nucleos' = nucleos
      BY <2>1 DEF DeleteBloco
    <2>3. blocos \in [BlocoIds -> BlocoRow] /\ b \in BlocoIds /\ blocos[b] \in BlocoRow
      BY <1>3, <2>1 DEF BlocoInv, RowsTyped
    <2>4. row \in BlocoRow /\ row.conteudo = blocos[b].conteudo
      BY <2>1, <2>3 DEF BlocoRow
    <2> QED
      BY <2>2, <2>3, <2>4 DEF BlocoInv, RowsTyped, ContentKept
  <1>5. Consistent(r, call[r])'
    BY <1>1, <1>2 DEF DeleteBloco, BlocoInv, GoesTo, GoesAs, Consistent, Operation, NotYetThere,
                      NewIsEmpty, BlocoRead, CanvasMissing, NucleoRead
  <1>6. \A b \in BlocoIds : /\ blocos'[b].exists = blocos[b].exists
                            /\ KeepsCanvas(blocos'[b], b)
                            /\ blocos[b].deleted => blocos'[b].deleted
                            /\ ~ blocos[b].exists => /\ ~ blocos'[b].deleted
                                                     /\ blocos'[b].conteudo = Nobody
    BY <1>3 DEF DeleteBloco, BlocoInv, RowsTyped, BlocoRow, RowsAreThere, KeepsCanvas
  <1> QED
    BY <1>1, <1>2, <1>4, <1>5, <1>6, RewriteOK DEF DeleteBloco, GoesTo, GoesAs

(* A request writes parent_id, posicao, edition, conteudo or tipo of a row. *)
ColumnsStay ==
    \A b \in BlocoIds : /\ blocos'[b].exists = blocos[b].exists
                        /\ blocos'[b].deleted = blocos[b].deleted
                        /\ KeepsCanvas(blocos'[b], b)
                        /\ ~ blocos[b].exists => blocos'[b].conteudo = Nobody

LEMMA ColumnOK ==
  ASSUME BlocoInv, NEW r \in InFlight, OnlyMoves(r), alone' = alone, nucleos' = nucleos,
         call'[r].pc # "idle", Consistent(r, call[r])', RowsTyped', ContentKept', ColumnsStay
  PROVE  BlocoInv' /\ BlocosStayDeleted
  <1>1. \A b \in BlocoIds : ~ blocos[b].exists => ~ blocos'[b].deleted
    BY DEF BlocoInv, RowsAreThere, ColumnsStay
  <1> QED
    BY <1>1, RewriteOK DEF ColumnsStay

LEMMA RowWritten ==
  ASSUME BlocoInv, NEW b, NEW row, blocos' = [blocos EXCEPT ![b] = row],
         b \in BlocoIds => /\ row \in BlocoRow
                           /\ row.exists = blocos[b].exists /\ row.deleted = blocos[b].deleted
                           /\ KeepsCanvas(row, b)
                           /\ row.conteudo = patched'[b]
                           /\ ~ row.exists => row.conteudo = Nobody,
         patched' \in [BlocoIds -> Requests \cup {Nobody}],
         \A c \in BlocoIds \ {b} : patched'[c] = patched[c],
         nucleos' = nucleos
  PROVE  RowsTyped' /\ ContentKept' /\ ColumnsStay
  <1>1. blocos \in [BlocoIds -> BlocoRow] /\ nucleos \in [NucleoIds -> NucleoRow]
    BY DEF BlocoInv, RowsTyped
  <1>2. \A c \in BlocoIds : blocos'[c] = IF c = b THEN row ELSE blocos[c]
    BY <1>1
  <1>3. blocos' \in [BlocoIds -> BlocoRow]
    BY <1>1
  <1>4. RowsTyped'
    BY <1>1, <1>3 DEF RowsTyped
  <1>5. ContentKept'
    BY <1>2 DEF BlocoInv, ContentKept
  <1>6. ColumnsStay
    BY <1>2 DEF BlocoInv, RowsAreThere, ColumnsStay, KeepsCanvas
  <1> QED
    BY <1>4, <1>5, <1>6

(* A column but the content of a row.                                      *)
LEMMA OtherColumn ==
  ASSUME BlocoInv, patched' = patched, nucleos' = nucleos, NEW b, NEW row,
         blocos' = [blocos EXCEPT ![b] = row],
         \/ \E k \in Nat : row = [blocos[b] EXCEPT !.posicao = k]
         \/ \E parent \in {First, Root} : row = [blocos[b] EXCEPT !.parent = parent]
         \/ \E q \in Requests : row = [blocos[b] EXCEPT !.edition = q]
  PROVE  RowsTyped' /\ ContentKept' /\ ColumnsStay
  <1>1. b \in BlocoIds => /\ blocos[b] \in BlocoRow
                          /\ blocos[b].conteudo = patched[b]
                          /\ ~ blocos[b].exists => blocos[b].conteudo = Nobody
    BY DEF BlocoInv, RowsTyped, ContentKept, RowsAreThere
  <1>2. b \in BlocoIds => /\ row \in BlocoRow
                          /\ row.exists = blocos[b].exists /\ row.deleted = blocos[b].deleted
                          /\ KeepsCanvas(row, b)
                          /\ row.conteudo = blocos[b].conteudo
    BY <1>1 DEF BlocoRow, KeepsCanvas
  <1>3. patched' \in [BlocoIds -> Requests \cup {Nobody}]
    BY DEF BlocoInv, RowsTyped
  <1> QED
    BY <1>1, <1>2, <1>3, RowWritten

LEMMA UpdatePositionOK ==
  ASSUME BlocoInv, NEW r \in Requests, UpdatePosition(r)
  PROVE  BlocoInv' /\ BlocosStayDeleted
  <1>1. r \in InFlight /\ call[r].pc = "reorder"
    BY DEF UpdatePosition, InFlight, At
  <1>2. CASE Reply(r, 200) /\ UNCHANGED blocos
    <2>1. RowsStay
      BY <1>2 DEF RowsStay, UpdatePosition
    <2> QED
      BY <1>1, <1>2, <2>1, ReplyOK DEF RowsStay, BlocosStayDeleted
  <1>3. CASE \E b \in call[r].read :
              /\ blocos' = IF b \in LiveBlocos THEN [blocos EXCEPT ![b].posicao = Order(b)]
                           ELSE blocos
              /\ Keep(r, call[r].read \ {b}, "reorder")
    <2>1. PICK b \in call[r].read :
              /\ blocos' = IF b \in LiveBlocos THEN [blocos EXCEPT ![b].posicao = Order(b)]
                           ELSE blocos
              /\ Keep(r, call[r].read \ {b}, "reorder")
      BY <1>3
    <2>2. OnlyMoves(r) /\ GoesTo(r, "reorder") /\ alone' = alone
      BY <1>1, <2>1, KeepIs DEF BlocoInv
    <2>3. nucleos' = nucleos /\ patched' = patched
      BY DEF UpdatePosition
    <2>4. RowsTyped' /\ ContentKept' /\ ColumnsStay
      <3>1. PICK k \in Nat : k = Order(b)
        BY DEF Order
      <3>2. \/ blocos' = blocos
            \/ b \in LiveBlocos /\ blocos' = [blocos EXCEPT ![b].posicao = k]
        BY <2>1, <3>1
      <3>3. CASE blocos' = blocos
        BY <2>3, <3>3
           DEF BlocoInv, RowsTyped, ContentKept, RowsAreThere, ColumnsStay, KeepsCanvas
      <3>4. CASE b \in LiveBlocos /\ blocos' = [blocos EXCEPT ![b].posicao = k]
        <4>1. PICK row : row = [blocos[b] EXCEPT !.posicao = k]
          OBVIOUS
        <4>2. blocos' = [blocos EXCEPT ![b] = row]
          BY <3>4, <4>1
        <4> QED
          BY <2>3, <4>1, <4>2, OtherColumn
      <3> QED
        BY <3>2, <3>3, <3>4
    <2>5. Consistent(r, call[r])'
      BY <1>1, <2>2, <2>3, <2>4, IdsFacts
         DEF ColumnsStay, KeepsCanvas, BlocoInv, GoesTo, GoesAs, Consistent, Operation, NotYetThere,
             NewIsEmpty, BlocoRead, CanvasMissing, NucleoRead
    <2> QED
      BY <1>1, <2>2, <2>3, <2>4, <2>5, ColumnOK DEF GoesTo, GoesAs
  <1> QED
    BY <1>2, <1>3 DEF UpdatePosition

LEMMA MoveToParentOK ==
  ASSUME BlocoInv, NEW r \in Requests, MoveToParent(r)
  PROVE  BlocoInv' /\ BlocosStayDeleted
  <1>1. r \in InFlight /\ call[r].pc = "move"
    BY DEF MoveToParent, InFlight, At
  <1>2. OnlyMoves(r) /\ alone' = alone /\ call'[r].pc = "done" /\ Consistent(r, call[r])'
    BY <1>1, AnsweredOK DEF MoveToParent
  <1>3. call[r].arg \in {First, Root}
    BY <1>1 DEF BlocoInv, Consistent, BlocoRead
  <1>4. RowsTyped' /\ ContentKept' /\ ColumnsStay
    <2>1. PICK b, row : b = call[r].id /\ row = [blocos[b] EXCEPT !.parent = call[r].arg]
      OBVIOUS
    <2>2. blocos' = [blocos EXCEPT ![b] = row] /\ patched' = patched /\ nucleos' = nucleos
      BY <2>1 DEF MoveToParent
    <2> QED
      BY <1>3, <2>1, <2>2, OtherColumn
  <1> QED
    BY <1>1, <1>2, <1>4, ColumnOK DEF MoveToParent

LEMMA UpdateCanvasOK ==
  ASSUME BlocoInv, NEW r \in Requests, UpdateCanvas(r)
  PROVE  BlocoInv' /\ BlocosStayDeleted
  <1>1. r \in InFlight /\ call[r].pc = "updateCanvas"
    BY DEF UpdateCanvas, InFlight, At
  <1>2. OnlyMoves(r) /\ alone' = alone /\ call'[r].pc = "done" /\ Consistent(r, call[r])'
    BY <1>1, AnsweredOK DEF UpdateCanvas
  <1>3. RowsTyped' /\ ContentKept' /\ ColumnsStay
    <2>1. PICK b, row : b = call[r].read /\ row = [blocos[b] EXCEPT !.edition = r]
      OBVIOUS
    <2>2. blocos' = [blocos EXCEPT ![b] = row] /\ patched' = patched /\ nucleos' = nucleos
      BY <2>1 DEF UpdateCanvas
    <2> QED
      BY <2>1, <2>2, OtherColumn
  <1> QED
    BY <1>1, <1>2, <1>3, ColumnOK DEF UpdateCanvas

LEMMA PatchRowOK ==
  ASSUME BlocoInv, NEW r \in Requests, PatchRow(r)
  PROVE  BlocoInv' /\ BlocosStayDeleted
  <1>1. r \in InFlight /\ call[r].pc = "patchContent"
    BY DEF PatchRow, InFlight, At
  <1>2. CASE Reply(r, 404) /\ UNCHANGED <<blocos, patched>>
    <2>1. RowsStay
      BY <1>2 DEF RowsStay, PatchRow
    <2> QED
      BY <1>1, <1>2, <2>1, ReplyOK DEF RowsStay, BlocosStayDeleted
  <1>3. ASSUME call[r].id \in LiveBlocos,
               NEW tipo, tipo = IF call[r].arg = Same THEN blocos[call[r].id].tipo ELSE call[r].arg,
               blocos' = [blocos EXCEPT
                            ![call[r].id] = [@ EXCEPT !.conteudo = r, !.tipo = tipo,
                                                     !.retyped = Retyped(call[r].id, tipo)]],
               patched' = [patched EXCEPT ![call[r].id] = r],
               Reply(r, 200)
        PROVE  BlocoInv' /\ BlocosStayDeleted
    <2>1. OnlyMoves(r) /\ alone' = alone /\ call'[r].pc = "done" /\ Consistent(r, call[r])'
      BY <1>1, <1>3, AnsweredOK
    <2>2. nucleos' = nucleos /\ call[r].id \in BlocoIds /\ blocos[call[r].id].exists
      BY <1>3 DEF PatchRow, LiveBlocos
    <2>3. RowsTyped' /\ ContentKept' /\ ColumnsStay
      <3>1. PICK b, row : /\ b = call[r].id
                          /\ row = [blocos[b] EXCEPT !.conteudo = r, !.tipo = tipo,
                                                     !.retyped = Retyped(b, tipo)]
        OBVIOUS
      <3>2. blocos' = [blocos EXCEPT ![b] = row] /\ patched' = [patched EXCEPT ![b] = r]
        BY <1>3, <3>1
      <3>6. tipo \in Tipos
        BY <1>1, <1>3, <2>2 DEF BlocoInv, RowsTyped, BlocoRow, Consistent, BlocoRead
      <3>3. blocos[b] \in BlocoRow /\ patched \in [BlocoIds -> Requests \cup {Nobody}]
        BY <2>2, <3>1 DEF BlocoInv, RowsTyped
      <3>4. /\ row \in BlocoRow /\ row.conteudo = r /\ row.exists
            /\ row.exists = blocos[b].exists /\ row.deleted = blocos[b].deleted
            /\ KeepsCanvas(row, b)
        BY <2>2, <3>1, <3>3, <3>6 DEF BlocoRow, Retyped, KeepsCanvas
      <3>5. /\ patched' \in [BlocoIds -> Requests \cup {Nobody}] /\ patched'[b] = r
            /\ \A c \in BlocoIds \ {b} : patched'[c] = patched[c]
        BY <2>2, <3>1, <3>2, <3>3
      <3> QED
        BY <2>2, <3>2, <3>4, <3>5, RowWritten
    <2> QED
      BY <1>1, <2>1, <2>2, <2>3, ColumnOK
  <1> QED
    <2>1. PICK tipo : tipo = IF call[r].arg = Same THEN blocos[call[r].id].tipo ELSE call[r].arg
      OBVIOUS
    <2> QED
      BY <1>2, <1>3, <2>1, Zenon DEF PatchRow

-----------------------------------------------------------------------------
(* Steps that write núcleos                                                *)

LEMMA NucleosOK ==
  ASSUME BlocoInv, NEW r \in InFlight, OnlyMoves(r), alone' = alone, blocos' = blocos,
         patched' = patched, call'[r].pc # "idle", Consistent(r, call[r])',
         nucleos' \in [NucleoIds -> NucleoRow],
         \A n \in NucleoIds : /\ nucleos[n].exists => nucleos'[n].exists
                              /\ n # r => nucleos'[n].exists = nucleos[n].exists
                              /\ ~ nucleos'[n].exists => ~ nucleos'[n].deleted
  PROVE  BlocoInv'
  <1>1. RowsTyped' /\ RowsAreThere' /\ ContentKept' /\ StillOnDemand' = StillOnDemand /\ Solo'
    BY SoloStays
       DEF BlocoInv, RowsTyped, RowsAreThere, ContentKept, StillOnDemand, Canvases, LiveBlocos
  <1>2. r \in Requests /\ Overlapped \subseteq Overlapped'
    BY DEF Overlapped, OnlyMoves, At, InFlight
  <1>3. OneCanvas'
    BY <1>1, <1>2 DEF BlocoInv, OneCanvas
  <1>4. ASSUME NEW q \in Requests \ {r}
        PROVE  Consistent(q, call[q])'
    <2>1. /\ call'[q] = call[q] /\ Consistent(q, call[q]) /\ q \in NucleoIds
          /\ nucleos'[q].exists = nucleos[q].exists
      BY <1>2, IdsFacts DEF OnlyMoves, BlocoInv
    <2>2. call[q].pc \in {"findIcon", "updateNucleo"} => q \notin alone
      BY NoOtherIsAlone DEF BlocoInv, InFlight, At
    <2>3. NucleoRead(q, call[q])'
      BY <2>1, <2>2 DEF Consistent, NucleoRead
    <2> QED
      BY <1>1, <1>2, <2>1, <2>3
         DEF Consistent, Operation, NotYetThere, NewIsEmpty, BlocoRead, CanvasMissing
  <1> QED
    BY <1>1, <1>2, <1>3, <1>4 DEF BlocoInv, OnlyMoves

LEMMA SaveNucleoOK ==
  ASSUME BlocoInv, NEW r \in Requests, SaveNucleo(r), UNCHANGED bloco_rows
  PROVE  BlocoInv' /\ NucleosStayDeleted
  <1>1. r \in InFlight /\ call[r].pc = "saveNucleo" /\ blocos' = blocos /\ patched' = patched
    BY DEF SaveNucleo, InFlight, At, bloco_rows
  <1>2. OnlyMoves(r) /\ GoesTo(r, "uncacheNucleos") /\ alone' = alone
    BY <1>1, GotoIs DEF SaveNucleo, BlocoInv
  <1>3. PICK row : row = [AbsentNucleo EXCEPT !.exists = TRUE, !.edition = r]
    OBVIOUS
  <1>4. row \in NucleoRow /\ row.exists /\ ~ row.deleted
    BY <1>3 DEF AbsentNucleo, NucleoRow
  <1>5. nucleos' = [nucleos EXCEPT ![r] = row] /\ r \in NucleoIds /\ ~ nucleos[r].exists
    BY <1>1, <1>3, IdsFacts DEF SaveNucleo, BlocoInv, Consistent, NotYetThere
  <1>6. /\ nucleos' \in [NucleoIds -> NucleoRow]
        /\ nucleos'[r] = row /\ \A n \in NucleoIds \ {r} : nucleos'[n] = nucleos[n]
    BY <1>4, <1>5 DEF BlocoInv, RowsTyped
  <1>7. Consistent(r, call[r])'
    BY <1>1, <1>2 DEF BlocoInv, GoesTo, GoesAs, Consistent, Operation, NotYetThere, NewIsEmpty,
                      BlocoRead, CanvasMissing, NucleoRead
  <1>8. BlocoInv'
    BY <1>1, <1>2, <1>4, <1>6, <1>7, NucleosOK DEF BlocoInv, RowsAreThere, GoesTo, GoesAs
  <1>9. NucleosStayDeleted
    BY <1>5, <1>6 DEF BlocoInv, RowsAreThere, NucleosStayDeleted
  <1> QED
    BY <1>8, <1>9

(* The row comes back only if it was deleted after it was read.            *)
LEMMA WriteNucleoOK ==
  ASSUME BlocoInv, NEW r \in Requests, WriteNucleo(r), UNCHANGED bloco_rows
  PROVE  BlocoInv' /\ NucleosStayDeleted
  <1>1. r \in InFlight /\ call[r].pc = "updateNucleo" /\ blocos' = blocos /\ patched' = patched
    BY DEF WriteNucleo, InFlight, At, bloco_rows
  <1>2. OnlyMoves(r) /\ alone' = alone /\ call'[r].pc = "done" /\ Consistent(r, call[r])'
    BY <1>1, AnsweredOK DEF WriteNucleo
  <1>3. /\ call[r].op = "updateNucleo" /\ call[r].read \in NucleoRow /\ call[r].read.exists
        /\ call[r].id \in NucleoIds /\ nucleos[call[r].id].exists
        /\ r \in alone => ~ nucleos[call[r].id].deleted
    BY <1>1 DEF BlocoInv, Consistent, NucleoRead
  <1>4. PICK row : row = [call[r].read EXCEPT !.edition = r]
    OBVIOUS
  <1>5. row \in NucleoRow /\ row.exists
    BY <1>3, <1>4 DEF NucleoRow
  <1>6. /\ nucleos' \in [NucleoIds -> NucleoRow] /\ nucleos'[call[r].id] = row
        /\ \A n \in NucleoIds \ {call[r].id} : nucleos'[n] = nucleos[n]
    BY <1>3, <1>4, <1>5 DEF WriteNucleo, BlocoInv, RowsTyped
  <1>7. \A n \in NucleoIds : /\ nucleos'[n].exists = nucleos[n].exists
                             /\ ~ nucleos'[n].exists => ~ nucleos'[n].deleted
    <2>1. row.exists = nucleos[call[r].id].exists
      BY <1>3, <1>5 DEF NucleoRow, BlocoInv, RowsTyped
    <2> QED
      BY <1>5, <1>6, <2>1 DEF BlocoInv, RowsAreThere
  <1>8. BlocoInv'
    BY <1>1, <1>2, <1>6, <1>7, NucleosOK
  <1>9. r \in Overlapped <=> r \notin alone
    BY <1>1 DEF Overlapped, At
  <1>10. NucleosStayDeleted
    BY <1>3, <1>6, <1>9 DEF NucleosStayDeleted, Overlapped
  <1> QED
    BY <1>8, <1>10

LEMMA SoftDeleteNucleoOK ==
  ASSUME BlocoInv, NEW r \in Requests, SoftDeleteNucleo(r), UNCHANGED bloco_rows
  PROVE  BlocoInv' /\ NucleosStayDeleted
  <1>1. r \in InFlight /\ call[r].pc = "deleteNucleo" /\ blocos' = blocos /\ patched' = patched
    BY DEF SoftDeleteNucleo, InFlight, At, bloco_rows
  <1>2. OnlyMoves(r) /\ GoesTo(r, "uncacheNucleos") /\ alone' = alone
    BY <1>1, GotoIs DEF SoftDeleteNucleo, BlocoInv
  <1>3. call[r].id \in NucleoIds /\ nucleos[call[r].id].exists
    BY <1>1 DEF BlocoInv, Consistent, NucleoRead
  <1>4. /\ nucleos' \in [NucleoIds -> NucleoRow]
        /\ \A n \in NucleoIds : /\ nucleos'[n].exists = nucleos[n].exists
                                /\ nucleos[n].deleted => nucleos'[n].deleted
                                /\ n # call[r].id => nucleos'[n].deleted = nucleos[n].deleted
    BY DEF SoftDeleteNucleo, BlocoInv, RowsTyped, NucleoRow
  <1>5. Consistent(r, call[r])'
    BY <1>1, <1>2 DEF BlocoInv, GoesTo, GoesAs, Consistent, Operation, NotYetThere, NewIsEmpty,
                      BlocoRead, CanvasMissing, NucleoRead
  <1>6. \A n \in NucleoIds : ~ nucleos'[n].exists => ~ nucleos'[n].deleted
    BY <1>3, <1>4 DEF BlocoInv, RowsAreThere
  <1>7. BlocoInv'
    BY <1>1, <1>2, <1>4, <1>5, <1>6, NucleosOK DEF GoesTo, GoesAs
  <1> QED
    BY <1>4, <1>7 DEF NucleosStayDeleted

-----------------------------------------------------------------------------
(* The cached lists                                                        *)

(* The blocos a list may have or lack wrongly for good.                    *)
Excused(parent) ==
    {b \in BlocoIds : blocos[b].onDemand} \cup (IF parent = All THEN {} ELSE moved)

Differ(rows, others) == (rows \ others) \cup (others \ rows)

Uncaching == \E r \in InFlight : At(r, "uncacheBlocos")

HasCause(e, parent) ==
    \/ Differ(e.rows, ListOf(parent)) \subseteq Excused(parent)
    \/ Uncaching
    \/ faults > 0
    \/ e.reader \notin alone

ListsHaveCauses ==
    \A e \in cache, parent \in {All, First} : e.key = blocosByNucleo(parent) => HasCause(e, parent)

(* An entry has been filled by a request, with rows.                       *)
EntriesAreFilled ==
    \A e \in cache :
        /\ e.reader \in Requests /\ ~ At(e.reader, "idle")
        /\ \A parent \in {All, First} : e.key = blocosByNucleo(parent) => e.rows \subseteq BlocoIds

(* What a request that nothing overlapped fills the cache with is current. *)
CurrentRead(r) == call[r].pc = "cacheBlocos" => call[r].read = ListOf(call[r].arg)

ReadsAreCurrent ==
    \A r \in Requests :
        /\ call[r].pc = "cacheBlocos" => call[r].read \subseteq BlocoIds
        /\ r \in alone => CurrentRead(r)

(* An update writes back a row that was live.                              *)
LiveRead(c) == c.pc = "updateBloco" => ~ c.read.deleted

ListInv ==
    /\ faults \in Nat /\ ListsHaveCauses /\ EntriesAreFilled /\ ReadsAreCurrent
    /\ \A r \in Requests : LiveRead(call[r])

(* Nothing that was excused is so no longer.                               *)
ExcusesStay ==
    /\ \A b \in BlocoIds : blocos[b].onDemand => blocos'[b].onDemand
    /\ moved \subseteq moved'

MaybeFault == faults' = faults \/ faults' = faults + 1

LEMMA ListsAreOfBlocos ==
  ASSUME NEW parent
  PROVE  ListOf(parent) \subseteq BlocoIds
  BY DEF ListOf, LiveBlocos

LEMMA InitLists == Init => ListInv
  BY DEF Init, HandlersInit, CacheInit, Idle, ListInv, ListsHaveCauses, EntriesAreFilled,
         ReadsAreCurrent, CurrentRead, LiveRead

(* A handler goes on, deletes entries at most, and what it changes of a    *)
(* list is excused, or will be uncached.                                   *)
LEMMA ListsMove ==
  ASSUME BlocoInv, ListInv, NEW r \in InFlight, OnlyMoves(r), alone' = alone,
         call'[r].pc # "idle", cache' \subseteq cache, MaybeFault,
         \/ call[r].pc # "uncacheBlocos"
         \/ faults' > 0
         \/ \A e \in cache', parent \in {All, First} : e.key # blocosByNucleo(parent),
         \/ call'[r].pc = "uncacheBlocos"
         \/ ExcusesStay /\ \A parent \in {All, First} :
               Differ(ListOf(parent), ListOf(parent)') \subseteq Excused(parent)',
         CurrentRead(r)', LiveRead(call[r])'
  PROVE  ListInv'
  <1>1. r \in Requests
    BY DEF InFlight
  <1>2. faults' \in Nat /\ (faults > 0 => faults' > 0)
    BY DEF ListInv, MaybeFault
  <1>3. EntriesAreFilled'
    BY <1>1 DEF ListInv, EntriesAreFilled, OnlyMoves, At, blocosByNucleo, All
  <1>4. ReadsAreCurrent'
    <2> SUFFICES ASSUME NEW q \in Requests, call'[q].pc = "cacheBlocos"
                 PROVE  call'[q].read \subseteq BlocoIds /\ (q \in alone' => CurrentRead(q)')
      BY DEF ReadsAreCurrent, CurrentRead
    <2>1. CASE q = r
      BY <2>1 DEF CurrentRead, ListOf, LiveBlocos
    <2>2. CASE q # r
      <3>1. call'[q] = call[q]
        BY <2>2 DEF OnlyMoves
      <3>2. q \in InFlight
        BY <3>1 DEF InFlight, At
      <3>3. q \notin alone
        BY <2>2, <3>2, NoOtherIsAlone DEF BlocoInv
      <3> QED
        BY <3>1, <3>3 DEF ListInv, ReadsAreCurrent
    <2> QED
      BY <2>1, <2>2
  <1>5. ExcusesStay => \A parent : Excused(parent) \subseteq Excused(parent)'
    BY DEF Excused, ExcusesStay
  <1>6. ListsHaveCauses'
    <2> SUFFICES ASSUME NEW e \in cache', NEW parent \in {All, First},
                        e.key = blocosByNucleo(parent)
                 PROVE  HasCause(e, parent)'
      BY DEF ListsHaveCauses, blocosByNucleo, All
    <2>1. e \in cache /\ HasCause(e, parent)
      BY DEF ListInv, ListsHaveCauses
    <2>2. CASE faults > 0 \/ faults' > 0 \/ e.reader \notin alone
      BY <1>2, <2>2 DEF HasCause
    <2>3. CASE call'[r].pc = "uncacheBlocos"
      BY <1>1, <2>3 DEF HasCause, Uncaching, InFlight, At
    <2>4. CASE Uncaching /\ call[r].pc # "uncacheBlocos"
      <3>1. PICK q \in InFlight : call[q].pc = "uncacheBlocos"
        BY <2>4 DEF Uncaching, At
      <3>2. q \in Requests /\ q # r
        BY <2>4, <3>1 DEF InFlight
      <3>3. call'[q] = call[q]
        BY <3>2 DEF OnlyMoves
      <3> QED
        BY <3>1, <3>2, <3>3 DEF HasCause, Uncaching, InFlight, At
    <2>5. CASE /\ ExcusesStay
               /\ Differ(e.rows, ListOf(parent)) \subseteq Excused(parent)
               /\ Differ(ListOf(parent), ListOf(parent)') \subseteq Excused(parent)'
      <3>1. Differ(e.rows, ListOf(parent)') \subseteq Excused(parent)'
        BY <1>5, <2>5 DEF Differ
      <3> QED
        BY <3>1 DEF HasCause
    <2>6. CASE call[r].pc = "uncacheBlocos"
      BY <2>2, <2>6
    <2> QED
      BY <2>1, <2>2, <2>3, <2>4, <2>5, <2>6 DEF HasCause
  <1>7. \A q \in Requests : LiveRead(call[q])'
    BY DEF ListInv, OnlyMoves
  <1> QED
    BY <1>2, <1>3, <1>4, <1>6, <1>7 DEF ListInv

(* The same where no column changes that a list depends on.                *)
ListColumnsStay ==
    /\ moved' = moved
    /\ \A b \in BlocoIds :
          /\ blocos'[b].exists = blocos[b].exists /\ blocos'[b].deleted = blocos[b].deleted
          /\ blocos'[b].parent = blocos[b].parent /\ blocos'[b].onDemand = blocos[b].onDemand

LEMMA NoListChanges ==
  ASSUME ListColumnsStay
  PROVE  /\ ExcusesStay
         /\ \A parent : ListOf(parent)' = ListOf(parent)
         /\ \A parent : Differ(ListOf(parent), ListOf(parent)') = {}
  <1>1. ExcusesStay /\ \A parent : ListOf(parent)' = ListOf(parent)
    BY DEF ListColumnsStay, ExcusesStay, ListOf, LiveBlocos
  <1> QED
    BY <1>1 DEF Differ

LEMMA ListsRead ==
  ASSUME BlocoInv, ListInv, NEW r \in InFlight, OnlyMoves(r), alone' = alone,
         call'[r].pc # "idle", CurrentRead(r)', LiveRead(call[r])',
         call[r].pc # "uncacheBlocos", cache' \subseteq cache, MaybeFault, ListColumnsStay
  PROVE  ListInv'
  <1>1. /\ ExcusesStay
        /\ \A parent \in {All, First} :
               Differ(ListOf(parent), ListOf(parent)') \subseteq Excused(parent)'
    BY NoListChanges
  <1> QED
    BY <1>1, ListsMove

(* A request arrives or is refused.                                        *)
LEMMA ListsArrive ==
  ASSUME BlocoInv, ListInv, NEW r \in Requests, OnlyMoves(r), call[r].pc = "idle",
         alone' \subseteq alone \cup {r}, call'[r].pc \notin {"idle", "cacheBlocos", "updateBloco"},
         UNCHANGED caches, ListColumnsStay
  PROVE  ListInv'
  <1>1. cache' = cache /\ faults' = faults
    BY DEF caches
  <1>2. \A parent : ListOf(parent)' = ListOf(parent) /\ Excused(parent)' = Excused(parent)
    BY DEF ListColumnsStay, Excused, ListOf, LiveBlocos
  <1>3. EntriesAreFilled'
    BY <1>1 DEF ListInv, EntriesAreFilled, OnlyMoves, At, blocosByNucleo, All
  <1>4. ReadsAreCurrent'
    <2> SUFFICES ASSUME NEW q \in Requests, call'[q].pc = "cacheBlocos"
                 PROVE  call'[q].read \subseteq BlocoIds /\ (q \in alone' => CurrentRead(q)')
      BY DEF ReadsAreCurrent, CurrentRead
    <2>1. q # r /\ call'[q] = call[q]
      BY DEF OnlyMoves
    <2> QED
      BY <1>2, <2>1 DEF ListInv, ReadsAreCurrent, CurrentRead
  <1>5. ListsHaveCauses'
    <2> SUFFICES ASSUME NEW e \in cache, NEW parent \in {All, First},
                        e.key = blocosByNucleo(parent)
                 PROVE  HasCause(e, parent)'
      BY <1>1 DEF ListsHaveCauses, blocosByNucleo, All
    <2>1. HasCause(e, parent) /\ e.reader # r
      BY DEF ListInv, ListsHaveCauses, EntriesAreFilled, At
    <2>2. Uncaching => Uncaching'
      BY DEF Uncaching, InFlight, At, OnlyMoves
    <2> QED
      BY <1>1, <1>2, <2>1, <2>2 DEF HasCause
  <1>6. \A q \in Requests : LiveRead(call[q])'
    BY DEF ListInv, OnlyMoves, LiveRead
  <1> QED
    BY <1>1, <1>3, <1>4, <1>5, <1>6 DEF ListInv

(* How the handlers that read go on.                                       *)
Elsewhere == {"findParent", "saveBloco", "reorder", "findBlocos", "findBloco", "checkNucleo",
              "deleteBloco", "insertCanvas", "updateCanvas", "saveNucleo", "updateNucleo",
              "uncacheNucleos", "notifyNucleo", "findIcon", "deleteNucleo", "findNucleos",
              "cacheNucleos"}

GoesElsewhere(r) ==
    \/ \E status : Reply(r, status) \/ FailWith(r, status)
    \/ \E label \in Elsewhere : Goto(r, label) \/ \E read : Keep(r, read, label)

LEMMA ListsElsewhere ==
  ASSUME BlocoInv, ListInv, NEW r \in Requests, GoesElsewhere(r),
         call[r].pc \notin {"idle", "done", "uncacheBlocos"},
         cache' \subseteq cache, MaybeFault, ListColumnsStay
  PROVE  ListInv'
  <1>1. HandlersOK /\ r \in InFlight
    BY DEF BlocoInv, InFlight, At
  <1>2. /\ OnlyMoves(r) /\ alone' = alone
        /\ call'[r].pc \in Elsewhere \cup {"done"}
    BY <1>1, ReplyIs, FailIs, GotoIs, KeepIs DEF GoesElsewhere, GoesTo, GoesAs
  <1>3. call'[r].pc \notin {"idle", "cacheBlocos", "updateBloco"}
    BY <1>2 DEF Elsewhere
  <1>4. CurrentRead(r)' /\ LiveRead(call[r])'
    BY <1>3 DEF CurrentRead, LiveRead
  <1> QED
    BY <1>1, <1>2, <1>3, <1>4, ListsRead

-----------------------------------------------------------------------------
(* The lists, statement by statement                                       *)

LEMMA BlocosStay ==
  ASSUME UNCHANGED bloco_rows
  PROVE  ListColumnsStay
  BY DEF bloco_rows, ListColumnsStay

LEMMA BlocosReadLists ==
  ASSUME BlocoInv, ListInv, NEW r \in Requests,
         \/ CheckNucleo(r) \/ FindParent(r) \/ CheckBoth(r) \/ FindCanvas(r)
         \/ GetBlocos(r) \/ Fail(r)
  PROVE  ListInv'
  <1>1. ListColumnsStay
    BY BlocosStay DEF CheckNucleo, FindParent, CheckBoth, FindCanvas, GetBlocos, Fail, OnlyReads
  <1>2. cache' = cache /\ MaybeFault
    BY DEF CheckNucleo, FindParent, CheckBoth, FindCanvas, GetBlocos, Fail, OnlyReads, GetCache,
           RedisError, caches, MaybeFault
  <1>3. call[r].pc \in Queries \cup {"getBlocos"}
    BY DEF CheckNucleo, FindParent, CheckBoth, FindCanvas, GetBlocos, Fail, At, Queries
  <1>4. call[r].pc \notin {"idle", "done", "uncacheBlocos"}
    BY <1>3 DEF Queries, NucleosQueries
  <1>5. GoesElsewhere(r)
    <2>1. CASE CheckNucleo(r)
      <3>1. call[r].op \in {"create", "reorder", "getByNucleo", "getById"}
        BY <2>1 DEF BlocoInv, Consistent, Operation, CheckNucleo, At
      <3> QED
        BY <2>1, <3>1 DEF CheckNucleo, GoesElsewhere, Elsewhere
    <2>2. CASE FindParent(r) \/ CheckBoth(r)
      BY <2>2 DEF FindParent, CheckBoth, GoesElsewhere, Elsewhere
    <2>3. CASE FindCanvas(r)
      BY <2>3 DEF FindCanvas, GoesElsewhere, Elsewhere
    <2>4. CASE GetBlocos(r)
      BY <2>4 DEF GetBlocos, GetCache, GoesElsewhere, Elsewhere
    <2>5. CASE Fail(r)
      BY <2>5 DEF Fail, GoesElsewhere
    <2> QED
      BY <2>1, <2>2, <2>3, <2>4, <2>5
  <1> QED
    BY <1>1, <1>2, <1>4, <1>5, ListsElsewhere

LEMMA NucleosLists ==
  ASSUME BlocoInv, ListInv, NEW r \in Requests, UNCHANGED bloco_rows,
         \/ FindIcon(r) \/ SaveNucleo(r) \/ UncacheNucleos(r) \/ NotifyNucleo(r)
         \/ FindNucleo(r) \/ WriteNucleo(r) \/ SoftDeleteNucleo(r)
         \/ GetNucleos(r) \/ FindNucleos(r)
  PROVE  ListInv'
  <1>1. ListColumnsStay
    BY BlocosStay
  <1>2. cache' \subseteq cache /\ MaybeFault
    BY DEF FindIcon, SaveNucleo, UncacheNucleos, NotifyNucleo, FindNucleo, WriteNucleo,
           SoftDeleteNucleo, GetNucleos, FindNucleos, GetCache, DeleteCache, RedisError, caches,
           MaybeFault
  <1>3. call[r].pc \notin {"idle", "done", "uncacheBlocos"}
    BY DEF FindIcon, SaveNucleo, UncacheNucleos, NotifyNucleo, FindNucleo, WriteNucleo,
           SoftDeleteNucleo, GetNucleos, FindNucleos, At
  <1>4. GoesElsewhere(r)
    <2>1. CASE FindIcon(r) \/ SaveNucleo(r) \/ UncacheNucleos(r) \/ NotifyNucleo(r)
      BY <2>1 DEF FindIcon, SaveNucleo, UncacheNucleos, NotifyNucleo, GoesElsewhere, Elsewhere
    <2>2. CASE FindNucleo(r)
      BY <2>2 DEF FindNucleo, GoesElsewhere, Elsewhere
    <2>3. CASE \/ WriteNucleo(r) \/ SoftDeleteNucleo(r) \/ GetNucleos(r) \/ FindNucleos(r)
      BY <2>3 DEF WriteNucleo, SoftDeleteNucleo, GetNucleos, FindNucleos, GetCache,
                  GoesElsewhere, Elsewhere
    <2> QED
      BY <2>1, <2>2, <2>3
  <1> QED
    BY <1>1, <1>2, <1>3, <1>4, ListsElsewhere

(* Columns that no list depends on.                                        *)
LEMMA ColumnLists ==
  ASSUME BlocoInv, ListInv, NEW r \in Requests,
         UpdatePosition(r) \/ PatchRow(r) \/ UpdateCanvas(r)
  PROVE  ListInv'
  <1>1. ListColumnsStay
    <2> DEFINE ListsSee(row, b) ==
                  b \in BlocoIds => /\ row.exists = blocos[b].exists
                                    /\ row.deleted = blocos[b].deleted
                                    /\ row.parent = blocos[b].parent
                                    /\ row.onDemand = blocos[b].onDemand
    <2>1. blocos \in [BlocoIds -> BlocoRow] /\ moved' = moved
      BY DEF UpdatePosition, PatchRow, UpdateCanvas, BlocoInv, RowsTyped
    <2>2. CASE blocos' = blocos
      BY <2>1, <2>2 DEF ListColumnsStay
    <2>3. ASSUME NEW b, NEW row, blocos' = [blocos EXCEPT ![b] = row], ListsSee(row, b)
          PROVE  ListColumnsStay
      <3>1. \A c \in BlocoIds : blocos'[c] = IF c = b THEN row ELSE blocos[c]
        BY <2>1, <2>3
      <3> QED
        BY <2>1, <2>3, <3>1 DEF ListColumnsStay
    <2>4. CASE UpdatePosition(r)
      <3>1. PICK b, k, row : /\ blocos' = blocos \/ blocos' = [blocos EXCEPT ![b] = row]
                             /\ row = [blocos[b] EXCEPT !.posicao = k]
        BY <2>4 DEF UpdatePosition
      <3>2. ListsSee(row, b)
        BY <2>1, <3>1 DEF BlocoRow
      <3> QED
        BY <2>2, <2>3, <3>1, <3>2
    <2>5. CASE PatchRow(r)
      <3>1. PICK b, tipo, retyped, row :
               /\ blocos' = blocos \/ blocos' = [blocos EXCEPT ![b] = row]
               /\ row = [blocos[b] EXCEPT !.conteudo = r, !.tipo = tipo, !.retyped = retyped]
        <4>1. PICK b, tipo, retyped :
                 /\ b = call[r].id /\ retyped = Retyped(b, tipo)
                 /\ tipo = IF call[r].arg = Same THEN blocos[b].tipo ELSE call[r].arg
          OBVIOUS
        <4>2. PICK row :
                 row = [blocos[b] EXCEPT !.conteudo = r, !.tipo = tipo, !.retyped = retyped]
          OBVIOUS
        <4>3. \/ blocos' = blocos
              \/ blocos' = [blocos EXCEPT ![b] = [@ EXCEPT !.conteudo = r, !.tipo = tipo,
                                                           !.retyped = retyped]]
          BY <2>5, <4>1, Zenon DEF PatchRow
        <4> QED
          BY <4>2, <4>3
      <3>2. ListsSee(row, b)
        BY <2>1, <3>1 DEF BlocoRow
      <3> QED
        BY <2>2, <2>3, <3>1, <3>2
    <2>6. CASE UpdateCanvas(r)
      <3>1. PICK b, row : /\ blocos' = [blocos EXCEPT ![b] = row]
                          /\ row = [blocos[b] EXCEPT !.edition = r]
        BY <2>6 DEF UpdateCanvas
      <3>2. ListsSee(row, b)
        BY <2>1, <3>1 DEF BlocoRow
      <3> QED
        BY <2>3, <3>1, <3>2
    <2> QED
      BY <2>4, <2>5, <2>6
  <1>2. cache' = cache /\ MaybeFault
    BY DEF UpdatePosition, PatchRow, UpdateCanvas, caches, MaybeFault
  <1>3. call[r].pc \notin {"idle", "done", "uncacheBlocos"}
    BY DEF UpdatePosition, PatchRow, UpdateCanvas, At
  <1>4. GoesElsewhere(r)
    BY DEF UpdatePosition, PatchRow, UpdateCanvas, GoesElsewhere, Elsewhere
  <1> QED
    BY <1>1, <1>2, <1>3, <1>4, ListsElsewhere

(* A creation and a deletion uncache next.                                 *)
LEMMA UncachedNext ==
  ASSUME BlocoInv, ListInv, NEW r \in Requests, SaveBloco(r) \/ DeleteBloco(r)
  PROVE  ListInv'
  <1>1. r \in InFlight /\ HandlersOK /\ call[r].pc \notin {"uncacheBlocos", "done"}
    BY DEF SaveBloco, DeleteBloco, InFlight, At, BlocoInv
  <1>2. Goto(r, "uncacheBlocos") /\ cache' = cache /\ MaybeFault
    BY DEF SaveBloco, DeleteBloco, caches, MaybeFault
  <1>3. OnlyMoves(r) /\ alone' = alone /\ call'[r].pc = "uncacheBlocos"
    BY <1>1, <1>2, GotoIs DEF GoesTo, GoesAs
  <1>4. CurrentRead(r)' /\ LiveRead(call[r])'
    BY <1>3 DEF CurrentRead, LiveRead
  <1> QED
    BY <1>1, <1>2, <1>3, <1>4, ListsMove

(* A new parent, and a canvas made on demand, are excused.                 *)
LEMMA ExcusedNext ==
  ASSUME BlocoInv, ListInv, NEW r \in Requests, NEW b,
         \E status : Reply(r, status),
         call[r].pc \notin {"idle", "done", "uncacheBlocos"}, UNCHANGED caches,
         moved \subseteq moved',
         \A c \in BlocoIds \ {b} : blocos'[c] = blocos[c],
         b \in BlocoIds => /\ blocos[b].onDemand => blocos'[b].onDemand
                           /\ \/ blocos'[b].onDemand
                              \/ /\ b \in LiveBlocos <=> b \in LiveBlocos'
                                 /\ b \in moved' \/ blocos'[b].parent = blocos[b].parent
  PROVE  ListInv'
  <1>1. r \in InFlight /\ HandlersOK
    BY DEF InFlight, At, BlocoInv
  <1>2. OnlyMoves(r) /\ alone' = alone /\ call'[r].pc = "done"
    BY <1>1, ReplyIs
  <1>3. CurrentRead(r)' /\ LiveRead(call[r])'
    BY <1>2 DEF CurrentRead, LiveRead
  <1>4. ExcusesStay
    BY DEF ExcusesStay
  <1>5. ASSUME NEW parent
        PROVE  Differ(ListOf(parent), ListOf(parent)') \subseteq Excused(parent)'
    <2>1. \A c \in BlocoIds \ {b} : c \in ListOf(parent) <=> c \in ListOf(parent)'
      BY DEF ListOf, LiveBlocos
    <2>2. b \in BlocoIds => \/ b \in Excused(parent)'
                            \/ b \in ListOf(parent) <=> b \in ListOf(parent)'
      BY DEF ListOf, Excused
    <2> QED
      BY <2>1, <2>2, ListsAreOfBlocos DEF Differ, ListOf, LiveBlocos
  <1>6. cache' = cache /\ MaybeFault
    BY DEF caches, MaybeFault
  <1> QED
    BY <1>1, <1>2, <1>3, <1>4, <1>5, <1>6, ListsMove

LEMMA MovedLists ==
  ASSUME BlocoInv, ListInv, NEW r \in Requests,
         UpdateBloco(r) \/ MoveToParent(r) \/ InsertCanvas(r)
  PROVE  ListInv'
  <1>1. /\ \E status : Reply(r, status)
        /\ call[r].pc \notin {"idle", "done", "uncacheBlocos"}
        /\ UNCHANGED caches /\ moved \subseteq moved'
    BY DEF UpdateBloco, MoveToParent, InsertCanvas, At
  <1>2. blocos \in [BlocoIds -> BlocoRow]
    BY DEF BlocoInv, RowsTyped
  <1>3. CASE UpdateBloco(r)
    <2>1. call[r].pc = "updateBloco" /\ LiveRead(call[r]) /\ BlocoRead(call[r])
      BY <1>3 DEF UpdateBloco, At, ListInv, BlocoInv, Consistent
    <2>2. PICK b : b = call[r].id
      OBVIOUS
    <2>3. /\ b \in BlocoIds /\ call[r].read \in BlocoRow
          /\ call[r].read.exists /\ ~ call[r].read.deleted
          /\ call[r].read.onDemand = blocos[b].onDemand
      BY <2>1, <2>2 DEF BlocoRead, LiveRead
    <2>4. \A c \in BlocoIds \ {b} : blocos'[c] = blocos[c]
      BY <1>2, <1>3, <2>2 DEF UpdateBloco
    <2>5. CASE b \notin LiveBlocos
      BY <1>1, <1>3, <2>2, <2>4, <2>5, ExcusedNext DEF UpdateBloco, LiveBlocos
    <2>6. CASE b \in LiveBlocos
      <3>1. /\ blocos'[b].exists /\ ~ blocos'[b].deleted
            /\ blocos'[b].onDemand = blocos[b].onDemand
            /\ blocos'[b].parent = call[r].read.parent
        BY <1>2, <1>3, <2>2, <2>3, <2>6 DEF UpdateBloco, BlocoRow
      <3>2. b \in LiveBlocos'
        BY <2>3, <3>1 DEF LiveBlocos
      <3>3. b \in moved' \/ blocos'[b].parent = blocos[b].parent
        BY <1>3, <2>2, <3>1 DEF UpdateBloco
      <3> QED
        BY <1>1, <2>4, <2>6, <3>1, <3>2, <3>3, ExcusedNext
    <2> QED
      BY <2>5, <2>6
  <1>4. CASE MoveToParent(r)
    <2>1. PICK b : b = call[r].id
      OBVIOUS
    <2>2. /\ b \in moved' /\ \A c \in BlocoIds \ {b} : blocos'[c] = blocos[c]
          /\ b \in BlocoIds => /\ blocos'[b].onDemand = blocos[b].onDemand
                               /\ blocos'[b].exists = blocos[b].exists
                               /\ blocos'[b].deleted = blocos[b].deleted
      BY <1>2, <1>4, <2>1 DEF MoveToParent, BlocoRow
    <2>3. b \in LiveBlocos <=> b \in LiveBlocos'
      BY <2>2 DEF LiveBlocos
    <2> QED
      BY <1>1, <2>2, <2>3, ExcusedNext
  <1>5. CASE InsertCanvas(r)
    <2>1. /\ \A c \in BlocoIds \ {r} : blocos'[c] = blocos[c]
          /\ r \in BlocoIds /\ blocos'[r].onDemand
      BY <1>2, <1>5, IdsFacts DEF InsertCanvas, OnDemand, OfTipo, AbsentBloco
    <2> QED
      BY <1>1, <2>1, ExcusedNext
  <1> QED
    BY <1>3, <1>4, <1>5

(* What a reader is about to fill the cache with, and an update to write.  *)
LEMMA ReadLists ==
  ASSUME BlocoInv, ListInv, NEW r \in Requests, FindBlocos(r) \/ FindBloco(r)
  PROVE  ListInv'
  <1>1. r \in InFlight /\ HandlersOK /\ call[r].pc \notin {"idle", "done", "uncacheBlocos"}
    BY DEF FindBlocos, FindBloco, InFlight, At, BlocoInv
  <1>2. ListColumnsStay /\ cache' = cache /\ MaybeFault
    BY BlocosStay DEF FindBlocos, FindBloco, OnlyReads, caches, MaybeFault
  <1>3. CASE GoesElsewhere(r)
    BY <1>1, <1>2, <1>3, ListsElsewhere
  <1>4. CASE FindBlocos(r)
    <2>1. /\ OnlyMoves(r) /\ alone' = alone /\ call'[r].pc = "cacheBlocos"
          /\ call'[r].arg = call[r].arg /\ call'[r].read = ListOf(call[r].arg)
      BY <1>1, <1>4, KeepIs DEF FindBlocos, GoesTo, GoesAs
    <2>2. blocos' = blocos
      BY <1>4 DEF FindBlocos, OnlyReads, bloco_rows
    <2>3. CurrentRead(r)' /\ LiveRead(call[r])'
      BY <2>1, <2>2 DEF CurrentRead, LiveRead, ListOf, LiveBlocos
    <2> QED
      BY <1>1, <1>2, <2>1, <2>3, ListsRead
  <1>5. CASE FindBloco(r) /\ ~ GoesElsewhere(r)
    <2>1. PICK b : b = call[r].id
      OBVIOUS
    <2>2. /\ b \in LiveBlocos
          /\ Keep(r, Updated(blocos[b], call[r].arg, r), "updateBloco")
      BY <1>5, <2>1 DEF FindBloco, GoesElsewhere
    <2>3. /\ OnlyMoves(r) /\ alone' = alone /\ call'[r].pc = "updateBloco"
          /\ call'[r].read = Updated(blocos[b], call[r].arg, r)
      BY <1>1, <2>2, KeepIs DEF GoesTo, GoesAs
    <2>4. ~ Updated(blocos[b], call[r].arg, r).deleted
      BY <2>2 DEF Updated, LiveBlocos, BlocoInv, RowsTyped, BlocoRow
    <2>5. CurrentRead(r)' /\ LiveRead(call[r])'
      BY <2>3, <2>4 DEF CurrentRead, LiveRead
    <2> QED
      BY <1>1, <1>2, <2>3, <2>5, ListsRead
  <1> QED
    BY <1>3, <1>4, <1>5

(* deleteCacheByPrefix leaves no list of blocos, or Redis has failed.      *)
LEMMA UncacheLists ==
  ASSUME BlocoInv, ListInv, NEW r \in Requests, UncacheBlocos(r)
  PROVE  ListInv'
  <1>1. r \in InFlight /\ HandlersOK
    BY DEF UncacheBlocos, InFlight, At, BlocoInv
  <1>2. OnlyMoves(r) /\ alone' = alone /\ call'[r].pc = "done"
    BY <1>1, ReplyIs DEF UncacheBlocos
  <1>3. CurrentRead(r)' /\ LiveRead(call[r])'
    BY <1>2 DEF CurrentRead, LiveRead
  <1>4. ListColumnsStay
    BY BlocosStay DEF UncacheBlocos
  <1>5. /\ ExcusesStay
        /\ \A parent \in {All, First} :
               Differ(ListOf(parent), ListOf(parent)') \subseteq Excused(parent)'
    BY <1>4, NoListChanges
  <1>6. cache' \subseteq cache /\ MaybeFault
    BY DEF UncacheBlocos, DeleteCache, RedisError, MaybeFault
  <1>7. \/ faults' > 0
        \/ \A e \in cache', parent \in {All, First} : e.key # blocosByNucleo(parent)
    BY IdsFacts DEF UncacheBlocos, DeleteCache, RedisError, ListInv
  <1> QED
    BY <1>1, <1>2, <1>3, <1>5, <1>6, <1>7, ListsMove

(* setCache, of either list.                                               *)
LEMMA FillLists ==
  ASSUME BlocoInv, ListInv, NEW r \in Requests, CacheBlocos(r)
  PROVE  ListInv'
  <1>1. r \in InFlight /\ HandlersOK /\ call[r].pc = "cacheBlocos"
    BY DEF CacheBlocos, InFlight, At, BlocoInv
  <1>2. OnlyMoves(r) /\ alone' = alone /\ call'[r].pc = "done"
    BY <1>1, ReplyIs DEF CacheBlocos, SetCache
  <1>3. ListColumnsStay
    BY BlocosStay DEF CacheBlocos
  <1>4. CASE RedisError
    <2>1. cache' \subseteq cache /\ MaybeFault
      BY <1>4 DEF RedisError, MaybeFault
    <2>2. CurrentRead(r)' /\ LiveRead(call[r])'
      BY <1>2 DEF CurrentRead, LiveRead
    <2> QED
      BY <1>1, <1>2, <1>3, <2>1, <2>2, ListsRead
  <1>5. CASE ~ RedisError
    <2>1. PICK key, rows, new :
             /\ key = blocosByNucleo(call[r].arg) /\ rows = call[r].read
             /\ new = [key |-> key, rows |-> rows, reader |-> r]
      OBVIOUS
    <2>2. cache' = (cache \ Entries(key)) \cup {new} /\ faults' = faults
      BY <1>5, <2>1 DEF CacheBlocos, SetCache
    <2>3. new.key = key /\ new.rows = rows /\ new.reader = r
      BY <2>1
    <2>4. rows \subseteq BlocoIds /\ (r \in alone => rows = ListOf(call[r].arg))
      BY <1>1, <2>1 DEF ListInv, ReadsAreCurrent, CurrentRead
    <2>5. EntriesAreFilled'
      <3>1. \A e \in cache' : e \in cache \/ e = new
        BY <2>2
      <3>2. r \in Requests /\ ~ At(r, "idle")'
        BY <1>2 DEF At
      <3> QED
        BY <1>1, <1>2, <2>3, <2>4, <3>1, <3>2
           DEF ListInv, EntriesAreFilled, OnlyMoves, At, blocosByNucleo, All
    <2>6. /\ \A parent : ListOf(parent)' = ListOf(parent)
          /\ \A parent : Excused(parent)' = Excused(parent)
      BY <1>3 DEF ListColumnsStay, ListOf, LiveBlocos, Excused
    <2>7. Uncaching => Uncaching'
      BY <1>1, <1>2 DEF Uncaching, InFlight, At, OnlyMoves
    <2>8. ListsHaveCauses'
      <3> SUFFICES ASSUME NEW e \in cache', NEW parent \in {All, First},
                          e.key = blocosByNucleo(parent)
                   PROVE  HasCause(e, parent)'
        BY DEF ListsHaveCauses, blocosByNucleo, All
      <3>1. CASE e = new
        <4>1. parent = call[r].arg
          BY <2>1, <2>3, <3>1 DEF blocosByNucleo
        <4>2. r \in alone => Differ(e.rows, ListOf(parent)) = {}
          BY <2>3, <2>4, <3>1, <4>1 DEF Differ
        <4> QED
          BY <1>2, <2>3, <2>6, <3>1, <4>2 DEF HasCause
      <3>2. CASE e \in cache
        <4>1. HasCause(e, parent)
          BY <3>2 DEF ListInv, ListsHaveCauses
        <4> QED
          BY <1>2, <2>2, <2>6, <2>7, <4>1 DEF HasCause
      <3> QED
        BY <2>2, <3>1, <3>2
    <2>9. ReadsAreCurrent' /\ \A q \in Requests : LiveRead(call[q])'
      BY <1>2, <2>6 DEF ListInv, ReadsAreCurrent, CurrentRead, LiveRead, OnlyMoves
    <2> QED
      BY <2>2, <2>5, <2>8, <2>9 DEF ListInv
  <1> QED
    BY <1>4, <1>5

(* The list of núcleos has a key of its own.                               *)
LEMMA FillNucleos ==
  ASSUME BlocoInv, ListInv, NEW r \in Requests, CacheNucleos(r), UNCHANGED bloco_rows
  PROVE  ListInv'
  <1>1. r \in InFlight /\ HandlersOK /\ call[r].pc = "cacheNucleos"
    BY DEF CacheNucleos, InFlight, At, BlocoInv
  <1>2. OnlyMoves(r) /\ alone' = alone /\ call'[r].pc = "done"
    BY <1>1, ReplyIs DEF CacheNucleos, SetCache
  <1>3. ListColumnsStay
    BY BlocosStay
  <1>4. PICK new : new = [key |-> nucleosByUser, rows |-> call[r].read, reader |-> r]
    OBVIOUS
  <1>5. new.reader = r /\ \A parent : new.key # blocosByNucleo(parent)
    BY <1>4 DEF nucleosByUser, blocosByNucleo
  <1>6. \A e \in cache' : e \in cache \/ e = new
    BY <1>4 DEF CacheNucleos, SetCache, RedisError
  <1>7. faults' \in Nat /\ (faults > 0 => faults' > 0)
    BY DEF CacheNucleos, SetCache, RedisError, ListInv
  <1>8. EntriesAreFilled'
    BY <1>2, <1>5, <1>6 DEF ListInv, EntriesAreFilled, OnlyMoves, At, blocosByNucleo, All
  <1>9. /\ \A parent : ListOf(parent)' = ListOf(parent)
        /\ \A parent : Excused(parent)' = Excused(parent)
    BY <1>3 DEF ListColumnsStay, ListOf, LiveBlocos, Excused
  <1>10. Uncaching => Uncaching'
    BY <1>1, <1>2 DEF Uncaching, InFlight, At, OnlyMoves
  <1>11. ListsHaveCauses'
    <2> SUFFICES ASSUME NEW e \in cache', NEW parent \in {All, First},
                        e.key = blocosByNucleo(parent)
                 PROVE  HasCause(e, parent)'
      BY DEF ListsHaveCauses, blocosByNucleo, All
    <2>1. HasCause(e, parent)
      BY <1>5, <1>6 DEF ListInv, ListsHaveCauses
    <2> QED
      BY <1>2, <1>7, <1>9, <1>10, <2>1 DEF HasCause
  <1>12. ReadsAreCurrent' /\ \A q \in Requests : LiveRead(call[q])'
    BY <1>2, <1>9 DEF ListInv, ReadsAreCurrent, CurrentRead, LiveRead, OnlyMoves
  <1> QED
    BY <1>7, <1>8, <1>11, <1>12 DEF ListInv

LEMMA ArrivalLists ==
  ASSUME BlocoInv, ListInv, NEW r \in Requests,
         BlocosArrival(r) \/ (NucleosArrival(r) /\ UNCHANGED bloco_rows)
  PROVE  ListInv'
  <1>1. ListColumnsStay /\ UNCHANGED caches
    BY BlocosStay
       DEF BlocosArrival, GetByNucleo, GetById, Create, Update, Delete, Reorder, Move,
           PatchContent, GetCanvasByNucleo, SaveCanvasContent, OnlyReads, NucleosArrival,
           ListNucleos, GetNucleo, CreateNucleo, UpdateNucleo, DeleteNucleo
  <1>2. \/ \E op, status : Refuse(r, op, status)
        \/ \E label \in {"getBlocos", "checkNucleo", "findBloco", "checkBoth", "move",
                         "patchContent", "findCanvas", "getNucleos", "findNucleo", "findIcon"} :
              \E op, id, arg : Arrive(r, label, op, id, arg)
    <2>1. CASE BlocosArrival(r)
      BY <2>1 DEF BlocosArrival, GetByNucleo, GetById, Create, Update, Delete, Reorder, Move,
                  PatchContent, GetCanvasByNucleo, SaveCanvasContent, Unauthenticated
    <2>2. CASE NucleosArrival(r)
      BY <2>2 DEF NucleosArrival, ListNucleos, GetNucleo, CreateNucleo, UpdateNucleo,
                  DeleteNucleo
    <2> QED
      BY <2>1, <2>2
  <1>3. HandlersOK /\ Solo
    BY DEF BlocoInv
  <1>4. CASE \E op, status : Refuse(r, op, status)
    <2>1. OnlyMoves(r) /\ call[r].pc = "idle" /\ call'[r].pc = "done" /\ alone' = alone
      BY <1>3, <1>4, RefuseIs DEF Refuse, At
    <2> QED
      BY <1>1, <2>1, ListsArrive
  <1>5. CASE \E label \in {"getBlocos", "checkNucleo", "findBloco", "checkBoth", "move",
                           "patchContent", "findCanvas", "getNucleos", "findNucleo", "findIcon"} :
                \E op, id, arg : Arrive(r, label, op, id, arg)
    <2>1. /\ OnlyMoves(r) /\ call[r].pc = "idle" /\ alone' \subseteq alone \cup {r}
          /\ call'[r].pc \notin {"idle", "cacheBlocos", "updateBloco"}
      BY <1>3, <1>5, ArriveIs DEF GoesAs
    <2> QED
      BY <1>1, <2>1, ListsArrive
  <1> QED
    BY <1>2, <1>4, <1>5

(* An entry expires, or nothing happens.                                   *)
LEMMA ExpiryLists ==
  ASSUME ListInv, Expiry \/ UNCHANGED vars
  PROVE  ListInv'
  <1>1. /\ cache' \subseteq cache /\ faults' = faults /\ call' = call /\ alone' = alone
        /\ blocos' = blocos /\ moved' = moved
    BY DEF Expiry, Expire, vars, handlers, caches, bloco_rows
  <1>2. \A parent : ListOf(parent)' = ListOf(parent) /\ Excused(parent)' = Excused(parent)
    BY <1>1 DEF ListOf, LiveBlocos, Excused
  <1>3. Uncaching' = Uncaching
    BY <1>1 DEF Uncaching, InFlight, At
  <1>4. ListsHaveCauses'
    BY <1>1, <1>2, <1>3 DEF ListInv, ListsHaveCauses, HasCause, blocosByNucleo, All
  <1> QED
    BY <1>1, <1>2, <1>4
       DEF ListInv, EntriesAreFilled, At, ReadsAreCurrent, CurrentRead, LiveRead,
           blocosByNucleo, All

LEMMA ListStepOK ==
  ASSUME BlocoInv, ListInv, [Next]_vars
  PROVE  ListInv'
  <1>1. CASE \E r \in Requests : BlocosStep(r)
    BY <1>1, BlocosReadLists, ColumnLists, UncachedNext, MovedLists, ReadLists, UncacheLists,
       FillLists
       DEF BlocosStep
  <1>2. CASE \E r \in Requests : NucleosStep(r) /\ UNCHANGED bloco_rows
    BY <1>2, NucleosLists, FillNucleos DEF NucleosStep
  <1>3. CASE \E r \in Requests : Fail(r)
    BY <1>3, BlocosReadLists
  <1>4. CASE \E r \in Requests : \/ BlocosArrival(r)
                                 \/ NucleosArrival(r) /\ UNCHANGED bloco_rows
    BY <1>4, ArrivalLists
  <1>5. CASE Expiry \/ UNCHANGED vars
    BY <1>5, ExpiryLists
  <1> QED
    BY <1>1, <1>2, <1>3, <1>4, <1>5 DEF Next, Quiet

LEMMA CausesAreNamed ==
  ASSUME ListInv
  PROVE  ListsHaveTheirBlocos
  <1> SUFFICES ASSUME NEW e \in cache, NEW parent \in {All, First},
                      e.key = blocosByNucleo(parent)
               PROVE  LET wrong == (e.rows \ ListOf(parent)) \cup (ListOf(parent) \ e.rows)
                          excused == {b \in wrong : blocos[b].onDemand}
                                        \cup (IF parent = All THEN {} ELSE moved)
                      IN  \/ wrong \subseteq excused
                          \/ \E r \in InFlight : At(r, "uncacheBlocos")
                          \/ faults > 0
                          \/ e.reader \notin alone
    BY DEF ListsHaveTheirBlocos
  <1>1. HasCause(e, parent)
    BY DEF ListInv, ListsHaveCauses
  <1> QED
    BY <1>1 DEF HasCause, Differ, Excused, Uncaching

-----------------------------------------------------------------------------
(* The theorems                                                            *)

LEMMA StillRows ==
  ASSUME RowsStay
  PROVE  BlocosStayDeleted /\ NucleosStayDeleted
  BY DEF RowsStay, BlocosStayDeleted, NucleosStayDeleted

LEMMA BlocosStepOK ==
  ASSUME BlocoInv, NEW r \in Requests, BlocosStep(r)
  PROVE  BlocoInv' /\ BlocosStayDeleted /\ NucleosStayDeleted
  <1>1. CASE \/ SaveBloco(r) \/ InsertCanvas(r) \/ UpdateBloco(r) \/ DeleteBloco(r)
             \/ UpdatePosition(r) \/ MoveToParent(r) \/ UpdateCanvas(r) \/ PatchRow(r)
    <2>1. nucleos' = nucleos
      BY <1>1 DEF SaveBloco, InsertCanvas, UpdateBloco, DeleteBloco, UpdatePosition,
                  MoveToParent, UpdateCanvas, PatchRow
    <2>2. NucleosStayDeleted
      BY <2>1 DEF NucleosStayDeleted
    <2> QED
      BY <1>1, <2>2, SaveBlocoOK, InsertCanvasOK, UpdateBlocoOK, DeleteBlocoOK,
         UpdatePositionOK, MoveToParentOK, UpdateCanvasOK, PatchRowOK
  <1>2. CASE \/ CheckNucleo(r) \/ FindParent(r) \/ FindBloco(r) \/ CheckBoth(r) \/ FindCanvas(r)
             \/ GetBlocos(r) \/ FindBlocos(r) \/ CacheBlocos(r) \/ UncacheBlocos(r)
    <2>1. RowsStay
      BY <1>2 DEF RowsStay, bloco_rows, OnlyReads, CheckNucleo, FindParent, FindBloco, CheckBoth,
                  FindCanvas, GetBlocos, FindBlocos, CacheBlocos, UncacheBlocos
    <2>2. BlocoInv'
      BY <1>2, CheckNucleoOK, FindParentOK, FindBlocoOK, CheckBothOK, FindCanvasOK, ListBlocosOK
    <2> QED
      BY <2>1, <2>2, StillRows
  <1> QED
    BY <1>1, <1>2 DEF BlocosStep

LEMMA NucleosStepOK ==
  ASSUME BlocoInv, NEW r \in Requests, NucleosStep(r), UNCHANGED bloco_rows
  PROVE  BlocoInv' /\ BlocosStayDeleted /\ NucleosStayDeleted
  <1>0. BlocosStayDeleted
    BY DEF bloco_rows, BlocosStayDeleted
  <1>1. CASE SaveNucleo(r) \/ WriteNucleo(r) \/ SoftDeleteNucleo(r)
    BY <1>0, <1>1, SaveNucleoOK, WriteNucleoOK, SoftDeleteNucleoOK
  <1>2. CASE \/ FindIcon(r) \/ FindNucleo(r) \/ GetNucleos(r) \/ FindNucleos(r)
             \/ CacheNucleos(r) \/ UncacheNucleos(r) \/ NotifyNucleo(r)
    <2>1. RowsStay
      BY <1>2 DEF RowsStay, bloco_rows, FindIcon, FindNucleo, GetNucleos, FindNucleos,
                  CacheNucleos, UncacheNucleos, NotifyNucleo
    <2>2. BlocoInv'
      BY <1>2, FindIconOK, FindNucleoOK, ListNucleosOK
    <2> QED
      BY <2>1, <2>2, StillRows
  <1> QED
    BY <1>1, <1>2 DEF NucleosStep

(* Arrivals, failures, the expiry of an entry and steps of nothing leave   *)
(* the rows alone.                                                         *)
LEMMA OtherStepsOK ==
  ASSUME BlocoInv,
         \/ \E r \in Requests : \/ BlocosArrival(r) \/ Fail(r)
                                \/ NucleosArrival(r) /\ UNCHANGED bloco_rows
         \/ Expiry
         \/ UNCHANGED vars
  PROVE  BlocoInv' /\ BlocosStayDeleted /\ NucleosStayDeleted
  <1>1. CASE \E r \in Requests : BlocosArrival(r)
    <2>1. RowsStay
      BY <1>1 DEF RowsStay, OnlyReads, bloco_rows, BlocosArrival, GetByNucleo, GetById, Create,
                  Update, Delete, Reorder, Move, PatchContent, GetCanvasByNucleo,
                  SaveCanvasContent
    <2> QED
      BY <1>1, <2>1, StillRows, BlocosArrivalOK
  <1>2. CASE \E r \in Requests : NucleosArrival(r) /\ UNCHANGED bloco_rows
    <2>1. RowsStay
      BY <1>2 DEF RowsStay, bloco_rows, NucleosArrival, ListNucleos, GetNucleo, CreateNucleo,
                  UpdateNucleo, DeleteNucleo
    <2> QED
      BY <1>2, <2>1, StillRows, NucleosArrivalOK
  <1>3. CASE \E r \in Requests : Fail(r)
    <2>1. RowsStay
      BY <1>3 DEF Fail, OnlyReads, bloco_rows, RowsStay
    <2> QED
      BY <1>3, <2>1, StillRows, FailOK
  <1>4. CASE Expiry \/ UNCHANGED vars
    <2>1. RowsStay /\ UNCHANGED handlers
      BY <1>4 DEF Expiry, Expire, vars, handlers, bloco_rows, RowsStay
    <2>2. call' = call /\ answer' = answer /\ alone' = alone
      BY <2>1 DEF handlers
    <2>3. HandlersOK' /\ Solo'
      BY <2>2 DEF BlocoInv, HandlersOK, Solo, InFlight, At
    <2>4. RowsTyped' /\ RowsAreThere' /\ ContentKept' /\ OneCanvas'
      BY <2>1, <2>2 DEF RowsStay, BlocoInv, RowsTyped, RowsAreThere, ContentKept, OneCanvas,
                        Overlapped, At, StillOnDemand, Canvases, LiveBlocos
    <2>5. ASSUME NEW r \in Requests
          PROVE  Consistent(r, call[r])'
      <3>1. Consistent(r, call[r])
        BY DEF BlocoInv
      <3> QED
        BY <2>1, <2>2, <3>1
           DEF RowsStay, StillOnDemand, Canvases, LiveBlocos, Overlapped, At, Consistent,
               Operation, NotYetThere, NewIsEmpty, BlocoRead, CanvasMissing, NucleoRead
    <2>6. BlocoInv'
      BY <2>3, <2>4, <2>5 DEF BlocoInv
    <2> QED
      BY <2>1, <2>6, StillRows
  <1> QED
    BY <1>1, <1>2, <1>3, <1>4

LEMMA StepOK ==
  ASSUME BlocoInv, [Next]_vars
  PROVE  BlocoInv' /\ BlocosStayDeleted /\ NucleosStayDeleted
  <1>1. CASE \E r \in Requests : BlocosStep(r)
    BY <1>1, BlocosStepOK
  <1>2. CASE \E r \in Requests : NucleosStep(r) /\ UNCHANGED bloco_rows
    BY <1>2, NucleosStepOK
  <1>3. CASE \/ \E r \in Requests : \/ BlocosArrival(r) \/ Fail(r)
                                    \/ NucleosArrival(r) /\ UNCHANGED bloco_rows
             \/ Expiry
             \/ UNCHANGED vars
    BY <1>3, OtherStepsOK
  <1> QED
    BY <1>1, <1>2, <1>3 DEF Next, Quiet

THEOREM BlocoInvHolds == Spec => []BlocoInv
  <1>1. Init => BlocoInv
    BY InitBlocos
  <1>2. BlocoInv /\ [Next]_vars => BlocoInv'
    BY StepOK
  <1> QED
    BY <1>1, <1>2, PTL DEF Spec

(* No update, reorder or move that writes back what it has read before     *)
(* undoes what a patchContent has set in between.                          *)
THEOREM ContentIsKept == Spec => []ContentKept
  <1>1. BlocoInv => ContentKept
    BY DEF BlocoInv
  <1> QED
    BY <1>1, BlocoInvHolds, PTL

(* Two canvases of a núcleo are made on demand only by requests that       *)
(* overlapped, or after one of them was given another tipo: an update, a   *)
(* move or a content that is saved in between makes no second one.         *)
THEOREM CanvasIsOne == Spec => []OneCanvas
  <1>1. BlocoInv => OneCanvas
    BY DEF BlocoInv
  <1> QED
    BY <1>1, BlocoInvHolds, PTL

(* No deleted bloco comes back, and a deleted núcleo only by an update     *)
(* that another request overlapped.                                        *)
THEOREM NothingResurrected == Spec => NoResurrection
  <1>1. BlocoInv /\ [Next]_vars =>
           [/\ \A b \in BlocoIds : blocos[b].deleted => blocos'[b].deleted
            /\ \A n \in NucleoIds : (nucleos[n].deleted /\ ~ nucleos'[n].deleted)
                  => \E r \in Overlapped : call[r].op = "updateNucleo" /\ call[r].id = n]_vars
    BY StepOK DEF BlocosStayDeleted, NucleosStayDeleted
  <1> QED
    BY <1>1, BlocoInvHolds, PTL DEF Spec, NoResurrection

(* A cached list lacks or has a bloco wrongly only for one of the causes,  *)
(* however the writers and the readers of the list interleave.             *)
THEOREM ListsAreExplained == Spec => []ListsHaveTheirBlocos
  <1>1. Init => ListInv
    BY InitLists
  <1>2. BlocoInv /\ ListInv /\ [Next]_vars => ListInv'
    BY ListStepOK
  <1>3. ListInv => ListsHaveTheirBlocos
    BY CausesAreNamed
  <1> QED
    BY <1>1, <1>2, <1>3, BlocoInvHolds, PTL DEF Spec

=============================================================================
