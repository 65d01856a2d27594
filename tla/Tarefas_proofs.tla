---------------------------- MODULE Tarefas_proofs ----------------------------
(***************************************************************************)
(* What holds of the tarefas of a bloco and of the cached list, for any    *)
(* number of requests, updates, failures and crashes, and any degree of    *)
(* concurrency.                                                            *)
(***************************************************************************)
EXTENDS Tarefas, FiniteSetTheorems, TLAPS

-----------------------------------------------------------------------------
(* The greatest of finitely many naturals                                  *)

(* There is one: a member with nothing above it.                           *)
LEMMA GreatestExists ==
  ASSUME NEW S, S \subseteq Nat, IsFiniteSet(S), S # {}
  PROVE  \E m \in S : \A n \in S : m >= n
  <1> DEFINE Above(m) == {n \in S : n > m}
             Uppers == {Above(m) : m \in S}
  <1>1. Uppers \subseteq FiniteSubsetsOf(S) /\ Uppers # {}
    <2>1. \A m \in S : Above(m) \in SUBSET S /\ IsFiniteSet(Above(m))
      BY FS_Subset
    <2> QED
      BY <2>1 DEF FiniteSubsetsOf
  <1>2. PICK U \in Uppers : \A V \in Uppers : <<V, U>> \notin StrictSubsetOrdering(S)
    <2> HIDE DEF Uppers
    <2> QED
      BY <1>1, FS_StrictSubsetOrderingWellFounded, WFMin
  <1>3. PICK m \in S : U = Above(m)
    OBVIOUS
  <1>4. ASSUME NEW n \in S, n > m
        PROVE  FALSE
    <2>1. m \in Nat /\ n \in Nat
      OBVIOUS
    <2>2. \A k \in Above(n) : k \in Above(m)
      BY <1>4, <2>1
    <2>3. n \in Above(m) /\ n \notin Above(n)
      BY <1>4, <2>1
    <2>4. Above(n) \in Uppers
      OBVIOUS
    <2>5. <<Above(n), Above(m)>> \in StrictSubsetOrdering(S)
      <3> HIDE DEF Above
      <3> QED
        BY <2>2, <2>3, <2>4, <1>1, <1>3 DEF StrictSubsetOrdering, FiniteSubsetsOf
    <2> QED
      BY <1>2, <1>3, <2>4, <2>5
  <1> QED
    BY <1>4

LEMMA MaxIsGreatest ==
  ASSUME NEW S, S \subseteq Nat, IsFiniteSet(S), S # {}
  PROVE  Max(S) \in S /\ \A n \in S : Max(S) >= n
  BY GreatestExists DEF Max

-----------------------------------------------------------------------------
(* Types                                                                   *)

Snapshots == UNION {[D -> Row] : D \in SUBSET Ids}
Lists == {NoList} \cup [rows : Snapshots, reader : Requests]

Locals == [pc : Running \cup {"idle", "done"}, op : Operations, id : Ids, tarefa : Row,
           update : Updates \cup {Idle.update}, list : Lists]

(* TypeOK, and what the body of the request asks for.                      *)
TypeInv ==
    /\ tarefas \in [Ids -> Row]
    /\ call \in [Requests -> Locals]
    /\ redisAvailable \in BOOLEAN
    /\ redis \in Lists /\ memory \in Lists
    /\ failures \in 0 .. MaxFailures /\ faults \in 0 .. MaxFaults
    /\ alone \subseteq Requests /\ redundant \subseteq Requests

LEMMA SnapshotIsEntry ==
  ASSUME NEW e \in Lists
  PROVE  IsEntry(e)
  BY DEF Lists, Snapshots, IsEntry

LEMMA ListIsSnapshot ==
  ASSUME tarefas \in [Ids -> Row]
  PROVE  List \in Snapshots
  <1>1. Live \in SUBSET Ids
    BY DEF Live
  <1>2. List \in [Live -> Row]
    BY <1>1 DEF List
  <1> QED
    BY <1>1, <1>2 DEF Snapshots

LEMMA IdleOK == Idle \in Locals /\ [Idle EXCEPT !.pc = "done"] \in Locals
  <1>1. Absent \in Row
    BY DEF Absent, Row, StatusTarefa, Ids
  <1> QED
    BY <1>1 DEF Idle, Locals, Operations, Lists, Ids

(* The next position is past every live one.                               *)
LEMMA NextPositionIsPast ==
  ASSUME tarefas \in [Ids -> Row]
  PROVE  GetNextPosition \in Nat /\ \A id \in Live : GetNextPosition > tarefas[id].posicao
  <1> DEFINE positions == {tarefas[id].posicao : id \in Live}
  <1>1. Live \subseteq Ids /\ positions \subseteq Nat
    BY DEF Live, Row
  <1>2. IsFiniteSet(Ids)
    BY FS_AddElement, BoundsAssumption DEF Ids
  <1>3. IsFiniteSet(Live)
    BY <1>1, <1>2, FS_Subset
  <1>4. IsFiniteSet(positions)
    <2> DEFINE position == [id \in Live |-> tarefas[id].posicao]
    <2>1. position \in Surjection(Live, positions)
      BY DEF Surjection
    <2> QED
      BY <1>3, <2>1, FS_Surjection
  <1>5. CASE Live = {}
    BY <1>5 DEF GetNextPosition
  <1>6. CASE Live # {}
    <2>1. Max(positions) \in positions /\ \A n \in positions : Max(positions) >= n
      BY <1>1, <1>4, <1>6, MaxIsGreatest
    <2>2. GetNextPosition = Max(positions) + 1
      BY <1>6 DEF GetNextPosition
    <2>3. Max(positions) \in Nat
      BY <1>1, <2>1
    <2>4. \A id \in Live : tarefas[id].posicao \in Nat /\ Max(positions) >= tarefas[id].posicao
      BY <1>1, <2>1
    <2> HIDE DEF positions
    <2> QED
      BY <2>2, <2>3, <2>4
  <1> QED
    BY <1>5, <1>6

-----------------------------------------------------------------------------
(* The types are kept                                                      *)

LEMMA InitTyped == Init => TypeInv
  <1> SUFFICES ASSUME Init PROVE TypeInv
    OBVIOUS
  <1>1. tarefas \in [Ids -> Row]
    BY DEF Init, Absent, Row, StatusTarefa, Ids
  <1>2. call \in [Requests -> Locals]
    BY IdleOK DEF Init
  <1>3. redisAvailable \in BOOLEAN /\ redis \in Lists /\ memory \in Lists
    BY DEF Init, Lists
  <1>4. failures \in 0 .. MaxFailures /\ faults \in 0 .. MaxFaults
    BY BoundsAssumption DEF Init
  <1> QED
    BY <1>1, <1>2, <1>3, <1>4 DEF Init, TypeInv

LEMMA GotoTyped ==
  ASSUME call \in [Requests -> Locals], NEW r \in Requests, NEW c \in Locals,
         NEW label \in Running \cup {"idle", "done"}, Goto(r, c, label)
  PROVE  call' \in [Requests -> Locals]
  <1>1. [c EXCEPT !.pc = label] \in Locals
    BY DEF Locals
  <1> QED
    BY <1>1 DEF Goto

LEMMA FinishTyped ==
  ASSUME call \in [Requests -> Locals], NEW r \in Requests, Finish(r)
  PROVE  call' \in [Requests -> Locals]
  BY IdleOK DEF Finish

LEMMA BeginTyped ==
  ASSUME TypeInv, NEW r \in Requests, NEW op \in Operations, NEW id \in Ids,
         NEW update \in Updates \cup {Idle.update}, Begin(r, op, id, update)
  PROVE  TypeInv'
  <1>0. PICK c : c = [Idle EXCEPT !.op = op, !.id = id, !.update = update]
    OBVIOUS
  <1>1. c \in Locals
    BY <1>0, IdleOK DEF Idle, Locals
  <1>2. call' \in [Requests -> Locals]
    BY <1>0, <1>1, GotoTyped DEF Begin, TypeInv, Running
  <1> QED
    BY <1>2 DEF Begin, TypeInv, caches

LEMMA UpdatedTyped ==
  ASSUME NEW t \in Row, NEW update \in Updates \cup {Idle.update}, NEW r \in Requests
  PROVE  Updated(t, update, r) \in Row
  <1>1. update.status \in StatusTarefa \cup {Unchanged}
    BY BoundsAssumption DEF Idle, Unchanged
  <1> QED
    BY <1>1 DEF Updated, UpdateStatus, Row, Ids

(* The steps that only read.                                               *)
LEMMA ReadsTyped ==
  ASSUME TypeInv, OnlyReads, call' \in [Requests -> Locals]
  PROVE  TypeInv'
  BY DEF OnlyReads, TypeInv, caches

LEMMA StepTyped ==
  ASSUME TypeInv, NEW r \in Requests, Step(r)
  PROVE  TypeInv'
  <1> DEFINE c == call[r]
  <1>0. c \in Locals /\ call \in [Requests -> Locals]
    BY DEF TypeInv
  <1>1. CASE CheckBloco(r) \/ Dispatch(r) \/ Notify(r) \/ GetCache(r)
    BY <1>0, <1>1, GotoTyped, FinishTyped, ReadsTyped
       DEF CheckBloco, Dispatch, Notify, GetCache, Running
  <1>2. CASE NextPosition(r)
    <2>0. PICK d : d = [call[r] EXCEPT !.tarefa = [Absent EXCEPT !.exists = TRUE, !.edition = r,
                                                        !.posicao = GetNextPosition]]
      OBVIOUS
    <2>1. [Absent EXCEPT !.exists = TRUE, !.edition = r, !.posicao = GetNextPosition] \in Row
      BY NextPositionIsPast DEF TypeInv, Absent, Row, StatusTarefa, Ids
    <2>2. d \in Locals
      BY <1>0, <2>0, <2>1 DEF Locals
    <2> QED
      BY <1>0, <1>2, <2>0, <2>2, GotoTyped, ReadsTyped DEF NextPosition, Running
  <1>3. CASE Save(r)
    <2>1. tarefas' \in [Ids -> Row]
      BY <1>0, <1>3 DEF Save, TypeInv, Locals, Ids
    <2>2. call' \in [Requests -> Locals]
      BY <1>0, <1>3, GotoTyped DEF Save, Running
    <2> QED
      BY <1>3, <2>1, <2>2 DEF Save, TypeInv, caches
  <1>4. CASE Find(r)
    <2>1. CASE Finish(r)
      BY <1>0, <1>4, <2>1, FinishTyped, ReadsTyped DEF Find
    <2>2. CASE ~ Finish(r)
      <3>1. c.id \in Ids /\ c.update \in Updates \cup {Idle.update} /\ tarefas[c.id] \in Row
        BY <1>0 DEF Locals, TypeInv
      <3>2. PICK t \in Row, label \in {"update", "checkOwner"} :
               Goto(r, [c EXCEPT !.tarefa = t], label)
        BY <1>4, <2>2, <3>1, UpdatedTyped DEF Find
      <3>3. PICK d : d = [c EXCEPT !.tarefa = t]
        OBVIOUS
      <3>4. d \in Locals
        BY <1>0, <3>3 DEF Locals
      <3> QED
        BY <1>0, <1>4, <3>2, <3>3, <3>4, GotoTyped, ReadsTyped DEF Find, Running
    <2> QED
      BY <2>1, <2>2
  <1>5. CASE CheckOwner(r)
    <2>1. CASE Finish(r)
      BY <1>0, <1>5, <2>1, FinishTyped, ReadsTyped DEF CheckOwner
    <2>2. CASE Goto(r, c, "delete")
      BY <1>0, <1>5, <2>2, GotoTyped, ReadsTyped DEF CheckOwner, Running
    <2>3. CASE Goto(r, [c EXCEPT !.tarefa = Concluir(@)], "update")
      <3>1. PICK d : d = [c EXCEPT !.tarefa = Concluir(@)]
        OBVIOUS
      <3>2. d \in Locals
        BY <1>0, <3>1 DEF Locals, Concluir, Row, StatusTarefa
      <3> QED
        BY <1>0, <1>5, <2>3, <3>1, <3>2, GotoTyped, ReadsTyped DEF CheckOwner, Running
    <2> QED
      BY <1>5, <2>1, <2>2, <2>3 DEF CheckOwner
  <1>6. CASE Update(r)
    <2>1. tarefas' \in [Ids -> Row]
      BY <1>0, <1>6 DEF Update, TypeInv, Locals, Row
    <2>2. call' \in [Requests -> Locals]
      BY <1>0, <1>6, GotoTyped DEF Update, Running
    <2>3. redundant' \subseteq Requests
      BY <1>6 DEF Update, TypeInv
    <2> QED
      BY <1>6, <2>1, <2>2, <2>3 DEF Update, TypeInv, caches
  <1>7. CASE Delete(r)
    <2>1. tarefas' \in [Ids -> Row]
      BY <1>0, <1>7 DEF Delete, TypeInv, Locals, Row
    <2>2. call' \in [Requests -> Locals]
      BY <1>0, <1>7, GotoTyped DEF Delete, Running
    <2> QED
      BY <1>7, <2>1, <2>2 DEF Delete, TypeInv, caches
  <1>8. CASE DeleteCache(r)
    <2>1. call' \in [Requests -> Locals]
      BY <1>0, <1>8, GotoTyped, FinishTyped DEF DeleteCache, AfterWrite, Running
    <2> QED
      BY <1>8, <2>1 DEF DeleteCache, TypeInv, Lists
  <1>9. CASE Select(r)
    <2>0. PICK d : d = [call[r] EXCEPT !.list = [rows |-> List, reader |-> r]]
      OBVIOUS
    <2>1. d \in Locals
      BY <1>0, <2>0, ListIsSnapshot DEF Locals, Lists, TypeInv
    <2> QED
      BY <1>0, <1>9, <2>0, <2>1, GotoTyped, ReadsTyped DEF Select, Running
  <1>10. CASE SetCache(r)
    <2>1. call' \in [Requests -> Locals]
      BY <1>0, <1>10, FinishTyped DEF SetCache
    <2>2. c.list \in Lists
      BY <1>0 DEF Locals
    <2> QED
      BY <1>10, <2>1, <2>2 DEF SetCache, TypeInv
  <1> QED
    BY <1>1, <1>2, <1>3, <1>4, <1>5, <1>6, <1>7, <1>8, <1>9, <1>10 DEF Step

LEMMA ErrorTyped ==
  ASSUME TypeInv, NEW r \in Requests, RedisError(r) \/ Fail(r)
  PROVE  TypeInv'
  <1>0. call[r] \in Locals /\ call \in [Requests -> Locals]
    BY DEF TypeInv
  <1>1. call' \in [Requests -> Locals]
    BY <1>0, GotoTyped, FinishTyped DEF RedisError, Fail, AfterWrite, Running
  <1>2. failures' \in 0 .. MaxFailures /\ faults' \in 0 .. MaxFaults
    BY BoundsAssumption DEF RedisError, Fail, TypeInv
  <1>3. redis' \in Lists /\ memory' \in Lists
    BY DEF RedisError, Fail, TypeInv, Lists, caches
  <1> QED
    BY <1>1, <1>2, <1>3 DEF RedisError, Fail, TypeInv, caches

LEMMA CrashTyped ==
  ASSUME TypeInv, Crash
  PROVE  TypeInv'
  <1>1. call' \in [Requests -> Locals]
    BY IdleOK DEF Crash, TypeInv
  <1>2. faults' \in 0 .. MaxFaults
    BY BoundsAssumption DEF Crash, TypeInv
  <1> QED
    BY <1>1, <1>2 DEF Crash, TypeInv, Lists

LEMMA ExpireTyped ==
  ASSUME TypeInv, Expire
  PROVE  TypeInv'
  BY DEF Expire, TypeInv, Lists

(* The steps of the system, by the lemmas that treat them.                 *)
LEMMA NextCases ==
  ASSUME [Next]_vars
  PROVE  \/ \E r \in Requests, op \in Operations, id \in Ids, update \in Updates \cup {Idle.update} :
               Begin(r, op, id, update)
         \/ \E r \in Requests : Step(r)
         \/ \E r \in Requests : RedisError(r) \/ Fail(r)
         \/ Expire \/ Crash \/ UNCHANGED vars
  <1>1. CASE \E r \in Requests, id \in Ids, update \in Updates : Begin(r, "update", id, update)
    <2>1. "update" \in Operations
      BY DEF Operations
    <2> QED
      BY <1>1, <2>1
  <1>2. CASE \E r \in Requests, op \in Operations \ {"update"}, id \in Ids :
               Begin(r, op, id, Idle.update)
    BY <1>2
  <1> QED
    BY <1>1, <1>2 DEF Next, Quiet

LEMMA NextTyped ==
  ASSUME TypeInv, [Next]_vars
  PROVE  TypeInv'
  <1>1. CASE UNCHANGED vars
    BY <1>1 DEF vars, caches, TypeInv
  <1>2. CASE ~ UNCHANGED vars
    BY <1>2, NextCases, BeginTyped, StepTyped, ErrorTyped, CrashTyped, ExpireTyped
  <1> QED
    BY <1>1, <1>2

(* The state is well typed, however many requests run and fail.            *)
THEOREM TypeCorrect == Spec => []TypeOK
  <1>1. TypeInv => TypeOK
    BY SnapshotIsEntry DEF TypeInv, TypeOK, Locals
  <1> QED
    BY <1>1, InitTyped, NextTyped, PTL DEF Spec

-----------------------------------------------------------------------------
(* What relates the locals of a handler to the rows                        *)

Agrees(t) == t.status = "concluida" <=> t.concluida

(* A request that nothing overlapped has the tarefas for itself.           *)
Solo ==
    /\ \A r \in alone : r \in InFlight => InFlight = {r}
    /\ \A r \in alone \cup redundant : ~ At(r, "idle")

(* A creation inserts its row once.                                        *)
NotYetThere(r, c) ==
    (\/ c.pc \in {"idle", "nextPosition", "save"}
     \/ c.op = "create" /\ c.pc \in {"checkBloco", "getCache"})
       => ~ tarefas[r].exists

(* What a handler has read and will write back is a row that is there, at  *)
(* the position it still has.                                              *)
ReadIsThere(c) ==
    c.pc \in {"checkOwner", "update", "delete"} =>
        /\ tarefas[c.id].exists /\ c.tarefa.exists
        /\ c.tarefa.posicao = tarefas[c.id].posicao

(* What a creation inserts is there, and the position it has read is free: *)
(* of the rows that no overlapping request has made, and of all if none    *)
(* overlapped it.                                                          *)
PositionIsFree(r, c) ==
    c.pc = "save" =>
        /\ c.tarefa.exists
        /\ \A i \in Live : (r \in alone \/ i \notin Requests \ alone)
                                => tarefas[i].posicao # c.tarefa.posicao

(* What a request that nothing overlaps has read is still so.              *)
ReadIsTrue(r, c) ==
    /\ c.pc = "setCache" => c.list.reader = r
    /\ r \in alone =>
          /\ c.pc = "checkOwner" => c.tarefa.status = tarefas[c.id].status
          /\ c.pc = "update" /\ c.op = "concluir" => tarefas[c.id].status # "concluida"
          /\ c.pc = "setCache" => c.list.rows = List

Consistent(r, c) ==
    /\ Agrees(c.tarefa)
    /\ NotYetThere(r, c) /\ ReadIsThere(c) /\ PositionIsFree(r, c) /\ ReadIsTrue(r, c)

(* Only what is there is deleted.                                          *)
DeletedWasThere == \A id \in Ids : tarefas[id].deleted => tarefas[id].exists

RowInv ==
    /\ TypeInv
    /\ Solo
    /\ DeletedWasThere
    /\ StatusMatchesDate /\ PositionsDistinct /\ PaidForConcluding
    /\ \A r \in Requests : Consistent(r, call[r])

LEMMA DoneConsistent ==
  ASSUME NEW r \in Requests
  PROVE  Consistent(r, [Idle EXCEPT !.pc = "done"])
  BY DEF Consistent, Agrees, NotYetThere, ReadIsThere, PositionIsFree, ReadIsTrue, Idle, Absent

LEMMA InitConsistent == Init => RowInv
  <1> SUFFICES ASSUME Init PROVE RowInv
    OBVIOUS
  <1>1. TypeInv
    BY InitTyped
  <1>2. \A r \in Requests : call[r] = Idle
    BY DEF Init
  <1>3. Live \subseteq {Existing}
    BY DEF Init, Live, Absent
  <1>4. Solo /\ PaidForConcluding /\ PositionsDistinct
    BY <1>3 DEF Init, Solo, PaidForConcluding, PositionsDistinct
  <1>5. StatusMatchesDate /\ DeletedWasThere
    BY DEF Init, StatusMatchesDate, DeletedWasThere, Absent
  <1>6. \A r \in Requests : ~ tarefas[r].exists
    BY BoundsAssumption DEF Init, Absent, Ids
  <1>7. \A r \in Requests : Consistent(r, call[r])
    BY <1>2, <1>6
       DEF Consistent, Agrees, NotYetThere, ReadIsThere, PositionIsFree, ReadIsTrue, Idle, Absent
  <1> QED
    BY <1>1, <1>4, <1>5, <1>7 DEF RowInv

-----------------------------------------------------------------------------
(* Steps that leave the rows alone                                         *)

RowsStay == tarefas' = tarefas /\ alone' = alone /\ redundant' = redundant

(* A handler goes on to locals that are consistent with the rows.          *)
LEMMA MoveOK ==
  ASSUME RowInv, TypeInv', RowsStay, NEW r \in InFlight, NEW c,
         call' = [call EXCEPT ![r] = c], c.pc # "idle", Consistent(r, c)
  PROVE  RowInv'
  <1>1. r \in Requests /\ call'[r] = c /\ \A q \in Requests \ {r} : call'[q] = call[q]
    BY DEF RowInv, TypeInv, InFlight
  <1>2. InFlight' \subseteq InFlight
    BY <1>1 DEF InFlight
  <1>3. Solo'
    BY <1>1, <1>2 DEF RowInv, Solo, RowsStay, At, InFlight, Running
  <1>4. Live' = Live /\ List' = List
    BY DEF RowsStay, Live, List
  <1>5. StatusMatchesDate' /\ PositionsDistinct' /\ PaidForConcluding' /\ DeletedWasThere'
    BY <1>4 DEF RowInv, RowsStay, StatusMatchesDate, PositionsDistinct, PaidForConcluding,
                DeletedWasThere
  <1>6. \A q \in Requests : Consistent(q, call'[q])
    BY <1>1 DEF RowInv
  <1>7. \A q \in Requests : Consistent(q, call[q])'
    BY <1>4, <1>6
       DEF RowsStay, Consistent, Agrees, NotYetThere, ReadIsThere, PositionIsFree, ReadIsTrue
  <1> QED
    BY <1>3, <1>5, <1>7 DEF RowInv

LEMMA FinishOK ==
  ASSUME RowInv, TypeInv', RowsStay, NEW r \in InFlight, Finish(r)
  PROVE  RowInv'
  <1>0. r \in Requests
    BY DEF InFlight
  <1>1. PICK c : c = [Idle EXCEPT !.pc = "done"]
    OBVIOUS
  <1>2. c.pc # "idle"
    BY <1>1 DEF Idle
  <1> QED
    BY <1>0, <1>1, <1>2, DoneConsistent, MoveOK DEF Finish

LEMMA GotoOK ==
  ASSUME RowInv, TypeInv', RowsStay, NEW r \in InFlight, NEW c, NEW label, label # "idle",
         Goto(r, c, label), c \in Locals, Consistent(r, [c EXCEPT !.pc = label])
  PROVE  RowInv'
  <1>1. PICK d : d = [c EXCEPT !.pc = label]
    OBVIOUS
  <1>2. d.pc # "idle"
    BY <1>1 DEF Locals
  <1> QED
    BY <1>1, <1>2, MoveOK DEF Goto

LEMMA AfterWriteCases ==
  ASSUME NEW r \in Requests, AfterWrite(r)
  PROVE  Goto(r, call[r], "notify") \/ Goto(r, call[r], "dispatch") \/ Finish(r)
  BY Zenon DEF AfterWrite

LEMMA StepReadsOK ==
  ASSUME RowInv, TypeInv', NEW r \in Requests,
         \/ CheckBloco(r) \/ NextPosition(r) \/ Find(r) \/ CheckOwner(r)
         \/ Dispatch(r) \/ Notify(r) \/ GetCache(r) \/ Select(r)
  PROVE  RowInv'
  <1> DEFINE c == call[r]
  <1>0. /\ RowsStay /\ r \in InFlight /\ c \in Locals /\ Consistent(r, c)
        /\ c.id \in Ids /\ tarefas[c.id] \in Row /\ Agrees(tarefas[c.id])
    BY DEF OnlyReads, RowsStay, InFlight, Running, At, CheckBloco, NextPosition, Find, CheckOwner,
           Dispatch, Notify, GetCache, Select, RowInv, TypeInv, Locals, StatusMatchesDate, Agrees
  <1>1. ASSUME NEW label \in {"nextPosition", "select", "notify", "delete", "checkBloco"},
               Goto(r, c, label),
               label = "nextPosition" => ~ tarefas[r].exists,
               label = "checkBloco" => c.pc = "getCache",
               label = "delete" => c.pc = "checkOwner"
        PROVE  RowInv'
    <2>1. Consistent(r, [c EXCEPT !.pc = label])
      BY <1>0, <1>1 DEF Consistent, Locals, Agrees, NotYetThere, ReadIsThere, PositionIsFree, ReadIsTrue
    <2> QED
      BY <1>0, <1>1, <2>1, GotoOK
  <1>2. CASE CheckBloco(r)
    BY <1>0, <1>1, <1>2 DEF CheckBloco, At, Consistent, NotYetThere
  <1>3. CASE Dispatch(r) \/ Notify(r) \/ GetCache(r)
    BY <1>0, <1>1, <1>3, FinishOK DEF Dispatch, Notify, GetCache, At
  <1>4. CASE NextPosition(r)
    <2>0. PICK t : t = [Absent EXCEPT !.exists = TRUE, !.edition = r, !.posicao = GetNextPosition]
      OBVIOUS
    <2>1. PICK d : d = [c EXCEPT !.tarefa = t]
      OBVIOUS
    <2>2. t \in Row /\ Agrees(t) /\ t.posicao = GetNextPosition /\ t.exists
      BY <2>0, NextPositionIsPast DEF RowInv, TypeInv, Absent, Row, StatusTarefa, Ids, Agrees
    <2>3. d \in Locals /\ d.tarefa = t
      BY <1>0, <2>1, <2>2 DEF Locals
    <2>4. \A id \in Live : tarefas[id].posicao # GetNextPosition
      BY NextPositionIsPast DEF RowInv, TypeInv, Live, Row
    <2>5. ~ tarefas[r].exists
      BY <1>0, <1>4 DEF NextPosition, At, Consistent, NotYetThere
    <2>6. Consistent(r, [d EXCEPT !.pc = "save"])
      BY <2>2, <2>3, <2>4, <2>5
         DEF Consistent, Locals, NotYetThere, ReadIsThere, PositionIsFree, ReadIsTrue
    <2> QED
      BY <1>0, <1>4, <2>0, <2>1, <2>3, <2>6, GotoOK DEF NextPosition
  <1>5. CASE Find(r)
    <2>1. CASE c.id \notin Live
      BY <1>0, <1>5, <2>1, FinishOK DEF Find
    <2>2. CASE c.id \in Live /\ c.op = "update"
      <3>1. PICK d : d = [c EXCEPT !.tarefa = Updated(tarefas[c.id], c.update, r)]
        OBVIOUS
      <3>2. /\ Updated(tarefas[c.id], c.update, r) \in Row
            /\ Agrees(Updated(tarefas[c.id], c.update, r))
            /\ Updated(tarefas[c.id], c.update, r).exists = tarefas[c.id].exists
            /\ Updated(tarefas[c.id], c.update, r).posicao = tarefas[c.id].posicao
        BY <1>0, UpdatedTyped DEF Locals, Updated, UpdateStatus, Agrees, Row
      <3>3. d \in Locals
        BY <1>0, <3>1, <3>2 DEF Locals
      <3>4. Consistent(r, [d EXCEPT !.pc = "update"])
        BY <1>0, <2>2, <3>1, <3>2
           DEF Consistent, Locals, NotYetThere, ReadIsThere, PositionIsFree, ReadIsTrue, Live
      <3> QED
        BY <1>0, <1>5, <2>2, <3>1, <3>3, <3>4, GotoOK DEF Find
    <2>3. CASE c.id \in Live /\ c.op # "update"
      <3>1. PICK d : d = [c EXCEPT !.tarefa = tarefas[c.id]]
        OBVIOUS
      <3>2. d \in Locals
        BY <1>0, <3>1 DEF Locals
      <3>3. Consistent(r, [d EXCEPT !.pc = "checkOwner"])
        BY <1>0, <2>3, <3>1
           DEF Consistent, Locals, NotYetThere, ReadIsThere, PositionIsFree, ReadIsTrue, Live
      <3> QED
        BY <1>0, <1>5, <2>3, <3>1, <3>2, <3>3, GotoOK DEF Find
    <2> QED
      BY <2>1, <2>2, <2>3
  <1>6. CASE CheckOwner(r)
    <2>1. CASE c.op = "delete"
      BY <1>0, <1>1, <1>6, <2>1 DEF CheckOwner, At
    <2>2. CASE c.op = "concluir" /\ c.tarefa.status = "concluida"
      BY <1>0, <1>6, <2>2, FinishOK DEF CheckOwner
    <2>3. CASE c.op = "concluir" /\ c.tarefa.status # "concluida"
      <3>1. PICK d : d = [c EXCEPT !.tarefa = Concluir(@)]
        OBVIOUS
      <3>2. d \in Locals /\ Agrees(d.tarefa)
        BY <1>0, <3>1 DEF Locals, Concluir, Row, StatusTarefa, Agrees
      <3>3. Consistent(r, [d EXCEPT !.pc = "update"])
        BY <1>0, <1>6, <2>3, <3>1, <3>2
           DEF CheckOwner, At, Consistent, Locals, Concluir, Row,
               NotYetThere, ReadIsThere, PositionIsFree, ReadIsTrue
      <3> QED
        BY <1>0, <1>6, <2>3, <3>1, <3>2, <3>3, GotoOK DEF CheckOwner
    <2> QED
      BY <1>6, <2>1, <2>2, <2>3 DEF CheckOwner
  <1>7. CASE Select(r)
    <2>1. PICK d : d = [c EXCEPT !.list = [rows |-> List, reader |-> r]]
      OBVIOUS
    <2>2. d \in Locals
      BY <1>0, <2>1, ListIsSnapshot DEF Locals, Lists, RowInv, TypeInv
    <2>3. Consistent(r, [d EXCEPT !.pc = "setCache"])
      BY <1>0, <2>1 DEF Consistent, Locals, Agrees, NotYetThere, ReadIsThere, PositionIsFree, ReadIsTrue
    <2> QED
      BY <1>0, <1>7, <2>1, <2>2, <2>3, GotoOK DEF Select
  <1> QED
    BY <1>2, <1>3, <1>4, <1>5, <1>6, <1>7

(* What the cache is asked, and what fails.                                *)
LEMMA StepCachesOK ==
  ASSUME RowInv, TypeInv', NEW r \in Requests,
         DeleteCache(r) \/ SetCache(r) \/ RedisError(r) \/ Fail(r)
  PROVE  RowInv'
  <1> DEFINE c == call[r]
  <1>0. /\ RowsStay /\ r \in InFlight /\ c \in Locals /\ Consistent(r, c)
    BY DEF RowsStay, InFlight, Running, At, DeleteCache, SetCache, RedisError, Fail, RowInv, TypeInv
  <1>1. ASSUME NEW label \in {"notify", "dispatch", "checkBloco"}, Goto(r, c, label),
               label = "checkBloco" => c.pc = "getCache"
        PROVE  RowInv'
    <2>1. Consistent(r, [c EXCEPT !.pc = label])
      BY <1>0, <1>1 DEF Consistent, Locals, Agrees, NotYetThere, ReadIsThere, PositionIsFree, ReadIsTrue
    <2> QED
      BY <1>0, <1>1, <2>1, GotoOK
  <1>2. ASSUME AfterWrite(r)
        PROVE  RowInv'
    BY <1>0, <1>1, <1>2, AfterWriteCases, FinishOK
  <1> QED
    BY <1>0, <1>1, <1>2, FinishOK DEF DeleteCache, SetCache, RedisError, Fail, At

-----------------------------------------------------------------------------
(* Steps that write a row                                                  *)

(* Next to a handler in flight nothing runs alone.                         *)
LEMMA NoOtherIsAlone ==
  ASSUME Solo, NEW r \in InFlight, NEW q \in InFlight, q # r
  PROVE  q \notin alone /\ r \notin alone
  BY DEF Solo

(* A handler goes on after its write: what it has left is to be consistent *)
(* with nothing but its own row.                                           *)
LEMMA WroteOK ==
  ASSUME RowInv, NEW r \in InFlight, NEW label \in {"deleteCache"}, Goto(r, call[r], label),
         alone' = alone
  PROVE  /\ Solo' \/ redundant' # redundant
         /\ \A q \in Requests \ {r} : call'[q] = call[q]
         /\ call'[r] = [call[r] EXCEPT !.pc = label] /\ call'[r].pc = label
         /\ call'[r].tarefa = call[r].tarefa
         /\ Consistent(r, call[r])'
  <1>1. r \in Requests /\ call[r] \in Locals /\ Agrees(call[r].tarefa)
    BY DEF InFlight, RowInv, TypeInv, Consistent
  <1>2. /\ call'[r] = [call[r] EXCEPT !.pc = label] /\ call'[r].pc = label
        /\ call'[r].tarefa = call[r].tarefa
    BY <1>1 DEF Goto, RowInv, TypeInv, Locals
  <1>3. \A q \in Requests \ {r} : call'[q] = call[q]
    BY <1>1 DEF Goto, RowInv, TypeInv
  <1>4. InFlight' = InFlight
    BY <1>1, <1>2, <1>3 DEF InFlight, Running
  <1>5. Solo' \/ redundant' # redundant
    BY <1>1, <1>2, <1>3, <1>4 DEF RowInv, TypeInv, Solo, At
  <1>6. Consistent(r, call[r])'
    BY <1>1, <1>2
       DEF Consistent, Agrees, NotYetThere, ReadIsThere, PositionIsFree, ReadIsTrue
  <1> QED
    BY <1>2, <1>3, <1>5, <1>6

LEMMA SaveOK ==
  ASSUME RowInv, TypeInv', NEW r \in Requests, Save(r)
  PROVE  RowInv'
  <1> DEFINE t == call[r].tarefa
  <1>0. /\ r \in InFlight /\ r \in Ids /\ t \in Row /\ Consistent(r, call[r]) /\ call[r].pc = "save"
        /\ ~ tarefas[r].exists /\ alone' = alone /\ redundant' = redundant
    BY DEF Save, At, InFlight, Running, RowInv, TypeInv, Locals, Ids, Consistent, NotYetThere
  <1>1. tarefas'[r] = t /\ \A id \in Ids \ {r} : tarefas'[id] = tarefas[id]
    BY <1>0 DEF Save, RowInv, TypeInv
  <1>2. /\ Solo' /\ Consistent(r, call[r])'
        /\ \A q \in Requests \ {r} : call'[q] = call[q]
    BY <1>0, WroteOK DEF Save
  <1>3. StatusMatchesDate'
    BY <1>0, <1>1 DEF RowInv, StatusMatchesDate, Consistent, Agrees
  <1>7. DeletedWasThere'
    BY <1>0, <1>1 DEF RowInv, DeletedWasThere, Consistent, PositionIsFree
  <1>4. Live' \subseteq Live \cup {r} /\ r \notin Live /\ Live \subseteq Ids
    BY <1>0, <1>1 DEF Live
  <1>5. PositionsDistinct'
    <2>1. SUFFICES ASSUME NEW i \in Live', NEW j \in Live', i # j,
                          tarefas'[i].posicao = tarefas'[j].posicao
                   PROVE  {i, j} \subseteq Requests \ alone
      BY <1>0 DEF PositionsDistinct
    <2>2. CASE i # r /\ j # r
      BY <1>1, <1>4, <2>1, <2>2 DEF RowInv, PositionsDistinct
    <2>3. CASE i = r
      BY <1>0, <1>1, <1>4, <2>1, <2>3 DEF Consistent, PositionIsFree
    <2>4. CASE j = r
      BY <1>0, <1>1, <1>4, <2>1, <2>4 DEF Consistent, PositionIsFree
    <2> QED
      BY <2>2, <2>3, <2>4
  <1>6. ASSUME NEW q \in Requests \ {r}
        PROVE  Consistent(q, call[q])'
    <2>1. Consistent(q, call[q]) /\ call'[q] = call[q] /\ call[q] \in Locals
      BY <1>2 DEF RowInv, TypeInv
    <2>2. NotYetThere(q, call[q])'
      BY <1>1, <2>1 DEF Consistent, NotYetThere, Ids
    <2>3. ReadIsThere(call[q])'
      BY <1>0, <1>1, <2>1 DEF Consistent, ReadIsThere, Locals
    <2>4. CASE q \in InFlight
      <3>1. q \notin alone /\ r \notin alone
        BY <1>0, <2>4, NoOtherIsAlone DEF RowInv
      <3>2. PositionIsFree(q, call[q])' /\ ReadIsTrue(q, call[q])'
        BY <1>0, <1>1, <1>4, <2>1, <3>1 DEF Consistent, PositionIsFree, ReadIsTrue
      <3> QED
        BY <2>1, <2>2, <2>3, <3>2 DEF Consistent, Agrees
    <2>5. CASE q \notin InFlight
      <3>1. PositionIsFree(q, call[q])' /\ ReadIsTrue(q, call[q])'
        BY <2>1, <2>5 DEF InFlight, Running, PositionIsFree, ReadIsTrue
      <3> QED
        BY <2>1, <2>2, <2>3, <3>1 DEF Consistent, Agrees
    <2> QED
      BY <2>4, <2>5
  <1> QED
    BY <1>0, <1>2, <1>3, <1>5, <1>6, <1>7 DEF RowInv, PaidForConcluding

(* An update and a deletion leave every row there, and at its position.    *)
LEMMA RewriteOK ==
  ASSUME RowInv, TypeInv', NEW r \in InFlight, Goto(r, call[r], "deleteCache"), alone' = alone,
         redundant' \subseteq redundant \cup {r}, r \in alone => redundant' = redundant,
         StatusMatchesDate', DeletedWasThere', Live' \subseteq Live,
         \A id \in Ids : /\ tarefas'[id].exists = tarefas[id].exists
                         /\ tarefas'[id].posicao = tarefas[id].posicao
  PROVE  RowInv'
  <1>0. r \in Requests /\ Live \subseteq Ids
    BY DEF InFlight, Live
  <1>1. /\ Consistent(r, call[r])'
        /\ \A q \in Requests \ {r} : call'[q] = call[q]
        /\ call'[r].pc = "deleteCache"
    BY WroteOK
  <1>2. Solo'
    <2>1. InFlight' = InFlight
      BY <1>0, <1>1 DEF InFlight, Running
    <2> QED
      BY <1>0, <1>1, <2>1 DEF RowInv, TypeInv, Solo, At
  <1>3. PositionsDistinct'
    BY <1>0 DEF RowInv, PositionsDistinct
  <1>4. PaidForConcluding'
    BY DEF RowInv, PaidForConcluding
  <1>5. ASSUME NEW q \in Requests \ {r}
        PROVE  Consistent(q, call[q])'
    <2>1. Consistent(q, call[q]) /\ call'[q] = call[q] /\ call[q] \in Locals
      BY <1>1 DEF RowInv, TypeInv
    <2>2. NotYetThere(q, call[q])' /\ ReadIsThere(call[q])' /\ PositionIsFree(q, call[q])'
      BY <1>0, <2>1 DEF Consistent, NotYetThere, ReadIsThere, PositionIsFree, Locals, Ids
    <2>3. ReadIsTrue(q, call[q])'
      <3>1. CASE q \in InFlight
        BY <2>1, <3>1, NoOtherIsAlone DEF RowInv, Consistent, ReadIsTrue
      <3>2. CASE q \notin InFlight
        BY <2>1, <3>2 DEF InFlight, Running, ReadIsTrue
      <3> QED
        BY <3>1, <3>2
    <2> QED
      BY <2>1, <2>2, <2>3 DEF Consistent, Agrees
  <1> QED
    BY <1>1, <1>2, <1>3, <1>4, <1>5 DEF RowInv

LEMMA UpdateOK ==
  ASSUME RowInv, TypeInv', NEW r \in Requests, Update(r)
  PROVE  RowInv'
  <1> DEFINE c == call[r]
  <1>0. /\ r \in InFlight /\ c \in Locals /\ c.id \in Ids /\ c.tarefa \in Row
        /\ Consistent(r, c) /\ c.pc = "update"
    BY DEF Update, At, InFlight, Running, RowInv, TypeInv, Locals
  <1>1. /\ tarefas'[c.id] = [c.tarefa EXCEPT !.deleted = tarefas[c.id].deleted]
        /\ \A id \in Ids \ {c.id} : tarefas'[id] = tarefas[id]
    BY <1>0 DEF Update, RowInv, TypeInv
  <1>2. /\ tarefas'[c.id].exists = tarefas[c.id].exists
        /\ tarefas'[c.id].posicao = tarefas[c.id].posicao
        /\ tarefas'[c.id].deleted = tarefas[c.id].deleted
        /\ Agrees(tarefas'[c.id])
    BY <1>0, <1>1 DEF Consistent, ReadIsThere, Agrees, Row
  <1>3. Live' \subseteq Live
    BY <1>1, <1>2 DEF Live
  <1>4. StatusMatchesDate' /\ DeletedWasThere'
    BY <1>0, <1>1, <1>2 DEF RowInv, StatusMatchesDate, DeletedWasThere, Agrees
  <1>5. r \in alone => redundant' = redundant
    BY <1>0 DEF Update, Consistent, ReadIsTrue
  <1>6. /\ Goto(r, c, "deleteCache") /\ alone' = alone
        /\ redundant' \subseteq redundant \cup {r}
    BY DEF Update
  <1> QED
    BY <1>0, <1>1, <1>2, <1>3, <1>4, <1>5, <1>6, RewriteOK

LEMMA DeleteOK ==
  ASSUME RowInv, TypeInv', NEW r \in Requests, Delete(r)
  PROVE  RowInv'
  <1> DEFINE c == call[r]
  <1>0. /\ r \in InFlight /\ c.id \in Ids /\ tarefas[c.id] \in Row
        /\ tarefas[c.id].exists
    BY DEF Delete, At, InFlight, Running, RowInv, TypeInv, Locals, Consistent, ReadIsThere
  <1>1. /\ tarefas'[c.id] = [tarefas[c.id] EXCEPT !.deleted = TRUE]
        /\ \A id \in Ids \ {c.id} : tarefas'[id] = tarefas[id]
    BY <1>0 DEF Delete, RowInv, TypeInv
  <1>2. /\ tarefas'[c.id].exists = tarefas[c.id].exists
        /\ tarefas'[c.id].posicao = tarefas[c.id].posicao
        /\ tarefas'[c.id].deleted
        /\ tarefas'[c.id].status = tarefas[c.id].status
        /\ tarefas'[c.id].concluida <=> tarefas[c.id].concluida
    BY <1>0, <1>1 DEF Row
  <1>5. Agrees(tarefas'[c.id])
    BY <1>0, <1>2 DEF RowInv, StatusMatchesDate, Agrees
  <1>3. Live' \subseteq Live
    BY <1>1, <1>2 DEF Live
  <1>4. StatusMatchesDate' /\ DeletedWasThere'
    BY <1>0, <1>1, <1>2, <1>5 DEF RowInv, StatusMatchesDate, DeletedWasThere, Agrees
  <1> QED
    BY <1>0, <1>1, <1>2, <1>3, <1>4, RewriteOK DEF Delete

-----------------------------------------------------------------------------
(* Arrivals, and the end of the process                                    *)

LEMMA BeginOK ==
  ASSUME RowInv, TypeInv', NEW r \in Requests, NEW op \in Operations, NEW id \in Ids,
         NEW update \in Updates \cup {Idle.update}, Begin(r, op, id, update)
  PROVE  RowInv'
  <1>0. /\ call[r].pc = "idle" /\ ~ tarefas[r].exists /\ r \notin InFlight
        /\ r \notin alone /\ r \notin redundant
    BY DEF Begin, At, InFlight, Running, RowInv, Solo, Consistent, NotYetThere
  <1>1. PICK c : c = [Idle EXCEPT !.op = op, !.id = id, !.update = update]
    OBVIOUS
  <1>2. /\ c \in Locals /\ c.tarefa = Absent /\ c.op = op /\ c.id = id
    BY <1>1, IdleOK DEF Idle, Locals
  <1>3. PICK label \in {"checkBloco", "getCache", "find"} : Goto(r, c, label)
    <2>1. CASE op = "create"
      BY <1>1, <2>1 DEF Begin
    <2>2. CASE op = "list"
      BY <1>1, <2>2 DEF Begin
    <2>3. CASE op \notin {"create", "list"}
      BY <1>1, <2>3 DEF Begin
    <2> QED
      BY <2>1, <2>2, <2>3
  <1>4. /\ call'[r] = [c EXCEPT !.pc = label]
        /\ \A q \in Requests \ {r} : call'[q] = call[q]
    BY <1>3 DEF Goto, RowInv, TypeInv
  <1>5. InFlight' = InFlight \cup {r}
    BY <1>2, <1>4 DEF InFlight, Running, Locals
  <1>6. alone' = IF InFlight = {} THEN alone \cup {r} ELSE alone \ InFlight
    BY DEF Begin
  <1>7. Solo'
    BY <1>0, <1>2, <1>4, <1>5, <1>6 DEF Begin, RowInv, TypeInv, Solo, At, Locals
  <1>8. tarefas' = tarefas /\ redundant' = redundant /\ Live' = Live /\ List' = List
    BY DEF Begin, Live, List
  <1>9. r \notin Live
    BY <1>0 DEF Live
  <1>10. StatusMatchesDate' /\ PaidForConcluding' /\ DeletedWasThere'
    BY <1>0, <1>6, <1>8 DEF RowInv, StatusMatchesDate, PaidForConcluding, DeletedWasThere
  <1>11. PositionsDistinct'
    BY <1>6, <1>8, <1>9 DEF RowInv, PositionsDistinct
  <1>12. Consistent(r, call[r])'
    BY <1>0, <1>2, <1>4, <1>8
       DEF Consistent, Agrees, NotYetThere, ReadIsThere, PositionIsFree, ReadIsTrue, Absent, Locals
  <1>13. ASSUME NEW q \in Requests \ {r}
         PROVE  Consistent(q, call[q])'
    <2>1. Consistent(q, call[q]) /\ call'[q] = call[q]
      BY <1>4 DEF RowInv
    <2>2. CASE q \in InFlight
      BY <1>6, <1>8, <1>9, <2>1, <2>2
         DEF Consistent, Agrees, NotYetThere, ReadIsThere, PositionIsFree, ReadIsTrue
    <2>3. CASE q \notin InFlight
      BY <1>8, <2>1, <2>3
         DEF Consistent, Agrees, NotYetThere, ReadIsThere, PositionIsFree, ReadIsTrue,
             InFlight, Running
    <2> QED
      BY <2>2, <2>3
  <1> QED
    BY <1>7, <1>10, <1>11, <1>12, <1>13 DEF RowInv

LEMMA CrashOK ==
  ASSUME RowInv, TypeInv', Crash
  PROVE  RowInv'
  <1>0. RowsStay /\ Live' = Live /\ List' = List
    BY DEF Crash, RowsStay, Live, List
  <1>1. PICK d : d = [Idle EXCEPT !.pc = "done"]
    OBVIOUS
  <1>2. d.pc = "done" /\ \A q \in Requests : Consistent(q, d)
    BY <1>1, DoneConsistent DEF Idle
  <1>3. \A q \in Requests : call'[q] = IF q \in InFlight THEN d ELSE call[q]
    BY <1>1 DEF Crash
  <1>4. InFlight' = {}
    BY <1>2, <1>3 DEF InFlight, Running
  <1>5. Solo'
    BY <1>0, <1>2, <1>3, <1>4 DEF RowInv, TypeInv, Solo, RowsStay, At
  <1>6. \A q \in Requests : Consistent(q, call'[q])
    BY <1>2, <1>3 DEF RowInv
  <1>7. \A q \in Requests : Consistent(q, call[q])'
    BY <1>0, <1>6
       DEF RowsStay, Consistent, Agrees, NotYetThere, ReadIsThere, PositionIsFree, ReadIsTrue
  <1>8. StatusMatchesDate' /\ PositionsDistinct' /\ PaidForConcluding' /\ DeletedWasThere'
    BY <1>0 DEF RowInv, RowsStay, StatusMatchesDate, PositionsDistinct, PaidForConcluding,
                DeletedWasThere
  <1> QED
    BY <1>5, <1>7, <1>8 DEF RowInv

(* What changes neither the rows nor a handler.                            *)
LEMMA StutterOK ==
  ASSUME RowInv, TypeInv', RowsStay, call' = call
  PROVE  RowInv'
  <1>0. Live' = Live /\ List' = List
    BY DEF RowsStay, Live, List
  <1>1. /\ Solo' /\ StatusMatchesDate' /\ PositionsDistinct' /\ PaidForConcluding'
        /\ DeletedWasThere'
    BY <1>0 DEF RowInv, Solo, InFlight, At, RowsStay, StatusMatchesDate, PositionsDistinct,
                PaidForConcluding, DeletedWasThere
  <1>2. \A q \in Requests : Consistent(q, call[q])'
    BY <1>0 DEF RowInv, RowsStay, Consistent, Agrees, NotYetThere, ReadIsThere, PositionIsFree,
                ReadIsTrue
  <1> QED
    BY <1>1, <1>2 DEF RowInv

LEMMA NextOK ==
  ASSUME RowInv, [Next]_vars
  PROVE  RowInv'
  <1>0. TypeInv'
    BY NextTyped DEF RowInv
  <1>1. CASE \E r \in Requests : Step(r)
    BY <1>0, <1>1, StepReadsOK, StepCachesOK, SaveOK, UpdateOK, DeleteOK DEF Step
  <1>2. CASE Expire \/ UNCHANGED vars
    BY <1>0, <1>2, StutterOK DEF Expire, vars, RowsStay
  <1> QED
    BY <1>0, <1>1, <1>2, NextCases, BeginOK, StepCachesOK, CrashOK

LEMMA RowInvariant == Spec => []RowInv
  BY InitConsistent, NextOK, PTL DEF Spec

(* A tarefa is concluded exactly when it has the date of its conclusion.   *)
THEOREM StatusAndDateAgree == Spec => []StatusMatchesDate
  BY RowInvariant, PTL DEF RowInv

(* Creations that nothing overlapped find positions of their own.          *)
THEOREM PositionsAreDistinct == Spec => []PositionsDistinct
  BY RowInvariant, PTL DEF RowInv

(* A request that nothing overlapped pays for a conclusion only.           *)
THEOREM PaidForConclusions == Spec => []PaidForConcluding
  BY RowInvariant, PTL DEF RowInv

LEMMA DeletionsStay ==
  ASSUME RowInv, [Next]_vars
  PROVE  \A id \in Ids : tarefas[id].deleted => tarefas'[id].deleted
  <1>1. ASSUME NEW r \in Requests, Save(r)
        PROVE  \A id \in Ids : tarefas[id].deleted => tarefas'[id].deleted
    BY <1>1 DEF Save, At, RowInv, TypeInv, DeletedWasThere, Consistent, NotYetThere
  <1>2. ASSUME NEW r \in Requests, Update(r)
        PROVE  \A id \in Ids : tarefas[id].deleted => tarefas'[id].deleted
    <2>1. call[r].tarefa \in Row /\ tarefas \in [Ids -> Row]
      BY DEF RowInv, TypeInv, Locals
    <2> QED
      BY <1>2, <2>1 DEF Update, Row
  <1>3. ASSUME NEW r \in Requests, Delete(r)
        PROVE  \A id \in Ids : tarefas[id].deleted => tarefas'[id].deleted
    BY <1>3 DEF Delete, RowInv, TypeInv, Row
  <1>4. ASSUME tarefas' = tarefas
        PROVE  \A id \in Ids : tarefas[id].deleted => tarefas'[id].deleted
    BY <1>4
  <1>5. CASE \E r \in Requests : Step(r)
    BY <1>1, <1>2, <1>3, <1>4, <1>5
       DEF Step, CheckBloco, NextPosition, Find, CheckOwner, DeleteCache, Dispatch, Notify,
           GetCache, Select, SetCache, OnlyReads
  <1>6. CASE UNCHANGED vars \/ Expire \/ Crash
    BY <1>4, <1>6 DEF vars, Expire, Crash
  <1> QED
    BY <1>4, <1>5, <1>6, NextCases DEF Begin, RedisError, Fail

(* No handler brings a deleted tarefa back, whatever it has read before.   *)
THEOREM DeletedOnesStay == Spec => DeletedStaysDeleted
  <1>1. RowInv /\ [Next]_vars => [\A id \in Ids : tarefas[id].deleted => tarefas'[id].deleted]_vars
    BY DeletionsStay
  <1> QED
    BY <1>1, RowInvariant, PTL DEF Spec, DeletedStaysDeleted

-----------------------------------------------------------------------------
(* The cached list                                                         *)

(* Who has filled an entry has run.                                        *)
ReadersRan == \A e \in {redis, memory} : e # NoList => ~ At(e.reader, "idle")

StaleInv == RowInv /\ ReadersRan /\ StaleListHasCause

LEMMA ListFacts ==
  ASSUME TypeInv
  PROVE  /\ \A r \in Requests : call[r].list \in Lists
         /\ \A e \in Lists : e # NoList => e.reader \in Requests
         /\ Cached \in {redis, memory} /\ Cached \in Lists
  BY DEF TypeInv, Locals, Lists, Cached

(* Steps at which no entry is set, and no invalidation ends.               *)
LEMMA EntriesStay ==
  ASSUME StaleInv, RowInv', RowsStay, redisAvailable' = redisAvailable,
         redis' \in {redis, NoList}, memory' \in {memory, NoList}, faults' = faults,
         \A q \in Requests : /\ At(q, "deleteCache") => At(q, "deleteCache")'
                             /\ ~ At(q, "idle") => ~ At(q, "idle")'
  PROVE  StaleInv'
  <1>1. List' = List
    BY DEF RowsStay, Live, List
  <1>2. /\ \A e \in {redis, memory} : e # NoList => e.reader \in Requests
        /\ Cached \in {redis, memory}
    BY ListFacts DEF StaleInv, RowInv, TypeInv
  <1>3. ReadersRan'
    BY <1>2 DEF StaleInv, ReadersRan
  <1>4. Cached' \in {Cached, NoList}
    BY DEF Cached
  <1>5. StaleListHasCause'
    BY <1>1, <1>2, <1>4 DEF StaleInv, StaleListHasCause, RowsStay
  <1> QED
    BY <1>3, <1>5 DEF StaleInv

(* A handler that has read a tarefa is where it goes to.                   *)
LEMMA LabelOf ==
  ASSUME call \in [Requests -> Locals], NEW r \in Requests, NEW t, NEW label,
         Goto(r, [call[r] EXCEPT !.tarefa = t], label)
  PROVE  call'[r].pc = label
  <1>1. PICK d : d = [call[r] EXCEPT !.tarefa = t]
    OBVIOUS
  <1>2. "pc" \in DOMAIN d
    BY <1>1 DEF Locals
  <1>3. call' = [call EXCEPT ![r] = [d EXCEPT !.pc = label]]
    BY <1>1 DEF Goto
  <1> QED
    BY <1>2, <1>3

LEMMA StaleStepOK ==
  ASSUME StaleInv, RowInv', NEW r \in Requests, Step(r)
  PROVE  StaleInv'
  <1>0. /\ call \in [Requests -> Locals] /\ call' \in [Requests -> Locals]
        /\ \A e \in Lists : e # NoList => e.reader \in Requests
        /\ \A q \in Requests : call[q].list \in Lists
        /\ redis \in Lists /\ memory \in Lists
    BY ListFacts DEF StaleInv, RowInv, TypeInv
  <1>1. \A q \in Requests \ {r} : call'[q] = call[q]
    <2>1. \E d : call' = [call EXCEPT ![r] = d]
      BY Zenon DEF Step, CheckBloco, NextPosition, Save, Find, CheckOwner, Update, Delete, DeleteCache,
             AfterWrite, Dispatch, Notify, GetCache, Select, SetCache, Goto, Finish
    <2> QED
      BY <1>0, <2>1
  <1>2. call'[r].pc # "idle"
    <2>1. ASSUME Finish(r)
          PROVE  call'[r].pc # "idle"
      BY <1>0, <2>1 DEF Finish, Idle
    <2>2. CASE \/ CheckBloco(r) \/ Save(r) \/ Update(r) \/ Delete(r)
               \/ Dispatch(r) \/ Notify(r) \/ GetCache(r) \/ SetCache(r)
      <3>1. \/ Finish(r)
            \/ \E label \in {"nextPosition", "select", "deleteCache", "notify", "checkBloco"} :
                  Goto(r, call[r], label)
        BY <2>2 DEF CheckBloco, Save, Update, Delete, Dispatch, Notify, GetCache, SetCache
      <3>2. ASSUME NEW label \in {"nextPosition", "select", "deleteCache", "notify", "checkBloco"},
                   Goto(r, call[r], label)
            PROVE  call'[r].pc # "idle"
        BY <1>0, <3>2 DEF Goto, Locals
      <3> QED
        BY <2>1, <3>1, <3>2
    <2>3. CASE DeleteCache(r)
      BY <1>0, <2>1, <2>3, AfterWriteCases DEF DeleteCache, Goto, Locals
    <2>4. CASE NextPosition(r)
      <3>1. \E t : Goto(r, [call[r] EXCEPT !.tarefa = t], "save")
        BY <2>4, Zenon DEF NextPosition
      <3> QED
        BY <1>0, <3>1, LabelOf
    <2>7. CASE Select(r)
      <3>1. PICK d : d = [call[r] EXCEPT !.list = [rows |-> List, reader |-> r]]
        OBVIOUS
      <3>2. "pc" \in DOMAIN d
        BY <1>0, <3>1 DEF Locals
      <3>3. call' = [call EXCEPT ![r] = [d EXCEPT !.pc = "setCache"]]
        BY <2>7, <3>1 DEF Select, Goto
      <3> QED
        BY <1>0, <3>2, <3>3
    <2>5. CASE Find(r)
      <3>1. \/ Finish(r)
            \/ \E t, label : /\ label # "idle"
                             /\ Goto(r, [call[r] EXCEPT !.tarefa = t], label)
        BY <2>5, Zenon DEF Find
      <3> QED
        BY <1>0, <2>1, <3>1, LabelOf
    <2>6. CASE CheckOwner(r)
      <3>1. \/ Finish(r) \/ Goto(r, call[r], "delete")
            \/ Goto(r, [call[r] EXCEPT !.tarefa = Concluir(call[r].tarefa)], "update")
        BY <2>6, SMT DEF CheckOwner
      <3> QED
        <4>1. ASSUME Goto(r, call[r], "delete")
              PROVE  call'[r].pc # "idle"
          BY <1>0, <4>1 DEF Goto, Locals
        <4> QED
          BY <1>0, <2>1, <3>1, <4>1, LabelOf
    <2> QED
      BY <2>2, <2>3, <2>4, <2>5, <2>6, <2>7 DEF Step
  <1>3. CASE Save(r) \/ Update(r) \/ Delete(r)
    <2>1. call'[r].pc = "deleteCache"
      BY <1>0, <1>3 DEF Save, Update, Delete, Goto, Locals
    <2>2. redis' = redis /\ memory' = memory
      BY <1>3 DEF Save, Update, Delete, caches
    <2>3. ReadersRan'
      BY <1>0, <1>1, <1>2, <2>2 DEF StaleInv, ReadersRan, At
    <2> QED
      BY <2>1, <2>3 DEF StaleInv, StaleListHasCause, At
  <1>4. CASE DeleteCache(r)
    <2>1. Cached' = NoList /\ redis' \in {redis, NoList} /\ memory' \in {memory, NoList}
      BY <1>4 DEF DeleteCache, Cached
    <2>2. ReadersRan'
      BY <1>0, <1>1, <1>2, <2>1 DEF StaleInv, ReadersRan, At
    <2> QED
      BY <2>1, <2>2 DEF StaleInv, StaleListHasCause
  <1>5. CASE SetCache(r)
    <2>1. /\ call[r].list.reader = r
          /\ r \in alone => call[r].list.rows = List
      BY <1>5 DEF SetCache, At, StaleInv, RowInv, Consistent, ReadIsTrue
    <2>2. /\ Cached' = call[r].list /\ List' = List /\ alone' = alone
          /\ redis' \in {redis, call[r].list} /\ memory' \in {memory, call[r].list}
      BY <1>5 DEF SetCache, Cached, List, Live
    <2>3. ReadersRan'
      BY <1>0, <1>1, <1>2, <2>1, <2>2 DEF StaleInv, ReadersRan, At
    <2> QED
      BY <2>1, <2>2, <2>3 DEF StaleInv, StaleListHasCause
  <1>6. CASE OnlyReads /\ call[r].pc # "deleteCache"
    <2>1. \A q \in Requests : /\ At(q, "deleteCache") => At(q, "deleteCache")'
                              /\ ~ At(q, "idle") => ~ At(q, "idle")'
      BY <1>1, <1>2, <1>6 DEF At
    <2> QED
      BY <1>6, <2>1, EntriesStay DEF OnlyReads, RowsStay, caches
  <1> QED
    BY <1>3, <1>4, <1>5, <1>6
       DEF Step, CheckBloco, NextPosition, Find, CheckOwner, Dispatch, Notify, GetCache, Select, At

LEMMA StaleBeginOK ==
  ASSUME StaleInv, RowInv', NEW r \in Requests, NEW op \in Operations, NEW id \in Ids,
         NEW update \in Updates \cup {Idle.update}, Begin(r, op, id, update)
  PROVE  StaleInv'
  <1>0. /\ call \in [Requests -> Locals] /\ call' \in [Requests -> Locals]
        /\ \A e \in {redis, memory} : e # NoList => e.reader \in Requests
        /\ Cached \in {redis, memory}
    BY ListFacts DEF StaleInv, RowInv, TypeInv
  <1>1. \A q \in Requests \ {r} : call'[q] = call[q]
    BY <1>0 DEF Begin, Goto
  <1>2. call[r].pc = "idle"
    BY DEF Begin, At
  <1>3. \A e \in {redis, memory} : e # NoList => e.reader # r
    BY <1>2 DEF StaleInv, ReadersRan, At
  <1>4. /\ redis' = redis /\ memory' = memory /\ Cached' = Cached /\ List' = List
        /\ faults' = faults /\ alone' \subseteq alone \cup {r}
    BY DEF Begin, caches, Cached, List, Live
  <1>5. ReadersRan'
    BY <1>0, <1>1, <1>3, <1>4 DEF StaleInv, ReadersRan, At
  <1>6. \A q \in Requests : At(q, "deleteCache") => At(q, "deleteCache")'
    BY <1>1, <1>2 DEF At
  <1>7. StaleListHasCause'
    BY <1>0, <1>3, <1>4, <1>6 DEF StaleInv, StaleListHasCause
  <1> QED
    BY <1>5, <1>7 DEF StaleInv

LEMMA StaleErrorOK ==
  ASSUME StaleInv, RowInv', NEW r \in Requests, RedisError(r) \/ Fail(r)
  PROVE  StaleInv'
  <1>0. /\ call \in [Requests -> Locals] /\ call' \in [Requests -> Locals]
        /\ \A e \in {redis, memory} : e # NoList => e.reader \in Requests
    BY ListFacts DEF StaleInv, RowInv, TypeInv
  <1>1. \A q \in Requests \ {r} : call'[q] = call[q]
    <2>1. \E d : call' = [call EXCEPT ![r] = d]
      BY Zenon DEF RedisError, Fail, AfterWrite, Goto, Finish
    <2> QED
      BY <1>0, <2>1
  <1>2. call'[r].pc # "idle"
    BY <1>0, AfterWriteCases DEF RedisError, Fail, Goto, Finish, Idle, Locals
  <1>3. CASE RedisError(r)
    <2>1. faults' > 0
      BY <1>3 DEF RedisError, StaleInv, RowInv, TypeInv
    <2>2. redis' \in {redis, NoList} /\ memory' \in {memory, NoList}
      BY <1>3 DEF RedisError
    <2>3. ReadersRan'
      BY <1>0, <1>1, <1>2, <2>2 DEF StaleInv, ReadersRan, At
    <2> QED
      BY <2>1, <2>3 DEF StaleInv, StaleListHasCause
  <1>4. CASE Fail(r)
    <2>1. \A q \in Requests : /\ At(q, "deleteCache") => At(q, "deleteCache")'
                              /\ ~ At(q, "idle") => ~ At(q, "idle")'
      BY <1>1, <1>2, <1>4 DEF Fail, At
    <2> QED
      BY <1>4, <2>1, EntriesStay DEF Fail, RowsStay, caches
  <1> QED
    BY <1>3, <1>4

LEMMA StaleCrashOK ==
  ASSUME StaleInv, RowInv', Crash
  PROVE  StaleInv'
  <1>1. faults' > 0
    BY DEF Crash, StaleInv, RowInv, TypeInv
  <1>2. PICK d : d = [Idle EXCEPT !.pc = "done"]
    OBVIOUS
  <1>3. \A q \in Requests : ~ At(q, "idle") => ~ At(q, "idle")'
    BY <1>2 DEF Crash, At, Idle
  <1>4. \A e \in {redis, memory} : e # NoList => e.reader \in Requests
    BY ListFacts DEF StaleInv, RowInv, TypeInv
  <1>5. ReadersRan'
    BY <1>3, <1>4 DEF Crash, StaleInv, ReadersRan
  <1> QED
    BY <1>1, <1>5 DEF StaleInv, StaleListHasCause

LEMMA StaleNextOK ==
  ASSUME StaleInv, [Next]_vars
  PROVE  StaleInv'
  <1>0. RowInv'
    BY NextOK DEF StaleInv
  <1>1. CASE Expire \/ UNCHANGED vars
    BY <1>0, <1>1, EntriesStay DEF Expire, vars, caches, RowsStay, At
  <1> QED
    BY <1>0, <1>1, NextCases, StaleBeginOK, StaleStepOK, StaleErrorOK, StaleCrashOK

(* A writer never leaves a stale list behind by itself.                    *)
THEOREM StaleListsHaveCauses == Spec => []StaleListHasCause
  <1>1. Init => StaleInv
    BY InitConsistent DEF Init, StaleInv, ReadersRan, StaleListHasCause, Cached
  <1>2. StaleInv => StaleListHasCause
    BY DEF StaleInv
  <1> QED
    BY <1>1, <1>2, StaleNextOK, PTL DEF Spec

=============================================================================
