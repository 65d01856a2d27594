---------------------------- MODULE Timers_proofs ----------------------------
(***************************************************************************)
(* What holds of the timers and of the pool for any number of requests,    *)
(* ids, connections and failures, and any degree of concurrency.           *)
(***************************************************************************)
EXTENDS Timers, FiniteSetTheorems, TLAPS

(* The connections that are out are those of the handlers that hold one.   *)
Accounted == IsFiniteSet(Holding) /\ free + Cardinality(Holding) = PoolSize

(* A request that is being handled names a timer.                          *)
WellFormed == {c \in Locals : c.pc \notin {"idle", "done"} => c.id \in Ids}

CallsOK == call \in [Requests -> Locals] /\ call \in [Requests -> WellFormed]

PoolInv == TypeOK /\ CallsOK /\ Accounted

-----------------------------------------------------------------------------
(* The locals of the handlers *)

LEMMA GotoOK ==
  ASSUME CallsOK, NEW r \in Requests, NEW c \in Locals, c.id \in Ids,
         NEW label \in InTransaction \cup {"idle", "connect", "deleteTimer", "done"},
         Goto(r, c, label)
  PROVE  /\ CallsOK'
         /\ (label \in InTransaction <=> call[r].pc \in InTransaction) => Holding' = Holding
         /\ label \in InTransaction => Holding' = Holding \cup {r}
  <1>1. /\ [c EXCEPT !.pc = label] \in Locals /\ [c EXCEPT !.pc = label].pc = label
        /\ [c EXCEPT !.pc = label] \in WellFormed
    BY DEF Locals, WellFormed
  <1>2. CallsOK'
    BY <1>1 DEF Goto, CallsOK
  <1>3. call'[r].pc = label /\ \A q \in Requests \ {r} : call'[q] = call[q]
    BY <1>1 DEF Goto, CallsOK
  <1> QED
    BY <1>2, <1>3 DEF Holding

(* A handler that ends holds nothing.                                      *)
LEMMA EndOK ==
  ASSUME CallsOK, NEW r \in Requests,
         call' = [call EXCEPT ![r] = [Idle EXCEPT !.pc = "done"]]
  PROVE  CallsOK' /\ Holding' = Holding \ {r}
  <1>1. /\ [Idle EXCEPT !.pc = "done"] \in WellFormed
        /\ [Idle EXCEPT !.pc = "done"] \in Locals
        /\ [Idle EXCEPT !.pc = "done"].pc \notin InTransaction
    BY DEF Idle, Locals, Operations, InTransaction, WellFormed
  <1>2. CallsOK'
    BY <1>1 DEF CallsOK
  <1>3. call'[r].pc \notin InTransaction /\ \A q \in Requests \ {r} : call'[q] = call[q]
    BY <1>1 DEF CallsOK
  <1> QED
    BY <1>2, <1>3 DEF Holding

-----------------------------------------------------------------------------
(* The pool *)

(* A handler that holds a connection gives it back, and its locks.         *)
LEMMA ReleaseOK ==
  ASSUME PoolInv, NEW r \in Holding, Release(r)
  PROVE  /\ Accounted' /\ free' \in 0 .. PoolSize
         /\ CallsOK'
         /\ locked' \in [Requests -> Ids \cup {NoTimer}]
  <1>1. r \in Requests /\ Holding' = Holding \ {r} /\ CallsOK'
    BY EndOK DEF PoolInv, Holding, Release
  <1>2. IsFiniteSet(Holding') /\ Cardinality(Holding') = Cardinality(Holding) - 1
    BY <1>1, FS_RemoveElement DEF PoolInv, Accounted
  <1>3. Cardinality(Holding) \in Nat /\ Cardinality(Holding') \in Nat
    BY <1>2, FS_CardinalityType DEF PoolInv, Accounted
  <1>4. free' = free + 1 /\ free \in 0 .. PoolSize /\ PoolSize \in Nat
    BY BoundsAssumption DEF Release, PoolInv, CallsOK, TypeOK
  <1>5. locked' \in [Requests -> Ids \cup {NoTimer}]
    BY DEF Release, PoolInv, CallsOK, TypeOK
  <1> QED
    BY <1>1, <1>2, <1>3, <1>4, <1>5 DEF PoolInv, Accounted

(* Nothing goes out or comes back.                                         *)
LEMMA StayOK ==
  ASSUME PoolInv, Holding' = Holding, free' = free
  PROVE  Accounted' /\ free' \in 0 .. PoolSize
  BY DEF PoolInv, Accounted, TypeOK

LEMMA RollbackOK ==
  ASSUME PoolInv, NEW r \in Holding, Rollback(r)
  PROVE  PoolInv'
  BY ReleaseOK DEF Rollback, rows, PoolInv, CallsOK, TypeOK

LEMMA EndWithErrorOK ==
  ASSUME PoolInv, NEW r \in Requests, EndWithError(r)
  PROVE  /\ Accounted' /\ free' \in 0 .. PoolSize
         /\ CallsOK'
         /\ locked' \in [Requests -> Ids \cup {NoTimer}]
  <1>1. CASE r \in Holding
    BY <1>1, ReleaseOK DEF EndWithError
  <1>2. CASE r \notin Holding
    <2>1. Holding' = Holding /\ CallsOK'
      BY <1>2, EndOK DEF EndWithError, PoolInv
    <2> QED
      BY <1>2, <2>1, StayOK DEF EndWithError, PoolInv, CallsOK, TypeOK
  <1> QED
    BY <1>1, <1>2

-----------------------------------------------------------------------------
LEMMA HoldingOK ==
  ASSUME PoolInv, NEW r \in Holding
  PROVE  r \in Requests /\ call[r] \in Locals /\ call[r].id \in Ids
  BY DEF PoolInv, CallsOK, WellFormed, Holding, InTransaction

(* The steps of a handler that read, and hold what they held.              *)
LEMMA ReadOK ==
  ASSUME PoolInv, NEW r \in Holding, NEW c \in Locals, c.id \in Ids,
         NEW label \in InTransaction, Goto(r, c, label), OnlyReads
  PROVE  PoolInv'
  <1>1. r \in Requests /\ CallsOK' /\ Holding' = Holding
    BY GotoOK DEF Holding, PoolInv
  <1>2. Accounted' /\ free' \in 0 .. PoolSize
    BY <1>1, StayOK DEF OnlyReads
  <1> QED
    BY <1>1, <1>2 DEF OnlyReads, PoolInv, CallsOK, TypeOK

(* The steps that hold what they held and write something else.            *)
LEMMA WriteOK ==
  ASSUME PoolInv, NEW r \in Holding, NEW label \in InTransaction,
         Goto(r, call[r], label), free' = free
  PROVE  Accounted' /\ free' \in 0 .. PoolSize /\ CallsOK'
  <1>1. r \in Requests /\ call[r] \in Locals /\ call[r].id \in Ids
    BY HoldingOK
  <1>2. CallsOK' /\ Holding' = Holding
    BY <1>1, GotoOK DEF Holding, PoolInv
  <1> QED
    BY <1>2, StayOK

LEMMA InitOK == Init => PoolInv
  <1> SUFFICES ASSUME Init PROVE PoolInv
    OBVIOUS
  <1>1. Idle \in Locals /\ Idle.pc \notin InTransaction
    BY DEF Idle, Locals, Operations, InTransaction
  <1>2. Holding = {}
    BY <1>1 DEF Init, Holding
  <1>3. Accounted
    BY <1>2, FS_EmptySet, BoundsAssumption DEF Accounted, Init
  <1>4. timers \in [Ids -> Row]
    BY DEF Init, Row, Absent
  <1>5. CallsOK
    BY <1>1 DEF Init, CallsOK, WellFormed, Idle
  <1>6. free \in 0 .. PoolSize /\ failures \in 0 .. MaxFailures
    BY BoundsAssumption DEF Init
  <1>7. locked \in [Requests -> Ids \cup {NoTimer}] /\ renamed \in [Ids -> Requests \cup {NoTitle}]
    BY DEF Init
  <1>8. timerLogs \in [Ids -> Nat] /\ notified \in Nat /\ overlapped \in BOOLEAN
    BY DEF Init
  <1> QED
    BY <1>3, <1>4, <1>5, <1>6, <1>7, <1>8 DEF PoolInv, CallsOK, TypeOK

LEMMA BeginOK ==
  ASSUME PoolInv, NEW r \in Requests, NEW op \in Operations, NEW id \in Ids, Begin(r, op, id)
  PROVE  PoolInv'
  <1>0. PICK c : c = [Idle EXCEPT !.op = op, !.id = id]
    OBVIOUS
  <1>1. c \in Locals /\ c.id \in Ids
    BY <1>0 DEF Idle, Locals
  <1>2. call[r].pc \notin InTransaction /\ {"connect", "deleteTimer"} \cap InTransaction = {}
    BY DEF Begin, At, InTransaction
  <1>3. CallsOK' /\ Holding' = Holding
    BY <1>0, <1>1, <1>2, GotoOK DEF Begin, PoolInv
  <1>4. Accounted' /\ free' \in 0 .. PoolSize
    BY <1>3, StayOK DEF Begin
  <1> QED
    BY <1>3, <1>4 DEF Begin, rows, PoolInv, CallsOK, TypeOK

LEMMA ConnectOK ==
  ASSUME PoolInv, NEW r \in Requests, Connect(r)
  PROVE  PoolInv'
  <1>1. call[r] \in Locals /\ call[r].id \in Ids /\ r \notin Holding
    BY DEF PoolInv, CallsOK, WellFormed, Connect, At, Holding, InTransaction
  <1>2. {"findNucleo", "findTimer"} \subseteq InTransaction
    BY DEF InTransaction
  <1>3. CallsOK' /\ Holding' = Holding \cup {r}
    BY <1>1, <1>2, GotoOK DEF Connect, PoolInv
  <1>4. IsFiniteSet(Holding') /\ Cardinality(Holding') = Cardinality(Holding) + 1
    BY <1>1, <1>3, FS_AddElement DEF PoolInv, Accounted
  <1>5. Cardinality(Holding) \in Nat
    BY FS_CardinalityType DEF PoolInv, Accounted
  <1>6. Accounted' /\ free' \in 0 .. PoolSize
    BY <1>4, <1>5 DEF Connect, FromPool, PoolInv, Accounted, TypeOK
  <1> QED
    BY <1>3, <1>6 DEF Connect, rows, PoolInv, CallsOK, TypeOK

-----------------------------------------------------------------------------
(* StartTimerHandler *)

LEMMA FindNucleoOK ==
  ASSUME PoolInv, NEW r \in Requests, FindNucleo(r)
  PROVE  PoolInv'
  <1>1. r \in Holding /\ "findActive" \in InTransaction
    BY DEF FindNucleo, At, Holding, InTransaction
  <1> QED
    BY <1>1, HoldingOK, ReadOK DEF FindNucleo

LEMMA FindActiveOK ==
  ASSUME PoolInv, NEW r \in Requests, FindActive(r)
  PROVE  PoolInv'
  <1>1. r \in Holding /\ "insertTimer" \in InTransaction
    BY DEF FindActive, At, Holding, InTransaction
  <1> QED
    BY <1>1, HoldingOK, ReadOK, RollbackOK DEF FindActive

LEMMA InsertTimerOK ==
  ASSUME PoolInv, NEW r \in Requests, InsertTimer(r)
  PROVE  PoolInv'
  <1>1. r \in Holding /\ "commitStart" \in InTransaction
    BY DEF InsertTimer, At, Holding, InTransaction
  <1> QED
    BY <1>1, HoldingOK, ReadOK DEF InsertTimer

LEMMA CommitStartOK ==
  ASSUME PoolInv, NEW r \in Requests, CommitStart(r)
  PROVE  PoolInv'
  <1>1. r \in Holding
    BY DEF CommitStart, At, Holding, InTransaction
  <1>2. timers' \in [Ids -> Row]
    BY DEF CommitStart, PoolInv, TypeOK, Row
  <1> QED
    BY <1>1, <1>2, ReleaseOK DEF CommitStart, PoolInv, CallsOK, TypeOK

-----------------------------------------------------------------------------
(* StopTimerHandler, UpdateTimerHandler and DeleteTimerHandler *)

LEMMA FindTimerOK ==
  ASSUME PoolInv, NEW r \in Requests, FindTimer(r)
  PROVE  PoolInv'
  <1>1. r \in Holding /\ "check" \in InTransaction
    BY DEF FindTimer, At, Holding, InTransaction
  <1>2. CASE Exists(call[r].id)
    <2>1. PICK c : c = [call[r] EXCEPT !.titulo = timers[call[r].id].titulo,
                                       !.wasRunning = Running(call[r].id)]
      OBVIOUS
    <2>2. Goto(r, c, "check") /\ OnlyReads
      BY <1>2, <2>1 DEF FindTimer
    <2>3. timers[call[r].id].titulo \in Requests \cup {NoTitle} /\ Running(call[r].id) \in BOOLEAN
      BY <1>1, HoldingOK DEF PoolInv, TypeOK, Row, Running
    <2>4. c \in Locals /\ c.id \in Ids
      BY <1>1, <2>1, <2>3, HoldingOK DEF Locals
    <2> QED
      BY <1>1, <2>2, <2>4, ReadOK
  <1>3. CASE ~ Exists(call[r].id)
    BY <1>1, <1>3, RollbackOK DEF FindTimer
  <1> QED
    BY <1>2, <1>3

LEMMA CheckOK ==
  ASSUME PoolInv, NEW r \in Requests, Check(r)
  PROVE  PoolInv'
  <1>1. r \in Holding /\ {"updateTitle", "updateStopped"} \subseteq InTransaction
    BY DEF Check, At, Holding, InTransaction
  <1>2. ASSUME NEW minutes \in Minutes,
               Goto(r, [call[r] EXCEPT !.minutes = minutes], "updateStopped"), OnlyReads
        PROVE  PoolInv'
    <2>1. PICK c : c = [call[r] EXCEPT !.minutes = minutes]
      OBVIOUS
    <2>2. minutes \in Nat
      BY BoundsAssumption
    <2>3. c \in Locals /\ c.id \in Ids
      BY <1>1, <2>1, <2>2, HoldingOK DEF Locals
    <2> QED
      BY <1>1, <1>2, <2>1, <2>3, ReadOK
  <1>3. CASE Goto(r, call[r], "updateTitle") /\ OnlyReads
    BY <1>1, <1>3, HoldingOK, ReadOK
  <1>4. CASE Rollback(r)
    BY <1>1, <1>4, RollbackOK
  <1> QED
    BY <1>2, <1>3, <1>4 DEF Check

LEMMA UpdateStoppedOK ==
  ASSUME PoolInv, NEW r \in Requests, UpdateStopped(r)
  PROVE  PoolInv'
  <1>1. r \in Holding /\ "findStopped" \in InTransaction
    BY DEF UpdateStopped, At, Holding, InTransaction
  <1>2. timers' \in [Ids -> Row]
    BY <1>1, HoldingOK DEF UpdateStopped, Exists, PoolInv, TypeOK, Row, Locals
  <1>3. Accounted' /\ free' \in 0 .. PoolSize /\ CallsOK'
    BY <1>1, WriteOK DEF UpdateStopped
  <1> QED
    BY <1>2, <1>3 DEF UpdateStopped, PoolInv, CallsOK, TypeOK

LEMMA FindStoppedOK ==
  ASSUME PoolInv, NEW r \in Requests, FindStopped(r)
  PROVE  PoolInv'
  <1>1. r \in Holding /\ {"insertLog", "findNotification"} \subseteq InTransaction
    BY DEF FindStopped, At, Holding, InTransaction
  <1> QED
    BY <1>1, HoldingOK, ReadOK DEF FindStopped

LEMMA InsertLogOK ==
  ASSUME PoolInv, NEW r \in Requests, InsertLog(r)
  PROVE  PoolInv'
  <1>1. r \in Holding /\ "findNotification" \in InTransaction
    BY DEF InsertLog, At, Holding, InTransaction
  <1> QED
    BY <1>1, HoldingOK, ReadOK DEF InsertLog

LEMMA FindNotificationOK ==
  ASSUME PoolInv, NEW r \in Requests, FindNotification(r)
  PROVE  PoolInv'
  <1>1. r \in Holding /\ {"commitStop", "insertNotification"} \subseteq InTransaction
    BY DEF FindNotification, At, Holding, InTransaction
  <1> QED
    BY <1>1, HoldingOK, ReadOK DEF FindNotification

LEMMA InsertNotificationOK ==
  ASSUME PoolInv, NEW r \in Requests, InsertNotification(r)
  PROVE  PoolInv'
  <1>1. r \in Holding /\ "commitStop" \in InTransaction
    BY DEF InsertNotification, At, Holding, InTransaction
  <1>2. Accounted' /\ free' \in 0 .. PoolSize /\ CallsOK'
    BY <1>1, WriteOK DEF InsertNotification
  <1> QED
    BY <1>2 DEF InsertNotification, PoolInv, CallsOK, TypeOK

LEMMA CommitStopOK ==
  ASSUME PoolInv, NEW r \in Requests, CommitStop(r)
  PROVE  PoolInv'
  <1>1. r \in Holding
    BY DEF CommitStop, At, Holding, InTransaction
  <1>2. timerLogs' \in [Ids -> Nat]
    BY <1>1, HoldingOK DEF CommitStop, PoolInv, TypeOK
  <1> QED
    BY <1>1, <1>2, ReleaseOK DEF CommitStop, PoolInv, CallsOK, TypeOK

LEMMA UpdateTitleOK ==
  ASSUME PoolInv, NEW r \in Requests, UpdateTitle(r)
  PROVE  PoolInv'
  <1>1. r \in Holding /\ "commitTitle" \in InTransaction
    BY DEF UpdateTitle, At, Holding, InTransaction
  <1>2. locked' \in [Requests -> Ids \cup {NoTimer}]
    BY <1>1, HoldingOK DEF UpdateTitle, PoolInv, TypeOK
  <1>3. Accounted' /\ free' \in 0 .. PoolSize /\ CallsOK'
    BY <1>1, WriteOK DEF UpdateTitle
  <1> QED
    BY <1>2, <1>3 DEF UpdateTitle, rows, PoolInv, CallsOK, TypeOK

LEMMA CommitTitleOK ==
  ASSUME PoolInv, NEW r \in Requests, CommitTitle(r)
  PROVE  PoolInv'
  <1>1. r \in Holding /\ "findRenamed" \in InTransaction
    BY DEF CommitTitle, At, Holding, InTransaction
  <1>2. timers' \in [Ids -> Row] /\ renamed' \in [Ids -> Requests \cup {NoTitle}]
    BY DEF CommitTitle, PoolInv, TypeOK, Row
  <1>3. locked' \in [Requests -> Ids \cup {NoTimer}]
    BY DEF CommitTitle, PoolInv, TypeOK
  <1>4. Accounted' /\ free' \in 0 .. PoolSize /\ CallsOK'
    BY <1>1, WriteOK DEF CommitTitle
  <1> QED
    BY <1>2, <1>3, <1>4 DEF CommitTitle, PoolInv, CallsOK, TypeOK

LEMMA FindRenamedOK ==
  ASSUME PoolInv, NEW r \in Requests, FindRenamed(r)
  PROVE  PoolInv'
  <1>1. r \in Holding
    BY DEF FindRenamed, At, Holding, InTransaction
  <1> QED
    BY <1>1, RollbackOK DEF FindRenamed

LEMMA DeleteTimerOK ==
  ASSUME PoolInv, NEW r \in Requests, DeleteTimer(r)
  PROVE  PoolInv'
  <1>1. r \notin Holding
    BY DEF DeleteTimer, At, Holding, InTransaction
  <1>2. CallsOK' /\ Holding' = Holding
    BY <1>1, EndOK DEF DeleteTimer, PoolInv
  <1>3. Accounted' /\ free' \in 0 .. PoolSize
    BY <1>2, StayOK DEF DeleteTimer
  <1>4. timers' \in [Ids -> Row]
    BY DEF DeleteTimer, PoolInv, TypeOK, Row
  <1> QED
    BY <1>2, <1>3, <1>4 DEF DeleteTimer, PoolInv, CallsOK, TypeOK

-----------------------------------------------------------------------------
(* Errors *)

LEMMA TimeoutOK ==
  ASSUME PoolInv, NEW r \in Requests, Timeout(r)
  PROVE  PoolInv'
  BY EndWithErrorOK DEF Timeout, rows, PoolInv, CallsOK, TypeOK

LEMMA FailOK ==
  ASSUME PoolInv, NEW r \in Requests, Fail(r)
  PROVE  PoolInv'
  <1>1. failures' \in 0 .. MaxFailures
    BY BoundsAssumption DEF Fail, PoolInv, TypeOK
  <1> QED
    BY <1>1, EndWithErrorOK DEF Fail, rows, PoolInv, CallsOK, TypeOK

LEMMA PoolInvIsInductive == PoolInv /\ [Next]_vars => PoolInv'
  <1> SUFFICES ASSUME PoolInv, [Next]_vars PROVE PoolInv'
    OBVIOUS
  <1>1. ASSUME NEW r \in Requests, Step(r) PROVE PoolInv'
    BY <1>1, ConnectOK, FindNucleoOK, FindActiveOK, InsertTimerOK, CommitStartOK, FindTimerOK,
       CheckOK, UpdateStoppedOK, FindStoppedOK, InsertLogOK, FindNotificationOK,
       InsertNotificationOK, CommitStopOK, UpdateTitleOK, CommitTitleOK, FindRenamedOK,
       DeleteTimerOK, TimeoutOK DEF Step
  <1>2. CASE UNCHANGED vars
    BY <1>2 DEF vars, PoolInv, TypeOK, CallsOK, Accounted, Holding
  <1> QED
    BY <1>1, <1>2, BeginOK, FailOK DEF Next, Quiet

LEMMA PoolInvHolds == Spec => []PoolInv
  BY InitOK, PoolInvIsInductive, PTL DEF Spec

(* Rows, handlers and the pool are well typed; in particular the pool      *)
(* never hands out more connections than it has, nor gets back more.       *)
THEOREM TypeCorrect == Spec => []TypeOK
  BY PoolInvHolds, PTL DEF PoolInv

(* For a pool of any size and any number of handlers, whichever statement  *)
(* fails or times out: what is free and what is held add up to the pool.   *)
THEOREM NoConnectionLeaks == Spec => []ConnectionsReturned
  <1>1. PoolInv => ConnectionsReturned
    BY DEF PoolInv, Accounted, ConnectionsReturned
  <1> QED
    BY <1>1, PoolInvHolds, PTL

-----------------------------------------------------------------------------
(* XP for stopped timers.  A stop writes the row outside of the transaction*)
(* of its XP, so that the row says "stopped" before the XP is committed;   *)
(* what may change the row in between is a deletion, and never a start: an *)
(* id is given to one start, which finds it without a row.                 *)

Starting == {"findNucleo", "findActive", "insertTimer", "commitStart"}
Stopping == {"findStopped", "insertLog", "findNotification", "insertNotification", "commitStop"}
Found == {"check", "updateStopped"} \cup Stopping

(* What the locals of a handler say of the row it names.                   *)
Follows(c) ==
    /\ c.pc \in Starting => c.op = "start"
    /\ c.op = "start" => c.id \in Ids /\ timers[c.id].status = "absent"
    /\ c.pc \in Found => timers[c.id].status # "absent"
    /\ c.pc \in Stopping => timers[c.id].status \in {"stopped", "deleted"}

StopInv ==
    /\ PoolInv
    /\ XpForStoppedTimer
    /\ \A r \in Requests : Follows(call[r])
    /\ \A q, r \in Requests :
          (call[q].op = "start" /\ call[r].op = "start" /\ call[q].id = call[r].id) => q = r

(* What a step leaves as it is when it concerns neither a row's status nor *)
(* XP.                                                                     *)
RowsStay ==
    /\ \A id \in Ids : timers'[id].status = timers[id].status
    /\ timerLogs' = timerLogs

(* From the locals c, a label of which the rows ask for nothing new.       *)
Onward(c, label) ==
    /\ label \in Starting => c.op = "start"
    /\ label \in Found => c.pc \in Found
    /\ label \in Stopping => c.pc \in Stopping

(* A step that leaves the rows: only its own handler has to follow them.   *)
LEMMA RowsKept ==
  ASSUME StopInv, PoolInv', NEW r \in Requests, NEW c,
         call' = [call EXCEPT ![r] = c], Follows(c),
         c.op = "start" => call[r].op = "start" /\ c.id = call[r].id,
         RowsStay
  PROVE  StopInv'
  <1>1. call'[r] = c /\ \A q \in Requests \ {r} : call'[q] = call[q]
    BY DEF StopInv, PoolInv, CallsOK
  <1>2. \A q \in Requests : call'[q].pc \in Found => call'[q].id \in Ids
    BY DEF PoolInv, CallsOK, WellFormed, Found, Stopping
  <1>3. XpForStoppedTimer'
    BY DEF StopInv, XpForStoppedTimer, RowsStay
  <1>4. ASSUME NEW q \in Requests PROVE Follows(call[q])'
    <2>1. Follows(call'[q])
      BY <1>1 DEF StopInv
    <2>2. call'[q].pc \in Found => timers'[call'[q].id].status = timers[call'[q].id].status
      BY <1>2 DEF RowsStay
    <2>3. call'[q].op = "start" =>
             call'[q].id \in Ids /\ timers'[call'[q].id].status = timers[call'[q].id].status
      BY <2>1 DEF Follows, RowsStay
    <2> QED
      BY <2>1, <2>2, <2>3 DEF Follows, Found
  <1>5. ASSUME NEW p \in Requests, NEW q \in Requests,
               call'[p].op = "start", call'[q].op = "start", call'[p].id = call'[q].id
        PROVE  p = q
    BY <1>1, <1>5 DEF StopInv
  <1> QED
    BY <1>3, <1>4, <1>5 DEF StopInv

(* The locals of a handler that has ended follow nothing.                  *)
LEMMA EndKept ==
  ASSUME StopInv, PoolInv', NEW r \in Requests,
         call' = [call EXCEPT ![r] = [Idle EXCEPT !.pc = "done"]],
         RowsStay
  PROVE  StopInv'
  <1>1. PICK c : c = [Idle EXCEPT !.pc = "done"]
    OBVIOUS
  <1>2. Follows(c) /\ c.op # "start"
    BY <1>1 DEF Idle, Follows, Starting, Found, Stopping
  <1> QED
    BY <1>1, <1>2, RowsKept

(* A handler that goes on with the locals it has.                          *)
LEMMA GotoKept ==
  ASSUME StopInv, PoolInv', NEW r \in Requests, NEW label,
         Goto(r, call[r], label), Follows([call[r] EXCEPT !.pc = label]),
         RowsStay
  PROVE  StopInv'
  <1>1. PICK c : c = [call[r] EXCEPT !.pc = label]
    OBVIOUS
  <1>2. call[r] \in Locals
    BY DEF StopInv, PoolInv, CallsOK
  <1>3. c.op = call[r].op /\ c.id = call[r].id
    BY <1>1, <1>2 DEF Locals
  <1> QED
    BY <1>1, <1>3, RowsKept DEF Goto

LEMMA NextFollows ==
  ASSUME NEW c \in Locals, Follows(c), NEW label,
         Onward(c, label)
  PROVE  Follows([c EXCEPT !.pc = label])
  <1>1. PICK d : d = [c EXCEPT !.pc = label]
    OBVIOUS
  <1>2. d.pc = label /\ d.op = c.op /\ d.id = c.id
    BY <1>1 DEF Locals
  <1> QED
    BY <1>1, <1>2 DEF Follows, Onward

(* A step between two labels of which the rows ask for the same.           *)
LEMMA ReadKept ==
  ASSUME StopInv, PoolInv', NEW r \in Requests, NEW label,
         Goto(r, call[r], label),
         Onward(call[r], label),
         RowsStay
  PROVE  StopInv'
  <1>1. call[r] \in Locals /\ Follows(call[r])
    BY DEF StopInv, PoolInv, CallsOK
  <1> QED
    BY <1>1, NextFollows, GotoKept

LEMMA RollbackKept ==
  ASSUME StopInv, PoolInv', NEW r \in Requests, Rollback(r)
  PROVE  StopInv'
  <1>1. RowsStay
    BY DEF Rollback, rows, RowsStay
  <1> QED
    BY <1>1, EndKept DEF Rollback, Release

LEMMA ReadsStay == ASSUME OnlyReads PROVE RowsStay
  BY DEF OnlyReads, RowsStay

LEMMA BeginKept ==
  ASSUME StopInv, PoolInv', NEW r \in Requests, NEW op \in Operations, NEW id \in Ids,
         Begin(r, op, id)
  PROVE  StopInv'
  <1>1. PICK label \in {"connect", "deleteTimer"} :
           call' = [call EXCEPT ![r] = [[Idle EXCEPT !.op = op, !.id = id] EXCEPT !.pc = label]]
    BY DEF Begin, Goto
  <1>2. PICK c : c = [[Idle EXCEPT !.op = op, !.id = id] EXCEPT !.pc = label]
    OBVIOUS
  <1>3. c.pc = label /\ c.op = op /\ c.id = id
    BY <1>2 DEF Idle
  <1>4. call'[r] = c /\ \A q \in Requests \ {r} : call'[q] = call[q]
    BY <1>1, <1>2 DEF StopInv, PoolInv, CallsOK
  <1>5. op = "start" => /\ timers[id].status = "absent"
                        /\ \A q \in Requests : call[q].op = "start" => call[q].id # id
    BY DEF Begin
  <1>6. Follows(c)
    BY <1>3, <1>5 DEF Follows, Starting, Found, Stopping
  <1>7. timers' = timers /\ timerLogs' = timerLogs
    BY DEF Begin, rows
  <1>8. \A q \in Requests : Follows(call[q])'
    BY <1>4, <1>6, <1>7 DEF StopInv, Follows
  <1>9. XpForStoppedTimer'
    BY <1>7 DEF StopInv, XpForStoppedTimer
  <1>10. ASSUME NEW p \in Requests, NEW q \in Requests,
                call'[p].op = "start", call'[q].op = "start", call'[p].id = call'[q].id
         PROVE  p = q
    BY <1>3, <1>4, <1>5, <1>10 DEF StopInv
  <1> QED
    BY <1>8, <1>9, <1>10 DEF StopInv

LEMMA ConnectKept ==
  ASSUME StopInv, PoolInv', NEW r \in Requests, Connect(r)
  PROVE  StopInv'
  <1>1. Onward(call[r], IF call[r].op = "start" THEN "findNucleo" ELSE "findTimer")
    BY DEF Connect, At, Onward, Starting, Found, Stopping
  <1>2. RowsStay
    BY DEF Connect, rows, RowsStay
  <1> QED
    BY <1>1, <1>2, ReadKept DEF Connect

LEMMA FindNucleoKept ==
  ASSUME StopInv, PoolInv', NEW r \in Requests, FindNucleo(r)
  PROVE  StopInv'
  <1>1. Onward(call[r], "findActive")
    BY DEF StopInv, Follows, FindNucleo, At, Onward, Starting, Found, Stopping
  <1> QED
    BY <1>1, ReadsStay, ReadKept DEF FindNucleo

LEMMA FindActiveKept ==
  ASSUME StopInv, PoolInv', NEW r \in Requests, FindActive(r)
  PROVE  StopInv'
  <1>1. Onward(call[r], "insertTimer")
    BY DEF StopInv, Follows, FindActive, At, Onward, Starting, Found, Stopping
  <1> QED
    BY <1>1, ReadsStay, ReadKept, RollbackKept DEF FindActive

LEMMA InsertTimerKept ==
  ASSUME StopInv, PoolInv', NEW r \in Requests, InsertTimer(r)
  PROVE  StopInv'
  <1>1. Onward(call[r], "commitStart")
    BY DEF StopInv, Follows, InsertTimer, At, Onward, Starting, Found, Stopping
  <1> QED
    BY <1>1, ReadsStay, ReadKept DEF InsertTimer

LEMMA FindStoppedKept ==
  ASSUME StopInv, PoolInv', NEW r \in Requests, FindStopped(r)
  PROVE  StopInv'
  <1>1. Onward(call[r], "insertLog") /\ Onward(call[r], "findNotification")
    BY DEF FindStopped, At, Onward, Starting, Found, Stopping
  <1> QED
    BY <1>1, ReadsStay, ReadKept DEF FindStopped

LEMMA InsertLogKept ==
  ASSUME StopInv, PoolInv', NEW r \in Requests, InsertLog(r)
  PROVE  StopInv'
  <1>1. Onward(call[r], "findNotification")
    BY DEF InsertLog, At, Onward, Starting, Found, Stopping
  <1> QED
    BY <1>1, ReadsStay, ReadKept DEF InsertLog

LEMMA FindNotificationKept ==
  ASSUME StopInv, PoolInv', NEW r \in Requests, FindNotification(r)
  PROVE  StopInv'
  <1>1. Onward(call[r], "commitStop") /\ Onward(call[r], "insertNotification")
    BY DEF FindNotification, At, Onward, Starting, Found, Stopping
  <1> QED
    BY <1>1, ReadsStay, ReadKept DEF FindNotification

LEMMA InsertNotificationKept ==
  ASSUME StopInv, PoolInv', NEW r \in Requests, InsertNotification(r)
  PROVE  StopInv'
  <1>1. Onward(call[r], "commitStop")
    BY DEF InsertNotification, At, Onward, Starting, Found, Stopping
  <1>2. RowsStay
    BY DEF InsertNotification, RowsStay
  <1> QED
    BY <1>1, <1>2, ReadKept DEF InsertNotification

LEMMA UpdateTitleKept ==
  ASSUME StopInv, PoolInv', NEW r \in Requests, UpdateTitle(r)
  PROVE  StopInv'
  <1>1. Onward(call[r], "commitTitle")
    BY DEF UpdateTitle, At, Onward, Starting, Found, Stopping
  <1>2. RowsStay
    BY DEF UpdateTitle, rows, RowsStay
  <1> QED
    BY <1>1, <1>2, ReadKept DEF UpdateTitle

LEMMA CommitTitleKept ==
  ASSUME StopInv, PoolInv', NEW r \in Requests, CommitTitle(r)
  PROVE  StopInv'
  <1>1. Onward(call[r], "findRenamed")
    BY DEF CommitTitle, At, Onward, Starting, Found, Stopping
  <1>2. RowsStay
    BY DEF CommitTitle, StopInv, PoolInv, TypeOK, Row, RowsStay
  <1> QED
    BY <1>1, <1>2, ReadKept DEF CommitTitle

LEMMA FindRenamedKept ==
  ASSUME StopInv, PoolInv', NEW r \in Requests, FindRenamed(r)
  PROVE  StopInv'
  BY RollbackKept DEF FindRenamed

LEMMA TimeoutKept ==
  ASSUME StopInv, PoolInv', NEW r \in Requests, Timeout(r)
  PROVE  StopInv'
  <1>1. RowsStay
    BY DEF Timeout, rows, RowsStay
  <1> QED
    BY <1>1, EndKept DEF Timeout, EndWithError, Release

LEMMA FailKept ==
  ASSUME StopInv, PoolInv', NEW r \in Requests, Fail(r)
  PROVE  StopInv'
  <1>1. RowsStay
    BY DEF Fail, rows, RowsStay
  <1> QED
    BY <1>1, EndKept DEF Fail, EndWithError, Release

(* The steps that change what the locals of a handler say.                 *)

LEMMA FindTimerKept ==
  ASSUME StopInv, PoolInv', NEW r \in Requests, FindTimer(r)
  PROVE  StopInv'
  <1>1. call[r] \in Locals /\ call[r].pc = "findTimer" /\ Follows(call[r])
    BY DEF FindTimer, At, StopInv, PoolInv, CallsOK
  <1>2. CASE Exists(call[r].id)
    <2>1. PICK c : c = [[call[r] EXCEPT !.titulo = timers[call[r].id].titulo,
                                        !.wasRunning = Running(call[r].id)] EXCEPT !.pc = "check"]
      OBVIOUS
    <2>2. call' = [call EXCEPT ![r] = c] /\ RowsStay
      BY <1>2, <2>1 DEF FindTimer, Goto, OnlyReads, RowsStay
    <2>3. c.pc = "check" /\ c.op = call[r].op /\ c.id = call[r].id
      BY <1>1, <2>1 DEF Locals
    <2>4. timers[c.id].status # "absent"
      BY <1>2, <2>3 DEF Exists
    <2>5. Follows(c)
      BY <1>1, <2>3, <2>4 DEF Follows, Starting, Stopping
    <2> QED
      BY <2>2, <2>3, <2>5, RowsKept
  <1>3. CASE ~ Exists(call[r].id)
    BY <1>3, RollbackKept DEF FindTimer
  <1> QED
    BY <1>2, <1>3

LEMMA CheckKept ==
  ASSUME StopInv, PoolInv', NEW r \in Requests, Check(r)
  PROVE  StopInv'
  <1>1. call[r] \in Locals /\ call[r].pc = "check" /\ Follows(call[r])
    BY DEF Check, At, StopInv, PoolInv, CallsOK
  <1>2. ASSUME NEW minutes \in Minutes,
               Goto(r, [call[r] EXCEPT !.minutes = minutes], "updateStopped"), OnlyReads
        PROVE  StopInv'
    <2>1. PICK c : c = [[call[r] EXCEPT !.minutes = minutes] EXCEPT !.pc = "updateStopped"]
      OBVIOUS
    <2>2. call' = [call EXCEPT ![r] = c] /\ RowsStay
      BY <1>2, <2>1, ReadsStay DEF Goto
    <2>3. c.pc = "updateStopped" /\ c.op = call[r].op /\ c.id = call[r].id
      BY <1>1, <2>1 DEF Locals
    <2>4. Follows(c)
      BY <1>1, <2>3 DEF Follows, Starting, Found, Stopping
    <2> QED
      BY <2>2, <2>3, <2>4, RowsKept
  <1>3. CASE Goto(r, call[r], "updateTitle") /\ OnlyReads
    <2>1. Onward(call[r], "updateTitle")
      BY DEF Onward, Starting, Found, Stopping
    <2> QED
      BY <1>3, <2>1, ReadKept, ReadsStay
  <1>4. CASE Rollback(r)
    BY <1>4, RollbackKept
  <1> QED
    BY <1>2, <1>3, <1>4 DEF Check

-----------------------------------------------------------------------------
(* The steps that change a status, or log XP *)

(* A new row belongs to one start only, and to nothing that was found.     *)
LEMMA CommitStartKept ==
  ASSUME StopInv, PoolInv', NEW r \in Requests, CommitStart(r)
  PROVE  StopInv'
  <1>1. call[r].pc = "commitStart" /\ Follows(call[r])
    BY DEF CommitStart, At, StopInv
  <1>2. call[r].op = "start" /\ call[r].id \in Ids /\ timers[call[r].id].status = "absent"
    BY <1>1 DEF Follows, Starting
  <1>3. \A id \in Ids \ {call[r].id} : timers'[id].status = timers[id].status
    BY DEF CommitStart, StopInv, PoolInv, TypeOK
  <1>4. PICK c : c = [Idle EXCEPT !.pc = "done"]
    OBVIOUS
  <1>5. c.pc = "done" /\ c.op = ""
    BY <1>4 DEF Idle
  <1>6. call'[r] = c /\ \A q \in Requests \ {r} : call'[q] = call[q]
    BY <1>4 DEF CommitStart, Release, StopInv, PoolInv, CallsOK
  <1>7. ASSUME NEW q \in Requests PROVE Follows(call[q])'
    <2>1. CASE q = r
      BY <1>5, <1>6, <2>1 DEF Follows, Starting, Found, Stopping
    <2>2. CASE q # r
      <3>1. Follows(call[q]) /\ call'[q] = call[q]
        BY <1>6, <2>2 DEF StopInv
      <3>2. call[q].op = "start" => call[q].id # call[r].id
        BY <1>2, <2>2 DEF StopInv
      <3>3. call[q].pc \in Found => call[q].id \in Ids /\ call[q].id # call[r].id
        BY <1>2, <3>1 DEF StopInv, PoolInv, CallsOK, WellFormed, Follows, Found, Stopping
      <3> QED
        BY <1>3, <3>1, <3>2, <3>3 DEF Follows, Found
    <2> QED
      BY <2>1, <2>2
  <1>8. XpForStoppedTimer'
    <2>1. timerLogs' = timerLogs /\ ~ (timerLogs[call[r].id] > 0)
      BY <1>2 DEF CommitStart, StopInv, XpForStoppedTimer
    <2> QED
      BY <1>3, <2>1 DEF StopInv, XpForStoppedTimer
  <1>9. ASSUME NEW p \in Requests, NEW q \in Requests,
               call'[p].op = "start", call'[q].op = "start", call'[p].id = call'[q].id
        PROVE  p = q
    BY <1>5, <1>6, <1>9 DEF StopInv
  <1> QED
    BY <1>7, <1>8, <1>9 DEF StopInv

(* A row that was found is stopped, whoever stops it.                      *)
LEMMA UpdateStoppedKept ==
  ASSUME StopInv, PoolInv', NEW r \in Requests, UpdateStopped(r)
  PROVE  StopInv'
  <1>1. call[r] \in Locals /\ call[r].pc = "updateStopped" /\ Follows(call[r])
    BY DEF UpdateStopped, At, StopInv, PoolInv, CallsOK
  <1>2. call[r].id \in Ids /\ timers[call[r].id].status \in {"running", "stopped", "deleted"}
    BY <1>1 DEF StopInv, PoolInv, CallsOK, WellFormed, TypeOK, Row, Follows, Found
  <1>3. /\ timers'[call[r].id].status \in {"stopped", "deleted"}
        /\ \A id \in Ids \ {call[r].id} : timers'[id].status = timers[id].status
    BY <1>2 DEF UpdateStopped, Exists, StopInv, PoolInv, TypeOK
  <1>4. PICK c : c = [call[r] EXCEPT !.pc = "findStopped"]
    OBVIOUS
  <1>5. c.pc = "findStopped" /\ c.op = call[r].op /\ c.id = call[r].id
    BY <1>1, <1>4 DEF Locals
  <1>6. call'[r] = c /\ \A q \in Requests \ {r} : call'[q] = call[q]
    BY <1>4 DEF UpdateStopped, Goto, StopInv, PoolInv, CallsOK
  <1>7. call[r].op # "start"
    BY <1>1, <1>2 DEF Follows
  <1>8. ASSUME NEW q \in Requests PROVE Follows(call[q])'
    <2>1. CASE q = r
      BY <1>3, <1>5, <1>6, <1>7, <2>1 DEF Follows, Starting, Found, Stopping
    <2>2. CASE q # r
      <3>1. Follows(call[q]) /\ call'[q] = call[q]
        BY <1>6, <2>2 DEF StopInv
      <3>2. call[q].op = "start" => call[q].id # call[r].id
        BY <1>2, <3>1 DEF Follows
      <3>3. call[q].pc \in Found => call[q].id \in Ids
        BY DEF StopInv, PoolInv, CallsOK, WellFormed, Found, Stopping
      <3> QED
        BY <1>3, <3>1, <3>2, <3>3 DEF Follows, Found
    <2> QED
      BY <2>1, <2>2
  <1>9. XpForStoppedTimer'
    BY <1>3 DEF UpdateStopped, StopInv, XpForStoppedTimer
  <1>10. ASSUME NEW p \in Requests, NEW q \in Requests,
                call'[p].op = "start", call'[q].op = "start", call'[p].id = call'[q].id
         PROVE  p = q
    BY <1>5, <1>6, <1>7, <1>10 DEF StopInv
  <1> QED
    BY <1>8, <1>9, <1>10 DEF StopInv

LEMMA CommitStopKept ==
  ASSUME StopInv, PoolInv', NEW r \in Requests, CommitStop(r)
  PROVE  StopInv'
  <1>1. call[r].pc = "commitStop" /\ Follows(call[r])
    BY DEF CommitStop, At, StopInv
  <1>2. call[r].id \in Ids /\ timers[call[r].id].status \in {"stopped", "deleted"}
    BY <1>1 DEF StopInv, PoolInv, CallsOK, WellFormed, Follows, Stopping
  <1>3. timers' = timers /\ \A id \in Ids \ {call[r].id} : timerLogs'[id] = timerLogs[id]
    BY DEF CommitStop, StopInv, PoolInv, TypeOK
  <1>4. XpForStoppedTimer'
    BY <1>2, <1>3 DEF StopInv, XpForStoppedTimer
  <1>5. PICK c : c = [Idle EXCEPT !.pc = "done"]
    OBVIOUS
  <1>6. Follows(c) /\ c.op = ""
    BY <1>5 DEF Idle, Follows, Starting, Found, Stopping
  <1>7. call'[r] = c /\ \A q \in Requests \ {r} : call'[q] = call[q]
    BY <1>5 DEF CommitStop, Release, StopInv, PoolInv, CallsOK
  <1>8. \A q \in Requests : Follows(call[q])'
    BY <1>3, <1>6, <1>7 DEF StopInv, Follows
  <1>9. ASSUME NEW p \in Requests, NEW q \in Requests,
               call'[p].op = "start", call'[q].op = "start", call'[p].id = call'[q].id
        PROVE  p = q
    BY <1>6, <1>7, <1>9 DEF StopInv
  <1> QED
    BY <1>4, <1>8, <1>9 DEF StopInv

LEMMA DeleteTimerKept ==
  ASSUME StopInv, PoolInv', NEW r \in Requests, DeleteTimer(r)
  PROVE  StopInv'
  <1>1. call[r].id \in Ids
    BY DEF DeleteTimer, At, StopInv, PoolInv, CallsOK, WellFormed
  <1>2. /\ timers'[call[r].id].status = IF timers[call[r].id].status = "absent" THEN "absent"
                                        ELSE "deleted"
        /\ \A id \in Ids \ {call[r].id} : timers'[id].status = timers[id].status
    BY <1>1 DEF DeleteTimer, Exists, StopInv, PoolInv, TypeOK, Row
  <1>3. XpForStoppedTimer'
    BY <1>1, <1>2 DEF DeleteTimer, StopInv, XpForStoppedTimer
  <1>4. PICK c : c = [Idle EXCEPT !.pc = "done"]
    OBVIOUS
  <1>5. c.pc = "done" /\ c.op = ""
    BY <1>4 DEF Idle
  <1>6. call'[r] = c /\ \A q \in Requests \ {r} : call'[q] = call[q]
    BY <1>4 DEF DeleteTimer, StopInv, PoolInv, CallsOK
  <1>7. ASSUME NEW q \in Requests PROVE Follows(call[q])'
    <2>1. CASE q = r
      BY <1>5, <1>6, <2>1 DEF Follows, Starting, Found, Stopping
    <2>2. CASE q # r
      <3>1. Follows(call[q]) /\ call'[q] = call[q]
        BY <1>6, <2>2 DEF StopInv
      <3>2. call[q].pc \in Found => call[q].id \in Ids
        BY DEF StopInv, PoolInv, CallsOK, WellFormed, Found, Stopping
      <3> QED
        BY <1>2, <3>1, <3>2 DEF Follows, Found
    <2> QED
      BY <2>1, <2>2
  <1>8. ASSUME NEW p \in Requests, NEW q \in Requests,
               call'[p].op = "start", call'[q].op = "start", call'[p].id = call'[q].id
        PROVE  p = q
    BY <1>5, <1>6, <1>8 DEF StopInv
  <1> QED
    BY <1>3, <1>7, <1>8 DEF StopInv

-----------------------------------------------------------------------------
LEMMA StopInvAtFirst == Init => StopInv
  <1> SUFFICES ASSUME Init PROVE StopInv
    OBVIOUS
  <1>1. XpForStoppedTimer
    BY DEF Init, XpForStoppedTimer
  <1>2. \A r \in Requests : Follows(call[r]) /\ call[r].op = ""
    BY DEF Init, Idle, Follows, Starting, Found, Stopping
  <1> QED
    BY <1>1, <1>2, InitOK DEF StopInv

LEMMA StopInvIsInductive == StopInv /\ [Next]_vars => StopInv'
  <1> SUFFICES ASSUME StopInv, [Next]_vars PROVE StopInv'
    OBVIOUS
  <1>1. PoolInv'
    BY PoolInvIsInductive DEF StopInv
  <1>2. ASSUME NEW r \in Requests, Step(r) PROVE StopInv'
    BY <1>1, <1>2, ConnectKept, FindNucleoKept, FindActiveKept, InsertTimerKept, CommitStartKept,
       FindTimerKept, CheckKept, UpdateStoppedKept, FindStoppedKept, InsertLogKept,
       FindNotificationKept, InsertNotificationKept, CommitStopKept, UpdateTitleKept,
       CommitTitleKept, FindRenamedKept, DeleteTimerKept, TimeoutKept DEF Step
  <1>3. CASE UNCHANGED vars
    BY <1>1, <1>3 DEF vars, StopInv, XpForStoppedTimer, Follows
  <1> QED
    BY <1>1, <1>2, <1>3, BeginKept, FailKept DEF Next, Quiet

(* XP is only ever committed for a timer that is stopped, or was deleted   *)
(* since, although two connections write the two: for any number of        *)
(* requests that overlap, and wherever they fail.                          *)
THEOREM XpIsForStoppedTimers == Spec => []XpForStoppedTimer
  <1>1. StopInv => XpForStoppedTimer
    BY DEF StopInv
  <1> QED
    BY <1>1, StopInvAtFirst, StopInvIsInductive, PTL DEF Spec

-----------------------------------------------------------------------------
(* Requests one at a time.  What a handler has read is what the rows still *)
(* say when it writes, since whoever wrote in between has overlapped it.   *)

Promises ==
    /\ \A i, j \in {id \in Ids : Running(id)} : i = j
    /\ \A id \in Ids : timerLogs[id] <= 1
    /\ \A id \in Ids : timers[id].titulo = renamed[id]
    /\ notified <= 1

(* A start inserts the title of a timer nobody has renamed.                *)
NewRowsPlain == \A id \in Ids : timers[id].status = "absent" => timers[id].titulo = NoTitle

(* What a handler has read, and what it has found before it writes.        *)
Knows(r) ==
    LET c == call[r]
    IN  /\ c.pc \in {"insertTimer", "commitStart"} => \A id \in Ids : ~ Running(id)
        /\ c.pc \in {"check", "updateStopped"} => c.titulo = timers[c.id].titulo
        /\ (c.pc = "check" /\ c.wasRunning) => Running(c.id)
        /\ c.pc = "updateStopped" => Running(c.id)
        /\ c.pc \in Stopping => timerLogs[c.id] = 0
        /\ c.pc = "insertNotification" => notified = 0
        /\ (c.pc = "commitTitle" /\ locked[r] \in Ids) => timers[locked[r]].status # "absent"

AloneInv ==
    /\ \A p, q \in InFlight : p = q
    /\ Promises
    /\ NewRowsPlain
    /\ \A r \in Requests : Knows(r)

SerialInv == ~ overlapped => AloneInv

(* A request that is not in flight has read nothing.                       *)
LEMMA IdleKnows ==
  ASSUME PoolInv, NEW r \in Requests, r \notin InFlight
  PROVE  Knows(r)
  <1>1. call[r].pc \in {"idle", "done"}
    BY DEF PoolInv, CallsOK, Locals, InFlight
  <1> QED
    BY <1>1 DEF Knows, Stopping

(* A step of the request that is alone: the others have read nothing.      *)
LEMMA AloneStep ==
  ASSUME StopInv, PoolInv', AloneInv, NEW r \in Requests, r \in InFlight,
         \A q \in Requests \ {r} : call'[q] = call[q],
         Promises', NewRowsPlain', Knows(r)'
  PROVE  AloneInv'
  <1>1. \A q \in Requests \ {r} : q \notin InFlight /\ (q \notin InFlight)'
    BY DEF AloneInv, InFlight
  <1>2. ASSUME NEW q \in Requests PROVE Knows(q)'
    <2>1. CASE q = r
      BY <2>1
    <2>2. CASE q # r
      <3>1. (q \notin InFlight)'
        BY <1>1, <2>2
      <3>2. call'[q].pc \in {"idle", "done"}
        BY <3>1 DEF PoolInv, CallsOK, Locals, InFlight
      <3> QED
        BY <3>2 DEF Knows, Stopping
    <2> QED
      BY <2>1, <2>2
  <1>3. \A p, q \in InFlight' : p = q
    BY <1>1 DEF InFlight
  <1> QED
    BY <1>2, <1>3 DEF AloneInv

(* Rows that stay keep what they promise.                                  *)
LEMMA PromisesStay ==
  ASSUME AloneInv, UNCHANGED <<rows, renamed>>
  PROVE  Promises' /\ NewRowsPlain'
  BY DEF AloneInv, Promises, NewRowsPlain, Running, rows

(* The end of a handler, wherever it was.                                  *)
LEMMA EndAlone ==
  ASSUME StopInv, PoolInv', AloneInv, NEW r \in Requests, r \in InFlight,
         call' = [call EXCEPT ![r] = [Idle EXCEPT !.pc = "done"]],
         Promises', NewRowsPlain'
  PROVE  AloneInv'
  <1>1. PICK c : c = [Idle EXCEPT !.pc = "done"]
    OBVIOUS
  <1>2. c.pc = "done"
    BY <1>1 DEF Idle
  <1>3. call'[r] = c /\ \A q \in Requests \ {r} : call'[q] = call[q]
    BY <1>1 DEF StopInv, PoolInv, CallsOK
  <1>4. Knows(r)'
    BY <1>2, <1>3 DEF Knows, Stopping
  <1> QED
    BY <1>3, <1>4, AloneStep

LEMMA RollbackAlone ==
  ASSUME StopInv, PoolInv', AloneInv, NEW r \in Requests, r \in InFlight, Rollback(r)
  PROVE  AloneInv'
  BY PromisesStay, EndAlone DEF Rollback, Release

(* A handler that goes on with the locals it has, the rows unchanged.      *)
LEMMA GotoIs ==
  ASSUME StopInv, NEW r \in Requests, NEW label, Goto(r, call[r], label)
  PROVE  /\ call'[r].pc = label
         /\ call'[r].id = call[r].id
         /\ call'[r].titulo = call[r].titulo
         /\ call'[r].wasRunning = call[r].wasRunning
         /\ \A q \in Requests \ {r} : call'[q] = call[q]
  <1>1. PICK c : c = [call[r] EXCEPT !.pc = label]
    OBVIOUS
  <1>2. call[r] \in Locals
    BY DEF StopInv, PoolInv, CallsOK
  <1>3. c.pc = label /\ c.id = call[r].id /\ c.titulo = call[r].titulo
        /\ c.wasRunning = call[r].wasRunning
    BY <1>1, <1>2 DEF Locals
  <1>4. call'[r] = c /\ \A q \in Requests \ {r} : call'[q] = call[q]
    BY <1>1 DEF Goto, StopInv, PoolInv, CallsOK
  <1> QED
    BY <1>3, <1>4

(* A label before which a handler has found out nothing.                   *)
Learning == {"findNucleo", "findActive", "findTimer", "updateTitle", "findRenamed"}

LEMMA ReadAlone ==
  ASSUME StopInv, PoolInv', AloneInv, NEW r \in Requests, r \in InFlight,
         NEW label, Goto(r, call[r], label), UNCHANGED <<rows, renamed>>,
         \/ label \in Learning
         \/ label = "commitStop" /\ call[r].pc \in Stopping
         \/ label \in {"insertLog", "findNotification"} /\ call[r].pc \in Stopping
         \/ label = "commitStart" /\ call[r].pc = "insertTimer"
         \/ label = "insertTimer" /\ \A id \in Ids : ~ Running(id)
         \/ label = "insertNotification" /\ call[r].pc \in Stopping /\ ~ (notified > 0)
  PROVE  AloneInv'
  <1>1. /\ call'[r].pc = label /\ call'[r].id = call[r].id
        /\ \A q \in Requests \ {r} : call'[q] = call[q]
    BY GotoIs
  <1>2. timers' = timers /\ timerLogs' = timerLogs /\ notified' = notified
    BY DEF rows
  <1>3. notified \in Nat
    BY DEF StopInv, PoolInv, TypeOK
  <1>4. Knows(r)
    BY DEF AloneInv
  <1>5. Knows(r)'
    BY <1>1, <1>2, <1>3, <1>4 DEF Knows, Stopping, Learning, Running
  <1> QED
    BY <1>1, <1>5, PromisesStay, AloneStep

LEMMA OnlyReadsRows == ASSUME OnlyReads PROVE UNCHANGED <<rows, renamed>>
  BY DEF OnlyReads, rows

LEMMA ConnectAlone ==
  ASSUME StopInv, PoolInv', AloneInv, NEW r \in Requests, r \in InFlight, Connect(r)
  PROVE  AloneInv'
  BY ReadAlone DEF Connect, Learning

LEMMA FindNucleoAlone ==
  ASSUME StopInv, PoolInv', AloneInv, NEW r \in Requests, r \in InFlight, FindNucleo(r)
  PROVE  AloneInv'
  BY ReadAlone, OnlyReadsRows DEF FindNucleo, Learning

LEMMA FindActiveAlone ==
  ASSUME StopInv, PoolInv', AloneInv, NEW r \in Requests, r \in InFlight, FindActive(r)
  PROVE  AloneInv'
  BY ReadAlone, RollbackAlone, OnlyReadsRows DEF FindActive

LEMMA InsertTimerAlone ==
  ASSUME StopInv, PoolInv', AloneInv, NEW r \in Requests, r \in InFlight, InsertTimer(r)
  PROVE  AloneInv'
  BY ReadAlone, OnlyReadsRows DEF InsertTimer, At

LEMMA FindStoppedAlone ==
  ASSUME StopInv, PoolInv', AloneInv, NEW r \in Requests, r \in InFlight, FindStopped(r)
  PROVE  AloneInv'
  BY ReadAlone, OnlyReadsRows DEF FindStopped, At, Stopping

LEMMA InsertLogAlone ==
  ASSUME StopInv, PoolInv', AloneInv, NEW r \in Requests, r \in InFlight, InsertLog(r)
  PROVE  AloneInv'
  BY ReadAlone, OnlyReadsRows DEF InsertLog, At, Stopping

LEMMA FindNotificationAlone ==
  ASSUME StopInv, PoolInv', AloneInv, NEW r \in Requests, r \in InFlight, FindNotification(r)
  PROVE  AloneInv'
  BY ReadAlone, OnlyReadsRows DEF FindNotification, At, Stopping

LEMMA FindRenamedAlone ==
  ASSUME StopInv, PoolInv', AloneInv, NEW r \in Requests, r \in InFlight, FindRenamed(r)
  PROVE  AloneInv'
  BY RollbackAlone DEF FindRenamed

LEMMA TimeoutAlone ==
  ASSUME StopInv, PoolInv', AloneInv, NEW r \in Requests, r \in InFlight, Timeout(r)
  PROVE  AloneInv'
  <1>1. UNCHANGED <<rows, renamed>>
    BY DEF Timeout
  <1> QED
    BY <1>1, PromisesStay, EndAlone DEF Timeout, EndWithError, Release

LEMMA FailAlone ==
  ASSUME StopInv, PoolInv', AloneInv, NEW r \in Requests, r \in InFlight, Fail(r)
  PROVE  AloneInv'
  <1>1. UNCHANGED <<rows, renamed>>
    BY DEF Fail
  <1> QED
    BY <1>1, PromisesStay, EndAlone DEF Fail, EndWithError, Release

(* What is found of a timer is true until its row is written.              *)
LEMMA FindTimerAlone ==
  ASSUME StopInv, PoolInv', AloneInv, NEW r \in Requests, r \in InFlight, FindTimer(r)
  PROVE  AloneInv'
  <1>1. CASE Exists(call[r].id)
    <2>1. PICK c : c = [[call[r] EXCEPT !.titulo = timers[call[r].id].titulo,
                                        !.wasRunning = Running(call[r].id)] EXCEPT !.pc = "check"]
      OBVIOUS
    <2>2. call' = [call EXCEPT ![r] = c] /\ OnlyReads
      BY <1>1, <2>1 DEF FindTimer, Goto
    <2>3. call[r] \in Locals
      BY DEF StopInv, PoolInv, CallsOK
    <2>4. /\ c.pc = "check" /\ c.id = call[r].id
          /\ c.titulo = timers[call[r].id].titulo
          /\ c.wasRunning = Running(call[r].id)
      BY <2>1, <2>3 DEF Locals
    <2>5. call'[r] = c /\ \A q \in Requests \ {r} : call'[q] = call[q]
      BY <2>2 DEF StopInv, PoolInv, CallsOK
    <2>6. timers' = timers
      BY <2>2 DEF OnlyReads
    <2>7. Knows(r)'
      BY <2>4, <2>5, <2>6 DEF Knows, Running, Stopping
    <2> QED
      BY <2>2, <2>5, <2>7, OnlyReadsRows, PromisesStay, AloneStep
  <1>2. CASE ~ Exists(call[r].id)
    BY <1>2, RollbackAlone DEF FindTimer
  <1> QED
    BY <1>1, <1>2

LEMMA CheckAlone ==
  ASSUME StopInv, PoolInv', AloneInv, NEW r \in Requests, r \in InFlight, Check(r)
  PROVE  AloneInv'
  <1>1. ASSUME NEW minutes \in Minutes, call[r].wasRunning,
               Goto(r, [call[r] EXCEPT !.minutes = minutes], "updateStopped"), OnlyReads
        PROVE  AloneInv'
    <2>1. PICK c : c = [[call[r] EXCEPT !.minutes = minutes] EXCEPT !.pc = "updateStopped"]
      OBVIOUS
    <2>2. call' = [call EXCEPT ![r] = c]
      BY <1>1, <2>1 DEF Goto
    <2>3. call[r] \in Locals
      BY DEF StopInv, PoolInv, CallsOK
    <2>4. c.pc = "updateStopped" /\ c.id = call[r].id /\ c.titulo = call[r].titulo
      BY <2>1, <2>3 DEF Locals
    <2>5. call'[r] = c /\ \A q \in Requests \ {r} : call'[q] = call[q]
      BY <2>2 DEF StopInv, PoolInv, CallsOK
    <2>6. timers' = timers
      BY <1>1 DEF OnlyReads
    <2>7. call[r].titulo = timers[call[r].id].titulo /\ Running(call[r].id)
      BY <1>1 DEF AloneInv, Knows, Check, At
    <2>8. Knows(r)'
      BY <2>4, <2>5, <2>6, <2>7 DEF Knows, Running, Stopping
    <2> QED
      BY <1>1, <2>5, <2>8, OnlyReadsRows, PromisesStay, AloneStep
  <1>2. CASE Goto(r, call[r], "updateTitle") /\ OnlyReads
    BY <1>2, ReadAlone, OnlyReadsRows DEF Learning
  <1>3. CASE Rollback(r)
    BY <1>3, RollbackAlone
  <1> QED
    BY <1>1, <1>2, <1>3 DEF Check

(* The new timer is the only one that runs, with the title of its insert.  *)
LEMMA CommitStartAlone ==
  ASSUME StopInv, PoolInv', AloneInv, NEW r \in Requests, r \in InFlight, CommitStart(r)
  PROVE  AloneInv'
  <1>1. PICK id : id = call[r].id
    OBVIOUS
  <1>2. id \in Ids /\ timers[id].status = "absent"
    BY <1>1 DEF CommitStart, At, StopInv, Follows, Starting
  <1>3. \A i \in Ids : ~ Running(i)
    BY DEF CommitStart, At, AloneInv, Knows
  <1>4. /\ timers'[id] = [status |-> "running", titulo |-> NoTitle]
        /\ \A i \in Ids \ {id} : timers'[i] = timers[i]
    BY <1>1, <1>2 DEF CommitStart, StopInv, PoolInv, TypeOK
  <1>5. timerLogs' = timerLogs /\ notified' = notified /\ renamed' = renamed
    BY DEF CommitStart
  <1>6. renamed[id] = NoTitle
    BY <1>2 DEF AloneInv, Promises, NewRowsPlain
  <1>7. Promises'
    BY <1>3, <1>4, <1>5, <1>6 DEF AloneInv, Promises, Running
  <1>8. NewRowsPlain'
    BY <1>4 DEF AloneInv, NewRowsPlain
  <1> QED
    BY <1>7, <1>8, EndAlone DEF CommitStart, Release

(* The title written back is the one the row has; the timer ran, so that   *)
(* no XP has been logged for it.                                           *)
LEMMA UpdateStoppedAlone ==
  ASSUME StopInv, PoolInv', AloneInv, NEW r \in Requests, r \in InFlight, UpdateStopped(r)
  PROVE  AloneInv'
  <1>1. PICK id : id = call[r].id
    OBVIOUS
  <1>2. call[r].pc = "updateStopped"
    BY DEF UpdateStopped, At
  <1>3. id \in Ids /\ timers[id].status = "running" /\ call[r].titulo = timers[id].titulo
    BY <1>1, <1>2 DEF AloneInv, Knows, Running, StopInv, PoolInv, CallsOK, WellFormed
  <1>4. /\ timers'[id] = [status |-> "stopped", titulo |-> timers[id].titulo]
        /\ \A i \in Ids \ {id} : timers'[i] = timers[i]
    BY <1>1, <1>3 DEF UpdateStopped, Exists, StopInv, PoolInv, TypeOK
  <1>5. timerLogs' = timerLogs /\ notified' = notified /\ renamed' = renamed
    BY DEF UpdateStopped
  <1>6. timerLogs[id] = 0
    BY <1>3 DEF StopInv, XpForStoppedTimer, PoolInv, TypeOK
  <1>7. Promises' /\ NewRowsPlain'
    BY <1>3, <1>4, <1>5 DEF AloneInv, Promises, NewRowsPlain, Running
  <1>8. /\ call'[r].pc = "findStopped" /\ call'[r].id = id
        /\ \A q \in Requests \ {r} : call'[q] = call[q]
    BY <1>1, GotoIs DEF UpdateStopped
  <1>9. Knows(r)'
    BY <1>5, <1>6, <1>8 DEF Knows
  <1> QED
    BY <1>7, <1>8, <1>9, AloneStep

LEMMA InsertNotificationAlone ==
  ASSUME StopInv, PoolInv', AloneInv, NEW r \in Requests, r \in InFlight, InsertNotification(r)
  PROVE  AloneInv'
  <1>1. notified = 0 /\ timerLogs[call[r].id] = 0
    BY DEF InsertNotification, At, AloneInv, Knows, Stopping
  <1>2. notified' = 1 /\ timers' = timers /\ timerLogs' = timerLogs /\ renamed' = renamed
    BY <1>1 DEF InsertNotification
  <1>3. Promises' /\ NewRowsPlain'
    BY <1>2 DEF AloneInv, Promises, NewRowsPlain, Running
  <1>4. /\ call'[r].pc = "commitStop" /\ call'[r].id = call[r].id
        /\ \A q \in Requests \ {r} : call'[q] = call[q]
    BY GotoIs DEF InsertNotification
  <1>5. Knows(r)'
    BY <1>1, <1>2, <1>4 DEF Knows
  <1> QED
    BY <1>3, <1>4, <1>5, AloneStep

LEMMA CommitStopAlone ==
  ASSUME StopInv, PoolInv', AloneInv, NEW r \in Requests, r \in InFlight, CommitStop(r)
  PROVE  AloneInv'
  <1>1. PICK id : id = call[r].id
    OBVIOUS
  <1>2. call[r].pc = "commitStop"
    BY DEF CommitStop, At
  <1>3. id \in Ids /\ timerLogs[id] = 0
    BY <1>1, <1>2 DEF AloneInv, Knows, Stopping, StopInv, PoolInv, CallsOK, WellFormed
  <1>4. \A i \in Ids : timerLogs'[i] = timerLogs[i] \/ timerLogs'[i] = 1
    BY <1>1, <1>3 DEF CommitStop, StopInv, PoolInv, TypeOK
  <1>5. timers' = timers /\ notified' = notified /\ renamed' = renamed
    BY DEF CommitStop
  <1>6. Promises' /\ NewRowsPlain'
    BY <1>4, <1>5 DEF AloneInv, Promises, NewRowsPlain, Running
  <1> QED
    BY <1>6, EndAlone DEF CommitStop, Release

(* The row that is locked is there.                                        *)
LEMMA UpdateTitleAlone ==
  ASSUME StopInv, PoolInv', AloneInv, NEW r \in Requests, r \in InFlight, UpdateTitle(r)
  PROVE  AloneInv'
  <1>1. /\ call'[r].pc = "commitTitle"
        /\ \A q \in Requests \ {r} : call'[q] = call[q]
    BY GotoIs DEF UpdateTitle
  <1>2. UNCHANGED <<rows, renamed>>
    BY DEF UpdateTitle
  <1>3. locked'[r] \in Ids => timers[locked'[r]].status # "absent"
    <2>1. locked'[r] = IF Exists(call[r].id) THEN call[r].id ELSE NoTimer
      BY DEF UpdateTitle, StopInv, PoolInv, TypeOK
    <2> QED
      BY <2>1, BoundsAssumption DEF Exists
  <1>4. timers' = timers
    BY <1>2 DEF rows
  <1>5. Knows(r)'
    BY <1>1, <1>3, <1>4 DEF Knows, Stopping
  <1> QED
    BY <1>1, <1>2, <1>5, PromisesStay, AloneStep

LEMMA CommitTitleAlone ==
  ASSUME StopInv, PoolInv', AloneInv, NEW r \in Requests, r \in InFlight, CommitTitle(r)
  PROVE  AloneInv'
  <1>1. /\ call'[r].pc = "findRenamed"
        /\ \A q \in Requests \ {r} : call'[q] = call[q]
    BY GotoIs DEF CommitTitle
  <1>2. Knows(r)'
    BY <1>1 DEF Knows, Stopping
  <1>3. timerLogs' = timerLogs /\ notified' = notified
    BY DEF CommitTitle
  <1>4. CASE locked[r] \in Ids
    <2>1. PICK id \in Ids : id = locked[r]
      BY <1>4
    <2>2. timers[id].status # "absent"
      BY <2>1 DEF CommitTitle, At, AloneInv, Knows
    <2>3. /\ timers' = [timers EXCEPT ![id].titulo = r]
          /\ renamed' = [renamed EXCEPT ![id] = r]
      BY <2>1 DEF CommitTitle
    <2>4. /\ timers'[id].status = timers[id].status /\ timers'[id].titulo = r
          /\ \A i \in Ids \ {id} : timers'[i] = timers[i]
      BY <2>3 DEF StopInv, PoolInv, TypeOK, Row
    <2>5. renamed'[id] = r /\ \A i \in Ids \ {id} : renamed'[i] = renamed[i]
      BY <2>3 DEF StopInv, PoolInv, TypeOK
    <2>6. Promises'
      BY <1>3, <2>4, <2>5 DEF AloneInv, Promises, Running
    <2>7. NewRowsPlain'
      BY <2>2, <2>4 DEF AloneInv, NewRowsPlain
    <2> QED
      BY <1>1, <1>2, <2>6, <2>7, AloneStep
  <1>5. CASE locked[r] \notin Ids
    <2>1. UNCHANGED <<rows, renamed>>
      BY <1>5 DEF CommitTitle, rows
    <2> QED
      BY <1>1, <1>2, <2>1, PromisesStay, AloneStep
  <1> QED
    BY <1>4, <1>5

LEMMA DeleteTimerAlone ==
  ASSUME StopInv, PoolInv', AloneInv, NEW r \in Requests, r \in InFlight, DeleteTimer(r)
  PROVE  AloneInv'
  <1>1. PICK id : id = call[r].id
    OBVIOUS
  <1>2. id \in Ids
    BY <1>1 DEF DeleteTimer, At, StopInv, PoolInv, CallsOK, WellFormed
  <1>3. /\ timers'[id].titulo = timers[id].titulo
        /\ timers'[id].status \in {timers[id].status, "deleted"}
        /\ timers'[id].status # "running"
        /\ \A i \in Ids \ {id} : timers'[i] = timers[i]
    BY <1>1, <1>2 DEF DeleteTimer, Exists, StopInv, PoolInv, TypeOK, Row
  <1>4. timerLogs' = timerLogs /\ notified' = notified /\ renamed' = renamed
    BY DEF DeleteTimer
  <1>5. Promises' /\ NewRowsPlain'
    BY <1>3, <1>4 DEF AloneInv, Promises, NewRowsPlain, Running
  <1> QED
    BY <1>5, EndAlone DEF DeleteTimer

-----------------------------------------------------------------------------
LEMMA SerialInvAtFirst == Init => SerialInv
  <1> SUFFICES ASSUME Init PROVE AloneInv
    BY DEF SerialInv
  <1>1. PoolInv /\ StopInv
    BY StopInvAtFirst DEF StopInv
  <1>2. \A r \in Requests : call[r].pc = "idle"
    BY DEF Init, Idle
  <1>3. \A r \in Requests : r \notin InFlight
    BY <1>2 DEF InFlight, InTransaction
  <1>4. \A r \in Requests : Knows(r)
    BY <1>1, <1>3, IdleKnows
  <1>5. PICK t \in Ids \cup {NoTimer} :
           timers = [i \in Ids |-> IF i = t THEN [Absent EXCEPT !.status = "running"] ELSE Absent]
    BY DEF Init
  <1>6. \A i \in Ids : /\ timers[i].titulo = NoTitle
                       /\ timers[i].status = IF i = t THEN "running" ELSE "absent"
    BY <1>5 DEF Absent
  <1>7. timerLogs = [id \in Ids |-> 0] /\ notified = 0 /\ renamed = [id \in Ids |-> NoTitle]
    BY DEF Init
  <1>8. Promises /\ NewRowsPlain
    BY <1>6, <1>7 DEF Promises, NewRowsPlain, Running
  <1>9. \A p, q \in InFlight : p = q
    BY <1>3 DEF InFlight
  <1> QED
    BY <1>4, <1>8, <1>9 DEF AloneInv

(* A request that arrives when none is in flight is alone.                 *)
LEMMA BeginAlone ==
  ASSUME StopInv, PoolInv', SerialInv, NEW r \in Requests, NEW op \in Operations, NEW id \in Ids,
         Begin(r, op, id)
  PROVE  SerialInv'
  <1> SUFFICES ASSUME ~ overlapped' PROVE AloneInv'
    BY DEF SerialInv
  <1>1. ~ overlapped /\ InFlight = {} /\ UNCHANGED <<rows, renamed>>
    BY DEF Begin
  <1>2. AloneInv
    BY <1>1 DEF SerialInv
  <1>3. PICK label \in {"connect", "deleteTimer"} :
           call' = [call EXCEPT ![r] = [[Idle EXCEPT !.op = op, !.id = id] EXCEPT !.pc = label]]
    BY DEF Begin, Goto
  <1>4. PICK c : c = [[Idle EXCEPT !.op = op, !.id = id] EXCEPT !.pc = label]
    OBVIOUS
  <1>5. c.pc = label
    BY <1>4 DEF Idle
  <1>6. call'[r] = c /\ \A q \in Requests \ {r} : call'[q] = call[q]
    BY <1>3, <1>4 DEF StopInv, PoolInv, CallsOK
  <1>7. ASSUME NEW q \in Requests PROVE Knows(q)'
    <2>1. call'[q].pc \in {"idle", "done", "connect", "deleteTimer"}
      BY <1>1, <1>5, <1>6 DEF InFlight, StopInv, PoolInv, CallsOK, Locals
    <2> QED
      BY <2>1 DEF Knows, Stopping
  <1>8. \A p, q \in InFlight' : p = q
    BY <1>1, <1>6 DEF InFlight
  <1> QED
    BY <1>1, <1>2, <1>7, <1>8, PromisesStay DEF AloneInv

LEMMA StepsAlone ==
  ASSUME StopInv, PoolInv', SerialInv, NEW r \in Requests, Step(r)
  PROVE  SerialInv'
  <1>1. r \in InFlight /\ overlapped' = overlapped
    BY DEF Step, Connect, FindNucleo, FindActive, InsertTimer, CommitStart, FindTimer, Check,
           UpdateStopped, FindStopped, InsertLog, FindNotification, InsertNotification,
           CommitStop, UpdateTitle, CommitTitle, FindRenamed, DeleteTimer, Timeout, Rollback,
           OnlyReads, At, InFlight, InTransaction, Pooled
  <1>2. ASSUME AloneInv PROVE AloneInv'
    BY <1>1, <1>2, ConnectAlone, FindNucleoAlone, FindActiveAlone, InsertTimerAlone,
       CommitStartAlone, FindTimerAlone, CheckAlone, UpdateStoppedAlone, FindStoppedAlone,
       InsertLogAlone, FindNotificationAlone, InsertNotificationAlone, CommitStopAlone,
       UpdateTitleAlone, CommitTitleAlone, FindRenamedAlone, DeleteTimerAlone, TimeoutAlone
       DEF Step
  <1> QED
    BY <1>1, <1>2 DEF SerialInv

LEMMA SerialInvIsInductive == StopInv /\ SerialInv /\ [Next]_vars => SerialInv'
  <1> SUFFICES ASSUME StopInv, SerialInv, [Next]_vars PROVE SerialInv'
    OBVIOUS
  <1>1. PoolInv'
    BY PoolInvIsInductive DEF StopInv
  <1>2. ASSUME NEW r \in Requests, Fail(r) PROVE SerialInv'
    <2>1. r \in InFlight /\ overlapped' = overlapped
      BY <1>2 DEF Fail
    <2> QED
      BY <1>1, <1>2, <2>1, FailAlone DEF SerialInv
  <1>3. CASE UNCHANGED vars
    BY <1>3 DEF vars, SerialInv, AloneInv, InFlight, Promises, NewRowsPlain, Knows, Running
  <1> QED
    BY <1>1, <1>2, <1>3, BeginAlone, StepsAlone DEF Next, Quiet

(* As long as no two requests overlap: one timer runs at most, no timer    *)
(* pays twice, no stop undoes a rename and a day has one notification,     *)
(* whichever statements failed and whatever was left half done before.     *)
THEOREM SerialPromisesHold == Spec => []SerialPromises
  <1>1. SerialInv => SerialPromises
    BY DEF SerialInv, AloneInv, Promises, SerialPromises
  <1> QED
    BY <1>1, StopInvAtFirst, StopInvIsInductive, SerialInvAtFirst, SerialInvIsInductive, PTL
       DEF Spec

=============================================================================
