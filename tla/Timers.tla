------------------------------- MODULE Timers -------------------------------
(***************************************************************************)
(* The timers of one núcleo and the connections their handlers hold.       *)
(*                                                                         *)
(* Starting, stopping and renaming a timer each take a connection from the *)
(* pool and open a transaction on it, and then send some statements on     *)
(* that connection and others to the pool, which needs one more connection *)
(* for as long as the statement runs and commits it at once.  When no      *)
(* connection is free a statement waits, at most connectionTimeoutMillis.  *)
(*                                                                         *)
(* Each statement is one action.  A statement answers while its connection *)
(* is held, so that only transactions hold connections between actions.    *)
(***************************************************************************)
EXTENDS Integers, FiniteSets

CONSTANTS
    Requests,       \* requests for the núcleo's timers, each handled once
    Ids,            \* ids of timers
    NoTimer,        \* no id
    NoTitle,        \* the title a timer is created with
    Minutes,        \* whole minutes a timer may have run when it is stopped
    PoolSize,       \* PoolConfig.max
    MaxInFlight,    \* requests handled at the same time
    MaxFailures     \* bound: requests that end with an error of the database

ASSUME BoundsAssumption ==
    /\ Minutes \subseteq Nat
    /\ PoolSize \in Nat \ {0}
    /\ MaxInFlight \in Nat \ {0}
    /\ MaxFailures \in Nat
    /\ NoTimer \notin Ids /\ NoTitle \notin Requests

Operations == {"start", "stop", "rename", "delete"}

VARIABLES
    timers,         \* the rows of timers, by id; the committed ones
    call,           \* call[r]: the locals of request r's handler
    free,           \* connections the pool can hand out
    locked,         \* locked[r]: the id of the row r's transaction has updated
    timerLogs,      \* timerLogs[id]: committed rows of xp_logs for the timer
    notified,       \* notifications "Timer Completado!" of the day
    failures,       \* requests that ended with an error of the database
    renamed,        \* history: renamed[id]: the last title a commit gave it
    overlapped      \* history: two requests have been handled at the same time

rows == <<timers, timerLogs, notified>>
vars == <<timers, call, free, locked, timerLogs, notified, failures, renamed, overlapped>>

-----------------------------------------------------------------------------
(* A row of timers: fim is NULL while it runs.                             *)
Absent == [status |-> "absent", titulo |-> NoTitle]
Running(id) == timers[id].status = "running"
Exists(id) == timers[id].status \in {"running", "stopped"}

(* The locals of a handler that is not running.  The title is the one it   *)
(* has read, the minutes those of the timer it stops.                      *)
Idle == [pc |-> "idle", op |-> "", id |-> NoTimer, titulo |-> NoTitle,
         wasRunning |-> FALSE, minutes |-> 0]

(* A handler that has connected and not released.                          *)
InTransaction == {"findNucleo", "findActive", "insertTimer", "commitStart",
                  "findTimer", "check", "updateStopped", "findStopped", "insertLog",
                  "findNotification", "insertNotification", "commitStop",
                  "updateTitle", "commitTitle", "findRenamed"}
Holding == {r \in Requests : call[r].pc \in InTransaction}
InFlight == {r \in Requests : call[r].pc \in InTransaction \cup {"connect", "deleteTimer"}}

At(r, label) == call[r].pc = label
Goto(r, c, label) == call' = [call EXCEPT ![r] = [c EXCEPT !.pc = label]]

(* A statement sent to the pool, on a connection of its own.               *)
FromPool == free > 0

(* Another transaction has updated the row and not ended.                  *)
LockedByOther(r, id) == \E q \in Requests \ {r} : locked[q] = id

(* The `finally` of a handler: the connection goes back to the pool, and   *)
(* with the transaction go its locks.                                      *)
Release(r) ==
    /\ free' = free + 1
    /\ locked' = [locked EXCEPT ![r] = NoTimer]
    /\ call' = [call EXCEPT ![r] = [Idle EXCEPT !.pc = "done"]]

(* The `catch`: nothing of the transaction is kept.  The rows the handler  *)
(* wrote through the pool stay.                                            *)
Rollback(r) == Release(r) /\ UNCHANGED <<rows, failures, renamed, overlapped>>

(* What no statement on the pool or read of the transaction changes.       *)
OnlyReads == UNCHANGED <<timers, free, locked, timerLogs, notified, failures, renamed, overlapped>>

-----------------------------------------------------------------------------
(* The núcleo may have a timer running.                                    *)
Init ==
    /\ \E id \in Ids \cup {NoTimer} :
          timers = [i \in Ids |-> IF i = id THEN [Absent EXCEPT !.status = "running"] ELSE Absent]
    /\ call = [r \in Requests |-> Idle]
    /\ free = PoolSize
    /\ locked = [r \in Requests |-> NoTimer]
    /\ timerLogs = [id \in Ids |-> 0]
    /\ notified = 0
    /\ failures = 0
    /\ renamed = [id \in Ids |-> NoTitle]
    /\ overlapped = FALSE

(* A request arrives: start creates a new id, the others name one.         *)
Begin(r, op, id) ==
    /\ At(r, "idle")
    /\ Cardinality(InFlight) < MaxInFlight
    /\ op = "start" => timers[id].status = "absent"
                       /\ \A q \in Requests : call[q].op = "start" => call[q].id # id
    /\ Goto(r, [Idle EXCEPT !.op = op, !.id = id],
            IF op = "delete" THEN "deleteTimer" ELSE "connect")
    /\ overlapped' = (overlapped \/ InFlight # {})
    /\ UNCHANGED <<rows, free, locked, failures, renamed>>

(* pool.connect and BEGIN.                                                 *)
Connect(r) ==
    /\ At(r, "connect")
    /\ FromPool
    /\ free' = free - 1
    /\ Goto(r, call[r], IF call[r].op = "start" THEN "findNucleo" ELSE "findTimer")
    /\ UNCHANGED <<rows, locked, failures, renamed, overlapped>>

-----------------------------------------------------------------------------
(* StartTimerHandler *)

FindNucleo(r) ==
    /\ At(r, "findNucleo")
    /\ FromPool
    /\ Goto(r, call[r], "findActive")
    /\ OnlyReads

(* Mutant: a timer is started whether or not one runs.                     *)
FindNoActive(r) ==
    /\ At(r, "findActive")
    /\ FromPool
    /\ Goto(r, call[r], "insertTimer")
    /\ OnlyReads

(* findActiveByNucleoId, through the pool: an error if there is one.       *)
FindActive(r) ==
    /\ At(r, "findActive")
    /\ FromPool
    /\ IF \E id \in Ids : Running(id)
       THEN Rollback(r)
       ELSE Goto(r, call[r], "insertTimer") /\ OnlyReads

(* INSERT, and the SELECT of the new row, on the transaction's connection. *)
InsertTimer(r) ==
    /\ At(r, "insertTimer")
    /\ Goto(r, call[r], "commitStart")
    /\ OnlyReads

CommitStart(r) ==
    /\ At(r, "commitStart")
    /\ timers' = [timers EXCEPT ![call[r].id] = [status |-> "running", titulo |-> NoTitle]]
    /\ Release(r)
    /\ UNCHANGED <<timerLogs, notified, failures, renamed, overlapped>>

-----------------------------------------------------------------------------
(* StopTimerHandler and UpdateTimerHandler: findById, then the owner *)

(* findById, through the pool: NotFoundException without a row.            *)
FindTimer(r) ==
    /\ At(r, "findTimer")
    /\ FromPool
    /\ LET id == call[r].id
       IN  IF Exists(id)
           THEN /\ Goto(r, [call[r] EXCEPT !.titulo = timers[id].titulo,
                                           !.wasRunning = Running(id)], "check")
                /\ OnlyReads
           ELSE Rollback(r)

(* Mutant: a timer that is stopped already is stopped again.               *)
CheckOwnerOnly(r) ==
    /\ At(r, "check")
    /\ IF Exists(call[r].id)
       THEN \/ /\ call[r].op = "rename"
               /\ Goto(r, call[r], "updateTitle")
               /\ OnlyReads
            \/ /\ call[r].op = "stop"
               /\ \E m \in Minutes :
                     Goto(r, [call[r] EXCEPT !.minutes = m], "updateStopped")
               /\ OnlyReads
       ELSE Rollback(r)

(* Mutant: the XP is logged and the row of the timer left for later.       *)
CheckThenLog(r) ==
    /\ At(r, "check")
    /\ \E m \in Minutes : Goto(r, [call[r] EXCEPT !.minutes = m], "findStopped")
    /\ OnlyReads

(* The join with nucleos finds no row when the timer is gone.  Stop goes   *)
(* by what it has read: "Timer já está parado", or timer.stop(), which     *)
(* computes the duration of the timer.                                     *)
Check(r) ==
    /\ At(r, "check")
    /\ IF Exists(call[r].id)
       THEN \/ /\ call[r].op = "rename"
               /\ Goto(r, call[r], "updateTitle")
               /\ OnlyReads
            \/ /\ call[r].op = "stop" /\ call[r].wasRunning
               /\ \E m \in Minutes :
                     Goto(r, [call[r] EXCEPT !.minutes = m], "updateStopped")
               /\ OnlyReads
            \/ /\ call[r].op = "stop" /\ ~ call[r].wasRunning
               /\ Rollback(r)
       ELSE Rollback(r)

-----------------------------------------------------------------------------
(* StopTimerHandler *)

(* Mutant: the title is not the one read but the default.                  *)
UpdateStoppedResetsTitle(r) ==
    /\ At(r, "updateStopped")
    /\ FromPool
    /\ ~ LockedByOther(r, call[r].id)
    /\ timers' = [timers EXCEPT ![call[r].id] =
                    IF Exists(call[r].id)
                    THEN [status |-> "stopped", titulo |-> NoTitle] ELSE @]
    /\ Goto(r, call[r], "findStopped")
    /\ UNCHANGED <<free, locked, timerLogs, notified, failures, renamed, overlapped>>

(* timerRepository.update: through the pool, so committed at once; no row  *)
(* matches a deleted timer.  The title is written back as it was read.     *)
UpdateStopped(r) ==
    /\ At(r, "updateStopped")
    /\ FromPool
    /\ ~ LockedByOther(r, call[r].id)
    /\ timers' = [timers EXCEPT ![call[r].id] =
                    IF Exists(call[r].id)
                    THEN [status |-> "stopped", titulo |-> call[r].titulo] ELSE @]
    /\ Goto(r, call[r], "findStopped")
    /\ UNCHANGED <<free, locked, timerLogs, notified, failures, renamed, overlapped>>

(* The findById in which update ends; its result is not used.  The XP is   *)
(* one per minute, and no row is inserted for none.                        *)
FindStopped(r) ==
    /\ At(r, "findStopped")
    /\ FromPool
    /\ Goto(r, call[r], IF call[r].minutes > 0 THEN "insertLog" ELSE "findNotification")
    /\ OnlyReads

(* INSERT INTO xp_logs, in the transaction.                                *)
InsertLog(r) ==
    /\ At(r, "insertLog")
    /\ Goto(r, call[r], "findNotification")
    /\ OnlyReads

(* Mutant: createNotification always inserts.                              *)
FindNoNotification(r) ==
    /\ At(r, "findNotification")
    /\ FromPool
    /\ Goto(r, call[r], "insertNotification")
    /\ OnlyReads

(* createNotification: nothing to do if the day has one of that title.     *)
FindNotification(r) ==
    /\ At(r, "findNotification")
    /\ FromPool
    /\ Goto(r, call[r], IF notified > 0 THEN "commitStop" ELSE "insertNotification")
    /\ OnlyReads

InsertNotification(r) ==
    /\ At(r, "insertNotification")
    /\ FromPool
    /\ notified' = notified + 1
    /\ Goto(r, call[r], "commitStop")
    /\ UNCHANGED <<timers, free, locked, timerLogs, failures, renamed, overlapped>>

CommitStop(r) ==
    /\ At(r, "commitStop")
    /\ timerLogs' = IF call[r].minutes > 0
                    THEN [timerLogs EXCEPT ![call[r].id] = @ + 1] ELSE timerLogs
    /\ Release(r)
    /\ UNCHANGED <<timers, notified, failures, renamed, overlapped>>

-----------------------------------------------------------------------------
(* UpdateTimerHandler *)

(* UPDATE in the transaction: the row stays locked until it ends.          *)
UpdateTitle(r) ==
    /\ At(r, "updateTitle")
    /\ ~ LockedByOther(r, call[r].id)
    /\ locked' = [locked EXCEPT ![r] = IF Exists(call[r].id) THEN call[r].id ELSE NoTimer]
    /\ Goto(r, call[r], "commitTitle")
    /\ UNCHANGED <<rows, free, failures, renamed, overlapped>>

(* COMMIT; the connection is kept for the findById that follows.           *)
CommitTitle(r) ==
    /\ At(r, "commitTitle")
    /\ LET id == locked[r]
       IN  IF id \in Ids
           THEN /\ timers' = [timers EXCEPT ![id].titulo = r]
                /\ renamed' = [renamed EXCEPT ![id] = r]
           ELSE UNCHANGED <<timers, renamed>>
    /\ locked' = [locked EXCEPT ![r] = NoTimer]
    /\ Goto(r, call[r], "findRenamed")
    /\ UNCHANGED <<free, timerLogs, notified, failures, overlapped>>

(* findById again; without a row the handler fails, after its COMMIT.      *)
FindRenamed(r) ==
    /\ At(r, "findRenamed")
    /\ FromPool
    /\ Rollback(r)

-----------------------------------------------------------------------------
(* DeleteTimerHandler: one statement, without a transaction of its own.    *)
DeleteTimer(r) ==
    /\ At(r, "deleteTimer")
    /\ FromPool
    /\ ~ LockedByOther(r, call[r].id)
    /\ timers' = [timers EXCEPT ![call[r].id] = IF Exists(call[r].id)
                                                THEN [@ EXCEPT !.status = "deleted"] ELSE @]
    /\ call' = [call EXCEPT ![r] = [Idle EXCEPT !.pc = "done"]]
    /\ UNCHANGED <<free, locked, timerLogs, notified, failures, renamed, overlapped>>

-----------------------------------------------------------------------------
(* Errors *)

(* Statements that go to the pool.                                         *)
Pooled == {"connect", "findNucleo", "findActive", "findTimer", "updateStopped",
           "findStopped", "findNotification", "insertNotification", "findRenamed",
           "deleteTimer"}

(* Mutant: only a handler that goes through to its end releases.           *)
EndWithoutRelease(r) ==
    /\ call' = [call EXCEPT ![r] = [Idle EXCEPT !.pc = "done"]]
    /\ locked' = [locked EXCEPT ![r] = NoTimer]
    /\ UNCHANGED free

(* A handler ends with an error: with the connection it holds, if any.     *)
EndWithError(r) ==
    IF r \in Holding
    THEN Release(r)
    ELSE /\ call' = [call EXCEPT ![r] = [Idle EXCEPT !.pc = "done"]]
         /\ UNCHANGED <<free, locked>>

(* Mutant: a statement waits for a connection as long as it takes.         *)
NeverTimesOut(r) ==
    /\ At(r, "never")
    /\ EndWithError(r)
    /\ UNCHANGED <<rows, failures, renamed, overlapped>>

(* connectionTimeoutMillis: the pool has had no connection for it.         *)
Timeout(r) ==
    /\ call[r].pc \in Pooled
    /\ ~ FromPool
    /\ EndWithError(r)
    /\ UNCHANGED <<rows, failures, renamed, overlapped>>

(* The database answers a statement with an error.                         *)
Fail(r) ==
    /\ r \in InFlight
    /\ failures < MaxFailures
    /\ failures' = failures + 1
    /\ EndWithError(r)
    /\ UNCHANGED <<rows, renamed, overlapped>>

Quiet == (\A r \in Requests : At(r, "done")) /\ UNCHANGED vars

Step(r) ==
    \/ Connect(r)
    \/ FindNucleo(r) \/ FindActive(r) \/ InsertTimer(r) \/ CommitStart(r)
    \/ FindTimer(r) \/ Check(r)
    \/ UpdateStopped(r) \/ FindStopped(r) \/ InsertLog(r)
    \/ FindNotification(r) \/ InsertNotification(r) \/ CommitStop(r)
    \/ UpdateTitle(r) \/ CommitTitle(r) \/ FindRenamed(r)
    \/ DeleteTimer(r)
    \/ Timeout(r)

Next ==
    \/ \E r \in Requests : \E op \in Operations : \E id \in Ids : Begin(r, op, id)
    \/ \E r \in Requests : Step(r)
    \/ \E r \in Requests : Fail(r)
    \/ Quiet

Spec == Init /\ [][Next]_vars

(* Every statement is answered, by the database or by the pool's timeout.  *)
FairSpec == Spec /\ \A r \in Requests : WF_vars(Step(r))

-----------------------------------------------------------------------------
Row == [status : {"absent", "running", "stopped", "deleted"},
        titulo : Requests \cup {NoTitle}]
Locals == [pc : InTransaction \cup {"idle", "connect", "deleteTimer", "done"},
           op : Operations \cup {""}, id : Ids \cup {NoTimer},
           titulo : Requests \cup {NoTitle}, wasRunning : BOOLEAN, minutes : Nat]

TypeOK ==
    /\ timers \in [Ids -> Row]
    /\ call \in [Requests -> Locals]
    /\ free \in 0 .. PoolSize
    /\ locked \in [Requests -> Ids \cup {NoTimer}]
    /\ timerLogs \in [Ids -> Nat]
    /\ notified \in Nat
    /\ failures \in 0 .. MaxFailures
    /\ renamed \in [Ids -> Requests \cup {NoTitle}]
    /\ overlapped \in BOOLEAN

-----------------------------------------------------------------------------
(* What holds however the handlers interleave.                             *)

(* No path of a handler, its errors included, keeps its connection or      *)
(* gives back one it never had.                                            *)
ConnectionsReturned == free + Cardinality(Holding) = PoolSize

(* XP is committed for timers that are stopped (or were deleted since),    *)
(* although the row is written outside of the transaction of the XP and a  *)
(* rename of the same row may be under way.                                *)
XpForStoppedTimer ==
    \A id \in Ids : timerLogs[id] > 0 => timers[id].status \in {"stopped", "deleted"}

(* Handlers that hold a connection wait for another one: when each waits   *)
(* for those the others hold, the timeout of the pool gets them out of it. *)
EveryRequestEnds == \A r \in Requests : r \in InFlight ~> At(r, "done")

-----------------------------------------------------------------------------
(* What holds as long as the requests come one at a time.                  *)

(* Each command looks through the pool for what its transaction is about   *)
(* to write, and its transaction cannot see.  Without an overlap there is  *)
(* one active timer at most, a timer pays its minutes once, whatever       *)
(* failed before, a stop, which writes the whole row back, undoes no       *)
(* rename, and a day has one notification of a title.                      *)
SerialPromises ==
    ~ overlapped =>
        /\ \A i, j \in {id \in Ids : Running(id)} : i = j
        /\ \A id \in Ids : timerLogs[id] <= 1
        /\ \A id \in Ids : timers[id].titulo = renamed[id]
        /\ notified <= 1

-----------------------------------------------------------------------------
(* What a message of the code says, and a run refutes.                     *)

(* "Já existe um timer ativo para este núcleo": there is one at most.      *)
OneActiveTimer == \A i, j \in {id \in Ids : Running(id)} : i = j

=============================================================================
