------------------------------ MODULE Tarefas ------------------------------
(***************************************************************************)
(* The tarefas of one bloco and the cached list of them.                   *)
(*                                                                         *)
(* A handler reads the row, changes the entity in memory, writes the whole *)
(* row back and then deletes the cached list; a reader fills it with what  *)
(* it has read.  No statement is in a transaction.  Every await is one     *)
(* action.  The cache is Redis when the process could connect to it at its *)
(* start, and a Map of the process otherwise; errors of Redis are          *)
(* swallowed.  Requests name a bloco and tarefas of the user: what fails   *)
(* without a trace (not found, forbidden) is an error like another.        *)
(***************************************************************************)
EXTENDS Integers, FiniteSets, FiniteSetsExt

CONSTANTS
    Requests,       \* requests, each handled once; create gives its own id
    Existing,       \* the tarefa the bloco starts with
    Updates,        \* what an UpdateTarefaCommand may ask for
    NoList,         \* no entry in a cache
    MaxInFlight,    \* requests handled at the same time
    MaxFailures,    \* bound: requests that end with an error of the database
    MaxFaults       \* bound: errors of Redis, and crashes of the process

StatusTarefa == {"pendente", "concluida", "atrasada", "fazendo"}
Unchanged == "undefined"

ASSUME BoundsAssumption ==
    /\ IsFiniteSet(Requests)
    /\ MaxInFlight \in Nat \ {0}
    /\ MaxFailures \in Nat /\ MaxFaults \in Nat
    /\ Existing \notin Requests
    /\ Updates \subseteq [status : StatusTarefa \cup {Unchanged}, edits : BOOLEAN]

Ids == Requests \cup {Existing}
Operations == {"create", "update", "concluir", "delete", "list"}

VARIABLES
    tarefas,        \* the rows of tarefas of the bloco, by id
    call,           \* call[r]: the locals of request r's handler
    redisAvailable, \* what initRedis found
    redis,          \* the entry tarefas:bloco of Redis: a list and who read it
    memory,         \* the same of memoryCache
    failures,       \* requests that ended with an error of the database
    faults,         \* errors of Redis and crashes
    alone,          \* history: requests no other request overlapped
    redundant       \* history: concluir requests of a tarefa already concluded

caches == <<redisAvailable, redis, memory>>
vars == <<tarefas, call, caches, failures, faults, alone, redundant>>

-----------------------------------------------------------------------------
(* Data *)

(* A row: concluida is concluida_em IS NOT NULL, and edition stands for    *)
(* the columns that only the user's edits set: the request that did.       *)
Absent == [exists |-> FALSE, status |-> "pendente", concluida |-> FALSE,
           edition |-> Existing, posicao |-> 0, deleted |-> FALSE]

Live == {id \in Ids : tarefas[id].exists /\ ~ tarefas[id].deleted}

(* findByBlocoId                                                           *)
List == [id \in Live |-> tarefas[id]]

(* Mutant: concluida_em is left as it was when a tarefa is reopened.       *)
UpdateStatusKeepingDate(t, status) ==
    [t EXCEPT !.status = status, !.concluida = t.concluida \/ status = "concluida"]

(* Tarefa.updateStatus                                                     *)
UpdateStatus(t, status) ==
    [t EXCEPT !.status = status, !.concluida = (status = "concluida")]

(* The updates of the fields a command defines.                            *)
Updated(t, update, r) ==
    LET s == IF update.status = Unchanged THEN t ELSE UpdateStatus(t, update.status)
    IN  IF update.edits THEN [s EXCEPT !.edition = r] ELSE s

(* Tarefa.concluir                                                         *)
Concluir(t) == [t EXCEPT !.status = "concluida", !.concluida = TRUE]

(* The locals of a handler that is not running.                            *)
Idle == [pc |-> "idle", op |-> "list", id |-> Existing, tarefa |-> Absent,
         update |-> [status |-> Unchanged, edits |-> FALSE],
         list |-> NoList]

Running == {"checkBloco", "nextPosition", "save", "find", "checkOwner", "update",
            "delete", "deleteCache", "dispatch", "notify", "getCache", "select",
            "setCache"}
InFlight == {r \in Requests : call[r].pc \in Running}

At(r, label) == call[r].pc = label
Goto(r, c, label) == call' = [call EXCEPT ![r] = [c EXCEPT !.pc = label]]
Finish(r) == call' = [call EXCEPT ![r] = [Idle EXCEPT !.pc = "done"]]

OnlyReads == UNCHANGED <<tarefas, caches, failures, faults, alone, redundant>>

-----------------------------------------------------------------------------
Init ==
    /\ tarefas = [id \in Ids |-> [Absent EXCEPT !.exists = (id = Existing)]]
    /\ call = [r \in Requests |-> Idle]
    /\ redisAvailable \in BOOLEAN
    /\ redis = NoList /\ memory = NoList
    /\ failures = 0 /\ faults = 0
    /\ alone = {} /\ redundant = {}

(* A request arrives: create gives a new id, list needs none, the others   *)
(* name a tarefa the client has seen.                                      *)
Begin(r, op, id, update) ==
    /\ At(r, "idle")
    /\ Cardinality(InFlight) < MaxInFlight
    /\ CASE op = "create" -> id = r
         [] op = "list" -> id = Existing
         [] OTHER -> tarefas[id].exists
    /\ Goto(r, [Idle EXCEPT !.op = op, !.id = id, !.update = update],
            CASE op = "create" -> "checkBloco" [] op = "list" -> "getCache" [] OTHER -> "find")
    /\ alone' = IF InFlight = {} THEN alone \cup {r} ELSE alone \ InFlight
    /\ UNCHANGED <<tarefas, caches, failures, faults, redundant>>

-----------------------------------------------------------------------------
(* CreateTarefaHandler, and the check of GetTarefasByBlocoHandler *)

CheckBloco(r) ==
    /\ At(r, "checkBloco")
    /\ Goto(r, call[r], IF call[r].op = "create" THEN "nextPosition" ELSE "select")
    /\ OnlyReads

(* Mutant: the number of tarefas, not the position after the last one.     *)
CountTarefas == Cardinality(Live)

(* Mutant: the position of the last one.                                   *)
LastPosition == IF Live = {} THEN -1 ELSE Max({tarefas[id].posicao : id \in Live})

(* SELECT COALESCE(MAX(posicao), -1) + 1                                   *)
GetNextPosition == IF Live = {} THEN 0 ELSE Max({tarefas[id].posicao : id \in Live}) + 1

NextPosition(r) ==
    /\ At(r, "nextPosition")
    /\ Goto(r, [call[r] EXCEPT !.tarefa = [Absent EXCEPT !.exists = TRUE, !.edition = r,
                                                         !.posicao = GetNextPosition]], "save")
    /\ OnlyReads

Save(r) ==
    /\ At(r, "save")
    /\ tarefas' = [tarefas EXCEPT ![r] = call[r].tarefa]
    /\ Goto(r, call[r], "deleteCache")
    /\ UNCHANGED <<caches, failures, faults, alone, redundant>>

-----------------------------------------------------------------------------
(* UpdateTarefaHandler, ConcluirTarefaHandler, DeleteTarefaHandler *)

(* findById: NotFoundException without a live row.  Update changes the     *)
(* entity and writes it next; the other two ask for the owner first.       *)
Find(r) ==
    /\ At(r, "find")
    /\ LET c == call[r]
           t == tarefas[c.id]
       IN  \/ c.id \notin Live /\ Finish(r)
           \/ c.id \in Live /\ c.op = "update"
              /\ Goto(r, [c EXCEPT !.tarefa = Updated(t, c.update, r)], "update")
           \/ c.id \in Live /\ c.op # "update"
              /\ Goto(r, [c EXCEPT !.tarefa = t], "checkOwner")
    /\ OnlyReads

(* Mutant: a tarefa concluded before is concluded again.                   *)
CheckOwnerOnly(r) ==
    /\ At(r, "checkOwner")
    /\ LET c == call[r]
       IN  \/ c.op = "concluir" /\ Goto(r, [c EXCEPT !.tarefa = Concluir(@)], "update")
           \/ c.op = "delete" /\ Goto(r, c, "delete")
    /\ OnlyReads

(* The owner is asked for; concluir throws "Tarefa já está concluída" by   *)
(* what the handler has read before.                                       *)
CheckOwner(r) ==
    /\ At(r, "checkOwner")
    /\ LET c == call[r]
       IN  \/ c.op = "concluir" /\ c.tarefa.status = "concluida" /\ Finish(r)
           \/ c.op = "concluir" /\ c.tarefa.status # "concluida"
              /\ Goto(r, [c EXCEPT !.tarefa = Concluir(@)], "update")
           \/ c.op = "delete" /\ Goto(r, c, "delete")
    /\ OnlyReads

(* Mutant: the statement of save, which writes deleted_at as well.         *)
Upsert(r) ==
    /\ At(r, "update")
    /\ LET c == call[r]
       IN  /\ tarefas' = [tarefas EXCEPT ![c.id] = c.tarefa]
           /\ redundant' = IF c.op = "concluir" /\ tarefas[c.id].status = "concluida"
                           THEN redundant \cup {r} ELSE redundant
    /\ Goto(r, call[r], "deleteCache")
    /\ UNCHANGED <<caches, failures, faults, alone>>

(* Mutant: the cached list is not invalidated by an update.                *)
UpdateKeepingCache(r) ==
    /\ At(r, "update")
    /\ LET c == call[r]
       IN  /\ tarefas' = [tarefas EXCEPT ![c.id] =
                             [c.tarefa EXCEPT !.deleted = tarefas[c.id].deleted]]
           /\ IF c.op = "concluir" THEN Goto(r, c, "dispatch") ELSE Finish(r)
    /\ UNCHANGED <<caches, failures, faults, alone, redundant>>

(* TarefaRepository.update writes every column but deleted_at, and does    *)
(* not ask whether the row was deleted.                                    *)
Update(r) ==
    /\ At(r, "update")
    /\ LET c == call[r]
       IN  /\ tarefas' = [tarefas EXCEPT ![c.id] =
                             [c.tarefa EXCEPT !.deleted = tarefas[c.id].deleted]]
           /\ redundant' = IF c.op = "concluir" /\ tarefas[c.id].status = "concluida"
                           THEN redundant \cup {r} ELSE redundant
    /\ Goto(r, call[r], "deleteCache")
    /\ UNCHANGED <<caches, failures, faults, alone>>

Delete(r) ==
    /\ At(r, "delete")
    /\ tarefas' = [tarefas EXCEPT ![call[r].id].deleted = TRUE]
    /\ Goto(r, call[r], "deleteCache")
    /\ UNCHANGED <<caches, failures, faults, alone, redundant>>

(* What follows the writes: create ends in a notification, concluir in its *)
(* event and a notification.                                               *)
AfterWrite(r) ==
    CASE call[r].op = "create" -> Goto(r, call[r], "notify")
      [] call[r].op = "concluir" -> Goto(r, call[r], "dispatch")
      [] OTHER -> Finish(r)

(* deleteCache, when Redis (if it is used) answers.                        *)
DeleteCache(r) ==
    /\ At(r, "deleteCache")
    /\ redis' = IF redisAvailable THEN NoList ELSE redis
    /\ memory' = NoList
    /\ AfterWrite(r)
    /\ UNCHANGED <<tarefas, redisAvailable, failures, faults, alone, redundant>>

(* dispatch: processAction grants the XP (module Gamification).            *)
Dispatch(r) ==
    /\ At(r, "dispatch")
    /\ Goto(r, call[r], "notify")
    /\ OnlyReads

(* createNotification (module Timers).                                     *)
Notify(r) ==
    /\ At(r, "notify")
    /\ Finish(r)
    /\ OnlyReads

-----------------------------------------------------------------------------
(* GetTarefasByBlocoHandler *)

Cached == IF redisAvailable THEN redis ELSE memory

(* A cached list is the answer.                                            *)
GetCache(r) ==
    /\ At(r, "getCache")
    /\ IF Cached = NoList THEN Goto(r, call[r], "checkBloco") ELSE Finish(r)
    /\ OnlyReads

Select(r) ==
    /\ At(r, "select")
    /\ Goto(r, [call[r] EXCEPT !.list = [rows |-> List, reader |-> r]], "setCache")
    /\ OnlyReads

SetCache(r) ==
    /\ At(r, "setCache")
    /\ redis' = IF redisAvailable THEN call[r].list ELSE redis
    /\ memory' = IF redisAvailable THEN memory ELSE call[r].list
    /\ Finish(r)
    /\ UNCHANGED <<tarefas, redisAvailable, failures, faults, alone, redundant>>

(* Mutant: an entry is set without "EX".                                   *)
NeverExpires ==
    /\ memory # NoList
    /\ memory' = NoList
    /\ UNCHANGED <<tarefas, call, redisAvailable, redis, failures, faults, alone, redundant>>

(* TTL.SHORT is over: for Redis, or for memoryCache.                       *)
Expire ==
    /\ \/ redis # NoList /\ redis' = NoList /\ UNCHANGED memory
       \/ memory # NoList /\ memory' = NoList /\ UNCHANGED redis
    /\ UNCHANGED <<tarefas, call, redisAvailable, failures, faults, alone, redundant>>

-----------------------------------------------------------------------------
(* Errors *)

(* Redis answers with an error, which each of the three functions swallows.*)
RedisError(r) ==
    /\ redisAvailable /\ faults < MaxFaults
    /\ faults' = faults + 1
    /\ \/ At(r, "getCache") /\ Goto(r, call[r], "checkBloco") /\ UNCHANGED memory
       \/ At(r, "setCache") /\ Finish(r) /\ UNCHANGED memory
       \/ At(r, "deleteCache") /\ AfterWrite(r) /\ memory' = NoList
    /\ UNCHANGED <<tarefas, redisAvailable, redis, failures, alone, redundant>>

(* The database answers a statement with an error.                         *)
Fail(r) ==
    /\ r \in InFlight
    /\ call[r].pc \notin {"getCache", "setCache", "deleteCache", "dispatch"}
    /\ failures < MaxFailures
    /\ failures' = failures + 1
    /\ Finish(r)
    /\ UNCHANGED <<tarefas, caches, faults, alone, redundant>>

(* The process ends, and is started again: memoryCache is empty, and       *)
(* initRedis decides anew.                                                 *)
Crash ==
    /\ InFlight # {}
    /\ faults < MaxFaults
    /\ faults' = faults + 1
    /\ call' = [r \in Requests |-> IF r \in InFlight THEN [Idle EXCEPT !.pc = "done"]
                                   ELSE call[r]]
    /\ redisAvailable' \in BOOLEAN
    /\ memory' = NoList
    /\ UNCHANGED <<tarefas, redis, failures, alone, redundant>>

Quiet ==
    /\ \A r \in Requests : At(r, "done")
    /\ UNCHANGED vars

Step(r) ==
    \/ CheckBloco(r) \/ NextPosition(r) \/ Save(r)
    \/ Find(r) \/ CheckOwner(r) \/ Update(r) \/ Delete(r)
    \/ DeleteCache(r) \/ Dispatch(r) \/ Notify(r)
    \/ GetCache(r) \/ Select(r) \/ SetCache(r)

Next ==
    \/ \E r \in Requests, op \in Operations \ {"update"}, id \in Ids :
          Begin(r, op, id, Idle.update)
    \/ \E r \in Requests, id \in Ids, update \in Updates : Begin(r, "update", id, update)
    \/ \E r \in Requests : Step(r)
    \/ \E r \in Requests : RedisError(r)
    \/ \E r \in Requests : Fail(r)
    \/ Expire
    \/ Crash
    \/ Quiet

Spec == Init /\ [][Next]_vars

(* Statements and commands are answered; an entry lives for its TTL.       *)
FairSpec == Spec /\ WF_vars(Expire) /\ \A r \in Requests : WF_vars(Step(r))

-----------------------------------------------------------------------------
Row == [exists : BOOLEAN, status : StatusTarefa, concluida : BOOLEAN, edition : Ids,
        posicao : Nat, deleted : BOOLEAN]

IsEntry(e) == e = NoList \/ (/\ e.reader \in Requests
                             /\ DOMAIN e.rows \subseteq Ids
                             /\ \A id \in DOMAIN e.rows : e.rows[id] \in Row)

TypeOK ==
    /\ tarefas \in [Ids -> Row]
    /\ \A r \in Requests : /\ call[r].pc \in Running \cup {"idle", "done"}
                           /\ call[r].op \in Operations
                           /\ call[r].id \in Ids
                           /\ call[r].tarefa \in Row
                           /\ IsEntry(call[r].list)
    /\ redisAvailable \in BOOLEAN
    /\ IsEntry(redis) /\ IsEntry(memory)
    /\ failures \in 0 .. MaxFailures /\ faults \in 0 .. MaxFaults
    /\ alone \subseteq Requests /\ redundant \subseteq Requests

-----------------------------------------------------------------------------
(* What holds however the handlers interleave.                             *)

(* A tarefa is concluded exactly when it shows when it was: handlers write *)
(* both columns together, also when one undoes what the other did.         *)
StatusMatchesDate ==
    \A id \in Ids : tarefas[id].status = "concluida" <=> tarefas[id].concluida

(* A handler that read a tarefa before it was deleted and writes it back   *)
(* after does not bring it back to the list.                               *)
DeletedStaysDeleted ==
    [][\A id \in Ids : tarefas[id].deleted => tarefas'[id].deleted]_vars

(* Two tarefas share a position only if both were created while another    *)
(* request ran: the position is read in one statement and used in another. *)
PositionsDistinct ==
    \A i, j \in Live : (i # j /\ tarefas[i].posicao = tarefas[j].posicao)
                          => {i, j} \subseteq Requests \ alone

(* A request that no other overlapped grants the XP of a conclusion only   *)
(* when the tarefa was not concluded, whatever requests did before.        *)
PaidForConcluding == redundant \cap alone = {}

(* A list that is out of date with no invalidation under way was filled by *)
(* a reader that another request overlapped, or is due to an error of      *)
(* Redis or a crash.  A writer never leaves one behind by itself.          *)
StaleListHasCause ==
    LET stale == Cached # NoList /\ Cached.rows # List
        invalidating == \E r \in Requests : At(r, "deleteCache")
    IN  stale => invalidating \/ faults > 0 \/ Cached.reader \notin alone

(* Whatever its cause, a stale list does not stay: once the requests are   *)
(* done, what the next reader is answered is up to date in the end.        *)
CacheConverges == <>[](Cached = NoList \/ Cached.rows = List)

=============================================================================
