# TLA+ models of nucleos-server-ts

The server keeps the productivity data of users (núcleos, blocos, tarefas,
hábitos, listas, coleções, timers …) in PostgreSQL and rewards what they do with
XP, levels, streaks and conquistas. It is an Express application: handlers run
interleaved on one event loop, every `await` is a point where another request
of the same user may go on, and almost nothing is in a transaction. That is
what these modules are about: which promises survive interleaving, midnight,
errors between two statements, stale reads, an exhausted connection pool, the
end of the process, and a cache that is invalidated by best effort.

Paths below are relative to the repository (`src/…` of the server).

## Running

    tlc -workers 2 -config gamification_serial.cfg MCGamification
    tlapm Gamification_proofs.tla

`PROJECT.json` lists the runs, the mutant of the code that breaks each
property, the source lines every definition models, the hazards, the findings
and the theorems.

## Inventory

| Component | State | Operations | What is hard | What makes it correct |
|---|---|---|---|---|
| Level arithmetic (`domain/entities/UserLevel.ts`, `GamificacaoDomainService.ts`, `sp_completar_tarefa`) | a row of `user_levels`: level, current XP, XP of the next level, total | `addXp`; the same loop in PL/pgSQL; `levelFromXp` as the domain's reference | several levels in one addition, floored powers of 1.5, two formulas for one column | no XP lost in a level-up, level and XP agree with the reference |
| Gamification (`GamificationService.ts` and its repositories, `GamificationEventListener.ts`) | `user_levels`, `xp_logs`, `streaks`, `user_conquistas`, `user_security.last_login` | `processAction` (daily login, streak, multiplier, first-action bonus, milestones, conquistas), reached by five dispatched events | read–change–write of whole rows without transactions, checks several statements before the row they look for, midnight anywhere, failure anywhere | XP never invented, log accounts for every grant, bonuses once a day, conquista paid once and only when earned, streak exact |
| Timers (`application/commands/timers`, `TimerRepository.ts`) and the connection pool (`persistence/db/connection.ts`) | `timers`, rows of `xp_logs` and of `notifications`, pooled connections, transactions | start, stop, rename, delete; connect, release, timeout | a transaction whose reads and some of whose writes go through the pool, that is, outside of it, on a second connection | one active timer, XP once and only for a stopped timer, no rename lost, every connection comes back, no handler waits for good |
| Tarefas (`application/commands/tarefas`, `TarefaRepository.ts`) | `tarefas`: status, `concluida_em`, position, `deleted_at` | create, update, concluir, delete, list | handlers write back whole rows read earlier; positions read and then used | deleted stays deleted, status and date agree, positions distinct, conclusion paid once |
| Request handling (`auth.middleware.ts`, `validation.middleware.ts`, `route-interface.ts`, the `catch` of the controllers) | requests in flight, answers | arrival, refusal, permission, one answer | a token is all that is asked for, a permission is asked in one statement and used in a later one | one answer, and the right one |
| Authentication and accounts (`AuthController.ts`, `UsersController.ts`) | `users`, `user_security` and five more tables, one connection per sign-up | register, Google sign-in, login, refresh, me, profile, preferences, deletion, reactivation | checks before a transaction, two ways to sign up, failed attempts counted in one statement and read in another, a connect outside of its `try` | accounts whole, one per mailbox, block after five failures and not before, answers that are true |
| Núcleos and blocos (`BlocoRepository.ts`, `NucleoRepository.ts`, their controllers and handlers) | `nucleos`, `blocos` with parent, position and content, cached lists | create, update, move, reorder, delete, patch of the content, canvas on demand, lists | reorder and move statement by statement, rows written back, a canvas looked for by a tipo others may change and then inserted, writers that do not invalidate | content kept, one canvas, deleted stays deleted, lists have their blocos |
| Listas, categorias, itens (`ListasController.ts`, `ListaRepository.ts`) | three tables, a cached list | 13 endpoints | updates by id after a check; a mark toggled beside edits; deletions beside both | no field undone by the writer of another |
| Coleções (`ColecoesController.ts`, `commands/colecoes`) | `colecoes`, `campos`, `itens`, a value per item and campo | 13 endpoints | an item is as many statements as it has campos, with campos deleted in between | items whole, one value per campo, an item is one save |
| Hábitos (`commands/habitos`, `HabitoRepository.ts`, `StreakDomainService.ts`, trigger of migration 014) | `habitos`, `habito_registros`, a cached list | create, update, register a day, delete, list | registro of the day looked for and then inserted; a trigger of three statements in the INSERT's transaction, at READ COMMITTED; three computations of one streak; swallowed errors in a list that is cached, and midnight under it | no increment lost, computations agree, streak's row and list current |
| Calendário and treinos (`CalendarioController.ts`, `ExerciciosController.ts`) | `eventos`, `treinos`, `exercicios` | create, update, delete, add an exercício, list | `save` is an upsert also for an update | deleted stays deleted |
| Cache (`infrastructure/cache/redis.service.ts`) | Redis or a map in memory, chosen at start; entries with a TTL | get, set, delete | reader filling the cache after the writer's invalidation; swallowed errors; restart with the other backend | a stale list has a cause and does not stay |
| Notifications (`NotificationsController.ts`) | `notifications` | `createNotification`, mark as read, delete | select, then insert | one a day of a title |
| Start and shutdown (`api/server.ts`) | process, Redis, pool | start, `SIGTERM`, `unhandledRejection` | what is in flight when the process ends | nothing half done is taken for done |
| Stored procedures and triggers (migration 014) | – | `sp_completar_tarefa`, the streak's trigger | second writer of `user_levels`, third computation of a streak | – |
| Admin, plans, insights, progress | reports | reads, one-statement updates | – | – |
| Sockets (`api/socket`) | rooms | pushes | best effort | nothing depends on them |

How they meet: a controller calls a command handler; the handler calls
repositories (one pooled statement each), `deleteCache`, `createNotification`
and `EventDispatcher.dispatch`, which awaits the gamification listener; the
listener calls `processAction`. Login calls the dispatcher itself. A timer's XP
does not go that way: `StopTimerHandler` inserts into `xp_logs` directly.
Registered listeners for `TimerCompletadoEvent` and `ItemListaCheckedEvent`
exist, but nothing dispatches those events.

## Modules

| Module | Models | Composition |
|---|---|---|
| `UserLevel` | one level row and its two writers | alone |
| `Gamification` | `processAction` statement by statement, requests of one user, days | represents a level row by its total, whose arithmetic is `UserLevel` |
| `XpLedger` | abstract: what granting XP promises | implemented by `Gamification` (refinement `Ledger`) |
| `Timers` | the four commands on a núcleo's timers, with pool and transactions | includes `createNotification` |
| `Tarefas` | the commands on a bloco's tarefas and the cached list in either backend | ends in `dispatch`, whose XP is `Gamification`'s, and `createNotification`, which is `Timers`' |
| `Handlers` | a request from its arrival to its one answer | extended by all below |
| `Cache` | get, set, delete, errors, expiry of cached lists | extends `Handlers` |
| `Auth` | accounts and the two ways to make one | extends `Handlers` |
| `Nucleos` | núcleos of a user and their cached list | extends `Cache` |
| `Blocos` | blocos of a núcleo | extends `Nucleos`: requests of both, one cache |
| `Listas`, `Colecoes`, `Habitos`, `Agenda` | one area each | extend `Cache` or `Handlers` |
| `Conteudo` | what blocos hold | composes the four areas |
| `MC…` | small instances | |
| `…_proofs` | theorems | `Handlers_proofs` holds the lemmas about shared steps |

### UserLevel

`Add` starts an addition (`addXp(amount)` or the procedure's), `LevelUp` is one
turn of its `while`, `Settle` writes the row. The price of the next level is
`calculateNextLevelXP` for the entity, `FLOOR(v_novo_prox * 1.5)` for the
procedure. `levelFromXp` is the reference of `GamificacaoDomainService`.

### Gamification

One action per `await`. `call[r].pc` names the statement a request is about to
run, the rest of `call[r]` are the handler's locals. `Start` is the arrival of
an event; for `DAILY_LOGIN` it begins with the two statements of
`AuthController.login` that decide whether the event is dispatched at all.
Then: the check of the day's login, the streak (read, save), the XP of the day
(read), `addXp` (read, save, log), the milestone (check, `addXp`), and
`checkAchievements` (unlocked, stats, streak, level; per conquista: check,
insert, `addXp`). `Fail` ends a request at any of these statements with an
error, which the listener logs; what was written stays. `Midnight` may come
between any two. `LogTimer` is the row a stopped timer adds to `xp_logs`.

`xp_logs` is represented by the aggregates its queries compute. `granted`,
`paid`, `activeDays`, `reached` and `celebrated` are history variables.

What the model takes for granted:

- one calendar. The code compares dates in UTC, by `DATE(created_at)` in the
  database, and by local midnight; the model gives all three the same day.
- one row of `user_levels` per user, which the `ON CONFLICT (user_id)` of
  `UserLevelRepository.save` presupposes although `Schema__atual.sql` shows no
  such constraint. Streaks and user_conquistas have none, and the model lets
  overlapping requests insert several.
- the trigger on hábitos writes streak rows with a `nucleo_id` only, so not the
  rows modelled here. No TypeScript code calls the stored procedures.

### Timers

`timers` holds the committed rows. A handler that has connected holds one of
`PoolSize` connections until its `finally`; a statement sent to the pool needs
one more (`FromPool`) for itself and commits at once. `Connect`, `FindActive`,
`InsertTimer`, `CommitStart` … are the statements in order; `Rollback` is the
`catch`, `Release` the `finally`. A rename locks the row until its commit, and
other writers of it wait. `Timeout` is `connectionTimeoutMillis`; `Fail` is an
error of the database. A statement that waits on a row lock while it has a
connection of its own is not modelled (the connection is taken when the
lock is free).

### Tarefas

`tarefas` are the rows, `call[r].tarefa` the entity a handler has read and will
write back. `Update` writes every column except `deleted_at`. A column that only
edits set is represented by the request that set it last. `redisAvailable` is
chosen at start; `redis` and `memory` are the two places of the one cached
list. `RedisError` is an error that the cache functions swallow, `Crash` ends
the process and restarts it, `Expire` is the TTL. The bloco exists and
is the user's throughout; requests refused for that end as `Fail` does. An
entry remembers the reader that filled it, for `StaleListHasCause` only.

### Handlers and Cache

`Arrive` is a route handing a request to its method with what the body asks
for; `Refuse` one that ends before its first `await`: without a token, or
rejected by the validation. `Permit` is the query of a permission. `Goto`, `Keep`
and `Reply` are how a statement ends: the next one, the next one with something
read, or the answer. A request creates at most one row, whose id is the
request. `alone` is history: the requests no other one overlapped. Many
properties below hold for those only, because the code does nothing to keep
overlapping ones apart, and say so by naming the requests they exempt.

In `Cache` a list is an entry with a key, its rows, and the reader that filled
it (history). Errors of Redis (`MaxFaults`) are swallowed by all operations.

### Auth

An account is the row of `users` with the names of the tables it has rows in.
`register` and `googleSignIn` hold a connection, insert table after table
(`Insert`) and `Commit`; nobody sees the rows before, but a `UNIQUE` column makes
another transaction's insert of the same value wait (`Undecided`) and then fail
(`Taken`). `register` asks about e-mail and CPF before, by statements of the
pool. A login is `FindUser`, and then `AddAttempt`, `ReadAttempts`, `Block`, or
`LastLogin`, `ResetAttempts`. The connect of `register` is outside of its `try`:
a timeout there is an unhandled rejection, which `server.ts` answers by ending the
process (`Exit`). An address is a mailbox and a spelling, and `normalizeEmail`
removes the spelling. The token's content is the id of its account; that it is
signed and not expired is the library's, a bad one is refused.

### Nucleos and Blocos

A request acts on the núcleo it names and on the blocos of one núcleo, `Home`.
`edition` and `conteudo` are represented by the request that wrote them last.
`saveBloco` and `saveNucleo` write whole rows, `updateBloco` the columns its SQL
names; the content is not one of them. A canvas is looked for by its tipo and its
flag `is_canvas`. A creation sets both; an update and `patchContent` may set the
tipo, and leave the flag. `retyped` is history: the blocos that were given another
tipo. `UncacheBlocos` deletes the keys the
handler names, so that what it forgets (updates, moves, the canvas on demand)
stays. `move_bloco` is a function of the database that the repository calls and
does not contain; it is modelled from its use.

### Conteudo

`Listas`, `Colecoes`, `Habitos` and `Agenda` each have their tables, arrivals
and steps. None reads or writes another's tables, so an interleaving of requests
of two areas shows nothing that requests of each do not, and a behaviour of
`Conteudo` has requests of one area, chosen at the beginning. `Fail` is shared,
with what the `catch` of each controller answers. In `Colecoes` a value is the
request that set it. In `Habitos`, `getStreak`, `calculate` and
`recalculaStreak` are the three computations, evaluated on every set of days.

`saveRegistro` of a registro that is there writes it at once. That of a new one
begins a transaction, whose other statements are the trigger's
(`fn_recalcula_streak_habito`): the days are counted with `save`, of the registros
committed and its own; `ExistsStreak` looks for the row of the núcleo; `WriteStreak`
is the UPDATE, of the rows there are when it begins, or the INSERT; and
`CommitRegistro` makes all of it seen. `streaks` is a set, since no constraint
keeps a second row away. An UPDATE that waits for another one of the row writes
after it, so that the wait adds no outcome. `today` is the day `new Date()` has,
`Midnight` may come between any two statements, and `before` (history) are the
requests that had a cached list, or were reading one, when it came. A behaviour
begins with a set of days that are registered (`Registrados`). The TTL of 60 s is not
counted: an entry may expire, at any moment or never.

## Runs

| Run | Question | Bounds |
|---|---|---|
| `user_level` | Is the arithmetic of a level row right, in any sequence of additions by both writers? | totals to 1400: past level 5, where the two formulas first differ |
| `gamification_serial` | Requests one at a time, midnight and one failure anywhere: are bonuses once a day, conquistas paid once, the streak exact, and is `XpLedger` implemented? | 3 requests, 3 days, 1 failure, 1 timer, a new and a returning user, one conquista of each type |
| `gamification_concurrent` | Two requests interleaved statement by statement, over midnight: what still holds, and is an unlocked conquista paid in the end? | 2 requests, 2 days, no failure, fairness |
| `timers` | Three at a time on a pool of two: no connection lost, XP for stopped timers only, no handler waits for good; and what is promised to requests nothing overlaps | 3 requests, 2 timers, pool 2, 1 failure, fairness |
| `tarefas` | Two at a time, with an error of the database and one of Redis or a crash: rows and cached list | 3 requests, one tarefa to begin with, 1 failure, 1 fault, fairness |
| `auth` | Are accounts whole and one per mailbox, do block and counter agree, is register's answer true? | 3 requests at a time, pool 2, 2 mailboxes, one of them spelled in two ways (the account of the initial state has it in mixed case), 3 wrong passwords already, 1 failure |
| `blocos` | What do writers of some columns, and writers that do not invalidate, keep? | 3 requests, 2 at a time, 1 failure, 1 error of Redis, a canvas in the núcleo to begin with (`Firsts`) |
| `conteudo` | What do checks made earlier, and saves of several statements, keep in each area? Do the three streaks agree, when is the trigger's row right, and when the cached list? | 3 requests, 2 at a time, 1 failure, days 1 to 3, of which none is registered to begin with, midnight from day 2 to 3 |
| `daily_login_once`, `milestone_on_arrival`, `one_active_timer`, `streak_row` | Findings, below | |

Why the bounds are enough. A lost update, a double payment and a stale fill take
two requests, and a third to see the result. The streak's cases are a gap of 0,
1 and more days, and the histories put a returning user one day before the
milestone of 3. One failure is enough for each property: what a failed request
leaves is what the next ones meet. `gamification_concurrent` has none: of two
requests one that fails is, for the other, one that is never scheduled again,
which its safety properties include, and `UnlockIsPaid` exempts failed ones.
Three handlers on a pool of two is the smallest pool that handlers holding one
connection and wanting another can exhaust, and in `auth` two sign-ups leave a
login none. Two more wrong passwords than three are five, and two are what
overlapping logins can add. In `blocos` three requests after each other are
enough to make a text of the canvas, look for one, and make a canvas of the text
again, and a deletion of it lets creations overlap. In `conteudo` three requests
reach every set of three days, in any order. It has no error of Redis
(`MaxFaults` 0): `ListIsCurrent` exempts what follows one, and `blocos` and `tarefas`
exercise it.
Bounds are named (`LastDay`, `MaxInFlight`, `MaxFailures`, `MaxFaults`,
`MaxTimers`, `MaxTotal`, `MaxLevel`) and occur in guards only.

Deadlock is checked in every run; `Quiet` is the stutter of a system all of
whose requests are done.

What the properties say is written above each of them. `OncePerDay`,
`AchievementPaidOnce`, `StreakExact` and `ImplementsLedger` are checked for
requests one at a time, and do not hold for overlapping ones. The others state
this distinction themselves: `SerialPromises` of `Timers` (one active timer, XP
once per timer, renames kept, one notification a day) asks them of behaviours
in which no two requests overlapped, `PaidForConcluding`, `PositionsDistinct`,
`OneCanvas`, `NoResurrection`, `AfterDeletion` and those of coleções and hábitos
exempt the requests that were overlapped. `OneCanvas` also exempts the blocos that
were given another tipo, `StreakRow` lets only overlapped requests leave a row that
is not the current streak. `ListsHaveTheirBlocos`, `StaleListHasCause` and
`ListIsCurrent` list the causes a wrong list may have; midnight is one for the day's
mark in a line, a failed query for a hábito left out, and neither for anything else.
What a property exempts, and the code then does wrong, is in the notes of the
hazards in `PROJECT.json`.

### Fairness

`WF` of a request's step: the event loop resumes every handler whose statement
was answered, and every statement is answered or failed after
`connectionTimeoutMillis`. `WF` of `Expire`: every entry is set with a TTL. There
is no fairness of arrivals, failures, faults or midnight. In `Timers` the timeout
is one of a request's steps, since the pool guarantees it. The other modules
state safety only.

## Findings

1. `DAILY_LOGIN` twice a day (`daily_login_once`). `GamificationService.ts:39`
   says once a day; two overlapping logins both pass the check of `last_login`
   and that of `xp_logs`.
2. A milestone without an arrival (`milestone_on_arrival`).
   `GamificationService.ts:76` says the bonus is granted when the streak has
   just been incremented; the code looks at the streak's value and at whether
   the *calendar day* has a bonus, so a request that straddles midnight grants
   it again. This one needs no overlap.
3. Two active timers (`one_active_timer`). `start-timer.handler.ts:37` rejects a
   second one, but looks outside of its transaction, and no constraint backs it.
4. A streak that is not recalculated (`streak_row`). The comment of the trigger
   (migration 014, line 134) says that `current_streak` is the run of days that ends
   with the last one; of two overlapping registros of consecutive days each trigger
   counts without the day the other has not committed.

Seen while modelling and without a run of its own:

- Overlapping requests may lose XP in `addXp`, pay a conquista or a conclusion
  twice, and lose a rename; reopening and concluding a tarefa pays again; a
  timer's XP never reaches `user_levels`; a ROLLBACK of stop does not undo the
  timer's update; the procedure's prices fall below the entity's from level 5.
- `googleSignIn` may answer 500 after its COMMIT, with the account made. A
  second account without a CPF is answered 500, since `''` is `UNIQUE`.
- A coleção cannot be updated: `ColecoesController.ts:112` makes the command without
  the user, so that the handler compares the owner with the name and answers 403 to
  the owner too. `updateCampo` does the same.
- The canvas of a núcleo whose tipo is changed is made again on demand, and there are
  two when the tipo is changed back, by requests one after another.
- A cached `completoHoje` is wrong after midnight, for up to the 60 s of its entry.
- `moveToParent` lets a bloco become its own ancestor. The positions of
  exercícios may repeat.
- The cached listas of a bloco are deleted by no command; they are
  current after the TTL.
- An update of an item never stores values of campos of the tipos select and
  arquivo. The answer of a toggled item promises XP that nothing pays.
- `DELETE` of a hábito (`route-interface.ts:324`) names a column that the table
  does not have, and always fails. Deletion of a categoria fails when an item
  of it was soft-deleted, which the foreign key still counts.
- Of the three streaks, the trigger's maximum does not count days registered
  for the past, and `getStreak` divides a difference of local midnights by 24
  hours, which a change of clocks makes 23 or 25.

## Proofs

`tlapm` proves, for every value of the constants that satisfies the modules'
assumptions:

- `UserLevel_proofs`: `TypeCorrect`, `XpConserved`, `EntityIsTheReference` and
  `NobodyIsBelow`. The conservation of XP is inductive with the type invariant:
  both loops add to what was paid exactly what they take from what is in hand.
  For the other two, `LevelInv` compares what was paid with the sum of the
  prices up to the row's level: at most that sum, and the sum itself while only
  the entity has written. The sum is a recursive function, `Accumulated`; that
  it adds up prices, grows, and is passed first at the level `levelFromXp`
  finds is shown without an induction rule: a claim that fails has a least
  number for which it does (`Least`, from `WFMin`), and that number is
  contradicted.
- `Gamification_proofs`: `TypeCorrect` and `XpBounded`, for any number of
  requests in flight, of failures and days, and any conquistas. `TypeOK` is not
  inductive: the conquista a handler unlocks or pays must be one of the table,
  which `TypeInv` adds. `XpNeverInvented` is not inductive either, since
  `saveLevel` writes what `readLevel` read: `XpInv` adds that every reading is at
  most `granted`. The save then writes at most `granted + amount`, which is
  `granted'`; other requests only raise `granted`.
  Of histories it proves `StreaksAreBacked` and `ConquistasAreEarned`. For the
  first, `StreakInv` speaks of the row a handler has updated in memory and not
  yet saved: it counts active days and the day of its own activity
  (`AlmostBacked`), which is active once it is saved; and no row is ahead of the
  calendar, so that a gap below one day is none. For the second, `EarnInv` says
  that what the handler of `checkAchievements` has read is still true (so many
  rows in the log, a streak of that length on some day, a level already
  granted), because log, active days and grants only grow (`Growth`); it uses
  `XpInv` for the level and `StreakInv` for the streak.
  `LogAccountsForAll` comes from `LogInv`: the log and the grants differ by what
  the requests between the two statements of `addXp` have in hand.

  For requests that come one at a time (`MaxInFlight = 1`) it proves
  `OnceADay`, `ConquistasPaidOnce`, `StreakCountsDays` and that every step is a
  step of `XpLedger` or a stutter, `GrantsImplementLedger`: the ledger counts the
  awards of each kind on each day, so that a second one would be no step of it. `OnceInv`
  says that a request past a check finds, on whatever day it inserts its row,
  none of that kind: nothing else in flight inserts one, and a day to come
  has none (`DayInv`). `PaidInv` says that what the loop over the conquistas has
  read as unlocked is what is unlocked of those still before it, and that the
  one it pays was not paid. `ExactInv` says that the row to be saved will be the
  newest, and counts the active days up to its last one. `LedgerInv` says
  that the level a request has read is the one there is.
- `Timers_proofs`: `TypeCorrect`, `NoConnectionLeaks`, `XpIsForStoppedTimers` and
  `SerialPromisesHold`. `PoolInv` says that free connections and holders add up to
  `PoolSize` (`Cardinality` of the requests between their connect and their release),
  with locals that are well formed; a step adds or removes one holder, or none
  (`FiniteSetTheorems`). `StopInv` adds what follows a stop: whoever is past the update
  of the timer has stopped it, and nothing starts it again. `SerialInv` holds until two
  requests overlap: one is in flight at most, the promises hold, and what it has read is
  still so at its next statement (`Knows`): no timer runs when it inserts one, nothing
  was logged for the one it stops, its notification is not there yet.
- `Tarefas_proofs`: `TypeCorrect`, `StatusAndDateAgree`, `PositionsAreDistinct`,
  `PaidForConclusions`, `DeletedOnesStay` and `StaleListsHaveCauses`. None is
  inductive, because handlers write back rows read before. `RowInv` adds what a
  handler knows: its entity agrees in status and date; what it creates is not
  there yet; the position it has read is past all others and its entity is the
  row, both as long as nobody overlapped it. At most one request in flight is
  not overlapped (`Solo`). That a greatest position exists is
  `GreatestExists`, for finite sets. `StaleInv` gives each cached list that
  differs from the rows a cause, and a handler on its way to fill the cache
  either has the current rows or a cause already.
- `Blocos_proofs`: `ContentIsKept`, `CanvasIsOne`, `NothingResurrected` and
  `ListsAreExplained`. `CanvasIsOne` is about canvases that still have the tipo they
  were made with (`StillOnDemand`). `BlocoInv` has the shape of the locals at each statement: which
  row a handler may write, that the row it creates is absent and has no content, that a
  handler which found no canvas is right or overlapped, and that an update of a núcleo
  which was not overlapped has read a row that is still live. `ListInv` adds that a
  handler which is about to fill the cache has read the list as it is, if nothing
  overlapped it, and that an update writes back a row that was live; a step that changes
  a list changes it by an excused bloco or uncaches next (`ListsMove`), and the
  uncaching leaves no entry, or an error of Redis.
- `Auth_proofs`: `AccountsAreWhole`, `MailboxHasOneAccount`, `RegisterTellsTheTruth` and
  `BlockAgreesWithCounter`. `AuthInv` speaks of open transactions: each that has
  inserted its first row *claims* its e-mail and CPF, no account and no other claim has
  them, and its rows are exactly those of the inserts made, all of them at the COMMIT.
  Neither holds by the check made before the transaction, which two sign-ups pass
  together: it is the wait of the `UNIQUE` insert that makes the claim exclusive, which
  the proof uses, and the normal spelling of stored addresses, from which one mailbox is
  one address. For the last, `LockInv` follows a login between its statements: with five
  attempts somebody is about to block the account, and whoever is about to reset the
  counter of a blocked one overlapped the request that blocked it (`Explained`).
- `Conteudo_proofs`: `FieldsAreKept`, `DeletedStaysSo`, `CachedListIsCurrent`,
  `ValuesAreUnique`, `CreatedWhole`, `SavesAreWhole`, `RegistrosAreCounted`,
  `StreaksAreOne` and `StreakRowIsRight`.
  `ConteudoInv` has a part for each area, of its rows and of what its requests
  have read of them, and a step of another area keeps it. All
  rest on one fact: a request at work makes itself and every other in flight
  overlapped (`Works`), so that what one that runs alone has read is what is
  there. The listas need that a command writes only columns it was asked to;
  the cached list, that what a reader has and what it still reads make the
  list (`Parts`), where a day's mark read before midnight is the reader's own; the
  coleções, which values a creation or an update has still to write (`Creating`,
  `Updating`), and the snapshot of campos it has read.
  For the registros, `RegistrosInv` credits each registration to one
  row: a row holds at most what is credited to it, although a request that was
  overtaken writes an old number back, and their total is then bounded by the
  registrations (`TotalAtMost`, on sums over finite sets, again by a least
  counterexample).
  For the streaks, two of the computations fold over the dates in order and the
  third counts groups of days. Each is compared with `Streaks`, which says of a
  set of days, without an order or a loop, how many follow one another and how
  many do up to the last. `LoopStreaks` and `ServiceStreaks` say that a loop which
  has come to the n-th date has the streaks of the days so far; the least n
  where it has not is contradicted. That a fold, which the library defines by a
  choice, goes through its indices one after the other is shown in the same way
  (`FoldsAgree`, `FoldsExists`, `PrefixFolds`), and so is that the query orders its
  rows (`DatesOrdered`). For the SQL, the days that share a value of day minus rank
  with the last one are those of its streak (`RunByRank`). That is `StreaksAreOne`,
  which needs no more of the state than its types. `StreakRowIsRight` is about the row
  and the interleaved statements of the trigger. Its `StreakInv` says of the rows
  what the property does, and that each holds a streak of a hábito (`StreaksOK`); and of
  a request inside of the transaction (`StreakCall`) that what it has counted is at most
  the longest streak of the days there will be at its COMMIT, and the current one of
  them if nothing overlapped it (`Hand`), and that the rows it has not found are of
  overlapping requests (`Sees`). Days
  are only added (`DaysGrow`), which shortens no longest streak.
- `Handlers_proofs`: the lemmas these cite about `Arrive`, `Goto`, `Keep`, `Reply`
  and `FailWith`: who moves, who stays, that what is answered stays answered, and
  that a request which is alone is the only one in flight.

Assumptions used: those named `…Assumption` in the modules, which TLC evaluates
in every run. They say that bounds and amounts are naturals, that the actions an
event maps to are not the service's own sources, that conquistas are a
sequence with a level in the price table where the type asks for one, that
the histories a user starts with are consistent - exact, where requests come one
at a time (`SerialAssumption`) -, that the ids named apart (`Nobody`, `Old`,
`First` …) are no requests, that the requests of `Timers` and `Tarefas` and the
days of `Habitos` are finitely many, that what a behaviour begins with
(`Registrados`, `Firsts`) is made of such days and tipos, that `Nobody`, which also stands for the date
before the first, is no day, and that an address has one of two
spellings. `PricesAssumption` states two facts about powers, which TLC evaluates for
the levels up to the bound: a price is a natural number, and the procedure's price of
the next level is at most the entity's. The four theorems of `Gamification` about
serial requests have the hypothesis `MaxInFlight = 1`, as their run has.

Only model-checked: liveness (`UnlockIsPaid`, `EveryRequestEnds`,
`CacheConverges`), which is beyond the prover. Every invariant, every action
property and the refinement that a run checks have a theorem.

## Plan

1. `processReentry` (`UsersController.ts:701`), with `Tarefas`: it moves overdue
   tarefas by three statements that do not delete the cached lists.
2. `Server`: start, shutdown order, requests in flight.

## Not modelled

- `processReentry`: see the plan. Reports of `UsersController`: reads. `logout`:
  keeps no state.
- Admin, plans, insights and progress: single statements on independent rows,
  or reports. Marking notifications as read and deleting them: single
  statements.
- Sockets: nothing depends on a push.
- Validation, rate limiting and DTOs: stateless, or a library's; a request that
  the validation rejects is a refusal in every module.
- The order of a graceful shutdown. What a request meets in one, a statement
  that fails, is in every module.
- Stored procedures other than the level loop and the streak's trigger: no
  TypeScript code calls them.
- `LevelService`, `XPDomainService` and the gamification index of
  `infrastructure`, the jobs, and the listeners of events nobody dispatches:
  dead code.
- Texts, logging and formats are left out throughout.
