------------------------------ MODULE Habitos ------------------------------
(***************************************************************************)
(* The hábitos of a bloco and the registros of the days they were done on. *)
(*                                                                         *)
(* A streak is computed in three places: by HabitoRepository.getStreak for *)
(* the lists, by StreakDomainService, and in SQL by the trigger that keeps *)
(* the row of the núcleo in table streaks.  A registro is looked for by    *)
(* its day and then inserted, or incremented in memory and saved; no       *)
(* constraint makes the pair of hábito and day unique.  The statements of  *)
(* the trigger are of the transaction of the INSERT, at READ COMMITTED:    *)
(* they see its own registro and what others have committed.               *)
(***************************************************************************)
EXTENDS Cache, FiniteSetsExt, SequencesExt

CONSTANTS
    Inicial,        \* the hábito there is to begin with
    Days,           \* bound: the days of the registros, and of the server
    Today,          \* the day of the server to begin with
    Registrados     \* the sets of days the hábito may be registered on by then

ASSUME HabitosAssumption ==
    /\ Inicial \notin Requests \cup {Nobody}
    /\ Days \subseteq Nat /\ IsFiniteSet(Days) /\ Today \in Days /\ Nobody \notin Days

ASSUME RegistradosAssumption == Registrados \subseteq SUBSET Days

HabitoIds == Requests \cup {Inicial}
habitosByBloco == <<"habitos:bloco", Inicial>>

VARIABLES
    habitos,        \* the rows: nome is the request that set it, or Nobody
    registros,      \* the rows [id, habito, data, vezes]
    streaks,        \* the rows 'habito' of the núcleo: id is the request that inserted
                    \* the row; history: by, the last that wrote it, and habito, for which
    registered,     \* history: the saved registrations, and the registros of the beginning
    today,          \* the day of the server
    before          \* history: the requests that had a list, or were reading one, at midnight

habito_rows == <<habitos, registros, streaks, registered>>
clock == <<today, before>>

RowsOf(h) == {x \in registros : x.habito = h}
DaysOf(h) == {x.data : x \in RowsOf(h)}
LiveHabitos == {h \in HabitoIds : habitos[h].exists}

-----------------------------------------------------------------------------
(* The three computations.  Days are whole days: local midnights are 24    *)
(* hours apart where there is no daylight saving time.                     *)

(* The dates of the rows in ascending order, one for each row.             *)
DatesInOrder(rows) ==
    [n \in 1 .. Cardinality(rows) |->
        CHOOSE day \in Days : /\ Cardinality({x \in rows : x.data < day}) < n
                             /\ n <= Cardinality({x \in rows : x.data <= day})]

(* HabitoRepository.getStreak *)
getStreak(rows) ==
    FoldLeft(LAMBDA s, day :
                LET run == IF s.last = Nobody THEN 1
                           ELSE IF day - s.last = 1 THEN s.atual + 1
                           ELSE IF day - s.last > 1 THEN 1 ELSE s.atual
                IN  [atual |-> run, maximo |-> IF run > s.maximo THEN run ELSE s.maximo, last |-> day],
             [atual |-> 0, maximo |-> 0, last |-> Nobody],
             DatesInOrder(rows))

(* StreakDomainService.calculate *)
calculate(dates) ==
    IF dates = << >> THEN [atual |-> 0, maximo |-> 0]
    ELSE LET walk == FoldLeft(LAMBDA s, i :
                       LET diffDays == dates[i] - dates[i - 1]
                           run == IF diffDays = 1 THEN s.run + 1 ELSE IF diffDays > 1 THEN 1 ELSE s.run
                       IN  [run |-> run,
                            maximo |-> IF diffDays = 1 /\ run > s.maximo THEN run ELSE s.maximo],
                       [run |-> 1, maximo |-> 1], [n \in 1 .. Len(dates) - 1 |-> n + 1])
         IN  [atual |-> IF today - Last(dates) <= 1 THEN walk.run ELSE 0, maximo |-> walk.maximo]

(* Mutant: without DISTINCT a day counts as often as it has rows.          *)
recalculaRows(rows) ==
    LET grp(x) == x.data - Cardinality({y \in rows : y.data < x.data} \cup {x})
        last == CHOOSE x \in rows : \A y \in rows : y.data <= x.data
    IN  Cardinality({x \in rows : grp(x) = grp(last)})

(* fn_recalcula_streak_habito: of the days of the hábito, those in the     *)
(* group of the last; a day less its rank is the same within a group.      *)
recalculaStreak(rows) ==
    LET dias == {x.data : x \in rows}
        grp(day) == day - Cardinality({d \in dias : d <= day})
    IN  Cardinality({day \in dias : grp(day) = grp(Max(dias))})

-----------------------------------------------------------------------------
(* To begin with, one hábito, registered on some days, one after another.  *)
HabitosInit ==
    /\ today = Today /\ before = {}
    /\ \E days \in Registrados :
           /\ habitos = [h \in HabitoIds |-> [exists |-> h = Inicial, nome |-> Nobody]]
           /\ registros = {[id |-> <<Inicial, d>>, habito |-> Inicial, data |-> d, vezes |-> 1] : d \in days}
           /\ streaks = IF days = {} THEN {} ELSE
                        {[id |-> Inicial, by |-> Inicial, habito |-> Inicial,
                          current |-> getStreak(registros).atual,
                          max |-> getStreak(registros).maximo]}
           /\ registered = {[by |-> Inicial, habito |-> Inicial, data |-> d] : d \in days}

HabitoReads == UNCHANGED <<habito_rows, caches>>

-----------------------------------------------------------------------------
(* HabitosController *)

AskHabito(r, op, id, arg) == Arrive(r, "check", op, id, arg) /\ HabitoReads

listHabitos(r) == Arrive(r, "getCache", "listHabitos", Nobody, Nobody) /\ HabitoReads
createHabito(r) ==
    \/ AskHabito(r, "createHabito", r, Nobody)
    \/ Refuse(r, "createHabito", 400) /\ HabitoReads
updateHabito(r) == \E h \in LiveHabitos : AskHabito(r, "updateHabito", h, Nobody)
(* vezesCompletadas || 1 *)
registrar(r) == \E h \in LiveHabitos, d \in Days : AskHabito(r, "registrar", h, d)
deleteHabito(r) == \E h \in LiveHabitos : AskHabito(r, "deleteHabito", h, Nobody)

-----------------------------------------------------------------------------
(* Commands *)

(* A name that is too short throws before the row is saved.                *)
CreateHabitoHandler(r) ==
    /\ \/ \E found \in BOOLEAN : Permit(r, "createHabito", found, "write", 400)
                                 /\ UNCHANGED <<habitos, caches>>
       \/ On(r, "createHabito", "write") /\ Reply(r, 400) /\ UNCHANGED <<habitos, caches>>
       \/ /\ On(r, "createHabito", "write")
          /\ habitos' = [habitos EXCEPT ![r] = [exists |-> TRUE, nome |-> r]]
          /\ Goto(r, "uncache")
          /\ UNCHANGED caches
       \/ /\ On(r, "createHabito", "uncache")
          /\ DeleteCache({habitosByBloco}) /\ Reply(r, 201)
          /\ UNCHANGED habitos
    /\ UNCHANGED <<registros, streaks, registered>>

(* Two reads before the write, two after it.                               *)
UpdateHabitoHandler(r) ==
    /\ \/ /\ Permit(r, "updateHabito", call[r].id \in LiveHabitos, "findById", 400)
          /\ UNCHANGED <<habitos, caches>>
       \/ /\ On(r, "updateHabito", "findById")
          /\ \/ Goto(r, "write")
             \/ Reply(r, 400)
          /\ UNCHANGED <<habitos, caches>>
       \/ /\ On(r, "updateHabito", "write")
          /\ habitos' = [habitos EXCEPT ![call[r].id].nome = r]
          /\ Goto(r, "uncache")
          /\ UNCHANGED caches
       \/ /\ On(r, "updateHabito", "uncache")
          /\ DeleteCache({habitosByBloco}) /\ Goto(r, "getStreak")
          /\ UNCHANGED habitos
       \/ On(r, "updateHabito", "getStreak") /\ Goto(r, "isCompletoHoje") /\ UNCHANGED <<habitos, caches>>
       \/ On(r, "updateHabito", "isCompletoHoje") /\ Reply(r, 200) /\ UNCHANGED <<habitos, caches>>
    /\ UNCHANGED <<registros, streaks, registered>>

(* Table habitos has no column deleted_at: the statement fails.  Where it  *)
(* has one, no query asks for it: either way the hábito stays.             *)
DeleteHabitoHandler(r) ==
    /\ \/ /\ Permit(r, "deleteHabito", call[r].id \in LiveHabitos, "write", 400)
          /\ UNCHANGED caches
       \/ /\ On(r, "deleteHabito", "write")
          /\ \/ Reply(r, 400)
             \/ Goto(r, "uncache")
          /\ UNCHANGED caches
       \/ /\ On(r, "deleteHabito", "uncache")
          /\ DeleteCache({habitosByBloco}) /\ Reply(r, 204)
    /\ UNCHANGED habito_rows

(* What a registration has in hand: its registro; and, in the trigger, the *)
(* streak it has counted and the rows of streaks it has found.             *)
InHand(x) == [registro |-> x, atual |-> 0, found |-> {}]

Registered(r) == [by |-> r, habito |-> call[r].id, data |-> call[r].arg]

(* An upsert: a registro that is there is written at once; a new one by a  *)
(* transaction that goes on with the trigger.                              *)
saveRegistro(r) ==
    LET x == call[r].read.registro
        old == {y \in registros : y.id = x.id}
    IN  /\ On(r, "registrar", "save")
        /\ \/ /\ old # {}
              /\ registros' = (registros \ old) \cup {x}
              /\ registered' = registered \cup {Registered(r)}
              /\ Goto(r, "uncache")
           \/ /\ old = {}
              /\ LET atual == recalculaStreak(RowsOf(x.habito) \cup {x})
                 IN  Keep(r, [call[r].read EXCEPT !.atual = atual], "exists")
              /\ UNCHANGED <<registros, registered>>
        /\ UNCHANGED <<habitos, streaks, caches>>

(* Mutant: the row is looked for by a key it does not have.                *)
FindNoStreak(r) ==
    /\ On(r, "registrar", "exists")
    /\ Goto(r, "streak")
    /\ HabitoReads

(* SELECT EXISTS                                                           *)
ExistsStreak(r) ==
    /\ On(r, "registrar", "exists")
    /\ Keep(r, [call[r].read EXCEPT !.found = {s.id : s \in streaks}], "streak")
    /\ HabitoReads

(* The UPDATE, of the rows there are when it begins, or the INSERT of one. *)
(* What they write is seen from the COMMIT on: an UPDATE that waited for   *)
(* another of the row reads it again.                                      *)
WriteStreak(r) ==
    /\ On(r, "registrar", "streak")
    /\ Keep(r, [call[r].read EXCEPT !.found = IF @ = {} THEN {} ELSE {s.id : s \in streaks}],
            "commit")
    /\ HabitoReads

CommitRegistro(r) ==
    LET hand == call[r].read
        set(s) == [s EXCEPT !.by = r, !.habito = call[r].id, !.current = hand.atual,
                            !.max = IF hand.atual > @ THEN hand.atual ELSE @]
    IN  /\ On(r, "registrar", "commit")
        /\ registros' = registros \cup {hand.registro}
        /\ streaks' = IF hand.found = {}
                      THEN streaks \cup {[id |-> r, by |-> r, habito |-> call[r].id,
                                          current |-> hand.atual, max |-> hand.atual]}
                      ELSE {IF s.id \in hand.found THEN set(s) ELSE s : s \in streaks}
        /\ registered' = registered \cup {Registered(r)}
        /\ Goto(r, "uncache")
        /\ UNCHANGED <<habitos, caches>>

(* Mutant: a registro found is replaced by a new one.                      *)
Replaced(x) == [x EXCEPT !.vezes = 1]
Incremented(x) == [x EXCEPT !.vezes = @ + 1]

(* Mutant: the cached list stays.                                          *)
KeepCache(r) == Reply(r, 201) /\ UNCHANGED caches
(* deleteCache; then HabitoRegistradoEvent is dispatched.                  *)
UncacheRegistro(r) == DeleteCache({habitosByBloco}) /\ Reply(r, 201)

RegistrarHabitoHandler(r) ==
    LET h == call[r].id  day == call[r].arg
    IN  \/ Permit(r, "registrar", h \in LiveHabitos, "findRegistro", 400) /\ HabitoReads
        \/ /\ On(r, "registrar", "findRegistro")
           /\ LET found == {x \in RowsOf(h) : x.data = day}
              IN  IF found = {}
                  THEN LET x == [id |-> <<r, day>>, habito |-> h, data |-> day, vezes |-> 1]
                       IN  Keep(r, InHand(x), "save")
                  ELSE \E x \in found : Keep(r, InHand(Incremented(x)), "save")
           /\ HabitoReads
        \/ saveRegistro(r) \/ ExistsStreak(r) \/ WriteStreak(r) \/ CommitRegistro(r)
        \/ /\ On(r, "registrar", "uncache")
           /\ UncacheRegistro(r)
           /\ UNCHANGED habito_rows

-----------------------------------------------------------------------------
(* GetHabitosByBlocoHandler *)

(* The day is that of new Date(), whenever it is asked for.                *)
isCompletoHoje(h) == today \in DaysOf(h)

Listed(h) == [id |-> h, nome |-> habitos[h].nome, streak |-> getStreak(RowsOf(h)).atual,
              hoje |-> isCompletoHoje(h)]

(* The hábitos are read first, then for each its streak, and then its day. *)
GetHabitosByBlocoHandler(r) ==
    /\ \/ On(r, "listHabitos", "getCache") /\ GetCache(r, habitosByBloco, "check")
       \/ \E found \in BOOLEAN : Permit(r, "listHabitos", found, "select", 200) /\ UNCHANGED caches
       \/ /\ On(r, "listHabitos", "select")
          /\ Keep(r, [todo |-> {[Listed(h) EXCEPT !.streak = 0, !.hoje = FALSE] : h \in LiveHabitos},
                      rows |-> {}, now |-> Nobody],
                  "each")
          /\ UNCHANGED caches
       \/ /\ On(r, "listHabitos", "each")
          /\ \E h \in call[r].read.todo :
                Keep(r, [call[r].read EXCEPT !.todo = @ \ {h},
                             !.now = [h EXCEPT !.streak = Listed(h.id).streak]], "hoje")
          /\ UNCHANGED caches
       \/ /\ On(r, "listHabitos", "hoje")
          /\ LET row == [call[r].read.now EXCEPT !.hoje = isCompletoHoje(call[r].read.now.id)]
             IN  Keep(r, [call[r].read EXCEPT !.rows = @ \cup {row}, !.now = Nobody], "each")
          /\ UNCHANGED caches
       \/ /\ On(r, "listHabitos", "each") /\ call[r].read.todo = {}
          /\ SetCache(r, habitosByBloco, call[r].read.rows)
    /\ UNCHANGED habito_rows

(* A query for one of the hábitos fails: the list is made, and cached,     *)
(* without it.                                                             *)
LeaveOut(r) ==
    /\ failures < MaxFailures /\ failures' = failures + 1
    /\ \/ /\ On(r, "listHabitos", "each")
          /\ \E h \in call[r].read.todo : call' = [call EXCEPT ![r].read.todo = @ \ {h}]
       \/ /\ On(r, "listHabitos", "hoje")
          /\ call' = [call EXCEPT ![r].pc = "each", ![r].read.now = Nobody]
    /\ UNCHANGED <<answer, alone>>
    /\ HabitoReads

-----------------------------------------------------------------------------
Midnight ==
    /\ today + 1 \in Days
    /\ today' = today + 1
    /\ before' = {e.reader : e \in cache} \cup {r \in Requests : At(r, "each") \/ At(r, "hoje")}
    /\ UNCHANGED <<handlers, caches, habito_rows>>

HabitosArrival(r) ==
    listHabitos(r) \/ createHabito(r) \/ updateHabito(r) \/ registrar(r) \/ deleteHabito(r)

HabitosStep(r) ==
    \/ CreateHabitoHandler(r) \/ UpdateHabitoHandler(r) \/ DeleteHabitoHandler(r)
    \/ RegistrarHabitoHandler(r) \/ GetHabitosByBlocoHandler(r) \/ LeaveOut(r)

-----------------------------------------------------------------------------
Total(rows) == MapThenSumSet(LAMBDA x : x.vezes, rows)

(* The registros of a hábito on a day hold what was registered, in one     *)
(* row: never more; less, or in more rows, only if requests overlapped.    *)
RegistrosCount ==
    /\ \A q \in registered :
          LET rows == {x \in RowsOf(q.habito) : x.data = q.data}
              asked == {p \in registered : p.habito = q.habito /\ p.data = q.data}
          IN  /\ Total(rows) <= Cardinality(asked)
              /\ {p.by : p \in asked} \cap Overlapped = {}
                    => Total(rows) = Cardinality(asked) /\ Cardinality(rows) <= 1
    /\ \A x \in registros : \E q \in registered : q.habito = x.habito /\ q.data = x.data

(* The three computations agree: on the longest streak, and on the current *)
(* one but for StreakDomainService, which ends it after a day is missed.   *)
StreaksAgree ==
    \A h \in LiveHabitos : RowsOf(h) # {} =>
       LET loop == getStreak(RowsOf(h))
           service == calculate(DatesInOrder(RowsOf(h)))
       IN  /\ recalculaStreak(RowsOf(h)) = loop.atual
           /\ service.maximo = loop.maximo
           /\ service.atual = IF today - Max(DaysOf(h)) <= 1 THEN loop.atual ELSE 0

(* The row of the núcleo has what getStreak says of the hábito it was      *)
(* written for last, unless that request was overlapped, and never more    *)
(* than the hábito had in a row, nor a maximum no hábito has.  A second    *)
(* one is inserted only by requests that were both overlapped.             *)
StreakRow ==
    /\ \A s \in streaks :
          LET loop == getStreak(RowsOf(s.habito))
          IN  /\ s.by \notin Overlapped => s.current = loop.atual
              /\ s.current <= loop.maximo
              /\ \E h \in LiveHabitos : s.max <= getStreak(RowsOf(h)).maximo
    /\ \A s, t \in streaks : s = t \/ {s.id, t.id} \subseteq Overlapped

(* As the comment of the trigger has it: current_streak is the run of days *)
(* that ends with the last one.                                            *)
StreakIsRecalculated == \A s \in streaks : s.current = getStreak(RowsOf(s.habito)).atual

(* A line of the list is what the queries for it say of a hábito, but for  *)
(* the day if its reader was reading before midnight.                      *)
IsCurrent(line, reader) ==
    /\ line.id \in LiveHabitos
    /\ LET now == Listed(line.id)
       IN  line = now \/ (reader \in before /\ line = [now EXCEPT !.hoje = line.hoje])

(* The cached list has the lines the queries would make, of every hábito   *)
(* but one whose query has failed, unless a command has still to delete    *)
(* the list, Redis failed, or its reader was overlapped.                   *)
ListIsCurrent ==
    \A e \in cache : e.key = habitosByBloco =>
        \/ /\ \A line \in e.rows : IsCurrent(line, e.reader)
           /\ {line.id : line \in e.rows} = LiveHabitos \/ failures > 0
        \/ \E r \in InFlight : At(r, "uncache")
        \/ faults > 0
        \/ e.reader \in Overlapped

=============================================================================
