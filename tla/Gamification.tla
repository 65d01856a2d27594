----------------------------- MODULE Gamification -----------------------------
(***************************************************************************)
(* GamificationService.processAction and what it does to one user's rows.  *)
(*                                                                         *)
(* Every await of the service is one action: between two of them any other *)
(* request of the same user may run.  No statement is in a transaction, so *)
(* each is atomic and nothing more is.  A request may also end at any of   *)
(* them with an error (pool timeout, lost connection): the listener logs   *)
(* it, and what was written stays.                                         *)
(*                                                                         *)
(* Rows of different users never meet, hence one user.  The table xp_logs  *)
(* is represented by the aggregates its queries compute: SUM(xp_amount)    *)
(* and COUNT over all rows, and per day the SUM and the rows of the two    *)
(* sources the service looks for.  A user_levels row is represented by     *)
(* total_xp_earned, which determines the rest of it (module UserLevel).    *)
(***************************************************************************)
EXTENDS Integers, Sequences, FiniteSets

CONSTANTS
    Requests,       \* requests of the user, each handled once
    Actions,        \* actions the dispatched events map to
    Conquistas,     \* the table conquistas, ordered by xp_recompensa
    XpToReach,      \* XpToReach[l]: the total with which a row shows level l
    Histories,      \* what the user's rows may hold when the model starts
    TimerXp,        \* amounts StopTimerHandler logs, one XP a minute
    LastDay,        \* bound: days pass from day 0, the first, to this one
    MaxInFlight,    \* requests of one user handled at the same time
    MaxFailures,    \* bound: requests that end with an error
    MaxTimers       \* bound: timers stopped

Days == 0 .. LastDay

(* A row of streaks.  The rows are told apart by created_at, which stands  *)
(* for the id as well.                                                     *)
StreakRow == [created : Nat, current : Nat, max : Nat, last : Int]

ASSUME BoundsAssumption ==
    /\ LastDay \in Nat
    /\ MaxInFlight \in Nat \ {0}
    /\ MaxFailures \in Nat
    /\ MaxTimers \in Nat
    /\ TimerXp \subseteq Nat \ {0}

(* EVENT_ACTION_MAP yields neither of the two sources of the service's own.*)
ASSUME ActionsAssumption ==
    Actions \cap {"", "STREAK_MILESTONE", "ACHIEVEMENT"} = {}

ASSUME ConquistasAssumption ==
    /\ Conquistas \in Seq([type : {"count", "streak", "level"}, target : Nat, xp : Nat])
    /\ \A l \in DOMAIN XpToReach : XpToReach[l] \in Nat
    /\ \A i \in DOMAIN Conquistas :
          Conquistas[i].type = "level" => Conquistas[i].target \in DOMAIN XpToReach

(* The days before day 0 are negative.                                     *)
ASSUME HistoriesAssumption ==
    \A h \in Histories :
        /\ IsFiniteSet(h.streaks) /\ h.streaks \subseteq StreakRow
        /\ h.total \in Nat /\ h.count \in Nat
        /\ IsFiniteSet(h.activeDays) /\ h.activeDays \subseteq Int
        /\ \A s \in h.streaks :
              /\ s.last < 0 /\ s.last \in h.activeDays
              /\ ((s.last - s.current + 1) .. s.last) \subseteq h.activeDays

VARIABLES
    today,          \* the calendar day, the same for server and database
    call,           \* call[r]: the locals of request r's handler
    lastLogin,      \* user_security.last_login, as a day
    streaks,        \* rows of streaks with nucleo_id NULL
    userLevel,      \* user_levels.total_xp_earned
    xpSum,          \* SUM(xp_amount) over xp_logs
    xpCount,        \* COUNT(*) over xp_logs
    xpOn,           \* xpOn[d]: the rows of xp_logs of day d, from day 0 on
    userConquistas, \* userConquistas[i]: rows of user_conquistas for conquista i
    streakClock,    \* Streak entities constructed so far: the next created_at
    failures,       \* requests that ended with an error
    timers,         \* timers stopped
    timerXp,        \* history: the sum of what they logged
    granted,        \* history: the sum of all amounts saved into userLevel
    paid,           \* history: paid[i] ACHIEVEMENT rows logged for conquista i
    activeDays,     \* history: days whose activity some saved streak counts
    reached,        \* history: streak updates that arrived at a milestone
    celebrated      \* history: STREAK_MILESTONE rows logged

tables == <<lastLogin, streaks, userLevel, xpSum, xpCount, xpOn, userConquistas>>
history == <<timerXp, granted, paid, activeDays, reached, celebrated>>
vars == <<today, call, tables, streakClock, failures, timers, history>>

-----------------------------------------------------------------------------
(* Data *)

(* XP_VALUES, with the default of an action it does not list.              *)
XP_VALUES == [CREATE_NUCLEO |-> 100, CREATE_BLOCO |-> 40, CREATE_TAREFA |-> 25,
              CREATE_HABITO |-> 30, COMPLETE_TAREFA |-> 50, REGISTER_HABITO |-> 30,
              DAILY_LOGIN |-> 20]
BaseXp(action) == IF action \in DOMAIN XP_VALUES THEN XP_VALUES[action] ELSE 10

(* xpAmount *= 1.2, 1.5, 2 or 2.5, then Math.floor.                        *)
WithMultiplier(xp, streak) ==
    CASE streak >= 100 -> (xp * 5) \div 2
      [] streak >= 30 /\ streak < 100 -> xp * 2
      [] streak >= 7 /\ streak < 30 -> (xp * 3) \div 2
      [] streak >= 3 /\ streak < 7 -> (xp * 6) \div 5
      [] OTHER -> xp

productiveActions == {"COMPLETE_TAREFA", "REGISTER_HABITO", "CREATE_NUCLEO",
                      "CREATE_BLOCO", "CHECK_ITEM_LISTA", "COMPLETE_TIMER"}

(* streakMilestones *)
Milestones == {3, 7, 14, 30, 60, 100, 365}
MilestoneXp(streak) ==
    CASE streak = 3 -> 50
      [] streak = 7 -> 150
      [] streak = 14 -> 300
      [] streak = 30 -> 1000
      [] streak = 60 -> 2500
      [] streak = 100 -> 5000
      [] OTHER -> 50000

(* An empty day of xp_logs.  bonus counts the rows whose amount includes   *)
(* the bonus of the first productive action.                               *)
NoXp == [xp |-> 0, login |-> 0, milestone |-> 0, bonus |-> 0]

(* The locals of a handler that is not running.                            *)
Idle == [pc |-> "idle", action |-> "", firstToday |-> FALSE,
         streak |-> [created |-> 0, current |-> 0, max |-> 0, last |-> 0],
         source |-> "", amount |-> 0, bonus |-> FALSE, snapshot |-> 0,
         unlocked |-> {}, totalActions |-> 0, streakNow |-> 0, levelNow |-> 0,
         conquista |-> 0]

(* Program counters, one per await.                                        *)
Running == {"readLastLogin", "saveLastLogin", "checkLogin", "readStreak", "saveStreak",
            "readTodayXp", "readLevel", "saveLevel", "insertLog", "checkMilestone",
            "readUnlocked", "readStats", "readStreakNow", "readLevelNow",
            "checkUnlocked", "insertUnlock"}

InFlight == {r \in Requests : call[r].pc \in Running}

Larger(a, b) == IF a >= b THEN a ELSE b

-----------------------------------------------------------------------------
(* Mutant: a gap of any length continues the streak.                       *)
StreakNeverBroken(s, d) ==
    IF d - s.last >= 1
    THEN [s EXCEPT !.current = s.current + 1, !.max = Larger(s.max, s.current + 1), !.last = d]
    ELSE [s EXCEPT !.last = d]

(* Mutant: the streak goes up on every activity, also the second of a day. *)
StreakOnEveryActivity(s, d) ==
    IF d - s.last <= 1
    THEN [s EXCEPT !.current = s.current + 1, !.max = Larger(s.max, s.current + 1), !.last = d]
    ELSE [s EXCEPT !.current = 1, !.last = d]

(* Streak.update: the entity after activity on day d.                      *)
StreakUpdate(s, d) ==
    IF d - s.last = 1
    THEN [s EXCEPT !.current = s.current + 1, !.max = Larger(s.max, s.current + 1), !.last = d]
    ELSE IF d - s.last > 1 THEN [s EXCEPT !.current = 1, !.last = d]
    ELSE [s EXCEPT !.last = d]

(* Mutant: the row starts below 0 for the first update to bring it there.  *)
NewStreakBelowZero ==
    [created |-> streakClock + 1, current |-> -1, max |-> 0, last |-> today]

(* new Streak(userId): nothing counted yet, today as the last activity.    *)
NewStreak ==
    [created |-> streakClock + 1, current |-> 0, max |-> 0, last |-> today]

(* ORDER BY created_at DESC LIMIT 1                                        *)
Newest(rows) == {s \in rows : \A t \in rows : t.created <= s.created}

(* Mutant: the count and the streak of a condition are mixed up.           *)
MetByTheOther(i, totalActions, streakNow, total) ==
    CASE Conquistas[i].type = "count" -> streakNow >= Conquistas[i].target
      [] Conquistas[i].type = "streak" -> totalActions >= Conquistas[i].target
      [] OTHER -> total >= XpToReach[Conquistas[i].target]

(* Conquista i is met, on what checkAchievements has read.                 *)
Met(i, totalActions, streakNow, total) ==
    CASE Conquistas[i].type = "count" -> totalActions >= Conquistas[i].target
      [] Conquistas[i].type = "streak" -> streakNow >= Conquistas[i].target
      [] OTHER -> total >= XpToReach[Conquistas[i].target]

(* The conquistas the loop of checkAchievements still has to unlock, after *)
(* the one with index `at`, when the level read was that of `total`.       *)
ToUnlock(c, at, total) ==
    {i \in DOMAIN Conquistas : i > at /\ i \notin c.unlocked
                               /\ Met(i, c.totalActions, c.streakNow, total)}

(* addXp(userId, ach.xp_recompensa, "ACHIEVEMENT") is next.                *)
Award(c) == [c EXCEPT !.source = "ACHIEVEMENT", !.amount = Conquistas[c.conquista].xp]

(* The aggregates of a day after the row of a grant is inserted.           *)
LogRow(day, c) ==
    [xp |-> day.xp + c.amount,
     login |-> day.login + IF c.source = "DAILY_LOGIN" THEN 1 ELSE 0,
     milestone |-> day.milestone + IF c.source = "STREAK_MILESTONE" THEN 1 ELSE 0,
     bonus |-> day.bonus + IF c.bonus THEN 1 ELSE 0]

-----------------------------------------------------------------------------
Init ==
    \E h \in Histories :
        /\ today = 0
        /\ call = [r \in Requests |-> Idle]
        /\ lastLogin = -1
        /\ streaks = h.streaks
        /\ userLevel = h.total
        /\ xpSum = h.total
        /\ xpCount = h.count
        /\ xpOn = [d \in Days |-> NoXp]
        /\ userConquistas = [i \in DOMAIN Conquistas |-> 0]
        /\ streakClock = Cardinality(h.streaks)
        /\ failures = 0
        /\ timers = 0
        /\ timerXp = 0
        /\ granted = h.total
        /\ paid = [i \in DOMAIN Conquistas |-> 0]
        /\ activeDays = h.activeDays
        /\ reached = 0
        /\ celebrated = 0

Goto(r, c, label) == call' = [call EXCEPT ![r] = [c EXCEPT !.pc = label]]
Finish(r) == call' = [call EXCEPT ![r] = [Idle EXCEPT !.pc = "done"]]

At(r, label) == call[r].pc = label

-----------------------------------------------------------------------------
(* Login, up to the dispatch of UserLoginEvent *)

(* A handler starts: a login, or a handler that dispatches its event and   *)
(* so calls processAction.                                                 *)
Start(r, action) ==
    /\ At(r, "idle")
    /\ Cardinality(InFlight) < MaxInFlight
    /\ Goto(r, [Idle EXCEPT !.action = action],
            IF action = "DAILY_LOGIN" THEN "readLastLogin" ELSE "readStreak")
    /\ UNCHANGED <<today, tables, streakClock, failures, timers, history>>

(* SELECT last_login: is this the first login of the day?                  *)
ReadLastLogin(r) ==
    /\ At(r, "readLastLogin")
    /\ Goto(r, [call[r] EXCEPT !.firstToday = (lastLogin # today)], "saveLastLogin")
    /\ UNCHANGED <<today, tables, streakClock, failures, timers, history>>

(* UPDATE last_login; then dispatch, for a first login of the day only.    *)
SaveLastLogin(r) ==
    /\ At(r, "saveLastLogin")
    /\ lastLogin' = today
    /\ IF call[r].firstToday THEN Goto(r, call[r], "checkLogin") ELSE Finish(r)
    /\ UNCHANGED <<today, streaks, userLevel, xpSum, xpCount, xpOn, userConquistas,
                   streakClock, failures, timers, history>>

-----------------------------------------------------------------------------
(* processAction *)

(* Mutant: only last_login is asked whether this login is the day's first. *)
CheckNothing(r) ==
    /\ At(r, "checkLogin")
    /\ Goto(r, call[r], "readStreak")
    /\ UNCHANGED <<today, tables, streakClock, failures, timers, history>>

(* SELECT 1 FROM xp_logs ... 'DAILY_LOGIN' of today: return if there is.   *)
CheckLogin(r) ==
    /\ At(r, "checkLogin")
    /\ IF xpOn[today].login > 0 THEN Finish(r) ELSE Goto(r, call[r], "readStreak")
    /\ UNCHANGED <<today, tables, streakClock, failures, timers, history>>

(* updateStreak: the row is read and, in the same turn of the event loop,  *)
(* the entity updated in memory.                                           *)
ReadStreak(r) ==
    /\ At(r, "readStreak")
    /\ \E s \in IF streaks = {} THEN {NewStreak} ELSE Newest(streaks) :
          LET updated == StreakUpdate(s, today)
          IN  /\ Goto(r, [call[r] EXCEPT !.streak = updated], "saveStreak")
              /\ reached' = IF updated.current > s.current /\ updated.current \in Milestones
                            THEN reached + 1 ELSE reached
    /\ streakClock' = IF streaks = {} THEN streakClock + 1 ELSE streakClock
    /\ UNCHANGED <<today, tables, failures, timers, timerXp, granted, paid, activeDays,
                   celebrated>>

(* INSERT ... ON CONFLICT (id) DO UPDATE, then the amount of the action.   *)
SaveStreak(r) ==
    /\ At(r, "saveStreak")
    /\ LET c == call[r]
       IN  /\ streaks' = {t \in streaks : t.created # c.streak.created} \cup {c.streak}
           /\ activeDays' = activeDays \cup {c.streak.last}
           /\ Goto(r, [c EXCEPT !.source = c.action,
                                !.amount = WithMultiplier(BaseXp(c.action), c.streak.current)],
                   IF c.action \in productiveActions THEN "readTodayXp" ELSE "readLevel")
    /\ UNCHANGED <<today, lastLogin, userLevel, xpSum, xpCount, xpOn, userConquistas,
                   streakClock, failures, timers, timerXp, granted, paid, reached,
                   celebrated>>

(* getTodayXp: 50 more when nothing has been logged today.                 *)
ReadTodayXp(r) ==
    /\ At(r, "readTodayXp")
    /\ LET first == xpOn[today].xp = 0
       IN  Goto(r, [call[r] EXCEPT !.bonus = first,
                                   !.amount = IF first THEN @ + 50 ELSE @], "readLevel")
    /\ UNCHANGED <<today, tables, streakClock, failures, timers, history>>

(* SELECT 1 FROM xp_logs ... 'STREAK_MILESTONE' of today: grant the bonus  *)
(* of the milestone if there is none.                                      *)
CheckMilestone(r) ==
    /\ At(r, "checkMilestone")
    /\ IF xpOn[today].milestone = 0
       THEN Goto(r, [call[r] EXCEPT !.source = "STREAK_MILESTONE",
                                    !.amount = MilestoneXp(call[r].streak.current)], "readLevel")
       ELSE Goto(r, call[r], "readUnlocked")
    /\ UNCHANGED <<today, tables, streakClock, failures, timers, history>>

-----------------------------------------------------------------------------
(* checkAchievements: four reads, then one unlock after another *)

(* The loop goes on to the next conquista to unlock, or ends.              *)
NextConquista(r, c, at, total) ==
    LET pending == ToUnlock(c, at, total)
    IN  \/ pending = {} /\ Finish(r)
        \/ \E i \in pending :
              /\ \A j \in pending : i <= j
              /\ Goto(r, [c EXCEPT !.conquista = i, !.levelNow = total], "checkUnlocked")

(* Mutant: the conquistas unlocked before are not left out.                *)
ReadNothingUnlocked(r) ==
    /\ At(r, "readUnlocked")
    /\ Goto(r, [call[r] EXCEPT !.unlocked = {}], "readStats")
    /\ UNCHANGED <<today, tables, streakClock, failures, timers, history>>

ReadUnlocked(r) ==
    /\ At(r, "readUnlocked")
    /\ Goto(r, [call[r] EXCEPT !.unlocked = {i \in DOMAIN Conquistas : userConquistas[i] > 0}],
            "readStats")
    /\ UNCHANGED <<today, tables, streakClock, failures, timers, history>>

ReadStats(r) ==
    /\ At(r, "readStats")
    /\ Goto(r, [call[r] EXCEPT !.totalActions = xpCount], "readStreakNow")
    /\ UNCHANGED <<today, tables, streakClock, failures, timers, history>>

ReadStreakNow(r) ==
    /\ At(r, "readStreakNow")
    /\ \E s \in Newest(streaks) :
          Goto(r, [call[r] EXCEPT !.streakNow = s.current], "readLevelNow")
    /\ UNCHANGED <<today, tables, streakClock, failures, timers, history>>

ReadLevelNow(r) ==
    /\ At(r, "readLevelNow")
    /\ NextConquista(r, call[r], 0, userLevel)
    /\ UNCHANGED <<today, tables, streakClock, failures, timers, history>>

(* Mutant: the conquista is unlocked and the next one looked at.           *)
UnlockUnpaid(r) ==
    /\ At(r, "insertUnlock")
    /\ userConquistas' = [userConquistas EXCEPT ![call[r].conquista] = @ + 1]
    /\ NextConquista(r, call[r], call[r].conquista, call[r].levelNow)
    /\ UNCHANGED <<today, lastLogin, streaks, userLevel, xpSum, xpCount, xpOn, streakClock,
                   failures, timers, history>>

(* unlock: SELECT, and an INSERT only when there is no row; the XP of the  *)
(* conquista is added in either case.                                      *)
CheckUnlocked(r) ==
    /\ At(r, "checkUnlocked")
    /\ LET c == call[r]
       IN  IF userConquistas[c.conquista] = 0
           THEN Goto(r, c, "insertUnlock")
           ELSE Goto(r, Award(c), "readLevel")
    /\ UNCHANGED <<today, tables, streakClock, failures, timers, history>>

InsertUnlock(r) ==
    /\ At(r, "insertUnlock")
    /\ userConquistas' = [userConquistas EXCEPT ![call[r].conquista] = @ + 1]
    /\ Goto(r, Award(call[r]), "readLevel")
    /\ UNCHANGED <<today, lastLogin, streaks, userLevel, xpSum, xpCount, xpOn, streakClock,
                   failures, timers, history>>

-----------------------------------------------------------------------------
(* UserLevelRepository.addXp, for the amount and source in the locals *)

ReadLevel(r) ==
    /\ At(r, "readLevel")
    /\ Goto(r, [call[r] EXCEPT !.snapshot = userLevel], "saveLevel")
    /\ UNCHANGED <<today, tables, streakClock, failures, timers, history>>

(* Mutant: the multiplier of the streak is applied once more.              *)
SaveLevelMultiplied(r) ==
    /\ At(r, "saveLevel")
    /\ userLevel' = call[r].snapshot + WithMultiplier(call[r].amount, call[r].streak.current)
    /\ granted' = granted + call[r].amount
    /\ Goto(r, call[r], "insertLog")
    /\ UNCHANGED <<today, lastLogin, streaks, xpSum, xpCount, xpOn, userConquistas,
                   streakClock, failures, timers, timerXp, paid, activeDays, reached,
                   celebrated>>

(* Mutant: the row is updated but a grant of a conquista is not logged.    *)
SaveLevelUnlogged(r) ==
    /\ At(r, "saveLevel")
    /\ userLevel' = call[r].snapshot + call[r].amount
    /\ granted' = granted + call[r].amount
    /\ IF call[r].source = "ACHIEVEMENT" THEN Finish(r) ELSE Goto(r, call[r], "insertLog")
    /\ UNCHANGED <<today, lastLogin, streaks, xpSum, xpCount, xpOn, userConquistas,
                   streakClock, failures, timers, timerXp, paid, activeDays, reached,
                   celebrated>>

(* The upsert writes the absolute values of the entity read before.        *)
SaveLevel(r) ==
    /\ At(r, "saveLevel")
    /\ userLevel' = call[r].snapshot + call[r].amount
    /\ granted' = granted + call[r].amount
    /\ Goto(r, call[r], "insertLog")
    /\ UNCHANGED <<today, lastLogin, streaks, xpSum, xpCount, xpOn, userConquistas,
                   streakClock, failures, timers, timerXp, paid, activeDays, reached,
                   celebrated>>

(* What processAction does once addXp has returned: after the action's own *)
(* XP the milestone (looked up with the streak this request saved), after  *)
(* the milestone's the conquistas, after a conquista's the next conquista. *)
AfterAddXp(r, c) ==
    \/ /\ c.source = c.action
       /\ Goto(r, [c EXCEPT !.bonus = FALSE],
               IF c.streak.current \in Milestones THEN "checkMilestone" ELSE "readUnlocked")
    \/ /\ c.source = "STREAK_MILESTONE"
       /\ Goto(r, c, "readUnlocked")
    \/ /\ c.source = "ACHIEVEMENT"
       /\ NextConquista(r, c, c.conquista, c.levelNow)

(* INSERT INTO xp_logs                                                     *)
InsertLog(r) ==
    /\ At(r, "insertLog")
    /\ LET c == call[r]
       IN  /\ xpSum' = xpSum + c.amount
           /\ xpCount' = xpCount + 1
           /\ xpOn' = [xpOn EXCEPT ![today] = LogRow(@, c)]
           /\ paid' = IF c.source = "ACHIEVEMENT" THEN [paid EXCEPT ![c.conquista] = @ + 1]
                      ELSE paid
           /\ celebrated' = IF c.source = "STREAK_MILESTONE" THEN celebrated + 1
                            ELSE celebrated
           /\ AfterAddXp(r, c)
    /\ UNCHANGED <<today, lastLogin, streaks, userLevel, userConquistas, streakClock, failures,
                   timers, timerXp, granted, activeDays, reached>>

-----------------------------------------------------------------------------
(* A statement fails: the error leaves processAction, the listener logs it *)
(* (a login before the dispatch answers 500).                              *)
Fail(r) ==
    /\ r \in InFlight
    /\ failures < MaxFailures
    /\ failures' = failures + 1
    /\ Finish(r)
    /\ UNCHANGED <<today, tables, streakClock, timers, history>>

(* StopTimerHandler commits a row of its own to xp_logs: it does not go    *)
(* through addXp, so the level row does not see its XP.                    *)
LogTimer(amount) ==
    /\ timers < MaxTimers
    /\ timers' = timers + 1
    /\ timerXp' = timerXp + amount
    /\ xpSum' = xpSum + amount
    /\ xpCount' = xpCount + 1
    /\ xpOn' = [xpOn EXCEPT ![today].xp = @ + amount]
    /\ UNCHANGED <<today, call, lastLogin, streaks, userLevel, userConquistas, streakClock,
                   failures, granted, paid, activeDays, reached, celebrated>>

Midnight ==
    /\ today < LastDay
    /\ today' = today + 1
    /\ UNCHANGED <<call, tables, streakClock, failures, timers, history>>

(* Every request has been handled and the last day has come.               *)
Quiet ==
    /\ timers = MaxTimers
    /\ \A r \in Requests : At(r, "done")
    /\ today = LastDay
    /\ UNCHANGED vars

Step(r) ==
    \/ ReadLastLogin(r) \/ SaveLastLogin(r) \/ CheckLogin(r)
    \/ ReadStreak(r) \/ SaveStreak(r) \/ ReadTodayXp(r) \/ CheckMilestone(r)
    \/ ReadUnlocked(r) \/ ReadStats(r) \/ ReadStreakNow(r) \/ ReadLevelNow(r)
    \/ CheckUnlocked(r) \/ InsertUnlock(r)
    \/ ReadLevel(r) \/ SaveLevel(r) \/ InsertLog(r)

Next ==
    \/ \E r \in Requests : \E action \in Actions : Start(r, action)
    \/ \E r \in Requests : Step(r)
    \/ \E r \in Requests : Fail(r)
    \/ \E amount \in TimerXp : LogTimer(amount)
    \/ Midnight
    \/ Quiet

Spec == Init /\ [][Next]_vars

(* The event loop resumes every handler whose statement was answered, and  *)
(* the pool answers every statement or fails it (connectionTimeoutMillis). *)
FairSpec == Spec /\ \A r \in Requests : WF_vars(Step(r))

-----------------------------------------------------------------------------
Locals ==
    [pc : Running \cup {"idle", "done"}, action : Actions \cup {""}, firstToday : BOOLEAN,
     streak : StreakRow, source : Actions \cup {"", "STREAK_MILESTONE", "ACHIEVEMENT"},
     amount : Nat, bonus : BOOLEAN, snapshot : Nat, unlocked : SUBSET DOMAIN Conquistas,
     totalActions : Nat, streakNow : Nat, levelNow : Nat, conquista : Nat]

TypeOK ==
    /\ today \in Days
    /\ call \in [Requests -> Locals]
    /\ lastLogin \in Days \cup {-1}
    /\ streaks \subseteq StreakRow
    /\ userLevel \in Nat /\ xpSum \in Nat /\ xpCount \in Nat
    /\ xpOn \in [Days -> [xp : Nat, login : Nat, milestone : Nat, bonus : Nat]]
    /\ userConquistas \in [DOMAIN Conquistas -> Nat]
    /\ streakClock \in Nat /\ failures \in 0 .. MaxFailures
    /\ timers \in 0 .. MaxTimers /\ timerXp \in Nat
    /\ granted \in Nat
    /\ paid \in [DOMAIN Conquistas -> Nat]
    /\ activeDays \subseteq Int
    /\ reached \in Nat /\ celebrated \in Nat

-----------------------------------------------------------------------------
(* What holds however the requests of a user interleave.                   *)

(* addXp reads the row, adds and writes it back whole.  Two of them may    *)
(* lose one another's XP; no order of them shows a user (or the            *)
(* leaderboard) XP that was never granted.                                 *)
XpNeverInvented == userLevel <= granted

(* xp_logs is what the row is audited against: unless a request failed     *)
(* between the two statements of addXp, the log accounts for every grant   *)
(* as soon as no addXp is between them, also where the row lost one, and   *)
(* beyond that holds the rows of the timers only.                          *)
LogIsComplete ==
    (failures = 0 /\ \A r \in Requests : ~ At(r, "insertLog")) => xpSum = granted + timerXp

(* d and the n - 1 days before it were all active.                         *)
ActiveUpTo(d, n) == \A e \in (d - n + 1) .. d : e \in activeDays

(* Streak rows are read, updated in memory and saved whole by requests     *)
(* that may be a day apart.  Whatever row survives, the days it counts are *)
(* consecutive days on which the user was active.                          *)
StreakBacked == \A s \in streaks : ActiveUpTo(s.last, s.current)

Earned(i) ==
    LET target == Conquistas[i].target
    IN  CASE Conquistas[i].type = "count" -> xpCount >= target
          [] Conquistas[i].type = "streak" -> \E d \in activeDays : ActiveUpTo(d, target)
          [] OTHER -> granted >= XpToReach[target]

(* checkAchievements compares three values read at three times, between    *)
(* which other requests write: an unlocked conquista was still earned, by  *)
(* actions logged, days active or XP granted.                              *)
UnlockedWasEarned == \A i \in DOMAIN Conquistas : userConquistas[i] > 0 => Earned(i)

-----------------------------------------------------------------------------
(* What holds when the requests of a user come one at a time.              *)

(* One log row of a day for the login, one for a streak milestone and one  *)
(* with the bonus of the first productive action: each check precedes the  *)
(* row it looks for by several statements, and midnight may fall between.  *)
OncePerDay ==
    \A d \in Days : xpOn[d].login <= 1 /\ xpOn[d].milestone <= 1 /\ xpOn[d].bonus <= 1

(* The XP of a conquista is paid once, in whatever request it was met and  *)
(* whichever of them failed.                                               *)
AchievementPaidOnce == \A i \in DOMAIN Conquistas : paid[i] <= 1

(* The days a row with this last day counts: the active ones that end in   *)
(* it, where the very first day of the user does not count: the row is     *)
(* created on it with 0.                                                   *)
CountedDays(last, active) ==
    {d \in active : (\E first \in active : first < d) /\ \A e \in d .. last : e \in active}

CountsDays(s, active) == s.current = Cardinality(CountedDays(s.last, active))

(* The streak shown is the number of consecutive active days up to the     *)
(* last one.                                                               *)
StreakExact == \A s \in Newest(streaks) : CountsDays(s, activeDays)

(* Requests that come one at a time did so before the model starts: the    *)
(* history has an exact streak, whose last day is the last active one.     *)
ASSUME SerialAssumption ==
    MaxInFlight = 1 =>
        \A h \in Histories :
            /\ h.streaks = {} => h.activeDays = {}
            /\ \A s \in Newest(h.streaks) :
                  CountsDays(s, h.activeDays) /\ \A d \in h.activeDays : d <= s.last

(* A conquista that was unlocked is paid in the end, unless a request ends *)
(* with an error: no later request pays what is already unlocked.          *)
UnlockIsPaid ==
    \A i \in DOMAIN Conquistas : userConquistas[i] > 0 ~> (paid[i] > 0 \/ failures > 0)

(* What addXp promises when nothing interleaves (module XpLedger): the     *)
(* balance and the log move together, except for a failure between them,   *)
(* and no row of a kind is entered on a day that has one.                  *)
InInsertLog == {r \in Requests : At(r, "insertLog")}

Ledger == INSTANCE XpLedger WITH
    Starts <- {h.total : h \in Histories},
    Days <- Days,
    day <- today,
    balance <- IF InInsertLog = {} THEN userLevel
               ELSE userLevel - call[CHOOSE r \in InInsertLog : TRUE].amount,
    logged <- xpSum - timerXp,
    crashes <- failures,
    entries <- [d \in Days |-> [k \in {"login", "milestone", "bonus"} |-> xpOn[d][k]]]

ImplementsLedger == Ledger!Spec

-----------------------------------------------------------------------------
(* What the comments of the service say, and a run refutes.                *)

(* "conceder XP apenas uma vez por dia", of DAILY_LOGIN.                   *)
DailyLoginOncePerDay == \A d \in Days : xpOn[d].login <= 1

(* "Milestone de streak: conceder apenas uma vez (quando streak acabou de  *)
(* incrementar)": no more bonuses than streak updates reached a milestone. *)
MilestoneOnArrival == celebrated <= reached

=============================================================================
