------------------------ MODULE Gamification_proofs ------------------------
(***************************************************************************)
(* What holds of Gamification for every number of requests and any         *)
(* conquistas.  First the types; then what no interleaving of the requests *)
(* breaks: the XP of the row, streaks, conquistas, the log; then, from     *)
(* "Requests one at a time" on, what holds when they do not overlap.       *)
(*                                                                         *)
(* What a request has read is old when it is used.  Where requests overlap *)
(* the argument is that it stays true: days that were active, log rows and *)
(* grants only grow.  Where they do not, it is that nobody else writes.    *)
(***************************************************************************)
EXTENDS Gamification, FiniteSetTheorems, SequenceTheorems, TLAPS

-----------------------------------------------------------------------------
(* The pure operators *)

LEMMA BaseXpIsNat == ASSUME NEW action PROVE BaseXp(action) \in Nat
  <1>1. XP_VALUES \in [{"CREATE_NUCLEO", "CREATE_BLOCO", "CREATE_TAREFA", "CREATE_HABITO",
                        "COMPLETE_TAREFA", "REGISTER_HABITO", "DAILY_LOGIN"} -> Nat]
    BY DEF XP_VALUES
  <1> QED
    BY <1>1 DEF BaseXp

LEMMA WithMultiplierIsNat ==
  ASSUME NEW xp \in Nat, NEW streak \in Nat
  PROVE  WithMultiplier(xp, streak) \in Nat
  <1>1. (xp * 5) \div 2 \in Nat /\ (xp * 3) \div 2 \in Nat /\ (xp * 6) \div 5 \in Nat
    OBVIOUS
  <1>2. xp * 2 \in Nat
    OBVIOUS
  <1> QED
    BY <1>1, <1>2 DEF WithMultiplier

LEMMA MilestoneXpIsNat == ASSUME NEW streak \in Nat PROVE MilestoneXp(streak) \in Nat
  BY DEF MilestoneXp

LEMMA StreakUpdateIsRow ==
  ASSUME NEW s \in StreakRow, NEW d \in Int
  PROVE  StreakUpdate(s, d) \in StreakRow
  <1>1. s.current + 1 \in Nat /\ Larger(s.max, s.current + 1) \in Nat
    BY DEF StreakRow, Larger
  <1>2. [s EXCEPT !.current = s.current + 1, !.max = Larger(s.max, s.current + 1),
                  !.last = d] \in StreakRow
    BY <1>1 DEF StreakRow
  <1>3. [s EXCEPT !.current = 1, !.last = d] \in StreakRow
    BY DEF StreakRow
  <1>4. [s EXCEPT !.last = d] \in StreakRow
    BY DEF StreakRow
  <1> QED
    BY <1>2, <1>3, <1>4 DEF StreakUpdate

-----------------------------------------------------------------------------
(* The locals of the handlers *)

(* A handler that unlocks or pays a conquista is at one of the table.      *)
AtConquista(c) ==
    \/ c.pc \in {"checkUnlocked", "insertUnlock"}
    \/ c.pc \in {"readTodayXp", "readLevel", "saveLevel", "insertLog"}
       /\ c.source = "ACHIEVEMENT"

LocalsOK(c) == c \in Locals /\ (AtConquista(c) => c.conquista \in DOMAIN Conquistas)

TypeInv == TypeOK /\ \A r \in Requests : LocalsOK(call[r])

LEMMA IdleOK == LocalsOK(Idle) /\ LocalsOK([Idle EXCEPT !.pc = "done"])
  <1>1. FALSE \in BOOLEAN /\ {} \in SUBSET DOMAIN Conquistas
    OBVIOUS
  <1>2. [created |-> 0, current |-> 0, max |-> 0, last |-> 0] \in StreakRow
    BY DEF StreakRow
  <1>3. Idle \in Locals
    BY <1>1, <1>2 DEF Idle, Locals
  <1>4. [Idle EXCEPT !.pc = "done"] \in Locals
    BY <1>3 DEF Locals
  <1>5. ~ AtConquista(Idle) /\ ~ AtConquista([Idle EXCEPT !.pc = "done"])
    BY DEF Idle, AtConquista
  <1> QED
    BY <1>3, <1>4, <1>5 DEF LocalsOK

(* Where a handler goes next, when its locals stay well-formed.            *)
LEMMA GotoOK ==
  ASSUME TypeInv, NEW r \in Requests, NEW c, NEW label,
         LocalsOK([c EXCEPT !.pc = label]), Goto(r, c, label)
  PROVE  call' \in [Requests -> Locals] /\ \A q \in Requests : LocalsOK(call'[q])
  BY DEF TypeInv, TypeOK, LocalsOK, Goto

LEMMA FinishOK ==
  ASSUME TypeInv, NEW r \in Requests, Finish(r)
  PROVE  call' \in [Requests -> Locals] /\ \A q \in Requests : LocalsOK(call'[q])
  BY IdleOK DEF TypeInv, TypeOK, LocalsOK, Finish

(* The conquista at hand is paid next.                                     *)
LEMMA AwardOK ==
  ASSUME NEW c \in Locals, c.conquista \in DOMAIN Conquistas
  PROVE  LocalsOK([Award(c) EXCEPT !.pc = "readLevel"])
  <1> DEFINE row == [type : {"count", "streak", "level"}, target : Nat, xp : Nat]
  <1>1. Conquistas[c.conquista] \in row
    BY ConquistasAssumption, ElementOfSeq, LenProperties DEF ConquistasAssumption
  <1>2. Conquistas[c.conquista].xp \in Nat
    BY <1>1
  <1> QED
    BY <1>2 DEF Award, LocalsOK, AtConquista, Locals, Running

(* The loop of checkAchievements ends or goes on to a conquista.           *)
LEMMA NextConquistaOK ==
  ASSUME TypeInv, NEW r \in Requests, NEW c \in Locals, NEW at \in Nat, NEW total \in Nat,
         NextConquista(r, c, at, total)
  PROVE  call' \in [Requests -> Locals] /\ \A q \in Requests : LocalsOK(call'[q])
  <1>1. CASE Finish(r)
    BY <1>1, FinishOK
  <1>2. ASSUME NEW i \in ToUnlock(c, at, total),
               Goto(r, [c EXCEPT !.conquista = i, !.levelNow = total], "checkUnlocked")
        PROVE  call' \in [Requests -> Locals] /\ \A q \in Requests : LocalsOK(call'[q])
    <2>1. i \in DOMAIN Conquistas /\ i \in Nat
      BY ConquistasAssumption DEF ConquistasAssumption, ToUnlock
    <2>2. LocalsOK([[c EXCEPT !.conquista = i, !.levelNow = total]
                       EXCEPT !.pc = "checkUnlocked"])
      BY <2>1 DEF LocalsOK, AtConquista, Locals, Running
    <2> QED
      BY <1>2, <2>2, GotoOK
  <1> QED
    BY <1>1, <1>2 DEF NextConquista

-----------------------------------------------------------------------------
(* Type correctness *)

LEMMA TypeInvInit == Init => TypeInv
  <1> SUFFICES ASSUME NEW h \in Histories,
                      today = 0, call = [r \in Requests |-> Idle], lastLogin = -1,
                      streaks = h.streaks, userLevel = h.total, xpSum = h.total,
                      xpCount = h.count, xpOn = [d \in Days |-> NoXp],
                      userConquistas = [i \in DOMAIN Conquistas |-> 0],
                      streakClock = Cardinality(h.streaks), failures = 0, timers = 0, timerXp = 0,
                      granted = h.total, paid = [i \in DOMAIN Conquistas |-> 0],
                      activeDays = h.activeDays, reached = 0, celebrated = 0
               PROVE  TypeInv
    BY DEF Init
  <1>1. call \in [Requests -> Locals] /\ \A r \in Requests : LocalsOK(call[r])
    BY IdleOK DEF LocalsOK
  <1>2. /\ today \in Days /\ lastLogin \in Days \cup {-1} /\ failures \in 0 .. MaxFailures
        /\ timers \in 0 .. MaxTimers /\ timerXp \in Nat
    BY BoundsAssumption DEF BoundsAssumption, Days
  <1>3. /\ streaks \subseteq StreakRow
        /\ userLevel \in Nat /\ xpSum \in Nat /\ xpCount \in Nat /\ granted \in Nat
        /\ activeDays \subseteq Int
        /\ IsFiniteSet(h.streaks)
    BY HistoriesAssumption DEF HistoriesAssumption
  <1>4. streakClock \in Nat
    BY <1>3, FS_CardinalityType
  <1>5. xpOn \in [Days -> [xp : Nat, login : Nat, milestone : Nat, bonus : Nat]]
    BY DEF NoXp
  <1>6. /\ userConquistas \in [DOMAIN Conquistas -> Nat]
        /\ paid \in [DOMAIN Conquistas -> Nat]
    OBVIOUS
  <1> QED
    BY <1>1, <1>2, <1>3, <1>4, <1>5, <1>6 DEF TypeInv, TypeOK

(* One step per statement of a handler; under it, the tables it writes and *)
(* then the locals it leaves.                                              *)
LEMMA TypeInvStep ==
  ASSUME TypeInv, NEW r \in Requests, Step(r)
  PROVE  TypeInv'
  <1> DEFINE c == call[r]
  <1>c. c \in Locals /\ LocalsOK(c) /\ TypeOK
    BY DEF TypeInv, LocalsOK
  <1>t. today \in Days /\ today \in Int
    BY <1>c, BoundsAssumption DEF TypeOK, Days, BoundsAssumption
  <1>1. CASE ReadLastLogin(r)
    <2>1. LocalsOK([[c EXCEPT !.firstToday = (lastLogin # today)] EXCEPT !.pc = "saveLastLogin"])
      BY <1>c DEF LocalsOK, AtConquista, Locals, Running
    <2> QED
      BY <1>1, <2>1, <1>c, GotoOK DEF ReadLastLogin, TypeInv, TypeOK, tables, history
  <1>2. CASE SaveLastLogin(r)
    <2>1. LocalsOK([c EXCEPT !.pc = "checkLogin"])
      BY <1>c DEF LocalsOK, AtConquista, Locals, Running
    <2>2. call' \in [Requests -> Locals] /\ \A q \in Requests : LocalsOK(call'[q])
      BY <1>2, <2>1, GotoOK, FinishOK DEF SaveLastLogin
    <2> QED
      BY <1>2, <2>2, <1>c DEF SaveLastLogin, TypeInv, TypeOK, history
  <1>3. CASE CheckLogin(r)
    <2>1. LocalsOK([c EXCEPT !.pc = "readStreak"])
      BY <1>c DEF LocalsOK, AtConquista, Locals, Running
    <2>2. call' \in [Requests -> Locals] /\ \A q \in Requests : LocalsOK(call'[q])
      BY <1>3, <2>1, GotoOK, FinishOK DEF CheckLogin
    <2> QED
      BY <1>3, <2>2, <1>c DEF CheckLogin, TypeInv, TypeOK, tables, history
  <1>4. CASE ReadStreak(r)
    <2>1. NewStreak \in StreakRow
      BY <1>c, <1>t DEF NewStreak, StreakRow, TypeOK
    <2>2. \A s \in Newest(streaks) : s \in StreakRow
      BY <1>c DEF Newest, TypeOK
    <2>3. PICK s \in StreakRow :
             Goto(r, [c EXCEPT !.streak = StreakUpdate(s, today)], "saveStreak")
      BY <1>4, <2>1, <2>2 DEF ReadStreak
    <2>4. LocalsOK([[c EXCEPT !.streak = StreakUpdate(s, today)] EXCEPT !.pc = "saveStreak"])
      BY <1>c, <1>t, StreakUpdateIsRow DEF LocalsOK, AtConquista, Locals, Running
    <2>5. call' \in [Requests -> Locals] /\ \A q \in Requests : LocalsOK(call'[q])
      BY <2>3, <2>4, GotoOK
    <2>6. reached' \in Nat /\ streakClock' \in Nat
      BY <1>4, <1>c DEF ReadStreak, TypeOK
    <2> QED
      BY <1>4, <2>5, <2>6, <1>c DEF ReadStreak, TypeInv, TypeOK, tables
  <1>5. CASE SaveStreak(r)
    <2>1. streaks' \subseteq StreakRow /\ activeDays' \subseteq Int
      BY <1>5, <1>c DEF SaveStreak, TypeOK, Locals, StreakRow
    <2>2. WithMultiplier(BaseXp(c.action), c.streak.current) \in Nat
      BY <1>c, BaseXpIsNat, WithMultiplierIsNat DEF Locals, StreakRow
    <2>3. c.action # "ACHIEVEMENT" /\ c.action \in Actions \cup {""}
      BY <1>c, ActionsAssumption DEF ActionsAssumption, Locals
    <2>4. ASSUME NEW label \in {"readTodayXp", "readLevel"}
          PROVE  LocalsOK([[c EXCEPT !.source = c.action,
                                !.amount = WithMultiplier(BaseXp(c.action), c.streak.current)]
                              EXCEPT !.pc = label])
      BY <1>c, <2>2, <2>3 DEF LocalsOK, AtConquista, Locals, Running
    <2>5. call' \in [Requests -> Locals] /\ \A q \in Requests : LocalsOK(call'[q])
      BY <1>5, <2>4, GotoOK DEF SaveStreak
    <2> QED
      BY <1>5, <2>1, <2>5, <1>c DEF SaveStreak, TypeInv, TypeOK
  <1>6. CASE ReadTodayXp(r)
    <2> DEFINE first == xpOn[today].xp = 0
               d(b, a) == [c EXCEPT !.bonus = b, !.amount = a]
    <2>1. ASSUME NEW b \in BOOLEAN, NEW a \in Nat
          PROVE  LocalsOK([d(b, a) EXCEPT !.pc = "readLevel"])
      BY <1>6, <1>c DEF ReadTodayXp, At, LocalsOK, AtConquista, Locals, Running
    <2>2. first \in BOOLEAN /\ (IF first THEN c.amount + 50 ELSE c.amount) \in Nat
      <3>1. c.amount \in Nat
        BY <1>c DEF Locals
      <3>2. (IF first THEN c.amount + 50 ELSE c.amount) \in Nat
        BY <3>1
      <3>3. first \in BOOLEAN
        OBVIOUS
      <3> QED
        BY <3>2, <3>3
    <2>3. Goto(r, d(first, IF first THEN c.amount + 50 ELSE c.amount), "readLevel")
      BY <1>6 DEF ReadTodayXp
    <2>4. LocalsOK([d(first, IF first THEN c.amount + 50 ELSE c.amount) EXCEPT !.pc = "readLevel"])
      <3> HIDE DEF first, d
      <3> QED
        BY <2>1, <2>2
    <2>5. call' \in [Requests -> Locals] /\ \A q \in Requests : LocalsOK(call'[q])
      <3> HIDE DEF first, d
      <3> QED
        BY <2>3, <2>4, GotoOK
    <2> QED
      BY <1>6, <2>5, <1>c DEF ReadTodayXp, TypeInv, TypeOK, tables, history
  <1>7. CASE CheckMilestone(r)
    <2>1. MilestoneXp(c.streak.current) \in Nat
      BY <1>c, MilestoneXpIsNat DEF Locals, StreakRow
    <2>2. LocalsOK([[c EXCEPT !.source = "STREAK_MILESTONE",
                              !.amount = MilestoneXp(c.streak.current)] EXCEPT !.pc = "readLevel"])
      BY <1>c, <2>1 DEF LocalsOK, AtConquista, Locals, Running
    <2>3. LocalsOK([c EXCEPT !.pc = "readUnlocked"])
      BY <1>c DEF LocalsOK, AtConquista, Locals, Running
    <2>4. call' \in [Requests -> Locals] /\ \A q \in Requests : LocalsOK(call'[q])
      BY <1>7, <2>2, <2>3, GotoOK DEF CheckMilestone
    <2> QED
      BY <1>7, <2>4, <1>c DEF CheckMilestone, TypeInv, TypeOK, tables, history
  <1>8. CASE ReadUnlocked(r)
    <2>1. LocalsOK([[c EXCEPT !.unlocked = {i \in DOMAIN Conquistas : userConquistas[i] > 0}]
                       EXCEPT !.pc = "readStats"])
      BY <1>c DEF LocalsOK, AtConquista, Locals, Running
    <2> QED
      BY <1>8, <2>1, <1>c, GotoOK DEF ReadUnlocked, TypeInv, TypeOK, tables, history
  <1>9. CASE ReadStats(r)
    <2>1. LocalsOK([[c EXCEPT !.totalActions = xpCount] EXCEPT !.pc = "readStreakNow"])
      BY <1>c DEF LocalsOK, AtConquista, Locals, Running, TypeOK
    <2> QED
      BY <1>9, <2>1, <1>c, GotoOK DEF ReadStats, TypeInv, TypeOK, tables, history
  <1>10. CASE ReadStreakNow(r)
    <2>1. PICK s \in Newest(streaks) : Goto(r, [c EXCEPT !.streakNow = s.current], "readLevelNow")
      BY <1>10 DEF ReadStreakNow
    <2>2. s.current \in Nat
      BY <1>c DEF Newest, TypeOK, StreakRow
    <2>3. LocalsOK([[c EXCEPT !.streakNow = s.current] EXCEPT !.pc = "readLevelNow"])
      BY <1>c, <2>2 DEF LocalsOK, AtConquista, Locals, Running
    <2> QED
      BY <1>10, <2>1, <2>3, <1>c, GotoOK DEF ReadStreakNow, TypeInv, TypeOK, tables, history
  <1>11. CASE ReadLevelNow(r)
    <2>1. call' \in [Requests -> Locals] /\ \A q \in Requests : LocalsOK(call'[q])
      BY <1>11, <1>c, NextConquistaOK DEF ReadLevelNow, TypeOK
    <2> QED
      BY <1>11, <2>1, <1>c DEF ReadLevelNow, TypeInv, TypeOK, tables, history
  <1>12. CASE CheckUnlocked(r)
    <2>1. c.conquista \in DOMAIN Conquistas
      BY <1>12, <1>c DEF CheckUnlocked, At, LocalsOK, AtConquista
    <2>2. LocalsOK([Award(c) EXCEPT !.pc = "readLevel"])
      BY <1>c, <2>1, AwardOK
    <2>3. LocalsOK([c EXCEPT !.pc = "insertUnlock"])
      BY <1>c, <2>1 DEF LocalsOK, Locals, Running
    <2>4. call' \in [Requests -> Locals] /\ \A q \in Requests : LocalsOK(call'[q])
      BY <1>12, <2>2, <2>3, GotoOK DEF CheckUnlocked
    <2> QED
      BY <1>12, <2>4, <1>c DEF CheckUnlocked, TypeInv, TypeOK, tables, history
  <1>13. CASE InsertUnlock(r)
    <2>1. c.conquista \in DOMAIN Conquistas
      BY <1>13, <1>c DEF InsertUnlock, At, LocalsOK, AtConquista
    <2>2. userConquistas' \in [DOMAIN Conquistas -> Nat]
      BY <1>13, <2>1, <1>c DEF InsertUnlock, TypeOK
    <2>3. LocalsOK([Award(c) EXCEPT !.pc = "readLevel"])
      BY <1>c, <2>1, AwardOK
    <2> QED
      BY <1>13, <2>2, <2>3, <1>c, GotoOK DEF InsertUnlock, TypeInv, TypeOK, history
  <1>14. CASE ReadLevel(r)
    <2>1. LocalsOK([[c EXCEPT !.snapshot = userLevel] EXCEPT !.pc = "saveLevel"])
      BY <1>14, <1>c DEF ReadLevel, At, LocalsOK, AtConquista, Locals, Running, TypeOK
    <2> QED
      BY <1>14, <2>1, <1>c, GotoOK DEF ReadLevel, TypeInv, TypeOK, tables, history
  <1>15. CASE SaveLevel(r)
    <2>1. userLevel' \in Nat /\ granted' \in Nat
      <3>1. c.snapshot \in Nat /\ c.amount \in Nat
        BY <1>c DEF Locals
      <3> QED
        BY <1>15, <3>1, <1>c DEF SaveLevel, TypeOK
    <2>2. LocalsOK([c EXCEPT !.pc = "insertLog"])
      BY <1>15, <1>c DEF SaveLevel, At, LocalsOK, AtConquista, Locals, Running
    <2> QED
      BY <1>15, <2>1, <2>2, <1>c, GotoOK DEF SaveLevel, TypeInv, TypeOK
  <1>16. CASE InsertLog(r)
    <2>1. c.amount \in Nat
      BY <1>c DEF Locals
    <2>2. xpSum' \in Nat /\ xpCount' \in Nat /\ celebrated' \in Nat
      BY <1>16, <1>c, <2>1 DEF InsertLog, TypeOK
    <2>3. LogRow(xpOn[today], c) \in [xp : Nat, login : Nat, milestone : Nat, bonus : Nat]
      BY <1>c, <2>1 DEF LogRow, TypeOK
    <2>4. xpOn' \in [Days -> [xp : Nat, login : Nat, milestone : Nat, bonus : Nat]]
      BY <1>16, <1>c, <2>3 DEF InsertLog, TypeOK
    <2>5. c.source = "ACHIEVEMENT" => c.conquista \in DOMAIN Conquistas
      BY <1>16, <1>c DEF InsertLog, At, LocalsOK, AtConquista
    <2>6. paid' \in [DOMAIN Conquistas -> Nat]
      BY <1>16, <1>c, <2>5 DEF InsertLog, TypeOK
    <2>7. call' \in [Requests -> Locals] /\ \A q \in Requests : LocalsOK(call'[q])
      <3>1. AfterAddXp(r, c)
        BY <1>16 DEF InsertLog
      <3>2. ASSUME NEW label \in {"checkMilestone", "readUnlocked"}
            PROVE  /\ LocalsOK([[c EXCEPT !.bonus = FALSE] EXCEPT !.pc = label])
                   /\ LocalsOK([c EXCEPT !.pc = label])
        BY <1>c DEF LocalsOK, AtConquista, Locals, Running
      <3>3. CASE c.source = c.action
                 /\ Goto(r, [c EXCEPT !.bonus = FALSE],
                         IF c.streak.current \in Milestones
                         THEN "checkMilestone" ELSE "readUnlocked")
        BY <3>2, <3>3, GotoOK
      <3>4. CASE Goto(r, c, "readUnlocked")
        BY <3>2, <3>4, GotoOK
      <3>5. CASE NextConquista(r, c, c.conquista, c.levelNow)
        <4>1. c.conquista \in Nat /\ c.levelNow \in Nat
          BY <1>c DEF Locals
        <4> QED
          BY <3>5, <4>1, <1>c, NextConquistaOK
      <3> QED
        BY <3>1, <3>3, <3>4, <3>5 DEF AfterAddXp
    <2> QED
      BY <1>16, <2>2, <2>4, <2>6, <2>7, <1>c DEF InsertLog, TypeInv, TypeOK
  <1> QED
    BY <1>1, <1>2, <1>3, <1>4, <1>5, <1>6, <1>7, <1>8, <1>9, <1>10, <1>11, <1>12, <1>13,
       <1>14, <1>15, <1>16 DEF Step

LEMMA TypeInvNext == TypeInv /\ [Next]_vars => TypeInv'
  <1> SUFFICES ASSUME TypeInv, [Next]_vars
               PROVE  TypeInv'
    OBVIOUS
  <1>t. TypeOK
    BY DEF TypeInv
  <1>1. ASSUME NEW r \in Requests, NEW action \in Actions, Start(r, action)
        PROVE  TypeInv'
    <2>1. ASSUME NEW label \in {"readLastLogin", "readStreak"}
          PROVE  LocalsOK([[Idle EXCEPT !.action = action] EXCEPT !.pc = label])
      BY IdleOK DEF LocalsOK, AtConquista, Locals, Running
    <2>2. call' \in [Requests -> Locals] /\ \A q \in Requests : LocalsOK(call'[q])
      BY <1>1, <2>1, GotoOK DEF Start
    <2> QED
      BY <1>1, <2>2, <1>t DEF Start, TypeInv, TypeOK, tables, history
  <1>2. ASSUME NEW r \in Requests, Step(r)
        PROVE  TypeInv'
    BY <1>2, TypeInvStep
  <1>3. ASSUME NEW r \in Requests, Fail(r)
        PROVE  TypeInv'
    <2>1. failures' \in 0 .. MaxFailures
      BY <1>3, <1>t, BoundsAssumption DEF Fail, TypeOK, BoundsAssumption
    <2>2. call' \in [Requests -> Locals] /\ \A q \in Requests : LocalsOK(call'[q])
      BY <1>3, FinishOK DEF Fail
    <2> QED
      BY <1>3, <2>1, <2>2, <1>t DEF Fail, TypeInv, TypeOK, tables, history
  <1>4. CASE Midnight
    <2>1. today' \in Days
      BY <1>4, <1>t, BoundsAssumption DEF Midnight, TypeOK, Days, BoundsAssumption
    <2> QED
      BY <1>4, <2>1, <1>t DEF Midnight, TypeInv, TypeOK, tables, history, LocalsOK
  <1>5. ASSUME NEW amount \in TimerXp, LogTimer(amount)
        PROVE  TypeInv'
    <2>1. amount \in Nat
      BY BoundsAssumption DEF BoundsAssumption
    <2>2. timers' \in 0 .. MaxTimers /\ timerXp' \in Nat
      BY <1>5, <2>1, <1>t, BoundsAssumption DEF LogTimer, TypeOK, BoundsAssumption
    <2>3. xpSum' \in Nat /\ xpCount' \in Nat
      BY <1>5, <2>1, <1>t DEF LogTimer, TypeOK
    <2>4. xpOn' \in [Days -> [xp : Nat, login : Nat, milestone : Nat, bonus : Nat]]
      BY <1>5, <2>1, <1>t DEF LogTimer, TypeOK
    <2> QED
      BY <1>5, <2>2, <2>3, <2>4, <1>t DEF LogTimer, TypeInv, TypeOK, LocalsOK
  <1>6. CASE UNCHANGED vars
    BY <1>6, <1>t DEF vars, TypeInv, TypeOK, tables, history, LocalsOK
  <1> QED
    BY <1>1, <1>2, <1>3, <1>4, <1>5, <1>6 DEF Next, Quiet

(* Every table and every local of every handler keeps its type: no source  *)
(* reads a conquista that is not in the table and no XP turns negative.    *)
THEOREM TypeCorrect == Spec => []TypeOK
  <1>1. Spec => []TypeInv
    BY TypeInvInit, TypeInvNext, PTL DEF Spec
  <1>2. TypeInv => TypeOK
    BY DEF TypeInv
  <1> QED
    BY <1>1, <1>2, PTL

-----------------------------------------------------------------------------
(* No XP out of nothing *)

(* addXp writes back what it read plus the amount, however old the reading *)
(* is: the invariant is inductive once it speaks of the readings as well.  *)
XpInv ==
    /\ userLevel <= granted
    /\ \A r \in Requests : call[r].snapshot <= granted

(* A handler that goes elsewhere keeps its reading.                        *)
LEMMA GotoKeepsSnapshots ==
  ASSUME TypeInv, XpInv, NEW r \in Requests, NEW c, NEW label,
         [c EXCEPT !.pc = label].snapshot <= granted, Goto(r, c, label)
  PROVE  \A q \in Requests : call'[q].snapshot <= granted
  BY DEF TypeInv, TypeOK, XpInv, Goto

LEMMA FinishKeepsSnapshots ==
  ASSUME TypeInv, XpInv, NEW r \in Requests, Finish(r)
  PROVE  \A q \in Requests : call'[q].snapshot <= granted
  <1>1. [Idle EXCEPT !.pc = "done"].snapshot = 0
    BY DEF Idle
  <1>2. granted \in Nat
    BY DEF TypeInv, TypeOK
  <1> QED
    BY <1>1, <1>2 DEF TypeInv, TypeOK, XpInv, Finish

LEMMA NextConquistaKeepsSnapshots ==
  ASSUME TypeInv, XpInv, NEW r \in Requests, NEW c \in Locals, NEW at, NEW total,
         c.snapshot <= granted, NextConquista(r, c, at, total)
  PROVE  \A q \in Requests : call'[q].snapshot <= granted
  <1>1. CASE Finish(r)
    BY <1>1, FinishKeepsSnapshots
  <1>2. ASSUME NEW i \in ToUnlock(c, at, total),
               Goto(r, [c EXCEPT !.conquista = i, !.levelNow = total], "checkUnlocked")
        PROVE  \A q \in Requests : call'[q].snapshot <= granted
    BY <1>2 DEF TypeInv, TypeOK, XpInv, Goto, Locals
  <1> QED
    BY <1>1, <1>2 DEF NextConquista

LEMMA XpInvStep ==
  ASSUME TypeInv, XpInv, NEW r \in Requests, Step(r)
  PROVE  XpInv'
  <1> DEFINE c == call[r]
             kept == \A q \in Requests : call'[q].snapshot <= granted
  <1>c. c \in Locals /\ c.snapshot <= granted /\ TypeOK
    BY DEF TypeInv, LocalsOK, XpInv
  <1>l. \A label : [c EXCEPT !.pc = label].snapshot <= granted
    BY <1>c DEF Locals
  <1>1. CASE ReadLastLogin(r) \/ ReadStreak(r) \/ ReadTodayXp(r) \/ ReadUnlocked(r)
             \/ ReadStats(r) \/ ReadStreakNow(r)
    <2>1. UNCHANGED <<userLevel, granted>>
      BY <1>1 DEF ReadLastLogin, ReadStreak, ReadTodayXp, ReadUnlocked, ReadStats,
                  ReadStreakNow, tables, history
    <2>2. kept
      <3>1. CASE ReadLastLogin(r)
        BY <3>1, <1>c DEF ReadLastLogin, Goto, TypeInv, TypeOK, XpInv, Locals
      <3>2. CASE ReadStreak(r)
        <4>1. PICK v : Goto(r, [c EXCEPT !.streak = v], "saveStreak")
          BY <3>2 DEF ReadStreak
        <4>2. [[c EXCEPT !.streak = v] EXCEPT !.pc = "saveStreak"].snapshot <= granted
          BY <1>c DEF Locals
        <4> QED
          BY <4>1, <4>2, GotoKeepsSnapshots
      <3>3. CASE ReadTodayXp(r)
        <4> DEFINE d(b, a) == [c EXCEPT !.bonus = b, !.amount = a]
        <4>1. ASSUME NEW b, NEW a
              PROVE  [d(b, a) EXCEPT !.pc = "readLevel"].snapshot <= granted
          BY <1>c DEF Locals
        <4>2. \E b, a : Goto(r, d(b, a), "readLevel")
          BY <3>3 DEF ReadTodayXp
        <4> HIDE DEF d
        <4> QED
          BY <4>1, <4>2, GotoKeepsSnapshots
      <3>4. CASE ReadUnlocked(r)
        <4>1. PICK v : Goto(r, [c EXCEPT !.unlocked = v], "readStats")
          BY <3>4 DEF ReadUnlocked
        <4>2. [[c EXCEPT !.unlocked = v] EXCEPT !.pc = "readStats"].snapshot <= granted
          BY <1>c DEF Locals
        <4> QED
          BY <4>1, <4>2, GotoKeepsSnapshots
      <3>5. CASE ReadStats(r)
        <4>1. PICK v : Goto(r, [c EXCEPT !.totalActions = v], "readStreakNow")
          BY <3>5 DEF ReadStats
        <4>2. [[c EXCEPT !.totalActions = v] EXCEPT !.pc = "readStreakNow"].snapshot <= granted
          BY <1>c DEF Locals
        <4> QED
          BY <4>1, <4>2, GotoKeepsSnapshots
      <3>6. CASE ReadStreakNow(r)
        <4>1. PICK v : Goto(r, [c EXCEPT !.streakNow = v], "readLevelNow")
          BY <3>6 DEF ReadStreakNow
        <4>2. [[c EXCEPT !.streakNow = v] EXCEPT !.pc = "readLevelNow"].snapshot <= granted
          BY <1>c DEF Locals
        <4> QED
          BY <4>1, <4>2, GotoKeepsSnapshots
      <3> QED
        BY <1>1, <3>1, <3>2, <3>3, <3>4, <3>5, <3>6
    <2> QED
      BY <2>1, <2>2 DEF XpInv
  <1>2. CASE SaveLastLogin(r) \/ CheckLogin(r)
    <2>1. kept
      BY <1>2, <1>l, GotoKeepsSnapshots, FinishKeepsSnapshots DEF SaveLastLogin, CheckLogin
    <2> QED
      BY <1>2, <2>1 DEF SaveLastLogin, CheckLogin, XpInv, tables, history
  <1>3. CASE SaveStreak(r) \/ CheckMilestone(r) \/ CheckUnlocked(r) \/ InsertUnlock(r)
    <2>a. \A label : [Award(c) EXCEPT !.pc = label].snapshot <= granted
      BY <1>c DEF Award, Locals
    <2>1. kept
      <3>1. CASE SaveStreak(r)
        <4>1. PICK v, a, label :
                 Goto(r, [c EXCEPT !.source = v, !.amount = a], label)
          BY <3>1 DEF SaveStreak
        <4>2. [[c EXCEPT !.source = v, !.amount = a] EXCEPT !.pc = label].snapshot <= granted
          BY <1>c DEF Locals
        <4> QED
          BY <4>1, <4>2, GotoKeepsSnapshots
      <3>2. CASE CheckMilestone(r)
        <4> DEFINE d(a) == [c EXCEPT !.source = "STREAK_MILESTONE", !.amount = a]
        <4>1. ASSUME NEW a
              PROVE  [d(a) EXCEPT !.pc = "readLevel"].snapshot <= granted
          BY <1>c DEF Locals
        <4>2. \/ \E a : Goto(r, d(a), "readLevel")
              \/ Goto(r, c, "readUnlocked")
          BY <3>2 DEF CheckMilestone
        <4> HIDE DEF d
        <4> QED
          BY <1>l, <4>1, <4>2, GotoKeepsSnapshots
      <3>3. CASE CheckUnlocked(r)
        BY <3>3, <1>l, <2>a, GotoKeepsSnapshots DEF CheckUnlocked
      <3>4. CASE InsertUnlock(r)
        BY <3>4, <1>l, <2>a, GotoKeepsSnapshots DEF InsertUnlock
      <3> QED
        BY <1>3, <3>1, <3>2, <3>3, <3>4
    <2> QED
      BY <1>3, <2>1 DEF SaveStreak, CheckMilestone, CheckUnlocked, InsertUnlock, XpInv,
                        tables, history
  <1>4. CASE ReadLevelNow(r)
    <2>1. kept
      BY <1>4, <1>c, NextConquistaKeepsSnapshots DEF ReadLevelNow
    <2> QED
      BY <1>4, <2>1 DEF ReadLevelNow, XpInv, tables, history
  <1>5. CASE ReadLevel(r)
    <2>1. kept
      BY <1>5, <1>c DEF ReadLevel, Goto, TypeInv, TypeOK, XpInv, Locals
    <2> QED
      BY <1>5, <2>1 DEF ReadLevel, XpInv, tables, history
  <1>6. CASE SaveLevel(r)
    <2>1. c.amount \in Nat /\ c.snapshot \in Nat /\ granted \in Nat
      BY <1>c DEF Locals, TypeOK
    <2>2. kept /\ \A q \in Requests : call'[q].snapshot \in Nat
      <3>1. kept
        BY <1>6, <1>l, GotoKeepsSnapshots DEF SaveLevel
      <3>2. call' \in [Requests -> Locals]
        BY TypeInvStep DEF TypeInv, TypeOK
      <3> QED
        BY <3>1, <3>2 DEF Locals
    <2>3. userLevel' = c.snapshot + c.amount /\ granted' = granted + c.amount
      BY <1>6 DEF SaveLevel
    <2> QED
      BY <1>c, <2>1, <2>2, <2>3 DEF XpInv
  <1>7. CASE InsertLog(r)
    <2>1. kept
      <3>1. CASE Goto(r, [c EXCEPT !.bonus = FALSE],
                      IF c.streak.current \in Milestones
                      THEN "checkMilestone" ELSE "readUnlocked")
        BY <3>1, <1>c DEF Goto, TypeInv, TypeOK, XpInv, Locals
      <3>2. CASE Goto(r, c, "readUnlocked")
        BY <3>2, <1>l, GotoKeepsSnapshots
      <3>3. CASE NextConquista(r, c, c.conquista, c.levelNow)
        BY <3>3, <1>c, NextConquistaKeepsSnapshots
      <3> QED
        BY <1>7, <3>1, <3>2, <3>3 DEF InsertLog, AfterAddXp
    <2> QED
      BY <1>7, <2>1 DEF InsertLog, XpInv
  <1> QED
    BY <1>1, <1>2, <1>3, <1>4, <1>5, <1>6, <1>7 DEF Step

LEMMA XpInvInit == Init => XpInv
  <1> SUFFICES ASSUME NEW h \in Histories, call = [r \in Requests |-> Idle],
                      userLevel = h.total, granted = h.total
               PROVE  XpInv
    BY DEF Init
  <1>1. h.total \in Nat
    BY HistoriesAssumption DEF HistoriesAssumption
  <1>2. Idle.snapshot = 0
    BY DEF Idle
  <1> QED
    BY <1>1, <1>2 DEF XpInv

LEMMA XpInvNext == TypeInv /\ XpInv /\ [Next]_vars => XpInv'
  <1> SUFFICES ASSUME TypeInv, XpInv, [Next]_vars
               PROVE  XpInv'
    OBVIOUS
  <1>1. ASSUME NEW r \in Requests, NEW action \in Actions, Start(r, action)
        PROVE  XpInv'
    <2>1. granted \in Nat
      BY DEF TypeInv, TypeOK
    <2> QED
      BY <1>1, <2>1 DEF Start, Goto, Idle, TypeInv, TypeOK, XpInv, tables, history
  <1>2. ASSUME NEW r \in Requests, Step(r)
        PROVE  XpInv'
    BY <1>2, XpInvStep
  <1>3. ASSUME NEW r \in Requests, Fail(r)
        PROVE  XpInv'
    BY <1>3, FinishKeepsSnapshots DEF Fail, XpInv, tables, history
  <1>4. CASE Midnight
    BY <1>4 DEF Midnight, XpInv, tables, history
  <1>5. ASSUME NEW amount \in TimerXp, LogTimer(amount)
        PROVE  XpInv'
    BY <1>5 DEF LogTimer, XpInv
  <1>6. CASE UNCHANGED vars
    BY <1>6 DEF vars, XpInv, tables, history
  <1> QED
    BY <1>1, <1>2, <1>3, <1>4, <1>5, <1>6 DEF Next, Quiet

(* However many requests of a user interleave, and whichever of them fail, *)
(* the level row never holds XP that was not granted.                      *)
THEOREM XpBounded == Spec => []XpNeverInvented
  <1>1. XpInv => XpNeverInvented
    BY DEF XpInv, XpNeverInvented
  <1> QED
    BY <1>1, XpInvInit, XpInvNext, TypeInvInit, TypeInvNext, PTL DEF Spec

-----------------------------------------------------------------------------
(* Streaks *)

(* A row an update has made in memory counts active days and the day of    *)
(* its activity, which is active only once the row is saved.               *)
AlmostBacked(s) == \A e \in (s.last - s.current + 1) .. (s.last - 1) : e \in activeDays

(* No row is ahead of the calendar, so that a day less than one away from  *)
(* a row's last one is that day.                                           *)
StreakInv ==
    /\ \A s \in streaks : /\ s.last <= today /\ s.last \in activeDays
                          /\ ActiveUpTo(s.last, s.current)
    /\ \A r \in Requests : At(r, "saveStreak") => /\ call[r].streak.last <= today
                                                  /\ AlmostBacked(call[r].streak)

(* Streak.update counts one day more only after the day before.            *)
LEMMA StreakUpdateIsBacked ==
  ASSUME NEW s \in StreakRow, today \in Int, s.last <= today,
         AlmostBacked(s), s.last = today \/ s.last \in activeDays
  PROVE  /\ StreakUpdate(s, today).last = today
         /\ AlmostBacked(StreakUpdate(s, today))
  <1> DEFINE u == StreakUpdate(s, today)
  <1>t. s.last \in Int /\ s.current \in Nat
    BY DEF StreakRow
  <1>1. CASE today - s.last = 1
    <2>1. u.current = s.current + 1 /\ u.last = today
      BY <1>1 DEF StreakUpdate, StreakRow
    <2>2. \A e \in (u.last - u.current + 1) .. (u.last - 1) :
             e = s.last \/ e \in (s.last - s.current + 1) .. (s.last - 1)
      BY <1>1, <1>t, <2>1
    <2>3. s.last \in activeDays
      BY <1>1, <1>t
    <2> HIDE DEF u
    <2> QED
      BY <2>1, <2>2, <2>3 DEF AlmostBacked, u
  <1>2. CASE today - s.last > 1
    <2>1. u.current = 1 /\ u.last = today
      BY <1>2, <1>t DEF StreakUpdate, StreakRow
    <2>2. (u.last - u.current + 1) .. (u.last - 1) = {}
      BY <2>1
    <2> HIDE DEF u
    <2> QED
      BY <2>1, <2>2 DEF AlmostBacked, u
  <1>3. CASE today = s.last
    <2>1. u.current = s.current /\ u.last = today
      BY <1>3, <1>t DEF StreakUpdate, StreakRow
    <2> HIDE DEF u
    <2> QED
      BY <1>3, <2>1 DEF AlmostBacked, u
  <1> QED
    BY <1>1, <1>2, <1>3, <1>t

(* A step that leaves the rows of streaks, the day and the days that were  *)
(* active alone and takes no request to its save.                          *)
LEMMA StreakInvElsewhere ==
  ASSUME StreakInv, UNCHANGED <<today, streaks, activeDays>>,
         \A q \in Requests : call'[q] = call[q] \/ call'[q].pc # "saveStreak"
  PROVE  StreakInv'
  BY DEF StreakInv, At, AlmostBacked, ActiveUpTo

(* Where a request is after it goes to a label or ends.                    *)
LEMMA GotoElsewhere ==
  ASSUME TypeInv, NEW r \in Requests, NEW c, NEW label, Goto(r, c, label),
         [c EXCEPT !.pc = label].pc # "saveStreak"
  PROVE  \A q \in Requests : call'[q] = call[q] \/ call'[q].pc # "saveStreak"
  BY DEF TypeInv, TypeOK, Goto

LEMMA FinishElsewhere ==
  ASSUME TypeInv, NEW r \in Requests, Finish(r)
  PROVE  \A q \in Requests : call'[q] = call[q] \/ call'[q].pc # "saveStreak"
  BY DEF TypeInv, TypeOK, Finish, Idle

LEMMA NextConquistaElsewhere ==
  ASSUME TypeInv, NEW r \in Requests, NEW c \in Locals, NEW at, NEW total,
         NextConquista(r, c, at, total)
  PROVE  \A q \in Requests : call'[q] = call[q] \/ call'[q].pc # "saveStreak"
  <1>1. CASE Finish(r)
    BY <1>1, FinishElsewhere
  <1>2. ASSUME NEW i,
               Goto(r, [c EXCEPT !.conquista = i, !.levelNow = total], "checkUnlocked")
        PROVE  \A q \in Requests : call'[q] = call[q] \/ call'[q].pc # "saveStreak"
    BY <1>2, GotoElsewhere DEF Locals
  <1> QED
    BY <1>1, <1>2 DEF NextConquista

LEMMA StreakInvStep ==
  ASSUME TypeInv, StreakInv, NEW r \in Requests, Step(r)
  PROVE  StreakInv'
  <1> DEFINE c == call[r]
             elsewhere == \A q \in Requests : call'[q] = call[q] \/ call'[q].pc # "saveStreak"
  <1>c. c \in Locals /\ streaks \subseteq StreakRow /\ activeDays \subseteq Int
    BY DEF TypeInv, TypeOK
  <1>t. today \in Int
    BY BoundsAssumption DEF TypeInv, TypeOK, Days, BoundsAssumption
  <1>l. \A label : label # "saveStreak" => [c EXCEPT !.pc = label].pc # "saveStreak"
    BY <1>c DEF Locals
  <1>1. CASE ReadStreak(r)
    <2>1. PICK s \in IF streaks = {} THEN {NewStreak} ELSE Newest(streaks) :
             Goto(r, [c EXCEPT !.streak = StreakUpdate(s, today)], "saveStreak")
      BY <1>1 DEF ReadStreak
    <2>2. /\ s \in StreakRow /\ s.last <= today /\ AlmostBacked(s)
          /\ s.last = today \/ s.last \in activeDays
      <3>1. CASE streaks = {}
        <4>1. s = NewStreak
          BY <2>1, <3>1
        <4>2. s \in StreakRow
          BY <4>1, <1>t DEF NewStreak, StreakRow, TypeInv, TypeOK
        <4>3. s.last = today /\ s.current = 0
          BY <4>1 DEF NewStreak
        <4>4. (s.last - s.current + 1) .. (s.last - 1) = {}
          BY <4>3, <1>t
        <4> QED
          BY <4>2, <4>3, <4>4, <1>t DEF AlmostBacked
      <3>2. CASE streaks # {}
        <4>1. s \in streaks
          BY <2>1, <3>2 DEF Newest
        <4>2. s \in StreakRow /\ s.last \in Int /\ s.current \in Nat
          BY <4>1, <1>c DEF StreakRow
        <4>3. s.last <= today /\ s.last \in activeDays /\ ActiveUpTo(s.last, s.current)
          BY <4>1 DEF StreakInv
        <4> QED
          BY <4>2, <4>3 DEF AlmostBacked, ActiveUpTo
      <3> QED
        BY <3>1, <3>2
    <2>3. /\ StreakUpdate(s, today).last = today
          /\ AlmostBacked(StreakUpdate(s, today))
      BY <2>2, <1>t, StreakUpdateIsBacked
    <2>4. UNCHANGED <<today, streaks, activeDays>>
      BY <1>1 DEF ReadStreak, tables
    <2>5. [[c EXCEPT !.streak = StreakUpdate(s, today)] EXCEPT !.pc = "saveStreak"].streak
             = StreakUpdate(s, today)
      BY <1>c DEF Locals
    <2>6. \A q \in Requests : call'[q] = call[q] \/ call'[q].streak = StreakUpdate(s, today)
      BY <2>1, <2>5 DEF Goto, TypeInv, TypeOK
    <2> QED
      BY <2>3, <2>4, <2>6, <1>t DEF StreakInv, AlmostBacked, ActiveUpTo, At
  <1>2. CASE SaveStreak(r)
    <2>1. /\ streaks' \subseteq streaks \cup {c.streak}
          /\ activeDays' = activeDays \cup {c.streak.last}
          /\ today' = today
      BY <1>2 DEF SaveStreak
    <2>2. c.streak.last <= today /\ AlmostBacked(c.streak)
      BY <1>2 DEF StreakInv, SaveStreak
    <2>3. c.streak.last \in Int /\ c.streak.current \in Nat
      BY <1>c DEF Locals, StreakRow
    <2>4. elsewhere
      <3> DEFINE d == [c EXCEPT !.source = c.action,
                               !.amount = WithMultiplier(BaseXp(c.action), c.streak.current)]
      <3>1. Goto(r, d, "readTodayXp") \/ Goto(r, d, "readLevel")
        BY <1>2 DEF SaveStreak
      <3>2. /\ [d EXCEPT !.pc = "readTodayXp"].pc # "saveStreak"
            /\ [d EXCEPT !.pc = "readLevel"].pc # "saveStreak"
        BY <1>c DEF Locals
      <3> HIDE DEF d
      <3> QED
        BY <3>1, <3>2, GotoElsewhere
    <2>5. \A s \in streaks' : /\ s.last <= today' /\ s.last \in activeDays'
                              /\ ActiveUpTo(s.last, s.current)'
      <3>1. \A e \in (c.streak.last - c.streak.current + 1) .. c.streak.last :
               e \in activeDays'
        BY <2>1, <2>2, <2>3 DEF AlmostBacked
      <3> QED
        BY <2>1, <2>2, <3>1 DEF StreakInv, ActiveUpTo
    <2> QED
      BY <2>1, <2>4, <2>5 DEF StreakInv, At, AlmostBacked
  <1>3. CASE \/ ReadLastLogin(r) \/ SaveLastLogin(r) \/ CheckLogin(r) \/ ReadTodayXp(r)
             \/ CheckMilestone(r) \/ ReadUnlocked(r) \/ ReadStats(r) \/ ReadStreakNow(r)
             \/ ReadLevelNow(r) \/ CheckUnlocked(r) \/ InsertUnlock(r)
             \/ ReadLevel(r) \/ SaveLevel(r) \/ InsertLog(r)
    <2>1. UNCHANGED <<today, streaks, activeDays>>
      BY <1>3 DEF ReadLastLogin, SaveLastLogin, CheckLogin, ReadTodayXp, CheckMilestone,
                  ReadUnlocked, ReadStats, ReadStreakNow, ReadLevelNow, CheckUnlocked,
                  InsertUnlock, ReadLevel, SaveLevel, InsertLog, tables, history
    <2>2. elsewhere
      <3>1. CASE ReadLastLogin(r)
        <4>1. PICK v : Goto(r, [c EXCEPT !.firstToday = v], "saveLastLogin")
          BY <3>1 DEF ReadLastLogin
        <4>2. [[c EXCEPT !.firstToday = v] EXCEPT !.pc = "saveLastLogin"].pc # "saveStreak"
          BY <1>c DEF Locals
        <4> QED
          BY <4>1, <4>2, GotoElsewhere
      <3>2. CASE SaveLastLogin(r) \/ CheckLogin(r)
        BY <3>2, <1>l, GotoElsewhere, FinishElsewhere DEF SaveLastLogin, CheckLogin
      <3>3. CASE ReadTodayXp(r)
        <4> DEFINE d(b, a) == [c EXCEPT !.bonus = b, !.amount = a]
        <4>1. ASSUME NEW b, NEW a
              PROVE  [d(b, a) EXCEPT !.pc = "readLevel"].pc # "saveStreak"
          BY <1>c DEF Locals
        <4>2. \E b, a : Goto(r, d(b, a), "readLevel")
          BY <3>3 DEF ReadTodayXp
        <4> HIDE DEF d
        <4> QED
          BY <1>l, <4>1, <4>2, GotoElsewhere
      <3>4. CASE CheckMilestone(r)
        <4> DEFINE d(a) == [c EXCEPT !.source = "STREAK_MILESTONE", !.amount = a]
        <4>1. ASSUME NEW a
              PROVE  [d(a) EXCEPT !.pc = "readLevel"].pc # "saveStreak"
          BY <1>c DEF Locals
        <4>2. (\E a : Goto(r, d(a), "readLevel")) \/ Goto(r, c, "readUnlocked")
          BY <3>4 DEF CheckMilestone
        <4> HIDE DEF d
        <4> QED
          BY <1>l, <4>1, <4>2, GotoElsewhere
      <3>5. CASE ReadUnlocked(r)
        <4>1. PICK v : Goto(r, [c EXCEPT !.unlocked = v], "readStats")
          BY <3>5 DEF ReadUnlocked
        <4>2. [[c EXCEPT !.unlocked = v] EXCEPT !.pc = "readStats"].pc # "saveStreak"
          BY <1>c DEF Locals
        <4> QED
          BY <4>1, <4>2, GotoElsewhere
      <3>6. CASE ReadStats(r)
        <4>1. PICK v : Goto(r, [c EXCEPT !.totalActions = v], "readStreakNow")
          BY <3>6 DEF ReadStats
        <4>2. [[c EXCEPT !.totalActions = v] EXCEPT !.pc = "readStreakNow"].pc # "saveStreak"
          BY <1>c DEF Locals
        <4> QED
          BY <4>1, <4>2, GotoElsewhere
      <3>7. CASE ReadStreakNow(r)
        <4>1. PICK v : Goto(r, [c EXCEPT !.streakNow = v], "readLevelNow")
          BY <3>7 DEF ReadStreakNow
        <4>2. [[c EXCEPT !.streakNow = v] EXCEPT !.pc = "readLevelNow"].pc # "saveStreak"
          BY <1>c DEF Locals
        <4> QED
          BY <4>1, <4>2, GotoElsewhere
      <3>8. CASE ReadLevelNow(r)
        BY <3>8, <1>c, NextConquistaElsewhere DEF ReadLevelNow
      <3>9. CASE CheckUnlocked(r) \/ InsertUnlock(r)
        <4>1. [Award(c) EXCEPT !.pc = "readLevel"].pc # "saveStreak"
          BY <1>c DEF Award, Locals
        <4> QED
          BY <3>9, <4>1, <1>l, GotoElsewhere DEF CheckUnlocked, InsertUnlock
      <3>10. CASE ReadLevel(r)
        <4>1. PICK v : Goto(r, [c EXCEPT !.snapshot = v], "saveLevel")
          BY <3>10 DEF ReadLevel
        <4>2. [[c EXCEPT !.snapshot = v] EXCEPT !.pc = "saveLevel"].pc # "saveStreak"
          BY <1>c DEF Locals
        <4> QED
          BY <4>1, <4>2, GotoElsewhere
      <3>11. CASE SaveLevel(r)
        BY <3>11, <1>l, GotoElsewhere DEF SaveLevel
      <3>12. CASE InsertLog(r)
        <4> DEFINE d == [c EXCEPT !.bonus = FALSE]
        <4>1. \/ Goto(r, d, "checkMilestone") \/ Goto(r, d, "readUnlocked")
              \/ Goto(r, c, "readUnlocked")
              \/ NextConquista(r, c, c.conquista, c.levelNow)
          BY <3>12 DEF InsertLog, AfterAddXp
        <4>2. /\ [d EXCEPT !.pc = "checkMilestone"].pc # "saveStreak"
              /\ [d EXCEPT !.pc = "readUnlocked"].pc # "saveStreak"
          BY <1>c DEF Locals
        <4> HIDE DEF d
        <4> QED
          BY <1>c, <1>l, <4>1, <4>2, GotoElsewhere, NextConquistaElsewhere
      <3> QED
        BY <1>3, <3>1, <3>2, <3>3, <3>4, <3>5, <3>6, <3>7, <3>8, <3>9, <3>10, <3>11, <3>12
    <2> QED
      BY <2>1, <2>2, StreakInvElsewhere
  <1> QED
    BY <1>1, <1>2, <1>3 DEF Step

LEMMA StreakInvInit == Init => StreakInv
  <1> SUFFICES ASSUME NEW h \in Histories, today = 0, call = [r \in Requests |-> Idle],
                      streaks = h.streaks, activeDays = h.activeDays
               PROVE  StreakInv
    BY DEF Init
  <1>1. \A s \in streaks : /\ s.last \in Int /\ s.last <= today /\ s.last \in activeDays
                           /\ ActiveUpTo(s.last, s.current)
    BY HistoriesAssumption DEF HistoriesAssumption, StreakRow, ActiveUpTo
  <1>2. \A r \in Requests : ~ At(r, "saveStreak")
    BY DEF At, Idle
  <1> QED
    BY <1>1, <1>2 DEF StreakInv

LEMMA StreakInvNext == TypeInv /\ StreakInv /\ [Next]_vars => StreakInv'
  <1> SUFFICES ASSUME TypeInv, StreakInv, [Next]_vars
               PROVE  StreakInv'
    OBVIOUS
  <1>1. ASSUME NEW r \in Requests, NEW action \in Actions, Start(r, action)
        PROVE  StreakInv'
    <2>1. \A label : label # "saveStreak" =>
             [[Idle EXCEPT !.action = action] EXCEPT !.pc = label].pc # "saveStreak"
      BY DEF Idle
    <2>2. \A q \in Requests : call'[q] = call[q] \/ call'[q].pc # "saveStreak"
      BY <1>1, <2>1, GotoElsewhere DEF Start
    <2> QED
      BY <1>1, <2>2, StreakInvElsewhere DEF Start, tables, history
  <1>2. ASSUME NEW r \in Requests, Step(r)
        PROVE  StreakInv'
    BY <1>2, StreakInvStep
  <1>3. ASSUME NEW r \in Requests, Fail(r)
        PROVE  StreakInv'
    BY <1>3, FinishElsewhere, StreakInvElsewhere DEF Fail, tables, history
  <1>4. CASE Midnight
    <2>1. today \in Int
      BY BoundsAssumption DEF BoundsAssumption, TypeInv, TypeOK, Days
    <2>2. \A s \in streaks : s.last \in Int
      BY DEF TypeInv, TypeOK, StreakRow
    <2>3. \A r \in Requests : call[r].streak.last \in Int
      <3>1. \A r \in Requests : call[r].streak \in StreakRow
        BY DEF TypeInv, TypeOK, Locals
      <3> QED
        BY <3>1 DEF StreakRow
    <2> QED
      BY <1>4, <2>1, <2>2, <2>3 DEF Midnight, StreakInv, At, AlmostBacked, ActiveUpTo, tables, history
  <1>5. ASSUME NEW amount \in TimerXp, LogTimer(amount)
        PROVE  StreakInv'
    BY <1>5, StreakInvElsewhere DEF LogTimer
  <1>6. CASE UNCHANGED vars
    BY <1>6, StreakInvElsewhere DEF vars, tables, history
  <1> QED
    BY <1>1, <1>2, <1>3, <1>4, <1>5, <1>6 DEF Next, Quiet

(* Whatever row of streaks survives the requests that wrote it, the days   *)
(* it counts are consecutive days on which the user was active.            *)
THEOREM StreaksAreBacked == Spec => []StreakBacked
  <1>1. StreakInv => StreakBacked
    BY DEF StreakInv, StreakBacked
  <1> QED
    BY <1>1, StreakInvInit, StreakInvNext, TypeInvInit, TypeInvNext, PTL DEF Spec

-----------------------------------------------------------------------------
(* Conquistas *)

(* What the handler of checkAchievements knows, however long ago it read   *)
(* it, is true: so many rows are in the log, so much XP was granted, some  *)
(* day ended a streak of that length; and the conquista it is about to     *)
(* unlock is earned.                                                       *)
Sound(c) ==
    /\ c.totalActions <= xpCount
    /\ c.levelNow <= granted
    /\ c.pc = "readLevelNow" \/ AtConquista(c)
          => \E d \in activeDays : ActiveUpTo(d, c.streakNow)
    /\ c.pc \in {"checkUnlocked", "insertUnlock"} => Earned(c.conquista)

EarnInv == UnlockedWasEarned /\ \A r \in Requests : Sound(call[r])

(* Log, grants and active days never shrink.                               *)
Growth == xpCount <= xpCount' /\ granted <= granted' /\ activeDays \subseteq activeDays'

LEMMA StepGrows == ASSUME TypeInv, NEW r \in Requests, Step(r) PROVE Growth
  <1>1. xpCount \in Nat /\ granted \in Nat /\ call[r].amount \in Nat
    BY DEF TypeInv, TypeOK, Locals
  <1>2. CASE SaveStreak(r)
    BY <1>1, <1>2 DEF SaveStreak, Growth
  <1>3. CASE SaveLevel(r)
    BY <1>1, <1>3 DEF SaveLevel, Growth
  <1>4. CASE InsertLog(r)
    BY <1>1, <1>4 DEF InsertLog, Growth
  <1>5. CASE \/ ReadLastLogin(r) \/ SaveLastLogin(r) \/ CheckLogin(r) \/ ReadStreak(r)
             \/ ReadTodayXp(r) \/ CheckMilestone(r) \/ ReadUnlocked(r) \/ ReadStats(r)
             \/ ReadStreakNow(r) \/ ReadLevelNow(r) \/ CheckUnlocked(r) \/ InsertUnlock(r)
             \/ ReadLevel(r)
    <2>1. UNCHANGED <<xpCount, granted, activeDays>>
      BY <1>5 DEF ReadLastLogin, SaveLastLogin, CheckLogin, ReadStreak, ReadTodayXp,
                  CheckMilestone, ReadUnlocked, ReadStats, ReadStreakNow, ReadLevelNow,
                  CheckUnlocked, InsertUnlock, ReadLevel, tables, history
    <2> QED
      BY <1>1, <2>1 DEF Growth
  <1> QED
    BY <1>2, <1>3, <1>4, <1>5 DEF Step

LEMMA TargetsAreNat ==
  ASSUME NEW i \in DOMAIN Conquistas
  PROVE  /\ Conquistas[i].target \in Nat
         /\ Conquistas[i].type \in {"count", "streak", "level"}
         /\ Conquistas[i].type = "level" => XpToReach[Conquistas[i].target] \in Nat
  <1>1. Conquistas[i] \in [type : {"count", "streak", "level"}, target : Nat, xp : Nat]
    BY ConquistasAssumption, ElementOfSeq, LenProperties DEF ConquistasAssumption
  <1> QED
    BY <1>1, ConquistasAssumption DEF ConquistasAssumption

(* What was earned stays earned.                                           *)
LEMMA EarnedGrows ==
  ASSUME TypeInv, TypeInv', Growth, NEW i \in DOMAIN Conquistas, Earned(i)
  PROVE  Earned(i)'
  <1>1. /\ xpCount \in Nat /\ xpCount' \in Nat /\ granted \in Nat /\ granted' \in Nat
        /\ activeDays \subseteq activeDays'
        /\ xpCount <= xpCount' /\ granted <= granted'
    BY DEF TypeInv, TypeOK, Growth
  <1> QED
    BY <1>1, TargetsAreNat DEF Earned, ActiveUpTo

(* It is enough to look at the request that makes the step.                *)
LEMMA EarnInvByRequest ==
  ASSUME TypeInv, TypeInv', EarnInv, Growth, NEW r \in Requests,
         \A q \in Requests \ {r} : call'[q] = call[q],
         Sound(call[r])',
         \A i \in DOMAIN Conquistas : userConquistas'[i] > 0 => userConquistas[i] > 0 \/ Earned(i)
  PROVE  EarnInv'
  <1>1. UnlockedWasEarned'
    BY EarnedGrows DEF EarnInv, UnlockedWasEarned
  <1>2. ASSUME NEW q \in Requests, q # r
        PROVE  Sound(call[q])'
    <2>1. call'[q] = call[q] /\ Sound(call[q])
      BY <1>2 DEF EarnInv
    <2>2. /\ xpCount \in Nat /\ xpCount' \in Nat /\ granted \in Nat /\ granted' \in Nat
          /\ xpCount <= xpCount' /\ granted <= granted'
          /\ call[q].totalActions \in Nat /\ call[q].levelNow \in Nat
      BY DEF TypeInv, TypeOK, Growth, Locals
    <2>3. call[q].totalActions <= xpCount' /\ call[q].levelNow <= granted'
      BY <2>1, <2>2 DEF Sound
    <2>4. ASSUME call[q].pc = "readLevelNow" \/ AtConquista(call[q])
          PROVE  \E d \in activeDays' : \A e \in (d - call[q].streakNow + 1) .. d : e \in activeDays'
      BY <2>1, <2>4 DEF Sound, ActiveUpTo, Growth
    <2>5. ASSUME call[q].pc \in {"checkUnlocked", "insertUnlock"}
          PROVE  Earned(call[q].conquista)'
      <3>1. call[q].conquista \in DOMAIN Conquistas
        BY <2>5 DEF TypeInv, LocalsOK, AtConquista
      <3>2. PICK i \in DOMAIN Conquistas : i = call[q].conquista
        BY <3>1
      <3>3. Earned(i)'
        BY <2>1, <2>5, <3>2, EarnedGrows DEF Sound
      <3> QED
        BY <2>1, <3>2, <3>3 DEF Earned, ActiveUpTo
    <2> QED
      BY <2>1, <2>3, <2>4, <2>5 DEF Sound, AtConquista, ActiveUpTo
  <1> QED
    BY <1>1, <1>2 DEF EarnInv

LEMMA GotoGives ==
  ASSUME TypeInv, NEW r \in Requests, NEW c, NEW label, Goto(r, c, label)
  PROVE  call'[r] = [c EXCEPT !.pc = label]
  BY DEF TypeInv, TypeOK, Goto

LEMMA OthersStay ==
  ASSUME TypeInv, NEW r \in Requests, Step(r)
  PROVE  \A q \in Requests \ {r} : call'[q] = call[q]
  <1>1. (\E c, label : Goto(r, c, label)) \/ Finish(r)
    BY DEF Step, ReadLastLogin, SaveLastLogin, CheckLogin, ReadStreak, SaveStreak, ReadTodayXp,
           CheckMilestone, ReadUnlocked, ReadStats, ReadStreakNow, ReadLevelNow, CheckUnlocked,
           InsertUnlock, ReadLevel, SaveLevel, InsertLog, AfterAddXp, NextConquista
  <1> QED
    BY <1>1 DEF Goto, Finish, TypeInv, TypeOK

(* What the handler has read for checkAchievements is the same in c and d. *)
Kept(c, d) ==
    /\ d.totalActions = c.totalActions /\ d.levelNow = c.levelNow
    /\ d.streakNow = c.streakNow /\ d.conquista = c.conquista

LEMMA GotoKeeps ==
  ASSUME TypeInv, NEW r \in Requests, NEW d, NEW label, NEW source, Goto(r, d, label),
         [d EXCEPT !.pc = label].pc = label, [d EXCEPT !.pc = label].source = source,
         Kept(call[r], [d EXCEPT !.pc = label])
  PROVE  call'[r].pc = label /\ call'[r].source = source /\ Kept(call[r], call'[r])
  <1>1. call'[r] = [d EXCEPT !.pc = label]
    BY GotoGives
  <1> QED
    BY <1>1

LEMMA SoundWhenKept ==
  ASSUME TypeInv, TypeInv', Growth, NEW r \in Requests, Sound(call[r]),
         Kept(call[r], call'[r]), call'[r].pc # "readLevelNow",
         AtConquista(call'[r]) => AtConquista(call[r]),
         call'[r].pc \in {"checkUnlocked", "insertUnlock"}
            => call[r].pc \in {"checkUnlocked", "insertUnlock"}
  PROVE  Sound(call[r])'
  <1>1. /\ xpCount \in Nat /\ xpCount' \in Nat /\ granted \in Nat /\ granted' \in Nat
        /\ xpCount <= xpCount' /\ granted <= granted'
        /\ call[r].totalActions \in Nat /\ call[r].levelNow \in Nat
    BY DEF TypeInv, TypeOK, Growth, Locals
  <1>2. call'[r].totalActions <= xpCount' /\ call'[r].levelNow <= granted'
    BY <1>1 DEF Sound, Kept
  <1>3. ASSUME AtConquista(call'[r])
        PROVE  \E d \in activeDays' : ActiveUpTo(d, call[r].streakNow)'
    BY <1>3 DEF Sound, ActiveUpTo, Growth, Kept
  <1>4. ASSUME call'[r].pc \in {"checkUnlocked", "insertUnlock"}
        PROVE  Earned(call[r].conquista)'
    <2>1. call[r].conquista \in DOMAIN Conquistas
      BY <1>4 DEF TypeInv, LocalsOK, AtConquista
    <2>2. PICK i \in DOMAIN Conquistas : i = call[r].conquista /\ i = call'[r].conquista
      BY <2>1 DEF Kept
    <2>3. Earned(i)'
      BY <1>4, <2>2, EarnedGrows DEF Sound
    <2> QED
      BY <2>2, <2>3 DEF Earned, ActiveUpTo
  <1> QED
    BY <1>2, <1>3, <1>4 DEF Sound, AtConquista

LEMMA SoundWhenIdle ==
  ASSUME TypeInv', NEW r \in Requests, call'[r].totalActions = 0, call'[r].levelNow = 0,
         ~ AtConquista(call'[r]), call'[r].pc # "readLevelNow"
  PROVE  Sound(call[r])'
  BY DEF Sound, AtConquista, TypeInv, TypeOK

LEMMA SoundWhenFinished ==
  ASSUME TypeInv, TypeInv', NEW r \in Requests, Finish(r)
  PROVE  Sound(call[r])'
  <1>1. call'[r] = [Idle EXCEPT !.pc = "done"]
    BY DEF Finish, TypeInv, TypeOK
  <1>2. /\ call'[r].totalActions = 0 /\ call'[r].levelNow = 0
        /\ ~ AtConquista(call'[r]) /\ call'[r].pc # "readLevelNow"
    BY <1>1 DEF Idle, AtConquista
  <1> QED
    BY <1>2, SoundWhenIdle

(* A condition met by what was read is met by what is.                     *)
LEMMA MetIsEarned ==
  ASSUME TypeInv, NEW c \in Locals, Sound(c), c.pc = "readLevelNow" \/ AtConquista(c),
         NEW i \in DOMAIN Conquistas, NEW total \in Nat, total <= granted,
         Met(i, c.totalActions, c.streakNow, total)
  PROVE  Earned(i)
  <1>1. /\ Conquistas[i].target \in Nat
        /\ Conquistas[i].type \in {"count", "streak", "level"}
        /\ Conquistas[i].type = "level" => XpToReach[Conquistas[i].target] \in Nat
    BY TargetsAreNat
  <1>2. /\ xpCount \in Nat /\ granted \in Nat /\ activeDays \subseteq Int
        /\ c.totalActions \in Nat /\ c.streakNow \in Nat
    BY DEF TypeInv, TypeOK, Locals
  <1>3. CASE Conquistas[i].type = "count"
    BY <1>1, <1>2, <1>3 DEF Sound, Met, Earned
  <1>4. CASE Conquistas[i].type = "streak"
    <2>1. c.streakNow >= Conquistas[i].target
      BY <1>4 DEF Met
    <2>2. PICK d \in activeDays : ActiveUpTo(d, c.streakNow)
      BY DEF Sound
    <2>3. ActiveUpTo(d, Conquistas[i].target)
      BY <1>1, <1>2, <2>1, <2>2 DEF ActiveUpTo
    <2> QED
      BY <1>4, <2>3 DEF Earned
  <1>5. CASE Conquistas[i].type = "level"
    BY <1>1, <1>2, <1>5 DEF Met, Earned
  <1> QED
    BY <1>1, <1>3, <1>4, <1>5

(* The next conquista of the loop is one that is earned.                   *)
LEMMA SoundAtNextConquista ==
  ASSUME TypeInv, TypeInv', Growth, NEW r \in Requests, Sound(call[r]),
         call[r].pc = "readLevelNow" \/ AtConquista(call[r]),
         NEW at, NEW total \in Nat, total <= granted,
         NextConquista(r, call[r], at, total)
  PROVE  Sound(call[r])'
  <1> DEFINE c == call[r]
  <1>c. c \in Locals
    BY DEF TypeInv, TypeOK
  <1>1. CASE Finish(r)
    BY <1>1, SoundWhenFinished
  <1>2. ASSUME NEW i \in ToUnlock(c, at, total),
               Goto(r, [c EXCEPT !.conquista = i, !.levelNow = total], "checkUnlocked")
        PROVE  Sound(call[r])'
    <2>1. i \in DOMAIN Conquistas /\ Met(i, c.totalActions, c.streakNow, total)
      BY DEF ToUnlock
    <2>2. Earned(i)'
      BY <1>c, <2>1, MetIsEarned, EarnedGrows
    <2> DEFINE n == [[c EXCEPT !.conquista = i, !.levelNow = total] EXCEPT !.pc = "checkUnlocked"]
    <2>3. /\ n.conquista = i /\ n.levelNow = total /\ n.pc = "checkUnlocked"
          /\ n.totalActions = c.totalActions /\ n.streakNow = c.streakNow
      BY <1>c DEF Locals
    <2>4. call'[r] = n
      BY <1>2, GotoGives
    <2> HIDE DEF n
    <2>5. /\ xpCount \in Nat /\ xpCount' \in Nat /\ granted \in Nat /\ granted' \in Nat
          /\ xpCount <= xpCount' /\ granted <= granted' /\ activeDays \subseteq activeDays'
          /\ c.totalActions \in Nat
      BY <1>c DEF TypeInv, TypeOK, Growth, Locals
    <2>6. call'[r].totalActions <= xpCount' /\ call'[r].levelNow <= granted'
      BY <2>3, <2>4, <2>5 DEF Sound
    <2>7. \E d \in activeDays' : ActiveUpTo(d, call[r].streakNow)'
      BY <2>3, <2>4, <2>5 DEF Sound, ActiveUpTo
    <2>8. Earned(call[r].conquista)'
      BY <2>2, <2>3, <2>4 DEF Earned, ActiveUpTo
    <2> QED
      BY <2>3, <2>4, <2>6, <2>7, <2>8 DEF Sound
  <1> QED
    BY <1>1, <1>2 DEF NextConquista

LEMMA EarnInvStep ==
  ASSUME TypeInv, TypeInv', XpInv, StreakInv, EarnInv, NEW r \in Requests, Step(r)
  PROVE  EarnInv'
  <1> DEFINE c == call[r]
  <1>c. c \in Locals /\ LocalsOK(c) /\ Sound(c) /\ Growth
    BY StepGrows DEF TypeInv, TypeOK, EarnInv
  <1>o. \A q \in Requests \ {r} : call'[q] = call[q]
    BY OthersStay
  <1>s. ASSUME Sound(call[r])', UNCHANGED userConquistas
        PROVE  EarnInv'
    BY <1>c, <1>o, <1>s, EarnInvByRequest
  <1>f. ASSUME Finish(r), UNCHANGED userConquistas
        PROVE  EarnInv'
    BY <1>f, <1>s, SoundWhenFinished
  <1>k. ASSUME Kept(c, call'[r]), call'[r].pc # "readLevelNow",
               AtConquista(call'[r]) => AtConquista(c),
               call'[r].pc \in {"checkUnlocked", "insertUnlock"}
                  => c.pc \in {"checkUnlocked", "insertUnlock"},
               UNCHANGED userConquistas
        PROVE  EarnInv'
    BY <1>c, <1>s, <1>k, SoundWhenKept
  <1>g. ASSUME NEW label, Goto(r, c, label)
        PROVE  call'[r].pc = label /\ call'[r].source = c.source /\ Kept(c, call'[r])
    <2>1. /\ [c EXCEPT !.pc = label].pc = label
          /\ [c EXCEPT !.pc = label].source = c.source
          /\ Kept(c, [c EXCEPT !.pc = label])
      BY <1>c DEF Locals, Kept
    <2>2. call'[r] = [c EXCEPT !.pc = label]
      BY <1>g, GotoGives
    <2> QED
      BY <2>1, <2>2
  <1>1. CASE ReadLastLogin(r)
    <2>1. PICK v : Goto(r, [c EXCEPT !.firstToday = v], "saveLastLogin")
      BY <1>1 DEF ReadLastLogin
    <2> DEFINE n == [[c EXCEPT !.firstToday = v] EXCEPT !.pc = "saveLastLogin"]
    <2>2. n.pc = "saveLastLogin" /\ n.source = c.source /\ Kept(c, n)
      BY <1>c DEF Locals, Kept
    <2>3. call'[r] = n
      BY <2>1, GotoGives
    <2> HIDE DEF n
    <2> QED
      BY <1>1, <2>2, <2>3, <1>k DEF ReadLastLogin, AtConquista, At, tables
  <1>2. CASE SaveLastLogin(r) \/ CheckLogin(r)
    <2>1. UNCHANGED userConquistas
      BY <1>2 DEF SaveLastLogin, CheckLogin, tables
    <2>2. Finish(r) \/ Goto(r, c, "checkLogin") \/ Goto(r, c, "readStreak")
      BY <1>2 DEF SaveLastLogin, CheckLogin
    <2> QED
      BY <2>1, <2>2, <1>f, <1>g, <1>k DEF AtConquista
  <1>3. CASE ReadStreak(r)
    <2>1. PICK v : Goto(r, [c EXCEPT !.streak = v], "saveStreak")
      BY <1>3 DEF ReadStreak
    <2> DEFINE n == [[c EXCEPT !.streak = v] EXCEPT !.pc = "saveStreak"]
    <2>2. n.pc = "saveStreak" /\ n.source = c.source /\ Kept(c, n)
      BY <1>c DEF Locals, Kept
    <2>3. call'[r] = n
      BY <2>1, GotoGives
    <2> HIDE DEF n
    <2> QED
      BY <1>3, <2>2, <2>3, <1>k DEF ReadStreak, AtConquista, At, tables
  <1>4. CASE SaveStreak(r)
    <2> DEFINE d == [c EXCEPT !.source = c.action,
                              !.amount = WithMultiplier(BaseXp(c.action), c.streak.current)]
    <2>1. \A label : /\ [d EXCEPT !.pc = label].pc = label
                      /\ [d EXCEPT !.pc = label].source = c.action
                      /\ Kept(c, [d EXCEPT !.pc = label])
      BY <1>c DEF Locals, Kept
    <2>2. c.action # "ACHIEVEMENT"
      BY <1>c, ActionsAssumption DEF ActionsAssumption, Locals
    <2>3. Goto(r, d, "readTodayXp") \/ Goto(r, d, "readLevel")
      BY <1>4 DEF SaveStreak
    <2> HIDE DEF d
    <2>4. /\ call'[r].pc \in {"readTodayXp", "readLevel"} /\ call'[r].source = c.action
          /\ Kept(c, call'[r])
      <3>1. CASE Goto(r, d, "readTodayXp")
        <4>1. /\ [d EXCEPT !.pc = "readTodayXp"].pc = "readTodayXp"
              /\ [d EXCEPT !.pc = "readTodayXp"].source = c.action
              /\ Kept(c, [d EXCEPT !.pc = "readTodayXp"])
          BY <2>1
        <4> QED
          BY <3>1, <4>1, GotoKeeps
      <3>2. CASE Goto(r, d, "readLevel")
        <4>1. /\ [d EXCEPT !.pc = "readLevel"].pc = "readLevel"
              /\ [d EXCEPT !.pc = "readLevel"].source = c.action
              /\ Kept(c, [d EXCEPT !.pc = "readLevel"])
          BY <2>1
        <4> QED
          BY <3>2, <4>1, GotoKeeps
      <3> QED
        BY <2>3, <3>1, <3>2
    <2> QED
      BY <1>4, <2>2, <2>4, <1>k DEF SaveStreak, AtConquista
  <1>5. CASE ReadTodayXp(r)
    <2> DEFINE d == [c EXCEPT !.bonus = (xpOn[today].xp = 0),
                              !.amount = IF xpOn[today].xp = 0 THEN @ + 50 ELSE @]
    <2>1. /\ [d EXCEPT !.pc = "readLevel"].pc = "readLevel"
          /\ [d EXCEPT !.pc = "readLevel"].source = c.source
          /\ Kept(c, [d EXCEPT !.pc = "readLevel"])
      BY <1>c DEF Locals, Kept
    <2>2. Goto(r, d, "readLevel")
      BY <1>5 DEF ReadTodayXp
    <2> HIDE DEF d
    <2>3. call'[r].pc = "readLevel" /\ call'[r].source = c.source /\ Kept(c, call'[r])
      BY <2>1, <2>2, GotoKeeps
    <2> QED
      BY <1>5, <2>3, <1>k DEF ReadTodayXp, AtConquista, At, tables
  <1>6. CASE CheckMilestone(r)
    <2> DEFINE d == [c EXCEPT !.source = "STREAK_MILESTONE",
                              !.amount = MilestoneXp(c.streak.current)]
    <2>1. /\ [d EXCEPT !.pc = "readLevel"].pc = "readLevel"
          /\ [d EXCEPT !.pc = "readLevel"].source = "STREAK_MILESTONE"
          /\ Kept(c, [d EXCEPT !.pc = "readLevel"])
      BY <1>c DEF Locals, Kept
    <2>2. Goto(r, d, "readLevel") \/ Goto(r, c, "readUnlocked")
      BY <1>6 DEF CheckMilestone
    <2> HIDE DEF d
    <2>3. CASE Goto(r, d, "readLevel")
      <3>1. /\ call'[r].pc = "readLevel" /\ call'[r].source = "STREAK_MILESTONE"
            /\ Kept(c, call'[r])
        BY <2>1, <2>3, GotoKeeps
      <3> QED
        BY <1>6, <3>1, <1>k DEF CheckMilestone, AtConquista, tables
    <2>4. CASE Goto(r, c, "readUnlocked")
      BY <1>6, <2>4, <1>g, <1>k DEF CheckMilestone, AtConquista, tables
    <2> QED
      BY <2>2, <2>3, <2>4
  <1>7. CASE ReadUnlocked(r)
    <2>1. PICK v : Goto(r, [c EXCEPT !.unlocked = v], "readStats")
      BY <1>7 DEF ReadUnlocked
    <2> DEFINE n == [[c EXCEPT !.unlocked = v] EXCEPT !.pc = "readStats"]
    <2>2. n.pc = "readStats" /\ n.source = c.source /\ Kept(c, n)
      BY <1>c DEF Locals, Kept
    <2>3. call'[r] = n
      BY <2>1, GotoGives
    <2> HIDE DEF n
    <2> QED
      BY <1>7, <2>2, <2>3, <1>k DEF ReadUnlocked, AtConquista, At, tables
  <1>8. CASE ReadStats(r)
    <2> DEFINE n == [[c EXCEPT !.totalActions = xpCount] EXCEPT !.pc = "readStreakNow"]
    <2>1. n.pc = "readStreakNow" /\ n.totalActions = xpCount /\ n.levelNow = c.levelNow
      BY <1>c DEF Locals
    <2>2. call'[r] = n
      BY <1>8, GotoGives DEF ReadStats
    <2> HIDE DEF n
    <2>3. UNCHANGED <<xpCount, granted, activeDays, userConquistas>> /\ xpCount \in Nat
      BY <1>8 DEF ReadStats, tables, history, TypeInv, TypeOK
    <2>4. Sound(call[r])'
      BY <1>c, <2>1, <2>2, <2>3 DEF Sound, AtConquista
    <2> QED
      BY <2>3, <2>4, <1>s
  <1>9. CASE ReadStreakNow(r)
    <2>1. PICK s \in streaks : Goto(r, [c EXCEPT !.streakNow = s.current], "readLevelNow")
      BY <1>9 DEF ReadStreakNow, Newest
    <2> DEFINE n == [[c EXCEPT !.streakNow = s.current] EXCEPT !.pc = "readLevelNow"]
    <2>2. /\ n.pc = "readLevelNow" /\ n.totalActions = c.totalActions
          /\ n.levelNow = c.levelNow /\ n.streakNow = s.current
      BY <1>c DEF Locals
    <2>3. call'[r] = n
      BY <2>1, GotoGives
    <2> HIDE DEF n
    <2>4. UNCHANGED <<xpCount, granted, activeDays, userConquistas>>
      BY <1>9 DEF ReadStreakNow, tables, history
    <2>5. s.last \in activeDays /\ ActiveUpTo(s.last, s.current)
      BY DEF StreakInv
    <2>6. \E d \in activeDays' : ActiveUpTo(d, call[r].streakNow)'
      BY <2>2, <2>3, <2>4, <2>5 DEF ActiveUpTo
    <2>7. Sound(call[r])'
      BY <1>c, <2>2, <2>3, <2>4, <2>6 DEF Sound
    <2> QED
      BY <2>4, <2>7, <1>s
  <1>10. CASE ReadLevelNow(r)
    <2>1. userLevel \in Nat /\ userLevel <= granted
      BY DEF TypeInv, TypeOK, XpInv
    <2>2. Sound(call[r])'
      BY <1>10, <1>c, <2>1, SoundAtNextConquista DEF ReadLevelNow, At
    <2> QED
      BY <1>10, <2>2, <1>s DEF ReadLevelNow, tables
  <1>a. /\ [Award(c) EXCEPT !.pc = "readLevel"].pc = "readLevel"
        /\ [Award(c) EXCEPT !.pc = "readLevel"].source = "ACHIEVEMENT"
        /\ Kept(c, [Award(c) EXCEPT !.pc = "readLevel"])
    BY <1>c DEF Award, Locals, Kept
  <1>11. CASE CheckUnlocked(r)
    <2>1. /\ call'[r].pc \in {"insertUnlock", "readLevel"} /\ Kept(c, call'[r])
      BY <1>11, <1>a, <1>g, GotoKeeps DEF CheckUnlocked
    <2>2. c.pc = "checkUnlocked" /\ UNCHANGED userConquistas
      BY <1>11 DEF CheckUnlocked, At, tables
    <2> QED
      BY <2>1, <2>2, <1>k DEF AtConquista
  <1>12. CASE InsertUnlock(r)
    <2>1. call'[r].pc = "readLevel" /\ Kept(c, call'[r])
      BY <1>12, <1>a, GotoKeeps DEF InsertUnlock
    <2>2. c.pc = "insertUnlock"
      BY <1>12 DEF InsertUnlock, At
    <2>3. Sound(call[r])'
      BY <1>c, <2>1, <2>2, SoundWhenKept DEF AtConquista
    <2>4. ASSUME NEW i \in DOMAIN Conquistas, userConquistas'[i] > 0
          PROVE  userConquistas[i] > 0 \/ Earned(i)
      <3>1. Earned(c.conquista)
        BY <1>c, <2>2 DEF Sound
      <3>2. i = c.conquista \/ userConquistas'[i] = userConquistas[i]
        BY <1>12 DEF InsertUnlock, TypeInv, TypeOK
      <3> QED
        BY <2>4, <3>1, <3>2
    <2> QED
      BY <1>c, <1>o, <2>3, <2>4, EarnInvByRequest
  <1>13. CASE ReadLevel(r)
    <2>1. PICK v : Goto(r, [c EXCEPT !.snapshot = v], "saveLevel")
      BY <1>13 DEF ReadLevel
    <2> DEFINE n == [[c EXCEPT !.snapshot = v] EXCEPT !.pc = "saveLevel"]
    <2>2. n.pc = "saveLevel" /\ n.source = c.source /\ Kept(c, n)
      BY <1>c DEF Locals, Kept
    <2>3. call'[r] = n
      BY <2>1, GotoGives
    <2> HIDE DEF n
    <2> QED
      BY <1>13, <2>2, <2>3, <1>k DEF ReadLevel, AtConquista, At, tables
  <1>14. CASE SaveLevel(r)
    <2>1. Goto(r, c, "insertLog") /\ UNCHANGED userConquistas /\ c.pc = "saveLevel"
      BY <1>14 DEF SaveLevel, At
    <2> QED
      BY <2>1, <1>g, <1>k DEF AtConquista
  <1>15. CASE InsertLog(r)
    <2>1. c.pc = "insertLog" /\ UNCHANGED userConquistas /\ AfterAddXp(r, c)
      BY <1>15 DEF InsertLog, At
    <2>2. CASE c.source = "ACHIEVEMENT" /\ NextConquista(r, c, c.conquista, c.levelNow)
      <3>1. c.levelNow \in Nat /\ c.levelNow <= granted
        BY <1>c DEF Locals, Sound
      <3>2. Sound(call[r])'
        BY <1>c, <2>1, <2>2, <3>1, SoundAtNextConquista DEF AtConquista
      <3> QED
        BY <2>1, <3>2, <1>s
    <2>3. CASE Goto(r, c, "readUnlocked")
      BY <2>1, <2>3, <1>g, <1>k DEF AtConquista
    <2>4. CASE Goto(r, [c EXCEPT !.bonus = FALSE],
                    IF c.streak.current \in Milestones
                    THEN "checkMilestone" ELSE "readUnlocked")
      <3> DEFINE d == [c EXCEPT !.bonus = FALSE]
      <3>1. \A label : /\ [d EXCEPT !.pc = label].pc = label
                        /\ [d EXCEPT !.pc = label].source = c.source
                        /\ Kept(c, [d EXCEPT !.pc = label])
        BY <1>c DEF Locals, Kept
      <3>2. Goto(r, d, "checkMilestone") \/ Goto(r, d, "readUnlocked")
        BY <2>4
      <3> HIDE DEF d
      <3>3. call'[r].pc \in {"checkMilestone", "readUnlocked"} /\ Kept(c, call'[r])
        BY <3>1, <3>2, GotoKeeps
      <3> QED
        BY <2>1, <3>3, <1>k DEF AtConquista
    <2> QED
      BY <2>1, <2>2, <2>3, <2>4 DEF AfterAddXp
  <1> QED
    BY <1>1, <1>2, <1>3, <1>4, <1>5, <1>6, <1>7, <1>8, <1>9, <1>10, <1>11, <1>12, <1>13, <1>14,
       <1>15 DEF Step

(* A conquista is unlocked on a count, a streak and a level read at three  *)
(* times while other requests write: it was earned all the same, by rows   *)
(* of the log, by active days or by XP that was granted.                   *)
THEOREM ConquistasAreEarned == Spec => []UnlockedWasEarned
  <1>1. Init => EarnInv
    <2> SUFFICES ASSUME NEW h \in Histories, call = [r \in Requests |-> Idle],
                        userConquistas = [i \in DOMAIN Conquistas |-> 0],
                        xpCount = h.count, granted = h.total
                 PROVE  EarnInv
      BY DEF Init
    <2>1. xpCount \in Nat /\ granted \in Nat
      BY HistoriesAssumption DEF HistoriesAssumption
    <2>2. Sound(Idle)
      <3>1. Idle.totalActions = 0 /\ Idle.levelNow = 0 /\ Idle.pc = "idle"
        BY DEF Idle
      <3> QED
        BY <2>1, <3>1 DEF Sound, AtConquista
    <2> QED
      BY <2>2 DEF EarnInv, UnlockedWasEarned
  <1>2. TypeInv /\ TypeInv' /\ XpInv /\ StreakInv /\ EarnInv /\ [Next]_vars => EarnInv'
    <2> SUFFICES ASSUME TypeInv, TypeInv', XpInv, StreakInv, EarnInv, [Next]_vars
                 PROVE  EarnInv'
      OBVIOUS
    <2>n. xpCount \in Nat /\ granted \in Nat
      BY DEF TypeInv, TypeOK
    <2>1. ASSUME NEW r \in Requests, NEW action \in Actions, Start(r, action)
          PROVE  EarnInv'
      <3> DEFINE d == [Idle EXCEPT !.action = action]
      <3>1. PICK label \in {"readLastLogin", "readStreak"} : Goto(r, d, label)
        BY <2>1 DEF Start
      <3>2. /\ [d EXCEPT !.pc = label].pc = label
            /\ [d EXCEPT !.pc = label].totalActions = 0
            /\ [d EXCEPT !.pc = label].levelNow = 0
        BY DEF Idle
      <3>3. call'[r] = [d EXCEPT !.pc = label]
        BY <3>1, GotoGives
      <3>4. Sound(call[r])'
        BY <3>1, <3>2, <3>3, SoundWhenIdle DEF AtConquista
      <3>5. \A q \in Requests \ {r} : call'[q] = call[q]
        BY <3>1 DEF Goto, TypeInv, TypeOK
      <3>6. Growth /\ UNCHANGED userConquistas
        BY <2>1, <2>n DEF Start, Growth, tables, history
      <3> QED
        BY <3>4, <3>5, <3>6, EarnInvByRequest
    <2>2. ASSUME NEW r \in Requests, Step(r)
          PROVE  EarnInv'
      BY <2>2, EarnInvStep
    <2>3. ASSUME NEW r \in Requests, Fail(r)
          PROVE  EarnInv'
      <3>1. Finish(r) /\ Growth /\ UNCHANGED userConquistas
        BY <2>3, <2>n DEF Fail, Growth, tables, history
      <3>2. \A q \in Requests \ {r} : call'[q] = call[q]
        BY <3>1 DEF Finish, TypeInv, TypeOK
      <3> QED
        BY <3>1, <3>2, SoundWhenFinished, EarnInvByRequest
    <2>4. ASSUME UNCHANGED <<call, userConquistas>>, Growth
          PROVE  EarnInv'
      <3>1. CASE Requests = {}
        BY <2>4, <3>1, EarnedGrows DEF EarnInv, UnlockedWasEarned
      <3>2. ASSUME NEW r \in Requests
            PROVE  EarnInv'
        <4>1. Kept(call[r], call'[r])
          BY <2>4 DEF Kept
        <4>2. ASSUME call[r].pc = "readLevelNow"
              PROVE  Sound(call[r])'
          <5>1. /\ call'[r] = call[r]
                /\ call[r].totalActions \in Nat /\ call[r].levelNow \in Nat
                /\ xpCount' \in Nat /\ granted' \in Nat
            BY <2>4 DEF TypeInv, TypeOK, Locals
          <5>2. Sound(call[r])
            BY DEF EarnInv
          <5>3. call[r].totalActions <= xpCount' /\ call[r].levelNow <= granted'
            BY <2>4, <2>n, <5>1, <5>2 DEF Sound, Growth
          <5>4. \E d \in activeDays' : \A e \in (d - call[r].streakNow + 1) .. d : e \in activeDays'
            BY <2>4, <4>2, <5>2 DEF Sound, ActiveUpTo, Growth
          <5> QED
            BY <4>2, <5>1, <5>3, <5>4 DEF Sound, AtConquista, ActiveUpTo
        <4>3. Sound(call[r])'
          BY <2>4, <4>1, <4>2, SoundWhenKept DEF EarnInv
        <4> QED
          BY <2>4, <4>3, EarnInvByRequest
      <3> QED
        BY <3>1, <3>2
    <2>5. CASE Midnight
      BY <2>4, <2>5, <2>n DEF Midnight, Growth, tables, history
    <2>6. ASSUME NEW amount \in TimerXp, LogTimer(amount)
          PROVE  EarnInv'
      BY <2>4, <2>6, <2>n DEF LogTimer, Growth
    <2>7. CASE UNCHANGED vars
      BY <2>4, <2>7, <2>n DEF vars, Growth, tables, history
    <2> QED
      BY <2>1, <2>2, <2>3, <2>5, <2>6, <2>7 DEF Next, Quiet
  <1>3. EarnInv => UnlockedWasEarned
    BY DEF EarnInv
  <1> QED
    BY <1>1, <1>2, <1>3, TypeInvInit, TypeInvNext, XpInvInit, XpInvNext, StreakInvInit,
       StreakInvNext, PTL DEF Spec

-----------------------------------------------------------------------------
(* The log *)

(* The XP a request has added to the level row and not yet logged, one     *)
(* point of it at a time: that makes its sum over all requests the size of *)
(* a set, and the sum of two requests a union.                             *)
Points(r, amount) == {r} \X (1 .. amount)
Owed == {p \in Requests \X Nat : At(p[1], "insertLog") /\ p[2] \in 1 .. call[p[1]].amount}

LogInv == failures = 0 => /\ IsFiniteSet(Owed)
                          /\ xpSum + Cardinality(Owed) = granted + timerXp

LEMMA PointsOfAmount ==
  ASSUME NEW r, NEW amount \in Nat
  PROVE  IsFiniteSet(Points(r, amount)) /\ Cardinality(Points(r, amount)) = amount
  <1>1. IsFiniteSet({r}) /\ Cardinality({r}) = 1
    BY FS_Singleton
  <1>2. IsFiniteSet(1 .. amount) /\ Cardinality(1 .. amount) = amount
    BY FS_Interval
  <1> DEFINE S == {r}
             T == 1 .. amount
  <1> HIDE DEF S, T
  <1>3. IsFiniteSet(S \X T) /\ Cardinality(S \X T) = Cardinality(S) * Cardinality(T)
    BY <1>1, <1>2, FS_Product DEF S, T
  <1>4. Cardinality(S) = 1 /\ Cardinality(T) = amount
    BY <1>1, <1>2 DEF S, T
  <1>5. Cardinality(S \X T) = amount
    BY <1>3, <1>4
  <1> QED
    BY <1>3, <1>5 DEF Points, S, T

(* Only a request that gets to insertLog, or leaves it, changes what is    *)
(* owed.                                                                   *)
LEMMA OwedElsewhere ==
  ASSUME TypeInv, NEW r \in Requests, \A q \in Requests \ {r} : call'[q] = call[q],
         ~ At(r, "insertLog"), ~ At(r, "insertLog")'
  PROVE  Owed' = Owed
  BY DEF Owed, At

(* The label a request goes to is the one it is at.                        *)
LEMMA GotoPc ==
  ASSUME TypeInv, TypeInv', NEW r \in Requests, NEW d, NEW label, Goto(r, d, label)
  PROVE  call'[r].pc = label
  <1>1. call'[r] = [d EXCEPT !.pc = label]
    BY GotoGives
  <1>l. call'[r] \in Locals
    BY DEF TypeInv, TypeOK
  <1>2. "pc" \in DOMAIN [d EXCEPT !.pc = label]
    BY <1>1, <1>l DEF Locals
  <1>3. DOMAIN [d EXCEPT !.pc = label] = DOMAIN d
    OBVIOUS
  <1>4. [d EXCEPT !.pc = label].pc = label
    BY <1>2, <1>3
  <1> QED
    BY <1>1, <1>4

LEMMA OwedAfterSave ==
  ASSUME TypeInv, NEW r \in Requests, SaveLevel(r), IsFiniteSet(Owed)
  PROVE  /\ IsFiniteSet(Owed')
         /\ Cardinality(Owed') = Cardinality(Owed) + call[r].amount
  <1> DEFINE c == call[r]
             points == Points(r, c.amount)
  <1>1. c \in Locals /\ c.amount \in Nat
    BY DEF TypeInv, TypeOK, Locals
  <1>2. \A q \in Requests \ {r} : call'[q] = call[q]
    BY OthersStay DEF Step
  <1>3. call'[r] = [c EXCEPT !.pc = "insertLog"]
    BY GotoGives DEF SaveLevel
  <1>4. call'[r].pc = "insertLog" /\ call'[r].amount = c.amount
    BY <1>1, <1>3 DEF Locals
  <1>5. c.pc # "insertLog"
    BY DEF SaveLevel, At
  <1>6. Owed' = Owed \cup points
    BY <1>1, <1>2, <1>4, <1>5 DEF Owed, Points, At
  <1>7. Owed \cap points = {}
    BY <1>5 DEF Owed, Points, At
  <1>8. Cardinality(Owed \cap points) = 0
    BY <1>7, FS_EmptySet
  <1>9. Cardinality(Owed) \in Nat
    BY FS_CardinalityType
  <1> HIDE DEF points
  <1>p. IsFiniteSet(points) /\ Cardinality(points) = c.amount
    BY <1>1, PointsOfAmount DEF points
  <1>u. /\ IsFiniteSet(Owed \cup points)
        /\ Cardinality(Owed \cup points)
              = Cardinality(Owed) + Cardinality(points) - Cardinality(Owed \cap points)
    BY <1>p, FS_Union
  <1> QED
    BY <1>1, <1>6, <1>8, <1>9, <1>p, <1>u

LEMMA OwedAfterLog ==
  ASSUME TypeInv, TypeInv', NEW r \in Requests, InsertLog(r), IsFiniteSet(Owed)
  PROVE  /\ IsFiniteSet(Owed')
         /\ Cardinality(Owed) = Cardinality(Owed') + call[r].amount
  <1> DEFINE c == call[r]
             points == Points(r, c.amount)
  <1>1. c \in Locals /\ c.amount \in Nat
    BY DEF TypeInv, TypeOK, Locals
  <1>2. \A q \in Requests \ {r} : call'[q] = call[q]
    BY OthersStay DEF Step
  <1>3. c.pc = "insertLog"
    BY DEF InsertLog, At
  <1>4. call'[r].pc # "insertLog"
    <2>4. CASE Finish(r)
      BY <2>4 DEF Finish, Idle, TypeInv, TypeOK
    <2>5. ASSUME NEW label, label # "insertLog", Goto(r, [c EXCEPT !.bonus = FALSE], label)
          PROVE  call'[r].pc # "insertLog"
      BY <2>5, GotoPc
    <2>6. CASE Goto(r, c, "readUnlocked")
      BY <2>6, GotoPc
    <2>7. ASSUME NEW i, NEW total,
                 Goto(r, [c EXCEPT !.conquista = i, !.levelNow = total], "checkUnlocked")
          PROVE  call'[r].pc # "insertLog"
      BY <2>7, GotoPc
    <2> QED
      BY <2>4, <2>5, <2>6, <2>7 DEF InsertLog, AfterAddXp, NextConquista
  <1>5. Owed = Owed' \cup points
    BY <1>1, <1>2, <1>3, <1>4 DEF Owed, Points, At
  <1>6. Owed' \cap points = {}
    BY <1>4 DEF Owed, Points, At
  <1>7. IsFiniteSet(Owed')
    BY <1>5, FS_Subset
  <1>8. Cardinality(Owed' \cap points) = 0
    BY <1>6, FS_EmptySet
  <1>9. Cardinality(Owed') \in Nat
    BY <1>7, FS_CardinalityType
  <1> HIDE DEF points
  <1>p. IsFiniteSet(points) /\ Cardinality(points) = c.amount
    BY <1>1, PointsOfAmount DEF points
  <1>u. Cardinality(Owed' \cup points)
           = Cardinality(Owed') + Cardinality(points) - Cardinality(Owed' \cap points)
    BY <1>7, <1>p, FS_Union
  <1> QED
    BY <1>1, <1>5, <1>7, <1>8, <1>9, <1>p, <1>u

(* No other step of a request goes to insertLog.                           *)
LEMMA OtherStepsOwe ==
  ASSUME TypeInv, TypeInv', NEW r \in Requests, Step(r), ~ SaveLevel(r), ~ InsertLog(r)
  PROVE  Owed' = Owed /\ UNCHANGED <<xpSum, granted, timerXp, failures>>
  <1> DEFINE c == call[r]
  <1>1. c \in Locals
    BY DEF TypeInv, TypeOK
  <1>2. \A q \in Requests \ {r} : call'[q] = call[q]
    BY OthersStay
  <1>3. c.pc # "insertLog" /\ UNCHANGED <<xpSum, granted, timerXp, failures>>
    BY <1>1 DEF Step, ReadLastLogin, SaveLastLogin, CheckLogin, ReadStreak, SaveStreak, ReadTodayXp,
           CheckMilestone, ReadUnlocked, ReadStats, ReadStreakNow, ReadLevelNow, CheckUnlocked,
           InsertUnlock, ReadLevel, At, tables, history
  <1>4. ASSUME NEW d, NEW label, Goto(r, d, label), label # "insertLog"
        PROVE  call'[r].pc # "insertLog"
    BY <1>4, GotoPc
  <1>f. Finish(r) => call'[r].pc # "insertLog"
    BY DEF Finish, Idle, TypeInv, TypeOK
  <1>6. call'[r].pc # "insertLog"
    <2>1. CASE ReadLastLogin(r) \/ SaveLastLogin(r) \/ CheckLogin(r)
      BY <2>1, <1>4, <1>f DEF ReadLastLogin, SaveLastLogin, CheckLogin
    <2>2. CASE ReadStreak(r) \/ SaveStreak(r) \/ ReadTodayXp(r) \/ CheckMilestone(r)
      BY <2>2, <1>4, <1>f DEF ReadStreak, SaveStreak, ReadTodayXp, CheckMilestone
    <2>3. CASE ReadUnlocked(r) \/ ReadStats(r) \/ ReadStreakNow(r) \/ ReadLevelNow(r)
      BY <2>3, <1>4, <1>f DEF ReadUnlocked, ReadStats, ReadStreakNow, ReadLevelNow, NextConquista
    <2>4. CASE CheckUnlocked(r) \/ InsertUnlock(r) \/ ReadLevel(r)
      BY <2>4, <1>4, <1>f DEF CheckUnlocked, InsertUnlock, ReadLevel
    <2> QED
      BY <2>1, <2>2, <2>3, <2>4 DEF Step
  <1> QED
    BY <1>2, <1>3, <1>6, OwedElsewhere DEF At

LEMMA LogInvInit == Init => LogInv
  <1> SUFFICES ASSUME NEW h \in Histories, call = [r \in Requests |-> Idle],
                      xpSum = h.total, granted = h.total, timerXp = 0
               PROVE  LogInv
    BY DEF Init
  <1>1. Owed = {}
    BY DEF Owed, At, Idle
  <1>2. h.total \in Nat
    BY HistoriesAssumption DEF HistoriesAssumption
  <1> QED
    BY <1>1, <1>2, FS_EmptySet DEF LogInv

LEMMA LogInvNext == TypeInv /\ LogInv /\ [Next]_vars => LogInv'
  <1> SUFFICES ASSUME TypeInv, LogInv, [Next]_vars
               PROVE  LogInv'
    OBVIOUS
  <1>t. xpSum \in Nat /\ granted \in Nat /\ timerXp \in Nat /\ failures \in Nat
    BY DEF TypeInv, TypeOK
  <1>1. ASSUME NEW r \in Requests, NEW action \in Actions, Start(r, action)
        PROVE  LogInv'
    <2>1. Owed' = Owed
      BY <1>1 DEF Start, Goto, Idle, TypeInv, TypeOK, Owed, At
    <2> QED
      BY <1>1, <2>1 DEF Start, LogInv, tables, history
  <1>2. ASSUME NEW r \in Requests, SaveLevel(r)
        PROVE  LogInv'
    <2>1. /\ granted' = granted + call[r].amount /\ UNCHANGED <<xpSum, timerXp, failures>>
          /\ call[r].amount \in Nat
      BY <1>2 DEF SaveLevel, TypeInv, TypeOK, Locals
    <2>2. ASSUME IsFiniteSet(Owed)
          PROVE  IsFiniteSet(Owed') /\ Cardinality(Owed') = Cardinality(Owed) + call[r].amount
      BY <1>2, <2>2, OwedAfterSave
    <2>3. IsFiniteSet(Owed) => Cardinality(Owed) \in Nat
      BY FS_CardinalityType
    <2> QED
      BY <1>t, <2>1, <2>2, <2>3 DEF LogInv
  <1>3. ASSUME NEW r \in Requests, InsertLog(r)
        PROVE  LogInv'
    <2>1. /\ xpSum' = xpSum + call[r].amount /\ UNCHANGED <<granted, timerXp, failures>>
          /\ call[r].amount \in Nat
      BY <1>3 DEF InsertLog, TypeInv, TypeOK, Locals
    <2>2. ASSUME IsFiniteSet(Owed)
          PROVE  IsFiniteSet(Owed') /\ Cardinality(Owed) = Cardinality(Owed') + call[r].amount
      BY <1>3, <2>2, TypeInvNext, OwedAfterLog
    <2>3. IsFiniteSet(Owed') => Cardinality(Owed') \in Nat
      BY FS_CardinalityType
    <2> QED
      BY <1>t, <2>1, <2>2, <2>3 DEF LogInv
  <1>4. ASSUME NEW r \in Requests, Step(r), ~ SaveLevel(r), ~ InsertLog(r)
        PROVE  LogInv'
    BY <1>4, TypeInvNext, OtherStepsOwe DEF LogInv
  <1>5. ASSUME NEW r \in Requests, Fail(r)
        PROVE  LogInv'
    BY <1>t, <1>5 DEF Fail, LogInv
  <1>6. CASE Midnight
    BY <1>6 DEF Midnight, LogInv, Owed, At, tables, history
  <1>7. ASSUME NEW amount \in TimerXp, LogTimer(amount)
        PROVE  LogInv'
    <2>1. amount \in Nat /\ (IsFiniteSet(Owed) => Cardinality(Owed) \in Nat)
      BY BoundsAssumption, FS_CardinalityType DEF BoundsAssumption
    <2>2. Owed' = Owed
      BY <1>7 DEF LogTimer, Owed, At
    <2> QED
      BY <1>t, <1>7, <2>1, <2>2 DEF LogTimer, LogInv
  <1>8. CASE UNCHANGED vars
    BY <1>8 DEF vars, LogInv, Owed, At, tables, history
  <1> QED
    BY <1>1, <1>2, <1>3, <1>4, <1>5, <1>6, <1>7, <1>8 DEF Next, Quiet

(* Whatever XP the interleaving of addXp loses from the level row, xp_logs *)
(* has all of it, and the timers' besides, unless a request failed.        *)
THEOREM LogAccountsForAll == Spec => []LogIsComplete
  <1>1. TypeInv /\ LogInv => LogIsComplete
    <2> SUFFICES ASSUME TypeInv, LogInv, failures = 0, \A r \in Requests : ~ At(r, "insertLog")
                 PROVE  xpSum = granted + timerXp
      BY DEF LogIsComplete
    <2>1. Owed = {}
      BY DEF Owed
    <2> QED
      BY <2>1, FS_EmptySet DEF LogInv, TypeInv, TypeOK
  <1> QED
    BY <1>1, LogInvInit, LogInvNext, TypeInvInit, TypeInvNext, PTL DEF Spec

-----------------------------------------------------------------------------
(* The steps of a request, by its locals *)

LEMMA GotoFields ==
  ASSUME TypeInv, TypeInv', NEW r \in Requests, NEW d, NEW label, Goto(r, d, label)
  PROVE  /\ call'[r].pc = label /\ call'[r].action = d.action /\ call'[r].streak = d.streak
         /\ call'[r].source = d.source /\ call'[r].amount = d.amount /\ call'[r].bonus = d.bonus
         /\ call'[r].snapshot = d.snapshot /\ call'[r].unlocked = d.unlocked
         /\ call'[r].conquista = d.conquista
  <1> DEFINE fields == {"pc", "action", "streak", "source", "amount", "bonus", "snapshot",
                        "unlocked", "conquista"}
  <1>1. call'[r] = [d EXCEPT !.pc = label]
    BY GotoGives
  <1>l. call'[r] \in Locals
    BY DEF TypeInv, TypeOK
  <1>2. \A f \in fields : f \in DOMAIN [d EXCEPT !.pc = label]
    BY <1>1, <1>l DEF Locals
  <1>3. DOMAIN [d EXCEPT !.pc = label] = DOMAIN d
    OBVIOUS
  <1>4. \A f \in fields : f \in DOMAIN d
    BY <1>2, <1>3
  <1>5. /\ [d EXCEPT !.pc = label].pc = label /\ [d EXCEPT !.pc = label].action = d.action
        /\ [d EXCEPT !.pc = label].streak = d.streak /\ [d EXCEPT !.pc = label].source = d.source
        /\ [d EXCEPT !.pc = label].amount = d.amount /\ [d EXCEPT !.pc = label].bonus = d.bonus
        /\ [d EXCEPT !.pc = label].snapshot = d.snapshot
        /\ [d EXCEPT !.pc = label].unlocked = d.unlocked
        /\ [d EXCEPT !.pc = label].conquista = d.conquista
    BY <1>4
  <1> QED
    BY <1>1, <1>5

(* What c and d have in common when the request only moves on; and, in     *)
(* addition, what it is granting.                                          *)
SameRun(c, d) == d.action = c.action /\ d.streak = c.streak /\ d.unlocked = c.unlocked
SameGrant(c, d) ==
    d.source = c.source /\ d.amount = c.amount /\ d.bonus = c.bonus /\ d.conquista = c.conquista

(* A handler that is over, or at the next conquista of its loop.           *)
AtNext(c, d, at) ==
    \/ d.pc = "done" /\ d.bonus = FALSE
    \/ /\ d.pc = "checkUnlocked" /\ SameRun(c, d) /\ d.bonus = c.bonus
       /\ d.conquista \in DOMAIN Conquistas /\ d.conquista > at
       /\ d.conquista \notin c.unlocked

LEMMA FinishFields ==
  ASSUME TypeInv, NEW r \in Requests, Finish(r)
  PROVE  call'[r].pc = "done" /\ call'[r].bonus = FALSE
  BY DEF Finish, Idle, TypeInv, TypeOK

LEMMA NextConquistaFields ==
  ASSUME TypeInv, TypeInv', NEW r \in Requests, NEW at, NEW total,
         NextConquista(r, call[r], at, total)
  PROVE  AtNext(call[r], call'[r], at)
  <1> DEFINE c == call[r]
  <1>c. c \in Locals
    BY DEF TypeInv, TypeOK
  <1>1. CASE Finish(r)
    BY <1>1, FinishFields DEF AtNext
  <1>2. ASSUME NEW i \in ToUnlock(c, at, total),
               Goto(r, [c EXCEPT !.conquista = i, !.levelNow = total], "checkUnlocked")
        PROVE  AtNext(call[r], call'[r], at)
    <2>d. PICK d : d = [c EXCEPT !.conquista = i, !.levelNow = total]
      OBVIOUS
    <2>1. SameRun(c, d) /\ d.bonus = c.bonus /\ d.conquista = i
      BY <1>c, <2>d DEF Locals, SameRun
    <2>2. /\ call'[r].pc = "checkUnlocked" /\ call'[r].action = d.action
          /\ call'[r].streak = d.streak /\ call'[r].unlocked = d.unlocked
          /\ call'[r].bonus = d.bonus /\ call'[r].conquista = d.conquista
      <3>1. Goto(r, d, "checkUnlocked")
        BY <1>2, <2>d
      <3> QED
        BY <3>1, GotoFields
    <2> QED
      BY <2>1, <2>2 DEF AtNext, SameRun, ToUnlock
  <1> QED
    BY <1>1, <1>2 DEF NextConquista

LEMMA StepFields ==
  ASSUME TypeInv, TypeInv', NEW r \in Requests, NEW c, c = call[r], NEW d, d = call'[r]
  PROVE  /\ ReadLastLogin(r) => d.pc = "saveLastLogin" /\ SameRun(c, d) /\ SameGrant(c, d)
         /\ SaveLastLogin(r) => \/ d.pc = "done" /\ d.bonus = FALSE
                                \/ d.pc = "checkLogin" /\ SameRun(c, d) /\ SameGrant(c, d)
         /\ CheckLogin(r) => \/ d.pc = "done" /\ d.bonus = FALSE
                             \/ /\ d.pc = "readStreak" /\ SameRun(c, d) /\ SameGrant(c, d)
                                /\ ~ (xpOn[today].login > 0)
         /\ ReadStreak(r) =>
              \E s \in IF streaks = {} THEN {NewStreak} ELSE Newest(streaks) :
                 /\ d.pc = "saveStreak" /\ d.streak = StreakUpdate(s, today)
                 /\ d.action = c.action /\ SameGrant(c, d)
         /\ SaveStreak(r) => /\ d.pc \in {"readTodayXp", "readLevel"} /\ SameRun(c, d)
                             /\ d.source = c.action /\ d.bonus = c.bonus
                             /\ d.amount = WithMultiplier(BaseXp(c.action), c.streak.current)
         /\ ReadTodayXp(r) => /\ d.pc = "readLevel" /\ SameRun(c, d) /\ d.source = c.source
                              /\ d.bonus => xpOn[today].xp = 0 /\ d.amount = c.amount + 50
         /\ CheckMilestone(r) =>
              \/ /\ d.pc = "readLevel" /\ SameRun(c, d) /\ d.bonus = c.bonus
                 /\ d.source = "STREAK_MILESTONE" /\ xpOn[today].milestone = 0
              \/ d.pc = "readUnlocked" /\ SameRun(c, d) /\ SameGrant(c, d)
         /\ ReadUnlocked(r) => /\ d.pc = "readStats" /\ d.action = c.action /\ SameGrant(c, d)
                               /\ d.unlocked = {i \in DOMAIN Conquistas : userConquistas[i] > 0}
         /\ ReadStats(r) => d.pc = "readStreakNow" /\ SameRun(c, d) /\ SameGrant(c, d)
         /\ ReadStreakNow(r) => d.pc = "readLevelNow" /\ SameRun(c, d) /\ SameGrant(c, d)
         /\ ReadLevelNow(r) => AtNext(c, d, 0)
         /\ CheckUnlocked(r) =>
              /\ SameRun(c, d) /\ d.bonus = c.bonus /\ d.conquista = c.conquista
              /\ \/ d.pc = "insertUnlock" /\ userConquistas[c.conquista] = 0
                 \/ /\ d.pc = "readLevel" /\ d.source = "ACHIEVEMENT"
                    /\ userConquistas[c.conquista] # 0
         /\ InsertUnlock(r) =>
              /\ d.pc = "readLevel" /\ SameRun(c, d) /\ d.bonus = c.bonus
              /\ d.conquista = c.conquista /\ d.source = "ACHIEVEMENT"
         /\ ReadLevel(r) => /\ d.pc = "saveLevel" /\ SameRun(c, d) /\ SameGrant(c, d)
                            /\ d.snapshot = userLevel
         /\ SaveLevel(r) => d.pc = "insertLog" /\ SameRun(c, d) /\ SameGrant(c, d)
         /\ InsertLog(r) =>
              \/ /\ c.source = c.action /\ d.pc \in {"checkMilestone", "readUnlocked"}
                 /\ SameRun(c, d) /\ d.bonus = FALSE
              \/ /\ c.source = "STREAK_MILESTONE" /\ d.pc = "readUnlocked"
                 /\ SameRun(c, d) /\ SameGrant(c, d)
              \/ c.source = "ACHIEVEMENT" /\ AtNext(c, d, c.conquista)
  <1>c. c \in Locals
    BY DEF TypeInv, TypeOK
  <1>f. Finish(r) => d.pc = "done" /\ d.bonus = FALSE
    BY FinishFields
  <1>g. \A label : Goto(r, c, label) => d.pc = label /\ SameRun(c, d) /\ SameGrant(c, d)
    BY GotoFields DEF SameRun, SameGrant
  <1>1. ReadLastLogin(r) => d.pc = "saveLastLogin" /\ SameRun(c, d) /\ SameGrant(c, d)
    <2> SUFFICES ASSUME ReadLastLogin(r)
                 PROVE  d.pc = "saveLastLogin" /\ SameRun(c, d) /\ SameGrant(c, d)
      OBVIOUS
    <2>1. PICK e : e = [c EXCEPT !.firstToday = (lastLogin # today)]
      OBVIOUS
    <2>2. SameRun(c, e) /\ SameGrant(c, e)
      BY <1>c, <2>1 DEF Locals, SameRun, SameGrant
    <2>3. Goto(r, e, "saveLastLogin")
      BY <2>1 DEF ReadLastLogin
    <2> QED
      BY <2>2, <2>3, GotoFields DEF SameRun, SameGrant
  <1>2. ASSUME SaveLastLogin(r)
        PROVE  \/ d.pc = "done" /\ d.bonus = FALSE
               \/ d.pc = "checkLogin" /\ SameRun(c, d) /\ SameGrant(c, d)
    BY <1>2, <1>f, <1>g DEF SaveLastLogin
  <1>3. ASSUME CheckLogin(r)
        PROVE  \/ d.pc = "done" /\ d.bonus = FALSE
               \/ /\ d.pc = "readStreak" /\ SameRun(c, d) /\ SameGrant(c, d)
                  /\ ~ (xpOn[today].login > 0)
    BY <1>3, <1>f, <1>g DEF CheckLogin
  <1>4. ASSUME SaveStreak(r)
        PROVE  /\ d.pc \in {"readTodayXp", "readLevel"} /\ SameRun(c, d)
               /\ d.source = c.action /\ d.bonus = c.bonus
               /\ d.amount = WithMultiplier(BaseXp(c.action), c.streak.current)
    <2>1. PICK e : e = [c EXCEPT !.source = c.action,
                                 !.amount = WithMultiplier(BaseXp(c.action), c.streak.current)]
      OBVIOUS
    <2>2. /\ SameRun(c, e) /\ e.source = c.action /\ e.bonus = c.bonus
          /\ e.amount = WithMultiplier(BaseXp(c.action), c.streak.current)
      BY <1>c, <2>1 DEF Locals, SameRun
    <2>3. Goto(r, e, "readTodayXp") \/ Goto(r, e, "readLevel")
      BY <1>4, <2>1 DEF SaveStreak
    <2> QED
      BY <2>2, <2>3, GotoFields DEF SameRun
  <1>5. ASSUME ReadTodayXp(r)
        PROVE  /\ d.pc = "readLevel" /\ SameRun(c, d) /\ d.source = c.source
               /\ d.bonus => xpOn[today].xp = 0 /\ d.amount = c.amount + 50
    <2>1. PICK e : e = [c EXCEPT !.bonus = (xpOn[today].xp = 0),
                                 !.amount = IF xpOn[today].xp = 0 THEN @ + 50 ELSE @]
      OBVIOUS
    <2>2. /\ SameRun(c, e) /\ e.source = c.source
          /\ e.bonus => xpOn[today].xp = 0 /\ e.amount = c.amount + 50
      BY <1>c, <2>1 DEF Locals, SameRun
    <2>3. Goto(r, e, "readLevel")
      BY <1>5, <2>1 DEF ReadTodayXp
    <2> QED
      BY <2>2, <2>3, GotoFields DEF SameRun
  <1>6. ASSUME CheckMilestone(r)
        PROVE  \/ /\ d.pc = "readLevel" /\ SameRun(c, d) /\ d.bonus = c.bonus
                  /\ d.source = "STREAK_MILESTONE" /\ xpOn[today].milestone = 0
               \/ d.pc = "readUnlocked" /\ SameRun(c, d) /\ SameGrant(c, d)
    <2>1. PICK e : e = [c EXCEPT !.source = "STREAK_MILESTONE",
                                 !.amount = MilestoneXp(c.streak.current)]
      OBVIOUS
    <2>2. SameRun(c, e) /\ e.bonus = c.bonus /\ e.source = "STREAK_MILESTONE"
      BY <1>c, <2>1 DEF Locals, SameRun
    <2>3. \/ Goto(r, e, "readLevel") /\ xpOn[today].milestone = 0
          \/ Goto(r, c, "readUnlocked")
      BY <1>6, <2>1 DEF CheckMilestone
    <2>4. CASE Goto(r, e, "readLevel") /\ xpOn[today].milestone = 0
      BY <2>2, <2>4, GotoFields DEF SameRun
    <2> QED
      BY <1>g, <2>3, <2>4
  <1>7. ASSUME ReadUnlocked(r)
        PROVE  /\ d.pc = "readStats" /\ d.action = c.action /\ SameGrant(c, d)
               /\ d.unlocked = {i \in DOMAIN Conquistas : userConquistas[i] > 0}
    <2>0. PICK u : u = {i \in DOMAIN Conquistas : userConquistas[i] > 0}
      OBVIOUS
    <2>1. PICK e : e = [c EXCEPT !.unlocked = u]
      OBVIOUS
    <2>2. e.action = c.action /\ SameGrant(c, e) /\ e.unlocked = u
      BY <1>c, <2>1 DEF Locals, SameGrant
    <2>3. Goto(r, e, "readStats")
      BY <1>7, <2>0, <2>1 DEF ReadUnlocked
    <2> QED
      BY <2>0, <2>2, <2>3, GotoFields DEF SameGrant
  <1>8. ASSUME ReadStats(r)
        PROVE  d.pc = "readStreakNow" /\ SameRun(c, d) /\ SameGrant(c, d)
    <2>1. PICK e : e = [c EXCEPT !.totalActions = xpCount]
      OBVIOUS
    <2>2. SameRun(c, e) /\ SameGrant(c, e)
      BY <1>c, <2>1 DEF Locals, SameRun, SameGrant
    <2>3. Goto(r, e, "readStreakNow")
      BY <1>8, <2>1 DEF ReadStats
    <2> QED
      BY <2>2, <2>3, GotoFields DEF SameRun, SameGrant
  <1>9. ASSUME ReadStreakNow(r)
        PROVE  d.pc = "readLevelNow" /\ SameRun(c, d) /\ SameGrant(c, d)
    <2>0. PICK s : Goto(r, [c EXCEPT !.streakNow = s.current], "readLevelNow")
      BY <1>9 DEF ReadStreakNow
    <2>1. PICK e : e = [c EXCEPT !.streakNow = s.current]
      OBVIOUS
    <2>2. SameRun(c, e) /\ SameGrant(c, e)
      BY <1>c, <2>1 DEF Locals, SameRun, SameGrant
    <2>3. Goto(r, e, "readLevelNow")
      BY <2>0, <2>1
    <2> QED
      BY <2>2, <2>3, GotoFields DEF SameRun, SameGrant
  <1>10. ASSUME ReadLevelNow(r)
         PROVE  AtNext(c, d, 0)
    BY <1>10, NextConquistaFields DEF ReadLevelNow
  <1>a. PICK e : e = Award(c)
    OBVIOUS
  <1>b. /\ SameRun(c, e) /\ e.bonus = c.bonus /\ e.conquista = c.conquista
        /\ e.source = "ACHIEVEMENT"
    BY <1>a, <1>c DEF Award, Locals, SameRun
  <1>11. ASSUME CheckUnlocked(r)
         PROVE  /\ SameRun(c, d) /\ d.bonus = c.bonus /\ d.conquista = c.conquista
                /\ \/ d.pc = "insertUnlock" /\ userConquistas[c.conquista] = 0
                   \/ /\ d.pc = "readLevel" /\ d.source = "ACHIEVEMENT"
                      /\ userConquistas[c.conquista] # 0
    <2>1. \/ Goto(r, c, "insertUnlock") /\ userConquistas[c.conquista] = 0
          \/ Goto(r, e, "readLevel") /\ userConquistas[c.conquista] # 0
      BY <1>11, <1>a DEF CheckUnlocked
    <2>2. CASE Goto(r, e, "readLevel") /\ userConquistas[c.conquista] # 0
      BY <1>b, <2>2, GotoFields DEF SameRun
    <2> QED
      BY <1>g, <2>1, <2>2 DEF SameGrant
  <1>12. ASSUME InsertUnlock(r)
         PROVE  /\ d.pc = "readLevel" /\ SameRun(c, d) /\ d.bonus = c.bonus
                /\ d.conquista = c.conquista /\ d.source = "ACHIEVEMENT"
    <2>1. Goto(r, e, "readLevel")
      BY <1>12, <1>a DEF InsertUnlock
    <2> QED
      BY <1>b, <2>1, GotoFields DEF SameRun
  <1>13. ASSUME ReadLevel(r)
         PROVE  d.pc = "saveLevel" /\ SameRun(c, d) /\ SameGrant(c, d) /\ d.snapshot = userLevel
    <2>1. PICK x : x = [c EXCEPT !.snapshot = userLevel]
      OBVIOUS
    <2>2. SameRun(c, x) /\ SameGrant(c, x) /\ x.snapshot = userLevel
      BY <1>c, <2>1 DEF Locals, SameRun, SameGrant
    <2>3. Goto(r, x, "saveLevel")
      BY <1>13, <2>1 DEF ReadLevel
    <2> QED
      BY <2>2, <2>3, GotoFields DEF SameRun, SameGrant
  <1>14. ASSUME SaveLevel(r)
         PROVE  d.pc = "insertLog" /\ SameRun(c, d) /\ SameGrant(c, d)
    BY <1>14, <1>g DEF SaveLevel
  <1>15. ASSUME InsertLog(r)
         PROVE  \/ /\ c.source = c.action /\ d.pc \in {"checkMilestone", "readUnlocked"}
                   /\ SameRun(c, d) /\ d.bonus = FALSE
                \/ /\ c.source = "STREAK_MILESTONE" /\ d.pc = "readUnlocked"
                   /\ SameRun(c, d) /\ SameGrant(c, d)
                \/ c.source = "ACHIEVEMENT" /\ AtNext(c, d, c.conquista)
    <2>1. PICK x : x = [c EXCEPT !.bonus = FALSE]
      OBVIOUS
    <2>2. SameRun(c, x) /\ x.bonus = FALSE
      BY <1>c, <2>1 DEF Locals, SameRun
    <2>3. \/ /\ c.source = c.action
             /\ Goto(r, x, "checkMilestone") \/ Goto(r, x, "readUnlocked")
          \/ c.source = "STREAK_MILESTONE" /\ Goto(r, c, "readUnlocked")
          \/ c.source = "ACHIEVEMENT" /\ NextConquista(r, c, c.conquista, c.levelNow)
      BY <1>15, <2>1 DEF InsertLog, AfterAddXp
    <2>4. CASE c.source = c.action /\ (Goto(r, x, "checkMilestone") \/ Goto(r, x, "readUnlocked"))
      BY <2>2, <2>4, GotoFields DEF SameRun
    <2> QED
      BY <1>g, <2>3, <2>4, NextConquistaFields
  <1>16. ASSUME ReadStreak(r)
         PROVE  \E s \in IF streaks = {} THEN {NewStreak} ELSE Newest(streaks) :
                   /\ d.pc = "saveStreak" /\ d.streak = StreakUpdate(s, today)
                   /\ d.action = c.action /\ SameGrant(c, d)
    <2>1. PICK s \in IF streaks = {} THEN {NewStreak} ELSE Newest(streaks) :
             Goto(r, [c EXCEPT !.streak = StreakUpdate(s, today)], "saveStreak")
      BY <1>16 DEF ReadStreak
    <2>2. PICK x : x = [c EXCEPT !.streak = StreakUpdate(s, today)]
      OBVIOUS
    <2>3. x.streak = StreakUpdate(s, today) /\ x.action = c.action /\ SameGrant(c, x)
      BY <1>c, <2>2 DEF Locals, SameGrant
    <2>4. Goto(r, x, "saveStreak")
      BY <2>1, <2>2
    <2>5. d.pc = "saveStreak" /\ d.streak = x.streak /\ d.action = x.action /\ SameGrant(x, d)
      BY <2>4, GotoFields DEF SameGrant
    <2> QED
      BY <2>3, <2>5 DEF SameGrant
  <1> QED
    BY <1>1, <1>2, <1>3, <1>4, <1>5, <1>6, <1>7, <1>8, <1>9, <1>10, <1>11, <1>12, <1>13, <1>14,
       <1>15, <1>16

-----------------------------------------------------------------------------
(* Requests one at a time *)

AtMostOne == \A q, r \in Requests : q \in InFlight /\ r \in InFlight => q = r

LEMMA AtMostOneInit == Init => AtMostOne
  <1>1. Init => call = [r \in Requests |-> Idle]
    BY DEF Init
  <1>2. Idle.pc = "idle"
    BY DEF Idle
  <1> QED
    BY <1>1, <1>2 DEF AtMostOne, InFlight, Running

LEMMA StepRuns ==
  ASSUME TypeInv, NEW r \in Requests, Step(r)
  PROVE  r \in InFlight
  BY DEF Step, ReadLastLogin, SaveLastLogin, CheckLogin, ReadStreak, SaveStreak, ReadTodayXp,
         CheckMilestone, ReadUnlocked, ReadStats, ReadStreakNow, ReadLevelNow, CheckUnlocked,
         InsertUnlock, ReadLevel, SaveLevel, InsertLog, At, InFlight, Running

(* Nobody else is in flight while a request makes a step.                  *)
LEMMA OthersWait ==
  ASSUME TypeInv, AtMostOne, NEW r \in Requests, Step(r)
  PROVE  \A q \in Requests \ {r} : call'[q] = call[q] /\ call[q].pc \notin Running
  BY OthersStay, StepRuns DEF AtMostOne, InFlight

LEMMA StartIsFirst ==
  ASSUME MaxInFlight = 1, AtMostOne, NEW r \in Requests, NEW action \in Actions, Start(r, action)
  PROVE  InFlight = {}
  <1>1. PICK q : InFlight \subseteq {q}
    BY DEF AtMostOne, InFlight
  <1>2. IsFiniteSet(InFlight)
    BY <1>1, FS_Singleton, FS_Subset
  <1>3. Cardinality(InFlight) \in Nat /\ Cardinality(InFlight) < 1
    BY <1>2, FS_CardinalityType DEF Start
  <1> QED
    BY <1>2, <1>3, FS_EmptySet

LEMMA StartFields ==
  ASSUME TypeInv, NEW r \in Requests, NEW action \in Actions, Start(r, action)
  PROVE  /\ \A q \in Requests \ {r} : call'[q] = call[q]
         /\ call'[r].pc = IF action = "DAILY_LOGIN" THEN "readLastLogin" ELSE "readStreak"
         /\ call'[r].action = action /\ call'[r].bonus = FALSE
         /\ call[r].pc = "idle"
  BY DEF Start, Goto, At, Idle, TypeInv, TypeOK

LEMMA FailFields ==
  ASSUME TypeInv, NEW r \in Requests, Fail(r)
  PROVE  /\ \A q \in Requests \ {r} : call'[q] = call[q]
         /\ call'[r].pc = "done" /\ call'[r].bonus = FALSE
  BY FinishFields DEF Fail, Finish, TypeInv, TypeOK

LEMMA AtMostOneNext ==
  ASSUME MaxInFlight = 1, TypeInv, AtMostOne, [Next]_vars
  PROVE  AtMostOne'
  <1>1. ASSUME NEW r \in Requests, NEW action \in Actions, Start(r, action)
        PROVE  AtMostOne'
    <2>1. \A q \in Requests : call[q].pc \notin Running
      BY <1>1, StartIsFirst DEF InFlight
    <2>2. \A q \in Requests \ {r} : call'[q] = call[q]
      BY <1>1, StartFields
    <2> QED
      BY <2>1, <2>2 DEF AtMostOne, InFlight
  <1>2. ASSUME NEW r \in Requests, Step(r)
        PROVE  AtMostOne'
    BY <1>2, OthersWait DEF AtMostOne, InFlight
  <1>3. ASSUME NEW r \in Requests, Fail(r)
        PROVE  AtMostOne'
    <2>1. call'[r].pc \notin Running /\ \A q \in Requests \ {r} : call'[q] = call[q]
      BY <1>3, FailFields DEF Running
    <2> QED
      BY <2>1 DEF AtMostOne, InFlight
  <1>4. CASE UNCHANGED call
    BY <1>4 DEF AtMostOne, InFlight
  <1> QED
    BY <1>1, <1>2, <1>3, <1>4 DEF Next, Quiet, Midnight, LogTimer, vars

-----------------------------------------------------------------------------
(* Once a day *)

(* No day to come has a row yet, and a bonus is XP.                        *)
DayInv ==
    /\ \A d \in Days : d > today => xpOn[d] = NoXp
    /\ \A d \in Days : xpOn[d].bonus > 0 => xpOn[d].xp > 0

Granting(c) == c.pc \in {"readLevel", "saveLevel", "insertLog"}

(* A login is on its way to its row.                                       *)
LoginDue(c) ==
    \/ c.pc \in {"readStreak", "saveStreak"} /\ c.action = "DAILY_LOGIN"
    \/ (c.pc = "readTodayXp" \/ Granting(c)) /\ c.source = "DAILY_LOGIN"

(* A request past the check of a row still has to find none on the day it  *)
(* inserts its own, also when that is a day later: nothing else is in      *)
(* flight to insert one, and a new day has none.                           *)
Once(c) ==
    /\ LoginDue(c) => xpOn[today].login = 0
    /\ Granting(c) /\ c.source = "STREAK_MILESTONE" => xpOn[today].milestone = 0
    /\ c.pc = "readTodayXp" => c.source = c.action
    /\ c.bonus => /\ Granting(c) /\ c.source = c.action /\ c.amount > 0
                  /\ xpOn[today].bonus = 0

OnceInv == AtMostOne /\ DayInv /\ OncePerDay /\ \A r \in Requests : Once(call[r])

LEMMA XpOnIsDays ==
  ASSUME TypeInv
  PROVE  /\ today \in Days /\ today \in Nat
         /\ \A d \in Days : /\ d \in Nat /\ xpOn[d].xp \in Nat /\ xpOn[d].login \in Nat
                             /\ xpOn[d].milestone \in Nat /\ xpOn[d].bonus \in Nat
  <1>1. today \in Days /\ xpOn \in [Days -> [xp : Nat, login : Nat, milestone : Nat, bonus : Nat]]
    BY DEF TypeInv, TypeOK
  <1>2. \A d \in Days : d \in Nat
    BY BoundsAssumption DEF BoundsAssumption, Days
  <1> QED
    BY <1>1, <1>2

LEMMA OnceInvInit == Init => OnceInv
  <1> SUFFICES ASSUME Init
               PROVE  OnceInv
    OBVIOUS
  <1>1. call = [r \in Requests |-> Idle] /\ xpOn = [d \in Days |-> NoXp]
    BY DEF Init
  <1>2. \A d \in Days : xpOn[d] = NoXp
    BY <1>1
  <1>3. Idle.pc = "idle" /\ Idle.bonus = FALSE
    BY DEF Idle
  <1>4. NoXp.login = 0 /\ NoXp.milestone = 0 /\ NoXp.bonus = 0
    BY DEF NoXp
  <1>5. \A r \in Requests : Once(call[r])
    BY <1>1, <1>3 DEF Once, LoginDue, Granting
  <1>6. DayInv /\ OncePerDay
    BY <1>2, <1>4 DEF DayInv, OncePerDay
  <1> QED
    BY <1>5, <1>6, AtMostOneInit DEF OnceInv

(* The row is the first of its kind of the day.                            *)
LEMMA OnceInvLog ==
  ASSUME TypeInv, TypeInv', OnceInv, NEW r \in Requests, InsertLog(r)
  PROVE  DayInv' /\ OncePerDay'
  <1>p. PICK c : c = call[r]
    OBVIOUS
  <1>c. c \in Locals /\ Once(c) /\ c.pc = "insertLog" /\ c.amount \in Nat
    BY <1>p DEF TypeInv, TypeOK, OnceInv, InsertLog, At, Locals
  <1>1. xpOn' = [xpOn EXCEPT ![today] = LogRow(xpOn[today], c)] /\ today' = today
    BY <1>p DEF InsertLog
  <1>2. today \in Days /\ DOMAIN xpOn = Days
    BY DEF TypeInv, TypeOK
  <1>3. /\ xpOn'[today].xp = xpOn[today].xp + c.amount
        /\ xpOn'[today].login = xpOn[today].login + IF c.source = "DAILY_LOGIN" THEN 1 ELSE 0
        /\ xpOn'[today].milestone
              = xpOn[today].milestone + IF c.source = "STREAK_MILESTONE" THEN 1 ELSE 0
        /\ xpOn'[today].bonus = xpOn[today].bonus + IF c.bonus THEN 1 ELSE 0
    BY <1>1, <1>2 DEF LogRow
  <1>4. \A d \in Days \ {today} : xpOn'[d] = xpOn[d]
    BY <1>1, <1>2
  <1>5. /\ c.source = "DAILY_LOGIN" => xpOn[today].login = 0
        /\ c.source = "STREAK_MILESTONE" => xpOn[today].milestone = 0
        /\ c.bonus => xpOn[today].bonus = 0 /\ c.amount > 0
    BY <1>c DEF Once, LoginDue, Granting
  <1>6. OncePerDay'
    BY <1>2, <1>3, <1>4, <1>5, XpOnIsDays DEF OnceInv, OncePerDay
  <1>7. DayInv'
    BY <1>1, <1>2, <1>3, <1>4, <1>5, <1>c, XpOnIsDays DEF OnceInv, DayInv
  <1> QED
    BY <1>6, <1>7

LEMMA OnceInvStep ==
  ASSUME MaxInFlight = 1, TypeInv, TypeInv', OnceInv, NEW r \in Requests, Step(r)
  PROVE  OnceInv'
  <1>p. PICK c, d : c = call[r] /\ d = call'[r]
    OBVIOUS
  <1>c. c \in Locals /\ Once(c) /\ AtMostOne /\ DayInv /\ OncePerDay
    BY <1>p DEF TypeInv, TypeOK, OnceInv
  <1>n. AtMostOne'
    BY <1>c, AtMostOneNext DEF Next
  <1>d. /\ today' = today /\ today \in Days
        /\ xpOn[today].login \in Nat /\ xpOn[today].milestone \in Nat /\ xpOn[today].bonus \in Nat
    <2>1. today' = today
      BY DEF Step, ReadLastLogin, SaveLastLogin, CheckLogin, ReadStreak, SaveStreak, ReadTodayXp,
             CheckMilestone, ReadUnlocked, ReadStats, ReadStreakNow, ReadLevelNow, CheckUnlocked,
             InsertUnlock, ReadLevel, SaveLevel, InsertLog
    <2> QED
      BY <2>1, XpOnIsDays
  <1>o. \A q \in Requests \ {r} : Once(call[q])'
    <2>1. \A q \in Requests \ {r} : call'[q] = call[q] /\ call[q].pc \notin Running /\ Once(call[q])
      BY <1>c, OthersWait DEF OnceInv
    <2> QED
      BY <2>1 DEF Once, LoginDue, Granting, Running
  <1>l. CASE InsertLog(r)
    <2>1. c.source \in {c.action, "STREAK_MILESTONE", "ACHIEVEMENT"}
      BY <1>p, <1>l, StepFields
    <2>2. c.source # c.action => c.bonus = FALSE
      BY <1>c DEF Once, Locals
    <2>3. c.action \notin {"STREAK_MILESTONE", "ACHIEVEMENT"}
      BY <1>c, ActionsAssumption DEF Locals, ActionsAssumption
    <2>4. d.bonus = FALSE /\ d.pc \in {"done", "checkMilestone", "readUnlocked", "checkUnlocked"}
      BY <1>p, <1>l, <2>2, <2>3, StepFields DEF AtNext, SameGrant
    <2>5. Once(call[r])'
      BY <1>p, <2>4 DEF Once, LoginDue, Granting
    <2> QED
      BY <1>l, <1>n, <1>o, <2>5, OnceInvLog DEF OnceInv
  <1>e. CASE ~ InsertLog(r)
    <2>1. UNCHANGED xpOn
      BY <1>e DEF Step, ReadLastLogin, SaveLastLogin, CheckLogin, ReadStreak, SaveStreak,
                  ReadTodayXp, CheckMilestone, ReadUnlocked, ReadStats, ReadStreakNow,
                  ReadLevelNow, CheckUnlocked, InsertUnlock, ReadLevel, SaveLevel, tables
    <2>2. DayInv' /\ OncePerDay'
      BY <1>c, <1>d, <2>1 DEF DayInv, OncePerDay
    <2>b. c.bonus \in BOOLEAN /\ c.action \notin {"STREAK_MILESTONE", "ACHIEVEMENT"} /\ c.amount \in Nat
      BY <1>c, ActionsAssumption DEF Locals, ActionsAssumption
    <2>k. ~ Granting(c) => c.bonus = FALSE
      BY <1>c, <2>b DEF Once
    <2>3. Once(d)
      <3>1. CASE ReadLastLogin(r)
        <4>1. c.pc = "readLastLogin"
          BY <1>p, <3>1 DEF ReadLastLogin, At
        <4>2. d.pc = "saveLastLogin" /\ SameGrant(c, d)
          BY <1>p, <3>1, StepFields
        <4> QED
          BY <2>k, <4>1, <4>2 DEF Once, LoginDue, Granting, SameGrant
      <3>2. CASE SaveLastLogin(r)
        <4>1. c.pc = "saveLastLogin"
          BY <1>p, <3>2 DEF SaveLastLogin, At
        <4>2. \/ d.pc = "done" /\ d.bonus = FALSE
              \/ d.pc = "checkLogin" /\ SameGrant(c, d)
          BY <1>p, <3>2, StepFields
        <4> QED
          BY <2>k, <4>1, <4>2 DEF Once, LoginDue, Granting, SameGrant
      <3>3. CASE CheckLogin(r)
        <4>1. c.pc = "checkLogin"
          BY <1>p, <3>3 DEF CheckLogin, At
        <4>2. \/ d.pc = "done" /\ d.bonus = FALSE
              \/ d.pc = "readStreak" /\ SameGrant(c, d) /\ ~ (xpOn[today].login > 0)
          BY <1>p, <3>3, StepFields
        <4> QED
          BY <1>d, <2>k, <4>1, <4>2 DEF Once, LoginDue, Granting, SameGrant
      <3>4. CASE ReadStreak(r)
        <4>1. c.pc = "readStreak"
          BY <1>p, <3>4 DEF ReadStreak, At
        <4>2. d.pc = "saveStreak" /\ d.action = c.action /\ SameGrant(c, d)
          BY <1>p, <3>4, StepFields
        <4> QED
          BY <1>c, <2>k, <4>1, <4>2 DEF Once, LoginDue, Granting, SameGrant
      <3>5. CASE SaveStreak(r)
        <4>1. c.pc = "saveStreak"
          BY <1>p, <3>5 DEF SaveStreak, At
        <4>2. /\ d.pc \in {"readTodayXp", "readLevel"} /\ SameRun(c, d)
              /\ d.source = c.action /\ d.bonus = c.bonus
          BY <1>p, <3>5, StepFields
        <4> QED
          BY <1>c, <2>b, <2>k, <4>1, <4>2 DEF Once, LoginDue, Granting, SameGrant, SameRun
      <3>6. CASE ReadTodayXp(r)
        <4>1. c.pc = "readTodayXp"
          BY <1>p, <3>6 DEF ReadTodayXp, At
        <4>2. /\ d.pc = "readLevel" /\ SameRun(c, d) /\ d.source = c.source
              /\ d.bonus => xpOn[today].xp = 0 /\ d.amount = c.amount + 50
          BY <1>p, <3>6, StepFields
        <4>a. xpOn[today].xp = 0 => xpOn[today].bonus = 0
          BY <1>c, <1>d, XpOnIsDays DEF DayInv
        <4> QED
          BY <1>c, <2>b, <4>1, <4>2, <4>a DEF Once, LoginDue, Granting, SameRun
      <3>7. CASE CheckMilestone(r)
        <4>1. c.pc = "checkMilestone"
          BY <1>p, <3>7 DEF CheckMilestone, At
        <4>2. \/ /\ d.pc = "readLevel" /\ d.bonus = c.bonus
                 /\ d.source = "STREAK_MILESTONE" /\ xpOn[today].milestone = 0
              \/ d.pc = "readUnlocked" /\ SameGrant(c, d)
          BY <1>p, <3>7, StepFields
        <4> QED
          BY <2>k, <4>1, <4>2 DEF Once, LoginDue, Granting, SameGrant
      <3>8. CASE ReadUnlocked(r)
        <4>1. c.pc = "readUnlocked"
          BY <1>p, <3>8 DEF ReadUnlocked, At
        <4>2. d.pc = "readStats" /\ SameGrant(c, d)
          BY <1>p, <3>8, StepFields
        <4> QED
          BY <2>k, <4>1, <4>2 DEF Once, LoginDue, Granting, SameGrant
      <3>9. CASE ReadStats(r)
        <4>1. c.pc = "readStats"
          BY <1>p, <3>9 DEF ReadStats, At
        <4>2. d.pc = "readStreakNow" /\ SameGrant(c, d)
          BY <1>p, <3>9, StepFields
        <4> QED
          BY <2>k, <4>1, <4>2 DEF Once, LoginDue, Granting, SameGrant
      <3>10. CASE ReadStreakNow(r)
        <4>1. c.pc = "readStreakNow"
          BY <1>p, <3>10 DEF ReadStreakNow, At
        <4>2. d.pc = "readLevelNow" /\ SameGrant(c, d)
          BY <1>p, <3>10, StepFields
        <4> QED
          BY <2>k, <4>1, <4>2 DEF Once, LoginDue, Granting, SameGrant
      <3>11. CASE ReadLevelNow(r)
        <4>1. c.pc = "readLevelNow"
          BY <1>p, <3>11 DEF ReadLevelNow, At
        <4>2. AtNext(c, d, 0)
          BY <1>p, <3>11, StepFields
        <4> QED
          BY <2>k, <4>1, <4>2 DEF Once, LoginDue, Granting, AtNext
      <3>12. CASE CheckUnlocked(r)
        <4>1. c.pc = "checkUnlocked"
          BY <1>p, <3>12 DEF CheckUnlocked, At
        <4>2. /\ d.bonus = c.bonus
              /\ \/ d.pc = "insertUnlock"
                 \/ d.pc = "readLevel" /\ d.source = "ACHIEVEMENT"
          BY <1>p, <3>12, StepFields
        <4> QED
          BY <2>k, <4>1, <4>2 DEF Once, LoginDue, Granting, SameGrant
      <3>13. CASE InsertUnlock(r)
        <4>1. c.pc = "insertUnlock"
          BY <1>p, <3>13 DEF InsertUnlock, At
        <4>2. d.bonus = c.bonus /\ d.pc = "readLevel" /\ d.source = "ACHIEVEMENT"
          BY <1>p, <3>13, StepFields
        <4> QED
          BY <2>k, <4>1, <4>2 DEF Once, LoginDue, Granting, SameGrant
      <3>14. CASE ReadLevel(r)
        <4>1. c.pc = "readLevel"
          BY <1>p, <3>14 DEF ReadLevel, At
        <4>2. d.pc = "saveLevel" /\ SameRun(c, d) /\ SameGrant(c, d)
          BY <1>p, <3>14, StepFields
        <4> QED
          BY <1>c, <2>k, <4>1, <4>2 DEF Once, LoginDue, Granting, SameGrant, SameRun
      <3>15. CASE SaveLevel(r)
        <4>1. c.pc = "saveLevel"
          BY <1>p, <3>15 DEF SaveLevel, At
        <4>2. d.pc = "insertLog" /\ SameRun(c, d) /\ SameGrant(c, d)
          BY <1>p, <3>15, StepFields
        <4> QED
          BY <1>c, <2>k, <4>1, <4>2 DEF Once, LoginDue, Granting, SameGrant, SameRun
      <3> QED
        BY <1>e, <3>1, <3>2, <3>3, <3>4, <3>5, <3>6, <3>7, <3>8, <3>9, <3>10, <3>11, <3>12, <3>13,
           <3>14, <3>15 DEF Step
    <2>4. Once(call[r])'
      BY <1>p, <1>d, <2>1, <2>3 DEF Once, LoginDue, Granting
    <2> QED
      BY <1>n, <1>o, <2>2, <2>4 DEF OnceInv
  <1> QED
    BY <1>l, <1>e

LEMMA OnceInvNext ==
  ASSUME MaxInFlight = 1, TypeInv, TypeInv', OnceInv, [Next]_vars
  PROVE  OnceInv'
  <1>i. AtMostOne /\ DayInv /\ OncePerDay /\ \A r \in Requests : Once(call[r])
    BY DEF OnceInv
  <1>a. AtMostOne'
    BY <1>i, AtMostOneNext
  <1>1. ASSUME NEW r \in Requests, NEW action \in Actions, Start(r, action)
        PROVE  OnceInv'
    <2>1. UNCHANGED <<today, xpOn>>
      BY <1>1 DEF Start, tables
    <2>2. DayInv' /\ OncePerDay'
      BY <1>i, <2>1 DEF DayInv, OncePerDay
    <2>3. /\ call'[r].bonus = FALSE
          /\ \/ call'[r].pc = "readLastLogin"
             \/ call'[r].pc = "readStreak" /\ call'[r].action # "DAILY_LOGIN"
      BY <1>1, StartFields
    <2>4. Once(call[r])'
      BY <2>3 DEF Once, LoginDue, Granting
    <2>5. \A q \in Requests \ {r} : call'[q] = call[q]
      BY <1>1, StartFields
    <2>6. \A q \in Requests \ {r} : Once(call[q])'
      BY <1>i, <2>1, <2>5 DEF Once, LoginDue, Granting
    <2> QED
      BY <1>a, <2>2, <2>4, <2>6 DEF OnceInv
  <1>2. ASSUME NEW r \in Requests, Step(r)
        PROVE  OnceInv'
    BY <1>2, OnceInvStep
  <1>3. ASSUME NEW r \in Requests, Fail(r)
        PROVE  OnceInv'
    <2>1. UNCHANGED <<today, xpOn>>
      BY <1>3 DEF Fail, tables
    <2>2. DayInv' /\ OncePerDay'
      BY <1>i, <2>1 DEF DayInv, OncePerDay
    <2>3. call'[r].bonus = FALSE /\ call'[r].pc = "done"
      BY <1>3, FailFields
    <2>4. Once(call[r])'
      BY <2>3 DEF Once, LoginDue, Granting
    <2>5. \A q \in Requests \ {r} : call'[q] = call[q]
      BY <1>3, FailFields
    <2>6. \A q \in Requests \ {r} : Once(call[q])'
      BY <1>i, <2>1, <2>5 DEF Once, LoginDue, Granting
    <2> QED
      BY <1>a, <2>2, <2>4, <2>6 DEF OnceInv
  <1>4. ASSUME NEW amount \in TimerXp, LogTimer(amount)
        PROVE  OnceInv'
    <2>1. /\ xpOn' = [xpOn EXCEPT ![today].xp = @ + amount] /\ UNCHANGED <<today, call>>
          /\ amount \in Nat
      BY <1>4, BoundsAssumption DEF LogTimer, BoundsAssumption
    <2>2. xpOn \in [Days -> [xp : Nat, login : Nat, milestone : Nat, bonus : Nat]]
      BY DEF TypeInv, TypeOK
    <2>3. \A d \in Days : /\ xpOn'[d].login = xpOn[d].login
                          /\ xpOn'[d].milestone = xpOn[d].milestone
                          /\ xpOn'[d].bonus = xpOn[d].bonus
      BY <2>1, <2>2, XpOnIsDays
    <2>4. \A d \in Days : xpOn'[d].xp >= xpOn[d].xp
      BY <2>1, <2>2, XpOnIsDays
    <2>5. \A d \in Days \ {today} : xpOn'[d] = xpOn[d]
      BY <2>1, <2>2
    <2>6. DayInv'
      <3>1. \A d \in Days : d > today => xpOn'[d] = NoXp
        BY <1>i, <2>5, XpOnIsDays DEF DayInv
      <3>2. \A d \in Days : xpOn'[d].xp \in Nat
        BY XpOnIsDays DEF TypeInv, TypeOK
      <3>3. \A d \in Days : xpOn'[d].bonus > 0 => xpOn'[d].xp > 0
        BY <1>i, <2>3, <2>4, <3>2, XpOnIsDays DEF DayInv
      <3> QED
        BY <2>1, <3>1, <3>3 DEF DayInv
    <2>7. OncePerDay'
      BY <1>i, <2>3 DEF OncePerDay
    <2>8. \A r \in Requests : Once(call[r])'
      BY <1>i, <2>1, <2>3, XpOnIsDays DEF Once, LoginDue, Granting
    <2> QED
      BY <1>a, <2>6, <2>7, <2>8 DEF OnceInv
  <1>5. CASE Midnight
    <2>1. today' = today + 1 /\ UNCHANGED <<xpOn, call>> /\ today' \in Days
      BY <1>5 DEF Midnight, tables, TypeInv, TypeOK
    <2>2. xpOn[today'] = NoXp
      BY <1>i, <2>1, XpOnIsDays DEF DayInv
    <2>3. xpOn'[today'].login = 0 /\ xpOn'[today'].milestone = 0 /\ xpOn'[today'].bonus = 0
      BY <2>1, <2>2 DEF NoXp
    <2>4. DayInv'
      BY <1>i, <2>1, XpOnIsDays DEF DayInv
    <2>5. OncePerDay'
      BY <1>i, <2>1 DEF OncePerDay
    <2>6. \A r \in Requests : Once(call[r])'
      BY <1>i, <2>1, <2>3 DEF Once, LoginDue, Granting
    <2> QED
      BY <1>a, <2>4, <2>5, <2>6 DEF OnceInv
  <1>6. CASE UNCHANGED vars
    <2>1. UNCHANGED <<today, xpOn, call>>
      BY <1>6 DEF vars, tables
    <2>2. DayInv' /\ OncePerDay'
      BY <1>i, <2>1 DEF DayInv, OncePerDay
    <2>3. \A r \in Requests : Once(call[r])'
      BY <1>i, <2>1 DEF Once, LoginDue, Granting
    <2> QED
      BY <1>a, <2>2, <2>3 DEF OnceInv
  <1> QED
    BY <1>1, <1>2, <1>3, <1>4, <1>5, <1>6 DEF Next, Quiet

(* When the requests of a user come one at a time, a day's log holds one   *)
(* row for the login, one for a milestone and one with the bonus of the    *)
(* first productive action, however many requests fail and wherever        *)
(* midnight falls between a check and its row.                             *)
THEOREM OnceADay == ASSUME MaxInFlight = 1 PROVE Spec => []OncePerDay
  <1>1. Init => TypeInv /\ OnceInv
    BY TypeInvInit, OnceInvInit
  <1>2. TypeInv /\ OnceInv /\ [Next]_vars => (TypeInv /\ OnceInv)'
    BY TypeInvNext, OnceInvNext
  <1>3. TypeInv /\ OnceInv => OncePerDay
    BY DEF OnceInv
  <1> QED
    BY <1>1, <1>2, <1>3, PTL DEF Spec

-----------------------------------------------------------------------------
(* Paid once *)

(* A conquista that has been paid has its row.                             *)
Paid == \A i \in DOMAIN Conquistas : paid[i] <= 1 /\ (paid[i] > 0 => userConquistas[i] > 0)

(* The conquistas after the one with index `at` that are unlocked are      *)
(* those the request read as unlocked.                                     *)
Seen(c, at) == \A i \in DOMAIN Conquistas : i > at /\ userConquistas[i] > 0 => i \in c.unlocked

(* What the loop of checkAchievements has read stays true of the           *)
(* conquistas it has still to look at, and what it pays was not paid.      *)
PayDue(c) ==
    /\ c.pc \in {"readStats", "readStreakNow", "readLevelNow"} => Seen(c, 0)
    /\ c.pc \in {"checkUnlocked", "insertUnlock"} =>
          /\ userConquistas[c.conquista] = 0 /\ Seen(c, c.conquista)
    /\ Granting(c) /\ c.source = "ACHIEVEMENT" =>
          /\ paid[c.conquista] = 0 /\ userConquistas[c.conquista] > 0 /\ Seen(c, c.conquista)

PaidInv == OnceInv /\ Paid /\ \A r \in Requests : PayDue(call[r])

LEMMA ConquistaCounts ==
  ASSUME TypeInv
  PROVE  \A i \in DOMAIN Conquistas : i \in Nat /\ i > 0 /\ paid[i] \in Nat /\ userConquistas[i] \in Nat
  <1>1. \A i \in DOMAIN Conquistas : i \in Nat /\ i > 0
    BY ConquistasAssumption DEF ConquistasAssumption
  <1> QED
    BY <1>1 DEF TypeInv, TypeOK

LEMMA PaidInvInit == Init => PaidInv
  <1> SUFFICES ASSUME Init
               PROVE  PaidInv
    OBVIOUS
  <1>1. /\ call = [r \in Requests |-> Idle] /\ paid = [i \in DOMAIN Conquistas |-> 0]
    BY DEF Init
  <1>2. Idle.pc = "idle"
    BY DEF Idle
  <1>3. Paid
    BY <1>1 DEF Paid
  <1>4. \A r \in Requests : PayDue(call[r])
    BY <1>1, <1>2 DEF PayDue, Granting
  <1> QED
    BY <1>3, <1>4, OnceInvInit DEF PaidInv

(* A step that inserts neither an unlock nor a log row.                    *)
LEMMA PayDueStep ==
  ASSUME TypeInv, TypeInv', PaidInv, NEW r \in Requests, Step(r), ~ InsertUnlock(r),
         ~ InsertLog(r), NEW c, c = call[r], NEW d, d = call'[r]
  PROVE  PayDue(d)
  <1>p. c = call[r] /\ d = call'[r]
    OBVIOUS
  <1>c. c \in Locals /\ PayDue(c) /\ Once(c)
    BY DEF TypeInv, TypeOK, PaidInv, OnceInv
  <1>b. c.action \notin {"STREAK_MILESTONE", "ACHIEVEMENT"}
    BY <1>c, ActionsAssumption DEF Locals, ActionsAssumption
  <1>1. CASE ReadLastLogin(r)
    <2>1. c.pc = "readLastLogin"
      BY <1>p, <1>1 DEF ReadLastLogin, At
    <2>2. d.pc = "saveLastLogin"
      BY <1>p, <1>1, StepFields
    <2> QED
      BY <2>1, <2>2 DEF PayDue, Granting, Seen
  <1>2. CASE SaveLastLogin(r)
    <2>1. c.pc = "saveLastLogin"
      BY <1>p, <1>2 DEF SaveLastLogin, At
    <2>2. d.pc = "done" \/ d.pc = "checkLogin"
      BY <1>p, <1>2, StepFields
    <2> QED
      BY <2>1, <2>2 DEF PayDue, Granting, Seen
  <1>3. CASE CheckLogin(r)
    <2>1. c.pc = "checkLogin"
      BY <1>p, <1>3 DEF CheckLogin, At
    <2>2. d.pc = "done" \/ d.pc = "readStreak"
      BY <1>p, <1>3, StepFields
    <2> QED
      BY <2>1, <2>2 DEF PayDue, Granting, Seen
  <1>4. CASE ReadStreak(r)
    <2>1. c.pc = "readStreak"
      BY <1>p, <1>4 DEF ReadStreak, At
    <2>2. d.pc = "saveStreak"
      BY <1>p, <1>4, StepFields
    <2> QED
      BY <2>1, <2>2 DEF PayDue, Granting, Seen
  <1>5. CASE SaveStreak(r)
    <2>1. c.pc = "saveStreak"
      BY <1>p, <1>5 DEF SaveStreak, At
    <2>2. /\ d.pc \in {"readTodayXp", "readLevel"} /\ SameRun(c, d) /\ d.source = c.action
          /\ d.bonus = c.bonus
      BY <1>p, <1>5, StepFields
    <2> QED
      BY <1>b, <2>2 DEF PayDue, Granting, Seen
  <1>6. CASE ReadTodayXp(r)
    <2>1. c.pc = "readTodayXp"
      BY <1>p, <1>6 DEF ReadTodayXp, At
    <2>2. /\ d.pc = "readLevel" /\ SameRun(c, d) /\ d.source = c.source
          /\ d.bonus => xpOn[today].xp = 0 /\ d.amount = c.amount + 50
      BY <1>p, <1>6, StepFields
    <2>3. c.source = c.action
      BY <1>c, <2>1 DEF Once
    <2> QED
      BY <1>b, <2>2, <2>3 DEF PayDue, Granting, Seen
  <1>7. CASE CheckMilestone(r)
    <2>1. c.pc = "checkMilestone"
      BY <1>p, <1>7 DEF CheckMilestone, At
    <2>2. \/ d.pc = "readLevel" /\ d.source = "STREAK_MILESTONE"
          \/ d.pc = "readUnlocked"
      BY <1>p, <1>7, StepFields
    <2> QED
      BY <2>1, <2>2 DEF PayDue, Granting, Seen
  <1>8. CASE ReadUnlocked(r)
    <2>1. c.pc = "readUnlocked"
      BY <1>p, <1>8 DEF ReadUnlocked, At
    <2>2. d.pc = "readStats" /\ d.unlocked = {i \in DOMAIN Conquistas : userConquistas[i] > 0}
      BY <1>p, <1>8, StepFields
    <2> QED
      BY <2>1, <2>2 DEF PayDue, Granting, Seen
  <1>9. CASE ReadStats(r)
    <2>1. c.pc = "readStats"
      BY <1>p, <1>9 DEF ReadStats, At
    <2>2. d.pc = "readStreakNow" /\ SameRun(c, d)
      BY <1>p, <1>9, StepFields
    <2> QED
      BY <1>c, <2>1, <2>2 DEF PayDue, Granting, Seen, SameRun
  <1>10. CASE ReadStreakNow(r)
    <2>1. c.pc = "readStreakNow"
      BY <1>p, <1>10 DEF ReadStreakNow, At
    <2>2. d.pc = "readLevelNow" /\ SameRun(c, d)
      BY <1>p, <1>10, StepFields
    <2> QED
      BY <1>c, <2>1, <2>2 DEF PayDue, Granting, Seen, SameRun
  <1>11. CASE ReadLevelNow(r)
    <2>1. c.pc = "readLevelNow"
      BY <1>p, <1>11 DEF ReadLevelNow, At
    <2>2. AtNext(c, d, 0)
      BY <1>p, <1>11, StepFields
    <2>3. Seen(c, 0)
      BY <1>c, <2>1 DEF PayDue
    <2>4. \A i \in DOMAIN Conquistas : userConquistas[i] > 0 => i \in c.unlocked
      BY <2>3, ConquistaCounts DEF Seen
    <2>5. d.pc = "done" \/ d.pc = "checkUnlocked"
      BY <2>2 DEF AtNext
    <2>6. d.pc = "checkUnlocked" => /\ d.conquista \in DOMAIN Conquistas
                                    /\ d.conquista \notin c.unlocked /\ d.unlocked = c.unlocked
      BY <2>2 DEF AtNext, SameRun
    <2>7. d.pc = "checkUnlocked" => userConquistas[d.conquista] = 0
      BY <2>4, <2>6, ConquistaCounts
    <2> QED
      BY <2>4, <2>5, <2>6, <2>7 DEF PayDue, Granting, Seen
  <1>12. CASE CheckUnlocked(r)
    <2>1. c.pc = "checkUnlocked"
      BY <1>p, <1>12 DEF CheckUnlocked, At
    <2>2. /\ SameRun(c, d) /\ d.conquista = c.conquista
          /\ \/ d.pc = "insertUnlock" /\ userConquistas[c.conquista] = 0
             \/ d.pc = "readLevel" /\ userConquistas[c.conquista] # 0
      BY <1>p, <1>12, StepFields
    <2> QED
      BY <1>c, <2>1, <2>2 DEF PayDue, Granting, Seen, SameRun
  <1>14. CASE ReadLevel(r)
    <2>1. c.pc = "readLevel"
      BY <1>p, <1>14 DEF ReadLevel, At
    <2>2. d.pc = "saveLevel" /\ SameRun(c, d) /\ SameGrant(c, d)
      BY <1>p, <1>14, StepFields
    <2> QED
      BY <1>c, <2>1, <2>2 DEF PayDue, Granting, Seen, SameRun, SameGrant
  <1>15. CASE SaveLevel(r)
    <2>1. c.pc = "saveLevel"
      BY <1>p, <1>15 DEF SaveLevel, At
    <2>2. d.pc = "insertLog" /\ SameRun(c, d) /\ SameGrant(c, d)
      BY <1>p, <1>15, StepFields
    <2> QED
      BY <1>c, <2>1, <2>2 DEF PayDue, Granting, Seen, SameRun, SameGrant
  <1> QED
    BY <1>1, <1>2, <1>3, <1>4, <1>5, <1>6, <1>7, <1>8, <1>9, <1>10, <1>11, <1>12, <1>14, <1>15
       DEF Step

LEMMA PaidInvStep ==
  ASSUME MaxInFlight = 1, TypeInv, TypeInv', PaidInv, NEW r \in Requests, Step(r)
  PROVE  PaidInv'
  <1>p. PICK c, d : c = call[r] /\ d = call'[r]
    OBVIOUS
  <1>c. c \in Locals /\ PayDue(c) /\ Once(c) /\ LocalsOK(c) /\ OnceInv /\ AtMostOne /\ Paid
    BY <1>p DEF TypeInv, TypeOK, PaidInv, OnceInv
  <1>i. OnceInv'
    BY <1>c, OnceInvStep
  <1>o. \A q \in Requests \ {r} : PayDue(call[q])'
    <2>1. \A q \in Requests \ {r} : call'[q] = call[q] /\ call[q].pc \notin Running
      BY <1>c, OthersWait
    <2> QED
      BY <2>1 DEF PayDue, Granting, Running
  <1>u. userConquistas \in [DOMAIN Conquistas -> Nat] /\ paid \in [DOMAIN Conquistas -> Nat]
    BY DEF TypeInv, TypeOK
  <1>1. CASE InsertUnlock(r)
    <2>1. c.pc = "insertUnlock"
      BY <1>p, <1>1 DEF InsertUnlock, At
    <2>2. /\ d.pc = "readLevel" /\ SameRun(c, d) /\ d.conquista = c.conquista
          /\ d.source = "ACHIEVEMENT"
      BY <1>p, <1>1, StepFields
    <2>3. c.conquista \in DOMAIN Conquistas
      BY <1>c, <2>1 DEF LocalsOK, AtConquista
    <2>4. /\ userConquistas' = [userConquistas EXCEPT ![c.conquista] = @ + 1] /\ paid' = paid
      BY <1>p, <1>1 DEF InsertUnlock, history
    <2>5. userConquistas[c.conquista] = 0 /\ Seen(c, c.conquista)
      BY <1>c, <2>1 DEF PayDue
    <2>6. paid[c.conquista] = 0
      BY <1>c, <1>u, <2>3, <2>5, ConquistaCounts DEF Paid
    <2>7. \A i \in DOMAIN Conquistas \ {c.conquista} : userConquistas'[i] = userConquistas[i]
      BY <1>u, <2>4
    <2>8. userConquistas'[c.conquista] = 1
      BY <1>u, <2>3, <2>4, <2>5
    <2>9. Paid'
      BY <1>c, <2>4, <2>6, <2>7, <2>8 DEF Paid
    <2>10. Seen(d, d.conquista)'
      BY <1>p, <2>2, <2>3, <2>5, <2>7, ConquistaCounts DEF Seen, SameRun
    <2>11. PayDue(call[r])'
      BY <1>p, <2>2, <2>4, <2>6, <2>8, <2>10 DEF PayDue, Granting, Seen
    <2> QED
      BY <1>i, <1>o, <2>9, <2>11 DEF PaidInv
  <1>2. CASE InsertLog(r)
    <2>1. Granting(c) /\ c.pc = "insertLog" /\ userConquistas' = userConquistas
      BY <1>p, <1>2 DEF InsertLog, At, Granting
    <2>2. CASE c.source = "ACHIEVEMENT"
      <3>1. AtNext(c, d, c.conquista)
        <4>1. c.source # c.action
          BY <1>c, <2>2, ActionsAssumption DEF Locals, ActionsAssumption
        <4> QED
          BY <1>p, <1>2, <2>2, <4>1, StepFields
      <3>2. c.conquista \in DOMAIN Conquistas
        BY <1>c, <2>1, <2>2 DEF LocalsOK, AtConquista
      <3>3. paid[c.conquista] = 0 /\ userConquistas[c.conquista] > 0 /\ Seen(c, c.conquista)
        BY <1>c, <2>1, <2>2 DEF PayDue
      <3>4. paid' = [paid EXCEPT ![c.conquista] = @ + 1]
        BY <1>p, <1>2, <2>2 DEF InsertLog
      <3>5. paid'[c.conquista] = 1
        BY <1>u, <3>2, <3>3, <3>4
      <3>6. \A i \in DOMAIN Conquistas \ {c.conquista} : paid'[i] = paid[i]
        BY <1>u, <3>4
      <3>7. Paid'
        BY <1>c, <2>1, <3>3, <3>5, <3>6 DEF Paid
      <3>8. d.pc = "done" \/ d.pc = "checkUnlocked"
        BY <3>1 DEF AtNext
      <3>9. d.pc = "checkUnlocked" =>
              /\ d.conquista \in DOMAIN Conquistas /\ d.conquista > c.conquista
              /\ d.conquista \notin c.unlocked /\ d.unlocked = c.unlocked
        BY <3>1 DEF AtNext, SameRun
      <3>10. d.pc = "checkUnlocked" => userConquistas[d.conquista] = 0
        BY <3>3, <3>9, ConquistaCounts DEF Seen
      <3>11. d.pc = "checkUnlocked" => Seen(d, d.conquista)
        BY <3>2, <3>3, <3>9, ConquistaCounts DEF Seen
      <3>12. PayDue(call[r])'
        BY <1>p, <2>1, <3>8, <3>10, <3>11 DEF PayDue, Granting, Seen
      <3> QED
        BY <1>i, <1>o, <3>7, <3>12 DEF PaidInv
    <2>3. CASE c.source # "ACHIEVEMENT"
      <3>1. paid' = paid
        BY <1>p, <1>2, <2>3 DEF InsertLog
      <3>2. d.pc \in {"checkMilestone", "readUnlocked"}
        BY <1>p, <1>2, <2>3, StepFields
      <3>3. PayDue(call[r])'
        BY <1>p, <3>2 DEF PayDue, Granting
      <3>4. Paid'
        BY <1>c, <2>1, <3>1 DEF Paid
      <3> QED
        BY <1>i, <1>o, <3>3, <3>4 DEF PaidInv
    <2> QED
      BY <2>2, <2>3
  <1>3. CASE ~ InsertUnlock(r) /\ ~ InsertLog(r)
    <2>1. UNCHANGED <<userConquistas, paid>>
      BY <1>3 DEF Step, ReadLastLogin, SaveLastLogin, CheckLogin, ReadStreak, SaveStreak,
                  ReadTodayXp, CheckMilestone, ReadUnlocked, ReadStats, ReadStreakNow,
                  ReadLevelNow, CheckUnlocked, ReadLevel, SaveLevel, tables, history
    <2>2. PayDue(d)
      BY <1>3, <1>p, PayDueStep
    <2>3. PayDue(call[r])'
      BY <1>p, <2>1, <2>2 DEF PayDue, Granting, Seen
    <2>4. Paid'
      BY <1>c, <2>1 DEF Paid
    <2> QED
      BY <1>i, <1>o, <2>3, <2>4 DEF PaidInv
  <1> QED
    BY <1>1, <1>2, <1>3

LEMMA PaidInvNext ==
  ASSUME MaxInFlight = 1, TypeInv, TypeInv', PaidInv, [Next]_vars
  PROVE  PaidInv'
  <1>i. OnceInv /\ Paid /\ \A r \in Requests : PayDue(call[r])
    BY DEF PaidInv
  <1>a. OnceInv'
    BY <1>i, OnceInvNext
  <1>1. ASSUME NEW r \in Requests, UNCHANGED <<userConquistas, paid>>,
               \A q \in Requests \ {r} : call'[q] = call[q],
               call'[r].pc \in {"readLastLogin", "readStreak", "done"}
        PROVE  PaidInv'
    <2>1. PayDue(call[r])'
      BY <1>1 DEF PayDue, Granting
    <2>2. \A q \in Requests \ {r} : PayDue(call[q])'
      BY <1>i, <1>1 DEF PayDue, Granting, Seen
    <2>3. Paid'
      BY <1>i, <1>1 DEF Paid
    <2> QED
      BY <1>a, <2>1, <2>2, <2>3 DEF PaidInv
  <1>2. ASSUME NEW r \in Requests, NEW action \in Actions, Start(r, action)
        PROVE  PaidInv'
    <2>1. UNCHANGED <<userConquistas, paid>>
      BY <1>2 DEF Start, tables, history
    <2>2. call'[r].pc \in {"readLastLogin", "readStreak"}
      BY <1>2, StartFields
    <2>3. \A q \in Requests \ {r} : call'[q] = call[q]
      BY <1>2, StartFields
    <2> QED
      BY <1>1, <2>1, <2>2, <2>3
  <1>3. ASSUME NEW r \in Requests, Fail(r)
        PROVE  PaidInv'
    <2>1. UNCHANGED <<userConquistas, paid>>
      BY <1>3 DEF Fail, tables, history
    <2>2. call'[r].pc = "done" /\ \A q \in Requests \ {r} : call'[q] = call[q]
      BY <1>3, FailFields
    <2> QED
      BY <1>1, <2>1, <2>2
  <1>4. CASE UNCHANGED <<call, userConquistas, paid>>
    <2>1. \A q \in Requests : PayDue(call[q])'
      BY <1>i, <1>4 DEF PayDue, Granting, Seen
    <2>2. Paid'
      BY <1>i, <1>4 DEF Paid
    <2> QED
      BY <1>a, <2>1, <2>2 DEF PaidInv
  <1>5. CASE (\E amount \in TimerXp : LogTimer(amount)) \/ Midnight \/ UNCHANGED vars
    <2>1. UNCHANGED <<call, userConquistas, paid>>
      BY <1>5 DEF LogTimer, Midnight, vars, tables, history
    <2> QED
      BY <1>4, <2>1
  <1>6. ASSUME NEW r \in Requests, Step(r)
        PROVE  PaidInv'
    BY <1>6, PaidInvStep
  <1> QED
    BY <1>2, <1>3, <1>5, <1>6 DEF Next, Quiet

(* When the requests of a user come one at a time, no conquista is paid    *)
(* twice, also when a request failed between the row of the conquista and  *)
(* the XP for it: the next one leaves it out.                              *)
THEOREM ConquistasPaidOnce == ASSUME MaxInFlight = 1 PROVE Spec => []AchievementPaidOnce
  <1>1. Init => TypeInv /\ PaidInv
    BY TypeInvInit, PaidInvInit
  <1>2. TypeInv /\ PaidInv /\ [Next]_vars => (TypeInv /\ PaidInv)'
    BY TypeInvNext, PaidInvNext
  <1>3. TypeInv /\ PaidInv => AchievementPaidOnce
    BY DEF PaidInv, Paid, AchievementPaidOnce
  <1> QED
    BY <1>1, <1>2, <1>3, PTL DEF Spec

-----------------------------------------------------------------------------
(* The exact streak *)

(* The newest row counts the days up to its last one, which is the last    *)
(* active day.                                                             *)
Exact(s) == CountsDays(s, activeDays) /\ \A d \in activeDays : d <= s.last

(* A row that waits to be saved will be the newest and exact then.         *)
SaveDue(c) ==
    c.pc = "saveStreak" =>
        /\ \A t \in streaks : t.created <= c.streak.created
        /\ CountsDays(c.streak, activeDays \cup {c.streak.last})
        /\ \A d \in activeDays : d <= c.streak.last

ExactInv ==
    /\ AtMostOne /\ IsFiniteSet(activeDays)
    /\ streaks = {} => activeDays = {}
    /\ \A s \in Newest(streaks) : Exact(s)
    /\ \A r \in Requests : SaveDue(call[r])

LEMMA ExactInvInit == MaxInFlight = 1 /\ Init => ExactInv
  <1> SUFFICES ASSUME MaxInFlight = 1, Init
               PROVE  ExactInv
    OBVIOUS
  <1>1. PICK h \in Histories : /\ call = [r \in Requests |-> Idle]
                               /\ streaks = h.streaks /\ activeDays = h.activeDays
    BY DEF Init
  <1>2. IsFiniteSet(activeDays)
    BY <1>1, HistoriesAssumption DEF HistoriesAssumption
  <1>3. (streaks = {} => activeDays = {}) /\ \A s \in Newest(streaks) : Exact(s)
    BY <1>1, SerialAssumption DEF SerialAssumption, Exact
  <1>4. \A r \in Requests : SaveDue(call[r])
    BY <1>1 DEF Idle, SaveDue
  <1> QED
    BY <1>2, <1>3, <1>4, AtMostOneInit DEF ExactInv

(* Activity on the day after the last one: one day more is counted.        *)
LEMMA OneDayMore ==
  ASSUME NEW active \in SUBSET Int, IsFiniteSet(active), NEW last \in active,
         \A d \in active : d <= last
  PROVE  /\ IsFiniteSet(CountedDays(last, active))
         /\ Cardinality(CountedDays(last + 1, active \cup {last + 1}))
               = Cardinality(CountedDays(last, active)) + 1
  <1>1. CountedDays(last, active) \subseteq active
    BY DEF CountedDays
  <1>2. last + 1 \notin active /\ last \in Int
    OBVIOUS
  <1>3. CountedDays(last + 1, active \cup {last + 1})
           = CountedDays(last, active) \cup {last + 1}
    <2> DEFINE later == active \cup {last + 1}
    <2>1. ASSUME NEW d \in CountedDays(last + 1, later)
          PROVE  d \in CountedDays(last, active) \cup {last + 1}
      <3>1. /\ d \in later /\ \E first \in later : first < d
            /\ \A e \in d .. (last + 1) : e \in later
        BY <2>1 DEF CountedDays
      <3>2. CASE d # last + 1
        <4>1. d \in active /\ d <= last /\ d \in Int
          BY <3>1, <3>2
        <4>2. \E first \in active : first < d
          BY <1>2, <3>1, <4>1
        <4>3. \A e \in d .. last : e \in active
          BY <1>2, <3>1, <4>1
        <4> QED
          BY <4>1, <4>2, <4>3 DEF CountedDays
      <3> QED
        BY <3>2
    <2>2. ASSUME NEW d \in CountedDays(last, active)
          PROVE  d \in CountedDays(last + 1, later)
      <3>1. /\ d \in active /\ d <= last /\ d \in Int /\ \E first \in active : first < d
            /\ \A e \in d .. last : e \in active
        BY <2>2 DEF CountedDays
      <3>2. \A e \in d .. (last + 1) : e \in d .. last \/ e = last + 1
        BY <1>2, <3>1
      <3>3. \A e \in d .. (last + 1) : e \in later
        BY <3>1, <3>2
      <3> QED
        BY <3>1, <3>3 DEF CountedDays
    <2>3. last + 1 \in CountedDays(last + 1, later)
      <3>1. last \in later /\ last < last + 1 /\ last + 1 \in later
        BY <1>2
      <3>2. \A e \in (last + 1) .. (last + 1) : e \in later
        BY <1>2
      <3> QED
        BY <3>1, <3>2 DEF CountedDays
    <2> QED
      BY <2>1, <2>2, <2>3
  <1>4. IsFiniteSet(CountedDays(last, active))
    BY <1>1, FS_Subset
  <1>5. last + 1 \notin CountedDays(last, active)
    BY <1>1, <1>2
  <1> QED
    BY <1>3, <1>4, <1>5, FS_AddElement

(* Activity after a gap: that day alone is counted.                        *)
LEMMA AfterAGap ==
  ASSUME NEW active \in SUBSET Int, NEW last \in active, NEW day \in Int, day > last + 1,
         \A d \in active : d <= last
  PROVE  Cardinality(CountedDays(day, active \cup {day})) = 1
  <1> DEFINE later == active \cup {day}
  <1>1. last \in Int /\ day - 1 \in Int /\ day - 1 \notin later
    OBVIOUS
  <1>2. ASSUME NEW d \in CountedDays(day, later)
        PROVE  d = day
    <2>1. d \in later /\ \A e \in d .. day : e \in later
      BY <1>2 DEF CountedDays
    <2>2. ASSUME d \in active
          PROVE  FALSE
      <3>1. d \in Int /\ d <= last
        BY <2>2
      <3>2. day - 1 \in d .. day
        BY <1>1, <3>1
      <3> QED
        BY <1>1, <2>1, <3>2
    <2> QED
      BY <2>1, <2>2
  <1>3. day \in CountedDays(day, later)
    <2>1. last \in later /\ last < day /\ day \in later
      BY <1>1
    <2>2. \A e \in day .. day : e \in later
      OBVIOUS
    <2> QED
      BY <2>1, <2>2 DEF CountedDays
  <1>4. CountedDays(day, later) = {day}
    BY <1>2, <1>3
  <1> QED
    BY <1>4, FS_Singleton

(* Streak.update keeps a row exact.                                        *)
LEMMA UpdateIsExact ==
  ASSUME NEW s \in StreakRow, today \in Int, s.last <= today, activeDays \in SUBSET Int,
         IsFiniteSet(activeDays), s.last \in activeDays, Exact(s)
  PROVE  CountsDays(StreakUpdate(s, today), activeDays \cup {today})
  <1>t. s.last \in Int /\ s.current \in Nat
    BY DEF StreakRow
  <1>e. s.current = Cardinality(CountedDays(s.last, activeDays)) /\ \A d \in activeDays : d <= s.last
    BY DEF Exact, CountsDays
  <1> DEFINE u == StreakUpdate(s, today)
  <1>1. CASE today = s.last
    <2>1. u.current = s.current /\ u.last = today
      BY <1>1, <1>t DEF StreakUpdate, StreakRow
    <2>2. activeDays \cup {today} = activeDays
      BY <1>1
    <2> HIDE DEF u
    <2> QED
      BY <1>1, <1>e, <2>1, <2>2 DEF CountsDays, u
  <1>2. CASE today = s.last + 1
    <2>1. u.current = s.current + 1 /\ u.last = today
      BY <1>2, <1>t DEF StreakUpdate, StreakRow
    <2>2. Cardinality(CountedDays(s.last + 1, activeDays \cup {s.last + 1}))
             = Cardinality(CountedDays(s.last, activeDays)) + 1
      BY <1>e, OneDayMore
    <2> HIDE DEF u
    <2> QED
      BY <1>2, <1>e, <2>1, <2>2 DEF CountsDays, u
  <1>3. CASE today > s.last + 1
    <2>1. u.current = 1 /\ u.last = today
      BY <1>3, <1>t DEF StreakUpdate, StreakRow
    <2>2. Cardinality(CountedDays(today, activeDays \cup {today})) = 1
      BY <1>3, <1>e, AfterAGap
    <2> HIDE DEF u
    <2> QED
      BY <2>1, <2>2 DEF CountsDays, u
  <1> QED
    BY <1>1, <1>2, <1>3, <1>t

LEMMA ReadStreakSaveDue ==
  ASSUME TypeInv, TypeInv', StreakInv, ExactInv, NEW r \in Requests, ReadStreak(r)
  PROVE  SaveDue(call'[r])
  <1>p. PICK d : d = call'[r]
    OBVIOUS
  <1>1. PICK s \in IF streaks = {} THEN {NewStreak} ELSE Newest(streaks) :
           d.streak = StreakUpdate(s, today)
    BY <1>p, StepFields
  <1>t. today \in Int /\ activeDays \in SUBSET Int /\ streaks \subseteq StreakRow
    BY XpOnIsDays DEF TypeInv, TypeOK
  <1>2. CASE streaks = {}
    <2>1. activeDays = {} /\ s.current = 0 /\ s.last = today
      BY <1>1, <1>2 DEF ExactInv, NewStreak
    <2>2. StreakUpdate(s, today).current = 0 /\ StreakUpdate(s, today).last = today
      BY <1>1, <1>2, <1>t DEF StreakUpdate, NewStreak
    <2>3. CountedDays(today, {today}) = {}
      BY <1>t DEF CountedDays
    <2>4. CountsDays(d.streak, activeDays \cup {d.streak.last})
      BY <1>1, <2>1, <2>2, <2>3, FS_EmptySet DEF CountsDays
    <2> QED
      BY <1>2, <1>p, <2>1, <2>4 DEF SaveDue
  <1>3. CASE streaks # {}
    <2>1. s \in streaks /\ (\A t \in streaks : t.created <= s.created) /\ Exact(s) /\ s \in StreakRow
      BY <1>1, <1>3, <1>t DEF ExactInv, Newest
    <2>2. s.last <= today /\ s.last \in activeDays
      BY <2>1 DEF StreakInv
    <2>3. StreakUpdate(s, today).created = s.created /\ StreakUpdate(s, today).last = today
      BY <2>1, <2>2, <1>t DEF StreakUpdate, StreakRow
    <2>4. CountsDays(StreakUpdate(s, today), activeDays \cup {today})
      BY <1>t, <2>1, <2>2, UpdateIsExact DEF ExactInv
    <2>5. \A e \in activeDays : e <= today
      <3>1. s.last \in Int /\ \A e \in activeDays : e \in Int /\ e <= s.last
        BY <1>t, <2>1 DEF Exact, StreakRow
      <3> QED
        BY <1>t, <2>2, <3>1
    <2> QED
      BY <1>1, <1>p, <2>1, <2>3, <2>4, <2>5 DEF SaveDue
  <1> QED
    BY <1>2, <1>3

LEMMA SaveStreakExact ==
  ASSUME TypeInv, TypeInv', ExactInv, NEW r \in Requests, SaveStreak(r)
  PROVE  /\ IsFiniteSet(activeDays') /\ streaks' # {}
         /\ \A s \in Newest(streaks') : Exact(s)'
  <1>p. PICK c : c = call[r]
    OBVIOUS
  <1>1. /\ streaks' = {t \in streaks : t.created # c.streak.created} \cup {c.streak}
        /\ activeDays' = activeDays \cup {c.streak.last}
    BY <1>p DEF SaveStreak
  <1>2. /\ \A t \in streaks : t.created <= c.streak.created
        /\ CountsDays(c.streak, activeDays')
        /\ \A d \in activeDays : d <= c.streak.last
    BY <1>p, <1>1 DEF SaveStreak, At, ExactInv, SaveDue
  <1>t. /\ c.streak \in StreakRow /\ streaks \subseteq StreakRow
        /\ c.streak.created \in Nat /\ c.streak.last \in Int
        /\ \A t \in streaks : t.created \in Nat
    BY <1>p DEF TypeInv, TypeOK, Locals, StreakRow
  <1>3. ASSUME NEW s \in Newest(streaks')
        PROVE  s = c.streak
    <2>1. s \in streaks' /\ c.streak.created <= s.created
      BY <1>1, <1>3 DEF Newest
    <2> QED
      BY <1>1, <1>2, <1>t, <2>1
  <1>4. Exact(c.streak)'
    <2>1. \A d \in activeDays' : d <= c.streak.last
      BY <1>1, <1>2, <1>t
    <2> QED
      BY <1>2, <2>1 DEF Exact
  <1>5. IsFiniteSet(activeDays')
    BY <1>1, FS_AddElement DEF ExactInv
  <1> QED
    BY <1>1, <1>3, <1>4, <1>5

(* Which step a label is reached by.                                       *)
LEMMA StepLabels ==
  ASSUME TypeInv, TypeInv', NEW r \in Requests, Step(r)
  PROVE  /\ call'[r].pc = "saveStreak" => ReadStreak(r)
         /\ call'[r].pc = "saveLevel" => ReadLevel(r)
         /\ call'[r].pc = "insertLog" => SaveLevel(r)
  <1>1. CASE ReadLastLogin(r)
    <2>1. call'[r].pc = "saveLastLogin"
      BY <1>1, StepFields
    <2> QED
      BY <2>1
  <1>2. CASE SaveLastLogin(r)
    <2>1. call'[r].pc = "done" \/ call'[r].pc = "checkLogin"
      BY <1>2, StepFields
    <2> QED
      BY <2>1
  <1>3. CASE CheckLogin(r)
    <2>1. call'[r].pc = "done" \/ call'[r].pc = "readStreak"
      BY <1>3, StepFields
    <2> QED
      BY <2>1
  <1>4. CASE SaveStreak(r)
    <2>1. call'[r].pc \in {"readTodayXp", "readLevel"}
      BY <1>4, StepFields
    <2> QED
      BY <2>1
  <1>5. CASE ReadTodayXp(r)
    <2>1. call'[r].pc = "readLevel"
      BY <1>5, StepFields
    <2> QED
      BY <2>1
  <1>6. CASE CheckMilestone(r)
    <2>1. call'[r].pc = "readLevel" \/ call'[r].pc = "readUnlocked"
      BY <1>6, StepFields
    <2> QED
      BY <2>1
  <1>7. CASE ReadUnlocked(r)
    <2>1. call'[r].pc = "readStats"
      BY <1>7, StepFields
    <2> QED
      BY <2>1
  <1>8. CASE ReadStats(r)
    <2>1. call'[r].pc = "readStreakNow"
      BY <1>8, StepFields
    <2> QED
      BY <2>1
  <1>9. CASE ReadStreakNow(r)
    <2>1. call'[r].pc = "readLevelNow"
      BY <1>9, StepFields
    <2> QED
      BY <2>1
  <1>10. CASE ReadLevelNow(r)
    <2>1. AtNext(call[r], call'[r], 0)
      BY <1>10, StepFields
    <2> QED
      BY <2>1 DEF AtNext
  <1>11. CASE CheckUnlocked(r)
    <2>1. call'[r].pc = "insertUnlock" \/ call'[r].pc = "readLevel"
      BY <1>11, StepFields
    <2> QED
      BY <2>1
  <1>12. CASE InsertUnlock(r)
    <2>1. call'[r].pc = "readLevel"
      BY <1>12, StepFields
    <2> QED
      BY <2>1
  <1>13. CASE ReadLevel(r)
    <2>1. call'[r].pc = "saveLevel"
      BY <1>13, StepFields
    <2> QED
      BY <1>13, <2>1
  <1>14. CASE SaveLevel(r)
    <2>1. call'[r].pc = "insertLog"
      BY <1>14, StepFields
    <2> QED
      BY <1>14, <2>1
  <1>15. CASE InsertLog(r)
    <2>1. \/ call'[r].pc \in {"checkMilestone", "readUnlocked"}
          \/ AtNext(call[r], call'[r], call[r].conquista)
      BY <1>15, StepFields
    <2> QED
      BY <2>1 DEF AtNext
  <1>16. CASE ReadStreak(r)
    <2>1. call'[r].pc = "saveStreak"
      BY <1>16, StepFields
    <2> QED
      BY <1>16, <2>1
  <1> QED
    BY <1>1, <1>2, <1>3, <1>4, <1>5, <1>6, <1>7, <1>8, <1>9, <1>10, <1>11, <1>12, <1>13, <1>14,
       <1>15, <1>16 DEF Step

LEMMA ExactInvStep ==
  ASSUME MaxInFlight = 1, TypeInv, TypeInv', StreakInv, ExactInv, NEW r \in Requests, Step(r)
  PROVE  ExactInv'
  <1>i. /\ AtMostOne /\ IsFiniteSet(activeDays) /\ (streaks = {} => activeDays = {})
        /\ \A s \in Newest(streaks) : Exact(s)
    BY DEF ExactInv
  <1>a. AtMostOne'
    BY <1>i, AtMostOneNext DEF Next
  <1>o. \A q \in Requests \ {r} : SaveDue(call[q])'
    <2>1. \A q \in Requests \ {r} : call'[q] = call[q] /\ call[q].pc \notin Running
      BY <1>i, OthersWait
    <2> QED
      BY <2>1 DEF SaveDue, Running
  <1>1. CASE SaveStreak(r)
    <2>1. call'[r].pc \in {"readTodayXp", "readLevel"}
      BY <1>1, StepFields
    <2>2. SaveDue(call[r])'
      BY <2>1 DEF SaveDue
    <2>3. \A s \in Newest(streaks') : Exact(s)'
      BY <1>1, SaveStreakExact
    <2>4. IsFiniteSet(activeDays') /\ streaks' # {}
      BY <1>1, SaveStreakExact
    <2>5. (\A s \in Newest(streaks) : Exact(s))'
      BY <2>3 DEF Newest
    <2> QED
      BY <1>a, <1>o, <2>2, <2>4, <2>5 DEF ExactInv
  <1>2. CASE ~ SaveStreak(r)
    <2>1. UNCHANGED <<streaks, activeDays>>
      BY <1>2 DEF Step, ReadLastLogin, SaveLastLogin, CheckLogin, ReadStreak, ReadTodayXp,
                  CheckMilestone, ReadUnlocked, ReadStats, ReadStreakNow, ReadLevelNow,
                  CheckUnlocked, InsertUnlock, ReadLevel, SaveLevel, InsertLog, tables, history
    <2>2. SaveDue(call'[r])
      <3>1. CASE ReadStreak(r)
        BY <3>1, ReadStreakSaveDue
      <3>2. CASE ~ ReadStreak(r)
        <4>1. call'[r].pc # "saveStreak"
          BY <3>2, StepLabels
        <4> QED
          BY <4>1 DEF SaveDue
      <3> QED
        BY <3>1, <3>2
    <2>3. SaveDue(call[r])'
      BY <2>1, <2>2 DEF SaveDue
    <2>4. (\A s \in Newest(streaks) : Exact(s))'
      BY <1>i, <2>1 DEF Exact, Newest
    <2> QED
      BY <1>a, <1>i, <1>o, <2>1, <2>3, <2>4 DEF ExactInv
  <1> QED
    BY <1>1, <1>2

LEMMA ExactInvNext ==
  ASSUME MaxInFlight = 1, TypeInv, TypeInv', StreakInv, ExactInv, [Next]_vars
  PROVE  ExactInv'
  <1>i. /\ AtMostOne /\ IsFiniteSet(activeDays) /\ (streaks = {} => activeDays = {})
        /\ (\A s \in Newest(streaks) : Exact(s)) /\ \A r \in Requests : SaveDue(call[r])
    BY DEF ExactInv
  <1>a. AtMostOne'
    BY <1>i, AtMostOneNext
  <1>1. ASSUME UNCHANGED <<streaks, activeDays>>,
               \A q \in Requests : call'[q] = call[q] \/ call'[q].pc # "saveStreak"
        PROVE  ExactInv'
    <2>1. (\A s \in Newest(streaks) : Exact(s))'
      BY <1>i, <1>1 DEF Exact, Newest
    <2>2. \A q \in Requests : SaveDue(call[q])'
      BY <1>i, <1>1 DEF SaveDue
    <2> QED
      BY <1>a, <1>i, <1>1, <2>1, <2>2 DEF ExactInv
  <1>2. ASSUME NEW r \in Requests, NEW action \in Actions, Start(r, action)
        PROVE  ExactInv'
    <2>1. UNCHANGED <<streaks, activeDays>>
      BY <1>2 DEF Start, tables, history
    <2>2. call'[r].pc = IF action = "DAILY_LOGIN" THEN "readLastLogin" ELSE "readStreak"
      BY <1>2, StartFields
    <2>3. \A q \in Requests \ {r} : call'[q] = call[q]
      BY <1>2, StartFields
    <2> QED
      BY <1>1, <2>1, <2>2, <2>3
  <1>3. ASSUME NEW r \in Requests, Fail(r)
        PROVE  ExactInv'
    <2>1. UNCHANGED <<streaks, activeDays>>
      BY <1>3 DEF Fail, tables, history
    <2>2. call'[r].pc = "done" /\ \A q \in Requests \ {r} : call'[q] = call[q]
      BY <1>3, FailFields
    <2> QED
      BY <1>1, <2>1, <2>2
  <1>4. CASE (\E amount \in TimerXp : LogTimer(amount)) \/ Midnight \/ UNCHANGED vars
    <2>1. UNCHANGED <<call, streaks, activeDays>>
      BY <1>4 DEF LogTimer, Midnight, vars, tables, history
    <2> QED
      BY <1>1, <2>1
  <1>5. ASSUME NEW r \in Requests, Step(r)
        PROVE  ExactInv'
    BY <1>5, ExactInvStep
  <1> QED
    BY <1>2, <1>3, <1>4, <1>5 DEF Next, Quiet

(* When the requests of a user come one at a time, the streak shown is the *)
(* number of consecutive active days up to the last one, also when a day   *)
(* turns between the read of the row and its save, or the save fails.      *)
THEOREM StreakCountsDays == ASSUME MaxInFlight = 1 PROVE Spec => []StreakExact
  <1>1. Init => TypeInv /\ StreakInv /\ ExactInv
    BY TypeInvInit, StreakInvInit, ExactInvInit
  <1>2. TypeInv /\ StreakInv /\ ExactInv /\ [Next]_vars => (TypeInv /\ StreakInv /\ ExactInv)'
    BY TypeInvNext, StreakInvNext, ExactInvNext
  <1>3. TypeInv /\ StreakInv /\ ExactInv => StreakExact
    BY DEF ExactInv, Exact, StreakExact
  <1> QED
    BY <1>1, <1>2, <1>3, PTL DEF Spec

-----------------------------------------------------------------------------
(* The ledger *)

(* The level a request has read is still the one it adds to.               *)
Faithful == \A r \in Requests : At(r, "saveLevel") => call[r].snapshot = userLevel

LedgerInv == OnceInv /\ Faithful

LEMMA LedgerInvInit == Init => LedgerInv
  <1> SUFFICES ASSUME Init
               PROVE  LedgerInv
    OBVIOUS
  <1>1. call = [r \in Requests |-> Idle] /\ Idle.pc = "idle"
    BY DEF Init, Idle
  <1>2. Faithful
    BY <1>1 DEF Faithful, At
  <1> QED
    BY <1>2, OnceInvInit DEF LedgerInv

LEMMA FaithfulStep ==
  ASSUME TypeInv, TypeInv', AtMostOne, Faithful, NEW r \in Requests, Step(r)
  PROVE  Faithful'
  <1>1. \A q \in Requests \ {r} : ~ At(q, "saveLevel")'
    BY OthersWait DEF At, Running
  <1>2. CASE ReadLevel(r)
    <2>1. call'[r].snapshot = userLevel
      BY <1>2, StepFields
    <2>2. userLevel' = userLevel
      BY <1>2 DEF ReadLevel, tables
    <2> QED
      BY <1>1, <2>1, <2>2 DEF Faithful
  <1>3. CASE ~ ReadLevel(r)
    <2>1. ~ At(r, "saveLevel")'
      BY <1>3, StepLabels DEF At
    <2> QED
      BY <1>1, <2>1 DEF Faithful
  <1> QED
    BY <1>2, <1>3

LEMMA LedgerInvNext ==
  ASSUME MaxInFlight = 1, TypeInv, TypeInv', LedgerInv, [Next]_vars
  PROVE  LedgerInv'
  <1>i. OnceInv /\ AtMostOne /\ Faithful
    BY DEF LedgerInv, OnceInv
  <1>a. OnceInv'
    BY <1>i, OnceInvNext
  <1>1. ASSUME userLevel' = userLevel,
               \A q \in Requests : call'[q] = call[q] \/ call'[q].pc # "saveLevel"
        PROVE  LedgerInv'
    BY <1>i, <1>a, <1>1 DEF LedgerInv, Faithful, At
  <1>2. ASSUME NEW r \in Requests, NEW action \in Actions, Start(r, action)
        PROVE  LedgerInv'
    <2>1. userLevel' = userLevel
      BY <1>2 DEF Start, tables
    <2>2. call'[r].pc = IF action = "DAILY_LOGIN" THEN "readLastLogin" ELSE "readStreak"
      BY <1>2, StartFields
    <2>3. \A q \in Requests \ {r} : call'[q] = call[q]
      BY <1>2, StartFields
    <2> QED
      BY <1>1, <2>1, <2>2, <2>3
  <1>3. ASSUME NEW r \in Requests, Fail(r)
        PROVE  LedgerInv'
    <2>1. userLevel' = userLevel
      BY <1>3 DEF Fail, tables
    <2>2. call'[r].pc = "done" /\ \A q \in Requests \ {r} : call'[q] = call[q]
      BY <1>3, FailFields
    <2> QED
      BY <1>1, <2>1, <2>2
  <1>4. CASE (\E amount \in TimerXp : LogTimer(amount)) \/ Midnight \/ UNCHANGED vars
    <2>1. UNCHANGED <<call, userLevel>>
      BY <1>4 DEF LogTimer, Midnight, vars, tables
    <2> QED
      BY <1>1, <2>1
  <1>5. ASSUME NEW r \in Requests, Step(r)
        PROVE  LedgerInv'
    BY <1>5, <1>i, <1>a, FaithfulStep DEF LedgerInv
  <1> QED
    BY <1>2, <1>3, <1>4, <1>5 DEF Next, Quiet

(* What the ledger's balance and rows of a day are in the code's state.    *)
Balance == IF InInsertLog = {} THEN userLevel
           ELSE userLevel - call[CHOOSE r \in InInsertLog : TRUE].amount
EntriesOf(rows) == [k \in {"login", "milestone", "bonus"} |-> rows[k]]
EntriesOn == [d \in Days |-> [k \in {"login", "milestone", "bonus"} |-> xpOn[d][k]]]

LEMMA EntriesOnDay ==
  /\ \A d \in Days : EntriesOn[d] = EntriesOf(xpOn[d])
  /\ EntriesOn = [d \in Days |-> EntriesOf(xpOn[d])]
  BY DEF EntriesOn, EntriesOf

LEMMA ChosenOne ==
  ASSUME NEW S, NEW r, S = {r}
  PROVE  (CHOOSE q \in S : TRUE) = r
  OBVIOUS

LEMMA LedgerStarts == Init => Ledger!Init
  <1> SUFFICES ASSUME NEW h \in Histories, Init, userLevel = h.total, xpSum = h.total
               PROVE  Ledger!Init
    BY DEF Init
  <1>1. /\ today = 0 /\ failures = 0 /\ timerXp = 0 /\ call = [r \in Requests |-> Idle]
        /\ xpOn = [d \in Days |-> NoXp]
    BY DEF Init
  <1>2. InInsertLog = {}
    BY <1>1 DEF InInsertLog, At, Idle
  <1>3. Balance = h.total
    BY <1>2 DEF Balance
  <1>4. EntriesOn = [d \in Days |-> [k \in Ledger!Kinds |-> 0]]
    <2>1. \A d \in Days : xpOn[d].login = 0 /\ xpOn[d].milestone = 0 /\ xpOn[d].bonus = 0
      BY <1>1 DEF NoXp
    <2>2. \A d \in Days : [k \in {"login", "milestone", "bonus"} |-> xpOn[d][k]]
                              = [k \in {"login", "milestone", "bonus"} |-> 0]
      BY <2>1
    <2> QED
      BY <2>2 DEF EntriesOn, Ledger!Kinds
  <1>5. xpSum - timerXp = h.total
    BY <1>1, HistoriesAssumption DEF HistoriesAssumption
  <1> QED
    BY <1>1, <1>3, <1>4, <1>5 DEF Ledger!Init, Balance, EntriesOn

(* A step after which every request that is to insert a log row is as it   *)
(* was.                                                                    *)
LEMMA BalanceStays ==
  ASSUME userLevel' = userLevel, InInsertLog' = InInsertLog,
         \A q \in InInsertLog : call'[q] = call[q]
  PROVE  Balance' = Balance
  <1>1. CASE InInsertLog = {}
    BY <1>1 DEF Balance
  <1>2. CASE InInsertLog # {}
    <2>1. PICK q : q = CHOOSE r \in InInsertLog : TRUE
      OBVIOUS
    <2>2. q \in InInsertLog
      BY <1>2, <2>1
    <2>3. q = CHOOSE r \in InInsertLog' : TRUE
      BY <2>1
    <2> QED
      BY <1>2, <2>1, <2>2, <2>3 DEF Balance
  <1> QED
    BY <1>1, <1>2

LEMMA NotAtLogStays ==
  ASSUME NEW r \in Requests, \A q \in Requests \ {r} : call'[q] = call[q],
         ~ At(r, "insertLog"), ~ At(r, "insertLog")', userLevel' = userLevel
  PROVE  Balance' = Balance
  <1>1. InInsertLog' = InInsertLog /\ \A q \in InInsertLog : call'[q] = call[q]
    BY DEF InInsertLog, At
  <1> QED
    BY <1>1, BalanceStays

(* The log row is the award: it was not given that day.                    *)
LEMMA LogIsAward ==
  ASSUME TypeInv, TypeInv', LedgerInv, NEW r \in Requests, InsertLog(r)
  PROVE  \E kinds \in SUBSET Ledger!Kinds : Ledger!Award(kinds)
  <1>p. PICK c : c = call[r]
    OBVIOUS
  <1>s. Step(r)
    BY DEF Step
  <1>c. c \in Locals /\ Once(c) /\ c.pc = "insertLog" /\ AtMostOne /\ c.amount \in Nat
    BY <1>p DEF TypeInv, TypeOK, LedgerInv, OnceInv, InsertLog, At, Locals
  <1>1. /\ xpSum' = xpSum + c.amount
        /\ xpOn' = [xpOn EXCEPT ![today] = LogRow(xpOn[today], c)]
        /\ UNCHANGED <<today, userLevel, timerXp, failures>>
    BY <1>p DEF InsertLog
  <1>t. /\ userLevel \in Nat /\ xpSum \in Nat /\ timerXp \in Nat /\ today \in Days
        /\ DOMAIN xpOn = Days
    BY DEF TypeInv, TypeOK
  <1>2. \A q \in Requests \ {r} : call'[q] = call[q] /\ call[q].pc \notin Running
    BY <1>c, <1>s, OthersWait
  <1>3. InInsertLog = {r}
    BY <1>p, <1>c, <1>2 DEF InInsertLog, At, Running
  <1>4. InInsertLog' = {}
    <2>1. ~ At(r, "insertLog")'
      <3>1. ~ SaveLevel(r)
        BY <1>p, <1>c DEF SaveLevel, At
      <3> QED
        BY <1>s, <3>1, StepLabels DEF At
    <2> QED
      BY <1>2, <2>1 DEF InInsertLog, At, Running
  <1>5. Balance = userLevel - c.amount
    <2>1. (CHOOSE q \in InInsertLog : TRUE) = r
      BY <1>3, ChosenOne
    <2> QED
      BY <1>p, <1>3, <2>1 DEF Balance
  <1>6. Balance' = userLevel
    BY <1>1, <1>4 DEF Balance
  <1> DEFINE kinds == {k \in {"login", "milestone", "bonus"} :
                          \/ k = "login" /\ c.source = "DAILY_LOGIN"
                          \/ k = "milestone" /\ c.source = "STREAK_MILESTONE"
                          \/ k = "bonus" /\ c.bonus}
  <1>7. /\ c.source = "DAILY_LOGIN" => xpOn[today].login = 0
        /\ c.source = "STREAK_MILESTONE" => xpOn[today].milestone = 0
        /\ c.bonus => xpOn[today].bonus = 0
    BY <1>c DEF Once, LoginDue, Granting
  <1>8. \A k \in kinds : EntriesOn[today][k] = 0
    BY <1>t, <1>7, XpOnIsDays, EntriesOnDay DEF EntriesOf
  <1>9. EntriesOn' = [EntriesOn EXCEPT ![today] = Ledger!Entered(@, kinds)]
    <2>1. /\ xpOn'[today].login = xpOn[today].login + IF c.source = "DAILY_LOGIN" THEN 1 ELSE 0
          /\ xpOn'[today].milestone
                = xpOn[today].milestone + IF c.source = "STREAK_MILESTONE" THEN 1 ELSE 0
          /\ xpOn'[today].bonus = xpOn[today].bonus + IF c.bonus THEN 1 ELSE 0
      BY <1>1, <1>t DEF LogRow
    <2>2. \A d \in Days \ {today} : xpOn'[d] = xpOn[d]
      BY <1>1, <1>t
    <2>3. EntriesOf(xpOn'[today]) = Ledger!Entered(EntriesOf(xpOn[today]), kinds)
      <3>1. /\ xpOn[today].login \in Nat /\ xpOn[today].milestone \in Nat
            /\ xpOn[today].bonus \in Nat
        BY XpOnIsDays
      <3>2. \A k \in {"login", "milestone", "bonus"} :
               xpOn'[today][k] = IF k \in kinds THEN xpOn[today][k] + 1 ELSE xpOn[today][k]
        BY <2>1, <3>1
      <3> HIDE DEF kinds
      <3> QED
        BY <3>2 DEF EntriesOf, Ledger!Entered, Ledger!Kinds
    <2>4. \A d \in Days : EntriesOf(xpOn'[d]) =
                             IF d = today THEN Ledger!Entered(EntriesOf(xpOn[d]), kinds)
                             ELSE EntriesOf(xpOn[d])
      BY <2>2, <2>3
    <2>5. EntriesOn' = [d \in Days |-> EntriesOf(xpOn'[d])]
      BY DEF EntriesOn, EntriesOf
    <2> HIDE DEF kinds
    <2> QED
      BY <1>t, <2>4, <2>5, EntriesOnDay
  <1>10. /\ xpSum' - timerXp' >= xpSum - timerXp
         /\ Balance' - Balance = (xpSum' - timerXp') - (xpSum - timerXp)
    BY <1>1, <1>5, <1>6, <1>c, <1>t
  <1>11. kinds \in SUBSET Ledger!Kinds
    BY DEF Ledger!Kinds
  <1> HIDE DEF kinds
  <1>12. Ledger!Award(kinds)
    BY <1>1, <1>8, <1>9, <1>10 DEF Ledger!Award, Balance, EntriesOn
  <1> QED
    BY <1>11, <1>12

(* A step the ledger does not see.                                         *)
LEMMA LedgerStutters ==
  ASSUME UNCHANGED <<today, failures>>, xpSum' - timerXp' = xpSum - timerXp,
         Balance' = Balance, EntriesOn' = EntriesOn
  PROVE  UNCHANGED Ledger!vars
  BY DEF Ledger!vars, Balance, EntriesOn

LEMMA LedgerStep ==
  ASSUME MaxInFlight = 1, TypeInv, TypeInv', LedgerInv, NEW r \in Requests, Step(r)
  PROVE  [Ledger!Next]_Ledger!vars
  <1>i. AtMostOne /\ Faithful
    BY DEF LedgerInv, OnceInv
  <1>o. \A q \in Requests \ {r} : call'[q] = call[q] /\ call[q].pc \notin Running
    BY <1>i, OthersWait
  <1>t. /\ userLevel \in Nat /\ call[r] \in Locals
    BY DEF TypeInv, TypeOK
  <1>1. CASE InsertLog(r)
    BY <1>1, LogIsAward DEF Ledger!Next
  <1>2. CASE SaveLevel(r)
    <2>1. At(r, "saveLevel") /\ userLevel' = call[r].snapshot + call[r].amount
      BY <1>2 DEF SaveLevel
    <2>2. call[r].snapshot = userLevel /\ call[r].amount \in Nat
      BY <1>i, <1>t, <2>1 DEF Faithful, Locals
    <2>3. InInsertLog = {}
      BY <1>o, <2>1 DEF InInsertLog, At, Running
    <2>4. call'[r].pc = "insertLog" /\ call'[r].amount = call[r].amount
      <3>1. call'[r].pc = "insertLog" /\ SameGrant(call[r], call'[r])
        BY <1>2, StepFields
      <3> QED
        BY <3>1 DEF SameGrant
    <2>5. InInsertLog' = {r}
      BY <1>o, <2>4 DEF InInsertLog, At, Running
    <2>6. (CHOOSE q \in InInsertLog' : TRUE) = r
      BY <2>5, ChosenOne
    <2>7. Balance' = userLevel' - call[r].amount
      BY <2>4, <2>5, <2>6 DEF Balance
    <2>8. Balance' = Balance
      BY <1>t, <2>1, <2>2, <2>3, <2>7 DEF Balance
    <2>9. UNCHANGED <<today, failures, xpSum, timerXp, xpOn>>
      BY <1>2 DEF SaveLevel
    <2>10. EntriesOn' = EntriesOn
      BY <2>9 DEF EntriesOn
    <2> QED
      BY <2>8, <2>9, <2>10, LedgerStutters
  <1>3. CASE ~ InsertLog(r) /\ ~ SaveLevel(r)
    <2>1. UNCHANGED <<today, failures, xpSum, timerXp, xpOn, userLevel>>
      BY <1>3 DEF Step, ReadLastLogin, SaveLastLogin, CheckLogin, ReadStreak, SaveStreak,
                  ReadTodayXp, CheckMilestone, ReadUnlocked, ReadStats, ReadStreakNow,
                  ReadLevelNow, CheckUnlocked, InsertUnlock, ReadLevel, tables, history
    <2>2. ~ At(r, "insertLog")
      BY <1>3 DEF Step, ReadLastLogin, SaveLastLogin, CheckLogin, ReadStreak, SaveStreak,
                  ReadTodayXp, CheckMilestone, ReadUnlocked, ReadStats, ReadStreakNow,
                  ReadLevelNow, CheckUnlocked, InsertUnlock, ReadLevel, At
    <2>3. ~ At(r, "insertLog")'
      BY <1>3, StepLabels DEF At
    <2>4. Balance' = Balance
      BY <1>o, <2>1, <2>2, <2>3, NotAtLogStays
    <2>5. EntriesOn' = EntriesOn
      BY <2>1 DEF EntriesOn
    <2> QED
      BY <2>1, <2>4, <2>5, LedgerStutters
  <1> QED
    BY <1>1, <1>2, <1>3

LEMMA LedgerFail ==
  ASSUME TypeInv, LedgerInv, NEW r \in Requests, Fail(r)
  PROVE  [Ledger!Next]_Ledger!vars
  <1>1. /\ failures' = failures + 1 /\ UNCHANGED <<today, xpSum, timerXp, xpOn, userLevel>>
        /\ r \in InFlight
    BY DEF Fail, tables, history
  <1>2. call'[r].pc = "done" /\ \A q \in Requests \ {r} : call'[q] = call[q]
    BY FailFields
  <1>3. \A q \in Requests \ {r} : call[q].pc \notin Running
    BY <1>1 DEF LedgerInv, OnceInv, AtMostOne, InFlight
  <1>t. userLevel \in Nat /\ call[r].amount \in Nat
    BY DEF TypeInv, TypeOK, Locals
  <1>4. InInsertLog' = {}
    BY <1>2, <1>3 DEF InInsertLog, At, Running
  <1>5. Balance' = userLevel
    BY <1>1, <1>4 DEF Balance
  <1>6. Balance \in Int /\ Balance <= userLevel
    <2>1. CASE At(r, "insertLog")
      <3>1. InInsertLog = {r}
        BY <1>3, <2>1 DEF InInsertLog, At, Running
      <3>2. (CHOOSE q \in InInsertLog : TRUE) = r
        BY <3>1, ChosenOne
      <3>3. Balance = userLevel - call[r].amount
        BY <3>1, <3>2 DEF Balance
      <3> QED
        BY <1>t, <3>3
    <2>2. CASE ~ At(r, "insertLog")
      <3>1. InInsertLog = {}
        BY <1>3, <2>2 DEF InInsertLog, At, Running
      <3> QED
        BY <1>t, <3>1 DEF Balance
    <2> QED
      BY <2>1, <2>2
  <1>7. EntriesOn' = EntriesOn
    BY <1>1 DEF EntriesOn
  <1>8. Balance' >= Balance
    BY <1>t, <1>5, <1>6
  <1>9. Ledger!Crash
    BY <1>1, <1>7, <1>8 DEF Ledger!Crash, Balance, EntriesOn
  <1> QED
    BY <1>9 DEF Ledger!Next

LEMMA LedgerTimer ==
  ASSUME TypeInv, NEW amount \in TimerXp, LogTimer(amount)
  PROVE  [Ledger!Next]_Ledger!vars
  <1>1. /\ timerXp' = timerXp + amount /\ xpSum' = xpSum + amount
        /\ xpOn' = [xpOn EXCEPT ![today].xp = @ + amount]
        /\ UNCHANGED <<today, failures, call, userLevel>>
    BY DEF LogTimer
  <1>t. /\ timerXp \in Nat /\ xpSum \in Nat
        /\ xpOn \in [Days -> [xp : Nat, login : Nat, milestone : Nat, bonus : Nat]]
    BY DEF TypeInv, TypeOK
  <1>a. amount \in Nat
    BY BoundsAssumption DEF BoundsAssumption
  <1>2. \A d \in Days : /\ xpOn'[d].login = xpOn[d].login
                        /\ xpOn'[d].milestone = xpOn[d].milestone
                        /\ xpOn'[d].bonus = xpOn[d].bonus
    BY <1>1, <1>t, XpOnIsDays
  <1>3. \A d \in Days : EntriesOf(xpOn'[d]) = EntriesOf(xpOn[d])
    BY <1>2 DEF EntriesOf
  <1>4. EntriesOn' = [d \in Days |-> EntriesOf(xpOn'[d])]
    BY DEF EntriesOn, EntriesOf
  <1>5. EntriesOn' = EntriesOn
    BY <1>3, <1>4, EntriesOnDay
  <1>6. Balance' = Balance
    BY <1>1, BalanceStays DEF InInsertLog, At
  <1>7. xpSum' - timerXp' = xpSum - timerXp
    BY <1>1, <1>t, <1>a
  <1> QED
    BY <1>1, <1>5, <1>6, <1>7, LedgerStutters

LEMMA LedgerNext ==
  ASSUME MaxInFlight = 1, TypeInv, TypeInv', LedgerInv, [Next]_vars
  PROVE  [Ledger!Next]_Ledger!vars
  <1>1. ASSUME NEW r \in Requests, NEW action \in Actions, Start(r, action)
        PROVE  [Ledger!Next]_Ledger!vars
    <2>1. UNCHANGED <<today, failures, xpSum, timerXp, xpOn, userLevel>>
      BY <1>1 DEF Start, tables, history
    <2>2. call[r].pc = "idle"
      BY <1>1, StartFields
    <2>3. call'[r].pc = IF action = "DAILY_LOGIN" THEN "readLastLogin" ELSE "readStreak"
      BY <1>1, StartFields
    <2>4. \A q \in Requests \ {r} : call'[q] = call[q]
      BY <1>1, StartFields
    <2>5. ~ At(r, "insertLog") /\ ~ At(r, "insertLog")'
      BY <2>2, <2>3 DEF At
    <2>6. Balance' = Balance
      BY <2>1, <2>4, <2>5, NotAtLogStays
    <2>7. EntriesOn' = EntriesOn
      BY <2>1 DEF EntriesOn
    <2> QED
      BY <2>1, <2>6, <2>7, LedgerStutters
  <1>2. ASSUME NEW r \in Requests, Step(r)
        PROVE  [Ledger!Next]_Ledger!vars
    BY <1>2, LedgerStep
  <1>3. ASSUME NEW r \in Requests, Fail(r)
        PROVE  [Ledger!Next]_Ledger!vars
    BY <1>3, LedgerFail
  <1>4. ASSUME NEW amount \in TimerXp, LogTimer(amount)
        PROVE  [Ledger!Next]_Ledger!vars
    BY <1>4, LedgerTimer
  <1>5. CASE Midnight
    <2>1. today' = today + 1 /\ UNCHANGED <<failures, xpSum, timerXp, xpOn, userLevel, call>>
      BY <1>5 DEF Midnight, tables, history
    <2>2. today + 1 \in Days
      BY <1>5, <2>1 DEF TypeInv, TypeOK
    <2>3. Balance' = Balance
      BY <2>1, BalanceStays DEF InInsertLog, At
    <2>4. EntriesOn' = EntriesOn
      BY <2>1 DEF EntriesOn
    <2>5. xpSum' - timerXp' = xpSum - timerXp
      BY <2>1
    <2>6. Ledger!NextDay
      BY <2>1, <2>2, <2>3, <2>4, <2>5 DEF Ledger!NextDay, Balance, EntriesOn
    <2> QED
      BY <2>6 DEF Ledger!Next
  <1>6. CASE UNCHANGED vars
    <2>1. UNCHANGED <<today, failures, xpSum, timerXp, xpOn, userLevel, call>>
      BY <1>6 DEF vars, tables, history
    <2>2. Balance' = Balance
      BY <2>1, BalanceStays DEF InInsertLog, At
    <2>3. EntriesOn' = EntriesOn
      BY <2>1 DEF EntriesOn
    <2> QED
      BY <2>1, <2>2, <2>3, LedgerStutters
  <1> QED
    BY <1>1, <1>2, <1>3, <1>4, <1>5, <1>6 DEF Next, Quiet

(* When the requests of a user come one at a time, processAction and addXp *)
(* implement the ledger: the level row and the log are one account, in     *)
(* which no award of a day is entered twice and only an error loses a row. *)
THEOREM GrantsImplementLedger == ASSUME MaxInFlight = 1 PROVE Spec => ImplementsLedger
  <1>1. Init => TypeInv /\ LedgerInv
    BY TypeInvInit, LedgerInvInit
  <1>2. TypeInv /\ LedgerInv /\ [Next]_vars => (TypeInv /\ LedgerInv)'
    BY TypeInvNext, LedgerInvNext
  <1>3. TypeInv /\ TypeInv' /\ LedgerInv /\ [Next]_vars => [Ledger!Next]_Ledger!vars
    BY LedgerNext
  <1> QED
    BY <1>1, <1>2, <1>3, LedgerStarts, PTL DEF Spec, ImplementsLedger, Ledger!Spec

=============================================================================
