--------------------------- MODULE MCGamification ---------------------------
(***************************************************************************)
(* Small instances of Gamification.  A conquista of each type, within the  *)
(* reach of a few requests: the fourth log row, a streak of three days and *)
(* level 2, which takes 100 XP.                                            *)
(***************************************************************************)
EXTENDS Gamification, TLC

MCConquistas ==
    <<[type |-> "count", target |-> 4, xp |-> 10],
      [type |-> "streak", target |-> 3, xp |-> 30],
      [type |-> "level", target |-> 2, xp |-> 40]>>

(* One of them where requests interleave.                                  *)
MCStreakConquista == <<MCConquistas[2]>>

(* The prices of UserLevel: 100 for level 2, 150 more for level 3.         *)
MCXpToReach == <<0, 100, 250>>

(* A user who has just registered.                                         *)
Fresh == [streaks |-> {}, total |-> 0, count |-> 0, activeDays |-> {}]

(* A user who registered on day -4 and logged in on that day and on the    *)
(* last two before day 0.                                                  *)
Veteran ==
    [streaks |-> {[created |-> 1, current |-> 2, max |-> 2, last |-> -1]},
     total |-> 60, count |-> 3, activeDays |-> {-4, -2, -1}]

MCHistories == {Fresh, Veteran}

MCActions == {"DAILY_LOGIN", "COMPLETE_TAREFA"}

Interchangeable == Permutations(Requests)

=============================================================================
