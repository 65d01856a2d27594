------------------------------ MODULE UserLevel ------------------------------
(***************************************************************************)
(* The arithmetic of one row of the table user_levels.                     *)
(*                                                                         *)
(* Two pieces of code add XP to a row: the entity's method addXp (through  *)
(* UserLevelRepository) and the stored procedure sp_completar_tarefa.      *)
(* Both add the amount and then loop, one level per iteration, while the   *)
(* XP in hand pays for the next level; they differ in how the price of the *)
(* next level is computed: the entity evaluates a closed formula on the    *)
(* level, the procedure multiplies the stored price by 1.5 and floors.     *)
(* The loop is spelled out one iteration per step.  No other code sees the *)
(* row between two iterations; how whole additions interleave is the       *)
(* subject of module Gamification.                                         *)
(***************************************************************************)
EXTENDS Integers

CONSTANTS
    EntityAmounts,      \* amounts GamificationService passes to addXp
    ProcedureAmounts,   \* amounts of sp_completar_tarefa (by priority)
    MaxTotal,           \* bound: no addition takes total_xp_earned past this
    MaxLevel            \* bound: levels considered, never reached under MaxTotal

ASSUME AmountsAssumption ==
    /\ EntityAmounts \subseteq Nat
    /\ ProcedureAmounts \subseteq Nat
    /\ MaxTotal \in Nat
    /\ MaxLevel \in Nat \ {0}

VARIABLES
    pc,             \* "idle", or the writer whose loop is running
    level,
    currentXp,
    nextLevelXp,
    totalXpEarned,
    spent,          \* history: XP paid for level-ups so far
    procedureWrote  \* history: sp_completar_tarefa has written this row

vars == <<pc, level, currentXp, nextLevelXp, totalXpEarned, spent, procedureWrote>>

Writers == {"entity", "procedure"}

-----------------------------------------------------------------------------
(* Mutant: the price of the level just left, not of the level reached.     *)
PriceOfPreviousLevel(l) ==
    IF l > 1 THEN (100 * 3 ^ (l - 2)) \div (2 ^ (l - 2)) ELSE 100

(* floor(100 * 1.5^(level - 1)), in integers.  The check of MaxTotal keeps *)
(* levels small, where the double arithmetic of the code is exact.         *)
calculateNextLevelXP(l) == (100 * 3 ^ (l - 1)) \div (2 ^ (l - 1))

(* GamificacaoDomainService.xpForLevel states the same formula again.      *)
xpForLevel(l) == (100 * 3 ^ (l - 1)) \div (2 ^ (l - 1))

(* The XP that reaching level l takes from nothing: the loop variable      *)
(* `accumulated` of levelFromXp when it considers level l.                 *)
Accumulated[l \in 1 .. MaxLevel] ==
    IF l = 1 THEN 0 ELSE Accumulated[l - 1] + xpForLevel(l - 1)

(* The reference: the first level whose price the total does not cover.    *)
levelFromXp(total) ==
    CHOOSE l \in 1 .. MaxLevel :
        /\ Accumulated[l] + xpForLevel(l) > total
        /\ \A k \in 1 .. (l - 1) : Accumulated[k] + xpForLevel(k) <= total

(* v_novo_prox := FLOOR(v_novo_prox * 1.5)                                 *)
ProcedureNextXp(next) == (next * 3) \div 2

(* The powers are out of a proof's reach; TLC evaluates them.  Flooring at *)
(* each level loses no less than flooring once.                            *)
ASSUME PricesAssumption ==
    /\ \A l \in 1 .. MaxLevel : calculateNextLevelXP(l) \in Nat
    /\ \A l \in 1 .. MaxLevel : ProcedureNextXp(xpForLevel(l)) <= xpForLevel(l + 1)

-----------------------------------------------------------------------------
(* A user row as registration and the entity's constructor create it.      *)
Init ==
    /\ pc = "idle"
    /\ level = 1
    /\ currentXp = 0
    /\ nextLevelXp = 100
    /\ totalXpEarned = 0
    /\ spent = 0
    /\ procedureWrote = FALSE

AmountsOf(w) == IF w = "entity" THEN EntityAmounts ELSE ProcedureAmounts

(* Mutant: the XP in hand starts again from the amount.                    *)
AddForgetsHand(w, amount) ==
    /\ pc = "idle"
    /\ totalXpEarned + amount <= MaxTotal
    /\ pc' = w
    /\ currentXp' = amount
    /\ totalXpEarned' = totalXpEarned + amount
    /\ procedureWrote' = (procedureWrote \/ w = "procedure")
    /\ UNCHANGED <<level, nextLevelXp, spent>>

(* The first statements of an addition: both counters grow by the amount.  *)
Add(w, amount) ==
    /\ pc = "idle"
    /\ totalXpEarned + amount <= MaxTotal
    /\ pc' = w
    /\ currentXp' = currentXp + amount
    /\ totalXpEarned' = totalXpEarned + amount
    /\ procedureWrote' = (procedureWrote \/ w = "procedure")
    /\ UNCHANGED <<level, nextLevelXp, spent>>

NextPrice(w, l, next) ==
    IF w = "entity" THEN calculateNextLevelXP(l) ELSE ProcedureNextXp(next)

(* Mutant: the price paid is that of the level after the one reached.      *)
LevelUpAtNewPrice ==
    /\ pc \in Writers
    /\ currentXp >= nextLevelXp
    /\ level < MaxLevel
    /\ level' = level + 1
    /\ nextLevelXp' = NextPrice(pc, level + 1, nextLevelXp)
    /\ currentXp' = currentXp - nextLevelXp'
    /\ spent' = spent + nextLevelXp'
    /\ UNCHANGED <<pc, totalXpEarned, procedureWrote>>

(* One iteration of the while loop.                                        *)
LevelUp ==
    /\ pc \in Writers
    /\ currentXp >= nextLevelXp
    /\ level < MaxLevel
    /\ currentXp' = currentXp - nextLevelXp
    /\ level' = level + 1
    /\ nextLevelXp' = NextPrice(pc, level + 1, nextLevelXp)
    /\ spent' = spent + nextLevelXp
    /\ UNCHANGED <<pc, totalXpEarned, procedureWrote>>

(* Mutant: the loop is an `if`, one level at most per addition.            *)
SettleAfterOneLevel ==
    /\ pc \in Writers
    /\ pc' = "idle"
    /\ UNCHANGED <<level, currentXp, nextLevelXp, totalXpEarned, spent, procedureWrote>>

(* The loop ends and the row is written back.                              *)
Settle ==
    /\ pc \in Writers
    /\ currentXp < nextLevelXp
    /\ pc' = "idle"
    /\ UNCHANGED <<level, currentXp, nextLevelXp, totalXpEarned, spent, procedureWrote>>

(* No addition fits under the bound any more.                              *)
Quiet ==
    /\ pc = "idle"
    /\ \A w \in Writers : \A a \in AmountsOf(w) : totalXpEarned + a > MaxTotal
    /\ UNCHANGED vars

Next ==
    \/ \E w \in Writers : \E amount \in AmountsOf(w) : Add(w, amount)
    \/ LevelUp
    \/ Settle
    \/ Quiet

Spec == Init /\ [][Next]_vars

-----------------------------------------------------------------------------
TypeOK ==
    /\ pc \in Writers \cup {"idle"}
    /\ level \in 1 .. MaxLevel
    /\ currentXp \in Nat
    /\ nextLevelXp \in Nat
    /\ totalXpEarned \in Nat
    /\ spent \in Nat
    /\ procedureWrote \in BOOLEAN

(* Levelling up neither creates nor destroys XP: at every point of every   *)
(* loop, of either writer, what was paid for levels plus what is in hand   *)
(* is the total the leaderboard ranks by.                                  *)
ConservesXp == totalXpEarned = spent + currentXp

(* A row only the entity has written agrees with the domain service's      *)
(* levelFromXp, in the level and in the XP left over.                      *)
EntityAgreesWithReference ==
    (pc = "idle" /\ ~procedureWrote) =>
        /\ level = levelFromXp(totalXpEarned)
        /\ currentXp = totalXpEarned - Accumulated[level]
        /\ nextLevelXp = xpForLevel(level)

(* Whoever wrote the row, the price of the next level is never above the   *)
(* formula's, so that the level is never below the one the total deserves. *)
LevelNeverBelowReference ==
    pc = "idle" =>
        /\ nextLevelXp <= xpForLevel(level)
        /\ level >= levelFromXp(totalXpEarned)

=============================================================================
