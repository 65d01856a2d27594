-------------------------- MODULE UserLevel_proofs --------------------------
(***************************************************************************)
(* What holds of a user_levels row for all amounts, bounds and prices.     *)
(*                                                                         *)
(* The type invariant is inductive: the guard of the loop keeps the XP in  *)
(* hand a natural number.  Conservation is inductive on top of it.         *)
(*                                                                         *)
(* What the row has to do with the reference, levelFromXp, is a matter of  *)
(* the sum of the prices so far.  That the recursive function Accumulated  *)
(* is that sum is an induction, which is made here on the least number for *)
(* which a claim fails.                                                    *)
(***************************************************************************)
EXTENDS UserLevel, WellFoundedInduction, TLAPS

(* The amount of an addition is a natural number, whoever makes it.        *)
LEMMA AmountsAreNat == \A w \in Writers : AmountsOf(w) \subseteq Nat
  BY AmountsAssumption DEF AmountsOf

(* A price is a natural number, whoever computes it.                       *)
LEMMA PricesAreNat ==
  ASSUME NEW w \in Writers, NEW l \in 1 .. MaxLevel, NEW next \in Nat
  PROVE  NextPrice(w, l, next) \in Nat
  <1>1. calculateNextLevelXP(l) \in Nat
    BY PricesAssumption
  <1>2. ProcedureNextXp(next) \in Nat
    BY DEF ProcedureNextXp
  <1> QED
    BY <1>1, <1>2 DEF NextPrice

(* Every counter of the row stays a natural number and the level positive, *)
(* through every iteration of either writer's loop.                        *)
THEOREM TypeCorrect == Spec => []TypeOK
  <1>1. Init => TypeOK
    <2> SUFFICES ASSUME Init
                 PROVE  TypeOK
      OBVIOUS
    <2>1. level \in 1 .. MaxLevel
      BY AmountsAssumption DEF Init
    <2>2. procedureWrote \in BOOLEAN
      BY DEF Init
    <2> QED
      BY <2>1, <2>2 DEF Init, TypeOK
  <1>2. TypeOK /\ [Next]_vars => TypeOK'
    <2> SUFFICES ASSUME TypeOK, [Next]_vars
                 PROVE  TypeOK'
      OBVIOUS
    <2>1. ASSUME NEW w \in Writers, NEW amount \in AmountsOf(w), Add(w, amount)
          PROVE  TypeOK'
      <3>1. amount \in Nat
        BY AmountsAreNat
      <3> QED
        BY <2>1, <3>1 DEF Add, TypeOK
    <2>2. CASE LevelUp
      <3>1. level + 1 \in 1 .. MaxLevel
        BY <2>2, AmountsAssumption DEF LevelUp, TypeOK
      <3>2. nextLevelXp' \in Nat
        BY <2>2, <3>1, PricesAreNat DEF LevelUp, TypeOK
      <3>3. currentXp' \in Nat /\ spent' \in Nat
        BY <2>2 DEF LevelUp, TypeOK
      <3> QED
        BY <2>2, <3>1, <3>2, <3>3 DEF LevelUp, TypeOK
    <2>3. CASE Settle
      BY <2>3 DEF Settle, TypeOK
    <2>4. CASE UNCHANGED vars
      BY <2>4 DEF TypeOK, vars
    <2> QED
      BY <2>1, <2>2, <2>3, <2>4 DEF Next, Quiet
  <1> QED
    BY <1>1, <1>2, PTL DEF Spec

(* The XP paid for levels and the XP in hand always add up to the total,   *)
(* for any amounts and any prices.                                         *)
THEOREM XpConserved == Spec => []ConservesXp
  <1>1. Init => ConservesXp
    BY DEF Init, ConservesXp
  <1>2. TypeOK /\ ConservesXp /\ [Next]_vars => ConservesXp'
    <2> SUFFICES ASSUME TypeOK, ConservesXp, [Next]_vars
                 PROVE  ConservesXp'
      OBVIOUS
    <2>1. ASSUME NEW w \in Writers, NEW amount \in AmountsOf(w), Add(w, amount)
          PROVE  ConservesXp'
      <3>1. amount \in Nat
        BY AmountsAreNat
      <3> QED
        BY <2>1, <3>1 DEF Add, TypeOK, ConservesXp
    <2>2. CASE LevelUp
      BY <2>2 DEF LevelUp, TypeOK, ConservesXp
    <2>3. CASE Settle
      BY <2>3 DEF Settle, ConservesXp
    <2>4. CASE UNCHANGED vars
      BY <2>4 DEF ConservesXp, vars
    <2> QED
      BY <2>1, <2>2, <2>3, <2>4 DEF Next, Quiet
  <1> QED
    BY <1>1, <1>2, TypeCorrect, PTL DEF Spec

-----------------------------------------------------------------------------
(* The sum of the prices *)

(* A claim that fails has a least number for which it does.                *)
LEMMA Least ==
  ASSUME NEW T, T \subseteq Nat, T # {}
  PROVE  \E x \in T : \A y \in T : x <= y
  <1>1. PICK x \in T : \A y \in T : ~ (<<y, x>> \in OpToRel(<, Nat))
    BY NatLessThanWellFounded, WFMin
  <1>2. \A y \in T : ~ (y < x)
    BY <1>1 DEF OpToRel
  <1> QED
    BY <1>2

(* The two services state one formula.                                     *)
LEMMA OneFormula == \A l : calculateNextLevelXP(l) = xpForLevel(l)
  BY DEF calculateNextLevelXP, xpForLevel

LEMMA FormulaIsNat == \A l \in 1 .. MaxLevel : xpForLevel(l) \in Nat
  BY PricesAssumption, OneFormula

Sums(g, n) == g = [l \in 1 .. n |-> IF l = 1 THEN 0 ELSE g[l - 1] + xpForLevel(l - 1)]

LEMMA SumsExist == \A n \in Nat : \E g : Sums(g, n)
  <1> DEFINE Bad == {n \in Nat : ~ \E g : Sums(g, n)}
  <1>1. ASSUME Bad # {} PROVE FALSE
    <2>1. PICK m \in Bad : \A k \in Bad : m <= k
      <3> HIDE DEF Bad
      <3>1. Bad \subseteq Nat
        BY DEF Bad
      <3> QED
        BY <1>1, <3>1, Least
    <2>2. m \in Nat /\ ~ \E g : Sums(g, m)
      OBVIOUS
    <2>3. CASE m = 0
      <3>1. PICK g : g = [l \in 1 .. 0 |-> 0]
        OBVIOUS
      <3>2. g = [l \in 1 .. 0 |-> IF l = 1 THEN 0 ELSE g[l - 1] + xpForLevel(l - 1)]
        BY <3>1
      <3> QED
        BY <2>2, <2>3, <3>2 DEF Sums
    <2>4. CASE m > 0
      <3>1. m - 1 \in Nat /\ ~ (m <= m - 1)
        BY <2>2, <2>4
      <3>2. PICK f : Sums(f, m - 1)
        BY <2>1, <3>1
      <3>3. PICK g : g = [l \in 1 .. m |-> IF l = 1 THEN 0 ELSE f[l - 1] + xpForLevel(l - 1)]
        OBVIOUS
      <3>4. \A l \in 1 .. (m - 1) : g[l] = f[l]
        BY <2>2, <3>2, <3>3 DEF Sums
      <3>5. \A l \in 1 .. m : l # 1 => g[l - 1] = f[l - 1]
        BY <2>2, <3>4
      <3>6. g = [l \in 1 .. m |-> IF l = 1 THEN 0 ELSE g[l - 1] + xpForLevel(l - 1)]
        BY <3>3, <3>5
      <3> QED
        BY <2>2, <3>6 DEF Sums
    <2> QED
      BY <2>2, <2>3, <2>4
  <1> QED
    BY <1>1

LEMMA AccumulatedIs ==
  \A l \in 1 .. MaxLevel :
     Accumulated[l] = IF l = 1 THEN 0 ELSE Accumulated[l - 1] + xpForLevel(l - 1)
  <1>1. \E g : Sums(g, MaxLevel)
    BY AmountsAssumption, SumsExist
  <1>2. Accumulated = CHOOSE g : Sums(g, MaxLevel)
    BY DEF Accumulated, Sums
  <1>3. Sums(Accumulated, MaxLevel)
    BY <1>1, <1>2
  <1> QED
    BY <1>3 DEF Sums

LEMMA AccumulatedIsNat == \A l \in 1 .. MaxLevel : Accumulated[l] \in Nat
  <1> DEFINE Bad == {l \in 1 .. MaxLevel : Accumulated[l] \notin Nat}
  <1>1. ASSUME Bad # {} PROVE FALSE
    <2>1. PICK m \in Bad : \A k \in Bad : m <= k
      <3>1. Bad \subseteq Nat
        OBVIOUS
      <3> HIDE DEF Bad
      <3> QED
        BY <1>1, <3>1, Least
    <2>2. m \in 1 .. MaxLevel /\ Accumulated[m] \notin Nat
      OBVIOUS
    <2>3. m # 1
      BY <2>2, AccumulatedIs
    <2>4. m - 1 \in 1 .. MaxLevel /\ ~ (m <= m - 1)
      BY <2>2, <2>3, AmountsAssumption
    <2>5. Accumulated[m - 1] \in Nat
      BY <2>1, <2>4
    <2> QED
      BY <2>2, <2>3, <2>4, <2>5, AccumulatedIs, FormulaIsNat
  <1> QED
    BY <1>1

(* The prices of the levels before a level are part of its sum.            *)
LEMMA AccumulatedGrows ==
  \A l \in 1 .. MaxLevel : \A k \in 1 .. (l - 1) : Accumulated[k] + xpForLevel(k) <= Accumulated[l]
  <1> DEFINE Claim(l) == \A k \in 1 .. (l - 1) : Accumulated[k] + xpForLevel(k) <= Accumulated[l]
             Bad == {l \in 1 .. MaxLevel : ~ Claim(l)}
  <1>1. ASSUME Bad # {} PROVE FALSE
    <2>1. PICK m \in Bad : \A j \in Bad : m <= j
      <3>1. Bad \subseteq Nat
        OBVIOUS
      <3> HIDE DEF Bad
      <3> QED
        BY <1>1, <3>1, Least
    <2>2. m \in 1 .. MaxLevel /\ ~ Claim(m)
      OBVIOUS
    <2>3. PICK k \in 1 .. (m - 1) : ~ (Accumulated[k] + xpForLevel(k) <= Accumulated[m])
      BY <2>2
    <2>4. m # 1 /\ m - 1 \in 1 .. MaxLevel /\ k \in 1 .. MaxLevel /\ ~ (m <= m - 1)
      BY <2>2, <2>3, AmountsAssumption
    <2>5. Claim(m - 1)
      BY <2>1, <2>4
    <2>6. Accumulated[m] = Accumulated[m - 1] + xpForLevel(m - 1)
      BY <2>2, <2>4, AccumulatedIs
    <2>7. /\ Accumulated[m - 1] \in Nat /\ xpForLevel(m - 1) \in Nat
          /\ Accumulated[k] \in Nat /\ xpForLevel(k) \in Nat
      BY <2>4, AccumulatedIsNat, FormulaIsNat
    <2>8. CASE k = m - 1
      BY <2>3, <2>6, <2>7, <2>8
    <2>9. CASE k # m - 1
      <3>1. k \in 1 .. (m - 1 - 1)
        BY <2>2, <2>3, <2>9
      <3>2. Accumulated[k] + xpForLevel(k) <= Accumulated[m - 1]
        BY <2>5, <3>1
      <3> QED
        BY <2>3, <2>6, <2>7, <3>2
    <2> QED
      BY <2>8, <2>9
  <1> QED
    BY <1>1

-----------------------------------------------------------------------------
(* The reference *)

(* levelFromXp chooses the first of these levels.                          *)
Uncovered(total) == {l \in 1 .. MaxLevel : Accumulated[l] + xpForLevel(l) > total}

(* If the total pays for no level past l, the reference is l or below.     *)
LEMMA ReferenceAtMost ==
  ASSUME NEW total \in Nat, NEW l \in Uncovered(total)
  PROVE  levelFromXp(total) \in Uncovered(total) /\ levelFromXp(total) <= l
  <1> DEFINE First(m) == /\ Accumulated[m] + xpForLevel(m) > total
                         /\ \A k \in 1 .. (m - 1) : Accumulated[k] + xpForLevel(k) <= total
  <1>1. PICK m \in Uncovered(total) : \A k \in Uncovered(total) : m <= k
    <2>1. Uncovered(total) \subseteq Nat /\ Uncovered(total) # {}
      BY DEF Uncovered
    <2> QED
      BY <2>1, Least
  <1>2. m \in 1 .. MaxLevel /\ Accumulated[m] + xpForLevel(m) > total
    BY DEF Uncovered
  <1>3. First(m)
    <2>1. ASSUME NEW k \in 1 .. (m - 1) PROVE Accumulated[k] + xpForLevel(k) <= total
      <3>1. k \in 1 .. MaxLevel /\ ~ (m <= k)
        BY <1>2, AmountsAssumption
      <3>2. k \notin Uncovered(total)
        BY <1>1, <3>1
      <3>3. Accumulated[k] \in Nat /\ xpForLevel(k) \in Nat
        BY <3>1, AccumulatedIsNat, FormulaIsNat
      <3> QED
        BY <3>1, <3>2, <3>3 DEF Uncovered
    <2> QED
      BY <1>2, <2>1
  <1>4. levelFromXp(total) = CHOOSE n \in 1 .. MaxLevel : First(n)
    BY DEF levelFromXp
  <1>5. levelFromXp(total) \in 1 .. MaxLevel /\ First(levelFromXp(total))
    <2> HIDE DEF First
    <2> QED
      BY <1>2, <1>3, <1>4
  <1>6. levelFromXp(total) \in Uncovered(total)
    BY <1>5 DEF Uncovered
  <1>7. ASSUME l < levelFromXp(total) PROVE FALSE
    <2>1. l \in 1 .. MaxLevel /\ Accumulated[l] + xpForLevel(l) > total
      BY DEF Uncovered
    <2>2. l \in 1 .. (levelFromXp(total) - 1)
      BY <1>5, <1>7, <2>1, AmountsAssumption
    <2>3. Accumulated[l] + xpForLevel(l) <= total
      BY <1>5, <2>2
    <2>4. Accumulated[l] \in Nat /\ xpForLevel(l) \in Nat
      BY <2>1, AccumulatedIsNat, FormulaIsNat
    <2> QED
      BY <2>1, <2>3, <2>4
  <1>8. l \in 1 .. MaxLevel
    BY DEF Uncovered
  <1> QED
    BY <1>5, <1>6, <1>7, <1>8, AmountsAssumption

(* If the total also pays for all before l, it is l.                       *)
LEMMA ReferenceIs ==
  ASSUME NEW total \in Nat, NEW l \in Uncovered(total), Accumulated[l] <= total
  PROVE  levelFromXp(total) = l
  <1>1. levelFromXp(total) \in Uncovered(total) /\ levelFromXp(total) <= l
    BY ReferenceAtMost
  <1>2. PICK m : m = levelFromXp(total)
    OBVIOUS
  <1>3. m \in 1 .. MaxLevel /\ l \in 1 .. MaxLevel /\ m <= l
        /\ Accumulated[m] + xpForLevel(m) > total
    BY <1>1, <1>2 DEF Uncovered
  <1>4. ASSUME m # l PROVE FALSE
    <2>1. m \in 1 .. (l - 1)
      BY <1>3, <1>4, AmountsAssumption
    <2>2. Accumulated[m] + xpForLevel(m) <= Accumulated[l]
      BY <1>3, <2>1, AccumulatedGrows
    <2>3. Accumulated[l] \in Nat /\ Accumulated[m] \in Nat /\ xpForLevel(m) \in Nat
      BY <1>3, AccumulatedIsNat, FormulaIsNat
    <2> QED
      BY <1>3, <2>2, <2>3
  <1> QED
    BY <1>2, <1>4

-----------------------------------------------------------------------------
(* The row and the reference *)

(* What was spent is the sum of the prices, exactly as long as only the    *)
(* entity has written, and at most it in general.                          *)
LevelInv ==
    /\ TypeOK
    /\ ConservesXp
    /\ pc = "idle" => currentXp < nextLevelXp
    /\ pc = "procedure" => procedureWrote
    /\ spent <= Accumulated[level]
    /\ nextLevelXp <= xpForLevel(level)
    /\ ~ procedureWrote => spent = Accumulated[level] /\ nextLevelXp = xpForLevel(level)

LEMMA LevelInvAtFirst == Init /\ TypeOK /\ ConservesXp => LevelInv
  <1> SUFFICES ASSUME Init, TypeOK, ConservesXp PROVE LevelInv
    OBVIOUS
  <1>1. xpForLevel(1) = 100
    BY DEF xpForLevel
  <1>2. Accumulated[1] = 0
    BY AccumulatedIs, AmountsAssumption
  <1> QED
    BY <1>1, <1>2 DEF Init, LevelInv

(* The procedure's next price is at most the formula's.                    *)
LEMMA NextPriceAtMost ==
  ASSUME NEW w \in Writers, NEW l \in 1 .. MaxLevel, l + 1 \in 1 .. MaxLevel,
         NEW next \in Nat, next <= xpForLevel(l)
  PROVE  /\ NextPrice(w, l + 1, next) <= xpForLevel(l + 1)
         /\ w = "entity" => NextPrice(w, l + 1, next) = xpForLevel(l + 1)
  <1>1. PICK p \in Nat : p = xpForLevel(l)
    BY FormulaIsNat
  <1>2. PICK n \in Nat : n = xpForLevel(l + 1)
    BY FormulaIsNat
  <1>3. (p * 3) \div 2 <= n
    BY <1>1, <1>2, PricesAssumption DEF ProcedureNextXp
  <1>4. (next * 3) \div 2 <= (p * 3) \div 2
    BY <1>1
  <1>5. ProcedureNextXp(next) <= n
    BY <1>3, <1>4 DEF ProcedureNextXp
  <1>6. CASE w = "entity"
    BY <1>2, <1>6, OneFormula DEF NextPrice
  <1>7. CASE w # "entity"
    BY <1>2, <1>5, <1>7 DEF NextPrice
  <1> QED
    BY <1>6, <1>7

LEMMA LevelInvIsInductive == LevelInv /\ TypeOK' /\ ConservesXp' /\ [Next]_vars => LevelInv'
  <1> SUFFICES ASSUME LevelInv, TypeOK', ConservesXp', [Next]_vars PROVE LevelInv'
    OBVIOUS
  <1>1. ASSUME NEW w \in Writers, NEW amount \in AmountsOf(w), Add(w, amount)
        PROVE  LevelInv'
    BY <1>1 DEF Add, LevelInv, Writers
  <1>2. CASE LevelUp
    <2>1. level \in 1 .. MaxLevel /\ level + 1 \in 1 .. MaxLevel /\ pc \in Writers
          /\ nextLevelXp \in Nat /\ spent \in Nat
      BY <1>2, AmountsAssumption DEF LevelUp, LevelInv, TypeOK
    <2>2. Accumulated[level + 1] = Accumulated[level] + xpForLevel(level)
      BY <2>1, AccumulatedIs
    <2>3. Accumulated[level] \in Nat /\ xpForLevel(level) \in Nat
      BY <2>1, AccumulatedIsNat, FormulaIsNat
    <2>4. /\ nextLevelXp' <= xpForLevel(level + 1)
          /\ pc = "entity" => nextLevelXp' = xpForLevel(level + 1)
      BY <1>2, <2>1, NextPriceAtMost DEF LevelUp, LevelInv
    <2>5. level' = level + 1 /\ spent' = spent + nextLevelXp /\ pc' = pc
          /\ procedureWrote' = procedureWrote
      BY <1>2 DEF LevelUp
    <2>6. spent' <= Accumulated[level + 1]
      BY <2>1, <2>2, <2>3, <2>5 DEF LevelInv
    <2>7. ~ procedureWrote => /\ spent' = Accumulated[level + 1]
                              /\ nextLevelXp' = xpForLevel(level + 1)
      BY <2>1, <2>2, <2>4, <2>5 DEF LevelInv, Writers
    <2> QED
      BY <2>1, <2>4, <2>5, <2>6, <2>7 DEF LevelInv, Writers
  <1>3. CASE Settle
    BY <1>3 DEF Settle, LevelInv, Writers
  <1>4. CASE UNCHANGED vars
    BY <1>4 DEF vars, LevelInv
  <1> QED
    BY <1>1, <1>2, <1>3, <1>4 DEF Next, Quiet

LEMMA LevelInvHolds == Spec => []LevelInv
  BY TypeCorrect, XpConserved, LevelInvAtFirst, LevelInvIsInductive, PTL DEF Spec

(* Between two additions the total does not pay for another level.         *)
LEMMA LevelIsUncovered ==
  ASSUME LevelInv, pc = "idle"
  PROVE  /\ totalXpEarned \in Nat /\ level \in Uncovered(totalXpEarned)
         /\ Accumulated[level] \in Nat /\ xpForLevel(level) \in Nat
  <1>1. /\ level \in 1 .. MaxLevel /\ totalXpEarned \in Nat
        /\ spent \in Nat /\ currentXp \in Nat /\ nextLevelXp \in Nat
    BY DEF LevelInv, TypeOK
  <1>2. Accumulated[level] \in Nat /\ xpForLevel(level) \in Nat
    BY <1>1, AccumulatedIsNat, FormulaIsNat
  <1>3. Accumulated[level] + xpForLevel(level) > totalXpEarned
    BY <1>1, <1>2 DEF LevelInv, ConservesXp
  <1> QED
    BY <1>1, <1>2, <1>3 DEF Uncovered

(* A row that only the entity has written is, between two additions, the   *)
(* row that levelFromXp makes of its total, for any amounts and any level. *)
THEOREM EntityIsTheReference == Spec => []EntityAgreesWithReference
  <1>1. ASSUME LevelInv, pc = "idle", ~ procedureWrote
        PROVE  /\ level = levelFromXp(totalXpEarned)
               /\ currentXp = totalXpEarned - Accumulated[level]
               /\ nextLevelXp = xpForLevel(level)
    <2>1. /\ totalXpEarned \in Nat /\ level \in Uncovered(totalXpEarned)
          /\ Accumulated[level] \in Nat
      BY <1>1, LevelIsUncovered
    <2>2. currentXp \in Nat /\ totalXpEarned = Accumulated[level] + currentXp
          /\ nextLevelXp = xpForLevel(level)
      BY <1>1 DEF LevelInv, ConservesXp, TypeOK
    <2>3. Accumulated[level] <= totalXpEarned /\ currentXp = totalXpEarned - Accumulated[level]
      BY <2>1, <2>2
    <2> QED
      BY <2>1, <2>2, <2>3, ReferenceIs
  <1>2. LevelInv => EntityAgreesWithReference
    BY <1>1 DEF EntityAgreesWithReference
  <1> QED
    BY <1>2, LevelInvHolds, PTL

(* Whichever of the two has written the row, and in whatever order: its    *)
(* level is at least the one its total deserves, and the next one costs no *)
(* more than the formula says.                                             *)
THEOREM NobodyIsBelow == Spec => []LevelNeverBelowReference
  <1>1. ASSUME LevelInv, pc = "idle"
        PROVE  nextLevelXp <= xpForLevel(level) /\ level >= levelFromXp(totalXpEarned)
    <2>1. /\ totalXpEarned \in Nat /\ level \in Uncovered(totalXpEarned)
      BY <1>1, LevelIsUncovered
    <2>2. levelFromXp(totalXpEarned) \in Uncovered(totalXpEarned)
          /\ levelFromXp(totalXpEarned) <= level
      BY <2>1, ReferenceAtMost
    <2> QED
      BY <1>1, <2>1, <2>2, AmountsAssumption DEF LevelInv, Uncovered
  <1>2. LevelInv => LevelNeverBelowReference
    BY <1>1 DEF LevelNeverBelowReference
  <1> QED
    BY <1>2, LevelInvHolds, PTL

=============================================================================
