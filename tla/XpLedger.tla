------------------------------ MODULE XpLedger ------------------------------
(***************************************************************************)
(* What granting XP promises a user: the XP of the level row and the XP of *)
(* the log are the same account, and a day has one login, one milestone    *)
(* and one first-action bonus at most.  How the code arrives at it, in     *)
(* separate statements, is module Gamification.                            *)
(***************************************************************************)
EXTENDS Integers

CONSTANTS
    Starts,     \* XP the user may have at the beginning
    Days

VARIABLES
    day, balance, logged, crashes,
    entries         \* what was granted on each day: how often each kind

vars == <<day, balance, logged, entries, crashes>>

Kinds == {"login", "milestone", "bonus"}

Init ==
    /\ day = 0
    /\ balance \in Starts
    /\ logged = balance
    /\ entries = [d \in Days |-> [k \in Kinds |-> 0]]
    /\ crashes = 0

Entered(counts, kinds) == [k \in Kinds |-> IF k \in kinds THEN counts[k] + 1 ELSE counts[k]]

(* XP is granted and logged, at once; a kind that is granted once per day  *)
(* is not granted a second time.                                           *)
Award(kinds) ==
    /\ \A k \in kinds : entries[day][k] = 0
    /\ entries' = [entries EXCEPT ![day] = Entered(@, kinds)]
    /\ logged' >= logged
    /\ balance' - balance = logged' - logged
    /\ UNCHANGED <<day, crashes>>

(* A grant fails: before it is granted, or after that and before it is     *)
(* logged.                                                                 *)
Crash ==
    /\ crashes' = crashes + 1
    /\ balance' >= balance
    /\ UNCHANGED <<day, logged, entries>>

NextDay ==
    /\ day + 1 \in Days
    /\ day' = day + 1
    /\ UNCHANGED <<balance, logged, entries, crashes>>

Next == (\E kinds \in SUBSET Kinds : Award(kinds)) \/ Crash \/ NextDay

Spec == Init /\ [][Next]_vars

=============================================================================
