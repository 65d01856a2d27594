----------------------------- MODULE MCUserLevel -----------------------------
(***************************************************************************)
(* UserLevel on totals up to 1400, past the price of level 5 (506 by the   *)
(* entity's formula, 505 by the procedure's), the first on which the two   *)
(* writers disagree.                                                       *)
(***************************************************************************)
EXTENDS UserLevel

MCEntityAmounts == {20, 60, 150, 300, 1000}
MCProcedureAmounts == {10, 20, 30}

=============================================================================
