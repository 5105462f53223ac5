----------------------------- MODULE MCWorkflow -----------------------------
(* A small instance of Workflow: the budget starts at two cycles and a u8  *)
(* is two bits and a half wide, so that exhausting, extending and          *)
(* overflowing the budget all happen.                                      *)
EXTENDS Workflow

CONSTANTS c1, c2

MCCandidate == {c1, c2}
MCMaxRepairCycles == 2
MCU8Max == 5
=============================================================================
