-------------------------- MODULE MCServicesStore --------------------------
(* Small sets for TLC: one name of each sort, one specification of each.   *)
EXTENDS ServicesStore

CONSTANTS web, grid, small, broken

MCName == {web, grid}
MCScale == {small, broken}
MCInvalid == {broken}
MCConfusing == {grid}
=============================================================================
