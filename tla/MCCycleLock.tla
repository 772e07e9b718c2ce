---------------------------- MODULE MCCycleLock ----------------------------
(***************************************************************************)
(* Constants of the CycleLock checks: runs r1 and r3 belong to one         *)
(* process, which locks again after its first run, r2 to another.          *)
(***************************************************************************)
EXTENDS CycleLock, TLC

CONSTANTS r1, r2, r3

MCProcOf == (r1 :> "p") @@ (r2 :> "q") @@ (r3 :> "p")

FileSymmetry == Permutations(Files)
============================================================================
