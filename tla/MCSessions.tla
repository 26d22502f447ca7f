------------------------------- MODULE MCSessions -------------------------------
(* Instances of Sessions.tla: connections c1..c3, a polled sensor (cpu) and a *)
(* static one (board); each .cfg says which of them take part.                *)
EXTENDS Sessions, TLC

CONSTANTS c1, c2, c3, cpu, board

ClientSymmetry == Permutations(Clients)
=============================================================================
