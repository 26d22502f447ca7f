------------------------------ MODULE MCScheduler ------------------------------
(* A static and a polled sensor, a fast and a slow period. *)
EXTENDS Scheduler

MCSensors == {"cpu", "board"}
MCStatic == {"board"}
MCPeriods == {1, 2}
MCNative == [s \in MCSensors |-> IF s = "board" THEN 2 ELSE 1]
=============================================================================
