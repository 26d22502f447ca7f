----------------------------- MODULE MCSamplingPool -----------------------------
(* Instances of SamplingPool.tla: two workers, a sensor whose plugin hangs and *)
(* healthy ones, so that a plan can be longer than the pool.                   *)
EXTENDS SamplingPool

CONSTANTS w1, w2, disk, cpu, gpu
=============================================================================
