------------------------------ MODULE SamplingPool ------------------------------
(***************************************************************************)
(* The pool of threads the sampler hands a tick's plan to                   *)
(* (apps/linsightd/src/transport/unix.rs, SamplingPool).  sample() seeds    *)
(* one job per worker, refills as answers come, and gives up at a deadline; *)
(* a worker that is still inside a plugin then keeps running, and its late  *)
(* answer, like the jobs still queued, meets a later call of sample().      *)
(***************************************************************************)
EXTENDS Integers, FiniteSets, SequencesExt

CONSTANTS Sensors,   \* ids of the sensors the plugins registered
          Hung,      \* those whose plugin never returns from sample()
          Workers,   \* the threads that could be spawned
          MaxCalls   \* bound: calls of sample()

ASSUME PoolAssumption ==
    /\ IsFiniteSet(Sensors)
    /\ Hung \subseteq Sensors
    /\ IsFiniteSet(Workers) /\ Workers # {}
    /\ MaxCalls \in Nat

VARIABLES caller,     \* the sampler thread: where it is with the pool
          call,       \* call_id of the latest sample()
          pending,    \* planned sensors with no job yet
          in_flight,  \* planned sensors whose answer is awaited
          results,    \* sensor |-> what the latest call says of it
          jobs,       \* the job channel
          worker,     \* the job each worker is on, as a set of at most one
          exited,     \* the workers that have left their loop
          answers     \* the result channel

vars == <<caller, call, pending, in_flight, results, jobs, worker, exited, answers>>

Job == [call : 1..MaxCalls, id : Sensors]

(* An answer, or a Timeout; `of' is the call whose job it comes from. *)
Outcome == {"ok", "failed", "timeout"}
Answer == [call : 1..MaxCalls, id : Sensors, outcome : Outcome]
Result == [outcome : Outcome, of : 1..MaxCalls]
NoResults == [s \in {} |-> [outcome |-> "timeout", of |-> call]]

PoolSize == Cardinality(Workers)
Plans == SetToAllKPermutations(Sensors)

JobFor(s, n) == [call |-> n, id |-> s]
With(rs, S, r) == [s \in DOMAIN rs \cup S |-> IF s \in S THEN r ELSE rs[s]]

-----------------------------------------------------------------------------
Init ==
    /\ caller = "idle"
    /\ call = 0
    /\ pending = <<>>
    /\ in_flight = {}
    /\ results = NoResults
    /\ jobs = <<>>
    /\ worker = [w \in Workers |-> {}]
    /\ exited = {}
    /\ answers = <<>>

(* Mutant of SeedCount: the whole plan is handed out at once. *)
SeedAll(plan) == Len(plan)

SeedCount(plan) == IF Len(plan) < PoolSize THEN Len(plan) ELSE PoolSize

(* sample(), up to its receive loop. *)
Sample(plan) ==
    LET n == SeedCount(plan)
        seeds == SubSeq(plan, 1, n)
    IN  /\ caller = "idle"
        /\ call < MaxCalls
        /\ caller' = "waiting"
        /\ call' = call + 1
        /\ pending' = SubSeq(plan, n + 1, Len(plan))
        /\ in_flight' = ToSet(seeds)
        /\ results' = NoResults
        /\ jobs' = jobs \o [i \in 1..n |-> JobFor(seeds[i], call + 1)]
        /\ UNCHANGED <<worker, exited, answers>>

(* Mutant of IsMine: the call id is not compared. *)
IsAnyones(a) == a.id \in in_flight

IsMine(a) == a.call = call /\ a.id \in in_flight

(* One turn of the receive loop.  The answer of an earlier call is dropped. *)
Receive ==
    LET a == Head(answers)
        mine == IsMine(a)
        refill == mine /\ pending # <<>>
        next == IF refill THEN {Head(pending)} ELSE {}
    IN  /\ caller = "waiting"
        /\ in_flight # {}
        /\ answers # <<>>
        /\ answers' = Tail(answers)
        /\ results' = IF mine THEN With(results, {a.id}, [outcome |-> a.outcome, of |-> a.call])
                      ELSE results
        /\ in_flight' = IF mine THEN (in_flight \ {a.id}) \cup next ELSE in_flight
        /\ pending' = IF refill THEN Tail(pending) ELSE pending
        /\ jobs' = IF refill THEN Append(jobs, JobFor(Head(pending), call)) ELSE jobs
        /\ UNCHANGED <<caller, call, worker, exited>>

(* Mutant of Return: the wait for an answer has no deadline. *)
ReturnWhenAnswered ==
    /\ caller = "waiting"
    /\ in_flight = {}
    /\ caller' = "idle"
    /\ pending' = <<>>
    /\ UNCHANGED <<call, in_flight, results, jobs, worker, exited, answers>>

(* The loop ends, with every job answered or at the deadline: what is in     *)
(* flight has timed out, what is pending is left out of the results.         *)
Return ==
    /\ caller = "waiting"
    /\ caller' = "idle"
    /\ results' = With(results, in_flight, [outcome |-> "timeout", of |-> call])
    /\ in_flight' = {}
    /\ pending' = <<>>
    /\ UNCHANGED <<call, jobs, worker, exited, answers>>

(* The workers. *)
Take(w) ==
    /\ worker[w] = {}
    /\ w \notin exited
    /\ jobs # <<>>
    /\ worker' = [worker EXCEPT ![w] = {Head(jobs)}]
    /\ jobs' = Tail(jobs)
    /\ UNCHANGED <<caller, call, pending, in_flight, results, exited, answers>>

Stuck(w) == \E j \in worker[w] : j.id \in Hung

(* Mutant of Finish: a failed sample sends no answer. *)
FinishQuietly(w) ==
    /\ ~Stuck(w)
    /\ worker[w] # {}
    /\ UNCHANGED answers \/ \E j \in worker[w] :
          answers' = Append(answers, [call |-> j.call, id |-> j.id, outcome |-> "ok"])
    /\ worker' = [worker EXCEPT ![w] = {}]
    /\ UNCHANGED <<caller, call, pending, in_flight, results, jobs, exited>>

Finish(w) ==
    /\ ~Stuck(w)
    /\ \E j \in worker[w], outcome \in {"ok", "failed"} :
          answers' = Append(answers, [call |-> j.call, id |-> j.id, outcome |-> outcome])
    /\ worker' = [worker EXCEPT ![w] = {}]
    /\ UNCHANGED <<caller, call, pending, in_flight, results, jobs, exited>>

(* Dropping the pool closes the job channel and joins the workers, which     *)
(* first work off the jobs that are still queued.                            *)
Drop ==
    /\ caller = "idle"
    /\ caller' = "joining"
    /\ UNCHANGED <<call, pending, in_flight, results, jobs, worker, exited, answers>>

(* Mutant of Exit: the job channel is closed only after the join. *)
ExitAfterJoin(w) ==
    /\ caller = "joined"
    /\ worker[w] = {}
    /\ exited' = exited \cup {w}
    /\ UNCHANGED <<caller, call, pending, in_flight, results, jobs, worker, answers>>

Exit(w) ==
    /\ caller = "joining"
    /\ worker[w] = {}
    /\ w \notin exited
    /\ jobs = <<>>
    /\ exited' = exited \cup {w}
    /\ UNCHANGED <<caller, call, pending, in_flight, results, jobs, worker, answers>>

Joined ==
    /\ caller = "joining"
    /\ exited = Workers
    /\ caller' = "joined"
    /\ UNCHANGED <<call, pending, in_flight, results, jobs, worker, exited, answers>>

Next ==
    \/ \E plan \in Plans : Sample(plan)
    \/ Receive
    \/ Return
    \/ \E w \in Workers : Take(w) \/ Finish(w) \/ Exit(w)
    \/ Drop
    \/ Joined

Spec == Init /\ [][Next]_vars

(* Threads run; the deadline comes; a plugin that is not hung returns. *)
FairSpec ==
    /\ Spec
    /\ WF_vars(Return)
    /\ WF_vars(Joined)
    /\ \A w \in Workers : WF_vars(Take(w)) /\ WF_vars(Finish(w)) /\ WF_vars(Exit(w))

-----------------------------------------------------------------------------
TypeOK ==
    /\ caller \in {"idle", "waiting", "joining", "joined"}
    /\ call \in 0..MaxCalls
    /\ pending \in Plans
    /\ in_flight \subseteq Sensors
    /\ DOMAIN results \subseteq Sensors
    /\ \A s \in DOMAIN results : results[s] \in Result
    /\ jobs \in Seq(Job)
    /\ worker \in [Workers -> SUBSET Job]
    /\ \A w \in Workers : Cardinality(worker[w]) <= 1
    /\ exited \subseteq Workers
    /\ answers \in Seq(Answer)

(* A sample committed for a tick was taken for that tick: the late answer of *)
(* a worker that outlived its call never passes for a reading of the new one.*)
ResultsAreOfThisCall == \A s \in DOMAIN results : results[s].of = call

(* Where the jobs of the running call are. *)
Queued(s) == {i \in DOMAIN jobs : jobs[i] = JobFor(s, call)}
Running(s) == {w \in Workers : JobFor(s, call) \in worker[w]}
Answered(s) == {i \in DOMAIN answers : answers[i].call = call /\ answers[i].id = s}
Copies(s) == Cardinality(Queued(s)) + Cardinality(Running(s)) + Cardinality(Answered(s))

(* While sample() waits, each sensor in flight has exactly one job or answer *)
(* under way and no other sensor has any: no answer of this call is ignored, *)
(* and none is awaited that nobody is working on.                            *)
JobsAccountedFor ==
    caller = "waiting" => \A s \in Sensors : Copies(s) = IF s \in in_flight THEN 1 ELSE 0

(* Sensors are left out of a tick only when the whole pool was busy with it, *)
(* and sample() never has more jobs out than there are workers.              *)
PoolKeptBusy ==
    /\ Cardinality(in_flight) <= PoolSize
    /\ pending # <<>> => Cardinality(in_flight) = PoolSize

(* sample() returns, whatever the plugins do: the tick goes on. *)
SampleReturns == caller = "waiting" ~> caller = "idle"

(* Dropping the pool ends, unless a worker is stuck inside a plugin. *)
DropEnds == caller = "joining" ~> (caller = "joined" \/ \E w \in Workers : Stuck(w))

(* "Isolates slow or hung sensors so one blocked plugin cannot stall the     *)
(* entire scheduler tick": some worker is always free of it.                 *)
BlockedPluginLeavesAWorker == \E w \in Workers : ~Stuck(w)
=============================================================================
