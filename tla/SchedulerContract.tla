--------------------------- MODULE SchedulerContract ---------------------------
(***************************************************************************)
(* What the scheduler promises its callers.  A sensor is in the table while *)
(* some subscription token (sensor, period) is held for it, and its due     *)
(* time is seen only as one of three classes: "due" (the next tick samples  *)
(* it), "wait" (a later tick will) and "parked" (no tick will, until a      *)
(* subscription comes in).  Scheduler.tla, with the microsecond clock,      *)
(* implements this module; Sessions.tla is built on its operators.          *)
(***************************************************************************)
EXTENDS Integers, FiniteSets

CONSTANTS Sensors,     \* ids of the sensors the plugins registered
          Static,      \* those tagged STATIC_TAG: constant for the process lifetime
          Periods      \* the effective sampling periods that requests lead to

VARIABLES table,   \* sensor |-> its tokens per period and its due class
          planned  \* sensors of the tick whose results are still out

vars == <<table, planned>>

Tokens == Sensors \X Periods
DueClass == {"due", "wait", "parked"}
Row == [counts : [Periods -> Nat], due : DueClass]

(* "failed" stands for Unsupported, Timeout and every other error: all of them delay. *)
Outcome == {"ok", "failed"}

NoCounts == [p \in Periods |-> 0]
CountsOf(tb, s) == IF s \in DOMAIN tb THEN tb[s].counts ELSE NoCounts

-----------------------------------------------------------------------------
(* Operators on a table.  The ones that move a due time take d, the class  *)
(* each sensor's new due time falls in: callers let it be any of the two.  *)

(* Mutant of acquire: a sensor that is already in the table keeps its due time. *)
AcquireKeepsDue(tb, T) ==
    LET S == {t[1] : t \in T} IN
    [s \in DOMAIN tb \cup S |->
        [counts |-> [p \in Periods |-> CountsOf(tb, s)[p] + IF <<s, p>> \in T THEN 1 ELSE 0],
         due |-> IF s \in DOMAIN tb THEN tb[s].due ELSE "due"]]

(* Take every token of T once; the sensors of T are due at once. *)
acquire(tb, T) ==
    LET S == {t[1] : t \in T} IN
    [s \in DOMAIN tb \cup S |->
        IF s \in S
        THEN [counts |-> [p \in Periods |-> CountsOf(tb, s)[p] + IF <<s, p>> \in T THEN 1 ELSE 0],
              due |-> "due"]
        ELSE tb[s]]

(* What is left of a row's counts once the tokens of T are given back. *)
CountsLeft(tb, T, s) ==
    [p \in Periods |-> IF <<s, p>> \in T /\ tb[s].counts[p] > 0
                       THEN tb[s].counts[p] - 1
                       ELSE tb[s].counts[p]]

(* Give every token of T back; a sensor nobody holds leaves the table. *)
release(tb, T, d) ==
    LET S == {t[1] : t \in T} IN
    [s \in {r \in DOMAIN tb : r \in S => \E p \in Periods : CountsLeft(tb, T, r)[p] > 0} |->
        IF s \in S
        THEN [counts |-> CountsLeft(tb, T, s),
              due |-> IF s \in Static THEN tb[s].due ELSE d[s]]
        ELSE tb[s]]

DueSet(tb) == {s \in DOMAIN tb : tb[s].due = "due"}

(* Mutant of tick_plan: a static sensor is parked before it has been sampled. *)
PlanParksStatic(tb) ==
    [s \in DOMAIN tb |->
        IF tb[s].due = "due"
        THEN [tb[s] EXCEPT !.due = IF s \in Static THEN "parked" ELSE "wait"]
        ELSE tb[s]]

tick_plan(tb) ==
    [s \in DOMAIN tb |-> IF tb[s].due = "due" THEN [tb[s] EXCEPT !.due = "wait"] ELSE tb[s]]

(* results: sensor |-> outcome, for the planned sensors the pool answered for. *)
tick_commit(tb, results, d) ==
    [s \in DOMAIN tb |->
        IF s \notin DOMAIN results THEN tb[s]
        ELSE IF results[s] = "failed" THEN [tb[s] EXCEPT !.due = d[s]]
        ELSE IF s \in Static THEN [tb[s] EXCEPT !.due = "parked"]
        ELSE tb[s]]

(* Due times are reached, or lie ahead again after a step back of the clock. *)
elapse(tb, d) ==
    [s \in DOMAIN tb |-> IF tb[s].due = "parked" THEN tb[s] ELSE [tb[s] EXCEPT !.due = d[s]]]

Later == [Sensors -> {"due", "wait"}]
Results(S) == UNION {[R -> Outcome] : R \in SUBSET S}

-----------------------------------------------------------------------------
Init ==
    /\ table = [s \in {} |-> [counts |-> NoCounts, due |-> "due"]]
    /\ planned = {}

Subscribe(t) ==
    /\ table' = acquire(table, {t})
    /\ UNCHANGED planned

Unsubscribe(t) ==
    /\ CountsOf(table, t[1])[t[2]] > 0
    /\ \E d \in Later : table' = release(table, {t}, d)
    /\ UNCHANGED planned

Plan ==
    /\ planned = {}
    /\ planned' = DueSet(table)
    /\ table' = tick_plan(table)

Commit ==
    /\ planned # {}
    /\ \E results \in Results(planned), d \in Later :
            table' = tick_commit(table, results, d)
    /\ planned' = {}

(* The clock moves. *)
Elapse ==
    /\ \E d \in Later : table' = elapse(table, d)
    /\ UNCHANGED planned

Next ==
    \/ \E t \in Tokens : Subscribe(t) \/ Unsubscribe(t)
    \/ Plan
    \/ Commit
    \/ Elapse

Spec == Init /\ [][Next]_vars

TypeOK ==
    /\ DOMAIN table \subseteq Sensors
    /\ table \in [DOMAIN table -> Row]
    /\ planned \subseteq Sensors
=============================================================================
