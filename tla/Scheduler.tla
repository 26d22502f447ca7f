------------------------------- MODULE Scheduler -------------------------------
(***************************************************************************)
(* The shared sampling scheduler of linsightd (apps/linsightd/src/          *)
(* scheduler.rs): one entry per subscribed sensor, with a count per period, *)
(* the fastest period cached, and a due time in microseconds.  A tick has   *)
(* two phases under the scheduler mutex, tick_plan and tick_commit; the     *)
(* samples are taken between them with the mutex released, so subscriptions *)
(* come and go, and the wall clock moves, while results are out.            *)
(***************************************************************************)
EXTENDS Integers, FiniteSets, FiniteSetsExt

CONSTANTS Sensors,       \* ids of the sensors the plugins registered
          Static,        \* those tagged STATIC_TAG
          Periods,       \* the effective periods requests are clamped into
          NativePeriod,  \* sensor |-> the period of its clamped native rate
          BackoffCap,    \* the exponent at which back-off stops growing (8)
          MaxMicros,     \* u64::MAX
          MaxTokens,     \* bound: subscription tokens out at once
          Horizon        \* bound: the last instant the clock reaches

ASSUME SchedulerAssumption ==
    /\ Static \subseteq Sensors
    /\ Periods \subseteq Nat \ {0}
    /\ \E slowest \in Periods : \A p \in Periods : p <= slowest
    /\ NativePeriod \in [Sensors -> Periods]
    /\ BackoffCap \in Nat
    /\ MaxTokens \in Nat
    /\ MaxMicros \in Nat
    /\ Horizon \in Nat

(* The powers the back-off shifts by grow with the strikes, and no due time *)
(* computed from a real clock reading comes near u64::MAX.                  *)
ASSUME BackoffAssumption ==
    /\ \A k \in 0..BackoffCap : 2^k \in Nat /\ 1 <= 2^k /\ 2^k <= 2^BackoffCap
    /\ \A p \in Periods : Horizon + p * 2^BackoffCap < MaxMicros

VARIABLES entries,  \* the Entry of every subscribed sensor
          clock,    \* the wall clock, SystemTime::now()
          tick,     \* the tick in flight: its sensors and the reading it was planned at
          high      \* history: the latest clock reading any tick has used

vars == <<entries, clock, tick, high>>

Never == -1   \* last_sampled_at_micros = None
Micros == 0..MaxMicros

Entry == [counts : [Periods -> Nat],          \* period_counts; an absent key is 0
          period : Periods,
          next_due : Micros,
          last : Micros \cup {Never},
          unsupported : 0..BackoffCap,        \* strikes beyond the cap act alike
          timeouts : 0..BackoffCap]

Outcome == {"ok", "unsupported", "timeout", "error"}
NoTick == [busy |-> FALSE, items |-> {}, now |-> 0]

-----------------------------------------------------------------------------
(* u64 arithmetic: `+` wraps in a release build, the others saturate. *)
wrapping_add(a, b) == IF a + b > MaxMicros THEN a + b - (MaxMicros + 1) ELSE a + b
saturating_add(a, b) == IF a + b > MaxMicros THEN MaxMicros ELSE a + b
saturating_mul(a, b) == IF a * b > MaxMicros THEN MaxMicros ELSE a * b

(* A request too fast, or none at all, gets the native rate; one slower    *)
(* than MIN_RATE_HZ gets that.  0 and MaxPeriod + 1 stand for those.       *)
MaxPeriod == Max(Periods)
Requests == Periods \cup {0, MaxPeriod + 1}
effective_period(s, req) == Max({NativePeriod[s], Min({req, MaxPeriod})})

Held(counts) == {p \in Periods : counts[p] > 0}

TokensOut(es) ==
    MapThenSumSet(LAMBDA s : MapThenSumSet(LAMBDA p : es[s].counts[p], Periods), DOMAIN es)

Put(es, s, e) == [r \in DOMAIN es \cup {s} |-> IF r = s THEN e ELSE es[r]]
Remove(es, s) == [r \in DOMAIN es \ {s} |-> es[r]]

NewEntry(p) ==
    [counts |-> [q \in Periods |-> IF q = p THEN 1 ELSE 0], period |-> p, next_due |-> 0,
     last |-> Never, unsupported |-> 0, timeouts |-> 0]

(* Mutant of Recount: the cached period is not recomputed. *)
RecountKeepsPeriod(e, counts, due) == [e EXCEPT !.counts = counts, !.next_due = due]

Recount(e, counts, due) ==
    [e EXCEPT !.counts = counts, !.period = Min(Held(counts)), !.next_due = due]

(* Mutant of subscribe: a new subscriber waits out the due time it finds. *)
SubscribeKeepsDue(es, s, p) ==
    IF s \in DOMAIN es
    THEN Put(es, s, Recount(es[s], [es[s].counts EXCEPT ![p] = @ + 1], es[s].next_due))
    ELSE Put(es, s, NewEntry(p))

subscribe(es, s, p) ==
    IF s \in DOMAIN es
    THEN Put(es, s, Recount(es[s], [es[s].counts EXCEPT ![p] = @ + 1], 0))
    ELSE Put(es, s, NewEntry(p))

(* Mutant of DueAfterLeave: a static sensor loses its parking. *)
LeaveUnparks(e, s, counts) ==
    IF e.last = Never THEN 0 ELSE saturating_add(e.last, Min(Held(counts)))

(* The due time an unsubscribe leaves behind: the cadence of the slower     *)
(* subscribers, counted from the last reading; a static one stays parked.   *)
DueAfterLeave(e, s, counts) ==
    IF s \in Static THEN e.next_due
    ELSE IF e.last = Never THEN 0
    ELSE saturating_add(e.last, Min(Held(counts)))

unsubscribe(es, s, p) ==
    IF s \notin DOMAIN es THEN es
    ELSE LET left == [es[s].counts EXCEPT ![p] = IF @ = 0 THEN 0 ELSE @ - 1]
         IN  IF Held(left) = {}
             THEN Remove(es, s)
             ELSE Put(es, s, Recount(es[s], left, DueAfterLeave(es[s], s, left)))

DueAt(es, now) == {s \in DOMAIN es : now >= es[s].next_due}

(* Mutant of tick_plan: a static sensor is parked before it has been sampled. *)
PlanParksStatic(es, now) ==
    [s \in DOMAIN es |->
        IF s \in DueAt(es, now)
        THEN [es[s] EXCEPT !.next_due = IF s \in Static THEN MaxMicros
                                        ELSE wrapping_add(now, es[s].period)]
        ELSE es[s]]

tick_plan(es, now) ==
    [s \in DOMAIN es |-> IF s \in DueAt(es, now)
                         THEN [es[s] EXCEPT !.next_due = wrapping_add(now, es[s].period)]
                         ELSE es[s]]

(* Mutant of Strike: the strikes are not capped. *)
StrikeUncapped(n) == n + 1

Strike(n) == IF n = BackoffCap THEN n ELSE n + 1
BackedOff(e, strikes, now) == wrapping_add(now, saturating_mul(e.period, 2^strikes))

CommitOk(e, s, now) ==
    [e EXCEPT !.unsupported = 0, !.timeouts = 0, !.last = now,
              !.next_due = IF s \in Static THEN MaxMicros ELSE @]

CommitUnsupported(e, now) ==
    [e EXCEPT !.unsupported = Strike(@), !.next_due = BackedOff(e, Strike(e.unsupported), now)]

CommitTimeout(e, now) ==
    [e EXCEPT !.timeouts = Strike(@), !.next_due = BackedOff(e, Strike(e.timeouts), now)]

CommitError(e, now) == [e EXCEPT !.next_due = wrapping_add(now, e.period)]

(* results: sensor |-> outcome, for the planned sensors the pool answered   *)
(* for.  A sensor unsubscribed since the plan is skipped.                   *)
tick_commit(es, results, now) ==
    [s \in DOMAIN es |->
        IF s \notin DOMAIN results THEN es[s]
        ELSE CASE results[s] = "ok"          -> CommitOk(es[s], s, now)
               [] results[s] = "unsupported" -> CommitUnsupported(es[s], now)
               [] results[s] = "timeout"     -> CommitTimeout(es[s], now)
               [] results[s] = "error"       -> CommitError(es[s], now)]

-----------------------------------------------------------------------------
Init ==
    /\ entries = [s \in {} |-> NewEntry(MaxPeriod)]
    /\ clock = 0
    /\ tick = NoTick
    /\ high = 0

Subscribe(s, req) ==
    LET p == effective_period(s, req) IN
    /\ TokensOut(entries) < MaxTokens
    /\ entries' = subscribe(entries, s, p)
    /\ UNCHANGED <<clock, tick, high>>

(* Only a holder of the token calls this; Sessions.tla shows that it is one. *)
Unsubscribe(s, p) ==
    /\ s \in DOMAIN entries
    /\ entries[s].counts[p] > 0
    /\ entries' = unsubscribe(entries, s, p)
    /\ UNCHANGED <<clock, tick, high>>

(* A tick with nothing due changes nothing. *)
TickPlan ==
    /\ ~tick.busy
    /\ DueAt(entries, clock) # {}
    /\ tick' = [busy |-> TRUE, items |-> DueAt(entries, clock), now |-> clock]
    /\ entries' = tick_plan(entries, clock)
    /\ high' = Max({high, clock})
    /\ UNCHANGED clock

(* The pool answers for some of the planned sensors; it drops the others. *)
TickCommit ==
    /\ tick.busy
    /\ \E R \in SUBSET tick.items : \E results \in [R -> Outcome] :
            entries' = tick_commit(entries, results, tick.now)
    /\ tick' = NoTick
    /\ UNCHANGED <<clock, high>>

ClockTick ==
    /\ clock < Horizon
    /\ clock' = clock + 1
    /\ UNCHANGED <<entries, tick, high>>

(* now_micros reads the wall clock, which an administrator or NTP may set back. *)
ClockStepsBack ==
    /\ clock > 0
    /\ clock' = clock - 1
    /\ UNCHANGED <<entries, tick, high>>

Next ==
    \/ \E s \in Sensors, req \in Requests : Subscribe(s, req)
    \/ \E s \in Sensors, p \in Periods : Unsubscribe(s, p)
    \/ TickPlan
    \/ TickCommit
    \/ ClockTick
    \/ ClockStepsBack

Spec == Init /\ [][Next]_vars

-----------------------------------------------------------------------------
(* Every entry is well formed, and every clock value is one the clock reads. *)
TypeOK ==
    /\ DOMAIN entries \subseteq Sensors
    /\ entries \in [DOMAIN entries -> Entry]
    /\ clock \in 0..Horizon
    /\ high \in 0..Horizon
    /\ tick \in [busy : BOOLEAN, items : SUBSET Sensors, now : 0..Horizon]

(* An entry lives exactly as long as a token for it is out, and its cached  *)
(* period_micros is the fastest period still held: nobody is sampled slower *)
(* than they asked for, and nothing is sampled for subscribers that left.   *)
PeriodIsFastest ==
    \A s \in DOMAIN entries :
        /\ entries[s].period \in Held(entries[s].counts)
        /\ \A p \in Held(entries[s].counts) : entries[s].period <= p

(* A sensor is parked at u64::MAX only once it is static and has produced a *)
(* reading.  A dropped, failed or late job never leaves it parked, the case *)
(* the comment in tick_plan calls "stuck forever".                          *)
ParkedOnlyAfterReading ==
    \A s \in DOMAIN entries :
        entries[s].next_due = MaxMicros => s \in Static /\ entries[s].last # Never

(* Whatever mix of back-offs, joins and leaves an entry goes through, an    *)
(* unparked sensor's next sample is at most 2^BackoffCap of its CURRENT     *)
(* periods past the latest clock reading used: a back-off earned at a slow  *)
(* period does not outlive the subscribers that had it.                     *)
DueWithinBackoff ==
    \A s \in DOMAIN entries :
        \/ entries[s].next_due = MaxMicros
        \/ entries[s].next_due <= high + entries[s].period * 2^BackoffCap

(* What makes DueWithinBackoff inductive: no reading is ahead of the latest.  *)
ReadingsAreOld ==
    /\ tick.now <= high
    /\ \A s \in DOMAIN entries : entries[s].last <= high

-----------------------------------------------------------------------------
(* The classes SchedulerContract speaks of, read off the numbers. *)
DueClassOf(e) ==
    IF e.next_due = MaxMicros THEN "parked" ELSE IF e.next_due <= clock THEN "due" ELSE "wait"

Contract == INSTANCE SchedulerContract WITH
    table <- [s \in DOMAIN entries |->
                [counts |-> entries[s].counts, due |-> DueClassOf(entries[s])]],
    planned <- tick.items

(* The scheduler keeps its contract: in particular a parked sensor stays    *)
(* parked through every tick and clock movement until it is subscribed to   *)
(* again, and a new subscription is due at once.                            *)
ImplementsContract == Contract!Spec
=============================================================================
