------------------------------- MODULE Alerts -------------------------------
(***************************************************************************)
(* The alert engine of linsightd (alerts.rs) with the requests that change *)
(* its rules (unix.rs) and alerts.toml.  A sample is evaluated in three    *)
(* phases: observe() under the engine lock collects one job per rule, the  *)
(* jobs run on the evaluation pool without that lock, and their outcomes   *)
(* are applied one by one, by the index of the rule.  tick_commit and the  *)
(* requests hold the scheduler mutex throughout; `lock` is that mutex.     *)
(*                                                                         *)
(* An expression is the set of sensors it refers to: it is true when all   *)
(* of them read "high" and fails to evaluate when one has no value.        *)
(***************************************************************************)
EXTENDS Integers, Sequences, SequencesExt, FiniteSets

CONSTANTS
    Sensors, RuleNames,     \* sensor ids and rule names
    Requests, Files,    \* the rules clients send and users write in the file
    Milli,              \* clock units of a millisecond
    EventCapacity,      \* EVENT_CAPACITY
    ValuesCap,          \* VALUES_CAP
    MaxWebhooks,        \* MAX_CONCURRENT_WEBHOOKS
    MaxClock, MaxSamples, MaxChanges, MaxFaults     \* bounds

\* A rule as alerts.toml has it.
RuleConfig == [name : RuleNames, expr : (SUBSET Sensors) \ {{}}, for : Nat,
               cooldown : Nat, enabled : BOOLEAN]

ASSUME AlertsAssumption ==
    /\ Requests \subseteq RuleConfig
    /\ Files \subseteq Seq(RuleConfig)
    /\ {Milli, EventCapacity, ValuesCap, MaxWebhooks} \subseteq Nat \ {0}
    /\ {MaxClock, MaxSamples, MaxChanges, MaxFaults} \subseteq Nat

VARIABLES
    loaded,     \* the scheduler has an engine
    rules,      \* AlertEngine::rules
    values,     \* AlertEngine::values and, always equal to it, ctx
    events,     \* AlertEngine::events, newest first
    lock,       \* who holds the scheduler mutex
    jobs,       \* the evaluations tick_commit is waiting for
    posts,      \* webhook POST threads running
    toml,       \* alerts.toml
    clock,      \* Instant::now()
    samples, changes, faults,   \* how much of the bounds is used up
    unsaved     \* history: the last save failed, or a crash cut it short

alertVars == <<loaded, rules, values, events, lock, jobs, posts,
               toml, clock, samples, changes, faults, unsaved>>
----------------------------------------------------------------------------
(* State *)

Never == -1

\* A rule as the engine has it.  falseAt is a history variable: when the rule
\* was defined or last evaluated to false.
CompiledRule(c) ==
    [name |-> c.name, expr |-> c.expr, for |-> c.for, cooldown |-> c.cooldown,
     enabled |-> c.enabled, triggered_at |-> Never, fired |-> FALSE,
     last_fired_at |-> Never, falseAt |-> clock]

\* format_duration writes whole milliseconds from one millisecond up.
format_duration(d) == IF d < Milli THEN d ELSE d - (d % Milli)

ConfigOf(r) ==
    [name |-> r.name, expr |-> r.expr, for |-> format_duration(r.for),
     cooldown |-> format_duration(r.cooldown), enabled |-> r.enabled]

\* What save_config writes.
Config == [i \in DOMAIN rules |-> ConfigOf(rules[i])]
----------------------------------------------------------------------------
(* Evaluation *)

\* Rules, enabled or not, whose sensors keep their values when VALUES_CAP is
\* reached.
prune_unreferenced_values ==
    [s \in Sensors |->
        IF \E i \in DOMAIN rules : s \in rules[i].expr
        THEN values[s] ELSE "none"]

Known == {s \in Sensors : values[s] # "none"}

observe(s, v) ==
    LET kept == IF values[s] = "none" /\ Cardinality(Known) >= ValuesCap
                THEN prune_unreferenced_values ELSE values
    IN  [kept EXCEPT ![s] = v]

JobsFor(s, ctx) ==
    {[idx |-> i, name |-> rules[i].name, expr |-> rules[i].expr, ctx |-> ctx] :
        i \in {i \in DOMAIN rules : rules[i].enabled /\ s \in rules[i].expr}}

eval_single(job) ==
    CASE \E s \in job.expr : job.ctx[s] = "none" -> "err"
      [] \A s \in job.expr : job.ctx[s] = "high" -> "true"
      [] OTHER -> "false"

\* What the evaluation pool comes back with: the outcome, or nothing within
\* EVAL_TIMEOUT, a panic among the reasons.
EvalOutcomes(job) == {eval_single(job), "timeout"}

push_event(e) ==
    events' = <<e>> \o IF Len(events) = EventCapacity
                       THEN Front(events) ELSE events

Event(r, kind) == [rule |-> r.name, ts |-> clock, kind |-> kind,
                   stale |-> FALSE, quiet |-> clock - r.falseAt]

\* Of the notify targets the webhook has state, a thread of its own, and is
\* dropped at the cap.  Desktop and exec targets go to an unbounded pool
\* that nothing waits for.
fire_webhook == posts' = IF posts < MaxWebhooks THEN posts + 1 ELSE posts

Triggered(r) == [r EXCEPT !.triggered_at = IF @ = Never THEN clock ELSE @]

\* Mutant: the cooldown is forgotten.
MayFire_NoCooldown(r) == ~r.fired /\ clock - r.triggered_at >= r.for

MayFire(r) ==
    /\ ~r.fired
    /\ clock - r.triggered_at >= r.for
    /\ r.last_fired_at # Never => clock - r.last_fired_at >= r.cooldown

Fired(r) == [r EXCEPT !.fired = TRUE, !.last_fired_at = clock]
Cleared(r) == [r EXCEPT !.triggered_at = Never, !.fired = FALSE,
                        !.falseAt = clock]

apply_eval_result(idx, outcome) ==
    LET r == rules[idx]
        t == Triggered(r)
    IN  CASE outcome = "true" /\ MayFire(t) ->
                /\ rules' = [rules EXCEPT ![idx] = Fired(t)]
                /\ push_event(Event(r, "fired"))
                /\ fire_webhook
          [] outcome = "true" /\ ~MayFire(t) ->
                /\ rules' = [rules EXCEPT ![idx] = t]
                /\ UNCHANGED <<events, posts>>
          [] outcome = "false" /\ r.fired ->
                /\ rules' = [rules EXCEPT ![idx] = Cleared(r)]
                /\ push_event(Event(r, "cleared"))
                /\ UNCHANGED posts
          [] outcome = "false" /\ ~r.fired ->
                /\ rules' = [rules EXCEPT ![idx] = Cleared(r)]
                /\ UNCHANGED <<events, posts>>
          [] OTHER -> UNCHANGED <<rules, events, posts>>

----------------------------------------------------------------------------
(* The sampler: tick_commit calls on_sample for every sample it commits. *)

OnSample(s, v) ==
    /\ loaded
    /\ lock = "free"
    /\ samples < MaxSamples
    /\ samples' = samples + 1
    /\ values' = observe(s, v)
    /\ jobs' = JobsFor(s, values')
    /\ lock' = IF jobs' = {} THEN "free" ELSE "commit"
    /\ UNCHANGED <<loaded, rules, events, posts, toml, clock, changes, faults,
                   unsaved>>

\* The outcome of the first rule still open arrives or is given up; the job
\* itself may go on running, but nobody listens any more.
CollectOutcome ==
    /\ lock = "commit"
    /\ \E job \in jobs :
          /\ \A other \in jobs : job.idx <= other.idx
          /\ \E outcome \in EvalOutcomes(job) : apply_eval_result(job.idx, outcome)
          /\ jobs' = jobs \ {job}
    /\ lock' = IF jobs' = {} THEN "free" ELSE "commit"
    /\ UNCHANGED <<loaded, values, toml, clock, samples, changes, faults, unsaved>>

\* do_webhook_post returns; its thread is reaped.
PostEnds ==
    /\ posts > 0
    /\ posts' = posts - 1
    /\ UNCHANGED <<loaded, rules, values, events, lock, jobs, toml,
                   clock, samples, changes, faults, unsaved>>

----------------------------------------------------------------------------
(* Requests.  Each holds the scheduler mutex from the change to the reply. *)

\* The events of a rule that is no longer what it was.
Outdated(n) ==
    [i \in DOMAIN events |->
        [events[i] EXCEPT !.stale = @ \/ events[i].rule = n]]

Change(newRules, n) ==
    /\ changes < MaxChanges
    /\ changes' = changes + 1
    /\ rules' = newRules
    /\ events' = Outdated(n)
    /\ lock' = "save"
    /\ UNCHANGED <<loaded, values, jobs, posts, toml, clock, samples,
                   faults, unsaved>>

\* An update keeps the rule's place and, when the request leaves the flag
\* open, its enabled flag; it forgets everything the rule had seen.
upsert_rule(c, open) ==
    LET at == {i \in DOMAIN rules : rules[i].name = c.name}
    IN  IF at = {} THEN Append(rules, CompiledRule(c))
        ELSE [rules EXCEPT ![Min(at)] =
                 CompiledRule([c EXCEPT !.enabled = IF open THEN rules[Min(at)].enabled
                                             ELSE @])]

\* The numbers of S from the least to the greatest.
InOrder(S) ==
    CHOOSE f \in [1 .. Cardinality(S) -> S] :
        \A i, j \in 1 .. Cardinality(S) : i < j => f[i] < f[j]

delete_rule(n) ==
    LET kept == InOrder({i \in DOMAIN rules : rules[i].name # n})
    IN  [k \in DOMAIN kept |-> rules[kept[k]]]

\* A new rule is enabled when the request leaves the flag open.
UpsertAlert(c, open) ==
    /\ loaded
    /\ lock = "free"
    /\ open => c.enabled
    /\ Change(upsert_rule(c, open), c.name)

\* Mutant: a request that does not wait for the scheduler mutex.
DeleteAlert_Unlocked(n) ==
    /\ loaded
    /\ lock # "save"
    /\ \E i \in DOMAIN rules : rules[i].name = n
    /\ Change(delete_rule(n), n)

DeleteAlert(n) ==
    /\ loaded
    /\ lock = "free"
    /\ \E i \in DOMAIN rules : rules[i].name = n
    /\ Change(delete_rule(n), n)

\* Mutant: the save is left out.
SaveOpens_Skipped ==
    /\ lock = "save"
    /\ lock' = "free"
    /\ unsaved' = FALSE
    /\ UNCHANGED <<loaded, rules, values, events, jobs, posts, toml,
                   clock, samples, changes, faults>>

\* save_config opens the file for truncation...
SaveOpens ==
    /\ lock = "save"
    /\ toml' = [ok |-> TRUE, rules |-> <<>>]
    /\ lock' = "write"
    /\ UNCHANGED <<loaded, rules, values, events, jobs, posts, clock,
                   samples, changes, faults, unsaved>>

\* ...and writes it in place.
SaveWrites ==
    /\ lock = "write"
    /\ toml' = [ok |-> TRUE, rules |-> Config]
    /\ lock' = "free"
    /\ unsaved' = FALSE
    /\ UNCHANGED <<loaded, rules, values, events, jobs, posts, clock,
                   samples, changes, faults>>

\* What a write cut short leaves: some whole rules, and perhaps part of one.
Torn == [ok : BOOLEAN, rules : {SubSeq(Config, 1, k) : k \in 0 .. Len(rules)}]

\* The file cannot be opened or written; the failure is logged, and the
\* request succeeds all the same.
SaveFails ==
    /\ faults < MaxFaults
    /\ \/ lock = "save" /\ UNCHANGED toml
       \/ lock = "write" /\ toml' \in Torn
    /\ faults' = faults + 1
    /\ lock' = "free"
    /\ unsaved' = TRUE
    /\ UNCHANGED <<loaded, rules, values, events, jobs, posts, clock,
                   samples, changes>>

\* SetDaemonSettings turns the engine off...
ToggleOff ==
    /\ lock = "free"
    /\ loaded
    /\ changes < MaxChanges
    /\ changes' = changes + 1
    /\ loaded' = FALSE
    /\ rules' = <<>>
    /\ values' = [s \in Sensors |-> "none"]
    /\ events' = <<>>
    /\ UNCHANGED <<lock, jobs, posts, toml, clock, samples, faults, unsaved>>

\* ...or loads it, as the daemon does at start.  A file that cannot be parsed
\* leaves alerts off.
Load ==
    /\ lock = "free"
    /\ ~loaded
    /\ toml.ok
    /\ loaded' = TRUE
    /\ rules' = [i \in DOMAIN toml.rules |-> CompiledRule(toml.rules[i])]
    /\ unsaved' = FALSE
    /\ UNCHANGED <<values, events, lock, jobs, posts, toml, clock,
                   samples, changes, faults>>

\* The process dies, perhaps within a save.
Crash ==
    /\ faults < MaxFaults
    /\ faults' = faults + 1
    /\ loaded' = FALSE
    /\ rules' = <<>>
    /\ values' = [s \in Sensors |-> "none"]
    /\ events' = <<>>
    /\ jobs' = {}
    /\ lock' = "free"
    /\ posts' = 0
    /\ IF lock = "write" THEN toml' \in Torn ELSE UNCHANGED toml
    /\ unsaved' = FALSE
    /\ UNCHANGED <<clock, samples, changes>>

Tick ==
    /\ clock < MaxClock
    /\ clock' = clock + 1
    /\ UNCHANGED <<loaded, rules, values, events, lock, jobs, posts,
                   toml, samples, changes, faults, unsaved>>
----------------------------------------------------------------------------
\* The user's file names each rule once.
AlertsInit ==
    /\ loaded = FALSE
    /\ rules = <<>>
    /\ values = [s \in Sensors |-> "none"]
    /\ events = <<>>
    /\ lock = "free"
    /\ jobs = {}
    /\ posts = 0
    /\ toml \in [ok : {TRUE}, rules : Files]
    /\ clock = 0
    /\ samples = 0
    /\ changes = 0
    /\ faults = 0
    /\ unsaved = FALSE

AlertsNext ==
    \/ \E s \in Sensors, v \in {"low", "high"} : OnSample(s, v)
    \/ CollectOutcome
    \/ PostEnds
    \/ \E c \in Requests, open \in BOOLEAN : UpsertAlert(c, open)
    \/ \E n \in RuleNames : DeleteAlert(n)
    \/ SaveOpens
    \/ SaveWrites
    \/ SaveFails
    \/ ToggleOff
    \/ Load
    \/ Crash
    \/ Tick

AlertsSpec == AlertsInit /\ [][AlertsNext]_alertVars
----------------------------------------------------------------------------
(* Properties *)

\* An outcome is applied to the rule it was computed for, as it was when the
\* sample came in: apply_eval_result finds the rule by an index taken before
\* the engine lock was given up (alerts.rs:296), and only the scheduler mutex
\* keeps requests from moving the rules in between.
OutcomesMeetTheirRules ==
    \A job \in jobs :
        /\ job.idx \in DOMAIN rules
        /\ rules[job.idx].name = job.name
        /\ rules[job.idx].expr = job.expr
        /\ rules[job.idx].enabled

\* Positions in the event ring of what a rule, as it is now, has reported.
Reports(n) == {i \in DOMAIN events : events[i].rule = n /\ ~events[i].stale}
NextReport(n, i) == {j \in Reports(n) : j > i}

\* The event ring tells the truth: a rule's events alternate; a rule is firing
\* exactly when its newest event says so; it has fired no sooner than its
\* `for` after it was last false, and firings are a cooldown apart.
RingTellsTheTruth ==
    \A r \in ToSet(rules) :
        LET R == Reports(r.name)
            F == {i \in R : events[i].kind = "fired"}
        IN  /\ \A i \in R : NextReport(r.name, i) # {} =>
                   events[i].kind # events[Min(NextReport(r.name, i))].kind
            /\ R # {} => (r.fired <=> events[Min(R)].kind = "fired")
            /\ r.fired /\ Len(events) < EventCapacity => R # {}
            /\ \A i \in F : events[i].quiet >= r.for
            /\ \A i, j \in F : i < j => events[i].ts - events[j].ts >= r.cooldown

\* alerts.toml says what the engine has whenever no request is under way,
\* durations cut to whole milliseconds, unless its last save failed.
FileFollowsRules ==
    loaded /\ lock = "free" /\ ~unsaved =>
        /\ toml.ok
        /\ [i \in DOMAIN toml.rules |-> ConfigOf(toml.rules[i])] = Config
=============================================================================
