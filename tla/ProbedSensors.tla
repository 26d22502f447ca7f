--------------------------- MODULE ProbedSensors ----------------------------
(***************************************************************************)
(* The sensor plugins whose calls may never return: fs (statvfs on a hung  *)
(* mount), nvml (a stuck driver) and smart (a wedged udisks2).  Each makes *)
(* the call on a thread of its own, waits for a bounded time and leaves    *)
(* the thread behind when it is late.  What keeps this from growing is a   *)
(* semaphore, a cap on the threads left behind and a backoff that doubles  *)
(* with every strike.                                                      *)
(*                                                                         *)
(* A sample holds the plugin's mutex from beginning to end, so it is one   *)
(* step; what changes between the steps is which targets hang or fail.     *)
(* Before it can be sampled the plugin is initialised.  smart asks the bus *)
(* once, as a sample does; fs asks every mount of the table, one after the *)
(* other, on a thread that none of the above counts or caps; nvml asks on  *)
(* the host's own thread.                                                  *)
(***************************************************************************)
EXTENDS Naturals, Sequences, SequencesExt, FiniteSets

CONSTANTS
    Probed,           \* the mounts or GPUs in the order of the table, in which a mount
                      \* that is mounted over comes twice
    Probers,          \* which of the plugins are looked at
    MaxConcurrent,    \* MAX_CONCURRENT_STATVFS, MAX_CONCURRENT_NVML
    MaxDetached,      \* MAX_DETACHED_HANDLES
    ProbeTtl,         \* CACHE_TTL
    BackoffMax,       \* BACKOFF_MAX in units of BACKOFF_BASE
    MaxProbeClock, MaxMoods

ProbedSet == ToSet(Probed)

ASSUME ProbesAssumption ==
    /\ Probed \in Seq(ProbedSet) /\ Probed # << >>
    /\ MaxConcurrent \in Nat \ {0} /\ MaxDetached \in Nat
    /\ ProbeTtl \in Nat /\ BackoffMax \in Nat

VARIABLES
    prober,           \* which plugin this is
    instant,            \* the clock
    mood,             \* each target: "fine", "failing" or "hung"
    until,            \* backoff: when a target may be tried again, 0 for at once
    strikes,          \* consecutive timeouts of a target
    workers,          \* detached_handles: the threads still in the call, each with
                      \* its target and the strike it counts for
    probe_cache,      \* the last snapshot: [taken, at, data]
    probe,            \* the last sample: [target, ok, age]
    blocked,          \* the semaphore had no permit left for its own caller
    stage,            \* of the plugin: "init", "ready" or "refused"
    lines,            \* how many lines of the mount table init_inner has been through
    strays,           \* the lines whose call in init_inner has not returned yet
    moods             \* number of changes of mood so far

probeVars == <<prober, instant, mood, until, strikes, workers, probe_cache, probe, blocked,
               stage, lines, strays, moods>>

Workers == Cardinality(workers)
Shift(k) == 2 ^ (IF k > 8 THEN 8 ELSE k)
Backoff(k) == IF Shift(k) > BackoffMax THEN BackoffMax ELSE Shift(k)
BackedOff(t) == instant < until[t]

\* What is known of the targets, of which b.strikes and b.until change here.
mark_backoff(b, t) == [b EXCEPT !.strikes[t] = @ + 1,
                                !.until[t] = instant + Backoff(b.strikes[t] + 1)]
clear_backoff(b, t) == [b EXCEPT !.strikes[t] = 0, !.until[t] = 0]

(***************************************************************************)
(* fs, snapshot_with.  The loop carries the calls in flight, whether the   *)
(* common deadline has passed, how many threads it has started, which of   *)
(* them it leaves behind, and whether the caller would wait for a permit   *)
(* only it can give back.  The code keeps the outcomes and goes through    *)
(* them in the end; here each is marked as it comes, which is the same:    *)
(* the order is the same and nothing reads the marks in between.           *)
(* slow: healthy targets whose answer is not there yet when they are       *)
(* started after the deadline, and given no time at all.                   *)
(***************************************************************************)
Outcome(p, slow) ==
    IF mood[p.target] = "hung" \/ (p.spent /\ p.target \in slow) THEN "timeout"
    ELSE mood[p.target]

Settle(acc, t, o) ==
    CASE o = "timeout" -> mark_backoff(acc, t)
      [] o = "fine" -> [clear_backoff(acc, t) EXCEPT !.stats = @ \cup {t}]
      [] OTHER -> acc

\* The threads of b that are still in the call when t is waited for in vain.
StillHung(ws, b, t) ==
    IF mood[t] = "hung" THEN ws \cup {[target |-> t, strike |-> b.strikes[t] + 1]} ELSE ws

DrainFirst(acc) ==
    LET p == Head(acc.pending)
    IN [Settle(acc, p.target, Outcome(p, acc.slow)) EXCEPT
            !.pending = Tail(@), !.spent = @ \/ mood[p.target] = "hung",
            !.left = StillHung(@, acc, p.target)]

Start(acc, t) ==
    [acc EXCEPT !.pending = Append(@, [target |-> t, spent |-> acc.spent]),
                !.started = @ + 1,
                !.blocked = @ \/ Len(acc.pending) >= MaxConcurrent]

\* MUTANT: threads left behind by earlier snapshots are not counted.
Launch_Uncapped(acc, t) == Start(acc, t)

Launch(acc, t) ==
    IF Workers + acc.started >= MaxDetached THEN Settle(acc, t, "timeout") ELSE Start(acc, t)

NextMount(acc, t) ==
    IF BackedOff(t) THEN acc
    ELSE Launch(IF Len(acc.pending) >= MaxConcurrent THEN DrainFirst(acc) ELSE acc, t)
NextPending(acc, p) == DrainFirst(acc)

Gather(slow) ==
    LET begin == [slow |-> slow, pending |-> << >>, spent |-> FALSE, started |-> 0,
                  left |-> {}, blocked |-> FALSE, stats |-> {},
                  strikes |-> strikes, until |-> until]
        launched == FoldLeft(NextMount, begin, Probed)
    IN FoldLeft(NextPending, launched, launched.pending)

Answer(t, ok, age) == [target |-> t, ok |-> ok, age |-> age]
Unasked == UNCHANGED <<until, strikes, workers, probe_cache, blocked>>
Steady == UNCHANGED <<prober, instant, mood, stage, lines, strays, moods>>
Marked(b) == strikes' = b.strikes /\ until' = b.until
Marks == [strikes |-> strikes, until |-> until]

FreshProbe == probe_cache.taken /\ instant - probe_cache.at <= ProbeTtl
Cached(t) == probe_cache.taken /\ t \in probe_cache.data
Refreshed(ts) == [taken |-> TRUE, at |-> instant, data |-> ts]

sample_fs(t, slow) ==
    /\ prober = "fs" /\ stage = "ready" /\ t \in ProbedSet /\ Steady
    /\ LET g == Gather(slow)
       IN IF FreshProbe \/ \A m \in ProbedSet : BackedOff(m)
          THEN /\ Unasked
               /\ probe' = IF FreshProbe THEN Answer(t, Cached(t), instant - probe_cache.at)
                           ELSE Answer(t, FALSE, 0)
          ELSE /\ Marked(g)
               /\ workers' = workers \cup g.left
               /\ blocked' = g.blocked
               /\ probe_cache' = IF g.stats = {} THEN probe_cache ELSE Refreshed(g.stats)
               /\ probe' = Answer(t, t \in g.stats, 0)

\* fs, init_inner: statvfs_raw asks the next mount, waits and leaves its thread to
\* itself.  The mount's path may make no device key, which ends init with an error; two
\* lines may end with one key, for which the host refuses the manifest.  Which paths do
\* either is left open.
init_fs(keyed) ==
    /\ prober = "fs" /\ stage = "init" /\ lines < Len(Probed)
    /\ LET line == lines + 1
       IN strays' = IF mood[Probed[line]] = "hung" THEN strays \cup {line} ELSE strays
    /\ IF keyed THEN lines' = lines + 1 /\ UNCHANGED stage
       ELSE stage' = "refused" /\ UNCHANGED lines
    /\ UNCHANGED <<prober, instant, mood, moods, probe>> /\ Unasked
registers_fs(unique) ==
    /\ prober = "fs" /\ stage = "init" /\ lines = Len(Probed)
    /\ stage' = IF unique THEN "ready" ELSE "refused"
    /\ UNCHANGED <<prober, instant, mood, lines, strays, moods, probe>> /\ Unasked

\* nvml, sample_inner_with: one GPU at a time, no cache.
nvml_init ==
    /\ prober = "nvml" /\ stage = "init" /\ stage' = "ready"
    /\ UNCHANGED <<prober, instant, mood, lines, strays, moods, probe>> /\ Unasked
sample_device(t) == mood[t]
sample_nvml(t) ==
    /\ prober = "nvml" /\ stage = "ready" /\ t \in ProbedSet /\ Steady
    /\ IF BackedOff(t) THEN Unasked /\ probe' = Answer(t, FALSE, 0)
       ELSE LET capped == Workers >= MaxDetached
                was == IF capped \/ sample_device(t) = "hung" THEN "timeout"
                       ELSE sample_device(t)
            IN /\ Marked(CASE was = "timeout" -> mark_backoff(Marks, t)
                           [] was = "fine" -> clear_backoff(Marks, t)
                           [] OTHER -> Marks)
               /\ workers' = IF capped THEN workers ELSE StillHung(workers, Marks, t)
               /\ probe' = Answer(t, was = "fine", 0)
               /\ UNCHANGED <<probe_cache, blocked>>

\* smart: one bus for every drive (Probed[1]); what could not be refreshed is
\* answered from the old cache, however old.
Bus == Probed[1]
fetch_smart_drives == mood[Bus]
Capped == Workers >= MaxDetached
fetch_smart_drives_timeout(drives) ==
    /\ drives = IF Capped \/ fetch_smart_drives = "hung" THEN "timeout" ELSE fetch_smart_drives
    /\ Marked(IF drives = "timeout" THEN mark_backoff(Marks, Bus) ELSE clear_backoff(Marks, Bus))
    /\ workers' = IF Capped THEN workers ELSE StillHung(workers, Marks, Bus)
    /\ probe_cache' = IF drives = "fine" THEN Refreshed({Bus}) ELSE probe_cache

\* Without the bus the plugin registers no sensor, and is not sampled.
init_smart(drives) ==
    /\ prober = "smart" /\ stage = "init"
    /\ fetch_smart_drives_timeout(drives)
    /\ stage' = IF drives = "fine" THEN "ready" ELSE "refused"
    /\ UNCHANGED <<prober, instant, mood, blocked, probe, lines, strays, moods>>

sample_smart(drives) ==
    /\ prober = "smart" /\ stage = "ready" /\ Steady /\ UNCHANGED blocked
    /\ LET stale == Answer(Bus, probe_cache.taken, instant - probe_cache.at)
       IN IF FreshProbe \/ BackedOff(Bus)
          THEN probe' = stale /\ UNCHANGED <<until, strikes, workers, probe_cache>>
          ELSE /\ fetch_smart_drives_timeout(drives)
               /\ probe' = IF drives = "fine" THEN Answer(Bus, TRUE, 0) ELSE stale

(***************************************************************************)
(* The targets.                                                            *)
(***************************************************************************)
ProbesInit ==
    /\ prober \in Probers /\ instant = 0 /\ moods = 0
    /\ stage = "init" /\ lines = 0 /\ strays = {}
    /\ mood = [t \in ProbedSet |-> "fine"]
    /\ until = [t \in ProbedSet |-> 0] /\ strikes = [t \in ProbedSet |-> 0]
    /\ workers = {} /\ blocked = FALSE
    /\ probe_cache = [taken |-> FALSE, at |-> 0, data |-> {}]
    /\ probe = [target |-> Probed[1], ok |-> FALSE, age |-> 0]

\* The calls that return after all end their threads, whose answers nobody waits for.
TurnsMood(t, m) ==
    /\ moods < MaxMoods /\ mood[t] # m
    /\ mood' = [mood EXCEPT ![t] = m]
    /\ workers' = IF mood[t] = "hung" THEN {w \in workers : w.target # t} ELSE workers
    /\ strays' = IF mood[t] = "hung" THEN {i \in strays : Probed[i] # t} ELSE strays
    /\ moods' = moods + 1
    /\ UNCHANGED <<prober, instant, until, strikes, probe_cache, probe, blocked, stage, lines>>

ProbeTick ==
    /\ instant < MaxProbeClock /\ instant' = instant + 1
    /\ UNCHANGED <<prober, mood, until, strikes, workers, probe_cache, probe, blocked, stage,
                   lines, strays, moods>>

ProbesNext ==
    \/ \E keyed \in BOOLEAN : init_fs(keyed)
    \/ \E unique \in BOOLEAN : registers_fs(unique)
    \/ nvml_init
    \/ \E drives \in {"fine", "failing", "timeout"} : init_smart(drives)
    \/ \E t \in ProbedSet, slow \in SUBSET ProbedSet : sample_fs(t, slow)
    \/ \E t \in ProbedSet : sample_nvml(t)
    \/ \E drives \in {"fine", "failing", "timeout"} : sample_smart(drives)
    \/ \E t \in ProbedSet, m \in {"fine", "failing", "hung"} : TurnsMood(t, m)
    \/ ProbeTick

ProbesSpec == ProbesInit /\ [][ProbesNext]_probeVars

(***************************************************************************)
(* Properties                                                              *)
(***************************************************************************)
\* However targets hang and recover, the threads that samples leave behind never exceed
\* the cap, and each of them cost its target a strike of its own; what init leaves behind
\* comes on top, by at most one thread for each line of the mount table; the caller never
\* waits for a permit that only it holds; and no reading is older than the cache allows
\* except a SMART one that udisks2 would not refresh.
ProbesAreContained ==
    /\ Workers <= MaxDetached
    /\ \A w \in workers : w.strike \in 1..strikes[w.target]
    /\ Workers + Cardinality(strays) <= MaxDetached + (IF prober = "fs" THEN lines + 1 ELSE 0)
    /\ ~ blocked
    /\ probe.ok /\ probe.age > ProbeTtl => prober = "smart"
=============================================================================
