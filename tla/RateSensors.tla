---------------------------- MODULE RateSensors -----------------------------
(***************************************************************************)
(* The sensor plugins that report work done since they last looked: cpu    *)
(* (the aggregate and the cores), proc, systemd, containers and xe.  The   *)
(* kernel keeps one growing counter per task (core, process, unit,         *)
(* container, GPU client); a sample takes the counters, subtracts what it  *)
(* remembers of them and remembers the new ones.  Who else sampled in the  *)
(* meantime, which tasks came, went or could not be read, and how old the  *)
(* shared snapshot is, decide what a sample is the difference of: a report *)
(* carries the two ends of its window instead of a percentage.             *)
(***************************************************************************)
EXTENDS Naturals, FiniteSets

CONSTANTS
    Tasks,          \* cores, pids, units, scopes or GPU clients
    Digits,         \* number of digits in the number of core t
    RatePlugins,    \* which of the plugins are looked at
    RateTtl,        \* PROC_STAT_CACHE_TTL, FDINFO_CACHE_TTL
    RescanEvery,    \* FDINFO_FULL_RESCAN_INTERVAL
    MaxCounted,     \* of proc, systemd and containers: MAX_PIDS_PER_SAMPLE, MAX_UNITS,
                    \* MAX_CONTAINERS
    MaxWork, MaxRateClock, MaxUpsets

ASSUME RatesAssumption == Tasks # {}

VARIABLES
    kind,           \* which plugin this is
    work,           \* the kernel's counters
    alive,          \* tasks that exist
    legible,        \* tasks whose counter can be read
    tick,           \* the clock
    snap,           \* the shared snapshot: [at, data], or NoSnap
    prev,           \* what the plugin remembers: [data], or NoPrev
    core_util,      \* cpu: core_util_cache, [snapshot, util]
    index,          \* xe: drm_fd_index
    rescanned,      \* xe: last_full_rescan
    report,         \* windows of the last sample
    upsets,         \* number of exits, restarts and unreadable files so far
    seen, missed    \* ghosts: last window reported per task; tasks the last scan missed

rateVars == <<kind, work, alive, legible, tick, snap, prev, core_util, index, rescanned,
              report, upsets, seen, missed>>

NoSnap == [at |-> 0, data |-> [t \in {} |-> 0], taken |-> FALSE]
NoPrev == [known |-> FALSE, data |-> [t \in {} |-> 0]]
NoWindow == [lo |-> 0, hi |-> 0, any |-> FALSE]

Counters(ts) == [t \in ts |-> work[t]]
Snapshot(ts) == [at |-> tick, data |-> Counters(ts), taken |-> TRUE]
Remember(d) == [known |-> TRUE, data |-> d]
Recall(d, t) == IF t \in DOMAIN d THEN d[t] ELSE 0

\* saturating_sub: a counter that went backwards is a window without work.
Span(lo, hi) == [lo |-> IF lo <= hi THEN lo ELSE hi, hi |-> hi, any |-> TRUE]

\* What a sample says of the tasks of wins, of which windows it is the sequel, and
\* whether the scan before it missed them.
Report(wins) ==
    /\ report' = {[task |-> t, win |-> wins[t], after |-> seen[t], missed |-> t \in missed] :
                     t \in DOMAIN wins}
    /\ seen' = [t \in Tasks |-> IF t \in DOMAIN wins THEN wins[t] ELSE seen[t]]

(***************************************************************************)
(* cpu.  parse_core_stats takes a line for a core when one digit and white *)
(* space follow "cpu"; init advertises core0 .. core(n-1) for the n cores  *)
(* it parsed.                                                              *)
(***************************************************************************)
parse_core_stats == {t \in Tasks : Digits[t] = 1}

Fresh(s, ttl) == s.taken /\ tick - s.at <= ttl
proc_stat_snapshot == IF Fresh(snap, RateTtl) THEN snap ELSE Snapshot(Tasks)

\* The aggregate is the first line of the file, a counter of the kernel's own.
All == CHOOSE t \in Tasks : TRUE
Aggregate(d) == d[All]

\* MUTANT: the baseline is set once and never moved.
Baseline_Sticks(data) == IF prev.known THEN prev ELSE Remember(data)
Baseline(data) == Remember(data)

sample_cpu ==
    /\ kind = "cpu" /\ legible = Tasks
    /\ LET s == proc_stat_snapshot
           now == Aggregate(s.data)
           before == IF prev.known THEN Aggregate(prev.data) ELSE now
       IN /\ snap' = s /\ prev' = Baseline(s.data)
          /\ Report([t \in {All} |-> Span(before, now)])
    /\ UNCHANGED <<kind, work, alive, legible, tick, core_util, index, rescanned, upsets, missed>>

\* refresh_core_util_cache: siblings of one snapshot share one window.
CoreSnapshot(s) == [t \in parse_core_stats |-> s.data[t]]
sample_core(c) ==
    /\ kind = "cores" /\ legible = Tasks /\ c \in parse_core_stats
    /\ LET s == proc_stat_snapshot
           cur == CoreSnapshot(s)
           same == core_util.known /\ core_util.snapshot = cur
           util == IF same THEN core_util.util
                   ELSE [t \in DOMAIN cur |->
                            Span(IF t \in DOMAIN prev.data THEN prev.data[t] ELSE cur[t], cur[t])]
       IN /\ snap' = s
          /\ prev' = IF same THEN prev ELSE Baseline(cur)
          /\ core_util' = [known |-> TRUE, snapshot |-> cur, util |-> util]
          /\ Report([t \in {c} |-> core_util'.util[t]])
    /\ UNCHANGED <<kind, work, alive, legible, tick, index, rescanned, upsets, missed>>

(***************************************************************************)
(* The tables: every task is read, up to a limit and in the order read_dir *)
(* gives; what was not read is not remembered.                             *)
(***************************************************************************)
Tabulate(listed, data, wins) ==
    /\ prev' = Baseline(data)
    /\ Report(wins)
    /\ missed' = alive \ (listed \cap legible)
    /\ UNCHANGED <<kind, work, alive, legible, tick, snap, core_util, index, rescanned, upsets>>

ScanLists(n) == {l \in SUBSET alive : Cardinality(l) = (IF Cardinality(alive) < n
                                                       THEN Cardinality(alive) ELSE n)}

enumerate_pids == ScanLists(MaxCounted["proc"])
enumerate_units == ScanLists(MaxCounted["systemd"])
enumerate_containers == ScanLists(MaxCounted["containers"])

\* proc: a process that cannot be read is skipped; one the last sample did not
\* have reports nothing.
read_process_info(listed) == Counters(listed \cap legible)
sample_proc(listed) ==
    /\ kind = "proc" /\ listed \in enumerate_pids
    /\ LET now == read_process_info(listed)
       IN Tabulate(listed, now,
                   [t \in DOMAIN now |-> Span(IF t \in DOMAIN prev.data
                                                THEN prev.data[t] ELSE now[t], now[t])])

\* systemd and containers: a counter that cannot be read is zero, and so is one
\* that is not remembered, unless nothing is.
Zeroed(listed) == [t \in listed |-> IF t \in legible THEN work[t] ELSE 0]
CgroupWindows(now) ==
    [t \in DOMAIN now |-> IF prev.data = NoPrev.data THEN Span(now[t], now[t])
                          ELSE Span(Recall(prev.data, t), now[t])]

sample_systemd(listed) ==
    /\ kind = "systemd" /\ listed \in enumerate_units
    /\ Tabulate(listed, Zeroed(listed), CgroupWindows(Zeroed(listed)))

sample_containers(listed) ==
    /\ kind = "containers" /\ listed \in enumerate_containers
    /\ Tabulate(listed, Zeroed(listed), CgroupWindows(Zeroed(listed)))

(***************************************************************************)
(* xe.  A snapshot is shared for FDINFO_CACHE_TTL; a full scan finds every *)
(* client, a scan in between only the ones of the index, and the index is  *)
(* what the last scan found.  A client without a remembered counter is new *)
(* work as a whole; without any remembered client there is no clock to     *)
(* divide by.                                                              *)
(***************************************************************************)
full_due == rescanned = 0 \/ tick + 1 - rescanned >= RescanEvery
discover_pid_drm_fds == legible
read_known_drm_fdinfos == legible \cap index
capture_all_filtered(full) == IF full THEN discover_pid_drm_fds ELSE read_known_drm_fdinfos
parse_into_any(found) == Snapshot(found)

per_class_util(before, cur) ==
    [t \in DOMAIN cur |-> IF ~ before.known \/ DOMAIN before.data = {}
                          THEN Span(cur[t], cur[t])
                          ELSE Span(Recall(before.data, t), cur[t])]

sample_xe ==
    /\ kind = "xe"
    /\ LET scan == ~ (snap.taken /\ tick - snap.at < RateTtl)
           found == capture_all_filtered(full_due)
           s == IF scan THEN parse_into_any(found) ELSE snap
       IN /\ snap' = s
          /\ index' = IF scan THEN found ELSE index
          /\ rescanned' = IF scan /\ full_due THEN tick + 1 ELSE rescanned
          /\ prev' = Baseline(s.data)
          /\ Report(per_class_util(prev, s.data))
          /\ missed' = IF scan THEN alive \ found ELSE missed
    /\ UNCHANGED <<kind, work, alive, legible, tick, core_util, upsets>>

(***************************************************************************)
(* The system under observation.                                           *)
(***************************************************************************)
RatesInit ==
    /\ kind \in RatePlugins
    /\ work = [t \in Tasks |-> 0] /\ alive = Tasks /\ legible = Tasks
    /\ tick = 0 /\ snap = NoSnap /\ prev = NoPrev /\ index = {} /\ rescanned = 0
    /\ core_util = [known |-> FALSE, snapshot |-> NoSnap.data, util |-> NoSnap.data]
    /\ report = {} /\ upsets = 0 /\ missed = {}
    /\ seen = [t \in Tasks |-> NoWindow]

Upset == /\ upsets < MaxUpsets /\ upsets' = upsets + 1
         /\ UNCHANGED <<kind, tick, snap, prev, core_util, index, rescanned, report, missed>>
IsCpu == kind \in {"cpu", "cores"}

Works(t) ==
    /\ t \in alive /\ work[t] < MaxWork
    /\ work' = [work EXCEPT ![t] = @ + 1]
    /\ UNCHANGED <<kind, alive, legible, tick, snap, prev, core_util, index, rescanned,
                   report, upsets, seen, missed>>
Exits(t) ==
    /\ Upset /\ ~ IsCpu /\ t \in alive
    /\ alive' = alive \ {t} /\ legible' = legible \ {t}
    /\ UNCHANGED <<work, seen>>
\* A new task under an old number: the counter starts again.
Starts(t) ==
    /\ Upset /\ t \notin alive
    /\ alive' = alive \cup {t} /\ legible' = legible \cup {t}
    /\ work' = [work EXCEPT ![t] = 0] /\ seen' = [seen EXCEPT ![t] = NoWindow]
Illegible(t) ==
    /\ Upset /\ t \in legible /\ legible' = legible \ {t}
    /\ UNCHANGED <<work, alive, seen>>
Legible ==
    /\ legible # alive /\ legible' = alive
    /\ UNCHANGED <<kind, work, alive, tick, snap, prev, core_util, index, rescanned,
                   report, upsets, seen, missed>>
RateTick ==
    /\ tick < MaxRateClock /\ tick' = tick + 1
    /\ UNCHANGED <<kind, work, alive, legible, snap, prev, core_util, index, rescanned,
                   report, upsets, seen, missed>>

RatesNext ==
    \/ sample_cpu
    \/ \E c \in Tasks : sample_core(c)
    \/ \E l \in SUBSET Tasks : sample_proc(l) \/ sample_systemd(l) \/ sample_containers(l)
    \/ sample_xe
    \/ \E t \in Tasks : Works(t) \/ Exits(t) \/ Starts(t) \/ Illegible(t)
    \/ Legible
    \/ RateTick

RatesSpec == RatesInit /\ [][RatesNext]_rateVars

(***************************************************************************)
(* Properties                                                              *)
(***************************************************************************)
\* Work is reported once: whoever else samples, whatever the shared snapshot's age
\* and whichever tasks come and go, the window of a report begins where the task's
\* last reported window ended, or is that same window again for a core whose
\* snapshot has not changed; a core may leave out windows only its siblings were
\* asked about.  Only a task the scan before could not read, or did not list, may be
\* counted again, and only by the plugins that take a missing counter for zero.
NoWorkCountedTwice ==
    \A r \in report :
        r.win.lo < r.win.hi /\ r.after.any =>
            \/ r.win.lo = r.after.hi
            \/ kind = "cores" /\ (r.win.lo > r.after.hi \/ r.win = r.after)
            \/ kind \in {"systemd", "containers", "xe"} /\ r.missed
=============================================================================
