----------------------------- MODULE SensorProofs ----------------------------
(***************************************************************************)
(* What is proved of the sensor plugins: that work is counted once         *)
(* (RateSensors), that calls that never return stay contained              *)
(* (ProbedSensors), and that what is read from the files of a device is    *)
(* told of that device (Sensors).                                          *)
(***************************************************************************)
EXTENDS RateSensors, ProbedSensors, Sensors, FiniteSetTheorems, SequenceTheorems,
        WellFoundedInduction, TLAPS

-----------------------------------------------------------------------------
(* RateSensors: the inductive invariant.                                    *)

Window == [lo : Nat, hi : Nat, any : BOOLEAN]
CountersOf(d) == DOMAIN d \subseteq Tasks /\ \A t \in DOMAIN d : d[t] \in Nat

RatesTypes ==
    /\ work \in [Tasks -> Nat] /\ seen \in [Tasks -> Window]
    /\ alive \subseteq Tasks /\ legible \subseteq alive
    /\ CountersOf(prev.data) /\ CountersOf(snap.data)

(* The tables and xe: of a task that is remembered the last window ended at *)
(* what is remembered; a task that is not was never reported, is gone, or   *)
(* was missed by the last scan.                                             *)
IsTable == kind \in {"proc", "systemd", "containers", "xe"}
WindowsEndAtBaseline == \A t \in DOMAIN prev.data : seen[t].any => seen[t].hi = prev.data[t]
ReportedAreRemembered == \A t \in alive \ missed : seen[t].any => t \in DOMAIN prev.data

(* The cpu's lines are never missing and never begin again; a snapshot is   *)
(* of all of them, and of the past.                                         *)
LinesOnlyGrow ==
    /\ alive = Tasks
    /\ snap.taken => DOMAIN snap.data = Tasks /\ \A t \in Tasks : snap.data[t] <= work[t]
AggregateInStep ==
    /\ prev.known => All \in DOMAIN prev.data
    /\ seen[All].any => prev.known /\ seen[All].hi = prev.data[All]

(* The cores: baseline, cache and snapshot are of the same moment, and a    *)
(* core was last told its window of the cache or one that ended before.     *)
CoreInStep(c) ==
    /\ core_util.util[c] \in Window
    /\ core_util.util[c].lo <= core_util.util[c].hi
    /\ core_util.util[c].hi = prev.data[c]
    /\ seen[c].any => seen[c] = core_util.util[c] \/ seen[c].hi <= core_util.util[c].lo
CoresInStep ==
    IF core_util.known
    THEN /\ snap.taken /\ prev.data = core_util.snapshot /\ prev.data = CoreSnapshot(snap)
         /\ \A c \in parse_core_stats : CoreInStep(c)
    ELSE prev.data = NoPrev.data /\ \A t \in Tasks : ~ seen[t].any

RatesInv ==
    /\ RatesTypes
    /\ IsTable => WindowsEndAtBaseline /\ ReportedAreRemembered
    /\ kind = "xe" => prev.data = snap.data
    /\ IsCpu => LinesOnlyGrow
    /\ kind = "cpu" => AggregateInStep
    /\ kind = "cores" => CoresInStep
    /\ NoWorkCountedTwice

-----------------------------------------------------------------------------
(* RateSensors: what a window, a report and a step of the machine do.       *)

LEMMA AllIsATask == All \in Tasks
  BY RatesAssumption, Zenon DEF All

(* A window has the counter as its end, and work in it only from its start. *)
LEMMA Spans ==
  ASSUME NEW a \in Nat, NEW b \in Nat
  PROVE  /\ Span(a, b) \in Window /\ Span(a, b).hi = b /\ Span(a, b).any
         /\ Span(a, b).lo <= b /\ (a <= b => Span(a, b).lo = a)
         /\ (Span(a, b).lo < Span(a, b).hi => Span(a, b).lo = a)
  BY DEF Span, Window

(* A window that tells no work of the task twice, as the property has it. *)
Resumes(w, t) ==
    w.lo < w.hi /\ seen[t].any =>
        \/ w.lo = seen[t].hi
        \/ kind = "cores" /\ (w.lo > seen[t].hi \/ w = seen[t])
        \/ kind \in {"systemd", "containers", "xe"} /\ t \in missed

LEMMA ReportIsHeard ==
  ASSUME RatesTypes, NEW wins, DOMAIN wins \subseteq Tasks,
         \A t \in DOMAIN wins : wins[t] \in Window,
         Report(wins)
  PROVE  /\ seen' \in [Tasks -> Window]
         /\ \A t \in DOMAIN wins : seen'[t] = wins[t]
         /\ \A t \in Tasks \ DOMAIN wins : seen'[t] = seen[t]
  BY DEF Report, RatesTypes

LEMMA ReportIsJudged ==
  ASSUME NEW wins, Report(wins), kind' = kind,
         \A t \in DOMAIN wins : Resumes(wins[t], t)
  PROVE  NoWorkCountedTwice'
<1> SUFFICES ASSUME NEW r \in report', r.win.lo < r.win.hi, r.after.any
             PROVE  \/ r.win.lo = r.after.hi
                    \/ kind = "cores" /\ (r.win.lo > r.after.hi \/ r.win = r.after)
                    \/ kind \in {"systemd", "containers", "xe"} /\ r.missed
  BY DEF NoWorkCountedTwice
<1>1. PICK t \in DOMAIN wins :
        r = [task |-> t, win |-> wins[t], after |-> seen[t], missed |-> t \in missed]
  BY DEF Report
<1>2. r.win = wins[t] /\ r.after = seen[t] /\ r.missed = (t \in missed)
  BY <1>1
<1>3. Resumes(wins[t], t)
  OBVIOUS
<1> QED
  BY <1>2, <1>3 DEF Resumes

(* The machine works, and tasks come and go, between two samples. *)
LEMMA MachineMovesOn ==
  ASSUME RatesInv, UNCHANGED <<kind, snap, prev, core_util, report, missed>>,
         work' \in [Tasks -> Nat], seen' \in [Tasks -> Window],
         alive' \subseteq Tasks, legible' \subseteq alive',
         \A t \in Tasks : seen'[t] = seen[t] \/ ~ seen'[t].any,
         \A t \in alive' : t \in alive \/ ~ seen'[t].any,
         IsCpu => alive' = alive /\ seen' = seen /\ \A t \in Tasks : work[t] <= work'[t]
  PROVE  RatesInv'
<1>1. RatesTypes'
  BY DEF RatesInv, RatesTypes, CountersOf
<1>2. ASSUME IsTable' PROVE WindowsEndAtBaseline' /\ ReportedAreRemembered'
  <2>1. IsTable /\ WindowsEndAtBaseline /\ ReportedAreRemembered
    BY <1>2 DEF IsTable, RatesInv
  <2>2. DOMAIN prev.data \subseteq Tasks
    BY DEF RatesInv, RatesTypes, CountersOf
  <2>3. WindowsEndAtBaseline'
    BY <2>1, <2>2 DEF WindowsEndAtBaseline
  <2>4. ReportedAreRemembered'
    BY <2>1 DEF ReportedAreRemembered
  <2> QED
    BY <2>3, <2>4
<1>3. kind' = "xe" => prev'.data = snap'.data
  BY DEF RatesInv
<1>4. ASSUME IsCpu' PROVE LinesOnlyGrow'
  <2>1. IsCpu /\ LinesOnlyGrow /\ alive' = alive /\ \A t \in Tasks : work[t] <= work'[t]
    BY <1>4 DEF IsCpu, RatesInv
  <2>2. ASSUME snap'.taken, NEW t \in Tasks PROVE snap'.data[t] <= work'[t]
    <3>1. snap.data[t] \in Nat /\ work[t] \in Nat /\ work'[t] \in Nat /\ snap.data[t] <= work[t]
      BY <2>1, <2>2 DEF LinesOnlyGrow, RatesInv, RatesTypes, CountersOf
    <3> QED
      BY <2>1, <3>1
  <2> QED
    BY <2>1, <2>2 DEF LinesOnlyGrow
<1>5. kind' = "cpu" => AggregateInStep'
  BY DEF RatesInv, IsCpu, AggregateInStep
<1>6. kind' = "cores" => CoresInStep'
  BY DEF RatesInv, IsCpu, CoresInStep, CoreInStep, CoreSnapshot
<1>7. NoWorkCountedTwice'
  BY DEF RatesInv, NoWorkCountedTwice
<1> QED
  BY <1>1, <1>2, <1>3, <1>4, <1>5, <1>6, <1>7 DEF RatesInv

LEMMA RatesStartSound == RatesInit => RatesInv
<1> SUFFICES ASSUME RatesInit PROVE RatesInv
  OBVIOUS
<1>1. NoWindow \in Window /\ NoWindow.any = FALSE
  BY DEF NoWindow, Window
<1>2. \A t \in Tasks : seen[t] = NoWindow
  BY DEF RatesInit
<1>3. DOMAIN prev.data = {} /\ prev.data = NoPrev.data /\ snap.data = prev.data /\ ~ snap.taken
  BY DEF RatesInit, NoPrev, NoSnap
<1>4. RatesTypes
  BY <1>1, <1>3 DEF RatesTypes, RatesInit, CountersOf
<1>5. WindowsEndAtBaseline /\ ReportedAreRemembered
  BY <1>1, <1>2, <1>3 DEF WindowsEndAtBaseline, ReportedAreRemembered, RatesInit
<1>6. LinesOnlyGrow
  BY <1>3 DEF LinesOnlyGrow, RatesInit
<1>7. AggregateInStep
  BY <1>1, <1>2, AllIsATask DEF AggregateInStep, RatesInit, NoPrev
<1>8. CoresInStep
  BY <1>1, <1>2, <1>3 DEF CoresInStep, RatesInit
<1>9. NoWorkCountedTwice
  BY DEF NoWorkCountedTwice, RatesInit
<1> QED
  BY <1>3, <1>4, <1>5, <1>6, <1>7, <1>8, <1>9 DEF RatesInv

LEMMA MachineStepsSound ==
  ASSUME RatesInv,
         \/ \E t \in Tasks : Works(t) \/ Exits(t) \/ Starts(t) \/ Illegible(t)
         \/ Legible \/ RateTick
  PROVE  RatesInv'
<1>0. /\ work \in [Tasks -> Nat] /\ seen \in [Tasks -> Window]
      /\ alive \subseteq Tasks /\ legible \subseteq alive /\ (IsCpu => alive = Tasks)
  BY DEF RatesInv, RatesTypes, LinesOnlyGrow
<1>1. NoWindow \in Window /\ NoWindow.any = FALSE
  BY DEF NoWindow, Window
<1>2. UNCHANGED <<kind, snap, prev, core_util, report, missed>>
  BY DEF Works, Exits, Starts, Illegible, Legible, RateTick, Upset
<1>3. ASSUME NEW t \in Tasks, Works(t) PROVE RatesInv'
  <2>1. /\ work' \in [Tasks -> Nat] /\ UNCHANGED <<seen, alive, legible>>
        /\ \A u \in Tasks : work[u] <= work'[u]
    BY <1>0, <1>3 DEF Works
  <2> QED
    BY <1>0, <1>2, <2>1, MachineMovesOn
<1>4. ASSUME NEW t \in Tasks, Exits(t) PROVE RatesInv'
  <2>1. /\ UNCHANGED <<work, seen>> /\ ~ IsCpu
        /\ alive' = alive \ {t} /\ legible' = legible \ {t}
    BY <1>4 DEF Exits
  <2> QED
    BY <1>0, <1>2, <2>1, MachineMovesOn
<1>5. ASSUME NEW t \in Tasks, Starts(t) PROVE RatesInv'
  <2>1. /\ t \notin alive /\ alive' = alive \cup {t} /\ legible' = legible \cup {t}
        /\ work' = [work EXCEPT ![t] = 0] /\ seen' = [seen EXCEPT ![t] = NoWindow]
    BY <1>5 DEF Starts
  <2>2. ~ IsCpu
    BY <1>0, <2>1
  <2>3. work' \in [Tasks -> Nat] /\ seen' \in [Tasks -> Window] /\ ~ seen'[t].any
    BY <1>0, <1>1, <2>1
  <2>4. \A u \in Tasks : seen'[u] = seen[u] \/ ~ seen'[u].any
    BY <1>0, <1>1, <2>1
  <2> QED
    BY <1>0, <1>2, <2>1, <2>2, <2>3, <2>4, MachineMovesOn
<1>6. ASSUME NEW t \in Tasks, Illegible(t) PROVE RatesInv'
  <2>1. UNCHANGED <<work, seen, alive>> /\ legible' = legible \ {t}
    BY <1>6 DEF Illegible
  <2> QED
    BY <1>0, <1>2, <2>1, MachineMovesOn
<1>7. CASE Legible
  <2>1. UNCHANGED <<work, seen, alive>> /\ legible' = alive
    BY <1>7 DEF Legible
  <2> QED
    BY <1>0, <1>2, <2>1, MachineMovesOn
<1>8. CASE RateTick
  <2>1. UNCHANGED <<work, seen, alive, legible>>
    BY <1>8 DEF RateTick
  <2> QED
    BY <1>0, <1>2, <2>1, MachineMovesOn
<1> QED
  BY <1>3, <1>4, <1>5, <1>6, <1>7, <1>8

-----------------------------------------------------------------------------
(* RateSensors: a sample.                                                   *)

(* A sample of a table: it remembers what it read, and says of each task    *)
(* the work since what was remembered of it.                                *)
LEMMA TableSampled ==
  ASSUME RatesInv, kind \in {"proc", "systemd", "containers"},
         NEW listed, NEW data, NEW wins, listed \subseteq alive,
         CountersOf(data), DOMAIN data \subseteq listed, listed \cap legible \subseteq DOMAIN data,
         DOMAIN wins = DOMAIN data,
         \A t \in DOMAIN data : \E a \in Nat :
            /\ wins[t] = Span(a, data[t])
            /\ t \in DOMAIN prev.data => a = prev.data[t]
            /\ t \notin DOMAIN prev.data /\ kind = "proc" => a = data[t],
         Tabulate(listed, data, wins)
  PROVE  RatesInv'
<1>1. /\ prev'.data = data /\ Report(wins) /\ missed' = alive \ (listed \cap legible)
      /\ UNCHANGED <<kind, work, alive, legible, snap>>
  BY DEF Tabulate, Baseline, Remember
<1>2. RatesTypes /\ IsTable /\ WindowsEndAtBaseline /\ ReportedAreRemembered
  BY DEF RatesInv, IsTable
<1>3. ASSUME NEW t \in DOMAIN data
      PROVE  wins[t] \in Window /\ wins[t].hi = data[t] /\ Resumes(wins[t], t)
  <2>1. PICK a \in Nat : /\ wins[t] = Span(a, data[t])
                         /\ t \in DOMAIN prev.data => a = prev.data[t]
                         /\ t \notin DOMAIN prev.data /\ kind = "proc" => a = data[t]
    OBVIOUS
  <2>2. data[t] \in Nat /\ t \in alive
    BY DEF CountersOf
  <2>3. /\ wins[t] \in Window /\ wins[t].hi = data[t]
        /\ wins[t].lo < wins[t].hi => wins[t].lo = a
    BY <2>1, <2>2, Spans
  <2>4. CASE t \in DOMAIN prev.data
    BY <1>2, <2>1, <2>3, <2>4 DEF Resumes, WindowsEndAtBaseline
  <2>5. CASE t \notin DOMAIN prev.data
    <3>1. seen[t].any => t \in missed
      BY <1>2, <2>2, <2>5 DEF ReportedAreRemembered
    <3>2. kind = "proc" => ~ (wins[t].lo < wins[t].hi)
      BY <2>1, <2>2, <2>3, <2>5
    <3> QED
      BY <2>3, <3>1, <3>2 DEF Resumes
  <2> QED
    BY <2>3, <2>4, <2>5
<1>4. DOMAIN wins \subseteq Tasks
  BY DEF CountersOf
<1>5. /\ seen' \in [Tasks -> Window]
      /\ \A t \in DOMAIN wins : seen'[t] = wins[t]
      /\ \A t \in Tasks \ DOMAIN wins : seen'[t] = seen[t]
  BY <1>1, <1>2, <1>3, <1>4, ReportIsHeard
<1>6. NoWorkCountedTwice'
  BY <1>1, <1>3, ReportIsJudged
<1>7. RatesTypes'
  BY <1>1, <1>2, <1>5 DEF RatesTypes, CountersOf
<1>8. WindowsEndAtBaseline'
  BY <1>1, <1>3, <1>5 DEF WindowsEndAtBaseline
<1>9. ReportedAreRemembered'
  BY <1>1 DEF ReportedAreRemembered
<1> QED
  BY <1>1, <1>6, <1>7, <1>8, <1>9 DEF RatesInv, IsCpu

(* proc, systemd and containers are such tables. *)
LEMMA TablesSound ==
  ASSUME RatesInv, NEW l \in SUBSET Tasks,
         sample_proc(l) \/ sample_systemd(l) \/ sample_containers(l)
  PROVE  RatesInv'
<1>0. /\ work \in [Tasks -> Nat] /\ alive \subseteq Tasks
      /\ CountersOf(prev.data) /\ DOMAIN NoPrev.data = {}
  BY DEF RatesInv, RatesTypes, NoPrev
<1>1. l \subseteq alive
  BY DEF sample_proc, sample_systemd, sample_containers, enumerate_pids, enumerate_units,
         enumerate_containers, ScanLists
<1>2. CASE sample_proc(l)
  <2>1. PICK data : data = read_process_info(l)
    OBVIOUS
  <2>2. PICK wins : wins = [t \in DOMAIN data |-> Span(IF t \in DOMAIN prev.data
                                                THEN prev.data[t] ELSE data[t], data[t])]
    OBVIOUS
  <2>3. kind = "proc" /\ Tabulate(l, data, wins)
    BY <1>2, <2>1, <2>2 DEF sample_proc
  <2>4. DOMAIN data = l \cap legible /\ CountersOf(data)
    BY <1>0, <1>1, <2>1 DEF read_process_info, Counters, CountersOf
  <2>5. ASSUME NEW t \in DOMAIN data
        PROVE  \E a \in Nat : /\ wins[t] = Span(a, data[t])
                              /\ t \in DOMAIN prev.data => a = prev.data[t]
                              /\ t \notin DOMAIN prev.data /\ kind = "proc" => a = data[t]
    <3>1. PICK a : a = IF t \in DOMAIN prev.data THEN prev.data[t] ELSE data[t]
      OBVIOUS
    <3>2. a \in Nat
      BY <1>0, <2>4, <3>1 DEF CountersOf
    <3>3. wins[t] = Span(a, data[t])
      BY <2>2, <3>1
    <3> QED
      BY <3>1, <3>2, <3>3
  <2>6. DOMAIN wins = DOMAIN data
    BY <2>2
  <2> QED
    BY <1>1, <2>3, <2>4, <2>5, <2>6, TableSampled
<1>3. CASE sample_systemd(l) \/ sample_containers(l)
  <2>1. PICK data : data = Zeroed(l)
    OBVIOUS
  <2>2. PICK wins : wins = CgroupWindows(data)
    OBVIOUS
  <2>3. kind \in {"systemd", "containers"} /\ Tabulate(l, data, wins)
    BY <1>3, <2>1, <2>2 DEF sample_systemd, sample_containers
  <2>4. DOMAIN data = l /\ CountersOf(data)
    BY <1>0, <1>1, <2>1 DEF Zeroed, CountersOf
  <2>5. ASSUME NEW t \in DOMAIN data
        PROVE  \E a \in Nat : /\ wins[t] = Span(a, data[t])
                              /\ t \in DOMAIN prev.data => a = prev.data[t]
                              /\ t \notin DOMAIN prev.data /\ kind = "proc" => a = data[t]
    <3>1. PICK a : a = IF prev.data = NoPrev.data THEN data[t] ELSE Recall(prev.data, t)
      OBVIOUS
    <3>2. a \in Nat
      BY <1>0, <2>4, <3>1 DEF CountersOf, Recall
    <3>3. wins[t] = Span(a, data[t])
      BY <2>2, <3>1 DEF CgroupWindows
    <3>4. t \in DOMAIN prev.data => a = prev.data[t]
      BY <1>0, <3>1 DEF Recall
    <3> QED
      BY <2>3, <3>2, <3>3, <3>4
  <2>6. DOMAIN wins = DOMAIN data
    BY <2>2 DEF CgroupWindows
  <2> QED
    BY <1>1, <2>3, <2>4, <2>5, <2>6, TableSampled
<1> QED
  BY <1>2, <1>3

(* xe: between two scans a sample repeats the snapshot, which is then what  *)
(* is remembered as well.                                                   *)
LEMMA XeSound ==
  ASSUME RatesInv, sample_xe
  PROVE  RatesInv'
<1>0. /\ RatesTypes /\ kind = "xe" /\ IsTable /\ WindowsEndAtBaseline /\ ReportedAreRemembered
      /\ prev.data = snap.data /\ ~ IsCpu
  BY DEF RatesInv, sample_xe, IsTable, IsCpu
<1>1. PICK scan, found, data, wins :
        /\ scan \in BOOLEAN /\ found \subseteq legible
        /\ data = IF scan THEN Counters(found) ELSE snap.data
        /\ wins = per_class_util(prev, data)
        /\ prev'.data = data /\ snap'.data = data
        /\ Report(wins)
        /\ missed' = IF scan THEN alive \ found ELSE missed
  <2>1. PICK scan, found, s :
          /\ scan = ~ (snap.taken /\ tick - snap.at < RateTtl)
          /\ found = capture_all_filtered(full_due)
          /\ s = IF scan THEN parse_into_any(found) ELSE snap
    OBVIOUS
  <2>2. found \subseteq legible
    BY <2>1 DEF capture_all_filtered, discover_pid_drm_fds, read_known_drm_fdinfos
  <2>3. s.data = IF scan THEN Counters(found) ELSE snap.data
    BY <2>1 DEF parse_into_any, Snapshot
  <2>4. /\ snap' = s /\ prev'.data = s.data /\ Report(per_class_util(prev, s.data))
        /\ missed' = IF scan THEN alive \ found ELSE missed
    BY <2>1 DEF sample_xe, Baseline, Remember
  <2>5. scan \in BOOLEAN
    BY <2>1
  <2> QED
    BY <2>2, <2>3, <2>4, <2>5
<1>2. UNCHANGED <<kind, work, alive, legible>>
  BY DEF sample_xe
<1>3. CountersOf(data) /\ DOMAIN wins = DOMAIN data
  BY <1>0, <1>1 DEF RatesTypes, Counters, CountersOf, per_class_util
<1>4. ASSUME NEW t \in DOMAIN data
      PROVE  wins[t] \in Window /\ wins[t].hi = data[t] /\ Resumes(wins[t], t)
  <2>1. PICK a : a = IF ~ prev.known \/ DOMAIN prev.data = {} THEN data[t] ELSE Recall(prev.data, t)
    OBVIOUS
  <2>2. a \in Nat /\ data[t] \in Nat
    BY <1>0, <1>3, <2>1 DEF RatesTypes, CountersOf, Recall
  <2>3. wins[t] = Span(a, data[t])
    BY <1>1, <2>1 DEF per_class_util
  <2>4. /\ wins[t] \in Window /\ wins[t].hi = data[t]
        /\ wins[t].lo < wins[t].hi => wins[t].lo = a /\ a # data[t]
    <3>1. /\ wins[t] \in Window /\ wins[t].hi = data[t]
          /\ wins[t].lo < wins[t].hi => wins[t].lo = a
      BY <2>2, <2>3, Spans
    <3> QED
      BY <2>2, <3>1
  <2>5. CASE t \in DOMAIN prev.data
    <3>1. wins[t].lo < wins[t].hi => wins[t].lo = prev.data[t]
      BY <2>1, <2>4, <2>5 DEF Recall
    <3> QED
      BY <1>0, <2>4, <2>5, <3>1 DEF Resumes, WindowsEndAtBaseline
  <2>6. CASE t \notin DOMAIN prev.data
    <3>1. t \in alive
      BY <1>0, <1>1, <2>6 DEF RatesTypes, Counters
    <3>2. seen[t].any => t \in missed
      BY <1>0, <2>6, <3>1 DEF ReportedAreRemembered
    <3> QED
      BY <1>0, <2>4, <3>2 DEF Resumes
  <2> QED
    BY <2>4, <2>5, <2>6
<1>5. /\ seen' \in [Tasks -> Window]
      /\ \A t \in DOMAIN data : seen'[t] = wins[t]
      /\ \A t \in Tasks \ DOMAIN data : seen'[t] = seen[t]
  BY <1>0, <1>1, <1>3, <1>4, ReportIsHeard DEF CountersOf
<1>6. NoWorkCountedTwice'
  BY <1>1, <1>2, <1>3, <1>4, ReportIsJudged
<1>7. RatesTypes'
  BY <1>0, <1>1, <1>2, <1>3, <1>5 DEF RatesTypes, CountersOf
<1>8. WindowsEndAtBaseline'
  BY <1>1, <1>4, <1>5 DEF WindowsEndAtBaseline
<1>9. ReportedAreRemembered'
  <2> SUFFICES ASSUME NEW t \in alive \ missed', seen'[t].any PROVE t \in DOMAIN data
    BY <1>1, <1>2 DEF ReportedAreRemembered
  <2>1. CASE scan
    BY <1>1, <2>1 DEF Counters
  <2>2. CASE ~ scan
    <3>1. t \in Tasks /\ t \in alive \ missed /\ data = prev.data
      BY <1>0, <1>1, <2>2 DEF RatesTypes
    <3> QED
      BY <1>0, <1>5, <3>1 DEF ReportedAreRemembered
  <2> QED
    BY <2>1, <2>2
<1> QED
  BY <1>0, <1>1, <1>2, <1>6, <1>7, <1>8, <1>9 DEF RatesInv, IsCpu

(* The snapshot of /proc/stat is of all lines, and of now or of the past.   *)
LEMMA StatSnapshot ==
  ASSUME RatesInv, IsCpu, NEW s, s = proc_stat_snapshot
  PROVE  /\ s.taken /\ DOMAIN s.data = Tasks /\ CountersOf(s.data)
         /\ \A t \in Tasks : s.data[t] <= work[t]
         /\ s = snap \/ \A t \in Tasks : s.data[t] = work[t]
<1>1. work \in [Tasks -> Nat] /\ CountersOf(snap.data) /\ LinesOnlyGrow
  BY DEF RatesInv, RatesTypes
<1>2. CASE Fresh(snap, RateTtl)
  BY <1>1, <1>2 DEF proc_stat_snapshot, Fresh, LinesOnlyGrow
<1>3. CASE ~ Fresh(snap, RateTtl)
  <2>1. s.taken /\ s.data = [t \in Tasks |-> work[t]]
    BY <1>3 DEF proc_stat_snapshot, Snapshot, Counters
  <2> QED
    BY <1>1, <2>1 DEF CountersOf
<1> QED
  BY <1>2, <1>3

LEMMA CpuSound ==
  ASSUME RatesInv, sample_cpu
  PROVE  RatesInv'
<1>0. RatesTypes /\ kind = "cpu" /\ IsCpu /\ LinesOnlyGrow /\ AggregateInStep /\ All \in Tasks
  BY AllIsATask DEF RatesInv, sample_cpu, IsCpu
<1>1. PICK s : s = proc_stat_snapshot
  OBVIOUS
<1>2. PICK current, before, wins :
        /\ current = s.data[All]
        /\ before = (IF prev.known THEN prev.data[All] ELSE current)
        /\ wins = [t \in {All} |-> Span(before, current)]
  OBVIOUS
<1>3. /\ snap' = s /\ prev' = [known |-> TRUE, data |-> s.data] /\ Report(wins)
      /\ UNCHANGED <<kind, work, alive, legible, missed>>
  BY <1>1, <1>2 DEF sample_cpu, Aggregate, Baseline, Remember
<1>4. /\ s.taken /\ DOMAIN s.data = Tasks /\ CountersOf(s.data)
      /\ \A t \in Tasks : s.data[t] <= work[t]
  BY <1>0, <1>1, StatSnapshot
<1>5. DOMAIN wins = {All} /\ wins[All] = Span(before, current) /\ current \in Nat
  BY <1>0, <1>2, <1>4 DEF CountersOf
<1>6. wins[All] \in Window /\ wins[All].hi = current /\ Resumes(wins[All], All)
  <2>1. CASE ~ prev.known
    <3>1. ~ seen[All].any
      BY <1>0, <2>1 DEF AggregateInStep
    <3>2. Span(before, current) \in Window /\ Span(before, current).hi = current
      BY <1>2, <1>5, <2>1, Spans
    <3> QED
      BY <1>5, <3>1, <3>2 DEF Resumes
  <2>2. CASE prev.known
    <3>1. before = prev.data[All] /\ before \in Nat
      BY <1>0, <1>2, <2>2 DEF RatesTypes, CountersOf, AggregateInStep
    <3>2. /\ wins[All] \in Window /\ wins[All].hi = current
          /\ wins[All].lo < wins[All].hi => wins[All].lo = before
      BY <1>5, <3>1, Spans
    <3> QED
      BY <1>0, <3>1, <3>2 DEF Resumes, AggregateInStep
  <2> QED
    BY <2>1, <2>2
<1>7. seen' \in [Tasks -> Window] /\ seen'[All] = wins[All]
  BY <1>0, <1>3, <1>5, <1>6, ReportIsHeard
<1>8. NoWorkCountedTwice'
  BY <1>3, <1>5, <1>6, ReportIsJudged
<1>9. RatesTypes'
  BY <1>0, <1>3, <1>4, <1>7 DEF RatesTypes, CountersOf
<1>10. LinesOnlyGrow'
  BY <1>0, <1>3, <1>4 DEF LinesOnlyGrow
<1>11. AggregateInStep'
  BY <1>0, <1>2, <1>3, <1>4, <1>6, <1>7 DEF AggregateInStep
<1> QED
  BY <1>0, <1>3, <1>8, <1>9, <1>10, <1>11 DEF RatesInv, IsTable

(* A core: an unchanged snapshot repeats the cached windows; a changed one  *)
(* begins where the cached windows end.                                     *)
LEMMA CoreSound ==
  ASSUME RatesInv, NEW c \in Tasks, sample_core(c)
  PROVE  RatesInv'
<1>0. /\ RatesTypes /\ kind = "cores" /\ IsCpu /\ LinesOnlyGrow /\ CoresInStep
      /\ c \in parse_core_stats /\ parse_core_stats \subseteq Tasks
  BY DEF RatesInv, sample_core, IsCpu, parse_core_stats
<1>1. PICK s, cur : s = proc_stat_snapshot /\ cur = CoreSnapshot(s)
  OBVIOUS
<1>2. PICK same, util, wins :
        /\ same = (core_util.known /\ core_util.snapshot = cur)
        /\ util = IF same THEN core_util.util
                  ELSE [t \in DOMAIN cur |->
                          Span(IF t \in DOMAIN prev.data THEN prev.data[t] ELSE cur[t], cur[t])]
        /\ wins = [t \in {c} |-> util[t]]
  OBVIOUS
<1>3. /\ snap' = s /\ Report(wins)
      /\ prev' = IF same THEN prev ELSE [known |-> TRUE, data |-> cur]
      /\ core_util' = [known |-> TRUE, snapshot |-> cur, util |-> util]
      /\ UNCHANGED <<kind, work, alive, legible, missed>>
  <2>1. snap' = s /\ UNCHANGED <<kind, work, alive, legible, missed>>
    BY <1>1 DEF sample_core
  <2>2. prev' = IF same THEN prev ELSE [known |-> TRUE, data |-> cur]
    BY <1>1, <1>2 DEF sample_core, Baseline, Remember
  <2>3. core_util' = [known |-> TRUE, snapshot |-> cur, util |-> util]
    BY <1>1, <1>2 DEF sample_core
  <2>4. Report(wins)
    <3>1. Report([t \in {c} |-> core_util'.util[t]])
      BY DEF sample_core
    <3>2. core_util'.util = util
      BY <2>3
    <3> QED
      BY <1>2, <3>1, <3>2
  <2> QED
    BY <2>1, <2>2, <2>3, <2>4
<1>4. /\ s.taken /\ DOMAIN s.data = Tasks /\ CountersOf(s.data)
      /\ \A t \in Tasks : s.data[t] <= work[t]
      /\ s = snap \/ \A t \in Tasks : s.data[t] = work[t]
  BY <1>0, <1>1, StatSnapshot
<1>5. /\ DOMAIN cur = parse_core_stats /\ CountersOf(cur)
      /\ \A t \in parse_core_stats : cur[t] = s.data[t]
  BY <1>0, <1>1, <1>4 DEF CoreSnapshot, CountersOf
<1>6. prev'.data = cur
  BY <1>0, <1>2, <1>3 DEF CoresInStep
<1>7. ASSUME NEW t \in parse_core_stats
      PROVE  /\ util[t] \in Window /\ util[t].lo <= util[t].hi /\ util[t].hi = cur[t]
             /\ seen[t].any => seen[t] = util[t] \/ seen[t].hi <= util[t].lo
  <2>0. cur[t] \in Nat /\ seen[t] \in Window
    BY <1>0, <1>5 DEF CountersOf, RatesTypes
  <2>1. CASE same
    <3>1. core_util.known /\ core_util.snapshot = cur /\ util = core_util.util
      BY <1>2, <2>1
    <3>2. CoreInStep(t) /\ prev.data = cur
      BY <1>0, <3>1 DEF CoresInStep
    <3> QED
      BY <3>1, <3>2 DEF CoreInStep
  <2>2. CASE ~ same /\ core_util.known
    <3>1. snap.taken /\ prev.data = CoreSnapshot(snap) /\ CoreInStep(t)
      BY <1>0, <2>2 DEF CoresInStep
    <3>2. t \in DOMAIN prev.data /\ prev.data[t] = snap.data[t]
      BY <3>1 DEF CoreSnapshot
    <3>3. prev.data[t] \in Nat
      BY <1>0, <3>2 DEF RatesTypes, CountersOf
    <3>4. prev.data[t] <= cur[t]
      BY <1>0, <1>4, <1>5, <3>1, <3>2, <3>3 DEF LinesOnlyGrow
    <3>5. util[t] = Span(prev.data[t], cur[t])
      BY <1>2, <1>5, <2>2, <3>2
    <3>6. /\ util[t] \in Window /\ util[t].hi = cur[t] /\ util[t].lo = prev.data[t]
          /\ util[t].lo <= cur[t]
      BY <2>0, <3>3, <3>4, <3>5, Spans
    <3>7. seen[t].any => seen[t].hi <= prev.data[t]
      BY <2>0, <3>1, <3>3 DEF CoreInStep, Window
    <3> QED
      BY <3>6, <3>7
  <2>3. CASE ~ same /\ ~ core_util.known
    <3>1. ~ seen[t].any /\ t \notin DOMAIN prev.data
      BY <1>0, <2>3 DEF CoresInStep, NoPrev
    <3>2. util[t] = Span(cur[t], cur[t])
      BY <1>2, <1>5, <2>3, <3>1
    <3> QED
      BY <2>0, <3>1, <3>2, Spans
  <2>4. same => core_util.known
    BY <1>2
  <2> QED
    BY <2>1, <2>2, <2>3
<1>8. DOMAIN wins = {c} /\ wins[c] = util[c] /\ wins[c] \in Window
  BY <1>0, <1>2, <1>7
<1>9. Resumes(wins[c], c)
  <2>1. seen[c] \in Window
    BY <1>0 DEF RatesTypes
  <2> QED
    BY <1>0, <1>7, <1>8, <2>1 DEF Resumes, Window
<1>10. /\ seen' \in [Tasks -> Window] /\ seen'[c] = util[c]
       /\ \A t \in Tasks : t # c => seen'[t] = seen[t]
  BY <1>0, <1>3, <1>8, ReportIsHeard
<1>11. NoWorkCountedTwice'
  BY <1>3, <1>8, <1>9, ReportIsJudged
<1>12. RatesTypes'
  BY <1>0, <1>3, <1>4, <1>5, <1>6, <1>10 DEF RatesTypes, CountersOf
<1>13. LinesOnlyGrow'
  BY <1>0, <1>3, <1>4 DEF LinesOnlyGrow
<1>14. CoresInStep'
  <2>1. core_util'.known /\ core_util'.snapshot = cur /\ core_util'.util = util
    BY <1>3
  <2>2. ASSUME NEW t \in parse_core_stats PROVE CoreInStep(t)'
    <3>1. seen'[t] = util[t] \/ seen'[t] = seen[t]
      BY <1>0, <1>10
    <3> QED
      BY <1>6, <1>7, <2>1, <3>1 DEF CoreInStep
  <2>3. CoreSnapshot(snap)' = cur
    BY <1>1, <1>3 DEF CoreSnapshot, parse_core_stats
  <2>4. parse_core_stats' = parse_core_stats
    BY DEF parse_core_stats
  <2> QED
    BY <1>3, <1>4, <1>6, <2>1, <2>2, <2>3, <2>4 DEF CoresInStep
<1> QED
  BY <1>0, <1>3, <1>11, <1>12, <1>13, <1>14 DEF RatesInv, IsTable, IsCpu

(* The work of a task is told once, for any tasks, counters, intervals,     *)
(* limits and order of samples: a window begins where the task's last one   *)
(* ended.  Cores of an unchanged snapshot repeat their window (and skip the *)
(* ones nobody asked them for), and only systemd, containers and xe count   *)
(* again what a task did that the scan before missed.                       *)
THEOREM WorkIsCountedOnce == RatesSpec => []NoWorkCountedTwice
<1>1. RatesInit => RatesInv
  BY RatesStartSound
<1>2. RatesInv /\ [RatesNext]_rateVars => RatesInv'
  <2> SUFFICES ASSUME RatesInv, [RatesNext]_rateVars PROVE RatesInv'
    OBVIOUS
  <2>1. CASE UNCHANGED rateVars
    <3>1. RatesTypes' /\ (IsTable => WindowsEndAtBaseline /\ ReportedAreRemembered)'
      BY <2>1 DEF rateVars, RatesInv, RatesTypes, CountersOf, IsTable, WindowsEndAtBaseline,
                  ReportedAreRemembered
    <3>2. (IsCpu => LinesOnlyGrow)' /\ (kind = "cpu" => AggregateInStep)'
      BY <2>1 DEF rateVars, RatesInv, IsCpu, LinesOnlyGrow, AggregateInStep
    <3>3. (kind = "cores" => CoresInStep)' /\ NoWorkCountedTwice'
      BY <2>1 DEF rateVars, RatesInv, CoresInStep, CoreInStep, CoreSnapshot, NoWorkCountedTwice
    <3>4. (kind = "xe" => prev.data = snap.data)'
      BY <2>1 DEF rateVars, RatesInv
    <3> QED
      BY <3>1, <3>2, <3>3, <3>4 DEF RatesInv
  <2>2. CASE RatesNext
    BY <2>2, CpuSound, CoreSound, TablesSound, XeSound, MachineStepsSound DEF RatesNext
  <2> QED
    BY <2>1, <2>2
<1>3. RatesInv => NoWorkCountedTwice
  BY DEF RatesInv
<1> QED
  BY <1>1, <1>2, <1>3, PTL DEF RatesSpec

-----------------------------------------------------------------------------
(* ProbedSensors: the inductive invariant.  A thread is only left behind in *)
(* a call that hangs, so a target that answers has none; the threads of     *)
(* init are those of the lines it has been through.                         *)

Thread == [target : ProbedSet, strike : Nat]

(* The threads ws are in calls that hang, each of a strike that s counts.   *)
Struck(ws, s) ==
    /\ ws \subseteq Thread /\ IsFiniteSet(ws)
    /\ \A w \in ws : mood[w.target] = "hung" /\ w.strike \in 1..s[w.target]

ProbesTypes ==
    /\ instant \in Nat
    /\ mood \in [ProbedSet -> {"fine", "failing", "hung"}]
    /\ strikes \in [ProbedSet -> Nat]
    /\ Struck(workers, strikes)
    /\ probe_cache \in [taken : BOOLEAN, at : Nat, data : SUBSET ProbedSet]

Strayed ==
    /\ lines \in Nat
    /\ strays \subseteq 1..(IF stage = "init" THEN lines ELSE lines + 1)
    /\ prober # "fs" => strays = {}

Young == probe.ok /\ probe.age > ProbeTtl => prober = "smart"

ProbesInv == ProbesTypes /\ Strayed /\ Workers <= MaxDetached /\ ~ blocked /\ Young

-----------------------------------------------------------------------------
(* ProbedSensors: a target is asked.                                        *)

(* What marking a target changes, in any record that holds the marks.       *)
LEMMA MarksChanged ==
  ASSUME NEW b, "strikes" \in DOMAIN b, "until" \in DOMAIN b,
         b.strikes \in [ProbedSet -> Nat], NEW t \in ProbedSet
  PROVE  /\ DOMAIN mark_backoff(b, t) = DOMAIN b /\ DOMAIN clear_backoff(b, t) = DOMAIN b
         /\ mark_backoff(b, t).strikes = [b.strikes EXCEPT ![t] = @ + 1]
         /\ clear_backoff(b, t).strikes = [b.strikes EXCEPT ![t] = 0]
         /\ \A f \in DOMAIN b \ {"strikes", "until"} :
               mark_backoff(b, t)[f] = b[f] /\ clear_backoff(b, t)[f] = b[f]
<1> DEFINE e == instant + Backoff(b.strikes[t] + 1)
           c == [b EXCEPT !.strikes = [b.strikes EXCEPT ![t] = b.strikes[t] + 1]]
           d == [b EXCEPT !.strikes = [b.strikes EXCEPT ![t] = 0]]
<1>1. /\ mark_backoff(b, t) = [c EXCEPT !.until = [b.until EXCEPT ![t] = e]]
      /\ clear_backoff(b, t) = [d EXCEPT !.until = [b.until EXCEPT ![t] = 0]]
  BY DEF mark_backoff, clear_backoff
<1> HIDE DEF e
<1>2. /\ DOMAIN c = DOMAIN b /\ c.strikes = [b.strikes EXCEPT ![t] = @ + 1]
      /\ \A f \in DOMAIN b \ {"strikes"} : c[f] = b[f]
      /\ DOMAIN d = DOMAIN b /\ d.strikes = [b.strikes EXCEPT ![t] = 0]
      /\ \A f \in DOMAIN b \ {"strikes"} : d[f] = b[f]
  OBVIOUS
<1> HIDE DEF c, d
<1> QED
  BY <1>1, <1>2

(* A call that does not return adds one thread, and its strike is counted   *)
(* in the same step; one that returns finds no thread left of its target.   *)
LEMMA HangIsCounted ==
  ASSUME NEW ws, NEW b, b.strikes \in [ProbedSet -> Nat], Struck(ws, b.strikes),
         NEW t \in ProbedSet, NEW s \in [ProbedSet -> Nat],
         \A u \in ProbedSet \ {t} : s[u] = b.strikes[u],
         mood[t] = "hung" => s[t] = b.strikes[t] + 1
  PROVE  /\ Struck(ws, s) /\ Struck(StillHung(ws, b, t), s)
         /\ Cardinality(StillHung(ws, b, t)) <= Cardinality(ws) + 1
<1>1. ws \subseteq Thread /\ IsFiniteSet(ws) /\ Cardinality(ws) \in Nat
  BY FS_CardinalityType DEF Struck
<1>2. Struck(ws, s)
  <2> SUFFICES ASSUME NEW w \in ws PROVE w.strike \in 1..s[w.target]
    BY DEF Struck
  <2>1. /\ w.target \in ProbedSet /\ mood[w.target] = "hung"
        /\ w.strike \in 1..b.strikes[w.target] /\ b.strikes[w.target] \in Nat
    BY DEF Struck, Thread
  <2>2. s[w.target] \in {b.strikes[w.target], b.strikes[w.target] + 1}
    BY <2>1
  <2> QED
    BY <2>1, <2>2
<1>3. CASE mood[t] # "hung"
  BY <1>1, <1>2, <1>3 DEF StillHung
<1>4. CASE mood[t] = "hung"
  <2> DEFINE w == [target |-> t, strike |-> b.strikes[t] + 1]
  <2>1. StillHung(ws, b, t) = ws \cup {w}
    BY <1>4 DEF StillHung
  <2>2. w \in Thread /\ mood[w.target] = "hung" /\ w.strike \in 1..s[w.target]
    <3>1. b.strikes[t] \in Nat /\ s[t] = b.strikes[t] + 1
      BY <1>4
    <3> QED
      BY <1>4, <3>1 DEF Thread
  <2> HIDE DEF w
  <2>3. IsFiniteSet(ws \cup {w}) /\ Cardinality(ws \cup {w}) <= Cardinality(ws) + 1
    <3>1. /\ IsFiniteSet(ws \cup {w})
          /\ Cardinality(ws \cup {w}) = IF w \in ws THEN Cardinality(ws) ELSE Cardinality(ws) + 1
      BY <1>1, FS_AddElement
    <3> QED
      BY <1>1, <3>1
  <2> QED
    BY <1>1, <1>2, <2>1, <2>2, <2>3 DEF Struck
<1> QED
  BY <1>3, <1>4

-----------------------------------------------------------------------------
(* ProbedSensors: the loops of snapshot_with.                               *)

Mounts == INSTANCE Loops WITH Step <- NextMount
Pending == INSTANCE Loops WITH Step <- NextPending

(* What is true of the accumulator all along: nobody waited for a permit,   *)
(* the cap counts the threads started now, and those left behind, with      *)
(* those in flight, are among them.                                         *)
Call == [target : ProbedSet, spent : BOOLEAN]
Fields == {"slow", "pending", "spent", "started", "left", "blocked", "stats", "strikes",
           "until"}
GatheringOK(acc) ==
    /\ DOMAIN acc = Fields
    /\ acc.pending \in Seq(Call) /\ acc.spent \in BOOLEAN /\ acc.started \in Nat
    /\ acc.blocked = FALSE /\ acc.stats \subseteq ProbedSet
    /\ acc.strikes \in [ProbedSet -> Nat]
    /\ Struck(workers, acc.strikes) /\ Struck(acc.left, acc.strikes)
    /\ acc.started = 0 \/ Workers + acc.started <= MaxDetached
    /\ Cardinality(acc.left) + Len(acc.pending) <= acc.started

(* An outcome changes the marks and what is answered, and nothing else.     *)
LEMMA SettleKeeps ==
  ASSUME NEW acc, DOMAIN acc = Fields, acc.strikes \in [ProbedSet -> Nat],
         acc.stats \subseteq ProbedSet, NEW t \in ProbedSet,
         NEW o \in {"timeout", "fine", "failing"}
  PROVE  /\ DOMAIN Settle(acc, t, o) = Fields
         /\ \A f \in Fields \ {"stats", "strikes", "until"} : Settle(acc, t, o)[f] = acc[f]
         /\ Settle(acc, t, o).stats \subseteq ProbedSet
         /\ Settle(acc, t, o).strikes \in [ProbedSet -> Nat]
         /\ \A u \in ProbedSet \ {t} : Settle(acc, t, o).strikes[u] = acc.strikes[u]
         /\ o = "timeout" => Settle(acc, t, o).strikes[t] = acc.strikes[t] + 1
<1> DEFINE b == mark_backoff(acc, t)
           c == clear_backoff(acc, t)
<1>0. "strikes" \in DOMAIN acc /\ "until" \in DOMAIN acc /\ "stats" \in DOMAIN acc
  BY DEF Fields
<1>1. /\ DOMAIN b = Fields /\ DOMAIN c = Fields
      /\ b.strikes = [acc.strikes EXCEPT ![t] = @ + 1]
      /\ c.strikes = [acc.strikes EXCEPT ![t] = 0]
      /\ \A f \in Fields \ {"strikes", "until"} : b[f] = acc[f] /\ c[f] = acc[f]
  BY <1>0, MarksChanged
<1> HIDE DEF b, c
<1>2. CASE o = "timeout"
  <2>1. Settle(acc, t, o) = b
    BY <1>2 DEF Settle, b
  <2>2. b.stats = acc.stats
    BY <1>1 DEF Fields
  <2> QED
    BY <1>1, <1>2, <2>1, <2>2
<1>3. CASE o = "fine"
  <2> DEFINE d == [c EXCEPT !.stats = c.stats \cup {t}]
  <2>1. Settle(acc, t, o) = d
    BY <1>3 DEF Settle, c
  <2>2. c.stats = acc.stats
    BY <1>1 DEF Fields
  <2>3. /\ DOMAIN d = Fields /\ d.stats = acc.stats \cup {t} /\ d.strikes = c.strikes
        /\ \A f \in Fields \ {"stats"} : d[f] = c[f]
    BY <1>1, <2>2 DEF Fields
  <2> HIDE DEF d
  <2> QED
    BY <1>1, <1>3, <2>1, <2>3
<1>4. CASE o = "failing"
  <2>1. Settle(acc, t, o) = acc
    BY <1>4 DEF Settle
  <2> QED
    BY <1>4, <2>1
<1> QED
  BY <1>2, <1>3, <1>4

LEMMA DrainKeeps ==
  ASSUME ProbesTypes, NEW acc, GatheringOK(acc), acc.pending # << >>
  PROVE  /\ GatheringOK(DrainFirst(acc))
         /\ Len(DrainFirst(acc).pending) = Len(acc.pending) - 1
<1> DEFINE p == Head(acc.pending)
           t == p.target
           o == Outcome(p, acc.slow)
           b == Settle(acc, t, o)
           h == mood[t] = "hung"
           l == StillHung(acc.left, acc, t)
           d == DrainFirst(acc)
<1>1. /\ p \in Call /\ Len(acc.pending) \in Nat /\ Tail(acc.pending) \in Seq(Call)
      /\ Len(Tail(acc.pending)) = Len(acc.pending) - 1
  BY DEF GatheringOK
<1>2. /\ t \in ProbedSet /\ o \in {"timeout", "fine", "failing"}
      /\ mood[t] = "hung" => o = "timeout"
  BY <1>1 DEF Call, Outcome, ProbesTypes
<1>3. /\ DOMAIN b = Fields
      /\ \A f \in Fields \ {"stats", "strikes", "until"} : b[f] = acc[f]
      /\ b.stats \subseteq ProbedSet /\ b.strikes \in [ProbedSet -> Nat]
      /\ \A u \in ProbedSet \ {t} : b.strikes[u] = acc.strikes[u]
      /\ o = "timeout" => b.strikes[t] = acc.strikes[t] + 1
  <2>1. /\ DOMAIN acc = Fields /\ acc.strikes \in [ProbedSet -> Nat]
        /\ acc.stats \subseteq ProbedSet
    BY DEF GatheringOK
  <2> HIDE DEF t, o
  <2> QED
    BY <1>2, <2>1, SettleKeeps
<1>4. DrainFirst(acc) = [[[b EXCEPT !.pending = Tail(b.pending)] EXCEPT !.spent = b.spent \/ h]
                            EXCEPT !.left = StillHung(b.left, acc, t)]
  BY DEF DrainFirst
<1> HIDE DEF p, t, o, b, h, l, d
<1>5. b.pending = acc.pending /\ b.spent = acc.spent /\ b.left = acc.left
  BY <1>3 DEF Fields
<1>6. /\ DOMAIN d = Fields /\ d.pending = Tail(acc.pending) /\ d.spent = (acc.spent \/ h)
      /\ d.left = l /\ \A f \in Fields \ {"pending", "spent", "left"} : d[f] = b[f]
  <2> DEFINE x == [b EXCEPT !.pending = Tail(b.pending)]
             y == [x EXCEPT !.spent = b.spent \/ h]
  <2>1. /\ DOMAIN x = Fields /\ x.pending = Tail(acc.pending)
        /\ \A f \in Fields \ {"pending"} : x[f] = b[f]
    BY <1>3, <1>5 DEF Fields
  <2> HIDE DEF x
  <2>2. /\ DOMAIN y = Fields /\ y.spent = (acc.spent \/ h)
        /\ \A f \in Fields \ {"spent"} : y[f] = x[f]
    BY <2>1, <1>5 DEF Fields
  <2>3. d = [y EXCEPT !.left = l]
    BY <1>4, <1>5 DEF x, d, l
  <2> HIDE DEF y
  <2>4. DOMAIN d = Fields /\ d.left = l /\ \A f \in Fields \ {"left"} : d[f] = y[f]
    BY <2>2, <2>3 DEF Fields
  <2> QED
    BY <2>1, <2>2, <2>4 DEF Fields
<1>7. /\ d.started = acc.started /\ d.blocked = acc.blocked /\ d.stats = b.stats
      /\ d.strikes = b.strikes
  BY <1>3, <1>6 DEF Fields
<1>8. mood[t] = "hung" => b.strikes[t] = acc.strikes[t] + 1
  BY <1>2, <1>3
<1>9. Struck(workers, b.strikes)
  BY <1>2, <1>3, <1>8, HangIsCounted DEF GatheringOK
<1>10. Struck(l, b.strikes) /\ Cardinality(l) <= Cardinality(acc.left) + 1
  BY <1>2, <1>3, <1>8, HangIsCounted DEF GatheringOK, l
<1>11. Cardinality(d.left) + Len(d.pending) <= d.started
  <2>1. Cardinality(l) \in Nat /\ Cardinality(acc.left) \in Nat
    BY <1>10, FS_CardinalityType DEF GatheringOK, Struck
  <2> QED
    BY <1>1, <1>6, <1>7, <1>10, <2>1 DEF GatheringOK
<1>12. (acc.spent \/ h) \in BOOLEAN
  OBVIOUS
<1>13. GatheringOK(d)
  BY <1>1, <1>3, <1>6, <1>7, <1>9, <1>10, <1>11, <1>12 DEF GatheringOK
<1> QED
  BY <1>1, <1>6, <1>13 DEF d

LEMMA LaunchKeeps ==
  ASSUME ProbesTypes, NEW acc, GatheringOK(acc), Len(acc.pending) < MaxConcurrent,
         NEW t \in ProbedSet
  PROVE  /\ GatheringOK(Launch(acc, t))
         /\ Len(Launch(acc, t).pending) <= MaxConcurrent
<1>1. /\ Len(acc.pending) \in Nat /\ acc.started \in Nat /\ Cardinality(acc.left) \in Nat
      /\ MaxConcurrent \in Nat /\ MaxDetached \in Nat /\ Workers \in Nat
  <2>1. Workers \in Nat
    BY FS_CardinalityType DEF Workers, ProbesTypes, Struck
  <2>2. Cardinality(acc.left) \in Nat
    BY FS_CardinalityType DEF GatheringOK, Struck
  <2>3. Len(acc.pending) \in Nat
    BY DEF GatheringOK
  <2> QED
    BY <2>1, <2>2, <2>3, ProbesAssumption DEF GatheringOK
<1>2. CASE Workers + acc.started >= MaxDetached
  <2> DEFINE b == Settle(acc, t, "timeout")
  <2>1. Launch(acc, t) = b
    BY <1>2 DEF Launch
  <2>2. /\ DOMAIN b = Fields
        /\ \A f \in Fields \ {"stats", "strikes", "until"} : b[f] = acc[f]
        /\ b.stats \subseteq ProbedSet /\ b.strikes \in [ProbedSet -> Nat]
        /\ \A u \in ProbedSet \ {t} : b.strikes[u] = acc.strikes[u]
        /\ b.strikes[t] = acc.strikes[t] + 1
    BY SettleKeeps DEF GatheringOK
  <2> HIDE DEF b
  <2>3. /\ b.pending = acc.pending /\ b.spent = acc.spent /\ b.started = acc.started
        /\ b.blocked = acc.blocked /\ b.left = acc.left
    BY <2>2 DEF Fields
  <2>4. Struck(workers, b.strikes) /\ Struck(acc.left, b.strikes)
    <3>1. Struck(workers, acc.strikes) /\ Struck(acc.left, acc.strikes)
      BY DEF GatheringOK
    <3>2. ASSUME NEW ws, Struck(ws, acc.strikes) PROVE Struck(ws, b.strikes)
      BY <2>2, <3>2, HangIsCounted DEF GatheringOK
    <3> QED
      BY <3>1, <3>2
  <2>5. GatheringOK(b)
    BY <2>2, <2>3, <2>4 DEF GatheringOK
  <2> QED
    BY <1>1, <2>1, <2>3, <2>5
<1>3. CASE ~ (Workers + acc.started >= MaxDetached)
  <2> DEFINE p == [target |-> t, spent |-> acc.spent]
             x == [acc EXCEPT !.pending = Append(acc.pending, p)]
             y == [x EXCEPT !.started = acc.started + 1]
             d == [y EXCEPT !.blocked = acc.blocked \/ Len(acc.pending) >= MaxConcurrent]
  <2>1. Launch(acc, t) = d
    BY <1>3 DEF Launch, Start
  <2>2. /\ DOMAIN x = Fields /\ x.pending = Append(acc.pending, p)
        /\ \A f \in Fields \ {"pending"} : x[f] = acc[f]
    BY DEF GatheringOK, Fields
  <2> HIDE DEF x, p
  <2>3. /\ DOMAIN y = Fields /\ y.started = acc.started + 1
        /\ \A f \in Fields \ {"started"} : y[f] = x[f]
    BY <2>2 DEF Fields
  <2> HIDE DEF y
  <2>4. /\ DOMAIN d = Fields /\ d.blocked = FALSE
        /\ \A f \in Fields \ {"blocked"} : d[f] = y[f]
    <3>1. (acc.blocked \/ Len(acc.pending) >= MaxConcurrent) = FALSE
      BY <1>1 DEF GatheringOK
    <3> QED
      BY <2>3, <3>1 DEF Fields
  <2> HIDE DEF d
  <2>5. /\ d.pending = Append(acc.pending, p) /\ d.started = acc.started + 1
        /\ d.spent = acc.spent /\ d.left = acc.left /\ d.stats = acc.stats
        /\ d.strikes = acc.strikes
    BY <2>2, <2>3, <2>4 DEF Fields
  <2>6. /\ Append(acc.pending, p) \in Seq(Call)
        /\ Len(Append(acc.pending, p)) = Len(acc.pending) + 1
    <3>1. p \in Call
      BY DEF Call, p, GatheringOK
    <3> QED
      BY <3>1 DEF GatheringOK
  <2>7. Workers + (acc.started + 1) <= MaxDetached
    BY <1>1, <1>3
  <2>8. Cardinality(d.left) + Len(d.pending) <= d.started
    BY <1>1, <2>5, <2>6 DEF GatheringOK
  <2>9. GatheringOK(d)
    <3>1. Struck(workers, d.strikes) /\ Struck(d.left, d.strikes)
      BY <2>5 DEF GatheringOK
    <3>2. d.pending \in Seq(Call) /\ Workers + d.started <= MaxDetached
      BY <2>5, <2>6, <2>7
    <3>3. d.spent \in BOOLEAN /\ d.stats \subseteq ProbedSet
      BY <1>1, <2>5 DEF GatheringOK
    <3>4. d.started \in Nat /\ d.strikes \in [ProbedSet -> Nat]
      BY <1>1, <2>5 DEF GatheringOK
    <3> QED
      BY <2>4, <2>8, <3>1, <3>2, <3>3, <3>4 DEF GatheringOK
  <2> QED
    BY <1>1, <2>1, <2>5, <2>6, <2>9
<1> QED
  BY <1>2, <1>3

MountOK(acc) == GatheringOK(acc) /\ Len(acc.pending) <= MaxConcurrent

LEMMA MountKeeps ==
  ASSUME ProbesTypes, NEW acc, MountOK(acc), NEW t \in ProbedSet
  PROVE  MountOK(NextMount(acc, t))
<1>1. Len(acc.pending) \in Nat /\ MaxConcurrent \in Nat \ {0}
  <2>1. acc.pending \in Seq(Call)
    BY DEF MountOK, GatheringOK
  <2> QED
    BY <2>1, ProbesAssumption
<1>2. CASE BackedOff(t)
  BY <1>2 DEF NextMount
<1>3. CASE ~ BackedOff(t) /\ Len(acc.pending) >= MaxConcurrent
  <2>1. acc.pending # << >>
    BY <1>1, <1>3
  <2>2. GatheringOK(DrainFirst(acc)) /\ Len(DrainFirst(acc).pending) = Len(acc.pending) - 1
    BY <2>1, DrainKeeps DEF MountOK
  <2>3. Len(DrainFirst(acc).pending) < MaxConcurrent
    BY <1>1, <2>2 DEF MountOK
  <2> QED
    BY <1>3, <2>2, <2>3, LaunchKeeps DEF NextMount, MountOK
<1>4. CASE ~ BackedOff(t) /\ ~ (Len(acc.pending) >= MaxConcurrent)
  <2>1. Len(acc.pending) < MaxConcurrent
    BY <1>1, <1>4
  <2> QED
    BY <1>4, <2>1, LaunchKeeps DEF NextMount, MountOK
<1> QED
  BY <1>2, <1>3, <1>4

(* Over any sequence of mounts and then over what is in flight, so that in *)
(* the end nothing is.                                                     *)
LEMMA GatherKeeps ==
  ASSUME ProbesTypes, NEW slow \in SUBSET ProbedSet
  PROVE  GatheringOK(Gather(slow)) /\ Len(Gather(slow).pending) = 0
<1> DEFINE begin == [slow |-> slow, pending |-> << >>, spent |-> FALSE, started |-> 0,
                     left |-> {}, blocked |-> FALSE, stats |-> {},
                     strikes |-> strikes, until |-> until]
           launched == FoldLeft(NextMount, begin, Probed)
           m == Len(launched.pending)
<1>1. MountOK(begin)
  <2>1. /\ DOMAIN begin = Fields /\ begin.pending = << >> /\ begin.spent = FALSE
        /\ begin.started = 0 /\ begin.left = {} /\ begin.blocked = FALSE
        /\ begin.stats = {} /\ begin.strikes = strikes
    BY DEF Fields
  <2> HIDE DEF begin
  <2>2. << >> \in Seq(Call) /\ Len(<< >>) = 0 /\ IsFiniteSet({}) /\ Cardinality({}) = 0
    BY FS_EmptySet
  <2>3. Struck(begin.left, begin.strikes) /\ Struck(workers, begin.strikes)
    BY <2>1, <2>2 DEF Struck, ProbesTypes
  <2>4. Cardinality(begin.left) + Len(begin.pending) <= begin.started
    BY <2>1, <2>2
  <2>5. Len(begin.pending) <= MaxConcurrent /\ begin.pending \in Seq(Call)
    BY <2>1, <2>2, ProbesAssumption
  <2>6. begin.spent \in BOOLEAN
    BY <2>1, Zenon
  <2>7. begin.started \in Nat /\ begin.stats \subseteq ProbedSet
    BY <2>1
  <2>8. begin.strikes \in [ProbedSet -> Nat]
    BY <2>1, Zenon DEF ProbesTypes
  <2> QED
    BY <2>1, <2>3, <2>4, <2>5, <2>6, <2>7, <2>8 DEF MountOK, GatheringOK
<1>2. Len(Probed) \in Nat /\ DOMAIN Probed = 1..Len(Probed)
      /\ \A i \in 1..Len(Probed) : Probed[i] \in ProbedSet
  BY ProbesAssumption
<1> HIDE DEF begin
<1>3. PICK f : /\ Mounts!Runs(f, begin, Probed, Len(Probed))
               /\ launched = f[Len(Probed)]
  <2>1. \E f : /\ Mounts!Runs(f, begin, Probed, Len(Probed))
               /\ Mounts!FoldLeft(NextMount, begin, Probed) = f[Len(Probed)]
    BY <1>2, Mounts!FoldRuns
  <2>2. launched = Mounts!FoldLeft(NextMount, begin, Probed)
    BY DEF FoldLeft, Mounts!FoldLeft, MapThenFoldSet, Mounts!MapThenFoldSet, Max, Mounts!Max
  <2> HIDE DEF launched
  <2> QED
    BY <2>1, <2>2
<1> HIDE DEF launched
<1>4. \A i \in 0..Len(Probed) : i \in {k \in 0..Len(Probed) : MountOK(f[k])}
  <2> DEFINE S == {k \in 0..Len(Probed) : MountOK(f[k])}
  <2>1. 0 \in S
    BY <1>1, <1>2, <1>3 DEF Mounts!Runs
  <2>2. ASSUME NEW i \in 1..Len(Probed), i - 1 \in S PROVE i \in S
    <3>1. f[i] = NextMount(f[i - 1], Probed[i])
      BY <1>3 DEF Mounts!Runs
    <3>2. MountOK(f[i])
      BY <1>2, <2>2, <3>1, MountKeeps
    <3> QED
      BY <1>2, <3>2
  <2>3. \A i \in 0..Len(Probed) : i \in S
    <3> HIDE DEF S
    <3> QED
      BY <1>2, <2>1, <2>2, Mounts!AlongTheRun
  <2> QED
    BY <2>3
<1>5. MountOK(launched)
  BY <1>2, <1>3, <1>4
<1>6. /\ launched.pending \in Seq(Call) /\ m \in Nat /\ DOMAIN launched.pending = 1..m
      /\ GatheringOK(launched)
  <2>1. launched.pending \in Seq(Call) /\ GatheringOK(launched)
    BY <1>5 DEF MountOK, GatheringOK
  <2> QED
    BY <2>1
<1>7. PICK g : /\ Pending!Runs(g, launched, launched.pending, m)
               /\ Gather(slow) = g[m]
  <2>1. \E g : /\ Pending!Runs(g, launched, launched.pending, m)
               /\ Pending!FoldLeft(NextPending, launched, launched.pending) = g[m]
    BY <1>6, Pending!FoldRuns
  <2>2. FoldLeft(NextPending, launched, launched.pending)
          = Pending!FoldLeft(NextPending, launched, launched.pending)
    BY DEF FoldLeft, Pending!FoldLeft, MapThenFoldSet, Pending!MapThenFoldSet, Max, Pending!Max
  <2>3. Gather(slow) = FoldLeft(NextPending, launched, launched.pending)
    BY DEF Gather, launched, begin
  <2> QED
    BY <2>1, <2>2, <2>3
<1>8. \A i \in 0..m : i \in {k \in 0..m : GatheringOK(g[k]) /\ Len(g[k].pending) = m - k}
  <2> DEFINE S == {k \in 0..m : GatheringOK(g[k]) /\ Len(g[k].pending) = m - k}
  <2> HIDE DEF m
  <2>1. 0 \in S
    <3>1. g[0] = launched /\ 0 \in 0..m /\ m - 0 = m
      BY <1>6, <1>7 DEF Pending!Runs
    <3> QED
      BY <1>6, <3>1 DEF m
  <2>2. ASSUME NEW i \in 1..m, i - 1 \in S PROVE i \in S
    <3>1. g[i] = DrainFirst(g[i - 1])
      BY <1>7 DEF Pending!Runs, NextPending
    <3>2. GatheringOK(g[i - 1]) /\ Len(g[i - 1].pending) = m - (i - 1)
      BY <2>2
    <3>3. Len(g[i - 1].pending) # 0 /\ g[i - 1].pending # << >>
      BY <1>6, <3>2
    <3>4. GatheringOK(g[i]) /\ Len(g[i].pending) = Len(g[i - 1].pending) - 1
      BY <3>1, <3>2, <3>3, DrainKeeps
    <3>5. Len(g[i].pending) = m - i
      BY <1>6, <3>2, <3>4
    <3> QED
      BY <3>4, <3>5
  <2>3. \A i \in 0..m : i \in S
    <3> HIDE DEF S
    <3> QED
      BY <1>6, <2>1, <2>2, Pending!AlongTheRun
  <2> QED
    BY <2>3
<1> QED
  BY <1>6, <1>7, <1>8

-----------------------------------------------------------------------------
(* ProbedSensors: the steps.                                                *)

(* fs: the mounts not backed off, one after the other.  *)
LEMMA FsKeeps ==
  ASSUME ProbesInv, NEW t \in ProbedSet, NEW slow \in SUBSET ProbedSet, sample_fs(t, slow)
  PROVE  ProbesInv'
<1> DEFINE g == Gather(slow)
<1>1. /\ mood' = mood /\ instant' = instant /\ prober' = prober /\ stage' = stage
      /\ lines' = lines /\ strays' = strays
      /\ instant \in Nat /\ probe_cache.at \in Nat /\ ProbeTtl \in Nat
  BY ProbesAssumption DEF sample_fs, Steady, ProbesInv, ProbesTypes
<1>2. CASE FreshProbe \/ \A m \in ProbedSet : BackedOff(m)
  <2>1. /\ UNCHANGED <<until, strikes, workers, probe_cache, blocked>>
        /\ probe' = IF FreshProbe THEN Answer(t, Cached(t), instant - probe_cache.at)
                                  ELSE Answer(t, FALSE, 0)
    BY <1>2 DEF sample_fs, Unasked
  <2>2. Young'
    <3>1. CASE FreshProbe
      BY <1>1, <2>1, <3>1 DEF Answer, FreshProbe, Young
    <3>2. CASE ~ FreshProbe
      BY <1>1, <2>1, <3>2 DEF Answer, Young
    <3> QED
      BY <3>1, <3>2
  <2> QED
    BY <1>1, <2>1, <2>2 DEF ProbesInv, ProbesTypes, Struck, Strayed, Workers
<1>3. CASE ~ (FreshProbe \/ \A m \in ProbedSet : BackedOff(m))
  <2>1. /\ strikes' = g.strikes /\ workers' = workers \cup g.left /\ blocked' = g.blocked
        /\ probe_cache' = IF g.stats = {} THEN probe_cache
                          ELSE [taken |-> TRUE, at |-> instant, data |-> g.stats]
        /\ probe' = Answer(t, t \in g.stats, 0)
    BY <1>3 DEF sample_fs, Marked, Refreshed
  <2>2. GatheringOK(g) /\ Len(g.pending) = 0
    BY GatherKeeps DEF ProbesInv
  <2> HIDE DEF g
  <2>3. Struck(workers', strikes')
    BY <2>1, <2>2, FS_Union DEF GatheringOK, Struck
  <2>4. Workers' <= MaxDetached
    <3>1. IsFiniteSet(workers) /\ IsFiniteSet(g.left)
      BY <2>2 DEF GatheringOK, Struck
    <3>2. /\ IsFiniteSet(workers \cap g.left) /\ IsFiniteSet(workers \cup g.left)
          /\ Cardinality(workers \cup g.left)
               = Cardinality(workers) + Cardinality(g.left) - Cardinality(workers \cap g.left)
      BY <3>1, FS_Union, FS_Intersection
    <3>3. /\ Cardinality(workers) \in Nat /\ Cardinality(g.left) \in Nat
          /\ Cardinality(workers \cap g.left) \in Nat
      BY <3>1, <3>2, FS_CardinalityType
    <3>4. /\ Cardinality(g.left) <= g.started /\ g.started \in Nat /\ MaxDetached \in Nat
          /\ g.started = 0 \/ Cardinality(workers) + g.started <= MaxDetached
          /\ Cardinality(workers) <= MaxDetached
      BY <2>2, <3>3, ProbesAssumption DEF GatheringOK, Workers, ProbesInv
    <3> QED
      BY <2>1, <3>2, <3>3, <3>4 DEF Workers
  <2>5. probe_cache' \in [taken : BOOLEAN, at : Nat, data : SUBSET ProbedSet]
    BY <1>1, <2>1, <2>2 DEF ProbesInv, ProbesTypes, GatheringOK
  <2>6. Young' /\ ~ blocked' /\ strikes' \in [ProbedSet -> Nat]
    BY <1>1, <2>1, <2>2 DEF Answer, Young, GatheringOK
  <2>7. Struck(workers, strikes)'
    BY <1>1, <2>3 DEF Struck
  <2> QED
    BY <1>1, <2>4, <2>5, <2>6, <2>7 DEF ProbesInv, ProbesTypes, Strayed
<1> QED
  BY <1>2, <1>3

(* nvml and smart ask one target at a time, and none once the cap is reached. *)
LEMMA OneHangIsCounted ==
  ASSUME ProbesInv, mood' = mood, NEW t \in ProbedSet,
         strikes' \in [ProbedSet -> Nat],
         \A u \in ProbedSet \ {t} : strikes'[u] = strikes[u],
         mood[t] = "hung" => strikes'[t] = strikes[t] + 1,
         workers' = IF Workers >= MaxDetached THEN workers ELSE StillHung(workers, Marks, t)
  PROVE  Struck(workers, strikes)' /\ Workers' <= MaxDetached
<1>1. /\ Struck(workers, strikes) /\ strikes \in [ProbedSet -> Nat]
      /\ Marks.strikes = strikes /\ Workers <= MaxDetached
  BY DEF ProbesInv, ProbesTypes, Marks
<1>2. /\ Struck(workers, strikes') /\ Struck(StillHung(workers, Marks, t), strikes')
      /\ Cardinality(StillHung(workers, Marks, t)) <= Cardinality(workers) + 1
  BY <1>1, HangIsCounted
<1>3. Struck(workers, strikes)'
  <2>1. Struck(workers', strikes')
    BY <1>2
  <2> QED
    BY <2>1 DEF Struck
<1>4. Workers \in Nat /\ Workers' \in Nat /\ MaxDetached \in Nat
  BY <1>1, <1>3, FS_CardinalityType, ProbesAssumption DEF Struck, Workers
<1>5. Workers' <= MaxDetached
  BY <1>1, <1>2, <1>4 DEF Workers
<1> QED
  BY <1>3, <1>5

(* What the two do to the marks of the one they ask.  *)
LEMMA OneMarked ==
  ASSUME ProbesInv, NEW t \in ProbedSet,
         NEW was \in {"timeout", "fine", "failing"}, mood[t] = "hung" => was = "timeout",
         \/ was = "timeout" /\ strikes' = mark_backoff(Marks, t).strikes
         \/ was # "timeout" /\ strikes' = clear_backoff(Marks, t).strikes
         \/ was # "timeout" /\ strikes' = strikes
  PROVE  /\ strikes' \in [ProbedSet -> Nat]
         /\ \A u \in ProbedSet \ {t} : strikes'[u] = strikes[u]
         /\ mood[t] = "hung" => strikes'[t] = strikes[t] + 1
<1>1. /\ "strikes" \in DOMAIN Marks /\ "until" \in DOMAIN Marks /\ Marks.strikes = strikes
      /\ strikes \in [ProbedSet -> Nat]
  BY DEF Marks, ProbesInv, ProbesTypes
<1>2. /\ mark_backoff(Marks, t).strikes = [strikes EXCEPT ![t] = @ + 1]
      /\ clear_backoff(Marks, t).strikes = [strikes EXCEPT ![t] = 0]
  <2>1. mark_backoff(Marks, t).strikes = [Marks.strikes EXCEPT ![t] = @ + 1]
    BY <1>1, MarksChanged
  <2>2. clear_backoff(Marks, t).strikes = [Marks.strikes EXCEPT ![t] = 0]
    BY <1>1, MarksChanged
  <2> QED
    BY <1>1, <2>1, <2>2
<1>3. CASE was = "timeout" /\ strikes' = mark_backoff(Marks, t).strikes
  <2>1. strikes' = [strikes EXCEPT ![t] = @ + 1]
    BY <1>2, <1>3
  <2> QED
    BY <1>1, <2>1
<1>4. CASE was # "timeout" /\ strikes' = clear_backoff(Marks, t).strikes
  <2>1. strikes' = [strikes EXCEPT ![t] = 0]
    BY <1>2, <1>4
  <2>2. mood[t] # "hung"
    BY <1>4
  <2> QED
    BY <1>1, <2>1, <2>2
<1>5. CASE was # "timeout" /\ strikes' = strikes
  <2>1. mood[t] # "hung"
    BY <1>5
  <2> QED
    BY <1>1, <1>5, <2>1
<1> QED
  BY <1>3, <1>4, <1>5

LEMMA NvmlKeeps ==
  ASSUME ProbesInv, NEW t \in ProbedSet, sample_nvml(t)
  PROVE  ProbesInv'
<1> DEFINE was == IF Workers >= MaxDetached \/ mood[t] = "hung" THEN "timeout" ELSE mood[t]
<1>1. /\ mood' = mood /\ instant' = instant /\ prober' = prober /\ stage' = stage
      /\ lines' = lines /\ strays' = strays /\ ProbeTtl \in Nat
      /\ probe_cache' = probe_cache /\ blocked' = blocked /\ probe'.age = 0
  BY ProbesAssumption DEF sample_nvml, Steady, Unasked, Answer
<1>2. Young' /\ Strayed' /\ ~ blocked'
  BY <1>1 DEF Young, Strayed, ProbesInv
<1>3. CASE BackedOff(t)
  <2>1. UNCHANGED <<strikes, workers>>
    BY <1>3 DEF sample_nvml, Unasked
  <2> QED
    BY <1>1, <1>2, <2>1 DEF ProbesInv, ProbesTypes, Struck, Workers
<1>4. CASE ~ BackedOff(t)
  <2>1. /\ Marked(CASE was = "timeout" -> mark_backoff(Marks, t)
                    [] was = "fine" -> clear_backoff(Marks, t)
                    [] OTHER -> Marks)
        /\ workers' = IF Workers >= MaxDetached THEN workers
                      ELSE StillHung(workers, Marks, t)
    BY <1>4 DEF sample_nvml, sample_device
  <2>2. was \in {"timeout", "fine", "failing"} /\ (mood[t] = "hung" => was = "timeout")
    BY DEF ProbesInv, ProbesTypes
  <2> HIDE DEF was
  <2>3. \/ was = "timeout" /\ strikes' = mark_backoff(Marks, t).strikes
        \/ was # "timeout" /\ strikes' = clear_backoff(Marks, t).strikes
        \/ was # "timeout" /\ strikes' = strikes
    <3>1. CASE was = "timeout"
      BY <2>1, <3>1 DEF Marked
    <3>2. CASE was = "fine"
      BY <2>1, <3>2 DEF Marked
    <3>3. CASE was = "failing"
      <4>1. strikes' = Marks.strikes
        BY <2>1, <3>3 DEF Marked
      <4> QED
        BY <3>3, <4>1 DEF Marks
    <3> QED
      BY <2>2, <3>1, <3>2, <3>3
  <2>4. /\ strikes' \in [ProbedSet -> Nat]
        /\ \A u \in ProbedSet \ {t} : strikes'[u] = strikes[u]
        /\ mood[t] = "hung" => strikes'[t] = strikes[t] + 1
    BY <2>2, <2>3, OneMarked
  <2>5. Struck(workers, strikes)' /\ Workers' <= MaxDetached
    BY <1>1, <2>1, <2>4, OneHangIsCounted
  <2> QED
    BY <1>1, <1>2, <2>4, <2>5 DEF ProbesInv, ProbesTypes
<1> QED
  BY <1>3, <1>4

(* smart, at init as in a sample.  *)
LEMMA FetchKeeps ==
  ASSUME ProbesInv, mood' = mood, instant' = instant, NEW drives,
         fetch_smart_drives_timeout(drives)
  PROVE  ProbesTypes' /\ Workers' <= MaxDetached
<1>1. Bus \in ProbedSet /\ instant \in Nat
  BY ProbesAssumption DEF Bus, ProbesInv, ProbesTypes
<1>2. /\ drives \in {"timeout", "fine", "failing"} /\ (mood[Bus] = "hung" => drives = "timeout")
      /\ Marked(IF drives = "timeout" THEN mark_backoff(Marks, Bus)
                ELSE clear_backoff(Marks, Bus))
      /\ workers' = IF Workers >= MaxDetached THEN workers
                    ELSE StillHung(workers, Marks, Bus)
      /\ probe_cache' = IF drives = "fine"
                        THEN [taken |-> TRUE, at |-> instant, data |-> {Bus}]
                        ELSE probe_cache
  BY <1>1
  DEF fetch_smart_drives_timeout, fetch_smart_drives, Capped, Refreshed, ProbesInv, ProbesTypes
<1>3. \/ drives = "timeout" /\ strikes' = mark_backoff(Marks, Bus).strikes
      \/ drives # "timeout" /\ strikes' = clear_backoff(Marks, Bus).strikes
      \/ drives # "timeout" /\ strikes' = strikes
  BY <1>2 DEF Marked
<1>4. /\ strikes' \in [ProbedSet -> Nat]
      /\ \A u \in ProbedSet \ {Bus} : strikes'[u] = strikes[u]
      /\ mood[Bus] = "hung" => strikes'[Bus] = strikes[Bus] + 1
  BY <1>1, <1>2, <1>3, OneMarked
<1>5. Struck(workers, strikes)' /\ Workers' <= MaxDetached
  BY <1>1, <1>2, <1>4, OneHangIsCounted
<1>6. probe_cache' \in [taken : BOOLEAN, at : Nat, data : SUBSET ProbedSet]
  <2>1. [taken |-> TRUE, at |-> instant, data |-> {Bus}]
          \in [taken : BOOLEAN, at : Nat, data : SUBSET ProbedSet]
    BY <1>1
  <2> QED
    BY <1>2, <2>1 DEF ProbesInv, ProbesTypes
<1> QED
  BY <1>4, <1>5, <1>6 DEF ProbesInv, ProbesTypes

LEMMA SmartKeeps ==
  ASSUME ProbesInv, NEW drives, init_smart(drives) \/ sample_smart(drives)
  PROVE  ProbesInv'
<1>1. /\ mood' = mood /\ instant' = instant /\ prober' = prober /\ prober = "smart"
      /\ lines' = lines /\ strays' = strays /\ blocked' = blocked
  BY DEF init_smart, sample_smart, Steady
<1>2. Young' /\ Strayed' /\ ~ blocked'
  BY <1>1 DEF Young, Strayed, ProbesInv
<1>3. CASE fetch_smart_drives_timeout(drives)
  BY <1>1, <1>2, <1>3, FetchKeeps DEF ProbesInv
<1>4. CASE UNCHANGED <<until, strikes, workers, probe_cache>>
  BY <1>1, <1>2, <1>4 DEF ProbesInv, ProbesTypes, Struck, Workers
<1> QED
  BY <1>3, <1>4 DEF init_smart, sample_smart

(* What init does that counts nothing: only fs leaves threads behind.  *)
LEMMA InitKeeps ==
  ASSUME ProbesInv,
         \/ \E keyed \in BOOLEAN : init_fs(keyed)
         \/ \E unique \in BOOLEAN : registers_fs(unique)
         \/ nvml_init
  PROVE  ProbesInv'
<1>1. UNCHANGED <<prober, instant, mood, strikes, workers, probe_cache, probe, blocked>>
  BY DEF init_fs, registers_fs, nvml_init, Unasked
<1>2. Strayed'
  <2>1. CASE \E keyed \in BOOLEAN : init_fs(keyed)
    <3>1. /\ prober = "fs" /\ stage = "init" /\ lines \in Nat
          /\ strays \subseteq 1..lines /\ strays' \subseteq strays \cup {lines + 1}
          /\ \/ lines' = lines + 1 /\ stage' = stage
             \/ lines' = lines /\ stage' = "refused"
      BY <2>1 DEF init_fs, ProbesInv, Strayed
    <3>2. strays' \subseteq 1..(lines + 1)
      BY <3>1
    <3> QED
      BY <1>1, <3>1, <3>2 DEF Strayed
  <2>2. CASE \E unique \in BOOLEAN : registers_fs(unique)
    BY <1>1, <2>2 DEF registers_fs, ProbesInv, Strayed
  <2>3. CASE nvml_init
    BY <1>1, <2>3 DEF nvml_init, ProbesInv, Strayed
  <2> QED
    BY <2>1, <2>2, <2>3
<1> QED
  BY <1>1, <1>2 DEF ProbesInv, ProbesTypes, Struck, Young, Workers

(* A call that returns takes its thread with it.  *)
LEMMA MoodKeeps ==
  ASSUME ProbesInv, NEW t \in ProbedSet, NEW m \in {"fine", "failing", "hung"}, TurnsMood(t, m)
  PROVE  ProbesInv'
<1>1. /\ mood' = [mood EXCEPT ![t] = m]
      /\ UNCHANGED <<prober, instant, strikes, probe_cache, probe, blocked, stage, lines>>
      /\ workers' \subseteq workers /\ strays' \subseteq strays
      /\ mood[t] = "hung" => \A w \in workers' : w.target # t
  BY DEF TurnsMood
<1>2. IsFiniteSet(workers') /\ Cardinality(workers') <= Cardinality(workers)
  BY <1>1, FS_Subset DEF ProbesInv, ProbesTypes, Struck
<1>3. Workers' <= MaxDetached
  <2>1. Workers \in Nat /\ Workers' \in Nat /\ MaxDetached \in Nat
    BY <1>2, FS_CardinalityType, ProbesAssumption DEF ProbesInv, ProbesTypes, Struck, Workers
  <2> QED
    BY <1>2, <2>1 DEF ProbesInv, Workers
<1>4. Struck(workers, strikes)'
  <2> SUFFICES ASSUME NEW w \in workers'
               PROVE  mood'[w.target] = "hung" /\ w.strike \in 1..strikes'[w.target]
    BY <1>1, <1>2 DEF Struck, ProbesInv, ProbesTypes
  <2>1. /\ w.target \in ProbedSet /\ mood[w.target] = "hung" /\ w.target # t
        /\ w.strike \in 1..strikes[w.target]
    BY <1>1 DEF ProbesInv, ProbesTypes, Struck, Thread
  <2> QED
    BY <1>1, <2>1 DEF ProbesInv, ProbesTypes
<1>5. ProbesTypes'
  BY <1>1, <1>4 DEF ProbesInv, ProbesTypes
<1> QED
  BY <1>1, <1>3, <1>5 DEF ProbesInv, Strayed, Young

(* The invariant is enough: the lines bound the threads init left.  *)
LEMMA ContainedThen == ProbesInv => ProbesAreContained
<1> SUFFICES ASSUME ProbesInv PROVE ProbesAreContained
  OBVIOUS
<1>1. /\ Workers \in Nat /\ MaxDetached \in Nat /\ lines \in Nat
      /\ \A w \in workers : w.strike \in 1..strikes[w.target]
  BY FS_CardinalityType, ProbesAssumption
  DEF ProbesInv, ProbesTypes, Strayed, Struck, Workers
<1>2. CASE prober # "fs"
  <2>1. Cardinality(strays) = 0
    BY <1>2, FS_EmptySet DEF ProbesInv, Strayed
  <2> QED
    BY <1>1, <1>2, <2>1 DEF ProbesInv, Young, ProbesAreContained
<1>3. CASE prober = "fs"
  <2>1. strays \subseteq 1..(lines + 1)
    BY <1>1 DEF ProbesInv, Strayed
  <2>2. IsFiniteSet(1..(lines + 1)) /\ Cardinality(1..(lines + 1)) = lines + 1
    <3>1. 1 \in Int /\ lines + 1 \in Int
          /\ (IF 1 > lines + 1 THEN 0 ELSE lines + 1 - 1 + 1) = lines + 1
      BY <1>1
    <3> QED
      BY <3>1, FS_Interval
  <2>3. Cardinality(strays) <= lines + 1 /\ Cardinality(strays) \in Nat
    <3>1. IsFiniteSet(strays) /\ Cardinality(strays) <= Cardinality(1..(lines + 1))
      BY <2>1, <2>2, FS_Subset
    <3> QED
      BY <2>2, <3>1, FS_CardinalityType
  <2> QED
    BY <1>1, <1>3, <2>3 DEF ProbesInv, Young, ProbesAreContained
<1> QED
  BY <1>2, <1>3

-----------------------------------------------------------------------------
(* However many mounts and GPUs there are, whichever of them hang or recover *)
(* and in whatever order, from init on: the calls of samples of fs, nvml and *)
(* smart that never return stay within their cap, each counted by a strike   *)
(* of its own; what fs's init leaves comes on top, at most one thread for    *)
(* each line of the mount table; and nobody waits for a permit that is never *)
(* given back.                                                               *)
THEOREM ProbedSensorsCorrect == ProbesSpec => []ProbesAreContained
<1>1. ProbesInit => ProbesInv
  <2> SUFFICES ASSUME ProbesInit PROVE ProbesInv
    OBVIOUS
  <2>1. IsFiniteSet({}) /\ Cardinality({}) = 0
    BY FS_EmptySet
  <2>2. Struck(workers, strikes) /\ Workers <= MaxDetached
    BY <2>1, ProbesAssumption DEF ProbesInit, Struck, Workers
  <2> QED
    BY <2>2 DEF ProbesInit, ProbesInv, ProbesTypes, Strayed, Young
<1>2. ProbesInv /\ [ProbesNext]_probeVars => ProbesInv'
  <2> SUFFICES ASSUME ProbesInv, [ProbesNext]_probeVars PROVE ProbesInv'
    OBVIOUS
  <2>1. ASSUME NEW t \in ProbedSet, NEW slow \in SUBSET ProbedSet, sample_fs(t, slow)
        PROVE ProbesInv'
    BY <2>1, FsKeeps
  <2>2. ASSUME NEW t \in ProbedSet, sample_nvml(t) PROVE ProbesInv'
    BY <2>2, NvmlKeeps
  <2>3. ASSUME NEW drives, init_smart(drives) \/ sample_smart(drives) PROVE ProbesInv'
    BY <2>3, SmartKeeps
  <2>4. ASSUME NEW t \in ProbedSet, NEW m \in {"fine", "failing", "hung"}, TurnsMood(t, m)
        PROVE ProbesInv'
    BY <2>4, MoodKeeps
  <2>5. CASE ProbeTick
    BY <2>5 DEF ProbeTick, ProbesInv, ProbesTypes, Struck, Strayed, Young, Workers
  <2>6. CASE UNCHANGED probeVars
    BY <2>6 DEF probeVars, ProbesInv, ProbesTypes, Struck, Strayed, Young, Workers
  <2>7. CASE \/ \E keyed \in BOOLEAN : init_fs(keyed)
             \/ \E unique \in BOOLEAN : registers_fs(unique)
             \/ nvml_init
    BY <2>7, InitKeeps
  <2> QED
    BY <2>1, <2>2, <2>3, <2>4, <2>5, <2>6, <2>7 DEF ProbesNext
<1>3. ProbesInv => ProbesAreContained
  BY ContainedThen
<1> QED
  BY <1>1, <1>2, <1>3, PTL DEF ProbesSpec

-----------------------------------------------------------------------------
(* Sensors: the inductive invariant.                                         *)

Slots == {"main", "tcp", "sockstat", "temp_c", "freq_hz"}

(* Every metric a plugin may advertise for a device, with the files behind it. *)
AllMetrics(d) ==
    CASE plugin = "disk" -> disk_init(d) [] plugin = "nvme" -> nvme_init(d)
      [] plugin = "net" -> net_init(d) [] plugin = "zram" -> zram_init(d)
      [] plugin = "hwmon" -> hwmon_init(d) [] plugin = "i915" -> i915_init(d)
      [] plugin = "amdgpu" -> amdgpu_init(d) [] plugin = "mem" -> mem_init(d)
      [] plugin = "sock" -> sock_init(d) [] plugin = "system" -> system_init(d)
      [] plugin = "xe" -> [m \in DOMAIN XeFiles |-> {XeFiles[m][i] : i \in DOMAIN XeFiles[m]}]
      [] plugin = "cpu" -> cpu_init(d)

Behind(d, m) == Paths(d.entry, AllMetrics(d)[m])

(* Something a sensor needs was, or is, not there to be read. *)
Excused(d, m) == (Behind(d, m) \cup Shared(<<d.name, m>>))
                     \cap (broken \cup (Behind(d, m) \ Existing)) # {}
FilesOf(d, m, ps) == ps \subseteq Behind(d, m) \/ OfNamesake(<<d.name, m>>, ps)
Real(d, m, ps) == FilesOf(d, m, ps) /\ (ps = {} => Tolerated(<<d.name, m>>))

(* Which snapshot answers for a metric, and under which key. *)
SlotOf(d, m) ==
    IF plugin \in {"net", "mem", "system"} \/ (plugin \in {"disk", "nvme"} /\ m \in BlockMetrics)
    THEN "main"
    ELSE IF plugin = "sock" THEN IF AllMetrics(d)[m] = {"sockstat"} THEN "sockstat" ELSE "tcp"
    ELSE "none"
KeyOf(d, m) == IF plugin \in {"net", "system"} THEN <<d.name, m>> ELSE d.name

(* A snapshot taken at t has every device's reading, or that device is excused. *)
SnapshotFits(s, data, t) ==
    \A d \in devices : \A m \in DOMAIN AllMetrics(d) :
        SlotOf(d, m) = s =>
            IF KeyOf(d, m) \in DOMAIN data
            THEN data[KeyOf(d, m)].at = t /\ Real(d, m, data[KeyOf(d, m)].from)
            ELSE Excused(d, m)
(* The files the cpu plugin found are of the metric, or none was there. *)
Found(s, data) ==
    \A d \in devices : s \in DOMAIN cpu_init(d) =>
        /\ data["paths"] \subseteq Behind(d, s)
        /\ data["paths"] = {} => Excused(d, s)

SlotFits(s, c) ==
    c # NoSnapshot =>
        /\ c.at \in Nat /\ c.at <= now
        /\ IF plugin = "cpu" THEN Found(s, c.data) ELSE SnapshotFits(s, c.data, c.at)
CacheFits(cs) == DOMAIN cs = Slots /\ cs = [s \in Slots |-> cs[s]] /\ \A s \in Slots : SlotFits(s, cs[s])

Machine == plugin \in DOMAIN Trees /\ tree \in Trees[plugin] /\ now \in Nat
LossesKnown == \A p \in Existing : p \in readable \/ p \in broken

DeviceFits(d) ==
    /\ d.entry \in tree /\ d.static.from \subseteq Paths(d.entry, {"size"})
    /\ plugin = "system" => "zone" \in d.entry.attrs \/ "root" \in d.entry.attrs
DevicesFit(ds) ==
    /\ \A d \in ds : DeviceFits(d)
    /\ \A d, e \in ds : d.name = e.name => d.entry = e.entry \/ (Zone(d) /\ Zone(e))
    /\ \A d, e \in ds : d.entry = e.entry => d = e
    /\ plugin \in {"cpu", "mem", "sock"} => \A d, e \in ds : d = e
    /\ plugin = "system" /\ ds # {} => \E d \in ds : "root" \in d.entry.attrs

Advert(d, m) == [id |-> <<d.name, m>>, from |-> Behind(d, m)]
AdvertsFit(as, ds) ==
    \A a \in as : \E d \in First(ds) : \E m \in DOMAIN AllMetrics(d) : a = Advert(d, m)

(* What a sample may have answered. *)
Answered(d, m, r) ==
    IF r.ok
    THEN /\ FilesOf(d, m, r.value.from)
         /\ IsStatic(<<d.name, m>>) \/ (r.value.at \in Nat /\ r.value.at <= now
                                        /\ now - r.value.at <= SnapshotTtl)
         /\ r.value.from = {} => Tolerated(<<d.name, m>>) \/ IsStatic(<<d.name, m>>)
    ELSE Excused(d, m)
Answers(d, m, r) == Answered(d, m, r) /\ CacheFits(r.cache)

LastWasAdvertised == last.id # << >> => \E a \in adverts : a.id = last.id

SensorsInv ==
    /\ Machine /\ LossesKnown
    /\ DevicesFit(devices) /\ AdvertsFit(adverts, devices)
    /\ devices = {} => cache = [s \in Slots |-> NoSnapshot]
    /\ CacheFits(cache)
    /\ LastWasAdvertised /\ ReadingsAreReal

-----------------------------------------------------------------------------
(* Looking something up in a snapshot.                                       *)

LEMMA SlotReplaced ==
  ASSUME NEW cs, CacheFits(cs), NEW s \in Slots, NEW c, SlotFits(s, c)
  PROVE  CacheFits([cs EXCEPT ![s] = c])
<1> DEFINE new == [cs EXCEPT ![s] = c]
<1>1. DOMAIN cs = Slots /\ \A x \in Slots : SlotFits(x, cs[x])
  BY DEF CacheFits
<1>2. /\ DOMAIN new = Slots /\ new = [x \in Slots |-> new[x]]
      /\ \A x \in Slots : new[x] = IF x = s THEN c ELSE cs[x]
  BY <1>1
<1> HIDE DEF new
<1>3. \A x \in Slots : SlotFits(x, new[x])
  BY <1>1, <1>2
<1>4. CacheFits(new)
  BY <1>2, <1>3, Zenon DEF CacheFits
<1> QED
  BY <1>4 DEF new

LEMMA NamesOnce ==
  ASSUME DevicesFit(devices), plugin # "system"
  PROVE  \A d, e \in devices : d.name = e.name => d = e
BY DEF DevicesFit, Zone

LEMMA LookedUp ==
  ASSUME Machine, CacheFits(cache), plugin # "cpu", NEW d \in devices, NEW m \in DOMAIN AllMetrics(d),
         NEW s \in Slots, SlotOf(d, m) = s, NEW fresh,
         ~ SnapshotCache_get(cache[s]) => SnapshotFits(s, fresh, now)
  PROVE  Answers(d, m, Lookup(s, fresh, KeyOf(d, m)))
<1> DEFINE c == IF SnapshotCache_get(cache[s]) THEN cache[s] ELSE [at |-> now, data |-> fresh]
           cs == [cache EXCEPT ![s] = c]
           k == KeyOf(d, m)
           r == IF k \in DOMAIN c.data THEN Ok(c.data[k], cs) ELSE Err(cs)
<1>1. r = Lookup(s, fresh, k)
  BY DEF Lookup
<1>2. now \in Nat /\ SnapshotTtl \in Nat
  BY TreesAssumption DEF Machine
<1>3. c.at \in Nat /\ c.at <= now /\ now - c.at <= SnapshotTtl /\ SnapshotFits(s, c.data, c.at)
  <2>1. CASE SnapshotCache_get(cache[s])
    <3>1. SlotFits(s, cache[s]) /\ cache[s] # NoSnapshot /\ now - cache[s].at <= SnapshotTtl
      BY <2>1 DEF CacheFits, SnapshotCache_get
    <3> QED
      BY <2>1, <3>1 DEF SlotFits
  <2>2. CASE ~ SnapshotCache_get(cache[s])
    <3>1. c.at = now /\ c.data = fresh
      BY <2>2
    <3> QED
      BY <1>2, <2>2, <3>1
  <2> QED
    BY <2>1, <2>2
<1>4. SlotFits(s, c)
  BY <1>3 DEF SlotFits
<1>5. CacheFits(cs)
  <2> HIDE DEF c
  <2> QED
    BY <1>4, SlotReplaced
<1> HIDE DEF c, cs
<1>6. IF k \in DOMAIN c.data THEN c.data[k].at = c.at /\ Real(d, m, c.data[k].from)
      ELSE Excused(d, m)
  BY <1>3 DEF SnapshotFits
<1>7. r.cache = cs
  BY DEF Ok, Err
<1>8. Answered(d, m, r)
  <2>1. CASE k \in DOMAIN c.data
    <3>1. r.ok = TRUE /\ r.value = c.data[k]
      BY <2>1 DEF Ok
    <3>2. r.value.at = c.at /\ Real(d, m, r.value.from)
      BY <1>6, <2>1, <3>1
    <3> QED
      BY <1>3, <3>1, <3>2 DEF Answered, Real
  <2>2. CASE k \notin DOMAIN c.data
    <3>1. r.ok = FALSE
      BY <2>2 DEF Err
    <3> QED
      BY <1>6, <2>2, <3>1 DEF Answered
  <2> QED
    BY <2>1, <2>2
<1>9. Answers(d, m, r)
  BY <1>5, <1>7, <1>8 DEF Answers
<1> QED
  BY <1>1, <1>9

(* A file that cannot be read excuses the sensor it is behind.               *)
LEMMA Unreadable ==
  ASSUME LossesKnown, NEW d, NEW m, NEW p \in Behind(d, m), p \notin readable
  PROVE  Excused(d, m)
<1>1. p \in broken \/ p \notin Existing
  BY DEF LossesKnown
<1>2. p \in broken \cup (Behind(d, m) \ Existing)
  BY <1>1
<1> QED
  BY <1>2 DEF Excused

LEMMA NotAllReadable ==
  ASSUME LossesKnown, NEW d, NEW m, ~ CanRead(d.entry, AllMetrics(d)[m])
  PROVE  Excused(d, m)
<1>1. PICK p \in Behind(d, m) : p \notin readable
  BY DEF CanRead, Behind
<1> QED
  BY <1>1, Unreadable

LEMMA ReadDirectly ==
  ASSUME Machine, LossesKnown, CacheFits(cache), NEW d, NEW m, AllMetrics(d)[m] # {}
  PROVE  Answers(d, m, Direct(d, AllMetrics(d)[m]))
<1> DEFINE r == Direct(d, AllMetrics(d)[m])
<1>1. now \in Nat /\ SnapshotTtl \in Nat
  BY TreesAssumption DEF Machine
<1>2. CASE CanRead(d.entry, AllMetrics(d)[m])
  <2>1. r = Ok(Value(Behind(d, m)), cache)
    BY <1>2 DEF Direct, Behind
  <2>2. r.ok = TRUE /\ r.value.from = Behind(d, m) /\ r.value.at = now /\ r.cache = cache
    BY <2>1 DEF Ok, Value
  <2>3. Behind(d, m) # {}
    BY DEF Behind, Paths
  <2> QED
    BY <1>1, <2>2, <2>3 DEF Answers, Answered, FilesOf
<1>3. CASE ~ CanRead(d.entry, AllMetrics(d)[m])
  <2>1. r = Err(cache)
    BY <1>3 DEF Direct
  <2>2. r.ok = FALSE /\ r.cache = cache
    BY <2>1 DEF Err
  <2> QED
    BY <1>3, <2>2, NotAllReadable DEF Answers, Answered
<1> QED
  BY <1>2, <1>3

-----------------------------------------------------------------------------
(* disk and nvme: the block devices' statistics, and the capacity read once. *)

LEMMA StaticAnswers ==
  ASSUME SensorsInv, plugin \in {"disk", "nvme"}, NEW d \in devices,
         AllMetrics(d)["capacity_bytes"] = {"size"}
  PROVE  Answers(d, "capacity_bytes", Ok(d.static, cache))
<1>1. d.static.from \subseteq Behind(d, "capacity_bytes") /\ CacheFits(cache)
  BY DEF SensorsInv, DevicesFit, DeviceFits, Behind
<1>2. IsStatic(<<d.name, "capacity_bytes">>)
  BY DEF IsStatic
<1> DEFINE r == Ok(d.static, cache)
<1>3. r.ok = TRUE /\ r.value = d.static /\ r.cache = cache
  BY DEF Ok
<1> HIDE DEF r
<1> QED
  BY <1>1, <1>2, <1>3 DEF Answers, Answered, FilesOf, r

LEMMA BlockSnapshot ==
  ASSUME SensorsInv, plugin \in {"disk", "nvme"},
         \A d \in devices : \A m \in BlockMetrics \cap DOMAIN AllMetrics(d) : AllMetrics(d)[m] = {"stat"}
  PROVE  SnapshotFits("main", disk_snapshot, now)
<1>1. LossesKnown /\ DevicesFit(devices)
  BY DEF SensorsInv
<1>2. ASSUME NEW d \in devices, NEW m \in DOMAIN AllMetrics(d), SlotOf(d, m) = "main"
      PROVE  IF KeyOf(d, m) \in DOMAIN disk_snapshot
             THEN /\ disk_snapshot[KeyOf(d, m)].at = now
                  /\ Real(d, m, disk_snapshot[KeyOf(d, m)].from)
             ELSE Excused(d, m)
  <2>1. m \in BlockMetrics /\ KeyOf(d, m) = d.name /\ AllMetrics(d)[m] = {"stat"}
    BY <1>2 DEF SlotOf, KeyOf
  <2>2. \A x \in devices : x.name = d.name <=> x = d
    BY <1>1, NamesOnce
  <2>3. CASE CanRead(d.entry, {"stat"})
    <3>1. d.name \in DOMAIN disk_snapshot
      BY <2>3 DEF disk_snapshot
    <3>2. disk_snapshot[d.name] = Value(UNION {Paths(x.entry, {"stat"}) : x \in {y \in devices : y.name = d.name}})
      BY <3>1 DEF disk_snapshot
    <3>3. {y \in devices : y.name = d.name} = {d}
      BY <2>2
    <3>4. disk_snapshot[d.name] = Value(Behind(d, m))
      BY <2>1, <3>2, <3>3 DEF Behind
    <3>5. Behind(d, m) # {}
      BY <2>1 DEF Behind, Paths
    <3> QED
      BY <2>1, <3>1, <3>4, <3>5 DEF Value, Real, FilesOf
  <2>4. CASE ~ CanRead(d.entry, {"stat"})
    <3>1. d.name \notin DOMAIN disk_snapshot
      BY <2>2, <2>4 DEF disk_snapshot
    <3>2. Excused(d, m)
      BY <1>1, <2>1, <2>4, NotAllReadable
    <3> QED
      BY <2>1, <3>1, <3>2
  <2> QED
    BY <2>3, <2>4
<1> QED
  BY <1>2 DEF SnapshotFits

LEMMA DiskAnswers ==
  ASSUME SensorsInv, plugin = "disk", NEW d \in devices, NEW m \in DOMAIN AllMetrics(d)
  PROVE  Answers(d, m, Sample(d, m))
<1>1. /\ \A e : AllMetrics(e) = disk_init(e)
      /\ Sample(d, m) = disk_sample(d, m)
  BY DEF AllMetrics, Sample
<1>2. \A e : /\ DOMAIN disk_init(e) = {"capacity_bytes"} \cup BlockMetrics
             /\ disk_init(e)["capacity_bytes"] = {"size"}
             /\ \A b \in BlockMetrics : disk_init(e)[b] = {"stat"}
  BY DEF disk_init, Join, Of, BlockMetrics
<1>3. CASE m = "capacity_bytes"
  <2>1. Sample(d, m) = Ok(d.static, cache)
    BY <1>1, <1>3 DEF disk_sample
  <2> QED
    BY <1>1, <1>2, <1>3, <2>1, StaticAnswers
<1>4. CASE m # "capacity_bytes"
  <2>1. m \in BlockMetrics /\ Sample(d, m) = Lookup("main", disk_snapshot, d.name)
    BY <1>1, <1>2, <1>4 DEF disk_sample
  <2>2. SlotOf(d, m) = "main" /\ KeyOf(d, m) = d.name /\ "main" \in Slots
    BY <2>1 DEF SlotOf, KeyOf, Slots
  <2>3. SnapshotFits("main", disk_snapshot, now)
    BY <1>1, <1>2, BlockSnapshot
  <2>4. Machine /\ CacheFits(cache)
    BY DEF SensorsInv
  <2>5. Answers(d, m, Lookup("main", disk_snapshot, KeyOf(d, m)))
    BY <2>2, <2>3, <2>4, LookedUp
  <2> QED
    BY <2>1, <2>2, <2>5
<1> QED
  BY <1>3, <1>4

LEMMA NvmeAnswers ==
  ASSUME SensorsInv, plugin = "nvme", NEW d \in devices, NEW m \in DOMAIN AllMetrics(d)
  PROVE  Answers(d, m, Sample(d, m))
<1>1. /\ \A e : AllMetrics(e) = nvme_init(e)
      /\ Sample(d, m) = nvme_sample(d, m)
  BY DEF AllMetrics, Sample
<1>2. \A e : /\ DOMAIN nvme_init(e) \subseteq {"capacity_bytes", "temp_c"} \cup BlockMetrics
             /\ nvme_init(e)["capacity_bytes"] = {"size"}
             /\ "temp_c" \in DOMAIN nvme_init(e) => nvme_init(e)["temp_c"] = {"temp1_input"}
             /\ \A b \in BlockMetrics \cap DOMAIN nvme_init(e) : nvme_init(e)[b] = {"stat"}
  <2>1. ASSUME NEW e, NEW T \in {{}, {"temp_c"}}, NEW B \in {{}, BlockMetrics}
        PROVE  LET f == Join(Of({"capacity_bytes"}, {"size"}), Join(Of(T, {"temp1_input"}), Of(B, {"stat"})))
               IN /\ DOMAIN f \subseteq {"capacity_bytes", "temp_c"} \cup BlockMetrics
                  /\ f["capacity_bytes"] = {"size"}
                  /\ "temp_c" \in DOMAIN f => f["temp_c"] = {"temp1_input"}
                  /\ \A b \in BlockMetrics \cap DOMAIN f : f[b] = {"stat"}
    BY DEF Join, Of, BlockMetrics
  <2>2. ASSUME NEW e
        PROVE  \E T \in {{}, {"temp_c"}}, B \in {{}, BlockMetrics} :
                  nvme_init(e) = Join(Of({"capacity_bytes"}, {"size"}),
                                      Join(Of(T, {"temp1_input"}), Of(B, {"stat"})))
    BY DEF nvme_init
  <2> QED
    BY <2>1, <2>2
<1>3. CASE m = "capacity_bytes"
  <2>1. Sample(d, m) = Ok(d.static, cache)
    BY <1>1, <1>3 DEF nvme_sample
  <2> QED
    BY <1>1, <1>2, <1>3, <2>1, StaticAnswers
<1>4. CASE m = "temp_c"
  <2>1. Sample(d, m) = Direct(d, {"temp1_input"})
    BY <1>1, <1>4 DEF nvme_sample
  <2>2. AllMetrics(d)[m] = {"temp1_input"}
    BY <1>1, <1>2, <1>4
  <2> QED
    BY <2>1, <2>2, ReadDirectly DEF SensorsInv
<1>5. CASE m \notin {"capacity_bytes", "temp_c"}
  <2>1. m \in BlockMetrics /\ Sample(d, m) = Lookup("main", nvme_snapshot, d.name)
    BY <1>1, <1>2, <1>5 DEF nvme_sample
  <2>2. SlotOf(d, m) = "main" /\ KeyOf(d, m) = d.name /\ "main" \in Slots
    BY <2>1 DEF SlotOf, KeyOf, Slots
  <2>3. SnapshotFits("main", nvme_snapshot, now)
    <3>1. nvme_snapshot = disk_snapshot
      BY DEF nvme_snapshot, disk_snapshot
    <3> QED
      BY <1>1, <1>2, <3>1, BlockSnapshot
  <2>4. Machine /\ CacheFits(cache)
    BY DEF SensorsInv
  <2>5. Answers(d, m, Lookup("main", nvme_snapshot, KeyOf(d, m)))
    BY <2>2, <2>3, <2>4, LookedUp
  <2> QED
    BY <2>1, <2>2, <2>5
<1> QED
  BY <1>3, <1>4, <1>5

-----------------------------------------------------------------------------
(* net: all statistics of an interface, or the interface is left out.        *)

NetOptional == {"link_state", "speed_mbps"}

LEMMA NetMetrics ==
  ASSUME NEW d
  PROVE  /\ net_init(d) = net_init(0)
         /\ DOMAIN net_init(d) = STAT_SENSORS \cup NetOptional
         /\ \A m \in STAT_SENSORS : net_init(d)[m] = {m}
  BY DEF net_init, Join, Of, STAT_SENSORS, NetOptional

LEMMA NetSnapshotFits ==
  ASSUME SensorsInv, plugin = "net"
  PROVE  SnapshotFits("main", net_snapshot, now)
<1> DEFINE up == {d \in devices : CanRead(d.entry, STAT_SENSORS)}
           entry(n) == (CHOOSE d \in up : d.name = n).entry
           keys == {<<d.name, m>> : d \in up, m \in DOMAIN net_init(0)}
           v(k) == IF k[2] \in STAT_SENSORS THEN Value({Path(entry(k[1]), k[2])})
                   ELSE Optional(entry(k[1]), net_init(0)[k[2]])
<1>1. LossesKnown /\ DevicesFit(devices) /\ Machine
  BY DEF SensorsInv
<1>2. DOMAIN net_snapshot = keys /\ \A k \in keys : net_snapshot[k] = v(k)
  BY DEF net_snapshot
<1>3. \A d \in devices : \A e \in devices : d.name = e.name => d = e
  BY <1>1, NamesOnce
<1>4. \A d : AllMetrics(d) = net_init(0)
  BY NetMetrics DEF AllMetrics
<1>5. ASSUME NEW d \in devices, NEW m \in DOMAIN AllMetrics(d)
      PROVE  IF KeyOf(d, m) \in DOMAIN net_snapshot
             THEN /\ net_snapshot[KeyOf(d, m)].at = now
                  /\ Real(d, m, net_snapshot[KeyOf(d, m)].from)
             ELSE Excused(d, m)
  <2> DEFINE k == <<d.name, m>>
  <2>1. KeyOf(d, m) = k /\ k[1] = d.name /\ k[2] = m
    BY DEF KeyOf
  <2>2. m \in STAT_SENSORS \cup NetOptional /\ m \in DOMAIN net_init(0)
    BY <1>4, NetMetrics
  <2>3. CASE d \in up
    <3>1. k \in keys
      BY <2>2, <2>3
    <3>2. entry(d.name) = d.entry
      <4>1. \A x \in up : x.name = d.name <=> x = d
        BY <1>3, <2>3
      <4>2. (CHOOSE x \in up : x.name = d.name) = d
        BY <2>3, <4>1
      <4> QED
        BY <4>2
    <3> HIDE DEF up, entry, keys
    <3>3. k \in DOMAIN net_snapshot /\ net_snapshot[k] = v(k)
      BY <1>2, <3>1
    <3>4. CASE m \in STAT_SENSORS
      <4>1. v(k) = Value({Path(d.entry, m)})
        BY <2>1, <3>2, <3>4
      <4>2. Behind(d, m) = {Path(d.entry, m)}
        BY <1>4, <3>4, NetMetrics DEF Behind, Paths
      <4> QED
        BY <2>1, <3>3, <4>1, <4>2 DEF Value, Real, FilesOf
    <3>5. CASE m \notin STAT_SENSORS
      <4>1. v(k) = Optional(d.entry, net_init(0)[m])
        BY <2>1, <3>2, <3>5
      <4>2. Behind(d, m) = Paths(d.entry, net_init(0)[m])
        BY <1>4 DEF Behind
      <4>3. Tolerated(<<d.name, m>>)
        BY <2>2, <3>5 DEF Tolerated, NetOptional
      <4> QED
        BY <2>1, <3>3, <4>1, <4>2, <4>3 DEF Optional, Value, Real, FilesOf
    <3> QED
      BY <3>4, <3>5
  <2>4. CASE d \notin up
    <3>1. k \notin DOMAIN net_snapshot
      <4>1. \A x \in up : \A n : <<x.name, n>> # k
        BY <1>3, <2>4
      <4>2. k \notin keys
        BY <4>1
      <4> HIDE DEF keys, k
      <4> QED
        BY <1>2, <4>2
    <3>2. PICK p \in Paths(d.entry, STAT_SENSORS) : p \notin readable
      BY <2>4 DEF CanRead
    <3>3. p \in Existing
      <4>1. d.entry \in tree
        BY <1>1 DEF DevicesFit, DeviceFits
      <4>2. STAT_SENSORS \subseteq d.entry.files
        BY <1>1, <4>1, TreesAssumption DEF Machine
      <4> QED
        BY <3>2, <4>1, <4>2 DEF Existing, Paths
    <3>4. p \in broken
      BY <1>1, <3>2, <3>3 DEF LossesKnown
    <3>5. p \in Shared(<<d.name, m>>)
      <4>1. Shared(k) = UNION {Paths(x.entry, STAT_SENSORS) : x \in {y \in devices : y.name = k[1]}}
        BY DEF Shared
      <4> QED
        BY <2>1, <3>2, <4>1
    <3>6. Excused(d, m)
      BY <3>4, <3>5 DEF Excused
    <3> QED
      BY <2>1, <3>1, <3>6
  <2> QED
    BY <2>3, <2>4
<1> QED
  BY <1>5 DEF SnapshotFits

LEMMA NetAnswers ==
  ASSUME SensorsInv, plugin = "net", NEW d \in devices, NEW m \in DOMAIN AllMetrics(d)
  PROVE  Answers(d, m, Sample(d, m))
<1>1. Sample(d, m) = Lookup("main", net_snapshot, <<d.name, m>>)
  BY DEF Sample, net_sample
<1>2. SlotOf(d, m) = "main" /\ KeyOf(d, m) = <<d.name, m>> /\ "main" \in Slots
  BY DEF SlotOf, KeyOf, Slots
<1>3. Machine /\ CacheFits(cache) /\ SnapshotFits("main", net_snapshot, now)
  BY NetSnapshotFits DEF SensorsInv
<1>4. Answers(d, m, Lookup("main", net_snapshot, KeyOf(d, m)))
  BY <1>2, <1>3, LookedUp
<1> QED
  BY <1>1, <1>2, <1>4

-----------------------------------------------------------------------------
(* zram, hwmon, i915, amdgpu and xe: straight from the device's files.       *)

LEMMA ZramAnswers ==
  ASSUME SensorsInv, plugin = "zram", NEW d \in devices, NEW m \in DOMAIN AllMetrics(d)
  PROVE  Answers(d, m, Sample(d, m))
<1>1. AllMetrics(d) = zram_init(d) /\ Sample(d, m) = Direct(d, {"mm_stat"})
  BY DEF AllMetrics, Sample, zram_sample
<1>2. AllMetrics(d)[m] = {"mm_stat"}
  BY <1>1 DEF zram_init, Of
<1> QED
  BY <1>1, <1>2, ReadDirectly DEF SensorsInv

LEMMA HwmonAnswers ==
  ASSUME SensorsInv, plugin = "hwmon", NEW d \in devices, NEW m \in DOMAIN AllMetrics(d)
  PROVE  Answers(d, m, Sample(d, m))
<1>1. AllMetrics(d) = hwmon_init(d) /\ Sample(d, m) = Direct(d, {FirstInput(d, m)})
  BY DEF AllMetrics, Sample, hwmon_sample
<1>2. AllMetrics(d)[m] = {FirstInput(d, m)}
  BY <1>1 DEF hwmon_init
<1> QED
  BY <1>1, <1>2, ReadDirectly DEF SensorsInv

LEMMA I915Answers ==
  ASSUME SensorsInv, plugin = "i915", NEW d \in devices, NEW m \in DOMAIN AllMetrics(d)
  PROVE  Answers(d, m, Sample(d, m))
<1>1. AllMetrics(d) = i915_init(d) /\ Sample(d, m) = Direct(d, i915_init(d)[m])
  BY DEF AllMetrics, Sample, i915_sample
<1>2. AllMetrics(d)[m] # {}
  <2>1. ASSUME NEW T \in {{}, {"temp_c"}},
               AllMetrics(d) = Join([cur_freq_hz |-> {"gt_cur_freq_mhz"}, act_freq_hz |-> {"gt_act_freq_mhz"}],
                                    Of(T, {"temp1_input"}))
        PROVE  AllMetrics(d)[m] # {}
    BY <2>1 DEF Join, Of
  <2> QED
    BY <1>1, <2>1 DEF i915_init
<1> QED
  BY <1>1, <1>2, ReadDirectly DEF SensorsInv

LEMMA AmdgpuAnswers ==
  ASSUME SensorsInv, plugin = "amdgpu", NEW d \in devices, NEW m \in DOMAIN AllMetrics(d)
  PROVE  Answers(d, m, Sample(d, m))
<1>1. AllMetrics(d) = amdgpu_init(d) /\ Sample(d, m) = Direct(d, amdgpu_init(d)[m])
  BY DEF AllMetrics, Sample, amdgpu_sample
<1>2. AllMetrics(d)[m] # {}
  <2> DEFINE always == [util |-> {"gpu_busy_percent"}, mem_used_bytes |-> {"mem_info_vram_used"},
                         mem_total_bytes |-> {"mem_info_vram_total"}]
             optional == IF "hwmon" \in d.entry.attrs
                         THEN [temp_c |-> {"temp1_input"}, power_w |-> {"power1_input"}] ELSE << >>
  <2>1. AllMetrics(d) = Join(always, optional)
    BY <1>1 DEF amdgpu_init
  <2>2. \A n \in DOMAIN always : always[n] # {}
    OBVIOUS
  <2>3. \A n \in DOMAIN optional : optional[n] # {}
    <3>1. CASE "hwmon" \in d.entry.attrs
      BY <3>1
    <3>2. CASE "hwmon" \notin d.entry.attrs
      BY <3>2
    <3> QED
      BY <3>1, <3>2
  <2> HIDE DEF always, optional
  <2> QED
    BY <2>1, <2>2, <2>3 DEF Join
<1> QED
  BY <1>1, <1>2, ReadDirectly DEF SensorsInv

LEMMA XeFile ==
  ASSUME NEW d, NEW m \in DOMAIN XeFiles, XeRead(d, m) # {}
  PROVE  \E i \in DOMAIN XeFiles[m] : XeRead(d, m) = {XeFiles[m][i]} /\ CanRead(d.entry, {XeFiles[m][i]})
<1> DEFINE up == {i \in DOMAIN XeFiles[m] : CanRead(d.entry, {XeFiles[m][i]})}
           first == CHOOSE i \in up : \A j \in up : i <= j
<1>1. XeRead(d, m) = IF up = {} THEN {} ELSE {XeFiles[m][first]}
  BY DEF XeRead
<1>2. DOMAIN XeFiles[m] \in {1..1, 1..2}
  BY DEF XeFiles
<1>3. up \subseteq 1..2 /\ up # {} /\ up \subseteq DOMAIN XeFiles[m]
  <2>1. up # {}
    BY <1>1
  <2>2. up \subseteq DOMAIN XeFiles[m]
    OBVIOUS
  <2> HIDE DEF up
  <2> QED
    BY <1>2, <2>1, <2>2
<1>4. \E i \in up : \A j \in up : i <= j
  <2> HIDE DEF up
  <2>1. CASE 1 \in up
    BY <1>3, <2>1
  <2>2. CASE 1 \notin up
    <3>1. \A i \in up : i = 2
      BY <1>3, <2>2
    <3>2. 2 \in up
      BY <1>3, <3>1
    <3> QED
      BY <3>1, <3>2
  <2> QED
    BY <2>1, <2>2
<1>5. first \in up
  <2> HIDE DEF up
  <2> QED
    BY <1>4
<1> HIDE DEF first
<1>6. first \in DOMAIN XeFiles[m] /\ CanRead(d.entry, {XeFiles[m][first]})
  BY <1>5
<1> QED
  BY <1>1, <1>3, <1>6

LEMMA XeAnswers ==
  ASSUME SensorsInv, plugin = "xe", NEW d \in devices, NEW m \in DOMAIN AllMetrics(d)
  PROVE  Answers(d, m, Sample(d, m))
<1> DEFINE files == {XeFiles[m][i] : i \in DOMAIN XeFiles[m]}
<1>1. /\ m \in DOMAIN XeFiles /\ AllMetrics(d)[m] = files
      /\ Sample(d, m) = IF XeRead(d, m) = {} THEN Err(cache) ELSE Direct(d, XeRead(d, m))
  BY DEF AllMetrics, Sample, xe_sample
<1>2. LossesKnown /\ CacheFits(cache) /\ now \in Nat /\ SnapshotTtl \in Nat
  BY TreesAssumption DEF SensorsInv, Machine
<1>3. CASE XeRead(d, m) = {}
  <2>1. 1 \in DOMAIN XeFiles[m]
    BY <1>1 DEF XeFiles
  <2>2. ~ CanRead(d.entry, {XeFiles[m][1]})
    BY <1>3, <2>1 DEF XeRead
  <2>3. ~ CanRead(d.entry, files)
    BY <2>1, <2>2 DEF CanRead, Paths
  <2>4. Excused(d, m)
    BY <1>1, <1>2, <2>3, NotAllReadable
  <2>5. Sample(d, m).ok = FALSE /\ Sample(d, m).cache = cache
    BY <1>1, <1>3 DEF Err
  <2> QED
    BY <1>2, <2>4, <2>5 DEF Answers, Answered
<1>4. CASE XeRead(d, m) # {}
  <2>1. PICK i \in DOMAIN XeFiles[m] : XeRead(d, m) = {XeFiles[m][i]} /\ CanRead(d.entry, {XeFiles[m][i]})
    BY <1>1, <1>4, XeFile
  <2> DEFINE ps == Paths(d.entry, {XeFiles[m][i]})
             r == Ok(Value(ps), cache)
  <2>2. Sample(d, m) = r
    BY <1>1, <1>4, <2>1 DEF Direct
  <2>3. ps \subseteq Behind(d, m) /\ ps # {}
    BY <1>1, <2>1 DEF Behind, Paths
  <2>4. r.ok = TRUE /\ r.value.from = ps /\ r.value.at = now /\ r.cache = cache
    BY DEF Ok, Value
  <2> HIDE DEF r, ps
  <2> QED
    BY <1>2, <2>2, <2>3, <2>4 DEF Answers, Answered, FilesOf
<1> QED
  BY <1>3, <1>4

-----------------------------------------------------------------------------
(* cpu: the files found once, of which any that can be read will do.         *)

LEMMA CpuAnswers ==
  ASSUME SensorsInv, plugin = "cpu", NEW d \in devices, NEW m \in DOMAIN AllMetrics(d)
  PROVE  Answers(d, m, Sample(d, m))
<1> DEFINE ps == cpu_found(d, m)
           c == [at |-> now, data |-> [x \in {"paths"} |-> ps]]
           keep == ps # {} \/ m = "freq_hz"
           cs == IF keep THEN [cache EXCEPT ![m] = c] ELSE cache
           r == IF ps \cap readable = {} THEN Err(cs) ELSE Ok(Value(ps \cap readable), cs)
<1>1. AllMetrics(d) = cpu_init(d) /\ Sample(d, m) = r
  BY DEF AllMetrics, Sample, cpu_sample
<1>2. /\ LossesKnown /\ CacheFits(cache) /\ now \in Nat /\ SnapshotTtl \in Nat
      /\ DevicesFit(devices) /\ Machine
  BY TreesAssumption DEF SensorsInv, Machine
<1>3. m \in DOMAIN cpu_init(d) /\ m \in Slots
  BY <1>1 DEF cpu_init, Slots
<1>4. Behind(d, m) = Paths(d.entry, cpu_init(d)[m]) /\ Behind(d, m) # {}
  BY <1>1, <1>3 DEF Behind, Paths, cpu_init
<1>5. ps \subseteq Behind(d, m) /\ (ps = {} => Excused(d, m))
  <2>1. CASE cache[m] # NoSnapshot
    <3>1. SlotFits(m, cache[m])
      BY <1>2, <1>3 DEF CacheFits
    <3>2. Found(m, cache[m].data)
      BY <2>1, <3>1 DEF SlotFits
    <3>3. ps = cache[m].data["paths"]
      BY <2>1 DEF cpu_found
    <3> QED
      BY <1>3, <3>2, <3>3 DEF Found
  <2>2. CASE cache[m] = NoSnapshot
    <3>1. ps = Behind(d, m) \cap readable
      BY <1>4, <2>2 DEF cpu_found
    <3>2. ps = {} => Excused(d, m)
      BY <1>2, <1>4, <3>1, Unreadable
    <3> QED
      BY <3>1, <3>2
  <2> QED
    BY <2>1, <2>2
<1>6. CacheFits(cs)
  <2>1. Found(m, c.data)
    <3>1. \A e \in devices : e = d
      BY <1>2 DEF DevicesFit
    <3>2. c.data["paths"] = ps
      OBVIOUS
    <3> HIDE DEF c, ps
    <3> QED
      BY <1>5, <3>1, <3>2 DEF Found
  <2>2. c.at = now
    OBVIOUS
  <2>3. SlotFits(m, c)
    <3> HIDE DEF c
    <3> QED
      BY <1>2, <2>1, <2>2 DEF SlotFits
  <2> HIDE DEF c
  <2>4. CacheFits([cache EXCEPT ![m] = c])
    BY <1>2, <1>3, <2>3, SlotReplaced
  <2> QED
    BY <1>2, <2>4
<1> HIDE DEF cs, ps
<1>7. CASE ps \cap readable = {}
  <2>1. r.ok = FALSE /\ r.cache = cs
    BY <1>7 DEF Err
  <2>2. Excused(d, m)
    <3>1. CASE ps = {}
      BY <1>5, <3>1
    <3>2. CASE ps # {}
      <4>1. PICK p \in ps : p \notin readable
        BY <1>7, <3>2
      <4> QED
        BY <1>2, <1>5, <4>1, Unreadable
    <3> QED
      BY <3>1, <3>2
  <2> HIDE DEF r
  <2> QED
    BY <1>1, <1>6, <2>1, <2>2 DEF Answers, Answered
<1>8. CASE ps \cap readable # {}
  <2> DEFINE v == Value(ps \cap readable)
  <2>1. r.ok = TRUE /\ r.value = v /\ r.cache = cs
    BY <1>8 DEF Ok
  <2>2. v.from = ps \cap readable /\ v.at = now
    BY DEF Value
  <2> HIDE DEF r, v
  <2> QED
    BY <1>1, <1>2, <1>5, <1>6, <1>8, <2>1, <2>2 DEF Answers, Answered, FilesOf
<1> QED
  BY <1>7, <1>8

-----------------------------------------------------------------------------
(* mem and sock: one device.                                                 *)

LEMMA MemAnswers ==
  ASSUME SensorsInv, plugin = "mem", NEW d \in devices, NEW m \in DOMAIN AllMetrics(d)
  PROVE  Answers(d, m, Sample(d, m))
<1>1. /\ \A e : AllMetrics(e) = mem_init(e)
      /\ Sample(d, m) = mem_sample(d, m)
  BY DEF AllMetrics, Sample
<1>2. /\ LossesKnown /\ CacheFits(cache) /\ Machine /\ DevicesFit(devices)
  BY DEF SensorsInv
<1>3. \A e : \A n \in DOMAIN AllMetrics(e) :
          /\ AllMetrics(e)[n] = {"meminfo"} /\ KeyOf(e, n) = e.name
          /\ Behind(e, n) = Paths(e.entry, {"meminfo"})
  BY <1>1 DEF mem_init, Of, KeyOf, Behind
<1>4. SlotOf(d, m) = "main" /\ "main" \in Slots
  BY DEF SlotOf, Slots
<1>5. CASE SnapshotCache_get(cache["main"]) \/ CanRead(d.entry, {"meminfo"})
  <2> DEFINE fresh == meminfo_snapshot(d)
  <2>1. Sample(d, m) = Lookup("main", fresh, KeyOf(d, m))
    BY <1>1, <1>3, <1>5 DEF mem_sample
  <2>2. SnapshotFits("main", fresh, now)
    <3>1. ASSUME NEW e \in devices, NEW n \in DOMAIN AllMetrics(e)
          PROVE  /\ KeyOf(e, n) \in DOMAIN fresh
                 /\ fresh[KeyOf(e, n)].at = now /\ Real(e, n, fresh[KeyOf(e, n)].from)
      <4>1. e = d
        BY <1>2 DEF DevicesFit
      <4>2. KeyOf(e, n) \in DOMAIN fresh /\ fresh[KeyOf(e, n)] = Value(Behind(e, n))
        BY <1>3, <4>1 DEF meminfo_snapshot
      <4>3. Behind(e, n) # {}
        BY <1>3 DEF Paths
      <4> HIDE DEF fresh
      <4> QED
        BY <4>2, <4>3 DEF Value, Real, FilesOf
    <3> QED
      BY <3>1 DEF SnapshotFits
  <2> HIDE DEF fresh
  <2>3. Answers(d, m, Lookup("main", fresh, KeyOf(d, m)))
    BY <1>2, <1>4, <2>2, LookedUp
  <2> QED
    BY <2>1, <2>3
<1>6. CASE ~ SnapshotCache_get(cache["main"]) /\ ~ CanRead(d.entry, {"meminfo"})
  <2>1. Sample(d, m) = Err(cache)
    BY <1>1, <1>6 DEF mem_sample
  <2>2. Sample(d, m).ok = FALSE /\ Sample(d, m).cache = cache
    BY <2>1 DEF Err
  <2>3. Excused(d, m)
    BY <1>2, <1>3, <1>6, NotAllReadable
  <2> QED
    BY <1>2, <2>2, <2>3 DEF Answers, Answered
<1> QED
  BY <1>5, <1>6

LEMMA SockAnswers ==
  ASSUME SensorsInv, plugin = "sock", NEW d \in devices, NEW m \in DOMAIN AllMetrics(d)
  PROVE  Answers(d, m, Sample(d, m))
<1> DEFINE slot == IF sock_init(d)[m] = {"sockstat"} THEN "sockstat" ELSE "tcp"
           fresh == [n \in {d.name} |-> Optional(d.entry, sock_init(d)[m])]
<1>1. /\ \A e : AllMetrics(e) = sock_init(e)
      /\ Sample(d, m) = Lookup(slot, fresh, d.name)
  BY DEF AllMetrics, Sample, sock_sample
<1>2. CacheFits(cache) /\ Machine /\ DevicesFit(devices)
  BY DEF SensorsInv
<1>3. SlotOf(d, m) = slot /\ slot \in Slots /\ KeyOf(d, m) = d.name
  BY <1>1 DEF SlotOf, Slots, KeyOf
<1>4. \A n \in DOMAIN sock_init(d) : sock_init(d)[n] \in {{"tcp", "tcp6"}, {"sockstat"}}
  BY DEF sock_init, Join, Of
<1>5. SnapshotFits(slot, fresh, now)
  <2>1. ASSUME NEW e \in devices, NEW n \in DOMAIN AllMetrics(e), SlotOf(e, n) = slot
        PROVE  /\ KeyOf(e, n) \in DOMAIN fresh
               /\ fresh[KeyOf(e, n)].at = now /\ Real(e, n, fresh[KeyOf(e, n)].from)
    <3>1. e = d
      BY <1>2 DEF DevicesFit
    <3>2. SlotOf(e, n) = IF sock_init(d)[n] = {"sockstat"} THEN "sockstat" ELSE "tcp"
      BY <1>1, <3>1 DEF SlotOf
    <3>3. sock_init(d)[n] = sock_init(d)[m]
      <4>1. n \in DOMAIN sock_init(d) /\ m \in DOMAIN sock_init(d)
        BY <1>1, <3>1
      <4> QED
        BY <1>4, <2>1, <3>2, <4>1
    <3>4. KeyOf(e, n) = d.name /\ Behind(e, n) = Paths(d.entry, sock_init(d)[m])
      BY <1>1, <3>1, <3>3 DEF KeyOf, Behind
    <3>5. /\ KeyOf(e, n) \in DOMAIN fresh
          /\ fresh[KeyOf(e, n)] = Value(Behind(e, n) \cap readable)
      BY <3>4 DEF Optional
    <3>6. Tolerated(<<e.name, n>>)
      BY DEF Tolerated
    <3> HIDE DEF fresh
    <3> QED
      BY <3>5, <3>6 DEF Value, Real, FilesOf
  <2> QED
    BY <2>1 DEF SnapshotFits
<1> HIDE DEF slot, fresh
<1>6. Answers(d, m, Lookup(slot, fresh, KeyOf(d, m)))
  BY <1>2, <1>3, <1>5, LookedUp
<1> QED
  BY <1>1, <1>3, <1>6

-----------------------------------------------------------------------------
(* system: nothing without the files of /proc, a zone less without its own.  *)

LEMMA TheRoot ==
  ASSUME SensorsInv, plugin = "system"
  PROVE  \E e \in tree :
            /\ \A d \in devices : "zone" \notin d.entry.attrs => d.entry = e
            /\ devices # {} => \E d \in devices : "zone" \notin d.entry.attrs
            /\ Paths(e, SystemRequired) \subseteq Existing
            /\ \A id : Shared(id) = Paths(e, SystemRequired)
<1>1. Machine /\ DevicesFit(devices)
  BY DEF SensorsInv
<1>2. PICK e \in tree : \A f \in tree : "root" \in f.attrs <=> f = e
  BY <1>1, TreesAssumption DEF Machine
<1>3. SystemRequired \subseteq e.files /\ "zone" \notin e.attrs
  BY <1>1, <1>2, TreesAssumption DEF Machine
<1>4. \A d \in devices : "zone" \notin d.entry.attrs => d.entry = e
  BY <1>1, <1>2 DEF DevicesFit, DeviceFits
<1>5. devices # {} => \E d \in devices : "zone" \notin d.entry.attrs
  <2> SUFFICES ASSUME devices # {} PROVE \E d \in devices : "zone" \notin d.entry.attrs
    OBVIOUS
  <2>1. PICK d \in devices : "root" \in d.entry.attrs
    BY <1>1 DEF DevicesFit
  <2>2. d.entry = e
    BY <1>1, <1>2, <2>1 DEF DevicesFit, DeviceFits
  <2> QED
    BY <1>3, <2>2
<1>6. Paths(e, SystemRequired) \subseteq Existing
  BY <1>3 DEF Existing, Paths
<1>7. ASSUME NEW id
      PROVE  Shared(id) = Paths(e, SystemRequired)
  <2>1. (CHOOSE f \in tree : "root" \in f.attrs) = e
    BY <1>2
  <2> QED
    BY <2>1 DEF Shared
<1> QED
  BY <1>3, <1>4, <1>5, <1>6, <1>7

LEMMA SystemMetrics ==
  ASSUME NEW d, NEW m \in DOMAIN system_init(d)
  PROVE  IF "zone" \in d.entry.attrs THEN system_init(d)[m] = {"temp"}
         ELSE \/ m \in {"entropy_bits", "cpu_some_10", "mem_full_10", "io_some_10"}
              \/ \E f \in SystemRequired : system_init(d)[m] = {f}
<1>1. CASE "zone" \in d.entry.attrs
  BY <1>1 DEF system_init, zone_init, Of
<1>2. CASE "zone" \notin d.entry.attrs
  <2>1. system_init(d) = SystemFiles
    BY <1>2 DEF system_init
  <2>2. \A n \in DOMAIN SystemFiles :
            \/ n \in {"entropy_bits", "cpu_some_10", "mem_full_10", "io_some_10"}
            \/ SystemFiles[n] \in {{"loadavg"}, {"uptime"}, {"stat"}}
    BY DEF SystemFiles
  <2> QED
    BY <1>2, <2>1, <2>2 DEF SystemRequired
<1> QED
  BY <1>1, <1>2

LEMMA LastZone ==
  ASSUME SensorsInv, NEW ds \in SUBSET devices, ds # {}
  PROVE  \E x \in ds : \A y \in ds : y.entry.idx <= x.entry.idx
<1> DEFINE left(x) == MaxIndex - x.entry.idx
           T == {left(x) : x \in ds}
<1>1. \A x \in ds : x.entry.idx \in 0..MaxIndex /\ MaxIndex \in Nat
  BY TreesAssumption DEF SensorsInv, Machine, DevicesFit, DeviceFits
<1>2. T \subseteq Nat /\ T # {}
  BY <1>1
<1> HIDE DEF T
<1> DEFINE R == OpToRel(<, Nat)
<1>2a. \A i, j \in Nat : <<j, i>> \in R <=> j < i
  BY DEF OpToRel
<1>2b. IsWellFoundedOn(R, Nat)
  BY NatLessThanWellFounded
<1> HIDE DEF R
<1>3. PICK n \in T : \A k \in T : ~ (<<k, n>> \in R)
  BY <1>2, <1>2b, WFMin
<1>4. \A k \in T : n <= k
  <2> SUFFICES ASSUME NEW k \in T PROVE n <= k
    OBVIOUS
  <2>1. k \in Nat /\ n \in Nat
    BY <1>2
  <2>2. ~ (k < n)
    BY <1>2a, <1>3, <2>1
  <2> QED
    BY <2>1, <2>2
<1>5. PICK x \in ds : n = left(x)
  BY DEF T
<1>6. \A y \in ds : left(x) <= left(y)
  BY <1>4, <1>5 DEF T
<1>7. \A y \in ds : y.entry.idx <= x.entry.idx
  BY <1>1, <1>6
<1> QED
  BY <1>7

LEMMA SystemSnapshotFits ==
  ASSUME SensorsInv, plugin = "system",
         \A d \in devices : "zone" \notin d.entry.attrs => CanRead(d.entry, SystemRequired)
  PROVE  SnapshotFits("main", system_snapshot, now)
<1> DEFINE up == {d \in devices : "zone" \notin d.entry.attrs \/ CanRead(d.entry, {"temp"})}
           keys == UNION {{<<d.name, m>> : m \in DOMAIN system_init(d)} : d \in up}
           last_up(k, x) == x.name = k[1] /\ \A y \in up : y.name = k[1] => y.entry.idx <= x.entry.idx
           dev(k) == CHOOSE x \in up : last_up(k, x)
<1>1. LossesKnown /\ DevicesFit(devices) /\ \A d : AllMetrics(d) = system_init(d)
  BY DEF SensorsInv, AllMetrics
<1>2. /\ DOMAIN system_snapshot = keys
      /\ \A k \in keys : system_snapshot[k] = Optional(dev(k).entry, system_init(dev(k))[k[2]])
  BY DEF system_snapshot
<1>3. ASSUME NEW d \in devices, NEW m \in DOMAIN AllMetrics(d)
      PROVE  IF KeyOf(d, m) \in DOMAIN system_snapshot
             THEN /\ system_snapshot[KeyOf(d, m)].at = now
                  /\ Real(d, m, system_snapshot[KeyOf(d, m)].from)
             ELSE Excused(d, m)
  <2> DEFINE k == <<d.name, m>>
             same == {x \in up : x.name = d.name}
             ps(x) == Paths(x.entry, system_init(x)[m])
  <2>1. KeyOf(d, m) = k /\ k[1] = d.name /\ k[2] = m /\ m \in DOMAIN system_init(d)
    BY <1>1 DEF KeyOf
  <2>2. \A x \in devices : x.name = d.name => x = d \/ (Zone(x) /\ Zone(d))
    BY <1>1 DEF DevicesFit
  <2>3. \A x \in devices : x.name = d.name => system_init(x) = system_init(d)
    BY <2>2 DEF Zone, system_init
  <2>4. CASE same # {}
    <3>1. k \in keys
      <4>1. PICK x \in same : TRUE
        BY <2>4
      <4>2. x \in up /\ <<x.name, m>> = k /\ m \in DOMAIN system_init(x)
        BY <2>1, <2>3, <4>1
      <4> QED
        BY <4>2
    <3>2. PICK x \in same : \A y \in same : y.entry.idx <= x.entry.idx
      <4>1. same \in SUBSET devices
        OBVIOUS
      <4> HIDE DEF same
      <4> QED
        BY <2>4, <4>1, LastZone
    <3>3. x \in up /\ last_up(k, x)
      BY <2>1, <3>2
    <3>4. dev(k) \in up /\ dev(k).name = d.name
      <4> HIDE DEF up
      <4>1. dev(k) \in up /\ last_up(k, dev(k))
        BY <3>3
      <4> QED
        BY <2>1, <4>1
    <3> DEFINE z == dev(k)
    <3> HIDE DEF keys, dev, k
    <3>5. k \in DOMAIN system_snapshot /\ system_snapshot[k] = Optional(z.entry, system_init(z)[m])
      BY <1>2, <2>1, <3>1
    <3>6. z \in devices /\ z.name = d.name /\ z \in up
      BY <3>4
    <3> HIDE DEF z
    <3>7. /\ system_snapshot[k].at = now
          /\ system_snapshot[k].from = ps(z) \cap readable
      BY <3>5 DEF Optional, Value
    <3>8. z = d \/ (Zone(z) /\ Zone(d))
      BY <2>2, <3>6
    <3>9. m \in DOMAIN system_init(z)
      BY <2>1, <2>3, <3>6
    <3>10. FilesOf(d, m, ps(z))
      <4>1. CASE z = d
        BY <1>1, <4>1 DEF FilesOf, Behind
      <4>2. CASE Zone(z)
        <5>1. m = "temp_c" /\ system_init(z)[m] = {"temp"}
          BY <3>9, <4>2 DEF Zone, system_init, zone_init, Of
        <5> QED
          BY <3>6, <4>2, <5>1 DEF FilesOf, OfNamesake
      <4> QED
        BY <3>8, <4>1, <4>2
    <3>11. ps(z) \cap readable = {} => Tolerated(<<d.name, m>>)
      <4>1. CASE "zone" \in z.entry.attrs
        <5>1. CanRead(z.entry, {"temp"}) /\ system_init(z)[m] = {"temp"}
          BY <3>6, <3>9, <4>1, SystemMetrics
        <5> QED
          BY <5>1 DEF CanRead, Paths
      <4>2. CASE "zone" \notin z.entry.attrs /\ \E f \in SystemRequired : system_init(z)[m] = {f}
        <5>1. CanRead(z.entry, SystemRequired)
          BY <3>6, <4>2
        <5> QED
          BY <4>2, <5>1 DEF CanRead, Paths
      <4>3. CASE m \in {"entropy_bits", "cpu_some_10", "mem_full_10", "io_some_10"}
        BY <4>3 DEF Tolerated
      <4> QED
        BY <3>9, <4>1, <4>2, <4>3, SystemMetrics
    <3>12. Real(d, m, ps(z) \cap readable)
      <4> DEFINE q == ps(z)
      <4>1. FilesOf(d, m, q) /\ (q \cap readable = {} => Tolerated(<<d.name, m>>))
        BY <3>10, <3>11
      <4> HIDE DEF q
      <4>2. FilesOf(d, m, q \cap readable)
        BY <4>1 DEF FilesOf, OfNamesake
      <4>3. Real(d, m, q \cap readable)
        BY <4>1, <4>2 DEF Real
      <4> QED
        BY <4>3 DEF q
    <3> QED
      BY <2>1, <3>5, <3>7, <3>12
  <2>5. CASE same = {}
    <3>1. k \notin DOMAIN system_snapshot
      <4>1. \A x \in up : \A n : <<x.name, n>> # k
        BY <2>5
      <4>2. k \notin keys
        BY <4>1
      <4> HIDE DEF keys, k
      <4> QED
        BY <1>2, <4>2
    <3>2. "zone" \in d.entry.attrs /\ ~ CanRead(d.entry, {"temp"})
      BY <2>5
    <3>3. AllMetrics(d)[m] = {"temp"}
      BY <1>1, <2>1, <3>2, SystemMetrics
    <3>4. Excused(d, m)
      BY <1>1, <3>2, <3>3, NotAllReadable
    <3> QED
      BY <2>1, <3>1, <3>4
  <2> QED
    BY <2>4, <2>5
<1> QED
  BY <1>3 DEF SnapshotFits

LEMMA SystemAnswers ==
  ASSUME SensorsInv, plugin = "system", NEW d \in devices, NEW m \in DOMAIN AllMetrics(d)
  PROVE  Answers(d, m, Sample(d, m))
<1> DEFINE root == CHOOSE x \in devices : "zone" \notin x.entry.attrs
<1>1. Sample(d, m) = IF ~ SnapshotCache_get(cache["main"]) /\ ~ CanRead(root.entry, SystemRequired)
                     THEN Err(cache) ELSE Lookup("main", system_snapshot, <<d.name, m>>)
  BY DEF Sample, system_sample
<1>2. PICK e \in tree :
            /\ \A x \in devices : "zone" \notin x.entry.attrs => x.entry = e
            /\ devices # {} => \E x \in devices : "zone" \notin x.entry.attrs
            /\ Paths(e, SystemRequired) \subseteq Existing
            /\ \A id : Shared(id) = Paths(e, SystemRequired)
  BY TheRoot
<1>3. root.entry = e
  BY <1>2
<1>4. Machine /\ LossesKnown /\ CacheFits(cache)
  BY DEF SensorsInv
<1> HIDE DEF root
<1>5. CASE SnapshotCache_get(cache["main"]) \/ CanRead(e, SystemRequired)
  <2>1. ~ SnapshotCache_get(cache["main"]) => SnapshotFits("main", system_snapshot, now)
    BY <1>2, <1>5, SystemSnapshotFits
  <2>2. SlotOf(d, m) = "main" /\ KeyOf(d, m) = <<d.name, m>> /\ "main" \in Slots
    BY DEF SlotOf, KeyOf, Slots
  <2>3. Answers(d, m, Lookup("main", system_snapshot, KeyOf(d, m)))
    BY <1>4, <2>1, <2>2, LookedUp
  <2> QED
    BY <1>1, <1>3, <1>5, <2>2, <2>3
<1>6. CASE ~ SnapshotCache_get(cache["main"]) /\ ~ CanRead(e, SystemRequired)
  <2>1. Sample(d, m) = Err(cache)
    BY <1>1, <1>3, <1>6
  <2>2. Sample(d, m).ok = FALSE /\ Sample(d, m).cache = cache
    BY <2>1 DEF Err
  <2>3. PICK p \in Paths(e, SystemRequired) : p \notin readable
    BY <1>6 DEF CanRead
  <2>4. p \in broken /\ p \in Shared(<<d.name, m>>)
    BY <1>2, <1>4, <2>3 DEF LossesKnown
  <2>5. Excused(d, m)
    BY <2>4 DEF Excused
  <2> QED
    BY <1>4, <2>2, <2>5 DEF Answers, Answered
<1> QED
  BY <1>5, <1>6

-----------------------------------------------------------------------------
(* Any plugin's sample is a reading of its device or excused by a loss.      *)

LEMMA SampleAnswers ==
  ASSUME SensorsInv, NEW d \in devices, NEW m \in DOMAIN AllMetrics(d)
  PROVE  Answers(d, m, Sample(d, m))
<1>1. plugin \in {"disk", "nvme", "net", "zram", "hwmon", "i915", "amdgpu",
                  "xe", "cpu", "mem", "sock", "system"}
  BY TreesAssumption DEF SensorsInv, Machine
<1> QED
  BY <1>1, DiskAnswers, NvmeAnswers, NetAnswers, ZramAnswers, HwmonAnswers, I915Answers,
     AmdgpuAnswers, XeAnswers, CpuAnswers, MemAnswers, SockAnswers, SystemAnswers

-----------------------------------------------------------------------------
(* What enumerate keeps: one device per entry; that every name is there once *)
(* is what the host checks.                                                  *)

LEMMA OncePerEntry ==
  ASSUME NEW es, NEW name
  PROVE  /\ \A d, c \in {Dev(name[e], e) : e \in es} : d.entry = c.entry => d = c
         /\ \A d \in {Dev(name[e], e) : e \in es} :
                d.entry \in es /\ d = Dev(name[d.entry], d.entry)
  BY DEF Dev

LEMMA DevFits ==
  ASSUME NEW e \in tree, NEW n,
         plugin = "system" => "zone" \in e.attrs \/ "root" \in e.attrs
  PROVE  DeviceFits(Dev(n, e))
  BY DEF DeviceFits, Dev, Optional, Value

LEMMA WholeOnce ==
  ASSUME Machine, plugin \in {"cpu", "mem", "sock", "system"}
  PROVE  \E e \in tree : "root" \in e.attrs /\ Whole = {Dev(<<plugin>>, e)}
<1>1. PICK e \in tree : \A f \in tree : "root" \in f.attrs <=> f = e
  BY TreesAssumption DEF Machine
<1>2. {x \in tree : "root" \in x.attrs} = {e}
  BY <1>1
<1>3. Whole = {Dev(<<plugin>>, x) : x \in {e}}
  BY <1>2 DEF Whole
<1> QED
  BY <1>1, <1>3

LEMMA Enumerated ==
  ASSUME Machine, validate_manifest(Enumerate)
  PROVE  DevicesFit(Enumerate)
<1>1. plugin \in {"disk", "nvme", "net", "zram", "hwmon", "i915", "amdgpu",
                  "xe", "cpu", "mem", "sock", "system"}
  BY TreesAssumption DEF Machine
<1>2. CASE plugin \in {"disk", "nvme", "net", "zram", "hwmon", "i915", "amdgpu", "xe"}
  <2>1. \E es \in SUBSET tree : \E name : Enumerate = {Dev(name[e], e) : e \in es}
    <3>1. CASE plugin = "hwmon"
      BY <3>1 DEF Enumerate, enumerate_hwmon
    <3>2. CASE plugin # "hwmon"
      <4> DEFINE name == [e \in tree |-> e.name]
      <4>1. \E es \in SUBSET tree : Enumerate = {Dev(e.name, e) : e \in es}
        <5>1. plugin = "disk" => Enumerate = disk_enumerate
          BY DEF Enumerate
        <5>2. plugin = "nvme" => Enumerate = nvme_enumerate
          BY DEF Enumerate
        <5>3. plugin = "net" => Enumerate = net_enumerate
          BY DEF Enumerate
        <5>4. plugin = "zram" => Enumerate = zram_enumerate
          BY DEF Enumerate
        <5>5. plugin = "i915" => Enumerate = i915_enumerate
          BY DEF Enumerate
        <5>6. plugin = "amdgpu" => Enumerate = amdgpu_enumerate
          BY DEF Enumerate
        <5>7. plugin = "xe" => Enumerate = xe_enumerate
          BY DEF Enumerate
        <5> QED
          BY <1>2, <3>2, <5>1, <5>2, <5>3, <5>4, <5>5, <5>6, <5>7
             DEF disk_enumerate, nvme_enumerate, net_enumerate, zram_enumerate,
                 i915_enumerate, amdgpu_enumerate, xe_enumerate
      <4>2. PICK es \in SUBSET tree : Enumerate = {Dev(e.name, e) : e \in es}
        BY <4>1
      <4>3. \A e \in es : e.name = name[e]
        OBVIOUS
      <4>4. Enumerate = {Dev(name[e], e) : e \in es}
        BY <4>2, <4>3
      <4> HIDE DEF name
      <4> QED
        BY <4>4
    <3> QED
      BY <3>1, <3>2
  <2>2a. PICK es \in SUBSET tree : \E name : Enumerate = {Dev(name[e], e) : e \in es}
    BY <2>1
  <2>2. PICK name : Enumerate = {Dev(name[e], e) : e \in es}
    BY <2>2a
  <2>3. /\ \A d, c \in Enumerate : d.entry = c.entry => d = c
        /\ \A d \in Enumerate : d.entry \in tree /\ d = Dev(name[d.entry], d.entry)
    BY <2>2, OncePerEntry
  <2>4. \A d \in Enumerate : DeviceFits(d)
    BY <1>2, <2>3, DevFits
  <2>5. \A d, c \in Enumerate : d.name = c.name => d = c
    BY <1>2 DEF validate_manifest, Zone
  <2> QED
    BY <1>2, <2>3, <2>4, <2>5 DEF DevicesFit
<1>3. CASE plugin \in {"cpu", "mem", "sock"}
  <2>1. PICK e \in tree : "root" \in e.attrs /\ Whole = {Dev(<<plugin>>, e)}
    BY <1>3, WholeOnce
  <2>2. Enumerate = {Dev(<<plugin>>, e)}
    BY <1>3, <2>1 DEF Enumerate
  <2>3. DeviceFits(Dev(<<plugin>>, e))
    BY <1>3, DevFits
  <2> QED
    BY <1>3, <2>2, <2>3 DEF DevicesFit
<1>4. CASE plugin = "system"
  <2> DEFINE es == {x \in tree : "zone" \in x.attrs /\ "temp" \in x.files}
             base == [e \in es |-> Sanitised(e.name)]
             name == [e \in es |-> <<"thermal", Disambiguated(base)[e]>>]
             zones == {Dev(name[e], e) : e \in es}
  <2>1. PICK r \in tree : "root" \in r.attrs /\ Whole = {Dev(<<plugin>>, r)}
    BY <1>4, WholeOnce
  <2>2. enumerate_thermal_zones = zones
    BY DEF enumerate_thermal_zones
  <2> DEFINE root == Dev(<<plugin>>, r)
  <2>3. Enumerate = {root} \cup zones
    <3> HIDE DEF zones
    <3> QED
      BY <1>4, <2>1, <2>2 DEF Enumerate
  <2>4. \A e \in es : e \in tree /\ "zone" \in e.attrs /\ \E n : name[e] = <<"thermal", n>>
    OBVIOUS
  <2> HIDE DEF es, name
  <2>5. /\ \A d, c \in zones : d.entry = c.entry => d = c
        /\ \A d \in zones : d.entry \in es /\ d = Dev(name[d.entry], d.entry)
    BY OncePerEntry
  <2> HIDE DEF zones
  <2>6. root.entry = r /\ root.name = <<"system">> /\ "zone" \notin r.attrs
    BY <1>4, <2>1, TreesAssumption DEF Machine, Dev
  <2>7. DeviceFits(root)
    BY <1>4, <2>1, DevFits
  <2>8. ASSUME NEW d \in zones
        PROVE  DeviceFits(d) /\ Zone(d) /\ d.entry # r /\ d.name # <<"system">>
    <3>1. d.entry \in es /\ d = Dev(name[d.entry], d.entry)
      BY <2>5
    <3>2. DeviceFits(d)
      BY <2>4, <3>1, DevFits
    <3>3. PICK n : d.name = <<"thermal", n>>
      BY <2>4, <3>1 DEF Dev
    <3> QED
      BY <1>4, <2>4, <2>6, <3>1, <3>2, <3>3 DEF Zone
  <2> HIDE DEF root
  <2>9. \A d, c \in Enumerate : d.name = c.name => d.entry = c.entry \/ (Zone(d) /\ Zone(c))
    BY <2>3, <2>6, <2>8
  <2>10. \A d, c \in Enumerate : d.entry = c.entry => d = c
    BY <2>3, <2>5, <2>6, <2>8
  <2> QED
    BY <1>4, <2>1, <2>3, <2>6, <2>7, <2>8, <2>9, <2>10 DEF DevicesFit
<1> QED
  BY <1>1, <1>2, <1>3, <1>4

(* init advertises some of the metrics, with the files behind them.          *)
LEMMA Advertised ==
  ASSUME Machine, NEW d, NEW m \in DOMAIN Metrics(d)
  PROVE  m \in DOMAIN AllMetrics(d) /\ Metrics(d)[m] = AllMetrics(d)[m]
<1>1. plugin \in {"disk", "nvme", "net", "zram", "hwmon", "i915", "amdgpu",
                  "xe", "cpu", "mem", "sock", "system"}
  BY TreesAssumption DEF Machine
<1>3. CASE plugin = "xe"
  BY <1>3 DEF Metrics, AllMetrics, xe_init, XeFiles
<1>4. CASE plugin # "xe"
  <2>1. Metrics(d) = AllMetrics(d)
    BY <1>1, <1>4 DEF Metrics, AllMetrics
  <2> QED
    BY <2>1
<1> QED
  BY <1>3, <1>4

-----------------------------------------------------------------------------
(* What is known of the snapshots and of the last sample survives a step:    *)
(* time passes and files are lost, and neither takes an excuse away.         *)

Goes == /\ plugin' = plugin /\ tree' = tree /\ devices' = devices
        /\ now' \in Nat /\ now' >= now /\ broken \subseteq broken'

LEMMA SameSensors ==
  ASSUME Goes
  PROVE  /\ \A d : (AllMetrics(d))' = AllMetrics(d)
         /\ \A d, m : Behind(d, m)' = Behind(d, m)
         /\ \A d, m : SlotOf(d, m)' = SlotOf(d, m) /\ KeyOf(d, m)' = KeyOf(d, m)
         /\ \A id : Shared(id)' = Shared(id)
         /\ \A id : Tolerated(id)' = Tolerated(id) /\ IsStatic(id)' = IsStatic(id)
         /\ \A id, ps : OfNamesake(id, ps)' = OfNamesake(id, ps)
         /\ Existing' = Existing
         /\ \A d, m : Excused(d, m) => Excused(d, m)'
<1>1. \A d : (AllMetrics(d))' = AllMetrics(d)
  BY DEF Goes, AllMetrics
<1>2. \A d, m : Behind(d, m)' = Behind(d, m)
  BY <1>1 DEF Behind
<1>3. \A d, m : SlotOf(d, m)' = SlotOf(d, m) /\ KeyOf(d, m)' = KeyOf(d, m)
  BY <1>1 DEF Goes, SlotOf, KeyOf
<1>4. \A id : Shared(id)' = Shared(id)
  BY DEF Goes, Shared
<1>5. \A id : Tolerated(id)' = Tolerated(id) /\ IsStatic(id)' = IsStatic(id)
  BY DEF Goes, Tolerated, IsStatic
<1>6. Existing' = Existing
  BY DEF Goes, Existing
<1>7. ASSUME NEW d, NEW m, Excused(d, m)
      PROVE  Excused(d, m)'
  BY <1>2, <1>4, <1>6, <1>7 DEF Excused, Goes
<1>8. \A id, ps : OfNamesake(id, ps)' = OfNamesake(id, ps)
  BY DEF Goes, OfNamesake, Zone
<1> QED
  BY <1>1, <1>2, <1>3, <1>4, <1>5, <1>6, <1>7, <1>8

LEMMA StillFits ==
  ASSUME Machine, Goes, NEW cs, CacheFits(cs), cache' = cs
  PROVE  CacheFits(cache)'
<1>1. now \in Nat
  BY DEF Machine
<1>2. ASSUME NEW s, NEW data, NEW t, SnapshotFits(s, data, t)
      PROVE  SnapshotFits(s, data, t)'
  BY <1>2, SameSensors DEF SnapshotFits, Real, FilesOf, Goes
<1>3. ASSUME NEW s, NEW data, Found(s, data)
      PROVE  Found(s, data)'
  BY <1>3, SameSensors DEF Found, cpu_init, Goes
<1>4. ASSUME NEW s, NEW c, SlotFits(s, c)
      PROVE  SlotFits(s, c)'
  BY <1>1, <1>2, <1>3, <1>4 DEF SlotFits, Goes
<1> QED
  BY <1>4 DEF CacheFits

(* The last sample, when no sensor was sampled since.                        *)
LEMMA StillReal ==
  ASSUME ReadingsAreReal, Goes, UNCHANGED <<adverts, last>>
  PROVE  ReadingsAreReal'
<1>1. UNCHANGED SnapshotTtl
  OBVIOUS
<1>2. SUFFICES ASSUME last.id # << >>
               PROVE  LET own == UNION {a.from : a \in {x \in adverts : x.id = last.id}}
                      IN /\ last.ok =>
                               /\ \A a \in adverts : a.id = last.id =>
                                      \/ last.value.from \subseteq a.from
                                      \/ OfNamesake(last.id, last.value.from)'
                               /\ IsStatic(last.id)' \/ last.at - last.value.at <= SnapshotTtl
                               /\ last.value.from = {} => Tolerated(last.id)' \/ IsStatic(last.id)'
                         /\ ~ last.ok =>
                               (own \cup Shared(last.id)') \cap (broken' \cup (own \ Existing')) # {}
  BY DEF ReadingsAreReal, Goes
<1>3. /\ Shared(last.id)' = Shared(last.id) /\ Tolerated(last.id)' = Tolerated(last.id)
      /\ IsStatic(last.id)' = IsStatic(last.id) /\ Existing' = Existing
      /\ OfNamesake(last.id, last.value.from)' = OfNamesake(last.id, last.value.from)
  BY SameSensors
<1> QED
  BY <1>2, <1>3 DEF ReadingsAreReal, Goes

LEMMA StillInv ==
  ASSUME SensorsInv, Goes, UNCHANGED <<adverts, cache, last>>, LossesKnown'
  PROVE  SensorsInv'
<1>1. Machine /\ DevicesFit(devices) /\ AdvertsFit(adverts, devices) /\ CacheFits(cache)
      /\ LastWasAdvertised /\ ReadingsAreReal
  BY DEF SensorsInv
<1>2. Machine' /\ DevicesFit(devices)' /\ LastWasAdvertised'
  BY <1>1 DEF Goes, Machine, DevicesFit, DeviceFits, Zone, LastWasAdvertised
<1>3. AdvertsFit(adverts, devices)'
  BY <1>1, SameSensors DEF Goes, AdvertsFit, Advert, First
<1>4. CacheFits(cache)'
  BY <1>1, StillFits
<1>5. ReadingsAreReal'
  BY <1>1, StillReal
<1>6. (devices = {} => cache = [s \in Slots |-> NoSnapshot])'
  BY DEF SensorsInv, Goes
<1> QED
  BY <1>2, <1>3, <1>4, <1>5, <1>6 DEF SensorsInv

-----------------------------------------------------------------------------
(* The steps.                                                                *)

LEMMA SensorsStart ==
  SensorsInit => SensorsInv
<1> SUFFICES ASSUME SensorsInit PROVE SensorsInv
  OBVIOUS
<1>1. Machine /\ LossesKnown
  BY DEF SensorsInit, Machine, LossesKnown
<1>2. DevicesFit(devices) /\ AdvertsFit(adverts, devices)
  BY DEF SensorsInit, DevicesFit, AdvertsFit
<1>3. cache = [s \in Slots |-> NoSnapshot]
  BY DEF SensorsInit, Slots
<1>4. CacheFits(cache)
  BY <1>3 DEF CacheFits, SlotFits
<1>5. LastWasAdvertised /\ ReadingsAreReal
  BY DEF SensorsInit, NothingYet, LastWasAdvertised, ReadingsAreReal
<1> QED
  BY <1>1, <1>2, <1>3, <1>4, <1>5 DEF SensorsInv

LEMMA InitInnerStep ==
  ASSUME SensorsInv, init_inner
  PROVE  SensorsInv'
<1> USE DEF init_inner
<1>1. Machine /\ DevicesFit(Enumerate)
  BY Enumerated DEF SensorsInv
<1>2. Machine' /\ LossesKnown'
  BY DEF SensorsInv, Machine, LossesKnown, Existing
<1>3. DevicesFit(devices)'
  BY <1>1 DEF DevicesFit, DeviceFits, Zone
<1>4. AdvertsFit(adverts, devices)'
  <2>1. \A d : (AllMetrics(d))' = AllMetrics(d)
    BY DEF AllMetrics
  <2>2. \A d, m : Behind(d, m)' = Behind(d, m)
    BY <2>1 DEF Behind
  <2>3. \A a \in adverts' : \E d \in First(Enumerate) : \E m \in DOMAIN Metrics(d) :
            a = [id |-> <<d.name, m>>, from |-> Paths(d.entry, Metrics(d)[m])]
    OBVIOUS
  <2>4. \A a \in adverts' : \E d \in First(Enumerate) : \E m \in DOMAIN AllMetrics(d) : a = Advert(d, m)
    BY <1>1, <2>3, Advertised DEF Advert, Behind
  <2> QED
    BY <2>1, <2>2, <2>4 DEF AdvertsFit, Advert, First
<1>5. cache' = [s \in Slots |-> NoSnapshot]
  BY DEF SensorsInv
<1>6. CacheFits(cache)'
  BY <1>5 DEF CacheFits, SlotFits
<1>7. last'.id = << >>
  BY DEF SensorsInv, LastWasAdvertised
<1>8. LastWasAdvertised' /\ ReadingsAreReal'
  BY <1>7 DEF LastWasAdvertised, ReadingsAreReal
<1> QED
  BY <1>2, <1>3, <1>4, <1>5, <1>6, <1>8 DEF SensorsInv

LEMMA SampleInnerStep ==
  ASSUME SensorsInv, NEW a \in adverts, sample_inner(a.id)
  PROVE  SensorsInv'
<1> DEFINE dev == CHOOSE x \in First(devices) : x.name = a.id[1]
           r == Sample(dev, a.id[2])
<1>1. /\ cache' = r.cache
      /\ last' = [id |-> a.id, ok |-> r.ok, value |-> r.value, at |-> now]
      /\ UNCHANGED <<plugin, tree, readable, now, devices, adverts, broken>>
  BY Zenon DEF sample_inner
<1>2. /\ Machine /\ LossesKnown /\ DevicesFit(devices) /\ AdvertsFit(adverts, devices)
      /\ now \in Nat
  BY DEF SensorsInv, Machine
<1>3. \A d, e \in First(devices) : d.name = e.name => d = e
  <2>1. ASSUME NEW d \in First(devices), NEW e \in First(devices), d.name = e.name
        PROVE  d = e
    <3>1. d.entry.idx <= e.entry.idx /\ e.entry.idx <= d.entry.idx
      BY <2>1 DEF First
    <3>2. d.entry \in tree /\ e.entry \in tree /\ d \in devices /\ e \in devices
      BY <1>2 DEF First, DevicesFit, DeviceFits
    <3>3. d.entry.idx \in Nat /\ e.entry.idx \in Nat
      BY <1>2, <3>2, TreesAssumption DEF Machine
    <3>4. d.entry = e.entry
      <4>1. d.entry.idx = e.entry.idx
        BY <3>1, <3>3
      <4> QED
        BY <1>2, <3>2, <4>1, TreesAssumption DEF Machine
    <3> QED
      BY <1>2, <3>2, <3>4 DEF DevicesFit
  <2> QED
    BY <2>1
<1>3a. PICK d \in First(devices) : \E m \in DOMAIN AllMetrics(d) : a = Advert(d, m)
  BY <1>2 DEF AdvertsFit
<1>4. PICK m \in DOMAIN AllMetrics(d) : a = Advert(d, m)
  BY <1>3a
<1>5. a.id = <<d.name, m>> /\ a.id[1] = d.name /\ a.id[2] = m /\ a.from = Behind(d, m)
  BY <1>4 DEF Advert
<1>6. dev = d /\ d \in devices
  BY <1>3, <1>5 DEF First
<1>7. Answers(d, m, r)
  BY <1>4, <1>5, <1>6, SampleAnswers
<1> HIDE DEF dev, r
<1>8. Goes
  BY <1>1, <1>2 DEF Goes
<1>9. CacheFits(cache)'
  BY <1>1, <1>2, <1>7, <1>8, StillFits DEF Answers
<1>10. Machine' /\ DevicesFit(devices)' /\ LossesKnown'
  BY <1>1, <1>2 DEF Machine, DevicesFit, DeviceFits, Zone, LossesKnown, Existing
<1>11. AdvertsFit(adverts, devices)'
  BY <1>1, <1>2, <1>8, SameSensors DEF AdvertsFit, Advert, First
<1>12. LastWasAdvertised'
  BY <1>1 DEF LastWasAdvertised
<1>13. \A b \in adverts : b.id = a.id => b.from = Behind(d, m)
  <2> SUFFICES ASSUME NEW b \in adverts, b.id = a.id PROVE b.from = Behind(d, m)
    OBVIOUS
  <2>0. PICK e \in First(devices) : \E n \in DOMAIN AllMetrics(e) : b = Advert(e, n)
    BY <1>2 DEF AdvertsFit
  <2>1. PICK n \in DOMAIN AllMetrics(e) : b = Advert(e, n)
    BY <2>0
  <2>2. b.id = <<e.name, n>> /\ b.id[1] = e.name /\ b.id[2] = n /\ b.from = Behind(e, n)
    BY <2>1 DEF Advert
  <2>3. e = d /\ n = m
    BY <1>3, <1>5, <2>2
  <2> QED
    BY <2>2, <2>3
<1>14. ReadingsAreReal'
  <2> DEFINE own == UNION {b.from : b \in {x \in adverts : x.id = a.id}}
  <2>1. own = Behind(d, m)
    BY <1>5, <1>13
  <2>2. r.ok => /\ \A b \in adverts : b.id = a.id =>
                      r.value.from \subseteq b.from \/ OfNamesake(a.id, r.value.from)
                /\ IsStatic(a.id) \/ now - r.value.at <= SnapshotTtl
                /\ r.value.from = {} => Tolerated(a.id) \/ IsStatic(a.id)
    BY <1>5, <1>7, <1>13 DEF Answers, Answered, FilesOf
  <2>3. ~ r.ok => (own \cup Shared(a.id)) \cap (broken \cup (own \ Existing)) # {}
    BY <1>5, <1>7, <2>1 DEF Answers, Answered, Excused
  <2>4. last'.id = a.id /\ last'.ok = r.ok /\ last'.value = r.value /\ last'.at = now
    BY <1>1
  <2>5. /\ Shared(a.id)' = Shared(a.id) /\ Existing' = Existing
        /\ \A id : Tolerated(id)' = Tolerated(id) /\ IsStatic(id)' = IsStatic(id)
        /\ \A id : Shared(id)' = Shared(id)
        /\ \A id, ps : OfNamesake(id, ps)' = OfNamesake(id, ps)
    BY <1>8, SameSensors
  <2>6. own = UNION {b.from : b \in {x \in adverts' : x.id = last'.id}}
    BY <1>1, <2>4
  <2> HIDE DEF own
  <2>7. OfNamesake(last.id, last.value.from)' <=> OfNamesake(a.id, r.value.from)
    <3>1. OfNamesake(last.id, last.value.from)' <=>
             \E e \in devices : /\ Zone(e) /\ a.id = <<e.name, "temp_c">>
                               /\ r.value.from \subseteq Paths(e.entry, {"temp"})
      BY <1>1, <2>4 DEF OfNamesake, Zone
    <3> QED
      BY <3>1 DEF OfNamesake
  <2>8. last'.ok => /\ \A b \in adverts' : b.id = last'.id =>
                          \/ last'.value.from \subseteq b.from
                          \/ OfNamesake(last.id, last.value.from)'
                    /\ IsStatic(last.id)' \/ last'.at - last'.value.at <= SnapshotTtl
                    /\ last'.value.from = {} => Tolerated(last.id)' \/ IsStatic(last.id)'
    <3>1. IsStatic(last.id)' = IsStatic(a.id) /\ Tolerated(last.id)' = Tolerated(a.id)
      BY <1>1, <2>4 DEF IsStatic, Tolerated
    <3> QED
      BY <1>1, <2>2, <2>4, <2>7, <3>1
  <2>9. Shared(last.id)' = Shared(a.id)
    BY <1>1, <2>4 DEF Shared
  <2> QED
    BY <1>1, <2>3, <2>4, <2>5, <2>6, <2>8, <2>9 DEF ReadingsAreReal
<1>15. (devices = {} => cache = [s \in Slots |-> NoSnapshot])'
  BY <1>1, <1>6
<1> QED
  BY <1>9, <1>10, <1>11, <1>12, <1>14, <1>15 DEF SensorsInv

(* A sensor answers with what its own files said not longer ago than a       *)
(* snapshot lives, and fails only for a file it needs: for every plugin,     *)
(* directory, loss of devices and files, and length of time.                 *)
THEOREM ReadingsAlwaysReal == SensorsSpec => []ReadingsAreReal
<1>1. SensorsInit => SensorsInv
  BY SensorsStart
<1>2. SensorsInv /\ [SensorsNext]_sensorVars => SensorsInv'
  <2> SUFFICES ASSUME SensorsInv, [SensorsNext]_sensorVars PROVE SensorsInv'
    OBVIOUS
  <2>1. Machine /\ LossesKnown
    BY DEF SensorsInv
  <2>2. CASE init_inner
    BY <2>2, InitInnerStep
  <2>3. CASE \E a \in adverts : sample_inner(a.id)
    BY <2>3, SampleInnerStep
  <2>4. ASSUME NEW ps, Fails(ps) PROVE SensorsInv'
    <3>1. Goes /\ UNCHANGED <<adverts, cache, last>> /\ LossesKnown'
      BY <2>1, <2>4 DEF Fails, Goes, Machine, LossesKnown, Existing
    <3> QED
      BY <3>1, StillInv
  <2>5. CASE Recovers
    <3>1. Goes /\ UNCHANGED <<adverts, cache, last>> /\ LossesKnown'
      BY <2>1, <2>5 DEF Recovers, Goes, Machine, LossesKnown, Existing
    <3> QED
      BY <3>1, StillInv
  <2>6. CASE SensorTick
    <3>1. Goes /\ UNCHANGED <<adverts, cache, last>> /\ LossesKnown'
      BY <2>1, <2>6 DEF SensorTick, Goes, Machine, LossesKnown, Existing
    <3> QED
      BY <3>1, StillInv
  <2>7. CASE UNCHANGED sensorVars
    <3>1. Goes /\ UNCHANGED <<adverts, cache, last>> /\ LossesKnown'
      BY <2>1, <2>7 DEF sensorVars, Goes, Machine, LossesKnown, Existing
    <3> QED
      BY <3>1, StillInv
  <2> QED
    BY <2>2, <2>3, <2>4, <2>5, <2>6, <2>7 DEF SensorsNext
<1>3. SensorsInv => ReadingsAreReal
  BY DEF SensorsInv
<1> QED
  BY <1>1, <1>2, <1>3, PTL DEF SensorsSpec
=============================================================================
