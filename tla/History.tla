------------------------------- MODULE History ------------------------------
(***************************************************************************)
(* The history writer of linsightd (history.rs) and the switches that      *)
(* attach it to the scheduler and to the alert engine (scheduler.rs).      *)
(* Producers offer records to a bounded channel; a writer thread batches   *)
(* them into SQLite and prunes old rows.  Each time history is switched on *)
(* a new writer thread with a channel of its own is started; it ends when  *)
(* the last handle to its channel is gone and the channel is drained.      *)
(***************************************************************************)
EXTENDS Integers, Sequences, SequencesExt, FiniteSets

CONSTANTS
    Keys,           \* sensors whose samples are recorded
    QueueCapacity,  \* QUEUE_CAPACITY
    MaxBatch,       \* MAX_BATCH
    Retention,      \* the retention window
    DefaultPoints,  \* points of a query that names no number (500)
    MaxPoints,      \* the most a query may return (10_000)
    MaxWriters, MaxRecords, MaxWall, MaxFailures    \* bounds

ASSUME HistoryAssumption ==
    /\ {QueueCapacity, MaxBatch} \subseteq Nat \ {0}
    /\ {MaxWriters, MaxPoints} \subseteq Nat \ {0}
    /\ DefaultPoints \in 1 .. MaxPoints
    /\ {Retention, MaxRecords, MaxWall, MaxFailures} \subseteq Nat

VARIABLES
    history,        \* Scheduler::history: a writer, or 0
    engine,         \* the scheduler has an alert engine
    event_writer,   \* AlertEngine::event_writer
    runtime_writer, \* the clone run() keeps when history was on at the start
    spawned,        \* writers started so far
    channel,        \* the channel of each writer
    pending,        \* pending_samples of each writer (pending_events is never kept)
    writers,        \* writer threads that run
    rows,           \* the tables of history.db
    wall,           \* the wall clock
    sent, failures  \* records made and faults suffered so far

historyVars == <<history, engine, event_writer, runtime_writer, spawned,
                 channel, pending, writers, rows, wall, sent, failures>>
----------------------------------------------------------------------------
Writers == 1 .. MaxWriters
EventKey == "event"

\* id tells records apart in the properties; the primary key is key and ts.
Record == [id : 1 .. MaxRecords, key : Keys \cup {EventKey}, ts : 0 .. MaxWall]

IsEvent(r) == r.key = EventKey
IsSample(r) == r.key # EventKey

Referenced(w) == w \in {history, event_writer, runtime_writer}

\* record and record_alert_event: try_send on the handle's channel.  A record
\* that finds it full is dropped (and counted, for the log).
send(w, r) ==
    channel' = IF Len(channel[w]) < QueueCapacity
               THEN [channel EXCEPT ![w] = Append(@, r)] ELSE channel

\* tick_commit records a sample it has just produced.
RecordSample(k) ==
    /\ history # 0
    /\ sent < MaxRecords
    /\ sent' = sent + 1
    /\ send(history, [id |-> sent', key |-> k, ts |-> wall])
    /\ UNCHANGED <<history, engine, event_writer, runtime_writer, spawned,
                   pending, writers, rows, wall, failures>>

\* push_event records a rule that fires or clears.
RecordEvent ==
    /\ engine
    /\ event_writer # 0
    /\ sent < MaxRecords
    /\ sent' = sent + 1
    /\ send(event_writer, [id |-> sent', key |-> EventKey, ts |-> wall])
    /\ UNCHANGED <<history, engine, event_writer, runtime_writer, spawned,
                   pending, writers, rows, wall, failures>>
----------------------------------------------------------------------------
(* The writer thread *)

\* One row per key and time.
SameRow(q, r) == q.key = r.key /\ q.ts = r.ts

\* Mutant: a key already there is kept, the new reading thrown away.
Inserted_OrIgnore(table, batch) ==
    table \cup {batch[i] : i \in {j \in DOMAIN batch :
                    /\ \A q \in table : q.key # batch[j].key
                    /\ \A h \in 1 .. (j - 1) : batch[h].key # batch[j].key}}

\* INSERT OR REPLACE of a batch, in order, in one transaction: of the records
\* for one row the last one stays.
Inserted(table, batch) ==
    {q \in table : \A i \in DOMAIN batch : ~SameRow(q, batch[i])}
    \cup {batch[i] : i \in {j \in DOMAIN batch :
                    \A h \in DOMAIN batch : h > j => ~SameRow(batch[h], batch[j])}}

cutoff == IF wall > Retention THEN wall - Retention ELSE 0

prune_older_than(table) == {r \in table : r.ts >= cutoff}

\* One turn of the loop with `got` just received: samples are flushed when the
\* batch is full or the interval has passed (due), events at once; a flush that
\* fails gives its batch up.  Then the prune gate, which opens once an hour, is
\* tried.
Turn(w, got, due, fails, prune) ==
    LET samples == IF got # <<>> /\ IsSample(got[1]) THEN Append(pending[w], got[1])
                   ELSE pending[w]
        happenings == IF got # <<>> /\ IsEvent(got[1]) THEN got ELSE <<>>
        flush == samples # <<>> /\ (due \/ Len(samples) >= MaxBatch)
        one == IF flush /\ "samples" \notin fails
               THEN Inserted(rows, samples) ELSE rows
        two == IF "events" \notin fails THEN Inserted(one, happenings) ELSE one
    IN  /\ "samples" \in fails => flush
        /\ "events" \in fails => happenings # <<>>
        /\ fails # {} => failures < MaxFailures
        /\ failures' = IF fails = {} THEN failures ELSE failures + 1
        /\ pending' = [pending EXCEPT ![w] = IF flush THEN <<>> ELSE samples]
        /\ rows' = IF prune THEN prune_older_than(two) ELSE two

WriterReceives(w) ==
    /\ w \in writers
    /\ channel[w] # <<>>
    /\ channel' = [channel EXCEPT ![w] = Tail(@)]
    /\ \E due, prune \in BOOLEAN, fails \in SUBSET {"samples", "events"} :
          Turn(w, <<Head(channel[w])>>, due, fails, prune)
    /\ UNCHANGED <<history, engine, event_writer, runtime_writer, spawned,
                   writers, wall, sent>>

\* recv_timeout: nothing came for FLUSH_INTERVAL.
WriterTimesOut(w) ==
    /\ w \in writers
    /\ channel[w] = <<>>
    /\ Referenced(w)
    /\ \E prune \in BOOLEAN, fails \in SUBSET {"samples"} :
          Turn(w, <<>>, TRUE, fails, prune)
    /\ UNCHANGED <<history, engine, event_writer, runtime_writer, spawned,
                   channel, writers, wall, sent>>

\* Every handle is gone and the channel is drained: flush the rest and end.
WriterEnds(w) ==
    /\ w \in writers
    /\ channel[w] = <<>>
    /\ ~Referenced(w)
    /\ \E fails \in SUBSET {"samples"} : Turn(w, <<>>, TRUE, fails, FALSE)
    /\ writers' = writers \ {w}
    /\ UNCHANGED <<history, engine, event_writer, runtime_writer, spawned,
                   channel, wall, sent>>
----------------------------------------------------------------------------
(* The switches, under the scheduler mutex *)

\* Mutant: the alert engine is left with the writer it had.
toggle_history_on_Unwired ==
    /\ history = 0
    /\ spawned < MaxWriters
    /\ spawned' = spawned + 1
    /\ history' = spawned'
    /\ writers' = writers \cup {spawned'}
    /\ UNCHANGED <<engine, event_writer, runtime_writer, channel, pending,
                   rows, wall, sent, failures>>

\* toggle_history(true): spawn may fail, which changes nothing.
toggle_history_on ==
    /\ history = 0
    /\ spawned < MaxWriters
    /\ spawned' = spawned + 1
    /\ history' = spawned'
    /\ event_writer' = IF engine THEN spawned' ELSE event_writer
    /\ writers' = writers \cup {spawned'}
    /\ UNCHANGED <<engine, runtime_writer, channel, pending, rows, 
                   wall, sent, failures>>

toggle_history_off ==
    /\ history # 0
    /\ history' = 0
    /\ event_writer' = 0
    /\ UNCHANGED <<engine, runtime_writer, spawned, channel, pending, writers,
                   rows, wall, sent, failures>>

\* toggle_alerts: the engine's handle to the writer goes with the engine.
toggle_alerts_on ==
    /\ ~engine
    /\ engine' = TRUE
    /\ event_writer' = history
    /\ UNCHANGED <<history, runtime_writer, spawned, channel, pending, writers,
                   rows, wall, sent, failures>>

toggle_alerts_off ==
    /\ engine
    /\ engine' = FALSE
    /\ event_writer' = 0
    /\ UNCHANGED <<history, runtime_writer, spawned, channel, pending, writers,
                   rows, wall, sent, failures>>

\* The daemon stops: run() returns without waiting for the writers, and what
\* they have not flushed is gone.  A new daemon starts on the same database.
Restart ==
    /\ failures < MaxFailures
    /\ failures' = failures + 1
    /\ spawned < MaxWriters
    /\ spawned' = spawned + 1
    /\ history' = spawned'
    /\ runtime_writer' = spawned'
    /\ writers' = {spawned'}
    /\ \E on \in BOOLEAN : engine' = on /\ event_writer' = IF on THEN spawned' ELSE 0
    /\ channel' = [w \in Writers |-> <<>>]
    /\ pending' = [w \in Writers |-> <<>>]
    /\ UNCHANGED <<rows, wall, sent>>

\* The wall clock moves on, or is set back.
WallClock ==
    /\ \/ wall < MaxWall /\ wall' = wall + 1
       \/ wall > 0 /\ sent < MaxRecords /\ wall' = wall - 1
    /\ UNCHANGED <<history, engine, event_writer, runtime_writer, spawned,
                   channel, pending, writers, rows, sent, failures>>
----------------------------------------------------------------------------
(* Reading *)

\* query: the window's rows in order of time, cut into `limit` buckets of
\* consecutive rows, and the first row of each bucket.
Window(k, since, until) ==
    {r \in rows : r.key = k /\ r.ts >= since /\ r.ts <= until}

\* Mutant: row numbers from one.
Bucket_FromOne(r, W, limit) ==
    ((Cardinality({q \in W : q.ts < r.ts}) + 1) * limit) \div Cardinality(W)

Bucket(r, W, limit) ==
    (Cardinality({q \in W : q.ts < r.ts}) * limit) \div Cardinality(W)

\* max_points is an Option: <<>> or <<n>>.
Clamped(n) == IF n < 1 THEN 1 ELSE IF n > MaxPoints THEN MaxPoints ELSE n
Limit(max_points) == IF max_points = <<>> THEN DefaultPoints ELSE Clamped(max_points[1])

query(k, since, until, max_points) ==
    LET W == Window(k, since, until)
        limit == Limit(max_points)
    IN  {r \in W : \A q \in W : q.ts < r.ts =>
                       Bucket(q, W, limit) # Bucket(r, W, limit)}
----------------------------------------------------------------------------
\* History may be on or off at the start, and so may alerts.
HistoryInit ==
    /\ history \in {0, 1}
    /\ engine \in BOOLEAN
    /\ event_writer = IF engine THEN history ELSE 0
    /\ runtime_writer = history
    /\ spawned = history
    /\ writers = IF history = 1 THEN {1} ELSE {}
    /\ channel = [w \in Writers |-> <<>>]
    /\ pending = [w \in Writers |-> <<>>]
    /\ rows = {}
    /\ wall = 0
    /\ sent = 0
    /\ failures = 0

HistoryNext ==
    \/ \E k \in Keys : RecordSample(k)
    \/ RecordEvent
    \/ \E w \in Writers : WriterReceives(w) \/ WriterTimesOut(w) \/ WriterEnds(w)
    \/ toggle_history_on \/ toggle_history_off
    \/ toggle_alerts_on \/ toggle_alerts_off
    \/ Restart
    \/ WallClock

HistorySpec == HistoryInit /\ [][HistoryNext]_historyVars
----------------------------------------------------------------------------
(* Properties *)

\* Fire and clear events go to the same writer as the samples, or nowhere
\* when history is off, whatever order the two switches were used in
\* (scheduler.rs:342, "Keeps the alert engine's event writer in sync").
EventWriterInSync == engine => event_writer = history

InFlight == UNION {ToSet(channel[w]) \cup ToSet(pending[w]) : w \in writers}

\* A record that was accepted stays, with a writer that runs or in the database, until
\* another one for the same key and time replaces it or it is too old to keep;
\* only a failed flush and the end of the process lose records.  The other
\* one need not be newer: two writers overlap when history is switched off
\* and on again.
NothingLostInSilence ==
    [][failures' = failures =>
         \A r \in InFlight \cup rows : r \in (InFlight \cup rows)' \/
             \/ r.ts < cutoff
             \/ \E q \in rows' : q.key = r.key /\ q.ts = r.ts]_historyVars

\* A query never returns more than MaxPoints rows, however many were asked for;
\* up to that, as many as were asked for or all there are, the first one among them;
\* and it leaves no gap wider than the window's share per point (history.rs:364).
FairQuery(k, since, until, max_points) ==
    LET W == Window(k, since, until)
        Q == query(k, since, until, max_points)
        limit == Limit(max_points)
        Gap(q) == {r \in W \ Q : r.ts > q.ts
                      /\ \A p \in Q : p.ts > q.ts => p.ts > r.ts}
    IN  /\ Cardinality(Q) = IF Cardinality(W) < limit THEN Cardinality(W) ELSE limit
        /\ Cardinality(Q) <= MaxPoints
        /\ W # {} => \E q \in Q : \A r \in W : q.ts <= r.ts
        /\ \A q \in Q : Cardinality(Gap(q)) * limit < Cardinality(W) + limit

QueryIsFair ==
    \A k \in Keys, since \in 0 .. MaxWall, n \in 0 .. (MaxPoints + 1) :
        /\ FairQuery(k, since, MaxWall, <<n>>)
        /\ FairQuery(k, since, MaxWall, <<>>)
=============================================================================
