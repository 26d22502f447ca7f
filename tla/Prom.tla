-------------------------------- MODULE Prom --------------------------------
(***************************************************************************)
(* The Prometheus exporter of linsightd (prom.rs): an accept loop with a   *)
(* cap on connections and a thread per connection that answers one         *)
(* request.  A scrape takes the scheduler mutex to copy the list of        *)
(* sensors and again to copy the host handle, samples every sensor without *)
(* it, copies the hardware registry under its read lock and renders.       *)
(* The rest of the daemon is a user of the scheduler mutex.                *)
(***************************************************************************)
EXTENDS Integers, Sequences, FiniteSets

CONSTANTS
    Scrapers,       \* connections that may be made
    Targets,        \* registered sensors, in the order of scrape_targets
    Bound,          \* the sensors with a device in the registry
    MaxProm         \* MAX_PROM_CONNECTIONS

ASSUME PromAssumption ==
    /\ IsFiniteSet(Scrapers) /\ {"free", "daemon"} \cap Scrapers = {}
    /\ Targets \in Seq(STRING)
    /\ Bound \subseteq STRING
    /\ MaxProm \in Nat \ {0}

VARIABLES
    hung,       \* sensors whose plugin does not return from sample()
    scrape,     \* the thread of each connection
    mutex,      \* who holds the scheduler mutex, or "free"
    nickname    \* what the registry calls the devices: "old" or "new"

promVars == <<hung, scrape, mutex, nickname>>
----------------------------------------------------------------------------
Daemon == "daemon"

\* What the peer's bytes come to: a scrape, or a request that is answered at
\* once (400, 404, 405, 408), or a connection that ends (eof, io).
RequestKinds == {"metrics", "400", "404", "405", "408", "eof", "io"}

Idle == [at |-> "none"]
Ended(status) == [at |-> "ended", status |-> status, body |-> "none"]
Thread(at, rows, label) == [at |-> at, rows |-> rows, label |-> label]
Live == {c \in Scrapers : scrape[c].at \notin {"none", "ended"}}

\* SlotGuard: a thread counts as active from its start to its end, however it
\* ends.
active == Cardinality(Live)

AcceptScrape(c) ==
    /\ scrape[c] = Idle
    /\ scrape' = [scrape EXCEPT ![c] = IF active >= MaxProm THEN Ended("503")
                                       ELSE Thread("reading", <<>>, "none")]
    /\ UNCHANGED <<hung, mutex, nickname>>

\* read_limited_line and the request line: every read has a timeout and the
\* request a size limit, so one of these is reached.
ReadRequest(c, kind) ==
    /\ scrape[c].at = "reading"
    /\ scrape' = [scrape EXCEPT ![c] = IF kind = "metrics"
                                       THEN Thread("targets", <<>>, "none")
                                       ELSE Ended(kind)]
    /\ UNCHANGED <<hung, mutex, nickname>>

\* render_for_scrape copies the targets under the scheduler mutex, and
\* collect_scrape_rows the host under it once more.
TakeTargets(c) ==
    /\ scrape[c].at = "targets"
    /\ mutex = "free"
    /\ mutex' = c
    /\ scrape' = [scrape EXCEPT ![c].at = "listing"]
    /\ UNCHANGED <<hung, nickname>>

ReleaseTargets(c) ==
    /\ scrape[c].at = "listing"
    /\ mutex' = "free"
    /\ scrape' = [scrape EXCEPT ![c].at = "host"]
    /\ UNCHANGED <<hung, nickname>>

TakeHost(c) ==
    /\ scrape[c].at = "host"
    /\ mutex = "free"
    /\ mutex' = c
    /\ scrape' = [scrape EXCEPT ![c].at = "copying"]
    /\ UNCHANGED <<hung, nickname>>

\* Mutant: the guard lives until the rows are collected.
ReleaseHost_Late(c) ==
    /\ scrape[c].at = "copying"
    /\ UNCHANGED mutex
    /\ scrape' = [scrape EXCEPT ![c].at = "sampling"]
    /\ UNCHANGED <<hung, nickname>>

ReleaseHost(c) ==
    /\ scrape[c].at = "copying"
    /\ mutex' = "free"
    /\ scrape' = [scrape EXCEPT ![c].at = "sampling"]
    /\ UNCHANGED <<hung, nickname>>

\* sample_to for the next target; a sensor that fails has no sample.
SampleTarget(c, ok) ==
    /\ scrape[c].at = "sampling"
    /\ Len(scrape[c].rows) < Len(Targets)
    /\ Targets[Len(scrape[c].rows) + 1] \notin hung
    /\ scrape' = [scrape EXCEPT ![c].rows = Append(@, ok)]
    /\ UNCHANGED <<hung, mutex, nickname>>

\* Device keys, the devices and their nicknames are read under one lock.
ReadRegistry(c) ==
    /\ scrape[c].at = "sampling"
    /\ Len(scrape[c].rows) = Len(Targets)
    /\ scrape' = [scrape EXCEPT ![c].at = "writing", ![c].label = nickname]
    /\ mutex' = IF mutex = c THEN "free" ELSE mutex
    /\ UNCHANGED <<hung, nickname>>

\* render: a line per sample, labelled with its device when it has one, and
\* one info line per device.
render(c) ==
    [lines |-> {i \in DOMAIN Targets : scrape[c].rows[i]},
     keyed |-> {i \in DOMAIN Targets : scrape[c].rows[i] /\ Targets[i] \in Bound},
     info |-> scrape[c].label]

\* The body is written, or the write fails or times out.
WriteResponse(c) ==
    /\ scrape[c].at = "writing"
    /\ \/ scrape' = [scrape EXCEPT ![c] = [Ended("200") EXCEPT !.body = render(c)]]
       \/ scrape' = [scrape EXCEPT ![c] = Ended("io")]
    /\ UNCHANGED <<hung, mutex, nickname>>

\* The rest of the daemon: a tick or a request holds the mutex for a while;
\* a SetNickname writes the registry.
DaemonLocks ==
    /\ mutex = "free"
    /\ mutex' = Daemon
    /\ UNCHANGED <<hung, scrape, nickname>>

DaemonUnlocks ==
    /\ mutex = Daemon
    /\ mutex' = "free"
    /\ UNCHANGED <<hung, scrape, nickname>>

SetNickname ==
    /\ nickname = "old"
    /\ nickname' = "new"
    /\ UNCHANGED <<hung, scrape, mutex>>
----------------------------------------------------------------------------
PromInit ==
    /\ hung \in SUBSET {Targets[i] : i \in DOMAIN Targets}
    /\ scrape = [c \in Scrapers |-> Idle]
    /\ mutex = "free"
    /\ nickname = "old"

ThreadStep(c) ==
    \/ \E kind \in RequestKinds : ReadRequest(c, kind)
    \/ TakeTargets(c) \/ ReleaseTargets(c)
    \/ TakeHost(c) \/ ReleaseHost(c)
    \/ \E ok \in BOOLEAN : SampleTarget(c, ok)
    \/ ReadRegistry(c) \/ WriteResponse(c)

PromNext ==
    \/ \E c \in Scrapers : AcceptScrape(c) \/ ThreadStep(c)
    \/ DaemonLocks \/ DaemonUnlocks
    \/ SetNickname

\* Threads run, except in a plugin that hangs; the rest of the daemon is
\* granted the mutex if it is free again and again.
PromFairness ==
    /\ \A c \in Scrapers : WF_promVars(ThreadStep(c))
    /\ SF_promVars(DaemonLocks)
    /\ WF_promVars(DaemonUnlocks)

PromSpec == PromInit /\ [][PromNext]_promVars /\ PromFairness
----------------------------------------------------------------------------
(* Properties *)

\* The daemon gets the scheduler mutex while scrapes are under way, even if a
\* plugin hangs in one of them (prom.rs:314, "A
\* slow/hung plugin only holds the (cloneable) host, not the scheduler mutex").
ScrapesYieldTheMutex == Live # {} ~> mutex = Daemon
=============================================================================
