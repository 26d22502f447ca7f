-------------------------------- MODULE Sessions --------------------------------
(***************************************************************************)
(* The daemon's client sessions (apps/linsightd/src/transport/unix.rs):     *)
(* every connection has a read-loop thread, a pump thread that drains a     *)
(* bounded outbound queue into the socket, and a ledger of subscription     *)
(* tokens; one sampler thread plans a tick, samples with no lock held,      *)
(* commits, and fans the samples out to the ledgers' owners.  Each action   *)
(* is one critical section of one of those threads.  The scheduler is taken *)
(* from SchedulerContract, the outcome of sampling is arbitrary.            *)
(***************************************************************************)
EXTENDS Integers, FiniteSets

CONSTANTS Sensors, Static, Periods,
          Clients,       \* connections, each with a fresh client_id and used once
          MaxSessions,   \* MAX_CLIENT_SESSIONS
          QueueCap       \* OUTBOUND_QUEUE_CAP

ASSUME SessionsAssumption ==
    /\ Static \subseteq Sensors
    /\ Periods \subseteq Nat \ {0}
    /\ IsFiniteSet(Clients)
    /\ MaxSessions \in Nat \ {0}
    /\ QueueCap \in Nat \ {0}

VARIABLES table, planned,   \* the scheduler (SchedulerContract)
          phase,            \* where each connection's serve() thread is
          ledger,           \* ClientSubscriptions: the tokens each connection holds
          removed,          \* tokens taken out of the ledger, not yet given back
          sinks,            \* the ClientMap: connections that fan-out can see
          pump,             \* the pump thread: "none", "running" or "exited"
          queue,            \* how many messages the outbound queue holds
          sampler,          \* the sampler's local state between critical sections
          sessions,         \* the live-session counter
          reading           \* history: what became of the first sample since subscribing

sched == <<table, planned>>
vars == <<table, planned, phase, ledger, removed, sinks, pump, queue, sampler, sessions, reading>>

Sched == INSTANCE SchedulerContract

Tokens == Sensors \X Periods
SensorsOf(T) == {t[1] : t \in T}

Phases == {"new", "counted", "refused", "hello", "open", "leaving", "unmapped", "drained", "gone"}

(* The acceptor has counted the connection and not yet decided on it. *)
AtTheDoor == {"counted", "refused"}
NotYetOpen == {"new", "counted", "refused", "hello"}
SamplerSteps == {"asleep", "sampling", "committed", "fanout"}

(* step: where the loop is; samples: what the tick produced; todo: sinks not *)
(* yet served; sends: (sink, sample) pairs of the sink being served that are *)
(* still to be sent; dead: sinks found disconnected.                         *)
Idle == [step |-> "asleep", samples |-> {}, todo |-> {}, sends |-> {}, dead |-> {}]

-----------------------------------------------------------------------------
Init ==
    /\ Sched!Init
    /\ phase = [c \in Clients |-> "new"]
    /\ ledger = [c \in Clients |-> {}]
    /\ removed = [c \in Clients |-> {}]
    /\ sinks = {}
    /\ pump = [c \in Clients |-> "none"]
    /\ queue = [c \in Clients |-> 0]
    /\ sampler = Idle
    /\ sessions = 0
    /\ reading = [c \in Clients |-> [s \in Sensors |-> "none"]]

(* accept_loop turns a connection of another user away.  Any other is        *)
(* counted, and what the counter said before decides its lot.                *)
Accept(c) ==
    /\ phase[c] = "new"
    /\ \A b \in Clients : phase[b] \notin AtTheDoor
    /\ \/ /\ phase' = [phase EXCEPT ![c] = IF sessions < MaxSessions THEN "counted" ELSE "refused"]
          /\ sessions' = sessions + 1
       \/ /\ phase' = [phase EXCEPT ![c] = "gone"]
          /\ UNCHANGED sessions
    /\ UNCHANGED <<sched, ledger, removed, sinks, pump, queue, sampler, reading>>

(* The thread of serve() is spawned, and takes the slot over ... *)
SpawnSession(c) ==
    /\ phase[c] = "counted"
    /\ phase' = [phase EXCEPT ![c] = "hello"]
    /\ UNCHANGED <<sched, ledger, removed, sinks, pump, queue, sampler, sessions, reading>>

(* ... or it cannot be, or the cap was reached: the count is taken back. *)
TurnAway(c) ==
    /\ phase[c] \in AtTheDoor
    /\ phase' = [phase EXCEPT ![c] = "gone"]
    /\ sessions' = sessions - 1
    /\ UNCHANGED <<sched, ledger, removed, sinks, pump, queue, sampler, reading>>

AcceptLoop(c) == Accept(c) \/ SpawnSession(c) \/ TurnAway(c)

(* Mutant of HandshakeFails: the slot is not given back. *)
HandshakeFailureKeepsSlot(c) ==
    /\ phase[c] = "hello"
    /\ phase' = [phase EXCEPT ![c] = "gone"]
    /\ UNCHANGED <<sched, ledger, removed, sinks, pump, queue, sampler, sessions, reading>>

(* A bad Hello, a wrong token or a silent peer ends serve() before anything *)
(* is registered; the SessionGuard gives the slot back.                     *)
HandshakeFails(c) ==
    /\ phase[c] = "hello"
    /\ phase' = [phase EXCEPT ![c] = "gone"]
    /\ sessions' = sessions - 1
    /\ UNCHANGED <<sched, ledger, removed, sinks, pump, queue, sampler, reading>>

Register(c) ==
    /\ phase[c] = "hello"
    /\ phase' = [phase EXCEPT ![c] = "open"]
    /\ sinks' = sinks \cup {c}
    /\ pump' = [pump EXCEPT ![c] = "running"]
    /\ UNCHANGED <<sched, ledger, removed, queue, sampler, sessions, reading>>

(* Mutant of Duplicates: a repeated Subscribe takes another refcount. *)
NoDuplicates(c, T) == {}

(* The tokens of T this connection has already: their new refcount is dropped. *)
Duplicates(c, T) == T \cap ledger[c]

(* ClientMsg::Subscribe, under the scheduler and the ledger mutex: T is one *)
(* token per known sensor of the message.  A token already in the ledger is *)
(* taken and given back, which still makes a static sensor due again.       *)
Subscribe(c, T) ==
    LET fresh == T \ ledger[c]
        again == Duplicates(c, T)
    IN  /\ phase[c] = "open"
        /\ removed[c] = {}
        /\ \E d \in Sched!Later :
              table' = Sched!release(Sched!acquire(table, T), again, d)
        /\ ledger' = [ledger EXCEPT ![c] = @ \cup T]
        /\ reading' = [reading EXCEPT ![c] =
                         [s \in Sensors |-> IF s \in SensorsOf(fresh) THEN "none" ELSE @[s]]]
        /\ UNCHANGED <<planned, phase, removed, sinks, pump, queue, sampler, sessions>>

(* ClientMsg::Unsubscribe takes the tokens out under the ledger mutex ... *)
Unsubscribe(c, S) ==
    LET out == {t \in ledger[c] : t[1] \in S}
    IN  /\ phase[c] = "open"
        /\ removed[c] = {}
        /\ out # {}
        /\ ledger' = [ledger EXCEPT ![c] = @ \ out]
        /\ removed' = [removed EXCEPT ![c] = out]
        /\ UNCHANGED <<sched, phase, sinks, pump, queue, sampler, sessions, reading>>

(* ... and gives them back under the scheduler mutex, in a second section. *)
ReleaseRemoved(c) ==
    /\ phase[c] = "open"
    /\ removed[c] # {}
    /\ \E d \in Sched!Later : table' = Sched!release(table, removed[c], d)
    /\ removed' = [removed EXCEPT ![c] = {}]
    /\ UNCHANGED <<planned, phase, ledger, sinks, pump, queue, sampler, sessions, reading>>

(* The read loop ends: Goodbye, a second Hello, a read error or idle        *)
(* timeout, a response that cannot be written.  The pump is told to stop.   *)
ReadLoopEnds(c) ==
    /\ phase[c] = "open"
    /\ removed[c] = {}
    /\ phase' = [phase EXCEPT ![c] = "leaving"]
    /\ UNCHANGED <<sched, ledger, removed, sinks, pump, queue, sampler, sessions, reading>>

(* Mutant of RemoveSink: the pump is not joined first. *)
RemoveSinkUnjoined(c) ==
    /\ phase[c] = "leaving"
    /\ sinks' = sinks \ {c}
    /\ phase' = [phase EXCEPT ![c] = "unmapped"]
    /\ UNCHANGED <<sched, ledger, removed, pump, queue, sampler, sessions, reading>>

(* serve() joins the pump, then deregisters its sink. *)
RemoveSink(c) ==
    /\ phase[c] = "leaving"
    /\ pump[c] = "exited"
    /\ sinks' = sinks \ {c}
    /\ phase' = [phase EXCEPT ![c] = "unmapped"]
    /\ UNCHANGED <<sched, ledger, removed, pump, queue, sampler, sessions, reading>>

DrainLedger(c) ==
    /\ phase[c] = "unmapped"
    /\ removed' = [removed EXCEPT ![c] = ledger[c]]
    /\ ledger' = [ledger EXCEPT ![c] = {}]
    /\ phase' = [phase EXCEPT ![c] = "drained"]
    /\ reading' = [reading EXCEPT ![c] = [s \in Sensors |-> "none"]]
    /\ UNCHANGED <<sched, sinks, pump, queue, sampler, sessions>>

(* The last section of serve(); returning drops the SessionGuard. *)
EndSession(c) ==
    /\ phase[c] = "drained"
    /\ \E d \in Sched!Later : table' = Sched!release(table, removed[c], d)
    /\ removed' = [removed EXCEPT ![c] = {}]
    /\ phase' = [phase EXCEPT ![c] = "gone"]
    /\ sessions' = sessions - 1
    /\ UNCHANGED <<planned, ledger, sinks, pump, queue, sampler, reading>>

-----------------------------------------------------------------------------
(* Mutant of HasRoom: one message too many. *)
HasRoomForOneMore(c) == queue[c] <= QueueCap

(* The outbound queue is a sync_channel of OUTBOUND_QUEUE_CAP messages. *)
HasRoom(c) == queue[c] < QueueCap

(* The pump thread. *)
PumpWrites(c) ==
    /\ pump[c] = "running"
    /\ queue[c] > 0
    /\ queue' = [queue EXCEPT ![c] = @ - 1]
    /\ UNCHANGED <<sched, phase, ledger, removed, sinks, pump, sampler, sessions, reading>>

(* Mutant of PumpExits: the stop signal is not looked at. *)
PumpIgnoresStop(c) ==
    /\ pump[c] = "running"
    /\ queue[c] > 0
    /\ pump' = [pump EXCEPT ![c] = "exited"]
    /\ queue' = [queue EXCEPT ![c] = 0]
    /\ UNCHANGED <<sched, phase, ledger, removed, sinks, sampler, sessions, reading>>

(* The pump leaves: it sees the stop signal, or a write fails or times out. *)
(* The receiver goes with it; serve()'s read loop does not notice.          *)
PumpExits(c) ==
    /\ pump[c] = "running"
    /\ phase[c] = "leaving" \/ queue[c] > 0
    /\ pump' = [pump EXCEPT ![c] = "exited"]
    /\ queue' = [queue EXCEPT ![c] = 0]
    /\ UNCHANGED <<sched, phase, ledger, removed, sinks, sampler, sessions, reading>>

-----------------------------------------------------------------------------
(* The sampler thread. *)
SamplerPlan ==
    /\ sampler.step = "asleep"
    /\ Sched!DueSet(table) # {}
    /\ planned' = Sched!DueSet(table)
    /\ table' = Sched!tick_plan(table)
    /\ sampler' = [sampler EXCEPT !.step = "sampling"]
    /\ UNCHANGED <<phase, ledger, removed, sinks, pump, queue, sessions, reading>>

(* Sensors whose sample the commit returns: an entry that has gone yields none. *)
Produced(results) == {s \in DOMAIN results \cap DOMAIN table : results[s] = "ok"}

SamplerCommit(results, d) ==
    /\ sampler.step = "sampling"
    /\ table' = Sched!tick_commit(table, results, d)
    /\ planned' = {}
    /\ sampler' = IF Produced(results) = {} THEN Idle
                  ELSE [Idle EXCEPT !.step = "committed", !.samples = Produced(results)]
    /\ UNCHANGED <<phase, ledger, removed, sinks, pump, queue, sessions, reading>>

(* Snapshot of the client map, under its mutex. *)
SamplerSnapshot ==
    /\ sampler.step = "committed"
    /\ sampler' = [sampler EXCEPT !.step = "fanout", !.todo = sinks]
    /\ UNCHANGED <<sched, phase, ledger, removed, sinks, pump, queue, sessions, reading>>

(* Which samples this client wants, under its ledger's mutex. *)
SamplerFilter(c) ==
    /\ sampler.step = "fanout"
    /\ sampler.sends = {}
    /\ c \in sampler.todo
    /\ sampler' = [sampler EXCEPT !.todo = @ \ {c},
                                  !.sends = {c} \X (sampler.samples \cap SensorsOf(ledger[c]))]
    /\ UNCHANGED <<sched, phase, ledger, removed, sinks, pump, queue, sessions, reading>>

(* try_send: queued, dropped when the queue is full, or disconnected. *)
SamplerSend(c, s) ==
    /\ <<c, s>> \in sampler.sends
    /\ IF pump[c] # "running"
       THEN /\ sampler' = [sampler EXCEPT !.sends = {}, !.dead = @ \cup {c}]
            /\ UNCHANGED <<queue, reading>>
       ELSE /\ sampler' = [sampler EXCEPT !.sends = @ \ {<<c, s>>}]
            /\ IF HasRoom(c)
               THEN /\ queue' = [queue EXCEPT ![c] = @ + 1]
                    /\ reading' = [reading EXCEPT ![c][s] = "queued"]
               ELSE /\ UNCHANGED queue
                    /\ reading' = [reading EXCEPT ![c][s] = IF @ = "none" THEN "dropped" ELSE @]
    /\ UNCHANGED <<sched, phase, ledger, removed, sinks, pump, sessions>>

SamplerForgetsDead ==
    /\ sampler.step = "fanout"
    /\ sampler.sends = {}
    /\ sampler.todo = {}
    /\ sinks' = sinks \ sampler.dead
    /\ sampler' = Idle
    /\ UNCHANGED <<sched, phase, ledger, removed, pump, queue, sessions, reading>>

-----------------------------------------------------------------------------
(* broadcast_sensor_list, after some client's SetNickname. *)
BroadcastSensorList ==
    /\ sinks # {}
    /\ queue' = [c \in Clients |->
                   IF c \in sinks /\ pump[c] = "running" /\ HasRoom(c)
                   THEN queue[c] + 1 ELSE queue[c]]
    /\ sinks' = {c \in sinks : pump[c] = "running"}
    /\ UNCHANGED <<sched, phase, ledger, removed, pump, sampler, sessions, reading>>

(* Time: a waiting sensor's due time is reached. *)
BecomesDue(s) ==
    /\ s \in DOMAIN table
    /\ table[s].due = "wait"
    /\ table' = [table EXCEPT ![s].due = "due"]
    /\ UNCHANGED <<planned, phase, ledger, removed, sinks, pump, queue, sampler, sessions, reading>>

(* A Subscribe message names some sensors and one rate, which the sensors'  *)
(* native rates clamp to one period each.                                   *)
Wanted == {T \in SUBSET Tokens : T # {} /\ \A t, u \in T : t[1] = u[1] => t = u}

ReadLoop(c) ==
    \/ AcceptLoop(c) \/ HandshakeFails(c) \/ Register(c)
    \/ \E T \in Wanted : Subscribe(c, T)
    \/ \E S \in SUBSET Sensors : Unsubscribe(c, S)
    \/ ReleaseRemoved(c) \/ ReadLoopEnds(c)
    \/ RemoveSink(c) \/ DrainLedger(c) \/ EndSession(c)

Sampler ==
    \/ SamplerPlan
    \/ \E results \in Sched!Results(planned), d \in Sched!Later : SamplerCommit(results, d)
    \/ SamplerSnapshot
    \/ \E c \in Clients : SamplerFilter(c)
    \/ \E c \in Clients, s \in Sensors : SamplerSend(c, s)
    \/ SamplerForgetsDead

Next ==
    \/ \E c \in Clients : ReadLoop(c) \/ PumpWrites(c) \/ PumpExits(c)
    \/ Sampler
    \/ BroadcastSensorList
    \/ \E s \in Sensors : BecomesDue(s)

Spec == Init /\ [][Next]_vars

-----------------------------------------------------------------------------
SamplerState ==
    [step : SamplerSteps, samples : SUBSET Sensors, todo : SUBSET Clients,
     sends : SUBSET (Clients \X Sensors), dead : SUBSET Clients]

TypeOK ==
    /\ Sched!TypeOK
    /\ phase \in [Clients -> Phases]
    /\ ledger \in [Clients -> SUBSET Tokens]
    /\ removed \in [Clients -> SUBSET Tokens]
    /\ sinks \subseteq Clients
    /\ pump \in [Clients -> {"none", "running", "exited"}]
    /\ queue \in [Clients -> 0..QueueCap]
    /\ sampler \in SamplerState
    /\ sessions \in Int
    /\ reading \in [Clients -> [Sensors -> {"none", "dropped", "queued"}]]

Holders(t) == {c \in Clients : t \in ledger[c] \cup removed[c]}

(* The scheduler's count of every (sensor, period) is the number of sessions *)
(* that still owe it an unsubscribe, whatever duplicate Subscribes, two-step *)
(* Unsubscribes and teardowns are under way; and a sensor nobody holds has   *)
(* no entry.  A leak would sample a sensor forever, an extra release would   *)
(* silence another client.                                                   *)
RefcountBalanced ==
    /\ \A t \in Tokens : Sched!CountsOf(table, t[1])[t[2]] = Cardinality(Holders(t))
    /\ \A s \in DOMAIN table : \E p \in Periods : table[s].counts[p] > 0

(* What makes RefcountBalanced inductive: no session both holds a token and  *)
(* owes it back, and none starts its teardown owing anything.                *)
TokensOwedOnce ==
    \A c \in Clients :
        /\ ledger[c] \cap removed[c] = {}
        /\ phase[c] \in {"leaving", "unmapped"} => removed[c] = {}

(* The client map holds every session whose pump is running, so none is cut  *)
(* off from samples and broadcasts while it could still deliver them, and it *)
(* holds no session that has ended (dead senders do not pile up).            *)
SinksAreSessions ==
    /\ \A c \in Clients : pump[c] = "running" => c \in sinks
    /\ \A c \in sinks : phase[c] \in {"open", "leaving"}

(* What makes SinksAreSessions inductive: what the sampler remembers of the  *)
(* client map may be stale, but a pump it found dead stays dead, and a pump  *)
(* starts only once.                                                         *)
SamplerMemory ==
    /\ \A c \in sampler.dead : pump[c] = "exited"
    /\ \A c \in sinks \cup sampler.todo : pump[c] # "none"
    /\ \A c \in Clients, s \in Sensors : <<c, s>> \in sampler.sends => pump[c] # "none"
    /\ \A c \in Clients : phase[c] \in NotYetOpen => pump[c] = "none"

Counted == {c \in Clients : phase[c] \notin {"new", "gone"}}
Served == {c \in Counted : phase[c] # "refused"}

(* At most MAX_CLIENT_SESSIONS connections are served at once, and the       *)
(* counter counts exactly those and the one that is being refused: no path   *)
(* out of accept_loop or serve() loses a slot.                               *)
SlotsBalanced == sessions = Cardinality(Counted) /\ Cardinality(Served) <= MaxSessions

Subscribed(c, s) == phase[c] = "open" /\ s \in SensorsOf(ledger[c])

(* The sampler still has a sample of s to offer to c. *)
InFanOut(c, s) ==
    /\ s \in sampler.samples
    /\ \/ sampler.step = "committed"
       \/ sampler.step = "fanout" /\ c \in sampler.todo
       \/ <<c, s>> \in sampler.sends

(* A static sensor is parked only when every subscriber that can receive has *)
(* been offered a reading since it subscribed, or the running fan-out is     *)
(* about to offer it one.  A parked sensor is never sampled again, so a      *)
(* subscriber missed here would show no value at all.                        *)
ParkedMeansOffered ==
    \A c \in Clients, s \in Static :
        /\ s \in DOMAIN table /\ table[s].due = "parked"
        /\ Subscribed(c, s) /\ pump[c] = "running"
        => reading[c][s] # "none" \/ InFanOut(c, s)

(* What makes ParkedMeansOffered inductive, with SinksAreSessions: only a    *)
(* fan-out has sends, all of them to one client, and a session that is not   *)
(* yet open holds no tokens.                                                 *)
FanOutShape ==
    /\ sampler.step # "fanout" => sampler.sends = {}
    /\ \A b, c \in Clients, r, s \in Sensors :
          <<b, r>> \in sampler.sends /\ <<c, s>> \in sampler.sends => b = c
    /\ \A c \in Clients : phase[c] \in NotYetOpen => ledger[c] = {}

-----------------------------------------------------------------------------
(* Threads that can run do run: the OS schedules them, and socket writes are *)
(* bounded by CLIENT_WRITE_TIMEOUT.  Clients owe nothing.                    *)
ServeFairness ==
    \A c \in Clients :
        /\ WF_vars(ReleaseRemoved(c))
        /\ WF_vars(RemoveSink(c) \/ DrainLedger(c) \/ EndSession(c))
        /\ WF_vars(PumpWrites(c))
        /\ WF_vars(phase[c] = "leaving" /\ PumpExits(c))

(* The sampler loops forever; a waiting sensor's due time is reached; and a  *)
(* plugin that is asked again and again answers in the end.                  *)
SamplerFairness ==
    /\ WF_vars(SamplerSnapshot) /\ WF_vars(SamplerForgetsDead)
    /\ \A c \in Clients : WF_vars(SamplerFilter(c))
    /\ \A c \in Clients, s \in Sensors : WF_vars(SamplerSend(c, s))
    /\ \A s \in Sensors :
        /\ WF_vars(BecomesDue(s))
        /\ SF_vars(SamplerPlan /\ s \in planned')
        /\ SF_vars(\E results \in Sched!Results(planned), d \in Sched!Later :
                      s \in Produced(results) /\ SamplerCommit(results, d))
    /\ WF_vars(\E results \in Sched!Results(planned), d \in Sched!Later :
                  SamplerCommit(results, d))

FairSpec == Spec /\ ServeFairness /\ SamplerFairness

(* A session whose read loop has ended gives every token back and frees its  *)
(* slot: no pump, mutex or queue can hold its teardown up.                   *)
SessionsWindDown == \A c \in Clients : phase[c] = "leaving" ~> phase[c] = "gone"

(* Every subscriber is offered a first reading of each sensor it subscribes  *)
(* to, static ones too, unless it leaves or its pump has failed.             *)
FirstReadingOffered ==
    \A c \in Clients, s \in Sensors :
        Subscribed(c, s) ~> reading[c][s] # "none" \/ ~Subscribed(c, s) \/ pump[c] # "running"

(* "When full, samples are dropped rather than disconnecting, so a laggy     *)
(* client recovers live data once it catches up."                            *)
LaggyClientRecovers ==
    \A c \in Clients, s \in Sensors :
        Subscribed(c, s) ~> reading[c][s] = "queued" \/ ~Subscribed(c, s) \/ pump[c] # "running"
=============================================================================
