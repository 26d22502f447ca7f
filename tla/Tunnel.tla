------------------------------- MODULE Tunnel -------------------------------
(***************************************************************************)
(* linsight-tunnel: a process that accepts connections on one side, dials  *)
(* the other, and copies bytes both ways until both directions have ended, *)
(* the connection has been idle for too long, or the process is told to    *)
(* stop.  A server terminates TLS and then dials the daemon's Unix socket; *)
(* a client accepts on a Unix socket, dials the server and then does TLS.  *)
(* A direction is named for the side its bytes come from.  Time is counted *)
(* in ticks by the timers that are running; bytes travel in chunks.        *)
(***************************************************************************)
EXTENDS Integers, Sequences, FiniteSets

CONSTANTS
    Peers,              \* connections that may be made
    Cert,               \* the certificate each peer presents to a server
    AllowCn, AllowSan,  \* --allow-cn and --allow-san, sets of patterns
    MaxConnections,     \* --max-connections
    IdleTimeout,        \* IDLE_TIMEOUT
    CopyIoTimeout,      \* COPY_IO_TIMEOUT
    DrainTimeout,       \* DRAIN_TIMEOUT
    Chunks              \* bound: chunks sent in each direction

ASSUME TunnelAssumption ==
    /\ IsFiniteSet(Peers) /\ MaxConnections \in Nat
    /\ {IdleTimeout, CopyIoTimeout, DrainTimeout} \subseteq Nat \ {0}
    /\ Chunks \in [{"a", "b"} -> Nat]

VARIABLES
    mode,       \* "server" or "client"
    stage,      \* the process: "accepting", "draining" or "exited"
    drained,    \* ticks since the process began to drain
    tunnel      \* the connection task of each peer

tunnelVars == <<mode, stage, drained, tunnel>>
----------------------------------------------------------------------------
(* Client certificates.  A name is a sequence of labels; a pattern may have *)
(* "*" for its first label.                                                 *)

wildcard_match(pattern, name) ==
    IF Head(pattern) = "*"
    THEN Len(name) > 1 /\ Tail(name) = Tail(pattern)
    ELSE name = pattern

\* The chain is validated first; without allowlists that is all.  The CN list
\* is matched with the same wildcards as the SAN list.
verify_client_cert(cert) ==
    /\ cert.chain
    /\ \/ AllowCn \cup AllowSan = {}
       \/ \E p \in AllowCn, n \in cert.cn : wildcard_match(p, n)
       \/ \E p \in AllowSan, n \in cert.sans : wildcard_match(p, n)
----------------------------------------------------------------------------
Directions == {"a", "b"}

\* What a task does before it copies, in order.
Setup == IF mode = "server" THEN <<"tls", "dial">> ELSE <<"dial", "tls">>

NotYet == [at |-> "none"]
Refused == [at |-> "refused"]
Starting(step) == [at |-> step]
Over(how) == [at |-> "over", how |-> how, lost |-> FALSE]
InFlight(t) == t.at \in {"tls", "dial", "copy"}

\* copy_bidirectional_idle.  sent, read and held count chunks of a direction:
\* sent by its peer, read by the task, and lying unread at the other peer.
\* turn says what the task is doing: waiting in select, or writing, or
\* shutting down, in a direction.  idle times the select and io the write;
\* silent (a history variable) counts from the last chunk read.
Copying == [at |-> "copy",
            sent |-> [d \in Directions |-> 0], eof |-> [d \in Directions |-> FALSE],
            read |-> [d \in Directions |-> 0], held |-> [d \in Directions |-> 0],
            done |-> [d \in Directions |-> FALSE],
            turn |-> "select", dir |-> "a", idle |-> 0, io |-> 0, silent |-> 0]

\* Chunks sent that have not been written to the other side.
Undelivered(t) ==
    \E d \in Directions : t.sent[d] > t.read[d] \/ (t.turn = "write" /\ t.dir = d)

\* The task returns; its permit is given back and both sockets close.  lost
\* (a history variable) says that it should not have ended like this.
Close(p, how, lost) == tunnel' = [tunnel EXCEPT ![p] = [Over(how) EXCEPT !.lost = lost]]

Permits == MaxConnections - Cardinality({p \in Peers : InFlight(tunnel[p])})

\* A peer connects: without a permit it is dropped at once, before TLS.
Accept(p) ==
    /\ stage = "accepting"
    /\ tunnel[p] = NotYet
    /\ tunnel' = [tunnel EXCEPT ![p] = IF Permits > 0 THEN Starting(Setup[1])
                                       ELSE Refused]
    /\ UNCHANGED <<mode, stage, drained>>

\* A step of the setup succeeds: TLS, in a server, only with a certificate
\* the verifier takes.
SetupStep(p) ==
    /\ tunnel[p].at \in {"tls", "dial"}
    /\ mode = "server" /\ tunnel[p].at = "tls" => verify_client_cert(Cert[p])
    /\ tunnel' = [tunnel EXCEPT ![p] = IF @.at = Setup[1] THEN Starting(Setup[2])
                                       ELSE Copying]
    /\ UNCHANGED <<mode, stage, drained>>

SetupFails(p) ==
    /\ tunnel[p].at \in {"tls", "dial"}
    /\ tunnel' = [tunnel EXCEPT ![p] = Over("error")]
    /\ UNCHANGED <<mode, stage, drained>>
----------------------------------------------------------------------------
(* The peers of a tunnel *)

PeerSends(p, d) ==
    /\ tunnel[p].at = "copy"
    /\ ~tunnel[p].eof[d]
    /\ tunnel[p].sent[d] < Chunks[d]
    /\ tunnel' = [tunnel EXCEPT ![p].sent[d] = @ + 1]
    /\ UNCHANGED <<mode, stage, drained>>

PeerCloses(p, d) ==
    /\ tunnel[p].at = "copy"
    /\ ~tunnel[p].eof[d]
    /\ tunnel' = [tunnel EXCEPT ![p].eof[d] = TRUE]
    /\ UNCHANGED <<mode, stage, drained>>

\* A peer takes a chunk that was written to it.  It need not ever do so.
PeerTakes(p, d) ==
    /\ tunnel[p].at = "copy"
    /\ tunnel[p].held[d] > 0
    /\ tunnel' = [tunnel EXCEPT ![p].held[d] = 0]
    /\ UNCHANGED <<mode, stage, drained>>
----------------------------------------------------------------------------
(* The copy loop *)

\* Mutant: the idle timer goes on from turn to turn.
CopyReads_SameTimer(p, d) ==
    /\ tunnel[p].at = "copy"
    /\ tunnel[p].turn = "select"
    /\ ~tunnel[p].done[d]
    /\ tunnel[p].sent[d] > tunnel[p].read[d]
    /\ tunnel' = [tunnel EXCEPT ![p].read[d] = @ + 1, ![p].turn = "write",
                                ![p].dir = d, ![p].io = 0, ![p].silent = 0]
    /\ UNCHANGED <<mode, stage, drained>>

\* select takes a chunk; the timers of the turn, both directions', are dropped
\* with it.
CopyReads(p, d) ==
    /\ tunnel[p].at = "copy"
    /\ tunnel[p].turn = "select"
    /\ ~tunnel[p].done[d]
    /\ tunnel[p].sent[d] > tunnel[p].read[d]
    /\ tunnel' = [tunnel EXCEPT ![p].read[d] = @ + 1, ![p].turn = "write",
                                ![p].dir = d, ![p].idle = 0, ![p].io = 0,
                                ![p].silent = 0]
    /\ UNCHANGED <<mode, stage, drained>>

CopyWrites(p) ==
    /\ tunnel[p].at = "copy"
    /\ tunnel[p].turn = "write"
    /\ tunnel[p].held[tunnel[p].dir] = 0
    /\ tunnel' = [tunnel EXCEPT ![p].held[tunnel[p].dir] = 1, ![p].turn = "select"]
    /\ UNCHANGED <<mode, stage, drained>>

CopyReadsEof(p, d) ==
    /\ tunnel[p].at = "copy"
    /\ tunnel[p].turn = "select"
    /\ ~tunnel[p].done[d]
    /\ tunnel[p].eof[d]
    /\ tunnel[p].sent[d] = tunnel[p].read[d]
    /\ tunnel' = [tunnel EXCEPT ![p].done[d] = TRUE, ![p].turn = "shutdown",
                                ![p].dir = d, ![p].idle = 0]
    /\ UNCHANGED <<mode, stage, drained>>

\* Mutant: the loop stops at the first end of file.
CopyDone_Either(t) == t.done["a"] \/ t.done["b"]

CopyDone(t) == t.done["a"] /\ t.done["b"]

\* The shutdown ends, or is given up after its timeout: best effort.
CopyShutsDown(p) ==
    /\ tunnel[p].at = "copy"
    /\ tunnel[p].turn = "shutdown"
    /\ IF CopyDone(tunnel[p]) THEN Close(p, "clean", Undelivered(tunnel[p]))
       ELSE tunnel' = [tunnel EXCEPT ![p].turn = "select"]
    /\ UNCHANGED <<mode, stage, drained>>

\* Mutant: writes wait for as long as it takes.
WriteTimesOut_Never(p) == FALSE /\ UNCHANGED tunnelVars /\ p = p

WriteTimesOut(p) ==
    /\ tunnel[p].at = "copy"
    /\ tunnel[p].turn = "write"
    /\ tunnel[p].io >= CopyIoTimeout
    /\ Close(p, "write timeout", FALSE)
    /\ UNCHANGED <<mode, stage, drained>>

IdleTimesOut(p) ==
    /\ tunnel[p].at = "copy"
    /\ tunnel[p].turn = "select"
    /\ tunnel[p].idle >= IdleTimeout
    /\ Close(p, "idle", tunnel[p].silent < IdleTimeout)
    /\ UNCHANGED <<mode, stage, drained>>

\* A read or a write fails.
CopyFails(p) ==
    /\ tunnel[p].at = "copy"
    /\ tunnel[p].turn \in {"select", "write"}
    /\ Close(p, "error", FALSE)
    /\ UNCHANGED <<mode, stage, drained>>
----------------------------------------------------------------------------
(* The process *)

ShutdownSignal ==
    /\ stage = "accepting"
    /\ stage' = "draining"
    /\ UNCHANGED <<mode, drained, tunnel>>

\* drain: every task has ended, or the time is up and they are aborted.
Exit ==
    /\ stage = "draining"
    /\ drained >= DrainTimeout \/ \A p \in Peers : ~InFlight(tunnel[p])
    /\ stage' = "exited"
    /\ tunnel' = [p \in Peers |->
                     IF InFlight(tunnel[p]) THEN Over("aborted")
                     ELSE tunnel[p]]
    /\ UNCHANGED <<mode, drained>>

Later(n, limit) == IF n < limit THEN n + 1 ELSE n

TunnelTick ==
    /\ tunnel' = [p \in Peers |->
          IF tunnel[p].at # "copy" THEN tunnel[p]
          ELSE [tunnel[p] EXCEPT
                   !.idle = IF tunnel[p].turn = "select" THEN Later(@, IdleTimeout) ELSE @,
                   !.io = IF tunnel[p].turn = "write" THEN Later(@, CopyIoTimeout) ELSE @,
                   !.silent = Later(@, IdleTimeout)]]
    /\ drained' = IF stage = "draining" THEN Later(drained, DrainTimeout) ELSE drained
    /\ UNCHANGED <<mode, stage>>
----------------------------------------------------------------------------
TunnelInit ==
    /\ mode \in {"server", "client"}
    /\ stage = "accepting"
    /\ drained = 0
    /\ tunnel = [p \in Peers |-> NotYet]

TaskStep(p) ==
    \/ \E d \in Directions : CopyReads(p, d) \/ CopyReadsEof(p, d)
    \/ CopyWrites(p)
    \/ CopyShutsDown(p)
    \/ WriteTimesOut(p)
    \/ IdleTimesOut(p)

TunnelNext ==
    \/ \E p \in Peers :
          \/ Accept(p) \/ SetupStep(p) \/ SetupFails(p)
          \/ \E d \in Directions : PeerSends(p, d) \/ PeerCloses(p, d)
                                   \/ PeerTakes(p, d)
          \/ TaskStep(p)
          \/ CopyFails(p)
    \/ ShutdownSignal
    \/ Exit
    \/ TunnelTick

\* Tasks are polled and time passes; nothing is asked of the peers.
TunnelFairness ==
    /\ \A p \in Peers : WF_tunnelVars(TaskStep(p))
    /\ WF_tunnelVars(Exit)
    /\ WF_tunnelVars(TunnelTick)

TunnelSpec == TunnelInit /\ [][TunnelNext]_tunnelVars /\ TunnelFairness
----------------------------------------------------------------------------
(* Properties *)

\* A tunnel that ends by itself, without an error, has passed on everything
\* that either side sent: the end of one direction does not cut the other
\* (main.rs:716).
CleanCloseLosesNothing ==
    \A p \in Peers : tunnel[p].at = "over" /\ tunnel[p].how = "clean" =>
        ~tunnel[p].lost

\* A tunnel is closed as idle only when nothing has come from either side for
\* IDLE_TIMEOUT, however long it has been up (main.rs:62, "an
\* actively-streaming session is never cut off").
IdleMeansIdle ==
    \A p \in Peers : tunnel[p].at = "over" /\ tunnel[p].how = "idle" =>
        ~tunnel[p].lost

\* No pair of peers keeps a connection slot for ever without exchanging
\* anything: not by staying silent, nor by not reading what is sent to them.
\* (A TLS handshake or a dial that never ends has no timeout of its own.)
TunnelSlotsComeBack ==
    \A p \in Peers : tunnel[p].at = "copy" ~> tunnel[p].at = "over"
=============================================================================
