------------------------------ MODULE GuiLink ------------------------------
(***************************************************************************)
(* The GUI's connection to a daemon: client.rs (dialling, dropping),       *)
(* workspace.rs (replacing the client, the forwarders, the supervisor) and *)
(* the reconnects of hosts_model.rs.  Two threads may dial at once, the    *)
(* supervisor that revives a dead connection and the switch the user asks  *)
(* for; both end in reconnect_with_client, under reconnect_lock.           *)
(* Connections live in slots; a slot is used again only when nothing       *)
(* refers to its connection, so "the published generation is mine" is      *)
(* "the published slot is mine".  The temporary socket of an SSH tunnel    *)
(* has one name for the whole process.                                     *)
(***************************************************************************)
EXTENDS Naturals, FiniteSets

CONSTANTS
    Slots,          \* connections that may exist at one time
    SshHosts,       \* hosts reached through ssh -L
    MaxSwitches,    \* bound: reconnects the user asks for
    MaxMishaps      \* bound: streams that break, hosts and daemons that go

ASSUME GuiLinkAssumption ==
    /\ Cardinality(Slots) >= 4
    /\ "local" \notin SshHosts
    /\ {MaxSwitches, MaxMishaps} \subseteq Nat

VARIABLES
    reachable,      \* the SSH hosts that answer
    daemon,         \* the local daemon: "none", "service", or the slot whose child it is
    socket,         \* the temporary socket: the slot whose ssh bound it, or "none"
    link,           \* the connection of each slot
    published,      \* connection_generation: the slot it names
    alive,          \* connection_alive
    client,         \* Workspace.client
    active_target,  \* Workspace.active_target
    dialer,         \* the two threads that reconnect
    switches, mishaps

linkVars == <<reachable, daemon, socket, link, published, alive, client,
              active_target, dialer, switches, mishaps>>
world == <<reachable, daemon, socket>>
workspace == <<published, alive, client, active_target>>
counts == <<switches, mishaps>>
----------------------------------------------------------------------------
Dialers == {"supervisor", "switch"}
Resting == [at |-> "idle", target |-> "none", slot |-> "none"]
Free == [at |-> "free", target |-> "none", host |-> "none", via |-> "none",
         child |-> FALSE, ssh |-> "no", open |-> FALSE, forwarder |-> "none"]

\* The connection a dial to target is going to make.
Dialling(target) == [Free EXCEPT !.at = "dialling", !.target = target,
                                 !.ssh = IF target \in SshHosts THEN "due" ELSE "no"]

\* Every stream that fails the test breaks; its reader ends at once.
Breaking(ls, Broken(_)) ==
    [s \in Slots |-> IF ls[s].open /\ Broken(s) THEN [ls[s] EXCEPT !.open = FALSE]
                     ELSE ls[s]]

\* A slot whose client is dropped is free once its forwarder has finished.
Forgotten(l) == IF l.forwarder \in {"none", "done"} THEN Free
                ELSE [l EXCEPT !.at = "dropped", !.child = FALSE, !.ssh = "no",
                               !.open = FALSE]

\* Client::drop: Goodbye, kill and reap the daemon this client spawned (whoever
\* else is connected to it), kill its ssh, remove the temporary socket.
drop(s, ls) ==
    LET dead(t) == \/ t = s
                   \/ ls[s].child /\ ls[t].host = "local"
                   \/ ls[s].ssh # "no" /\ ls[t].via = s
    IN  [Breaking(ls, dead) EXCEPT ![s] = Forgotten(ls[s])]
daemon_after_drop(s) == IF link[s].child THEN "none" ELSE daemon
socket_after_drop(s) == IF link[s].ssh # "no" THEN "none" ELSE socket
----------------------------------------------------------------------------
(* Dialling: Workspace::reconnect before the lock.                          *)

Mishap == mishaps < MaxMishaps /\ mishaps' = mishaps + 1
Goes(d, at) == dialer' = [dialer EXCEPT ![d].at = at]

StartDial(d, target) ==
    LET s == CHOOSE s \in Slots : link[s] = Free IN
    /\ \E t \in Slots : link[t] = Free
    /\ link' = [link EXCEPT ![s] = Dialling(target)]
    /\ dialer' = [dialer EXCEPT ![d] = [at |-> "dial", target |-> target, slot |-> s]]

\* The supervisor's tick: nothing to do while alive (a keepalive changes no
\* state here), else dial the active target.
Supervise ==
    /\ dialer["supervisor"] = Resting
    /\ ~alive
    /\ StartDial("supervisor", active_target)
    /\ UNCHANGED <<world, workspace, counts>>

\* HostsModel::spawn_reconnect: one at a time, by the is_connecting flag.
spawn_reconnect(target) ==
    /\ dialer["switch"] = Resting
    /\ switches < MaxSwitches
    /\ switches' = switches + 1
    /\ StartDial("switch", target)
    /\ UNCHANGED <<world, workspace, mishaps>>

\* A dial or a replay fails: what it made is taken down, the old connection
\* is kept.
Fail(d) ==
    LET s == dialer[d].slot IN
    /\ link' = drop(s, link)
    /\ daemon' = daemon_after_drop(s)
    /\ socket' = socket_after_drop(s)
    /\ dialer' = [dialer EXCEPT ![d] = Resting]
    /\ UNCHANGED <<reachable, workspace, counts>>

\* connect_or_spawn_inner attaches to whatever daemon listens, or spawns one
\* and waits for it.  It fails when the daemon does not bind in time (and is
\* killed) or refuses the handshake (a daemon just spawned is left running).
connect_or_spawn(d) ==
    /\ dialer[d].at = "dial" /\ dialer[d].target = "local"
    /\ \/ /\ link' = [link EXCEPT ![dialer[d].slot] =
                 [@ EXCEPT !.at = "ready", !.open = TRUE, !.host = "local",
                           !.child = (daemon = "none")]]
          /\ daemon' = IF daemon = "none" THEN dialer[d].slot ELSE daemon
          /\ Goes(d, "lock")
          /\ UNCHANGED <<reachable, socket, workspace, counts>>
       \/ /\ Mishap
          /\ daemon' \in IF daemon = "none" THEN {"none", "service"} ELSE {daemon}
          /\ link' = [link EXCEPT ![dialer[d].slot] = Free]
          /\ dialer' = [dialer EXCEPT ![d] = Resting]
          /\ UNCHANGED <<reachable, socket, workspace, switches>>

\* discover_remote_socket asks the remote shell, with a timeout.
discover_remote_socket(target) == target \in reachable

\* connect_ssh: discovery over ssh, then the old temporary socket is removed
\* and ssh -L is spawned.
connect_ssh(d) ==
    /\ dialer[d].at = "dial" /\ dialer[d].target \in SshHosts
    /\ IF discover_remote_socket(dialer[d].target)
       THEN /\ socket' = "none"
            /\ link' = [link EXCEPT ![dialer[d].slot].ssh = "starting"]
            /\ Goes(d, "wait")
            /\ UNCHANGED <<reachable, daemon, workspace, counts>>
       ELSE /\ link' = [link EXCEPT ![dialer[d].slot] = Free]
            /\ dialer' = [dialer EXCEPT ![d] = Resting]
            /\ UNCHANGED <<world, workspace, counts>>

\* The ssh process binds the path unless something is bound there; when it
\* cannot, it goes on without the forwarding.
SshBinds(s) ==
    /\ link[s].ssh = "starting" /\ link[s].target \in reachable
    /\ socket' = IF socket = "none" THEN s ELSE socket
    /\ link' = [link EXCEPT ![s].ssh = "up"]
    /\ UNCHANGED <<reachable, daemon, workspace, dialer, counts>>

Behind == IF socket = "none" THEN "nobody" ELSE link[socket].target

\* The wait loop: connect to the path, whoever is behind it, and shake hands
\* there; a host that is gone fails the handshake.  After ten seconds without
\* a socket, give up.
attach(d) ==
    /\ dialer[d].at = "wait"
    /\ \/ /\ Behind \in reachable
          /\ link' = [link EXCEPT ![dialer[d].slot] =
                 [@ EXCEPT !.at = "ready", !.open = TRUE, !.via = socket, !.host = Behind]]
          /\ Goes(d, "lock")
          /\ UNCHANGED <<world, workspace, counts>>
       \/ /\ Behind \notin reachable
          /\ \/ Behind # "nobody"
             \/ dialer[d].target \notin reachable
             \/ link[dialer[d].slot].ssh = "up"
          /\ Fail(d)
----------------------------------------------------------------------------
(* reconnect_with_client, under reconnect_lock.                             *)

Locked == \E d \in Dialers : dialer[d].at \in {"replay", "commit", "drop", "spawn", "label"}

Lock(d) ==
    /\ dialer[d].at = "lock" /\ ~Locked
    /\ Goes(d, "replay")
    /\ UNCHANGED <<world, link, workspace, counts>>

\* Subscriptions and pump interval are written to the new client first.  A
\* write to a broken stream fails, or is lost in the socket buffer.
replay(d) ==
    /\ dialer[d].at = "replay"
    /\ \/ Goes(d, "commit") /\ UNCHANGED <<world, link, workspace, counts>>
       \/ ~link[dialer[d].slot].open /\ Fail(d)

\* Publish the generation, set alive, swap the client; the old one is dropped
\* by the step after.
commit(d) ==
    /\ dialer[d].at = "commit"
    /\ published' = dialer[d].slot
    /\ alive' = TRUE
    /\ client' = dialer[d].slot
    /\ link' = [link EXCEPT ![dialer[d].slot].at = "current", ![client].at = "old"]
    /\ Goes(d, "drop")
    /\ UNCHANGED <<world, active_target, counts>>

drop_old_client(d) ==
    /\ dialer[d].at = "drop"
    /\ \E s \in Slots : link[s].at = "old" /\ link' = drop(s, link)
                        /\ daemon' = daemon_after_drop(s)
                        /\ socket' = socket_after_drop(s)
    /\ Goes(d, "spawn")
    /\ UNCHANGED <<reachable, workspace, counts>>

spawn_forwarders(d) ==
    /\ dialer[d].at = "spawn"
    /\ link' = [link EXCEPT ![dialer[d].slot].forwarder = "running"]
    /\ Goes(d, "label")
    /\ UNCHANGED <<world, workspace, counts>>

set_active_target(d) ==
    /\ dialer[d].at = "label"
    /\ active_target' = dialer[d].target
    /\ dialer' = [dialer EXCEPT ![d] = Resting]
    /\ UNCHANGED <<world, link, published, alive, client, counts>>
----------------------------------------------------------------------------
(* A forwarder ends when the reader of its connection has ended; it looks   *)
(* at the generation and then, in a second step, clears the flag.           *)

FinishForwarder(l) == IF l.at = "dropped" THEN Free ELSE [l EXCEPT !.forwarder = "done"]

\* For mutation: the forwarder tests its generation the wrong way round.
forwarder_checks_Older(s) ==
    /\ link[s].forwarder = "running" /\ ~link[s].open
    /\ link' = [link EXCEPT ![s] = IF published # s THEN [@ EXCEPT !.forwarder = "mine"]
                                   ELSE FinishForwarder(@)]
    /\ UNCHANGED <<world, workspace, dialer, counts>>

forwarder_checks(s) ==
    /\ link[s].forwarder = "running" /\ ~link[s].open
    /\ link' = [link EXCEPT ![s] = IF published = s THEN [@ EXCEPT !.forwarder = "mine"]
                                   ELSE FinishForwarder(@)]
    /\ UNCHANGED <<world, workspace, dialer, counts>>

forwarder_clears(s) ==
    /\ link[s].forwarder = "mine"
    /\ alive' = FALSE
    /\ link' = [link EXCEPT ![s] = FinishForwarder(@)]
    /\ UNCHANGED <<world, published, client, active_target, dialer, counts>>
----------------------------------------------------------------------------
(* What the world does to a connection: a Bye, an eviction, thirty seconds  *)
(* without a frame, a host or a daemon that goes away.  Hosts come back.    *)

StreamBreaks(s) ==
    /\ link[s].open /\ Mishap
    /\ link' = [link EXCEPT ![s].open = FALSE]
    /\ UNCHANGED <<world, workspace, dialer, switches>>

HostGoes(h) ==
    LET behind(s) == link[s].host = h IN
    /\ h \in reachable /\ Mishap
    /\ reachable' = reachable \ {h}
    /\ link' = Breaking(link, behind)
    /\ UNCHANGED <<daemon, socket, workspace, dialer, switches>>

HostReturns(h) ==
    /\ h \in SshHosts \ reachable
    /\ reachable' = reachable \cup {h}
    /\ UNCHANGED <<daemon, socket, link, workspace, dialer, counts>>

DaemonCrashes ==
    LET behind(s) == link[s].host = "local" IN
    /\ daemon # "none" /\ Mishap
    /\ daemon' = "none"
    /\ link' = Breaking(link, behind)
    /\ UNCHANGED <<reachable, socket, workspace, dialer, switches>>
----------------------------------------------------------------------------
\* Workspace::new with the connection the GUI was started with.
GuiLinkInit ==
    /\ reachable = SshHosts
    /\ socket = "none"
    /\ client \in Slots
    /\ daemon \in {"service", client}
    /\ client = CHOOSE s \in Slots : TRUE
    /\ link = [s \in Slots |->
          IF s = client THEN [Free EXCEPT !.at = "current", !.target = "local", !.host = "local",
                                          !.child = (daemon = client), !.open = TRUE,
                                          !.forwarder = "running"]
          ELSE Free]
    /\ published = client
    /\ alive = TRUE
    /\ active_target = "local"
    /\ dialer = [d \in Dialers |-> Resting]
    /\ switches = 0 /\ mishaps = 0

DialStep(d) ==
    \/ connect_or_spawn(d) \/ connect_ssh(d) \/ attach(d)
    \/ Lock(d) \/ replay(d) \/ commit(d) \/ drop_old_client(d)
    \/ spawn_forwarders(d) \/ set_active_target(d)

GuiLinkNext ==
    \/ Supervise
    \/ \E t \in SshHosts \cup {"local"} : spawn_reconnect(t)
    \/ \E d \in Dialers : DialStep(d)
    \/ \E s \in Slots : forwarder_checks(s) \/ forwarder_clears(s)
                        \/ SshBinds(s) \/ StreamBreaks(s)
    \/ \E h \in SshHosts : HostGoes(h) \/ HostReturns(h)
    \/ DaemonCrashes

\* Threads run; a host that is down comes back (a GUI left on a host that never
\* does keeps trying).
GuiLinkFairness ==
    /\ WF_linkVars(Supervise)
    /\ \A d \in Dialers : WF_linkVars(DialStep(d))
    /\ \A s \in Slots : WF_linkVars(forwarder_checks(s) \/ forwarder_clears(s) \/ SshBinds(s))
    /\ \A h \in SshHosts : WF_linkVars(HostReturns(h))

GuiLinkSpec == GuiLinkInit /\ [][GuiLinkNext]_linkVars /\ GuiLinkFairness
----------------------------------------------------------------------------
\* Whatever breaks (the stream, the host, the daemon, a daemon killed because
\* the client that spawned it was replaced, a flag cleared by an outdated
\* forwarder), the GUI has a working connection again: no interleaving of
\* forwarders, supervisor and switches leaves the flag set over a dead client
\* or the supervisor with nothing to do.  (workspace.rs, "a dropped connection
\* is no longer a dead end the user must restart out of")
Linked == alive /\ link[client].open
LinkComesBack == []<>Linked
=============================================================================
