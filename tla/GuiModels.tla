----------------------------- MODULE GuiModels -----------------------------
(***************************************************************************)
(* Requests of the GUI's pages: the alert, history and hardware models     *)
(* start a worker thread per request (rpc_worker.rs), the worker makes one *)
(* or two calls on the client it captured (client.rs: request_rpc, the     *)
(* in-flight table, dispatch), and its result is queued to the Qt thread,  *)
(* which applies it if no newer request of that model was made since.  The *)
(* daemon answers the requests of a connection in order; what it knows is  *)
(* a version that every change advances.  The client is replaced when it   *)
(* is lost and when the user turns to another host, the old one still up   *)
(* for the requests that captured it; clients may be of one daemon or two. *)
(***************************************************************************)
EXTENDS Naturals, Sequences, FiniteSets, SequencesExt

CONSTANTS
    Invocations,    \* what the user may ask for: [model, op, arg]
    MaxRpc,         \* MAX_CONCURRENT_RPC
    MaxClients,     \* bound: connections
    MaxInvoked,     \* bound: requests made
    MaxRefusals     \* bound: requests the daemon answers with an error

\* The invokables of each model that start a worker.
Invokable == [alerts |-> {"list", "upsert", "delete", "test", "events"}, history |-> {"points"},
              hardware |-> {"inventory", "nickname"}]

ASSUME GuiModelsAssumption ==
    /\ \A i \in Invocations : /\ i.model \in {"alerts", "history", "hardware"}
                              /\ i.op \in Invokable[i.model]
    /\ {MaxRpc, MaxClients} \subseteq Nat \ {0} /\ {MaxInvoked, MaxRefusals} \subseteq Nat

VARIABLES
    calls,      \* every request made, in order
    page,       \* each model: its newest request, is_loading, last_error, what it shows
    conn,       \* each client: up, next_req_id, in-flight table, both directions of the socket
    current,    \* the workspace's client
    version,    \* what each daemon knows
    peer,       \* the daemon each client is connected to
    refused     \* requests refused so far

modelVars == <<calls, page, conn, current, version, peer, refused>>
----------------------------------------------------------------------------
Models == {"alerts", "history", "hardware"}
Blank == [from |-> 0, what |-> "none"]

\* The property a result goes to, and the calls a worker makes: a change is
\* followed by the read that refreshes the page.
Field(op) == CASE op \in {"list", "upsert", "delete"} -> "rules"
               [] op = "test" -> "test"
               [] op = "events" -> "events"
               [] op = "points" -> "points"
               [] op \in {"inventory", "nickname"} -> "devices"
Changes == {"upsert", "delete", "nickname"}
Plan(op) == IF op \in Changes THEN <<"change", "read">> ELSE <<"read">>

\* HistoryModel::reload does nothing without a sensor and clears the old points
\* otherwise; test_expr clears the old verdict.
history_reload(i) == i.arg # ""
Cleared(i, shown) == IF i.op \in {"points", "test"} THEN [shown EXCEPT ![Field(i.op)] = Blank]
                     ELSE shown

\* Invokables.
Invoke(i) ==
    LET k == Len(calls) + 1 IN
    /\ Len(calls) < MaxInvoked
    /\ i.op = "points" => history_reload(i)
    /\ calls' = Append(calls, [inv |-> i, client |-> current, at |-> "waiting", step |-> 1,
                               id |-> 0, ok |-> TRUE, what |-> "none"])
    /\ page' = [page EXCEPT ![i.model] =
          [page[i.model] EXCEPT !.newest = k, !.loading = TRUE, !.error = FALSE,
                                !.shown = Cleared(i, @)]]
    /\ UNCHANGED <<conn, current, version, peer, refused>>
----------------------------------------------------------------------------
(* Worker threads.                                                          *)

Holding == {k \in DOMAIN calls : calls[k].at \in {"sending", "awaiting"}}

acquire_rpc_slot(k) ==
    /\ calls[k].at = "waiting" /\ Cardinality(Holding) < MaxRpc
    /\ calls' = [calls EXCEPT ![k].at = "sending"]
    /\ UNCHANGED <<page, conn, current, version, peer, refused>>

\* fetch returned: the slot is released and the result queued.
Returned(k, ok, what) == [calls EXCEPT ![k] = [@ EXCEPT !.at = "queued", !.ok = ok, !.what = what]]

\* request_rpc: the waiter is entered in the table before the request is
\* written, and taken out again when the write fails.
request_rpc(k) ==
    LET c == calls[k].client
        id == conn[c].next
    IN  /\ calls[k].at = "sending"
        /\ \/ /\ conn[c].up
              /\ conn' = [conn EXCEPT ![c] =
                    [conn[c] EXCEPT !.next = @ + 1, !.inflight = @ \cup {id},
                              !.wire = Append(@, [id |-> id, inv |-> calls[k].inv,
                                                  call |-> Plan(calls[k].inv.op)[calls[k].step]])]]
              /\ calls' = [calls EXCEPT ![k] = [@ EXCEPT !.at = "awaiting", !.id = id]]
           \/ /\ ~conn[c].up
              /\ conn' = [conn EXCEPT ![c].next = @ + 1]
              /\ calls' = Returned(k, FALSE, "send")
        /\ UNCHANGED <<page, current, version, peer, refused>>

\* recv_timeout: the waiter takes itself out of the table.
request_times_out(k) ==
    /\ calls[k].at = "awaiting"
    /\ calls' = Returned(k, FALSE, "timeout")
    /\ conn' = [conn EXCEPT ![calls[k].client].inflight = @ \ {calls[k].id}]
    /\ UNCHANGED <<page, current, version, peer, refused>>

\* The reader hands an answer to whoever waits for its id; a failed change is
\* not followed by the read.
Continues(k, ans) ==
    IF ans.ok /\ calls[k].step < Len(Plan(calls[k].inv.op))
    THEN [calls EXCEPT ![k] = [calls[k] EXCEPT !.at = "sending", !.step = @ + 1]]
    ELSE Returned(k, ans.ok, ans.what)

dispatch(c) ==
    /\ conn[c].answers # <<>>
    /\ LET ans == Head(conn[c].answers)
           waiters == {k \in DOMAIN calls : /\ calls[k].client = c /\ calls[k].at = "awaiting"
                                            /\ calls[k].id = ans.id}
       IN  /\ conn' = [conn EXCEPT ![c] = [conn[c] EXCEPT !.answers = Tail(@),
                                                    !.inflight = @ \ {ans.id}]]
           /\ calls' = IF ans.id \in conn[c].inflight
                       THEN Continues(CHOOSE k \in waiters : TRUE, ans)
                       ELSE calls
    /\ UNCHANGED <<page, current, version, peer, refused>>

\* For mutation: whatever comes back is applied.
is_current_Always(k) == TRUE

is_current(k) == page[calls[k].inv.model].newest = k

\* The closure queued to Qt.
Apply(k) ==
    LET m == calls[k].inv.model
        f == Field(calls[k].inv.op)
    IN  /\ calls[k].at = "queued"
        /\ calls' = [calls EXCEPT ![k].at = "done"]
        /\ page' = IF ~is_current(k) THEN page
                   ELSE [page EXCEPT ![m] =
                      [page[m] EXCEPT
                          !.loading = FALSE,
                          !.error = ~calls[k].ok /\ f # "test",
                          !.shown = IF calls[k].ok \/ f = "test"
                                    THEN [@ EXCEPT ![f] = [from |-> k, what |-> calls[k].what]]
                                    ELSE @]]
        /\ UNCHANGED <<conn, current, version, peer, refused>>
----------------------------------------------------------------------------
(* The daemon at the other end, and the connection.                         *)

Serve(c, ok) ==
    /\ conn[c].up /\ conn[c].wire # <<>>
    /\ LET r == Head(conn[c].wire)
           changed == ok /\ r.call = "change"
           what == IF r.inv.op \in {"points", "test"} THEN r.inv.arg ELSE version[peer[c]]
       IN  /\ version' = IF changed THEN [version EXCEPT ![peer[c]] = @ + 1] ELSE version
           /\ conn' = [conn EXCEPT ![c] =
                 [conn[c] EXCEPT !.wire = Tail(@),
                           !.answers = Append(@, [id |-> r.id, ok |-> ok, what |-> what])]]
    /\ refused' = IF ok THEN refused ELSE refused + 1
    /\ refused' <= MaxRefusals
    /\ UNCHANGED <<calls, page, current, peer>>

\* A connection goes down with whatever is on its way; nobody waiting is told.
ClientLost(c) ==
    /\ conn[c].up /\ c <= current /\ c < MaxClients
    /\ conn' = [conn EXCEPT ![c] = [@ EXCEPT !.up = FALSE, !.wire = <<>>, !.answers = <<>>]]
    /\ UNCHANGED <<calls, page, current, version, peer, refused>>

\* reconnect: the old client may be up, and stays so until its last request is done.
ClientReplaced ==
    /\ current < MaxClients
    /\ current' = current + 1
    /\ UNCHANGED <<calls, page, conn, version, peer, refused>>
----------------------------------------------------------------------------
GuiModelsInit ==
    /\ calls = <<>>
    /\ page = [m \in Models |-> [newest |-> 0, loading |-> FALSE, error |-> FALSE,
                                 shown |-> [f \in {"rules", "test", "events", "points", "devices"} |-> Blank]]]
    /\ conn = [c \in 1..MaxClients |-> [up |-> TRUE, next |-> 1, inflight |-> {},
                                        wire |-> <<>>, answers |-> <<>>]]
    /\ current = 1 /\ refused = 0
    /\ peer \in [1..MaxClients -> 1..MaxClients]
    /\ version = [h \in 1..MaxClients |-> 0]

GuiModelsNext ==
    \/ \E i \in Invocations : Invoke(i)
    \/ \E k \in DOMAIN calls : \/ acquire_rpc_slot(k) \/ request_rpc(k)
                               \/ request_times_out(k) \/ Apply(k)
    \/ \E c \in 1..MaxClients : dispatch(c) \/ ClientLost(c) \/ \E ok \in BOOLEAN : Serve(c, ok)
    \/ ClientReplaced

GuiModelsSpec == GuiModelsInit /\ [][GuiModelsNext]_modelVars
----------------------------------------------------------------------------
\* A page shows the answer to the question it asked: with workers that finish
\* in any order, answers that come after their request timed out and clients
\* that are replaced under a request, the points are those of the sensor asked
\* for last (or none yet), a page that is not loading has applied its newest
\* request or shows its error, a list read after a change knows the change,
\* and nobody is left in the in-flight table who no longer waits.
AnswersMatchTheirQuestions ==
    /\ LET p == page["history"] IN
       p.shown["points"] # Blank => p.shown["points"].what = calls[p.newest].inv.arg
    /\ \A m \in Models :
          LET p == page[m]
              k == p.newest
          IN  k # 0 /\ ~p.loading =>
                 \/ ~calls[k].ok /\ (p.error \/ calls[k].inv.op = "test")
                 \/ /\ p.shown[Field(calls[k].inv.op)].from = k
                    /\ calls[k].inv.op \in Changes => p.shown[Field(calls[k].inv.op)].what > 0
    /\ \A c \in 1..MaxClients :
          conn[c].inflight = {calls[k].id : k \in {j \in DOMAIN calls :
                                 calls[j].client = c /\ calls[j].at = "awaiting"}}
=============================================================================
