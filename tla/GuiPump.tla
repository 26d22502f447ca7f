------------------------------ MODULE GuiPump ------------------------------
(***************************************************************************)
(* The overview model of the GUI (overview_model.rs): the pump thread that *)
(* drains the sample bridge into the tile state and renders one frame per  *)
(* batch, the thread that renames tiles when the daemon broadcasts its     *)
(* catalogue, the queue of at most one frame between the pump and the Qt   *)
(* thread, and the Qt thread that runs the closures queued to it.  The     *)
(* workspace is its environment: it reconnects and forwards samples tagged *)
(* with the generation of their connection.  Time is the number of samples *)
(* forwarded; a tile's text is the time of the sample it was made from     *)
(* (0: the placeholder).                                                   *)
(***************************************************************************)
EXTENDS Naturals, Sequences, SequencesExt

CONSTANTS
    Catalogue,      \* what the daemon of each generation offers, in order
    Statics,        \* ids tagged STATIC_TAG
    Nets, Disks,    \* counters with a rate: net.*, and bytes of disk.* and nvme.*
    Hold,           \* HOLD_US
    BridgeCap,      \* BRIDGE_CHANNEL_CAP
    MaxForwarded,   \* bound: samples forwarded
    MaxCount,       \* bound: counter values
    MaxPumpEvents   \* bound: broadcasts, toggles of the process page, lost connections

ASSUME GuiPumpAssumption ==
    /\ Catalogue # <<>>
    /\ {Hold, BridgeCap, MaxForwarded, MaxCount, MaxPumpEvents} \subseteq Nat

VARIABLES
    published_g,    \* connection_generation
    up,             \* connection_alive
    subs,           \* the replay set of the workspace
    bridge,         \* samples forwarded and not yet received
    pump,           \* the pump thread
    refresher,      \* the catalogue-refresh thread
    json,           \* the tiles the pump has serialised for a reset
    tiles,          \* SampleState: tile of each id, dirty ids, previous counters, held rates
    queue,          \* CoalescedSampleUiQueue
    qt,             \* the Qt thread: closures queued to it and what it is doing
    shown,          \* what QML shows
    forwarded, eventful

pumpVars == <<published_g, up, subs, bridge, pump, refresher, json, tiles, queue, qt,
              shown, forwarded, eventful>>
----------------------------------------------------------------------------
Process == "proc"                    \* proc.list, opted in by the process page
NoFrame == [made |-> FALSE]
NoTile == [ts |-> 0, raw |-> 0]

\* What the daemon of the current connection offers (ws.sensor_infos()).
Infos == Catalogue[published_g]
AutoSubs(infos) == infos \ {Process}

build_sample_state(g) ==
    [ids |-> Catalogue[g], of |-> g, name |-> "plain",
     tile |-> [i \in Catalogue[g] |-> NoTile], dirty |-> {},
     prev |-> [i \in {} |-> NoTile], hold |-> [i \in {} |-> NoTile]]

\* apply_sample: the tile takes the sample and is dirty; an id the tiles do not
\* have is ignored.  Of several samples the last one stays.
apply_sample(st, samples) ==
    LET of(i) == {k \in DOMAIN samples : samples[k].id = i}
        last(i) == samples[Max(of(i))]
        touched == {i \in st.ids : of(i) # {}}
    IN  [st EXCEPT !.tile = [i \in st.ids |-> IF i \in touched THEN [ts |-> last(i).ts, raw |-> last(i).raw]
                                              ELSE @[i]],
                   !.dirty = @ \cup touched]

\* Rates: the difference to the previous sample, 0 for the first sample, a
\* sample already counted or a counter that went back.
RateOf(st, id) ==
    LET t == st.tile[id] IN
    IF t.ts = 0 \/ id \notin DOMAIN st.prev \/ t.ts <= st.prev[id].ts
       \/ t.raw <= st.prev[id].raw
    THEN 0 ELSE t.raw - st.prev[id].raw

compute_network_rates(st) ==
    LET ids == st.ids \cap Nets IN
    [rate |-> [i \in ids |-> RateOf(st, i)], prev |-> [i \in ids |-> st.tile[i]]]

\* A disk's last rate is held for a while after its counter stands still.
compute_disk_rates(st) ==
    LET ids == st.ids \cap Disks
        held == [i \in {j \in ids : RateOf(st, j) > 0 \/ j \in DOMAIN st.hold} |->
                   IF RateOf(st, i) > 0 THEN [ts |-> st.tile[i].ts, raw |-> RateOf(st, i)]
                   ELSE st.hold[i]]
    IN  [rate |-> [i \in ids |-> IF i \in DOMAIN held /\ st.tile[i].ts < held[i].ts + Hold
                                 THEN held[i].raw ELSE 0],
         prev |-> [i \in ids |-> st.tile[i]],
         hold |-> held]

\* For mutation: statics are sent once, like everything else.
take_dirty_tiles_Once(st) == st.dirty

\* The delta of a frame: the dirty tiles and every static tile that has a value.
take_dirty_tiles(st) == st.dirty \cup {i \in st.ids \cap Statics : st.tile[i].ts # 0}
----------------------------------------------------------------------------
Closure(kind, what) == [kind |-> kind, what |-> what]
Queued(q, c) == [q EXCEPT !.closures = Append(@, c)]
RestOfPump == <<published_g, up, bridge, queue, shown, forwarded>>
Threads == <<refresher, json>>

\* One message off the bridge.  An older connection's sample is skipped; a
\* newer one's makes the pump rebuild first.
PumpReceives ==
    /\ pump.at = "recv" /\ bridge # <<>>
    /\ LET s == Head(bridge) IN
       pump' = CASE s.g < pump.current_g -> pump
                 [] s.g > pump.current_g -> [pump EXCEPT !.at = "rebuild", !.first = s,
                                                         !.current_g = s.g]
                 [] OTHER -> [pump EXCEPT !.at = "alive", !.first = s]
    /\ bridge' = Tail(bridge)
    /\ UNCHANGED <<published_g, up, subs, tiles, queue, qt, shown, forwarded, eventful, Threads>>

\* Catalogue and subscriptions are those of the client that is current now.  The
\* tiles are serialised under their lock and queued to the Qt thread after it.
PumpRebuilds ==
    /\ pump.at = "rebuild"
    /\ tiles' = build_sample_state(published_g)
    /\ subs' = AutoSubs(Infos)
    /\ json' = tiles'
    /\ pump' = [pump EXCEPT !.at = "reset"]
    /\ UNCHANGED <<RestOfPump, refresher, qt, eventful>>

PumpQueuesReset ==
    /\ pump.at = "reset"
    /\ qt' = Queued(qt, Closure("reset", json))
    /\ json' = NoFrame
    /\ pump' = [pump EXCEPT !.at = "alive"]
    /\ UNCHANGED <<RestOfPump, refresher, subs, tiles, eventful>>

PumpShowsConnected ==
    /\ pump.at = "alive"
    /\ pump' = [pump EXCEPT !.at = "drain", !.last_alive = TRUE]
    /\ qt' = IF pump.last_alive THEN qt ELSE Queued(qt, Closure("connected", TRUE))
    /\ UNCHANGED <<RestOfPump, subs, tiles, eventful, Threads>>

\* drain_into_state: whatever else is buffered, without blocking; a newer
\* connection's sample only moves the generation on, and an older one's than
\* any before it is skipped.
AtHand == <<pump.first>> \o bridge
Taken == {k \in DOMAIN AtHand : \A j \in 1 .. (k - 1) : AtHand[j].g <= AtHand[k].g}
drain_into_state ==
    [g |-> AtHand[Max(Taken)].g,
     st |-> apply_sample(tiles, [k \in Taken |-> AtHand[k]])]

PumpDrains ==
    LET st == drain_into_state.st
        delta == take_dirty_tiles(st)
        net == compute_network_rates(st)
        disk == compute_disk_rates(st)
    IN  /\ pump.at = "drain"
        /\ bridge' = <<>>
        /\ tiles' = [st EXCEPT !.dirty = {}, !.hold = disk.hold,
                               !.prev = [i \in DOMAIN net.prev \cup DOMAIN disk.prev |-> st.tile[i]]]
        /\ pump' = [pump EXCEPT !.at = "store", !.current_g = drain_into_state.g,
                                !.frame = [made |-> TRUE, delta |-> [i \in delta |-> st.tile[i].ts],
                                           net |-> net.rate, disk |-> disk.rate]]
        /\ UNCHANGED <<published_g, up, subs, queue, qt, shown, forwarded, eventful, Threads>>

\* CoalescedSampleUiQueue::store: the frame replaces one not yet taken, and only
\* the first of them queues a closure, as the flag says a step later.
store ==
    /\ pump.at = "store"
    /\ queue' = [queue EXCEPT !.pending = pump.frame]
    /\ pump' = [pump EXCEPT !.at = "swap", !.frame = NoFrame]
    /\ UNCHANGED <<published_g, up, subs, bridge, tiles, qt, shown, forwarded, eventful, Threads>>

StoreClaims ==
    /\ pump.at = "swap"
    /\ queue' = [queue EXCEPT !.queued = TRUE]
    /\ pump' = [pump EXCEPT !.at = IF queue.queued THEN "recv" ELSE "queue"]
    /\ UNCHANGED <<published_g, up, subs, bridge, tiles, qt, shown, forwarded, eventful, Threads>>

queue_sample_ui_drain ==
    /\ pump.at = "queue"
    /\ qt' = Queued(qt, Closure("frame", NoFrame))
    /\ pump' = [pump EXCEPT !.at = "recv"]
    /\ UNCHANGED <<RestOfPump, subs, tiles, eventful, Threads>>

\* recv_timeout expired: compare the alive flag.
PumpTimesOut ==
    /\ pump.at = "recv" /\ bridge = <<>> /\ up # pump.last_alive
    /\ pump' = [pump EXCEPT !.last_alive = up]
    /\ qt' = Queued(qt, Closure("connected", up))
    /\ UNCHANGED <<RestOfPump, subs, tiles, eventful, Threads>>
----------------------------------------------------------------------------
(* The Qt thread runs one closure at a time.                                *)

apply_sample_ui_update(frame) ==
    [shown EXCEPT !.tile = [i \in DOMAIN @ \cup DOMAIN frame.delta |->
                               IF i \in DOMAIN frame.delta THEN frame.delta[i] ELSE @[i]],
                  !.net = frame.net, !.disk = frame.disk, !.by = "frame"]

QtRuns ==
    /\ qt.at = "idle" /\ qt.closures # <<>>
    /\ LET c == Head(qt.closures) IN
       /\ shown' = CASE c.kind = "connected" -> [shown EXCEPT !.connected = c.what]
                     [] c.kind = "frame" -> IF queue.pending.made
                                            THEN apply_sample_ui_update(queue.pending) ELSE shown
                     [] OTHER -> [shown EXCEPT !.tile = [i \in c.what.ids |-> c.what.tile[i].ts],
                                               !.name = c.what.name, !.by = "tiles",
                                               !.net = IF c.kind = "reset" THEN <<>> ELSE @,
                                               !.disk = IF c.kind = "reset" THEN <<>> ELSE @]
       /\ queue' = IF c.kind = "frame" THEN [queue EXCEPT !.pending = NoFrame] ELSE queue
       /\ qt' = [closures |-> Tail(qt.closures),
                 at |-> IF c.kind = "frame" THEN "finish" ELSE "idle"]
    /\ UNCHANGED <<published_g, up, subs, bridge, pump, tiles, forwarded, eventful, Threads>>

\* finish_and_should_requeue, in its three steps: clear the flag, look for a
\* frame stored meanwhile, claim the flag for it.
FinishClears ==
    /\ qt.at = "finish"
    /\ queue' = [queue EXCEPT !.queued = FALSE]
    /\ qt' = [qt EXCEPT !.at = "look"]
    /\ UNCHANGED <<published_g, up, subs, bridge, pump, tiles, shown, forwarded, eventful, Threads>>

FinishLooks ==
    /\ qt.at = "look"
    /\ qt' = [qt EXCEPT !.at = IF queue.pending.made THEN "claim" ELSE "idle"]
    /\ UNCHANGED <<RestOfPump, subs, pump, tiles, eventful, Threads>>

FinishClaims ==
    /\ qt.at = "claim"
    /\ queue' = [queue EXCEPT !.queued = TRUE]
    /\ qt' = IF queue.queued THEN [qt EXCEPT !.at = "idle"]
             ELSE [Queued(qt, Closure("frame", NoFrame)) EXCEPT !.at = "idle"]
    /\ UNCHANGED <<published_g, up, subs, bridge, pump, tiles, shown, forwarded, eventful, Threads>>
----------------------------------------------------------------------------
(* The workspace, the daemon and the user.                                  *)

Eventful == eventful < MaxPumpEvents /\ eventful' = eventful + 1

\* A forwarder sends a sample of its connection: of what is subscribed on the
\* current one, of what was buffered on an older one.
Forward(g, id, raw) ==
    /\ g <= published_g /\ (g = published_g => id \in subs)
    /\ id \in Catalogue[g]
    /\ raw \in IF id \in Nets \cup Disks THEN 0..MaxCount ELSE {0}
    /\ Len(bridge) < BridgeCap /\ forwarded < MaxForwarded
    /\ bridge' = Append(bridge, [g |-> g, id |-> id, ts |-> forwarded + 1, raw |-> raw])
    /\ forwarded' = forwarded + 1
    /\ UNCHANGED <<published_g, up, subs, pump, tiles, queue, qt, shown, eventful, Threads>>

WorkspaceReconnects ==
    /\ published_g < Len(Catalogue)
    /\ published_g' = published_g + 1 /\ up' = TRUE
    /\ UNCHANGED <<subs, bridge, pump, tiles, queue, qt, shown, forwarded, eventful, Threads>>

ConnectionDies ==
    /\ up /\ Eventful /\ up' = FALSE
    /\ UNCHANGED <<published_g, subs, bridge, pump, tiles, queue, qt, shown, forwarded, Threads>>

\* The catalogue-refresh thread, for a broadcast tagged with generation g: an
\* older connection's is skipped, others rename the tiles under their lock.  The
\* connection may be replaced after the comparison, and the pump rebuild the
\* tiles before the renamed ones are queued.
RefresherReceives(g) ==
    /\ refresher.at = "recv" /\ g <= published_g /\ Eventful
    /\ refresher' = IF g < published_g THEN refresher ELSE [at |-> "rename", g |-> g]
    /\ UNCHANGED <<RestOfPump, subs, pump, json, tiles, qt>>

RefresherRenames ==
    /\ refresher.at = "rename"
    /\ tiles' = [tiles EXCEPT !.name = IF tiles.ids \cap Catalogue[refresher.g] # {}
                                       THEN "renamed" ELSE @]
    /\ refresher' = [at |-> "queue", json |-> tiles']
    /\ UNCHANGED <<RestOfPump, subs, pump, json, qt, eventful>>

RefresherQueues ==
    /\ refresher.at = "queue"
    /\ qt' = Queued(qt, Closure("tiles", refresher.json))
    /\ refresher' = [at |-> "recv"]
    /\ UNCHANGED <<RestOfPump, subs, pump, json, tiles, eventful>>

set_process_stream_enabled(on) ==
    /\ Eventful
    /\ subs' = IF on THEN subs \cup {Process} ELSE subs \ {Process}
    /\ UNCHANGED <<RestOfPump, pump, tiles, qt, Threads>>
----------------------------------------------------------------------------
\* OverviewModel::start, once the daemon has sensors.
GuiPumpInit ==
    /\ published_g = 1 /\ up = TRUE
    /\ subs = AutoSubs(Catalogue[1])
    /\ bridge = <<>>
    /\ pump = [at |-> "recv", current_g |-> 1, last_alive |-> TRUE, first |-> NoFrame, frame |-> NoFrame]
    /\ refresher = [at |-> "recv"] /\ json = NoFrame
    /\ tiles = build_sample_state(1)
    /\ queue = [pending |-> NoFrame, queued |-> FALSE]
    /\ qt = [closures |-> <<>>, at |-> "idle"]
    /\ shown = [tile |-> [i \in Catalogue[1] |-> 0], name |-> "plain", net |-> <<>>,
                disk |-> <<>>, connected |-> TRUE, by |-> "tiles"]
    /\ forwarded = 0 /\ eventful = 0

GuiPumpNext ==
    \/ PumpReceives \/ PumpRebuilds \/ PumpQueuesReset \/ PumpShowsConnected \/ PumpDrains
    \/ store \/ StoreClaims \/ queue_sample_ui_drain \/ PumpTimesOut
    \/ QtRuns \/ FinishClears \/ FinishLooks \/ FinishClaims
    \/ \E g \in DOMAIN Catalogue, raw \in 0..MaxCount :
          \E id \in Catalogue[g] : Forward(g, id, raw)
    \/ WorkspaceReconnects \/ ConnectionDies
    \/ \E g \in DOMAIN Catalogue : RefresherReceives(g)
    \/ RefresherRenames \/ RefresherQueues
    \/ \E on \in BOOLEAN : set_process_stream_enabled(on)

GuiPumpSpec == GuiPumpInit /\ [][GuiPumpNext]_pumpVars
----------------------------------------------------------------------------
\* A static sensor is sampled once and parked by the daemon: its one sample
\* must not get lost between the pump and QML, although a frame QML is too
\* slow for is overwritten, and although the flag of the queue is handed from
\* one thread to the other without a lock.  Once both threads rest and the
\* last thing QML got was a frame, it shows every static value the pump has.
Quiet == pump.at = "recv" /\ qt = [closures |-> <<>>, at |-> "idle"]
StaticsReachTheScreen ==
    Quiet /\ shown.by = "frame" =>
        \A i \in tiles.ids \cap Statics : tiles.tile[i].ts # 0 => shown.tile[i] = tiles.tile[i].ts

\* "the next sample from the new host must arrive with g > current_g so the
\* pump rebuilds the tile catalogue" (overview_model.rs): whatever generation
\* the pump has moved to, its tiles were built for that connection or a later one.
TilesAreOfTheNewHost == pump.at = "recv" => tiles.of >= pump.current_g
=============================================================================
