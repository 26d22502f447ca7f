-------------------------------- MODULE Wire --------------------------------
(***************************************************************************)
(* The wire protocol (linsight-protocol: frame.rs, messages.rs) between    *)
(* one session of the daemon and one command of the CLI (linsight-cli).    *)
(* A frame is a length and a body whose first byte is the variant.  Two    *)
(* threads of the session share one FrameWriter: the read loop answers,    *)
(* the pump pushes.  The socket takes a bounded number of bytes; a write   *)
(* that gets no room in time fails and leaves what it has written.  The    *)
(* command reads frames and, while it waits for a response, skips the      *)
(* bodies of the others without decoding them.                             *)
(***************************************************************************)
EXTENDS Naturals, Sequences

CONSTANTS
    Asked,          \* lists of sensors given to `linsight watch`; `read` takes the first
    Advertised,          \* the sensors the daemon has
    Counts,         \* values of --count
    PipeCap,        \* what the socket holds
    MaxPushes       \* samples and broadcasts pushed

\* Sensors are named by strings; "rpc" stands for the requests of `alert` and
\* `history` and names none.
ASSUME WireAssumption ==
    /\ \A list \in Asked : list \in Seq(STRING) /\ \A i \in DOMAIN list : list[i] # "rpc"
    /\ Counts \subseteq Nat /\ PipeCap \in Nat

VARIABLES
    cli,            \* the command: [cmd, sensors, count, at, todo, id, printed]
    inbox,          \* client messages the daemon has not read
    pipe,           \* bytes on their way to the client
    write,          \* the write_all in progress: [by, left]
    session,        \* "open", or "closed" by the daemon
    pusher,         \* is the pump thread running?
    subscribed,     \* sensors of this client the pump sends
    pushes,
    torn            \* ghost: a write failed after part of its frame

wireVars == <<cli, inbox, pipe, write, session, pusher, subscribed, pushes, torn>>
----------------------------------------------------------------------------
(***************************************************************************)
(* Messages, and frames as the bytes that matter: byte 0 is the length     *)
(* prefix, byte 1 the variant.  Lists are longer than the rest.            *)
(***************************************************************************)
Msg(variant, arg) == [t |-> variant, arg |-> arg]
MsgLen(m) == IF m.t \in {"SensorList", "SensorListBroadcast"} THEN 3 ELSE 2
EncodeFrame(m) == [i \in 1..(MsgLen(m) + 1) |-> [byte |-> i - 1, of |-> m]]
NoWrite == [by |-> "none", left |-> <<>>]

\* verify_hello and the check of the token: what the daemon says to a Hello.
verify_hello(good) == IF good THEN Msg("Welcome", "same") ELSE Msg("Bye", "refused")

(***************************************************************************)
(* The session.                                                            *)
(***************************************************************************)
\* write_frame: a body over MAX_FRAME_BYTES is refused before anything is
\* written, otherwise prefix and body go out in one write_all.
write_frame(by, m) ==
    /\ write = NoWrite
    /\ write' = [by |-> by, left |-> EncodeFrame(m)]

\* A failed write ends the pump thread, or the read loop and so the session;
\* serve() returns after a Bye, written or not.
WriteFails(by) ==
    /\ write' = NoWrite
    /\ pusher' = (pusher /\ by # "pump")
    /\ session' = IF by # "pump" THEN "closed" ELSE session

WriteProgresses ==
    LET room == PipeCap - Len(pipe)
        n == IF room < Len(write.left) THEN room ELSE Len(write.left)
    IN  /\ n > 0
        /\ pipe' = pipe \o SubSeq(write.left, 1, n)
        /\ write' = IF n = Len(write.left) THEN NoWrite
                    ELSE [write EXCEPT !.left = SubSeq(@, n + 1, Len(@))]
        /\ session' = IF write.by = "bye" /\ n = Len(write.left) THEN "closed" ELSE session
        /\ UNCHANGED <<cli, inbox, pusher, subscribed, pushes, torn>>

\* CLIENT_WRITE_TIMEOUT, once the socket is full.
SocketWriteTimesOut ==
    /\ write # NoWrite /\ Len(pipe) = PipeCap
    /\ torn' = (torn \/ Len(write.left) < Len(EncodeFrame(write.left[1].of)))
    /\ WriteFails(write.by)
    /\ UNCHANGED <<cli, inbox, pipe, subscribed, pushes>>

\* The read loop takes the next message and answers it.
Handle(m) ==
    CASE m.t = "Hello" -> \E good \in BOOLEAN :
            /\ write_frame(IF good THEN "loop" ELSE "bye", verify_hello(good))
            /\ pusher' = good
            /\ UNCHANGED <<session, subscribed>>
      [] m.t = "ListSensors" ->
            /\ write_frame("loop", Msg("SensorList", "all"))
            /\ UNCHANGED <<session, pusher, subscribed>>
      [] m.t = "Request" ->
            \/ /\ write_frame("loop", [t |-> "Response", arg |-> m.arg,
                                       ok |-> m.op = "rpc" \/ m.op \in Advertised])
               /\ UNCHANGED <<session, pusher, subscribed>>
            \/ /\ m.op = "rpc"                      \* Oversized
               /\ write = NoWrite
               /\ WriteFails("loop")
               /\ UNCHANGED subscribed
      [] m.t = "Subscribe" ->
            /\ subscribed' = m.arg \cap Advertised
            /\ UNCHANGED <<write, session, pusher>>
      [] m.t = "Unsubscribe" ->
            /\ subscribed' = {}
            /\ UNCHANGED <<write, session, pusher>>
      [] m.t = "Goodbye" ->
            /\ session' = "closed" /\ pusher' = FALSE
            /\ UNCHANGED <<write, subscribed>>

SessionHandles ==
    /\ session = "open" /\ inbox # <<>> /\ write.by \notin {"loop", "bye"}
    /\ Handle(Head(inbox))
    /\ inbox' = Tail(inbox)
    /\ UNCHANGED <<cli, pipe, pushes, torn>>

\* The daemon stops, or evicts the session: no message says so.
SessionEnds ==
    /\ session = "open" /\ write = NoWrite
    /\ session' = "closed" /\ pusher' = FALSE
    /\ UNCHANGED <<cli, inbox, pipe, write, subscribed, pushes, torn>>

\* The pump sends what it finds in the outbound queue.
PumpPushes ==
    /\ session = "open" /\ pusher /\ pushes < MaxPushes
    /\ pushes' = pushes + 1
    /\ \E m \in {Msg("Sample", s) : s \in subscribed} \cup {Msg("SensorListBroadcast", "all")} :
            write_frame("pump", m)
    /\ UNCHANGED <<cli, inbox, pipe, session, pusher, subscribed, torn>>
----------------------------------------------------------------------------
(***************************************************************************)
(* FrameReader, in the command.  A read waits for the whole frame.         *)
(***************************************************************************)
FrameSize == MsgLen(pipe[1].of) + 1
Arrived == pipe # <<>> /\ (pipe[1].byte = 0 => Len(pipe) >= FrameSize)
Aligned == pipe[1].byte = 0 /\ SubSeq(pipe, 1, FrameSize) = EncodeFrame(pipe[1].of)
Consume(n) == pipe' = SubSeq(pipe, n + 1, Len(pipe))

Finish(status) == [cli EXCEPT !.at = status]
Says(m) == inbox' = Append(inbox, m)
Listening == cli.at \in {"welcome", "list", "rpc", "stream"}
Wanted(c) == {c.sensors[i] : i \in DOMAIN c.sensors}
NextQuestion(c) == IF c.todo # <<>> THEN [t |-> "Request", arg |-> c.id, op |-> Head(c.todo)]
                   ELSE Msg("Subscribe", Wanted(c))
Stage(c) == IF c.todo # <<>> THEN "rpc" ELSE "stream"

\* Mutant: the first byte of the body, already read, is skipped again.
skip_frame_body_Whole(len) == 1 + 1 + len

\* read_frame_header has taken the prefix and one byte of the body: len - 1
\* bytes remain.
skip_frame_body(len) == 1 + 1 + (len - 1)

\* connect_and_hello; with --count 0 `read` and `watch` do not get that far.
connect_and_hello ==
    /\ cli.at = "start"
    /\ \/ /\ cli.cmd \in {"read", "watch"} /\ cli.count = 0
          /\ cli' = Finish("ok") /\ UNCHANGED inbox
       \/ /\ ~(cli.cmd \in {"read", "watch"} /\ cli.count = 0)
          /\ cli' = Finish("welcome")
          /\ Says(Msg("Hello", "same"))
    /\ UNCHANGED <<pipe, write, session, pusher, subscribed, pushes, torn>>

\* The frame read as the welcome, then the first message of the command.
AfterWelcome(m) ==
    /\ Consume(FrameSize)
    /\ IF m.t # "Welcome" THEN cli' = Finish("err") /\ UNCHANGED inbox
       ELSE IF cli.cmd = "list" THEN cli' = Finish("list") /\ Says(Msg("ListSensors", "all"))
       ELSE cli' = Finish(Stage(cli)) /\ Says(NextQuestion(cli))

\* list::run takes the next message, whatever it is, for the answer.
AfterList(m) ==
    /\ Consume(FrameSize)
    /\ cli' = Finish(IF m.t = "SensorList" THEN "ok" ELSE "err")
    /\ UNCHANGED inbox

\* alert::list, add and remove and history::run print the answer and are done.
RpcAnswered == cli' = Finish("ok") /\ UNCHANGED inbox

\* read_server_response, and request_rpc's callers.
read_server_response(m) ==
    IF m.t = "Bye" \/ (m.t = "Response" /\ m.arg = cli.id /\ ~m.ok)
    THEN Consume(FrameSize) /\ cli' = Finish("err") /\ UNCHANGED inbox
    ELSE IF m.t = "Response" /\ m.arg = cli.id
    THEN LET next == [cli EXCEPT !.todo = Tail(@), !.id = @ + 1]
         IN  /\ Consume(FrameSize)
             /\ IF cli.cmd = "rpc" THEN RpcAnswered
                ELSE /\ cli' = [next EXCEPT !.at = Stage(next)]
                     /\ Says(NextQuestion(next))
    ELSE /\ Consume(IF m.t = "Response" THEN FrameSize ELSE skip_frame_body(FrameSize - 1))
         /\ UNCHANGED <<cli, inbox>>

\* read::run and watch::run: count the samples asked for, pass over the rest.
Goodbyes == inbox' = inbox \o <<Msg("Unsubscribe", "all"), Msg("Goodbye", "all")>>
AfterSubscribe(m) ==
    /\ Consume(FrameSize)
    /\ LET more == [cli EXCEPT !.printed = Append(@, m.arg)]
           wanted == m.t = "Sample" /\ m.arg \in Wanted(cli)
       IN  IF m.t = "Bye" \/ (wanted /\ Len(more.printed) >= cli.count)
           THEN Goodbyes /\ cli' = IF wanted THEN [more EXCEPT !.at = "ok"] ELSE Finish("bye")
           ELSE /\ cli' = CASE wanted -> more
                           [] m.t = "SensorDegraded" /\ m.arg \in Wanted(cli) -> Finish("err")
                           [] OTHER -> cli
                /\ UNCHANGED inbox

\* Anything but a whole frame at the front is read for what it is not.
ReadsFrame ==
    /\ Listening /\ Arrived
    /\ LET m == pipe[1].of
       IN  \/ /\ ~Aligned
              /\ cli' = Finish("misled")
              /\ UNCHANGED <<inbox, pipe>>
           \/ Aligned /\ cli.at = "welcome" /\ AfterWelcome(m)
           \/ Aligned /\ cli.at = "list" /\ AfterList(m)
           \/ Aligned /\ cli.at = "rpc" /\ read_server_response(m)
           \/ Aligned /\ cli.at = "stream" /\ AfterSubscribe(m)
    /\ UNCHANGED <<write, session, pusher, subscribed, pushes, torn>>

\* FrameError::Closed, or Io in the middle of a frame.
ReadsClosed ==
    /\ Listening /\ session = "closed" /\ write = NoWrite /\ ~Arrived
    /\ cli' = Finish("err")
    /\ UNCHANGED <<inbox, pipe, write, session, pusher, subscribed, pushes, torn>>

\* Ctrl+C in `watch`: the flag is looked at between two messages.
Interrupted ==
    /\ cli.at = "stream" /\ cli.cmd = "watch"
    /\ cli' = Finish("interrupted")
    /\ Goodbyes
    /\ UNCHANGED <<pipe, write, session, pusher, subscribed, pushes, torn>>
----------------------------------------------------------------------------
WireInit ==
    /\ \E cmd \in {"list", "read", "watch", "rpc"}, list \in Asked, n \in Counts :
            LET sensors == CASE cmd = "read" -> <<list[1]>> [] cmd = "watch" -> list
                             [] OTHER -> <<>>
            IN  /\ cmd = "read" => list # <<>>
                /\ cli = [cmd |-> cmd, sensors |-> sensors, count |-> n, at |-> "start", id |-> 1,
                          printed |-> <<>>, todo |-> IF cmd = "rpc" THEN <<"rpc">> ELSE sensors]
    /\ inbox = <<>> /\ pipe = <<>> /\ write = NoWrite
    /\ session = "open" /\ pusher = FALSE /\ subscribed = {}
    /\ pushes = 0 /\ torn = FALSE

WireNext ==
    \/ connect_and_hello
    \/ SessionHandles \/ SessionEnds \/ PumpPushes
    \/ WriteProgresses \/ SocketWriteTimesOut
    \/ ReadsFrame \/ ReadsClosed \/ Interrupted

WireSpec == WireInit /\ [][WireNext]_wireVars
----------------------------------------------------------------------------
(***************************************************************************)
(* A command stays in step with the daemon.  Whatever is pushed while it   *)
(* waits, it never takes the middle of a frame for a frame, unless the     *)
(* daemon gave up a write half way (read_server_response skips bodies,     *)
(* write_frame writes them whole); `read` and `watch` stream only sensors  *)
(* the daemon knows, print only what was asked for, and succeed only with  *)
(* exactly --count lines.                                                  *)
(***************************************************************************)
CommandsStayInStep ==
    /\ cli.at = "misled" => torn
    /\ cli.at = "stream" => Wanted(cli) \subseteq Advertised
    /\ \A i \in DOMAIN cli.printed : cli.printed[i] \in Wanted(cli) \cap Advertised
    /\ cli.at = "ok" /\ cli.cmd \in {"read", "watch"} => Len(cli.printed) = cli.count
=============================================================================
