--------------------------- MODULE ServicesProofs ----------------------------
(***************************************************************************)
(* Proofs about what the daemon's clients meet: the mTLS tunnel (Tunnel),  *)
(* the nicknames they give to devices (Nicknames), the Prometheus exporter *)
(* (Prom) and the GUI's connection (GuiLink), for any peers, devices,      *)
(* names, scrapes and threads.                                             *)
(***************************************************************************)
EXTENDS Tunnel, Nicknames, Prom, GuiLink, FiniteSetTheorems, TLAPS

-----------------------------------------------------------------------------
(***************************************************************************)
(* Tunnel                                                                  *)
(***************************************************************************)

-----------------------------------------------------------------------------
(* The inductive invariant.                                                 *)

CopyState ==
    [at : {"copy"}, sent : [Directions -> Nat], eof : [Directions -> BOOLEAN],
     read : [Directions -> Nat], held : [Directions -> Nat],
     done : [Directions -> BOOLEAN], turn : {"select", "write", "shutdown"},
     dir : Directions, idle : Nat, io : Nat, silent : Nat]

OverState == [at : {"over"}, how : {"clean", "write timeout", "idle", "error", "aborted"},
              lost : BOOLEAN]

(* A direction is done only at its end of file, when all its chunks have    *)
(* been read: its peer can send no more.                                    *)
DoneMeansRead(t) ==
    \A d \in Directions : t.done[d] => t.eof[d] /\ t.sent[d] = t.read[d]

(* The timer of the select, however often it is started anew, never runs    *)
(* ahead of the silence.                                                    *)
TimerBehindSilence(t) == t.idle <= t.silent

EndsWell(t) == t.how \in {"clean", "idle"} => ~t.lost

Sound(t) ==
    \/ t \in {NotYet, Refused, Starting("tls"), Starting("dial")}
    \/ t \in CopyState /\ DoneMeansRead(t) /\ TimerBehindSilence(t)
    \/ t \in OverState /\ EndsWell(t)

Busy(T) == {p \in Peers : InFlight(T[p])}

TunnelInv ==
    /\ mode \in {"server", "client"}
    /\ tunnel \in [Peers -> {tunnel[p] : p \in Peers}]
    /\ \A p \in Peers : Sound(tunnel[p])
    /\ Cardinality(Busy(tunnel)) <= MaxConnections

-----------------------------------------------------------------------------
(* Steps of one task.                                                       *)

LEMMA BusyShrinks ==
  ASSUME NEW T, \A p \in Peers : InFlight(T[p]) => InFlight(tunnel[p]),
         Cardinality(Busy(tunnel)) <= MaxConnections
  PROVE  Cardinality(Busy(T)) <= MaxConnections
<1>1. Busy(T) \subseteq Busy(tunnel) /\ Busy(tunnel) \subseteq Peers
  BY DEF Busy
<1>2. IsFiniteSet(Busy(tunnel))
  BY <1>1, TunnelAssumption, FS_Subset
<1>3. /\ IsFiniteSet(Busy(T))
      /\ Cardinality(Busy(T)) <= Cardinality(Busy(tunnel))
  BY <1>1, <1>2, FS_Subset
<1>4. Cardinality(Busy(T)) \in Nat /\ Cardinality(Busy(tunnel)) \in Nat
  BY <1>2, <1>3, FS_CardinalityType
<1> QED
  BY <1>3, <1>4, TunnelAssumption

LEMMA OneTask ==
  ASSUME TunnelInv, NEW p \in Peers, NEW t, tunnel' = [tunnel EXCEPT ![p] = t],
         mode' = mode, Sound(t), InFlight(t) => InFlight(tunnel[p])
  PROVE  TunnelInv'
<1>1. tunnel' \in [Peers -> {tunnel'[q] : q \in Peers}]
  BY DEF TunnelInv
<1>2. tunnel'[p] = t /\ \A q \in Peers \ {p} : tunnel'[q] = tunnel[q]
  BY DEF TunnelInv
<1>3. \A q \in Peers : Sound(tunnel'[q])
  BY <1>2 DEF TunnelInv
<1>4. \A q \in Peers : InFlight(tunnel'[q]) => InFlight(tunnel[q])
  BY <1>2
<1>5. Cardinality(Busy(tunnel')) <= MaxConnections
  BY <1>4, BusyShrinks DEF TunnelInv
<1> QED
  BY <1>1, <1>3, <1>5 DEF TunnelInv, Busy, Sound, InFlight

(* Every state a task can be in is told by its `at'. *)
LEMMA StateByAt ==
  ASSUME NEW t, Sound(t)
  PROVE  /\ t.at = "copy" => t \in CopyState /\ DoneMeansRead(t) /\ TimerBehindSilence(t)
         /\ t.at \in {"tls", "dial"} => t = Starting(t.at)
         /\ t.at = "over" => t \in OverState /\ EndsWell(t)
<1>1. CASE t \in {NotYet, Refused, Starting("tls"), Starting("dial")}
  BY <1>1 DEF NotYet, Refused, Starting
<1>2. CASE t \in CopyState /\ DoneMeansRead(t) /\ TimerBehindSilence(t)
  <2>1. t.at = "copy"
    BY <1>2 DEF CopyState
  <2> QED
    BY <1>2, <2>1
<1>3. CASE t \in OverState /\ EndsWell(t)
  <2>1. t.at = "over"
    BY <1>3 DEF OverState
  <2> QED
    BY <1>3, <2>1
<1> QED
  BY <1>1, <1>2, <1>3 DEF Sound

LEMMA OverSound ==
  ASSUME NEW how \in {"clean", "write timeout", "idle", "error", "aborted"},
         NEW lost \in BOOLEAN, how \in {"clean", "idle"} => ~lost
  PROVE  /\ Sound([Over(how) EXCEPT !.lost = lost])
         /\ ~ InFlight([Over(how) EXCEPT !.lost = lost])
         /\ Sound(Over("error")) /\ ~ InFlight(Over("error"))
         /\ Sound(Over("aborted")) /\ ~ InFlight(Over("aborted"))
BY DEF Sound, Over, OverState, EndsWell, InFlight

LEMMA CopyingSound == Sound(Copying) /\ InFlight(Copying)
<1>1. Copying \in CopyState
  BY DEF Copying, CopyState, Directions
<1>2. DoneMeansRead(Copying) /\ TimerBehindSilence(Copying)
  BY DEF Copying, DoneMeansRead, TimerBehindSilence
<1> QED
  BY <1>1, <1>2 DEF Sound, InFlight, Copying

(* A step of a copying task, in terms of the task alone. *)
LEMMA CopyStep ==
  ASSUME TunnelInv, NEW p \in Peers, tunnel[p].at = "copy", NEW t \in CopyState,
         tunnel' = [tunnel EXCEPT ![p] = t], mode' = mode,
         DoneMeansRead(t), TimerBehindSilence(t)
  PROVE  TunnelInv'
<1>1. Sound(t)
  BY DEF Sound
<1>2. InFlight(tunnel[p])
  BY DEF InFlight
<1> QED
  BY <1>1, <1>2, OneTask

LEMMA CloseStep ==
  ASSUME TunnelInv, NEW p \in Peers, tunnel[p].at = "copy",
         NEW how \in {"clean", "write timeout", "idle", "error", "aborted"},
         NEW lost \in BOOLEAN, Close(p, how, lost), mode' = mode,
         how \in {"clean", "idle"} => ~lost
  PROVE  TunnelInv'
BY OverSound, OneTask DEF Close

-----------------------------------------------------------------------------
(* The invariant is inductive.                                              *)

LEMMA TunnelInitInv == TunnelInit => TunnelInv
<1> SUFFICES ASSUME TunnelInit PROVE TunnelInv
  OBVIOUS
<1>1. \A p \in Peers : Sound(tunnel[p]) /\ ~ InFlight(tunnel[p])
  BY DEF TunnelInit, Sound, InFlight, NotYet
<1>2. Busy(tunnel) = {}
  BY <1>1 DEF Busy
<1>3. Cardinality(Busy(tunnel)) <= MaxConnections
  BY <1>2, FS_EmptySet, TunnelAssumption
<1> QED
  BY <1>1, <1>3 DEF TunnelInv, TunnelInit

LEMMA AcceptInv ==
  ASSUME TunnelInv, NEW p \in Peers, Accept(p)
  PROVE  TunnelInv'
<1> DEFINE first == Setup[1]
<1>1. first \in {"tls", "dial"}
  BY DEF TunnelInv, Setup
<1> HIDE DEF first
<1>2. CASE ~ (Permits > 0)
  <2>1. tunnel' = [tunnel EXCEPT ![p] = Refused] /\ mode' = mode
    BY <1>2 DEF Accept
  <2>2. Sound(Refused) /\ ~ InFlight(Refused)
    BY DEF Sound, InFlight, Refused
  <2> QED
    BY <2>1, <2>2, OneTask
<1>3. CASE Permits > 0
  <2>1. tunnel' = [tunnel EXCEPT ![p] = Starting(first)] /\ mode' = mode
    BY <1>3 DEF Accept, first
  <2>2. Sound(Starting(first)) /\ InFlight(Starting(first))
    BY <1>1 DEF Sound, InFlight, Starting
  <2>3. ~ InFlight(tunnel[p])
    BY DEF Accept, NotYet, InFlight
  <2>4. tunnel' \in [Peers -> {tunnel'[q] : q \in Peers}]
        /\ tunnel'[p] = Starting(first) /\ \A q \in Peers \ {p} : tunnel'[q] = tunnel[q]
    BY <2>1 DEF TunnelInv
  <2>5. \A q \in Peers : Sound(tunnel'[q])
    BY <2>2, <2>4 DEF TunnelInv
  <2>6. Busy(tunnel') = Busy(tunnel) \cup {p} /\ p \notin Busy(tunnel)
    BY <2>2, <2>3, <2>4 DEF Busy
  <2>7. IsFiniteSet(Busy(tunnel)) /\ Cardinality(Busy(tunnel)) \in Nat
    BY TunnelAssumption, FS_Subset, FS_CardinalityType DEF Busy
  <2>8. Cardinality(Busy(tunnel')) = Cardinality(Busy(tunnel)) + 1
    BY <2>6, <2>7, FS_AddElement
  <2>9. Cardinality(Busy(tunnel')) <= MaxConnections
    BY <1>3, <2>7, <2>8, TunnelAssumption DEF Permits, Busy
  <2> QED
    BY <2>1, <2>4, <2>5, <2>9 DEF TunnelInv, Busy, Sound, InFlight
<1> QED
  BY <1>2, <1>3

LEMMA SetupInv ==
  ASSUME TunnelInv, NEW p \in Peers, SetupStep(p) \/ SetupFails(p)
  PROVE  TunnelInv'
<1>1. Setup[1] \in {"tls", "dial"} /\ Setup[2] \in {"tls", "dial"}
  BY DEF TunnelInv, Setup
<1>2. InFlight(tunnel[p])
  BY DEF SetupStep, SetupFails, InFlight
<1>3. Sound(Starting(Setup[2]))
  BY <1>1 DEF Sound
<1>4. CASE SetupStep(p)
  <2>1. /\ mode' = mode
        /\ \/ tunnel' = [tunnel EXCEPT ![p] = Starting(Setup[2])]
           \/ tunnel' = [tunnel EXCEPT ![p] = Copying]
    BY <1>4, Zenon DEF SetupStep
  <2> QED
    BY <1>2, <1>3, <2>1, CopyingSound, OneTask
<1>5. CASE SetupFails(p)
  BY <1>2, <1>5, OverSound, OneTask DEF SetupFails
<1> QED
  BY <1>4, <1>5
(* What the peers do, and the copy loop. *)
LEMMA PeerInv ==
  ASSUME TunnelInv, NEW p \in Peers, NEW d \in Directions,
         PeerSends(p, d) \/ PeerCloses(p, d) \/ PeerTakes(p, d)
  PROVE  TunnelInv'
<1> DEFINE t == tunnel[p]
<1>1. t.at = "copy" /\ mode' = mode
  BY DEF PeerSends, PeerCloses, PeerTakes
<1>2. t \in CopyState /\ DoneMeansRead(t) /\ TimerBehindSilence(t)
  BY <1>1, StateByAt DEF TunnelInv
<1>3. CASE PeerSends(p, d)
  <2> DEFINE u == [t EXCEPT !.sent = [t.sent EXCEPT ![d] = t.sent[d] + 1]]
  <2>1. tunnel' = [tunnel EXCEPT ![p] = u]
    BY <1>3 DEF PeerSends
  <2>2. u \in CopyState
    BY <1>2 DEF CopyState
  <2>3. DoneMeansRead(u)
    BY <1>2, <1>3 DEF PeerSends, DoneMeansRead, CopyState
  <2>4. TimerBehindSilence(u)
    BY <1>2 DEF TimerBehindSilence, CopyState
  <2> HIDE DEF u
  <2> QED
    BY <1>1, <2>1, <2>2, <2>3, <2>4, CopyStep
<1>4. CASE PeerCloses(p, d)
  <2> DEFINE u == [t EXCEPT !.eof = [t.eof EXCEPT ![d] = TRUE]]
  <2>1. tunnel' = [tunnel EXCEPT ![p] = u]
    BY <1>4 DEF PeerCloses
  <2>2. u \in CopyState
    BY <1>2 DEF CopyState
  <2>3. DoneMeansRead(u)
    BY <1>2, <1>4 DEF DoneMeansRead, CopyState
  <2>4. TimerBehindSilence(u)
    BY <1>2 DEF TimerBehindSilence, CopyState
  <2> HIDE DEF u
  <2> QED
    BY <1>1, <2>1, <2>2, <2>3, <2>4, CopyStep
<1>5. CASE PeerTakes(p, d)
  <2> DEFINE u == [t EXCEPT !.held = [t.held EXCEPT ![d] = 0]]
  <2>1. tunnel' = [tunnel EXCEPT ![p] = u]
    BY <1>5 DEF PeerTakes
  <2>2. u \in CopyState
    BY <1>2 DEF CopyState
  <2>3. DoneMeansRead(u) /\ TimerBehindSilence(u)
    BY <1>2 DEF DoneMeansRead, TimerBehindSilence, CopyState
  <2> HIDE DEF u
  <2> QED
    BY <1>1, <2>1, <2>2, <2>3, CopyStep
<1> QED
  BY <1>3, <1>4, <1>5

LEMMA ReadInv ==
  ASSUME TunnelInv, NEW p \in Peers, NEW d \in Directions,
         CopyReads(p, d) \/ CopyReadsEof(p, d)
  PROVE  TunnelInv'
<1> DEFINE t == tunnel[p]
<1>1. t.at = "copy" /\ mode' = mode
  BY DEF CopyReads, CopyReadsEof
<1>2. t \in CopyState /\ DoneMeansRead(t) /\ TimerBehindSilence(t)
  BY <1>1, StateByAt DEF TunnelInv
<1>3. CASE CopyReads(p, d)
  <2> DEFINE u == [t EXCEPT !.read = [t.read EXCEPT ![d] = t.read[d] + 1],
                            !.turn = "write", !.dir = d, !.idle = 0, !.io = 0,
                            !.silent = 0]
  <2>1. tunnel' = [tunnel EXCEPT ![p] = u]
    BY <1>3, Zenon DEF CopyReads
  <2>2. u \in CopyState
    <3> DEFINE more == [t.read EXCEPT ![d] = t.read[d] + 1]
    <3>1. more \in [Directions -> Nat]
      BY <1>2 DEF CopyState
    <3> HIDE DEF more
    <3>2. u = [t EXCEPT !.read = more, !.turn = "write", !.dir = d, !.idle = 0, !.io = 0,
                        !.silent = 0]
      BY Zenon DEF more
    <3> QED
      BY <1>2, <3>1, <3>2 DEF CopyState
  <2>3. DoneMeansRead(u)
    <3>1. ~ t.done[d]
      BY <1>3 DEF CopyReads
    <3>2. /\ u.done = t.done /\ u.eof = t.eof /\ u.sent = t.sent
          /\ \A c \in Directions \ {d} : u.read[c] = t.read[c]
      BY <1>2 DEF CopyState
    <3> HIDE DEF u
    <3> QED
      BY <1>2, <3>1, <3>2 DEF DoneMeansRead
  <2>4. TimerBehindSilence(u)
    BY <1>2 DEF TimerBehindSilence, CopyState
  <2> HIDE DEF u
  <2> QED
    BY <1>1, <2>1, <2>2, <2>3, <2>4, CopyStep
<1>4. CASE CopyReadsEof(p, d)
  <2> DEFINE u == [t EXCEPT !.done = [t.done EXCEPT ![d] = TRUE],
                            !.turn = "shutdown", !.dir = d, !.idle = 0]
  <2>1. tunnel' = [tunnel EXCEPT ![p] = u]
    BY <1>4, Zenon DEF CopyReadsEof
  <2>2. u \in CopyState
    BY <1>2 DEF CopyState
  <2>3. DoneMeansRead(u)
    <3>1. t.eof[d] /\ t.sent[d] = t.read[d]
      BY <1>4 DEF CopyReadsEof
    <3>2. /\ u.read = t.read /\ u.eof = t.eof /\ u.sent = t.sent
          /\ \A c \in Directions \ {d} : u.done[c] = t.done[c]
      BY <1>2 DEF CopyState
    <3> HIDE DEF u
    <3> QED
      BY <1>2, <3>1, <3>2 DEF DoneMeansRead
  <2>4. TimerBehindSilence(u)
    BY <1>2 DEF TimerBehindSilence, CopyState
  <2> HIDE DEF u
  <2> QED
    BY <1>1, <2>1, <2>2, <2>3, <2>4, CopyStep
<1> QED
  BY <1>3, <1>4

LEMMA WriteInv ==
  ASSUME TunnelInv, NEW p \in Peers, CopyWrites(p) \/ CopyShutsDown(p)
  PROVE  TunnelInv'
<1> DEFINE t == tunnel[p]
<1>1. t.at = "copy" /\ mode' = mode
  BY DEF CopyWrites, CopyShutsDown
<1>2. t \in CopyState /\ DoneMeansRead(t) /\ TimerBehindSilence(t)
  BY <1>1, StateByAt DEF TunnelInv
<1>3. CASE CopyWrites(p)
  <2> DEFINE u == [t EXCEPT !.held = [t.held EXCEPT ![t.dir] = 1], !.turn = "select"]
  <2>1. tunnel' = [tunnel EXCEPT ![p] = u]
    BY <1>3, Zenon DEF CopyWrites
  <2>2. u \in CopyState
    BY <1>2 DEF CopyState
  <2>3. DoneMeansRead(u) /\ TimerBehindSilence(u)
    BY <1>2 DEF DoneMeansRead, TimerBehindSilence, CopyState
  <2> HIDE DEF u
  <2> QED
    BY <1>1, <2>1, <2>2, <2>3, CopyStep
<1>4. CASE CopyShutsDown(p) /\ CopyDone(t)
  <2>1. t.turn = "shutdown" /\ Close(p, "clean", Undelivered(t))
    BY <1>4 DEF CopyShutsDown
  <2>2. \A d \in Directions : t.sent[d] = t.read[d] /\ t.sent[d] \in Nat
    BY <1>2, <1>4 DEF CopyDone, DoneMeansRead, CopyState, Directions
  <2>3. ~ Undelivered(t) /\ Undelivered(t) \in BOOLEAN
    BY <2>1, <2>2 DEF Undelivered
  <2>4. Close(p, "clean", FALSE)
    BY <2>1, <2>3
  <2> QED
    BY <1>1, <2>4, CloseStep
<1>5. CASE CopyShutsDown(p) /\ ~ CopyDone(t)
  <2> DEFINE u == [t EXCEPT !.turn = "select"]
  <2>1. tunnel' = [tunnel EXCEPT ![p] = u]
    BY <1>5, Zenon DEF CopyShutsDown
  <2>2. u \in CopyState
    BY <1>2 DEF CopyState
  <2>3. DoneMeansRead(u) /\ TimerBehindSilence(u)
    BY <1>2 DEF DoneMeansRead, TimerBehindSilence, CopyState
  <2> HIDE DEF u
  <2> QED
    BY <1>1, <2>1, <2>2, <2>3, CopyStep
<1> QED
  BY <1>3, <1>4, <1>5

LEMMA TimeoutInv ==
  ASSUME TunnelInv, NEW p \in Peers, WriteTimesOut(p) \/ IdleTimesOut(p) \/ CopyFails(p)
  PROVE  TunnelInv'
<1> DEFINE t == tunnel[p]
<1>1. t.at = "copy" /\ mode' = mode
  BY DEF WriteTimesOut, IdleTimesOut, CopyFails
<1>2. t \in CopyState /\ TimerBehindSilence(t)
  BY <1>1, StateByAt DEF TunnelInv
<1>3. CASE IdleTimesOut(p)
  <2>1. t.idle \in Nat /\ t.silent \in Nat /\ t.idle <= t.silent /\ IdleTimeout \in Nat
    BY <1>2, TunnelAssumption DEF CopyState, TimerBehindSilence
  <2>2. t.idle >= IdleTimeout /\ Close(p, "idle", t.silent < IdleTimeout)
    BY <1>3 DEF IdleTimesOut
  <2>3. ~ (t.silent < IdleTimeout) /\ (t.silent < IdleTimeout) \in BOOLEAN
    BY <2>1, <2>2
  <2>4. Close(p, "idle", FALSE)
    BY <2>2, <2>3
  <2> QED
    BY <1>1, <2>4, CloseStep
<1>4. CASE WriteTimesOut(p)
  BY <1>1, <1>4, CloseStep DEF WriteTimesOut
<1>5. CASE CopyFails(p)
  BY <1>1, <1>5, CloseStep DEF CopyFails
<1> QED
  BY <1>3, <1>4, <1>5
(* The steps that concern every task. *)
LEMMA EveryTask ==
  ASSUME TunnelInv, tunnel' = [p \in Peers |-> tunnel'[p]], mode' = mode,
         \A p \in Peers : Sound(tunnel'[p]) /\ (InFlight(tunnel'[p]) => InFlight(tunnel[p]))
  PROVE  TunnelInv'
<1>1. tunnel' \in [Peers -> {tunnel'[q] : q \in Peers}]
  OBVIOUS
<1>2. Cardinality(Busy(tunnel')) <= MaxConnections
  BY BusyShrinks DEF TunnelInv
<1> QED
  BY <1>1, <1>2 DEF TunnelInv, Busy, Sound, InFlight

LEMMA LaterType ==
  ASSUME NEW n \in Nat, NEW limit \in Nat
  PROVE  /\ Later(n, limit) \in Nat /\ n <= Later(n, limit)
         /\ \A m \in Nat : n <= m => Later(n, limit) <= Later(m, limit)
BY DEF Later

LEMMA TickInv ==
  ASSUME TunnelInv, TunnelTick
  PROVE  TunnelInv'
<1> DEFINE Ticked(t) == [t EXCEPT
               !.idle = IF t.turn = "select" THEN Later(t.idle, IdleTimeout) ELSE t.idle,
               !.io = IF t.turn = "write" THEN Later(t.io, CopyIoTimeout) ELSE t.io,
               !.silent = Later(t.silent, IdleTimeout)]
           F(p) == IF tunnel[p].at # "copy" THEN tunnel[p] ELSE Ticked(tunnel[p])
<1>1. tunnel' = [p \in Peers |-> F(p)] /\ mode' = mode
  BY Zenon DEF TunnelTick
<1>2. ASSUME NEW p \in Peers, tunnel[p].at = "copy"
      PROVE  Sound(Ticked(tunnel[p])) /\ InFlight(tunnel[p])
  <2> DEFINE t == tunnel[p]
             u == Ticked(t)
  <2>1. t \in CopyState /\ DoneMeansRead(t) /\ TimerBehindSilence(t)
    BY <1>2, StateByAt DEF TunnelInv
  <2>2. t.idle \in Nat /\ t.io \in Nat /\ t.silent \in Nat /\ t.idle <= t.silent
        /\ IdleTimeout \in Nat /\ CopyIoTimeout \in Nat
    BY <2>1, TunnelAssumption DEF CopyState, TimerBehindSilence
  <2>3. /\ Later(t.idle, IdleTimeout) \in Nat /\ Later(t.io, CopyIoTimeout) \in Nat
        /\ Later(t.silent, IdleTimeout) \in Nat
        /\ t.silent <= Later(t.silent, IdleTimeout)
        /\ Later(t.idle, IdleTimeout) <= Later(t.silent, IdleTimeout)
    BY <2>2, LaterType
  <2>4. u \in CopyState
    BY <2>1, <2>2, <2>3 DEF CopyState
  <2>5. u.sent = t.sent /\ u.read = t.read /\ u.eof = t.eof /\ u.done = t.done
    BY <2>1 DEF CopyState
  <2>6. /\ u.idle \in {t.idle, Later(t.idle, IdleTimeout)}
        /\ u.silent = Later(t.silent, IdleTimeout)
    BY <2>1 DEF CopyState
  <2> HIDE DEF u
  <2>7. DoneMeansRead(u)
    BY <2>1, <2>5 DEF DoneMeansRead
  <2>8. TimerBehindSilence(u)
    BY <2>2, <2>3, <2>6 DEF TimerBehindSilence
  <2>9. Sound(u)
    BY <2>4, <2>7, <2>8 DEF Sound
  <2> QED
    BY <1>2, <2>9 DEF u, InFlight
<1>3. \A p \in Peers : Sound(F(p)) /\ (InFlight(F(p)) => InFlight(tunnel[p]))
  BY <1>2 DEF TunnelInv
<1> HIDE DEF F
<1>4. tunnel' = [p \in Peers |-> tunnel'[p]] /\ \A p \in Peers : tunnel'[p] = F(p)
  BY <1>1
<1> QED
  BY <1>1, <1>3, <1>4, EveryTask

LEMMA TunnelStepInv == TunnelInv /\ [TunnelNext]_tunnelVars => TunnelInv'
<1> SUFFICES ASSUME TunnelInv, [TunnelNext]_tunnelVars PROVE TunnelInv'
  OBVIOUS
<1>1. ASSUME NEW p \in Peers,
             \/ Accept(p) \/ SetupStep(p) \/ SetupFails(p)
             \/ \E d \in Directions : PeerSends(p, d) \/ PeerCloses(p, d)
                                      \/ PeerTakes(p, d)
             \/ TaskStep(p)
             \/ CopyFails(p)
      PROVE  TunnelInv'
  BY <1>1, AcceptInv, SetupInv, PeerInv, ReadInv, WriteInv, TimeoutInv, Zenon DEF TaskStep
<1>2. CASE ShutdownSignal
  BY <1>2 DEF ShutdownSignal, TunnelInv
<1>3. CASE Exit
  <2> DEFINE F(p) == IF InFlight(tunnel[p]) THEN Over("aborted") ELSE tunnel[p]
  <2>1. tunnel' = [p \in Peers |-> F(p)] /\ mode' = mode
    BY <1>3, Zenon DEF Exit
  <2>2. Sound(Over("aborted")) /\ ~ InFlight(Over("aborted"))
    BY OverSound
  <2>3. \A p \in Peers : Sound(F(p)) /\ (InFlight(F(p)) => InFlight(tunnel[p]))
    BY <2>2 DEF TunnelInv
  <2> HIDE DEF F
  <2>4. tunnel' = [p \in Peers |-> tunnel'[p]] /\ \A p \in Peers : tunnel'[p] = F(p)
    BY <2>1
  <2> QED
    BY <2>1, <2>3, <2>4, EveryTask
<1>4. CASE TunnelTick
  BY <1>4, TickInv
<1>5. CASE UNCHANGED tunnelVars
  BY <1>5 DEF tunnelVars, TunnelInv
<1> QED
  BY <1>1, <1>2, <1>3, <1>4, <1>5 DEF TunnelNext

LEMMA TunnelInvHolds == TunnelSpec => []TunnelInv
BY TunnelInitInv, TunnelStepInv, PTL DEF TunnelSpec

-----------------------------------------------------------------------------
(* The theorems.                                                            *)

(***************************************************************************)
(* Whatever either peer sends, in whatever order the two directions end and *)
(* the chunks are read, written and taken, a tunnel whose loop ends by      *)
(* itself has written all of it (main.rs, copy_bidirectional_idle).         *)
(***************************************************************************)
THEOREM CleanCloseNeverLoses == TunnelSpec => []CleanCloseLosesNothing
<1>1. TunnelInv => CleanCloseLosesNothing
  BY StateByAt DEF TunnelInv, EndsWell, CleanCloseLosesNothing
<1> QED
  BY <1>1, TunnelInvHolds, PTL

(***************************************************************************)
(* For any timeouts, a tunnel is closed as idle only when no chunk has been *)
(* read for IDLE_TIMEOUT (main.rs, copy_bidirectional_idle).                *)
(***************************************************************************)
THEOREM IdleAlwaysMeansIdle == TunnelSpec => []IdleMeansIdle
<1>1. TunnelInv => IdleMeansIdle
  BY StateByAt DEF TunnelInv, EndsWell, IdleMeansIdle
<1> QED
  BY <1>1, TunnelInvHolds, PTL

(***************************************************************************)
(* However peers come and go, the tasks that hold a permit, those still in  *)
(* TLS or dialling included, are never more than --max-connections          *)
(* (main.rs, the semaphore of the accept loops).                            *)
(***************************************************************************)
THEOREM ConnectionsStayBounded ==
    TunnelSpec => [](Cardinality({p \in Peers : InFlight(tunnel[p])}) <= MaxConnections)
<1>1. TunnelInv => Cardinality({p \in Peers : InFlight(tunnel[p])}) <= MaxConnections
  BY DEF TunnelInv, Busy
<1> QED
  BY <1>1, TunnelInvHolds, PTL

-----------------------------------------------------------------------------

-----------------------------------------------------------------------------
(***************************************************************************)
(* Nicknames                                                               *)
(***************************************************************************)

(* What load returns is an overlay. *)
LEMMA LoadType ==
  ASSUME NEW d \in [ok : BOOLEAN, names : Overlay]
  PROVE  load(d) \in Overlay
BY DEF load, NoNicknames, Overlay

(* The initial state is well typed. *)
LEMMA InitTypeOK == Init => TypeOK
<1> SUFFICES ASSUME Init PROVE TypeOK
  OBVIOUS
<1>1. NoRequest \in Request /\ NoNicknames \in Overlay
  BY DEF NoRequest, Request, Steps, NoNicknames, Overlay
<1>2. requests \in 0..MaxRequests /\ crashes \in 0..MaxCrashes
  BY NicknamesAssumption DEF Init
<1>3. disk \in [ok : BOOLEAN, names : Overlay] /\ held \subseteq Overlay
  BY <1>1 DEF Init
<1>4. /\ req \in [Clients -> Request] /\ reply \in [Clients -> {"none", "ok", "error"}]
      /\ up \in BOOLEAN /\ failed \in BOOLEAN
  BY <1>1 DEF Init
<1> QED
  BY <1>1, <1>2, <1>3, <1>4 DEF Init, TypeOK

(* Every step keeps the state well typed. *)
LEMMA NextTypeOK == TypeOK /\ [Next]_vars => TypeOK'
<1> SUFFICES ASSUME TypeOK, [Next]_vars PROVE TypeOK'
  OBVIOUS
<1>n. NoRequest \in Request /\ NoNicknames \in Overlay
  BY DEF NoRequest, Request, Steps, NoNicknames, Overlay
<1>q. /\ req \in [Clients -> Request] /\ nicknames \in Overlay
      /\ reply \in [Clients -> {"none", "ok", "error"}]
      /\ disk \in [ok : BOOLEAN, names : Overlay]
      /\ requests \in 0..MaxRequests /\ crashes \in 0..MaxCrashes
  BY DEF TypeOK
<1>g. ASSUME NEW c \in Clients, NEW step \in Steps, Goto(c, step)
      PROVE  req' \in [Clients -> Request]
  BY <1>g, <1>q DEF Goto, Request
<1>f. ASSUME NEW c \in Clients, Finish(c) PROVE req' \in [Clients -> Request]
  BY <1>f, <1>q, <1>n DEF Finish
<1>a. ASSUME NEW c \in Clients, NEW r \in {"none", "ok", "error"}, Answer(c, r)
      PROVE  reply' \in [Clients -> {"none", "ok", "error"}]
  BY <1>a, <1>q DEF Answer
<1>1. CASE Start
  <2>a. disk' = disk \/ disk' = [ok |-> TRUE, names |-> NoNicknames]
    BY <1>1, Zenon DEF Start
  <2>1. disk' \in [ok : BOOLEAN, names : Overlay]
    <3>1. [ok |-> TRUE, names |-> NoNicknames] \in [ok : BOOLEAN, names : Overlay]
      BY <1>n
    <3>2. disk \in [ok : BOOLEAN, names : Overlay]
      BY DEF TypeOK
    <3> QED
      BY <2>a, <3>1, <3>2, Zenon
  <2>2. nicknames' \in Overlay
    BY <1>1, <1>n, LoadType DEF Start, TypeOK
  <2>3. failed' \in BOOLEAN
    BY <1>1 DEF Start
  <2> QED
    BY <1>1, <2>1, <2>2, <2>3 DEF Start, TypeOK, bounds
<1>2. CASE Crash
  <2>1. crashes' \in 0..MaxCrashes
    BY <1>2, <1>q, NicknamesAssumption DEF Crash
  <2>2. req' \in [Clients -> Request] /\ reply' \in [Clients -> {"none", "ok", "error"}]
    BY <1>2, <1>n DEF Crash
  <2> QED
    BY <1>2, <2>1, <2>2 DEF Crash, TypeOK
<1>3. ASSUME NEW c \in Clients, Reject(c) PROVE TypeOK'
  BY <1>3, <1>a, NicknamesAssumption DEF Reject, TypeOK
<1>4. ASSUME NEW c \in Clients, NEW d \in Devices, NEW input \in Names \cup {None, Blank},
             Apply(c, d, input)
      PROVE  TypeOK'
  <2>1. [nicknames EXCEPT ![d] = validate_nickname(input)] \in Overlay
    BY <1>q DEF Overlay, validate_nickname
  <2>2. req' \in [Clients -> Request]
    BY <1>4, <1>q, <1>n DEF Apply, NoRequest, Request, Steps
  <2>3. reply' \in [Clients -> {"none", "ok", "error"}]
    BY <1>4, <1>a DEF Apply
  <2>a. requests < MaxRequests /\ requests' = requests + 1
    BY <1>4, Zenon DEF Apply
  <2>4. requests' \in 0..MaxRequests
    BY <2>a, <1>q, NicknamesAssumption
  <2> QED
    BY <1>4, <2>1, <2>2, <2>3, <2>4 DEF Apply, TypeOK
<1>5. ASSUME NEW c \in Clients, Snapshot(c) \/ Build(c) PROVE TypeOK'
  <2>1. req' \in [Clients -> Request]
    <3>1. CASE Snapshot(c)
      BY <3>1, <1>q, ZenonT(30) DEF Snapshot, Request, Steps
    <3>2. CASE Build(c)
      BY <3>2, <1>q, ZenonT(30) DEF Build, Request, Steps
    <3> QED
      BY <1>5, <3>1, <3>2
  <2> QED
    BY <1>5, <2>1 DEF Snapshot, Build, TypeOK, bounds
<1>6. ASSUME NEW c \in Clients, WriteTmp(c) \/ Confirm(c) PROVE TypeOK'
  BY <1>6, <1>g, <1>a DEF WriteTmp, Confirm, TypeOK, Steps, bounds
<1>7. ASSUME NEW c \in Clients, Rename(c) PROVE TypeOK'
  <2>1. disk' \in [ok : BOOLEAN, names : Overlay]
    BY <1>7, <1>q DEF Rename, Request
  <2> QED
    BY <1>7, <1>g, <2>1 DEF Rename, TypeOK, Steps, bounds
<1>8. ASSUME NEW c \in Clients, SaveFails(c) \/ ConfirmFails(c) PROVE TypeOK'
  BY <1>8, <1>f, <1>a DEF SaveFails, ConfirmFails, TypeOK, bounds
<1>9. ASSUME NEW c \in Clients, Broadcast(c) PROVE TypeOK'
  <2>1. req[c].snap \in Overlay
    BY <1>q DEF Request
  <2> QED
    BY <1>9, <1>f, <2>1 DEF Broadcast, TypeOK, bounds
<1>10. CASE UNCHANGED vars
  BY <1>10 DEF vars, TypeOK
<1> QED
  BY <1>1, <1>2, <1>3, <1>4, <1>5, <1>6, <1>7, <1>8, <1>9, <1>10 DEF Next, Handler

(* The state of the registry, the file and every request is well typed. *)
THEOREM TypeCorrect == Spec => []TypeOK
BY InitTypeOK, NextTypeOK, PTL DEF Spec

-----------------------------------------------------------------------------
FileInv == TypeOK /\ SnapshotsHeld

(* The first file is one of the overlays held; it need not parse. *)
LEMMA InitFile == Init => FileInv
<1> SUFFICES ASSUME Init PROVE FileInv
  OBVIOUS
<1>1. TypeOK
  BY InitTypeOK
<1> QED
  BY <1>1 DEF FileInv, SnapshotsHeld, Init, NoRequest

(* Every step leaves a file, and snapshots, that were held. *)
LEMMA NextFile == FileInv /\ [Next]_vars => FileInv'
<1> SUFFICES ASSUME FileInv, [Next]_vars PROVE FileInv'
  OBVIOUS
<1>t. TypeOK /\ TypeOK'
  BY NextTypeOK DEF FileInv
<1> SUFFICES SnapshotsHeld'
  BY <1>t DEF FileInv
<1>q. /\ req \in [Clients -> Request] /\ crashes \in Nat
      /\ disk \in [ok : BOOLEAN, names : Overlay]
  BY <1>t, NicknamesAssumption DEF TypeOK
<1>r. \A c \in Clients : req[c] \in Request
  BY <1>q
<1> USE <1>q, <1>r DEF FileInv, SnapshotsHeld
<1>1. CASE Start
  BY <1>1 DEF Start, load, bounds
<1>2. CASE Crash
  BY <1>2 DEF Crash, NoRequest
<1>3. ASSUME NEW c \in Clients, Reject(c) PROVE SnapshotsHeld'
  BY <1>3 DEF Reject
<1>4. ASSUME NEW c \in Clients, NEW d \in Devices, NEW input \in Names \cup {None, Blank},
             Apply(c, d, input)
      PROVE  SnapshotsHeld'
  <2>1. /\ UNCHANGED <<up, disk, crashes>> /\ held \subseteq held' /\ nicknames' \in held'
        /\ req'[c].step = "applied"
    BY <1>4 DEF Apply, NoRequest
  <2>2. \A b \in Clients \ {c} : req'[b].step = req[b].step /\ req'[b].snap = req[b].snap
    BY <1>4 DEF Apply, Request
  <2> QED
    BY <2>1, <2>2
<1>5. ASSUME NEW c \in Clients, Snapshot(c) \/ Build(c)
      PROVE  SnapshotsHeld'
  <2>1. /\ UNCHANGED <<up, nicknames, disk, held, crashes>> /\ req'[c].snap = nicknames
        /\ \A b \in Clients \ {c} : req'[b] = req[b]
    BY <1>5 DEF Snapshot, Build, bounds, Request
  <2> QED
    BY <2>1
<1>6. ASSUME NEW c \in Clients, WriteTmp(c) PROVE SnapshotsHeld'
  <2>1. /\ UNCHANGED <<up, nicknames, disk, held, crashes>> /\ req[c].step = "snapped"
        /\ req'[c].snap = req[c].snap /\ \A b \in Clients \ {c} : req'[b] = req[b]
    BY <1>6 DEF WriteTmp, Goto, At, bounds, Request
  <2> QED
    BY <2>1
<1>7. ASSUME NEW c \in Clients, Rename(c) \/ Confirm(c) PROVE SnapshotsHeld'
  <2>1. /\ UNCHANGED <<up, nicknames, held, crashes>>
        /\ req'[c].step \in {"saved", "confirmed"} /\ \A b \in Clients \ {c} : req'[b] = req[b]
    BY <1>7 DEF Rename, Confirm, Goto, bounds, Request
  <2>2. disk' = disk \/ (disk'.ok /\ disk'.names = req[c].snap /\ req[c].step = "written")
    BY <1>7 DEF Rename, Confirm, At
  <2> QED
    BY <2>1, <2>2
<1>8. ASSUME NEW c \in Clients, SaveFails(c) \/ ConfirmFails(c) \/ Broadcast(c)
      PROVE  SnapshotsHeld'
  <2>1. /\ UNCHANGED <<up, nicknames, disk, held, crashes>>
        /\ req' = [req EXCEPT ![c] = NoRequest]
    BY <1>8 DEF SaveFails, ConfirmFails, Broadcast, Finish, bounds
  <2> QED
    BY <2>1 DEF NoRequest
<1>9. CASE UNCHANGED vars
  BY <1>9 DEF vars
<1> QED
  BY <1>1, <1>2, <1>3, <1>4, <1>5, <1>6, <1>7, <1>8, <1>9 DEF Next, Handler

(* Wherever a crash or an I/O error strikes, hardware.json goes on parsing   *)
(* and holds one whole overlay: atomic_write_json is atomic, however many    *)
(* SetNickname requests save at once.                                        *)
THEOREM FileAlwaysWhole == Spec => FileIsWhole
<1>1. FileInv /\ [Next]_vars => [(disk.ok => disk'.ok) /\ disk'.names \in held']_vars
  <2> SUFFICES ASSUME FileInv, Next PROVE (disk.ok => disk'.ok) /\ disk'.names \in held'
    BY DEF vars
  <2>1. disk'.names \in held'
    BY NextFile DEF FileInv, SnapshotsHeld
  <2>2. disk' = disk \/ disk'.ok \/ ~disk.ok
    <3>1. CASE Start
      BY <3>1 DEF Start
    <3>2. CASE Crash
      BY <3>2 DEF Crash
    <3>3. ASSUME NEW c \in Clients, Handler(c) PROVE disk' = disk \/ disk'.ok
      <4>1. CASE Rename(c)
        BY <4>1 DEF Rename
      <4>2. ASSUME NEW d \in Devices, NEW input \in Names \cup {None, Blank}, Apply(c, d, input)
            PROVE  disk' = disk
        BY <4>2, Zenon DEF Apply
      <4>3. CASE Reject(c) \/ Snapshot(c) \/ WriteTmp(c) \/ SaveFails(c) \/ Confirm(c)
                 \/ ConfirmFails(c) \/ Build(c) \/ Broadcast(c)
        BY <4>3 DEF Reject, Snapshot, WriteTmp, SaveFails, Confirm, ConfirmFails, Build, Broadcast
      <4> QED
        BY <3>3, <4>1, <4>2, <4>3 DEF Handler
    <3> QED
      BY <3>1, <3>2, <3>3 DEF Next
  <2> QED
    BY <2>1, <2>2
<1> QED
  BY <1>1, InitFile, NextFile, PTL DEF Spec, FileIsWhole

-----------------------------------------------------------------------------
SoloInv == TypeOK /\ AloneInStep

(* Every step keeps a lone request's registry, snapshot and file in step. *)
LEMMA NextSolo == SoloInv /\ [Next]_vars => SoloInv'
<1> SUFFICES ASSUME SoloInv, [Next]_vars PROVE SoloInv'
  OBVIOUS
<1>t. TypeOK /\ TypeOK'
  BY NextTypeOK DEF SoloInv
<1> SUFFICES AloneInStep'
  BY <1>t DEF SoloInv
<1>q. req \in [Clients -> Request]
  BY <1>t DEF TypeOK
<1>r. \A c \in Clients : req[c] \in Request
  BY <1>q
<1>i. AloneInStep
  BY DEF SoloInv
<1> USE <1>q, <1>r, <1>i DEF AloneInStep, Active
<1>1. CASE Start
  <2>1. req' = req /\ \A c \in Clients : req[c].step = "idle"
    BY <1>1 DEF Start
  <2> QED
    BY <2>1
<1>2. CASE Crash
  <2>1. \A c \in Clients : req'[c].step = "idle"
    BY <1>2 DEF Crash, NoRequest
  <2> QED
    BY <2>1
<1>3. CASE UNCHANGED <<up, nicknames, disk, req>>
  BY <1>3
<1>4. ASSUME NEW c \in Clients, NEW d \in Devices, NEW input \in Names \cup {None, Blank},
             Apply(c, d, input)
      PROVE  AloneInStep'
  <2>1. up' /\ req'[c].step = "applied"
    BY <1>4 DEF Apply, At, NoRequest
  <2>2. ASSUME NEW b \in Clients \ {c} PROVE req'[b].step = req[b].step
    BY <1>4 DEF Apply, Request
  <2>3. ASSUME NEW b \in Clients \ {c}, req'[b].step # "idle"
        PROVE  req'[b].alone = FALSE
    <3>1. req'[b] = [req[b] EXCEPT !.alone = (b \notin Active)]
      BY <1>4, Zenon DEF Apply
    <3>2. (b \notin Active) = FALSE
      BY <2>2, <2>3
    <3>3. req'[b] = [req[b] EXCEPT !.alone = FALSE]
      BY <3>1, <3>2, Zenon
    <3> QED
      BY <3>3 DEF Request
  <2>4. ASSUME NEW b \in Clients \ {c}, req'[b].step # "idle"
        PROVE  req'[c].alone = FALSE
    <3>1. req'[c] = [NoRequest EXCEPT !.step = "applied", !.alone = (Active = {})]
      BY <1>4, Zenon DEF Apply
    <3>2. (Active = {}) = FALSE
      BY <2>2, <2>4
    <3>3. req'[c] = [NoRequest EXCEPT !.step = "applied", !.alone = FALSE]
      BY <3>1, <3>2, Zenon
    <3> QED
      BY <3>3 DEF NoRequest
  <2> QED
    BY <2>1, <2>3, <2>4
<1>5. ASSUME NEW c \in Clients, NEW step \in Steps, up, up', req[c].step # "idle",
             nicknames' = nicknames,
             req'[c].step = step, req'[c].alone = req[c].alone,
             \A b \in Clients \ {c} : req'[b] = req[b],
             step \in {"snapped", "written", "built"} /\ req[c].alone => req'[c].snap = nicknames,
             step \in {"saved", "confirmed", "built"} /\ req[c].alone => disk'.names = nicknames,
             disk' = disk \/ req[c].step = "written"
      PROVE  AloneInStep'
  BY <1>5
<1>6. ASSUME NEW c \in Clients, Snapshot(c) \/ Build(c) PROVE AloneInStep'
  <2>1. CASE Snapshot(c)
    BY <1>5, <2>1, SMTT(60) DEF Snapshot, At, Request, Steps
  <2>2. CASE Build(c)
    BY <1>5, <2>2 DEF Build, At, Request, Steps
  <2> QED
    BY <1>6, <2>1, <2>2
<1>7. ASSUME NEW c \in Clients, WriteTmp(c) PROVE AloneInStep'
  BY <1>5, <1>7 DEF WriteTmp, Goto, At, Request, Steps
<1>8. ASSUME NEW c \in Clients, Rename(c) PROVE AloneInStep'
  BY <1>5, <1>8 DEF Rename, Goto, At, Request, Steps
<1>9. ASSUME NEW c \in Clients, Confirm(c) PROVE AloneInStep'
  BY <1>5, <1>9 DEF Confirm, Goto, At, Request, Steps
<1>10. ASSUME NEW c \in Clients, SaveFails(c) \/ ConfirmFails(c) \/ Broadcast(c)
       PROVE  AloneInStep'
  <2>1. /\ up /\ UNCHANGED <<up, nicknames, disk>> /\ req' = [req EXCEPT ![c] = NoRequest]
    BY <1>10 DEF SaveFails, ConfirmFails, Broadcast, Finish, At
  <2> QED
    BY <2>1 DEF NoRequest
<1>11. CASE (\E c \in Clients : Reject(c)) \/ UNCHANGED vars
  BY <1>3, <1>11 DEF Reject, vars
<1> QED
  BY <1>1, <1>2, <1>4, <1>6, <1>7, <1>8, <1>9, <1>10, <1>11 DEF Next, Handler

(* A SetNickname that completes without another overlapping it leaves the    *)
(* registry, hardware.json and the broadcast catalogue saying the same, after*)
(* any history of failed saves, races and crashes.                           *)
THEOREM SoloRequestsTakeHold == Spec => SoloRequestTakesHold
<1>1. Init => SoloInv
  <2> SUFFICES ASSUME Init PROVE SoloInv
    OBVIOUS
  <2>1. TypeOK
    BY InitTypeOK
  <2> QED
    BY <2>1 DEF SoloInv, AloneInStep, Active, Init, NoRequest
<1>2. SoloInv /\ [Next]_vars =>
        [\A c \in Clients :
           req[c].step = "built" /\ req'[c].step = "idle" /\ up' /\ req[c].alone
           => shown' = nicknames' /\ disk'.names = nicknames']_vars
  <2> SUFFICES ASSUME SoloInv, Next, NEW c \in Clients,
                      req[c].step = "built", req'[c].step = "idle", up', req[c].alone
               PROVE  shown' = nicknames' /\ disk'.names = nicknames'
    BY DEF vars
  <2>q. /\ req \in [Clients -> Request] /\ \A b \in Clients : req[b] \in Request
        /\ \A b \in Clients \ {c} : req[b].step = "idle"
        /\ up /\ req[c].snap = nicknames /\ disk.names = nicknames
    BY DEF SoloInv, TypeOK, AloneInStep, Active
  <2>1. CASE Start \/ Crash
    BY <2>1, <2>q DEF Start, Crash
  <2>2. ASSUME NEW b \in Clients, Handler(b), b # c PROVE FALSE
    <3>1. \/ Reject(b)
          \/ \E d \in Devices, input \in Names \cup {None, Blank} : Apply(b, d, input)
      BY <2>2, <2>q DEF Handler, Snapshot, WriteTmp, Rename, SaveFails, Confirm, ConfirmFails,
         Build, Broadcast, At
    <3>2. CASE Reject(b)
      BY <3>2, <2>q DEF Reject
    <3>3. ASSUME NEW d \in Devices, NEW input \in Names \cup {None, Blank}, Apply(b, d, input)
          PROVE  FALSE
      <4>1. req'[c] = [req[c] EXCEPT !.alone = (c \notin Active)]
        BY <2>2, <3>3 DEF Apply
      <4> QED
        BY <4>1, <2>q DEF Request
    <3> QED
      BY <3>1, <3>2, <3>3
  <2>3. CASE Handler(c)
    <3>1. Broadcast(c)
      BY <2>3, <2>q DEF Handler, Reject, Apply, Snapshot, WriteTmp, Rename, SaveFails, Confirm,
         ConfirmFails, Build, At
    <3> QED
      BY <3>1, <2>q DEF Broadcast
  <2> QED
    BY <2>1, <2>2, <2>3 DEF Next
<1> QED
  BY <1>1, <1>2, NextSolo, PTL DEF Spec, SoloRequestTakesHold

-----------------------------------------------------------------------------
(***************************************************************************)
(* Prom                                                                    *)
(***************************************************************************)

-----------------------------------------------------------------------------
(* Prom: what a scrape holds, and what its answer is made of.                *)

(* Threads stay within the cap; the scheduler mutex is a scrape's only while *)
(* it copies the targets or the host, so no plugin is ever sampled under it; and a body  *)
(* is of a scrape in which every plugin returned, with a device only on      *)
(* lines that have a sample and are bound to one.                            *)
Working == {"reading", "targets", "listing", "host", "copying", "sampling", "writing"}
WithMutex == {"listing", "copying"}
ScrapesStayApart ==
    /\ active <= MaxProm
    /\ \A c \in Scrapers : mutex = c => scrape[c].at \in WithMutex
    /\ \A c \in Scrapers : scrape[c].at = "ended" /\ scrape[c].status = "200" =>
           /\ \A i \in DOMAIN Targets : Targets[i] \notin hung
           /\ scrape[c].body.keyed = {i \in scrape[c].body.lines : Targets[i] \in Bound}

RowsOK(rows, h) ==
    /\ rows \in Seq(BOOLEAN) /\ Len(rows) <= Len(Targets)
    /\ \A i \in 1..Len(rows) : Targets[i] \notin h
ThreadOK(t, h) ==
    \/ t = Idle
    \/ /\ t = [at |-> t.at, rows |-> t.rows, label |-> t.label]
       /\ t.at \in Working /\ RowsOK(t.rows, h)
       /\ t.at = "writing" => Len(t.rows) = Len(Targets)
    \/ /\ t = [at |-> "ended", status |-> t.status, body |-> t.body]
       /\ t.status = "200" =>
              /\ \A i \in DOMAIN Targets : Targets[i] \notin h
              /\ t.body.keyed = {i \in t.body.lines : Targets[i] \in Bound}

PromInv ==
    /\ DOMAIN scrape = Scrapers /\ \A c \in Scrapers : ThreadOK(scrape[c], hung)
    /\ mutex \in {"free", Daemon} \cup Scrapers
    /\ \A c \in Scrapers : scrape[c].at \in WithMutex <=> mutex = c
    /\ active <= MaxProm

LEMMA LiveThreads ==
  PromInv => IsFiniteSet(Live) /\ active \in Nat
<1>1. Live \subseteq Scrapers
  BY DEF Live
<1>2. IsFiniteSet(Live)
  BY <1>1, PromAssumption, FS_Subset
<1> QED
  BY <1>2, FS_CardinalityType DEF active

(* A step of a thread that is counted.                                       *)
LEMMA ThreadKept ==
  ASSUME PromInv, NEW c \in Scrapers, NEW t, scrape[c].at \in Working,
         scrape' = [scrape EXCEPT ![c] = t], ThreadOK(t, hung),
         UNCHANGED hung, mutex' \in {"free", Daemon} \cup Scrapers,
         t.at \in WithMutex <=> mutex' = c,
         \A e \in Scrapers \ {c} : mutex' = e <=> mutex = e
  PROVE  PromInv'
<1>1. DOMAIN scrape' = Scrapers /\ scrape'[c] = t /\ \A e \in Scrapers \ {c} : scrape'[e] = scrape[e]
  BY DEF PromInv
<1>2. Live' \subseteq Live
  BY <1>1 DEF Live, Working
<1>3. active' <= active /\ active' \in Nat /\ active \in Nat
  <2>1. Cardinality(Live') <= Cardinality(Live) /\ IsFiniteSet(Live')
    BY <1>2, LiveThreads, FS_Subset
  <2> QED
    BY <2>1, LiveThreads, FS_CardinalityType DEF active
<1>4. active' <= MaxProm
  BY <1>3, PromAssumption DEF PromInv
<1> QED
  BY <1>1, <1>4 DEF PromInv

LEMMA AcceptKept ==
  ASSUME PromInv, NEW c \in Scrapers, AcceptScrape(c)
  PROVE  PromInv'
<1> DEFINE t == IF active >= MaxProm THEN Ended("503") ELSE Thread("reading", <<>>, "none")
<1>1. /\ scrape[c] = Idle /\ scrape' = [scrape EXCEPT ![c] = t] /\ UNCHANGED <<hung, mutex>>
  BY DEF AcceptScrape
<1>2. DOMAIN scrape' = Scrapers /\ scrape'[c] = t /\ \A e \in Scrapers \ {c} : scrape'[e] = scrape[e]
  BY <1>1 DEF PromInv
<1>3. ThreadOK(t, hung) /\ t.at \in {"reading", "ended"}
  <2>1. CASE active >= MaxProm
    BY <2>1 DEF Ended, ThreadOK
  <2>2. CASE ~ (active >= MaxProm)
    BY <2>2 DEF Thread, ThreadOK, Working, RowsOK
  <2> QED
    BY <2>1, <2>2
<1>4. IsFiniteSet(Live) /\ active \in Nat
  BY LiveThreads
<1>5. active' <= MaxProm
  <2>1. CASE active >= MaxProm
    <3>1. t.at = "ended"
      BY <2>1 DEF Ended
    <3>2. Live' = Live
      BY <1>1, <1>2, <3>1 DEF Live, Idle
    <3> QED
      BY <3>2 DEF PromInv, active
  <2>2. CASE ~ (active >= MaxProm)
    <3>1. t.at = "reading"
      BY <2>2 DEF Thread
    <3>2. Live' = Live \cup {c} /\ c \notin Live
      BY <1>1, <1>2, <3>1 DEF Live, Idle
    <3>3. active' = active + 1
      BY <1>4, <3>2, FS_AddElement DEF active
    <3> QED
      BY <1>4, <2>2, <3>3, PromAssumption
  <2> QED
    BY <2>1, <2>2
<1>6. scrape[c].at \notin WithMutex
  BY <1>1 DEF Idle, WithMutex
<1> HIDE DEF t
<1> QED
  BY <1>1, <1>2, <1>3, <1>5, <1>6 DEF PromInv, WithMutex

LEMMA ThreadStepKept ==
  ASSUME PromInv, NEW c \in Scrapers, ThreadStep(c)
  PROVE  PromInv'
<1> DEFINE t == scrape[c]
           Is(at, rows, label) == scrape'[c] = [at |-> at, rows |-> rows, label |-> label]
<1>1. t.at \in Working /\ UNCHANGED hung
  BY DEF ThreadStep, ReadRequest, TakeTargets, ReleaseTargets, TakeHost, ReleaseHost, SampleTarget,
         ReadRegistry, WriteResponse,
         Working
<1>2. /\ t = [at |-> t.at, rows |-> t.rows, label |-> t.label] /\ RowsOK(t.rows, hung)
      /\ t.at = "writing" => Len(t.rows) = Len(Targets)
  <2>1. ThreadOK(t, hung)
    BY DEF PromInv
  <2>2. t # Idle
    BY <1>1 DEF Idle, Working
  <2>3. t.at # "ended"
    BY <1>1 DEF Working
  <2> HIDE DEF t
  <2> QED
    BY <2>1, <2>2, <2>3 DEF ThreadOK
<1>3. "free" \notin Scrapers /\ Daemon \notin Scrapers
  BY PromAssumption DEF Daemon
<1>4. mutex \in {"free", Daemon} \cup Scrapers /\ (t.at \in WithMutex <=> mutex = c)
  BY DEF PromInv
<1>5. ASSUME NEW at \in Working, NEW rows, NEW label,
             RowsOK(rows, hung), at = "writing" => Len(rows) = Len(Targets)
      PROVE  ThreadOK(Thread(at, rows, label), hung) /\ Thread(at, rows, label).at = at
  BY <1>5 DEF ThreadOK, Thread
<1>6. ASSUME NEW status, status # "200"
      PROVE  ThreadOK(Ended(status), hung) /\ Ended(status).at = "ended"
  BY <1>6 DEF ThreadOK, Ended
<1>7. CASE \E kind \in RequestKinds : ReadRequest(c, kind)
  <2>1. PICK kind \in RequestKinds : ReadRequest(c, kind)
    BY <1>7
  <2> DEFINE x == IF kind = "metrics" THEN Thread("targets", <<>>, "none") ELSE Ended(kind)
  <2>2. scrape' = [scrape EXCEPT ![c] = x] /\ mutex' = mutex /\ t.at = "reading"
    BY <2>1 DEF ReadRequest
  <2>3. ThreadOK(x, hung) /\ x.at \notin WithMutex
    <3>1. RowsOK(<<>>, hung)
      BY PromAssumption DEF RowsOK
    <3>2. kind # "200"
      BY DEF RequestKinds
    <3> QED
      BY <1>5, <1>6, <3>1, <3>2 DEF Working, WithMutex
  <2> HIDE DEF x
  <2> QED
    BY <1>1, <1>4, <2>2, <2>3, ThreadKept DEF WithMutex
<1>8. ASSUME NEW at \in Working \ {"writing"}, scrape' = [scrape EXCEPT ![c].at = at],
             mutex' \in {"free", Daemon} \cup Scrapers, at \in WithMutex <=> mutex' = c,
             \A e \in Scrapers \ {c} : mutex' = e <=> mutex = e
      PROVE  PromInv'
  <2> DEFINE x == [t EXCEPT !.at = at]
  <2>1. scrape' = [scrape EXCEPT ![c] = x]
    BY <1>8
  <2>2. x = Thread(at, t.rows, t.label)
    BY <1>2 DEF Thread
  <2>3. ThreadOK(x, hung) /\ x.at = at
    BY <1>2, <1>5, <1>8, <2>2
  <2> HIDE DEF x
  <2> QED
    BY <1>1, <1>8, <2>1, <2>3, ThreadKept
<1>9. CASE TakeTargets(c) \/ TakeHost(c)
  <2>1. PICK at \in WithMutex : scrape' = [scrape EXCEPT ![c].at = at]
    BY <1>9 DEF TakeTargets, TakeHost, WithMutex
  <2>2. mutex = "free" /\ mutex' = c
    BY <1>9 DEF TakeTargets, TakeHost
  <2>3. at \in Working \ {"writing"}
    BY DEF Working, WithMutex
  <2> HIDE DEF Working, WithMutex, t
  <2> QED
    BY <1>3, <1>8, <2>1, <2>2, <2>3
<1>10. CASE ReleaseTargets(c) \/ ReleaseHost(c)
  <2>1. PICK at \in {"host", "sampling"} : scrape' = [scrape EXCEPT ![c].at = at]
    BY <1>10 DEF ReleaseTargets, ReleaseHost
  <2>2. mutex = c /\ mutex' = "free"
    BY <1>4, <1>10 DEF ReleaseTargets, ReleaseHost, WithMutex
  <2>3. mutex' # c /\ \A e \in Scrapers \ {c} : mutex' # e /\ mutex # e
    BY <1>3, <2>2
  <2>4. at \in Working \ {"writing"} /\ at \notin WithMutex
    BY DEF Working, WithMutex
  <2>5. mutex' \in {"free", Daemon} \cup Scrapers
    BY <2>2
  <2> HIDE DEF Working, WithMutex, t
  <2> QED
    BY <1>8, <2>1, <2>3, <2>4, <2>5
<1>11. CASE \E ok \in BOOLEAN : SampleTarget(c, ok)
  <2>1. PICK ok \in BOOLEAN : SampleTarget(c, ok)
    BY <1>11
  <2> DEFINE rows == Append(t.rows, ok)
             x == [t EXCEPT !.rows = rows]
  <2>2. /\ scrape' = [scrape EXCEPT ![c] = x] /\ mutex' = mutex /\ t.at = "sampling"
        /\ Len(t.rows) < Len(Targets) /\ Targets[Len(t.rows) + 1] \notin hung
    BY <2>1 DEF SampleTarget
  <2>3. RowsOK(rows, hung)
    <3>1. t.rows \in Seq(BOOLEAN) /\ \A i \in 1..Len(t.rows) : Targets[i] \notin hung
      BY <1>2 DEF RowsOK
    <3>2. rows \in Seq(BOOLEAN) /\ Len(rows) = Len(t.rows) + 1 /\ Len(t.rows) \in Nat
      BY <3>1
    <3>3. Len(Targets) \in Nat
      BY PromAssumption
    <3>4. \A i \in 1..Len(rows) : Targets[i] \notin hung
      BY <2>2, <3>1, <3>2
    <3> HIDE DEF rows, t
    <3> QED
      BY <2>2, <3>2, <3>3, <3>4 DEF RowsOK
  <2> HIDE DEF rows
  <2>4. x = Thread("sampling", rows, t.label)
    BY <1>2, <2>2 DEF Thread
  <2> DEFINE sampled == Thread("sampling", rows, t.label)
  <2>5. ThreadOK(sampled, hung) /\ sampled.at = "sampling"
    <3>1. "sampling" \in Working /\ "sampling" # "writing"
      BY DEF Working
    <3> HIDE DEF Working, t
    <3> QED
      BY <1>5, <2>3, <3>1
  <2>6. ThreadOK(x, hung) /\ x.at = "sampling"
    BY <2>4, <2>5
  <2> HIDE DEF x
  <2> QED
    BY <1>1, <1>4, <2>2, <2>6, ThreadKept
<1>12. CASE ReadRegistry(c)
  <2> DEFINE x == [t EXCEPT !.at = "writing", !.label = nickname]
  <2>1. /\ scrape' = [scrape EXCEPT ![c] = x] /\ Len(t.rows) = Len(Targets) /\ t.at = "sampling"
        /\ mutex' = IF mutex = c THEN "free" ELSE mutex
    BY <1>12 DEF ReadRegistry
  <2>2. x = Thread("writing", t.rows, nickname)
    <3> DEFINE y == [t EXCEPT !.at = "writing"]
    <3> HIDE DEF t
    <3>1. y = [at |-> "writing", rows |-> t.rows, label |-> t.label]
      BY <1>2
    <3>2. x = [y EXCEPT !.label = nickname]
      OBVIOUS
    <3> HIDE DEF y
    <3> QED
      BY <3>1, <3>2 DEF Thread
  <2>3. ThreadOK(x, hung) /\ x.at = "writing"
    BY <1>2, <1>5, <2>1, <2>2 DEF Working
  <2>4. mutex' = mutex
    BY <1>4, <2>1 DEF WithMutex
  <2> HIDE DEF x
  <2> QED
    BY <1>1, <1>4, <2>1, <2>3, <2>4, ThreadKept DEF WithMutex
<1>13. CASE WriteResponse(c)
  <2>1. t.at = "writing" /\ mutex' = mutex
    BY <1>13 DEF WriteResponse
  <2>2. CASE scrape' = [scrape EXCEPT ![c] = Ended("io")]
    BY <1>1, <1>4, <1>6, <2>1, <2>2, ThreadKept DEF WithMutex
  <2>3. CASE scrape' = [scrape EXCEPT ![c] = [Ended("200") EXCEPT !.body = render(c)]]
    <3> DEFINE b == render(c)
               x == [Ended("200") EXCEPT !.body = b]
    <3>1. b.keyed = {i \in b.lines : Targets[i] \in Bound}
      BY DEF render
    <3>2. \A i \in DOMAIN Targets : Targets[i] \notin hung
      BY <1>2, <2>1, PromAssumption DEF RowsOK
    <3> HIDE DEF b
    <3>3. x = [at |-> "ended", status |-> "200", body |-> b]
      BY DEF Ended
    <3>4. ThreadOK(x, hung) /\ x.at = "ended"
      BY <3>1, <3>2, <3>3 DEF ThreadOK
    <3>5. scrape' = [scrape EXCEPT ![c] = x]
      BY <2>3 DEF b
    <3> HIDE DEF x
    <3> QED
      BY <1>1, <1>4, <2>1, <3>4, <3>5, ThreadKept DEF WithMutex
  <2> QED
    BY <1>13, <2>2, <2>3 DEF WriteResponse
<1> QED
  BY <1>7, <1>9, <1>10, <1>11, <1>12, <1>13 DEF ThreadStep

(* However many scrapes there are and whichever plugins hang in them.        *)
THEOREM ScrapesAlwaysApart == PromSpec => []ScrapesStayApart
<1>1. PromInit => PromInv
  <2> SUFFICES ASSUME PromInit PROVE PromInv
    OBVIOUS
  <2>1. \A c \in Scrapers : scrape[c] = Idle /\ scrape[c].at = "none" /\ ThreadOK(scrape[c], hung)
    BY DEF PromInit, Idle, ThreadOK
  <2>2. Live = {}
    BY <2>1 DEF Live
  <2>3. active = 0
    BY <2>2, FS_EmptySet DEF active
  <2> QED
    BY <2>1, <2>3, PromAssumption DEF PromInit, PromInv, WithMutex
<1>2. PromInv /\ [PromNext]_promVars => PromInv'
  <2> SUFFICES ASSUME PromInv, [PromNext]_promVars PROVE PromInv'
    OBVIOUS
  <2>1. ASSUME UNCHANGED <<hung, scrape>>, mutex' \in {"free", Daemon}, mutex \in {"free", Daemon}
        PROVE  PromInv'
    <3>1. "free" \notin Scrapers /\ Daemon \notin Scrapers
      BY PromAssumption DEF Daemon
    <3> QED
      BY <2>1, <3>1 DEF PromInv, active, Live
  <2>2. ASSUME UNCHANGED <<hung, scrape, mutex>> PROVE PromInv'
    BY <2>2 DEF PromInv, active, Live
  <2>3. CASE DaemonLocks
    BY <2>1, <2>3 DEF DaemonLocks
  <2>4. CASE DaemonUnlocks
    BY <2>1, <2>4 DEF DaemonUnlocks
  <2>5. CASE SetNickname \/ UNCHANGED promVars
    BY <2>2, <2>5 DEF SetNickname, promVars
  <2> QED
    BY <2>3, <2>4, <2>5, AcceptKept, ThreadStepKept DEF PromNext
<1>3. PromInv => ScrapesStayApart
  <2> SUFFICES ASSUME PromInv, NEW c \in Scrapers, scrape[c].at = "ended", scrape[c].status = "200"
               PROVE  /\ \A i \in DOMAIN Targets : Targets[i] \notin hung
                      /\ scrape[c].body.keyed = {i \in scrape[c].body.lines : Targets[i] \in Bound}
    BY DEF PromInv, ScrapesStayApart
  <2>1. ThreadOK(scrape[c], hung) /\ scrape[c] # Idle /\ scrape[c].at \notin Working
    BY DEF PromInv, Idle, Working
  <2> QED
    BY <2>1 DEF ThreadOK
<1> QED
  BY <1>1, <1>2, <1>3, PTL DEF PromSpec

-----------------------------------------------------------------------------
(***************************************************************************)
(* GuiLink                                                                 *)
(***************************************************************************)

-----------------------------------------------------------------------------
(* GuiLink: who watches the connection that is in use.                       *)

(* While the flag says the connection is alive, its forwarder runs and will  *)
(* see it end, or the thread that published it is about to start one.        *)
Watched == alive => \/ link[client].forwarder \in {"running", "mine"}
                    \/ \E d \in Dialers : dialer[d].at \in {"drop", "spawn"}

LinksOK(ls) == DOMAIN ls = Slots /\ \A s \in Slots : {"at", "forwarder"} \subseteq DOMAIN ls[s]
DialersOK(ds) == DOMAIN ds = Dialers /\ \A d \in Dialers : DOMAIN ds[d] = {"at", "target", "slot"}
OneCurrent(ls, c) == \A s \in Slots : ls[s].at = "current" <=> s = c

(* The slot of a thread that reconnects is its own until it is published,    *)
(* and of the two threads one at a time holds the reconnect lock.            *)
Holding(x) == x.at \in {"replay", "commit", "drop", "spawn", "label"}
SlotOK(x, ls, c) ==
    /\ x.at \in {"dial", "wait"} => x.slot \in Slots /\ ls[x.slot].at = "dialling"
    /\ x.at \in {"lock", "replay", "commit"} => x.slot \in Slots /\ ls[x.slot].at = "ready"
    /\ x.at \in {"drop", "spawn", "label"} => x.slot = c
    /\ x.at \in {"idle", "dial", "wait", "lock"} \/ Holding(x)
Apart(x, y) == /\ ~ (Holding(x) /\ Holding(y))
               /\ x.at # "idle" /\ y.at # "idle" => x.slot # y.slot

LinkInv ==
    /\ LinksOK(link) /\ DialersOK(dialer)
    /\ client \in Slots /\ published = client /\ OneCurrent(link, client)
    /\ \A d \in Dialers : SlotOK(dialer[d], link, client)
    /\ \A d, e \in Dialers : d # e => Apart(dialer[d], dialer[e])
    /\ Watched

(* Streams break and that changes nothing here.                              *)
LEMMA WatchKept ==
  ASSUME LinkInv, LinksOK(link'), UNCHANGED <<dialer, client, published, alive>>,
         \A s \in Slots : link'[s].at = link[s].at /\ link'[s].forwarder = link[s].forwarder
  PROVE  LinkInv'
  BY DEF LinkInv, Watched, OneCurrent, SlotOK, Apart, Holding

LEMMA Broken ==
  ASSUME LinksOK(link), NEW B \in SUBSET Slots,
         link' = [s \in Slots |-> IF link[s].open /\ s \in B THEN [link[s] EXCEPT !.open = FALSE]
                                  ELSE link[s]]
  PROVE  /\ LinksOK(link')
         /\ \A s \in Slots : link'[s].at = link[s].at /\ link'[s].forwarder = link[s].forwarder
<1>1. ASSUME NEW s \in Slots
      PROVE  /\ {"at", "forwarder"} \subseteq DOMAIN link'[s]
             /\ link'[s].at = link[s].at /\ link'[s].forwarder = link[s].forwarder
  <2>1. {"at", "forwarder"} \subseteq DOMAIN link[s]
    BY DEF LinksOK
  <2>2. link'[s] \in {link[s], [link[s] EXCEPT !.open = FALSE]}
    OBVIOUS
  <2> QED
    BY <2>1, <2>2
<1>2. DOMAIN link' = Slots
  OBVIOUS
<1> QED
  BY <1>1, <1>2 DEF LinksOK

LEMMA Dropped ==
  ASSUME LinksOK(link), NEW s \in Slots, link' = drop(s, link)
  PROVE  /\ LinksOK(link')
         /\ \A t \in Slots \ {s} : link'[t].at = link[t].at /\ link'[t].forwarder = link[t].forwarder
         /\ link'[s].at \in {"free", "dropped"}
<1> DEFINE B == {t \in Slots : \/ t = s
                               \/ link[s].child /\ link[t].host = "local"
                               \/ link[s].ssh # "no" /\ link[t].via = s}
           broken == [t \in Slots |-> IF link[t].open /\ t \in B THEN [link[t] EXCEPT !.open = FALSE]
                                      ELSE link[t]]
<1>1. link' = [broken EXCEPT ![s] = Forgotten(link[s])]
  <2>1. broken = [t \in Slots |->
                    IF link[t].open /\ (\/ t = s
                                        \/ link[s].child /\ link[t].host = "local"
                                        \/ link[s].ssh # "no" /\ link[t].via = s)
                    THEN [link[t] EXCEPT !.open = FALSE] ELSE link[t]]
    OBVIOUS
  <2> HIDE DEF broken
  <2> QED
    BY <2>1 DEF drop, Breaking
<1>2. ASSUME NEW t \in Slots
      PROVE  /\ {"at", "forwarder"} \subseteq DOMAIN broken[t]
             /\ broken[t].at = link[t].at /\ broken[t].forwarder = link[t].forwarder
  <2>1. {"at", "forwarder"} \subseteq DOMAIN link[t]
    BY DEF LinksOK
  <2>2. broken[t] \in {link[t], [link[t] EXCEPT !.open = FALSE]}
    OBVIOUS
  <2> QED
    BY <2>1, <2>2
<1>3. Forgotten(link[s]).at \in {"free", "dropped"} /\ {"at", "forwarder"} \subseteq DOMAIN Forgotten(link[s])
  <2>1. {"at", "forwarder"} \subseteq DOMAIN link[s]
    BY DEF LinksOK
  <2> QED
    BY <2>1 DEF Forgotten, Free
<1>4. DOMAIN broken = Slots
  OBVIOUS
<1> HIDE DEF broken
<1> QED
  BY <1>1, <1>2, <1>3, <1>4 DEF LinksOK

(* A step of a thread before it publishes: only its own slot changes.        *)
LEMMA DialKept ==
  ASSUME LinkInv, NEW d \in Dialers, dialer[d].at \in {"dial", "wait", "lock", "replay"},
         UNCHANGED <<client, published, alive>>, LinksOK(link'),
         \A t \in Slots \ {dialer[d].slot} :
             link'[t].at = link[t].at /\ link'[t].forwarder = link[t].forwarder,
         link'[dialer[d].slot].at # "current",
         DialersOK(dialer'), \A e \in Dialers \ {d} : dialer'[e] = dialer[e],
         dialer'[d].at = "idle" \/ dialer'[d].slot = dialer[d].slot,
         SlotOK(dialer'[d], link', client),
         Holding(dialer'[d]) => Holding(dialer[d]) \/ ~ Locked
  PROVE  LinkInv'
<1>1. /\ dialer[d].slot \in Slots /\ dialer[d].slot # client
      /\ client \in Slots /\ link[dialer[d].slot].at # "current"
  BY DEF LinkInv, SlotOK, OneCurrent, Holding
<1>2. OneCurrent(link', client)
  BY <1>1 DEF LinkInv, OneCurrent
<1>3. ASSUME NEW e \in Dialers PROVE SlotOK(dialer'[e], link', client)
  <2>1. CASE e = d
    BY <2>1
  <2>2. CASE e # d
    <3>1. dialer'[e] = dialer[e] /\ SlotOK(dialer[e], link, client) /\ Apart(dialer[e], dialer[d])
      BY <2>2 DEF LinkInv
    <3>2. dialer[e].at # "idle" => dialer[e].slot # dialer[d].slot
      BY <3>1 DEF Apart
    <3> QED
      BY <3>1, <3>2 DEF SlotOK
  <2> QED
    BY <2>1, <2>2
<1>4. ASSUME NEW e \in Dialers, NEW f \in Dialers, e # f PROVE Apart(dialer'[e], dialer'[f])
  <2>1. Apart(dialer[e], dialer[f])
    BY <1>4 DEF LinkInv
  <2>2. CASE d \notin {e, f}
    BY <2>1, <2>2
  <2>3. CASE d \in {e, f}
    <3>1. PICK g \in {e, f} : g # d /\ {e, f} = {d, g}
      BY <1>4, <2>3
    <3>2. dialer'[g] = dialer[g] /\ Apart(dialer[d], dialer[g])
      BY <2>1, <3>1 DEF Apart
    <3>3. ~ (Holding(dialer'[d]) /\ Holding(dialer[g]))
      BY <3>2 DEF Apart, Locked, Holding
    <3>4. dialer'[d].at # "idle" /\ dialer[g].at # "idle" => dialer'[d].slot # dialer[g].slot
      BY <3>2 DEF Apart
    <3> QED
      BY <3>1, <3>2, <3>3, <3>4 DEF Apart
  <2> QED
    BY <2>2, <2>3
<1>5. Watched'
  <2> SUFFICES ASSUME alive
               PROVE  \/ link'[client].forwarder \in {"running", "mine"}
                      \/ \E e \in Dialers : dialer'[e].at \in {"drop", "spawn"}
    BY DEF Watched
  <2>1. CASE link[client].forwarder \in {"running", "mine"}
    BY <1>1, <2>1
  <2>2. CASE \E e \in Dialers : dialer[e].at \in {"drop", "spawn"}
    <3>1. PICK e \in Dialers : dialer[e].at \in {"drop", "spawn"}
      BY <2>2
    <3> QED
      BY <3>1
  <2> QED
    BY <2>1, <2>2 DEF LinkInv, Watched
<1> QED
  BY <1>1, <1>2, <1>3, <1>4, <1>5 DEF LinkInv

(* The thread's own slot and what is in it.                                  *)
LEMMA OwnSlot ==
  ASSUME LinkInv, NEW d \in Dialers, dialer[d].at \in {"dial", "wait", "lock", "replay", "commit"}
  PROVE  /\ dialer[d].slot \in Slots /\ dialer[d].slot # client
         /\ {"at", "forwarder"} \subseteq DOMAIN link[dialer[d].slot]
         /\ DOMAIN dialer[d] = {"at", "target", "slot"}
         /\ link[dialer[d].slot].at = IF dialer[d].at \in {"dial", "wait"} THEN "dialling" ELSE "ready"
  BY DEF LinkInv, LinksOK, DialersOK, SlotOK, OneCurrent

LEMMA StartKept ==
  ASSUME LinkInv, NEW d \in Dialers, NEW target, dialer[d] = Resting, StartDial(d, target),
         UNCHANGED <<client, published, alive>>
  PROVE  LinkInv'
<1>1. PICK s \in Slots : /\ link[s] = Free /\ link' = [link EXCEPT ![s] = Dialling(target)]
                         /\ dialer' = [dialer EXCEPT ![d] = [at |-> "dial", target |-> target, slot |-> s]]
  BY DEF StartDial
<1>2. LinksOK(link) /\ DialersOK(dialer) /\ client \in Slots /\ link[client].at = "current"
      /\ link[s].at = "free" /\ s # client
  BY <1>1 DEF LinkInv, OneCurrent, Free
<1>3. {"at", "forwarder"} \subseteq DOMAIN Dialling(target) /\ Dialling(target).at = "dialling"
  BY DEF Dialling, Free
<1>4. /\ DOMAIN link' = Slots /\ link'[s] = Dialling(target)
      /\ \A t \in Slots \ {s} : link'[t] = link[t]
  BY <1>1, <1>2 DEF LinksOK
<1>5. LinksOK(link') /\ OneCurrent(link', client)
  BY <1>2, <1>3, <1>4 DEF LinksOK, LinkInv, OneCurrent
<1> DEFINE x == [at |-> "dial", target |-> target, slot |-> s]
<1>6. /\ DOMAIN dialer' = Dialers /\ dialer'[d] = x /\ \A e \in Dialers \ {d} : dialer'[e] = dialer[e]
  BY <1>1, <1>2 DEF DialersOK
<1>7. DOMAIN x = {"at", "target", "slot"} /\ x.at = "dial" /\ x.slot = s
  OBVIOUS
<1> HIDE DEF x
<1>8. DialersOK(dialer')
  BY <1>2, <1>6, <1>7 DEF DialersOK
<1>9. ASSUME NEW e \in Dialers
      PROVE  SlotOK(dialer'[e], link', client) /\ (e # d => Apart(dialer'[e], x) /\ Apart(x, dialer'[e]))
  <2>1. CASE e = d
    BY <1>3, <1>4, <1>6, <1>7, <2>1 DEF SlotOK
  <2>2. CASE e # d
    <3>1. dialer'[e] = dialer[e] /\ SlotOK(dialer[e], link, client)
      BY <1>6, <2>2 DEF LinkInv
    <3>2. dialer[e].at # "idle" => dialer[e].slot # s
      BY <1>2, <3>1 DEF SlotOK, Holding
    <3> QED
      BY <1>4, <1>7, <3>1, <3>2 DEF SlotOK, Apart, Holding
  <2> QED
    BY <2>1, <2>2
<1>10. \A e, f \in Dialers : e # f => Apart(dialer'[e], dialer'[f])
  BY <1>6, <1>9 DEF LinkInv
<1>11. Watched'
  <2>1. link'[client] = link[client]
    BY <1>2, <1>4
  <2>2. dialer[d].at = "idle"
    BY DEF Resting
  <2>3. \A e \in Dialers : dialer[e].at \in {"drop", "spawn"} => dialer'[e] = dialer[e]
    BY <1>6, <2>2
  <2> QED
    BY <2>1, <2>3 DEF LinkInv, Watched
<1> QED
  BY <1>2, <1>5, <1>8, <1>9, <1>10, <1>11 DEF LinkInv

LEMMA FailKept ==
  ASSUME LinkInv, NEW d \in Dialers, dialer[d].at \in {"wait", "replay"}, Fail(d)
  PROVE  LinkInv'
<1> DEFINE s == dialer[d].slot
<1>1. s \in Slots /\ s # client /\ LinksOK(link) /\ DialersOK(dialer)
  BY OwnSlot DEF LinkInv
<1>2. /\ link' = drop(s, link) /\ dialer' = [dialer EXCEPT ![d] = Resting]
      /\ UNCHANGED <<client, published, alive>>
  BY DEF Fail, workspace
<1>3. /\ LinksOK(link') /\ link'[s].at # "current"
      /\ \A t \in Slots \ {s} : link'[t].at = link[t].at /\ link'[t].forwarder = link[t].forwarder
  <2> HIDE DEF s
  <2> QED
    BY <1>1, <1>2, Dropped
<1>4. /\ DOMAIN dialer' = Dialers /\ dialer'[d] = Resting /\ \A e \in Dialers \ {d} : dialer'[e] = dialer[e]
  BY <1>1, <1>2 DEF DialersOK
<1>5. DialersOK(dialer') /\ SlotOK(dialer'[d], link', client) /\ ~ Holding(dialer'[d]) /\ dialer'[d].at = "idle"
  BY <1>1, <1>4 DEF DialersOK, SlotOK, Holding, Resting
<1> QED
  BY <1>2, <1>3, <1>4, <1>5, DialKept

(* A thread goes on to its next step before it publishes.                    *)
LEMMA GoesOn ==
  ASSUME LinkInv, NEW d \in Dialers, dialer[d].at \in {"dial", "wait", "lock", "replay"},
         NEW at \in {"wait", "lock", "replay", "commit"}, Goes(d, at),
         UNCHANGED <<client, published, alive>>, LinksOK(link'),
         \A t \in Slots \ {dialer[d].slot} :
             link'[t].at = link[t].at /\ link'[t].forwarder = link[t].forwarder,
         link'[dialer[d].slot].at = IF at = "wait" THEN "dialling" ELSE "ready",
         at \in {"replay", "commit"} => dialer[d].at = "replay" \/ ~ Locked
  PROVE  LinkInv'
<1>1. /\ dialer[d].slot \in Slots /\ DOMAIN dialer[d] = {"at", "target", "slot"}
      /\ DialersOK(dialer)
  BY OwnSlot DEF LinkInv
<1>2. dialer' = [dialer EXCEPT ![d] = [dialer[d] EXCEPT !.at = at]]
  BY DEF Goes
<1>3. /\ DOMAIN dialer' = Dialers /\ dialer'[d] = [dialer[d] EXCEPT !.at = at]
      /\ \A e \in Dialers \ {d} : dialer'[e] = dialer[e]
  BY <1>1, <1>2 DEF DialersOK
<1>4. /\ DOMAIN dialer'[d] = {"at", "target", "slot"}
      /\ dialer'[d].at = at /\ dialer'[d].slot = dialer[d].slot
  BY <1>1, <1>3
<1>5. DialersOK(dialer')
  BY <1>1, <1>3, <1>4 DEF DialersOK
<1>6. SlotOK(dialer'[d], link', client)
  BY <1>1, <1>4 DEF SlotOK, Holding
<1>7. Holding(dialer'[d]) => Holding(dialer[d]) \/ ~ Locked
  BY <1>4 DEF Holding
<1> QED
  BY <1>3, <1>4, <1>5, <1>6, <1>7, DialKept

LEMMA DialStepKept ==
  ASSUME LinkInv, NEW d \in Dialers,
         connect_or_spawn(d) \/ connect_ssh(d) \/ attach(d) \/ Lock(d) \/ replay(d)
  PROVE  LinkInv'
<1> DEFINE s == dialer[d].slot
<1>1. dialer[d].at \in {"dial", "wait", "lock", "replay"} /\ UNCHANGED <<client, published, alive>>
  BY DEF connect_or_spawn, connect_ssh, attach, Lock, replay, Fail, workspace
<1>2. /\ s \in Slots /\ s # client /\ {"at", "forwarder"} \subseteq DOMAIN link[s]
      /\ link[s].at = IF dialer[d].at \in {"dial", "wait"} THEN "dialling" ELSE "ready"
      /\ LinksOK(link) /\ DialersOK(dialer)
  BY <1>1, OwnSlot DEF LinkInv
<1>3. ASSUME NEW l, link' = [link EXCEPT ![s] = l], {"at", "forwarder"} \subseteq DOMAIN l
      PROVE  /\ LinksOK(link') /\ link'[s] = l
             /\ \A t \in Slots \ {s} : link'[t].at = link[t].at /\ link'[t].forwarder = link[t].forwarder
  BY <1>2, <1>3 DEF LinksOK
<1>4. CASE Fail(d) /\ dialer[d].at \in {"wait", "replay"}
  BY <1>4, FailKept
<1>5. CASE dialer[d].at = "dial" /\ link' = [link EXCEPT ![s] = Free]
           /\ dialer' = [dialer EXCEPT ![d] = Resting]
  <2>1. {"at", "forwarder"} \subseteq DOMAIN Free /\ Free.at = "free"
    BY DEF Free
  <2>2. /\ DOMAIN dialer' = Dialers /\ dialer'[d] = Resting /\ \A e \in Dialers \ {d} : dialer'[e] = dialer[e]
    BY <1>2, <1>5 DEF DialersOK
  <2>3. DialersOK(dialer') /\ SlotOK(dialer'[d], link', client) /\ ~ Holding(dialer'[d]) /\ dialer'[d].at = "idle"
    BY <1>2, <2>2 DEF DialersOK, SlotOK, Holding, Resting
  <2>4. /\ LinksOK(link') /\ link'[s].at # "current"
        /\ \A t \in Slots \ {s} : link'[t].at = link[t].at /\ link'[t].forwarder = link[t].forwarder
    BY <1>3, <1>5, <2>1
  <2> QED
    BY <1>1, <2>2, <2>3, <2>4, DialKept
<1>6. ASSUME NEW l, link' = [link EXCEPT ![s] = l], {"at", "forwarder"} \subseteq DOMAIN l,
             NEW at \in {"wait", "lock", "replay", "commit"}, Goes(d, at),
             l.at = IF at = "wait" THEN "dialling" ELSE "ready",
             at \in {"replay", "commit"} => dialer[d].at = "replay" \/ ~ Locked
      PROVE  LinkInv'
  <2>1. /\ LinksOK(link') /\ link'[s] = l
        /\ \A t \in Slots \ {s} : link'[t].at = link[t].at /\ link'[t].forwarder = link[t].forwarder
    BY <1>3, <1>6
  <2> QED
    BY <1>1, <1>6, <2>1, GoesOn
<1>7. CASE connect_or_spawn(d)
  <2>1. CASE link' = [link EXCEPT ![s] = [@ EXCEPT !.at = "ready", !.open = TRUE, !.host = "local",
                                                   !.child = (daemon = "none")]] /\ Goes(d, "lock")
    <3> DEFINE l == [link[s] EXCEPT !.at = "ready", !.open = TRUE, !.host = "local",
                                    !.child = (daemon = "none")]
    <3>1. {"at", "forwarder"} \subseteq DOMAIN l /\ l.at = "ready"
      BY <1>2
    <3>2. link' = [link EXCEPT ![s] = l]
      BY <2>1
    <3> HIDE DEF l
    <3> QED
      BY <1>6, <2>1, <3>1, <3>2
  <2> QED
    BY <1>5, <1>7, <2>1 DEF connect_or_spawn
<1>8. CASE connect_ssh(d)
  <2>1. CASE link' = [link EXCEPT ![s].ssh = "starting"] /\ Goes(d, "wait")
    <3> DEFINE l == [link[s] EXCEPT !.ssh = "starting"]
    <3>1. {"at", "forwarder"} \subseteq DOMAIN l /\ l.at = "dialling"
      BY <1>2, <1>8 DEF connect_ssh
    <3>2. link' = [link EXCEPT ![s] = l]
      BY <2>1
    <3> HIDE DEF l
    <3> QED
      BY <1>6, <2>1, <3>1, <3>2
  <2> QED
    BY <1>5, <1>8, <2>1 DEF connect_ssh
<1>9. CASE attach(d)
  <2>1. CASE link' = [link EXCEPT ![s] = [@ EXCEPT !.at = "ready", !.open = TRUE, !.via = socket,
                                                   !.host = Behind]] /\ Goes(d, "lock")
    <3> DEFINE l == [link[s] EXCEPT !.at = "ready", !.open = TRUE, !.via = socket, !.host = Behind]
    <3>1. {"at", "forwarder"} \subseteq DOMAIN l /\ l.at = "ready"
      BY <1>2
    <3>2. link' = [link EXCEPT ![s] = l]
      BY <2>1
    <3> HIDE DEF l
    <3> QED
      BY <1>6, <2>1, <3>1, <3>2
  <2> QED
    BY <1>4, <1>9, <2>1 DEF attach
<1>10. CASE Lock(d)
  <2>1. link' = link /\ Goes(d, "replay") /\ ~ Locked /\ dialer[d].at = "lock"
    BY <1>10 DEF Lock
  <2> QED
    BY <1>1, <1>2, <2>1, GoesOn
<1>11. CASE replay(d)
  <2>1. CASE link' = link /\ Goes(d, "commit")
    <3>1. dialer[d].at = "replay"
      BY <1>11 DEF replay
    <3> QED
      BY <1>1, <1>2, <2>1, <3>1, GoesOn
  <2> QED
    BY <1>4, <1>11, <2>1 DEF replay
<1> QED
  BY <1>7, <1>8, <1>9, <1>10, <1>11

LEMMA CommitKept ==
  ASSUME LinkInv, NEW d \in Dialers, commit(d)
  PROVE  LinkInv'
<1> DEFINE s == dialer[d].slot
<1>1. /\ dialer[d].at = "commit" /\ published' = s /\ client' = s /\ Goes(d, "drop")
      /\ link' = [link EXCEPT ![s].at = "current", ![client].at = "old"]
  BY DEF commit
<1>2. /\ s \in Slots /\ s # client /\ client \in Slots /\ DOMAIN dialer[d] = {"at", "target", "slot"}
      /\ LinksOK(link) /\ DialersOK(dialer)
  BY <1>1, OwnSlot DEF LinkInv
<1>3. /\ DOMAIN link' = Slots
      /\ link'[s] = [link[s] EXCEPT !.at = "current"]
      /\ link'[client] = [link[client] EXCEPT !.at = "old"]
      /\ \A t \in Slots \ {s, client} : link'[t] = link[t]
  BY <1>1, <1>2 DEF LinksOK
<1>4. /\ {"at", "forwarder"} \subseteq DOMAIN link'[s] /\ link'[s].at = "current"
      /\ {"at", "forwarder"} \subseteq DOMAIN link'[client] /\ link'[client].at = "old"
  <2>1. {"at", "forwarder"} \subseteq DOMAIN link[s] /\ {"at", "forwarder"} \subseteq DOMAIN link[client]
    BY <1>2 DEF LinksOK
  <2> QED
    BY <1>3, <2>1
<1>5. LinksOK(link') /\ OneCurrent(link', s)
  BY <1>2, <1>3, <1>4 DEF LinksOK, LinkInv, OneCurrent
<1>6. /\ DOMAIN dialer' = Dialers /\ dialer'[d] = [dialer[d] EXCEPT !.at = "drop"]
      /\ \A e \in Dialers \ {d} : dialer'[e] = dialer[e]
  <2>1. dialer' = [dialer EXCEPT ![d] = [dialer[d] EXCEPT !.at = "drop"]]
    BY <1>1 DEF Goes
  <2> QED
    BY <1>2, <2>1 DEF DialersOK
<1>7. DOMAIN dialer'[d] = {"at", "target", "slot"} /\ dialer'[d].at = "drop" /\ dialer'[d].slot = s
  BY <1>2, <1>6
<1>8. DialersOK(dialer')
  BY <1>2, <1>6, <1>7 DEF DialersOK
<1> HIDE DEF s
<1>9. ASSUME NEW e \in Dialers \ {d}
      PROVE  /\ SlotOK(dialer'[e], link', s)
             /\ Apart(dialer'[e], dialer'[d]) /\ Apart(dialer'[d], dialer'[e])
  <2>1. dialer'[e] = dialer[e] /\ SlotOK(dialer[e], link, client) /\ Apart(dialer[e], dialer[d])
    BY <1>6 DEF LinkInv
  <2>2. ~ Holding(dialer[e]) /\ (dialer[e].at # "idle" => dialer[e].slot # s)
    BY <1>1, <2>1 DEF Apart, Holding, s
  <2>3. dialer[e].at # "idle" => dialer[e].slot \in Slots \ {s, client}
    BY <2>1, <2>2 DEF SlotOK, LinkInv, OneCurrent
  <2>4. SlotOK(dialer'[e], link', s)
    BY <1>3, <2>1, <2>2, <2>3 DEF SlotOK, Holding
  <2> QED
    BY <1>7, <2>1, <2>2, <2>4 DEF Apart
<1>10. SlotOK(dialer'[d], link', s)
  BY <1>7 DEF SlotOK, Holding
<1>11. \A e \in Dialers : SlotOK(dialer'[e], link', s)
  BY <1>9, <1>10
<1>12. \A e, f \in Dialers : e # f => Apart(dialer'[e], dialer'[f])
  BY <1>6, <1>9 DEF LinkInv
<1>13. Watched'
  BY <1>7 DEF Watched
<1> QED
  BY <1>1, <1>2, <1>5, <1>8, <1>11, <1>12, <1>13 DEF LinkInv

(* A step of a thread after it has published: only old slots change.         *)
LEMMA AfterKept ==
  ASSUME LinkInv, NEW d \in Dialers, dialer[d].at \in {"drop", "spawn", "label"},
         UNCHANGED <<client, published>>, LinksOK(link'),
         \A t \in Slots : \/ link'[t].at = link[t].at
                          \/ link[t].at = "old" /\ link'[t].at \in {"free", "dropped"},
         DialersOK(dialer'), \A e \in Dialers \ {d} : dialer'[e] = dialer[e],
         \/ dialer'[d].at = "idle"
         \/ dialer'[d].at \in {"spawn", "label"} /\ dialer'[d].slot = dialer[d].slot,
         Watched'
  PROVE  LinkInv'
<1>1. OneCurrent(link', client)
  BY DEF LinkInv, OneCurrent
<1>2. \A e \in Dialers : SlotOK(dialer'[e], link', client)
  BY DEF LinkInv, SlotOK, Holding
<1>3. ASSUME NEW e \in Dialers, NEW f \in Dialers, e # f PROVE Apart(dialer'[e], dialer'[f])
  <2>1. Apart(dialer[e], dialer[f])
    BY <1>3 DEF LinkInv
  <2>2. \A g \in Dialers : /\ Holding(dialer'[g]) => Holding(dialer[g])
                           /\ dialer'[g].at # "idle" => dialer[g].at # "idle" /\ dialer'[g].slot = dialer[g].slot
    BY DEF Holding
  <2> QED
    BY <2>1, <2>2 DEF Apart
<1> QED
  BY <1>1, <1>2, <1>3 DEF LinkInv

LEMMA PublishedStepKept ==
  ASSUME LinkInv, NEW d \in Dialers, drop_old_client(d) \/ spawn_forwarders(d) \/ set_active_target(d)
  PROVE  LinkInv'
<1> USE DEF workspace
<1>1. /\ dialer[d].at \in {"drop", "spawn", "label"} /\ UNCHANGED <<client, published, alive>>
  BY DEF drop_old_client, spawn_forwarders, set_active_target
<1>2. /\ LinksOK(link) /\ DialersOK(dialer) /\ client \in Slots /\ OneCurrent(link, client) /\ Watched
      /\ dialer[d].slot = client
  BY <1>1 DEF LinkInv, SlotOK
<1>3. ASSUME NEW at \in {"spawn", "label"}, Goes(d, at)
      PROVE  /\ DialersOK(dialer') /\ \A e \in Dialers \ {d} : dialer'[e] = dialer[e]
             /\ dialer'[d].at = at /\ dialer'[d].slot = dialer[d].slot
  <2>1. DOMAIN dialer[d] = {"at", "target", "slot"}
    BY <1>2 DEF DialersOK
  <2>2. dialer' = [dialer EXCEPT ![d] = [dialer[d] EXCEPT !.at = at]]
    BY <1>3 DEF Goes
  <2>3. /\ DOMAIN dialer' = Dialers /\ dialer'[d] = [dialer[d] EXCEPT !.at = at]
        /\ \A e \in Dialers \ {d} : dialer'[e] = dialer[e]
    BY <1>2, <2>2 DEF DialersOK
  <2> QED
    BY <1>2, <2>1, <2>3 DEF DialersOK
<1>4. CASE drop_old_client(d)
  <2>1. PICK s \in Slots : link[s].at = "old" /\ link' = drop(s, link)
    BY <1>4 DEF drop_old_client
  <2>2. /\ LinksOK(link') /\ link'[s].at \in {"free", "dropped"}
        /\ \A t \in Slots \ {s} : link'[t].at = link[t].at /\ link'[t].forwarder = link[t].forwarder
    BY <1>2, <2>1, Dropped
  <2>3. Goes(d, "spawn")
    BY <1>4 DEF drop_old_client
  <2>4. /\ DialersOK(dialer') /\ \A e \in Dialers \ {d} : dialer'[e] = dialer[e]
        /\ dialer'[d].at = "spawn" /\ dialer'[d].slot = dialer[d].slot
    BY <1>3, <2>3
  <2>5. Watched'
    BY <2>4 DEF Watched
  <2> QED
    BY <1>1, <2>1, <2>2, <2>4, <2>5, AfterKept
<1>5. CASE spawn_forwarders(d)
  <2> DEFINE l == [link[client] EXCEPT !.forwarder = "running"]
  <2>1. link' = [link EXCEPT ![client] = l] /\ Goes(d, "label")
    BY <1>2, <1>5 DEF spawn_forwarders
  <2>2. {"at", "forwarder"} \subseteq DOMAIN l /\ l.at = link[client].at /\ l.forwarder = "running"
    BY <1>2 DEF LinksOK
  <2> HIDE DEF l
  <2>3. /\ LinksOK(link') /\ link'[client].forwarder = "running"
        /\ \A t \in Slots : link'[t].at = link[t].at
    BY <1>2, <2>1, <2>2 DEF LinksOK
  <2>4. /\ DialersOK(dialer') /\ \A e \in Dialers \ {d} : dialer'[e] = dialer[e]
        /\ dialer'[d].at = "label" /\ dialer'[d].slot = dialer[d].slot
    BY <1>3, <2>1
  <2>5. Watched'
    BY <1>1, <2>3 DEF Watched
  <2> QED
    BY <1>1, <2>3, <2>4, <2>5, AfterKept
<1>6. CASE set_active_target(d)
  <2>1. dialer' = [dialer EXCEPT ![d] = Resting] /\ link' = link /\ dialer[d].at = "label"
    BY <1>6 DEF set_active_target
  <2>2. /\ DialersOK(dialer') /\ \A e \in Dialers \ {d} : dialer'[e] = dialer[e]
        /\ dialer'[d].at = "idle"
    BY <1>2, <2>1 DEF DialersOK, Resting
  <2>3. Watched'
    <3>1. \A e \in Dialers : dialer[e].at \in {"drop", "spawn"} => dialer'[e] = dialer[e]
      BY <2>1, <2>2
    <3> QED
      BY <1>1, <1>2, <2>1, <3>1 DEF Watched
  <2> QED
    BY <1>1, <1>2, <2>1, <2>2, <2>3, AfterKept
<1> QED
  BY <1>4, <1>5, <1>6

(* A forwarder goes on.  Of the connection in use it does not end before the *)
(* flag is cleared.                                                          *)
LEMMA ForwarderKept ==
  ASSUME LinkInv, NEW s \in Slots, forwarder_checks(s) \/ forwarder_clears(s)
  PROVE  LinkInv'
<1> USE DEF workspace
<1>1. /\ LinksOK(link) /\ client \in Slots /\ published = client /\ OneCurrent(link, client) /\ Watched
      /\ {"at", "forwarder"} \subseteq DOMAIN link[s]
  BY DEF LinkInv, LinksOK
<1>2. UNCHANGED <<dialer, client, published>>
  BY DEF forwarder_checks, forwarder_clears
<1> DEFINE l == FinishForwarder(link[s])
<1>3. /\ {"at", "forwarder"} \subseteq DOMAIN l
      /\ \/ l.at = link[s].at
         \/ link[s].at = "dropped" /\ l.at = "free"
  BY <1>1 DEF FinishForwarder, Free
<1>4. ASSUME NEW x, link' = [link EXCEPT ![s] = x], {"at", "forwarder"} \subseteq DOMAIN x,
             \/ x.at = link[s].at
             \/ link[s].at = "dropped" /\ x.at = "free",
             Watched'
      PROVE  LinkInv'
  <2>1. LinksOK(link') /\ link'[s] = x /\ \A t \in Slots \ {s} : link'[t] = link[t]
    BY <1>1, <1>4 DEF LinksOK
  <2>2. OneCurrent(link', client)
    BY <1>1, <1>4, <2>1 DEF OneCurrent
  <2>3. \A d \in Dialers : SlotOK(dialer[d], link', client)
    BY <1>4, <2>1 DEF LinkInv, SlotOK
  <2> QED
    BY <1>2, <1>4, <2>1, <2>2, <2>3 DEF LinkInv
<1>5. CASE forwarder_checks(s) /\ published = s
  <2> DEFINE x == [link[s] EXCEPT !.forwarder = "mine"]
  <2>1. link' = [link EXCEPT ![s] = x]
    BY <1>5 DEF forwarder_checks
  <2>2. {"at", "forwarder"} \subseteq DOMAIN x /\ x.at = link[s].at /\ x.forwarder = "mine"
    BY <1>1
  <2> HIDE DEF x
  <2>3. Watched'
    BY <1>1, <1>2, <1>5, <2>1, <2>2 DEF Watched, LinksOK
  <2> QED
    BY <1>4, <2>1, <2>2, <2>3
<1>6. CASE forwarder_checks(s) /\ published # s
  <2>1. link' = [link EXCEPT ![s] = l] /\ alive' = alive
    BY <1>6 DEF forwarder_checks
  <2> HIDE DEF l
  <2>2. link'[client] = link[client]
    BY <1>1, <1>6, <2>1 DEF LinksOK
  <2>3. Watched'
    BY <1>1, <1>2, <2>1, <2>2 DEF Watched
  <2> QED
    BY <1>3, <1>4, <2>1, <2>3
<1>7. CASE forwarder_clears(s)
  <2>1. link' = [link EXCEPT ![s] = l] /\ alive' = FALSE
    BY <1>7 DEF forwarder_clears
  <2> HIDE DEF l
  <2>2. Watched'
    BY <2>1 DEF Watched
  <2> QED
    BY <1>3, <1>4, <2>1, <2>2
<1> QED
  BY <1>5, <1>6, <1>7

LEMMA WorldKept ==
  ASSUME LinkInv,
         \/ \E s \in Slots : SshBinds(s) \/ StreamBreaks(s)
         \/ \E h \in SshHosts : HostGoes(h) \/ HostReturns(h)
         \/ DaemonCrashes \/ UNCHANGED linkVars
  PROVE  LinkInv'
<1> USE DEF workspace
<1>1. UNCHANGED <<dialer, client, published, alive>> /\ LinksOK(link)
  BY DEF SshBinds, StreamBreaks, HostGoes, HostReturns, DaemonCrashes, linkVars, LinkInv
<1>2. ASSUME NEW s \in Slots, NEW x, link' = [link EXCEPT ![s] = x], {"at", "forwarder"} \subseteq DOMAIN x,
             x.at = link[s].at /\ x.forwarder = link[s].forwarder
      PROVE  LinkInv'
  <2>1. /\ LinksOK(link')
        /\ \A t \in Slots : link'[t].at = link[t].at /\ link'[t].forwarder = link[t].forwarder
    BY <1>1, <1>2 DEF LinksOK
  <2> QED
    BY <1>1, <2>1, WatchKept
<1>3. ASSUME NEW h, link' = [s \in Slots |-> IF link[s].open /\ link[s].host = h
                                             THEN [link[s] EXCEPT !.open = FALSE] ELSE link[s]]
      PROVE  LinkInv'
  <2> DEFINE B == {s \in Slots : link[s].host = h}
  <2>1. link' = [s \in Slots |-> IF link[s].open /\ s \in B THEN [link[s] EXCEPT !.open = FALSE]
                                 ELSE link[s]]
    BY <1>3
  <2>2. B \in SUBSET Slots
    OBVIOUS
  <2> HIDE DEF B
  <2> QED
    BY <1>1, <2>1, <2>2, Broken, WatchKept
<1>4. ASSUME NEW s \in Slots, SshBinds(s) PROVE LinkInv'
  <2> DEFINE x == [link[s] EXCEPT !.ssh = "up"]
  <2>1. link' = [link EXCEPT ![s] = x]
    BY <1>4 DEF SshBinds
  <2>2. {"at", "forwarder"} \subseteq DOMAIN x /\ x.at = link[s].at /\ x.forwarder = link[s].forwarder
    BY <1>1 DEF LinksOK
  <2> HIDE DEF x
  <2> QED
    BY <1>2, <2>1, <2>2
<1>5. ASSUME NEW s \in Slots, StreamBreaks(s) PROVE LinkInv'
  <2> DEFINE x == [link[s] EXCEPT !.open = FALSE]
  <2>1. link' = [link EXCEPT ![s] = x]
    BY <1>5 DEF StreamBreaks
  <2>2. {"at", "forwarder"} \subseteq DOMAIN x /\ x.at = link[s].at /\ x.forwarder = link[s].forwarder
    BY <1>1 DEF LinksOK
  <2> HIDE DEF x
  <2> QED
    BY <1>2, <2>1, <2>2
<1>6. ASSUME NEW h, HostGoes(h) PROVE LinkInv'
  BY <1>3, <1>6 DEF HostGoes, Breaking
<1>7. CASE DaemonCrashes
  BY <1>3, <1>7 DEF DaemonCrashes, Breaking
<1>8. ASSUME link' = link PROVE LinkInv'
  BY <1>1, <1>8, WatchKept
<1> QED
  BY <1>4, <1>5, <1>6, <1>7, <1>8 DEF HostReturns, linkVars

(* However dials, switches, drops, crashes and forwarders interleave, the    *)
(* flag never stays set over a dead connection that nobody watches: its      *)
(* forwarder runs, or the thread that published it is about to start one.    *)
(* This is the safety half of LinkComesBack (workspace.rs:338).              *)
THEOREM LinkAlwaysWatched == GuiLinkSpec => []Watched
<1>1. GuiLinkInit => LinkInv
  <2> SUFFICES ASSUME GuiLinkInit PROVE LinkInv
    OBVIOUS
  <2>1. /\ DOMAIN link = Slots /\ client \in Slots /\ published = client
        /\ \A s \in Slots : s # client => link[s] = Free
        /\ dialer = [d \in Dialers |-> Resting]
        /\ link[client] = [Free EXCEPT !.at = "current", !.target = "local", !.host = "local",
                                       !.child = (daemon = client), !.open = TRUE,
                                       !.forwarder = "running"]
    BY DEF GuiLinkInit
  <2>2. /\ {"at", "forwarder"} \subseteq DOMAIN link[client]
        /\ link[client].at = "current" /\ link[client].forwarder = "running"
    BY <2>1 DEF Free
  <2>3. {"at", "forwarder"} \subseteq DOMAIN Free /\ Free.at = "free"
    BY DEF Free
  <2>4. LinksOK(link) /\ OneCurrent(link, client) /\ Watched
    BY <2>1, <2>2, <2>3 DEF LinksOK, OneCurrent, Watched
  <2>5. DialersOK(dialer) /\ \A d \in Dialers : dialer[d].at = "idle"
    BY <2>1 DEF DialersOK, Resting
  <2> QED
    BY <2>1, <2>4, <2>5 DEF LinkInv, SlotOK, Apart, Holding
<1>2. LinkInv /\ [GuiLinkNext]_linkVars => LinkInv'
  <2> SUFFICES ASSUME LinkInv, [GuiLinkNext]_linkVars PROVE LinkInv'
    OBVIOUS
  <2>1. CASE Supervise
    <3>1. "supervisor" \in Dialers
      BY DEF Dialers
    <3> QED
      BY <2>1, <3>1, StartKept DEF Supervise, workspace
  <2>2. ASSUME NEW t, spawn_reconnect(t) PROVE LinkInv'
    <3>1. "switch" \in Dialers
      BY DEF Dialers
    <3> QED
      BY <2>2, <3>1, StartKept DEF spawn_reconnect, workspace
  <2>3. ASSUME NEW d \in Dialers, DialStep(d) PROVE LinkInv'
    BY <2>3, DialStepKept, CommitKept, PublishedStepKept DEF DialStep
  <2> QED
    BY <2>1, <2>2, <2>3, ForwarderKept, WorldKept DEF GuiLinkNext
<1>3. LinkInv => Watched
  BY DEF LinkInv
<1> QED
  BY <1>1, <1>2, <1>3, PTL DEF GuiLinkSpec
=============================================================================
