----------------------------- MODULE SessionsProofs -----------------------------
(***************************************************************************)
(* Proofs about Sessions.tla, for any finite set of connections and any     *)
(* sets of sensors and periods: types, and the balance between the          *)
(* scheduler's counts and the tokens the sessions hold.                     *)
(***************************************************************************)
EXTENDS Sessions, FiniteSetTheorems, TLAPS

IsTable(tb) == DOMAIN tb \subseteq Sensors /\ tb \in [DOMAIN tb -> Sched!Row]
Count(tb, s, p) == Sched!CountsOf(tb, s)[p]
Inhabited(tb) == \A s \in DOMAIN tb : \E p \in Periods : tb[s].counts[p] > 0

(* A count is a natural number, for sensors in the table and for others. *)
LEMMA CountType ==
  ASSUME NEW tb, IsTable(tb), NEW s \in Sensors, NEW p \in Periods
  PROVE  Count(tb, s, p) \in Nat
BY DEF IsTable, Count, Sched!CountsOf, Sched!NoCounts, Sched!Row

(* acquire adds one to exactly the counts of the tokens it takes. *)
LEMMA AcquireCounts ==
  ASSUME NEW tb, IsTable(tb), NEW T \in SUBSET Tokens
  PROVE  /\ IsTable(Sched!acquire(tb, T))
         /\ \A s \in Sensors, p \in Periods :
              Count(Sched!acquire(tb, T), s, p) =
                Count(tb, s, p) + (IF <<s, p>> \in T THEN 1 ELSE 0)
         /\ Inhabited(tb) => Inhabited(Sched!acquire(tb, T))
<1> DEFINE S == {t[1] : t \in T}
           new == Sched!acquire(tb, T)
<1>1. S \subseteq Sensors
  BY DEF Tokens
<1>2. DOMAIN new = DOMAIN tb \cup S
  BY DEF Sched!acquire
<1>3. \A s \in Sensors, p \in Periods : <<s, p>> \in T => s \in S
  OBVIOUS
<1>4. ASSUME NEW s \in S
      PROVE  /\ new[s] \in Sched!Row
             /\ \A p \in Periods : new[s].counts[p] =
                                    Count(tb, s, p) + (IF <<s, p>> \in T THEN 1 ELSE 0)
  <2> DEFINE f == [p \in Periods |-> Sched!CountsOf(tb, s)[p] + IF <<s, p>> \in T THEN 1 ELSE 0]
  <2>1. new[s] = [counts |-> f, due |-> "due"]
    BY <1>2 DEF Sched!acquire
  <2>2. \A p \in Periods : f[p] = Count(tb, s, p) + (IF <<s, p>> \in T THEN 1 ELSE 0)
    BY DEF Count
  <2>3. \A p \in Periods : Count(tb, s, p) + (IF <<s, p>> \in T THEN 1 ELSE 0) \in Nat
    BY <1>1, CountType
  <2>4. f \in [Periods -> Nat]
    BY <2>2, <2>3
  <2> HIDE DEF f
  <2> QED
    BY <2>1, <2>2, <2>4 DEF Sched!Row, Sched!DueClass
<1>5. ASSUME NEW s \in DOMAIN tb, s \notin S
      PROVE  new[s] = tb[s]
  BY <1>2, <1>5 DEF Sched!acquire
<1>6. IsTable(new)
  <2>1. \A s \in DOMAIN new : new[s] \in Sched!Row
    BY <1>2, <1>4, <1>5 DEF IsTable
  <2>2. new = [s \in DOMAIN new |-> new[s]]
    BY DEF Sched!acquire
  <2> QED
    BY <1>1, <1>2, <2>1, <2>2 DEF IsTable
<1>s. S = {t[1] : t \in T}
  OBVIOUS
<1> HIDE DEF new, S
<1>7. ASSUME NEW s \in Sensors, NEW p \in Periods
      PROVE  Count(new, s, p) = Count(tb, s, p) + (IF <<s, p>> \in T THEN 1 ELSE 0)
  <2>1. CASE s \in S
    BY <2>1, <1>2, <1>4 DEF Count, Sched!CountsOf
  <2>2. CASE s \notin S /\ s \in DOMAIN tb
    BY <2>2, <1>2, <1>3, <1>5, CountType DEF Count, Sched!CountsOf
  <2>3. CASE s \notin S /\ s \notin DOMAIN tb
    BY <2>3, <1>2, <1>3 DEF Count, Sched!CountsOf, Sched!NoCounts
  <2> QED
    BY <2>1, <2>2, <2>3
<1>8. ASSUME Inhabited(tb), NEW s \in DOMAIN new
      PROVE  \E p \in Periods : new[s].counts[p] > 0
  <2>1. CASE s \in S
    <3>1. PICK p \in Periods : <<s, p>> \in T
      BY <2>1, <1>s DEF Tokens
    <3>2. new[s].counts[p] = Count(tb, s, p) + 1
      BY <2>1, <3>1, <1>4
    <3> QED
      BY <2>1, <3>1, <3>2, <1>1, CountType
  <2>2. CASE s \notin S
    BY <2>2, <1>2, <1>5, <1>8 DEF Inhabited
  <2> QED
    BY <2>1, <2>2
<1> QED
  BY <1>6, <1>7, <1>8 DEF Inhabited, new

(* release keeps the table well formed, whatever tokens it is handed. *)
LEMMA ReleaseType ==
  ASSUME NEW tb, IsTable(tb), NEW T, NEW d \in Sched!Later
  PROVE  IsTable(Sched!release(tb, T, d))
<1> DEFINE new == Sched!release(tb, T, d)
           due(s) == IF s \in Static THEN tb[s].due ELSE d[s]
           left(s) == Sched!CountsLeft(tb, T, s)
<1>1. DOMAIN new \subseteq DOMAIN tb /\ new = [s \in DOMAIN new |-> new[s]]
  BY DEF Sched!release
<1>2. ASSUME NEW s \in DOMAIN new
      PROVE  new[s] = tb[s] \/ new[s] = [counts |-> left(s), due |-> due(s)]
  BY DEF Sched!release
<1>3. ASSUME NEW s \in DOMAIN tb
      PROVE  /\ tb[s] \in Sched!Row
             /\ left(s) \in [Periods -> Nat]
             /\ due(s) \in Sched!DueClass
  BY DEF IsTable, Sched!Row, Sched!CountsLeft, Sched!Later, Sched!DueClass
<1>4. DOMAIN tb \subseteq Sensors
  BY DEF IsTable
<1> HIDE DEF new, due, left
<1>5. \A s \in DOMAIN new : new[s] \in Sched!Row
  BY <1>1, <1>2, <1>3 DEF Sched!Row
<1> QED
  BY <1>1, <1>4, <1>5 DEF IsTable, new

(* release takes one off exactly the counts of the tokens given back, and a *)
(* sensor leaves the table when that empties its row, not before.           *)
LEMMA ReleaseCounts ==
  ASSUME NEW tb, IsTable(tb), NEW T \in SUBSET Tokens, NEW d \in Sched!Later,
         \A t \in T : Count(tb, t[1], t[2]) > 0
  PROVE  /\ IsTable(Sched!release(tb, T, d))
         /\ \A s \in Sensors, p \in Periods :
              Count(Sched!release(tb, T, d), s, p) =
                Count(tb, s, p) - (IF <<s, p>> \in T THEN 1 ELSE 0)
         /\ Inhabited(tb) => Inhabited(Sched!release(tb, T, d))
<1> DEFINE S == {t[1] : t \in T}
           left(s) == Sched!CountsLeft(tb, T, s)
           kept == {r \in DOMAIN tb : r \in S => \E p \in Periods : left(r)[p] > 0}
           new == Sched!release(tb, T, d)
<1>1. DOMAIN new = kept
  BY DEF Sched!release
<1>2. \A s \in Sensors, p \in Periods : <<s, p>> \in T => s \in S
  OBVIOUS
<1>3. ASSUME NEW s \in DOMAIN tb, NEW p \in Periods
      PROVE  /\ left(s)[p] = Count(tb, s, p) - (IF <<s, p>> \in T THEN 1 ELSE 0)
             /\ left(s)[p] \in Nat
  <2>1. s \in Sensors /\ tb[s].counts[p] \in Nat /\ Count(tb, s, p) = tb[s].counts[p]
    BY DEF IsTable, Sched!Row, Count, Sched!CountsOf
  <2>2. left(s)[p] = IF <<s, p>> \in T /\ tb[s].counts[p] > 0
                     THEN tb[s].counts[p] - 1 ELSE tb[s].counts[p]
    BY DEF Sched!CountsLeft
  <2>3. <<s, p>> \in T => Count(tb, s, p) > 0
    OBVIOUS
  <2> QED
    BY <2>1, <2>2, <2>3
<1>4. ASSUME NEW s \in kept, s \in S
      PROVE  new[s].counts = left(s)
  BY <1>1, <1>4 DEF Sched!release
<1>5. ASSUME NEW s \in kept, s \notin S
      PROVE  new[s] = tb[s]
  BY <1>1, <1>5 DEF Sched!release
<1>6. kept \subseteq DOMAIN tb /\ DOMAIN tb \subseteq Sensors
  BY DEF IsTable
<1>7. IsTable(new)
  BY ReleaseType
<1>8. \A s \in kept : s \in S => \E p \in Periods : left(s)[p] > 0
  OBVIOUS
<1>9. \A s \in DOMAIN tb \ kept : s \in S /\ \A p \in Periods : ~(left(s)[p] > 0)
  OBVIOUS
<1>t. \A s \in DOMAIN tb, p \in Periods : Count(tb, s, p) = tb[s].counts[p] /\ tb[s].counts[p] \in Nat
  BY DEF IsTable, Sched!Row, Count, Sched!CountsOf
<1>u. \A s \in Sensors, p \in Periods : s \notin DOMAIN tb => Count(tb, s, p) = 0
  BY DEF Count, Sched!CountsOf, Sched!NoCounts
<1>v. \A s \in Sensors, p \in Periods : s \notin DOMAIN new => Count(new, s, p) = 0
  BY DEF Count, Sched!CountsOf, Sched!NoCounts
<1>w. \A s \in DOMAIN new, p \in Periods : Count(new, s, p) = new[s].counts[p]
  BY DEF Count, Sched!CountsOf
<1>x. \A s \in Sensors, p \in Periods : <<s, p>> \in T => Count(tb, s, p) > 0
  OBVIOUS
<1> HIDE DEF new, S, left, kept
<1>10. ASSUME NEW s \in Sensors, NEW p \in Periods
       PROVE  Count(new, s, p) = Count(tb, s, p) - (IF <<s, p>> \in T THEN 1 ELSE 0)
  <2>1. CASE s \in kept /\ s \in S
    BY <2>1, <1>1, <1>3, <1>4, <1>6, <1>w
  <2>2. CASE s \in kept /\ s \notin S
    BY <2>2, <1>1, <1>2, <1>5, <1>6, <1>t, <1>w
  <2>3. CASE s \in DOMAIN tb \ kept
    BY <2>3, <1>1, <1>3, <1>9, <1>v
  <2>4. CASE s \notin DOMAIN tb
    BY <2>4, <1>1, <1>6, <1>u, <1>v, <1>x
  <2> QED
    BY <2>1, <2>2, <2>3, <2>4
<1>11. ASSUME Inhabited(tb), NEW s \in DOMAIN new
       PROVE  \E p \in Periods : new[s].counts[p] > 0
  <2>1. CASE s \in S
    BY <2>1, <1>1, <1>4, <1>8
  <2>2. CASE s \notin S
    BY <2>2, <1>1, <1>5, <1>6, <1>11 DEF Inhabited
  <2> QED
    BY <2>1, <2>2
<1> QED
  BY <1>7, <1>10, <1>11 DEF Inhabited, new

(* Planning and committing a tick only move due times. *)
LEMMA TickCounts ==
  ASSUME NEW tb, IsTable(tb), NEW results, NEW d \in Sched!Later
  PROVE  \A new \in {Sched!tick_plan(tb), Sched!tick_commit(tb, results, d)} :
           /\ IsTable(new)
           /\ DOMAIN new = DOMAIN tb
           /\ \A s \in DOMAIN tb : new[s].counts = tb[s].counts
BY DEF IsTable, Sched!Row, Sched!DueClass, Sched!Later, Sched!tick_plan, Sched!tick_commit

(* A table with the same counts balances alike. *)
LEMMA SameCounts ==
  ASSUME NEW tb, NEW new, DOMAIN new = DOMAIN tb,
         \A s \in DOMAIN tb : new[s].counts = tb[s].counts
  PROVE  /\ \A s \in Sensors, p \in Periods : Count(new, s, p) = Count(tb, s, p)
         /\ Inhabited(tb) => Inhabited(new)
BY DEF Count, Inhabited, Sched!CountsOf
-----------------------------------------------------------------------------
(* The initial state is well typed. *)
LEMMA InitTypeOK == Init => TypeOK
<1> SUFFICES ASSUME Init PROVE TypeOK
  OBVIOUS
<1>1. DOMAIN table = {} /\ table = [s \in DOMAIN table |-> table[s]]
  BY DEF Init, Sched!Init
<1>2. Sched!TypeOK
  BY <1>1 DEF Init, Sched!Init, Sched!TypeOK
<1> QED
  BY <1>2, SessionsAssumption DEF Init, TypeOK, Idle, SamplerState, SamplerSteps, Phases

(* Every step keeps the state well typed. *)
LEMMA NextTypeOK == TypeOK /\ [Next]_vars => TypeOK'
<1> SUFFICES ASSUME TypeOK, [Next]_vars
             PROVE  TypeOK'
  OBVIOUS
<1> USE SessionsAssumption DEF TypeOK, Sched!TypeOK, Phases, HasRoom
<1>t. IsTable(table)
  BY DEF IsTable
<1>1. ASSUME NEW c \in Clients, AcceptLoop(c) PROVE TypeOK'
  <2>1. CASE Accept(c)
    <3>1. PICK at \in Phases : phase' = [phase EXCEPT ![c] = at]
      BY <2>1 DEF Accept
    <3> QED
      BY <2>1, <3>1 DEF Accept, sched
  <2>2. CASE SpawnSession(c)
    BY <2>2 DEF SpawnSession, sched
  <2>3. CASE TurnAway(c)
    BY <2>3 DEF TurnAway, sched
  <2> QED
    BY <1>1, <2>1, <2>2, <2>3 DEF AcceptLoop
<1>2. ASSUME NEW c \in Clients, HandshakeFails(c) PROVE TypeOK'
  BY <1>2 DEF HandshakeFails, sched
<1>3. ASSUME NEW c \in Clients, Register(c) PROVE TypeOK'
  BY <1>3 DEF Register, sched
<1>4. ASSUME NEW c \in Clients, NEW T \in Wanted, Subscribe(c, T) PROVE TypeOK'
  <2>1. T \in SUBSET Tokens
    BY DEF Wanted
  <2>2. IsTable(Sched!acquire(table, T))
    BY <1>t, <2>1, AcquireCounts
  <2>3. IsTable(table')
    BY <1>4, <2>2, ReleaseType DEF Subscribe, Duplicates
  <2>4. Sched!TypeOK'
    BY <1>4, <2>3 DEF Subscribe, IsTable
  <2>5. /\ ledger' \in [Clients -> SUBSET Tokens]
        /\ reading' \in [Clients -> [Sensors -> {"none", "dropped", "queued"}]]
    BY <1>4, <2>1 DEF Subscribe
  <2> QED
    BY <1>4, <2>4, <2>5 DEF Subscribe
<1>5. ASSUME NEW c \in Clients, NEW S \in SUBSET Sensors, Unsubscribe(c, S) PROVE TypeOK'
  BY <1>5 DEF Unsubscribe, sched
<1>6. ASSUME NEW c \in Clients, ReleaseRemoved(c) PROVE TypeOK'
  <2>1. IsTable(table')
    BY <1>6, <1>t, ReleaseType DEF ReleaseRemoved
  <2> QED
    BY <1>6, <2>1 DEF ReleaseRemoved, IsTable
<1>7. ASSUME NEW c \in Clients, ReadLoopEnds(c) PROVE TypeOK'
  BY <1>7 DEF ReadLoopEnds, sched
<1>8. ASSUME NEW c \in Clients, RemoveSink(c) PROVE TypeOK'
  BY <1>8 DEF RemoveSink, sched
<1>9. ASSUME NEW c \in Clients, DrainLedger(c) PROVE TypeOK'
  BY <1>9 DEF DrainLedger, sched
<1>10. ASSUME NEW c \in Clients, EndSession(c) PROVE TypeOK'
  <2>1. IsTable(table')
    BY <1>10, <1>t, ReleaseType DEF EndSession
  <2> QED
    BY <1>10, <2>1 DEF EndSession, IsTable
<1>11. ASSUME NEW c \in Clients, PumpWrites(c) PROVE TypeOK'
  BY <1>11 DEF PumpWrites, sched
<1>12. ASSUME NEW c \in Clients, PumpExits(c) PROVE TypeOK'
  BY <1>12 DEF PumpExits, sched
<1>13. ASSUME SamplerPlan PROVE TypeOK'
  <2>1. PICK d : d \in Sched!Later
    <3>1. [s \in Sensors |-> "due"] \in Sched!Later
      BY DEF Sched!Later
    <3> QED BY <3>1
  <2>2. IsTable(table')
    BY <1>13, <1>t, <2>1, TickCounts DEF SamplerPlan
  <2> QED
    BY <1>13, <2>2 DEF SamplerPlan, IsTable, Sched!DueSet, SamplerState, SamplerSteps
<1>14. ASSUME NEW results \in Sched!Results(planned), NEW d \in Sched!Later,
              SamplerCommit(results, d)
       PROVE  TypeOK'
  <2>1. IsTable(table')
    BY <1>14, <1>t, TickCounts DEF SamplerCommit
  <2>2. Produced(results) \subseteq Sensors
    BY DEF Produced
  <2>3. sampler' \in SamplerState
    BY <1>14, <2>2 DEF SamplerCommit, SamplerState, SamplerSteps, Idle
  <2> QED
    BY <1>14, <2>1, <2>3 DEF SamplerCommit, IsTable
<1>15. ASSUME SamplerSnapshot PROVE TypeOK'
  BY <1>15 DEF SamplerSnapshot, sched, SamplerState, SamplerSteps
<1>16. ASSUME NEW c \in Clients, SamplerFilter(c) PROVE TypeOK'
  <2>1. {c} \X (sampler.samples \cap SensorsOf(ledger[c])) \subseteq Clients \X Sensors
    BY DEF SamplerState
  <2>2. sampler' \in SamplerState
    BY <1>16, <2>1 DEF SamplerFilter, SamplerState
  <2> QED
    BY <1>16, <2>2 DEF SamplerFilter, sched
<1>17. ASSUME NEW c \in Clients, NEW s \in Sensors, SamplerSend(c, s) PROVE TypeOK'
  <2> DEFINE Seen == {"none", "dropped", "queued"}
  <2>1. sampler' \in SamplerState
    <3>1. /\ [sampler EXCEPT !.sends = {}, !.dead = @ \cup {c}] \in SamplerState
          /\ [sampler EXCEPT !.sends = @ \ {<<c, s>>}] \in SamplerState
      BY DEF SamplerState
    <3> QED
      BY <1>17, <3>1 DEF SamplerSend
  <2>2. queue' \in [Clients -> 0..QueueCap]
    BY <1>17 DEF SamplerSend
  <2>3. reading' \in [Clients -> [Sensors -> Seen]]
    <3>1. \A v \in Seen : [reading EXCEPT ![c] = [@ EXCEPT ![s] = v]] \in [Clients -> [Sensors -> Seen]]
      OBVIOUS
    <3>2. \/ reading' = reading
          \/ \E v \in Seen : reading' = [reading EXCEPT ![c] = [@ EXCEPT ![s] = v]]
      <4>1. CASE pump[c] # "running"
        BY <1>17, <4>1 DEF SamplerSend
      <4>2. CASE pump[c] = "running" /\ queue[c] < QueueCap
        BY <1>17, <4>2 DEF SamplerSend
      <4>3. CASE pump[c] = "running" /\ ~(queue[c] < QueueCap)
        <5>1. reading' = [reading EXCEPT ![c] =
                [@ EXCEPT ![s] = IF reading[c][s] = "none" THEN "dropped" ELSE reading[c][s]]]
          BY <1>17, <4>3 DEF SamplerSend
        <5> QED
          BY <5>1
      <4> QED
        BY <4>1, <4>2, <4>3
    <3> QED
      BY <3>1, <3>2, ZenonT(30)
  <2> QED
    BY <1>17, <2>1, <2>2, <2>3 DEF SamplerSend, sched
<1>18. ASSUME SamplerForgetsDead PROVE TypeOK'
  BY <1>18 DEF SamplerForgetsDead, sched, SamplerState, SamplerSteps, Idle
<1>19. ASSUME BroadcastSensorList PROVE TypeOK'
  BY <1>19 DEF BroadcastSensorList, sched
<1>20. ASSUME NEW s \in Sensors, BecomesDue(s) PROVE TypeOK'
  BY <1>20 DEF BecomesDue, Sched!Row, Sched!DueClass
<1>21. CASE UNCHANGED vars
  BY <1>21 DEF vars
<1> QED
  BY <1>1, <1>2, <1>3, <1>4, <1>5, <1>6, <1>7, <1>8, <1>9, <1>10, <1>11, <1>12, <1>13, <1>14,
     <1>15, <1>16, <1>17, <1>18, <1>19, <1>20, <1>21 DEF Next, ReadLoop, Sampler

(* The state of every reachable session is well typed. *)
THEOREM TypeCorrect == Spec => []TypeOK
BY InitTypeOK, NextTypeOK, PTL DEF Spec

-----------------------------------------------------------------------------
RefcountInv == TypeOK /\ TokensOwedOnce /\ RefcountBalanced

(* RefcountBalanced, in the terms of the lemmas above. *)
LEMMA BalancedMeans ==
  RefcountBalanced <=>
    /\ \A s \in Sensors, p \in Periods : Count(table, s, p) = Cardinality(Holders(<<s, p>>))
    /\ Inhabited(table)
BY DEF RefcountBalanced, Count, Inhabited, Tokens

(* Holders change by one client at a time, and so do their numbers. *)
LEMMA HoldersFinite ==
  ASSUME NEW t
  PROVE  /\ IsFiniteSet(Holders(t))
         /\ Cardinality(Holders(t)) \in Nat
         /\ Holders(t) # {} => Cardinality(Holders(t)) > 0
BY SessionsAssumption, FS_Subset, FS_CardinalityType, FS_EmptySet DEF Holders

(* A step that keeps the counts and every Holders set keeps the balance. *)
LEMMA BalanceKept ==
  ASSUME RefcountBalanced, \A t \in Tokens : Holders(t)' = Holders(t),
         DOMAIN table' = DOMAIN table,
         \A s \in DOMAIN table : table'[s].counts = table[s].counts
  PROVE  RefcountBalanced'
<1>1. /\ \A s \in Sensors, p \in Periods : Count(table', s, p) = Count(table, s, p)
      /\ Inhabited(table) => Inhabited(table')
  BY SameCounts
<1>2. \A s \in Sensors, p \in Periods : <<s, p>> \in Tokens
  BY DEF Tokens
<1>3. \A t \in Tokens : Cardinality(Holders(t))' = Cardinality(Holders(t))
  OBVIOUS
<1>4. \A s \in Sensors, p \in Periods : Count(table', s, p) = Cardinality(Holders(<<s, p>>)')
  BY <1>1, <1>2, BalancedMeans
<1>5. Inhabited(table')
  BY <1>1, BalancedMeans
<1> QED
  BY <1>4, <1>5 DEF RefcountBalanced, Count, Inhabited, Tokens

(* At the start nobody holds anything and the table is empty. *)
LEMMA InitRefcount == Init => RefcountInv
<1> SUFFICES ASSUME Init PROVE RefcountInv
  OBVIOUS
<1>1. DOMAIN table = {}
  BY DEF Init, Sched!Init
<1>2. \A t \in Tokens : Holders(t) = {}
  BY DEF Init, Holders
<1>3. RefcountBalanced
  BY <1>1, <1>2, FS_EmptySet DEF RefcountBalanced, Sched!CountsOf, Sched!NoCounts, Tokens
<1>4. TokensOwedOnce
  BY DEF Init, TokensOwedOnce
<1> QED
  BY <1>3, <1>4, InitTypeOK DEF RefcountInv

(* Subscribe: the client joins the holders of exactly the fresh tokens. *)
LEMMA SubscribeBalance ==
  ASSUME RefcountInv, NEW c \in Clients, NEW T \in Wanted, Subscribe(c, T)
  PROVE  RefcountBalanced' /\ TokensOwedOnce'
<1> DEFINE fresh == T \ ledger[c]
           again == T \cap ledger[c]
           mid == Sched!acquire(table, T)
<1>1. T \in SUBSET Tokens /\ again \in SUBSET Tokens /\ IsTable(table)
  BY DEF Wanted, RefcountInv, TypeOK, Sched!TypeOK, IsTable
<1>2. PICK d \in Sched!Later : table' = Sched!release(mid, again, d)
  BY DEF Subscribe, Duplicates
<1>3. /\ IsTable(mid)
      /\ \A s \in Sensors, p \in Periods :
           Count(mid, s, p) = Count(table, s, p) + (IF <<s, p>> \in T THEN 1 ELSE 0)
      /\ Inhabited(table) => Inhabited(mid)
  BY <1>1, AcquireCounts
<1>a. again \subseteq T /\ \A t \in Tokens : t \in fresh <=> t \in T /\ t \notin again
  OBVIOUS
<1> HIDE DEF mid
<1>4. \A t \in again : Count(mid, t[1], t[2]) > 0
  <2> SUFFICES ASSUME NEW t \in again PROVE Count(mid, t[1], t[2]) > 0
    OBVIOUS
  <2> HIDE DEF again, fresh
  <2>1. t[1] \in Sensors /\ t[2] \in Periods /\ t = <<t[1], t[2]>>
    BY <1>1 DEF Tokens
  <2>2. Count(mid, t[1], t[2]) = Count(table, t[1], t[2]) + 1
    BY <1>3, <1>a, <2>1
  <2> QED
    BY <2>1, <2>2, <1>1, CountType
<1>5. \A s \in Sensors, p \in Periods :
        Count(table', s, p) = Count(table, s, p) + (IF <<s, p>> \in fresh THEN 1 ELSE 0)
  <2>0. IsTable(mid) /\ again \in SUBSET Tokens
    BY <1>1, <1>3
  <2> HIDE DEF again, fresh
  <2>1. /\ IsTable(Sched!release(mid, again, d))
        /\ \A s \in Sensors, p \in Periods :
             Count(Sched!release(mid, again, d), s, p) =
               Count(mid, s, p) - (IF <<s, p>> \in again THEN 1 ELSE 0)
        /\ Inhabited(mid) => Inhabited(Sched!release(mid, again, d))
    BY <2>0, <1>4, ReleaseCounts
  <2> SUFFICES ASSUME NEW s \in Sensors, NEW p \in Periods
               PROVE  Count(table', s, p) =
                        Count(table, s, p) + (IF <<s, p>> \in fresh THEN 1 ELSE 0)
    OBVIOUS
  <2>2. Count(table, s, p) \in Nat /\ <<s, p>> \in Tokens
    BY <1>1, CountType DEF Tokens
  <2>3. Count(table', s, p) = Count(mid, s, p) - (IF <<s, p>> \in again THEN 1 ELSE 0)
    BY <1>2, <2>1
  <2>4. Count(mid, s, p) = Count(table, s, p) + (IF <<s, p>> \in T THEN 1 ELSE 0)
    BY <1>3
  <2>5. CASE <<s, p>> \in again
    BY <1>a, <2>2, <2>3, <2>4, <2>5
  <2>6. CASE <<s, p>> \notin again
    BY <1>a, <2>2, <2>3, <2>4, <2>6
  <2> QED
    BY <2>5, <2>6
<1>6. Inhabited(table')
  BY <1>1, <1>2, <1>3, <1>4, ReleaseCounts, BalancedMeans DEF RefcountInv
<1>7. removed[c] = {} /\ removed' = removed /\ ledger' = [ledger EXCEPT ![c] = @ \cup T]
  BY DEF Subscribe
<1>8. \A t \in Tokens : Holders(t)' = IF t \in fresh THEN Holders(t) \cup {c} ELSE Holders(t)
  BY <1>7 DEF Holders, RefcountInv, TypeOK
<1>9. \A t \in fresh : c \notin Holders(t)
  BY <1>7 DEF Holders
<1>10. ASSUME NEW s \in Sensors, NEW p \in Periods
       PROVE  Count(table', s, p) = Cardinality(Holders(<<s, p>>)')
  <2>1. <<s, p>> \in Tokens
    BY DEF Tokens
  <2>2. Count(table, s, p) = Cardinality(Holders(<<s, p>>))
    BY BalancedMeans DEF RefcountInv
  <2>3. CASE <<s, p>> \in fresh
    <3>1. Cardinality(Holders(<<s, p>>) \cup {c}) = Cardinality(Holders(<<s, p>>)) + 1
      BY <1>9, <2>3, HoldersFinite, FS_AddElement
    <3> QED
      BY <1>5, <1>8, <2>1, <2>2, <2>3, <3>1
  <2>4. CASE <<s, p>> \notin fresh
    BY <1>1, <1>5, <1>8, <2>1, <2>2, <2>4, CountType
  <2> QED
    BY <2>3, <2>4
<1>11. TokensOwedOnce'
  BY <1>7 DEF TokensOwedOnce, RefcountInv, TypeOK, Subscribe
<1> QED
  BY <1>6, <1>10, <1>11 DEF RefcountBalanced, Count, Inhabited, Tokens

(* Giving the owed tokens back: the client leaves the holders of exactly them. *)
LEMMA ReleaseBalance ==
  ASSUME RefcountInv, NEW c \in Clients, NEW d \in Sched!Later,
         table' = Sched!release(table, removed[c], d),
         removed' = [removed EXCEPT ![c] = {}],
         ledger' = ledger
  PROVE  RefcountBalanced'
<1>1. removed[c] \in SUBSET Tokens /\ IsTable(table) /\ ledger[c] \cap removed[c] = {}
  BY DEF RefcountInv, TypeOK, Sched!TypeOK, IsTable, TokensOwedOnce
<1>2. \A s \in Sensors, p \in Periods : Count(table, s, p) = Cardinality(Holders(<<s, p>>))
  BY BalancedMeans DEF RefcountInv
<1>3. \A t \in removed[c] : c \in Holders(t)
  BY DEF Holders
<1>4. \A t \in removed[c] : Count(table, t[1], t[2]) > 0
  <2> SUFFICES ASSUME NEW t \in removed[c] PROVE Count(table, t[1], t[2]) > 0
    OBVIOUS
  <2>1. t[1] \in Sensors /\ t[2] \in Periods /\ t = <<t[1], t[2]>>
    BY <1>1 DEF Tokens
  <2> QED
    BY <1>2, <1>3, <2>1, HoldersFinite
<1>5. /\ \A s \in Sensors, p \in Periods :
           Count(table', s, p) = Count(table, s, p) - (IF <<s, p>> \in removed[c] THEN 1 ELSE 0)
      /\ Inhabited(table')
  BY <1>1, <1>4, ReleaseCounts, BalancedMeans DEF RefcountInv
<1>6. \A t \in Tokens :
        Holders(t)' = IF t \in removed[c] THEN Holders(t) \ {c} ELSE Holders(t)
  BY <1>1 DEF Holders, RefcountInv, TypeOK
<1>7. ASSUME NEW s \in Sensors, NEW p \in Periods
      PROVE  Count(table', s, p) = Cardinality(Holders(<<s, p>>)')
  <2>1. <<s, p>> \in Tokens
    BY DEF Tokens
  <2>2. CASE <<s, p>> \in removed[c]
    <3>1. Cardinality(Holders(<<s, p>>) \ {c}) = Cardinality(Holders(<<s, p>>)) - 1
      BY <1>3, <2>2, HoldersFinite, FS_RemoveElement
    <3> QED
      BY <1>2, <1>5, <1>6, <2>1, <2>2, <3>1
  <2>3. CASE <<s, p>> \notin removed[c]
    BY <1>1, <1>2, <1>5, <1>6, <2>1, <2>3, CountType
  <2> QED
    BY <2>2, <2>3
<1> QED
  BY <1>5, <1>7 DEF RefcountBalanced, Count, Inhabited, Tokens

(* Every step keeps the counts balanced. *)
LEMMA NextRefcount == RefcountInv /\ [Next]_vars => RefcountInv'
<1> SUFFICES ASSUME RefcountInv, [Next]_vars
             PROVE  RefcountBalanced' /\ TokensOwedOnce'
  BY NextTypeOK DEF RefcountInv
<1> USE DEF RefcountInv
<1>f. ASSUME UNCHANGED <<table, ledger, removed>>,
             \A c \in Clients : phase'[c] \in {"leaving", "unmapped"} =>
                \/ phase[c] \in {"leaving", "unmapped"}
                \/ removed[c] = {}
      PROVE  RefcountBalanced' /\ TokensOwedOnce'
  BY <1>f, BalanceKept DEF Holders, TokensOwedOnce
<1>g. ASSUME UNCHANGED <<ledger, removed, phase>>,
             DOMAIN table' = DOMAIN table,
             \A s \in DOMAIN table : table'[s].counts = table[s].counts
      PROVE  RefcountBalanced' /\ TokensOwedOnce'
  BY <1>g, BalanceKept DEF Holders, TokensOwedOnce
<1>t. IsTable(table) /\ phase \in [Clients -> Phases]
  BY DEF TypeOK, Sched!TypeOK, IsTable
<1>1. ASSUME NEW c \in Clients,
             AcceptLoop(c) \/ HandshakeFails(c) \/ Register(c) \/ ReadLoopEnds(c) \/ RemoveSink(c)
      PROVE  RefcountBalanced' /\ TokensOwedOnce'
  BY <1>1, <1>f, <1>t DEF AcceptLoop, Accept, SpawnSession, TurnAway, AtTheDoor, HandshakeFails, Register,
     ReadLoopEnds, RemoveSink, sched
<1>2. ASSUME NEW c \in Clients, PumpWrites(c) \/ PumpExits(c)
      PROVE  RefcountBalanced' /\ TokensOwedOnce'
  BY <1>2, <1>f DEF PumpWrites, PumpExits, sched
<1>3. ASSUME NEW c \in Clients, NEW T \in Wanted, Subscribe(c, T)
      PROVE  RefcountBalanced' /\ TokensOwedOnce'
  BY <1>3, SubscribeBalance
<1>4. ASSUME NEW c \in Clients, NEW S \in SUBSET Sensors, Unsubscribe(c, S)
      PROVE  RefcountBalanced' /\ TokensOwedOnce'
  <2> DEFINE out == {t \in ledger[c] : t[1] \in S}
  <2>1. /\ ledger' = [ledger EXCEPT ![c] = @ \ out]
        /\ removed' = [removed EXCEPT ![c] = out]
        /\ removed[c] = {} /\ phase[c] = "open" /\ UNCHANGED <<table, phase>>
    BY <1>4 DEF Unsubscribe, sched
  <2>2. \A t : Holders(t)' = Holders(t)
    BY <2>1 DEF Holders, TypeOK
  <2>3. TokensOwedOnce'
    BY <2>1 DEF TokensOwedOnce, TypeOK
  <2> QED
    BY <2>1, <2>2, <2>3, BalanceKept
<1>5. ASSUME NEW c \in Clients, ReleaseRemoved(c)
      PROVE  RefcountBalanced' /\ TokensOwedOnce'
  <2>1. PICK d \in Sched!Later : table' = Sched!release(table, removed[c], d)
    BY <1>5 DEF ReleaseRemoved
  <2>2. RefcountBalanced'
    BY <1>5, <2>1, ReleaseBalance DEF ReleaseRemoved
  <2>3. TokensOwedOnce'
    BY <1>5 DEF ReleaseRemoved, TokensOwedOnce, TypeOK
  <2> QED
    BY <2>2, <2>3
<1>6. ASSUME NEW c \in Clients, DrainLedger(c)
      PROVE  RefcountBalanced' /\ TokensOwedOnce'
  <2>1. /\ ledger' = [ledger EXCEPT ![c] = {}]
        /\ removed' = [removed EXCEPT ![c] = ledger[c]]
        /\ phase' = [phase EXCEPT ![c] = "drained"]
        /\ removed[c] = {} /\ UNCHANGED table
    BY <1>6 DEF DrainLedger, sched, TokensOwedOnce
  <2>2. \A t : Holders(t)' = Holders(t)
    BY <2>1 DEF Holders, TypeOK
  <2>3. TokensOwedOnce'
    BY <2>1, <1>t DEF TokensOwedOnce, TypeOK
  <2> QED
    BY <2>1, <2>2, <2>3, BalanceKept
<1>7. ASSUME NEW c \in Clients, EndSession(c)
      PROVE  RefcountBalanced' /\ TokensOwedOnce'
  <2>1. PICK d \in Sched!Later : table' = Sched!release(table, removed[c], d)
    BY <1>7 DEF EndSession
  <2>2. RefcountBalanced'
    BY <1>7, <2>1, ReleaseBalance DEF EndSession
  <2>3. TokensOwedOnce'
    BY <1>7, <1>t DEF EndSession, TokensOwedOnce, TypeOK
  <2> QED
    BY <2>2, <2>3
<1>8. CASE SamplerPlan
  <2>1. [s \in Sensors |-> "due"] \in Sched!Later
    BY DEF Sched!Later
  <2>2. DOMAIN table' = DOMAIN table /\ \A s \in DOMAIN table : table'[s].counts = table[s].counts
    BY <1>8, <1>t, <2>1, TickCounts DEF SamplerPlan
  <2> QED
    BY <1>8, <1>g, <2>2 DEF SamplerPlan
<1>9. ASSUME NEW results \in Sched!Results(planned), NEW d \in Sched!Later,
             SamplerCommit(results, d)
      PROVE  RefcountBalanced' /\ TokensOwedOnce'
  <2>1. DOMAIN table' = DOMAIN table /\ \A s \in DOMAIN table : table'[s].counts = table[s].counts
    BY <1>9, <1>t, TickCounts DEF SamplerCommit
  <2> QED
    BY <1>9, <1>g, <2>1 DEF SamplerCommit
<1>10. ASSUME NEW s \in Sensors, BecomesDue(s)
       PROVE  RefcountBalanced' /\ TokensOwedOnce'
  <2>1. DOMAIN table' = DOMAIN table /\ \A r \in DOMAIN table : table'[r].counts = table[r].counts
    BY <1>10, <1>t DEF BecomesDue, IsTable, Sched!Row
  <2> QED
    BY <1>10, <1>g, <2>1 DEF BecomesDue
<1>11. CASE SamplerSnapshot \/ SamplerForgetsDead \/ BroadcastSensorList
  BY <1>11, <1>f DEF SamplerSnapshot, SamplerForgetsDead, BroadcastSensorList, sched
<1>12. ASSUME NEW c \in Clients, SamplerFilter(c)
       PROVE  RefcountBalanced' /\ TokensOwedOnce'
  BY <1>12, <1>f DEF SamplerFilter, sched
<1>13. ASSUME NEW c \in Clients, NEW s \in Sensors, SamplerSend(c, s)
       PROVE  RefcountBalanced' /\ TokensOwedOnce'
  BY <1>13, <1>f DEF SamplerSend, sched
<1>14. CASE UNCHANGED vars
  BY <1>14, <1>f DEF vars
<1> QED
  BY <1>1, <1>2, <1>3, <1>4, <1>5, <1>6, <1>7, <1>8, <1>9, <1>10, <1>11, <1>12, <1>13, <1>14
     DEF Next, ReadLoop, Sampler

(* For any number of clients, sensors and periods: the scheduler's count of  *)
(* every (sensor, period) is always the number of sessions that hold it or   *)
(* owe it back, and an entry exists only while somebody does.                *)
THEOREM RefcountsBalance == Spec => []RefcountBalanced
<1>1. RefcountInv => RefcountBalanced
  BY DEF RefcountInv
<1> QED
  BY <1>1, InitRefcount, NextRefcount, PTL DEF Spec

-----------------------------------------------------------------------------
SinkInv == TypeOK /\ SinksAreSessions /\ SamplerMemory

(* No pump runs and no sink is registered at the start. *)
LEMMA InitSinks == Init => SinkInv
<1> SUFFICES ASSUME Init PROVE SinkInv
  OBVIOUS
<1>1. TypeOK
  BY InitTypeOK
<1> QED
  BY <1>1 DEF SinkInv, SinksAreSessions, SamplerMemory, Init, Idle

(* Every step keeps the client map in line with the pumps. *)
LEMMA NextSinks == SinkInv /\ [Next]_vars => SinkInv'
<1> SUFFICES ASSUME SinkInv, [Next]_vars PROVE SinkInv'
  OBVIOUS
<1>t. TypeOK /\ TypeOK'
  BY NextTypeOK DEF SinkInv
<1> SUFFICES SinksAreSessions' /\ SamplerMemory'
  BY <1>t DEF SinkInv
<1>p. /\ phase \in [Clients -> Phases] /\ sinks \subseteq Clients
      /\ pump \in [Clients -> {"none", "running", "exited"}]
      /\ sampler \in SamplerState
  BY <1>t DEF TypeOK
<1>s. /\ sampler.dead \subseteq Clients /\ sampler.todo \subseteq Clients
      /\ sampler.sends \subseteq Clients \X Sensors
  BY <1>p DEF SamplerState
<1>i. SinksAreSessions /\ SamplerMemory
  BY DEF SinkInv
<1> USE <1>p, <1>s, <1>i DEF SinksAreSessions, SamplerMemory, NotYetOpen
<1>1. ASSUME NEW c \in Clients, AcceptLoop(c) \/ HandshakeFails(c)
      PROVE  SinksAreSessions' /\ SamplerMemory'
  BY <1>1 DEF AcceptLoop, Accept, SpawnSession, TurnAway, AtTheDoor, HandshakeFails
<1>2. ASSUME NEW c \in Clients, Register(c)
      PROVE  SinksAreSessions' /\ SamplerMemory'
  BY <1>2 DEF Register
<1>3. ASSUME UNCHANGED <<phase, pump, sinks, sampler>>
      PROVE  SinksAreSessions' /\ SamplerMemory'
  BY <1>3
<1>4. ASSUME NEW c \in Clients, ReadLoopEnds(c)
      PROVE  SinksAreSessions' /\ SamplerMemory'
  BY <1>4 DEF ReadLoopEnds
<1>5. ASSUME NEW c \in Clients, RemoveSink(c)
      PROVE  SinksAreSessions' /\ SamplerMemory'
  BY <1>5 DEF RemoveSink
<1>6. ASSUME NEW c \in Clients, DrainLedger(c) \/ EndSession(c)
      PROVE  SinksAreSessions' /\ SamplerMemory'
  <2>1. c \notin sinks /\ pump[c] # "running"
    BY <1>6 DEF DrainLedger, EndSession
  <2>2. /\ UNCHANGED <<pump, sinks, sampler>>
        /\ phase' = [phase EXCEPT ![c] = "drained"] \/ phase' = [phase EXCEPT ![c] = "gone"]
    BY <1>6 DEF DrainLedger, EndSession
  <2> QED
    BY <2>1, <2>2
<1>7. ASSUME NEW c \in Clients, PumpExits(c)
      PROVE  SinksAreSessions' /\ SamplerMemory'
  <2>1. /\ UNCHANGED <<phase, sinks, sampler>> /\ pump[c] = "running"
        /\ pump' = [pump EXCEPT ![c] = "exited"]
    BY <1>7 DEF PumpExits
  <2> QED
    BY <2>1
<1>8. ASSUME UNCHANGED <<phase, pump, sinks>>,
             \A c \in sampler'.dead : pump[c] = "exited",
             \A c \in sampler'.todo : pump[c] # "none",
             \A c \in Clients, s \in Sensors : <<c, s>> \in sampler'.sends => pump[c] # "none"
      PROVE  SinksAreSessions' /\ SamplerMemory'
  BY <1>8
<1>9. CASE SamplerPlan \/ SamplerSnapshot
  <2>1. /\ UNCHANGED <<phase, pump, sinks>>
        /\ sampler'.dead = sampler.dead /\ sampler'.sends = sampler.sends
        /\ sampler'.todo \in {sampler.todo, sinks}
    BY <1>9 DEF SamplerPlan, SamplerSnapshot, SamplerState
  <2> QED
    BY <1>8, <2>1
<1>10. ASSUME NEW results \in Sched!Results(planned), NEW d \in Sched!Later,
              SamplerCommit(results, d)
       PROVE  SinksAreSessions' /\ SamplerMemory'
  <2>1. UNCHANGED <<phase, pump, sinks>>
    BY <1>10 DEF SamplerCommit
  <2>2. sampler'.dead = {} /\ sampler'.sends = {} /\ sampler'.todo = {}
    BY <1>10 DEF SamplerCommit, Idle
  <2> QED
    BY <1>8, <2>1, <2>2
<1>11. ASSUME NEW c \in Clients, SamplerFilter(c)
       PROVE  SinksAreSessions' /\ SamplerMemory'
  <2>1. /\ UNCHANGED <<phase, pump, sinks>> /\ c \in sampler.todo
        /\ sampler'.dead = sampler.dead /\ sampler'.todo \subseteq sampler.todo
        /\ sampler'.sends = {c} \X (sampler.samples \cap SensorsOf(ledger[c]))
    BY <1>11 DEF SamplerFilter, SamplerState
  <2>2. \A b \in Clients, s \in Sensors : <<b, s>> \in sampler'.sends => b = c
    BY <2>1
  <2> QED
    BY <1>8, <2>1, <2>2
<1>12. ASSUME NEW c \in Clients, NEW s \in Sensors, SamplerSend(c, s)
       PROVE  SinksAreSessions' /\ SamplerMemory'
  <2>1. /\ UNCHANGED <<phase, pump, sinks>> /\ <<c, s>> \in sampler.sends
        /\ sampler'.todo = sampler.todo /\ sampler'.sends \subseteq sampler.sends
    BY <1>12, ZenonT(30) DEF SamplerSend, SamplerState
  <2>2. sampler'.dead = sampler.dead \/ (pump[c] # "running" /\ sampler'.dead = sampler.dead \cup {c})
    BY <1>12 DEF SamplerSend, SamplerState
  <2> QED
    BY <1>8, <2>1, <2>2
<1>13. CASE SamplerForgetsDead
  <2>1. /\ UNCHANGED <<phase, pump>> /\ sinks' = sinks \ sampler.dead
        /\ sampler'.dead = {} /\ sampler'.sends = {} /\ sampler'.todo = {}
    BY <1>13 DEF SamplerForgetsDead, Idle
  <2> QED
    BY <2>1
<1>14. CASE BroadcastSensorList
  <2>1. UNCHANGED <<phase, pump, sampler>> /\ sinks' = {c \in sinks : pump[c] = "running"}
    BY <1>14 DEF BroadcastSensorList
  <2> QED
    BY <2>1
<1>15. CASE \/ \E c \in Clients : \/ \E T \in Wanted : Subscribe(c, T)
                                 \/ \E S \in SUBSET Sensors : Unsubscribe(c, S)
                                 \/ ReleaseRemoved(c) \/ PumpWrites(c)
            \/ \E s \in Sensors : BecomesDue(s)
            \/ UNCHANGED vars
  BY <1>3, <1>15 DEF Subscribe, Unsubscribe, ReleaseRemoved, PumpWrites, BecomesDue, vars
<1> QED
  BY <1>1, <1>2, <1>4, <1>5, <1>6, <1>7, <1>9, <1>10, <1>11, <1>12, <1>13, <1>14, <1>15
     DEF Next, ReadLoop, Sampler

(* The client map always holds every session that can deliver and no session *)
(* that has ended, for any number of connections: neither a stale fan-out    *)
(* snapshot nor a broadcast can cut a live session off.                      *)
THEOREM ClientMapSound == Spec => []SinksAreSessions
<1>1. SinkInv => SinksAreSessions
  BY DEF SinkInv
<1> QED
  BY <1>1, InitSinks, NextSinks, PTL DEF Spec

-----------------------------------------------------------------------------
SlotInv == TypeOK /\ SlotsBalanced

LEMMA CountsFinite ==
  /\ IsFiniteSet(Counted) /\ IsFiniteSet(Served) /\ Served \subseteq Counted
  /\ Cardinality(Counted) \in Nat /\ Cardinality(Served) \in Nat
  /\ Cardinality(Served) <= Cardinality(Counted)
<1>1. IsFiniteSet(Counted) /\ Served \subseteq Counted
  BY SessionsAssumption, FS_Subset DEF Counted, Served
<1> QED
  BY <1>1, FS_Subset, FS_CardinalityType

(* A step that starts or ends no session keeps the slots balanced. *)
LEMMA SlotsKept ==
  ASSUME SlotInv, TypeOK', sessions' = sessions,
         \A c \in Clients : /\ phase'[c] \in {"new", "gone"} <=> phase[c] \in {"new", "gone"}
                            /\ phase'[c] = "refused" <=> phase[c] = "refused"
  PROVE  SlotInv'
<1>1. Counted' = Counted /\ Served' = Served
  BY DEF Counted, Served
<1> QED
  BY <1>1 DEF SlotInv, SlotsBalanced

(* A session that ends frees the slot it took. *)
LEMMA SlotFreed ==
  ASSUME SlotInv, TypeOK', NEW c \in Clients, phase[c] \notin {"new", "gone"},
         phase' = [phase EXCEPT ![c] = "gone"], sessions' = sessions - 1
  PROVE  SlotInv'
<1>1. Counted' = Counted \ {c} /\ c \in Counted /\ Served' = Served \ {c}
  BY DEF Counted, Served, SlotInv, TypeOK
<1>2. Cardinality(Counted') = Cardinality(Counted) - 1
  BY <1>1, CountsFinite, FS_RemoveElement
<1>3. Cardinality(Served') <= Cardinality(Served) /\ Cardinality(Served') \in Nat
  BY <1>1, CountsFinite, FS_Subset, FS_CardinalityType
<1> QED
  BY <1>2, <1>3, CountsFinite, SessionsAssumption DEF SlotInv, SlotsBalanced

(* Every step keeps the counter equal to the number of connections counted. *)
LEMMA NextSlots == SlotInv /\ [Next]_vars => SlotInv'
<1> SUFFICES ASSUME SlotInv, [Next]_vars PROVE SlotInv'
  OBVIOUS
<1>t. TypeOK /\ TypeOK'
  BY NextTypeOK DEF SlotInv
<1>p. phase \in [Clients -> Phases]
  BY <1>t DEF TypeOK
<1>1. ASSUME NEW c \in Clients, AcceptLoop(c) PROVE SlotInv'
  <2>1. CASE sessions' = sessions + 1 /\ phase[c] = "new"
             /\ phase' = [phase EXCEPT ![c] = IF sessions < MaxSessions THEN "counted" ELSE "refused"]
    <3>1. Counted' = Counted \cup {c} /\ c \notin Counted /\ c \notin Served
      BY <1>p, <2>1 DEF Counted, Served
    <3>2. Cardinality(Counted') = Cardinality(Counted) + 1
      BY <3>1, CountsFinite, FS_AddElement
    <3>3. CASE sessions < MaxSessions
      <4>1. Served' = Served \cup {c}
        BY <1>p, <2>1, <3>3 DEF Counted, Served
      <4>2. Cardinality(Served') = Cardinality(Served) + 1
        BY <3>1, <4>1, CountsFinite, FS_AddElement
      <4> QED
        BY <1>t, <2>1, <3>2, <3>3, <4>2, CountsFinite, SessionsAssumption DEF SlotInv, SlotsBalanced
    <3>4. CASE ~(sessions < MaxSessions)
      <4>1. Served' = Served
        BY <1>p, <2>1, <3>4 DEF Counted, Served
      <4> QED
        BY <1>t, <2>1, <3>2, <4>1, CountsFinite DEF SlotInv, SlotsBalanced
    <3> QED
      BY <3>3, <3>4
  <2>2. CASE /\ sessions' = sessions /\ phase[c] = "new"
             /\ phase' = [phase EXCEPT ![c] = "gone"]
    BY <1>t, <1>p, <2>2, SlotsKept
  <2>3. CASE SpawnSession(c)
    BY <1>t, <1>p, <2>3, SlotsKept DEF SpawnSession
  <2>4. CASE TurnAway(c)
    BY <1>t, <2>4, SlotFreed DEF TurnAway, AtTheDoor
  <2> QED
    BY <1>1, <2>1, <2>2, <2>3, <2>4 DEF AcceptLoop, Accept
<1>2. ASSUME NEW c \in Clients, HandshakeFails(c) \/ EndSession(c) PROVE SlotInv'
  BY <1>2, <1>t, SlotFreed DEF HandshakeFails, EndSession
<1>3. ASSUME NEW c \in Clients,
             Register(c) \/ ReadLoopEnds(c) \/ RemoveSink(c) \/ DrainLedger(c)
      PROVE  SlotInv'
  BY <1>3, <1>t, <1>p, SlotsKept DEF Register, ReadLoopEnds, RemoveSink, DrainLedger
<1>4. CASE UNCHANGED <<phase, sessions>>
  BY <1>4, <1>t, SlotsKept
<1>5. CASE \E c \in Clients : \/ \E T \in Wanted : Subscribe(c, T)
                              \/ \E S \in SUBSET Sensors : Unsubscribe(c, S)
                              \/ ReleaseRemoved(c) \/ PumpWrites(c) \/ PumpExits(c)
  BY <1>4, <1>5 DEF Subscribe, Unsubscribe, ReleaseRemoved, PumpWrites, PumpExits
<1>6. CASE Sampler \/ BroadcastSensorList \/ (\E s \in Sensors : BecomesDue(s))
  BY <1>4, <1>6 DEF Sampler, SamplerPlan, SamplerCommit, SamplerSnapshot, SamplerFilter,
     SamplerSend, SamplerForgetsDead, BroadcastSensorList, BecomesDue
<1>7. CASE UNCHANGED vars
  BY <1>4, <1>7 DEF vars
<1> QED
  BY <1>1, <1>2, <1>3, <1>5, <1>6, <1>7 DEF Next, ReadLoop

(* The session counter is always the number of sessions being served, and    *)
(* never more than MAX_CLIENT_SESSIONS: no way out of serve() leaks a slot.  *)
THEOREM SlotsNeverLeak == Spec => []SlotsBalanced
<1>1. Init => SlotInv
  <2> SUFFICES ASSUME Init PROVE SlotInv
    OBVIOUS
  <2>1. Counted = {} /\ Served = {}
    BY DEF Init, Counted, Served
  <2> QED
    BY <2>1, InitTypeOK, FS_EmptySet, SessionsAssumption DEF SlotInv, SlotsBalanced, Init
<1>2. SlotInv => SlotsBalanced
  BY DEF SlotInv
<1> QED
  BY <1>1, <1>2, NextSlots, PTL DEF Spec

-----------------------------------------------------------------------------
OfferInv == SinkInv /\ FanOutShape /\ ParkedMeansOffered

Parked(s) == s \in DOMAIN table /\ table[s].due = "parked"

(* ParkedMeansOffered in terms of Parked. *)
LEMMA OfferedMeans ==
  ParkedMeansOffered <=>
    \A c \in Clients, s \in Static :
      Parked(s) /\ Subscribed(c, s) /\ pump[c] = "running"
      => reading[c][s] # "none" \/ InFanOut(c, s)
BY DEF ParkedMeansOffered, Parked

(* A step that parks nothing, opens nothing, subscribes nobody and takes no  *)
(* offer back keeps every parked sensor offered.                             *)
LEMMA OfferKept ==
  ASSUME ParkedMeansOffered,
         \A s \in Static : Parked(s)' => Parked(s),
         \A c \in Clients, s \in Static :
           Subscribed(c, s)' /\ pump'[c] = "running"
           => /\ Subscribed(c, s) /\ pump[c] = "running"
              /\ reading[c][s] # "none" => reading'[c][s] # "none"
              /\ InFanOut(c, s) => InFanOut(c, s)' \/ reading'[c][s] # "none"
  PROVE  ParkedMeansOffered'
BY DEF ParkedMeansOffered, Parked

(* Giving tokens back parks nothing. *)
LEMMA ReleaseParksNothing ==
  ASSUME NEW T, NEW d, table' = Sched!release(table, T, d)
  PROVE  \A s \in Static : Parked(s)' => Parked(s)
BY DEF Parked, Sched!release

(* A new subscription leaves no sensor it names parked. *)
LEMMA SubscribeUnparks ==
  ASSUME TypeOK, NEW T \in SUBSET Tokens, NEW R \in SUBSET T, NEW d,
         table' = Sched!release(Sched!acquire(table, T), R, d)
  PROVE  \A s \in Static : Parked(s)' => Parked(s) /\ s \notin SensorsOf(T)
<1> DEFINE mid == Sched!acquire(table, T)
<1> SUFFICES ASSUME NEW s \in Static, Parked(s)' PROVE Parked(s) /\ s \notin SensorsOf(T)
  OBVIOUS
<1>0. table' = Sched!release(mid, R, d)
  OBVIOUS
<1>1. s \in DOMAIN mid /\ mid[s].due = "parked"
  <2> HIDE DEF mid
  <2> QED
    BY <1>0 DEF Parked, Sched!release
<1> QED
  BY <1>1 DEF Sched!acquire, Parked, SensorsOf

(* Nothing is parked, and nothing held, at the start. *)
LEMMA InitOffer == Init => OfferInv
<1> SUFFICES ASSUME Init PROVE OfferInv
  OBVIOUS
<1>1. SinkInv
  BY InitSinks
<1>2. FanOutShape
  BY DEF FanOutShape, Init, Idle
<1>3. ParkedMeansOffered
  BY DEF ParkedMeansOffered, Init, Sched!Init
<1> QED
  BY <1>1, <1>2, <1>3 DEF OfferInv

(* Every step keeps the shape of the fan-out. *)
LEMMA NextFanOut == OfferInv /\ [Next]_vars => FanOutShape'
<1> SUFFICES ASSUME OfferInv, [Next]_vars PROVE FanOutShape'
  OBVIOUS
<1>p. /\ phase \in [Clients -> Phases] /\ sampler \in SamplerState
      /\ ledger \in [Clients -> SUBSET Tokens] /\ FanOutShape
  BY DEF OfferInv, SinkInv, TypeOK
<1>s. sampler.sends \subseteq Clients \X Sensors
  BY <1>p DEF SamplerState
<1> USE <1>p, <1>s DEF FanOutShape, NotYetOpen
<1>1. CASE UNCHANGED <<phase, ledger, sampler>>
  BY <1>1
<1>2. ASSUME NEW c \in Clients,
             AcceptLoop(c) \/ HandshakeFails(c) \/ Register(c) \/ ReadLoopEnds(c)
             \/ RemoveSink(c) \/ EndSession(c)
      PROVE  FanOutShape'
  BY <1>2 DEF AcceptLoop, Accept, SpawnSession, TurnAway, AtTheDoor, HandshakeFails, Register,
     ReadLoopEnds, RemoveSink, EndSession
<1>3. ASSUME NEW c \in Clients, NEW T \in Wanted, Subscribe(c, T) PROVE FanOutShape'
  BY <1>3 DEF Subscribe
<1>4. ASSUME NEW c \in Clients, NEW S \in SUBSET Sensors, Unsubscribe(c, S)
      PROVE  FanOutShape'
  BY <1>4 DEF Unsubscribe
<1>5. ASSUME NEW c \in Clients, DrainLedger(c) PROVE FanOutShape'
  BY <1>5 DEF DrainLedger
<1>6. ASSUME UNCHANGED <<phase, ledger>>, sampler'.sends \subseteq sampler.sends,
             sampler'.step = "fanout" \/ sampler'.sends = {}
      PROVE  FanOutShape'
  BY <1>6
<1>7. CASE SamplerPlan \/ SamplerSnapshot
  <2>1. /\ UNCHANGED <<phase, ledger>> /\ sampler'.sends = sampler.sends
        /\ sampler.step # "fanout"
    BY <1>7 DEF SamplerPlan, SamplerSnapshot, SamplerState
  <2> QED
    BY <1>6, <2>1
<1>8. ASSUME NEW results \in Sched!Results(planned), NEW d \in Sched!Later,
             SamplerCommit(results, d)
      PROVE  FanOutShape'
  <2>1. UNCHANGED <<phase, ledger>> /\ sampler'.sends = {}
    BY <1>8 DEF SamplerCommit, Idle
  <2> QED
    BY <1>6, <2>1
<1>9. ASSUME NEW c \in Clients, SamplerFilter(c) PROVE FanOutShape'
  <2>1. /\ UNCHANGED <<phase, ledger>> /\ sampler'.step = "fanout"
        /\ sampler'.sends = {c} \X (sampler.samples \cap SensorsOf(ledger[c]))
    BY <1>9 DEF SamplerFilter, SamplerState
  <2>2. \A b \in Clients, s \in Sensors : <<b, s>> \in sampler'.sends => b = c
    BY <2>1
  <2> QED
    BY <2>1, <2>2
<1>10. ASSUME NEW c \in Clients, NEW s \in Sensors, SamplerSend(c, s) PROVE FanOutShape'
  <2>1. /\ UNCHANGED <<phase, ledger>> /\ sampler'.step = sampler.step
        /\ sampler'.sends \subseteq sampler.sends /\ <<c, s>> \in sampler.sends
    BY <1>10, ZenonT(30) DEF SamplerSend, SamplerState
  <2> QED
    BY <1>6, <2>1
<1>11. CASE SamplerForgetsDead
  <2>1. UNCHANGED <<phase, ledger>> /\ sampler'.sends = {}
    BY <1>11 DEF SamplerForgetsDead, Idle
  <2> QED
    BY <1>6, <2>1
<1>12. CASE \/ \E c \in Clients : ReleaseRemoved(c) \/ PumpWrites(c) \/ PumpExits(c)
            \/ \E s \in Sensors : BecomesDue(s)
            \/ BroadcastSensorList
            \/ UNCHANGED vars
  BY <1>1, <1>12 DEF ReleaseRemoved, PumpWrites, PumpExits, BecomesDue, BroadcastSensorList, vars
<1> QED
  BY <1>2, <1>3, <1>4, <1>5, <1>7, <1>8, <1>9, <1>10, <1>11, <1>12 DEF Next, ReadLoop, Sampler

(* Every step keeps parked sensors offered. *)
LEMMA NextOffer == OfferInv /\ [Next]_vars => ParkedMeansOffered'
<1> SUFFICES ASSUME OfferInv, [Next]_vars PROVE ParkedMeansOffered'
  OBVIOUS
<1>t. TypeOK /\ ParkedMeansOffered /\ FanOutShape /\ SinksAreSessions
  BY DEF OfferInv, SinkInv
<1>p. /\ phase \in [Clients -> Phases] /\ sampler \in SamplerState
      /\ ledger \in [Clients -> SUBSET Tokens]
      /\ pump \in [Clients -> {"none", "running", "exited"}]
      /\ reading \in [Clients -> [Sensors -> {"none", "dropped", "queued"}]]
      /\ Static \subseteq Sensors
  BY <1>t, SessionsAssumption DEF TypeOK
<1>o. \A c \in Clients, s \in Static :
        Parked(s) /\ Subscribed(c, s) /\ pump[c] = "running"
        => reading[c][s] # "none" \/ InFanOut(c, s)
  BY <1>t, OfferedMeans
<1>1. ASSUME UNCHANGED <<ledger, pump, reading, sampler>>,
             \A s \in Static : Parked(s)' => Parked(s),
             \A c \in Clients : phase'[c] = "open" => phase[c] = "open"
      PROVE  ParkedMeansOffered'
  BY <1>1, <1>t, OfferKept DEF Subscribed, InFanOut
<1>2. CASE \/ \E c \in Clients : \/ AcceptLoop(c) \/ HandshakeFails(c) \/ ReadLoopEnds(c)
                                \/ RemoveSink(c) \/ PumpWrites(c)
           \/ BroadcastSensorList
  <2>1. /\ UNCHANGED <<ledger, pump, reading, sampler>>
        /\ \A b \in Clients : phase'[b] = "open" => phase[b] = "open"
        /\ table' = table
    BY <1>2, <1>p DEF AcceptLoop, Accept, SpawnSession, TurnAway, AtTheDoor, HandshakeFails,
       ReadLoopEnds, RemoveSink, PumpWrites, BroadcastSensorList, sched
  <2>2. \A s \in Static : Parked(s)' => Parked(s)
    BY <2>1 DEF Parked
  <2> QED
    BY <1>1, <2>1, <2>2
<1>3. ASSUME NEW c \in Clients, Register(c) PROVE ParkedMeansOffered'
  <2>1. /\ UNCHANGED <<table, ledger, reading, sampler>> /\ ledger[c] = {}
        /\ \A b \in Clients \ {c} : phase'[b] = phase[b] /\ pump'[b] = pump[b]
    BY <1>3, <1>p, <1>t DEF Register, sched, FanOutShape, NotYetOpen
  <2>2. \A s \in Static : ~Subscribed(c, s)'
    BY <2>1 DEF Subscribed, SensorsOf
  <2>3. \A s \in Static : Parked(s)' => Parked(s)
    BY <2>1 DEF Parked
  <2> QED
    BY <1>t, <2>1, <2>2, <2>3, OfferKept DEF Subscribed, InFanOut
<1>4. ASSUME NEW c \in Clients, NEW T \in Wanted, Subscribe(c, T)
      PROVE  ParkedMeansOffered'
  <2>1. T \in SUBSET Tokens /\ Duplicates(c, T) \in SUBSET T
    BY DEF Wanted, Duplicates
  <2>2. \A s \in Static : Parked(s)' => Parked(s) /\ s \notin SensorsOf(T)
    BY <1>4, <1>t, <2>1, SubscribeUnparks DEF Subscribe
  <2>3. /\ UNCHANGED <<phase, pump, sampler>> /\ ledger' = [ledger EXCEPT ![c] = @ \cup T]
        /\ reading' = [reading EXCEPT ![c] =
              [s \in Sensors |-> IF s \in SensorsOf(T \ ledger[c]) THEN "none" ELSE @[s]]]
    BY <1>4 DEF Subscribe
  <2> SUFFICES ASSUME NEW b \in Clients, NEW s \in Static,
                      Parked(s)', Subscribed(b, s)', pump'[b] = "running"
               PROVE  reading'[b][s] # "none" \/ InFanOut(b, s)'
    BY DEF ParkedMeansOffered, Parked
  <2>4. s \notin SensorsOf(T) /\ s \notin SensorsOf(T \ ledger[c])
    BY <2>2 DEF SensorsOf
  <2>5. Subscribed(b, s)
    BY <1>p, <2>3, <2>4 DEF Subscribed, SensorsOf
  <2>6. reading'[b][s] = reading[b][s]
    BY <1>p, <2>3, <2>4
  <2> QED
    BY <1>o, <2>2, <2>3, <2>5, <2>6 DEF InFanOut
<1>5. ASSUME NEW c \in Clients, NEW S \in SUBSET Sensors, Unsubscribe(c, S)
      PROVE  ParkedMeansOffered'
  <2>1. /\ UNCHANGED <<table, phase, pump, reading, sampler>>
        /\ \A b \in Clients : ledger'[b] \subseteq ledger[b]
    BY <1>5, <1>p DEF Unsubscribe, sched
  <2>2. \A b \in Clients, s \in Static : Subscribed(b, s)' => Subscribed(b, s)
    BY <2>1 DEF Subscribed, SensorsOf
  <2> QED
    BY <1>t, <2>1, <2>2, OfferKept DEF Parked, InFanOut
<1>6. ASSUME NEW c \in Clients, ReleaseRemoved(c) \/ EndSession(c)
      PROVE  ParkedMeansOffered'
  <2>1. PICK d \in Sched!Later : table' = Sched!release(table, removed[c], d)
    BY <1>6 DEF ReleaseRemoved, EndSession
  <2>2. \A s \in Static : Parked(s)' => Parked(s)
    BY <2>1, ReleaseParksNothing
  <2>3. /\ UNCHANGED <<ledger, pump, reading, sampler>>
        /\ \A b \in Clients : phase'[b] = "open" => phase[b] = "open"
    BY <1>6, <1>p DEF ReleaseRemoved, EndSession
  <2> QED
    BY <1>1, <2>2, <2>3
<1>7. ASSUME NEW c \in Clients, DrainLedger(c) PROVE ParkedMeansOffered'
  <2>1. /\ UNCHANGED <<table, pump, sampler>> /\ phase'[c] # "open"
        /\ \A b \in Clients \ {c} : /\ phase'[b] = phase[b] /\ ledger'[b] = ledger[b]
                                     /\ reading'[b] = reading[b]
    BY <1>7, <1>p DEF DrainLedger, sched
  <2> QED
    BY <1>t, <2>1, OfferKept DEF Subscribed, Parked, InFanOut
<1>8. ASSUME NEW c \in Clients, PumpExits(c) PROVE ParkedMeansOffered'
  <2>1. /\ UNCHANGED <<table, phase, ledger, reading, sampler>>
        /\ \A b \in Clients : pump'[b] = "running" => pump[b] = "running"
    BY <1>8, <1>p DEF PumpExits, sched
  <2> QED
    BY <1>t, <2>1, OfferKept DEF Subscribed, Parked, InFanOut
<1>9. CASE SamplerPlan
  <2>1. /\ UNCHANGED <<phase, ledger, pump, reading>> /\ sampler.step = "asleep"
        /\ sampler'.sends = sampler.sends /\ sampler'.samples = sampler.samples
        /\ table' = Sched!tick_plan(table)
    BY <1>9, <1>p DEF SamplerPlan, SamplerState
  <2>2. \A s \in Static : Parked(s)' => Parked(s)
    <3> SUFFICES ASSUME NEW s \in Static, Parked(s)' PROVE Parked(s)
      OBVIOUS
    <3>1. s \in DOMAIN table /\ table[s] \in Sched!Row
      BY <1>t, <2>1 DEF Parked, Sched!tick_plan, TypeOK, Sched!TypeOK
    <3> QED
      BY <2>1, <3>1 DEF Parked, Sched!tick_plan, Sched!Row
  <2> QED
    BY <1>t, <2>1, <2>2, OfferKept DEF Subscribed, InFanOut
<1>10. ASSUME NEW results \in Sched!Results(planned), NEW d \in Sched!Later,
              SamplerCommit(results, d)
       PROVE  ParkedMeansOffered'
  <2>1. /\ UNCHANGED <<phase, ledger, pump, reading>> /\ sampler.step = "sampling"
        /\ table' = Sched!tick_commit(table, results, d)
    BY <1>10 DEF SamplerCommit
  <2>2. sampler.sends = {}
    BY <1>t, <2>1 DEF FanOutShape
  <2> SUFFICES ASSUME NEW b \in Clients, NEW s \in Static,
                      Parked(s)', Subscribed(b, s)', pump'[b] = "running"
               PROVE  reading'[b][s] # "none" \/ InFanOut(b, s)'
    BY DEF ParkedMeansOffered, Parked
  <2>3. CASE s \in Produced(results)
    <3>1. sampler' = [Idle EXCEPT !.step = "committed", !.samples = Produced(results)]
      BY <1>10, <2>3 DEF SamplerCommit
    <3> QED
      BY <2>3, <3>1 DEF InFanOut, Idle
  <2>4. CASE s \notin Produced(results)
    <3>1. s \in DOMAIN table /\ table[s] \in Sched!Row /\ d[s] # "parked"
      BY <1>t, <1>p, <2>1 DEF Parked, Sched!tick_commit, TypeOK, Sched!TypeOK, Sched!Later
    <3>2. s \in DOMAIN results => results[s] = "failed"
      BY <2>4, <3>1 DEF Produced, Sched!Results, Sched!Outcome
    <3>3. Parked(s)
      BY <2>1, <3>1, <3>2 DEF Parked, Sched!tick_commit, Sched!Row
    <3>4. ~InFanOut(b, s)
      BY <2>1, <2>2 DEF InFanOut
    <3> QED
      BY <1>o, <2>1, <3>3, <3>4 DEF Subscribed
  <2> QED
    BY <2>3, <2>4
<1>11. CASE SamplerSnapshot
  <2>1. /\ UNCHANGED <<table, phase, ledger, pump, reading, sinks>>
        /\ sampler'.step = "fanout" /\ sampler'.todo = sinks
        /\ sampler'.samples = sampler.samples /\ sampler'.sends = sampler.sends
    BY <1>11, <1>p DEF SamplerSnapshot, SamplerState, sched
  <2>2. \A c \in Clients : pump[c] = "running" => c \in sampler'.todo
    BY <1>t, <2>1 DEF SinksAreSessions
  <2> QED
    BY <1>t, <2>1, <2>2, OfferKept DEF Subscribed, Parked, InFanOut
<1>12. ASSUME NEW c \in Clients, SamplerFilter(c) PROVE ParkedMeansOffered'
  <2>1. /\ UNCHANGED <<table, phase, ledger, pump, reading>> /\ sampler.sends = {}
        /\ sampler.step = "fanout" /\ sampler'.step = "fanout"
        /\ sampler'.samples = sampler.samples /\ sampler'.todo = sampler.todo \ {c}
        /\ sampler'.sends = {c} \X (sampler.samples \cap SensorsOf(ledger[c]))
    BY <1>12, <1>p DEF SamplerFilter, SamplerState, sched
  <2>2. ASSUME NEW b \in Clients, NEW s \in Static, Subscribed(b, s), InFanOut(b, s)
        PROVE  InFanOut(b, s)'
    <3>1. s \in sampler.samples /\ b \in sampler.todo /\ s \in SensorsOf(ledger[b])
      BY <2>1, <2>2 DEF InFanOut, Subscribed
    <3>2. CASE b = c
      BY <2>1, <3>1, <3>2 DEF InFanOut
    <3>3. CASE b # c
      BY <2>1, <3>1, <3>3 DEF InFanOut
    <3> QED
      BY <3>2, <3>3
  <2> QED
    BY <1>t, <2>1, <2>2, OfferKept DEF Subscribed, Parked
<1>13. ASSUME NEW c \in Clients, NEW s \in Sensors, SamplerSend(c, s)
       PROVE  ParkedMeansOffered'
  <2>1. /\ UNCHANGED <<table, phase, ledger, pump>> /\ <<c, s>> \in sampler.sends
        /\ sampler'.step = sampler.step /\ sampler'.samples = sampler.samples
        /\ sampler'.todo = sampler.todo
    BY <1>13, <1>p DEF SamplerSend, SamplerState, sched
  <2>2. CASE pump[c] # "running"
    <3>1. reading' = reading
      BY <1>13, <2>2 DEF SamplerSend
    <3>2. \A b \in Clients, r \in Static : pump[b] = "running" => <<b, r>> \notin sampler.sends
      BY <1>t, <1>p, <2>1, <2>2 DEF FanOutShape
    <3> QED
      BY <1>t, <2>1, <3>1, <3>2, OfferKept DEF Subscribed, Parked, InFanOut
  <2>3. CASE pump[c] = "running"
    <3>1. /\ sampler'.sends = sampler.sends \ {<<c, s>>} /\ reading'[c][s] # "none"
          /\ \A b \in Clients, r \in Sensors :
                <<b, r>> # <<c, s>> => reading'[b][r] = reading[b][r]
      <4>1. CASE HasRoom(c)
        BY <1>13, <1>p, <2>3, <4>1 DEF SamplerSend, SamplerState
      <4>2. CASE ~HasRoom(c)
        BY <1>13, <1>p, <2>3, <4>2 DEF SamplerSend, SamplerState
      <4> QED
        BY <4>1, <4>2
    <3> QED
      BY <1>t, <1>p, <2>1, <3>1, OfferKept DEF Subscribed, Parked, InFanOut
  <2> QED
    BY <2>2, <2>3
<1>14. CASE SamplerForgetsDead
  <2>1. /\ UNCHANGED <<table, phase, ledger, pump, reading>> /\ sampler.step = "fanout"
        /\ sampler.sends = {} /\ sampler.todo = {}
    BY <1>14 DEF SamplerForgetsDead, sched
  <2>2. \A c \in Clients, s \in Static : ~InFanOut(c, s)
    BY <2>1 DEF InFanOut
  <2> QED
    BY <1>t, <2>1, <2>2, OfferKept DEF Subscribed, Parked
<1>15. ASSUME NEW r \in Sensors, BecomesDue(r) PROVE ParkedMeansOffered'
  <2>1. /\ UNCHANGED <<phase, ledger, pump, reading, sampler>>
        /\ table' = [table EXCEPT ![r].due = "due"] /\ r \in DOMAIN table
    BY <1>15 DEF BecomesDue
  <2>2. ASSUME NEW s \in Static, Parked(s)' PROVE Parked(s)
    <3>1. s \in DOMAIN table /\ table[r] \in Sched!Row
      BY <1>t, <2>1, <2>2 DEF Parked, TypeOK, Sched!TypeOK
    <3> QED
      BY <2>1, <2>2, <3>1 DEF Parked, Sched!Row
  <2> QED
    BY <1>1, <2>1, <2>2
<1>16. CASE UNCHANGED vars
  BY <1>t, <1>16, OfferKept DEF vars, Subscribed, Parked, InFanOut
<1> QED
  BY <1>2, <1>3, <1>4, <1>5, <1>6, <1>7, <1>8, <1>9, <1>10, <1>11, <1>12, <1>13, <1>14,
     <1>15, <1>16 DEF Next, ReadLoop, Sampler

(* A static sensor is parked for good only once every subscriber that can    *)
(* receive has been offered its reading, or is about to be by the fan-out    *)
(* under way: however subscriptions, pump failures and the sampler's three   *)
(* unlocked phases interleave, nobody is left without a value it could have  *)
(* been sent.                                                                *)
THEOREM ParkedIsOffered == Spec => []ParkedMeansOffered
<1>1. OfferInv /\ [Next]_vars => OfferInv'
  BY NextSinks, NextFanOut, NextOffer DEF OfferInv
<1>2. OfferInv => ParkedMeansOffered
  BY DEF OfferInv
<1> QED
  BY <1>1, <1>2, InitOffer, PTL DEF Spec
=============================================================================
