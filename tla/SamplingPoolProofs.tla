--------------------------- MODULE SamplingPoolProofs ---------------------------
(***************************************************************************)
(* Proofs about SamplingPool.tla, for any sensors, workers, hung plugins    *)
(* and number of calls: whose answers sample() takes, where its jobs are,   *)
(* and how many of them it has out.                                         *)
(***************************************************************************)
EXTENDS SamplingPool, FiniteSetTheorems, SequenceTheorems, TLAPS

-----------------------------------------------------------------------------
(* Sets with one member, and the places of a channel.                       *)

(* S has exactly one member. *)
Once(S) == \E x \in S : S = {x}

(* Where the channel q holds a member of X. *)
At(q, X) == {i \in DOMAIN q : q[i] \in X}

(* Taking the head of a channel takes its own place away and no other. *)
LEMMA AtTail ==
  ASSUME NEW T, NEW q \in Seq(T), q # <<>>, NEW X
  PROVE  /\ Head(q) = q[1] /\ 1 \in DOMAIN q
         /\ At(q, X) = {} => At(Tail(q), X) = {}
         /\ Once(At(q, X)) /\ Head(q) \in X => At(Tail(q), X) = {}
         /\ Once(At(q, X)) /\ Head(q) \notin X => Once(At(Tail(q), X))
<1>1. /\ Tail(q) \in Seq(T) /\ Len(Tail(q)) = Len(q) - 1 /\ Len(q) \in Nat \ {0}
      /\ DOMAIN q = 1..Len(q) /\ DOMAIN Tail(q) = 1..(Len(q) - 1)
      /\ \A i \in 1..(Len(q) - 1) : Tail(q)[i] = q[i + 1]
      /\ Head(q) = q[1]
  BY HeadTailProperties, LenProperties, EmptySeq
<1>2. \A i : i \in At(Tail(q), X) => i \in Nat /\ i + 1 \in At(q, X) /\ i + 1 # 1
  BY <1>1 DEF At
<1>3. At(q, X) = {} => At(Tail(q), X) = {}
  BY <1>2
<1>4. ASSUME Once(At(q, X)), Head(q) \in X PROVE At(Tail(q), X) = {}
  <2>1. 1 \in At(q, X)
    BY <1>1, <1>4 DEF At
  <2> QED
    BY <1>2, <1>4, <2>1 DEF Once
<1>5. ASSUME Once(At(q, X)), Head(q) \notin X PROVE Once(At(Tail(q), X))
  <2>1. PICK x \in At(q, X) : At(q, X) = {x}
    BY <1>5 DEF Once
  <2>2. x \in 1..Len(q) /\ x # 1 /\ q[x] \in X
    BY <1>1, <1>5, <2>1 DEF At
  <2>3. x - 1 \in At(Tail(q), X)
    BY <1>1, <2>2 DEF At
  <2>4. \A i \in At(Tail(q), X) : i = x - 1
    BY <1>2, <2>1, <2>2
  <2> QED
    BY <2>3, <2>4 DEF Once
<1> QED
  BY <1>1, <1>3, <1>4, <1>5

(* Sending on a channel adds one place, or none. *)
LEMMA AtAppend ==
  ASSUME NEW T, NEW q \in Seq(T), NEW e \in T, NEW X
  PROVE  /\ e \notin X => At(Append(q, e), X) = At(q, X)
         /\ e \in X /\ At(q, X) = {} => Once(At(Append(q, e), X))
<1>1. /\ Len(q) \in Nat /\ DOMAIN q = 1..Len(q)
      /\ DOMAIN Append(q, e) = 1..(Len(q) + 1)
      /\ \A i \in 1..Len(q) : Append(q, e)[i] = q[i]
      /\ Append(q, e)[Len(q) + 1] = e
  BY AppendProperties, LenProperties
<1>2. e \notin X => At(Append(q, e), X) = At(q, X)
  BY <1>1 DEF At
<1>3. ASSUME e \in X, At(q, X) = {} PROVE Once(At(Append(q, e), X))
  <2>1. Len(q) + 1 \in At(Append(q, e), X)
    BY <1>1, <1>3 DEF At
  <2>2. \A i \in At(Append(q, e), X) : i = Len(q) + 1
    BY <1>1, <1>3 DEF At
  <2> QED
    BY <2>1, <2>2 DEF Once
<1> QED
  BY <1>2, <1>3

-----------------------------------------------------------------------------
(* Plans.                                                                   *)

(* A plan is a sequence of sensors that names none twice. *)
LEMMA PlanShape ==
  ASSUME NEW p
  PROVE  p \in Plans <=> p \in Seq(Sensors) /\ IsInjective(p)
<1>1. ASSUME p \in Plans PROVE p \in Seq(Sensors) /\ IsInjective(p)
  <2>1. PICK S \in SUBSET Sensors : p \in SetToSeqs(S)
    BY <1>1 DEF Plans, SetToAllKPermutations
  <2>2. Cardinality(S) \in Nat
    BY <2>1, PoolAssumption, FS_Subset, FS_CardinalityType
  <2>3. p \in [1..Cardinality(S) -> S] /\ IsInjective(p)
    BY <2>1 DEF SetToSeqs, IsInjective
  <2> QED
    BY <2>2, <2>3, SeqDef
<1>2. ASSUME p \in Seq(Sensors), IsInjective(p) PROVE p \in Plans
  <2> DEFINE S == {p[i] : i \in DOMAIN p}
  <2>1. p \in [1..Len(p) -> Sensors] /\ Len(p) \in Nat /\ DOMAIN p = 1..Len(p)
    BY <1>2, LenProperties
  <2>2. S \subseteq Sensors /\ p \in [1..Len(p) -> S]
    BY <2>1
  <2>3. p \in Bijection(1..Len(p), S)
    BY <1>2, <2>1, <2>2 DEF Bijection, Injection, Surjection, IsInjective
  <2>4. Cardinality(S) = Len(p)
    BY <2>1, <2>3, FS_CountingElements DEF ExistsBijection
  <2> HIDE DEF S
  <2>5. p \in SetToSeqs(S)
    BY <1>2, <2>1, <2>2, <2>4 DEF SetToSeqs, IsInjective
  <2> QED
    BY <2>2, <2>5 DEF Plans, SetToAllKPermutations
<1> QED
  BY <1>1, <1>2

(* What sample() cuts a plan into: seeds, at most one per worker, and a rest *)
(* that is empty unless every worker has a seed and shares no sensor with it.*)
LEMMA CutPlan ==
  ASSUME NEW p \in Plans
  PROVE  LET n == SeedCount(p)
             seeds == SubSeq(p, 1, n)
             rest == SubSeq(p, n + 1, Len(p))
         IN  /\ n \in Nat /\ n <= PoolSize
             /\ Len(seeds) = n /\ seeds \in Plans /\ rest \in Plans
             /\ ToSet(seeds) \cap ToSet(rest) = {}
             /\ Cardinality(ToSet(seeds)) = n
             /\ rest # <<>> => n = PoolSize
<1> DEFINE L == Len(p)
           n == SeedCount(p)
           seeds == SubSeq(p, 1, n)
           rest == SubSeq(p, n + 1, L)
<1>1. /\ p \in Seq(Sensors) /\ L \in Nat /\ DOMAIN p = 1..L
      /\ \A i \in 1..L : p[i] \in Sensors
      /\ \A i, j \in 1..L : p[i] = p[j] => i = j
  BY PlanShape, LenProperties, ElementOfSeq DEF IsInjective
<1>2. PoolSize \in Nat
  BY PoolAssumption, FS_CardinalityType DEF PoolSize
<1>3. n = IF L < PoolSize THEN L ELSE PoolSize
  BY DEF SeedCount
<1> HIDE DEF L, n
<1>4. n \in Nat /\ n <= PoolSize /\ n <= L /\ (n < L => n = PoolSize)
  <2>1. L \in Nat
    BY <1>1
  <2> QED
    BY <1>2, <1>3, <2>1
<1>5. /\ seeds \in Seq(Sensors) /\ Len(seeds) = n /\ DOMAIN seeds = 1..n
      /\ \A i \in 1..n : seeds[i] = p[i]
  <2>1. \A i \in 1..n : p[i] \in Sensors
    BY <1>1, <1>4
  <2>2. /\ seeds \in Seq(Sensors) /\ Len(seeds) = n
        /\ \A i \in 1..n : seeds[i] = p[1 + i - 1]
    BY <1>4, <2>1, SubSeqProperties
  <2> QED
    BY <1>4, <2>2, LenProperties
<1>6. /\ rest \in Seq(Sensors) /\ Len(rest) = L - n /\ DOMAIN rest = 1..(L - n)
      /\ \A i \in 1..(L - n) : rest[i] = p[n + i]
  <2>1. \A i \in (n + 1)..L : p[i] \in Sensors
    BY <1>1, <1>4
  <2>2. L \in Int /\ n + 1 \in Int
    BY <1>1, <1>4
  <2>3. /\ rest \in Seq(Sensors)
        /\ Len(rest) = IF n + 1 <= L THEN L - (n + 1) + 1 ELSE 0
        /\ \A i \in 1..(L - (n + 1) + 1) : rest[i] = p[n + 1 + i - 1]
    BY <2>1, <2>2, SubSeqProperties
  <2>4. L - (n + 1) + 1 = L - n /\ (IF n + 1 <= L THEN L - n ELSE 0) = L - n
    BY <1>4, <2>2
  <2>5. \A i \in 1..(L - n) : n + 1 + i - 1 = n + i
    BY <1>4, <2>2
  <2> HIDE DEF rest
  <2>6. Len(rest) = L - n /\ DOMAIN rest = 1..Len(rest)
    BY <2>3, <2>4, LenProperties
  <2> QED
    BY <2>3, <2>4, <2>5, <2>6
<1> HIDE DEF seeds, rest
<1>7. \A i \in 1..n : i \in 1..L
  BY <1>1, <1>4
<1>8. \A i \in 1..(L - n) : n + i \in 1..L /\ n + i \notin 1..n
  <2>1. L \in Nat
    BY <1>1
  <2> QED
    BY <1>4, <2>1
<1>9. IsInjective(seeds)
  BY <1>1, <1>5, <1>7 DEF IsInjective
<1>10. IsInjective(rest)
  <2> SUFFICES ASSUME NEW i \in 1..(L - n), NEW j \in 1..(L - n), rest[i] = rest[j]
               PROVE  i = j
    BY <1>6 DEF IsInjective
  <2>1. n + i \in 1..L /\ n + j \in 1..L /\ p[n + i] = p[n + j]
    BY <1>6, <1>8
  <2>2. n + i = n + j
    BY <1>1, <2>1
  <2>3. i \in Int /\ j \in Int /\ n \in Int
    BY <1>1, <1>4
  <2> QED
    BY <2>2, <2>3
<1>11. ToSet(seeds) \cap ToSet(rest) = {}
  <2> SUFFICES ASSUME NEW i \in 1..n, NEW j \in 1..(L - n), seeds[i] = rest[j]
               PROVE  FALSE
    BY <1>5, <1>6 DEF ToSet
  <2>1. i \in 1..L /\ n + j \in 1..L /\ n + j \notin 1..n /\ p[i] = p[n + j]
    BY <1>5, <1>6, <1>7, <1>8
  <2>2. i = n + j
    BY <1>1, <2>1
  <2> QED
    BY <2>1, <2>2
<1>12. seeds \in Bijection(1..n, ToSet(seeds))
  <2>1. seeds \in [1..n -> ToSet(seeds)]
    BY <1>5 DEF ToSet
  <2> QED
    BY <1>5, <1>9, <2>1 DEF Bijection, Injection, Surjection, ToSet
<1>13. Cardinality(ToSet(seeds)) = n
  BY <1>4, <1>12, FS_CountingElements DEF ExistsBijection
<1>14. rest # <<>> => n = PoolSize
  <2>1. L \in Nat
    BY <1>1
  <2>2. rest # <<>> => L - n # 0
    BY <1>6, EmptySeq
  <2> QED
    BY <1>4, <2>1, <2>2
<1> QED
  BY <1>4, <1>5, <1>6, <1>9, <1>10, <1>11, <1>13, <1>14, PlanShape DEF n, seeds, rest, L

(* The rest of a plan after its next sensor does not name that sensor again. *)
LEMMA TailOfPlan ==
  ASSUME NEW p \in Plans, p # <<>>
  PROVE  /\ Head(p) \in ToSet(p) /\ Head(p) \in Sensors
         /\ Tail(p) \in Plans
         /\ ToSet(Tail(p)) \subseteq ToSet(p) \ {Head(p)}
<1>1. /\ p \in Seq(Sensors) /\ Len(p) \in Nat \ {0} /\ DOMAIN p = 1..Len(p)
      /\ \A i, j \in 1..Len(p) : p[i] = p[j] => i = j
  BY PlanShape, LenProperties, EmptySeq DEF IsInjective
<1>2. /\ Tail(p) \in Seq(Sensors) /\ Len(Tail(p)) = Len(p) - 1
      /\ DOMAIN Tail(p) = 1..(Len(p) - 1) /\ Head(p) = p[1] /\ Head(p) \in Sensors
      /\ \A i \in 1..(Len(p) - 1) : Tail(p)[i] = p[i + 1]
  BY <1>1, HeadTailProperties, LenProperties
<1>3. IsInjective(Tail(p))
  BY <1>1, <1>2 DEF IsInjective
<1>4. Head(p) \in ToSet(p) /\ ToSet(Tail(p)) \subseteq ToSet(p) \ {Head(p)}
  BY <1>1, <1>2 DEF ToSet
<1> QED
  BY <1>2, <1>3, <1>4, PlanShape

-----------------------------------------------------------------------------
(* The inductive invariant.                                                 *)

AnswersFor(s, n) == {a \in Answer : a.call = n /\ a.id = s}

NoCopy(s) == Queued(s) = {} /\ Running(s) = {} /\ Answered(s) = {}

OneCopy(s) ==
    \/ Once(Queued(s)) /\ Running(s) = {} /\ Answered(s) = {}
    \/ Queued(s) = {} /\ Once(Running(s)) /\ Answered(s) = {}
    \/ Queued(s) = {} /\ Running(s) = {} /\ Once(Answered(s))

WorkersHoldOne == \A w \in Workers : \A j, k \in worker[w] : j = k

(* No job and no answer is of a call that has not been made. *)
CallsAreOld ==
    /\ \A i \in DOMAIN jobs : jobs[i].call <= call
    /\ \A w \in Workers : \A j \in worker[w] : j.call <= call
    /\ \A i \in DOMAIN answers : answers[i].call <= call

(* A sensor is planned once: what is pending is not in flight. *)
PlannedOnce == ToSet(pending) \cap in_flight = {}

OneCopyEach ==
    caller = "waiting" => \A s \in Sensors : IF s \in in_flight THEN OneCopy(s) ELSE NoCopy(s)

TypeInv ==
    /\ caller \in {"idle", "waiting", "joining", "joined"}
    /\ call \in 0..MaxCalls
    /\ pending \in Plans
    /\ in_flight \subseteq Sensors
    /\ DOMAIN results \subseteq Sensors
    /\ \A s \in DOMAIN results : results[s] \in Result
    /\ jobs \in Seq(Job)
    /\ worker \in [Workers -> SUBSET Job]
    /\ exited \subseteq Workers
    /\ answers \in Seq(Answer)
    /\ caller = "waiting" => call \in 1..MaxCalls

IInv ==
    /\ TypeInv
    /\ WorkersHoldOne
    /\ CallsAreOld
    /\ PlannedOnce
    /\ ResultsAreOfThisCall
    /\ OneCopyEach
    /\ PoolKeptBusy

(* An answer of call n for s, as a member of a set. *)
LEMMA AnsweredAt ==
  ASSUME NEW q \in Seq(Answer), NEW s, NEW n
  PROVE  {i \in DOMAIN q : q[i].call = n /\ q[i].id = s} = At(q, AnswersFor(s, n))
<1>1. \A i \in DOMAIN q : q[i] \in Answer
  BY LenProperties, ElementOfSeq
<1> QED
  BY <1>1 DEF At, AnswersFor

(* The jobs sample() seeds, as a sequence. *)
LEMMA SeedJobs ==
  ASSUME NEW seeds \in Plans, NEW n \in 1..MaxCalls
  PROVE  LET js == [i \in 1..Len(seeds) |-> JobFor(seeds[i], n)]
         IN  /\ js \in Seq(Job) /\ Len(js) = Len(seeds) /\ DOMAIN js = 1..Len(seeds)
             /\ \A s : s \in ToSet(seeds) => Once(At(js, {JobFor(s, n)}))
             /\ \A s : s \notin ToSet(seeds) => At(js, {JobFor(s, n)}) = {}
<1> DEFINE L == Len(seeds)
           js == [i \in 1..L |-> JobFor(seeds[i], n)]
<1>1. /\ L \in Nat /\ DOMAIN seeds = 1..L
      /\ \A i \in 1..L : seeds[i] \in Sensors
      /\ \A i, j \in 1..L : seeds[i] = seeds[j] => i = j
  BY PlanShape, LenProperties, ElementOfSeq DEF IsInjective
<1> HIDE DEF L
<1>2. js \in [1..L -> Job] /\ DOMAIN js = 1..L
  BY <1>1 DEF Job, JobFor
<1>3. js \in Seq(Job)
  BY <1>1, <1>2, SeqDef
<1>4. Len(js) = L
  <2>1. DOMAIN js = 1..Len(js) /\ Len(js) \in Nat
    BY <1>3, LenProperties
  <2> HIDE DEF js
  <2> QED
    BY <1>1, <1>2, <2>1
<1>5. \A i \in 1..L : \A s : js[i] = JobFor(s, n) <=> seeds[i] = s
  BY <1>1 DEF JobFor
<1> HIDE DEF js
<1>6. ASSUME NEW s, s \in ToSet(seeds) PROVE Once(At(js, {JobFor(s, n)}))
  <2>1. PICK i \in 1..L : seeds[i] = s
    BY <1>1, <1>6 DEF ToSet
  <2>2. i \in At(js, {JobFor(s, n)})
    BY <1>2, <1>5, <2>1 DEF At
  <2>3. \A k \in At(js, {JobFor(s, n)}) : k = i
    BY <1>1, <1>2, <1>5, <2>1 DEF At
  <2> QED
    BY <2>2, <2>3 DEF Once
<1>7. ASSUME NEW s, s \notin ToSet(seeds) PROVE At(js, {JobFor(s, n)}) = {}
  BY <1>1, <1>2, <1>5, <1>7 DEF At, ToSet
<1> QED
  BY <1>2, <1>3, <1>4, <1>6, <1>7 DEF js, L

(* Behind a channel without a member of X the places of a second one show.  *)
LEMMA AtConcat ==
  ASSUME NEW T, NEW q \in Seq(T), NEW r \in Seq(T), NEW X, At(q, X) = {}
  PROVE  /\ At(r, X) = {} => At(q \o r, X) = {}
         /\ Once(At(r, X)) => Once(At(q \o r, X))
<1> DEFINE m == Len(q)
           k == Len(r)
<1>1. /\ m \in Nat /\ k \in Nat /\ DOMAIN q = 1..m /\ DOMAIN r = 1..k
      /\ DOMAIN (q \o r) = 1..(m + k)
      /\ \A i \in 1..(m + k) : (q \o r)[i] = IF i <= m THEN q[i] ELSE r[i - m]
  BY ConcatProperties, LenProperties
<1> HIDE DEF m, k
<1>2. \A i \in 1..(m + k) : i \in 1..m \/ (i - m \in 1..k /\ ~ (i <= m) /\ i = m + (i - m))
  BY <1>1
<1>3. \A i \in At(q \o r, X) : i - m \in At(r, X) /\ i = m + (i - m)
  <2> SUFFICES ASSUME NEW i \in At(q \o r, X)
               PROVE  i - m \in At(r, X) /\ i = m + (i - m)
    OBVIOUS
  <2>1. i \in 1..(m + k) /\ (q \o r)[i] \in X
    BY <1>1 DEF At
  <2>2. CASE i \in 1..m
    <3>1. q[i] \in X
      BY <1>1, <2>1, <2>2
    <3> QED
      BY <1>1, <2>2, <3>1 DEF At
  <2>3. CASE i - m \in 1..k /\ ~ (i <= m) /\ i = m + (i - m)
    BY <1>1, <2>1, <2>3 DEF At
  <2> QED
    BY <1>2, <2>1, <2>2, <2>3
<1>4. ASSUME Once(At(r, X)) PROVE Once(At(q \o r, X))
  <2>1. PICK x \in At(r, X) : At(r, X) = {x}
    BY <1>4 DEF Once
  <2>2. x \in 1..k /\ r[x] \in X
    BY <1>1, <2>1 DEF At
  <2>3. m + x \in 1..(m + k) /\ ~ (m + x <= m) /\ m + x - m = x
    BY <1>1, <2>2
  <2>4. m + x \in At(q \o r, X)
    BY <1>1, <2>2, <2>3 DEF At
  <2>5. \A i \in At(q \o r, X) : i = m + x
    BY <1>3, <2>1
  <2> QED
    BY <2>4, <2>5 DEF Once
<1> QED
  BY <1>3, <1>4

-----------------------------------------------------------------------------
(* Every step keeps it.                                                     *)

(* The numbers of the calls that jobs and answers come from. *)
LEMMA CallNumbers ==
  ASSUME TypeInv, CallsAreOld
  PROVE  /\ call \in Nat
         /\ \A i \in DOMAIN jobs : jobs[i] \in Job /\ jobs[i].call \in Nat /\ jobs[i].call <= call
         /\ \A w \in Workers : \A j \in worker[w] : j \in Job /\ j.call \in Nat /\ j.call <= call
         /\ \A i \in DOMAIN answers :
               answers[i] \in Answer /\ answers[i].call \in Nat /\ answers[i].call <= call
<1>1. call \in Nat /\ MaxCalls \in Nat
  BY PoolAssumption DEF TypeInv
<1>2. (\A i \in DOMAIN jobs : jobs[i] \in Job) /\ (\A i \in DOMAIN answers : answers[i] \in Answer)
  BY ElementOfSeq, LenProperties DEF TypeInv
<1>3. \A w \in Workers : \A j \in worker[w] : j \in Job
  BY DEF TypeInv
<1>4. (\A j \in Job : j.call \in Nat) /\ (\A a \in Answer : a.call \in Nat)
  BY <1>1 DEF Job, Answer
<1> QED
  BY <1>1, <1>2, <1>3, <1>4 DEF CallsAreOld

(* The pool starts idle, with empty channels. *)
LEMMA InitInv == Init => IInv
<1> SUFFICES ASSUME Init PROVE IInv
  OBVIOUS
<1>1. pending \in Plans /\ ToSet(pending) = {}
  <2>1. <<>> \in Seq(Sensors) /\ IsInjective(<<>>)
    BY EmptySeq DEF IsInjective
  <2>2. <<>> \in Plans
    BY <2>1, PlanShape
  <2>3. ToSet(<<>>) = {}
    BY DEF ToSet
  <2> QED
    BY <2>2, <2>3 DEF Init
<1>2. TypeInv
  BY <1>1, PoolAssumption, EmptySeq DEF Init, TypeInv, NoResults
<1>3. WorkersHoldOne /\ CallsAreOld
  BY EmptySeq DEF Init, WorkersHoldOne, CallsAreOld
<1>4. PlannedOnce /\ ResultsAreOfThisCall /\ OneCopyEach
  BY <1>1 DEF Init, PlannedOnce, ResultsAreOfThisCall, OneCopyEach, NoResults
<1>5. PoolSize \in Nat
  BY PoolAssumption, FS_CardinalityType DEF PoolSize
<1>6. PoolKeptBusy
  BY <1>5, FS_EmptySet DEF Init, PoolKeptBusy
<1> QED
  BY <1>2, <1>3, <1>4, <1>6 DEF IInv

(* A call seeds one job for each sensor it puts in flight; nothing of an    *)
(* earlier call bears its number.                                           *)
LEMMA SampleInv ==
  ASSUME IInv, NEW plan \in Plans, Sample(plan)
  PROVE  IInv'
<1> DEFINE n == SeedCount(plan)
           seeds == SubSeq(plan, 1, n)
           rest == SubSeq(plan, n + 1, Len(plan))
           js == [i \in 1..n |-> JobFor(seeds[i], call + 1)]
<1>1. /\ n \in Nat /\ n <= PoolSize
      /\ Len(seeds) = n /\ seeds \in Plans /\ rest \in Plans
      /\ ToSet(seeds) \cap ToSet(rest) = {}
      /\ Cardinality(ToSet(seeds)) = n
      /\ rest # <<>> => n = PoolSize
  BY CutPlan
<1>2. /\ caller' = "waiting" /\ call' = call + 1 /\ pending' = rest
      /\ in_flight' = ToSet(seeds) /\ results' = NoResults /\ jobs' = jobs \o js
      /\ worker' = worker /\ exited' = exited /\ answers' = answers
      /\ call \in 0..MaxCalls /\ call < MaxCalls
  BY DEF Sample, IInv, TypeInv
<1>3. MaxCalls \in Nat
  BY PoolAssumption
<1>4. call + 1 \in 1..MaxCalls /\ call \in Nat
  BY <1>2, <1>3
<1>5. /\ js \in Seq(Job) /\ DOMAIN js = 1..n
      /\ \A s : s \in ToSet(seeds) => Once(At(js, {JobFor(s, call + 1)}))
      /\ \A s : s \notin ToSet(seeds) => At(js, {JobFor(s, call + 1)}) = {}
  BY <1>1, <1>4, SeedJobs
<1>6. \A i \in DOMAIN js : js[i].call = call + 1
  BY DEF JobFor
<1> HIDE DEF n, seeds, rest, js
<1>7. ToSet(seeds) \subseteq Sensors
  BY <1>1, PlanShape, ElementOfSeq, LenProperties DEF ToSet
<1>8. jobs' \in Seq(Job)
  BY <1>2, <1>5, ConcatProperties DEF IInv, TypeInv
<1>9. DOMAIN NoResults = {}
  BY DEF NoResults
<1>10. TypeInv'
  BY <1>1, <1>2, <1>4, <1>7, <1>8, <1>9 DEF IInv, TypeInv
<1>11. WorkersHoldOne' /\ PlannedOnce' /\ ResultsAreOfThisCall'
  BY <1>1, <1>2, <1>9 DEF IInv, WorkersHoldOne, PlannedOnce, ResultsAreOfThisCall
<1>12. CallsAreOld'
  <2>1. \A i \in DOMAIN jobs' : jobs'[i].call <= call + 1
    <3> DEFINE m == Len(jobs)
               k == Len(js)
    <3>1. /\ m \in Nat /\ k \in Nat /\ DOMAIN jobs = 1..m /\ DOMAIN js = 1..k
          /\ DOMAIN jobs' = 1..(m + k)
          /\ \A i \in 1..(m + k) : jobs'[i] = IF i <= m THEN jobs[i] ELSE js[i - m]
      BY <1>2, <1>5, <1>8, ConcatProperties, LenProperties DEF IInv, TypeInv
    <3> HIDE DEF m, k
    <3>2. \A i \in 1..m : jobs[i].call \in Nat /\ jobs[i].call <= call
      BY <3>1, CallNumbers DEF IInv
    <3> SUFFICES ASSUME NEW i \in 1..(m + k) PROVE jobs'[i].call <= call + 1
      BY <3>1
    <3>3. CASE i <= m
      <4>1. i \in 1..m /\ jobs'[i] = jobs[i]
        BY <3>1, <3>3
      <4> QED
        BY <1>4, <3>2, <4>1
    <3>4. CASE ~ (i <= m)
      <4>1. i - m \in 1..k /\ jobs'[i] = js[i - m]
        BY <3>1, <3>4
      <4>2. jobs'[i].call = call + 1
        BY <1>6, <3>1, <4>1
      <4> QED
        BY <1>4, <4>2
    <3> QED
      BY <3>3, <3>4
  <2>2. \A w \in Workers : \A j \in worker[w] : j.call <= call + 1
    BY <1>4, CallNumbers DEF IInv
  <2>3. \A i \in DOMAIN answers : answers[i].call <= call + 1
    BY <1>4, CallNumbers DEF IInv
  <2> QED
    BY <1>2, <2>1, <2>2, <2>3 DEF CallsAreOld
<1>13. OneCopyEach'
  <2> SUFFICES ASSUME NEW s \in Sensors
               PROVE  IF s \in in_flight' THEN OneCopy(s)' ELSE NoCopy(s)'
    BY DEF OneCopyEach
  <2> DEFINE X == {JobFor(s, call + 1)}
  <2>1. At(jobs, X) = {}
    <3>1. \A i \in DOMAIN jobs : jobs[i].call \in Nat /\ jobs[i].call <= call
      BY CallNumbers DEF IInv
    <3>2. \A i \in DOMAIN jobs : jobs[i].call # call + 1
      BY <1>4, <3>1
    <3> QED
      BY <3>2 DEF At, JobFor
  <2>2. Queued(s)' = At(jobs \o js, X)
    BY <1>2 DEF Queued, At
  <2>3. Running(s)' = {}
    <3>1. \A w \in Workers : \A j \in worker[w] : j.call \in Nat /\ j.call <= call
      BY CallNumbers DEF IInv
    <3>2. \A w \in Workers : \A j \in worker[w] : j.call # call + 1
      BY <1>4, <3>1
    <3> QED
      BY <1>2, <3>2 DEF Running, JobFor
  <2>4. Answered(s)' = {}
    <3>1. \A i \in DOMAIN answers : answers[i].call \in Nat /\ answers[i].call <= call
      BY CallNumbers DEF IInv
    <3>2. \A i \in DOMAIN answers : answers[i].call # call + 1
      BY <1>4, <3>1
    <3> QED
      BY <1>2, <3>2 DEF Answered
  <2>5. jobs \in Seq(Job)
    BY DEF IInv, TypeInv
  <2> HIDE DEF X
  <2>6. CASE s \in ToSet(seeds)
    <3>1. Once(Queued(s)')
      BY <1>5, <2>1, <2>2, <2>5, <2>6, AtConcat DEF X
    <3> QED
      BY <1>2, <2>3, <2>4, <2>6, <3>1 DEF OneCopy
  <2>7. CASE s \notin ToSet(seeds)
    <3>1. Queued(s)' = {}
      BY <1>5, <2>1, <2>2, <2>5, <2>7, AtConcat DEF X
    <3> QED
      BY <1>2, <2>3, <2>4, <2>7, <3>1 DEF NoCopy
  <2> QED
    BY <2>6, <2>7
<1>14. PoolKeptBusy'
  BY <1>1, <1>2 DEF PoolKeptBusy, PoolSize
<1> QED
  BY <1>10, <1>11, <1>12, <1>13, <1>14 DEF IInv

(* An answer sample() does not know as its own is of an earlier call, so no *)
(* answer of this call goes by; one it does take makes room for one sensor. *)
LEMMA ReceiveInv ==
  ASSUME IInv, Receive
  PROVE  IInv'
<1> DEFINE a == Head(answers)
<1>1. /\ caller = "waiting" /\ in_flight # {} /\ answers # <<>>
      /\ answers' = Tail(answers) /\ caller' = caller /\ call' = call
      /\ worker' = worker /\ exited' = exited
  BY DEF Receive
<1>2. a = answers[1] /\ 1 \in DOMAIN answers /\ Tail(answers) \in Seq(Answer)
  BY <1>1, HeadTailProperties, AtTail DEF IInv, TypeInv
<1>3. a \in Answer /\ call \in Nat /\ a.id \in Sensors
  BY <1>2, CallNumbers DEF IInv, Answer
<1>4. \A i \in DOMAIN answers' : \E k \in DOMAIN answers : answers'[i] = answers[k]
  <2>1. /\ Len(answers) \in Nat \ {0} /\ DOMAIN answers = 1..Len(answers)
        /\ DOMAIN answers' = 1..(Len(answers) - 1)
        /\ \A i \in 1..(Len(answers) - 1) : answers'[i] = answers[i + 1]
    BY <1>1, <1>2, HeadTailProperties, LenProperties, EmptySeq DEF IInv, TypeInv
  <2> QED
    BY <2>1
<1>5. \A s \in Sensors : /\ Queued(s) = At(jobs, {JobFor(s, call)})
                         /\ Queued(s)' = At(jobs', {JobFor(s, call)})
                         /\ Running(s)' = Running(s)
                         /\ Answered(s) = At(answers, AnswersFor(s, call))
                         /\ Answered(s)' = At(Tail(answers), AnswersFor(s, call))
  BY <1>1, <1>2, AnsweredAt DEF IInv, TypeInv, Queued, Running, Answered, At
<1>6. \A s \in Sensors : a \in AnswersFor(s, call) <=> (a.call = call /\ a.id = s)
  BY <1>3 DEF AnswersFor
<1>7. a.call = call => 1 \in Answered(a.id)
  BY <1>2, <1>3, <1>5, <1>6 DEF At
<1>8. IsMine(a) <=> a.call = call
  <2>1. ASSUME a.call = call PROVE a.id \in in_flight
    BY <1>1, <1>3, <1>7, <2>1 DEF IInv, OneCopyEach, NoCopy
  <2> QED
    BY <2>1 DEF IsMine
<1>9. \A s \in Sensors :
        /\ Answered(s) = {} => Answered(s)' = {}
        /\ Once(Answered(s)) /\ a.call = call /\ a.id = s => Answered(s)' = {}
        /\ Once(Answered(s)) /\ ~ (a.call = call /\ a.id = s) => Once(Answered(s)')
  BY <1>1, <1>5, <1>6, AtTail DEF IInv, TypeInv
<1>10. WorkersHoldOne'
  BY <1>1 DEF IInv, WorkersHoldOne
<1>11. /\ results' = IF IsMine(a) THEN With(results, {a.id}, [outcome |-> a.outcome, of |-> a.call])
                     ELSE results
       /\ DOMAIN results' \subseteq Sensors
       /\ \A s \in DOMAIN results' : results'[s] \in Result /\ results'[s].of = call
  <2>1. results' = IF IsMine(a) THEN With(results, {a.id}, [outcome |-> a.outcome, of |-> a.call])
                   ELSE results
    BY DEF Receive
  <2>2. [outcome |-> a.outcome, of |-> a.call] \in Result
    BY <1>3 DEF Answer, Result
  <2>3. CASE IsMine(a)
    BY <1>3, <1>8, <2>1, <2>2, <2>3 DEF IInv, TypeInv, ResultsAreOfThisCall, With
  <2>4. CASE ~ IsMine(a)
    BY <2>1, <2>4 DEF IInv, TypeInv, ResultsAreOfThisCall
  <2> QED
    BY <2>1, <2>3, <2>4
<1>12. CASE ~ IsMine(a)
  <2>1. in_flight' = in_flight /\ pending' = pending /\ jobs' = jobs
    BY <1>12 DEF Receive
  <2>2. TypeInv' /\ PlannedOnce' /\ ResultsAreOfThisCall' /\ PoolKeptBusy'
    BY <1>1, <1>2, <1>11, <2>1
       DEF IInv, TypeInv, PlannedOnce, ResultsAreOfThisCall, PoolKeptBusy, PoolSize
  <2>3. CallsAreOld'
    BY <1>1, <1>4, <2>1 DEF IInv, CallsAreOld
  <2>4. OneCopyEach'
    <3> SUFFICES ASSUME NEW s \in Sensors
                 PROVE  IF s \in in_flight THEN OneCopy(s)' ELSE NoCopy(s)'
      BY <2>1 DEF OneCopyEach
    <3>1. Queued(s)' = Queued(s) /\ Running(s)' = Running(s)
      BY <1>1, <1>5, <2>1
    <3>2. (Answered(s) = {} => Answered(s)' = {}) /\ (Once(Answered(s)) => Once(Answered(s)'))
      BY <1>8, <1>9, <1>12
    <3> QED
      BY <1>1, <3>1, <3>2 DEF IInv, OneCopyEach, OneCopy, NoCopy
  <2> QED
    BY <1>10, <2>2, <2>3, <2>4 DEF IInv
<1>13. CASE IsMine(a) /\ pending = <<>>
  <2>1. in_flight' = in_flight \ {a.id} /\ pending' = pending /\ jobs' = jobs /\ a.id \in in_flight
    BY <1>13 DEF Receive, IsMine
  <2>2. TypeInv' /\ PlannedOnce' /\ ResultsAreOfThisCall'
    BY <1>1, <1>2, <1>11, <2>1 DEF IInv, TypeInv, PlannedOnce, ResultsAreOfThisCall
  <2>3. CallsAreOld'
    BY <1>1, <1>4, <2>1 DEF IInv, CallsAreOld
  <2>4. OneCopyEach'
    <3> SUFFICES ASSUME NEW s \in Sensors
                 PROVE  IF s \in in_flight' THEN OneCopy(s)' ELSE NoCopy(s)'
      BY DEF OneCopyEach
    <3>1. Queued(s)' = Queued(s) /\ Running(s)' = Running(s)
      BY <1>1, <1>5, <2>1
    <3>2. CASE s = a.id
      <4>1. Answered(s) # {} /\ OneCopy(s)
        BY <1>1, <1>7, <1>8, <1>13, <2>1, <3>2 DEF IInv, OneCopyEach
      <4> QED
        BY <1>8, <1>9, <1>13, <2>1, <3>1, <3>2, <4>1 DEF OneCopy, NoCopy
    <3>3. CASE s # a.id
      BY <1>1, <1>9, <2>1, <3>1, <3>3 DEF IInv, OneCopyEach, OneCopy, NoCopy
    <3> QED
      BY <3>2, <3>3
  <2>5. PoolKeptBusy'
    <3>1. IsFiniteSet(in_flight) /\ Cardinality(in_flight) \in Nat
      BY PoolAssumption, FS_Subset, FS_CardinalityType DEF IInv, TypeInv
    <3>2. Cardinality(in_flight') = Cardinality(in_flight) - 1
      BY <2>1, <3>1, FS_RemoveElement
    <3>3. PoolSize \in Nat
      BY PoolAssumption, FS_CardinalityType DEF PoolSize
    <3> QED
      BY <1>13, <2>1, <3>1, <3>2, <3>3 DEF IInv, PoolKeptBusy, PoolSize
  <2> QED
    BY <1>10, <2>2, <2>3, <2>4, <2>5 DEF IInv
<1>14. CASE IsMine(a) /\ pending # <<>>
  <2> DEFINE h == Head(pending)
  <2>1. /\ in_flight' = (in_flight \ {a.id}) \cup {h} /\ pending' = Tail(pending)
        /\ jobs' = Append(jobs, JobFor(h, call)) /\ a.id \in in_flight
    BY <1>14 DEF Receive, IsMine
  <2>2. /\ h \in ToSet(pending) /\ h \in Sensors /\ Tail(pending) \in Plans
        /\ ToSet(Tail(pending)) \subseteq ToSet(pending) \ {h}
    BY <1>14, TailOfPlan DEF IInv, TypeInv
  <2>3. h \notin in_flight
    BY <2>2 DEF IInv, PlannedOnce
  <2>4. call \in 1..MaxCalls
    BY <1>1 DEF IInv, TypeInv
  <2>5. JobFor(h, call) \in Job
    BY <2>2, <2>4 DEF Job, JobFor
  <2>6. jobs' \in Seq(Job)
    BY <2>1, <2>5, AppendProperties DEF IInv, TypeInv
  <2> HIDE DEF h
  <2>7. TypeInv' /\ PlannedOnce' /\ ResultsAreOfThisCall'
    BY <1>1, <1>2, <1>11, <2>1, <2>2, <2>6
       DEF IInv, TypeInv, PlannedOnce, ResultsAreOfThisCall
  <2>8. CallsAreOld'
    <3>1. \A i \in DOMAIN jobs' : (\E k \in DOMAIN jobs : jobs'[i] = jobs[k])
                                  \/ jobs'[i] = JobFor(h, call)
      <4>1. /\ Len(jobs) \in Nat /\ DOMAIN jobs = 1..Len(jobs)
            /\ DOMAIN jobs' = 1..(Len(jobs) + 1)
            /\ \A i \in 1..Len(jobs) : jobs'[i] = jobs[i]
            /\ jobs'[Len(jobs) + 1] = JobFor(h, call)
        BY <2>1, <2>5, <2>6, AppendProperties, LenProperties DEF IInv, TypeInv
      <4> QED
        BY <4>1
    <3>2. JobFor(h, call).call <= call
      BY <1>3 DEF JobFor
    <3> QED
      BY <1>1, <1>4, <3>1, <3>2 DEF IInv, CallsAreOld
  <2>9. OneCopyEach'
    <3> SUFFICES ASSUME NEW s \in Sensors
                 PROVE  IF s \in in_flight' THEN OneCopy(s)' ELSE NoCopy(s)'
      BY DEF OneCopyEach
    <3>1. /\ s # h => Queued(s)' = Queued(s)
          /\ s = h /\ Queued(s) = {} => Once(Queued(s)')
      <4>1. JobFor(h, call) \in {JobFor(s, call)} <=> s = h
        BY DEF JobFor
      <4>2. jobs \in Seq(Job)
        BY DEF IInv, TypeInv
      <4> DEFINE X == {JobFor(s, call)}
      <4>3. Queued(s) = At(jobs, X) /\ Queued(s)' = At(Append(jobs, JobFor(h, call)), X)
        BY <1>5, <2>1
      <4> HIDE DEF X
      <4>4. /\ JobFor(h, call) \notin X => At(Append(jobs, JobFor(h, call)), X) = At(jobs, X)
            /\ JobFor(h, call) \in X /\ At(jobs, X) = {}
                  => Once(At(Append(jobs, JobFor(h, call)), X))
        BY <2>5, <4>2, AtAppend
      <4> QED
        BY <4>1, <4>3, <4>4 DEF X
    <3>2. Running(s)' = Running(s)
      BY <1>5
    <3>3. CASE s = h
      <4>1. NoCopy(s) /\ s # a.id /\ s \in in_flight'
        BY <1>1, <2>1, <2>3, <3>3 DEF IInv, OneCopyEach
      <4> QED
        BY <1>9, <3>1, <3>2, <3>3, <4>1 DEF OneCopy, NoCopy
    <3>4. CASE s = a.id
      <4>1. Answered(s) # {} /\ OneCopy(s) /\ s \notin in_flight'
        BY <1>1, <1>7, <1>8, <1>14, <2>1, <2>3, <3>4 DEF IInv, OneCopyEach
      <4> QED
        BY <1>8, <1>9, <1>14, <2>1, <2>3, <3>1, <3>2, <3>4, <4>1 DEF OneCopy, NoCopy
    <3>5. CASE s # h /\ s # a.id
      <4>1. s \in in_flight' <=> s \in in_flight
        BY <2>1, <3>5
      <4>2. (Answered(s) = {} => Answered(s)' = {}) /\ (Once(Answered(s)) => Once(Answered(s)'))
        BY <1>9, <3>5
      <4> QED
        BY <1>1, <3>1, <3>2, <3>5, <4>1, <4>2 DEF IInv, OneCopyEach, OneCopy, NoCopy
    <3> QED
      BY <3>3, <3>4, <3>5
  <2>10. PoolKeptBusy'
    <3>1. IsFiniteSet(in_flight) /\ Cardinality(in_flight) \in Nat
      BY PoolAssumption, FS_Subset, FS_CardinalityType DEF IInv, TypeInv
    <3>2. IsFiniteSet(in_flight \ {a.id}) /\ Cardinality(in_flight \ {a.id}) = Cardinality(in_flight) - 1
      BY <2>1, <3>1, FS_RemoveElement
    <3>3. Cardinality(in_flight') = Cardinality(in_flight) - 1 + 1
      BY <2>1, <2>3, <3>2, FS_AddElement
    <3>4. Cardinality(in_flight) = PoolSize
      BY <1>14 DEF IInv, PoolKeptBusy
    <3>5. Cardinality(in_flight') = PoolSize /\ PoolSize \in Nat
      BY <3>1, <3>3, <3>4
    <3> QED
      BY <3>5 DEF PoolKeptBusy, PoolSize
  <2> QED
    BY <1>10, <2>7, <2>8, <2>9, <2>10 DEF IInv
<1> QED
  BY <1>12, <1>13, <1>14

(* The end of a call marks what is in flight as timed out in this call. *)
LEMMA ReturnInv ==
  ASSUME IInv, Return
  PROVE  IInv'
<1> DEFINE r == [outcome |-> "timeout", of |-> call]
<1>1. /\ caller = "waiting" /\ caller' = "idle" /\ results' = With(results, in_flight, r)
      /\ in_flight' = {} /\ pending' = <<>> /\ call' = call /\ jobs' = jobs
      /\ worker' = worker /\ exited' = exited /\ answers' = answers
  BY DEF Return
<1>2. r \in Result /\ r.of = call
  BY <1>1 DEF IInv, TypeInv, Result, Outcome
<1> HIDE DEF r
<1>3. /\ DOMAIN results' \subseteq Sensors
      /\ \A s \in DOMAIN results' : results'[s] \in Result /\ results'[s].of = call
  BY <1>1, <1>2 DEF IInv, TypeInv, ResultsAreOfThisCall, With
<1>4. <<>> \in Plans /\ ToSet(<<>>) = {}
  <2>1. <<>> \in Seq(Sensors) /\ IsInjective(<<>>)
    BY EmptySeq DEF IsInjective
  <2>2. <<>> \in Plans
    BY <2>1, PlanShape
  <2> QED
    BY <2>2 DEF ToSet
<1>5. TypeInv' /\ ResultsAreOfThisCall'
  BY <1>1, <1>3, <1>4 DEF IInv, TypeInv, ResultsAreOfThisCall
<1>6. WorkersHoldOne' /\ CallsAreOld' /\ PlannedOnce' /\ OneCopyEach'
  BY <1>1 DEF IInv, WorkersHoldOne, CallsAreOld, PlannedOnce, OneCopyEach
<1>7. PoolSize \in Nat
  BY PoolAssumption, FS_CardinalityType DEF PoolSize
<1>8. PoolKeptBusy'
  BY <1>1, <1>7, FS_EmptySet DEF PoolKeptBusy, PoolSize
<1> QED
  BY <1>5, <1>6, <1>8 DEF IInv

(* A worker that takes a job is the one place the job then is. *)
LEMMA TakeInv ==
  ASSUME IInv, NEW w \in Workers, Take(w)
  PROVE  IInv'
<1> DEFINE j == Head(jobs)
<1>1. /\ worker[w] = {} /\ jobs # <<>> /\ worker' = [worker EXCEPT ![w] = {j}]
      /\ jobs' = Tail(jobs) /\ caller' = caller /\ call' = call /\ pending' = pending
      /\ in_flight' = in_flight /\ results' = results /\ exited' = exited /\ answers' = answers
  BY DEF Take
<1>2. j = jobs[1] /\ 1 \in DOMAIN jobs /\ Tail(jobs) \in Seq(Job) /\ j \in Job
  BY <1>1, HeadTailProperties, AtTail DEF IInv, TypeInv
<1> HIDE DEF j
<1>3. /\ worker' \in [Workers -> SUBSET Job] /\ worker'[w] = {j}
      /\ \A v \in Workers \ {w} : worker'[v] = worker[v]
  BY <1>1, <1>2 DEF IInv, TypeInv
<1>4. TypeInv'
  BY <1>1, <1>2, <1>3 DEF IInv, TypeInv
<1>5. WorkersHoldOne'
  BY <1>3 DEF IInv, WorkersHoldOne
<1>6. \A i \in DOMAIN jobs' : \E k \in DOMAIN jobs : jobs'[i] = jobs[k]
  <2>1. /\ Len(jobs) \in Nat \ {0} /\ DOMAIN jobs = 1..Len(jobs)
        /\ DOMAIN jobs' = 1..(Len(jobs) - 1)
        /\ \A i \in 1..(Len(jobs) - 1) : jobs'[i] = jobs[i + 1]
    BY <1>1, <1>2, HeadTailProperties, LenProperties, EmptySeq DEF IInv, TypeInv
  <2> QED
    BY <2>1
<1>7. CallsAreOld'
  <2>1. \A i \in DOMAIN jobs' : jobs'[i].call <= call'
    BY <1>1, <1>6 DEF IInv, CallsAreOld
  <2>2. \A v \in Workers : \A k \in worker'[v] : k.call <= call'
    BY <1>1, <1>2, <1>3 DEF IInv, CallsAreOld
  <2> QED
    BY <1>1, <2>1, <2>2 DEF IInv, CallsAreOld
<1>8. PlannedOnce' /\ ResultsAreOfThisCall' /\ PoolKeptBusy'
  BY <1>1 DEF IInv, PlannedOnce, ResultsAreOfThisCall, PoolKeptBusy, PoolSize
<1>9. OneCopyEach'
  <2> SUFFICES ASSUME caller = "waiting", NEW s \in Sensors
               PROVE  IF s \in in_flight THEN OneCopy(s)' ELSE NoCopy(s)'
    BY <1>1 DEF OneCopyEach
  <2> DEFINE X == {JobFor(s, call)}
  <2>1. Queued(s) = At(jobs, X) /\ Queued(s)' = At(Tail(jobs), X) /\ Answered(s)' = Answered(s)
    BY <1>1 DEF Queued, Answered, At
  <2>2. CASE j = JobFor(s, call)
    <3>1. 1 \in Queued(s)
      BY <1>2, <2>2 DEF Queued
    <3>2. OneCopy(s) /\ s \in in_flight
      BY <3>1 DEF IInv, OneCopyEach, NoCopy
    <3>3. Once(Queued(s)) /\ Running(s) = {} /\ Answered(s) = {}
      BY <3>1, <3>2 DEF OneCopy
    <3>4. Queued(s)' = {}
      <4>1. j \in X
        BY <2>2
      <4> HIDE DEF X
      <4> QED
        BY <1>1, <2>1, <3>3, <4>1, AtTail DEF IInv, TypeInv, j
    <3>5. Running(s)' = {w}
      BY <1>1, <1>3, <2>2, <3>3 DEF Running
    <3> QED
      BY <2>1, <3>2, <3>3, <3>4, <3>5 DEF OneCopy, Once
  <2>3. CASE j # JobFor(s, call)
    <3>1. /\ Queued(s) = {} => Queued(s)' = {}
          /\ Once(Queued(s)) => Once(Queued(s)')
      <4>1. j \notin X
        BY <2>3
      <4> HIDE DEF X
      <4> QED
        BY <1>1, <2>1, <4>1, AtTail DEF IInv, TypeInv, j
    <3>2. Running(s)' = Running(s)
      BY <1>1, <1>3, <2>3 DEF Running
    <3> QED
      BY <2>1, <3>1, <3>2 DEF IInv, OneCopyEach, OneCopy, NoCopy
  <2> QED
    BY <2>2, <2>3
<1> QED
  BY <1>4, <1>5, <1>7, <1>8, <1>9 DEF IInv

(* A worker that is done leaves an answer in its place. *)
LEMMA FinishInv ==
  ASSUME IInv, NEW w \in Workers, Finish(w)
  PROVE  IInv'
<1>1. PICK j \in worker[w], outcome \in {"ok", "failed"} :
        answers' = Append(answers, [call |-> j.call, id |-> j.id, outcome |-> outcome])
  BY DEF Finish
<1> DEFINE a == [call |-> j.call, id |-> j.id, outcome |-> outcome]
<1>2. /\ worker' = [worker EXCEPT ![w] = {}] /\ caller' = caller /\ call' = call
      /\ pending' = pending /\ in_flight' = in_flight /\ results' = results
      /\ jobs' = jobs /\ exited' = exited
  BY DEF Finish
<1>3. worker[w] = {j} /\ j \in Job
  BY <1>1 DEF IInv, TypeInv, WorkersHoldOne
<1>4. a \in Answer /\ a.call = j.call /\ a.id = j.id
  BY <1>3 DEF Job, Answer, Outcome
<1>5. /\ worker' \in [Workers -> SUBSET Job] /\ worker'[w] = {}
      /\ \A v \in Workers \ {w} : worker'[v] = worker[v]
  BY <1>2 DEF IInv, TypeInv
<1> HIDE DEF a
<1>6. answers' = Append(answers, a) /\ answers' \in Seq(Answer)
  BY <1>1, <1>4, AppendProperties DEF IInv, TypeInv, a
<1>7. TypeInv' /\ WorkersHoldOne'
  BY <1>2, <1>5, <1>6 DEF IInv, TypeInv, WorkersHoldOne
<1>8. CallsAreOld'
  <2>1. \A i \in DOMAIN answers' : (\E k \in DOMAIN answers : answers'[i] = answers[k])
                                   \/ answers'[i] = a
    <3>1. /\ Len(answers) \in Nat /\ DOMAIN answers = 1..Len(answers)
          /\ DOMAIN answers' = 1..(Len(answers) + 1)
          /\ \A i \in 1..Len(answers) : answers'[i] = answers[i]
          /\ answers'[Len(answers) + 1] = a
      BY <1>4, <1>6, AppendProperties, LenProperties DEF IInv, TypeInv
    <3> QED
      BY <3>1
  <2>2. a.call <= call
    BY <1>1, <1>4 DEF IInv, CallsAreOld
  <2> QED
    BY <1>2, <1>5, <2>1, <2>2 DEF IInv, CallsAreOld
<1>9. PlannedOnce' /\ ResultsAreOfThisCall' /\ PoolKeptBusy'
  BY <1>2 DEF IInv, PlannedOnce, ResultsAreOfThisCall, PoolKeptBusy, PoolSize
<1>10. OneCopyEach'
  <2> SUFFICES ASSUME caller = "waiting", NEW s \in Sensors
               PROVE  IF s \in in_flight THEN OneCopy(s)' ELSE NoCopy(s)'
    BY <1>2 DEF OneCopyEach
  <2>1. /\ Queued(s)' = Queued(s)
        /\ Answered(s) = At(answers, AnswersFor(s, call))
        /\ Answered(s)' = At(Append(answers, a), AnswersFor(s, call))
    <3>1. Queued(s)' = Queued(s)
      BY <1>2 DEF Queued
    <3>2. Answered(s) = At(answers, AnswersFor(s, call))
      BY AnsweredAt DEF IInv, TypeInv, Answered
    <3>3. Answered(s)' = At(answers', AnswersFor(s, call))
      <4>1. Answered(s)' = {i \in DOMAIN answers' : answers'[i].call = call /\ answers'[i].id = s}
        BY <1>2 DEF Answered
      <4> QED
        BY <1>6, <4>1, AnsweredAt, ZenonT(30)
    <3> QED
      BY <1>6, <3>1, <3>2, <3>3
  <2>2. a \in AnswersFor(s, call) <=> j = JobFor(s, call)
    BY <1>3, <1>4 DEF AnswersFor, JobFor, Job
  <2>3. CASE j = JobFor(s, call)
    <3>1. w \in Running(s)
      BY <1>3, <2>3 DEF Running
    <3>2. OneCopy(s) /\ s \in in_flight
      BY <3>1 DEF IInv, OneCopyEach, NoCopy
    <3>3. Queued(s) = {} /\ Running(s) = {w} /\ Answered(s) = {}
      BY <3>1, <3>2 DEF OneCopy, Once
    <3>4. Running(s)' = {}
      <4>1. \A v \in Workers \ {w} : JobFor(s, call) \notin worker[v]
        BY <3>3 DEF Running
      <4>2. \A v \in Workers : JobFor(s, call) \notin worker'[v]
        BY <1>5, <4>1
      <4> QED
        BY <1>2, <4>2 DEF Running, JobFor
    <3>5. Once(Answered(s)')
      <4> DEFINE X == AnswersFor(s, call)
      <4>1. a \in X /\ At(answers, X) = {} /\ answers \in Seq(Answer)
        BY <2>1, <2>2, <2>3, <3>3 DEF IInv, TypeInv
      <4> HIDE DEF X
      <4>2. Once(At(Append(answers, a), X))
        BY <1>4, <4>1, AtAppend
      <4> QED
        BY <2>1, <4>2 DEF X
    <3> QED
      BY <2>1, <3>2, <3>3, <3>4, <3>5 DEF OneCopy
  <2>4. CASE j # JobFor(s, call)
    <3>1. Running(s)' = Running(s)
      BY <1>2, <1>3, <1>5, <2>4 DEF Running
    <3>2. Answered(s)' = Answered(s)
      BY <1>4, <2>1, <2>2, <2>4, AtAppend DEF IInv, TypeInv
    <3> QED
      BY <2>1, <3>1, <3>2 DEF IInv, OneCopyEach, OneCopy, NoCopy
  <2> QED
    BY <2>3, <2>4
<1> QED
  BY <1>7, <1>8, <1>9, <1>10 DEF IInv

(* Every step of the pool keeps the invariant. *)
LEMMA NextInv == IInv /\ [Next]_vars => IInv'
<1> SUFFICES ASSUME IInv, [Next]_vars PROVE IInv'
  OBVIOUS
<1>1. CASE \E plan \in Plans : Sample(plan)
  BY <1>1, SampleInv
<1>2. CASE Receive
  BY <1>2, ReceiveInv
<1>3. CASE Return
  BY <1>3, ReturnInv
<1>4. ASSUME NEW w \in Workers, Take(w) PROVE IInv'
  BY <1>4, TakeInv
<1>5. ASSUME NEW w \in Workers, Finish(w) PROVE IInv'
  BY <1>5, FinishInv
<1>6. CASE UNCHANGED <<call, pending, in_flight, results, jobs, worker, answers>>
           /\ exited' \subseteq Workers
           /\ caller' \in {"idle", "waiting", "joining", "joined"}
           /\ (caller' = "waiting" => caller = "waiting")
  <2>1. TypeInv'
    BY <1>6 DEF IInv, TypeInv
  <2>2. WorkersHoldOne' /\ CallsAreOld' /\ PlannedOnce' /\ ResultsAreOfThisCall' /\ PoolKeptBusy'
    BY <1>6 DEF IInv, WorkersHoldOne, CallsAreOld, PlannedOnce, ResultsAreOfThisCall,
                PoolKeptBusy, PoolSize
  <2>3. OneCopyEach'
    <3> SUFFICES ASSUME caller = "waiting", NEW s \in Sensors
                 PROVE  IF s \in in_flight THEN OneCopy(s)' ELSE NoCopy(s)'
      BY <1>6 DEF OneCopyEach
    <3>1. Queued(s)' = Queued(s) /\ Running(s)' = Running(s) /\ Answered(s)' = Answered(s)
      BY <1>6 DEF Queued, Running, Answered
    <3> QED
      BY <3>1 DEF IInv, OneCopyEach, OneCopy, NoCopy
  <2> QED
    BY <2>1, <2>2, <2>3 DEF IInv
<1>7. ASSUME NEW w \in Workers, Exit(w) PROVE IInv'
  BY <1>6, <1>7 DEF Exit, IInv, TypeInv
<1>8. CASE Drop \/ Joined \/ UNCHANGED vars
  BY <1>6, <1>8 DEF Drop, Joined, vars, IInv, TypeInv
<1> QED
  BY <1>1, <1>2, <1>3, <1>4, <1>5, <1>7, <1>8 DEF Next

-----------------------------------------------------------------------------
(* The theorems.                                                            *)

(* The inductive invariant holds in every reachable state. *)
LEMMA Invariant == Spec => []IInv
<1>1. Init => IInv
  BY InitInv
<1>2. IInv /\ [Next]_vars => IInv'
  BY NextInv
<1> QED
  BY <1>1, <1>2, PTL DEF Spec

(* Caller, channels, workers and results of the pool are well typed, and a  *)
(* worker is on one job at a time.                                          *)
THEOREM TypeCorrect == Spec => []TypeOK
<1>1. IInv => TypeOK
  <2> SUFFICES ASSUME IInv, NEW w \in Workers PROVE Cardinality(worker[w]) <= 1
    BY DEF IInv, TypeInv, TypeOK
  <2>1. worker[w] = {} \/ \E j : worker[w] = {j}
    BY DEF IInv, WorkersHoldOne
  <2>2. Cardinality(worker[w]) = 0 \/ Cardinality(worker[w]) = 1
    BY <2>1, FS_EmptySet, FS_Singleton
  <2> QED
    BY <2>2
<1> QED
  BY <1>1, Invariant, PTL

(* sample() never passes the late answer of an earlier call's worker for a  *)
(* reading of its own (unix.rs, the call_id check of the receive loop).     *)
THEOREM NoLateAnswerTaken == Spec => []ResultsAreOfThisCall
<1>1. IInv => ResultsAreOfThisCall
  BY DEF IInv
<1> QED
  BY <1>1, Invariant, PTL

(* While sample() waits, each sensor in flight is queued, being sampled or  *)
(* answered exactly once, and no other sensor is.                           *)
THEOREM EveryJobAccountedFor == Spec => []JobsAccountedFor
<1>1. IInv => JobsAccountedFor
  <2> SUFFICES ASSUME IInv, caller = "waiting", NEW s \in Sensors
               PROVE  Copies(s) = IF s \in in_flight THEN 1 ELSE 0
    BY DEF JobsAccountedFor
  <2>1. \A S : Once(S) => Cardinality(S) = 1
    BY FS_Singleton DEF Once
  <2>2. CASE s \in in_flight
    <3>1. OneCopy(s)
      BY <2>2 DEF IInv, OneCopyEach
    <3> QED
      BY <2>1, <2>2, <3>1, FS_EmptySet DEF OneCopy, Copies
  <2>3. CASE s \notin in_flight
    <3>1. NoCopy(s)
      BY <2>3 DEF IInv, OneCopyEach
    <3> QED
      BY <2>3, <3>1, FS_EmptySet DEF NoCopy, Copies
  <2> QED
    BY <2>2, <2>3
<1> QED
  BY <1>1, Invariant, PTL

(* sample() has at most one job per worker out, and leaves a sensor waiting *)
(* only while it has one per worker.                                        *)
THEOREM PoolAlwaysKeptBusy == Spec => []PoolKeptBusy
<1>1. IInv => PoolKeptBusy
  BY DEF IInv
<1> QED
  BY <1>1, Invariant, PTL
=============================================================================
