----------------------------- MODULE SchedulerProofs -----------------------------
(***************************************************************************)
(* Proofs about Scheduler.tla, for any sensors, periods, clock horizon and  *)
(* back-off cap: the cached period, the parking of static sensors and the   *)
(* reach of a back-off, through every mix of joins, leaves and ticks.       *)
(***************************************************************************)
EXTENDS Scheduler, WellFoundedInduction, TLAPS

(* A non-empty set of periods has a least member. *)
LEMMA MinOfPeriods ==
  ASSUME NEW S \in SUBSET Periods, S # {}
  PROVE  Min(S) \in S /\ \A p \in S : Min(S) <= p
<1> DEFINE R == OpToRel(<, Nat)
<1>1. S \subseteq Nat
  BY SchedulerAssumption
<1>2. \A x, y \in Nat : <<y, x>> \in R <=> y < x
  BY DEF OpToRel
<1>3. IsWellFoundedOn(R, Nat)
  BY NatLessThanWellFounded
<1> HIDE DEF R
<1>4. \E x \in S : \A y \in S : ~ (<<y, x>> \in R)
  BY <1>1, <1>3, WFMin
<1>5. PICK x \in S : \A y \in S : ~ (<<y, x>> \in R)
  BY <1>4
<1>6. ASSUME NEW y \in S PROVE x <= y
  <2>1. x \in Nat /\ y \in Nat /\ ~ (y < x)
    BY <1>1, <1>2, <1>5
  <2> QED
    BY <2>1
<1> QED
  BY <1>6 DEF Min

(* The slowest period is one of the periods. *)
LEMMA MaxPeriodType == MaxPeriod \in Periods /\ \A p \in Periods : p <= MaxPeriod
BY SchedulerAssumption DEF MaxPeriod, Max

(* Max and Min of two numbers are what one expects. *)
LEMMA OfTwo ==
  ASSUME NEW a \in Nat, NEW b \in Nat
  PROVE  /\ Max({a, b}) = IF a >= b THEN a ELSE b
         /\ Min({a, b}) = IF a <= b THEN a ELSE b
BY DEF Max, Min

(* Periods are positive. *)
LEMMA PeriodType == \A p \in Periods : p \in Nat /\ p >= 1
<1>1. Periods \subseteq Nat \ {0}
  BY SchedulerAssumption
<1> QED
  BY <1>1

(* Whatever is requested, the effective period is one of the periods. *)
LEMMA EffectivePeriodType ==
  ASSUME NEW s \in Sensors, NEW req \in Requests
  PROVE  effective_period(s, req) \in Periods
<1> DEFINE n == NativePeriod[s]
           m == Min({req, MaxPeriod})
<1>1. n \in Periods /\ n \in Nat /\ n >= 1
  BY PeriodType, SchedulerAssumption
<1>2. req \in Nat /\ MaxPeriod \in Nat
  BY PeriodType, MaxPeriodType DEF Requests
<1>3. m = IF req <= MaxPeriod THEN req ELSE MaxPeriod
  BY <1>2, OfTwo
<1>4. m \in Nat /\ m \in Periods \cup {0}
  BY <1>2, <1>3, MaxPeriodType DEF Requests
<1>5. effective_period(s, req) = Max({n, m})
  BY DEF effective_period
<1> HIDE DEF n, m
<1>6. Max({n, m}) = IF n >= m THEN n ELSE m
  BY <1>1, <1>4, OfTwo
<1> QED
  BY <1>1, <1>4, <1>5, <1>6

(* A back-off from a real clock reading never wraps, never reaches u64::MAX *)
(* and is at most 2^BackoffCap periods; a plain period is the case k = 0.   *)
LEMMA BackoffBound ==
  ASSUME NEW now \in 0..Horizon, NEW p \in Periods, NEW k \in 0..BackoffCap
  PROVE  /\ p <= p * 2^BackoffCap /\ p * 2^BackoffCap \in Nat
         /\ wrapping_add(now, p) = now + p
         /\ now + p < MaxMicros
         /\ wrapping_add(now, saturating_mul(p, 2^k)) \in Nat
         /\ wrapping_add(now, saturating_mul(p, 2^k)) < MaxMicros
         /\ wrapping_add(now, saturating_mul(p, 2^k)) <= now + p * 2^BackoffCap
<1> DEFINE top == 2^BackoffCap
           f == 2^k
<1>1. p \in Nat /\ p >= 1 /\ Horizon \in Nat /\ MaxMicros \in Nat /\ BackoffCap \in Nat
  BY PeriodType, SchedulerAssumption
<1>2. f \in Nat /\ top \in Nat /\ 1 <= f /\ f <= top
  BY <1>1, BackoffAssumption
<1>3. Horizon + p * top < MaxMicros
  BY BackoffAssumption
<1> HIDE DEF top, f
<1>4. p * f \in Nat /\ p * top \in Nat
  BY <1>1, <1>2
<1>5. p * f <= p * top
  <2>1. (top - f) \in Nat /\ top = f + (top - f)
    BY <1>2
  <2>2. p * top = p * f + p * (top - f) /\ p * (top - f) \in Nat
    BY <1>1, <1>2, <2>1
  <2> QED
    BY <1>4, <2>2
<1>6. p <= p * f
  <2>1. (f - 1) \in Nat /\ f = 1 + (f - 1)
    BY <1>2
  <2>2. p * f = p + p * (f - 1) /\ p * (f - 1) \in Nat
    BY <1>1, <1>2, <2>1
  <2> QED
    BY <1>1, <2>2
<1>7. saturating_mul(p, f) = p * f
  BY <1>1, <1>3, <1>4, <1>5 DEF saturating_mul
<1>8. wrapping_add(now, p * f) = now + p * f
  BY <1>1, <1>3, <1>4, <1>5 DEF wrapping_add
<1>9. wrapping_add(now, p) = now + p
  BY <1>1, <1>3, <1>4, <1>5, <1>6 DEF wrapping_add
<1> QED
  BY <1>1, <1>3, <1>4, <1>5, <1>6, <1>7, <1>8, <1>9 DEF top, f

-----------------------------------------------------------------------------
(* What the invariants say of one entry, with h the latest reading used. *)
EntryOK(e, s, h) ==
    /\ e \in Entry
    /\ e.period \in Held(e.counts)
    /\ \A p \in Held(e.counts) : e.period <= p
    /\ e.next_due = MaxMicros => s \in Static /\ e.last # Never
    /\ e.next_due = MaxMicros \/ e.next_due <= h + e.period * 2^BackoffCap
    /\ e.last <= h

IInv ==
    /\ TypeOK
    /\ PeriodIsFastest
    /\ ParkedOnlyAfterReading
    /\ DueWithinBackoff
    /\ ReadingsAreOld

(* The invariant speaks of each entry by itself. *)
LEMMA IInvByEntry ==
  IInv <=> /\ TypeOK
           /\ tick.now <= high
           /\ \A s \in DOMAIN entries : EntryOK(entries[s], s, high)
BY DEF IInv, TypeOK, PeriodIsFastest, ParkedOnlyAfterReading, DueWithinBackoff, ReadingsAreOld,
       EntryOK

(* Facts about the numbers that several steps need. *)
LEMMA Numbers ==
  /\ MaxMicros \in Nat /\ BackoffCap \in Nat /\ Horizon \in Nat /\ Horizon < MaxMicros
  /\ 0 \in 0..BackoffCap
  /\ \A p \in Periods : p \in Nat /\ p >= 1 /\ p * 2^BackoffCap \in Nat
<1>1. MaxMicros \in Nat /\ BackoffCap \in Nat /\ Horizon \in Nat
  BY SchedulerAssumption
<1>2. 0 \in 0..BackoffCap /\ Horizon \in 0..Horizon
  BY <1>1
<1>3. ASSUME NEW p \in Periods
      PROVE  p \in Nat /\ p >= 1 /\ p * 2^BackoffCap \in Nat /\ Horizon + p < MaxMicros
  BY <1>2, PeriodType, BackoffBound
<1>4. MaxPeriod \in Periods
  BY MaxPeriodType
<1>5. Horizon < MaxMicros
  BY <1>1, <1>3, <1>4
<1> QED
  BY <1>1, <1>2, <1>3, <1>5

(* A first subscriber's entry is due at once, at its own period. *)
LEMMA NewEntryOK ==
  ASSUME NEW s \in Sensors, NEW p \in Periods, NEW h \in 0..Horizon
  PROVE  EntryOK(NewEntry(p), s, h)
<1> DEFINE c == [q \in Periods |-> IF q = p THEN 1 ELSE 0]
<1>1. c \in [Periods -> Nat] /\ Held(c) = {p}
  BY DEF Held
<1>2. NewEntry(p) = [counts |-> c, period |-> p, next_due |-> 0, last |-> Never,
                     unsupported |-> 0, timeouts |-> 0]
  BY DEF NewEntry
<1> HIDE DEF c
<1>3. MaxMicros \in Nat /\ MaxMicros # 0 /\ 0 \in 0..BackoffCap /\ h \in Nat
      /\ p \in Nat /\ p * 2^BackoffCap \in Nat
  BY Numbers
<1>4. NewEntry(p) \in Entry
  BY <1>1, <1>2, <1>3 DEF Entry, Micros, Never
<1> QED
  BY <1>1, <1>2, <1>3, <1>4 DEF EntryOK, Never

(* Recounting keeps an entry in order if the new due time is. *)
LEMMA RecountOK ==
  ASSUME NEW e \in Entry, NEW s, NEW h \in 0..Horizon, e.last <= h,
         NEW counts \in [Periods -> Nat], Held(counts) # {},
         NEW due \in Micros,
         due = MaxMicros => s \in Static /\ e.last # Never,
         due = MaxMicros \/ due <= h + Min(Held(counts)) * 2^BackoffCap
  PROVE  EntryOK(Recount(e, counts, due), s, h)
<1> DEFINE m == Min(Held(counts))
           r == Recount(e, counts, due)
<1>1. m \in Held(counts) /\ \A p \in Held(counts) : m <= p
  BY MinOfPeriods DEF Held
<1>2. m \in Periods
  BY <1>1 DEF Held
<1>3. r = [e EXCEPT !.counts = counts, !.period = m, !.next_due = due]
  BY DEF Recount
<1> HIDE DEF m, r
<1>4. r \in Entry /\ r.counts = counts /\ r.period = m /\ r.next_due = due /\ r.last = e.last
  BY <1>2, <1>3 DEF Entry
<1> QED
  BY <1>1, <1>4 DEF EntryOK, m, r

(* A later reading leaves the entries in order. *)
LEMMA LaterReadingOK ==
  ASSUME NEW e, NEW s, NEW h \in 0..Horizon, NEW k \in 0..Horizon, h <= k, EntryOK(e, s, h)
  PROVE  EntryOK(e, s, k)
<1>1. e.period \in Periods /\ e.last \in Micros \cup {Never} /\ e.next_due \in Micros
  BY DEF EntryOK, Entry
<1>2. e.period * 2^BackoffCap \in Nat /\ MaxMicros \in Nat
  BY <1>1, Numbers
<1>3. e.last <= k
  BY <1>1, <1>2 DEF EntryOK, Micros, Never
<1>4. e.next_due = MaxMicros \/ e.next_due <= k + e.period * 2^BackoffCap
  BY <1>1, <1>2 DEF EntryOK, Micros
<1> QED
  BY <1>3, <1>4 DEF EntryOK

-----------------------------------------------------------------------------
TableOK(es, h) ==
    /\ DOMAIN es \subseteq Sensors
    /\ es \in [DOMAIN es -> Entry]
    /\ \A s \in DOMAIN es : EntryOK(es[s], s, h)

(* subscribe keeps every entry in order. *)
LEMMA SubscribeOK ==
  ASSUME NEW es, NEW h \in 0..Horizon, TableOK(es, h), NEW s \in Sensors, NEW p \in Periods
  PROVE  TableOK(subscribe(es, s, p), h)
<1>p. ASSUME NEW e, EntryOK(e, s, h) PROVE TableOK(Put(es, s, e), h)
  BY <1>p DEF TableOK, Put, EntryOK
<1>1. CASE s \notin DOMAIN es
  BY <1>1, <1>p, NewEntryOK DEF subscribe
<1>2. CASE s \in DOMAIN es
  <2> DEFINE e == es[s]
             counts == [e.counts EXCEPT ![p] = @ + 1]
  <2>1. e \in Entry /\ e.last <= h
    BY <1>2 DEF TableOK, EntryOK
  <2>2. e.counts \in [Periods -> Nat]
    BY <2>1 DEF Entry
  <2>3. counts \in [Periods -> Nat] /\ counts[p] > 0
    BY <2>2
  <2>4. Held(counts) # {} /\ Min(Held(counts)) \in Periods
    BY <2>3, MinOfPeriods DEF Held
  <2>5. subscribe(es, s, p) = Put(es, s, Recount(e, counts, 0))
    BY <1>2 DEF subscribe
  <2> HIDE DEF e, counts
  <2>6. 0 \in Micros /\ 0 # MaxMicros /\ 0 <= h + Min(Held(counts)) * 2^BackoffCap
    BY <2>4, Numbers DEF Micros
  <2>7. EntryOK(Recount(e, counts, 0), s, h)
    BY <2>1, <2>3, <2>4, <2>6, RecountOK
  <2> QED
    BY <2>5, <2>7, <1>p
<1> QED
  BY <1>1, <1>2

(* Multiplication by a natural number is monotonic. *)
LEMMA MulMonotonic ==
  ASSUME NEW a \in Nat, NEW b \in Nat, NEW k \in Nat, a <= b
  PROVE  a * k <= b * k
<1>1. (b - a) \in Nat /\ b = a + (b - a)
  OBVIOUS
<1>2. b * k = a * k + (b - a) * k /\ (b - a) * k \in Nat /\ a * k \in Nat
  BY <1>1
<1> QED
  BY <1>2

(* The due time an unsubscribe leaves is within the reach of a back-off at   *)
(* the period that is now the fastest, and parks nothing.                    *)
LEMMA DueAfterLeaveOK ==
  ASSUME NEW e, NEW s, NEW h \in 0..Horizon, EntryOK(e, s, h),
         NEW counts \in [Periods -> Nat], Held(counts) # {}, Held(counts) \subseteq Held(e.counts)
  PROVE  LET due == DueAfterLeave(e, s, counts) IN
         /\ due \in Micros
         /\ due = MaxMicros => s \in Static /\ e.last # Never
         /\ due = MaxMicros \/ due <= h + Min(Held(counts)) * 2^BackoffCap
<1> DEFINE m == Min(Held(counts))
           K == 2^BackoffCap
           due == DueAfterLeave(e, s, counts)
<1>1. m \in Held(counts) /\ m \in Periods
  BY MinOfPeriods DEF Held
<1>2. e.period <= m /\ e.period \in Periods /\ e.next_due \in Micros
      /\ e.last \in Micros \cup {Never} /\ e.last <= h
  BY <1>1 DEF EntryOK, Entry
<1>3. due = IF s \in Static THEN e.next_due
            ELSE IF e.last = Never THEN 0 ELSE saturating_add(e.last, m)
  BY DEF DueAfterLeave
<1>k. K \in Nat
  BY Numbers, BackoffAssumption
<1>n. /\ m \in Nat /\ e.period \in Nat /\ m * K \in Nat /\ e.period * K \in Nat
      /\ MaxMicros \in Nat /\ Horizon \in Nat /\ Horizon < MaxMicros
  BY <1>1, <1>2, Numbers
<1>4. CASE s \in Static
  <2>1. due = e.next_due
    BY <1>3, <1>4
  <2>2. e.period * K <= m * K
    BY <1>2, <1>n, <1>k, MulMonotonic
  <2>3. e.next_due = MaxMicros \/ e.next_due <= h + e.period * K
    BY DEF EntryOK
  <2>4. e.next_due = MaxMicros => s \in Static /\ e.last # Never
    BY DEF EntryOK
  <2> HIDE DEF due, m, K
  <2>5. e.next_due = MaxMicros \/ e.next_due <= h + m * K
    BY <1>2, <1>n, <2>2, <2>3 DEF Micros
  <2> QED
    BY <1>2, <2>1, <2>4, <2>5 DEF due, m, K
<1>5. CASE s \notin Static /\ e.last = Never
  <2>1. due = 0
    BY <1>3, <1>5
  <2> HIDE DEF due, m, K
  <2>2. due \in Micros /\ due # MaxMicros /\ due <= h + m * K
    BY <1>n, <2>1 DEF Micros
  <2> QED
    BY <2>2 DEF due, m, K
<1>6. CASE s \notin Static /\ e.last # Never
  <2>1. due = saturating_add(e.last, m)
    BY <1>3, <1>6
  <2>2. e.last \in 0..Horizon
    BY <1>2, <1>6, <1>n DEF Micros
  <2>3. 0 \in 0..BackoffCap
    BY Numbers
  <2>4. e.last + m < MaxMicros /\ m <= m * K
    BY <1>1, <2>2, <2>3, BackoffBound
  <2> HIDE DEF due, m, K
  <2>5. due = e.last + m
    BY <1>n, <2>1, <2>2, <2>4 DEF saturating_add
  <2>6. due \in Micros /\ due # MaxMicros /\ due <= h + m * K
    BY <1>2, <1>n, <2>2, <2>4, <2>5 DEF Micros
  <2> QED
    BY <2>6 DEF due, m, K
<1> QED
  BY <1>4, <1>5, <1>6

(* unsubscribe keeps every entry in order. *)
LEMMA UnsubscribeOK ==
  ASSUME NEW es, NEW h \in 0..Horizon, TableOK(es, h), NEW s \in Sensors, NEW p \in Periods
  PROVE  TableOK(unsubscribe(es, s, p), h)
<1>1. CASE s \notin DOMAIN es
  BY <1>1 DEF unsubscribe
<1>2. CASE s \in DOMAIN es
  <2> DEFINE e == es[s]
             left == [e.counts EXCEPT ![p] = IF @ = 0 THEN 0 ELSE @ - 1]
             due == DueAfterLeave(e, s, left)
  <2>1. EntryOK(e, s, h) /\ e \in Entry /\ e.last <= h
    BY <1>2 DEF TableOK, EntryOK
  <2>2. e.counts \in [Periods -> Nat]
    BY <2>1 DEF Entry
  <2>3. left \in [Periods -> Nat] /\ Held(left) \subseteq Held(e.counts)
    BY <2>2 DEF Held
  <2>4. unsubscribe(es, s, p) = IF Held(left) = {} THEN Remove(es, s)
                                ELSE Put(es, s, Recount(e, left, due))
    BY <1>2 DEF unsubscribe
  <2> HIDE DEF e, left, due
  <2>5. CASE Held(left) = {}
    BY <2>4, <2>5 DEF Remove, TableOK
  <2>6. CASE Held(left) # {}
    <3>1. EntryOK(Recount(e, left, due), s, h)
      BY <2>1, <2>3, <2>6, DueAfterLeaveOK, RecountOK DEF due
    <3>2. unsubscribe(es, s, p) = Put(es, s, Recount(e, left, due))
      BY <2>4, <2>6
    <3> QED
      BY <3>1, <3>2 DEF TableOK, Put, EntryOK
  <2> QED
    BY <2>5, <2>6
<1> QED
  BY <1>1, <1>2

(* Moving the due time to an instant within reach keeps an entry in order,  *)
(* whatever its strikes become.                                             *)
LEMMA RescheduleOK ==
  ASSUME NEW e, NEW s, NEW h \in 0..Horizon, EntryOK(e, s, h), NEW f \in Entry,
         f.counts = e.counts, f.period = e.period, f.last = e.last,
         f.next_due \in Nat, f.next_due < MaxMicros,
         f.next_due <= h + e.period * 2^BackoffCap
  PROVE  EntryOK(f, s, h)
<1>1. f.next_due # MaxMicros
  BY Numbers
<1> QED
  BY <1>1 DEF EntryOK

(* The instants tick_plan and tick_commit reschedule to are within reach. *)
LEMMA Reach ==
  ASSUME NEW e, NEW s, NEW h \in 0..Horizon, EntryOK(e, s, h),
         NEW now \in 0..Horizon, now <= h, NEW k \in 0..BackoffCap
  PROVE  /\ wrapping_add(now, e.period) \in Nat
         /\ wrapping_add(now, e.period) < MaxMicros
         /\ wrapping_add(now, e.period) <= h + e.period * 2^BackoffCap
         /\ BackedOff(e, k, now) \in Nat
         /\ BackedOff(e, k, now) < MaxMicros
         /\ BackedOff(e, k, now) <= h + e.period * 2^BackoffCap
<1> DEFINE p == e.period
           w == wrapping_add(now, saturating_mul(p, 2^k))
           r == p * 2^BackoffCap
<1>1. p \in Periods
  BY DEF EntryOK, Entry
<1>2. /\ p <= r /\ r \in Nat /\ wrapping_add(now, p) = now + p /\ now + p < MaxMicros
      /\ w \in Nat /\ w < MaxMicros /\ w <= now + r
  BY <1>1, BackoffBound
<1>3. p \in Nat /\ now \in Nat /\ h \in Nat
  BY <1>1, Numbers
<1>4. BackedOff(e, k, now) = w
  BY DEF BackedOff
<1> HIDE DEF p, w, r
<1>5. now + p \in Nat /\ now + p <= h + r /\ w <= h + r
  BY <1>2, <1>3
<1> QED
  BY <1>2, <1>4, <1>5 DEF p, r

(* tick_plan keeps every entry in order. *)
LEMMA PlanOK ==
  ASSUME NEW es, NEW h \in 0..Horizon, TableOK(es, h), NEW now \in 0..Horizon, now <= h
  PROVE  TableOK(tick_plan(es, now), h)
<1> DEFINE new == tick_plan(es, now)
<1>1. DOMAIN new = DOMAIN es
  BY DEF tick_plan
<1>2. ASSUME NEW s \in DOMAIN es PROVE EntryOK(new[s], s, h) /\ new[s] \in Entry
  <2> DEFINE e == es[s]
             due == wrapping_add(now, e.period)
  <2>1. EntryOK(e, s, h) /\ e \in Entry
    BY DEF TableOK
  <2>2. new[s] = e \/ new[s] = [e EXCEPT !.next_due = due]
    BY DEF tick_plan
  <2>3. 0 \in 0..BackoffCap /\ MaxMicros \in Nat
    BY Numbers
  <2>4. due \in Nat /\ due < MaxMicros /\ due <= h + e.period * 2^BackoffCap
    BY <2>1, <2>3, Reach
  <2> HIDE DEF e, due, new
  <2>5. due \in Micros
    BY <2>3, <2>4 DEF Micros
  <2>6. ASSUME new[s] = [e EXCEPT !.next_due = due]
        PROVE  /\ new[s] \in Entry /\ new[s].counts = e.counts /\ new[s].period = e.period
               /\ new[s].last = e.last /\ new[s].next_due = due
    BY <2>1, <2>5, <2>6 DEF Entry
  <2> QED
    BY <2>1, <2>2, <2>4, <2>6, RescheduleOK
<1>3. new \in [DOMAIN es -> Entry]
  BY <1>1, <1>2 DEF tick_plan
<1> QED
  BY <1>1, <1>2, <1>3 DEF TableOK

(* tick_commit keeps every entry in order, whatever the outcomes and however *)
(* the entries changed since the plan.                                       *)
LEMMA CommitKeepsOrder ==
  ASSUME NEW es, NEW h \in 0..Horizon, TableOK(es, h), NEW now \in 0..Horizon, now <= h,
         NEW R, NEW results \in [R -> Outcome]
  PROVE  TableOK(tick_commit(es, results, now), h)
<1> DEFINE new == tick_commit(es, results, now)
<1>1. DOMAIN new = DOMAIN es
  BY DEF tick_commit
<1>2. ASSUME NEW s \in DOMAIN es PROVE EntryOK(new[s], s, h) /\ new[s] \in Entry
  <2> DEFINE e == es[s]
  <2>1. EntryOK(e, s, h) /\ e \in Entry
    BY DEF TableOK
  <2>2. \/ new[s] = e
        \/ new[s] = CommitOk(e, s, now)
        \/ new[s] = CommitUnsupported(e, now)
        \/ new[s] = CommitTimeout(e, now)
        \/ new[s] = CommitError(e, now)
    BY DEF tick_commit, Outcome
  <2> HIDE DEF e, new
  <2>n. /\ MaxMicros \in Nat /\ BackoffCap \in Nat /\ Horizon < MaxMicros /\ Horizon \in Nat
        /\ 0 \in 0..BackoffCap
    BY Numbers
  <2>3. ASSUME new[s] = CommitOk(e, s, now) PROVE EntryOK(new[s], s, h) /\ new[s] \in Entry
    <3> DEFINE due == IF s \in Static THEN MaxMicros ELSE e.next_due
    <3>1. now \in Micros /\ MaxMicros \in Micros /\ now # Never /\ e.next_due \in Micros
      BY <2>1, <2>n DEF Micros, Never, Entry
    <3>2. new[s] = [e EXCEPT !.unsupported = 0, !.timeouts = 0, !.last = now, !.next_due = due]
      BY <2>1, <2>3 DEF CommitOk, Entry
    <3>3. due \in Micros /\ (due = MaxMicros => s \in Static)
          /\ (due = MaxMicros \/ due <= h + e.period * 2^BackoffCap)
      BY <2>1, <3>1 DEF EntryOK
    <3> HIDE DEF due
    <3>4. /\ new[s] \in Entry /\ new[s].counts = e.counts /\ new[s].period = e.period
          /\ new[s].last = now /\ new[s].next_due = due
      BY <2>1, <2>n, <3>1, <3>2, <3>3 DEF Entry
    <3> QED
      BY <2>1, <3>1, <3>3, <3>4 DEF EntryOK
  <2>4. ASSUME NEW k \in 0..BackoffCap PROVE Strike(k) \in 0..BackoffCap
    BY <2>n DEF Strike
  <2>5. ASSUME new[s] = CommitUnsupported(e, now) \/ new[s] = CommitTimeout(e, now)
        PROVE  EntryOK(new[s], s, h) /\ new[s] \in Entry
    <3> DEFINE u == Strike(e.unsupported)
               t == Strike(e.timeouts)
    <3>1. u \in 0..BackoffCap /\ t \in 0..BackoffCap
      BY <2>1, <2>4 DEF Entry
    <3>2. \/ new[s] = [e EXCEPT !.unsupported = u, !.next_due = BackedOff(e, u, now)]
          \/ new[s] = [e EXCEPT !.timeouts = t, !.next_due = BackedOff(e, t, now)]
      BY <2>1, <2>5 DEF CommitUnsupported, CommitTimeout, Entry
    <3> HIDE DEF u, t
    <3>3. ASSUME NEW k \in 0..BackoffCap
          PROVE  /\ BackedOff(e, k, now) \in Nat /\ BackedOff(e, k, now) < MaxMicros
                 /\ BackedOff(e, k, now) <= h + e.period * 2^BackoffCap
                 /\ BackedOff(e, k, now) \in Micros
      BY <2>1, <2>n, Reach DEF Micros
    <3>4. ASSUME new[s] = [e EXCEPT !.unsupported = u, !.next_due = BackedOff(e, u, now)]
          PROVE  /\ new[s] \in Entry /\ new[s].counts = e.counts /\ new[s].period = e.period
                 /\ new[s].last = e.last /\ new[s].next_due = BackedOff(e, u, now)
      BY <2>1, <3>1, <3>3, <3>4 DEF Entry
    <3>5. ASSUME new[s] = [e EXCEPT !.timeouts = t, !.next_due = BackedOff(e, t, now)]
          PROVE  /\ new[s] \in Entry /\ new[s].counts = e.counts /\ new[s].period = e.period
                 /\ new[s].last = e.last /\ new[s].next_due = BackedOff(e, t, now)
      BY <2>1, <3>1, <3>3, <3>5 DEF Entry
    <3> QED
      BY <2>1, <3>1, <3>2, <3>3, <3>4, <3>5, RescheduleOK
  <2>6. ASSUME new[s] = CommitError(e, now) PROVE EntryOK(new[s], s, h) /\ new[s] \in Entry
    <3> DEFINE due == wrapping_add(now, e.period)
    <3>1. due \in Nat /\ due < MaxMicros /\ due <= h + e.period * 2^BackoffCap
      BY <2>1, <2>n, Reach
    <3>2. new[s] = [e EXCEPT !.next_due = due]
      BY <2>6 DEF CommitError
    <3> HIDE DEF due
    <3>3. due \in Micros
      BY <2>n, <3>1 DEF Micros
    <3>4. /\ new[s] \in Entry /\ new[s].counts = e.counts /\ new[s].period = e.period
          /\ new[s].last = e.last /\ new[s].next_due = due
      BY <2>1, <3>2, <3>3 DEF Entry
    <3> QED
      BY <2>1, <3>1, <3>4, RescheduleOK
  <2> QED
    BY <2>1, <2>2, <2>3, <2>5, <2>6
<1>3. new \in [DOMAIN es -> Entry]
  BY <1>1, <1>2 DEF tick_commit
<1> QED
  BY <1>1, <1>2, <1>3 DEF TableOK

-----------------------------------------------------------------------------
(* The invariant in terms of the table. *)
LEMMA IInvByTable ==
  IInv <=> /\ TableOK(entries, high)
           /\ clock \in 0..Horizon /\ high \in 0..Horizon
           /\ tick \in [busy : BOOLEAN, items : SUBSET Sensors, now : 0..Horizon]
           /\ tick.now <= high
BY IInvByEntry DEF TypeOK, TableOK

(* The scheduler starts empty. *)
LEMMA InitIInv == Init => IInv
<1> SUFFICES ASSUME Init PROVE IInv
  OBVIOUS
<1>1. DOMAIN entries = {} /\ entries \in [DOMAIN entries -> Entry]
  BY DEF Init
<1>2. Horizon \in Nat
  BY Numbers
<1> QED
  BY <1>1, <1>2, IInvByTable DEF Init, NoTick, TableOK

(* Every step of the scheduler, its clients and its clock keeps the invariant. *)
LEMMA NextIInv == IInv /\ [Next]_vars => IInv'
<1> SUFFICES ASSUME IInv, [Next]_vars PROVE IInv'
  OBVIOUS
<1>i. /\ TableOK(entries, high)
      /\ clock \in 0..Horizon /\ high \in 0..Horizon
      /\ tick \in [busy : BOOLEAN, items : SUBSET Sensors, now : 0..Horizon]
      /\ tick.now <= high
  BY IInvByTable
<1>h. Horizon \in Nat
  BY Numbers
<1>g. ASSUME TableOK(entries', high'), clock' \in 0..Horizon, high' \in 0..Horizon,
             tick' \in [busy : BOOLEAN, items : SUBSET Sensors, now : 0..Horizon],
             tick'.now <= high'
      PROVE  IInv'
  <2>1. ASSUME NEW s \in DOMAIN entries' PROVE EntryOK(entries'[s], s, high')
    BY <1>g DEF TableOK
  <2> QED
    BY <1>g, <2>1 DEF IInv, TypeOK, PeriodIsFastest, ParkedOnlyAfterReading, DueWithinBackoff,
                      ReadingsAreOld, EntryOK, TableOK
<1>1. ASSUME NEW s \in Sensors, NEW req \in Requests, Subscribe(s, req) PROVE IInv'
  <2>1. TableOK(entries', high')
    BY <1>1, <1>i, EffectivePeriodType, SubscribeOK DEF Subscribe
  <2> QED
    BY <1>1, <1>i, <1>g, <2>1 DEF Subscribe
<1>2. ASSUME NEW s \in Sensors, NEW p \in Periods, Unsubscribe(s, p) PROVE IInv'
  <2>1. TableOK(entries', high')
    BY <1>2, <1>i, UnsubscribeOK DEF Unsubscribe
  <2> QED
    BY <1>2, <1>i, <1>g, <2>1 DEF Unsubscribe
<1>3. CASE TickPlan
  <2>1. high' = IF high >= clock THEN high ELSE clock
    BY <1>3, <1>i, <1>h, OfTwo DEF TickPlan
  <2>2. high' \in 0..Horizon /\ high <= high' /\ clock <= high'
    BY <1>i, <1>h, <2>1
  <2>3. TableOK(entries, high')
    BY <1>i, <2>2, LaterReadingOK DEF TableOK
  <2>4. TableOK(entries', high')
    BY <1>3, <1>i, <2>2, <2>3, PlanOK DEF TickPlan
  <2>5. DueAt(entries, clock) \subseteq Sensors
    BY <1>i DEF DueAt, TableOK
  <2> QED
    BY <1>3, <1>i, <1>g, <2>2, <2>4, <2>5 DEF TickPlan
<1>4. CASE TickCommit
  <2>1. PICK R \in SUBSET tick.items : \E results \in [R -> Outcome] :
           entries' = tick_commit(entries, results, tick.now)
    BY <1>4 DEF TickCommit
  <2>2. PICK results \in [R -> Outcome] : entries' = tick_commit(entries, results, tick.now)
    BY <2>1
  <2>3. tick.now \in 0..Horizon
    BY <1>i
  <2>4. TableOK(entries', high)
    BY <1>i, <2>2, <2>3, CommitKeepsOrder
  <2> QED
    BY <1>4, <1>i, <1>h, <1>g, <2>4 DEF TickCommit, NoTick
<1>5. CASE ClockTick \/ ClockStepsBack
  BY <1>5, <1>i, <1>h, <1>g DEF ClockTick, ClockStepsBack
<1>6. CASE UNCHANGED vars
  BY <1>6, <1>i, <1>g DEF vars
<1> QED
  BY <1>1, <1>2, <1>3, <1>4, <1>5, <1>6 DEF Next

-----------------------------------------------------------------------------
(* Every entry, the tick and the clock are well typed: strikes stay within   *)
(* the cap and no due time leaves the range of u64.                          *)
THEOREM TypeCorrect == Spec => []TypeOK
<1>1. IInv => TypeOK
  BY DEF IInv
<1> QED
  BY <1>1, InitIInv, NextIInv, PTL DEF Spec

(* The cached period_micros is the fastest period some subscriber holds,     *)
(* through any sequence of subscribe and unsubscribe.                        *)
THEOREM PeriodAlwaysFastest == Spec => []PeriodIsFastest
<1>1. IInv => PeriodIsFastest
  BY DEF IInv
<1> QED
  BY <1>1, InitIInv, NextIInv, PTL DEF Spec

(* tick_plan's comment: no lost, failed or late job leaves a sensor parked   *)
(* that has never been read, and a polled sensor is never parked at all.     *)
THEOREM NeverParkedUnread == Spec => []ParkedOnlyAfterReading
<1>1. IInv => ParkedOnlyAfterReading
  BY DEF IInv
<1> QED
  BY <1>1, InitIInv, NextIInv, PTL DEF Spec

(* An unparked sensor is due within 2^BackoffCap of its current periods,     *)
(* however its back-offs, joins and leaves were mixed.                       *)
THEOREM BackoffBounded == Spec => []DueWithinBackoff
<1>1. IInv => DueWithinBackoff
  BY DEF IInv
<1> QED
  BY <1>1, InitIInv, NextIInv, PTL DEF Spec

-----------------------------------------------------------------------------
(***************************************************************************)
(* The refinement.  View is the table the contract sees at instant t; each  *)
(* operator on entries is shown to commute with it, sensor by sensor.       *)
(***************************************************************************)
ClassAt(e, t) ==
    IF e.next_due = MaxMicros THEN "parked" ELSE IF e.next_due <= t THEN "due" ELSE "wait"

RowAt(e, t) == [counts |-> e.counts, due |-> ClassAt(e, t)]
View(es, t) == [s \in DOMAIN es |-> RowAt(es[s], t)]

(* A tick is in flight exactly while some planned sensor's result is out. *)
TickShape == tick.busy <=> tick.items # {}

(* A due time short of u64::MAX is due or lies ahead. *)
LEMMA Unparked ==
  ASSUME NEW e, e.next_due # MaxMicros, NEW t
  PROVE  ClassAt(e, t) \in {"due", "wait"}
BY DEF ClassAt

(* An entry found due at t is one whose class is due. *)
LEMMA DueClassIsDue ==
  ASSUME NEW e \in Entry, NEW t \in 0..Horizon
  PROVE  t >= e.next_due <=> ClassAt(e, t) = "due"
<1>1. e.next_due \in 0..MaxMicros
  BY DEF Entry, Micros
<1>2. MaxMicros \in Nat /\ Horizon \in Nat /\ Horizon < MaxMicros
  BY Numbers
<1> QED
  BY <1>1, <1>2 DEF ClassAt

(* The row of a sensor at t. *)
LEMMA ViewRow ==
  ASSUME NEW es, NEW t, NEW s \in DOMAIN es
  PROVE  /\ View(es, t)[s] = RowAt(es[s], t)
         /\ View(es, t)[s].counts = es[s].counts
         /\ View(es, t)[s].due = ClassAt(es[s], t)
BY DEF View, RowAt

(* subscribe takes one token, and makes the sensor due. *)
LEMMA ViewSubscribe ==
  ASSUME NEW es, NEW h \in 0..Horizon, TableOK(es, h), NEW s \in Sensors, NEW p \in Periods,
         NEW t \in 0..Horizon
  PROVE  View(subscribe(es, s, p), t) = Contract!acquire(View(es, t), {<<s, p>>})
<1> DEFINE new == subscribe(es, s, p)
           old == View(es, t)
           T == {<<s, p>>}
           row == [counts |-> [q \in Periods |-> Contract!CountsOf(old, s)[q]
                                                   + IF <<s, q>> \in T THEN 1 ELSE 0],
                   due |-> "due"]
<1>1. {u[1] : u \in T} = {s}
  OBVIOUS
<1>2. Contract!acquire(old, T) = [r \in DOMAIN es \cup {s} |-> IF r = s THEN row ELSE old[r]]
  <2>1. DOMAIN old = DOMAIN es
    BY DEF View
  <2> HIDE DEF old
  <2> QED
    BY <1>1, <2>1 DEF Contract!acquire
<1>3. DOMAIN new = DOMAIN es \cup {s} /\ \A r \in DOMAIN es : r # s => new[r] = es[r]
  BY DEF subscribe, Put
<1>4. RowAt(new[s], t) = row
  <2>0. 0 # MaxMicros /\ 0 <= t
    BY Numbers
  <2>1. CASE s \notin DOMAIN es
    <3>1. new[s] = NewEntry(p)
      BY <2>1 DEF subscribe, Put
    <3>2. ClassAt(new[s], t) = "due"
      BY <2>0, <3>1 DEF ClassAt, NewEntry
    <3>3. Contract!CountsOf(old, s) = [q \in Periods |-> 0]
      BY <2>1 DEF Contract!CountsOf, Contract!NoCounts, View
    <3>4. row.counts = [q \in Periods |-> IF q = p THEN 1 ELSE 0]
      BY <3>3
    <3>5. new[s].counts = [q \in Periods |-> IF q = p THEN 1 ELSE 0]
      BY <3>1 DEF NewEntry
    <3> QED
      BY <3>2, <3>4, <3>5 DEF RowAt
  <2>2. CASE s \in DOMAIN es
    <3> DEFINE c == [es[s].counts EXCEPT ![p] = @ + 1]
    <3>1. new[s] = Recount(es[s], c, 0) /\ es[s] \in Entry
      BY <2>2 DEF subscribe, Put, TableOK
    <3>2. new[s].counts = c /\ new[s].next_due = 0
      BY <3>1 DEF Recount, Entry
    <3>3. ClassAt(new[s], t) = "due"
      BY <2>0, <3>2 DEF ClassAt
    <3>4. Contract!CountsOf(old, s) = es[s].counts
      BY <2>2, ViewRow DEF Contract!CountsOf, View
    <3>5. es[s].counts \in [Periods -> Nat]
      BY <3>1 DEF Entry
    <3>6. row.counts = c
      BY <3>4, <3>5
    <3> QED
      BY <3>2, <3>3, <3>6 DEF RowAt
  <2> QED
    BY <2>1, <2>2
<1>5. \A r \in DOMAIN es : old[r] = RowAt(es[r], t)
  BY ViewRow
<1>6. View(new, t) = [r \in DOMAIN new |-> RowAt(new[r], t)]
  BY DEF View
<1> HIDE DEF new, old, row, T
<1>7. \A r \in DOMAIN new : RowAt(new[r], t) = IF r = s THEN row ELSE old[r]
  BY <1>3, <1>4, <1>5
<1> QED
  BY <1>2, <1>3, <1>6, <1>7 DEF new, old, T

(* unsubscribe gives one token back.  A polled sensor's new due time is in    *)
(* one of the two classes, a static one keeps its own.                        *)
LEMMA ViewUnsubscribe ==
  ASSUME NEW es, NEW h \in 0..Horizon, TableOK(es, h), NEW s \in Sensors, NEW p \in Periods,
         NEW t \in 0..Horizon, s \in DOMAIN es, es[s].counts[p] > 0
  PROVE  \E d \in Contract!Later :
            View(unsubscribe(es, s, p), t) = Contract!release(View(es, t), {<<s, p>>}, d)
<1> DEFINE new == unsubscribe(es, s, p)
           old == View(es, t)
           T == {<<s, p>>}
           left == [es[s].counts EXCEPT ![p] = IF @ = 0 THEN 0 ELSE @ - 1]
           d == [r \in Sensors |-> IF r \in DOMAIN new /\ r \notin Static
                                   THEN ClassAt(new[r], t) ELSE "due"]
<1>1. TableOK(new, h)
  BY UnsubscribeOK
<1>2. d \in Contract!Later
  <2>1. ASSUME NEW r \in DOMAIN new, r \notin Static PROVE ClassAt(new[r], t) \in {"due", "wait"}
    BY <1>1, <2>1, Unparked DEF TableOK, EntryOK
  <2> QED
    BY <2>1 DEF Contract!Later
<1>3. {u[1] : u \in T} = {s}
  OBVIOUS
<1>4. es[s] \in Entry /\ es[s].counts \in [Periods -> Nat]
  BY DEF TableOK, Entry
<1>5. DOMAIN old = DOMAIN es /\ \A r \in DOMAIN es : old[r] = RowAt(es[r], t)
  BY ViewRow DEF View
<1>6. Contract!CountsLeft(old, T, s) = left
  BY <1>4, ViewRow DEF Contract!CountsLeft
<1>7. left \in [Periods -> Nat] /\ (Held(left) # {} <=> \E q \in Periods : left[q] > 0)
  BY <1>4 DEF Held
<1>8. Contract!release(old, T, d) =
         [r \in {x \in DOMAIN es : x = s => Held(left) # {}} |->
            IF r = s THEN [counts |-> left, due |-> IF s \in Static THEN old[s].due ELSE d[s]]
            ELSE old[r]]
  <2> HIDE DEF old, left, d, T
  <2> QED
    BY <1>3, <1>5, <1>6, <1>7 DEF Contract!release
<1>9. new = IF Held(left) = {} THEN Remove(es, s)
            ELSE Put(es, s, Recount(es[s], left, DueAfterLeave(es[s], s, left)))
  BY DEF unsubscribe
<1> HIDE DEF left
<1>10. DOMAIN new = {x \in DOMAIN es : x = s => Held(left) # {}}
  BY <1>9 DEF Remove, Put
<1>11. ASSUME NEW r \in DOMAIN new
       PROVE  RowAt(new[r], t) =
                IF r = s THEN [counts |-> left, due |-> IF s \in Static THEN old[s].due ELSE d[s]]
                ELSE old[r]
  <2>1. CASE r # s
    BY <1>5, <1>9, <1>10, <2>1 DEF Remove, Put
  <2>2. CASE r = s
    <3>1. new[s] = Recount(es[s], left, DueAfterLeave(es[s], s, left))
      BY <1>9, <1>10, <2>2 DEF Put
    <3>2. new[s].counts = left /\ new[s].next_due = DueAfterLeave(es[s], s, left)
      BY <1>4, <3>1 DEF Recount, Entry
    <3>3. s \in Static => ClassAt(new[s], t) = old[s].due
      BY <3>2, ViewRow DEF DueAfterLeave, ClassAt
    <3>4. s \notin Static => d[s] = ClassAt(new[s], t)
      BY <2>2
    <3> QED
      BY <2>2, <3>2, <3>3, <3>4 DEF RowAt
  <2> QED
    BY <2>1, <2>2
<1>12. View(new, t) = [r \in DOMAIN new |-> RowAt(new[r], t)]
  BY DEF View
<1>13. View(new, t) = Contract!release(old, T, d)
  <2> HIDE DEF new, old, d, T
  <2> QED
    BY <1>8, <1>10, <1>11, <1>12
<1> QED
  BY <1>2, <1>13

(* tick_plan plans what is due and reschedules it past the instant. *)
LEMMA ViewPlan ==
  ASSUME NEW es, NEW h \in 0..Horizon, TableOK(es, h), NEW t \in 0..Horizon, t <= h
  PROVE  /\ View(tick_plan(es, t), t) = Contract!tick_plan(View(es, t))
         /\ DueAt(es, t) = Contract!DueSet(View(es, t))
<1> DEFINE new == tick_plan(es, t)
           old == View(es, t)
<1>1. DOMAIN old = DOMAIN es /\ DOMAIN new = DOMAIN es
      /\ \A r \in DOMAIN es : old[r] = RowAt(es[r], t) /\ old[r].due = ClassAt(es[r], t)
  BY ViewRow DEF View, tick_plan
<1>2. ASSUME NEW s \in DOMAIN es
      PROVE  /\ s \in DueAt(es, t) <=> old[s].due = "due"
             /\ RowAt(new[s], t) = IF old[s].due = "due" THEN [old[s] EXCEPT !.due = "wait"]
                                   ELSE old[s]
  <2> DEFINE e == es[s]
             due == wrapping_add(t, e.period)
  <2>1. e \in Entry /\ EntryOK(e, s, h) /\ e.period \in Periods
    BY DEF TableOK, Entry
  <2>2. s \in DueAt(es, t) <=> old[s].due = "due"
    BY <1>1, <2>1, DueClassIsDue DEF DueAt
  <2>3. CASE old[s].due = "due"
    <3>1. new[s] = [e EXCEPT !.next_due = due]
      BY <2>2, <2>3 DEF tick_plan
    <3>2. 0 \in 0..BackoffCap /\ e.period \in Nat /\ e.period >= 1 /\ MaxMicros \in Nat
      BY <2>1, Numbers
    <3>3. due = t + e.period /\ due < MaxMicros
      BY <2>1, <3>2, BackoffBound
    <3>4. new[s].next_due = due /\ new[s].counts = e.counts
      BY <2>1, <3>1 DEF Entry
    <3>5. ClassAt(new[s], t) = "wait"
      BY <3>2, <3>3, <3>4 DEF ClassAt
    <3>6. old[s] = [counts |-> e.counts, due |-> "due"]
      BY <1>1, <2>3 DEF RowAt
    <3>7. RowAt(new[s], t) = [counts |-> e.counts, due |-> "wait"]
      BY <3>4, <3>5 DEF RowAt
    <3> HIDE DEF old, new, e
    <3> QED
      BY <2>2, <2>3, <3>6, <3>7
  <2>4. CASE old[s].due # "due"
    BY <1>1, <2>2, <2>4 DEF tick_plan
  <2> QED
    BY <2>2, <2>3, <2>4
<1>3. View(new, t) = [r \in DOMAIN new |-> RowAt(new[r], t)]
  BY DEF View
<1> HIDE DEF new, old
<1>4. View(new, t) = Contract!tick_plan(old)
  BY <1>1, <1>2, <1>3 DEF Contract!tick_plan
<1>5. DueAt(es, t) = Contract!DueSet(old)
  <2>1. DueAt(es, t) \subseteq DOMAIN es
    BY DEF DueAt
  <2> QED
    BY <1>1, <1>2, <2>1 DEF Contract!DueSet
<1> QED
  BY <1>4, <1>5 DEF new, old

(* What the contract sees of the outcomes: readings, and failures of any kind. *)
Seen(results) == [s \in DOMAIN results |-> IF results[s] = "ok" THEN "ok" ELSE "failed"]

(* tick_commit parks a static sensor that was read and puts every failure in *)
(* one of the two other classes.                                             *)
LEMMA ViewCommit ==
  ASSUME NEW es, NEW h \in 0..Horizon, TableOK(es, h), NEW now \in 0..Horizon, now <= h,
         NEW R \in SUBSET Sensors, NEW results \in [R -> Outcome], NEW t \in 0..Horizon
  PROVE  \E d \in Contract!Later :
            View(tick_commit(es, results, now), t)
               = Contract!tick_commit(View(es, t), Seen(results), d)
<1> DEFINE new == tick_commit(es, results, now)
           old == View(es, t)
           d == [r \in Sensors |-> IF r \in DOMAIN new /\ new[r].next_due # MaxMicros
                                   THEN ClassAt(new[r], t) ELSE "due"]
<1>1. d \in Contract!Later
  BY Unparked DEF Contract!Later
<1>2. DOMAIN old = DOMAIN es /\ DOMAIN new = DOMAIN es
      /\ \A r \in DOMAIN es : old[r] = RowAt(es[r], t)
  BY ViewRow DEF View, tick_commit
<1>3. DOMAIN Seen(results) = R /\ \A s \in R : Seen(results)[s] = IF results[s] = "ok" THEN "ok"
                                                                  ELSE "failed"
  BY DEF Seen
<1>4. ASSUME NEW s \in DOMAIN es
      PROVE  RowAt(new[s], t) =
                IF s \notin R THEN old[s]
                ELSE IF results[s] # "ok" THEN [old[s] EXCEPT !.due = d[s]]
                ELSE IF s \in Static THEN [old[s] EXCEPT !.due = "parked"]
                ELSE old[s]
  <2> DEFINE e == es[s]
  <2>1. e \in Entry /\ EntryOK(e, s, h) /\ s \in Sensors /\ e.period \in Periods
    BY DEF TableOK, Entry
  <2>2. old[s] = [counts |-> e.counts, due |-> ClassAt(e, t)]
    BY <1>2 DEF RowAt
  <2>n. BackoffCap \in Nat /\ 0 \in 0..BackoffCap /\ MaxMicros \in Nat
    BY Numbers
  <2>3. CASE s \notin R
    BY <1>2, <2>3 DEF tick_commit
  <2>4. CASE s \in R /\ results[s] = "ok"
    <3>1. new[s] = CommitOk(e, s, now)
      BY <2>4 DEF tick_commit
    <3>2. /\ new[s].counts = e.counts
          /\ new[s].next_due = IF s \in Static THEN MaxMicros ELSE e.next_due
      BY <2>1, <3>1 DEF CommitOk, Entry
    <3>3. ClassAt(new[s], t) = IF s \in Static THEN "parked" ELSE ClassAt(e, t)
      BY <3>2 DEF ClassAt
    <3> QED
      BY <2>2, <2>4, <3>2, <3>3 DEF RowAt
  <2>5. CASE s \in R /\ results[s] # "ok"
    <3>1. \/ new[s] = CommitUnsupported(e, now)
          \/ new[s] = CommitTimeout(e, now)
          \/ new[s] = CommitError(e, now)
      BY <2>5 DEF tick_commit, Outcome
    <3>2. ASSUME NEW k \in 0..BackoffCap PROVE Strike(k) \in 0..BackoffCap
      BY <2>n DEF Strike
    <3>3. e.unsupported \in 0..BackoffCap /\ e.timeouts \in 0..BackoffCap
      BY <2>1 DEF Entry
    <3>4. new[s].counts = e.counts /\
          \/ new[s].next_due = BackedOff(e, Strike(e.unsupported), now)
          \/ new[s].next_due = BackedOff(e, Strike(e.timeouts), now)
          \/ new[s].next_due = wrapping_add(now, e.period)
      BY <2>1, <3>1 DEF CommitUnsupported, CommitTimeout, CommitError, Entry
    <3>5. new[s].next_due \in Nat /\ new[s].next_due < MaxMicros
      BY <2>1, <2>n, <3>2, <3>3, <3>4, Reach
    <3>6. d[s] = ClassAt(new[s], t)
      BY <1>2, <2>1, <2>n, <3>5
    <3> QED
      BY <2>2, <2>5, <3>4, <3>6 DEF RowAt
  <2> QED
    BY <2>3, <2>4, <2>5
<1>5. View(new, t) = [r \in DOMAIN new |-> RowAt(new[r], t)]
  BY DEF View
<1> HIDE DEF new, old, d
<1>6. Contract!tick_commit(old, Seen(results), d) =
         [s \in DOMAIN es |->
             IF s \notin R THEN old[s]
             ELSE IF results[s] # "ok" THEN [old[s] EXCEPT !.due = d[s]]
             ELSE IF s \in Static THEN [old[s] EXCEPT !.due = "parked"]
             ELSE old[s]]
  BY <1>2, <1>3 DEF Contract!tick_commit
<1> QED
  BY <1>1, <1>2, <1>4, <1>5, <1>6 DEF new, old

(* When the clock moves, every class but parked may change. *)
LEMMA ViewElapse ==
  ASSUME NEW es, NEW h \in 0..Horizon, TableOK(es, h), NEW t, NEW u
  PROVE  \E d \in Contract!Later : View(es, u) = Contract!elapse(View(es, t), d)
<1> DEFINE old == View(es, t)
           d == [r \in Sensors |-> IF r \in DOMAIN es /\ es[r].next_due # MaxMicros
                                   THEN ClassAt(es[r], u) ELSE "due"]
<1>1. d \in Contract!Later
  BY Unparked DEF Contract!Later
<1>2. DOMAIN old = DOMAIN es /\ \A r \in DOMAIN es : old[r] = RowAt(es[r], t)
  BY ViewRow DEF View
<1>3. ASSUME NEW s \in DOMAIN es
      PROVE  RowAt(es[s], u) = IF old[s].due = "parked" THEN old[s]
                               ELSE [old[s] EXCEPT !.due = d[s]]
  <2>1. s \in Sensors
    BY DEF TableOK
  <2>2. old[s] = [counts |-> es[s].counts, due |-> ClassAt(es[s], t)]
    BY <1>2 DEF RowAt
  <2>3. old[s].due = "parked" <=> es[s].next_due = MaxMicros
    BY <2>2 DEF ClassAt
  <2>4. CASE es[s].next_due = MaxMicros
    BY <2>2, <2>4 DEF RowAt, ClassAt
  <2>5. CASE es[s].next_due # MaxMicros
    BY <2>1, <2>2, <2>3, <2>5 DEF RowAt
  <2> QED
    BY <2>3, <2>4, <2>5
<1>4. View(es, u) = [r \in DOMAIN es |-> RowAt(es[r], u)]
  BY DEF View
<1> HIDE DEF old, d
<1>5. View(es, u) = Contract!elapse(old, d)
  BY <1>2, <1>3, <1>4 DEF Contract!elapse
<1> QED
  BY <1>1, <1>5 DEF old

(* The contract's table is the view at the clock. *)
LEMMA TableIsView ==
  /\ [s \in DOMAIN entries |-> [counts |-> entries[s].counts, due |-> DueClassOf(entries[s])]]
        = View(entries, clock)
  /\ [s \in DOMAIN entries |-> [counts |-> entries[s].counts, due |-> DueClassOf(entries[s])]]'
        = View(entries', clock')
BY DEF View, RowAt, ClassAt, DueClassOf

(* The invariant under the refinement: the scheduler's own, and TickShape. *)
LEMMA InitTickShape == Init => TickShape
BY DEF Init, TickShape, NoTick

LEMMA NextTickShape == TickShape /\ [Next]_vars => TickShape'
BY DEF TickShape, Next, Subscribe, Unsubscribe, TickPlan, TickCommit, ClockTick, ClockStepsBack,
       NoTick, vars

(* An empty scheduler is an empty table. *)
LEMMA InitRefines == Init => Contract!Init
<1> SUFFICES ASSUME Init PROVE Contract!Init
  OBVIOUS
<1>1. DOMAIN entries = {} /\ tick.items = {}
  BY DEF Init, NoTick
<1> QED
  BY <1>1 DEF Contract!Init

(* Every step of the scheduler, its clients and its clock is a step of the   *)
(* contract, or changes nothing the contract sees.                           *)
LEMMA NextRefines == IInv /\ TickShape /\ [Next]_vars => [Contract!Next]_(Contract!vars)
<1> SUFFICES ASSUME IInv, TickShape, [Next]_vars PROVE [Contract!Next]_(Contract!vars)
  OBVIOUS
<1> DEFINE tb == View(entries, clock)
           tb2 == View(entries', clock')
<1>i. /\ TableOK(entries, high)
      /\ clock \in 0..Horizon /\ high \in 0..Horizon
      /\ tick \in [busy : BOOLEAN, items : SUBSET Sensors, now : 0..Horizon]
      /\ tick.now <= high
  BY IInvByTable
<1>n. Horizon \in Nat
  BY Numbers
<1>1. ASSUME NEW s \in Sensors, NEW req \in Requests, Subscribe(s, req) PROVE Contract!Next
  <2> DEFINE p == effective_period(s, req)
  <2>1. p \in Periods
    BY EffectivePeriodType
  <2>2. tb2 = Contract!acquire(tb, {<<s, p>>}) /\ tick' = tick
    BY <1>1, <1>i, <2>1, ViewSubscribe DEF Subscribe
  <2> HIDE DEF p
  <2>3. Contract!Subscribe(<<s, p>>)
    BY <2>2, TableIsView DEF Contract!Subscribe
  <2> QED
    BY <2>1, <2>3 DEF Contract!Next, Contract!Tokens
<1>2. ASSUME NEW s \in Sensors, NEW p \in Periods, Unsubscribe(s, p) PROVE Contract!Next
  <2>1. s \in DOMAIN entries /\ entries[s].counts[p] > 0 /\ tick' = tick
    BY <1>2 DEF Unsubscribe
  <2>2. \E d \in Contract!Later : tb2 = Contract!release(tb, {<<s, p>>}, d)
    BY <1>2, <1>i, <2>1, ViewUnsubscribe DEF Unsubscribe
  <2>3. Contract!CountsOf(tb, s)[p] > 0
    BY <2>1, ViewRow DEF Contract!CountsOf, View
  <2>4. Contract!Unsubscribe(<<s, p>>)
    BY <2>1, <2>2, <2>3, TableIsView DEF Contract!Unsubscribe
  <2> QED
    BY <2>4 DEF Contract!Next, Contract!Tokens
<1>3. CASE TickPlan
  <2>1. high' = (IF high >= clock THEN high ELSE clock)
    BY <1>3, <1>i, <1>n, OfTwo DEF TickPlan
  <2>2. high' \in 0..Horizon /\ high <= high' /\ clock <= high'
    BY <1>i, <1>n, <2>1
  <2>3. TableOK(entries, high')
    BY <1>i, <2>2, LaterReadingOK DEF TableOK
  <2>4. tb2 = Contract!tick_plan(tb) /\ DueAt(entries, clock) = Contract!DueSet(tb)
    BY <1>3, <1>i, <2>2, <2>3, ViewPlan DEF TickPlan
  <2>5. tick.items = {} /\ tick'.items = Contract!DueSet(tb)
    BY <1>3, <2>4 DEF TickPlan, TickShape
  <2>6. Contract!Plan
    BY <2>4, <2>5, TableIsView DEF Contract!Plan
  <2> QED
    BY <2>6 DEF Contract!Next
<1>4. CASE TickCommit
  <2>1. PICK R \in SUBSET tick.items : \E results \in [R -> Outcome] :
           entries' = tick_commit(entries, results, tick.now)
    BY <1>4 DEF TickCommit
  <2>2. PICK results \in [R -> Outcome] : entries' = tick_commit(entries, results, tick.now)
    BY <2>1
  <2>3. tick.now \in 0..Horizon /\ R \in SUBSET Sensors /\ clock' = clock
    BY <1>4, <1>i DEF TickCommit
  <2>4. \E d \in Contract!Later : tb2 = Contract!tick_commit(tb, Seen(results), d)
    BY <1>i, <2>2, <2>3, ViewCommit
  <2>5. Seen(results) \in Contract!Results(tick.items)
    <3>1. Seen(results) \in [R -> Contract!Outcome]
      BY <2>2 DEF Seen, Contract!Outcome
    <3> QED
      BY <2>1, <3>1 DEF Contract!Results
  <2>6. tick.items # {} /\ tick'.items = {}
    BY <1>4 DEF TickCommit, TickShape, NoTick
  <2>7. Contract!Commit
    BY <2>4, <2>5, <2>6, TableIsView DEF Contract!Commit
  <2> QED
    BY <2>7 DEF Contract!Next
<1>5. CASE ClockTick \/ ClockStepsBack
  <2>1. entries' = entries /\ tick' = tick
    BY <1>5 DEF ClockTick, ClockStepsBack
  <2>2. \E d \in Contract!Later : tb2 = Contract!elapse(tb, d)
    BY <1>i, <2>1, ViewElapse
  <2>3. Contract!Elapse
    BY <2>1, <2>2, TableIsView DEF Contract!Elapse
  <2> QED
    BY <2>3 DEF Contract!Next
<1>6. CASE UNCHANGED vars
  <2>1. entries' = entries /\ tick' = tick /\ clock' = clock
    BY <1>6 DEF vars
  <2> QED
    BY <2>1, TableIsView DEF Contract!vars
<1> QED
  BY <1>1, <1>2, <1>3, <1>4, <1>5, <1>6 DEF Next

(* The scheduler, with its clock, its back-offs and its cached periods, does *)
(* nothing its contract does not allow: Sessions.tla may be built on it.     *)
THEOREM Refinement == Spec => ImplementsContract
<1>1. Init => IInv /\ TickShape
  BY InitIInv, InitTickShape
<1>2. IInv /\ TickShape /\ [Next]_vars => (IInv /\ TickShape)'
  BY NextIInv, NextTickShape
<1> QED
  BY <1>1, <1>2, InitRefines, NextRefines, PTL DEF Spec, ImplementsContract, Contract!Spec
=============================================================================
