---------------------------- MODULE DaemonProofs -----------------------------
(***************************************************************************)
(* Proofs about the parts of the daemon beside its scheduler: the alert    *)
(* engine (Alerts), the history writer (History) and the plugin host       *)
(* (PluginHost), for any rules, records, plugins and faults.               *)
(***************************************************************************)
EXTENDS Alerts, History, PluginHost, FiniteSetTheorems, SequenceTheorems,
        NaturalsInduction, WellFoundedInduction, TLAPS

-----------------------------------------------------------------------------
(***************************************************************************)
(* Alerts                                                                  *)
(***************************************************************************)

-----------------------------------------------------------------------------
(* The inductive invariant.                                                 *)

Rule == [name : RuleNames, expr : (SUBSET Sensors) \ {{}}, for : Nat, cooldown : Nat,
         enabled : BOOLEAN, triggered_at : Nat \cup {Never}, fired : BOOLEAN,
         last_fired_at : Nat \cup {Never}, falseAt : Nat]

EventRecord == [rule : RuleNames, ts : Nat, kind : {"fired", "cleared"},
                stale : BOOLEAN, quiet : Int]

(* What every action leaves well typed. *)
Types ==
    /\ loaded \in BOOLEAN
    /\ rules \in Seq(Rule)
    /\ events \in Seq(EventRecord)
    /\ lock \in {"free", "commit", "save", "write"}
    /\ toml \in [ok : BOOLEAN, rules : Seq(RuleConfig)]
    /\ clock \in Nat

(* The mutex is held only while there is an engine, and jobs are out only   *)
(* while tick_commit holds it.                                              *)
LockShape ==
    /\ lock # "free" => loaded
    /\ lock # "commit" => jobs = {}
    /\ ~loaded => events = <<>>

(* The file also follows the engine while outcomes are applied: they leave  *)
(* the configuration of a rule alone.                                       *)
FileSound ==
    loaded /\ lock \in {"free", "commit"} /\ ~unsaved =>
        /\ toml.ok
        /\ [i \in DOMAIN toml.rules |-> ConfigOf(toml.rules[i])] = Config

IInv == Types /\ LockShape /\ OutcomesMeetTheirRules /\ FileSound

(* Names tell the rules of the engine and of the file apart. *)
NamedOnce(q) == \A i, j \in DOMAIN q : q[i].name = q[j].name => i = j
Named == NamedOnce(rules) /\ NamedOnce(toml.rules)

(* When a rule was last false, and since when it has been true. *)
TimesOK(r, now) ==
    /\ r.falseAt <= now
    /\ r.triggered_at # Never => r.falseAt <= r.triggered_at

(* What the ring ev holds of the rule r, without naming the least position of *)
(* a set: events of the same rule with none between them differ in kind, the  *)
(* newest says whether the rule fires, and no firing is later than the one    *)
(* the cooldown is counted from.                                              *)
Reported(ev, n) == {i \in DOMAIN ev : ev[i].rule = n /\ ~ev[i].stale}
Firings(ev, n) == {i \in Reported(ev, n) : ev[i].kind = "fired"}

Alternates(ev, n) ==
    \A i, j \in Reported(ev, n) :
        i < j /\ (\A k \in Reported(ev, n) : ~ (i < k /\ k < j)) => ev[i].kind # ev[j].kind

NewestTells(ev, r) ==
    \A i \in Reported(ev, r.name) :
        (\A k \in Reported(ev, r.name) : i <= k) => (r.fired <=> ev[i].kind = "fired")

FiringIsReported(ev, r) ==
    r.fired /\ Len(ev) < EventCapacity => Reported(ev, r.name) # {}

FiringsInTime(ev, r) ==
    /\ \A i \in Firings(ev, r.name) : /\ ev[i].quiet >= r.for
                                      /\ r.last_fired_at # Never
                                      /\ ev[i].ts <= r.last_fired_at
    /\ \A i, j \in Firings(ev, r.name) : i < j => ev[i].ts - ev[j].ts >= r.cooldown

RingOK(ev, r) ==
    /\ Alternates(ev, r.name)
    /\ NewestTells(ev, r)
    /\ FiringIsReported(ev, r)
    /\ FiringsInTime(ev, r)

RingInv ==
    /\ Named
    /\ \A i \in DOMAIN rules : TimesOK(rules[i], clock) /\ RingOK(events, rules[i])

-----------------------------------------------------------------------------
(* Numbers and sequences.                                                   *)

(* A non-empty set of naturals has a least member. *)
LEMMA Least ==
  ASSUME NEW S \in SUBSET Nat, S # {}
  PROVE  Min(S) \in S /\ \A n \in S : Min(S) <= n
<1> DEFINE R == OpToRel(<, Nat)
<1>1. \A x, y \in Nat : <<y, x>> \in R <=> y < x
  BY DEF OpToRel
<1>2. IsWellFoundedOn(R, Nat)
  BY NatLessThanWellFounded
<1> HIDE DEF R
<1>3. \E x \in S : \A y \in S : ~ (<<y, x>> \in R)
  BY <1>2, WFMin
<1>4. PICK x \in S : \A y \in S : ~ (<<y, x>> \in R)
  BY <1>3
<1>5. ASSUME NEW y \in S PROVE x <= y
  <2>1. x \in Nat /\ y \in Nat /\ ~ (y < x)
    BY <1>1, <1>4
  <2> QED
    BY <2>1
<1> QED
  BY <1>5 DEF Min

Rising(f, n) == \A i, j \in 1..n : i < j => f[i] < f[j]
Ordered(S) == \E f \in [1..Cardinality(S) -> S] : Rising(f, Cardinality(S))

(* The numbers of a set that has an upper bound can be put in order.  The   *)
(* induction over the bound goes by the least bound for which they cannot.  *)
LEMMA CanBeOrdered ==
  ASSUME NEW n \in Nat
  PROVE  \A S \in SUBSET (1..n) : Ordered(S)
<1> DEFINE Bad == {m \in Nat : ~ (\A S \in SUBSET (1..m) : Ordered(S))}
<1> SUFFICES ASSUME Bad # {} PROVE FALSE
  OBVIOUS
<1>1. PICK m \in Bad : \A k \in Bad : m <= k
  BY Least
<1>2. m \in Nat /\ ~ (\A S \in SUBSET (1..m) : Ordered(S))
  BY <1>1
<1>3. PICK S \in SUBSET (1..m) : ~ Ordered(S)
  BY <1>2
<1>4. CASE m = 0
  <2>1. S = {} /\ Cardinality(S) = 0
    <3>1. S = {}
      BY <1>3, <1>4
    <3> QED
      BY <3>1, FS_EmptySet
  <2>2. [i \in 1..0 |-> 0] \in [1..0 -> S] /\ Rising([i \in 1..0 |-> 0], 0)
    BY <2>1 DEF Rising
  <2> QED
    BY <1>3, <2>1, <2>2 DEF Ordered
<1>5. CASE m # 0
  <2>1. m - 1 \in Nat /\ ~ (m <= m - 1)
    BY <1>2, <1>5
  <2>2. \A T \in SUBSET (1..(m - 1)) : Ordered(T)
    BY <1>1, <2>1
  <2> DEFINE T == S \ {m}
  <2>3. T \in SUBSET (1..(m - 1)) /\ IsFiniteSet(T)
    <3>1. T \in SUBSET (1..(m - 1))
      BY <1>2, <1>3
    <3>2. IsFiniteSet(1..(m - 1))
      BY <2>1, FS_Interval
    <3> QED
      BY <3>1, <3>2, FS_Subset
  <2>4. m \in S
    <3>1. m \notin S => T = S
      OBVIOUS
    <3> QED
      BY <1>3, <2>2, <2>3, <3>1
  <2> DEFINE c == Cardinality(T)
  <2>5. c \in Nat /\ Cardinality(S) = c + 1
    <3>1. S = T \cup {m} /\ m \notin T
      BY <2>4
    <3> QED
      BY <2>3, <3>1, FS_CardinalityType, FS_AddElement
  <2>6. PICK f \in [1..c -> T] : Rising(f, c)
    BY <2>2, <2>3 DEF Ordered
  <2> HIDE DEF c
  <2> DEFINE g == [i \in 1..(c + 1) |-> IF i = c + 1 THEN m ELSE f[i]]
  <2>7. \A i \in 1..(c + 1) : i # c + 1 => i \in 1..c
    BY <2>5
  <2>8. \A i \in 1..c : f[i] \in S /\ f[i] < m
    <3>1. \A x \in T : x \in S /\ x < m
      BY <2>1, <2>3
    <3> QED
      BY <2>6, <3>1
  <2>9. g \in [1..(c + 1) -> S]
    BY <2>4, <2>7, <2>8
  <2>10. Rising(g, c + 1)
    <3> SUFFICES ASSUME NEW i \in 1..(c + 1), NEW j \in 1..(c + 1), i < j
                 PROVE  g[i] < g[j]
      BY DEF Rising
    <3>1. i \in 1..c /\ g[i] = f[i]
      BY <2>5
    <3>2. CASE j = c + 1
      BY <2>8, <3>1, <3>2
    <3>3. CASE j # c + 1
      <4>1. j \in 1..c /\ g[j] = f[j]
        BY <2>7, <3>3
      <4> QED
        BY <2>6, <3>1, <4>1 DEF Rising
    <3> QED
      BY <3>2, <3>3
  <2> QED
    BY <1>3, <2>5, <2>9, <2>10 DEF Ordered
<1> QED
  BY <1>4, <1>5

(* InOrder does put a set of positions in order. *)
LEMMA InOrderIs ==
  ASSUME NEW n \in Nat, NEW S \in SUBSET (1..n)
  PROVE  /\ Cardinality(S) \in Nat
         /\ InOrder(S) \in [1..Cardinality(S) -> S]
         /\ \A i, j \in 1..Cardinality(S) : InOrder(S)[i] = InOrder(S)[j] => i = j
<1> DEFINE c == Cardinality(S)
<1>1. c \in Nat
  <2>1. IsFiniteSet(1..n)
    BY FS_Interval
  <2>2. IsFiniteSet(S)
    BY <2>1, FS_Subset
  <2> QED
    BY <2>2, FS_CardinalityType
<1>2. \E f \in [1..c -> S] : \A i, j \in 1..c : i < j => f[i] < f[j]
  BY CanBeOrdered DEF Ordered, Rising
<1>3. InOrder(S) \in [1..c -> S] /\ \A i, j \in 1..c : i < j => InOrder(S)[i] < InOrder(S)[j]
  BY <1>2 DEF InOrder
<1> HIDE DEF c
<1>4. ASSUME NEW i \in 1..c, NEW j \in 1..c, InOrder(S)[i] = InOrder(S)[j] PROVE i = j
  <2>1. i \in Int /\ j \in Int /\ InOrder(S)[i] \in Int
    <3>1. InOrder(S)[i] \in S
      BY <1>3
    <3>2. \A x \in S : x \in Int
      OBVIOUS
    <3>3. i \in Int /\ j \in Int
      BY <1>1
    <3> QED
      BY <3>1, <3>2, <3>3
  <2>2. ~ (i < j) /\ ~ (j < i)
    BY <1>3, <1>4, <2>1
  <2> QED
    BY <2>1, <2>2
<1> QED
  BY <1>1, <1>3, <1>4 DEF c

(* A function on 1..n is a sequence. *)
LEMMA FcnIsSeq ==
  ASSUME NEW n \in Nat, NEW T, NEW f \in [1..n -> T]
  PROVE  f \in Seq(T) /\ Len(f) = n /\ DOMAIN f = 1..n
<1>1. f \in Seq(T) /\ DOMAIN f = 1..n
  BY SeqDef
<1>2. DOMAIN f = 1..Len(f) /\ Len(f) \in Nat
  BY <1>1, LenProperties
<1> QED
  BY <1>1, <1>2

(* Whole units stay whole units. *)
LEMMA WholeUnits ==
  ASSUME NEW d \in Nat, NEW m \in Nat, m > 0
  PROVE  (d - (d % m)) % m = 0
OBVIOUS

(* What save_config writes of a duration is a duration, and writing it a    *)
(* second time changes nothing.                                             *)
LEMMA FormatTwice ==
  ASSUME NEW d \in Nat
  PROVE  format_duration(d) \in Nat /\ format_duration(format_duration(d)) = format_duration(d)
<1>1. Milli \in Nat /\ Milli > 0
  BY AlertsAssumption
<1>2. d % Milli \in 0..(Milli - 1)
  BY <1>1
<1>3. CASE d < Milli
  BY <1>3 DEF format_duration
<1>4. CASE d >= Milli
  <2> DEFINE m == Milli
             e == d - (d % m)
  <2>1. e \in Nat /\ format_duration(d) = e
    BY <1>1, <1>2, <1>4 DEF format_duration
  <2>2. e % m = 0
    BY <1>1, WholeUnits
  <2> QED
    BY <1>1, <2>1, <2>2 DEF format_duration
<1> QED
  BY <1>1, <1>3, <1>4

-----------------------------------------------------------------------------
(* What the operations of the engine do to its rules and its ring.          *)

SameConfig(r, q) ==
    /\ r.name = q.name /\ r.expr = q.expr /\ r.for = q.for
    /\ r.cooldown = q.cooldown /\ r.enabled = q.enabled

(* Compiling a rule keeps its configuration and forgets its past. *)
LEMMA Compiled ==
  ASSUME NEW c \in RuleConfig, clock \in Nat
  PROVE  /\ CompiledRule(c) \in Rule /\ SameConfig(CompiledRule(c), c)
         /\ ~ CompiledRule(c).fired /\ CompiledRule(c).triggered_at = Never
         /\ CompiledRule(c).falseAt = clock
BY DEF CompiledRule, Rule, RuleConfig, SameConfig, Never

(* The configuration of a rule is one, and is its own configuration. *)
LEMMA ConfigTwice ==
  ASSUME NEW r \in Rule \cup RuleConfig
  PROVE  ConfigOf(r) \in RuleConfig /\ ConfigOf(ConfigOf(r)) = ConfigOf(r)
                                    /\ ConfigOf(r).name = r.name
<1>1. /\ r.name \in RuleNames /\ r.expr \in (SUBSET Sensors) \ {{}} /\ r.enabled \in BOOLEAN
      /\ r.for \in Nat /\ r.cooldown \in Nat
  BY DEF Rule, RuleConfig
<1> QED
  BY <1>1, FormatTwice DEF ConfigOf, RuleConfig

(* Rules with the same configuration are written alike. *)
LEMMA SameConfigOf ==
  ASSUME NEW r, NEW q, SameConfig(r, q)
  PROVE  ConfigOf(r) = ConfigOf(q)
BY DEF SameConfig, ConfigOf

(* push_event puts an event in front and lets the oldest go at the cap. *)
LEMMA Pushed ==
  ASSUME NEW T, NEW q \in Seq(T), NEW e \in T, NEW cap \in Nat \ {0}
  PROVE  LET p == <<e>> \o IF Len(q) = cap THEN Front(q) ELSE q
         IN  /\ p \in Seq(T)
             /\ 1 \in DOMAIN p /\ p[1] = e
             /\ \A i \in DOMAIN p : i # 1 => i - 1 \in DOMAIN q /\ p[i] = q[i - 1]
             /\ Len(q) # cap => \A i \in DOMAIN q : i + 1 \in DOMAIN p
             /\ Len(p) < cap => Len(q) < cap /\ Len(p) = Len(q) + 1
             /\ DOMAIN p \subseteq Nat /\ DOMAIN q \subseteq Nat
<1> DEFINE b == IF Len(q) = cap THEN Front(q) ELSE q
           h == <<e>>
           p == h \o b
           L == Len(q)
           B == Len(b)
<1>1. L \in Nat /\ DOMAIN q = 1..L /\ \A i \in 1..L : q[i] \in T
  BY LenProperties, ElementOfSeq
<1> HIDE DEF L
<1>2. /\ b \in Seq(T) /\ B = (IF L = cap THEN L - 1 ELSE L)
      /\ \A i \in 1..B : b[i] = q[i]
  <2>1. CASE L = cap
    <3>1. L - 1 \in Nat
      BY <1>1, <2>1
    <3>2. \A i \in 1..(L - 1) : q[i] \in T
      BY <1>1
    <3>3. b = SubSeq(q, 1, L - 1)
      BY <2>1 DEF L, Front
    <3>4. /\ SubSeq(q, 1, L - 1) \in Seq(T)
          /\ Len(SubSeq(q, 1, L - 1)) = IF 1 <= L - 1 THEN L - 1 - 1 + 1 ELSE 0
          /\ \A i \in 1..(L - 1 - 1 + 1) : SubSeq(q, 1, L - 1)[i] = q[1 + i - 1]
      BY <3>1, <3>2, SubSeqProperties
    <3> DEFINE k == L - 1
    <3>5. k \in Nat /\ k - 1 + 1 = k /\ (IF 1 <= k THEN k - 1 + 1 ELSE 0) = k
      BY <3>1
    <3>6. Len(b) = k /\ \A i \in 1..k : b[i] = q[1 + i - 1]
      BY <3>3, <3>4, <3>5
    <3>7. \A i \in 1..k : 1 + i - 1 = i
      BY <3>5
    <3> HIDE DEF k, b
    <3>8. \A i \in 1..k : b[i] = q[i]
      BY <3>6, <3>7
    <3> QED
      BY <2>1, <3>3, <3>4, <3>6, <3>8 DEF k
  <2>2. CASE L # cap
    BY <1>1, <2>2 DEF L
  <2> QED
    BY <2>1, <2>2
<1>3. B \in Nat /\ B <= L
  BY <1>1, <1>2
<1> HIDE DEF b
<1>4. h \in Seq(T) /\ Len(h) = 1 /\ h[1] = e
  OBVIOUS
<1> HIDE DEF h
<1>5. /\ p \in Seq(T) /\ Len(p) = 1 + B
      /\ \A i \in 1..(1 + B) : p[i] = IF i <= 1 THEN h[i] ELSE b[i - 1]
  <2>1. /\ h \o b \in Seq(T) /\ Len(h \o b) = Len(h) + Len(b)
        /\ \A i \in 1..(Len(h) + Len(b)) :
              (h \o b)[i] = IF i <= Len(h) THEN h[i] ELSE b[i - Len(h)]
    BY <1>2, <1>4, ConcatProperties
  <2> QED
    BY <1>4, <2>1, Zenon
<1> HIDE DEF B, p
<1>6. DOMAIN p = 1..(1 + B)
  BY <1>5, LenProperties
<1>7. 1 \in DOMAIN p /\ p[1] = e
  BY <1>3, <1>4, <1>5, <1>6
<1>8. ASSUME NEW i \in DOMAIN p, i # 1 PROVE i - 1 \in DOMAIN q /\ p[i] = q[i - 1]
  <2>1. i - 1 \in 1..B /\ i - 1 \in 1..L /\ ~ (i <= 1)
    BY <1>1, <1>3, <1>6, <1>8
  <2> QED
    BY <1>1, <1>2, <1>5, <1>6, <2>1
<1>9. L # cap => \A i \in DOMAIN q : i + 1 \in DOMAIN p
  <2>1. L # cap => B = L
    BY <1>2
  <2>2. L # cap => \A i \in 1..L : i + 1 \in 1..(1 + B)
    BY <1>1, <1>3, <2>1
  <2> QED
    BY <1>1, <1>6, <2>2
<1>10. 1 + B < cap => L < cap /\ 1 + B = L + 1
  BY <1>1, <1>2, <1>3
<1>11. DOMAIN p \subseteq Nat /\ DOMAIN q \subseteq Nat
  BY <1>1, <1>3, <1>6
<1> QED
  BY <1>5, <1>7, <1>8, <1>9, <1>10, <1>11 DEF p, h, b, L

(* The rules q are those of the engine but for the rule d at one position,  *)
(* which is where its name was found or else a new one.                     *)
UpsertedAt(q, d, at) ==
    /\ DOMAIN q = DOMAIN rules \cup {at}
    /\ q[at] = CompiledRule(d)
    /\ at \notin DOMAIN rules => \A i \in DOMAIN rules : rules[i].name # d.name
    /\ at \in DOMAIN rules => rules[at].name = d.name
    /\ \A i \in DOMAIN rules \ {at} : q[i] = rules[i]

(* A rule is found by its name where it is, and replaced there, or added. *)
LEMMA Upserted ==
  ASSUME Types, NEW c \in RuleConfig, NEW open \in BOOLEAN
  PROVE  /\ upsert_rule(c, open) \in Seq(Rule)
         /\ \E d \in RuleConfig, at \in Nat :
               d.name = c.name /\ UpsertedAt(upsert_rule(c, open), d, at)
<1> DEFINE at == {i \in DOMAIN rules : rules[i].name = c.name}
           L == Len(rules)
<1>1. rules \in Seq(Rule) /\ L \in Nat /\ DOMAIN rules = 1..L /\ clock \in Nat
  BY LenProperties DEF Types
<1>2. \A i \in DOMAIN rules : rules[i] \in Rule
  BY <1>1, ElementOfSeq
<1>3. CASE at = {}
  <2> DEFINE k == CompiledRule(c)
  <2>1. k \in Rule
    BY <1>1, Compiled
  <2>2. upsert_rule(c, open) = Append(rules, k)
    BY <1>3 DEF upsert_rule
  <2> HIDE DEF k
  <2>3. /\ Append(rules, k) \in Seq(Rule) /\ Len(Append(rules, k)) = L + 1
        /\ \A i \in 1..L : Append(rules, k)[i] = rules[i]
        /\ Append(rules, k)[L + 1] = k
    BY <1>1, <2>1, AppendProperties
  <2>4. DOMAIN Append(rules, k) = 1..(L + 1)
    BY <2>3, LenProperties
  <2> HIDE DEF L
  <2>5. L + 1 \in Nat /\ 1..(L + 1) = 1..L \cup {L + 1} /\ L + 1 \notin 1..L
    BY <1>1
  <2>6. \A i \in DOMAIN rules : rules[i].name # c.name
    BY <1>3
  <2> QED
    BY <1>1, <2>2, <2>3, <2>4, <2>5, <2>6 DEF k, UpsertedAt
<1>4. CASE at # {}
  <2> DEFINE m == Min(at)
             d == [c EXCEPT !.enabled = IF open THEN rules[m].enabled ELSE @]
  <2>1. at \in SUBSET Nat
    BY <1>1
  <2>2. m \in at
    BY <1>4, <2>1, Least
  <2>3. m \in DOMAIN rules /\ rules[m].name = c.name /\ m \in Nat /\ rules[m] \in Rule
    BY <1>2, <2>1, <2>2
  <2> HIDE DEF m
  <2>4. d \in RuleConfig /\ d.name = c.name
    BY <2>3 DEF RuleConfig, Rule
  <2>5. upsert_rule(c, open) = [rules EXCEPT ![m] = CompiledRule(d)]
    BY <1>4 DEF upsert_rule, m
  <2> HIDE DEF d
  <2>6. CompiledRule(d) \in Rule
    BY <1>1, <2>4, Compiled
  <2>7. [rules EXCEPT ![m] = CompiledRule(d)] \in Seq(Rule)
    BY <1>1, <2>3, <2>6, ExceptSeq
  <2>8. /\ DOMAIN upsert_rule(c, open) = DOMAIN rules \cup {m}
        /\ upsert_rule(c, open)[m] = CompiledRule(d)
        /\ \A i \in DOMAIN rules \ {m} : upsert_rule(c, open)[i] = rules[i]
    BY <2>3, <2>5
  <2> QED
    BY <2>3, <2>4, <2>5, <2>7, <2>8 DEF UpsertedAt
<1> QED
  BY <1>3, <1>4

(* What is left after a deletion is what was there under other names, each  *)
(* once.                                                                    *)
LEMMA Deleted ==
  ASSUME Types, NEW n
  PROVE  /\ delete_rule(n) \in Seq(Rule)
         /\ \E h \in [DOMAIN delete_rule(n) -> DOMAIN rules] :
               /\ \A k \in DOMAIN delete_rule(n) :
                     delete_rule(n)[k] = rules[h[k]] /\ rules[h[k]].name # n
               /\ \A k, l \in DOMAIN delete_rule(n) : h[k] = h[l] => k = l
<1> DEFINE K == {i \in DOMAIN rules : rules[i].name # n}
           h == InOrder(K)
           c == Cardinality(K)
<1>1. /\ rules \in Seq(Rule) /\ Len(rules) \in Nat /\ DOMAIN rules = 1..Len(rules)
      /\ \A i \in DOMAIN rules : rules[i] \in Rule
  BY LenProperties, ElementOfSeq DEF Types
<1>2. K \in SUBSET (1..Len(rules))
  BY <1>1
<1>3. c \in Nat /\ h \in [1..c -> K] /\ \A i, j \in 1..c : h[i] = h[j] => i = j
  BY <1>1, <1>2, InOrderIs
<1>4. delete_rule(n) = [k \in 1..c |-> rules[h[k]]]
  BY <1>3 DEF delete_rule
<1> HIDE DEF h, c
<1>5. \A k \in 1..c : h[k] \in DOMAIN rules /\ rules[h[k]].name # n /\ rules[h[k]] \in Rule
  BY <1>1, <1>3
<1>6. delete_rule(n) \in [1..c -> Rule] /\ DOMAIN delete_rule(n) = 1..c
  BY <1>4, <1>5
<1>7. delete_rule(n) \in Seq(Rule)
  BY <1>3, <1>6, FcnIsSeq
<1>8. h \in [1..c -> DOMAIN rules]
  BY <1>3
<1> QED
  BY <1>3, <1>4, <1>5, <1>6, <1>7, <1>8

(* An outcome moves the state of its rule and leaves its configuration and  *)
(* every other rule alone.                                                  *)
LEMMA Applied ==
  ASSUME Types, NEW idx \in DOMAIN rules, NEW outcome, apply_eval_result(idx, outcome)
  PROVE  /\ \E r \in Rule : SameConfig(r, rules[idx]) /\ rules' = [rules EXCEPT ![idx] = r]
         /\ events' \in Seq(EventRecord)
<1> DEFINE r == rules[idx]
           t == Triggered(r)
<1>1. rules \in Seq(Rule) /\ events \in Seq(EventRecord) /\ clock \in Nat /\ r \in Rule
  BY LenProperties, ElementOfSeq DEF Types
<1>2. /\ t \in Rule /\ SameConfig(t, r)
      /\ Fired(t) \in Rule /\ SameConfig(Fired(t), r)
      /\ Cleared(r) \in Rule /\ SameConfig(Cleared(r), r)
  BY <1>1 DEF Triggered, Fired, Cleared, Rule, SameConfig, Never
<1>3. EventCapacity \in Nat \ {0}
  BY AlertsAssumption
<1>4. \A kind \in {"fired", "cleared"} : Event(r, kind) \in EventRecord
  BY <1>1 DEF Event, EventRecord, Rule
<1>5. \A e \in EventRecord : push_event(e) => events' \in Seq(EventRecord)
  BY <1>1, <1>3, Pushed DEF push_event
<1> HIDE DEF r, t
<1>6. \/ /\ rules' = [rules EXCEPT ![idx] = Fired(t)]
         /\ push_event(Event(r, "fired"))
      \/ rules' = [rules EXCEPT ![idx] = t] /\ events' = events
      \/ /\ rules' = [rules EXCEPT ![idx] = Cleared(r)]
         /\ push_event(Event(r, "cleared"))
      \/ rules' = [rules EXCEPT ![idx] = Cleared(r)] /\ events' = events
      \/ rules' = rules /\ events' = events
  BY DEF apply_eval_result, r, t
<1>7. SameConfig(r, r) /\ rules = [rules EXCEPT ![idx] = r]
  BY <1>1 DEF SameConfig, r
<1>8. events' \in Seq(EventRecord)
  BY <1>1, <1>4, <1>5, <1>6
<1>9. \E q \in Rule : SameConfig(q, r) /\ rules' = [rules EXCEPT ![idx] = q]
  BY <1>1, <1>2, <1>6, <1>7
<1> QED
  BY <1>8, <1>9 DEF r

(* Outdating events leaves them where they are. *)
LEMMA OutdatedIs ==
  ASSUME Types, NEW n
  PROVE  /\ Outdated(n) \in Seq(EventRecord) /\ Len(Outdated(n)) = Len(events)
         /\ DOMAIN Outdated(n) = DOMAIN events
         /\ \A i \in DOMAIN events :
               /\ Outdated(n)[i].rule = events[i].rule /\ Outdated(n)[i].kind = events[i].kind
               /\ Outdated(n)[i].ts = events[i].ts /\ Outdated(n)[i].quiet = events[i].quiet
               /\ Outdated(n)[i].stale <=> (events[i].stale \/ events[i].rule = n)
<1> DEFINE L == Len(events)
<1>1. /\ L \in Nat /\ DOMAIN events = 1..L
      /\ \A i \in DOMAIN events : events[i] \in EventRecord
  BY LenProperties, ElementOfSeq DEF Types
<1> DEFINE o(i) == [events[i] EXCEPT !.stale = @ \/ events[i].rule = n]
<1>2. \A i \in DOMAIN events :
        /\ o(i) \in EventRecord
        /\ o(i).rule = events[i].rule /\ o(i).kind = events[i].kind
        /\ o(i).ts = events[i].ts /\ o(i).quiet = events[i].quiet
        /\ o(i).stale <=> (events[i].stale \/ events[i].rule = n)
  BY <1>1 DEF EventRecord
<1>3. Outdated(n) = [i \in DOMAIN events |-> o(i)]
  BY DEF Outdated
<1> HIDE DEF L, o
<1>4. Outdated(n) \in [1..L -> EventRecord]
  BY <1>1, <1>2, <1>3
<1>5. Outdated(n) \in Seq(EventRecord) /\ Len(Outdated(n)) = L /\ DOMAIN Outdated(n) = 1..L
  BY <1>1, <1>4, FcnIsSeq
<1> QED
  BY <1>1, <1>2, <1>3, <1>5 DEF L

(* What is written is a file of rules, and so is what is written of it when *)
(* the write is cut short; names stay told apart.                           *)
LEMMA Written ==
  ASSUME Types
  PROVE  /\ Config \in Seq(RuleConfig) /\ DOMAIN Config = DOMAIN rules
         /\ \A i \in DOMAIN rules : Config[i] = ConfigOf(rules[i])
         /\ \A f \in Torn : f \in [ok : BOOLEAN, rules : Seq(RuleConfig)]
         /\ NamedOnce(rules) => NamedOnce(Config) /\ \A f \in Torn : NamedOnce(f.rules)
<1> DEFINE L == Len(rules)
<1>1. /\ rules \in Seq(Rule) /\ L \in Nat /\ DOMAIN rules = 1..L
      /\ \A i \in DOMAIN rules : rules[i] \in Rule
  BY LenProperties, ElementOfSeq DEF Types
<1>2. \A i \in DOMAIN rules : ConfigOf(rules[i]) \in RuleConfig
                              /\ ConfigOf(rules[i]).name = rules[i].name
  BY <1>1, ConfigTwice
<1>3. Config \in [1..L -> RuleConfig] /\ \A i \in DOMAIN rules : Config[i] = ConfigOf(rules[i])
  BY <1>1, <1>2 DEF Config
<1>4. Config \in Seq(RuleConfig) /\ Len(Config) = L /\ DOMAIN Config = 1..L
  BY <1>1, <1>3, FcnIsSeq
<1>5. NamedOnce(rules) => NamedOnce(Config)
  BY <1>1, <1>2, <1>3, <1>4 DEF NamedOnce
<1>6. ASSUME NEW f \in Torn
      PROVE  /\ f \in [ok : BOOLEAN, rules : Seq(RuleConfig)]
             /\ NamedOnce(Config) => NamedOnce(f.rules)
  <2>1. PICK k \in 0..L : f.rules = SubSeq(Config, 1, k)
    BY DEF Torn
  <2>2. f \in [ok : BOOLEAN, rules : {f.rules}]
    BY DEF Torn
  <2> HIDE DEF L
  <2>3. k \in Nat /\ \A i \in 1..k : i \in 1..L
    BY <1>1, <2>1
  <2>4. \A i \in 1..k : Config[i] \in RuleConfig
    BY <1>3, <2>3
  <2>5. /\ SubSeq(Config, 1, k) \in Seq(RuleConfig)
        /\ Len(SubSeq(Config, 1, k)) = IF 1 <= k THEN k - 1 + 1 ELSE 0
        /\ \A i \in 1..(k - 1 + 1) : SubSeq(Config, 1, k)[i] = Config[1 + i - 1]
    BY <2>3, <2>4, SubSeqProperties
  <2>6. k - 1 + 1 = k /\ (IF 1 <= k THEN k - 1 + 1 ELSE 0) = k /\ \A i \in 1..k : 1 + i - 1 = i
    BY <2>3
  <2>7. DOMAIN f.rules = 1..Len(f.rules)
    BY <2>1, <2>5, LenProperties
  <2>8. DOMAIN f.rules = 1..k /\ \A i \in 1..k : f.rules[i] = Config[i]
    BY <2>1, <2>5, <2>6, <2>7
  <2>9. NamedOnce(Config) => NamedOnce(f.rules)
    BY <1>4, <2>3, <2>8 DEF NamedOnce
  <2> QED
    BY <2>1, <2>2, <2>5, <2>9
<1> QED
  BY <1>1, <1>3, <1>4, <1>5, <1>6

(* Loading compiles the rules of the file one by one. *)
LEMMA Loaded ==
  ASSUME Types
  PROVE  LET q == [i \in DOMAIN toml.rules |-> CompiledRule(toml.rules[i])]
         IN  /\ q \in Seq(Rule)
             /\ DOMAIN q = DOMAIN toml.rules
             /\ \A i \in DOMAIN q : toml.rules[i] \in RuleConfig /\ q[i] = CompiledRule(toml.rules[i])
<1> DEFINE f == toml.rules
           L == Len(f)
           q == [i \in DOMAIN f |-> CompiledRule(f[i])]
<1>1. f \in Seq(RuleConfig) /\ clock \in Nat
  BY DEF Types
<1> HIDE DEF f
<1>2. L \in Nat /\ DOMAIN f = 1..L /\ \A i \in DOMAIN f : f[i] \in RuleConfig
  BY <1>1, LenProperties, ElementOfSeq
<1> HIDE DEF L
<1>3. \A i \in DOMAIN f : CompiledRule(f[i]) \in Rule
  BY <1>1, <1>2, Compiled
<1>4. q \in [1..L -> Rule]
  BY <1>2, <1>3
<1>5. q \in Seq(Rule)
  BY <1>2, <1>4, FcnIsSeq
<1> QED
  BY <1>2, <1>5 DEF f

-----------------------------------------------------------------------------
(* Every step keeps the invariant.                                          *)

(* The daemon starts without an engine. *)
LEMMA InitInv == AlertsInit => IInv
<1> SUFFICES ASSUME AlertsInit PROVE IInv
  OBVIOUS
<1>1. toml \in [ok : BOOLEAN, rules : Seq(RuleConfig)]
  BY AlertsAssumption DEF AlertsInit
<1>2. Types
  BY <1>1, EmptySeq DEF AlertsInit, Types
<1> QED
  BY <1>2 DEF AlertsInit, IInv, LockShape, OutcomesMeetTheirRules, FileSound

(* A sample's jobs name rules as they are. *)
LEMMA OnSampleInv ==
  ASSUME IInv, NEW s \in Sensors, NEW v, OnSample(s, v)
  PROVE  IInv'
<1>1. /\ jobs' = JobsFor(s, values') /\ lock' = IF jobs' = {} THEN "free" ELSE "commit"
      /\ loaded' = loaded /\ rules' = rules /\ events' = events /\ toml' = toml
      /\ clock' = clock /\ unsaved' = unsaved /\ loaded /\ lock = "free"
  BY DEF OnSample
<1>2. Types'
  BY <1>1 DEF IInv, Types
<1>3. LockShape'
  BY <1>1 DEF IInv, LockShape
<1>4. OutcomesMeetTheirRules'
  BY <1>1 DEF JobsFor, OutcomesMeetTheirRules
<1>5. Config' = Config
  BY <1>1 DEF Config, ConfigOf, format_duration
<1>6. FileSound'
  BY <1>1, <1>5 DEF IInv, FileSound, ConfigOf, format_duration
<1> QED
  BY <1>2, <1>3, <1>4, <1>6 DEF IInv

(* While tick_commit holds the mutex, outcomes move the state of rules only. *)
LEMMA CollectInv ==
  ASSUME IInv, CollectOutcome
  PROVE  IInv'
<1>1. PICK job \in jobs : /\ \E outcome \in EvalOutcomes(job) : apply_eval_result(job.idx, outcome)
                          /\ jobs' = jobs \ {job}
  BY DEF CollectOutcome
<1>2. /\ lock = "commit" /\ lock' = IF jobs' = {} THEN "free" ELSE "commit"
      /\ loaded' = loaded /\ toml' = toml /\ clock' = clock /\ unsaved' = unsaved
  BY DEF CollectOutcome
<1>3. job.idx \in DOMAIN rules /\ Types /\ loaded
  BY <1>2 DEF IInv, OutcomesMeetTheirRules, LockShape
<1> DEFINE k == job.idx
<1>4. PICK r \in Rule : SameConfig(r, rules[k]) /\ rules' = [rules EXCEPT ![k] = r]
  BY <1>1, <1>3, Applied
<1>5. events' \in Seq(EventRecord)
  BY <1>1, <1>3, Applied
<1> HIDE DEF k
<1>6. k \in DOMAIN rules /\ rules \in Seq(Rule) /\ DOMAIN rules = 1..Len(rules)
  BY <1>3, LenProperties DEF Types, k
<1>7. rules' \in Seq(Rule)
  BY <1>4, <1>6, ExceptSeq
<1>8. DOMAIN rules' = DOMAIN rules /\ \A i \in DOMAIN rules : SameConfig(rules'[i], rules[i])
  BY <1>4, <1>6 DEF SameConfig
<1>9. Types'
  BY <1>2, <1>3, <1>5, <1>7 DEF Types
<1>10. LockShape'
  BY <1>2, <1>3, <1>1 DEF LockShape
<1>11. OutcomesMeetTheirRules'
  BY <1>1, <1>8 DEF IInv, OutcomesMeetTheirRules, SameConfig
<1>12. Config' = Config
  <2>1. \A i \in DOMAIN rules : ConfigOf(rules'[i]) = ConfigOf(rules[i])
    BY <1>8, SameConfigOf
  <2>2. Config' = [i \in DOMAIN rules' |-> ConfigOf(rules'[i])]
    BY DEF Config, ConfigOf, format_duration
  <2> QED
    BY <1>8, <2>1, <2>2 DEF Config
<1>13. FileSound'
  BY <1>2, <1>12 DEF IInv, FileSound, ConfigOf, format_duration
<1> QED
  BY <1>9, <1>10, <1>11, <1>13 DEF IInv

(* A request changes the rules only while no job is out, and leaves the     *)
(* save to do.                                                              *)
LEMMA ChangeInv ==
  ASSUME IInv, lock = "free", loaded, NEW q \in Seq(Rule), NEW n, Change(q, n)
  PROVE  IInv'
<1>1. /\ rules' = q /\ events' = Outdated(n) /\ lock' = "save" /\ loaded' = loaded
      /\ jobs' = jobs /\ toml' = toml /\ clock' = clock
  BY DEF Change
<1>2. Types'
  BY <1>1, OutdatedIs DEF IInv, Types
<1>3. LockShape' /\ OutcomesMeetTheirRules' /\ FileSound'
  BY <1>1 DEF IInv, LockShape, OutcomesMeetTheirRules, FileSound
<1> QED
  BY <1>2, <1>3 DEF IInv

(* A completed save leaves the configuration of the rules in the file. *)
LEMMA SaveInv ==
  ASSUME IInv, SaveOpens \/ SaveWrites \/ SaveFails
  PROVE  IInv'
<1>1. Types
  BY DEF IInv
<1>2. CASE SaveOpens
  <2>1. <<>> \in Seq(RuleConfig)
    BY EmptySeq
  <2> QED
    BY <1>2, <2>1 DEF SaveOpens, IInv, Types, LockShape, OutcomesMeetTheirRules, FileSound
<1>3. CASE SaveWrites
  <2>1. /\ lock = "write" /\ toml' = [ok |-> TRUE, rules |-> Config] /\ lock' = "free"
        /\ loaded' = loaded /\ rules' = rules /\ events' = events /\ jobs' = jobs /\ clock' = clock
    BY <1>3 DEF SaveWrites
  <2>2. Types'
    BY <1>1, <2>1, Written DEF Types
  <2>3. LockShape' /\ OutcomesMeetTheirRules'
    BY <2>1 DEF IInv, LockShape, OutcomesMeetTheirRules
  <2>4. Config' = Config
    BY <2>1 DEF Config, ConfigOf, format_duration
  <2>5. \A i \in DOMAIN rules : ConfigOf(Config[i]) = Config[i]
    <3>1. \A i \in DOMAIN rules : rules[i] \in Rule
      BY <1>1, LenProperties, ElementOfSeq DEF Types
    <3> QED
      BY <1>1, <3>1, Written, ConfigTwice
  <2>6. [i \in DOMAIN Config |-> ConfigOf(Config[i])] = Config
    BY <1>1, <2>5, Written DEF Config
  <2>7. FileSound'
    BY <2>1, <2>4, <2>6 DEF FileSound, ConfigOf, format_duration
  <2> QED
    BY <2>2, <2>3, <2>7 DEF IInv
<1>4. CASE SaveFails
  <2>1. /\ lock' = "free" /\ unsaved' = TRUE /\ loaded' = loaded /\ rules' = rules
        /\ events' = events /\ jobs' = jobs /\ clock' = clock /\ lock # "commit"
        /\ toml' = toml \/ toml' \in Torn
    BY <1>4 DEF SaveFails
  <2>2. Types'
    BY <1>1, <2>1, Written DEF Types
  <2> QED
    BY <2>1, <2>2 DEF IInv, LockShape, OutcomesMeetTheirRules, FileSound
<1> QED
  BY <1>2, <1>3, <1>4

(* A loaded engine is what the file says. *)
LEMMA LoadInv ==
  ASSUME IInv, Load
  PROVE  IInv'
<1> DEFINE q == [i \in DOMAIN toml.rules |-> CompiledRule(toml.rules[i])]
<1>1. /\ lock = "free" /\ toml.ok /\ loaded' = TRUE /\ rules' = q /\ events' = events
      /\ lock' = lock /\ jobs' = jobs /\ toml' = toml /\ clock' = clock
  BY DEF Load
<1>2. /\ q \in Seq(Rule) /\ DOMAIN q = DOMAIN toml.rules
      /\ \A i \in DOMAIN q : toml.rules[i] \in RuleConfig /\ q[i] = CompiledRule(toml.rules[i])
  BY Loaded DEF IInv
<1> HIDE DEF q
<1>3. Types'
  BY <1>1, <1>2 DEF IInv, Types
<1>4. LockShape' /\ OutcomesMeetTheirRules'
  BY <1>1 DEF IInv, LockShape, OutcomesMeetTheirRules
<1>5. \A i \in DOMAIN q : ConfigOf(q[i]) = ConfigOf(toml.rules[i])
  BY <1>2, Compiled, SameConfigOf DEF IInv, Types
<1>6. Config' = [i \in DOMAIN toml.rules |-> ConfigOf(toml.rules[i])]
  BY <1>1, <1>2, <1>5 DEF Config, ConfigOf, format_duration
<1>7. FileSound'
  BY <1>1, <1>6 DEF FileSound, ConfigOf, format_duration
<1> QED
  BY <1>3, <1>4, <1>7 DEF IInv

(* Every step of the engine keeps the invariant. *)
LEMMA NextInv == IInv /\ [AlertsNext]_alertVars => IInv'
<1> SUFFICES ASSUME IInv, [AlertsNext]_alertVars PROVE IInv'
  OBVIOUS
<1>1. ASSUME NEW s \in Sensors, NEW v \in {"low", "high"}, OnSample(s, v) PROVE IInv'
  BY <1>1, OnSampleInv
<1>2. CASE CollectOutcome
  BY <1>2, CollectInv
<1>3. ASSUME NEW c \in Requests, NEW open \in BOOLEAN, UpsertAlert(c, open) PROVE IInv'
  <2>1. c \in RuleConfig /\ Types
    BY AlertsAssumption DEF IInv
  <2>2. upsert_rule(c, open) \in Seq(Rule)
    BY <2>1, Upserted
  <2> QED
    BY <1>3, <2>2, ChangeInv DEF UpsertAlert
<1>4. ASSUME NEW n \in RuleNames, DeleteAlert(n) PROVE IInv'
  <2>1. delete_rule(n) \in Seq(Rule)
    BY Deleted DEF IInv
  <2> QED
    BY <1>4, <2>1, ChangeInv DEF DeleteAlert
<1>5. CASE SaveOpens \/ SaveWrites \/ SaveFails
  BY <1>5, SaveInv
<1>6. CASE Load
  BY <1>6, LoadInv
<1>7. CASE ToggleOff \/ Crash
  <2>1. /\ loaded' = FALSE /\ rules' = <<>> /\ events' = <<>> /\ lock' = "free" /\ clock' = clock
        /\ jobs' = {} /\ (toml' = toml \/ toml' \in Torn)
    BY <1>7 DEF ToggleOff, Crash, IInv, LockShape
  <2>2. Types'
    BY <2>1, Written, EmptySeq DEF IInv, Types
  <2> QED
    BY <2>1, <2>2 DEF IInv, LockShape, OutcomesMeetTheirRules, FileSound
<1>8. CASE PostEnds \/ Tick \/ UNCHANGED alertVars
  <2>1. /\ loaded' = loaded /\ rules' = rules /\ events' = events /\ lock' = lock /\ jobs' = jobs
        /\ toml' = toml /\ unsaved' = unsaved /\ (clock' = clock \/ clock' = clock + 1)
    BY <1>8 DEF PostEnds, Tick, alertVars
  <2>2. Types'
    BY <2>1 DEF IInv, Types
  <2>3. Config' = Config
    BY <2>1 DEF Config, ConfigOf, format_duration
  <2> QED
    BY <2>1, <2>2, <2>3
       DEF IInv, LockShape, OutcomesMeetTheirRules, FileSound, ConfigOf, format_duration
<1> QED
  BY <1>1, <1>2, <1>3, <1>4, <1>5, <1>6, <1>7, <1>8 DEF AlertsNext

-----------------------------------------------------------------------------
(* The ring.                                                                *)

(* The same reports of a rule that is firing, or not, as before. *)
LEMMA RingSame ==
  ASSUME NEW ev \in Seq(EventRecord), NEW ew \in Seq(EventRecord), NEW r \in Rule, NEW q \in Rule,
         RingOK(ev, r), Len(ew) = Len(ev), DOMAIN ew = DOMAIN ev,
         Reported(ew, r.name) = Reported(ev, r.name),
         \A i \in DOMAIN ev : ew[i].kind = ev[i].kind /\ ew[i].ts = ev[i].ts
                              /\ ew[i].quiet = ev[i].quiet,
         SameConfig(q, r), q.fired = r.fired, q.last_fired_at = r.last_fired_at
  PROVE  RingOK(ew, q)
<1>1. q.name = r.name /\ q.for = r.for /\ q.cooldown = r.cooldown
  BY DEF SameConfig
<1>2. Reported(ev, r.name) \subseteq DOMAIN ev
  BY DEF Reported
<1>3. Firings(ew, r.name) = Firings(ev, r.name)
  BY <1>2 DEF Firings
<1>4. Alternates(ew, q.name)
  BY <1>1, <1>2 DEF RingOK, Alternates
<1>5. NewestTells(ew, q) /\ FiringIsReported(ew, q)
  BY <1>1, <1>2 DEF RingOK, NewestTells, FiringIsReported
<1>6. FiringsInTime(ew, q)
  BY <1>1, <1>2, <1>3 DEF RingOK, FiringsInTime, Firings
<1> QED
  BY <1>4, <1>5, <1>6 DEF RingOK

(* A rule of which the ring holds nothing, and that is not firing. *)
LEMMA RingFresh ==
  ASSUME NEW ev, NEW r, Reported(ev, r.name) = {}, ~ r.fired
  PROVE  RingOK(ev, r)
BY DEF RingOK, Alternates, NewestTells, FiringIsReported, FiringsInTime, Firings

Push(ev, e) == <<e>> \o IF Len(ev) = EventCapacity THEN Front(ev) ELSE ev

(* Where the reports of a rule are once an event is pushed: one place on,   *)
(* behind the new one if that is its own.                                   *)
LEMMA PushedReports ==
  ASSUME NEW ev \in Seq(EventRecord), NEW e \in EventRecord, ~ e.stale, NEW n
  PROVE  LET ew == Push(ev, e)
         IN  /\ ew \in Seq(EventRecord) /\ ew[1] = e
             /\ Len(ew) < EventCapacity => Len(ev) < EventCapacity
             /\ Reported(ev, n) \subseteq Nat /\ Reported(ew, n) \subseteq Nat \ {0}
             /\ 1 \in Reported(ew, n) <=> e.rule = n
             /\ \A i \in Reported(ew, n) : i # 1 => i - 1 \in Reported(ev, n) /\ ew[i] = ev[i - 1]
             /\ \A i \in Reported(ev, n) : \A j \in Reported(ew, n) :
                   i + 1 <= j => i + 1 \in Reported(ew, n)
             /\ Len(ew) < EventCapacity => \A i \in Reported(ev, n) : i + 1 \in Reported(ew, n)
<1> DEFINE ew == Push(ev, e)
<1>1. EventCapacity \in Nat \ {0}
  BY AlertsAssumption
<1>2. /\ ew \in Seq(EventRecord)
      /\ 1 \in DOMAIN ew /\ ew[1] = e
      /\ \A i \in DOMAIN ew : i # 1 => i - 1 \in DOMAIN ev /\ ew[i] = ev[i - 1]
      /\ Len(ev) # EventCapacity => \A i \in DOMAIN ev : i + 1 \in DOMAIN ew
      /\ Len(ew) < EventCapacity => Len(ev) < EventCapacity /\ Len(ew) = Len(ev) + 1
      /\ DOMAIN ew \subseteq Nat /\ DOMAIN ev \subseteq Nat
  BY <1>1, Pushed DEF Push
<1> HIDE DEF ew
<1>3. DOMAIN ew = 1..Len(ew) /\ DOMAIN ev = 1..Len(ev) /\ Len(ew) \in Nat /\ Len(ev) \in Nat
  BY <1>2, LenProperties
<1>4. \A i \in DOMAIN ew : i # 1 => i - 1 + 1 = i
  BY <1>2
<1>5. \A i \in DOMAIN ev : i + 1 # 1 /\ i + 1 - 1 = i
  BY <1>3
<1>6. 1 \in Reported(ew, n) <=> e.rule = n
  BY <1>2 DEF Reported
<1>7. \A i \in Reported(ew, n) : i # 1 => i - 1 \in Reported(ev, n) /\ ew[i] = ev[i - 1]
  BY <1>2 DEF Reported
<1>8. \A i \in Reported(ev, n) : i + 1 \in DOMAIN ew => i + 1 \in Reported(ew, n)
  <2> SUFFICES ASSUME NEW i \in Reported(ev, n), i + 1 \in DOMAIN ew
               PROVE  i + 1 \in Reported(ew, n)
    OBVIOUS
  <2>1. i \in DOMAIN ev
    BY DEF Reported
  <2>2. ew[i + 1] = ev[i]
    BY <1>2, <1>5, <2>1
  <2> QED
    BY <2>2 DEF Reported
<1>9. ASSUME NEW i \in Reported(ev, n), NEW j \in Reported(ew, n), i + 1 <= j
      PROVE  i + 1 \in Reported(ew, n)
  <2>1. i \in DOMAIN ev /\ j \in DOMAIN ew
    BY DEF Reported
  <2>2. i + 1 \in DOMAIN ew
    BY <1>3, <1>9, <2>1
  <2> QED
    BY <1>8, <2>2
<1>10. ASSUME Len(ew) < EventCapacity, NEW i \in Reported(ev, n) PROVE i + 1 \in Reported(ew, n)
  <2>1. i \in DOMAIN ev
    BY DEF Reported
  <2>2. Len(ev) < EventCapacity
    BY <1>2, <1>10
  <2>3. Len(ev) # EventCapacity
    <3>1. \A a \in Nat : a < EventCapacity => a # EventCapacity
      BY <1>1
    <3>2. Len(ev) \in Nat
      BY <1>3
    <3> QED
      BY <2>2, <3>1, <3>2, Zenon
  <2> QED
    BY <1>2, <1>8, <2>1, <2>3
<1>11. Reported(ev, n) \subseteq Nat /\ Reported(ew, n) \subseteq Nat \ {0}
  BY <1>3 DEF Reported
<1> QED
  BY <1>2, <1>6, <1>7, <1>9, <1>10, <1>11 DEF ew

(* Somebody else's event moves the reports of a rule on, the oldest one      *)
(* perhaps out, and changes nothing they say.                                *)
LEMMA RingPushOther ==
  ASSUME NEW ev \in Seq(EventRecord), NEW e \in EventRecord, ~ e.stale, NEW r \in Rule,
         e.rule # r.name, RingOK(ev, r)
  PROVE  RingOK(Push(ev, e), r)
<1> DEFINE ew == Push(ev, e)
           n == r.name
           R == Reported(ev, n)
           S == Reported(ew, n)
<1>1. /\ Len(ew) < EventCapacity => Len(ev) < EventCapacity
      /\ R \subseteq Nat /\ S \subseteq Nat \ {0} /\ 1 \notin S
      /\ \A i \in S : i # 1 => i - 1 \in R /\ ew[i] = ev[i - 1]
      /\ \A i \in R : \A j \in S : i + 1 <= j => i + 1 \in S
      /\ Len(ew) < EventCapacity => \A i \in R : i + 1 \in S
  BY PushedReports
<1> HIDE DEF ew, R, S, n
<1>2. \A i \in S : i - 1 \in R /\ ew[i] = ev[i - 1] /\ i \in Int
  BY <1>1
<1>3. Alternates(ew, n)
  <2> SUFFICES ASSUME NEW i \in S, NEW j \in S, i < j, \A k \in S : ~ (i < k /\ k < j)
               PROVE  ew[i].kind # ew[j].kind
    BY DEF Alternates, S
  <2>1. ASSUME NEW k \in R, i - 1 < k, k < j - 1 PROVE FALSE
    <3>1. k + 1 <= j /\ i < k + 1 /\ k + 1 < j
      BY <1>1, <1>2, <2>1
    <3> QED
      BY <1>1, <3>1
  <2>2. i - 1 < j - 1
    BY <1>2
  <2> QED
    BY <1>2, <2>1, <2>2 DEF RingOK, Alternates, R, n
<1>4. NewestTells(ew, r)
  <2> SUFFICES ASSUME NEW i \in S, \A k \in S : i <= k
               PROVE  r.fired <=> ew[i].kind = "fired"
    BY DEF NewestTells, S, n
  <2>1. ASSUME NEW k \in R PROVE i - 1 <= k
    <3>1. k \in Nat /\ i \in Nat
      BY <1>1
    <3>2. k + 1 <= i => i <= k + 1
      BY <1>1
    <3> QED
      BY <3>1, <3>2
  <2> QED
    BY <1>2, <2>1 DEF RingOK, NewestTells, R, n
<1>5. FiringIsReported(ew, r)
  BY <1>1 DEF RingOK, FiringIsReported, R, S, n
<1>6. \A i \in Firings(ew, n) : i - 1 \in Firings(ev, n) /\ ew[i] = ev[i - 1] /\ i \in Int
  BY <1>2 DEF Firings, R, S
<1>7. FiringsInTime(ew, r)
  <2>1. \A i \in Firings(ew, n) : /\ ew[i].quiet >= r.for /\ r.last_fired_at # Never
                                  /\ ew[i].ts <= r.last_fired_at
    BY <1>6 DEF RingOK, FiringsInTime, n
  <2>2. ASSUME NEW i \in Firings(ew, n), NEW j \in Firings(ew, n), i < j
        PROVE  ew[i].ts - ew[j].ts >= r.cooldown
    <3>1. i - 1 < j - 1
      BY <1>6, <2>2
    <3> QED
      BY <1>6, <3>1 DEF RingOK, FiringsInTime, n
  <2> QED
    BY <2>1, <2>2 DEF FiringsInTime, n
<1> QED
  BY <1>3, <1>4, <1>5, <1>7 DEF RingOK, ew, n

(* A rule's own event: it turns the rule over, and a firing has kept to the *)
(* rule's times.                                                            *)
LEMMA RingPushOwn ==
  ASSUME NEW ev \in Seq(EventRecord), NEW e \in EventRecord, ~ e.stale,
         NEW r \in Rule, NEW q \in Rule, RingOK(ev, r),
         e.rule = r.name, SameConfig(q, r),
         r.fired <=> e.kind # "fired", q.fired <=> e.kind = "fired",
         e.kind # "fired" => q.last_fired_at = r.last_fired_at,
         e.kind = "fired" => /\ e.quiet >= r.for
                             /\ q.last_fired_at = e.ts /\ q.last_fired_at # Never
                             /\ \A i \in Firings(ev, r.name) : e.ts - ev[i].ts >= r.cooldown
                                                              /\ ev[i].ts <= e.ts
  PROVE  RingOK(Push(ev, e), q)
<1> DEFINE ew == Push(ev, e)
           n == r.name
           R == Reported(ev, n)
           S == Reported(ew, n)
<1>1. /\ ew[1] = e
      /\ R \subseteq Nat /\ S \subseteq Nat \ {0} /\ 1 \in S
      /\ \A i \in S : i # 1 => i - 1 \in R /\ ew[i] = ev[i - 1]
      /\ \A i \in R : \A j \in S : i + 1 <= j => i + 1 \in S
  BY PushedReports
<1>2. q.name = n /\ q.for = r.for /\ q.cooldown = r.cooldown
  BY DEF SameConfig
<1> HIDE DEF ew, R, S, n
<1>3. \A i \in S : i \in Int /\ 1 <= i
  BY <1>1
<1>4. Alternates(ew, n)
  <2> SUFFICES ASSUME NEW i \in S, NEW j \in S, i < j, \A k \in S : ~ (i < k /\ k < j)
               PROVE  ew[i].kind # ew[j].kind
    BY DEF Alternates, S
  <2>1. j # 1 /\ j - 1 \in R /\ ew[j] = ev[j - 1]
    BY <1>1, <1>3
  <2>2. CASE i = 1
    <3>1. ASSUME NEW k \in R PROVE j - 1 <= k
      <4>1. (k \in Nat /\ i < k + 1) \/ k = 0
        BY <1>1, <2>2
      <4>2. k # 0
        BY <3>1 DEF R, Reported
      <4>3. k + 1 <= j => k + 1 \in S
        BY <1>1
      <4> QED
        BY <1>3, <4>1, <4>2, <4>3
    <3>2. r.fired <=> ev[j - 1].kind = "fired"
      BY <2>1, <3>1 DEF RingOK, NewestTells, R, n
    <3> QED
      BY <1>1, <2>1, <2>2, <3>2
  <2>3. CASE i # 1
    <3>1. i - 1 \in R /\ ew[i] = ev[i - 1] /\ i - 1 < j - 1
      BY <1>1, <1>3, <2>3
    <3>2. ASSUME NEW k \in R, i - 1 < k, k < j - 1 PROVE FALSE
      <4>1. k + 1 <= j /\ i < k + 1 /\ k + 1 < j
        BY <1>1, <1>3, <3>2
      <4> QED
        BY <1>1, <4>1
    <3> QED
      BY <2>1, <3>1, <3>2 DEF RingOK, Alternates, R, n
  <2> QED
    BY <2>2, <2>3
<1>5. NewestTells(ew, q)
  <2> SUFFICES ASSUME NEW i \in S, \A k \in S : i <= k
               PROVE  q.fired <=> ew[i].kind = "fired"
    BY <1>2 DEF NewestTells, S
  <2>1. i = 1
    BY <1>1, <1>3
  <2> QED
    BY <1>1, <2>1
<1>6. FiringIsReported(ew, q)
  BY <1>1, <1>2 DEF FiringIsReported, S
<1>7. \A i \in Firings(ew, n) : i # 1 => i - 1 \in Firings(ev, n) /\ ew[i] = ev[i - 1]
  BY <1>1 DEF Firings, R, S
<1>8. \A i \in Firings(ew, n) : i \in Int /\ 1 <= i /\ (i = 1 => e.kind = "fired")
  BY <1>1, <1>3 DEF Firings, S
<1>9. \A i \in Firings(ev, n) : /\ ev[i].quiet >= r.for /\ r.last_fired_at # Never
                                /\ ev[i].ts <= r.last_fired_at
  BY DEF RingOK, FiringsInTime, n
<1>10. ASSUME NEW i \in Firings(ew, n)
       PROVE  ew[i].quiet >= q.for /\ q.last_fired_at # Never /\ ew[i].ts <= q.last_fired_at
  <2>1. CASE i = 1
    <3>1. e.ts \in Nat
      BY DEF EventRecord
    <3> QED
      BY <1>1, <1>2, <1>8, <2>1, <3>1
  <2>2. CASE i # 1
    <3>1. i - 1 \in Firings(ev, n) /\ ew[i] = ev[i - 1]
      BY <1>7, <2>2
    <3>2. ew[i].quiet >= q.for
      BY <1>2, <1>9, <3>1
    <3>3. q.last_fired_at # Never /\ ew[i].ts <= q.last_fired_at
      BY <1>9, <3>1 DEF n
    <3> QED
      BY <3>2, <3>3
  <2> QED
    BY <2>1, <2>2
<1>11. ASSUME NEW i \in Firings(ew, n), NEW j \in Firings(ew, n), i < j
       PROVE  ew[i].ts - ew[j].ts >= q.cooldown
  <2>1. j - 1 \in Firings(ev, n) /\ ew[j] = ev[j - 1]
    BY <1>7, <1>8, <1>11
  <2>2. CASE i = 1
    BY <1>1, <1>2, <1>8, <2>1, <2>2 DEF n
  <2>3. CASE i # 1
    <3>1. i - 1 \in Firings(ev, n) /\ ew[i] = ev[i - 1] /\ i - 1 < j - 1
      BY <1>7, <1>8, <1>11, <2>3
    <3> QED
      BY <1>2, <2>1, <3>1 DEF RingOK, FiringsInTime, n
  <2> QED
    BY <2>2, <2>3
<1>12. FiringsInTime(ew, q)
  BY <1>2, <1>10, <1>11 DEF FiringsInTime
<1> QED
  BY <1>2, <1>4, <1>5, <1>6, <1>12 DEF RingOK, ew

-----------------------------------------------------------------------------
(* Every step keeps the ring true.                                          *)

(* The files users write name each rule once.  The events of rules that     *)
(* share a name cannot be told apart.                                       *)
FilesNameRulesOnce == \A f \in Files : NamedOnce(f)

(* A firing or a clearing goes into the ring as its rule turns over. *)
LEMMA CollectRing ==
  ASSUME IInv, RingInv, CollectOutcome
  PROVE  RingInv'
<1>1. PICK job \in jobs : \E outcome \in EvalOutcomes(job) : apply_eval_result(job.idx, outcome)
  BY DEF CollectOutcome
<1>2. toml' = toml /\ clock' = clock
  BY DEF CollectOutcome
<1> DEFINE k == job.idx
           r == rules[k]
           t == Triggered(r)
<1>3. k \in DOMAIN rules /\ Types
  BY DEF IInv, OutcomesMeetTheirRules
<1>4. /\ \A i \in DOMAIN rules : rules[i] \in Rule
      /\ events \in Seq(EventRecord) /\ clock \in Nat /\ r \in Rule
  BY <1>3, LenProperties, ElementOfSeq DEF Types
<1>5. TimesOK(r, clock) /\ RingOK(events, r)
  BY <1>3 DEF RingInv
<1>6. /\ t \in Rule /\ SameConfig(t, r) /\ t.fired = r.fired /\ t.last_fired_at = r.last_fired_at
      /\ t.falseAt = r.falseAt
      /\ t.triggered_at = IF r.triggered_at = Never THEN clock ELSE r.triggered_at
      /\ Fired(t) \in Rule /\ SameConfig(Fired(t), r) /\ Fired(t).fired
      /\ Fired(t).last_fired_at = clock /\ Fired(t).falseAt = t.falseAt
      /\ Fired(t).triggered_at = t.triggered_at
      /\ Cleared(r) \in Rule /\ SameConfig(Cleared(r), r) /\ ~ Cleared(r).fired
      /\ Cleared(r).last_fired_at = r.last_fired_at
      /\ Cleared(r).triggered_at = Never /\ Cleared(r).falseAt = clock
  BY <1>4 DEF Triggered, Fired, Cleared, Rule, SameConfig, Never
<1>7. \A kind \in {"fired", "cleared"} :
        /\ Event(r, kind) \in EventRecord /\ ~ Event(r, kind).stale
        /\ Event(r, kind).rule = r.name /\ Event(r, kind).kind = kind
        /\ Event(r, kind).ts = clock /\ Event(r, kind).quiet = clock - r.falseAt
  <2>1. r \in Rule /\ clock \in Nat
    BY <1>4
  <2> HIDE DEF r
  <2>2. r.name \in RuleNames /\ r.falseAt \in Nat
    BY <2>1 DEF Rule
  <2>3. clock - r.falseAt \in Int
    BY <2>1, <2>2
  <2> QED
    BY <2>1, <2>2, <2>3 DEF Event, EventRecord
<1>8. \/ /\ MayFire(t)
         /\ rules' = [rules EXCEPT ![k] = Fired(t)]
         /\ events' = Push(events, Event(r, "fired"))
      \/ rules' = [rules EXCEPT ![k] = t] /\ events' = events
      \/ /\ r.fired
         /\ rules' = [rules EXCEPT ![k] = Cleared(r)]
         /\ events' = Push(events, Event(r, "cleared"))
      \/ /\ ~ r.fired
         /\ rules' = [rules EXCEPT ![k] = Cleared(r)] /\ events' = events
      \/ rules' = rules /\ events' = events
  BY <1>1 DEF apply_eval_result, push_event, Push
<1>9. clock \in Nat /\ r.falseAt \in Nat /\ r.for \in Nat /\ r.cooldown \in Nat
      /\ r.last_fired_at \in Nat \cup {Never} /\ r.triggered_at \in Nat \cup {Never}
  BY <1>4 DEF Rule
<1> HIDE DEF k, r, t
<1>10. /\ \A i \in DOMAIN rules : i # k => rules[i].name # r.name
       /\ \A i \in DOMAIN rules : TimesOK(rules[i], clock) /\ RingOK(events, rules[i])
  BY <1>3 DEF RingInv, Named, NamedOnce, k, r
<1>11. TimesOK(t, clock) /\ TimesOK(Fired(t), clock) /\ TimesOK(Cleared(r), clock)
  BY <1>5, <1>6, <1>9 DEF TimesOK
<1>12. RingOK(events, t)
  BY <1>4, <1>5, <1>6, RingSame
<1>13. ASSUME MayFire(t) PROVE RingOK(Push(events, Event(r, "fired")), Fired(t))
  <2>1. /\ ~ r.fired /\ clock - t.triggered_at >= r.for
        /\ r.last_fired_at # Never => clock - r.last_fired_at >= r.cooldown
    BY <1>6, <1>13 DEF MayFire, SameConfig
  <2>2. clock - r.falseAt >= r.for
    <3>1. t.triggered_at \in Nat /\ r.falseAt <= t.triggered_at
      BY <1>5, <1>6, <1>9 DEF TimesOK
    <3> QED
      BY <1>9, <2>1, <3>1
  <2>3. \A i \in Firings(events, r.name) : /\ clock - events[i].ts >= r.cooldown
                                           /\ events[i].ts <= clock
    <3> SUFFICES ASSUME NEW i \in Firings(events, r.name)
                 PROVE  clock - events[i].ts >= r.cooldown /\ events[i].ts <= clock
      OBVIOUS
    <3>1. r.last_fired_at # Never /\ events[i].ts <= r.last_fired_at
      BY <1>5 DEF RingOK, FiringsInTime
    <3>2. events[i].ts \in Nat
      <4>1. \A j \in DOMAIN events : events[j] \in EventRecord
        BY <1>4, LenProperties, ElementOfSeq
      <4> QED
        BY <4>1 DEF Firings, Reported, EventRecord
    <3>3. r.last_fired_at \in Nat
      BY <1>9, <3>1
    <3> QED
      BY <1>9, <2>1, <3>1, <3>2, <3>3
  <2>4. clock # Never
    BY <1>9 DEF Never
  <2> DEFINE e == Event(r, "fired")
             q == Fired(t)
  <2>5. /\ e \in EventRecord /\ ~ e.stale /\ e.rule = r.name /\ e.kind = "fired"
        /\ e.ts = clock /\ e.quiet = clock - r.falseAt
    BY <1>7
  <2>6. q \in Rule /\ SameConfig(q, r) /\ q.fired /\ q.last_fired_at = clock
    BY <1>6
  <2> HIDE DEF e, q
  <2>7. RingOK(Push(events, e), q)
    BY <1>4, <1>5, <2>1, <2>2, <2>3, <2>4, <2>5, <2>6, RingPushOwn DEF r
  <2> QED
    BY <2>7 DEF e, q
<1>14. ASSUME r.fired PROVE RingOK(Push(events, Event(r, "cleared")), Cleared(r))
  <2> DEFINE e == Event(r, "cleared")
             q == Cleared(r)
  <2>1. e \in EventRecord /\ ~ e.stale /\ e.rule = r.name /\ e.kind = "cleared"
    BY <1>7
  <2>2. q \in Rule /\ SameConfig(q, r) /\ ~ q.fired /\ q.last_fired_at = r.last_fired_at
    BY <1>6
  <2> HIDE DEF e, q
  <2>3. RingOK(Push(events, e), q)
    BY <1>4, <1>5, <1>14, <2>1, <2>2, RingPushOwn DEF r
  <2> QED
    BY <2>3 DEF e, q
<1>15. ASSUME ~ r.fired PROVE RingOK(events, Cleared(r))
  <2>1. Cleared(r).fired = r.fired
    BY <1>4, <1>6, <1>15 DEF Rule, r, Cleared
  <2> QED
    BY <1>4, <1>5, <1>6, <2>1, RingSame
<1>16. \A i \in DOMAIN rules : i # k =>
         \A kind \in {"fired", "cleared"} : RingOK(Push(events, Event(r, kind)), rules[i])
  BY <1>4, <1>7, <1>10, RingPushOther
<1>17. \E q \in Rule : /\ rules' = [rules EXCEPT ![k] = q]
                       /\ SameConfig(q, r) /\ TimesOK(q, clock) /\ RingOK(events', q)
  <2>1. rules = [rules EXCEPT ![k] = r] /\ SameConfig(r, r)
    BY <1>3, <1>4 DEF SameConfig, r, Types
  <2> QED
    BY <1>4, <1>5, <1>6, <1>8, <1>11, <1>12, <1>13, <1>14, <1>15, <2>1
<1>18. PICK q \in Rule : /\ rules' = [rules EXCEPT ![k] = q]
                         /\ SameConfig(q, r) /\ TimesOK(q, clock) /\ RingOK(events', q)
  BY <1>17
<1>19. \A i \in DOMAIN rules : i # k => RingOK(events', rules[i])
  BY <1>8, <1>10, <1>16
<1>20. /\ DOMAIN rules' = DOMAIN rules /\ rules'[k] = q
       /\ \A i \in DOMAIN rules : i # k => rules'[i] = rules[i]
  BY <1>3, <1>18 DEF k
<1>21. \A i \in DOMAIN rules' : TimesOK(rules'[i], clock) /\ RingOK(events', rules'[i])
  BY <1>10, <1>18, <1>19, <1>20
<1>22. \A i \in DOMAIN rules : rules'[i].name = rules[i].name
  BY <1>18, <1>20 DEF SameConfig, r
<1>23. Named'
  BY <1>2, <1>20, <1>22 DEF RingInv, Named, NamedOnce
<1> QED
  BY <1>2, <1>21, <1>23
     DEF RingInv, TimesOK, RingOK, Alternates, NewestTells, FiringIsReported, FiringsInTime,
         Firings, Reported

(* The reports of rules that a request does not touch stay as they are. *)
LEMMA OutdatedRing ==
  ASSUME Types, NEW n, NEW r \in Rule, RingOK(events, r), r.name # n
  PROVE  RingOK(Outdated(n), r)
<1> DEFINE ew == Outdated(n)
<1>1. /\ ew \in Seq(EventRecord) /\ Len(ew) = Len(events) /\ DOMAIN ew = DOMAIN events
      /\ \A i \in DOMAIN events :
            /\ ew[i].rule = events[i].rule /\ ew[i].kind = events[i].kind
            /\ ew[i].ts = events[i].ts /\ ew[i].quiet = events[i].quiet
            /\ ew[i].stale <=> (events[i].stale \/ events[i].rule = n)
  BY OutdatedIs
<1> HIDE DEF ew
<1>2. Reported(ew, r.name) = Reported(events, r.name)
  BY <1>1 DEF Reported
<1>3. SameConfig(r, r) /\ events \in Seq(EventRecord)
  BY DEF SameConfig, Types
<1>4. RingOK(ew, r)
  BY <1>1, <1>2, <1>3, RingSame
<1> QED
  BY <1>4 DEF ew

(* A rule that is put in place starts with nothing in the ring. *)
LEMMA UpsertRing ==
  ASSUME IInv, RingInv, NEW c \in RuleConfig, NEW open \in BOOLEAN,
         Change(upsert_rule(c, open), c.name)
  PROVE  RingInv'
<1> DEFINE q == upsert_rule(c, open)
           ew == Outdated(c.name)
<1>1. rules' = q /\ events' = ew /\ toml' = toml /\ clock' = clock
  BY DEF Change
<1>2. Types /\ clock \in Nat
  BY DEF IInv, Types
<1>3. PICK d \in RuleConfig, at \in Nat : d.name = c.name /\ UpsertedAt(q, d, at)
  BY <1>2, Upserted
<1> HIDE DEF q
<1>4. /\ d.name = c.name
      /\ DOMAIN q = DOMAIN rules \cup {at}
      /\ q[at] = CompiledRule(d)
      /\ at \notin DOMAIN rules => \A i \in DOMAIN rules : rules[i].name # c.name
      /\ at \in DOMAIN rules => rules[at].name = c.name
      /\ \A i \in DOMAIN rules \ {at} : q[i] = rules[i]
  BY <1>3 DEF UpsertedAt
<1>5. \A i \in DOMAIN rules : rules[i] \in Rule
  BY <1>2, LenProperties, ElementOfSeq DEF Types
<1>6. \A i \in DOMAIN rules \ {at} : rules[i].name # c.name
  BY <1>4 DEF RingInv, Named, NamedOnce
<1>7. \A i \in DOMAIN rules \ {at} : TimesOK(q[i], clock) /\ RingOK(ew, q[i])
  BY <1>2, <1>4, <1>5, <1>6, OutdatedRing DEF RingInv
<1>8. /\ CompiledRule(d) \in Rule /\ CompiledRule(d).name = c.name /\ ~ CompiledRule(d).fired
      /\ CompiledRule(d).triggered_at = Never /\ CompiledRule(d).falseAt = clock
  BY <1>2, <1>4, Compiled DEF SameConfig
<1>9. TimesOK(q[at], clock)
  BY <1>2, <1>4, <1>8 DEF TimesOK
<1>10. Reported(ew, c.name) = {}
  BY <1>2, OutdatedIs DEF Reported
<1> HIDE DEF ew
<1>11. RingOK(ew, q[at])
  BY <1>4, <1>8, <1>10, RingFresh
<1>12. \A i \in DOMAIN q : TimesOK(q[i], clock) /\ RingOK(ew, q[i])
  BY <1>4, <1>7, <1>9, <1>11
<1>13. NamedOnce(q)
  BY <1>4, <1>6, <1>8 DEF RingInv, Named, NamedOnce
<1> QED
  BY <1>1, <1>12, <1>13
     DEF RingInv, Named, TimesOK, RingOK, Alternates, NewestTells, FiringIsReported,
         FiringsInTime, Firings, Reported, NamedOnce

(* Deleting a rule takes nothing from the reports of the others. *)
LEMMA DeleteRing ==
  ASSUME IInv, RingInv, NEW n, Change(delete_rule(n), n)
  PROVE  RingInv'
<1> DEFINE q == delete_rule(n)
           ew == Outdated(n)
<1>1. rules' = q /\ events' = ew /\ toml' = toml /\ clock' = clock
  BY DEF Change
<1>2. Types /\ clock \in Nat
  BY DEF IInv, Types
<1>3. PICK h \in [DOMAIN q -> DOMAIN rules] :
        /\ \A k \in DOMAIN q : q[k] = rules[h[k]] /\ rules[h[k]].name # n
        /\ \A k, l \in DOMAIN q : h[k] = h[l] => k = l
  BY <1>2, Deleted
<1> HIDE DEF q
<1>4. \A i \in DOMAIN rules : rules[i] \in Rule
  BY <1>2, LenProperties, ElementOfSeq DEF Types
<1>5. \A k \in DOMAIN q : h[k] \in DOMAIN rules
  BY <1>3
<1>6. \A k \in DOMAIN q : TimesOK(q[k], clock) /\ RingOK(ew, q[k])
  BY <1>2, <1>3, <1>4, <1>5, OutdatedRing DEF RingInv
<1>7. NamedOnce(q)
  BY <1>3, <1>5 DEF RingInv, Named, NamedOnce
<1> HIDE DEF ew
<1> QED
  BY <1>1, <1>6, <1>7
     DEF RingInv, Named, TimesOK, RingOK, Alternates, NewestTells, FiringIsReported,
         FiringsInTime, Firings, Reported, NamedOnce

(* An engine is loaded with an empty ring. *)
LEMMA LoadRing ==
  ASSUME IInv, RingInv, Load
  PROVE  RingInv'
<1> DEFINE q == [i \in DOMAIN toml.rules |-> CompiledRule(toml.rules[i])]
<1>1. rules' = q /\ events' = events /\ toml' = toml /\ clock' = clock /\ events = <<>>
  BY DEF Load, IInv, LockShape
<1>2. /\ DOMAIN q = DOMAIN toml.rules
      /\ \A i \in DOMAIN q : toml.rules[i] \in RuleConfig /\ q[i] = CompiledRule(toml.rules[i])
  BY Loaded DEF IInv
<1> HIDE DEF q
<1>3. clock \in Nat
  BY DEF IInv, Types
<1>4. \A i \in DOMAIN q : /\ q[i].name = toml.rules[i].name /\ ~ q[i].fired
                          /\ q[i].triggered_at = Never /\ q[i].falseAt = clock
  BY <1>2, <1>3, Compiled DEF SameConfig
<1>5. \A i \in DOMAIN q : TimesOK(q[i], clock)
  BY <1>3, <1>4 DEF TimesOK
<1>6. \A m : Reported(<<>>, m) = {}
  BY DEF Reported
<1>7. \A i \in DOMAIN q : RingOK(events, q[i])
  BY <1>1, <1>4, <1>6, RingFresh
<1>8. NamedOnce(q)
  BY <1>2, <1>4 DEF RingInv, Named, NamedOnce
<1> QED
  BY <1>1, <1>5, <1>7, <1>8
     DEF RingInv, Named, TimesOK, RingOK, Alternates, NewestTells, FiringIsReported,
         FiringsInTime, Firings, Reported, NamedOnce

(* Every step of the engine keeps the ring true. *)
LEMMA NextRing == IInv /\ RingInv /\ [AlertsNext]_alertVars => RingInv'
<1> SUFFICES ASSUME IInv, RingInv, [AlertsNext]_alertVars PROVE RingInv'
  OBVIOUS
<1>1. Types /\ NamedOnce(rules) /\ NamedOnce(toml.rules)
  BY DEF IInv, RingInv, Named
<1>2. CASE CollectOutcome
  BY <1>2, CollectRing
<1>3. ASSUME NEW c \in Requests, NEW open \in BOOLEAN, UpsertAlert(c, open) PROVE RingInv'
  <2>1. c \in RuleConfig
    BY AlertsAssumption
  <2> QED
    BY <1>3, <2>1, UpsertRing DEF UpsertAlert
<1>4. ASSUME NEW n \in RuleNames, DeleteAlert(n) PROVE RingInv'
  BY <1>4, DeleteRing DEF DeleteAlert
<1>5. CASE Load
  BY <1>5, LoadRing
<1>6. CASE /\ rules' = rules /\ events' = events /\ clock' \in {clock, clock + 1}
           /\ NamedOnce(toml'.rules)
  <2>1. \A i \in DOMAIN rules : TimesOK(rules[i], clock') /\ RingOK(events, rules[i])
    <3>1. clock \in Nat /\ \A i \in DOMAIN rules : rules[i] \in Rule
      BY <1>1, LenProperties, ElementOfSeq DEF Types
    <3>2. \A i \in DOMAIN rules : rules[i].falseAt \in Nat /\ TimesOK(rules[i], clock)
                                  /\ RingOK(events, rules[i])
      BY <3>1 DEF RingInv, Rule
    <3> QED
      BY <1>6, <3>1, <3>2 DEF TimesOK
  <2> QED
    BY <1>1, <1>6, <2>1
       DEF RingInv, Named, TimesOK, RingOK, Alternates, NewestTells, FiringIsReported,
           FiringsInTime, Firings, Reported, NamedOnce
<1>7. ASSUME NEW s \in Sensors, NEW v \in {"low", "high"}, OnSample(s, v) PROVE RingInv'
  BY <1>1, <1>6, <1>7 DEF OnSample
<1>8. CASE SaveOpens
  <2>1. NamedOnce(<<>>)
    BY DEF NamedOnce
  <2> QED
    BY <1>6, <1>8, <2>1 DEF SaveOpens
<1>9. CASE SaveWrites
  BY <1>1, <1>6, <1>9, Written DEF SaveWrites
<1>10. CASE SaveFails
  BY <1>1, <1>6, <1>10, Written DEF SaveFails
<1>11. CASE ToggleOff \/ Crash
  <2>1. rules' = <<>> /\ (toml' = toml \/ toml' \in Torn)
    BY <1>11 DEF ToggleOff, Crash
  <2>2. NamedOnce(toml'.rules)
    BY <1>1, <2>1, Written
  <2> QED
    BY <2>1, <2>2 DEF RingInv, Named, NamedOnce
<1>12. CASE PostEnds \/ Tick \/ UNCHANGED alertVars
  BY <1>1, <1>6, <1>12 DEF PostEnds, Tick, alertVars
<1> QED
  BY <1>2, <1>3, <1>4, <1>5, <1>7, <1>8, <1>9, <1>10, <1>11, <1>12 DEF AlertsNext

-----------------------------------------------------------------------------
(* The theorems.                                                            *)

(* The invariant holds in every reachable state. *)
LEMMA Invariant == AlertsSpec => []IInv
<1>1. AlertsInit => IInv
  BY InitInv
<1>2. IInv /\ [AlertsNext]_alertVars => IInv'
  BY NextInv
<1> QED
  BY <1>1, <1>2, PTL DEF AlertsSpec

(* Rules, ring, lock and file of the alert engine are well typed. *)
THEOREM TypeCorrect == AlertsSpec => []Types
<1>1. IInv => Types
  BY DEF IInv
<1> QED
  BY <1>1, Invariant, PTL

(* An evaluation's outcome is applied, by its index, to the very rule it was *)
(* computed for: on_sample gives the engine lock up in between, and requests *)
(* reorder the rules only under the scheduler mutex that tick_commit holds.  *)
THEOREM OutcomesAlwaysMeetTheirRules == AlertsSpec => []OutcomesMeetTheirRules
<1>1. IInv => OutcomesMeetTheirRules
  BY DEF IInv
<1> QED
  BY <1>1, Invariant, PTL

(* Between requests alerts.toml says what the engine has, up to what         *)
(* format_duration cuts off, unless the last save failed.                    *)
THEOREM FileAlwaysFollowsRules == AlertsSpec => []FileFollowsRules
<1>1. IInv => FileFollowsRules
  BY DEF IInv, FileSound, FileFollowsRules
<1> QED
  BY <1>1, Invariant, PTL

(* Whatever happens to the rules, the ring of recent events tells the truth  *)
(* about those that are there now: events alternate, the newest one says     *)
(* whether the rule fires, no firing came before its `for` was over, and no  *)
(* two came within the cooldown.                                             *)
THEOREM RingAlwaysTrue ==
  ASSUME FilesNameRulesOnce
  PROVE  AlertsSpec => []RingTellsTheTruth
<1>1. AlertsInit => RingInv
  <2> SUFFICES ASSUME AlertsInit PROVE RingInv
    OBVIOUS
  <2>1. NamedOnce(toml.rules)
    BY DEF AlertsInit, FilesNameRulesOnce
  <2> QED
    BY <2>1 DEF AlertsInit, RingInv, Named, NamedOnce
<1>2. IInv /\ RingInv /\ [AlertsNext]_alertVars => RingInv'
  BY NextRing
<1>3. IInv /\ RingInv => RingTellsTheTruth
  <2> SUFFICES ASSUME IInv, RingInv, NEW r \in ToSet(rules)
               PROVE  LET R == Reports(r.name)
                          F == {i \in R : events[i].kind = "fired"}
                      IN  /\ \A i \in R : NextReport(r.name, i) # {} =>
                                 events[i].kind # events[Min(NextReport(r.name, i))].kind
                          /\ R # {} => (r.fired <=> events[Min(R)].kind = "fired")
                          /\ r.fired /\ Len(events) < EventCapacity => R # {}
                          /\ \A i \in F : events[i].quiet >= r.for
                          /\ \A i, j \in F : i < j => events[i].ts - events[j].ts >= r.cooldown
    BY DEF RingTellsTheTruth
  <2> DEFINE R == Reported(events, r.name)
  <2>1. Reports(r.name) = R
    BY DEF Reports, Reported
  <2>2. RingOK(events, r)
    BY DEF RingInv, ToSet
  <2>3. R \in SUBSET Nat
    <3>1. DOMAIN events = 1..Len(events) /\ Len(events) \in Nat
      BY LenProperties DEF IInv, Types
    <3> QED
      BY <3>1 DEF Reported
  <2>4. ASSUME NEW i \in R, NextReport(r.name, i) # {}
        PROVE  events[i].kind # events[Min(NextReport(r.name, i))].kind
    <3> DEFINE N == NextReport(r.name, i)
               j == Min(N)
    <3>1. N = {k \in R : k > i}
      BY <2>1 DEF NextReport
    <3>2. N \in SUBSET Nat /\ N # {}
      BY <2>3, <2>4, <3>1
    <3> HIDE DEF N
    <3>3. j \in N /\ \A k \in N : j <= k
      BY <3>2, Least
    <3> HIDE DEF j
    <3>4. j \in R /\ i < j /\ i \in Nat /\ j \in Nat
      BY <2>3, <3>1, <3>3
    <3>5. \A k \in R : ~ (i < k /\ k < j)
      BY <2>3, <3>1, <3>3, <3>4
    <3> QED
      BY <2>2, <3>4, <3>5 DEF RingOK, Alternates, j, N
  <2>5. R # {} => (r.fired <=> events[Min(R)].kind = "fired")
    BY <2>2, <2>3, Least DEF RingOK, NewestTells
  <2> QED
    BY <2>1, <2>2, <2>4, <2>5 DEF RingOK, FiringIsReported, FiringsInTime, Firings
<1> QED
  BY <1>1, <1>2, <1>3, Invariant, PTL DEF AlertsSpec

-----------------------------------------------------------------------------
(***************************************************************************)
(* History                                                                 *)
(***************************************************************************)

-----------------------------------------------------------------------------
(* The inductive invariant.                                                 *)

(* What every action leaves well typed. *)
HistoryTypes ==
    /\ spawned \in 0 .. MaxWriters
    /\ {history, event_writer, runtime_writer} \subseteq 0 .. spawned
    /\ engine \in BOOLEAN
    /\ writers \subseteq 1 .. spawned
    /\ channel \in [Writers -> Seq(Record)]
    /\ pending \in [Writers -> Seq(Record)]
    /\ rows \subseteq Record
    /\ wall \in 0 .. MaxWall
    /\ sent \in 0 .. MaxRecords
    /\ failures \in Nat

(* A handle is to a writer thread that runs: nothing can be sent to one that *)
(* has ended.                                                                *)
HandlesAreLive == {history, event_writer, runtime_writer} \ {0} \subseteq writers

(* Which writer the alert engine has, and that it has none when it is off.   *)
EngineWired == event_writer = IF engine THEN history ELSE 0

HistoryInv == HistoryTypes /\ HandlesAreLive /\ EngineWired

-----------------------------------------------------------------------------
(* Facts about the operators of the writer.                                 *)

(* A record has a row of its key and time in table T. *)
HasRow(r, T) == \E q \in T : SameRow(q, r)

LEMMA Greatest ==
  ASSUME NEW n \in Nat, NEW S \in SUBSET (1 .. n), S # {}
  PROVE  \E m \in S : \A k \in S : k <= m
<1> DEFINE R == OpToRel(<, Nat)
           D == {n - k : k \in S}
<1>1. \A x, y \in Nat : <<y, x>> \in R <=> y < x
  BY DEF OpToRel
<1>2. IsWellFoundedOn(R, Nat)
  BY NatLessThanWellFounded
<1>3. D \subseteq Nat /\ D # {}
  <2>1. \A k \in S : n - k \in Nat
    OBVIOUS
  <2> QED
    BY <2>1, Zenon
<1> HIDE DEF R
<1>4. PICK x \in D : \A y \in D : ~ (<<y, x>> \in R)
  BY <1>2, <1>3, WFMin
<1>5. PICK m \in S : x = n - m
  BY <1>4
<1>6. \A k \in S : k <= m
  <2> SUFFICES ASSUME NEW k \in S PROVE k <= m
    OBVIOUS
  <2>1. n - k \in D /\ n - k \in Nat /\ x \in Nat
    BY <1>3, <1>4
  <2>2. ~ (n - k < x)
    BY <1>1, <1>4, <2>1
  <2> QED
    BY <1>5, <2>2
<1> QED
  BY <1>5, <1>6

(* INSERT OR REPLACE leaves a row for everything that was there and for     *)
(* everything that is inserted.                                             *)
LEMMA InsertedKeeps ==
  ASSUME NEW table, NEW batch \in Seq(Record), NEW r \in table \cup ToSet(batch)
  PROVE  HasRow(r, Inserted(table, batch))
<1> DEFINE n == Len(batch)
<1>1. n \in Nat /\ DOMAIN batch = 1 .. n /\ ToSet(batch) = {batch[i] : i \in 1 .. n}
  BY DEF ToSet
<1> HIDE DEF n
<1> DEFINE S == {i \in 1 .. n : SameRow(batch[i], r)}
<1>2. CASE S = {}
  <2>1. \A i \in 1 .. n : batch[i] # r
    BY <1>2 DEF SameRow
  <2>2. r \in table /\ \A i \in 1 .. n : ~ SameRow(r, batch[i])
    BY <1>1, <1>2, <2>1 DEF SameRow
  <2>3. r \in Inserted(table, batch)
    BY <1>1, <2>2 DEF Inserted
  <2> QED
    BY <2>3 DEF HasRow, SameRow
<1>3. CASE S # {}
  <2>1. PICK m \in S : \A k \in S : k <= m
    BY <1>1, <1>3, Greatest
  <2>2. m \in 1 .. n /\ SameRow(batch[m], r)
    BY <2>1
  <2>3. \A h \in 1 .. n : h > m => ~ SameRow(batch[h], batch[m])
    <3> SUFFICES ASSUME NEW h \in 1 .. n, h > m, SameRow(batch[h], batch[m]) PROVE FALSE
      OBVIOUS
    <3>1. h \in S
      BY <2>2 DEF SameRow
    <3>2. h <= m
      BY <2>1, <3>1
    <3> QED
      BY <1>1, <2>2, <3>2
  <2>4. batch[m] \in Inserted(table, batch)
    BY <1>1, <2>2, <2>3 DEF Inserted
  <2> QED
    BY <2>2, <2>4 DEF HasRow
<1> QED
  BY <1>2, <1>3

LEMMA InsertedType ==
  ASSUME NEW table \in SUBSET Record, NEW batch \in Seq(Record)
  PROVE  Inserted(table, batch) \in SUBSET Record
BY DEF Inserted

LEMMA InsertedKeepsRow ==
  ASSUME NEW table, NEW batch \in Seq(Record), NEW r, HasRow(r, table)
  PROVE  HasRow(r, Inserted(table, batch))
<1>1. PICK q \in table : SameRow(q, r)
  BY DEF HasRow
<1>2. HasRow(q, Inserted(table, batch))
  BY InsertedKeeps
<1> QED
  BY <1>1, <1>2 DEF HasRow, SameRow

LEMMA CutoffType ==
  ASSUME HistoryTypes PROVE cutoff \in Nat
BY HistoryAssumption DEF HistoryTypes, cutoff

-----------------------------------------------------------------------------
LEMMA AppendedSet ==
  ASSUME NEW T, NEW s \in Seq(T), NEW x \in T
  PROVE  ToSet(Append(s, x)) = ToSet(s) \cup {x}
<1> DEFINE n == Len(s)
<1>1. n \in Nat /\ DOMAIN s = 1 .. n
  OBVIOUS
<1>2. DOMAIN Append(s, x) = 1 .. (n + 1)
  OBVIOUS
<1>3. \A i \in 1 .. n : Append(s, x)[i] = s[i]
  OBVIOUS
<1>4. Append(s, x)[n + 1] = x
  OBVIOUS
<1> HIDE DEF n
<1>5. 1 .. (n + 1) = (1 .. n) \cup {n + 1}
  BY <1>1
<1> DEFINE l == Append(s, x)
           R == 1 .. n
           m == n + 1
<1>6. DOMAIN l = R \cup {m} /\ DOMAIN s = R /\ l[m] = x /\ \A i \in R : l[i] = s[i]
  BY <1>1, <1>2, <1>3, <1>4, <1>5
<1> HIDE DEF l, R, m
<1>7. ToSet(l) = ToSet(s) \cup {x}
  BY <1>6 DEF ToSet
<1> QED
  BY <1>7 DEF l

LEMMA TakenSet ==
  ASSUME NEW T, NEW s \in Seq(T), s # <<>>
  PROVE  /\ Head(s) \in T /\ Tail(s) \in Seq(T)
         /\ ToSet(s) = ToSet(Tail(s)) \cup {Head(s)}
<1> DEFINE n == Len(s)
<1>1. n \in Nat \ {0} /\ DOMAIN s = 1 .. n
  OBVIOUS
<1>2. Head(s) = s[1] /\ Head(s) \in T /\ Tail(s) \in Seq(T)
  OBVIOUS
<1>3. DOMAIN Tail(s) = 1 .. (n - 1)
  OBVIOUS
<1>4. \A i \in 1 .. (n - 1) : Tail(s)[i] = s[i + 1]
  OBVIOUS
<1> HIDE DEF n
<1>5. \A i \in 1 .. n : i = 1 \/ (i - 1 \in 1 .. (n - 1) /\ (i - 1) + 1 = i)
  BY <1>1
<1>6. \A i \in 1 .. (n - 1) : i + 1 \in 1 .. n
  BY <1>1
<1>7. 1 \in 1 .. n
  BY <1>1
<1>8. ToSet(s) \subseteq ToSet(Tail(s)) \cup {Head(s)}
  <2> SUFFICES ASSUME NEW i \in 1 .. n PROVE s[i] \in ToSet(Tail(s)) \cup {Head(s)}
    BY <1>1, Zenon DEF ToSet
  <2>1. CASE i = 1
    BY <1>2, <2>1
  <2>2. CASE i - 1 \in 1 .. (n - 1) /\ (i - 1) + 1 = i
    <3>1. s[i] = Tail(s)[i - 1]
      BY <1>4, <2>2
    <3> QED
      BY <1>3, <2>2, <3>1 DEF ToSet
  <2> QED
    BY <1>5, <2>1, <2>2
<1>9. ToSet(Tail(s)) \subseteq ToSet(s) /\ Head(s) \in ToSet(s)
  BY <1>1, <1>2, <1>3, <1>4, <1>6, <1>7, Zenon DEF ToSet
<1> QED
  BY <1>2, <1>8, <1>9

(* One turn of the writer's loop.                                           *)

(* What a turn has in its hands. *)
TurnOf(w, got) ==
    /\ w \in Writers
    /\ got = <<>> \/ \E r \in Record : got = <<r>>

Samples(w, got) ==
    IF got # <<>> /\ IsSample(got[1]) THEN Append(pending[w], got[1]) ELSE pending[w]
Happenings(got) == IF got # <<>> /\ IsEvent(got[1]) THEN got ELSE <<>>
Flushes(w, got, due) ==
    Samples(w, got) # <<>> /\ (due \/ Len(Samples(w, got)) >= MaxBatch)
One(w, got, due, fails) ==
    IF Flushes(w, got, due) /\ "samples" \notin fails
    THEN Inserted(rows, Samples(w, got)) ELSE rows
Two(w, got, due, fails) ==
    IF "events" \notin fails THEN Inserted(One(w, got, due, fails), Happenings(got))
    ELSE One(w, got, due, fails)

LEMMA TurnHands ==
  ASSUME HistoryTypes, NEW w, NEW got, TurnOf(w, got)
  PROVE  /\ Samples(w, got) \in Seq(Record)
         /\ Happenings(got) \in Seq(Record)
         /\ ToSet(pending[w]) \cup ToSet(got) \subseteq
                ToSet(Samples(w, got)) \cup ToSet(Happenings(got))
<1>1. pending[w] \in Seq(Record)
  BY DEF HistoryTypes, TurnOf
<1>2. CASE got = <<>>
  BY <1>1, <1>2 DEF Samples, Happenings, ToSet
<1>3. ASSUME NEW r \in Record, got = <<r>>
      PROVE  /\ Samples(w, got) \in Seq(Record)
             /\ Happenings(got) \in Seq(Record)
             /\ ToSet(pending[w]) \cup ToSet(got) \subseteq
                    ToSet(Samples(w, got)) \cup ToSet(Happenings(got))
  <2>1. got # <<>> /\ got[1] = r /\ got \in Seq(Record) /\ ToSet(got) = {r}
    BY <1>3 DEF ToSet
  <2>2. CASE IsSample(r)
    <3>1. Samples(w, got) = Append(pending[w], r) /\ Happenings(got) = <<>>
      BY <2>1, <2>2 DEF Samples, Happenings, IsSample, IsEvent
    <3>2. ToSet(Append(pending[w], r)) = ToSet(pending[w]) \cup {r}
      BY <1>1, <1>3, AppendedSet
    <3>3. Append(pending[w], r) \in Seq(Record) /\ <<>> \in Seq(Record)
      BY <1>1, <1>3
    <3> QED
      BY <2>1, <3>1, <3>2, <3>3, Zenon
  <2>3. CASE ~ IsSample(r)
    <3>1. Samples(w, got) = pending[w] /\ Happenings(got) = got
      BY <2>1, <2>3 DEF Samples, Happenings, IsSample, IsEvent
    <3> QED
      BY <1>1, <2>1, <3>1, Zenon
  <2> QED
    BY <2>2, <2>3
<1> QED
  BY <1>2, <1>3 DEF TurnOf

LEMMA TurnIs ==
  ASSUME NEW w, NEW got, NEW due, NEW fails, NEW prune, Turn(w, got, due, fails, prune)
  PROVE  /\ fails # {} => failures < MaxFailures
         /\ failures' = IF fails = {} THEN failures ELSE failures + 1
         /\ pending' = [pending EXCEPT ![w] = IF Flushes(w, got, due) THEN <<>>
                                              ELSE Samples(w, got)]
         /\ rows' = IF prune THEN prune_older_than(Two(w, got, due, fails))
                    ELSE Two(w, got, due, fails)
BY Zenon DEF Turn, Flushes, Samples, Happenings, One, Two

LEMMA TurnTypes ==
  ASSUME HistoryTypes, NEW w, NEW got, NEW due, NEW fails, NEW prune,
         TurnOf(w, got), Turn(w, got, due, fails, prune)
  PROVE  /\ pending' \in [Writers -> Seq(Record)]
         /\ rows' \subseteq Record
         /\ failures' \in Nat
<1>1. Samples(w, got) \in Seq(Record) /\ Happenings(got) \in Seq(Record)
  BY TurnHands
<1>2. pending' \in [Writers -> Seq(Record)]
  <2> DEFINE v == IF Flushes(w, got, due) THEN <<>> ELSE Samples(w, got)
  <2>1. v \in Seq(Record)
    BY <1>1
  <2>2. pending' = [pending EXCEPT ![w] = v]
    BY TurnIs, Zenon
  <2> HIDE DEF v
  <2> QED
    BY <2>1, <2>2 DEF HistoryTypes
<1>3. failures' \in Nat
  BY TurnIs DEF HistoryTypes
<1>4. One(w, got, due, fails) \in SUBSET Record
  BY <1>1, InsertedType DEF One, HistoryTypes
<1>5. Two(w, got, due, fails) \in SUBSET Record
  BY <1>1, <1>4, InsertedType DEF Two
<1>6. rows' \subseteq Record
  BY <1>5, TurnIs DEF prune_older_than
<1> QED
  BY <1>2, <1>3, <1>6

(* A turn in which nothing fails gives every record in its hands, and every *)
(* row, a place: with the writer, in the table, or too old for it.          *)
LEMMA TurnKeeps ==
  ASSUME HistoryTypes, NEW w, NEW got, NEW due, NEW fails, NEW prune,
         TurnOf(w, got), Turn(w, got, due, fails, prune), failures' = failures,
         NEW r \in rows \cup ToSet(pending[w]) \cup ToSet(got)
  PROVE  \/ ~ Flushes(w, got, due) /\ r \in ToSet(pending'[w])
         \/ r.ts < cutoff
         \/ HasRow(r, rows')
<1> DEFINE one == One(w, got, due, fails)
           two == Two(w, got, due, fails)
<1>1. fails = {}
  BY TurnIs DEF HistoryTypes
<1>2. Samples(w, got) \in Seq(Record) /\ Happenings(got) \in Seq(Record)
  BY TurnHands
<1>3. r \in rows \/ r \in ToSet(Samples(w, got)) \/ r \in ToSet(Happenings(got))
  BY TurnHands
<1>4. CASE ~ Flushes(w, got, due) /\ r \in ToSet(Samples(w, got))
  BY <1>4, TurnIs DEF HistoryTypes, TurnOf
<1>5. ASSUME HasRow(r, two)
      PROVE  r.ts < cutoff \/ HasRow(r, rows')
  <2>1. PICK q \in two : SameRow(q, r)
    BY <1>5 DEF HasRow
  <2>2. two \in SUBSET Record
    <3>1. one \in SUBSET Record
      BY <1>2, InsertedType DEF One, HistoryTypes
    <3> QED
      BY <1>2, <3>1, InsertedType DEF Two
  <2>3. q.ts \in Int /\ cutoff \in Int
    BY <2>2, CutoffType, HistoryAssumption DEF Record
  <2>4. q.ts = r.ts
    BY <2>1 DEF SameRow
  <2>5. CASE r.ts < cutoff
    BY <2>5
  <2>6. CASE q.ts >= cutoff
    <3>1. q \in rows'
      BY <2>6, TurnIs DEF prune_older_than
    <3> QED
      BY <2>1, <3>1 DEF HasRow
  <2> QED
    BY <2>3, <2>4, <2>5, <2>6
<1>6. CASE r \in ToSet(Happenings(got))
  <2>1. HasRow(r, two)
    BY <1>1, <1>2, <1>6, InsertedKeeps DEF Two
  <2> QED
    BY <1>5, <2>1
<1>7. CASE r \in rows \/ (Flushes(w, got, due) /\ r \in ToSet(Samples(w, got)))
  <2>1. HasRow(r, one)
    <3>1. CASE Flushes(w, got, due)
      BY <1>1, <1>2, <1>7, <3>1, InsertedKeeps DEF One
    <3>2. CASE ~ Flushes(w, got, due)
      BY <1>7, <3>2 DEF One, HasRow, SameRow
    <3> QED
      BY <3>1, <3>2
  <2>2. HasRow(r, two)
    BY <1>1, <1>2, <2>1, InsertedKeepsRow DEF Two
  <2> QED
    BY <1>5, <2>2
<1> QED
  BY <1>3, <1>4, <1>6, <1>7

-----------------------------------------------------------------------------
(* The invariant is inductive.                                              *)

LEMMA HistoryInitInv == HistoryInit => HistoryInv
<1> SUFFICES ASSUME HistoryInit PROVE HistoryInv
  OBVIOUS
<1>1. <<>> \in Seq(Record)
  OBVIOUS
<1>2. HistoryTypes
  <2>1. channel \in [Writers -> Seq(Record)] /\ pending \in [Writers -> Seq(Record)]
    BY <1>1 DEF HistoryInit
  <2>2. history \in {0, 1} /\ spawned = history /\ runtime_writer = history
        /\ event_writer \in {0, history} /\ 1 <= MaxWriters /\ MaxWriters \in Nat
    BY HistoryAssumption DEF HistoryInit
  <2>3. spawned \in 0 .. MaxWriters
    BY <2>2
  <2>4. {history, event_writer, runtime_writer} \subseteq 0 .. spawned
    BY <2>2
  <2>5. writers \subseteq 1 .. spawned
    BY <2>2 DEF HistoryInit
  <2>6. wall \in 0 .. MaxWall /\ sent \in 0 .. MaxRecords /\ failures \in Nat
        /\ rows \subseteq Record /\ engine \in BOOLEAN
    BY HistoryAssumption DEF HistoryInit
  <2> QED
    BY <2>1, <2>3, <2>4, <2>5, <2>6 DEF HistoryTypes
<1>3. HandlesAreLive /\ EngineWired
  BY DEF HistoryInit, HandlesAreLive, EngineWired
<1> QED
  BY <1>2, <1>3 DEF HistoryInv

LEMMA SendType ==
  ASSUME HistoryTypes, NEW w \in Writers, NEW r \in Record, send(w, r)
  PROVE  channel' \in [Writers -> Seq(Record)]
<1>1. channel[w] \in Seq(Record)
  BY DEF HistoryTypes
<1>2. Append(channel[w], r) \in Seq(Record)
  BY <1>1
<1>3. channel' = channel \/ channel' = [channel EXCEPT ![w] = Append(channel[w], r)]
  BY Zenon DEF send
<1> QED
  BY <1>2, <1>3 DEF HistoryTypes

LEMMA RecordMade ==
  ASSUME HistoryTypes, sent < MaxRecords, NEW k \in Keys \cup {EventKey}
  PROVE  /\ sent + 1 \in 0 .. MaxRecords
         /\ [id |-> sent + 1, key |-> k, ts |-> wall] \in Record
<1>1. sent + 1 \in 1 .. MaxRecords /\ wall \in 0 .. MaxWall
  BY HistoryAssumption DEF HistoryTypes
<1> QED
  BY <1>1 DEF Record

(* What a writer holds in its hands when it takes a turn. *)
LEMMA ReceivedTurn ==
  ASSUME HistoryTypes, NEW w \in Writers, channel[w] # <<>>
  PROVE  /\ channel[w] \in Seq(Record)
         /\ TurnOf(w, <<Head(channel[w])>>)
         /\ ToSet(<<Head(channel[w])>>) = {Head(channel[w])}
         /\ Tail(channel[w]) \in Seq(Record)
<1>1. channel[w] \in Seq(Record)
  BY DEF HistoryTypes
<1>2. Head(channel[w]) \in Record /\ Tail(channel[w]) \in Seq(Record)
  BY <1>1, TakenSet
<1>3. TurnOf(w, <<Head(channel[w])>>)
  BY <1>2 DEF TurnOf
<1>4. ToSet(<<Head(channel[w])>>) = {Head(channel[w])}
  BY <1>2 DEF ToSet
<1> QED
  BY <1>1, <1>2, <1>3, <1>4

LEMMA HistoryStepInv == HistoryInv /\ [HistoryNext]_historyVars => HistoryInv'
<1> SUFFICES ASSUME HistoryInv, [HistoryNext]_historyVars PROVE HistoryInv'
  OBVIOUS
<1> USE DEF HistoryInv
<1>0. /\ MaxWriters \in Nat /\ spawned \in 0 .. MaxWriters
      /\ \A w \in 1 .. spawned : w \in Writers
  BY HistoryAssumption DEF HistoryTypes, Writers
<1>1. ASSUME NEW k \in Keys, RecordSample(k) PROVE HistoryInv'
  <2>1. history \in Writers
    BY <1>0, <1>1 DEF RecordSample, HistoryTypes, HandlesAreLive
  <2>2. sent' \in 0 .. MaxRecords /\ [id |-> sent', key |-> k, ts |-> wall] \in Record
    BY <1>1, RecordMade DEF RecordSample
  <2>3. channel' \in [Writers -> Seq(Record)]
    BY <1>1, <2>1, <2>2, SendType DEF RecordSample
  <2> QED
    BY <1>1, <2>2, <2>3 DEF RecordSample, HistoryTypes, HandlesAreLive, EngineWired
<1>2. CASE RecordEvent
  <2>1. event_writer \in Writers
    BY <1>0, <1>2 DEF RecordEvent, HistoryTypes, HandlesAreLive
  <2>2. sent' \in 0 .. MaxRecords /\ [id |-> sent', key |-> EventKey, ts |-> wall] \in Record
    BY <1>2, RecordMade DEF RecordEvent
  <2>3. channel' \in [Writers -> Seq(Record)]
    BY <1>2, <2>1, <2>2, SendType DEF RecordEvent
  <2> QED
    BY <1>2, <2>2, <2>3 DEF RecordEvent, HistoryTypes, HandlesAreLive, EngineWired
<1>3. ASSUME NEW w \in Writers, WriterReceives(w) PROVE HistoryInv'
  <2>1. PICK due \in BOOLEAN, prune \in BOOLEAN, fails \in SUBSET {"samples", "events"} :
           Turn(w, <<Head(channel[w])>>, due, fails, prune)
    BY <1>3 DEF WriterReceives
  <2>2. TurnOf(w, <<Head(channel[w])>>) /\ Tail(channel[w]) \in Seq(Record)
    BY <1>3, ReceivedTurn DEF WriterReceives
  <2>3. /\ pending' \in [Writers -> Seq(Record)]
        /\ rows' \subseteq Record
        /\ failures' \in Nat
    BY <2>1, <2>2, TurnTypes
  <2>4. channel' \in [Writers -> Seq(Record)]
    BY <1>3, <2>2 DEF WriterReceives, HistoryTypes
  <2> QED
    BY <1>3, <2>3, <2>4 DEF WriterReceives, HistoryTypes, HandlesAreLive, EngineWired
<1>4. ASSUME NEW w \in Writers, WriterTimesOut(w) PROVE HistoryInv'
  <2>1. PICK prune \in BOOLEAN, fails \in SUBSET {"samples"} :
           Turn(w, <<>>, TRUE, fails, prune)
    BY <1>4 DEF WriterTimesOut
  <2>2. /\ pending' \in [Writers -> Seq(Record)]
        /\ rows' \subseteq Record
        /\ failures' \in Nat
    BY <2>1, TurnTypes DEF TurnOf
  <2> QED
    BY <1>4, <2>2 DEF WriterTimesOut, HistoryTypes, HandlesAreLive, EngineWired
<1>5. ASSUME NEW w \in Writers, WriterEnds(w) PROVE HistoryInv'
  <2>1. PICK fails \in SUBSET {"samples"} : Turn(w, <<>>, TRUE, fails, FALSE)
    BY <1>5 DEF WriterEnds
  <2>2. /\ pending' \in [Writers -> Seq(Record)]
        /\ rows' \subseteq Record
        /\ failures' \in Nat
    BY <2>1, TurnTypes DEF TurnOf
  <2> QED
    BY <1>5, <2>2 DEF WriterEnds, Referenced, HistoryTypes, HandlesAreLive, EngineWired
<1>6. CASE toggle_history_on
  <2>1. spawned' \in 0 .. MaxWriters /\ spawned' = spawned + 1 /\ spawned \in Nat
    BY <1>0, <1>6 DEF toggle_history_on
  <2>2. {history', event_writer', runtime_writer'} \subseteq {0, spawned', runtime_writer}
        /\ runtime_writer \in 0 .. spawned
    BY <1>6 DEF toggle_history_on, HistoryTypes, EngineWired
  <2>3. writers' \subseteq 1 .. spawned'
    BY <1>6, <2>1 DEF toggle_history_on, HistoryTypes
  <2>4. {history', event_writer', runtime_writer'} \subseteq 0 .. spawned'
    BY <2>1, <2>2
  <2>5. HistoryTypes'
    BY <1>6, <2>1, <2>3, <2>4 DEF toggle_history_on, HistoryTypes
  <2>6. HandlesAreLive'
    BY <1>6, <2>2 DEF toggle_history_on, HandlesAreLive
  <2>7. EngineWired'
    BY <1>6 DEF toggle_history_on, EngineWired
  <2> QED
    BY <2>5, <2>6, <2>7
<1>7. CASE toggle_history_off
  <2>1. HistoryTypes'
    BY <1>0, <1>7 DEF toggle_history_off, HistoryTypes
  <2> QED
    BY <1>7, <2>1 DEF toggle_history_off, HandlesAreLive, EngineWired
<1>8. CASE toggle_alerts_on
  BY <1>8 DEF toggle_alerts_on, HistoryTypes, HandlesAreLive, EngineWired
<1>9. CASE toggle_alerts_off
  <2>1. 0 \in 0 .. spawned
    BY <1>0
  <2>2. HistoryTypes'
    BY <1>9, <2>1 DEF toggle_alerts_off, HistoryTypes
  <2> QED
    BY <1>9, <2>2 DEF toggle_alerts_off, HandlesAreLive, EngineWired
<1>10. CASE Restart
  <2>1. spawned' \in 0 .. MaxWriters /\ spawned' = spawned + 1 /\ spawned \in Nat
    BY <1>0, <1>10 DEF Restart
  <2>2. {history', event_writer', runtime_writer'} \subseteq {0, spawned'}
        /\ engine' \in BOOLEAN /\ EngineWired'
    BY <1>10 DEF Restart, EngineWired
  <2>3. channel' \in [Writers -> Seq(Record)] /\ pending' \in [Writers -> Seq(Record)]
    <3>1. <<>> \in Seq(Record)
      OBVIOUS
    <3> QED
      BY <1>10, <3>1 DEF Restart
  <2>4. failures' \in Nat
    BY <1>10 DEF Restart, HistoryTypes
  <2>5. {history', event_writer', runtime_writer'} \subseteq 0 .. spawned'
        /\ writers' \subseteq 1 .. spawned'
    BY <1>10, <2>1, <2>2 DEF Restart
  <2>6. HistoryTypes'
    BY <1>10, <2>1, <2>2, <2>3, <2>4, <2>5 DEF Restart, HistoryTypes
  <2>7. HandlesAreLive'
    BY <1>10, <2>2 DEF Restart, HandlesAreLive
  <2> QED
    BY <2>2, <2>6, <2>7
<1>11. CASE WallClock
  <2>1. wall' \in 0 .. MaxWall
    <3>1. MaxWall \in Nat
      BY HistoryAssumption
    <3>2. wall \in 0 .. MaxWall
      BY DEF HistoryTypes
    <3> QED
      BY <1>11, <3>1, <3>2 DEF WallClock
  <2> QED
    BY <1>11, <2>1 DEF WallClock, HistoryTypes, HandlesAreLive, EngineWired
<1>12. CASE UNCHANGED historyVars
  BY <1>12 DEF historyVars, HistoryTypes, HandlesAreLive, EngineWired
<1> QED
  BY <1>1, <1>2, <1>3, <1>4, <1>5, <1>6, <1>7, <1>8, <1>9, <1>10, <1>11, <1>12
     DEF HistoryNext

LEMMA HistoryInvHolds == HistorySpec => []HistoryInv
BY HistoryInitInv, HistoryStepInv, PTL DEF HistorySpec

(***************************************************************************)
(* Whatever order history and alerts are switched on and off in, and        *)
(* however often the daemon restarts, an engine that is on has the writer   *)
(* the scheduler has (scheduler.rs, toggle_history and toggle_alerts).      *)
(***************************************************************************)
THEOREM EventsFollowSamples == HistorySpec => []EventWriterInSync
<1>1. HistoryInv => EventWriterInSync
  BY DEF HistoryInv, EngineWired, EventWriterInSync
<1> QED
  BY <1>1, HistoryInvHolds, PTL

-----------------------------------------------------------------------------
(* No record is lost in silence.                                            *)

(* Record r has a place after the step. *)
StillHasPlace(r) ==
    \/ r \in (InFlight \cup rows)'
    \/ r.ts < cutoff
    \/ \E q \in rows' : q.key = r.key /\ q.ts = r.ts

LEMMA InFlightIs ==
  ASSUME NEW r
  PROVE  /\ r \in InFlight <=>
              \E w \in writers : r \in ToSet(channel[w]) \/ r \in ToSet(pending[w])
         /\ r \in InFlight' <=>
              \E w \in writers' : r \in ToSet(channel'[w]) \/ r \in ToSet(pending'[w])
<1>1. r \in InFlight <=>
              \E w \in writers : r \in ToSet(channel[w]) \/ r \in ToSet(pending[w])
  BY DEF InFlight
<1>2. r \in InFlight' <=>
              \E w \in writers' : r \in ToSet(channel'[w]) \/ r \in ToSet(pending'[w])
  BY DEF InFlight, ToSet
<1> QED
  BY <1>1, <1>2

LEMMA InFlightGrows ==
  ASSUME writers \subseteq writers',
         \A w \in writers : /\ ToSet(channel[w]) \subseteq ToSet(channel'[w])
                            /\ ToSet(pending[w]) \subseteq ToSet(pending'[w])
  PROVE  InFlight \subseteq InFlight'
BY InFlightIs, Zenon

LEMMA SendKeeps ==
  ASSUME HistoryTypes, NEW w \in Writers, NEW r \in Record, send(w, r), NEW v \in Writers
  PROVE  ToSet(channel[v]) \subseteq ToSet(channel'[v])
<1>1. channel[w] \in Seq(Record)
  BY DEF HistoryTypes
<1>2. ToSet(Append(channel[w], r)) = ToSet(channel[w]) \cup {r}
  BY <1>1, AppendedSet
<1>3. channel' = channel \/ channel' = [channel EXCEPT ![w] = Append(channel[w], r)]
  BY Zenon DEF send
<1>4. channel' = channel \/ channel'[v] = channel[v]
      \/ (v = w /\ channel'[v] = Append(channel[w], r))
  BY <1>3 DEF HistoryTypes
<1> QED
  BY <1>2, <1>4, Zenon

(* A turn of writer w that goes on running gives everything a place. *)
LEMMA TurnGivesPlace ==
  ASSUME HistoryTypes, NEW w \in writers, NEW got, NEW due, NEW fails, NEW prune,
         TurnOf(w, got), Turn(w, got, due, fails, prune), failures' = failures,
         \A v \in writers \ {w} : channel'[v] = channel[v] /\ v \in writers',
         ToSet(channel[w]) \subseteq ToSet(got) \cup ToSet(channel'[w]),
         w \in writers' \/ (channel[w] = <<>> /\ got = <<>> /\ due),
         NEW r \in InFlight \cup rows
  PROVE  StillHasPlace(r)
<1>1. /\ writers \subseteq Writers
      /\ pending \in [Writers -> Seq(Record)]
  <2>1. 1 .. spawned \subseteq Writers
    <3>1. MaxWriters \in Nat
      BY HistoryAssumption
    <3> QED
      BY <3>1 DEF HistoryTypes, Writers
  <2> QED
    BY <2>1 DEF HistoryTypes
<1>2. \A v \in writers \ {w} : pending'[v] = pending[v]
  <2>1. \E x : pending' = [pending EXCEPT ![w] = x]
    BY TurnIs, Zenon
  <2> QED
    BY <1>1, <2>1
<1>3. ASSUME r \in rows \cup ToSet(pending[w]) \cup ToSet(got)
      PROVE  StillHasPlace(r)
  <2>1. \/ ~ Flushes(w, got, due) /\ r \in ToSet(pending'[w])
        \/ r.ts < cutoff
        \/ HasRow(r, rows')
    BY <1>3, TurnKeeps
  <2>2. CASE r.ts < cutoff
    BY <2>2 DEF StillHasPlace
  <2>3. CASE HasRow(r, rows')
    BY <2>3 DEF StillHasPlace, HasRow, SameRow
  <2>4. CASE ~ Flushes(w, got, due) /\ r \in ToSet(pending'[w])
    <3>1. CASE w \in writers'
      BY <2>4, <3>1, InFlightIs, Zenon DEF StillHasPlace
    <3>2. CASE got = <<>> /\ due
      <4>1. Samples(w, got) = <<>>
        BY <2>4, <3>2, Zenon DEF Flushes
      <4>2. pending'[w] = <<>>
        BY <1>1, <2>4, <4>1, TurnIs
      <4> QED
        BY <2>4, <4>2 DEF ToSet
    <3> QED
      BY <3>1, <3>2
  <2> QED
    BY <2>1, <2>2, <2>3, <2>4
<1>4. ASSUME NEW v \in writers \ {w}, r \in ToSet(channel[v]) \cup ToSet(pending[v])
      PROVE  StillHasPlace(r)
  BY <1>2, <1>4, InFlightIs, Zenon DEF StillHasPlace
<1>5. ASSUME r \in ToSet(channel'[w]), r \in ToSet(channel[w])
      PROVE  StillHasPlace(r)
  <2>1. w \in writers'
    BY <1>5 DEF ToSet
  <2> QED
    BY <1>5, <2>1, InFlightIs, Zenon DEF StillHasPlace
<1>6. r \in rows \/ \E v \in writers : r \in ToSet(channel[v]) \cup ToSet(pending[v])
  BY InFlightIs, Zenon
<1> QED
  BY <1>3, <1>4, <1>5, <1>6, Zenon

LEMMA NothingLostStep ==
  ASSUME HistoryInv, HistoryNext, failures' = failures, NEW r \in InFlight \cup rows
  PROVE  StillHasPlace(r)
<1> USE DEF HistoryInv
<1>0. /\ writers \subseteq Writers
      /\ channel \in [Writers -> Seq(Record)] /\ pending \in [Writers -> Seq(Record)]
      /\ ToSet(<<>>) = {}
  <2>1. MaxWriters \in Nat
    BY HistoryAssumption
  <2>2. ToSet(<<>>) = {}
    BY DEF ToSet
  <2>3. /\ spawned \in 0..MaxWriters /\ writers \subseteq 1..spawned
        /\ channel \in [Writers -> Seq(Record)] /\ pending \in [Writers -> Seq(Record)]
    BY Zenon DEF HistoryTypes
  <2>4. writers \subseteq Writers
    BY <2>1, <2>3 DEF Writers
  <2> QED
    BY <2>2, <2>3, <2>4
<1>a. ASSUME InFlight \subseteq InFlight', rows' = rows PROVE StillHasPlace(r)
  BY <1>a DEF StillHasPlace
<1>b. ASSUME channel' = channel, pending' = pending, rows' = rows, writers \subseteq writers'
      PROVE  StillHasPlace(r)
  BY <1>a, <1>b, InFlightGrows
<1>1. ASSUME NEW k \in Keys, RecordSample(k) PROVE StillHasPlace(r)
  <2>1. history \in Writers
    BY <1>0, <1>1 DEF RecordSample, HandlesAreLive
  <2>2. [id |-> sent', key |-> k, ts |-> wall] \in Record
    BY <1>1, RecordMade DEF RecordSample
  <2>3. \A v \in writers : ToSet(channel[v]) \subseteq ToSet(channel'[v])
    BY <1>0, <1>1, <2>1, <2>2, SendKeeps DEF RecordSample
  <2> QED
    BY <1>1, <1>a, <2>3, InFlightGrows DEF RecordSample
<1>2. CASE RecordEvent
  <2>1. event_writer \in Writers
    BY <1>0, <1>2 DEF RecordEvent, HandlesAreLive
  <2>2. [id |-> sent', key |-> EventKey, ts |-> wall] \in Record
    BY <1>2, RecordMade DEF RecordEvent
  <2>3. \A v \in writers : ToSet(channel[v]) \subseteq ToSet(channel'[v])
    BY <1>0, <1>2, <2>1, <2>2, SendKeeps DEF RecordEvent
  <2> QED
    BY <1>2, <1>a, <2>3, InFlightGrows DEF RecordEvent
<1>3. ASSUME NEW w \in Writers, WriterReceives(w) PROVE StillHasPlace(r)
  <2> DEFINE got == <<Head(channel[w])>>
  <2>1. PICK due \in BOOLEAN, prune \in BOOLEAN, fails \in SUBSET {"samples", "events"} :
           Turn(w, got, due, fails, prune)
    BY <1>3 DEF WriterReceives
  <2>2. /\ channel[w] \in Seq(Record) /\ channel[w] # <<>>
        /\ TurnOf(w, got) /\ ToSet(got) = {Head(channel[w])}
    BY <1>3, ReceivedTurn DEF WriterReceives
  <2>3. ToSet(channel[w]) = ToSet(Tail(channel[w])) \cup ToSet(got)
    BY <2>2, TakenSet
  <2>4. channel'[w] = Tail(channel[w]) /\ w \in writers /\ writers' = writers
        /\ \A v \in writers \ {w} : channel'[v] = channel[v]
    BY <1>0, <1>3 DEF WriterReceives
  <2> HIDE DEF got
  <2> QED
    BY <2>1, <2>2, <2>3, <2>4, TurnGivesPlace
<1>4. ASSUME NEW w \in Writers, WriterTimesOut(w) PROVE StillHasPlace(r)
  <2>1. PICK prune \in BOOLEAN, fails \in SUBSET {"samples"} :
           Turn(w, <<>>, TRUE, fails, prune)
    BY <1>4 DEF WriterTimesOut
  <2>2. w \in writers /\ writers' = writers /\ channel' = channel /\ TurnOf(w, <<>>)
    BY <1>4 DEF WriterTimesOut, TurnOf
  <2> QED
    BY <1>0, <2>1, <2>2, TurnGivesPlace
<1>5. ASSUME NEW w \in Writers, WriterEnds(w) PROVE StillHasPlace(r)
  <2>1. PICK fails \in SUBSET {"samples"} : Turn(w, <<>>, TRUE, fails, FALSE)
    BY <1>5 DEF WriterEnds
  <2>2. /\ w \in writers /\ writers' = writers \ {w} /\ channel' = channel
        /\ channel[w] = <<>> /\ TurnOf(w, <<>>)
    BY <1>5 DEF WriterEnds, TurnOf
  <2> QED
    BY <1>0, <2>1, <2>2, TurnGivesPlace
<1>6. CASE toggle_history_on
  BY <1>6, <1>b DEF toggle_history_on
<1>7. CASE toggle_history_off
  BY <1>7, <1>b DEF toggle_history_off
<1>8. CASE toggle_alerts_on
  BY <1>8, <1>b DEF toggle_alerts_on
<1>9. CASE toggle_alerts_off
  BY <1>9, <1>b DEF toggle_alerts_off
<1>10. CASE Restart
  BY <1>10 DEF Restart, HistoryTypes
<1>11. CASE WallClock
  BY <1>11, <1>b DEF WallClock
<1> QED
  BY <1>1, <1>2, <1>3, <1>4, <1>5, <1>6, <1>7, <1>8, <1>9, <1>10, <1>11 DEF HistoryNext

(***************************************************************************)
(* A record accepted by a channel stays with a writer that runs, or in the  *)
(* database, until another one takes its row or it is past the retention;   *)
(* only a flush that fails and the end of the process lose records: not a   *)
(* writer that ends, nor one started while it drains, nor the prune, nor    *)
(* the order of the switches (history.rs, writer_loop).                     *)
(***************************************************************************)
THEOREM NothingEverLostInSilence == HistorySpec => NothingLostInSilence
<1> DEFINE A == failures' = failures =>
                  \A r \in InFlight \cup rows : r \in (InFlight \cup rows)' \/
                      \/ r.ts < cutoff
                      \/ \E q \in rows' : q.key = r.key /\ q.ts = r.ts
<1>1. HistoryInv /\ [HistoryNext]_historyVars => [A]_historyVars
  BY NothingLostStep, Zenon DEF StillHasPlace
<1>2. HistorySpec => [][A]_historyVars
  BY <1>1, HistoryInvHolds, PTL DEF HistorySpec
<1> QED
  BY <1>2 DEF NothingLostInSilence

-----------------------------------------------------------------------------
(* Queries.  The arithmetic of the buckets.                                  *)

LEMMA TimesOrder ==
  ASSUME NEW a \in Nat, NEW b \in Nat, NEW c \in Nat, a <= b
  PROVE  a * c <= b * c
<1>1. PICK d \in Nat : b = a + d
  <2>1. b - a \in Nat /\ b = a + (b - a)
    OBVIOUS
  <2> QED
    BY <2>1
<1>2. b * c = a * c + d * c
  BY <1>1
<1>3. a * c \in Nat /\ d * c \in Nat
  BY <1>1
<1> QED
  BY <1>2, <1>3

LEMMA TimesCancel ==
  ASSUME NEW a \in Nat, NEW b \in Nat, NEW c \in Nat, a * c < b * c
  PROVE  a < b
<1>1. a * c \in Nat /\ b * c \in Nat
  OBVIOUS
<1>2. CASE b <= a
  BY <1>1, <1>2, TimesOrder
<1> QED
  BY <1>2

LEMMA Quotient ==
  ASSUME NEW x \in Nat, NEW n \in Nat \ {0}
  PROVE  /\ x \div n \in Nat
         /\ (x \div n) * n <= x /\ x < (x \div n) * n + n
  OBVIOUS

LEMMA QuotientIs ==
  ASSUME NEW x \in Nat, NEW n \in Nat \ {0}, NEW b \in Nat, b * n <= x, x < b * n + n
  PROVE  x \div n = b
<1> DEFINE q == x \div n
<1>1. q \in Nat /\ q * n <= x /\ x < q * n + n
  BY Quotient
<1> HIDE DEF q
<1>2. (q + 1) * n = q * n + n /\ (b + 1) * n = b * n + n
  BY <1>1
<1>3. q * n \in Nat /\ b * n \in Nat
  BY <1>1
<1>4. q * n < (b + 1) * n /\ b * n < (q + 1) * n
  BY <1>1, <1>2, <1>3
<1>5. q < b + 1 /\ b < q + 1
  BY <1>1, <1>4, TimesCancel
<1>6. q = b
  BY <1>1, <1>5
<1> QED
  BY <1>6 DEF q

(* The bucket of the i-th of n rows, when there are L of them.               *)
Nth(i, n, L) == (i * L) \div n

LEMMA BucketBounds ==
  ASSUME NEW n \in Nat \ {0}, NEW L \in Nat \ {0}, NEW i \in 0..(n - 1)
  PROVE  /\ Nth(i, n, L) \in 0..(L - 1)
         /\ Nth(i, n, L) * n <= i * L /\ i * L < Nth(i, n, L) * n + n
<1> DEFINE b == Nth(i, n, L)
<1>1. i \in Nat /\ i < n /\ i * L \in Nat
  OBVIOUS
<1>2. b \in Nat /\ b * n <= i * L /\ i * L < b * n + n
  BY <1>1, Quotient DEF Nth
<1> HIDE DEF b
<1>3. (i + 1) * L = i * L + L /\ (i + 1) * L <= n * L
  BY <1>1, TimesOrder
<1>4. b * n < L * n
  <2>1. n * L = L * n /\ n * L \in Nat /\ b * n \in Nat
    BY <1>2
  <2>2. i * L < n * L
    BY <1>1, <1>3, <2>1
  <2> QED
    BY <1>1, <1>2, <2>1, <2>2
<1>5. b < L
  BY <1>2, <1>4, TimesCancel
<1> QED
  BY <1>2, <1>5 DEF b

LEMMA BucketsInOrder ==
  ASSUME NEW n \in Nat \ {0}, NEW L \in Nat \ {0}, NEW i \in 0..(n - 1), NEW j \in 0..(n - 1)
  PROVE  /\ i <= j => Nth(i, n, L) <= Nth(j, n, L)
         /\ n <= L /\ i < j => Nth(i, n, L) < Nth(j, n, L)
         /\ i <= j /\ Nth(i, n, L) = Nth(j, n, L) => (j - i) * L < n
<1> DEFINE a == Nth(i, n, L)
           b == Nth(j, n, L)
<1>1. /\ a \in Nat /\ a * n <= i * L /\ i * L < a * n + n
      /\ b \in Nat /\ b * n <= j * L /\ j * L < b * n + n
  <2>1. ASSUME NEW k \in 0..(n - 1)
        PROVE  /\ Nth(k, n, L) \in Nat /\ Nth(k, n, L) * n <= k * L
               /\ k * L < Nth(k, n, L) * n + n
    <3>1. Nth(k, n, L) \in 0..(L - 1)
      BY BucketBounds
    <3>2. Nth(k, n, L) * n <= k * L /\ k * L < Nth(k, n, L) * n + n
      BY BucketBounds
    <3> QED
      BY <3>1, <3>2
  <2> QED
    BY <2>1
<1> HIDE DEF a, b
<1>2. i \in Nat /\ j \in Nat /\ a * n \in Nat /\ b * n \in Nat /\ i * L \in Nat /\ j * L \in Nat
  BY <1>1
<1>3. (b + 1) * n = b * n + n
  BY <1>1
<1>4. ASSUME i <= j PROVE a <= b
  <2>1. i * L <= j * L
    BY <1>2, <1>4, TimesOrder
  <2>2. a * n < (b + 1) * n
    BY <1>1, <1>2, <1>3, <2>1
  <2>3. a < b + 1
    BY <1>1, <2>2, TimesCancel
  <2> QED
    BY <1>1, <2>3
<1>5. ASSUME n <= L, i < j PROVE a < b
  <2>1. (i + 1) * L <= j * L /\ (i + 1) * L = i * L + L
    BY <1>2, <1>5, TimesOrder
  <2>2. (a + 1) * n = a * n + n /\ (a + 1) * n \in Nat
    BY <1>1
  <2>3. (a + 1) * n < (b + 1) * n
    BY <1>1, <1>2, <1>3, <1>5, <2>1, <2>2
  <2>4. a + 1 < b + 1
    BY <1>1, <2>3, TimesCancel
  <2> QED
    BY <1>1, <2>4
<1>6. ASSUME i <= j, a = b PROVE (j - i) * L < n
  <2>1. (j - i) * L = j * L - i * L
    BY <1>2
  <2> QED
    BY <1>1, <1>2, <1>6, <2>1
<1> QED
  BY <1>4, <1>5, <1>6 DEF a, b

LEMMA BucketsAllUsed ==
  ASSUME NEW n \in Nat \ {0}, NEW L \in Nat \ {0}, L <= n, NEW b \in 0..(L - 1)
  PROVE  \E i \in 0..(n - 1) : Nth(i, n, L) = b
<1> DEFINE x == b * n + (L - 1)
           i == x \div L
<1>1. b \in Nat /\ b * n \in Nat /\ L - 1 \in Nat
  OBVIOUS
<1>2. x \in Nat /\ x = b * n + (L - 1)
  BY <1>1
<1> HIDE DEF x
<1>3. i \in Nat /\ i * L <= x /\ x < i * L + L
  BY <1>2, Quotient
<1> HIDE DEF i
<1>4. i * L \in Nat
  BY <1>3
<1>5. b * n <= i * L /\ i * L < b * n + n
  BY <1>1, <1>2, <1>3, <1>4
<1>6. Nth(i, n, L) = b
  BY <1>1, <1>4, <1>5, QuotientIs DEF Nth
<1>7. (b + 1) * n = b * n + n /\ (b + 1) * n <= L * n /\ L * n = n * L
  BY <1>1, TimesOrder
<1>8. i * L < n * L
  <2>1. n * L \in Nat /\ (b + 1) * n \in Nat
    BY <1>1
  <2> QED
    BY <1>1, <1>4, <1>5, <1>7, <2>1
<1>9. i < n
  BY <1>3, <1>8, TimesCancel
<1> QED
  BY <1>3, <1>6, <1>9

(* Rows of different times, and the place of a row among them.               *)
Timed(W) == /\ IsFiniteSet(W) /\ \A r \in W : r.ts \in Nat
            /\ \A q, r \in W : q.ts = r.ts => q = r
Earlier(r, W) == {q \in W : q.ts < r.ts}
Place(r, W) == Cardinality(Earlier(r, W))

LEMMA PlacesInOrder ==
  ASSUME NEW W, Timed(W), NEW q \in W, NEW r \in W
  PROVE  /\ Place(q, W) \in 0..(Cardinality(W) - 1)
         /\ q.ts < r.ts <=> Place(q, W) < Place(r, W)
<1>1. /\ IsFiniteSet(W) /\ q.ts \in Nat /\ r.ts \in Nat
      /\ q.ts = r.ts => q = r
  BY DEF Timed
<1>2. ASSUME NEW p \in W, NEW s, IsFiniteSet(s), Earlier(p, W) \subseteq s, p \in s
      PROVE  Place(p, W) \in Nat /\ Place(p, W) < Cardinality(s)
  <2>1. p \notin Earlier(p, W)
    <3>1. p.ts \in Nat
      BY DEF Timed
    <3> QED
      BY <3>1 DEF Earlier
  <2>2. Earlier(p, W) \in SUBSET s /\ Earlier(p, W) # s
    BY <1>2, <2>1
  <2>3. /\ IsFiniteSet(Earlier(p, W)) /\ Place(p, W) <= Cardinality(s)
        /\ Cardinality(s) = Place(p, W) => s = Earlier(p, W)
    BY <1>2, <2>2, FS_Subset DEF Place
  <2>4. Place(p, W) \in Nat /\ Cardinality(s) \in Nat
    BY <1>2, <2>3, FS_CardinalityType DEF Place
  <2> QED
    BY <2>2, <2>3, <2>4
<1>3. ASSUME NEW p \in W PROVE Place(p, W) \in 0..(Cardinality(W) - 1)
  <2>1. Place(p, W) \in Nat /\ Place(p, W) < Cardinality(W)
    BY <1>1, <1>2 DEF Earlier
  <2>2. Cardinality(W) \in Nat
    BY <1>1, FS_CardinalityType
  <2> QED
    BY <2>1, <2>2
<1>4. ASSUME NEW a \in W, NEW b \in W, a.ts < b.ts PROVE Place(a, W) < Place(b, W)
  <2>1. a.ts \in Nat /\ b.ts \in Nat /\ \A c \in W : c.ts \in Nat
    BY DEF Timed
  <2>2. Earlier(a, W) \subseteq Earlier(b, W) /\ a \in Earlier(b, W)
    BY <1>4, <2>1 DEF Earlier
  <2>3. IsFiniteSet(Earlier(b, W))
    <3>1. Earlier(b, W) \in SUBSET W
      BY DEF Earlier
    <3> QED
      BY <1>1, <3>1, FS_Subset
  <2> QED
    BY <1>2, <2>2, <2>3 DEF Place
<1>5. Place(q, W) < Place(r, W) => q.ts < r.ts
  <2>1. Place(q, W) \in Int /\ Place(r, W) \in Int
    BY <1>3
  <2>2. q.ts < r.ts \/ q = r \/ r.ts < q.ts
    BY <1>1
  <2>3. r.ts < q.ts => Place(r, W) < Place(q, W)
    BY <1>4
  <2> QED
    BY <2>1, <2>2, <2>3
<1> QED
  BY <1>3, <1>4, <1>5

LEMMA EveryPlaceTaken ==
  ASSUME NEW W, Timed(W), NEW i \in 0..(Cardinality(W) - 1)
  PROVE  \E r \in W : Place(r, W) = i
<1> DEFINE n == Cardinality(W)
           I == 0..(n - 1)
           f == [r \in W |-> Place(r, W)]
<1>1. IsFiniteSet(W) /\ n \in Nat
  BY FS_CardinalityType DEF Timed
<1>2. \A r \in W : Place(r, W) \in I
  BY PlacesInOrder
<1>3. \A q, r \in W : Place(q, W) = Place(r, W) => q = r
  <2>1. ASSUME NEW q \in W, NEW r \in W, Place(q, W) = Place(r, W) PROVE q = r
    <3>1. ~ (q.ts < r.ts) /\ ~ (r.ts < q.ts)
      <4>1. Place(q, W) \in I
        BY <1>2
      <4>2. ~ (Place(q, W) < Place(r, W)) /\ ~ (Place(r, W) < Place(q, W))
        BY <1>1, <2>1, <4>1
      <4> QED
        BY <4>2, PlacesInOrder
    <3>2. q.ts \in Nat /\ r.ts \in Nat /\ (q.ts = r.ts => q = r)
      BY DEF Timed
    <3> QED
      BY <3>1, <3>2
  <2> QED
    BY <2>1
<1>4. IsFiniteSet(I) /\ Cardinality(I) = n
  BY <1>1, FS_Interval
<1> HIDE DEF n, I
<1>5. f \in Injection(W, I)
  BY <1>2, <1>3 DEF Injection, IsInjective
<1>6. f \in Surjection(W, I)
  BY <1>4, <1>5, FS_Injection DEF n
<1>7. i \in I
  BY DEF I, n
<1> QED
  BY <1>6, <1>7 DEF Surjection

-----------------------------------------------------------------------------
(* The rows a query keeps: of each bucket, the first.                        *)
Firsts(W, L) ==
    {r \in W : \A q \in W : q.ts < r.ts => Bucket(q, W, L) # Bucket(r, W, L)}

LEMMA BucketOfPlace ==
  ASSUME NEW W, NEW r, NEW L
  PROVE  Bucket(r, W, L) = Nth(Place(r, W), Cardinality(W), L)
  BY DEF Bucket, Nth, Place, Earlier

LEMMA BucketsFollowTime ==
  ASSUME NEW W, Timed(W), NEW L \in Nat \ {0}, NEW q \in W, NEW r \in W
  PROVE  /\ Cardinality(W) \in Nat \ {0}
         /\ Bucket(r, W, L) \in 0..(L - 1)
         /\ q.ts <= r.ts => Bucket(q, W, L) <= Bucket(r, W, L)
         /\ Cardinality(W) <= L /\ q.ts < r.ts => Bucket(q, W, L) < Bucket(r, W, L)
         /\ q.ts <= r.ts /\ Bucket(q, W, L) = Bucket(r, W, L)
                => (Place(r, W) - Place(q, W)) * L < Cardinality(W)
<1> DEFINE n == Cardinality(W)
           i == Place(q, W)
           j == Place(r, W)
<1>1. /\ n \in Nat /\ i \in 0..(n - 1) /\ j \in 0..(n - 1)
      /\ q.ts < r.ts <=> i < j
      /\ q.ts \in Nat /\ r.ts \in Nat /\ (q.ts = r.ts => q = r)
  BY PlacesInOrder, FS_CardinalityType DEF Timed
<1>2. Bucket(q, W, L) = Nth(i, n, L) /\ Bucket(r, W, L) = Nth(j, n, L)
  BY BucketOfPlace
<1>3. q.ts <= r.ts => i <= j
  <2>1. q.ts <= r.ts => q.ts < r.ts \/ i = j
    BY <1>1
  <2> QED
    BY <1>1, <2>1
<1> HIDE DEF n, i, j
<1>4. n \in Nat \ {0}
  BY <1>1
<1>5. Nth(j, n, L) \in 0..(L - 1)
  BY <1>1, <1>4, BucketBounds
<1>6. /\ i <= j => Nth(i, n, L) <= Nth(j, n, L)
      /\ n <= L /\ i < j => Nth(i, n, L) < Nth(j, n, L)
      /\ i <= j /\ Nth(i, n, L) = Nth(j, n, L) => (j - i) * L < n
  BY <1>1, <1>4, BucketsInOrder
<1>7. (j - i) * L < n <=> (Place(r, W) - Place(q, W)) * L < Cardinality(W)
  BY DEF i, j, n
<1> QED
  BY <1>1, <1>2, <1>3, <1>4, <1>5, <1>6, <1>7 DEF n

LEMMA FirstOfBucket ==
  ASSUME NEW W, Timed(W), NEW L \in Nat \ {0}, NEW r \in W
  PROVE  \E f \in Firsts(W, L) : f.ts <= r.ts /\ Bucket(f, W, L) = Bucket(r, W, L)
<1> DEFINE B == {q \in W : Bucket(q, W, L) = Bucket(r, W, L)}
           T == {q.ts : q \in B}
<1>1. T \in SUBSET Nat /\ T # {} /\ r.ts \in T
  BY DEF Timed
<1>2. Min(T) \in T /\ \A t \in T : Min(T) <= t
  <2> HIDE DEF T
  <2> QED
    BY <1>1, Least
<1>3. PICK f \in B : f.ts = Min(T)
  BY <1>2
<1>4. f.ts \in Nat /\ \A q \in W : q.ts \in Nat
  BY <1>3 DEF Timed
<1>5. \A q \in B : f.ts <= q.ts
  BY <1>2, <1>3
<1>6. f \in Firsts(W, L)
  <2>1. ASSUME NEW q \in W, q.ts < f.ts PROVE Bucket(q, W, L) # Bucket(f, W, L)
    BY <1>3, <1>4, <1>5, <2>1
  <2> QED
    BY <1>3, <2>1 DEF Firsts
<1>7. f.ts <= r.ts
  BY <1>5
<1> QED
  BY <1>3, <1>6, <1>7

LEMMA OneOfEachBucket ==
  ASSUME NEW W, Timed(W), NEW L \in Nat \ {0}, NEW q \in Firsts(W, L), NEW r \in Firsts(W, L),
         Bucket(q, W, L) = Bucket(r, W, L)
  PROVE  q = r
<1>1. q \in W /\ r \in W
  BY DEF Firsts
<1>2. q.ts \in Nat /\ r.ts \in Nat /\ (q.ts = r.ts => q = r)
  BY <1>1 DEF Timed
<1>3. ~ (q.ts < r.ts) /\ ~ (r.ts < q.ts)
  BY <1>1 DEF Firsts
<1> QED
  BY <1>2, <1>3

LEMMA AsManyAsAsked ==
  ASSUME NEW W, Timed(W), NEW L \in Nat \ {0}
  PROVE  Cardinality(Firsts(W, L)) = IF Cardinality(W) < L THEN Cardinality(W) ELSE L
<1> DEFINE n == Cardinality(W)
           Q == Firsts(W, L)
<1>1. n \in Nat
  BY FS_CardinalityType DEF Timed
<1>2. CASE n < L
  <2>1. ASSUME NEW q \in W, NEW r \in W, q.ts < r.ts
        PROVE  Bucket(q, W, L) # Bucket(r, W, L)
    <3>1. Bucket(q, W, L) < Bucket(r, W, L)
      BY <1>1, <1>2, <2>1, BucketsFollowTime
    <3>2. Bucket(q, W, L) \in 0..(L - 1) /\ Bucket(r, W, L) \in 0..(L - 1)
      BY BucketsFollowTime
    <3> QED
      BY <3>1, <3>2
  <2>2. Q = W
    BY <2>1 DEF Firsts
  <2> QED
    BY <1>2, <2>2
<1>3. CASE ~ (n < L)
  <2> DEFINE I == 0..(L - 1)
             f == [r \in Q |-> Bucket(r, W, L)]
  <2>1. L <= n /\ n \in Nat \ {0}
    BY <1>1, <1>3
  <2>2. Q \subseteq W
    BY DEF Firsts
  <2>3. \A r \in Q : Bucket(r, W, L) \in I
    BY <2>2, BucketsFollowTime
  <2>4. \A q, r \in Q : Bucket(q, W, L) = Bucket(r, W, L) => q = r
    BY OneOfEachBucket
  <2>5. ASSUME NEW b \in I PROVE \E r \in Q : Bucket(r, W, L) = b
    <3>1. PICK i \in 0..(n - 1) : Nth(i, n, L) = b
      <4> HIDE DEF n
      <4> QED
        BY <2>1, BucketsAllUsed
    <3>2. PICK r \in W : Place(r, W) = i
      BY EveryPlaceTaken
    <3>3. Bucket(r, W, L) = b
      BY <3>1, <3>2, BucketOfPlace
    <3> QED
      BY <3>3, FirstOfBucket
  <2>6. IsFiniteSet(I) /\ Cardinality(I) = L
    BY FS_Interval
  <2>7. IsFiniteSet(Q)
    BY <2>2, FS_Subset DEF Timed
  <2> HIDE DEF Q, I
  <2>8. f \in Bijection(Q, I)
    BY <2>3, <2>4, <2>5 DEF Bijection, Injection, Surjection, IsInjective
  <2>9. ExistsBijection(Q, I)
    BY <2>8 DEF ExistsBijection
  <2>10. Cardinality(Q) = L
    BY <2>6, <2>7, <2>9, FS_Bijection
  <2> QED
    BY <1>3, <2>10 DEF Q
<1> QED
  BY <1>2, <1>3

LEMMA EarliestKept ==
  ASSUME NEW W, Timed(W), NEW L \in Nat \ {0}, W # {}
  PROVE  \E q \in Firsts(W, L) : \A r \in W : q.ts <= r.ts
<1> DEFINE T == {r.ts : r \in W}
<1>1. T \in SUBSET Nat /\ T # {}
  BY DEF Timed
<1>2. Min(T) \in T /\ \A t \in T : Min(T) <= t
  <2> HIDE DEF T
  <2> QED
    BY <1>1, Least
<1>3. PICK q \in W : q.ts = Min(T)
  BY <1>2
<1>4. \A r \in W : q.ts <= r.ts /\ r.ts \in Nat
  BY <1>2, <1>3 DEF Timed
<1>5. q \in Firsts(W, L)
  <2>1. \A r \in W : ~ (r.ts < q.ts)
    BY <1>3, <1>4
  <2> QED
    BY <1>3, <2>1 DEF Firsts
<1> QED
  BY <1>4, <1>5

Passed(q, W, Q) == {r \in W \ Q : /\ r.ts > q.ts
                                  /\ \A p \in Q : p.ts > q.ts => p.ts > r.ts}

(* What is passed over after a row that is kept is of that row's bucket.     *)
LEMMA PassedInBucket ==
  ASSUME NEW W, Timed(W), NEW L \in Nat \ {0}, NEW q \in Firsts(W, L),
         NEW r \in Passed(q, W, Firsts(W, L))
  PROVE  /\ r \in W /\ Place(q, W) < Place(r, W)
         /\ (Place(r, W) - Place(q, W)) * L < Cardinality(W)
<1>1. q \in W /\ r \in W /\ r \notin Firsts(W, L) /\ r.ts > q.ts
      /\ \A p \in Firsts(W, L) : p.ts > q.ts => p.ts > r.ts
  BY DEF Firsts, Passed
<1>2. PICK f \in Firsts(W, L) : f.ts <= r.ts /\ Bucket(f, W, L) = Bucket(r, W, L)
  BY <1>1, FirstOfBucket
<1>3. f \in W /\ q.ts \in Nat /\ r.ts \in Nat /\ f.ts \in Nat
  BY <1>1 DEF Firsts, Timed
<1>4. f.ts <= q.ts /\ q.ts < r.ts /\ q.ts <= r.ts
  BY <1>1, <1>2, <1>3
<1>5. /\ Bucket(f, W, L) <= Bucket(q, W, L) /\ Bucket(q, W, L) <= Bucket(r, W, L)
      /\ Bucket(f, W, L) \in 0..(L - 1) /\ Bucket(q, W, L) \in 0..(L - 1)
  BY <1>1, <1>3, <1>4, BucketsFollowTime
<1>6. Bucket(q, W, L) = Bucket(r, W, L)
  BY <1>2, <1>5
<1> QED
  BY <1>1, <1>4, <1>6, BucketsFollowTime, PlacesInOrder

LEMMA FewPassed ==
  ASSUME NEW W, Timed(W), NEW L \in Nat \ {0}, NEW q \in Firsts(W, L)
  PROVE  Cardinality(Passed(q, W, Firsts(W, L))) * L < Cardinality(W) + L
<1> DEFINE G == Passed(q, W, Firsts(W, L))
           n == Cardinality(W)
           g == Cardinality(G)
           m == Place(q, W)
<1>1. q \in W /\ m \in Nat /\ n \in Nat
  <2>1. q \in W
    BY DEF Firsts
  <2>2. m \in 0..(n - 1)
    BY <2>1, PlacesInOrder
  <2> QED
    BY <2>1, <2>2, FS_CardinalityType DEF Timed
<1>2. G \subseteq W /\ IsFiniteSet(G) /\ g \in Nat
  <2>1. G \in SUBSET W
    BY DEF Passed
  <2> QED
    BY <2>1, FS_Subset, FS_CardinalityType DEF Timed
<1>3. \A r \in G : /\ r \in W /\ m < Place(r, W) /\ (Place(r, W) - m) * L < n
                   /\ Place(r, W) \in Nat
  <2>1. ASSUME NEW r \in G
        PROVE  /\ r \in W /\ m < Place(r, W) /\ (Place(r, W) - m) * L < n
               /\ Place(r, W) \in Nat
    <3>1. r \in W /\ m < Place(r, W) /\ (Place(r, W) - m) * L < n
      BY PassedInBucket
    <3>2. Place(r, W) \in 0..(n - 1)
      BY <3>1, PlacesInOrder
    <3> QED
      BY <3>1, <3>2
  <2> QED
    BY <2>1
<1>4. CASE g = 0
  <2>1. 0 * L = 0
    OBVIOUS
  <2> QED
    BY <1>1, <1>4, <2>1
<1>5. CASE g # 0
  <2>1. \E r \in G : Place(r, W) >= m + g
    <3> SUFFICES ASSUME \A r \in G : ~ (Place(r, W) >= m + g) PROVE FALSE
      OBVIOUS
    <3> DEFINE J == (m + 1)..(m + g - 1)
               f == [r \in G |-> Place(r, W)]
    <3>1. \A r \in G : Place(r, W) \in J
      BY <1>1, <1>2, <1>3
    <3>2. IsFiniteSet(J) /\ Cardinality(J) = g - 1
      <4> HIDE DEF m, g
      <4>1. m + 1 \in Int /\ m + g - 1 \in Int /\ g \in Nat \ {0} /\ m \in Nat
        BY <1>1, <1>2, <1>5
      <4> QED
        BY <4>1, FS_Interval
    <3>3. \A a, b \in G : Place(a, W) = Place(b, W) => a = b
      <4>1. ASSUME NEW a \in G, NEW b \in G, Place(a, W) = Place(b, W) PROVE a = b
        <5>1. a \in W /\ b \in W /\ Place(a, W) \in Nat
          BY <1>3
        <5>2. ~ (Place(a, W) < Place(b, W)) /\ ~ (Place(b, W) < Place(a, W))
          BY <4>1, <5>1
        <5>3. ~ (a.ts < b.ts) /\ ~ (b.ts < a.ts)
          BY <5>1, <5>2, PlacesInOrder
        <5>4. a.ts \in Nat /\ b.ts \in Nat /\ (a.ts = b.ts => a = b)
          BY <5>1 DEF Timed
        <5> QED
          BY <5>3, <5>4
      <4> QED
        BY <4>1
    <3> HIDE DEF J
    <3>4. f \in Injection(G, J)
      BY <3>1, <3>3 DEF Injection, IsInjective
    <3>5. g <= g - 1
      BY <3>2, <3>4, FS_Injection
    <3> QED
      BY <1>2, <3>5
  <2>2. PICK r \in G : Place(r, W) >= m + g
    BY <2>1
  <2> DEFINE d == Place(r, W) - m
  <2>3. d \in Nat /\ g <= d /\ d * L < n
    BY <1>1, <1>2, <1>3, <2>2
  <2> HIDE DEF d, g, n, m, G
  <2>4. g * L <= d * L
    BY <1>2, <2>3, TimesOrder
  <2>5. g * L \in Nat /\ d * L \in Nat
    BY <1>2, <2>3
  <2> QED
    BY <1>1, <2>3, <2>4, <2>5 DEF g, n, G
<1> QED
  BY <1>4, <1>5

-----------------------------------------------------------------------------
(* The table has one row per key and time.                                   *)
OneRowEach(T) == \A q, r \in T : SameRow(q, r) => q = r

LEMMA InsertedOneEach ==
  ASSUME NEW T, OneRowEach(T), NEW batch \in Seq(Record)
  PROVE  OneRowEach(Inserted(T, batch))
<1> DEFINE n == Len(batch)
           Stays(j) == \A h \in DOMAIN batch : h > j => ~ SameRow(batch[h], batch[j])
<1>1. n \in Nat /\ DOMAIN batch = 1..n
  OBVIOUS
<1>2. \A r \in Inserted(T, batch) :
        \/ r \in T /\ \A i \in DOMAIN batch : ~ SameRow(r, batch[i])
        \/ \E j \in DOMAIN batch : r = batch[j] /\ Stays(j)
  BY DEF Inserted
<1>3. \A q, r : SameRow(q, r) => SameRow(r, q)
  BY DEF SameRow
<1>4. ASSUME NEW q \in Inserted(T, batch), NEW r \in Inserted(T, batch), SameRow(q, r)
      PROVE  q = r
  <2>1. CASE q \in T /\ \A i \in DOMAIN batch : ~ SameRow(q, batch[i])
    <3>1. r \in T
      BY <1>2, <1>4, <2>1
    <3> QED
      BY <1>4, <2>1, <3>1 DEF OneRowEach
  <2>2. CASE \E j \in DOMAIN batch : q = batch[j] /\ Stays(j)
    <3>1. PICK j \in DOMAIN batch : q = batch[j] /\ Stays(j)
      BY <2>2
    <3>2. ~ \A i \in DOMAIN batch : ~ SameRow(r, batch[i])
      BY <1>3, <1>4, <3>1
    <3>3. PICK h \in DOMAIN batch : r = batch[h] /\ Stays(h)
      BY <1>2, <3>2
    <3>4. ~ (h > j) /\ ~ (j > h)
      BY <1>3, <1>4, <3>1, <3>3
    <3> QED
      BY <1>1, <3>1, <3>3, <3>4
  <2> QED
    BY <1>2, <2>1, <2>2
<1> QED
  BY <1>4 DEF OneRowEach

LEMMA TurnOneEach ==
  ASSUME HistoryTypes, OneRowEach(rows), NEW w, NEW got, NEW due, NEW fails, NEW prune,
         TurnOf(w, got), Turn(w, got, due, fails, prune)
  PROVE  OneRowEach(rows')
<1>1. Samples(w, got) \in Seq(Record) /\ Happenings(got) \in Seq(Record)
  BY TurnHands
<1>2. OneRowEach(One(w, got, due, fails))
  BY <1>1, InsertedOneEach DEF One
<1>3. OneRowEach(Two(w, got, due, fails))
  BY <1>1, <1>2, InsertedOneEach DEF Two
<1>4. rows' \subseteq Two(w, got, due, fails)
  BY TurnIs DEF prune_older_than
<1> QED
  BY <1>3, <1>4 DEF OneRowEach

LEMMA OneEachStep ==
  ASSUME HistoryInv, OneRowEach(rows), [HistoryNext]_historyVars
  PROVE  OneRowEach(rows')
<1>1. HistoryTypes
  BY DEF HistoryInv
<1>2. ASSUME NEW w \in Writers, WriterReceives(w) PROVE OneRowEach(rows')
  <2>1. PICK due \in BOOLEAN, prune \in BOOLEAN, fails \in SUBSET {"samples", "events"} :
           Turn(w, <<Head(channel[w])>>, due, fails, prune)
    BY <1>2 DEF WriterReceives
  <2>2. TurnOf(w, <<Head(channel[w])>>)
    BY <1>1, <1>2, ReceivedTurn DEF WriterReceives
  <2> QED
    BY <1>1, <2>1, <2>2, TurnOneEach
<1>3. ASSUME NEW w \in Writers, WriterTimesOut(w) PROVE OneRowEach(rows')
  <2>1. PICK prune \in BOOLEAN, fails \in SUBSET {"samples"} :
           Turn(w, <<>>, TRUE, fails, prune)
    BY <1>3 DEF WriterTimesOut
  <2> QED
    BY <1>1, <2>1, TurnOneEach DEF TurnOf
<1>4. ASSUME NEW w \in Writers, WriterEnds(w) PROVE OneRowEach(rows')
  <2>1. PICK fails \in SUBSET {"samples"} : Turn(w, <<>>, TRUE, fails, FALSE)
    BY <1>4 DEF WriterEnds
  <2> QED
    BY <1>1, <2>1, TurnOneEach DEF TurnOf
<1>5. ASSUME rows' = rows PROVE OneRowEach(rows')
  BY <1>5
<1>6. \/ \E w \in Writers : WriterReceives(w) \/ WriterTimesOut(w) \/ WriterEnds(w)
      \/ rows' = rows
  BY DEF HistoryNext, historyVars, RecordSample, RecordEvent, toggle_history_on, toggle_history_off,
         toggle_alerts_on, toggle_alerts_off, Restart, WallClock
<1> QED
  BY <1>2, <1>3, <1>4, <1>5, <1>6

LEMMA WindowTimed ==
  ASSUME HistoryTypes, OneRowEach(rows), NEW k, NEW since, NEW until
  PROVE  Timed(Window(k, since, until))
<1> DEFINE W == Window(k, since, until)
           f == [r \in W |-> r.ts]
<1>1. \A r \in W : r \in rows /\ r.key = k /\ r.ts \in 0..MaxWall
  BY DEF Window, HistoryTypes, Record
<1>2. \A q, r \in W : q.ts = r.ts => q = r
  BY <1>1 DEF OneRowEach, SameRow
<1>3. MaxWall \in Nat /\ IsFiniteSet(0..MaxWall)
  BY HistoryAssumption, FS_Interval
<1> HIDE DEF W
<1>4. f \in Injection(W, 0..MaxWall)
  BY <1>1, <1>2 DEF Injection, IsInjective
<1>5. IsFiniteSet(W)
  BY <1>3, <1>4, FS_Injection
<1>6. \A r \in W : r.ts \in Nat
  BY <1>1, <1>3
<1> QED
  BY <1>2, <1>5, <1>6 DEF Timed, W

PointsAsked == {<<>>} \cup {<<n>> : n \in Nat}

LEMMA LimitBounds ==
  ASSUME NEW max_points \in PointsAsked
  PROVE  Limit(max_points) \in 1..MaxPoints
<1>1. MaxPoints \in Nat \ {0} /\ DefaultPoints \in 1..MaxPoints
  BY HistoryAssumption
<1>2. ASSUME NEW n \in Nat PROVE Clamped(n) \in 1..MaxPoints
  BY <1>1 DEF Clamped
<1>3. CASE max_points = <<>>
  BY <1>1, <1>3 DEF Limit
<1>4. ASSUME NEW n \in Nat, max_points = <<n>> PROVE Limit(max_points) \in 1..MaxPoints
  BY <1>2, <1>4 DEF Limit
<1> QED
  BY <1>3, <1>4 DEF PointsAsked

LEMMA WindowsFair ==
  ASSUME HistoryTypes, OneRowEach(rows), NEW k, NEW since, NEW until,
         NEW max_points \in PointsAsked
  PROVE  FairQuery(k, since, until, max_points)
<1> DEFINE W == Window(k, since, until)
           L == Limit(max_points)
           Q == query(k, since, until, max_points)
<1>1. Timed(W) /\ L \in 1..MaxPoints /\ MaxPoints \in Nat \ {0}
  BY WindowTimed, LimitBounds, HistoryAssumption
<1>2. Q = Firsts(W, L)
  BY DEF query, Firsts
<1> HIDE DEF W, L, Q
<1>3. L \in Nat \ {0} /\ L <= MaxPoints
  BY <1>1
<1>4. Cardinality(Q) = IF Cardinality(W) < L THEN Cardinality(W) ELSE L
  BY <1>1, <1>2, <1>3, AsManyAsAsked
<1>5. W # {} => \E q \in Q : \A r \in W : q.ts <= r.ts
  BY <1>1, <1>2, <1>3, EarliestKept
<1>6. \A q \in Q : Cardinality(Passed(q, W, Q)) * L < Cardinality(W) + L
  BY <1>1, <1>2, <1>3, FewPassed
<1>7. Cardinality(W) \in Nat
  BY <1>1, FS_CardinalityType DEF Timed
<1>8. Cardinality(Q) <= MaxPoints
  BY <1>1, <1>3, <1>4, <1>7
<1> QED
  BY <1>4, <1>5, <1>6, <1>8, Zenon DEF FairQuery, Passed, W, L, Q

(* A query (History::query) of any window and for any number of points, named or  *)
(* not, returns at most MaxPoints rows: within that bound as many as were asked   *)
(* for or all there are, the earliest of them among them, and it passes over no   *)
(* more than the window's share after each row it returns.                        *)
THEOREM QueriesAlwaysFair ==
  HistorySpec => [](/\ QueryIsFair
                    /\ \A k \in Keys, since \in Nat, until \in Nat, p \in PointsAsked :
                           FairQuery(k, since, until, p))
<1> DEFINE P == /\ QueryIsFair
                /\ \A k \in Keys, since \in Nat, until \in Nat, p \in PointsAsked :
                       FairQuery(k, since, until, p)
           O == OneRowEach(rows)
<1>1. HistoryInit => O
  BY DEF HistoryInit, OneRowEach
<1>2. HistoryInv /\ O /\ [HistoryNext]_historyVars => O'
  BY OneEachStep
<1>3. HistoryInv /\ O => P
  <2>1. ASSUME HistoryInv, O PROVE P
    <3>1. \A k \in Keys, since \in Nat, until \in Nat, p \in PointsAsked :
             FairQuery(k, since, until, p)
      BY <2>1, WindowsFair DEF HistoryInv
    <3>2. /\ MaxWall \in Nat /\ 0..MaxWall \subseteq Nat
          /\ <<>> \in PointsAsked /\ \A n \in 0..(MaxPoints + 1) : <<n>> \in PointsAsked
      BY HistoryAssumption DEF PointsAsked
    <3>3. QueryIsFair
      BY <3>1, <3>2, Zenon DEF QueryIsFair
    <3> QED
      BY <3>1, <3>3
  <2> QED
    BY <2>1
<1> HIDE DEF P, O
<1>4. HistorySpec => []P
  BY <1>1, <1>2, <1>3, HistoryInvHolds, PTL DEF HistorySpec
<1> QED
  BY <1>4 DEF P

-----------------------------------------------------------------------------
(***************************************************************************)
(* PluginHost                                                              *)
(***************************************************************************)

-----------------------------------------------------------------------------
(* Logs.  What may follow a call of the same instance, and what a log says  *)
(* of an instance: it was never made; it is made and not initialised; it is *)
(* initialised with that config; it is shut down; it is gone.               *)

Words == {"new", "init", "shutdown", "drop", "dlopen", "dlclose", "sample"}
Args == STRING \cup {"null", None}
CallType == {k \in [inst : 0..2, what : Words, arg : Args] :
                k.inst = 0 => k.what \in {"dlopen", "dlclose"}}

Follows(a, b) ==
    a.inst = b.inst => /\ ~ (a.what = "init" /\ b.what = "init")
                       /\ a.what = "shutdown" => b.what = "drop"
                       /\ a.what # "drop"
Orderly(l) == l \in Seq(CallType) /\ \A i, j \in 1..Len(l) : i < j => Follows(l[i], l[j])

Said(l, n, w) == \E i \in 1..Len(l) : l[i].inst = n /\ l[i].what = w
Fresh(l, n) == \A i \in 1..Len(l) : l[i].inst # n
Raw(l, n) == Said(l, n, "new") /\ ~ Said(l, n, "init") /\ ~ Said(l, n, "shutdown")
             /\ ~ Said(l, n, "drop")
Ready(l, n, a) == /\ Said(l, n, "new") /\ ~ Said(l, n, "shutdown") /\ ~ Said(l, n, "drop")
                  /\ \E i \in 1..Len(l) : l[i] = Call(n, "init", a)
Down(l, n) == Said(l, n, "new") /\ ~ Said(l, n, "drop")
Gone(l, n) == Said(l, n, "new") /\ Said(l, n, "drop")
Over(l, n) == Fresh(l, n) \/ Gone(l, n)

LEMMA Appended ==
  ASSUME NEW l \in Seq(CallType), NEW k \in CallType
  PROVE  /\ Append(l, k) \in Seq(CallType) /\ Len(l) \in Nat
         /\ Len(Append(l, k)) = Len(l) + 1 /\ Append(l, k)[Len(l) + 1] = k
         /\ \A i \in 1..Len(l) : Append(l, k)[i] = l[i]
  OBVIOUS

(* One more call adds one saying.  *)
LEMMA SaidAppended ==
  ASSUME NEW l \in Seq(CallType), NEW k \in CallType, NEW n, NEW w
  PROVE  Said(Append(l, k), n, w) <=> Said(l, n, w) \/ (k.inst = n /\ k.what = w)
<1> DEFINE m == Append(l, k)
<1>1. /\ Len(l) \in Nat /\ Len(m) = Len(l) + 1 /\ m[Len(l) + 1] = k
      /\ \A i \in 1..Len(l) : m[i] = l[i]
  BY Appended
<1> HIDE DEF m
<1>2. \A i \in 1..Len(m) : i \in 1..Len(l) \/ i = Len(l) + 1
  BY <1>1
<1>3. \A i \in 1..Len(l) : i \in 1..Len(m)
  BY <1>1
<1>4. Len(l) + 1 \in 1..Len(m)
  BY <1>1
<1>5. Said(m, n, w) => Said(l, n, w) \/ (k.inst = n /\ k.what = w)
  BY <1>1, <1>2 DEF Said
<1>6. Said(l, n, w) => Said(m, n, w)
  BY <1>1, <1>3 DEF Said
<1>7. k.inst = n /\ k.what = w => Said(m, n, w)
  BY <1>1, <1>4 DEF Said
<1> QED
  BY <1>5, <1>6, <1>7 DEF m

LEMMA OrderlyAppended ==
  ASSUME NEW l, Orderly(l), NEW k \in CallType,
         \A i \in 1..Len(l) : Follows(l[i], k)
  PROVE  Orderly(Append(l, k))
<1> DEFINE m == Append(l, k)
<1>1. l \in Seq(CallType)
  BY DEF Orderly
<1>2. /\ m \in Seq(CallType) /\ Len(l) \in Nat /\ Len(m) = Len(l) + 1 /\ m[Len(l) + 1] = k
      /\ \A i \in 1..Len(l) : m[i] = l[i]
  BY <1>1, Appended
<1> HIDE DEF m
<1>3. ASSUME NEW i \in 1..Len(m), NEW j \in 1..Len(m), i < j PROVE Follows(m[i], m[j])
  <2>1. i \in 1..Len(l)
    BY <1>2, <1>3
  <2>2. CASE j = Len(l) + 1
    BY <1>2, <2>1, <2>2
  <2>3. CASE j # Len(l) + 1
    <3>1. j \in 1..Len(l)
      BY <1>2, <2>3
    <3> QED
      BY <1>2, <1>3, <2>1, <3>1 DEF Orderly
  <2> QED
    BY <2>2, <2>3
<1> QED
  BY <1>2, <1>3 DEF Orderly, m

(* A call of another instance, or of the library, leaves an instance alone.  *)
LEMMA OthersStay ==
  ASSUME NEW l \in Seq(CallType), NEW k \in CallType, NEW n, k.inst # n
  PROVE  /\ Fresh(l, n) => Fresh(Append(l, k), n)
         /\ Raw(l, n) => Raw(Append(l, k), n)
         /\ \A a : Ready(l, n, a) => Ready(Append(l, k), n, a)
         /\ Down(l, n) => Down(Append(l, k), n)
         /\ Gone(l, n) => Gone(Append(l, k), n)
         /\ Over(l, n) => Over(Append(l, k), n)
<1> DEFINE m == Append(l, k)
<1>1. /\ Len(l) \in Nat /\ Len(m) = Len(l) + 1 /\ m[Len(l) + 1] = k
      /\ \A i \in 1..Len(l) : m[i] = l[i]
  BY Appended
<1>2. \A w : Said(m, n, w) <=> Said(l, n, w)
  BY SaidAppended
<1> HIDE DEF m
<1>3. \A i \in 1..Len(m) : i \in 1..Len(l) \/ i = Len(l) + 1
  BY <1>1
<1>4. \A i \in 1..Len(l) : i \in 1..Len(m)
  BY <1>1
<1>5. Fresh(l, n) => Fresh(m, n)
  BY <1>1, <1>3 DEF Fresh
<1>6. ASSUME NEW a, Ready(l, n, a) PROVE Ready(m, n, a)
  <2>1. PICK i \in 1..Len(l) : l[i] = Call(n, "init", a)
    BY <1>6 DEF Ready
  <2>2. i \in 1..Len(m) /\ m[i] = Call(n, "init", a)
    BY <1>1, <1>4, <2>1
  <2> QED
    BY <1>2, <1>6, <2>2 DEF Ready
<1>7. /\ Raw(l, n) => Raw(m, n)
      /\ Down(l, n) => Down(m, n)
      /\ Gone(l, n) => Gone(m, n)
  BY <1>2 DEF Raw, Down, Gone
<1> QED
  BY <1>5, <1>6, <1>7 DEF m, Over

LEMMA CallTyped ==
  ASSUME NEW n \in 0..2, NEW w \in Words, NEW a \in Args,
         n = 0 => w \in {"dlopen", "dlclose"}
  PROVE  /\ Call(n, w, a) \in CallType
         /\ Call(n, w, a).inst = n /\ Call(n, w, a).what = w
  BY DEF Call, CallType

(* The life of an instance, call by call.  *)
LEMMA IsMade ==
  ASSUME NEW l, Orderly(l), NEW n \in 1..2, Fresh(l, n)
  PROVE  Orderly(Append(l, Call(n, "new", None))) /\ Raw(Append(l, Call(n, "new", None)), n)
<1> DEFINE k == Call(n, "new", None)
<1>0. l \in Seq(CallType)
  BY DEF Orderly
<1>1. k \in CallType /\ k.inst = n /\ k.what = "new"
  <2>1. n \in 0..2 /\ "new" \in Words /\ None \in Args
    BY DEF Words, Args
  <2> QED
    BY <2>1, CallTyped
<1> HIDE DEF k
<1>2. \A w : ~ Said(l, n, w)
  BY DEF Fresh, Said
<1>3. Orderly(Append(l, k))
  BY <1>1, OrderlyAppended DEF Fresh, Follows
<1>4. Raw(Append(l, k), n)
  BY <1>0, <1>1, <1>2, SaidAppended DEF Raw
<1> QED
  BY <1>3, <1>4 DEF k

LEMMA IsInitialised ==
  ASSUME NEW l, Orderly(l), NEW n \in 1..2, Raw(l, n), NEW a \in Args
  PROVE  Orderly(Append(l, Call(n, "init", a))) /\ Ready(Append(l, Call(n, "init", a)), n, a)
<1> DEFINE k == Call(n, "init", a)
           m == Append(l, k)
<1>0. l \in Seq(CallType)
  BY DEF Orderly
<1>1. k \in CallType /\ k.inst = n /\ k.what = "init"
  <2>1. n \in 0..2 /\ "init" \in Words
    BY DEF Words
  <2> QED
    BY <2>1, CallTyped
<1> HIDE DEF k
<1>2. \A i \in 1..Len(l) : l[i].inst = n => l[i].what \notin {"init", "shutdown", "drop"}
  BY DEF Raw, Said
<1>3. Orderly(Append(l, k))
  BY <1>1, <1>2, OrderlyAppended DEF Follows
<1>4. Said(m, n, "new") /\ ~ Said(m, n, "shutdown") /\ ~ Said(m, n, "drop")
  BY <1>0, <1>1, SaidAppended DEF Raw
<1>5. Len(l) + 1 \in 1..Len(m) /\ m[Len(l) + 1] = k
  BY <1>0, <1>1, Appended
<1> HIDE DEF m
<1>6. Ready(m, n, a)
  BY <1>4, <1>5 DEF Ready, k
<1> QED
  BY <1>3, <1>6 DEF k, m

LEMMA IsShutDown ==
  ASSUME NEW l, Orderly(l), NEW n \in 1..2, NEW a, Ready(l, n, a)
  PROVE  /\ Orderly(Append(l, Call(n, "shutdown", None)))
         /\ Down(Append(l, Call(n, "shutdown", None)), n)
<1> DEFINE k == Call(n, "shutdown", None)
<1>0. l \in Seq(CallType)
  BY DEF Orderly
<1>1. k \in CallType /\ k.inst = n /\ k.what = "shutdown"
  <2>1. n \in 0..2 /\ "shutdown" \in Words /\ None \in Args
    BY DEF Words, Args
  <2> QED
    BY <2>1, CallTyped
<1> HIDE DEF k
<1>2. \A i \in 1..Len(l) : l[i].inst = n => l[i].what \notin {"shutdown", "drop"}
  BY DEF Ready, Said
<1>3. Orderly(Append(l, k))
  BY <1>1, <1>2, OrderlyAppended DEF Follows
<1>4. Down(Append(l, k), n)
  BY <1>0, <1>1, SaidAppended DEF Ready, Down
<1> QED
  BY <1>3, <1>4 DEF k

LEMMA IsDropped ==
  ASSUME NEW l, Orderly(l), NEW n \in 1..2, Down(l, n)
  PROVE  Orderly(Append(l, Call(n, "drop", None))) /\ Gone(Append(l, Call(n, "drop", None)), n)
<1> DEFINE k == Call(n, "drop", None)
<1>0. l \in Seq(CallType)
  BY DEF Orderly
<1>1. k \in CallType /\ k.inst = n /\ k.what = "drop"
  <2>1. n \in 0..2 /\ "drop" \in Words /\ None \in Args
    BY DEF Words, Args
  <2> QED
    BY <2>1, CallTyped
<1> HIDE DEF k
<1>2. \A i \in 1..Len(l) : l[i].inst = n => l[i].what # "drop"
  BY DEF Down, Said
<1>3. Orderly(Append(l, k))
  BY <1>1, <1>2, OrderlyAppended DEF Follows
<1>4. Gone(Append(l, k), n)
  BY <1>0, <1>1, SaidAppended DEF Gone, Down
<1> QED
  BY <1>3, <1>4 DEF k

-----------------------------------------------------------------------------
(* The log of a candidate with one instance under way and the other, if     *)
(* there was one, over.                                                     *)

Others(l, n) == \A o \in (1..2) \ {n} : Over(l, o)
Unmade(l, n) == Orderly(l) /\ Fresh(l, n) /\ Others(l, n)
Made(l, n) == Orderly(l) /\ Raw(l, n) /\ Others(l, n)
Initialised(l, n, a) == Orderly(l) /\ Ready(l, n, a) /\ Others(l, n)
Stopped(l, n) == Orderly(l) /\ Down(l, n) /\ Others(l, n)
Settled(l) == Orderly(l) /\ \A o \in 1..2 : Over(l, o)

(* A call of the instance keeps the other one over; a call of the library    *)
(* keeps both.                                                               *)
LEMMA OthersKept ==
  ASSUME NEW l, Orderly(l), NEW k \in CallType, NEW n \in 1..2, k.inst \in {0, n},
         Others(l, n)
  PROVE  Others(Append(l, k), n)
<1>1. l \in Seq(CallType)
  BY DEF Orderly
<1>2. ASSUME NEW o \in (1..2) \ {n} PROVE Over(Append(l, k), o)
  <2>1. k.inst # o /\ Over(l, o)
    BY <1>2 DEF Others
  <2> QED
    BY <1>1, <2>1, OthersStay
<1> QED
  BY <1>2 DEF Others

LEMMA WordsTyped ==
  ASSUME NEW n \in 0..2, NEW w \in Words, n = 0 => w \in {"dlopen", "dlclose"}
  PROVE  /\ Call(n, w, None) \in CallType
         /\ Call(n, w, None).inst = n /\ Call(n, w, None).what = w
<1>1. None \in Args
  BY DEF Args
<1> QED
  BY <1>1, CallTyped

LEMMA MakeStage ==
  ASSUME NEW l, NEW n \in 1..2, Unmade(l, n)
  PROVE  Made(Append(l, Call(n, "new", None)), n)
<1>1. n \in 0..2 /\ "new" \in Words
  BY DEF Words
<1>2. Orderly(l) /\ Fresh(l, n) /\ Others(l, n)
  BY DEF Unmade
<1>3. Others(Append(l, Call(n, "new", None)), n)
  BY <1>1, <1>2, WordsTyped, OthersKept
<1> QED
  BY <1>2, <1>3, IsMade DEF Made

LEMMA InitStage ==
  ASSUME NEW l, NEW n \in 1..2, Made(l, n), NEW a \in Args
  PROVE  Initialised(Append(l, Call(n, "init", a)), n, a)
<1>1. n \in 0..2 /\ "init" \in Words
  BY DEF Words
<1>2. Orderly(l) /\ Raw(l, n) /\ Others(l, n)
  BY DEF Made
<1>3. Others(Append(l, Call(n, "init", a)), n)
  BY <1>1, <1>2, CallTyped, OthersKept
<1> QED
  BY <1>2, <1>3, IsInitialised DEF Initialised

LEMMA ShutdownStage ==
  ASSUME NEW l, NEW n \in 1..2, NEW a, Initialised(l, n, a)
  PROVE  Stopped(Append(l, Call(n, "shutdown", None)), n)
<1>1. n \in 0..2 /\ "shutdown" \in Words
  BY DEF Words
<1>2. Orderly(l) /\ Ready(l, n, a) /\ Others(l, n)
  BY DEF Initialised
<1>3. Others(Append(l, Call(n, "shutdown", None)), n)
  BY <1>1, <1>2, WordsTyped, OthersKept
<1> QED
  BY <1>2, <1>3, IsShutDown DEF Stopped

LEMMA DropStage ==
  ASSUME NEW l, NEW n \in 1..2, Stopped(l, n)
  PROVE  /\ Settled(Append(l, Call(n, "drop", None)))
         /\ Gone(Append(l, Call(n, "drop", None)), n)
<1>1. n \in 0..2 /\ "drop" \in Words
  BY DEF Words
<1>2. Orderly(l) /\ Down(l, n) /\ Others(l, n)
  BY DEF Stopped
<1>3. Others(Append(l, Call(n, "drop", None)), n)
  BY <1>1, <1>2, WordsTyped, OthersKept
<1>4. /\ Orderly(Append(l, Call(n, "drop", None)))
      /\ Gone(Append(l, Call(n, "drop", None)), n)
  BY <1>2, IsDropped
<1> QED
  BY <1>3, <1>4 DEF Settled, Others, Over

(* An instance that failed to initialise, or is dropped as it is, needs no   *)
(* shutdown.                                                                 *)
LEMMA MayBeDropped ==
  ASSUME NEW l, NEW n \in 1..2, NEW a, Initialised(l, n, a)
  PROVE  Stopped(l, n)
  BY DEF Initialised, Stopped, Ready, Down

(* Calls on the library itself are of no instance.                           *)
LEMMA LibraryCall ==
  ASSUME NEW l, NEW w \in {"dlopen", "dlclose"}, NEW n \in 1..2
  PROVE  /\ Unmade(l, n) => Unmade(Append(l, Call(0, w, None)), n)
         /\ Stopped(l, n) => Stopped(Append(l, Call(0, w, None)), n)
         /\ Settled(l) => Settled(Append(l, Call(0, w, None)))
<1> DEFINE k == Call(0, w, None)
<1>1. k \in CallType /\ k.inst = 0 /\ k.what = w
  <2>1. 0 \in 0..2 /\ w \in Words
    BY DEF Words
  <2> QED
    BY <2>1, WordsTyped
<1> HIDE DEF k
<1>2. Orderly(l) => Orderly(Append(l, k))
  <2>1. ASSUME Orderly(l), NEW i \in 1..Len(l) PROVE Follows(l[i], k)
    <3>1. l[i] \in CallType
      BY <2>1 DEF Orderly
    <3>2. l[i].inst = 0 => l[i].what \in {"dlopen", "dlclose"}
      BY <3>1 DEF CallType
    <3> QED
      BY <1>1, <3>2 DEF Follows
  <2> QED
    BY <1>1, <2>1, OrderlyAppended
<1>3. Orderly(l) => l \in Seq(CallType)
  BY DEF Orderly
<1>4. \A o \in 1..2 : k.inst # o
  BY <1>1
<1>5. Orderly(l) /\ Others(l, n) => Others(Append(l, k), n)
  BY <1>1, OthersKept
<1>6. Unmade(l, n) => Unmade(Append(l, k), n)
  BY <1>2, <1>3, <1>4, <1>5, <1>1, OthersStay DEF Unmade
<1>7. Stopped(l, n) => Stopped(Append(l, k), n)
  BY <1>2, <1>3, <1>4, <1>5, <1>1, OthersStay DEF Stopped
<1>8. Settled(l) => Settled(Append(l, k))
  BY <1>2, <1>3, <1>4, <1>1, OthersStay DEF Settled
<1> QED
  BY <1>6, <1>7, <1>8 DEF k

(* Writing several calls is writing one after the other.                      *)
LEMMA OneCall ==
  ASSUME NEW l \in Seq(CallType), NEW n \in 0..2, NEW w \in Words,
         n = 0 => w \in {"dlopen", "dlclose"}
  PROVE  /\ l \o Calls(n, <<w>>) = Append(l, Call(n, w, None))
         /\ Append(l, Call(n, w, None)) \in Seq(CallType)
<1> DEFINE k == Call(n, w, None)
<1>1. Calls(n, <<w>>) = <<k>>
  BY DEF Calls
<1>2. k \in CallType
  BY WordsTyped
<1> HIDE DEF k
<1>3. Append(l, k) = l \o <<k>>
  BY <1>2, AppendIsConcat
<1>4. Append(l, k) \in Seq(CallType)
  BY <1>2
<1> QED
  BY <1>1, <1>3, <1>4 DEF k

LEMMA TwoCalls ==
  ASSUME NEW l \in Seq(CallType), NEW n \in 1..2, NEW v \in Words, NEW w \in Words
  PROVE  /\ l \o Calls(n, <<v, w>>) = Append(Append(l, Call(n, v, None)), Call(n, w, None))
         /\ Append(Append(l, Call(n, v, None)), Call(n, w, None)) \in Seq(CallType)
<1> DEFINE j == Call(n, v, None)
           k == Call(n, w, None)
<1>1. Calls(n, <<v, w>>) = <<j, k>>
  BY DEF Calls
<1>2. j \in CallType /\ k \in CallType
  <2>1. n \in 0..2 /\ n # 0
    OBVIOUS
  <2> QED
    BY <2>1, WordsTyped
<1> HIDE DEF j, k
<1>3. <<j>> \in Seq(CallType) /\ <<k>> \in Seq(CallType) /\ <<j, k>> = <<j>> \o <<k>>
  <2>1. <<j>> \in Seq(CallType) /\ <<k>> \in Seq(CallType)
    BY <1>2
  <2> DEFINE m == <<j>> \o <<k>>
  <2>2. m \in Seq(CallType) /\ Len(m) = 2 /\ m[1] = j /\ m[2] = k
    BY <2>1, ConcatProperties
  <2>3. <<j, k>> \in Seq(CallType) /\ Len(<<j, k>>) = 2
    BY <1>2
  <2> HIDE DEF m
  <2>4. \A i \in 1..2 : m[i] = <<j, k>>[i]
    BY <2>2
  <2>5. m = <<j, k>>
    BY <2>2, <2>3, <2>4, SeqEqual
  <2> QED
    BY <2>1, <2>5 DEF m
<1>4. (l \o <<j>>) \o <<k>> = l \o <<j, k>>
  BY <1>3, ConcatAssociative
<1>5. Append(l, j) = l \o <<j>> /\ Append(l, j) \in Seq(CallType)
  BY <1>2, AppendIsConcat
<1>6. /\ Append(Append(l, j), k) = Append(l, j) \o <<k>>
      /\ Append(Append(l, j), k) \in Seq(CallType)
  BY <1>2, <1>5, AppendIsConcat
<1> QED
  BY <1>1, <1>4, <1>5, <1>6 DEF j, k

(* Dropping the Option<Library> says nothing, or that the library is closed.  *)
LEMMA Unloads ==
  ASSUME NEW l \in Seq(CallType), NEW c
  PROVE  \/ l \o dlclose(c) = l
         \/ l \o dlclose(c) = Append(l, Call(0, "dlclose", None))
<1>1. CASE c \in ToSet(Builtins)
  BY <1>1, ConcatEmptySeq DEF dlclose
<1>2. CASE c \notin ToSet(Builtins)
  <2>1. 0 \in 0..2 /\ "dlclose" \in Words /\ "dlclose" \in {"dlopen", "dlclose"}
    BY DEF Words
  <2> QED
    BY <1>2, <2>1, OneCall DEF dlclose
<1> QED
  BY <1>1, <1>2

LEMMA UnloadsSettled ==
  ASSUME NEW l, NEW c, Settled(l)
  PROVE  Settled(l \o dlclose(c))
<1>1. l \in Seq(CallType)
  BY DEF Settled, Orderly
<1>2. Settled(Append(l, Call(0, "dlclose", None)))
  <2>1. 1 \in 1..2
    OBVIOUS
  <2> QED
    BY <2>1, LibraryCall
<1> QED
  BY <1>1, <1>2, Unloads

(* The three ways an instance that was initialised goes.                      *)
LEMMA EndsShutDown ==
  ASSUME NEW l, NEW n \in 1..2, NEW a, Initialised(l, n, a), NEW c
  PROVE  /\ Settled(l \o Calls(n, <<"shutdown", "drop">>))
         /\ Gone(l \o Calls(n, <<"shutdown", "drop">>), n)
         /\ Settled((l \o Calls(n, <<"shutdown", "drop">>)) \o dlclose(c))
<1> DEFINE m == Append(Append(l, Call(n, "shutdown", None)), Call(n, "drop", None))
<1>1. l \in Seq(CallType)
  BY DEF Initialised, Orderly
<1>2. Settled(m) /\ Gone(m, n)
  BY ShutdownStage, DropStage
<1>3. l \o Calls(n, <<"shutdown", "drop">>) = m
  <2>1. "shutdown" \in Words /\ "drop" \in Words
    BY DEF Words
  <2> QED
    BY <1>1, <2>1, TwoCalls
<1> HIDE DEF m
<1> QED
  BY <1>2, <1>3, UnloadsSettled

LEMMA EndsDropped ==
  ASSUME NEW l, NEW n \in 1..2, Stopped(l, n)
  PROVE  /\ Settled(l \o Calls(n, <<"drop">>))
         /\ \A c : Settled((l \o Calls(n, <<"drop">>)) \o dlclose(c))
<1> DEFINE m == Append(l, Call(n, "drop", None))
<1>1. l \in Seq(CallType)
  BY DEF Stopped, Orderly
<1>2. Settled(m)
  BY DropStage
<1>3. l \o Calls(n, <<"drop">>) = m
  <2>1. "drop" \in Words /\ n \in 0..2 /\ n # 0
    BY DEF Words
  <2> QED
    BY <1>1, <2>1, OneCall
<1> HIDE DEF m
<1> QED
  BY <1>2, <1>3, UnloadsSettled

LEMMA EndsFailed ==
  ASSUME NEW l, NEW n \in 1..2, Stopped(l, n), NEW c
  PROVE  Settled(l \o FailedInit(c, n))
<1>1. l \in Seq(CallType)
  BY DEF Stopped, Orderly
<1>2. Stopped(l \o dlclose(c), n)
  <2>1. Stopped(Append(l, Call(0, "dlclose", None)), n)
    BY LibraryCall
  <2> QED
    BY <1>1, <2>1, Unloads
<1>3. dlclose(c) \in Seq(CallType) /\ Calls(n, <<"drop">>) \in Seq(CallType)
  <2>1. /\ 0 \in 0..2 /\ "dlclose" \in Words /\ "dlclose" \in {"dlopen", "dlclose"}
        /\ n \in 0..2 /\ n # 0 /\ "drop" \in Words
    BY DEF Words
  <2>2. Call(0, "dlclose", None) \in CallType /\ Call(n, "drop", None) \in CallType
    BY <2>1, WordsTyped
  <2>3. /\ Calls(0, <<"dlclose">>) = <<Call(0, "dlclose", None)>>
        /\ Calls(n, <<"drop">>) = <<Call(n, "drop", None)>>
    BY DEF Calls
  <2>4. \A k \in CallType : <<k>> \in Seq(CallType)
    OBVIOUS
  <2>5. << >> \in Seq(CallType)
    OBVIOUS
  <2> QED
    BY <2>2, <2>3, <2>4, <2>5, Zenon DEF dlclose
<1>4. l \o FailedInit(c, n) = (l \o dlclose(c)) \o Calls(n, <<"drop">>)
  <2>1. (l \o dlclose(c)) \o Calls(n, <<"drop">>) = l \o (dlclose(c) \o Calls(n, <<"drop">>))
    BY <1>1, <1>3, ConcatAssociative
  <2> QED
    BY <2>1, Zenon DEF FailedInit
<1> QED
  BY <1>2, <1>4, EndsDropped

-----------------------------------------------------------------------------
(* Registration.  A candidate is refused and every instance made of it is    *)
(* gone, or it is enrolled with one instance that is alive and was           *)
(* initialised with the config it was loaded with.                           *)

ConfTyped == \A id \in DOMAIN conf : conf[id] \in STRING \ {""}

Crossed(c) == FromRPluginManifest(IntoRPluginManifest(Plugin[c].manifest))

Enrolled(h, c, n) ==
    LET a == AcceptSensors(h.registry, Len(h.plugins) + 1, Crossed(c).sensors)
    IN [plugins |-> Append(h.plugins, [cand |-> c, inst |-> n, id |-> Crossed(c).id,
                                       sensors |-> a.accepted, devices |-> Crossed(c).devices]),
        registry |-> a.registry]

Refused(h, r) == r.host = h /\ Settled(r.log)

Welcome(h, c) ==
    /\ validate_manifest(IntoRPluginManifest(Plugin[c].manifest))
    /\ \A e \in ToSet(h.plugins) : e.id # Crossed(c).id

Accepted(h, c, n, config, r) ==
    r.host = Enrolled(h, c, n) /\ Initialised(r.log, n, config) /\ Welcome(h, c)

\* The id the metadata symbol gave, if there is one, is the plugin's.
Vouched(c, expected) == expected # None => Crossed(c).id = expected

LEMMA RefusedReg ==
  ASSUME NEW h, NEW l, Settled(l)
  PROVE  Refused(h, Reg(h, l))
  BY DEF Refused, Reg

LEMMA ConfigCrosses ==
  ASSUME NEW a \in Args \ {""}
  PROVE  InitArg(a) = a
<1>1. IntoRPluginCtx(a).config_json = IF a = "null" THEN "" ELSE a
  BY DEF IntoRPluginCtx
<1> QED
  BY <1>1 DEF InitArg, FromRPluginCtx

LEMMA ConfigTyped ==
  ASSUME ConfTyped, NEW id
  PROVE  cfg(id) \in Args \ {""}
  BY DEF ConfTyped, cfg, Args

LEMMA InitSucceeds ==
  ASSUME NEW c, NEW o \in Outcomes, host_init(c, o).err = None
  PROVE  /\ host_init(c, o).manifest = Crossed(c)
         /\ validate_manifest(IntoRPluginManifest(Plugin[c].manifest))
<1> DEFINE m == IntoRPluginManifest(Plugin[c].manifest)
<1>1. o \in {"ok", "panic", "Io"}
  BY DEF Outcomes
<1> HIDE DEF m
<1>2. CASE o = "panic"
  BY <1>2 DEF host_init, None
<1>3. CASE o = "Io"
  BY <1>3 DEF host_init, None, FromRPluginError, IntoRPluginError
<1>4. CASE o = "ok"
  BY <1>4 DEF host_init, None, Crossed, m
<1> QED
  BY <1>1, <1>2, <1>3, <1>4 DEF m

LEMMA FinishRegister ==
  ASSUME NEW h, NEW l, NEW c, NEW n \in 1..2, NEW a, Initialised(l, n, a),
         validate_manifest(IntoRPluginManifest(Plugin[c].manifest))
  PROVE  \/ Refused(h, finish_register(h, l, c, n, Crossed(c)))
         \/ Accepted(h, c, n, a, finish_register(h, l, c, n, Crossed(c)))
<1> DEFINE r == finish_register(h, l, c, n, Crossed(c))
<1>1. CASE \E e \in ToSet(h.plugins) : e.id = Crossed(c).id
  <2>1. r = Reg(h, (l \o Calls(n, <<"shutdown", "drop">>)) \o dlclose(c))
    BY <1>1, Zenon DEF finish_register
  <2>2. Settled((l \o Calls(n, <<"shutdown", "drop">>)) \o dlclose(c))
    BY EndsShutDown
  <2> QED
    BY <2>1, <2>2, RefusedReg, Zenon
<1>2. CASE ~ \E e \in ToSet(h.plugins) : e.id = Crossed(c).id
  <2>1. r = Reg(Enrolled(h, c, n), l)
    BY <1>2, Zenon DEF finish_register, Enrolled
  <2>2. Welcome(h, c)
    BY <1>2 DEF Welcome
  <2> QED
    BY <2>1, <2>2 DEF Accepted, Reg
<1> QED
  BY <1>1, <1>2

LEMMA RegisterResult ==
  ASSUME NEW h, NEW l, NEW c, NEW n \in 1..2, Made(l, n), NEW config \in Args \ {""},
         NEW o \in Outcomes, NEW expected
  PROVE  LET r == register_with_config_checked(h, l, c, n, config, o, expected)
         IN \/ Refused(h, r)
            \/ Accepted(h, c, n, config, r) /\ Vouched(c, expected)
<1> DEFINE r == register_with_config_checked(h, l, c, n, config, o, expected)
           i == host_init(c, o)
           l1 == Append(l, Call(n, "init", InitArg(config)))
<1>1. Initialised(l1, n, config)
  BY ConfigCrosses, InitStage
<1>2. i.err = None => i.manifest = Crossed(c)
                      /\ validate_manifest(IntoRPluginManifest(Plugin[c].manifest))
  BY InitSucceeds
<1>3. CASE i.err # None
  <2>1. r = Reg(h, l1 \o FailedInit(c, n))
    BY <1>3 DEF register_with_config_checked
  <2>2. Settled(l1 \o FailedInit(c, n))
    BY <1>1, MayBeDropped, EndsFailed
  <2> QED
    BY <2>1, <2>2, RefusedReg, Zenon
<1>4. CASE i.err = None /\ expected # None /\ i.manifest.id # expected
  <2>1. r = Reg(h, (l1 \o Calls(n, <<"shutdown", "drop">>)) \o dlclose(c))
    BY <1>4 DEF register_with_config_checked
  <2>2. Settled((l1 \o Calls(n, <<"shutdown", "drop">>)) \o dlclose(c))
    BY <1>1, EndsShutDown
  <2> QED
    BY <2>1, <2>2, RefusedReg, Zenon
<1>5. CASE i.err = None /\ ~ (expected # None /\ i.manifest.id # expected)
  <2>1. r = finish_register(h, l1, c, n, i.manifest)
    BY <1>5 DEF register_with_config_checked
  <2>2. i.manifest = Crossed(c)
        /\ validate_manifest(IntoRPluginManifest(Plugin[c].manifest))
    BY <1>2, <1>5
  <2> HIDE DEF l1, i
  <2>3. Refused(h, r) \/ Accepted(h, c, n, config, r)
    BY <1>1, <2>1, <2>2, FinishRegister
  <2>4. Vouched(c, expected)
    BY <1>5, <2>2 DEF Vouched
  <2> QED
    BY <2>3, <2>4
<1> QED
  BY <1>3, <1>4, <1>5, Zenon

LEMMA Alone ==
  ASSUME NEW S, NEW k \in S
  PROVE  <<k>> \in Seq(S) /\ Len(<<k>>) = 1
  OBVIOUS

(* Where the log of a candidate starts.                                       *)
LEMMA EmptyLog ==
  /\ Settled(<< >>)
  /\ \A n \in 1..2 : Unmade(<< >>, n)
<1>1. << >> \in Seq(CallType) /\ Len(<< >>) = 0
  BY EmptySeq
<1>2. \A i \in 1..0 : FALSE
  OBVIOUS
<1>3. Orderly(<< >>)
  BY <1>1, <1>2 DEF Orderly
<1>4. \A n : Fresh(<< >>, n)
  BY <1>1, <1>2 DEF Fresh
<1> QED
  BY <1>3, <1>4 DEF Settled, Unmade, Others, Over

LEMMA Instantiated ==
  ASSUME NEW l, NEW n \in 1..2, Unmade(l, n)
  PROVE  Made(l \o instantiate(n), n)
<1>1. l \in Seq(CallType)
  BY DEF Unmade, Orderly
<1>2. l \o Calls(n, <<"new">>) = Append(l, Call(n, "new", None))
  <2>1. "new" \in Words /\ n \in 0..2 /\ n # 0
    BY DEF Words
  <2> QED
    BY <1>1, <2>1, OneCall
<1> QED
  BY <1>2, MakeStage DEF instantiate

LEMMA Opened ==
  /\ Settled(Calls(0, <<"dlopen">>))
  /\ Unmade(Calls(0, <<"dlopen">>), 1)
<1>1. 0 \in 0..2 /\ "dlopen" \in Words /\ "dlopen" \in {"dlopen", "dlclose"} /\ 1 \in 1..2
  BY DEF Words
<1>2. << >> \in Seq(CallType)
  BY EmptySeq
<1>3. << >> \o Calls(0, <<"dlopen">>) = Append(<< >>, Call(0, "dlopen", None))
  BY <1>1, <1>2, OneCall
<1>4. Calls(0, <<"dlopen">>) \in Seq(CallType)
  <2>1. Call(0, "dlopen", None) \in CallType
    BY <1>1, WordsTyped
  <2>2. Calls(0, <<"dlopen">>) = <<Call(0, "dlopen", None)>>
    BY DEF Calls
  <2> QED
    BY <2>1, <2>2, Alone, Zenon
<1>5. Calls(0, <<"dlopen">>) = Append(<< >>, Call(0, "dlopen", None))
  BY <1>3, <1>4, ConcatEmptySeq
<1> QED
  BY <1>1, <1>5, EmptyLog, LibraryCall

LEMMA ProbedResult ==
  ASSUME NEW h, NEW l, NEW c, Made(l, 1), Fresh(l, 2), NEW o1 \in Outcomes, NEW o2 \in Outcomes,
         ConfTyped
  PROVE  LET r == LoadProbed(h, l, c, o1, o2)
         IN \/ Refused(h, r)
            \/ \E n \in 1..2 : Accepted(h, c, n, cfg(Crossed(c).id), r)
<1> DEFINE r == LoadProbed(h, l, c, o1, o2)
           i == host_init(c, o1)
           l1 == Append(l, Call(1, "init", InitArg("null")))
           l2 == l1 \o Calls(1, <<"shutdown", "drop">>)
<1>1. /\ "null" \in Args \ {""} /\ 1 \in 1..2 /\ 2 \in 1..2
      /\ \A id : cfg(id) \in Args \ {""}
  <2>1. "null" \in Args \ {""} /\ 1 \in 1..2 /\ 2 \in 1..2
    BY DEF Args
  <2>2. \A id : cfg(id) \in Args \ {""}
    BY ConfigTyped, Zenon
  <2> QED
    BY <2>1, <2>2, Zenon
<1>2. Initialised(l1, 1, "null")
  BY <1>1, ConfigCrosses, InitStage
<1>3. i.err = None => i.manifest = Crossed(c)
                      /\ validate_manifest(IntoRPluginManifest(Plugin[c].manifest))
  BY InitSucceeds
<1>4. CASE i.err # None
  <2>1. r = Reg(h, (l1 \o Calls(1, <<"drop">>)) \o dlclose(c))
    BY <1>4, Zenon DEF LoadProbed
  <2>2. Settled((l1 \o Calls(1, <<"drop">>)) \o dlclose(c))
    BY <1>1, <1>2, MayBeDropped, EndsDropped
  <2> QED
    BY <2>1, <2>2, RefusedReg, Zenon
<1>5. CASE i.err = None /\ cfg(i.manifest.id) = "null"
  <2>1. r = finish_register(h, l1, c, 1, i.manifest)
    BY <1>5, Zenon DEF LoadProbed
  <2>2. /\ i.manifest = Crossed(c) /\ cfg(Crossed(c).id) = "null"
        /\ validate_manifest(IntoRPluginManifest(Plugin[c].manifest))
    BY <1>3, <1>5, Zenon
  <2> HIDE DEF l1, i
  <2>3. Refused(h, r) \/ Accepted(h, c, 1, "null", r)
    BY <1>1, <1>2, <2>1, <2>2, FinishRegister
  <2> QED
    BY <1>1, <2>2, <2>3, Zenon
<1>6. CASE i.err = None /\ cfg(i.manifest.id) # "null"
  <2>1. r = register_with_config_checked(h, l2 \o Calls(2, <<"new">>), c, 2,
                                         cfg(i.manifest.id), o2, None)
    BY <1>6, Zenon DEF LoadProbed
  <2>2. i.manifest = Crossed(c)
    BY <1>3, <1>6, Zenon
  <2>3. Settled(l2) /\ Fresh(l2, 2)
    <3>1. Settled(l2)
      BY <1>1, <1>2, EndsShutDown
    <3>2. l \in Seq(CallType) /\ l1 \in Seq(CallType)
      BY <1>2 DEF Made, Initialised, Orderly
    <3>3. "init" \in Words /\ "shutdown" \in Words /\ "drop" \in Words
          /\ 1 \in 0..2 /\ 1 # 0 /\ 1 # 2
      BY DEF Words
    <3>4. /\ Call(1, "init", InitArg("null")) \in CallType
          /\ Call(1, "init", InitArg("null")).inst = 1
      <4>1. InitArg("null") \in Args
        BY <1>1, ConfigCrosses
      <4> QED
        BY <3>3, <4>1, CallTyped
    <3>5. Fresh(l1, 2)
      BY <3>2, <3>3, <3>4, OthersStay
    <3>6. /\ Call(1, "shutdown", None) \in CallType /\ Call(1, "shutdown", None).inst = 1
          /\ Call(1, "drop", None) \in CallType /\ Call(1, "drop", None).inst = 1
      BY <3>3, WordsTyped
    <3>7. /\ l2 = Append(Append(l1, Call(1, "shutdown", None)), Call(1, "drop", None))
          /\ Append(l1, Call(1, "shutdown", None)) \in Seq(CallType)
      <4> HIDE DEF l1
      <4>1. l2 = Append(Append(l1, Call(1, "shutdown", None)), Call(1, "drop", None))
        <5>1. ASSUME NEW v \in Words, NEW w \in Words
              PROVE  l1 \o Calls(1, <<v, w>>) = Append(Append(l1, Call(1, v, None)), Call(1, w, None))
          <6>1. l1 \in Seq(CallType) /\ 1 \in 1..2
            BY <1>1, <3>2
          <6> QED
            BY <5>1, <6>1, TwoCalls, Zenon
        <5>2. "shutdown" \in Words /\ "drop" \in Words
          BY <3>3
        <5> QED
          BY <5>1, <5>2, Zenon
      <4>2. Append(l1, Call(1, "shutdown", None)) \in Seq(CallType)
        BY <3>2, <3>6, Appended
      <4> QED
        BY <4>1, <4>2
    <3> HIDE DEF l1, l2
    <3>8. Fresh(Append(l1, Call(1, "shutdown", None)), 2)
      BY <3>2, <3>3, <3>5, <3>6, OthersStay
    <3>9. Fresh(l2, 2)
      BY <3>3, <3>6, <3>7, <3>8, OthersStay
    <3> QED
      BY <3>1, <3>9
  <2> HIDE DEF l2, l1, i
  <2>4. Made(l2 \o Calls(2, <<"new">>), 2)
    <3>1. Unmade(l2, 2)
      BY <2>3 DEF Unmade, Settled, Others
    <3> QED
      BY <1>1, <3>1, Instantiated DEF instantiate
  <2>5. Refused(h, r) \/ Accepted(h, c, 2, cfg(i.manifest.id), r)
    BY <1>1, <2>1, <2>4, RegisterResult, Zenon
  <2> QED
    BY <1>1, <2>2, <2>5, Zenon
<1> QED
  BY <1>4, <1>5, <1>6, Zenon

LEMMA LibraryResult ==
  ASSUME NEW h, NEW c, NEW o1 \in Outcomes, NEW o2 \in Outcomes, ConfTyped
  PROVE  LET r == LoadLibrary(h, c, o1, o2)
         IN \/ Refused(h, r)
            \/ \E n \in 1..2 : Accepted(h, c, n, cfg(Crossed(c).id), r)
<1> DEFINE r == LoadLibrary(h, c, o1, o2)
           opened == Calls(0, <<"dlopen">>)
           id == load_metadata(c)
<1>1. /\ Settled(opened) /\ Unmade(opened, 1)
      /\ 1 \in 1..2 /\ 2 \in 1..2
  BY Opened
<1>2. Made(opened \o instantiate(1), 1)
  BY <1>1, Instantiated
<1>3. Fresh(opened \o instantiate(1), 2)
  <2>1. opened = <<Call(0, "dlopen", None)>> /\ instantiate(1) = <<Call(1, "new", None)>>
    BY DEF Calls, instantiate
  <2>2. /\ 0 \in 0..2 /\ "dlopen" \in Words /\ "dlopen" \in {"dlopen", "dlclose"}
        /\ 1 \in 0..2 /\ 1 # 0 /\ "new" \in Words
    BY DEF Words
  <2>3. /\ Call(0, "dlopen", None) \in CallType /\ Call(0, "dlopen", None).inst = 0
        /\ Call(1, "new", None) \in CallType /\ Call(1, "new", None).inst = 1
    BY <2>2, WordsTyped
  <2>4. opened \in Seq(CallType) /\ Fresh(opened, 2)
    <3>1. opened \in Seq(CallType) /\ Len(opened) = 1
      BY <2>1, <2>3, Alone, Zenon
    <3>2. opened[1].inst = 0
      BY <2>1, <2>3
    <3> HIDE DEF opened
    <3> QED
      BY <3>1, <3>2 DEF Fresh
  <2>5. opened \o instantiate(1) = Append(opened, Call(1, "new", None))
    BY <2>2, <2>4, OneCall DEF instantiate
  <2> HIDE DEF opened
  <2>6. Fresh(Append(opened, Call(1, "new", None)), 2)
    BY <2>2, <2>3, <2>4, OthersStay
  <2> QED
    BY <2>5, <2>6
<1>4. CASE ~ load_one(c)
  <2>1. r = Reg(h, opened \o dlclose(c))
    BY <1>4 DEF LoadLibrary
  <2>2. Settled(opened \o dlclose(c))
    BY <1>1, UnloadsSettled
  <2> QED
    BY <2>1, <2>2, RefusedReg, Zenon
<1>5. CASE load_one(c) /\ id # None
  <2>1. r = register_with_config_checked(h, opened \o instantiate(1), c, 1,
                                         cfg(id), o1, id)
    BY <1>5 DEF LoadLibrary
  <2>2. cfg(id) \in Args \ {""}
    BY ConfigTyped
  <2> HIDE DEF opened, id
  <2>3. \/ Refused(h, r)
        \/ Accepted(h, c, 1, cfg(id), r) /\ Vouched(c, id)
    BY <1>1, <1>2, <2>1, <2>2, RegisterResult, Zenon
  <2>4. Vouched(c, id) => Crossed(c).id = id
    BY <1>5 DEF Vouched
  <2> QED
    BY <1>1, <2>3, <2>4, Zenon
<1>6. CASE load_one(c) /\ id = None
  <2>1. r = LoadProbed(h, opened \o instantiate(1), c, o1, o2)
    BY <1>6 DEF LoadLibrary
  <2> HIDE DEF opened, id
  <2> QED
    BY <1>2, <1>3, <2>1, ProbedResult, Zenon
<1> QED
  BY <1>4, <1>5, <1>6, Zenon

-----------------------------------------------------------------------------
(* The sensors of a manifest, one after the other.  new is the registry after *)
(* the first i of them, reg the one before the manifest.                      *)

Accepting == INSTANCE Loops WITH Step <- AcceptSensor

FirstOf(sensors, i, id, d) ==
    \E j \in 1..i : /\ sensors[j] = d /\ d.id = id
                    /\ \A k \in 1..(j - 1) : sensors[k].id # id

RegistryOK(new, reg, ix, sensors, i) ==
    /\ \A id : id \in DOMAIN new <=> id \in DOMAIN reg \/ \E j \in 1..i : sensors[j].id = id
    /\ \A id \in DOMAIN reg : new[id] = reg[id]
    /\ \A id \in DOMAIN new :
           id \in DOMAIN reg \/ (new[id].idx = ix /\ FirstOf(sensors, i, id, new[id].desc))

ListOK(list, new, reg, S) ==
    /\ list \in Seq(S)
    /\ \A p \in 1..Len(list) : /\ list[p].id \in DOMAIN new /\ list[p].id \notin DOMAIN reg
                               /\ new[list[p].id].desc = list[p]
    /\ \A p, q \in 1..Len(list) : list[p].id = list[q].id => p = q
    /\ \A id \in DOMAIN new :
           id \in DOMAIN reg \/ \E p \in 1..Len(list) : list[p].id = id

AcceptOK(acc, reg, ix, sensors, i, S) ==
    /\ acc = [idx |-> ix, registry |-> acc.registry, accepted |-> acc.accepted]
    /\ RegistryOK(acc.registry, reg, ix, sensors, i)
    /\ ListOK(acc.accepted, acc.registry, reg, S)

LEMMA AcceptNext ==
  ASSUME NEW acc, NEW reg, NEW ix, NEW S, NEW sensors \in Seq(S), NEW i \in 1..Len(sensors),
         AcceptOK(acc, reg, ix, sensors, i - 1, S)
  PROVE  AcceptOK(AcceptSensor(acc, sensors[i]), reg, ix, sensors, i, S)
<1> DEFINE d == sensors[i]
           old == acc.registry
           new == [id \in DOMAIN old \cup {d.id} |->
                      IF id = d.id THEN [idx |-> ix, desc |-> d] ELSE old[id]]
           list == acc.accepted
<1>1. d \in S /\ i \in Nat \ {0} /\ i - 1 \in Nat
  OBVIOUS
<1>2. RegistryOK(old, reg, ix, sensors, i - 1) /\ ListOK(list, old, reg, S)
  BY DEF AcceptOK
<1>3. acc = [idx |-> ix, registry |-> old, accepted |-> list]
  BY DEF AcceptOK
<1>4. \A j : j \in 1..i <=> j \in 1..(i - 1) \/ j = i
  BY <1>1
<1>5. \A id, e : FirstOf(sensors, i - 1, id, e) => FirstOf(sensors, i, id, e)
  BY <1>4 DEF FirstOf
<1> HIDE DEF old, list
<1>6. CASE d.id \in DOMAIN old
  <2>1. AcceptSensor(acc, d) = acc
    BY <1>3, <1>6 DEF AcceptSensor
  <2>2. RegistryOK(old, reg, ix, sensors, i)
    BY <1>2, <1>4, <1>5, <1>6 DEF RegistryOK
  <2> QED
    BY <1>2, <1>3, <2>1, <2>2 DEF AcceptOK, old, list
<1>7. CASE d.id \notin DOMAIN old
  <2>1. AcceptSensor(acc, d) = [idx |-> ix, registry |-> new, accepted |-> Append(list, d)]
    BY <1>3, <1>7 DEF AcceptSensor
  <2>2. /\ \A id : id \in DOMAIN new <=> id \in DOMAIN old \/ id = d.id
        /\ \A id \in DOMAIN old : new[id] = old[id]
        /\ new[d.id].idx = ix /\ new[d.id].desc = d
    BY <1>7
  <2> HIDE DEF new
  <2>3. RegistryOK(new, reg, ix, sensors, i)
    <3>1. \A id : id \in DOMAIN new
                  <=> id \in DOMAIN reg \/ \E j \in 1..i : sensors[j].id = id
      BY <1>2, <1>4, <2>2 DEF RegistryOK
    <3>2. \A id \in DOMAIN reg : new[id] = reg[id]
      BY <1>2, <2>2 DEF RegistryOK
    <3>3. FirstOf(sensors, i, d.id, d)
      <4>1. \A k \in 1..(i - 1) : sensors[k].id # d.id
        BY <1>2, <1>7 DEF RegistryOK
      <4>2. i \in 1..i
        BY <1>1
      <4> QED
        BY <4>1, <4>2 DEF FirstOf
    <3>4. ASSUME NEW id \in DOMAIN new, id \notin DOMAIN reg
          PROVE  new[id].idx = ix /\ FirstOf(sensors, i, id, new[id].desc)
      <4>1. CASE id = d.id
        BY <2>2, <3>3, <4>1
      <4>2. CASE id # d.id
        <5>1. id \in DOMAIN old /\ new[id] = old[id]
          BY <2>2, <4>2
        <5>2. old[id].idx = ix /\ FirstOf(sensors, i - 1, id, old[id].desc)
          BY <1>2, <3>4, <5>1 DEF RegistryOK
        <5> QED
          BY <1>5, <5>1, <5>2
      <4> QED
        BY <4>1, <4>2
    <3> QED
      BY <3>1, <3>2, <3>4 DEF RegistryOK
  <2>4. ListOK(Append(list, d), new, reg, S)
    <3> DEFINE more == Append(list, d)
               n == Len(list)
    <3>1. /\ list \in Seq(S) /\ more \in Seq(S) /\ n \in Nat /\ Len(more) = n + 1
          /\ more[n + 1] = d /\ \A p \in 1..n : more[p] = list[p]
      <4>1. list \in Seq(S)
        BY <1>2 DEF ListOK
      <4> QED
        BY <1>1, <4>1
    <3>2. \A p \in 1..Len(more) : p \in 1..n \/ p = n + 1
      BY <3>1
    <3>3. \A p \in 1..n : p \in 1..Len(more)
      BY <3>1
    <3>4. n + 1 \in 1..Len(more)
      BY <3>1
    <3>5. \A p \in 1..n : /\ list[p].id \in DOMAIN old /\ list[p].id \notin DOMAIN reg
                          /\ old[list[p].id].desc = list[p]
      BY <1>2 DEF ListOK
    <3>6. d.id \notin DOMAIN reg /\ \A p \in 1..n : list[p].id # d.id
      BY <1>2, <1>7, <3>5 DEF RegistryOK
    <3>7. \A p, q \in 1..n : list[p].id = list[q].id => p = q
      BY <1>2 DEF ListOK
    <3>8. \A id \in DOMAIN old :
              id \in DOMAIN reg \/ \E p \in 1..n : list[p].id = id
      BY <1>2 DEF ListOK
    <3> HIDE DEF more, n
    <3>9. \A p \in 1..Len(more) : /\ more[p].id \in DOMAIN new /\ more[p].id \notin DOMAIN reg
                                  /\ new[more[p].id].desc = more[p]
      BY <2>2, <3>1, <3>2, <3>5, <3>6
    <3>10. \A p, q \in 1..Len(more) : more[p].id = more[q].id => p = q
      BY <3>1, <3>2, <3>6, <3>7
    <3>11. \A id \in DOMAIN new :
               id \in DOMAIN reg \/ \E p \in 1..Len(more) : more[p].id = id
      BY <2>2, <3>1, <3>3, <3>4, <3>8
    <3> QED
      BY <3>1, <3>9, <3>10, <3>11 DEF ListOK, more
  <2> QED
    BY <2>1, <2>3, <2>4 DEF AcceptOK
<1> QED
  BY <1>6, <1>7

LEMMA AcceptResult ==
  ASSUME NEW reg, NEW ix, NEW S, NEW sensors \in Seq(S)
  PROVE  AcceptOK(AcceptSensors(reg, ix, sensors), reg, ix, sensors, Len(sensors), S)
<1> DEFINE base == [idx |-> ix, registry |-> reg, accepted |-> << >>]
           n == Len(sensors)
<1>1. AcceptOK(base, reg, ix, sensors, 0, S)
  <2>1. /\ base = [idx |-> ix, registry |-> base.registry, accepted |-> base.accepted]
        /\ base.registry = reg /\ base.accepted = << >>
    OBVIOUS
  <2>2. << >> \in Seq(S) /\ Len(<< >>) = 0
    OBVIOUS
  <2>3. \A j \in 1..0 : FALSE
    OBVIOUS
  <2>4. RegistryOK(reg, reg, ix, sensors, 0)
    BY <2>3 DEF RegistryOK
  <2>5. ListOK(<< >>, reg, reg, S)
    BY <2>2, <2>3 DEF ListOK
  <2> QED
    BY <2>1, <2>4, <2>5 DEF AcceptOK
<1>2. n \in Nat /\ DOMAIN sensors = 1..n
  OBVIOUS
<1> HIDE DEF base, n
<1>3. PICK f : /\ Accepting!Runs(f, base, sensors, n)
               /\ AcceptSensors(reg, ix, sensors) = f[n]
  <2>1. \E f : /\ Accepting!Runs(f, base, sensors, n)
               /\ Accepting!FoldLeft(AcceptSensor, base, sensors) = f[n]
    BY <1>2, Accepting!FoldRuns
  <2>2. FoldLeft(AcceptSensor, base, sensors)
          = Accepting!FoldLeft(AcceptSensor, base, sensors)
    BY DEF FoldLeft, Accepting!FoldLeft, MapThenFoldSet, Accepting!MapThenFoldSet,
           Max, Accepting!Max
  <2>3. AcceptSensors(reg, ix, sensors) = FoldLeft(AcceptSensor, base, sensors)
    BY DEF AcceptSensors, base
  <2> QED
    BY <2>1, <2>2, <2>3
<1>4. \A i \in 0..n : i \in {k \in 0..n : AcceptOK(f[k], reg, ix, sensors, k, S)}
  <2> DEFINE G == {k \in 0..n : AcceptOK(f[k], reg, ix, sensors, k, S)}
  <2>1. 0 \in G
    BY <1>1, <1>2, <1>3 DEF Accepting!Runs
  <2>2. ASSUME NEW i \in 1..n, i - 1 \in G PROVE i \in G
    <3>1. f[i] = AcceptSensor(f[i - 1], sensors[i])
      BY <1>3 DEF Accepting!Runs
    <3>2. AcceptOK(f[i - 1], reg, ix, sensors, i - 1, S)
      BY <2>2
    <3>3. AcceptOK(f[i], reg, ix, sensors, i, S)
      BY <3>1, <3>2, AcceptNext DEF n
    <3> QED
      BY <1>2, <3>3
  <2>3. \A i \in 0..n : i \in G
    <3> HIDE DEF G
    <3> QED
      BY <1>2, <2>1, <2>2, Accepting!AlongTheRun
  <2> QED
    BY <2>3
<1>5. AcceptOK(f[n], reg, ix, sensors, n, S)
  BY <1>2, <1>4
<1> QED
  BY <1>3, <1>5 DEF n

-----------------------------------------------------------------------------
(* What crosses the boundary comes back as it was.                            *)

LEMMA KindCrosses ==
  ASSUME NEW enum, NEW v \in ToSet(enum)
  PROVE  Decode(enum, Encode(enum, v)) = v
  BY DEF ToSet, Decode, Encode

LEMMA PoppedInOrder ==
  ASSUME NEW S, NEW v \in Seq(S)
  PROVE  svec_into_std(v) = v
<1> DEFINE n == Len(v)
           popped == [i \in DOMAIN v |-> v[Len(v) + 1 - i]]
<1>1. n \in Nat /\ DOMAIN v = 1..n /\ v \in [1..n -> S]
  BY LenProperties
<1>2. popped = [i \in 1..n |-> v[n + 1 - i]]
  BY <1>1
<1>3. \A i \in 1..n : n + 1 - i \in 1..n
  BY <1>1
<1>4. popped \in [1..n -> S]
  BY <1>1, <1>2, <1>3
<1>5. Len(popped) = n
  BY <1>1, <1>4
<1>6. Reverse(popped) = [i \in 1..n |-> popped[(n - i) + 1]]
  BY <1>5 DEF Reverse
<1>7. \A i \in 1..n : popped[(n - i) + 1] = v[i]
  <2>1. \A i \in 1..n : (n - i) + 1 \in 1..n /\ n + 1 - ((n - i) + 1) = i
    BY <1>1
  <2> HIDE DEF n, popped
  <2> QED
    BY <1>2, <2>1
<1>8. Reverse(popped) = [i \in 1..n |-> v[i]]
  BY <1>6, <1>7
<1>9. v = [i \in 1..n |-> v[i]]
  BY <1>1
<1>10. svec_into_std(v) = Reverse(popped)
  BY DEF svec_into_std
<1> QED
  BY <1>8, <1>9, <1>10

LEMMA UnitCrosses ==
  ASSUME NEW u \in Unit
  PROVE  FromRUnit(IntoRUnit(u)) = u
<1>1. u.kind \in ToSet(RUnitKind)
  <2>1. "Custom" \in ToSet(RUnitKind)
    <3>1. 10 \in DOMAIN RUnitKind /\ RUnitKind[10] = "Custom"
      BY DEF RUnitKind
    <3> QED
      BY <3>1 DEF ToSet
  <2> QED
    BY <2>1 DEF Unit
<1>2. Decode(RUnitKind, Encode(RUnitKind, u.kind)) = u.kind
  BY <1>1, KindCrosses
<1>3. FromRUnit(IntoRUnit(u))
        = [kind |-> u.kind,
           label |-> IF u.kind # "Custom" THEN None
                     ELSE IF (IF u.kind = "Custom" THEN u.label ELSE None) = None THEN ""
                     ELSE (IF u.kind = "Custom" THEN u.label ELSE None)]
  BY <1>2 DEF FromRUnit, IntoRUnit
<1>4. CASE u.kind = "Custom"
  <2>1. u.label # None /\ u = [kind |-> u.kind, label |-> u.label]
    BY <1>4 DEF Unit, Text
  <2> QED
    BY <1>3, <1>4, <2>1
<1>5. CASE u.kind # "Custom"
  <2>1. u.label = None /\ u = [kind |-> u.kind, label |-> u.label]
    BY <1>5 DEF Unit
  <2> QED
    BY <1>3, <1>5, <2>1
<1> QED
  BY <1>4, <1>5

(* A field at a time, the record's own fields are replaced.  *)
LEMMA DescriptorFields ==
  ASSUME NEW i, NEW o, NEW u, NEW k, NEW c, NEW t, NEW v, NEW x, NEW r,
         r = [id |-> i, id_ok |-> o, unit |-> u, kind |-> k, category |-> c, tags |-> t,
              device_key |-> v]
  PROVE  /\ [r EXCEPT !.unit = x]
              = [id |-> i, id_ok |-> o, unit |-> x, kind |-> k, category |-> c, tags |-> t,
                 device_key |-> v]
         /\ [r EXCEPT !.kind = x]
              = [id |-> i, id_ok |-> o, unit |-> u, kind |-> x, category |-> c, tags |-> t,
                 device_key |-> v]
         /\ [r EXCEPT !.category = x]
              = [id |-> i, id_ok |-> o, unit |-> u, kind |-> k, category |-> x, tags |-> t,
                 device_key |-> v]
         /\ [r EXCEPT !.tags = x]
              = [id |-> i, id_ok |-> o, unit |-> u, kind |-> k, category |-> c, tags |-> x,
                 device_key |-> v]
<1> DEFINE q == [id |-> i, id_ok |-> o, unit |-> u, kind |-> k, category |-> c, tags |-> t,
                 device_key |-> v]
<1>1. /\ [q EXCEPT !.unit = x]
           = [id |-> i, id_ok |-> o, unit |-> x, kind |-> k, category |-> c, tags |-> t,
              device_key |-> v]
      /\ [q EXCEPT !.kind = x]
           = [id |-> i, id_ok |-> o, unit |-> u, kind |-> x, category |-> c, tags |-> t,
              device_key |-> v]
      /\ [q EXCEPT !.category = x]
           = [id |-> i, id_ok |-> o, unit |-> u, kind |-> k, category |-> x, tags |-> t,
              device_key |-> v]
      /\ [q EXCEPT !.tags = x]
           = [id |-> i, id_ok |-> o, unit |-> u, kind |-> k, category |-> c, tags |-> x,
              device_key |-> v]
  OBVIOUS
<1>2. r = q
  OBVIOUS
<1> HIDE DEF q
<1> QED
  BY <1>1, <1>2, Zenon

LEMMA DescriptorCrosses ==
  ASSUME NEW d \in SensorDescriptor
  PROVE  FromRSensorDescriptor(IntoRSensorDescriptor(d)) = d
<1>1. /\ d.unit \in Unit /\ d.kind \in ToSet(RSensorKind) /\ d.category \in ToSet(RCategory)
      /\ d.tags \in Seq(STRING)
      /\ d = [id |-> d.id, id_ok |-> d.id_ok, unit |-> d.unit, kind |-> d.kind,
              category |-> d.category, tags |-> d.tags, device_key |-> d.device_key]
  BY DEF SensorDescriptor
<1> DEFINE r == IntoRSensorDescriptor(d)
<1>2. r = [id |-> d.id, id_ok |-> d.id_ok, unit |-> IntoRUnit(d.unit),
           kind |-> Encode(RSensorKind, d.kind), category |-> Encode(RCategory, d.category),
           tags |-> d.tags, device_key |-> d.device_key]
  <2> DEFINE e == [d EXCEPT !.unit = IntoRUnit(d.unit)]
             f == [e EXCEPT !.kind = Encode(RSensorKind, d.kind)]
             g == [f EXCEPT !.category = Encode(RCategory, d.category)]
  <2>1. r = g
    BY Zenon DEF IntoRSensorDescriptor
  <2>2. e = [id |-> d.id, id_ok |-> d.id_ok, unit |-> IntoRUnit(d.unit), kind |-> d.kind,
             category |-> d.category, tags |-> d.tags, device_key |-> d.device_key]
    BY <1>1, DescriptorFields
  <2> HIDE DEF e
  <2>3. f = [id |-> d.id, id_ok |-> d.id_ok, unit |-> IntoRUnit(d.unit),
             kind |-> Encode(RSensorKind, d.kind), category |-> d.category,
             tags |-> d.tags, device_key |-> d.device_key]
    BY <2>2, DescriptorFields
  <2> HIDE DEF f
  <2>4. g = [id |-> d.id, id_ok |-> d.id_ok, unit |-> IntoRUnit(d.unit),
             kind |-> Encode(RSensorKind, d.kind), category |-> Encode(RCategory, d.category),
             tags |-> d.tags, device_key |-> d.device_key]
    BY <2>3, DescriptorFields
  <2> QED
    BY <2>1, <2>4, Zenon
<1> HIDE DEF r
<1>3. FromRSensorDescriptor(r)
        = [id |-> d.id, id_ok |-> d.id_ok, unit |-> FromRUnit(IntoRUnit(d.unit)),
           kind |-> Decode(RSensorKind, Encode(RSensorKind, d.kind)),
           category |-> Decode(RCategory, Encode(RCategory, d.category)),
           tags |-> svec_into_std(d.tags), device_key |-> d.device_key]
  <2> DEFINE u == FromRUnit(r.unit)
             k == Decode(RSensorKind, r.kind)
             c == Decode(RCategory, r.category)
             w == svec_into_std(r.tags)
             e == [r EXCEPT !.unit = u]
             f == [e EXCEPT !.kind = k]
             g == [f EXCEPT !.category = c]
             h == [g EXCEPT !.tags = w]
  <2>1. FromRSensorDescriptor(r) = h
    BY Zenon DEF FromRSensorDescriptor
  <2>2. /\ r.id = d.id /\ r.id_ok = d.id_ok /\ r.unit = IntoRUnit(d.unit)
        /\ r.kind = Encode(RSensorKind, d.kind) /\ r.category = Encode(RCategory, d.category)
        /\ r.tags = d.tags /\ r.device_key = d.device_key
    BY <1>2
  <2> HIDE DEF u, k, c, w
  <2>3. e = [id |-> d.id, id_ok |-> d.id_ok, unit |-> u,
             kind |-> Encode(RSensorKind, d.kind), category |-> Encode(RCategory, d.category),
             tags |-> d.tags, device_key |-> d.device_key]
    BY <1>2, DescriptorFields
  <2> HIDE DEF e
  <2>4. f = [id |-> d.id, id_ok |-> d.id_ok, unit |-> u, kind |-> k,
             category |-> Encode(RCategory, d.category),
             tags |-> d.tags, device_key |-> d.device_key]
    BY <2>3, DescriptorFields
  <2> HIDE DEF f
  <2>5. g = [id |-> d.id, id_ok |-> d.id_ok, unit |-> u, kind |-> k, category |-> c,
             tags |-> d.tags, device_key |-> d.device_key]
    BY <2>4, DescriptorFields
  <2> HIDE DEF g
  <2>6. h = [id |-> d.id, id_ok |-> d.id_ok, unit |-> u, kind |-> k, category |-> c,
             tags |-> w, device_key |-> d.device_key]
    BY <2>5, DescriptorFields
  <2>7. /\ u = FromRUnit(IntoRUnit(d.unit))
        /\ k = Decode(RSensorKind, Encode(RSensorKind, d.kind))
        /\ c = Decode(RCategory, Encode(RCategory, d.category)) /\ w = svec_into_std(d.tags)
    BY <2>2, Zenon DEF u, k, c, w
  <2> QED
    BY <2>1, <2>6, <2>7, Zenon
<1>4. /\ FromRUnit(IntoRUnit(d.unit)) = d.unit
      /\ Decode(RSensorKind, Encode(RSensorKind, d.kind)) = d.kind
      /\ Decode(RCategory, Encode(RCategory, d.category)) = d.category
      /\ svec_into_std(d.tags) = d.tags
  <2>1. FromRUnit(IntoRUnit(d.unit)) = d.unit
    BY <1>1, UnitCrosses
  <2>2. /\ Decode(RSensorKind, Encode(RSensorKind, d.kind)) = d.kind
        /\ Decode(RCategory, Encode(RCategory, d.category)) = d.category
    BY <1>1, KindCrosses
  <2>3. svec_into_std(d.tags) = d.tags
    BY <1>1, PoppedInOrder
  <2> QED
    BY <2>1, <2>2, <2>3
<1>5. FromRSensorDescriptor(r) = d
  BY <1>1, <1>3, <1>4, Zenon
<1> QED
  BY <1>5 DEF r

(* A device on the host's side.  *)
Device == [key : STRING, category : ToSet(RHardwareCategoryKind), model : STRING,
           plugin_id : STRING \cup {""}, plugin_device_id : STRING, sensor_ids : Seq(STRING)]

LEMMA DeviceCrosses ==
  ASSUME NEW d \in HardwareDevice
  PROVE  /\ IntoRHardwareDevice(d).key = d.key
         /\ FromRHardwareDevice(IntoRHardwareDevice(d)) \in Device
         /\ FromRHardwareDevice(IntoRHardwareDevice(d)).key = d.key
         /\ FromRHardwareDevice(IntoRHardwareDevice(d)).category = d.category
<1>1. /\ d.key \in STRING /\ d.category \in ToSet(RHardwareCategoryKind) /\ d.model \in STRING
      /\ d.plugin_device_id \in STRING
  BY DEF HardwareDevice
<1>2. FromRHardwareDevice(IntoRHardwareDevice(d))
        = [key |-> d.key,
           category |-> Decode(RHardwareCategoryKind, Encode(RHardwareCategoryKind, d.category)),
           model |-> d.model, plugin_id |-> "",
           plugin_device_id |-> d.plugin_device_id, sensor_ids |-> << >>]
      /\ IntoRHardwareDevice(d).key = d.key
  BY DEF FromRHardwareDevice, IntoRHardwareDevice
<1>3. Decode(RHardwareCategoryKind, Encode(RHardwareCategoryKind, d.category)) = d.category
  BY <1>1, KindCrosses
<1>4. << >> \in Seq(STRING) /\ "" \in STRING \cup {""}
  OBVIOUS
<1> DEFINE x == FromRHardwareDevice(IntoRHardwareDevice(d))
<1>5. x = [key |-> d.key, category |-> d.category, model |-> d.model, plugin_id |-> "",
           plugin_device_id |-> d.plugin_device_id, sensor_ids |-> << >>]
  BY <1>2, <1>3
<1> HIDE DEF x
<1>6. x.key = d.key /\ x.category = d.category
  BY <1>5
<1>7. x \in Device
  BY <1>1, <1>4, <1>5 DEF Device
<1> QED
  BY <1>2, <1>6, <1>7 DEF x

LEMMA ManifestFields ==
  ASSUME NEW i, NEW s, NEW d, NEW x, NEW y, NEW m,
         m = [id |-> i, sensors |-> s, devices |-> d]
  PROVE  [m EXCEPT !.sensors = x, !.devices = y] = [id |-> i, sensors |-> x, devices |-> y]
<1> DEFINE q == [id |-> i, sensors |-> s, devices |-> d]
           p == [id |-> i, sensors |-> x, devices |-> d]
<1>1. [q EXCEPT !.sensors = x] = p
  OBVIOUS
<1>2. [p EXCEPT !.devices = y] = [id |-> i, sensors |-> x, devices |-> y]
  OBVIOUS
<1>3. m = q
  OBVIOUS
<1> HIDE DEF p, q
<1> QED
  BY <1>1, <1>2, <1>3, Zenon

LEMMA ManifestCrosses ==
  ASSUME NEW c \in Candidates
  PROVE  LET m == Plugin[c].manifest
             r == IntoRPluginManifest(m)
         IN /\ m \in PluginManifest
            /\ Crossed(c).id = m.id /\ Crossed(c).sensors = m.sensors
            /\ Crossed(c).devices \in Seq(Device) /\ Len(Crossed(c).devices) = Len(m.devices)
            /\ \A i \in 1..Len(m.devices) :
                   /\ Crossed(c).devices[i].key = m.devices[i].key
                   /\ Crossed(c).devices[i].category = m.devices[i].category
            /\ Len(r.devices) = Len(m.devices) /\ DOMAIN r.devices = 1..Len(m.devices)
            /\ \A i \in 1..Len(m.devices) : r.devices[i].key = m.devices[i].key
            /\ Len(r.sensors) = Len(m.sensors) /\ DOMAIN r.sensors = 1..Len(m.sensors)
            /\ \A i \in 1..Len(m.sensors) : r.sensors[i].device_key = m.sensors[i].device_key
<1> DEFINE m == Plugin[c].manifest
           r == IntoRPluginManifest(m)
           ns == Len(m.sensors)
           nd == Len(m.devices)
           rs == [i \in 1..ns |-> IntoRSensorDescriptor(m.sensors[i])]
           rd == [i \in 1..nd |-> IntoRHardwareDevice(m.devices[i])]
           hd == [i \in 1..nd |-> FromRHardwareDevice(rd[i])]
<1>1. m \in PluginManifest
  BY PluginAssumption
<1>2. /\ m.id \in STRING /\ m.sensors \in Seq(SensorDescriptor)
      /\ m.devices \in Seq(HardwareDevice)
      /\ m = [id |-> m.id, sensors |-> m.sensors, devices |-> m.devices]
  BY <1>1 DEF PluginManifest
<1>3. /\ ns \in Nat /\ DOMAIN m.sensors = 1..ns /\ nd \in Nat /\ DOMAIN m.devices = 1..nd
      /\ m.sensors \in [1..ns -> SensorDescriptor]
      /\ m.devices \in [1..nd -> HardwareDevice]
  BY <1>2, LenProperties
<1> HIDE DEF m, ns, nd
<1>4. r = [id |-> m.id, sensors |-> rs, devices |-> rd]
  <2>1. r = [m EXCEPT !.sensors = Each(m.sensors, IntoRSensorDescriptor),
                      !.devices = Each(m.devices, IntoRHardwareDevice)]
    BY Zenon DEF IntoRPluginManifest
  <2>2. r = [id |-> m.id, sensors |-> Each(m.sensors, IntoRSensorDescriptor),
             devices |-> Each(m.devices, IntoRHardwareDevice)]
    BY <1>2, <2>1, ManifestFields, Zenon
  <2>3. /\ Each(m.sensors, IntoRSensorDescriptor) = rs
        /\ Each(m.devices, IntoRHardwareDevice) = rd
    BY <1>3 DEF Each
  <2> QED
    BY <2>2, <2>3, Zenon
<1>5. \E S : rs \in Seq(S)
  <2>1. rs \in Seq({IntoRSensorDescriptor(d) : d \in SensorDescriptor})
    BY <1>3
  <2> QED
    BY <2>1
<1>6. \E S : rd \in Seq(S)
  <2>1. rd \in Seq({IntoRHardwareDevice(d) : d \in HardwareDevice})
    BY <1>3
  <2> QED
    BY <2>1
<1>7. DOMAIN rs = 1..ns /\ DOMAIN rd = 1..nd /\ Len(rs) = ns /\ Len(rd) = nd
  BY <1>3
<1>8. /\ \A i \in 1..ns : rs[i] = IntoRSensorDescriptor(m.sensors[i])
      /\ \A i \in 1..nd : rd[i] = IntoRHardwareDevice(m.devices[i])
  OBVIOUS
<1> HIDE DEF rs, rd
<1>9. svec_into_std(rs) = rs /\ svec_into_std(rd) = rd
  BY <1>5, <1>6, PoppedInOrder
<1>10. Crossed(c) = [id |-> m.id,
                     sensors |-> [i \in 1..ns |-> FromRSensorDescriptor(rs[i])],
                     devices |-> hd]
  <2>1. Crossed(c) = FromRPluginManifest(r)
    BY DEF Crossed, m
  <2>2. FromRPluginManifest(r)
          = [id |-> m.id, sensors |-> Each(svec_into_std(rs), FromRSensorDescriptor),
             devices |-> Each(svec_into_std(rd), FromRHardwareDevice)]
    <3>1. r.sensors = rs /\ r.devices = rd
      BY <1>4
    <3> HIDE DEF r
    <3>2. FromRPluginManifest(r)
            = [r EXCEPT !.sensors = Each(svec_into_std(r.sensors), FromRSensorDescriptor),
                        !.devices = Each(svec_into_std(r.devices), FromRHardwareDevice)]
      BY Zenon DEF FromRPluginManifest
    <3>3. FromRPluginManifest(r)
            = [id |-> m.id, sensors |-> Each(svec_into_std(r.sensors), FromRSensorDescriptor),
               devices |-> Each(svec_into_std(r.devices), FromRHardwareDevice)]
      BY <1>4, <3>2, ManifestFields, Zenon
    <3> QED
      BY <3>1, <3>3, Zenon
  <2> QED
    BY <1>7, <1>9, <2>1, <2>2 DEF Each
<1>11. [i \in 1..ns |-> FromRSensorDescriptor(rs[i])] = m.sensors
  <2>1. \A i \in 1..ns : FromRSensorDescriptor(rs[i]) = m.sensors[i]
    BY <1>3, <1>8, DescriptorCrosses
  <2> QED
    BY <1>3, <2>1
<1>12. /\ \A i \in 1..nd : /\ rd[i].key = m.devices[i].key /\ hd[i] \in Device
                           /\ hd[i].key = m.devices[i].key
                           /\ hd[i].category = m.devices[i].category
       /\ hd \in Seq(Device) /\ Len(hd) = nd
  <2>1. ASSUME NEW i \in 1..nd
        PROVE  /\ rd[i].key = m.devices[i].key /\ hd[i] \in Device
               /\ hd[i].key = m.devices[i].key /\ hd[i].category = m.devices[i].category
    <3>1. m.devices[i] \in HardwareDevice
      BY <1>3
    <3>2. rd[i] = IntoRHardwareDevice(m.devices[i]) /\ hd[i] = FromRHardwareDevice(rd[i])
      BY <1>8
    <3> QED
      BY <3>1, <3>2, DeviceCrosses
  <2>2. hd \in [1..nd -> Device]
    BY <2>1
  <2> HIDE DEF hd
  <2>3. hd \in Seq(Device) /\ Len(hd) = nd
    BY <1>3, <2>2
  <2> QED
    BY <2>1, <2>3
<1>13. \A i \in 1..ns : rs[i].device_key = m.sensors[i].device_key
  <2>1. ASSUME NEW i \in 1..ns PROVE rs[i].device_key = m.sensors[i].device_key
    <3>1. m.sensors[i] \in SensorDescriptor
      BY <1>3
    <3> DEFINE d == m.sensors[i]
    <3>2. d = [id |-> d.id, id_ok |-> d.id_ok, unit |-> d.unit, kind |-> d.kind,
               category |-> d.category, tags |-> d.tags, device_key |-> d.device_key]
      BY <3>1 DEF SensorDescriptor
    <3> HIDE DEF d
    <3>3. IntoRSensorDescriptor(d).device_key = d.device_key
      BY <3>2 DEF IntoRSensorDescriptor
    <3> QED
      BY <1>8, <3>3 DEF d
  <2> QED
    BY <2>1
<1> HIDE DEF hd, r
<1>14. /\ Crossed(c).id = m.id /\ Crossed(c).sensors = m.sensors /\ Crossed(c).devices = hd
       /\ r.sensors = rs /\ r.devices = rd
  BY <1>4, <1>10, <1>11
<1> QED
  BY <1>1, <1>7, <1>12, <1>13, <1>14 DEF m, ns, nd, r

(* A sample is asked of an instance that is up: written after the log, or in  *)
(* the place of the sample before.                                            *)
LEMMA SampleStage ==
  ASSUME NEW l, NEW n \in 1..2, NEW a, Initialised(l, n, a), NEW id \in Args
  PROVE  /\ Initialised(Append(l, Call(n, "sample", id)), n, a)
         /\ l[Len(l)].what = "sample" =>
                Initialised([l EXCEPT ![Len(l)] = Call(n, "sample", id)], n, a)
<1> DEFINE k == Call(n, "sample", id)
           m == Len(l)
           l2 == [l EXCEPT ![m] = k]
<1>1. Orderly(l) /\ Ready(l, n, a) /\ Others(l, n) /\ l \in Seq(CallType)
  BY DEF Initialised, Orderly
<1>2. k \in CallType /\ k.inst = n /\ k.what = "sample"
  <2>1. n \in 0..2 /\ n # 0 /\ "sample" \in Words
    BY DEF Words
  <2> QED
    BY <2>1, CallTyped
<1> HIDE DEF k
<1>3. \A i \in 1..Len(l) : Follows(l[i], k)
  <2>1. \A i \in 1..Len(l) : l[i].inst = n => l[i].what \notin {"shutdown", "drop"}
    BY <1>1 DEF Ready, Said
  <2> QED
    BY <1>2, <2>1 DEF Follows
<1>4. Initialised(Append(l, k), n, a)
  <2>1. Orderly(Append(l, k))
    BY <1>1, <1>2, <1>3, OrderlyAppended
  <2>2. Others(Append(l, k), n)
    BY <1>1, <1>2, OthersKept
  <2>3. Ready(Append(l, k), n, a)
    <3> DEFINE l1 == Append(l, k)
    <3>1. Said(l1, n, "new") /\ ~ Said(l1, n, "shutdown") /\ ~ Said(l1, n, "drop")
      BY <1>1, <1>2, SaidAppended DEF Ready
    <3>2. \A i \in 1..Len(l) : i \in 1..Len(l1) /\ l1[i] = l[i]
      BY <1>1, <1>2, Appended
    <3> HIDE DEF l1
    <3>3. \E i \in 1..Len(l1) : l1[i] = Call(n, "init", a)
      BY <1>1, <3>2 DEF Ready
    <3>4. Ready(l1, n, a)
      BY <3>1, <3>3 DEF Ready
    <3> QED
      BY <3>4 DEF l1
  <2> QED
    BY <2>1, <2>2, <2>3 DEF Initialised
<1>5. ASSUME l[m].what = "sample" PROVE Initialised(l2, n, a)
  <2>1. m \in Nat /\ m \in 1..Len(l)
    BY <1>1 DEF Ready, Said
  <2>2. /\ l2 \in Seq(CallType) /\ Len(l2) = m
        /\ \A i \in 1..m : l2[i] = IF i = m THEN k ELSE l[i]
    BY <1>1, <1>2, <2>1, ExceptSeq
  <2> HIDE DEF l2
  <2>3. \A i \in 1..m : l2[i] = l[i] \/ (l2[i].what = "sample" /\ l2[i].inst = n
                                          /\ l[i].what = "sample")
    BY <1>2, <1>5, <2>2
  <2>4. \A w : \A o : w # "sample" => (Said(l2, o, w) <=> Said(l, o, w))
    <3> SUFFICES ASSUME NEW w, NEW o, w # "sample" PROVE Said(l2, o, w) <=> Said(l, o, w)
      OBVIOUS
    <3> QED
      BY <2>2, <2>3 DEF Said
  <2>5. Orderly(l2)
    <3>1. ASSUME NEW i \in 1..m, NEW j \in 1..m, i < j PROVE Follows(l2[i], l2[j])
      <4>1. l2[i] = l[i]
        BY <2>1, <2>2, <3>1
      <4>2. CASE j = m
        BY <1>3, <2>1, <2>2, <4>1, <4>2
      <4>3. CASE j # m
        <5>1. l2[j] = l[j]
          BY <2>2, <4>3
        <5> QED
          BY <1>1, <3>1, <4>1, <5>1 DEF Orderly
      <4> QED
        BY <4>2, <4>3
    <3> QED
      BY <2>2, <3>1 DEF Orderly
  <2>6. Ready(l2, n, a)
    <3>1. PICK i \in 1..m : l[i] = Call(n, "init", a)
      BY <1>1 DEF Ready
    <3>2. l[i].what = "init"
      BY <3>1 DEF Call
    <3>3. l2[i] = Call(n, "init", a)
      BY <2>3, <3>1, <3>2
    <3> QED
      BY <1>1, <2>2, <2>4, <3>3 DEF Ready
  <2>7. Others(l2, n)
    <3>1. ASSUME NEW o \in (1..2) \ {n} PROVE Over(l2, o)
      <4>1. Fresh(l, o) => Fresh(l2, o)
        <5>1. ASSUME Fresh(l, o), NEW i \in 1..Len(l2) PROVE l2[i].inst # o
          BY <2>2, <2>3, <3>1, <5>1 DEF Fresh
        <5> QED
          BY <5>1 DEF Fresh
      <4>2. Gone(l, o) => Gone(l2, o)
        BY <2>4 DEF Gone
      <4> QED
        BY <1>1, <3>1, <4>1, <4>2 DEF Others, Over
    <3> QED
      BY <3>1 DEF Others
  <2> QED
    BY <2>5, <2>6, <2>7 DEF Initialised
<1> QED
  BY <1>4, <1>5 DEF k

-----------------------------------------------------------------------------
(* The inductive invariant.  Until the stop every registered plugin has one   *)
(* instance, up and configured, and whatever else was made is gone; what is   *)
(* still to be loaded has not been touched.                                   *)

EntryType == [cand : Candidates, inst : 1..2, id : STRING, sensors : Seq(SensorDescriptor),
              devices : Seq(Device)]

ShapeOf(h) ==
    /\ h = [plugins |-> h.plugins, registry |-> h.registry]
    /\ h.plugins \in Seq(EntryType)
    /\ \A p, q \in 1..Len(h.plugins) : h.plugins[p].cand = h.plugins[q].cand => p = q
    /\ \A id \in DOMAIN h.registry : /\ id \in STRING
                                     /\ h.registry[id].idx \in 1..Len(h.plugins)

CfgOf(f, id) == IF id \in DOMAIN f THEN f[id] ELSE "null"
UpIn(l, f, e) == Initialised(l[e.cand], e.inst, CfgOf(f, ConfigKey(e)))
Registered(ps, c) == \E p \in 1..Len(ps) : ps[p].cand = c

AllUp(l, f, ps) ==
    /\ l = [c \in Candidates |-> l[c]]
    /\ \A p \in 1..Len(ps) : UpIn(l, f, ps[p])
    /\ \A c \in Candidates : Registered(ps, c) \/ Settled(l[c])

HasInit(l, n, a) == \E i \in 1..Len(l) : l[i] = Call(n, "init", a)
AllGone(l, f, ps) ==
    /\ \A c \in Candidates : Settled(l[c])
    /\ \A p \in 1..Len(ps) : HasInit(l[ps[p].cand], ps[p].inst, CfgOf(f, ConfigKey(ps[p])))

Lives == IF boot = "stopped" THEN AllGone(log, conf, host.plugins)
         ELSE AllUp(log, conf, host.plugins)

Waiting ==
    /\ dir \in 0..Len(Dirs)
    /\ \A c \in todo : /\ \E d \in 1..Len(Dirs) : d <= dir /\ c \in Dirs[d]
                       /\ log[c] = << >>
    /\ \A d \in 1..Len(Dirs) : d > dir => \A c \in Dirs[d] : log[c] = << >>
    /\ boot = "builtins" => dir = 0 /\ todo = {}

HostInv == ConfTyped /\ ShapeOf(host) /\ Lives /\ Waiting

LEMMA CandidatesOf ==
  /\ \A c \in ToSet(Builtins) : c \in Candidates
  /\ \A d \in 1..Len(Dirs) : \A c \in Dirs[d] : c \in Candidates /\ c \notin ToSet(Builtins)
  /\ \A c \in Candidates : c \notin ToSet(Builtins) => \E d \in 1..Len(Dirs) : c \in Dirs[d]
<1>1. \A d \in 1..Len(Dirs) : Dirs[d] \in ToSet(Dirs) /\ Dirs[d] \cap ToSet(Builtins) = {}
  BY CandidatesAssumption DEF ToSet
<1>2. \A D \in ToSet(Dirs) : \E d \in 1..Len(Dirs) : Dirs[d] = D
  BY CandidatesAssumption DEF ToSet
<1> QED
  BY <1>1, <1>2 DEF Candidates

(* Who is registered has a log.  *)
LEMMA UntouchedIsUnregistered ==
  ASSUME NEW l, NEW f, NEW ps, AllUp(l, f, ps), NEW c, l[c] = << >>
  PROVE  ~ Registered(ps, c)
<1> SUFFICES ASSUME NEW p \in 1..Len(ps), ps[p].cand = c PROVE FALSE
  BY DEF Registered
<1>1. Initialised(<< >>, ps[p].inst, CfgOf(f, ConfigKey(ps[p])))
  BY DEF AllUp, UpIn
<1>2. Len(<< >>) = 0
  OBVIOUS
<1> QED
  BY <1>1, <1>2 DEF Initialised, Ready

(* What enrolling a candidate adds.                                           *)
EntryFor(h, c, n) ==
    [cand |-> c, inst |-> n, id |-> Crossed(c).id,
     sensors |-> AcceptSensors(h.registry, Len(h.plugins) + 1, Crossed(c).sensors).accepted,
     devices |-> Crossed(c).devices]

LEMMA EnrolledAdds ==
  ASSUME NEW h, ShapeOf(h), NEW c \in Candidates, NEW n \in 1..2
  PROVE  LET g == Enrolled(h, c, n)
             e == EntryFor(h, c, n)
             k == Len(h.plugins)
         IN /\ g = [plugins |-> g.plugins, registry |-> g.registry]
            /\ e \in EntryType /\ k \in Nat
            /\ g.plugins \in Seq(EntryType) /\ Len(g.plugins) = k + 1
            /\ g.plugins[k + 1] = e /\ \A p \in 1..k : g.plugins[p] = h.plugins[p]
            /\ RegistryOK(g.registry, h.registry, k + 1, Plugin[c].manifest.sensors,
                          Len(Plugin[c].manifest.sensors))
            /\ ListOK(e.sensors, g.registry, h.registry, SensorDescriptor)
<1> DEFINE g == Enrolled(h, c, n)
           e == EntryFor(h, c, n)
           k == Len(h.plugins)
           s == Plugin[c].manifest.sensors
           a == AcceptSensors(h.registry, k + 1, s)
<1>1. /\ Crossed(c).sensors = s /\ Crossed(c).id \in STRING /\ Crossed(c).devices \in Seq(Device)
      /\ s \in Seq(SensorDescriptor)
  BY ManifestCrosses DEF PluginManifest
<1>2. AcceptOK(a, h.registry, k + 1, s, Len(s), SensorDescriptor)
  BY <1>1, AcceptResult
<1>3. /\ RegistryOK(a.registry, h.registry, k + 1, s, Len(s))
      /\ ListOK(a.accepted, a.registry, h.registry, SensorDescriptor)
      /\ a.accepted \in Seq(SensorDescriptor)
  BY <1>2 DEF AcceptOK, ListOK
<1>4. h.plugins \in Seq(EntryType)
  BY DEF ShapeOf
<1> HIDE DEF a, s
<1>5. e = [cand |-> c, inst |-> n, id |-> Crossed(c).id, sensors |-> a.accepted,
           devices |-> Crossed(c).devices]
  BY <1>1, Zenon DEF EntryFor, a
<1>6. g = [plugins |-> Append(h.plugins, e), registry |-> a.registry]
  BY <1>1, <1>5, Zenon DEF Enrolled, a
<1>7. e \in EntryType
  BY <1>1, <1>3, <1>5 DEF EntryType
<1>8. e.sensors = a.accepted
  BY <1>5
<1> HIDE DEF e
<1>9. g.plugins = Append(h.plugins, e) /\ g.registry = a.registry
      /\ g = [plugins |-> g.plugins, registry |-> g.registry]
  BY <1>6
<1> HIDE DEF g
<1>10. /\ Append(h.plugins, e) \in Seq(EntryType) /\ k \in Nat
       /\ Len(Append(h.plugins, e)) = k + 1 /\ Append(h.plugins, e)[k + 1] = e
       /\ \A p \in 1..k : Append(h.plugins, e)[p] = h.plugins[p]
  BY <1>4, <1>7
<1> QED
  BY <1>3, <1>7, <1>8, <1>9, <1>10 DEF g, e, s

LoadedAs(c) == IF c \in ToSet(Builtins) THEN Plugin[c].config_key ELSE Crossed(c).id

(* The host after one more entry.  *)
LEMMA EnrolledShape ==
  ASSUME NEW h, ShapeOf(h), NEW c \in Candidates, ~ Registered(h.plugins, c), NEW n \in 1..2
  PROVE  ShapeOf(Enrolled(h, c, n))
<1> DEFINE g == Enrolled(h, c, n)
           e == EntryFor(h, c, n)
           k == Len(h.plugins)
           s == Plugin[c].manifest.sensors
<1>1. /\ g = [plugins |-> g.plugins, registry |-> g.registry]
      /\ e \in EntryType /\ k \in Nat
      /\ g.plugins \in Seq(EntryType) /\ Len(g.plugins) = k + 1
      /\ g.plugins[k + 1] = e /\ \A p \in 1..k : g.plugins[p] = h.plugins[p]
      /\ RegistryOK(g.registry, h.registry, k + 1, s, Len(s))
  BY EnrolledAdds
<1>2. e.cand = c
  BY DEF EntryFor
<1>3. /\ \A p, q \in 1..k : h.plugins[p].cand = h.plugins[q].cand => p = q
      /\ \A id \in DOMAIN h.registry : id \in STRING /\ h.registry[id].idx \in 1..k
  BY DEF ShapeOf
<1>4. \A p \in 1..k : h.plugins[p].cand # c
  BY DEF Registered
<1>5. s \in Seq(SensorDescriptor)
  BY ManifestCrosses DEF PluginManifest
<1>6. \A j \in 1..Len(s) : s[j].id \in STRING
  <2>1. \A j \in 1..Len(s) : s[j] \in SensorDescriptor
    BY <1>5
  <2> QED
    BY <2>1 DEF SensorDescriptor
<1> HIDE DEF g, e, k, s
<1>7. \A p \in 1..Len(g.plugins) : p \in 1..k \/ p = k + 1
  BY <1>1
<1>8. \A p, q \in 1..Len(g.plugins) : g.plugins[p].cand = g.plugins[q].cand => p = q
  BY <1>1, <1>2, <1>3, <1>4, <1>7
<1>9. ASSUME NEW id \in DOMAIN g.registry
      PROVE  id \in STRING /\ g.registry[id].idx \in 1..Len(g.plugins)
  <2>1. CASE id \in DOMAIN h.registry
    <3>1. g.registry[id] = h.registry[id]
      BY <1>1, <2>1 DEF RegistryOK
    <3> QED
      BY <1>1, <1>3, <2>1, <3>1
  <2>2. CASE id \notin DOMAIN h.registry
    <3>1. g.registry[id].idx = k + 1 /\ FirstOf(s, Len(s), id, g.registry[id].desc)
      BY <1>1, <1>9, <2>2 DEF RegistryOK
    <3>2. PICK j \in 1..Len(s) : s[j].id = id
      BY <3>1 DEF FirstOf
    <3>3. id \in STRING
      BY <1>6, <3>2
    <3> QED
      BY <1>1, <3>1, <3>3
  <2> QED
    BY <2>1, <2>2
<1>10. ShapeOf(g)
  BY <1>1, <1>8, <1>9 DEF ShapeOf
<1> QED
  BY <1>10 DEF g

(* One more candidate loaded.  *)
LoadedOr(h, f, c, r) ==
    Refused(h, r) \/ \E n \in 1..2 : Accepted(h, c, n, CfgOf(f, LoadedAs(c)), r)

LoadKept(h, l, f, c, r, l2) ==
    /\ ShapeOf(r.host) /\ AllUp(l2, f, r.host.plugins)
    /\ \A d \in Candidates : d # c => l2[d] = l[d]

LEMMA LoadStep ==
  ASSUME NEW h, NEW l, NEW f, ShapeOf(h), AllUp(l, f, h.plugins),
         NEW c \in Candidates, l[c] = << >>, NEW r, LoadedOr(h, f, c, r),
         NEW l2, l2 = [l EXCEPT ![c] = r.log]
  PROVE  LoadKept(h, l, f, c, r, l2)
<1> DEFINE ps == h.plugins
<1>1. ~ Registered(ps, c)
  BY UntouchedIsUnregistered
<1>2. /\ l2 = [d \in Candidates |-> l2[d]] /\ l2[c] = r.log
      /\ \A d \in Candidates : d # c => l2[d] = l[d]
  <2>1. l = [d \in Candidates |-> l[d]]
    BY DEF AllUp
  <2> QED
    BY <2>1
<1>3. /\ ps \in Seq(EntryType)
      /\ \A p \in 1..Len(ps) : ps[p].cand \in Candidates /\ ps[p].cand # c
  <2>1. ps \in Seq(EntryType)
    BY DEF ShapeOf
  <2>2. \A p \in 1..Len(ps) : ps[p] \in EntryType
    BY <2>1
  <2> QED
    BY <1>1, <2>1, <2>2 DEF EntryType, Registered
<1>4. \A p \in 1..Len(ps) : UpIn(l2, f, ps[p])
  BY <1>2, <1>3 DEF AllUp, UpIn
<1>5. CASE Refused(h, r)
  <2>1. r.host = h /\ Settled(l2[c])
    BY <1>2, <1>5 DEF Refused
  <2>2. AllUp(l2, f, ps)
    BY <1>2, <1>4, <2>1 DEF AllUp
  <2> QED
    BY <1>2, <2>1, <2>2 DEF LoadKept
<1>6. ASSUME NEW n \in 1..2, Accepted(h, c, n, CfgOf(f, LoadedAs(c)), r)
      PROVE  ShapeOf(r.host) /\ AllUp(l2, f, r.host.plugins)
  <2> DEFINE g == Enrolled(h, c, n)
             e == EntryFor(h, c, n)
             k == Len(ps)
  <2>1. r.host = g /\ Initialised(l2[c], n, CfgOf(f, LoadedAs(c)))
    BY <1>2, <1>6 DEF Accepted
  <2>2. /\ k \in Nat /\ Len(g.plugins) = k + 1
        /\ g.plugins[k + 1] = e /\ \A p \in 1..k : g.plugins[p] = ps[p]
    BY EnrolledAdds
  <2>3. e.cand = c /\ e.inst = n /\ ConfigKey(e) = LoadedAs(c)
    BY DEF EntryFor, ConfigKey, LoadedAs
  <2>4. ShapeOf(g)
    BY <1>1, EnrolledShape
  <2> HIDE DEF e, g
  <2>5. UpIn(l2, f, e)
    BY <2>1, <2>3 DEF UpIn
  <2>6. \A p \in 1..(k + 1) : p \in 1..k \/ p = k + 1
    BY <2>2
  <2>7. \A p \in 1..Len(g.plugins) : UpIn(l2, f, g.plugins[p])
    <3> HIDE DEF ps
    <3> QED
      BY <1>4, <2>2, <2>5, <2>6
  <2>8. \A d \in Candidates : Registered(g.plugins, d) \/ Settled(l2[d])
    <3>1. Registered(g.plugins, c)
      <4>1. k + 1 \in 1..Len(g.plugins)
        BY <2>2
      <4> QED
        BY <2>2, <2>3, <4>1 DEF Registered
    <3>2. \A d : Registered(ps, d) => Registered(g.plugins, d)
      <4>1. \A p \in 1..k : p \in 1..Len(g.plugins)
        BY <2>2
      <4> QED
        BY <2>2, <4>1 DEF Registered
    <3>3. \A d \in Candidates : Registered(ps, d) \/ Settled(l[d])
      BY DEF AllUp
    <3> QED
      BY <1>2, <3>1, <3>2, <3>3
  <2>9. AllUp(l2, f, g.plugins)
    BY <1>2, <2>7, <2>8 DEF AllUp
  <2> QED
    BY <2>1, <2>4, <2>9
<1> QED
  BY <1>2, <1>5, <1>6 DEF LoadedOr, LoadKept

-----------------------------------------------------------------------------
(* The steps.                                                                *)

(* What loading one candidate does to the host.                               *)
Loads(c, r) ==
    /\ c \in Candidates /\ log[c] = << >> /\ LoadedOr(host, conf, c, r)
    /\ host' = r.host /\ log' = [log EXCEPT ![c] = r.log]

LEMMA BuiltinLoads ==
  ASSUME ConfTyped, NEW o \in Outcomes, LoadBuiltin(o)
  PROVE  /\ \E c \in ToSet(Builtins) : \E r : Loads(c, r)
         /\ boot = "builtins" /\ boot' \in {"builtins", "dynamic"}
         /\ UNCHANGED <<todo, dir, conf>>
<1>1. PICK i \in DOMAIN Builtins :
         LET c == Builtins[i]
             r == register_with_config_checked(host, instantiate(1), c, 1,
                                               cfg(Plugin[c].config_key), o, None)
         IN /\ log[c] = << >>
            /\ host' = r.host /\ log' = [log EXCEPT ![c] = r.log]
            /\ boot' = IF i = Len(Builtins) THEN "dynamic" ELSE boot
  BY Zenon DEF LoadBuiltin
<1> DEFINE c == Builtins[i]
           k == cfg(Plugin[c].config_key)
           r == register_with_config_checked(host, instantiate(1), c, 1, k, o, None)
<1>2. log[c] = << >> /\ host' = r.host /\ log' = [log EXCEPT ![c] = r.log]
  BY <1>1, Zenon
<1>3. boot = "builtins" /\ boot' \in {"builtins", "dynamic"} /\ UNCHANGED <<todo, dir, conf>>
  BY <1>1 DEF LoadBuiltin
<1>4. c \in ToSet(Builtins) /\ c \in Candidates
  BY CandidatesOf DEF ToSet
<1>5. k \in Args \ {""}
  BY ConfigTyped
<1>6. Made(instantiate(1), 1)
  <2>1. 1 \in 1..2 /\ 1 \in 0..2 /\ 1 # 0 /\ "new" \in Words
    BY DEF Words
  <2>2. Made(<< >> \o instantiate(1), 1)
    BY <2>1, EmptyLog, Instantiated
  <2>3. instantiate(1) \in Seq(CallType)
    <3> DEFINE x == Call(1, "new", None)
    <3>1. instantiate(1) = <<x>>
      BY DEF instantiate, Calls
    <3>2. x \in CallType
      BY <2>1, WordsTyped
    <3> HIDE DEF x
    <3> QED
      BY <3>1, <3>2, Alone
  <2> QED
    BY <2>2, <2>3, ConcatEmptySeq
<1>7. 1 \in 1..2
  OBVIOUS
<1> HIDE DEF k
<1>8. Refused(host, r) \/ Accepted(host, c, 1, k, r)
  BY <1>5, <1>6, <1>7, RegisterResult, Zenon
<1>9. k = CfgOf(conf, LoadedAs(c))
  BY <1>4 DEF k, cfg, CfgOf, LoadedAs
<1> HIDE DEF c, r
<1>10. LoadedOr(host, conf, c, r)
  BY <1>7, <1>8, <1>9, Zenon DEF LoadedOr
<1>11. Loads(c, r)
  BY <1>2, <1>4, <1>10 DEF Loads
<1> QED
  BY <1>3, <1>4, <1>11

LEMMA LibraryLoads ==
  ASSUME HostInv, NEW c \in todo, NEW o1 \in Outcomes, NEW o2 \in Outcomes,
         load_from_dir(c, o1, o2)
  PROVE  /\ \E r : Loads(c, r)
         /\ c \notin ToSet(Builtins) /\ \E d \in 1..Len(Dirs) : d <= dir /\ c \in Dirs[d]
         /\ boot = "dynamic" /\ boot' = boot /\ todo' = todo \ {c} /\ UNCHANGED <<dir, conf>>
<1> DEFINE r == LoadLibrary(host, c, o1, o2)
<1>1. /\ boot = "dynamic" /\ boot' = boot /\ host' = r.host
      /\ log' = [log EXCEPT ![c] = r.log] /\ todo' = todo \ {c}
      /\ UNCHANGED <<dir, conf>>
  BY DEF load_from_dir
<1>2. ConfTyped /\ Waiting
  BY <1>1 DEF HostInv
<1>3. log[c] = << >> /\ c \in Candidates /\ c \notin ToSet(Builtins)
      /\ \E d \in 1..Len(Dirs) : d <= dir /\ c \in Dirs[d]
  BY <1>2, CandidatesOf DEF Waiting
<1>4. Refused(host, r) \/ \E n \in 1..2 : Accepted(host, c, n, cfg(Crossed(c).id), r)
  BY <1>2, LibraryResult, Zenon
<1>5. cfg(Crossed(c).id) = CfgOf(conf, LoadedAs(c))
  BY <1>3 DEF cfg, CfgOf, LoadedAs
<1> HIDE DEF r
<1>6. LoadedOr(host, conf, c, r)
  BY <1>4, <1>5, Zenon DEF LoadedOr
<1>7. Loads(c, r)
  BY <1>1, <1>3, <1>6 DEF Loads
<1> QED
  BY <1>1, <1>3, <1>7

LEMMA LoadBuiltinStep ==
  ASSUME HostInv, NEW o \in Outcomes, LoadBuiltin(o)
  PROVE  HostInv'
<1>1. /\ \E d \in ToSet(Builtins) : \E r : Loads(d, r)
      /\ boot = "builtins" /\ boot' \in {"builtins", "dynamic"}
      /\ UNCHANGED <<todo, dir, conf>>
  BY BuiltinLoads DEF HostInv
<1>2. PICK c \in ToSet(Builtins) : \E r : Loads(c, r)
  BY <1>1
<1>3. PICK r : Loads(c, r)
  BY <1>2
<1>4. /\ ShapeOf(host) /\ AllUp(log, conf, host.plugins) /\ ConfTyped /\ Waiting
  BY <1>1 DEF HostInv, Lives
<1>5. /\ ShapeOf(host') /\ AllUp(log', conf, host'.plugins)
      /\ \A d \in Candidates : d # c => log'[d] = log[d]
  <2>1. LoadKept(host, log, conf, c, r, log')
    BY <1>3, <1>4, LoadStep, Zenon DEF Loads
  <2> QED
    BY <1>3, <2>1, Zenon DEF LoadKept, Loads
<1>6. Waiting'
  <2>1. \A d \in 1..Len(Dirs) : \A e \in Dirs[d] : e \in Candidates /\ e # c
    BY <1>2, CandidatesOf
  <2> QED
    BY <1>1, <1>4, <1>5, <2>1 DEF Waiting
<1>7. Lives' /\ ConfTyped'
  BY <1>1, <1>4, <1>5 DEF Lives, ConfTyped
<1> QED
  BY <1>5, <1>6, <1>7 DEF HostInv

LEMMA LoadDynamicStep ==
  ASSUME HostInv, load_dynamic_plugins
  PROVE  HostInv'
<1>1. /\ boot = "dynamic" /\ todo = {} /\ boot' \in {"dynamic", "build"}
      /\ UNCHANGED <<conf, host, log>>
  BY DEF load_dynamic_plugins
<1>2. ConfTyped' /\ ShapeOf(host') /\ Lives'
  BY <1>1 DEF HostInv, ConfTyped, Lives
<1>3. Waiting'
  <2>1. CASE dir = Len(Dirs)
    BY <1>1, <2>1 DEF load_dynamic_plugins, HostInv, Waiting
  <2>2. CASE dir # Len(Dirs)
    <3>1. dir \in 0..Len(Dirs) /\ dir' = dir + 1 /\ todo' = Dirs[dir + 1] /\ dir + 1 \in 1..Len(Dirs)
      BY <2>2, CandidatesAssumption DEF load_dynamic_plugins, HostInv, Waiting
    <3>2. \A d \in 1..Len(Dirs) : d > dir => \A c \in Dirs[d] : log[c] = << >>
      BY DEF HostInv, Waiting
    <3>3. dir + 1 > dir /\ dir + 1 <= dir'
      BY <3>1
    <3>4. \A c \in Dirs[dir + 1] : log[c] = << >>
      BY <3>1, <3>2, <3>3
    <3>5. \A d \in 1..Len(Dirs) : d > dir' => d > dir
      BY <3>1
    <3> QED
      BY <1>1, <3>1, <3>2, <3>3, <3>4, <3>5 DEF Waiting
  <2> QED
    BY <2>1, <2>2
<1> QED
  BY <1>2, <1>3 DEF HostInv

LEMMA LoadFromDirStep ==
  ASSUME HostInv, NEW c \in todo, NEW o1 \in Outcomes, NEW o2 \in Outcomes,
         load_from_dir(c, o1, o2)
  PROVE  HostInv'
<1>1. PICK r : Loads(c, r)
  BY LibraryLoads
<1>2. ConfTyped /\ ShapeOf(host) /\ AllUp(log, conf, host.plugins) /\ Waiting
  BY LibraryLoads DEF HostInv, Lives
<1>3. /\ boot = "dynamic" /\ boot' = boot /\ todo' = todo \ {c} /\ UNCHANGED <<dir, conf>>
      /\ \E d \in 1..Len(Dirs) : d <= dir /\ c \in Dirs[d]
  BY LibraryLoads
<1>6. /\ ShapeOf(host') /\ AllUp(log', conf, host'.plugins)
      /\ \A d \in Candidates : d # c => log'[d] = log[d]
  <2>1. LoadKept(host, log, conf, c, r, log')
    BY <1>1, <1>2, LoadStep, Zenon DEF Loads
  <2> QED
    BY <1>1, <2>1, Zenon DEF LoadKept, Loads
<1>7. Waiting'
  <2>1. \A e \in todo' : /\ \E d \in 1..Len(Dirs) : d <= dir' /\ e \in Dirs[d]
                         /\ log'[e] = << >>
    <3>1. \A e \in todo' : e \in todo /\ e # c /\ e \in Candidates
      BY <1>2, <1>3, CandidatesOf DEF Waiting
    <3> QED
      BY <1>2, <1>3, <1>6, <3>1 DEF Waiting
  <2>2. \A d \in 1..Len(Dirs) : d > dir' => \A e \in Dirs[d] : log'[e] = << >>
    <3>1. PICK b \in 1..Len(Dirs) : b <= dir /\ c \in Dirs[b]
      BY <1>3
    <3>2. \A d \in 1..Len(Dirs) : d > dir => d # b /\ Dirs[b] \cap Dirs[d] = {}
      <4>1. ASSUME NEW d \in 1..Len(Dirs), d > dir PROVE d # b /\ Dirs[b] \cap Dirs[d] = {}
        <5>1. d # b
          BY <1>2, <3>1, <4>1 DEF Waiting
        <5> QED
          BY <5>1, CandidatesAssumption
      <4> QED
        BY <4>1
    <3>3. \A d \in 1..Len(Dirs) : \A e \in Dirs[d] : e \in Candidates
      BY CandidatesOf
    <3> QED
      BY <1>2, <1>3, <1>6, <3>1, <3>2, <3>3 DEF Waiting
  <2> QED
    BY <1>2, <1>3, <2>1, <2>2 DEF Waiting
<1>8. Lives' /\ ConfTyped'
  BY <1>2, <1>3, <1>6 DEF Lives, ConfTyped
<1> QED
  BY <1>6, <1>7, <1>8 DEF HostInv

LEMMA SampleStep ==
  ASSUME HostInv, NEW id \in DOMAIN host.registry, NEW read, NEW o, sample_to(id, read, o)
  PROVE  HostInv'
<1> DEFINE ps == host.plugins
           q == host.registry[id].idx
           e == ps[q]
           c == e.cand
           n == Len(log[c])
           k == Call(e.inst, "sample", id)
           a == CfgOf(conf, ConfigKey(e))
           now == IF log[c][n].what = "sample" THEN [log[c] EXCEPT ![n] = k] ELSE Append(log[c], k)
<1>1. /\ boot = "serving" /\ boot' = boot /\ UNCHANGED <<todo, dir, conf, host>>
      /\ log' = [log EXCEPT ![c] = now]
  BY DEF sample_to
<1>2. ConfTyped /\ ShapeOf(host) /\ AllUp(log, conf, ps) /\ Waiting
  BY <1>1 DEF HostInv, Lives
<1>3. /\ q \in 1..Len(ps) /\ id \in Args /\ ps \in Seq(EntryType)
      /\ \A p \in 1..Len(ps) : ps[p].cand = c => p = q
  BY <1>2 DEF ShapeOf, Args
<1>4. e \in EntryType
  BY <1>3
<1>5. e.inst \in 1..2 /\ c \in Candidates /\ Initialised(log[c], e.inst, a)
  BY <1>2, <1>3, <1>4 DEF EntryType, AllUp, UpIn
<1>6. Initialised(now, e.inst, a)
  BY <1>3, <1>5, SampleStage
<1>7. /\ log' = [d \in Candidates |-> log'[d]] /\ log'[c] = now
      /\ \A d \in Candidates : d # c => log'[d] = log[d]
  <2>1. log = [d \in Candidates |-> log[d]]
    BY <1>2 DEF AllUp
  <2> HIDE DEF now, c
  <2> QED
    BY <1>1, <1>5, <2>1 DEF c
<1> HIDE DEF now
<1>8. AllUp(log', conf, ps)
  <2>1. ASSUME NEW p \in 1..Len(ps) PROVE UpIn(log', conf, ps[p])
    <3>1. CASE p = q
      BY <1>6, <1>7, <3>1 DEF UpIn
    <3>2. CASE p # q
      <4>1. ps[p].cand # c /\ ps[p] \in EntryType
        BY <1>3, <3>2
      <4>2. log'[ps[p].cand] = log[ps[p].cand]
        BY <1>7, <4>1 DEF EntryType
      <4> QED
        BY <1>2, <4>2 DEF AllUp, UpIn
    <3> QED
      BY <3>1, <3>2
  <2>2. Registered(ps, c)
    BY <1>3 DEF Registered
  <2>3. \A d \in Candidates : Registered(ps, d) \/ Settled(log'[d])
    <3>1. \A d \in Candidates : Registered(ps, d) \/ Settled(log[d])
      BY <1>2 DEF AllUp
    <3> HIDE DEF c, ps
    <3> QED
      BY <1>7, <2>2, <3>1
  <2> QED
    BY <1>7, <2>1, <2>3 DEF AllUp
<1>9. Waiting'
  <2>1. Registered(ps, c)
    BY <1>3 DEF Registered
  <2>2. \A d : log[d] = << >> => d # c
    BY <1>2, <2>1, UntouchedIsUnregistered
  <2>3. \A d \in 1..Len(Dirs) : \A b \in Dirs[d] : b \in Candidates
    BY CandidatesOf
  <2> HIDE DEF c
  <2>4. \A d \in 1..Len(Dirs) : \A b \in Dirs[d] : log[b] = << >> => log'[b] = << >>
    BY <1>7, <2>2, <2>3
  <2> QED
    BY <1>1, <1>2, <2>4 DEF Waiting
<1>10. ConfTyped' /\ ShapeOf(host') /\ Lives'
  BY <1>1, <1>2, <1>8 DEF ConfTyped, Lives
<1> QED
  BY <1>9, <1>10 DEF HostInv

(* What was written stays written.  *)
LEMMA InitStays ==
  ASSUME NEW l, NEW n \in 1..2, NEW a, Initialised(l, n, a), NEW c
  PROVE  HasInit((l \o Calls(n, <<"shutdown", "drop">>)) \o dlclose(c), n, a)
<1> DEFINE j == Call(n, "shutdown", None)
           k == Call(n, "drop", None)
           x == Call(n, "init", a)
<1>1. \A m \in Seq(CallType) : \A y \in CallType :
          (\E i \in 1..Len(m) : m[i] = x) => \E i \in 1..Len(Append(m, y)) : Append(m, y)[i] = x
  <2> SUFFICES ASSUME NEW m \in Seq(CallType), NEW y \in CallType, NEW i \in 1..Len(m), m[i] = x
               PROVE  \E h \in 1..Len(Append(m, y)) : Append(m, y)[h] = x
    OBVIOUS
  <2>1. i \in 1..Len(Append(m, y)) /\ Append(m, y)[i] = m[i]
    BY Appended
  <2> QED
    BY <2>1
<1>2. l \in Seq(CallType) /\ \E i \in 1..Len(l) : l[i] = x
  BY DEF Initialised, Orderly, Ready
<1>3. /\ "shutdown" \in Words /\ "drop" \in Words /\ "dlclose" \in Words
      /\ "dlclose" \in {"dlopen", "dlclose"} /\ n \in 0..2 /\ n # 0 /\ 0 \in 0..2
  BY DEF Words
<1>4. j \in CallType /\ k \in CallType /\ Call(0, "dlclose", None) \in CallType
  BY <1>3, WordsTyped
<1>5. l \o Calls(n, <<"shutdown", "drop">>) = Append(Append(l, j), k)
  BY <1>2, <1>3, TwoCalls
<1> HIDE DEF j, k, x
<1>6. Append(l, j) \in Seq(CallType) /\ Append(Append(l, j), k) \in Seq(CallType)
  <2>1. Append(l, j) \in Seq(CallType)
    BY <1>2, <1>4, Appended
  <2> QED
    BY <1>4, <2>1, Appended
<1> DEFINE m == l \o Calls(n, <<"shutdown", "drop">>)
<1>7. m \in Seq(CallType) /\ \E i \in 1..Len(m) : m[i] = x
  <2>1. \E i \in 1..Len(Append(l, j)) : Append(l, j)[i] = x
    BY <1>1, <1>2, <1>4
  <2>2. \E i \in 1..Len(Append(Append(l, j), k)) : Append(Append(l, j), k)[i] = x
    BY <1>1, <1>4, <1>6, <2>1
  <2> QED
    BY <1>5, <1>6, <2>2
<1> HIDE DEF m
<1>8. \E i \in 1..Len(m \o dlclose(c)) : (m \o dlclose(c))[i] = x
  <2>1. m \o dlclose(c) = m \/ m \o dlclose(c) = Append(m, Call(0, "dlclose", None))
    BY <1>7, Unloads
  <2> QED
    BY <1>1, <1>4, <1>7, <2>1
<1> QED
  BY <1>8 DEF m, x, HasInit

LEMMA StopStep ==
  ASSUME HostInv, StopHost
  PROVE  HostInv'
<1> DEFINE ps == host.plugins
           Ended(c, e) == (log[c] \o Calls(e.inst, <<"shutdown", "drop">>)) \o dlclose(c)
<1>1. /\ boot = "serving" /\ boot' = "stopped" /\ UNCHANGED <<todo, dir, conf, host>>
      /\ log' = [c \in Candidates |->
                    IF \A e \in ToSet(ps) : e.cand # c THEN log[c]
                    ELSE Ended(c, CHOOSE e \in ToSet(ps) : e.cand = c)]
  BY DEF StopHost
<1>2. ConfTyped /\ ShapeOf(host) /\ AllUp(log, conf, ps) /\ Waiting
  BY <1>1 DEF HostInv, Lives
<1>3. /\ ps \in Seq(EntryType) /\ DOMAIN ps = 1..Len(ps)
      /\ \A p \in 1..Len(ps) : ps[p] \in EntryType
      /\ \A p, q \in 1..Len(ps) : ps[p].cand = ps[q].cand => p = q
  <2>1. ps \in Seq(EntryType) /\ \A p, q \in 1..Len(ps) : ps[p].cand = ps[q].cand => p = q
    BY <1>2 DEF ShapeOf
  <2> QED
    BY <2>1
<1>4. \A e \in ToSet(ps) : \E p \in 1..Len(ps) : ps[p] = e
  BY <1>3 DEF ToSet
<1>5. \A p \in 1..Len(ps) : ps[p] \in ToSet(ps)
  BY <1>3 DEF ToSet
<1> HIDE DEF ps, Ended
<1>6. ASSUME NEW p \in 1..Len(ps) PROVE log'[ps[p].cand] = Ended(ps[p].cand, ps[p])
  <2> DEFINE c == ps[p].cand
             e == CHOOSE f \in ToSet(ps) : f.cand = c
  <2>1. c \in Candidates
    BY <1>3 DEF EntryType
  <2>2. ~ \A f \in ToSet(ps) : f.cand # c
    BY <1>5
  <2>3. e \in ToSet(ps) /\ e.cand = c
    BY <1>5
  <2> HIDE DEF e
  <2>4. e = ps[p]
    BY <1>3, <1>4, <2>3
  <2>5. log'[c] = Ended(c, e)
    BY <1>1, <2>1, <2>2 DEF e
  <2> QED
    BY <2>4, <2>5
<1>7. \A p \in 1..Len(ps) : /\ ps[p].inst \in 1..2
                            /\ Initialised(log[ps[p].cand], ps[p].inst,
                                           CfgOf(conf, ConfigKey(ps[p])))
  BY <1>2, <1>3 DEF AllUp, UpIn, EntryType
<1>8. \A p \in 1..Len(ps) : Settled(log'[ps[p].cand])
  <2>1. ASSUME NEW p \in 1..Len(ps) PROVE Settled(log'[ps[p].cand])
    <3>1. Settled(Ended(ps[p].cand, ps[p]))
      BY <1>7, EndsShutDown, Zenon DEF Ended
    <3> QED
      BY <1>6, <3>1, Zenon
  <2> QED
    BY <2>1
<1>9. ASSUME NEW p \in 1..Len(ps)
      PROVE  HasInit(log'[ps[p].cand], ps[p].inst, CfgOf(conf, ConfigKey(ps[p])))
  <2>1. HasInit(Ended(ps[p].cand, ps[p]), ps[p].inst, CfgOf(conf, ConfigKey(ps[p])))
    BY <1>7, InitStays, Zenon DEF Ended
  <2> QED
    BY <1>6, <2>1, Zenon
<1>10. ASSUME NEW c \in Candidates PROVE Settled(log'[c])
  <2>1. CASE \E p \in 1..Len(ps) : ps[p].cand = c
    BY <1>8, <2>1
  <2>2. CASE ~ \E p \in 1..Len(ps) : ps[p].cand = c
    <3>1. \A e \in ToSet(ps) : e.cand # c
      BY <1>4, <2>2
    <3>2. log'[c] = log[c]
      BY <1>1, <3>1
    <3> QED
      BY <1>2, <2>2, <3>2 DEF AllUp, Registered
  <2> QED
    BY <2>1, <2>2
<1>11. AllGone(log', conf, ps)
  BY <1>9, <1>10 DEF AllGone
<1>12. Waiting'
  <2>1. ASSUME NEW c \in Candidates, log[c] = << >> PROVE log'[c] = << >>
    <3>1. \A e \in ToSet(ps) : e.cand # c
      <4>1. ~ Registered(ps, c)
        BY <1>2, <2>1, UntouchedIsUnregistered
      <4> QED
        BY <1>4, <4>1 DEF Registered
    <3> QED
      BY <1>1, <2>1, <3>1
  <2>2. \A d \in 1..Len(Dirs) : \A b \in Dirs[d] : log[b] = << >> => log'[b] = << >>
    BY <2>1, CandidatesOf
  <2> QED
    BY <1>1, <1>2, <2>2 DEF Waiting
<1>13. ConfTyped' /\ ShapeOf(host') /\ Lives'
  BY <1>1, <1>2, <1>11 DEF ConfTyped, Lives, ps
<1> QED
  BY <1>12, <1>13 DEF HostInv

LEMMA HostInit_Inv ==
  ASSUME HostInit
  PROVE  HostInv
<1>1. ConfTyped
  BY PluginAssumption DEF HostInit, ConfTyped
<1>2. ShapeOf(host)
  <2>1. /\ host = [plugins |-> << >>, registry |-> << >>]
        /\ host.plugins = << >> /\ host.registry = << >>
    BY DEF HostInit
  <2>2. << >> \in Seq(EntryType) /\ Len(<< >>) = 0 /\ DOMAIN << >> = {}
    OBVIOUS
  <2> QED
    BY <2>1, <2>2 DEF ShapeOf
<1>3. Lives
  <2>1. boot # "stopped" /\ log = [c \in Candidates |-> << >>] /\ host.plugins = << >>
    BY DEF HostInit
  <2>2. Len(<< >>) = 0
    OBVIOUS
  <2>3. AllUp(log, conf, << >>)
    BY <2>1, <2>2, EmptyLog DEF AllUp
  <2> QED
    BY <2>1, <2>3, Zenon DEF Lives
<1>4. Waiting
  <2>1. /\ boot = "builtins" /\ todo = {} /\ dir = 0
        /\ log = [c \in Candidates |-> << >>]
    BY DEF HostInit
  <2> QED
    BY <2>1, CandidatesOf, CandidatesAssumption DEF Waiting
<1> QED
  BY <1>1, <1>2, <1>3, <1>4 DEF HostInv

LEMMA HostInv_Step ==
  ASSUME HostInv, [HostNext]_hostVars
  PROVE  HostInv'
<1>1. CASE UNCHANGED hostVars
  BY <1>1 DEF HostInv, hostVars, ConfTyped, Lives, Waiting
<1>2. CASE \E o \in Outcomes : LoadBuiltin(o)
  BY <1>2, LoadBuiltinStep
<1>3. CASE load_dynamic_plugins
  BY <1>3, LoadDynamicStep
<1>4. CASE \E c \in todo, o1, o2 \in Outcomes : load_from_dir(c, o1, o2)
  BY <1>4, LoadFromDirStep
<1>5. CASE build
  <2>1. /\ boot = "build" /\ boot' = "serving" /\ UNCHANGED <<todo, dir, conf, host, log>>
    BY <1>5 DEF build
  <2> QED
    BY <2>1 DEF HostInv, ConfTyped, Lives, Waiting
<1>6. CASE \E id \in DOMAIN host.registry, r \in Reads, o \in Outcomes : sample_to(id, r, o)
  BY <1>6, SampleStep
<1>7. CASE StopHost
  BY <1>7, StopStep
<1> QED
  BY <1>1, <1>2, <1>3, <1>4, <1>5, <1>6, <1>7 DEF HostNext

LEMMA HostInvHolds == HostSpec => []HostInv
<1>1. HostInit => HostInv
  BY HostInit_Inv
<1>2. HostInv /\ [HostNext]_hostVars => HostInv'
  BY HostInv_Step
<1> QED
  BY <1>1, <1>2, PTL DEF HostSpec

LEMMA LivesOnce ==
  ASSUME HostInv
  PROVE  PluginsLiveOnce
<1> DEFINE ps == host.plugins
<1>1. \A c \in Candidates : Orderly(log[c]) /\ DOMAIN log[c] = 1..Len(log[c])
  <2> SUFFICES ASSUME NEW c \in Candidates
               PROVE  Orderly(log[c]) /\ DOMAIN log[c] = 1..Len(log[c])
    OBVIOUS
  <2>1. Orderly(log[c])
    <3>1. CASE boot = "stopped"
      BY <3>1 DEF HostInv, Lives, AllGone, Settled
    <3>2. CASE boot # "stopped"
      <4>1. AllUp(log, conf, ps)
        BY <3>2 DEF HostInv, Lives
      <4>2. CASE Settled(log[c])
        BY <4>2 DEF Settled
      <4>3. CASE Registered(ps, c)
        BY <4>1, <4>3 DEF AllUp, Registered, UpIn, Initialised
      <4> QED
        BY <4>1, <4>2, <4>3 DEF AllUp
    <3> QED
      BY <3>1, <3>2
  <2>2. log[c] \in Seq(CallType)
    BY <2>1 DEF Orderly
  <2> QED
    BY <2>1, <2>2
<1>2. ASSUME NEW c \in Candidates, NEW i \in DOMAIN log[c], NEW j \in DOMAIN log[c],
             i < j, log[c][i].inst = log[c][j].inst
      PROVE  /\ ~ (log[c][i].what = "init" /\ log[c][j].what = "init")
             /\ log[c][i].what = "shutdown" => log[c][j].what = "drop"
             /\ log[c][i].what # "drop"
  <2>1. Follows(log[c][i], log[c][j])
    BY <1>1, <1>2 DEF Orderly
  <2> QED
    BY <1>2, <2>1 DEF Follows
<1>3. /\ ps \in Seq(EntryType) /\ DOMAIN ps = 1..Len(ps)
      /\ \A p \in 1..Len(ps) : ps[p].cand \in Candidates
  <2>1. ps \in Seq(EntryType)
    BY DEF HostInv, ShapeOf
  <2>2. \A p \in 1..Len(ps) : ps[p] \in EntryType
    BY <2>1
  <2> QED
    BY <2>1, <2>2 DEF EntryType
<1>4. \A id : cfg(id) = CfgOf(conf, id)
  BY DEF cfg, CfgOf
<1>5. ASSUME NEW e \in ToSet(ps)
      PROVE  \E i \in DOMAIN log[e.cand] :
                 log[e.cand][i] = Call(e.inst, "init", cfg(ConfigKey(e)))
  <2>1. PICK p \in 1..Len(ps) : ps[p] = e
    BY <1>3, <1>5 DEF ToSet
  <2>2. HasInit(log[e.cand], e.inst, cfg(ConfigKey(e)))
    <3>1. CASE boot = "stopped"
      BY <1>4, <2>1, <3>1 DEF HostInv, Lives, AllGone
    <3>2. CASE boot # "stopped"
      <4>1. UpIn(log, conf, e)
        BY <2>1, <3>2 DEF HostInv, Lives, AllUp
      <4> QED
        BY <1>4, <4>1 DEF UpIn, Initialised, Ready, HasInit
    <3> QED
      BY <3>1, <3>2
  <2>3. DOMAIN log[e.cand] = 1..Len(log[e.cand])
    BY <1>1, <1>3, <2>1
  <2> QED
    BY <2>2, <2>3 DEF HasInit
<1>6. ASSUME boot = "stopped", NEW c \in Candidates, NEW n \in {1, 2}
      PROVE  Happens(c, n, "new") <=> Happens(c, n, "drop")
  <2>1. Over(log[c], n)
    BY <1>6 DEF HostInv, Lives, AllGone, Settled
  <2>2. \A w : Happens(c, n, w) <=> Said(log[c], n, w)
    BY <1>1, <1>6 DEF Happens, Is, Said
  <2>3. \A w : Fresh(log[c], n) => ~ Said(log[c], n, w)
    BY DEF Fresh, Said
  <2> QED
    BY <2>1, <2>2, <2>3 DEF Over, Gone
<1> QED
  BY <1>2, <1>5, <1>6 DEF PluginsLiveOnce

(* No instance is initialised twice or asked anything after its shutdown, a  *)
(* registered plugin has the config filed for it, and the stop leaves no     *)
(* instance behind: plugin_host.rs on every path through it, for any files,  *)
(* manifests, configs and failures.                                          *)
THEOREM PluginHostCorrect == HostSpec => []PluginsLiveOnce
<1>1. HostInv => PluginsLiveOnce
  BY LivesOnce
<1> QED
  BY <1>1, HostInvHolds, PTL

-----------------------------------------------------------------------------
(* The catalogue.  What registration keeps: each sensor of the registry is   *)
(* one its owner declared first, and is among the sensors the owner's entry  *)
(* holds; those are in the registry as they are, and bound to devices of the *)
(* entry only.                                                               *)

ManifestSound(ss, ds) ==
    /\ \A j \in 1..Len(ds) : ds[j].key \in ValidKeys
    /\ \A i \in 1..Len(ss) : \/ ss[i].device_key = None
                             \/ \E j \in 1..Len(ds) : ds[j].key = ss[i].device_key

ListedOnce(ss, reg, p) ==
    /\ \A i \in 1..Len(ss) : /\ ss[i].id \in DOMAIN reg
                             /\ reg[ss[i].id].idx = p /\ reg[ss[i].id].desc = ss[i]
    /\ \A i, j \in 1..Len(ss) : ss[i].id = ss[j].id => i = j

EntryOK(reg, p, e) == ManifestSound(e.sensors, e.devices) /\ ListedOnce(e.sensors, reg, p)

DeclaredBy(ps, ix) == Plugin[ps[ix].cand].manifest.sensors
SensorOK(ps, id, r) ==
    /\ FirstOf(DeclaredBy(ps, r.idx), Len(DeclaredBy(ps, r.idx)), id, r.desc)
    /\ \E i \in 1..Len(ps[r.idx].sensors) : ps[r.idx].sensors[i] = r.desc

CatOf(h) ==
    /\ \A id \in DOMAIN h.registry : SensorOK(h.plugins, id, h.registry[id])
    /\ \A p \in 1..Len(h.plugins) : EntryOK(h.registry, p, h.plugins[p])

LEMMA WelcomeIsSound ==
  ASSUME NEW h, NEW c \in Candidates, Welcome(h, c)
  PROVE  ManifestSound(Plugin[c].manifest.sensors, Crossed(c).devices)
<1> DEFINE m == Plugin[c].manifest
           r == IntoRPluginManifest(m)
           ds == Crossed(c).devices
<1>1. /\ Len(ds) = Len(m.devices)
      /\ \A i \in 1..Len(m.devices) : ds[i].key = m.devices[i].key
      /\ Len(r.devices) = Len(m.devices) /\ DOMAIN r.devices = 1..Len(m.devices)
      /\ \A i \in 1..Len(m.devices) : r.devices[i].key = m.devices[i].key
      /\ Len(r.sensors) = Len(m.sensors) /\ DOMAIN r.sensors = 1..Len(m.sensors)
      /\ \A i \in 1..Len(m.sensors) : r.sensors[i].device_key = m.sensors[i].device_key
  BY ManifestCrosses
<1>2. validate_manifest(r)
  BY DEF Welcome
<1> HIDE DEF m, r, ds
<1>3. /\ \A d : d \in ToSet(r.devices) <=> \E j \in 1..Len(m.devices) : d = r.devices[j]
      /\ \A s : s \in ToSet(r.sensors) <=> \E i \in 1..Len(m.sensors) : s = r.sensors[i]
  BY <1>1 DEF ToSet
<1>4. ASSUME NEW j \in 1..Len(ds) PROVE ds[j].key \in ValidKeys
  <2>1. r.devices[j] \in ToSet(r.devices) /\ r.devices[j].key = ds[j].key
    BY <1>1, <1>3
  <2>2. r.devices[j].key \in ValidKeys
    BY <1>2, <2>1 DEF validate_manifest, HardwareDeviceKey_try_new
  <2> QED
    BY <2>1, <2>2
<1>5. ASSUME NEW i \in 1..Len(m.sensors), m.sensors[i].device_key # None
      PROVE  \E j \in 1..Len(ds) : ds[j].key = m.sensors[i].device_key
  <2>1. r.sensors[i] \in ToSet(r.sensors) /\ r.sensors[i].device_key = m.sensors[i].device_key
    BY <1>1, <1>3
  <2>2. r.sensors[i].device_key \in {d.key : d \in ToSet(r.devices)}
    BY <1>2, <1>5, <2>1 DEF validate_manifest
  <2>3. PICK d \in ToSet(r.devices) : d.key = r.sensors[i].device_key
    BY <2>2
  <2>4. PICK j \in 1..Len(m.devices) : d = r.devices[j]
    BY <1>3, <2>3
  <2> QED
    BY <1>1, <2>1, <2>3, <2>4
<1>6. ManifestSound(m.sensors, ds)
  BY <1>4, <1>5 DEF ManifestSound
<1> QED
  BY <1>6 DEF m, ds

LEMMA EnrolledCat ==
  ASSUME NEW h, ShapeOf(h), CatOf(h), NEW c \in Candidates, NEW n \in 1..2, Welcome(h, c)
  PROVE  CatOf(Enrolled(h, c, n))
<1> DEFINE g == Enrolled(h, c, n)
           e == EntryFor(h, c, n)
           k == Len(h.plugins)
           s == Plugin[c].manifest.sensors
           old == h.registry
           new == g.registry
<1>1. /\ e \in EntryType /\ k \in Nat
      /\ g.plugins \in Seq(EntryType) /\ Len(g.plugins) = k + 1
      /\ g.plugins[k + 1] = e /\ \A p \in 1..k : g.plugins[p] = h.plugins[p]
      /\ RegistryOK(new, old, k + 1, s, Len(s))
      /\ ListOK(e.sensors, new, old, SensorDescriptor)
  BY EnrolledAdds
<1>2. e.cand = c /\ e.devices = Crossed(c).devices
  BY DEF EntryFor
<1>3. ManifestSound(s, e.devices)
  BY <1>2, WelcomeIsSound
<1>4. \A id \in DOMAIN old : old[id].idx \in 1..k
  BY DEF ShapeOf
<1>5. /\ \A id \in DOMAIN old : SensorOK(h.plugins, id, old[id])
      /\ \A p \in 1..k : EntryOK(old, p, h.plugins[p])
  BY DEF CatOf
<1>6. \A id \in DOMAIN old : id \in DOMAIN new /\ new[id] = old[id]
  BY <1>1 DEF RegistryOK
<1>7. \A id \in DOMAIN new : id \in DOMAIN old
                             \/ (new[id].idx = k + 1 /\ FirstOf(s, Len(s), id, new[id].desc))
  BY <1>1 DEF RegistryOK
<1>8. Len(e.sensors) \in Nat
  BY <1>1 DEF ListOK
<1> HIDE DEF e, s, old, new, g, k
<1>9. ASSUME NEW id \in DOMAIN new PROVE SensorOK(g.plugins, id, new[id])
  <2>1. CASE id \in DOMAIN old
    <3>1. new[id] = old[id] /\ g.plugins[old[id].idx] = h.plugins[old[id].idx]
      BY <1>1, <1>4, <1>6, <2>1
    <3> QED
      BY <1>5, <2>1, <3>1 DEF SensorOK, DeclaredBy
  <2>2. CASE id \notin DOMAIN old
    <3>1. new[id].idx = k + 1 /\ FirstOf(s, Len(s), id, new[id].desc)
      BY <1>7, <2>2
    <3>2. PICK p \in 1..Len(e.sensors) : e.sensors[p].id = id
      BY <1>1, <2>2 DEF ListOK
    <3>3. new[id].desc = e.sensors[p]
      BY <1>1, <3>2 DEF ListOK
    <3>4. DeclaredBy(g.plugins, k + 1) = s /\ g.plugins[k + 1].sensors = e.sensors
      BY <1>1, <1>2 DEF DeclaredBy, s
    <3> QED
      BY <3>1, <3>3, <3>4 DEF SensorOK
  <2> QED
    BY <2>1, <2>2
<1>10. ASSUME NEW p \in 1..k PROVE EntryOK(new, p, h.plugins[p])
  BY <1>5, <1>6 DEF EntryOK, ListedOnce
<1>11. EntryOK(new, k + 1, e)
  <2>1. ListedOnce(e.sensors, new, k + 1)
    <3>1. ASSUME NEW i \in 1..Len(e.sensors)
          PROVE  /\ e.sensors[i].id \in DOMAIN new
                 /\ new[e.sensors[i].id].idx = k + 1 /\ new[e.sensors[i].id].desc = e.sensors[i]
      <4>1. /\ e.sensors[i].id \in DOMAIN new /\ e.sensors[i].id \notin DOMAIN old
            /\ new[e.sensors[i].id].desc = e.sensors[i]
        BY <1>1 DEF ListOK
      <4> QED
        BY <1>7, <4>1
    <3> QED
      BY <1>1, <3>1 DEF ListOK, ListedOnce
  <2>2. ManifestSound(e.sensors, e.devices)
    <3>1. ASSUME NEW i \in 1..Len(e.sensors)
          PROVE  \/ e.sensors[i].device_key = None
                 \/ \E j \in 1..Len(e.devices) : e.devices[j].key = e.sensors[i].device_key
      <4>1. /\ e.sensors[i].id \in DOMAIN new /\ e.sensors[i].id \notin DOMAIN old
            /\ new[e.sensors[i].id].desc = e.sensors[i]
        BY <1>1 DEF ListOK
      <4>2. FirstOf(s, Len(s), e.sensors[i].id, e.sensors[i])
        BY <1>7, <4>1
      <4>3. PICK q \in 1..Len(s) : s[q] = e.sensors[i]
        BY <4>2 DEF FirstOf
      <4> QED
        BY <1>3, <4>3 DEF ManifestSound
    <3> QED
      BY <1>3, <3>1 DEF ManifestSound
  <2> QED
    BY <2>1, <2>2 DEF EntryOK
<1>12. ASSUME NEW p \in 1..Len(g.plugins) PROVE EntryOK(new, p, g.plugins[p])
  <2>1. p \in 1..k \/ p = k + 1
    BY <1>1
  <2> QED
    BY <1>1, <1>10, <1>11, <2>1
<1>13. CatOf(g)
  BY <1>9, <1>12 DEF CatOf, new
<1> QED
  BY <1>13 DEF g

LEMMA LoadedCat ==
  ASSUME NEW h, NEW f, ShapeOf(h), CatOf(h), NEW c \in Candidates, NEW r, LoadedOr(h, f, c, r)
  PROVE  CatOf(r.host)
<1>1. CASE Refused(h, r)
  BY <1>1 DEF Refused
<1>2. ASSUME NEW n \in 1..2, Accepted(h, c, n, CfgOf(f, LoadedAs(c)), r) PROVE CatOf(r.host)
  <2>1. r.host = Enrolled(h, c, n) /\ Welcome(h, c)
    BY <1>2 DEF Accepted
  <2>2. CatOf(Enrolled(h, c, n))
    BY <2>1, EnrolledCat
  <2> QED
    BY <2>1, <2>2
<1> QED
  BY <1>1, <1>2 DEF LoadedOr

-----------------------------------------------------------------------------
(* The devices, as build goes through the plugins.  Done is the set of pairs *)
(* of a sensor and the key it is bound to that were gone through so far.     *)

DeviceLoop == INSTANCE Loops WITH Step <- AddDevice
SensorLoop == INSTANCE Loops WITH Step <- AddSensor
PluginLoop == INSTANCE Loops WITH Step <- AddPlugin

HasKey(D, k) == \E x \in 1..Len(D) : D[x].key = k

OneEach(D) ==
    /\ \A x \in 1..Len(D) : D[x].key \in ValidKeys
    /\ \A x, y \in 1..Len(D) : D[x].key = D[y].key => x = y
    /\ \A x \in 1..Len(D) : \A i, j \in 1..Len(D[x].sensor_ids) :
           D[x].sensor_ids[i] = D[x].sensor_ids[j] => i = j

Lists(D, id, k) == \E x \in 1..Len(D) : D[x].key = k /\ \E i \in 1..Len(D[x].sensor_ids) :
                                                            D[x].sensor_ids[i] = id

ListedFrom(D, Done) ==
    /\ OneEach(D)
    /\ \A id, k : Lists(D, id, k) <=> <<id, k>> \in Done

LEMMA DeviceAdded ==
  ASSUME NEW D \in Seq(Device), NEW Done, ListedFrom(D, Done),
         NEW d \in Device, d.key \in ValidKeys, d.sensor_ids = << >>
  PROVE  /\ AddDevice(D, d) \in Seq(Device) /\ ListedFrom(AddDevice(D, d), Done)
         /\ HasKey(AddDevice(D, d), d.key)
         /\ \A k : HasKey(D, k) => HasKey(AddDevice(D, d), k)
<1> DEFINE E == AddDevice(D, d)
           n == Len(D)
<1>1. CASE \E e \in ToSet(D) : e.key = d.key
  <2>1. E = D
    BY <1>1 DEF AddDevice
  <2>2. PICK e \in ToSet(D) : e.key = d.key
    BY <1>1
  <2>3. PICK x \in 1..n : D[x] = e
    BY <2>2 DEF ToSet
  <2>4. HasKey(D, d.key)
    BY <2>2, <2>3 DEF HasKey
  <2> QED
    BY <2>1, <2>4
<1>2. CASE ~ \E e \in ToSet(D) : e.key = d.key
  <2>1. E = Append(D, d)
    BY <1>2 DEF AddDevice
  <2>2. /\ E \in Seq(Device) /\ n \in Nat /\ Len(E) = n + 1 /\ E[n + 1] = d
        /\ \A x \in 1..n : E[x] = D[x]
    BY <2>1
  <2>3. \A x \in 1..n : D[x].key # d.key
    <3>1. \A x \in 1..n : D[x] \in ToSet(D)
      BY DEF ToSet
    <3> QED
      BY <1>2, <3>1
  <2>4. \A x \in 1..Len(E) : x \in 1..n \/ x = n + 1
    BY <2>2
  <2>5. (\A x \in 1..n : x \in 1..Len(E)) /\ n + 1 \in 1..Len(E)
    BY <2>2
  <2>6. \A i : i \notin 1..Len(d.sensor_ids)
    <3>1. Len(<< >>) = 0
      OBVIOUS
    <3> QED
      BY <3>1
  <2>7. /\ \A x \in 1..n : D[x].key \in ValidKeys
        /\ \A x, y \in 1..n : D[x].key = D[y].key => x = y
        /\ \A x \in 1..n : \A i, j \in 1..Len(D[x].sensor_ids) :
               D[x].sensor_ids[i] = D[x].sensor_ids[j] => i = j
    BY DEF ListedFrom, OneEach
  <2> HIDE DEF E, n
  <2>8. OneEach(E)
    <3>1. \A x \in 1..Len(E) : E[x].key \in ValidKeys
      BY <2>2, <2>4, <2>7
    <3>2. \A x, y \in 1..Len(E) : E[x].key = E[y].key => x = y
      BY <2>2, <2>3, <2>4, <2>7
    <3>3. ASSUME NEW x \in 1..Len(E), NEW i \in 1..Len(E[x].sensor_ids),
                 NEW j \in 1..Len(E[x].sensor_ids), E[x].sensor_ids[i] = E[x].sensor_ids[j]
          PROVE  i = j
      <4>1. CASE x = n + 1
        BY <2>2, <2>6, <4>1
      <4>2. CASE x \in 1..n
        BY <2>2, <2>7, <3>3, <4>2
      <4> QED
        BY <2>4, <4>1, <4>2
    <3> QED
      BY <3>1, <3>2, <3>3 DEF OneEach
  <2>9. ASSUME NEW id, NEW k PROVE Lists(E, id, k) <=> Lists(D, id, k)
    <3>1. ASSUME Lists(E, id, k) PROVE Lists(D, id, k)
      <4>1. PICK x \in 1..Len(E) : /\ E[x].key = k
                                   /\ \E i \in 1..Len(E[x].sensor_ids) : E[x].sensor_ids[i] = id
        BY <3>1 DEF Lists
      <4>2. x \in 1..n
        BY <2>2, <2>4, <2>6, <4>1
      <4>3. E[x] = D[x]
        BY <2>2, <4>2
      <4> QED
        BY <4>1, <4>2, <4>3 DEF Lists, n
    <3>2. ASSUME Lists(D, id, k) PROVE Lists(E, id, k)
      <4>1. PICK x \in 1..n : /\ D[x].key = k
                              /\ \E i \in 1..Len(D[x].sensor_ids) : D[x].sensor_ids[i] = id
        BY <3>2 DEF Lists, n
      <4>2. x \in 1..Len(E) /\ E[x] = D[x]
        BY <2>2, <2>5
      <4> QED
        BY <4>1, <4>2 DEF Lists
    <3> QED
      BY <3>1, <3>2
  <2>10. ListedFrom(E, Done)
    BY <2>8, <2>9 DEF ListedFrom
  <2>11. HasKey(E, d.key)
    BY <2>2, <2>5 DEF HasKey
  <2>12. \A k : HasKey(D, k) => HasKey(E, k)
    BY <2>2, <2>5 DEF HasKey, n
  <2> QED
    BY <2>2, <2>10, <2>11, <2>12 DEF E
<1> QED
  BY <1>1, <1>2

LEMMA AppendedSeq ==
  ASSUME NEW T, NEW l \in Seq(T), NEW x \in T
  PROVE  /\ Append(l, x) \in Seq(T) /\ Len(l) \in Nat /\ Len(Append(l, x)) = Len(l) + 1
         /\ Append(l, x)[Len(l) + 1] = x
         /\ \A i \in 1..Len(l) : Append(l, x)[i] = l[i]
  OBVIOUS

(* A sensor bound to a device that is there is added to it and to no other; one *)
(* bound to none changes nothing.                                               *)
LEMMA WithOneMore ==
  ASSUME NEW d \in Device, NEW id \in STRING
  PROVE  LET e == [d EXCEPT !.sensor_ids = Append(@, id)]
         IN /\ e \in Device /\ e.key = d.key /\ e.category = d.category
            /\ e.sensor_ids = Append(d.sensor_ids, id) /\ d.sensor_ids \in Seq(STRING)
<1> DEFINE ids == Append(d.sensor_ids, id)
<1>1. /\ d.key \in STRING /\ d.category \in ToSet(RHardwareCategoryKind) /\ d.model \in STRING
      /\ d.plugin_id \in STRING \cup {""} /\ d.plugin_device_id \in STRING
      /\ d.sensor_ids \in Seq(STRING)
      /\ d = [key |-> d.key, category |-> d.category, model |-> d.model,
              plugin_id |-> d.plugin_id, plugin_device_id |-> d.plugin_device_id,
              sensor_ids |-> d.sensor_ids]
  BY DEF Device
<1>2. ids \in Seq(STRING)
  <2> DEFINE old == d.sensor_ids
  <2>1. old \in Seq(STRING)
    BY <1>1
  <2> HIDE DEF old
  <2>2. Append(old, id) \in Seq(STRING)
    BY <2>1, AppendedSeq, Zenon
  <2> QED
    BY <2>2 DEF old
<1> DEFINE e == [d EXCEPT !.sensor_ids = ids]
<1> HIDE DEF ids
<1>3. e = [key |-> d.key, category |-> d.category, model |-> d.model,
           plugin_id |-> d.plugin_id, plugin_device_id |-> d.plugin_device_id,
           sensor_ids |-> ids]
  <2> DEFINE a == d.key
             b == d.category
             c == d.model
             p == d.plugin_id
             q == d.plugin_device_id
             s == d.sensor_ids
  <2>1. d = [key |-> a, category |-> b, model |-> c, plugin_id |-> p,
             plugin_device_id |-> q, sensor_ids |-> s]
    BY <1>1
  <2> HIDE DEF a, b, c, p, q, s
  <2>2. [d EXCEPT !.sensor_ids = ids]
          = [key |-> a, category |-> b, model |-> c, plugin_id |-> p,
             plugin_device_id |-> q, sensor_ids |-> ids]
    <3> DEFINE r == [key |-> a, category |-> b, model |-> c, plugin_id |-> p,
                     plugin_device_id |-> q, sensor_ids |-> s]
    <3>1. d = r
      BY <2>1
    <3>2. [r EXCEPT !.sensor_ids = ids]
            = [key |-> a, category |-> b, model |-> c, plugin_id |-> p,
               plugin_device_id |-> q, sensor_ids |-> ids]
      OBVIOUS
    <3> HIDE DEF r
    <3> QED
      BY <3>1, <3>2, Zenon
  <2> QED
    BY <2>2 DEF a, b, c, p, q, s
<1> HIDE DEF e
<1>4. e \in Device /\ e.key = d.key /\ e.category = d.category /\ e.sensor_ids = ids
  BY <1>1, <1>2, <1>3 DEF Device
<1>5. e = [d EXCEPT !.sensor_ids = Append(@, id)]
  BY DEF e, ids
<1> QED
  BY <1>1, <1>4, <1>5 DEF ids

LEMMA SensorAdded ==
  ASSUME NEW D \in Seq(Device), NEW Done, ListedFrom(D, Done),
         NEW s, s.id \in STRING, s.device_key = None \/ HasKey(D, s.device_key),
         \A k : <<s.id, k>> \notin Done
  PROVE  /\ AddSensor(D, s) \in Seq(Device)
         /\ ListedFrom(AddSensor(D, s),
                       IF s.device_key = None THEN Done ELSE Done \cup {<<s.id, s.device_key>>})
         /\ \A k : HasKey(D, k) => HasKey(AddSensor(D, s), k)
<1> DEFINE E == AddSensor(D, s)
           n == Len(D)
           more == IF s.device_key = None THEN Done ELSE Done \cup {<<s.id, s.device_key>>}
<1>1. n \in Nat /\ DOMAIN D = 1..n /\ \A x \in 1..n : D[x] \in Device
  OBVIOUS
<1>2. E = [x \in 1..n |-> IF D[x].key = s.device_key
                          THEN [D[x] EXCEPT !.sensor_ids = Append(@, s.id)] ELSE D[x]]
  BY <1>1 DEF AddSensor
<1>3. \A x \in 1..n : E[x] = IF D[x].key = s.device_key
                             THEN [D[x] EXCEPT !.sensor_ids = Append(@, s.id)] ELSE D[x]
  BY <1>2
<1>4. ASSUME NEW x \in 1..n
      PROVE  /\ E[x] \in Device /\ E[x].key = D[x].key
             /\ D[x].key # s.device_key => E[x] = D[x]
             /\ D[x].key = s.device_key => E[x].sensor_ids = Append(D[x].sensor_ids, s.id)
             /\ D[x].sensor_ids \in Seq(STRING)
  <2>1. D[x] \in Device
    BY <1>1
  <2>2. LET e == [D[x] EXCEPT !.sensor_ids = Append(@, s.id)]
        IN /\ e \in Device /\ e.key = D[x].key
           /\ e.sensor_ids = Append(D[x].sensor_ids, s.id) /\ D[x].sensor_ids \in Seq(STRING)
    BY <2>1, WithOneMore
  <2> QED
    BY <1>3, <2>1, <2>2
<1>5. E \in [1..n -> Device]
  BY <1>2, <1>4
<1>6. E \in Seq(Device) /\ Len(E) = n
  BY <1>1, <1>5
<1>7. /\ \A x \in 1..n : D[x].key \in ValidKeys
      /\ \A x, y \in 1..n : D[x].key = D[y].key => x = y
      /\ \A x \in 1..n : \A i, j \in 1..Len(D[x].sensor_ids) :
             D[x].sensor_ids[i] = D[x].sensor_ids[j] => i = j
      /\ \A id, k : Lists(D, id, k) <=> <<id, k>> \in Done
  BY DEF ListedFrom, OneEach
<1> HIDE DEF E, n
<1>8. \A x \in 1..n : D[x].key = s.device_key => s.device_key # None
  BY <1>7, KeysAssumption
<1>9. \A x \in 1..n : \A i \in 1..Len(D[x].sensor_ids) : D[x].sensor_ids[i] # s.id
  <2>1. ASSUME NEW x \in 1..n, NEW i \in 1..Len(D[x].sensor_ids), D[x].sensor_ids[i] = s.id
        PROVE  FALSE
    <3>1. Lists(D, s.id, D[x].key)
      BY <2>1 DEF Lists, n
    <3> QED
      BY <1>7, <3>1
  <2> QED
    BY <2>1
(* What the list of a device becomes. *)
<1>10. ASSUME NEW x \in 1..n, D[x].key = s.device_key
       PROVE  /\ Len(D[x].sensor_ids) \in Nat /\ Len(E[x].sensor_ids) = Len(D[x].sensor_ids) + 1
              /\ E[x].sensor_ids[Len(D[x].sensor_ids) + 1] = s.id
              /\ \A i \in 1..Len(D[x].sensor_ids) : E[x].sensor_ids[i] = D[x].sensor_ids[i]
  <2> DEFINE ids == D[x].sensor_ids
  <2>1. E[x].sensor_ids = Append(ids, s.id) /\ ids \in Seq(STRING)
    BY <1>4, <1>10
  <2> HIDE DEF ids
  <2>2. /\ Len(ids) \in Nat /\ Len(Append(ids, s.id)) = Len(ids) + 1
        /\ Append(ids, s.id)[Len(ids) + 1] = s.id
        /\ \A i \in 1..Len(ids) : Append(ids, s.id)[i] = ids[i]
    BY <2>1
  <2> QED
    BY <2>1, <2>2 DEF ids
<1>11. OneEach(E)
  <2>1. ASSUME NEW x \in 1..n, NEW i \in 1..Len(E[x].sensor_ids),
               NEW j \in 1..Len(E[x].sensor_ids), E[x].sensor_ids[i] = E[x].sensor_ids[j]
        PROVE  i = j
    <3>1. CASE D[x].key = s.device_key
      <4> DEFINE m == Len(D[x].sensor_ids)
      <4>5. m \in Nat /\ Len(E[x].sensor_ids) = m + 1
        BY <1>10, <3>1
      <4>6. i \in 1..(m + 1) /\ j \in 1..(m + 1)
        BY <4>5
      <4>1. (i \in 1..m \/ i = m + 1) /\ (j \in 1..m \/ j = m + 1)
        <5> HIDE DEF m
        <5> QED
          BY <4>5, <4>6
      <4>2. \A a, b \in 1..m : D[x].sensor_ids[a] = D[x].sensor_ids[b] => a = b
        BY <1>7
      <4> QED
        BY <1>9, <1>10, <2>1, <3>1, <4>1, <4>2
    <3>2. CASE D[x].key # s.device_key
      <4>1. E[x] = D[x]
        BY <1>4, <3>2
      <4> QED
        BY <1>7, <2>1, <4>1
    <3> QED
      BY <3>1, <3>2
  <2> QED
    BY <1>4, <1>6, <1>7, <2>1 DEF OneEach
<1>12. ASSUME NEW id, NEW k
       PROVE  Lists(E, id, k)
                <=> Lists(D, id, k) \/ (HasKey(D, k) /\ k = s.device_key /\ id = s.id)
  <2>1. ASSUME Lists(E, id, k)
        PROVE  Lists(D, id, k) \/ (HasKey(D, k) /\ k = s.device_key /\ id = s.id)
    <3>1. PICK x \in 1..n : /\ E[x].key = k
                            /\ \E i \in 1..Len(E[x].sensor_ids) : E[x].sensor_ids[i] = id
      BY <1>6, <2>1 DEF Lists
    <3>2. PICK i \in 1..Len(E[x].sensor_ids) : E[x].sensor_ids[i] = id
      BY <3>1
    <3>3. D[x].key = k /\ HasKey(D, k)
      BY <1>4, <3>1 DEF HasKey, n
    <3>4. CASE k # s.device_key
      <4>1. E[x] = D[x]
        BY <1>4, <3>3, <3>4
      <4> QED
        BY <3>2, <3>3, <4>1 DEF Lists, n
    <3>5. CASE k = s.device_key
      <4>1. i \in 1..Len(D[x].sensor_ids) \/ i = Len(D[x].sensor_ids) + 1
        BY <1>10, <3>2, <3>3, <3>5
      <4>2. i \in 1..Len(D[x].sensor_ids) => Lists(D, id, k)
        BY <1>10, <3>2, <3>3, <3>5 DEF Lists, n
      <4>3. i = Len(D[x].sensor_ids) + 1 => id = s.id
        BY <1>10, <3>2, <3>3, <3>5
      <4> QED
        BY <3>3, <3>5, <4>1, <4>2, <4>3
    <3> QED
      BY <3>4, <3>5
  <2>2. ASSUME Lists(D, id, k) PROVE Lists(E, id, k)
    <3>1. PICK x \in 1..n : /\ D[x].key = k
                            /\ \E i \in 1..Len(D[x].sensor_ids) : D[x].sensor_ids[i] = id
      BY <2>2 DEF Lists, n
    <3>2. PICK i \in 1..Len(D[x].sensor_ids) : D[x].sensor_ids[i] = id
      BY <3>1
    <3>3. i \in 1..Len(E[x].sensor_ids) /\ E[x].sensor_ids[i] = id
      <4>1. CASE D[x].key = s.device_key
        <5> DEFINE old == D[x].sensor_ids
                   new == E[x].sensor_ids
        <5>1. /\ Len(old) \in Nat /\ Len(new) = Len(old) + 1
              /\ \A j \in 1..Len(old) : new[j] = old[j]
          BY <1>10, <4>1
        <5>2. i \in 1..Len(old) /\ old[i] = id
          BY <3>2
        <5> HIDE DEF old, new
        <5>3. i \in 1..Len(new) /\ new[i] = id
          BY <5>1, <5>2
        <5> QED
          BY <5>3 DEF new
      <4>2. CASE D[x].key # s.device_key
        <5>1. E[x] = D[x]
          BY <1>4, <4>2
        <5> QED
          BY <3>2, <5>1
      <4> QED
        BY <4>1, <4>2
    <3> QED
      BY <1>4, <1>6, <3>1, <3>3 DEF Lists
  <2>3. ASSUME HasKey(D, k), k = s.device_key, id = s.id PROVE Lists(E, id, k)
    <3>1. PICK x \in 1..n : D[x].key = k
      BY <2>3 DEF HasKey, n
    <3>2. /\ Len(D[x].sensor_ids) + 1 \in 1..Len(E[x].sensor_ids)
          /\ E[x].sensor_ids[Len(D[x].sensor_ids) + 1] = id
      BY <1>10, <2>3, <3>1
    <3> QED
      BY <1>4, <1>6, <3>1, <3>2 DEF Lists
  <2> QED
    BY <2>1, <2>2, <2>3
<1>13. \A k : HasKey(D, k) <=> HasKey(E, k)
  BY <1>4, <1>6 DEF HasKey, n
<1>14. ~ HasKey(D, None)
  BY <1>7, KeysAssumption DEF HasKey, n
<1>15. ASSUME NEW id, NEW k PROVE Lists(E, id, k) <=> <<id, k>> \in more
  <2>1. CASE s.device_key = None
    BY <1>7, <1>12, <1>14, <2>1
  <2>2. CASE s.device_key # None
    <3>1. <<id, k>> \in more <=> <<id, k>> \in Done \/ (id = s.id /\ k = s.device_key)
      BY <2>2
    <3> QED
      BY <1>7, <1>12, <2>2, <3>1
  <2> QED
    BY <2>1, <2>2
<1> HIDE DEF more
<1>16. ListedFrom(E, more)
  BY <1>11, <1>15 DEF ListedFrom
<1> QED
  BY <1>6, <1>13, <1>16 DEF E, more

Bindings(ss, m) ==
    {<<ss[i].id, ss[i].device_key>> : i \in {j \in 1..m : ss[j].device_key # None}}

LEMMA BindingsGrow ==
  ASSUME NEW ss, NEW m \in Nat \ {0}
  PROVE  Bindings(ss, m) = IF ss[m].device_key = None THEN Bindings(ss, m - 1)
                           ELSE Bindings(ss, m - 1) \cup {<<ss[m].id, ss[m].device_key>>}
<1>1. \A i : i \in 1..m <=> i \in 1..(m - 1) \/ i = m
  OBVIOUS
<1>2. {i \in 1..m : ss[i].device_key # None}
        = {i \in 1..(m - 1) : ss[i].device_key # None}
          \cup (IF ss[m].device_key = None THEN {} ELSE {m})
  BY <1>1
<1> QED
  BY <1>2 DEF Bindings

LEMMA DevicesGo ==
  ASSUME NEW D \in Seq(Device), NEW Done, ListedFrom(D, Done), NEW ds \in Seq(Device),
         \A j \in 1..Len(ds) : ds[j].key \in ValidKeys /\ ds[j].sensor_ids = << >>
  PROVE  LET E == FoldLeft(AddDevice, D, ds)
         IN /\ E \in Seq(Device) /\ ListedFrom(E, Done)
            /\ \A j \in 1..Len(ds) : HasKey(E, ds[j].key)
<1> DEFINE n == Len(ds)
           G == {p \in (0..n) \X Seq(Device) :
                    ListedFrom(p[2], Done) /\ \A j \in 1..p[1] : HasKey(p[2], ds[j].key)}
           E == FoldLeft(AddDevice, D, ds)
<1>1. n \in Nat /\ DOMAIN ds = 1..n /\ \A j \in 1..n : ds[j] \in Device
  OBVIOUS
<1>2. <<0, D>> \in G
  BY <1>1
<1>3. ASSUME NEW i \in 1..n, NEW a, <<i - 1, a>> \in G
      PROVE  <<i, AddDevice(a, ds[i])>> \in G
  <2>1. a \in Seq(Device) /\ ListedFrom(a, Done) /\ \A j \in 1..(i - 1) : HasKey(a, ds[j].key)
    BY <1>3
  <2>2. /\ ds[i] \in Device /\ ds[i].key \in ValidKeys /\ ds[i].sensor_ids = << >>
    BY <1>1
  <2> DEFINE b == AddDevice(a, ds[i])
  <2>3. /\ b \in Seq(Device) /\ ListedFrom(b, Done) /\ HasKey(b, ds[i].key)
        /\ \A k : HasKey(a, k) => HasKey(b, k)
    BY <2>1, <2>2, DeviceAdded
  <2>4. \A j \in 1..i : j \in 1..(i - 1) \/ j = i
    BY <1>1
  <2> HIDE DEF b
  <2>5. \A j \in 1..i : HasKey(b, ds[j].key)
    BY <2>1, <2>3, <2>4
  <2>6. <<i, b>> \in G
    BY <1>1, <2>3, <2>5
  <2> QED
    BY <2>6 DEF b
<1>4. <<n, E>> \in G
  <2> HIDE DEF G, n, E
  <2>1. <<n, DeviceLoop!FoldLeft(AddDevice, D, ds)>> \in G
    BY <1>1, <1>2, <1>3, DeviceLoop!FoldKeeps
  <2>2. E = DeviceLoop!FoldLeft(AddDevice, D, ds)
    BY DEF FoldLeft, DeviceLoop!FoldLeft, MapThenFoldSet, DeviceLoop!MapThenFoldSet,
           Max, DeviceLoop!Max, E
  <2> QED
    BY <2>1, <2>2
<1> HIDE DEF E
<1>5. E \in Seq(Device) /\ ListedFrom(E, Done) /\ \A j \in 1..n : HasKey(E, ds[j].key)
  BY <1>4
<1> QED
  BY <1>5 DEF E

LEMMA SensorsGo ==
  ASSUME NEW D \in Seq(Device), NEW Done, ListedFrom(D, Done), NEW ss \in Seq(SensorDescriptor),
         \A i \in 1..Len(ss) : ss[i].device_key = None \/ HasKey(D, ss[i].device_key),
         \A i, j \in 1..Len(ss) : ss[i].id = ss[j].id => i = j,
         \A i \in 1..Len(ss) : \A k : <<ss[i].id, k>> \notin Done
  PROVE  LET E == FoldLeft(AddSensor, D, ss)
         IN E \in Seq(Device) /\ ListedFrom(E, Done \cup Bindings(ss, Len(ss)))
<1> DEFINE n == Len(ss)
           So(i) == Done \cup Bindings(ss, i)
           G == {p \in (0..n) \X Seq(Device) :
                    ListedFrom(p[2], So(p[1])) /\ \A k : HasKey(D, k) => HasKey(p[2], k)}
           E == FoldLeft(AddSensor, D, ss)
<1>1. n \in Nat /\ DOMAIN ss = 1..n /\ \A i \in 1..n : ss[i] \in SensorDescriptor
  OBVIOUS
<1>2. \A i \in 1..n : ss[i].id \in STRING
  BY <1>1 DEF SensorDescriptor
<1>3. So(0) = Done
  <2>1. {j \in 1..0 : ss[j].device_key # None} = {}
    OBVIOUS
  <2> QED
    BY <2>1 DEF Bindings
<1>4. \A i \in 1..n :
        So(i) = IF ss[i].device_key = None THEN So(i - 1)
                ELSE So(i - 1) \cup {<<ss[i].id, ss[i].device_key>>}
  <2>1. ASSUME NEW i \in 1..n
        PROVE  So(i) = IF ss[i].device_key = None THEN So(i - 1)
                       ELSE So(i - 1) \cup {<<ss[i].id, ss[i].device_key>>}
    <3>1. i \in Nat \ {0}
      BY <1>1
    <3>2. Bindings(ss, i) = IF ss[i].device_key = None THEN Bindings(ss, i - 1)
                            ELSE Bindings(ss, i - 1) \cup {<<ss[i].id, ss[i].device_key>>}
      BY <3>1, BindingsGrow
    <3> QED
      BY <3>2
  <2> QED
    BY <2>1
<1>5. ASSUME NEW i \in 1..n, NEW k PROVE <<ss[i].id, k>> \notin So(i - 1)
  <2>1. \A j \in 1..(i - 1) : j \in 1..n /\ j # i
    BY <1>1
  <2>2. \A j \in 1..(i - 1) : ss[j].id # ss[i].id
    BY <2>1
  <2> QED
    BY <2>2 DEF Bindings
<1>6. <<0, D>> \in G
  <2> HIDE DEF So
  <2> QED
    BY <1>1, <1>3
<1> HIDE DEF So
<1>7. ASSUME NEW i \in 1..n, NEW a, <<i - 1, a>> \in G
      PROVE  <<i, AddSensor(a, ss[i])>> \in G
  <2>1. a \in Seq(Device) /\ ListedFrom(a, So(i - 1)) /\ \A k : HasKey(D, k) => HasKey(a, k)
    BY <1>7
  <2>2. ss[i].device_key = None \/ HasKey(a, ss[i].device_key)
    BY <2>1
  <2> DEFINE b == AddSensor(a, ss[i])
  <2>3. /\ b \in Seq(Device)
        /\ ListedFrom(b, IF ss[i].device_key = None THEN So(i - 1)
                         ELSE So(i - 1) \cup {<<ss[i].id, ss[i].device_key>>})
        /\ \A k : HasKey(a, k) => HasKey(b, k)
    BY <1>2, <1>5, <2>1, <2>2, SensorAdded
  <2> HIDE DEF b
  <2>4. ListedFrom(b, So(i))
    BY <1>4, <2>3
  <2>5. <<i, b>> \in G
    BY <1>1, <2>1, <2>3, <2>4
  <2> QED
    BY <2>5 DEF b
<1>8. <<n, E>> \in G
  <2> HIDE DEF G, n, E
  <2>1. <<n, SensorLoop!FoldLeft(AddSensor, D, ss)>> \in G
    BY <1>1, <1>6, <1>7, SensorLoop!FoldKeeps
  <2>2. E = SensorLoop!FoldLeft(AddSensor, D, ss)
    BY DEF FoldLeft, SensorLoop!FoldLeft, MapThenFoldSet, SensorLoop!MapThenFoldSet,
           Max, SensorLoop!Max, E
  <2> QED
    BY <2>1, <2>2
<1> HIDE DEF E
<1>9. E \in Seq(Device) /\ ListedFrom(E, So(n))
  BY <1>8
<1> QED
  BY <1>9 DEF E, So

LEMMA BoundDevices ==
  ASSUME NEW e \in EntryType
  PROVE  /\ Bound(e) \in Seq(Device) /\ Len(Bound(e)) = Len(e.devices)
         /\ \A j \in 1..Len(e.devices) : /\ Bound(e)[j].key = e.devices[j].key
                                         /\ Bound(e)[j].sensor_ids = << >>
<1> DEFINE ds == e.devices
           n == Len(ds)
           B == Bound(e)
<1>1. e.id \in STRING /\ ds \in Seq(Device)
  BY DEF EntryType
<1>2. n \in Nat /\ DOMAIN ds = 1..n /\ \A j \in 1..n : ds[j] \in Device
  BY <1>1
<1> HIDE DEF ds, n
<1>3. B = [j \in 1..n |-> [ds[j] EXCEPT !.plugin_id = e.id, !.sensor_ids = << >>]]
  BY <1>2 DEF Bound, ds
<1>4. ASSUME NEW d \in Device
      PROVE  LET b == [d EXCEPT !.plugin_id = e.id, !.sensor_ids = << >>]
             IN b \in Device /\ b.key = d.key /\ b.sensor_ids = << >>
  <2>1. /\ d.key \in STRING /\ d.category \in ToSet(RHardwareCategoryKind) /\ d.model \in STRING
        /\ d.plugin_id \in STRING \cup {""} /\ d.plugin_device_id \in STRING
        /\ d = [key |-> d.key, category |-> d.category, model |-> d.model,
                plugin_id |-> d.plugin_id, plugin_device_id |-> d.plugin_device_id,
                sensor_ids |-> d.sensor_ids]
    BY DEF Device
  <2>2. << >> \in Seq(STRING)
    OBVIOUS
  <2> DEFINE b == [d EXCEPT !.plugin_id = e.id, !.sensor_ids = << >>]
  <2>3. b = [key |-> d.key, category |-> d.category, model |-> d.model,
             plugin_id |-> e.id, plugin_device_id |-> d.plugin_device_id,
             sensor_ids |-> << >>]
    <3> DEFINE a == d.key
               g == d.category
               c == d.model
               p == d.plugin_id
               q == d.plugin_device_id
               s == d.sensor_ids
    <3> DEFINE i == e.id
               o == << >>
    <3>1. d = [key |-> a, category |-> g, model |-> c, plugin_id |-> p,
               plugin_device_id |-> q, sensor_ids |-> s]
      BY <2>1
    <3> HIDE DEF a, g, c, p, q, s, i, o
    <3>2. [d EXCEPT !.plugin_id = i, !.sensor_ids = o]
            = [key |-> a, category |-> g, model |-> c, plugin_id |-> i,
               plugin_device_id |-> q, sensor_ids |-> o]
      <4> DEFINE v == [key |-> a, category |-> g, model |-> c, plugin_id |-> p,
                       plugin_device_id |-> q, sensor_ids |-> s]
                 w == [key |-> a, category |-> g, model |-> c, plugin_id |-> i,
                       plugin_device_id |-> q, sensor_ids |-> s]
      <4>1. d = v
        BY <3>1
      <4>2. [v EXCEPT !.plugin_id = i] = w
        OBVIOUS
      <4>3. [w EXCEPT !.sensor_ids = o]
              = [key |-> a, category |-> g, model |-> c, plugin_id |-> i,
                 plugin_device_id |-> q, sensor_ids |-> o]
        OBVIOUS
      <4> HIDE DEF v, w
      <4> QED
        BY <4>1, <4>2, <4>3, Zenon
    <3> QED
      BY <3>2 DEF a, g, c, p, q, s, i, o
  <2> HIDE DEF b
  <2>4. b \in Device /\ b.key = d.key /\ b.sensor_ids = << >>
    BY <1>1, <2>1, <2>2, <2>3 DEF Device
  <2> QED
    BY <2>4 DEF b
<1>5. \A j \in 1..n : B[j] = [ds[j] EXCEPT !.plugin_id = e.id, !.sensor_ids = << >>]
  BY <1>3
<1>6. \A j \in 1..n : B[j] \in Device /\ B[j].key = ds[j].key /\ B[j].sensor_ids = << >>
  <2> HIDE DEF B
  <2>1. ASSUME NEW j \in 1..n
        PROVE  B[j] \in Device /\ B[j].key = ds[j].key /\ B[j].sensor_ids = << >>
    <3> DEFINE d == ds[j]
    <3>1. d \in Device
      BY <1>2
    <3> HIDE DEF d
    <3> DEFINE b == [d EXCEPT !.plugin_id = e.id, !.sensor_ids = << >>]
    <3>2. b \in Device /\ b.key = d.key /\ b.sensor_ids = << >>
      BY <1>4, <3>1
    <3>3. B[j] = b
      BY <1>5 DEF d
    <3> HIDE DEF b
    <3> QED
      BY <3>2, <3>3 DEF d
  <2> QED
    BY <2>1
<1>7. B \in [1..n -> Device]
  BY <1>3, <1>6
<1>8. B \in Seq(Device) /\ Len(B) = n
  BY <1>2, <1>7
<1> QED
  BY <1>6, <1>8 DEF ds, n

LEMMA PluginGo ==
  ASSUME NEW D \in Seq(Device), NEW Done, ListedFrom(D, Done), NEW e \in EntryType,
         NEW reg, NEW p, EntryOK(reg, p, e),
         \A i \in 1..Len(e.sensors) : \A k : <<e.sensors[i].id, k>> \notin Done
  PROVE  /\ AddPlugin(D, e) \in Seq(Device)
         /\ ListedFrom(AddPlugin(D, e), Done \cup Bindings(e.sensors, Len(e.sensors)))
<1> DEFINE ds == Bound(e)
           ss == e.sensors
           M == FoldLeft(AddDevice, D, ds)
           E == FoldLeft(AddSensor, M, ss)
<1>1. /\ ds \in Seq(Device) /\ Len(ds) = Len(e.devices)
      /\ \A j \in 1..Len(e.devices) : ds[j].key = e.devices[j].key /\ ds[j].sensor_ids = << >>
  BY BoundDevices
<1>2. ss \in Seq(SensorDescriptor)
  BY DEF EntryType
<1>3. /\ \A j \in 1..Len(e.devices) : e.devices[j].key \in ValidKeys
      /\ \A i \in 1..Len(ss) : \/ ss[i].device_key = None
                               \/ \E j \in 1..Len(e.devices) : e.devices[j].key = ss[i].device_key
      /\ \A i, j \in 1..Len(ss) : ss[i].id = ss[j].id => i = j
  BY DEF EntryOK, ManifestSound, ListedOnce
<1>4. AddPlugin(D, e) = E
  BY DEF AddPlugin
<1> HIDE DEF ds, ss, M, E
<1>5. /\ M \in Seq(Device) /\ ListedFrom(M, Done)
      /\ \A j \in 1..Len(ds) : HasKey(M, ds[j].key)
  BY <1>1, <1>3, DevicesGo DEF M
<1>6. \A i \in 1..Len(ss) : ss[i].device_key = None \/ HasKey(M, ss[i].device_key)
  BY <1>1, <1>3, <1>5
<1>7. \A i \in 1..Len(ss) : \A k : <<ss[i].id, k>> \notin Done
  BY DEF ss
<1>8. E \in Seq(Device) /\ ListedFrom(E, Done \cup Bindings(ss, Len(ss)))
  BY <1>2, <1>3, <1>5, <1>6, <1>7, SensorsGo DEF E
<1> QED
  BY <1>4, <1>8 DEF ss

AllBindings(ps, m) == UNION {Bindings(ps[q].sensors, Len(ps[q].sensors)) : q \in 1..m}

LEMMA InBindings ==
  ASSUME NEW ss, NEW id, NEW k
  PROVE  <<id, k>> \in Bindings(ss, Len(ss))
           <=> \E i \in 1..Len(ss) : ss[i].id = id /\ ss[i].device_key = k /\ k # None
  BY DEF Bindings

LEMMA InAllBindings ==
  ASSUME NEW ps, NEW m, NEW id, NEW k
  PROVE  <<id, k>> \in AllBindings(ps, m)
           <=> \E q \in 1..m : \E i \in 1..Len(ps[q].sensors) :
                   /\ ps[q].sensors[i].id = id /\ ps[q].sensors[i].device_key = k /\ k # None
<1>1. <<id, k>> \in AllBindings(ps, m)
        <=> \E q \in 1..m : <<id, k>> \in Bindings(ps[q].sensors, Len(ps[q].sensors))
  BY DEF AllBindings
<1> QED
  BY <1>1, InBindings

LEMMA DevicesBuilt ==
  ASSUME NEW h, ShapeOf(h), CatOf(h)
  PROVE  LET D == FoldLeft(AddPlugin, << >>, h.plugins)
         IN D \in Seq(Device) /\ ListedFrom(D, AllBindings(h.plugins, Len(h.plugins)))
<1> DEFINE ps == h.plugins
           n == Len(ps)
           G == {p \in (0..n) \X Seq(Device) : ListedFrom(p[2], AllBindings(ps, p[1]))}
           D == FoldLeft(AddPlugin, << >>, ps)
<1>1. ps \in Seq(EntryType) /\ \A p \in 1..n : EntryOK(h.registry, p, ps[p])
  BY DEF ShapeOf, CatOf
<1>2. n \in Nat /\ DOMAIN ps = 1..n /\ \A p \in 1..n : ps[p] \in EntryType
  BY <1>1
<1> HIDE DEF ps, n
<1>3. <<0, << >>>> \in G
  <2>1. << >> \in Seq(Device) /\ Len(<< >>) = 0
    OBVIOUS
  <2>2. \A q : q \notin 1..0
    OBVIOUS
  <2>3. AllBindings(ps, 0) = {}
    BY <2>2 DEF AllBindings
  <2>4. \A id, k : ~ Lists(<< >>, id, k)
    BY <2>1, <2>2 DEF Lists
  <2>5. OneEach(<< >>)
    BY <2>1, <2>2 DEF OneEach
  <2>6. ListedFrom(<< >>, AllBindings(ps, 0))
    BY <2>3, <2>4, <2>5 DEF ListedFrom
  <2> DEFINE o == << >>
             p == <<0, o>>
  <2>7. o \in Seq(Device) /\ ListedFrom(o, AllBindings(ps, 0))
    BY <2>1, <2>6
  <2> HIDE DEF o
  <2>8. p \in (0..n) \X Seq(Device) /\ p[1] = 0 /\ p[2] = o
    BY <1>2, <2>7
  <2> HIDE DEF p
  <2>9. p \in G
    BY <2>7, <2>8
  <2> QED
    BY <2>9 DEF p, o
<1>4. ASSUME NEW i \in 1..n, NEW a, <<i - 1, a>> \in G
      PROVE  <<i, AddPlugin(a, ps[i])>> \in G
  <2> DEFINE before == AllBindings(ps, i - 1)
             here == Bindings(ps[i].sensors, Len(ps[i].sensors))
             b == AddPlugin(a, ps[i])
  <2>1. a \in Seq(Device) /\ ListedFrom(a, before)
    BY <1>4
  <2>2. \A q \in 1..(i - 1) : q \in 1..n /\ q # i
    BY <1>2
  <2>3. ASSUME NEW j \in 1..Len(ps[i].sensors), NEW k
        PROVE  <<ps[i].sensors[j].id, k>> \notin before
    <3> SUFFICES ASSUME <<ps[i].sensors[j].id, k>> \in before PROVE FALSE
      OBVIOUS
    <3>1. PICK q \in 1..(i - 1) : \E x \in 1..Len(ps[q].sensors) :
                                      ps[q].sensors[x].id = ps[i].sensors[j].id
      <4> DEFINE m == i - 1
                 v == ps[i].sensors[j].id
      <4>1. <<v, k>> \in AllBindings(ps, m)
        OBVIOUS
      <4> HIDE DEF m, v
      <4>2. \E q \in 1..m : \E x \in 1..Len(ps[q].sensors) :
              ps[q].sensors[x].id = v /\ ps[q].sensors[x].device_key = k /\ k # None
        BY <4>1, InAllBindings
      <4> QED
        BY <4>2 DEF m, v
    <3>2. PICK x \in 1..Len(ps[q].sensors) : ps[q].sensors[x].id = ps[i].sensors[j].id
      BY <3>1
    <3>3. h.registry[ps[q].sensors[x].id].idx = q /\ h.registry[ps[i].sensors[j].id].idx = i
      BY <1>1, <2>2 DEF EntryOK, ListedOnce
    <3> QED
      BY <2>2, <3>2, <3>3
  <2>4. ps[i] \in EntryType /\ EntryOK(h.registry, i, ps[i])
    BY <1>1, <1>2
  <2> HIDE DEF before, here, b
  <2>5. b \in Seq(Device) /\ ListedFrom(b, before \cup here)
    BY <2>1, <2>3, <2>4, PluginGo DEF b, here
  <2>6. before \cup here = AllBindings(ps, i)
    <3>1. \A q : q \in 1..i <=> q \in 1..(i - 1) \/ q = i
      BY <1>2
    <3> QED
      BY <3>1 DEF before, here, AllBindings
  <2>7. <<i, b>> \in G
    <3> DEFINE p == <<i, b>>
    <3>1. p \in (0..n) \X Seq(Device) /\ p[1] = i /\ p[2] = b
      BY <1>2, <2>5
    <3> HIDE DEF p
    <3>2. p \in G
      BY <2>5, <2>6, <3>1
    <3> QED
      BY <3>2 DEF p
  <2> QED
    BY <2>7 DEF b
<1>5. <<n, D>> \in G
  <2> HIDE DEF G, D
  <2>1. <<n, PluginLoop!FoldLeft(AddPlugin, << >>, ps)>> \in G
    BY <1>2, <1>3, <1>4, PluginLoop!FoldKeeps
  <2>2. D = PluginLoop!FoldLeft(AddPlugin, << >>, ps)
    BY DEF FoldLeft, PluginLoop!FoldLeft, MapThenFoldSet, PluginLoop!MapThenFoldSet,
           Max, PluginLoop!Max, D
  <2> QED
    BY <2>1, <2>2
<1> HIDE DEF D
<1>6. D \in Seq(Device) /\ ListedFrom(D, AllBindings(ps, n))
  BY <1>5
<1> QED
  BY <1>6 DEF D, ps, n

-----------------------------------------------------------------------------
(* The listings and the order of the snapshot.                               *)

HwOf(D, ps) == D \in Seq(Device) /\ ListedFrom(D, AllBindings(ps, Len(ps)))

LEMMA ListingsFollow ==
  ASSUME ShapeOf(host), CatOf(host), HwOf(hw.devices, host.plugins)
  PROVE  ListingsAgree
<1> DEFINE D == hw.devices
           ps == host.plugins
           n == Len(D)
<1>1. /\ D \in Seq(Device) /\ OneEach(D)
      /\ \A id, k : Lists(D, id, k) <=> <<id, k>> \in AllBindings(ps, Len(ps))
  BY DEF HwOf, ListedFrom
<1>2. n \in Nat /\ DOMAIN D = 1..n /\ \A x \in 1..n : D[x] \in Device
  BY <1>1
<1>3. \A x \in 1..n : D[x].sensor_ids \in Seq(STRING)
  BY <1>2 DEF Device
<1>4. \A x \in 1..n : DOMAIN D[x].sensor_ids = 1..Len(D[x].sensor_ids)
  BY <1>3
<1>5. /\ \A id \in DOMAIN host.registry : host.registry[id].idx \in 1..Len(ps)
      /\ \A id \in DOMAIN host.registry : SensorOK(ps, id, host.registry[id])
      /\ \A p \in 1..Len(ps) : EntryOK(host.registry, p, ps[p])
  BY DEF ShapeOf, CatOf
<1> HIDE DEF D, ps, n
<1>6. ASSUME NEW id \in DOMAIN host.registry, host.registry[id].desc.device_key # None
      PROVE  \E d \in ToSet(D) : d.key = host.registry[id].desc.device_key /\ id \in ToSet(d.sensor_ids)
  <2> DEFINE r == host.registry[id]
             k == r.desc.device_key
  <2>1. r.desc.id = id
    BY <1>5 DEF SensorOK, FirstOf
  <2>2. PICK i \in 1..Len(ps[r.idx].sensors) : ps[r.idx].sensors[i] = r.desc
    BY <1>5 DEF SensorOK
  <2>3. <<id, k>> \in AllBindings(ps, Len(ps))
    BY <1>5, <1>6, <2>1, <2>2, InAllBindings
  <2>4. PICK x \in 1..n : D[x].key = k /\ \E j \in 1..Len(D[x].sensor_ids) : D[x].sensor_ids[j] = id
    BY <1>1, <2>3 DEF Lists, n
  <2>5. D[x] \in ToSet(D)
    BY <1>2 DEF ToSet
  <2>6. id \in ToSet(D[x].sensor_ids)
    BY <1>4, <2>4 DEF ToSet
  <2> QED
    BY <2>4, <2>5, <2>6
<1>7. ASSUME NEW x \in DOMAIN D, NEW i \in DOMAIN D[x].sensor_ids
      PROVE  /\ D[x].sensor_ids[i] \in DOMAIN host.registry
             /\ host.registry[D[x].sensor_ids[i]].desc.device_key = D[x].key
  <2>1. x \in 1..n /\ i \in 1..Len(D[x].sensor_ids)
    BY <1>2, <1>4
  <2>2. Lists(D, D[x].sensor_ids[i], D[x].key)
    BY <2>1 DEF Lists, n
  <2>3. <<D[x].sensor_ids[i], D[x].key>> \in AllBindings(ps, Len(ps))
    BY <1>1, <2>2
  <2>4. PICK q \in 1..Len(ps) : \E j \in 1..Len(ps[q].sensors) :
            ps[q].sensors[j].id = D[x].sensor_ids[i] /\ ps[q].sensors[j].device_key = D[x].key
    <3> DEFINE v == D[x].sensor_ids[i]
               k == D[x].key
               m == Len(ps)
    <3>1. <<v, k>> \in AllBindings(ps, m)
      BY <2>3
    <3> HIDE DEF v, k, m
    <3>2. \E q \in 1..m : \E j \in 1..Len(ps[q].sensors) :
            ps[q].sensors[j].id = v /\ ps[q].sensors[j].device_key = k /\ k # None
      BY <3>1, InAllBindings
    <3> QED
      BY <3>2 DEF v, k, m
  <2>5. PICK j \in 1..Len(ps[q].sensors) :
            ps[q].sensors[j].id = D[x].sensor_ids[i] /\ ps[q].sensors[j].device_key = D[x].key
    BY <2>4
  <2>6. /\ ps[q].sensors[j].id \in DOMAIN host.registry
        /\ host.registry[ps[q].sensors[j].id].desc = ps[q].sensors[j]
    BY <1>5 DEF EntryOK, ListedOnce
  <2> QED
    BY <2>5, <2>6
<1>8. ASSUME NEW x \in DOMAIN D, NEW y \in DOMAIN D, NEW i \in DOMAIN D[x].sensor_ids,
             NEW j \in DOMAIN D[y].sensor_ids, D[x].sensor_ids[i] = D[y].sensor_ids[j]
      PROVE  x = y /\ i = j
  <2>1. D[x].key = D[y].key
    <3>1. host.registry[D[x].sensor_ids[i]].desc.device_key = D[x].key
      BY <1>7
    <3>2. host.registry[D[y].sensor_ids[j]].desc.device_key = D[y].key
      BY <1>7
    <3> QED
      BY <1>8, <3>1, <3>2
  <2>2. x \in 1..n /\ y \in 1..n /\ i \in 1..Len(D[x].sensor_ids) /\ j \in 1..Len(D[y].sensor_ids)
    BY <1>2, <1>4
  <2>3. x = y
    BY <1>1, <2>1, <2>2 DEF OneEach, n
  <2> QED
    BY <1>1, <1>8, <2>2, <2>3 DEF OneEach, n
<1> QED
  <2>1. \A id \in DOMAIN host.registry : host.registry[id].desc.device_key # None
          => \E d \in ToSet(D) : d.key = host.registry[id].desc.device_key /\ id \in ToSet(d.sensor_ids)
    BY <1>6
  <2>2. \A x \in DOMAIN D : \A i \in DOMAIN D[x].sensor_ids :
          /\ D[x].sensor_ids[i] \in DOMAIN host.registry
          /\ host.registry[D[x].sensor_ids[i]].desc.device_key = D[x].key
    BY <1>7
  <2>3. \A x, y \in DOMAIN D : \A i \in DOMAIN D[x].sensor_ids : \A j \in DOMAIN D[y].sensor_ids :
          D[x].sensor_ids[i] = D[y].sensor_ids[j] => x = y /\ i = j
    BY <1>8
  <2>4. \A x, y \in DOMAIN D : \A i \in DOMAIN D[x].sensor_ids :
          /\ D[x].sensor_ids[i] \in DOMAIN host.registry
          /\ host.registry[D[x].sensor_ids[i]].desc.device_key = D[x].key
          /\ \A j \in DOMAIN D[y].sensor_ids :
                 D[x].sensor_ids[i] = D[y].sensor_ids[j] => x = y /\ i = j
    BY <2>2, <2>3, Zenon
  <2> QED
    BY <2>1, <2>4, Zenon DEF ListingsAgree, D

(* Where a device stands in the order: the ranks of a category lie before those *)
(* of the next.                                                                 *)
KeyCount == Len(KeyOrder)
CategoryBase(r) == IF r = 0 THEN 0 ELSE IF r = 1 THEN KeyCount ELSE IF r = 2 THEN KeyCount + KeyCount
                   ELSE IF r = 3 THEN KeyCount + KeyCount + KeyCount ELSE KeyCount + KeyCount + KeyCount + KeyCount
Rank(d) == CategoryBase(category_rank[d.category]) + Encode(KeyOrder, d.key)

LEMMA RankOfCategory ==
  ASSUME NEW k \in ToSet(RHardwareCategoryKind)
  PROVE  category_rank[k] \in 0..4
<1>1. k \in {"Gpu", "Storage", "Network", "Cpu", "Other"}
  BY DEF ToSet, RHardwareCategoryKind
<1>2. CASE k = "Gpu"
  BY <1>2 DEF category_rank
<1>3. CASE k = "Storage"
  BY <1>3 DEF category_rank
<1>4. CASE k = "Network"
  BY <1>4 DEF category_rank
<1>5. CASE k = "Cpu"
  BY <1>5 DEF category_rank
<1>6. CASE k = "Other"
  BY <1>6 DEF category_rank
<1> QED
  BY <1>1, <1>2, <1>3, <1>4, <1>5, <1>6

LEMMA PlaceOfKey ==
  ASSUME NEW k \in ValidKeys
  PROVE  /\ KeyCount \in Nat /\ Encode(KeyOrder, k) \in 1..KeyCount
         /\ KeyOrder[Encode(KeyOrder, k)] = k
<1>1. KeyCount \in Nat /\ DOMAIN KeyOrder = 1..KeyCount
  BY KeysAssumption DEF KeyCount
<1>2. \E i \in DOMAIN KeyOrder : KeyOrder[i] = k
  BY KeysAssumption
<1>3. Encode(KeyOrder, k) \in DOMAIN KeyOrder /\ KeyOrder[Encode(KeyOrder, k)] = k
  BY <1>2, Zenon DEF Encode
<1> QED
  BY <1>1, <1>3

LEMMA RanksOrder ==
  ASSUME NEW a \in Device, NEW b \in Device, a.key \in ValidKeys, b.key \in ValidKeys
  PROVE  /\ Rank(a) \in 1..(KeyCount + KeyCount + KeyCount + KeyCount + KeyCount)
         /\ Before(a, b) <=> Rank(a) < Rank(b)
         /\ Rank(a) = Rank(b) => a.key = b.key
<1> DEFINE i == Encode(KeyOrder, a.key)
           j == Encode(KeyOrder, b.key)
           p == category_rank[a.category]
           q == category_rank[b.category]
<1>1. a.category \in ToSet(RHardwareCategoryKind) /\ b.category \in ToSet(RHardwareCategoryKind)
  BY DEF Device
<1>2. p \in 0..4 /\ q \in 0..4
  BY <1>1, RankOfCategory
<1>3. KeyCount \in Nat /\ i \in 1..KeyCount /\ j \in 1..KeyCount /\ (i = j => a.key = b.key)
  BY PlaceOfKey
<1>4. Before(a, b) <=> p < q \/ (p = q /\ i < j)
  BY DEF Before
<1>5. Rank(a) = CategoryBase(p) + i /\ Rank(b) = CategoryBase(q) + j
  BY DEF Rank
<1> HIDE DEF i, j, p, q
<1>6. Rank(a) \in 1..(KeyCount + KeyCount + KeyCount + KeyCount + KeyCount)
  BY <1>2, <1>3, <1>5 DEF CategoryBase
<1>7. p < q => Rank(a) < Rank(b)
  BY <1>2, <1>3, <1>5 DEF CategoryBase
<1>8. q < p => Rank(b) < Rank(a)
  BY <1>2, <1>3, <1>5 DEF CategoryBase
<1>9. p = q => (Rank(a) < Rank(b) <=> i < j) /\ (Rank(a) = Rank(b) => i = j)
  BY <1>2, <1>3, <1>5 DEF CategoryBase
<1>10. Rank(a) \in Nat /\ Rank(b) \in Nat
  BY <1>2, <1>3, <1>5 DEF CategoryBase
<1>11. p < q \/ q < p \/ p = q
  BY <1>2
<1>12. p \in Nat /\ q \in Nat
  BY <1>2
<1> QED
  BY <1>3, <1>4, <1>6, <1>7, <1>8, <1>9, <1>10, <1>11, <1>12

Sorted(s, n) == \A i, j \in 1..n : i < j => Before(s[i], s[j])

(* Different devices have different ranks, so the ranks can be put in order.  *)
LEMMA CanBeSorted ==
  ASSUME NEW D \in Seq(Device), OneEach(D)
  PROVE  /\ \E s \in [1..Len(D) -> ToSet(D)] : Sorted(s, Len(D))
         /\ IsFiniteSet(ToSet(D)) /\ Cardinality(ToSet(D)) = Len(D)
<1> DEFINE n == Len(D)
           T == ToSet(D)
           R == {Rank(D[x]) : x \in 1..n}
           g == [x \in 1..n |-> Rank(D[x])]
           M == KeyCount + KeyCount + KeyCount + KeyCount + KeyCount
<1>1. n \in Nat /\ DOMAIN D = 1..n /\ \A x \in 1..n : D[x] \in Device /\ D[x].key \in ValidKeys
  BY DEF OneEach
<1>2. \A x, y \in 1..n : D[x].key = D[y].key => x = y
  BY DEF OneEach
<1>3. \A d : d \in T <=> \E x \in 1..n : d = D[x]
  BY <1>1 DEF ToSet
<1> HIDE DEF n, T
<1>4. /\ \A x \in 1..n : Rank(D[x]) \in 1..M
      /\ \A x, y \in 1..n : Rank(D[x]) = Rank(D[y]) => x = y
  BY <1>1, <1>2, RanksOrder
<1>5. KeyCount \in Nat
  BY KeysAssumption DEF KeyCount
<1>6. IsFiniteSet(1..n) /\ Cardinality(1..n) = n
  BY <1>1, FS_Interval
<1>7. IsFiniteSet(R) /\ Cardinality(R) = n
  <2>1. g \in Bijection(1..n, R)
    BY <1>4 DEF Bijection, Injection, Surjection, IsInjective
  <2>2. ExistsBijection(1..n, R)
    BY <2>1 DEF ExistsBijection
  <2> QED
    BY <1>6, <2>2, FS_Bijection
<1>8. IsFiniteSet(T) /\ Cardinality(T) = n
  <2> DEFINE t == [x \in 1..n |-> D[x]]
  <2>1. t \in Bijection(1..n, T)
    BY <1>2, <1>3 DEF Bijection, Injection, Surjection, IsInjective
  <2>2. ExistsBijection(1..n, T)
    BY <2>1 DEF ExistsBijection
  <2> QED
    BY <1>6, <2>2, FS_Bijection
<1>9. Ordered(R)
  <2>1. R \in SUBSET (1..M)
    BY <1>4
  <2>2. M \in Nat
    BY <1>5
  <2> HIDE DEF R, M
  <2> QED
    BY <2>1, <2>2, CanBeOrdered
<1>10. PICK f \in [1..n -> R] : Rising(f, n)
  BY <1>7, <1>9 DEF Ordered
<1> DEFINE s == [i \in 1..n |-> CHOOSE d \in T : Rank(d) = f[i]]
<1>11. \A i \in 1..n : s[i] \in T /\ Rank(s[i]) = f[i]
  <2>1. ASSUME NEW i \in 1..n PROVE \E d \in T : Rank(d) = f[i]
    <3>1. PICK x \in 1..n : f[i] = Rank(D[x])
      BY <1>10
    <3> QED
      BY <1>3, <3>1
  <2> QED
    BY <2>1
<1>12. s \in [1..n -> T]
  BY <1>11
<1> HIDE DEF s
<1>13. Sorted(s, n)
  <2>1. ASSUME NEW i \in 1..n, NEW j \in 1..n, i < j PROVE Before(s[i], s[j])
    <3>1. f[i] < f[j]
      BY <1>10, <2>1 DEF Rising
    <3>2. /\ s[i] \in Device /\ s[i].key \in ValidKeys
          /\ s[j] \in Device /\ s[j].key \in ValidKeys
      BY <1>1, <1>3, <1>11
    <3> QED
      BY <1>11, <3>1, <3>2, RanksOrder
  <2> QED
    BY <2>1 DEF Sorted
<1> QED
  BY <1>8, <1>12, <1>13 DEF n, T

LEMMA SnapshotFollows ==
  ASSUME HwOf(hw.devices, host.plugins)
  PROVE  SnapshotSorted
<1> DEFINE D == hw.devices
           n == Len(D)
           T == ToSet(D)
<1>1. D \in Seq(Device) /\ OneEach(D)
  BY DEF HwOf, ListedFrom
<1>2. n \in Nat /\ DOMAIN D = 1..n /\ \A d \in T : d \in Device /\ d.key \in ValidKeys
  BY <1>1 DEF OneEach, ToSet
<1>3. /\ \E s \in [1..n -> T] : Sorted(s, n)
      /\ IsFiniteSet(T) /\ Cardinality(T) = n
  BY <1>1, CanBeSorted
<1>4. snapshot \in [1..n -> T] /\ Sorted(snapshot, n)
  <2>1. snapshot = CHOOSE s \in [1..n -> T] : \A i, j \in 1..n : i < j => Before(s[i], s[j])
    BY <1>2 DEF snapshot
  <2>2. \E s \in [1..n -> T] : \A i, j \in 1..n : i < j => Before(s[i], s[j])
    BY <1>3 DEF Sorted
  <2> HIDE DEF n, T
  <2>3. snapshot \in [1..n -> T] /\ \A i, j \in 1..n : i < j => Before(snapshot[i], snapshot[j])
    BY <2>1, <2>2, Zenon
  <2> QED
    BY <2>3 DEF Sorted
<1> HIDE DEF D, n, T
<1>5. \A i \in 1..n : snapshot[i] \in Device /\ snapshot[i].key \in ValidKeys
  BY <1>2, <1>4
<1>6. ASSUME NEW i \in 1..n, NEW j \in 1..n, i < j
      PROVE  /\ snapshot[i] # snapshot[j]
             /\ category_rank[snapshot[i].category] <= category_rank[snapshot[j].category]
  <2>1. Before(snapshot[i], snapshot[j])
    BY <1>4, <1>6 DEF Sorted
  <2>2. Rank(snapshot[i]) < Rank(snapshot[j]) /\ Rank(snapshot[i]) \in Nat
    <3>1. KeyCount \in Nat
      BY KeysAssumption DEF KeyCount
    <3>2. /\ snapshot[i] \in Device /\ snapshot[i].key \in ValidKeys
          /\ snapshot[j] \in Device /\ snapshot[j].key \in ValidKeys
      BY <1>5
    <3>3. /\ Rank(snapshot[i]) \in 1..(KeyCount + KeyCount + KeyCount + KeyCount + KeyCount)
          /\ Before(snapshot[i], snapshot[j]) <=> Rank(snapshot[i]) < Rank(snapshot[j])
      BY <3>2, RanksOrder
    <3> QED
      BY <2>1, <3>1, <3>3
  <2>3. snapshot[i] # snapshot[j]
    BY <2>2
  <2>4. /\ category_rank[snapshot[i].category] \in 0..4
        /\ category_rank[snapshot[j].category] \in 0..4
    BY <1>5, RankOfCategory DEF Device
  <2> QED
    BY <2>1, <2>3, <2>4 DEF Before
<1>7. \A d \in T : \E i \in 1..n : snapshot[i] = d
  <2>1. snapshot \in Injection(1..n, T)
    <3>1. \A i, j \in 1..n : snapshot[i] = snapshot[j] => i = j
      <4>1. \A i, j \in 1..n : i = j \/ i < j \/ j < i
        BY <1>2
      <4> QED
        BY <1>6, <4>1
    <3> QED
      BY <1>4, <3>1 DEF Injection, IsInjective
  <2>2. Cardinality(1..n) = n
    BY <1>2, FS_Interval
  <2>3. snapshot \in Surjection(1..n, T)
    BY <1>3, <2>1, <2>2, FS_Injection
  <2> QED
    BY <2>3 DEF Surjection
<1> QED
  BY <1>2, <1>6, <1>7 DEF SnapshotSorted, D, T

(* A reading comes back as it was taken, cell by cell.                        *)
LEMMA CellCrosses ==
  ASSUME NEW c \in TableCell
  PROVE  FromRCell(IntoRCell(c)) = c
<1>1. c = [kind |-> c.kind, value |-> c.value] /\ c.kind \in {"Text", "Number", "Bytes"}
  BY DEF TableCell
<1>2. c.kind = "Text" => c.value # None
  BY DEF TableCell, Text
<1> DEFINE r == IntoRCell(c)
<1>3. /\ r.kind = c.kind
      /\ c.kind = "Text" => r.text = c.value
      /\ c.kind = "Number" => r.number = c.value
      /\ c.kind = "Bytes" => r.bytes = c.value
  BY DEF IntoRCell
<1> HIDE DEF r
<1>4. CASE c.kind = "Text"
  <2>1. FromRCell(r) = [kind |-> "Text", value |-> c.value]
    BY <1>2, <1>3, <1>4 DEF FromRCell
  <2> QED
    BY <1>1, <1>4, <2>1 DEF r
<1>5. CASE c.kind = "Number"
  <2>1. FromRCell(r) = [kind |-> "Number", value |-> c.value]
    BY <1>3, <1>5 DEF FromRCell
  <2> QED
    BY <1>1, <1>5, <2>1 DEF r
<1>6. CASE c.kind = "Bytes"
  <2>1. FromRCell(r) = [kind |-> "Bytes", value |-> c.value]
    BY <1>3, <1>6 DEF FromRCell
  <2> QED
    BY <1>1, <1>6, <2>1 DEF r
<1> QED
  BY <1>1, <1>4, <1>5, <1>6

LEMMA RowCrosses ==
  ASSUME NEW row \in Seq(TableCell)
  PROVE  /\ FromRTableRow(IntoRTableRow(row)) = row
         /\ IntoRTableRow(row) \in Seq({IntoRCell(c) : c \in TableCell})
<1> DEFINE n == Len(row)
           q == [i \in 1..n |-> IntoRCell(row[i])]
           S == {IntoRCell(c) : c \in TableCell}
<1>1. n \in Nat /\ DOMAIN row = 1..n /\ row \in [1..n -> TableCell]
  BY LenProperties
<1>2. IntoRTableRow(row) = q
  BY <1>1 DEF IntoRTableRow, Each
<1>3. q \in Seq(S) /\ DOMAIN q = 1..n /\ \A i \in 1..n : q[i] = IntoRCell(row[i])
  BY <1>1
<1> HIDE DEF q, S, n
<1>4. svec_into_std(q) = q
  BY <1>3, PoppedInOrder
<1>5. FromRTableRow(q) = [i \in 1..n |-> FromRCell(q[i])]
  BY <1>3, <1>4 DEF FromRTableRow, Each
<1>6. \A i \in 1..n : FromRCell(q[i]) = row[i]
  <2>1. ASSUME NEW i \in 1..n PROVE FromRCell(q[i]) = row[i]
    <3>1. row[i] \in TableCell /\ q[i] = IntoRCell(row[i])
      BY <1>1, <1>3
    <3> QED
      BY <3>1, CellCrosses
  <2> QED
    BY <2>1
<1>7. row = [i \in 1..n |-> row[i]]
  BY <1>1
<1>8. FromRTableRow(q) = row
  BY <1>5, <1>6, <1>7
<1> QED
  BY <1>2, <1>3, <1>8 DEF S

LEMMA TableCrosses ==
  ASSUME NEW lines \in Seq(Seq(TableCell))
  PROVE  Each(svec_into_std(Each(lines, IntoRTableRow)), FromRTableRow) = lines
<1> DEFINE n == Len(lines)
           q == [i \in 1..n |-> IntoRTableRow(lines[i])]
           S == Seq({IntoRCell(c) : c \in TableCell})
<1>1. n \in Nat /\ DOMAIN lines = 1..n /\ lines \in [1..n -> Seq(TableCell)]
  BY LenProperties
<1>2. Each(lines, IntoRTableRow) = q
  BY <1>1 DEF Each
<1>3. \A i \in 1..n : lines[i] \in Seq(TableCell) /\ IntoRTableRow(lines[i]) \in S
                      /\ FromRTableRow(IntoRTableRow(lines[i])) = lines[i]
  BY <1>1, RowCrosses
<1> HIDE DEF S
<1>4. q \in Seq(S) /\ DOMAIN q = 1..n /\ \A i \in 1..n : q[i] = IntoRTableRow(lines[i])
  BY <1>1, <1>3
<1> HIDE DEF q, n
<1>5. svec_into_std(q) = q
  BY <1>4, PoppedInOrder
<1>6. Each(q, FromRTableRow) = [i \in 1..n |-> FromRTableRow(q[i])]
  BY <1>4 DEF Each
<1>7. \A i \in 1..n : FromRTableRow(q[i]) = lines[i]
  BY <1>3, <1>4
<1>8. lines = [i \in 1..n |-> lines[i]]
  BY <1>1
<1>9. Each(q, FromRTableRow) = lines
  BY <1>6, <1>7, <1>8
<1> QED
  BY <1>2, <1>5, <1>9

LEMMA ReadingCrosses ==
  ASSUME NEW r \in Reading
  PROVE  FromRReading(IntoRReading(r)) = r
<1> DEFINE m == IntoRReading(r)
<1>1. /\ r = [kind |-> r.kind, value |-> r.value]
      /\ r.kind \in {"Scalar", "Counter", "State", "Table"}
  BY DEF Reading
<1>2. /\ r.kind = "State" => r.value # None
      /\ r.kind = "Table" => r.value \in Seq(Seq(TableCell))
  BY DEF Reading, Text
<1>3. /\ m.kind = r.kind
      /\ r.kind = "Scalar" => m.scalar = r.value
      /\ r.kind = "Counter" => m.counter = r.value
      /\ r.kind = "State" => m.state = r.value
      /\ r.kind = "Table" => m.table = Each(r.value, IntoRTableRow)
  BY DEF IntoRReading
<1> HIDE DEF m
<1>4. CASE r.kind = "Scalar"
  <2>1. FromRReading(m) = [kind |-> "Scalar", value |-> r.value]
    BY <1>3, <1>4 DEF FromRReading
  <2> QED
    BY <1>1, <1>4, <2>1 DEF m
<1>5. CASE r.kind = "Counter"
  <2>1. FromRReading(m) = [kind |-> "Counter", value |-> r.value]
    BY <1>3, <1>5 DEF FromRReading
  <2> QED
    BY <1>1, <1>5, <2>1 DEF m
<1>6. CASE r.kind = "State"
  <2>1. FromRReading(m) = [kind |-> "State", value |-> r.value]
    BY <1>2, <1>3, <1>6 DEF FromRReading
  <2> QED
    BY <1>1, <1>6, <2>1 DEF m
<1>7. CASE r.kind = "Table"
  <2> DEFINE back == Each(svec_into_std(m.table), FromRTableRow)
  <2>1. back = r.value
    BY <1>2, <1>3, <1>7, TableCrosses
  <2>2. FromRReading(m) = [kind |-> "Table", value |-> back]
    BY <1>3, <1>7 DEF FromRReading
  <2> QED
    BY <1>1, <1>7, <2>1, <2>2 DEF m
<1> QED
  BY <1>1, <1>4, <1>5, <1>6, <1>7

-----------------------------------------------------------------------------
(* Catalogue, hardware list and sample, step by step.                         *)

CatInv ==
    /\ CatOf(host)
    /\ boot \in {"serving", "stopped"} => HwOf(hw.devices, host.plugins)
    /\ sampled.outcome = "ok" => sampled.got = sampled.read

LEMMA CatInv_Step ==
  ASSUME HostInv, CatInv, [HostNext]_hostVars
  PROVE  CatInv'
<1>1. ShapeOf(host) /\ ConfTyped
  BY DEF HostInv
<1>2. ASSUME NEW o \in Outcomes, LoadBuiltin(o) PROVE CatInv'
  <2>1. /\ \E c \in ToSet(Builtins) : \E r : Loads(c, r)
        /\ boot' \in {"builtins", "dynamic"}
    BY <1>1, <1>2, BuiltinLoads
  <2>2. PICK c \in ToSet(Builtins) : \E r : Loads(c, r)
    BY <2>1
  <2>3. PICK r : Loads(c, r)
    BY <2>2
  <2>4. CatOf(r.host)
    BY <1>1, <2>3, LoadedCat DEF Loads, CatInv
  <2>5. host' = r.host /\ sampled' = sampled
    BY <1>2, <2>3 DEF Loads, LoadBuiltin
  <2> QED
    BY <2>1, <2>4, <2>5 DEF CatInv
<1>3. ASSUME load_dynamic_plugins PROVE CatInv'
  <2>1. boot' \in {"dynamic", "build"} /\ host' = host /\ sampled' = sampled
    BY <1>3 DEF load_dynamic_plugins
  <2> QED
    BY <2>1 DEF CatInv
<1>4. ASSUME NEW c \in todo, NEW o1 \in Outcomes, NEW o2 \in Outcomes, load_from_dir(c, o1, o2)
      PROVE  CatInv'
  <2>1. (\E r : Loads(c, r)) /\ boot' = "dynamic"
    BY <1>4, LibraryLoads
  <2>2. PICK r : Loads(c, r)
    BY <2>1
  <2>3. CatOf(r.host)
    BY <1>1, <2>2, LoadedCat DEF Loads, CatInv
  <2>4. host' = r.host /\ sampled' = sampled
    BY <1>4, <2>2 DEF Loads, load_from_dir
  <2> QED
    BY <2>1, <2>3, <2>4 DEF CatInv
<1>5. ASSUME build PROVE CatInv'
  <2>1. hw'.devices = BuildDevices /\ host' = host /\ sampled' = sampled
    BY <1>5 DEF build
  <2>2. HwOf(BuildDevices, host.plugins)
    BY <1>1, DevicesBuilt DEF BuildDevices, HwOf, CatInv
  <2> QED
    BY <2>1, <2>2 DEF CatInv
<1>6. ASSUME NEW id \in DOMAIN host.registry, NEW r \in Reads, NEW o \in Outcomes, sample_to(id, r, o)
      PROVE  CatInv'
  <2>1. /\ host' = host /\ hw' = hw /\ boot' = boot
        /\ sampled'.outcome = o /\ sampled'.read = r
        /\ o = "ok" => sampled'.got = FromRReading(IntoRReading(r))
    BY <1>6 DEF sample_to
  <2>2. FromRReading(IntoRReading(r)) = r
    BY PluginAssumption, ReadingCrosses
  <2> QED
    BY <2>1, <2>2 DEF CatInv
<1>7. ASSUME StopHost PROVE CatInv'
  <2>1. boot = "serving" /\ host' = host /\ hw' = hw /\ sampled' = sampled
    BY <1>7 DEF StopHost
  <2> QED
    BY <2>1 DEF CatInv
<1>8. ASSUME UNCHANGED hostVars PROVE CatInv'
  BY <1>8 DEF hostVars, CatInv
<1> QED
  BY <1>2, <1>3, <1>4, <1>5, <1>6, <1>7, <1>8 DEF HostNext

LEMMA CatInvInit == HostInit => CatInv
<1> SUFFICES ASSUME HostInit PROVE CatInv
  OBVIOUS
<1>1. /\ host.plugins = << >> /\ host.registry = << >> /\ boot = "builtins"
      /\ sampled.outcome = None
  BY DEF HostInit, NoSample
<1>2. DOMAIN << >> = {} /\ Len(<< >>) = 0
  OBVIOUS
<1>3. CatOf(host)
  BY <1>1, <1>2 DEF CatOf
<1> QED
  BY <1>1, <1>3 DEF CatInv, None

LEMMA HonestFollows ==
  ASSUME HostInv, CatInv
  PROVE  CatalogueIsHonest
<1>1. ShapeOf(host) /\ CatOf(host)
  BY DEF HostInv, CatInv
<1>2. ASSUME NEW id \in DOMAIN host.registry
      PROVE  LET e == host.registry[id]
                 declared == Plugin[host.plugins[e.idx].cand].manifest.sensors
             IN \E i \in DOMAIN declared :
                    /\ declared[i] = e.desc /\ declared[i].id = id
                    /\ \A j \in 1..(i - 1) : declared[j].id # id
  <2> DEFINE e == host.registry[id]
             c == host.plugins[e.idx].cand
             declared == Plugin[c].manifest.sensors
  <2>1. e.idx \in 1..Len(host.plugins) /\ host.plugins \in Seq(EntryType)
    BY <1>1 DEF ShapeOf
  <2>2. c \in Candidates
    <3>1. host.plugins[e.idx] \in EntryType
      BY <2>1
    <3> QED
      BY <3>1 DEF EntryType
  <2>3. declared \in Seq(SensorDescriptor)
    BY <2>2, PluginAssumption DEF PluginManifest
  <2>4. DOMAIN declared = 1..Len(declared)
    <3> HIDE DEF declared
    <3> QED
      BY <2>3
  <2>5. FirstOf(declared, Len(declared), id, e.desc)
    BY <1>1 DEF CatOf, SensorOK, DeclaredBy
  <2> QED
    BY <2>4, <2>5 DEF FirstOf
<1>3. boot \in {"serving", "stopped"} => ListingsAgree /\ SnapshotSorted
  BY <1>1, ListingsFollow, SnapshotFollows DEF CatInv
<1>4. sampled.outcome = "ok" => sampled.got = sampled.read
  BY DEF CatInv
<1> QED
  BY <1>2, <1>3, <1>4 DEF CatalogueIsHonest

(* The registry, the hardware list and the samples say what the plugins declared *)
(* and read, through conversion, validation, duplicates and refused plugins:     *)
(* finish_register, HardwareRegistry::build and snapshot, host_sample.           *)
THEOREM CatalogueAlwaysHonest == HostSpec => []CatalogueIsHonest
<1>1. HostInv /\ CatInv /\ [HostNext]_hostVars => CatInv'
  BY CatInv_Step
<1>2. HostSpec => []CatInv
  BY <1>1, CatInvInit, HostInvHolds, PTL DEF HostSpec
<1>3. HostInv /\ CatInv => CatalogueIsHonest
  BY HonestFollows
<1> QED
  BY <1>2, <1>3, HostInvHolds, PTL
=============================================================================
