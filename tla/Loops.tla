------------------------------- MODULE Loops --------------------------------
(***************************************************************************)
(* What a loop of the code, written as FoldLeft of one step over a         *)
(* sequence, goes through.  The provers cannot take an operator as an      *)
(* argument of a theorem, so the step is a constant of this module: a      *)
(* module of proofs instantiates Loops once for each loop.                 *)
(***************************************************************************)
EXTENDS Naturals, Sequences, SequencesExt, WellFoundedInduction, TLAPS

CONSTANT Step(_, _)      \* the body of the loop: the accumulator and the next element

(* The values of the accumulator, from the first to the last.  *)
Runs(f, base, seq, n) ==
    /\ DOMAIN f = 0..n
    /\ f[0] = base
    /\ \A i \in 1..n : f[i] = Step(f[i - 1], seq[i])

(* The definition of FoldLeft on the positions s of the sequence.  *)
Folded(g, base, seq, s) ==
    IF s = {} THEN base ELSE Step(g[s \ {Max(s)}], seq[Max(s)])

(* A nonempty set of naturals has a least member. *)
LEMMA LoopLeast ==
  ASSUME NEW S \in SUBSET Nat, S # {}
  PROVE  \E x \in S : \A n \in S : x <= n
<1> DEFINE R == OpToRel(<, Nat)
<1>1. \A x, y \in Nat : <<y, x>> \in R <=> y < x
  BY DEF OpToRel
<1>2. IsWellFoundedOn(R, Nat)
  BY NatLessThanWellFounded
<1> HIDE DEF R
<1>3. PICK x \in S : \A y \in S : ~ (<<y, x>> \in R)
  BY <1>2, WFMin
<1>4. ASSUME NEW y \in S PROVE x <= y
  <2>1. x \in Nat /\ y \in Nat /\ ~ (y < x)
    BY <1>1, <1>3
  <2> QED
    BY <2>1
<1> QED
  BY <1>4

(* A nonempty set of positions has a last one: the least of its upper bounds. *)
LEMMA LoopMax ==
  ASSUME NEW n \in Nat, NEW s \in SUBSET (1..n), s # {}
  PROVE  Max(s) \in s /\ \A y \in s : y <= Max(s)
<1> DEFINE B == {b \in 0..n : \A y \in s : y <= b}
<1>1. B \in SUBSET Nat /\ B # {}
  <2>1. n \in B
    OBVIOUS
  <2> QED
    BY <2>1
<1>2. PICK m \in B : \A b \in B : m <= b
  BY <1>1, LoopLeast
<1>3. m \in s
  <2> SUFFICES ASSUME m \notin s PROVE FALSE
    OBVIOUS
  <2>1. m \in 0..n /\ \A y \in s : y <= m
    BY <1>2
  <2>2. \A y \in s : y \in 1..n /\ y # m
    OBVIOUS
  <2>3. PICK x \in s : TRUE
    OBVIOUS
  <2>4. m - 1 \in 0..n
    BY <2>1, <2>2, <2>3
  <2>5. \A y \in s : y <= m - 1
    BY <2>1, <2>2
  <2>6. m - 1 \in B
    BY <2>4, <2>5
  <2> QED
    BY <1>2, <2>1, <2>6
<1>4. \A y \in s : m >= y
  BY <1>2
<1> QED
  BY <1>3, <1>4 DEF Max

(* The recursion in the definition of FoldLeft has a solution: one that is right on *)
(* the positions up to m is made right on the positions up to m + 1.                *)
LEMMA FoldExists ==
  ASSUME NEW base, NEW seq, NEW n \in Nat
  PROVE  \E g : g = [s \in SUBSET (1..n) |-> Folded(g, base, seq, s)]
<1> DEFINE Upto(m, g) == \A s \in SUBSET (1..m) : g[s] = Folded(g, base, seq, s)
           All == SUBSET (1..n)
           Bad == {m \in 0..n : ~ (\E g : DOMAIN g = All /\ Upto(m, g))}
<1>1. ASSUME Bad # {} PROVE FALSE
  <2>1. Bad \in SUBSET Nat
    OBVIOUS
  <2>2. PICK m \in Bad : \A k \in Bad : m <= k
    BY <1>1, <2>1, LoopLeast
  <2>3. m # 0
    <3> SUFFICES ASSUME m = 0 PROVE FALSE
      OBVIOUS
    <3> DEFINE g == [s \in All |-> base]
    <3>1. SUBSET (1..0) = {{}} /\ {} \in All
      OBVIOUS
    <3>2. Upto(0, g)
      BY <3>1 DEF Folded
    <3> QED
      BY <2>2, <3>2
  <2>4. m - 1 \in 0..n /\ ~ (m <= m - 1) /\ m \in 1..n
    BY <2>2, <2>3
  <2>5. PICK g : DOMAIN g = All /\ Upto(m - 1, g)
    BY <2>2, <2>4
  <2> DEFINE h == [s \in All |-> Folded(g, base, seq, s)]
  <2>6. ASSUME NEW s \in SUBSET (1..m) PROVE h[s] = Folded(h, base, seq, s)
    <3>1. s \in All
      BY <2>4
    <3>2. CASE s = {}
      BY <3>1, <3>2 DEF Folded
    <3>3. CASE s # {}
      <4> DEFINE r == s \ {Max(s)}
      <4>1. Max(s) \in s /\ \A y \in s : y <= Max(s)
        <5>1. m \in Nat /\ s \in SUBSET (1..m) /\ s # {}
          BY <2>4, <3>3
        <5> HIDE DEF r
        <5> QED
          BY <5>1, LoopMax
      <4>2. r \in SUBSET (1..(m - 1)) /\ r \in All
        <5>1. \A y \in r : y \in 1..m /\ y # Max(s) /\ y <= Max(s) /\ Max(s) \in 1..m
          BY <4>1
        <5>2. \A y \in r : y \in 1..(m - 1)
          BY <2>4, <5>1
        <5> QED
          BY <3>1, <5>2
      <4>3. g[r] = Folded(g, base, seq, r)
        BY <2>5, <4>2
      <4>4. h[r] = g[r]
        BY <4>2, <4>3
      <4> QED
        BY <3>1, <3>3, <4>4 DEF Folded
    <3> QED
      BY <3>2, <3>3
  <2>7. DOMAIN h = All /\ Upto(m, h)
    BY <2>6
  <2> QED
    BY <2>2, <2>7
<1>2. PICK g : DOMAIN g = All /\ Upto(n, g)
  <2>1. n \in 0..n
    OBVIOUS
  <2> QED
    BY <1>1, <2>1
<1> DEFINE h == [s \in All |-> Folded(g, base, seq, s)]
<1>3. \A s \in All : h[s] = g[s]
  BY <1>2
<1>4. h = [s \in All |-> Folded(h, base, seq, s)]
  <2>1. ASSUME NEW s \in All PROVE Folded(g, base, seq, s) = Folded(h, base, seq, s)
    <3>1. s \ {Max(s)} \in All
      OBVIOUS
    <3> QED
      BY <1>3, <3>1 DEF Folded
  <2> QED
    BY <2>1
<1> HIDE DEF h
<1> QED
  BY <1>4

(* Induction along a run: what holds of 0 and, with i - 1, of i holds up to n. *)
LEMMA AlongTheRun ==
  ASSUME NEW n \in Nat, NEW S, 0 \in S, \A i \in 1..n : i - 1 \in S => i \in S
  PROVE  \A i \in 0..n : i \in S
<1> DEFINE Bad == {i \in 0..n : i \notin S}
<1> SUFFICES ASSUME Bad # {} PROVE FALSE
  OBVIOUS
<1>1. Bad \in SUBSET Nat
  OBVIOUS
<1>2. PICK m \in Bad : \A k \in Bad : m <= k
  BY <1>1, LoopLeast
<1>3. m \in 1..n /\ m - 1 \in 0..n /\ ~ (m <= m - 1)
  BY <1>2
<1> QED
  BY <1>2, <1>3

(* FoldLeft over a sequence is the last value of a run of its step. *)
LEMMA FoldRuns ==
  ASSUME NEW base, NEW seq, NEW n \in Nat, DOMAIN seq = 1..n
  PROVE  \E f : Runs(f, base, seq, n) /\ FoldLeft(Step, base, seq) = f[n]
<1> DEFINE Iter == CHOOSE g : g = [s \in SUBSET (1..n) |-> Folded(g, base, seq, s)]
           f == [i \in 0..n |-> Iter[1..i]]
<1>1. Iter = [s \in SUBSET (1..n) |-> Folded(Iter, base, seq, s)]
  BY FoldExists
<1>2. FoldLeft(Step, base, seq) = Iter[1..n]
  BY DEF FoldLeft, MapThenFoldSet, Folded
<1> HIDE DEF Iter
<1>3. f[0] = base
  <2>1. 1..0 = {} /\ {} \in SUBSET (1..n)
    OBVIOUS
  <2> QED
    BY <1>1, <2>1 DEF Folded
<1>4. ASSUME NEW i \in 1..n PROVE f[i] = Step(f[i - 1], seq[i])
  <2>1. 1..i \in SUBSET (1..n) /\ 1..i # {} /\ i \in 1..i /\ i - 1 \in 0..n /\ i \in Nat
    OBVIOUS
  <2>2. Max(1..i) \in 1..i /\ \A y \in 1..i : y <= Max(1..i)
    BY <2>1, LoopMax
  <2>3. Max(1..i) = i
    BY <2>1, <2>2
  <2>4. (1..i) \ {i} = 1..(i - 1)
    BY <2>1
  <2>5. Iter[1..i] = Step(Iter[(1..i) \ {i}], seq[i])
    BY <1>1, <2>1, <2>3 DEF Folded
  <2>6. f[i] = Iter[1..i] /\ f[i - 1] = Iter[1..(i - 1)]
    BY <2>1
  <2> QED
    BY <2>4, <2>5, <2>6
<1>5. f[n] = Iter[1..n] /\ DOMAIN f = 0..n
  OBVIOUS
<1> HIDE DEF f
<1>6. Runs(f, base, seq, n)
  BY <1>3, <1>4, <1>5 DEF Runs
<1> QED
  BY <1>2, <1>5, <1>6

(* The loop rule: G holds the pairs of a position and a value the loop may have there. *)
LEMMA FoldKeeps ==
  ASSUME NEW base, NEW seq, NEW n \in Nat, DOMAIN seq = 1..n,
         NEW G, <<0, base>> \in G,
         \A i \in 1..n : \A a : <<i - 1, a>> \in G => <<i, Step(a, seq[i])>> \in G
  PROVE  <<n, FoldLeft(Step, base, seq)>> \in G
<1>1. PICK f : Runs(f, base, seq, n) /\ FoldLeft(Step, base, seq) = f[n]
  BY FoldRuns
<1> DEFINE S == {i \in 0..n : <<i, f[i]>> \in G}
<1>2. 0 \in S
  BY <1>1 DEF Runs
<1>3. ASSUME NEW i \in 1..n, i - 1 \in S PROVE i \in S
  <2>1. f[i] = Step(f[i - 1], seq[i]) /\ <<i - 1, f[i - 1]>> \in G /\ i \in 0..n
    BY <1>1, <1>3 DEF Runs
  <2>2. <<i, Step(f[i - 1], seq[i])>> \in G
    BY <2>1
  <2> QED
    BY <2>1, <2>2
<1>4. \A i \in 0..n : i \in S
  <2> HIDE DEF S
  <2> QED
    BY <1>2, <1>3, AlongTheRun
<1>5. n \in S
  <2>1. n \in 0..n
    OBVIOUS
  <2> QED
    BY <1>4, <2>1
<1> QED
  BY <1>1, <1>5
=============================================================================
