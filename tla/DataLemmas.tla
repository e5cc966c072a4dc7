----------------------------- MODULE DataLemmas -----------------------------
(***************************************************************************)
(* Facts about data that several proofs need: about the least element of a *)
(* set of naturals, about sequences, and about powers of two.              *)
(*                                                                         *)
(* ffsll picks the lowest bit of a word: the models write Min for it, a    *)
(* CHOOSE whose value must be shown to be in the set.  And what holds of 0 *)
(* and passes from n to n + 1 holds of every natural number, stated for a  *)
(* set so that it can be used where an operator could not be instantiated. *)
(***************************************************************************)
EXTENDS Powers, FiniteSetsExt, WellFoundedInduction, SequenceTheorems, TLAPS

Below == {p \in Nat \X Nat : p[1] < p[2]}

(* The order of the naturals, as a relation, is well-founded. *)
LEMMA BelowWellFounded == IsWellFoundedOn(Below, Nat)
<1>1. Below = OpToRel(<, Nat)
  BY Zenon DEF Below, OpToRel
<1>2. QED
  BY <1>1, NatLessThanWellFounded, Zenon

(* The minimum of a nonempty set of naturals is one of its elements, and   *)
(* none is smaller.                                                        *)
LEMMA MinIsLeast ==
  ASSUME NEW S \in SUBSET Nat, S # {}
  PROVE  Min(S) \in S /\ \A x \in S : Min(S) <= x
<1>1. PICK m \in S : \A y \in S : ~ (<<y, m>> \in Below)
  BY WFMin, BelowWellFounded
<1>2. ASSUME NEW y \in S
      PROVE  m <= y
  <2>1. m \in Nat /\ y \in Nat
    OBVIOUS
  <2>2. ~ (<<y, m>>[1] < <<y, m>>[2])
    BY <1>1, <2>1, Zenon DEF Below
  <2>3. QED
    BY <2>1, <2>2
<1>3. QED
  BY <1>2 DEF Min

(* A set with 0 that has the successor of each of its elements is Nat.     *)
LEMMA SetInduction ==
  ASSUME NEW S, 0 \in S, \A n \in Nat : n \in S => n + 1 \in S
  PROVE  \A n \in Nat : n \in S
<1> SUFFICES ASSUME Nat \ S # {} PROVE FALSE
  OBVIOUS
<1>1. PICK m \in Nat \ S : \A n \in Nat \ S : m <= n
  <2>1. Nat \ S \in SUBSET Nat
    OBVIOUS
  <2>2. QED
    BY <2>1, MinIsLeast
<1>2. m - 1 \in Nat /\ (m - 1) + 1 = m /\ ~ (m <= m - 1)
  BY <1>1
<1>3. m - 1 \in S
  BY <1>1, <1>2
<1>4. QED
  BY <1>1, <1>2, <1>3

-----------------------------------------------------------------------------
(* Sequences that are given as functions.                                  *)
LEMMA SeqOfFunction ==
  ASSUME NEW S, NEW n \in Nat, NEW f \in [1 .. n -> S]
  PROVE  /\ f \in Seq(S) /\ Len(f) = n
         /\ n > 0 => f # <<>> /\ Head(f) = f[1]
<1>1. f \in Seq(S) /\ Len(f) = n
  OBVIOUS
<1>2. n > 0 => f # <<>>
  BY <1>1, EmptySeq
<1>3. QED
  BY <1>1, <1>2

(* Sequences written as functions: one more element, one less.             *)
LEMMA AppendFunction ==
  ASSUME NEW S, NEW n \in Nat, NEW f \in [1 .. n -> S], NEW g \in [1 .. n + 1 -> S],
         \A k \in 1 .. n : g[k] = f[k]
  PROVE  g = Append(f, g[n + 1])
<1>1. f \in Seq(S) /\ Len(f) = n /\ g \in Seq(S) /\ Len(g) = n + 1 /\ g[n + 1] \in S
  BY SeqOfFunction
<1>2. PICK v \in S : v = g[n + 1]
  BY <1>1
<1>3. /\ Append(f, v) \in Seq(S) /\ Len(Append(f, v)) = n + 1
      /\ \A k \in 1 .. n : Append(f, v)[k] = f[k]
      /\ Append(f, v)[n + 1] = v
  BY <1>1, AppendProperties
<1>4. \A k \in 1 .. n + 1 : g[k] = Append(f, v)[k]
  BY <1>2, <1>3
<1>5. g = Append(f, v)
  BY <1>1, <1>3, <1>4, SeqEqual
<1>6. QED
  BY <1>2, <1>5

LEMMA TailFunction ==
  ASSUME NEW S, NEW n \in Nat, n > 0, NEW f \in [1 .. n -> S], NEW g \in [1 .. n - 1 -> S],
         \A k \in 1 .. n - 1 : g[k] = f[k + 1]
  PROVE  g = Tail(f)
<1>1. f \in Seq(S) /\ Len(f) = n /\ f # <<>>
  BY SeqOfFunction
<1>2. g \in Seq(S) /\ Len(g) = n - 1
  <2>1. n - 1 \in Nat
    OBVIOUS
  <2>2. QED
    BY <2>1, SeqOfFunction
<1>3. /\ Tail(f) \in Seq(S) /\ Len(Tail(f)) = n - 1
      /\ \A k \in 1 .. n - 1 : Tail(f)[k] = f[k + 1]
  BY <1>1, HeadTailProperties
<1>4. QED
  BY <1>2, <1>3, SeqEqual

LEMMA BeforeFunction ==
  ASSUME NEW S, NEW n \in Nat, NEW f \in [1 .. n -> S], NEW g \in [1 .. n + 1 -> S],
         \A k \in 1 .. n : g[k + 1] = f[k]
  PROVE  g = <<g[1]>> \o f
<1>1. f \in Seq(S) /\ Len(f) = n /\ g \in Seq(S) /\ Len(g) = n + 1 /\ g[1] \in S
  BY SeqOfFunction
<1>2. PICK v \in S : v = g[1]
  BY <1>1
<1>3. <<v>> \in Seq(S) /\ Len(<<v>>) = 1 /\ <<v>>[1] = v
  OBVIOUS
<1>4. /\ <<v>> \o f \in Seq(S) /\ Len(<<v>> \o f) = 1 + n
      /\ \A k \in 1 .. 1 + n : (<<v>> \o f)[k] = IF k <= 1 THEN <<v>>[k] ELSE f[k - 1]
  BY <1>1, <1>3, ConcatProperties
<1>5. \A k \in 1 .. n + 1 : g[k] = (<<v>> \o f)[k]
  <2> SUFFICES ASSUME NEW k \in 1 .. n + 1 PROVE g[k] = (<<v>> \o f)[k]
    OBVIOUS
  <2>1. CASE k = 1
    BY <1>2, <1>3, <1>4, <2>1
  <2>2. CASE k # 1
    <3>1. k - 1 \in 1 .. n /\ (k - 1) + 1 = k /\ ~ (k <= 1)
      BY <2>2
    <3>2. QED
      BY <1>4, <3>1
  <2>3. QED
    BY <2>1, <2>2
<1>6. g = <<v>> \o f
  BY <1>1, <1>4, <1>5, SeqEqual
<1>7. QED
  BY <1>2, <1>6
-----------------------------------------------------------------------------
(* Powers of two.  Two is a fixed point of its definition if there is one; *)
(* it is put together from its beginnings, of which there is one of every  *)
(* length.                                                                 *)
Begins(m, g) ==
  /\ g \in [0 .. m -> Nat]
  /\ g[0] = 1
  /\ \A i \in 1 .. m : g[i] = 2 * g[i - 1]

(* Every beginning can be continued. *)
LEMMA BeginningExists == \A m \in Nat : \E g : Begins(m, g)
<1> DEFINE S == {m \in Nat : \E g : Begins(m, g)}
<1>1. 0 \in S
  <2>1. Begins(0, [i \in 0 .. 0 |-> 1])
    BY DEF Begins
  <2>2. QED
    BY <2>1
<1>2. ASSUME NEW m \in Nat, m \in S
      PROVE  m + 1 \in S
  <2>1. PICK g : Begins(m, g)
    BY <1>2
  <2> DEFINE h == [i \in 0 .. m + 1 |-> IF i = m + 1 THEN 2 * g[m] ELSE g[i]]
  <2>2. g[m] \in Nat /\ \A i \in 0 .. m : g[i] \in Nat
    BY <2>1 DEF Begins
  <2>3. h \in [0 .. m + 1 -> Nat]
    BY <2>2
  <2>4. h[0] = 1
    BY <2>1 DEF Begins
  <2>5. ASSUME NEW i \in 1 .. m + 1
        PROVE  h[i] = 2 * h[i - 1]
    <3>1. i - 1 \in 0 .. m /\ i - 1 # m + 1 /\ i \in 0 .. m + 1 /\ i - 1 \in 0 .. m + 1
      OBVIOUS
    <3>2. h[i - 1] = g[i - 1]
      BY <3>1
    <3>3. CASE i = m + 1
      <4>1. h[i] = 2 * g[m] /\ i - 1 = m
        BY <3>1, <3>3
      <4>2. QED
        BY <3>2, <4>1
    <3>4. CASE i # m + 1
      <4>1. i \in 1 .. m /\ h[i] = g[i]
        BY <3>1, <3>4
      <4>2. g[i] = 2 * g[i - 1]
        BY <2>1, <4>1 DEF Begins
      <4>3. QED
        BY <3>2, <4>1, <4>2
    <3>5. QED
      BY <3>3, <3>4
  <2> HIDE DEF h
  <2>6. Begins(m + 1, h)
    BY <2>3, <2>4, <2>5 DEF Begins
  <2>7. QED
    BY <2>6
<1> HIDE DEF S
<1>3. \A m \in Nat : m \in S
  BY <1>1, <1>2, SetInduction
<1>4. QED
  BY <1>3 DEF S

(* Beginnings agree as far as both go. *)
LEMMA BeginningsAgree ==
  ASSUME NEW m \in Nat, NEW n \in Nat, m <= n, NEW g, NEW h, Begins(m, g), Begins(n, h)
  PROVE  \A i \in 0 .. m : g[i] = h[i]
<1> DEFINE S == {i \in Nat : i <= m => g[i] = h[i]}
<1>1. 0 \in S
  BY DEF Begins
<1>2. ASSUME NEW i \in Nat, i \in S
      PROVE  i + 1 \in S
  <2>1. SUFFICES ASSUME i + 1 <= m PROVE g[i + 1] = h[i + 1]
    OBVIOUS
  <2>2. /\ i + 1 \in 1 .. m /\ i + 1 \in 1 .. n /\ (i + 1) - 1 = i
        /\ g[i] = h[i]
    BY <1>2, <2>1
  <2>3. g[i + 1] = 2 * g[(i + 1) - 1] /\ h[i + 1] = 2 * h[(i + 1) - 1]
    BY <2>2 DEF Begins
  <2>4. QED
    BY <2>2, <2>3
<1> HIDE DEF S
<1>3. \A i \in Nat : i \in S
  BY <1>1, <1>2, SetInduction
<1>4. QED
  BY <1>3 DEF S

(* Two is what its definition says. *)
LEMMA TwoDefined == Two = [n \in Nat |-> IF n = 0 THEN 1 ELSE 2 * Two[n - 1]]
<1> DEFINE G(m) == CHOOSE g : Begins(m, g)
<1> DEFINE f == [n \in Nat |-> G(n)[n]]
<1>1. \A m \in Nat : Begins(m, G(m))
  BY BeginningExists
<1> HIDE DEF G
<1>2. f[0] = 1
  BY <1>1 DEF Begins
<1>3. ASSUME NEW n \in Nat, n # 0
      PROVE  f[n] = 2 * f[n - 1]
  <2>1. n - 1 \in Nat /\ n - 1 <= n /\ n - 1 \in 0 .. n - 1 /\ n \in 1 .. n
    BY <1>3
  <2>2. G(n - 1)[n - 1] = G(n)[n - 1]
    BY <1>1, <2>1, BeginningsAgree
  <2>3. G(n)[n] = 2 * G(n)[n - 1]
    BY <1>1, <2>1 DEF Begins
  <2>4. QED
    BY <2>1, <2>2, <2>3
<1>4. f = [n \in Nat |-> IF n = 0 THEN 1 ELSE 2 * f[n - 1]]
  BY <1>2, <1>3
<1> HIDE DEF f
<1>5. QED
  BY <1>4 DEF Two

(* What the powers of two are, one by one. *)
LEMMA TwoStep ==
  /\ Two[0] = 1
  /\ \A n \in Nat : Two[n] \in Nat \ {0}
  /\ \A n \in Nat : Two[n + 1] = 2 * Two[n]
<1>1. Two[0] = 1 /\ \A n \in Nat : n # 0 => Two[n] = 2 * Two[n - 1]
  BY TwoDefined
<1>2. ASSUME NEW n \in Nat PROVE Two[n + 1] = 2 * Two[n]
  <2>1. n + 1 \in Nat /\ n + 1 # 0 /\ (n + 1) - 1 = n
    OBVIOUS
  <2>2. QED
    BY <1>1, <2>1
<1> DEFINE S == {n \in Nat : Two[n] \in Nat \ {0}}
<1>3. 0 \in S
  BY <1>1
<1>4. ASSUME NEW n \in Nat, n \in S PROVE n + 1 \in S
  BY <1>2, <1>4
<1> HIDE DEF S
<1>5. \A n \in Nat : n \in S
  BY <1>3, <1>4, SetInduction
<1>6. QED
  BY <1>1, <1>2, <1>5 DEF S

(* They grow. *)
LEMMA TwoGrows == \A m, n \in Nat : m < n => 2 * Two[m] <= Two[n]
<1> SUFFICES ASSUME NEW m \in Nat
             PROVE  \A n \in Nat : m < n => 2 * Two[m] <= Two[n]
  OBVIOUS
<1> DEFINE S == {n \in Nat : m < n => 2 * Two[m] <= Two[n]}
<1>1. 0 \in S
  OBVIOUS
<1>2. ASSUME NEW n \in Nat, n \in S PROVE n + 1 \in S
  <2>1. Two[n + 1] = 2 * Two[n] /\ Two[n] \in Nat /\ Two[m] \in Nat
    BY TwoStep
  <2>2. m < n + 1 => m = n \/ m < n
    OBVIOUS
  <2>3. m < n + 1 => 2 * Two[m] <= Two[n + 1]
    BY <1>2, <2>1, <2>2
  <2>4. QED
    BY <2>3
<1> HIDE DEF S
<1>3. \A n \in Nat : n \in S
  BY <1>1, <1>2, SetInduction
<1>4. QED
  BY <1>3 DEF S
=============================================================================
