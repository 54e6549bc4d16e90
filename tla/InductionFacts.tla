---------------------------- MODULE InductionFacts ----------------------------
(***************************************************************************)
(* Induction over naturals for the proofs of the project, and facts about  *)
(* lists that several of them need.  The library's induction theorems take *)
(* a predicate as a parameter, which the provers cannot instantiate; the   *)
(* ones below take the SET of the numbers that satisfy it.  They follow    *)
(* from the least element of a set of naturals.                            *)
(***************************************************************************)
EXTENDS Integers, SequencesExt, FiniteSetTheorems, WellFoundedInduction, TLAPS

\* A nonempty set of naturals has a least element.
LEMMA LeastElement ==
    ASSUME NEW T \in SUBSET Nat, T # {}
    PROVE  \E m \in T : \A k \in T : m <= k
<1>1. \E m \in T : \A k \in T : ~ (<<k, m>> \in OpToRel(<, Nat))
  <2>1. IsWellFoundedOn(OpToRel(<, Nat), Nat)
    BY NatLessThanWellFounded
  <2> DEFINE R == OpToRel(<, Nat)
  <2> HIDE DEF R
  <2>2. IsWellFoundedOn(R, Nat)
    BY <2>1 DEF R
  <2>3. \E m \in T : \A k \in T : ~ (<<k, m>> \in R)
    BY <2>2, WFMin
  <2>4. QED
    BY <2>3 DEF R
<1>2. \A k, m \in T : <<k, m>> \in OpToRel(<, Nat) <=> k < m
  BY DEF OpToRel
<1>3. PICK m \in T : \A k \in T : ~ (<<k, m>> \in OpToRel(<, Nat))
  BY <1>1
<1>4. \A k \in T : ~ (k < m)
  BY <1>2, <1>3
<1>5. m \in Nat /\ \A k \in T : k \in Nat
  OBVIOUS
<1>6. QED
  BY <1>4, <1>5

\* Induction, stated with a set in place of a predicate: the provers cannot
\* instantiate an operator parameter, but they can a set.
LEMMA SetInduction ==
    ASSUME NEW S, 0 \in S, \A n \in Nat : n \in S => n + 1 \in S
    PROVE  Nat \subseteq S
<1> DEFINE T == Nat \ S
<1>1. SUFFICES ASSUME T # {} PROVE FALSE
  BY Zenon DEF T
<1>2. PICK m \in T : \A k \in T : m <= k
  BY <1>1, LeastElement, Zenon DEF T
<1>3. m # 0 /\ m \in Nat
  OBVIOUS
<1>4. m - 1 \in Nat /\ m - 1 \notin T
  BY <1>2, <1>3
<1>5. QED
  BY <1>3, <1>4

\* Induction on 0 .. n, for the recursive functions and the loops over
\* arrays, whose domain is bounded.
LEMMA BoundedInduction ==
    ASSUME NEW n \in Nat, NEW S, 0 \in S,
           \A k \in 0 .. n - 1 : k \in S => k + 1 \in S
    PROVE  \A k \in 0 .. n : k \in S
<1> DEFINE T == {k \in Nat : k <= n => k \in S}
<1>1. 0 \in T
  OBVIOUS
<1>2. \A k \in Nat : k \in T => k + 1 \in T
  OBVIOUS
<1>3. Nat \subseteq T
  <2> HIDE DEF T
  <2> QED
    BY <1>1, <1>2, SetInduction
<1>4. QED
  BY <1>3

\* Strong induction on the positions 1 .. n of a sequence.
LEMMA StrongInduction ==
    ASSUME NEW n \in Nat, NEW S,
           \A k \in 1 .. n : (\A m \in 1 .. k - 1 : m \in S) => k \in S
    PROVE  \A k \in 1 .. n : k \in S
<1> DEFINE T == {k \in Nat : \A m \in 1 .. k : m \in S}
<1>1. 0 \in T
  OBVIOUS
<1>2. \A k \in 0 .. n - 1 : k \in T => k + 1 \in T
  <2> SUFFICES ASSUME NEW k \in 0 .. n - 1, k \in T PROVE k + 1 \in T
    OBVIOUS
  <2>1. k + 1 \in 1 .. n /\ \A m \in 1 .. (k + 1) - 1 : m \in S
    OBVIOUS
  <2>2. k + 1 \in S
    BY <2>1
  <2> QED
    BY <2>2
<1>3. \A k \in 0 .. n : k \in T
  <2> HIDE DEF T
  <2> QED
    BY <1>1, <1>2, BoundedInduction
<1>4. n \in T
  BY <1>3
<1>5. QED
  BY <1>4

\* f is the run of n steps of a recursion in S, from base.
IsRun(f, n, S, base, step) ==
    /\ f \in [0 .. n -> S]
    /\ f[0] = base
    /\ \A k \in 1 .. n : f[k] = step[<<f[k - 1], k>>]

\* A recursive function on 0 .. n whose step stays in S exists: what must be
\* known of every definition by CHOOSE that recursion stands for.
LEMMA Recursion ==
    ASSUME NEW S, NEW n \in Nat, NEW base \in S, NEW step \in [S \X (1 .. n) -> S]
    PROVE  \E f : IsRun(f, n, S, base, step)
<1> USE DEF IsRun
<1> DEFINE Run(f, m) == IsRun(f, m, S, base, step)
           T == {m \in Nat : \E f : Run(f, m)}
<1>1. 0 \in T
  <2>1. Run([k \in 0 .. 0 |-> base], 0)
    OBVIOUS
  <2> QED
    BY <2>1
<1>2. \A m \in 0 .. n - 1 : m \in T => m + 1 \in T
  <2> SUFFICES ASSUME NEW m \in 0 .. n - 1, NEW f, Run(f, m)
               PROVE  \E g : Run(g, m + 1)
    OBVIOUS
  <2> DEFINE last == step[<<f[m], m + 1>>]
             g == [k \in 0 .. m + 1 |-> IF k <= m THEN f[k] ELSE last]
  <2>1. f[m] \in S /\ m + 1 \in 1 .. n
    OBVIOUS
  <2>2. last \in S
    BY <2>1
  <2>3. g \in [0 .. m + 1 -> S]
    BY <2>2
  <2>4. \A k \in 1 .. m + 1 : g[k] = step[<<g[k - 1], k>>]
    <3> TAKE k \in 1 .. m + 1
    <3>1. CASE k <= m
      BY <3>1
    <3>2. CASE k = m + 1
      <4>1. g[k] = last /\ k - 1 = m
        BY <3>2
      <4>2. g[m] = f[m]
        OBVIOUS
      <4> QED
        BY <4>1, <4>2, <3>2
    <3> QED
      BY <3>1, <3>2
  <2>5. g[0] = base
    OBVIOUS
  <2> QED
    BY <2>3, <2>4, <2>5
<1>3. n \in T
  <2> HIDE DEF T
  <2>1. \A k \in 0 .. n : k \in T
    BY <1>1, <1>2, BoundedInduction
  <2> QED
    BY <2>1
<1> QED
  BY <1>3

-----------------------------------------------------------------------------
(* Sequences.                                                               *)

\* The first n elements of a sequence are a sequence of n elements, and all
\* of them are the sequence.
LEMMA PrefixIs ==
  ASSUME NEW S, NEW s \in Seq(S), NEW n \in 0 .. Len(s)
  PROVE  /\ SubSeq(s, 1, n) \in Seq(S) /\ Len(SubSeq(s, 1, n)) = n
         /\ SubSeq(s, 1, Len(s)) = s
<1>1. SubSeq(s, 1, n) \in Seq(S) /\ Len(SubSeq(s, 1, n)) = n
  OBVIOUS
<1>2. SubSeq(s, 1, Len(s)) = s
  OBVIOUS
<1> QED
  BY <1>1, <1>2

\* A concatenation of two sequences: its length and its elements.
LEMMA ConcatIs ==
  ASSUME NEW s \in Seq(Int), NEW t \in Seq(Int)
  PROVE  /\ Len(s) \in Nat /\ Len(t) \in Nat
         /\ s \o t \in Seq(Int) /\ Len(s \o t) = Len(s) + Len(t)
         /\ \A i \in 1 .. Len(s) : (s \o t)[i] = s[i]
         /\ \A i \in 1 .. Len(t) : (s \o t)[Len(s) + i] = t[i]
OBVIOUS

\* Appending to the second of two sequences appends to their concatenation.
LEMMA AppendConcat ==
  ASSUME NEW p \in Seq(Int), NEW q \in Seq(Int), NEW x \in Int
  PROVE  p \o Append(q, x) = Append(p \o q, x)
<1> DEFINE a == p \o Append(q, x)
           b == Append(p \o q, x)
           n == Len(p) + Len(q)
<1>1. Len(p) \in Nat /\ Len(q) \in Nat
  OBVIOUS
<1>2. a \in Seq(Int) /\ Len(a) = n + 1 /\ b \in Seq(Int) /\ Len(b) = n + 1
  OBVIOUS
<1>3. ASSUME NEW i \in 1 .. n + 1 PROVE a[i] = b[i]
  <2>1. CASE i <= Len(p)
    BY <1>1, <2>1
  <2>2. CASE Len(p) < i /\ i <= n
    BY <1>1, <2>2
  <2>3. CASE i = n + 1
    BY <1>1, <2>3
  <2> QED
    BY <1>1, <2>1, <2>2, <2>3
<1> HIDE DEF a, b, n
<1>4. a = b
  BY <1>2, <1>3
<1> QED
  BY <1>4 DEF a, b

\* Taking a suffix off a concatenation: what soln_vids loses when the trail
\* shrinks (theories.cpp:251-259).
LEMMA ConcatCut ==
  ASSUME NEW p \in Seq(Int), NEW q \in Seq(Int), NEW r \in Seq(Int)
  PROVE  /\ Len(p \o (q \o r)) - Len(r) = Len(p \o q) /\ Len(p \o q) \in Nat
         /\ Len(r) <= Len(p \o (q \o r))
         /\ SubSeq(p \o (q \o r), 1, Len(p \o (q \o r)) - Len(r)) = p \o q
<1> DEFINE all == p \o (q \o r)
           short == p \o q
           n == Len(p)
           m == Len(q)
<1>1. /\ n \in Nat /\ m \in Nat /\ Len(r) \in Nat
      /\ short \in Seq(Int) /\ Len(short) = n + m
      /\ \A i \in 1 .. n : short[i] = p[i]
      /\ \A i \in 1 .. m : short[n + i] = q[i]
  BY ConcatIs
<1> DEFINE tail == q \o r
<1>2. /\ tail \in Seq(Int) /\ Len(tail) = m + Len(r)
      /\ \A i \in 1 .. m : tail[i] = q[i]
  BY ConcatIs
<1> HIDE DEF tail
<1>3. /\ all \in Seq(Int) /\ Len(all) = n + (m + Len(r))
      /\ \A i \in 1 .. n : all[i] = p[i]
      /\ \A i \in 1 .. m + Len(r) : all[n + i] = tail[i]
  <2>1. all = p \o tail
    BY DEF tail
  <2> HIDE DEF all
  <2> QED
    BY <1>2, <2>1, ConcatIs
<1> HIDE DEF all, short, n, m
<1>4. Len(all) - Len(r) = n + m /\ n + m \in 0 .. Len(all)
  BY <1>1, <1>3
<1> DEFINE cut == SubSeq(all, 1, n + m)
<1>5. cut \in Seq(Int) /\ Len(cut) = n + m /\ \A i \in 1 .. n + m : cut[i] = all[i]
  BY <1>3, <1>4
<1> HIDE DEF cut
<1>6. ASSUME NEW i \in 1 .. n + m PROVE cut[i] = short[i]
  <2>1. CASE i <= n
    <3>1. i \in 1 .. n
      BY <1>1, <2>1
    <3> QED
      BY <1>1, <1>3, <1>5, <3>1
  <2>2. CASE ~ (i <= n)
    <3>1. i - n \in 1 .. m /\ i - n \in 1 .. m + Len(r) /\ n + (i - n) = i
      BY <1>1, <2>2
    <3>2. all[i] = tail[i - n] /\ tail[i - n] = q[i - n] /\ short[i] = q[i - n]
      BY <1>1, <1>2, <1>3, <3>1
    <3> QED
      BY <1>5, <3>2
  <2> QED
    BY <2>1, <2>2
<1>7. cut = short
  BY <1>1, <1>5, <1>6
<1>8. Len(r) <= Len(all)
  BY <1>1, <1>3
<1>9. /\ Len(all) - Len(r) = Len(short) /\ Len(short) \in Nat
      /\ SubSeq(all, 1, Len(all) - Len(r)) = short
  <2>1. Len(all) - Len(r) = n + m /\ Len(short) = n + m /\ n + m \in Nat
    BY <1>1, <1>4
  <2> QED
    BY <1>7, <2>1 DEF cut
<1> QED
  BY <1>8, <1>9 DEF all, short

\* Appending an element adds it to the elements of a sequence.
LEMMA SetOfAppend ==
  ASSUME NEW s \in Seq(Int), NEW x \in Int
  PROVE  ToSet(Append(s, x)) = ToSet(s) \union {x}
<1>1. /\ DOMAIN Append(s, x) = (DOMAIN s) \union {Len(s) + 1}
      /\ Append(s, x)[Len(s) + 1] = x
      /\ \A i \in DOMAIN s : Append(s, x)[i] = s[i]
  OBVIOUS
<1> QED
  BY <1>1 DEF ToSet

\* The elements of a concatenation are those of its parts.
LEMMA SetOfConcat ==
  ASSUME NEW s \in Seq(Int), NEW t \in Seq(Int)
  PROVE  ToSet(s \o t) = ToSet(s) \union ToSet(t)
<1>1. /\ Len(s) \in Nat /\ Len(t) \in Nat
      /\ DOMAIN (s \o t) = 1 .. Len(s) + Len(t)
      /\ DOMAIN s = 1 .. Len(s) /\ DOMAIN t = 1 .. Len(t)
      /\ \A i \in 1 .. Len(s) : (s \o t)[i] = s[i]
      /\ \A i \in 1 .. Len(t) : (s \o t)[Len(s) + i] = t[i]
  OBVIOUS
<1>2. \A x \in ToSet(s \o t) : x \in ToSet(s) \union ToSet(t)
  <2> SUFFICES ASSUME NEW i \in 1 .. Len(s) + Len(t)
               PROVE  (s \o t)[i] \in ToSet(s) \union ToSet(t)
    BY <1>1 DEF ToSet
  <2>1. CASE i <= Len(s)
    BY <1>1, <2>1 DEF ToSet
  <2>2. CASE ~ (i <= Len(s))
    <3>1. i - Len(s) \in 1 .. Len(t) /\ i = Len(s) + (i - Len(s))
      BY <1>1, <2>2
    <3>2. (s \o t)[i] = t[i - Len(s)]
      BY <1>1, <3>1
    <3> QED
      BY <1>1, <3>1, <3>2 DEF ToSet
  <2> QED
    BY <2>1, <2>2
<1>3. \A x \in ToSet(s) \union ToSet(t) : x \in ToSet(s \o t)
  <2>1. \A i \in 1 .. Len(s) : i \in 1 .. Len(s) + Len(t)
    BY <1>1
  <2>2. \A i \in 1 .. Len(t) : Len(s) + i \in 1 .. Len(s) + Len(t)
    BY <1>1
  <2>3. \A i \in 1 .. Len(s) : s[i] \in ToSet(s \o t)
    BY <1>1, <2>1 DEF ToSet
  <2>4. \A i \in 1 .. Len(t) : t[i] \in ToSet(s \o t)
    BY <1>1, <2>2 DEF ToSet
  <2> QED
    BY <1>1, <2>3, <2>4 DEF ToSet
<1> QED
  BY <1>2, <1>3

\* A list without repetitions.
Distinct(s) == IsFiniteSet(ToSet(s)) /\ Cardinality(ToSet(s)) = Len(s)

\* A list without repetitions stays so when a new element is appended.
LEMMA DistinctAppend ==
  ASSUME NEW s \in Seq(Int), NEW x \in Int, Distinct(s), x \notin ToSet(s)
  PROVE  Distinct(Append(s, x))
<1>1. ToSet(Append(s, x)) = ToSet(s) \union {x}
  BY SetOfAppend
<1>2. /\ IsFiniteSet(ToSet(s) \union {x})
      /\ Cardinality(ToSet(s) \union {x}) = Cardinality(ToSet(s)) + 1
  BY FS_AddElement DEF Distinct
<1> QED
  BY <1>1, <1>2 DEF Distinct

\* A sequence of members of a set.
LEMMA SeqOfSet ==
  ASSUME NEW s \in Seq(Int), NEW S, ToSet(s) \subseteq S
  PROVE  s \in Seq(S)
<1>1. \A i \in 1 .. Len(s) : s[i] \in ToSet(s)
  BY DEF ToSet
<1>2. \A i \in 1 .. Len(s) : s[i] \in S
  BY <1>1
<1>3. s = [i \in 1 .. Len(s) |-> s[i]] /\ Len(s) \in Nat
  OBVIOUS
<1> QED
  BY <1>2, <1>3

\* SetToSeq lists a finite set without repetitions.
LEMMA SetToSeqIs ==
  ASSUME NEW S, IsFiniteSet(S)
  PROVE  /\ Cardinality(S) \in Nat
         /\ SetToSeq(S) \in [1 .. Cardinality(S) -> S]
         /\ SetToSeq(S) \in Seq(S) /\ Len(SetToSeq(S)) = Cardinality(S)
         /\ IsInjective(SetToSeq(S)) /\ ToSet(SetToSeq(S)) = S
<1> DEFINE n == Cardinality(S)
           s == SetToSeq(S)
<1>1. n \in Nat /\ ExistsBijection(1 .. n, S)
  BY FS_CardinalityType
<1>2. \E f \in [1 .. n -> S] : IsInjective(f)
  BY <1>1 DEF ExistsBijection, Bijection, Injection
<1>3. s \in [1 .. n -> S] /\ IsInjective(s)
  BY <1>2 DEF SetToSeq
<1> HIDE DEF s
<1>4. s \in Seq(S) /\ Len(s) = n
  BY <1>1, <1>3
<1>5. s \in Injection(1 .. n, S)
  BY <1>3 DEF Injection
<1>6. Cardinality(1 .. n) = n
  <2>1. 1 \in Int /\ n \in Int
    BY <1>1
  <2>2. Cardinality(1 .. n) = IF 1 > n THEN 0 ELSE n - 1 + 1
    BY <2>1, FS_Interval
  <2> QED
    BY <1>1, <2>2
<1>7. s \in Surjection(1 .. n, S)
  BY <1>5, <1>6, FS_Injection
<1>8. ToSet(s) = S
  <2>1. DOMAIN s = 1 .. n /\ \A x \in S : \E k \in 1 .. n : s[k] = x
    BY <1>3, <1>7 DEF Surjection
  <2>2. \A k \in 1 .. n : s[k] \in S
    BY <1>3
  <2> QED
    BY <2>1, <2>2 DEF ToSet
<1> QED
  BY <1>1, <1>3, <1>4, <1>8 DEF s
=============================================================================
