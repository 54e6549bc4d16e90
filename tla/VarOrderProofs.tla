---------------------------- MODULE VarOrderProofs ----------------------------
(***************************************************************************)
(* The order of cb_minisat's decisions, proved: for any number of           *)
(* variables, any activities, decay and scale, whatever is implied, bumped  *)
(* and taken back, no unassigned variable is lost from the heap, and the    *)
(* most active comes first.                                                 *)
(***************************************************************************)
EXTENDS VarOrder, InductionFacts, FiniteSetTheorems

-----------------------------------------------------------------------------
(* Heaps over a set V of variables.                                         *)

\* A heap and the places of its variables, which agree.
Orders(V) == [heap : Seq(V), indices : [V -> Nat]]

Indexed(o, V) ==
  /\ \A n \in DOMAIN o.heap : o.indices[o.heap[n]] = n
  /\ \A v \in V : InHeap(o, v) =>
       o.indices[v] \in DOMAIN o.heap /\ o.heap[o.indices[v]] = v

Good(o, V) == o \in Orders(V) /\ Indexed(o, V)

\* The same variables, at other places.
Rearranged(o, r, V) ==
  /\ Len(r.heap) = Len(o.heap)
  /\ \A v \in V : InHeap(r, v) <=> InHeap(o, v)

\* The activities by place, and that those below the places from low on are in
\* order.
Keys(o, act) == [n \in DOMAIN o.heap |-> act[o.heap[n]]]
SortedFrom(k, low) == \A n \in DOMAIN k : n > 1 /\ n \div 2 >= low => k[n] <= k[n \div 2]

\* All are in order but what stands at one place, which may have to go up.
UpKeys(k, at) ==
  \A n \in DOMAIN k : n > 1 =>
    /\ n # at => k[n] <= k[n \div 2]
    /\ n \div 2 = at /\ at > 1 => k[n] <= k[at \div 2]

\* All from low on are in order but what stands at one place, which may have to
\* go down.
DownKeys(k, low, at) ==
  \A n \in DOMAIN k : n > 1 =>
    /\ n \div 2 >= low /\ n \div 2 # at => k[n] <= k[n \div 2]
    /\ n \div 2 = at /\ at \div 2 >= low => k[n] <= k[at \div 2]

\* Two keys have changed places.
KeysSwapped(k, l, a, b) ==
  /\ DOMAIN l = DOMAIN k
  /\ l[a] = k[b] /\ l[b] = k[a]
  /\ \A n \in DOMAIN k \ {a, b} : l[n] = k[n]

\* A key greater than its parent's goes up.
LEMMA UpPass ==
  ASSUME NEW size \in Nat, NEW k \in [1 .. size -> Int], NEW l, NEW a \in 1 .. size,
         a > 1, UpKeys(k, a), k[a] > k[a \div 2], KeysSwapped(k, l, a, a \div 2)
  PROVE  UpKeys(l, a \div 2)
<1> DEFINE p == a \div 2
<1>1. p \in 1 .. size /\ p < a
  OBVIOUS
<1>2. \A n \in 1 .. size : n > 1 => n \div 2 \in 1 .. size /\ n \div 2 < n
  OBVIOUS
<1>3. /\ DOMAIN l = 1 .. size /\ l[a] = k[p] /\ l[p] = k[a] /\ k[a] > k[p]
      /\ \A n \in 1 .. size \ {a, p} : l[n] = k[n]
  BY DEF KeysSwapped
<1>4. \A n \in 1 .. size : n > 1 =>
        /\ n # a => k[n] <= k[n \div 2]
        /\ n \div 2 = a => k[n] <= k[p]
  BY DEF UpKeys
<1>5. \A n \in 1 .. size : k[n] \in Int
  OBVIOUS
<1> SUFFICES ASSUME NEW n \in 1 .. size, n > 1
             PROVE  /\ n # p => l[n] <= l[n \div 2]
                    /\ n \div 2 = p /\ p > 1 => l[n] <= l[p \div 2]
  BY <1>3 DEF UpKeys
<1>6. ASSUME n # p PROVE l[n] <= l[n \div 2]
  <2>1. CASE n = a
    BY <1>1, <1>3, <1>5, <2>1
  <2>2. CASE n # a /\ n \div 2 = a
    BY <1>1, <1>3, <1>4, <1>6, <2>2
  <2>3. CASE n # a /\ n \div 2 = p
    <3>1. l[n] = k[n] /\ k[n] <= k[p] /\ l[n \div 2] = k[a]
      BY <1>3, <1>4, <1>6, <2>3
    <3> QED
      BY <1>1, <1>3, <1>5, <3>1
  <2>4. CASE n # a /\ n \div 2 \notin {a, p}
    BY <1>2, <1>3, <1>4, <1>6, <2>4
  <2> QED
    BY <2>1, <2>2, <2>3, <2>4
<1>7. ASSUME n \div 2 = p, p > 1 PROVE l[n] <= l[p \div 2]
  <2>1. p \div 2 \in 1 .. size /\ p \div 2 < p /\ l[p \div 2] = k[p \div 2] /\ k[p] <= k[p \div 2]
    BY <1>1, <1>2, <1>3, <1>4, <1>7
  <2>2. CASE n = a
    BY <1>3, <2>1, <2>2
  <2>3. CASE n # a
    <3>1. l[n] = k[n] /\ k[n] <= k[p]
      BY <1>2, <1>3, <1>4, <1>7, <2>3
    <3> QED
      BY <1>1, <1>5, <2>1, <3>1
  <2> QED
    BY <2>2, <2>3
<1> QED
  BY <1>6, <1>7

\* A key less than the greatest of its children's goes down.
LEMMA DownPass ==
  ASSUME NEW size \in Nat, NEW k \in [1 .. size -> Int], NEW l, NEW low \in Nat \ {0},
         NEW a \in low .. size, NEW c \in 1 .. size, c \div 2 = a,
         \A n \in 1 .. size : n \div 2 = a => k[n] <= k[c],
         DownKeys(k, low, a), k[c] > k[a], KeysSwapped(k, l, a, c)
  PROVE  DownKeys(l, low, c)
<1>1. a \in 1 .. size /\ c \in 1 .. size /\ a < c /\ c \div 2 = a /\ low \in Int /\ a >= low
  OBVIOUS
<1>2. \A n \in 1 .. size : n > 1 => n \div 2 \in 1 .. size /\ n \div 2 < n
  OBVIOUS
<1>3. /\ DOMAIN l = 1 .. size /\ l[a] = k[c] /\ l[c] = k[a] /\ k[c] > k[a]
      /\ \A n \in 1 .. size \ {a, c} : l[n] = k[n]
  BY DEF KeysSwapped
<1>4. \A n \in 1 .. size : n > 1 =>
        /\ n \div 2 >= low /\ n \div 2 # a => k[n] <= k[n \div 2]
        /\ n \div 2 = a /\ a \div 2 >= low => k[n] <= k[a \div 2]
  BY DEF DownKeys
<1>5. \A n \in 1 .. size : k[n] \in Int
  OBVIOUS
<1> SUFFICES ASSUME NEW n \in 1 .. size, n > 1
             PROVE  /\ n \div 2 >= low /\ n \div 2 # c => l[n] <= l[n \div 2]
                    /\ n \div 2 = c /\ c \div 2 >= low => l[n] <= l[c \div 2]
  BY <1>3 DEF DownKeys
<1>6. ASSUME n \div 2 >= low, n \div 2 # c PROVE l[n] <= l[n \div 2]
  <2>1. CASE n = c
    BY <1>1, <1>3, <1>5, <2>1
  <2>2. CASE n # c /\ n \div 2 = a
    BY <1>1, <1>3, <2>2
  <2>3. CASE n = a
    <3>1. c > 1 /\ k[c] <= k[a \div 2]
      BY <1>1, <1>4, <1>6, <2>3
    <3>2. a \div 2 \in 1 .. size /\ a \div 2 < a
      BY <1>2, <2>3
    <3> QED
      BY <1>1, <1>3, <2>3, <3>1, <3>2
  <2>4. CASE n \notin {a, c} /\ n \div 2 # a
    BY <1>2, <1>3, <1>4, <1>6, <2>4
  <2> QED
    BY <2>1, <2>2, <2>3, <2>4
<1>7. ASSUME n \div 2 = c PROVE l[n] <= l[c \div 2]
  <2>1. n > c /\ c >= low /\ c # a /\ n \div 2 >= low /\ n \div 2 # a
    BY <1>1, <1>2, <1>7
  <2>2. n # a /\ n # c
    BY <1>1, <2>1
  <2>3. l[n] = k[n] /\ k[n] <= k[c]
    BY <1>3, <1>4, <1>7, <2>1, <2>2
  <2> QED
    BY <1>3, <1>7, <2>3
<1> QED
  BY <1>6, <1>7

\* Exchanging two variables keeps heap and places in agreement.
LEMMA ExchangeIs ==
  ASSUME NEW V, NEW o, Good(o, V), NEW a \in DOMAIN o.heap, NEW b \in DOMAIN o.heap, a # b,
         NEW act \in [V -> Int]
  PROVE  LET r == Exchanged(o, a, b)
         IN /\ Good(r, V) /\ Rearranged(o, r, V)
            /\ KeysSwapped(Keys(o, act), Keys(r, act), a, b)
<1> DEFINE heap == o.heap
           indices == o.indices
           h == [heap EXCEPT ![a] = heap[b], ![b] = heap[a]]
           x == [indices EXCEPT ![heap[a]] = b, ![heap[b]] = a]
           r == Exchanged(o, a, b)
<1>1. /\ heap \in Seq(V) /\ indices \in [V -> Nat] /\ heap[a] \in V /\ heap[b] \in V
      /\ DOMAIN heap = 1 .. Len(heap) /\ Len(heap) \in Nat /\ a \in Nat /\ b \in Nat
  BY DEF Good, Orders
<1>2. /\ \A n \in DOMAIN heap : indices[heap[n]] = n
      /\ \A v \in V : indices[v] > 0 => indices[v] \in DOMAIN heap /\ heap[indices[v]] = v
  BY DEF Good, Indexed, InHeap
<1>3. heap[a] # heap[b]
  BY <1>2
<1>4. r = [heap |-> h, indices |-> x] /\ r.heap = h /\ r.indices = x
  BY DEF Exchanged
<1>5. a \in DOMAIN heap /\ b \in DOMAIN heap
  OBVIOUS
<1> HIDE DEF heap, indices
<1>6. /\ h \in Seq(V) /\ Len(h) = Len(heap) /\ DOMAIN h = DOMAIN heap
      /\ h[a] = heap[b] /\ h[b] = heap[a] /\ \A n \in DOMAIN heap \ {a, b} : h[n] = heap[n]
  BY <1>1, <1>5
<1>7. /\ x \in [V -> Nat] /\ x[heap[a]] = b /\ x[heap[b]] = a
      /\ \A v \in V \ {heap[a], heap[b]} : x[v] = indices[v]
  BY <1>1, <1>3
<1> HIDE DEF h, x, r
<1>8. r \in Orders(V)
  BY <1>4, <1>6, <1>7 DEF Orders
<1>9. ASSUME NEW n \in DOMAIN h PROVE x[h[n]] = n
  <2>1. CASE n \in {a, b}
    BY <1>6, <1>7, <2>1
  <2>2. CASE n \notin {a, b}
    <3>1. h[n] = heap[n] /\ indices[heap[n]] = n /\ heap[n] \in V
      BY <1>1, <1>2, <1>6, <1>9, <2>2
    <3>2. heap[n] \notin {heap[a], heap[b]}
      BY <1>2, <1>5, <2>2, <3>1
    <3> QED
      BY <1>7, <3>1, <3>2
  <2> QED
    BY <2>1, <2>2
<1>10. ASSUME NEW v \in V
       PROVE  /\ x[v] > 0 <=> indices[v] > 0
              /\ x[v] > 0 => x[v] \in DOMAIN h /\ h[x[v]] = v
  <2>1. CASE v \in {heap[a], heap[b]}
    <3>1. indices[heap[a]] = a /\ indices[heap[b]] = b /\ a > 0 /\ b > 0
      BY <1>1, <1>2, <1>5
    <3>2. CASE v = heap[a]
      BY <1>5, <1>6, <1>7, <3>1, <3>2
    <3>3. CASE v = heap[b]
      BY <1>5, <1>6, <1>7, <3>1, <3>3
    <3> QED
      BY <2>1, <3>2, <3>3
  <2>2. CASE v \notin {heap[a], heap[b]}
    <3>1. x[v] = indices[v]
      BY <1>7, <2>2
    <3>2. indices[v] > 0 => indices[v] \in DOMAIN heap \ {a, b} /\ heap[indices[v]] = v
      BY <1>2, <2>2
    <3> QED
      BY <1>6, <3>1, <3>2
  <2> QED
    BY <2>1, <2>2
<1>11. Good(r, V)
  BY <1>4, <1>8, <1>9, <1>10 DEF Good, Indexed, InHeap
<1>12. Rearranged(o, r, V)
  BY <1>4, <1>6, <1>10 DEF Rearranged, InHeap, heap, indices
<1>13. KeysSwapped(Keys(o, act), Keys(r, act), a, b)
  BY <1>4, <1>5, <1>6 DEF Keys, KeysSwapped, heap
<1> QED
  BY <1>11, <1>12, <1>13 DEF r

-----------------------------------------------------------------------------
(* percolateUp and percolateDown.                                           *)

\* The places of a heap, and who is there.
LEMMA PlacesIs ==
  ASSUME NEW V, NEW o, Good(o, V)
  PROVE  /\ Len(o.heap) \in Nat /\ DOMAIN o.heap = 1 .. Len(o.heap)
         /\ o.heap \in Seq(V) /\ o.indices \in [V -> Nat]
         /\ \A n \in 1 .. Len(o.heap) : o.heap[n] \in V /\ o.indices[o.heap[n]] = n
         /\ \A v \in V : InHeap(o, v) =>
              o.indices[v] \in 1 .. Len(o.heap) /\ o.heap[o.indices[v]] = v
<1>1. o.heap \in Seq(V) /\ o.indices \in [V -> Nat] /\ Indexed(o, V)
  BY DEF Good, Orders
<1>2. /\ Len(o.heap) \in Nat /\ DOMAIN o.heap = 1 .. Len(o.heap)
      /\ \A n \in 1 .. Len(o.heap) : o.heap[n] \in V
  BY <1>1
<1> QED
  BY <1>1, <1>2 DEF Indexed

\* The keys there.
LEMMA KeysAre ==
  ASSUME NEW V, NEW o, Good(o, V), NEW act \in [V -> Int]
  PROVE  /\ Keys(o, act) \in [1 .. Len(o.heap) -> Int]
         /\ \A n \in 1 .. Len(o.heap) : Keys(o, act)[n] = act[o.heap[n]]
<1>1. DOMAIN o.heap = 1 .. Len(o.heap) /\ \A n \in 1 .. Len(o.heap) : o.heap[n] \in V
  BY PlacesIs
<1> QED
  BY <1>1 DEF Keys

LEMMA RearrangedOn ==
  ASSUME NEW V, NEW o, NEW r, NEW t, Rearranged(o, r, V), Rearranged(r, t, V)
  PROVE  Rearranged(o, t, V)
BY DEF Rearranged

\* Where a run of percolateUp may be: only what moves may be out of order.
UpStates(o, V, act) ==
  {r \in [order : Orders(V), at : Nat] :
     /\ Good(r.order, V) /\ Rearranged(o, r.order, V)
     /\ r.at \in 1 .. Len(o.heap) /\ UpKeys(Keys(r.order, act), r.at)}

\* A pass goes up, or all is in order and nothing changes.
LEMMA RaisedIs ==
  ASSUME NEW V, NEW o, NEW act \in [V -> Int], NEW r \in UpStates(o, V, act)
  PROVE  LET t == Raised(r, act)
         IN /\ t \in UpStates(o, V, act)
            /\ \/ t.at < r.at
               \/ t = r /\ SortedFrom(Keys(r.order, act), 1)
            /\ SortedFrom(Keys(r.order, act), 1) => t = r
<1> DEFINE size == Len(o.heap)
           s == r.order
           a == r.at
           p == a \div 2
           k == Keys(s, act)
           t == Raised(r, act)
<1>1. /\ Good(s, V) /\ Rearranged(o, s, V) /\ a \in 1 .. size /\ UpKeys(k, a)
      /\ r = [order |-> s, at |-> a]
  BY DEF UpStates
<1>2. Len(s.heap) = size
  BY <1>1 DEF Rearranged
<1>3. /\ size \in Nat /\ DOMAIN s.heap = 1 .. size /\ k \in [1 .. size -> Int]
      /\ \A n \in 1 .. size : s.heap[n] \in V /\ k[n] = act[s.heap[n]]
  BY <1>1, <1>2, PlacesIs, KeysAre
<1>4. a > 1 => p \in 1 .. size /\ p < a
  BY <1>1, <1>3
<1> DEFINE up == a > 1 /\ Lt(act, s.heap[a], s.heap[p])
<1>5. t = IF up THEN [order |-> Exchanged(s, a, p), at |-> p] ELSE r
  BY DEF Raised
<1>6. a > 1 => (Lt(act, s.heap[a], s.heap[p]) <=> k[a] > k[p])
  BY <1>1, <1>3, <1>4 DEF Lt
<1>7. up <=> a > 1 /\ k[a] > k[p]
  BY <1>6
<1> HIDE DEF up, t, k, s, a, size
<1>8. CASE up
  <2> DEFINE e == Exchanged(s, a, p)
  <2>1. a > 1 /\ k[a] > k[p] /\ p \in 1 .. size /\ p < a /\ t = [order |-> e, at |-> p]
    BY <1>4, <1>5, <1>7, <1>8
  <2>2. a \in DOMAIN s.heap /\ p \in DOMAIN s.heap /\ a # p
    BY <1>1, <1>3, <2>1
  <2>3. /\ Good(e, V) /\ Rearranged(s, e, V)
        /\ KeysSwapped(k, Keys(e, act), a, p)
    <3> HIDE DEF p
    <3>1. a # p
      BY <2>2
    <3> QED
      BY <1>1, <2>2, <3>1, ExchangeIs DEF k
  <2> HIDE DEF e
  <2>4. UpKeys(Keys(e, act), p)
    <3>1. a \in 1 .. size
      BY <1>1
    <3> QED
      BY <1>1, <1>3, <2>1, <2>3, <3>1, UpPass
  <2>5. Rearranged(o, e, V) /\ e \in Orders(V)
    BY <1>1, <2>3, RearrangedOn DEF Good
  <2>6. t \in UpStates(o, V, act)
    BY <2>1, <2>3, <2>4, <2>5, <1>3 DEF UpStates, size
  <2>7. ~ SortedFrom(k, 1)
    BY <1>1, <1>3, <2>1 DEF SortedFrom
  <2> QED
    BY <2>1, <2>6, <2>7 DEF t, k, s, a
<1>9. CASE ~ up
  <2>1. t = r
    BY <1>5, <1>9
  <2>2. SortedFrom(k, 1)
    <3> SUFFICES ASSUME NEW n \in 1 .. size, n > 1 PROVE k[n] <= k[n \div 2]
      BY <1>3 DEF SortedFrom
    <3>1. CASE n # a
      BY <1>1, <1>3, <3>1 DEF UpKeys
    <3>2. CASE n = a
      BY <1>3, <1>4, <1>7, <1>9, <3>2
    <3> QED
      BY <3>1, <3>2
  <2> QED
    BY <2>1, <2>2 DEF t, k, s
<1> QED
  BY <1>8, <1>9

RunUp(o, act, i) ==
  CHOOSE run : run = [n \in 0 .. i |-> IF n = 0 THEN [order |-> o, at |-> i]
                                       ELSE Raised(run[n - 1], act)]

\* What moves up ends at its place, and all is in order again.
LEMMA PercolateUpIs ==
  ASSUME NEW V, NEW o, Good(o, V), NEW act \in [V -> Int], NEW i \in DOMAIN o.heap,
         UpKeys(Keys(o, act), i)
  PROVE  LET r == PercolateUp(o, act, i)
         IN Good(r, V) /\ Rearranged(o, r, V) /\ SortedFrom(Keys(r, act), 1)
<1> DEFINE S == UpStates(o, V, act)
           base == [order |-> o, at |-> i]
           step == [x \in S \X (1 .. i) |-> Raised(x[1], act)]
           run == RunUp(o, act, i)
<1>1. i \in Nat /\ i \in 1 .. Len(o.heap)
  BY PlacesIs
<1>2. base \in S
  BY <1>1 DEF UpStates, Rearranged, Good
<1> HIDE DEF S, base
<1>3. \A r \in S : Raised(r, act) \in S
  BY RaisedIs DEF S
<1>4. step \in [S \X (1 .. i) -> S]
  BY <1>3
<1>5. PICK g : IsRun(g, i, S, base, step)
  <2> HIDE DEF step
  <2> QED
    BY <1>1, <1>2, <1>4, Recursion
<1>6. g \in [0 .. i -> S] /\ g[0] = base /\ \A n \in 1 .. i : g[n] = Raised(g[n - 1], act)
  <2>1. \A n \in 1 .. i : g[n - 1] \in S
    BY <1>1, <1>5 DEF IsRun
  <2>2. \A n \in 1 .. i : step[<<g[n - 1], n>>] = Raised(g[n - 1], act)
    BY <2>1
  <2> HIDE DEF step
  <2> QED
    BY <1>5, <2>2 DEF IsRun
<1>7. g = [n \in 0 .. i |-> IF n = 0 THEN base ELSE Raised(g[n - 1], act)]
  <2>1. \A n \in 0 .. i : n # 0 => n \in 1 .. i
    BY <1>1
  <2> QED
    BY <1>6, <2>1
<1>8. run = [n \in 0 .. i |-> IF n = 0 THEN base ELSE Raised(run[n - 1], act)]
  BY <1>7 DEF RunUp, base
<1>9. PercolateUp(o, act, i) = run[i].order
  BY DEF PercolateUp, RunUp
<1> HIDE DEF run
<1>10. run[0] = base /\ \A n \in 0 .. i - 1 : run[n + 1] = Raised(run[n], act)
  <2>1. \A n \in 0 .. i - 1 : n + 1 \in 0 .. i /\ n + 1 # 0 /\ (n + 1) - 1 = n
    BY <1>1
  <2>2. 0 \in 0 .. i
    BY <1>1
  <2> QED
    BY <1>8, <2>1, <2>2
<1> DEFINE Done(r) == SortedFrom(Keys(r.order, act), 1)
           T == {n \in 0 .. i : run[n] \in S /\ (run[n].at + n <= i \/ Done(run[n]))}
<1>11. \A n \in 0 .. i : n \in T
  <2>1. 0 \in T
    <3>1. base.at + 0 <= i
      BY <1>1 DEF base
    <3> QED
      BY <1>1, <1>2, <1>10, <3>1
  <2>2. ASSUME NEW n \in 0 .. i - 1, n \in T PROVE n + 1 \in T
    <3> DEFINE r == run[n]
               t == run[n + 1]
    <3>1. r \in S /\ (r.at + n <= i \/ Done(r)) /\ t = Raised(r, act)
      BY <1>10, <2>2
    <3> HIDE DEF r, t
    <3>2. t \in S /\ (t.at < r.at \/ (t = r /\ Done(r))) /\ (Done(r) => t = r)
      BY <3>1, RaisedIs DEF S
    <3>3. r.at \in Nat /\ t.at \in Nat
      BY <3>1, <3>2 DEF S, UpStates
    <3> HIDE DEF Done
    <3>4. t.at + (n + 1) <= i \/ Done(t)
      <4>1. CASE Done(r)
        BY <3>2, <4>1
      <4>2. CASE ~ Done(r)
        BY <1>1, <3>1, <3>2, <3>3, <4>2
      <4> QED
        BY <4>1, <4>2
    <3>5. n + 1 \in 0 .. i
      BY <1>1
    <3> QED
      BY <3>2, <3>4, <3>5 DEF t
  <2> HIDE DEF T
  <2> QED
    BY <1>1, <2>1, <2>2, BoundedInduction
<1>12. run[i] \in S /\ (run[i].at + i <= i \/ Done(run[i]))
  BY <1>1, <1>11
<1>13. Good(run[i].order, V) /\ Rearranged(o, run[i].order, V) /\ run[i].at \in 1 .. Len(o.heap)
  BY <1>12 DEF S, UpStates
<1>14. run[i].at >= 1 /\ run[i].at \in Int
  BY <1>13
<1> QED
  BY <1>1, <1>9, <1>12, <1>13, <1>14

\* Where a run of percolateDown from the place low may be.
DownStates(o, V, act, low) ==
  {r \in [order : Orders(V), at : Nat] :
     /\ Good(r.order, V) /\ Rearranged(o, r.order, V)
     /\ r.at \in low .. Len(o.heap) /\ DownKeys(Keys(r.order, act), low, r.at)}

\* The better child is a child, and no key of a child is greater than its.
LEMMA BetterChildIs ==
  ASSUME NEW V, NEW s, Good(s, V), NEW act \in [V -> Int], NEW a \in DOMAIN s.heap,
         2 * a <= Len(s.heap)
  PROVE  LET c == BetterChild(s, act, a)
             k == Keys(s, act)
         IN /\ c \in {2 * a, 2 * a + 1} /\ c \in 1 .. Len(s.heap)
            /\ \A n \in DOMAIN k : n \div 2 = a => k[n] <= k[c]
<1> DEFINE size == Len(s.heap)
           k == Keys(s, act)
           c == BetterChild(s, act, a)
           right == 2 * a + 1 <= size /\ Lt(act, s.heap[2 * a + 1], s.heap[2 * a])
<1>1. /\ size \in Nat /\ DOMAIN s.heap = 1 .. size /\ k \in [1 .. size -> Int]
      /\ \A n \in 1 .. size : s.heap[n] \in V /\ k[n] = act[s.heap[n]]
      /\ a \in Nat /\ a >= 1
  <2>1. /\ size \in Nat /\ DOMAIN s.heap = 1 .. size /\ k \in [1 .. size -> Int]
        /\ \A n \in 1 .. size : s.heap[n] \in V /\ k[n] = act[s.heap[n]]
    BY PlacesIs, KeysAre
  <2> QED
    BY <2>1
<1>2. c = IF right THEN 2 * a + 1 ELSE 2 * a
  BY DEF BetterChild
<1>3. 2 * a \in 1 .. size /\ (2 * a + 1 <= size => 2 * a + 1 \in 1 .. size)
  BY <1>1
<1>4. 2 * a + 1 <= size => (right <=> k[2 * a + 1] > k[2 * a])
  BY <1>1, <1>3 DEF Lt
<1>5. right => 2 * a + 1 <= size
  OBVIOUS
<1>6. \A n \in 1 .. size : n \div 2 = a => n = 2 * a \/ n = 2 * a + 1
  <2>1. \A n \in Nat : n = 2 * (n \div 2) \/ n = 2 * (n \div 2) + 1
    OBVIOUS
  <2>2. \A n \in 1 .. size : n \in Nat
    BY <1>1
  <2> QED
    BY <2>1, <2>2
<1>7. DOMAIN k = 1 .. size /\ \A n \in 1 .. size : k[n] \in Int
  BY <1>1
<1> HIDE DEF size, k, c, right
<1>8. c \in {2 * a, 2 * a + 1} /\ c \in 1 .. size
  BY <1>2, <1>3, <1>5
<1>9. ASSUME NEW n \in 1 .. size, n \div 2 = a PROVE k[n] <= k[c]
  <2>1. n = 2 * a \/ n = 2 * a + 1
    BY <1>6, <1>9
  <2>2. CASE right
    BY <1>2, <1>3, <1>4, <1>5, <1>7, <2>1, <2>2
  <2>3. CASE ~ right /\ n = 2 * a
    BY <1>2, <1>7, <2>3
  <2>4. CASE ~ right /\ n = 2 * a + 1
    BY <1>1, <1>2, <1>3, <1>4, <1>7, <2>4
  <2> QED
    BY <2>1, <2>2, <2>3, <2>4
<1> QED
  BY <1>7, <1>8, <1>9 DEF size, k, c

\* A pass goes down, or all is in order and nothing changes.
LEMMA LoweredIs ==
  ASSUME NEW V, NEW o, NEW act \in [V -> Int], NEW low \in Nat \ {0},
         NEW r \in DownStates(o, V, act, low)
  PROVE  LET t == Lowered(r, act)
         IN /\ t \in DownStates(o, V, act, low)
            /\ \/ t.at > r.at
               \/ t = r /\ SortedFrom(Keys(r.order, act), low)
            /\ SortedFrom(Keys(r.order, act), low) => t = r
<1> DEFINE size == Len(o.heap)
           s == r.order
           a == r.at
           c == BetterChild(s, act, a)
           k == Keys(s, act)
           t == Lowered(r, act)
           down == 2 * a <= Len(s.heap) /\ Lt(act, s.heap[c], s.heap[a])
<1>1. /\ Good(s, V) /\ Rearranged(o, s, V) /\ a \in low .. size /\ DownKeys(k, low, a)
      /\ r = [order |-> s, at |-> a]
  BY DEF DownStates
<1>2. Len(s.heap) = size
  BY <1>1 DEF Rearranged
<1>3. /\ size \in Nat /\ DOMAIN s.heap = 1 .. size /\ k \in [1 .. size -> Int]
      /\ \A n \in 1 .. size : s.heap[n] \in V /\ k[n] = act[s.heap[n]]
  BY <1>1, <1>2, PlacesIs, KeysAre
<1>4. a \in Nat /\ a \in 1 .. size
  BY <1>1, <1>3
<1>5. t = IF down THEN [order |-> Exchanged(s, a, c), at |-> c] ELSE r
  BY DEF Lowered
<1> HIDE DEF t, c, k, s, a, size
<1>6. 2 * a <= size => /\ c \in {2 * a, 2 * a + 1} /\ c \in 1 .. size
                       /\ \A n \in 1 .. size : n \div 2 = a => k[n] <= k[c]
  <2> SUFFICES ASSUME 2 * a <= size
               PROVE  /\ c \in {2 * a, 2 * a + 1} /\ c \in 1 .. size
                      /\ \A n \in 1 .. size : n \div 2 = a => k[n] <= k[c]
    OBVIOUS
  <2>1. a \in DOMAIN s.heap /\ 2 * a <= Len(s.heap) /\ DOMAIN k = 1 .. size
    BY <1>2, <1>3, <1>4
  <2> QED
    BY <1>1, <1>2, <2>1, BetterChildIs DEF c, k
<1>7. down <=> 2 * a <= size /\ k[c] > k[a]
  BY <1>2, <1>3, <1>4, <1>6 DEF Lt
<1> HIDE DEF down
<1>8. CASE down
  <2> DEFINE e == Exchanged(s, a, c)
  <2>1. 2 * a <= size /\ k[c] > k[a] /\ t = [order |-> e, at |-> c]
    BY <1>5, <1>7, <1>8
  <2>2. /\ c \in {2 * a, 2 * a + 1} /\ c \in 1 .. size
        /\ \A n \in 1 .. size : n \div 2 = a => k[n] <= k[c]
    BY <1>6, <2>1
  <2>3. a \in DOMAIN s.heap /\ c \in DOMAIN s.heap /\ a # c /\ c > a /\ c <= size /\ c \in low .. size
    BY <1>1, <1>3, <1>4, <2>2
  <2>4. /\ Good(e, V) /\ Rearranged(s, e, V)
        /\ KeysSwapped(k, Keys(e, act), a, c)
    BY <1>1, <2>3, ExchangeIs DEF k
  <2> HIDE DEF e
  <2>5. DownKeys(Keys(e, act), low, c)
    <3> DEFINE l == Keys(e, act)
    <3> HIDE DEF l
    <3>1. /\ size \in Nat /\ k \in [1 .. size -> Int] /\ a \in low .. size
          /\ c \in 1 .. size /\ c \div 2 = a
          /\ \A n \in 1 .. size : n \div 2 = a => k[n] <= k[c]
          /\ DownKeys(k, low, a) /\ k[c] > k[a] /\ KeysSwapped(k, l, a, c)
      <4>1. c \div 2 = a
        BY <1>4, <2>2
      <4> QED
        BY <1>1, <1>3, <2>1, <2>2, <2>3, <2>4, <4>1 DEF l
    <3>2. low \in Nat \ {0}
      OBVIOUS
    <3>3. DownKeys(l, low, c)
      BY <3>1, <3>2, DownPass, SMTT(60)
    <3> QED
      BY <3>3 DEF l
  <2>6. Rearranged(o, e, V) /\ e \in Orders(V)
    BY <1>1, <2>4, RearrangedOn DEF Good
  <2>7. t \in DownStates(o, V, act, low)
    <3>1. c \in Nat
      BY <1>3, <2>2
    <3>2. t.order = e /\ t.at = c /\ t \in [order : Orders(V), at : Nat]
      BY <2>1, <2>6, <3>1
    <3>3. c \in low .. Len(o.heap)
      BY <2>3 DEF size
    <3> QED
      BY <2>4, <2>5, <2>6, <3>2, <3>3 DEF DownStates
  <2>8. ~ SortedFrom(k, low)
    <3>1. c \in DOMAIN k /\ c > 1 /\ c \div 2 = a /\ a >= low
      <4>1. c \in DOMAIN k
        BY <1>3, <2>2
      <4>2. c > 1 /\ c \div 2 = a
        BY <1>4, <2>2
      <4>3. a >= low
        BY <1>1, <1>3
      <4> QED
        BY <4>1, <4>2, <4>3
    <3>2. ~ (k[c] <= k[a])
      BY <1>3, <1>4, <2>1, <2>2
    <3> QED
      BY <3>1, <3>2 DEF SortedFrom
  <2>9. t.at = c
    BY <2>1
  <2> QED
    BY <2>3, <2>7, <2>8, <2>9 DEF t, k, s, a
<1>9. CASE ~ down
  <2>1. t = r
    BY <1>5, <1>9
  <2>2. SortedFrom(k, low)
    <3> SUFFICES ASSUME NEW n \in 1 .. size, n > 1, n \div 2 >= low PROVE k[n] <= k[n \div 2]
      BY <1>3 DEF SortedFrom
    <3>1. CASE n \div 2 # a
      BY <1>1, <1>3, <3>1 DEF DownKeys
    <3>2. CASE n \div 2 = a
      <4>1. 2 * a <= size
        BY <1>3, <1>4, <3>2
      <4>2. k[n] <= k[c] /\ c \in 1 .. size
        BY <1>6, <3>2, <4>1
      <4>3. ~ (k[c] > k[a])
        BY <1>7, <1>9, <4>1
      <4> QED
        BY <1>3, <1>4, <3>2, <4>2, <4>3
    <3> QED
      BY <3>1, <3>2
  <2> QED
    BY <2>1, <2>2 DEF t, k, s
<1> QED
  BY <1>8, <1>9

RunDown(o, act, i) ==
  CHOOSE run : run = [n \in 0 .. Len(o.heap) |-> IF n = 0 THEN [order |-> o, at |-> i]
                                                 ELSE Lowered(run[n - 1], act)]

\* What moves down ends at its place, and all from there on is in order.
LEMMA PercolateDownIs ==
  ASSUME NEW V, NEW o, Good(o, V), NEW act \in [V -> Int], NEW low \in DOMAIN o.heap,
         DownKeys(Keys(o, act), low, low)
  PROVE  LET r == PercolateDown(o, act, low)
         IN Good(r, V) /\ Rearranged(o, r, V) /\ SortedFrom(Keys(r, act), low)
<1> DEFINE S == DownStates(o, V, act, low)
           size == Len(o.heap)
           base == [order |-> o, at |-> low]
           step == [x \in S \X (1 .. size) |-> Lowered(x[1], act)]
           run == RunDown(o, act, low)
<1>1. size \in Nat /\ low \in 1 .. size /\ low \in Nat \ {0}
  <2>1. size \in Nat /\ DOMAIN o.heap = 1 .. size
    BY PlacesIs
  <2> QED
    BY <2>1
<1>2. base \in S
  <2>1. low \in low .. size
    BY <1>1
  <2> QED
    BY <1>1, <2>1 DEF DownStates, Rearranged, Good
<1> HIDE DEF S, base, size
<1>3. \A r \in S : Lowered(r, act) \in S
  BY <1>1, LoweredIs DEF S
<1>4. step \in [S \X (1 .. size) -> S]
  BY <1>3
<1>5. PICK g : IsRun(g, size, S, base, step)
  <2> HIDE DEF step
  <2> QED
    BY <1>1, <1>2, <1>4, Recursion
<1>6. g \in [0 .. size -> S] /\ g[0] = base /\ \A n \in 1 .. size : g[n] = Lowered(g[n - 1], act)
  <2>1. \A n \in 1 .. size : g[n - 1] \in S
    BY <1>1, <1>5 DEF IsRun
  <2>2. \A n \in 1 .. size : step[<<g[n - 1], n>>] = Lowered(g[n - 1], act)
    BY <2>1
  <2> HIDE DEF step
  <2> QED
    BY <1>5, <2>2 DEF IsRun
<1>7. g = [n \in 0 .. size |-> IF n = 0 THEN base ELSE Lowered(g[n - 1], act)]
  <2>1. \A n \in 0 .. size : n # 0 => n \in 1 .. size
    BY <1>1
  <2> QED
    BY <1>6, <2>1
<1>8. run = [n \in 0 .. size |-> IF n = 0 THEN base ELSE Lowered(run[n - 1], act)]
  BY <1>7 DEF RunDown, base, size
<1>9. PercolateDown(o, act, low) = run[size].order
  BY DEF PercolateDown, RunDown, size
<1> HIDE DEF run
<1>10. run[0] = base /\ \A n \in 0 .. size - 1 : run[n + 1] = Lowered(run[n], act)
  <2>1. \A n \in 0 .. size - 1 : n + 1 \in 0 .. size /\ n + 1 # 0 /\ (n + 1) - 1 = n
    BY <1>1
  <2>2. 0 \in 0 .. size
    BY <1>1
  <2> QED
    BY <1>8, <2>1, <2>2
<1> DEFINE Done(r) == SortedFrom(Keys(r.order, act), low)
           T == {n \in 0 .. size : run[n] \in S /\ (run[n].at > n \/ Done(run[n]))}
<1>11. \A n \in 0 .. size : n \in T
  <2>1. 0 \in T
    <3>1. base.at > 0
      BY <1>1 DEF base
    <3> QED
      BY <1>1, <1>2, <1>10, <3>1
  <2>2. ASSUME NEW n \in 0 .. size - 1, n \in T PROVE n + 1 \in T
    <3> DEFINE r == run[n]
               t == run[n + 1]
    <3>1. r \in S /\ (r.at > n \/ Done(r)) /\ t = Lowered(r, act)
      BY <1>10, <2>2
    <3> HIDE DEF r, t
    <3>2. t \in S /\ (t.at > r.at \/ (t = r /\ Done(r))) /\ (Done(r) => t = r)
      BY <1>1, <3>1, LoweredIs DEF S
    <3>3. r.at \in Nat /\ t.at \in Nat
      BY <3>1, <3>2 DEF S, DownStates
    <3> HIDE DEF Done
    <3>4. t.at > n + 1 \/ Done(t)
      <4>1. CASE Done(r)
        BY <3>2, <4>1
      <4>2. CASE ~ Done(r)
        BY <1>1, <3>1, <3>2, <3>3, <4>2
      <4> QED
        BY <4>1, <4>2
    <3>5. n + 1 \in 0 .. size
      BY <1>1
    <3> QED
      BY <3>2, <3>4, <3>5 DEF t
  <2> HIDE DEF T
  <2> QED
    BY <1>1, <2>1, <2>2, BoundedInduction
<1>12. run[size] \in S /\ (run[size].at > size \/ Done(run[size]))
  BY <1>1, <1>11
<1>13. Good(run[size].order, V) /\ Rearranged(o, run[size].order, V) /\ run[size].at \in low .. size
  BY <1>12 DEF S, DownStates, size
<1>14. run[size].at <= size /\ run[size].at \in Int
  BY <1>13
<1> QED
  BY <1>1, <1>9, <1>12, <1>13, <1>14
-----------------------------------------------------------------------------
(* insert and removeMin.                                                    *)

\* A heap with all in order.
Heap(o, V, act) == Good(o, V) /\ SortedFrom(Keys(o, act), 1)

\* A variable that is not in the heap, put at its end.
LEMMA PutLast ==
  ASSUME NEW V, NEW act \in [V -> Int], NEW o, Heap(o, V, act), NEW x \in V, ~ InHeap(o, x)
  PROVE  LET last == Len(o.heap) + 1
             r == [heap |-> Append(o.heap, x), indices |-> [o.indices EXCEPT ![x] = last]]
         IN /\ Good(r, V) /\ last \in DOMAIN r.heap /\ UpKeys(Keys(r, act), last)
            /\ \A v \in V : InHeap(r, v) <=> v = x \/ InHeap(o, v)
<1> DEFINE size == Len(o.heap)
           last == size + 1
           h == Append(o.heap, x)
           ix == [o.indices EXCEPT ![x] = last]
           r == [heap |-> h, indices |-> ix]
           k == Keys(o, act)
           l == Keys(r, act)
<1>1. /\ size \in Nat /\ DOMAIN o.heap = 1 .. size
      /\ o.heap \in Seq(V) /\ o.indices \in [V -> Nat]
      /\ \A n \in 1 .. size : o.heap[n] \in V /\ o.indices[o.heap[n]] = n
      /\ \A v \in V : InHeap(o, v) =>
           o.indices[v] \in 1 .. size /\ o.heap[o.indices[v]] = v
      /\ \A n \in 1 .. size : k[n] = act[o.heap[n]]
      /\ k \in [1 .. size -> Int]
  <2>1. Good(o, V)
    BY DEF Heap
  <2> QED
    <3>1. /\ size \in Nat /\ DOMAIN o.heap = 1 .. size
          /\ o.heap \in Seq(V) /\ o.indices \in [V -> Nat]
          /\ \A n \in 1 .. size : o.heap[n] \in V /\ o.indices[o.heap[n]] = n
          /\ \A v \in V : InHeap(o, v) =>
               o.indices[v] \in 1 .. size /\ o.heap[o.indices[v]] = v
      BY <2>1, PlacesIs
    <3>2. /\ \A n \in 1 .. size : k[n] = act[o.heap[n]]
          /\ k \in [1 .. size -> Int]
      BY <2>1, KeysAre
    <3> HIDE DEF size, k
    <3> QED
      BY <3>1, <3>2
<1>2. o.indices[x] = 0
  BY <1>1 DEF InHeap
<1>3. /\ h \in Seq(V) /\ Len(h) = last /\ DOMAIN h = 1 .. last /\ h[last] = x
      /\ \A n \in 1 .. size : h[n] = o.heap[n]
  BY <1>1
<1>4. last \in Nat /\ last > 0 /\ last \in 1 .. last
  BY <1>1
<1>5. ix \in [V -> Nat] /\ ix[x] = last /\ \A v \in V \ {x} : ix[v] = o.indices[v]
  BY <1>1, <1>4
<1>6. r.heap = h /\ r.indices = ix
  OBVIOUS
<1> HIDE DEF size, h, ix, k, last
<1>7. \A n \in 1 .. last : n = last \/ n \in 1 .. size
  BY <1>1 DEF last
<1>8. \A n \in 1 .. size : n \in 1 .. last /\ n # last
  BY <1>1 DEF last
<1>9. \A n \in 1 .. last : ix[h[n]] = n
  <2> TAKE n \in 1 .. last
  <2>1. CASE n = last
    BY <1>3, <1>5, <2>1
  <2>2. CASE n \in 1 .. size
    <3>0. n # 0
      BY <1>1
    <3>1. h[n] = o.heap[n] /\ n # 0
      BY <1>3, <2>2, <3>0
    <3>2. h[n] \in V /\ o.indices[h[n]] = n
      BY <1>1, <2>2, <3>1
    <3> QED
      BY <1>2, <1>5, <3>1, <3>2
  <2> QED
    BY <1>7, <2>1, <2>2
<1>10. ASSUME NEW v \in V
       PROVE  /\ ix[v] > 0 <=> v = x \/ InHeap(o, v)
              /\ ix[v] > 0 => ix[v] \in 1 .. last /\ h[ix[v]] = v
  <2>1. CASE v = x
    BY <1>3, <1>4, <1>5, <2>1
  <2>2. CASE v # x
    <3>1. ix[v] = o.indices[v]
      BY <1>5, <2>2
    <3>2. InHeap(o, v) => ix[v] \in 1 .. size /\ h[ix[v]] = v
      BY <1>1, <1>3, <3>1
    <3> QED
      BY <1>8, <2>2, <3>1, <3>2 DEF InHeap
  <2> QED
    BY <2>1, <2>2
<1>11. Good(r, V)
  BY <1>3, <1>5, <1>6, <1>9, <1>10 DEF Good, Orders, Indexed, InHeap
<1>12. UpKeys(l, last)
  <2>1. DOMAIN l = 1 .. last /\ \A n \in 1 .. size : l[n] = k[n]
    BY <1>1, <1>3, <1>6, <1>8 DEF Keys
  <2> HIDE DEF l
  <2> SUFFICES ASSUME NEW n \in 1 .. last, n > 1
               PROVE  (n # last => l[n] <= l[n \div 2]) /\ n \div 2 # last
    BY <2>1 DEF UpKeys
  <2>2. n \div 2 \in 1 .. size /\ n \div 2 # last
    BY <1>1 DEF last
  <2>3. ASSUME n # last PROVE l[n] <= l[n \div 2]
    <3>1. n \in 1 .. size /\ n \div 2 >= 1
      BY <1>7, <2>2, <2>3
    <3>2. k[n] <= k[n \div 2]
      BY <1>1, <3>1 DEF Heap, SortedFrom, k
    <3> QED
      BY <2>1, <2>2, <3>1, <3>2
  <2> QED
    BY <2>2, <2>3
<1> HIDE DEF r
<1>13. \A v \in V : InHeap(r, v) <=> v = x \/ InHeap(o, v)
  BY <1>6, <1>10 DEF InHeap
<1> QED
  BY <1>3, <1>4, <1>6, <1>11, <1>12, <1>13 DEF size, h, ix, last, r

\* insert: one variable more.
LEMMA InsertedIs ==
  ASSUME NEW V, NEW act \in [V -> Int], NEW o, Heap(o, V, act), NEW x \in V, ~ InHeap(o, x)
  PROVE  LET r == Inserted(o, act, x)
         IN Heap(r, V, act) /\ \A v \in V : InHeap(r, v) <=> v = x \/ InHeap(o, v)
<1> DEFINE last == Len(o.heap) + 1
           s == [heap |-> Append(o.heap, x), indices |-> [o.indices EXCEPT ![x] = last]]
           r == Inserted(o, act, x)
<1>1. /\ Good(s, V) /\ last \in DOMAIN s.heap /\ UpKeys(Keys(s, act), last)
      /\ \A v \in V : InHeap(s, v) <=> v = x \/ InHeap(o, v)
  BY PutLast
<1>2. r = PercolateUp(s, act, last)
  BY DEF Inserted
<1> HIDE DEF s, r, last
<1>3. Good(r, V) /\ Rearranged(s, r, V) /\ SortedFrom(Keys(r, act), 1)
  BY <1>1, <1>2, PercolateUpIs
<1> QED
  BY <1>1, <1>3 DEF Heap, Rearranged, r

\* insertVarOrder: the variable is there afterwards, and what was there is.
LEMMA InsertVarOrderIs ==
  ASSUME NEW V, NEW act \in [V -> Int], NEW o, Heap(o, V, act), NEW x \in V
  PROVE  LET r == InsertVarOrder(o, act, x)
         IN Heap(r, V, act) /\ \A v \in V : InHeap(r, v) <=> v = x \/ InHeap(o, v)
BY InsertedIs DEF InsertVarOrder

\* The first variable taken out, and the last one put in its place.
LEMMA MovedIs ==
  ASSUME NEW V, NEW act \in [V -> Int], NEW o, Heap(o, V, act), Len(o.heap) > 0
  PROVE  LET last == Len(o.heap)
             r == [heap |-> SubSeq([o.heap EXCEPT ![1] = o.heap[last]], 1, last - 1),
                   indices |-> [o.indices EXCEPT ![o.heap[last]] = 1, ![o.heap[1]] = 0]]
         IN /\ Good(r, V) /\ Len(r.heap) = last - 1 /\ DownKeys(Keys(r, act), 1, 1)
            /\ \A v \in V : InHeap(r, v) <=> v # o.heap[1] /\ InHeap(o, v)
<1> DEFINE last == Len(o.heap)
           first == o.heap[1]
           end == o.heap[last]
           e == [o.heap EXCEPT ![1] = end]
           h == SubSeq(e, 1, last - 1)
           ix == [o.indices EXCEPT ![end] = 1, ![first] = 0]
           r == [heap |-> h, indices |-> ix]
           k == Keys(o, act)
           l == Keys(r, act)
<1>1. /\ last \in Nat /\ DOMAIN o.heap = 1 .. last
      /\ o.heap \in Seq(V) /\ o.indices \in [V -> Nat]
      /\ \A n \in 1 .. last : o.heap[n] \in V /\ o.indices[o.heap[n]] = n
      /\ \A v \in V : InHeap(o, v) =>
           o.indices[v] \in 1 .. last /\ o.heap[o.indices[v]] = v
      /\ \A n \in 1 .. last : k[n] = act[o.heap[n]]
      /\ k \in [1 .. last -> Int]
  <2>1. Good(o, V)
    BY DEF Heap
  <2>2. /\ last \in Nat /\ DOMAIN o.heap = 1 .. last
        /\ o.heap \in Seq(V) /\ o.indices \in [V -> Nat]
        /\ \A n \in 1 .. last : o.heap[n] \in V /\ o.indices[o.heap[n]] = n
        /\ \A v \in V : InHeap(o, v) =>
             o.indices[v] \in 1 .. last /\ o.heap[o.indices[v]] = v
    BY <2>1, PlacesIs
  <2>3. /\ \A n \in 1 .. last : k[n] = act[o.heap[n]]
        /\ k \in [1 .. last -> Int]
    BY <2>1, KeysAre
  <2> HIDE DEF last, k
  <2> QED
    BY <2>2, <2>3
<1>2. last > 0 /\ 1 \in 1 .. last /\ last \in 1 .. last /\ last - 1 \in Nat /\ last - 1 \in 0 .. last
  BY <1>1
<1>3. first \in V /\ end \in V /\ o.indices[first] = 1 /\ o.indices[end] = last
  BY <1>1, <1>2
<1> HIDE DEF first, end
<1>4. e \in Seq(V) /\ Len(e) = last /\ e[1] = end /\ \A n \in 1 .. last \ {1} : e[n] = o.heap[n]
  BY <1>1, <1>2, <1>3
<1> HIDE DEF e
<1>5. /\ h \in Seq(V) /\ Len(h) = last - 1 /\ DOMAIN h = 1 .. last - 1
      /\ \A n \in 1 .. last - 1 : h[n] = e[n]
  BY <1>2, <1>4, PrefixIs
<1>6. /\ ix \in [V -> Nat] /\ ix[first] = 0 /\ (end # first => ix[end] = 1)
      /\ \A v \in V \ {first, end} : ix[v] = o.indices[v]
  BY <1>1, <1>3
<1>7. r.heap = h /\ r.indices = ix
  OBVIOUS
<1> HIDE DEF h, ix, k, last
<1>8. \A n \in 1 .. last - 1 : n \in 1 .. last /\ n # last /\ n >= 1
  BY <1>1
<1>9. \A n \in 1 .. last : n # last => n \in 1 .. last - 1
  BY <1>1
<1>10. (end = first) <=> (last = 1)
  BY <1>2, <1>3 DEF first, end
<1>11. \A n \in 1 .. last - 1 : ix[h[n]] = n
  <2> TAKE n \in 1 .. last - 1
  <2>1. CASE n = 1
    <3>1. end # first
      BY <1>8, <1>10, <2>1
    <3> QED
      BY <1>4, <1>5, <1>6, <2>1, <3>1
  <2>2. CASE n # 1
    <3>0. n \in 1 .. last /\ n \in 1 .. last \ {1}
      BY <1>8, <2>2
    <3>1. h[n] = o.heap[n] /\ h[n] \in V /\ o.indices[h[n]] = n
      <4>1. h[n] = e[n]
        BY <1>5
      <4>2. e[n] = o.heap[n]
        BY <1>4, <3>0
      <4> QED
        BY <1>1, <3>0, <4>1, <4>2
    <3>2. h[n] \notin {first, end}
      BY <1>3, <1>8, <2>2, <3>1
    <3> QED
      BY <1>6, <3>1, <3>2
  <2> QED
    BY <2>1, <2>2
<1>12. ASSUME NEW v \in V
       PROVE  /\ ix[v] > 0 <=> v # first /\ InHeap(o, v)
              /\ ix[v] > 0 => ix[v] \in 1 .. last - 1 /\ h[ix[v]] = v
  <2>1. CASE v = first
    BY <1>6, <2>1
  <2>2. CASE v = end /\ end # first
    <3>1. last # 1 /\ 1 \in 1 .. last - 1 /\ ix[v] = 1
      BY <1>2, <1>6, <1>9, <1>10, <2>2
    <3>2. h[1] = end
      BY <1>4, <1>5, <3>1
    <3> QED
      BY <1>2, <1>3, <2>2, <3>1, <3>2 DEF InHeap
  <2>3. CASE v \notin {first, end}
    <3>1. ix[v] = o.indices[v]
      BY <1>6, <2>3
    <3>2. ASSUME InHeap(o, v) PROVE ix[v] \in 1 .. last - 1 /\ h[ix[v]] = v
      <4> DEFINE n == o.indices[v]
      <4>1. n \in 1 .. last /\ o.heap[n] = v
        BY <1>1, <3>2
      <4> HIDE DEF n
      <4>2. n # last /\ n # 1
        BY <2>3, <4>1 DEF first, end
      <4>3. n \in 1 .. last - 1
        BY <1>9, <4>1, <4>2
      <4>4. h[n] = v
        BY <1>4, <1>5, <4>1, <4>2, <4>3
      <4> QED
        BY <3>1, <4>3, <4>4 DEF n
    <3> QED
      BY <2>3, <3>1, <3>2 DEF InHeap
  <2> QED
    BY <2>1, <2>2, <2>3
<1>13. Good(r, V)
  BY <1>5, <1>6, <1>7, <1>11, <1>12 DEF Good, Orders, Indexed, InHeap
<1>14. DownKeys(l, 1, 1)
  <2>1. DOMAIN l = 1 .. last - 1 /\ \A n \in 1 .. last - 1 : n # 1 => l[n] = k[n]
    <3>1. DOMAIN l = 1 .. last - 1 /\ \A n \in 1 .. last - 1 : l[n] = act[h[n]]
      BY <1>5, <1>7 DEF Keys
    <3>2. ASSUME NEW n \in 1 .. last - 1, n # 1 PROVE act[h[n]] = k[n]
      <4>1. n \in 1 .. last /\ n \in 1 .. last \ {1}
        BY <1>8, <3>2
      <4>2. h[n] = e[n]
        BY <1>5
      <4>3. e[n] = o.heap[n]
        BY <1>4, <4>1
      <4> QED
        BY <1>1, <4>1, <4>2, <4>3
    <3> HIDE DEF l
    <3> QED
      BY <3>1, <3>2
  <2> HIDE DEF l
  <2> SUFFICES ASSUME NEW n \in 1 .. last - 1, n > 1
               PROVE  /\ n \div 2 >= 1 /\ n \div 2 # 1 => l[n] <= l[n \div 2]
                      /\ ~ (n \div 2 = 1 /\ 1 \div 2 >= 1)
    BY <2>1 DEF DownKeys
  <2>2. n \div 2 \in 1 .. last - 1 /\ n \div 2 >= 1 /\ ~ (1 \div 2 >= 1)
    BY <1>1
  <2>3. ASSUME n \div 2 # 1 PROVE l[n] <= l[n \div 2]
    <3>1. k[n] <= k[n \div 2]
      BY <1>1, <1>8, <2>2 DEF Heap, SortedFrom, k
    <3> QED
      BY <2>1, <2>2, <2>3, <3>1
  <2> QED
    BY <2>2, <2>3
<1> HIDE DEF r
<1>15. \A v \in V : InHeap(r, v) <=> v # first /\ InHeap(o, v)
  BY <1>7, <1>12 DEF InHeap
<1> QED
  BY <1>5, <1>7, <1>13, <1>14, <1>15 DEF first, end, e, h, ix, last, r

\* removeMin: one variable less, the first.
LEMMA RemovedMinIs ==
  ASSUME NEW V, NEW act \in [V -> Int], NEW o, Heap(o, V, act), Len(o.heap) > 0
  PROVE  LET r == RemovedMin(o, act)
         IN /\ Heap(r, V, act) /\ Len(r.heap) = Len(o.heap) - 1
            /\ \A v \in V : InHeap(r, v) <=> v # o.heap[1] /\ InHeap(o, v)
<1> DEFINE last == Len(o.heap)
           s == [heap |-> SubSeq([o.heap EXCEPT ![1] = o.heap[last]], 1, last - 1),
                 indices |-> [o.indices EXCEPT ![o.heap[last]] = 1, ![o.heap[1]] = 0]]
           r == RemovedMin(o, act)
<1>1. /\ Good(s, V) /\ Len(s.heap) = last - 1 /\ DownKeys(Keys(s, act), 1, 1)
      /\ \A v \in V : InHeap(s, v) <=> v # o.heap[1] /\ InHeap(o, v)
  BY MovedIs
<1>2. r = IF last > 2 THEN PercolateDown(s, act, 1) ELSE s
  BY DEF RemovedMin
<1>3. last \in Nat
  BY PlacesIs, KeysAre DEF Heap
<1> HIDE DEF s, r, last
<1>4. DOMAIN s.heap = 1 .. last - 1
  BY <1>1, PlacesIs
<1>5. CASE last > 2
  <2>1. 1 \in DOMAIN s.heap
    BY <1>3, <1>4, <1>5
  <2>2. Good(r, V) /\ Rearranged(s, r, V) /\ SortedFrom(Keys(r, act), 1)
    BY <1>1, <1>2, <1>5, <2>1, PercolateDownIs
  <2> QED
    BY <1>1, <2>2 DEF Heap, Rearranged, r, last
<1>6. CASE ~ (last > 2)
  <2>1. SortedFrom(Keys(s, act), 1)
    <3>1. \A n \in 1 .. last - 1 : ~ (n > 1)
      BY <1>3, <1>6
    <3> QED
      BY <1>4, <3>1 DEF SortedFrom, Keys
  <2> QED
    BY <1>1, <1>2, <1>6, <2>1 DEF Heap, r, last
<1> QED
  BY <1>5, <1>6
-----------------------------------------------------------------------------
(* build.                                                                   *)

RunSift(o, act, inner) ==
  CHOOSE run : run = [n \in 0 .. inner |-> IF n = 0 THEN o
                                           ELSE PercolateDown(run[n - 1], act, inner + 1 - n)]

\* Whatever the places of its variables, a heap is in order after the sifting.
LEMMA SiftedIs ==
  ASSUME NEW V, NEW act \in [V -> Int], NEW o, Good(o, V)
  PROVE  LET r == Sifted(o, act)
         IN Heap(r, V, act) /\ Rearranged(o, r, V)
<1> DEFINE size == Len(o.heap)
           inner == size \div 2
           low(n) == inner + 1 - n
           S == {r \in Orders(V) : Good(r, V) /\ Rearranged(o, r, V)}
           Ordered(r, m) == SortedFrom(Keys(r, act), m)
           Pass(r, n) == PercolateDown(r, act, low(n))
           step == [x \in S \X (1 .. inner) |->
                      IF Ordered(x[1], low(x[2] - 1)) THEN Pass(x[1], x[2]) ELSE x[1]]
           run == RunSift(o, act, inner)
<1>0. size \in Nat /\ DOMAIN Keys(o, act) = 1 .. size
  BY PlacesIs DEF Keys
<1> HIDE DEF size
<1>1. size \in Nat /\ inner \in Nat /\ \A n \in 1 .. size : n \div 2 < inner + 1
  BY <1>0
<1>2. o \in S /\ Ordered(o, low(0))
  <2>1. o \in S
    BY DEF Good, Rearranged
  <2>2. \A n \in 1 .. size : ~ (n \div 2 >= low(0))
    <3> TAKE n \in 1 .. size
    <3>1. n \div 2 < inner + 1 /\ n \div 2 \in Int
      BY <1>1
    <3> HIDE DEF inner
    <3> QED
      BY <1>1, <3>1
  <2> QED
    BY <1>0, <2>1, <2>2 DEF SortedFrom
<1>3. ASSUME NEW r \in S, NEW n \in 1 .. inner, Ordered(r, low(n - 1))
      PROVE  Pass(r, n) \in S /\ Ordered(Pass(r, n), low(n))
  <2> DEFINE m == low(n)
             k == Keys(r, act)
  <2>1. Good(r, V) /\ Rearranged(o, r, V) /\ Len(r.heap) = size
    BY DEF Rearranged, size
  <2>2. DOMAIN r.heap = 1 .. size /\ DOMAIN k = 1 .. size
    BY <2>1, PlacesIs DEF Keys
  <2>3. m \in 1 .. size /\ low(n - 1) = m + 1
    BY <1>1
  <2>4. DownKeys(k, m, m)
    <3>1. SortedFrom(k, m + 1)
      BY <1>3, <2>3
    <3> HIDE DEF k, m
    <3> SUFFICES ASSUME NEW i \in 1 .. size, i > 1
                 PROVE  /\ i \div 2 >= m /\ i \div 2 # m => k[i] <= k[i \div 2]
                        /\ ~ (m \div 2 >= m)
      BY <2>2 DEF DownKeys
    <3>2. ~ (m \div 2 >= m)
      BY <1>1, <2>3
    <3>3. i \div 2 >= m /\ i \div 2 # m => i \div 2 >= m + 1
      BY <1>1, <2>3
    <3> QED
      BY <2>2, <3>1, <3>2, <3>3 DEF SortedFrom
  <2>5. m \in DOMAIN r.heap
    BY <2>2, <2>3
  <2> HIDE DEF m
  <2>6. LET t == PercolateDown(r, act, m)
        IN Good(t, V) /\ Rearranged(r, t, V) /\ SortedFrom(Keys(t, act), m)
    BY <2>1, <2>4, <2>5, PercolateDownIs
  <2> DEFINE t == PercolateDown(r, act, m)
  <2> HIDE DEF t
  <2>7. Good(t, V) /\ Rearranged(o, t, V) /\ SortedFrom(Keys(t, act), m) /\ t \in Orders(V)
    BY <2>1, <2>6, RearrangedOn DEF t, Good
  <2> QED
    BY <2>7 DEF t, m
<1> HIDE DEF size, inner, S, Ordered, Pass, low, run
<1>4. \A n \in 0 .. inner - 1 : n + 1 \in 1 .. inner /\ (n + 1) - 1 = n /\ n + 1 \in 0 .. inner
                                /\ n + 1 # 0
  BY <1>1
<1>5. step \in [S \X (1 .. inner) -> S]
  BY <1>3
<1>6. PICK g : IsRun(g, inner, S, o, step)
  <2> HIDE DEF step
  <2> QED
    BY <1>1, <1>2, <1>5, Recursion
<1>7. /\ g \in [0 .. inner -> S] /\ g[0] = o
      /\ \A n \in 1 .. inner : g[n] = IF Ordered(g[n - 1], low(n - 1)) THEN Pass(g[n - 1], n)
                                      ELSE g[n - 1]
  <2>1. \A n \in 1 .. inner : g[n - 1] \in S
    BY <1>1, <1>6 DEF IsRun
  <2>2. \A n \in 1 .. inner : step[<<g[n - 1], n>>] =
           IF Ordered(g[n - 1], low(n - 1)) THEN Pass(g[n - 1], n) ELSE g[n - 1]
    BY <2>1
  <2> HIDE DEF step
  <2> QED
    BY <1>6, <2>2 DEF IsRun
<1>8. \A n \in 0 .. inner : g[n] \in S /\ Ordered(g[n], low(n))
  <2> DEFINE T == {n \in 0 .. inner : g[n] \in S /\ Ordered(g[n], low(n))}
  <2>1. 0 \in T
    BY <1>1, <1>2, <1>7
  <2>2. \A n \in 0 .. inner - 1 : n \in T => n + 1 \in T
    <3> SUFFICES ASSUME NEW n \in 0 .. inner - 1, g[n] \in S, Ordered(g[n], low(n))
                 PROVE  g[n + 1] \in S /\ Ordered(g[n + 1], low(n + 1))
      BY <1>4
    <3>1. g[n + 1] = Pass(g[n], n + 1)
      BY <1>4, <1>7
    <3> QED
      BY <1>3, <1>4, <3>1
  <2> HIDE DEF T
  <2>3. \A n \in 0 .. inner : n \in T
    BY <1>1, <2>1, <2>2, BoundedInduction
  <2> QED
    BY <2>3 DEF T
<1>9. g = [n \in 0 .. inner |-> IF n = 0 THEN o ELSE Pass(g[n - 1], n)]
  <2>1. \A n \in 0 .. inner : n # 0 => n \in 1 .. inner /\ n - 1 \in 0 .. inner
    BY <1>1
  <2> QED
    BY <1>7, <1>8, <2>1
<1>10. run = [n \in 0 .. inner |-> IF n = 0 THEN o ELSE Pass(run[n - 1], n)]
  BY <1>9 DEF run, RunSift, Pass, low
<1>11. Sifted(o, act) = run[inner]
  BY DEF Sifted, run, RunSift, inner, size
<1>12. \A n \in 0 .. inner : run[n] \in S /\ Ordered(run[n], low(n))
  <2> DEFINE T == {n \in 0 .. inner : run[n] \in S /\ Ordered(run[n], low(n))}
  <2>1. 0 \in T
    BY <1>1, <1>2, <1>10
  <2>2. \A n \in 0 .. inner - 1 : n \in T => n + 1 \in T
    <3> SUFFICES ASSUME NEW n \in 0 .. inner - 1, run[n] \in S, Ordered(run[n], low(n))
                 PROVE  run[n + 1] \in S /\ Ordered(run[n + 1], low(n + 1))
      BY <1>4
    <3>1. run[n + 1] = Pass(run[n], n + 1)
      BY <1>4, <1>10
    <3> QED
      BY <1>3, <1>4, <3>1
  <2> HIDE DEF T
  <2>3. \A n \in 0 .. inner : n \in T
    BY <1>1, <2>1, <2>2, BoundedInduction
  <2> QED
    BY <2>3 DEF T
<1>13. run[inner] \in S /\ SortedFrom(Keys(run[inner], act), 1)
  <2>1. inner \in 0 .. inner /\ low(inner) = 1
    BY <1>1 DEF low
  <2> QED
    BY <1>12, <2>1 DEF Ordered
<1> QED
  BY <1>11, <1>13 DEF S, Heap

RunList(vs) ==
  CHOOSE ns : ns = [v \in 0 .. Len(activity) |->
                      IF v = 0 THEN << >> ELSE IF v \in vs THEN Append(ns[v - 1], v) ELSE ns[v - 1]]

\* Each variable of the set stands once in the list, and no other does.
LEMMA ListedIs ==
  ASSUME activity \in Seq(Int), NEW vs \in SUBSET Vars
  PROVE  LET ns == Listed(vs)
         IN /\ ns \in Seq(vs)
            /\ \A m, n \in DOMAIN ns : ns[m] = ns[n] => m = n
            /\ \A v \in vs : \E n \in DOMAIN ns : ns[n] = v
<1> DEFINE size == Len(activity)
           S == Seq(vs)
           Longer(x, v) == IF v \in vs THEN Append(x, v) ELSE x
           step == [x \in S \X (1 .. size) |-> Longer(x[1], x[2])]
           run == RunList(vs)
<1>1. size \in Nat /\ Vars = 1 .. size
  BY DEF Vars
<1>2. << >> \in S
  OBVIOUS
<1>3. \A x \in S, v \in 1 .. size : Longer(x, v) \in S
  OBVIOUS
<1> HIDE DEF size, S, Longer, run
<1>4. step \in [S \X (1 .. size) -> S]
  BY <1>3
<1>5. PICK g : IsRun(g, size, S, << >>, step)
  <2> HIDE DEF step
  <2> QED
    BY <1>1, <1>2, <1>4, Recursion
<1>6. g \in [0 .. size -> S] /\ g[0] = << >> /\ \A n \in 1 .. size : g[n] = Longer(g[n - 1], n)
  <2>1. \A n \in 1 .. size : g[n - 1] \in S
    BY <1>1, <1>5 DEF IsRun
  <2>2. \A n \in 1 .. size : step[<<g[n - 1], n>>] = Longer(g[n - 1], n)
    BY <2>1
  <2> HIDE DEF step
  <2> QED
    BY <1>5, <2>2 DEF IsRun
<1>7. g = [n \in 0 .. size |-> IF n = 0 THEN << >> ELSE Longer(g[n - 1], n)]
  <2>1. \A n \in 0 .. size : n # 0 => n \in 1 .. size
    BY <1>1
  <2> QED
    BY <1>6, <2>1
<1>8. run = [n \in 0 .. size |-> IF n = 0 THEN << >> ELSE Longer(run[n - 1], n)]
  BY <1>7 DEF run, RunList, size, Longer
<1>9. Listed(vs) = run[size]
  BY DEF Listed, run, RunList, size
<1> DEFINE Upto(s, m) == /\ s \in Seq(vs)
                         /\ \A n \in DOMAIN s : s[n] <= m
                         /\ \A a, b \in DOMAIN s : s[a] = s[b] => a = b
                         /\ \A v \in vs : v <= m => \E n \in DOMAIN s : s[n] = v
           T == {m \in 0 .. size : Upto(run[m], m)}
<1>10. 0 \in T
  <2>1. run[0] = << >> /\ 0 \in 0 .. size
    BY <1>1, <1>8
  <2>2. \A v \in vs : ~ (v <= 0)
    BY <1>1
  <2>3. DOMAIN << >> = {} /\ << >> \in Seq(vs)
    OBVIOUS
  <2> QED
    BY <2>1, <2>2, <2>3
<1>11. ASSUME NEW m \in 0 .. size - 1, Upto(run[m], m)
       PROVE  Upto(run[m + 1], m + 1)
  <2> DEFINE s == run[m]
             t == run[m + 1]
             v == m + 1
  <2>1. m \in Nat /\ v \in 0 .. size /\ v # 0 /\ v - 1 = m
    BY <1>1
  <2>2. t = IF v \in vs THEN Append(s, v) ELSE s
    BY <1>8, <2>1 DEF Longer
  <2>3. /\ s \in Seq(vs) /\ Len(s) \in Nat /\ DOMAIN s = 1 .. Len(s)
        /\ \A n \in DOMAIN s : s[n] <= m /\ s[n] \in vs /\ s[n] \in Nat
        /\ \A a, b \in DOMAIN s : s[a] = s[b] => a = b
        /\ \A u \in vs : u <= m => \E n \in DOMAIN s : s[n] = u
    <3>1. /\ s \in Seq(vs) /\ \A n \in DOMAIN s : s[n] <= m
          /\ \A a, b \in DOMAIN s : s[a] = s[b] => a = b
          /\ \A u \in vs : u <= m => \E n \in DOMAIN s : s[n] = u
      BY <1>11
    <3> HIDE DEF s
    <3>2. Len(s) \in Nat /\ DOMAIN s = 1 .. Len(s) /\ \A n \in DOMAIN s : s[n] \in vs
      BY <3>1
    <3>3. \A u \in vs : u \in Nat
      BY <1>1
    <3> QED
      BY <3>1, <3>2, <3>3
  <2>4. \A u \in vs : u \in Nat /\ (u <= m + 1 <=> u <= m \/ u = v)
    BY <1>1, <2>1
  <2> HIDE DEF s, t, v
  <2>5. CASE v \in vs
    <3> DEFINE last == Len(s) + 1
    <3>1. /\ t \in Seq(vs) /\ DOMAIN t = 1 .. last /\ t[last] = v
          /\ \A n \in DOMAIN s : t[n] = s[n]
      BY <2>2, <2>3, <2>5
    <3>2. \A n \in 1 .. last : n = last \/ n \in DOMAIN s
      BY <2>3
    <3>3. last \in 1 .. last /\ \A n \in DOMAIN s : n \in 1 .. last /\ n # last
      BY <2>3
    <3> HIDE DEF last
    <3>4. \A n \in DOMAIN s : s[n] # v
      BY <2>1, <2>3 DEF v
    <3>5. \A n \in DOMAIN t : t[n] <= m + 1
      BY <2>1, <2>3, <3>1, <3>2 DEF v
    <3>6. \A a, b \in DOMAIN t : t[a] = t[b] => a = b
      BY <2>3, <3>1, <3>2, <3>4
    <3>7. \A u \in vs : u <= m + 1 => \E n \in DOMAIN t : t[n] = u
      BY <2>3, <2>4, <3>1, <3>3
    <3> QED
      BY <3>1, <3>5, <3>6, <3>7 DEF t
  <2>6. CASE v \notin vs
    <3>1. t = s
      BY <2>2, <2>6
    <3>2. \A n \in DOMAIN s : s[n] <= m + 1
      BY <2>1, <2>3
    <3>3. \A u \in vs : u <= m + 1 => u <= m
      BY <2>4, <2>6
    <3> QED
      BY <2>3, <3>1, <3>2, <3>3 DEF t
  <2> QED
    BY <2>5, <2>6
<1> HIDE DEF Upto
<1>12. \A m \in 0 .. size : m \in T
  <2>1. \A m \in 0 .. size - 1 : m \in T => m + 1 \in T
    BY <1>1, <1>11
  <2> HIDE DEF T
  <2> QED
    BY <1>1, <1>10, <2>1, BoundedInduction
<1>13. Upto(run[size], size)
  BY <1>1, <1>12
<1>14. \A v \in vs : v <= size
  BY <1>1
<1> QED
  BY <1>9, <1>13, <1>14 DEF Upto

\* rebuildOrderHeap: a heap of exactly the variables given.
LEMMA BuiltIs ==
  ASSUME activity \in Seq(Int), NEW act \in [Vars -> Int], NEW vs \in SUBSET Vars
  PROVE  LET r == Built(vs, act)
         IN Heap(r, Vars, act) /\ \A v \in Vars : InHeap(r, v) <=> v \in vs
<1> DEFINE ns == Listed(vs)
           place(v) == CHOOSE n \in DOMAIN ns : ns[n] = v
           ix == [v \in Vars |-> IF v \in vs THEN place(v) ELSE 0]
           o == [heap |-> ns, indices |-> ix]
<1>1. /\ ns \in Seq(vs) /\ \A m, n \in DOMAIN ns : ns[m] = ns[n] => m = n
      /\ \A v \in vs : \E n \in DOMAIN ns : ns[n] = v
  BY ListedIs
<1> HIDE DEF ns
<1>2. ns \in Seq(Vars) /\ \A n \in DOMAIN ns : ns[n] \in vs /\ n \in Nat /\ n > 0
  BY <1>1
<1>3. \A v \in vs : place(v) \in DOMAIN ns /\ ns[place(v)] = v
  BY <1>1
<1> HIDE DEF place
<1>4. \A n \in DOMAIN ns : place(ns[n]) = n
  BY <1>1, <1>2, <1>3
<1>5. ix \in [Vars -> Nat] /\ \A v \in Vars : ix[v] = IF v \in vs THEN place(v) ELSE 0
  BY <1>2, <1>3
<1> HIDE DEF ix
<1>6. o.heap = ns /\ o.indices = ix
  OBVIOUS
<1>7. \A v \in Vars : ix[v] > 0 <=> v \in vs
  BY <1>2, <1>3, <1>5
<1>8. o \in Orders(Vars)
  BY <1>2, <1>5 DEF Orders
<1>9. Indexed(o, Vars)
  BY <1>2, <1>3, <1>4, <1>5, <1>6, <1>7 DEF Indexed, InHeap
<1>10. Built(vs, act) = Sifted(o, act)
  BY DEF Built, ns, ix, place
<1> HIDE DEF o
<1>11. Heap(Sifted(o, act), Vars, act) /\ Rearranged(o, Sifted(o, act), Vars)
  BY <1>8, <1>9, SiftedIs DEF Good
<1> QED
  BY <1>6, <1>7, <1>10, <1>11 DEF Rearranged, InHeap
-----------------------------------------------------------------------------
(* pickBranchLit and cancelUntil.                                           *)

RunTake(o, act) ==
  CHOOSE run : run = [n \in 0 .. Len(o.heap) |-> IF n = 0 THEN [picked |-> 0, order |-> o]
                                                 ELSE Take(run[n - 1], act)]

\* Where a run of pickBranchLit may be: what may be branched on is in the heap,
\* or has just been taken out.
TakeStates(V, act) ==
  {r \in [picked : V \union {0}, order : Orders(V)] :
     /\ Heap(r.order, V, act)
     /\ \A v \in V : v \in Unassigned(assigned) => InHeap(r.order, v) \/ v = r.picked}

Ended(r) == r.picked \in Unassigned(assigned) \/ r.order.heap = << >>

\* A variable is taken out, or the loop has ended.
LEMMA TakeIs ==
  ASSUME NEW V, NEW act \in [V -> Int], NEW r \in TakeStates(V, act)
  PROVE  LET t == Take(r, act)
         IN /\ t \in TakeStates(V, act)
            /\ Ended(r) => t = r
            /\ ~ Ended(r) => Len(t.order.heap) = Len(r.order.heap) - 1
<1> DEFINE s == r.order
           first == s.heap[1]
           t == Take(r, act)
           u == RemovedMin(s, act)
<1>1. /\ Heap(s, V, act) /\ s.heap \in Seq(V)
      /\ \A v \in V : v \in Unassigned(assigned) => InHeap(s, v) \/ v = r.picked
  BY DEF TakeStates, Heap, Good, Orders
<1>2. t = IF ~ Ended(r) THEN [picked |-> first, order |-> u] ELSE r
  BY DEF Take, Ended
<1> HIDE DEF s, t, u
<1>3. ASSUME ~ Ended(r)
      PROVE  t \in TakeStates(V, act) /\ Len(t.order.heap) = Len(s.heap) - 1
  <2>1. Len(s.heap) > 0 /\ first \in V /\ r.picked \notin Unassigned(assigned)
    BY <1>1, <1>3 DEF Ended, s
  <2>2. /\ Heap(u, V, act) /\ Len(u.heap) = Len(s.heap) - 1
        /\ \A v \in V : InHeap(u, v) <=> v # first /\ InHeap(s, v)
    BY <1>1, <2>1, RemovedMinIs DEF u
  <2> HIDE DEF first
  <2>3. t = [picked |-> first, order |-> u]
    BY <1>2, <1>3
  <2>4. t.picked = first /\ t.order = u /\ t \in [picked : V \union {0}, order : Orders(V)]
    BY <2>1, <2>2, <2>3 DEF Heap, Good
  <2>5. \A v \in V : v \in Unassigned(assigned) => InHeap(u, v) \/ v = first
    BY <1>1, <2>1, <2>2
  <2> QED
    BY <2>2, <2>4, <2>5 DEF TakeStates
<1> QED
  BY <1>2, <1>3 DEF t, s

\* pickBranchLit: the heap is a heap still, what may be branched on and has not
\* been picked is in it, and if what is picked may not be branched on, nothing
\* may.
LEMMA TakenIs ==
  ASSUME NEW V, NEW act \in [V -> Int], NEW o, Heap(o, V, act), Unassigned(assigned) \subseteq V,
         \A v \in Unassigned(assigned) : InHeap(o, v)
  PROVE  LET r == Taken(o, act)
         IN /\ Heap(r.order, V, act)
            /\ \A v \in Unassigned(assigned) : InHeap(r.order, v) \/ v = r.picked
            /\ r.picked \in Unassigned(assigned) \/ Unassigned(assigned) = {}
<1> DEFINE size == Len(o.heap)
           S == TakeStates(V, act)
           base == [picked |-> 0, order |-> o]
           step == [x \in S \X (1 .. size) |-> Take(x[1], act)]
           run == RunTake(o, act)
<1>1. size \in Nat
  BY PlacesIs DEF Heap
<1>2. base \in S
  BY DEF TakeStates, Heap, Good
<1> HIDE DEF S, base, size, run
<1>3. \A r \in S : Take(r, act) \in S
  BY TakeIs DEF S
<1>4. step \in [S \X (1 .. size) -> S]
  BY <1>3
<1>5. PICK g : IsRun(g, size, S, base, step)
  <2> HIDE DEF step
  <2> QED
    BY <1>1, <1>2, <1>4, Recursion
<1>6. g \in [0 .. size -> S] /\ g[0] = base /\ \A n \in 1 .. size : g[n] = Take(g[n - 1], act)
  <2>1. \A n \in 1 .. size : g[n - 1] \in S
    BY <1>1, <1>5 DEF IsRun
  <2>2. \A n \in 1 .. size : step[<<g[n - 1], n>>] = Take(g[n - 1], act)
    BY <2>1
  <2> HIDE DEF step
  <2> QED
    BY <1>5, <2>2 DEF IsRun
<1>7. g = [n \in 0 .. size |-> IF n = 0 THEN base ELSE Take(g[n - 1], act)]
  <2>1. \A n \in 0 .. size : n # 0 => n \in 1 .. size
    BY <1>1
  <2> QED
    BY <1>6, <2>1
<1>8. run = [n \in 0 .. size |-> IF n = 0 THEN base ELSE Take(run[n - 1], act)]
  BY <1>7 DEF run, RunTake, size, base
<1>9. Taken(o, act) = run[size]
  BY DEF Taken, run, RunTake, size
<1>10. \A n \in 0 .. size - 1 : n + 1 \in 0 .. size /\ run[n + 1] = Take(run[n], act)
  <2>1. \A n \in 0 .. size - 1 : n + 1 \in 0 .. size /\ n + 1 # 0 /\ (n + 1) - 1 = n
    BY <1>1
  <2> QED
    BY <1>8, <2>1
<1> DEFINE T == {n \in 0 .. size :
                   run[n] \in S /\ (Ended(run[n]) \/ Len(run[n].order.heap) = size - n)}
<1>11. \A n \in 0 .. size : n \in T
  <2>1. 0 \in T
    <3>1. run[0] = base /\ 0 \in 0 .. size
      BY <1>1, <1>8
    <3>2. Len(base.order.heap) = size - 0
      BY <1>1 DEF base, size
    <3> QED
      BY <1>2, <3>1, <3>2
  <2>2. ASSUME NEW n \in 0 .. size - 1, n \in T PROVE n + 1 \in T
    <3> DEFINE r == run[n]
               t == run[n + 1]
    <3>1. r \in S /\ (Ended(r) \/ Len(r.order.heap) = size - n) /\ t = Take(r, act)
      BY <1>10, <2>2
    <3> HIDE DEF r, t
    <3>2. t \in S /\ (Ended(r) => t = r) /\ (~ Ended(r) => Len(t.order.heap) = Len(r.order.heap) - 1)
      BY <3>1, TakeIs DEF S
    <3>3. Ended(t) \/ Len(t.order.heap) = size - (n + 1)
      BY <1>1, <3>1, <3>2
    <3> QED
      BY <1>10, <3>2, <3>3 DEF t
  <2> HIDE DEF T
  <2> QED
    BY <1>1, <2>1, <2>2, BoundedInduction
<1> DEFINE r == run[size]
<1>12. r \in S /\ (Ended(r) \/ Len(r.order.heap) = 0)
  BY <1>1, <1>11
<1> HIDE DEF r
<1>13. /\ Heap(r.order, V, act) /\ r.order.heap \in Seq(V)
       /\ \A v \in V : v \in Unassigned(assigned) => InHeap(r.order, v) \/ v = r.picked
  BY <1>12 DEF S, TakeStates, Heap, Good, Orders
<1>14. Ended(r)
  BY <1>12, <1>13 DEF Ended
<1>15. CASE r.order.heap = << >> /\ r.picked \notin Unassigned(assigned)
  <2>1. \A v \in V : ~ InHeap(r.order, v)
    <3>1. Len(r.order.heap) = 0
      BY <1>15
    <3>2. \A v \in V : InHeap(r.order, v) => r.order.indices[v] \in 1 .. Len(r.order.heap)
      BY <1>13, PlacesIs DEF Heap
    <3> QED
      BY <3>1, <3>2
  <2>2. Unassigned(assigned) = {}
    BY <1>13, <1>15, <2>1
  <2> QED
    BY <1>9, <1>13, <2>2 DEF r
<1> QED
  BY <1>9, <1>13, <1>14, <1>15 DEF r, Ended

RunCancel(o, level) ==
  LET gone == Len(assigned) - LevelEnd(level)
  IN CHOOSE run : run = [n \in 0 .. gone |->
                           IF n = 0 THEN o
                           ELSE InsertVarOrder(run[n - 1], activity,
                                               assigned[Len(assigned) + 1 - n].var)]

\* As many entries are kept as a level has, none more than there are.
LEMMA TrailLimIs ==
  ASSUME NEW level, Len(assigned) \in Nat, DOMAIN assigned = 1 .. Len(assigned)
  PROVE  LevelEnd(level) \in 0 .. Len(assigned)
<1> DEFINE size == Len(assigned)
           kept == {n \in DOMAIN assigned : assigned[n].level <= level}
<1>0. size \in Nat /\ DOMAIN assigned = 1 .. size
  OBVIOUS
<1> HIDE DEF size
<1>1. IsFiniteSet(1 .. size) /\ Cardinality(1 .. size) = size
  <2>1. /\ IsFiniteSet(1 .. size)
        /\ Cardinality(1 .. size) = IF 1 > size THEN 0 ELSE size - 1 + 1
    BY <1>0, FS_Interval
  <2> QED
    BY <1>0, <2>1
<1>2. kept \subseteq 1 .. size
  BY <1>0
<1>3. IsFiniteSet(kept) /\ Cardinality(kept) <= Cardinality(1 .. size)
  BY <1>1, <1>2, FS_Subset
<1>4. Cardinality(kept) \in Nat
  BY <1>3, FS_CardinalityType
<1> QED
  BY <1>0, <1>1, <1>3, <1>4 DEF LevelEnd, size

\* cancelUntil: every variable it unassigns is back in the heap, and none
\* leaves it.
LEMMA CancelledIs ==
  ASSUME NEW V, activity \in [V -> Int], NEW o, Heap(o, V, activity), NEW level,
         Len(assigned) \in Nat, DOMAIN assigned = 1 .. Len(assigned),
         \A n \in DOMAIN assigned : assigned[n].var \in V
  PROVE  LET r == Cancelled(o, level)
         IN /\ Heap(r, V, activity)
            /\ \A v \in V : InHeap(o, v) => InHeap(r, v)
            /\ \A n \in LevelEnd(level) + 1 .. Len(assigned) : InHeap(r, assigned[n].var)
<1> DEFINE size == Len(assigned)
           lim == LevelEnd(level)
           gone == size - lim
           S == {r \in Orders(V) : Heap(r, V, activity)}
           Pass(r, n) == InsertVarOrder(r, activity, assigned[size + 1 - n].var)
           step == [x \in S \X (1 .. gone) |-> Pass(x[1], x[2])]
           run == RunCancel(o, level)
<1>1. size \in Nat /\ lim \in 0 .. size
  BY TrailLimIs
<1>2. o \in S
  BY DEF Heap, Good
<1> HIDE DEF size, lim, S, run
<1>3. gone \in Nat /\ \A n \in 1 .. gone : size + 1 - n \in 1 .. size
  BY <1>1
<1> HIDE DEF gone
<1>4. \A n \in 1 .. gone : assigned[size + 1 - n].var \in V
  BY <1>3 DEF size
<1>5. \A r \in S, n \in 1 .. gone :
        /\ Pass(r, n) \in S
        /\ \A v \in V : InHeap(Pass(r, n), v) <=> v = assigned[size + 1 - n].var \/ InHeap(r, v)
  <2> TAKE r \in S, n \in 1 .. gone
  <2> DEFINE x == assigned[size + 1 - n].var
             t == InsertVarOrder(r, activity, x)
  <2>1. x \in V /\ Heap(r, V, activity)
    BY <1>4 DEF S
  <2> HIDE DEF x
  <2>2. Heap(t, V, activity) /\ \A v \in V : InHeap(t, v) <=> v = x \/ InHeap(r, v)
    BY <2>1, InsertVarOrderIs
  <2> QED
    BY <2>2 DEF S, x, Heap, Good
<1> HIDE DEF Pass
<1>6. step \in [S \X (1 .. gone) -> S]
  BY <1>5
<1>7. PICK g : IsRun(g, gone, S, o, step)
  <2> HIDE DEF step
  <2> QED
    BY <1>2, <1>3, <1>6, Recursion
<1>8. g \in [0 .. gone -> S] /\ g[0] = o /\ \A n \in 1 .. gone : g[n] = Pass(g[n - 1], n)
  <2>1. \A n \in 1 .. gone : g[n - 1] \in S
    BY <1>3, <1>7 DEF IsRun
  <2>2. \A n \in 1 .. gone : step[<<g[n - 1], n>>] = Pass(g[n - 1], n)
    BY <2>1
  <2> HIDE DEF step
  <2> QED
    BY <1>7, <2>2 DEF IsRun
<1>9. g = [n \in 0 .. gone |-> IF n = 0 THEN o ELSE Pass(g[n - 1], n)]
  <2>1. \A n \in 0 .. gone : n # 0 => n \in 1 .. gone
    BY <1>3
  <2> QED
    BY <1>8, <2>1
<1>10. run = [n \in 0 .. gone |-> IF n = 0 THEN o ELSE Pass(run[n - 1], n)]
  BY <1>9 DEF run, RunCancel, gone, size, lim, Pass
<1>11. Cancelled(o, level) = run[gone]
  BY DEF Cancelled, run, RunCancel, gone, size, lim
<1>12. \A n \in 0 .. gone - 1 : n + 1 \in 0 .. gone /\ n + 1 \in 1 .. gone /\ run[n + 1] = Pass(run[n], n + 1)
  <2>1. \A n \in 0 .. gone - 1 : n + 1 \in 0 .. gone /\ n + 1 \in 1 .. gone /\ n + 1 # 0 /\ (n + 1) - 1 = n
    BY <1>3
  <2> QED
    BY <1>10, <2>1
<1> DEFINE Back(n) == /\ run[n] \in S
                      /\ \A v \in V : InHeap(o, v) => InHeap(run[n], v)
                      /\ \A m \in 1 .. n : InHeap(run[n], assigned[size + 1 - m].var)
           T == {n \in 0 .. gone : Back(n)}
<1>13. Back(0)
  <2>1. run[0] = o
    BY <1>3, <1>10
  <2> QED
    BY <1>2, <2>1
<1>14. ASSUME NEW n \in 0 .. gone - 1, Back(n) PROVE Back(n + 1)
  <2>1. n + 1 \in 1 .. gone /\ run[n + 1] = Pass(run[n], n + 1)
    BY <1>12
  <2>2. /\ run[n + 1] \in S
        /\ \A v \in V : InHeap(run[n + 1], v) <=> v = assigned[size + 1 - (n + 1)].var \/ InHeap(run[n], v)
    BY <1>5, <1>14, <2>1
  <2>3. \A m \in 1 .. n + 1 : m \in 1 .. gone /\ (m \in 1 .. n \/ m = n + 1)
    BY <1>3
  <2>4. \A m \in 1 .. n + 1 : InHeap(run[n + 1], assigned[size + 1 - m].var)
    <3> TAKE m \in 1 .. n + 1
    <3>1. assigned[size + 1 - m].var \in V
      BY <1>4, <2>3
    <3>2. CASE m = n + 1
      BY <2>2, <3>1, <3>2
    <3>3. CASE m \in 1 .. n
      BY <1>14, <2>2, <3>1, <3>3
    <3> QED
      BY <2>3, <3>2, <3>3
  <2> QED
    BY <1>14, <2>2, <2>4
<1> HIDE DEF Back
<1>15. \A n \in 0 .. gone : n \in T
  <2>1. 0 \in T /\ \A n \in 0 .. gone - 1 : n \in T => n + 1 \in T
    BY <1>3, <1>12, <1>13, <1>14
  <2> HIDE DEF T
  <2> QED
    BY <1>3, <2>1, BoundedInduction
<1>16. Back(gone)
  BY <1>3, <1>15
<1>17. \A n \in lim + 1 .. size : size + 1 - n \in 1 .. gone /\ size + 1 - (size + 1 - n) = n
  BY <1>1 DEF gone
<1>18. \A n \in lim + 1 .. size : InHeap(run[gone], assigned[n].var)
  <2> TAKE n \in lim + 1 .. size
  <2> DEFINE m == size + 1 - n
  <2>1. m \in 1 .. gone /\ size + 1 - m = n
    BY <1>17
  <2> HIDE DEF m
  <2> QED
    BY <1>16, <2>1 DEF Back
<1> QED
  BY <1>11, <1>16, <1>18 DEF Back, S, size, lim
-----------------------------------------------------------------------------
(* The invariant.                                                           *)

Entries == [var : Vars, level : Nat]

Types ==
  /\ activity \in Seq(Nat) /\ var_inc \in Nat
  /\ assigned \in Seq(Entries)

\* None that may be branched on is out of the heap, and the heap is in order.
IInv ==
  /\ Types
  /\ Heap(order, Vars, activity)
  /\ \A v \in Vars : MayBranch(v) => InHeap(order, v)
  /\ mode = "model" => \A v \in Vars : ~ MayBranch(v)

\* What the invariant says of the data, as the lemmas above ask for it.
LEMMA DataIs ==
  ASSUME Types
  PROVE  /\ Len(activity) \in Nat /\ Vars = 1 .. Len(activity)
         /\ activity \in [Vars -> Nat] /\ activity \in [Vars -> Int]
         /\ activity \in Seq(Int)
         /\ Len(assigned) \in Nat /\ DOMAIN assigned = 1 .. Len(assigned)
         /\ \A n \in DOMAIN assigned : assigned[n] \in Entries
         /\ LevelNow \in Nat
         /\ \A trail : Unassigned(trail) \subseteq Vars
<1>1. /\ Len(activity) \in Nat /\ Vars = 1 .. Len(activity)
      /\ activity \in [Vars -> Nat] /\ activity \in [Vars -> Int]
      /\ activity \in Seq(Int)
  <2>1. activity \in Seq(Nat)
    BY DEF Types
  <2> QED
    BY <2>1 DEF Vars
<1>2. /\ Len(assigned) \in Nat /\ DOMAIN assigned = 1 .. Len(assigned)
      /\ \A n \in DOMAIN assigned : assigned[n] \in Entries
  BY DEF Types
<1>3. LevelNow \in Nat
  <2>1. assigned # << >> => Len(assigned) \in DOMAIN assigned
    BY <1>2 DEF Types
  <2> QED
    BY <1>2, <2>1 DEF LevelNow, Entries
<1> QED
  BY <1>1, <1>2, <1>3 DEF Unassigned

\* What an entry more on the trail does.
LEMMA Enqueued ==
  ASSUME Types, NEW t \in Seq(Entries), NEW v \in Vars, NEW level \in Nat
  PROVE  LET r == Append(t, [var |-> v, level |-> level])
         IN /\ r \in Seq(Entries)
            /\ Unassigned(r) = Unassigned(t) \ {v}
<1> DEFINE e == [var |-> v, level |-> level]
           r == Append(t, e)
<1>1. e \in Entries /\ e.var = v
  BY DEF Entries
<1> HIDE DEF e
<1>2. r \in Seq(Entries)
  BY <1>1
<1>3. /\ DOMAIN r = DOMAIN t \union {Len(t) + 1} /\ r[Len(t) + 1] = e
      /\ \A n \in DOMAIN t : r[n] = t[n]
  <2>1. Len(t) \in Nat /\ DOMAIN t = 1 .. Len(t) /\ DOMAIN r = 1 .. Len(t) + 1
    BY <1>1
  <2> QED
    BY <1>1, <2>1
<1> HIDE DEF r
<1>4. {r[n].var : n \in DOMAIN r} = {t[n].var : n \in DOMAIN t} \union {v}
  BY <1>1, <1>3
<1>5. Unassigned(r) = Unassigned(t) \ {v}
  BY <1>4 DEF Unassigned
<1> QED
  BY <1>2, <1>5 DEF r, e

\* What backtracking to a level keeps, and that all it unassigns was beyond it.
LEMMA KeptIs ==
  ASSUME Types, NEW level
  PROVE  /\ TrailUntil(level) \in Seq(Entries)
         /\ \A v \in Unassigned(TrailUntil(level)) :
              \/ v \in Unassigned(assigned)
              \/ \E n \in LevelEnd(level) + 1 .. Len(assigned) : assigned[n].var = v
<1> DEFINE size == Len(assigned)
           lim == LevelEnd(level)
           kept == TrailUntil(level)
<1>1. size \in Nat /\ DOMAIN assigned = 1 .. size /\ assigned \in Seq(Entries)
  BY DataIs DEF Types
<1>2. lim \in 0 .. size
  BY <1>1, TrailLimIs
<1> HIDE DEF size, lim
<1>3. /\ kept \in Seq(Entries) /\ DOMAIN kept = 1 .. lim
      /\ \A n \in 1 .. lim : kept[n] = assigned[n]
  <2>1. kept = SubSeq(assigned, 1, lim)
    BY DEF TrailUntil, lim
  <2> HIDE DEF kept
  <2>2. kept \in Seq(Entries) /\ Len(kept) = lim
    BY <1>1, <1>2, <2>1, PrefixIs DEF size
  <2> QED
    BY <1>1, <1>2, <2>1, <2>2 DEF size
<1> HIDE DEF kept
<1>4. ASSUME NEW v \in Unassigned(kept), v \notin Unassigned(assigned)
      PROVE  \E n \in lim + 1 .. size : assigned[n].var = v
  <2>1. PICK n \in 1 .. size : assigned[n].var = v
    BY <1>1, <1>4 DEF Unassigned
  <2>2. n \notin 1 .. lim
    BY <1>3, <1>4, <2>1 DEF Unassigned
  <2>3. n \in lim + 1 .. size
    BY <1>1, <1>2, <2>2
  <2> QED
    BY <2>1, <2>3
<1> QED
  BY <1>3, <1>4 DEF kept, lim, size

\* cancelUntil under the invariant: a heap, and no variable it leaves
\* unassigned is out of it.
LEMMA BacktrackIs ==
  ASSUME IInv, NEW level
  PROVE  /\ Heap(Cancelled(order, level), Vars, activity)
         /\ TrailUntil(level) \in Seq(Entries)
         /\ \A v \in Unassigned(TrailUntil(level)) : InHeap(Cancelled(order, level), v)
<1>1. /\ Types /\ Heap(order, Vars, activity)
      /\ \A v \in Unassigned(assigned) : v \in Vars /\ InHeap(order, v)
  BY DEF IInv, MayBranch, Unassigned
<1>2. /\ activity \in [Vars -> Int]
      /\ Len(assigned) \in Nat /\ DOMAIN assigned = 1 .. Len(assigned)
      /\ \A n \in DOMAIN assigned : assigned[n].var \in Vars
  BY <1>1, DataIs DEF Entries
<1> DEFINE r == Cancelled(order, level)
<1>3. /\ Heap(r, Vars, activity)
      /\ \A v \in Vars : InHeap(order, v) => InHeap(r, v)
      /\ \A n \in LevelEnd(level) + 1 .. Len(assigned) : InHeap(r, assigned[n].var)
  BY <1>1, <1>2, CancelledIs
<1> HIDE DEF r
<1>4. /\ TrailUntil(level) \in Seq(Entries)
      /\ \A v \in Unassigned(TrailUntil(level)) :
           \/ v \in Unassigned(assigned)
           \/ \E n \in LevelEnd(level) + 1 .. Len(assigned) : assigned[n].var = v
  BY <1>1, KeptIs
<1> QED
  BY <1>1, <1>3, <1>4 DEF r
-----------------------------------------------------------------------------
(* The actions.                                                             *)

LEMMA StartIs ==
  ASSUME OrderInit
  PROVE  IInv
<1>1. /\ activity = << >> /\ var_inc = 1 /\ assigned = << >> /\ mode = "search"
      /\ order.heap = << >> /\ order.indices = << >>
      /\ order = [heap |-> << >>, indices |-> << >>]
  BY DEF OrderInit
<1>2. Vars = {}
  BY <1>1 DEF Vars
<1>3. << >> \in [{} -> Nat] /\ DOMAIN << >> = {}
  OBVIOUS
<1>4. Heap(order, Vars, activity)
  BY <1>1, <1>2, <1>3 DEF Heap, Good, Orders, Indexed, SortedFrom, Keys
<1> QED
  BY <1>1, <1>2, <1>4 DEF IInv, Types

\* A heap over more variables: those that are new are out of it.
LEMMA Widened ==
  ASSUME NEW V, NEW W, V \subseteq W, NEW a \in [V -> Int], NEW b \in [W -> Int],
         \A v \in V : b[v] = a[v], NEW o, Heap(o, V, a),
         NEW ix \in [W -> Nat], \A v \in W : ix[v] = IF v \in V THEN o.indices[v] ELSE 0
  PROVE  LET r == [heap |-> o.heap, indices |-> ix]
         IN Heap(r, W, b) /\ \A v \in W : InHeap(r, v) <=> v \in V /\ InHeap(o, v)
<1> DEFINE r == [heap |-> o.heap, indices |-> ix]
<1>1. /\ Len(o.heap) \in Nat /\ DOMAIN o.heap = 1 .. Len(o.heap)
      /\ o.heap \in Seq(V) /\ o.indices \in [V -> Nat]
      /\ \A n \in 1 .. Len(o.heap) : o.heap[n] \in V /\ o.indices[o.heap[n]] = n
      /\ \A v \in V : InHeap(o, v) =>
           o.indices[v] \in 1 .. Len(o.heap) /\ o.heap[o.indices[v]] = v
  BY PlacesIs, KeysAre DEF Heap
<1>2. r.heap = o.heap /\ r.indices = ix
  OBVIOUS
<1>3. r \in Orders(W)
  <2>1. o.heap \in Seq(W)
    BY <1>1
  <2> QED
    BY <2>1 DEF Orders
<1> HIDE DEF r
<1>4. \A v \in W : InHeap(r, v) <=> v \in V /\ InHeap(o, v)
  BY <1>2 DEF InHeap
<1>5. Indexed(r, W)
  <2>1. \A n \in 1 .. Len(o.heap) : ix[o.heap[n]] = n
    BY <1>1
  <2>2. \A v \in W : InHeap(r, v) => ix[v] \in 1 .. Len(o.heap) /\ o.heap[ix[v]] = v
    <3> TAKE v \in W
    <3> HAVE InHeap(r, v)
    <3>1. v \in V /\ InHeap(o, v) /\ ix[v] = o.indices[v]
      BY <1>4
    <3> QED
      BY <1>1, <3>1
  <2> QED
    BY <1>1, <1>2, <2>1, <2>2 DEF Indexed
<1>6. Keys(r, b) = Keys(o, a)
  BY <1>1, <1>2 DEF Keys
<1> QED
  BY <1>3, <1>4, <1>5, <1>6 DEF Heap, Good, r

LEMMA NewVarStep ==
  ASSUME IInv, NewVar
  PROVE  IInv'
<1> DEFINE x == Len(activity) + 1
           known == [v \in 1 .. x |-> IF v = x THEN 0 ELSE order.indices[v]]
           wide == [heap |-> order.heap, indices |-> known]
           W == 1 .. x
<1>1. Types /\ Heap(order, Vars, activity) /\ \A v \in Vars : MayBranch(v) => InHeap(order, v)
  BY DEF IInv
<1>2. /\ Len(activity) \in Nat /\ Vars = 1 .. Len(activity) /\ activity \in Seq(Nat)
      /\ activity \in [Vars -> Nat] /\ activity \in [Vars -> Int]
      /\ assigned \in Seq(Entries) /\ var_inc \in Nat
  BY <1>1, DataIs DEF Types
<1>3. order \in Orders(Vars) /\ order.indices \in [Vars -> Nat]
  BY <1>1 DEF Heap, Good, Orders
<1>4. PICK small \in {0, 1} :
        /\ activity' = Append(activity, small)
        /\ order' = InsertVarOrder([order EXCEPT !.indices = known], activity', x)
  BY DEF NewVar
<1>5. /\ mode = "search" /\ mode' = "search" /\ var_inc' = var_inc /\ assigned' = assigned
  BY DEF NewVar
<1>6. [order EXCEPT !.indices = known] = wide
  <2> HIDE DEF known
  <2> QED
    BY <1>3 DEF Orders
<1>7. /\ activity' \in Seq(Nat) /\ Len(activity') = x /\ DOMAIN activity' = W
      /\ \A v \in Vars : activity'[v] = activity[v]
  BY <1>2, <1>4
<1>8. Vars' = W /\ activity' \in [W -> Int] /\ x \in W /\ x \notin Vars /\ Vars \subseteq W
      /\ \A v \in W : v \in Vars \/ v = x
  BY <1>2, <1>7 DEF Vars
<1>9. known \in [W -> Nat] /\ \A v \in W : known[v] = IF v \in Vars THEN order.indices[v] ELSE 0
  BY <1>3, <1>8
<1> HIDE DEF known, W, x
<1>10. Heap(wide, W, activity') /\ \A v \in W : InHeap(wide, v) <=> v \in Vars /\ InHeap(order, v)
  <2> DEFINE V == Vars
             b == activity'
             ix == known
  <2>1. /\ V \subseteq W /\ activity \in [V -> Int] /\ b \in [W -> Int]
        /\ \A v \in V : b[v] = activity[v]
        /\ Heap(order, V, activity) /\ ix \in [W -> Nat]
        /\ \A v \in W : ix[v] = IF v \in V THEN order.indices[v] ELSE 0
    BY <1>1, <1>2, <1>7, <1>8, <1>9
  <2>2. wide = [heap |-> order.heap, indices |-> ix]
    OBVIOUS
  <2> HIDE DEF V, b, ix, wide
  <2>3. Heap(wide, W, b) /\ \A v \in W : InHeap(wide, v) <=> v \in V /\ InHeap(order, v)
    BY <2>1, <2>2, Widened
  <2> QED
    BY <2>3 DEF V, b
<1> HIDE DEF wide
<1>11. Heap(order', W, activity') /\ \A v \in W : InHeap(order', v) <=> v = x \/ InHeap(wide, v)
  <2> DEFINE b == activity'
  <2>1. b \in [W -> Int] /\ Heap(wide, W, b) /\ x \in W /\ order' = InsertVarOrder(wide, b, x)
    BY <1>4, <1>6, <1>8, <1>10
  <2> HIDE DEF b
  <2>2. LET r == InsertVarOrder(wide, b, x)
        IN Heap(r, W, b) /\ \A v \in W : InHeap(r, v) <=> v = x \/ InHeap(wide, v)
    BY <2>1, InsertVarOrderIs
  <2> QED
    BY <2>1, <2>2 DEF b
<1>12. Types'
  <2>1. \A e \in Entries : e \in [var : W, level : Nat]
    BY <1>8 DEF Entries
  <2>2. assigned \in Seq([var : W, level : Nat])
    <3> DEFINE wider == [var : W, level : Nat]
    <3>1. Entries \subseteq wider
      BY <2>1
    <3> HIDE DEF wider
    <3>2. assigned \in Seq(wider)
      BY <1>2, <3>1
    <3> QED
      BY <3>2 DEF wider
  <2> QED
    BY <1>2, <1>5, <1>7, <1>8, <2>2 DEF Types, Entries
<1>13. \A v \in Vars' : MayBranch(v)' => InHeap(order, v)'
  <2> TAKE v \in Vars'
  <2>1. CASE v = x
    BY <1>8, <1>11, <2>1 DEF InHeap
  <2>2. CASE v \in Vars
    <3>1. MayBranch(v)' => MayBranch(v)
      BY <1>5, <2>2 DEF MayBranch, Unassigned
    <3> QED
      BY <1>1, <1>8, <1>10, <1>11, <2>2, <3>1 DEF InHeap
  <2> QED
    BY <1>8, <2>1, <2>2
<1> QED
  BY <1>5, <1>8, <1>11, <1>12, <1>13 DEF IInv

\* A variable assigned while the heap stays.
LEMMA AssignStep ==
  ASSUME IInv, NEW v \in Vars, NEW level \in Nat, mode' = "search",
         assigned' = Append(assigned, [var |-> v, level |-> level]),
         UNCHANGED <<order, activity, var_inc>>
  PROVE  IInv'
<1>1. Types /\ Vars' = Vars /\ Entries' = Entries /\ assigned \in Seq(Entries)
  BY DEF IInv, Types, Vars, Entries
<1>2. assigned' \in Seq(Entries) /\ Unassigned(assigned') = Unassigned(assigned) \ {v}
  BY <1>1, Enqueued
<1>3. Types'
  BY <1>1, <1>2 DEF Types
<1>4. \A u \in Vars : MayBranch(u)' => MayBranch(u)
  BY <1>1, <1>2 DEF MayBranch, Unassigned
<1> QED
  BY <1>1, <1>3, <1>4 DEF IInv, InHeap

LEMMA PickRandomStep ==
  ASSUME IInv, NEW v \in Vars, PickRandom(v)
  PROVE  IInv'
<1>1. LevelNow + 1 \in Nat
  BY DataIs DEF IInv
<1>2. /\ mode' = "search" /\ assigned' = Append(assigned, [var |-> v, level |-> LevelNow + 1])
      /\ UNCHANGED <<order, activity, var_inc>>
  BY DEF PickRandom, Branched
<1> QED
  BY <1>1, <1>2, AssignStep

LEMMA ImplyStep ==
  ASSUME IInv, NEW v \in Vars, Imply(v)
  PROVE  IInv'
<1>1. LevelNow \in Nat
  BY DataIs DEF IInv
<1>2. /\ mode' = "search" /\ assigned' = Append(assigned, [var |-> v, level |-> LevelNow])
      /\ UNCHANGED <<order, activity, var_inc>>
  BY DEF Imply
<1> QED
  BY <1>1, <1>2, AssignStep

LEMMA PickMostActiveStep ==
  ASSUME IInv, PickMostActive
  PROVE  IInv'
<1> DEFINE taken == Taken(order, activity)
<1>1. /\ Types /\ Heap(order, Vars, activity)
      /\ \A v \in Unassigned(assigned) : InHeap(order, v)
  BY DEF IInv, MayBranch, Unassigned
<1>2. activity \in [Vars -> Int] /\ Unassigned(assigned) \subseteq Vars /\ LevelNow + 1 \in Nat
  BY <1>1, DataIs
<1>3. /\ Heap(taken.order, Vars, activity)
      /\ \A v \in Unassigned(assigned) : InHeap(taken.order, v) \/ v = taken.picked
      /\ taken.picked \in Unassigned(assigned) \/ Unassigned(assigned) = {}
  BY <1>1, <1>2, TakenIs
<1>4. /\ order' = taken.order /\ activity' = activity /\ var_inc' = var_inc /\ mode = "search"
      /\ IF MayBranch(taken.picked) THEN Branched(taken.picked) /\ UNCHANGED mode
         ELSE mode' = "model" /\ UNCHANGED assigned
  BY DEF PickMostActive
<1> HIDE DEF taken
<1>5. Vars' = Vars /\ Entries' = Entries
  BY <1>4 DEF Vars, Entries
<1>6. Heap(order, Vars, activity)'
  BY <1>3, <1>4, <1>5
<1>7. CASE MayBranch(taken.picked)
  <2> DEFINE v == taken.picked
  <2>1. v \in Vars /\ mode' = "search" /\ assigned' = Append(assigned, [var |-> v, level |-> LevelNow + 1])
    BY <1>2, <1>4, <1>7 DEF MayBranch, Branched
  <2> HIDE DEF v
  <2>2. assigned' \in Seq(Entries) /\ Unassigned(assigned') = Unassigned(assigned) \ {v}
    BY <1>1, <1>2, <2>1, Enqueued DEF Types
  <2>3. Types'
    BY <1>1, <1>4, <1>5, <2>2 DEF Types
  <2>4. \A u \in Vars : MayBranch(u)' => InHeap(order, u)'
    <3> TAKE u \in Vars
    <3>1. MayBranch(u)' => u \in Unassigned(assigned) /\ u # v
      BY <1>5, <2>2 DEF MayBranch, Unassigned
    <3> QED
      BY <1>3, <1>4, <3>1 DEF v, InHeap
  <2> QED
    BY <1>5, <1>6, <2>1, <2>3, <2>4 DEF IInv
<1>8. CASE ~ MayBranch(taken.picked)
  <2>1. mode' = "model" /\ assigned' = assigned /\ Unassigned(assigned) = {}
    BY <1>3, <1>4, <1>8 DEF MayBranch
  <2>2. \A u \in Vars : ~ MayBranch(u)'
    BY <1>5, <2>1 DEF MayBranch, Unassigned
  <2>3. Types'
    BY <1>1, <1>4, <1>5, <2>1 DEF Types
  <2> QED
    BY <1>5, <1>6, <2>1, <2>2, <2>3 DEF IInv
<1> QED
  BY <1>7, <1>8

LEMMA BackjumpStep ==
  ASSUME IInv, NEW v \in Vars, NEW level \in 0 .. LevelNow - 1, Backjump(level, v)
  PROVE  IInv'
<1> DEFINE kept == TrailUntil(level)
           back == Cancelled(order, level)
<1>1. /\ Heap(back, Vars, activity) /\ kept \in Seq(Entries)
      /\ \A u \in Unassigned(kept) : InHeap(back, u)
  BY BacktrackIs
<1>2. Types /\ LevelNow \in Nat /\ level \in Nat
  BY DataIs DEF IInv
<1>3. /\ order' = back /\ assigned' = Append(kept, [var |-> v, level |-> level])
      /\ var_inc' = IF var_inc < MaxInc THEN var_inc + 1 ELSE var_inc
      /\ mode' = "search" /\ activity' = activity
  BY DEF Backjump
<1> HIDE DEF kept, back
<1>4. Vars' = Vars /\ Entries' = Entries
  BY <1>3 DEF Vars, Entries
<1>5. assigned' \in Seq(Entries) /\ Unassigned(assigned') = Unassigned(kept) \ {v}
  BY <1>1, <1>2, <1>3, Enqueued
<1>6. Types'
  BY <1>2, <1>3, <1>4, <1>5 DEF Types
<1>7. \A u \in Vars : MayBranch(u)' => InHeap(order, u)'
  <2> TAKE u \in Vars
  <2>1. MayBranch(u)' => u \in Unassigned(kept)
    BY <1>4, <1>5 DEF MayBranch, Unassigned
  <2> QED
    BY <1>1, <1>3, <2>1 DEF InHeap
<1> QED
  BY <1>1, <1>3, <1>4, <1>6, <1>7 DEF IInv

LEMMA RestartStep ==
  ASSUME IInv, CancelAll
  PROVE  IInv'
<1> DEFINE kept == TrailUntil(0)
           back == Cancelled(order, 0)
<1>1. /\ Heap(back, Vars, activity) /\ kept \in Seq(Entries)
      /\ \A u \in Unassigned(kept) : InHeap(back, u)
  BY BacktrackIs
<1>2. order' = back /\ assigned' = kept /\ mode' = "search" /\ activity' = activity /\ var_inc' = var_inc
  BY DEF CancelAll
<1> HIDE DEF kept, back
<1>3. Vars' = Vars /\ Entries' = Entries
  BY <1>2 DEF Vars, Entries
<1>4. Types'
  BY <1>1, <1>2, <1>3 DEF Types, IInv
<1>5. \A u \in Vars : MayBranch(u)' => InHeap(order, u)'
  BY <1>1, <1>2, <1>3 DEF MayBranch, Unassigned, InHeap
<1> QED
  BY <1>1, <1>2, <1>3, <1>4, <1>5 DEF IInv

LEMMA RebuildStep ==
  ASSUME IInv, RebuildOrderHeap
  PROVE  IInv'
<1> DEFINE vs == {v \in Vars : MayBranch(v)}
           built == Built(vs, activity)
<1>1. Types /\ activity \in Seq(Int) /\ activity \in [Vars -> Int] /\ vs \subseteq Vars
  BY DataIs DEF IInv
<1>2. Heap(built, Vars, activity) /\ \A v \in Vars : InHeap(built, v) <=> v \in vs
  <2> HIDE DEF vs
  <2> QED
    BY <1>1, BuiltIs
<1>3. /\ order' = built /\ mode = "search" /\ UNCHANGED <<mode, activity, var_inc, assigned>>
  BY DEF RebuildOrderHeap
<1> HIDE DEF built
<1>4. Vars' = Vars /\ Entries' = Entries
  BY <1>3 DEF Vars, Entries
<1>5. Types'
  BY <1>1, <1>3, <1>4 DEF Types
<1>6. \A v \in Vars : MayBranch(v)' <=> MayBranch(v)
  BY <1>3, <1>4 DEF MayBranch, Unassigned
<1>7. \A v \in Vars : MayBranch(v)' => InHeap(order, v)'
  BY <1>2, <1>3, <1>6 DEF InHeap
<1> QED
  BY <1>2, <1>3, <1>4, <1>5, <1>7 DEF IInv

LEMMA ConflictStep ==
  ASSUME IInv, Conflict
  PROVE  IInv'
<1>1. mode' = "analyze" /\ UNCHANGED <<order, activity, var_inc, assigned>>
  BY DEF Conflict
<1>2. Vars' = Vars /\ Entries' = Entries
  BY <1>1 DEF Vars, Entries
<1> QED
  BY <1>1, <1>2 DEF IInv, Types, MayBranch, Unassigned, InHeap

\* Division keeps the order of naturals.
LEMMA DivisionIs ==
  ASSUME NEW s \in Nat \ {0}
  PROVE  /\ \A a \in Nat : a \div s \in Nat
         /\ \A a, b \in Nat : a <= b => a \div s <= b \div s
OBVIOUS

\* A heap stays one while no activity overtakes another.
LEMMA Rescaled ==
  ASSUME NEW V, NEW a \in [V -> Int], NEW b \in [V -> Int], NEW o, Heap(o, V, a),
         \A u, v \in V : a[u] <= a[v] => b[u] <= b[v]
  PROVE  Heap(o, V, b)
<1>1. /\ Len(o.heap) \in Nat /\ DOMAIN o.heap = 1 .. Len(o.heap)
      /\ \A n \in 1 .. Len(o.heap) : o.heap[n] \in V
      /\ Good(o, V) /\ SortedFrom(Keys(o, a), 1)
  BY PlacesIs, KeysAre DEF Heap
<1>2. ASSUME NEW n \in 1 .. Len(o.heap), n > 1, n \div 2 >= 1
      PROVE  b[o.heap[n]] <= b[o.heap[n \div 2]]
  <2>1. n \div 2 \in 1 .. Len(o.heap)
    BY <1>1, <1>2
  <2>2. a[o.heap[n]] <= a[o.heap[n \div 2]]
    BY <1>1, <1>2, <2>1 DEF SortedFrom, Keys
  <2> QED
    BY <1>1, <2>1, <2>2
<1>3. SortedFrom(Keys(o, b), 1)
  <2> SUFFICES ASSUME NEW n \in 1 .. Len(o.heap), n > 1, n \div 2 >= 1
               PROVE  Keys(o, b)[n] <= Keys(o, b)[n \div 2]
    BY <1>1 DEF SortedFrom, Keys
  <2>1. n \div 2 \in 1 .. Len(o.heap)
    BY <1>1
  <2> QED
    BY <1>1, <1>2, <2>1 DEF Keys
<1> QED
  BY <1>1, <1>3 DEF Heap

\* One activity that has grown may have to go up, from its place on.
LEMMA Grown ==
  ASSUME NEW V, NEW a \in [V -> Int], NEW b \in [V -> Int], NEW o, Heap(o, V, a), NEW v \in V,
         \A u, w \in V \ {v} : a[u] <= a[w] => b[u] <= b[w],
         \A u \in V \ {v} : a[u] <= a[v] => b[u] <= b[v],
         InHeap(o, v)
  PROVE  o.indices[v] \in DOMAIN o.heap /\ UpKeys(Keys(o, b), o.indices[v])
<1> DEFINE size == Len(o.heap)
           at == o.indices[v]
           k == Keys(o, a)
           l == Keys(o, b)
<1>1. /\ size \in Nat /\ DOMAIN o.heap = 1 .. size
      /\ \A n \in 1 .. size : o.heap[n] \in V /\ o.indices[o.heap[n]] = n
      /\ at \in 1 .. size /\ o.heap[at] = v
  BY PlacesIs, KeysAre DEF Heap
<1>2. /\ DOMAIN k = 1 .. size /\ DOMAIN l = 1 .. size
      /\ \A n \in 1 .. size : k[n] = a[o.heap[n]] /\ l[n] = b[o.heap[n]] /\ k[n] \in Int /\ l[n] \in Int
  BY <1>1 DEF Keys
<1>3. \A n \in 1 .. size : n > 1 =>
        n \div 2 \in 1 .. size /\ n \div 2 < n /\ n \div 2 >= 1 /\ k[n] <= k[n \div 2]
  <2> TAKE n \in 1 .. size
  <2>1. n > 1 => n \div 2 \in 1 .. size /\ n \div 2 < n /\ n \div 2 >= 1
    BY <1>1
  <2> QED
    BY <1>2, <2>1 DEF Heap, SortedFrom
<1> HIDE DEF size, k, l, at
<1>4. \A n \in 1 .. size : n # at => o.heap[n] \in V \ {v}
  BY <1>1 DEF at
<1>5. \A m, n \in 1 .. size : m # at /\ k[m] <= k[n] => l[m] <= l[n]
  <2> TAKE m, n \in 1 .. size
  <2>1. CASE n = at /\ m # at
    BY <1>1, <1>2, <1>4, <2>1
  <2>2. CASE n # at /\ m # at
    <3>1. /\ o.heap[m] \in V \ {v} /\ o.heap[n] \in V \ {v}
          /\ k[m] = a[o.heap[m]] /\ k[n] = a[o.heap[n]]
          /\ l[m] = b[o.heap[m]] /\ l[n] = b[o.heap[n]]
      BY <1>2, <1>4, <2>2
    <3> QED
      BY <3>1
  <2> QED
    BY <2>1, <2>2
<1> SUFFICES ASSUME NEW n \in 1 .. size, n > 1
             PROVE  /\ n # at => l[n] <= l[n \div 2]
                    /\ n \div 2 = at /\ at > 1 => l[n] <= l[at \div 2]
  BY <1>1, <1>2 DEF UpKeys, at, l
<1>6. n # at => l[n] <= l[n \div 2]
  BY <1>3, <1>5
<1>7. ASSUME n \div 2 = at, at > 1 PROVE l[n] <= l[at \div 2]
  <2>1. at \in 1 .. size /\ at \div 2 \in 1 .. size /\ k[at] <= k[at \div 2] /\ k[n] <= k[at] /\ n # at
    <3>1. at \in 1 .. size /\ k[n] <= k[at] /\ at < n
      BY <1>1, <1>3, <1>7
    <3>2. at \div 2 \in 1 .. size /\ k[at] <= k[at \div 2]
      BY <1>3, <1>7, <3>1
    <3> QED
      BY <1>1, <3>1, <3>2
  <2>2. k[n] \in Int /\ k[at] \in Int /\ k[at \div 2] \in Int
    BY <1>2, <2>1
  <2>3. k[n] <= k[at \div 2]
    BY <2>1, <2>2
  <2> QED
    BY <1>5, <2>1, <2>3
<1> QED
  BY <1>6, <1>7

LEMMA BumpStep ==
  ASSUME IInv, NEW v \in Vars, Bump(v)
  PROVE  IInv'
<1> DEFINE bumped == [activity EXCEPT ![v] = @ + var_inc]
           rescale == bumped[v] > Limit
           scaled == [u \in Vars |-> bumped[u] \div Scale]
           act == IF rescale THEN scaled ELSE bumped
<1>1. /\ Types /\ Heap(order, Vars, activity)
      /\ \A u \in Vars : MayBranch(u) => InHeap(order, u)
  BY DEF IInv
<1>2. /\ activity \in [Vars -> Nat] /\ activity \in [Vars -> Int] /\ var_inc \in Nat
      /\ activity \in Seq(Nat) /\ Len(activity) \in Nat /\ Vars = 1 .. Len(activity)
  BY <1>1, DataIs DEF Types
<1>3. Scale \in Nat \ {0}
  BY ScaleAssumption
<1>4. /\ activity' = act
      /\ var_inc' = IF rescale /\ var_inc >= Scale THEN var_inc \div Scale
                    ELSE IF rescale THEN 1 ELSE var_inc
      /\ order' = IF InHeap(order, v) THEN PercolateUp(order, activity', order.indices[v])
                  ELSE order
      /\ mode = "analyze" /\ mode' = mode /\ assigned' = assigned
  BY DEF Bump
<1>5. /\ bumped \in [Vars -> Nat] /\ bumped[v] = activity[v] + var_inc
      /\ \A u \in Vars \ {v} : bumped[u] = activity[u]
  BY <1>2
<1> HIDE DEF bumped, rescale
<1>6. /\ scaled \in [Vars -> Nat]
      /\ \A u, w \in Vars : bumped[u] <= bumped[w] => scaled[u] <= scaled[w]
  BY <1>3, <1>5, DivisionIs
<1> HIDE DEF scaled
<1>7. /\ act \in [Vars -> Nat] /\ act \in [Vars -> Int]
      /\ \A u, w \in Vars : bumped[u] <= bumped[w] => act[u] <= act[w]
  BY <1>5, <1>6
<1> HIDE DEF act
<1>8. act \in Seq(Nat) /\ DOMAIN act = Vars
  BY <1>2, <1>7
<1>9. Vars' = Vars /\ Entries' = Entries
  BY <1>4, <1>8 DEF Vars, Entries
<1>10. var_inc' \in Nat
  BY <1>2, <1>3, <1>4, DivisionIs
<1>11. Types'
  BY <1>1, <1>4, <1>8, <1>9, <1>10 DEF Types
<1>12. /\ \A u, w \in Vars \ {v} : activity[u] <= activity[w] => act[u] <= act[w]
       /\ \A u \in Vars \ {v} : activity[u] <= activity[v] => act[u] <= act[v]
  <2>1. \A u \in Vars \ {v} : activity[u] <= activity[v] => bumped[u] <= bumped[v]
    BY <1>2, <1>5
  <2> QED
    BY <1>5, <1>7, <2>1
<1>13. CASE InHeap(order, v)
  <2> DEFINE at == order.indices[v]
             r == PercolateUp(order, act, at)
  <2>1. at \in DOMAIN order.heap /\ UpKeys(Keys(order, act), at)
    BY <1>1, <1>2, <1>7, <1>12, <1>13, Grown
  <2>2. Good(order, Vars)
    BY <1>1 DEF Heap
  <2> HIDE DEF at
  <2>3. Good(r, Vars) /\ Rearranged(order, r, Vars) /\ SortedFrom(Keys(r, act), 1)
    BY <1>7, <2>1, <2>2, PercolateUpIs
  <2>4. order' = r
    BY <1>4, <1>13 DEF at
  <2> HIDE DEF r
  <2>5. Heap(order, Vars, activity)'
    BY <1>4, <1>9, <2>3, <2>4 DEF Heap
  <2>6. \A u \in Vars : MayBranch(u)' => InHeap(order, u)'
    BY <1>1, <1>4, <1>9, <2>3, <2>4 DEF MayBranch, Unassigned, InHeap, Rearranged
  <2> QED
    BY <1>4, <1>9, <1>11, <2>5, <2>6 DEF IInv
<1>14. CASE ~ InHeap(order, v)
  <2>1. order' = order
    BY <1>4, <1>14
  <2>2. /\ Len(order.heap) \in Nat /\ DOMAIN order.heap = 1 .. Len(order.heap)
        /\ \A n \in 1 .. Len(order.heap) : order.heap[n] \in Vars \ {v}
    <3>1. /\ Len(order.heap) \in Nat /\ DOMAIN order.heap = 1 .. Len(order.heap)
          /\ \A n \in 1 .. Len(order.heap) :
               order.heap[n] \in Vars /\ order.indices[order.heap[n]] = n
      <4>1. Good(order, Vars)
        BY <1>1 DEF Heap
      <4> QED
        BY <4>1, PlacesIs
    <3>2. \A n \in 1 .. Len(order.heap) : order.heap[n] # v
      BY <1>14, <3>1 DEF InHeap
    <3> QED
      BY <3>1, <3>2
  <2>3. SortedFrom(Keys(order, act), 1)
    <3>1. SortedFrom(Keys(order, activity), 1)
      BY <1>1 DEF Heap
    <3> SUFFICES ASSUME NEW n \in 1 .. Len(order.heap), n > 1
                 PROVE  act[order.heap[n]] <= act[order.heap[n \div 2]]
      BY <2>2 DEF SortedFrom, Keys
    <3>2. n \div 2 \in 1 .. Len(order.heap) /\ n \div 2 >= 1
      BY <2>2
    <3>3. activity[order.heap[n]] <= activity[order.heap[n \div 2]]
      BY <2>2, <3>1, <3>2 DEF SortedFrom, Keys
    <3>4. order.heap[n] \in Vars \ {v} /\ order.heap[n \div 2] \in Vars \ {v}
      BY <2>2, <3>2
    <3> QED
      BY <1>12, <3>3, <3>4
  <2>4. Heap(order, Vars, activity)'
    BY <1>1, <1>4, <1>9, <2>1, <2>3 DEF Heap
  <2>5. \A u \in Vars : MayBranch(u)' => InHeap(order, u)'
    BY <1>1, <1>4, <1>9, <2>1 DEF MayBranch, Unassigned, InHeap
  <2> QED
    BY <1>4, <1>9, <1>11, <2>4, <2>5 DEF IInv
<1> QED
  BY <1>13, <1>14

LEMMA StutterStep ==
  ASSUME IInv, UNCHANGED orderVars
  PROVE  IInv'
<1>1. Vars' = Vars /\ Entries' = Entries
  BY DEF orderVars, Vars, Entries
<1> QED
  BY <1>1 DEF IInv, Types, MayBranch, Unassigned, InHeap, orderVars

-----------------------------------------------------------------------------
(* The theorems.                                                            *)

\* The inductive invariant: places and indices of the heap agree, it is in
\* order, and no variable that may be branched on is out of it, through every
\* call of Heap.h from Solver.cc.
THEOREM InvariantHolds == OrderSpec => []IInv
<1>1. OrderInit => IInv
  BY StartIs
<1>2. ASSUME IInv, [OrderNext]_orderVars PROVE IInv'
  <2>1. CASE NewVar
    BY <1>2, <2>1, NewVarStep
  <2>2. CASE PickMostActive
    BY <1>2, <2>2, PickMostActiveStep
  <2>3. CASE Conflict
    BY <1>2, <2>3, ConflictStep
  <2>4. CASE CancelAll
    BY <1>2, <2>4, RestartStep
  <2>5. CASE RebuildOrderHeap
    BY <1>2, <2>5, RebuildStep
  <2>6. ASSUME NEW v \in Vars, PickRandom(v) PROVE IInv'
    BY <1>2, <2>6, PickRandomStep
  <2>7. ASSUME NEW v \in Vars, Imply(v) PROVE IInv'
    BY <1>2, <2>7, ImplyStep
  <2>8. ASSUME NEW v \in Vars, Bump(v) PROVE IInv'
    BY <1>2, <2>8, BumpStep
  <2>9. ASSUME NEW v \in Vars, NEW level \in 0 .. LevelNow - 1, Backjump(level, v) PROVE IInv'
    BY <1>2, <2>9, BackjumpStep
  <2>10. CASE UNCHANGED orderVars
    BY <1>2, <2>10, StutterStep
  <2> QED
    BY <1>2, <2>1, <2>2, <2>3, <2>4, <2>5, <2>6, <2>7, <2>8, <2>9, <2>10 DEF OrderNext
<1> QED
  BY <1>1, <1>2, PTL DEF OrderSpec

\* No decision variable is lost: what is unassigned is in the heap, whatever
\* is picked, bumped, rescaled and taken back, so that pickBranchLit finds none
\* only when the assignment is complete; and the heap gives the most active
\* first (Solver.cc:266-315, Heap.h:43-150).
THEOREM OrderIsComplete == OrderSpec => []OrderComplete
<1>1. IInv => OrderComplete
  <2> SUFFICES ASSUME IInv PROVE OrderComplete
    OBVIOUS
  <2>1. /\ Heap(order, Vars, activity) /\ activity \in [Vars -> Int]
        /\ \A v \in Vars : MayBranch(v) => InHeap(order, v)
        /\ mode = "model" => \A v \in Vars : ~ MayBranch(v)
    BY DataIs DEF IInv
  <2>2. /\ Indexed(order, Vars) /\ SortedFrom(Keys(order, activity), 1)
        /\ Len(order.heap) \in Nat /\ DOMAIN order.heap = 1 .. Len(order.heap)
        /\ \A n \in 1 .. Len(order.heap) : order.heap[n] \in Vars
    BY <2>1, PlacesIs DEF Heap, Good
  <2>3. \A n \in DOMAIN order.heap : n > 1 => ~ Lt(activity, order.heap[n], order.heap[n \div 2])
    <3> SUFFICES ASSUME NEW n \in 1 .. Len(order.heap), n > 1
                 PROVE  ~ Lt(activity, order.heap[n], order.heap[n \div 2])
      BY <2>2
    <3>1. n \div 2 \in 1 .. Len(order.heap) /\ n \div 2 >= 1
      BY <2>2
    <3>2. activity[order.heap[n]] <= activity[order.heap[n \div 2]]
      BY <2>2, <3>1 DEF SortedFrom, Keys
    <3> QED
      BY <2>1, <2>2, <3>1, <3>2 DEF Lt
  <2> QED
    BY <2>1, <2>2, <2>3 DEF OrderComplete, Indexed
<1> QED
  BY <1>1, InvariantHolds, PTL
=============================================================================
