--------------------------- MODULE TimedQueueProofs --------------------------
(***************************************************************************)
(* Theorems about LinkedList and TimedQueue, for any number of nodes and   *)
(* objects: the pointers of the list hold together whatever is called, they*)
(* implement the sequence of Deque, and the area under the queue length is *)
(* what the handlers add up.                                               *)
(***************************************************************************)
EXTENDS TimedQueue, SequenceTheorems, FunctionTheorems, FiniteSetTheorems, TLAPS

USE DataAssumption, TimeAssumption

(* Nodes, sentinels and the null pointer are different things.             *)
LEMMA Distinct ==
  /\ Nodes \subseteq Places /\ HeadNode \in Places /\ TailNode \in Places
  /\ HeadNode \notin Nodes /\ TailNode \notin Nodes /\ HeadNode # TailNode
  /\ NULL \notin Places
  BY NodesAssumption DEF Places, Sentinels, HeadNode, TailNode, NULL

-----------------------------------------------------------------------------
(* Natural numbers.  Every set of them but {} has a least member, and so   *)
(* a set that holds 0 and the successors of its members holds all.         *)

LEMMA LeastMember ==
  ASSUME NEW T \in SUBSET Nat, T # {}
  PROVE  \E m \in T : \A k \in T : m <= k
  <1> DEFINE R == OpToRel(<, Nat)
  <1>1. IsWellFoundedOn(R, Nat)
    BY NatLessThanWellFounded
  <1>2. \A x, y \in Nat : <<x, y>> \in R <=> x < y
    BY DEF OpToRel
  <1> HIDE DEF R
  <1>3. PICK m \in T : \A y \in T : ~(<<y, m>> \in R)
    BY <1>1, WFMin
  <1>4. \A k \in T : ~(k < m)
    BY <1>2, <1>3
  <1> QED
    BY <1>4

LEMMA AllNumbers ==
  ASSUME NEW T \in SUBSET Nat, 0 \in T, \A n \in T : n + 1 \in T
  PROVE  T = Nat
  <1> SUFFICES ASSUME Nat \ T # {} PROVE FALSE
    OBVIOUS
  <1>1. PICK m \in Nat \ T : \A k \in Nat \ T : m <= k
    BY LeastMember
  <1>2. m - 1 \in T
    BY <1>1
  <1> QED
    BY <1>1, <1>2

-----------------------------------------------------------------------------
(* The links.  c counts a list through from its head (0) to its tail.      *)

Linked(l, M, c) ==
  /\ l.members_count \in Nat
  /\ c \in [0..l.members_count + 1 -> Places]
  /\ c[0] = HeadNode /\ c[l.members_count + 1] = TailNode
  /\ \A i, j \in 0..l.members_count + 1 : c[i] = c[j] => i = j
  /\ \A i \in 1..l.members_count : c[i] \in M
  /\ \A m \in M : \E i \in 1..l.members_count : c[i] = m
  /\ \A i \in 0..l.members_count : l.next[c[i]] = c[i + 1] /\ l.prev[c[i + 1]] = c[i]

Inserted(c, k, p, n) ==
  [i \in 0..k + 2 |-> IF i < p THEN c[i] ELSE IF i = p THEN n ELSE c[i - 1]]

Without(c, k, p) == [i \in 0..k |-> IF i < p THEN c[i] ELSE c[i + 1]]

(* A node that is linked in between two neighbours.                        *)
LEMMA InsertLinked ==
  ASSUME NEW l \in Lists, NEW M \in SUBSET Nodes, NEW c, Linked(l, M, c),
         NEW n \in Nodes \ M, NEW p \in 1..l.members_count + 1,
         NEW r \in Lists, r.members_count = l.members_count + 1,
         \A q \in Places :
           /\ r.next[q] = IF q = n THEN c[p] ELSE IF q = c[p - 1] THEN n ELSE l.next[q]
           /\ r.prev[q] = IF q = n THEN c[p - 1] ELSE IF q = c[p] THEN n ELSE l.prev[q]
  PROVE  Linked(r, M \union {n}, Inserted(c, l.members_count, p, n))
  <1> DEFINE k == l.members_count
             e == Inserted(c, k, p, n)
  <1>1. /\ k \in Nat /\ p \in 1..k + 1 /\ r.members_count = k + 1
        /\ c \in [0..k + 1 -> Places] /\ c[0] = HeadNode /\ c[k + 1] = TailNode
        /\ \A i, j \in 0..k + 1 : c[i] = c[j] => i = j
        /\ \A i \in 1..k : c[i] \in M
        /\ \A m \in M : \E i \in 1..k : c[i] = m
        /\ \A i \in 0..k : l.next[c[i]] = c[i + 1] /\ l.prev[c[i + 1]] = c[i]
    BY DEF Linked
  <1>2. e = [i \in 0..k + 2 |-> IF i < p THEN c[i] ELSE IF i = p THEN n ELSE c[i - 1]]
    BY DEF Inserted
  <1> HIDE DEF k, e
  <1>0. n \in Places /\ n # HeadNode /\ n # TailNode /\ n \notin M
    BY Distinct
  <1>3. \A i \in 0..k + 1 : c[i] # n /\ c[i] \in Places
    <2>1. ASSUME NEW i \in 0..k + 1
          PROVE  i = 0 \/ i = k + 1 \/ i \in 1..k
      BY <1>1
    <2> QED
      BY <1>0, <1>1, <2>1
  <1>4. /\ e[p] = n
        /\ \A i \in 0..k + 1 : i < p => e[i] = c[i]
        /\ \A i \in 0..k + 1 : p <= i => e[i + 1] = c[i]
    BY <1>1, <1>2
  <1>5. \A i \in 0..k + 2 :
          \/ i = p
          \/ i \in 0..k + 1 /\ i < p
          \/ \E j \in 0..k + 1 : i = j + 1 /\ p <= j
    <2> TAKE i \in 0..k + 2
    <2>1. p < i => i - 1 \in 0..k + 1 /\ i = (i - 1) + 1 /\ p <= i - 1
      BY <1>1
    <2> QED
      BY <1>1, <2>1
  <1>6. e \in [0..k + 2 -> Places] /\ e[0] = HeadNode /\ e[k + 2] = TailNode
    <2>1. ASSUME NEW i \in 0..k + 2 PROVE e[i] \in Places
      BY <1>0, <1>3, <1>4, <1>5
    <2>2. e[0] = HeadNode /\ e[k + 2] = TailNode
      BY <1>1, <1>4
    <2> QED
      BY <1>2, <2>1, <2>2
  <1>7. \A i, j \in 0..k + 2 : e[i] = e[j] => i = j
    <2> SUFFICES ASSUME NEW i \in 0..k + 2, NEW j \in 0..k + 2, i < j PROVE e[i] # e[j]
      <3>1. \A i, j \in 0..k + 2 : i < j \/ i = j \/ j < i
        BY <1>1
      <3> QED
        BY <3>1
    <2>1. CASE j < p
      <3>1. i \in 0..k + 1 /\ j \in 0..k + 1 /\ e[i] = c[i] /\ e[j] = c[j]
        BY <1>1, <1>4, <2>1
      <3> QED
        BY <1>1, <3>1
    <2>2. CASE j = p
      <3>1. i \in 0..k + 1 /\ e[i] = c[i] /\ e[j] = n
        BY <1>1, <1>4, <2>2
      <3> QED
        BY <1>3, <3>1
    <2>3. CASE p < j
      <3>1. j - 1 \in 0..k + 1 /\ p <= j - 1 /\ (j - 1) + 1 = j
        BY <1>1, <2>3
      <3>2. e[(j - 1) + 1] = c[j - 1]
        BY <1>4, <3>1
      <3>3. CASE i < p
        <4>1. i \in 0..k + 1 /\ e[i] = c[i] /\ i # j - 1
          BY <1>1, <1>4, <3>1, <3>3
        <4> QED
          BY <1>1, <3>1, <3>2, <4>1
      <3>4. CASE i = p
        BY <1>3, <1>4, <3>1, <3>2, <3>4
      <3>5. CASE p < i
        <4>1. i - 1 \in 0..k + 1 /\ p <= i - 1 /\ (i - 1) + 1 = i /\ i - 1 # j - 1
          BY <1>1, <3>5
        <4>2. e[(i - 1) + 1] = c[i - 1]
          BY <1>4, <4>1
        <4> QED
          BY <1>1, <3>1, <3>2, <4>1, <4>2
      <3> QED
        BY <1>1, <3>3, <3>4, <3>5
    <2> QED
      BY <1>1, <2>1, <2>2, <2>3
  <1>8. \A i \in 1..k + 1 : e[i] \in M \union {n}
    <2> TAKE i \in 1..k + 1
    <2>1. CASE i < p
      BY <1>1, <1>4, <2>1
    <2>2. CASE i > p
      <3>1. i - 1 \in 1..k /\ p <= i - 1 /\ (i - 1) + 1 = i
        BY <1>1, <2>2
      <3>2. e[(i - 1) + 1] = c[i - 1]
        BY <1>1, <1>4, <3>1
      <3> QED
        BY <1>1, <3>1, <3>2
    <2> QED
      BY <1>1, <1>4, <2>1, <2>2
  <1>9. \A m \in M \union {n} : \E i \in 1..k + 1 : e[i] = m
    <2>1. ASSUME NEW i \in 1..k
          PROVE  \E j \in 1..k + 1 : e[j] = c[i]
      <3>1. i < p => e[i] = c[i] /\ i \in 1..k + 1
        BY <1>1, <1>4
      <3>2. p <= i => e[i + 1] = c[i] /\ i + 1 \in 1..k + 1
        BY <1>1, <1>4
      <3> QED
        BY <1>1, <3>1, <3>2
    <2>2. p \in 1..k + 1 /\ e[p] = n
      BY <1>1, <1>4
    <2>3. ASSUME NEW m \in M
          PROVE  \E i \in 1..k + 1 : e[i] = m
      <3>1. PICK i \in 1..k : c[i] = m
        BY <1>1
      <3> QED
        BY <2>1, <3>1
    <2> QED
      BY <2>2, <2>3
  <1>10. \A i \in 0..k + 1 : r.next[e[i]] = e[i + 1] /\ r.prev[e[i + 1]] = e[i]
    <2> TAKE i \in 0..k + 1
    <2>1. CASE i + 1 < p
      <3>1. /\ e[i] = c[i] /\ e[i + 1] = c[i + 1] /\ i # p - 1 /\ i + 1 # p
            /\ {i, i + 1, p - 1, p} \subseteq 0..k + 1 /\ i \in 0..k
        BY <1>1, <1>4, <2>1
      <3>2. c[i] # c[p - 1] /\ c[i + 1] # c[p]
        BY <1>1, <3>1
      <3>3. r.next[c[i]] = l.next[c[i]]
        BY <1>3, <3>1, <3>2
      <3>4. r.prev[c[i + 1]] = l.prev[c[i + 1]]
        BY <1>3, <3>1, <3>2
      <3> QED
        BY <1>1, <3>1, <3>3, <3>4
    <2>2. CASE i + 1 = p
      <3>1. e[i] = c[p - 1] /\ e[i + 1] = n /\ p - 1 \in 0..k + 1
        BY <1>1, <1>4, <2>2
      <3> QED
        BY <1>0, <1>3, <3>1
    <2>3. CASE i = p
      <3>1. e[i] = n /\ e[i + 1] = c[p] /\ p \in 0..k + 1
        BY <1>1, <1>4, <2>3
      <3> QED
        BY <1>0, <1>3, <3>1
    <2>4. CASE i > p
      <3>1. /\ e[(i - 1) + 1] = c[i - 1] /\ (i - 1) + 1 = i /\ e[i + 1] = c[i]
            /\ i - 1 # p - 1 /\ i # p
            /\ {i - 1, i, p - 1, p} \subseteq 0..k + 1 /\ i - 1 \in 0..k
        BY <1>1, <1>4, <2>4
      <3>2. c[i - 1] # c[p - 1] /\ c[i] # c[p]
        BY <1>1, <3>1
      <3>3. l.next[c[i - 1]] = c[i] /\ l.prev[c[i]] = c[i - 1]
        BY <1>1, <3>1
      <3>4. r.next[c[i - 1]] = l.next[c[i - 1]]
        BY <1>3, <3>1, <3>2
      <3>5. r.prev[c[i]] = l.prev[c[i]]
        BY <1>3, <3>1, <3>2
      <3> QED
        BY <3>1, <3>3, <3>4, <3>5
    <2> QED
      BY <1>1, <2>1, <2>2, <2>3, <2>4
  <1>11. r.members_count = k + 1 /\ k + 1 \in Nat /\ (k + 1) + 1 = k + 2
    BY <1>1 DEF k
  <1>12. Linked(r, M \union {n}, e)
    BY <1>6, <1>7, <1>8, <1>9, <1>10, <1>11 DEF Linked
  <1> QED
    BY <1>12 DEF k, e

(* A node whose neighbours are linked to each other.                       *)
LEMMA RemoveLinked ==
  ASSUME NEW l \in Lists, NEW M \in SUBSET Nodes, NEW c, Linked(l, M, c),
         NEW p \in 1..l.members_count,
         NEW r \in Lists, r.members_count = l.members_count - 1,
         \A q \in Places :
           /\ r.next[q] = IF q = c[p - 1] THEN c[p + 1] ELSE l.next[q]
           /\ r.prev[q] = IF q = c[p + 1] THEN c[p - 1] ELSE l.prev[q]
  PROVE  Linked(r, M \ {c[p]}, Without(c, l.members_count, p))
  <1> DEFINE k == l.members_count - 1
             e == Without(c, l.members_count, p)
  <1>1. /\ k \in Nat /\ p \in 1..k + 1 /\ r.members_count = k
        /\ c \in [0..k + 2 -> Places] /\ c[0] = HeadNode /\ c[k + 2] = TailNode
        /\ \A i, j \in 0..k + 2 : c[i] = c[j] => i = j
        /\ \A i \in 1..k + 1 : c[i] \in M
        /\ \A m \in M : \E i \in 1..k + 1 : c[i] = m
        /\ \A i \in 0..k + 1 : l.next[c[i]] = c[i + 1] /\ l.prev[c[i + 1]] = c[i]
    <2> DEFINE m == l.members_count
    <2>1. /\ m \in Nat /\ p \in 1..m /\ r.members_count = m - 1 /\ k = m - 1
          /\ c \in [0..m + 1 -> Places] /\ c[0] = HeadNode /\ c[m + 1] = TailNode
          /\ \A i, j \in 0..m + 1 : c[i] = c[j] => i = j
          /\ \A i \in 1..m : c[i] \in M
          /\ \A q \in M : \E i \in 1..m : c[i] = q
          /\ \A i \in 0..m : l.next[c[i]] = c[i + 1] /\ l.prev[c[i + 1]] = c[i]
      BY DEF Linked
    <2> HIDE DEF k, m
    <2>2. k \in Nat /\ m = k + 1 /\ r.members_count = k
      BY <2>1
    <2>3. m + 1 = k + 2 /\ 0..m + 1 = 0..k + 2 /\ 1..m = 1..k + 1 /\ 0..m = 0..k + 1
      BY <2>2
    <2>4. c \in [0..k + 2 -> Places] /\ c[0] = HeadNode /\ c[k + 2] = TailNode
      BY <2>1, <2>3
    <2>5. \A i, j \in 0..k + 2 : c[i] = c[j] => i = j
      BY <2>1, <2>3
    <2>6. /\ p \in 1..k + 1
          /\ \A i \in 1..k + 1 : c[i] \in M
          /\ \A q \in M : \E i \in 1..k + 1 : c[i] = q
      BY <2>1, <2>3
    <2>7. \A i \in 0..k + 1 : l.next[c[i]] = c[i + 1] /\ l.prev[c[i + 1]] = c[i]
      BY <2>1, <2>3
    <2> QED
      BY <2>2, <2>4, <2>5, <2>6, <2>7
  <1>2. e = [i \in 0..k + 1 |-> IF i < p THEN c[i] ELSE c[i + 1]]
    <2>1. l.members_count = k + 1
      BY DEF Linked
    <2> HIDE DEF k
    <2> QED
      BY <2>1 DEF Without
  <1> HIDE DEF k, e
  <1>3. \A i \in 0..k + 2 : c[i] \in Places
    BY <1>1
  <1>4. /\ \A i \in 0..k + 1 : i < p => e[i] = c[i]
        /\ \A i \in 0..k + 1 : p <= i => e[i] = c[i + 1]
    BY <1>1, <1>2
  <1>5. e \in [0..k + 1 -> Places] /\ e[0] = HeadNode /\ e[k + 1] = TailNode
    <2>1. ASSUME NEW i \in 0..k + 1
          PROVE  {i, i + 1} \subseteq 0..k + 2
      BY <1>1
    <2>2. e \in [0..k + 1 -> Places]
      BY <1>2, <1>3, <2>1
    <2>3. e[0] = HeadNode /\ e[k + 1] = TailNode
      BY <1>1, <1>4
    <2> QED
      BY <2>2, <2>3
  <1>6. \A i, j \in 0..k + 1 : e[i] = e[j] => i = j
    <2>1. ASSUME NEW i \in 0..k + 1, NEW j \in 0..k + 1, i < j
          PROVE  e[i] # e[j]
      <3>0. {i, i + 1, j, j + 1} \subseteq 0..k + 2 /\ {i, j, p} \subseteq Int
        BY <1>1
      <3>1. CASE j < p
        <4>1. e[i] = c[i] /\ e[j] = c[j]
          BY <1>4, <2>1, <3>0, <3>1
        <4> QED
          BY <1>1, <2>1, <3>0, <4>1
      <3>2. CASE p <= j
        <4>1. e[j] = c[j + 1] /\ (i < p => e[i] = c[i]) /\ (p <= i => e[i] = c[i + 1])
          BY <1>4, <3>2
        <4>2. i # j + 1 /\ i + 1 # j + 1 /\ (i < p \/ p <= i)
          BY <2>1, <3>0
        <4> QED
          BY <1>1, <3>0, <4>1, <4>2
      <3> QED
        BY <3>0, <3>1, <3>2
    <2> QED
      BY <1>1, <2>1
  <1>7. \A i \in 1..k : e[i] \in M \ {c[p]}
    <2> TAKE i \in 1..k
    <2>1. CASE i < p
      <3>1. e[i] = c[i] /\ {i, p} \subseteq 1..k + 1 /\ {i, p} \subseteq 0..k + 2 /\ i # p
        BY <1>1, <1>4, <2>1
      <3> QED
        BY <1>1, <3>1
    <2>2. CASE p <= i
      <3>1. /\ e[i] = c[i + 1] /\ {i + 1, p} \subseteq 1..k + 1
            /\ {i + 1, p} \subseteq 0..k + 2 /\ i + 1 # p
        BY <1>1, <1>4, <2>2
      <3> QED
        BY <1>1, <3>1
    <2> QED
      BY <1>1, <2>1, <2>2
  <1>8. \A m \in M \ {c[p]} : \E i \in 1..k : e[i] = m
    <2> TAKE m \in M \ {c[p]}
    <2>1. PICK i \in 1..k + 1 : c[i] = m
      BY <1>1
    <2>2. CASE i < p
      <3>1. i \in 1..k /\ e[i] = c[i]
        BY <1>1, <1>4, <2>2
      <3> QED
        BY <2>1, <3>1
    <2>3. CASE p < i
      <3>1. i - 1 \in 1..k /\ p <= i - 1 /\ (i - 1) + 1 = i /\ i - 1 \in 0..k + 1
        BY <1>1, <2>3
      <3>2. e[i - 1] = c[(i - 1) + 1]
        BY <1>4, <3>1
      <3> QED
        BY <2>1, <3>1, <3>2
    <2> QED
      BY <1>1, <2>1, <2>2, <2>3
  <1>9. \A i \in 0..k : r.next[e[i]] = e[i + 1] /\ r.prev[e[i + 1]] = e[i]
    <2> TAKE i \in 0..k
    <2>1. CASE i + 1 < p
      <3>1. /\ e[i] = c[i] /\ e[i + 1] = c[i + 1] /\ i # p - 1 /\ i + 1 # p + 1
            /\ {i, i + 1, p - 1, p + 1} \subseteq 0..k + 2 /\ i \in 0..k + 1
        BY <1>1, <1>4, <2>1
      <3>2. c[i] # c[p - 1] /\ c[i + 1] # c[p + 1]
        BY <1>1, <3>1
      <3>3. r.next[c[i]] = l.next[c[i]] /\ r.prev[c[i + 1]] = l.prev[c[i + 1]]
        BY <1>3, <3>1, <3>2
      <3> QED
        BY <1>1, <3>1, <3>3
    <2>2. CASE i + 1 = p
      <3>1. e[i] = c[p - 1] /\ e[i + 1] = c[p + 1] /\ {p - 1, p + 1} \subseteq 0..k + 2
        BY <1>1, <1>4, <2>2
      <3> QED
        BY <1>3, <3>1
    <2>3. CASE p <= i
      <3>1. /\ e[i] = c[i + 1] /\ e[i + 1] = c[i + 2] /\ i + 1 # p - 1 /\ i + 2 # p + 1
            /\ {i + 1, i + 2, p - 1, p + 1} \subseteq 0..k + 2 /\ i + 1 \in 0..k + 1
            /\ (i + 1) + 1 = i + 2
        BY <1>1, <1>4, <2>3
      <3>2. c[i + 1] # c[p - 1] /\ c[i + 2] # c[p + 1]
        BY <1>1, <3>1
      <3>3. r.next[c[i + 1]] = l.next[c[i + 1]] /\ r.prev[c[i + 2]] = l.prev[c[i + 2]]
        BY <1>3, <3>1, <3>2
      <3>4. l.next[c[i + 1]] = c[(i + 1) + 1] /\ l.prev[c[(i + 1) + 1]] = c[i + 1]
        BY <1>1, <3>1
      <3> QED
        BY <3>1, <3>3, <3>4
    <2> QED
      BY <1>1, <2>1, <2>2, <2>3
  <1> QED
    BY <1>1, <1>5, <1>6, <1>7, <1>8, <1>9 DEF Linked, k, e

-----------------------------------------------------------------------------
(* Walks.  A recursive function is the only one that satisfies its         *)
(* equation: one that does is at hand, and every number is reached.        *)

LEMMA ChainIs ==
  ASSUME NEW l \in Lists, NEW M \in SUBSET Nodes, NEW c, Linked(l, M, c)
  PROVE  Chain(l, l.members_count) = [i \in 1..l.members_count + 1 |-> c[i]]
  <1> DEFINE k == l.members_count
             at == CHOOSE f : f = [i \in 0..k |-> l.next[IF i = 0 THEN HeadNode ELSE f[i - 1]]]
             w == [i \in 0..k |-> c[i + 1]]
  <1>1. /\ k \in Nat /\ c[0] = HeadNode
        /\ \A i \in 0..k : l.next[c[i]] = c[i + 1]
    BY DEF Linked
  <1>2. Chain(l, k) = [i \in 1..k + 1 |-> at[i - 1]]
    BY DEF Chain
  <1>3. w = [i \in 0..k |-> l.next[IF i = 0 THEN HeadNode ELSE w[i - 1]]]
    <2>1. ASSUME NEW i \in 0..k
          PROVE  c[i + 1] = l.next[IF i = 0 THEN HeadNode ELSE w[i - 1]]
      <3>1. CASE i = 0
        BY <1>1, <3>1
      <3>2. CASE i # 0
        <4>1. i - 1 \in 0..k /\ (i - 1) + 1 = i
          BY <1>1, <3>2
        <4>2. w[i - 1] = c[i]
          BY <4>1
        <4> QED
          BY <1>1, <3>2, <4>2
      <3> QED
        BY <3>1, <3>2
    <2> QED
      BY <2>1
  <1>4. at = [i \in 0..k |-> l.next[IF i = 0 THEN HeadNode ELSE at[i - 1]]]
    <2> HIDE DEF w
    <2> QED
      BY <1>3
  <1> HIDE DEF at, k
  <1>5. \A i \in 0..k : at[i] = c[i + 1]
    <2> DEFINE T == {i \in Nat : i <= k => at[i] = c[i + 1]}
    <2>1. 0 \in T
      BY <1>1, <1>4
    <2>2. ASSUME NEW i \in T
          PROVE  i + 1 \in T
      <3> SUFFICES ASSUME i + 1 <= k PROVE at[i + 1] = c[(i + 1) + 1]
        OBVIOUS
      <3>1. i + 1 \in 0..k /\ i + 1 # 0 /\ (i + 1) - 1 = i /\ at[i] = c[i + 1]
        BY <1>1
      <3>2. at[i + 1] = l.next[at[(i + 1) - 1]]
        BY <1>4, <3>1
      <3> QED
        BY <1>1, <3>1, <3>2
    <2>3. T = Nat
      <3> HIDE DEF T
      <3>1. T \in SUBSET Nat
        BY DEF T
      <3> QED
        BY <2>1, <2>2, <3>1, AllNumbers
    <2> QED
      BY <1>1, <2>3
  <1>6. \A i \in 1..k + 1 : i - 1 \in 0..k /\ (i - 1) + 1 = i
    BY <1>1
  <1>7. \A i \in 1..k + 1 : at[i - 1] = c[i]
    BY <1>5, <1>6
  <1> QED
    BY <1>2, <1>7 DEF k

-----------------------------------------------------------------------------
(* The operations of the list.                                             *)

LEMMA Ends ==
  ASSUME NEW l \in Lists, NEW M, NEW c, Linked(l, M, c)
  PROVE  /\ l.members_count \in Nat
         /\ l.next[HeadNode] = c[1] /\ l.prev[TailNode] = c[l.members_count]
         /\ c[0] = HeadNode /\ c[l.members_count + 1] = TailNode
         /\ \A i \in 0..l.members_count + 1 : c[i] \in Places
  BY DEF Linked

Links == [Places -> Places \union {NULL}]

WithNext(l, a, b) == [l EXCEPT !.next[a] = b]
WithPrev(l, a, b) == [l EXCEPT !.prev[a] = b]

LEMMA WithNextIs ==
  ASSUME NEW l \in Lists, NEW a \in Places, NEW b \in Places \union {NULL}
  PROVE  /\ WithNext(l, a, b) \in Lists
         /\ WithNext(l, a, b).next = [l.next EXCEPT ![a] = b]
         /\ WithNext(l, a, b).prev = l.prev
         /\ WithNext(l, a, b).members_count = l.members_count
  BY DEF Lists, WithNext

LEMMA WithPrevIs ==
  ASSUME NEW l \in Lists, NEW a \in Places, NEW b \in Places \union {NULL}
  PROVE  /\ WithPrev(l, a, b) \in Lists
         /\ WithPrev(l, a, b).prev = [l.prev EXCEPT ![a] = b]
         /\ WithPrev(l, a, b).next = l.next
         /\ WithPrev(l, a, b).members_count = l.members_count
  BY DEF Lists, WithPrev

LEMMA AppendedLinked ==
  ASSUME NEW l \in Lists, NEW M \in SUBSET Nodes, NEW c, Linked(l, M, c), NEW n \in Nodes \ M
  PROVE  /\ Appended(l, n) \in Lists
         /\ Appended(l, n).members_count = l.members_count + 1
         /\ Linked(Appended(l, n), M \union {n},
                   Inserted(c, l.members_count, l.members_count + 1, n))
  <1> DEFINE k == l.members_count
             p == k + 1
             r == Appended(l, n)
             l1 == WithNext(l, n, TailNode)
             l2 == WithPrev(l1, n, l.prev[TailNode])
             l3 == WithNext(l2, l.prev[TailNode], n)
             l4 == WithPrev(l3, TailNode, n)
  <1>1. /\ k \in Nat /\ p \in 1..k + 1 /\ p - 1 = k
        /\ l.prev[TailNode] = c[p - 1] /\ TailNode = c[p]
        /\ c[p] \in Places /\ c[p - 1] \in Places
    <2>1. k \in Nat /\ p \in 1..k + 1 /\ p - 1 = k
      BY Ends
    <2>2. k \in 0..k + 1 /\ k + 1 \in 0..k + 1
      BY <2>1
    <2> QED
      BY <2>1, <2>2, Ends
  <1>2. n \in Places /\ n # TailNode /\ n # c[p - 1]
    BY Distinct, <1>1 DEF Linked
  <1>3. r = [l4 EXCEPT !.members_count = @ + 1]
    BY DEF Appended, WithNext, WithPrev
  <1> HIDE DEF r, p, k
  <1>4. /\ l1 \in Lists /\ l1.next = [l.next EXCEPT ![n] = c[p]] /\ l1.prev = l.prev
        /\ l1.members_count = k
    BY <1>1, <1>2, WithNextIs DEF k
  <1> HIDE DEF l1
  <1>5. /\ l2 \in Lists /\ l2.next = l1.next /\ l2.prev = [l1.prev EXCEPT ![n] = c[p - 1]]
        /\ l2.members_count = k
    BY <1>1, <1>2, <1>4, WithPrevIs
  <1> HIDE DEF l2
  <1>6. /\ l3 \in Lists /\ l3.next = [l2.next EXCEPT ![c[p - 1]] = n] /\ l3.prev = l2.prev
        /\ l3.members_count = k
    BY <1>1, <1>2, <1>5, WithNextIs
  <1> HIDE DEF l3
  <1>7. /\ l4 \in Lists /\ l4.next = l3.next /\ l4.prev = [l3.prev EXCEPT ![c[p]] = n]
        /\ l4.members_count = k
    BY <1>1, <1>2, <1>6, WithPrevIs
  <1> HIDE DEF l4
  <1>8. r \in Lists /\ r.next = l4.next /\ r.prev = l4.prev /\ r.members_count = k + 1
    BY <1>1, <1>3, <1>7 DEF Lists
  <1>9. l.next \in Links /\ l.prev \in Links
    BY DEF Lists, Links
  <1>10. \A q \in Places :
          /\ r.next[q] = IF q = n THEN c[p] ELSE IF q = c[p - 1] THEN n ELSE l.next[q]
          /\ r.prev[q] = IF q = n THEN c[p - 1] ELSE IF q = c[p] THEN n ELSE l.prev[q]
    BY <1>1, <1>2, <1>4, <1>5, <1>6, <1>7, <1>8, <1>9 DEF Links
  <1>11. Linked(r, M \union {n}, Inserted(c, k, p, n))
    BY <1>1, <1>8, <1>10, InsertLinked DEF k
  <1> QED
    BY <1>8, <1>11 DEF r, p, k

LEMMA AppendedLeftLinked ==
  ASSUME NEW l \in Lists, NEW M \in SUBSET Nodes, NEW c, Linked(l, M, c), NEW n \in Nodes \ M
  PROVE  /\ AppendedLeft(l, n) \in Lists
         /\ AppendedLeft(l, n).members_count = l.members_count + 1
         /\ Linked(AppendedLeft(l, n), M \union {n}, Inserted(c, l.members_count, 1, n))
  <1> DEFINE k == l.members_count
             r == AppendedLeft(l, n)
             l1 == WithNext(l, n, l.next[HeadNode])
             l2 == WithPrev(l1, n, HeadNode)
             l3 == WithPrev(l2, l.next[HeadNode], n)
             l4 == WithNext(l3, HeadNode, n)
  <1>1. /\ k \in Nat /\ 1 \in 1..k + 1 /\ l.next[HeadNode] = c[1] /\ HeadNode = c[0]
        /\ c[0] \in Places /\ c[1] \in Places
    <2>1. k \in Nat
      BY Ends
    <2>2. 0 \in 0..k + 1 /\ 1 \in 0..k + 1
      BY <2>1
    <2> QED
      BY <2>1, <2>2, Ends
  <1>2. n \in Places /\ n # c[0] /\ n # c[1]
    <2>1. 1 \in 1..k \/ 1 = k + 1
      BY <1>1
    <2> QED
      BY <1>1, <2>1, Distinct DEF Linked
  <1>3. r = [l4 EXCEPT !.members_count = @ + 1]
    BY DEF AppendedLeft, WithNext, WithPrev
  <1> HIDE DEF r, k
  <1>4. /\ l1 \in Lists /\ l1.next = [l.next EXCEPT ![n] = c[1]] /\ l1.prev = l.prev
        /\ l1.members_count = k
    BY <1>1, <1>2, WithNextIs DEF k
  <1> HIDE DEF l1
  <1>5. /\ l2 \in Lists /\ l2.next = l1.next /\ l2.prev = [l1.prev EXCEPT ![n] = c[0]]
        /\ l2.members_count = k
    BY <1>1, <1>2, <1>4, WithPrevIs
  <1> HIDE DEF l2
  <1>6. /\ l3 \in Lists /\ l3.next = l2.next /\ l3.prev = [l2.prev EXCEPT ![c[1]] = n]
        /\ l3.members_count = k
    BY <1>1, <1>2, <1>5, WithPrevIs
  <1> HIDE DEF l3
  <1>7. /\ l4 \in Lists /\ l4.next = [l3.next EXCEPT ![c[0]] = n] /\ l4.prev = l3.prev
        /\ l4.members_count = k
    BY <1>1, <1>2, <1>6, WithNextIs
  <1> HIDE DEF l4
  <1>8. r \in Lists /\ r.next = l4.next /\ r.prev = l4.prev /\ r.members_count = k + 1
    BY <1>1, <1>3, <1>7 DEF Lists
  <1>9. l.next \in Links /\ l.prev \in Links
    BY DEF Lists, Links
  <1>10. \A q \in Places :
          /\ r.next[q] = IF q = n THEN c[1] ELSE IF q = c[1 - 1] THEN n ELSE l.next[q]
          /\ r.prev[q] = IF q = n THEN c[1 - 1] ELSE IF q = c[1] THEN n ELSE l.prev[q]
    BY <1>1, <1>2, <1>4, <1>5, <1>6, <1>7, <1>8, <1>9 DEF Links
  <1>11. Linked(r, M \union {n}, Inserted(c, k, 1, n))
    BY <1>1, <1>8, <1>10, InsertLinked DEF k
  <1> QED
    BY <1>8, <1>11 DEF r, k

Shortened(l) == [l EXCEPT !.members_count = @ - 1]

Cut(l, c, p) == Shortened(WithPrev(WithNext(l, c[p - 1], c[p + 1]), c[p + 1], c[p - 1]))

LEMMA ShortenedIs ==
  ASSUME NEW l \in Lists
  PROVE  /\ Shortened(l) \in Lists /\ Shortened(l).members_count = l.members_count - 1
         /\ Shortened(l).next = l.next /\ Shortened(l).prev = l.prev
  BY DEF Lists, Shortened

LEMMA SameList ==
  ASSUME NEW l \in Lists, NEW m \in Lists, l.next = m.next, l.prev = m.prev,
         l.members_count = m.members_count
  PROVE  l = m
  BY DEF Lists

LEMMA CutLinked ==
  ASSUME NEW l \in Lists, NEW M \in SUBSET Nodes, NEW c, Linked(l, M, c),
         NEW p \in 1..l.members_count
  PROVE  /\ Cut(l, c, p) \in Lists /\ Cut(l, c, p).members_count = l.members_count - 1
         /\ Linked(Cut(l, c, p), M \ {c[p]}, Without(c, l.members_count, p))
         /\ Cut(l, c, p) =
               Shortened(WithNext(WithPrev(l, c[p + 1], c[p - 1]), c[p - 1], c[p + 1]))
  <1> DEFINE k == l.members_count
             r == Cut(l, c, p)
             l1 == WithNext(l, c[p - 1], c[p + 1])
             l2 == WithPrev(l1, c[p + 1], c[p - 1])
             m1 == WithPrev(l, c[p + 1], c[p - 1])
             m2 == WithNext(m1, c[p - 1], c[p + 1])
  <1>1. k \in Nat /\ c[p - 1] \in Places /\ c[p + 1] \in Places
    <2>1. k \in Nat
      BY Ends
    <2>2. p - 1 \in 0..k + 1 /\ p + 1 \in 0..k + 1
      BY <2>1
    <2> QED
      BY <2>1, <2>2, Ends
  <1>2. l.next \in Links /\ l.prev \in Links
    BY DEF Lists, Links
  <1>3. r = Shortened(l2)
    BY DEF Cut
  <1>4. /\ l1 \in Lists /\ l1.next = [l.next EXCEPT ![c[p - 1]] = c[p + 1]]
        /\ l1.prev = l.prev /\ l1.members_count = k
    BY <1>1, WithNextIs
  <1>5. /\ m1 \in Lists /\ m1.prev = [l.prev EXCEPT ![c[p + 1]] = c[p - 1]]
        /\ m1.next = l.next /\ m1.members_count = k
    BY <1>1, WithPrevIs
  <1> HIDE DEF k, r, l1, m1
  <1>6. /\ l2 \in Lists /\ l2.next = l1.next
        /\ l2.prev = [l1.prev EXCEPT ![c[p + 1]] = c[p - 1]] /\ l2.members_count = k
    BY <1>1, <1>4, WithPrevIs
  <1>7. /\ m2 \in Lists /\ m2.next = [m1.next EXCEPT ![c[p - 1]] = c[p + 1]]
        /\ m2.prev = m1.prev /\ m2.members_count = k
    BY <1>1, <1>5, WithNextIs
  <1> HIDE DEF l2, m2
  <1>8. l2 = m2
    BY <1>4, <1>5, <1>6, <1>7, SameList
  <1>9. r \in Lists /\ r.next = l2.next /\ r.prev = l2.prev /\ r.members_count = k - 1
    BY <1>3, <1>6, ShortenedIs
  <1>10. \A q \in Places :
          /\ r.next[q] = IF q = c[p - 1] THEN c[p + 1] ELSE l.next[q]
          /\ r.prev[q] = IF q = c[p + 1] THEN c[p - 1] ELSE l.prev[q]
    BY <1>1, <1>2, <1>4, <1>6, <1>9 DEF Links
  <1>11. Linked(r, M \ {c[p]}, Without(c, k, p))
    BY <1>9, <1>10, RemoveLinked DEF k
  <1> QED
    BY <1>3, <1>8, <1>9, <1>11 DEF r, k, m1, m2

(* What the neighbours of a member are.                                    *)
LEMMA Neighbours ==
  ASSUME NEW l \in Lists, NEW M, NEW c, Linked(l, M, c), NEW p \in 1..l.members_count
  PROVE  l.next[c[p]] = c[p + 1] /\ l.prev[c[p]] = c[p - 1] /\ c[p] \in M
  <1>1. l.members_count \in Nat
    BY Ends
  <1>2. p \in 0..l.members_count /\ p - 1 \in 0..l.members_count /\ (p - 1) + 1 = p
    BY <1>1
  <1>3. l.prev[c[(p - 1) + 1]] = c[p - 1]
    BY <1>2 DEF Linked
  <1> QED
    BY <1>2, <1>3 DEF Linked

LEMMA RemovedLinked ==
  ASSUME NEW l \in Lists, NEW M \in SUBSET Nodes, NEW c, Linked(l, M, c),
         NEW p \in 1..l.members_count
  PROVE  /\ Removed(l, c[p]) \in Lists
         /\ Removed(l, c[p]).members_count = l.members_count - 1
         /\ Linked(Removed(l, c[p]), M \ {c[p]}, Without(c, l.members_count, p))
  <1> DEFINE n == c[p]
  <1>1. Removed(l, n) =
          Shortened(WithPrev(WithNext(l, l.prev[n], l.next[n]), l.next[n], l.prev[n]))
    BY DEF Removed, WithNext, WithPrev, Shortened
  <1>2. l.next[n] = c[p + 1] /\ l.prev[n] = c[p - 1]
    BY Neighbours
  <1> HIDE DEF n
  <1>3. Removed(l, n) = Cut(l, c, p)
    BY <1>1, <1>2 DEF Cut
  <1>4. /\ Cut(l, c, p) \in Lists /\ Cut(l, c, p).members_count = l.members_count - 1
        /\ Linked(Cut(l, c, p), M \ {c[p]}, Without(c, l.members_count, p))
    BY CutLinked, SMTT(30)
  <1> QED
    BY <1>3, <1>4 DEF n

LEMMA PoppedLinked ==
  ASSUME NEW l \in Lists, NEW M \in SUBSET Nodes, NEW c, Linked(l, M, c), l.members_count # 0
  PROVE  /\ l.members_count \in 1..l.members_count
         /\ l.prev[TailNode] = c[l.members_count]
         /\ Popped(l) \in Lists /\ Popped(l).members_count = l.members_count - 1
         /\ Linked(Popped(l), M \ {c[l.members_count]},
                   Without(c, l.members_count, l.members_count))
  <1> DEFINE k == l.members_count
             n == l.prev[TailNode]
  <1>1. k \in 1..k /\ n = c[k] /\ TailNode = c[k + 1]
    BY Ends
  <1>2. l.prev[c[k]] = c[k - 1]
    BY <1>1, Neighbours
  <1>3. Popped(l) = Shortened(WithPrev(WithNext(l, l.prev[n], TailNode), TailNode, l.prev[n]))
    BY DEF Popped, WithNext, WithPrev, Shortened
  <1> HIDE DEF k, n
  <1>4. Popped(l) = Cut(l, c, k)
    BY <1>1, <1>2, <1>3 DEF Cut
  <1>5. /\ Cut(l, c, k) \in Lists /\ Cut(l, c, k).members_count = k - 1
        /\ Linked(Cut(l, c, k), M \ {c[k]}, Without(c, k, k))
    <2>1. k \in 1..l.members_count
      BY <1>1 DEF k
    <2>2. /\ Cut(l, c, k) \in Lists /\ Cut(l, c, k).members_count = l.members_count - 1
          /\ Linked(Cut(l, c, k), M \ {c[k]}, Without(c, l.members_count, k))
      BY <2>1, CutLinked, ZenonT(60)
    <2> QED
      BY <2>2 DEF k
  <1> QED
    BY <1>1, <1>4, <1>5 DEF k, n

LEMMA PoppedLeftLinked ==
  ASSUME NEW l \in Lists, NEW M \in SUBSET Nodes, NEW c, Linked(l, M, c), l.members_count # 0
  PROVE  /\ 1 \in 1..l.members_count /\ l.next[HeadNode] = c[1]
         /\ PoppedLeft(l) \in Lists /\ PoppedLeft(l).members_count = l.members_count - 1
         /\ Linked(PoppedLeft(l), M \ {c[1]}, Without(c, l.members_count, 1))
  <1> DEFINE n == l.next[HeadNode]
  <1>1. 1 \in 1..l.members_count /\ n = c[1] /\ HeadNode = c[1 - 1]
    BY Ends
  <1>2. l.next[c[1]] = c[1 + 1]
    BY <1>1, Neighbours
  <1>3. PoppedLeft(l) =
          Shortened(WithNext(WithPrev(l, l.next[n], HeadNode), HeadNode, l.next[n]))
    BY DEF PoppedLeft, WithNext, WithPrev, Shortened
  <1> HIDE DEF n
  <1>4. PoppedLeft(l) =
          Shortened(WithNext(WithPrev(l, c[1 + 1], c[1 - 1]), c[1 - 1], c[1 + 1]))
    BY <1>1, <1>2, <1>3
  <1>5. PoppedLeft(l) = Cut(l, c, 1)
    BY <1>1, <1>4, CutLinked
  <1> QED
    BY <1>1, <1>5, CutLinked DEF n

(* list_clear pops a member at a time, until none is left.                 *)
LEMMA ClearedLinked ==
  ASSUME NEW l \in Lists, NEW M \in SUBSET Nodes, NEW c, Linked(l, M, c)
  PROVE  /\ Cleared(l) \in Lists /\ Cleared(l).members_count = 0
         /\ \E e : Linked(Cleared(l), {}, e)
  <1> DEFINE n == l.members_count
             Equation(f, m) == f = [k \in 0..m |-> IF k = 0 THEN l ELSE PoppedLeft(f[k - 1])]
             after == CHOOSE f : Equation(f, n)
  <1>1. n \in Nat
    BY Ends
  <1>2. Cleared(l) = after[n]
    BY DEF Cleared
  <1>3. Equation(after, n)
    <2> DEFINE T == {m \in Nat : \E f : Equation(f, m)}
    <2>1. 0 \in T
      <3>1. Equation([k \in 0..0 |-> l], 0)
        OBVIOUS
      <3> QED
        BY <3>1
    <2>2. ASSUME NEW m \in T
          PROVE  m + 1 \in T
      <3>1. PICK f : Equation(f, m)
        OBVIOUS
      <3> DEFINE g == [k \in 0..m + 1 |-> IF k = m + 1 THEN PoppedLeft(f[m]) ELSE f[k]]
      <3>2. ASSUME NEW k \in 0..m + 1
            PROVE  g[k] = IF k = 0 THEN l ELSE PoppedLeft(g[k - 1])
        <4>1. CASE k = m + 1
          <5>1. k - 1 = m /\ k # 0 /\ m \in 0..m + 1 /\ m # m + 1
            BY <4>1
          <5> QED
            BY <4>1, <5>1
        <4>2. CASE k # m + 1
          <5>1. k \in 0..m /\ g[k] = f[k]
            BY <4>2
          <5>2. k # 0 => k - 1 \in 0..m + 1 /\ k - 1 # m + 1
            BY <4>2
          <5>3. k # 0 => g[k - 1] = f[k - 1]
            BY <5>2
          <5>4. f[k] = IF k = 0 THEN l ELSE PoppedLeft(f[k - 1])
            BY <3>1, <5>1
          <5> QED
            BY <5>1, <5>3, <5>4
        <4> QED
          BY <4>1, <4>2
      <3>3. g = [k \in 0..m + 1 |-> g[k]]
        OBVIOUS
      <3> HIDE DEF g
      <3>4. g = [k \in 0..m + 1 |-> IF k = 0 THEN l ELSE PoppedLeft(g[k - 1])]
        BY <3>2, <3>3
      <3> QED
        BY <3>4
    <2> HIDE DEF Equation
    <2>3. T = Nat
      <3> HIDE DEF T
      <3>1. T \in SUBSET Nat
        BY DEF T
      <3> QED
        BY <2>1, <2>2, <3>1, AllNumbers
    <2> QED
      BY <1>1, <2>3
  <1>4. \A k \in 0..n : after[k] = IF k = 0 THEN l ELSE PoppedLeft(after[k - 1])
    <2> HIDE DEF after
    <2> QED
      BY <1>3
  <1> HIDE DEF after, n
  <1>5. \A k \in 0..n :
          /\ after[k] \in Lists /\ after[k].members_count = n - k
          /\ \E S \in SUBSET Nodes : \E e : Linked(after[k], S, e)
    <2> DEFINE Good(k) == /\ after[k] \in Lists /\ after[k].members_count = n - k
                          /\ \E S \in SUBSET Nodes : \E e : Linked(after[k], S, e)
               T == {k \in Nat : k <= n => Good(k)}
    <2>1. 0 \in T
      <3>1. after[0] = l
        BY <1>1, <1>4
      <3> QED
        BY <1>1, <3>1 DEF n
    <2>2. ASSUME NEW k \in T
          PROVE  k + 1 \in T
      <3> SUFFICES ASSUME k + 1 <= n PROVE Good(k + 1)
        OBVIOUS
      <3>1. k + 1 \in 0..n /\ k + 1 # 0 /\ (k + 1) - 1 = k /\ k <= n /\ n - k # 0
        BY <1>1
      <3>2. after[k + 1] = PoppedLeft(after[k])
        BY <1>4, <3>1
      <3>3. PICK S \in SUBSET Nodes : \E e : Linked(after[k], S, e)
        BY <3>1
      <3>4. PICK e : Linked(after[k], S, e)
        BY <3>3
      <3>5. /\ PoppedLeft(after[k]) \in Lists
            /\ PoppedLeft(after[k]).members_count = (n - k) - 1
            /\ Linked(PoppedLeft(after[k]), S \ {e[1]}, Without(e, n - k, 1))
        BY <3>1, <3>4, PoppedLeftLinked
      <3>6. (n - k) - 1 = n - (k + 1) /\ S \ {e[1]} \in SUBSET Nodes
        BY <1>1
      <3> QED
        BY <3>2, <3>5, <3>6
    <2>3. T = Nat
      <3> HIDE DEF T
      <3>1. T \in SUBSET Nat
        BY DEF T
      <3> QED
        BY <2>1, <2>2, <3>1, AllNumbers
    <2> QED
      BY <1>1, <2>3
  <1>6. n \in 0..n /\ n - n = 0
    BY <1>1
  <1>7. PICK S \in SUBSET Nodes : \E e : Linked(after[n], S, e)
    BY <1>5, <1>6
  <1>8. PICK e : Linked(after[n], S, e)
    BY <1>7
  <1>9. after[n].members_count = 0
    BY <1>5, <1>6
  <1>10. S = {}
    BY <1>8, <1>9 DEF Linked
  <1> QED
    BY <1>2, <1>5, <1>6, <1>8, <1>9, <1>10
-----------------------------------------------------------------------------
(* The objects that a list holds, in order.                                *)

Objects(c, k, dt) == [i \in 1..k |-> dt[c[i]]]

SeqOf(l, dt) == [i \in 1..l.members_count |-> dt[Chain(l, l.members_count)[i]]]

AnyData == Data \union {NoData}

Store == [Places -> AnyData]

LEMMA SeqOfIs ==
  ASSUME NEW l \in Lists, NEW M \in SUBSET Nodes, NEW c, Linked(l, M, c), NEW dt
  PROVE  SeqOf(l, dt) = Objects(c, l.members_count, dt)
  <1>1. l.members_count \in Nat
    BY Ends
  <1>2. \A i \in 1..l.members_count : i \in 1..l.members_count + 1
    BY <1>1
  <1>3. Chain(l, l.members_count) = [i \in 1..l.members_count + 1 |-> c[i]]
    BY ChainIs
  <1>4. \A i \in 1..l.members_count : Chain(l, l.members_count)[i] = c[i]
    BY <1>2, <1>3
  <1> QED
    BY <1>4 DEF SeqOf, Objects

LEMMA FunctionIsSeq ==
  ASSUME NEW S, NEW k \in Nat, NEW f \in [1..k -> S]
  PROVE  f \in Seq(S) /\ Len(f) = k
  <1>1. f \in Seq(S)
    BY SeqDef
  <1>2. DOMAIN f = 1..k /\ DOMAIN f = 1..Len(f) /\ Len(f) \in Nat
    BY <1>1, LenProperties
  <1> QED
    BY <1>1, <1>2

AreObjects(s, c, k, dt) ==
  s \in Seq(AnyData) /\ Len(s) = k /\ \A i \in 1..k : s[i] = dt[c[i]]

LEMMA ObjectsAre ==
  ASSUME NEW l \in Lists, NEW M \in SUBSET Nodes, NEW c, Linked(l, M, c),
         NEW dt \in Store
  PROVE  AreObjects(Objects(c, l.members_count, dt), c, l.members_count, dt)
  <1> DEFINE k == l.members_count
  <1>1. k \in Nat /\ \A i \in 1..k : c[i] \in Places
    <2>1. k \in Nat
      BY Ends
    <2>2. \A i \in 1..k : i \in 0..k + 1
      BY <2>1
    <2> QED
      BY <2>1, <2>2, Ends
  <1> HIDE DEF k
  <1>2. Objects(c, k, dt) \in [1..k -> AnyData] /\ \A i \in 1..k : Objects(c, k, dt)[i] = dt[c[i]]
    BY <1>1 DEF Objects, Store
  <1> QED
    BY <1>1, <1>2, FunctionIsSeq DEF AreObjects, k

Stored(dt, n, d) == [dt EXCEPT ![n] = d]

LEMMA ObjectsAppended ==
  ASSUME NEW l \in Lists, NEW M \in SUBSET Nodes, NEW c, Linked(l, M, c), NEW n \in Nodes \ M,
         NEW dt \in Store, NEW d \in AnyData
  PROVE  Objects(Inserted(c, l.members_count, l.members_count + 1, n), l.members_count + 1,
                 Stored(dt, n, d))
           = Append(Objects(c, l.members_count, dt), d)
  <1> DEFINE k == l.members_count
             s == Objects(c, k, dt)
             e == Inserted(c, k, k + 1, n)
             t == Objects(e, k + 1, Stored(dt, n, d))
  <1>1. k \in Nat /\ n \in Places /\ \A i \in 1..k : c[i] \in Places /\ c[i] # n
    <2>1. k \in Nat
      BY Ends
    <2>2. \A i \in 1..k : i \in 0..k + 1 /\ c[i] # n
      BY <2>1 DEF Linked
    <2> QED
      BY <2>1, <2>2, Ends, Distinct
  <1>2. s \in Seq(AnyData) /\ Len(s) = k /\ \A i \in 1..k : s[i] = dt[c[i]]
    <2>1. AreObjects(Objects(c, l.members_count, dt), c, l.members_count, dt)
      BY ObjectsAre
    <2> QED
      BY <2>1 DEF AreObjects
  <1> HIDE DEF k, s
  <1>3. e = [i \in 0..k + 2 |-> IF i < k + 1 THEN c[i] ELSE IF i = k + 1 THEN n ELSE c[i - 1]]
    BY DEF Inserted
  <1> HIDE DEF e
  <1>4. e[k + 1] = n /\ \A i \in 1..k : e[i] = c[i]
    BY <1>1, <1>3
  <1>5. t = [i \in 1..k + 1 |-> [dt EXCEPT ![n] = d][e[i]]]
    BY DEF Objects, Stored
  <1> HIDE DEF t
  <1>6. t[k + 1] = d /\ \A i \in 1..k : t[i] = s[i]
    <2>1. k + 1 \in 1..k + 1 /\ \A i \in 1..k : i \in 1..k + 1
      BY <1>1
    <2> QED
      BY <1>1, <1>2, <1>4, <1>5, <2>1 DEF Store
  <1>7. t \in [1..k + 1 -> AnyData]
    <2>1. \A i \in 1..k + 1 : i \in 1..k \/ i = k + 1
      BY <1>1
    <2>2. \A i \in 1..k + 1 : t[i] \in AnyData
      BY <1>1, <1>2, <1>6, <2>1, ElementOfSeq
    <2> QED
      BY <1>5, <2>2
  <1>8. t \in Seq(AnyData) /\ Len(t) = k + 1
    BY <1>1, <1>7, FunctionIsSeq
  <1>9. /\ Append(s, d) \in Seq(AnyData) /\ Len(Append(s, d)) = k + 1
        /\ Append(s, d)[k + 1] = d /\ \A i \in 1..k : Append(s, d)[i] = s[i]
    BY <1>1, <1>2, AppendProperties
  <1>10. \A i \in 1..Len(t) : t[i] = Append(s, d)[i]
    <2>1. \A i \in 1..Len(t) : i \in 1..k \/ i = k + 1
      BY <1>1, <1>8
    <2> QED
      BY <1>6, <1>9, <2>1
  <1>11. t = Append(s, d)
    BY <1>8, <1>9, <1>10, SeqEqual
  <1> QED
    BY <1>11 DEF t, e, s, k

LEMMA ObjectsAppendedLeft ==
  ASSUME NEW l \in Lists, NEW M \in SUBSET Nodes, NEW c, Linked(l, M, c), NEW n \in Nodes \ M,
         NEW dt \in Store, NEW d \in AnyData
  PROVE  Objects(Inserted(c, l.members_count, 1, n), l.members_count + 1,
                 Stored(dt, n, d))
           = <<d>> \o Objects(c, l.members_count, dt)
  <1> DEFINE k == l.members_count
             s == Objects(c, k, dt)
             e == Inserted(c, k, 1, n)
             t == Objects(e, k + 1, Stored(dt, n, d))
             u == <<d>>
  <1>1. k \in Nat /\ n \in Places /\ \A i \in 1..k : c[i] \in Places /\ c[i] # n
    <2>1. k \in Nat
      BY Ends
    <2>2. \A i \in 1..k : i \in 0..k + 1 /\ c[i] # n
      BY <2>1 DEF Linked
    <2> QED
      BY <2>1, <2>2, Ends, Distinct
  <1>2. s \in Seq(AnyData) /\ Len(s) = k /\ \A i \in 1..k : s[i] = dt[c[i]]
    <2>1. AreObjects(Objects(c, l.members_count, dt), c, l.members_count, dt)
      BY ObjectsAre
    <2> QED
      BY <2>1 DEF AreObjects
  <1>3. u \in Seq(AnyData) /\ Len(u) = 1 /\ u[1] = d
    OBVIOUS
  <1> HIDE DEF k, s, u
  <1>4. e = [i \in 0..k + 2 |-> IF i < 1 THEN c[i] ELSE IF i = 1 THEN n ELSE c[i - 1]]
    BY DEF Inserted
  <1> HIDE DEF e
  <1>5. e[1] = n /\ \A i \in 1..k : e[i + 1] = c[i]
    BY <1>1, <1>4
  <1>6. t = [i \in 1..k + 1 |-> [dt EXCEPT ![n] = d][e[i]]]
    BY DEF Objects, Stored
  <1> HIDE DEF t
  <1>7. t[1] = d /\ \A i \in 1..k : t[i + 1] = s[i]
    <2>1. 1 \in 1..k + 1 /\ \A i \in 1..k : i + 1 \in 1..k + 1
      BY <1>1
    <2>2. t[1] = d
      BY <1>1, <1>5, <1>6, <2>1 DEF Store
    <2>3. ASSUME NEW i \in 1..k
          PROVE  t[i + 1] = s[i]
      <3>1. t[i + 1] = [dt EXCEPT ![n] = d][e[i + 1]]
        BY <1>6, <2>1
      <3> QED
        BY <1>1, <1>2, <1>5, <3>1, SMTT(30) DEF Store
    <2> QED
      BY <2>2, <2>3
  <1>8. \A i \in 1..k + 1 : i = 1 \/ (i - 1 \in 1..k /\ (i - 1) + 1 = i /\ ~(i <= 1))
    BY <1>1
  <1>9. \A i \in 1..k + 1 : i # 1 => t[i] = s[i - 1]
    BY <1>7, <1>8
  <1>10. t \in [1..k + 1 -> AnyData]
    <2>1. \A i \in 1..k + 1 : t[i] \in AnyData
      BY <1>1, <1>2, <1>7, <1>8, <1>9, ElementOfSeq
    <2> QED
      BY <1>6, <2>1
  <1>11. t \in Seq(AnyData) /\ Len(t) = k + 1
    BY <1>1, <1>10, FunctionIsSeq
  <1>12. /\ u \o s \in Seq(AnyData) /\ Len(u \o s) = k + 1
         /\ \A i \in 1..k + 1 : (u \o s)[i] = IF i <= 1 THEN u[i] ELSE s[i - 1]
    <2>1. Len(u) + Len(s) = k + 1
      BY <1>1, <1>2, <1>3
    <2>2. \A i \in 1..Len(u) + Len(s) :
             (u \o s)[i] = IF i <= Len(u) THEN u[i] ELSE s[i - Len(u)]
      BY <1>2, <1>3, ConcatProperties, ZenonT(60)
    <2>3. u \o s \in Seq(AnyData) /\ Len(u \o s) = Len(u) + Len(s)
      BY <1>2, <1>3, ConcatProperties
    <2> QED
      BY <1>3, <2>1, <2>2, <2>3
  <1>13. \A i \in 1..Len(t) : t[i] = (u \o s)[i]
    BY <1>1, <1>3, <1>7, <1>8, <1>9, <1>11, <1>12
  <1>14. t = u \o s
    BY <1>11, <1>12, <1>13, SeqEqual
  <1> QED
    BY <1>14 DEF t, e, s, k, u

Deleted(s, p) == SubSeq(s, 1, p - 1) \o SubSeq(s, p + 1, Len(s))

LEMMA DeletedIs ==
  ASSUME NEW S, NEW s \in Seq(S), NEW p \in 1..Len(s)
  PROVE  /\ Deleted(s, p) \in Seq(S) /\ Len(Deleted(s, p)) = Len(s) - 1
         /\ \A i \in 1..Len(s) - 1 : Deleted(s, p)[i] = IF i < p THEN s[i] ELSE s[i + 1]
         /\ p = Len(s) => Deleted(s, p) = SubSeq(s, 1, Len(s) - 1)
         /\ p = 1 => Deleted(s, p) = Tail(s)
  <1> DEFINE k == Len(s)
             a == SubSeq(s, 1, p - 1)
             b == SubSeq(s, p + 1, k)
             w == Deleted(s, p)
  <1>1. k \in Nat /\ p \in 1..k
    BY LenProperties
  <1>2. w = a \o b
    BY DEF Deleted
  <1>3. \A i \in 1..k : s[i] \in S
    BY ElementOfSeq
  <1> HIDE DEF w
  <1>4. /\ a \in Seq(S) /\ Len(a) = p - 1
        /\ \A i \in 1..p - 1 : a[i] = s[i]
    <2>1. \A i \in 1..p - 1 : i \in 1..k
      BY <1>1
    <2>2. \A i \in 1..p - 1 : s[i] \in S
      BY <1>3, <2>1
    <2>3. 1 \in Int /\ p - 1 \in Int
      BY <1>1
    <2>4. /\ a \in Seq(S) /\ Len(a) = IF 1 <= p - 1 THEN (p - 1) - 1 + 1 ELSE 0
          /\ \A i \in 1..(p - 1) - 1 + 1 : a[i] = s[1 + i - 1]
      <3> HIDE DEF a, k
      <3> QED
        BY <2>2, <2>3, SubSeqProperties DEF a
    <2> HIDE DEF a
    <2>5. (p - 1) - 1 + 1 = p - 1 /\ \A i \in 1..p - 1 : 1 + i - 1 = i
      BY <1>1
    <2> QED
      BY <1>1, <2>4, <2>5
  <1>5. /\ b \in Seq(S) /\ Len(b) = k - p
        /\ \A i \in 1..k - p : b[i] = s[p + i]
    <2>1. \A i \in p + 1..k : i \in 1..k
      BY <1>1
    <2>2. \A i \in p + 1..k : s[i] \in S
      BY <1>3, <2>1
    <2>3. k \in Int /\ p + 1 \in Int
      BY <1>1
    <2>4. /\ b \in Seq(S) /\ Len(b) = IF p + 1 <= k THEN k - (p + 1) + 1 ELSE 0
          /\ \A i \in 1..k - (p + 1) + 1 : b[i] = s[(p + 1) + i - 1]
      <3> HIDE DEF b, k
      <3> QED
        BY <2>2, <2>3, SubSeqProperties DEF b
    <2> HIDE DEF b
    <2>5. k - (p + 1) + 1 = k - p /\ \A i \in 1..k - p : (p + 1) + i - 1 = p + i
      BY <1>1
    <2>6. Len(b) = k - p
      BY <1>1, <2>4
    <2>7. \A i \in 1..k - p : b[i] = s[(p + 1) + i - 1]
      BY <2>4, <2>5
    <2> QED
      BY <2>4, <2>5, <2>6, <2>7
  <1> HIDE DEF a, b
  <1>6. /\ w \in Seq(S) /\ Len(w) = k - 1
        /\ \A i \in 1..k - 1 : w[i] = IF i <= p - 1 THEN a[i] ELSE b[i - (p - 1)]
    <2>1. Len(a) + Len(b) = k - 1
      BY <1>1, <1>4, <1>5
    <2>2. \A i \in 1..Len(a) + Len(b) :
             w[i] = IF i <= Len(a) THEN a[i] ELSE b[i - Len(a)]
      BY <1>2, <1>4, <1>5, ConcatProperties
    <2>3. w \in Seq(S) /\ Len(w) = Len(a) + Len(b)
      BY <1>2, <1>4, <1>5, ConcatProperties
    <2> QED
      BY <1>4, <2>1, <2>2, <2>3
  <1>7. \A i \in 1..k - 1 : w[i] = IF i < p THEN s[i] ELSE s[i + 1]
    <2> TAKE i \in 1..k - 1
    <2>1. CASE i < p
      <3>1. i <= p - 1 /\ i \in 1..p - 1
        BY <1>1, <2>1
      <3> QED
        BY <1>4, <1>6, <2>1, <3>1
    <2>2. CASE ~(i < p)
      <3>1. ~(i <= p - 1) /\ i - (p - 1) \in 1..k - p /\ p + (i - (p - 1)) = i + 1
        BY <1>1, <2>2
      <3>2. b[i - (p - 1)] = s[p + (i - (p - 1))]
        BY <1>5, <3>1
      <3> QED
        BY <1>6, <2>2, <3>1, <3>2
    <2> QED
      BY <2>1, <2>2
  <1>8. ASSUME p = k PROVE w = SubSeq(s, 1, k - 1)
    <2>1. Len(b) = 0
      BY <1>1, <1>5, <1>8
    <2>2. b = << >>
      BY <1>5, <2>1, EmptySeq
    <2> QED
      BY <1>2, <1>4, <1>8, <2>2, ConcatEmptySeq DEF a
  <1>9. ASSUME p = 1 PROVE w = Tail(s)
    <2>1. s # << >>
      BY <1>1, EmptySeq
    <2>2. Tail(s) \in Seq(S) /\ Len(Tail(s)) = k - 1 /\ \A i \in 1..Len(Tail(s)) : Tail(s)[i] = s[i + 1]
      BY <2>1, HeadTailProperties
    <2>3. \A i \in 1..k - 1 : ~(i < p)
      BY <1>1, <1>9
    <2>4. \A i \in 1..Len(w) : w[i] = Tail(s)[i]
      BY <1>6, <1>7, <2>2, <2>3
    <2> QED
      BY <1>6, <2>2, <2>4, SeqEqual
  <1> QED
    BY <1>6, <1>7, <1>8, <1>9 DEF w, k

LosesOne(c, k, p, dt) ==
  Objects(Without(c, k, p), k - 1, dt) = Deleted(Objects(c, k, dt), p)

LEMMA ObjectsWithout ==
  ASSUME NEW l \in Lists, NEW M \in SUBSET Nodes, NEW c, Linked(l, M, c),
         NEW p \in 1..l.members_count, NEW dt \in Store
  PROVE  LosesOne(c, l.members_count, p, dt)
  <1> DEFINE k == l.members_count
             s == Objects(c, k, dt)
             w == Deleted(s, p)
             e == Without(c, k, p)
             t == Objects(e, k - 1, dt)
  <1>1. k \in Nat /\ p \in 1..k /\ k - 1 \in Nat
    BY Ends
  <1>2. s \in Seq(AnyData) /\ Len(s) = k /\ \A i \in 1..k : s[i] = dt[c[i]]
    <2>1. AreObjects(Objects(c, l.members_count, dt), c, l.members_count, dt)
      BY ObjectsAre
    <2> QED
      BY <2>1 DEF AreObjects
  <1> HIDE DEF k, s
  <1>3. e = [i \in 0..k |-> IF i < p THEN c[i] ELSE c[i + 1]]
    BY DEF Without
  <1>4. t = [i \in 1..k - 1 |-> dt[e[i]]]
    BY DEF Objects
  <1> HIDE DEF e, t
  <1>5. \A i \in 1..k - 1 : t[i] = IF i < p THEN s[i] ELSE s[i + 1]
    <2> TAKE i \in 1..k - 1
    <2>1. i \in 0..k /\ i \in 1..k /\ i + 1 \in 1..k
      BY <1>1
    <2> QED
      BY <1>2, <1>3, <1>4, <2>1
  <1>6. t \in Seq(AnyData) /\ Len(t) = k - 1
    <2>1. \A i \in 1..k - 1 : i \in 1..k /\ i + 1 \in 1..k
      BY <1>1
    <2>2. \A i \in 1..k - 1 : t[i] \in AnyData
      BY <1>2, <1>5, <2>1, ElementOfSeq
    <2>3. t \in [1..k - 1 -> AnyData]
      BY <1>4, <2>2
    <2> QED
      BY <1>1, <2>3, FunctionIsSeq
  <1>7. /\ w \in Seq(AnyData) /\ Len(w) = k - 1
        /\ \A i \in 1..k - 1 : w[i] = IF i < p THEN s[i] ELSE s[i + 1]
    BY <1>1, <1>2, DeletedIs
  <1> HIDE DEF w
  <1>8. t = w
    BY <1>5, <1>6, <1>7, SeqEqual
  <1> QED
    BY <1>8 DEF LosesOne, t, w, e, s, k

-----------------------------------------------------------------------------
(* What every call of the list keeps, and what it does to the sequence.    *)

DataKept ==
  /\ data[HeadNode] = NoData /\ data[TailNode] = NoData
  /\ \A n \in Members : data[n] \in Data

ListInv ==
  /\ ListTypeOK
  /\ \E c : Linked(list, Members, c)
  /\ DataKept

LEMMA ListTypes ==
  ASSUME ListTypeOK
  PROVE  /\ list \in Lists /\ data \in Store /\ Members \in SUBSET Nodes
         /\ held \subseteq heap /\ heap \subseteq Nodes /\ ret \in Places \union {NULL}
  BY DEF ListTypeOK, Store, AnyData, Members

LEMMA ItemsAre ==
  ASSUME ListTypeOK, NEW c, Linked(list, Members, c)
  PROVE  /\ Items = Objects(c, list.members_count, data)
         /\ Items \in Seq(AnyData) /\ Len(Items) = list.members_count
         /\ \A i \in 1..list.members_count : Items[i] = data[c[i]]
  <1>1. list \in Lists /\ data \in Store /\ Members \in SUBSET Nodes
    BY ListTypes
  <1>2. Items = SeqOf(list, data)
    BY DEF Items, SeqOf
  <1>3. Items = Objects(c, list.members_count, data)
    BY <1>1, <1>2, SeqOfIs
  <1>4. AreObjects(Objects(c, list.members_count, data), c, list.members_count, data)
    BY <1>1, ObjectsAre
  <1> QED
    BY <1>3, <1>4 DEF AreObjects

LEMMA ListInitInv ==
  ASSUME ListInit
  PROVE  ListInv /\ list.members_count = 0
  <1> DEFINE c == [i \in 0..1 |-> IF i = 0 THEN HeadNode ELSE TailNode]
  <1>1. list \in Lists /\ list.members_count = 0
    BY Distinct DEF ListInit, Lists
  <1>2. ListTypeOK
    BY <1>1, Distinct DEF ListInit, ListTypeOK
  <1>3. Linked(list, Members, c)
    <2>1. /\ list.next[HeadNode] = TailNode /\ list.prev[TailNode] = HeadNode
          /\ Members = {} /\ list.members_count = 0
      BY Distinct DEF ListInit, Members
    <2>2. /\ c \in [0..1 -> Places] /\ c[0] = HeadNode /\ c[1] = TailNode
          /\ \A i, j \in 0..1 : c[i] = c[j] => i = j
      BY Distinct
    <2> HIDE DEF c
    <2>3. 0..list.members_count = {0} /\ list.members_count + 1 = 1 /\ 0 + 1 = 1
      BY <2>1
    <2> QED
      BY <2>1, <2>2, <2>3 DEF Linked
  <1>4. DataKept
    BY Distinct DEF ListInit, DataKept, Members
  <1> QED
    BY <1>1, <1>2, <1>3, <1>4 DEF ListInv

LEMMA AppendCall ==
  ASSUME ListInv, NEW d \in Data, ListAppend(d)
  PROVE  ListInv' /\ list'.members_count = list.members_count + 1 /\ D!PushRight(d)
  <1>1. PICK c : Linked(list, Members, c)
    BY DEF ListInv
  <1>2. PICK n \in Nodes \ heap :
          /\ list' = Appended(list, n) /\ data' = Stored(data, n, d)
          /\ heap' = heap \union {n} /\ held' = held /\ ret' = NULL
    BY DEF ListAppend, Stored
  <1> DEFINE e == Inserted(c, list.members_count, list.members_count + 1, n)
  <1>3. /\ list \in Lists /\ data \in Store /\ Members \in SUBSET Nodes
        /\ held \subseteq heap /\ heap \subseteq Nodes
    BY ListTypes DEF ListInv
  <1>4. n \in Nodes \ Members /\ Members' = Members \union {n} /\ Members' \in SUBSET Nodes
    BY <1>2, <1>3 DEF Members
  <1>5. /\ list' \in Lists /\ list'.members_count = list.members_count + 1
        /\ Linked(list', Members', e)
    BY <1>1, <1>2, <1>3, <1>4, AppendedLinked
  <1>6. data' \in Store /\ d \in AnyData
    BY <1>2, <1>3, <1>4 DEF Store, AnyData, Stored
  <1>7. ListTypeOK'
    BY <1>2, <1>3, <1>5, <1>6 DEF ListTypeOK, Store, AnyData
  <1>8. DataKept'
    <2>1. n \in Places /\ n # HeadNode /\ n # TailNode
      BY Distinct
    <2>2. /\ data'[HeadNode] = data[HeadNode] /\ data'[TailNode] = data[TailNode]
          /\ data'[n] = d /\ \A m \in Members : data'[m] = data[m]
      BY <1>2, <1>3, <1>4, <2>1, Distinct DEF Store, Stored
    <2> QED
      BY <1>4, <2>2 DEF DataKept, ListInv
  <1>9. Items' = Objects(e, list'.members_count, data')
    <2>1. Items' = SeqOf(list', data')
      BY DEF Items, SeqOf
    <2> QED
      BY <1>4, <1>5, <2>1, SeqOfIs
  <1>10. Items = Objects(c, list.members_count, data)
    BY <1>1, ItemsAre DEF ListInv
  <1>11. Objects(e, list.members_count + 1, data')
           = Append(Objects(c, list.members_count, data), d)
    BY <1>1, <1>2, <1>3, <1>4, <1>6, ObjectsAppended
  <1>12. Items' = Append(Items, d)
    BY <1>2, <1>5, <1>9, <1>10, <1>11
  <1>13. Answer' = << >>
    BY <1>2 DEF Answer
  <1> QED
    BY <1>5, <1>7, <1>8, <1>12, <1>13 DEF ListInv, D!PushRight

LEMMA AppendLeftCall ==
  ASSUME ListInv, NEW d \in Data, ListAppendLeft(d)
  PROVE  ListInv' /\ list'.members_count = list.members_count + 1 /\ D!PushLeft(d)
  <1>1. PICK c : Linked(list, Members, c)
    BY DEF ListInv
  <1>2. PICK n \in Nodes \ heap :
          /\ list' = AppendedLeft(list, n) /\ data' = Stored(data, n, d)
          /\ heap' = heap \union {n} /\ held' = held /\ ret' = NULL
    BY DEF ListAppendLeft, Stored
  <1> DEFINE e == Inserted(c, list.members_count, 1, n)
  <1>3. /\ list \in Lists /\ data \in Store /\ Members \in SUBSET Nodes
        /\ held \subseteq heap /\ heap \subseteq Nodes
    BY ListTypes DEF ListInv
  <1>4. n \in Nodes \ Members /\ Members' = Members \union {n} /\ Members' \in SUBSET Nodes
    BY <1>2, <1>3 DEF Members
  <1>5. /\ list' \in Lists /\ list'.members_count = list.members_count + 1
        /\ Linked(list', Members', e)
    BY <1>1, <1>2, <1>3, <1>4, AppendedLeftLinked
  <1>6. data' \in Store /\ d \in AnyData
    BY <1>2, <1>3, <1>4 DEF Store, AnyData, Stored
  <1>7. ListTypeOK'
    BY <1>2, <1>3, <1>5, <1>6 DEF ListTypeOK, Store, AnyData
  <1>8. DataKept'
    <2>1. n \in Places /\ n # HeadNode /\ n # TailNode
      BY Distinct
    <2>2. /\ data'[HeadNode] = data[HeadNode] /\ data'[TailNode] = data[TailNode]
          /\ data'[n] = d /\ \A m \in Members : data'[m] = data[m]
      BY <1>2, <1>3, <1>4, <2>1, Distinct DEF Store, Stored
    <2> QED
      BY <1>4, <2>2 DEF DataKept, ListInv
  <1>9. Items' = Objects(e, list'.members_count, data')
    <2>1. Items' = SeqOf(list', data')
      BY DEF Items, SeqOf
    <2> QED
      BY <1>4, <1>5, <2>1, SeqOfIs
  <1>10. Items = Objects(c, list.members_count, data)
    BY <1>1, ItemsAre DEF ListInv
  <1>11. Objects(e, list.members_count + 1, data')
           = <<d>> \o Objects(c, list.members_count, data)
    BY <1>1, <1>2, <1>3, <1>4, <1>6, ObjectsAppendedLeft
  <1>12. Items' = <<d>> \o Items
    BY <1>2, <1>5, <1>9, <1>10, <1>11
  <1>13. Answer' = << >>
    BY <1>2 DEF Answer
  <1> QED
    BY <1>5, <1>7, <1>8, <1>12, <1>13 DEF ListInv, D!PushLeft

(* A member goes: what pop, pop left and remove have in common.            *)
LEMMA MemberGoes ==
  ASSUME ListInv, NEW c, Linked(list, Members, c), NEW p \in 1..list.members_count,
         list' \in Lists, list'.members_count = list.members_count - 1,
         Linked(list', Members \ {c[p]}, Without(c, list.members_count, p)),
         Members' = Members \ {c[p]}, held' \subseteq heap', heap' \subseteq heap,
         data' = data, ret' \in Places \union {NULL}
  PROVE  /\ ListInv'
         /\ Items \in Seq(AnyData) /\ Len(Items) = list.members_count
         /\ p \in 1..Len(Items) /\ Items # << >> /\ Items[p] = data[c[p]]
         /\ Items' = Deleted(Items, p)
  <1>1. /\ list \in Lists /\ data \in Store /\ Members \in SUBSET Nodes
        /\ held \subseteq heap /\ heap \subseteq Nodes
    BY ListTypes DEF ListInv
  <1>2. ListTypeOK'
    BY <1>1 DEF ListTypeOK, Store, AnyData
  <1>3. DataKept'
    BY DEF DataKept, ListInv
  <1>4. ListInv'
    BY <1>2, <1>3 DEF ListInv
  <1>5. Items' = Objects(Without(c, list.members_count, p), list.members_count - 1, data)
    <2>1. Items' = SeqOf(list', data')
      BY DEF Items, SeqOf
    <2>2. Members \ {c[p]} \in SUBSET Nodes
      BY <1>1
    <2> QED
      BY <2>1, <2>2, SeqOfIs
  <1>6. /\ Items = Objects(c, list.members_count, data)
        /\ Items \in Seq(AnyData) /\ Len(Items) = list.members_count
        /\ \A i \in 1..list.members_count : Items[i] = data[c[i]]
    BY ItemsAre DEF ListInv
  <1>7. Items' = Deleted(Items, p)
    <2>1. Objects(Without(c, list.members_count, p), list.members_count - 1, data)
            = Deleted(Objects(c, list.members_count, data), p)
      <3>1. LosesOne(c, list.members_count, p, data)
        BY <1>1, ObjectsWithout
      <3> QED
        BY <3>1 DEF LosesOne
    <2> QED
      BY <1>5, <1>6, <2>1
  <1>8. Items # << >>
    BY <1>6, EmptySeq
  <1> QED
    BY <1>4, <1>6, <1>7, <1>8

LEMMA PopCall ==
  ASSUME ListInv, ListPop
  PROVE  ListInv' /\ list'.members_count = list.members_count - 1 /\ D!Pop
  <1>1. PICK c : Linked(list, Members, c)
    BY DEF ListInv
  <1> DEFINE k == list.members_count
             n == list.prev[TailNode]
  <1>2. /\ k # 0 /\ ret' = n /\ held' = held \union {n} /\ list' = Popped(list)
        /\ data' = data /\ heap' = heap
    BY DEF ListPop, IsEmpty
  <1>3. /\ list \in Lists /\ Members \in SUBSET Nodes /\ held \subseteq heap
    BY ListTypes DEF ListInv
  <1>4. /\ k \in 1..k /\ n = c[k] /\ list' \in Lists /\ list'.members_count = k - 1
        /\ Linked(list', Members \ {c[k]}, Without(c, k, k))
    BY <1>1, <1>2, <1>3, PoppedLinked
  <1>5. n \in Members /\ n \in Places /\ n # NULL
    <2>1. c[k] \in Members
      BY <1>1, <1>4 DEF Linked
    <2> QED
      BY <1>3, <1>4, <2>1, Distinct
  <1> HIDE DEF k, n
  <1>6. Members' = Members \ {c[k]} /\ held' \subseteq heap'
    BY <1>2, <1>3, <1>4, <1>5 DEF Members
  <1>7. /\ ListInv' /\ Items \in Seq(AnyData) /\ Len(Items) = k /\ k \in 1..Len(Items)
        /\ Items # << >> /\ Items[k] = data[n] /\ Items' = Deleted(Items, k)
    BY <1>1, <1>2, <1>4, <1>5, <1>6, MemberGoes DEF k
  <1>8. Items' = SubSeq(Items, 1, Len(Items) - 1)
    BY <1>7, DeletedIs
  <1>9. Answer' = <<Items[Len(Items)]>>
    BY <1>2, <1>5, <1>7 DEF Answer
  <1> QED
    BY <1>4, <1>7, <1>8, <1>9 DEF D!Pop, k

LEMMA PopLeftCall ==
  ASSUME ListInv, ListPopLeft
  PROVE  ListInv' /\ list'.members_count = list.members_count - 1 /\ D!PopLeft
  <1>1. PICK c : Linked(list, Members, c)
    BY DEF ListInv
  <1> DEFINE k == list.members_count
             n == list.next[HeadNode]
  <1>2. /\ k # 0 /\ ret' = n /\ held' = held \union {n} /\ list' = PoppedLeft(list)
        /\ data' = data /\ heap' = heap
    BY DEF ListPopLeft, IsEmpty
  <1>3. /\ list \in Lists /\ Members \in SUBSET Nodes /\ held \subseteq heap
    BY ListTypes DEF ListInv
  <1>4. /\ 1 \in 1..k /\ n = c[1] /\ list' \in Lists /\ list'.members_count = k - 1
        /\ Linked(list', Members \ {c[1]}, Without(c, k, 1))
    BY <1>1, <1>2, <1>3, PoppedLeftLinked
  <1>5. n \in Members /\ n \in Places /\ n # NULL
    <2>1. c[1] \in Members
      BY <1>1, <1>4 DEF Linked
    <2> QED
      BY <1>3, <1>4, <2>1, Distinct
  <1> HIDE DEF k, n
  <1>6. Members' = Members \ {c[1]} /\ held' \subseteq heap'
    BY <1>2, <1>3, <1>4, <1>5 DEF Members
  <1>7. /\ ListInv' /\ Items \in Seq(AnyData) /\ 1 \in 1..Len(Items)
        /\ Items # << >> /\ Items[1] = data[n] /\ Items' = Deleted(Items, 1)
    BY <1>1, <1>2, <1>4, <1>5, <1>6, MemberGoes DEF k
  <1>8. Items' = Tail(Items)
    BY <1>7, DeletedIs
  <1>9. Answer' = <<Head(Items)>>
    <2>1. Head(Items) = Items[1]
      BY <1>7
    <2> QED
      BY <1>2, <1>5, <1>7, <2>1 DEF Answer
  <1> QED
    BY <1>4, <1>7, <1>8, <1>9 DEF D!PopLeft, k

LEMMA RemoveCall ==
  ASSUME ListInv, NEW n \in Members, ListRemove(n)
  PROVE  /\ ListInv' /\ list'.members_count = list.members_count - 1
         /\ \E p \in 1..Len(Items) : D!RemoveAt(p)
  <1>1. PICK c : Linked(list, Members, c)
    BY DEF ListInv
  <1>2. PICK p \in 1..list.members_count : c[p] = n
    BY <1>1 DEF Linked
  <1>3. /\ ret' = NULL /\ held' = held /\ list' = Removed(list, n)
        /\ data' = data /\ heap' = heap \ {n}
    BY DEF ListRemove
  <1>4. list \in Lists /\ Members \in SUBSET Nodes /\ held \subseteq heap
    BY ListTypes DEF ListInv
  <1>5. /\ list' \in Lists /\ list'.members_count = list.members_count - 1
        /\ Linked(list', Members \ {c[p]}, Without(c, list.members_count, p))
    BY <1>1, <1>2, <1>3, <1>4, RemovedLinked
  <1>6. Members' = Members \ {c[p]} /\ held' \subseteq heap' /\ heap' \subseteq heap
    BY <1>2, <1>3, <1>4 DEF Members
  <1>7. ListInv' /\ p \in 1..Len(Items) /\ Items' = Deleted(Items, p)
    BY <1>1, <1>3, <1>5, <1>6, MemberGoes
  <1>8. Answer' = << >>
    BY <1>3 DEF Answer
  <1>9. D!RemoveAt(p)
    BY <1>7, <1>8 DEF D!RemoveAt, Deleted
  <1> QED
    BY <1>5, <1>7, <1>9

LEMMA ClearCall ==
  ASSUME ListInv, ListClear
  PROVE  ListInv' /\ list'.members_count = 0 /\ D!Clear
  <1>1. PICK c : Linked(list, Members, c)
    BY DEF ListInv
  <1>2. /\ ret' = NULL /\ held' = held /\ list' = Cleared(list)
        /\ data' = data /\ heap' = held
    BY DEF ListClear
  <1>3. /\ list \in Lists /\ data \in Store /\ Members \in SUBSET Nodes
        /\ held \subseteq heap /\ heap \subseteq Nodes
    BY ListTypes DEF ListInv
  <1>4. PICK e : Linked(Cleared(list), {}, e)
    BY <1>1, <1>3, ClearedLinked
  <1>5. list' \in Lists /\ list'.members_count = 0
    BY <1>1, <1>2, <1>3, ClearedLinked
  <1>6. Members' = {}
    BY <1>2 DEF Members
  <1>7. ListTypeOK'
    BY <1>2, <1>3, <1>5 DEF ListTypeOK, Store, AnyData
  <1>8. DataKept'
    BY <1>2, <1>6 DEF DataKept, ListInv
  <1>9. ListInv'
    BY <1>2, <1>4, <1>6, <1>7, <1>8 DEF ListInv
  <1>10. Items' = << >>
    <2>1. Items' = SeqOf(list', data')
      BY DEF Items, SeqOf
    <2> QED
      BY <1>5, <2>1 DEF SeqOf
  <1>11. Answer' = << >>
    BY <1>2 DEF Answer
  <1> QED
    BY <1>5, <1>9, <1>10, <1>11 DEF D!Clear

(* A call that only looks, and one that frees a popped node.               *)
LEMMA LooksKeep ==
  ASSUME ListInv, list' = list, data' = data, Members' = Members,
         held' \subseteq heap', heap' \subseteq heap, ret' \in Places \union {NULL}
  PROVE  ListInv' /\ Items' = Items
  <1>1. ListTypeOK'
    BY DEF ListInv, ListTypeOK
  <1>2. DataKept'
    BY DEF ListInv, DataKept
  <1>3. PICK c : Linked(list, Members, c)
    BY DEF ListInv
  <1>4. Linked(list', Members', c)
    BY <1>3
  <1>5. Items' = Items
    BY DEF Items
  <1> QED
    BY <1>1, <1>2, <1>4, <1>5 DEF ListInv

LEMMA UnchangedCall ==
  ASSUME ListInv, ListUnchanged
  PROVE  ListInv' /\ D!Nothing
  <1>1. /\ ret' = NULL /\ list' = list /\ data' = data /\ Members' = Members
        /\ held' \subseteq heap' /\ heap' \subseteq heap
    BY ListTypes DEF ListInv, ListUnchanged, Members
  <1>2. ListInv' /\ Items' = Items
    BY <1>1, LooksKeep
  <1> QED
    BY <1>1, <1>2 DEF D!Nothing, Answer

LEMMA FreeCall ==
  ASSUME ListInv, NEW n \in held, Free(n)
  PROVE  ListInv' /\ D!Nothing
  <1>1. /\ ret' = NULL /\ list' = list /\ data' = data /\ Members' = Members
        /\ held' \subseteq heap' /\ heap' \subseteq heap
    BY ListTypes DEF ListInv, Free, Members
  <1>2. ListInv' /\ Items' = Items
    BY <1>1, LooksKeep
  <1> QED
    BY <1>1, <1>2 DEF D!Nothing, Answer

(* The neighbours of the sentinels are the ends of the sequence.           *)
LEMMA EndItems ==
  ASSUME ListInv, ~IsEmpty
  PROVE  /\ Items # << >>
         /\ list.next[HeadNode] \in Places /\ data[list.next[HeadNode]] = Head(Items)
         /\ list.prev[TailNode] \in Places /\ data[list.prev[TailNode]] = Items[Len(Items)]
  <1>1. PICK c : Linked(list, Members, c)
    BY DEF ListInv
  <1> DEFINE k == list.members_count
  <1>2. /\ k \in Nat /\ k # 0 /\ list.next[HeadNode] = c[1] /\ list.prev[TailNode] = c[k]
        /\ \A i \in 0..k + 1 : c[i] \in Places
    BY <1>1, ListTypes, Ends DEF ListInv, IsEmpty
  <1>3. /\ Items \in Seq(AnyData) /\ Len(Items) = k
        /\ \A i \in 1..k : Items[i] = data[c[i]]
    BY <1>1, ItemsAre DEF ListInv
  <1> HIDE DEF k
  <1>4. /\ 1 \in 1..k /\ k \in 1..k /\ 1 \in 0..k + 1 /\ k \in 0..k + 1
    BY <1>2
  <1>5. Items # << >>
    BY <1>2, <1>3, EmptySeq
  <1>6. Head(Items) = Items[1]
    BY <1>3
  <1> QED
    BY <1>2, <1>3, <1>4, <1>5, <1>6

LEMMA FirstCall ==
  ASSUME ListInv, ListFirst
  PROVE  ListInv' /\ (D!First \/ D!Nothing)
  <1>1. /\ ret' = IF IsEmpty THEN NULL ELSE list.next[HeadNode]
        /\ list' = list /\ data' = data /\ Members' = Members
        /\ held' \subseteq heap' /\ heap' \subseteq heap
    BY ListTypes DEF ListInv, ListFirst, Members
  <1>2. CASE IsEmpty
    BY <1>1, <1>2, LooksKeep DEF D!Nothing, Answer
  <1>3. CASE ~IsEmpty
    <2>1. /\ Items # << >> /\ ret' \in Places /\ ret' # NULL /\ data[ret'] = Head(Items)
      BY <1>1, <1>3, EndItems, Distinct
    <2>2. ListInv' /\ Items' = Items
      BY <1>1, <2>1, LooksKeep
    <2> QED
      BY <1>1, <2>1, <2>2 DEF D!First, Answer
  <1> QED
    BY <1>2, <1>3

LEMMA LastCall ==
  ASSUME ListInv, ListLast
  PROVE  ListInv' /\ (D!Last \/ D!Nothing)
  <1>1. /\ ret' = IF IsEmpty THEN NULL ELSE list.prev[TailNode]
        /\ list' = list /\ data' = data /\ Members' = Members
        /\ held' \subseteq heap' /\ heap' \subseteq heap
    BY ListTypes DEF ListInv, ListLast, Members
  <1>2. CASE IsEmpty
    BY <1>1, <1>2, LooksKeep DEF D!Nothing, Answer
  <1>3. CASE ~IsEmpty
    <2>1. /\ Items # << >> /\ ret' \in Places /\ ret' # NULL
          /\ data[ret'] = Items[Len(Items)]
      BY <1>1, <1>3, EndItems, Distinct
    <2>2. ListInv' /\ Items' = Items
      BY <1>1, <2>1, LooksKeep
    <2> QED
      BY <1>1, <2>1, <2>2 DEF D!Last, Answer
  <1> QED
    BY <1>2, <1>3

(* The walk of find stops at the first node with the object, if there is   *)
(* one, and else at the tail or behind it.                                 *)
LEMMA FindCall ==
  ASSUME ListInv, NEW d \in AnyData, ListFind(d)
  PROVE  ListInv' /\ (IF d \in Data THEN D!Find(d) ELSE D!FindNull)
  <1> DEFINE k == list.members_count
             walk == IF IsEmpty THEN << >> ELSE Chain(list, k)
             found == {i \in DOMAIN walk : data[walk[i]] = d}
             least == CHOOSE i \in found : \A q \in found : i <= q
  <1>1. PICK c : Linked(list, Members, c)
    BY DEF ListInv
  <1>2. /\ ret' = IF found = {} THEN NULL ELSE walk[least]
        /\ list' = list /\ data' = data /\ Members' = Members
        /\ held' \subseteq heap' /\ heap' \subseteq heap
    BY ListTypes DEF ListInv, ListFind, Members
  <1>3. /\ list \in Lists /\ Members \in SUBSET Nodes
    BY ListTypes DEF ListInv
  <1>4. /\ k \in Nat /\ c[k + 1] = TailNode /\ \A i \in 0..k + 1 : c[i] \in Places
    BY <1>1, <1>3, Ends
  <1>5. /\ Len(Items) = k /\ \A i \in 1..k : Items[i] = data[c[i]]
    BY <1>1, ItemsAre DEF ListInv
  <1>6. Chain(list, k) = [i \in 1..k + 1 |-> c[i]]
    BY <1>1, <1>3, ChainIs
  <1>7. IsEmpty <=> k = 0
    BY DEF IsEmpty
  <1>8. data[TailNode] = NoData
    BY DEF ListInv, DataKept
  <1> HIDE DEF k
  <1>9. /\ found \subseteq 1..k + 1
        /\ \A i \in found : walk[i] = c[i] /\ walk[i] \in Places /\ data[walk[i]] = d
    <2>1. CASE IsEmpty
      BY <2>1
    <2>2. CASE ~IsEmpty
      <3>1. walk = [i \in 1..k + 1 |-> c[i]]
        BY <1>6, <2>2
      <3>2. \A i \in 1..k + 1 : i \in 0..k + 1
        BY <1>4
      <3> HIDE DEF walk
      <3> QED
        BY <1>4, <3>1, <3>2
    <2> QED
      BY <2>1, <2>2
  <1>10. \A i \in 1..k : Items[i] = d => i \in found
    <2> SUFFICES ASSUME NEW i \in 1..k, Items[i] = d PROVE i \in found
      OBVIOUS
    <2>1. ~IsEmpty /\ i \in 1..k + 1
      BY <1>4, <1>7
    <2>2. walk = [q \in 1..k + 1 |-> c[q]]
      BY <1>6, <2>1
    <2> HIDE DEF walk
    <2> QED
      BY <1>5, <2>1, <2>2
  <1>11. d = NoData => (found = {} <=> k = 0)
    <2> SUFFICES ASSUME d = NoData PROVE found = {} <=> k = 0
      OBVIOUS
    <2>1. CASE IsEmpty
      BY <1>7, <2>1
    <2>2. CASE ~IsEmpty
      <3>1. walk = [q \in 1..k + 1 |-> c[q]]
        BY <1>6, <2>2
      <3>2. k + 1 \in 1..k + 1
        BY <1>4
      <3> HIDE DEF walk
      <3>3. k + 1 \in found
        BY <1>4, <1>8, <3>1, <3>2
      <3> QED
        BY <1>7, <2>2, <3>3
    <2> QED
      BY <2>1, <2>2
  <1> HIDE DEF walk, found
  <1>12. ASSUME found # {} PROVE least \in found
    <2>1. found \in SUBSET Nat
      BY <1>4, <1>9
    <2> QED
      BY <1>12, <2>1, LeastMember
  <1> HIDE DEF least
  <1>13. ret' \in Places \union {NULL} /\ Answer' = IF found = {} THEN << >> ELSE <<d>>
    <2>1. CASE found = {}
      BY <1>2, <2>1 DEF Answer
    <2>2. CASE found # {}
      <3>1. ret' = walk[least] /\ ret' \in Places /\ data[ret'] = d
        BY <1>2, <1>9, <1>12, <2>2
      <3> QED
        BY <1>2, <2>2, <3>1, Distinct DEF Answer
    <2> QED
      BY <2>1, <2>2
  <1>14. ListInv' /\ Items' = Items
    BY <1>2, <1>13, LooksKeep
  <1>15. CASE d \in Data
    <2>1. found # {} => \E i \in 1..k : Items[i] = d
      <3> SUFFICES ASSUME found # {} PROVE least \in 1..k /\ Items[least] = d
        OBVIOUS
      <3>1. least \in 1..k + 1 /\ data[c[least]] = d
        BY <1>9, <1>12
      <3>2. least # k + 1
        BY <1>4, <1>8, <1>15, <3>1
      <3>3. least \in 1..k
        BY <1>4, <3>1, <3>2
      <3> QED
        BY <1>5, <3>1, <3>3
    <2>2. Answer' = IF \E i \in 1..Len(Items) : Items[i] = d THEN <<d>> ELSE << >>
      BY <1>5, <1>10, <1>13, <2>1
    <2> QED
      BY <1>14, <1>15, <2>2 DEF D!Find
  <1>16. CASE d \notin Data
    <2>1. d = NoData
      BY <1>16 DEF AnyData
    <2>2. k = 0 <=> Items = << >>
      BY <1>1, <1>5, ItemsAre, EmptySeq DEF ListInv
    <2> QED
      BY <1>13, <1>14, <1>16, <1>11, <2>1, <2>2 DEF D!FindNull
  <1> QED
    BY <1>15, <1>16

-----------------------------------------------------------------------------
(* The queue.  The inductive invariant: the types, the links, the area.    *)

QInv == TypeOK /\ ListInv /\ AreaIsIntegral

LEMMA Products ==
  ASSUME NEW a \in Nat, NEW b \in Nat
  PROVE  a * b \in Nat
  OBVIOUS

LEMMA CountIsNat ==
  ASSUME ListInv
  PROVE  list.members_count \in Nat
  BY DEF ListInv, Linked

(* A call that changes the list is a step of the sequence.                 *)
LEMMA EnqueueStep ==
  ASSUME ListInv, TimedQueueEnqueue
  PROVE  ListInv' /\ list'.members_count = list.members_count + 1 /\ D!Next
  BY AppendCall DEF TimedQueueEnqueue, D!Next

LEMMA DequeueFrontStep ==
  ASSUME ListInv, TimedQueueDequeueFront
  PROVE  ListInv' /\ list'.members_count = list.members_count - 1 /\ D!Next
  BY PopLeftCall DEF TimedQueueDequeueFront, D!Next

LEMMA ChangesStep ==
  ASSUME ListInv, Changes
  PROVE  ListInv' /\ D!Next /\ last_interaction_time_us' = now
  <1>1. last_interaction_time_us' = now
    BY DEF Changes, Noted, TimedQueueEnqueue, TimedQueueEnqueueFront, TimedQueueDequeue,
           TimedQueueDequeueFront, TimedQueueRemove, TimedQueueClear
  <1>2. CASE TimedQueueEnqueue
    BY <1>1, <1>2, EnqueueStep
  <1>3. CASE TimedQueueEnqueueFront
    BY <1>1, <1>3, AppendLeftCall DEF TimedQueueEnqueueFront, D!Next
  <1>4. CASE TimedQueueDequeue
    BY <1>1, <1>4, PopCall DEF TimedQueueDequeue, D!Next
  <1>5. CASE TimedQueueDequeueFront
    BY <1>1, <1>5, DequeueFrontStep
  <1>6. CASE TimedQueueRemove
    <2>1. PICK n \in Members : ListRemove(n)
      BY <1>6 DEF TimedQueueRemove
    <2>2. ListInv' /\ \E p \in 1..Len(Items) : D!RemoveAt(p)
      BY <2>1, RemoveCall
    <2> QED
      BY <1>1, <2>2 DEF D!Next
  <1>7. CASE TimedQueueClear
    BY <1>1, <1>7, ClearCall DEF TimedQueueClear, D!Next
  <1> QED
    BY <1>2, <1>3, <1>4, <1>5, <1>6, <1>7 DEF Changes

LEMMA ReadsStep ==
  ASSUME ListInv, Reads
  PROVE  ListInv' /\ list' = list /\ D!Next
  <1>0. list' = list
    BY DEF Reads, ListUnchanged, ListFirst, ListLast, ListFind, Free
  <1>1. CASE ListUnchanged
    BY <1>0, <1>1, UnchangedCall DEF D!Next
  <1>2. CASE ListFirst
    BY <1>0, <1>2, FirstCall DEF D!Next
  <1>3. CASE ListLast
    BY <1>0, <1>3, LastCall DEF D!Next
  <1>4. CASE \E d \in Data \union {NoData} : ListFind(d)
    <2>1. PICK d \in AnyData : ListFind(d)
      BY <1>4 DEF AnyData
    <2>2. ListInv' /\ IF d \in Data THEN D!Find(d) ELSE D!FindNull
      BY <2>1, FindCall
    <2> QED
      BY <1>0, <2>2 DEF D!Next
  <1>5. CASE \E n \in held : Free(n)
    BY <1>0, <1>5, FreeCall DEF D!Next
  <1> QED
    BY <1>1, <1>2, <1>3, <1>4, <1>5 DEF Reads

LEMMA QueueStep ==
  ASSUME QInv, [Next]_vars
  PROVE  QInv' /\ [D!Next]_<<Items, Answer>>
  <1> DEFINE n == list.members_count
             since == now - last_interaction_time_us
  <1>1. ListInv
    BY DEF QInv
  <1>2. /\ n \in Nat /\ now \in 0..MaxTime /\ last_interaction_time_us \in 0..now
        /\ area_num_in_job_queue_us \in Nat /\ length_integral \in Nat
        /\ only_jobs \in BOOLEAN /\ since \in Nat
    BY <1>1, CountIsNat DEF QInv, TypeOK
  <1>3. only_jobs => area_num_in_job_queue_us + since * n = length_integral
    BY DEF QInv, AreaIsIntegral
  <1>4. since * n \in Nat
    BY <1>2, Products
  <1>5. CASE Tick
    <2>1. /\ now < MaxTime /\ now' = now + 1
          /\ length_integral' = length_integral + n
          /\ list' = list /\ data' = data /\ heap' = heap /\ held' = held /\ ret' = ret
          /\ last_interaction_time_us' = last_interaction_time_us
          /\ area_num_in_job_queue_us' = area_num_in_job_queue_us
          /\ only_jobs' = only_jobs
      BY <1>5 DEF Tick, listVars, queueVars
    <2>2. ListInv' /\ UNCHANGED <<Items, Answer>>
      <3>1. ListInv'
        BY <1>1, <2>1 DEF ListInv, ListTypeOK, DataKept, Members
      <3>2. UNCHANGED <<Items, Answer>>
        BY <2>1 DEF Items, Answer
      <3> QED
        BY <3>1, <3>2
    <2>3. TypeOK'
      BY <1>2, <2>1, <2>2 DEF TypeOK, ListInv
    <2>4. AreaIsIntegral'
      <3>1. now' - last_interaction_time_us' = since + 1 /\ list'.members_count = n
        BY <1>2, <2>1
      <3>2. (since + 1) * n = since * n + n
        BY <1>2
      <3> QED
        BY <1>2, <1>3, <1>4, <2>1, <3>1, <3>2 DEF AreaIsIntegral
    <2> QED
      BY <2>2, <2>3, <2>4 DEF QInv
  <1>6. CASE Changes
    <2>1. ListInv' /\ D!Next /\ last_interaction_time_us' = now
      BY <1>1, <1>6, ChangesStep
    <2>2. /\ only_jobs' = FALSE /\ now' = now /\ length_integral' = length_integral
          /\ area_num_in_job_queue_us' = area_num_in_job_queue_us
      BY <1>6 DEF Changes, clockVars
    <2>3. TypeOK'
      <3>1. only_jobs' \in BOOLEAN
        BY <2>2
      <3>2. last_interaction_time_us' \in 0..now' /\ now' \in 0..MaxTime
        BY <1>2, <2>1, <2>2
      <3> QED
        BY <1>2, <2>1, <2>2, <3>1, <3>2 DEF TypeOK, ListInv
    <2> QED
      BY <2>1, <2>2, <2>3 DEF QInv, AreaIsIntegral
  <1>7. CASE Reads
    <2>1. ListInv' /\ list' = list /\ D!Next
      BY <1>1, <1>7, ReadsStep
    <2>2. /\ only_jobs' = only_jobs /\ now' = now /\ length_integral' = length_integral
          /\ area_num_in_job_queue_us' = area_num_in_job_queue_us
          /\ last_interaction_time_us' = last_interaction_time_us
      BY <1>7 DEF Reads, queueVars, clockVars
    <2>3. TypeOK'
      BY <1>2, <2>1, <2>2 DEF TypeOK, ListInv
    <2>4. AreaIsIntegral'
      BY <1>3, <2>1, <2>2 DEF AreaIsIntegral
    <2> QED
      BY <2>1, <2>3, <2>4 DEF QInv
  <1>8. ASSUME ListInv', D!Next, last_interaction_time_us' = now,
               area_num_in_job_queue_us' = area_num_in_job_queue_us + since * n,
               UNCHANGED <<only_jobs, clockVars>>
        PROVE  QInv' /\ [D!Next]_<<Items, Answer>>
    <2>1. only_jobs' = only_jobs /\ now' = now /\ length_integral' = length_integral
      BY <1>8 DEF clockVars
    <2>2. TypeOK'
      BY <1>2, <1>4, <1>8, <2>1 DEF TypeOK, ListInv
    <2>3. AreaIsIntegral'
      <3>1. list'.members_count \in Nat
        BY <1>8 DEF ListInv, Linked
      <3>2. now' - last_interaction_time_us' = 0
        BY <1>2, <1>8, <2>1
      <3>3. (now' - last_interaction_time_us') * list'.members_count = 0
        BY <3>1, <3>2
      <3> QED
        BY <1>2, <1>3, <1>4, <1>8, <2>1, <3>3 DEF AreaIsIntegral
    <2> QED
      BY <1>8, <2>2, <2>3 DEF QInv
  <1>9. CASE JobEnters
    <2>1. ListInv' /\ list'.members_count = n + 1 /\ D!Next
      BY <1>1, <1>9, EnqueueStep DEF JobEnters
    <2>2. (n + 1) - 1 = n
      BY <1>2
    <2>3. area_num_in_job_queue_us' = area_num_in_job_queue_us + since * n
      BY <1>9, <2>1, <2>2 DEF JobEnters, AreaOfArrival
    <2>4. last_interaction_time_us' = now
      BY <1>9 DEF JobEnters, TimedQueueEnqueue, Noted
    <2>5. UNCHANGED <<only_jobs, clockVars>>
      BY <1>9 DEF JobEnters
    <2> QED
      BY <1>8, <2>1, <2>3, <2>4, <2>5
  <1>10. CASE JobLeaves
    <2>1. ListInv' /\ list'.members_count = n - 1 /\ D!Next
      BY <1>1, <1>10, DequeueFrontStep DEF JobLeaves
    <2>2. (n - 1) + 1 = n
      BY <1>2
    <2>3. area_num_in_job_queue_us' = area_num_in_job_queue_us + since * n
      BY <1>10, <2>1, <2>2 DEF JobLeaves, AreaOfDeparture
    <2>4. last_interaction_time_us' = now
      BY <1>10 DEF JobLeaves, TimedQueueDequeueFront, Noted
    <2>5. UNCHANGED <<only_jobs, clockVars>>
      BY <1>10 DEF JobLeaves
    <2> QED
      BY <1>8, <2>1, <2>3, <2>4, <2>5
  <1>11. CASE UNCHANGED vars
    <2>1. /\ list' = list /\ data' = data /\ heap' = heap /\ held' = held /\ ret' = ret
          /\ now' = now /\ length_integral' = length_integral /\ only_jobs' = only_jobs
          /\ area_num_in_job_queue_us' = area_num_in_job_queue_us
          /\ last_interaction_time_us' = last_interaction_time_us
      BY <1>11 DEF vars, listVars, queueVars, clockVars
    <2>2. ListInv'
      BY <1>1, <2>1 DEF ListInv, ListTypeOK, DataKept, Members
    <2>3. UNCHANGED <<Items, Answer>>
      BY <2>1 DEF Items, Answer
    <2>4. TypeOK' /\ AreaIsIntegral'
      BY <1>2, <1>3, <2>1, <2>2 DEF TypeOK, ListInv, AreaIsIntegral
    <2> QED
      BY <2>2, <2>3, <2>4 DEF QInv
  <1> QED
    BY <1>5, <1>6, <1>7, <1>9, <1>10, <1>11 DEF Next

LEMMA QueueInit ==
  ASSUME Init
  PROVE  QInv /\ D!Init
  <1>1. ListInv /\ list.members_count = 0 /\ ret = NULL
    BY ListInitInv DEF Init, ListInit
  <1>2. /\ now = 0 /\ last_interaction_time_us = 0 /\ area_num_in_job_queue_us = 0
        /\ length_integral = 0 /\ only_jobs = TRUE
    BY DEF Init
  <1>3. TypeOK
    BY <1>1, <1>2 DEF TypeOK, ListInv
  <1>4. AreaIsIntegral
    BY <1>1, <1>2 DEF AreaIsIntegral
  <1>5. Items = << >>
    BY <1>1 DEF Items
  <1>6. Answer = << >>
    BY <1>1 DEF Answer
  <1> QED
    BY <1>1, <1>3, <1>4, <1>5, <1>6 DEF QInv, D!Init

LEMMA LinksHold ==
  ASSUME ListInv
  PROVE  WellFormed
  <1>1. PICK c : Linked(list, Members, c)
    BY DEF ListInv
  <1> DEFINE n == list.members_count
             w == Chain(list, n)
             M == Members
  <1>2. list \in Lists /\ M \in SUBSET Nodes
    BY ListTypes DEF ListInv
  <1>3. /\ n \in Nat /\ c[0] = HeadNode /\ c[n + 1] = TailNode
        /\ c \in [0..n + 1 -> Places]
        /\ \A i, j \in 0..n + 1 : c[i] = c[j] => i = j
        /\ \A i \in 1..n : c[i] \in M
        /\ \A m \in M : \E i \in 1..n : c[i] = m
        /\ \A i \in 0..n : list.prev[c[i + 1]] = c[i]
    BY <1>1 DEF Linked
  <1>4. w = [i \in 1..n + 1 |-> c[i]]
    BY <1>1, <1>2, ChainIs
  <1> HIDE DEF n, w, M
  <1>5. \A i \in 1..n : i \in 1..n + 1 /\ i \in 0..n + 1
    BY <1>3
  <1>6. {w[i] : i \in 1..n} = M
    BY <1>3, <1>4, <1>5
  <1>7. Cardinality(M) = n
    <2> DEFINE f == [i \in 1..n |-> c[i]]
    <2>1. f \in Bijection(1..n, M)
      <3>1. f \in [1..n -> M]
        BY <1>3
      <3>2. \A i, j \in 1..n : f[i] = f[j] => i = j
        BY <1>3, <1>5
      <3>3. \A m \in M : \E i \in 1..n : f[i] = m
        BY <1>3
      <3> HIDE DEF f
      <3> QED
        BY <3>1, <3>2, <3>3, Fun_IsBij
    <2> HIDE DEF f
    <2>2. ExistsBijection(1..n, M)
      BY <2>1 DEF ExistsBijection
    <2> QED
      BY <1>3, <2>2, FS_CountingElements
  <1>8. w[n + 1] = TailNode
    BY <1>3, <1>4
  <1>9. \A i \in 1..n + 1 : list.prev[w[i]] = IF i = 1 THEN HeadNode ELSE w[i - 1]
    <2> TAKE i \in 1..n + 1
    <2>1. i - 1 \in 0..n /\ (i - 1) + 1 = i /\ (i # 1 => i - 1 \in 1..n + 1) /\ 1 - 1 = 0
      BY <1>3
    <2>2. list.prev[c[(i - 1) + 1]] = c[i - 1]
      BY <1>3, <2>1
    <2> QED
      BY <1>3, <1>4, <2>1, <2>2
  <1> QED
    BY <1>6, <1>7, <1>8, <1>9 DEF WellFormed, w, n, M

-----------------------------------------------------------------------------
LEMMA QueueInvariant == Spec => []QInv
  <1>1. Init => QInv
    BY QueueInit
  <1>2. QInv /\ [Next]_vars => QInv'
    BY QueueStep
  <1> QED
    BY <1>1, <1>2, PTL DEF Spec

(* The variables keep to their types, and the area never falls below 0.    *)
THEOREM QueueTypeCorrect == Spec => []TypeOK
  <1>1. QInv => TypeOK
    BY DEF QInv
  <1> QED
    BY <1>1, QueueInvariant, PTL

(* However the calls of src/linked_list.c follow one another, the links run*)
(* through every member once, members_count of them, forward and back.     *)
THEOREM LinksHoldTogether == Spec => []WellFormed
  <1>1. QInv => WellFormed
    BY LinksHold DEF QInv
  <1> QED
    BY <1>1, QueueInvariant, PTL

(* What the handlers of arrivals and departures add up is the integral of  *)
(* the queue length over time.                                             *)
THEOREM AreaUnderQueueLength == Spec => []AreaIsIntegral
  <1>1. QInv => AreaIsIntegral
    BY DEF QInv
  <1> QED
    BY <1>1, QueueInvariant, PTL

(* The doubly linked list implements a sequence: each call of it, in the   *)
(* order of its assignments to pointers, is the operation of Deque with its*)
(* name, and gives back a node, or none, as Deque does.                    *)
THEOREM DequeImplemented == Spec => ImplementsDeque
  <1>1. Init => D!Init
    BY QueueInit
  <1>2. QInv /\ [Next]_vars => [D!Next]_<<Items, Answer>>
    BY QueueStep
  <1> QED
    BY <1>1, <1>2, QueueInvariant, PTL DEF Spec, ImplementsDeque, D!Spec
=============================================================================
