-------------------------- MODULE TreeStepsProofs --------------------------
(***************************************************************************)
(* Tree for any keys, widths, threads and schedules, as long as no leaf is *)
(* taken out: whoever has gone down without locks is at a leaf that is     *)
(* responsible for its key.  TreeInv is inductive.                         *)
(*                                                                         *)
(* It gives each node x a range of slices, from lo[x] up to hi[x].  A      *)
(* split cuts a node's range before the node above knows; SepHi is what    *)
(* that one still leads to x, ReadHi what a thread that comes there may    *)
(* still find in x.  Frame is what a step of one thread leaves to the      *)
(* others: the nodes they own, and of the rest the versions that tell of   *)
(* each change they must not miss.                                         *)
(*                                                                         *)
(* Here: TreeInv, permutations, Frame, and the steps that add no node.     *)
(* TreeProofs has the splits and the theorems.                             *)
(***************************************************************************)
EXTENDS Tree, FiniteSets, FiniteSetTheorems, WellFoundedInduction, SequenceTheorems, TLAPS

(***************************************************************************)
(* What the operations on permutations give, and how positions are counted *)
(***************************************************************************)
Perm == [ord : [1 .. W -> Slot], size : 0 .. W]

\* What MakeEmpty, InsertFromBack, Remove, ... keep: no slot occurs twice.
PermOk(q) == q \in Perm /\ \A i, j \in 1 .. W : q.ord[i] = q.ord[j] => i = j

\* Every position leads to a slot, and to a slot of its own.
LEMMA Positions ==
  ASSUME NEW q, PermOk(q)
  PROVE  /\ q.size \in 0 .. W
         /\ \A i \in 0 .. W - 1 : At(q, i) \in Slot
         /\ \A i, j \in 0 .. W - 1 : At(q, i) = At(q, j) => i = j
         /\ InUse(q) \subseteq Slot
<1> USE WAssumption
<1>1. q.ord \in [1 .. W -> Slot] /\ q.size \in 0 .. W
  BY DEF PermOk, Perm
<1>2. \A i \in 0 .. W - 1 : At(q, i) \in Slot
  BY <1>1 DEF At
<1>3. \A i, j \in 0 .. W - 1 : At(q, i) = At(q, j) => i = j
  <2>1. SUFFICES ASSUME NEW i \in 0 .. W - 1, NEW j \in 0 .. W - 1, At(q, i) = At(q, j) PROVE i = j
    OBVIOUS
  <2>2. i + 1 \in 1 .. W /\ j + 1 \in 1 .. W
    OBVIOUS
  <2>3. QED
    BY <2>1, <2>2 DEF At, PermOk
<1>4. InUse(q) \subseteq Slot
  BY <1>1, <1>2 DEF InUse
<1>5. QED
  BY <1>1, <1>2, <1>3, <1>4

\* The slot at the back is free as long as one is.
LEMMA BackIsFree ==
  ASSUME NEW q, PermOk(q), q.size < W
  PROVE  Back(q) \in Slot /\ Back(q) \notin InUse(q)
<1> USE WAssumption
<1>1. Back(q) = At(q, W - 1) /\ W - 1 \in 0 .. W - 1
  BY DEF Back, At
<1>2. \A i \in 0 .. q.size - 1 : At(q, i) # Back(q)
  BY <1>1, Positions
<1>3. QED
  BY <1>1, <1>2, Positions DEF InUse

\* InsertFromBack puts the slot at the back at position i.
LEMMA PutIn ==
  ASSUME NEW q, PermOk(q), q.size < W, NEW i \in 0 .. q.size
  PROVE  LET r == InsertFromBack(q, i) IN
         /\ PermOk(r) /\ r.size = q.size + 1
         /\ InUse(r) = InUse(q) \cup {Back(q)}
         /\ \A j \in 0 .. i - 1 : At(r, j) = At(q, j)
         /\ At(r, i) = Back(q)
         /\ \A j \in i + 1 .. q.size : At(r, j) = At(q, j - 1)
<1> USE WAssumption
<1> DEFINE r == InsertFromBack(q, i)
<1>1. q.ord \in [1 .. W -> Slot] /\ q.size \in 0 .. W - 1
  BY DEF PermOk, Perm
<1>2. Back(q) \in Slot
  BY BackIsFree
<1>3. /\ r.size = q.size + 1 /\ DOMAIN r.ord = 1 .. W
      /\ \A j \in 1 .. W : r.ord[j] = IF j <= i THEN q.ord[j] ELSE IF j = i + 1 THEN Back(q) ELSE q.ord[j - 1]
      /\ r = [ord |-> r.ord, size |-> r.size]
      /\ r.ord = [j \in 1 .. W |-> r.ord[j]]
  BY DEF InsertFromBack
<1> HIDE DEF r
<1>4. \A j \in 1 .. W : r.ord[j] \in Slot
  <2>1. SUFFICES ASSUME NEW j \in 1 .. W PROVE r.ord[j] \in Slot
    OBVIOUS
  <2>2. CASE j <= i
    BY <1>1, <1>3, <2>2
  <2>3. CASE j = i + 1
    BY <1>2, <1>3, <2>3
  <2>4. CASE j > i + 1
    <3>1. j - 1 \in 1 .. W /\ r.ord[j] = q.ord[j - 1]
      BY <1>3, <2>4
    <3>2. QED
      BY <1>1, <3>1
  <2>5. QED
    BY <2>2, <2>3, <2>4
<1>5. r \in Perm
  BY <1>1, <1>3, <1>4 DEF Perm
<1>6. \A j, k \in 1 .. W : q.ord[j] = q.ord[k] => j = k
  BY DEF PermOk
<1>7. Back(q) = q.ord[W]
  BY DEF Back
<1>8. \A j, k \in 1 .. W : r.ord[j] = r.ord[k] => j = k
  <2>1. SUFFICES ASSUME NEW j \in 1 .. W, NEW k \in 1 .. W, r.ord[j] = r.ord[k], j < k PROVE FALSE
    OBVIOUS
  <2>2. CASE k <= i
    BY <1>1, <1>3, <1>6, <2>1, <2>2
  <2>3. CASE k = i + 1
    BY <1>1, <1>3, <1>6, <1>7, <2>1, <2>3
  <2>4. CASE k > i + 1
    <3>1. r.ord[k] = q.ord[k - 1] /\ k - 1 \in 1 .. W /\ k - 1 # W
      BY <1>3, <2>4
    <3>2. CASE j <= i
      BY <1>1, <1>3, <1>6, <2>1, <2>4, <3>1, <3>2
    <3>3. CASE j = i + 1
      BY <1>1, <1>3, <1>6, <1>7, <2>1, <2>4, <3>1, <3>3
    <3>4. CASE j > i + 1
      <4>1. r.ord[j] = q.ord[j - 1] /\ j - 1 \in 1 .. W
        BY <1>3, <3>4
      <4>2. QED
        BY <1>6, <2>1, <3>1, <4>1
    <3>5. QED
      BY <3>2, <3>3, <3>4
  <2>5. QED
    BY <2>2, <2>3, <2>4
<1>9. \A j \in 0 .. i - 1 : At(r, j) = At(q, j)
  BY <1>1, <1>3 DEF At
<1>10. At(r, i) = Back(q)
  BY <1>1, <1>3 DEF At
<1>11. \A j \in i + 1 .. q.size : At(r, j) = At(q, j - 1)
  <2>1. SUFFICES ASSUME NEW j \in i + 1 .. q.size PROVE r.ord[j + 1] = q.ord[(j - 1) + 1]
    BY DEF At
  <2>2. j + 1 \in 1 .. W /\ j + 1 > i + 1 /\ (j + 1) - 1 = (j - 1) + 1
    BY <1>1
  <2>3. QED
    BY <1>3, <2>2
<1>12. InUse(r) = InUse(q) \cup {Back(q)}
  <2>1. ASSUME NEW s \in InUse(r) PROVE s \in InUse(q) \cup {Back(q)}
    <3>1. PICK j \in 0 .. q.size : s = At(r, j)
      BY <1>1, <1>3, <2>1 DEF InUse
    <3>2. j < i \/ j = i \/ j - 1 \in 0 .. q.size - 1
      BY <1>1
    <3>3. QED
      BY <1>1, <1>9, <1>10, <1>11, <3>1, <3>2 DEF InUse
  <2>2. Back(q) \in InUse(r)
    BY <1>1, <1>3, <1>10 DEF InUse
  <2>3. ASSUME NEW s \in InUse(q) PROVE s \in InUse(r)
    <3>1. PICK j \in 0 .. q.size - 1 : s = At(q, j)
      BY <2>3 DEF InUse
    <3>2. CASE j < i
      BY <1>1, <1>3, <1>9, <3>1, <3>2 DEF InUse
    <3>3. CASE j >= i
      <4>1. j + 1 \in i + 1 .. q.size /\ j + 1 \in 0 .. r.size - 1 /\ (j + 1) - 1 = j
        BY <1>1, <1>3, <3>3
      <4>2. QED
        BY <1>11, <3>1, <4>1 DEF InUse
    <3>4. QED
      BY <1>1, <3>2, <3>3
  <2>4. QED
    BY <2>1, <2>2, <2>3
<1>13. QED
  BY <1>3, <1>5, <1>8, <1>9, <1>10, <1>11, <1>12 DEF PermOk, r

\* Remove takes the slot at position i out.
LEMMA TakenOut ==
  ASSUME NEW q, PermOk(q), NEW i \in 0 .. q.size - 1
  PROVE  LET r == Remove(q, i) IN
         /\ PermOk(r) /\ r.size = q.size - 1
         /\ InUse(r) = InUse(q) \ {At(q, i)}
         /\ \A j \in 0 .. i - 1 : At(r, j) = At(q, j)
         /\ \A j \in i .. q.size - 2 : At(r, j) = At(q, j + 1)
         /\ At(r, q.size - 1) = At(q, i)
<1> USE WAssumption
<1> DEFINE r == Remove(q, i)
<1>1. q.ord \in [1 .. W -> Slot] /\ q.size \in 1 .. W
  BY DEF PermOk, Perm
<1>2. At(q, i) = q.ord[i + 1]
  BY DEF At
<1>3. /\ r.size = q.size - 1 /\ DOMAIN r.ord = 1 .. W
      /\ \A j \in 1 .. W : r.ord[j] = IF j <= i \/ j > q.size THEN q.ord[j]
                                      ELSE IF j = q.size THEN q.ord[i + 1] ELSE q.ord[j + 1]
      /\ r = [ord |-> r.ord, size |-> r.size]
      /\ r.ord = [j \in 1 .. W |-> r.ord[j]]
  BY <1>2, SMTT(30) DEF Remove
<1> HIDE DEF r
<1>4. \A j \in 1 .. W : r.ord[j] \in Slot
  BY <1>1, <1>3, SMTT(30)
<1>5. r \in Perm
  BY <1>1, <1>3, <1>4 DEF Perm
<1>6. \A j, k \in 1 .. W : q.ord[j] = q.ord[k] => j = k
  BY DEF PermOk
<1>8. \A j, k \in 1 .. W : r.ord[j] = r.ord[k] => j = k
  <2>1. SUFFICES ASSUME NEW j \in 1 .. W, NEW k \in 1 .. W, r.ord[j] = r.ord[k] PROVE j = k
    OBVIOUS
  <2> DEFINE old(m) == IF m <= i \/ m > q.size THEN m ELSE IF m = q.size THEN i + 1 ELSE m + 1
  <2>2. old(j) \in 1 .. W /\ old(k) \in 1 .. W
    BY <1>1
  <2>3. r.ord[j] = q.ord[old(j)] /\ r.ord[k] = q.ord[old(k)]
    BY <1>1, <1>3
  <2>4. old(j) = old(k)
    BY <1>6, <2>1, <2>2, <2>3
  <2>5. QED
    BY <1>1, <2>4
<1>9. \A j \in 0 .. i - 1 : At(r, j) = At(q, j)
  BY <1>1, <1>3 DEF At
<1>10. \A j \in i .. q.size - 2 : At(r, j) = At(q, j + 1)
  <2>1. SUFFICES ASSUME NEW j \in i .. q.size - 2 PROVE r.ord[j + 1] = q.ord[(j + 1) + 1]
    BY DEF At
  <2>2. j + 1 \in 1 .. W /\ j + 1 > i /\ j + 1 < q.size
    BY <1>1
  <2>3. QED
    BY <1>1, <1>3, <2>2
<1>11. InUse(r) = InUse(q) \ {At(q, i)}
  <2>1. ASSUME NEW s \in InUse(r) PROVE s \in InUse(q) \ {At(q, i)}
    <3>1. PICK j \in 0 .. q.size - 2 : s = At(r, j)
      BY <1>1, <1>3, <2>1 DEF InUse
    <3>2. \E k \in 0 .. q.size - 1 : k # i /\ s = At(q, k)
      <4>1. CASE j < i
        BY <1>1, <1>9, <3>1, <4>1
      <4>2. CASE j >= i
        BY <1>1, <1>10, <3>1, <4>2
      <4>3. QED
        BY <1>1, <4>1, <4>2
    <3>3. QED
      BY <1>1, <3>2, Positions DEF InUse
  <2>2. ASSUME NEW s \in InUse(q) \ {At(q, i)} PROVE s \in InUse(r)
    <3>1. PICK j \in 0 .. q.size - 1 : s = At(q, j) /\ j # i
      BY <2>2 DEF InUse
    <3>2. CASE j < i
      BY <1>1, <1>3, <1>9, <3>1, <3>2 DEF InUse
    <3>3. CASE j > i
      <4>1. j - 1 \in i .. q.size - 2 /\ j - 1 \in 0 .. r.size - 1 /\ (j - 1) + 1 = j
        BY <1>1, <1>3, <3>3
      <4>2. QED
        BY <1>10, <3>1, <4>1 DEF InUse
    <3>4. QED
      BY <1>1, <3>1, <3>2, <3>3
  <2>3. QED
    BY <2>1, <2>2
<1>13. At(r, q.size - 1) = At(q, i)
  <2>1. q.size \in 1 .. W /\ q.size - 1 + 1 = q.size /\ ~ (q.size <= i)
    BY <1>1
  <2>2. r.ord[q.size] = q.ord[i + 1]
    <3>1. PICK m \in 1 .. W : m = q.size
      BY <2>1
    <3>2. r.ord[m] = IF m <= i \/ m > q.size THEN q.ord[m] ELSE IF m = q.size THEN q.ord[i + 1] ELSE q.ord[m + 1]
      BY ONLY <1>3, m \in 1 .. W
    <3>3. ~ (m <= i) /\ ~ (m > q.size)
      BY <2>1, <3>1
    <3>4. QED
      BY ONLY <3>1, <3>2, <3>3
  <2>3. QED
    BY <1>2, <2>1, <2>2 DEF At
<1>12. QED
  BY <1>3, <1>5, <1>8, <1>9, <1>10, <1>11, <1>13 DEF PermOk, r

\* MakeSorted: the first n slots, in order; the others are free.
LEMMA Straight ==
  ASSUME NEW n \in 0 .. W
  PROVE  LET r == MakeSorted(n) IN
         /\ PermOk(r) /\ r.size = n
         /\ \A i \in 0 .. n - 1 : At(r, i) = i
         /\ InUse(r) = 0 .. n - 1
<1> USE WAssumption
<1> DEFINE r == MakeSorted(n)
<1>1. /\ r.size = n /\ r = [ord |-> r.ord, size |-> r.size]
      /\ r.ord = [j \in 1 .. W |-> IF j <= n THEN j - 1 ELSE W - (j - n)]
  BY DEF MakeSorted
<1> HIDE DEF r
<1>2. \A j \in 1 .. W : r.ord[j] = IF j <= n THEN j - 1 ELSE W - (j - n)
  BY <1>1
<1>3. \A j \in 1 .. W : r.ord[j] \in Slot
  BY <1>2 DEF Slot
<1>4. r \in Perm
  BY <1>1, <1>3 DEF Perm
<1>5. \A i, j \in 1 .. W : r.ord[i] = r.ord[j] => i = j
  BY <1>2
<1>6. \A i \in 0 .. n - 1 : At(r, i) = i
  BY <1>2 DEF At
<1>7. InUse(r) = 0 .. n - 1
  BY <1>1, <1>6 DEF InUse
<1>8. QED
  BY <1>1, <1>4, <1>5, <1>6, <1>7 DEF PermOk, r

\* RemoveToBack takes the slot at position i out and puts it at the back.
LEMMA ToBack ==
  ASSUME NEW q, PermOk(q), NEW i \in 0 .. q.size - 1
  PROVE  LET r == RemoveToBack(q, i) IN
         /\ PermOk(r) /\ r.size = q.size - 1
         /\ Back(r) = At(q, i)
         /\ \A j \in 0 .. i - 1 : At(r, j) = At(q, j)
         /\ \A j \in i .. q.size - 2 : At(r, j) = At(q, j + 1)
<1> USE WAssumption
<1> DEFINE r == RemoveToBack(q, i)
<1>1. q.ord \in [1 .. W -> Slot] /\ q.size \in 1 .. W
  BY DEF PermOk, Perm
<1>2. At(q, i) = q.ord[i + 1]
  BY DEF At
<1>3. /\ r.size = q.size - 1 /\ DOMAIN r.ord = 1 .. W
      /\ \A j \in 1 .. W : r.ord[j] = IF j <= i THEN q.ord[j]
                                      ELSE IF j = W THEN q.ord[i + 1] ELSE q.ord[j + 1]
      /\ r = [ord |-> r.ord, size |-> r.size]
      /\ r.ord = [j \in 1 .. W |-> r.ord[j]]
  BY <1>2 DEF RemoveToBack
<1> HIDE DEF r
<1>4. \A j \in 1 .. W : r.ord[j] \in Slot
  <2>1. SUFFICES ASSUME NEW j \in 1 .. W PROVE r.ord[j] \in Slot
    OBVIOUS
  <2>2. i + 1 \in 1 .. W /\ (j # W => j + 1 \in 1 .. W)
    BY <1>1
  <2>3. QED
    BY <1>1, <1>3, <2>2
<1>5. r \in Perm
  BY <1>1, <1>3, <1>4 DEF Perm
<1>6. \A j, k \in 1 .. W : q.ord[j] = q.ord[k] => j = k
  BY DEF PermOk
<1>8. \A j, k \in 1 .. W : r.ord[j] = r.ord[k] => j = k
  <2>1. SUFFICES ASSUME NEW j \in 1 .. W, NEW k \in 1 .. W, r.ord[j] = r.ord[k] PROVE j = k
    OBVIOUS
  <2> DEFINE old(m) == IF m <= i THEN m ELSE IF m = W THEN i + 1 ELSE m + 1
  <2>2. old(j) \in 1 .. W /\ old(k) \in 1 .. W
    BY <1>1
  <2>3. r.ord[j] = q.ord[old(j)] /\ r.ord[k] = q.ord[old(k)]
    BY <1>1, <1>3
  <2>4. old(j) = old(k)
    BY <1>6, <2>1, <2>2, <2>3
  <2>5. QED
    BY <1>1, <2>4
<1>9. \A j \in 0 .. i - 1 : At(r, j) = At(q, j)
  BY <1>1, <1>3 DEF At
<1>10. \A j \in i .. q.size - 2 : At(r, j) = At(q, j + 1)
  <2>1. SUFFICES ASSUME NEW j \in i .. q.size - 2 PROVE r.ord[j + 1] = q.ord[(j + 1) + 1]
    BY DEF At
  <2>2. j + 1 \in 1 .. W /\ j + 1 > i /\ j + 1 < q.size
    BY <1>1
  <2>3. QED
    BY <1>1, <1>3, <2>2
<1>11. Back(r) = At(q, i)
  BY <1>1, <1>2, <1>3 DEF Back
<1>12. QED
  BY <1>3, <1>5, <1>8, <1>9, <1>10, <1>11 DEF PermOk, r

\* Exchange swaps two positions.
LEMMA Swapped ==
  ASSUME NEW q, PermOk(q), NEW i \in 0 .. W - 1, NEW j \in 0 .. W - 1
  PROVE  LET r == Exchange(q, i, j) IN
         /\ PermOk(r) /\ r.size = q.size
         /\ \A m \in 0 .. W - 1 : At(r, m) = IF m = j THEN At(q, i) ELSE IF m = i THEN At(q, j) ELSE At(q, m)
<1> USE WAssumption
<1> DEFINE r == Exchange(q, i, j)
<1>1. q.ord \in [1 .. W -> Slot] /\ q.size \in 0 .. W /\ q = [ord |-> q.ord, size |-> q.size]
  BY DEF PermOk, Perm
<1>2. At(q, i) = q.ord[i + 1] /\ At(q, j) = q.ord[j + 1] /\ i + 1 \in 1 .. W /\ j + 1 \in 1 .. W
  BY DEF At
<1> DEFINE o == [q.ord EXCEPT ![i + 1] = At(q, j), ![j + 1] = At(q, i)]
<1>3. r.size = q.size /\ r = [ord |-> r.ord, size |-> r.size] /\ r.ord = o
  <2> HIDE DEF o
  <2>1. r = [q EXCEPT !.ord = o]
    BY DEF Exchange, o
  <2>2. QED
    BY <1>1, <2>1
<1> HIDE DEF r
<1>4. \A m \in 1 .. W : r.ord[m] = IF m = j + 1 THEN q.ord[i + 1] ELSE IF m = i + 1 THEN q.ord[j + 1] ELSE q.ord[m]
  BY <1>1, <1>2, <1>3
<1>5. r \in Perm
  BY <1>1, <1>2, <1>3 DEF Perm
<1>6. \A k, m \in 1 .. W : r.ord[k] = r.ord[m] => k = m
  <2>1. SUFFICES ASSUME NEW k \in 1 .. W, NEW m \in 1 .. W, r.ord[k] = r.ord[m] PROVE k = m
    OBVIOUS
  <2> DEFINE old(n) == IF n = j + 1 THEN i + 1 ELSE IF n = i + 1 THEN j + 1 ELSE n
  <2>2. old(k) \in 1 .. W /\ old(m) \in 1 .. W
    BY <1>2
  <2>3. r.ord[k] = q.ord[old(k)] /\ r.ord[m] = q.ord[old(m)]
    BY <1>4
  <2>4. old(k) = old(m)
    BY <2>1, <2>2, <2>3 DEF PermOk
  <2>5. QED
    BY <1>2, <2>4
<1>7. \A m \in 0 .. W - 1 : At(r, m) = IF m = j THEN At(q, i) ELSE IF m = i THEN At(q, j) ELSE At(q, m)
  BY <1>2, <1>4 DEF At
<1>8. QED
  BY <1>3, <1>5, <1>6, <1>7 DEF PermOk, r

\* SetSize only changes how many of the slots are in use.
LEMMA Resized ==
  ASSUME NEW q, PermOk(q), NEW n \in 0 .. W
  PROVE  LET r == SetSize(q, n) IN PermOk(r) /\ r.size = n /\ \A i \in 0 .. W - 1 : At(r, i) = At(q, i)
BY WAssumption DEF PermOk, Perm, SetSize, At

LEMMA EmptyPerm == PermOk(MakeEmpty) /\ MakeEmpty.size = 0 /\ InUse(MakeEmpty) = {}
BY WAssumption DEF PermOk, Perm, MakeEmpty, Slot, InUse

-----------------------------------------------------------------------------
(* Counting *)

\* A set of numbers that is not empty has a least element.
LEMMA NatMin == ASSUME NEW T \in SUBSET Nat, T # {} PROVE \E x \in T : \A y \in T : x <= y
<1> DEFINE R == OpToRel(<,Nat)
<1>1. IsWellFoundedOn(R, Nat)
  BY NatLessThanWellFounded
<1>3. \A x, y \in Nat : x < y => <<x, y>> \in R
  BY DEF OpToRel
<1> HIDE DEF R
<1>2. \E x \in T : \A y \in T : ~ (<<y, x>> \in R)
  BY <1>1, WFMin
<1>4. PICK x \in T : \A y \in T : ~ (<<y, x>> \in R)
  BY <1>2
<1>6. x \in Nat OBVIOUS
<1>5. ASSUME NEW y \in T PROVE x <= y
  <2>1. y \in Nat OBVIOUS
  <2>2. ~ (<<y, x>> \in R) BY <1>4
  <2>4. ~(y < x) BY <1>3, <1>6, <2>1, <2>2
  <2>3. QED BY <1>6, <2>1, <2>4
<1>7. QED BY <1>5
LEMMA Ind == ASSUME NEW S, 0 \in S, \A n \in Nat : n \in S => n + 1 \in S PROVE Nat \subseteq S
<1> SUFFICES ASSUME ~ (Nat \subseteq S) PROVE FALSE OBVIOUS
<1> DEFINE T == Nat \ S
<1>1. PICK x \in T : \A y \in T : x <= y
  <2>1. T \in SUBSET Nat /\ T # {} OBVIOUS
  <2> HIDE DEF T
  <2> QED BY <2>1, NatMin
<1>2. x # 0 /\ x \in Nat BY <1>1
<1>3. x - 1 \in Nat BY <1>2
<1>5. x - 1 \in S BY <1>1, <1>2, <1>3
<1>4. QED BY <1>1, <1>2, <1>3, <1>5

\* A set of positions that has every position before one of its own is as long
\* as it is large.
LEMMA Initial ==
  ASSUME NEW n \in Nat, NEW S \in SUBSET (1 .. n), \A i \in S : \A j \in 1 .. i : j \in S
  PROVE  Cardinality(S) \in 0 .. n /\ S = 1 .. Cardinality(S)
<1> DEFINE T == {i \in 0 .. n : i + 1 \notin S}
<1>1. T \in SUBSET Nat /\ n \in T
  OBVIOUS
<1>2. PICK m \in T : \A y \in T : m <= y
  <2> HIDE DEF T
  <2> QED BY <1>1, NatMin
<1>3. m \in 0 .. n /\ m + 1 \notin S
  BY <1>2
<1>4. \A j \in 1 .. m : j \in S
  <2>1. SUFFICES ASSUME NEW j \in 1 .. m, j \notin S PROVE FALSE
    OBVIOUS
  <2>2. j - 1 \in T
    BY <1>3, <2>1
  <2>3. QED
    BY <1>2, <1>3, <2>2
<1>5. \A j \in S : j \in 1 .. m
  BY <1>3
<1>6. S = 1 .. m
  BY <1>4, <1>5
<1>7. Cardinality(1 .. m) = m
  BY <1>3, FS_Interval
<1>8. QED
  BY <1>3, <1>6, <1>7

\* No remove empties a leaf other than the first: then no leaf is taken out.
KeepsLeaves == \A t \in Thread : pc[t] # "delete"

Inf == -1
Below(i, h) == h = Inf \/ i < h

Inner(x) == x \in NodeId /\ node[x].kind = "inner"
Leaf(x) == x \in NodeId /\ node[x].kind = "leaf"

(* Types *)

Version ==
  [vinsert : Nat, vsplit : Nat, inserting : BOOLEAN, splitting : BOOLEAN,
   root : BOOLEAN, deleted : {FALSE}]
Node ==
  [kind : {"leaf", "inner"}, lock : Thread \cup {NoThread}, ver : Version, parent : Nat,
   perm : {q \in Perm : PermOk(q)}, slot : [Slot -> Key \cup {0}], modstate : {"insert", "remove"},
   next : Nat, prev : Nat, ikeys : Seq(Nat), child : Seq(Nat), height : Nat]
ReadLocals == [start : Nat, n : Nat, v : Version, c : Nat, cv : Version]
WritingLocals ==
  [n : Nat, leaf : Nat, child : Nat, p : Nat, ikey : Nat, ikey2 : Nat, next : Nat, kp : Int,
   held : Nat, split : Nat, height : Nat, mode : {"insert"}]

ReadPc == {"root", "down", "child", "check", "leaf", "walk", "walked"}
Climbing == {"parent", "lock", "insert"}
Splitting == Climbing \cup {"strip"}
Putting == Splitting \cup {"top", "finish"}
WritePc == Putting \cup {"locked"}
OtherPc == {"idle", "found", "missing", "done", "trim"}

Types ==
  /\ node \in Seq(Node) /\ 1 \in NodeId
  /\ pc \in [Thread -> ReadPc \cup WritePc \cup OtherPc]
  /\ loc \in [Thread -> ReadLocals \cup WritingLocals]
  /\ req = [t \in Thread |-> req[t]]
  /\ \E all : /\ pre \in [load : Seq(all), calls : [Thread -> SUBSET all]]
              /\ \A r \in all : r # Idle /\ r.key \in Key

(* What one node is made of *)

KeyAt(y, i) == y.slot[At(y.perm, i)]
InLeaf(y) ==
  /\ \A i \in 0 .. y.perm.size - 1 : KeyAt(y, i) \in Key
  /\ \A i, j \in 0 .. y.perm.size - 1 : i < j => KeyAt(y, i) < KeyAt(y, j)
  /\ y.height = 0
InInner(y) ==
  /\ Len(y.ikeys) <= Width /\ Len(y.child) = Len(y.ikeys) + 1
  /\ \A i, j \in DOMAIN y.ikeys : i < j => y.ikeys[i] < y.ikeys[j]
  /\ y.ver.root => Len(y.ikeys) > 0

(* Ranges *)

\* What the node above x still leads to it.
SepHi(x, hi) ==
  LET t == node[x].lock IN
  IF t \in Thread /\ pc[t] \in Climbing /\ loc[t].n = x THEN hi[loc[t].child]
  ELSE IF t \in Thread /\ pc[t] = "strip" /\ loc[t].next # Nil /\ loc[t].p = x THEN hi[loc[t].next]
  ELSE hi[x]

\* What is still to be found in x: a leaf keeps its keys until Strip.
ReadHi(x, hi) ==
  LET t == node[x].lock IN
  IF t \in Thread /\ pc[t] \in Splitting /\ loc[t].n = x /\ loc[t].leaf = x THEN hi[loc[t].child]
  ELSE hi[x]

\* x is the right node of a split of which no node above knows.
NewRight(x) ==
  LET t == node[x].lock IN
  t \in Thread /\ \/ pc[t] \in Climbing /\ loc[t].child = x
                  \/ pc[t] = "strip" /\ loc[t].next = x

LeafRange(x, lo, hi) ==
  LET y == node[x] IN
  /\ \A i \in 0 .. y.perm.size - 1 :
       lo[x] <= IkeyOf[KeyAt(y, i)] /\ Below(IkeyOf[KeyAt(y, i)], ReadHi(x, hi))
  /\ y.perm.size = 0 /\ ~ y.ver.splitting => KeyAt(y, 0) = 0 \/ Below(IkeyOf[KeyAt(y, 0)], hi[x])
  /\ y.prev = Nil <=> x = 1
  /\ x = 1 => lo[x] = 0
  /\ x # 1 => y.slot[0] # 0 /\ lo[x] = IkeyOf[y.slot[0]]
  /\ y.next = Nil => hi[x] = Inf
  /\ y.next # Nil => Leaf(y.next) /\ y.next # 1 /\ hi[x] = lo[y.next]

\* Child j of x begins where ikey j - 1 says and is led to up to ikey j.
ChildRange(x, j, lo, hi) ==
  LET y == node[x]
      c == y.child[j]
  IN  /\ c \in NodeId /\ node[c].parent = x /\ node[c].height + 1 = y.height
      /\ lo[c] = IF j = 1 THEN lo[x] ELSE y.ikeys[j - 1]
      /\ SepHi(c, hi) = IF j = Len(y.ikeys) + 1 THEN hi[x] ELSE y.ikeys[j]
InnerRange(x, lo, hi) ==
  /\ \A j \in DOMAIN node[x].ikeys : lo[x] < node[x].ikeys[j] /\ Below(node[x].ikeys[j], hi[x])
  /\ \A j \in DOMAIN node[x].child : ChildRange(x, j, lo, hi)

RootId(x) == Inner(x) \/ x = 1

\* A node without a parent, and one that says it is the root, is one for all keys.
TopRange(x, lo, hi) ==
  /\ node[x].parent = Nil /\ ~ NewRight(x) => lo[x] = 0 /\ SepHi(x, hi) = Inf
  /\ node[x].ver.root /\ ~ node[x].ver.splitting /\ RootId(x) => lo[x] = 0 /\ ReadHi(x, hi) = Inf

NodeIn(x, lo, hi) ==
  /\ lo[x] \in Nat /\ hi[x] \in Nat \cup {Inf} /\ Below(lo[x], hi[x])
  /\ Dirty(x) => node[x].lock # NoThread
  /\ Leaf(x) => InLeaf(node[x]) /\ LeafRange(x, lo, hi)
  /\ Inner(x) => InInner(node[x]) /\ InnerRange(x, lo, hi)
  /\ TopRange(x, lo, hi)

HasChild(p, x) == Inner(p) /\ \E j \in DOMAIN node[p].child : node[p].child[j] = x
Parents == \A x \in NodeId : node[x].parent # Nil => HasChild(node[x].parent, x)

(* What a thread knows that goes down *)

VLeq(v, w) == v.vsplit < w.vsplit \/ (v.vsplit = w.vsplit /\ v.vinsert <= w.vinsert)
Seen(x, v) == ~ v.inserting /\ ~ v.splitting /\ VLeq(v, node[x].ver)
NoSplit(x, v) == v.vsplit = node[x].ver.vsplit /\ ~ node[x].ver.splitting
NoChange(x, v) == NoSplit(x, v) /\ v.vinsert = node[x].ver.vinsert /\ ~ node[x].ver.inserting
Ik(t) == IkeyOf[K(t)]

\* The key belongs to x, or to a node that was split off after version v.
Fits(t, x, v, lo, hi) ==
  /\ Seen(x, v) /\ lo[x] <= Ik(t)
  /\ NoSplit(x, v) => Below(Ik(t), ReadHi(x, hi))

Reading(t, lo, hi) ==
  LET x == loc[t] IN
  /\ x \in ReadLocals
  /\ RootId(x.start)
  /\ pc[t] = "root" => RootId(x.n)
  /\ pc[t] \in {"down", "child", "check"} => Inner(x.n) /\ Fits(t, x.n, x.v, lo, hi)
  /\ pc[t] \in {"child", "check"} =>
       /\ x.c \in NodeId
       /\ NoChange(x.n, x.v) => x.c = ChildAt(node[x.n], Upper(Ik(t), node[x.n]))
  /\ pc[t] = "check" => Seen(x.c, x.cv)
  /\ pc[t] = "leaf" => Leaf(x.n) /\ Fits(t, x.n, x.v, lo, hi)
  /\ pc[t] \in {"walk", "walked"} => Leaf(x.n) /\ lo[x.n] <= Ik(t)
  /\ pc[t] = "walk" => Seen(x.n, x.v)

(* What a writer owns and knows *)

Owns(t, x) == x \in NodeId /\ node[x].lock = t

\* c has been split off n at slice i; both are h above the leaves.
Pair(t, n, c, i, h, lo, hi) ==
  /\ Owns(t, n) /\ Owns(t, c) /\ n # c /\ node[n].kind = node[c].kind
  /\ node[n].height = h /\ node[c].height = h
  /\ hi[n] = i /\ lo[c] = i /\ c # 1 /\ ~ node[c].ver.splitting
  /\ Inner(c) => node[n].ver.splitting /\ ~ node[c].ver.root

InRange(t, x, lo, hi) == lo[x] <= Ik(t) /\ Below(Ik(t), hi[x])

\* The leaf that gets the key has room for it.
Ready(t, x, lo, hi) ==
  /\ Owns(t, x) /\ Leaf(x) /\ InRange(t, x, lo, hi)
  /\ node[x].perm.size < W /\ K(t) \notin Keys(node[x])
  /\ Back(node[x].perm) = 0 => x = 1 \/ Ik(t) = lo[x]

\* The left leaf n still has what the right one, c, got.
Half(t, n, c, i, split, lo, hi) ==
  LET l == node[n]
      r == node[c]
      left == l.perm.size - r.perm.size
  IN  /\ left \in 0 .. l.perm.size
      /\ \A j \in 0 .. left - 1 : IkeyOf[KeyAt(l, j)] < i
      /\ Keys(r) = {KeyAt(l, j) : j \in left .. l.perm.size - 1}
      /\ ~ l.ver.splitting /\ Leaf(c)
      /\ split = 0 => InRange(t, n, lo, hi) /\ left < l.perm.size /\ K(t) \notin Keys(l)
      /\ split # 0 => left > 0 /\ Ready(t, c, lo, hi)

Writing(t, lo, hi) ==
  LET x == loc[t] IN
  /\ x \in WritingLocals
  /\ Leaf(x.leaf) /\ Owns(t, x.leaf)
  /\ pc[t] = "locked" => InRange(t, x.leaf, lo, hi) /\ ~ Dirty(x.leaf) /\ x.n = x.leaf /\ x.height = 0
  /\ pc[t] \in Splitting =>
       /\ Pair(t, x.n, x.child, x.ikey, x.height, lo, hi)
       /\ x.n = x.leaf => Half(t, x.n, x.child, x.ikey, x.split, lo, hi)
       /\ x.n # x.leaf => Inner(x.n) /\ Ready(t, x.leaf, lo, hi)
  /\ pc[t] \in Climbing => node[x.child].parent = Nil
  /\ pc[t] = "lock" => Inner(x.p)
  /\ pc[t] = "insert" =>
       /\ node[x.n].parent = x.p
       /\ x.p # Nil => Owns(t, x.p) /\ Inner(x.p) /\ ~ node[x.p].ver.splitting
  /\ pc[t] = "strip" =>
       /\ node[x.n].parent # Nil /\ node[x.child].parent # Nil
       /\ x.p # Nil => Owns(t, x.p) /\ Inner(x.p) /\ node[x.p].height = x.height + 1
       /\ x.next = Nil /\ x.p # Nil => ~ node[x.p].ver.splitting
       /\ x.next # Nil => /\ Pair(t, x.p, x.next, x.ikey2, x.height + 1, lo, hi)
                          /\ x.p # Nil /\ Inner(x.next) /\ node[x.next].parent = Nil
  /\ pc[t] = "top" => Owns(t, x.p) /\ Inner(x.p) /\ ~ node[x.p].ver.splitting
  /\ pc[t] \in {"top", "finish"} => Ready(t, x.leaf, lo, hi)

ThreadIn(t, lo, hi) ==
  /\ pc[t] \in ReadPc => Reading(t, lo, hi)
  /\ pc[t] \in WritePc => Writing(t, lo, hi)
  /\ pc[t] \notin {"idle", "trim"} => req[t] # Idle /\ K(t) \in Key

TreeIn(lo, hi) ==
  /\ Types /\ Leaf(1) /\ RootId(root) /\ Parents
  /\ \A x \in NodeId : NodeIn(x, lo, hi)
  /\ \A t \in Thread : ThreadIn(t, lo, hi)
TreeInv == \E lo, hi : TreeIn(lo, hi)

-----------------------------------------------------------------------------
(* Records *)

LEMMA VersionFields ==
  ASSUME NEW v \in Version
  PROVE  /\ v.vinsert \in Nat /\ v.vsplit \in Nat /\ v.inserting \in BOOLEAN /\ v.splitting \in BOOLEAN
         /\ v.root \in BOOLEAN /\ v.deleted = FALSE
BY DEF Version

LEMMA NodeFields ==
  ASSUME NEW y \in Node
  PROVE  /\ y.kind \in {"leaf", "inner"} /\ y.lock \in Thread \cup {NoThread} /\ y.ver \in Version
         /\ y.parent \in Nat /\ PermOk(y.perm) /\ y.slot \in [Slot -> Key \cup {0}]
         /\ y.modstate \in {"insert", "remove"} /\ y.next \in Nat /\ y.prev \in Nat
         /\ y.ikeys \in Seq(Nat) /\ y.child \in Seq(Nat) /\ y.height \in Nat
BY DEF Node

LEMMA NodesAre ==
  ASSUME NEW nd \in Seq(Node), NEW x \in DOMAIN nd
  PROVE  /\ nd[x] \in Node /\ x \in Nat /\ x # 0 /\ x <= Len(nd)
         /\ nd[x].kind \in {"leaf", "inner"} /\ nd[x].lock \in Thread \cup {NoThread}
         /\ nd[x].ver \in Version /\ nd[x].parent \in Nat /\ PermOk(nd[x].perm)
         /\ nd[x].slot \in [Slot -> Key \cup {0}] /\ nd[x].modstate \in {"insert", "remove"}
         /\ nd[x].next \in Nat /\ nd[x].prev \in Nat /\ nd[x].ikeys \in Seq(Nat)
         /\ nd[x].child \in Seq(Nat) /\ nd[x].height \in Nat
         /\ nd[x].ver.vinsert \in Nat /\ nd[x].ver.vsplit \in Nat
         /\ nd[x].ver.inserting \in BOOLEAN /\ nd[x].ver.splitting \in BOOLEAN
         /\ nd[x].ver.root \in BOOLEAN /\ nd[x].ver.deleted = FALSE
<1>1. x \in 1 .. Len(nd)
  OBVIOUS
<1>2. nd[x] \in Node
  BY <1>1
<1>3. nd[x].ver \in Version
  BY <1>2, NodeFields
<1>4. x \in Nat /\ x # 0 /\ x <= Len(nd)
  BY <1>1
<1>5. /\ nd[x].ver.vinsert \in Nat /\ nd[x].ver.vsplit \in Nat
      /\ nd[x].ver.inserting \in BOOLEAN /\ nd[x].ver.splitting \in BOOLEAN
      /\ nd[x].ver.root \in BOOLEAN /\ nd[x].ver.deleted = FALSE
  BY <1>3, VersionFields
<1> DEFINE y == nd[x]
<1> HIDE DEF y
<1>6. /\ y.kind \in {"leaf", "inner"} /\ y.lock \in Thread \cup {NoThread}
      /\ y.parent \in Nat /\ PermOk(y.perm) /\ y.slot \in [Slot -> Key \cup {0}]
      /\ y.modstate \in {"insert", "remove"} /\ y.next \in Nat /\ y.prev \in Nat
      /\ y.ikeys \in Seq(Nat) /\ y.child \in Seq(Nat) /\ y.height \in Nat
  BY <1>2, NodeFields DEF y
<1>7. QED
  BY <1>2, <1>3, <1>4, <1>5, <1>6 DEF y

LEMMA NodeTypes ==
  ASSUME Types, NEW x \in NodeId
  PROVE  /\ node[x] \in Node /\ x \in Nat /\ x # 0 /\ x <= Len(node)
         /\ node[x].kind \in {"leaf", "inner"} /\ node[x].lock \in Thread \cup {NoThread}
         /\ node[x].ver \in Version /\ node[x].parent \in Nat /\ PermOk(node[x].perm)
         /\ node[x].slot \in [Slot -> Key \cup {0}] /\ node[x].modstate \in {"insert", "remove"}
         /\ node[x].next \in Nat /\ node[x].prev \in Nat /\ node[x].ikeys \in Seq(Nat)
         /\ node[x].child \in Seq(Nat) /\ node[x].height \in Nat
         /\ node[x].ver.vinsert \in Nat /\ node[x].ver.vsplit \in Nat
         /\ node[x].ver.inserting \in BOOLEAN /\ node[x].ver.splitting \in BOOLEAN
         /\ node[x].ver.root \in BOOLEAN /\ node[x].ver.deleted = FALSE
<1>1. node \in Seq(Node) /\ x \in DOMAIN node
  BY DEF Types, NodeId
<1>2. QED
  BY ONLY <1>1, NodesAre

LEMMA Ids == ASSUME Types PROVE NodeId = 1 .. Len(node) /\ Len(node) \in Nat /\ Fresh \in Nat \ {0} /\ Fresh \notin NodeId
BY DEF Types, NodeId, Fresh

LEMMA Kinds == ASSUME Types, NEW x \in NodeId PROVE (Leaf(x) <=> ~ Inner(x)) /\ (IsLeaf(x) <=> Leaf(x))
BY NodeTypes DEF Leaf, Inner, IsLeaf

LEMMA IkeysAre == \A k \in Key : k \in Nat /\ k # 0 /\ IkeyOf[k] \in Nat
BY TreeKeyAssumption

LEMMA IkOrder ==
  /\ \A j, k \in Key : j <= k => IkeyOf[j] <= IkeyOf[k]
  /\ \A j, k \in Key : IkeyOf[j] < IkeyOf[k] => j < k
<1>1. ASSUME NEW j \in Key, NEW k \in Key, j <= k PROVE IkeyOf[j] <= IkeyOf[k]
  <2>1. j < k \/ j = k
    BY <1>1, IkeysAre
  <2>2. QED
    BY <2>1, IkeysAre, OrderAssumption
<1>2. ASSUME NEW j \in Key, NEW k \in Key, IkeyOf[j] < IkeyOf[k], ~ (j < k) PROVE FALSE
  <2>1. k <= j
    BY <1>2, IkeysAre
  <2>2. QED
    BY <1>1, <1>2, <2>1, IkeysAre
<1>3. QED
  BY <1>1, <1>2

\* What a version and a lock do not have a part in.
SameBody(y, z) ==
  /\ z.kind = y.kind /\ z.perm = y.perm /\ z.slot = y.slot /\ z.next = y.next
  /\ z.ikeys = y.ikeys /\ z.child = y.child /\ z.height = y.height

LEMMA UnlockedIs ==
  ASSUME NEW y \in Node
  PROVE  LET z == Unlocked(y) IN
         /\ z \in Node /\ SameBody(y, z) /\ z.parent = y.parent /\ z.prev = y.prev
         /\ z.lock = NoThread /\ ~ z.ver.inserting /\ ~ z.ver.splitting
         /\ y.ver.splitting => z.ver.vsplit = y.ver.vsplit + 1 /\ ~ z.ver.root
         /\ ~ y.ver.splitting => /\ z.ver.vsplit = y.ver.vsplit /\ z.ver.root = y.ver.root
                                 /\ z.ver.vinsert = y.ver.vinsert + IF y.ver.inserting THEN 1 ELSE 0
<1> DEFINE a == [y.ver EXCEPT !.vsplit = @ + 1, !.vinsert = 0, !.root = FALSE,
                              !.inserting = FALSE, !.splitting = FALSE]
           b == [y.ver EXCEPT !.vinsert = IF y.ver.inserting THEN @ + 1 ELSE @, !.inserting = FALSE]
           w == IF y.ver.splitting THEN a ELSE b
<1>1. y.ver \in Version
  BY NodeFields
<1> DEFINE i == y.ver.vsplit + 1
           j == IF y.ver.inserting THEN y.ver.vinsert + 1 ELSE y.ver.vinsert
<1>11. i \in Nat /\ j \in Nat
  <2>1. y.ver.vsplit \in Nat /\ y.ver.vinsert \in Nat
    BY <1>1 DEF Version
  <2>2. QED
    BY <2>1
<1>12. j = y.ver.vinsert + IF y.ver.inserting THEN 1 ELSE 0
  <2>1. y.ver.vinsert \in Nat
    BY <1>1 DEF Version
  <2>2. QED
    BY <2>1
<1>13. /\ a = [y.ver EXCEPT !.vsplit = i, !.vinsert = 0, !.root = FALSE, !.inserting = FALSE, !.splitting = FALSE]
       /\ b = [y.ver EXCEPT !.vinsert = j, !.inserting = FALSE]
  OBVIOUS
<1>14. i = y.ver.vsplit + 1
  OBVIOUS
<1> HIDE DEF i, j
<1> HIDE DEF a, b
<1>2. a \in Version /\ ~ a.inserting /\ ~ a.splitting /\ a.vsplit = y.ver.vsplit + 1 /\ ~ a.root
  <2>1. a \in Version
    BY <1>1, <1>11, <1>13 DEF Version
  <2>2. ~ a.inserting /\ ~ a.splitting /\ a.vsplit = i /\ ~ a.root
    BY <1>1, <1>13 DEF Version
  <2>3. QED
    BY <1>14, <2>1, <2>2
<1>3. /\ b \in Version /\ ~ b.inserting /\ b.splitting = y.ver.splitting /\ b.vsplit = y.ver.vsplit
      /\ b.root = y.ver.root
  BY <1>1, <1>11, <1>13 DEF Version
<1>4. b.vinsert = y.ver.vinsert + IF y.ver.inserting THEN 1 ELSE 0
  <2>1. b.vinsert = j
    BY <1>1, <1>13 DEF Version
  <2>2. QED
    BY <1>12, <2>1
<1>5. Unlocked(y) = [y EXCEPT !.lock = NoThread, !.ver = w]
  BY DEF Unlocked, a, b
<1>6. w \in Version
  BY <1>2, <1>3
<1>7. Unlocked(y).ver = w
  BY <1>5 DEF Node
<1> HIDE DEF w
<1>8. Unlocked(y) \in Node
  BY <1>5, <1>6 DEF Node
<1>9. SameBody(y, Unlocked(y)) /\ Unlocked(y).parent = y.parent /\ Unlocked(y).prev = y.prev /\ Unlocked(y).lock = NoThread
  BY <1>5 DEF Node, SameBody
<1>10. QED
  BY <1>2, <1>3, <1>4, <1>7, <1>8, <1>9 DEF w

-----------------------------------------------------------------------------
(* What a step of t leaves to the others *)

\* A change of x that a thread is told of which comes there, or that it need not
\* know.
Told(x, lo, hi, lo2, hi2) ==
  /\ lo2[x] = lo[x] /\ node'[x].kind = node[x].kind /\ node'[x].height = node[x].height
  /\ VLeq(node[x].ver, node'[x].ver)
  /\ node'[x].ver.vsplit = node[x].ver.vsplit /\ ~ node'[x].ver.splitting =>
       /\ ~ node[x].ver.splitting
       /\ \A i \in Nat : Below(i, ReadHi(x, hi)) => Below(i, ReadHi(x, hi2)')
       /\ node'[x].ver.vinsert = node[x].ver.vinsert /\ ~ node'[x].ver.inserting =>
            ~ node[x].ver.inserting /\ node'[x].ikeys = node[x].ikeys /\ node'[x].child = node[x].child

\* x stays as it is, but for the links from it to other nodes.
Still(x, hi, hi2) ==
  /\ SameBody(node[x], node'[x]) /\ node'[x].ver = node[x].ver /\ node'[x].lock = node[x].lock
  /\ hi2[x] = hi[x] /\ ReadHi(x, hi2)' = ReadHi(x, hi) /\ (NewRight(x)' <=> NewRight(x))

\* t may lock a node that nobody has locked; of those that others have locked it
\* changes only links, and only the parent of those whose parent it has locked.
Frame(t, T, lo, hi, lo2, hi2) ==
  /\ NodeId \subseteq NodeId' /\ Nil \notin T
  /\ \A u \in Thread \ {t} : pc'[u] = pc[u] /\ loc'[u] = loc[u] /\ req'[u] = req[u]
  /\ \A x \in NodeId :
       /\ Told(x, lo, hi, lo2, hi2)
       /\ x \notin T => Still(x, hi, hi2)
       /\ x \in T => node[x].lock \in {t, NoThread}
       /\ node'[x].prev = Nil <=> node[x].prev = Nil
       /\ node'[x].parent = node[x].parent \/
            (node'[x].parent # Nil /\ (node[x].parent \in T \/ (node[x].parent = Nil /\ Owns(t, x))))
       /\ SepHi(x, hi2)' = SepHi(x, hi) \/
            (Owns(t, x) /\ node[x].parent \in T \cup {Nil} /\ node'[x].parent # Nil)

LEMMA OwnedKept ==
  ASSUME NEW t, NEW T, NEW lo, NEW hi, NEW lo2, NEW hi2, Frame(t, T, lo, hi, lo2, hi2),
         NoThread \notin Thread, NEW u \in Thread \ {t}, NEW x, Owns(u, x)
  PROVE  /\ Owns(u, x)' /\ SameBody(node[x], node'[x]) /\ node'[x].ver = node[x].ver
         /\ hi2[x] = hi[x] /\ lo2[x] = lo[x] /\ x \notin T
         /\ Keys(node'[x]) = Keys(node[x])
<1>1. x \in NodeId /\ node[x].lock = u
  BY DEF Owns
<1>2. x \notin T
  BY <1>1 DEF Frame
<1>3. Still(x, hi, hi2) /\ x \in NodeId' /\ lo2[x] = lo[x]
  BY <1>1, <1>2 DEF Frame, Told
<1>4. QED
  BY <1>1, <1>2, <1>3 DEF Still, Owns, SameBody, Keys

LEMMA KindKept ==
  ASSUME NEW t, NEW T, NEW lo, NEW hi, NEW lo2, NEW hi2, Frame(t, T, lo, hi, lo2, hi2), NEW x
  PROVE  /\ Leaf(x) => Leaf(x)' /\ lo2[x] = lo[x]
         /\ Inner(x) => Inner(x)' /\ lo2[x] = lo[x]
         /\ RootId(x) => RootId(x)'
BY DEF Frame, Told, Leaf, Inner, RootId

LEMMA SeenKept ==
  ASSUME Types, Types', NEW t, NEW T, NEW lo, NEW hi, NEW lo2, NEW hi2, Frame(t, T, lo, hi, lo2, hi2),
         NEW x \in NodeId, NEW v \in Version, Seen(x, v)
  PROVE  /\ Seen(x, v)'
         /\ NoSplit(x, v)' => NoSplit(x, v)
         /\ NoChange(x, v)' => NoChange(x, v) /\ node'[x].ikeys = node[x].ikeys /\ node'[x].child = node[x].child
         /\ \A i \in Nat : NoSplit(x, v)' /\ Below(i, ReadHi(x, hi)) => Below(i, ReadHi(x, hi2)')
<1>1. Told(x, lo, hi, lo2, hi2) /\ x \in NodeId'
  BY DEF Frame
<1> DEFINE a == node[x].ver
           b == node'[x].ver
<1>2. a.vsplit \in Nat /\ a.vinsert \in Nat /\ b.vsplit \in Nat /\ b.vinsert \in Nat
  <2>1. a.vsplit \in Nat /\ a.vinsert \in Nat
    BY NodeTypes
  <2>2. b.vsplit \in Nat /\ b.vinsert \in Nat
    <3>1. node' \in Seq(Node) /\ x \in DOMAIN node'
      BY <1>1 DEF Types, NodeId
    <3>2. QED
      BY <3>1, NodesAre
  <2>3. QED
    BY <2>1, <2>2
<1>3. v.vsplit \in Nat /\ v.vinsert \in Nat
  BY VersionFields
<1>4. VLeq(v, a) /\ VLeq(a, b)
  BY <1>1 DEF Told, Seen
<1>5. VLeq(v, b)
  BY <1>2, <1>3, <1>4 DEF VLeq
<1>6. Seen(x, v)'
  BY <1>5 DEF Seen
<1>7. ASSUME NoSplit(x, v)' PROVE b.vsplit = a.vsplit /\ v.vsplit = a.vsplit /\ ~ b.splitting
  BY <1>2, <1>3, <1>4, <1>7 DEF VLeq, NoSplit
<1>8. NoSplit(x, v)' => NoSplit(x, v) /\ \A i \in Nat : Below(i, ReadHi(x, hi)) => Below(i, ReadHi(x, hi2)')
  BY <1>1, <1>7 DEF Told, NoSplit
<1>9. ASSUME NoChange(x, v)'
      PROVE  NoChange(x, v) /\ node'[x].ikeys = node[x].ikeys /\ node'[x].child = node[x].child
  <2>1. NoSplit(x, v)' /\ v.vinsert = b.vinsert /\ ~ b.inserting
    BY <1>9 DEF NoChange
  <2>2. b.vsplit = a.vsplit /\ v.vsplit = a.vsplit /\ ~ b.splitting
    BY <1>7, <2>1
  <2>3. b.vinsert = a.vinsert
    BY <1>2, <1>3, <1>4, <2>1, <2>2 DEF VLeq
  <2>4. ~ a.inserting /\ node'[x].ikeys = node[x].ikeys /\ node'[x].child = node[x].child
    BY <1>1, <2>1, <2>2, <2>3 DEF Told
  <2>5. QED
    BY <1>8, <2>1, <2>3, <2>4 DEF NoChange
<1>10. QED
  BY <1>6, <1>8, <1>9

LEMMA FitsKept ==
  ASSUME Types, Types', NEW t, NEW T, NEW lo, NEW hi, NEW lo2, NEW hi2, Frame(t, T, lo, hi, lo2, hi2),
         NEW x \in NodeId, NEW v \in Version, NEW u, req'[u] = req[u], K(u) \in Key, Fits(u, x, v, lo, hi)
  PROVE  Fits(u, x, v, lo2, hi2)'
<1>1. Ik(u)' = Ik(u) /\ Ik(u) \in Nat
  BY IkeysAre DEF Ik, K
<1>2. Seen(x, v) /\ lo[x] <= Ik(u) /\ (NoSplit(x, v) => Below(Ik(u), ReadHi(x, hi)))
  BY DEF Fits
<1>3. lo2[x] = lo[x]
  BY DEF Frame, Told
<1>4. Seen(x, v)' /\ (NoSplit(x, v)' => NoSplit(x, v))
  BY <1>2, SeenKept
<1>5. NoSplit(x, v)' => Below(Ik(u), ReadHi(x, hi2)')
  BY <1>1, <1>2, <1>4, SeenKept
<1>6. QED
  BY <1>1, <1>2, <1>3, <1>4, <1>5 DEF Fits

LEMMA ReadingKept ==
  ASSUME Types, Types', NEW t, NEW T, NEW lo, NEW hi, NEW lo2, NEW hi2, Frame(t, T, lo, hi, lo2, hi2),
         NEW u, pc'[u] = pc[u], loc'[u] = loc[u], req'[u] = req[u], K(u) \in Key, Reading(u, lo, hi)
  PROVE  Reading(u, lo2, hi2)'
<1>11. PICK x : x = loc[u] /\ x = loc'[u]
  OBVIOUS
<1>1. x \in ReadLocals /\ x.v \in Version /\ x.cv \in Version
  BY <1>11 DEF Reading, ReadLocals
<1>2. RootId(x.start)' /\ (pc[u] = "root" => RootId(x.n)')
  BY <1>11, KindKept DEF Reading
<1>3. Ik(u)' = Ik(u)
  BY DEF Ik, K
<1>4. pc[u] \in {"down", "child", "check"} => Inner(x.n)' /\ Fits(u, x.n, x.v, lo2, hi2)'
  <2>1. SUFFICES ASSUME pc[u] \in {"down", "child", "check"}
                 PROVE  Inner(x.n)' /\ Fits(u, x.n, x.v, lo2, hi2)'
    OBVIOUS
  <2>2. Inner(x.n) /\ Fits(u, x.n, x.v, lo, hi) /\ x.n \in NodeId
    BY <1>11, <2>1 DEF Reading, Inner
  <2>3. QED
    BY <1>1, <2>2, FitsKept, KindKept
<1>5. pc[u] \in {"child", "check"} =>
        /\ x.c \in NodeId'
        /\ NoChange(x.n, x.v)' => x.c = ChildAt(node'[x.n], Upper(Ik(u)', node'[x.n]))
  <2>1. SUFFICES ASSUME pc[u] \in {"child", "check"}
                 PROVE  /\ x.c \in NodeId'
                        /\ NoChange(x.n, x.v)' => x.c = ChildAt(node'[x.n], Upper(Ik(u)', node'[x.n]))
    OBVIOUS
  <2>2. x.c \in NodeId /\ x.n \in NodeId /\ Seen(x.n, x.v)
    BY <1>11, <2>1 DEF Reading, Inner, Fits
  <2>3. NoChange(x.n, x.v) => x.c = ChildAt(node[x.n], Upper(Ik(u), node[x.n]))
    BY <1>11, <2>1 DEF Reading
  <2>4. NoChange(x.n, x.v)' => NoChange(x.n, x.v) /\ node'[x.n].ikeys = node[x.n].ikeys /\ node'[x.n].child = node[x.n].child
    BY <1>1, <2>2, SeenKept
  <2>5. QED
    BY <1>3, <2>2, <2>3, <2>4 DEF ChildAt, Upper, Frame
<1>6. pc[u] = "check" => Seen(x.c, x.cv)'
  <2>1. pc[u] = "check" => x.c \in NodeId /\ Seen(x.c, x.cv)
    BY <1>11 DEF Reading
  <2>2. QED
    BY <1>1, <2>1, SeenKept
<1>7. pc[u] = "leaf" => Leaf(x.n)' /\ Fits(u, x.n, x.v, lo2, hi2)'
  <2>1. pc[u] = "leaf" => Leaf(x.n) /\ Fits(u, x.n, x.v, lo, hi) /\ x.n \in NodeId
    BY <1>11 DEF Reading, Leaf
  <2>2. QED
    BY <1>1, <2>1, FitsKept, KindKept
<1>8. pc[u] \in {"walk", "walked"} => Leaf(x.n)' /\ lo2[x.n] <= Ik(u)'
  <2>1. pc[u] \in {"walk", "walked"} => Leaf(x.n) /\ lo[x.n] <= Ik(u)
    BY <1>11 DEF Reading
  <2>2. QED
    BY <1>3, <2>1, KindKept
<1>9. pc[u] = "walk" => Seen(x.n, x.v)'
  <2>1. pc[u] = "walk" => x.n \in NodeId /\ Seen(x.n, x.v)
    BY <1>11 DEF Reading, Leaf
  <2>2. QED
    BY <1>1, <2>1, SeenKept
<1>10. QED
  BY <1>1, <1>2, <1>4, <1>5, <1>6, <1>7, <1>8, <1>9, <1>11 DEF Reading

LEMMA PairKept ==
  ASSUME NEW t, NEW T, NEW lo, NEW hi, NEW lo2, NEW hi2, Frame(t, T, lo, hi, lo2, hi2),
         NoThread \notin Thread, NEW u \in Thread \ {t},
         NEW n, NEW c, NEW i, NEW h, Pair(u, n, c, i, h, lo, hi)
  PROVE  Pair(u, n, c, i, h, lo2, hi2)'
<1>1. Owns(u, n) /\ Owns(u, c)
  BY DEF Pair
<1>2. Owns(u, n)' /\ SameBody(node[n], node'[n]) /\ node'[n].ver = node[n].ver /\ hi2[n] = hi[n] /\ lo2[n] = lo[n]
  BY <1>1, OwnedKept
<1>3. Owns(u, c)' /\ SameBody(node[c], node'[c]) /\ node'[c].ver = node[c].ver /\ hi2[c] = hi[c] /\ lo2[c] = lo[c]
  BY <1>1, OwnedKept
<1>4. QED
  BY <1>2, <1>3 DEF Pair, SameBody, Inner, Owns

LEMMA ReadyKept ==
  ASSUME NEW t, NEW T, NEW lo, NEW hi, NEW lo2, NEW hi2, Frame(t, T, lo, hi, lo2, hi2),
         NoThread \notin Thread, NEW u \in Thread \ {t}, req'[u] = req[u],
         NEW x, Ready(u, x, lo, hi)
  PROVE  Ready(u, x, lo2, hi2)'
<1>1. Owns(u, x) /\ Leaf(x)
  BY DEF Ready
<1>2. /\ Owns(u, x)' /\ SameBody(node[x], node'[x]) /\ hi2[x] = hi[x] /\ lo2[x] = lo[x] /\ Leaf(x)'
      /\ Keys(node'[x]) = Keys(node[x])
  BY <1>1, OwnedKept, KindKept
<1>3. Ik(u)' = Ik(u) /\ K(u)' = K(u)
  BY DEF Ik, K
<1>4. QED
  BY <1>2, <1>3 DEF Ready, SameBody, InRange

LEMMA HalfKept ==
  ASSUME NEW t, NEW T, NEW lo, NEW hi, NEW lo2, NEW hi2, Frame(t, T, lo, hi, lo2, hi2),
         NoThread \notin Thread, NEW u \in Thread \ {t}, req'[u] = req[u],
         NEW n, NEW c, NEW i, NEW split, Owns(u, n), Owns(u, c), Half(u, n, c, i, split, lo, hi)
  PROVE  Half(u, n, c, i, split, lo2, hi2)'
<1>1. Ik(u)' = Ik(u) /\ K(u)' = K(u)
  BY DEF Ik, K
<1>2. /\ SameBody(node[n], node'[n]) /\ Keys(node'[n]) = Keys(node[n]) /\ node'[n].ver = node[n].ver
      /\ lo2[n] = lo[n] /\ hi2[n] = hi[n]
  BY OwnedKept
<1>3. SameBody(node[c], node'[c]) /\ Keys(node'[c]) = Keys(node[c])
  BY OwnedKept
<1>4. Leaf(c) => Leaf(c)'
  BY KindKept
<1>5. split # 0 => Ready(u, c, lo2, hi2)'
  <2>1. split # 0 => Ready(u, c, lo, hi)
    BY DEF Half
  <2>2. QED
    BY <2>1, ReadyKept
<1>6. /\ node'[n].perm = node[n].perm /\ node'[n].slot = node[n].slot /\ node'[c].perm = node[c].perm
      /\ \A j : KeyAt(node'[n], j) = KeyAt(node[n], j)
  BY <1>2, <1>3 DEF SameBody, KeyAt
<1>7. split = 0 => InRange(u, n, lo2, hi2)'
  BY <1>1, <1>2 DEF Half, InRange
<1> DEFINE left == node[n].perm.size - node[c].perm.size
           right == {KeyAt(node[n], j) : j \in left .. node[n].perm.size - 1}
<1>8. /\ left \in 0 .. node[n].perm.size
      /\ \A j \in 0 .. left - 1 : IkeyOf[KeyAt(node[n], j)] < i
      /\ Keys(node[c]) = right
      /\ ~ node[n].ver.splitting /\ Leaf(c)
      /\ split = 0 => left < node[n].perm.size /\ K(u) \notin Keys(node[n])
      /\ split # 0 => left > 0
  BY DEF Half
<1>9. node'[n].perm.size - node'[c].perm.size = left
  BY <1>6
<1>10. {KeyAt(node'[n], j) : j \in left .. node'[n].perm.size - 1} = right
  BY <1>6
<1> HIDE DEF left, right
<1>11. /\ left \in 0 .. node'[n].perm.size
       /\ \A j \in 0 .. left - 1 : IkeyOf[KeyAt(node'[n], j)] < i
       /\ Keys(node'[c]) = right
       /\ ~ node'[n].ver.splitting /\ Leaf(c)'
       /\ split = 0 => left < node'[n].perm.size /\ K(u)' \notin Keys(node'[n])
  BY <1>1, <1>2, <1>3, <1>4, <1>6, <1>8
<1>12. QED
  BY <1>5, <1>7, <1>8, <1>9, <1>10, <1>11 DEF Half

LEMMA WritingKept ==
  ASSUME NEW t, NEW T, NEW lo, NEW hi, NEW lo2, NEW hi2, Frame(t, T, lo, hi, lo2, hi2),
         NoThread \notin Thread, NEW u \in Thread \ {t},
         pc'[u] = pc[u], loc'[u] = loc[u], req'[u] = req[u], Writing(u, lo, hi)
  PROVE  Writing(u, lo2, hi2)'
<1>1. PICK x : x = loc[u] /\ x = loc'[u]
  OBVIOUS
<1>2. x \in WritingLocals /\ Leaf(x.leaf) /\ Owns(u, x.leaf)
  BY <1>1 DEF Writing
<1>3. /\ Leaf(x.leaf)' /\ Owns(u, x.leaf)' /\ lo2[x.leaf] = lo[x.leaf] /\ hi2[x.leaf] = hi[x.leaf]
      /\ node'[x.leaf].ver = node[x.leaf].ver
  BY <1>2, OwnedKept, KindKept
<1>4. Ik(u)' = Ik(u) /\ K(u)' = K(u)
  BY DEF Ik, K
<1>5. pc[u] = "locked" => InRange(u, x.leaf, lo2, hi2)' /\ ~ Dirty(x.leaf)' /\ x.n = x.leaf /\ x.height = 0
  BY <1>1, <1>3, <1>4 DEF Writing, InRange, Dirty
<1>6. ASSUME pc[u] \in Splitting
      PROVE  /\ Pair(u, x.n, x.child, x.ikey, x.height, lo2, hi2)'
             /\ x.n = x.leaf => Half(u, x.n, x.child, x.ikey, x.split, lo2, hi2)'
             /\ x.n # x.leaf => Inner(x.n)' /\ Ready(u, x.leaf, lo2, hi2)'
  <2>1. Pair(u, x.n, x.child, x.ikey, x.height, lo, hi)
    BY <1>1, <1>6 DEF Writing
  <2>2. Pair(u, x.n, x.child, x.ikey, x.height, lo2, hi2)'
    BY <2>1, PairKept
  <2>3. ASSUME x.n # x.leaf PROVE Inner(x.n)' /\ Ready(u, x.leaf, lo2, hi2)'
    <3>1. Inner(x.n) /\ Ready(u, x.leaf, lo, hi)
      BY <1>1, <1>6, <2>3 DEF Writing
    <3>2. QED
      BY <3>1, ReadyKept, KindKept
  <2>4. ASSUME x.n = x.leaf PROVE Half(u, x.n, x.child, x.ikey, x.split, lo2, hi2)'
    <3>1. Half(u, x.n, x.child, x.ikey, x.split, lo, hi)
      BY <1>1, <1>6, <2>4 DEF Writing
    <3>2. Owns(u, x.n) /\ Owns(u, x.child)
      BY <2>1 DEF Pair
    <3>3. QED
      BY <1>4, <3>1, <3>2, HalfKept
  <2>5. QED
    BY <2>2, <2>3, <2>4
<1>7. pc[u] \in Climbing => node'[x.child].parent = Nil
  <2>1. SUFFICES ASSUME pc[u] \in Climbing PROVE node'[x.child].parent = Nil
    OBVIOUS
  <2>2. node[x.child].parent = Nil /\ Owns(u, x.child)
    BY <1>1, <2>1 DEF Writing, Pair, Splitting
  <2>3. QED
    BY <2>2, OwnedKept DEF Frame, Owns
<1>8. pc[u] = "lock" => Inner(x.p)'
  BY <1>1, KindKept DEF Writing
<1>9. pc[u] = "insert" =>
        /\ node'[x.n].parent = x.p
        /\ x.p # Nil => Owns(u, x.p)' /\ Inner(x.p)' /\ ~ node'[x.p].ver.splitting
  <2>1. SUFFICES ASSUME pc[u] = "insert"
                 PROVE  /\ node'[x.n].parent = x.p
                        /\ x.p # Nil => Owns(u, x.p)' /\ Inner(x.p)' /\ ~ node'[x.p].ver.splitting
    OBVIOUS
  <2>2. /\ node[x.n].parent = x.p /\ Owns(u, x.n)
        /\ x.p # Nil => Owns(u, x.p) /\ Inner(x.p) /\ ~ node[x.p].ver.splitting
    BY <1>1, <2>1 DEF Writing, Pair, Splitting, Climbing
  <2>3. x.p # Nil => Owns(u, x.p)' /\ Inner(x.p)' /\ ~ node'[x.p].ver.splitting /\ x.p \notin T
    BY <2>2, OwnedKept, KindKept
  <2>4. x.n \in NodeId /\ ~ Owns(t, x.n)
    BY <2>2 DEF Owns
  <2>5. node'[x.n].parent = x.p
    BY <2>2, <2>3, <2>4 DEF Frame
  <2>6. QED
    BY <2>3, <2>5
<1>10. pc[u] = "strip" =>
         /\ node'[x.n].parent # Nil /\ node'[x.child].parent # Nil
         /\ x.p # Nil => Owns(u, x.p)' /\ Inner(x.p)' /\ node'[x.p].height = x.height + 1
         /\ x.next = Nil /\ x.p # Nil => ~ node'[x.p].ver.splitting
         /\ x.next # Nil => /\ Pair(u, x.p, x.next, x.ikey2, x.height + 1, lo2, hi2)'
                            /\ x.p # Nil /\ Inner(x.next)' /\ node'[x.next].parent = Nil
  <2> SUFFICES ASSUME pc[u] = "strip"
               PROVE  /\ node'[x.n].parent # Nil /\ node'[x.child].parent # Nil
                      /\ x.p # Nil => Owns(u, x.p)' /\ Inner(x.p)' /\ node'[x.p].height = x.height + 1
                      /\ x.next = Nil /\ x.p # Nil => ~ node'[x.p].ver.splitting
                      /\ x.next # Nil => /\ Pair(u, x.p, x.next, x.ikey2, x.height + 1, lo2, hi2)'
                                         /\ x.p # Nil /\ Inner(x.next)' /\ node'[x.next].parent = Nil
    OBVIOUS
  <2>1. /\ node[x.n].parent # Nil /\ node[x.child].parent # Nil
        /\ x.p # Nil => Owns(u, x.p) /\ Inner(x.p) /\ node[x.p].height = x.height + 1
        /\ x.next = Nil /\ x.p # Nil => ~ node[x.p].ver.splitting
        /\ x.next # Nil => /\ Pair(u, x.p, x.next, x.ikey2, x.height + 1, lo, hi)
                           /\ x.p # Nil /\ Inner(x.next) /\ node[x.next].parent = Nil
    BY <1>1 DEF Writing
  <2>2. Pair(u, x.n, x.child, x.ikey, x.height, lo, hi)
    BY <1>1 DEF Writing, Splitting
  <2>3. x.n \in NodeId /\ x.child \in NodeId
    BY <2>2 DEF Pair, Owns
  <2>4. node'[x.n].parent # Nil /\ node'[x.child].parent # Nil
    BY <2>1, <2>3 DEF Frame
  <2>5. x.p # Nil => Owns(u, x.p)' /\ Inner(x.p)' /\ node'[x.p].ver = node[x.p].ver
                     /\ node'[x.p].height = node[x.p].height
    BY <2>1, OwnedKept, KindKept DEF SameBody
  <2>6. ASSUME x.next # Nil
        PROVE  /\ Pair(u, x.p, x.next, x.ikey2, x.height + 1, lo2, hi2)'
               /\ Inner(x.next)' /\ node'[x.next].parent = Nil
    <3>1. Pair(u, x.p, x.next, x.ikey2, x.height + 1, lo, hi)
      BY <2>1, <2>6
    <3>2. Pair(u, x.p, x.next, x.ikey2, x.height + 1, lo2, hi2)'
      BY <3>1, PairKept
    <3>3. Owns(u, x.next) /\ node[x.next].parent = Nil
      BY <2>1, <2>6, <3>1 DEF Pair
    <3>4. node'[x.next].parent = Nil
      BY <3>3 DEF Frame, Owns
    <3>5. QED
      BY <2>1, <2>6, <3>2, <3>4, KindKept
  <2>7. QED
    BY <2>1, <2>4, <2>5, <2>6
<1>11. pc[u] = "top" => Owns(u, x.p)' /\ Inner(x.p)' /\ ~ node'[x.p].ver.splitting
  <2>1. pc[u] = "top" => Owns(u, x.p) /\ Inner(x.p) /\ ~ node[x.p].ver.splitting
    BY <1>1 DEF Writing
  <2>2. QED
    BY <2>1, OwnedKept, KindKept
<1>12. pc[u] \in {"top", "finish"} => Ready(u, x.leaf, lo2, hi2)'
  <2>1. pc[u] \in {"top", "finish"} => Ready(u, x.leaf, lo, hi)
    BY <1>1 DEF Writing
  <2>2. QED
    BY <2>1, ReadyKept
<1>13. QED
  BY <1>1, <1>2, <1>3, <1>5, <1>6, <1>7, <1>8, <1>9, <1>10, <1>11, <1>12 DEF Writing

LEMMA OthersKept ==
  ASSUME Types, Types', NEW t, NEW T, NEW lo, NEW hi, NEW lo2, NEW hi2, Frame(t, T, lo, hi, lo2, hi2),
         NEW u \in Thread \ {t}, ThreadIn(u, lo, hi)
  PROVE  ThreadIn(u, lo2, hi2)'
<1>1. pc'[u] = pc[u] /\ loc'[u] = loc[u] /\ req'[u] = req[u]
  BY DEF Frame
<1>2. pc[u] \notin {"idle", "trim"} => req[u] # Idle /\ K(u) \in Key
  BY DEF ThreadIn
<1>3. pc[u] \in ReadPc => Reading(u, lo2, hi2)'
  <2>1. pc[u] \in ReadPc => Reading(u, lo, hi) /\ K(u) \in Key
    BY <1>2 DEF ThreadIn, ReadPc
  <2>2. QED
    BY <1>1, <2>1, ReadingKept
<1>4. pc[u] \in WritePc => Writing(u, lo2, hi2)'
  BY <1>1, WritingKept, ThreadAssumption DEF ThreadIn
<1>5. QED
  BY <1>1, <1>2, <1>3, <1>4 DEF ThreadIn, K

LEMMA BystanderKept ==
  ASSUME Types, Types', NEW t, NEW T, NEW lo, NEW hi, NEW lo2, NEW hi2, Frame(t, T, lo, hi, lo2, hi2),
         NEW x \in NodeId \ T, NodeIn(x, lo, hi)
  PROVE  NodeIn(x, lo2, hi2)'
<1>1. /\ SameBody(node[x], node'[x]) /\ node'[x].ver = node[x].ver /\ node'[x].lock = node[x].lock
      /\ hi2[x] = hi[x] /\ ReadHi(x, hi2)' = ReadHi(x, hi) /\ (NewRight(x)' <=> NewRight(x))
      /\ x \in NodeId' /\ lo2[x] = lo[x]
  BY DEF Frame, Still, Told
<1>2. /\ node'[x].kind = node[x].kind /\ node'[x].perm = node[x].perm /\ node'[x].slot = node[x].slot
      /\ node'[x].next = node[x].next /\ node'[x].ikeys = node[x].ikeys /\ node'[x].child = node[x].child
      /\ node'[x].height = node[x].height
  BY <1>1 DEF SameBody
<1>3. /\ lo2[x] \in Nat /\ hi2[x] \in Nat \cup {Inf} /\ Below(lo2[x], hi2[x])
      /\ Dirty(x)' => node'[x].lock # NoThread
  BY <1>1 DEF NodeIn, Dirty
<1>4. x # Nil
  BY NodeTypes DEF Nil
<1>5. ASSUME Leaf(x)' PROVE InLeaf(node'[x]) /\ LeafRange(x, lo2, hi2)'
  <2>1. Leaf(x) /\ InLeaf(node[x]) /\ LeafRange(x, lo, hi)
    BY <1>2, <1>5 DEF Leaf, NodeIn
  <2>2. InLeaf(node'[x])
    BY <1>2, <2>1 DEF InLeaf, KeyAt
  <2>3. node'[x].prev = Nil <=> node[x].prev = Nil
    BY DEF Frame
  <2>6. PICK y : y = node[x].next /\ y = node'[x].next
    BY <1>2
  <2>4. y # Nil => Leaf(y)' /\ lo2[y] = lo[y]
    <3>1. y # Nil => Leaf(y)
      BY <2>1, <2>6 DEF LeafRange
    <3>2. QED
      BY <3>1, KindKept
  <2>5. QED
    BY <1>1, <1>2, <2>1, <2>2, <2>3, <2>4, <2>6 DEF LeafRange, KeyAt
<1>6. ASSUME Inner(x)' PROVE InInner(node'[x]) /\ InnerRange(x, lo2, hi2)'
  <2>1. Inner(x) /\ InInner(node[x]) /\ InnerRange(x, lo, hi)
    BY <1>2, <1>6 DEF Inner, NodeIn
  <2>2. InInner(node'[x])
    BY <1>1, <1>2, <2>1 DEF InInner
  <2>3. ASSUME NEW j \in DOMAIN node[x].child PROVE ChildRange(x, j, lo2, hi2)'
    <3>1. ChildRange(x, j, lo, hi)
      BY <2>1, <2>3 DEF InnerRange
    <3>2. PICK c : c = node[x].child[j]
      OBVIOUS
    <3>3. c \in NodeId /\ node[c].parent = x
      BY <3>1, <3>2 DEF ChildRange
    <3>4. /\ c \in NodeId' /\ node'[c].parent = x /\ node'[c].height = node[c].height
          /\ lo2[c] = lo[c] /\ SepHi(c, hi2)' = SepHi(c, hi)
      BY <1>4, <3>3 DEF Frame, Told
    <3>5. QED
      BY <1>1, <1>2, <3>1, <3>2, <3>4 DEF ChildRange
  <2>4. QED
    BY <1>1, <1>2, <2>1, <2>2, <2>3 DEF InnerRange
<1>7. TopRange(x, lo2, hi2)'
  <2>1. TopRange(x, lo, hi)
    BY DEF NodeIn
  <2>2. node'[x].parent = Nil => node[x].parent = Nil /\ SepHi(x, hi2)' = SepHi(x, hi)
    BY DEF Frame
  <2>3. RootId(x)' => RootId(x)
    BY <1>2 DEF RootId, Inner
  <2>4. QED
    BY <1>1, <2>1, <2>2, <2>3 DEF TopRange
<1>8. QED
  BY <1>3, <1>5, <1>6, <1>7 DEF NodeIn

\* To be shown of each step of t: Frame, and what it touches.
LEMMA Wrap ==
  ASSUME NEW t, NEW T, NEW lo, NEW hi, NEW lo2, NEW hi2, TreeIn(lo, hi),
         Frame(t, T, lo, hi, lo2, hi2), Types', Parents', RootId(root)',
         \A x \in T : NodeIn(x, lo2, hi2)',
         \A x \in NodeId' \ NodeId : NodeIn(x, lo2, hi2)',
         t \in Thread => ThreadIn(t, lo2, hi2)'
  PROVE  TreeIn(lo2, hi2)'
<1>1. Types /\ Leaf(1)
  BY DEF TreeIn
<1>2. \A x \in NodeId' : NodeIn(x, lo2, hi2)'
  <2>1. ASSUME NEW x \in NodeId \ T PROVE NodeIn(x, lo2, hi2)'
    <3>1. NodeIn(x, lo, hi)
      BY DEF TreeIn
    <3>2. QED
      BY <1>1, <3>1, BystanderKept
  <2>2. QED
    BY <2>1
<1>3. \A u \in Thread : ThreadIn(u, lo2, hi2)'
  <2>1. ASSUME NEW u \in Thread \ {t} PROVE ThreadIn(u, lo2, hi2)'
    <3>1. ThreadIn(u, lo, hi)
      BY DEF TreeIn
    <3>2. QED
      BY <1>1, <3>1, OthersKept
  <2>2. QED
    BY <2>1
<1>4. Leaf(1)'
  BY <1>1, KindKept
<1>5. QED
  BY <1>2, <1>3, <1>4 DEF TreeIn

-----------------------------------------------------------------------------
(* How the owner of a node's lock sees it *)

LEMMA FreeView ==
  ASSUME NEW x, node[x].lock \notin Thread, NEW hi
  PROVE  SepHi(x, hi) = hi[x] /\ ReadHi(x, hi) = hi[x] /\ ~ NewRight(x)
BY DEF SepHi, ReadHi, NewRight

LEMMA IdleView ==
  ASSUME NEW x, NEW t, node[x].lock = t, pc[t] \notin Splitting, NEW hi
  PROVE  SepHi(x, hi) = hi[x] /\ ReadHi(x, hi) = hi[x] /\ ~ NewRight(x)
BY DEF SepHi, ReadHi, NewRight, Splitting, Climbing

LEMMA OwnView ==
  ASSUME NEW t \in Thread, NEW x, node[x].lock = t, NEW hi
  PROVE  /\ SepHi(x, hi) = IF pc[t] \in Climbing /\ loc[t].n = x THEN hi[loc[t].child]
                           ELSE IF pc[t] = "strip" /\ loc[t].next # Nil /\ loc[t].p = x THEN hi[loc[t].next]
                           ELSE hi[x]
         /\ ReadHi(x, hi) = IF pc[t] \in Splitting /\ loc[t].n = x /\ loc[t].leaf = x THEN hi[loc[t].child]
                            ELSE hi[x]
         /\ NewRight(x) <=> \/ pc[t] \in Climbing /\ loc[t].child = x
                            \/ pc[t] = "strip" /\ loc[t].next = x
BY DEF SepHi, ReadHi, NewRight

LEMMA ViewKept ==
  ASSUME NEW lo, NEW hi, TreeIn(lo, hi), NEW t, NEW hi2,
         \A u \in Thread \ {t} : pc'[u] = pc[u] /\ loc'[u] = loc[u],
         \A z \in NodeId : node[z].lock # t => hi2[z] = hi[z],
         NEW x \in NodeId, node[x].lock # t, node'[x].lock = node[x].lock
  PROVE  /\ SepHi(x, hi2)' = SepHi(x, hi) /\ ReadHi(x, hi2)' = ReadHi(x, hi)
         /\ NewRight(x)' <=> NewRight(x)
<1>1. hi2[x] = hi[x]
  OBVIOUS
<1>2. CASE node[x].lock \notin Thread
  <2>1. node'[x].lock \notin Thread
    BY <1>2
  <2>2. SepHi(x, hi2)' = hi2[x] /\ ReadHi(x, hi2)' = hi2[x] /\ ~ NewRight(x)'
    BY <2>1 DEF SepHi, ReadHi, NewRight
  <2>3. QED
    BY <1>1, <1>2, <2>2, FreeView
<1>3. CASE node[x].lock \in Thread
  <2>1. PICK u \in Thread \ {t} : u = node[x].lock /\ u = node'[x].lock
    BY <1>3
  <2>2. PICK y : y = loc[u] /\ y = loc'[u]
    OBVIOUS
  <2>3. pc'[u] = pc[u] /\ ThreadIn(u, lo, hi)
    BY DEF TreeIn
  <2>4. pc[u] \in Splitting => hi2[y.child] = hi[y.child]
    <3>1. pc[u] \in Splitting => Owns(u, y.child)
      BY <2>2, <2>3 DEF ThreadIn, Writing, Pair, WritePc, Putting
    <3>2. QED
      BY <3>1 DEF Owns
  <2>5. pc[u] = "strip" /\ y.next # Nil => hi2[y.next] = hi[y.next]
    <3>1. pc[u] = "strip" /\ y.next # Nil => Owns(u, y.next)
      BY <2>2, <2>3 DEF ThreadIn, Writing, Pair, WritePc, Putting, Splitting
    <3>2. QED
      BY <3>1 DEF Owns
  <2>6. SepHi(x, hi2)' = SepHi(x, hi)
    BY <1>1, <2>1, <2>2, <2>3, <2>4, <2>5 DEF SepHi, Splitting
  <2>7. ReadHi(x, hi2)' = ReadHi(x, hi)
    BY <1>1, <2>1, <2>2, <2>3, <2>4 DEF ReadHi
  <2>8. NewRight(x)' <=> NewRight(x)
    BY <2>1, <2>2, <2>3 DEF NewRight
  <2>9. QED
    BY <2>6, <2>7, <2>8
<1>4. QED
  BY <1>2, <1>3

\* What is in x's range can be found there, and so can what is led there.
LEMMA ReadAbove ==
  ASSUME NEW lo, NEW hi, TreeIn(lo, hi), NEW x \in NodeId, NEW i \in Nat
  PROVE  /\ Below(i, hi[x]) => Below(i, ReadHi(x, hi))
         /\ ~ node[x].ver.splitting /\ Below(i, SepHi(x, hi)) => Below(i, ReadHi(x, hi))
         /\ node[x].kind = "inner" => ReadHi(x, hi) = hi[x]
<1>1. CASE node[x].lock \notin Thread
  BY <1>1, FreeView
<1>2. CASE node[x].lock \in Thread
  <2>1. PICK t \in Thread : t = node[x].lock
    BY <1>2
  <2>2. CASE pc[t] \notin Splitting
    BY <2>1, <2>2, IdleView
  <2>3. CASE pc[t] \in Splitting
    <3>1. Writing(t, lo, hi)
      BY <2>3 DEF TreeIn, ThreadIn, WritePc, Putting
    <3>2. PICK y : y = loc[t]
      OBVIOUS
    <3>3. Pair(t, y.n, y.child, y.ikey, y.height, lo, hi) /\ Leaf(y.leaf)
      BY <2>3, <3>1, <3>2 DEF Writing
    <3>4. y.child \in NodeId /\ hi[y.n] = lo[y.child] /\ node[y.n].kind = node[y.child].kind
      BY <3>3 DEF Pair, Owns
    <3>5. lo[y.child] \in Nat /\ hi[y.child] \in Nat \cup {Inf} /\ Below(lo[y.child], hi[y.child])
      BY <3>4 DEF TreeIn, NodeIn
    <3>6. ReadHi(x, hi) = IF y.n = x /\ y.leaf = x THEN hi[y.child] ELSE hi[x]
      BY <2>1, <2>3, <3>2, OwnView
    <3>7. Below(i, hi[x]) => Below(i, ReadHi(x, hi))
      BY <3>4, <3>5, <3>6 DEF Below, Inf
    <3>8. node[x].kind = "inner" => ReadHi(x, hi) = hi[x]
      BY <3>3, <3>6 DEF Leaf
    <3>9. ASSUME ~ node[x].ver.splitting, Below(i, SepHi(x, hi)) PROVE Below(i, ReadHi(x, hi))
      <4>1. CASE pc[t] \in Climbing /\ y.n = x
        <5>1. SepHi(x, hi) = hi[y.child]
          BY <2>1, <3>2, <4>1, OwnView
        <5>2. y.leaf = x
          <6>1. y.n # y.leaf => Inner(y.child)
            BY <2>3, <3>1, <3>2, <3>4 DEF Writing, Inner
          <6>2. QED
            BY <3>3, <3>9, <4>1, <6>1 DEF Pair
        <5>3. QED
          BY <3>6, <3>9, <4>1, <5>1, <5>2
      <4>2. CASE pc[t] = "strip" /\ y.next # Nil /\ y.p = x
        <5>1. Pair(t, y.p, y.next, y.ikey2, y.height + 1, lo, hi) /\ Inner(y.next)
          BY <3>1, <3>2, <4>2 DEF Writing
        <5>2. QED
          BY <3>9, <4>2, <5>1 DEF Pair
      <4>3. CASE ~ (pc[t] \in Climbing /\ y.n = x) /\ ~ (pc[t] = "strip" /\ y.next # Nil /\ y.p = x)
        <5>1. SepHi(x, hi) = hi[x]
          BY <2>1, <3>2, <4>3, OwnView
        <5>2. QED
          BY <3>7, <3>9, <5>1
      <4>4. QED
        BY <4>1, <4>2, <4>3
    <3>10. QED
      BY <3>7, <3>8, <3>9
  <2>4. QED
    BY <2>2, <2>3
<1>3. QED
  BY <1>1, <1>2

-----------------------------------------------------------------------------
(* Steps that change no node *)

AllPc == ReadPc \cup WritePc \cup OtherPc
AllLocals == ReadLocals \cup WritingLocals

LEMMA Moves ==
  ASSUME Types, NEW t \in Thread, NEW l \in AllPc, NEW m \in AllLocals,
         pc' = [pc EXCEPT ![t] = l], loc' = [loc EXCEPT ![t] = m],
         node' \in Seq(Node), NodeId \subseteq NodeId', req' = req, pre' = pre
  PROVE  /\ Types' /\ pc'[t] = l /\ loc'[t] = m
         /\ \A u \in Thread \ {t} : pc'[u] = pc[u] /\ loc'[u] = loc[u] /\ req'[u] = req[u]
<1>1. pc \in [Thread -> AllPc] /\ loc \in [Thread -> AllLocals]
  BY DEF Types, AllPc, AllLocals
<1>2. pc' \in [Thread -> AllPc] /\ loc' \in [Thread -> AllLocals]
  BY <1>1
<1>3. pc'[t] = l /\ loc'[t] = m /\ \A u \in Thread \ {t} : pc'[u] = pc[u] /\ loc'[u] = loc[u] /\ req'[u] = req[u]
  BY <1>1
<1>4. req' = [u \in Thread |-> req'[u]] /\ 1 \in NodeId'
  BY DEF Types
<1>5. \E all : /\ pre' \in [load : Seq(all), calls : [Thread -> SUBSET all]]
               /\ \A r \in all : r # Idle /\ r.key \in Key
  BY DEF Types
<1>6. QED
  BY <1>2, <1>3, <1>4, <1>5 DEF Types, AllPc, AllLocals

LEMMA Quiet ==
  ASSUME NEW lo, NEW hi, TreeIn(lo, hi), NEW t \in Thread, node' = node,
         \A u \in Thread \ {t} : pc'[u] = pc[u] /\ loc'[u] = loc[u] /\ req'[u] = req[u],
         \/ pc[t] \notin Splitting /\ pc'[t] \notin Splitting
         \/ /\ pc[t] \in Climbing /\ pc'[t] \in Climbing /\ loc'[t].n = loc[t].n
            /\ loc'[t].child = loc[t].child /\ loc'[t].leaf = loc[t].leaf
  PROVE  Frame(t, {}, lo, hi, lo, hi) /\ Parents'
<1>1. Types /\ Parents /\ \A u \in Thread : ThreadIn(u, lo, hi)
  BY DEF TreeIn
<1>2. ASSUME NEW x \in NodeId
      PROVE  /\ SepHi(x, hi)' = SepHi(x, hi) /\ ReadHi(x, hi)' = ReadHi(x, hi)
             /\ NewRight(x)' <=> NewRight(x)
  <2>1. CASE node[x].lock # t
    BY <1>1, <2>1, ViewKept
  <2>2. CASE node[x].lock = t
    BY <2>2 DEF SepHi, ReadHi, NewRight, Splitting, Climbing
  <2>3. QED
    BY <2>1, <2>2
<1>3. ASSUME NEW x \in NodeId PROVE Told(x, lo, hi, lo, hi) /\ Still(x, hi, hi)
  <2>1. node[x].ver.vsplit \in Nat /\ node[x].ver.vinsert \in Nat
    BY <1>1, NodeTypes
  <2>2. QED
    BY <1>2, <2>1 DEF Told, Still, SameBody, VLeq
<1>4. Frame(t, {}, lo, hi, lo, hi)
  BY <1>2, <1>3 DEF Frame, NodeId
<1>5. Parents'
  BY <1>1 DEF Parents, HasChild, Inner, NodeId
<1>6. QED
  BY <1>4, <1>5

LEMMA QuietStep ==
  ASSUME NEW lo, NEW hi, TreeIn(lo, hi), NEW t \in Thread, node' = node, RootId(root)',
         NEW l \in AllPc, NEW m \in AllLocals,
         pc' = [pc EXCEPT ![t] = l], loc' = [loc EXCEPT ![t] = m], req' = req, pre' = pre,
         \/ pc[t] \notin Splitting /\ l \notin Splitting
         \/ /\ pc[t] \in Climbing /\ l \in Climbing /\ m.n = loc[t].n
            /\ m.child = loc[t].child /\ m.leaf = loc[t].leaf,
         ThreadIn(t, lo, hi)'
  PROVE  TreeIn(lo, hi)'
<1>1. Types /\ node' \in Seq(Node) /\ NodeId' = NodeId
  BY DEF TreeIn, Types, NodeId
<1>2. /\ Types' /\ pc'[t] = l /\ loc'[t] = m
      /\ \A u \in Thread \ {t} : pc'[u] = pc[u] /\ loc'[u] = loc[u] /\ req'[u] = req[u]
  BY <1>1, Moves
<1>3. Frame(t, {}, lo, hi, lo, hi) /\ Parents'
  BY <1>2, Quiet
<1>4. QED
  BY <1>1, <1>2, <1>3, Wrap

-----------------------------------------------------------------------------
(* Going down *)

LEMMA NoLocalsAre == NoLocals \in ReadLocals
<1>1. Version0 \in Version
  BY DEF Version0, Version
<1>2. QED
  BY <1>1 DEF NoLocals, ReadLocals, Nil

\* A way in that is made of what t knows before.
LEMMA ReadStep ==
  ASSUME NEW lo, NEW hi, TreeIn(lo, hi), NEW t \in Thread, pc[t] \notin Splitting,
         NEW l \in ReadPc, NEW m \in ReadLocals,
         pc' = [pc EXCEPT ![t] = l], loc' = [loc EXCEPT ![t] = m],
         node' = node, root' = root, req' = req, pre' = pre,
         req[t] # Idle, K(t) \in Key,
         RootId(m.start),
         l = "root" => RootId(m.n),
         l \in {"down", "child", "check"} => Inner(m.n) /\ Fits(t, m.n, m.v, lo, hi),
         l \in {"child", "check"} =>
           /\ m.c \in NodeId
           /\ NoChange(m.n, m.v) => m.c = ChildAt(node[m.n], Upper(Ik(t), node[m.n])),
         l = "check" => Seen(m.c, m.cv),
         l = "leaf" => Leaf(m.n) /\ Fits(t, m.n, m.v, lo, hi),
         l \in {"walk", "walked"} => Leaf(m.n) /\ lo[m.n] <= Ik(t),
         l = "walk" => Seen(m.n, m.v)
  PROVE  TreeIn(lo, hi)'
<1>1. Types /\ node' \in Seq(Node) /\ NodeId' = NodeId /\ l \in AllPc /\ m \in AllLocals /\ RootId(root)
  BY DEF TreeIn, Types, NodeId, AllPc, AllLocals
<1>2. /\ Types' /\ pc'[t] = l /\ loc'[t] = m
      /\ \A u \in Thread \ {t} : pc'[u] = pc[u] /\ loc'[u] = loc[u] /\ req'[u] = req[u]
  BY <1>1, Moves
<1>3. l \notin Splitting /\ l \notin WritePc /\ l \notin {"idle", "trim"}
  BY DEF ReadPc, Splitting, Climbing, WritePc, Putting
<1>4. Frame(t, {}, lo, hi, lo, hi) /\ Parents'
  BY <1>2, <1>3, Quiet
<1>5. \A x : (Inner(x)' <=> Inner(x)) /\ (Leaf(x)' <=> Leaf(x)) /\ (RootId(x)' <=> RootId(x))
  BY DEF Inner, Leaf, RootId, NodeId
<1>6. \A x, v : (Seen(x, v)' <=> Seen(x, v)) /\ (NoChange(x, v)' <=> NoChange(x, v))
  BY DEF Seen, NoChange, NoSplit
<1>7. Ik(t)' = Ik(t) /\ K(t)' = K(t)
  BY DEF Ik, K
<1>8. m.v \in Version
  BY DEF ReadLocals
<1>9. ASSUME NEW x \in NodeId, Fits(t, x, m.v, lo, hi) PROVE Fits(t, x, m.v, lo, hi)'
  <2>1. req'[t] = req[t]
    OBVIOUS
  <2>2. QED
    BY <1>1, <1>2, <1>4, <1>8, <1>9, <2>1, FitsKept
<1>10. /\ l \in {"down", "child", "check"} => Fits(t, m.n, m.v, lo, hi)'
       /\ l = "leaf" => Fits(t, m.n, m.v, lo, hi)'
  BY <1>9 DEF Inner, Leaf
<1>11. Reading(t, lo, hi)'
  BY <1>1, <1>2, <1>5, <1>6, <1>7, <1>10 DEF Reading
<1>12. ThreadIn(t, lo, hi)'
  BY <1>2, <1>3, <1>7, <1>11 DEF ThreadIn
<1>13. RootId(root)'
  BY <1>1 DEF RootId, Inner, NodeId
<1>14. QED
  BY <1>1, <1>2, <1>3, <1>12, <1>13, QuietStep

\* upper: how many of the keys are not greater; the next one is greater.
LEMMA UpperIs ==
  ASSUME NEW y, y.ikeys \in Seq(Nat), NEW i \in Nat,
         \A j, k \in DOMAIN y.ikeys : j < k => y.ikeys[j] < y.ikeys[k]
  PROVE  /\ Upper(i, y) \in 0 .. Len(y.ikeys)
         /\ \A j \in 1 .. Upper(i, y) : y.ikeys[j] <= i
         /\ \A j \in Upper(i, y) + 1 .. Len(y.ikeys) : y.ikeys[j] > i
<1> DEFINE S == {j \in DOMAIN y.ikeys : y.ikeys[j] <= i}
           n == Len(y.ikeys)
<1>1. n \in Nat /\ DOMAIN y.ikeys = 1 .. n /\ \A j \in 1 .. n : y.ikeys[j] \in Nat
  OBVIOUS
<1>2. S \in SUBSET (1 .. n)
  BY <1>1
<1>3. \A j \in S : \A k \in 1 .. j : k \in S
  <2>1. SUFFICES ASSUME NEW j \in S, NEW k \in 1 .. j PROVE k \in S
    OBVIOUS
  <2>2. k \in 1 .. n /\ j \in 1 .. n /\ y.ikeys[j] <= i
    BY <1>1
  <2>3. k < j => y.ikeys[k] < y.ikeys[j]
    BY <1>1, <2>2
  <2>4. QED
    BY <1>1, <2>2, <2>3
<1>4. Upper(i, y) = Cardinality(S)
  BY DEF Upper
<1>5. \A j \in 1 .. n : j \in S <=> y.ikeys[j] <= i
  BY <1>1
<1> HIDE DEF S, n
<1>6. Cardinality(S) \in 0 .. n /\ S = 1 .. Cardinality(S)
  BY <1>1, <1>2, <1>3, Initial
<1>7. \A j \in 1 .. n : j <= Cardinality(S) <=> y.ikeys[j] <= i
  BY <1>5, <1>6
<1>8. QED
  BY <1>1, <1>4, <1>6, <1>7 DEF n

\* The child that an internode leads to has the key in its range.
LEMMA LeadsTo ==
  ASSUME NEW lo, NEW hi, TreeIn(lo, hi), NEW x, Inner(x), NEW i \in Nat, lo[x] <= i
  PROVE  LET c == ChildAt(node[x], Upper(i, node[x])) IN
         /\ c \in NodeId /\ node[c].parent = x /\ lo[c] <= i
         /\ Below(i, hi[x]) => Below(i, SepHi(c, hi))
<1>0. PICK y : y = node[x]
  OBVIOUS
<1>a. PICK u : u = Upper(i, y)
  OBVIOUS
<1>b. PICK c : c = ChildAt(y, u)
  OBVIOUS
<1>1. InInner(y) /\ InnerRange(x, lo, hi) /\ y.ikeys \in Seq(Nat) /\ y.child \in Seq(Nat)
  <2>1. Types /\ x \in NodeId /\ NodeIn(x, lo, hi)
    BY DEF TreeIn, Inner
  <2>2. QED
    BY <1>0, <2>1, NodeTypes DEF NodeIn
<1>2. \A j, k \in DOMAIN y.ikeys : j < k => y.ikeys[j] < y.ikeys[k]
  BY <1>1 DEF InInner
<1>3. /\ u \in 0 .. Len(y.ikeys)
      /\ \A j \in 1 .. u : y.ikeys[j] <= i
      /\ \A j \in u + 1 .. Len(y.ikeys) : y.ikeys[j] > i
  BY <1>1, <1>2, <1>a, UpperIs
<1>4. Len(y.child) = Len(y.ikeys) + 1 /\ Len(y.ikeys) \in Nat
  BY <1>1 DEF InInner
<1>5. u + 1 \in DOMAIN y.child
  BY <1>1, <1>3, <1>4
<1>6. PICK j : j = u + 1
  OBVIOUS
<1>7. /\ c \in NodeId /\ node[c].parent = x
      /\ lo[c] = IF j = 1 THEN lo[x] ELSE y.ikeys[j - 1]
      /\ SepHi(c, hi) = IF j = Len(y.ikeys) + 1 THEN hi[x] ELSE y.ikeys[j]
  <2>1. ChildRange(x, j, lo, hi) /\ c = node[x].child[j]
    BY <1>0, <1>1, <1>5, <1>6, <1>b DEF InnerRange, ChildAt
  <2>2. QED
    BY <1>0, <2>1, Zenon DEF ChildRange
<1>8. lo[c] <= i
  <2>1. CASE j = 1
    BY <1>7, <2>1
  <2>2. CASE j # 1
    <3>1. lo[c] = y.ikeys[j - 1] /\ j - 1 = u /\ u \in 1 .. u
      BY <1>3, <1>6, <1>7, <2>2
    <3>2. QED
      BY <1>3, <3>1
  <2>3. QED
    BY <2>1, <2>2
<1>9. Below(i, hi[x]) => Below(i, SepHi(c, hi))
  <2>1. CASE j = Len(y.ikeys) + 1
    BY <1>7, <2>1
  <2>2. CASE j # Len(y.ikeys) + 1
    <3>1. SepHi(c, hi) = y.ikeys[j] /\ j \in u + 1 .. Len(y.ikeys)
      BY <1>3, <1>4, <1>6, <1>7, <2>2
    <3>2. QED
      BY <1>3, <3>1 DEF Below
  <2>3. QED
    BY <2>1, <2>2
<1>10. QED
  BY <1>0, <1>a, <1>b, <1>7, <1>8, <1>9

LEMMA Reader ==
  ASSUME NEW lo, NEW hi, TreeIn(lo, hi), NEW t \in Thread, pc[t] \in ReadPc
  PROVE  /\ Types /\ Reading(t, lo, hi) /\ loc[t] \in ReadLocals /\ RootId(loc[t].start)
         /\ loc[t].v \in Version /\ loc[t].cv \in Version /\ loc[t].n \in Nat /\ loc[t].c \in Nat
         /\ loc[t].start \in Nat
         /\ req[t] # Idle /\ K(t) \in Key /\ Ik(t) \in Nat /\ pc[t] \notin Splitting
<1>1. Types /\ Reading(t, lo, hi) /\ req[t] # Idle /\ K(t) \in Key /\ pc[t] \notin Splitting
  BY DEF TreeIn, ThreadIn, ReadPc, Splitting, Climbing
<1>2. loc[t] \in ReadLocals /\ RootId(loc[t].start)
  BY <1>1 DEF Reading
<1>3. QED
  BY <1>1, <1>2, IkeysAre DEF ReadLocals, Ik

LEMMA FromStartIs ==
  ASSUME NEW t, loc[t] \in ReadLocals
  PROVE  FromStart(t) \in ReadLocals /\ FromStart(t).start = loc[t].start /\ FromStart(t).n = loc[t].start
BY NoLocalsAre DEF FromStart, ReadLocals

LEMMA SeenNow ==
  ASSUME Types, NEW x \in NodeId, ~ Dirty(x)
  PROVE  Seen(x, node[x].ver) /\ NoSplit(x, node[x].ver)
<1>1. node[x].ver.vinsert \in Nat
  BY NodeTypes
<1>2. ~ node[x].ver.inserting /\ ~ node[x].ver.splitting
  BY DEF Dirty
<1>3. QED
  BY <1>1, <1>2 DEF Seen, VLeq, NoSplit

LEMMA ParentOf ==
  ASSUME NEW lo, NEW hi, TreeIn(lo, hi), NEW x \in NodeId
  PROVE  /\ node[x].parent # Nil => Inner(node[x].parent)
         /\ RootId(x) => RootId(MaybeParent(x))
BY DEF TreeIn, Parents, HasChild, RootId, MaybeParent

LEMMA RootIsNode ==
  ASSUME NEW lo, NEW hi, TreeIn(lo, hi), NEW x, RootId(x)
  PROVE  x \in NodeId
BY DEF TreeIn, RootId, Inner, Leaf

LEMMA ReachRootKeeps ==
  ASSUME NEW lo, NEW hi, TreeIn(lo, hi), NEW t \in Thread, ReachRoot(t)
  PROVE  TreeIn(lo, hi)'
<1> DEFINE x == loc[t]
           n == x.n
<1>1. pc[t] = "root" /\ ~ Dirty(n) /\ UNCHANGED <<node, root, req, pre>>
  BY DEF ReachRoot
<1>2. /\ Types /\ x \in ReadLocals /\ RootId(x.start) /\ RootId(n)
      /\ req[t] # Idle /\ K(t) \in Key /\ Ik(t) \in Nat /\ pc[t] \notin Splitting
  BY <1>1, Reader DEF ReadPc, Reading
<1>3. n \in NodeId
  BY <1>2, RootIsNode
<1>4. CASE node[n].ver.root
  <2> DEFINE m == [x EXCEPT !.v = node[n].ver]
             l == IF IsLeaf(n) THEN "leaf" ELSE "down"
  <2>1. loc' = [loc EXCEPT ![t] = m] /\ pc' = [pc EXCEPT ![t] = l]
    BY <1>4 DEF ReachRoot, Goto
  <2>2. node[n].ver \in Version
    BY <1>2, <1>3, NodeTypes
  <2>3. m \in ReadLocals /\ m.start = x.start /\ m.n = n /\ m.v = node[n].ver
    BY <1>2, <2>2 DEF ReadLocals
  <2>4. lo[n] = 0 /\ ReadHi(n, hi) = Inf
    BY <1>1, <1>2, <1>3, <1>4 DEF TreeIn, NodeIn, TopRange, Dirty
  <2>5. Fits(t, n, m.v, lo, hi)
    BY <1>1, <1>2, <1>3, <2>3, <2>4, SeenNow DEF Fits, Below
  <2>6. IF IsLeaf(n) THEN Leaf(n) ELSE Inner(n)
    BY <1>2, <1>3, Kinds
  <2>7. l \in ReadPc /\ l \in {"leaf", "down"} /\ (l = "leaf" <=> IsLeaf(n))
    BY DEF ReadPc
  <2> HIDE DEF m, l
  <2>8. QED
    BY <1>1, <1>2, <2>1, <2>3, <2>5, <2>6, <2>7, ReadStep
<1>5. CASE ~ node[n].ver.root
  <2> DEFINE m == [x EXCEPT !.n = MaybeParent(n)]
  <2>1. loc' = [loc EXCEPT ![t] = m] /\ pc' = [pc EXCEPT ![t] = "root"]
    <3>1. loc' = [loc EXCEPT ![t] = m] /\ pc' = pc /\ pc \in [Thread -> AllPc]
      BY <1>2, <1>5 DEF ReachRoot, Types, AllPc
    <3>2. QED
      BY <1>1, <3>1
  <2>2. RootId(MaybeParent(n)) /\ MaybeParent(n) \in Nat
    <3>1. RootId(MaybeParent(n))
      BY <1>2, <1>3, ParentOf
    <3>2. QED
      BY <1>2, <3>1, RootIsNode, NodeTypes
  <2>3. m \in ReadLocals /\ m.start = x.start /\ m.n = MaybeParent(n)
    BY <1>2, <2>2 DEF ReadLocals
  <2> HIDE DEF m
  <2>4. "root" \in ReadPc
    BY DEF ReadPc
  <2>5. QED
    BY <1>1, <1>2, <2>1, <2>2, <2>3, <2>4, ReadStep
<1>6. QED
  BY <1>4, <1>5

LEMMA ReadChildKeeps ==
  ASSUME NEW lo, NEW hi, TreeIn(lo, hi), NEW t \in Thread, ReadChild(t)
  PROVE  TreeIn(lo, hi)'
<1> DEFINE x == loc[t]
           n == x.n
           c == ChildAt(node[n], Upper(Ik(t), node[n]))
<1>1. pc[t] = "down" /\ UNCHANGED <<node, root, req, pre>>
  BY DEF ReadChild
<1>2. /\ Types /\ x \in ReadLocals /\ RootId(x.start) /\ Inner(n) /\ Fits(t, n, x.v, lo, hi)
      /\ req[t] # Idle /\ K(t) \in Key /\ Ik(t) \in Nat /\ pc[t] \notin Splitting
  BY <1>1, Reader DEF ReadPc, Reading
<1>3. c \in NodeId
  BY <1>2, LeadsTo DEF Fits
<1>4. c # Nil /\ c \in Nat
  BY <1>2, <1>3, NodeTypes DEF Nil
<1> DEFINE m == [x EXCEPT !.c = c]
<1>5. loc' = [loc EXCEPT ![t] = m] /\ pc' = [pc EXCEPT ![t] = "child"]
  BY <1>4 DEF ReadChild, Goto, Ik
<1>6. m \in ReadLocals /\ m.start = x.start /\ m.n = n /\ m.v = x.v /\ m.c = c
  BY <1>2, <1>4 DEF ReadLocals
<1>7. "child" \in ReadPc
  BY DEF ReadPc
<1> HIDE DEF m
<1>8. QED
  BY <1>1, <1>2, <1>3, <1>5, <1>6, <1>7, ReadStep

LEMMA ChildVersionKeeps ==
  ASSUME NEW lo, NEW hi, TreeIn(lo, hi), NEW t \in Thread, ChildVersion(t)
  PROVE  TreeIn(lo, hi)'
<1> DEFINE x == loc[t]
           m == [x EXCEPT !.cv = node[x.c].ver]
<1>1. /\ pc[t] = "child" /\ UNCHANGED <<node, root, req, pre>> /\ ~ Dirty(x.c)
      /\ loc' = [loc EXCEPT ![t] = m] /\ pc' = [pc EXCEPT ![t] = "check"]
  BY DEF ChildVersion, Goto
<1>2. /\ Types /\ x \in ReadLocals /\ RootId(x.start) /\ Inner(x.n) /\ Fits(t, x.n, x.v, lo, hi)
      /\ x.c \in NodeId
      /\ NoChange(x.n, x.v) => x.c = ChildAt(node[x.n], Upper(Ik(t), node[x.n]))
      /\ req[t] # Idle /\ K(t) \in Key /\ pc[t] \notin Splitting
  BY <1>1, Reader DEF ReadPc, Reading
<1>3. node[x.c].ver \in Version /\ Seen(x.c, node[x.c].ver)
  BY <1>1, <1>2, NodeTypes, SeenNow
<1>4. m \in ReadLocals /\ m.start = x.start /\ m.n = x.n /\ m.v = x.v /\ m.c = x.c /\ m.cv = node[x.c].ver
  BY <1>2, <1>3 DEF ReadLocals
<1>5. "check" \in ReadPc
  BY DEF ReadPc
<1> HIDE DEF m
<1>6. QED
  BY <1>1, <1>2, <1>3, <1>4, <1>5, ReadStep

LEMMA GoDownKeeps ==
  ASSUME NEW lo, NEW hi, TreeIn(lo, hi), NEW t \in Thread, GoDown(t)
  PROVE  TreeIn(lo, hi)'
<1> DEFINE x == loc[t]
           c == x.c
           m == [NoLocals EXCEPT !.start = x.start, !.n = c, !.v = x.cv]
           l == IF IsLeaf(c) THEN "leaf" ELSE "down"
<1>1. /\ pc[t] = "check" /\ UNCHANGED <<node, root, req, pre>> /\ ~ HasChanged(x.n, x.v)
      /\ loc' = [loc EXCEPT ![t] = m] /\ pc' = [pc EXCEPT ![t] = l]
  BY DEF GoDown, Goto
<1>2. /\ Types /\ x \in ReadLocals /\ RootId(x.start) /\ Inner(x.n) /\ Fits(t, x.n, x.v, lo, hi)
      /\ c \in NodeId
      /\ NoChange(x.n, x.v) => c = ChildAt(node[x.n], Upper(Ik(t), node[x.n]))
      /\ Seen(c, x.cv) /\ x.cv \in Version /\ x.v \in Version /\ c \in Nat /\ x.start \in Nat
      /\ req[t] # Idle /\ K(t) \in Key /\ Ik(t) \in Nat /\ pc[t] \notin Splitting
  BY <1>1, Reader DEF ReadPc, Reading
<1>3. NoChange(x.n, x.v) /\ NoSplit(x.n, x.v)
  BY <1>1, <1>2 DEF HasChanged, NoChange, NoSplit, Fits, Seen
<1>4. lo[x.n] <= Ik(t) /\ Below(Ik(t), hi[x.n])
  <2>1. lo[x.n] <= Ik(t) /\ Below(Ik(t), ReadHi(x.n, hi))
    BY <1>2, <1>3 DEF Fits
  <2>2. ReadHi(x.n, hi) = hi[x.n]
    BY <1>2, ReadAbove DEF Inner
  <2>3. QED
    BY <2>1, <2>2
<1>5. lo[c] <= Ik(t) /\ Below(Ik(t), SepHi(c, hi))
  BY <1>2, <1>3, <1>4, LeadsTo
<1>6. ~ node[c].ver.splitting => Below(Ik(t), ReadHi(c, hi))
  BY <1>2, <1>5, ReadAbove
<1>7. Fits(t, c, x.cv, lo, hi)
  BY <1>2, <1>5, <1>6 DEF Fits, NoSplit
<1>8. m \in ReadLocals /\ m.start = x.start /\ m.n = c /\ m.v = x.cv
  BY <1>2, NoLocalsAre DEF ReadLocals
<1>9. IF IsLeaf(c) THEN Leaf(c) ELSE Inner(c)
  BY <1>2, Kinds
<1>10. l \in ReadPc /\ l \in {"leaf", "down"} /\ (l = "leaf" <=> IsLeaf(c))
  BY DEF ReadPc
<1> HIDE DEF m, l
<1>11. QED
  BY <1>1, <1>2, <1>7, <1>8, <1>9, <1>10, ReadStep

\* HasSplit tells of a change that vsplit counts: deleted is never set.
LEMMA NoSplitStays ==
  ASSUME Types, NEW x \in NodeId, NEW v \in Version, ~ Dirty(x), ~ HasSplit(v, node[x].ver)
  PROVE  NoSplit(x, v)
BY DEF HasSplit, NoSplit, Dirty

LEMMA CheckAgainKeeps ==
  ASSUME NEW lo, NEW hi, TreeIn(lo, hi), NEW t \in Thread, CheckAgain(t)
  PROVE  TreeIn(lo, hi)'
<1> DEFINE x == loc[t]
           n == x.n
<1>1. pc[t] = "check" /\ UNCHANGED <<node, root, req, pre>> /\ ~ Dirty(n)
  BY DEF CheckAgain
<1>2. /\ Types /\ x \in ReadLocals /\ RootId(x.start) /\ Inner(n) /\ Fits(t, n, x.v, lo, hi) /\ x.v \in Version
      /\ n \in NodeId /\ req[t] # Idle /\ K(t) \in Key /\ Ik(t) \in Nat /\ pc[t] \notin Splitting
  BY <1>1, Reader DEF ReadPc, Reading, Inner
<1>3. CASE HasSplit(x.v, node[n].ver) /\ BeyondLast(n, K(t))
  <2>1. loc' = [loc EXCEPT ![t] = FromStart(t)] /\ pc' = [pc EXCEPT ![t] = "root"]
    BY <1>3 DEF CheckAgain, Goto
  <2>2. FromStart(t) \in ReadLocals /\ FromStart(t).start = x.start /\ FromStart(t).n = x.start
    BY <1>2, FromStartIs
  <2>3. "root" \in ReadPc
    BY DEF ReadPc
  <2>4. QED
    BY <1>1, <1>2, <2>1, <2>2, <2>3, ReadStep
<1>4. CASE ~ (HasSplit(x.v, node[n].ver) /\ BeyondLast(n, K(t)))
  <2> DEFINE m == [x EXCEPT !.v = node[n].ver, !.c = Nil, !.cv = Version0]
  <2>1. loc' = [loc EXCEPT ![t] = m] /\ pc' = [pc EXCEPT ![t] = "down"]
    BY <1>4 DEF CheckAgain, Goto
  <2>2. node[n].ver \in Version /\ Version0 \in Version
    BY <1>2, NodeTypes DEF Version, Version0
  <2>3. m \in ReadLocals /\ m.start = x.start /\ m.n = n /\ m.v = node[n].ver
    BY <1>2, <2>2 DEF ReadLocals, Nil
  <2>4. Below(Ik(t), hi[n])
    <3>1. CASE ~ HasSplit(x.v, node[n].ver)
      <4>1. Below(Ik(t), ReadHi(n, hi))
        BY <1>1, <1>2, <3>1, NoSplitStays DEF Fits
      <4>2. QED
        BY <1>2, <4>1, ReadAbove DEF Inner
    <3>2. CASE ~ BeyondLast(n, K(t))
      <4>1. ~ IsLeaf(n)
        BY <1>2, Kinds
      <4>2. node[n].ikeys # <<>> /\ ~ (Ik(t) > SX!Last(node[n].ikeys))
        BY <3>2, <4>1 DEF BeyondLast, Ik
      <4>3. PICK s : s = node[n].ikeys
        OBVIOUS
      <4>4. s \in Seq(Nat) /\ s # <<>> /\ SX!Last(s) = s[Len(s)]
        BY <1>2, <4>2, <4>3, NodeTypes DEF SX!Last
      <4>5. Len(s) \in DOMAIN s /\ s[Len(s)] \in Nat
        BY <4>4
      <4>6. Below(s[Len(s)], hi[n]) /\ hi[n] \in Nat \cup {Inf}
        BY <1>2, <4>3, <4>5 DEF TreeIn, NodeIn, InnerRange
      <4>7. QED
        BY <1>2, <4>2, <4>3, <4>4, <4>5, <4>6 DEF Below, Inf
    <3>3. QED
      BY <1>4, <3>1, <3>2
  <2>5. Fits(t, n, m.v, lo, hi)
    <3>1. Seen(n, node[n].ver) /\ lo[n] <= Ik(t)
      BY <1>1, <1>2, SeenNow DEF Fits
    <3>2. Below(Ik(t), ReadHi(n, hi))
      BY <1>2, <2>4, ReadAbove
    <3>3. QED
      BY <2>3, <3>1, <3>2 DEF Fits
  <2>6. "down" \in ReadPc
    BY DEF ReadPc
  <2> HIDE DEF m
  <2>7. QED
    BY <1>1, <1>2, <2>1, <2>3, <2>5, <2>6, ReadStep
<1>5. QED
  BY <1>3, <1>4

LEMMA DeletedLeafNever ==
  ASSUME NEW lo, NEW hi, TreeIn(lo, hi), NEW t \in Thread, pc[t] \in ReadPc
  PROVE  ~ loc[t].v.deleted
<1>1. loc[t].v \in Version
  BY Reader
<1>2. QED
  BY <1>1, VersionFields

LEMMA AtLeaf ==
  ASSUME NEW lo, NEW hi, TreeIn(lo, hi), NEW t \in Thread, pc[t] \in {"leaf", "walk", "walked"}
  PROVE  /\ Types /\ loc[t] \in ReadLocals /\ RootId(loc[t].start) /\ Leaf(loc[t].n)
         /\ lo[loc[t].n] <= Ik(t)
         /\ loc[t].v \in Version /\ ~ loc[t].v.deleted
         /\ loc[t].n \in NodeId /\ loc[t].n \in Nat /\ node[loc[t].n].ver \in Version
         /\ req[t] # Idle /\ K(t) \in Key /\ Ik(t) \in Nat /\ pc[t] \notin Splitting
<1>1. pc[t] \in ReadPc
  BY DEF ReadPc
<1>2. Types /\ Reading(t, lo, hi)
  BY <1>1, Reader
<1>3. Leaf(loc[t].n) /\ lo[loc[t].n] <= Ik(t)
  BY <1>2 DEF Reading, Fits
<1>4. loc[t].n \in NodeId
  BY <1>3 DEF Leaf
<1>5. node[loc[t].n].ver \in Version
  BY <1>2, <1>4, NodeTypes
<1>6. QED
  BY <1>1, <1>2, <1>3, <1>4, <1>5, Reader, DeletedLeafNever

LEMMA AdvanceKeeps ==
  ASSUME NEW lo, NEW hi, TreeIn(lo, hi), NEW t \in Thread, Advance(t)
  PROVE  TreeIn(lo, hi)'
<1> DEFINE x == loc[t]
           n == x.n
           y == node[n]
           m == [x EXCEPT !.v = y.ver]
           l == IF HasSplit(x.v, y.ver) /\ BeyondLast(n, K(t)) THEN "walk" ELSE "leaf"
<1>1. /\ pc[t] = "leaf" /\ UNCHANGED <<node, root, req, pre>> /\ ~ Dirty(n)
      /\ loc' = [loc EXCEPT ![t] = m] /\ pc' = [pc EXCEPT ![t] = l]
  BY DEF Advance, Goto
<1>2. /\ Types /\ x \in ReadLocals /\ RootId(x.start) /\ Leaf(n) /\ lo[n] <= Ik(t) /\ x.v \in Version
      /\ n \in NodeId /\ y.ver \in Version
      /\ req[t] # Idle /\ K(t) \in Key /\ Ik(t) \in Nat /\ pc[t] \notin Splitting
  BY <1>1, AtLeaf
<1>3. m \in ReadLocals /\ m.start = x.start /\ m.n = n /\ m.v = y.ver
  BY <1>2 DEF ReadLocals
<1>4. Seen(n, y.ver)
  BY <1>1, <1>2, SeenNow
<1>5. Fits(t, n, x.v, lo, hi)
  <2>1. Reading(t, lo, hi)
    BY <1>1, Reader DEF ReadPc
  <2>2. QED
    BY <1>1, <2>1 DEF Reading
<1>6. l = "leaf" => Below(Ik(t), ReadHi(n, hi))
  <2>1. SUFFICES ASSUME l = "leaf" PROVE Below(Ik(t), ReadHi(n, hi))
    OBVIOUS
  <2>2. CASE ~ HasSplit(x.v, y.ver)
    BY <1>1, <1>2, <1>5, <2>2, NoSplitStays DEF Fits
  <2>3. CASE ~ BeyondLast(n, K(t))
    <3>1. PICK z : z = node[n]
      OBVIOUS
    <3>2. InLeaf(z) /\ LeafRange(n, lo, hi) /\ PermOk(z.perm) /\ z.slot \in [Slot -> Key \cup {0}]
      BY <1>2, <3>1, NodeTypes DEF TreeIn, NodeIn
    <3> DEFINE i == IF z.perm.size > 0 THEN z.perm.size - 1 ELSE 0
    <3>3. IsLeaf(n)
      BY <1>2, Kinds
    <3>4. ~ (K(t) > KeyAt(z, i))
      BY <2>3, <3>1, <3>3 DEF BeyondLast, KeyAt
    <3>5. z.perm.size \in 0 .. W /\ W \in Nat \ {0}
      BY <3>2, Positions, WAssumption
    <3>6. i \in 0 .. W - 1
      BY <3>5
    <3>7. At(z.perm, i) \in Slot
      BY <3>2, <3>6, Positions
    <3>8. KeyAt(z, i) \in Key \cup {0}
      BY <3>2, <3>7 DEF KeyAt
    <3>9. K(t) \in Nat \ {0} /\ (KeyAt(z, i) \in Key => KeyAt(z, i) \in Nat)
      BY <1>2, IkeysAre
    <3>10. KeyAt(z, i) \in Key /\ K(t) <= KeyAt(z, i)
      BY <3>4, <3>8, <3>9
    <3>15. PICK k : k = KeyAt(z, i)
      OBVIOUS
    <3>11. Ik(t) <= IkeyOf[k] /\ IkeyOf[k] \in Nat /\ k \in Key
      <4>1. k \in Key /\ K(t) <= k /\ k \in Nat
        BY <3>9, <3>10, <3>15
      <4>3. QED
        BY <1>2, <4>1, IkOrder, IkeysAre DEF Ik
    <3>12. CASE z.perm.size > 0
      <4>1. i \in 0 .. z.perm.size - 1
        BY <3>5, <3>12
      <4>2. Below(IkeyOf[k], ReadHi(n, hi))
        BY <3>1, <3>2, <3>15, <4>1 DEF LeafRange
      <4>3. ReadHi(n, hi) \in Nat \cup {Inf}
        <5>1. \A c \in NodeId : hi[c] \in Nat \cup {Inf}
          BY DEF TreeIn, NodeIn
        <5>2. CASE node[n].lock \notin Thread
          BY <1>2, <5>1, <5>2, FreeView
        <5>3. CASE node[n].lock \in Thread
          <6>1. PICK u \in Thread : u = node[n].lock
            BY <5>3
          <6>2. pc[u] \in Splitting => Owns(u, loc[u].child)
            BY DEF TreeIn, ThreadIn, Writing, Pair, WritePc, Putting
          <6>3. ReadHi(n, hi) = IF pc[u] \in Splitting /\ loc[u].n = n /\ loc[u].leaf = n THEN hi[loc[u].child] ELSE hi[n]
            BY <6>1, OwnView
          <6>4. QED
            BY <1>2, <5>1, <6>2, <6>3 DEF Owns
        <5>4. QED
          BY <5>2, <5>3
      <4>4. QED
        BY <1>2, <3>11, <4>2, <4>3 DEF Below, Inf
    <3>13. CASE ~ (z.perm.size > 0)
      <4>1. z.perm.size = 0 /\ i = 0 /\ ~ z.ver.splitting
        BY <1>1, <3>1, <3>5, <3>13 DEF Dirty
      <4>2. KeyAt(z, 0) = 0 \/ Below(IkeyOf[KeyAt(z, 0)], hi[n])
        BY <3>1, <3>2, <4>1 DEF LeafRange
      <4>3. 0 \notin Key
        BY IkeysAre
      <4>4. Below(IkeyOf[k], hi[n]) /\ hi[n] \in Nat \cup {Inf}
        BY <1>2, <3>10, <3>15, <4>1, <4>2, <4>3 DEF TreeIn, NodeIn
      <4>5. Below(Ik(t), hi[n])
        BY <1>2, <3>11, <4>4 DEF Below, Inf
      <4>6. QED
        BY <1>2, <4>5, ReadAbove
    <3>14. QED
      BY <3>12, <3>13
  <2>4. QED
    BY <2>1, <2>2, <2>3
<1>7. l = "leaf" => Fits(t, n, m.v, lo, hi)
  BY <1>2, <1>3, <1>4, <1>6 DEF Fits
<1>8. l \in ReadPc /\ l \in {"leaf", "walk"}
  BY DEF ReadPc
<1> HIDE DEF m, l
<1>9. QED
  BY <1>1, <1>2, <1>3, <1>4, <1>7, <1>8, ReadStep

LEMMA NextLeaf ==
  ASSUME NEW lo, NEW hi, TreeIn(lo, hi), NEW x, Leaf(x)
  PROVE  /\ node[x].next = Nil => hi[x] = Inf
         /\ node[x].next # Nil => /\ Leaf(node[x].next) /\ node[x].next # 1 /\ hi[x] = lo[node[x].next]
                                  /\ lo[node[x].next] = Bound(node[node[x].next])
<1>1. \A z : Leaf(z) => LeafRange(z, lo, hi)
  BY DEF TreeIn, NodeIn, Leaf
<1>2. LeafRange(x, lo, hi) /\ (Leaf(node[x].next) => LeafRange(node[x].next, lo, hi))
  BY <1>1
<1>3. QED
  BY <1>2 DEF LeafRange, Bound

LEMMA WalkKeeps ==
  ASSUME NEW lo, NEW hi, TreeIn(lo, hi), NEW t \in Thread, Walk(t)
  PROVE  TreeIn(lo, hi)'
<1> DEFINE x == loc[t]
           n == x.n
           next == node[n].next
<1>1. pc[t] = "walk" /\ UNCHANGED <<node, root, req, pre>>
  BY DEF Walk
<1>2. /\ Types /\ x \in ReadLocals /\ RootId(x.start) /\ Leaf(n) /\ lo[n] <= Ik(t) /\ x.v \in Version
      /\ ~ x.v.deleted /\ n \in NodeId
      /\ req[t] # Idle /\ K(t) \in Key /\ Ik(t) \in Nat /\ pc[t] \notin Splitting
  BY <1>1, AtLeaf
<1>3. Seen(n, x.v)
  BY <1>1, Reader DEF ReadPc, Reading
<1>4. /\ next = Nil => hi[n] = Inf
      /\ next # Nil => Leaf(next) /\ hi[n] = lo[next] /\ lo[next] = Bound(node[next])
  BY <1>2, NextLeaf
<1>5. CASE next # Nil /\ Ik(t) >= Bound(node[next])
  <2> DEFINE m == [x EXCEPT !.n = next]
  <2>1. loc' = [loc EXCEPT ![t] = m] /\ pc' = [pc EXCEPT ![t] = "walked"]
    BY <1>2, <1>5 DEF Walk, Goto, Ik
  <2>2. next \in Nat
    BY <1>2, NodeTypes
  <2>3. m \in ReadLocals /\ m.start = x.start /\ m.n = next
    BY <1>2, <2>2 DEF ReadLocals
  <2>4. Leaf(next) /\ lo[next] <= Ik(t)
    <3>1. lo[next] \in Nat /\ lo[next] = Bound(node[next])
      BY <1>4, <1>5 DEF TreeIn, NodeIn, Leaf
    <3>2. QED
      BY <1>2, <1>4, <1>5, <3>1
  <2>5. "walked" \in ReadPc
    BY DEF ReadPc
  <2> HIDE DEF m
  <2>6. QED
    BY <1>1, <1>2, <2>1, <2>3, <2>4, <2>5, ReadStep
<1>6. CASE ~ (next # Nil /\ Ik(t) >= Bound(node[next]))
  <2>1. loc' = [loc EXCEPT ![t] = x] /\ pc' = [pc EXCEPT ![t] = "leaf"]
    <3>1. loc' = loc /\ loc = [u \in Thread |-> loc[u]]
      BY <1>2, <1>6 DEF Walk, Ik, Types
    <3>2. QED
      BY <1>2, <1>6, <3>1 DEF Walk, Goto, Ik
  <2>2. Below(Ik(t), hi[n])
    <3>1. CASE next = Nil
      BY <1>4, <3>1 DEF Below
    <3>2. CASE next # Nil
      <4>1. lo[next] \in Nat
        BY <1>4, <3>2 DEF TreeIn, NodeIn, Leaf
      <4>2. QED
        BY <1>2, <1>4, <1>6, <3>2, <4>1 DEF Below
    <3>3. QED
      BY <3>1, <3>2
  <2>3. Below(Ik(t), ReadHi(n, hi))
    BY <1>2, <2>2, ReadAbove
  <2>4. Fits(t, n, x.v, lo, hi)
    BY <1>2, <1>3, <2>3 DEF Fits
  <2>5. "leaf" \in ReadPc
    BY DEF ReadPc
  <2>6. QED
    BY <1>1, <1>2, <2>1, <2>4, <2>5, ReadStep
<1>7. QED
  BY <1>5, <1>6

LEMMA WalkedKeeps ==
  ASSUME NEW lo, NEW hi, TreeIn(lo, hi), NEW t \in Thread, Walked(t)
  PROVE  TreeIn(lo, hi)'
<1> DEFINE x == loc[t]
           m == [x EXCEPT !.v = node[x.n].ver]
<1>1. /\ pc[t] = "walked" /\ UNCHANGED <<node, root, req, pre>> /\ ~ Dirty(x.n)
      /\ loc' = [loc EXCEPT ![t] = m] /\ pc' = [pc EXCEPT ![t] = "walk"]
  BY DEF Walked, Goto
<1>2. /\ Types /\ x \in ReadLocals /\ RootId(x.start) /\ Leaf(x.n) /\ lo[x.n] <= Ik(t) /\ x.n \in NodeId
      /\ node[x.n].ver \in Version
      /\ req[t] # Idle /\ K(t) \in Key /\ Ik(t) \in Nat /\ pc[t] \notin Splitting
  BY <1>1, AtLeaf
<1>3. m \in ReadLocals /\ m.start = x.start /\ m.n = x.n /\ m.v = node[x.n].ver
  BY <1>2 DEF ReadLocals
<1>4. Seen(x.n, node[x.n].ver)
  BY <1>1, <1>2, SeenNow
<1>5. "walk" \in ReadPc
  BY DEF ReadPc
<1> HIDE DEF m
<1>6. QED
  BY <1>1, <1>2, <1>3, <1>4, <1>5, ReadStep

-----------------------------------------------------------------------------
(* Between two requests *)

\* t is over, or has not begun.
LEMMA RestStep ==
  ASSUME NEW lo, NEW hi, TreeIn(lo, hi), NEW t \in Thread, pc[t] \notin Splitting,
         NEW l \in OtherPc,
         pc' = [pc EXCEPT ![t] = l], loc' = [loc EXCEPT ![t] = NoLocals],
         node' = node, RootId(root)', req' = req, pre' = pre,
         l \in {"idle", "trim"} \/ (req[t] # Idle /\ K(t) \in Key)
  PROVE  TreeIn(lo, hi)'
<1>1. l \in AllPc /\ NoLocals \in AllLocals /\ l \notin ReadPc /\ l \notin WritePc /\ l \notin Splitting
  BY NoLocalsAre DEF AllPc, AllLocals, OtherPc, ReadPc, WritePc, Putting, Splitting, Climbing
<1>2. pc'[t] = l
  BY DEF TreeIn, Types
<1>3. ThreadIn(t, lo, hi)'
  BY <1>1, <1>2 DEF ThreadIn, K
<1>4. QED
  BY <1>1, <1>3, QuietStep

LEMMA RootStays ==
  ASSUME NEW lo, NEW hi, TreeIn(lo, hi), node' = node, root' = root
  PROVE  RootId(root)'
BY DEF TreeIn, RootId, Inner, NodeId

LEMMA GetEndKeeps ==
  ASSUME NEW lo, NEW hi, TreeIn(lo, hi), NEW t \in Thread, GetEnd(t)
  PROVE  TreeIn(lo, hi)'
<1>1. /\ pc[t] = "leaf" /\ UNCHANGED <<node, root, req, pre>>
      /\ loc' = [loc EXCEPT ![t] = NoLocals] /\ pc' = [pc EXCEPT ![t] = "done"]
  BY DEF GetEnd, Answer, Goto
<1>2. req[t] # Idle /\ K(t) \in Key /\ pc[t] \notin Splitting
  BY <1>1, AtLeaf
<1>3. "done" \in OtherPc
  BY DEF OtherPc
<1>4. QED
  BY <1>1, <1>2, <1>3, RestStep, RootStays

LEMMA ReplyKeeps ==
  ASSUME NEW lo, NEW hi, TreeIn(lo, hi), NEW t \in Thread, Reply(t)
  PROVE  TreeIn(lo, hi)'
<1>1. /\ pc[t] \in {"found", "missing"} /\ UNCHANGED <<node, root, req, pre>>
      /\ loc' = [loc EXCEPT ![t] = NoLocals] /\ pc' = [pc EXCEPT ![t] = "done"]
  BY DEF Reply, Answer, Goto
<1>2. req[t] # Idle /\ K(t) \in Key /\ pc[t] \notin Splitting
  BY <1>1 DEF TreeIn, ThreadIn, Splitting, Climbing
<1>3. "done" \in OtherPc
  BY DEF OtherPc
<1>4. QED
  BY <1>1, <1>2, <1>3, RestStep, RootStays

LEMMA RunCallbackKeeps ==
  ASSUME NEW lo, NEW hi, TreeIn(lo, hi), NEW t \in Thread, RunCallback(t)
  PROVE  TreeIn(lo, hi)'
<1>1. /\ pc[t] = "idle" /\ UNCHANGED <<node, root, req, pre>>
      /\ loc' = [loc EXCEPT ![t] = NoLocals] /\ pc' = [pc EXCEPT ![t] = "trim"]
  BY DEF RunCallback, Goto
<1>2. pc[t] \notin Splitting /\ "trim" \in OtherPc
  BY <1>1 DEF OtherPc, Splitting, Climbing
<1>3. QED
  BY <1>1, <1>2, RestStep, RootStays

Requests(s) ==
  \E all : /\ s \in [load : Seq(all), calls : [Thread -> SUBSET all]]
           /\ \A r \in all : r # Idle /\ r.key \in Key

LEMMA RequestsAre == Types <=>
  /\ node \in Seq(Node) /\ 1 \in NodeId /\ pc \in [Thread -> AllPc] /\ loc \in [Thread -> AllLocals]
  /\ req = [t \in Thread |-> req[t]] /\ Requests(pre)
BY DEF Types, Requests, AllPc, AllLocals

LEMMA ReturnKeeps ==
  ASSUME NEW lo, NEW hi, TreeIn(lo, hi), NEW t \in Thread, Return(t)
  PROVE  TreeIn(lo, hi)'
<1>1. /\ pc[t] = "done" /\ UNCHANGED <<node, root, loc, pre>>
      /\ req' = [req EXCEPT ![t] = Idle] /\ pc' = [pc EXCEPT ![t] = "idle"]
  BY DEF Return, Goto
<1>2. Types /\ RootId(root)
  BY DEF TreeIn
<1>3. "idle" \in AllPc /\ pc[t] \notin Splitting /\ "idle" \notin Splitting \cup ReadPc \cup WritePc
  BY <1>1 DEF AllPc, OtherPc, ReadPc, WritePc, Putting, Splitting, Climbing
<1>4. pc \in [Thread -> AllPc] /\ req = [u \in Thread |-> req[u]]
  BY <1>2 DEF Types, AllPc
<1>5. pc' \in [Thread -> AllPc] /\ pc'[t] = "idle" /\ req' = [u \in Thread |-> req'[u]]
  BY <1>1, <1>3, <1>4
<1>6. Types'
  <2>1. NodeId' = NodeId
    BY <1>1 DEF NodeId
  <2>2. QED
    BY <1>1, <1>2, <1>5, <2>1 DEF Types, AllPc
<1>7. \A u \in Thread \ {t} : pc'[u] = pc[u] /\ loc'[u] = loc[u] /\ req'[u] = req[u]
  BY <1>1, <1>4
<1>8. Frame(t, {}, lo, hi, lo, hi) /\ Parents'
  BY <1>1, <1>3, <1>5, <1>7, Quiet
<1>9. ThreadIn(t, lo, hi)'
  BY <1>3, <1>5 DEF ThreadIn
<1>10. RootId(root)' /\ NodeId' = NodeId
  BY <1>1, RootStays DEF NodeId
<1>11. QED
  BY <1>6, <1>8, <1>9, <1>10, Wrap

LEMMA FixRootIs ==
  ASSUME NEW lo, NEW hi, TreeIn(lo, hi)
  PROVE  RootId(root) /\ RootId(FixRoot) /\ root \in NodeId /\ FixRoot \in NodeId /\ RootId(MaybeParent(root))
<1>1. RootId(root) /\ root \in NodeId
  BY RootIsNode DEF TreeIn
<1>2. RootId(MaybeParent(root))
  BY <1>1, ParentOf
<1>3. RootId(FixRoot)
  BY <1>1, <1>2 DEF FixRoot
<1>4. QED
  BY <1>1, <1>2, <1>3, RootIsNode

LEMMA StartKeeps ==
  ASSUME NEW lo, NEW hi, TreeIn(lo, hi), NEW t \in Thread, NEW r, Start(t, r),
         r # Idle, r.key \in Key, Requests(pre')
  PROVE  TreeIn(lo, hi)'
<1> DEFINE m == [NoLocals EXCEPT !.start = root', !.n = root']
<1>1. /\ pc[t] = "idle" /\ node' = node /\ root' \in {root, FixRoot} /\ req' = [req EXCEPT ![t] = r]
      /\ loc' = [loc EXCEPT ![t] = m] /\ pc' = [pc EXCEPT ![t] = "root"]
  BY DEF Start, Goto
<1>2. Types
  BY DEF TreeIn
<1>3. RootId(root') /\ root' \in NodeId
  BY <1>1, FixRootIs
<1>4. root' \in Nat
  BY <1>2, <1>3, NodeTypes
<1>5. m \in ReadLocals /\ m.start = root' /\ m.n = root'
  BY <1>4, NoLocalsAre DEF ReadLocals
<1>6. "root" \in AllPc /\ pc[t] \notin Splitting /\ "root" \notin Splitting \cup WritePc /\ m \in AllLocals
  BY <1>1, <1>5 DEF AllPc, AllLocals, OtherPc, ReadPc, WritePc, Putting, Splitting, Climbing
<1> HIDE DEF m
<1>7. pc \in [Thread -> AllPc] /\ loc \in [Thread -> AllLocals] /\ req = [u \in Thread |-> req[u]]
  BY <1>2, RequestsAre
<1>8. /\ pc' \in [Thread -> AllPc] /\ pc'[t] = "root" /\ loc' \in [Thread -> AllLocals] /\ loc'[t] = m
      /\ req' = [u \in Thread |-> req'[u]] /\ req'[t] = r
      /\ \A u \in Thread \ {t} : pc'[u] = pc[u] /\ loc'[u] = loc[u] /\ req'[u] = req[u]
  BY <1>1, <1>6, <1>7
<1>9. Types'
  <2>1. NodeId' = NodeId /\ node' \in Seq(Node) /\ 1 \in NodeId'
    BY <1>1, <1>2 DEF NodeId, Types
  <2>2. \E all : /\ pre' \in [load : Seq(all), calls : [Thread -> SUBSET all]]
                 /\ \A q \in all : q # Idle /\ q.key \in Key
    BY DEF Requests
  <2>3. QED
    BY <1>8, <2>1, <2>2 DEF Types, AllPc, AllLocals
<1>10. Frame(t, {}, lo, hi, lo, hi) /\ Parents'
  BY <1>1, <1>6, <1>8, Quiet
<1>11. RootId(root)'
  BY <1>1, <1>3 DEF RootId, Inner, NodeId
<1>12. Reading(t, lo, hi)'
  BY <1>5, <1>8, <1>11 DEF Reading
<1>13. ThreadIn(t, lo, hi)'
  BY <1>6, <1>8, <1>12 DEF ThreadIn, K
<1>14. NodeId' = NodeId
  BY <1>1 DEF NodeId
<1>15. QED
  BY <1>9, <1>10, <1>11, <1>13, <1>14, Wrap

LEMMA LoadKeeps ==
  ASSUME NEW lo, NEW hi, TreeIn(lo, hi), Load
  PROVE  TreeIn(lo, hi)'
<1>1. pre.load # <<>> /\ Start(Loader, Head(pre.load)) /\ pre' = [pre EXCEPT !.load = Tail(pre.load)]
  BY DEF Load
<1>2. PICK all : /\ pre \in [load : Seq(all), calls : [Thread -> SUBSET all]]
                 /\ \A r \in all : r # Idle /\ r.key \in Key
  BY DEF TreeIn, Types
<1>3. PICK s : s = pre.load
  OBVIOUS
<1>4. s \in Seq(all) /\ s # <<>>
  BY <1>1, <1>2, <1>3
<1>5. Head(s) \in all /\ Tail(s) \in Seq(all)
  BY <1>4
<1>6. pre' = [pre EXCEPT !.load = Tail(s)]
  BY <1>1, <1>3
<1>7. pre' \in [load : Seq(all), calls : [Thread -> SUBSET all]]
  BY <1>2, <1>5, <1>6
<1>8. Requests(pre')
  BY <1>2, <1>7 DEF Requests
<1>9. Start(Loader, Head(s)) /\ Head(s) # Idle /\ Head(s).key \in Key
  BY <1>1, <1>2, <1>3, <1>5
<1>10. QED
  BY <1>8, <1>9, StartKeeps, ThreadAssumption

LEMMA CallKeeps ==
  ASSUME NEW lo, NEW hi, TreeIn(lo, hi), NEW t \in Thread, Call(t)
  PROVE  TreeIn(lo, hi)'
<1>1. PICK r \in pre.calls[t] : Start(t, r)
  BY DEF Call
<1>2. PICK all : /\ pre \in [load : Seq(all), calls : [Thread -> SUBSET all]]
                 /\ \A q \in all : q # Idle /\ q.key \in Key
  BY DEF TreeIn, Types
<1>3. r \in all
  BY <1>2
<1>4. Requests(pre')
  BY <1>2 DEF Requests, Call
<1>5. QED
  BY <1>1, <1>2, <1>3, <1>4, StartKeeps

LEMMA TrimRootKeeps ==
  ASSUME NEW lo, NEW hi, TreeIn(lo, hi), NEW t \in Thread, TrimRoot(t)
  PROVE  TreeIn(lo, hi)'
<1>1. pc[t] = "trim" /\ UNCHANGED <<loc, req, pre>>
  BY DEF TrimRoot
<1>2. Types /\ RootId(root) /\ root \in NodeId /\ RootId(MaybeParent(root))
  BY FixRootIs DEF TreeIn
<1>3. node' = node /\ RootId(root') /\ pc'[t] \in {"trim", "idle"} /\ pc' = [pc EXCEPT ![t] = pc'[t]]
  <2>1. pc \in [Thread -> AllPc]
    BY <1>2 DEF Types, AllPc
  <2>2. CASE ~ node[root].ver.root /\ root' = MaybeParent(root) /\ UNCHANGED <<pc, node>>
    BY <1>1, <1>2, <2>1, <2>2
  <2>3. CASE Goto(t, "idle") /\ UNCHANGED <<root, node>>
    BY <1>2, <2>1, <2>3 DEF Goto
  <2>4. CASE node[root].ver.root /\ ~ IsLeaf(root) /\ node[root].ikeys = <<>>
    <3>1. Inner(root)
      BY <1>2, <2>4, Kinds
    <3>2. InInner(node[root])
      BY <1>2, <3>1 DEF TreeIn, NodeIn
    <3>3. QED
      BY <2>4, <3>2 DEF InInner
  <2>5. QED
    BY <2>2, <2>3, <2>4 DEF TrimRoot
<1>4. RootId(root)'
  BY <1>3 DEF RootId, Inner, NodeId
<1>5. PICK l \in {"trim", "idle"} : l = pc'[t]
  BY <1>3
<1>6. l \in AllPc /\ l \notin Splitting \cup ReadPc \cup WritePc /\ pc[t] \notin Splitting
  BY <1>1, <1>5 DEF AllPc, OtherPc, ReadPc, WritePc, Putting, Splitting, Climbing
<1>7. loc[t] \in AllLocals /\ loc' = [loc EXCEPT ![t] = loc[t]]
  BY <1>1, <1>2, RequestsAre
<1>8. ThreadIn(t, lo, hi)'
  BY <1>5, <1>6 DEF ThreadIn
<1>9. QED
  BY <1>1, <1>3, <1>4, <1>5, <1>6, <1>7, <1>8, QuietStep

-----------------------------------------------------------------------------
(* Finding the parent *)

LEMMA Climber ==
  ASSUME NEW lo, NEW hi, TreeIn(lo, hi), NEW t \in Thread, pc[t] \in WritePc
  PROVE  /\ Types /\ Writing(t, lo, hi) /\ loc[t] \in WritingLocals /\ loc[t].mode = "insert"
         /\ Leaf(loc[t].leaf) /\ Owns(t, loc[t].leaf) /\ loc[t].leaf \in NodeId
         /\ req[t] # Idle /\ K(t) \in Key /\ Ik(t) \in Nat
         /\ pc[t] \in Splitting => Owns(t, loc[t].n) /\ Owns(t, loc[t].child) /\ loc[t].n \in NodeId /\ loc[t].child \in NodeId
         /\ pc[t] \in Splitting => loc[t].n # Nil /\ loc[t].child # Nil
<1>1. Types /\ Writing(t, lo, hi) /\ req[t] # Idle /\ K(t) \in Key
  BY DEF TreeIn, ThreadIn, WritePc, Putting, Splitting, Climbing
<1>2. loc[t] \in WritingLocals /\ Leaf(loc[t].leaf) /\ Owns(t, loc[t].leaf)
  BY <1>1 DEF Writing
<1>3. loc[t].mode = "insert"
  BY <1>2 DEF WritingLocals
<1>4. pc[t] \in Splitting => Owns(t, loc[t].n) /\ Owns(t, loc[t].child)
  BY <1>1 DEF Writing, Pair
<1>5. \A x \in NodeId : x # Nil
  BY <1>1, NodeTypes DEF Nil
<1>6. QED
  BY <1>1, <1>2, <1>3, <1>4, <1>5, IkeysAre DEF Owns, Ik

\* From one attempt at the parent's lock to the next.
LEMMA ClimbStep ==
  ASSUME NEW lo, NEW hi, TreeIn(lo, hi), NEW t \in Thread, pc[t] \in Climbing, NEW l \in Climbing,
         NEW p \in Nat,
         pc' = [pc EXCEPT ![t] = l], loc' = [loc EXCEPT ![t].p = p],
         node' = node, root' = root, req' = req, pre' = pre,
         l = "lock" => Inner(p),
         l = "insert" => p = Nil /\ node[loc[t].n].parent = Nil
  PROVE  TreeIn(lo, hi)'
<1>1. PICK x : x = loc[t]
  OBVIOUS
<1> DEFINE m == [x EXCEPT !.p = p]
<1>2. pc[t] \in Splitting /\ pc[t] \in WritePc /\ l \in Splitting /\ l \in WritePc /\ l \in AllPc /\ l \notin ReadPc
  BY DEF AllPc, ReadPc, WritePc, Putting, Splitting, Climbing
<1>3. Types /\ Writing(t, lo, hi) /\ x \in WritingLocals /\ req[t] # Idle /\ K(t) \in Key /\ Owns(t, x.leaf)
  BY <1>1, <1>2, Climber
<1>4. /\ m \in WritingLocals /\ m.n = x.n /\ m.leaf = x.leaf /\ m.child = x.child /\ m.p = p /\ m.ikey = x.ikey
      /\ m.height = x.height /\ m.split = x.split
  BY <1>3 DEF WritingLocals
<1>5. loc' = [loc EXCEPT ![t] = m] /\ m \in AllLocals
  BY <1>1, <1>4 DEF AllLocals
<1> HIDE DEF m
<1>6. node' \in Seq(Node) /\ NodeId \subseteq NodeId'
  BY <1>3 DEF Types, NodeId
<1>7. /\ Types' /\ pc'[t] = l /\ loc'[t] = m
      /\ \A u \in Thread \ {t} : pc'[u] = pc[u] /\ loc'[u] = loc[u] /\ req'[u] = req[u]
  BY <1>2, <1>3, <1>5, <1>6, Moves
<1>8. /\ \A z : (Leaf(z)' <=> Leaf(z)) /\ (Inner(z)' <=> Inner(z)) /\ (Owns(t, z)' <=> Owns(t, z))
      /\ Ik(t)' = Ik(t) /\ K(t)' = K(t)
  BY DEF Leaf, Inner, Owns, NodeId, Ik, K
<1>9. /\ Leaf(x.leaf) /\ Pair(t, x.n, x.child, x.ikey, x.height, lo, hi)
      /\ x.n = x.leaf => Half(t, x.n, x.child, x.ikey, x.split, lo, hi)
      /\ x.n # x.leaf => Inner(x.n) /\ Ready(t, x.leaf, lo, hi)
      /\ node[x.child].parent = Nil
  BY <1>1, <1>2, <1>3 DEF Writing
<1>10. \A z : Ready(t, z, lo, hi)' <=> Ready(t, z, lo, hi)
  BY <1>8 DEF Ready, InRange
<1>11. Pair(t, m.n, m.child, m.ikey, m.height, lo, hi)'
  BY <1>4, <1>8, <1>9 DEF Pair
<1>12. m.n = m.leaf => Half(t, m.n, m.child, m.ikey, m.split, lo, hi)'
  <2>1. ASSUME Half(t, x.n, x.child, x.ikey, x.split, lo, hi)
        PROVE  Half(t, x.n, x.child, x.ikey, x.split, lo, hi)'
    BY <1>8, <1>10, <2>1 DEF Half, InRange
  <2>2. QED
    BY <1>4, <1>9, <2>1
<1>13. /\ m.n # m.leaf => Inner(m.n)' /\ Ready(t, m.leaf, lo, hi)'
       /\ Leaf(m.leaf)' /\ Owns(t, m.leaf)' /\ node'[m.child].parent = Nil
       /\ l = "lock" => Inner(m.p)'
       /\ l = "insert" => m.p = Nil /\ node'[m.n].parent = m.p
  BY <1>1, <1>3, <1>4, <1>8, <1>9, <1>10
<1>14. Writing(t, lo, hi)'
  BY <1>4, <1>7, <1>11, <1>12, <1>13 DEF Writing, Climbing
<1>15. ThreadIn(t, lo, hi)'
  BY <1>2, <1>3, <1>7, <1>8, <1>14 DEF ThreadIn
<1>16. RootId(root)'
  BY RootStays
<1>17. QED
  BY <1>1, <1>2, <1>4, <1>5, <1>15, <1>16, QuietStep

LEMMA ReadParentKeeps ==
  ASSUME NEW lo, NEW hi, TreeIn(lo, hi), NEW t \in Thread, ReadParent(t)
  PROVE  TreeIn(lo, hi)'
<1> DEFINE n == loc[t].n
           p == node[n].parent
           l == IF p = Nil THEN "insert" ELSE "lock"
<1>1. pc[t] = "parent"
  BY DEF ReadParent
<1>2. Types /\ loc[t].mode = "insert" /\ n \in NodeId
  BY <1>1, Climber DEF WritePc, Putting, Splitting, Climbing
<1>3. /\ loc' = [loc EXCEPT ![t].p = p] /\ pc' = [pc EXCEPT ![t] = l] /\ UNCHANGED <<node, root, req, pre>>
  BY <1>2 DEF ReadParent, Who, Goto
<1>4. p \in Nat /\ (p # Nil => Inner(p))
  BY <1>2, NodeTypes, ParentOf
<1>5. l \in Climbing /\ pc[t] \in Climbing /\ (l = "lock" <=> p # Nil) /\ (l = "insert" <=> p = Nil)
  BY <1>1 DEF Climbing
<1> HIDE DEF l
<1>6. QED
  BY <1>3, <1>4, <1>5, ClimbStep

LEMMA LockParentRetries ==
  ASSUME NEW lo, NEW hi, TreeIn(lo, hi), NEW t \in Thread, LockParent(t), node[loc[t].n].parent # loc[t].p
  PROVE  TreeIn(lo, hi)'
<1>1. pc[t] = "lock"
  BY DEF LockParent
<1>2. Types /\ loc[t].mode = "insert" /\ loc[t] \in WritingLocals
  BY <1>1, Climber DEF WritePc, Putting, Splitting, Climbing
<1>3. pc' = [pc EXCEPT ![t] = "parent"] /\ UNCHANGED <<node, root, loc, req, pre>>
  BY <1>2 DEF LockParent, Who, Goto
<1>4. loc[t].p \in Nat /\ loc' = [loc EXCEPT ![t].p = loc[t].p]
  <2>1. loc = [u \in Thread |-> loc[u]] /\ loc[t] = [loc[t] EXCEPT !.p = loc[t].p] /\ loc[t].p \in Nat
    BY <1>2 DEF Types, WritingLocals
  <2>2. QED
    BY <1>3, <2>1
<1>5. "parent" \in Climbing /\ pc[t] \in Climbing
  BY <1>1 DEF Climbing
<1>6. QED
  BY <1>3, <1>4, <1>5, ClimbStep

-----------------------------------------------------------------------------
(* Slots of a leaf *)

LeafNode(y) == PermOk(y.perm) /\ y.slot \in [Slot -> Key \cup {0}] /\ InLeaf(y)

LEMMA KeysAre ==
  ASSUME NEW y
  PROVE  Keys(y) = {KeyAt(y, i) : i \in 0 .. y.perm.size - 1}
BY DEF Keys, KeyAt, InUse

\* lower bound: the keys before position p are less, the others are not.
LEMMA PositionIs ==
  ASSUME NEW y, LeafNode(y), NEW k \in Key
  PROVE  /\ Position(y, k) \in 0 .. y.perm.size
         /\ \A i \in 0 .. Position(y, k) - 1 : KeyAt(y, i) < k
         /\ \A i \in Position(y, k) .. y.perm.size - 1 : KeyAt(y, i) >= k
<1> DEFINE n == y.perm.size
           S == {i \in 1 .. n : KeyAt(y, i - 1) < k}
           T == {j \in Keys(y) : j < k}
           c == Cardinality(S)
<1>1. n \in 0 .. W /\ n \in Nat
  BY Positions, WAssumption DEF LeafNode
<1>2. \A i \in 0 .. n - 1 : KeyAt(y, i) \in Key
  BY DEF LeafNode, InLeaf
<1>3. \A i, j \in 0 .. n - 1 : i < j => KeyAt(y, i) < KeyAt(y, j)
  BY DEF LeafNode, InLeaf
<1>4. k \in Nat /\ \A i \in 0 .. n - 1 : KeyAt(y, i) \in Nat
  BY <1>2, IkeysAre
<1> HIDE DEF n
<1>5. \A i \in S : \A j \in 1 .. i : j \in S
  <2>1. SUFFICES ASSUME NEW i \in S, NEW j \in 1 .. i PROVE j \in S
    OBVIOUS
  <2>2. i - 1 \in 0 .. n - 1 /\ j - 1 \in 0 .. n - 1 /\ KeyAt(y, i - 1) < k /\ j \in 1 .. n
    BY <1>1
  <2>3. KeyAt(y, j - 1) < KeyAt(y, i - 1) \/ j = i
    BY <1>3, <2>2
  <2>4. KeyAt(y, j - 1) < k
    BY <1>4, <2>2, <2>3
  <2>5. QED
    BY <2>2, <2>4
<1>6. S \in SUBSET (1 .. n)
  OBVIOUS
<1>7. c \in 0 .. n /\ S = 1 .. c
  <2> HIDE DEF S
  <2> QED
    BY <1>1, <1>5, <1>6, Initial
<1>8. \A i \in 1 .. n : i <= c <=> KeyAt(y, i - 1) < k
  <2>1. \A i \in 1 .. n : i \in S <=> KeyAt(y, i - 1) < k
    OBVIOUS
  <2> HIDE DEF S
  <2>2. QED
    BY <1>1, <1>7, <2>1
<1>9. Cardinality(T) = c
  <2> DEFINE f == [i \in 1 .. c |-> KeyAt(y, i - 1)]
  <2>0. Keys(y) = {KeyAt(y, i) : i \in 0 .. n - 1}
    BY KeysAre DEF n
  <2> HIDE DEF S, c
  <2>1. \A i \in 1 .. c : i \in 1 .. n /\ i - 1 \in 0 .. n - 1 /\ f[i] = KeyAt(y, i - 1) /\ f[i] < k
    BY <1>1, <1>7, <1>8
  <2>2. \A i \in 1 .. c : f[i] \in T
    BY <2>0, <2>1
  <2>3. \A i, j \in 1 .. c : f[i] = f[j] => i = j
    <3>1. SUFFICES ASSUME NEW i \in 1 .. c, NEW j \in 1 .. c, f[i] = f[j], i < j PROVE FALSE
      BY <1>1, <1>7
    <3>2. KeyAt(y, i - 1) < KeyAt(y, j - 1)
      BY <1>3, <2>1, <3>1
    <3>3. QED
      BY <1>4, <2>1, <3>1, <3>2
  <2>4. \A m \in T : \E i \in 1 .. c : f[i] = m
    <3>1. SUFFICES ASSUME NEW m \in T PROVE \E i \in 1 .. c : f[i] = m
      OBVIOUS
    <3>2. PICK i \in 0 .. n - 1 : m = KeyAt(y, i)
      BY <2>0
    <3>3. i + 1 \in 1 .. n /\ (i + 1) - 1 = i
      BY <1>1
    <3>4. i + 1 \in 1 .. c
      BY <1>1, <1>7, <1>8, <3>1, <3>2, <3>3
    <3>5. f[i + 1] = m
      BY <3>2, <3>3, <3>4
    <3>6. QED
      BY <3>4, <3>5
  <2>5. f \in Bijection(1 .. c, T)
    <3>1. f \in [1 .. c -> T]
      BY <2>2
    <3>2. IsInjective(f)
      BY <2>3 DEF IsInjective
    <3> HIDE DEF f, T
    <3>3. QED
      BY <2>4, <3>1, <3>2 DEF Bijection, Injection, Surjection
  <2> HIDE DEF T, f
  <2>6. ExistsBijection(1 .. c, T)
    BY <2>5 DEF ExistsBijection
  <2>7. IsFiniteSet(1 .. c) /\ Cardinality(1 .. c) = c
    BY <1>1, <1>7, FS_Interval
  <2>8. QED
    BY <2>6, <2>7, FS_Bijection
<1>10. Position(y, k) = c
  BY <1>9 DEF Position
<1> HIDE DEF c
<1>11. \A i \in 0 .. n - 1 : i < c <=> KeyAt(y, i) < k
  <2>1. SUFFICES ASSUME NEW i \in 0 .. n - 1 PROVE i < c <=> KeyAt(y, i) < k
    OBVIOUS
  <2>2. i + 1 \in 1 .. n /\ (i + 1) - 1 = i
    BY <1>1
  <2>3. i + 1 <= c <=> KeyAt(y, i) < k
    BY <1>8, <2>2
  <2>4. QED
    BY <1>1, <1>7, <2>3
<1>12. \A i \in 0 .. c - 1 : KeyAt(y, i) < k
  BY <1>1, <1>7, <1>11
<1>13. \A i \in c .. n - 1 : KeyAt(y, i) >= k
  BY <1>1, <1>4, <1>7, <1>11
<1>14. QED
  BY <1>7, <1>10, <1>12, <1>13 DEF n

\* z is y with other slots, and perhaps marked.
Refilled(y, z) ==
  /\ z.kind = y.kind /\ z.height = y.height /\ z.ikeys = y.ikeys /\ z.child = y.child
  /\ z.parent = y.parent /\ z.prev = y.prev /\ z.next = y.next
  /\ z.ver = [y.ver EXCEPT !.inserting = z.ver.inserting]
  /\ y.ver.inserting => z.ver.inserting

LEMMA SameRefill ==
  ASSUME NEW y \in Node
  PROVE  Refilled(y, y)
<1>1. PICK v : v = y.ver
  OBVIOUS
<1>2. v \in Version
  BY <1>1, NodeFields
<1>3. v = [v EXCEPT !.inserting = v.inserting]
  BY <1>2 DEF Version
<1>4. QED
  BY <1>1, <1>3 DEF Refilled

\* leaf::assign and finish_insert put the key where it belongs.
LEMMA InsertedIs ==
  ASSUME NEW y \in Node, LeafNode(y), y.perm.size < W, NEW k \in Key, k \notin Keys(y)
  PROVE  LET z == Inserted(y, k) IN
         /\ z \in Node /\ LeafNode(z) /\ z.perm.size > 0 /\ Refilled(y, z)
         /\ Keys(z) = Keys(y) \cup {k}
         /\ Back(y.perm) # 0 => z.slot[0] = y.slot[0]
         /\ Back(y.perm) = 0 => z.slot[0] = k
<1> DEFINE q == y.perm
           p == Position(y, k)
           r == InsertFromBack(q, p)
           s == [y.slot EXCEPT ![Back(q)] = k]
           z == [y EXCEPT !.slot = s, !.perm = r]
<1>1. Inserted(y, k) = z
  BY DEF Inserted, Node
<1>2. PermOk(q) /\ y.slot \in [Slot -> Key \cup {0}] /\ InLeaf(y)
  BY DEF LeafNode
<1>3. /\ p \in 0 .. q.size
      /\ \A i \in 0 .. p - 1 : KeyAt(y, i) < k
      /\ \A i \in p .. q.size - 1 : KeyAt(y, i) >= k
  BY PositionIs
<1>4. Back(q) \in Slot /\ Back(q) \notin InUse(q)
  BY <1>2, BackIsFree
<1>5. /\ PermOk(r) /\ r.size = q.size + 1
      /\ InUse(r) = InUse(q) \cup {Back(q)}
      /\ \A j \in 0 .. p - 1 : At(r, j) = At(q, j)
      /\ At(r, p) = Back(q)
      /\ \A j \in p + 1 .. q.size : At(r, j) = At(q, j - 1)
  <2> HIDE DEF q, p
  <2> QED
    BY <1>2, <1>3, PutIn DEF q
<1>6. q.size \in 0 .. W /\ W \in Nat \ {0}
  BY <1>2, Positions, WAssumption
<1>7. s \in [Slot -> Key \cup {0}] /\ s[Back(q)] = k /\ \A a \in Slot : a # Back(q) => s[a] = y.slot[a]
  BY <1>2, <1>4
<1>8. z.perm = r /\ z.slot = s /\ z.height = y.height
  BY DEF Node
<1>9. z \in Node
  <2> HIDE DEF r, s
  <2> QED
    BY <1>5, <1>7 DEF Node, PermOk
<1>10. \A i \in 0 .. q.size - 1 : At(q, i) \in Slot /\ At(q, i) # Back(q) /\ s[At(q, i)] = KeyAt(y, i)
  <2>1. SUFFICES ASSUME NEW i \in 0 .. q.size - 1
                 PROVE  At(q, i) \in Slot /\ At(q, i) # Back(q) /\ s[At(q, i)] = KeyAt(y, i)
    OBVIOUS
  <2>2. At(q, i) \in InUse(q)
    BY DEF InUse
  <2>3. At(q, i) \in Slot
    BY <1>2, <2>2, Positions
  <2>4. QED
    BY <1>4, <1>7, <2>2, <2>3 DEF KeyAt
<1> DEFINE At2(j) == s[At(r, j)]
<1>11. /\ \A j \in 0 .. p - 1 : At2(j) = KeyAt(y, j)
       /\ At2(p) = k
       /\ \A j \in p + 1 .. q.size : At2(j) = KeyAt(y, j - 1)
  <2> HIDE DEF r, s, p, q
  <2>1. \A j \in 0 .. p - 1 : At2(j) = KeyAt(y, j)
    BY <1>3, <1>5, <1>6, <1>10
  <2>2. At2(p) = k
    BY <1>5, <1>7
  <2>3. \A j \in p + 1 .. q.size : At2(j) = KeyAt(y, j - 1)
    <3>1. SUFFICES ASSUME NEW j \in p + 1 .. q.size PROVE At2(j) = KeyAt(y, j - 1)
      OBVIOUS
    <3>2. j - 1 \in 0 .. q.size - 1 /\ At(r, j) = At(q, j - 1)
      BY <1>3, <1>5, <1>6
    <3>3. QED
      BY <1>10, <3>2
  <2>4. QED
    BY <2>1, <2>2, <2>3
<1>12. \A j : KeyAt(z, j) = At2(j)
  BY <1>8 DEF KeyAt
<1>13. \A i \in 0 .. q.size - 1 : KeyAt(y, i) \in Key /\ KeyAt(y, i) \in Nat /\ KeyAt(y, i) # k
  <2>1. \A i \in 0 .. q.size - 1 : KeyAt(y, i) \in Key /\ KeyAt(y, i) # k
    BY <1>2, KeysAre DEF InLeaf
  <2>2. QED
    BY <2>1, IkeysAre
<1>14. \A i, j \in 0 .. q.size - 1 : i < j => KeyAt(y, i) < KeyAt(y, j)
  BY <1>2 DEF InLeaf
<1>15. k \in Nat /\ y.height = 0
  BY <1>2, IkeysAre DEF InLeaf
<1> HIDE DEF q, p, r, s, z, At2
<1>16. \A i \in 0 .. q.size : At2(i) \in Key
  <2>1. SUFFICES ASSUME NEW i \in 0 .. q.size PROVE At2(i) \in Key
    OBVIOUS
  <2>2. i \in 0 .. p - 1 \/ i = p \/ (i \in p + 1 .. q.size /\ i - 1 \in 0 .. q.size - 1)
    BY <1>3, <1>6
  <2>3. CASE i \in 0 .. p - 1
    BY <1>3, <1>6, <1>11, <1>13, <2>3
  <2>4. CASE i = p
    BY <1>11, <2>4
  <2>5. CASE i \in p + 1 .. q.size /\ i - 1 \in 0 .. q.size - 1
    BY <1>11, <1>13, <2>5
  <2>6. QED
    BY <2>2, <2>3, <2>4, <2>5
<1>17. \A i, j \in 0 .. q.size : i < j => At2(i) < At2(j)
  <2>1. SUFFICES ASSUME NEW i \in 0 .. q.size, NEW j \in 0 .. q.size, i < j PROVE At2(i) < At2(j)
    OBVIOUS
  <2>2. CASE j < p
    <3>1. i \in 0 .. p - 1 /\ j \in 0 .. p - 1 /\ i \in 0 .. q.size - 1 /\ j \in 0 .. q.size - 1
      BY <1>3, <1>6, <2>1, <2>2
    <3>2. QED
      BY <1>11, <1>14, <2>1, <3>1
  <2>3. CASE j = p
    <3>1. i \in 0 .. p - 1
      BY <1>3, <1>6, <2>1, <2>3
    <3>2. QED
      BY <1>3, <1>11, <2>3, <3>1
  <2>4. CASE j > p
    <3>1. j \in p + 1 .. q.size /\ j - 1 \in 0 .. q.size - 1 /\ j - 1 \in p .. q.size - 1
      BY <1>3, <1>6, <2>4
    <3>2. At2(j) = KeyAt(y, j - 1) /\ KeyAt(y, j - 1) > k
      <4>1. KeyAt(y, j - 1) >= k /\ KeyAt(y, j - 1) # k /\ KeyAt(y, j - 1) \in Nat
        BY <1>3, <1>13, <3>1
      <4>2. QED
        BY <1>11, <1>15, <3>1, <4>1
    <3>3. CASE i < p
      <4>1. i \in 0 .. p - 1 /\ i \in 0 .. q.size - 1
        BY <1>3, <1>6, <3>3
      <4>2. At2(i) = KeyAt(y, i) /\ KeyAt(y, i) < k /\ KeyAt(y, i) \in Nat
        BY <1>3, <1>11, <1>13, <4>1
      <4>3. QED
        BY <1>13, <1>15, <3>1, <3>2, <4>2
    <3>4. CASE i = p
      BY <1>11, <1>15, <3>2, <3>4
    <3>5. CASE i > p
      <4>1. i \in p + 1 .. q.size /\ i - 1 \in 0 .. q.size - 1 /\ i - 1 < j - 1
        BY <1>3, <1>6, <2>1, <3>5
      <4>2. QED
        BY <1>11, <1>14, <3>1, <3>2, <4>1
    <3>6. QED
      BY <1>3, <1>6, <3>3, <3>4, <3>5
  <2>5. QED
    BY <1>3, <1>6, <2>2, <2>3, <2>4
<1>18. z.perm.size = q.size + 1 /\ z.perm.size > 0
  BY <1>5, <1>6, <1>8
<1>19. InLeaf(z)
  <2>1. 0 .. z.perm.size - 1 = 0 .. q.size
    BY <1>6, <1>18
  <2>2. \A i \in 0 .. z.perm.size - 1 : KeyAt(z, i) \in Key
    BY <1>12, <1>16, <2>1
  <2>3. \A i, j \in 0 .. z.perm.size - 1 : i < j => KeyAt(z, i) < KeyAt(z, j)
    <3>1. SUFFICES ASSUME NEW i \in 0 .. q.size, NEW j \in 0 .. q.size, i < j PROVE KeyAt(z, i) < KeyAt(z, j)
      BY <2>1
    <3>2. QED
      BY <1>12, <1>17, <3>1
  <2>4. QED
    BY <1>8, <1>15, <2>2, <2>3 DEF InLeaf
<1>20. LeafNode(z)
  BY <1>5, <1>7, <1>8, <1>19 DEF LeafNode
<1>21. Keys(z) = Keys(y) \cup {k}
  <2>1. Keys(y) = {y.slot[a] : a \in InUse(q)} /\ Keys(z) = {s[a] : a \in InUse(r)}
    BY <1>8 DEF Keys, q
  <2>2. \A a \in InUse(q) : s[a] = y.slot[a]
    <3>1. InUse(q) \subseteq Slot
      BY <1>2, Positions DEF q
    <3>2. QED
      BY <1>4, <1>7, <3>1
  <2>3. QED
    BY <1>5, <1>7, <2>1, <2>2
<1>22. 0 \in Slot
  BY WAssumption DEF Slot
<1>23. z.slot[0] = IF Back(q) = 0 THEN k ELSE y.slot[0]
  BY <1>7, <1>8, <1>22
<1>24. Refilled(y, z)
  <2>1. /\ z.kind = y.kind /\ z.ikeys = y.ikeys /\ z.child = y.child /\ z.parent = y.parent
        /\ z.prev = y.prev /\ z.next = y.next /\ z.ver = y.ver
    BY DEF Node, z
  <2>2. QED
    BY <1>8, <2>1, SameRefill DEF Refilled
<1>25. QED
  BY <1>1, <1>9, <1>18, <1>20, <1>21, <1>23, <1>24 DEF q

\* finish_remove takes the key out and leaves the others.
LEMMA RemovedIs ==
  ASSUME NEW y \in Node, LeafNode(y), NEW k \in Keys(y)
  PROVE  LET z == Removed(y, k) IN
         /\ z \in Node /\ LeafNode(z) /\ Refilled(y, z) /\ z.slot = y.slot
         /\ Keys(z) = Keys(y) \ {k}
         /\ z.perm.size = 0 => KeyAt(z, 0) = k
         /\ z.perm.size = y.perm.size - 1 /\ y.perm.size > 0
<1> DEFINE q == y.perm
           p == Position(y, k)
           r == Remove(q, p)
           ins == y.ver.inserting \/ y.modstate = "insert"
           v == [y.ver EXCEPT !.inserting = ins]
           z == [y EXCEPT !.ver = v, !.modstate = "remove", !.perm = r]
<1>1. Removed(y, k) = z
  BY DEF Removed, Node
<1>2. PermOk(q) /\ y.slot \in [Slot -> Key \cup {0}] /\ InLeaf(y)
  BY DEF LeafNode
<1>3. PICK i \in 0 .. q.size - 1 : k = KeyAt(y, i)
  BY KeysAre
<1>4. q.size \in 0 .. W /\ W \in Nat \ {0}
  BY <1>2, Positions, WAssumption
<1>5. /\ \A j \in 0 .. q.size - 1 : KeyAt(y, j) \in Key /\ KeyAt(y, j) \in Nat
      /\ \A j, m \in 0 .. q.size - 1 : j < m => KeyAt(y, j) < KeyAt(y, m)
      /\ y.height = 0
  BY <1>2, IkeysAre DEF InLeaf
<1>6. k \in Key /\ k \in Nat
  BY <1>3, <1>5
<1>7. /\ p \in 0 .. q.size
      /\ \A j \in 0 .. p - 1 : KeyAt(y, j) < k
      /\ \A j \in p .. q.size - 1 : KeyAt(y, j) >= k
  BY <1>6, PositionIs
<1> HIDE DEF p, q
<1>8. p = i
  <2>1. ~ (i < p)
    BY <1>3, <1>4, <1>6, <1>7
  <2>2. ~ (p < i)
    <3>1. SUFFICES ASSUME p < i PROVE FALSE
      OBVIOUS
    <3>2. p \in p .. q.size - 1 /\ p \in 0 .. q.size - 1
      BY <1>4, <1>7, <3>1
    <3>3. KeyAt(y, p) >= k /\ KeyAt(y, p) < KeyAt(y, i)
      BY <1>5, <1>7, <3>1, <3>2
    <3>4. QED
      BY <1>3, <1>5, <1>6, <3>2, <3>3
  <2>3. QED
    BY <1>4, <1>7, <2>1, <2>2
<1>9. /\ PermOk(r) /\ r.size = q.size - 1
      /\ InUse(r) = InUse(q) \ {At(q, p)}
      /\ \A j \in 0 .. p - 1 : At(r, j) = At(q, j)
      /\ \A j \in p .. q.size - 2 : At(r, j) = At(q, j + 1)
      /\ At(r, q.size - 1) = At(q, p)
  BY <1>2, <1>8, TakenOut
<1> DEFINE w == [y EXCEPT !.ver = v, !.modstate = "remove"]
<1>10. y.ver \in Version /\ v \in Version /\ v.inserting = ins
  <2>1. y.ver \in Version
    BY NodeFields
  <2>2. ins \in BOOLEAN
    OBVIOUS
  <2> HIDE DEF ins
  <2>3. QED
    BY <2>1, <2>2 DEF Version
<1> HIDE DEF v, r
<1>11. z.perm = r /\ z.slot = y.slot /\ z.height = y.height /\ z.ver = v /\ z.modstate = "remove" /\ z \in Node
  BY <1>9, <1>10 DEF Node, PermOk
<1>12. /\ z.kind = y.kind /\ z.ikeys = y.ikeys /\ z.child = y.child /\ z.parent = y.parent
       /\ z.prev = y.prev /\ z.next = y.next
  BY DEF Node
<1> HIDE DEF z
<1>13. /\ \A j \in 0 .. p - 1 : KeyAt(z, j) = KeyAt(y, j)
       /\ \A j \in p .. q.size - 2 : KeyAt(z, j) = KeyAt(y, j + 1)
  BY <1>9, <1>11 DEF KeyAt, q
<1> DEFINE old(j) == IF j < p THEN j ELSE j + 1
<1>14. \A j \in 0 .. q.size - 2 : old(j) \in 0 .. q.size - 1 /\ KeyAt(z, j) = KeyAt(y, old(j))
  <2>1. SUFFICES ASSUME NEW j \in 0 .. q.size - 2
                 PROVE  old(j) \in 0 .. q.size - 1 /\ KeyAt(z, j) = KeyAt(y, old(j))
    OBVIOUS
  <2>2. CASE j < p
    BY <1>4, <1>7, <1>13, <2>2
  <2>3. CASE ~ (j < p)
    <3>1. j \in p .. q.size - 2
      BY <1>4, <1>7, <2>3
    <3>2. QED
      BY <1>4, <1>7, <1>13, <2>3, <3>1
  <2>4. QED
    BY <2>2, <2>3
<1>15. \A i1, j1 \in 0 .. q.size - 2 : i1 < j1 => old(i1) < old(j1)
  BY <1>4, <1>7
<1> HIDE DEF old
<1>16. z.perm.size = q.size - 1 /\ 0 .. z.perm.size - 1 = 0 .. q.size - 2
  BY <1>4, <1>9, <1>11
<1>17. InLeaf(z)
  <2>1. \A j \in 0 .. q.size - 2 : KeyAt(z, j) \in Key
    BY <1>5, <1>14
  <2>2. \A i1, j1 \in 0 .. q.size - 2 : i1 < j1 => KeyAt(z, i1) < KeyAt(z, j1)
    BY <1>5, <1>14, <1>15
  <2>3. QED
    BY <1>5, <1>11, <1>16, <2>1, <2>2 DEF InLeaf
<1>18. LeafNode(z)
  BY <1>2, <1>9, <1>11, <1>17 DEF LeafNode
<1>19. Keys(z) = Keys(y) \ {k}
  <2>1. KeyAt(y, p) = k /\ \A j \in 0 .. q.size - 1 : KeyAt(y, j) = k => j = p
    BY <1>3, <1>5, <1>8
  <2>2. \A m \in InUse(q) : y.slot[m] = k <=> m = At(q, p)
    BY <2>1 DEF InUse, KeyAt, q
  <2>3. QED
    BY <1>9, <1>11, <2>2 DEF Keys, q
<1>20. z.perm.size = 0 => KeyAt(z, 0) = k
  <2>1. SUFFICES ASSUME z.perm.size = 0 PROVE KeyAt(z, 0) = k
    OBVIOUS
  <2>2. q.size = 1 /\ p = 0 /\ i = 0
    BY <1>4, <1>8, <1>16, <2>1
  <2>3. At(r, 0) = At(q, 0)
    BY <1>9, <2>2
  <2>4. QED
    BY <1>3, <1>11, <2>2, <2>3 DEF KeyAt, q
<1>21. z.ver = [y.ver EXCEPT !.inserting = z.ver.inserting] /\ (y.ver.inserting => z.ver.inserting)
  BY <1>10, <1>11 DEF v
<1>24. Refilled(y, z)
  BY <1>11, <1>12, <1>21 DEF Refilled
<1>22. q.size > 0
  BY <1>3, <1>4
<1>23. QED
  BY <1>1, <1>11, <1>16, <1>18, <1>19, <1>20, <1>22, <1>24 DEF q

-----------------------------------------------------------------------------
(* Steps that change nodes *)

LEMMA MakeFrame ==
  ASSUME NEW lo, NEW hi, NEW lo2, NEW hi2, TreeIn(lo, hi), NEW t \in Thread, NEW T \in SUBSET NodeId,
         \A u \in Thread \ {t} : pc'[u] = pc[u] /\ loc'[u] = loc[u] /\ req'[u] = req[u],
         NodeId \subseteq NodeId',
         \A x \in T : node[x].lock \in {t, NoThread} /\ Told(x, lo, hi, lo2, hi2),
         \A x \in NodeId : lo2[x] = lo[x] /\ (node[x].lock # t => hi2[x] = hi[x]),
         \A x \in NodeId \ T :
           /\ SameBody(node[x], node'[x]) /\ node'[x].ver = node[x].ver /\ node'[x].lock = node[x].lock
           /\ hi2[x] = hi[x],
         \A x \in NodeId \ T : node[x].lock = t =>
           /\ ReadHi(x, hi2)' = ReadHi(x, hi) /\ (NewRight(x)' <=> NewRight(x)),
         \A x \in NodeId : node'[x].prev = Nil <=> node[x].prev = Nil,
         \A x \in NodeId : node'[x].parent = node[x].parent \/
           (node'[x].parent # Nil /\ (node[x].parent \in T \/ (node[x].parent = Nil /\ Owns(t, x)))),
         \A x \in NodeId : x \in T \/ node[x].lock = t =>
           SepHi(x, hi2)' = SepHi(x, hi) \/
             (Owns(t, x) /\ node[x].parent \in T \cup {Nil} /\ node'[x].parent # Nil)
  PROVE  Frame(t, T, lo, hi, lo2, hi2)
<1>1. Types /\ \A u \in Thread : ThreadIn(u, lo, hi)
  BY DEF TreeIn
<1>2. Nil \notin T
  BY <1>1, NodeTypes DEF Nil
<1>3. ASSUME NEW x \in NodeId \ T
      PROVE  /\ Still(x, hi, hi2) /\ Told(x, lo, hi, lo2, hi2)
             /\ node[x].lock # t => SepHi(x, hi2)' = SepHi(x, hi)
  <2>1. /\ node[x].lock # t => SepHi(x, hi2)' = SepHi(x, hi)
        /\ ReadHi(x, hi2)' = ReadHi(x, hi) /\ (NewRight(x)' <=> NewRight(x))
    <3>1. CASE node[x].lock = t
      BY <3>1
    <3>2. CASE node[x].lock # t
      <4>1. node'[x].lock = node[x].lock
        OBVIOUS
      <4>2. \A u \in Thread \ {t} : pc'[u] = pc[u] /\ loc'[u] = loc[u]
        OBVIOUS
      <4>3. \A z \in NodeId : node[z].lock # t => hi2[z] = hi[z]
        OBVIOUS
      <4>4. /\ SepHi(x, hi2)' = SepHi(x, hi) /\ ReadHi(x, hi2)' = ReadHi(x, hi)
            /\ NewRight(x)' <=> NewRight(x)
        BY ONLY TreeIn(lo, hi), x \in NodeId, <3>2, <4>1, <4>2, <4>3, ViewKept
      <4>5. QED
        BY <4>4
    <3>3. QED
      BY <3>1, <3>2
  <2>2. Still(x, hi, hi2)
    BY <2>1 DEF Still
  <2>3. node[x].ver.vinsert \in Nat
    BY <1>1, NodeTypes
  <2>4. Told(x, lo, hi, lo2, hi2)
    BY <2>1, <2>3 DEF Told, SameBody, VLeq
  <2>5. QED
    BY <2>1, <2>2, <2>4
<1>4. QED
  BY <1>2, <1>3 DEF Frame

LEMMA ParentsKept ==
  ASSUME Parents, NodeId' = NodeId,
         \A x \in NodeId : node'[x].kind = node[x].kind /\ node'[x].child = node[x].child /\ node'[x].parent = node[x].parent
  PROVE  Parents'
<1>1. ASSUME NEW x \in NodeId, NEW p, p = node'[x].parent, p # Nil PROVE HasChild(p, x)'
  <2>1. HasChild(p, x)
    BY <1>1 DEF Parents
  <2>2. QED
    BY <2>1 DEF HasChild, Inner
<1>2. QED
  BY <1>1 DEF Parents

\* The same for the state after a step.
LEMMA FreeNext ==
  ASSUME NEW x, node'[x].lock \notin Thread, NEW hi
  PROVE  SepHi(x, hi)' = hi[x] /\ ReadHi(x, hi)' = hi[x] /\ ~ NewRight(x)'
BY DEF SepHi, ReadHi, NewRight

LEMMA IdleNext ==
  ASSUME NEW x, NEW t, node'[x].lock = t, pc'[t] \notin Splitting, NEW hi
  PROVE  SepHi(x, hi)' = hi[x] /\ ReadHi(x, hi)' = hi[x] /\ ~ NewRight(x)'
BY DEF SepHi, ReadHi, NewRight, Splitting, Climbing

LEMMA OwnNext ==
  ASSUME NEW t \in Thread, NEW x, node'[x].lock = t, NEW hi
  PROVE  /\ SepHi(x, hi)' = IF pc'[t] \in Climbing /\ loc'[t].n = x THEN hi[loc'[t].child]
                            ELSE IF pc'[t] = "strip" /\ loc'[t].next # Nil /\ loc'[t].p = x THEN hi[loc'[t].next]
                            ELSE hi[x]
         /\ ReadHi(x, hi)' = IF pc'[t] \in Splitting /\ loc'[t].n = x /\ loc'[t].leaf = x THEN hi[loc'[t].child]
                             ELSE hi[x]
         /\ NewRight(x)' <=> \/ pc'[t] \in Climbing /\ loc'[t].child = x
                             \/ pc'[t] = "strip" /\ loc'[t].next = x
BY DEF SepHi, ReadHi, NewRight

LEMMA LockIs ==
  ASSUME NEW lo, NEW hi, TreeIn(lo, hi), NEW x \in NodeId
  PROVE  node[x].lock \in Thread \cup {NoThread} /\ NoThread \notin Thread
BY NodeTypes, ThreadAssumption DEF TreeIn

\* Node n changes to z and is unlocked, by a thread that has no split under way.
Unlocks(t, n, z) ==
  /\ pc[t] \notin Splitting /\ pc'[t] \notin Splitting
  /\ \A u \in Thread \ {t} : pc'[u] = pc[u] /\ loc'[u] = loc[u] /\ req'[u] = req[u]
  /\ Owns(t, n) /\ Refilled(node[n], z)
  /\ node' = [node EXCEPT ![n] = Unlocked(z)]

LEMMA UnlockFrame ==
  ASSUME NEW lo, NEW hi, TreeIn(lo, hi), NEW t \in Thread, NEW n, NEW z \in Node, Unlocks(t, n, z)
  PROVE  /\ Frame(t, {n}, lo, hi, lo, hi) /\ Parents' /\ node' \in Seq(Node) /\ NodeId' = NodeId
         /\ node'[n] = Unlocked(z)
         /\ \A x \in NodeId : SepHi(x, hi)' = SepHi(x, hi)
<1>0. /\ pc[t] \notin Splitting /\ pc'[t] \notin Splitting
      /\ \A u \in Thread \ {t} : pc'[u] = pc[u] /\ loc'[u] = loc[u] /\ req'[u] = req[u]
      /\ Owns(t, n) /\ Refilled(node[n], z)
      /\ node' = [node EXCEPT ![n] = Unlocked(z)]
  BY DEF Unlocks
<1> USE <1>0
<1>1. Types /\ Parents /\ n \in NodeId /\ node[n].lock = t /\ node \in Seq(Node)
  BY DEF TreeIn, Types, Owns
<1>2. node[n].ver \in Version
  BY <1>1, NodeTypes
<1>3. PICK u \in Node : u = Unlocked(z)
  BY UnlockedIs
<1>4. /\ SameBody(z, u) /\ u.parent = z.parent /\ u.prev = z.prev /\ u.lock = NoThread
      /\ ~ u.ver.inserting /\ ~ u.ver.splitting
      /\ z.ver.splitting => u.ver.vsplit = z.ver.vsplit + 1 /\ ~ u.ver.root
      /\ ~ z.ver.splitting => /\ u.ver.vsplit = z.ver.vsplit /\ u.ver.root = z.ver.root
                              /\ u.ver.vinsert = z.ver.vinsert + IF z.ver.inserting THEN 1 ELSE 0
  BY <1>3, UnlockedIs
<1>5. /\ z.ver.vsplit = node[n].ver.vsplit /\ z.ver.vinsert = node[n].ver.vinsert
      /\ z.ver.splitting = node[n].ver.splitting /\ z.ver.root = node[n].ver.root
      /\ node[n].ver.vsplit \in Nat /\ node[n].ver.vinsert \in Nat
  <2>1. PICK a : a = node[n].ver
    OBVIOUS
  <2>2. PICK i : i = z.ver.inserting
    OBVIOUS
  <2>3. z.ver = [a EXCEPT !.inserting = i] /\ a \in Version
    BY <1>2, <2>1, <2>2 DEF Refilled
  <2>4. /\ z.ver.vsplit = a.vsplit /\ z.ver.vinsert = a.vinsert /\ z.ver.splitting = a.splitting /\ z.ver.root = a.root
        /\ a.vsplit \in Nat /\ a.vinsert \in Nat
    BY <2>3 DEF Version
  <2>5. QED
    BY <2>1, <2>4
<1>6. node' = [node EXCEPT ![n] = u]
  BY <1>3
<1>7. node' \in Seq(Node) /\ NodeId' = NodeId /\ node'[n] = u /\ \A x \in NodeId : x # n => node'[x] = node[x]
  BY <1>1, <1>6 DEF NodeId
<1>8. /\ u.kind = node[n].kind /\ u.height = node[n].height /\ u.ikeys = node[n].ikeys /\ u.child = node[n].child
      /\ u.parent = node[n].parent /\ u.prev = node[n].prev /\ u.next = node[n].next
  BY <1>4 DEF SameBody, Refilled
<1>9. Parents'
  BY <1>1, <1>7, <1>8, ParentsKept
<1>10. SepHi(n, hi) = hi[n] /\ ReadHi(n, hi) = hi[n]
  BY <1>1, IdleView
<1>11. SepHi(n, hi)' = hi[n] /\ ReadHi(n, hi)' = hi[n]
  BY <1>4, <1>7, ThreadAssumption, FreeNext
<1>12. VLeq(node[n].ver, u.ver)
  BY <1>4, <1>5 DEF VLeq
<1>13. ASSUME u.ver.vsplit = node[n].ver.vsplit
       PROVE  /\ ~ node[n].ver.splitting
              /\ u.ver.vinsert = node[n].ver.vinsert => ~ node[n].ver.inserting
  <2>1. ~ z.ver.splitting /\ ~ node[n].ver.splitting
    BY <1>4, <1>5, <1>13
  <2>2. u.ver.vinsert = node[n].ver.vinsert => ~ z.ver.inserting
    BY <1>4, <1>5, <2>1
  <2>3. QED
    BY <2>1, <2>2 DEF Refilled
<1>14. Told(n, lo, hi, lo, hi)
  BY <1>7, <1>8, <1>10, <1>11, <1>12, <1>13 DEF Told
<1>15. \A x \in NodeId \ {n} : node[x].lock = t =>
         /\ ReadHi(x, hi)' = ReadHi(x, hi) /\ (NewRight(x)' <=> NewRight(x)) /\ SepHi(x, hi)' = SepHi(x, hi)
  <2>1. SUFFICES ASSUME NEW x \in NodeId \ {n}, node[x].lock = t
                 PROVE  /\ ReadHi(x, hi)' = ReadHi(x, hi) /\ (NewRight(x)' <=> NewRight(x))
                        /\ SepHi(x, hi)' = SepHi(x, hi)
    OBVIOUS
  <2>2. node'[x].lock = t
    BY <1>7, <2>1
  <2>3. QED
    BY <2>1, <2>2, IdleView, IdleNext
<1>16. \A x \in NodeId \ {n} : SameBody(node[x], node'[x]) /\ node'[x] = node[x]
  BY <1>7 DEF SameBody
<1>17. \A x \in NodeId : node'[x].prev = node[x].prev /\ node'[x].parent = node[x].parent
  BY <1>7, <1>8
<1>18. \A x \in NodeId : x \in {n} \/ node[x].lock = t => SepHi(x, hi)' = SepHi(x, hi)
  BY <1>10, <1>11, <1>15
<1>19. {n} \in SUBSET NodeId /\ NodeId \subseteq NodeId'
  BY <1>1, <1>7
<1>20. Frame(t, {n}, lo, hi, lo, hi)
  <2>1. PICK T : T = {n}
    OBVIOUS
  <2>2. T \in SUBSET NodeId /\ NodeId \subseteq NodeId'
    BY <1>19, <2>1
  <2>3. \A x \in T : node[x].lock \in {t, NoThread} /\ Told(x, lo, hi, lo, hi)
    BY <1>1, <1>14, <2>1
  <2>4. \A x \in NodeId \ T :
          /\ SameBody(node[x], node'[x]) /\ node'[x].ver = node[x].ver /\ node'[x].lock = node[x].lock
          /\ hi[x] = hi[x]
    BY <1>16, <2>1
  <2>5. \A x \in NodeId \ T : node[x].lock = t =>
          /\ ReadHi(x, hi)' = ReadHi(x, hi) /\ (NewRight(x)' <=> NewRight(x))
    BY <1>15, <2>1
  <2>6. /\ \A x \in NodeId : node'[x].prev = Nil <=> node[x].prev = Nil
        /\ \A x \in NodeId : node'[x].parent = node[x].parent \/
             (node'[x].parent # Nil /\ (node[x].parent \in T \/ (node[x].parent = Nil /\ Owns(t, x))))
    BY <1>17
  <2>7. \A x \in NodeId : x \in T \/ node[x].lock = t =>
          SepHi(x, hi)' = SepHi(x, hi) \/
            (Owns(t, x) /\ node[x].parent \in T \cup {Nil} /\ node'[x].parent # Nil)
    BY <1>18, <2>1
  <2>8. \A x \in NodeId : lo[x] = lo[x] /\ (node[x].lock # t => hi[x] = hi[x])
    OBVIOUS
  <2>9. Frame(t, T, lo, hi, lo, hi)
    BY <2>2, <2>3, <2>4, <2>5, <2>6, <2>7, <2>8, MakeFrame
  <2>10. QED
    BY <2>1, <2>9
<1>22. \A x \in NodeId : SepHi(x, hi)' = SepHi(x, hi)
  <2>1. SUFFICES ASSUME NEW x \in NodeId, x # n, node[x].lock # t PROVE SepHi(x, hi)' = SepHi(x, hi)
    BY <1>18
  <2>2. node'[x].lock = node[x].lock
    BY <1>7, <2>1
  <2>3. \A v \in Thread \ {t} : pc'[v] = pc[v] /\ loc'[v] = loc[v]
    OBVIOUS
  <2>4. \A y \in NodeId : node[y].lock # t => hi[y] = hi[y]
    OBVIOUS
  <2>5. /\ SepHi(x, hi)' = SepHi(x, hi) /\ ReadHi(x, hi)' = ReadHi(x, hi)
        /\ NewRight(x)' <=> NewRight(x)
    BY ONLY TreeIn(lo, hi), x \in NodeId, <2>1, <2>2, <2>3, <2>4, ViewKept
  <2>6. QED
    BY <2>5
<1>21. QED
  BY <1>3, <1>7, <1>9, <1>20, <1>22

\* What of a leaf's slots makes it leaf x for the slices from l up to h.
Holds(y, x, l, h) ==
  /\ \A k \in Keys(y) : l <= IkeyOf[k] /\ Below(IkeyOf[k], h)
  /\ y.perm.size = 0 => KeyAt(y, 0) = 0 \/ Below(IkeyOf[KeyAt(y, 0)], h)
  /\ x # 1 => y.slot[0] # 0 /\ l = IkeyOf[y.slot[0]]

LEMMA LeafHolds ==
  ASSUME NEW lo, NEW hi, TreeIn(lo, hi), NEW x, Leaf(x), ~ node[x].ver.splitting, ReadHi(x, hi) = hi[x]
  PROVE  LeafNode(node[x]) /\ Holds(node[x], x, lo[x], hi[x])
<1>1. Types /\ x \in NodeId /\ NodeIn(x, lo, hi)
  BY DEF TreeIn, Leaf
<1>2. PICK y : y = node[x]
  OBVIOUS
<1>3. InLeaf(y) /\ LeafRange(x, lo, hi) /\ PermOk(y.perm) /\ y.slot \in [Slot -> Key \cup {0}]
  BY <1>1, <1>2, NodeTypes DEF NodeIn
<1>4. \A k \in Keys(y) : lo[x] <= IkeyOf[k] /\ Below(IkeyOf[k], hi[x])
  BY <1>2, <1>3, KeysAre DEF LeafRange
<1>5. QED
  BY <1>2, <1>3, <1>4 DEF LeafNode, Holds, LeafRange

\* The end of a put or remove in one leaf.
LEMMA LeafStep ==
  ASSUME NEW lo, NEW hi, TreeIn(lo, hi), NEW t \in Thread, pc[t] \in WritePc \ Splitting,
         NEW n, n = loc[t].leaf, NEW z \in Node,
         Refilled(node[n], z),
         LeafNode(z), Holds(z, n, lo[n], hi[n]),
         NEW l \in {"found", "missing"}, pc' = [pc EXCEPT ![t] = l], loc' = [loc EXCEPT ![t] = NoLocals],
         node' = [node EXCEPT ![n] = Unlocked(z)], root' = root, req' = req, pre' = pre
  PROVE  TreeIn(lo, hi)'
<1>1. Types /\ Leaf(n) /\ Owns(t, n) /\ n \in NodeId /\ req[t] # Idle /\ K(t) \in Key /\ NodeIn(n, lo, hi)
  BY Climber DEF TreeIn
<1>2. l \in AllPc /\ l \notin ReadPc \cup WritePc \cup Splitting \cup {"idle", "trim"} /\ pc[t] \notin Splitting
  BY DEF AllPc, OtherPc, ReadPc, WritePc, Putting, Splitting, Climbing
<1>3. pc'[t] = l /\ \A v \in Thread \ {t} : pc'[v] = pc[v] /\ loc'[v] = loc[v] /\ req'[v] = req[v]
  <2>1. pc \in [Thread -> AllPc] /\ loc \in [Thread -> AllLocals]
    BY <1>1, RequestsAre
  <2>2. QED
    BY <2>1
<1>4. /\ Frame(t, {n}, lo, hi, lo, hi) /\ Parents' /\ node' \in Seq(Node) /\ NodeId' = NodeId
      /\ node'[n] = Unlocked(z) /\ \A x \in NodeId : SepHi(x, hi)' = SepHi(x, hi)
  <2>1. pc[t] \notin Splitting /\ pc'[t] \notin Splitting /\ Owns(t, n)
    BY <1>1, <1>2, <1>3
  <2>2. \A v \in Thread \ {t} : pc'[v] = pc[v] /\ loc'[v] = loc[v] /\ req'[v] = req[v]
    BY <1>3
  <2>3. Unlocks(t, n, z)
    BY <2>1, <2>2 DEF Unlocks
  <2>4. QED
    BY <2>3, UnlockFrame
<1>5. Types' /\ loc'[t] = NoLocals
  <2>1. NoLocals \in AllLocals /\ NodeId \subseteq NodeId'
    BY <1>4, NoLocalsAre DEF AllLocals
  <2>2. /\ Types' /\ pc'[t] = l /\ loc'[t] = NoLocals
        /\ \A v \in Thread \ {t} : pc'[v] = pc[v] /\ loc'[v] = loc[v] /\ req'[v] = req[v]
    BY <1>1, <1>2, <1>4, <2>1, Moves
  <2>3. QED
    BY <2>2
<1>6. ThreadIn(t, lo, hi)'
  BY <1>1, <1>2, <1>3 DEF ThreadIn, K
<1>7. PICK u : u = node'[n]
  OBVIOUS
<1>8. /\ SameBody(z, u) /\ u.parent = z.parent /\ u.prev = z.prev /\ u.lock = NoThread
      /\ ~ u.ver.inserting /\ ~ u.ver.splitting
      /\ z.ver.splitting => ~ u.ver.root
      /\ ~ z.ver.splitting => u.ver.root = z.ver.root
  BY <1>4, <1>7, UnlockedIs
<1>9. z.ver.splitting = node[n].ver.splitting /\ z.ver.root = node[n].ver.root
  <2>1. node[n].ver \in Version
    BY <1>1, NodeTypes
  <2>2. PICK a, i : a = node[n].ver /\ i = z.ver.inserting
    OBVIOUS
  <2>3. z.ver = [a EXCEPT !.inserting = i] /\ a \in Version
    BY <2>1, <2>2 DEF Refilled
  <2>4. z.ver.splitting = a.splitting /\ z.ver.root = a.root
    BY <2>3 DEF Version
  <2>5. QED
    BY <2>2, <2>4
<1>10. SepHi(n, hi) = hi[n] /\ ReadHi(n, hi) = hi[n] /\ ~ NewRight(n)
  BY <1>1, <1>2, IdleView DEF Owns
<1>11. SepHi(n, hi)' = hi[n] /\ ReadHi(n, hi)' = hi[n] /\ ~ NewRight(n)'
  BY <1>7, <1>8, ThreadAssumption, FreeNext
<1>12. Leaf(n)' /\ ~ Inner(n)'
  <2>1. u.kind = "leaf" /\ n \in NodeId'
    BY <1>1, <1>4, <1>7, <1>8 DEF SameBody, Leaf, Refilled
  <2>2. QED
    BY <1>7, <2>1 DEF Leaf, Inner
<1>13. InLeaf(node'[n])
  <2>1. u.perm = z.perm /\ u.height = z.height /\ \A j : KeyAt(u, j) = KeyAt(z, j)
    BY <1>8 DEF SameBody, KeyAt
  <2>2. InLeaf(z)
    BY DEF LeafNode
  <2>3. InLeaf(u)
    BY <2>1, <2>2 DEF InLeaf
  <2>4. QED
    BY <1>7, <2>3
<1>14. /\ u.perm = z.perm /\ u.slot = z.slot /\ u.next = node[n].next /\ u.prev = node[n].prev
       /\ u.parent = node[n].parent
  BY <1>8 DEF SameBody, Refilled
<1>15. LeafRange(n, lo, hi)'
  <2>1. LeafRange(n, lo, hi)
    BY <1>1 DEF NodeIn
  <2>2. \A j : KeyAt(u, j) = KeyAt(z, j)
    BY <1>14 DEF KeyAt
  <2>3. PICK y : y = node[n].next /\ y = u.next
    BY <1>14
  <2>4. /\ y = Nil => hi[n] = Inf
        /\ y # Nil => Leaf(y) /\ y # 1 /\ hi[n] = lo[y]
        /\ u.prev = Nil <=> n = 1
        /\ n = 1 => lo[n] = 0
    BY <1>14, <2>1, <2>3 DEF LeafRange
  <2>5. y # Nil => Leaf(y)'
    BY <1>4, <2>4, KindKept
  <2>6. \A i \in 0 .. u.perm.size - 1 : lo[n] <= IkeyOf[KeyAt(u, i)] /\ Below(IkeyOf[KeyAt(u, i)], hi[n])
    BY <1>14, <2>2, KeysAre DEF Holds
  <2>7. u.perm.size = 0 => KeyAt(u, 0) = 0 \/ Below(IkeyOf[KeyAt(u, 0)], hi[n])
    BY <1>14, <2>2 DEF Holds
  <2>8. n # 1 => u.slot[0] # 0 /\ lo[n] = IkeyOf[u.slot[0]]
    BY <1>14 DEF Holds
  <2>10. ReadHi(n, hi)' = hi[n]
    BY <1>11
  <2>9. QED
    BY <1>7, <2>10, <1>14, <2>3, <2>4, <2>5, <2>6, <2>7, <2>8 DEF LeafRange
<1>16. TopRange(n, lo, hi)'
  <2>1. TopRange(n, lo, hi)
    BY <1>1 DEF NodeIn
  <2>2. RootId(n)' => RootId(n)
    BY <1>12 DEF RootId
  <2>3. QED
    BY <1>7, <1>8, <1>9, <1>10, <1>11, <1>14, <2>1, <2>2 DEF TopRange
<1>17. NodeIn(n, lo, hi)'
  BY <1>1, <1>7, <1>8, <1>12, <1>13, <1>15, <1>16 DEF NodeIn, Dirty
<1>18. \A x \in {n} : NodeIn(x, lo, hi)'
  BY <1>17
<1>19. RootId(root)'
  <2>1. RootId(root)
    BY DEF TreeIn
  <2>2. QED
    BY <1>4, <2>1, KindKept
<1>20. QED
  BY <1>4, <1>5, <1>6, <1>18, <1>19, Wrap

\* What a put or remove works on that has locked its leaf.
Kept(y, x, l, h) ==
  /\ LeafNode(y)
  /\ \A k \in Keys(y) : l <= IkeyOf[k] /\ Below(IkeyOf[k], h)
  /\ x # 1 => y.slot[0] # 0 /\ l = IkeyOf[y.slot[0]]

LEMMA AtWork ==
  ASSUME NEW lo, NEW hi, TreeIn(lo, hi), NEW t \in Thread, pc[t] \in {"locked", "finish"}, NEW n, n = loc[t].leaf
  PROVE  /\ n \in NodeId /\ Leaf(n) /\ Owns(t, n) /\ node[n] \in Node /\ Kept(node[n], n, lo[n], hi[n])
         /\ K(t) \in Key /\ pc[t] \in WritePc \ Splitting
         /\ node[n].prev = Nil <=> n = 1
         /\ pc[t] = "locked" => InRange(t, n, lo, hi) /\ Holds(node[n], n, lo[n], hi[n])
         /\ pc[t] = "finish" => Ready(t, n, lo, hi)
<1>1. pc[t] \in WritePc /\ pc[t] \notin Splitting
  BY DEF WritePc, Putting, Splitting, Climbing
<1>2. /\ Types /\ Writing(t, lo, hi) /\ Leaf(n) /\ Owns(t, n) /\ n \in NodeId /\ K(t) \in Key
      /\ NodeIn(n, lo, hi)
  BY <1>1, Climber DEF TreeIn
<1>3. ReadHi(n, hi) = hi[n]
  BY <1>1, <1>2, IdleView DEF Owns
<1>4. PICK y : y = node[n]
  OBVIOUS
<1>5. y \in Node /\ InLeaf(y) /\ LeafRange(n, lo, hi) /\ PermOk(y.perm) /\ y.slot \in [Slot -> Key \cup {0}]
  BY <1>2, <1>4, NodeTypes DEF NodeIn
<1>6. \A k \in Keys(y) : lo[n] <= IkeyOf[k] /\ Below(IkeyOf[k], hi[n])
  BY <1>3, <1>4, <1>5, KeysAre DEF LeafRange
<1>7. Kept(y, n, lo[n], hi[n]) /\ (y.prev = Nil <=> n = 1)
  BY <1>4, <1>5, <1>6 DEF Kept, LeafNode, LeafRange
<1>8. pc[t] = "locked" => InRange(t, n, lo, hi) /\ Holds(y, n, lo[n], hi[n])
  <2>1. SUFFICES ASSUME pc[t] = "locked" PROVE InRange(t, n, lo, hi) /\ Holds(y, n, lo[n], hi[n])
    OBVIOUS
  <2>2. InRange(t, n, lo, hi) /\ ~ node[n].ver.splitting
    BY <1>2, <2>1 DEF Writing, Dirty
  <2>3. Holds(node[n], n, lo[n], hi[n])
    BY <1>2, <1>3, <2>2, LeafHolds
  <2>4. QED
    BY <1>4, <2>2, <2>3
<1>9. pc[t] = "finish" => Ready(t, n, lo, hi)
  BY <1>2 DEF Writing
<1>10. QED
  BY <1>1, <1>2, <1>4, <1>5, <1>7, <1>8, <1>9

\* find_insert's mark changes nothing else.
LEMMA InsertingIs ==
  ASSUME NEW y \in Node
  PROVE  LET x == Inserting(y) IN
         /\ x \in Node /\ Refilled(y, x) /\ x.perm = y.perm /\ x.slot = y.slot /\ x.lock = y.lock
<1> DEFINE ins == y.ver.inserting \/ y.modstate = "remove"
           v == [y.ver EXCEPT !.inserting = ins]
           x == [y EXCEPT !.ver = v, !.modstate = "insert"]
<1>1. Inserting(y) = x
  BY DEF Inserting, Node
<1>2. y.ver \in Version
  BY NodeFields
<1>3. ins \in BOOLEAN /\ (y.ver.inserting => ins)
  OBVIOUS
<1> HIDE DEF ins
<1>4. v \in Version /\ v.inserting = ins
  BY <1>2, <1>3 DEF Version
<1>5. v = [y.ver EXCEPT !.inserting = v.inserting]
  BY <1>4
<1> HIDE DEF v
<1>6. /\ x \in Node /\ x.ver = v /\ x.perm = y.perm /\ x.slot = y.slot /\ x.lock = y.lock
      /\ x.kind = y.kind /\ x.height = y.height /\ x.ikeys = y.ikeys /\ x.child = y.child
      /\ x.parent = y.parent /\ x.prev = y.prev /\ x.next = y.next
      /\ x = [y EXCEPT !.ver = x.ver, !.modstate = "insert"]
  BY <1>4 DEF Node
<1> HIDE DEF x
<1>7. Refilled(y, x)
  BY <1>3, <1>4, <1>5, <1>6 DEF Refilled
<1>8. QED
  BY <1>1, <1>6, <1>7

\* A key that belongs to the leaf can be put into it, if not into the slot of the
\* leaf's bound or if that may be used for it.
LEMMA PutHolds ==
  ASSUME NEW y \in Node, NEW x, NEW l, NEW h, Kept(y, x, l, h), y.perm.size < W,
         NEW k \in Key, k \notin Keys(y), l <= IkeyOf[k], Below(IkeyOf[k], h),
         Back(y.perm) = 0 => x = 1 \/ IkeyOf[k] = l
  PROVE  LET z == Inserted(y, k) IN z \in Node /\ LeafNode(z) /\ Holds(z, x, l, h) /\ Refilled(y, z)
<1>1. PICK z : z = Inserted(y, k)
  OBVIOUS
<1>2. LeafNode(y)
  BY DEF Kept
<1>3. /\ z \in Node /\ LeafNode(z) /\ z.perm.size > 0 /\ Refilled(y, z)
      /\ Keys(z) = Keys(y) \cup {k}
      /\ Back(y.perm) # 0 => z.slot[0] = y.slot[0]
      /\ Back(y.perm) = 0 => z.slot[0] = k
  BY <1>1, <1>2, InsertedIs
<1>5. \A m \in Keys(z) : l <= IkeyOf[m] /\ Below(IkeyOf[m], h)
  BY <1>3 DEF Kept
<1>6. x # 1 => z.slot[0] # 0 /\ l = IkeyOf[z.slot[0]]
  BY <1>3, IkeysAre DEF Kept
<1>7. Holds(z, x, l, h)
  BY <1>3, <1>5, <1>6 DEF Holds
<1>8. QED
  BY <1>1, <1>3, <1>7

LEMMA RefillTwice ==
  ASSUME NEW y \in Node, NEW x \in Node, NEW z \in Node, Refilled(y, x), Refilled(x, z)
  PROVE  Refilled(y, z)
<1>1. PICK v, i, j : v = y.ver /\ i = x.ver.inserting /\ j = z.ver.inserting
  OBVIOUS
<1>2. v \in Version /\ x.ver = [v EXCEPT !.inserting = i] /\ z.ver = [x.ver EXCEPT !.inserting = j]
  BY <1>1, NodeFields DEF Refilled
<1>3. z.ver = [v EXCEPT !.inserting = j]
  BY <1>2 DEF Version
<1>4. QED
  BY <1>1, <1>3 DEF Refilled

LEMMA NothingKeeps ==
  ASSUME NEW lo, NEW hi, TreeIn(lo, hi), NEW t \in Thread, Nothing(t)
  PROVE  TreeIn(lo, hi)'
<1>1. PICK n : n = loc[t].leaf
  OBVIOUS
<1>2. PICK l : l = IF req[t].op = "put" THEN "found" ELSE "missing"
  OBVIOUS
<1>3. /\ pc[t] = "locked" /\ node' = [node EXCEPT ![n] = Unlocked(node[n])]
      /\ loc' = [loc EXCEPT ![t] = NoLocals] /\ pc' = [pc EXCEPT ![t] = l] /\ UNCHANGED <<root, req, pre>>
  BY <1>1, <1>2 DEF Nothing, Finish, Goto
<1>4. l \in {"found", "missing"}
  BY <1>2
<1>5. /\ node[n] \in Node /\ LeafNode(node[n]) /\ Holds(node[n], n, lo[n], hi[n]) /\ pc[t] \in WritePc \ Splitting
  BY <1>1, <1>3, AtWork DEF Kept
<1>6. Refilled(node[n], node[n])
  BY <1>5, SameRefill
<1>7. QED
  BY <1>1, <1>3, <1>4, <1>5, <1>6, LeafStep

LEMMA FinishInsertKeeps ==
  ASSUME NEW lo, NEW hi, TreeIn(lo, hi), NEW t \in Thread, FinishInsert(t)
  PROVE  TreeIn(lo, hi)'
<1>1. PICK n : n = loc[t].leaf
  OBVIOUS
<1>2. PICK z : z = Inserted(node[n], K(t))
  OBVIOUS
<1>3. /\ pc[t] = "finish" /\ node' = [node EXCEPT ![n] = Unlocked(z)]
      /\ loc' = [loc EXCEPT ![t] = NoLocals] /\ pc' = [pc EXCEPT ![t] = "missing"] /\ UNCHANGED <<root, req, pre>>
  BY <1>1, <1>2 DEF FinishInsert, Finish, Goto
<1>4. /\ node[n] \in Node /\ Kept(node[n], n, lo[n], hi[n]) /\ pc[t] \in WritePc \ Splitting
      /\ Ready(t, n, lo, hi) /\ K(t) \in Key
  BY <1>1, <1>3, AtWork
<1>5. /\ node[n].perm.size < W /\ K(t) \notin Keys(node[n]) /\ lo[n] <= IkeyOf[K(t)] /\ Below(IkeyOf[K(t)], hi[n])
      /\ Back(node[n].perm) = 0 => n = 1 \/ IkeyOf[K(t)] = lo[n]
  BY <1>4 DEF Ready, InRange, Ik
<1>6. z \in Node /\ LeafNode(z) /\ Holds(z, n, lo[n], hi[n]) /\ Refilled(node[n], z)
  BY <1>2, <1>4, <1>5, PutHolds
<1>7. "missing" \in {"found", "missing"}
  OBVIOUS
<1>8. QED
  BY <1>1, <1>3, <1>4, <1>6, <1>7, LeafStep

\* make_split's search for another slot.
LEMMA OtherSlotIs ==
  ASSUME NEW y \in Node, LeafNode(y), y.perm.size < W
  PROVE  LET z == OtherSlot(y) IN
         /\ z \in Node /\ LeafNode(z) /\ Refilled(y, z) /\ z.slot = y.slot /\ z.perm.size = y.perm.size
         /\ Keys(z) = Keys(y)
<1> DEFINE q == y.perm
           r == Exchange(q, q.size, W - 1)
           z == [y EXCEPT !.perm = r]
<1>1. OtherSlot(y) = z
  BY DEF OtherSlot, Node
<1>2. PermOk(q) /\ y.slot \in [Slot -> Key \cup {0}] /\ InLeaf(y)
  BY DEF LeafNode
<1>3. q.size \in 0 .. W - 1 /\ W - 1 \in 0 .. W - 1 /\ W \in Nat \ {0}
  BY <1>2, Positions, WAssumption
<1>14. PICK i, j : i = q.size /\ j = W - 1
  OBVIOUS
<1>4. /\ PermOk(r) /\ r.size = q.size
      /\ \A m \in 0 .. W - 1 : At(r, m) = IF m = W - 1 THEN At(q, q.size) ELSE IF m = q.size THEN At(q, W - 1) ELSE At(q, m)
  <2> HIDE DEF q
  <2>1. i \in 0 .. W - 1 /\ j \in 0 .. W - 1 /\ r = Exchange(q, i, j)
    BY <1>3, <1>14
  <2>2. LET w == Exchange(q, i, j) IN
        /\ PermOk(w) /\ w.size = q.size
        /\ \A m \in 0 .. W - 1 : At(w, m) = IF m = j THEN At(q, i) ELSE IF m = i THEN At(q, j) ELSE At(q, m)
    BY <1>2, <2>1, Swapped
  <2> HIDE DEF r
  <2>3. QED
    BY <1>14, <2>1, <2>2
<1>5. \A m \in 0 .. q.size - 1 : At(r, m) = At(q, m)
  <2>1. SUFFICES ASSUME NEW m \in 0 .. q.size - 1 PROVE At(r, m) = At(q, m)
    OBVIOUS
  <2> HIDE DEF q, r
  <2>2. m \in 0 .. W - 1 /\ m # W - 1 /\ m # q.size
    BY <1>3
  <2>3. QED
    BY <1>4, <2>2
<1> HIDE DEF r
<1>6. /\ z \in Node /\ z.perm = r /\ z.slot = y.slot /\ z.ver = y.ver
      /\ z.kind = y.kind /\ z.height = y.height /\ z.ikeys = y.ikeys /\ z.child = y.child
      /\ z.parent = y.parent /\ z.prev = y.prev /\ z.next = y.next
  BY <1>4 DEF Node, PermOk
<1> HIDE DEF z
<1>7. Refilled(y, z)
  BY <1>6, SameRefill DEF Refilled
<1>8. \A m \in 0 .. q.size - 1 : KeyAt(z, m) = KeyAt(y, m)
  BY <1>5, <1>6 DEF KeyAt
<1>9. z.perm.size = q.size
  BY <1>4, <1>6
<1>10. InLeaf(z)
  BY <1>2, <1>6, <1>8, <1>9 DEF InLeaf
<1>11. LeafNode(z)
  BY <1>2, <1>4, <1>6, <1>10 DEF LeafNode
<1>12. Keys(z) = Keys(y)
  <2>1. Keys(z) = {KeyAt(z, m) : m \in 0 .. q.size - 1} /\ Keys(y) = {KeyAt(y, m) : m \in 0 .. q.size - 1}
    BY <1>9, KeysAre
  <2>2. QED
    BY <1>8, <2>1
<1>13. QED
  BY <1>1, <1>6, <1>7, <1>9, <1>11, <1>12 DEF q

LEMMA WithSlotIs ==
  ASSUME NEW y \in Node, NEW x, NEW l, NEW h, Kept(y, x, l, h), y.prev = Nil <=> x = 1,
         NEW k \in Key, HasRoom(y, k)
  PROVE  LET z == WithSlot(y, k) IN
         /\ z \in Node /\ Kept(z, x, l, h) /\ Refilled(y, z) /\ z.perm.size < W /\ Keys(z) = Keys(y)
         /\ Back(z.perm) = 0 => x = 1 \/ IkeyOf[k] = l
<1>1. LeafNode(y) /\ y.perm.size < W
  BY DEF Kept, HasRoom
<1>2. CASE SlotIsFree(y, k)
  <2>1. WithSlot(y, k) = y /\ Refilled(y, y)
    BY <1>2, SameRefill DEF WithSlot
  <2>2. Back(y.perm) = 0 => x = 1 \/ IkeyOf[k] = l
    BY <1>2 DEF SlotIsFree, Bound, Kept
  <2>3. QED
    BY <1>1, <2>1, <2>2
<1>3. CASE ~ SlotIsFree(y, k)
  <2>1. PICK z : z = OtherSlot(y) /\ z = WithSlot(y, k)
    BY <1>3 DEF WithSlot
  <2>2. Back(z.perm) # 0
    BY <1>3, <2>1 DEF HasRoom
  <2>3. LET w == OtherSlot(y) IN
         /\ w \in Node /\ LeafNode(w) /\ Refilled(y, w) /\ w.slot = y.slot /\ w.perm.size = y.perm.size
         /\ Keys(w) = Keys(y)
    BY <1>1, OtherSlotIs
  <2>4. /\ z \in Node /\ LeafNode(z) /\ Refilled(y, z) /\ z.slot = y.slot /\ z.perm.size = y.perm.size
        /\ Keys(z) = Keys(y)
    BY <2>1, <2>3
  <2>5. Kept(z, x, l, h)
    BY <2>4 DEF Kept
  <2>6. QED
    BY <1>1, <2>1, <2>2, <2>4, <2>5
<1>4. QED
  BY <1>2, <1>3

\* find_insert's node for the key.
LEMMA ToInsert ==
  ASSUME NEW lo, NEW hi, TreeIn(lo, hi), NEW t \in Thread, pc[t] = "locked", NEW n, n = loc[t].leaf
  PROVE  LET x == Inserting(node[n]) IN
         /\ x \in Node /\ Refilled(node[n], x) /\ Kept(x, n, lo[n], hi[n]) /\ (x.prev = Nil <=> n = 1)
         /\ Keys(x) = Keys(node[n]) /\ x.perm = node[n].perm /\ x.slot = node[n].slot /\ x.lock = t
<1>1. /\ n \in NodeId /\ Leaf(n) /\ Owns(t, n) /\ node[n] \in Node /\ Kept(node[n], n, lo[n], hi[n])
      /\ node[n].prev = Nil <=> n = 1
  BY AtWork
<1>2. PICK x : x = Inserting(node[n])
  OBVIOUS
<1>3. /\ x \in Node /\ Refilled(node[n], x) /\ x.perm = node[n].perm /\ x.slot = node[n].slot /\ x.lock = node[n].lock
  BY <1>1, <1>2, InsertingIs
<1>4. Keys(x) = Keys(node[n]) /\ x.height = node[n].height /\ \A i : KeyAt(x, i) = KeyAt(node[n], i)
  BY <1>3, SMTT(30) DEF Keys, KeyAt, Refilled
<1>5. LeafNode(x)
  BY <1>1, <1>3, <1>4, SMTT(30) DEF LeafNode, InLeaf, Kept
<1>6. Kept(x, n, lo[n], hi[n])
  BY <1>1, <1>3, <1>4, <1>5 DEF Kept
<1>7. x.prev = Nil <=> n = 1
  BY <1>1, <1>3 DEF Refilled
<1>8. QED
  BY <1>1, <1>2, <1>3, <1>4, <1>6, <1>7 DEF Owns

LEMMA InsertHereKeeps ==
  ASSUME NEW lo, NEW hi, TreeIn(lo, hi), NEW t \in Thread, InsertHere(t)
  PROVE  TreeIn(lo, hi)'
<1>1. PICK n : n = loc[t].leaf
  OBVIOUS
<1>2. PICK x : x = Inserting(node[n])
  OBVIOUS
<1>3. PICK y : y = WithSlot(x, K(t))
  OBVIOUS
<1>4. PICK z : z = Inserted(y, K(t))
  OBVIOUS
<1>5. /\ pc[t] = "locked" /\ K(t) \notin Keys(x) /\ HasRoom(x, K(t)) /\ node' = [node EXCEPT ![n] = Unlocked(z)]
      /\ loc' = [loc EXCEPT ![t] = NoLocals] /\ pc' = [pc EXCEPT ![t] = "missing"] /\ UNCHANGED <<root, req, pre>>
  BY <1>1, <1>2, <1>3, <1>4 DEF InsertHere, Finish, Goto
<1>6. /\ node[n] \in Node /\ pc[t] \in WritePc \ Splitting /\ InRange(t, n, lo, hi) /\ K(t) \in Key
  BY <1>1, <1>5, AtWork
<1>7. /\ x \in Node /\ Refilled(node[n], x) /\ Kept(x, n, lo[n], hi[n]) /\ (x.prev = Nil <=> n = 1)
  BY <1>1, <1>2, <1>5, ToInsert
<1>8. /\ y \in Node /\ Kept(y, n, lo[n], hi[n]) /\ Refilled(x, y) /\ y.perm.size < W /\ Keys(y) = Keys(x)
      /\ Back(y.perm) = 0 => n = 1 \/ IkeyOf[K(t)] = lo[n]
  BY <1>3, <1>5, <1>6, <1>7, WithSlotIs
<1>9. lo[n] <= IkeyOf[K(t)] /\ Below(IkeyOf[K(t)], hi[n]) /\ K(t) \notin Keys(y)
  BY <1>5, <1>6, <1>8 DEF InRange, Ik
<1>10. z \in Node /\ LeafNode(z) /\ Holds(z, n, lo[n], hi[n]) /\ Refilled(y, z)
  BY <1>4, <1>6, <1>8, <1>9, PutHolds
<1>11. Refilled(node[n], y)
  BY <1>6, <1>7, <1>8, RefillTwice
<1>12. Refilled(node[n], z)
  BY <1>6, <1>8, <1>10, <1>11, RefillTwice
<1>13. "missing" \in {"found", "missing"}
  OBVIOUS
<1>14. QED
  BY <1>1, <1>5, <1>6, <1>10, <1>12, <1>13, LeafStep

LEMMA RemoveHereKeeps ==
  ASSUME NEW lo, NEW hi, TreeIn(lo, hi), NEW t \in Thread, RemoveHere(t)
  PROVE  TreeIn(lo, hi)'
<1>1. PICK n : n = loc[t].leaf
  OBVIOUS
<1>2. PICK z : z = Removed(node[n], K(t))
  OBVIOUS
<1>3. /\ pc[t] = "locked" /\ K(t) \in Keys(node[n]) /\ node' = [node EXCEPT ![n] = Unlocked(z)]
      /\ loc' = [loc EXCEPT ![t] = NoLocals] /\ pc' = [pc EXCEPT ![t] = "found"] /\ UNCHANGED <<root, req, pre>>
  BY <1>1, <1>2 DEF RemoveHere, Finish, Goto
<1>4. /\ node[n] \in Node /\ Kept(node[n], n, lo[n], hi[n]) /\ pc[t] \in WritePc \ Splitting
  BY <1>1, <1>3, AtWork
<1>5. PICK y : y = node[n]
  OBVIOUS
<1>6. PICK k : k = K(t)
  OBVIOUS
<1>7. y \in Node /\ LeafNode(y) /\ k \in Keys(y) /\ z = Removed(y, k)
  BY <1>2, <1>3, <1>4, <1>5, <1>6 DEF Kept
<1>8. /\ z \in Node /\ LeafNode(z) /\ Refilled(y, z) /\ z.slot = y.slot
      /\ Keys(z) = Keys(y) \ {k}
      /\ z.perm.size = 0 => KeyAt(z, 0) = k
      /\ z.perm.size = y.perm.size - 1 /\ y.perm.size > 0
  BY <1>7, RemovedIs
<1>11. Holds(z, n, lo[n], hi[n])
  BY <1>4, <1>5, <1>7, <1>8 DEF Holds, Kept
<1>12. "found" \in {"found", "missing"}
  OBVIOUS
<1>13. QED
  BY <1>1, <1>3, <1>4, <1>5, <1>8, <1>11, <1>12, LeafStep

-----------------------------------------------------------------------------
(* Locks *)

\* An internode keeps its range if it keeps its children and they theirs.
LEMMA InnerKept ==
  ASSUME NEW lo, NEW hi, NEW lo2, NEW hi2, NEW x, Inner(x), NodeIn(x, lo, hi), x \in NodeId',
         node'[x].kind = node[x].kind, node'[x].ikeys = node[x].ikeys, node'[x].child = node[x].child,
         node'[x].height = node[x].height, lo2[x] = lo[x], hi2[x] = hi[x],
         node'[x].ver.root => node[x].ver.root,
         Dirty(x)' => node'[x].lock # NoThread,
         \A c \in NodeId : node[c].parent = x =>
           /\ c \in NodeId' /\ node'[c].parent = x /\ node'[c].height = node[c].height
           /\ lo2[c] = lo[c] /\ SepHi(c, hi2)' = SepHi(c, hi),
         TopRange(x, lo2, hi2)'
  PROVE  NodeIn(x, lo2, hi2)'
<1>1. InInner(node[x]) /\ InnerRange(x, lo, hi) /\ lo[x] \in Nat /\ hi[x] \in Nat \cup {Inf} /\ Below(lo[x], hi[x])
  BY DEF NodeIn
<1>2. InInner(node'[x])
  BY <1>1 DEF InInner
<1>3. ASSUME NEW j \in DOMAIN node[x].child PROVE ChildRange(x, j, lo2, hi2)'
  <2>1. ChildRange(x, j, lo, hi)
    BY <1>1, <1>3 DEF InnerRange
  <2>2. PICK c : c = node[x].child[j]
    OBVIOUS
  <2>3. c \in NodeId /\ node[c].parent = x
    BY <2>1, <2>2 DEF ChildRange
  <2>4. /\ c \in NodeId' /\ node'[c].parent = x /\ node'[c].height = node[c].height
        /\ lo2[c] = lo[c] /\ SepHi(c, hi2)' = SepHi(c, hi)
    BY <2>3
  <2>5. QED
    BY <2>1, <2>2, <2>4 DEF ChildRange
<1>4. InnerRange(x, lo2, hi2)'
  BY <1>1, <1>3 DEF InnerRange
<1>5. Inner(x)' /\ ~ Leaf(x)'
  BY DEF Inner, Leaf
<1>6. QED
  BY <1>1, <1>2, <1>4, <1>5 DEF NodeIn

\* A leaf keeps its range if it keeps its slots and links.
LEMMA LeafKept ==
  ASSUME NEW lo, NEW hi, NEW lo2, NEW hi2, NEW x, Leaf(x), NodeIn(x, lo, hi), x \in NodeId',
         node'[x].kind = node[x].kind, node'[x].perm = node[x].perm, node'[x].slot = node[x].slot,
         node'[x].height = node[x].height, node'[x].next = node[x].next, node'[x].prev = Nil <=> node[x].prev = Nil,
         lo2[x] = lo[x], hi2[x] = hi[x], ReadHi(x, hi2)' = ReadHi(x, hi),
         ~ node'[x].ver.splitting => ~ node[x].ver.splitting,
         Dirty(x)' => node'[x].lock # NoThread,
         \A y : Leaf(y) => Leaf(y)' /\ lo2[y] = lo[y],
         TopRange(x, lo2, hi2)'
  PROVE  NodeIn(x, lo2, hi2)'
<1>1. InLeaf(node[x]) /\ LeafRange(x, lo, hi) /\ lo[x] \in Nat /\ hi[x] \in Nat \cup {Inf} /\ Below(lo[x], hi[x])
  BY DEF NodeIn
<1>2. \A j : KeyAt(node'[x], j) = KeyAt(node[x], j)
  BY DEF KeyAt
<1>3. InLeaf(node'[x])
  BY <1>1, <1>2 DEF InLeaf
<1>4. PICK y : y = node[x].next /\ y = node'[x].next
  OBVIOUS
<1>5. y # Nil => Leaf(y)' /\ lo2[y] = lo[y]
  BY <1>1, <1>4 DEF LeafRange
<1>6. LeafRange(x, lo2, hi2)'
  BY <1>1, <1>2, <1>4, <1>5 DEF LeafRange
<1>7. Leaf(x)' /\ ~ Inner(x)'
  BY DEF Inner, Leaf
<1>8. QED
  BY <1>1, <1>3, <1>6, <1>7 DEF NodeIn

LEMMA TopKept ==
  ASSUME NEW lo, NEW hi, NEW lo2, NEW hi2, NEW x, TopRange(x, lo, hi), lo2[x] = lo[x],
         node'[x].parent = Nil /\ ~ NewRight(x)' =>
           node[x].parent = Nil /\ ~ NewRight(x) /\ SepHi(x, hi2)' = SepHi(x, hi),
         node'[x].ver.root /\ ~ node'[x].ver.splitting =>
           node[x].ver.root /\ ~ node[x].ver.splitting /\ ReadHi(x, hi2)' = ReadHi(x, hi),
         RootId(x)' => RootId(x)
  PROVE  TopRange(x, lo2, hi2)'
BY DEF TopRange

\* t locks a node that nobody has locked, and nothing else.
Locks(t, n) ==
  /\ \A u \in Thread \ {t} : pc'[u] = pc[u] /\ loc'[u] = loc[u] /\ req'[u] = req[u]
  /\ n \in NodeId /\ node[n].lock = NoThread /\ node' = [node EXCEPT ![n].lock = t]
  /\ \/ pc[t] \notin Splitting /\ pc'[t] \notin Splitting
     \/ pc[t] \in Climbing /\ pc'[t] \in Climbing /\ loc'[t] = loc[t]

LEMMA LockFrame ==
  ASSUME NEW lo, NEW hi, TreeIn(lo, hi), NEW t \in Thread, NEW n, Locks(t, n)
  PROVE  /\ Frame(t, {n}, lo, hi, lo, hi) /\ Parents' /\ node' \in Seq(Node) /\ NodeId' = NodeId
         /\ node'[n] = [node[n] EXCEPT !.lock = t] /\ \A x \in NodeId \ {n} : node'[x] = node[x]
         /\ NodeIn(n, lo, hi)'
<1>0. /\ \A u \in Thread \ {t} : pc'[u] = pc[u] /\ loc'[u] = loc[u] /\ req'[u] = req[u]
      /\ n \in NodeId /\ node[n].lock = NoThread /\ node' = [node EXCEPT ![n].lock = t]
      /\ \/ pc[t] \notin Splitting /\ pc'[t] \notin Splitting
         \/ pc[t] \in Climbing /\ pc'[t] \in Climbing /\ loc'[t] = loc[t]
  BY DEF Locks
<1>1. /\ Types /\ Parents /\ node \in Seq(Node) /\ NodeIn(n, lo, hi) /\ NoThread \notin Thread /\ node[n] \in Node
  BY <1>0, NodeTypes, ThreadAssumption DEF TreeIn, Types
<1>2. PICK u : u = [node[n] EXCEPT !.lock = t]
  OBVIOUS
<1>3. u \in Node /\ SameBody(node[n], u) /\ u.ver = node[n].ver /\ u.parent = node[n].parent /\ u.prev = node[n].prev /\ u.lock = t
  BY <1>1, <1>2 DEF Node, SameBody
<1>4. node' = [node EXCEPT ![n] = u]
  BY <1>0, <1>2
<1>5. node' \in Seq(Node) /\ NodeId' = NodeId /\ node'[n] = u /\ \A x \in NodeId : x # n => node'[x] = node[x]
  BY <1>0, <1>1, <1>3, <1>4 DEF NodeId
<1>6. ASSUME NEW x \in NodeId
      PROVE  /\ SepHi(x, hi)' = SepHi(x, hi) /\ ReadHi(x, hi)' = ReadHi(x, hi)
             /\ NewRight(x)' <=> NewRight(x)
  <2>1. CASE node[x].lock = t
    <3>1. x # n /\ node'[x].lock = t
      BY <1>0, <1>1, <1>5, <2>1
    <3>2. CASE pc[t] \notin Splitting /\ pc'[t] \notin Splitting
      BY <2>1, <3>1, <3>2, IdleView, IdleNext
    <3>3. CASE pc[t] \in Climbing /\ pc'[t] \in Climbing /\ loc'[t] = loc[t]
      BY <2>1, <3>1, <3>3, OwnView, OwnNext DEF Climbing, Splitting
    <3>4. QED
      BY <1>0, <3>2, <3>3
  <2>2. CASE node[x].lock # t /\ x # n
    <3>1. node'[x].lock = node[x].lock
      BY <1>5, <2>2
    <3>2. \A v \in Thread \ {t} : pc'[v] = pc[v] /\ loc'[v] = loc[v]
      BY <1>0
    <3>3. \A y \in NodeId : node[y].lock # t => hi[y] = hi[y]
      OBVIOUS
    <3>4. /\ SepHi(x, hi)' = SepHi(x, hi) /\ ReadHi(x, hi)' = ReadHi(x, hi)
          /\ NewRight(x)' <=> NewRight(x)
      BY ONLY TreeIn(lo, hi), x \in NodeId, <2>2, <3>1, <3>2, <3>3, ViewKept
    <3>5. QED
      BY <3>4
  <2>3. CASE x = n
    <3>1. SepHi(n, hi) = hi[n] /\ ReadHi(n, hi) = hi[n] /\ ~ NewRight(n)
      BY <1>0, <1>1, FreeView
    <3>2. node'[n].lock = t
      BY <1>3, <1>5
    <3>3. CASE pc[t] \notin Splitting /\ pc'[t] \notin Splitting
      BY <2>3, <3>1, <3>2, <3>3, IdleNext
    <3>4. CASE pc[t] \in Climbing /\ pc'[t] \in Climbing /\ loc'[t] = loc[t]
      <4>1. pc[t] \in WritePc /\ pc[t] \in Splitting
        BY <3>4 DEF WritePc, Putting, Splitting
      <4>2. Owns(t, loc[t].n) /\ Owns(t, loc[t].child)
        BY <4>1, Climber
      <4>3. loc[t].n # n /\ loc[t].child # n
        BY <1>0, <1>1, <4>2 DEF Owns
      <4>4. SepHi(n, hi)' = hi[n] /\ ReadHi(n, hi)' = hi[n] /\ ~ NewRight(n)'
        BY <3>2, <3>4, <4>3, OwnNext DEF Climbing
      <4>5. QED
        BY <2>3, <3>1, <4>4
    <3>5. QED
      BY <1>0, <3>3, <3>4
  <2>4. QED
    BY <2>1, <2>2, <2>3
<1>7. Parents'
  <2>1. \A x \in NodeId : node'[x].kind = node[x].kind /\ node'[x].child = node[x].child /\ node'[x].parent = node[x].parent
    BY <1>3, <1>5 DEF SameBody
  <2>2. QED
    BY <1>1, <1>5, <2>1, ParentsKept
<1>8. Told(n, lo, hi, lo, hi)
  <2>1. node[n].ver.vsplit \in Nat /\ node[n].ver.vinsert \in Nat
    BY <1>0, <1>1, NodeTypes
  <2>2. QED
    BY <1>0, <1>3, <1>5, <1>6, <2>1 DEF Told, SameBody, VLeq
<1>9. Frame(t, {n}, lo, hi, lo, hi)
  <2>1. PICK T : T = {n}
    OBVIOUS
  <2>2. T \in SUBSET NodeId /\ NodeId \subseteq NodeId'
    BY <1>0, <1>5, <2>1
  <2>3. \A x \in T : node[x].lock \in {t, NoThread} /\ Told(x, lo, hi, lo, hi)
    BY <1>0, <1>8, <2>1
  <2>4. \A x \in NodeId \ T :
          /\ SameBody(node[x], node'[x]) /\ node'[x].ver = node[x].ver /\ node'[x].lock = node[x].lock
          /\ hi[x] = hi[x]
    BY <1>5, <2>1 DEF SameBody
  <2>5. \A x \in NodeId \ T : node[x].lock = t =>
          /\ ReadHi(x, hi)' = ReadHi(x, hi) /\ (NewRight(x)' <=> NewRight(x))
    BY <1>6
  <2>6. /\ \A x \in NodeId : node'[x].prev = Nil <=> node[x].prev = Nil
        /\ \A x \in NodeId : node'[x].parent = node[x].parent \/
             (node'[x].parent # Nil /\ (node[x].parent \in T \/ (node[x].parent = Nil /\ Owns(t, x))))
    BY <1>3, <1>5
  <2>7. \A x \in NodeId : x \in T \/ node[x].lock = t =>
          SepHi(x, hi)' = SepHi(x, hi) \/
            (Owns(t, x) /\ node[x].parent \in T \cup {Nil} /\ node'[x].parent # Nil)
    BY <1>6
  <2>8. \A x \in NodeId : lo[x] = lo[x] /\ (node[x].lock # t => hi[x] = hi[x])
    OBVIOUS
  <2>11. \A v \in Thread \ {t} : pc'[v] = pc[v] /\ loc'[v] = loc[v] /\ req'[v] = req[v]
    BY <1>0
  <2>9. Frame(t, T, lo, hi, lo, hi)
    BY <2>2, <2>3, <2>4, <2>5, <2>6, <2>7, <2>8, <2>11, MakeFrame
  <2>10. QED
    BY <2>1, <2>9
<1>10. NodeIn(n, lo, hi)'
  <2>1. TopRange(n, lo, hi)'
    <3>1. TopRange(n, lo, hi)
      BY <1>1 DEF NodeIn
    <3>2. RootId(n)' => RootId(n)
      BY <1>0, <1>3, <1>5 DEF RootId, Inner, SameBody
    <3>3. QED
      BY <1>0, <1>3, <1>5, <1>6, <3>1, <3>2, TopKept
  <2>2. Dirty(n)' => node'[n].lock # NoThread
    BY <1>1, <1>3, <1>5
  <2>3. CASE Inner(n)
    <3>1. \A c \in NodeId : node[c].parent = n =>
            /\ c \in NodeId' /\ node'[c].parent = n /\ node'[c].height = node[c].height
            /\ lo[c] = lo[c] /\ SepHi(c, hi)' = SepHi(c, hi)
      BY <1>3, <1>5, <1>6 DEF SameBody
    <3>2. /\ n \in NodeId' /\ node'[n].kind = node[n].kind /\ node'[n].ikeys = node[n].ikeys
          /\ node'[n].child = node[n].child /\ node'[n].height = node[n].height
          /\ node'[n].ver.root => node[n].ver.root
      BY <1>0, <1>3, <1>5 DEF SameBody
    <3>3. QED
      BY <1>1, <2>1, <2>2, <2>3, <3>1, <3>2, InnerKept
  <2>4. CASE Leaf(n)
    <3>1. \A y : Leaf(y) => Leaf(y)' /\ lo[y] = lo[y]
      BY <1>9, KindKept
    <3>2. /\ n \in NodeId' /\ node'[n].kind = node[n].kind /\ node'[n].perm = node[n].perm
          /\ node'[n].slot = node[n].slot /\ node'[n].height = node[n].height /\ node'[n].next = node[n].next
          /\ node'[n].prev = Nil <=> node[n].prev = Nil
          /\ ~ node'[n].ver.splitting => ~ node[n].ver.splitting
      BY <1>0, <1>3, <1>5 DEF SameBody
    <3>3. ReadHi(n, hi)' = ReadHi(n, hi)
      BY <1>0, <1>6
    <3>4. QED
      BY <1>1, <2>1, <2>2, <2>4, <3>1, <3>2, <3>3, LeafKept
  <2>5. QED
    BY <1>0, <1>1, <2>3, <2>4, Kinds
<1>11. QED
  BY <1>2, <1>5, <1>7, <1>9, <1>10

LEMMA LockLeafKeeps ==
  ASSUME NEW lo, NEW hi, TreeIn(lo, hi), NEW t \in Thread, LockLeaf(t)
  PROVE  TreeIn(lo, hi)'
<1>1. PICK x : x = loc[t]
  OBVIOUS
<1>2. PICK n : n = x.n
  OBVIOUS
<1>3. PICK m : m = WriteLocals(n)
  OBVIOUS
<1>4. /\ pc[t] = "leaf" /\ ~ HasChanged(n, x.v) /\ node[n].lock = NoThread /\ node' = [node EXCEPT ![n].lock = t]
      /\ loc' = [loc EXCEPT ![t] = m] /\ pc' = [pc EXCEPT ![t] = "locked"] /\ UNCHANGED <<root, req, pre>>
  BY <1>1, <1>2, <1>3 DEF LockLeaf, Goto
<1>5. Types /\ ThreadIn(t, lo, hi) /\ NoThread \notin Thread
  BY ThreadAssumption DEF TreeIn
<1>6. Reading(t, lo, hi) /\ req[t] # Idle /\ K(t) \in Key
  BY <1>4, <1>5 DEF ThreadIn, ReadPc
<1>7. Leaf(n) /\ Fits(t, n, x.v, lo, hi) /\ n \in NodeId
  BY <1>1, <1>2, <1>4, <1>6 DEF Reading, Leaf
<1>8. ~ Dirty(n) /\ NoSplit(n, x.v) /\ ReadHi(n, hi) = hi[n]
  BY <1>4, <1>5, <1>7, FreeView DEF HasChanged, Fits, Seen, Dirty, NoSplit
<1>9. InRange(t, n, lo, hi)
  BY <1>7, <1>8 DEF Fits, InRange
<1>10. m \in WritingLocals /\ m.leaf = n /\ m.n = n /\ m.height = 0
  <2>1. n \in Nat
    BY <1>5, <1>7, NodeTypes
  <2>2. QED
    BY <1>3, <2>1 DEF WriteLocals, WritingLocals, Nil
<1>11. /\ "locked" \in AllPc /\ "locked" \in WritePc /\ "locked" \notin Splitting \cup ReadPc /\ pc[t] \notin Splitting
       /\ m \in AllLocals
  BY <1>4, <1>10 DEF AllPc, AllLocals, ReadPc, WritePc, Putting, Splitting, Climbing
<1>12. /\ pc'[t] = "locked" /\ loc'[t] = m
       /\ \A v \in Thread \ {t} : pc'[v] = pc[v] /\ loc'[v] = loc[v] /\ req'[v] = req[v]
  <2>1. pc \in [Thread -> AllPc] /\ loc \in [Thread -> AllLocals]
    BY <1>5, RequestsAre
  <2>2. QED
    BY <1>4, <2>1
<1>13. Locks(t, n)
  BY <1>4, <1>7, <1>11, <1>12 DEF Locks
<1>14. /\ Frame(t, {n}, lo, hi, lo, hi) /\ Parents' /\ node' \in Seq(Node) /\ NodeId' = NodeId
       /\ node'[n] = [node[n] EXCEPT !.lock = t] /\ \A y \in NodeId \ {n} : node'[y] = node[y]
       /\ NodeIn(n, lo, hi)'
  BY <1>13, LockFrame
<1>15. NodeId \subseteq NodeId'
  BY <1>14
<1>16. /\ Types' /\ pc'[t] = "locked" /\ loc'[t] = m
       /\ \A v \in Thread \ {t} : pc'[v] = pc[v] /\ loc'[v] = loc[v] /\ req'[v] = req[v]
  BY <1>4, <1>5, <1>11, <1>14, <1>15, Moves
<1>17. node[n] \in Node
  BY <1>5, <1>7, NodeTypes
<1>18. node'[n].lock = t /\ node'[n].kind = node[n].kind /\ node'[n].ver = node[n].ver
  BY <1>14, <1>17 DEF Node
<1>19. Leaf(n)' /\ Owns(t, n)' /\ ~ Dirty(n)' /\ InRange(t, n, lo, hi)'
  BY <1>4, <1>7, <1>8, <1>9, <1>14, <1>18 DEF Leaf, Owns, Dirty, InRange, Ik, K
<1>20. Writing(t, lo, hi)'
  BY <1>10, <1>12, <1>19 DEF Writing, Splitting, Climbing
<1>21. ThreadIn(t, lo, hi)'
  BY <1>4, <1>6, <1>11, <1>12, <1>20 DEF ThreadIn, K
<1>22. PICK T : T = {n}
  OBVIOUS
<1>23. Frame(t, T, lo, hi, lo, hi) /\ \A y \in T : NodeIn(y, lo, hi)'
  BY <1>14, <1>22
<1>24. RootId(root)' /\ NodeId' \ NodeId = {}
  <2>1. RootId(root)
    BY DEF TreeIn
  <2>2. QED
    BY <1>4, <1>14, <2>1, KindKept
<1>25. QED
  BY <1>14, <1>16, <1>21, <1>23, <1>24, Wrap

LEMMA LockParentTakes ==
  ASSUME NEW lo, NEW hi, TreeIn(lo, hi), NEW t \in Thread, LockParent(t), node[loc[t].n].parent = loc[t].p
  PROVE  TreeIn(lo, hi)'
<1>1. PICK x : x = loc[t]
  OBVIOUS
<1>2. PICK p : p = x.p
  OBVIOUS
<1>3. pc[t] = "lock" /\ node[p].lock = NoThread /\ node[x.n].parent = p
  BY <1>1, <1>2 DEF LockParent
<1>4. "lock" \in Climbing /\ "insert" \in Climbing /\ "lock" \in Splitting /\ "insert" \in Splitting
      /\ "lock" \in WritePc /\ "insert" \in WritePc /\ "insert" \in AllPc /\ "insert" \notin ReadPc
  BY DEF AllPc, ReadPc, WritePc, Putting, Splitting, Climbing
<1>5. /\ Types /\ Writing(t, lo, hi) /\ x \in WritingLocals /\ x.mode = "insert" /\ req[t] # Idle /\ K(t) \in Key
      /\ Owns(t, x.leaf) /\ NoThread \notin Thread
  BY <1>1, <1>3, <1>4, Climber, ThreadAssumption
<1>6. /\ node' = [node EXCEPT ![p].lock = t] /\ pc' = [pc EXCEPT ![t] = "insert"]
      /\ UNCHANGED <<root, loc, req, pre>>
  BY <1>1, <1>2, <1>3, <1>5 DEF LockParent, Who, Goto
<1>7. /\ Inner(p) /\ Leaf(x.leaf) /\ Pair(t, x.n, x.child, x.ikey, x.height, lo, hi)
      /\ x.n = x.leaf => Half(t, x.n, x.child, x.ikey, x.split, lo, hi)
      /\ x.n # x.leaf => Inner(x.n) /\ Ready(t, x.leaf, lo, hi)
      /\ node[x.child].parent = Nil
  BY <1>1, <1>2, <1>3, <1>4, <1>5 DEF Writing
<1>8. p \in NodeId /\ ~ Dirty(p)
  BY <1>3, <1>7 DEF Inner, TreeIn, NodeIn
<1>9. pc \in [Thread -> AllPc] /\ loc \in [Thread -> AllLocals]
  BY <1>5, RequestsAre
<1>10. x \in AllLocals /\ loc' = [loc EXCEPT ![t] = x]
  BY <1>1, <1>5, <1>6, <1>9 DEF AllLocals
<1>11. /\ pc'[t] = "insert" /\ loc'[t] = loc[t]
       /\ \A v \in Thread \ {t} : pc'[v] = pc[v] /\ loc'[v] = loc[v] /\ req'[v] = req[v]
  BY <1>6, <1>9
<1>12. Locks(t, p)
  BY <1>3, <1>4, <1>6, <1>8, <1>11 DEF Locks
<1>13. /\ Frame(t, {p}, lo, hi, lo, hi) /\ Parents' /\ node' \in Seq(Node) /\ NodeId' = NodeId
       /\ node'[p] = [node[p] EXCEPT !.lock = t] /\ \A y \in NodeId \ {p} : node'[y] = node[y]
       /\ NodeIn(p, lo, hi)'
  BY <1>12, LockFrame
<1>14. NodeId \subseteq NodeId'
  BY <1>13
<1>15. /\ Types' /\ pc'[t] = "insert" /\ loc'[t] = x
       /\ \A v \in Thread \ {t} : pc'[v] = pc[v] /\ loc'[v] = loc[v] /\ req'[v] = req[v]
  BY <1>4, <1>5, <1>6, <1>10, <1>13, <1>14, Moves
<1>16. node[p] \in Node
  BY <1>5, <1>8, NodeTypes
<1>17. node'[p].lock = t /\ node'[p].kind = node[p].kind /\ node'[p].ver = node[p].ver /\ node'[p].parent = node[p].parent
  BY <1>13, <1>16 DEF Node
<1>18. \A y : Owns(t, y) => y # p /\ Owns(t, y)' /\ node'[y] = node[y]
  BY <1>3, <1>5, <1>13 DEF Owns
<1>19. /\ \A y : (Leaf(y)' <=> Leaf(y)) /\ (Inner(y)' <=> Inner(y))
       /\ Ik(t)' = Ik(t) /\ K(t)' = K(t)
  BY <1>6, <1>8, <1>13, <1>17 DEF Leaf, Inner, Ik, K
<1>20. \A y : Ready(t, y, lo, hi) => Ready(t, y, lo, hi)'
  BY <1>18, <1>19 DEF Ready, InRange
<1>21. Pair(t, x.n, x.child, x.ikey, x.height, lo, hi)'
  BY <1>7, <1>18, <1>19 DEF Pair
<1>22. x.n = x.leaf => Half(t, x.n, x.child, x.ikey, x.split, lo, hi)'
  <2>1. SUFFICES ASSUME Half(t, x.n, x.child, x.ikey, x.split, lo, hi)
                 PROVE  Half(t, x.n, x.child, x.ikey, x.split, lo, hi)'
    BY <1>7
  <2>2. node'[x.n] = node[x.n] /\ node'[x.child] = node[x.child]
    BY <1>7, <1>18 DEF Pair
  <2>3. QED
    BY <1>19, <1>20, <2>1, <2>2 DEF Half, InRange
<1>23. /\ x.n # x.leaf => Inner(x.n)' /\ Ready(t, x.leaf, lo, hi)'
       /\ Leaf(x.leaf)' /\ Owns(t, x.leaf)' /\ node'[x.child].parent = Nil /\ node'[x.n].parent = p
  BY <1>3, <1>5, <1>7, <1>18, <1>19, <1>20 DEF Pair
<1>24. Owns(t, p)' /\ Inner(p)' /\ ~ node'[p].ver.splitting
  BY <1>7, <1>8, <1>13, <1>17, <1>19 DEF Owns, Dirty
<1>25. Writing(t, lo, hi)'
  BY <1>2, <1>5, <1>15, <1>21, <1>22, <1>23, <1>24 DEF Writing, Climbing
<1>26. ThreadIn(t, lo, hi)'
  BY <1>4, <1>5, <1>15, <1>19, <1>25, <1>6 DEF ThreadIn
<1>27. PICK T : T = {p}
  OBVIOUS
<1>28. Frame(t, T, lo, hi, lo, hi) /\ \A y \in T : NodeIn(y, lo, hi)'
  BY <1>13, <1>27
<1>29. RootId(root)' /\ NodeId' \ NodeId = {}
  <2>1. RootId(root)
    BY DEF TreeIn
  <2>2. QED
    BY <1>6, <1>13, <2>1, KindKept
<1>30. QED
  BY <1>13, <1>15, <1>26, <1>28, <1>29, Wrap

LEMMA UnlockTopKeeps ==
  ASSUME NEW lo, NEW hi, TreeIn(lo, hi), NEW t \in Thread, UnlockTop(t)
  PROVE  TreeIn(lo, hi)'
<1>1. PICK x : x = loc[t]
  OBVIOUS
<1>2. PICK p : p = x.p
  OBVIOUS
<1>3. PICK m : m = [x EXCEPT !.p = Nil]
  OBVIOUS
<1>4. /\ pc[t] = "top" /\ node' = [node EXCEPT ![p] = Unlocked(node[p])]
      /\ loc' = [loc EXCEPT ![t] = m] /\ pc' = [pc EXCEPT ![t] = "finish"] /\ UNCHANGED <<root, req, pre>>
  BY <1>1, <1>2, <1>3 DEF UnlockTop, Goto
<1>5. /\ "top" \in WritePc /\ "finish" \in WritePc /\ "finish" \in AllPc /\ "top" \notin Splitting
      /\ "finish" \notin Splitting \cup ReadPc
  BY DEF AllPc, ReadPc, WritePc, Putting, Splitting, Climbing
<1>6. /\ Types /\ Writing(t, lo, hi) /\ x \in WritingLocals /\ req[t] # Idle /\ K(t) \in Key
      /\ Owns(t, x.leaf) /\ Leaf(x.leaf)
  BY <1>1, <1>4, <1>5, Climber
<1>7. Owns(t, p) /\ Inner(p) /\ ~ node[p].ver.splitting /\ Ready(t, x.leaf, lo, hi) /\ p \in NodeId
  BY <1>1, <1>2, <1>4, <1>6 DEF Writing, Inner
<1>8. node[p] \in Node /\ NodeIn(p, lo, hi) /\ NoThread \notin Thread
  BY <1>6, <1>7, NodeTypes, ThreadAssumption DEF TreeIn
<1>9. m \in WritingLocals /\ m \in AllLocals /\ m.leaf = x.leaf
  BY <1>3, <1>6 DEF WritingLocals, AllLocals, Nil
<1>10. /\ pc'[t] = "finish" /\ \A v \in Thread \ {t} : pc'[v] = pc[v] /\ loc'[v] = loc[v] /\ req'[v] = req[v]
  <2>1. pc \in [Thread -> AllPc] /\ loc \in [Thread -> AllLocals]
    BY <1>6, RequestsAre
  <2>2. QED
    BY <1>4, <2>1
<1>11. Refilled(node[p], node[p])
  BY <1>8, SameRefill
<1>12. Unlocks(t, p, node[p])
  BY <1>4, <1>5, <1>7, <1>10, <1>11 DEF Unlocks
<1>13. /\ Frame(t, {p}, lo, hi, lo, hi) /\ Parents' /\ node' \in Seq(Node) /\ NodeId' = NodeId
       /\ node'[p] = Unlocked(node[p])
       /\ \A y \in NodeId : SepHi(y, hi)' = SepHi(y, hi)
  BY <1>8, <1>12, UnlockFrame
<1>14. \A y \in NodeId \ {p} : node'[y] = node[y]
  BY <1>4, <1>6 DEF Types, NodeId
<1>15. PICK z : z = node'[p]
  OBVIOUS
<1>16. /\ SameBody(node[p], z) /\ z.parent = node[p].parent /\ z.lock = NoThread
       /\ ~ z.ver.inserting /\ ~ z.ver.splitting /\ z.ver.root = node[p].ver.root
  BY <1>7, <1>8, <1>13, <1>15, UnlockedIs
<1>17. NodeId \subseteq NodeId'
  BY <1>13
<1>18. /\ Types' /\ pc'[t] = "finish" /\ loc'[t] = m
       /\ \A v \in Thread \ {t} : pc'[v] = pc[v] /\ loc'[v] = loc[v] /\ req'[v] = req[v]
  BY <1>4, <1>5, <1>6, <1>9, <1>13, <1>17, Moves
<1>19. p # x.leaf
  BY <1>6, <1>7 DEF Leaf, Inner
<1>20. Leaf(x.leaf)' /\ Owns(t, x.leaf)' /\ Ready(t, x.leaf, lo, hi)'
  BY <1>4, <1>6, <1>7, <1>13, <1>14, <1>19 DEF Leaf, Owns, Ready, InRange, Ik, K
<1>21. Writing(t, lo, hi)'
  BY <1>9, <1>18, <1>20 DEF Writing, Splitting, Climbing
<1>22. ThreadIn(t, lo, hi)'
  BY <1>4, <1>5, <1>6, <1>18, <1>21 DEF ThreadIn, K
<1>23. NodeIn(p, lo, hi)'
  <2>1. /\ ReadHi(p, hi) = hi[p] /\ ~ NewRight(p)
    BY <1>4, <1>5, <1>7, IdleView DEF Owns
  <2>2. ReadHi(p, hi)' = hi[p] /\ ~ NewRight(p)'
    BY <1>8, <1>15, <1>16, FreeNext
  <2>3. /\ p \in NodeId' /\ node'[p].kind = node[p].kind /\ node'[p].ikeys = node[p].ikeys
        /\ node'[p].child = node[p].child /\ node'[p].height = node[p].height
        /\ node'[p].ver.root => node[p].ver.root
        /\ Dirty(p)' => node'[p].lock # NoThread
    BY <1>7, <1>13, <1>15, <1>16 DEF SameBody, Dirty
  <2>4. TopRange(p, lo, hi)'
    <3>1. TopRange(p, lo, hi)
      BY <1>8 DEF NodeIn
    <3>2. RootId(p)' => RootId(p)
      BY <1>7 DEF RootId
    <3>3. QED
      BY <1>7, <1>13, <1>15, <1>16, <2>1, <2>2, <3>1, <3>2, TopKept
  <2>5. \A c \in NodeId : node[c].parent = p =>
          /\ c \in NodeId' /\ node'[c].parent = p /\ node'[c].height = node[c].height
          /\ lo[c] = lo[c] /\ SepHi(c, hi)' = SepHi(c, hi)
    BY <1>13, <1>14, <1>15, <1>16 DEF SameBody
  <2>6. QED
    BY <1>7, <1>8, <2>3, <2>4, <2>5, InnerKept
<1>24. PICK T : T = {p}
  OBVIOUS
<1>25. Frame(t, T, lo, hi, lo, hi) /\ \A y \in T : NodeIn(y, lo, hi)'
  BY <1>13, <1>23, <1>24
<1>26. RootId(root)' /\ NodeId' \ NodeId = {}
  <2>1. RootId(root)
    BY DEF TreeIn
  <2>2. QED
    BY <1>4, <1>13, <2>1, KindKept
<1>27. QED
  BY <1>13, <1>18, <1>22, <1>25, <1>26, Wrap

-----------------------------------------------------------------------------
(* Splits *)

LEMMA ParentIs ==
  ASSUME NEW lo, NEW hi, TreeIn(lo, hi), NEW y \in NodeId, NEW p, p = node[y].parent, p # Nil
  PROVE  /\ Inner(p) /\ p \in NodeId /\ p # y /\ node[p].height = node[y].height + 1
         /\ \E j \in DOMAIN node[p].child : node[p].child[j] = y /\ ChildRange(p, j, lo, hi)
<1>1. Types /\ Parents
  BY DEF TreeIn
<1>2. HasChild(p, y)
  BY <1>1 DEF Parents
<1>3. PICK j \in DOMAIN node[p].child : node[p].child[j] = y /\ Inner(p)
  BY <1>2 DEF HasChild
<1>4. p \in NodeId /\ NodeIn(p, lo, hi)
  BY <1>3 DEF Inner, TreeIn
<1>5. ChildRange(p, j, lo, hi)
  BY <1>3, <1>4 DEF NodeIn, InnerRange
<1>6. node[p].height = node[y].height + 1
  BY <1>3, <1>5 DEF ChildRange
<1>7. node[y].height \in Nat
  BY <1>1, NodeTypes
<1>8. QED
  BY <1>3, <1>4, <1>5, <1>6, <1>7

\* Node y, which t keeps, but for the links from it to other nodes.
Same(y, lo, hi, lo2, hi2) ==
  /\ SameBody(node[y], node'[y]) /\ node'[y].ver = node[y].ver /\ node'[y].lock = node[y].lock
  /\ lo2[y] = lo[y] /\ hi2[y] = hi[y]

LEMMA PairCarried ==
  ASSUME NEW lo, NEW hi, NEW lo2, NEW hi2, NodeId \subseteq NodeId',
         NEW t, NEW n, NEW c, NEW i, NEW h, Pair(t, n, c, i, h, lo, hi),
         Same(n, lo, hi, lo2, hi2), Same(c, lo, hi, lo2, hi2)
  PROVE  Pair(t, n, c, i, h, lo2, hi2)'
BY DEF Pair, Same, SameBody, Owns, Inner

LEMMA ReadyCarried ==
  ASSUME NEW lo, NEW hi, NEW lo2, NEW hi2, NodeId \subseteq NodeId',
         NEW t, req'[t] = req[t], NEW x, Ready(t, x, lo, hi), Same(x, lo, hi, lo2, hi2)
  PROVE  Ready(t, x, lo2, hi2)'
<1>1. Ik(t)' = Ik(t) /\ K(t)' = K(t)
  BY DEF Ik, K
<1>2. node'[x].perm = node[x].perm /\ Keys(node'[x]) = Keys(node[x])
  BY DEF Same, SameBody, Keys
<1>3. QED
  BY <1>1, <1>2 DEF Ready, Same, SameBody, Owns, Leaf, InRange

LEMMA HalfCarried ==
  ASSUME NEW lo, NEW hi, NEW lo2, NEW hi2, NodeId \subseteq NodeId',
         NEW t, req'[t] = req[t], NEW n, NEW c, NEW i, NEW split, Half(t, n, c, i, split, lo, hi),
         Same(n, lo, hi, lo2, hi2), Same(c, lo, hi, lo2, hi2)
  PROVE  Half(t, n, c, i, split, lo2, hi2)'
<1>1. Ik(t)' = Ik(t) /\ K(t)' = K(t)
  BY DEF Ik, K
<1>2. /\ node'[n].perm = node[n].perm /\ node'[n].slot = node[n].slot /\ node'[c].perm = node[c].perm
      /\ Keys(node'[n]) = Keys(node[n]) /\ Keys(node'[c]) = Keys(node[c])
      /\ node'[n].ver = node[n].ver /\ node'[c].kind = node[c].kind
      /\ \A j : KeyAt(node'[n], j) = KeyAt(node[n], j)
  BY DEF Same, SameBody, Keys, KeyAt
<1>3. Leaf(c) => Leaf(c)'
  BY <1>2 DEF Leaf
<1>4. split # 0 => Ready(t, c, lo2, hi2)'
  <2>1. split # 0 => Ready(t, c, lo, hi)
    BY DEF Half
  <2>2. QED
    BY <2>1, ReadyCarried
<1>5. split = 0 => InRange(t, n, lo2, hi2)'
  BY <1>1 DEF Half, InRange, Same
<1> DEFINE left == node[n].perm.size - node[c].perm.size
           right == {KeyAt(node[n], j) : j \in left .. node[n].perm.size - 1}
<1>6. /\ left \in 0 .. node[n].perm.size
      /\ \A j \in 0 .. left - 1 : IkeyOf[KeyAt(node[n], j)] < i
      /\ Keys(node[c]) = right
      /\ ~ node[n].ver.splitting /\ Leaf(c)
      /\ split = 0 => left < node[n].perm.size /\ K(t) \notin Keys(node[n])
      /\ split # 0 => left > 0
  BY DEF Half
<1>7. node'[n].perm.size - node'[c].perm.size = left
  BY <1>2
<1>8. {KeyAt(node'[n], j) : j \in left .. node'[n].perm.size - 1} = right
  BY <1>2
<1> HIDE DEF left, right
<1>9. /\ left \in 0 .. node'[n].perm.size
      /\ \A j \in 0 .. left - 1 : IkeyOf[KeyAt(node'[n], j)] < i
      /\ Keys(node'[c]) = right
      /\ ~ node'[n].ver.splitting /\ Leaf(c)'
      /\ split = 0 => left < node'[n].perm.size /\ K(t)' \notin Keys(node'[n])
  BY <1>1, <1>2, <1>3, <1>6
<1>10. QED
  BY <1>4, <1>5, <1>6, <1>7, <1>8, <1>9 DEF Half

\* What t sees of the tree while it puts node c above n, and how that changes
\* when c gets a parent; nx is the right node of p if p splits.
LEMMA InsertView ==
  ASSUME NEW lo, NEW hi, NEW hi2, TreeIn(lo, hi), NEW t \in Thread, pc[t] = "insert", pc'[t] = "strip",
         NEW n, NEW c, NEW p, NEW nx, n = loc[t].n, c = loc[t].child, p = loc[t].p,
         loc'[t].n = n, loc'[t].child = c, loc'[t].p = p, loc'[t].next = nx, loc'[t].leaf = loc[t].leaf,
         \A u \in Thread \ {t} : pc'[u] = pc[u] /\ loc'[u] = loc[u],
         \A y \in NodeId : node'[y].lock = node[y].lock,
         \A y \in NodeId : hi2[y] = hi[y] \/ (nx # Nil /\ y = p),
         nx # Nil => nx \notin NodeId /\ hi2[nx] = hi[p] /\ p # Nil
  PROVE  /\ \A y \in NodeId \ {n} : SepHi(y, hi2)' = SepHi(y, hi)
         /\ SepHi(n, hi) = hi[c] /\ SepHi(n, hi2)' = hi[n] /\ SepHi(c, hi) = hi[c]
         /\ \A y \in NodeId : y # p \/ nx = Nil => ReadHi(y, hi2)' = ReadHi(y, hi)
         /\ \A y \in NodeId \ {c} : NewRight(y)' <=> NewRight(y)
         /\ ~ NewRight(n)
         /\ p # Nil => SepHi(p, hi) = hi[p] /\ ReadHi(p, hi) = hi[p] /\ ~ NewRight(p)
         /\ n \in NodeId /\ c \in NodeId /\ n # c /\ p # n /\ p # c
         /\ p # Nil => Owns(t, p) /\ Inner(p) /\ p \in NodeId /\ ~ node[p].ver.splitting
<1>1. /\ "insert" \in Climbing /\ "insert" \in Splitting /\ "insert" \in WritePc
      /\ "strip" \notin Climbing /\ "strip" \in Splitting
  BY DEF WritePc, Putting, Splitting, Climbing
<1>2. /\ Types /\ Writing(t, lo, hi) /\ n \in NodeId /\ c \in NodeId /\ Owns(t, n) /\ Owns(t, c)
      /\ n # Nil /\ c # Nil
  BY <1>1, Climber
<1>3. PICK f : f = loc[t].leaf
  OBVIOUS
<1>4. /\ Leaf(f) /\ Pair(t, n, c, loc[t].ikey, loc[t].height, lo, hi) /\ node[c].parent = Nil /\ node[n].parent = p
      /\ p # Nil => Owns(t, p) /\ Inner(p) /\ ~ node[p].ver.splitting
  BY <1>1, <1>2, <1>3 DEF Writing
<1>5. n # c
  BY <1>4 DEF Pair
<1>6. p # Nil => p # n /\ p # c /\ p \in NodeId
  <2>1. SUFFICES ASSUME p # Nil PROVE p # n /\ p # c /\ p \in NodeId
    OBVIOUS
  <2>2. p \in NodeId /\ p # n /\ node[p].height = node[n].height + 1
    BY <1>2, <1>4, <2>1, ParentIs
  <2>3. node[c].height = node[n].height /\ node[n].height \in Nat
    BY <1>2, <1>4, NodeTypes DEF Pair
  <2>4. QED
    BY <2>2, <2>3
<1>7. p # n /\ p # c
  BY <1>2, <1>6
<1>8. p # Nil => p # f
  BY <1>4 DEF Leaf, Inner
<1>9. hi2[n] = hi[n] /\ hi2[c] = hi[c] /\ \A y \in NodeId : y # p \/ nx = Nil => hi2[y] = hi[y]
  BY <1>2, <1>7
<1>10. ASSUME NEW y \in NodeId, node[y].lock = t
       PROVE  /\ y # n => SepHi(y, hi) = hi[y]
              /\ y = n => SepHi(y, hi) = hi[c]
              /\ SepHi(y, hi2)' = IF nx # Nil /\ p = y THEN hi2[nx] ELSE hi2[y]
              /\ ReadHi(y, hi) = IF n = y /\ f = y THEN hi[c] ELSE hi[y]
              /\ ReadHi(y, hi2)' = IF n = y /\ f = y THEN hi2[c] ELSE hi2[y]
              /\ NewRight(y) <=> c = y
              /\ NewRight(y)' <=> nx = y
  <2>1. node'[y].lock = t
    BY <1>10
  <2>2. /\ SepHi(y, hi) = IF pc[t] \in Climbing /\ loc[t].n = y THEN hi[loc[t].child]
                          ELSE IF pc[t] = "strip" /\ loc[t].next # Nil /\ loc[t].p = y THEN hi[loc[t].next]
                          ELSE hi[y]
        /\ ReadHi(y, hi) = IF pc[t] \in Splitting /\ loc[t].n = y /\ loc[t].leaf = y THEN hi[loc[t].child]
                           ELSE hi[y]
        /\ NewRight(y) <=> \/ pc[t] \in Climbing /\ loc[t].child = y
                           \/ pc[t] = "strip" /\ loc[t].next = y
    BY <1>10, OwnView
  <2>3. /\ SepHi(y, hi2)' = IF pc'[t] \in Climbing /\ loc'[t].n = y THEN hi2[loc'[t].child]
                            ELSE IF pc'[t] = "strip" /\ loc'[t].next # Nil /\ loc'[t].p = y THEN hi2[loc'[t].next]
                            ELSE hi2[y]
        /\ ReadHi(y, hi2)' = IF pc'[t] \in Splitting /\ loc'[t].n = y /\ loc'[t].leaf = y THEN hi2[loc'[t].child]
                             ELSE hi2[y]
        /\ NewRight(y)' <=> \/ pc'[t] \in Climbing /\ loc'[t].child = y
                            \/ pc'[t] = "strip" /\ loc'[t].next = y
    BY <2>1, OwnNext
  <2>4. QED
    BY <1>1, <1>3, <2>2, <2>3
<1>11. ASSUME NEW y \in NodeId, node[y].lock # t
       PROVE  /\ SepHi(y, hi2)' = SepHi(y, hi) /\ ReadHi(y, hi2)' = ReadHi(y, hi)
              /\ NewRight(y)' <=> NewRight(y)
  <2>1. node'[y].lock = node[y].lock
    OBVIOUS
  <2>2. \A v \in Thread \ {t} : pc'[v] = pc[v] /\ loc'[v] = loc[v]
    OBVIOUS
  <2>3. \A z \in NodeId : node[z].lock # t => hi2[z] = hi[z]
    BY <1>4, <1>9 DEF Owns
  <2>4. QED
    BY ONLY TreeIn(lo, hi), <1>11, <2>1, <2>2, <2>3, ViewKept
<1>12. \A y \in NodeId \ {n} : SepHi(y, hi2)' = SepHi(y, hi)
  <2>1. SUFFICES ASSUME NEW y \in NodeId \ {n}, node[y].lock = t PROVE SepHi(y, hi2)' = SepHi(y, hi)
    BY <1>11
  <2>2. QED
    BY <1>9, <1>10, <2>1
<1>13. \A y \in NodeId : y # p \/ nx = Nil => ReadHi(y, hi2)' = ReadHi(y, hi)
  <2>1. SUFFICES ASSUME NEW y \in NodeId, y # p \/ nx = Nil, node[y].lock = t PROVE ReadHi(y, hi2)' = ReadHi(y, hi)
    BY <1>11
  <2>2. hi2[y] = hi[y]
    BY <1>9, <2>1
  <2>3. QED
    BY <1>9, <1>10, <2>1, <2>2
<1>14. \A y \in NodeId \ {c} : NewRight(y)' <=> NewRight(y)
  <2>1. SUFFICES ASSUME NEW y \in NodeId \ {c}, node[y].lock = t PROVE NewRight(y)' <=> NewRight(y)
    BY <1>11
  <2>2. y # nx
    BY <1>2, <2>1, NodeTypes DEF Nil
  <2>3. QED
    BY <1>10, <2>1, <2>2
<1>15. SepHi(n, hi) = hi[c] /\ SepHi(n, hi2)' = hi[n] /\ SepHi(c, hi) = hi[c] /\ ~ NewRight(n)
  <2>1. node[n].lock = t /\ node[c].lock = t
    BY <1>2 DEF Owns
  <2>2. QED
    BY <1>2, <1>5, <1>7, <1>9, <1>10, <2>1
<1>16. p # Nil => SepHi(p, hi) = hi[p] /\ ReadHi(p, hi) = hi[p] /\ ~ NewRight(p)
  <2>1. p # Nil => node[p].lock = t /\ p \in NodeId
    BY <1>4, <1>6 DEF Owns
  <2>2. QED
    BY <1>7, <1>8, <1>10, <2>1
<1>17. QED
  BY <1>2, <1>4, <1>5, <1>6, <1>7, <1>12, <1>13, <1>14, <1>15, <1>16

-----------------------------------------------------------------------------
(* Internodes: what a new child and a cut leave of the order *)

\* An internode with n ikeys for the slices from l up to h: each child begins at
\* one ikey and is led to up to the next.
Row(ks, cs, n, l, h, lo, sep) ==
  /\ n \in Nat /\ l \in Nat /\ h \in Nat \cup {Inf}
  /\ \A m \in 1 .. n : ks[m] \in Nat /\ l < ks[m] /\ Below(ks[m], h)
  /\ \A a, b \in 1 .. n : a < b => ks[a] < ks[b]
  /\ \A m \in 1 .. n + 1 :
       /\ m = 1 => lo[cs[m]] = l
       /\ m # 1 => lo[cs[m]] = ks[m - 1]
       /\ m = n + 1 => sep[cs[m]] = h
       /\ m # n + 1 => sep[cs[m]] = ks[m]

IsSubSeq(s, m, n, r) == r = SubSeq(s, m, n)

\* r is what s has from m to n.
Cut(s, m, n, r) == \A j \in 1 .. n + 1 - m : r[j] = s[m + j - 1]

\* r is s with e before place i.
Grown(s, n, i, e, r) ==
  \A j \in 1 .. n + 1 : /\ j < i => r[j] = s[j]
                        /\ j = i => r[j] = e
                        /\ j > i => r[j] = s[j - 1]

LEMMA CutIs ==
  ASSUME NEW s \in Seq(Nat), NEW m \in Nat, NEW n \in Nat, 1 <= m, m <= n + 1, n <= Len(s), NEW r, IsSubSeq(s, m, n, r)
  PROVE  /\ r \in Seq(Nat) /\ Len(r) = n + 1 - m /\ DOMAIN r = 1 .. n + 1 - m
         /\ Cut(s, m, n, r)
<1>1. \A j \in m .. n : s[j] \in Nat
  BY LenProperties, ElementOfSeq
<1>2. /\ r \in Seq(Nat) /\ Len(r) = (IF m <= n THEN n - m + 1 ELSE 0)
      /\ \A j \in 1 .. n - m + 1 : r[j] = s[m + j - 1]
  BY <1>1, SubSeqProperties DEF IsSubSeq
<1>3. m \in Nat /\ n \in Nat /\ m <= n + 1
  OBVIOUS
<1>4. Len(r) = n + 1 - m
  BY ONLY <1>2, <1>3
<1>5. DOMAIN r = 1 .. Len(r)
  BY ONLY <1>2, LenProperties
<1>6. Cut(s, m, n, r)
  BY ONLY <1>2, <1>3 DEF Cut
<1>7. QED
  BY ONLY <1>2, <1>4, <1>5, <1>6

Inserts(s, n, i, e, r) ==
  s \in Seq(Nat) /\ n = Len(s) /\ i \in 1 .. n + 1 /\ e \in Nat /\ r = SX!InsertAt(s, i, e)

LEMMA InsertAtIs ==
  ASSUME NEW s, NEW n, NEW i, NEW e, NEW r, Inserts(s, n, i, e, r)
  PROVE  /\ r \in Seq(Nat) /\ Len(r) = n + 1 /\ DOMAIN r = 1 .. n + 1 /\ Grown(s, n, i, e, r)
<1>1. s \in Seq(Nat) /\ n = Len(s) /\ r = SX!InsertAt(s, i, e) /\ i \in 1 .. n + 1 /\ e \in Nat
  BY DEF Inserts
<1>2. n \in Nat /\ i - 1 \in Nat /\ i \in Nat /\ 1 <= i /\ i <= n + 1 /\ i - 1 <= n /\ 1 \in Nat /\ e \in Nat
  BY ONLY <1>1, LenProperties
<1>3. PICK a : a = SubSeq(s, 1, i - 1)
  OBVIOUS
<1>4. PICK b : b = SubSeq(s, i, n)
  OBVIOUS
<1>5. r = (a \o <<e>>) \o b
  BY ONLY <1>3, <1>4, <1>1 DEF SX!InsertAt
<1>6. a \in Seq(Nat) /\ Len(a) = i - 1 /\ Cut(s, 1, i - 1, a)
  <2>1. 1 <= (i - 1) + 1 /\ i - 1 <= Len(s) /\ Len(a) = (i - 1) + 1 - 1 => Len(a) = i - 1
    BY ONLY <1>2, <1>1
  <2>2. a \in Seq(Nat) /\ Len(a) = (i - 1) + 1 - 1 /\ Cut(s, 1, i - 1, a)
    <3>1. PICK m \in Nat : m = i - 1 /\ 1 <= m + 1 /\ m <= Len(s)
      BY ONLY <1>2, <1>1
    <3>2. PICK one \in Nat : one = 1 /\ 1 <= one /\ one <= m + 1
      BY ONLY <3>1
    <3>3. IsSubSeq(s, one, m, a)
      BY ONLY <1>3, <3>1, <3>2 DEF IsSubSeq
    <3>4. a \in Seq(Nat) /\ Len(a) = m + 1 - one /\ Cut(s, one, m, a)
      BY ONLY <1>1, m \in Nat, one \in Nat, <3>1, <3>2, <3>3, CutIs
    <3>5. QED
      BY ONLY <3>1, <3>2, <3>4
  <2>3. QED
    BY ONLY <1>2, <2>2
<1>7. b \in Seq(Nat) /\ Len(b) = n + 1 - i /\ Cut(s, i, n, b)
  <2>1. n <= Len(s) /\ n \in Nat /\ i \in Nat /\ 1 <= i /\ i <= n + 1
    BY ONLY <1>2, <1>1
  <2>2. IsSubSeq(s, i, n, b)
    BY ONLY <1>4 DEF IsSubSeq
  <2>3. QED
    BY ONLY <1>1, <2>1, <2>2, CutIs
<1>8. PICK ae : ae = a \o <<e>>
  OBVIOUS
<1>9. ae = Append(a, e)
  BY ONLY <1>2, <1>6, <1>8, AppendIsConcat
<1>10. ae \in Seq(Nat) /\ Len(ae) = Len(a) + 1 /\ ae[Len(a) + 1] = e /\ \A j \in 1 .. Len(a) : ae[j] = a[j]
  BY ONLY <1>2, <1>6, <1>9, AppendProperties
<1>11. /\ ae[i] = e /\ Len(ae) = i
       /\ \A j \in 1 .. i - 1 : ae[j] = s[j]
  BY ONLY <1>2, <1>6, <1>10 DEF Cut
<1>12. r = ae \o b
  BY ONLY <1>5, <1>8
<1>13. /\ r \in Seq(Nat) /\ Len(r) = Len(ae) + Len(b)
       /\ \A j \in 1 .. Len(ae) + Len(b) : r[j] = IF j <= Len(ae) THEN ae[j] ELSE b[j - Len(ae)]
  BY ONLY <1>7, <1>10, <1>12, ConcatProperties
<1>14. Len(r) = n + 1 /\ \A j \in 1 .. n + 1 : r[j] = IF j <= i THEN ae[j] ELSE b[j - i]
  BY ONLY <1>2, <1>7, <1>11, <1>13
<1>15. DOMAIN r = 1 .. n + 1
  BY ONLY <1>13, <1>14, LenProperties
<1>16. ASSUME NEW j \in 1 .. n + 1, j > i PROVE r[j] = s[j - 1]
  <2>1. j - i \in 1 .. n + 1 - i /\ i + (j - i) - 1 = j - 1 /\ ~ (j <= i)
    BY ONLY <1>2, <1>16
  <2>2. r[j] = b[j - i] /\ b[j - i] = s[i + (j - i) - 1]
    BY ONLY <1>7, <1>14, <1>16, <2>1 DEF Cut
  <2>3. QED
    BY ONLY <2>1, <2>2
<1>17. ASSUME NEW j \in 1 .. n + 1, j <= i PROVE (j < i => r[j] = s[j]) /\ (j = i => r[j] = e)
  BY ONLY <1>2, <1>11, <1>14, <1>17
<1>18. Grown(s, n, i, e, r)
  BY ONLY <1>2, <1>16, <1>17 DEF Grown
<1>19. QED
  BY ONLY <1>13, <1>14, <1>15, <1>18

\* No two children begin at the same slice.
LEMMA ChildrenDiffer ==
  ASSUME NEW ks, NEW cs, NEW n, NEW l, NEW h, NEW lo, NEW sep, Row(ks, cs, n, l, h, lo, sep)
  PROVE  \A a, b \in 1 .. n + 1 : cs[a] = cs[b] => a = b
<1>1. n \in Nat
  BY DEF Row
<1>2. SUFFICES ASSUME NEW a \in 1 .. n + 1, NEW b \in 1 .. n + 1, cs[a] = cs[b], a < b PROVE FALSE
  BY <1>1
<1>3. b - 1 \in 1 .. n /\ lo[cs[b]] = ks[b - 1] /\ ks[b - 1] \in Nat
  BY <1>1, <1>2 DEF Row
<1>4. CASE a = 1
  BY <1>1, <1>2, <1>3, <1>4 DEF Row
<1>5. CASE a # 1
  <2>1. a - 1 \in 1 .. n /\ a - 1 < b - 1
    BY <1>1, <1>2, <1>5
  <2>2. ks[a - 1] < ks[b - 1] /\ ks[a - 1] \in Nat /\ lo[cs[a]] = ks[a - 1]
    BY <1>1, <1>2, <1>3, <1>5, <2>1 DEF Row
  <2>3. QED
    BY <1>2, <1>3, <2>2
<1>6. QED
  BY <1>4, <1>5

\* Every part of an internode is one, for the slices between its ends.
LEMMA PartLeads ==
  ASSUME NEW ks, NEW cs, NEW n, NEW l, NEW h, NEW lo, NEW sep, Row(ks, cs, n, l, h, lo, sep),
         NEW a \in 1 .. n + 1, NEW b \in Nat, a - 1 <= b, b <= n,
         NEW l2, a = 1 => l2 = l, a # 1 => l2 = ks[a - 1],
         NEW h2, b = n => h2 = h, b # n => h2 = ks[b + 1],
         NEW ks2, Cut(ks, a, b, ks2), NEW cs2, Cut(cs, a, b + 1, cs2)
  PROVE  Row(ks2, cs2, b + 1 - a, l2, h2, lo, sep)
<1>1. /\ n \in Nat /\ a \in Nat /\ b \in Nat /\ 1 <= a /\ a <= n + 1 /\ b + 1 - a \in Nat /\ l \in Nat /\ l2 \in Nat
  BY DEF Row
<1>2. /\ \A m \in 1 .. b + 1 - a : ks2[m] = ks[a + m - 1]
      /\ \A m \in 1 .. b + 2 - a : cs2[m] = cs[a + m - 1]
  BY <1>1 DEF Cut
<1>3. ASSUME NEW m \in 1 .. b + 1 - a PROVE ks2[m] \in Nat /\ l2 < ks2[m] /\ Below(ks2[m], h2)
  <2>1. PICK g \in 1 .. n : g = a + m - 1 /\ ks2[m] = ks[g] /\ a <= g /\ g <= b
    BY <1>1, <1>2
  <2>2. l2 < ks[g] /\ ks[g] \in Nat
    BY <1>1, <2>1 DEF Row
  <2>3. Below(ks[g], h2)
    <3>1. CASE b = n
      BY <2>1, <3>1 DEF Row
    <3>2. CASE b # n
      <4>1. b + 1 \in 1 .. n /\ g < b + 1
        BY <1>1, <2>1, <3>2
      <4>2. ks[g] < ks[b + 1]
        BY <2>1, <4>1 DEF Row
      <4>3. QED
        BY <3>2, <4>2 DEF Below
    <3>3. QED
      BY <3>1, <3>2
  <2>4. QED
    BY <2>1, <2>2, <2>3
<1>4. ASSUME NEW x \in 1 .. b + 1 - a, NEW y \in 1 .. b + 1 - a, x < y PROVE ks2[x] < ks2[y]
  <2>1. PICK f \in 1 .. n : f = a + x - 1 /\ ks2[x] = ks[f]
    BY <1>1, <1>2
  <2>2. PICK g \in 1 .. n : g = a + y - 1 /\ ks2[y] = ks[g]
    BY <1>1, <1>2
  <2>3. f < g
    BY <1>1, <1>4, <2>1, <2>2
  <2>4. QED
    BY <2>1, <2>2, <2>3 DEF Row
<1>5. ASSUME NEW m \in 1 .. b + 2 - a
      PROVE  /\ m = 1 => lo[cs2[m]] = l2
             /\ m # 1 => lo[cs2[m]] = ks2[m - 1]
             /\ m = b + 2 - a => sep[cs2[m]] = h2
             /\ m # b + 2 - a => sep[cs2[m]] = ks2[m]
  <2>1. PICK g \in 1 .. n + 1 : g = a + m - 1 /\ cs2[m] = cs[g] /\ a <= g /\ g <= b + 1
    BY <1>1, <1>2
  <2>2. m # 1 => ks2[m - 1] = ks[g - 1] /\ g # 1
    <3>1. m # 1 => m - 1 \in 1 .. b + 1 - a /\ a + (m - 1) - 1 = g - 1
      BY <1>1, <2>1
    <3>2. QED
      BY <1>1, <1>2, <2>1, <3>1
  <2>3. m # b + 2 - a => m \in 1 .. b + 1 - a /\ ks2[m] = ks[g] /\ g # n + 1
    BY <1>1, <1>2, <2>1
  <2>4. m = 1 => g = a
    BY <1>1, <2>1
  <2>5. m = b + 2 - a => g = b + 1
    BY <1>1, <2>1
  <2>6. /\ g = 1 => lo[cs[g]] = l
        /\ g # 1 => lo[cs[g]] = ks[g - 1]
        /\ g = n + 1 => sep[cs[g]] = h
        /\ g # n + 1 => sep[cs[g]] = ks[g]
    BY <2>1 DEF Row
  <2>7. (m = 1 => lo[cs2[m]] = l2) /\ (m # 1 => lo[cs2[m]] = ks2[m - 1])
    BY <2>1, <2>2, <2>4, <2>6
  <2>8. m # b + 2 - a => sep[cs2[m]] = ks2[m]
    BY <2>1, <2>3, <2>6
  <2>9. m = b + 2 - a => sep[cs2[m]] = h2
    BY <1>1, <2>1, <2>5, <2>6
  <2>10. QED
    BY <2>7, <2>8, <2>9
<1>6. (b + 1 - a) + 1 = b + 2 - a
  BY <1>1
<1>7. h2 \in Nat \cup {Inf}
  <2>1. CASE b = n
    BY <2>1 DEF Row
  <2>2. CASE b # n
    <3>1. b + 1 \in 1 .. n
      BY <1>1, <2>2
    <3>2. QED
      BY <2>2, <3>1 DEF Row
  <2>3. QED
    BY <2>1, <2>2
<1>8. QED
  BY <1>1, <1>3, <1>4, <1>5, <1>6, <1>7 DEF Row

\* A child is cut in two at slice i: c, which begins there, comes after it.
Divided(ks, cs, n, j, i, c, lo, sep, sep2, ks2, cs2) ==
  /\ j \in 1 .. n + 1 /\ i \in Nat /\ lo[cs[j]] < i /\ Below(i, sep[cs[j]])
  /\ lo[c] = i /\ \A m \in 1 .. n + 1 : cs[m] # c
  /\ sep2[c] = sep[cs[j]] /\ sep2[cs[j]] = i
  /\ \A m \in 1 .. n + 1 : m # j => sep2[cs[m]] = sep[cs[m]]
  /\ Grown(ks, n, j, i, ks2) /\ Grown(cs, n + 1, j + 1, c, cs2)

LEMMA GrownRow ==
  ASSUME NEW ks, NEW cs, NEW n, NEW l, NEW h, NEW lo, NEW sep, Row(ks, cs, n, l, h, lo, sep),
         NEW j, NEW i, NEW c, NEW sep2, NEW ks2, NEW cs2,
         Divided(ks, cs, n, j, i, c, lo, sep, sep2, ks2, cs2)
  PROVE  Row(ks2, cs2, n + 1, l, h, lo, sep2)
<1>0. /\ j \in 1 .. n + 1 /\ i \in Nat /\ lo[cs[j]] < i /\ Below(i, sep[cs[j]])
      /\ lo[c] = i /\ \A m \in 1 .. n + 1 : cs[m] # c
      /\ sep2[c] = sep[cs[j]] /\ sep2[cs[j]] = i
      /\ \A m \in 1 .. n + 1 : m # j => sep2[cs[m]] = sep[cs[m]]
      /\ Grown(ks, n, j, i, ks2) /\ Grown(cs, n + 1, j + 1, c, cs2)
  BY DEF Divided
<1> USE <1>0
<1>1. n \in Nat /\ l \in Nat /\ j \in Nat /\ 1 <= j /\ j <= n + 1
  BY DEF Row
<1>2. \A m \in 1 .. n + 1 : /\ m < j => ks2[m] = ks[m]
                            /\ m = j => ks2[m] = i
                            /\ m > j => ks2[m] = ks[m - 1]
  BY DEF Grown
<1>3. \A m \in 1 .. n + 2 : /\ m < j + 1 => cs2[m] = cs[m]
                            /\ m = j + 1 => cs2[m] = c
                            /\ m > j + 1 => cs2[m] = cs[m - 1]
  BY <1>1 DEF Grown
<1>4. \A m \in 1 .. n : ks[m] \in Nat /\ l < ks[m] /\ Below(ks[m], h)
  BY DEF Row
<1>5. \A a, b \in 1 .. n : a < b => ks[a] < ks[b]
  BY DEF Row
<1>6. \A m \in 1 .. n + 1 :
        /\ m = 1 => lo[cs[m]] = l
        /\ m # 1 => lo[cs[m]] = ks[m - 1]
        /\ m = n + 1 => sep[cs[m]] = h
        /\ m # n + 1 => sep[cs[m]] = ks[m]
  BY DEF Row
<1>7. \A m \in 1 .. n : (m < j => ks[m] < i) /\ (m >= j => i < ks[m])
  <2>1. ASSUME NEW m \in 1 .. n, m < j PROVE ks[m] < i
    <3>1. lo[cs[j]] = ks[j - 1] /\ j - 1 \in 1 .. n /\ (m = j - 1 \/ m < j - 1)
      BY <1>1, <1>6, <2>1
    <3>2. ks[j - 1] \in Nat /\ ks[m] \in Nat /\ ks[m] <= ks[j - 1]
      BY <1>4, <1>5, <3>1
    <3>3. QED
      BY <3>1, <3>2
  <2>2. ASSUME NEW m \in 1 .. n, m >= j PROVE i < ks[m]
    <3>1. sep[cs[j]] = ks[j] /\ j \in 1 .. n /\ (m = j \/ j < m)
      BY <1>1, <1>6, <2>2
    <3>2. ks[j] \in Nat /\ ks[m] \in Nat /\ ks[j] <= ks[m] /\ ks[j] # Inf
      BY <1>4, <1>5, <3>1 DEF Inf
    <3>3. QED
      BY <3>1, <3>2 DEF Below
  <2>3. QED
    BY <2>1, <2>2
<1>8. l < i /\ Below(i, h)
  <2>1. l < i
    <3>1. CASE j = 1
      BY <1>1, <1>6, <3>1
    <3>2. CASE j # 1
      <4>1. j - 1 \in 1 .. n /\ lo[cs[j]] = ks[j - 1]
        BY <1>1, <1>6, <3>2
      <4>2. QED
        BY <1>1, <1>4, <4>1
    <3>3. QED
      BY <3>1, <3>2
  <2>2. Below(i, h)
    <3>1. CASE j = n + 1
      BY <1>1, <1>6, <3>1
    <3>2. CASE j # n + 1
      <4>1. j \in 1 .. n
        BY <1>1, <3>2
      <4>2. i < ks[j] /\ Below(ks[j], h) /\ ks[j] \in Nat
        BY <1>4, <1>7, <4>1
      <4>3. h \in Nat \cup {Inf}
        BY DEF Row
      <4>4. h = Inf \/ i < h
        <5>1. CASE h = Inf
          BY <5>1
        <5>2. CASE h \in Nat /\ ks[j] < h
          BY <4>2, <5>2
        <5>3. QED
          BY <4>2, <4>3, <5>1, <5>2 DEF Below
      <4>5. QED
        BY <4>4 DEF Below
    <3>3. QED
      BY <3>1, <3>2
  <2>3. QED
    BY <2>1, <2>2
<1>9. ASSUME NEW m \in 1 .. n + 1 PROVE ks2[m] \in Nat /\ l < ks2[m] /\ Below(ks2[m], h)
  <2>1. CASE m < j
    BY <1>1, <1>2, <1>4, <2>1
  <2>2. CASE m = j
    BY <1>1, <1>2, <1>8, <2>2
  <2>3. CASE m > j
    <3>1. m - 1 \in 1 .. n
      BY <1>1, <2>3
    <3>2. QED
      BY <1>2, <1>4, <2>3, <3>1
  <2>4. QED
    BY <1>1, <2>1, <2>2, <2>3
<1>10. ASSUME NEW a \in 1 .. n + 1, NEW b \in 1 .. n + 1, a < b PROVE ks2[a] < ks2[b]
  <2>1. CASE b < j
    <3>1. a \in 1 .. n /\ b \in 1 .. n /\ ks2[a] = ks[a] /\ ks2[b] = ks[b]
      BY <1>1, <1>2, <1>10, <2>1
    <3>2. QED
      BY <1>5, <1>10, <3>1
  <2>2. CASE b = j
    <3>1. a \in 1 .. n /\ ks2[a] = ks[a] /\ ks2[b] = i
      BY <1>1, <1>2, <1>10, <2>2
    <3>2. QED
      BY <1>7, <1>10, <2>2, <3>1
  <2>3. CASE b > j
    <3>1. b - 1 \in 1 .. n /\ ks2[b] = ks[b - 1] /\ b - 1 >= j
      BY <1>1, <1>2, <2>3
    <3>2. CASE a > j
      <4>1. a - 1 \in 1 .. n /\ ks2[a] = ks[a - 1] /\ a - 1 < b - 1
        BY <1>1, <1>2, <1>10, <3>2
      <4>2. QED
        BY <1>5, <3>1, <4>1
    <3>3. CASE a = j
      BY <1>2, <1>7, <3>1, <3>3
    <3>4. CASE a < j
      <4>1. a \in 1 .. n /\ ks2[a] = ks[a] /\ a < b - 1
        BY <1>1, <1>2, <3>1, <3>4
      <4>2. QED
        BY <1>5, <3>1, <4>1
    <3>5. QED
      BY <1>1, <3>2, <3>3, <3>4
  <2>4. QED
    BY <1>1, <2>1, <2>2, <2>3
<1>11. ASSUME NEW m \in 1 .. n + 2
       PROVE  /\ m = 1 => lo[cs2[m]] = l
              /\ m # 1 => lo[cs2[m]] = ks2[m - 1]
              /\ m = n + 2 => sep2[cs2[m]] = h
              /\ m # n + 2 => sep2[cs2[m]] = ks2[m]
  <2>1. CASE m < j
    <3>1. m \in 1 .. n + 1 /\ cs2[m] = cs[m] /\ m # n + 1 /\ m # n + 2 /\ ks2[m] = ks[m] /\ sep2[cs[m]] = sep[cs[m]]
      BY <1>1, <1>2, <1>3, <2>1
    <3>2. m # 1 => ks2[m - 1] = ks[m - 1]
      BY <1>1, <1>2, <2>1
    <3>3. QED
      BY <1>6, <3>1, <3>2
  <2>2. CASE m = j
    <3>1. m \in 1 .. n + 1 /\ cs2[m] = cs[j] /\ m # n + 2 /\ ks2[m] = i /\ sep2[cs2[m]] = i
      BY <1>1, <1>2, <1>3, <2>2
    <3>2. m # 1 => ks2[m - 1] = ks[m - 1]
      BY <1>1, <1>2, <2>2
    <3>3. QED
      BY <1>6, <2>2, <3>1, <3>2
  <2>3. CASE m = j + 1
    <3>1. m # 1 /\ m - 1 \in 1 .. n + 1 /\ cs2[m] = c /\ ks2[m - 1] = i /\ sep2[cs2[m]] = sep[cs[j]]
      BY <1>1, <1>2, <1>3, <2>3
    <3>2. m = n + 2 => j = n + 1
      BY <1>1, <2>3
    <3>3. m # n + 2 => j # n + 1 /\ m \in 1 .. n + 1 /\ ks2[m] = ks[j]
      BY <1>1, <1>2, <2>3
    <3>4. QED
      BY <1>6, <3>1, <3>2, <3>3
  <2>4. CASE m > j + 1
    <3>1. PICK g \in 1 .. n + 1 : g = m - 1 /\ g # j /\ g # 1 /\ cs2[m] = cs[g] /\ m # 1
      BY <1>1, <1>3, <2>4
    <3>2. ks2[m - 1] = ks[g - 1] /\ sep2[cs[g]] = sep[cs[g]]
      BY <1>1, <1>2, <2>4, <3>1
    <3>3. m = n + 2 <=> g = n + 1
      BY <1>1, <3>1
    <3>4. m # n + 2 => ks2[m] = ks[g]
      BY <1>1, <1>2, <2>4, <3>1
    <3>5. QED
      BY <1>6, <3>1, <3>2, <3>3, <3>4
  <2>5. QED
    BY <1>1, <2>1, <2>2, <2>3, <2>4
<1>12. (n + 1) + 1 = n + 2 /\ n + 1 \in Nat
  BY <1>1
<1>13. h \in Nat \cup {Inf}
  BY DEF Row
<1>14. QED
  BY <1>1, <1>9, <1>10, <1>11, <1>12, <1>13 DEF Row

\* An internode leads to the child whose slices hold i.
Holder(y, ks, cs, n, j, i, lo, sep) ==
  /\ y.ikeys = ks /\ ks \in Seq(Nat) /\ n = Len(ks) /\ j \in 1 .. n + 1 /\ i \in Nat
  /\ lo[cs[j]] < i /\ Below(i, sep[cs[j]])

LEMMA UpperAt ==
  ASSUME NEW y, NEW ks, NEW cs, NEW n, NEW l, NEW h, NEW lo, NEW sep, Row(ks, cs, n, l, h, lo, sep),
         NEW j, NEW i, Holder(y, ks, cs, n, j, i, lo, sep)
  PROVE  Upper(i, y) = j - 1
<1>0. /\ y.ikeys = ks /\ ks \in Seq(Nat) /\ n = Len(ks) /\ j \in 1 .. n + 1 /\ i \in Nat
      /\ lo[cs[j]] < i /\ Below(i, sep[cs[j]])
  BY DEF Holder
<1> USE <1>0
<1>1. n \in Nat /\ DOMAIN y.ikeys = 1 .. n
  BY LenProperties
<1>2. PICK u : u = Upper(i, y)
  OBVIOUS
<1>3. \A a, b \in DOMAIN y.ikeys : a < b => y.ikeys[a] < y.ikeys[b]
  BY <1>1 DEF Row
<1>4. /\ u \in 0 .. n
      /\ \A m \in 1 .. u : ks[m] <= i
      /\ \A m \in u + 1 .. n : ks[m] > i
  BY <1>2, <1>3, UpperIs
<1>5. \A m \in 1 .. n : ks[m] \in Nat
  BY DEF Row
<1>6. /\ j # 1 => lo[cs[j]] = ks[j - 1]
      /\ j # n + 1 => sep[cs[j]] = ks[j]
  BY DEF Row
<1>7. n \in Nat /\ u \in Nat /\ u <= n /\ j \in Nat /\ 1 <= j /\ j <= n + 1
  <2>1. u \in 0 .. n /\ j \in 1 .. n + 1 /\ n \in Nat
    BY <1>1, <1>4
  <2>2. QED
    BY ONLY <2>1
<1>8. ~ (u > j - 1)
  <2>1. SUFFICES ASSUME u > j - 1 PROVE FALSE
    OBVIOUS
  <2>2. j \in 1 .. n /\ j \in 1 .. u /\ j # n + 1
    BY ONLY <1>7, <2>1
  <2>3. ks[j] <= i /\ ks[j] \in Nat /\ Below(i, ks[j])
    BY <1>4, <1>5, <1>6, <2>2
  <2>4. QED
    BY <2>3 DEF Below, Inf
<1>9. ~ (u < j - 1)
  <2>1. SUFFICES ASSUME u < j - 1 PROVE FALSE
    OBVIOUS
  <2>2. j - 1 \in 1 .. n /\ j - 1 \in u + 1 .. n /\ j # 1
    BY ONLY <1>7, <2>1
  <2>3. ks[j - 1] > i /\ ks[j - 1] \in Nat /\ ks[j - 1] < i
    BY <1>4, <1>5, <1>6, <2>2
  <2>4. QED
    BY <2>3
<1>10. u = j - 1
  BY ONLY <1>8, <1>9, <1>7
<1>11. QED
  BY <1>2, <1>10

\* The same in terms of nodes.
LEMMA NodeRow ==
  ASSUME NEW lo, NEW hi, TreeIn(lo, hi), NEW p, Inner(p), NEW sep, sep = [x \in NodeId |-> SepHi(x, hi)]
  PROVE  /\ Row(node[p].ikeys, node[p].child, Len(node[p].ikeys), lo[p], hi[p], lo, sep)
         /\ node[p].ikeys \in Seq(Nat) /\ node[p].child \in Seq(Nat) /\ Len(node[p].ikeys) \in Nat
         /\ DOMAIN node[p].ikeys = 1 .. Len(node[p].ikeys)
         /\ DOMAIN node[p].child = 1 .. Len(node[p].ikeys) + 1 /\ Len(node[p].child) = Len(node[p].ikeys) + 1
         /\ \A m \in 1 .. Len(node[p].ikeys) + 1 : ChildRange(p, m, lo, hi) /\ node[p].child[m] \in NodeId
<1>1. Types /\ p \in NodeId /\ NodeIn(p, lo, hi)
  BY DEF TreeIn, Inner
<1>2. PICK ks : ks = node[p].ikeys
  OBVIOUS
<1>3. PICK cs : cs = node[p].child
  OBVIOUS
<1>4. PICK n : n = Len(ks)
  OBVIOUS
<1>5. /\ ks \in Seq(Nat) /\ cs \in Seq(Nat) /\ Len(cs) = n + 1
      /\ \A a, b \in DOMAIN ks : a < b => ks[a] < ks[b]
  BY <1>1, <1>2, <1>3, <1>4, NodeTypes DEF NodeIn, InInner
<1>6. /\ n \in Nat /\ DOMAIN ks = 1 .. n /\ DOMAIN cs = 1 .. n + 1
      /\ \A m \in 1 .. n : ks[m] \in Nat
  BY <1>4, <1>5, LenProperties, ElementOfSeq
<1>7. InnerRange(p, lo, hi) /\ lo[p] \in Nat /\ hi[p] \in Nat \cup {Inf}
  BY <1>1 DEF NodeIn
<1>8. \A m \in 1 .. n : lo[p] < ks[m] /\ Below(ks[m], hi[p])
  BY <1>2, <1>6, <1>7 DEF InnerRange
<1>9. \A m \in 1 .. n + 1 : ChildRange(p, m, lo, hi)
  BY <1>3, <1>6, <1>7 DEF InnerRange
<1>10. \A m \in 1 .. n + 1 : /\ cs[m] \in NodeId
                             /\ lo[cs[m]] = IF m = 1 THEN lo[p] ELSE ks[m - 1]
                             /\ sep[cs[m]] = IF m = n + 1 THEN hi[p] ELSE ks[m]
  BY <1>2, <1>3, <1>4, <1>9 DEF ChildRange
<1>11. Row(ks, cs, n, lo[p], hi[p], lo, sep)
  BY <1>5, <1>6, <1>7, <1>8, <1>10 DEF Row
<1>12. QED
  BY <1>2, <1>3, <1>4, <1>5, <1>6, <1>9, <1>10, <1>11

-----------------------------------------------------------------------------
(* The new node goes above: NewRoot, InsertChild, SplitInternode *)

LEMMA AtInsert ==
  ASSUME NEW lo, NEW hi, TreeIn(lo, hi), NEW t \in Thread, pc[t] = "insert", NEW x, x = loc[t]
  PROVE  /\ Types /\ Parents /\ x \in WritingLocals /\ x.ikey \in Nat /\ x.height \in Nat
         /\ Leaf(x.leaf) /\ Owns(t, x.leaf) /\ x.leaf \in NodeId
         /\ Pair(t, x.n, x.child, x.ikey, x.height, lo, hi)
         /\ x.n = x.leaf => Half(t, x.n, x.child, x.ikey, x.split, lo, hi)
         /\ x.n # x.leaf => Inner(x.n) /\ Ready(t, x.leaf, lo, hi)
         /\ node[x.child].parent = Nil /\ node[x.n].parent = x.p
         /\ x.p # Nil => Owns(t, x.p) /\ Inner(x.p) /\ ~ node[x.p].ver.splitting
         /\ req[t] # Idle /\ K(t) \in Key
         /\ x.n \in NodeId /\ x.child \in NodeId /\ x.n # x.child /\ x.n # x.p /\ x.child # x.p
         /\ x.leaf # x.child /\ x.leaf # x.p
         /\ NodeIn(x.n, lo, hi) /\ NodeIn(x.child, lo, hi)
         /\ lo[x.n] < x.ikey /\ Below(x.ikey, hi[x.child]) /\ hi[x.n] = x.ikey /\ lo[x.child] = x.ikey
         /\ x.child # 1 /\ node[x.n].height = x.height /\ node[x.child].height = x.height
         /\ node[x.n].lock = t /\ node[x.child].lock = t
         /\ x.p # Nil => x.p \in NodeId /\ node[x.p].lock = t /\ node[x.p].height = x.height + 1
         /\ Inner(x.child) => ~ node[x.child].ver.root
<1>1. "insert" \in Climbing /\ "insert" \in Splitting /\ "insert" \in WritePc
  BY DEF WritePc, Putting, Splitting, Climbing
<1>2. /\ Types /\ Parents /\ Writing(t, lo, hi) /\ x \in WritingLocals /\ Leaf(x.leaf) /\ Owns(t, x.leaf)
      /\ req[t] # Idle /\ K(t) \in Key /\ x.n \in NodeId /\ x.child \in NodeId
      /\ Owns(t, x.n) /\ Owns(t, x.child)
  BY <1>1, Climber DEF TreeIn
<1>3. x.ikey \in Nat /\ x.height \in Nat
  BY <1>2 DEF WritingLocals
<1>4. /\ Pair(t, x.n, x.child, x.ikey, x.height, lo, hi)
      /\ x.n = x.leaf => Half(t, x.n, x.child, x.ikey, x.split, lo, hi)
      /\ x.n # x.leaf => Inner(x.n) /\ Ready(t, x.leaf, lo, hi)
      /\ node[x.child].parent = Nil /\ node[x.n].parent = x.p
      /\ x.p # Nil => Owns(t, x.p) /\ Inner(x.p) /\ ~ node[x.p].ver.splitting
  BY <1>1, <1>2 DEF Writing
<1>5. /\ x.n # x.child /\ hi[x.n] = x.ikey /\ lo[x.child] = x.ikey /\ x.child # 1
      /\ node[x.n].height = x.height /\ node[x.child].height = x.height
      /\ node[x.n].kind = node[x.child].kind
      /\ Inner(x.child) => ~ node[x.child].ver.root
  BY <1>4 DEF Pair
<1>6. NodeIn(x.n, lo, hi) /\ NodeIn(x.child, lo, hi)
  BY <1>2 DEF TreeIn
<1>7. Below(lo[x.n], x.ikey) /\ Below(x.ikey, hi[x.child])
  BY <1>5, <1>6 DEF NodeIn
<1>8. lo[x.n] < x.ikey
  BY <1>3, <1>7 DEF Below, Inf
<1>9. node[x.n].lock = t /\ node[x.child].lock = t /\ x.leaf \in NodeId
  BY <1>2 DEF Owns
<1>10. x.p # Nil => x.p \in NodeId /\ node[x.p].lock = t /\ node[x.p].height = x.height + 1
  <2>1. x.p # Nil => node[x.p].height = node[x.n].height + 1
    BY <1>2, <1>4, ParentIs
  <2>2. QED
    BY <1>4, <1>5, <2>1 DEF Owns
<1>11. x.n # x.p /\ x.child # x.p
  <2>1. x.n # Nil /\ x.child # Nil
    BY <1>2, NodeTypes DEF Nil
  <2>2. x.height # x.height + 1
    BY <1>3
  <2>3. QED
    BY <1>5, <1>10, <2>1, <2>2
<1>12. x.leaf # x.p
  <2>1. x.leaf # Nil
    BY <1>9, <1>2, NodeTypes DEF Nil
  <2>2. QED
    BY <1>2, <1>4, <2>1 DEF Leaf, Inner
<1>13. x.leaf # x.child
  <2>1. x.n # x.leaf => node[x.child].kind = "inner"
    BY <1>4, <1>5 DEF Inner
  <2>2. QED
    BY <1>2, <1>5, <2>1 DEF Leaf
<1>14. QED
  BY <1>2, <1>3, <1>4, <1>5, <1>6, <1>7, <1>8, <1>9, <1>10, <1>11, <1>12, <1>13

\* all is internode p with c in its place among its n + 1 children.
Widened(p, all, n, c, lo, hi, sep) ==
  /\ n \in Nat /\ node[p].ikeys \in Seq(Nat)
  /\ all = [node[p] EXCEPT !.ikeys = all.ikeys, !.child = all.child]
  /\ all.ikeys \in Seq(Nat) /\ Len(all.ikeys) = n + 1 /\ DOMAIN all.ikeys = 1 .. n + 1
  /\ all.child \in Seq(Nat) /\ Len(all.child) = n + 2 /\ DOMAIN all.child = 1 .. n + 2
  /\ Row(all.ikeys, all.child, n + 1, lo[p], hi[p], lo, sep)
  /\ \A m \in 1 .. n + 2 : /\ all.child[m] \in NodeId /\ node[all.child[m]].height + 1 = node[p].height
                           /\ all.child[m] = c \/ node[all.child[m]].parent = p
  /\ \A y \in NodeId : y = c \/ node[y].parent = p => \E m \in 1 .. n + 2 : all.child[m] = y

\* What the parent will be with the new child, before it is cut if it has no room.
LEMMA AtParent ==
  ASSUME NEW lo, NEW hi, TreeIn(lo, hi), NEW t \in Thread, pc[t] = "insert", NEW x, x = loc[t], NEW p, p = x.p, p # Nil,
         NEW all, all = WithChild(node[p], Upper(x.ikey, node[p]), x.ikey, x.child),
         NEW sep, sep = [y \in NodeId |-> IF y = x.n THEN x.ikey ELSE SepHi(y, hi)],
         SepHi(x.n, hi) = hi[x.child], SepHi(x.child, hi) = hi[x.child],
         NEW n, n = Len(node[p].ikeys)
  PROVE  Widened(p, all, n, x.child, lo, hi, sep)
<1>1. /\ Types /\ Parents /\ Inner(p) /\ x.ikey \in Nat /\ x.n \in NodeId /\ x.child \in NodeId /\ x.n # x.child
      /\ node[x.child].parent = Nil /\ node[x.n].parent = p /\ p \in NodeId
      /\ lo[x.n] < x.ikey /\ Below(x.ikey, hi[x.child]) /\ lo[x.child] = x.ikey
      /\ node[x.child].height = x.height /\ node[p].height = x.height + 1
  BY AtInsert
<1>2. n = Len(node[p].ikeys)
  OBVIOUS
<1>3. PICK ks : ks = node[p].ikeys
  OBVIOUS
<1>4. PICK cs : cs = node[p].child
  OBVIOUS
<1>5. PICK sep0 : sep0 = [y \in NodeId |-> SepHi(y, hi)]
  OBVIOUS
<1>0. PICK l, h : l = lo[p] /\ h = hi[p]
  OBVIOUS
<1>6. /\ Row(ks, cs, n, l, h, lo, sep0)
      /\ ks \in Seq(Nat) /\ cs \in Seq(Nat) /\ n \in Nat /\ n = Len(ks)
      /\ DOMAIN ks = 1 .. n /\ DOMAIN cs = 1 .. n + 1 /\ Len(cs) = n + 1
      /\ \A m \in 1 .. n + 1 : ChildRange(p, m, lo, hi) /\ cs[m] \in NodeId
  BY <1>0, <1>1, <1>2, <1>3, <1>4, <1>5, NodeRow, SMTT(30)
<1>27. Row(ks, cs, n, l, h, lo, sep0)
  BY ONLY <1>6
<1>7. PICK j \in 1 .. n + 1 : cs[j] = x.n
  <2>1. HasChild(p, x.n)
    BY <1>1 DEF Parents
  <2>2. QED
    BY <1>4, <1>6, <2>1 DEF HasChild
<1>8. \A m \in 1 .. n + 1 : node[cs[m]].parent = p /\ node[cs[m]].height + 1 = node[p].height
  BY ONLY <1>4, <1>6 DEF ChildRange
<1>9. \A m \in 1 .. n + 1 : cs[m] # x.child
  <2>1. p # Nil
    OBVIOUS
  <2>2. QED
    BY ONLY <1>1, <1>8, <2>1
<1>10. sep0[x.n] = hi[x.child] /\ sep0[x.child] = hi[x.child]
  BY <1>1, <1>5
<1>11. Upper(x.ikey, node[p]) = j - 1
  <2>1. Below(x.ikey, sep0[cs[j]]) /\ lo[cs[j]] < x.ikey
    BY <1>1, <1>7, <1>10
  <2>2. PICK y : y = node[p]
    OBVIOUS
  <2>3. Holder(y, ks, cs, n, j, x.ikey, lo, sep0)
    BY ONLY <1>1, <1>3, <1>6, <2>1, <2>2, j \in 1 .. n + 1 DEF Holder
  <2>5. Upper(x.ikey, y) = j - 1
    BY ONLY <1>27, <2>3, UpperAt
  <2>6. QED
    BY <2>2, <2>5
<1>12. PICK ks2 : ks2 = SX!InsertAt(ks, j, x.ikey)
  OBVIOUS
<1>13. PICK cs2 : cs2 = SX!InsertAt(cs, j + 1, x.child)
  OBVIOUS
<1>14. PICK y : y = node[p]
  OBVIOUS
<1>15. y \in Node
  BY <1>1, <1>14, NodeTypes
<1>16. all = [y EXCEPT !.ikeys = ks2, !.child = cs2]
  <2>1. (j - 1) + 1 = j /\ (j - 1) + 2 = j + 1
    BY <1>6, <1>7
  <2>2. all = [y EXCEPT !.ikeys = SX!InsertAt(y.ikeys, (j - 1) + 1, x.ikey), !.child = SX!InsertAt(y.child, (j - 1) + 2, x.child)]
    BY <1>11, <1>14 DEF WithChild
  <2>3. y.ikeys = ks /\ y.child = cs
    BY <1>3, <1>4, <1>14
  <2>4. QED
    BY ONLY <1>12, <1>13, <2>1, <2>2, <2>3
<1>17. all.ikeys = ks2 /\ all.child = cs2 /\ all = [y EXCEPT !.ikeys = all.ikeys, !.child = all.child]
  BY <1>15, <1>16 DEF Node
<1>18. ks2 \in Seq(Nat) /\ Len(ks2) = n + 1 /\ DOMAIN ks2 = 1 .. n + 1 /\ Grown(ks, n, j, x.ikey, ks2)
  <2>1. Inserts(ks, n, j, x.ikey, ks2)
    BY ONLY <1>1, <1>6, <1>12, j \in 1 .. n + 1 DEF Inserts
  <2>2. QED
    BY ONLY <2>1, InsertAtIs
<1>19. cs2 \in Seq(Nat) /\ Len(cs2) = n + 2 /\ DOMAIN cs2 = 1 .. n + 2 /\ Grown(cs, n + 1, j + 1, x.child, cs2)
  <2>1. j + 1 \in 1 .. (n + 1) + 1 /\ n + 1 = Len(cs) /\ (n + 1) + 1 = n + 2
    BY <1>6, <1>7
  <2>2. x.child \in Nat
    BY <1>1, NodeTypes
  <2>3. PICK n1 : n1 = n + 1
    OBVIOUS
  <2>4. PICK j1 : j1 = j + 1
    OBVIOUS
  <2>5. Inserts(cs, n1, j1, x.child, cs2)
    BY ONLY <1>6, <1>13, <2>1, <2>2, <2>3, <2>4 DEF Inserts
  <2>6. cs2 \in Seq(Nat) /\ Len(cs2) = n1 + 1 /\ DOMAIN cs2 = 1 .. n1 + 1 /\ Grown(cs, n1, j1, x.child, cs2)
    BY ONLY <2>5, InsertAtIs
  <2>7. QED
    BY <2>1, <2>3, <2>4, <2>6
<1>20. Row(ks2, cs2, n + 1, l, h, lo, sep)
  <2>1. /\ lo[cs[j]] < x.ikey /\ Below(x.ikey, sep0[cs[j]])
        /\ lo[x.child] = x.ikey /\ sep[x.child] = sep0[cs[j]] /\ sep[cs[j]] = x.ikey
    BY <1>1, <1>5, <1>7, <1>10
  <2>2. \A m \in 1 .. n + 1 : m # j => sep[cs[m]] = sep0[cs[m]]
    <3>1. \A a, b \in 1 .. n + 1 : cs[a] = cs[b] => a = b
      BY ONLY <1>27, ChildrenDiffer
    <3>2. QED
      BY <1>5, <1>6, <1>7, <3>1
  <2>3. Divided(ks, cs, n, j, x.ikey, x.child, lo, sep0, sep, ks2, cs2)
    BY ONLY <1>1, <1>9, <1>18, <1>19, j \in 1 .. n + 1, <2>1, <2>2 DEF Divided
  <2>4. QED
    BY ONLY <1>27, <2>3, GrownRow
<1>21. ASSUME NEW m \in 1 .. n + 2
       PROVE  /\ cs2[m] \in NodeId /\ node[cs2[m]].height + 1 = node[p].height
              /\ cs2[m] = x.child \/ node[cs2[m]].parent = p
  <2>1. CASE m = j + 1
    <3>1. cs2[m] = x.child
      BY <1>6, <1>19, <2>1 DEF Grown
    <3>2. QED
      BY <1>1, <3>1
  <2>2. CASE m # j + 1
    <3>1. PICK g \in 1 .. n + 1 : cs2[m] = cs[g]
      <4>1. CASE m < j + 1
        BY <1>6, <1>7, <1>19, <4>1, SMTT(30) DEF Grown
      <4>2. CASE m > j + 1
        <5>1. m - 1 \in 1 .. n + 1 /\ m \in 1 .. (n + 1) + 1
          <6>1. n \in Nat
            BY <1>6
          <6>2. QED
            BY ONLY <4>2, <6>1, j \in 1 .. n + 1, m \in 1 .. n + 2
        <5>2. cs2[m] = cs[m - 1]
          BY <1>19, <4>2, <5>1 DEF Grown
        <5>3. QED
          BY <5>1, <5>2
      <4>3. QED
        BY <1>6, <1>7, <2>2, <4>1, <4>2
    <3>2. QED
      BY <1>6, <1>8, <3>1
  <2>3. QED
    BY <2>1, <2>2
<1>22. ASSUME NEW y2 \in NodeId, y2 = x.child \/ node[y2].parent = p
       PROVE  \E m \in 1 .. n + 2 : cs2[m] = y2
  <2>1. CASE y2 = x.child
    <3>1. j + 1 \in 1 .. n + 2 /\ j + 1 \in 1 .. (n + 1) + 1
      BY <1>6, <1>7
    <3>2. cs2[j + 1] = x.child
      BY <1>19, <3>1 DEF Grown
    <3>3. QED
      BY <2>1, <3>1, <3>2
  <2>2. CASE node[y2].parent = p
    <3>1. PICK g \in 1 .. n + 1 : cs[g] = y2
      <4>1. HasChild(p, y2)
        BY <1>1, <2>2 DEF Parents
      <4>2. QED
        BY <1>4, <1>6, <4>1 DEF HasChild
    <3>2. CASE g < j + 1
      <4>1. g \in 1 .. n + 2 /\ g \in 1 .. (n + 1) + 1
        BY <1>6
      <4>2. cs2[g] = cs[g]
        BY <1>19, <3>2, <4>1 DEF Grown
      <4>3. QED
        BY <3>1, <4>1, <4>2
    <3>3. CASE ~ (g < j + 1)
      <4>1. g + 1 \in 1 .. n + 2 /\ g + 1 \in 1 .. (n + 1) + 1 /\ g + 1 > j + 1 /\ (g + 1) - 1 = g
        BY <1>6, <1>7, <3>3
      <4>2. cs2[g + 1] = cs[(g + 1) - 1]
        BY <1>19, <4>1 DEF Grown
      <4>3. QED
        BY <3>1, <4>1, <4>2
    <3>4. QED
      BY <3>2, <3>3
  <2>3. QED
    BY <1>22, <2>1, <2>2
<1>23. n \in Nat /\ node[p].ikeys \in Seq(Nat)
  BY ONLY <1>3, <1>6
<1>28. all = [node[p] EXCEPT !.ikeys = all.ikeys, !.child = all.child]
  BY ONLY <1>14, <1>17
<1>24. /\ all.ikeys \in Seq(Nat) /\ Len(all.ikeys) = n + 1 /\ DOMAIN all.ikeys = 1 .. n + 1
       /\ all.child \in Seq(Nat) /\ Len(all.child) = n + 2 /\ DOMAIN all.child = 1 .. n + 2
       /\ Row(all.ikeys, all.child, n + 1, lo[p], hi[p], lo, sep)
  BY ONLY <1>0, <1>17, <1>18, <1>19, <1>20
<1>25. \A m \in 1 .. n + 2 :
         /\ all.child[m] \in NodeId /\ node[all.child[m]].height + 1 = node[p].height
         /\ all.child[m] = x.child \/ node[all.child[m]].parent = p
  BY ONLY <1>17, <1>21
<1>29. \A y2 \in NodeId : y2 = x.child \/ node[y2].parent = p => \E m \in 1 .. n + 2 : all.child[m] = y2
  BY ONLY <1>17, <1>22
<1>26. QED
  BY ONLY <1>23, <1>24, <1>25, <1>28, <1>29 DEF Widened

\* The new node c of t is in the tree: Strip comes next.
Attached(t, x, z, lo, hi, lo2, hi2) ==
  /\ pc'[t] = "strip" /\ req'[t] = req[t] /\ NodeId \subseteq NodeId'
  /\ z \in WritingLocals /\ loc'[t] = z
  /\ z.n = x.n /\ z.leaf = x.leaf /\ z.child = x.child /\ z.p = x.p /\ z.ikey = x.ikey
  /\ z.split = x.split /\ z.height = x.height
  /\ Same(x.n, lo, hi, lo2, hi2) /\ Same(x.child, lo, hi, lo2, hi2) /\ Same(x.leaf, lo, hi, lo2, hi2)
  /\ node'[x.n].parent # Nil /\ node'[x.child].parent # Nil
  /\ x.p # Nil => Owns(t, x.p)' /\ Inner(x.p)' /\ node'[x.p].height = x.height + 1
  /\ z.next = Nil /\ x.p # Nil => ~ node'[x.p].ver.splitting
  /\ z.next # Nil => /\ Pair(t, x.p, z.next, z.ikey2, x.height + 1, lo2, hi2)'
                     /\ x.p # Nil /\ Inner(z.next)' /\ node'[z.next].parent = Nil

LEMMA StripWriting ==
  ASSUME NEW lo, NEW hi, NEW lo2, NEW hi2, TreeIn(lo, hi), NEW t \in Thread, pc[t] = "insert",
         NEW x, x = loc[t], NEW z, Attached(t, x, z, lo, hi, lo2, hi2)
  PROVE  ThreadIn(t, lo2, hi2)'
<1>1. /\ Leaf(x.leaf) /\ Owns(t, x.leaf)
      /\ Pair(t, x.n, x.child, x.ikey, x.height, lo, hi)
      /\ x.n = x.leaf => Half(t, x.n, x.child, x.ikey, x.split, lo, hi)
      /\ x.n # x.leaf => Inner(x.n) /\ Ready(t, x.leaf, lo, hi)
      /\ req[t] # Idle /\ K(t) \in Key
  BY AtInsert
<1>2. /\ pc'[t] = "strip" /\ req'[t] = req[t] /\ NodeId \subseteq NodeId'
      /\ Same(x.n, lo, hi, lo2, hi2) /\ Same(x.child, lo, hi, lo2, hi2) /\ Same(x.leaf, lo, hi, lo2, hi2)
  BY DEF Attached
<1>3. Pair(t, x.n, x.child, x.ikey, x.height, lo2, hi2)'
  BY <1>1, <1>2, PairCarried
<1>4. x.n = x.leaf => Half(t, x.n, x.child, x.ikey, x.split, lo2, hi2)'
  BY <1>1, <1>2, HalfCarried
<1>5. x.n # x.leaf => Inner(x.n)' /\ Ready(t, x.leaf, lo2, hi2)'
  <2>1. SUFFICES ASSUME x.n # x.leaf PROVE Inner(x.n)' /\ Ready(t, x.leaf, lo2, hi2)'
    OBVIOUS
  <2>2. Inner(x.n) /\ Ready(t, x.leaf, lo, hi)
    BY <1>1, <2>1
  <2>3. Ready(t, x.leaf, lo2, hi2)'
    BY <1>2, <2>2, ReadyCarried
  <2>4. QED
    BY <1>2, <2>2, <2>3 DEF Inner, Same, SameBody
<1>6. Leaf(x.leaf)' /\ Owns(t, x.leaf)'
  BY <1>1, <1>2 DEF Leaf, Owns, Same, SameBody
<1>7. "strip" \in WritePc /\ "strip" \notin ReadPc /\ "strip" \in Splitting /\ "strip" \notin Climbing
  BY DEF ReadPc, WritePc, Putting, Splitting, Climbing
<1>8. /\ z \in WritingLocals /\ loc'[t] = z
      /\ z.n = x.n /\ z.leaf = x.leaf /\ z.child = x.child /\ z.p = x.p /\ z.ikey = x.ikey
      /\ z.split = x.split /\ z.height = x.height
  BY DEF Attached
<1>9. /\ node'[x.n].parent # Nil /\ node'[x.child].parent # Nil
      /\ x.p # Nil => Owns(t, x.p)' /\ Inner(x.p)' /\ node'[x.p].height = x.height + 1
      /\ z.next = Nil /\ x.p # Nil => ~ node'[x.p].ver.splitting
      /\ z.next # Nil => /\ Pair(t, x.p, z.next, z.ikey2, x.height + 1, lo2, hi2)'
                         /\ x.p # Nil /\ Inner(z.next)' /\ node'[z.next].parent = Nil
  BY DEF Attached
<1>10. Writing(t, lo2, hi2)'
  BY <1>2, <1>3, <1>4, <1>5, <1>6, <1>7, <1>8, <1>9 DEF Writing
<1>11. K(t)' = K(t) /\ req'[t] # Idle
  BY <1>1, <1>2 DEF K
<1>12. QED
  BY <1>1, <1>2, <1>7, <1>10, <1>11 DEF ThreadIn

\* The parent is never higher than one: nothing that a node is above is taken out.
LEMMA RectifyNever ==
  ASSUME NEW lo, NEW hi, TreeIn(lo, hi), NEW t \in Thread, Rectify(t)
  PROVE  FALSE
<1>1. PICK x : x = loc[t]
  OBVIOUS
<1>2. pc[t] = "insert" /\ x.p # Nil /\ node[x.p].height > x.height + 1
  <2>1. pc[t] = "insert" /\ loc[t].p # Nil /\ node[loc[t].p].height > loc[t].height + 1
    BY Zenon DEF Rectify
  <2>2. QED
    BY <1>1, <2>1
<1>3. node[x.p].height = x.height + 1 /\ x.height \in Nat
  BY <1>1, <1>2, AtInsert
<1>4. QED
  BY <1>2, <1>3
=============================================================================
