----------------------------- MODULE LeafProofs -----------------------------
(***************************************************************************)
(* Leaf for any number of keys, slots, leaves and threads: what is read    *)
(* without a lock belongs together, the leaves hold the table at every     *)
(* moment, and a removed layer stays empty.  LeafInv is inductive.         *)
(*                                                                         *)
(* Its parts speak of the leaves, of the thread that holds a leaf's lock   *)
(* (Held) and of a thread that has searched a leaf without it (Looked).    *)
(* A step of one thread disturbs the others little: a leaf that is locked  *)
(* belongs to the owner of the lock, and whoever only looks is told of     *)
(* every change but those that Calm allows.                                *)
(***************************************************************************)
EXTENDS Leaf, TLAPS

(* Permutations *)

\* What MakeEmpty, InsertFromBack, Remove, ... keep: no slot occurs twice.
PermOk(q) == q \in Perm /\ \A i, j \in 1 .. W : q.ord[i] = q.ord[j] => i = j

\* Every position leads to a slot, and to a slot of its own.
LEMMA Positions ==
  ASSUME NEW q, PermOk(q)
  PROVE  /\ q.size \in 0 .. W
         /\ \A i \in 0 .. W - 1 : At(q, i) \in Slot
         /\ \A i, j \in 0 .. W - 1 : At(q, i) = At(q, j) => i = j
         /\ InUse(q) \subseteq Slot
<1> USE WAssumption
<1>1. q.ord \in [1 .. W -> Slot] /\ q.size \in 0 .. W
  BY DEF PermOk, Perm
<1>2. \A i \in 0 .. W - 1 : At(q, i) \in Slot
  BY <1>1 DEF At
<1>3. \A i, j \in 0 .. W - 1 : At(q, i) = At(q, j) => i = j
  <2>1. SUFFICES ASSUME NEW i \in 0 .. W - 1, NEW j \in 0 .. W - 1, At(q, i) = At(q, j) PROVE i = j
    OBVIOUS
  <2>2. i + 1 \in 1 .. W /\ j + 1 \in 1 .. W
    OBVIOUS
  <2>3. QED
    BY <2>1, <2>2 DEF At, PermOk
<1>4. InUse(q) \subseteq Slot
  BY <1>1, <1>2 DEF InUse
<1>5. QED
  BY <1>1, <1>2, <1>3, <1>4

\* The slot at the back is free as long as one is.
LEMMA BackIsFree ==
  ASSUME NEW q, PermOk(q), q.size < W
  PROVE  Back(q) \in Slot /\ Back(q) \notin InUse(q)
<1> USE WAssumption
<1>1. Back(q) = At(q, W - 1) /\ W - 1 \in 0 .. W - 1
  BY DEF Back, At
<1>2. \A i \in 0 .. q.size - 1 : At(q, i) # Back(q)
  BY <1>1, Positions
<1>3. QED
  BY <1>1, <1>2, Positions DEF InUse

\* InsertFromBack puts the slot at the back at position i.
LEMMA Inserted ==
  ASSUME NEW q, PermOk(q), q.size < W, NEW i \in 0 .. q.size
  PROVE  LET r == InsertFromBack(q, i) IN
         /\ PermOk(r) /\ r.size = q.size + 1
         /\ InUse(r) = InUse(q) \cup {Back(q)}
         /\ \A j \in 0 .. i - 1 : At(r, j) = At(q, j)
         /\ At(r, i) = Back(q)
         /\ \A j \in i + 1 .. q.size : At(r, j) = At(q, j - 1)
<1> USE WAssumption
<1> DEFINE r == InsertFromBack(q, i)
<1>1. q.ord \in [1 .. W -> Slot] /\ q.size \in 0 .. W - 1
  BY DEF PermOk, Perm
<1>2. Back(q) \in Slot
  BY BackIsFree
<1>3. /\ r.size = q.size + 1 /\ DOMAIN r.ord = 1 .. W
      /\ \A j \in 1 .. W : r.ord[j] = IF j <= i THEN q.ord[j] ELSE IF j = i + 1 THEN Back(q) ELSE q.ord[j - 1]
      /\ r = [ord |-> r.ord, size |-> r.size]
      /\ r.ord = [j \in 1 .. W |-> r.ord[j]]
  BY DEF InsertFromBack
<1> HIDE DEF r
<1>4. \A j \in 1 .. W : r.ord[j] \in Slot
  <2>1. SUFFICES ASSUME NEW j \in 1 .. W PROVE r.ord[j] \in Slot
    OBVIOUS
  <2>2. CASE j <= i
    BY <1>1, <1>3, <2>2
  <2>3. CASE j = i + 1
    BY <1>2, <1>3, <2>3
  <2>4. CASE j > i + 1
    <3>1. j - 1 \in 1 .. W /\ r.ord[j] = q.ord[j - 1]
      BY <1>3, <2>4
    <3>2. QED
      BY <1>1, <3>1
  <2>5. QED
    BY <2>2, <2>3, <2>4
<1>5. r \in Perm
  BY <1>1, <1>3, <1>4 DEF Perm
<1>6. \A j, k \in 1 .. W : q.ord[j] = q.ord[k] => j = k
  BY DEF PermOk
<1>7. Back(q) = q.ord[W]
  BY DEF Back
<1>8. \A j, k \in 1 .. W : r.ord[j] = r.ord[k] => j = k
  <2>1. SUFFICES ASSUME NEW j \in 1 .. W, NEW k \in 1 .. W, r.ord[j] = r.ord[k], j < k PROVE FALSE
    OBVIOUS
  <2>2. CASE k <= i
    BY <1>1, <1>3, <1>6, <2>1, <2>2
  <2>3. CASE k = i + 1
    BY <1>1, <1>3, <1>6, <1>7, <2>1, <2>3
  <2>4. CASE k > i + 1
    <3>1. r.ord[k] = q.ord[k - 1] /\ k - 1 \in 1 .. W /\ k - 1 # W
      BY <1>3, <2>4
    <3>2. CASE j <= i
      BY <1>1, <1>3, <1>6, <2>1, <2>4, <3>1, <3>2
    <3>3. CASE j = i + 1
      BY <1>1, <1>3, <1>6, <1>7, <2>1, <2>4, <3>1, <3>3
    <3>4. CASE j > i + 1
      <4>1. r.ord[j] = q.ord[j - 1] /\ j - 1 \in 1 .. W
        BY <1>3, <3>4
      <4>2. QED
        BY <1>6, <2>1, <3>1, <4>1
    <3>5. QED
      BY <3>2, <3>3, <3>4
  <2>5. QED
    BY <2>2, <2>3, <2>4
<1>9. \A j \in 0 .. i - 1 : At(r, j) = At(q, j)
  BY <1>1, <1>3 DEF At
<1>10. At(r, i) = Back(q)
  BY <1>1, <1>3 DEF At
<1>11. \A j \in i + 1 .. q.size : At(r, j) = At(q, j - 1)
  <2>1. SUFFICES ASSUME NEW j \in i + 1 .. q.size PROVE r.ord[j + 1] = q.ord[(j - 1) + 1]
    BY DEF At
  <2>2. j + 1 \in 1 .. W /\ j + 1 > i + 1 /\ (j + 1) - 1 = (j - 1) + 1
    BY <1>1
  <2>3. QED
    BY <1>3, <2>2
<1>12. InUse(r) = InUse(q) \cup {Back(q)}
  <2>1. ASSUME NEW s \in InUse(r) PROVE s \in InUse(q) \cup {Back(q)}
    <3>1. PICK j \in 0 .. q.size : s = At(r, j)
      BY <1>1, <1>3, <2>1 DEF InUse
    <3>2. j < i \/ j = i \/ j - 1 \in 0 .. q.size - 1
      BY <1>1
    <3>3. QED
      BY <1>1, <1>9, <1>10, <1>11, <3>1, <3>2 DEF InUse
  <2>2. Back(q) \in InUse(r)
    BY <1>1, <1>3, <1>10 DEF InUse
  <2>3. ASSUME NEW s \in InUse(q) PROVE s \in InUse(r)
    <3>1. PICK j \in 0 .. q.size - 1 : s = At(q, j)
      BY <2>3 DEF InUse
    <3>2. CASE j < i
      BY <1>1, <1>3, <1>9, <3>1, <3>2 DEF InUse
    <3>3. CASE j >= i
      <4>1. j + 1 \in i + 1 .. q.size /\ j + 1 \in 0 .. r.size - 1 /\ (j + 1) - 1 = j
        BY <1>1, <1>3, <3>3
      <4>2. QED
        BY <1>11, <3>1, <4>1 DEF InUse
    <3>4. QED
      BY <1>1, <3>2, <3>3
  <2>4. QED
    BY <2>1, <2>2, <2>3
<1>13. QED
  BY <1>3, <1>5, <1>8, <1>9, <1>10, <1>11, <1>12 DEF PermOk, r

\* Remove takes the slot at position i out.
LEMMA Removed ==
  ASSUME NEW q, PermOk(q), NEW i \in 0 .. q.size - 1
  PROVE  LET r == Remove(q, i) IN
         /\ PermOk(r) /\ r.size = q.size - 1
         /\ InUse(r) = InUse(q) \ {At(q, i)}
         /\ \A j \in 0 .. i - 1 : At(r, j) = At(q, j)
         /\ \A j \in i .. q.size - 2 : At(r, j) = At(q, j + 1)
<1> USE WAssumption
<1> DEFINE r == Remove(q, i)
<1>1. q.ord \in [1 .. W -> Slot] /\ q.size \in 1 .. W
  BY DEF PermOk, Perm
<1>2. At(q, i) = q.ord[i + 1]
  BY DEF At
<1>3. /\ r.size = q.size - 1 /\ DOMAIN r.ord = 1 .. W
      /\ \A j \in 1 .. W : r.ord[j] = IF j <= i \/ j > q.size THEN q.ord[j]
                                      ELSE IF j = q.size THEN q.ord[i + 1] ELSE q.ord[j + 1]
      /\ r = [ord |-> r.ord, size |-> r.size]
      /\ r.ord = [j \in 1 .. W |-> r.ord[j]]
  BY <1>2 DEF Remove
<1> HIDE DEF r
<1>4. \A j \in 1 .. W : r.ord[j] \in Slot
  BY <1>1, <1>3
<1>5. r \in Perm
  BY <1>1, <1>3, <1>4 DEF Perm
<1>6. \A j, k \in 1 .. W : q.ord[j] = q.ord[k] => j = k
  BY DEF PermOk
<1>8. \A j, k \in 1 .. W : r.ord[j] = r.ord[k] => j = k
  <2>1. SUFFICES ASSUME NEW j \in 1 .. W, NEW k \in 1 .. W, r.ord[j] = r.ord[k] PROVE j = k
    OBVIOUS
  <2> DEFINE old(m) == IF m <= i \/ m > q.size THEN m ELSE IF m = q.size THEN i + 1 ELSE m + 1
  <2>2. old(j) \in 1 .. W /\ old(k) \in 1 .. W
    BY <1>1
  <2>3. r.ord[j] = q.ord[old(j)] /\ r.ord[k] = q.ord[old(k)]
    BY <1>1, <1>3
  <2>4. old(j) = old(k)
    BY <1>6, <2>1, <2>2, <2>3
  <2>5. QED
    BY <1>1, <2>4
<1>9. \A j \in 0 .. i - 1 : At(r, j) = At(q, j)
  BY <1>1, <1>3 DEF At
<1>10. \A j \in i .. q.size - 2 : At(r, j) = At(q, j + 1)
  <2>1. SUFFICES ASSUME NEW j \in i .. q.size - 2 PROVE r.ord[j + 1] = q.ord[(j + 1) + 1]
    BY DEF At
  <2>2. j + 1 \in 1 .. W /\ j + 1 > i /\ j + 1 < q.size
    BY <1>1
  <2>3. QED
    BY <1>1, <1>3, <2>2
<1>11. InUse(r) = InUse(q) \ {At(q, i)}
  <2>1. ASSUME NEW s \in InUse(r) PROVE s \in InUse(q) \ {At(q, i)}
    <3>1. PICK j \in 0 .. q.size - 2 : s = At(r, j)
      BY <1>1, <1>3, <2>1 DEF InUse
    <3>2. \E k \in 0 .. q.size - 1 : k # i /\ s = At(q, k)
      <4>1. CASE j < i
        BY <1>1, <1>9, <3>1, <4>1
      <4>2. CASE j >= i
        BY <1>1, <1>10, <3>1, <4>2
      <4>3. QED
        BY <1>1, <4>1, <4>2
    <3>3. QED
      BY <1>1, <3>2, Positions DEF InUse
  <2>2. ASSUME NEW s \in InUse(q) \ {At(q, i)} PROVE s \in InUse(r)
    <3>1. PICK j \in 0 .. q.size - 1 : s = At(q, j) /\ j # i
      BY <2>2 DEF InUse
    <3>2. CASE j < i
      BY <1>1, <1>3, <1>9, <3>1, <3>2 DEF InUse
    <3>3. CASE j > i
      <4>1. j - 1 \in i .. q.size - 2 /\ j - 1 \in 0 .. r.size - 1 /\ (j - 1) + 1 = j
        BY <1>1, <1>3, <3>3
      <4>2. QED
        BY <1>10, <3>1, <4>1 DEF InUse
    <3>4. QED
      BY <1>1, <3>1, <3>2, <3>3
  <2>3. QED
    BY <2>1, <2>2
<1>12. QED
  BY <1>3, <1>5, <1>8, <1>9, <1>10, <1>11 DEF PermOk, r

\* An empty leaf, and the two forms of a new leaf with one key.
LEMMA NewPerms ==
  /\ PermOk(MakeEmpty) /\ MakeEmpty.size = 0 /\ InUse(MakeEmpty) = {}
  /\ LET r == MakeSorted(1) IN
     PermOk(r) /\ r.size = 1 /\ At(r, 0) = 0 /\ InUse(r) = {0} /\ Back(r) = 1
  /\ LET r == RemoveToBack(MakeSorted(2), 0) IN
     PermOk(r) /\ r.size = 1 /\ At(r, 0) = 1 /\ InUse(r) = {1} /\ Back(r) = 0
<1> USE WAssumption, TwoSlots
<1>1. PermOk(MakeEmpty) /\ MakeEmpty.size = 0 /\ InUse(MakeEmpty) = {}
  BY DEF PermOk, Perm, MakeEmpty, Slot, InUse
<1>2. LET r == MakeSorted(1) IN
      PermOk(r) /\ r.size = 1 /\ At(r, 0) = 0 /\ InUse(r) = {0} /\ Back(r) = 1
  <2> DEFINE r == MakeSorted(1)
  <2>1. /\ r.size = 1 /\ r.ord = [j \in 1 .. W |-> IF j <= 1 THEN j - 1 ELSE W - (j - 1)]
        /\ r = [ord |-> r.ord, size |-> r.size]
    BY DEF MakeSorted
  <2> HIDE DEF r
  <2>2. r \in Perm
    BY <2>1 DEF Perm, Slot
  <2>3. \A i, j \in 1 .. W : r.ord[i] = r.ord[j] => i = j
    BY <2>1
  <2>4. At(r, 0) = 0 /\ Back(r) = 1
    BY <2>1 DEF At, Back
  <2>5. InUse(r) = {0}
    BY <2>1, <2>4 DEF InUse
  <2>6. QED
    BY <2>1, <2>2, <2>3, <2>4, <2>5 DEF PermOk, r
<1>3. LET r == RemoveToBack(MakeSorted(2), 0) IN
      PermOk(r) /\ r.size = 1 /\ At(r, 0) = 1 /\ InUse(r) = {1} /\ Back(r) = 0
  <2> DEFINE m == MakeSorted(2)
             r == RemoveToBack(m, 0)
  <2>1. m.size = 2 /\ m.ord = [j \in 1 .. W |-> IF j <= 2 THEN j - 1 ELSE W - (j - 2)]
    BY DEF MakeSorted
  <2> HIDE DEF m
  <2>2. /\ r.size = 1
        /\ r.ord = [j \in 1 .. W |-> IF j <= 0 THEN m.ord[j] ELSE IF j = W THEN m.ord[0 + 1] ELSE m.ord[j + 1]]
        /\ r = [ord |-> r.ord, size |-> r.size]
    BY <2>1 DEF RemoveToBack, At
  <2> HIDE DEF r
  <2>3. \A j \in 1 .. W : r.ord[j] = IF j = W THEN 0 ELSE IF j = 1 THEN 1 ELSE W - (j - 1)
    <3>1. SUFFICES ASSUME NEW j \in 1 .. W
                   PROVE  r.ord[j] = IF j = W THEN 0 ELSE IF j = 1 THEN 1 ELSE W - (j - 1)
      OBVIOUS
    <3>2. CASE j = W
      <4>1. r.ord[j] = m.ord[0 + 1]
        BY <2>2, <3>2
      <4>2. m.ord[0 + 1] = 0
        BY <2>1
      <4>3. QED
        BY <3>2, <4>1, <4>2
    <3>3. CASE j # W
      <4>1. j + 1 \in 1 .. W /\ r.ord[j] = m.ord[j + 1]
        BY <2>2, <3>3
      <4>2. m.ord[j + 1] = IF j + 1 <= 2 THEN (j + 1) - 1 ELSE W - ((j + 1) - 2)
        BY <2>1, <4>1
      <4>3. QED
        BY <3>3, <4>1, <4>2
    <3>4. QED
      BY <3>2, <3>3
  <2>4. r \in Perm
    <3>1. \A j \in 1 .. W : r.ord[j] \in Slot
      BY <2>3 DEF Slot
    <3>2. DOMAIN r.ord = 1 .. W /\ r.ord = [j \in 1 .. W |-> r.ord[j]]
      BY <2>2
    <3>3. QED
      BY <2>2, <3>1, <3>2 DEF Perm
  <2>5. \A i, j \in 1 .. W : r.ord[i] = r.ord[j] => i = j
    BY <2>3
  <2>6. At(r, 0) = 1 /\ Back(r) = 0
    BY <2>3 DEF At, Back
  <2>7. InUse(r) = {1}
    BY <2>2, <2>6 DEF InUse
  <2>8. QED
    BY <2>2, <2>4, <2>5, <2>6, <2>7 DEF PermOk, r, m
<1>4. QED
  BY <1>1, <1>2, <1>3

-----------------------------------------------------------------------------
(* The invariant *)

Optimistic == {"perm", "lower", "search", "lv", "keylenx", "ksuf", "check", "validate"}
Searched == {"lv", "keylenx", "ksuf", "check", "validate"}
Assigning == {"a_lv", "a_ikey", "a_keylenx", "a_ksuf", "value", "publish"}
Layering == {"l_lv", "l_keylenx", "l_unlock"}
Removing == {"remove", "r_perm"}
Working == {"update", "insert", "layer", "gc", "gc_lock", "unlock"} \cup Assigning \cup Layering \cup Removing
Holding == {"validate"} \cup Working

Types == TypeOK /\ \A t \in Thread : PermOk(loc[t].perm) /\ PermOk(loc[t].perm0)

\* The slots in use are in the order of their ikeys.
Sorted(L) ==
  \A i, j \in 0 .. L.perm.size - 1 : i < j => L.ikey[At(L.perm, i)] < L.ikey[At(L.perm, j)]
Leaves ==
  /\ \A x \in LeafId : PermOk(leaf[x].perm) /\ Sorted(leaf[x])
  /\ \A y \in fresh : leaf[y] = EmptyLeaf

\* A slot of Top has a key and its value, or a layer of its own; between the two
\* stores that turn the one into the other it has the length of the first and
\* the pointer of the second.
Turning(q) == \E t \in Thread : pc[t] = "l_keylenx" /\ loc[t].p = q
TopSlots ==
  /\ leaf[Top].modstate # "deleted_layer"
  /\ \A q \in InUse(leaf[Top].perm) :
       \/ leaf[Top].keylenx[q] = "layer" /\ leaf[Top].lv[q] \in LayerLeaf \ fresh
       \/ /\ leaf[Top].keylenx[q] = "ksuf" /\ leaf[Top].ksuf[q] \in Key
          /\ leaf[Top].lv[q] \in Val \/ (Turning(q) /\ leaf[Top].lv[q] \in LayerLeaf \ fresh)
  /\ \A q, r \in InUse(leaf[Top].perm) :
       leaf[Top].lv[q] \in LayerLeaf /\ leaf[Top].lv[q] = leaf[Top].lv[r] => q = r

\* A layer's leaf has values only.
LayerSlots ==
  \A y \in LayerLeaf :
    /\ \A p \in Slot : leaf[y].keylenx[p] = "short"
    /\ \A p \in InUse(leaf[y].perm) : leaf[y].lv[p] \in Val

Dead ==
  \A y \in LayerLeaf :
    leaf[y].modstate = "deleted_layer" =>
      /\ leaf[y].perm.size = 0
      /\ \/ \E t \in Thread : pc[t] \in Removing /\ loc[t].lv = y
         \/ \A p \in InUse(leaf[Top].perm) : leaf[Top].lv[p] # y

\* Key k has value v in leaf y of a layer, in slot q of Top, in the leaves lf.
LayerHolds(lf, y, k, v) == \E r \in InUse(lf[y].perm) : lf[y].ikey[r] = k /\ lf[y].lv[r] = v
SlotHolds(lf, q, k, v) ==
  /\ lf[Top].ikey[q] = IkeyOf[k]
  /\ \/ \E y \in LayerLeaf : lf[Top].lv[q] = y /\ LayerHolds(lf, y, k, v)
     \/ lf[Top].lv[q] \notin LayerLeaf /\ lf[Top].ksuf[q] = k /\ lf[Top].lv[q] = v
Holds(lf, k, v) == \E q \in InUse(lf[Top].perm) : SlotHolds(lf, q, k, v)
Content == \A k \in Key : \A v \in Val : Holds(leaf, k, v) <=> map[k] = v

Store == Leaves /\ TopSlots /\ LayerSlots /\ Dead /\ Content

\* Who holds which lock.
Locks(t) ==
  /\ pc[t] \in Holding => N(t).lock = t
  /\ pc[t] \in Layering => leaf[loc[t].lv].lock = t
  /\ pc[t] \in Holding \cup {"lower"} => ~ Get(t)
  /\ pc[t] # "idle" => req[t] \in Request \cup GcRequest

\* A thread is in Top, or in the layer of its key, which may have been removed.
Linked(y, a) == \E q \in InUse(leaf[Top].perm) : leaf[Top].ikey[q] = a /\ leaf[Top].lv[q] = y
Placed(t) ==
  \/ loc[t].n = Top
  \/ /\ pc[t] \notin {"idle", "done"} /\ req[t].op # "gc"
     /\ loc[t].n \in LayerLeaf \ fresh
     /\ Linked(loc[t].n, IkeyOf[req[t].key]) \/ leaf[loc[t].n].modstate = "deleted_layer"

\* ikey a is not in leaf L and belongs at position i; it is there, in slot p.
NotThere(L, i, a) ==
  /\ i \in 0 .. L.perm.size
  /\ \A j \in 0 .. i - 1 : L.ikey[At(L.perm, j)] < a
  /\ \A j \in i .. L.perm.size - 1 : a < L.ikey[At(L.perm, j)]
There(L, i, p, a) == i \in 0 .. L.perm.size - 1 /\ p = At(L.perm, i) /\ L.ikey[p] = a

\* Slot p has the key of t's request.
Mine(t, p) ==
  \/ loc[t].n = Top /\ N(t).keylenx[p] = "ksuf" /\ N(t).ksuf[p] = req[t].key
  \/ loc[t].n # Top /\ N(t).keylenx[p] = "short"

\* What the holder of a lock knows: of the slot that it assigns, ...
HeldAssigning(t) ==
  LET x == loc[t] L == N(t) IN
  /\ NotThere(L, x.i, KaIkey(t))
  /\ x.p = Back(L.perm) /\ L.perm.size < W /\ L.modstate = "insert"
  /\ pc[t] \in Assigning \ {"a_lv", "a_ikey"} => L.ikey[x.p] = KaIkey(t)
  /\ pc[t] = "a_ksuf" => x.n = Top /\ L.keylenx[x.p] = "ksuf"
  /\ pc[t] \in {"value", "publish"} => Mine(t, x.p)
  /\ pc[t] = "publish" => L.lv[x.p] = req[t].val

\* ... of the slot that it turns into a layer, ...
HeldLayer(t) ==
  LET x == loc[t] L == N(t) IN
  /\ x.n = Top
  /\ x.p \in InUse(L.perm) /\ L.ikey[x.p] = KaIkey(t)
  /\ L.ksuf[x.p] # req[t].key
  /\ L.keylenx[x.p] = IF pc[t] = "l_unlock" THEN "layer" ELSE "ksuf"

\* ... of the new leaf, ...
HeldLayering(t) ==
  LET x == loc[t] L == N(t) M == leaf[x.lv] IN
  /\ x.lv \in LayerLeaf \ fresh
  /\ L.inserting
  /\ x.i \in {0, 1}
  /\ M.modstate = "insert"
  /\ M.perm.size = 1 /\ At(M.perm, 0) = 1 - x.i /\ Back(M.perm) = x.i
  /\ M.ikey[x.i] = req[t].key
  /\ M.ikey[1 - x.i] = L.ksuf[x.p]
  /\ NotThere(M, x.i, req[t].key)
  /\ pc[t] = "l_lv" => M.lv[1 - x.i] = L.lv[x.p] /\ \A q \in InUse(L.perm) : L.lv[q] # x.lv
  /\ pc[t] # "l_lv" => L.lv[x.p] = x.lv

\* ... of the slot that it takes out, ...
HeldRemoving(t) ==
  LET x == loc[t] L == N(t) p == At(L.perm, x.i) IN
  /\ There(L, x.i, p, KaIkey(t))
  /\ req[t].op = "gc" =>
       /\ L.keylenx[p] = "layer" /\ L.lv[p] = x.lv
       /\ x.lv \in LayerLeaf /\ leaf[x.lv].modstate = "deleted_layer"
  /\ req[t].op # "gc" => req[t].op = "remove" /\ Mine(t, p) /\ x.lv = Empty
  /\ pc[t] = "r_perm" => L.modstate = "remove"

\* ... and of its request.
Held(t) ==
  /\ pc[t] \in Working => N(t).modstate # "deleted_layer"
  /\ pc[t] \in {"update", "insert", "layer"} \cup Assigning \cup Layering => req[t].op = "put"
  /\ pc[t] \in {"gc", "gc_lock"} => req[t].op = "gc"
  /\ pc[t] = "update" => There(N(t), loc[t].i, loc[t].p, KaIkey(t)) /\ Mine(t, loc[t].p)
  /\ pc[t] = "insert" => NotThere(N(t), loc[t].i, KaIkey(t))
  /\ pc[t] \in Assigning => HeldAssigning(t)
  /\ pc[t] \in {"layer"} \cup Layering => HeldLayer(t)
  /\ pc[t] \in Layering => HeldLayering(t)
  /\ pc[t] \in Removing => HeldRemoving(t)
  /\ pc[t] = "gc_lock" =>
       LET p == At(N(t).perm, loc[t].i) IN
       There(N(t), loc[t].i, p, KaIkey(t)) /\ N(t).keylenx[p] = "layer" /\ N(t).lv[p] = loc[t].lv

\* The slots that a thread without the lock has seen.
Seen(t) == IF pc[t] = "search" THEN InUse(loc[t].perm)
           ELSE IF loc[t].p # -1 THEN {loc[t].p} ELSE {}
\* Permutation c is a or came after it: while there was no change to notice,
\* slots were only added (m = "insert") or only taken out.
Grow(a, c, m) ==
  \/ a = c
  \/ m = "insert" /\ a.size < c.size
  \/ m # "insert" /\ c.size < a.size

\* Slot q of leaf x has a key with its value or layer, and is in use or was.
Whole(x, q) ==
  /\ \/ x = Top /\ leaf[x].keylenx[q] = "layer" /\ leaf[x].lv[q] \in LayerLeaf \ fresh
     \/ x = Top /\ leaf[x].keylenx[q] = "ksuf" /\ leaf[x].lv[q] \in Val
     \/ x # Top /\ leaf[x].keylenx[q] = "short" /\ leaf[x].lv[q] \in Val
  /\ \/ q \in InUse(leaf[x].perm)
     \/ /\ leaf[x].modstate # "insert"
        /\ leaf[x].keylenx[q] = "layer" => leaf[leaf[x].lv[q]].modstate = "deleted_layer"

\* What a thread that reads without the lock knows if the version is the same:
\* of the permutation, ...
KnowsPerm(t) ==
  LET x == loc[t] L == N(t) IN
  /\ pc[t] = "lower" => Grow(x.perm0, L.perm, L.modstate)
  /\ pc[t] = "search" =>
       /\ Grow(x.perm, L.perm, L.modstate)
       /\ Get(t) \/ Grow(x.perm0, x.perm, L.modstate)
       /\ \A j \in 0 .. x.i - 1 : L.ikey[At(x.perm, j)] < KaIkey(t)
  /\ pc[t] \in Searched =>
       /\ Get(t) \/ Grow(x.perm0, L.perm, L.modstate)
       /\ req[t].op \in {"put", "remove"} /\ L.perm = x.perm0 =>
            /\ x.p = -1 => NotThere(L, x.i, KaIkey(t))
            /\ x.p # -1 => There(L, x.i, x.p, KaIkey(t))

\* ... and of the slot it has found.
KnowsSlot(t) ==
  LET x == loc[t] L == N(t) IN
  /\ L.ikey[x.p] = KaIkey(t)
  /\ pc[t] # "lv" =>
       \/ L.keylenx[x.p] = "layer" /\ x.lv = L.lv[x.p]
       \/ L.keylenx[x.p] # "layer" /\ x.lv \in Val
  /\ pc[t] = "ksuf" => L.keylenx[x.p] = "ksuf"
  /\ pc[t] \in {"check", "validate"} =>
       /\ x.match = 1 => L.keylenx[x.p] = "short" \/ (L.keylenx[x.p] = "ksuf" /\ L.ksuf[x.p] = req[t].key)
       /\ x.match = -1 => L.keylenx[x.p] = "layer" /\ pc[t] = "check"
       /\ x.match = 0 => L.keylenx[x.p] = "ksuf" /\ L.ksuf[x.p] # req[t].key

Looked(t) ==
  pc[t] \in Optimistic =>
    /\ loc[t].v <= N(t).vinsert
    /\ pc[t] \in {"perm", "lower", "search"} => loc[t].p = -1 /\ loc[t].i \in 0 .. loc[t].perm.size
    /\ pc[t] \in {"perm", "lower"} => loc[t].i = 0
    /\ pc[t] \in Optimistic \ {"check", "validate"} => loc[t].match = 0
    /\ loc[t].p = -1 => loc[t].match = 0
    /\ pc[t] \in {"lv", "keylenx", "ksuf"} => loc[t].p # -1
    /\ loc[t].p # -1 => req[t].op # "gc"
    /\ ~ HasChanged(t) =>
         /\ \A q \in Seen(t) : Whole(loc[t].n, q)
         /\ KnowsPerm(t)
         /\ loc[t].p # -1 => KnowsSlot(t)

Own(t) == Locks(t) /\ Placed(t) /\ Held(t) /\ Looked(t)

LeafInv == Types /\ Store /\ \A t \in Thread : Own(t)
-----------------------------------------------------------------------------
(* Values *)

LEMMA LeafFields ==
  ASSUME NEW L \in LeafRecord
  PROVE  /\ L.lock \in Thread \cup {NoThread} /\ L.inserting \in BOOLEAN /\ L.vinsert \in Nat
         /\ L.perm \in Perm /\ L.modstate \in {"insert", "remove", "deleted_layer"}
         /\ L.ikey \in [Slot -> Ikey \cup {0}] /\ L.keylenx \in [Slot -> {"short", "ksuf", "layer"}]
         /\ L.ksuf \in [Slot -> Key \cup {NoSuffix}] /\ L.lv \in [Slot -> LeafValue]
BY DEF LeafRecord

LEMMA LocalFields ==
  ASSUME NEW x \in Locals
  PROVE  /\ x.n \in LeafId /\ x.v \in Nat /\ x.perm \in Perm /\ x.perm0 \in Perm /\ x.i \in 0 .. W
         /\ x.p \in Slot \cup {-1} /\ x.lv \in LeafValue /\ x.match \in {-1, 0, 1}
BY DEF Locals

LEMMA Ikeys == Ikey \cup {0} \subseteq Nat /\ TopIkey \subseteq Ikey /\ Key \subseteq Ikey
<1>1. TopIkey \subseteq Nat
  BY KeyAssumption DEF TopIkey
<1>2. QED
  BY <1>1, KeyAssumption DEF Ikey

LEMMA Requests ==
  ASSUME NEW r \in Request \cup GcRequest
  PROVE  /\ r.op \in {"get", "put", "remove", "gc"}
         /\ r.op = "gc" => r.ikey \in TopIkey
         /\ r.op # "gc" => r.key \in Key /\ IkeyOf[r.key] \in TopIkey
         /\ r.op = "put" => r.val \in Val
<1>1. CASE r \in [op : {"get", "remove"}, key : Key]
  BY <1>1 DEF TopIkey
<1>2. CASE r \in {s \in [op : {"put"}, key : Key, val : Val] : s.val \in PutVals[s.key]}
  BY <1>2 DEF TopIkey
<1>3. CASE r \in GcRequest
  BY <1>3 DEF GcRequest
<1>4. QED
  BY <1>1, <1>2, <1>3 DEF Request

LEMMA KaIsIkey ==
  ASSUME NEW t \in Thread, req[t] \in Request \cup GcRequest
  PROVE  KaIkey(t) \in Ikey /\ KaIkey(t) \in Nat
BY Requests, Ikeys DEF KaIkey

LEMMA LeafTypes ==
  ASSUME TypeOK, NEW x \in LeafId
  PROVE  /\ leaf[x] \in LeafRecord
         /\ leaf[x].lock \in Thread \cup {NoThread} /\ leaf[x].inserting \in BOOLEAN
         /\ leaf[x].vinsert \in Nat /\ leaf[x].perm \in Perm /\ leaf[x].perm.size \in 0 .. W
         /\ leaf[x].modstate \in {"insert", "remove", "deleted_layer"}
         /\ \A p \in Slot : /\ leaf[x].ikey[p] \in Nat
                            /\ leaf[x].keylenx[p] \in {"short", "ksuf", "layer"}
                            /\ leaf[x].ksuf[p] \in Key \cup {NoSuffix} /\ leaf[x].lv[p] \in LeafValue
<1>1. leaf[x] \in LeafRecord
  BY DEF TypeOK
<1>2. leaf[x].perm.size \in 0 .. W
  BY <1>1, LeafFields DEF Perm
<1>3. \A p \in Slot : leaf[x].ikey[p] \in Nat
  BY <1>1, LeafFields, Ikeys
<1>4. QED
  BY <1>1, <1>2, <1>3, LeafFields

LEMMA LocalTypes ==
  ASSUME TypeOK, NEW t \in Thread
  PROVE  /\ loc[t] \in Locals
         /\ loc[t].n \in LeafId /\ loc[t].v \in Nat /\ loc[t].perm \in Perm /\ loc[t].perm0 \in Perm
         /\ loc[t].perm.size \in 0 .. W /\ loc[t].perm0.size \in 0 .. W
         /\ loc[t].i \in 0 .. W /\ loc[t].p \in Slot \cup {-1} /\ loc[t].lv \in LeafValue
         /\ loc[t].match \in {-1, 0, 1} /\ N(t) = leaf[loc[t].n]
<1>1. loc[t] \in Locals
  BY DEF TypeOK
<1>2. QED
  BY <1>1, LocalFields DEF Perm, N

LEMMA TopIsLeaf == Top \in LeafId /\ LayerLeaf \subseteq LeafId /\ Top \notin LayerLeaf
BY ValuesAssumption DEF LeafId

LEMMA SlotIsNoError == -1 \notin Slot /\ Slot \subseteq Nat
BY WAssumption DEF Slot

-----------------------------------------------------------------------------
(* What a step of t leaves to the others *)

\* A change of leaf x that a reader need not notice, ...
Harmless(x) ==
  /\ Grow(leaf[x].perm, leaf'[x].perm, leaf'[x].modstate)
  /\ \/ leaf[x].modstate = "insert" <=> leaf'[x].modstate = "insert"
     \/ leaf'[x].perm = leaf[x].perm /\ leaf[x].perm.size = 0 /\ leaf'[x].modstate # "insert"
  /\ \A q \in Slot :
       q \in InUse(leaf[x].perm) \/ leaf[x].modstate # "insert" =>
         /\ leaf'[x].ikey[q] = leaf[x].ikey[q] /\ leaf'[x].keylenx[q] = leaf[x].keylenx[q]
         /\ leaf'[x].ksuf[q] = leaf[x].ksuf[q]
         /\ \/ leaf'[x].lv[q] = leaf[x].lv[q]
            \/ q \in InUse(leaf'[x].perm) /\ leaf[x].lv[q] \in Val /\ leaf'[x].lv[q] \in Val
  /\ \A q \in InUse(leaf[x].perm) :
       \/ q \in InUse(leaf'[x].perm)
       \/ /\ leaf'[x].modstate # "insert"
          /\ leaf'[x].keylenx[q] = "layer" => leaf'[leaf'[x].lv[q]].modstate = "deleted_layer"

\* ... and any change that it either notices or need not notice.
Calm(x) ==
  /\ leaf'[x].vinsert >= leaf[x].vinsert
  /\ leaf[x].inserting => leaf'[x].inserting \/ leaf'[x].vinsert > leaf[x].vinsert
  /\ leaf'[x].inserting \/ leaf'[x].vinsert > leaf[x].vinsert \/ Harmless(x)

\* Thread u is where it was.
Same(u) == pc'[u] = pc[u] /\ loc'[u] = loc[u] /\ req'[u] = req[u]

\* A step may do this to the leaves that other threads can be at: t or nobody
\* has the lock of a leaf that changes; a dead leaf stays dead; and a layer
\* that is taken out is dead.
Gentle(t) ==
  /\ fresh' \subseteq fresh
  /\ \A x \in LeafId \ fresh :
       /\ Calm(x)
       /\ leaf'[x] # leaf[x] => leaf[x].lock \in {t, NoThread}
  /\ \A y \in LayerLeaf : leaf[y].modstate = "deleted_layer" => leaf'[y].modstate = "deleted_layer"
  /\ \A y \in LayerLeaf \ fresh, a \in TopIkey :
       Linked(y, a) => Linked(y, a)' \/ leaf[y].modstate = "deleted_layer"
  /\ \A u \in Thread \ {t} : Same(u)

LEMMA GrowKept ==
  ASSUME NEW a, NEW b, NEW m, NEW n, a.size \in Nat, b.size \in Nat, Grow(a, b, m),
         (m = "insert" <=> n = "insert") \/ (b.size = 0 /\ n # "insert")
  PROVE  Grow(a, b, n)
BY DEF Grow

LEMMA GrowTrans ==
  ASSUME NEW a, NEW b, NEW c, NEW m, a.size \in Nat, b.size \in Nat, c.size \in Nat,
         Grow(a, b, m), Grow(b, c, m)
  PROVE  Grow(a, c, m) /\ (a = c => a = b)
BY DEF Grow

LEMMA InUseSlots == ASSUME NEW q \in Perm PROVE InUse(q) \subseteq Slot /\ q.size \in Nat
<1>1. q.ord \in [1 .. W -> Slot] /\ q.size \in 0 .. W
  BY DEF Perm
<1>2. \A i \in 0 .. q.size - 1 : i + 1 \in 1 .. W
  BY <1>1, WAssumption
<1>3. QED
  BY <1>1, <1>2, WAssumption DEF InUse, At

LEMMA SameIsCalm ==
  ASSUME TypeOK, NEW x \in LeafId, leaf'[x] = leaf[x]
  PROVE  Calm(x)
BY LeafTypes DEF Calm, Harmless, Grow

\* Who holds a lock finds his leaves as they were.
LEMMA HeldKept ==
  ASSUME NEW u \in Thread, Held(u), Same(u), fresh' \subseteq fresh,
         pc[u] \in Working => N(u)' = N(u),
         pc[u] \in Layering => leaf'[loc[u].lv] = leaf[loc[u].lv],
         \A y \in LayerLeaf : leaf[y].modstate = "deleted_layer" => leaf'[y].modstate = "deleted_layer"
  PROVE  Held(u)'
<1>1. CASE pc[u] \notin Working
  BY <1>1 DEF Held, Same, Working, Assigning, Layering, Removing
<1>2. CASE pc[u] \in Working
  <2>1. /\ N(u)' = N(u) /\ pc'[u] = pc[u] /\ loc'[u] = loc[u] /\ req'[u] = req[u]
        /\ KaIkey(u)' = KaIkey(u)
    BY <1>2 DEF Same, KaIkey
  <2>2. \A p : Mine(u, p)' <=> Mine(u, p)
    BY <2>1 DEF Mine
  <2>3. HeldAssigning(u) => HeldAssigning(u)'
    BY <2>1, <2>2 DEF HeldAssigning, NotThere
  <2>4. HeldLayer(u) => HeldLayer(u)'
    BY <2>1 DEF HeldLayer
  <2>5. pc[u] \in Layering /\ HeldLayering(u) => HeldLayering(u)'
    <3>1. SUFFICES ASSUME pc[u] \in Layering, HeldLayering(u) PROVE HeldLayering(u)'
      OBVIOUS
    <3>2. leaf'[loc'[u].lv] = leaf[loc[u].lv]
      BY <2>1, <3>1
    <3>3. QED
      BY <2>1, <3>1, <3>2 DEF HeldLayering, NotThere
  <2>6. HeldRemoving(u) => HeldRemoving(u)'
    BY <2>1, <2>2 DEF HeldRemoving, There
  <2>7. QED
    BY <2>1, <2>2, <2>3, <2>4, <2>5, <2>6 DEF Held, There, NotThere
<1>3. QED
  BY <1>1, <1>2

\* Whoever looks without the lock still knows what it knew, or notices.
LEMMA LookedKept ==
  ASSUME Types, Types', NEW u \in Thread, Looked(u), Same(u), fresh' \subseteq fresh, Calm(loc[u].n),
         \A y \in LayerLeaf : leaf[y].modstate = "deleted_layer" => leaf'[y].modstate = "deleted_layer"
  PROVE  Looked(u)'
<1> DEFINE x == loc[u]
           L == leaf[x.n]
           M == leaf'[x.n]
<1>1. SUFFICES ASSUME pc[u] \in Optimistic PROVE Looked(u)'
  BY DEF Looked, Same
<1>2. /\ x \in Locals /\ x.n \in LeafId /\ x.v \in Nat /\ x.i \in 0 .. W /\ x.p \in Slot \cup {-1}
      /\ PermOk(x.perm) /\ PermOk(x.perm0) /\ x.perm.size \in 0 .. W /\ x.perm0.size \in 0 .. W
      /\ L.vinsert \in Nat /\ M.vinsert \in Nat /\ L.perm.size \in Nat /\ M.perm.size \in Nat
      /\ InUse(L.perm) \subseteq Slot /\ L.inserting \in BOOLEAN /\ M.inserting \in BOOLEAN
  <2>1. TypeOK /\ TypeOK' /\ \A v \in Thread : PermOk(loc[v].perm) /\ PermOk(loc[v].perm0)
    BY DEF Types
  <2>2. leaf'[x.n] \in LeafRecord
    BY <2>1, LocalTypes DEF TypeOK
  <2>3. M.perm.size \in Nat /\ L.perm.size \in Nat /\ InUse(L.perm) \subseteq Slot
    BY <2>1, <2>2, LeafFields, LocalTypes, LeafTypes, InUseSlots
  <2>4. QED
    BY <2>1, <2>2, <2>3, LocalTypes, LeafTypes, LeafFields
<1>3. /\ N(u) = L /\ N(u)' = M /\ pc'[u] = pc[u] /\ loc'[u] = x /\ req'[u] = req[u]
      /\ KaIkey(u)' = KaIkey(u) /\ (Get(u)' <=> Get(u)) /\ Seen(u)' = Seen(u)
      /\ (HasChanged(u) <=> L.inserting \/ L.vinsert # x.v)
      /\ (HasChanged(u)' <=> M.inserting \/ M.vinsert # x.v)
  BY DEF Same, N, KaIkey, Get, Seen, HasChanged
<1>4. x.v <= L.vinsert /\ M.vinsert >= L.vinsert
  BY <1>1, <1>3 DEF Looked, Calm
<1>5. ASSUME ~ HasChanged(u)'
      PROVE  /\ \A q \in Seen(u)' : Whole(loc[u].n, q)'
             /\ KnowsPerm(u)'
             /\ loc'[u].p # -1 => KnowsSlot(u)'
  <2>1. ~ HasChanged(u) /\ Harmless(x.n)
    <3>1. ~ M.inserting /\ M.vinsert = x.v
      BY <1>3, <1>5
    <3>2. M.vinsert = L.vinsert /\ ~ (M.vinsert > L.vinsert)
      BY <1>2, <1>4, <3>1
    <3>3. ~ L.inserting /\ Harmless(x.n)
      BY <3>1, <3>2 DEF Calm
    <3>4. QED
      BY <1>3, <3>1, <3>2, <3>3
  <2>2. /\ \A q \in Seen(u) : Whole(x.n, q)
        /\ KnowsPerm(u)
        /\ x.p # -1 => KnowsSlot(u)
    BY <1>1, <2>1 DEF Looked
  <2>3. /\ Grow(L.perm, M.perm, M.modstate)
        /\ \/ L.modstate = "insert" <=> M.modstate = "insert"
           \/ M.perm = L.perm /\ L.perm.size = 0 /\ M.modstate # "insert"
        /\ \A q \in Slot :
             q \in InUse(L.perm) \/ L.modstate # "insert" =>
               /\ M.ikey[q] = L.ikey[q] /\ M.keylenx[q] = L.keylenx[q] /\ M.ksuf[q] = L.ksuf[q]
               /\ M.lv[q] = L.lv[q] \/ (L.lv[q] \in Val /\ M.lv[q] \in Val)
        /\ \A q \in InUse(L.perm) :
             \/ q \in InUse(M.perm)
             \/ /\ M.modstate # "insert"
                /\ M.keylenx[q] = "layer" => leaf'[M.lv[q]].modstate = "deleted_layer"
    BY <2>1 DEF Harmless
  <2>4. \A a : a.size \in Nat /\ Grow(a, L.perm, L.modstate) =>
                 Grow(a, M.perm, M.modstate) /\ (M.perm = a => L.perm = a)
    <3>1. SUFFICES ASSUME NEW a, a.size \in Nat, Grow(a, L.perm, L.modstate)
                   PROVE  Grow(a, M.perm, M.modstate) /\ (M.perm = a => L.perm = a)
      OBVIOUS
    <3>2. Grow(a, L.perm, M.modstate)
      <4>1. L.perm.size \in Nat
        BY <1>2
      <4>2. (L.modstate = "insert" <=> M.modstate = "insert") \/ (L.perm.size = 0 /\ M.modstate # "insert")
        BY <2>3
      <4>3. QED
        BY ONLY <3>1, <4>1, <4>2, GrowKept
    <3>3. L.perm.size \in Nat /\ M.perm.size \in Nat /\ Grow(L.perm, M.perm, M.modstate)
      BY <1>2, <2>3
    <3>4. QED
      BY ONLY <3>1, <3>2, <3>3, GrowTrans
  <2>5. \A q \in Seen(u) : q \in Slot /\ (q \in InUse(L.perm) \/ L.modstate # "insert")
    <3>1. InUse(x.perm) \subseteq Slot
      BY <1>2, Positions
    <3>2. \A q \in Seen(u) : q \in Slot
      BY <1>2, <3>1 DEF Seen
    <3>3. QED
      BY <2>2, <3>2 DEF Whole
  <2>6. \A q \in Seen(u) :
          /\ M.ikey[q] = L.ikey[q] /\ M.keylenx[q] = L.keylenx[q] /\ M.ksuf[q] = L.ksuf[q]
          /\ M.lv[q] = L.lv[q] \/ (L.lv[q] \in Val /\ M.lv[q] \in Val)
    BY <2>3, <2>5
  <2>7. \A q \in Seen(u) : Whole(x.n, q)'
    <3>1. SUFFICES ASSUME NEW q \in Seen(u) PROVE Whole(x.n, q)'
      OBVIOUS
    <3>2. Whole(x.n, q) /\ x' = x
      BY <1>3, <2>2
    <3>3. L.keylenx[q] = "layer" => M.lv[q] = L.lv[q] /\ L.lv[q] \in LayerLeaf
      BY <2>6, <3>2, ValuesAssumption DEF Whole
    <3>4. \/ x.n = Top /\ M.keylenx[q] = "layer" /\ M.lv[q] \in LayerLeaf \ fresh'
          \/ x.n = Top /\ M.keylenx[q] = "ksuf" /\ M.lv[q] \in Val
          \/ x.n # Top /\ M.keylenx[q] = "short" /\ M.lv[q] \in Val
      BY <2>6, <3>2, <3>3 DEF Whole
    <3>5. \/ q \in InUse(M.perm)
          \/ /\ M.modstate # "insert"
             /\ M.keylenx[q] = "layer" => leaf'[M.lv[q]].modstate = "deleted_layer"
      <4>1. CASE q \in InUse(L.perm)
        BY <2>3, <4>1
      <4>2. CASE q \notin InUse(L.perm)
        <5>1. L.modstate # "insert" /\ (L.keylenx[q] = "layer" => leaf[L.lv[q]].modstate = "deleted_layer")
          BY <3>2, <4>2 DEF Whole
        <5>2. M.modstate # "insert"
          BY <2>3, <5>1
        <5>3. QED
          BY <2>6, <3>3, <5>1, <5>2
      <4>3. QED
        BY <4>1, <4>2
    <3>6. QED
      BY <3>2, <3>4, <3>5 DEF Whole
  <2>8. \A q \in InUse(L.perm) : q \in Slot /\ M.ikey[q] = L.ikey[q]
    BY <1>2, <2>3
  <2>9. KnowsPerm(u)'
    <3>1. pc[u] = "lower" => Grow(x.perm0, M.perm, M.modstate)
      BY <1>2, <2>2, <2>4, <1>3 DEF KnowsPerm
    <3>2. ASSUME pc[u] = "search"
          PROVE  /\ Grow(x.perm, M.perm, M.modstate)
                 /\ Get(u) \/ Grow(x.perm0, x.perm, M.modstate)
                 /\ \A j \in 0 .. x.i - 1 : M.ikey[At(x.perm, j)] < KaIkey(u)
      <4>1. /\ Grow(x.perm, L.perm, L.modstate)
            /\ Get(u) \/ Grow(x.perm0, x.perm, L.modstate)
            /\ \A j \in 0 .. x.i - 1 : L.ikey[At(x.perm, j)] < KaIkey(u)
        BY <1>3, <2>2, <3>2 DEF KnowsPerm
      <4>2. Grow(x.perm0, x.perm, L.modstate) => Grow(x.perm0, x.perm, M.modstate)
        <5>1. SUFFICES ASSUME Grow(x.perm0, x.perm, L.modstate) PROVE Grow(x.perm0, x.perm, M.modstate)
          OBVIOUS
        <5>2. CASE L.modstate = "insert" <=> M.modstate = "insert"
          BY <1>2, <5>1, <5>2, GrowKept
        <5>3. CASE L.modstate = "insert" /\ M.modstate # "insert" /\ L.perm.size = 0
          <6>1. x.perm.size = 0
            BY <1>2, <4>1, <5>3 DEF Grow
          <6>2. QED
            BY <1>2, <5>1, <5>3, <6>1, GrowKept
        <5>4. QED
          BY <2>3, <5>2, <5>3
      <4>3. \A j \in 0 .. x.i - 1 : M.ikey[At(x.perm, j)] = L.ikey[At(x.perm, j)]
        <5>1. x.i \in 0 .. x.perm.size
          BY <1>1, <3>2 DEF Looked
        <5>2. \A j \in 0 .. x.i - 1 : At(x.perm, j) \in Seen(u)
          BY <1>2, <3>2, <5>1 DEF Seen, InUse
        <5>3. QED
          BY <2>6, <5>2
      <4>4. QED
        BY <1>2, <2>4, <4>1, <4>2, <4>3
    <3>3. ASSUME pc[u] \in Searched
          PROVE  /\ Get(u) \/ Grow(x.perm0, M.perm, M.modstate)
                 /\ req[u].op \in {"put", "remove"} /\ M.perm = x.perm0 =>
                      /\ x.p = -1 => NotThere(M, x.i, KaIkey(u))
                      /\ x.p # -1 => There(M, x.i, x.p, KaIkey(u))
      <4>1. /\ Get(u) \/ Grow(x.perm0, L.perm, L.modstate)
            /\ req[u].op \in {"put", "remove"} /\ L.perm = x.perm0 =>
                 /\ x.p = -1 => NotThere(L, x.i, KaIkey(u))
                 /\ x.p # -1 => There(L, x.i, x.p, KaIkey(u))
        BY <1>3, <2>2, <3>3 DEF KnowsPerm
      <4>2. Get(u) \/ Grow(x.perm0, M.perm, M.modstate)
        BY <1>2, <2>4, <4>1
      <4>3. ASSUME req[u].op \in {"put", "remove"}, M.perm = x.perm0
            PROVE  /\ x.p = -1 => NotThere(M, x.i, KaIkey(u))
                   /\ x.p # -1 => There(M, x.i, x.p, KaIkey(u))
        <5>1. L.perm = x.perm0
          BY <1>2, <2>4, <4>1, <4>3 DEF Get
        <5>2. /\ x.p = -1 => NotThere(L, x.i, KaIkey(u))
              /\ x.p # -1 => There(L, x.i, x.p, KaIkey(u))
          BY <4>1, <4>3, <5>1
        <5>3. \A j \in 0 .. L.perm.size - 1 : M.ikey[At(L.perm, j)] = L.ikey[At(L.perm, j)]
          BY <2>8 DEF InUse
        <5>4. x.p = -1 => NotThere(M, x.i, KaIkey(u))
          BY <1>2, <4>3, <5>1, <5>2, <5>3 DEF NotThere
        <5>5. x.p # -1 => There(M, x.i, x.p, KaIkey(u))
          BY <1>2, <4>3, <5>1, <5>2, <5>3 DEF There
        <5>6. QED
          BY <5>4, <5>5
      <4>4. QED
        BY <4>2, <4>3
    <3>4. QED
      BY <1>3, <3>1, <3>2, <3>3 DEF KnowsPerm
  <2>10. ASSUME x.p # -1 PROVE KnowsSlot(u)'
    <3>1. x.p \in Seen(u) /\ KnowsSlot(u)
      BY <1>1, <2>2, <2>10 DEF Seen, Looked
    <3>2. /\ M.ikey[x.p] = L.ikey[x.p] /\ M.keylenx[x.p] = L.keylenx[x.p] /\ M.ksuf[x.p] = L.ksuf[x.p]
          /\ L.keylenx[x.p] = "layer" => M.lv[x.p] = L.lv[x.p]
      BY <2>2, <2>6, <3>1, ValuesAssumption DEF Whole
    <3>3. QED
      BY <1>3, <3>1, <3>2 DEF KnowsSlot
  <2>11. QED
    BY <1>3, <2>7, <2>9, <2>10
<1>6. QED
  BY <1>1, <1>2, <1>3, <1>4, <1>5 DEF Looked

\* A gentle step of t keeps what every other thread knows.
LEMMA OthersKept ==
  ASSUME LeafInv, Types', NEW t \in Thread, Gentle(t), NEW u \in Thread \ {t}, Same(u)
  PROVE  Own(u)'
<1>1. /\ Types /\ TypeOK /\ Locks(u) /\ Placed(u) /\ Held(u) /\ Looked(u)
      /\ pc'[u] = pc[u] /\ loc'[u] = loc[u] /\ req'[u] = req[u]
      /\ u # NoThread
  BY ValuesAssumption DEF LeafInv, Types, Own, Same
<1>2. /\ fresh' \subseteq fresh
      /\ \A x \in LeafId \ fresh : Calm(x) /\ (leaf'[x] # leaf[x] => leaf[x].lock \in {t, NoThread})
      /\ \A y \in LayerLeaf : leaf[y].modstate = "deleted_layer" => leaf'[y].modstate = "deleted_layer"
      /\ \A y \in LayerLeaf \ fresh, a \in TopIkey :
           Linked(y, a) => Linked(y, a)' \/ leaf[y].modstate = "deleted_layer"
  BY DEF Gentle
<1>3. loc[u].n \in LeafId \ fresh
  BY <1>1, TopIsLeaf DEF Placed, TypeOK
<1>4. pc[u] \in Holding => N(u)' = N(u)
  BY <1>1, <1>2, <1>3 DEF Locks, N
<1>5. pc[u] \in Layering => leaf'[loc[u].lv] = leaf[loc[u].lv]
  <2>1. SUFFICES ASSUME pc[u] \in Layering PROVE leaf'[loc[u].lv] = leaf[loc[u].lv]
    OBVIOUS
  <2>2. loc[u].lv \in LeafId \ fresh
    BY <1>1, <2>1, TopIsLeaf DEF Held, HeldLayering
  <2>3. leaf[loc[u].lv].lock = u
    BY <1>1, <2>1 DEF Locks
  <2>4. QED
    BY <1>1, <1>2, <2>2, <2>3
<1>6. Locks(u)'
  <2>1. Layering \subseteq Holding
    BY DEF Holding, Working
  <2>2. Get(u)' <=> Get(u)
    BY <1>1 DEF Get
  <2>3. pc[u] \in Layering => leaf'[loc'[u].lv] = leaf[loc[u].lv]
    BY <1>1, <1>5
  <2>4. QED
    BY <1>1, <1>4, <2>2, <2>3 DEF Locks
<1>7. Held(u)'
  BY <1>1, <1>2, <1>4, <1>5, HeldKept DEF Holding, Same
<1>8. Looked(u)'
  BY <1>1, <1>2, <1>3, LookedKept DEF Same
<1>9. Placed(u)'
  <2>1. CASE loc[u].n = Top
    BY <1>1, <2>1 DEF Placed
  <2>2. CASE loc[u].n # Top
    <3>1. /\ pc[u] \notin {"idle", "done"} /\ req[u].op # "gc"
          /\ loc[u].n \in LayerLeaf \ fresh
          /\ Linked(loc[u].n, IkeyOf[req[u].key]) \/ leaf[loc[u].n].modstate = "deleted_layer"
      BY <1>1, <2>2 DEF Placed
    <3>2. IkeyOf[req[u].key] \in TopIkey
      BY <1>1, <3>1, Requests DEF Locks
    <3>3. Linked(loc[u].n, IkeyOf[req[u].key])' \/ leaf'[loc[u].n].modstate = "deleted_layer"
      <4>1. CASE Linked(loc[u].n, IkeyOf[req[u].key])
        <5>1. Linked(loc[u].n, IkeyOf[req[u].key])' <=>
              \E q \in InUse(leaf'[Top].perm) :
                leaf'[Top].ikey[q] = IkeyOf[req[u].key] /\ leaf'[Top].lv[q] = loc[u].n
          BY <1>1 DEF Linked
        <5>2. \A y \in LayerLeaf \ fresh, a \in TopIkey :
                Linked(y, a) =>
                  \/ \E q \in InUse(leaf'[Top].perm) : leaf'[Top].ikey[q] = a /\ leaf'[Top].lv[q] = y
                  \/ leaf[y].modstate = "deleted_layer"
          BY <1>2 DEF Linked
        <5>3. QED
          BY <1>2, <3>1, <3>2, <4>1, <5>1, <5>2
      <4>2. CASE leaf[loc[u].n].modstate = "deleted_layer"
        BY <1>2, <3>1, <4>2
      <4>3. QED
        BY <3>1, <4>1, <4>2
    <3>4. QED
      BY <1>1, <1>2, <3>1, <3>3 DEF Placed
  <2>3. QED
    BY <2>1, <2>2
<1>10. QED
  BY <1>6, <1>7, <1>8, <1>9 DEF Own

-----------------------------------------------------------------------------
(* Steps that leave the contents alone *)

\* Leaf x has the same slots in use, with the same contents.
SameContent(x) ==
  /\ leaf'[x].perm = leaf[x].perm
  /\ \A q \in InUse(leaf[x].perm) :
       /\ leaf'[x].ikey[q] = leaf[x].ikey[q] /\ leaf'[x].keylenx[q] = leaf[x].keylenx[q]
       /\ leaf'[x].ksuf[q] = leaf[x].ksuf[q] /\ leaf'[x].lv[q] = leaf[x].lv[q]

LEMMA StoreKept ==
  ASSUME LeafInv, NEW t \in Thread,
         \A u \in Thread \ {t} : Same(u),
         fresh' = fresh, map' = map,
         \A x \in LeafId : SameContent(x),
         \A y \in fresh : leaf'[y] = leaf[y],
         leaf'[Top].modstate # "deleted_layer",
         pc[t] # "l_keylenx",
         \A y \in LayerLeaf : \A p \in Slot : leaf'[y].keylenx[p] = "short",
         \A y \in LayerLeaf :
           leaf'[y].modstate = "deleted_layer" =>
             \/ leaf[y].modstate = "deleted_layer"
             \/ leaf[y].perm.size = 0 /\ pc'[t] \in Removing /\ loc'[t].lv = y,
         pc[t] \in Removing => pc'[t] \in Removing /\ loc'[t].lv = loc[t].lv
  PROVE  Store'
<1>1. /\ Leaves /\ TopSlots /\ LayerSlots /\ Dead /\ Content
      /\ \A u \in Thread \ {t} : pc'[u] = pc[u] /\ loc'[u] = loc[u]
  BY DEF LeafInv, Store, Same
<1>2. \A x \in LeafId : leaf'[x].perm = leaf[x].perm
  BY DEF SameContent
<1>3. \A x \in LeafId : \A q \in InUse(leaf[x].perm) :
        /\ leaf'[x].ikey[q] = leaf[x].ikey[q] /\ leaf'[x].keylenx[q] = leaf[x].keylenx[q]
        /\ leaf'[x].ksuf[q] = leaf[x].ksuf[q] /\ leaf'[x].lv[q] = leaf[x].lv[q]
  BY DEF SameContent
<1>4. Leaves'
  <2>1. \A x \in LeafId : PermOk(leaf'[x].perm) /\ Sorted(leaf'[x])
    <3>1. SUFFICES ASSUME NEW x \in LeafId PROVE PermOk(leaf'[x].perm) /\ Sorted(leaf'[x])
      OBVIOUS
    <3>2. PermOk(leaf[x].perm) /\ Sorted(leaf[x]) /\ leaf'[x].perm = leaf[x].perm
      BY <1>1, <1>2 DEF Leaves
    <3>3. \A j \in 0 .. leaf[x].perm.size - 1 :
            leaf'[x].ikey[At(leaf[x].perm, j)] = leaf[x].ikey[At(leaf[x].perm, j)]
      BY <1>3 DEF InUse
    <3>4. QED
      BY <3>2, <3>3 DEF Sorted
  <2>2. QED
    BY <1>1, <2>1 DEF Leaves
<1>5. TopSlots'
  <2>1. \A q : Turning(q) => Turning(q)'
    BY <1>1 DEF Turning
  <2>2. \A q \in InUse(leaf[Top].perm) :
          /\ leaf'[Top].ikey[q] = leaf[Top].ikey[q] /\ leaf'[Top].keylenx[q] = leaf[Top].keylenx[q]
          /\ leaf'[Top].ksuf[q] = leaf[Top].ksuf[q] /\ leaf'[Top].lv[q] = leaf[Top].lv[q]
    BY <1>3, TopIsLeaf
  <2>3. leaf'[Top].perm = leaf[Top].perm
    BY <1>2, TopIsLeaf
  <2>4. QED
    BY <1>1, <2>1, <2>2, <2>3 DEF TopSlots
<1>6. LayerSlots'
  BY <1>1, <1>2, <1>3, TopIsLeaf DEF LayerSlots
<1>7. Dead'
  <2>1. SUFFICES ASSUME NEW y \in LayerLeaf, leaf'[y].modstate = "deleted_layer"
                 PROVE  /\ leaf'[y].perm.size = 0
                        /\ \/ \E u \in Thread : pc'[u] \in Removing /\ loc'[u].lv = y
                           \/ \A p \in InUse(leaf'[Top].perm) : leaf'[Top].lv[p] # y
    BY DEF Dead
  <2>2. leaf'[y].perm = leaf[y].perm
    BY <1>2, TopIsLeaf
  <2>3. CASE leaf[y].perm.size = 0 /\ pc'[t] \in Removing /\ loc'[t].lv = y
    BY <2>2, <2>3
  <2>4. CASE leaf[y].modstate = "deleted_layer"
    <3>1. /\ leaf[y].perm.size = 0
          /\ \/ \E u \in Thread : pc[u] \in Removing /\ loc[u].lv = y
             \/ \A p \in InUse(leaf[Top].perm) : leaf[Top].lv[p] # y
      BY <1>1, <2>4 DEF Dead
    <3>2. (\E u \in Thread : pc[u] \in Removing /\ loc[u].lv = y)
             => \E u \in Thread : pc'[u] \in Removing /\ loc'[u].lv = y
      BY <1>1
    <3>3. (\A p \in InUse(leaf[Top].perm) : leaf[Top].lv[p] # y)
             => \A p \in InUse(leaf'[Top].perm) : leaf'[Top].lv[p] # y
      BY <1>2, <1>3, TopIsLeaf
    <3>4. QED
      BY <2>2, <3>1, <3>2, <3>3
  <2>5. QED
    BY <2>1, <2>3, <2>4
<1>8. Content'
  <2>1. \A k \in Key, v \in Val : Holds(leaf', k, v) <=> Holds(leaf, k, v)
    <3>1. SUFFICES ASSUME NEW k \in Key, NEW v \in Val PROVE Holds(leaf', k, v) <=> Holds(leaf, k, v)
      OBVIOUS
    <3>2. /\ leaf'[Top].perm = leaf[Top].perm
          /\ \A q \in InUse(leaf[Top].perm) :
               leaf'[Top].ikey[q] = leaf[Top].ikey[q] /\ leaf'[Top].ksuf[q] = leaf[Top].ksuf[q]
                 /\ leaf'[Top].lv[q] = leaf[Top].lv[q]
      BY <1>2, <1>3, TopIsLeaf
    <3>3. \A y \in LayerLeaf : LayerHolds(leaf', y, k, v) <=> LayerHolds(leaf, y, k, v)
      BY <1>2, <1>3, TopIsLeaf DEF LayerHolds
    <3>4. \A q \in InUse(leaf[Top].perm) : SlotHolds(leaf', q, k, v) <=> SlotHolds(leaf, q, k, v)
      BY <3>2, <3>3 DEF SlotHolds
    <3>5. QED
      BY <3>2, <3>4 DEF Holds
  <2>2. QED
    BY <1>1, <2>1 DEF Content
<1>9. QED
  BY <1>4, <1>5, <1>6, <1>7, <1>8 DEF Store

\* A step of t that changes no leaf.
LEMMA ReadStep ==
  ASSUME LeafInv, Types', NEW t \in Thread, UNCHANGED <<leaf, fresh>>, map' = map,
         \A u \in Thread \ {t} : Same(u),
         pc[t] \notin Removing \cup {"l_keylenx"},
         Own(t)'
  PROVE  LeafInv' /\ Gentle(t)
<1>1. Types /\ TypeOK /\ Store
  BY DEF LeafInv, Types
<1>2. Store'
  <2>1. \A x \in LeafId : SameContent(x)
    BY DEF SameContent
  <2>2. leaf'[Top].modstate # "deleted_layer"
    BY <1>1 DEF Store, TopSlots
  <2>3. \A y \in LayerLeaf : \A p \in Slot : leaf'[y].keylenx[p] = "short"
    BY <1>1 DEF Store, LayerSlots
  <2>4. QED
    BY <2>1, <2>2, <2>3, StoreKept
<1>3. Gentle(t)
  <2>1. \A x \in LeafId : Calm(x)
    BY <1>1, SameIsCalm
  <2>2. \A y \in LayerLeaf, a \in TopIkey : Linked(y, a) => Linked(y, a)'
    BY DEF Linked
  <2>3. QED
    BY <2>1, <2>2 DEF Gentle
<1>4. \A u \in Thread : Own(u)'
  BY <1>3, OthersKept
<1>5. QED
  BY <1>2, <1>3, <1>4 DEF LeafInv

-----------------------------------------------------------------------------
(* What the lemmas about steps share *)

LEMMA LocalsOfNobody ==
  /\ NoLocals \in Locals /\ NoLocals.n = Top /\ NoLocals.v = 0 /\ NoLocals.perm = MakeEmpty
  /\ NoLocals.perm0 = MakeEmpty /\ NoLocals.i = 0 /\ NoLocals.p = -1 /\ NoLocals.lv = Empty
  /\ NoLocals.match = 0 /\ MakeEmpty \in Perm /\ PermOk(MakeEmpty) /\ MakeEmpty.size = 0
<1>1. MakeEmpty \in Perm /\ PermOk(MakeEmpty) /\ MakeEmpty.size = 0
  BY NewPerms DEF PermOk
<1>2. QED
  BY <1>1, TopIsLeaf, WAssumption DEF NoLocals, Locals, LeafValue

\* Thread t goes to l, with the locals y and the request r.
LEMMA Moves ==
  ASSUME Types, NEW t \in Thread, NEW l \in PCs, NEW y \in Locals, PermOk(y.perm), PermOk(y.perm0),
         NEW r \in Request \cup GcRequest \cup {Idle},
         pc' = [pc EXCEPT ![t] = l], loc' = [loc EXCEPT ![t] = y], req' = [req EXCEPT ![t] = r],
         leaf' \in [LeafId -> LeafRecord], fresh' \subseteq LayerLeaf, gcs' \in [TopIkey -> Nat],
         ops' \in [Thread -> Nat], map' \in [Key -> Val \cup {None}]
  PROVE  /\ Types' /\ pc'[t] = l /\ loc'[t] = y /\ req'[t] = r
         /\ \A u \in Thread \ {t} : Same(u)
<1>1. pc \in [Thread -> PCs] /\ loc \in [Thread -> Locals]
      /\ req \in [Thread -> Request \cup GcRequest \cup {Idle}]
      /\ \A u \in Thread : PermOk(loc[u].perm) /\ PermOk(loc[u].perm0)
  BY DEF Types, TypeOK
<1>2. pc'[t] = l /\ loc'[t] = y /\ req'[t] = r /\ \A u \in Thread \ {t} : Same(u)
  BY <1>1 DEF Same
<1>3. TypeOK'
  BY <1>1 DEF TypeOK
<1>4. \A u \in Thread : PermOk(loc'[u].perm) /\ PermOk(loc'[u].perm0)
  <2>1. ASSUME NEW u \in Thread PROVE PermOk(loc'[u].perm) /\ PermOk(loc'[u].perm0)
    <3>1. CASE u = t
      BY <1>2, <3>1
    <3>2. CASE u # t
      <4>1. loc'[u] = loc[u]
        BY <1>1, <3>2
      <4>2. QED
        BY <1>1, <4>1
    <3>3. QED
      BY <3>1, <3>2
  <2>2. QED
    BY <2>1
<1>5. QED
  BY <1>2, <1>3, <1>4 DEF Types

\* The same if the locals or the request stay.
LEMMA Stays ==
  ASSUME TypeOK, NEW t \in Thread
  PROVE  /\ loc = [loc EXCEPT ![t] = loc[t]] /\ req = [req EXCEPT ![t] = req[t]]
         /\ leaf \in [LeafId -> LeafRecord] /\ fresh \subseteq LayerLeaf /\ gcs \in [TopIkey -> Nat]
         /\ ops \in [Thread -> Nat] /\ map \in [Key -> Val \cup {None}]
         /\ req[t] \in Request \cup GcRequest \cup {Idle}
BY DEF TypeOK

LEMMA Looks ==
  ASSUME Types, NEW t \in Thread, NEW l \in PCs, NEW y \in Locals, PermOk(y.perm), PermOk(y.perm0),
         pc' = [pc EXCEPT ![t] = l], loc' = [loc EXCEPT ![t] = y],
         UNCHANGED <<leaf, fresh, gcs, req, ops, map>>
  PROVE  /\ Types' /\ pc'[t] = l /\ loc'[t] = y /\ req'[t] = req[t]
         /\ \A u \in Thread \ {t} : Same(u)
<1>1. /\ req' = [req EXCEPT ![t] = req[t]] /\ req[t] \in Request \cup GcRequest \cup {Idle}
      /\ leaf' \in [LeafId -> LeafRecord] /\ fresh' \subseteq LayerLeaf /\ gcs' \in [TopIkey -> Nat]
      /\ ops' \in [Thread -> Nat] /\ map' \in [Key -> Val \cup {None}]
  BY DEF Types, TypeOK
<1>2. QED
  BY <1>1, Moves

LEMMA HeldVoid ==
  ASSUME NEW t \in Thread, pc'[t] \notin Working
  PROVE  Held(t)'
BY DEF Held, Working, Assigning, Layering, Removing

LEMMA LookedVoid ==
  ASSUME NEW t \in Thread, pc'[t] \notin Optimistic
  PROVE  Looked(t)'
BY DEF Looked

\* A thread that knows nothing.
LEMMA AtRest ==
  ASSUME NEW t \in Thread, pc'[t] \in {"idle", "stable", "done"}, Placed(t)',
         pc'[t] # "idle" => req'[t] \in Request \cup GcRequest
  PROVE  Own(t)'
<1>1. pc'[t] \notin Working \cup Optimistic \cup Holding \cup Layering \cup {"lower"}
  BY DEF Holding, Working, Assigning, Layering, Removing, Optimistic
<1>2. Locks(t)'
  BY <1>1 DEF Locks
<1>3. QED
  BY <1>1, <1>2, HeldVoid, LookedVoid DEF Own

\* What a thread that reads finds as it was.
LEMMA ReadSame ==
  ASSUME NEW t \in Thread, UNCHANGED <<leaf, fresh>>, loc'[t].n = loc[t].n, req'[t] = req[t]
  PROVE  /\ N(t)' = N(t) /\ KaIkey(t)' = KaIkey(t) /\ (Get(t)' <=> Get(t))
         /\ \A x, q : Whole(x, q)' <=> Whole(x, q)
         /\ Placed(t) /\ pc'[t] \notin {"idle", "done"} => Placed(t)'
         /\ loc'[t].v = loc[t].v => (HasChanged(t)' <=> HasChanged(t))
BY DEF N, KaIkey, Get, Whole, Placed, Linked, HasChanged

\* Parts of the invariant, for one thread.
LEMMA Parts ==
  ASSUME LeafInv, NEW t \in Thread
  PROVE  /\ Types /\ TypeOK /\ Locks(t) /\ Placed(t) /\ Held(t) /\ Looked(t)
         /\ PermOk(loc[t].perm) /\ PermOk(loc[t].perm0) /\ PermOk(N(t).perm) /\ Sorted(N(t))
         /\ Leaves /\ TopSlots /\ LayerSlots /\ Dead /\ Content
<1>1. Types /\ TypeOK /\ Store /\ Own(t)
  BY DEF LeafInv, Types
<1>2. PermOk(N(t).perm) /\ Sorted(N(t))
  BY <1>1, LocalTypes DEF Store, Leaves
<1>3. QED
  BY <1>1, <1>2 DEF Own, Store, Types

\* A leaf that is not marked has whole slots in use.
LEMMA InUseIsWhole ==
  ASSUME LeafInv, NEW x \in LeafId, ~ leaf[x].inserting, NEW q \in InUse(leaf[x].perm)
  PROVE  Whole(x, q)
<1>1. TypeOK /\ TopSlots /\ LayerSlots /\ Leaves
  BY DEF LeafInv, Types, Store
<1>2. CASE x = Top
  <2>1. ~ Turning(q)
    <3>1. SUFFICES ASSUME NEW u \in Thread, pc[u] = "l_keylenx" PROVE FALSE
      BY DEF Turning
    <3>2. Held(u)
      BY DEF LeafInv, Own
    <3>3. HeldLayer(u) /\ HeldLayering(u)
      BY <3>1, <3>2 DEF Held, Layering
    <3>4. QED
      BY <1>2, <3>3 DEF HeldLayer, HeldLayering, N
  <2>2. QED
    BY <1>1, <1>2, <2>1 DEF TopSlots, Whole
<1>3. CASE x # Top
  <2>1. x \in LayerLeaf /\ q \in Slot
    BY <1>1, <1>3, InUseSlots, LeafTypes DEF LeafId
  <2>2. QED
    BY <1>1, <1>3, <2>1 DEF LayerSlots, Whole
<1>4. QED
  BY <1>2, <1>3

-----------------------------------------------------------------------------
(* Steps of a thread that only looks *)

LEMMA CallStep ==
  ASSUME LeafInv, NEW t \in Thread, NEW r \in Request, Call(t, r)
  PROVE  LeafInv' /\ Gentle(t)
<1>1. /\ pc[t] = "idle" /\ pc' = [pc EXCEPT ![t] = "stable"] /\ req' = [req EXCEPT ![t] = r]
      /\ UNCHANGED <<leaf, fresh, gcs, loc, map>> /\ ops' = [ops EXCEPT ![t] = @ + 1]
  BY DEF Call, Goto, shared
<1>2. /\ Types /\ TypeOK /\ Placed(t) /\ PermOk(loc[t].perm) /\ PermOk(loc[t].perm0)
      /\ loc[t] \in Locals
  BY Parts, LocalTypes
<1>3. ops' \in [Thread -> Nat]
  BY <1>1, <1>2 DEF TypeOK
<1>4. Types' /\ pc'[t] = "stable" /\ loc'[t] = loc[t] /\ req'[t] = r /\ \A u \in Thread \ {t} : Same(u)
  BY <1>1, <1>2, <1>3, Stays, Moves DEF PCs
<1>5. Placed(t)'
  BY <1>1, <1>2, <1>4 DEF Placed
<1>6. Own(t)'
  BY <1>4, <1>5, AtRest
<1>7. QED
  BY <1>1, <1>4, <1>6, ReadStep DEF Removing

LEMMA RunCallbackStep ==
  ASSUME LeafInv, NEW t \in Thread, RunCallback(t)
  PROVE  LeafInv' /\ Gentle(t)
<1>1. PICK k \in TopIkey :
        /\ pc[t] = "idle" /\ pc' = [pc EXCEPT ![t] = "stable"] /\ gcs[k] > 0
        /\ req' = [req EXCEPT ![t] = [op |-> "gc", ikey |-> k]] /\ gcs' = [gcs EXCEPT ![k] = @ - 1]
        /\ UNCHANGED <<leaf, fresh, loc, map, ops>>
  BY DEF RunCallback, Goto, history
<1> DEFINE r == [op |-> "gc", ikey |-> k]
<1>2. /\ Types /\ TypeOK /\ Placed(t) /\ PermOk(loc[t].perm) /\ PermOk(loc[t].perm0)
      /\ loc[t] \in Locals
  BY Parts, LocalTypes
<1>3. gcs' \in [TopIkey -> Nat] /\ r \in GcRequest
  BY <1>1, <1>2 DEF TypeOK, GcRequest
<1> HIDE DEF r
<1>4. Types' /\ pc'[t] = "stable" /\ loc'[t] = loc[t] /\ req'[t] = r /\ \A u \in Thread \ {t} : Same(u)
  <2>1. /\ "stable" \in PCs /\ loc' = [loc EXCEPT ![t] = loc[t]] /\ r \in Request \cup GcRequest \cup {Idle}
        /\ req' = [req EXCEPT ![t] = r]
    BY <1>1, <1>2, <1>3, Stays DEF PCs, r
  <2>2. /\ leaf' \in [LeafId -> LeafRecord] /\ fresh' \subseteq LayerLeaf /\ ops' \in [Thread -> Nat]
        /\ map' \in [Key -> Val \cup {None}]
    BY <1>1, <1>2, Stays
  <2>3. QED
    BY <1>1, <1>2, <1>3, <2>1, <2>2, Moves
<1>5. Placed(t)'
  BY <1>1, <1>2, <1>4 DEF Placed
<1>6. Own(t)'
  BY <1>3, <1>4, <1>5, AtRest
<1>7. QED
  BY <1>1, <1>4, <1>6, ReadStep DEF Removing

LEMMA StableStep ==
  ASSUME LeafInv, NEW t \in Thread, Stable(t)
  PROVE  LeafInv' /\ Gentle(t)
<1> DEFINE y == [NoLocals EXCEPT !.n = loc[t].n, !.v = N(t).vinsert]
<1>1. /\ pc[t] = "stable" /\ pc' = [pc EXCEPT ![t] = "perm"] /\ loc' = [loc EXCEPT ![t] = y]
      /\ UNCHANGED <<leaf, fresh, gcs, req, ops, map>>
  BY DEF Stable, Goto, shared, history
<1>2. /\ Types /\ TypeOK /\ Locks(t) /\ Placed(t) /\ loc[t].n \in LeafId /\ N(t).vinsert \in Nat
  BY Parts, LocalTypes, LeafTypes
<1>3. /\ y \in Locals /\ y.n = loc[t].n /\ y.v = N(t).vinsert /\ y.perm = MakeEmpty /\ y.perm0 = MakeEmpty
      /\ y.i = 0 /\ y.p = -1 /\ y.match = 0 /\ PermOk(MakeEmpty) /\ MakeEmpty.size = 0
  BY <1>2, LocalsOfNobody DEF Locals, NoLocals
<1> HIDE DEF y
<1>4. Types' /\ pc'[t] = "perm" /\ loc'[t] = y /\ req'[t] = req[t] /\ \A u \in Thread \ {t} : Same(u)
  <2>1. "perm" \in PCs /\ PermOk(y.perm) /\ PermOk(y.perm0)
    BY <1>3 DEF PCs
  <2>2. QED
    BY <1>1, <1>2, <1>3, <2>1, Looks
<1>5. N(t)' = N(t) /\ Placed(t)'
  BY <1>1, <1>2, <1>3, <1>4, ReadSame
<1>6. Locks(t)' /\ Held(t)'
  BY <1>1, <1>2, <1>4, HeldVoid DEF Locks, Holding, Working, Assigning, Layering, Removing
<1>7. Looked(t)'
  <2>1. Seen(t)' = {} /\ KnowsPerm(t)'
    BY <1>3, <1>4 DEF Seen, KnowsPerm, Searched
  <2>2. QED
    BY <1>2, <1>3, <1>4, <1>5, <2>1 DEF Looked
<1>8. QED
  BY <1>1, <1>4, <1>5, <1>6, <1>7, ReadStep DEF Own, Removing

LEMMA ReadPermStep ==
  ASSUME LeafInv, NEW t \in Thread, ReadPerm(t)
  PROVE  LeafInv' /\ Gentle(t)
<1> DEFINE y == IF Get(t) THEN [loc[t] EXCEPT !.perm = N(t).perm] ELSE [loc[t] EXCEPT !.perm0 = N(t).perm]
           l == IF Get(t) THEN "search" ELSE "lower"
<1>1. /\ pc[t] = "perm" /\ pc' = [pc EXCEPT ![t] = l] /\ loc' = [loc EXCEPT ![t] = y]
      /\ UNCHANGED <<leaf, fresh, gcs, req, ops, map>>
  <2>1. Types
    BY Parts
  <2>2. QED
    BY <2>1 DEF ReadPerm, Goto, shared, history, Types, TypeOK
<1>2. /\ Types /\ TypeOK /\ Locks(t) /\ Placed(t) /\ Looked(t) /\ loc[t] \in Locals /\ N(t) = leaf[loc[t].n]
      /\ PermOk(loc[t].perm) /\ PermOk(loc[t].perm0) /\ PermOk(N(t).perm) /\ N(t).perm \in Perm
      /\ loc[t].n \in LeafId /\ N(t).inserting \in BOOLEAN
  BY Parts, LocalTypes, LeafTypes
<1>3. /\ y \in Locals /\ y.n = loc[t].n /\ y.v = loc[t].v /\ y.i = loc[t].i /\ y.p = loc[t].p
      /\ y.match = loc[t].match /\ PermOk(y.perm) /\ PermOk(y.perm0)
      /\ Get(t) => y.perm = N(t).perm
      /\ ~ Get(t) => y.perm0 = N(t).perm /\ y.perm = loc[t].perm
  BY <1>2 DEF Locals
<1> HIDE DEF y
<1>4. Types' /\ pc'[t] = l /\ loc'[t] = y /\ req'[t] = req[t] /\ \A u \in Thread \ {t} : Same(u)
  <2>1. l \in PCs /\ PermOk(y.perm) /\ PermOk(y.perm0)
    BY <1>3 DEF PCs
  <2>2. QED
    BY <1>1, <1>2, <1>3, <2>1, Looks
<1>5. /\ N(t)' = N(t) /\ Placed(t)' /\ (Get(t)' <=> Get(t)) /\ (HasChanged(t)' <=> HasChanged(t))
      /\ \A x, q : Whole(x, q)' <=> Whole(x, q)
  BY <1>1, <1>2, <1>3, <1>4, ReadSame
<1>6. Locks(t)' /\ Held(t)'
  BY <1>1, <1>2, <1>4, <1>5, HeldVoid DEF Locks, Holding, Working, Assigning, Layering, Removing
<1>7. Looked(t)'
  <2>1. /\ loc[t].v <= N(t).vinsert /\ loc[t].p = -1 /\ loc[t].i = 0 /\ loc[t].match = 0
        /\ 0 \in 0 .. loc[t].perm.size
    BY <1>1, <1>2 DEF Looked, Optimistic
  <2>2. KnowsPerm(t)'
    BY <1>3, <1>4, <1>5, <2>1 DEF KnowsPerm, Grow, Searched
  <2>3. ASSUME ~ HasChanged(t)' PROVE \A q \in Seen(t)' : Whole(loc[t].n, q)'
    <3>1. ~ N(t).inserting
      BY <1>5, <2>3 DEF HasChanged
    <3>2. \A q \in InUse(N(t).perm) : Whole(loc[t].n, q)
      BY <1>2, <3>1, InUseIsWhole
    <3>3. \A q \in Seen(t)' : q \in InUse(N(t).perm)
      BY <1>3, <1>4, <2>1 DEF Seen
    <3>4. QED
      BY <1>1, <1>3, <1>4, <3>2, <3>3 DEF Whole
  <2>4. 0 \in 0 .. y.perm.size
    BY <1>2, <1>3, <2>1, InUseSlots
  <2>5. QED
    BY <1>1, <1>3, <1>4, <1>5, <2>1, <2>2, <2>3, <2>4 DEF Looked, Optimistic
<1>8. QED
  BY <1>1, <1>4, <1>5, <1>6, <1>7, ReadStep DEF Own, Removing

\* What Looked says of a thread at work.
LEMMA LookedFacts ==
  ASSUME NEW t \in Thread, Looked(t), pc[t] \in Optimistic
  PROVE  /\ loc[t].v <= N(t).vinsert
         /\ pc[t] \in {"perm", "lower", "search"} => loc[t].p = -1 /\ loc[t].i \in 0 .. loc[t].perm.size
         /\ pc[t] \in {"perm", "lower"} => loc[t].i = 0
         /\ pc[t] \in Optimistic \ {"check", "validate"} => loc[t].match = 0
         /\ loc[t].p = -1 => loc[t].match = 0
         /\ pc[t] \in {"lv", "keylenx", "ksuf"} => loc[t].p # -1
         /\ loc[t].p # -1 => req[t].op # "gc"
         /\ ~ HasChanged(t) =>
              /\ \A q \in Seen(t) : Whole(loc[t].n, q)
              /\ KnowsPerm(t)
              /\ loc[t].p # -1 => KnowsSlot(t)
BY DEF Looked

LEMMA ReadPermAgainStep ==
  ASSUME LeafInv, NEW t \in Thread, ReadPermAgain(t)
  PROVE  LeafInv' /\ Gentle(t)
<1> DEFINE y == [loc[t] EXCEPT !.perm = N(t).perm]
<1>1. /\ pc[t] = "lower" /\ pc' = [pc EXCEPT ![t] = "search"] /\ loc' = [loc EXCEPT ![t] = y]
      /\ UNCHANGED <<leaf, fresh, gcs, req, ops, map>>
  <2>1. Types
    BY Parts
  <2>2. QED
    BY <2>1 DEF ReadPermAgain, Goto, shared, history, Types, TypeOK
<1>2. /\ Types /\ TypeOK /\ Locks(t) /\ Placed(t) /\ Looked(t) /\ loc[t] \in Locals /\ N(t) = leaf[loc[t].n]
      /\ PermOk(loc[t].perm0) /\ PermOk(N(t).perm) /\ N(t).perm \in Perm /\ N(t).perm.size \in Nat
      /\ loc[t].n \in LeafId /\ N(t).inserting \in BOOLEAN
  BY Parts, LocalTypes, LeafTypes, InUseSlots
<1>3. /\ y \in Locals /\ y.n = loc[t].n /\ y.v = loc[t].v /\ y.i = loc[t].i /\ y.p = loc[t].p
      /\ y.match = loc[t].match /\ y.perm = N(t).perm /\ y.perm0 = loc[t].perm0
  BY <1>2 DEF Locals
<1> HIDE DEF y
<1>4. Types' /\ pc'[t] = "search" /\ loc'[t] = y /\ req'[t] = req[t] /\ \A u \in Thread \ {t} : Same(u)
  <2>1. "search" \in PCs /\ PermOk(y.perm) /\ PermOk(y.perm0)
    BY <1>2, <1>3 DEF PCs
  <2>2. QED
    BY <1>1, <1>2, <1>3, <2>1, Looks
<1>5. /\ N(t)' = N(t) /\ Placed(t)' /\ (Get(t)' <=> Get(t)) /\ (HasChanged(t)' <=> HasChanged(t))
      /\ \A x, q : Whole(x, q)' <=> Whole(x, q)
  BY <1>1, <1>2, <1>3, <1>4, ReadSame
<1>6. Locks(t)' /\ Held(t)'
  BY <1>1, <1>2, <1>4, <1>5, HeldVoid DEF Locks, Holding, Working, Assigning, Layering, Removing
<1>7. Looked(t)'
  <2>1. /\ loc[t].v <= N(t).vinsert /\ loc[t].p = -1 /\ loc[t].i = 0 /\ loc[t].match = 0
        /\ ~ HasChanged(t) => KnowsPerm(t)
    BY <1>1, <1>2, LookedFacts DEF Optimistic
  <2>2. ~ HasChanged(t) => KnowsPerm(t)'
    BY <1>1, <1>3, <1>4, <1>5, <2>1 DEF KnowsPerm, Grow, Searched
  <2>3. ASSUME ~ HasChanged(t)' PROVE \A q \in Seen(t)' : Whole(loc[t].n, q)'
    <3>1. ~ N(t).inserting
      BY <1>5, <2>3 DEF HasChanged
    <3>2. \A q \in InUse(N(t).perm) : Whole(loc[t].n, q)
      BY <1>2, <3>1, InUseIsWhole
    <3>3. \A q \in Seen(t)' : q \in InUse(N(t).perm)
      BY <1>3, <1>4, <2>1 DEF Seen
    <3>4. QED
      BY <1>1, <1>3, <1>4, <3>2, <3>3 DEF Whole
  <2>4. 0 \in 0 .. y.perm.size
    BY <1>2, <1>3
  <2>5. QED
    BY <1>1, <1>3, <1>4, <1>5, <2>1, <2>2, <2>3, <2>4 DEF Looked, Optimistic
<1>8. QED
  BY <1>1, <1>4, <1>5, <1>6, <1>7, ReadStep DEF Own, Removing

LEMMA ReadLvStep ==
  ASSUME LeafInv, NEW t \in Thread, ReadLv(t)
  PROVE  LeafInv' /\ Gentle(t)
<1> DEFINE y == [loc[t] EXCEPT !.lv = N(t).lv[loc[t].p]]
<1>1. /\ pc[t] = "lv" /\ pc' = [pc EXCEPT ![t] = "keylenx"] /\ loc' = [loc EXCEPT ![t] = y]
      /\ UNCHANGED <<leaf, fresh, gcs, req, ops, map>>
  <2>1. Types
    BY Parts
  <2>2. QED
    BY <2>1 DEF ReadLv, Goto, shared, history, Types, TypeOK
<1>2. /\ Types /\ TypeOK /\ Locks(t) /\ Placed(t) /\ Looked(t) /\ loc[t] \in Locals /\ N(t) = leaf[loc[t].n]
      /\ PermOk(loc[t].perm) /\ PermOk(loc[t].perm0) /\ loc[t].n \in LeafId /\ loc[t].p \in Slot \cup {-1}
  BY Parts, LocalTypes
<1>3. /\ loc[t].v <= N(t).vinsert /\ loc[t].p # -1 /\ loc[t].match = 0 /\ req[t].op # "gc"
      /\ ~ HasChanged(t) => /\ \A q \in Seen(t) : Whole(loc[t].n, q)
                            /\ KnowsPerm(t) /\ KnowsSlot(t)
  BY <1>1, <1>2, LookedFacts DEF Optimistic
<1>4. /\ y \in Locals /\ y.n = loc[t].n /\ y.v = loc[t].v /\ y.i = loc[t].i /\ y.p = loc[t].p
      /\ y.match = loc[t].match /\ y.perm = loc[t].perm /\ y.perm0 = loc[t].perm0
      /\ y.lv = N(t).lv[loc[t].p]
  <2>1. N(t).lv[loc[t].p] \in LeafValue
    BY <1>2, <1>3, LeafTypes
  <2>2. QED
    BY <1>2, <2>1 DEF Locals
<1> HIDE DEF y
<1>5. Types' /\ pc'[t] = "keylenx" /\ loc'[t] = y /\ req'[t] = req[t] /\ \A u \in Thread \ {t} : Same(u)
  <2>1. "keylenx" \in PCs /\ PermOk(y.perm) /\ PermOk(y.perm0)
    BY <1>2, <1>4 DEF PCs
  <2>2. QED
    BY <1>1, <1>2, <1>4, <2>1, Looks
<1>6. /\ N(t)' = N(t) /\ Placed(t)' /\ (Get(t)' <=> Get(t)) /\ (HasChanged(t)' <=> HasChanged(t))
      /\ KaIkey(t)' = KaIkey(t) /\ \A x, q : Whole(x, q)' <=> Whole(x, q)
  BY <1>1, <1>2, <1>4, <1>5, ReadSame
<1>7. Locks(t)' /\ Held(t)'
  BY <1>1, <1>2, <1>5, <1>6, HeldVoid DEF Locks, Holding, Working, Assigning, Layering, Removing
<1>8. Looked(t)'
  <2>1. ASSUME ~ HasChanged(t)'
        PROVE  (\A q \in Seen(t)' : Whole(loc[t].n, q)') /\ KnowsPerm(t)' /\ KnowsSlot(t)'
    <3>1. Seen(t)' = Seen(t) /\ loc[t].p \in Seen(t)
      BY <1>1, <1>3, <1>4, <1>5 DEF Seen
    <3>2. \A q \in Seen(t)' : Whole(loc[t].n, q)'
      BY <1>1, <1>3, <1>4, <1>5, <1>6, <2>1, <3>1 DEF Whole
    <3>3. KnowsPerm(t)'
      BY <1>1, <1>3, <1>4, <1>5, <1>6, <2>1 DEF KnowsPerm, Searched
    <3>4. Whole(loc[t].n, loc[t].p) /\ KnowsSlot(t)
      BY <1>3, <1>6, <2>1, <3>1
    <3>5. KnowsSlot(t)'
      BY <1>1, <1>2, <1>4, <1>5, <1>6, <3>4 DEF KnowsSlot, Whole
    <3>6. QED
      BY <3>2, <3>3, <3>5
  <2>2. QED
    BY <1>1, <1>3, <1>4, <1>5, <1>6, <2>1 DEF Looked, Optimistic
<1>9. QED
  BY <1>1, <1>5, <1>6, <1>7, <1>8, ReadStep DEF Own, Removing

LEMMA ReadKeylenxStep ==
  ASSUME LeafInv, NEW t \in Thread, ReadKeylenx(t)
  PROVE  LeafInv' /\ Gentle(t)
<1> DEFINE kl == N(t).keylenx[loc[t].p]
           l == IF kl = "ksuf" THEN "ksuf" ELSE "check"
           y == [loc[t] EXCEPT !.match = CASE kl = "short" -> 1 [] kl = "layer" -> -1 [] kl = "ksuf" -> 0]
<1>1. /\ pc[t] = "keylenx" /\ pc' = [pc EXCEPT ![t] = l] /\ loc' = [loc EXCEPT ![t] = y]
      /\ UNCHANGED <<leaf, fresh, gcs, req, ops, map>>
  <2>1. Types
    BY Parts
  <2>2. QED
    BY <2>1 DEF ReadKeylenx, Goto, shared, history, Types, TypeOK
<1>2. /\ Types /\ TypeOK /\ Locks(t) /\ Placed(t) /\ Looked(t) /\ loc[t] \in Locals /\ N(t) = leaf[loc[t].n]
      /\ PermOk(loc[t].perm) /\ PermOk(loc[t].perm0) /\ loc[t].n \in LeafId /\ loc[t].p \in Slot \cup {-1}
  BY Parts, LocalTypes
<1>3. /\ loc[t].v <= N(t).vinsert /\ loc[t].p # -1 /\ loc[t].match = 0 /\ req[t].op # "gc"
      /\ ~ HasChanged(t) => /\ \A q \in Seen(t) : Whole(loc[t].n, q)
                            /\ KnowsPerm(t) /\ KnowsSlot(t)
  BY <1>1, <1>2, LookedFacts DEF Optimistic
<1>4. /\ y \in Locals /\ y.n = loc[t].n /\ y.v = loc[t].v /\ y.i = loc[t].i /\ y.p = loc[t].p
      /\ y.perm = loc[t].perm /\ y.perm0 = loc[t].perm0 /\ y.lv = loc[t].lv
      /\ kl \in {"short", "ksuf", "layer"}
      /\ y.match = IF kl = "short" THEN 1 ELSE IF kl = "layer" THEN -1 ELSE 0
  <2>1. kl \in {"short", "ksuf", "layer"}
    BY <1>2, <1>3, LeafTypes
  <2>2. (CASE kl = "short" -> 1 [] kl = "layer" -> -1 [] kl = "ksuf" -> 0)
          = IF kl = "short" THEN 1 ELSE IF kl = "layer" THEN -1 ELSE 0
    BY <2>1
  <2>3. QED
    BY <1>2, <2>1, <2>2 DEF Locals
<1> HIDE DEF y
<1>5. Types' /\ pc'[t] = l /\ loc'[t] = y /\ req'[t] = req[t] /\ \A u \in Thread \ {t} : Same(u)
  <2>1. l \in PCs /\ PermOk(y.perm) /\ PermOk(y.perm0)
    BY <1>2, <1>4 DEF PCs
  <2>2. QED
    BY <1>1, <1>2, <1>4, <2>1, Looks
<1>6. /\ N(t)' = N(t) /\ Placed(t)' /\ (Get(t)' <=> Get(t)) /\ (HasChanged(t)' <=> HasChanged(t))
      /\ KaIkey(t)' = KaIkey(t) /\ \A x, q : Whole(x, q)' <=> Whole(x, q)
  BY <1>1, <1>2, <1>4, <1>5, ReadSame
<1>7. Locks(t)' /\ Held(t)'
  BY <1>1, <1>2, <1>5, <1>6, HeldVoid DEF Locks, Holding, Working, Assigning, Layering, Removing
<1>8. Looked(t)'
  <2>1. ASSUME ~ HasChanged(t)'
        PROVE  (\A q \in Seen(t)' : Whole(loc[t].n, q)') /\ KnowsPerm(t)' /\ KnowsSlot(t)'
    <3>1. Seen(t)' = Seen(t)
      BY <1>1, <1>3, <1>4, <1>5 DEF Seen
    <3>2. \A q \in Seen(t)' : Whole(loc[t].n, q)'
      BY <1>1, <1>3, <1>4, <1>5, <1>6, <2>1, <3>1 DEF Whole
    <3>3. KnowsPerm(t)'
      BY <1>1, <1>3, <1>4, <1>5, <1>6, <2>1 DEF KnowsPerm, Searched
    <3>4. KnowsSlot(t)
      BY <1>3, <1>6, <2>1
    <3>5. KnowsSlot(t)'
      BY <1>1, <1>2, <1>4, <1>5, <1>6, <3>4 DEF KnowsSlot
    <3>6. QED
      BY <3>2, <3>3, <3>5
  <2>2. QED
    BY <1>1, <1>3, <1>4, <1>5, <1>6, <2>1 DEF Looked, Optimistic
<1>9. QED
  BY <1>1, <1>5, <1>6, <1>7, <1>8, ReadStep DEF Own, Removing

LEMMA ReadKsufStep ==
  ASSUME LeafInv, NEW t \in Thread, ReadKsuf(t)
  PROVE  LeafInv' /\ Gentle(t)
<1> DEFINE y == [loc[t] EXCEPT !.match = IF N(t).ksuf[loc[t].p] = req[t].key THEN 1 ELSE 0]
<1>1. /\ pc[t] = "ksuf" /\ pc' = [pc EXCEPT ![t] = "check"] /\ loc' = [loc EXCEPT ![t] = y]
      /\ UNCHANGED <<leaf, fresh, gcs, req, ops, map>>
  <2>1. Types
    BY Parts
  <2>2. QED
    BY <2>1 DEF ReadKsuf, Goto, shared, history, Types, TypeOK
<1>2. /\ Types /\ TypeOK /\ Locks(t) /\ Placed(t) /\ Looked(t) /\ loc[t] \in Locals /\ N(t) = leaf[loc[t].n]
      /\ PermOk(loc[t].perm) /\ PermOk(loc[t].perm0) /\ loc[t].n \in LeafId /\ loc[t].p \in Slot \cup {-1}
  BY Parts, LocalTypes
<1>3. /\ loc[t].v <= N(t).vinsert /\ loc[t].p # -1 /\ loc[t].match = 0 /\ req[t].op # "gc"
      /\ ~ HasChanged(t) => /\ \A q \in Seen(t) : Whole(loc[t].n, q)
                            /\ KnowsPerm(t) /\ KnowsSlot(t)
  BY <1>1, <1>2, LookedFacts DEF Optimistic
<1>4. /\ y \in Locals /\ y.n = loc[t].n /\ y.v = loc[t].v /\ y.i = loc[t].i /\ y.p = loc[t].p
      /\ y.perm = loc[t].perm /\ y.perm0 = loc[t].perm0 /\ y.lv = loc[t].lv
      /\ y.match = IF N(t).ksuf[loc[t].p] = req[t].key THEN 1 ELSE 0
  BY <1>2 DEF Locals
<1> HIDE DEF y
<1>5. Types' /\ pc'[t] = "check" /\ loc'[t] = y /\ req'[t] = req[t] /\ \A u \in Thread \ {t} : Same(u)
  <2>1. "check" \in PCs /\ PermOk(y.perm) /\ PermOk(y.perm0)
    BY <1>2, <1>4 DEF PCs
  <2>2. QED
    BY <1>1, <1>2, <1>4, <2>1, Looks
<1>6. /\ N(t)' = N(t) /\ Placed(t)' /\ (Get(t)' <=> Get(t)) /\ (HasChanged(t)' <=> HasChanged(t))
      /\ KaIkey(t)' = KaIkey(t) /\ \A x, q : Whole(x, q)' <=> Whole(x, q)
  BY <1>1, <1>2, <1>4, <1>5, ReadSame
<1>7. Locks(t)' /\ Held(t)'
  BY <1>1, <1>2, <1>5, <1>6, HeldVoid DEF Locks, Holding, Working, Assigning, Layering, Removing
<1>8. Looked(t)'
  <2>1. ASSUME ~ HasChanged(t)'
        PROVE  (\A q \in Seen(t)' : Whole(loc[t].n, q)') /\ KnowsPerm(t)' /\ KnowsSlot(t)'
    <3>1. Seen(t)' = Seen(t)
      BY <1>1, <1>3, <1>4, <1>5 DEF Seen
    <3>2. \A q \in Seen(t)' : Whole(loc[t].n, q)'
      BY <1>1, <1>3, <1>4, <1>5, <1>6, <2>1, <3>1 DEF Whole
    <3>3. KnowsPerm(t)'
      BY <1>1, <1>3, <1>4, <1>5, <1>6, <2>1 DEF KnowsPerm, Searched
    <3>4. KnowsSlot(t)
      BY <1>3, <1>6, <2>1
    <3>5. KnowsSlot(t)'
      BY <1>1, <1>2, <1>4, <1>5, <1>6, <3>4 DEF KnowsSlot
    <3>6. QED
      BY <3>2, <3>3, <3>5
  <2>2. QED
    BY <1>1, <1>3, <1>4, <1>5, <1>6, <2>1 DEF Looked, Optimistic
<1>9. QED
  BY <1>1, <1>5, <1>6, <1>7, <1>8, ReadStep DEF Own, Removing

LEMMA SearchStep ==
  ASSUME LeafInv, NEW t \in Thread, Search(t)
  PROVE  LeafInv' /\ Gentle(t)
<1> DEFINE x == loc[t]
           L == N(t)
           slot == At(x.perm, x.i)
           hit == x.i < x.perm.size /\ L.ikey[slot] = KaIkey(t) /\ req[t].op # "gc"
           more == x.i < x.perm.size /\ L.ikey[slot] < KaIkey(t)
           y == IF hit THEN [x EXCEPT !.p = slot, !.perm = MakeEmpty]
                ELSE IF more THEN [x EXCEPT !.i = @ + 1] ELSE [x EXCEPT !.perm = MakeEmpty]
           l == IF hit THEN "lv" ELSE IF more THEN "search" ELSE "check"
<1>1. /\ pc[t] = "search" /\ pc' = [pc EXCEPT ![t] = l] /\ loc' = [loc EXCEPT ![t] = y]
      /\ UNCHANGED <<leaf, fresh, gcs, req, ops, map>>
  BY DEF Search, Goto, shared, history
<1>2. /\ Types /\ TypeOK /\ Locks(t) /\ Placed(t) /\ Looked(t) /\ x \in Locals /\ L = leaf[x.n]
      /\ PermOk(x.perm) /\ PermOk(x.perm0) /\ PermOk(L.perm) /\ Sorted(L) /\ x.n \in LeafId
      /\ x.perm.size \in 0 .. W /\ x.perm0.size \in 0 .. W /\ L.perm.size \in Nat /\ x.i \in 0 .. W
      /\ L.perm \in Perm /\ WAssumption
  BY Parts, LocalTypes, LeafTypes, InUseSlots, WAssumption
<1>3. /\ x.v <= L.vinsert /\ x.p = -1 /\ x.match = 0 /\ x.i \in 0 .. x.perm.size
      /\ ~ HasChanged(t) => /\ \A q \in Seen(t) : Whole(x.n, q)
                            /\ KnowsPerm(t)
  BY <1>1, <1>2, LookedFacts DEF Optimistic
<1>4. /\ KaIkey(t) \in Nat
      /\ \A j \in 0 .. x.perm.size - 1 : At(x.perm, j) \in Slot /\ L.ikey[At(x.perm, j)] \in Nat
      /\ \A j \in 0 .. L.perm.size - 1 : L.ikey[At(L.perm, j)] \in Nat
  <2>1. KaIkey(t) \in Nat
    BY <1>1, <1>2, KaIsIkey DEF Locks
  <2>2. \A j \in 0 .. x.perm.size - 1 : At(x.perm, j) \in Slot
    BY <1>2, Positions DEF InUse
  <2>3. \A j \in 0 .. L.perm.size - 1 : At(L.perm, j) \in Slot
    BY <1>2, Positions DEF InUse
  <2>4. QED
    BY <1>2, <2>1, <2>2, <2>3, LeafTypes
<1>5. more => x.i + 1 \in 0 .. x.perm.size /\ x.i + 1 \in 0 .. W
  BY <1>2, <1>3
<1>6. /\ y \in Locals /\ y.n = x.n /\ y.v = x.v /\ y.perm0 = x.perm0 /\ y.lv = x.lv /\ y.match = 0
      /\ PermOk(y.perm) /\ PermOk(y.perm0) /\ MakeEmpty.size = 0
      /\ hit => y.p = slot /\ y.i = x.i /\ slot \in Slot
      /\ ~ hit => y.p = -1
      /\ ~ hit /\ more => y.i = x.i + 1 /\ y.perm = x.perm
      /\ ~ hit /\ ~ more => y.i = x.i
  <2>1. CASE hit
    <3>1. slot \in Slot
      <4>1. x.i \in 0 .. x.perm.size - 1
        BY <1>2, <1>3, <2>1
      <4>2. QED
        BY <1>4, <4>1
    <3>2. QED
      BY <1>2, <1>3, <2>1, <3>1, LocalsOfNobody DEF Locals
  <2>2. CASE ~ hit /\ more
    BY <1>2, <1>3, <1>5, <2>2, LocalsOfNobody DEF Locals
  <2>3. CASE ~ hit /\ ~ more
    BY <1>2, <1>3, <2>3, LocalsOfNobody DEF Locals
  <2>4. QED
    BY <2>1, <2>2, <2>3
<1> HIDE DEF y
<1>12. /\ l \in PCs /\ (hit => l = "lv") /\ (~ hit /\ more => l = "search") /\ (~ hit /\ ~ more => l = "check")
      /\ l \in {"lv", "search", "check"}
  BY DEF PCs
<1> HIDE DEF l
<1>7. Types' /\ pc'[t] = l /\ loc'[t] = y /\ req'[t] = req[t] /\ \A u \in Thread \ {t} : Same(u)
  BY <1>1, <1>2, <1>6, <1>12, Looks
<1>8. /\ N(t)' = L /\ (pc'[t] \notin {"idle", "done"} => Placed(t)') /\ (Get(t)' <=> Get(t))
      /\ (HasChanged(t)' <=> HasChanged(t))
      /\ KaIkey(t)' = KaIkey(t) /\ \A z, q : Whole(z, q)' <=> Whole(z, q)
  BY <1>1, <1>2, <1>6, <1>7, <1>12, ReadSame
<1>9. Locks(t)' /\ Held(t)' /\ Placed(t)'
  BY <1>1, <1>2, <1>7, <1>12, <1>8, HeldVoid DEF Locks, Holding, Working, Assigning, Layering, Removing
<1>10. Looked(t)'
  <2>1. ASSUME ~ HasChanged(t)
        PROVE  /\ \A q \in InUse(x.perm) : Whole(x.n, q)
               /\ Grow(x.perm, L.perm, L.modstate) /\ (Get(t) \/ Grow(x.perm0, x.perm, L.modstate))
               /\ \A j \in 0 .. x.i - 1 : L.ikey[At(x.perm, j)] < KaIkey(t)
               /\ Get(t) \/ (Grow(x.perm0, L.perm, L.modstate) /\ (x.perm0 = L.perm => x.perm = L.perm))
    <3>1. /\ \A q \in InUse(x.perm) : Whole(x.n, q)
          /\ Grow(x.perm, L.perm, L.modstate) /\ (Get(t) \/ Grow(x.perm0, x.perm, L.modstate))
          /\ \A j \in 0 .. x.i - 1 : L.ikey[At(x.perm, j)] < KaIkey(t)
      BY <1>1, <1>3, <2>1 DEF KnowsPerm, Seen
    <3>2. x.perm.size \in Nat /\ x.perm0.size \in Nat
      BY <1>2
    <3>3. QED
      BY <1>2, <3>1, <3>2, GrowTrans
  <2>2. CASE hit
    <3>1. ASSUME ~ HasChanged(t)
          PROVE  (\A q \in Seen(t)' : Whole(x.n, q)') /\ KnowsPerm(t)' /\ KnowsSlot(t)'
      <4>1. slot \in InUse(x.perm)
        BY <1>2, <1>3, <2>2 DEF InUse
      <4>2. Seen(t)' = {slot}
        BY <1>6, <1>7, <1>12, <2>2, SlotIsNoError DEF Seen
      <4>3. \A q \in Seen(t)' : Whole(x.n, q)'
        BY <1>6, <1>7, <1>8, <2>1, <3>1, <4>1, <4>2 DEF Whole
      <4>4. L.perm = x.perm0 /\ ~ Get(t) => There(L, x.i, slot, KaIkey(t))
        BY <1>2, <1>3, <2>1, <2>2, <3>1 DEF There
      <4>5. KnowsPerm(t)'
        <5>1. req[t].op \in {"put", "remove"} => ~ Get(t)
          BY DEF Get
        <5>2. y.p # -1
          BY <1>6, <2>2, SlotIsNoError
        <5>3. QED
          BY <1>6, <1>7, <1>12, <1>8, <2>1, <2>2, <3>1, <4>4, <5>1, <5>2 DEF KnowsPerm, Searched
      <4>6. KnowsSlot(t)'
        BY <1>6, <1>7, <1>12, <1>8, <2>2 DEF KnowsSlot
      <4>7. QED
        BY <4>3, <4>5, <4>6
    <3>2. y.p # -1
      BY <1>6, <2>2, SlotIsNoError
    <3>3. QED
      BY <1>3, <1>6, <1>7, <1>12, <1>8, <2>2, <3>1, <3>2 DEF Looked, Optimistic
  <2>3. CASE ~ hit /\ more
    <3>1. ASSUME ~ HasChanged(t)
          PROVE  (\A q \in Seen(t)' : Whole(x.n, q)') /\ KnowsPerm(t)'
      <4>1. Seen(t)' = InUse(x.perm)
        BY <1>6, <1>7, <1>12, <2>3 DEF Seen
      <4>2. \A j \in 0 .. (x.i + 1) - 1 : L.ikey[At(x.perm, j)] < KaIkey(t)
        BY <1>3, <2>1, <2>3, <3>1
      <4>3. KnowsPerm(t)'
        BY <1>6, <1>7, <1>12, <1>8, <2>1, <2>3, <3>1, <4>2 DEF KnowsPerm, Searched
      <4>4. QED
        BY <1>6, <1>7, <1>8, <2>1, <3>1, <4>1, <4>3 DEF Whole
    <3>2. QED
      BY <1>3, <1>5, <1>6, <1>7, <1>12, <1>8, <2>3, <3>1 DEF Looked, Optimistic
  <2>4. CASE ~ hit /\ ~ more
    <3>1. ASSUME ~ HasChanged(t)
          PROVE  (\A q \in Seen(t)' : Whole(x.n, q)') /\ KnowsPerm(t)'
      <4>1. Seen(t)' = {}
        BY <1>6, <1>7, <1>12, <2>4 DEF Seen
      <4>2. ASSUME L.perm = x.perm0, req[t].op \in {"put", "remove"} PROVE NotThere(L, x.i, KaIkey(t))
        <5>1. L.perm = x.perm
          BY <2>1, <3>1, <4>2 DEF Get
        <5>2. x.i < L.perm.size => KaIkey(t) < L.ikey[At(L.perm, x.i)]
          <6>1. SUFFICES ASSUME x.i < L.perm.size PROVE KaIkey(t) < L.ikey[At(L.perm, x.i)]
            OBVIOUS
          <6>2. L.ikey[slot] # KaIkey(t) /\ ~ (L.ikey[slot] < KaIkey(t)) /\ L.ikey[slot] \in Nat
            <7>1. x.i < x.perm.size /\ req[t].op # "gc"
              BY <4>2, <5>1, <6>1
            <7>2. x.i \in 0 .. x.perm.size - 1
              BY <1>2, <1>3, <7>1
            <7>3. L.ikey[slot] \in Nat
              BY <1>4, <7>2
            <7>4. L.ikey[slot] # KaIkey(t) /\ ~ (L.ikey[slot] < KaIkey(t))
              BY <2>4, <7>1
            <7>5. QED
              BY <7>3, <7>4
          <6>3. QED
            BY <1>4, <5>1, <6>2
        <5>3. \A j \in x.i .. L.perm.size - 1 : KaIkey(t) < L.ikey[At(L.perm, j)]
          <6>1. SUFFICES ASSUME NEW j \in x.i .. L.perm.size - 1 PROVE KaIkey(t) < L.ikey[At(L.perm, j)]
            OBVIOUS
          <6>2. /\ x.i \in 0 .. L.perm.size - 1 /\ j \in 0 .. L.perm.size - 1
                /\ L.ikey[At(L.perm, x.i)] \in Nat /\ L.ikey[At(L.perm, j)] \in Nat
            <7>1. x.i \in 0 .. L.perm.size /\ L.perm.size \in Nat
              BY <1>2, <1>3, <5>1
            <7>2. x.i \in 0 .. L.perm.size - 1 /\ j \in 0 .. L.perm.size - 1
              BY ONLY <7>1, j \in x.i .. L.perm.size - 1
            <7>3. QED
              BY <1>4, <7>2
          <6>3. j = x.i \/ L.ikey[At(L.perm, x.i)] < L.ikey[At(L.perm, j)]
            BY <1>2, <6>2 DEF Sorted
          <6>4. QED
            <7>1. x.i < L.perm.size /\ KaIkey(t) \in Nat
              BY <1>2, <1>4, <6>2
            <7>2. QED
              BY <5>2, <6>2, <6>3, <7>1
        <5>4. QED
          BY <1>3, <2>1, <3>1, <5>1, <5>3 DEF NotThere
      <4>3. KnowsPerm(t)'
        BY <1>6, <1>7, <1>12, <1>8, <2>1, <2>4, <3>1, <4>2, SlotIsNoError DEF KnowsPerm, Searched
      <4>4. QED
        BY <4>1, <4>3
    <3>2. QED
      BY <1>3, <1>6, <1>7, <1>12, <1>8, <2>4, <3>1 DEF Looked, Optimistic
  <2>5. QED
    BY <2>2, <2>3, <2>4
<1>11. QED
  BY <1>1, <1>7, <1>12, <1>9, <1>10, ReadStep DEF Own, Removing

LEMMA DescendStep ==
  ASSUME LeafInv, NEW t \in Thread, Descend(t)
  PROVE  LeafInv' /\ Gentle(t)
<1> DEFINE y == [NoLocals EXCEPT !.n = loc[t].lv]
<1>1. /\ pc[t] = "check" /\ pc' = [pc EXCEPT ![t] = "stable"] /\ loc' = [loc EXCEPT ![t] = y]
      /\ UNCHANGED <<leaf, fresh, gcs, req, ops, map>> /\ ~ HasChanged(t) /\ loc[t].match = -1
  BY DEF Descend, Goto, shared, history
<1>2. /\ Types /\ TypeOK /\ Locks(t) /\ Placed(t) /\ Looked(t) /\ loc[t] \in Locals /\ N(t) = leaf[loc[t].n]
      /\ loc[t].n \in LeafId /\ loc[t].p \in Slot \cup {-1}
  BY Parts, LocalTypes
<1>3. loc[t].p # -1 /\ req[t].op # "gc" /\ Whole(loc[t].n, loc[t].p) /\ KnowsSlot(t)
  <2>1. loc[t].p # -1 /\ req[t].op # "gc"
    BY <1>1, <1>2, LookedFacts DEF Optimistic
  <2>2. loc[t].p \in Seen(t)
    BY <1>1, <2>1 DEF Seen
  <2>3. QED
    BY <1>1, <1>2, <2>1, <2>2, LookedFacts DEF Optimistic
<1>4. /\ loc[t].n = Top /\ loc[t].lv \in LayerLeaf \ fresh
      /\ leaf[Top].ikey[loc[t].p] = KaIkey(t) /\ loc[t].lv = leaf[Top].lv[loc[t].p]
      /\ loc[t].p \in InUse(leaf[Top].perm) \/ leaf[loc[t].lv].modstate = "deleted_layer"
  <2>1. /\ N(t).keylenx[loc[t].p] = "layer" /\ N(t).ikey[loc[t].p] = KaIkey(t)
        /\ loc[t].lv = N(t).lv[loc[t].p]
    BY <1>1, <1>3 DEF KnowsSlot
  <2>2. QED
    BY <1>2, <1>3, <2>1 DEF Whole
<1>5. /\ y \in Locals /\ y.n = loc[t].lv /\ PermOk(y.perm) /\ PermOk(y.perm0)
  BY <1>4, LocalsOfNobody, TopIsLeaf DEF Locals, NoLocals
<1> HIDE DEF y
<1>6. Types' /\ pc'[t] = "stable" /\ loc'[t] = y /\ req'[t] = req[t] /\ \A u \in Thread \ {t} : Same(u)
  BY <1>1, <1>2, <1>5, Looks DEF PCs
<1>7. Placed(t)'
  <2>1. KaIkey(t) = IkeyOf[req[t].key]
    BY <1>3, <1>4 DEF KaIkey
  <2>2. Linked(loc[t].lv, IkeyOf[req[t].key]) \/ leaf[loc[t].lv].modstate = "deleted_layer"
    BY <1>4, <2>1 DEF Linked
  <2>3. QED
    BY <1>1, <1>3, <1>4, <1>5, <1>6, <2>2 DEF Placed, Linked
<1>8. QED
  BY <1>1, <1>2, <1>6, <1>7, AtRest, ReadStep DEF Removing, Locks

LEMMA GetEndStep ==
  ASSUME LeafInv, NEW t \in Thread, GetEnd(t)
  PROVE  LeafInv' /\ Gentle(t)
<1>1. /\ pc[t] = "check" /\ UNCHANGED <<leaf, fresh, gcs, req, ops, map>>
      /\ \/ pc' = [pc EXCEPT ![t] = "stable"] /\ loc' = loc
         \/ pc' = [pc EXCEPT ![t] = "done"] /\ loc' = [loc EXCEPT ![t] = NoLocals]
  BY DEF GetEnd, Answer, Goto, shared, history
<1>2. /\ Types /\ TypeOK /\ Locks(t) /\ Placed(t) /\ loc[t] \in Locals
      /\ PermOk(loc[t].perm) /\ PermOk(loc[t].perm0)
  BY Parts, LocalTypes
<1>3. CASE pc' = [pc EXCEPT ![t] = "stable"] /\ loc' = loc
  <2>1. Types' /\ pc'[t] = "stable" /\ loc'[t] = loc[t] /\ req'[t] = req[t] /\ \A u \in Thread \ {t} : Same(u)
    <3>1. loc' = [loc EXCEPT ![t] = loc[t]] /\ "stable" \in PCs
      BY <1>2, <1>3, Stays DEF PCs
    <3>2. QED
      BY <1>1, <1>2, <1>3, <3>1, Looks
  <2>2. Placed(t)'
    BY <1>1, <1>2, <2>1, ReadSame
  <2>3. QED
    BY <1>1, <1>2, <2>1, <2>2, AtRest, ReadStep DEF Removing, Locks
<1>4. CASE pc' = [pc EXCEPT ![t] = "done"] /\ loc' = [loc EXCEPT ![t] = NoLocals]
  <2>1. Types' /\ pc'[t] = "done" /\ loc'[t] = NoLocals /\ req'[t] = req[t] /\ \A u \in Thread \ {t} : Same(u)
    <3>1. NoLocals \in Locals /\ PermOk(NoLocals.perm) /\ PermOk(NoLocals.perm0) /\ "done" \in PCs
      BY LocalsOfNobody DEF PCs
    <3>2. QED
      BY <1>1, <1>2, <1>4, <3>1, Looks
  <2>2. Placed(t)'
    BY <2>1, LocalsOfNobody DEF Placed
  <2>3. QED
    BY <1>1, <1>2, <2>1, <2>2, AtRest, ReadStep DEF Removing, Locks
<1>5. QED
  BY <1>1, <1>3, <1>4

LEMMA ReturnStep ==
  ASSUME LeafInv, NEW t \in Thread, Return(t)
  PROVE  LeafInv' /\ Gentle(t)
<1>1. /\ pc[t] = "done" /\ pc' = [pc EXCEPT ![t] = "idle"] /\ req' = [req EXCEPT ![t] = Idle]
      /\ UNCHANGED <<leaf, fresh, gcs, loc, ops, map>>
  BY DEF Return, Goto, shared
<1>2. /\ Types /\ TypeOK /\ Placed(t) /\ PermOk(loc[t].perm) /\ PermOk(loc[t].perm0)
      /\ loc[t] \in Locals
  BY Parts, LocalTypes
<1>3. Types' /\ pc'[t] = "idle" /\ loc'[t] = loc[t] /\ req'[t] = Idle /\ \A u \in Thread \ {t} : Same(u)
  BY <1>1, <1>2, Stays, Moves DEF PCs
<1>4. Placed(t)'
  BY <1>1, <1>2, <1>3 DEF Placed
<1>5. Own(t)'
  BY <1>3, <1>4, AtRest
<1>6. QED
  BY <1>1, <1>3, <1>5, ReadStep DEF Removing

-----------------------------------------------------------------------------
(* What a position found under the lock is good for *)

\* A leaf has one slot in use for an ikey.
LEMMA OneSlot ==
  ASSUME NEW L \in LeafRecord, PermOk(L.perm), Sorted(L),
         NEW q \in InUse(L.perm), NEW r \in InUse(L.perm), L.ikey[q] = L.ikey[r]
  PROVE  q = r
<1>1. PICK i \in 0 .. L.perm.size - 1 : q = At(L.perm, i)
  BY DEF InUse
<1>2. PICK j \in 0 .. L.perm.size - 1 : r = At(L.perm, j)
  BY DEF InUse
<1>3. L.ikey[q] \in Nat /\ L.perm.size \in Nat
  <2>1. q \in Slot
    BY Positions
  <2>2. L.ikey[q] \in Nat
    BY <2>1, LeafFields, Ikeys
  <2>3. QED
    BY <2>2, LeafFields, InUseSlots
<1>4. ~ (i < j) /\ ~ (j < i)
  BY <1>1, <1>2, <1>3 DEF Sorted
<1>5. QED
  BY <1>1, <1>2, <1>3, <1>4

\* There and NotThere, in terms of the slots in use.
LEMMA ThereIs ==
  ASSUME NEW L, NEW i, NEW p, NEW a, There(L, i, p, a)
  PROVE  p \in InUse(L.perm) /\ L.ikey[p] = a
BY DEF There, InUse

LEMMA NotThereIs ==
  ASSUME TypeOK, NEW x \in LeafId, NEW i, NEW a \in Nat, NotThere(leaf[x], i, a),
         NEW q \in InUse(leaf[x].perm)
  PROVE  leaf[x].ikey[q] # a
<1>1. PICK j \in 0 .. leaf[x].perm.size - 1 : q = At(leaf[x].perm, j)
  BY DEF InUse
<1>2. leaf[x].perm.size \in Nat /\ i \in 0 .. leaf[x].perm.size
  BY LeafTypes, InUseSlots DEF NotThere
<1>3. leaf[x].ikey[q] \in Nat
  BY LeafTypes, InUseSlots
<1>4. CASE j < i
  BY <1>1, <1>2, <1>3, <1>4 DEF NotThere
<1>5. CASE j >= i
  BY <1>1, <1>2, <1>3, <1>5 DEF NotThere
<1>6. QED
  BY <1>1, <1>2, <1>4, <1>5

\* The slot of Top that has the ikey of a key decides about the key, ...
LEMMA OneSlotHolds ==
  ASSUME NEW lf, lf[Top] \in LeafRecord, PermOk(lf[Top].perm), Sorted(lf[Top]),
         NEW k \in Key, NEW v, NEW q \in InUse(lf[Top].perm), lf[Top].ikey[q] = IkeyOf[k]
  PROVE  Holds(lf, k, v) <=> SlotHolds(lf, q, k, v)
<1>1. \A r \in InUse(lf[Top].perm) : SlotHolds(lf, r, k, v) => r = q
  BY OneSlot DEF SlotHolds
<1>2. QED
  BY <1>1 DEF Holds

\* ... and if the slot leads to a layer, the layer's leaf decides.
LEMMA LayerDecides ==
  ASSUME NEW lf, lf[Top] \in LeafRecord, PermOk(lf[Top].perm), Sorted(lf[Top]),
         NEW k \in Key, NEW v, NEW y \in LayerLeaf, NEW q \in InUse(lf[Top].perm),
         lf[Top].ikey[q] = IkeyOf[k], lf[Top].lv[q] = y
  PROVE  Holds(lf, k, v) <=> LayerHolds(lf, y, k, v)
<1>1. Holds(lf, k, v) <=> SlotHolds(lf, q, k, v)
  BY OneSlotHolds
<1>2. QED
  BY <1>1 DEF SlotHolds

LEMMA TopFacts ==
  ASSUME LeafInv
  PROVE  leaf[Top] \in LeafRecord /\ PermOk(leaf[Top].perm) /\ Sorted(leaf[Top])
BY TopIsLeaf, LeafTypes DEF LeafInv, Types, Store, Leaves

LEMMA FoundPosition ==
  ASSUME LeafInv, NEW t \in Thread, pc[t] = "validate", ~ Stale(t), req[t].op \in {"put", "remove"}
  PROVE  LET x == loc[t] L == N(t) IN
         /\ x.p = -1 => x.match = 0 /\ NotThere(L, x.i, KaIkey(t))
         /\ x.p # -1 => /\ There(L, x.i, x.p, KaIkey(t)) /\ x.match \in {0, 1}
                        /\ x.match = 1 => Mine(t, x.p)
                        /\ x.match = 0 => /\ x.n = Top /\ L.keylenx[x.p] = "ksuf" /\ L.lv[x.p] \in Val
                                          /\ L.ksuf[x.p] # req[t].key
<1> DEFINE x == loc[t]
           L == N(t)
<1>1. /\ Looked(t) /\ TypeOK /\ x.match \in {-1, 0, 1} /\ ~ HasChanged(t) /\ L.perm = x.perm0
      /\ L = leaf[x.n]
  BY Parts, LocalTypes DEF Stale
<1>2. /\ x.p = -1 => x.match = 0
      /\ \A q \in Seen(t) : Whole(x.n, q)
      /\ KnowsPerm(t)
      /\ x.p # -1 => KnowsSlot(t)
  BY <1>1, LookedFacts DEF Optimistic
<1>3. /\ x.p = -1 => NotThere(L, x.i, KaIkey(t))
      /\ x.p # -1 => There(L, x.i, x.p, KaIkey(t))
  BY <1>1, <1>2 DEF KnowsPerm, Searched
<1>4. ASSUME x.p # -1
      PROVE  /\ x.match \in {0, 1}
             /\ x.match = 1 => Mine(t, x.p)
             /\ x.match = 0 => /\ x.n = Top /\ L.keylenx[x.p] = "ksuf" /\ L.lv[x.p] \in Val
                               /\ L.ksuf[x.p] # req[t].key
  <2>1. Whole(x.n, x.p)
    BY <1>2, <1>4 DEF Seen
  <2>2. /\ x.match = 1 => L.keylenx[x.p] = "short" \/ (L.keylenx[x.p] = "ksuf" /\ L.ksuf[x.p] = req[t].key)
        /\ x.match # -1
        /\ x.match = 0 => L.keylenx[x.p] = "ksuf" /\ L.ksuf[x.p] # req[t].key
    BY <1>2, <1>4 DEF KnowsSlot
  <2>3. QED
    BY <1>1, <2>1, <2>2 DEF Whole, Mine
<1>5. QED
  BY <1>2, <1>3, <1>4

\* A key that find_locked has not found is not in the leaves.
LEMMA Missing ==
  ASSUME LeafInv, NEW t \in Thread, pc[t] = "validate", ~ Stale(t), req[t].op \in {"put", "remove"},
         N(t).modstate # "deleted_layer", loc[t].match = 0, NEW v \in Val
  PROVE  req[t].key \in Key /\ ~ Holds(leaf, req[t].key, v)
<1> DEFINE x == loc[t]
           L == N(t)
           k == req[t].key
<1>1. /\ TypeOK /\ L = leaf[x.n] /\ x.n \in LeafId /\ Locks(t) /\ Placed(t)
  BY Parts, LocalTypes
<1>2. /\ k \in Key /\ KaIkey(t) = (IF x.n = Top THEN IkeyOf[k] ELSE k) /\ KaIkey(t) \in Nat
  <2>1. req[t] \in Request \cup GcRequest
    BY <1>1 DEF Locks
  <2>2. QED
    BY <2>1, Requests, KaIsIkey DEF KaIkey
<1>3. CASE x.p = -1
  <2>1. \A q \in InUse(L.perm) : L.ikey[q] # KaIkey(t)
    <3>1. NotThere(leaf[x.n], x.i, KaIkey(t))
      BY <1>1, <1>3, FoundPosition
    <3>2. QED
      BY ONLY <1>1, <1>2, <3>1, NotThereIs
  <2>2. CASE x.n = Top
    BY <1>1, <1>2, <2>1, <2>2 DEF Holds, SlotHolds
  <2>3. CASE x.n # Top
    <3>1. x.n \in LayerLeaf /\ Linked(x.n, IkeyOf[k])
      BY <1>1, <2>3 DEF Placed
    <3>2. ~ LayerHolds(leaf, x.n, k, v)
      BY <1>1, <1>2, <2>1, <2>3 DEF LayerHolds
    <3>3. QED
      BY <1>2, <3>1, <3>2, LayerDecides, TopFacts DEF Linked
  <2>4. QED
    BY <2>2, <2>3
<1>4. CASE x.p # -1
  <2>1. /\ There(L, x.i, x.p, KaIkey(t)) /\ x.n = Top /\ L.lv[x.p] \in Val /\ L.ksuf[x.p] # k
    BY <1>4, FoundPosition
  <2>2. x.p \in InUse(leaf[Top].perm) /\ leaf[Top].ikey[x.p] = IkeyOf[k]
    <3>1. x.p \in InUse(L.perm) /\ L.ikey[x.p] = KaIkey(t)
      BY ONLY <2>1, ThereIs
    <3>2. QED
      BY <1>1, <1>2, <2>1, <3>1
  <2>3. ~ SlotHolds(leaf, x.p, k, v)
    BY <1>1, <2>1, ValuesAssumption DEF SlotHolds
  <2>4. QED
    BY <1>2, <2>2, <2>3, OneSlotHolds, TopFacts
<1>5. QED
  BY <1>3, <1>4

LEMMA FoundStep ==
  ASSUME LeafInv, NEW t \in Thread, Found(t)
  PROVE  LeafInv' /\ Gentle(t)
<1> DEFINE x == loc[t]
           y == [x EXCEPT !.v = 0, !.perm0 = MakeEmpty, !.lv = Empty]
           l == CASE req[t].op = "gc" -> "gc"
                  [] req[t].op = "remove" -> IF x.match = 1 THEN "remove" ELSE "unlock"
                  [] req[t].op = "put" -> IF x.match = 1 THEN "update"
                                          ELSE IF x.p # -1 THEN "layer" ELSE "insert"
<1>1. /\ pc[t] = "validate" /\ ~ Stale(t) /\ N(t).modstate # "deleted_layer"
      /\ pc' = [pc EXCEPT ![t] = l] /\ loc' = [loc EXCEPT ![t] = y]
      /\ UNCHANGED <<leaf, fresh, gcs, req, ops>>
      /\ IF req[t].op = "remove" /\ x.match = 0 THEN map' = [map EXCEPT ![req[t].key] = None] ELSE map' = map
  BY DEF Found, Goto, shared, history, Effect
<1>2. /\ Types /\ TypeOK /\ Locks(t) /\ Placed(t) /\ x \in Locals /\ Content
      /\ PermOk(x.perm) /\ PermOk(x.perm0) /\ N(t) = leaf[x.n] /\ x.match \in {-1, 0, 1} /\ x.n \in LeafId
  BY Parts, LocalTypes
<1>3. /\ req[t] \in Request \cup GcRequest /\ req[t].op \in {"put", "remove", "gc"} /\ N(t).lock = t
  BY <1>1, <1>2, Requests DEF Locks, Holding, Get
<1>4. /\ y \in Locals /\ y.n = x.n /\ y.i = x.i /\ y.p = x.p /\ y.match = x.match /\ y.lv = Empty
      /\ PermOk(y.perm) /\ PermOk(y.perm0)
  BY <1>2, LocalsOfNobody DEF Locals, LeafValue
<1>5. /\ req[t].op = "gc" => l = "gc"
      /\ req[t].op = "remove" => l = IF x.match = 1 THEN "remove" ELSE "unlock"
      /\ req[t].op = "put" => l = IF x.match = 1 THEN "update" ELSE IF x.p # -1 THEN "layer" ELSE "insert"
  BY <1>3
<1>6. l \in PCs /\ l \in {"gc", "remove", "unlock", "update", "layer", "insert"}
  BY <1>3, <1>5 DEF PCs
<1> HIDE DEF y, l
<1>7. map' = map
  <2>1. SUFFICES ASSUME req[t].op = "remove", x.match = 0 PROVE map' = map
    BY <1>1
  <2>2. req[t].key \in Key /\ \A v \in Val : map[req[t].key] # v
    <3>1. req[t].key \in Key
      BY <1>3, <2>1, Requests
    <3>2. \A v \in Val : ~ Holds(leaf, req[t].key, v)
      BY <1>1, <2>1, Missing
    <3>3. QED
      BY <1>2, <3>1, <3>2 DEF Content
  <2>3. map[req[t].key] = None /\ map \in [Key -> Val \cup {None}]
    BY <1>2, <2>2 DEF TypeOK
  <2>4. QED
    BY <1>1, <2>1, <2>2, <2>3
<1>8. Types' /\ pc'[t] = l /\ loc'[t] = y /\ req'[t] = req[t] /\ \A u \in Thread \ {t} : Same(u)
  BY <1>1, <1>2, <1>4, <1>6, <1>7, Looks
<1>9. /\ N(t)' = N(t) /\ Placed(t)' /\ (Get(t)' <=> Get(t)) /\ KaIkey(t)' = KaIkey(t)
  <2>1. l \notin {"idle", "done"}
    BY <1>6
  <2>2. QED
    BY <1>1, <1>2, <1>4, <1>8, <2>1, ReadSame
<1>10. Locks(t)' /\ Looked(t)'
  BY <1>3, <1>6, <1>8, <1>9, LookedVoid DEF Locks, Get, Holding, Working, Assigning, Layering, Removing, Optimistic
<1>11. Held(t)'
  <2>1. \A p : Mine(t, p) <=> Mine(t, p)'
    BY <1>4, <1>8, <1>9 DEF Mine
  <2>2. CASE l \in {"gc", "unlock"}
    BY <1>1, <1>3, <1>5, <1>8, <1>9, <2>2 DEF Held, Assigning, Layering, Removing
  <2>3. CASE l \notin {"gc", "unlock"}
    <3>1. req[t].op \in {"put", "remove"}
      BY <1>3, <1>5, <2>3
    <3>2. /\ x.p = -1 => x.match = 0 /\ NotThere(N(t), x.i, KaIkey(t))
          /\ x.p # -1 => /\ There(N(t), x.i, x.p, KaIkey(t)) /\ x.match \in {0, 1}
                         /\ x.match = 1 => Mine(t, x.p)
                         /\ x.match = 0 => /\ x.n = Top /\ N(t).keylenx[x.p] = "ksuf"
                                           /\ N(t).ksuf[x.p] # req[t].key
      BY <1>1, <3>1, FoundPosition
    <3>3. CASE l = "update"
      <4>1. req[t].op = "put" /\ x.match = 1 /\ x.p # -1
        BY <1>3, <1>5, <3>2, <3>3
      <4>2. There(N(t), x.i, x.p, KaIkey(t))' /\ Mine(t, x.p)'
        BY <1>4, <1>8, <1>9, <2>1, <3>2, <4>1 DEF There, Mine
      <4>3. QED
        BY <1>1, <1>4, <1>8, <1>9, <3>3, <4>1, <4>2 DEF Held, There, Mine, Assigning, Layering, Removing
    <3>4. CASE l = "insert"
      <4>1. req[t].op = "put" /\ x.p = -1
        BY <1>3, <1>5, <3>4
      <4>2. QED
        BY <1>1, <1>4, <1>8, <1>9, <3>2, <3>4, <4>1 DEF Held, NotThere, Assigning, Layering, Removing
    <3>5. CASE l = "layer"
      <4>1. req[t].op = "put" /\ x.p # -1 /\ x.match = 0
        BY <1>3, <1>5, <3>2, <3>5
      <4>2. x.p \in InUse(N(t).perm) /\ N(t).ikey[x.p] = KaIkey(t)
        <5>1. There(N(t), x.i, x.p, KaIkey(t))
          BY <3>2, <4>1
        <5>2. QED
          BY ONLY <5>1, ThereIs
      <4>3. HeldLayer(t)'
        BY <1>4, <1>8, <1>9, <3>2, <3>5, <4>1, <4>2 DEF HeldLayer
      <4>4. QED
        BY <1>1, <1>8, <1>9, <3>5, <4>1, <4>3 DEF Held, Assigning, Layering, Removing
    <3>6. CASE l = "remove"
      <4>1. req[t].op = "remove" /\ x.match = 1 /\ x.p # -1
        BY <1>3, <1>5, <3>2, <3>6
      <4>2. There(N(t), x.i, x.p, KaIkey(t)) /\ Mine(t, x.p) /\ x.p = At(N(t).perm, x.i)
        BY <3>2, <4>1 DEF There
      <4>3. HeldRemoving(t)'
        BY <1>4, <1>8, <1>9, <2>1, <3>6, <4>1, <4>2 DEF HeldRemoving, There, Mine
      <4>4. QED
        BY <1>1, <1>8, <1>9, <3>6, <4>1, <4>3 DEF Held, Assigning, Layering, Removing
    <3>7. QED
      BY <1>6, <2>3, <3>3, <3>4, <3>5, <3>6
  <2>4. QED
    BY <2>2, <2>3
<1>12. QED
  BY <1>1, <1>7, <1>8, <1>9, <1>10, <1>11, ReadStep DEF Own, Removing

LEMMA GcLayerStep ==
  ASSUME LeafInv, NEW t \in Thread, GcLayer(t)
  PROVE  LeafInv' /\ Gentle(t)
<1> DEFINE x == loc[t]
           p == At(N(t).perm, x.i)
           y == [x EXCEPT !.lv = N(t).lv[p]]
<1>1. /\ pc[t] = "gc" /\ UNCHANGED <<leaf, fresh, gcs, req, ops, map>>
      /\ \/ /\ x.i < N(t).perm.size /\ N(t).ikey[p] = KaIkey(t) /\ N(t).keylenx[p] = "layer"
            /\ pc' = [pc EXCEPT ![t] = "gc_lock"] /\ loc' = [loc EXCEPT ![t] = y]
         \/ pc' = [pc EXCEPT ![t] = "unlock"] /\ loc' = loc
  <2>1. Types
    BY Parts
  <2>2. QED
    BY <2>1 DEF GcLayer, Goto, shared, history, Types, TypeOK
<1>2. /\ Types /\ TypeOK /\ Locks(t) /\ Placed(t) /\ Held(t) /\ x \in Locals /\ x.i \in 0 .. W /\ x.n \in LeafId
      /\ PermOk(x.perm) /\ PermOk(x.perm0) /\ N(t) = leaf[x.n] /\ PermOk(N(t).perm) /\ N(t).perm.size \in 0 .. W
  BY Parts, LocalTypes, LeafTypes
<1>3. /\ N(t).lock = t /\ ~ Get(t) /\ req[t] \in Request \cup GcRequest /\ req[t].op = "gc"
      /\ N(t).modstate # "deleted_layer"
  BY <1>1, <1>2 DEF Locks, Held, Holding, Working
<1>4. CASE /\ x.i < N(t).perm.size /\ N(t).ikey[p] = KaIkey(t) /\ N(t).keylenx[p] = "layer"
           /\ pc' = [pc EXCEPT ![t] = "gc_lock"] /\ loc' = [loc EXCEPT ![t] = y]
  <2>1. x.i \in 0 .. N(t).perm.size - 1
    BY <1>2, <1>4
  <2>2. p \in Slot /\ N(t).lv[p] \in LeafValue
    <3>1. p \in Slot
      BY <1>2, <2>1, Positions DEF InUse
    <3>2. QED
      BY <1>2, <3>1, LeafTypes
  <2>3. /\ y \in Locals /\ y.n = x.n /\ y.i = x.i /\ y.lv = N(t).lv[p] /\ PermOk(y.perm) /\ PermOk(y.perm0)
    BY <1>2, <2>2 DEF Locals
  <2> HIDE DEF y
  <2>4. Types' /\ pc'[t] = "gc_lock" /\ loc'[t] = y /\ req'[t] = req[t] /\ \A u \in Thread \ {t} : Same(u)
    BY <1>1, <1>2, <1>4, <2>3, Looks DEF PCs
  <2>5. N(t)' = N(t) /\ Placed(t)' /\ (Get(t)' <=> Get(t)) /\ KaIkey(t)' = KaIkey(t)
    BY <1>1, <1>2, <2>3, <2>4, ReadSame
  <2>6. Locks(t)' /\ Looked(t)'
    BY <1>3, <2>4, <2>5, LookedVoid DEF Locks, Layering, Optimistic
  <2>7. Held(t)'
    BY <1>3, <1>4, <2>1, <2>3, <2>4, <2>5 DEF Held, There, Assigning, Layering, Removing
  <2>8. QED
    BY <1>1, <2>4, <2>5, <2>6, <2>7, ReadStep DEF Own, Removing
<1>5. CASE pc' = [pc EXCEPT ![t] = "unlock"] /\ loc' = loc
  <2>1. Types' /\ pc'[t] = "unlock" /\ loc'[t] = x /\ req'[t] = req[t] /\ \A u \in Thread \ {t} : Same(u)
    <3>1. loc' = [loc EXCEPT ![t] = x] /\ "unlock" \in PCs
      BY <1>2, <1>5, Stays DEF PCs
    <3>2. QED
      BY <1>1, <1>2, <1>5, <3>1, Looks
  <2>2. N(t)' = N(t) /\ Placed(t)' /\ (Get(t)' <=> Get(t))
    BY <1>1, <1>2, <2>1, ReadSame
  <2>3. Locks(t)' /\ Looked(t)'
    BY <1>3, <2>1, <2>2, LookedVoid DEF Locks, Layering, Optimistic
  <2>4. Held(t)'
    BY <1>3, <2>1, <2>2 DEF Held, Assigning, Layering, Removing
  <2>5. QED
    BY <1>1, <2>1, <2>2, <2>3, <2>4, ReadStep DEF Own, Removing
<1>6. QED
  BY <1>1, <1>4, <1>5

-----------------------------------------------------------------------------
(* Steps that write to one leaf, but to no slot in use *)

\* A gentle step keeps t where it is.
LEMMA PlacedKept ==
  ASSUME LeafInv, NEW t \in Thread, Gentle(t), loc'[t].n = loc[t].n, req'[t] = req[t],
         pc'[t] \notin {"idle", "done"}
  PROVE  Placed(t)'
<1>1. Locks(t) /\ Placed(t)
  BY Parts
<1>2. CASE loc[t].n = Top
  BY <1>2 DEF Placed
<1>3. CASE loc[t].n # Top
  <2>1. /\ pc[t] \notin {"idle", "done"} /\ req[t].op # "gc"
        /\ loc[t].n \in LayerLeaf \ fresh
        /\ Linked(loc[t].n, IkeyOf[req[t].key]) \/ leaf[loc[t].n].modstate = "deleted_layer"
    BY <1>1, <1>3 DEF Placed
  <2>2. IkeyOf[req[t].key] \in TopIkey
    BY <1>1, <2>1, Requests DEF Locks
  <2>3. \/ \E q \in InUse(leaf'[Top].perm) :
             leaf'[Top].ikey[q] = IkeyOf[req[t].key] /\ leaf'[Top].lv[q] = loc[t].n
        \/ leaf'[loc[t].n].modstate = "deleted_layer"
    BY <2>1, <2>2 DEF Gentle, Linked
  <2>4. fresh' \subseteq fresh
    BY DEF Gentle
  <2>5. QED
    BY <2>1, <2>3, <2>4 DEF Placed, Linked
<1>4. QED
  BY <1>2, <1>3

\* Thread t goes to l with the locals y and makes leaf z into M.
Writes(t, l, y, z, M) ==
  /\ l \in PCs /\ y \in Locals /\ PermOk(y.perm) /\ PermOk(y.perm0)
  /\ z \in LeafId \ fresh /\ M \in LeafRecord
  /\ leaf[z].lock \in {t, NoThread}
  /\ pc' = [pc EXCEPT ![t] = l] /\ loc' = [loc EXCEPT ![t] = y] /\ leaf' = [leaf EXCEPT ![z] = M]
  /\ UNCHANGED <<fresh, req, ops>> /\ gcs' \in [TopIkey -> Nat] /\ map' \in [Key -> Val \cup {None}]

\* M has what L has in slot q.
SameSlot(L, M, q) ==
  M.ikey[q] = L.ikey[q] /\ M.keylenx[q] = L.keylenx[q] /\ M.ksuf[q] = L.ksuf[q] /\ M.lv[q] = L.lv[q]

\* M has the slots in use of L, and who looks is told unless that is all that counts.
Quiet(L, M) ==
  /\ M.perm = L.perm
  /\ \A q \in InUse(L.perm) : SameSlot(L, M, q)
  /\ M.vinsert >= L.vinsert
  /\ L.inserting => M.inserting \/ M.vinsert > L.vinsert
  /\ \/ M.inserting \/ M.vinsert > L.vinsert
     \/ /\ \/ L.modstate = "insert" <=> M.modstate = "insert"
           \/ L.perm.size = 0 /\ M.modstate # "insert"
        /\ L.modstate # "insert" => \A q \in Slot : SameSlot(L, M, q)

\* A layer's leaf has short keys only, and dies if it is empty and t takes it out.
Lives(t, z, M) ==
  /\ z = Top => M.modstate # "deleted_layer"
  /\ z # Top => \A p \in Slot : M.keylenx[p] = "short"
  /\ leaf[z].modstate = "deleted_layer" => M.modstate = "deleted_layer"
  /\ M.modstate = "deleted_layer" =>
       \/ leaf[z].modstate = "deleted_layer"
       \/ leaf[z].perm.size = 0 /\ pc'[t] \in Removing /\ loc'[t].lv = z
  /\ pc[t] \in Removing => pc'[t] \in Removing /\ loc'[t].lv = loc[t].lv
  /\ pc[t] # "l_keylenx"

LEMMA Written ==
  ASSUME LeafInv, NEW t \in Thread, NEW l, NEW y, NEW z, NEW M, Writes(t, l, y, z, M)
  PROVE  /\ Types' /\ pc'[t] = l /\ loc'[t] = y /\ req'[t] = req[t]
         /\ leaf'[z] = M /\ \A x \in LeafId \ {z} : leaf'[x] = leaf[x]
         /\ \A u \in Thread \ {t} : Same(u)
         /\ z \in LeafId /\ (y.n = z => N(t)' = M) /\ (y.n = loc[t].n => KaIkey(t)' = KaIkey(t))
         /\ Get(t)' <=> Get(t)
<1>1. Types /\ TypeOK
  BY Parts
<1>2. /\ l \in PCs /\ y \in Locals /\ PermOk(y.perm) /\ PermOk(y.perm0)
      /\ z \in LeafId /\ M \in LeafRecord
      /\ pc' = [pc EXCEPT ![t] = l] /\ loc' = [loc EXCEPT ![t] = y] /\ leaf' = [leaf EXCEPT ![z] = M]
      /\ UNCHANGED <<fresh, req, ops>> /\ gcs' \in [TopIkey -> Nat] /\ map' \in [Key -> Val \cup {None}]
  BY DEF Writes
<1>3. leaf' \in [LeafId -> LeafRecord] /\ leaf'[z] = M /\ \A x \in LeafId \ {z} : leaf'[x] = leaf[x]
  BY <1>1, <1>2 DEF TypeOK
<1>4. /\ Types' /\ pc'[t] = l /\ loc'[t] = y /\ req'[t] = req[t]
      /\ \A u \in Thread \ {t} : Same(u)
  <2>1. /\ fresh' \subseteq LayerLeaf /\ ops' \in [Thread -> Nat]
        /\ req' = [req EXCEPT ![t] = req[t]] /\ req[t] \in Request \cup GcRequest \cup {Idle}
    BY <1>1, <1>2, Stays
  <2>2. QED
    BY <1>1, <1>2, <1>3, <2>1, Moves
<1>5. (y.n = z => N(t)' = M) /\ (y.n = loc[t].n => KaIkey(t)' = KaIkey(t)) /\ (Get(t)' <=> Get(t))
  BY <1>3, <1>4 DEF N, KaIkey, Get
<1>6. QED
  BY <1>2, <1>3, <1>4, <1>5

LEMMA QuietStep ==
  ASSUME LeafInv, NEW t \in Thread, NEW l, NEW y, NEW z, NEW M, Writes(t, l, y, z, M),
         Quiet(leaf[z], M), Lives(t, z, M), map' = map
  PROVE  /\ y.n = loc[t].n /\ l \notin {"idle", "done"} => Placed(t)'
         /\ Own(t)' => LeafInv' /\ Gentle(t)
<1> DEFINE L == leaf[z]
<1>1. /\ Types /\ TypeOK /\ Store /\ TopSlots /\ LayerSlots
  BY Parts DEF LeafInv
<1>2. /\ Types' /\ pc'[t] = l /\ loc'[t] = y /\ req'[t] = req[t]
      /\ leaf'[z] = M /\ \A x \in LeafId \ {z} : leaf'[x] = leaf[x]
      /\ \A u \in Thread \ {t} : Same(u)
  BY Written
<1>3. z \in LeafId \ fresh /\ M \in LeafRecord /\ leaf[z].lock \in {t, NoThread} /\ fresh' = fresh
  BY DEF Writes
<1>4. L.perm.size \in Nat /\ InUse(L.perm) \subseteq Slot
  BY <1>1, <1>3, LeafTypes, InUseSlots
<1>5. \A x \in LeafId : SameContent(x)
  <2>1. SameContent(z)
    BY <1>2, <1>3 DEF Quiet, SameSlot, SameContent
  <2>2. \A x \in LeafId \ {z} : SameContent(x)
    BY <1>2 DEF SameContent
  <2>3. QED
    BY <2>1, <2>2
<1>6. Calm(z)
  <2>1. M.vinsert >= L.vinsert /\ (L.inserting => M.inserting \/ M.vinsert > L.vinsert)
    BY DEF Quiet
  <2>2. M.inserting \/ M.vinsert > L.vinsert \/ Harmless(z)
    <3>1. SUFFICES ASSUME ~ M.inserting, ~ (M.vinsert > L.vinsert) PROVE Harmless(z)
      OBVIOUS
    <3>2. /\ M.perm = L.perm
          /\ \A q \in InUse(L.perm) : SameSlot(L, M, q)
          /\ \/ L.modstate = "insert" <=> M.modstate = "insert"
             \/ L.perm.size = 0 /\ M.modstate # "insert"
          /\ L.modstate # "insert" => \A q \in Slot : SameSlot(L, M, q)
      BY <3>1 DEF Quiet
    <3>3. QED
      BY <1>2, <3>2 DEF Harmless, Grow, SameSlot
  <2>3. QED
    BY <1>2, <2>1, <2>2 DEF Calm
<1>7. Gentle(t)
  <2>1. \A x \in LeafId \ fresh : Calm(x) /\ (leaf'[x] # leaf[x] => leaf[x].lock \in {t, NoThread})
    BY <1>1, <1>2, <1>3, <1>6, SameIsCalm
  <2>2. \A y1 \in LayerLeaf : leaf[y1].modstate = "deleted_layer" => leaf'[y1].modstate = "deleted_layer"
    BY <1>2, TopIsLeaf DEF Lives
  <2>3. \A y1 \in LayerLeaf \ fresh, a \in TopIkey : Linked(y1, a) => Linked(y1, a)'
    BY <1>5, TopIsLeaf DEF Linked, SameContent
  <2>4. QED
    BY <1>2, <1>3, <2>1, <2>2, <2>3 DEF Gentle
<1>8. Store'
  <2>1. \A x \in fresh : leaf'[x] = leaf[x]
    <3>1. fresh \subseteq LeafId
      BY <1>1, TopIsLeaf DEF TypeOK
    <3>2. QED
      BY <1>2, <1>3, <3>1
  <2>2. leaf'[Top].modstate # "deleted_layer"
    BY <1>1, <1>2, TopIsLeaf DEF Lives, TopSlots
  <2>3. \A x \in LayerLeaf : \A p \in Slot : leaf'[x].keylenx[p] = "short"
    BY <1>1, <1>2, TopIsLeaf DEF Lives, LayerSlots
  <2>4. \A x \in LayerLeaf :
          leaf'[x].modstate = "deleted_layer" =>
            \/ leaf[x].modstate = "deleted_layer"
            \/ leaf[x].perm.size = 0 /\ pc'[t] \in Removing /\ loc'[t].lv = x
    BY <1>2, TopIsLeaf DEF Lives
  <2>5. (pc[t] \in Removing => pc'[t] \in Removing /\ loc'[t].lv = loc[t].lv) /\ pc[t] # "l_keylenx"
    BY DEF Lives
  <2>6. QED
    BY <1>2, <1>3, <1>5, <2>1, <2>2, <2>3, <2>4, <2>5, StoreKept
<1>9. \A u \in Thread \ {t} : Own(u)'
  BY <1>2, <1>7, OthersKept
<1>10. y.n = loc[t].n /\ l \notin {"idle", "done"} => Placed(t)'
  BY <1>2, <1>7, PlacedKept
<1>11. QED
  BY <1>2, <1>7, <1>8, <1>9, <1>10 DEF LeafInv

\* What t finds when it holds the lock of its leaf.
LEMMA AtWork ==
  ASSUME LeafInv, NEW t \in Thread, pc[t] \in Holding
  PROVE  /\ Types /\ TypeOK /\ Locks(t) /\ Placed(t) /\ Held(t) /\ ~ Get(t) /\ req[t] \in Request \cup GcRequest
         /\ N(t) = leaf[loc[t].n] /\ N(t).lock = t /\ N(t) \in LeafRecord /\ PermOk(N(t).perm)
         /\ loc[t].n \in LeafId \ fresh /\ loc[t] \in Locals
         /\ PermOk(loc[t].perm) /\ PermOk(loc[t].perm0)
         /\ pc[t] \in Working => N(t).modstate # "deleted_layer"
         /\ loc[t].n = Top => N(t).modstate # "deleted_layer"
         /\ loc[t].n # Top => \A p \in Slot : N(t).keylenx[p] = "short"
         /\ N(t).inserting \in BOOLEAN /\ N(t).vinsert \in Nat /\ InUse(N(t).perm) \subseteq Slot
<1>1. /\ Types /\ TypeOK /\ Locks(t) /\ Placed(t) /\ Held(t) /\ TopSlots /\ LayerSlots
      /\ PermOk(loc[t].perm) /\ PermOk(loc[t].perm0) /\ PermOk(N(t).perm)
  BY Parts
<1>2. loc[t] \in Locals /\ loc[t].n \in LeafId /\ N(t) = leaf[loc[t].n]
  BY <1>1, LocalTypes
<1>3. /\ N(t) \in LeafRecord /\ N(t).inserting \in BOOLEAN /\ N(t).vinsert \in Nat /\ InUse(N(t).perm) \subseteq Slot
  BY <1>1, <1>2, LeafTypes, InUseSlots
<1>4. ~ Get(t) /\ N(t).lock = t /\ req[t] \in Request \cup GcRequest
  BY <1>1 DEF Locks, Holding, Working, Assigning, Layering, Removing
<1>5. loc[t].n \notin fresh
  BY <1>1, TopIsLeaf DEF Placed, TypeOK
<1>6. loc[t].n # Top => \A p \in Slot : N(t).keylenx[p] = "short"
  BY <1>1, <1>2 DEF LayerSlots, LeafId
<1>7. (loc[t].n = Top => N(t).modstate # "deleted_layer") /\ (pc[t] \in Working => N(t).modstate # "deleted_layer")
  BY <1>1, <1>2 DEF TopSlots, Held
<1>8. QED
  BY <1>1, <1>2, <1>3, <1>4, <1>5, <1>6, <1>7

\* What a thread needs to show that goes on with the lock.
LEMMA GoesOn ==
  ASSUME NEW t \in Thread, pc'[t] \in Working, N(t)'.lock = t, ~ Get(t)',
         pc'[t] \in Layering => leaf'[loc'[t].lv].lock = t,
         req'[t] \in Request \cup GcRequest, Placed(t)', Held(t)'
  PROVE  Own(t)'
<1>1. pc'[t] \notin Optimistic
  BY DEF Working, Assigning, Layering, Removing, Optimistic
<1>2. Locks(t)'
  BY DEF Locks, Get
<1>3. QED
  BY <1>1, <1>2, LookedVoid DEF Own

LEMMA LockStep ==
  ASSUME LeafInv, NEW t \in Thread, Lock(t)
  PROVE  LeafInv' /\ Gentle(t)
<1> DEFINE n == loc[t].n
           L == leaf[n]
           M == [L EXCEPT !.lock = t]
<1>1. /\ pc[t] = "check" /\ ~ Get(t) /\ (HasChanged(t) \/ loc[t].match # -1) /\ N(t).lock = NoThread
      /\ pc' = [pc EXCEPT ![t] = "validate"] /\ leaf' = [leaf EXCEPT ![n] = M]
      /\ UNCHANGED <<fresh, gcs, loc, req, ops, map>>
  <2>1. Types
    BY Parts
  <2>2. QED
    BY <2>1 DEF Lock, Goto, history, Types, TypeOK
<1>2. /\ TypeOK /\ Locks(t) /\ Placed(t) /\ Looked(t) /\ loc[t] \in Locals /\ L \in LeafRecord /\ N(t) = L
      /\ PermOk(loc[t].perm) /\ PermOk(loc[t].perm0) /\ n \in LeafId /\ TopSlots /\ LayerSlots
      /\ L.vinsert \in Nat
  BY Parts, LocalTypes, LeafTypes
<1>3. n \in LeafId \ fresh
  BY <1>2, TopIsLeaf DEF Placed, TypeOK
<1>4. /\ M \in LeafRecord /\ M.lock = t /\ M.inserting = L.inserting /\ M.vinsert = L.vinsert /\ M.perm = L.perm
      /\ M.modstate = L.modstate /\ M.ikey = L.ikey /\ M.keylenx = L.keylenx /\ M.ksuf = L.ksuf /\ M.lv = L.lv
  BY <1>2 DEF LeafRecord
<1> HIDE DEF M
<1>5. Writes(t, "validate", loc[t], n, M)
  <2>1. loc' = [loc EXCEPT ![t] = loc[t]]
    BY <1>1, <1>2, Stays
  <2>2. QED
    BY <1>1, <1>2, <1>3, <1>4, <2>1, Stays DEF Writes, PCs
<1>6. Quiet(L, M)
  BY <1>2, <1>4 DEF Quiet, SameSlot
<1>7. Lives(t, n, M)
  <2>1. n # Top => \A p \in Slot : L.keylenx[p] = "short"
    BY <1>2 DEF LayerSlots, LeafId
  <2>2. QED
    BY <1>1, <1>2, <1>4, <2>1 DEF Lives, TopSlots, Removing
<1>8. /\ pc'[t] = "validate" /\ loc'[t] = loc[t] /\ req'[t] = req[t] /\ N(t)' = M /\ KaIkey(t)' = KaIkey(t)
      /\ leaf'[n] = M /\ \A x \in LeafId \ {n} : leaf'[x] = leaf[x]
      /\ (Get(t)' <=> Get(t))
  BY <1>5, Written
<1>9. Placed(t)'
  BY <1>1, <1>5, <1>6, <1>7, QuietStep
<1>10. Locks(t)' /\ Held(t)'
  <2>1. "validate" \notin Layering /\ "validate" \notin Working
    BY DEF Working, Assigning, Layering, Removing
  <2>2. req[t] \in Request \cup GcRequest
    BY <1>1, <1>2 DEF Locks
  <2>3. QED
    BY <1>1, <1>4, <1>8, <2>1, <2>2, HeldVoid DEF Locks
<1>11. Looked(t)'
  <2>1. /\ loc[t].v <= L.vinsert
        /\ loc[t].p = -1 => loc[t].match = 0
        /\ loc[t].p # -1 => req[t].op # "gc"
        /\ ~ HasChanged(t) => /\ \A q \in Seen(t) : Whole(n, q)
                              /\ KnowsPerm(t)
                              /\ loc[t].p # -1 => KnowsSlot(t)
    BY <1>1, <1>2, LookedFacts DEF Optimistic
  <2>2. HasChanged(t)' <=> HasChanged(t)
    BY <1>2, <1>4, <1>8 DEF HasChanged
  <2>3. ASSUME ~ HasChanged(t)
        PROVE  (\A q \in Seen(t)' : Whole(n, q)') /\ KnowsPerm(t)' /\ (loc[t].p # -1 => KnowsSlot(t)')
    <3>1. Seen(t)' = Seen(t)
      BY <1>1, <1>8 DEF Seen
    <3>2. \A x \in LeafId : leaf'[x].modstate = leaf[x].modstate /\ leaf'[x].perm = leaf[x].perm
            /\ leaf'[x].keylenx = leaf[x].keylenx /\ leaf'[x].lv = leaf[x].lv
      BY <1>4, <1>8
    <3>3. \A q : Whole(n, q) => Whole(n, q)'
      <4>1. SUFFICES ASSUME NEW q, Whole(n, q) PROVE Whole(n, q)'
        OBVIOUS
      <4>2. L.keylenx[q] = "layer" => L.lv[q] \in LayerLeaf
        BY <4>1 DEF Whole
      <4>3. L.keylenx[q] = "layer" => leaf'[L.lv[q]].modstate = leaf[L.lv[q]].modstate
        BY <3>2, <4>2, TopIsLeaf
      <4>4. QED
        BY <1>1, <1>3, <1>8, <3>2, <4>1, <4>3 DEF Whole
    <3>4. KnowsPerm(t)'
      BY <1>1, <1>2, <1>4, <1>8, <2>1, <2>3 DEF KnowsPerm, Searched, There, NotThere
    <3>5. loc[t].p # -1 => KnowsSlot(t)'
      BY <1>1, <1>2, <1>4, <1>8, <2>1, <2>3 DEF KnowsSlot
    <3>6. QED
      BY <2>1, <2>3, <3>1, <3>3, <3>4, <3>5, <1>8 DEF Whole
  <2>4. QED
    BY <1>2, <1>4, <1>8, <2>1, <2>2, <2>3 DEF Looked, Optimistic
<1>12. QED
  BY <1>1, <1>5, <1>6, <1>7, <1>9, <1>10, <1>11, QuietStep DEF Own

LEMMA UnlockedFields ==
  ASSUME NEW L \in LeafRecord
  PROVE  LET M == Unlocked(L) IN
         /\ M \in LeafRecord /\ Quiet(L, M) /\ M.modstate = L.modstate /\ M.keylenx = L.keylenx
         /\ M.ikey = L.ikey /\ M.ksuf = L.ksuf /\ M.lv = L.lv /\ M.perm = L.perm
<1> DEFINE M == Unlocked(L)
<1>1. L.inserting \in BOOLEAN /\ L.vinsert \in Nat
  BY LeafFields
<1> DEFINE w == IF L.inserting THEN L.vinsert + 1 ELSE L.vinsert
<1>2. w \in Nat
  BY <1>1
<1>3. M = [L EXCEPT !.lock = NoThread, !.inserting = FALSE, !.vinsert = w]
  BY DEF Unlocked, LeafRecord
<1> HIDE DEF w
<1>4. /\ M \in LeafRecord /\ M.modstate = L.modstate /\ M.keylenx = L.keylenx
      /\ M.ikey = L.ikey /\ M.ksuf = L.ksuf /\ M.lv = L.lv /\ M.perm = L.perm
      /\ M.vinsert = w
  <2> HIDE DEF M
  <2>1. QED
    BY <1>2, <1>3 DEF LeafRecord
<1> HIDE DEF M
<1>5. Quiet(L, M)
  BY <1>1, <1>4 DEF Quiet, SameSlot, w
<1>6. QED
  BY <1>4, <1>5 DEF M

LEMMA RetryStep ==
  ASSUME LeafInv, NEW t \in Thread, Retry(t)
  PROVE  LeafInv' /\ Gentle(t)
<1> DEFINE n == loc[t].n
           L == leaf[n]
           M == Unlocked(L)
           y == [loc[t] EXCEPT !.n = IF Stale(t) THEN @ ELSE Top]
<1>1. /\ pc[t] = "validate" /\ pc' = [pc EXCEPT ![t] = "stable"] /\ leaf' = [leaf EXCEPT ![n] = M]
      /\ loc' = [loc EXCEPT ![t] = y] /\ UNCHANGED <<fresh, gcs, req, ops, map>>
  <2>1. Types
    BY Parts
  <2>2. QED
    BY <2>1 DEF Retry, Goto, history, Types, TypeOK
<1>2. /\ TypeOK /\ n \in LeafId \ fresh /\ loc[t] \in Locals /\ L \in LeafRecord /\ L.lock = t
      /\ PermOk(loc[t].perm) /\ PermOk(loc[t].perm0) /\ req[t] \in Request \cup GcRequest
      /\ n = Top => L.modstate # "deleted_layer"
      /\ n # Top => \A p \in Slot : L.keylenx[p] = "short"
  BY <1>1, AtWork DEF Holding
<1>3. /\ M \in LeafRecord /\ Quiet(L, M) /\ M.modstate = L.modstate /\ M.keylenx = L.keylenx
  BY <1>2, UnlockedFields
<1>4. y \in Locals /\ y.perm = loc[t].perm /\ y.perm0 = loc[t].perm0 /\ (y.n = n \/ y.n = Top)
  BY <1>2, TopIsLeaf DEF Locals
<1> HIDE DEF M, y
<1>5. Writes(t, "stable", y, n, M)
  BY <1>1, <1>2, <1>3, <1>4, Stays DEF Writes, PCs
<1>6. Lives(t, n, M)
  BY <1>1, <1>2, <1>3 DEF Lives, Removing
<1>7. pc'[t] = "stable" /\ loc'[t] = y /\ req'[t] = req[t]
  BY <1>5, Written
<1>8. Placed(t)'
  <2>1. CASE y.n = n
    BY <1>1, <1>3, <1>5, <1>6, <2>1, QuietStep
  <2>2. CASE y.n = Top
    BY <1>7, <2>2 DEF Placed
  <2>3. QED
    BY <1>4, <2>1, <2>2
<1>9. QED
  BY <1>1, <1>2, <1>3, <1>5, <1>6, <1>7, <1>8, AtRest, QuietStep

LEMMA UnlockStep ==
  ASSUME LeafInv, NEW t \in Thread, Unlock(t)
  PROVE  LeafInv' /\ Gentle(t)
<1> DEFINE n == loc[t].n
           L == leaf[n]
           M == Unlocked(L)
<1>1. /\ pc[t] = "unlock" /\ pc' = [pc EXCEPT ![t] = "done"] /\ leaf' = [leaf EXCEPT ![n] = M]
      /\ loc' = [loc EXCEPT ![t] = NoLocals] /\ UNCHANGED <<fresh, gcs, req, ops, map>>
  <2>1. Types
    BY Parts
  <2>2. QED
    BY <2>1 DEF Unlock, Answer, Goto, Types, TypeOK
<1>2. /\ TypeOK /\ n \in LeafId \ fresh /\ L \in LeafRecord /\ L.lock = t
      /\ req[t] \in Request \cup GcRequest
      /\ n = Top => L.modstate # "deleted_layer"
      /\ n # Top => \A p \in Slot : L.keylenx[p] = "short"
  BY <1>1, AtWork DEF Holding, Working
<1>3. /\ M \in LeafRecord /\ Quiet(L, M) /\ M.modstate = L.modstate /\ M.keylenx = L.keylenx
  BY <1>2, UnlockedFields
<1> HIDE DEF M
<1>4. Writes(t, "done", NoLocals, n, M)
  BY <1>1, <1>2, <1>3, LocalsOfNobody, Stays DEF Writes, PCs
<1>5. Lives(t, n, M)
  BY <1>1, <1>2, <1>3 DEF Lives, Removing
<1>6. pc'[t] = "done" /\ loc'[t] = NoLocals /\ req'[t] = req[t]
  BY <1>4, Written
<1>7. Placed(t)'
  BY <1>6, LocalsOfNobody DEF Placed
<1>8. QED
  BY <1>1, <1>2, <1>3, <1>4, <1>5, <1>6, <1>7, AtRest, QuietStep

\* What t knows of the slot that it assigns.
LEMMA AtAssign ==
  ASSUME LeafInv, NEW t \in Thread, pc[t] \in Assigning
  PROVE  /\ HeldAssigning(t) /\ req[t].op = "put" /\ req[t].key \in Key /\ req[t].val \in Val
         /\ loc[t].p \in Slot /\ loc[t].p \notin InUse(N(t).perm) /\ KaIkey(t) \in Ikey /\ KaIkey(t) \in Nat
         /\ N(t).modstate = "insert" /\ N(t).perm.size < W
<1>1. /\ HeldAssigning(t) /\ req[t].op = "put" /\ req[t] \in Request \cup GcRequest /\ PermOk(N(t).perm)
  BY AtWork DEF Held, Holding, Working
<1>2. loc[t].p = Back(N(t).perm) /\ N(t).perm.size < W /\ N(t).modstate = "insert"
  BY <1>1 DEF HeldAssigning
<1>3. loc[t].p \in Slot /\ loc[t].p \notin InUse(N(t).perm)
  BY <1>1, <1>2, BackIsFree
<1>4. QED
  BY <1>1, <1>2, <1>3, Requests, KaIsIkey

\* A step of leaf::assign: M differs from the leaf only in slots that are not in use.
Assigned(t, l, M) ==
  LET L == N(t) x == loc[t] IN
  /\ l \in Assigning /\ M \in LeafRecord
  /\ M.lock = L.lock /\ M.inserting = L.inserting /\ M.vinsert = L.vinsert
  /\ M.perm = L.perm /\ M.modstate = L.modstate
  /\ \A q \in InUse(L.perm) : SameSlot(L, M, q)
  /\ x.n # Top => \A q \in Slot : M.keylenx[q] = "short"
  /\ l \notin {"a_lv", "a_ikey"} => M.ikey[x.p] = KaIkey(t)
  /\ l = "a_ksuf" => x.n = Top /\ M.keylenx[x.p] = "ksuf"
  /\ l \in {"value", "publish"} => \/ x.n = Top /\ M.keylenx[x.p] = "ksuf" /\ M.ksuf[x.p] = req[t].key
                                   \/ x.n # Top /\ M.keylenx[x.p] = "short"
  /\ l = "publish" => M.lv[x.p] = req[t].val

LEMMA AssignStep ==
  ASSUME LeafInv, NEW t \in Thread, pc[t] \in Assigning, NEW l, NEW M, Assigned(t, l, M),
         pc' = [pc EXCEPT ![t] = l], leaf' = [leaf EXCEPT ![loc[t].n] = M],
         UNCHANGED <<fresh, gcs, loc, req, ops, map>>
  PROVE  LeafInv' /\ Gentle(t)
<1> DEFINE L == N(t)
           x == loc[t]
<1>1. /\ TypeOK /\ L = leaf[x.n] /\ L.lock = t /\ x.n \in LeafId \ fresh /\ x \in Locals
      /\ PermOk(x.perm) /\ PermOk(x.perm0) /\ L.inserting \in BOOLEAN /\ L.vinsert \in Nat
      /\ req[t] \in Request \cup GcRequest /\ InUse(L.perm) \subseteq Slot /\ ~ Get(t)
  BY AtWork DEF Holding, Working
<1>2. /\ HeldAssigning(t) /\ req[t].op = "put" /\ x.p \in Slot /\ x.p \notin InUse(L.perm)
      /\ L.modstate = "insert"
  BY AtAssign
<1>3. /\ l \in Assigning /\ M \in LeafRecord
      /\ M.lock = L.lock /\ M.inserting = L.inserting /\ M.vinsert = L.vinsert
      /\ M.perm = L.perm /\ M.modstate = L.modstate
      /\ \A q \in InUse(L.perm) : SameSlot(L, M, q)
      /\ x.n # Top => \A q \in Slot : M.keylenx[q] = "short"
  BY DEF Assigned
<1>4. Writes(t, l, x, x.n, M)
  <2>1. loc' = [loc EXCEPT ![t] = x]
    BY <1>1, Stays
  <2>2. l \in PCs
    BY <1>3 DEF Assigning, PCs
  <2>3. QED
    BY <1>1, <1>3, <2>1, <2>2, Stays DEF Writes
<1>5. Quiet(leaf[x.n], M)
  BY <1>1, <1>2, <1>3 DEF Quiet
<1>6. Lives(t, x.n, M)
  BY <1>1, <1>2, <1>3 DEF Lives, Removing, Assigning
<1>7. /\ pc'[t] = l /\ loc'[t] = x /\ req'[t] = req[t] /\ N(t)' = M /\ KaIkey(t)' = KaIkey(t)
      /\ (Get(t)' <=> Get(t))
  BY <1>4, Written
<1>8. Placed(t)'
  <2>1. l \notin {"idle", "done"}
    BY <1>3 DEF Assigning
  <2>2. QED
    BY <1>4, <1>5, <1>6, <2>1, QuietStep
<1>9. HeldAssigning(t)'
  <2>1. /\ NotThere(L, x.i, KaIkey(t)) /\ x.p = Back(L.perm) /\ L.perm.size < W
    BY <1>2 DEF HeldAssigning
  <2>2. \A j \in 0 .. L.perm.size - 1 : M.ikey[At(L.perm, j)] = L.ikey[At(L.perm, j)]
    BY <1>3 DEF InUse, SameSlot
  <2>3. L.perm.size \in Nat
    BY <1>1, LeafTypes, InUseSlots
  <2>4. NotThere(M, x.i, KaIkey(t))
    BY <1>3, <2>1, <2>2, <2>3 DEF NotThere
  <2>5. /\ l \notin {"a_lv", "a_ikey"} => M.ikey[x.p] = KaIkey(t)
        /\ l = "a_ksuf" => x.n = Top /\ M.keylenx[x.p] = "ksuf"
        /\ l \in {"value", "publish"} => \/ x.n = Top /\ M.keylenx[x.p] = "ksuf" /\ M.ksuf[x.p] = req[t].key
                                         \/ x.n # Top /\ M.keylenx[x.p] = "short"
        /\ l = "publish" => M.lv[x.p] = req[t].val
    BY DEF Assigned
  <2>6. \A p : Mine(t, p)' <=> \/ x.n = Top /\ M.keylenx[p] = "ksuf" /\ M.ksuf[p] = req[t].key
                               \/ x.n # Top /\ M.keylenx[p] = "short"
    BY <1>7 DEF Mine
  <2>7. QED
    BY <1>2, <1>3, <1>7, <2>1, <2>4, <2>5, <2>6 DEF HeldAssigning, Assigning, NotThere
<1>10. Held(t)'
  <2>1. l \in Assigning /\ l \notin Layering \cup Removing
          /\ l \notin {"update", "insert", "layer", "gc", "gc_lock"}
    BY <1>3 DEF Assigning, Layering, Removing
  <2>2. QED
    BY <1>2, <1>3, <1>7, <1>9, <2>1 DEF Held
<1>11. Own(t)'
  <2>1. l \in Working /\ l \notin Layering
    BY <1>3 DEF Working, Assigning, Layering
  <2>2. QED
    BY <1>1, <1>3, <1>7, <1>8, <1>10, <2>1, GoesOn
<1>12. QED
  BY <1>4, <1>5, <1>6, <1>11, QuietStep

LEMMA AssignLvStep ==
  ASSUME LeafInv, NEW t \in Thread, AssignLv(t)
  PROVE  LeafInv' /\ Gentle(t)
<1> DEFINE L == N(t)
           p == loc[t].p
           M == [L EXCEPT !.lv[p] = Empty]
<1>1. pc[t] = "a_lv" /\ pc[t] \in Assigning
  BY DEF AssignLv, Assigning
<1>2. L \in LeafRecord /\ L = leaf[loc[t].n] /\ TypeOK
         /\ (loc[t].n # Top => \A q \in Slot : L.keylenx[q] = "short")
  BY <1>1, AtWork DEF Holding, Working
<1>3. p \in Slot /\ p \notin InUse(L.perm)
  BY <1>1, AtAssign
<1>4. /\ pc' = [pc EXCEPT ![t] = "a_ikey"] /\ leaf' = [leaf EXCEPT ![loc[t].n] = M]
      /\ UNCHANGED <<fresh, gcs, loc, req, ops, map>>
  BY <1>2 DEF AssignLv, Goto, history, TypeOK
<1>5. /\ M \in LeafRecord /\ M.lock = L.lock /\ M.inserting = L.inserting /\ M.vinsert = L.vinsert
      /\ M.perm = L.perm /\ M.modstate = L.modstate /\ M.ikey = L.ikey /\ M.keylenx = L.keylenx
      /\ M.ksuf = L.ksuf /\ \A q \in InUse(L.perm) : M.lv[q] = L.lv[q]
  BY <1>2, <1>3 DEF LeafRecord, LeafValue
<1> HIDE DEF M
<1>6. Assigned(t, "a_ikey", M)
  BY <1>2, <1>5 DEF Assigned, SameSlot, Assigning
<1>7. QED
  BY <1>1, <1>4, <1>6, AssignStep

LEMMA AssignIkeyStep ==
  ASSUME LeafInv, NEW t \in Thread, AssignIkey(t)
  PROVE  LeafInv' /\ Gentle(t)
<1> DEFINE L == N(t)
           p == loc[t].p
           M == [L EXCEPT !.ikey[p] = KaIkey(t)]
<1>1. pc[t] = "a_ikey" /\ pc[t] \in Assigning
  BY DEF AssignIkey, Assigning
<1>2. L \in LeafRecord /\ L = leaf[loc[t].n] /\ TypeOK
         /\ (loc[t].n # Top => \A q \in Slot : L.keylenx[q] = "short")
  BY <1>1, AtWork DEF Holding, Working
<1>3. p \in Slot /\ p \notin InUse(L.perm) /\ KaIkey(t) \in Ikey
  BY <1>1, AtAssign
<1>4. /\ pc' = [pc EXCEPT ![t] = "a_keylenx"] /\ leaf' = [leaf EXCEPT ![loc[t].n] = M]
      /\ UNCHANGED <<fresh, gcs, loc, req, ops, map>>
  BY <1>2 DEF AssignIkey, Goto, history, TypeOK
<1>5. /\ M \in LeafRecord /\ M.lock = L.lock /\ M.inserting = L.inserting /\ M.vinsert = L.vinsert
      /\ M.perm = L.perm /\ M.modstate = L.modstate /\ M.keylenx = L.keylenx /\ M.lv = L.lv
      /\ M.ksuf = L.ksuf /\ \A q \in InUse(L.perm) : M.ikey[q] = L.ikey[q]
      /\ M.ikey[p] = KaIkey(t)
  BY <1>2, <1>3 DEF LeafRecord
<1> HIDE DEF M
<1>6. Assigned(t, "a_keylenx", M)
  BY <1>2, <1>5 DEF Assigned, SameSlot, Assigning
<1>7. QED
  BY <1>1, <1>4, <1>6, AssignStep

LEMMA AssignKeylenxStep ==
  ASSUME LeafInv, NEW t \in Thread, AssignKeylenx(t)
  PROVE  LeafInv' /\ Gentle(t)
<1> DEFINE L == N(t)
           p == loc[t].p
           k == IF loc[t].n = Top THEN "ksuf" ELSE "short"
           l == IF loc[t].n = Top THEN "a_ksuf" ELSE "value"
           M == [L EXCEPT !.keylenx[p] = k]
<1>1. pc[t] = "a_keylenx" /\ pc[t] \in Assigning
  BY DEF AssignKeylenx, Assigning
<1>2. L \in LeafRecord /\ L = leaf[loc[t].n] /\ TypeOK
         /\ (loc[t].n # Top => \A q \in Slot : L.keylenx[q] = "short")
  BY <1>1, AtWork DEF Holding, Working
<1>3. p \in Slot /\ p \notin InUse(L.perm) /\ L.ikey[p] = KaIkey(t)
  BY <1>1, AtAssign DEF HeldAssigning
<1>4. /\ pc' = [pc EXCEPT ![t] = l] /\ leaf' = [leaf EXCEPT ![loc[t].n] = M]
      /\ UNCHANGED <<fresh, gcs, loc, req, ops, map>>
  BY <1>2 DEF AssignKeylenx, Goto, history, TypeOK
<1>5. /\ M \in LeafRecord /\ M.lock = L.lock /\ M.inserting = L.inserting /\ M.vinsert = L.vinsert
      /\ M.perm = L.perm /\ M.modstate = L.modstate /\ M.ikey = L.ikey /\ M.lv = L.lv
      /\ M.ksuf = L.ksuf /\ \A q \in Slot \ {p} : M.keylenx[q] = L.keylenx[q]
      /\ M.keylenx[p] = k
  BY <1>2, <1>3 DEF LeafRecord
<1> HIDE DEF M
<1>6. InUse(L.perm) \subseteq Slot
  BY <1>1, AtWork DEF Holding, Working
<1>7. Assigned(t, l, M)
  BY <1>2, <1>3, <1>5, <1>6 DEF Assigned, SameSlot, Assigning
<1>8. QED
  BY <1>1, <1>4, <1>7, AssignStep

LEMMA AssignKsufStep ==
  ASSUME LeafInv, NEW t \in Thread, AssignKsuf(t)
  PROVE  LeafInv' /\ Gentle(t)
<1> DEFINE L == N(t)
           p == loc[t].p
<1>1. pc[t] = "a_ksuf" /\ pc[t] \in Assigning
  BY DEF AssignKsuf, Assigning
<1>2. /\ L \in LeafRecord /\ L = leaf[loc[t].n] /\ TypeOK /\ InUse(L.perm) \subseteq Slot
      /\ (loc[t].n # Top => \A q \in Slot : L.keylenx[q] = "short")
  BY <1>1, AtWork DEF Holding, Working
<1>3. /\ p \in Slot /\ p \notin InUse(L.perm) /\ req[t].key \in Key /\ L.ikey[p] = KaIkey(t)
      /\ loc[t].n = Top /\ L.keylenx[p] = "ksuf"
  BY <1>1, AtAssign DEF HeldAssigning
<1>4. PICK copied \in {Slot, InUse(L.perm)} :
        leaf' = [leaf EXCEPT ![loc[t].n].ksuf =
                   [q \in Slot |-> IF q = p THEN req[t].key ELSE IF q \in copied THEN @[q] ELSE NoSuffix]]
  BY DEF AssignKsuf
<1> DEFINE f == [q \in Slot |-> IF q = p THEN req[t].key ELSE IF q \in copied THEN L.ksuf[q] ELSE NoSuffix]
           M == [L EXCEPT !.ksuf = f]
<1>5. /\ pc' = [pc EXCEPT ![t] = "value"] /\ leaf' = [leaf EXCEPT ![loc[t].n] = M]
      /\ UNCHANGED <<fresh, gcs, loc, req, ops, map>>
  BY <1>2, <1>4 DEF AssignKsuf, Goto, history, TypeOK
<1>6. f \in [Slot -> Key \cup {NoSuffix}] /\ f[p] = req[t].key /\ \A q \in InUse(L.perm) : f[q] = L.ksuf[q]
  <2>1. \A q \in Slot : L.ksuf[q] \in Key \cup {NoSuffix}
    BY <1>2, LeafFields
  <2>2. QED
    BY <1>2, <1>3, <2>1
<1> HIDE DEF f
<1>7. /\ M \in LeafRecord /\ M.lock = L.lock /\ M.inserting = L.inserting /\ M.vinsert = L.vinsert
      /\ M.perm = L.perm /\ M.modstate = L.modstate /\ M.ikey = L.ikey /\ M.lv = L.lv
      /\ M.keylenx = L.keylenx /\ M.ksuf = f
  BY <1>2, <1>6 DEF LeafRecord
<1> HIDE DEF M
<1>8. Assigned(t, "value", M)
  BY <1>2, <1>3, <1>6, <1>7 DEF Assigned, SameSlot, Assigning
<1>9. QED
  BY <1>1, <1>5, <1>8, AssignStep

LEMMA AssignValueStep ==
  ASSUME LeafInv, NEW t \in Thread, AssignValue(t)
  PROVE  LeafInv' /\ Gentle(t)
<1> DEFINE L == N(t)
           p == loc[t].p
           M == [L EXCEPT !.lv[p] = req[t].val]
<1>1. pc[t] = "value" /\ pc[t] \in Assigning
  BY DEF AssignValue, Assigning
<1>2. L \in LeafRecord /\ L = leaf[loc[t].n] /\ TypeOK /\ InUse(L.perm) \subseteq Slot
         /\ (loc[t].n # Top => \A q \in Slot : L.keylenx[q] = "short")
  BY <1>1, AtWork DEF Holding, Working
<1>3. /\ p \in Slot /\ p \notin InUse(L.perm) /\ req[t].val \in Val /\ L.ikey[p] = KaIkey(t)
      /\ Mine(t, p)
  BY <1>1, AtAssign DEF HeldAssigning
<1>4. /\ pc' = [pc EXCEPT ![t] = "publish"] /\ leaf' = [leaf EXCEPT ![loc[t].n] = M]
      /\ UNCHANGED <<fresh, gcs, loc, req, ops, map>>
  BY <1>2 DEF AssignValue, Goto, history, TypeOK
<1>5. /\ M \in LeafRecord /\ M.lock = L.lock /\ M.inserting = L.inserting /\ M.vinsert = L.vinsert
      /\ M.perm = L.perm /\ M.modstate = L.modstate /\ M.ikey = L.ikey /\ M.keylenx = L.keylenx
      /\ M.ksuf = L.ksuf /\ (\A q \in InUse(L.perm) : M.lv[q] = L.lv[q]) /\ M.lv[p] = req[t].val
  BY <1>2, <1>3 DEF LeafRecord, LeafValue
<1> HIDE DEF M
<1>6. Assigned(t, "publish", M)
  BY <1>2, <1>3, <1>5 DEF Assigned, SameSlot, Assigning, Mine
<1>7. QED
  BY <1>1, <1>4, <1>6, AssignStep

LEMMA InsertStep ==
  ASSUME LeafInv, NEW t \in Thread, Insert(t)
  PROVE  LeafInv' /\ Gentle(t)
<1> DEFINE L == N(t)
           x == loc[t]
           b == L.inserting \/ L.modstate # "insert"
           M == [L EXCEPT !.inserting = b, !.modstate = "insert"]
           y == [x EXCEPT !.p = Back(L.perm)]
<1>1. pc[t] = "insert"
  BY DEF Insert
<1>2. /\ L \in LeafRecord /\ L = leaf[x.n] /\ TypeOK /\ L.lock = t /\ x \in Locals /\ PermOk(L.perm)
      /\ x.n \in LeafId \ fresh /\ PermOk(x.perm) /\ PermOk(x.perm0) /\ Held(t)
      /\ req[t] \in Request \cup GcRequest /\ ~ Get(t) /\ L.vinsert \in Nat
      /\ L.modstate # "deleted_layer" /\ L.inserting \in BOOLEAN
      /\ (x.n # Top => \A q \in Slot : L.keylenx[q] = "short")
  BY <1>1, AtWork DEF Holding, Working
<1>3. req[t].op = "put" /\ NotThere(L, x.i, KaIkey(t))
  BY <1>1, <1>2 DEF Held
<1>4. /\ pc' = [pc EXCEPT ![t] = "a_lv"] /\ loc' = [loc EXCEPT ![t] = y] /\ L.perm.size < W
      /\ UNCHANGED <<fresh, gcs, req, ops, map>>
      /\ leaf' = [leaf EXCEPT ![x.n] = M]
  BY <1>2 DEF Insert, Goto, history, TypeOK
<1>5. /\ y \in Locals /\ y.n = x.n /\ y.i = x.i /\ y.p = Back(L.perm) /\ y.perm = x.perm /\ y.perm0 = x.perm0
  BY <1>2, <1>4, BackIsFree DEF Locals
<1>6. /\ M \in LeafRecord /\ M.lock = t /\ M.inserting = b /\ M.vinsert = L.vinsert
      /\ M.perm = L.perm /\ M.modstate = "insert" /\ M.ikey = L.ikey /\ M.lv = L.lv
      /\ M.ksuf = L.ksuf /\ M.keylenx = L.keylenx /\ b \in BOOLEAN
  BY <1>2 DEF LeafRecord
<1> HIDE DEF M, y
<1>7. Writes(t, "a_lv", y, x.n, M)
  BY <1>2, <1>4, <1>5, <1>6, Stays DEF Writes, PCs
<1>8. Quiet(leaf[x.n], M)
  <2>1. (L.inserting => b) /\ (b \/ L.modstate = "insert")
    OBVIOUS
  <2> HIDE DEF b
  <2>2. QED
    BY <1>2, <1>6, <2>1 DEF Quiet, SameSlot
<1>9. Lives(t, x.n, M)
  BY <1>1, <1>2, <1>6 DEF Lives, Removing
<1>10. /\ pc'[t] = "a_lv" /\ loc'[t] = y /\ req'[t] = req[t] /\ N(t)' = M /\ KaIkey(t)' = KaIkey(t)
       /\ (Get(t)' <=> Get(t))
  BY <1>5, <1>7, Written
<1>11. Placed(t)'
  BY <1>4, <1>5, <1>7, <1>8, <1>9, QuietStep
<1>12. HeldAssigning(t)'
  BY <1>3, <1>4, <1>5, <1>6, <1>10 DEF HeldAssigning, NotThere, Assigning
<1>13. Held(t)'
  BY <1>3, <1>6, <1>10, <1>12 DEF Held, Assigning, Layering, Removing
<1>14. Own(t)'
  BY <1>2, <1>6, <1>10, <1>11, <1>13, GoesOn DEF Working, Assigning, Layering
<1>15. QED
  BY <1>4, <1>7, <1>8, <1>9, <1>14, QuietStep

\* Top is unlocked; the new leaf, which has the key, is locked already.
LEMMA UnlockUpperStep ==
  ASSUME LeafInv, NEW t \in Thread, UnlockUpper(t)
  PROVE  LeafInv' /\ Gentle(t)
<1> DEFINE L == N(t)
           x == loc[t]
           M == Unlocked(L)
           y == [x EXCEPT !.n = x.lv, !.p = x.i]
           Y == leaf[x.lv]
<1>1. pc[t] = "l_unlock"
  BY DEF UnlockUpper
<1>2. /\ L \in LeafRecord /\ L = leaf[x.n] /\ TypeOK /\ L.lock = t /\ x \in Locals /\ Locks(t)
      /\ x.n \in LeafId \ fresh /\ PermOk(x.perm) /\ PermOk(x.perm0) /\ Held(t)
      /\ req[t] \in Request \cup GcRequest /\ ~ Get(t) /\ L.modstate # "deleted_layer"
  BY <1>1, AtWork DEF Holding, Working, Layering
<1>3. /\ req[t].op = "put" /\ x.n = Top /\ x.p \in InUse(L.perm) /\ L.ikey[x.p] = KaIkey(t)
      /\ x.lv \in LayerLeaf \ fresh /\ L.lv[x.p] = x.lv /\ x.i \in {0, 1}
      /\ Y.modstate = "insert" /\ Y.perm.size = 1 /\ Back(Y.perm) = x.i
      /\ Y.ikey[x.i] = req[t].key /\ NotThere(Y, x.i, req[t].key) /\ Y.lock = t
  BY <1>1, <1>2 DEF Held, HeldLayer, HeldLayering, Locks, Layering
<1>4. /\ pc' = [pc EXCEPT ![t] = "value"] /\ loc' = [loc EXCEPT ![t] = y]
      /\ UNCHANGED <<fresh, gcs, req, ops, map>>
      /\ leaf' = [leaf EXCEPT ![x.n] = M]
  BY <1>2 DEF UnlockUpper, Goto, history, TypeOK
<1>5. x.i \in Slot
  BY <1>3, TwoSlots, WAssumption DEF Slot
<1>6. /\ y \in Locals /\ y.n = x.lv /\ y.i = x.i /\ y.p = x.i /\ y.lv = x.lv /\ y.perm = x.perm /\ y.perm0 = x.perm0
  BY <1>2, <1>3, <1>5, TopIsLeaf DEF Locals
<1>7. /\ M \in LeafRecord /\ Quiet(L, M) /\ M.modstate = L.modstate /\ M.perm = L.perm
      /\ M.ikey = L.ikey /\ M.lv = L.lv
  BY <1>2, UnlockedFields
<1> HIDE DEF M, y
<1>8. Writes(t, "value", y, x.n, M)
  BY <1>2, <1>4, <1>6, <1>7, Stays DEF Writes, PCs
<1>9. Lives(t, x.n, M)
  BY <1>1, <1>2, <1>3, <1>7 DEF Lives, Removing
<1>10. /\ pc'[t] = "value" /\ loc'[t] = y /\ req'[t] = req[t] /\ leaf'[Top] = M
       /\ (Get(t)' <=> Get(t)) /\ leaf'[x.lv] = Y
  BY <1>3, <1>8, Written, TopIsLeaf
<1>11. N(t)' = Y /\ KaIkey(t)' = req[t].key
  BY <1>3, <1>6, <1>10, TopIsLeaf DEF N, KaIkey
<1>12. Placed(t)'
  <2>1. KaIkey(t) = IkeyOf[req[t].key]
    BY <1>3 DEF KaIkey
  <2>2. Linked(x.lv, IkeyOf[req[t].key])'
    BY <1>2, <1>3, <1>4, <1>6, <1>7, <1>10, <2>1 DEF Linked
  <2>3. QED
    BY <1>3, <1>4, <1>6, <1>10, <2>2 DEF Placed, Linked
<1>13. HeldAssigning(t)'
  <2>1. Y.keylenx[x.i] = "short"
    BY <1>3, <1>5, Parts DEF LayerSlots
  <2>2. Mine(t, x.i)'
    BY <1>3, <1>6, <1>10, <1>11, <2>1, TopIsLeaf DEF Mine
  <2>3. Y.perm.size < W
    BY <1>3, TwoSlots, WAssumption
  <2>4. QED
    BY <1>3, <1>6, <1>10, <1>11, <2>2, <2>3 DEF HeldAssigning, NotThere, Assigning, Mine
<1>14. Held(t)'
  BY <1>3, <1>10, <1>11, <1>13 DEF Held, Assigning, Layering, Removing
<1>15. Own(t)'
  BY <1>2, <1>3, <1>10, <1>11, <1>12, <1>14, GoesOn DEF Working, Assigning, Layering
<1>16. QED
  BY <1>4, <1>2, <1>7, <1>8, <1>9, <1>15, QuietStep

LEMMA MarkRemoveStep ==
  ASSUME LeafInv, NEW t \in Thread, MarkRemove(t)
  PROVE  LeafInv' /\ Gentle(t)
<1> DEFINE L == N(t)
           x == loc[t]
           b == L.inserting \/ L.modstate = "insert"
           M == [L EXCEPT !.inserting = b, !.modstate = "remove"]
           p == At(L.perm, x.i)
<1>1. pc[t] = "remove" /\ pc[t] \in Removing
  BY DEF MarkRemove, Removing
<1>2. /\ L \in LeafRecord /\ L = leaf[x.n] /\ TypeOK /\ L.lock = t /\ x \in Locals /\ Placed(t)
      /\ x.n \in LeafId \ fresh /\ PermOk(x.perm) /\ PermOk(x.perm0) /\ Held(t)
      /\ req[t] \in Request \cup GcRequest /\ ~ Get(t) /\ L.vinsert \in Nat
      /\ L.modstate # "deleted_layer" /\ L.inserting \in BOOLEAN
      /\ L.modstate \in {"insert", "remove", "deleted_layer"}
      /\ (x.n # Top => \A q \in Slot : L.keylenx[q] = "short")
  BY <1>1, AtWork, LeafFields DEF Holding, Working
<1>3. /\ There(L, x.i, p, KaIkey(t))
      /\ req[t].op = "gc" =>
           /\ L.keylenx[p] = "layer" /\ L.lv[p] = x.lv
           /\ x.lv \in LayerLeaf /\ leaf[x.lv].modstate = "deleted_layer"
      /\ req[t].op # "gc" => req[t].op = "remove" /\ Mine(t, p) /\ x.lv = Empty
  BY <1>1, <1>2 DEF Held, HeldRemoving
<1>4. /\ pc' = [pc EXCEPT ![t] = "r_perm"] /\ loc' = loc
      /\ UNCHANGED <<fresh, gcs, req, ops, map>>
      /\ leaf' = [leaf EXCEPT ![x.n] = M]
  BY <1>2 DEF MarkRemove, Goto, history, TypeOK
<1>5. /\ M \in LeafRecord /\ M.lock = t /\ M.inserting = b /\ M.vinsert = L.vinsert
      /\ M.perm = L.perm /\ M.modstate = "remove" /\ M.ikey = L.ikey /\ M.lv = L.lv
      /\ M.ksuf = L.ksuf /\ M.keylenx = L.keylenx /\ b \in BOOLEAN
  BY <1>2 DEF LeafRecord
<1> HIDE DEF M
<1>6. Writes(t, "r_perm", x, x.n, M)
  <2>1. loc' = [loc EXCEPT ![t] = x]
    BY <1>2, <1>4, Stays
  <2>2. QED
    BY <1>2, <1>4, <1>5, <2>1, Stays DEF Writes, PCs
<1>7. Quiet(leaf[x.n], M)
  <2>1. (L.inserting => b) /\ (b \/ L.modstate # "insert")
    OBVIOUS
  <2> HIDE DEF b
  <2>2. QED
    BY <1>2, <1>5, <2>1 DEF Quiet, SameSlot
<1>8. /\ pc'[t] = "r_perm" /\ loc'[t] = x /\ req'[t] = req[t] /\ N(t)' = M /\ KaIkey(t)' = KaIkey(t)
      /\ (Get(t)' <=> Get(t)) /\ \A z \in LeafId \ {x.n} : leaf'[z] = leaf[z]
  BY <1>6, Written
<1>9. Lives(t, x.n, M)
  BY <1>1, <1>2, <1>5, <1>8 DEF Lives, Removing
<1>10. Placed(t)'
  BY <1>4, <1>6, <1>7, <1>9, QuietStep
<1>11. HeldRemoving(t)'
  <2>1. req[t].op = "gc" => x.n = Top /\ leaf'[x.lv] = leaf[x.lv]
    <3>1. SUFFICES ASSUME req[t].op = "gc" PROVE x.n = Top /\ leaf'[x.lv] = leaf[x.lv]
      OBVIOUS
    <3>2. x.n = Top
      BY <1>2, <3>1 DEF Placed
    <3>3. QED
      BY <1>3, <1>8, <3>1, <3>2, TopIsLeaf
  <2>2. \A q : Mine(t, q)' <=> Mine(t, q)
    BY <1>5, <1>8 DEF Mine
  <2>3. QED
    BY <1>3, <1>5, <1>8, <2>1, <2>2 DEF HeldRemoving, There, Mine
<1>12. Held(t)'
  BY <1>5, <1>8, <1>11 DEF Held, Assigning, Layering, Removing
<1>13. Own(t)'
  BY <1>2, <1>5, <1>8, <1>10, <1>12, GoesOn DEF Working, Layering, Removing
<1>14. QED
  BY <1>4, <1>6, <1>7, <1>9, <1>13, QuietStep

LEMMA GcLockStep ==
  ASSUME LeafInv, NEW t \in Thread, GcLock(t)
  PROVE  LeafInv' /\ Gentle(t)
<1> DEFINE L == N(t)
           x == loc[t]
           z == x.lv
           M == [leaf[z] EXCEPT !.modstate = "deleted_layer"]
           p == At(L.perm, x.i)
<1>1. pc[t] = "gc_lock" /\ leaf[z].lock = NoThread
  BY DEF GcLock
<1>2. /\ L \in LeafRecord /\ L = leaf[x.n] /\ Types /\ TypeOK /\ L.lock = t /\ x \in Locals /\ Placed(t)
      /\ x.n \in LeafId \ fresh /\ PermOk(x.perm) /\ PermOk(x.perm0) /\ Held(t)
      /\ req[t] \in Request \cup GcRequest /\ ~ Get(t) /\ L.modstate # "deleted_layer"
  BY <1>1, AtWork DEF Holding, Working
<1>3. /\ There(L, x.i, p, KaIkey(t)) /\ L.keylenx[p] = "layer" /\ L.lv[p] = x.lv /\ req[t].op = "gc"
      /\ x.n = Top
  BY <1>1, <1>2 DEF Held, Placed
<1>4. z \in LayerLeaf \ fresh /\ z \in LeafId /\ z # Top /\ leaf[z] \in LeafRecord
      /\ leaf[z].vinsert \in Nat /\ \A q \in Slot : leaf[z].keylenx[q] = "short"
  <2>1. p \in InUse(L.perm)
    BY ONLY <1>3, ThereIs
  <2>2. TopSlots /\ LayerSlots
    BY Parts
  <2>3. z \in LayerLeaf \ fresh
    BY <1>2, <1>3, <2>1, <2>2 DEF TopSlots
  <2>4. QED
    BY <1>2, <2>2, <2>3, TopIsLeaf, LeafTypes DEF LayerSlots
<1>5. CASE /\ leaf[z].perm.size = 0 /\ pc' = [pc EXCEPT ![t] = "remove"]
           /\ leaf' = [leaf EXCEPT ![z].modstate = "deleted_layer"]
  <2>1. /\ leaf' = [leaf EXCEPT ![z] = M] /\ loc' = loc /\ UNCHANGED <<fresh, gcs, req, ops, map>>
    BY <1>2, <1>4, <1>5 DEF GcLock, history, TypeOK
  <2>2. /\ M \in LeafRecord /\ M.inserting = leaf[z].inserting /\ M.vinsert = leaf[z].vinsert
        /\ M.perm = leaf[z].perm /\ M.modstate = "deleted_layer" /\ M.ikey = leaf[z].ikey /\ M.lv = leaf[z].lv
        /\ M.ksuf = leaf[z].ksuf /\ M.keylenx = leaf[z].keylenx
    BY <1>4 DEF LeafRecord
  <2> HIDE DEF M
  <2>3. Writes(t, "remove", x, z, M)
    <3>1. loc' = [loc EXCEPT ![t] = x]
      BY <1>2, <2>1, Stays
    <3>2. QED
      BY <1>1, <1>2, <1>4, <1>5, <2>1, <2>2, <3>1, Stays DEF Writes, PCs
  <2>4. Quiet(leaf[z], M)
    BY <1>4, <1>5, <2>2 DEF Quiet, SameSlot
  <2>5. /\ pc'[t] = "remove" /\ loc'[t] = x /\ req'[t] = req[t] /\ KaIkey(t)' = KaIkey(t)
        /\ (Get(t)' <=> Get(t)) /\ leaf'[z] = M /\ \A u \in LeafId \ {z} : leaf'[u] = leaf[u]
    BY <2>3, Written
  <2>6. N(t)' = L
    BY <1>2, <1>3, <1>4, <2>5, TopIsLeaf DEF N
  <2>7. Lives(t, z, M)
    BY <1>1, <1>4, <1>5, <2>2, <2>5 DEF Lives, Removing
  <2>8. Placed(t)'
    BY <2>1, <2>3, <2>4, <2>7, QuietStep
  <2>9. HeldRemoving(t)'
    BY <1>3, <1>4, <2>2, <2>5, <2>6 DEF HeldRemoving, There
  <2>10. Held(t)'
    BY <1>2, <2>5, <2>6, <2>9 DEF Held, Assigning, Layering, Removing
  <2>11. Own(t)'
    BY <1>2, <2>5, <2>6, <2>8, <2>10, GoesOn DEF Working, Layering, Removing
  <2>12. QED
    BY <2>1, <2>3, <2>4, <2>7, <2>11, QuietStep
<1>6. CASE leaf' = leaf /\ pc' = [pc EXCEPT ![t] = "unlock"]
  <2>1. UNCHANGED <<leaf, fresh, gcs, loc, req, ops, map>>
    BY <1>6 DEF GcLock, history
  <2>2. Types' /\ pc'[t] = "unlock" /\ loc'[t] = x /\ req'[t] = req[t] /\ \A u \in Thread \ {t} : Same(u)
    <3>1. loc' = [loc EXCEPT ![t] = x] /\ "unlock" \in PCs
      BY <1>2, <2>1, Stays DEF PCs
    <3>2. QED
      BY <1>2, <1>6, <2>1, <3>1, Looks
  <2>3. N(t)' = L /\ Placed(t)' /\ (Get(t)' <=> Get(t))
    BY <1>2, <2>1, <2>2, ReadSame
  <2>4. Held(t)'
    BY <1>2, <2>2, <2>3 DEF Held, Assigning, Layering, Removing
  <2>5. Own(t)'
    BY <1>2, <2>2, <2>3, <2>4, GoesOn DEF Working, Layering
  <2>6. QED
    BY <1>1, <2>1, <2>2, <2>5, ReadStep DEF Removing
<1>7. QED
  BY <1>5, <1>6 DEF GcLock, Goto

-----------------------------------------------------------------------------
(* Steps that change the contents *)

\* No other thread turns a slot of Top into a layer while t has Top's lock.
LEMMA OnlyTurning ==
  ASSUME LeafInv, NEW t \in Thread, pc[t] \in Holding, loc[t].n = Top, NEW q, Turning(q)
  PROVE  pc[t] = "l_keylenx" /\ loc[t].p = q
<1>1. PICK u \in Thread : pc[u] = "l_keylenx" /\ loc[u].p = q
  BY DEF Turning
<1>2. pc[u] \in Holding
  BY <1>1 DEF Holding, Working, Layering
<1>3. N(u).lock = u /\ N(t).lock = t /\ Held(u) /\ N(u) = leaf[loc[u].n] /\ N(t) = leaf[loc[t].n]
  BY <1>2, AtWork
<1>4. loc[u].n = Top
  BY <1>1, <1>3 DEF Held, HeldLayer, Layering
<1>5. QED
  BY <1>1, <1>3, <1>4

\* The slot that has the key of t's request.
LEMMA MineHolds ==
  ASSUME LeafInv, NEW t \in Thread, pc[t] \in Working, pc[t] # "l_keylenx",
         NEW p \in InUse(N(t).perm), Mine(t, p)
  PROVE  N(t).lv[p] \in Val /\ p \in Slot /\ (loc[t].n = Top <=> N(t).keylenx[p] = "ksuf")
<1>1. /\ TopSlots /\ LayerSlots /\ N(t) = leaf[loc[t].n] /\ loc[t].n \in LeafId /\ InUse(N(t).perm) \subseteq Slot
  BY AtWork, Parts DEF Holding
<1>2. CASE loc[t].n = Top
  <2>1. ~ Turning(p)
    BY <1>2, OnlyTurning DEF Holding
  <2>2. QED
    BY <1>1, <1>2, <2>1 DEF TopSlots, Mine
<1>3. CASE loc[t].n # Top
  BY <1>1, <1>3 DEF LayerSlots, Mine, LeafId
<1>4. QED
  BY <1>2, <1>3

\* A step of t that changes leaf z.
LEMMA ChangeStep ==
  ASSUME LeafInv, NEW t \in Thread, NEW l, NEW y, NEW z, NEW M, Writes(t, l, y, z, M),
         Calm(z), leaf[z].modstate # "deleted_layer", PermOk(M.perm), Sorted(M),
         \A x \in LayerLeaf \ fresh, a \in TopIkey : Linked(x, a) => Linked(x, a)' \/ leaf[x].modstate = "deleted_layer"
  PROVE  /\ y.n = loc[t].n /\ l \notin {"idle", "done"} => Placed(t)'
         /\ TopSlots' /\ LayerSlots' /\ Dead' /\ Content' /\ Own(t)' => LeafInv' /\ Gentle(t)
<1>1. /\ Types' /\ pc'[t] = l /\ loc'[t] = y /\ req'[t] = req[t]
      /\ leaf'[z] = M /\ \A x \in LeafId \ {z} : leaf'[x] = leaf[x]
      /\ \A u \in Thread \ {t} : Same(u)
  BY Written
<1>2. z \in LeafId \ fresh /\ leaf[z].lock \in {t, NoThread} /\ fresh' = fresh
  BY DEF Writes
<1>3. Types /\ TypeOK /\ Leaves
  BY Parts
<1>4. Gentle(t)
  <2>1. \A x \in LeafId \ fresh : Calm(x) /\ (leaf'[x] # leaf[x] => leaf[x].lock \in {t, NoThread})
    BY <1>1, <1>2, <1>3, SameIsCalm
  <2>2. \A x \in LayerLeaf : leaf[x].modstate = "deleted_layer" => leaf'[x].modstate = "deleted_layer"
    BY <1>1, TopIsLeaf
  <2>3. QED
    BY <1>1, <1>2, <2>1, <2>2 DEF Gentle
<1>5. Leaves'
  <2>1. \A x \in LeafId : PermOk(leaf'[x].perm) /\ Sorted(leaf'[x])
    BY <1>1, <1>3 DEF Leaves
  <2>2. \A x \in fresh : leaf'[x] = EmptyLeaf
    <3>1. fresh \subseteq LeafId
      BY <1>3, TopIsLeaf DEF TypeOK
    <3>2. QED
      BY <1>1, <1>2, <1>3, <3>1 DEF Leaves
  <2>3. QED
    BY <1>2, <2>1, <2>2 DEF Leaves
<1>6. \A u \in Thread \ {t} : Own(u)'
  BY <1>1, <1>4, OthersKept
<1>7. y.n = loc[t].n /\ l \notin {"idle", "done"} => Placed(t)'
  BY <1>1, <1>4, PlacedKept
<1>8. QED
  BY <1>1, <1>4, <1>5, <1>6, <1>7 DEF LeafInv, Store

\* Top is as it was, or the layers are.
LEMMA TopSlotsKept ==
  ASSUME LeafInv, NEW t \in Thread, pc[t] # "l_keylenx", \A u \in Thread \ {t} : Same(u),
         leaf'[Top] = leaf[Top], fresh' = fresh
  PROVE  TopSlots'
<1>1. TopSlots
  BY Parts
<1>2. \A q : Turning(q) => Turning(q)'
  BY DEF Turning, Same
<1>3. QED
  BY <1>1, <1>2 DEF TopSlots

LEMMA LayerSlotsKept ==
  ASSUME LeafInv, NEW t \in Thread, \A y \in LayerLeaf : leaf'[y] = leaf[y]
  PROVE  LayerSlots'
<1>1. LayerSlots
  BY Parts
<1>2. QED
  BY <1>1 DEF LayerSlots

\* No leaf dies, dead ones stay empty, and Top comes to lead to none.
LEMMA DeadKept ==
  ASSUME LeafInv, NEW t \in Thread, pc[t] \notin Removing, \A u \in Thread \ {t} : Same(u),
         \A y \in LayerLeaf : leaf'[y].modstate = "deleted_layer" =>
           /\ leaf[y].modstate = "deleted_layer" /\ leaf'[y].perm = leaf[y].perm
           /\ \A q \in InUse(leaf'[Top].perm) : leaf'[Top].lv[q] = y =>
                q \in InUse(leaf[Top].perm) /\ leaf[Top].lv[q] = y
  PROVE  Dead'
<1>1. Dead
  BY Parts
<1>2. SUFFICES ASSUME NEW y \in LayerLeaf, leaf'[y].modstate = "deleted_layer"
               PROVE  /\ leaf'[y].perm.size = 0
                      /\ \/ \E u \in Thread : pc'[u] \in Removing /\ loc'[u].lv = y
                         \/ \A p \in InUse(leaf'[Top].perm) : leaf'[Top].lv[p] # y
  BY DEF Dead
<1>3. /\ leaf[y].perm.size = 0 /\ leaf'[y].perm = leaf[y].perm
      /\ \/ \E u \in Thread : pc[u] \in Removing /\ loc[u].lv = y
         \/ \A p \in InUse(leaf[Top].perm) : leaf[Top].lv[p] # y
  BY <1>1, <1>2 DEF Dead
<1>4. (\E u \in Thread : pc[u] \in Removing /\ loc[u].lv = y)
         => \E u \in Thread : pc'[u] \in Removing /\ loc'[u].lv = y
  BY DEF Same
<1>5. (\A p \in InUse(leaf[Top].perm) : leaf[Top].lv[p] # y)
         => \A p \in InUse(leaf'[Top].perm) : leaf'[Top].lv[p] # y
  BY <1>2
<1>6. QED
  BY <1>3, <1>4, <1>5

\* The table after a request for key k.
LEMMA MapAt ==
  ASSUME LeafInv, NEW t \in Thread, NEW k \in Key, NEW w, map' = [map EXCEPT ![k] = w]
  PROVE  map'[k] = w /\ \A j \in Key \ {k} : map'[j] = map[j]
<1>1. map \in [Key -> Val \cup {None}]
  BY Parts DEF TypeOK
<1>2. QED
  BY <1>1

LEMMA ContentSame ==
  ASSUME LeafInv, NEW t \in Thread, map' = map,
         \A k \in Key, v \in Val : Holds(leaf', k, v) <=> Holds(leaf, k, v)
  PROVE  Content'
<1>1. Content
  BY Parts
<1>2. QED
  BY <1>1 DEF Content

\* A change of a layer's leaf that concerns one key.
LEMMA ContentInLayer ==
  ASSUME LeafInv, NEW t \in Thread, NEW k \in Key, NEW w, map'[k] = w, \A j \in Key \ {k} : map'[j] = map[j],
         NEW y \in LayerLeaf, Linked(y, IkeyOf[k]),
         \A x \in LeafId \ {y} : leaf'[x] = leaf[x],
         \A v \in Val : LayerHolds(leaf', y, k, v) <=> w = v,
         \A j \in Key \ {k}, v \in Val : LayerHolds(leaf', y, j, v) <=> LayerHolds(leaf, y, j, v)
  PROVE  Content'
<1>1. leaf'[Top] = leaf[Top] /\ \A x \in LayerLeaf \ {y} : leaf'[x] = leaf[x]
  BY TopIsLeaf
<1>2. leaf[Top] \in LeafRecord /\ PermOk(leaf[Top].perm) /\ Sorted(leaf[Top])
  BY TopFacts
<1>3. PICK q \in InUse(leaf[Top].perm) : leaf[Top].ikey[q] = IkeyOf[k] /\ leaf[Top].lv[q] = y
  BY DEF Linked
<1>4. \A v \in Val : Holds(leaf', k, v) <=> w = v
  <2>1. SUFFICES ASSUME NEW v \in Val PROVE Holds(leaf', k, v) <=> w = v
    OBVIOUS
  <2>2. /\ leaf'[Top] \in LeafRecord /\ PermOk(leaf'[Top].perm) /\ Sorted(leaf'[Top])
        /\ q \in InUse(leaf'[Top].perm) /\ leaf'[Top].ikey[q] = IkeyOf[k] /\ leaf'[Top].lv[q] = y
    BY <1>1, <1>2, <1>3
  <2>3. Holds(leaf', k, v) <=> LayerHolds(leaf', y, k, v)
    BY ONLY k \in Key, y \in LayerLeaf, <2>2, LayerDecides
  <2>4. QED
    BY <2>3
<1>5. \A j \in Key \ {k}, v \in Val : Holds(leaf', j, v) <=> Holds(leaf, j, v)
  <2>1. SUFFICES ASSUME NEW j \in Key \ {k}, NEW v \in Val PROVE Holds(leaf', j, v) <=> Holds(leaf, j, v)
    OBVIOUS
  <2>2. \A x \in LayerLeaf : LayerHolds(leaf', x, j, v) <=> LayerHolds(leaf, x, j, v)
    <3>1. \A x \in LayerLeaf \ {y} : LayerHolds(leaf', x, j, v) <=> LayerHolds(leaf, x, j, v)
      BY <1>1 DEF LayerHolds
    <3>2. LayerHolds(leaf', y, j, v) <=> LayerHolds(leaf, y, j, v)
      OBVIOUS
    <3>3. QED
      BY <3>1, <3>2
  <2>3. \A r : SlotHolds(leaf', r, j, v) <=> SlotHolds(leaf, r, j, v)
    BY <1>1, <2>2 DEF SlotHolds
  <2>4. QED
    BY <1>1, <2>3 DEF Holds
<1>6. QED
  <2>1. Content
    BY Parts
  <2>2. QED
    BY <1>4, <1>5, <2>1 DEF Content

\* A change of slot p of Top, which has no key but k.
LEMMA ContentInTop ==
  ASSUME LeafInv, NEW t \in Thread, NEW k \in Key, NEW w, map'[k] = w, \A j \in Key \ {k} : map'[j] = map[j],
         NEW p, \A x \in LayerLeaf : leaf'[x] = leaf[x],
         \A q : q # p => (q \in InUse(leaf'[Top].perm) <=> q \in InUse(leaf[Top].perm)),
         \A q \in InUse(leaf[Top].perm) \ {p} : SameSlot(leaf[Top], leaf'[Top], q),
         \A v \in Val : Holds(leaf', k, v) <=> w = v,
         p \in InUse(leaf[Top].perm) => leaf[Top].lv[p] \in Val /\ leaf[Top].ksuf[p] = k,
         p \in InUse(leaf'[Top].perm) => leaf'[Top].lv[p] \in Val /\ leaf'[Top].ksuf[p] = k
  PROVE  Content'
<1>1. \A j \in Key \ {k}, v \in Val : Holds(leaf', j, v) <=> Holds(leaf, j, v)
  <2>1. SUFFICES ASSUME NEW j \in Key \ {k}, NEW v \in Val PROVE Holds(leaf', j, v) <=> Holds(leaf, j, v)
    OBVIOUS
  <2>2. \A x \in LayerLeaf : LayerHolds(leaf', x, j, v) <=> LayerHolds(leaf, x, j, v)
    BY DEF LayerHolds
  <2>3. \A r \in InUse(leaf[Top].perm) \ {p} : SlotHolds(leaf', r, j, v) <=> SlotHolds(leaf, r, j, v)
    BY <2>2 DEF SlotHolds, SameSlot
  <2>4. p \in InUse(leaf[Top].perm) => ~ SlotHolds(leaf, p, j, v)
    BY ValuesAssumption DEF SlotHolds
  <2>5. p \in InUse(leaf'[Top].perm) => ~ SlotHolds(leaf', p, j, v)
    BY ValuesAssumption DEF SlotHolds
  <2>6. \A r \in InUse(leaf'[Top].perm) : r = p \/ r \in InUse(leaf[Top].perm) \ {p}
    OBVIOUS
  <2>7. QED
    BY <2>3, <2>4, <2>5, <2>6 DEF Holds
<1>2. QED
  <2>1. \A v \in Val : Holds(leaf', k, v) <=> w = v
    OBVIOUS
  <2>2. QED
    <3>1. Content
      BY Parts
    <3>2. QED
      BY <1>1, <2>1, <3>1 DEF Content

\* Where the leaf of t's request is found.
LEMMA InLayer ==
  ASSUME LeafInv, NEW t \in Thread, pc[t] \in Working, loc[t].n # Top
  PROVE  /\ loc[t].n \in LayerLeaf \ fresh /\ req[t].op # "gc" /\ req[t].key \in Key
         /\ Linked(loc[t].n, IkeyOf[req[t].key]) /\ KaIkey(t) = req[t].key
<1>1. /\ Placed(t) /\ N(t) = leaf[loc[t].n] /\ N(t).modstate # "deleted_layer"
      /\ req[t] \in Request \cup GcRequest
  BY AtWork DEF Holding
<1>2. QED
  BY <1>1, Requests DEF Placed, KaIkey

LEMMA UpdateStep ==
  ASSUME LeafInv, NEW t \in Thread, Update(t)
  PROVE  LeafInv' /\ Gentle(t)
<1> DEFINE L == N(t)
           x == loc[t]
           p == x.p
           k == req[t].key
           w == req[t].val
           M == [L EXCEPT !.lv[p] = w]
<1>1. pc[t] = "update" /\ pc[t] \in Working /\ pc[t] \in Holding
  BY DEF Update, Working, Holding
<1>2. /\ L \in LeafRecord /\ L = leaf[x.n] /\ TypeOK /\ L.lock = t /\ x \in Locals /\ Placed(t)
      /\ x.n \in LeafId \ fresh /\ PermOk(x.perm) /\ PermOk(x.perm0) /\ Held(t) /\ PermOk(L.perm)
      /\ req[t] \in Request \cup GcRequest /\ ~ Get(t) /\ L.vinsert \in Nat /\ L.inserting \in BOOLEAN
      /\ L.modstate # "deleted_layer" /\ InUse(L.perm) \subseteq Slot
      /\ (x.n # Top => \A q \in Slot : L.keylenx[q] = "short")
  BY <1>1, AtWork
<1>3. /\ TopSlots /\ LayerSlots /\ Sorted(L)
  BY Parts
<1>4. req[t].op = "put" /\ There(L, x.i, p, KaIkey(t)) /\ Mine(t, p) /\ w \in Val /\ k \in Key
  <2>1. req[t].op = "put" /\ There(L, x.i, p, KaIkey(t)) /\ Mine(t, p)
    BY <1>1, <1>2 DEF Held
  <2>2. QED
    BY <1>2, <2>1, Requests
<1>5. p \in InUse(L.perm) /\ L.ikey[p] = KaIkey(t)
  BY ONLY <1>4, ThereIs
<1>6. p \in Slot /\ L.lv[p] \in Val
  BY <1>1, <1>4, <1>5, MineHolds
<1>7. /\ pc' = [pc EXCEPT ![t] = "unlock"] /\ UNCHANGED <<fresh, gcs, loc, req, ops>>
      /\ leaf' = [leaf EXCEPT ![x.n] = M] /\ map' = [map EXCEPT ![k] = w]
  BY <1>2 DEF Update, Goto, Effect, TypeOK
<1>8. /\ M \in LeafRecord /\ M.lock = t /\ M.inserting = L.inserting /\ M.vinsert = L.vinsert
      /\ M.perm = L.perm /\ M.modstate = L.modstate /\ M.ikey = L.ikey /\ M.keylenx = L.keylenx
      /\ M.ksuf = L.ksuf /\ (\A q \in Slot \ {p} : M.lv[q] = L.lv[q]) /\ M.lv[p] = w
  BY <1>2, <1>4, <1>6 DEF LeafRecord, LeafValue
<1> HIDE DEF M
<1>9. Writes(t, "unlock", x, x.n, M)
  <2>1. loc' = [loc EXCEPT ![t] = x] /\ gcs' \in [TopIkey -> Nat] /\ map' \in [Key -> Val \cup {None}]
    BY <1>2, <1>4, <1>7, Stays
  <2>2. QED
    BY <1>2, <1>7, <1>8, <2>1 DEF Writes, PCs
<1>10. /\ pc'[t] = "unlock" /\ loc'[t] = x /\ req'[t] = req[t] /\ N(t)' = M /\ (Get(t)' <=> Get(t))
       /\ leaf'[x.n] = M /\ (\A z \in LeafId \ {x.n} : leaf'[z] = leaf[z]) /\ \A u \in Thread \ {t} : Same(u)
  BY <1>9, Written
<1>11. Calm(x.n)
  BY <1>2, <1>4, <1>5, <1>6, <1>8, <1>10 DEF Calm, Harmless, Grow
<1>12. Sorted(M) /\ PermOk(M.perm)
  BY <1>2, <1>3, <1>8 DEF Sorted
<1>13. \A q \in InUse(L.perm) : M.lv[q] \in LayerLeaf \/ L.lv[q] \in LayerLeaf => q # p /\ M.lv[q] = L.lv[q]
  BY <1>2, <1>4, <1>6, <1>8, ValuesAssumption
<1>14. \A z \in LayerLeaf \ fresh, a \in TopIkey : Linked(z, a) => Linked(z, a)'
  <2>1. CASE x.n = Top
    BY <1>2, <1>8, <1>10, <1>13, <2>1 DEF Linked
  <2>2. CASE x.n # Top
    BY <1>10, <2>2, TopIsLeaf DEF Linked
  <2>3. QED
    BY <2>1, <2>2
<1>15. TopSlots'
  <2>1. CASE x.n = Top
    <3>1. \A q : ~ Turning(q)
      BY <1>1, <2>1, OnlyTurning
    <3>2. leaf'[Top] = M /\ leaf[Top] = L /\ fresh' = fresh
      BY <1>2, <1>7, <1>10, <2>1
    <3>3. M.modstate # "deleted_layer"
      BY <1>2, <1>8
    <3>4. ASSUME NEW q \in InUse(L.perm)
          PROVE  \/ M.keylenx[q] = "layer" /\ M.lv[q] \in LayerLeaf \ fresh
                 \/ M.keylenx[q] = "ksuf" /\ M.ksuf[q] \in Key /\ M.lv[q] \in Val
      <4>1. CASE q = p
        BY <1>4, <1>8, <2>1, <4>1 DEF Mine
      <4>2. CASE q # p
        BY <1>2, <1>3, <1>8, <3>1, <3>2, <4>2 DEF TopSlots
      <4>3. QED
        BY <4>1, <4>2
    <3>5. \A q, r \in InUse(L.perm) : M.lv[q] \in LayerLeaf /\ M.lv[q] = M.lv[r] => q = r
      BY <1>3, <1>13, <3>2 DEF TopSlots
    <3>6. QED
      BY <1>8, <3>2, <3>3, <3>4, <3>5 DEF TopSlots
  <2>2. CASE x.n # Top
    BY <1>1, <1>7, <1>10, <2>2, TopIsLeaf, TopSlotsKept
  <2>3. QED
    BY <2>1, <2>2
<1>16. LayerSlots'
  <2>1. CASE x.n = Top
    BY <1>10, <2>1, TopIsLeaf, LayerSlotsKept
  <2>2. CASE x.n # Top
    BY <1>2, <1>3, <1>4, <1>8, <1>10, <2>2, TopIsLeaf DEF LayerSlots
  <2>3. QED
    BY <2>1, <2>2
<1>17. Dead'
  <2>1. \A y \in LayerLeaf : leaf'[y].modstate = leaf[y].modstate /\ leaf'[y].perm = leaf[y].perm
    BY <1>2, <1>8, <1>10, TopIsLeaf
  <2>2. \A y \in LayerLeaf : \A q \in InUse(leaf'[Top].perm) : leaf'[Top].lv[q] = y =>
          q \in InUse(leaf[Top].perm) /\ leaf[Top].lv[q] = y
    <3>1. CASE x.n = Top
      BY <1>2, <1>8, <1>10, <1>13, <3>1
    <3>2. CASE x.n # Top
      BY <1>10, <3>2, TopIsLeaf
    <3>3. QED
      BY <3>1, <3>2
  <2>3. pc[t] \notin Removing
    BY <1>1 DEF Removing
  <2>4. QED
    BY <1>10, <2>1, <2>2, <2>3, DeadKept
<1>18. Content'
  <2>1. CASE x.n = Top
    <3>1. /\ leaf'[Top] = M /\ leaf[Top] = L /\ \A z \in LayerLeaf : leaf'[z] = leaf[z]
      BY <1>2, <1>10, <2>1, TopIsLeaf
    <3>2. L.ksuf[p] = k /\ L.ikey[p] = IkeyOf[k]
      BY <1>4, <1>5, <2>1 DEF Mine, KaIkey
    <3>3. \A v \in Val : Holds(leaf', k, v) <=> w = v
      <4>1. SUFFICES ASSUME NEW v \in Val PROVE Holds(leaf', k, v) <=> w = v
        OBVIOUS
      <4>2. /\ leaf'[Top] \in LeafRecord /\ PermOk(leaf'[Top].perm) /\ Sorted(leaf'[Top])
            /\ p \in InUse(leaf'[Top].perm) /\ leaf'[Top].ikey[p] = IkeyOf[k]
        BY <1>5, <1>8, <1>12, <3>1, <3>2
      <4>3. Holds(leaf', k, v) <=> SlotHolds(leaf', p, k, v)
        BY ONLY <1>4, <4>2, OneSlotHolds
      <4>4. SlotHolds(leaf', p, k, v) <=> w = v
        BY <1>4, <1>8, <3>1, <3>2, ValuesAssumption DEF SlotHolds
      <4>5. QED
        BY <4>3, <4>4
    <3>4. \A q \in InUse(L.perm) \ {p} : SameSlot(L, M, q)
      BY <1>2, <1>8 DEF SameSlot
    <3>5. /\ LeafInv /\ t \in Thread /\ k \in Key /\ map'[k] = w /\ \A j \in Key \ {k} : map'[j] = map[j]
      BY <1>4, <1>7, MapAt
    <3>6. /\ \A q : q # p => (q \in InUse(leaf'[Top].perm) <=> q \in InUse(leaf[Top].perm))
          /\ \A q \in InUse(leaf[Top].perm) \ {p} : SameSlot(leaf[Top], leaf'[Top], q)
          /\ p \in InUse(leaf[Top].perm) => leaf[Top].lv[p] \in Val /\ leaf[Top].ksuf[p] = k
          /\ p \in InUse(leaf'[Top].perm) => leaf'[Top].lv[p] \in Val /\ leaf'[Top].ksuf[p] = k
      BY <1>4, <1>6, <1>8, <3>1, <3>2, <3>4
    <3>7. QED
      BY ONLY <3>1, <3>3, <3>5, <3>6, ContentInTop
  <2>2. CASE x.n # Top
    <3>1. x.n \in LayerLeaf /\ Linked(x.n, IkeyOf[k]) /\ KaIkey(t) = k
      BY <1>1, <2>2, InLayer
    <3>2. \A v \in Val : LayerHolds(leaf', x.n, k, v) <=> w = v
      <4>1. \A q \in InUse(L.perm) : M.ikey[q] = k => q = p
        BY <1>2, <1>3, <1>5, <1>8, <3>1, OneSlot
      <4>2. QED
        BY <1>5, <1>8, <1>10, <3>1, <4>1 DEF LayerHolds
    <3>3. \A j \in Key \ {k}, v \in Val : LayerHolds(leaf', x.n, j, v) <=> LayerHolds(leaf, x.n, j, v)
      <4>1. SUFFICES ASSUME NEW j \in Key \ {k}, NEW v \in Val
                     PROVE  LayerHolds(leaf', x.n, j, v) <=> LayerHolds(leaf, x.n, j, v)
        OBVIOUS
      <4>2. \A q \in InUse(L.perm) : L.ikey[q] = j => q # p /\ M.lv[q] = L.lv[q]
        BY <1>2, <1>5, <1>8, <3>1
      <4>3. QED
        BY <1>2, <1>8, <1>10, <4>2 DEF LayerHolds
    <3>4. /\ LeafInv /\ t \in Thread /\ k \in Key /\ map'[k] = w /\ \A j \in Key \ {k} : map'[j] = map[j]
      BY <1>4, <1>7, MapAt
    <3>5. QED
      BY ONLY <1>10, <3>1, <3>2, <3>3, <3>4, ContentInLayer
  <2>3. QED
    BY <2>1, <2>2
<1>19. Own(t)'
  <2>1. Placed(t)'
    BY <1>2, <1>9, <1>11, <1>12, <1>14, ChangeStep
  <2>2. Held(t)'
    BY <1>2, <1>8, <1>10 DEF Held, Assigning, Layering, Removing
  <2>3. QED
    BY <1>2, <1>8, <1>10, <2>1, <2>2, GoesOn DEF Working, Layering
<1>20. QED
  BY <1>2, <1>9, <1>11, <1>12, <1>14, <1>15, <1>16, <1>17, <1>18, <1>19, ChangeStep

LEMMA InsertedSorted ==
  ASSUME NEW L \in LeafRecord, PermOk(L.perm), L.perm.size < W, Sorted(L), NEW a \in Nat,
         NEW i, NotThere(L, i, a), L.ikey[Back(L.perm)] = a,
         NEW M, M.ikey = L.ikey, M.perm = InsertFromBack(L.perm, i)
  PROVE  Sorted(M)
<1> DEFINE q == L.perm
           r == M.perm
<1>1. q.size \in Nat /\ i \in 0 .. q.size
  BY LeafFields, InUseSlots DEF NotThere
<1>2. /\ r.size = q.size + 1
      /\ \A j \in 0 .. i - 1 : At(r, j) = At(q, j)
      /\ At(r, i) = Back(q)
      /\ \A j \in i + 1 .. q.size : At(r, j) = At(q, j - 1)
  BY <1>1, Inserted
<1>3. \A j \in 0 .. q.size - 1 : L.ikey[At(q, j)] \in Nat
  <2>1. \A j \in 0 .. q.size - 1 : At(q, j) \in Slot
    BY <1>1, Positions, WAssumption
  <2>2. QED
    BY <2>1, LeafFields, Ikeys
<1> DEFINE f(j) == L.ikey[At(q, j)]
           g(j) == L.ikey[At(r, j)]
<1>4. /\ \A j \in 0 .. i - 1 : g(j) = f(j) /\ f(j) < a
      /\ g(i) = a
      /\ \A j \in i + 1 .. q.size : g(j) = f(j - 1) /\ a < f(j - 1)
  <2>1. \A j \in i + 1 .. q.size : a < f(j - 1)
    BY <1>1 DEF NotThere
  <2>2. QED
    BY <1>2, <2>1 DEF NotThere
<1>5. \A j, k \in 0 .. q.size - 1 : j < k => f(j) < f(k)
  BY DEF Sorted
<1>6. \A j \in 0 .. q.size - 1 : f(j) \in Nat
  BY <1>3
<1> HIDE DEF f, g
<1>7. ASSUME NEW j \in 0 .. q.size, NEW k \in 0 .. q.size, j < k PROVE g(j) < g(k)
  <2>1. CASE k < i
    BY <1>1, <1>4, <1>5, <1>7, <2>1
  <2>2. CASE k = i
    BY <1>1, <1>4, <1>7, <2>2
  <2>3. CASE k > i /\ j < i
    <3>1. g(j) = f(j) /\ f(j) < a /\ g(k) = f(k - 1) /\ a < f(k - 1)
      BY <1>1, <1>4, <2>3
    <3>2. f(j) \in Nat /\ f(k - 1) \in Nat
      BY <1>1, <1>6, <2>3
    <3>3. QED
      BY <3>1, <3>2
  <2>4. CASE j = i
    BY <1>1, <1>4, <1>7, <2>4
  <2>5. CASE j > i
    <3>1. g(j) = f(j - 1) /\ g(k) = f(k - 1)
      BY <1>1, <1>4, <1>7, <2>5
    <3>2. f(j - 1) < f(k - 1)
      BY <1>1, <1>5, <1>7, <2>5
    <3>3. QED
      BY <3>1, <3>2
  <2>6. QED
    BY <1>1, <1>7, <2>1, <2>2, <2>3, <2>4, <2>5
<1>8. QED
  BY <1>1, <1>2, <1>7 DEF Sorted, g

LEMMA FinishInsertStep ==
  ASSUME LeafInv, NEW t \in Thread, FinishInsert(t)
  PROVE  LeafInv' /\ Gentle(t)
<1> DEFINE L == N(t)
           x == loc[t]
           p == x.p
           k == req[t].key
           w == req[t].val
           r == InsertFromBack(L.perm, x.i)
           M == [L EXCEPT !.perm = r]
<1>1. pc[t] = "publish" /\ pc[t] \in Assigning /\ pc[t] \in Working /\ pc[t] \in Holding
  BY DEF FinishInsert, Assigning, Working, Holding
<1>2. /\ L \in LeafRecord /\ L = leaf[x.n] /\ TypeOK /\ L.lock = t /\ x \in Locals /\ Placed(t)
      /\ x.n \in LeafId \ fresh /\ PermOk(x.perm) /\ PermOk(x.perm0) /\ PermOk(L.perm)
      /\ req[t] \in Request \cup GcRequest /\ ~ Get(t) /\ L.vinsert \in Nat /\ L.inserting \in BOOLEAN
      /\ L.modstate # "deleted_layer" /\ InUse(L.perm) \subseteq Slot
      /\ (x.n # Top => \A q \in Slot : L.keylenx[q] = "short")
  BY <1>1, AtWork
<1>3. /\ TopSlots /\ LayerSlots /\ Sorted(L)
  BY Parts
<1>4. /\ HeldAssigning(t) /\ w \in Val /\ k \in Key /\ p \in Slot /\ p \notin InUse(L.perm)
      /\ KaIkey(t) \in Nat /\ L.modstate = "insert" /\ L.perm.size < W /\ req[t].op = "put"
  BY <1>1, AtAssign
<1>5. /\ NotThere(L, x.i, KaIkey(t)) /\ p = Back(L.perm) /\ L.ikey[p] = KaIkey(t) /\ Mine(t, p) /\ L.lv[p] = w
  BY <1>1, <1>4 DEF HeldAssigning
<1>6. PermOk(r) /\ r.size = L.perm.size + 1 /\ InUse(r) = InUse(L.perm) \cup {p} /\ L.perm.size \in Nat
  <2>1. x.i \in 0 .. L.perm.size
    BY <1>5 DEF NotThere
  <2>2. QED
    BY <1>2, <1>4, <1>5, <2>1, Inserted, LeafFields, InUseSlots
<1>7. /\ pc' = [pc EXCEPT ![t] = "unlock"] /\ UNCHANGED <<fresh, gcs, loc, req, ops>>
      /\ leaf' = [leaf EXCEPT ![x.n] = M] /\ map' = [map EXCEPT ![k] = w]
  BY <1>2 DEF FinishInsert, Goto, Effect, TypeOK
<1> HIDE DEF r
<1>8. /\ M \in LeafRecord /\ M.lock = t /\ M.inserting = L.inserting /\ M.vinsert = L.vinsert
      /\ M.perm = r /\ M.modstate = L.modstate /\ M.ikey = L.ikey /\ M.keylenx = L.keylenx
      /\ M.ksuf = L.ksuf /\ M.lv = L.lv
  BY <1>2, <1>6 DEF LeafRecord, PermOk
<1> HIDE DEF M
<1>9. Writes(t, "unlock", x, x.n, M)
  <2>1. loc' = [loc EXCEPT ![t] = x] /\ gcs' \in [TopIkey -> Nat] /\ map' \in [Key -> Val \cup {None}]
    BY <1>2, <1>4, <1>7, Stays
  <2>2. QED
    BY <1>2, <1>7, <1>8, <2>1 DEF Writes, PCs
<1>10. /\ pc'[t] = "unlock" /\ loc'[t] = x /\ req'[t] = req[t] /\ N(t)' = M /\ (Get(t)' <=> Get(t))
       /\ leaf'[x.n] = M /\ (\A z \in LeafId \ {x.n} : leaf'[z] = leaf[z]) /\ \A u \in Thread \ {t} : Same(u)
  BY <1>9, Written
<1>11. Calm(x.n)
  BY <1>2, <1>4, <1>6, <1>8, <1>10 DEF Calm, Harmless, Grow
<1>12. Sorted(M) /\ PermOk(M.perm)
  <2>1. M.ikey = L.ikey /\ M.perm = InsertFromBack(L.perm, x.i) /\ L.ikey[Back(L.perm)] = KaIkey(t)
    BY <1>5, <1>8 DEF r
  <2>2. Sorted(M)
    BY ONLY <1>2, <1>3, <1>4, <1>5, <2>1, InsertedSorted
  <2>3. QED
    BY <1>6, <1>8, <2>2
<1>13. w \notin LayerLeaf
  BY <1>4, ValuesAssumption
<1>14. \A z \in LayerLeaf \ fresh, a \in TopIkey : Linked(z, a) => Linked(z, a)'
  <2>1. CASE x.n = Top
    BY <1>2, <1>6, <1>8, <1>10, <2>1 DEF Linked
  <2>2. CASE x.n # Top
    BY <1>10, <2>2, TopIsLeaf DEF Linked
  <2>3. QED
    BY <2>1, <2>2
<1>15. TopSlots'
  <2>1. CASE x.n = Top
    <3>1. \A q : ~ Turning(q)
      BY <1>1, <2>1, OnlyTurning
    <3>2. leaf'[Top] = M /\ leaf[Top] = L /\ fresh' = fresh
      BY <1>2, <1>7, <1>10, <2>1
    <3>3. M.modstate # "deleted_layer"
      BY <1>2, <1>8
    <3>4. ASSUME NEW q \in InUse(M.perm)
          PROVE  \/ M.keylenx[q] = "layer" /\ M.lv[q] \in LayerLeaf \ fresh
                 \/ M.keylenx[q] = "ksuf" /\ M.ksuf[q] \in Key /\ M.lv[q] \in Val
      <4>1. CASE q = p
        BY <1>4, <1>5, <1>8, <2>1, <4>1 DEF Mine
      <4>2. CASE q # p
        BY <1>3, <1>6, <1>8, <3>1, <3>2, <4>2 DEF TopSlots
      <4>3. QED
        BY <4>1, <4>2
    <3>5. \A q, s \in InUse(M.perm) : M.lv[q] \in LayerLeaf /\ M.lv[q] = M.lv[s] => q = s
      BY <1>3, <1>5, <1>6, <1>8, <1>13, <3>2 DEF TopSlots
    <3>6. QED
      BY <3>2, <3>3, <3>4, <3>5 DEF TopSlots
  <2>2. CASE x.n # Top
    BY <1>1, <1>7, <1>10, <2>2, TopIsLeaf, TopSlotsKept
  <2>3. QED
    BY <2>1, <2>2
<1>16. LayerSlots'
  <2>1. CASE x.n = Top
    BY <1>10, <2>1, TopIsLeaf, LayerSlotsKept
  <2>2. CASE x.n # Top
    BY <1>2, <1>3, <1>4, <1>5, <1>6, <1>8, <1>10, <2>2, TopIsLeaf DEF LayerSlots
  <2>3. QED
    BY <2>1, <2>2
<1>17. Dead'
  <2>1. \A y \in LayerLeaf : leaf'[y].modstate = "deleted_layer" =>
          leaf[y].modstate = "deleted_layer" /\ leaf'[y].perm = leaf[y].perm
    BY <1>2, <1>8, <1>10, TopIsLeaf
  <2>2. \A y \in LayerLeaf : \A q \in InUse(leaf'[Top].perm) : leaf'[Top].lv[q] = y =>
          q \in InUse(leaf[Top].perm) /\ leaf[Top].lv[q] = y
    <3>1. CASE x.n = Top
      BY <1>2, <1>5, <1>6, <1>8, <1>10, <1>13, <3>1
    <3>2. CASE x.n # Top
      BY <1>10, <3>2, TopIsLeaf
    <3>3. QED
      BY <3>1, <3>2
  <2>3. pc[t] \notin Removing
    BY <1>1 DEF Removing
  <2>4. QED
    BY <1>10, <2>1, <2>2, <2>3, DeadKept
<1>18. Content'
  <2>1. CASE x.n = Top
    <3>1. /\ leaf'[Top] = M /\ leaf[Top] = L /\ \A z \in LayerLeaf : leaf'[z] = leaf[z]
      BY <1>2, <1>10, <2>1, TopIsLeaf
    <3>2. L.ksuf[p] = k /\ L.ikey[p] = IkeyOf[k]
      BY <1>4, <1>5, <2>1 DEF Mine, KaIkey
    <3>3. \A v \in Val : Holds(leaf', k, v) <=> w = v
      <4>1. SUFFICES ASSUME NEW v \in Val PROVE Holds(leaf', k, v) <=> w = v
        OBVIOUS
      <4>2. /\ leaf'[Top] \in LeafRecord /\ PermOk(leaf'[Top].perm) /\ Sorted(leaf'[Top])
            /\ p \in InUse(leaf'[Top].perm) /\ leaf'[Top].ikey[p] = IkeyOf[k]
        BY <1>6, <1>8, <1>12, <3>1, <3>2
      <4>3. Holds(leaf', k, v) <=> SlotHolds(leaf', p, k, v)
        BY ONLY <1>4, <4>2, OneSlotHolds
      <4>4. SlotHolds(leaf', p, k, v) <=> w = v
        BY <1>5, <1>8, <1>13, <3>1, <3>2 DEF SlotHolds
      <4>5. QED
        BY <4>3, <4>4
    <3>4. /\ LeafInv /\ t \in Thread /\ k \in Key /\ map'[k] = w /\ \A j \in Key \ {k} : map'[j] = map[j]
      BY <1>4, <1>7, MapAt
    <3>5. /\ \A q : q # p => (q \in InUse(leaf'[Top].perm) <=> q \in InUse(leaf[Top].perm))
          /\ \A q \in InUse(leaf[Top].perm) \ {p} : SameSlot(leaf[Top], leaf'[Top], q)
          /\ p \in InUse(leaf[Top].perm) => leaf[Top].lv[p] \in Val /\ leaf[Top].ksuf[p] = k
          /\ p \in InUse(leaf'[Top].perm) => leaf'[Top].lv[p] \in Val /\ leaf'[Top].ksuf[p] = k
      BY <1>4, <1>5, <1>6, <1>8, <3>1, <3>2 DEF SameSlot
    <3>6. QED
      BY ONLY <3>1, <3>3, <3>4, <3>5, ContentInTop
  <2>2. CASE x.n # Top
    <3>1. x.n \in LayerLeaf /\ Linked(x.n, IkeyOf[k]) /\ KaIkey(t) = k
      BY <1>1, <2>2, InLayer
    <3>2. \A q \in InUse(L.perm) : L.ikey[q] # k
      BY <1>2, <1>4, <1>5, <3>1, NotThereIs
    <3>3. \A v \in Val : LayerHolds(leaf', x.n, k, v) <=> w = v
      BY <1>5, <1>6, <1>8, <1>10, <3>1, <3>2 DEF LayerHolds
    <3>4. \A j \in Key \ {k}, v \in Val : LayerHolds(leaf', x.n, j, v) <=> LayerHolds(leaf, x.n, j, v)
      BY <1>2, <1>5, <1>6, <1>8, <1>10, <3>1 DEF LayerHolds
    <3>5. /\ LeafInv /\ t \in Thread /\ k \in Key /\ map'[k] = w /\ \A j \in Key \ {k} : map'[j] = map[j]
      BY <1>4, <1>7, MapAt
    <3>6. QED
      BY ONLY <1>10, <3>1, <3>3, <3>4, <3>5, ContentInLayer
  <2>3. QED
    BY <2>1, <2>2
<1>19. Own(t)'
  <2>1. Placed(t)'
    BY <1>2, <1>9, <1>11, <1>12, <1>14, ChangeStep
  <2>2. Held(t)'
    BY <1>2, <1>8, <1>10 DEF Held, Assigning, Layering, Removing
  <2>3. QED
    BY <1>2, <1>8, <1>10, <2>1, <2>2, GoesOn DEF Working, Layering
<1>20. QED
  BY <1>2, <1>9, <1>11, <1>12, <1>14, <1>15, <1>16, <1>17, <1>18, <1>19, ChangeStep

\* What t knows while it turns a slot into a layer.
LEMMA AtLayering ==
  ASSUME LeafInv, NEW t \in Thread, pc[t] \in Layering
  PROVE  /\ HeldLayer(t) /\ HeldLayering(t) /\ req[t].op = "put" /\ req[t].key \in Key /\ loc[t].n = Top
         /\ loc[t].p \in Slot /\ loc[t].p \in InUse(N(t).perm) /\ N(t).inserting
         /\ loc[t].lv \in LayerLeaf \ fresh /\ loc[t].lv # Top /\ leaf[loc[t].lv].lock = t
         /\ KaIkey(t) = IkeyOf[req[t].key]
<1>1. /\ Held(t) /\ Locks(t) /\ InUse(N(t).perm) \subseteq Slot /\ req[t] \in Request \cup GcRequest
  BY AtWork DEF Holding, Working
<1>2. HeldLayer(t) /\ HeldLayering(t) /\ req[t].op = "put" /\ leaf[loc[t].lv].lock = t
  BY <1>1 DEF Held, Locks
<1>3. /\ loc[t].n = Top /\ loc[t].p \in InUse(N(t).perm) /\ N(t).inserting /\ loc[t].lv \in LayerLeaf \ fresh
  BY <1>2 DEF HeldLayer, HeldLayering
<1>4. QED
  BY <1>1, <1>2, <1>3, Requests, TopIsLeaf DEF KaIkey

LEMMA SetLayerKeylenxStep ==
  ASSUME LeafInv, NEW t \in Thread, SetLayerKeylenx(t)
  PROVE  LeafInv' /\ Gentle(t)
<1> DEFINE L == N(t)
           x == loc[t]
           p == x.p
           M == [L EXCEPT !.keylenx[p] = "layer"]
<1>1. pc[t] = "l_keylenx" /\ pc[t] \in Layering /\ pc[t] \in Working /\ pc[t] \in Holding
  BY DEF SetLayerKeylenx, Layering, Working, Holding
<1>2. /\ L \in LeafRecord /\ L = leaf[x.n] /\ TypeOK /\ L.lock = t /\ x \in Locals
      /\ x.n \in LeafId \ fresh /\ PermOk(x.perm) /\ PermOk(x.perm0) /\ PermOk(L.perm)
      /\ req[t] \in Request \cup GcRequest /\ ~ Get(t) /\ L.vinsert \in Nat
      /\ L.modstate # "deleted_layer" /\ InUse(L.perm) \subseteq Slot
  BY <1>1, AtWork
<1>3. /\ TopSlots /\ Sorted(L)
  BY Parts
<1>4. /\ HeldLayer(t) /\ HeldLayering(t) /\ req[t].op = "put" /\ x.n = Top /\ p \in Slot /\ p \in InUse(L.perm)
      /\ L.inserting /\ x.lv \in LayerLeaf \ fresh /\ x.lv # Top /\ leaf[x.lv].lock = t
  BY <1>1, AtLayering
<1>5. L.lv[p] = x.lv
  BY <1>1, <1>4 DEF HeldLayering
<1>6. /\ pc' = [pc EXCEPT ![t] = "l_unlock"] /\ UNCHANGED <<fresh, gcs, loc, req, ops, map>>
      /\ leaf' = [leaf EXCEPT ![x.n] = M]
  BY <1>2 DEF SetLayerKeylenx, Goto, history, TypeOK
<1>7. /\ M \in LeafRecord /\ M.lock = t /\ M.inserting = L.inserting /\ M.vinsert = L.vinsert
      /\ M.perm = L.perm /\ M.modstate = L.modstate /\ M.ikey = L.ikey /\ M.lv = L.lv
      /\ M.ksuf = L.ksuf /\ (\A q \in Slot \ {p} : M.keylenx[q] = L.keylenx[q]) /\ M.keylenx[p] = "layer"
  BY <1>2, <1>4 DEF LeafRecord
<1> HIDE DEF M
<1>8. Writes(t, "l_unlock", x, x.n, M)
  <2>1. loc' = [loc EXCEPT ![t] = x] /\ gcs' \in [TopIkey -> Nat] /\ map' \in [Key -> Val \cup {None}]
    BY <1>2, <1>6, Stays
  <2>2. QED
    BY <1>2, <1>6, <1>7, <2>1 DEF Writes, PCs
<1>9. /\ pc'[t] = "l_unlock" /\ loc'[t] = x /\ req'[t] = req[t] /\ N(t)' = M /\ (Get(t)' <=> Get(t))
      /\ leaf'[Top] = M /\ (\A z \in LayerLeaf : leaf'[z] = leaf[z]) /\ \A u \in Thread \ {t} : Same(u)
  BY <1>4, <1>8, Written, TopIsLeaf
<1>10. leaf[Top] = L /\ fresh' = fresh /\ KaIkey(t)' = KaIkey(t)
  BY <1>2, <1>4, <1>6, <1>8, Written
<1>11. Calm(x.n)
  <2>1. leaf[x.n] = L /\ leaf'[x.n] = M /\ M.inserting /\ M.vinsert >= L.vinsert
    BY <1>2, <1>4, <1>7, <1>9
  <2>2. QED
    BY ONLY <2>1 DEF Calm
<1>12. Sorted(M) /\ PermOk(M.perm)
  BY <1>2, <1>3, <1>7 DEF Sorted
<1>13. \A z \in LayerLeaf \ fresh, a \in TopIkey : Linked(z, a) => Linked(z, a)'
  BY <1>7, <1>9, <1>10 DEF Linked
<1>14. TopSlots'
  <2>1. \A q : q # p => ~ Turning(q)
    BY <1>1, <1>4, OnlyTurning
  <2>2. ASSUME NEW q \in InUse(L.perm)
        PROVE  \/ M.keylenx[q] = "layer" /\ M.lv[q] \in LayerLeaf \ fresh
               \/ M.keylenx[q] = "ksuf" /\ M.ksuf[q] \in Key /\ M.lv[q] \in Val
    <3>1. CASE q = p
      BY <1>4, <1>5, <1>7, <3>1
    <3>2. CASE q # p
      BY <1>2, <1>3, <1>7, <1>10, <2>1, <3>2 DEF TopSlots
    <3>3. QED
      BY <3>1, <3>2
  <2>3. M.modstate # "deleted_layer" /\ M.lv = L.lv /\ M.perm = L.perm
    BY <1>2, <1>7
  <2>4. QED
    BY <1>3, <1>9, <1>10, <2>2, <2>3 DEF TopSlots
<1>15. LayerSlots'
  BY <1>9, LayerSlotsKept
<1>16. Dead'
  <2>1. pc[t] \notin Removing
    BY <1>1 DEF Removing
  <2>2. QED
    BY <1>7, <1>9, <1>10, <2>1, DeadKept
<1>17. Content'
  <2>1. \A y \in LayerLeaf : \A k, v : LayerHolds(leaf', y, k, v) <=> LayerHolds(leaf, y, k, v)
    BY <1>9 DEF LayerHolds
  <2>2. \A q, k, v : SlotHolds(leaf', q, k, v) <=> SlotHolds(leaf, q, k, v)
    BY <1>7, <1>9, <1>10, <2>1 DEF SlotHolds
  <2>3. \A k, v : Holds(leaf', k, v) <=> Holds(leaf, k, v)
    BY <1>7, <1>9, <1>10, <2>2 DEF Holds
  <2>4. map' = map
    BY <1>6
  <2>5. QED
    BY <2>3, <2>4, ContentSame
<1>18. HeldLayer(t)'
  BY <1>1, <1>4, <1>7, <1>9, <1>10 DEF HeldLayer
<1>19. HeldLayering(t)'
  <2> DEFINE Y == leaf[x.lv]
  <2>1. /\ x.i \in {0, 1} /\ Y.modstate = "insert"
        /\ Y.perm.size = 1 /\ At(Y.perm, 0) = 1 - x.i /\ Back(Y.perm) = x.i
        /\ Y.ikey[x.i] = req[t].key /\ Y.ikey[1 - x.i] = M.ksuf[p]
        /\ NotThere(Y, x.i, req[t].key)
    BY <1>4, <1>7 DEF HeldLayering
  <2>2. leaf'[x.lv] = Y /\ M.inserting /\ M.lv[p] = x.lv
    BY <1>4, <1>5, <1>7, <1>9
  <2> HIDE DEF Y
  <2>3. QED
    BY <1>4, <1>9, <1>10, <2>1, <2>2 DEF HeldLayering, NotThere
<1>20. Own(t)'
  <2>1. Placed(t)'
    BY <1>4, <1>9 DEF Placed
  <2>2. Held(t)'
    BY <1>2, <1>4, <1>7, <1>9, <1>18, <1>19 DEF Held, Assigning, Layering, Removing
  <2>3. leaf'[loc'[t].lv].lock = t
    BY <1>4, <1>9
  <2>4. QED
    BY <1>2, <1>7, <1>9, <2>1, <2>2, <2>3, GoesOn DEF Working, Layering
<1>21. QED
  BY <1>2, <1>8, <1>11, <1>12, <1>13, <1>14, <1>15, <1>16, <1>17, <1>20, ChangeStep

LEMMA SetLayerStep ==
  ASSUME LeafInv, NEW t \in Thread, SetLayer(t)
  PROVE  LeafInv' /\ Gentle(t)
<1> DEFINE L == N(t)
           x == loc[t]
           p == x.p
           y == x.lv
           Y == leaf[y]
           M == [L EXCEPT !.lv[p] = y]
<1>1. pc[t] = "l_lv" /\ pc[t] \in Layering /\ pc[t] \in Working /\ pc[t] \in Holding
  BY DEF SetLayer, Layering, Working, Holding
<1>2. /\ L \in LeafRecord /\ L = leaf[x.n] /\ TypeOK /\ L.lock = t /\ x \in Locals
      /\ x.n \in LeafId \ fresh /\ PermOk(x.perm) /\ PermOk(x.perm0) /\ PermOk(L.perm)
      /\ req[t] \in Request \cup GcRequest /\ ~ Get(t) /\ L.vinsert \in Nat
      /\ L.modstate # "deleted_layer" /\ InUse(L.perm) \subseteq Slot
  BY <1>1, AtWork
<1>3. /\ TopSlots /\ Sorted(L)
  BY Parts
<1>4. /\ HeldLayer(t) /\ HeldLayering(t) /\ req[t].op = "put" /\ x.n = Top /\ p \in Slot /\ p \in InUse(L.perm)
      /\ L.inserting /\ y \in LayerLeaf \ fresh /\ y # Top /\ Y.lock = t
  BY <1>1, AtLayering
<1>5. /\ x.i \in {0, 1} /\ Y.modstate = "insert" /\ Y.perm.size = 1 /\ At(Y.perm, 0) = 1 - x.i
      /\ Y.ikey[1 - x.i] = L.ksuf[p] /\ Y.lv[1 - x.i] = L.lv[p]
      /\ \A q \in InUse(L.perm) : L.lv[q] # y
  BY <1>1, <1>4 DEF HeldLayering
<1>6. L.keylenx[p] = "ksuf"
  BY <1>1, <1>4 DEF HeldLayer
<1>7. /\ pc' = [pc EXCEPT ![t] = "l_keylenx"] /\ UNCHANGED <<fresh, gcs, loc, req, ops, map>>
      /\ leaf' = [leaf EXCEPT ![x.n] = M]
  BY <1>2 DEF SetLayer, Goto, history, TypeOK
<1>8. /\ M \in LeafRecord /\ M.lock = t /\ M.inserting = L.inserting /\ M.vinsert = L.vinsert
      /\ M.perm = L.perm /\ M.modstate = L.modstate /\ M.ikey = L.ikey /\ M.keylenx = L.keylenx
      /\ M.ksuf = L.ksuf /\ (\A q \in Slot \ {p} : M.lv[q] = L.lv[q]) /\ M.lv[p] = y
  BY <1>2, <1>4 DEF LeafRecord, LeafValue
<1> HIDE DEF M
<1>9. Writes(t, "l_keylenx", x, x.n, M)
  <2>1. loc' = [loc EXCEPT ![t] = x] /\ gcs' \in [TopIkey -> Nat] /\ map' \in [Key -> Val \cup {None}]
    BY <1>2, <1>7, Stays
  <2>2. QED
    BY <1>2, <1>7, <1>8, <2>1 DEF Writes, PCs
<1>10. /\ pc'[t] = "l_keylenx" /\ loc'[t] = x /\ req'[t] = req[t] /\ N(t)' = M /\ (Get(t)' <=> Get(t))
       /\ leaf'[Top] = M /\ (\A z \in LayerLeaf : leaf'[z] = leaf[z]) /\ \A u \in Thread \ {t} : Same(u)
  BY <1>4, <1>9, Written, TopIsLeaf
<1>11. leaf[Top] = L /\ fresh' = fresh /\ KaIkey(t)' = KaIkey(t)
  BY <1>2, <1>4, <1>7, <1>9, Written
<1>12. Calm(x.n)
  <2>1. leaf[x.n] = L /\ leaf'[x.n] = M /\ M.inserting /\ M.vinsert >= L.vinsert
    BY <1>2, <1>4, <1>8, <1>10
  <2>2. QED
    BY ONLY <2>1 DEF Calm
<1>13. Sorted(M) /\ PermOk(M.perm)
  BY <1>2, <1>3, <1>8 DEF Sorted
<1>14. /\ \A q : ~ Turning(q)
       /\ L.lv[p] \in Val /\ L.lv[p] \notin LayerLeaf /\ L.ksuf[p] \in Key
  <2>1. \A q : ~ Turning(q)
    BY <1>1, <1>4, OnlyTurning
  <2>2. L.lv[p] \in Val /\ L.ksuf[p] \in Key
    BY <1>3, <1>4, <1>6, <1>11, <2>1 DEF TopSlots
  <2>3. QED
    BY <2>1, <2>2, ValuesAssumption
<1>15. \A z \in LayerLeaf \ fresh, a \in TopIkey : Linked(z, a) => Linked(z, a)'
  BY <1>2, <1>8, <1>10, <1>11, <1>14 DEF Linked
<1>16. TopSlots'
  <2>1. Turning(p)'
    BY <1>10 DEF Turning
  <2>2. ASSUME NEW q \in InUse(L.perm)
        PROVE  \/ M.keylenx[q] = "layer" /\ M.lv[q] \in LayerLeaf \ fresh
               \/ /\ M.keylenx[q] = "ksuf" /\ M.ksuf[q] \in Key
                  /\ M.lv[q] \in Val \/ (q = p /\ M.lv[q] \in LayerLeaf \ fresh)
    <3>1. CASE q = p
      BY <1>4, <1>6, <1>8, <1>14, <3>1
    <3>2. CASE q # p
      BY <1>2, <1>3, <1>8, <1>11, <1>14, <3>2 DEF TopSlots
    <3>3. QED
      BY <3>1, <3>2
  <2>3. M.modstate # "deleted_layer" /\ M.perm = L.perm
    BY <1>2, <1>8
  <2>4. \A q, s \in InUse(L.perm) : M.lv[q] \in LayerLeaf /\ M.lv[q] = M.lv[s] => q = s
    <3>1. \A q, s \in InUse(L.perm) : L.lv[q] \in LayerLeaf /\ L.lv[q] = L.lv[s] => q = s
      BY <1>3, <1>11 DEF TopSlots
    <3>2. \A q \in InUse(L.perm) : IF q = p THEN M.lv[q] = y ELSE M.lv[q] = L.lv[q] /\ M.lv[q] # y
      BY <1>2, <1>5, <1>8
    <3>3. QED
      BY <3>1, <3>2
  <2>5. QED
    BY <1>10, <1>11, <2>1, <2>2, <2>3, <2>4 DEF TopSlots
<1>17. LayerSlots'
  BY <1>10, LayerSlotsKept
<1>18. Dead'
  <2>1. pc[t] \notin Removing
    BY <1>1 DEF Removing
  <2>2. \A z \in LayerLeaf : leaf'[z].modstate = "deleted_layer" =>
           /\ leaf[z].modstate = "deleted_layer" /\ leaf'[z].perm = leaf[z].perm
           /\ \A q \in InUse(leaf'[Top].perm) : leaf'[Top].lv[q] = z =>
                q \in InUse(leaf[Top].perm) /\ leaf[Top].lv[q] = z
    BY <1>2, <1>5, <1>8, <1>10, <1>11
  <2>3. QED
    BY <1>10, <2>1, <2>2, DeadKept
\* The new leaf has what the slot had.
<1>19. Content'
  <2>1. \A z \in LayerLeaf : \A k, v : LayerHolds(leaf', z, k, v) <=> LayerHolds(leaf, z, k, v)
    BY <1>10 DEF LayerHolds
  <2>2. InUse(Y.perm) = {1 - x.i}
    BY <1>5 DEF InUse
  <2>3. \A k, v : LayerHolds(leaf, y, k, v) <=> L.ksuf[p] = k /\ L.lv[p] = v
    BY <1>5, <2>2 DEF LayerHolds
  <2>4. \A k, v : SlotHolds(leaf', p, k, v) <=> SlotHolds(leaf, p, k, v)
    BY <1>4, <1>8, <1>10, <1>11, <1>14, <2>1, <2>3 DEF SlotHolds
  <2>5. \A q \in InUse(L.perm) \ {p} : \A k, v : SlotHolds(leaf', q, k, v) <=> SlotHolds(leaf, q, k, v)
    BY <1>2, <1>8, <1>10, <1>11, <2>1 DEF SlotHolds
  <2>6. \A k, v : Holds(leaf', k, v) <=> Holds(leaf, k, v)
    BY <1>8, <1>10, <1>11, <2>4, <2>5 DEF Holds
  <2>7. map' = map
    BY <1>7
  <2>8. QED
    BY <2>6, <2>7, ContentSame
<1>20. HeldLayer(t)'
  BY <1>1, <1>4, <1>8, <1>10, <1>11 DEF HeldLayer
<1>21. HeldLayering(t)'
  <2>1. /\ x.i \in {0, 1} /\ Y.modstate = "insert"
        /\ Y.perm.size = 1 /\ At(Y.perm, 0) = 1 - x.i /\ Back(Y.perm) = x.i
        /\ Y.ikey[x.i] = req[t].key /\ Y.ikey[1 - x.i] = M.ksuf[p]
        /\ NotThere(Y, x.i, req[t].key)
    BY <1>4, <1>8 DEF HeldLayering
  <2>2. leaf'[y] = Y /\ M.inserting /\ M.lv[p] = y
    BY <1>4, <1>8, <1>10
  <2> HIDE DEF Y
  <2>3. QED
    BY <1>4, <1>10, <1>11, <2>1, <2>2 DEF HeldLayering, NotThere
<1>22. Own(t)'
  <2>1. Placed(t)'
    BY <1>4, <1>10 DEF Placed
  <2>2. Held(t)'
    BY <1>2, <1>4, <1>8, <1>10, <1>20, <1>21 DEF Held, Assigning, Layering, Removing
  <2>3. leaf'[loc'[t].lv].lock = t
    BY <1>4, <1>10
  <2>4. QED
    BY <1>2, <1>8, <1>10, <2>1, <2>2, <2>3, GoesOn DEF Working, Layering
<1>23. QED
  BY <1>2, <1>9, <1>12, <1>13, <1>15, <1>16, <1>17, <1>18, <1>19, <1>22, ChangeStep

LEMMA EmptyLeafFields ==
  /\ EmptyLeaf \in LeafRecord /\ EmptyLeaf.lock = NoThread /\ EmptyLeaf.modstate = "insert"
  /\ EmptyLeaf.inserting = FALSE /\ EmptyLeaf.vinsert = 0 /\ EmptyLeaf.perm = MakeEmpty
  /\ \A q \in Slot : EmptyLeaf.keylenx[q] = "short"
<1>1. MakeEmpty \in Perm
  BY NewPerms DEF PermOk
<1> HIDE DEF MakeEmpty
<1>2. QED
  BY <1>1 DEF EmptyLeaf, LeafRecord, LeafValue

\* The leaf that make_new_layer builds.
LEMMA NewLeafFields ==
  ASSUME NEW t \in Thread, NEW o \in {0, 1}, req[t].key \in Key, N(t).ksuf[loc[t].p] \in Key,
         N(t).lv[loc[t].p] \in Val
  PROVE  LET Y == NewLeaf(t, o) IN
         /\ Y \in LeafRecord /\ Y.lock = t /\ Y.modstate = "insert" /\ \A q \in Slot : Y.keylenx[q] = "short"
         /\ Y.ikey[o] = N(t).ksuf[loc[t].p] /\ Y.ikey[1 - o] = req[t].key
         /\ Y.lv[o] = N(t).lv[loc[t].p]
         /\ PermOk(Y.perm) /\ Y.perm.size = 1 /\ At(Y.perm, 0) = o /\ InUse(Y.perm) = {o} /\ Back(Y.perm) = 1 - o
<1> DEFINE Y == NewLeaf(t, o)
           a == N(t).ksuf[loc[t].p]
           b == req[t].key
           v == N(t).lv[loc[t].p]
           r == IF o = 0 THEN MakeSorted(1) ELSE RemoveToBack(MakeSorted(2), 0)
           ik == [EmptyLeaf.ikey EXCEPT ![o] = a, ![1 - o] = b]
           lv == [EmptyLeaf.lv EXCEPT ![o] = v]
<1>1. PermOk(r) /\ r.size = 1 /\ At(r, 0) = o /\ InUse(r) = {o} /\ Back(r) = 1 - o
  BY NewPerms
<1>2. o \in Slot /\ 1 - o \in Slot /\ o # 1 - o
  BY WAssumption, TwoSlots DEF Slot
<1>3. ik \in [Slot -> Ikey \cup {0}] /\ ik[o] = a /\ ik[1 - o] = b
  <2>1. EmptyLeaf.ikey = [q \in Slot |-> 0]
    BY DEF EmptyLeaf
  <2>2. QED
    BY <1>2, <2>1, Ikeys
<1>4. lv \in [Slot -> LeafValue] /\ lv[o] = v
  <2>1. EmptyLeaf.lv = [q \in Slot |-> Empty]
    BY DEF EmptyLeaf
  <2>2. QED
    BY <1>2, <2>1 DEF LeafValue
<1>5. Y = [EmptyLeaf EXCEPT !.lock = t, !.ikey = ik, !.lv = lv, !.perm = r]
  BY DEF NewLeaf
<1> HIDE DEF r, ik, lv
<1>6. /\ Y \in LeafRecord /\ Y.lock = t /\ Y.modstate = "insert" /\ (\A q \in Slot : Y.keylenx[q] = "short")
      /\ Y.ikey = ik /\ Y.lv = lv /\ Y.perm = r
  <2>1. r \in Perm
    BY <1>1 DEF PermOk
  <2> HIDE DEF Y
  <2>2. /\ Y \in LeafRecord /\ Y.lock = t /\ Y.modstate = EmptyLeaf.modstate /\ Y.keylenx = EmptyLeaf.keylenx
        /\ Y.ikey = ik /\ Y.lv = lv /\ Y.perm = r
    BY <1>3, <1>4, <1>5, <2>1, EmptyLeafFields DEF LeafRecord
  <2>3. QED
    BY <2>2, EmptyLeafFields
<1>7. QED
  BY <1>1, <1>3, <1>4, <1>5, <1>6

LEMMA MakeNewLayerStep ==
  ASSUME LeafInv, NEW t \in Thread, MakeNewLayer(t)
  PROVE  LeafInv' /\ Gentle(t)
<1> DEFINE L == N(t)
           x == loc[t]
           p == x.p
           k == req[t].key
           o == IF L.ksuf[p] < k THEN 0 ELSE 1
           Y == NewLeaf(t, o)
           M == [L EXCEPT !.inserting = TRUE]
<1>1. pc[t] = "layer" /\ pc[t] \in Working /\ pc[t] \in Holding
  BY DEF MakeNewLayer, Working, Holding
<1>2. /\ L \in LeafRecord /\ L = leaf[x.n] /\ TypeOK /\ L.lock = t /\ x \in Locals /\ Held(t) /\ Types
      /\ x.n \in LeafId \ fresh /\ PermOk(x.perm) /\ PermOk(x.perm0) /\ PermOk(L.perm)
      /\ req[t] \in Request \cup GcRequest /\ ~ Get(t) /\ L.vinsert \in Nat
      /\ L.modstate # "deleted_layer" /\ InUse(L.perm) \subseteq Slot
  BY <1>1, AtWork
<1>3. TopSlots /\ LayerSlots /\ Leaves
  BY Parts
<1>4. /\ HeldLayer(t) /\ req[t].op = "put" /\ x.n = Top /\ p \in InUse(L.perm) /\ p \in Slot
      /\ L.ikey[p] = KaIkey(t) /\ L.ksuf[p] # k /\ L.keylenx[p] = "ksuf" /\ k \in Key
  <2>1. HeldLayer(t) /\ req[t].op = "put"
    BY <1>1, <1>2 DEF Held
  <2>2. QED
    BY <1>1, <1>2, <2>1, Requests DEF HeldLayer
<1>5. leaf[Top] = L
  BY <1>2, <1>4
<1>6. /\ \A q : ~ Turning(q)
      /\ L.lv[p] \in Val /\ L.ksuf[p] \in Key /\ k \in Nat /\ L.ksuf[p] \in Nat
  <2>1. \A q : ~ Turning(q)
    BY <1>1, <1>4, OnlyTurning
  <2>2. L.lv[p] \in Val /\ L.ksuf[p] \in Key
    BY <1>3, <1>4, <1>5, <2>1 DEF TopSlots
  <2>3. QED
    BY <1>4, <2>1, <2>2, KeyAssumption
<1>7. PICK y \in fresh :
        /\ fresh' = fresh \ {y}
        /\ leaf' = [leaf EXCEPT ![y] = Y, ![loc[t].n].inserting = TRUE]
        /\ loc' = [loc EXCEPT ![t].lv = y, ![t].i = 1 - o]
  BY DEF MakeNewLayer
<1> DEFINE z == [x EXCEPT !.lv = y, !.i = 1 - o]
<1>8. o \in {0, 1} /\ (o = 0 => L.ksuf[p] < k) /\ (o = 1 => k < L.ksuf[p])
  BY <1>4, <1>6
<1> HIDE DEF o
<1>9. y \in LayerLeaf /\ y # Top /\ y \in LeafId /\ leaf[y] = EmptyLeaf
  BY <1>2, <1>3, <1>7, TopIsLeaf DEF TypeOK, Leaves
<1>10. /\ Y \in LeafRecord /\ Y.lock = t /\ Y.modstate = "insert" /\ (\A q \in Slot : Y.keylenx[q] = "short")
       /\ Y.ikey[o] = L.ksuf[p] /\ Y.ikey[1 - o] = k /\ Y.lv[o] = L.lv[p]
       /\ PermOk(Y.perm) /\ Y.perm.size = 1 /\ At(Y.perm, 0) = o /\ InUse(Y.perm) = {o} /\ Back(Y.perm) = 1 - o
  BY <1>4, <1>6, <1>8, NewLeafFields
<1> HIDE DEF Y
<1>11. /\ M \in LeafRecord /\ M.lock = t /\ M.inserting = TRUE /\ M.vinsert = L.vinsert
       /\ M.perm = L.perm /\ M.modstate = L.modstate /\ M.ikey = L.ikey /\ M.keylenx = L.keylenx
       /\ M.ksuf = L.ksuf /\ M.lv = L.lv
  BY <1>2 DEF LeafRecord
<1>12. /\ leaf' \in [LeafId -> LeafRecord] /\ leaf'[y] = Y /\ leaf'[Top] = M
       /\ \A u \in LeafId \ {y, Top} : leaf'[u] = leaf[u]
  <2>1. leaf' = [leaf EXCEPT ![y] = Y, ![Top] = M]
    BY <1>2, <1>4, <1>5, <1>7, <1>9 DEF TypeOK
  <2>2. leaf \in [LeafId -> LeafRecord]
    BY <1>2 DEF TypeOK
  <2> HIDE DEF M
  <2>3. QED
    BY <1>9, <1>10, <1>11, <2>1, <2>2, TopIsLeaf
<1> HIDE DEF M
<1>13. /\ z \in Locals /\ z.n = Top /\ z.p = p /\ z.lv = y /\ z.i = 1 - o /\ z.perm = x.perm /\ z.perm0 = x.perm0
  <2>1. 1 - o \in 0 .. W
    BY <1>8, WAssumption, TwoSlots
  <2>2. QED
    BY <1>2, <1>4, <1>9, <2>1 DEF Locals, LeafValue
<1>14. loc' = [loc EXCEPT ![t] = z]
  BY <1>2, <1>7 DEF TypeOK
<1> HIDE DEF z
<1>15. Types' /\ pc'[t] = "l_lv" /\ loc'[t] = z /\ req'[t] = req[t] /\ \A u \in Thread \ {t} : Same(u)
  <2>1. /\ pc' = [pc EXCEPT ![t] = "l_lv"] /\ UNCHANGED <<gcs, req, ops, map>> /\ "l_lv" \in PCs
    BY DEF MakeNewLayer, Goto, history, PCs
  <2>2. fresh' \subseteq LayerLeaf
    BY <1>2, <1>7 DEF TypeOK
  <2>3. /\ req' = [req EXCEPT ![t] = req[t]] /\ gcs' \in [TopIkey -> Nat]
        /\ ops' \in [Thread -> Nat] /\ map' \in [Key -> Val \cup {None}]
    BY <1>2, <2>1, Stays
  <2>4. Types /\ PermOk(z.perm) /\ PermOk(z.perm0) /\ req[t] \in Request \cup GcRequest \cup {Idle}
    BY <1>2, <1>13
  <2>5. QED
    BY ONLY t \in Thread, <1>12, <1>13, <1>14, <2>1, <2>2, <2>3, <2>4, Moves
<1>16. N(t)' = M /\ KaIkey(t)' = KaIkey(t) /\ (Get(t)' <=> Get(t))
  BY <1>4, <1>12, <1>13, <1>15 DEF N, KaIkey, Get
<1>17. Gentle(t)
  <2>1. fresh' \subseteq fresh
    BY <1>7
  <2>2. \A u \in LeafId \ fresh : Calm(u) /\ (leaf'[u] # leaf[u] => leaf[u].lock \in {t, NoThread})
    <3>1. SUFFICES ASSUME NEW u \in LeafId \ fresh
                   PROVE  Calm(u) /\ (leaf'[u] # leaf[u] => leaf[u].lock \in {t, NoThread})
      OBVIOUS
    <3>2. CASE u = Top
      <4>1. leaf[u] = L /\ leaf'[u] = M /\ M.inserting /\ M.vinsert >= L.vinsert
        BY <1>2, <1>5, <1>11, <1>12, <3>2
      <4>2. Calm(u)
        BY ONLY <4>1 DEF Calm
      <4>3. QED
        BY <1>2, <4>1, <4>2
    <3>3. CASE u # Top
      <4>1. leaf'[u] = leaf[u]
        BY <1>7, <1>12, <3>3
      <4>2. QED
        BY <1>2, <4>1, SameIsCalm
    <3>4. QED
      BY <3>2, <3>3
  <2>3. \A u \in LayerLeaf : leaf[u].modstate = "deleted_layer" => leaf'[u].modstate = "deleted_layer"
    <3>1. leaf[y].modstate = "insert"
      BY <1>9 DEF EmptyLeaf
    <3>2. QED
      BY <1>12, <3>1, TopIsLeaf
  <2>4. \A u \in LayerLeaf \ fresh, a \in TopIkey : Linked(u, a) => Linked(u, a)'
    BY <1>5, <1>11, <1>12 DEF Linked
  <2>5. QED
    BY <1>15, <2>1, <2>2, <2>3, <2>4 DEF Gentle
<1>18. Leaves'
  <2>1. ASSUME NEW u \in LeafId PROVE PermOk(leaf'[u].perm) /\ Sorted(leaf'[u])
    <3>1. CASE u = y
      <4>1. Sorted(Y)
        BY <1>10 DEF Sorted
      <4>2. QED
        BY <1>10, <1>12, <3>1, <4>1
    <3>2. CASE u = Top
      <4>1. Sorted(L) /\ PermOk(L.perm)
        BY <1>3, <1>5, TopIsLeaf DEF Leaves
      <4>2. Sorted(M)
        BY <1>11, <4>1 DEF Sorted
      <4>3. QED
        BY <1>11, <1>12, <3>2, <4>1, <4>2
    <3>3. CASE u \notin {y, Top}
      BY <1>3, <1>12, <3>3 DEF Leaves
    <3>4. QED
      BY <3>1, <3>2, <3>3
  <2>2. \A u \in fresh' : leaf'[u] = EmptyLeaf
    BY <1>2, <1>3, <1>7, <1>12, TopIsLeaf DEF Leaves, TypeOK
  <2>3. QED
    BY <2>1, <2>2 DEF Leaves
<1>19. \A q \in InUse(L.perm) : L.lv[q] # y
  BY <1>3, <1>5, <1>6, <1>7, <1>9, ValuesAssumption DEF TopSlots
<1>20. TopSlots'
  <2>1. M.modstate # "deleted_layer" /\ M.perm = L.perm
    BY <1>2, <1>11
  <2>2. \A q \in InUse(L.perm) :
          \/ M.keylenx[q] = "layer" /\ M.lv[q] \in LayerLeaf \ fresh'
          \/ M.keylenx[q] = "ksuf" /\ M.ksuf[q] \in Key /\ M.lv[q] \in Val
    BY <1>3, <1>5, <1>6, <1>7, <1>11 DEF TopSlots
  <2>3. \A q, r \in InUse(L.perm) : M.lv[q] \in LayerLeaf /\ M.lv[q] = M.lv[r] => q = r
    BY <1>3, <1>5, <1>11 DEF TopSlots
  <2>4. QED
    BY <1>12, <2>1, <2>2, <2>3 DEF TopSlots
<1>21. LayerSlots'
  <2>1. SUFFICES ASSUME NEW u \in LayerLeaf
                 PROVE  /\ \A q \in Slot : leaf'[u].keylenx[q] = "short"
                        /\ \A q \in InUse(leaf'[u].perm) : leaf'[u].lv[q] \in Val
    BY DEF LayerSlots
  <2>2. CASE u = y
    BY <1>6, <1>10, <1>12, <2>2
  <2>3. CASE u # y
    BY <1>3, <1>12, <2>3, TopIsLeaf DEF LayerSlots
  <2>4. QED
    BY <2>2, <2>3
<1>22. Dead'
  <2>1. pc[t] \notin Removing
    BY <1>1 DEF Removing
  <2>2. \A u \in LayerLeaf : leaf'[u].modstate = "deleted_layer" =>
           /\ leaf[u].modstate = "deleted_layer" /\ leaf'[u].perm = leaf[u].perm
           /\ \A q \in InUse(leaf'[Top].perm) : leaf'[Top].lv[q] = u =>
                q \in InUse(leaf[Top].perm) /\ leaf[Top].lv[q] = u
    BY <1>5, <1>10, <1>11, <1>12, TopIsLeaf
  <2>3. QED
    BY <1>15, <2>1, <2>2, DeadKept
\* Top does not lead to the new leaf yet.
<1>23. Content'
  <2>1. \A u \in LayerLeaf \ {y} : \A j, v : LayerHolds(leaf', u, j, v) <=> LayerHolds(leaf, u, j, v)
    BY <1>12, TopIsLeaf DEF LayerHolds
  <2>2. \A q \in InUse(L.perm) : \A j, v : SlotHolds(leaf', q, j, v) <=> SlotHolds(leaf, q, j, v)
    <3>1. SUFFICES ASSUME NEW q \in InUse(L.perm), NEW j, NEW v
                   PROVE  SlotHolds(leaf', q, j, v) <=> SlotHolds(leaf, q, j, v)
      OBVIOUS
    <3>2. L.lv[q] # y
      BY <1>19
    <3>3. QED
      BY <1>5, <1>11, <1>12, <2>1, <3>2 DEF SlotHolds
  <2>3. \A j, v : Holds(leaf', j, v) <=> Holds(leaf, j, v)
    BY <1>5, <1>11, <1>12, <2>2 DEF Holds
  <2>4. map' = map
    BY DEF MakeNewLayer, history
  <2>5. QED
    BY <2>3, <2>4, ContentSame
<1>24. HeldLayer(t)'
  BY <1>4, <1>11, <1>13, <1>15, <1>16 DEF HeldLayer
<1>25. HeldLayering(t)'
  <2>1. NotThere(Y, 1 - o, k)
    BY <1>8, <1>10 DEF NotThere
  <2>2. 1 - (1 - o) = o /\ 1 - o \in {0, 1}
    BY <1>8
  <2>3. y \in LayerLeaf \ fresh'
    BY <1>7, <1>9
  <2>4. \A q \in InUse(M.perm) : M.lv[q] # y
    BY <1>11, <1>19
  <2>5. QED
    BY <1>10, <1>11, <1>12, <1>13, <1>15, <1>16, <2>1, <2>2, <2>3, <2>4 DEF HeldLayering, NotThere
<1>26. Own(t)'
  <2>1. Placed(t)'
    BY <1>13, <1>15 DEF Placed
  <2>2. Held(t)'
    BY <1>2, <1>4, <1>11, <1>15, <1>16, <1>24, <1>25 DEF Held, Assigning, Layering, Removing
  <2>3. leaf'[loc'[t].lv].lock = t
    BY <1>10, <1>12, <1>13, <1>15
  <2>4. QED
    BY <1>2, <1>11, <1>15, <1>16, <2>1, <2>2, <2>3, GoesOn DEF Working, Layering
<1>27. \A u \in Thread \ {t} : Own(u)'
  BY <1>15, <1>17, OthersKept
<1>28. QED
  BY <1>15, <1>17, <1>18, <1>20, <1>21, <1>22, <1>23, <1>26, <1>27 DEF LeafInv, Store

LEMMA RemovedSorted ==
  ASSUME NEW L \in LeafRecord, PermOk(L.perm), Sorted(L), NEW i \in 0 .. L.perm.size - 1,
         NEW M, M.ikey = L.ikey, M.perm = Remove(L.perm, i)
  PROVE  Sorted(M)
<1> DEFINE q == L.perm
           r == M.perm
<1>1. q.size \in Nat
  BY LeafFields, InUseSlots
<1>2. /\ r.size = q.size - 1
      /\ \A j \in 0 .. i - 1 : At(r, j) = At(q, j)
      /\ \A j \in i .. q.size - 2 : At(r, j) = At(q, j + 1)
  BY Removed
<1>3. \A j, k \in 0 .. q.size - 1 : j < k => L.ikey[At(q, j)] < L.ikey[At(q, k)]
  BY DEF Sorted
<1>4. ASSUME NEW j \in 0 .. q.size - 2, NEW k \in 0 .. q.size - 2, j < k
      PROVE  M.ikey[At(r, j)] < M.ikey[At(r, k)]
  <2>1. CASE k < i
    <3>1. At(r, j) = At(q, j) /\ At(r, k) = At(q, k) /\ j \in 0 .. q.size - 1 /\ k \in 0 .. q.size - 1
      BY <1>1, <1>2, <1>4, <2>1
    <3>2. QED
      BY <1>3, <1>4, <3>1
  <2>2. CASE k >= i /\ j < i
    <3>1. At(r, j) = At(q, j) /\ At(r, k) = At(q, k + 1) /\ j \in 0 .. q.size - 1 /\ k + 1 \in 0 .. q.size - 1
      BY <1>1, <1>2, <1>4, <2>2
    <3>2. j < k + 1
      BY <1>4
    <3>3. QED
      BY <1>3, <3>1, <3>2
  <2>3. CASE j >= i
    <3>1. /\ At(r, j) = At(q, j + 1) /\ At(r, k) = At(q, k + 1)
          /\ j + 1 \in 0 .. q.size - 1 /\ k + 1 \in 0 .. q.size - 1
      BY <1>1, <1>2, <1>4, <2>3
    <3>2. j + 1 < k + 1
      BY <1>4
    <3>3. QED
      BY <1>3, <3>1, <3>2
  <2>4. QED
    BY <1>1, <1>4, <2>1, <2>2, <2>3
<1>5. r.size - 1 = q.size - 2
  BY <1>1, <1>2
<1>6. QED
  BY <1>4, <1>5 DEF Sorted

LEMMA FinishRemoveStep ==
  ASSUME LeafInv, NEW t \in Thread, FinishRemove(t)
  PROVE  LeafInv' /\ Gentle(t)
<1> DEFINE L == N(t)
           x == loc[t]
           p == At(L.perm, x.i)
           k == req[t].key
           r == Remove(L.perm, x.i)
           M == [L EXCEPT !.perm = r]
<1>1. pc[t] = "r_perm" /\ pc[t] \in Removing /\ pc[t] \in Working /\ pc[t] \in Holding
  BY DEF FinishRemove, Removing, Working, Holding
<1>2. /\ L \in LeafRecord /\ L = leaf[x.n] /\ TypeOK /\ L.lock = t /\ x \in Locals /\ Placed(t) /\ Held(t)
      /\ x.n \in LeafId \ fresh /\ PermOk(x.perm) /\ PermOk(x.perm0) /\ PermOk(L.perm)
      /\ req[t] \in Request \cup GcRequest /\ ~ Get(t) /\ L.vinsert \in Nat /\ L.inserting \in BOOLEAN
      /\ L.modstate # "deleted_layer" /\ InUse(L.perm) \subseteq Slot
      /\ (x.n # Top => \A q \in Slot : L.keylenx[q] = "short")
  BY <1>1, AtWork
<1>3. TopSlots /\ LayerSlots /\ Sorted(L) /\ Dead
  BY Parts
<1>4. /\ There(L, x.i, p, KaIkey(t)) /\ L.modstate = "remove"
      /\ req[t].op = "gc" =>
           /\ L.keylenx[p] = "layer" /\ L.lv[p] = x.lv
           /\ x.lv \in LayerLeaf /\ leaf[x.lv].modstate = "deleted_layer"
      /\ req[t].op # "gc" => req[t].op = "remove" /\ Mine(t, p) /\ x.lv = Empty
  BY <1>1, <1>2 DEF Held, HeldRemoving
<1>5. x.i \in 0 .. L.perm.size - 1 /\ p \in InUse(L.perm) /\ L.ikey[p] = KaIkey(t) /\ p \in Slot
  <2>1. p \in InUse(L.perm) /\ L.ikey[p] = KaIkey(t)
    BY ONLY <1>4, ThereIs
  <2>2. QED
    BY <1>2, <1>4, <2>1 DEF There
<1>6. /\ req[t].op = "gc" => x.n = Top /\ x.lv # Top /\ x.lv \in LayerLeaf
      /\ req[t].op # "gc" => k \in Key /\ L.lv[p] \in Val /\ L.lv[p] \notin LayerLeaf /\ L.keylenx[p] # "layer"
  <2>1. req[t].op = "gc" => x.n = Top /\ x.lv # Top /\ x.lv \in LayerLeaf
    BY <1>2, <1>4, TopIsLeaf DEF Placed
  <2>2. req[t].op # "gc" => k \in Key
    BY <1>2, Requests
  <2>3. req[t].op # "gc" => L.lv[p] \in Val /\ L.keylenx[p] # "layer"
    <3>1. SUFFICES ASSUME req[t].op # "gc" PROVE L.lv[p] \in Val /\ L.keylenx[p] # "layer"
      OBVIOUS
    <3>2. Mine(t, p)
      BY <1>4, <3>1
    <3>3. pc[t] # "l_keylenx"
      BY <1>1
    <3>4. L.lv[p] \in Val
      BY <1>1, <1>5, <3>2, <3>3, MineHolds
    <3>5. QED
      BY <3>2, <3>4 DEF Mine
  <2>4. QED
    BY <2>1, <2>2, <2>3, ValuesAssumption
<1>7. PermOk(r) /\ r.size = L.perm.size - 1 /\ InUse(r) = InUse(L.perm) \ {p} /\ L.perm.size \in Nat
  BY <1>2, <1>5, Removed, LeafFields, InUseSlots
<1>8. /\ pc' = [pc EXCEPT ![t] = "unlock"] /\ UNCHANGED <<fresh, loc, req, ops>>
      /\ leaf' = [leaf EXCEPT ![x.n] = M]
      /\ gcs' = (IF x.n # Top /\ L.perm.size = 1 THEN [gcs EXCEPT ![IkeyOf[k]] = @ + 1] ELSE gcs)
      /\ req[t].op = "gc" => map' = map
      /\ req[t].op # "gc" => map' = [map EXCEPT ![k] = None]
  BY <1>2 DEF FinishRemove, Goto, Effect, TypeOK, history
<1> HIDE DEF r
<1>9. /\ M \in LeafRecord /\ M.lock = t /\ M.inserting = L.inserting /\ M.vinsert = L.vinsert
      /\ M.perm = r /\ M.modstate = L.modstate /\ M.ikey = L.ikey /\ M.keylenx = L.keylenx
      /\ M.ksuf = L.ksuf /\ M.lv = L.lv
  BY <1>2, <1>7 DEF LeafRecord, PermOk
<1> HIDE DEF M
<1>10. Writes(t, "unlock", x, x.n, M)
  <2>1. loc' = [loc EXCEPT ![t] = x]
    BY <1>2, <1>8, Stays
  <2>2. gcs' \in [TopIkey -> Nat]
    <3>1. x.n # Top => IkeyOf[k] \in TopIkey
      BY <1>6 DEF TopIkey
    <3>2. gcs \in [TopIkey -> Nat]
      BY <1>2 DEF TypeOK
    <3>3. QED
      BY <1>8, <3>1, <3>2
  <2>3. map' \in [Key -> Val \cup {None}]
    BY <1>2, <1>8 DEF TypeOK
  <2>4. QED
    BY <1>2, <1>8, <1>9, <2>1, <2>2, <2>3 DEF Writes, PCs
<1>11. /\ pc'[t] = "unlock" /\ loc'[t] = x /\ req'[t] = req[t] /\ N(t)' = M /\ (Get(t)' <=> Get(t))
       /\ leaf'[x.n] = M /\ (\A z \in LeafId \ {x.n} : leaf'[z] = leaf[z]) /\ \A u \in Thread \ {t} : Same(u)
  BY <1>10, Written
<1>12. Calm(x.n)
  <2>1. leaf[x.n] = L /\ leaf'[x.n] = M
    BY <1>2, <1>11
  <2>2. M.keylenx[p] = "layer" => leaf'[M.lv[p]].modstate = "deleted_layer"
    BY <1>4, <1>6, <1>9, <1>11, TopIsLeaf
  <2>3. Grow(L.perm, M.perm, M.modstate)
    BY <1>4, <1>7, <1>9 DEF Grow
  <2>4. \A q \in InUse(L.perm) : q \in InUse(M.perm) \/ q = p
    BY <1>7, <1>9
  <2>5. M.modstate = L.modstate /\ M.modstate # "insert" /\ \A q \in Slot : SameSlot(L, M, q)
    BY <1>4, <1>9 DEF SameSlot
  <2>6. Harmless(x.n)
    BY <2>1, <2>2, <2>3, <2>4, <2>5 DEF Harmless, SameSlot
  <2>7. QED
    BY <1>2, <1>9, <2>1, <2>6 DEF Calm
<1>13. Sorted(M) /\ PermOk(M.perm)
  <2>1. M.ikey = L.ikey /\ M.perm = Remove(L.perm, x.i)
    BY <1>9 DEF r
  <2>2. Sorted(M)
    BY ONLY <1>2, <1>3, <1>5, <2>1, RemovedSorted
  <2>3. QED
    BY <1>7, <1>9, <2>2
<1>14. \A z \in LayerLeaf \ fresh, a \in TopIkey : Linked(z, a) => Linked(z, a)' \/ leaf[z].modstate = "deleted_layer"
  <2>1. CASE x.n = Top
    <3>1. SUFFICES ASSUME NEW z \in LayerLeaf \ fresh, NEW a \in TopIkey, Linked(z, a),
                          leaf[z].modstate # "deleted_layer"
                   PROVE  Linked(z, a)'
      OBVIOUS
    <3>2. leaf[Top] = L /\ leaf'[Top] = M
      BY <1>2, <1>11, <2>1
    <3>3. PICK q \in InUse(L.perm) : L.ikey[q] = a /\ L.lv[q] = z
      BY <3>1, <3>2 DEF Linked
    <3>4. q # p
      BY <1>4, <1>6, <3>1, <3>3
    <3>5. QED
      BY <1>7, <1>9, <3>2, <3>3, <3>4 DEF Linked
  <2>2. CASE x.n # Top
    BY <1>11, <2>2, TopIsLeaf DEF Linked
  <2>3. QED
    BY <2>1, <2>2
<1>15. TopSlots'
  <2>1. CASE x.n = Top
    <3>1. \A q : ~ Turning(q)
      BY <1>1, <2>1, OnlyTurning
    <3>2. leaf'[Top] = M /\ leaf[Top] = L /\ fresh' = fresh
      BY <1>2, <1>8, <1>11, <2>1
    <3>3. M.modstate # "deleted_layer"
      BY <1>2, <1>9
    <3>4. \A q \in InUse(M.perm) :
            \/ M.keylenx[q] = "layer" /\ M.lv[q] \in LayerLeaf \ fresh
            \/ M.keylenx[q] = "ksuf" /\ M.ksuf[q] \in Key /\ M.lv[q] \in Val
      BY <1>3, <1>7, <1>9, <3>1, <3>2 DEF TopSlots
    <3>5. \A q, s \in InUse(M.perm) : M.lv[q] \in LayerLeaf /\ M.lv[q] = M.lv[s] => q = s
      BY <1>3, <1>7, <1>9, <3>2 DEF TopSlots
    <3>6. QED
      BY <3>2, <3>3, <3>4, <3>5 DEF TopSlots
  <2>2. CASE x.n # Top
    BY <1>1, <1>8, <1>11, <2>2, TopIsLeaf, TopSlotsKept
  <2>3. QED
    BY <2>1, <2>2
<1>16. LayerSlots'
  <2>1. CASE x.n = Top
    BY <1>11, <2>1, TopIsLeaf, LayerSlotsKept
  <2>2. CASE x.n # Top
    BY <1>2, <1>3, <1>7, <1>9, <1>11, <2>2, TopIsLeaf DEF LayerSlots
  <2>3. QED
    BY <2>1, <2>2
\* Nothing leads to the layer that was taken out, if it was one.
<1>17. Dead'
  <2>1. SUFFICES ASSUME NEW y \in LayerLeaf, leaf'[y].modstate = "deleted_layer"
                 PROVE  /\ leaf'[y].perm.size = 0
                        /\ \/ \E u \in Thread : pc'[u] \in Removing /\ loc'[u].lv = y
                           \/ \A q \in InUse(leaf'[Top].perm) : leaf'[Top].lv[q] # y
    BY DEF Dead
  <2>2. y # x.n /\ leaf'[y] = leaf[y]
    BY <1>2, <1>9, <1>11, <2>1, TopIsLeaf
  <2>3. /\ leaf[y].perm.size = 0
        /\ \/ \E u \in Thread : pc[u] \in Removing /\ loc[u].lv = y
           \/ \A q \in InUse(leaf[Top].perm) : leaf[Top].lv[q] # y
    BY <1>3, <2>1, <2>2 DEF Dead
  <2>4. InUse(leaf'[Top].perm) \subseteq InUse(leaf[Top].perm) /\ leaf'[Top].lv = leaf[Top].lv
    <3>1. CASE x.n = Top
      BY <1>2, <1>7, <1>9, <1>11, <3>1
    <3>2. CASE x.n # Top
      BY <1>11, <3>2, TopIsLeaf
    <3>3. QED
      BY <3>1, <3>2
  <2>5. CASE \A q \in InUse(leaf[Top].perm) : leaf[Top].lv[q] # y
    BY <2>2, <2>3, <2>4, <2>5
  <2>6. CASE \E u \in Thread \ {t} : pc[u] \in Removing /\ loc[u].lv = y
    BY <1>11, <2>2, <2>3, <2>6 DEF Same
  <2>7. CASE x.lv = y
    <3>1. req[t].op = "gc"
      BY <1>4, <2>7, ValuesAssumption
    <3>2. leaf[Top] = L /\ leaf'[Top] = M /\ L.lv[p] = y
      BY <1>2, <1>4, <1>6, <1>11, <2>7, <3>1
    <3>3. \A q \in InUse(L.perm) : L.lv[q] = y => q = p
      BY <1>3, <1>5, <3>2 DEF TopSlots
    <3>4. \A q \in InUse(leaf'[Top].perm) : leaf'[Top].lv[q] # y
      BY <1>7, <1>9, <3>2, <3>3
    <3>5. QED
      BY <2>2, <2>3, <3>4
  <2>8. QED
    BY <2>3, <2>5, <2>6, <2>7
<1>18. Content'
  <2>1. CASE req[t].op = "gc"
    <3>1. leaf'[Top] = M /\ leaf[Top] = L /\ \A z \in LayerLeaf : leaf'[z] = leaf[z]
      BY <1>2, <1>6, <1>11, <2>1, TopIsLeaf
    <3>2. \A y \in LayerLeaf : \A j, v : LayerHolds(leaf', y, j, v) <=> LayerHolds(leaf, y, j, v)
      BY <3>1 DEF LayerHolds
    <3>3. \A q, j, v : SlotHolds(leaf', q, j, v) <=> SlotHolds(leaf, q, j, v)
      BY <1>9, <3>1, <3>2 DEF SlotHolds
    <3>4. L.lv[p] = x.lv /\ x.lv \in LayerLeaf /\ InUse(leaf[x.lv].perm) = {}
      <4>1. leaf[x.lv].perm.size = 0
        BY <1>3, <1>4, <2>1 DEF Dead
      <4>2. QED
        BY <1>4, <2>1, <4>1 DEF InUse
    <3>5. \A j, v : ~ SlotHolds(leaf, p, j, v)
      BY <3>1, <3>4 DEF SlotHolds, LayerHolds
    <3>6. \A j, v : Holds(leaf', j, v) <=> Holds(leaf, j, v)
      BY <1>7, <1>9, <3>1, <3>3, <3>5 DEF Holds
    <3>7. map' = map
      BY <1>8, <2>1
    <3>8. QED
      BY <3>6, <3>7, ContentSame
  <2>2. CASE req[t].op # "gc"
    <3>1. /\ LeafInv /\ t \in Thread /\ k \in Key /\ map'[k] = None /\ \A j \in Key \ {k} : map'[j] = map[j]
      BY <1>6, <1>8, <2>2, MapAt
    <3>2. Mine(t, p) /\ L.lv[p] \in Val /\ \A v \in Val : None # v
      BY <1>4, <1>6, <2>2, ValuesAssumption
    <3>3. \A q \in InUse(r) : L.ikey[q] # L.ikey[p]
      BY <1>2, <1>3, <1>5, <1>7, OneSlot
    <3>4. CASE x.n = Top
      <4>1. /\ leaf'[Top] = M /\ leaf[Top] = L /\ \A z \in LayerLeaf : leaf'[z] = leaf[z]
        BY <1>2, <1>11, <3>4, TopIsLeaf
      <4>2. L.ksuf[p] = k /\ L.ikey[p] = IkeyOf[k]
        BY <1>5, <2>2, <3>2, <3>4 DEF Mine, KaIkey
      <4>3. \A v \in Val : Holds(leaf', k, v) <=> None = v
        BY <1>9, <3>2, <3>3, <4>1, <4>2 DEF Holds, SlotHolds
      <4>4. /\ \A q : q # p => (q \in InUse(leaf'[Top].perm) <=> q \in InUse(leaf[Top].perm))
            /\ \A q \in InUse(leaf[Top].perm) \ {p} : SameSlot(leaf[Top], leaf'[Top], q)
            /\ p \in InUse(leaf[Top].perm) => leaf[Top].lv[p] \in Val /\ leaf[Top].ksuf[p] = k
            /\ p \in InUse(leaf'[Top].perm) => leaf'[Top].lv[p] \in Val /\ leaf'[Top].ksuf[p] = k
        BY <1>7, <1>9, <3>2, <4>1, <4>2 DEF SameSlot
      <4>5. QED
        BY ONLY <3>1, <4>1, <4>3, <4>4, ContentInTop
    <3>5. CASE x.n # Top
      <4>1. x.n \in LayerLeaf /\ Linked(x.n, IkeyOf[k]) /\ KaIkey(t) = k
        BY <1>1, <3>5, InLayer
      <4>2. \A v \in Val : LayerHolds(leaf', x.n, k, v) <=> None = v
        BY <1>5, <1>9, <1>11, <3>2, <3>3, <4>1 DEF LayerHolds
      <4>3. \A j \in Key \ {k}, v \in Val : LayerHolds(leaf', x.n, j, v) <=> LayerHolds(leaf, x.n, j, v)
        BY <1>2, <1>5, <1>7, <1>9, <1>11, <4>1 DEF LayerHolds
      <4>4. QED
        BY ONLY <1>11, <3>1, <4>1, <4>2, <4>3, ContentInLayer
    <3>6. QED
      BY <3>4, <3>5
  <2>3. QED
    BY <2>1, <2>2
<1>19. Own(t)'
  <2>1. Placed(t)'
    BY <1>2, <1>10, <1>12, <1>13, <1>14, ChangeStep
  <2>2. Held(t)'
    BY <1>2, <1>9, <1>11 DEF Held, Assigning, Layering, Removing
  <2>3. QED
    BY <1>2, <1>9, <1>11, <2>1, <2>2, GoesOn DEF Working, Layering
<1>20. QED
  BY <1>2, <1>10, <1>12, <1>13, <1>14, <1>15, <1>16, <1>17, <1>18, <1>19, ChangeStep

-----------------------------------------------------------------------------
(* The theorems *)

LEMMA InitHolds == Init => LeafInv
<1> SUFFICES ASSUME Init PROVE LeafInv
  OBVIOUS
<1>1. /\ leaf = [x \in LeafId |-> EmptyLeaf] /\ fresh = LayerLeaf /\ map = [k \in Key |-> None]
      /\ pc = [t \in Thread |-> "idle"] /\ loc = [t \in Thread |-> NoLocals]
  BY DEF Init
<1>2. PermOk(MakeEmpty) /\ MakeEmpty.size = 0 /\ InUse(MakeEmpty) = {}
  BY NewPerms
<1>3. NoLocals \in Locals /\ PermOk(NoLocals.perm) /\ PermOk(NoLocals.perm0) /\ NoLocals.n = Top
  <2>1. MakeEmpty \in Perm
    BY <1>2 DEF PermOk
  <2> HIDE DEF MakeEmpty
  <2>2. QED
    BY <1>2, <2>1, TopIsLeaf, WAssumption DEF NoLocals, Locals, LeafValue
<1>4. Types
  <2>1. leaf \in [LeafId -> LeafRecord]
    BY <1>1, EmptyLeafFields
  <2>2. pc \in [Thread -> PCs] /\ loc \in [Thread -> Locals]
    BY <1>1, <1>3 DEF PCs
  <2>3. TypeOK
    BY <1>1, <2>1, <2>2 DEF Init, TypeOK
  <2>4. QED
    BY <1>1, <1>3, <2>3 DEF Types
<1>5. \A x \in LeafId : leaf[x].perm = MakeEmpty /\ leaf[x].modstate = "insert" /\ \A q \in Slot : leaf[x].keylenx[q] = "short"
  BY <1>1, EmptyLeafFields
<1>6. Leaves
  BY <1>1, <1>2, <1>5, TopIsLeaf DEF Leaves, Sorted
<1>7. TopSlots /\ LayerSlots /\ Dead
  BY <1>2, <1>5, TopIsLeaf DEF TopSlots, LayerSlots, Dead
<1>8. Content
  BY <1>1, <1>2, <1>5, TopIsLeaf, ValuesAssumption DEF Content, Holds
<1>9. \A t \in Thread : Own(t)
  <2>1. SUFFICES ASSUME NEW t \in Thread PROVE Own(t)
    OBVIOUS
  <2>2. pc[t] = "idle" /\ loc[t].n = Top
    BY <1>1, <1>3
  <2>3. QED
    BY <2>2 DEF Own, Locks, Placed, Held, Looked, Holding, Working, Optimistic, Assigning, Layering, Removing
<1>10. QED
  BY <1>4, <1>6, <1>7, <1>8, <1>9 DEF LeafInv, Store

LEMMA StepKeeps ==
  ASSUME LeafInv, NEW t \in Thread, Step(t)
  PROVE  LeafInv' /\ Gentle(t)
<1>1. CASE Stable(t)
  BY <1>1, StableStep
<1>2. CASE ReadPerm(t)
  BY <1>2, ReadPermStep
<1>3. CASE ReadPermAgain(t)
  BY <1>3, ReadPermAgainStep
<1>4. CASE Search(t)
  BY <1>4, SearchStep
<1>5. CASE ReadLv(t)
  BY <1>5, ReadLvStep
<1>6. CASE ReadKeylenx(t)
  BY <1>6, ReadKeylenxStep
<1>7. CASE ReadKsuf(t)
  BY <1>7, ReadKsufStep
<1>8. CASE Descend(t)
  BY <1>8, DescendStep
<1>9. CASE GetEnd(t)
  BY <1>9, GetEndStep
<1>10. CASE Lock(t)
  BY <1>10, LockStep
<1>11. CASE Retry(t)
  BY <1>11, RetryStep
<1>12. CASE Found(t)
  BY <1>12, FoundStep
<1>13. CASE Update(t)
  BY <1>13, UpdateStep
<1>14. CASE Insert(t)
  BY <1>14, InsertStep
<1>15. CASE AssignLv(t)
  BY <1>15, AssignLvStep
<1>16. CASE AssignIkey(t)
  BY <1>16, AssignIkeyStep
<1>17. CASE AssignKeylenx(t)
  BY <1>17, AssignKeylenxStep
<1>18. CASE AssignKsuf(t)
  BY <1>18, AssignKsufStep
<1>19. CASE AssignValue(t)
  BY <1>19, AssignValueStep
<1>20. CASE FinishInsert(t)
  BY <1>20, FinishInsertStep
<1>21. CASE MakeNewLayer(t)
  BY <1>21, MakeNewLayerStep
<1>22. CASE SetLayer(t)
  BY <1>22, SetLayerStep
<1>23. CASE SetLayerKeylenx(t)
  BY <1>23, SetLayerKeylenxStep
<1>24. CASE UnlockUpper(t)
  BY <1>24, UnlockUpperStep
<1>25. CASE MarkRemove(t)
  BY <1>25, MarkRemoveStep
<1>26. CASE FinishRemove(t)
  BY <1>26, FinishRemoveStep
<1>27. CASE GcLayer(t)
  BY <1>27, GcLayerStep
<1>28. CASE GcLock(t)
  BY <1>28, GcLockStep
<1>29. CASE Unlock(t)
  BY <1>29, UnlockStep
<1>30. CASE Return(t)
  BY <1>30, ReturnStep
<1>31. QED
  BY <1>1, <1>2, <1>3, <1>4, <1>5, <1>6, <1>7, <1>8, <1>9, <1>10, <1>11, <1>12, <1>13, <1>14, <1>15, <1>16,
     <1>17, <1>18, <1>19, <1>20, <1>21, <1>22, <1>23, <1>24, <1>25, <1>26, <1>27, <1>28, <1>29, <1>30 DEF Step

LEMMA StutterKeeps ==
  ASSUME LeafInv, UNCHANGED vars
  PROVE  LeafInv'
<1>1. /\ leaf' = leaf /\ fresh' = fresh /\ gcs' = gcs /\ pc' = pc /\ loc' = loc /\ req' = req
      /\ ops' = ops /\ map' = map
  BY DEF vars, shared, history
<1>2. Types'
  BY <1>1 DEF LeafInv, Types, TypeOK
<1>3. Store'
  <2>1. Leaves' /\ LayerSlots' /\ Content'
    BY <1>1 DEF LeafInv, Store, Leaves, Sorted, LayerSlots, Content
  <2>2. TopSlots' /\ Dead'
    BY <1>1 DEF LeafInv, Store, TopSlots, Turning, Dead
  <2>3. QED
    BY <2>1, <2>2 DEF Store
<1>4. ASSUME NEW t \in Thread PROVE Own(t)'
  <2>1. Gentle(t) /\ Same(t)
    <3>1. \A x \in LeafId : Calm(x)
      BY <1>1, SameIsCalm DEF LeafInv, Types
    <3>2. QED
      BY <1>1, <3>1 DEF Gentle, Same, Linked
  <2>2. Own(t)
    BY DEF LeafInv
  <2>3. Locks(t)' /\ Placed(t)'
    BY <1>1, <2>2 DEF Own, Locks, Placed, Linked, N, Get
  <2>4. Held(t)'
    BY <1>1, <2>1, <2>2, HeldKept DEF Own, N
  <2>5. Looked(t)'
    <3>1. Types /\ Calm(loc[t].n) /\ Looked(t)
      BY <2>1, <2>2, <1>1, SameIsCalm, LocalTypes DEF LeafInv, Types, Own
    <3>2. QED
      BY <1>1, <1>2, <2>1, <3>1, LookedKept
  <2>6. QED
    BY <2>3, <2>4, <2>5 DEF Own
<1>5. QED
  BY <1>2, <1>3, <1>4 DEF LeafInv

LEMMA NextKeeps == LeafInv /\ [Next]_vars => LeafInv'
<1> SUFFICES ASSUME LeafInv, [Next]_vars PROVE LeafInv'
  OBVIOUS
<1>1. ASSUME NEW t \in Thread, Step(t) PROVE LeafInv'
  BY <1>1, StepKeeps
<1>2. ASSUME NEW t \in Thread, RunCallback(t) PROVE LeafInv'
  BY <1>2, RunCallbackStep
<1>3. ASSUME NEW t \in Thread, NEW r \in Request, Call(t, r) PROVE LeafInv'
  BY <1>3, CallStep
<1>4. CASE UNCHANGED vars
  BY <1>4, StutterKeeps
<1>5. QED
  BY <1>1, <1>2, <1>3, <1>4 DEF Next

\* LeafInv at every moment of every run: the locks, the slots and what a reader
\* or writer knows of them (masstree_get.hh, masstree_insert.hh, masstree_remove.hh).
THEOREM LeafInvariant == Spec => []LeafInv
BY InitHolds, NextKeeps, PTL DEF Spec

\* Every variable has its type: no position, slot or leaf is out of range.
THEOREM LeafTypeOK == Spec => []TypeOK
<1>1. LeafInv => TypeOK
  BY DEF LeafInv, Types
<1>2. QED
  BY <1>1, LeafInvariant, PTL

LEMMA ReadsHold == LeafInv => ReadsAreWhole
<1> SUFFICES ASSUME LeafInv, NEW t \in Thread, pc[t] = "check", ~ HasChanged(t)
             PROVE  /\ loc[t].match = 1 => loc[t].lv \in Val
                    /\ loc[t].match = -1 => loc[t].lv \in LayerLeaf \ fresh
  BY DEF ReadsAreWhole
<1>1. Looked(t) /\ loc[t].match \in {-1, 0, 1} /\ N(t) = leaf[loc[t].n]
  BY Parts, LocalTypes
<1>2. /\ \A q \in Seen(t) : Whole(loc[t].n, q)
      /\ loc[t].p = -1 => loc[t].match = 0
      /\ loc[t].p # -1 => KnowsSlot(t)
  BY <1>1 DEF Looked, Optimistic
<1>3. CASE loc[t].p = -1
  BY <1>2, <1>3
<1>4. CASE loc[t].p # -1
  <2>1. Whole(loc[t].n, loc[t].p)
    BY <1>2, <1>4 DEF Seen
  <2>2. /\ \/ N(t).keylenx[loc[t].p] = "layer" /\ loc[t].lv = N(t).lv[loc[t].p]
           \/ N(t).keylenx[loc[t].p] # "layer" /\ loc[t].lv \in Val
        /\ loc[t].match = 1 => N(t).keylenx[loc[t].p] # "layer"
        /\ loc[t].match = -1 => N(t).keylenx[loc[t].p] = "layer"
    BY <1>2, <1>4 DEF KnowsSlot
  <2>3. QED
    BY <1>1, <2>1, <2>2 DEF Whole
<1>5. QED
  BY <1>3, <1>4

\* A thread that finds the version unchanged takes values for values and layers
\* for layers, whatever else happened to the leaf (stable/has_changed in
\* get.hh, find_unlocked; the two stores of make_new_layer).
THEOREM ReadsWhole == Spec => []ReadsAreWhole
BY LeafInvariant, ReadsHold, PTL

LEMMA ContentHolds == LeafInv => ContentIsMap
<1> SUFFICES ASSUME LeafInv, NEW k \in Key PROVE Lookup(k) = map[k]
  BY DEF ContentIsMap
<1> DEFINE ps == In(Top, IkeyOf[k])
           p == CHOOSE q \in ps : TRUE
           w == leaf[Top].lv[p]
           qs == In(w, k)
<1>1. /\ TypeOK /\ TopSlots /\ LayerSlots /\ Content /\ Leaves
  BY DEF LeafInv, Store, Types
<1>2. map[k] \in Val \cup {None} /\ \A v \in Val : Holds(leaf, k, v) <=> map[k] = v
  BY <1>1 DEF TypeOK, Content
<1>3. leaf[Top] \in LeafRecord /\ PermOk(leaf[Top].perm) /\ Sorted(leaf[Top])
  BY TopFacts
<1>4. CASE ps = {}
  <2>1. \A v \in Val : ~ Holds(leaf, k, v)
    BY <1>4 DEF In, Holds, SlotHolds
  <2>2. map[k] = None
    BY <1>2, <2>1
  <2>3. QED
    BY <1>4, <2>2 DEF Lookup
<1>5. CASE ps # {}
  <2>1. p \in ps
    BY <1>5
  <2>2. p \in InUse(leaf[Top].perm) /\ leaf[Top].ikey[p] = IkeyOf[k]
    BY <2>1 DEF In
  <2>3. w \in LayerLeaf \ fresh \/ (w \in Val /\ leaf[Top].ksuf[p] \in Key)
    BY <1>1, <2>2 DEF TopSlots
  <2>4. CASE w \in LayerLeaf
    <3>1. \A v \in Val : LayerHolds(leaf, w, k, v) <=> map[k] = v
      BY <1>2, <1>3, <2>2, <2>4, LayerDecides
    <3>2. Lookup(k) = IF qs = {} THEN None ELSE leaf[w].lv[CHOOSE q \in qs : TRUE]
      BY <1>5, <2>4 DEF Lookup
    <3>3. CASE qs = {}
      <4>1. \A v \in Val : ~ LayerHolds(leaf, w, k, v)
        BY <3>3 DEF In, LayerHolds
      <4>2. QED
        BY <1>2, <3>1, <3>2, <3>3, <4>1
    <3>4. CASE qs # {}
      <4> DEFINE q == CHOOSE r \in qs : TRUE
      <4>1. q \in qs
        BY <3>4
      <4>2. q \in InUse(leaf[w].perm) /\ leaf[w].ikey[q] = k
        BY <4>1 DEF In
      <4>3. leaf[w].lv[q] \in Val
        BY <1>1, <2>4, <4>2 DEF LayerSlots
      <4>4. LayerHolds(leaf, w, k, leaf[w].lv[q])
        BY <4>2 DEF LayerHolds
      <4>5. map[k] = leaf[w].lv[q]
        BY <3>1, <4>3, <4>4
      <4>6. QED
        BY <3>2, <3>4, <4>5
    <3>5. QED
      BY <3>3, <3>4
  <2>5. CASE w \notin LayerLeaf
    <3>1. Lookup(k) = IF leaf[Top].ksuf[p] = k THEN w ELSE None
      BY <1>5, <2>5 DEF Lookup
    <3>2. \A v \in Val : map[k] = v <=> leaf[Top].ksuf[p] = k /\ w = v
      <4>1. SUFFICES ASSUME NEW v \in Val PROVE map[k] = v <=> leaf[Top].ksuf[p] = k /\ w = v
        OBVIOUS
      <4>2. Holds(leaf, k, v) <=> SlotHolds(leaf, p, k, v)
        BY <1>3, <2>2, OneSlotHolds
      <4>3. SlotHolds(leaf, p, k, v) <=> leaf[Top].ksuf[p] = k /\ w = v
        BY <2>2, <2>5 DEF SlotHolds
      <4>4. QED
        BY <1>2, <4>2, <4>3
    <3>3. w \in Val
      BY <2>3, <2>5
    <3>4. QED
      BY <1>2, <3>1, <3>2, <3>3
  <2>6. QED
    BY <2>4, <2>5
<1>6. QED
  BY <1>4, <1>5

\* The leaves hold the table at every moment: a lookup that runs alone finds
\* what the last put or remove of the key left (finish_insert, make_new_layer,
\* finish_remove and gc_layer, between any two of their stores).
THEOREM TableIsKept == Spec => []ContentIsMap
BY LeafInvariant, ContentHolds, PTL

\* A layer whose root gc_layer has marked deleted never gets a key again, and
\* Top leads to it only until the slot is taken out.
THEOREM DeadStayEmpty == Spec => []DeadLayersAreEmpty
<1>1. LeafInv => DeadLayersAreEmpty
  BY DEF LeafInv, Store, Dead, DeadLayersAreEmpty, Removing
<1>2. QED
  BY <1>1, LeafInvariant, PTL
=============================================================================
