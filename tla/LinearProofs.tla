---------------------------- MODULE LinearProofs ----------------------------
(***************************************************************************)
(* Leaf implements KeyMap, for any number of keys, slots, leaves and       *)
(* threads: a put or remove takes effect at one store, and what a get      *)
(* answers the key was mapped to at some moment of the call.  LinInv says  *)
(* what a get that reads without a lock may conclude from what it has read *)
(* so far; LeafInv says that it is told if that is out of date.            *)
(***************************************************************************)
EXTENDS LeafProofs

Answers == Val \cup {None, "missing", "found"}
HistoryTypes == ans \in [Thread -> SUBSET Answers] /\ res \in [Thread -> Answers \cup {Idle}]

\* t serves a get, or a put or remove.
Reading(t) == req[t] # Idle /\ Get(t)
Changing(t) == req[t] # Idle /\ req[t].op \in {"put", "remove"}

\* What slot q of t's leaf, with value or layer w, says to a get: the value is an
\* answer, or that there is none is one, or the layer is where to look for one.
Says(t, q, w) ==
  LET L == N(t) k == req[t].key IN
  /\ L.keylenx[q] = "short" \/ (L.keylenx[q] = "ksuf" /\ L.ksuf[q] = k) => w \in ans[t]
  /\ L.keylenx[q] = "ksuf" /\ L.ksuf[q] # k => None \in ans[t]
  /\ L.keylenx[q] = "layer" => Linked(w, IkeyOf[k]) \/ None \in ans[t]

\* A get has the current value among its answers, and is in a leaf where the key
\* belongs, or belonged until it was gone.
Begun(t) ==
  /\ map[req[t].key] \in ans[t]
  /\ loc[t].n # Top => Linked(loc[t].n, IkeyOf[req[t].key]) \/ None \in ans[t]

\* What a get knows if the version is the same: if none of the slots it searches
\* has the key's ikey then "missing" is an answer, and if one has ...
SearchTells(t) ==
  LET q == loc[t].perm L == N(t) IN
  /\ \A i, j \in 0 .. q.size - 1 : i < j => L.ikey[At(q, i)] < L.ikey[At(q, j)]
  /\ (\A s \in InUse(q) : L.ikey[s] # KaIkey(t)) => None \in ans[t]
  /\ \A s \in InUse(q) : L.ikey[s] = KaIkey(t) => Says(t, s, L.lv[s])

\* ... then what is in it, before and after the get has read its value.
SlotTells(t) ==
  LET x == loc[t] L == N(t) IN
  /\ pc[t] = "search" => SearchTells(t)
  /\ pc[t] = "lv" => Says(t, x.p, L.lv[x.p])
  /\ pc[t] \in {"keylenx", "ksuf"} => Says(t, x.p, x.lv)
  /\ pc[t] = "check" => IF x.p = -1 THEN None \in ans[t] ELSE Says(t, x.p, x.lv)

Gets(t) ==
  Reading(t) /\ pc[t] # "done" => Begun(t) /\ (HasChanged(t) \/ SlotTells(t))

\* A put or remove takes effect once; it answers whether the key was there.
Changes(t) ==
  /\ pc[t] = "idle" <=> req[t] = Idle
  /\ req[t] = Idle \/ req[t].op = "gc" => ans[t] = {} /\ res[t] = Idle
  /\ pc[t] = "done" /\ req[t].op # "gc" <=> res[t] # Idle
  /\ Changing(t) =>
       /\ pc[t] \notin {"unlock", "done"} => ans[t] = {}
       /\ pc[t] = "unlock" => ans[t] = {IF loc[t].match = 1 THEN "found" ELSE "missing"}
       /\ pc[t] \in {"update"} \cup Removing => loc[t].match = 1
       /\ pc[t] \in {"insert", "layer"} \cup Assigning \cup Layering => loc[t].match = 0

LinInv == LeafInv /\ HistoryTypes /\ \A t \in Thread : Gets(t) /\ Changes(t)

-----------------------------------------------------------------------------
(* What the slots in use say of a key *)

\* lf is the leaves, w the value of key k or None.
Maps(lf, k, w) ==
  /\ lf[Top] \in LeafRecord /\ PermOk(lf[Top].perm) /\ Sorted(lf[Top])
  /\ w \in Val \cup {None}
  /\ \A v \in Val : Holds(lf, k, v) <=> w = v

\* Linked, for the leaves lf.
LinkedIn(lf, y, a) == \E q \in InUse(lf[Top].perm) : lf[Top].ikey[q] = a /\ lf[Top].lv[q] = y

\* No slot of Top has the key's ikey.
LEMMA NoSlotSays ==
  ASSUME NEW lf, NEW k \in Key, NEW w, Maps(lf, k, w),
         \A q \in InUse(lf[Top].perm) : lf[Top].ikey[q] # IkeyOf[k]
  PROVE  w = None
<1>1. \A v \in Val : ~ Holds(lf, k, v)
  BY DEF Holds, SlotHolds
<1>2. QED
  BY <1>1 DEF Maps

\* A slot of Top with the key's ikey has a value.
LEMMA TopSays ==
  ASSUME NEW lf, NEW k \in Key, NEW w, Maps(lf, k, w), NEW q \in InUse(lf[Top].perm),
         lf[Top].ikey[q] = IkeyOf[k], lf[Top].lv[q] \in Val
  PROVE  w = IF lf[Top].ksuf[q] = k THEN lf[Top].lv[q] ELSE None
<1>1. \A v \in Val : Holds(lf, k, v) <=> SlotHolds(lf, q, k, v)
  BY OneSlotHolds DEF Maps
<1>2. lf[Top].lv[q] \notin LayerLeaf
  BY ValuesAssumption
<1>3. \A v \in Val : Holds(lf, k, v) <=> lf[Top].ksuf[q] = k /\ lf[Top].lv[q] = v
  BY <1>1, <1>2 DEF SlotHolds
<1>4. QED
  BY <1>3 DEF Maps

\* A slot of Top with the key's ikey has a layer, with leaf y.
LEMMA LayerSays ==
  ASSUME NEW lf, NEW k \in Key, NEW w, Maps(lf, k, w), NEW y \in LayerLeaf, LinkedIn(lf, y, IkeyOf[k])
  PROVE  /\ \A r \in InUse(lf[y].perm) : lf[y].ikey[r] = k /\ lf[y].lv[r] \in Val => w = lf[y].lv[r]
         /\ (\A r \in InUse(lf[y].perm) : lf[y].ikey[r] # k) => w = None
<1>1. \A v \in Val : Holds(lf, k, v) <=> LayerHolds(lf, y, k, v)
  BY LayerDecides DEF Maps, LinkedIn
<1>2. QED
  BY <1>1 DEF LayerHolds, Maps

LEMMA MapIs ==
  ASSUME LeafInv, NEW k \in Key
  PROVE  Maps(leaf, k, map[k])
<1>1. Content /\ map[k] \in Val \cup {None}
  BY DEF LeafInv, Types, TypeOK, Store
<1>2. QED
  BY <1>1, TopFacts DEF Content, Maps

\* The same after a step.
LEMMA MapIsNext ==
  ASSUME LeafInv', NEW k \in Key
  PROVE  Maps(leaf', k, map'[k])
<1>1. /\ leaf'[Top] \in LeafRecord /\ PermOk(leaf'[Top].perm) /\ Sorted(leaf'[Top])
      /\ map'[k] \in Val \cup {None}
      /\ \A v \in Val : Holds(leaf', k, v) <=> map'[k] = v
  <2>1. TypeOK' /\ Leaves' /\ Content'
    BY DEF LeafInv, Types, Store
  <2>2. QED
    BY <2>1, TopIsLeaf DEF TypeOK, Leaves, Content
<1>2. QED
  BY <1>1 DEF Maps

\* A layer that is removed is empty, so its keys are gone.
LEMMA DeadSays ==
  ASSUME LeafInv, NEW k \in Key, NEW y \in LayerLeaf, leaf[y].modstate = "deleted_layer",
         Linked(y, IkeyOf[k])
  PROVE  map[k] = None
<1>1. leaf[y].perm.size = 0
  BY DEF LeafInv, Store, Dead
<1>2. InUse(leaf[y].perm) = {}
  BY <1>1 DEF InUse
<1>3. LinkedIn(leaf, y, IkeyOf[k])
  BY DEF Linked, LinkedIn
<1>4. QED
  BY <1>2, <1>3, MapIs, LayerSays

\* A get of k is at leaf x of the leaves lf, where k belongs; a is the ikey there.
Belongs(lf, x, a, k) ==
  /\ x \in LeafId /\ k \in Key /\ a = (IF x = Top THEN IkeyOf[k] ELSE k)
  /\ x # Top => LinkedIn(lf, x, IkeyOf[k])

\* No slot has the ikey.
LEMMA AbsentTells ==
  ASSUME NEW lf, NEW x, NEW a, NEW k, NEW w, Belongs(lf, x, a, k), Maps(lf, k, w),
         \A q \in InUse(lf[x].perm) : lf[x].ikey[q] # a
  PROVE  w = None
<1>1. CASE x = Top
  BY <1>1, NoSlotSays DEF Belongs
<1>2. CASE x # Top
  <2>1. x \in LayerLeaf /\ k \in Key /\ a = k
    BY <1>2 DEF Belongs, LeafId
  <2>2. LinkedIn(lf, x, IkeyOf[k])
    BY <1>2 DEF Belongs
  <2>3. \A r \in InUse(lf[x].perm) : lf[x].ikey[r] # k
    BY <2>1
  <2>4. QED
    BY <2>1, <2>2, <2>3, LayerSays
<1>3. QED
  BY <1>1, <1>2

\* Slot q has it.
LEMMA PresentTells ==
  ASSUME NEW lf, NEW x, NEW a, NEW k, NEW w, Belongs(lf, x, a, k), Maps(lf, k, w),
         NEW q \in InUse(lf[x].perm), lf[x].ikey[q] = a,
         \/ x = Top /\ lf[x].keylenx[q] = "layer"
         \/ x = Top /\ lf[x].keylenx[q] = "ksuf" /\ lf[x].lv[q] \in Val
         \/ x # Top /\ lf[x].keylenx[q] = "short" /\ lf[x].lv[q] \in Val
  PROVE  /\ lf[x].keylenx[q] = "short" \/ (lf[x].keylenx[q] = "ksuf" /\ lf[x].ksuf[q] = k) => w = lf[x].lv[q]
         /\ lf[x].keylenx[q] = "ksuf" /\ lf[x].ksuf[q] # k => w = None
         /\ lf[x].keylenx[q] = "layer" => LinkedIn(lf, lf[x].lv[q], IkeyOf[k])
<1>1. k \in Key /\ a = (IF x = Top THEN IkeyOf[k] ELSE k)
  BY DEF Belongs
<1>2. CASE x = Top /\ lf[x].keylenx[q] = "layer"
  BY <1>1, <1>2 DEF LinkedIn
<1>3. CASE x = Top /\ lf[x].keylenx[q] = "ksuf" /\ lf[x].lv[q] \in Val
  <2>1. w = IF lf[Top].ksuf[q] = k THEN lf[Top].lv[q] ELSE None
    BY <1>1, <1>3, TopSays
  <2>2. QED
    BY <1>3, <2>1
<1>4. CASE x # Top /\ lf[x].keylenx[q] = "short" /\ lf[x].lv[q] \in Val
  <2>1. x \in LayerLeaf
    BY <1>4 DEF Belongs, LeafId
  <2>2. LinkedIn(lf, x, IkeyOf[k])
    BY <1>4 DEF Belongs
  <2>3. \A s \in InUse(lf[x].perm) : lf[x].ikey[s] = k /\ lf[x].lv[s] \in Val => w = lf[x].lv[s]
    BY <1>1, <2>1, <2>2, LayerSays
  <2>4. lf[x].ikey[q] = k
    BY <1>1, <1>4
  <2>5. QED
    BY <1>4, <2>3, <2>4
<1>5. QED
  BY <1>2, <1>3, <1>4

\* After a step, a get that has the current value among its answers knows what the
\* slots in use of its leaf say.
LEMMA GetIsAt ==
  ASSUME LeafInv', NEW t \in Thread, Reading(t)', pc'[t] \notin {"idle", "done"}, Begun(t)'
  PROVE  /\ req'[t].key \in Key /\ N(t)' = leaf'[loc'[t].n]
         /\ Maps(leaf', req'[t].key, map'[req'[t].key]) /\ map'[req'[t].key] \in ans'[t]
         /\ Belongs(leaf', loc'[t].n, KaIkey(t)', req'[t].key) \/ (loc'[t].n # Top /\ None \in ans'[t])
         /\ loc'[t].n # Top => leaf'[loc'[t].n].modstate = "deleted_layer" \/ Linked(loc[t].n, IkeyOf[req[t].key])'
<1>1. TypeOK' /\ Placed(t)' /\ Locks(t)'
  BY DEF LeafInv, Types, Own
<1>2. req'[t] \in Request \cup GcRequest /\ req'[t].op = "get" /\ loc'[t].n \in LeafId
  BY <1>1, LocalFields DEF Locks, Reading, Get, TypeOK
<1>3. req'[t].key \in Key /\ KaIkey(t)' = (IF loc'[t].n = Top THEN IkeyOf[req'[t].key] ELSE req'[t].key)
  BY <1>2, Requests DEF KaIkey
<1>4. Maps(leaf', req'[t].key, map'[req'[t].key])
  BY <1>3, MapIsNext
<1>5. /\ map'[req'[t].key] \in ans'[t] /\ N(t)' = leaf'[loc'[t].n]
      /\ loc'[t].n # Top => Linked(loc[t].n, IkeyOf[req[t].key])' \/ None \in ans'[t]
  BY DEF Begun, N
<1>6. Belongs(leaf', loc'[t].n, KaIkey(t)', req'[t].key) \/ (loc'[t].n # Top /\ None \in ans'[t])
  BY <1>2, <1>3, <1>5 DEF Belongs, Linked, LinkedIn
<1>7. loc'[t].n # Top => leaf'[loc'[t].n].modstate = "deleted_layer" \/ Linked(loc[t].n, IkeyOf[req[t].key])'
  BY <1>1 DEF Placed
<1>8. QED
  BY <1>3, <1>4, <1>5, <1>6, <1>7

LEMMA AbsentNow ==
  ASSUME LeafInv', NEW t \in Thread, Reading(t)', pc'[t] \notin {"idle", "done"}, Begun(t)',
         \A q \in InUse(leaf'[loc'[t].n].perm) : leaf'[loc'[t].n].ikey[q] # KaIkey(t)'
  PROVE  None \in ans'[t]
BY GetIsAt, AbsentTells

LEMMA PresentNow ==
  ASSUME LeafInv', NEW t \in Thread, Reading(t)', pc'[t] \notin {"idle", "done"}, Begun(t)',
         NEW q \in InUse(leaf'[loc'[t].n].perm), leaf'[loc'[t].n].ikey[q] = KaIkey(t)', Whole(loc[t].n, q)'
  PROVE  Says(t, q, N(t).lv[q])'
<1> DEFINE x == loc'[t].n
           k == req'[t].key
<1>1. /\ k \in Key /\ N(t)' = leaf'[x] /\ map'[k] \in ans'[t] /\ Maps(leaf', k, map'[k])
      /\ Belongs(leaf', x, KaIkey(t)', k) \/ (x # Top /\ None \in ans'[t])
      /\ x # Top => leaf'[x].modstate = "deleted_layer" \/ Linked(loc[t].n, IkeyOf[req[t].key])'
      /\ x \in LeafId
  <2>1. x \in LeafId
    BY LocalFields DEF LeafInv, Types, TypeOK
  <2>2. QED
    BY <2>1, GetIsAt
<1>2. Belongs(leaf', x, KaIkey(t)', k)
  <2>1. SUFFICES ASSUME x # Top PROVE Belongs(leaf', x, KaIkey(t)', k)
    BY <1>1
  <2>2. leaf'[x].modstate # "deleted_layer"
    <3>1. Dead' /\ x \in LayerLeaf
      BY <1>1, <2>1 DEF LeafInv, Store, LeafId
    <3>2. leaf'[x].perm.size # 0
      BY DEF InUse
    <3>3. QED
      BY <3>1, <3>2 DEF Dead
  <2>3. KaIkey(t)' = k
    BY <2>1 DEF KaIkey, Reading, Get
  <2>4. Linked(loc[t].n, IkeyOf[req[t].key])'
    BY <1>1, <2>1, <2>2
  <2>5. QED
    BY <1>1, <2>1, <2>3, <2>4 DEF Belongs, Linked, LinkedIn
<1>3. \/ x = Top /\ leaf'[x].keylenx[q] = "layer"
      \/ x = Top /\ leaf'[x].keylenx[q] = "ksuf" /\ leaf'[x].lv[q] \in Val
      \/ x # Top /\ leaf'[x].keylenx[q] = "short" /\ leaf'[x].lv[q] \in Val
  BY DEF Whole
<1>4. QED
  BY <1>1, <1>2, <1>3, PresentTells DEF Says, Linked, LinkedIn

-----------------------------------------------------------------------------
(* What a step of one thread leaves to the others *)

\* The answers of u after a step of another thread: a get may have one more, the
\* new value of its key.
Grows(u) ==
  /\ res'[u] = res[u]
  /\ ~ Reading(u) => ans'[u] = ans[u]
  /\ Reading(u) => /\ ans[u] \subseteq ans'[u]
                   /\ map[req[u].key] \in ans[u] => map'[req[u].key] \in ans'[u]

\* A get of thread u that is at work.
LEMMA GetAtWork ==
  ASSUME LinInv, NEW u \in Thread, Reading(u), pc[u] # "done"
  PROVE  /\ LeafInv /\ Types /\ TypeOK /\ TopSlots /\ Placed(u) /\ Looked(u) /\ Changes(u) /\ Gets(u)
         /\ pc[u] # "idle" /\ req[u].op = "get" /\ Begun(u) /\ Get(u)
         /\ req[u].key \in Key /\ IkeyOf[req[u].key] \in TopIkey /\ KaIkey(u) \in Nat
         /\ loc[u].n \in LeafId \ fresh /\ N(u) = leaf[loc[u].n]
         /\ N(u).vinsert \in Nat /\ N(u).inserting \in BOOLEAN /\ InUse(N(u).perm) \subseteq Slot
         /\ loc[u].v \in Nat /\ PermOk(loc[u].perm) /\ loc[u].perm.size \in 0 .. W
<1>1. LeafInv /\ Changes(u) /\ Gets(u) /\ req[u] # Idle /\ Get(u)
  BY DEF LinInv, Reading
<1>2. /\ Types /\ TypeOK /\ TopSlots /\ Placed(u) /\ Looked(u) /\ Locks(u) /\ PermOk(N(u).perm) /\ PermOk(loc[u].perm)
  BY <1>1, Parts
<1>3. pc[u] # "idle" /\ req[u].op = "get" /\ Begun(u)
  BY <1>1 DEF Changes, Get, Gets
<1>4. req[u] \in Request \cup GcRequest
  BY <1>2, <1>3 DEF Locks
<1>5. /\ loc[u].n \in LeafId /\ N(u) = leaf[loc[u].n] /\ loc[u].v \in Nat /\ loc[u].perm.size \in 0 .. W
  BY <1>2, LocalTypes
<1>6. N(u).vinsert \in Nat /\ N(u).inserting \in BOOLEAN /\ InUse(N(u).perm) \subseteq Slot
  BY <1>2, <1>5, LeafTypes, Positions
<1>7. loc[u].n \notin fresh
  BY <1>2, TopIsLeaf DEF Placed, TypeOK
<1>8. req[u].key \in Key /\ IkeyOf[req[u].key] \in TopIkey /\ KaIkey(u) \in Nat
  BY <1>3, <1>4, Requests, KaIsIkey
<1>9. QED
  BY <1>1, <1>2, <1>3, <1>5, <1>6, <1>7, <1>8

\* A layer leads to the key, or did until the key was gone.
LEMMA LinkSays ==
  ASSUME LinInv, NEW t \in Thread, Gentle(t), NEW u \in Thread \ {t}, Reading(u), pc[u] # "done", Grows(u),
         NEW y \in LayerLeaf, Linked(y, IkeyOf[req[u].key]) \/ None \in ans[u]
  PROVE  Linked(y, IkeyOf[req[u].key])' \/ None \in ans'[u]
<1> DEFINE a == IkeyOf[req[u].key]
<1>1. LeafInv /\ TopSlots /\ Begun(u) /\ req[u].key \in Key /\ a \in TopIkey
  BY GetAtWork
<1>2. ans[u] \subseteq ans'[u] /\ map[req[u].key] \in ans[u] /\ req'[u] = req[u]
  BY <1>1 DEF Grows, Begun, Gentle, Same
<1>3. CASE Linked(y, a)
  <2>1. y \notin fresh
    BY <1>1, <1>3, ValuesAssumption DEF Linked, TopSlots
  <2>2. \/ \E q \in InUse(leaf'[Top].perm) : leaf'[Top].ikey[q] = a /\ leaf'[Top].lv[q] = y
        \/ leaf[y].modstate = "deleted_layer"
    BY <1>1, <1>3, <2>1 DEF Gentle, Linked
  <2>3. leaf[y].modstate = "deleted_layer" => map[req[u].key] = None
    BY <1>1, <1>3, DeadSays
  <2>4. QED
    BY <1>2, <2>2, <2>3 DEF Linked
<1>4. QED
  BY <1>2, <1>3

\* What a slot says it says after the step, if its length and suffix are the same.
LEMMA SaysKept ==
  ASSUME LinInv, NEW t \in Thread, Gentle(t), NEW u \in Thread \ {t}, Reading(u), pc[u] # "done", Grows(u),
         NEW q, NEW w, Says(u, q, w), N(u).keylenx[q] = "layer" => w \in LayerLeaf,
         N(u)'.keylenx[q] = N(u).keylenx[q], N(u)'.ksuf[q] = N(u).ksuf[q]
  PROVE  /\ N(u)'.keylenx[q] = "short" \/ (N(u)'.keylenx[q] = "ksuf" /\ N(u)'.ksuf[q] = req'[u].key) => w \in ans'[u]
         /\ N(u)'.keylenx[q] = "ksuf" /\ N(u)'.ksuf[q] # req'[u].key => None \in ans'[u]
         /\ N(u)'.keylenx[q] = "layer" => Linked(w, IkeyOf[req[u].key])' \/ None \in ans'[u]
<1>1. ans[u] \subseteq ans'[u] /\ req'[u] = req[u]
  BY DEF Grows, Gentle, Same
<1>2. N(u).keylenx[q] = "layer" => Linked(w, IkeyOf[req[u].key])' \/ None \in ans'[u]
  <2>1. SUFFICES ASSUME N(u).keylenx[q] = "layer" PROVE Linked(w, IkeyOf[req[u].key])' \/ None \in ans'[u]
    OBVIOUS
  <2>2. w \in LayerLeaf /\ (Linked(w, IkeyOf[req[u].key]) \/ None \in ans[u])
    BY <2>1 DEF Says
  <2>3. QED
    BY <2>2, LinkSays
<1>3. QED
  BY <1>1, <1>2 DEF Says

LEMMA HarmlessSlot ==
  ASSUME NEW x, Harmless(x), NEW q \in Slot, q \in InUse(leaf[x].perm) \/ leaf[x].modstate # "insert"
  PROVE  /\ leaf'[x].ikey[q] = leaf[x].ikey[q] /\ leaf'[x].keylenx[q] = leaf[x].keylenx[q]
         /\ leaf'[x].ksuf[q] = leaf[x].ksuf[q]
         /\ leaf'[x].lv[q] = leaf[x].lv[q] \/ q \in InUse(leaf'[x].perm)
BY DEF Harmless

\* What u, at work on a get, knows of the slots that it has seen if it does not
\* notice a change.
LEMMA Unnoticed ==
  ASSUME LinInv, LeafInv', NEW t \in Thread, Gentle(t), NEW u \in Thread \ {t}, Reading(u),
         pc[u] \in {"search", "lv", "keylenx", "ksuf", "check"}, ~ HasChanged(u)'
  PROVE  /\ ~ HasChanged(u) /\ SlotTells(u) /\ N(u)' = leaf'[loc[u].n] /\ KaIkey(u)' = KaIkey(u)
         /\ \A q \in Seen(u) :
              /\ q \in Slot /\ Whole(loc[u].n, q) /\ Whole(loc[u].n, q)'
              /\ SameSlot(N(u), N(u)', q) \/ q \in InUse(N(u)'.perm)
              /\ N(u)'.ikey[q] = N(u).ikey[q]
              /\ N(u)'.keylenx[q] = N(u).keylenx[q] /\ N(u)'.ksuf[q] = N(u).ksuf[q]
<1> DEFINE x == loc[u]
           L == leaf[x.n]
           M == leaf'[x.n]
<1>1. /\ LeafInv /\ TypeOK /\ Looked(u) /\ Gets(u) /\ x.n \in LeafId \ fresh /\ N(u) = L /\ L.vinsert \in Nat
      /\ L.inserting \in BOOLEAN /\ InUse(L.perm) \subseteq Slot /\ PermOk(x.perm) /\ x.v \in Nat
      /\ pc[u] \in Optimistic /\ pc[u] # "done"
  BY GetAtWork DEF Optimistic
<1>2. /\ pc'[u] = pc[u] /\ loc'[u] = x /\ req'[u] = req[u] /\ N(u)' = M /\ KaIkey(u)' = KaIkey(u)
      /\ Seen(u)' = Seen(u)
      /\ (HasChanged(u) <=> L.inserting \/ L.vinsert # x.v)
      /\ (HasChanged(u)' <=> M.inserting \/ M.vinsert # x.v)
  BY DEF Gentle, Same, N, KaIkey, Get, Seen, HasChanged
<1>3. Calm(x.n) /\ M \in LeafRecord
  BY <1>1 DEF Gentle, LeafInv, Types, TypeOK
<1>4. M.vinsert \in Nat /\ M.inserting \in BOOLEAN
  BY <1>3, LeafFields
<1>5. ~ HasChanged(u) /\ Harmless(x.n)
  <2>1. x.v <= L.vinsert
    BY <1>1 DEF Looked
  <2>2. ~ M.inserting /\ M.vinsert = x.v
    BY <1>2
  <2>3. M.vinsert = L.vinsert /\ ~ (M.vinsert > L.vinsert)
    BY <1>1, <1>3, <1>4, <2>1, <2>2 DEF Calm
  <2>4. ~ L.inserting /\ Harmless(x.n)
    BY <1>3, <2>2, <2>3 DEF Calm
  <2>5. QED
    BY <1>2, <2>2, <2>3, <2>4
<1>6. SlotTells(u)
  BY <1>1, <1>5 DEF Gets
<1>7. ASSUME NEW q \in Seen(u) PROVE q \in Slot /\ Whole(x.n, q) /\ Whole(loc[u].n, q)'
  <2>1. Whole(x.n, q)
    BY <1>1, <1>5 DEF Looked
  <2>2. Whole(loc[u].n, q)'
    BY <1>1, <1>2 DEF LeafInv, Own, Looked
  <2>3. InUse(x.perm) \subseteq Slot /\ x.p \in Slot \cup {-1}
    BY <1>1, Positions, LocalTypes
  <2>4. q \in Slot
    BY <2>3 DEF Seen
  <2>5. QED
    BY <2>1, <2>2, <2>4
<1>8. ASSUME NEW q \in Seen(u)
      PROVE  /\ SameSlot(L, M, q) \/ q \in InUse(M.perm)
             /\ M.ikey[q] = L.ikey[q] /\ M.keylenx[q] = L.keylenx[q] /\ M.ksuf[q] = L.ksuf[q]
  <2>1. q \in Slot /\ (q \in InUse(L.perm) \/ L.modstate # "insert")
    BY <1>7 DEF Whole
  <2>2. /\ M.ikey[q] = L.ikey[q] /\ M.keylenx[q] = L.keylenx[q] /\ M.ksuf[q] = L.ksuf[q]
        /\ M.lv[q] = L.lv[q] \/ q \in InUse(M.perm)
    BY ONLY <1>5, <2>1, HarmlessSlot
  <2>3. QED
    BY <2>2 DEF SameSlot
<1>9. QED
  BY <1>1, <1>2, <1>5, <1>6, <1>7, <1>8

\* What the slots say of a get of u is still true.
LEMMA GetsKept ==
  ASSUME LinInv, LeafInv', NEW t \in Thread, Gentle(t), NEW u \in Thread \ {t}, Grows(u)
  PROVE  Gets(u)'
<1>1. pc'[u] = pc[u] /\ loc'[u] = loc[u] /\ req'[u] = req[u] /\ (Get(u)' <=> Get(u)) /\ (Reading(u)' <=> Reading(u))
  BY DEF Gentle, Same, Get, Reading
<1>2. SUFFICES ASSUME Reading(u), pc[u] # "done" PROVE Begun(u)' /\ (HasChanged(u)' \/ SlotTells(u)')
  BY <1>1 DEF Gets
<1> DEFINE x == loc[u]
<1>3. /\ Begun(u) /\ Placed(u) /\ pc[u] # "idle" /\ Looked(u) /\ x.n \in LeafId
      /\ ans[u] \subseteq ans'[u] /\ x.perm.size \in 0 .. W /\ PermOk(x.perm)
  BY <1>2, GetAtWork DEF Grows
<1>4. Begun(u)'
  <2>1. map'[req[u].key] \in ans'[u]
    BY <1>2, <1>3 DEF Begun, Grows
  <2>2. x.n # Top => Linked(x.n, IkeyOf[req[u].key])' \/ None \in ans'[u]
    <3>1. SUFFICES ASSUME x.n # Top PROVE Linked(x.n, IkeyOf[req[u].key])' \/ None \in ans'[u]
      OBVIOUS
    <3>2. x.n \in LayerLeaf /\ (Linked(x.n, IkeyOf[req[u].key]) \/ None \in ans[u])
      BY <1>3, <3>1 DEF Begun, LeafId
    <3>3. \A y \in LayerLeaf : Linked(y, IkeyOf[req[u].key]) \/ None \in ans[u]
                               => (\E q \in InUse(leaf'[Top].perm) : leaf'[Top].ikey[q] = IkeyOf[req[u].key] /\ leaf'[Top].lv[q] = y)
                                    \/ None \in ans'[u]
      BY <1>1, <1>2, LinkSays DEF Linked
    <3>4. QED
      BY <1>1, <3>2, <3>3 DEF Linked
  <2>3. QED
    BY <1>1, <2>1, <2>2 DEF Begun, Linked
<1>5. SUFFICES ASSUME ~ HasChanged(u)', pc[u] \in {"search", "lv", "keylenx", "ksuf", "check"} PROVE SlotTells(u)'
  BY <1>1, <1>4 DEF SlotTells
<1>6. /\ ~ HasChanged(u) /\ SlotTells(u) /\ N(u)' = leaf'[x.n] /\ KaIkey(u)' = KaIkey(u)
      /\ \A q \in Seen(u) :
           /\ q \in Slot /\ Whole(x.n, q) /\ Whole(loc[u].n, q)'
           /\ SameSlot(N(u), N(u)', q) \/ q \in InUse(N(u)'.perm)
           /\ N(u)'.ikey[q] = N(u).ikey[q]
           /\ N(u)'.keylenx[q] = N(u).keylenx[q] /\ N(u)'.ksuf[q] = N(u).ksuf[q]
  BY <1>2, <1>5, Unnoticed
\* The slot says the same, or is in use and says what is so now.
<1>7. ASSUME NEW q \in Seen(u), N(u).ikey[q] = KaIkey(u), Says(u, q, N(u).lv[q])
      PROVE  Says(u, q, N(u).lv[q])'
  <2>1. CASE q \in InUse(N(u)'.perm)
    <3>1. /\ q \in InUse(leaf'[loc'[u].n].perm) /\ leaf'[loc'[u].n].ikey[q] = KaIkey(u)' /\ Whole(loc[u].n, q)'
          /\ Reading(u)' /\ pc'[u] \notin {"idle", "done"}
      BY <1>1, <1>2, <1>3, <1>6, <1>7, <2>1
    <3>2. QED
      BY <1>4, <3>1, PresentNow
  <2>2. CASE SameSlot(N(u), N(u)', q)
    <3>1. N(u).keylenx[q] = "layer" => N(u).lv[q] \in LayerLeaf
      BY <1>6 DEF Whole, N
    <3>2. N(u)'.keylenx[q] = N(u).keylenx[q] /\ N(u)'.ksuf[q] = N(u).ksuf[q] /\ N(u)'.lv[q] = N(u).lv[q]
      BY <2>2 DEF SameSlot
    <3>3. \A w : Says(u, q, w) /\ (N(u).keylenx[q] = "layer" => w \in LayerLeaf) =>
            /\ N(u)'.keylenx[q] = "short" \/ (N(u)'.keylenx[q] = "ksuf" /\ N(u)'.ksuf[q] = req'[u].key) => w \in ans'[u]
            /\ N(u)'.keylenx[q] = "ksuf" /\ N(u)'.ksuf[q] # req'[u].key => None \in ans'[u]
            /\ N(u)'.keylenx[q] = "layer" =>
                 \/ \E r \in InUse(leaf'[Top].perm) : leaf'[Top].ikey[r] = IkeyOf[req'[u].key] /\ leaf'[Top].lv[r] = w
                 \/ None \in ans'[u]
      BY <1>1, <1>2, <3>2, SaysKept DEF Linked
    <3>4. QED
      BY <1>7, <3>1, <3>2, <3>3 DEF Says, Linked
  <2>3. QED
    BY <1>6, <2>1, <2>2
<1>8. ASSUME pc[u] = "search" PROVE SearchTells(u)'
  <2>1. Seen(u) = InUse(x.perm)
    BY <1>8 DEF Seen
  <2>2. SearchTells(u)
    BY <1>6, <1>8 DEF SlotTells
  <2>3. \A i \in 0 .. x.perm.size - 1 : N(u)'.ikey[At(x.perm, i)] = N(u).ikey[At(x.perm, i)]
    BY <1>6, <2>1 DEF InUse
  <2>4. \A i, j \in 0 .. x.perm.size - 1 : i < j => N(u)'.ikey[At(x.perm, i)] < N(u)'.ikey[At(x.perm, j)]
    BY <2>2, <2>3 DEF SearchTells
  <2>5. (\A s \in InUse(x.perm) : N(u)'.ikey[s] # KaIkey(u)) => None \in ans'[u]
    BY <1>3, <1>6, <2>1, <2>2 DEF SearchTells
  <2>6. \A s \in InUse(x.perm) : N(u)'.ikey[s] = KaIkey(u) => Says(u, s, N(u).lv[s])'
    BY <1>6, <1>7, <2>1, <2>2 DEF SearchTells
  <2>7. QED
    BY <1>1, <1>6, <2>4, <2>5, <2>6 DEF SearchTells
<1>9. ASSUME pc[u] # "search", x.p # -1
      PROVE  /\ x.p \in Seen(u) /\ N(u).ikey[x.p] = KaIkey(u)
             /\ pc[u] # "lv" /\ N(u).keylenx[x.p] = "layer" => x.lv \in LayerLeaf
  <2>1. x.p \in Seen(u) /\ KnowsSlot(u)
    BY <1>3, <1>5, <1>6, <1>9 DEF Seen, Looked, Optimistic
  <2>2. QED
    BY <1>6, <2>1 DEF KnowsSlot, Whole, N
<1>10. ASSUME pc[u] = "lv" PROVE Says(u, x.p, N(u).lv[x.p])'
  <2>1. x.p # -1 /\ Says(u, x.p, N(u).lv[x.p])
    BY <1>3, <1>6, <1>10 DEF SlotTells, Looked, Optimistic
  <2>2. QED
    <3>1. x.p \in Seen(u) /\ N(u).ikey[x.p] = KaIkey(u)
      BY <1>9, <1>10, <2>1
    <3>2. \A q \in Seen(u) : N(u).ikey[q] = KaIkey(u) /\ Says(u, q, N(u).lv[q]) => Says(u, q, N(u).lv[q])'
      BY <1>7
    <3>3. QED
      BY <1>1, <2>1, <3>1, <3>2 DEF Says
<1>11. ASSUME pc[u] \in {"keylenx", "ksuf", "check"}, x.p # -1 PROVE Says(u, x.p, x.lv)'
  <2>1. Says(u, x.p, x.lv)
    BY <1>6, <1>11 DEF SlotTells
  <2>2. /\ N(u).keylenx[x.p] = "layer" => x.lv \in LayerLeaf
        /\ N(u)'.keylenx[x.p] = N(u).keylenx[x.p] /\ N(u)'.ksuf[x.p] = N(u).ksuf[x.p]
    BY <1>6, <1>9, <1>11
  <2>3. /\ N(u)'.keylenx[x.p] = "short" \/ (N(u)'.keylenx[x.p] = "ksuf" /\ N(u)'.ksuf[x.p] = req'[u].key) => x.lv \in ans'[u]
        /\ N(u)'.keylenx[x.p] = "ksuf" /\ N(u)'.ksuf[x.p] # req'[u].key => None \in ans'[u]
        /\ N(u)'.keylenx[x.p] = "layer" =>
             \/ \E r \in InUse(leaf'[Top].perm) : leaf'[Top].ikey[r] = IkeyOf[req'[u].key] /\ leaf'[Top].lv[r] = x.lv
             \/ None \in ans'[u]
    BY <1>1, <1>2, <2>1, <2>2, SaysKept DEF Linked
  <2>4. QED
    BY <1>1, <2>3 DEF Says, Linked
<1>12. QED
  <2>1. pc[u] = "check" /\ x.p = -1 => None \in ans'[u]
    BY <1>3, <1>6 DEF SlotTells
  <2>2. pc[u] \in {"keylenx", "ksuf"} => x.p # -1
    BY <1>3 DEF Looked, Optimistic
  <2>3. QED
    BY <1>1, <1>8, <1>10, <1>11, <2>1, <2>2 DEF SlotTells

-----------------------------------------------------------------------------
(* What a step does to the history, and which step of KeyMap it is *)

\* A step of t that is one of KeyMap, or none, and leaves to the others what they know.
Meets(t) ==
  /\ HistoryTypes'
  /\ \A u \in Thread \ {t} : Grows(u)
  /\ [KM!Next]_KM!vars

\* Its own part of the invariant.
Fine(t) == Gets(t)' /\ Changes(t)'

\* Most steps are none.
LEMMA SilentStep ==
  ASSUME LinInv, NEW t \in Thread, UNCHANGED history, req' = req
  PROVE  Meets(t)
<1>1. map' = map /\ ans' = ans /\ res' = res /\ HistoryTypes
  BY DEF history, LinInv
<1>2. HistoryTypes'
  BY <1>1 DEF HistoryTypes
<1>3. \A u \in Thread \ {t} : Grows(u)
  BY <1>1 DEF Grows
<1>4. UNCHANGED KM!vars
  BY <1>1 DEF KM!vars
<1>5. QED
  BY <1>2, <1>3, <1>4 DEF Meets

\* A put or remove takes effect.
LEMMA EffectStep ==
  ASSUME LinInv, NEW t \in Thread, Changing(t), pc[t] \notin {"idle", "unlock", "done"}, req' = req,
         NEW w, w = (IF req[t].op = "put" THEN req[t].val ELSE None), Effect(t, req[t].key, w)
  PROVE  /\ Meets(t)
         /\ ans'[t] = {IF map[req[t].key] = None THEN "missing" ELSE "found"} /\ res' = res
<1> DEFINE k == req[t].key
           a == IF map[k] = None THEN "missing" ELSE "found"
<1>1. /\ map' = [map EXCEPT ![k] = w]
      /\ ans' = [u \in Thread |-> IF u = t THEN {a}
                                  ELSE IF req[u] # Idle /\ Get(u) /\ req[u].key = k THEN ans[u] \cup {w}
                                  ELSE ans[u]]
      /\ res' = res
  BY DEF Effect
<1>2. /\ HistoryTypes /\ ans[t] = {} /\ req[t].op \in {"put", "remove"} /\ req[t] # Idle
      /\ TypeOK /\ LeafInv
  BY DEF LinInv, Changes, Changing, LeafInv, Types
<1>3. req[t] \in Request /\ req[t] \notin GcRequest /\ k \in Key /\ w \in Val \cup {None}
  <2>1. req[t] \in Request \cup GcRequest
    BY <1>2 DEF TypeOK
  <2>2. \A r \in GcRequest : r.op = "gc"
    BY DEF GcRequest
  <2>3. QED
    BY <1>2, <2>1, <2>2, Requests
<1>4. HistoryTypes'
  BY <1>1, <1>2, <1>3 DEF HistoryTypes, Answers
<1>5. \A u \in Thread \ {t} : Grows(u)
  <2>1. SUFFICES ASSUME NEW u \in Thread \ {t} PROVE Grows(u)
    OBVIOUS
  <2>2. ans'[u] = IF Reading(u) /\ req[u].key = k THEN ans[u] \cup {w} ELSE ans[u]
    BY <1>1 DEF Reading
  <2>3. Reading(u) => req[u].key \in Key
    BY <1>2, Requests DEF Reading, Get, TypeOK
  <2>4. Reading(u) => map'[req[u].key] = IF req[u].key = k THEN w ELSE map[req[u].key]
    BY <1>1, <1>2, <1>3, <2>3 DEF TypeOK
  <2>5. QED
    BY <1>1, <2>2, <2>4 DEF Grows
<1>6. KM!Next
  <2> DEFINE kr == [u \in Thread |-> IF req[u] \in GcRequest THEN Idle ELSE req[u]]
  <2>1. /\ kr[t] = req[t] /\ kr' = kr
    BY <1>3
  <2>2. \A u \in Thread : kr[u] # Idle /\ kr[u].op = "get" /\ kr[u].key = k <=>
                            req[u] # Idle /\ Get(u) /\ req[u].key = k
    <3>1. \A r \in GcRequest : r.op = "gc"
      BY DEF GcRequest
    <3>2. QED
      BY <3>1 DEF Get
  <2>3. KM!Effect(t)
    <3>1. ans' = [u \in Thread |->
                    IF u = t THEN {a}
                    ELSE IF kr[u] # Idle /\ kr[u].op = "get" /\ kr[u].key = k THEN ans[u] \cup {w} ELSE ans[u]]
      BY <1>1, <2>2
    <3>2. /\ kr[t] # Idle /\ kr[t].op # "get" /\ ans[t] = {} /\ kr[t].key = k
          /\ w = (IF kr[t].op = "put" THEN kr[t].val ELSE None)
      BY <1>2, <2>1
    <3>3. QED
      BY <1>1, <2>1, <3>1, <3>2 DEF KM!Effect
  <2>4. QED
    BY <2>3 DEF KM!Next
<1>7. QED
  BY <1>1, <1>4, <1>5, <1>6 DEF Meets

\* The answer of a request is one that it may give.
LEMMA AnswerStep ==
  ASSUME LinInv, NEW t \in Thread, req[t] \in Request, pc[t] # "done", req' = req, NEW a \in ans[t], Answer(t, a)
  PROVE  Meets(t) /\ ans' = ans /\ res'[t] \in Answers
<1>1. req[t].op # "gc" /\ req[t] \notin GcRequest /\ req[t] # Idle
  BY IdleAssumption DEF Request, GcRequest
<1>2. map' = map /\ ans' = ans /\ res' = [res EXCEPT ![t] = a] /\ HistoryTypes
  BY <1>1 DEF Answer, LinInv
<1>3. res[t] = Idle
  BY <1>1 DEF LinInv, Changes
<1>4. HistoryTypes' /\ res'[t] \in Answers
  BY <1>2 DEF HistoryTypes
<1>5. \A u \in Thread \ {t} : Grows(u)
  BY <1>2 DEF Grows, HistoryTypes
<1>6. KM!Answer(t)
  <2> DEFINE kr == [u \in Thread |-> IF req[u] \in GcRequest THEN Idle ELSE req[u]]
  <2>1. kr[t] = req[t] /\ kr' = kr
    BY <1>1
  <2>2. QED
    BY <1>1, <1>2, <1>3, <2>1 DEF KM!Answer
<1>7. QED
  BY <1>2, <1>4, <1>5, <1>6 DEF Meets, KM!Next

-----------------------------------------------------------------------------
(* Steps of a thread that only looks *)

\* The history and the match are the same.
LEMMA ChangesKept ==
  ASSUME LinInv, NEW t \in Thread, ans'[t] = ans[t], res'[t] = res[t], req'[t] = req[t],
         pc[t] \notin {"idle", "unlock", "done"}, pc'[t] \notin {"idle", "done"},
         Changing(t) => /\ pc'[t] # "unlock"
                        /\ pc'[t] \in {"update"} \cup Removing => loc'[t].match = 1
                        /\ pc'[t] \in {"insert", "layer"} \cup Assigning \cup Layering => loc'[t].match = 0
  PROVE  Changes(t)'
<1>1. Changes(t)
  BY DEF LinInv
<1>2. Changing(t)' <=> Changing(t)
  BY DEF Changing
<1>3. QED
  BY <1>1, <1>2 DEF Changes

\* A thread that is no get has nothing to show as one.
LEMMA NoGet ==
  ASSUME NEW t \in Thread, ~ Get(t) \/ req[t] = Idle, req'[t] = req[t]
  PROVE  Gets(t)'
BY DEF Gets, Reading, Get

LEMMA BegunKept ==
  ASSUME NEW t \in Thread, Begun(t), leaf' = leaf, UNCHANGED history, req'[t] = req[t], loc'[t].n = loc[t].n
  PROVE  Begun(t)'
BY DEF Begun, Linked, history

\* What a slot says it goes on saying.
LEMMA SaysSame ==
  ASSUME NEW t \in Thread, leaf' = leaf, UNCHANGED history, req'[t] = req[t], loc'[t].n = loc[t].n
  PROVE  \A q, w : Says(t, q, w) =>
           /\ N(t)'.keylenx[q] = "short" \/ (N(t)'.keylenx[q] = "ksuf" /\ N(t)'.ksuf[q] = req'[t].key) => w \in ans'[t]
           /\ N(t)'.keylenx[q] = "ksuf" /\ N(t)'.ksuf[q] # req'[t].key => None \in ans'[t]
           /\ N(t)'.keylenx[q] = "layer" =>
                (\E r \in InUse(leaf'[Top].perm) : leaf'[Top].ikey[r] = IkeyOf[req'[t].key] /\ leaf'[Top].lv[r] = w)
                  \/ None \in ans'[t]
BY DEF Says, N, Linked, history

\* A step by which t goes from one of the looking positions to another.
LookingFrom == {"stable", "perm", "lower", "search", "lv", "keylenx", "ksuf", "check", "lock", "validate"}
LEMMA LookStep ==
  ASSUME LinInv, NEW t \in Thread, leaf' = leaf, UNCHANGED history, req' = req,
         pc[t] \in LookingFrom, pc'[t] \in LookingFrom,
         Reading(t) => Begun(t)' /\ (HasChanged(t)' \/ SlotTells(t)')
  PROVE  Meets(t) /\ Fine(t)
<1>1. Changes(t)'
  <2>1. pc'[t] \notin {"idle", "done", "unlock", "update", "insert", "layer"} \cup Removing \cup Assigning \cup Layering
    BY DEF LookingFrom, Removing, Assigning, Layering
  <2>2. ans'[t] = ans[t] /\ res'[t] = res[t]
    BY DEF history
  <2>3. pc[t] \notin {"idle", "unlock", "done"}
    BY DEF LookingFrom
  <2>4. QED
    BY <2>1, <2>2, <2>3, ChangesKept
<1>2. Gets(t)'
  BY DEF Gets, Reading, Get
<1>3. QED
  BY <1>1, <1>2, SilentStep DEF Fine

LEMMA StableMeets ==
  ASSUME LinInv, NEW t \in Thread, Stable(t)
  PROVE  Meets(t) /\ Fine(t)
<1>1. /\ pc[t] = "stable" /\ pc'[t] = "perm" /\ leaf' = leaf /\ UNCHANGED history /\ req' = req
      /\ loc'[t].n = loc[t].n
  BY DEF LinInv, LeafInv, Types, TypeOK, Stable, Goto, shared, NoLocals
<1>2. Reading(t) => Begun(t)'
  BY <1>1, GetAtWork, BegunKept
<1>3. SlotTells(t)'
  BY <1>1 DEF SlotTells
<1>4. QED
  BY <1>1, <1>2, <1>3, LookStep DEF LookingFrom

\* A get that has just read the permutation knows what the slots in use say.
LEMMA ReadPermMeets ==
  ASSUME LinInv, LeafInv', NEW t \in Thread, ReadPerm(t)
  PROVE  Meets(t) /\ Fine(t)
<1>1. /\ pc[t] = "perm" /\ leaf' = leaf /\ UNCHANGED history /\ req' = req /\ loc'[t].n = loc[t].n
      /\ IF Get(t) THEN pc'[t] = "search" /\ loc'[t].perm = N(t).perm ELSE pc'[t] = "lower"
  BY DEF LinInv, LeafInv, Types, TypeOK, ReadPerm, Goto, shared, Locals
<1>2. SUFFICES ASSUME Reading(t) PROVE Begun(t)' /\ (HasChanged(t)' \/ SlotTells(t)')
  BY <1>1, LookStep DEF LookingFrom
<1>3. Begun(t)'
  BY <1>1, <1>2, GetAtWork, BegunKept
<1>4. SUFFICES ASSUME ~ HasChanged(t)' PROVE SearchTells(t)'
  BY <1>1, <1>2, <1>3 DEF SlotTells, Reading
<1>5. /\ pc'[t] = "search" /\ loc'[t].perm = N(t).perm /\ N(t)' = N(t) /\ N(t)' = leaf'[loc'[t].n]
      /\ Reading(t)' /\ KaIkey(t)' = KaIkey(t) /\ Sorted(N(t))
  BY <1>1, <1>2, Parts DEF Reading, Get, N, KaIkey, LinInv
<1>6. \A i, j \in 0 .. N(t).perm.size - 1 : i < j => N(t).ikey[At(N(t).perm, i)] < N(t).ikey[At(N(t).perm, j)]
  BY <1>5 DEF Sorted
<1>7. (\A s \in InUse(N(t).perm) : N(t).ikey[s] # KaIkey(t)) => None \in ans'[t]
  BY <1>3, <1>5, AbsentNow
<1>8. ASSUME NEW s \in InUse(N(t).perm), N(t).ikey[s] = KaIkey(t) PROVE Says(t, s, N(t).lv[s])'
  <2>1. Looked(t)' /\ s \in Seen(t)'
    BY <1>5, <1>8 DEF LeafInv, Own, Seen
  <2>2. Whole(loc[t].n, s)'
    BY <1>4, <1>5, <2>1 DEF Looked, Optimistic
  <2>3. QED
    BY <1>3, <1>5, <1>8, <2>2, PresentNow
<1>9. QED
  BY <1>5, <1>6, <1>7, <1>8 DEF SearchTells

LEMMA ReadPermAgainMeets ==
  ASSUME LinInv, NEW t \in Thread, ReadPermAgain(t)
  PROVE  Meets(t) /\ Fine(t)
<1>1. /\ pc[t] = "lower" /\ pc'[t] = "search" /\ leaf' = leaf /\ UNCHANGED history /\ req' = req
  BY DEF LinInv, LeafInv, Types, TypeOK, ReadPermAgain, Goto, shared
<1>2. ~ Get(t)
  BY <1>1 DEF LinInv, LeafInv, Own, Locks
<1>3. QED
  BY <1>1, <1>2, LookStep DEF LookingFrom, Reading

\* The search ends at the slot with the key's ikey, or where it would be.
LEMMA SearchMeets ==
  ASSUME LinInv, NEW t \in Thread, Search(t)
  PROVE  Meets(t) /\ Fine(t)
<1> DEFINE x == loc[t]
           slot == At(x.perm, x.i)
           L == N(t)
           hit == x.i < x.perm.size /\ L.ikey[slot] = KaIkey(t) /\ req[t].op # "gc"
           more == x.i < x.perm.size /\ L.ikey[slot] < KaIkey(t)
           y == IF hit THEN [x EXCEPT !.p = slot, !.perm = MakeEmpty]
                ELSE IF more THEN [x EXCEPT !.i = @ + 1]
                ELSE [x EXCEPT !.perm = MakeEmpty]
<1>1. /\ pc[t] = "search" /\ leaf' = leaf /\ UNCHANGED history /\ req' = req
      /\ pc'[t] = (IF hit THEN "lv" ELSE IF more THEN "search" ELSE "check") /\ loc'[t] = y /\ x \in Locals
  BY DEF LinInv, LeafInv, Types, TypeOK, Search, Goto, shared
<1>2. /\ y.n = x.n /\ y.v = x.v /\ (hit => y.p = slot) /\ (~ hit /\ more => y.perm = x.perm)
      /\ (~ hit => y.p = x.p)
  BY <1>1 DEF Locals
<1> HIDE DEF y, hit, more
<1>3. SUFFICES ASSUME Reading(t) PROVE Begun(t)' /\ (HasChanged(t)' \/ SlotTells(t)')
  BY <1>1, LookStep DEF LookingFrom
<1>4. Begun(t)'
  BY <1>1, <1>2, <1>3, GetAtWork, BegunKept
<1>5. N(t)' = L /\ KaIkey(t)' = KaIkey(t) /\ (HasChanged(t)' <=> HasChanged(t)) /\ ans'[t] = ans[t]
  BY <1>1, <1>2 DEF N, KaIkey, HasChanged, history
<1>6. SUFFICES ASSUME ~ HasChanged(t) PROVE SlotTells(t)'
  BY <1>4, <1>5
<1>7. /\ SearchTells(t) /\ KnowsPerm(t) /\ x.p = -1 /\ x.i \in 0 .. x.perm.size /\ req[t].op = "get"
      /\ KaIkey(t) \in Nat /\ x.perm.size \in 0 .. W /\ PermOk(x.perm) /\ L = leaf[x.n] /\ x.n \in LeafId /\ TypeOK
  <2>1. Looked(t) /\ Gets(t) /\ req[t].op = "get"
    BY <1>1, <1>3, GetAtWork
  <2>2. SearchTells(t)
    BY <1>1, <1>3, <1>6, <2>1 DEF Gets, SlotTells
  <2>3. KnowsPerm(t) /\ x.p = -1 /\ x.i \in 0 .. x.perm.size
    BY <1>1, <1>6, <2>1 DEF Looked, Optimistic
  <2>4. QED
    BY <1>1, <1>3, <2>1, <2>2, <2>3, GetAtWork
<1>8. \A q, w : Says(t, q, w) =>
        /\ L.keylenx[q] = "short" \/ (L.keylenx[q] = "ksuf" /\ L.ksuf[q] = req'[t].key) => w \in ans'[t]
        /\ L.keylenx[q] = "ksuf" /\ L.ksuf[q] # req'[t].key => None \in ans'[t]
        /\ L.keylenx[q] = "layer" =>
             (\E r \in InUse(leaf'[Top].perm) : leaf'[Top].ikey[r] = IkeyOf[req'[t].key] /\ leaf'[Top].lv[r] = w)
               \/ None \in ans'[t]
  BY <1>1, <1>2, <1>5, SaysSame
<1>9. CASE hit
  <2>1. pc'[t] = "lv" /\ loc'[t].p = slot
    BY <1>1, <1>2, <1>9
  <2>2. slot \in InUse(x.perm) /\ L.ikey[slot] = KaIkey(t)
    BY <1>7, <1>9 DEF hit, InUse
  <2>3. Says(t, slot, L.lv[slot])
    BY <1>7, <2>2 DEF SearchTells
  <2>4. Says(t, loc[t].p, N(t).lv[loc[t].p])'
    BY <1>5, <1>8, <2>1, <2>3 DEF Says, Linked
  <2>5. QED
    BY <2>1, <2>4 DEF SlotTells
<1>10. CASE ~ hit /\ more
  <2>1. pc'[t] = "search" /\ loc'[t].perm = x.perm
    BY <1>1, <1>2, <1>10
  <2>2. \A s \in InUse(x.perm) : L.ikey[s] = KaIkey(t) => Says(t, s, L.lv[s])'
    <3>1. SUFFICES ASSUME NEW s \in InUse(x.perm), L.ikey[s] = KaIkey(t) PROVE Says(t, s, L.lv[s])'
      OBVIOUS
    <3>2. Says(t, s, L.lv[s])
      BY <1>7, <3>1 DEF SearchTells
    <3>3. QED
      BY <1>5, <1>8, <3>2 DEF Says, Linked
  <2>3. QED
    BY <1>5, <1>7, <2>1, <2>2 DEF SlotTells, SearchTells
<1>11. CASE ~ hit /\ ~ more
  <2>1. pc'[t] = "check" /\ loc'[t].p = -1
    BY <1>1, <1>2, <1>7, <1>11
  <2>2. \A j \in 0 .. x.perm.size - 1 : L.ikey[At(x.perm, j)] \in Nat
    <3>1. InUse(x.perm) \subseteq Slot
      BY <1>7, Positions
    <3>2. \A j \in 0 .. x.perm.size - 1 : At(x.perm, j) \in InUse(x.perm)
      BY DEF InUse
    <3>3. QED
      BY <1>7, <3>1, <3>2, LeafTypes
  <2>3. \A j \in 0 .. x.i - 1 : L.ikey[At(x.perm, j)] < KaIkey(t)
    BY <1>1, <1>7 DEF KnowsPerm
  <2>4. x.i < x.perm.size => KaIkey(t) < L.ikey[slot]
    <3>1. SUFFICES ASSUME x.i < x.perm.size PROVE KaIkey(t) < L.ikey[slot]
      OBVIOUS
    <3>2. L.ikey[slot] # KaIkey(t) /\ ~ (L.ikey[slot] < KaIkey(t))
      BY <1>7, <1>11, <3>1 DEF hit, more
    <3>3. L.ikey[slot] \in Nat
      BY <1>7, <2>2, <3>1
    <3>4. QED
      BY <1>7, <3>2, <3>3
  <2>5. \A j \in 0 .. x.perm.size - 1 : L.ikey[At(x.perm, j)] # KaIkey(t)
    <3>1. SUFFICES ASSUME NEW j \in 0 .. x.perm.size - 1 PROVE L.ikey[At(x.perm, j)] # KaIkey(t)
      OBVIOUS
    <3>2. CASE j < x.i
      BY <1>7, <2>2, <2>3, <3>2
    <3>3. CASE j = x.i
      BY <1>7, <2>2, <2>4, <3>3
    <3>4. CASE x.i < j
      <4>1. x.i \in 0 .. x.perm.size - 1 /\ L.ikey[slot] < L.ikey[At(x.perm, j)]
        BY <1>7, <3>4 DEF SearchTells
      <4>2. QED
        BY <1>7, <2>2, <2>4, <4>1
    <3>5. QED
      BY <1>7, <3>2, <3>3, <3>4
  <2>6. \A s \in InUse(x.perm) : L.ikey[s] # KaIkey(t)
    BY <2>5 DEF InUse
  <2>7. None \in ans'[t]
    BY <1>5, <1>7, <2>6 DEF SearchTells
  <2>8. QED
    BY <2>1, <2>7 DEF SlotTells
<1>12. QED
  BY <1>9, <1>10, <1>11

\* The slot that it has found says it of the value that it has read.
LEMMA SaysOfSlot ==
  ASSUME NEW t \in Thread, leaf' = leaf, UNCHANGED history, req' = req, loc'[t].n = loc[t].n,
         NEW q, NEW w, Says(t, q, w), loc'[t].p = q, loc'[t].lv = w
  PROVE  Says(t, loc[t].p, loc[t].lv)'
<1>1. N(t)' = N(t)
  BY DEF N
<1>2. /\ N(t).keylenx[q] = "short" \/ (N(t).keylenx[q] = "ksuf" /\ N(t).ksuf[q] = req'[t].key) => w \in ans'[t]
      /\ N(t).keylenx[q] = "ksuf" /\ N(t).ksuf[q] # req'[t].key => None \in ans'[t]
      /\ N(t).keylenx[q] = "layer" =>
           (\E r \in InUse(leaf'[Top].perm) : leaf'[Top].ikey[r] = IkeyOf[req'[t].key] /\ leaf'[Top].lv[r] = w)
             \/ None \in ans'[t]
  BY <1>1, SaysSame
<1>3. QED
  BY <1>1, <1>2 DEF Says, Linked

LEMMA ReadLvMeets ==
  ASSUME LinInv, NEW t \in Thread, ReadLv(t)
  PROVE  Meets(t) /\ Fine(t)
<1> DEFINE x == loc[t]
           L == N(t)
<1>1. /\ pc[t] = "lv" /\ pc'[t] = "keylenx" /\ leaf' = leaf /\ UNCHANGED history /\ req' = req
      /\ loc' = [loc EXCEPT ![t].lv = L.lv[x.p]] /\ x \in Locals
  BY DEF LinInv, LeafInv, Types, TypeOK, ReadLv, Goto, shared
<1>2. loc'[t].n = x.n /\ loc'[t].v = x.v /\ loc'[t].p = x.p /\ loc'[t].lv = L.lv[x.p]
  BY <1>1 DEF Locals, LinInv, LeafInv, Types, TypeOK
<1>3. SUFFICES ASSUME Reading(t) PROVE Begun(t)' /\ (HasChanged(t)' \/ SlotTells(t)')
  BY <1>1, LookStep DEF LookingFrom
<1>4. Begun(t)'
  BY <1>1, <1>2, <1>3, GetAtWork, BegunKept
<1>5. N(t)' = L /\ (HasChanged(t)' <=> HasChanged(t))
  BY <1>1, <1>2 DEF N, HasChanged
<1>6. SUFFICES ASSUME ~ HasChanged(t) PROVE SlotTells(t)'
  BY <1>4, <1>5
<1>7. Says(t, x.p, L.lv[x.p])
  BY <1>1, <1>3, <1>6, GetAtWork DEF Gets, SlotTells
<1>8. Says(t, loc[t].p, loc[t].lv)'
  BY <1>1, <1>2, <1>7, SaysOfSlot
<1>9. QED
  BY <1>1, <1>8 DEF SlotTells

\* From here on only the match is added to what the get has read.
LEMMA MatchMeets ==
  ASSUME LinInv, NEW t \in Thread, pc[t] \in {"keylenx", "ksuf"}, pc'[t] \in {"ksuf", "check"},
         leaf' = leaf, UNCHANGED history, req' = req, NEW m, loc' = [loc EXCEPT ![t].match = m]
  PROVE  Meets(t) /\ Fine(t)
<1> DEFINE x == loc[t]
           L == N(t)
<1>1. loc'[t].n = x.n /\ loc'[t].v = x.v /\ loc'[t].p = x.p /\ loc'[t].lv = x.lv
  BY DEF Locals, LinInv, LeafInv, Types, TypeOK
<1>2. SUFFICES ASSUME Reading(t) PROVE Begun(t)' /\ (HasChanged(t)' \/ SlotTells(t)')
  BY LookStep DEF LookingFrom
<1>3. Begun(t)'
  BY <1>1, <1>2, GetAtWork, BegunKept
<1>4. N(t)' = L /\ (HasChanged(t)' <=> HasChanged(t))
  BY <1>1 DEF N, HasChanged
<1>5. SUFFICES ASSUME ~ HasChanged(t) PROVE SlotTells(t)'
  BY <1>3, <1>4
<1>6. Says(t, x.p, x.lv) /\ x.p # -1
  <2>1. Gets(t) /\ Looked(t)
    BY <1>2, GetAtWork
  <2>2. QED
    BY <1>2, <1>5, <2>1 DEF Gets, SlotTells, Looked, Optimistic
<1>7. Says(t, loc[t].p, loc[t].lv)'
  BY <1>1, <1>6, SaysOfSlot
<1>8. QED
  BY <1>1, <1>6, <1>7 DEF SlotTells

LEMMA ReadKeylenxMeets ==
  ASSUME LinInv, NEW t \in Thread, ReadKeylenx(t)
  PROVE  Meets(t) /\ Fine(t)
<1> DEFINE kl == N(t).keylenx[loc[t].p]
           m == CASE kl = "short" -> 1 [] kl = "layer" -> -1 [] kl = "ksuf" -> 0
<1>1. /\ pc[t] = "keylenx" /\ pc'[t] \in {"ksuf", "check"} /\ leaf' = leaf /\ UNCHANGED history /\ req' = req
      /\ loc' = [loc EXCEPT ![t].match = m]
  BY DEF LinInv, LeafInv, Types, TypeOK, ReadKeylenx, Goto, shared
<1> HIDE DEF m
<1>2. QED
  BY <1>1, MatchMeets

LEMMA ReadKsufMeets ==
  ASSUME LinInv, NEW t \in Thread, ReadKsuf(t)
  PROVE  Meets(t) /\ Fine(t)
<1> DEFINE m == IF N(t).ksuf[loc[t].p] = req[t].key THEN 1 ELSE 0
<1>1. /\ pc[t] = "ksuf" /\ pc'[t] \in {"ksuf", "check"} /\ leaf' = leaf /\ UNCHANGED history /\ req' = req
      /\ loc' = [loc EXCEPT ![t].match = m]
  BY DEF LinInv, LeafInv, Types, TypeOK, ReadKsuf, Goto, shared
<1> HIDE DEF m
<1>2. QED
  BY <1>1, MatchMeets

LEMMA DescendMeets ==
  ASSUME LinInv, NEW t \in Thread, Descend(t)
  PROVE  Meets(t) /\ Fine(t)
<1> DEFINE x == loc[t]
           L == N(t)
<1>1. /\ pc[t] = "check" /\ ~ HasChanged(t) /\ x.match = -1 /\ pc'[t] = "stable" /\ leaf' = leaf
      /\ UNCHANGED history /\ req' = req /\ loc'[t].n = x.lv
  BY DEF LinInv, LeafInv, Types, TypeOK, Descend, Goto, shared, NoLocals
<1>2. SUFFICES ASSUME Reading(t) PROVE Begun(t)'
  BY <1>1, LookStep DEF LookingFrom, SlotTells
<1>3. Begun(t) /\ Looked(t) /\ Gets(t)
  BY <1>1, <1>2, GetAtWork
<1>4. x.p # -1 /\ KnowsSlot(t)
  BY <1>1, <1>3 DEF Looked, Optimistic
<1>5. Says(t, x.p, x.lv) /\ L.keylenx[x.p] = "layer"
  BY <1>1, <1>2, <1>3, <1>4 DEF Gets, SlotTells, KnowsSlot
<1>6. Linked(x.lv, IkeyOf[req[t].key]) \/ None \in ans[t]
  BY <1>5 DEF Says
<1>7. QED
  BY <1>1, <1>3, <1>6 DEF Begun, Linked, history

\* A request that is answered.
LEMMA DoneStep ==
  ASSUME LinInv, NEW t \in Thread, req[t] \in Request, pc[t] \notin {"idle", "done"}, req' = req, NEW a \in ans[t],
         Answer(t, a)
  PROVE  Meets(t) /\ Fine(t)
<1>1. Meets(t) /\ ans' = ans /\ res'[t] \in Answers
  BY AnswerStep
<1>2. pc'[t] = "done"
  BY DEF Answer, Goto, LinInv, LeafInv, Types, TypeOK
<1>3. req[t].op # "gc" /\ req[t] # Idle /\ res'[t] # Idle
  BY <1>1, IdleAssumption DEF Request, Answers
<1>4. Gets(t)'
  BY <1>2 DEF Gets
<1>5. Changes(t)'
  BY <1>2, <1>3 DEF Changes, Removing, Assigning, Layering
<1>6. QED
  BY <1>1, <1>4, <1>5 DEF Fine

\* What a get answers the key was mapped to at some moment of the call.
LEMMA GetAnswers ==
  ASSUME LinInv, NEW t \in Thread, Reading(t), pc[t] = "check", ~ HasChanged(t), loc[t].match # -1
  PROVE  (IF loc[t].match = 1 THEN loc[t].lv ELSE None) \in ans[t]
<1> DEFINE x == loc[t]
           L == N(t)
<1>1. Looked(t) /\ Gets(t) /\ x.match \in {0, 1}
  BY GetAtWork, LocalTypes
<1>2. CASE x.p = -1
  <2>1. x.match = 0
    BY <1>1, <1>2 DEF Looked, Optimistic
  <2>2. None \in ans[t]
    BY <1>1, <1>2 DEF Gets, SlotTells
  <2>3. QED
    BY <2>1, <2>2
<1>3. CASE x.p # -1
  <2>1. /\ x.match = 1 => L.keylenx[x.p] = "short" \/ (L.keylenx[x.p] = "ksuf" /\ L.ksuf[x.p] = req[t].key)
        /\ x.match = 0 => L.keylenx[x.p] = "ksuf" /\ L.ksuf[x.p] # req[t].key
    BY <1>1, <1>3 DEF Looked, Optimistic, KnowsSlot
  <2>2. Says(t, x.p, x.lv)
    BY <1>1, <1>3 DEF Gets, SlotTells
  <2>3. QED
    BY <1>1, <2>1, <2>2 DEF Says
<1>4. QED
  BY <1>2, <1>3

LEMMA GetEndMeets ==
  ASSUME LinInv, NEW t \in Thread, GetEnd(t)
  PROVE  Meets(t) /\ Fine(t)
<1>1. /\ pc[t] = "check" /\ Get(t) /\ leaf' = leaf /\ req' = req /\ Types /\ TypeOK /\ Locks(t) /\ Changes(t)
  BY Parts DEF LinInv, GetEnd, shared
<1>2. req[t] \in Request /\ Reading(t)
  <2>1. req[t] \in Request \cup GcRequest /\ req[t].op = "get" /\ req[t] # Idle
    BY <1>1 DEF Locks, Get, Changes
  <2>2. QED
    BY <1>1, <2>1 DEF GcRequest, Reading
<1>3. CASE HasChanged(t) /\ Goto(t, "stable") /\ UNCHANGED <<loc, history>>
  <2>1. pc'[t] = "stable" /\ loc' = loc
    BY <1>1, <1>3 DEF Goto, TypeOK
  <2>2. Begun(t)'
    BY <1>1, <1>2, <1>3, GetAtWork, BegunKept
  <2>3. QED
    BY <1>1, <1>3, <2>1, <2>2, LookStep DEF LookingFrom, SlotTells
<1>4. CASE /\ ~ HasChanged(t) /\ loc[t].match # -1
           /\ Answer(t, IF loc[t].match = 1 THEN loc[t].lv ELSE None)
  BY <1>1, <1>2, <1>4, GetAnswers, DoneStep
<1>5. QED
  BY <1>3, <1>4 DEF GetEnd

-----------------------------------------------------------------------------
(* Requests and callbacks begin and end *)

LEMMA CallMeets ==
  ASSUME LinInv, NEW t \in Thread, NEW r \in Request, Call(t, r)
  PROVE  Meets(t) /\ Fine(t)
<1> DEFINE a == IF r.op = "get" THEN {map[r.key]} ELSE {}
<1>1. /\ pc[t] = "idle" /\ pc'[t] = "stable" /\ req' = [req EXCEPT ![t] = r] /\ ans' = [ans EXCEPT ![t] = a]
      /\ leaf' = leaf /\ loc' = loc /\ map' = map /\ res' = res
  BY DEF LinInv, LeafInv, Types, TypeOK, Call, Goto, shared
<1>2. /\ HistoryTypes /\ Changes(t) /\ Placed(t) /\ TypeOK
  BY Parts DEF LinInv
<1>3. req[t] = Idle /\ ans[t] = {} /\ res[t] = Idle /\ loc[t].n = Top
  BY <1>1, <1>2 DEF Changes, Placed
<1>4. r \notin GcRequest /\ r # Idle /\ r.op \in {"get", "put", "remove"} /\ r.key \in Key
  BY Requests, IdleAssumption DEF Request, GcRequest
<1>5. req'[t] = r /\ ans'[t] = a /\ \A u \in Thread \ {t} : req'[u] = req[u] /\ ans'[u] = ans[u]
  BY <1>1, <1>2 DEF HistoryTypes, TypeOK
<1>6. HistoryTypes'
  BY <1>1, <1>2, <1>4 DEF HistoryTypes, TypeOK, Answers
<1>7. \A u \in Thread \ {t} : Grows(u)
  BY <1>1, <1>5 DEF Grows
<1>8. KM!Call(t, r)
  <2> DEFINE kr == [u \in Thread |-> IF req[u] \in GcRequest THEN Idle ELSE req[u]]
  <2>1. kr[t] = Idle /\ kr' = [kr EXCEPT ![t] = r]
    <3>1. kr[t] = Idle
      BY <1>3
    <3>2. \A u \in Thread : kr'[u] = [kr EXCEPT ![t] = r][u]
      BY <1>4, <1>5
    <3>3. QED
      BY <3>1, <3>2
  <2>2. QED
    BY <1>1, <2>1 DEF KM!Call
<1>9. r \in KM!Request
  BY DEF Request, KM!Request
<1>10. Gets(t)'
  <2>1. Reading(t)' => Begun(t)'
    BY <1>1, <1>3, <1>5 DEF Begun, Reading, Get
  <2>2. QED
    BY <1>1, <2>1 DEF Gets, SlotTells
<1>11. Changes(t)'
  BY <1>1, <1>3, <1>4, <1>5 DEF Changes, Changing, Removing, Assigning, Layering
<1>12. QED
  BY <1>6, <1>7, <1>8, <1>9, <1>10, <1>11 DEF Meets, Fine, KM!Next

\* A callback is nothing to the clients.
LEMMA RunCallbackMeets ==
  ASSUME LinInv, NEW t \in Thread, RunCallback(t)
  PROVE  Meets(t) /\ Fine(t)
<1>1. PICK k \in TopIkey : req' = [req EXCEPT ![t] = [op |-> "gc", ikey |-> k]]
  BY DEF RunCallback
<1>2. /\ pc[t] = "idle" /\ pc'[t] = "stable" /\ leaf' = leaf /\ loc' = loc /\ map' = map /\ ans' = ans /\ res' = res
      /\ UNCHANGED history
  BY DEF LinInv, LeafInv, Types, TypeOK, RunCallback, Goto, history
<1>3. /\ HistoryTypes /\ Changes(t) /\ TypeOK
  BY Parts DEF LinInv
<1>4. req[t] = Idle /\ ans[t] = {} /\ res[t] = Idle
  BY <1>2, <1>3 DEF Changes
<1>5. [op |-> "gc", ikey |-> k] \in GcRequest
  BY DEF GcRequest
<1>6. /\ req'[t] \in GcRequest /\ req'[t].op = "gc" /\ req'[t] # Idle /\ Idle \notin GcRequest
      /\ \A u \in Thread \ {t} : req'[u] = req[u]
  BY <1>1, <1>3, <1>5, IdleAssumption DEF TypeOK
<1>7. UNCHANGED KM!vars
  <2> DEFINE kr == [u \in Thread |-> IF req[u] \in GcRequest THEN Idle ELSE req[u]]
  <2>1. kr' = kr
    BY <1>4, <1>6
  <2>2. QED
    BY <1>2, <2>1 DEF KM!vars
<1>8. HistoryTypes' /\ \A u \in Thread \ {t} : Grows(u)
  BY <1>2, <1>3, <1>6 DEF HistoryTypes, Grows
<1>9. Fine(t)
  BY <1>2, <1>4, <1>6 DEF Fine, Gets, Changes, Reading, Changing, Get
<1>10. QED
  BY <1>7, <1>8, <1>9 DEF Meets

LEMMA ReturnMeets ==
  ASSUME LinInv, NEW t \in Thread, Return(t)
  PROVE  Meets(t) /\ Fine(t)
<1>1. /\ pc[t] = "done" /\ pc'[t] = "idle" /\ req' = [req EXCEPT ![t] = Idle] /\ ans' = [ans EXCEPT ![t] = {}]
      /\ res' = [res EXCEPT ![t] = Idle] /\ map' = map
  BY DEF LinInv, LeafInv, Types, TypeOK, Return, Goto
<1>2. /\ HistoryTypes /\ Changes(t) /\ TypeOK
  BY Parts DEF LinInv
<1>3. /\ req'[t] = Idle /\ ans'[t] = {} /\ res'[t] = Idle /\ Idle \notin GcRequest
      /\ \A u \in Thread \ {t} : req'[u] = req[u] /\ ans'[u] = ans[u] /\ res'[u] = res[u]
  BY <1>1, <1>2, IdleAssumption DEF HistoryTypes, TypeOK
<1>4. HistoryTypes' /\ \A u \in Thread \ {t} : Grows(u)
  BY <1>1, <1>2, <1>3 DEF HistoryTypes, Grows
<1>5. Fine(t)
  BY <1>1, <1>3 DEF Fine, Gets, Changes, Reading, Changing
<1> DEFINE kr == [u \in Thread |-> IF req[u] \in GcRequest THEN Idle ELSE req[u]]
<1>6. CASE req[t].op = "gc"
  <2>1. req[t] \in GcRequest
    <3>1. req[t] \in Request \cup GcRequest /\ \A r \in Request : r.op # "gc"
      BY <1>1, <1>2, Parts DEF Locks, Request, LinInv
    <3>2. QED
      BY <1>6, <3>1
  <2>2. kr' = kr
    BY <1>3, <2>1
  <2>3. ans' = ans /\ res' = res
    BY <1>1, <1>2, <1>6 DEF Changes, HistoryTypes
  <2>4. UNCHANGED KM!vars
    BY <1>1, <2>2, <2>3 DEF KM!vars
  <2>5. QED
    BY <1>4, <1>5, <2>4 DEF Meets
<1>7. CASE req[t].op # "gc"
  <2>1. res[t] # Idle
    BY <1>1, <1>2, <1>7 DEF Changes
  <2>2. kr' = [kr EXCEPT ![t] = Idle]
    <3>1. \A u \in Thread : kr'[u] = [kr EXCEPT ![t] = Idle][u]
      BY <1>3
    <3>2. QED
      BY <3>1
  <2>3. KM!Return(t)
    BY <1>1, <2>1, <2>2 DEF KM!Return
  <2>4. QED
    BY <1>4, <1>5, <2>3 DEF Meets, KM!Next
<1>8. QED
  BY <1>6, <1>7

-----------------------------------------------------------------------------
(* Steps of a put, a remove or a callback *)

\* The key of the request belongs in the leaf that t has locked.
LEMMA WorkerIsAt ==
  ASSUME LeafInv, NEW t \in Thread, pc[t] \in Working, req[t].op # "gc"
  PROVE  /\ Belongs(leaf, loc[t].n, KaIkey(t), req[t].key) /\ N(t) = leaf[loc[t].n] /\ loc[t].n \in LeafId
         /\ Maps(leaf, req[t].key, map[req[t].key]) /\ KaIkey(t) \in Nat /\ TypeOK /\ Held(t)
<1>1. /\ TypeOK /\ Placed(t) /\ Held(t) /\ req[t] \in Request \cup GcRequest /\ N(t) = leaf[loc[t].n]
      /\ loc[t].n \in LeafId /\ N(t).modstate # "deleted_layer"
  BY AtWork DEF Holding
<1>2. req[t].key \in Key /\ KaIkey(t) \in Nat /\ KaIkey(t) = (IF loc[t].n = Top THEN IkeyOf[req[t].key] ELSE req[t].key)
  BY <1>1, Requests, KaIsIkey DEF KaIkey
<1>3. loc[t].n # Top => LinkedIn(leaf, loc[t].n, IkeyOf[req[t].key])
  BY <1>1 DEF Placed, Linked, LinkedIn
<1>4. QED
  BY <1>1, <1>2, <1>3, MapIs DEF Belongs

\* A key that is updated or removed is in the table.
LEMMA KeyIsThere ==
  ASSUME LeafInv, NEW t \in Thread, pc[t] \in {"update"} \cup Removing, req[t].op # "gc"
  PROVE  map[req[t].key] # None
<1>1. pc[t] \in Working /\ pc[t] # "l_keylenx"
  BY DEF Working, Removing
<1>2. /\ Belongs(leaf, loc[t].n, KaIkey(t), req[t].key) /\ N(t) = leaf[loc[t].n]
      /\ Maps(leaf, req[t].key, map[req[t].key]) /\ Held(t)
  BY <1>1, WorkerIsAt
<1>3. PICK p : There(N(t), loc[t].i, p, KaIkey(t)) /\ Mine(t, p)
  BY <1>2 DEF Held, HeldRemoving
<1>4. p \in InUse(N(t).perm) /\ N(t).ikey[p] = KaIkey(t)
  BY ONLY <1>3, ThereIs
<1>5. N(t).lv[p] \in Val
  BY <1>1, <1>3, <1>4, MineHolds
<1>6. \/ loc[t].n = Top /\ N(t).keylenx[p] = "ksuf" /\ N(t).ksuf[p] = req[t].key
      \/ loc[t].n # Top /\ N(t).keylenx[p] = "short"
  BY <1>3 DEF Mine
<1>7. map[req[t].key] = N(t).lv[p]
  BY <1>2, <1>4, <1>5, <1>6, PresentTells
<1>8. QED
  BY <1>5, <1>7, ValuesAssumption

\* A key that is inserted is not.
LEMMA KeyIsNotThere ==
  ASSUME LeafInv, NEW t \in Thread, pc[t] = "publish"
  PROVE  map[req[t].key] = None
<1>1. pc[t] \in Working /\ pc[t] \in Assigning
  BY DEF Working, Assigning
<1>2. HeldAssigning(t) /\ req[t].op = "put"
  BY <1>1, AtAssign
<1>3. /\ Belongs(leaf, loc[t].n, KaIkey(t), req[t].key) /\ N(t) = leaf[loc[t].n] /\ loc[t].n \in LeafId
      /\ Maps(leaf, req[t].key, map[req[t].key]) /\ KaIkey(t) \in Nat /\ TypeOK
  BY <1>1, <1>2, WorkerIsAt
<1>4. NotThere(leaf[loc[t].n], loc[t].i, KaIkey(t))
  BY <1>2, <1>3 DEF HeldAssigning
<1>5. \A q \in InUse(leaf[loc[t].n].perm) : leaf[loc[t].n].ikey[q] # KaIkey(t)
  BY ONLY <1>3, <1>4, NotThereIs
<1>6. QED
  BY <1>3, <1>5, AbsentTells

\* A put or remove takes effect; that the key was there is its answer.
LEMMA TakesEffect ==
  ASSUME LinInv, NEW t \in Thread, Changing(t), pc[t] \notin {"idle", "unlock", "done"}, req' = req,
         NEW w, w = (IF req[t].op = "put" THEN req[t].val ELSE None), Effect(t, req[t].key, w),
         pc'[t] = "unlock", map[req[t].key] = None <=> loc'[t].match # 1
  PROVE  Meets(t) /\ Fine(t)
<1>1. /\ Meets(t)
      /\ ans'[t] = {IF map[req[t].key] = None THEN "missing" ELSE "found"} /\ res' = res
  BY EffectStep
<1>2. Changes(t) /\ req[t] # Idle /\ req[t].op \in {"put", "remove"}
  BY DEF LinInv, Changing
<1>3. Changes(t)'
  BY <1>1, <1>2 DEF Changes, Changing, Removing, Assigning, Layering
<1>4. Gets(t)'
  BY <1>2, NoGet DEF Get
<1>5. QED
  BY <1>1, <1>3, <1>4 DEF Fine

\* A step of the holder of a lock that no client can tell.
LEMMA WorkStep ==
  ASSUME LinInv, NEW t \in Thread, UNCHANGED history, req' = req, ~ Get(t),
         pc[t] \notin {"idle", "unlock", "done"}, pc'[t] \notin {"idle", "done"},
         Changing(t) => /\ pc'[t] # "unlock"
                        /\ pc'[t] \in {"update"} \cup Removing => loc'[t].match = 1
                        /\ pc'[t] \in {"insert", "layer"} \cup Assigning \cup Layering => loc'[t].match = 0
  PROVE  Meets(t) /\ Fine(t)
<1>1. ans'[t] = ans[t] /\ res'[t] = res[t] /\ req'[t] = req[t]
  BY DEF history
<1>2. QED
  BY <1>1, SilentStep, NoGet, ChangesKept DEF Fine

LEMMA LockMeets ==
  ASSUME LinInv, NEW t \in Thread, Lock(t) \/ Retry(t)
  PROVE  Meets(t) /\ Fine(t)
<1>1. /\ pc[t] \in {"check", "validate"} /\ pc'[t] \in {"stable", "validate"} /\ UNCHANGED history /\ req' = req
      /\ ~ Get(t)
  <2>1. Locks(t) /\ TypeOK
    BY Parts DEF LinInv
  <2>2. CASE Lock(t)
    BY <2>1, <2>2 DEF Lock, Goto, TypeOK
  <2>3. CASE Retry(t)
    BY <2>1, <2>3 DEF Retry, Goto, TypeOK, Locks, Holding
  <2>4. QED
    BY <2>2, <2>3
<1>2. QED
  BY <1>1, WorkStep DEF Removing, Assigning, Layering

\* From the decision to insert until the slot is published.
LEMMA InsertMeets ==
  ASSUME LinInv, NEW t \in Thread,
         \/ Insert(t) \/ AssignLv(t) \/ AssignIkey(t) \/ AssignKeylenx(t) \/ AssignKsuf(t) \/ AssignValue(t)
         \/ MakeNewLayer(t) \/ SetLayer(t) \/ SetLayerKeylenx(t) \/ UnlockUpper(t)
  PROVE  Meets(t) /\ Fine(t)
<1> DEFINE Steps == {"insert", "layer"} \cup Assigning \cup Layering
<1>1. TypeOK /\ Changes(t) /\ Locks(t) /\ loc[t] \in Locals
  BY Parts, LocalTypes DEF LinInv
<1>2. /\ pc[t] \in Steps /\ pc'[t] \in Steps /\ UNCHANGED history /\ req' = req /\ loc'[t].match = loc[t].match
  <2>1. CASE Insert(t)
    BY <1>1, <2>1 DEF Insert, Goto, TypeOK, Assigning, Locals
  <2>2. CASE AssignLv(t)
    BY <1>1, <2>2 DEF AssignLv, Goto, TypeOK, Assigning
  <2>3. CASE AssignIkey(t)
    BY <1>1, <2>3 DEF AssignIkey, Goto, TypeOK, Assigning
  <2>4. CASE AssignKeylenx(t)
    BY <1>1, <2>4 DEF AssignKeylenx, Goto, TypeOK, Assigning
  <2>5. CASE AssignKsuf(t)
    BY <1>1, <2>5 DEF AssignKsuf, Goto, TypeOK, Assigning
  <2>6. CASE AssignValue(t)
    BY <1>1, <2>6 DEF AssignValue, Goto, TypeOK, Assigning
  <2>7. CASE MakeNewLayer(t)
    <3> DEFINE o == IF N(t).ksuf[loc[t].p] < req[t].key THEN 0 ELSE 1
    <3>1. pc[t] = "layer" /\ pc' = [pc EXCEPT ![t] = "l_lv"] /\ UNCHANGED history /\ req' = req
      BY <2>7 DEF MakeNewLayer, Goto
    <3>2. \E y \in fresh : loc' = [loc EXCEPT ![t].lv = y, ![t].i = 1 - o]
      BY <2>7 DEF MakeNewLayer
    <3> HIDE DEF o
    <3>3. PICK y \in fresh : loc' = [loc EXCEPT ![t].lv = y, ![t].i = 1 - o]
      BY <3>2
    <3>4. loc'[t].match = loc[t].match
      BY <1>1, <3>3 DEF TypeOK, Locals
    <3>5. pc'[t] = "l_lv"
      BY <1>1, <3>1 DEF TypeOK
    <3>6. QED
      BY <3>1, <3>4, <3>5 DEF Layering
  <2>8. CASE SetLayer(t)
    BY <1>1, <2>8 DEF SetLayer, Goto, TypeOK, Layering
  <2>9. CASE SetLayerKeylenx(t)
    BY <1>1, <2>9 DEF SetLayerKeylenx, Goto, TypeOK, Layering
  <2>10. CASE UnlockUpper(t)
    BY <1>1, <2>10 DEF UnlockUpper, Goto, TypeOK, Layering, Assigning, Locals
  <2>11. QED
    BY <2>1, <2>2, <2>3, <2>4, <2>5, <2>6, <2>7, <2>8, <2>9, <2>10
<1>3. /\ pc[t] \notin {"idle", "unlock", "done"} /\ pc[t] \in Holding
      /\ pc'[t] \notin {"idle", "unlock", "done", "update"} \cup Removing
  BY <1>2 DEF Assigning, Layering, Removing, Holding, Working
<1>4. ~ Get(t) /\ (Changing(t) => loc[t].match = 0)
  BY <1>1, <1>2, <1>3 DEF Locks, Changes
<1>5. QED
  BY <1>2, <1>3, <1>4, WorkStep

\* The callback, until it takes the slot out, and mark_remove's step.
LEMMA GcMeets ==
  ASSUME LinInv, NEW t \in Thread, GcLayer(t) \/ GcLock(t) \/ MarkRemove(t)
  PROVE  Meets(t) /\ Fine(t)
<1>1. TypeOK /\ Changes(t) /\ Locks(t) /\ Held(t)
  BY Parts DEF LinInv
<1>2. /\ UNCHANGED history /\ req' = req
      /\ \/ pc[t] \in {"gc", "gc_lock"} /\ pc'[t] \in {"gc_lock", "remove", "unlock"}
         \/ pc[t] = "remove" /\ pc'[t] = "r_perm" /\ loc'[t] = loc[t]
  <2>1. CASE GcLayer(t)
    BY <1>1, <2>1 DEF GcLayer, Goto, TypeOK
  <2>2. CASE GcLock(t)
    BY <1>1, <2>2 DEF GcLock, Goto, TypeOK
  <2>3. CASE MarkRemove(t)
    BY <1>1, <2>3 DEF MarkRemove, Goto, TypeOK
  <2>4. QED
    BY <2>1, <2>2, <2>3
<1>3. ~ Get(t)
  BY <1>1, <1>2 DEF Locks, Holding, Working, Removing
<1>4. CASE pc[t] \in {"gc", "gc_lock"}
  <2>1. ~ Changing(t)
    BY <1>1, <1>4 DEF Held, Changing
  <2>2. pc[t] \notin {"idle", "unlock", "done"} /\ pc'[t] \notin {"idle", "done"}
    BY <1>2, <1>4
  <2>3. QED
    BY <1>2, <1>3, <2>1, <2>2, WorkStep
<1>5. CASE pc[t] = "remove"
  <2>1. Changing(t) => loc[t].match = 1
    BY <1>1, <1>5 DEF Changes, Removing
  <2>2. QED
    BY <1>2, <1>3, <1>5, <2>1, WorkStep DEF Removing, Assigning, Layering
<1>6. QED
  BY <1>2, <1>4, <1>5

\* apply_put swaps the row of a key that is there.
LEMMA UpdateMeets ==
  ASSUME LinInv, NEW t \in Thread, Update(t)
  PROVE  Meets(t) /\ Fine(t)
<1>1. LeafInv /\ TypeOK /\ Changes(t) /\ Held(t)
  BY Parts DEF LinInv
<1>2. /\ pc[t] = "update" /\ pc'[t] = "unlock" /\ loc' = loc /\ req' = req /\ Effect(t, req[t].key, req[t].val)
  BY <1>1 DEF Update, Goto, TypeOK
<1>3. req[t].op = "put" /\ Changing(t) /\ loc[t].match = 1
  BY <1>1, <1>2 DEF Held, Changes, Changing
<1>4. map[req[t].key] # None
  BY <1>1, <1>2, <1>3, KeyIsThere
<1>5. QED
  BY <1>2, <1>3, <1>4, TakesEffect

\* finish_insert makes visible a key that was not there.
LEMMA FinishInsertMeets ==
  ASSUME LinInv, NEW t \in Thread, FinishInsert(t)
  PROVE  Meets(t) /\ Fine(t)
<1>1. LeafInv /\ TypeOK /\ Changes(t) /\ Held(t)
  BY Parts DEF LinInv
<1>2. /\ pc[t] = "publish" /\ pc'[t] = "unlock" /\ loc' = loc /\ req' = req /\ Effect(t, req[t].key, req[t].val)
  BY <1>1 DEF FinishInsert, Goto, TypeOK
<1>3. req[t].op = "put" /\ Changing(t) /\ loc[t].match = 0
  BY <1>1, <1>2 DEF Held, Changes, Changing, Assigning
<1>4. map[req[t].key] = None
  BY <1>1, <1>2, KeyIsNotThere
<1>5. QED
  BY <1>2, <1>3, <1>4, TakesEffect

\* finish_remove takes out a key that was there, or a layer: no client can tell.
LEMMA FinishRemoveMeets ==
  ASSUME LinInv, NEW t \in Thread, FinishRemove(t)
  PROVE  Meets(t) /\ Fine(t)
<1>1. LeafInv /\ TypeOK /\ Changes(t) /\ Held(t) /\ Locks(t)
  BY Parts DEF LinInv
<1>2. /\ pc[t] = "r_perm" /\ pc'[t] = "unlock" /\ loc' = loc /\ req' = req
      /\ IF req[t].op = "gc" THEN UNCHANGED history ELSE Effect(t, req[t].key, None)
  BY <1>1 DEF FinishRemove, Goto, TypeOK
<1>3. req[t] # Idle /\ ~ Get(t) /\ HeldRemoving(t)
  BY <1>1, <1>2 DEF Changes, Locks, Holding, Working, Removing, Held
<1>4. CASE req[t].op = "gc"
  <2>1. ~ Changing(t)
    BY <1>4 DEF Changing
  <2>2. QED
    BY <1>2, <1>3, <1>4, <2>1, WorkStep
<1>5. CASE req[t].op # "gc"
  <2>1. req[t].op = "remove" /\ Changing(t) /\ loc[t].match = 1
    BY <1>1, <1>2, <1>3, <1>5 DEF HeldRemoving, Changes, Changing, Removing
  <2>2. map[req[t].key] # None
    BY <1>1, <1>2, <1>5, KeyIsThere DEF Removing
  <2>3. QED
    BY <1>2, <1>5, <2>1, <2>2, TakesEffect
<1>6. QED
  BY <1>4, <1>5

\* A remove of a key that is not there takes effect where find_locked finds that out.
LEMMA FoundMeets ==
  ASSUME LinInv, NEW t \in Thread, Found(t)
  PROVE  Meets(t) /\ Fine(t)
<1> DEFINE x == loc[t]
           k == req[t].key
           y == [x EXCEPT !.v = 0, !.perm0 = MakeEmpty, !.lv = Empty]
           l == CASE req[t].op = "gc" -> "gc"
                  [] req[t].op = "remove" -> IF x.match = 1 THEN "remove" ELSE "unlock"
                  [] req[t].op = "put" -> IF x.match = 1 THEN "update"
                                          ELSE IF x.p # -1 THEN "layer" ELSE "insert"
<1>1. LeafInv /\ TypeOK /\ Changes(t) /\ Locks(t) /\ x \in Locals /\ Content
  BY Parts, LocalTypes DEF LinInv
<1>2. /\ pc[t] = "validate" /\ ~ Stale(t) /\ N(t).modstate # "deleted_layer" /\ req' = req
      /\ pc' = [pc EXCEPT ![t] = l] /\ loc' = [loc EXCEPT ![t] = y]
      /\ IF req[t].op = "remove" /\ x.match = 0 THEN Effect(t, k, None) ELSE UNCHANGED history
  BY DEF Found, Goto
<1>3. y.match = x.match
  BY <1>1 DEF Locals
<1>4. /\ req[t] \in Request \cup GcRequest /\ req[t].op \in {"put", "remove", "gc"} /\ req[t] # Idle /\ ~ Get(t)
  BY <1>1, <1>2, Requests DEF Locks, Holding, Get, Changes
<1>5. /\ req[t].op = "gc" => l = "gc"
      /\ req[t].op = "remove" => l = IF x.match = 1 THEN "remove" ELSE "unlock"
      /\ req[t].op = "put" => l = IF x.match = 1 THEN "update" ELSE IF x.p # -1 THEN "layer" ELSE "insert"
  BY <1>4
<1> HIDE DEF y, l
<1>6. pc'[t] = l /\ loc'[t].match = x.match
  BY <1>1, <1>2, <1>3 DEF TypeOK
<1>7. req[t].op # "gc" => x.match \in {0, 1}
  BY <1>1, <1>2, <1>4, FoundPosition
<1>8. CASE req[t].op = "remove" /\ x.match = 0
  <2>1. k \in Key /\ map[k] \in Val \cup {None}
    BY <1>1, <1>4, <1>8, Requests DEF TypeOK
  <2>2. \A v \in Val : ~ Holds(leaf, k, v)
    BY <1>1, <1>2, <1>8, Missing
  <2>3. map[k] = None
    BY <1>1, <2>1, <2>2 DEF Content
  <2>4. Changing(t) /\ pc'[t] = "unlock"
    BY <1>4, <1>5, <1>6, <1>8 DEF Changing
  <2>5. QED
    BY <1>2, <1>6, <1>8, <2>3, <2>4, TakesEffect
<1>9. CASE ~ (req[t].op = "remove" /\ x.match = 0)
  <2>1. l \in {"gc", "remove", "unlock", "update", "layer", "insert"} /\ UNCHANGED history
    BY <1>2, <1>4, <1>5, <1>9
  <2>2. Changing(t) => /\ l # "unlock"
                       /\ l \in {"update", "remove"} => x.match = 1
                       /\ l \in {"insert", "layer"} => x.match = 0
    BY <1>5, <1>7, <1>9 DEF Changing
  <2>3. QED
    BY <1>2, <1>4, <1>6, <2>1, <2>2, WorkStep DEF Removing, Assigning, Layering
<1>10. QED
  BY <1>8, <1>9

\* finish: a put or remove is answered, a callback just ends.
LEMMA UnlockMeets ==
  ASSUME LinInv, NEW t \in Thread, Unlock(t)
  PROVE  Meets(t) /\ Fine(t)
<1> DEFINE a == IF loc[t].match = 1 THEN "found" ELSE "missing"
<1>1. LeafInv /\ TypeOK /\ Changes(t) /\ Locks(t)
  BY Parts DEF LinInv
<1>2. pc[t] = "unlock" /\ pc'[t] = "done" /\ req' = req /\ Answer(t, a)
  BY <1>1 DEF Unlock, Answer, Goto, TypeOK
<1>3. req[t] \in Request \cup GcRequest /\ req[t] # Idle /\ ~ Get(t)
  BY <1>1, <1>2 DEF Locks, Changes, Holding, Working
<1>4. CASE req[t].op = "gc"
  <2>1. UNCHANGED history
    BY <1>2, <1>4 DEF Answer, history
  <2>2. ans'[t] = {} /\ res'[t] = Idle /\ req'[t] = req[t]
    BY <1>1, <1>2, <1>4, <2>1 DEF Changes, history
  <2>3. Fine(t)
    BY <1>2, <1>3, <1>4, <2>2 DEF Fine, Gets, Changes, Changing
  <2>4. QED
    BY <1>2, <2>1, <2>3, SilentStep
<1>5. CASE req[t].op # "gc"
  <2>1. req[t] \in Request /\ Changing(t)
    BY <1>3, <1>5, Requests DEF GcRequest, Changing, Get
  <2>2. a \in ans[t]
    BY <1>1, <1>2, <2>1 DEF Changes
  <2>3. QED
    BY <1>2, <2>1, <2>2, DoneStep
<1>6. QED
  BY <1>4, <1>5

-----------------------------------------------------------------------------
(* Every step *)

LEMMA StepMeets ==
  ASSUME LinInv, LeafInv', NEW t \in Thread, Step(t)
  PROVE  Meets(t) /\ Fine(t)
<1>1. CASE Stable(t)
  BY <1>1, StableMeets
<1>2. CASE ReadPerm(t)
  BY <1>2, ReadPermMeets
<1>3. CASE ReadPermAgain(t)
  BY <1>3, ReadPermAgainMeets
<1>4. CASE Search(t)
  BY <1>4, SearchMeets
<1>5. CASE ReadLv(t)
  BY <1>5, ReadLvMeets
<1>6. CASE ReadKeylenx(t)
  BY <1>6, ReadKeylenxMeets
<1>7. CASE ReadKsuf(t)
  BY <1>7, ReadKsufMeets
<1>8. CASE Descend(t)
  BY <1>8, DescendMeets
<1>9. CASE GetEnd(t)
  BY <1>9, GetEndMeets
<1>10. CASE Lock(t) \/ Retry(t)
  BY <1>10, LockMeets
<1>11. CASE Found(t)
  BY <1>11, FoundMeets
<1>12. CASE Update(t)
  BY <1>12, UpdateMeets
<1>13. CASE \/ Insert(t) \/ AssignLv(t) \/ AssignIkey(t) \/ AssignKeylenx(t) \/ AssignKsuf(t) \/ AssignValue(t)
            \/ MakeNewLayer(t) \/ SetLayer(t) \/ SetLayerKeylenx(t) \/ UnlockUpper(t)
  BY <1>13, InsertMeets
<1>14. CASE FinishInsert(t)
  BY <1>14, FinishInsertMeets
<1>15. CASE GcLayer(t) \/ GcLock(t) \/ MarkRemove(t)
  BY <1>15, GcMeets
<1>16. CASE FinishRemove(t)
  BY <1>16, FinishRemoveMeets
<1>17. CASE Unlock(t)
  BY <1>17, UnlockMeets
<1>18. CASE Return(t)
  BY <1>18, ReturnMeets
<1>19. QED
  BY <1>1, <1>2, <1>3, <1>4, <1>5, <1>6, <1>7, <1>8, <1>9, <1>10, <1>11, <1>12, <1>13, <1>14, <1>15, <1>16,
     <1>17, <1>18 DEF Step

\* A step of t leaves the others' parts of the invariant to them.
LEMMA OthersChange ==
  ASSUME LinInv, NEW t \in Thread, Gentle(t), NEW u \in Thread \ {t}, Grows(u)
  PROVE  Changes(u)'
<1>1. pc'[u] = pc[u] /\ loc'[u] = loc[u] /\ req'[u] = req[u] /\ Changes(u) /\ res'[u] = res[u]
  BY DEF Gentle, Same, LinInv, Grows
<1>2. ~ Reading(u) => ans'[u] = ans[u]
  BY DEF Grows
<1>3. CASE Reading(u)
  <2>1. req[u] # Idle /\ req[u].op = "get"
    BY <1>3 DEF Reading, Get
  <2>2. QED
    BY <1>1, <2>1 DEF Changes, Changing
<1>4. CASE ~ Reading(u)
  BY <1>1, <1>2, <1>4 DEF Changes, Changing
<1>5. QED
  BY <1>3, <1>4

LEMMA ThreadStep ==
  ASSUME LinInv, LeafInv', NEW t \in Thread, Gentle(t), Meets(t), Fine(t)
  PROVE  LinInv' /\ [KM!Next]_KM!vars
<1>1. HistoryTypes' /\ (\A u \in Thread \ {t} : Grows(u)) /\ [KM!Next]_KM!vars /\ Gets(t)' /\ Changes(t)'
  BY DEF Meets, Fine
<1>2. \A u \in Thread \ {t} : Gets(u)' /\ Changes(u)'
  BY <1>1, GetsKept, OthersChange
<1>3. \A u \in Thread : Gets(u)' /\ Changes(u)'
  BY <1>1, <1>2
<1>4. LinInv'
  BY <1>1, <1>3 DEF LinInv
<1>5. QED
  BY <1>1, <1>4

LEMMA StutterMeets ==
  ASSUME LinInv, UNCHANGED vars
  PROVE  LinInv' /\ UNCHANGED KM!vars
<1>1. /\ leaf' = leaf /\ pc' = pc /\ loc' = loc /\ req' = req /\ map' = map /\ ans' = ans /\ res' = res
  BY DEF vars, shared, history
<1>2. LeafInv'
  BY StutterKeeps DEF LinInv
<1>3. HistoryTypes'
  BY <1>1 DEF LinInv, HistoryTypes
<1>4. ASSUME NEW u \in Thread PROVE Gets(u)' /\ Changes(u)'
  <2>1. Gets(u) /\ Changes(u)
    BY DEF LinInv
  <2>2. Changes(u)'
    BY <1>1, <2>1 DEF Changes, Changing
  <2>3. Gets(u)'
    <3>1. /\ N(u)' = N(u) /\ KaIkey(u)' = KaIkey(u) /\ (HasChanged(u)' <=> HasChanged(u))
          /\ (Reading(u)' <=> Reading(u)) /\ (Begun(u)' <=> Begun(u))
      BY <1>1 DEF N, KaIkey, HasChanged, Reading, Get, Begun, Linked
    <3>2. SlotTells(u)' <=> SlotTells(u)
      BY <1>1, <3>1 DEF SlotTells, SearchTells, Says, Linked
    <3>3. QED
      BY <1>1, <2>1, <3>1, <3>2 DEF Gets
  <2>4. QED
    BY <2>2, <2>3
<1>5. UNCHANGED KM!vars
  BY <1>1 DEF KM!vars
<1>6. QED
  BY <1>2, <1>3, <1>4, <1>5 DEF LinInv

LEMMA NextMeets == LinInv /\ [Next]_vars => LinInv' /\ [KM!Next]_KM!vars
<1> SUFFICES ASSUME LinInv, [Next]_vars PROVE LinInv' /\ [KM!Next]_KM!vars
  OBVIOUS
<1>1. LeafInv
  BY DEF LinInv
<1>2. ASSUME NEW t \in Thread, Step(t) PROVE LinInv' /\ [KM!Next]_KM!vars
  BY <1>1, <1>2, StepKeeps, StepMeets, ThreadStep
<1>3. ASSUME NEW t \in Thread, RunCallback(t) PROVE LinInv' /\ [KM!Next]_KM!vars
  BY <1>1, <1>3, RunCallbackStep, RunCallbackMeets, ThreadStep
<1>4. ASSUME NEW t \in Thread, NEW r \in Request, Call(t, r) PROVE LinInv' /\ [KM!Next]_KM!vars
  BY <1>1, <1>4, CallStep, CallMeets, ThreadStep
<1>5. CASE UNCHANGED vars
  BY <1>5, StutterMeets
<1>6. QED
  BY <1>2, <1>3, <1>4, <1>5 DEF Next

LEMMA InitMeets == Init => LinInv /\ KM!Init
<1> SUFFICES ASSUME Init PROVE LinInv /\ KM!Init
  OBVIOUS
<1>1. /\ map = [k \in Key |-> None] /\ pc = [t \in Thread |-> "idle"] /\ req = [t \in Thread |-> Idle]
      /\ ans = [t \in Thread |-> {}] /\ res = [t \in Thread |-> Idle]
  BY DEF Init
<1>2. HistoryTypes
  BY <1>1 DEF HistoryTypes
<1>3. \A t \in Thread : Gets(t) /\ Changes(t)
  BY <1>1 DEF Gets, Reading, Changes, Changing
<1>4. LinInv
  BY <1>2, <1>3, InitHolds DEF LinInv
<1>5. KM!Init
  <2>1. [t \in Thread |-> IF req[t] \in GcRequest THEN Idle ELSE req[t]] = [t \in Thread |-> Idle]
    BY <1>1
  <2>2. QED
    BY <1>1, <2>1 DEF KM!Init
<1>6. QED
  BY <1>4, <1>5

\* LinInv at every moment: what a get may conclude from an unlocked leaf whose
\* version is the same (find_unlocked, masstree_get.hh) was so during the call.
THEOREM ReadsAreRecent == Spec => []LinInv
BY InitMeets, NextMeets, PTL DEF Spec

\* Gets, puts and removes through find_unlocked, find_locked, find_insert,
\* finish_insert, finish_remove and gc_layer are linearizable: a put or remove
\* takes effect at one store, and a get answers what its key was mapped to at
\* some moment of the call.
THEOREM LeafIsLinearizable == Spec => Linearizable
BY InitMeets, NextMeets, PTL DEF Spec, Linearizable, KM!Spec
=============================================================================
