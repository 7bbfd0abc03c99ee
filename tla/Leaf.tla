-------------------------------- MODULE Leaf --------------------------------
EXTENDS Permuter, FiniteSets

(***************************************************************************)
(* Lock-free reads of a border leaf while locked writers change it         *)
(* (masstree_get.hh, masstree_insert.hh, masstree_remove.hh).  A key lives *)
(* in the root leaf Top as an ikey (a slice of the key) and a suffix; when *)
(* a second key with the same ikey comes, the slot is turned into a        *)
(* pointer to a leaf of the next trie layer, which holds both; when that   *)
(* leaf is empty an RCU callback takes the layer out again.                *)
(*                                                                         *)
(* One action is one access to shared memory (one load or one store of     *)
(* what another thread stores or loads); what a thread does to a leaf that *)
(* nobody else can reach is part of the access that follows.  Leaves do    *)
(* not split here: W slots are enough for the ikeys.                       *)
(*                                                                         *)
(* map, ans and res are history variables: see KeyMap.                     *)
(***************************************************************************)

CONSTANTS
  Key,          \* a set of numbers: in a layer, the ikey is the key itself
  IkeyOf,       \* in Top, the ikey of each key
  Val,
  PutVals,      \* for each key, the values that clients put there
  Reader,       \* threads that get
  Writer,       \* threads that put, remove and run callbacks
  Top,          \* the root leaf
  LayerLeaf,    \* leaves of the next layer, allocated or not
  NoThread, None, Idle, Empty, NoSuffix,
  MaxGets,      \* bound on the requests of each reader
  MaxWrites     \* bound on the requests of each writer

Thread == Reader \cup Writer

ASSUME KeyAssumption == Key \subseteq Nat /\ IkeyOf \in [Key -> Nat]
ASSUME ValAssumption == PutVals \in [Key -> SUBSET Val]
ASSUME WidthAssumption ==
  /\ Cardinality({IkeyOf[k] : k \in Key}) <= W
  /\ \A k \in Key : Cardinality({j \in Key : IkeyOf[j] = IkeyOf[k]}) <= W
ASSUME OpsAssumption == MaxGets \in Nat /\ MaxWrites \in Nat
ASSUME ThreadAssumption == Reader \cap Writer = {}
\* What a slot or a variable holds tells what it is.
ASSUME ValuesAssumption ==
  /\ Top \notin LayerLeaf /\ NoThread \notin Thread /\ NoSuffix \notin Key
  /\ None \notin Val /\ Empty \notin LayerLeaf /\ Val \cap LayerLeaf = {}
\* A new layer has two keys at once.
ASSUME TwoSlots == W >= 2

VARIABLES
  leaf,    \* per leaf: version, permutation_, modstate_ and the slots
  fresh,   \* leaves not allocated yet
  gcs,     \* per ikey of Top: registered gc_layer_rcu_callbacks to remove its layer
  pc, loc, \* per thread: position and locals (reset when no longer used)
  req,     \* per thread: what it is doing
  ops,     \* per thread: requests so far
  map, ans, res

shared == <<leaf, fresh, gcs>>
history == <<map, ans, res>>
vars == <<shared, pc, loc, req, ops, history>>

LeafId == {Top} \cup LayerLeaf
LeafValue == Val \cup LayerLeaf \cup {Empty}
TopIkey == {IkeyOf[k] : k \in Key}
Ikey == TopIkey \cup Key
Perm == [ord : [1 .. W -> Slot], size : 0 .. W]

Request ==
  [op : {"get", "remove"}, key : Key] \cup
  {r \in [op : {"put"}, key : Key, val : Val] : r.val \in PutVals[r.key]}
GcRequest == [op : {"gc"}, ikey : TopIkey]
\* Idle is no request, and no answer.
ASSUME IdleAssumption == Idle \notin Request \cup GcRequest \cup Val \cup {None, "missing", "found"}

Get(t) == req[t].op = "get"

PCs == {"idle", "stable", "perm", "lower", "search", "lv", "keylenx", "ksuf",
        "check", "lock", "validate", "update", "insert", "a_lv", "a_ikey",
        "a_keylenx", "a_ksuf", "value", "publish", "layer", "l_lv", "l_keylenx",
        "l_unlock", "remove", "r_perm", "gc", "gc_lock", "unlock", "done"}

LeafRecord ==
  [lock : Thread \cup {NoThread}, inserting : BOOLEAN, vinsert : Nat,
   perm : Perm, modstate : {"insert", "remove", "deleted_layer"},
   ikey : [Slot -> Ikey \cup {0}], keylenx : [Slot -> {"short", "ksuf", "layer"}],
   ksuf : [Slot -> Key \cup {NoSuffix}], lv : [Slot -> LeafValue]]
Locals ==
  [n : LeafId, v : Nat, perm : Perm, perm0 : Perm, i : 0 .. W,
   p : Slot \cup {-1}, lv : LeafValue, match : {-1, 0, 1}]

TypeOK ==
  /\ leaf \in [LeafId -> LeafRecord]
  /\ fresh \subseteq LayerLeaf
  /\ gcs \in [TopIkey -> Nat]
  /\ pc \in [Thread -> PCs]
  /\ loc \in [Thread -> Locals]
  /\ req \in [Thread -> Request \cup GcRequest \cup {Idle}]
  /\ ops \in [Thread -> Nat]
  /\ map \in [Key -> Val \cup {None}]

EmptyLeaf ==
  [lock |-> NoThread, inserting |-> FALSE, vinsert |-> 0, perm |-> MakeEmpty,
   modstate |-> "insert", ikey |-> [p \in Slot |-> 0],
   keylenx |-> [p \in Slot |-> "short"], ksuf |-> [p \in Slot |-> NoSuffix],
   lv |-> [p \in Slot |-> Empty]]

NoLocals ==
  [n |-> Top, v |-> 0, perm |-> MakeEmpty, perm0 |-> MakeEmpty, i |-> 0,
   p |-> -1, lv |-> Empty, match |-> 0]

Init ==
  /\ leaf = [x \in LeafId |-> EmptyLeaf]
  /\ fresh = LayerLeaf
  /\ gcs = [k \in TopIkey |-> 0]
  /\ pc = [t \in Thread |-> "idle"]
  /\ loc = [t \in Thread |-> NoLocals]
  /\ req = [t \in Thread |-> Idle]
  /\ ops = [t \in Thread |-> 0]
  /\ map = [k \in Key |-> None]
  /\ ans = [t \in Thread |-> {}]
  /\ res = [t \in Thread |-> Idle]

-----------------------------------------------------------------------------
\* Helpers.  N(t) is the leaf that thread t is at.
N(t) == leaf[loc[t].n]
Goto(t, l) == pc' = [pc EXCEPT ![t] = l]

\* nodeversion::has_changed: compares all bits but the lock.
HasChanged(t) == N(t).inserting \/ N(t).vinsert # loc[t].v

\* ka_.ikey() in the leaf that t is at; gc_layer looks for the ikey alone.
KaIkey(t) == IF req[t].op = "gc" THEN req[t].ikey
             ELSE IF loc[t].n = Top THEN IkeyOf[req[t].key] ELSE req[t].key

\* nodeversion::unlock
Unlocked(x) == [x EXCEPT !.lock = NoThread, !.inserting = FALSE,
                         !.vinsert = IF x.inserting THEN @ + 1 ELSE @]

\* The request of t takes effect: key k is now mapped to w.
Effect(t, k, w) ==
  /\ map' = [map EXCEPT ![k] = w]
  /\ ans' = [u \in Thread |->
       IF u = t THEN {IF map[k] = None THEN "missing" ELSE "found"}
       ELSE IF req[u] # Idle /\ Get(u) /\ req[u].key = k THEN ans[u] \cup {w}
       ELSE ans[u]]
  /\ UNCHANGED res

\* The answer to t's request is a (a callback has none).
Answer(t, a) ==
  /\ res' = IF req[t].op = "gc" THEN res ELSE [res EXCEPT ![t] = a]
  /\ UNCHANGED <<map, ans>>
  /\ loc' = [loc EXCEPT ![t] = NoLocals]
  /\ Goto(t, "done")

-----------------------------------------------------------------------------
Call(t, r) ==
  /\ pc[t] = "idle"
  /\ IF r.op = "get" THEN t \in Reader /\ ops[t] < MaxGets
                      ELSE t \in Writer /\ ops[t] < MaxWrites
  /\ ops' = [ops EXCEPT ![t] = @ + 1]
  /\ req' = [req EXCEPT ![t] = r]
  /\ ans' = [ans EXCEPT ![t] = IF r.op = "get" THEN {map[r.key]} ELSE {}]
  /\ Goto(t, "stable")
  /\ UNCHANGED <<shared, loc, map, res>>

\* rcu_stop runs a registered gc_layer_rcu_callback.
RunCallback(t) ==
  /\ pc[t] = "idle" /\ t \in Writer
  /\ \E k \in TopIkey :
       /\ gcs[k] > 0
       /\ gcs' = [gcs EXCEPT ![k] = @ - 1]
       /\ req' = [req EXCEPT ![t] = [op |-> "gc", ikey |-> k]]
  /\ Goto(t, "stable")
  /\ UNCHANGED <<leaf, fresh, loc, ops, history>>

\* reach_leaf (the leaf is its layer's root) or advance_to_key: wait for a
\* stable version.
Stable(t) ==
  /\ pc[t] = "stable"
  /\ ~ N(t).inserting
  /\ loc' = [loc EXCEPT ![t] = [NoLocals EXCEPT !.n = loc[t].n, !.v = N(t).vinsert]]
  /\ Goto(t, "perm")
  /\ UNCHANGED <<shared, req, ops, history>>

\* find_unlocked searches the permutation it has read; find_locked keeps it for
\* the check under the lock, and searches the one that it reads next.
ReadPerm(t) ==
  /\ pc[t] = "perm"
  /\ loc' = [loc EXCEPT ![t] = IF Get(t) THEN [@ EXCEPT !.perm = N(t).perm]
                               ELSE [@ EXCEPT !.perm0 = N(t).perm]]
  /\ Goto(t, IF Get(t) THEN "search" ELSE "lower")
  /\ UNCHANGED <<shared, req, ops, history>>

ReadPermAgain(t) ==
  /\ pc[t] = "lower"
  /\ loc' = [loc EXCEPT ![t].perm = N(t).perm]
  /\ Goto(t, "search")
  /\ UNCHANGED <<shared, req, ops, history>>

\* key_find_lower_bound_by: compare with one more slot.  The slot matches if
\* its ikey is equal; the key of gc_layer, which has no suffix, sorts before it.
Search(t) ==
  LET x == loc[t]
      slot == At(x.perm, x.i)
      hit == x.i < x.perm.size /\ N(t).ikey[slot] = KaIkey(t) /\ req[t].op # "gc"
      more == x.i < x.perm.size /\ N(t).ikey[slot] < KaIkey(t)
  IN  /\ pc[t] = "search"
      /\ loc' = [loc EXCEPT ![t] = IF hit THEN [x EXCEPT !.p = slot, !.perm = MakeEmpty]
                                   ELSE IF more THEN [x EXCEPT !.i = @ + 1]
                                   ELSE [x EXCEPT !.perm = MakeEmpty]]
      /\ Goto(t, IF hit THEN "lv" ELSE IF more THEN "search" ELSE "check")
      /\ UNCHANGED <<shared, req, ops, history>>

ReadLv(t) ==
  /\ pc[t] = "lv"
  /\ loc' = [loc EXCEPT ![t].lv = N(t).lv[loc[t].p]]
  /\ Goto(t, "keylenx")
  /\ UNCHANGED <<shared, req, ops, history>>

\* ksuf_matches: the length tells a value from a layer, ...
ReadKeylenx(t) ==
  LET kl == N(t).keylenx[loc[t].p] IN
  /\ pc[t] = "keylenx"
  /\ loc' = [loc EXCEPT ![t].match = CASE kl = "short" -> 1
                                       [] kl = "layer" -> -1
                                       [] kl = "ksuf" -> 0]
  /\ Goto(t, IF kl = "ksuf" THEN "ksuf" ELSE "check")
  /\ UNCHANGED <<shared, req, ops, history>>

\* ... and a suffix is compared.
ReadKsuf(t) ==
  /\ pc[t] = "ksuf"
  /\ loc' = [loc EXCEPT ![t].match = IF N(t).ksuf[loc[t].p] = req[t].key THEN 1 ELSE 0]
  /\ Goto(t, "check")
  /\ UNCHANGED <<shared, req, ops, history>>

\* What t read is of one version: it goes down a layer, ...
Descend(t) ==
  /\ pc[t] = "check"
  /\ ~ HasChanged(t)
  /\ loc[t].match = -1
  /\ loc' = [loc EXCEPT ![t] = [NoLocals EXCEPT !.n = loc[t].lv]]
  /\ Goto(t, "stable")
  /\ UNCHANGED <<shared, req, ops, history>>

\* ... or a get is done; if not, the get reads the leaf again.
GetEnd(t) ==
  /\ pc[t] = "check" /\ Get(t)
  /\ \/ /\ HasChanged(t)
        /\ Goto(t, "stable")
        /\ UNCHANGED <<loc, history>>
     \/ /\ ~ HasChanged(t) /\ loc[t].match # -1
        /\ Answer(t, IF loc[t].match = 1 THEN loc[t].lv ELSE None)
  /\ UNCHANGED <<shared, req, ops>>

\* find_locked locks the leaf (nodeversion::lock spins until it can) ...
Lock(t) ==
  /\ pc[t] = "check" /\ ~ Get(t)
  /\ HasChanged(t) \/ loc[t].match # -1
  /\ N(t).lock = NoThread
  /\ leaf' = [leaf EXCEPT ![loc[t].n].lock = t]
  /\ Goto(t, "validate")
  /\ UNCHANGED <<fresh, gcs, loc, req, ops, history>>

\* Variant: the permutation is not compared.
Stale_VersionOnly(t) == HasChanged(t)

Stale(t) == HasChanged(t) \/ N(t).perm # loc[t].perm0

\* ... and starts again if the leaf has changed, or from the root if the leaf's
\* layer has been removed;
Retry(t) ==
  /\ pc[t] = "validate"
  /\ Stale(t) \/ N(t).modstate = "deleted_layer"
  /\ leaf' = [leaf EXCEPT ![loc[t].n] = Unlocked(@)]
  /\ loc' = [loc EXCEPT ![t].n = IF Stale(t) THEN @ ELSE Top]
  /\ Goto(t, "stable")
  /\ UNCHANGED <<fresh, gcs, req, ops, history>>

\* if not, the position it found is good.  (That find_locked now has a layer
\* needs a layer whose root has moved, after a split.)  A remove of a missing
\* key is done.
Found(t) ==
  /\ pc[t] = "validate"
  /\ ~ Stale(t) /\ N(t).modstate # "deleted_layer"
  /\ Goto(t, CASE req[t].op = "gc" -> "gc"
               [] req[t].op = "remove" -> IF loc[t].match = 1 THEN "remove" ELSE "unlock"
               [] req[t].op = "put" -> IF loc[t].match = 1 THEN "update"
                                       ELSE IF loc[t].p # -1 THEN "layer" ELSE "insert")
  /\ IF req[t].op = "remove" /\ loc[t].match = 0
     THEN Effect(t, req[t].key, None) ELSE UNCHANGED history
  /\ loc' = [loc EXCEPT ![t] = [@ EXCEPT !.v = 0, !.perm0 = MakeEmpty, !.lv = Empty]]
  /\ UNCHANGED <<shared, req, ops>>

-----------------------------------------------------------------------------
\* apply_put on a key that is there: swap the row pointer.
Update(t) ==
  /\ pc[t] = "update"
  /\ leaf' = [leaf EXCEPT ![loc[t].n].lv[loc[t].p] = req[t].val]
  /\ Effect(t, req[t].key, req[t].val)
  /\ Goto(t, "unlock")
  /\ UNCHANGED <<fresh, gcs, loc, req, ops>>

\* find_insert: the first insert after a remove makes readers retry; then take
\* the slot at the back.
Insert(t) ==
  /\ pc[t] = "insert"
  /\ N(t).perm.size < W
  /\ leaf' = [leaf EXCEPT ![loc[t].n].inserting = @ \/ N(t).modstate # "insert",
                          ![loc[t].n].modstate = "insert"]
  /\ loc' = [loc EXCEPT ![t].p = Back(N(t).perm)]
  /\ Goto(t, "a_lv")
  /\ UNCHANGED <<fresh, gcs, req, ops, history>>

\* leaf::assign, field by field.
AssignLv(t) ==
  /\ pc[t] = "a_lv"
  /\ leaf' = [leaf EXCEPT ![loc[t].n].lv[loc[t].p] = Empty]
  /\ Goto(t, "a_ikey")
  /\ UNCHANGED <<fresh, gcs, loc, req, ops, history>>

AssignIkey(t) ==
  /\ pc[t] = "a_ikey"
  /\ leaf' = [leaf EXCEPT ![loc[t].n].ikey[loc[t].p] = KaIkey(t)]
  /\ Goto(t, "a_keylenx")
  /\ UNCHANGED <<fresh, gcs, loc, req, ops, history>>

AssignKeylenx(t) ==
  LET top == loc[t].n = Top IN
  /\ pc[t] = "a_keylenx"
  /\ leaf' = [leaf EXCEPT ![loc[t].n].keylenx[loc[t].p] = IF top THEN "ksuf" ELSE "short"]
  /\ Goto(t, IF top THEN "a_ksuf" ELSE "value")
  /\ UNCHANGED <<fresh, gcs, loc, req, ops, history>>

\* assign_ksuf: in place, or in a new bag to which only the suffixes of the
\* slots in use are copied.
AssignKsuf(t) ==
  /\ pc[t] = "a_ksuf"
  /\ \E copied \in {Slot, InUse(N(t).perm)} :
       leaf' = [leaf EXCEPT ![loc[t].n].ksuf =
                  [p \in Slot |-> IF p = loc[t].p THEN req[t].key
                                  ELSE IF p \in copied THEN @[p] ELSE NoSuffix]]
  /\ Goto(t, "value")
  /\ UNCHANGED <<fresh, gcs, loc, req, ops, history>>

\* apply_put stores the row, ...
AssignValue(t) ==
  /\ pc[t] = "value"
  /\ leaf' = [leaf EXCEPT ![loc[t].n].lv[loc[t].p] = req[t].val]
  /\ Goto(t, "publish")
  /\ UNCHANGED <<fresh, gcs, loc, req, ops, history>>

\* ... finish_insert makes the slot visible.
FinishInsert(t) ==
  /\ pc[t] = "publish"
  /\ leaf' = [leaf EXCEPT ![loc[t].n].perm = InsertFromBack(@, loc[t].i)]
  /\ Effect(t, req[t].key, req[t].val)
  /\ Goto(t, "unlock")
  /\ UNCHANGED <<fresh, gcs, loc, req, ops>>

\* Variant: the value of the old key is not moved.
NewLeaf_NoValue(t, o) ==
  [EmptyLeaf EXCEPT
     !.lock = t,
     !.ikey = [@ EXCEPT ![o] = N(t).ksuf[loc[t].p], ![1 - o] = req[t].key],
     !.perm = IF o = 0 THEN MakeSorted(1) ELSE RemoveToBack(MakeSorted(2), 0)]

\* make_new_layer: the new leaf, locked, with the old key in slot o and the new
\* one, not visible yet, in the other.
NewLeaf(t, o) ==
  [EmptyLeaf EXCEPT
     !.lock = t,
     !.ikey = [@ EXCEPT ![o] = N(t).ksuf[loc[t].p], ![1 - o] = req[t].key],
     !.lv = [@ EXCEPT ![o] = N(t).lv[loc[t].p]],
     !.perm = IF o = 0 THEN MakeSorted(1) ELSE RemoveToBack(MakeSorted(2), 0)]

\* Variant: no mark_insert.
MakeNewLayer_NoMark(t) ==
  LET o == IF N(t).ksuf[loc[t].p] < req[t].key THEN 0 ELSE 1
  IN  /\ pc[t] = "layer"
      /\ \E y \in fresh :
           /\ fresh' = fresh \ {y}
           /\ leaf' = [leaf EXCEPT ![y] = NewLeaf(t, o)]
           /\ loc' = [loc EXCEPT ![t].lv = y, ![t].i = 1 - o]
      /\ Goto(t, "l_lv")
      /\ UNCHANGED <<gcs, req, ops, history>>

\* mark_insert, because two stores turn the slot into a layer: ...
MakeNewLayer(t) ==
  LET o == IF N(t).ksuf[loc[t].p] < req[t].key THEN 0 ELSE 1
  IN  /\ pc[t] = "layer"
      /\ \E y \in fresh :
           /\ fresh' = fresh \ {y}
           /\ leaf' = [leaf EXCEPT ![y] = NewLeaf(t, o), ![loc[t].n].inserting = TRUE]
           /\ loc' = [loc EXCEPT ![t].lv = y, ![t].i = 1 - o]
      /\ Goto(t, "l_lv")
      /\ UNCHANGED <<gcs, req, ops, history>>

\* ... first the pointer, ...
SetLayer(t) ==
  /\ pc[t] = "l_lv"
  /\ leaf' = [leaf EXCEPT ![loc[t].n].lv[loc[t].p] = loc[t].lv]
  /\ Goto(t, "l_keylenx")
  /\ UNCHANGED <<fresh, gcs, loc, req, ops, history>>

\* ... then the length.
SetLayerKeylenx(t) ==
  /\ pc[t] = "l_keylenx"
  /\ leaf' = [leaf EXCEPT ![loc[t].n].keylenx[loc[t].p] = "layer"]
  /\ Goto(t, "l_unlock")
  /\ UNCHANGED <<fresh, gcs, loc, req, ops, history>>

\* The insert goes on in the new leaf.
UnlockUpper(t) ==
  /\ pc[t] = "l_unlock"
  /\ leaf' = [leaf EXCEPT ![loc[t].n] = Unlocked(@)]
  /\ loc' = [loc EXCEPT ![t].n = loc[t].lv, ![t].p = loc[t].i]
  /\ Goto(t, "value")
  /\ UNCHANGED <<fresh, gcs, req, ops, history>>

-----------------------------------------------------------------------------
\* finish_remove: the first remove after an insert makes readers retry; ...
MarkRemove(t) ==
  /\ pc[t] = "remove"
  /\ leaf' = [leaf EXCEPT ![loc[t].n].inserting = @ \/ N(t).modstate = "insert",
                          ![loc[t].n].modstate = "remove"]
  /\ Goto(t, "r_perm")
  /\ UNCHANGED <<fresh, gcs, loc, req, ops, history>>

\* ... the slot is taken out.  remove_leaf: the last key of a layer registers a
\* callback to remove the layer; the root leaf stays.
FinishRemove(t) ==
  /\ pc[t] = "r_perm"
  /\ leaf' = [leaf EXCEPT ![loc[t].n].perm = Remove(@, loc[t].i)]
  /\ gcs' = IF loc[t].n # Top /\ N(t).perm.size = 1
            THEN [gcs EXCEPT ![IkeyOf[req[t].key]] = @ + 1] ELSE gcs
  /\ IF req[t].op = "gc" THEN UNCHANGED history ELSE Effect(t, req[t].key, None)
  /\ Goto(t, "unlock")
  /\ UNCHANGED <<fresh, loc, req, ops>>

\* gc_layer, Top locked: is the slot at the position found an empty layer?
GcLayer(t) ==
  LET x == loc[t]
      p == At(N(t).perm, x.i)
      y == N(t).lv[p]
  IN  /\ pc[t] = "gc"
      /\ \/ /\ x.i < N(t).perm.size
            /\ N(t).ikey[p] = KaIkey(t) /\ N(t).keylenx[p] = "layer"
            /\ leaf[y].perm.size = 0
            /\ loc' = [loc EXCEPT ![t].lv = y]
            /\ Goto(t, "gc_lock")
         \/ /\ \/ x.i >= N(t).perm.size
               \/ N(t).ikey[p] # KaIkey(t) \/ N(t).keylenx[p] # "layer"
               \/ leaf[y].perm.size > 0
            /\ Goto(t, "unlock")
            /\ UNCHANGED loc
      /\ UNCHANGED <<shared, req, ops, history>>

\* Variant: the emptiness of the leaf is not checked again under its lock.
GcLock_NoRecheck(t) ==
  LET y == loc[t].lv IN
  /\ pc[t] = "gc_lock"
  /\ leaf[y].lock = NoThread
  /\ leaf' = [leaf EXCEPT ![y].modstate = "deleted_layer"]
  /\ Goto(t, "remove")
  /\ UNCHANGED <<fresh, gcs, loc, req, ops, history>>

\* With the layer's leaf locked too: if it is still empty, kill it.  (Locked
\* until unlocked it is seen by other lockers only: one action.)
GcLock(t) ==
  LET y == loc[t].lv IN
  /\ pc[t] = "gc_lock"
  /\ leaf[y].lock = NoThread
  /\ \/ /\ leaf[y].perm.size = 0
        /\ leaf' = [leaf EXCEPT ![y].modstate = "deleted_layer"]
        /\ Goto(t, "remove")
     \/ /\ leaf[y].perm.size > 0
        /\ Goto(t, "unlock")
        /\ UNCHANGED leaf
  /\ UNCHANGED <<fresh, gcs, loc, req, ops, history>>

\* Variant: the lock is not given back.
Unlock_Forgets(t) ==
  /\ pc[t] = "unlock"
  /\ leaf' = [leaf EXCEPT ![loc[t].n].inserting = FALSE]
  /\ Answer(t, IF loc[t].match = 1 THEN "found" ELSE "missing")
  /\ UNCHANGED <<fresh, gcs, req, ops>>

\* finish: unlock; the answer tells Updated from Inserted, or found.
Unlock(t) ==
  /\ pc[t] = "unlock"
  /\ leaf' = [leaf EXCEPT ![loc[t].n] = Unlocked(@)]
  /\ Answer(t, IF loc[t].match = 1 THEN "found" ELSE "missing")
  /\ UNCHANGED <<fresh, gcs, req, ops>>

Return(t) ==
  /\ pc[t] = "done"
  /\ req' = [req EXCEPT ![t] = Idle]
  /\ ans' = [ans EXCEPT ![t] = {}]
  /\ res' = [res EXCEPT ![t] = Idle]
  /\ Goto(t, "idle")
  /\ UNCHANGED <<shared, loc, ops, map>>

-----------------------------------------------------------------------------
Step(t) ==
  \/ Stable(t) \/ ReadPerm(t) \/ ReadPermAgain(t) \/ Search(t)
  \/ ReadLv(t) \/ ReadKeylenx(t) \/ ReadKsuf(t)
  \/ Descend(t) \/ GetEnd(t) \/ Lock(t) \/ Retry(t) \/ Found(t)
  \/ Update(t) \/ Insert(t) \/ AssignLv(t) \/ AssignIkey(t) \/ AssignKeylenx(t)
  \/ AssignKsuf(t) \/ AssignValue(t) \/ FinishInsert(t)
  \/ MakeNewLayer(t) \/ SetLayer(t) \/ SetLayerKeylenx(t) \/ UnlockUpper(t)
  \/ MarkRemove(t) \/ FinishRemove(t) \/ GcLayer(t) \/ GcLock(t)
  \/ Unlock(t) \/ Return(t)

Next ==
  \E t \in Thread : Step(t) \/ RunCallback(t) \/ \E r \in Request : Call(t, r)

Spec == Init /\ [][Next]_vars

\* A thread with a request keeps running, also while it waits for a lock or for
\* a stable version (both spin).
FairSpec == Spec /\ \A t \in Thread : WF_vars(Step(t))

-----------------------------------------------------------------------------
\* What a lookup of k finds when nothing else runs.
In(x, ik) == {p \in InUse(leaf[x].perm) : leaf[x].ikey[p] = ik}
Lookup(k) ==
  LET ps == In(Top, IkeyOf[k]) IN
  IF ps = {} THEN None
  ELSE LET p == CHOOSE q \in ps : TRUE
           w == leaf[Top].lv[p]
       IN  IF w \in LayerLeaf
           THEN LET qs == In(w, k)
                IN  IF qs = {} THEN None ELSE leaf[w].lv[CHOOSE q \in qs : TRUE]
           ELSE IF leaf[Top].ksuf[p] = k THEN w ELSE None

\* The leaves hold the table at every moment, also halfway through an insert, a
\* new layer or the removal of a layer: no key is lost, resurrected or mapped
\* to a value it was not given.
ContentIsMap == \A k \in Key : Lookup(k) = map[k]

\* What is read between two equal versions belongs together: a value is taken
\* for a value and a layer for a layer, although length and pointer are stored
\* separately (the comment of make_new_layer), and a slot being assigned is
\* never used.
ReadsAreWhole ==
  \A t \in Thread :
    pc[t] = "check" /\ ~ HasChanged(t) =>
      /\ loc[t].match = 1 => loc[t].lv \in Val
      /\ loc[t].match = -1 => loc[t].lv \in LayerLeaf \ fresh

\* A layer that has been removed stays empty, and once its callback is through
\* Top does not lead to it: no insert goes into a leaf that is to be freed.
DeadLayersAreEmpty ==
  \A y \in LayerLeaf :
    leaf[y].modstate = "deleted_layer" =>
      /\ leaf[y].perm.size = 0
      /\ \/ \E t \in Thread : pc[t] \in {"remove", "r_perm"} /\ loc[t].lv = y
         \/ \A p \in InUse(leaf[Top].perm) : leaf[Top].lv[p] # y

\* Gets, puts and removes are linearizable.
KM == INSTANCE KeyMap WITH
        req <- [t \in Thread |-> IF req[t] \in GcRequest THEN Idle ELSE req[t]]
Linearizable == KM!Spec

\* Every request and every callback ends, if only finitely many requests come.
RequestsReturn == \A t \in Thread : pc[t] # "idle" ~> pc[t] = "idle"
=============================================================================
