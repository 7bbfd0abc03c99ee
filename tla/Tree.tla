-------------------------------- MODULE Tree --------------------------------
EXTENDS Permuter, FiniteSets
SX == INSTANCE SequencesExt

(***************************************************************************)
(* One layer of a Masstree: leaves, internodes above them, and what        *)
(* happens when leaves split (masstree_split.hh) and empty leaves are      *)
(* taken out (masstree_remove.hh) while other threads go down the tree     *)
(* without locks (reach_leaf, advance_to_key in masstree_struct.hh).       *)
(*                                                                         *)
(* An action stops wherever another thread can tell: before each lock, at  *)
(* each version that is read or becomes readable, and between the changes  *)
(* of two nodes.  The slots of one leaf are taken in one look: that this   *)
(* is sound is what Leaf checks.  The leaf list is changed in one step:    *)
(* LeafLink has its steps.  Version counters are numbers here and a word   *)
(* in NodeVersion.                                                         *)
(***************************************************************************)

CONSTANTS
  Key,         \* a set of numbers, in key order
  IkeyOf,      \* the slice of each key, all that internodes keep
  Width,       \* internode_width
  Thread, NoThread, None, Idle,
  Loader,      \* the thread that builds the tree before the others start
  Scenario,    \* [load : requests of Loader in order,
               \*  calls : per thread the requests that it may get then]
  MaxOps       \* bound on the number of calls, per thread

Val == {"present"}     \* what a key is mapped to does not matter here
Ikey == {IkeyOf[k] : k \in Key}

ASSUME TreeKeyAssumption == Key \subseteq Nat \ {0} /\ IkeyOf \in [Key -> Nat]
ASSUME OrderAssumption == \A j, k \in Key : j < k => IkeyOf[j] <= IkeyOf[k]
\* In the code at most 10 keys of a layer have one slice, and W is 15: fewer keys
\* than a leaf has when it splits (W - 1 if the slot of its bound stays unused).
ASSUME SliceAssumption ==
  \A i \in Ikey :
    LET same == {k \in Key : IkeyOf[k] = i} IN IsFiniteSet(same) /\ Cardinality(same) < W
ASSUME WidthsAssumption == W >= 3 /\ Width \in Nat /\ Width >= 2
ASSUME ThreadAssumption == NoThread \notin Thread /\ Loader \in Thread
ASSUME ScenarioAssumption ==
  \A s \in Scenario :
    LET all == SX!Range(s.load) \cup UNION {s.calls[t] : t \in Thread} IN
    /\ s \in [load : Seq(all), calls : [Thread -> SUBSET all]]
    /\ \A r \in all : r # Idle /\ r.key \in Key
ASSUME IdleAssumption == None # "present" /\ Idle \notin {None, "present", "found", "missing"}

VARIABLES
  node,        \* the nodes made so far: version, lock, parent, fields of the kind
  root,        \* root_, or the slot of the layer above that leads here
  trims,       \* gc_layer_rcu_callbacks registered
  pc, loc,     \* per thread: position and locals
  req, ops,    \* per thread: request, number of calls so far
  pre,         \* the scenario, without the requests Loader has served
  map, ans, res

history == <<map, ans, res>>
vars == <<node, root, trims, pc, loc, req, ops, pre, history>>

-----------------------------------------------------------------------------
(* Nodes *)

Nil == 0
NodeId == DOMAIN node

Version0 ==
  [vinsert |-> 0, vsplit |-> 0, inserting |-> FALSE, splitting |-> FALSE,
   root |-> FALSE, deleted |-> FALSE]

EmptyNode ==
  [kind |-> "leaf", lock |-> NoThread, ver |-> Version0, parent |-> Nil,
   perm |-> MakeEmpty, slot |-> [p \in Slot |-> 0], modstate |-> "insert",
   next |-> Nil, prev |-> Nil,                       \* leaves
   ikeys |-> <<>>, child |-> <<>>, height |-> 0]     \* internodes

IsLeaf(x) == node[x].kind = "leaf"
Fresh == Len(node) + 1

Keys(x) == {x.slot[p] : p \in InUse(x.perm)}
Bound(x) == IF x.slot[0] = 0 THEN 0 ELSE IkeyOf[x.slot[0]]    \* ikey_bound
Position(x, k) == Cardinality({j \in Keys(x) : j < k})

\* internode::bound_type::upper
Upper(i, x) == Cardinality({j \in DOMAIN x.ikeys : x.ikeys[j] <= i})
ChildAt(x, kp) == x.child[kp + 1]

\* nodeversion
Dirty(x) == node[x].ver.inserting \/ node[x].ver.splitting
HasChanged(x, v) == node[x].ver # v
HasSplit_FlagsOnly(v, w) == v.root # w.root \/ v.deleted # w.deleted
HasSplit(v, w) ==
  v.vsplit # w.vsplit \/ v.root # w.root \/ v.deleted # w.deleted
Unlocked(x) ==
  LET v == x.ver
      new == IF v.splitting
             THEN [v EXCEPT !.vsplit = v.vsplit + 1, !.vinsert = 0, !.root = FALSE,
                            !.inserting = FALSE, !.splitting = FALSE]
             ELSE [v EXCEPT !.vinsert = IF v.inserting THEN v.vinsert + 1 ELSE v.vinsert,
                            !.inserting = FALSE]
  IN  [x EXCEPT !.lock = NoThread, !.ver = new]
MaybeParent(x) == IF node[x].parent = Nil THEN x ELSE node[x].parent

\* stable_last_key_compare(k, ...) > 0, for a stable node
BeyondLast(x, k) ==
  LET y == node[x] IN
  IF IsLeaf(x) THEN k > y.slot[At(y.perm, IF y.perm.size > 0 THEN y.perm.size - 1 ELSE 0)]
  ELSE y.ikeys = <<>> \/ IkeyOf[k] > SX!Last(y.ikeys)

-----------------------------------------------------------------------------
(* Threads *)

NoLocals ==
  [start |-> Nil,                     \* where reach_leaf begins
   n |-> Nil, v |-> Version0,         \* n[sense], v[sense]
   c |-> Nil, cv |-> Version0]        \* n[sense ^ 1], v[sense ^ 1]

WriteLocals(x) ==
  [n |-> x,          \* the node being inserted above, or taken out
   leaf |-> x,       \* n_
   child |-> Nil,    \* the new right sibling of n; when removing, replacement
   p |-> Nil,        \* the parent of n that is being locked
   ikey |-> 0,       \* xikey[sense]; when removing, ikey
   ikey2 |-> 0,      \* xikey[sense ^ 1]; in redirect, replacement_ikey
   next |-> Nil,     \* next_child; in redirect, n
   kp |-> -1,        \* of redirect
   held |-> Nil,     \* p of remove_leaf
   split |-> 0,      \* split_type
   height |-> 0,
   mode |-> "insert"]

Init ==
  /\ node = <<[EmptyNode EXCEPT !.ver.root = TRUE]>>
  /\ root = 1
  /\ trims = 0
  /\ pc = [t \in Thread |-> "idle"]
  /\ loc = [t \in Thread |-> NoLocals]
  /\ req = [t \in Thread |-> Idle]
  /\ ops = [t \in Thread |-> 0]
  /\ pre \in Scenario
  /\ map = [k \in Key |-> None]
  /\ ans = [t \in Thread |-> {}]
  /\ res = [t \in Thread |-> Idle]

Goto(t, l) == pc' = [pc EXCEPT ![t] = l]
K(t) == req[t].key
Write(r) == r.op \in {"put", "remove"}

\* The request of t takes effect: key k is mapped to w.
Effect(t, k, w) ==
  /\ UNCHANGED res
  /\ map' = [map EXCEPT ![k] = w]
  /\ ans' = [u \in Thread |->
       IF u = t THEN {IF map[k] = None THEN "missing" ELSE "found"}
       ELSE IF req[u] # Idle /\ req[u].op = "get" /\ req[u].key = k THEN ans[u] \cup {w}
       ELSE ans[u]]

\* A put or remove is over: it has unlocked and knows whether the key was there.
Finish(t, a) ==
  /\ loc' = [loc EXCEPT ![t] = NoLocals]
  /\ Goto(t, a)

Answer(t, a) ==
  /\ res' = [res EXCEPT ![t] = a]
  /\ loc' = [loc EXCEPT ![t] = NoLocals]
  /\ Goto(t, "done")
  /\ UNCHANGED <<map, ans>>

Trimming == \E u \in Thread : pc[u] \in {"trim", "trim_child", "trim_old"}

\* basic_table::root() for a get; fix_root() for a cursor that may write.  (In a
\* lower layer find_locked does this, with the leaf above locked.)
FixRoot == IF node[root].ver.root THEN root ELSE MaybeParent(root)

Start(t, r) ==
  /\ pc[t] = "idle"
  /\ Write(r) => node[root].ver.root \/ ~ Trimming
  /\ root' = IF Write(r) THEN FixRoot ELSE root
  /\ req' = [req EXCEPT ![t] = r]
  /\ ans' = [ans EXCEPT ![t] = IF r.op = "get" THEN {map[r.key]} ELSE {}]
  /\ loc' = [loc EXCEPT ![t] = [NoLocals EXCEPT !.start = root', !.n = root']]
  /\ Goto(t, "root")
  /\ UNCHANGED <<node, trims, map, res>>

Load ==
  /\ pre.load # <<>>
  /\ Start(Loader, Head(pre.load))
  /\ pre' = [pre EXCEPT !.load = Tail(@)]
  /\ UNCHANGED ops

Loaded == pre.load = <<>> /\ (ops[Loader] = 0 => req[Loader] = Idle)

Call(t) ==
  /\ Loaded
  /\ ops[t] < MaxOps
  /\ \E r \in pre.calls[t] : Start(t, r)
  /\ ops' = [ops EXCEPT ![t] = @ + 1]
  /\ UNCHANGED pre

-----------------------------------------------------------------------------
(* Going down: reach_leaf and advance_to_key *)

\* retry: in reach_leaf
FromStart(t) == [NoLocals EXCEPT !.start = loc[t].start, !.n = loc[t].start]

\* Get a non-stale root.
ReachRoot(t) ==
  LET n == loc[t].n IN
  /\ pc[t] = "root"
  /\ ~ Dirty(n)
  /\ IF node[n].ver.root
     THEN /\ loc' = [loc EXCEPT ![t].v = node[n].ver]
          /\ Goto(t, IF IsLeaf(n) THEN "leaf" ELSE "down")
     ELSE /\ loc' = [loc EXCEPT ![t].n = MaybeParent(n)]
          /\ UNCHANGED pc
  /\ UNCHANGED <<node, root, trims, req, ops, pre, history>>

ReadChild(t) ==
  LET in == node[loc[t].n]
      c == ChildAt(in, Upper(IkeyOf[K(t)], in))
  IN  /\ pc[t] = "down"
      /\ IF c = Nil
         THEN loc' = [loc EXCEPT ![t] = FromStart(t)] /\ Goto(t, "root")
         ELSE loc' = [loc EXCEPT ![t].c = c] /\ Goto(t, "child")
      /\ UNCHANGED <<node, root, trims, req, ops, pre, history>>

ChildVersion(t) ==
  /\ pc[t] = "child"
  /\ ~ Dirty(loc[t].c)
  /\ loc' = [loc EXCEPT ![t].cv = node[loc[t].c].ver]
  /\ Goto(t, "check")
  /\ UNCHANGED <<node, root, trims, req, ops, pre, history>>

GoDown_NoCheck(t) ==
  /\ pc[t] = "check"
  /\ loc' = [loc EXCEPT ![t] = [NoLocals EXCEPT !.start = loc[t].start, !.n = loc[t].c,
                                                !.v = loc[t].cv]]
  /\ Goto(t, IF IsLeaf(loc[t].c) THEN "leaf" ELSE "down")
  /\ UNCHANGED <<node, root, trims, req, ops, pre, history>>

\* The child is taken if the internode has not changed since v.
GoDown(t) ==
  /\ pc[t] = "check"
  /\ ~ HasChanged(loc[t].n, loc[t].v)
  /\ loc' = [loc EXCEPT ![t] = [NoLocals EXCEPT !.start = loc[t].start, !.n = loc[t].c,
                                                !.v = loc[t].cv]]
  /\ Goto(t, IF IsLeaf(loc[t].c) THEN "leaf" ELSE "down")
  /\ UNCHANGED <<node, root, trims, req, ops, pre, history>>

\* If it has split and the key may have moved away, begin again at the root.
CheckAgain(t) ==
  LET x == loc[t] IN
  /\ pc[t] = "check"
  /\ HasChanged(x.n, x.v) /\ ~ Dirty(x.n)
  /\ IF HasSplit(x.v, node[x.n].ver) /\ BeyondLast(x.n, K(t))
     THEN loc' = [loc EXCEPT ![t] = FromStart(t)] /\ Goto(t, "root")
     ELSE /\ loc' = [loc EXCEPT ![t] = [x EXCEPT !.v = node[x.n].ver, !.c = Nil, !.cv = Version0]]
          /\ Goto(t, "down")
  /\ UNCHANGED <<node, root, trims, req, ops, pre, history>>

\* forward: a deleted leaf sends the thread back to the root.
DeletedLeaf(t) ==
  /\ pc[t] = "leaf" /\ loc[t].v.deleted
  /\ loc' = [loc EXCEPT ![t] = FromStart(t)]
  /\ Goto(t, "root")
  /\ UNCHANGED <<node, root, trims, req, ops, pre, history>>

\* advance_to_key after a change: stay, or walk to the right after a split.
\* (A scan that starts again takes the leaf as it is.)
Advance(t) ==
  LET x == loc[t]
      v == node[x.n].ver
  IN  /\ pc[t] = "leaf" /\ req[t].op # "rescan" /\ ~ x.v.deleted
      /\ HasChanged(x.n, x.v) /\ ~ Dirty(x.n)
      /\ loc' = [loc EXCEPT ![t].v = v]
      /\ Goto(t, IF HasSplit(x.v, v) /\ BeyondLast(x.n, K(t)) THEN "walk" ELSE "leaf")
      /\ UNCHANGED <<node, root, trims, req, ops, pre, history>>

Walk(t) ==
  LET x == loc[t]
      next == node[x.n].next
  IN  /\ pc[t] = "walk"
      /\ IF ~ x.v.deleted /\ next # Nil /\ IkeyOf[K(t)] >= Bound(node[next])
         THEN loc' = [loc EXCEPT ![t] = [x EXCEPT !.n = next]] /\ Goto(t, "walked")
         ELSE Goto(t, "leaf") /\ UNCHANGED loc
      /\ UNCHANGED <<node, root, trims, req, ops, pre, history>>

Walked(t) ==
  /\ pc[t] = "walked"
  /\ ~ Dirty(loc[t].n)
  /\ loc' = [loc EXCEPT ![t].v = node[loc[t].n].ver]
  /\ Goto(t, "walk")
  /\ UNCHANGED <<node, root, trims, req, ops, pre, history>>

\* find_unlocked has found the leaf, of version v.
GetEnd(t) ==
  LET x == loc[t] IN
  /\ pc[t] = "leaf" /\ req[t].op = "get"
  /\ ~ x.v.deleted /\ ~ HasChanged(x.n, x.v)
  /\ Answer(t, IF K(t) \in Keys(node[x.n]) THEN "present" ELSE None)
  /\ UNCHANGED <<node, root, trims, req, ops, pre>>

-----------------------------------------------------------------------------
(* Writers: find_locked, find_insert, finish_insert *)

\* find_locked locks the leaf and looks again.
LockLeaf(t) ==
  LET x == loc[t] IN
  /\ pc[t] = "leaf" /\ Write(req[t])
  /\ ~ x.v.deleted /\ ~ HasChanged(x.n, x.v)
  /\ node[x.n].lock = NoThread
  /\ node' = [node EXCEPT ![x.n].lock = t]
  /\ loc' = [loc EXCEPT ![t] = WriteLocals(x.n)]
  /\ Goto(t, "locked")
  /\ UNCHANGED <<root, trims, req, ops, pre, history>>

\* A put finds its key, or a remove does not.
Nothing(t) ==
  LET x == loc[t].leaf IN
  /\ pc[t] = "locked"
  /\ (req[t].op = "put") = (K(t) \in Keys(node[x]))
  /\ node' = [node EXCEPT ![x] = Unlocked(@)]
  /\ Effect(t, K(t), map[K(t)])
  /\ Finish(t, IF req[t].op = "put" THEN "found" ELSE "missing")
  /\ UNCHANGED <<root, trims, req, ops, pre>>

\* find_insert: the first insert after a remove makes readers retry.
Inserting(x) == [x EXCEPT !.ver.inserting = @ \/ x.modstate = "remove", !.modstate = "insert"]

\* Slot 0 holds the leaf's bound: it is not used again, except for that slice
\* or in the first leaf.
SlotIsFree(x, k) == Back(x.perm) # 0 \/ x.prev = Nil \/ Bound(x) = IkeyOf[k]

\* make_split may find another free slot.
OtherSlot(x) == [x EXCEPT !.perm = Exchange(@, @.size, W - 1)]

WithSlot(x, k) == IF SlotIsFree(x, k) THEN x ELSE OtherSlot(x)

HasRoom(x, k) == x.perm.size < W /\ (SlotIsFree(x, k) \/ Back(OtherSlot(x).perm) # 0)

\* leaf::assign and finish_insert
Inserted(x, k) ==
  [x EXCEPT !.slot[Back(x.perm)] = k, !.perm = InsertFromBack(@, Position(x, k))]

InsertHere(t) ==
  LET n == loc[t].leaf
      x == Inserting(node[n])
  IN  /\ pc[t] = "locked" /\ req[t].op = "put"
      /\ K(t) \notin Keys(x) /\ HasRoom(x, K(t))
      /\ node' = [node EXCEPT ![n] = Unlocked(Inserted(WithSlot(x, K(t)), K(t)))]
      /\ Effect(t, K(t), "present")
      /\ Finish(t, "missing")
      /\ UNCHANGED <<root, trims, req, ops, pre>>

-----------------------------------------------------------------------------
(* make_split *)

\* ikey_after_insert: the leaf's keys and k in order, counted from 0.
AfterInsert(x, k, i) ==
  LET p == Position(x, k) IN
  IF i < p THEN x.slot[At(x.perm, i)] ELSE IF i = p THEN k ELSE x.slot[At(x.perm, i - 1)]

\* leaf::split_into: the first item of the right leaf.  Keys of one slice stay
\* together, so the point moves to the closest change of slice.
SplitPoint(x, k) ==
  LET width == x.perm.size
      p == Position(x, k)
      mid == IF p = 0 /\ x.prev = Nil THEN 1
             ELSE IF p = width /\ x.next = Nil THEN width
             ELSE W \div 2 + 1
      Slice(i) == IkeyOf[AfterInsert(x, k, i)]
      Right(d) == mid + d <= width /\ Slice(mid + d) # Slice(mid)
      Left(d) == mid - 1 - d >= 0 /\ Slice(mid - 1 - d) # Slice(mid)
      ds == {d \in 1 .. width : Right(d) \/ Left(d)}
      d0 == CHOOSE d \in ds : \A e \in ds : d <= e
  IN  IF Slice(mid) # Slice(mid - 1) THEN mid
      ELSE IF Right(d0) THEN mid + d0 ELSE mid - d0

\* Fill the new leaf and link it into the list (btree_leaflink::link_split);
\* the items it gets stay in the left leaf too, for now.  assign_version copies
\* the version of the left leaf, the lock and the root bit included.
SplitLeaf(t) ==
  LET n == loc[t].leaf
      k == K(t)
      x == Inserting(node[n])
      width == x.perm.size
      p == Position(x, k)
      mid == SplitPoint(x, k)
      c == Fresh
      nr == [x EXCEPT !.perm = IF p >= mid THEN RemoveToBack(MakeSorted(width + 1 - mid), p - mid)
                               ELSE MakeSorted(width + 1 - mid),
                      !.slot = [s \in Slot |-> IF s <= width - mid THEN AfterInsert(x, k, mid + s)
                                               ELSE 0],
                      !.modstate = "insert", !.parent = Nil, !.prev = n]
  IN  /\ pc[t] = "locked" /\ req[t].op = "put"
      /\ k \notin Keys(x) /\ ~ HasRoom(x, k)
      /\ node' = Append([y \in NodeId |->
           IF y = n THEN [x EXCEPT !.next = c]
           ELSE IF y = x.next THEN [node[y] EXCEPT !.prev = c] ELSE node[y]], nr)
      /\ loc' = [loc EXCEPT ![t] = [@ EXCEPT !.child = c, !.ikey = Bound(nr),
                   !.split = IF p < mid THEN 0 ELSE IF mid = width THEN 2 ELSE 1]]
      /\ Goto(t, "parent")
      /\ UNCHANGED <<root, trims, req, ops, pre, history>>

-----------------------------------------------------------------------------
(* locked_parent: redirect has a node of its own, the other loops are at n *)

Who(t) == IF loc[t].mode = "redirect" THEN loc[t].next ELSE loc[t].n

ReadParent(t) ==
  LET p == node[Who(t)].parent IN
  /\ pc[t] = "parent"
  /\ loc' = [loc EXCEPT ![t].p = p]
  /\ Goto(t, IF p = Nil THEN loc[t].mode ELSE "lock")
  /\ UNCHANGED <<node, root, trims, req, ops, pre, history>>

LockParent_NoCheck(t) ==
  LET p == loc[t].p IN
  /\ pc[t] = "lock"
  /\ node[p].lock = NoThread
  /\ node' = [node EXCEPT ![p].lock = t] /\ Goto(t, loc[t].mode)
  /\ UNCHANGED <<root, trims, loc, req, ops, pre, history>>

\* The parent may have changed before it is locked.
LockParent(t) ==
  LET p == loc[t].p IN
  /\ pc[t] = "lock"
  /\ node[p].lock = NoThread
  /\ IF node[Who(t)].parent = p
     THEN node' = [node EXCEPT ![p].lock = t] /\ Goto(t, loc[t].mode)
     ELSE Goto(t, "parent") /\ UNCHANGED node
  /\ UNCHANGED <<root, trims, loc, req, ops, pre, history>>

-----------------------------------------------------------------------------
(* make_split, one level up: put the new sibling of n above it *)

NewInternode(h, first, i, second) ==
  [EmptyNode EXCEPT !.kind = "inner", !.height = h, !.ikeys = <<i>>, !.child = <<first, second>>]

\* No parent: n gets a new one, the root of the tree.
NewRoot(t) ==
  LET x == loc[t]
      nn == Fresh
  IN  /\ pc[t] = "insert" /\ x.p = Nil
      /\ node' = Append([node EXCEPT ![x.n].parent = nn, ![x.child].parent = nn],
           [NewInternode(x.height + 1, x.n, x.ikey, x.child) EXCEPT !.ver.root = TRUE])
      /\ loc' = [loc EXCEPT ![t].next = Nil]
      /\ Goto(t, "strip")
      /\ UNCHANGED <<root, trims, req, ops, pre, history>>

\* A parent higher than a parent should be, after removals: a new one goes
\* between.
Rectify(t) ==
  LET x == loc[t]
      nn == Fresh
      kp == Upper(x.ikey, node[x.p])
  IN  /\ pc[t] = "insert" /\ x.p # Nil /\ node[x.p].height > x.height + 1
      /\ node' = Append([node EXCEPT ![x.n].parent = nn, ![x.child].parent = nn,
                           ![x.p].ver.inserting = TRUE, ![x.p].child[kp + 1] = nn],
           [NewInternode(x.height + 1, x.n, x.ikey, x.child) EXCEPT !.parent = x.p])
      /\ loc' = [loc EXCEPT ![t].next = Nil]
      /\ Goto(t, "strip")
      /\ UNCHANGED <<root, trims, req, ops, pre, history>>

\* internode::assign at kp, after shift_up
WithChild(p, kp, i, c) ==
  [p EXCEPT !.ikeys = SX!InsertAt(@, kp + 1, i), !.child = SX!InsertAt(@, kp + 2, c)]

InsertChild(t) ==
  LET x == loc[t]
      p == node[x.p]
      kp == Upper(x.ikey, p)
  IN  /\ pc[t] = "insert" /\ x.p # Nil /\ p.height <= x.height + 1
      /\ Len(p.ikeys) < Width
      /\ node' = [node EXCEPT
           ![x.p] = [WithChild(p, kp, x.ikey, x.child) EXCEPT !.ver.inserting = TRUE],
           ![x.child].parent = x.p]
      /\ loc' = [loc EXCEPT ![t].next = Nil]
      /\ Goto(t, "strip")
      /\ UNCHANGED <<root, trims, req, ops, pre, history>>

\* internode::split_into: of the Width + 1 keys with the new one, key mid goes
\* up, the later ones to the right.
SplitInternode(t) ==
  LET x == loc[t]
      p == node[x.p]
      kp == Upper(x.ikey, p)
      mid == IF x.split = 2 THEN Width ELSE (Width + 1) \div 2
      all == WithChild(p, kp, x.ikey, x.child)
      r == Fresh
      nr == [EmptyNode EXCEPT !.kind = "inner", !.height = x.height + 1, !.lock = t,
               !.ver = [p.ver EXCEPT !.inserting = TRUE, !.root = FALSE],
               !.ikeys = SubSeq(all.ikeys, mid + 2, Width + 1),
               !.child = SubSeq(all.child, mid + 2, Width + 2)]
      nl == [p EXCEPT !.ver.inserting = TRUE, !.ver.splitting = TRUE,
               !.ikeys = SubSeq(all.ikeys, 1, mid), !.child = SubSeq(all.child, 1, mid + 1)]
  IN  /\ pc[t] = "insert" /\ x.p # Nil /\ p.height <= x.height + 1
      /\ Len(p.ikeys) = Width
      /\ node' = Append([y \in NodeId |->
           CASE y = x.p -> nl
             [] y \in SX!Range(nr.child) -> [node[y] EXCEPT !.parent = r]
             [] y = x.child /\ y \notin SX!Range(nr.child) -> [node[y] EXCEPT !.parent = x.p]
             [] OTHER -> node[y]], nr)
      /\ loc' = [loc EXCEPT ![t].next = r, ![t].ikey2 = all.ikeys[mid + 1]]
      /\ Goto(t, "strip")
      /\ UNCHANGED <<root, trims, req, ops, pre, history>>

\* Both nodes can be reached: strip the left leaf of what has moved, and unlock
\* the one of the two that does not get the key.
StrippedLeaf(x, k, nrsize, split) ==
  LET size == x.perm.size - nrsize
      perm == IF x.perm.size # W THEN Exchange(SetSize(x.perm, size), size, W - 1)
              ELSE SetSize(x.perm, size)
  IN  [x EXCEPT !.ver.splitting = TRUE, !.perm = perm,
                !.slot[Back(perm)] = IF split = 0 THEN k ELSE @]

Strip(t) ==
  LET x == loc[t]
      nl == StrippedLeaf(node[x.n], K(t), node[x.child].perm.size, x.split)
      up == [x EXCEPT !.n = x.p, !.child = x.next, !.ikey = x.ikey2, !.ikey2 = 0,
                      !.height = @ + 1, !.next = Nil, !.p = Nil,
                      !.leaf = IF x.n = x.leaf /\ x.split # 0 THEN x.child ELSE @]
      top == [WriteLocals(up.leaf) EXCEPT !.p = x.p]
  IN  /\ pc[t] = "strip"
      /\ node' = IF x.n # x.leaf
                 THEN [node EXCEPT ![x.n] = Unlocked(@), ![x.child] = Unlocked(@)]
                 ELSE IF x.split = 0
                 THEN [node EXCEPT ![x.n] = nl, ![x.child] = Unlocked(@)]
                 ELSE [node EXCEPT ![x.n] = Unlocked(nl)]
      /\ loc' = [loc EXCEPT ![t] = IF x.next # Nil THEN up ELSE top]
      /\ Goto(t, IF x.next # Nil THEN "parent" ELSE IF x.p # Nil THEN "top" ELSE "finish")
      /\ UNCHANGED <<root, trims, req, ops, pre, history>>

UnlockTop(t) ==
  /\ pc[t] = "top"
  /\ node' = [node EXCEPT ![loc[t].p] = Unlocked(@)]
  /\ loc' = [loc EXCEPT ![t].p = Nil]
  /\ Goto(t, "finish")
  /\ UNCHANGED <<root, trims, req, ops, pre, history>>

FinishInsert(t) ==
  LET n == loc[t].leaf IN
  /\ pc[t] = "finish"
  /\ node' = [node EXCEPT ![n] = Unlocked(Inserted(@, K(t)))]
  /\ Effect(t, K(t), "present")
  /\ Finish(t, "missing")
  /\ UNCHANGED <<root, trims, req, ops, pre>>

-----------------------------------------------------------------------------
(* finish_remove and remove_leaf *)

\* finish_remove: the first remove after inserts makes readers retry.
Removed(x, k) ==
  [x EXCEPT !.ver.inserting = @ \/ x.modstate = "insert", !.modstate = "remove",
            !.perm = Remove(@, Position(x, k))]

\* The leaf keeps other keys, or is the first one and stays although empty; if
\* it is also the last one a callback will look at the layer.
RemoveHere(t) ==
  LET n == loc[t].leaf
      x == Removed(node[n], K(t))
  IN  /\ pc[t] = "locked" /\ req[t].op = "remove" /\ K(t) \in Keys(node[n])
      /\ x.perm.size > 0 \/ x.prev = Nil
      /\ node' = [node EXCEPT ![n] = Unlocked(x)]
      /\ trims' = IF x.perm.size = 0 /\ x.next = Nil THEN trims + 1 ELSE trims
      /\ Effect(t, K(t), None)
      /\ Finish(t, "found")
      /\ UNCHANGED <<root, req, ops, pre>>

RemoveLast(t) ==
  LET n == loc[t].leaf
      x == Removed(node[n], K(t))
  IN  /\ pc[t] = "locked" /\ req[t].op = "remove" /\ K(t) \in Keys(node[n])
      /\ x.perm.size = 0 /\ x.prev # Nil
      /\ node' = [node EXCEPT ![n] = x]
      /\ Effect(t, K(t), None)
      /\ Goto(t, "delete")
      /\ UNCHANGED <<root, trims, loc, req, ops, pre>>

MarkDeleted(x) == [x EXCEPT !.ver.deleted = TRUE, !.ver.splitting = TRUE]

DeleteLeaf(t) ==
  /\ pc[t] = "delete"
  /\ node' = [node EXCEPT ![loc[t].leaf] = MarkDeleted(@)]
  /\ Goto(t, "unlink")
  /\ UNCHANGED <<root, trims, loc, req, ops, pre, history>>

\* btree_leaflink::unlink
UnlinkLeaf(t) ==
  LET n == loc[t].leaf
      x == node[n]
  IN  /\ pc[t] = "unlink"
      /\ node' = [y \in NodeId |->
           IF y = x.prev THEN [node[y] EXCEPT !.next = x.next]
           ELSE IF y = x.next THEN [node[y] EXCEPT !.prev = x.prev] ELSE node[y]]
      /\ loc' = [loc EXCEPT ![t].ikey = Bound(x), ![t].mode = "remove"]
      /\ Goto(t, "parent")
      /\ UNCHANGED <<root, trims, req, ops, pre, history>>

\* n leaves its parent p, or leaves its only child there; without one the slots
\* after it move down, except for the first.
WithoutChild(p, kp, replacement) ==
  IF replacement # Nil \/ kp = 0 THEN [p EXCEPT !.child[kp + 1] = replacement]
  ELSE [p EXCEPT !.ikeys = SX!RemoveAt(@, kp), !.child = SX!RemoveAt(@, kp + 1)]

NeedsRedirect_Never(p, kp) == FALSE
\* The leftmost child is gone: what is left of p's range belongs to the left.
NeedsRedirect(p, kp) == kp <= 1 /\ p.ikeys # <<>> /\ p.child[1] = Nil

RemoveChild(t) ==
  LET x == loc[t]
      kp == Upper(x.ikey, node[x.p])
      p == [WithoutChild(node[x.p], kp, x.child) EXCEPT !.ver.inserting = TRUE]
  IN  /\ pc[t] = "remove"
      /\ node' = [y \in NodeId |->
           IF y = x.p THEN p
           ELSE IF y = x.child THEN [node[y] EXCEPT !.parent = x.p] ELSE node[y]]
      /\ IF NeedsRedirect(p, kp)
         THEN /\ loc' = [loc EXCEPT ![t] = [x EXCEPT !.mode = "redirect", !.next = x.p, !.kp = -1,
                                                     !.ikey2 = p.ikeys[1], !.held = x.p]]
              /\ Goto(t, "parent")
         ELSE loc' = [loc EXCEPT ![t].held = x.p] /\ Goto(t, "collapse")
      /\ UNCHANGED <<root, trims, req, ops, pre, history>>

\* redirect, one level.
Redirect(t) ==
  LET x == loc[t]
      kp == Upper(x.ikey, node[x.p])
      p == IF kp > 0 THEN [node[x.p] EXCEPT !.ikeys[kp] = x.ikey2] ELSE node[x.p]
      more == kp = 0 \/ (kp = 1 /\ p.child[1] = Nil)
  IN  /\ pc[t] = "redirect"
      /\ node' = [y \in NodeId |->
           IF y = x.p THEN (IF more THEN p ELSE Unlocked(p))
           ELSE IF y = x.next /\ x.kp >= 0 THEN Unlocked(node[y]) ELSE node[y]]
      /\ loc' = [loc EXCEPT ![t] =
           IF more THEN [x EXCEPT !.next = x.p, !.kp = kp, !.p = Nil]
           ELSE [x EXCEPT !.mode = "remove", !.next = Nil, !.kp = -1, !.p = Nil,
                          !.ikey = x.ikey2, !.ikey2 = 0]]
      /\ Goto(t, IF more THEN "parent" ELSE "collapse")
      /\ UNCHANGED <<root, trims, req, ops, pre, history>>

\* An internode without keys is taken out too, its child moves up; the root stays.
Collapse(t) ==
  LET x == loc[t]
      q == x.held
      stop == node[q].ikeys # <<>> \/ node[q].ver.root
  IN  /\ pc[t] = "collapse"
      /\ node' = [node EXCEPT ![x.n] = Unlocked(@),
                              ![q] = IF stop THEN @ ELSE [MarkDeleted(@) EXCEPT !.child = <<Nil>>]]
      /\ loc' = [loc EXCEPT ![t] = [x EXCEPT !.n = q, !.p = Nil, !.held = Nil,
                                             !.child = IF stop THEN Nil ELSE node[q].child[1]]]
      /\ Goto(t, IF stop THEN "removed" ELSE "parent")
      /\ UNCHANGED <<root, trims, req, ops, pre, history>>

FinishRemove(t) ==
  /\ pc[t] = "removed"
  /\ node' = [node EXCEPT ![loc[t].n] = Unlocked(@)]
  /\ Finish(t, "found")
  /\ UNCHANGED <<root, trims, req, ops, pre, history>>

Reply(t) ==
  /\ pc[t] \in {"found", "missing"}
  /\ Answer(t, pc[t])
  /\ UNCHANGED <<node, root, trims, req, ops, pre>>

Return(t) ==
  /\ pc[t] = "done"
  /\ req' = [req EXCEPT ![t] = Idle]
  /\ ans' = [ans EXCEPT ![t] = {}]
  /\ res' = [res EXCEPT ![t] = Idle]
  /\ Goto(t, "idle")
  /\ UNCHANGED <<node, root, trims, loc, ops, pre, map>>

-----------------------------------------------------------------------------
(* gc_layer: a root without keys gives way to its child.  (That an empty leaf  *)
(* which is alone in its layer is killed then is in Leaf.)                     *)

RunCallback(t) ==
  /\ pc[t] = "idle" /\ trims > 0 /\ ~ Trimming
  /\ trims' = trims - 1
  /\ loc' = [loc EXCEPT ![t] = NoLocals]
  /\ Goto(t, "trim")
  /\ UNCHANGED <<node, root, req, ops, pre, history>>

TrimRoot(t) ==
  /\ pc[t] = "trim"
  /\ \/ /\ ~ node[root].ver.root
        /\ root' = MaybeParent(root)
        /\ UNCHANGED <<pc, node>>
     \/ /\ node[root].ver.root /\ (IsLeaf(root) \/ node[root].ikeys # <<>>)
        /\ Goto(t, "idle")
        /\ UNCHANGED <<root, node>>
     \/ /\ node[root].ver.root /\ ~ IsLeaf(root) /\ node[root].ikeys = <<>>
        /\ node[root].lock = NoThread
        /\ node' = [node EXCEPT ![root].lock = t]
        /\ Goto(t, "trim_child")
        /\ UNCHANGED root
  /\ UNCHANGED <<trims, loc, req, ops, pre, history>>

\* With the root locked, and if it is still the root and without keys, the child
\* becomes the root; if the child is locked its holder may wait for the root:
\* let it go first.
TrimChild(t) ==
  LET c == node[root].child[1] IN
  /\ pc[t] = "trim_child"
  /\ \/ /\ ~ node[root].ver.root \/ node[root].ikeys # <<>>
        /\ node' = [node EXCEPT ![root] = Unlocked(@)]
        /\ Goto(t, "idle")
        /\ UNCHANGED <<root, loc>>
     \/ /\ node[root].ver.root /\ node[root].ikeys = <<>>
        /\ node[c].lock # NoThread
        /\ node' = [node EXCEPT ![root] = Unlocked(@)]
        /\ Goto(t, "trim")
        /\ UNCHANGED <<root, loc>>
     \/ /\ node[root].ver.root /\ node[root].ikeys = <<>>
        /\ node[c].lock = NoThread
        /\ node' = [node EXCEPT ![c].parent = Nil, ![c].ver.root = TRUE]
        /\ root' = c
        /\ loc' = [loc EXCEPT ![t].n = root]
        /\ Goto(t, "trim_old")
  /\ UNCHANGED <<trims, req, ops, pre, history>>

\* The old root leads to the new one, which may be a leaf.
TrimOld(t) ==
  LET n == loc[t].n IN
  /\ pc[t] = "trim_old"
  /\ node' = [node EXCEPT ![n] = Unlocked([@ EXCEPT !.ver.splitting = TRUE, !.parent = root])]
  /\ loc' = [loc EXCEPT ![t] = NoLocals]
  /\ Goto(t, "trim")
  /\ UNCHANGED <<root, trims, req, ops, pre, history>>

-----------------------------------------------------------------------------
Descend(t) ==
  \/ ReachRoot(t) \/ ReadChild(t) \/ ChildVersion(t) \/ GoDown(t) \/ CheckAgain(t)
  \/ DeletedLeaf(t) \/ Advance(t) \/ Walk(t) \/ Walked(t)

Update(t) ==
  \/ LockLeaf(t) \/ Nothing(t) \/ InsertHere(t) \/ FinishInsert(t)
  \/ ReadParent(t) \/ LockParent(t)
  \/ SplitLeaf(t) \/ NewRoot(t) \/ Rectify(t) \/ InsertChild(t) \/ SplitInternode(t)
  \/ Strip(t) \/ UnlockTop(t)
  \/ RemoveHere(t) \/ RemoveLast(t) \/ DeleteLeaf(t) \/ UnlinkLeaf(t)
  \/ RemoveChild(t) \/ Redirect(t) \/ Collapse(t) \/ FinishRemove(t)
  \/ TrimRoot(t) \/ TrimChild(t) \/ TrimOld(t)

Step(t) == Descend(t) \/ Update(t) \/ GetEnd(t) \/ Reply(t) \/ Return(t)

\* Nothing is left to do.
Done ==
  /\ Loaded /\ trims = 0
  /\ \A t \in Thread : pc[t] = "idle" /\ (ops[t] = MaxOps \/ pre.calls[t] = {})
  /\ UNCHANGED vars

Next ==
  \/ Load
  \/ \E t \in Thread : Call(t) \/ RunCallback(t) \/ Step(t)
  \/ Done

Spec == Init /\ [][Next]_vars
FairSpec == Spec /\ \A t \in Thread : WF_vars(Step(t))

-----------------------------------------------------------------------------
(* What a thread finds that goes down while nothing else runs *)

\* reach_leaf's first loop, from x.
RootFrom(x) ==
  LET Up[d \in 0 .. Len(node)] ==
        IF d = 0 THEN x
        ELSE LET y == Up[d - 1] IN IF node[y].ver.root THEN y ELSE MaybeParent(y)
  IN  Up[Len(node)]

\* The nodes on the way from s to k, each higher than the next; Nil if the way
\* ends at a child that is gone.
Path(s, k) ==
  LET top == RootFrom(s)
      Go[d \in 0 .. node[top].height] ==
        IF d = 0 THEN top
        ELSE LET x == Go[d - 1] IN
             IF x = Nil \/ IsLeaf(x) THEN x
             ELSE ChildAt(node[x], Upper(IkeyOf[k], node[x]))
  IN  {Go[d] : d \in DOMAIN Go}

Responsible(x, k) ==
  /\ node[x].prev # Nil => Bound(node[x]) <= IkeyOf[k]
  /\ node[x].next # Nil => IkeyOf[k] < Bound(node[node[x].next])

Redirecting == \E t \in Thread :
  pc[t] \in {"parent", "lock", "redirect"} /\ loc[t].mode = "redirect"

\* At every moment the tree holds the table: from the root, and from any old root
\* that a thread has started at, where no node on the way to a key is dirty, the
\* way leads to a leaf, which holds the key if it is in the table and else does
\* not.  So no split, removal or collapse, and no change of the root, loses a key
\* or leads to the wrong leaf, however they overlap.  (The way may end at a
\* removed child, and the thread starts again, only during a redirect.)
KeysAreFound ==
  \A s \in {root} \cup {loc[t].n : t \in {u \in Thread : pc[u] = "root"}}, k \in Key :
    LET path == Path(s, k) IN
    (\A x \in path : x # Nil => ~ Dirty(x)) =>
      /\ Nil \in path => Redirecting
      /\ \A x \in path \ {Nil} : IsLeaf(x) => (k \in Keys(node[x])) = (map[k] # None)

\* doc/spec.tex, "Get": "Either version v of leaf n is responsible for k, or
\* v.deleted is true", whatever reach_leaf and advance_to_key met on the way.
LeafIsResponsible ==
  \A t \in Thread :
    LET n == loc[t].n IN
    pc[t] = "leaf" /\ ~ loc[t].v.deleted /\ ~ HasChanged(n, loc[t].v)
      /\ node[n].lock = NoThread => Responsible(n, K(t))

\* The masstree_invariants of locked_parent, remove_leaf and redirect: a parent is
\* an internode in which the node is where its key leads, and there is one.
ParentsAreFound ==
  \A t \in Thread :
    LET x == loc[t] IN
    /\ pc[t] \in {"insert", "remove", "redirect"} /\ x.p # Nil => ~ IsLeaf(x.p)
    /\ pc[t] \in {"remove", "redirect"} =>
         /\ x.p # Nil /\ ~ node[x.p].ver.deleted
         /\ ChildAt(node[x.p], Upper(x.ikey, node[x.p])) = Who(t)

\* Every request is served: no writer waits for a lock for ever, hand over hand
\* up the tree or in redirect, and no thread starts again for ever.
RequestsReturn == \A t \in Thread : (pc[t] = "root") ~> (pc[t] = "idle")

\* The tree is a map whose requests take effect one at a time.
KM == INSTANCE KeyMap
Linearizable == KM!Spec

\* Gets, puts and removes are all that is asked of the tree.  (Scan asks for more.)
MapRequests ==
  \A s \in Scenario : SX!Range(s.load) \cup UNION {s.calls[t] : t \in Thread} \subseteq KM!Request
=============================================================================
