------------------------------ MODULE JsonHeap ------------------------------
(***************************************************************************)
(* Json values in memory (json.cc, json.hh): arrays and objects are nodes  *)
(* that several Jsons may share and that are copied before one of them is  *)
(* written; an object is a hash table over a vector of items.  val says    *)
(* what a program that knows nothing of sharing expects.                   *)
(*                                                                         *)
(* A key is a number k: String(k), or some other text if k < 0.            *)
(***************************************************************************)
EXTENDS Integers, Sequences, SequencesExt, FiniteSetsExt

CONSTANTS
  Var,         \* the program's Jsons
  Node,        \* memory for nodes
  None,        \* a null pointer
  Key,         \* the keys
  Buckets,     \* a new hash_ has so many: 8
  MaxChain,    \* a longer chain makes find_insert rehash: 4
  MinCap,      \* smallest capacity of a node: 8
  MaxNesting,  \* bound on the depth of values
  MaxSteps     \* bound on the changes

VARIABLES
  rep,         \* Var -> u_: [t, x] with the type and a number or a node
  heap,        \* Node -> [t, refs, a, os, hash, cap], t is "free", "a" or "o"
  val,         \* Var -> the value it should have
  steps

vars == <<rep, heap, val, steps>>

-----------------------------------------------------------------------------
\* Values: <<"null", 0>>, <<"i", n>>, <<"a", values>> and <<"o", pairs>>, the
\* pairs in the order of their insertion.
Nil == <<"null", 0>>
IndexIn(pairs, k) == {i \in DOMAIN pairs : pairs[i][1] = k}
AsPairs(v) == CASE v[1] = "o" -> v[2]
                [] v[1] = "a" -> [i \in DOMAIN v[2] |-> <<i - 1, v[2][i]>>]
                [] OTHER -> <<>>
SetPair(pairs, k, w) ==
  IF IndexIn(pairs, k) = {} THEN Append(pairs, <<k, w>>)
  ELSE [i \in DOMAIN pairs |-> IF pairs[i][1] = k THEN <<k, w>> ELSE pairs[i]]
Padded(s, n) == [i \in 1..n |-> IF i <= Len(s) THEN s[i] ELSE Nil]
AtLeast(i, j) == IF i > j THEN i ELSE j
SetElement(s, i, w) == [p \in 1..AtLeast(Len(s), i) |-> IF p = i THEN w ELSE IF p <= Len(s) THEN s[p] ELSE Nil]
Elements(v) ==
  CASE v[1] = "a" -> v[2]
    [] v[1] = "o" -> FoldLeft(LAMBDA s, p : IF p[1] < 0 THEN s ELSE SetElement(s, p[1] + 1, p[2]), <<>>, v[2])
    [] OTHER -> <<>>
RECURSIVE Nesting(_)
Nesting(v) == CASE v[1] = "a" -> 1 + Max({0} \cup {Nesting(v[2][i]) : i \in DOMAIN v[2]})
                [] v[1] = "o" -> 1 + Max({0} \cup {Nesting(v[2][i][2]) : i \in DOMAIN v[2]})
                [] OTHER -> 0

-----------------------------------------------------------------------------
\* Nodes.  A Json j is [t, x]; an empty array or object may have no node.
J(t, x) == [t |-> t, x |-> x]
NullJson == J("null", 0)
Erased == -2
Unused == [t |-> "free", refs |-> 0, a |-> <<>>, os |-> <<>>, hash |-> <<>>, cap |-> 0]
HasNode(j) == j.t \in {"a", "o"} /\ j.x # None
NewNode(h) == CHOOSE n \in Node : h[n].t = "free"
Live(os) == {i \in DOMAIN os : os[i].next # Erased}
ChildrenOf(nd) == nd.a \o SelectSeq([i \in DOMAIN nd.os |-> IF nd.os[i].next = Erased THEN NullJson ELSE nd.os[i].v],
                                    LAMBDA j : j.t \in {"a", "o"})

\* Json::Json(const Json&) and Json::deref; a node nobody refers to goes.
Ref(h, j) == IF HasNode(j) THEN [h EXCEPT ![j.x].refs = @ + 1] ELSE h
RefAll(h, js) == FoldLeft(Ref, h, js)
RECURSIVE Deref(_, _)
Deref(h, j) ==
  IF ~HasNode(j) THEN h
  ELSE IF h[j.x].refs > 1 THEN [h EXCEPT ![j.x].refs = @ - 1]
  ELSE FoldLeft(Deref, [h EXCEPT ![j.x] = Unused], ChildrenOf(h[j.x]))

\* ObjectJson: the chain of a bucket, grow, rehash, find_insert and erase.
bucket(hash, k) == ((k + 2) % Len(hash)) + 1
RECURSIVE ChainFrom(_, _)
ChainFrom(os, i) == IF i = 0 THEN <<>> ELSE <<i>> \o ChainFrom(os, os[i].next)
ChainOf(nd, k) == IF nd.hash = <<>> THEN <<>> ELSE ChainFrom(nd.os, nd.hash[bucket(nd.hash, k)])
find(nd, k) == LET hits == SelectSeq(ChainOf(nd, k), LAMBDA i : nd.os[i].k = k)
               IN IF hits = <<>> THEN 0 ELSE hits[1]

\* A bug to catch: an erased item gets into a chain again.
rehash_All(nd) ==
  LET Link(d, i, b) == [d EXCEPT !.os[i].next = d.hash[b], !.hash[b] = i]
      Add(d, i) == Link(d, i, bucket(d.hash, d.os[i].k))
  IN FoldLeft(Add, [nd EXCEPT !.hash = [b \in 1..2 * Len(nd.hash) |-> 0]], Reverse([i \in DOMAIN nd.os |-> i]))

rehash(nd) ==
  LET Link(d, i, b) == [d EXCEPT !.os[i].next = d.hash[b], !.hash[b] = i]
      Add(d, i) == IF d.os[i].next = Erased THEN d ELSE Link(d, i, bucket(d.hash, d.os[i].k))
  IN FoldLeft(Add, [nd EXCEPT !.hash = [b \in 1..2 * Len(nd.hash) |-> 0]], Reverse([i \in DOMAIN nd.os |-> i]))

\* A new item n at the end of the chain for k.
Grown(nd, n) == IF n > nd.cap THEN [nd EXCEPT !.cap = IF @ = 0 THEN MinCap ELSE 2 * @] ELSE nd
Chained(nd, chain, k, n) ==
  IF chain = <<>> THEN [nd EXCEPT !.hash[bucket(nd.hash, k)] = n] ELSE [nd EXCEPT !.os[Last(chain)].next = n]
NewItem(nd, chain, k, j, n) ==
  [Grown(Chained(nd, chain, k, n), n) EXCEPT !.os = Append(@, [k |-> k, v |-> j, next |-> 0])]
Inserted(nd, chain, k, j, n) ==
  [nd |-> IF Len(chain) > MaxChain THEN rehash(NewItem(nd, chain, k, j, n)) ELSE NewItem(nd, chain, k, j, n), i |-> n]
FoundOrNot(nd, chain, k, j, i) == IF i # 0 THEN [nd |-> nd, i |-> i] ELSE Inserted(nd, chain, k, j, Len(nd.os) + 1)
InHash(nd, k, j) == FoundOrNot(nd, ChainOf(nd, k), k, j, find(nd, k))
find_insert(nd, k, j) ==
  InHash(IF nd.hash = <<>> THEN [nd EXCEPT !.hash = [b \in 1..Buckets |-> 0]] ELSE nd, k, j)

\* The item i has been taken out of its chain.
Cut(nd, i, chain, at) ==
  IF at = 1 THEN [nd EXCEPT !.hash[bucket(nd.hash, nd.os[i].k)] = nd.os[i].next]
  ELSE [nd EXCEPT !.os[chain[at - 1]].next = nd.os[i].next]
IndexOf(chain, i) == CHOOSE p \in DOMAIN chain : chain[p] = i
OutOf(nd, i, chain) == [Cut(nd, i, chain, IndexOf(chain, i)) EXCEPT !.os[i].next = Erased, !.os[i].v = NullJson]
Unlinked(nd, i) == OutOf(nd, i, ChainOf(nd, nd.os[i].k))

-----------------------------------------------------------------------------
\* A Json j in the heap h after an operation.
Now(h, j) == [h |-> h, j |-> j]

\* j gets the node nd in place of its own; js are the Jsons it is copied from.
Replaced(h, j, n, nd, js) == Now(Deref(RefAll([h EXCEPT ![n] = nd], js), j), J(nd.t, n))
EmptyObject == [Unused EXCEPT !.t = "o", !.refs = 1]
FromArray(a) == FoldLeft(LAMBDA nd, i : find_insert(nd, i - 1, a[i]).nd, EmptyObject, [i \in DOMAIN a |-> i])

\* uniqueify_object(true): an object that is j's own.
uniqueify_object(h, j) ==
  IF j.t = "o" /\ HasNode(j) /\ h[j.x].refs = 1 THEN Now(h, j)
  ELSE IF j.t = "o" /\ HasNode(j) THEN Replaced(h, j, NewNode(h), [h[j.x] EXCEPT !.refs = 1], ChildrenOf(h[j.x]))
  ELSE IF j.t = "a" /\ HasNode(j) THEN Replaced(h, j, NewNode(h), FromArray(h[j.x].a), h[j.x].a)
  ELSE Replaced(h, j, NewNode(h), EmptyObject, <<>>)

\* a[i] = w, in an array that is first made long enough.
StoreAt(a, i, w) == [p \in 1..AtLeast(Len(a), i) |-> IF p = i THEN w ELSE IF p <= Len(a) THEN a[p] ELSE NullJson]

\* uniqueify_array(true, ncap): an array that is j's own and has room.
RoundUp(n) == CHOOSE c \in {MinCap * 2^i : i \in 0..4} : c >= n /\ (c = MinCap \/ c \div 2 < n)
NewArray(a, ncap) == [Unused EXCEPT !.t = "a", !.refs = 1, !.a = a, !.cap = RoundUp(AtLeast(ncap, Len(a)))]
FromObject(os) == FoldLeft(LAMBDA a, it : IF it.next # Erased /\ it.k >= 0 THEN StoreAt(a, it.k + 1, it.v) ELSE a, <<>>, os)
Moved(h, j, n, ncap) == Now([h EXCEPT ![n] = NewArray(h[j.x].a, ncap), ![j.x] = Unused], J("a", n))
Copied(h, j, a, ncap) == Replaced(h, j, NewNode(h), NewArray(a, ncap), a)
uniqueify_array(h, j, ncap) ==
  IF j.t = "a" /\ HasNode(j) /\ h[j.x].refs = 1 /\ ncap <= h[j.x].cap THEN Now(h, j)
  ELSE IF j.t = "a" /\ HasNode(j) /\ h[j.x].refs = 1 THEN Moved(h, j, NewNode(h), ncap)
  ELSE Copied(h, j, IF ~HasNode(j) THEN <<>> ELSE IF j.t = "a" THEN h[j.x].a ELSE FromObject(h[j.x].os), ncap)

\* The operations, on a Json in u.h that is unique; ArrayOf and ObjectOf say in
\* what it is kept.
ArrayOf(u) == u.h[u.j.x].a
ObjectOf(u) == u.h[u.j.x]
WithNode(u, nd, gone) == Now(Deref([u.h EXCEPT ![u.j.x] = nd], gone), u.j)
WithArray(u, a, gone) == Now(FoldLeft(Deref, [u.h EXCEPT ![u.j.x].a = a], gone), u.j)

\* set, operator[](key) = w: w is a copy that moves in.
StoreIn(u, r, w) == WithNode(u, [r.nd EXCEPT !.os[r.i].v = w], r.nd.os[r.i].v)
SetIn(u, k, w) == StoreIn(u, find_insert(ObjectOf(u), k, NullJson), w)
set(h, j, k, w) == SetIn(uniqueify_object(Ref(h, w), j), k, w)

\* get_insert(x) = w: an object takes the number for a key.
SetAtIn(u, x, w) ==
  WithArray(u, StoreAt(ArrayOf(u), x + 1, w), IF x < Len(ArrayOf(u)) THEN <<ArrayOf(u)[x + 1]>> ELSE <<>>)
set_at(h, j, x, w) ==
  IF j.t = "o" THEN set(h, j, x, w) ELSE SetAtIn(uniqueify_array(Ref(h, w), j, x + 1), x, w)

EraseIn(u, i) == IF i = 0 THEN u ELSE WithNode(u, Unlinked(ObjectOf(u), i), ObjectOf(u).os[i].v)
EraseKey(u, k) == EraseIn(u, find(ObjectOf(u), k))
erase(h, j, k) == EraseKey(uniqueify_object(h, j), k)

\* push_back(w) is insert at the end, pop_back erase of the last.
InsertIn(u, p, w) == WithArray(u, InsertAt(ArrayOf(u), p, w), <<>>)
insert(h, j, p, w) == InsertIn(uniqueify_array(Ref(h, w), j, IF HasNode(j) THEN Len(h[j.x].a) + 1 ELSE 1), p, w)
EraseAtIn(u, p) == WithArray(u, RemoveAt(ArrayOf(u), p), <<ArrayOf(u)[p]>>)
erase_at(h, j, p) == EraseAtIn(uniqueify_array(h, j, 0), p)

ResizeIn(u, n) ==
  WithArray(u, [p \in 1..n |-> IF p <= Len(ArrayOf(u)) THEN ArrayOf(u)[p] ELSE NullJson],
            SubSeq(ArrayOf(u), n + 1, Len(ArrayOf(u))))
resize(h, j, n) == ResizeIn(uniqueify_array(h, j, n), n)

Emptied(nd) == [nd EXCEPT !.a = <<>>, !.os = <<>>, !.hash = [b \in DOMAIN nd.hash |-> 0]]
clear(h, j) ==
  IF ~HasNode(j) THEN Now(h, IF j.t \in {"a", "o"} THEN j ELSE NullJson)
  ELSE IF h[j.x].refs > 1 THEN Now(Deref(h, j), J(j.t, None))
  ELSE Now(FoldLeft(Deref, [h EXCEPT ![j.x] = Emptied(@)], ChildrenOf(h[j.x])), j)

\* merge: x's pairs one after the other.
merge(h, j, x) ==
  IF ~HasNode(x) THEN Now(h, j)
  ELSE FoldLeft(LAMBDA u, it : set(u.h, u.j, it.k, it.v), uniqueify_object(h, j),
                SelectSeq(h[x.x].os, LAMBDA it : it.next # Erased))

-----------------------------------------------------------------------------
\* An operation works on the Json x, or on x[k]: then x is made an object of
\* its own first, with an item for k.
ItemOf(u, g) == [h |-> [u.h EXCEPT ![u.j.x] = g.nd], j |-> g.nd.os[g.i].v, top |-> u.j, i |-> g.i]
ItemIn(u, k) == ItemOf(u, find_insert(ObjectOf(u), k, NullJson))
Target(x, path) ==
  IF path = <<>> THEN [h |-> heap, j |-> rep[x], top |-> NullJson, i |-> 0]
  ELSE ItemIn(uniqueify_object(heap, rep[x]), path[1])

\* What x[path] should be.
PartOf(x, path) ==
  IF path = <<>> THEN val[x]
  ELSE LET found == IndexIn(AsPairs(val[x]), path[1])
       IN IF found = {} THEN Nil ELSE AsPairs(val[x])[CHOOSE i \in found : TRUE][2]

\* The operation on t == Target(x, path) has left result and should have left w.
Change(x, path, t, result, w) ==
  \E r \in {result}, new \in {IF path = <<>> THEN w ELSE <<"o", SetPair(AsPairs(val[x]), path[1], w)>>} :
     /\ steps' = steps + 1
     /\ Nesting(new) <= MaxNesting
     /\ heap' = IF path = <<>> THEN r.h ELSE [r.h EXCEPT ![t.top.x].os[t.i].v = r.j]
     /\ rep' = [rep EXCEPT ![x] = IF path = <<>> THEN r.j ELSE t.top]
     /\ val' = [val EXCEPT ![x] = new]

IsArray(v) == v[1] \in {"a", "null"}
Hashed(j) ==              \* has the object ever had an item?
  j.t = "o" /\ HasNode(j) /\ heap[j.x].hash # <<>>

AssignNumber(x, n) ==
  /\ steps' = steps + 1
  /\ heap' = Deref(heap, rep[x]) /\ rep' = [rep EXCEPT ![x] = J("i", n)]
  /\ val' = [val EXCEPT ![x] = <<"i", n>>]
Assign(x, y) ==
  /\ steps' = steps + 1
  /\ heap' = Deref(Ref(heap, rep[y]), rep[x]) /\ rep' = [rep EXCEPT ![x] = rep[y]]
  /\ val' = [val EXCEPT ![x] = val[y]]
Swap(x, y) ==
  /\ steps' = steps + 1 /\ UNCHANGED heap
  /\ rep' = [rep EXCEPT ![x] = rep[y], ![y] = rep[x]] /\ val' = [val EXCEPT ![x] = val[y], ![y] = val[x]]

Set(x, path, k, y) ==
  \E t \in {Target(x, path)} :
     Change(x, path, t, set(t.h, t.j, k, rep[y]), <<"o", SetPair(AsPairs(PartOf(x, path)), k, val[y])>>)
SetAt(x, path, i, y) ==
  \E t \in {Target(x, path)}, v \in {PartOf(x, path)} :
     Change(x, path, t, set_at(t.h, t.j, i, rep[y]),
            IF v[1] = "o" THEN <<"o", SetPair(v[2], i, val[y])>> ELSE <<"a", SetElement(Elements(v), i + 1, val[y])>>)
Erase(x, k) ==
  /\ Hashed(rep[x])
  /\ Change(x, <<>>, Target(x, <<>>), erase(heap, rep[x], k),
            <<"o", SelectSeq(AsPairs(val[x]), LAMBDA p : p[1] # k)>>)
Insert(x, path, p, y) ==
  \E t \in {Target(x, path)}, v \in {PartOf(x, path)} :
     /\ IsArray(v) /\ p <= Len(Elements(v)) + 1
     /\ Change(x, path, t, insert(t.h, t.j, p, rep[y]), <<"a", InsertAt(Elements(v), p, val[y])>>)
EraseAt(x, path, p) ==
  \E t \in {Target(x, path)}, v \in {PartOf(x, path)} :
     /\ v[1] = "a" /\ p <= Len(Elements(v))
     /\ Change(x, path, t, erase_at(t.h, t.j, p), <<"a", RemoveAt(v[2], p)>>)
Resize(x, path, n) ==
  \E t \in {Target(x, path)}, v \in {PartOf(x, path)} :
     IsArray(v) /\ Change(x, path, t, resize(t.h, t.j, n), <<"a", Padded(Elements(v), n)>>)
ToArray(x, path) ==
  \E t \in {Target(x, path)} :
     Change(x, path, t, uniqueify_array(t.h, t.j, 0), <<"a", Elements(PartOf(x, path))>>)
Clear(x, path) ==
  \E t \in {Target(x, path)}, v \in {PartOf(x, path)} :
     Change(x, path, t, clear(t.h, t.j), IF v[1] \in {"a", "o"} THEN <<v[1], <<>>>> ELSE Nil)
Merge(x, y) ==
  /\ val[x][1] \in {"o", "null"} /\ val[y][1] = "o"
  /\ Change(x, <<>>, Target(x, <<>>), merge(heap, rep[x], rep[y]),
            IF HasNode(rep[y])
            THEN <<"o", FoldLeft(LAMBDA ps, p : SetPair(ps, p[1], p[2]), AsPairs(val[x]), val[y][2])>> ELSE val[x])

Room == Cardinality({n \in Node : heap[n].t = "free"}) >= 3     \* memory is not the limit

\* At first every Json is null, or one is an object that had an item for k,
\* has one for l, and is shared by all.
Fresh ==
  /\ rep = [x \in Var |-> NullJson] /\ heap = [n \in Node |-> Unused]
  /\ val = [x \in Var |-> Nil]
With(u, k, w) == set(u.h, u.j, k, w)
Used(k, l) ==
  \E u \in {With(With(Now([n \in Node |-> Unused], NullJson), k, J("i", 7)), l, J("i", 8))} :
  \E less \in {erase(u.h, u.j, k)} :
     /\ rep = [x \in Var |-> less.j]
     /\ heap = [less.h EXCEPT ![less.j.x].refs = Cardinality(Var)]
     /\ val = [x \in Var |-> <<"o", <<<<l, <<"i", 8>>>>>>>>]
Init == steps = 0 /\ (Fresh \/ \E k, l \in Key : k # l /\ Used(k, l))

Paths == {<<>>} \cup {<<k>> : k \in Key}
Next ==
  steps < MaxSteps /\ Room /\ \E x \in Var :
    \/ AssignNumber(x, 7)
    \/ \E y \in Var \ {x} : Assign(x, y) \/ Swap(x, y) \/ Merge(x, y)
    \/ \E path \in Paths :
         \/ \E y \in Var : (\E k \in Key : Set(x, path, k, y) \/ (k >= 0 /\ SetAt(x, path, k, y)))
                           \/ (\E p \in 1..2 : Insert(x, path, p, y))
         \/ \E k \in Key : Erase(x, k)
         \/ \E p \in 1..2 : EraseAt(x, path, p)
         \/ \E n \in {0, 3} : Resize(x, path, n)
         \/ Clear(x, path) \/ ToArray(x, path)

Spec == Init /\ [][Next]_vars

-----------------------------------------------------------------------------
\* What a reader of j sees: iteration over an object gives its pairs.
RECURSIVE Shows(_)
Shows(j) ==
  CASE j.t = "a" -> <<"a", IF j.x = None THEN <<>> ELSE [i \in DOMAIN heap[j.x].a |-> Shows(heap[j.x].a[i])]>>
    [] j.t = "o" ->
         LET os == IF j.x = None THEN <<>> ELSE SelectSeq(heap[j.x].os, LAMBDA it : it.next # Erased)
         IN <<"o", [i \in DOMAIN os |-> <<os[i].k, Shows(os[i].v)>>]>>
    [] OTHER -> <<j.t, j.x>>

RefsTo(n) ==
  Cardinality({x \in Var : HasNode(rep[x]) /\ rep[x].x = n})
  + MapThenSumSet(LAMBDA m : Len(SelectSeq(ChildrenOf(heap[m]), LAMBDA j : HasNode(j) /\ j.x = n)), Node)

\* Jsons are values: a change of one is seen through that one only, however
\* they share memory (json.cc:236-295, json.hh:515-519); the hash table finds
\* the items that iteration shows and no others (json.cc:124-205); and a node
\* is freed exactly when its last reference goes.
JsonsAreValues ==
  /\ \A x \in Var : Shows(rep[x]) = val[x]
  /\ \A n \in Node : heap[n].t = "o" =>
       \A k \in Key : IF \E i \in Live(heap[n].os) : heap[n].os[i].k = k
                      THEN /\ find(heap[n], k) \in Live(heap[n].os)
                           /\ heap[n].os[find(heap[n], k)].k = k
                      ELSE find(heap[n], k) = 0
  /\ \A n \in Node : heap[n].refs = RefsTo(n)
============================================================================
