------------------------------ MODULE Suffixes ------------------------------
(***************************************************************************)
(* Where a leaf keeps the rests of its keys (stringbag.hh, leaf::assign_   *)
(* ksuf in masstree_struct.hh).  A leaf may have a bag of its own behind   *)
(* its fields; once that is full the leaf gets an external bag, and a      *)
(* larger one when that is full.  Removed keys leave their suffixes where  *)
(* they are.  The module follows one leaf, under its lock: a split goes on *)
(* with either half.  Slots are taken in any order, for keys are left out, *)
(* and a suffix is known by its length: two share bytes if they overlap.   *)
(***************************************************************************)
EXTENDS Integers, Sequences, FiniteSets, SequencesExt

CONSTANTS
  W,            \* leaf::width
  Slice,        \* slice_type::size
  Node,         \* sizeof(leaf)
  Align,        \* a leaf is allocated in units of this size: 64
  MaxInline,    \* at most this much is asked for with a leaf: 128
  Suffix        \* the lengths of the keys' suffixes, none of them 0

VARIABLES
  leaf,         \* [es, made, in, ext, keylenx, mod], see NewLeaf
  active,       \* the slots in the permutation
  want,         \* per slot: what its key needs
  broken        \* an assertion failed

vars == <<leaf, active, want, broken>>

Slot == 0..(W - 1)
Short == 0           \* the entry of a key without a suffix
Layer == -1          \* that of a layer
Kind(entry) == IF entry = Short THEN "short" ELSE IF entry = Layer THEN "layer" ELSE "ksuf"
Larger(a, b) == IF a < b THEN b ELSE a
iceil(x, to) == ((x + to - 1) \div to) * to
iceil_log2(x) == CHOOSE y \in {2 ^ i : i \in 0..16} : y >= x /\ y < 2 * x

-----------------------------------------------------------------------------
(* stringbag, with offsets of off bytes: [size, capacity, info] *)

overhead(off) == 2 * off + W * 2 * off
safe_size(off, len) == overhead(off) + len + Slice - 1
stringbag(off, capacity) ==
  [size |-> overhead(off), capacity |-> capacity,
   info |-> [p \in Slot |-> [pos |-> 0, len |-> 0]]]
NoBag == [size |-> 0, capacity |-> 0]

Put(b, p, pos, len, size) ==
  [b EXCEPT !.size = size, !.info[p] = [pos |-> pos, len |-> len]]

\* Variant: a short suffix may be put where a slice cannot be read.
assign_Tight(b, p, len) ==
  IF b.info[p].len >= len THEN [ok |-> TRUE, b |-> Put(b, p, b.info[p].pos, len, b.size)]
  ELSE IF b.size + len <= b.capacity THEN [ok |-> TRUE, b |-> Put(b, p, b.size, len, b.size + len)]
  ELSE [ok |-> FALSE, b |-> b]

\* stringbag::assign
assign(b, p, len) ==
  IF b.info[p].len >= len THEN [ok |-> TRUE, b |-> Put(b, p, b.info[p].pos, len, b.size)]
  ELSE IF b.size + Larger(len, Slice) <= b.capacity
       THEN [ok |-> TRUE, b |-> Put(b, p, b.size, len, b.size + len)]
  ELSE [ok |-> FALSE, b |-> b]

Internal == 1       \* sizeof of the offsets of the two kinds of bag
External == 2

-----------------------------------------------------------------------------
(* leaf *)

\* leaf::make and the constructor; es is extrasize64_.
NewLeaf(ksufsize) ==
  LET sz == iceil(Node + (IF ksufsize < MaxInline THEN ksufsize ELSE MaxInline), Align)
      es == sz \div Align - (Node + Align - 1) \div Align
  IN  [es |-> es, made |-> sz, mod |-> "insert", ext |-> NoBag,
       in |-> IF es > 0 THEN stringbag(Internal, sz - Node) ELSE NoBag,
       keylenx |-> [p \in Slot |-> "short"]]
allocated_size(l) == iceil(Node + (IF l.es >= 0 THEN l.es ELSE -l.es - 1) * Align, Align)
ksuf_used_capacity(l) == IF l.ext # NoBag THEN l.ext.size ELSE IF l.es > 0 THEN l.in.size ELSE 0
Bag(l) == IF l.ext # NoBag THEN l.ext ELSE l.in
ksuf(l, p) == Bag(l).info[p].len

\* The new bag of assign_ksuf, with the suffixes of the slots in copied.
Filled(l, size, copied) ==
  LET CopyOne(r, p) == LET a == assign(r.b, p, ksuf(l, p)) IN [ok |-> r.ok /\ a.ok, b |-> a.b]
  IN  FoldLeft(CopyOne, [ok |-> size >= overhead(External), b |-> stringbag(External, size)], copied)

\* leaf::assign_ksuf: the leaf afterwards, and whether its assertions hold.
\* others: the slots whose suffixes are copied if need be.  The negative es
\* marks the leaf's own bag dead; here it is forgotten.
assign_ksuf(l, p, len, others) ==
  LET e   == IF l.ext # NoBag THEN assign(l.ext, p, len) ELSE [ok |-> FALSE]
      i   == IF l.es > 0 THEN assign(l.in, p, len) ELSE [ok |-> FALSE]
      cp  == SelectSeq(others, LAMBDA x : x # p /\ l.keylenx[x] = "ksuf")
      csz == FoldLeft(LAMBDA c, x : c + ksuf(l, x), 0, cp)
      sz  == iceil_log2(safe_size(External, csz + len))
      new == Filled(l, IF l.ext # NoBag THEN Larger(sz, l.ext.capacity) ELSE sz, cp)
      fin == assign(new.b, p, len)
  IN  IF e.ok THEN [ok |-> TRUE, l |-> [l EXCEPT !.ext = e.b]]
      ELSE IF i.ok THEN [ok |-> TRUE, l |-> [l EXCEPT !.in = i.b]]
      ELSE [ok |-> new.ok /\ fin.ok /\ l.mod # "remove",
            l |-> [l EXCEPT !.ext = fin.b, !.in = NoBag, !.es = IF @ >= 0 THEN -@ - 1 ELSE @]]

\* leaf::assign, assign_initialize
AssignEntry(l, p, entry, others) ==
  IF entry \in {Short, Layer} THEN [ok |-> TRUE, l |-> [l EXCEPT !.keylenx[p] = Kind(entry)]]
  ELSE assign_ksuf([l EXCEPT !.keylenx[p] = "ksuf"], p, entry, others)
EntryOf(l, p) == CASE l.keylenx[p] = "ksuf" -> ksuf(l, p) [] l.keylenx[p] = "layer" -> Layer [] OTHER -> Short

\* A leaf of the size asked for with these entries in its first slots; an
\* assignment copies the slots before its own.
Initialized(ksufsize, entries) ==
  LET One(r, p) ==
        LET a == AssignEntry(r.l, p, entries[p + 1], [i \in 1..p |-> i - 1])
        IN  [ok |-> r.ok /\ a.ok, l |-> a.l]
  IN  FoldLeft(One, [ok |-> TRUE, l |-> NewLeaf(ksufsize)], [i \in 1..Len(entries) |-> i - 1])

-----------------------------------------------------------------------------
Entries == Suffix \cup {Short}

\* make_new_layer: a leaf with two keys, and room for some more like them.
LayerSize(a, b) ==
  IF a = Short /\ b = Short THEN 0 ELSE (a + b) * (W \div 2) + overhead(Internal)

Init ==
  \E a, b \in Entries :
    /\ leaf = Initialized(LayerSize(a, b), <<a, b>>).l
    /\ broken = ~Initialized(LayerSize(a, b), <<a, b>>).ok
    /\ active = {0, 1}
    /\ want = [p \in Slot |-> IF p = 0 THEN a ELSE IF p = 1 THEN b ELSE Short]

\* The leaf l takes the entry in slot p while the slots act are active.
Take(l, act, p, entry) ==
  LET a == AssignEntry(l, p, entry, SetToSeq(act))
  IN  /\ leaf' = a.l /\ broken' = ~a.ok
      /\ active' = act \cup {p}
      /\ want' = [q \in Slot |-> IF q = p THEN entry ELSE IF q \in act THEN want[q] ELSE Short]

\* find_insert in a leaf with room, once the leaf is back in the insert state.
Insert(p, entry) ==
  /\ p \notin active
  /\ Take([leaf EXCEPT !.mod = "insert"], active, p, entry)

finish_remove(p) ==
  /\ p \in active /\ active # {p}
  /\ active' = active \ {p}
  /\ leaf' = [leaf EXCEPT !.mod = "remove"]
  /\ want' = [want EXCEPT ![p] = Short]
  /\ UNCHANGED broken

\* make_new_layer in the leaf that had the first of the two keys.
MakeLayer(p) ==
  /\ p \in active /\ leaf.keylenx[p] = "ksuf"
  /\ leaf' = [leaf EXCEPT !.keylenx[p] = "layer"]
  /\ want' = [want EXCEPT ![p] = Layer]
  /\ UNCHANGED <<active, broken>>

\* A leaf is split when it is full, or when only slot 0 is left.
MaySplit == active \in {Slot, Slot \ {0}}

\* make_split, seen from the left half: some slots are kept, and the new key
\* is put in a free one, or into the other half.
SplitLeft(keep, p, entry) ==
  /\ MaySplit /\ keep \subseteq active /\ keep # active /\ p \notin keep
  /\ Take([leaf EXCEPT !.mod = "insert"], keep, p, entry)

\* make_split, seen from the right half: entries of the old leaf and perhaps
\* the new key among them, in the order of the keys.
SplitRight(moved, at, entry) ==
  LET old == [i \in 1..Len(moved) |-> EntryOf(leaf, moved[i])]
      all == IF at = 0 THEN old ELSE InsertAt(old, at, entry)
      r   == Initialized(ksuf_used_capacity(leaf), all)
  IN  /\ MaySplit /\ all # <<>>
      /\ leaf' = r.l /\ broken' = ~r.ok
      /\ active' = 0..(Len(all) - 1)
      /\ want' = [p \in Slot |-> IF p >= Len(all) THEN Short
                   ELSE IF at = p + 1 THEN entry
                   ELSE want[moved[IF at # 0 /\ at < p + 1 THEN p ELSE p + 1]]]

\* The orders that some of the slots in S may have.
Orders(S) == UNION {{s \in [1..k -> S] : \A i, j \in 1..k : s[i] = s[j] => i = j} : k \in 0..(W - 1)}

Next ==
  \/ \E p \in Slot, entry \in Entries : Insert(p, entry)
  \/ \E p \in Slot : finish_remove(p) \/ MakeLayer(p)
  \/ \E keep \in SUBSET active, p \in Slot, entry \in Entries : SplitLeft(keep, p, entry)
  \/ \E moved \in Orders(active), entry \in Entries :
       \E at \in 0..(Len(moved) + 1) : SplitRight(moved, at, entry)

Spec == Init /\ [][Next]_vars

-----------------------------------------------------------------------------
\* However a leaf fills up, loses keys and splits, every key in it keeps its
\* suffix: bags are outgrown, slots and their old room are used again, and
\* what is copied to a new bag fits (the assertions of masstree_struct.hh:
\* 755-767 hold).  A whole slice can be read from where a suffix begins
\* without leaving the bag, as stringbag.hh:28 promises equals_sloppy, and
\* the leaf is freed with the size it was allocated with.
SuffixesAreKept ==
  LET Room(p) == (Bag(leaf).info[p].pos)..(Bag(leaf).info[p].pos + ksuf(leaf, p) - 1)
      Rests == {p \in active : leaf.keylenx[p] = "ksuf"}
  IN  /\ ~broken
      /\ \A p \in active : EntryOf(leaf, p) = want[p]
      /\ \A p \in Rests : Bag(leaf).info[p].pos + Slice <= Bag(leaf).capacity
      /\ \A p, q \in Rests : p # q => Room(p) \cap Room(q) = {}
      /\ allocated_size(leaf) = leaf.made
=============================================================================
