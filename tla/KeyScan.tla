------------------------------ MODULE KeyScan -------------------------------
(***************************************************************************)
(* How a scan spells keys while it goes down and up the layers of the trie *)
(* (masstree_scan.hh, masstree_key.hh, string_slice.hh).  A key is cut     *)
(* into slices, which are compared as integers; each layer has the slices  *)
(* at one depth, and an entry is a key that ends there, a key with its     *)
(* rest (ksuf), or the layer of all keys that go on.  A scan keeps one     *)
(* buffer, ka, which it overwrites slice by slice, and a stack of leaves.  *)
(* The query that asked for it saves each key it is shown in a buffer of   *)
(* its own, which the answer refers to (kvrow.hh, query_json_scanner).     *)
(* Nobody changes the table meanwhile (see Scan for that).                 *)
(***************************************************************************)
EXTENDS Integers, Sequences, FiniteSets, SequencesExt

CONSTANTS
  Size,       \* bytes of a slice
  Base,       \* values of a byte
  Width,      \* slices in a leaf
  BufLen,     \* MASSTREE_MAXKEYLEN
  Content,    \* the tables: sets of keys
  FirstKey,   \* keys scans begin at
  Limit,      \* keys scans ask for
  Marked,     \* keys whose row is a marker
  FirstCap,   \* size of the first scankey_: 1024
  UsedCap,    \* sizes it may have from scans before, 0 for none
  Emptied     \* layers that may have been left behind by removed keys

VARIABLES
  keys,       \* the keys in the table
  left,       \* layers kept though their keys could do without
  tab,        \* the table: per layer its leaves, per leaf its entries
  ask,        \* the request: [key, rev, equal, limit]
  buf, ka,    \* keybuf, and the key in it: [ikey, len, s]
  st,         \* the state of basic_table::scan
  root, n, ki, stack,    \* scanstackelt: layer, leaf, index, node_stack_
  upper,      \* reverse_scan_helper::upper_bound_
  scankey,    \* the buffers that scankey_ was, now the last one
  scankeypos, \* scankeypos_
  out         \* the answer: substrings of the buffers

scanner == <<scankey, scankeypos, out>>
vars == <<keys, left, tab, ask, buf, ka, st, root, n, ki, stack, upper, scanner>>

Ksuf == 64
Layer == 128

InOrder(S, before(_, _)) ==
  [i \in 1..Cardinality(S) |-> CHOOSE x \in S : Cardinality({y \in S : before(y, x)}) = i - 1]

-----------------------------------------------------------------------------
(* string_slice, on a machine that stores the low byte first *)

RECURSIVE Load(_)
Load(b) == IF b = <<>> THEN 0 ELSE b[1] + Base * Load(Tail(b))
net_to_host_order(w) ==
  LET b == [i \in 1..Size |-> (w \div (Base ^ (i - 1))) % Base] IN Load(Reverse(b))
host_to_net_order(x) == [i \in 1..Size |-> (x \div (Base ^ (Size - i))) % Base]

\* make: the bytes of s, filled up with zeros.
make(b, s, len) ==
  IF len >= Size THEN Load(SubSeq(b, s + 1, s + Size))
  ELSE Load([i \in 1..Size |-> IF i <= len THEN b[s + i] ELSE 0])
make_comparable(b, s, len) == net_to_host_order(make(b, s, len))

\* make_sloppy: one access that begins before s, and a shift.
make_sloppy(b, s, len) ==
  IF len <= 0 THEN 0
  ELSE IF len >= Size THEN Load(SubSeq(b, s + 1, s + Size))
  ELSE Load(SubSeq(b, s - (Size - len) + 1, s + len)) \div (Base ^ (Size - len))
make_comparable_sloppy(b, s, len) == net_to_host_order(make_sloppy(b, s, len))

-----------------------------------------------------------------------------
(* key *)

Store(b, off, t) == [i \in 1..BufLen |-> IF i > off /\ i <= off + Len(t) THEN t[i - off] ELSE b[i]]
NewKey(b, len) == [ikey |-> make_comparable(b, 0, len), len |-> len, s |-> 0]
suffix(k, b) == SubSeq(b, k.s + Size + 1, k.s + k.len)
full_string(k, b) == SubSeq(b, 1, k.s + k.len)

compare(k, ikey, keylenx) ==
  IF k.ikey # ikey THEN k.ikey - ikey
  ELSE IF k.len > Size THEN (IF keylenx <= Size THEN 1 ELSE 0)
  ELSE k.len - keylenx

shift(k, b) ==
  [ikey |-> make_comparable_sloppy(b, k.s + Size, k.len - Size), len |-> k.len - Size, s |-> k.s + Size]

\* Variant: unshift leaves the length of a key that ends in this layer.
unshift_Short(k, b) ==
  [ikey |-> make_comparable_sloppy(b, k.s - Size, Size), len |-> Size, s |-> k.s - Size]
unshift(k, b) ==
  [ikey |-> make_comparable_sloppy(b, k.s - Size, Size), len |-> Size + 1, s |-> k.s - Size]
shift_clear(k) == [ikey |-> 0, len |-> 0, s |-> k.s + Size]
shift_clear_reverse(k) == [ikey |-> Base ^ Size - 1, len |-> Size + 1, s |-> k.s + Size]

-----------------------------------------------------------------------------
(* The table: its layers, named by what their keys begin with *)

From(p, k) == SubSeq(k, Len(p) + 1, Len(k))
Slice(t) == make_comparable(t, 0, Len(t))
Below(p) == {k \in keys : IsPrefix(p, k) /\ (p = <<>> \/ Len(k) > Len(p))}
Cut(k, d) == SubSeq(k, 1, d * Size)
Depths(k) == {d \in 1..Len(k) : d * Size < Len(k)}
Layers == {<<>>} \cup left
          \cup UNION {{Cut(k, d) : d \in {e \in Depths(k) : \E j \in keys \ {k} : e \in Depths(j) /\ Cut(j, e) = Cut(k, e)}} : k \in keys}

Sublayers(p) == {q \in Layers : Len(q) = Len(p) + Size /\ IsPrefix(p, q)}
Entry(p, k) ==
  LET t == From(p, k)
  IN  IF Len(t) <= Size THEN [ikey |-> Slice(t), keylenx |-> Len(t), ksuf |-> <<>>]
      ELSE [ikey |-> Slice(SubSeq(t, 1, Size)), keylenx |-> Ksuf, ksuf |-> From(SubSeq(t, 1, Size), t)]
EntriesOf(p) ==
  LET subs == Sublayers(p)
      Deeper(k) == \E q \in subs : IsPrefix(q, k) /\ Len(k) > Len(q)
  IN  {Entry(p, k) : k \in {j \in Below(p) : ~Deeper(j)}}
      \cup {[ikey |-> Slice(From(p, q)), keylenx |-> Layer, ksuf |-> <<>>] : q \in subs}

\* The leaves of a layer: Width slices in each, at least one leaf.
LeavesOf(p) ==
  LET es == EntriesOf(p)
      ikeys == {e.ikey : e \in es}
      Place(e) == Cardinality({x \in ikeys : x < e.ikey}) \div Width
      count == IF es = {} THEN 1 ELSE (Cardinality(ikeys) + Width - 1) \div Width
      Before(e, f) == e.ikey < f.ikey \/ (e.ikey = f.ikey /\ e.keylenx < f.keylenx)
  IN  [i \in 1..count |-> InOrder({e \in es : Place(e) = i - 1}, Before)]
LeafCount(p) == Len(tab[p])
LeafAt(p, i) == tab[p][i]
ikey_bound(p, i) == IF LeafAt(p, i) = <<>> THEN 0 ELSE LeafAt(p, i)[1].ikey
LayerBelow(p, e) == p \o host_to_net_order(e.ikey)

reach_leaf(p, k) ==
  CHOOSE i \in 1..LeafCount(p) :
    /\ i = 1 \/ ikey_bound(p, i) <= k.ikey
    /\ i = LeafCount(p) \/ k.ikey < ikey_bound(p, i + 1)

\* lower_by: the first entry that is not less than the key, and whether it is equal.
lower_by(k, es) ==
  LET no == {i \in DOMAIN es : compare(k, es[i].ikey, es[i].keylenx) <= 0}
      i  == IF no = {} THEN Len(es) + 1 ELSE CHOOSE x \in no : \A y \in no : x <= y
  IN  [i |-> i - 1, p |-> no # {} /\ compare(k, es[i].ikey, es[i].keylenx) = 0]

-----------------------------------------------------------------------------
(* The helpers of the two directions *)

next(i) == IF ask.rev THEN i - 1 ELSE i + 1
lower_with_position(k, es) ==
  LET kx == lower_by(k, es) IN [kx EXCEPT !.i = IF ask.rev /\ ~kx.p THEN @ - 1 ELSE @]
lower(k, es) == IF ask.rev /\ upper THEN Len(es) - 1 ELSE lower_with_position(k, es).i
is_duplicate(k, e) ==
  LET c == compare(k, e.ikey, e.keylenx) IN IF ask.rev THEN c <= 0 /\ ~upper ELSE c >= 0
Less(a, b) ==
  \E i \in 1..Len(b) : /\ \A j \in 1..(i - 1) : j <= Len(a) /\ a[j] = b[j]
                       /\ i > Len(a) \/ a[i] < b[i]
initial_ksuf_match(t, u) == (IF ask.rev THEN Less(t, u) ELSE Less(u, t)) \/ (t = u /\ ask.equal)

\* stable: in reverse, to the right again as far as the key belongs there.
stable(p, i, k) ==
  IF ~ask.rev THEN i
  ELSE CHOOSE j \in i..LeafCount(p) :
         /\ \A x \in (i + 1)..j : k.ikey > ikey_bound(p, x) \/ (k.ikey = ikey_bound(p, x) /\ k.len # 0)
         /\ j = LeafCount(p) \/ k.ikey < ikey_bound(p, j + 1) \/ (k.ikey = ikey_bound(p, j + 1) /\ k.len = 0)

-----------------------------------------------------------------------------
NoRequest == [key |-> <<>>, rev |-> FALSE, equal |-> FALSE, limit |-> 0]
Keep == UNCHANGED <<keys, left, tab, ask>>

Init ==
  /\ keys \in Content
  /\ left \in SUBSET Emptied
  /\ \A q \in left : Len(q) > Size => Cut(q, 1) \in Layers
  /\ tab = [p \in Layers |-> LeavesOf(p)]
  /\ ask = NoRequest
  /\ buf = <<>> /\ ka = [ikey |-> 0, len |-> 0, s |-> 0]
  /\ st = "idle" /\ root = <<>> /\ n = 1 /\ ki = 0 /\ stack = <<>> /\ upper = FALSE
  /\ scankey = <<>> /\ scankeypos = 0 /\ out = <<>>

Uninitialized(len) == [i \in 1..len |-> 0]

\* query::run_scan or run_rscan, the scanner it makes, and basic_table::scan
\* up to its loops; the buffer for keys is not initialized.
Scan(r, fill, cap) ==
  /\ st = "idle"
  /\ ask' = r
  /\ buf' = Store([i \in 1..BufLen |-> fill], 0, r.key)
  /\ ka' = NewKey(buf', Len(r.key))
  /\ st' = "initial"
  /\ scankey' = <<Uninitialized(cap)>> /\ scankeypos' = 0 /\ out' = <<>>
  /\ UNCHANGED <<keys, left, tab, root, n, ki, stack, upper>>

find_initial ==
  LET i  == reach_leaf(root, ka)
      es == LeafAt(root, i)
      kx == lower_with_position(ka, es)
      e  == es[kx.i + 1]
      emits == IF e.keylenx = Ksuf THEN initial_ksuf_match(e.ksuf, suffix(ka, buf)) ELSE ask.equal
  IN  /\ st = "initial"
      /\ IF kx.p /\ e.keylenx = Layer
         THEN /\ stack' = Append(stack, <<root, i>>)
              /\ root' = LayerBelow(root, e)
              /\ ka' = shift(ka, buf)
              /\ UNCHANGED <<st, n, ki, buf>>
         ELSE /\ n' = i
              /\ st' = IF kx.p /\ emits THEN "emit" ELSE "find_next"
              /\ ki' = IF kx.p /\ ~emits THEN next(kx.i) ELSE kx.i
              /\ buf' = IF kx.p /\ emits /\ e.keylenx = Ksuf THEN Store(buf, ka.s + Size, e.ksuf) ELSE buf
              /\ ka' = IF kx.p /\ emits /\ e.keylenx = Ksuf THEN [ka EXCEPT !.len = Size + Len(e.ksuf)] ELSE ka
              /\ UNCHANGED <<stack, root>>
      /\ Keep /\ UNCHANGED <<upper, scanner>>

\* The loop of visit_value: a larger buffer, if need be, from its beginning.
RECURSIVE Room(_, _, _)
Room(bs, p, len) ==
  LET cap == Len(Last(bs))
  IN  IF p + len > cap
      THEN Room(Append(bs, Uninitialized(IF cap = 0 THEN FirstCap ELSE 2 * cap)), 0, len)
      ELSE [bufs |-> bs, pos |-> p]

\* visit_value: the key is saved, and a marker passed over.
visit_value(key) ==
  LET r == Room(scankey, scankeypos, Len(key))
      b == Len(r.bufs)
  IN  IF key \in Marked THEN UNCHANGED scanner
      ELSE /\ scankey' = [r.bufs EXCEPT ![b] = [i \in DOMAIN @ |-> IF i > r.pos /\ i <= r.pos + Len(key) THEN key[i - r.pos] ELSE @[i]]]
           /\ scankeypos' = r.pos + Len(key)
           /\ out' = Append(out, [buf |-> b, at |-> r.pos, len |-> Len(key)])

Emit ==
  /\ st = "emit"
  /\ visit_value(full_string(ka, buf))
  /\ LET last == out' # out /\ Len(out') = ask.limit
     IN  /\ st' = IF last THEN "done" ELSE "find_next"
         /\ ki' = IF last THEN ki ELSE next(ki)
  /\ Keep /\ UNCHANGED <<buf, ka, root, n, stack, upper>>

\* find_next for one entry.  The rest of the key is stored before the entry
\* is known to be a new one.
FindEntry ==
  LET es == LeafAt(root, n)
      e  == es[ki + 1]
      b1 == IF e.keylenx = Ksuf THEN Store(buf, ka.s + Size, e.ksuf) ELSE buf
      len == IF e.keylenx = Ksuf THEN Size + Len(e.ksuf) ELSE e.keylenx
  IN  /\ st = "find_next" /\ ki \in 0..(Len(es) - 1)
      /\ IF is_duplicate(ka, e)
         THEN /\ buf' = b1 /\ ki' = next(ki)
              /\ UNCHANGED <<ka, st, root, stack, upper>>
         ELSE /\ buf' = Store(b1, ka.s, host_to_net_order(e.ikey))
              /\ ka' = [ka EXCEPT !.ikey = e.ikey, !.len = IF e.keylenx = Layer THEN @ ELSE len]
              /\ upper' = FALSE
              /\ st' = IF e.keylenx = Layer THEN "down" ELSE "emit"
              /\ stack' = IF e.keylenx = Layer THEN Append(stack, <<root, n>>) ELSE stack
              /\ root' = IF e.keylenx = Layer THEN LayerBelow(root, e) ELSE root
              /\ UNCHANGED ki
      /\ Keep /\ UNCHANGED <<n, scanner>>

\* find_next at the end of a leaf: to the next one, or up.
LeaveLeaf ==
  LET i  == IF ask.rev THEN n - 1 ELSE n + 1
      k  == IF ask.rev THEN [ka EXCEPT !.ikey = ikey_bound(root, n), !.len = 0] ELSE ka
      j  == stable(root, i, k)
  IN  /\ st = "find_next" /\ ki \notin 0..(Len(LeafAt(root, n)) - 1)
      /\ ka' = k
      /\ buf' = IF ask.rev THEN Store(buf, ka.s, host_to_net_order(k.ikey)) ELSE buf
      /\ IF i \in 1..LeafCount(root)
         THEN n' = j /\ ki' = lower(k, LeafAt(root, j)) /\ UNCHANGED <<st, upper>>
         ELSE st' = "up" /\ upper' = FALSE /\ UNCHANGED <<n, ki>>
      /\ Keep /\ UNCHANGED <<root, stack, scanner>>

Up ==
  /\ st = "up"
  /\ IF stack = <<>>
     THEN st' = "done" /\ UNCHANGED <<ka, root, n, ki, stack>>
     ELSE LET p == Last(stack)[1]
              k == unshift(ka, buf)
              j == stable(p, Last(stack)[2], k)
          IN  /\ ka' = k /\ root' = p /\ n' = j
              /\ ki' = lower(k, LeafAt(p, j))
              /\ stack' = Front(stack)
              /\ st' = "find_next"
  /\ Keep /\ UNCHANGED <<buf, upper, scanner>>

\* Down into a layer, all of which is in range: shift_clear and find_retry.
Down ==
  LET k == IF ask.rev THEN shift_clear_reverse(ka) ELSE shift_clear(ka)
      i == reach_leaf(root, k)
      es == LeafAt(root, i)
  IN  /\ st = "down"
      /\ ka' = k /\ n' = i /\ upper' = ask.rev
      /\ ki' = IF ask.rev THEN Len(es) - 1 ELSE lower_with_position(k, es).i
      /\ st' = "find_next"
      /\ Keep /\ UNCHANGED <<buf, root, stack, scanner>>

Requests == [key : FirstKey, rev : BOOLEAN, equal : BOOLEAN, limit : Limit]

Next ==
  \/ \E r \in Requests, fill \in 0..(Base - 1), cap \in UsedCap : Scan(r, fill, cap)
  \/ find_initial \/ Emit \/ FindEntry \/ LeaveLeaf \/ Up \/ Down

Spec == Init /\ [][Next]_vars

-----------------------------------------------------------------------------
InRange(k) == (k = ask.key /\ ask.equal) \/ (IF ask.rev THEN Less(k, ask.key) ELSE Less(ask.key, k))
Wanted ==
  LET all == InOrder({k \in keys \ Marked : InRange(k)}, LAMBDA a, b : IF ask.rev THEN Less(b, a) ELSE Less(a, b))
  IN  IF Len(all) <= ask.limit THEN all ELSE SubSeq(all, 1, ask.limit)

\* The answer, as it is read when the scan is over.
Answer == [i \in DOMAIN out |-> SubSeq(scankey[out[i].buf], out[i].at + 1, out[i].at + out[i].len)]

\* A scan answers with the keys from firstkey on in lexicographic order of
\* their bytes, each in full, however they are spread over layers and whatever
\* is left in the buffer from the keys before: keys with zero bytes, keys that
\* are the beginning of others, layers emptied by removals (masstree_scan.hh:
\* 310-384).  A key in the answer stays as it was while later ones are saved
\* and the space for them grows (kvrow.hh:287-306).  When the scan ends the
\* answer has all keys in range, up to its limit.
ScanSpellsKeys ==
  st # "idle" => IF st = "done" THEN Answer = Wanted ELSE IsPrefix(Answer, Wanted)
=============================================================================
