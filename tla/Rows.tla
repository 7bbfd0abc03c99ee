-------------------------------- MODULE Rows --------------------------------
(***************************************************************************)
(* The row of one key in each of the four layouts a server is built with:  *)
(* value_bag (offsets and text in one block), value_array (a block of      *)
(* pointers to columns), value_versioned_array (the same with spare        *)
(* places, changed in place) and value_string (one text, written at        *)
(* offsets).  A put makes a new row out of the old one and retires what    *)
(* the new one does not share; a replace and a remove retire all of it; a  *)
(* checkpoint writes the row out and recovery reads it back.  Updates of a *)
(* row run one at a time, under the lock of its leaf.  A get of a versioned *)
(* row reads a snapshot of it, kept in storage of the thread's query that   *)
(* the next get takes again; what this does to the row ends the model.     *)
(*                                                                         *)
(* A cell stands for a byte of text or for an offset.  Timestamps are left *)
(* out but for the one bit that tells the markers of recovery from rows.   *)
(***************************************************************************)
EXTENDS Integers, Sequences, FiniteSets, SequencesExt, FiniteSetsExt

CONSTANTS
  Type,      \* of "bag", "array", "versioned", "string"
  Block,     \* bound: blocks of memory, numbered from 1
  MaxCol,    \* bound: columns
  Text,      \* the texts of the requests
  Small,     \* a column of at most this size is replaced on its own
  Shift      \* what an index of a string multiplies its length by

VARIABLES
  type,      \* the layout
  mem,       \* per block: [st, v, size]
  row,       \* the row of the key, 0 for none
  marker,    \* row_is_marker(row)
  want,      \* what the row should say: its columns, or its text
  storage,   \* query_helper<value_versioned_array>::snapshot_
  harmed     \* a get has written or freed what is not its storage

vars == <<type, mem, row, marker, want, storage, harmed>>

Junk == "?"
Free == [st |-> "free", v |-> <<>>, size |-> 0]
Sum(s) == FoldSeq(LAMBDA x, y : x + y, 0, s)
Most(S) == CHOOSE x \in S : \A y \in S : y <= x

\* ti.allocate, ti.deallocate_rcu; retiring what is not in use is an error.
NewBlock(mm) == CHOOSE b \in Block : mm[b].st = "free" /\ \A c \in Block : mm[c].st = "free" => b <= c
Allocate(mm, v, size) == [mm EXCEPT ![NewBlock(mm)] = [st |-> "live", v |-> v, size |-> size]]
Retire(mm, b, size) ==
  [mm EXCEPT ![b].st = IF @ = "live" /\ mm[b].size = size THEN "retired" ELSE "wrong"]
Write(s, off, t) ==
  [i \in 1..Most({Len(s), off + Len(t)}) |-> IF i > off /\ i <= off + Len(t) THEN t[i - off] ELSE s[i]]

\* A request is a sequence of pairs, column and value, with columns that grow.
Cols(ch) == {ch[i][1] : i \in DOMAIN ch}
ValueFor(ch, c) == (CHOOSE p \in Range(ch) : p[1] = c)[2]
LastCol(ch) == ch[Len(ch)][1]

-----------------------------------------------------------------------------
(* value_bag: ncol_, then pos_[0..ncol_], then the text *)

bag_ncol(s) == s[1]
Pos(s, i) == s[2 + i]
column_length(s, i) == Pos(s, i + 1) - Pos(s, i)
bag_size(s) == Pos(s, bag_ncol(s))
bag_col(s, i) ==
  IF i \in 0..(bag_ncol(s) - 1) THEN SubSeq(s, Pos(s, i) + 1, Pos(s, i + 1)) ELSE <<>>
NoColumns == <<0, 2>>

NewNcol(s, ch) == Most({bag_ncol(s), LastCol(ch) + 1})
NewSize(s, ch) ==
  bag_size(s) + (NewNcol(s, ch) - bag_ncol(s))
  + Sum([i \in DOMAIN ch |-> Len(ch[i][2])
           - (IF ch[i][1] < bag_ncol(s) THEN column_length(s, ch[i][1]) ELSE 0)])

\* Variant: the offsets are copied as they are.
OldColumns_NoDelta(s, new, from, upto, sz) ==
  Write(Write(new, 1 + from, [i \in 1..(upto - from) |-> Pos(s, from + i - 1)]),
        sz, SubSeq(s, Pos(s, from) + 1, Pos(s, upto)))

\* "copy data from old row": columns from..(upto - 1), moved to offset sz.
OldColumns(s, new, from, upto, sz) ==
  LET moved == [i \in 1..(upto - from) |-> Pos(s, from + i - 1) + (sz - Pos(s, from))]
  IN  Write(Write(new, 1 + from, moved), sz, SubSeq(s, Pos(s, from) + 1, Pos(s, upto)))

\* "mark empty columns if we're extending"
EmptyColumns(new, from, upto, sz) == Write(new, 1 + from, [i \in 1..(upto - from) |-> sz])

RECURSIVE Merge(_, _, _, _, _, _)
Merge(s, ch, ncol, new, col, sz) ==
  LET this  == IF ch = <<>> THEN ncol ELSE ch[1][1]
      upto  == IF col < bag_ncol(s) /\ col # this THEN Min({this, bag_ncol(s)}) ELSE col
      sz1   == sz + (IF upto = col THEN 0 ELSE Pos(s, upto) - Pos(s, col))
      new1  == IF upto = col THEN new ELSE OldColumns(s, new, col, upto, sz)
      new2  == EmptyColumns(new1, upto, this, sz1)
  IN  IF this = ncol
      THEN Write(new2, 1 + ncol, <<sz1>>)
      ELSE Merge(s, Tail(ch), ncol, Write(Write(new2, 1 + this, <<sz1>>), sz1, ch[1][2]),
                 this + 1, sz1 + Len(ch[1][2]))

bag_update(s, ch) ==
  LET ncol == NewNcol(s, ch)
      sz   == NewSize(s, ch)
  IN  IF ncol = bag_ncol(s) /\ sz = bag_size(s) /\ Len(ch) = 1 /\ Len(ch[1][2]) <= Small
      THEN Write(s, Pos(s, ch[1][1]), ch[1][2])
      ELSE Merge(s, ch, ncol, <<ncol>> \o [i \in 1..(sz - 1) |-> Junk], 0, 2 + ncol)

bag_create1(mm, t) == Allocate(mm, <<1, 3, 3 + Len(t)>> \o t, 3 + Len(t))
bag_create(mm, ch) == Allocate(mm, bag_update(NoColumns, ch), NewSize(NoColumns, ch))
bag_deallocate_rcu(mm, b) == Retire(mm, b, bag_size(mm[b].v))

\* checkpoint_write: offsets and text as they are; checkpoint_read.
bag_checkpoint_write(s) == SubSeq(s, 1, bag_size(s))
bag_checkpoint_read(mm, s) == Allocate(mm, s, Len(s))

-----------------------------------------------------------------------------
(* value_array and value_versioned_array: [ncol, cols], cols the block of   *)
(* each column, 0 for an empty one                                          *)

make_column(mm, t) == IF t = <<>> THEN [m |-> mm, c |-> 0] ELSE [m |-> Allocate(mm, t, Len(t)), c |-> NewBlock(mm)]
deallocate_column_rcu(mm, c) == IF c = 0 THEN mm ELSE Retire(mm, c, Len(mm[c].v))
shallow_size(n) == n
array_col(mm, r, i) == IF i \in 0..(r.ncol - 1) /\ r.cols[i + 1] # 0 THEN mm[r.cols[i + 1]].v ELSE <<>>
EmptyArray == [ncol |-> 0, cols |-> <<>>]
Padded(cols, n) == cols \o [i \in 1..Most({0, n - Len(cols)}) |-> 0]

RECURSIVE WithColumns(_, _, _)
WithColumns(mm, cols, ch) ==
  IF ch = <<>> THEN [m |-> mm, cols |-> cols]
  ELSE LET n == make_column(mm, ch[1][2])
       IN  WithColumns(n.m, [cols EXCEPT ![ch[1][1] + 1] = n.c], Tail(ch))

RECURSIVE RetireAll(_, _)
RetireAll(mm, cs) == IF cs = <<>> THEN mm ELSE RetireAll(deallocate_column_rcu(mm, Head(cs)), Tail(cs))

\* The columns of r that a request puts others in the place of.
Replaced(r, ch) == [i \in 1..Cardinality({c \in Cols(ch) : c < r.ncol}) |-> r.cols[ch[i][1] + 1]]

\* make_sized_row: a row of empty columns.
SizedRow(n) == [ncol |-> n, cols |-> [i \in 1..n |-> 0]]

\* create1, after its column is made.
array_create1(mm, c) == Allocate(mm, [ncol |-> 1, cols |-> <<c>>], shallow_size(1))

\* checkpoint_write: the columns as texts.  checkpoint_read: a row of empty
\* columns, then each column that is not empty.
array_checkpoint_write(mm, r) == [i \in 1..r.ncol |-> array_col(mm, r, i - 1)]
array_checkpoint_read(mm, ts) ==
  LET w == WithColumns(mm, SizedRow(Len(ts)).cols, [i \in DOMAIN ts |-> <<i - 1, ts[i]>>])
  IN  Allocate(w.m, [ncol |-> Len(ts), cols |-> w.cols], shallow_size(Len(ts)))

array_deallocate_rcu(mm, b) ==
  Retire(RetireAll(mm, SubSeq(mm[b].v.cols, 1, mm[b].v.ncol)), b, shallow_size(mm[b].v.ncol))

\* value_array::update: a new row with the old one's other columns.
array_update(mm, r, ch) ==
  LET ncol == Most({r.ncol, LastCol(ch) + 1})
      w    == WithColumns(mm, Padded(r.cols, ncol), ch)
  IN  [m |-> Allocate(w.m, [ncol |-> ncol, cols |-> w.cols], shallow_size(ncol)), b |-> NewBlock(w.m)]

array_after_update(mm, b, ch) ==
  Retire(RetireAll(mm, Replaced(mm[b].v, ch)), b, shallow_size(mm[b].v.ncol))

\* value_versioned_array::update: in place if the columns fit.  It retires
\* the columns it replaces itself, in the old row or in the copy.
versioned_update(mm, b, r, ch) ==
  LET ncol  == LastCol(ch) + 1
      fits  == b # 0 /\ ncol <= Len(r.cols)
      cols  == Padded(r.cols, ncol)
      old   == RetireAll(mm, [i \in DOMAIN ch |-> cols[ch[i][1] + 1]])
      w     == WithColumns(old, cols, ch)
      new   == [ncol |-> Most({ncol, r.ncol}), cols |-> w.cols]
  IN  IF fits THEN [m |-> [w.m EXCEPT ![b].v = new], b |-> b]
              ELSE [m |-> Allocate(w.m, [new EXCEPT !.ncol = ncol], shallow_size(ncol)), b |-> NewBlock(w.m)]

\* The rest of value_versioned_array; ver_ and ncol_cap_ apart it is
\* value_array.
versioned_col(mm, r, i) == IF i \in 0..(r.ncol - 1) /\ r.cols[i + 1] # 0 THEN mm[r.cols[i + 1]].v ELSE <<>>
versioned_create(mm, ch) == versioned_update(mm, 0, EmptyArray, ch)
versioned_create1(mm, c) == Allocate(mm, [ncol |-> 1, cols |-> <<c>>], shallow_size(1))
versioned_deallocate_rcu(mm, b) ==
  Retire(RetireAll(mm, SubSeq(mm[b].v.cols, 1, mm[b].v.ncol)), b, shallow_size(mm[b].v.ncol))
versioned_after_update(mm, b) == Retire(mm, b, shallow_size(mm[b].v.ncol))
versioned_checkpoint_write(mm, r) == [i \in 1..r.ncol |-> versioned_col(mm, r, i - 1)]
versioned_checkpoint_read(mm, ts) ==
  LET w == WithColumns(mm, SizedRow(Len(ts)).cols, [i \in DOMAIN ts |-> <<i - 1, ts[i]>>])
  IN  Allocate(w.m, [ncol |-> Len(ts), cols |-> w.cols], shallow_size(Len(ts)))

\* The snapshot_ of a query that has made none; what is left in it of earlier
\* gets, which no get shows again.
NoStorage == [cap |-> 0, ncol |-> 0, cols |-> <<>>]
Stale == -1

\* value_versioned_array::snapshot gives storage back together with columns,
\* which are those of the rows it was taken of, or with another size than it
\* has, or copies one column from behind the row.
Harms(s, r, f) ==
  \/ s.cap < r.ncol /\ \E i \in 1..s.ncol : s.cols[i] # 0
  \/ s.cap < r.ncol /\ s.ncol < s.cap
  \/ Len(f) = 1 /\ f[1] >= r.ncol

\* value_versioned_array::snapshot: one column alone, or all of them.
snapshot(s, r, f) ==
  LET room == IF s.cap < r.ncol THEN SizedRow(r.ncol).cols ELSE s.cols
  IN  [cap  |-> Len(room),
       ncol |-> r.ncol,
       cols |-> IF Len(f) = 1
                THEN [i \in DOMAIN room |-> IF i = f[1] + 1 /\ f[1] < r.ncol THEN r.cols[i] ELSE room[i]]
                ELSE [i \in DOMAIN room |-> IF i <= r.ncol THEN r.cols[i] ELSE room[i]]]

-----------------------------------------------------------------------------
(* value_string *)

index_offset(idx) == idx % Shift
index_length(idx) == idx \div Shift

string_col(s, idx) ==
  LET off == Min({Len(s), index_offset(idx)})
  IN  IF idx = 0 THEN s ELSE SubSeq(s, off + 1, off + Min({Len(s) - off, index_length(idx)}))

RECURSIVE Overlay(_, _)
Overlay(s, ch) == IF ch = <<>> THEN s ELSE Overlay(Write(s, index_offset(ch[1][1]), ch[1][2]), Tail(ch))

\* What lies behind the old text is not the row's: a whole text that is
\* longer is copied from there and then written over.
string_update(s, ch) ==
  LET cut    == IF 0 \in Cols(ch) THEN Len(ValueFor(ch, 0)) ELSE Len(s)
      vallen == Most({cut} \cup {index_offset(p[1]) + Len(p[2]) : p \in Range(ch)})
  IN  Overlay([i \in 1..vallen |-> IF i <= cut /\ i <= Len(s) THEN s[i] ELSE Junk], ch)

string_create1(mm, t) == Allocate(mm, t, Len(t))
string_create(mm, ch) == LET s == string_update(<<>>, ch) IN Allocate(mm, s, Len(s))
string_deallocate_rcu(mm, b) == Retire(mm, b, Len(mm[b].v))

\* checkpoint_write writes the text, and checkpoint_read is create1 of it.
string_checkpoint(mm, s) == string_create1(mm, s)

-----------------------------------------------------------------------------
(* What the four have in common: the row R of a query *)

IsArray == type \in {"array", "versioned"}

\* The new row is the block that was allocated last.
Made(was, mm) == [m |-> mm, b |-> NewBlock(was)]

create1(mm, t) ==
  LET n == make_column(mm, t)
  IN  CASE type = "bag" -> Made(mm, bag_create1(mm, t))
        [] type = "string" -> Made(mm, string_create1(mm, t))
        [] type = "array" -> Made(n.m, array_create1(n.m, n.c))
        [] type = "versioned" -> Made(n.m, versioned_create1(n.m, n.c))

create(mm, ch) ==
  CASE type = "bag" -> Made(mm, bag_create(mm, ch))
    [] type = "string" -> Made(mm, string_create(mm, ch))
    [] type = "array" -> array_update(mm, EmptyArray, ch)
    [] type = "versioned" -> versioned_create(mm, ch)

update(mm, b, ch) ==
  LET r == mm[b].v
  IN  CASE type = "bag" -> Made(mm, Allocate(mm, bag_update(r, ch), NewSize(r, ch)))
        [] type = "string" -> Made(mm, Allocate(mm, string_update(r, ch), Len(string_update(r, ch))))
        [] type = "array" -> array_update(mm, r, ch)
        [] type = "versioned" -> versioned_update(mm, b, r, ch)

deallocate_rcu(mm, b) ==
  CASE type = "bag" -> bag_deallocate_rcu(mm, b)
    [] type = "string" -> string_deallocate_rcu(mm, b)
    [] type = "array" -> array_deallocate_rcu(mm, b)
    [] type = "versioned" -> versioned_deallocate_rcu(mm, b)

deallocate_rcu_after_update(mm, b, ch) ==
  CASE type = "array" -> array_after_update(mm, b, ch)
    [] type = "versioned" -> versioned_after_update(mm, b)
    [] OTHER -> deallocate_rcu(mm, b)

\* What checkpoint_read makes of what checkpoint_write wrote, in new memory.
Restored(mm, b) ==
  LET none == [c \in Block |-> Free]
      r    == mm[b].v
      last(n) == [m |-> n, b |-> CHOOSE c \in Block : n[c].st = "live" /\ \A d \in Block : n[d].st = "live" => d <= c]
  IN  CASE type = "bag" -> last(bag_checkpoint_read(none, bag_checkpoint_write(r)))
        [] type = "string" -> last(string_checkpoint(none, r))
        [] type = "array" -> last(array_checkpoint_read(none, array_checkpoint_write(mm, r)))
        [] type = "versioned" -> last(versioned_checkpoint_read(none, versioned_checkpoint_write(mm, r)))

-----------------------------------------------------------------------------
(* The reference: what a row says after a request *)

Rewritten(old, ch) ==
  IF type = "string"
  THEN LET len == Most({IF 0 \in Cols(ch) THEN 0 ELSE Len(old)} \cup {index_offset(p[1]) + Len(p[2]) : p \in Range(ch)})
           By(i) == {p \in Range(ch) : i > index_offset(p[1]) /\ i <= index_offset(p[1]) + Len(p[2])}
           Latest(i) == CHOOSE p \in By(i) : \A q \in By(i) : q[1] <= p[1]
       IN  [i \in 1..len |-> IF By(i) # {} THEN Latest(i)[2][i - index_offset(Latest(i)[1])]
                             ELSE IF i <= Len(old) /\ 0 \notin Cols(ch) THEN old[i] ELSE Junk]
  ELSE [i \in 1..Most({Len(old), LastCol(ch) + 1}) |->
          IF i - 1 \in Cols(ch) THEN ValueFor(ch, i - 1) ELSE IF i <= Len(old) THEN old[i] ELSE <<>>]

-----------------------------------------------------------------------------
Init ==
  /\ type \in Type
  /\ \E m \in BOOLEAN :
       LET one == create1([b \in Block |-> Free], <<Junk>>)
       IN  /\ mem = IF m THEN one.m ELSE [b \in Block |-> Free]
           /\ row = IF m THEN one.b ELSE 0
           /\ marker = m
  /\ want = <<>>
  /\ storage = NoStorage /\ harmed = FALSE

Ready == \A b \in Block : mem[b].st # "retired"

\* query::apply_put.  A marker gives way to a new row.
apply_put(ch) ==
  LET old == IF marker THEN deallocate_rcu(mem, row) ELSE mem
      upd == IF marker \/ row = 0 THEN create(old, ch) ELSE update(old, row, ch)
  IN  /\ Ready
      /\ mem' = IF marker \/ row = 0 \/ upd.b = row THEN upd.m
                ELSE deallocate_rcu_after_update(upd.m, row, ch)
      /\ row' = upd.b
      /\ marker' = FALSE
      /\ want' = Rewritten(IF marker THEN <<>> ELSE want, ch)
      /\ UNCHANGED <<type, storage, harmed>>

apply_replace(t) ==
  LET new == create1(IF row = 0 THEN mem ELSE deallocate_rcu(mem, row), t)
  IN  /\ Ready
      /\ mem' = new.m /\ row' = new.b /\ marker' = FALSE
      /\ want' = IF type = "string" THEN t ELSE <<t>>
      /\ UNCHANGED <<type, storage, harmed>>

apply_remove ==
  /\ Ready /\ row # 0
  /\ mem' = deallocate_rcu(mem, row)
  /\ row' = 0 /\ marker' = FALSE /\ want' = <<>>
  /\ UNCHANGED <<type, storage, harmed>>

\* A checkpoint skips markers, and recovery begins with empty memory.
Recover ==
  /\ Ready /\ row # 0 /\ ~marker
  /\ mem' = Restored(mem, row).m
  /\ row' = Restored(mem, row).b
  /\ storage' = NoStorage
  /\ UNCHANGED <<type, marker, want, harmed>>

\* What is retired is freed in the end (see Rcu).
Quiesce ==
  /\ ~Ready
  /\ mem' = [b \in Block |-> IF mem[b].st = "retired" THEN Free ELSE mem[b]]
  /\ UNCHANGED <<type, row, marker, want, storage, harmed>>

\* What a get of the fields f does to a query and to the row: the helper of
\* the other layouts hands out the row itself.
Get(f) ==
  /\ type = "versioned" /\ row # 0 /\ ~marker
  /\ LET s == snapshot(storage, mem[row].v, f)
     IN  storage' = [s EXCEPT !.cols = [i \in DOMAIN s.cols |-> IF s.cols[i] = 0 THEN 0 ELSE Stale]]
  /\ harmed' = Harms(storage, mem[row].v, f)
  /\ UNCHANGED <<type, mem, row, marker, want>>

\* Requests: for a string, a whole text and texts of some length at offsets.
Requests ==
  IF type = "string"
  THEN {<<<<0, t>>>> : t \in Text}
       \cup {<<<<o + Len(t) * Shift, t>>>> : o \in 0..MaxCol, t \in Text \ {<<>>}}
       \cup {<<<<0, t>>, <<o + Len(u) * Shift, u>>>> : o \in 0..MaxCol, t \in Text, u \in Text \ {<<>>}}
  ELSE UNION {{[i \in 1..Cardinality(cs) |-> <<SetToSortSeq(cs, <)[i], f[SetToSortSeq(cs, <)[i]]>>] : f \in [cs -> Text]} :
              cs \in (SUBSET (0..(MaxCol - 1))) \ {{}}}

\* Fields of a get: none for all of the row, one, or two; of a string, texts
\* of some length at offsets.
Fields == {<<>>} \cup {<<i, j>> : i, j \in 0..MaxCol}
           \cup (IF type = "string" THEN {<<o + n * Shift>> : o, n \in 0..MaxCol} ELSE {<<i>> : i \in 0..MaxCol})

Next ==
  /\ ~harmed
  /\ \/ \E ch \in Requests : apply_put(ch)
     \/ \E t \in Text : apply_replace(t)
     \/ apply_remove
     \/ Recover
     \/ Quiesce
     \/ \E f \in Fields : Len(f) < 2 /\ Get(f)     \* one of two fields copies all

Spec == Init /\ [][Next]_vars

-----------------------------------------------------------------------------
\* helper_.snapshot
Snapshot(f) == IF type = "versioned" THEN snapshot(storage, mem[row].v, f) ELSE mem[row].v

ncol(r) == CASE type = "bag" -> bag_ncol(r) [] type = "string" -> 1 [] OTHER -> r.ncol
col(r, i) ==
  CASE type = "bag" -> bag_col(r, i)
    [] type = "string" -> string_col(r, i)
    [] type = "array" -> array_col(mem, r, i)
    [] type = "versioned" -> versioned_col(mem, r, i)

\* query::emit_fields: the columns f of the row, all of them if f is empty.
emit_fields(f) ==
  LET r == Snapshot(f)
  IN  IF f = <<>> THEN [i \in 1..ncol(r) |-> col(r, i - 1)] ELSE [i \in DOMAIN f |-> col(r, f[i])]

\* query::emit_fields1, for a scan: one column stands for itself.
emit_fields1(f) ==
  LET r == Snapshot(f)
  IN  IF (f = <<>> /\ ncol(r) = 1) \/ Len(f) = 1 THEN <<"one", col(r, IF f = <<>> THEN 0 ELSE f[1])>>
      ELSE IF f = <<>> THEN <<"all", [i \in 1..ncol(r) |-> col(r, i - 1)]>>
      ELSE <<"all", [i \in DOMAIN f |-> col(r, f[i])]>>

Shown(f) ==
  IF type = "string"
  THEN IF f = <<>> THEN <<want>>
       ELSE [i \in DOMAIN f |-> IF f[i] = 0 THEN want
               ELSE SubSeq(want, index_offset(f[i]) + 1, Min({Len(want), index_offset(f[i]) + index_length(f[i])}))]
  ELSE IF f = <<>> THEN want ELSE [i \in DOMAIN f |-> IF f[i] < Len(want) THEN want[f[i] + 1] ELSE <<>>]

\* The blocks the row is made of.
Parts == IF row = 0 THEN {} ELSE {row} \cup (IF IsArray THEN {mem[row].v.cols[i] : i \in 1..mem[row].v.ncol} \ {0} ELSE {})

\* Whatever a put, replace, remove or recovery did before, a get shows what
\* the requests wrote (kvrow.hh:97-121); the memory in use is that of the
\* row, no more and no less, so that an update retires what its new row does
\* not share, once and with the size it was allocated with (value_bag.hh:135,
\* value_array.cc:31-65, value_versioned_array.cc:50).  Of a versioned row
\* this is said only of gets that the storage of the query has room for, or
\* finds nothing to take back for, and that ask no single column behind the
\* row: the others free columns the tree still uses, or read and write
\* behind the row (value_versioned_array.cc:31-40), and nothing is said of
\* what comes after one.
RowsAreKept ==
  ~harmed =>
    /\ row # 0 /\ ~marker =>
         \A f \in {g \in Fields : type = "versioned" => ~Harms(storage, mem[row].v, g)} :
           /\ emit_fields(f) = Shown(f)
           /\ emit_fields1(f) = IF Len(Shown(f)) = 1 THEN <<"one", Shown(f)[1]>> ELSE <<"all", Shown(f)>>
    /\ {b \in Block : mem[b].st = "live"} = Parts
    /\ \A b \in Block : mem[b].st # "wrong"
=============================================================================
