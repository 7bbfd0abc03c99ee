---------------------------- MODULE NodeVersion ----------------------------
(***************************************************************************)
(* The version word of a node (nodeversion.hh): the lock, the flags of     *)
(* what its holder is doing, two counters and the node's own flags in one  *)
(* machine word, lowest bit first                                          *)
(*                                                                         *)
(*   lock  inserting  splitting  vinsert..  vsplit..  unused deleted root leaf *)
(*                                                                         *)
(* The counters are 6 and 19 bits wide in the 32-bit word; here they have  *)
(* InsertBits and SplitBits.  Leaf and Tree take the word for a record     *)
(* whose counters never run over; this module is the word as it is, with a *)
(* reader that keeps a version while the node changes.                     *)
(***************************************************************************)
EXTENDS Naturals

CONSTANTS
  InsertBits, SplitBits,
  MaxUnlocks         \* bound: unlocks while the reader holds its version

lock_bit == 1
inserting_bit == 2
splitting_bit == 4
vinsert_lowbit == 8
vsplit_lowbit == vinsert_lowbit * 2^InsertBits
unused1_bit == vsplit_lowbit * 2^SplitBits
deleted_bit == 2 * unused1_bit
root_bit == 4 * unused1_bit
isleaf_bit == 8 * unused1_bit

Word == 0..(2 * isleaf_bit - 1)

Has(v, bit) == (v \div bit) % 2 = 1
Or(v, bit) == IF Has(v, bit) THEN v ELSE v + bit
Clear(v, bit) == IF Has(v, bit) THEN v - bit ELSE v
ClearBelow(v, bit) == v - (v % bit)

dirty(v) == Has(v, inserting_bit) \/ Has(v, splitting_bit)

\* All bits from position p up, on which two versions differ or not.
Above(v, p) == v \div p
has_changed(v, x) == Above(v, inserting_bit) # Above(x, inserting_bit)
has_split(v, x) == Above(v, vsplit_lowbit) # Above(x, vsplit_lowbit)

mark_deleted(v) == Or(Or(v, deleted_bit), splitting_bit)
mark_change(v, is_split) == Or(v, IF is_split THEN splitting_bit ELSE inserting_bit)

\* A carry out of vinsert goes on into vsplit, and one out of vsplit into the
\* unused bit, which the masks drop.
unlock(v) ==
  IF Has(v, splitting_bit)
  THEN ClearBelow(Clear(Clear((v + vsplit_lowbit) % (2 * isleaf_bit), root_bit), unused1_bit),
                  vsplit_lowbit)
  ELSE ClearBelow(Clear((v + (IF Has(v, inserting_bit) THEN vinsert_lowbit ELSE 0))
                          % (2 * isleaf_bit), unused1_bit), vinsert_lowbit)

-----------------------------------------------------------------------------
VARIABLES
  v,            \* the word
  x,            \* the version that a reader got from stable()
  node,         \* history: the flags that the node should have
  inserts, splits   \* history: unlocks after an insert or a split since then

vars == <<v, x, node, inserts, splits>>

Init ==
  /\ \E isleaf, isroot \in BOOLEAN :
       /\ v = (IF isleaf THEN isleaf_bit ELSE 0) + (IF isroot THEN root_bit ELSE 0)
       /\ node = [leaf |-> isleaf, root |-> isroot, deleted |-> FALSE]
  /\ x = v /\ inserts = 0 /\ splits = 0

lock ==
  /\ ~Has(v, lock_bit)
  /\ v' = Or(v, lock_bit)
  /\ UNCHANGED <<x, node, inserts, splits>>

Mark(word, flags) ==
  /\ Has(v, lock_bit)
  /\ v' = word /\ node' = flags
  /\ UNCHANGED <<x, inserts, splits>>

MarkChange(is_split) == Mark(mark_change(v, is_split), node)
MarkDeleted == Mark(mark_deleted(v), [node EXCEPT !.deleted = TRUE])
MarkDeletedTree == Has(v, root_bit) /\ Mark(Or(v, deleted_bit), [node EXCEPT !.deleted = TRUE])
MarkRoot == Mark(Or(v, root_bit), [node EXCEPT !.root = TRUE])
MarkNonroot == Mark(Clear(v, root_bit), [node EXCEPT !.root = FALSE])

\* A node that has split is not a root: if it was, its new parent is.
Unlock ==
  /\ Has(v, lock_bit) /\ inserts + splits < MaxUnlocks
  /\ v' = unlock(v)
  /\ splits' = splits + (IF Has(v, splitting_bit) THEN 1 ELSE 0)
  /\ inserts' = inserts + (IF Has(v, inserting_bit) /\ ~Has(v, splitting_bit) THEN 1 ELSE 0)
  /\ node' = [node EXCEPT !.root = @ /\ ~Has(v, splitting_bit)]
  /\ UNCHANGED x

Stable ==
  /\ ~dirty(v)
  /\ x' = v /\ inserts' = 0 /\ splits' = 0
  /\ UNCHANGED <<v, node>>

Next ==
  \/ lock \/ MarkChange(TRUE) \/ MarkChange(FALSE) \/ MarkDeleted \/ MarkDeletedTree
  \/ MarkRoot \/ MarkNonroot \/ Unlock \/ Stable

Spec == Init /\ [][Next]_vars

-----------------------------------------------------------------------------
\* No carry out of a counter reaches the node's flags, and the flags of an
\* operation are gone when the lock is (unlock, nodeversion.hh:129-140).
FlagsAreKept ==
  /\ node = [leaf |-> Has(v, isleaf_bit), root |-> Has(v, root_bit), deleted |-> Has(v, deleted_bit)]
  /\ ~Has(v, unused1_bit)
  /\ ~Has(v, lock_bit) => ~dirty(v)

\* A reader sees from its version that the node was changed, and that it was
\* split, as long as the counters have not gone all the way round since
\* (has_changed and has_split, nodeversion.hh:72-85): a carry from vinsert into
\* vsplit, or the reset of vinsert by a split, never hides a change.
ChangesAreSeen ==
  LET range == 2^(InsertBits + SplitBits)
      weight == inserts + splits * 2^InsertBits
  IN  /\ 0 < weight /\ weight < range => has_changed(v, x)
      /\ splits > 0 /\ weight <= range - 2^InsertBits => has_split(v, x)

\* The version word does both: flags and counters share it without disturbing
\* each other.
VersionIsSound == FlagsAreKept /\ ChangesAreSeen
=============================================================================
