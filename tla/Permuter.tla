------------------------------ MODULE Permuter ------------------------------
EXTENDS Integers, Sequences

(***************************************************************************)
(* What kpermuter promises (the comments of kpermuter.hh): an ordering of  *)
(* the slots 0 .. W - 1 of a leaf, whose first size elements are in use,   *)
(* in key order, and whose last element is the next to be allocated.       *)
(* Positions are counted from 0 as in the code.                            *)
(***************************************************************************)

CONSTANT W     \* number of slots
ASSUME WAssumption == W \in Nat \ {0}

Slot == 0 .. W - 1

At(q, i) == q.ord[i + 1]
Back(q) == q.ord[W]
InUse(q) == {At(q, i) : i \in 0 .. q.size - 1}

MakeEmpty == [ord |-> [j \in 1 .. W |-> W - j], size |-> 0]
MakeSorted(n) ==
  [ord |-> [j \in 1 .. W |-> IF j <= n THEN j - 1 ELSE W - (j - n)], size |-> n]

InsertFromBack(q, i) ==
  [ord |-> [j \in 1 .. W |-> IF j <= i THEN q.ord[j]
                             ELSE IF j = i + 1 THEN Back(q) ELSE q.ord[j - 1]],
   size |-> q.size + 1]

InsertSelected(q, i, s) ==
  [ord |-> [j \in 1 .. W |-> IF j <= i \/ j > s + 1 THEN q.ord[j]
                             ELSE IF j = i + 1 THEN At(q, s) ELSE q.ord[j - 1]],
   size |-> q.size + 1]

Remove(q, i) ==
  [ord |-> [j \in 1 .. W |-> IF j <= i \/ j > q.size THEN q.ord[j]
                             ELSE IF j = q.size THEN At(q, i) ELSE q.ord[j + 1]],
   size |-> q.size - 1]

RemoveToBack(q, i) ==
  [ord |-> [j \in 1 .. W |-> IF j <= i THEN q.ord[j]
                             ELSE IF j = W THEN At(q, i) ELSE q.ord[j + 1]],
   size |-> q.size - 1]

Exchange(q, i, j) ==
  [q EXCEPT !.ord = [q.ord EXCEPT ![i + 1] = At(q, j), ![j + 1] = At(q, i)]]

ExchangeValues(q, v, w) ==
  [q EXCEPT !.ord = [j \in 1 .. W |-> IF @[j] = v THEN w ELSE IF @[j] = w THEN v ELSE @[j]]]

\* The code rotates the positions i .. W - 1.
Rotate(q, i, j) ==
  [q EXCEPT !.ord = [k \in 1 .. W |->
     IF k <= i THEN @[k]
     ELSE @[i + 1 + ((k - 1 - i + j - i) % (W - i))]]]

SetSize(q, n) == [q EXCEPT !.size = n]
=============================================================================
