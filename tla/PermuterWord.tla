---------------------------- MODULE PermuterWord ----------------------------
EXTENDS Permuter, Bitwise, FiniteSets

(***************************************************************************)
(* kpermuter as it is: one machine word, four bits for the size and four   *)
(* for each position, updated with shifts and masks.  Every shift is by a  *)
(* multiple of four bits and every mask is made of whole nibbles, so the   *)
(* word is a function from nibble numbers (0 is the lowest) to 0 .. 15.    *)
(* x is the word, q the permutation it should stand for.                   *)
(*                                                                         *)
(* Nibbles above W are not cleared by every operation.  NB = W + 1 is the  *)
(* case of the leaf widths 7 and 15, where masks are shifted out of the    *)
(* word; NB > W + 1 is the case of the other widths.                       *)
(***************************************************************************)

CONSTANT Nibbles    \* the word sizes to look at, each more than W nibbles; W < 16

VARIABLES
  NB,    \* nibbles in value_type, which does not change
  x, q
vars == <<NB, x, q>>

Word == [0 .. NB - 1 -> 0 .. 15]

Shl(a, n) == [j \in 0 .. NB - 1 |-> IF j >= n THEN a[j - n] ELSE 0]
Shr(a, n) == [j \in 0 .. NB - 1 |-> IF j + n < NB THEN a[j + n] ELSE 0]
Join(a, b) == [j \in 0 .. NB - 1 |-> a[j] | b[j]]
Nibble(v) == [j \in 0 .. NB - 1 |-> IF j = 0 THEN v ELSE 0]
\* a & ((16 << (n << 2)) - 1), and with the mask complemented
Low(a, n) == [j \in 0 .. NB - 1 |-> IF j <= n THEN a[j] ELSE 0]
High(a, n) == [j \in 0 .. NB - 1 |-> IF j > n THEN a[j] ELSE 0]
\* x + 1 and x - 1 where the size does not overflow
Inc(a) == [a EXCEPT ![0] = @ + 1]
Dec(a) == [a EXCEPT ![0] = @ - 1]

full_value == [j \in 0 .. NB - 1 |-> IF j = 0 THEN 0 ELSE j - 1]
initial_value == [j \in 0 .. NB - 1 |-> IF j = 0 THEN 0 ELSE NB - 1 - j]

size(a) == a[0]
at(a, i) == a[i + 1]
back(a) == at(a, W - 1)
set_size(a, n) == Join(High(a, 0), Nibble(n))

make_empty == High(Shr(initial_value, NB - 1 - W), 0)
make_sorted(n) ==
  Join(Join(Shl(make_empty, n), IF n = W THEN full_value ELSE Low(full_value, n)), Nibble(n))

insert_from_back(a, i) ==
  Join(Join(Low(Inc(a), i), Shl(Nibble(back(a)), i + 1)), High(Shl(a, 1), i + 1))

insert_selected(a, di, si) ==
  Join(Join(Low(Inc(a), di), Shl(Nibble(at(a, si)), di + 1)),
     Join(High(Low(Shl(a, 1), si + 1), di + 1), High(a, si + 1)))

remove(a, i) ==
  LET rot == size(a) - i - 1
      Rot(b) == High(Low(b, i + 1 + rot), i)     \* b & rot_mask
      Rest(b) == Join(Low(b, i), High(b, i + 1 + rot))
  IN  IF size(a) = i + 1 THEN Dec(a)
      ELSE Join(Join(Rest(Dec(a)), Rot(Shr(Rot(a), 1))), Rot(Shl(Rot(a), rot)))

\* Variant: the unused nibbles are not cleared first.
remove_to_back_NoClear(a, i) ==
  Join(Join(Low(Dec(a), i), High(Shr(a, 1), i)), Shl(High(a, i), W - i - 1))

remove_to_back(a, i) ==
  LET b == Low(a, W)
  IN  Join(Join(Low(Dec(b), i), High(Shr(b, 1), i)), Shl(High(b, i), W - i - 1))

rotate(a, i, j) ==
  LET b == Low(a, W)
      lo(c) == IF i = W THEN c ELSE Low(c, i)
      hi(c) == IF i = W THEN Low(c, -1) ELSE High(c, i)
  IN  Join(Join(lo(b), hi(Shr(b, j - i))), Shl(hi(b), W - j))

exchange(a, i, j) ==
  LET diff == at(a, i) ^^ at(a, j)
  IN  [n \in 0 .. NB - 1 |->
         IF n \in {i + 1, j + 1} THEN a[n] ^^ diff ELSE a[n]]

\* diff: for each position that holds v or w, the bits in which v and w differ.
exchange_values(a, v, w) ==
  [n \in 0 .. NB - 1 |-> IF n \in 1 .. W /\ a[n] \in {v, w} THEN a[n] ^^ (v ^^ w) ELSE a[n]]

\* The permutation a word stands for.
Decode(a) == [ord |-> [j \in 1 .. W |-> at(a, j - 1)], size |-> size(a)]

-----------------------------------------------------------------------------
Init == NB \in Nibbles /\ x = make_empty /\ q = MakeEmpty

Pos == 0 .. W - 1

Operation ==
  \/ \E n \in 0 .. W : x' = make_sorted(n) /\ q' = MakeSorted(n)
  \/ \E n \in 0 .. q.size : x' = set_size(x, n) /\ q' = SetSize(q, n)
  \/ \E i \in 0 .. q.size : /\ q.size < W
                            /\ x' = insert_from_back(x, i) /\ q' = InsertFromBack(q, i)
  \/ \E i \in 0 .. q.size, s \in q.size .. W - 1 :
       x' = insert_selected(x, i, s) /\ q' = InsertSelected(q, i, s)
  \/ \E i \in 0 .. q.size - 1 :
       \/ x' = remove(x, i) /\ q' = Remove(q, i)
       \/ x' = remove_to_back(x, i) /\ q' = RemoveToBack(q, i)
  \/ \E i, j \in Pos :
       \/ x' = exchange(x, i, j) /\ q' = Exchange(q, i, j)
       \/ x' = exchange_values(x, i, j) /\ q' = ExchangeValues(q, i, j)
  \/ \E j \in 0 .. q.size : \E i \in 0 .. j :
       x' = rotate(x, i, j) /\ q' = Rotate(q, i, j)

Next == Operation /\ UNCHANGED NB

Spec == Init /\ [][Next]_vars

-----------------------------------------------------------------------------
\* After any sequence of operations, whatever they leave above the W slots, the
\* word stands for the permutation that the operations on sequences give, and no
\* slot is lost or doubled: a leaf never stores two keys in one slot.
WordIsPermutation == Decode(x) = q /\ {at(x, i) : i \in Pos} = Slot
=============================================================================
