----------------------------- MODULE StringRep -----------------------------
(***************************************************************************)
(* Strings that share memory (string.hh, string.cc, straccum.hh,           *)
(* straccum.cc).  A String is a piece of a reference-counted buffer (memo) *)
(* or of text that stays for ever; an append writes into the unused end of *)
(* the buffer if nobody has been there.  A StringAccum builds text in a    *)
(* buffer of its own, hands it over to a String and may take one over.     *)
(* val is what each string is supposed to say.  is_shared says the wrong   *)
(* thing of a buffer (string.hh:783-786), so that mutable_data writes into *)
(* a buffer others read, and copies one that nobody does; hit is whom that *)
(* met, and the model ends there.                                          *)
(***************************************************************************)
EXTENDS Integers, Sequences, FiniteSets

CONSTANTS
  Str,         \* String objects
  Memo,        \* buffers
  None,        \* no buffer
  Text,        \* texts the program makes strings from
  Nul,         \* the character c_str puts behind a string
  Junk,        \* what is in memory nobody has written
  Unit, Space, \* a buffer with its header of Space takes a multiple of Unit
  MaxLen       \* bound on a string's length

VARIABLES
  rep,   \* String::_r: [memo, off, len], and the text if there is no memo
  memo,  \* memo_type: [refs, cap, dirty, data]
  acc,   \* a StringAccum: [memo, len]
  val,   \* what each string should say
  said,  \* what the StringAccum should say
  hit    \* strings whose buffer was written, or taken over, for another one

vars == <<rep, memo, acc, val, said, hit>>

Free == {m \in Memo : memo[m].cap = 0 /\ acc.memo # m}
Dead == [refs |-> 0, cap |-> 0, dirty |-> 0, data |-> <<>>]
Stable(t) == [memo |-> None, off |-> 0, len |-> Len(t), text |-> t]
Piece(m, off, len) == [memo |-> m, off |-> off, len |-> len, text |-> <<>>]
RoundUp(n) == ((n + Space + Unit - 1) \div Unit) * Unit - Space
Fill(t, cap) == [i \in 1..cap |-> IF i <= Len(t) THEN t[i] ELSE Junk]
Write(data, off, t) == [i \in 1..Len(data) |-> IF i > off /\ i <= off + Len(t) THEN t[i - off] ELSE data[i]]

Data(r, mm) == IF r.memo = None THEN r.text ELSE SubSeq(mm[r.memo].data, r.off + 1, r.off + r.len)
Says(x) == Data(rep[x], memo)

\* create_memo; which free buffer it is makes no difference.
New == CHOOSE m \in Free : TRUE
create_memo(mm, m, capacity, t) ==
  [mm EXCEPT ![m] = [refs |-> 1, cap |-> capacity, dirty |-> Len(t), data |-> Fill(t, capacity)]]

ref(mm, m) == IF m = None THEN mm ELSE [mm EXCEPT ![m].refs = @ + 1]
deref(mm, m) == IF m = None THEN mm ELSE IF mm[m].refs = 1 THEN [mm EXCEPT ![m] = Dead]
                ELSE [mm EXCEPT ![m].refs = @ - 1]

Becomes(x, r, mm, t) ==
  rep' = [rep EXCEPT ![x] = r] /\ memo' = mm /\ val' = [val EXCEPT ![x] = t] /\ UNCHANGED <<acc, said>>
Others(x) == {y \in Str \ {x} : rep[y].memo = rep[x].memo}

\* A constant C string is not copied, other text is.
AssignText(x, t, constant) ==
  LET mm == deref(memo, rep[x].memo)
  IN IF constant \/ t = <<>> THEN Becomes(x, Stable(t), mm, t)
     ELSE /\ Free # {}
          /\ Becomes(x, Piece(New, 0, Len(t)), create_memo(mm, New, RoundUp(Len(t)), t), t)

\* s = s.c_str() + k: the string keeps its buffer.
AssignOwnTail(x, k) ==
  /\ rep[x].memo # None /\ k \in 1..rep[x].len - 1
  /\ Becomes(x, Piece(rep[x].memo, rep[x].off + k, rep[x].len - k), memo,
             SubSeq(val[x], k + 1, Len(val[x])))

Assign(x, y) == Becomes(x, rep[y], deref(ref(memo, rep[y].memo), rep[x].memo), val[y])

\* substr's arguments as Perl's: negative ones count from the end.
substr(r, pos, len) ==
  LET p == IF pos < 0 THEN pos + r.len ELSE pos
      q == IF len < 0 THEN r.len + len
           ELSE IF p >= 0 /\ len >= r.len THEN r.len ELSE p + len
      first == IF p < 0 THEN 0 ELSE p
      last == IF q > r.len THEN r.len ELSE q
  IN <<first, IF first >= last THEN first ELSE last>>

AssignSubstr(x, y, pos, len) ==
  LET s == substr(rep[y], pos, len)
      m == rep[y].memo
      r == IF s[1] = s[2] THEN Stable(<<>>)
           ELSE IF m = None THEN Stable(SubSeq(rep[y].text, s[1] + 1, s[2]))
           ELSE Piece(m, rep[y].off + s[1], s[2] - s[1])
  IN Becomes(x, r, deref(ref(memo, r.memo), rep[x].memo),
             SubSeq(val[y], s[1] + 1, s[2]))

\* append_uninitialized and the copy into its space: in place if the buffer has
\* room and is unused from the string's end on, else in a new buffer.
\* A bug to catch: somebody else has been there.
InPlace_Anywhere(r, n) == r.memo # None /\ memo[r.memo].cap > r.off + r.len + n

InPlace(r, n) ==
  /\ r.memo # None
  /\ memo[r.memo].cap > memo[r.memo].dirty + n
  /\ memo[r.memo].dirty = r.off + r.len

Appended(r, t) ==
  IF InPlace(r, Len(t))
  THEN [r |-> [r EXCEPT !.len = @ + Len(t)],
        mm |-> [memo EXCEPT ![r.memo].data = Write(@, r.off + r.len, t),
                            ![r.memo].dirty = r.off + r.len + Len(t)]]
  ELSE [r |-> Piece(New, 0, r.len + Len(t)),
        mm |-> deref(create_memo(memo, New, RoundUp(r.len + Len(t)), Data(r, memo) \o t), r.memo)]

\* x.append(y): nothing, a share of y's buffer, or a copy.  If y is in x's own
\* buffer a copy of x keeps the buffer alive meanwhile.
Append1(x, y) ==
  LET t == Data(rep[y], memo)
  IN IF t = <<>> THEN Becomes(x, rep[x], memo, val[x])
     ELSE IF rep[x].len = 0 /\ rep[y].memo # None
     THEN Becomes(x, rep[y], ref(deref(memo, rep[x].memo), rep[y].memo), val[y])
     ELSE /\ InPlace(rep[x], Len(t)) \/ Free # {}
          /\ Becomes(x, Appended(rep[x], t).r, Appended(rep[x], t).mm, val[x] \o val[y])

AppendText(x, t) ==
  /\ InPlace(rep[x], Len(t)) \/ Free # {}
  /\ Becomes(x, Appended(rep[x], t).r, Appended(rep[x], t).mm, val[x] \o t)

\* c_str: a null character behind the string, unless there is one.
CStr(x) ==
  LET r == rep[x]
      end == r.off + r.len
      a == Appended(r, <<Nul>>)
      present == end < memo[r.memo].dirty /\ memo[r.memo].data[end + 1] = Nul
  IN /\ r.memo # None /\ ~present /\ (InPlace(r, 1) \/ Free # {})
     /\ Becomes(x, [a.r EXCEPT !.len = @ - 1], a.mm, val[x])

\* Test if the String's data is shared or stable, as written.
is_shared(r) == r.memo = None \/ memo[r.memo].refs = 1

\* mutable_data and a store through it.
Mutate(x, i, c) ==
  LET r == rep[x]
      t == [val[x] EXCEPT ![i] = c]
  IN /\ i \in 1..r.len
     /\ IF ~is_shared(r)
        THEN /\ Becomes(x, r, [memo EXCEPT ![r.memo].data[r.off + i] = c], t)
             /\ hit' = Others(x)
        ELSE /\ Free # {} /\ UNCHANGED hit
             /\ Becomes(x, Piece(New, 0, r.len),
                        deref(create_memo(memo, New, RoundUp(r.len), [Data(r, memo) EXCEPT ![i] = c]), r.memo), t)

Destroy(x) == Becomes(x, Stable(<<>>), deref(memo, rep[x].memo), <<>>)

-----------------------------------------------------------------------------
\* The StringAccum: hard_append, growing if necessary.
Grown(mm, t) ==
  LET m == IF acc.memo # None /\ acc.len + Len(t) <= mm[acc.memo].cap THEN acc.memo ELSE New
      old == IF acc.memo = None THEN <<>> ELSE SubSeq(mm[acc.memo].data, 1, acc.len)
  IN IF m = acc.memo
     THEN [a |-> [memo |-> m, len |-> acc.len + Len(t)],
           mm |-> [mm EXCEPT ![m].data = Write(@, acc.len, t)]]
     ELSE [a |-> [memo |-> m, len |-> acc.len + Len(t)],
           mm |-> LET n == IF acc.memo = None THEN mm ELSE [mm EXCEPT ![acc.memo] = Dead]
                  IN [n EXCEPT ![m] = [refs |-> 0, cap |-> RoundUp(acc.len + Len(t)), dirty |-> 0,
                                       data |-> Fill(old \o t, RoundUp(acc.len + Len(t)))]]]

Accumulate(t) ==
  LET g == Grown(memo, t)
  IN /\ Free # {} /\ Len(said) + Len(t) <= MaxLen
     /\ acc' = g.a /\ memo' = g.mm /\ said' = said \o t /\ UNCHANGED <<rep, val>>

\* make_transfer: the text is copied, or the buffer taken over.
TransferFrom(x) ==
  LET r == rep[x]
      t == Data(r, memo)
      g == Grown(memo, t)
  IN /\ acc.memo = None /\ t # <<>>
     /\ IF is_shared(r) \/ r.off # 0
        THEN Free # {} /\ acc' = g.a /\ memo' = deref(g.mm, r.memo) /\ UNCHANGED hit
        ELSE acc' = [memo |-> r.memo, len |-> r.len] /\ hit' = Others(x) /\ UNCHANGED memo
     /\ rep' = [rep EXCEPT ![x] = Stable(<<>>)] /\ val' = [val EXCEPT ![x] = <<>>]
     /\ said' = val[x]

\* take_string: the buffer becomes the string's, with one reference.
TakeString(x) ==
  LET m == acc.memo
      mm == deref(memo, rep[x].memo)
  IN /\ m # None /\ acc.len > 0
     /\ memo' = [mm EXCEPT ![m].refs = 1, ![m].dirty = acc.len]
     /\ rep' = [rep EXCEPT ![x] = Piece(m, 0, acc.len)] /\ val' = [val EXCEPT ![x] = said]
     /\ acc' = [memo |-> None, len |-> 0] /\ said' = <<>>

Init == /\ rep = [x \in Str |-> Stable(<<>>)] /\ memo = [m \in Memo |-> Dead]
        /\ acc = [memo |-> None, len |-> 0] /\ val = [x \in Str |-> <<>>] /\ said = <<>> /\ hit = {}

Safely ==
  \/ \E x \in Str, t \in Text, constant \in BOOLEAN : AssignText(x, t, constant)
  \/ \E x \in Str, k \in 1..2 : AssignOwnTail(x, k)
  \/ \E x, y \in Str : x # y /\ Assign(x, y)
  \/ \E x, y \in Str, pos, len \in {-1, 1} : AssignSubstr(x, y, pos, len)
  \/ \E x, y \in Str : Len(val[x]) + Len(val[y]) <= MaxLen /\ Append1(x, y)
  \/ \E x \in Str, t \in Text : t # <<>> /\ Len(val[x]) + Len(t) <= MaxLen /\ AppendText(x, t)
  \/ \E x \in Str : CStr(x) \/ Destroy(x) \/ TakeString(x)
  \/ \E t \in Text : t # <<>> /\ Accumulate(t)

Next ==
  /\ hit = {}
  /\ \/ Safely /\ UNCHANGED hit
     \/ \E x \in Str : TransferFrom(x)
     \/ \E x \in Str, t \in Text, i \in 1..MaxLen : t # <<>> /\ Mutate(x, i, t[1])

Spec == Init /\ [][Next]_vars

\* A change to one string is seen in no other, and a buffer lives exactly as
\* long as it is needed, as long as mutable_data (string.cc:825) and
\* transfer_from (straccum.cc:139) are not called on a string that shares its
\* buffer; if one is, only strings in that buffer can be hit.
StringsAreKept ==
  /\ \A x \in Str \ hit : Says(x) = val[x]
  /\ acc.memo # None => SubSeq(memo[acc.memo].data, 1, acc.len) = said
  /\ hit = {} => \A m \in Memo : memo[m].refs = Cardinality({x \in Str : rep[x].memo = m})
=============================================================================
