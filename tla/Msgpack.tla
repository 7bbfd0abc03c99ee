------------------------------ MODULE Msgpack ------------------------------
(***************************************************************************)
(* The encoding of requests, answers, log records and checkpoints          *)
(* (msgpack.hh, msgpack.cc): values are unparsed one after another, and    *)
(* the streaming parser reads them from chunks cut anywhere, each into the *)
(* Json that the one before it left behind.                                *)
(*                                                                         *)
(* A byte is <<format, n>>: the format tells headers from <<"data", d>>,   *)
(* a digit of a number or a character of a string.                         *)
(***************************************************************************)
EXTENDS Integers, Sequences, SequencesExt

CONSTANTS
  Byte,      \* values of a byte of data: 256
  NFixUint, NFixNeg, NFixStr, NFixArray, NFixMap,    \* nfixuint...nfixmap
  Session    \* the sequences of values that may be sent, see Unparse

VARIABLES
  sent,      \* the values
  bytes,     \* what they were unparsed to
  ends,      \* where each ends in bytes
  pos,       \* bytes consumed
  last,      \* end of the chunk that consume is working on
  state,     \* state_
  stack,     \* stack_, the top last: [jp, size]
  str,       \* str_
  json,      \* json_
  jokey,     \* jokey_
  which      \* the value that is parsed

vars == <<sent, bytes, ends, pos, last, state, stack, str, json, jokey, which>>

-----------------------------------------------------------------------------
\* Numbers of w bytes in network order, and back.
Data(x) == <<"data", x>>
NetOrder(x, w) == [i \in 1..w |-> Data((x \div Byte ^ (w - i)) % Byte)]
Unsigned(b) == FoldLeft(LAMBDA x, d : x * Byte + d[2], 0, b)
Signed(b) == IF 2 * b[1][2] >= Byte THEN Unsigned(b) - Byte ^ Len(b) ELSE Unsigned(b)

WriteUnsigned(x) ==
  IF x < NFixUint THEN <<<<"fixint", x>>>>
  ELSE IF x < Byte THEN <<<<"uint8", 0>>>> \o NetOrder(x, 1)
  ELSE IF x < Byte ^ 2 THEN <<<<"uint16", 0>>>> \o NetOrder(x, 2)
  ELSE IF x < Byte ^ 4 THEN <<<<"uint32", 0>>>> \o NetOrder(x, 4)
  ELSE <<<<"uint64", 0>>>> \o NetOrder(x, 8)

Fits(x, w) == -(Byte ^ w \div 2) <= x /\ x < Byte ^ w \div 2

WriteSigned(x) ==
  IF -NFixNeg <= x /\ x < NFixUint THEN <<<<"fixint", x>>>>
  ELSE IF Fits(x, 1) THEN <<<<"int8", 0>>>> \o NetOrder(x, 1)
  ELSE IF Fits(x, 2) THEN <<<<"int16", 0>>>> \o NetOrder(x, 2)
  ELSE IF Fits(x, 4) THEN <<<<"int32", 0>>>> \o NetOrder(x, 4)
  ELSE <<<<"int64", 0>>>> \o NetOrder(x, 8)

WriteString(s) ==
  (IF Len(s) < NFixStr THEN <<<<"fixstr", Len(s)>>>>
   ELSE IF Len(s) < Byte THEN <<<<"str8", 0>>>> \o NetOrder(Len(s), 1)
   ELSE IF Len(s) < Byte ^ 2 THEN <<<<"str16", 0>>>> \o NetOrder(Len(s), 2)
   ELSE <<<<"str32", 0>>>> \o NetOrder(Len(s), 4)) \o s

WriteArrayHeader(n) ==
  IF n < NFixArray THEN <<<<"fixarray", n>>>>
  ELSE IF n < Byte ^ 2 THEN <<<<"array16", 0>>>> \o NetOrder(n, 2)
  ELSE <<<<"array32", 0>>>> \o NetOrder(n, 4)

WriteMapHeader(n) ==
  IF n < NFixMap THEN <<<<"fixmap", n>>>>
  ELSE IF n < Byte ^ 2 THEN <<<<"map16", 0>>>> \o NetOrder(n, 2)
  ELSE <<<<"map32", 0>>>> \o NetOrder(n, 4)

\* A value is <<type, x>> with the types of Json; an object is a sequence of
\* pairs of a key and a value.  "wide" is a number written with write_wide.
RECURSIVE Unparse(_)
Unparse(j) ==
  CASE j[1] = "null" -> <<<<"null", 0>>>>
    [] j[1] = "b" -> <<<<"bool", j[2]>>>>
    [] j[1] = "u" -> WriteUnsigned(j[2])
    [] j[1] = "i" -> WriteSigned(j[2])
    [] j[1] = "wide" -> <<<<"int64", 0>>>> \o NetOrder(j[2], 8)
    [] j[1] = "d" -> <<<<"float64", 0>>>> \o j[2]
    [] j[1] = "s" -> WriteString(j[2])
    [] j[1] = "a" -> FoldLeft(LAMBDA b, x : b \o Unparse(x), WriteArrayHeader(Len(j[2])), j[2])
    [] j[1] = "o" -> FoldLeft(LAMBDA b, p : b \o WriteString(p[1]) \o Unparse(p[2]),
                              WriteMapHeader(Len(j[2])), j[2])

\* What the reader should see: numbers have one type, and of two values of
\* one key the later one counts.
RECURSIVE Meaning(_)
Meaning(j) ==
  LET IsLast(p, i) == \A k \in i + 1..Len(p) : p[k][1] # p[i][1]
  IN CASE j[1] \in {"u", "wide"} -> <<"i", j[2]>>
       [] j[1] = "a" -> <<"a", [i \in DOMAIN j[2] |-> Meaning(j[2][i])]>>
       [] j[1] = "o" -> <<"o", {<<j[2][i][1], Meaning(j[2][i][2])>> :
                                 i \in {k \in DOMAIN j[2] : IsLast(j[2], k)}}>>
       [] OTHER -> j

-----------------------------------------------------------------------------
\* Places in a Json: jp is a path, and Key is &jokey_.
Null == <<"null", 0>>
Key == <<0>>
ChildAt(j, i) == IF j[1] = "a" THEN j[2][i] ELSE j[2][i][2]

RECURSIVE PutAt(_, _, _)
PutAt(j, jp, x) ==
  IF jp = <<>> THEN x
  ELSE LET y == PutAt(ChildAt(j, jp[1]), Tail(jp), x)
       IN IF j[1] = "a" THEN <<"a", [j[2] EXCEPT ![jp[1]] = y]>>
          ELSE <<"o", [j[2] EXCEPT ![jp[1]] = <<@[1], y>>]>>

At(j, jp) == FoldLeft(ChildAt, j, jp)

\* top[-1].jp, or json_ below the first element.
Holder(stk) == IF Len(stk) = 1 THEN <<>> ELSE stk[Len(stk) - 1].jp
jx == IF stack = <<>> THEN <<>> ELSE Last(stack).jp

\* Json::get_insert: where k is, or is put.
GetInsert(o, k) ==
  LET found == {i \in DOMAIN o[2] : o[2][i][1] = k}
  IN IF found # {} THEN [o |-> o, i |-> CHOOSE i \in found : TRUE]
     ELSE [o |-> <<"o", Append(o[2], <<k, Null>>)>>, i |-> Len(o[2]) + 1]

\* Json::to_s of a key that is a string or a number.
to_s(x) == IF x[1] = "s" THEN x[2] ELSE <<x>>

-----------------------------------------------------------------------------
\* nbytes: what a header needs, the format included; 0 is an error.
NBytes(f) ==
  CASE f \in {"fixint", "null", "bool", "fixstr", "fixarray", "fixmap"} -> 1
    [] f \in {"uint8", "int8", "str8"} -> 2
    [] f \in {"uint16", "int16", "str16", "array16", "map16"} -> 3
    [] f \in {"uint32", "int32", "str32", "array32", "map32"} -> 5
    [] f \in {"uint64", "int64", "float64"} -> 9
    [] OTHER -> 0

\* The header h as <<type, value>>, where the value of a string, an array or
\* an object is its size.
Decode(h) ==
  LET f == h[1][1]
      d == Tail(h)
  IN CASE f = "fixint" -> <<"i", h[1][2]>>
       [] f = "null" -> Null
       [] f = "bool" -> <<"b", h[1][2]>>
       [] f = "float64" -> <<"d", d>>
       [] f \in {"uint8", "uint16", "uint32", "uint64"} -> <<"i", Unsigned(d)>>
       [] f \in {"int8", "int16", "int32", "int64"} -> <<"i", Signed(d)>>
       [] f = "fixstr" -> <<"s", h[1][2]>>
       [] f \in {"str8", "str16", "str32"} -> <<"s", Unsigned(d)>>
       [] f = "fixarray" -> <<"a", h[1][2]>>
       [] f \in {"array16", "array32"} -> <<"a", Unsigned(d)>>
       [] f = "fixmap" -> <<"o", h[1][2]>>
       [] f \in {"map16", "map32"} -> <<"o", Unsigned(d)>>

\* *jx = x: an array that is there already is resized and an object emptied.
Resize(a, n) == [i \in 1..n |-> IF i <= Len(a) THEN a[i] ELSE Null]
Filled(type, n, old) ==
  IF type = "o" THEN <<"o", <<>>>>
  ELSE <<"a", Resize(IF old[1] = "a" THEN old[2] ELSE <<>>, n)>>

\* The elements that expect nothing more are popped.
Popped(stk) ==
  LET open == {i \in DOMAIN stk : stk[i].size # 0}
  IN SubSeq(stk, 1, IF open = {} THEN 0 ELSE CHOOSE i \in open : \A k \in open : k <= i)

\* From the label next: on, with x of type x[1] put at jp and n elements to come.
Add(x, n, p, stk, jp) ==
  /\ str' = <<>> /\ pos' = p
  /\ IF jp = Key
     THEN \* a key: make a place for its value
          IF x[1] \notin {"s", "i"}
          THEN state' = "error" /\ jokey' = x /\ UNCHANGED <<stack, json>>
          ELSE LET g == GetInsert(At(json, Holder(stk)), to_s(x))
               IN /\ json' = PutAt(json, Holder(stk), g.o)
                  /\ stack' = [stk EXCEPT ![Len(stk)].jp = Append(Holder(stk), g.i)]
                  /\ jokey' = x /\ state' = "normal"
     ELSE /\ json' = PutAt(json, jp, x) /\ jokey' = jokey
          /\ IF x[1] \in {"a", "o"} /\ n # 0
             THEN /\ stack' = Append(stk, [jp |-> IF x[1] = "a" THEN Append(jp, 1) ELSE Key,
                                           size |-> n - 1])
                  /\ state' = "normal"
             ELSE LET s == Popped(stk)
                      top == Last(s)
                      onward == IF At(json', Holder(s))[1] = "a"
                                THEN Append(Front(top.jp), Last(top.jp) + 1) ELSE Key
                  IN IF s = <<>> THEN stack' = s /\ state' = "final"
                     ELSE /\ stack' = [s EXCEPT ![Len(s)] = [jp |-> onward, size |-> top.size - 1]]
                          /\ state' = "normal"

\* A complete header h, the bytes after it starting at p; the parser may look
\* at them up to lim.
Take(h, p, lim) ==
  LET v == Decode(h)
  IN IF v[1] = "s"
     THEN IF lim - p < v[2]
          THEN /\ str' = SubSeq(bytes, p + 1, lim) /\ pos' = lim
               /\ stack' = Append(stack, [jp |-> <<>>, size |-> v[2]])
               /\ state' = "string" /\ UNCHANGED <<json, jokey>>
          ELSE Add(<<"s", SubSeq(bytes, p + 1, p + v[2])>>, 0, p + v[2], stack, jx)
     ELSE IF v[1] \in {"a", "o"}
     THEN Add(Filled(v[1], v[2], IF jx = Key THEN jokey ELSE At(json, jx)), v[2], p, stack, jx)
     ELSE Add(v, 0, p, stack, jx)

-----------------------------------------------------------------------------
\* consume is called with the next k bytes.
Feed(k) ==
  /\ pos = last /\ state \in {"normal", "partial", "string"}
  /\ last + k <= Len(bytes) /\ last' = last + k
  /\ UNCHANGED <<sent, bytes, ends, pos, state, stack, str, json, jokey, which>>


\* How many bytes go to str_.
Rest(nneed) == LET k == last - pos IN IF k < nneed - Len(str) THEN k ELSE nneed - Len(str)

\* The rest of a header that the last chunk had the beginning of.
PartialHeader ==
  /\ state = "partial" /\ pos < last
  /\ LET nneed == NBytes(str[1][1])
         next == pos + Rest(nneed)
         h == str \o SubSeq(bytes, pos + 1, next)
     IN IF Len(h) # nneed
        THEN str' = h /\ pos' = next /\ UNCHANGED <<state, stack, json, jokey>>
        ELSE Take(h, next, next)
  /\ last' = IF state' = "normal" THEN last ELSE pos'
  /\ UNCHANGED <<sent, bytes, ends, which>>

\* The rest of a string.
PartialString ==
  /\ state = "string" /\ pos < last
  /\ LET nneed == Last(stack).size
         next == pos + Rest(nneed)
         s == str \o SubSeq(bytes, pos + 1, next)
         below == Front(stack)
     IN IF Len(s) # nneed
        THEN str' = s /\ pos' = next /\ UNCHANGED <<state, stack, json, jokey>>
        ELSE Add(<<"s", s>>, 0, next, below, IF below = <<>> THEN <<>> ELSE Last(below).jp)
  /\ last' = IF state' = "normal" THEN last ELSE pos'
  /\ UNCHANGED <<sent, bytes, ends, which>>

\* One turn of the loop.
Element ==
  /\ state = "normal" /\ pos < last
  /\ LET need == NBytes(bytes[pos + 1][1])
     IN IF need = 0
        THEN state' = "error" /\ UNCHANGED <<pos, stack, str, json, jokey>>
        ELSE IF last - pos < need
        THEN /\ str' = SubSeq(bytes, pos + 1, last) /\ pos' = last /\ state' = "partial"
             /\ UNCHANGED <<stack, json, jokey>>
        ELSE Take(SubSeq(bytes, pos + 1, pos + need), pos + need, last)
  /\ last' = IF state' = "normal" THEN last ELSE pos'
  /\ UNCHANGED <<sent, bytes, ends, which>>

\* The result has been used: reset keeps the Json.
Reset ==
  /\ state = "final" /\ which < Len(sent)
  /\ which' = which + 1 /\ state' = "normal" /\ stack' = <<>>
  /\ UNCHANGED <<sent, bytes, ends, pos, last, str, json, jokey>>

Sizes(s) == [i \in DOMAIN s |-> Len(Unparse(s[i]))]
Init ==
  /\ sent \in Session
  /\ bytes = FoldLeft(LAMBDA b, j : b \o Unparse(j), <<>>, sent)
  /\ ends = [i \in DOMAIN sent |-> FoldLeft(+, 0, SubSeq(Sizes(sent), 1, i))]
  /\ pos = 0 /\ last = 0 /\ state = "normal" /\ stack = <<>> /\ str = <<>>
  /\ json = Null /\ jokey = Null /\ which = 1

Next ==
  \/ \E k \in 1..Len(bytes) : Feed(k)
  \/ PartialHeader \/ PartialString \/ Element \/ Reset

Spec == Init /\ [][Next]_vars

-----------------------------------------------------------------------------
(* msgpack::parser, which reads records that are complete: each method has  *)
(* the place p of a value and gives the value and the place after it.       *)

Format(p) == bytes[p + 1][1]
Small(p) == bytes[p + 1][2]
read_in_net_order(p, w) == SubSeq(bytes, p + 2, p + 1 + w)
Got(x, p) == [x |-> x, p |-> p]

try_read_null(p) == IF Format(p) = "null" THEN Got(Null, p + 1) ELSE Got(<<"other", 0>>, p)

\* The parser takes the sign from the format.
hard_read_int(p) ==
  CASE Format(p) = "uint8" -> Got(Unsigned(read_in_net_order(p, 1)), p + 2)
    [] Format(p) = "uint16" -> Got(Unsigned(read_in_net_order(p, 2)), p + 3)
    [] Format(p) = "uint32" -> Got(Unsigned(read_in_net_order(p, 4)), p + 5)
    [] Format(p) = "uint64" -> Got(Unsigned(read_in_net_order(p, 8)), p + 9)
    [] Format(p) = "int8" -> Got(Signed(read_in_net_order(p, 1)), p + 2)
    [] Format(p) = "int16" -> Got(Signed(read_in_net_order(p, 2)), p + 3)
    [] Format(p) = "int32" -> Got(Signed(read_in_net_order(p, 4)), p + 5)
    [] Format(p) = "int64" -> Got(Signed(read_in_net_order(p, 8)), p + 9)
read_int(p) ==
  LET r == IF Format(p) = "fixint" THEN Got(Small(p), p + 1) ELSE hard_read_int(p)
  IN  Got(<<"i", r.x>>, r.p)
read_bool(p) == Got(<<"b", Small(p)>>, p + 1)
read_double(p) == Got(<<"d", read_in_net_order(p, 8)>>, p + 9)

\* operator>> of a Str, which points into the record.
read_Str(p) ==
  LET f == Format(p)
      w == NBytes(f) - 1
      len == IF f = "fixstr" THEN Small(p) ELSE Unsigned(read_in_net_order(p, w))
  IN  Got(<<"s", SubSeq(bytes, p + w + 2, p + w + 1 + len)>>, p + 1 + w + len)

read_array_header(p) ==
  CASE Format(p) = "fixarray" -> Got(Small(p), p + 1)
    [] Format(p) = "array16" -> Got(Unsigned(read_in_net_order(p, 2)), p + 3)
    [] Format(p) = "array32" -> Got(Unsigned(read_in_net_order(p, 4)), p + 5)

skip_array_size(p) == IF Format(p) = "fixarray" THEN p + 1 ELSE IF Format(p) = "array16" THEN p + 3 ELSE p + 5

\* skip_primitives(1); a number of 64 bits or a double is not skipped.
skip_primitive(p) ==
  LET f == Format(p)
  IN  CASE f \in {"fixint", "null", "bool"} -> p + 1
        [] f = "fixstr" -> p + 1 + Small(p)
        [] f \in {"uint8", "int8"} -> p + 2
        [] f \in {"uint16", "int16"} -> p + 3
        [] f \in {"uint32", "int32"} -> p + 5
        [] f \in {"str8", "str16", "str32"} -> read_Str(p).p
        [] OTHER -> p

\* A reader asks for what it knows to be there; it has no method for objects.
RECURSIVE Readable(_)
Readable(j) == j[1] # "o" /\ (j[1] = "a" => \A i \in DOMAIN j[2] : Readable(j[2][i]))
RECURSIVE ReadAs(_, _)
ReadAs(j, p) ==
  CASE j[1] = "null" -> try_read_null(p)
    [] j[1] \in {"u", "i", "wide"} -> read_int(p)
    [] j[1] = "b" -> read_bool(p)
    [] j[1] = "d" -> read_double(p)
    [] j[1] = "s" -> read_Str(p)
    [] j[1] = "a" -> FoldLeft(LAMBDA r, x : LET y == ReadAs(x, r.p) IN Got(<<"a", Append(r.x[2], y.x)>>, y.p),
                              Got(<<"a", <<>>>>, read_array_header(p).p), j[2])

\* The record reader at p sees j, which ends at end, and skips it.
ReadsBack(j, p, end) ==
  /\ ReadAs(j, p) = Got(Meaning(j), end)
  /\ j[1] # "a" /\ Format(p) \notin {"uint64", "int64", "float64"} => skip_primitive(p) = end
  /\ j[1] = "a" => read_array_header(p) = Got(Len(j[2]), skip_array_size(p))

============================================================================
