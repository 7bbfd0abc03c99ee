------------------------------ MODULE JsonText ------------------------------
(***************************************************************************)
(* Json as text: unparse (json.cc, string_base.hh) and the streaming       *)
(* parser (json.cc), which is given the text in chunks cut anywhere.       *)
(* Text is a sequence of bytes.  strtod and the printing of a double are   *)
(* external: a double is its text.                                         *)
(***************************************************************************)
EXTENDS Integers, Sequences, SequencesExt

CONSTANTS
  Session,     \* the sequences of values that may be sent: [v, m] with the
               \* value and how it is unparsed: "normal", "space" or "indent",
               \* or [v, m, t] with "foreign" and a text that another program wrote
  TabWidth,    \* unparse_manipulator::tab_width
  MaxDepth,    \* max_depth
  Beyond       \* what may be found in memory behind a chunk

VARIABLES
  sent,        \* the values
  text,        \* the value that is parsed, as text, and something behind it
  end,         \* where its text ends
  pos, last,   \* consume's first and last
  complete,    \* its argument: is this the end of the input?
  state,       \* state_ without its parts, or "final", "error"
  part,        \* the parts of state_: [kind, len], kind is "none", "string",
               \* "primitive" or "number"
  stack,       \* stack_: places in json_
  str,         \* str_
  json,        \* json_
  which        \* the value that is parsed

vars == <<sent, text, end, pos, last, complete, state, part, stack, str, json, which>>
parser == <<state, part, stack, str, json>>

-----------------------------------------------------------------------------
\* Bytes.
Quote == 34
Slash == 47
Backslash == 92
Null == <<"null", 0>>
InRange(x, low, high) == low <= x /\ x < high
IsDigit(c) == InRange(c, 48, 58)
IsXDigit(c) == IsDigit(c) \/ InRange(c, 65, 71) \/ InRange(c, 97, 103)
IsSpace(c) == c \in {32, 10, 13, 9}
Word == [null |-> <<110, 117, 108, 108>>, false |-> <<102, 97, 108, 115, 101>>, true |-> <<116, 114, 117, 101>>]
HexDigit(d) == IF d < 10 THEN 48 + d ELSE 55 + d

\* append_utf8 and append_utf8_hard; nothing if ch is no character.
append_utf8(ch) ==
  IF ch <= 0 \/ InRange(ch, 55296, 57344) \/ InRange(ch, 65534, 65536) \/ ch >= 1114112 THEN <<>>
  ELSE IF ch <= 127 THEN <<ch>>
  ELSE IF ch < 32768 THEN <<192 + ((ch \div 64) % 64), 128 + (ch % 64)>>
  ELSE IF ch < 65536 THEN <<224 + (ch \div 4096), 128 + ((ch \div 64) % 64), 128 + (ch % 64)>>
  ELSE <<240 + (ch \div 262144), 128 + ((ch \div 4096) % 64), 128 + ((ch \div 64) % 64), 128 + (ch % 64)>>

-----------------------------------------------------------------------------
\* encode_json: the character at the head of s, and how many bytes it has.
Escape(s) ==
  LET c == s[1]
      line == Len(s) > 2 /\ c = 226 /\ s[2] = 128 /\ s[3] \in {168, 169}
      short == [b |-> 8, t |-> 9, n |-> 10, f |-> 12, r |-> 13]
      letter == [b |-> 98, t |-> 116, n |-> 110, f |-> 102, r |-> 114]
      x == IF line THEN 8232 + (s[3] % 2) ELSE c
  IN IF line \/ (c < 32 /\ \A k \in DOMAIN short : short[k] # c)
     THEN <<<<Backslash, 117, HexDigit(x \div 4096), HexDigit((x \div 256) % 16),
              HexDigit((x \div 16) % 16), HexDigit(x % 16)>>, IF line THEN 3 ELSE 1>>
     ELSE IF c < 32 THEN <<<<Backslash, letter[CHOOSE k \in DOMAIN short : short[k] = c]>>, 1>>
     ELSE IF c \in {Quote, Backslash, Slash} THEN <<<<Backslash, c>>, 1>>
     ELSE <<<<c>>, 1>>

RECURSIVE encode_json(_)
encode_json(s) ==
  IF s = <<>> THEN <<>>
  ELSE LET e == Escape(s) IN e[1] \o encode_json(SubSeq(s, e[2] + 1, Len(s)))

RECURSIVE Decimal(_)
Decimal(n) ==
  IF n < 0 THEN <<45>> \o Decimal(-n)
  ELSE (IF n < 10 THEN <<>> ELSE Decimal(n \div 10)) \o <<48 + (n % 10)>>

\* A value is <<type, x>>; an object is a sequence of pairs of key and value.
IsPrimitive(j) == j[1] \notin {"a", "o"}
IsEmpty(j) == j = Null \/ (j[1] \in {"a", "o"} /\ j[2] = <<>>)
unparse_is_complex(j) ==
  IF j[1] = "o" THEN Len(j[2]) > 5 \/ \E i \in DOMAIN j[2] : ~IsEmpty(j[2][i][2]) /\ ~IsPrimitive(j[2][i][2])
  ELSE \/ Len(j[2]) > 1024
       \/ \E i \in DOMAIN j[2] : /\ ~IsEmpty(j[2][i])
                                 /\ ~IsPrimitive(j[2][i]) \/ (j[2][i][1] = "s" /\ i > 4 /\ Len(j[2][i][2]) > 40)

unparse_indent(depth) ==
  LET d == depth * TabWidth IN <<10>> \o [i \in 1..d \div 8 |-> 9] \o [i \in 1..d % 8 |-> 32]

RECURSIVE hard_unparse(_, _, _)
hard_unparse(j, m, depth) ==
  LET expanded == m = "indent" /\ unparse_is_complex(j)
      colon == IF expanded \/ m = "space" THEN <<58, 32>> ELSE <<58>>
      comma == IF ~expanded /\ m = "space" THEN <<44, 32>> ELSE <<44>>
      Item(x) == IF j[1] = "a" THEN hard_unparse(x, m, depth + 1)
                 ELSE <<Quote>> \o encode_json(x[1]) \o <<Quote>> \o colon \o hard_unparse(x[2], m, depth + 1)
      Items == FoldLeft(LAMBDA t, x : t \o (IF t = <<>> THEN <<>> ELSE comma)
                                        \o (IF expanded THEN unparse_indent(depth + 1) ELSE <<>>) \o Item(x),
                        <<>>, j[2])
      close == IF expanded THEN unparse_indent(depth) ELSE <<>>
  IN CASE j[1] = "o" -> <<123>> \o Items \o close \o <<125>>
       [] j[1] = "a" -> <<91>> \o Items \o close \o <<93>>
       [] j[1] = "null" -> Word.null
       [] j[1] = "s" -> <<Quote>> \o encode_json(j[2]) \o <<Quote>>
       [] j[1] = "b" -> IF j[2] = 1 THEN Word.true ELSE Word.false
       [] j[1] = "i" -> Decimal(j[2])
       [] j[1] = "d" -> j[2]

-----------------------------------------------------------------------------
\* consume_backslash on b from p up to e: how many bytes it is short of
\* (need), or the bytes ch stands for and where it goes on; <<>> is an error.
Hex(b, p, lower) ==
  FoldLeft(LAMBDA x, c : IF x < 0 THEN -1
                         ELSE IF IsDigit(c) THEN 16 * x + c - 48
                         ELSE IF InRange(c, 65, 71) THEN 16 * x + c - 55
                         ELSE IF lower /\ InRange(c, 97, 103) THEN 16 * x + c - 87 ELSE -1,
           0, SubSeq(b, p + 1, p + 4))
Bad == [out |-> <<>>, p |-> -1]
Incomplete == [out |-> <<>>, p |-> 0]
Bytes(out, p) == IF out = <<>> THEN Bad ELSE [out |-> out, p |-> p]
Decoded(ch, p) == Bytes(append_utf8(ch), p)
Plain == <<<<Quote, Quote>>, <<Backslash, Backslash>>, <<Slash, Slash>>, <<98, 8>>, <<102, 12>>, <<110, 10>>,
           <<114, 13>>, <<116, 9>>>>
SecondHalf(ch, ch2, p) ==
  IF ~InRange(ch2, 56320, 57344) THEN Bad ELSE Decoded(65536 + (ch - 55296) * 1024 + (ch2 - 56320), p + 12)
Unicode(b, p, n, ch) ==
  IF ~InRange(ch, 55296, 57344) THEN Decoded(ch, p + 6)
  ELSE \* the first half of a surrogate pair
       IF \/ ch >= 56320
          \/ n > 6 /\ b[p + 7] # Backslash
          \/ n > 7 /\ b[p + 8] # 117
          \/ \E i \in 9..12 : i <= n /\ ~IsDigit(b[p + i]) /\ ~InRange(b[p + i], 65, 71)
  THEN Bad
  ELSE IF n < 12 THEN Incomplete ELSE SecondHalf(ch, Hex(b, p + 8, FALSE), p)
consume_backslash(b, p, e) ==
  LET n == e - p
      plain == {i \in DOMAIN Plain : Plain[i][1] = b[p + 2]}
  IN IF n = 1 THEN Incomplete
     ELSE IF plain # {} THEN Decoded(Plain[CHOOSE i \in plain : TRUE][2], p + 2)
     ELSE IF b[p + 2] # 117 \/ \E i \in 3..6 : i <= n /\ ~IsXDigit(b[p + i]) THEN Bad
     ELSE IF n < 6 THEN Incomplete ELSE Unicode(b, p, n, Hex(b, p + 2, TRUE))

\* What consume_string does with a multibyte character, n bytes of which are
\* there: it looks at the second byte even if it is behind the chunk.
Utf8Bad(b, p, n, beyond) ==
  LET c == b[p + 1]
      then == IF n > 1 THEN b[p + 2] ELSE beyond
  IN \/ n > 1 /\ ~InRange(then, 128, 192)
     \/ c = 224 /\ then < 160
     \/ c = 237 /\ then >= 160
     \/ c = 240 /\ then < 144
     \/ c = 244 /\ then >= 144
     \/ n > 2 /\ ~InRange(b[p + 3], 128, 192)
     \/ n > 3 /\ ~InRange(b[p + 4], 128, 192)

\* The loop of consume_string: sa is what it has so far, and part says how
\* many bytes at the end of sa are not yet a character.
More(sa, n, p) == [how |-> "open", sa |-> sa, part |-> n, p |-> p]
Failed == [how |-> "error", sa |-> <<>>, part |-> 0, p |-> 0]
Piece(b, i, j) == SubSeq(b, i + 1, j)
RECURSIVE StringLoop(_, _, _, _, _)
AfterBackslash(r, b, p, e, sa, beyond) ==
  IF r = Bad THEN Failed
  ELSE IF r = Incomplete THEN More(sa \o Piece(b, p, e), e - p, e)
  ELSE StringLoop(b, r.p, e, sa \o r.out, beyond)
StringLoop(b, p, e, sa, beyond) ==
  IF p = e THEN More(sa, 0, e)
  ELSE LET c == b[p + 1]
           want == 2 + (IF c >= 224 THEN 1 ELSE 0) + (IF c >= 240 THEN 1 ELSE 0)
           n == IF e - p < want THEN e - p ELSE want
       IN IF c = Quote THEN [how |-> "closed", sa |-> sa, part |-> 0, p |-> p + 1]
          ELSE IF c = Backslash THEN AfterBackslash(consume_backslash(b, p, e), b, p, e, sa, beyond)
          ELSE IF InRange(c, 32, 128) THEN StringLoop(b, p + 1, e, Append(sa, c), beyond)
          ELSE IF ~InRange(c, 194, 245) \/ Utf8Bad(b, p, n, beyond) THEN Failed
          ELSE IF n # want THEN More(sa \o Piece(b, p, e), n, e)
          ELSE StringLoop(b, p + n, e, sa \o Piece(b, p, p + n), beyond)

\* consume_stringpart: the character that the last chunk had the beginning of.
RECURSIVE consume_stringpart(_, _, _, _, _)
AfterPart(r, b, p, e) == IF r.how = "error" THEN Failed ELSE consume_stringpart(r.sa, r.part, b, p, e)
consume_stringpart(sa, n, b, p, e) ==
  IF n = 0 \/ p = e THEN More(sa, n, p)
  ELSE LET tag == sa[Len(sa) - n + 1]
           c == b[p + 1]
           escape == tag = Backslash
           wrong == \/ ~escape /\ ~InRange(c, 128, 192)
                    \/ escape /\ n = 6 /\ c # Backslash
                    \/ escape /\ n = 7 /\ c # 117
                    \/ escape /\ n \notin {1, 6, 7} /\ ~IsXDigit(c)
           full == \/ ~escape /\ n = 1 + (IF tag >= 224 THEN 1 ELSE 0) + (IF tag >= 240 THEN 1 ELSE 0)
                   \/ escape /\ n \in {1, 5, 11}
           whole == Append(sa, c)
           kept == Len(whole) - n - 1
       IN IF wrong THEN Failed
          ELSE IF ~full THEN consume_stringpart(whole, n + 1, b, p + 1, e)
          ELSE AfterPart(StringLoop(Piece(whole, kept, Len(whole)), 0, n + 1, Piece(whole, 0, kept), 0), b, p + 1, e)

\* A bug to catch: the bytes of an unfinished character are taken for one.
consume_string_NoPart(b, p, e, sa, n, beyond) == StringLoop(b, p, e, sa, beyond)

StringRest(r, b, e, beyond) == IF r.how = "error" \/ r.p = e THEN r ELSE StringLoop(b, r.p, e, r.sa, beyond)
consume_string(b, p, e, sa, n, beyond) == StringRest(consume_stringpart(sa, n, b, p, e), b, e, beyond)

\* consume_number: its position after c, -1 if c is not part of the number.
NumberStep(position, c) ==
  CASE position = 0 /\ c = 45 -> 2
    [] position \in {0, 2} /\ c = 48 -> 3
    [] position \in {0, 1, 2} /\ IsDigit(c) -> 1
    [] position \in {1, 3} /\ c = 46 -> 4
    [] position \in {1, 3, 5} /\ c \in {69, 101} -> 6
    [] position \in {4, 5} /\ IsDigit(c) -> 5
    [] position = 6 /\ c \in {43, 45} -> 8
    [] position \in {6, 8, 9} /\ IsDigit(c) -> 9
    [] OTHER -> -1

RECURSIVE NumberLoop(_, _, _, _)
NumberLoop(b, p, e, position) ==
  LET next == IF p = e THEN -1 ELSE NumberStep(position, b[p + 1])
  IN IF next = -1 THEN <<p, position>> ELSE NumberLoop(b, p + 1, e, next)

Digits(t) == FoldLeft(LAMBDA x, c : 10 * x + c - 48, 0, t)
NumberValue(t, position) ==
  IF position > 3 THEN <<"d", t>> ELSE IF t[1] = 45 THEN <<"i", -Digits(Tail(t))>> ELSE <<"i", Digits(t)>>

-----------------------------------------------------------------------------
\* Places in json_.
ChildAt(j, i) == IF j[1] = "a" THEN j[2][i] ELSE j[2][i][2]
At(j, jp) == FoldLeft(ChildAt, j, jp)
RECURSIVE PutAt(_, _, _)
PutAt(j, jp, x) ==
  IF jp = <<>> THEN x
  ELSE LET y == PutAt(ChildAt(j, jp[1]), Tail(jp), x)
       IN IF j[1] = "a" THEN <<"a", [j[2] EXCEPT ![jp[1]] = y]>>
          ELSE <<"o", [j[2] EXCEPT ![jp[1]] = <<@[1], y>>]>>
current == IF stack = <<>> THEN <<>> ELSE Last(stack)
NoPart == [kind |-> "none", len |-> 0]
ValueStates == {"initial", "array_initial", "array_value", "object_value"}

\* The label value: j goes to its place.
Value(j) ==
  LET jp == current
      into == state # "initial" /\ At(json, jp)[1] = "a"
      place == IF into THEN Append(jp, Len(At(json, jp)[2]) + 1) ELSE jp
      popped == IF state = "object_value" THEN Front(stack) ELSE stack
  IN /\ json' = IF into THEN PutAt(json, jp, <<"a", Append(At(json, jp)[2], j)>>) ELSE PutAt(json, jp, j)
     /\ IF j[1] \in {"a", "o"}
        THEN /\ stack' = IF state = "initial" THEN popped ELSE Append(popped, place)
             /\ state' = IF j[1] = "a" THEN "array_initial" ELSE "object_initial"
        ELSE /\ stack' = popped
             /\ state' = CASE state = "object_value" -> "object_delim"
                           [] state \in {"array_initial", "array_value"} -> "array_delim"
                           [] OTHER -> "final"
     /\ part' = NoPart

\* The label close_value.
CloseValue ==
  /\ IF stack = <<>> THEN state' = "final" /\ stack' = stack
     ELSE LET below == Front(stack)
              jp == IF below = <<>> THEN <<>> ELSE Last(below)
          IN stack' = below /\ state' = IF At(json, jp)[1] = "a" THEN "array_delim" ELSE "object_delim"
  /\ UNCHANGED <<part, str, json>>

Error == state' = "error" /\ UNCHANGED <<part, stack, str, json>>

\* consume_string for a value, and for a key.
AString(p, sa, n) ==
  \E beyond \in Beyond :
    \E r \in {consume_string(text, p, last, sa, n, beyond)} :
       CASE r.how = "error" -> Error /\ pos' = pos
         [] r.how = "open" -> /\ str' = r.sa /\ pos' = r.p /\ part' = [kind |-> "string", len |-> r.part]
                              /\ state' = IF state \in ValueStates THEN state ELSE "object_colon"
                              /\ UNCHANGED <<stack, json>>
         [] r.how = "closed" /\ state \in ValueStates ->
              Value(<<"s", r.sa>>) /\ str' = <<>> /\ pos' = r.p
         [] OTHER ->
              LET o == At(json, current)[2]
                  found == {i \in DOMAIN o : o[i][1] = r.sa}
              IN /\ json' = IF found # {} THEN json ELSE PutAt(json, current, <<"o", Append(o, <<r.sa, Null>>)>>)
                 /\ stack' = Append(stack, Append(current, IF found # {} THEN CHOOSE i \in found : TRUE ELSE Len(o) + 1))
                 /\ state' = "object_colon" /\ part' = NoPart /\ str' = <<>> /\ pos' = r.p

\* consume_primitive: n characters of the word w have been seen.
APrimitive(w, n, p) ==
  LET t == Word[w]
      k == IF last - p < Len(t) - n THEN last - p ELSE Len(t) - n
      same == \A i \in 1..k : text[p + i] = t[n + i]
  IN IF ~same THEN Error /\ pos' = pos
     ELSE /\ pos' = p + k
          /\ IF n + k < Len(t)
             THEN part' = [kind |-> w, len |-> n + k] /\ UNCHANGED <<state, stack, json, str>>
             ELSE /\ Value(IF w = "null" THEN Null ELSE <<"b", IF w = "true" THEN 1 ELSE 0>>)
                  /\ str' = str

ANumber(position, before) ==
  \E r \in {NumberLoop(text, pos, last, position)} : \E all \in {before \o Piece(text, pos, r[1])} :
     /\ pos' = r[1]
     /\ IF r[1] # last \/ complete
        THEN IF r[2] % 2 = 0 THEN state' = "error" /\ str' = <<>> /\ UNCHANGED <<part, stack, json>>
             ELSE Value(NumberValue(all, r[2])) /\ str' = <<>>
        ELSE str' = all /\ part' = [kind |-> "number", len |-> r[2]] /\ UNCHANGED <<state, stack, json>>

-----------------------------------------------------------------------------
Unread == UNCHANGED <<sent, text, end, last, complete, which>>

\* consume is called with k more bytes, and the last time with complete.
Feed(k, done) ==
  /\ pos = last /\ state \notin {"final", "error"} /\ ~complete
  /\ last + k <= Len(text) /\ (done => last + k = Len(text)) /\ (k = 0 => done)
  /\ last' = last + k /\ complete' = done
  /\ UNCHANGED <<sent, text, end, pos, parser, which>>

\* The rest of what the last chunk had the beginning of.
Resume ==
  /\ part.kind # "none" /\ state \notin {"final", "error"} /\ Unread
  /\ pos < last \/ complete
  /\ \/ part.kind = "string" /\ AString(pos, str, part.len)
     \/ part.kind \in DOMAIN Word /\ APrimitive(part.kind, part.len, pos)
     \/ part.kind = "number" /\ ANumber(part.len, str)

InLoop == part.kind = "none" /\ state \notin {"final", "error"} /\ pos < last /\ Unread
Byte1 == text[pos + 1]
Skip == pos' = pos + 1

Space == InLoop /\ IsSpace(Byte1) /\ Skip /\ UNCHANGED parser

Delimiter ==
  /\ InLoop /\ Byte1 \in {44, 58}
  /\ LET next == CASE Byte1 = 44 /\ state = "array_delim" -> "array_value"
                   [] Byte1 = 44 /\ state = "object_delim" -> "object_key"
                   [] Byte1 = 58 /\ state = "object_colon" -> "object_value"
                   [] OTHER -> "error"
     IN IF next = "error" THEN Error /\ pos' = pos
        ELSE state' = next /\ Skip /\ UNCHANGED <<part, stack, str, json>>

Open ==
  /\ InLoop /\ Byte1 \in {123, 91}
  /\ IF state \in ValueStates /\ Len(stack) # MaxDepth
     THEN Skip /\ Value(<<IF Byte1 = 123 THEN "o" ELSE "a", <<>>>>) /\ UNCHANGED str
     ELSE Error /\ pos' = pos

Close ==
  /\ InLoop /\ Byte1 \in {125, 93}
  /\ IF state \in (IF Byte1 = 125 THEN {"object_initial", "object_delim"} ELSE {"array_initial", "array_delim"})
     THEN Skip /\ CloseValue ELSE Error /\ pos' = pos

BeginString ==
  /\ InLoop /\ Byte1 = Quote
  /\ IF state \in ValueStates \cup {"object_initial", "object_key"}
     THEN AString(pos + 1, <<>>, 0) ELSE Error /\ pos' = pos

BeginPrimitive ==
  /\ InLoop /\ Byte1 \in {110, 102, 116}
  /\ IF state \in ValueStates
     THEN APrimitive(IF Byte1 = 110 THEN "null" ELSE IF Byte1 = 102 THEN "false" ELSE "true", 1, pos + 1)
     ELSE Error /\ pos' = pos

BeginNumber ==
  /\ InLoop /\ (IsDigit(Byte1) \/ Byte1 = 45)
  /\ IF state \in ValueStates THEN ANumber(0, <<>>) ELSE Error /\ pos' = pos

Other ==
  /\ InLoop /\ ~IsSpace(Byte1) /\ ~IsDigit(Byte1)
  /\ Byte1 \notin {44, 58, 123, 91, 125, 93, Quote, 110, 102, 116, 45}
  /\ Error /\ pos' = pos

\* The result has been used: reset keeps the Json.
TextOf(s) == IF s.m = "foreign" THEN s.t ELSE hard_unparse(s.v, s.m, 0)
Reset ==
  /\ state = "final" /\ which < Len(sent)
  /\ which' = which + 1 /\ state' = "initial" /\ stack' = <<>>
  /\ text' = TextOf(sent[which + 1]) /\ end' = Len(text') /\ pos' = 0 /\ last' = 0 /\ complete' = FALSE
  /\ UNCHANGED <<sent, part, str, json>>

Init ==
  /\ sent \in Session /\ which = 1
  /\ text = TextOf(sent[1]) /\ end = Len(text) /\ pos = 0 /\ last = 0 /\ complete = FALSE
  /\ state = "initial" /\ part = NoPart /\ stack = <<>> /\ str = <<>> /\ json = Null

Next ==
  \/ \E k \in 0..Len(text), done \in BOOLEAN : Feed(k, done)
  \/ Resume \/ Space \/ Delimiter \/ Open \/ Close \/ BeginString \/ BeginPrimitive \/ BeginNumber
  \/ Other \/ Reset

Spec == Init /\ [][Next]_vars

-----------------------------------------------------------------------------
\* What the parser does not read right: the escape of a character from U+0800 to
\* U+7FFF, for which append_utf8_hard makes two bytes (straccum.cc:206), so of the
\* U+2028 and U+2029 that encode_json escapes (string_base.hh:527), and the second
\* half of a surrogate pair in lower case (json.cc:1059).
EscapeAt(t, i) ==
  i + 5 <= Len(t) /\ t[i] = Backslash /\ t[i + 1] = 117 /\ (i > 1 => t[i - 1] # Backslash)
Misread(t) ==
  \E i \in DOMAIN t : EscapeAt(t, i) /\
    LET ch == Hex(t, i + 1, TRUE)
    IN InRange(ch, 2048, 32768) \/ (InRange(ch, 56320, 57344) /\ Hex(t, i + 1, FALSE) < 0)

\* However the text of a value is cut into chunks, the parser accepts it, is
\* done exactly at its end, and has the value again, whatever Json it had
\* before (json.cc:715-900, string_base.hh:518-571): if there is nothing in the
\* text that it reads wrongly.
TextRoundTrip ==
  ~Misread(text) =>
    /\ state # "error"
    /\ state = "final" => pos = end /\ json = sent[which].v
    /\ complete /\ pos = last => state = "final" \/ part.kind # "none"
============================================================================
