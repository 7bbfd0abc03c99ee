----------------------------- MODULE MCLibrary ------------------------------
(***************************************************************************)
(* Programs and library code around the tree, the words its nodes are made *)
(* of, and a row that is read while it changes or rebuilt from logs, each  *)
(* on its own: part says which one moves, and the others stay in one of    *)
(* their initial states.                                                   *)
(***************************************************************************)
EXTENDS Wire

CONSTANTS c1, c2, c3, c4, s1, s2, m1, m2, m3

VARIABLES
  part,
  args, meant, open, lmm, clp, save, got, phase,                             \* Clp
  srep, memo, acc, sval, said, hit,                                          \* StringRep
  plan, at, tpc, active, requests, loc, st, late, failed, faults,            \* KvTest
  msent, bytes, ends, mpos, mlast, mstate, mstack, mstr, mjson, jokey, mwhich,   \* Msgpack
  tsent, text, end, tpos, tlast, complete, tstate, tpart, tstack, tstr, tjson, twhich,  \* JsonText
  jrep, heap, jval, steps,                                                   \* JsonHeap
  cols, ver, upd, rd, past,                                                  \* VersionedRow
  rops, where, unread, value, created, removed,                              \* Replay
  NB, word, perm, nv, seen, node, inserts, splits                            \* PermuterWord, NodeVersion

-----------------------------------------------------------------------------
\* Wire: c1 sends more than fits anywhere and c2 along with it, the numbers of
\* the UDP client c3 wrap, and c4's keys are too long for the server; at last c1
\* sends what just fits the socket while it is answered, and more than that.
C(op, size, answer) == [op |-> op, size |-> size, answer |-> answer]
Does(one, two, three, four) ==
  [c \in Client |-> IF c = c1 THEN one ELSE IF c = c2 THEN two ELSE IF c = c3 THEN three ELSE four]
MCScenario == {
  Does(<<C("aput", 3, 1), C("aget", 1, 2), C("aget", 2, 2), C("ascan", 2, 3)>>, <<>>, <<>>, <<>>),
  Does(<<C("aput", 2, 1), C("aget", 1, 2), C("wait_all", 0, 0), C("get", 1, 2)>>,
       <<C("aput", 3, 1), C("aremove", 2, 1)>>, <<>>, <<>>),
  Does(<<>>, <<>>, <<C("aput", 2, 1), C("aget", 1, 2), C("aget", 1, 1), C("aremove", 1, 1), C("aget", 1, 1),
                     C("wait_all", 0, 0), C("put", 1, 1)>>, <<>>),
  Does(<<C("put", 1, 1)>>, <<>>, <<>>, <<C("aput", 1, 1)>>),
  Does(<<C("aget", 1, 4), C("aput", 3, 4), C("aget", 3, 1)>>, <<>>, <<>>, <<>>),
  Does(<<C("aget", 1, 4), C("aput", 4, 1)>>, <<>>, <<>>, <<>>)}

\* Clp: options like mtd's, among them some that are prefixes of others and
\* one whose value may be left out.
O(id, long, short, val, opt, neg) ==
  [id |-> id, long |-> long, short |-> short, val |-> val, optional |-> opt, negate |-> neg]
MCOpt == <<
  O("nolog", <<"n", "o", "-", "l", "g">>, "", "none", FALSE, FALSE), O("nolog", <<>>, "n", "none", FALSE, FALSE),
  O("pin", <<"p", "i">>, "p", "none", FALSE, TRUE), O("checkpoint", <<"c", "-", "p">>, "c", "int", TRUE, TRUE),
  O("ckpdir", <<"c", "p", "d">>, "", "string", FALSE, FALSE), O("threads", <<"t">>, "j", "notoption", FALSE, FALSE)>>
L == INSTANCE Clp WITH Opt <- MCOpt, Word <- {<<"1">>, <<"p">>, <<"-", "n">>}, Class <- {"short"},
                       MaxArgs <- 3, MaxWords <- 2

S == INSTANCE StringRep WITH Str <- {s1, s2}, Memo <- {m1, m2, m3}, Text <- {<<"a">>, <<"b">>}, Nul <- "0",
       Junk <- "?", Unit <- 4, Space <- 1, MaxLen <- 2,
       rep <- srep, val <- sval

\* KvTest: tests that follow one another use the same tree.
MCPlan ==
  {<<t>> : t \in {"rw1", "sync_rw1", "rw1fixed", "rw16", "rw1long", "rw3", "rw4", "rw4fixed", "wd3", "ycsbk", "bdb", "udp1", "url",
                  "rw2", "rw2fixed", "scantest", "conflictscan1", "scan1", "rscan1", "splitremove1"}}
  \cup {<<"rw1puts", "same", "rwsmall">>, <<"rwsep", "wscale">>, <<"tri1", "tri1check">>, <<"palma", "u1", "palmb">>,
        <<"long_init", "long_go">>, <<"ruscale_init", "uscale", "rscale">>, <<"w1", "r1">>, <<"w1b", "r1">>,
        <<"wcol1", "rcol1", "wcol1o1", "rcol1o1">>, <<"cpa", "cpd", "cpc">>, <<"volt1a", "volt1b">>, <<"volt2a", "volt2b">>, <<"over1", "over2">>,
        <<"rec1", "crash", "rec2">>, <<"wd1", "wd1check">>, <<"wd2", "wd2check">>}
K == INSTANCE KvTest WITH NClient <- 2, Plan <- MCPlan, FirstSeed <- 3, Limit <- 1, Lead <- 1, Batch <- 2,
                          pc <- tpc, todo <- requests

\* Msgpack: numbers around every boundary, and nested values one after another.
D(i) == <<"data", i>>
JNull == <<"null", 0>>
Chars(n) == <<"s", [i \in 1..n |-> D(i % 4)]>>
Num(x) == <<"i", x>>
Many(n, x) == [i \in 1..n |-> x]
k1 == <<D(1)>>
k2 == <<D(2), D(3)>>
Nested ==
  <<"a", <<Num(1), <<"o", <<<<k1, Chars(2)>>, <<k2, <<"a", <<Chars(0), Num(-3)>>>>>>>>>>, <<"a", <<>>>>, Chars(3)>>>>
Twice == <<"o", <<<<k1, <<"a", <<Num(7), Chars(5)>>>>>>, <<k2, <<"o", <<>>>>>>, <<k1, <<"a", <<Num(8)>>>>>>>>>>
Edges ==
  {<<"u", x>> : x \in {0, 1, 2, 3, 4, 15, 16, 255, 256, 65535}}
  \cup {Num(x) : x \in {-129, -128, -9, -8, -3, -2, -1, 0, 1, 2, 7, 8, 127, 128, 300}}
  \cup {<<"wide", 5>>, <<"d", Many(8, D(2))>>, <<"b", 1>>, JNull} \cup {Chars(n) : n \in {0, 1, 3, 4, 15, 16}}
Big == {<<"a", Many(n, Num(3))>> : n \in {2, 3, 16}}
       \cup {<<"o", [i \in 1..n |-> <<<<D(i % 4), D(i \div 4)>>, Chars(i % 3)>>]>> : n \in {2, 16}}
MCPacks == {<<x, y>> : x \in {Nested, Twice}, y \in {Nested, Twice, Num(9)}}
           \cup {<<x, Chars(1)>> : x \in Edges} \cup {<<x, Nested>> : x \in Big}
P == INSTANCE Msgpack WITH Byte <- 4, NFixUint <- 2, NFixNeg <- 1, NFixStr <- 2, NFixArray <- 2, NFixMap <- 2,
       Session <- MCPacks, sent <- msent, pos <- mpos, last <- mlast, state <- mstate, stack <- mstack,
       str <- mstr, json <- mjson, which <- mwhich

\* JsonText: quoted, control and multibyte characters, numbers and nesting; a
\* clef as a pair of surrogates, in capitals and not; a line separator.
B(bs) == <<"s", bs>>
Arr(s) == <<"a", s>>
Deep == <<"o", <<<<<<97>>, Arr(<<Num(1), <<"o", <<>>>>, Arr(<<>>)>>)>>, <<<<9>>, B(<<98>>)>>, <<<<>>, <<"b", 0>>>>>>>>
Flat == Arr(<<Num(-10), <<"d", <<49, 46, 53>>>>, JNull, <<"b", 1>>, <<"d", <<48, 46, 53, 101, 45, 49>>>>>>)
Says(v, m) == [v |-> v, m |-> m]
Clef == B(<<240, 157, 132, 158>>)
Foreign(v, t) == [v |-> v, m |-> "foreign", t |-> t]
MCTexts ==
  {<<Foreign(Clef, <<34, 92, 117, 68, 56, 51, 52, 92, 117, 68, 68, 49, 69, 34>>)>>,
   <<Foreign(Clef, <<34, 92, 117, 100, 56, 51, 52, 92, 117, 100, 100, 49, 101, 34>>)>>,
   <<Says(B(<<226, 128, 168>>), "normal")>>} \cup
  {<<Says(B(x), "normal")>> : x \in {<<97, 98>>, <<34, 92, 47>>, <<9, 2>>, <<195, 169, 97>>, <<226, 130, 172>>,
                                     <<241, 157, 132, 158>>, <<>>}}
  \cup {<<Says(x, "normal")>> : x \in {Num(0), Num(17), Num(-3), JNull, <<"b", 1>>, <<"d", <<45, 50, 46, 48, 51>>>>}}
  \cup {<<Says(x, m)>> : x \in {Deep, Flat}, m \in {"normal", "space", "indent"}}
  \cup {<<Says(x, "normal"), Says(y, "normal")>> : x \in {Deep, Arr(<<Num(1)>>)},
                                                   y \in {Num(5), Arr(<<>>), Arr(<<B(<<98>>)>>)}}
T == INSTANCE JsonText WITH Session <- MCTexts, TabWidth <- 2, MaxDepth <- 3, Beyond <- {0, 255},
       sent <- tsent, pos <- tpos, last <- tlast, state <- tstate, part <- tpart, stack <- tstack,
       str <- tstr, json <- tjson, which <- twhich

H == INSTANCE JsonHeap WITH Var <- {s1, s2}, Node <- 1..6, Key <- {-2, 0, 1}, Buckets <- 1, MaxChain <- 0,
       MinCap <- 1, MaxNesting <- 2, MaxSteps <- 2, rep <- jrep, val <- jval

U == INSTANCE VersionedRow WITH Col <- {1, 2}, Reader <- {1}, M <- 4, MaxUpdates <- 3
Y == INSTANCE Replay WITH NLog <- 2, MaxOps <- 4, ops <- rops, left <- unread

\* 15 slots in 64 bits leave no bit unused: here 5 slots in 6 nibbles, and 7.
W5 == INSTANCE PermuterWord WITH W <- 5, Nibbles <- {6, 7}, x <- word, q <- perm
V == INSTANCE NodeVersion WITH InsertBits <- 1, SplitBits <- 2, MaxUnlocks <- 7, v <- nv, x <- seen

-----------------------------------------------------------------------------
line == <<args, meant, open, lmm, clp, save, got, phase>>
strings == <<srep, memo, acc, sval, said, hit>>
tests == <<plan, at, tpc, active, requests, loc, st, late, failed, faults>>
pack == <<msent, bytes, ends, mpos, mlast, mstate, mstack, mstr, mjson, jokey, mwhich>>
texts == <<tsent, text, end, tpos, tlast, complete, tstate, tpart, tstack, tstr, tjson, twhich>>
jsons == <<jrep, heap, jval, steps>>
outside == <<line, strings, tests, pack, texts, jsons>>
row == <<cols, ver, upd, rd, past>>
replay == <<rops, where, unread, value, created, removed>>
permuter == <<NB, word, perm>>
version == <<nv, seen, node, inserts, splits>>
history == <<row, replay, permuter, version>>
allvars == <<part, vars, outside, history>>

Start ==
  /\ part \in {"wire", "line", "strings", "tests", "pack", "texts", "jsons", "row", "replay", "permuter", "version"}
  /\ Init /\ (part # "wire" => todo = Does(<<C("put", 1, 1)>>, <<>>, <<>>, <<C("aput", 1, 1)>>))
  /\ L!Init /\ S!Init
  /\ K!Init /\ (part # "tests" => plan = <<"bdb">>)
  /\ P!Init /\ (part # "pack" => msent[1] = JNull)
  /\ T!Init /\ (part # "texts" => tsent = <<Says(Num(0), "normal")>>)
  /\ H!Init /\ (part # "jsons" => jval[s1] = JNull)
  /\ U!Init
  /\ Y!Init /\ (part # "replay" => Len(rops) = 1 /\ rops[1] = "put" /\ where[1] = 1 /\ unread = {})
  /\ W5!Init /\ (part # "permuter" => NB = 6)
  /\ V!Init /\ (part # "version" => nv = 0)

Step ==
  /\ UNCHANGED part
  /\ \/ part = "wire" /\ Next /\ UNCHANGED <<outside, history>>
     \/ part = "line" /\ L!Next /\ UNCHANGED <<vars, strings, tests, pack, texts, jsons, history>>
     \/ part = "strings" /\ S!Next /\ UNCHANGED <<vars, line, tests, pack, texts, jsons, history>>
     \/ part = "tests" /\ K!Next /\ UNCHANGED <<vars, line, strings, pack, texts, jsons, history>>
     \/ part = "pack" /\ P!Next /\ UNCHANGED <<vars, line, strings, tests, texts, jsons, history>>
     \/ part = "texts" /\ T!Next /\ UNCHANGED <<vars, line, strings, tests, pack, jsons, history>>
     \/ part = "jsons" /\ H!Next /\ UNCHANGED <<vars, line, strings, tests, pack, texts, history>>
     \/ part = "row" /\ U!Next /\ UNCHANGED <<vars, outside, replay, permuter, version>>
     \/ part = "replay" /\ Y!Next /\ UNCHANGED <<vars, outside, row, permuter, version>>
     \/ part = "permuter" /\ W5!Next /\ UNCHANGED <<vars, outside, row, replay, version>>
     \/ part = "version" /\ V!Next /\ UNCHANGED <<vars, outside, row, replay, permuter>>

LibrarySpec == Start /\ [][Step]_allvars

\* Clp_Next's answers are what the user meant (see Clp).
AnswersAreMeant == part = "line" => L!AnswersAreMeant

\* Strings that share buffers say what they should, unless is_shared is asked
\* about one of them (see StringRep).
StringsAreKept == part = "strings" => S!StringsAreKept

\* The tests find nothing wrong with a tree that is right, but for what they do
\* wrong themselves (see KvTest).
TestsPass == part = "tests" => K!TestsPass


\* Jsons that share memory are values all the same (see JsonHeap).
JsonsAreValues == part = "jsons" => H!JsonsAreValues

\* A snapshot of a row updated in place is whole (see VersionedRow).
SnapshotIsWhole == part = "row" => U!SnapshotIsWhole

\* Replay in any order rebuilds the row (see Replay).
ReplayIsFaithful == part = "replay" => Y!ReplayIsFaithful

\* kpermuter's shifts and masks compute the permutation (see PermuterWord);
\* carries do not reach the flags of a version word, and has_changed and
\* has_split miss nothing (see NodeVersion).
WordsAreSound ==
  /\ part = "permuter" => W5!WordIsPermutation
  /\ part = "version" => V!VersionIsSound
=============================================================================
