------------------------------- MODULE KvTest -------------------------------
(***************************************************************************)
(* The tests of the repository as clients of a store (kvtest.hh,           *)
(* mtclient.cc), and the threads that run one test after the other on the  *)
(* same tree (mttest.cc).  A step of a client is one request on a store    *)
(* that is a map: the other modules show that the tree is one.  So what    *)
(* goes wrong here goes wrong in a test, not in the tree.                  *)
(* A loop that a timeout or the limit ends may end after any round; keys   *)
(* are tuples, their formatting is left out.                               *)
(***************************************************************************)
EXTENDS Integers, SequencesExt, FiniteSetsExt

CONSTANTS
  NClient,     \* client.nthreads(): clients are 0..NClient - 1
  Plan,        \* sequences of tests to run
  FirstSeed,   \* kvtest_first_seed
  Limit,       \* client.limit()
  Lead,        \* wd1: how far the writer is ahead before the deleter begins
  Batch        \* PalmBatch, and the urls put before as many again are removed

Tester == 0..NClient - 1

VARIABLES
  plan,     \* the tests
  at,       \* client -> the test it is in
  pc,       \* client -> "start", "run", "wait", "woken", "done"
  active,   \* active_threads_
  todo,     \* client -> its next requests
  loc,      \* client -> locals of a test that depends on the answers
  st,       \* the store
  late,     \* timeout[0]
  failed,   \* the tests that have found something wrong
  faults    \* what the tests themselves have done wrong

vars == <<plan, at, pc, active, todo, loc, st, late, failed, faults>>

-----------------------------------------------------------------------------
\* Requests.
Put(k, v) == [op |-> "put", k |-> k, v |-> v]
Insert(k, v) == [op |-> "insert", k |-> k, v |-> v]
Check(k, v) == [op |-> "get", k |-> k, v |-> v]
Get(k) == [op |-> "read", k |-> k]
Absent(k) == [op |-> "absent", k |-> k]
RemoveKey(k) == [op |-> "remove", k |-> k]
RemoveCheck(k) == [op |-> "removed", k |-> k]

Stored(k, v) == [j \in DOMAIN st \cup {k} |-> IF j = k THEN v ELSE st[j]]
Without(k) == [j \in DOMAIN st \ {k} |-> st[j]]
There(k) == k \in DOMAIN st

\* What the callbacks of mtclient make of an answer: a number, -1 for none;
\* whether a put made a new key; whether it is the value wanted.
asyncgetcb_int(k) == IF There(k) THEN st[k] ELSE -1
asyncputcb(k) == ~There(k)
defaultget(k, wanted) == There(k) /\ st[k] = wanted

\* The checking operations of kvtest_client.
Passes(o) ==
  CASE o.op = "get" -> defaultget(o.k, o.v)
    [] o.op \in {"absent", "insert"} -> ~There(o.k)
    [] o.op = "removed" -> There(o.k)
    [] OTHER -> TRUE

Effect(o) ==
  CASE o.op \in {"put", "insert"} -> Stored(o.k, o.v)
    [] o.op \in {"remove", "removed"} -> Without(o.k)
    [] OTHER -> st

-----------------------------------------------------------------------------
\* kvrandom_lcg_nr with words of 8 bits: j steps from seed s, and the j-th draw.
lcg(s) == (13 * s + 95) % 256
RECURSIVE After(_, _)
After(s, j) == IF j = 0 THEN s ELSE After(lcg(s), j - 1)
rand(s, j) == (After(s, 4 * j - 2) \div 16) + 16 * ((After(s, 4 * j) \div 2) % 4)

Seed(c) == FirstSeed + (c % 48)
Rounds == 0..Limit + 1
Times(n, F(_)) == [i \in 1..n |-> F(i)]
Shuffles(n) == {p \in [1..n -> 1..n] : \A i, j \in 1..n : p[i] = p[j] => i = j}

\* n puts, then a check of each, in the order of the puts or in any other.
PutThenGet(n, K(_), V(_)) == Times(n, LAMBDA i : Put(K(i), V(i))) \o Times(n, LAMBDA i : Check(K(i), V(i)))
PutThenShuffle(n, K(_), V(_)) ==
  {Times(n, LAMBDA i : Put(K(i), V(i))) \o Times(n, LAMBDA i : Check(K(p[i]), V(p[i]))) : p \in Shuffles(n)}

\* The tests that do not depend on the answers: what client c may do.
kvtest_rw1puts_seed(c) == {Times(n, LAMBDA i : Put(<<rand(Seed(c), i)>>, rand(Seed(c), i) + 1)) : n \in Rounds}
kvtest_rw1_seed(c) ==
  UNION {PutThenShuffle(n, LAMBDA i : <<rand(Seed(c), i)>>, LAMBDA i : rand(Seed(c), i) + 1) : n \in Rounds}
kvtest_sync_rw1_seed(c) ==
  UNION {PutThenShuffle(n, LAMBDA i : <<"10", rand(Seed(c), i)>>, LAMBDA i : rand(Seed(c), i) + 1) : n \in Rounds}
kvtest_rw1fixed_seed(c) ==
  UNION {PutThenShuffle(n, LAMBDA i : <<rand(Seed(c), i) % 3>>, LAMBDA i : (rand(Seed(c), i) % 3) + 1) : n \in Rounds}
kvtest_rw16_seed(c) ==
  UNION {PutThenShuffle(n, LAMBDA i : <<"16", rand(Seed(c), i)>>, LAMBDA i : rand(Seed(c), i) + 1) : n \in Rounds}

\* The puts draw the number and then the format, the gets the other way round.
kvtest_rw1long_seed(c) ==
  {Times(n, LAMBDA i : Put(<<rand(Seed(c), 2 * i) % 4, rand(Seed(c), 2 * i - 1)>>, rand(Seed(c), 2 * i - 1) + 1))
   \o Times(n, LAMBDA i : Check(<<rand(Seed(c), 2 * i - 1) % 4, rand(Seed(c), 2 * i)>>, rand(Seed(c), 2 * i) + 1)) :
     n \in Rounds}

kvtest_rw3(c) == {PutThenGet(n, LAMBDA i : <<i>>, LAMBDA i : i + 1) : n \in Rounds}
kvtest_rw4(c) == {PutThenGet(n, LAMBDA i : <<9 - i>>, LAMBDA i : i + 1) : n \in Rounds}
kvtest_rw4fixed(c) == {PutThenGet(n, LAMBDA i : <<8 - i>>, LAMBDA i : i + 1) : n \in Rounds}
kvtest_same_seed(c) ==
  {Times(n, LAMBDA i : Put(<<rand(Seed(c), i) % 2>>, (rand(Seed(c), i) % 2) + 1)) : n \in Rounds}

\* A put with one draw of eight, else a get.
Mixed(c, n, K(_)) ==
  Times(n, LAMBDA i : LET x == rand(Seed(c), i) % 16 IN IF x % 8 # 0 THEN Get(K(x \div 8)) ELSE Put(K(x \div 8), i))
kvtest_rwsmall_seed(c) == {Mixed(c, n, LAMBDA x : <<x>>) : n \in Rounds}
kvtest_rwsep_seed(c) ==
  {Times(2, LAMBDA i : Put(<<c, i - 1>>, i - 1)) \o Mixed(c, n, LAMBDA x : <<c, x>>) : n \in Rounds}

\* Every key of the client's range is inserted, read, removed and read again.
kvtest_wd3(c) ==
  LET Range1(F(_)) == Times(2, LAMBDA i : F(<<2 * c + i>>))
      round == Range1(LAMBDA k : Insert(k, k)) \o Range1(LAMBDA k : Check(k, k))
               \o Range1(RemoveCheck) \o Range1(Absent)
      all == round \o SubSeq(round, 1, 4)
  IN {SubSeq(all, 1, n) : n \in 0..Len(all)}

kvtest_tri1(c) == {FlattenSeq([x \in 1..Limit + 1 |-> [y \in 1..x |-> Put(<<y - 1>>, x - y)]])}
kvtest_tri1_check(c) == {[x \in 1..Limit + 1 |-> Check(<<x - 1>>, Limit + 1 - x)]}

kvtest_palma(c) == {Times(4, LAMBDA i : Put(<<i - 1>>, i))}
kvtest_palmb_seed(c) ==
  {FlattenSeq(Times(n, LAMBDA b :
     LET draws == {rand(Seed(c), (b - 1) * Batch + i) % 4 : i \in 1..Batch}
     IN [i \in 1..Cardinality(draws) |-> Check(<<SetToSortSeq(draws, <)[i]>>, SetToSortSeq(draws, <)[i] + 1)])) :
   n \in Rounds}

\* A key is three digits, then comes the value.  Two clients draw one key with
\* two values so seldom (eighteen digits) that the test does not mind.
YcsbKey(c, i) == <<"user">> \o [d \in 1..3 |-> rand(Seed(c), 4 * (i - 1) + d) % 10]
YcsbValue(c, i) == rand(Seed(c), 4 * i)
kvtest_ycsbk_seed(c) == {PutThenGet(n, LAMBDA i : YcsbKey(c, i), LAMBDA i : YcsbValue(c, i)) : n \in Rounds}

\* random() is one for all threads: only one client runs it.  The keys are read
\* again from the first when n is a multiple of nrec, the first time at once.
kvtest_bdb(c) ==
  LET nrec == 2
      Key(i) == <<rand(0, 2 * i - 1) % 26, rand(0, 2 * i) % 26>>
      Drawn(n) == IF n = 0 THEN 1 ELSE ((n - 1) % nrec) + 1
  IN IF c # 0 THEN {<<>>}
     ELSE {Times(nrec, LAMBDA i : Put(Key(i), "val")) \o Times(6, LAMBDA i : Check(Key(Drawn(i - 1)), "val"))}

\* Each part is drawn from its own seed; the last letters are the value.
LongKey(s, draw) == [d \in 1..2 |-> rand(s, draw + d) % 10]
\* A bug to catch: no draw for the choice between get and put.
kvtest_long_init_NoDraw(c) == {Times(2, LAMBDA i : Put(LongKey(FirstSeed + c, 2 * (i - 1)), rand(FirstSeed + c, 2 * i) % 10))}
kvtest_long_init(c) == {Times(2, LAMBDA i : Put(LongKey(FirstSeed + c, 3 * (i - 1)), rand(FirstSeed + c, 3 * i - 1) % 10))}
kvtest_long_go(c) ==
  LET Go(s, i) == LET k == LongKey(s, 3 * (i - 1))
                  IN IF rand(s, 3 * i) % 2 = 0 THEN Check(k, k[2]) ELSE Put(k, k[2])
      Part(s) == Times(2, LAMBDA i : Go(s, i))
  IN {FlattenSeq(Times(n, LAMBDA r : Part(FirstSeed + ((c + r - 1) % NClient)))) : n \in Rounds}

kvtest_wscale(c) == kvtest_rw1puts_seed(c)
kvtest_ruscale_init(c) == {Times(2, LAMBDA i : Put(<<2 * c + p[i] - 1>>, 2 * c + p[i])) : p \in Shuffles(2)}
NSeqKeys == 2 * NClient
kvtest_rscale(c) ==
  {Times(n, LAMBDA i : LET x == rand(Seed(c), i) % NSeqKeys IN Check(<<x>>, x + 1)) : n \in Rounds}
kvtest_uscale(c) ==
  {Times(n, LAMBDA i : LET x == rand(FirstSeed + c, i) % NSeqKeys IN Put(<<x>>, x + 1)) : n \in Rounds}

\* One timeout ends the puts and another the gets, which there may be without a put.
kvtest_udp1_seed(c) ==
  {Times(n, LAMBDA i : Put(<<0>>, 1)) \o Times(g, LAMBDA i : Check(<<0>>, 1)) : n, g \in Rounds}

kvtest_w1_seed(c) == {Times(Limit + 1, LAMBDA i : Put(<<"10", rand(FirstSeed + c, i)>>, rand(FirstSeed + c, i) + 1))}
kvtest_r1_seed(c) ==
  {Times(Limit + 1, LAMBDA i : Check(<<"10", rand(FirstSeed + c, p[i])>>, rand(FirstSeed + c, p[i]) + 1)) :
     p \in Shuffles(Limit + 1)}

\* w1b: the numbers in order, from the middle out.
RECURSIVE Balanced(_, _, _)
Balanced(n, stride, done) ==
  LET rest == SelectSeq([i \in 1..n |-> i - 1], LAMBDA i : i \notin done)
      these == SelectSeq(rest, LAMBDA i : i >= stride /\ i % stride = 0)
  IN IF stride = 0 THEN rest ELSE these \o Balanced(n, stride \div 2, done \cup Range(these))
w1b(c) ==
  LET a == SortSeq([i \in 1..4 |-> rand(FirstSeed + c, i)], <)
      order == Balanced(4, 2, {})
  IN {Times(4, LAMBDA i : Put(<<"10", a[order[i] + 1]>>, a[order[i] + 1] + 1))}

\* A key and a column; the first client and every 24th put the same one.
kvtest_wcol1at(c, col) ==
  {Times(Limit + 1, LAMBDA i : LET x == rand(Seed(c), i) % 4 IN Put(<<"10", x, (c + col) % 24>>, x + 1))}
kvtest_rcol1at(c, col) ==
  {Times(Limit + 1, LAMBDA i : LET x == rand(Seed(c), i) % 4 IN Check(<<"10", x, (c + col) % 24>>, x + 1))}

\* Batch urls in, half as many out again, of a file that all clients read;
\* the ones that were not removed are checked.
kvtest_url_seed(c) ==
  LET rounds == Limit + 1
      Round(r) == Times(Batch, LAMBDA i : Put(<<(r - 1) * Batch + i>>, 2014))
                  \o Times(Batch \div 2, LAMBDA i : RemoveKey(<<(r - 1) * (Batch \div 2) + i>>))
      removed == rounds * (Batch \div 2)
  IN {FlattenSeq(Times(rounds, Round))
      \o Times(rounds * Batch - removed, LAMBDA i : Check(<<removed + i>>, 2014))}

\* mtclient's own tests.  cpc gets what cpa or cpd put, from the first again
\* after CPN.
cpa(c) == {Times(2, LAMBDA i : Put(<<rand(Seed(c), i)>>, rand(Seed(c), i) + 1))}
CpDraw(c, i) == rand(Seed(c), ((i - 1) % 2) + 1)
cpc(c) == {Times(n, LAMBDA i : Check(<<CpDraw(c, i)>>, CpDraw(c, i) + 1)) : n \in 0..3}
cpd(c) == {Times(n, LAMBDA i : Put(<<CpDraw(c, i)>>, CpDraw(c, i) + 1)) : n \in 0..3}

u1(c) == {Times(2, LAMBDA i : LET x == rand(Seed(c), i) % 4 IN Put(<<x>>, x + 1))}

volt1a(c) == {Times(2, LAMBDA i : Put(<<"50", p[i]>>, p[i])) : p \in Shuffles(2)}
volt1b(c) ==
  {Times(n, LAMBDA i : LET x == (rand(Seed(c), 2 * i - 1) % 2) + 1
                       IN IF rand(Seed(c), 2 * i) % 2 = 0 THEN Check(<<"50", x>>, x) ELSE Put(<<"50", x>>, x)) :
     n \in Rounds}

\* Rows of two columns with random values.
volt2a(c) ==
  {FlattenSeq(Times(2, LAMBDA i : Times(2, LAMBDA j : Put(<<p[i], q[j]>>, rand(Seed(c), 2 * i + j))))) :
     p, q \in Shuffles(2)}

rec1(c) == {Times(n, LAMBDA i : Put(<<rand(Seed(c), i), i, c>>, rand(Seed(c), i))) : n \in 0..3}

Script(t, c) ==
  CASE t = "rw1puts" -> kvtest_rw1puts_seed(c) [] t = "rw1" -> kvtest_rw1_seed(c)
    [] t = "sync_rw1" -> kvtest_sync_rw1_seed(c) [] t = "rw1fixed" -> kvtest_rw1fixed_seed(c)
    [] t = "rw16" -> kvtest_rw16_seed(c) [] t = "rw1long" -> kvtest_rw1long_seed(c)
    [] t = "rw3" -> kvtest_rw3(c) [] t = "rw4" -> kvtest_rw4(c) [] t = "rw4fixed" -> kvtest_rw4fixed(c)
    [] t = "same" -> kvtest_same_seed(c) [] t = "rwsmall" -> kvtest_rwsmall_seed(c)
    [] t = "rwsep" -> kvtest_rwsep_seed(c) [] t = "wd3" -> kvtest_wd3(c)
    [] t = "tri1" -> kvtest_tri1(c) [] t = "tri1check" -> kvtest_tri1_check(c)
    [] t = "palma" -> kvtest_palma(c) [] t = "palmb" -> kvtest_palmb_seed(c)
    [] t = "ycsbk" -> kvtest_ycsbk_seed(c) [] t = "bdb" -> kvtest_bdb(c)
    [] t = "long_init" -> kvtest_long_init(c) [] t = "long_go" -> kvtest_long_go(c)
    [] t = "wscale" -> kvtest_wscale(c) [] t = "ruscale_init" -> kvtest_ruscale_init(c)
    [] t = "rscale" -> kvtest_rscale(c) [] t = "uscale" -> kvtest_uscale(c)
    [] t = "udp1" -> kvtest_udp1_seed(c) [] t = "w1" -> kvtest_w1_seed(c) [] t = "r1" -> kvtest_r1_seed(c)
    [] t = "wcol1" -> kvtest_wcol1at(c, 0) [] t = "rcol1" -> kvtest_rcol1at(c, 0)
    [] t = "wcol1o1" -> kvtest_wcol1at(c, 1) [] t = "rcol1o1" -> kvtest_rcol1at(c, 1)
    [] t = "url" -> kvtest_url_seed(c) [] t = "cpa" -> cpa(c) [] t = "cpc" -> cpc(c) [] t = "cpd" -> cpd(c)
    [] t = "u1" -> u1(c) [] t = "volt1a" -> volt1a(c) [] t = "volt1b" -> volt1b(c)
    [] t = "volt2a" -> volt2a(c) [] t = "w1b" -> w1b(c) [] t = "rec1" -> rec1(c)
    [] OTHER -> {<<>>}

-----------------------------------------------------------------------------
\* The tests that do: a step of client c in state kind, one request each.
Idle == [kind |-> "none"]
Is(c, kind) == pc[c] = "run" /\ todo[c] = <<>> /\ loc[c].kind = kind
Step(c, l, s, wrong) ==
  /\ loc' = [loc EXCEPT ![c] = l] /\ st' = s
  /\ failed' = IF wrong THEN failed \cup {plan[at[c]]} ELSE failed
  /\ UNCHANGED <<plan, at, pc, active, todo, late, faults>>
StepAndDo(c, l, requests) ==
  loc' = [loc EXCEPT ![c] = l] /\ todo' = [todo EXCEPT ![c] = requests]
  /\ UNCHANGED <<plan, at, pc, active, st, late, failed, faults>>

\* A loop that asks for the timeout, or has used up its limit, may end.
EndLoop(c) == loc[c].kind \in {"rw2", "rw2fixed", "volt2", "over", "chase", "write", "verify", "wd2", "churn", "scan", "rscan", "writer"}
              /\ Is(c, loc[c].kind) /\ Step(c, Idle, st, FALSE)

\* rw2: put the next key or get one of those put before.
RwKey(c, j) == <<(7 * (rand(Seed(c), 1) + j)) % 32>>
PutOrGet(c, K(_)) ==
  LET l == loc[c]
  IN /\ l.n <= Limit + 1
     /\ \/ Step(c, [l EXCEPT !.puts = @ + 1, !.n = @ + 1], Stored(K(l.puts), K(l.puts)[1] + 1), FALSE)
        \/ \E j \in 0..l.puts - 1 :
             Step(c, [l EXCEPT !.n = @ + 1], st, ~Passes(Check(K(j), K(j)[1] + 1)))
kvtest_rw2_seed(c) == Is(c, "rw2") /\ PutOrGet(c, LAMBDA j : RwKey(c, j))
kvtest_rw2fixed_seed(c) == Is(c, "rw2fixed") /\ PutOrGet(c, LAMBDA j : <<RwKey(c, j)[1] % 10>>)

\* volt2b: a column is read and, if it is odd, another one of its row put by
\* the callback, some requests later.
volt2b(c) ==
  LET l == loc[c]
      Draw(i) == rand(Seed(c), l.draw + i)
      x == (Draw(1) % 2) + 1
      v == asyncgetcb_int(<<x, (Draw(2) % 2) + 1>>)
      odd == v % 2 = 1
  IN /\ Is(c, "volt2") /\ l.n <= Limit
     /\ StepAndDo(c, [l EXCEPT !.n = @ + 1, !.draw = @ + (IF odd THEN 4 ELSE 2)],
                  IF odd THEN <<Put(<<x, (Draw(3) % 2) + 1>>, Draw(4))>> ELSE <<>>)

\* over1: in each second all clients put one key; half a second later each
\* keeps what it finds there.  The waiting is for the others to get as far.
InTest(c, i) == pc[i] \in {"start", "woken"} \/ (pc[i] = "run" /\ at[i] = at[c] /\ loc[i].kind # "none")
NextSecond(c) == \A i \in Tester : InTest(c, i) => pc[i] = "run" /\ loc[i].n >= loc[c].n
HalfSecond(c) == \A i \in Tester : InTest(c, i) => loc[i].kind # "over" \/ loc[i].n > loc[c].n
over1(c) ==
  LET l == loc[c]
      key1 == <<l.n>>
      key2 == <<l.n, c>>
  IN \/ /\ Is(c, "over") /\ l.n <= Limit /\ NextSecond(c)
        /\ Step(c, [l EXCEPT !.kind = "half"], Stored(key1, rand(Seed(c), l.n + 1)), FALSE)
     \/ /\ Is(c, "half") /\ HalfSecond(c)
        /\ Step(c, [l EXCEPT !.kind = "keep", !.v = asyncgetcb_int(key1)], st, ~There(key1))
     \/ Is(c, "keep") /\ Step(c, [l EXCEPT !.kind = "over", !.n = @ + 1, !.v = 0], Stored(key2, l.v), FALSE)

over2(c) ==
  LET key1 == <<loc[c].n>>
      key2 == <<loc[c].n, c>>
      both == There(key1) /\ There(key2)
  IN Is(c, "over2") /\ Step(c, IF both THEN [loc[c] EXCEPT !.n = @ + 1] ELSE Idle, st, both /\ st[key1] # st[key2])

\* scantest: keys ScanFirst up to ScanEnd, scans from before and after them.
\* wanted is drawn from 0 on, and a scan for no keys ends the server (kvrow.hh:316).
ScanFirst == 2
ScanEnd == 5
Listed(from, wanted) ==
  LET all == SetToSortSeq({k[2] : k \in {j \in DOMAIN st : j[1] = "k" /\ j[2] >= from}}, <)
  IN SubSeq(all, 1, Min({wanted, Len(all)}))
scantest(c) ==
  LET l == loc[c]
      i == l.i
      k0 == IF i < ScanFirst THEN ScanFirst ELSE i
      Expected(wanted) == IF i <= ScanEnd - wanted THEN wanted ELSE IF i <= ScanEnd THEN ScanEnd - i ELSE 0
      Wrong(r, wanted) == Len(r) # Expected(wanted)
                          \/ \E j \in 0..wanted - 1 : k0 + j < ScanEnd /\ r[j + 1] # k0 + j
  IN \/ /\ Is(c, "scantest") /\ i <= ScanEnd
        /\ faults' = faults \cup {"scantest"} /\ failed' = failed \cup {"scantest"}
        /\ loc' = [loc EXCEPT ![c] = Idle] /\ UNCHANGED <<plan, at, pc, active, todo, st, late>>
     \/ /\ Is(c, "scantest") /\ i <= ScanEnd
        /\ \E wanted \in 1..2 : Step(c, [l EXCEPT !.kind = "after"], st, Wrong(Listed(i, wanted), wanted))
     \/ /\ Is(c, "after")
        /\ Step(c, [l EXCEPT !.kind = "scantest", !.i = @ + 1], st,
                i \in ScanFirst..ScanEnd - 2 /\ Listed(i + 1, 1) # <<i + 1>>)
     \/ Is(c, "scantest") /\ i > ScanEnd /\ Step(c, Idle, st, Listed(ScanEnd - 2, 2) # <<ScanEnd - 2, ScanEnd - 1>>)

\* wd1: client 2i puts keys in order and client 2i + 1 removes them behind it.
Incr == IF NClient \div 2 > 1 THEN NClient \div 2 ELSE 1
Pos(c) == (c \div 2) % Incr
Far == Pos(0) + Incr * (Lead + 3)
Spin(c) == Is(c, "spin") /\ There(<<loc[c].pos + Lead * Incr>>) /\ Step(c, [loc[c] EXCEPT !.kind = "chase"], st, FALSE)
Chase(c) == /\ Is(c, "chase") /\ There(<<loc[c].pos>>)
            /\ Step(c, [loc[c] EXCEPT !.pos = @ + Incr], Without(<<loc[c].pos>>), FALSE)
WriteAhead(c) == /\ Is(c, "write") /\ loc[c].pos < Far
                 /\ Step(c, [loc[c] EXCEPT !.pos = @ + Incr], Stored(<<loc[c].pos>>, loc[c].pos + 1), FALSE)
kvtest_wd1(c) == Spin(c) \/ Chase(c) \/ WriteAhead(c)

\* Between the first key found and the next one missing all are there, and
\* none after it.
kvtest_wd1_check(c) ==
  LET l == loc[c]
      there == There(<<l.pos>>)
  IN /\ Is(c, "verify") /\ l.pos <= Far
     /\ Step(c, [l EXCEPT !.pos = @ + Incr, !.seen = @ \/ there, !.found = @ \/ (l.seen /\ ~there)],
             st, there /\ l.found)

\* wd2: a client's key is removed by its neighbour now and then; the client
\* counts how often that happened in its status key.
NextClient(c) == (c + 1) % NClient
PutMine(c) ==
  /\ Is(c, "wd2") /\ loc[c].rounds < 3
  /\ Step(c, [loc[c] EXCEPT !.kind = "neighbour", !.rounds = @ + 1, !.inserted = asyncputcb(<<"k", c>>)],
          Stored(<<"k", c>>, loc[c].x), FALSE)
Neighbour(c) ==
  /\ Is(c, "neighbour")
  /\ \E s \in {st, Without(<<"k", NextClient(c)>>)} : Step(c, [loc[c] EXCEPT !.kind = "status"], s, FALSE)
Status(c) ==
  LET x == IF loc[c].inserted THEN loc[c].x + 1 ELSE loc[c].x
  IN /\ Is(c, "status")
     /\ Step(c, [loc[c] EXCEPT !.kind = "wd2", !.x = x], IF loc[c].inserted THEN Stored(<<"s", c>>, x) ELSE st, FALSE)
kvtest_wd2(c) == PutMine(c) \/ Neighbour(c) \/ Status(c)

kvtest_wd2_check(c) ==
  LET Fine(s, k) == s >= 0 /\ (s = k \/ s = k + 1 \/ k = -1)
  IN /\ Is(c, "wd2check")
     /\ Step(c, Idle, st, \E i \in Tester : ~Fine(asyncgetcb_int(<<"s", i>>), asyncgetcb_int(<<"k", i>>)))

\* conflictscan1: a window of keys that moves on; it must not get smaller than
\* a scan (of one key) until the range is used up.
kvtest_conflictscan1(c) ==
  LET l == loc[c]
      size == l.tail - l.head
      may == l.tail < 4 /\ size < 4
  IN /\ Is(c, "churn") /\ size > 0
     /\ \/ may /\ Step(c, [l EXCEPT !.tail = @ + 1], Stored(<<c, l.tail>>, l.tail), There(<<c, l.tail>>))
        \/ (may => size # 1) /\ Step(c, [l EXCEPT !.head = @ + 1], Without(<<c, l.head>>), ~There(<<c, l.head>>))

\* scan1: keys 4, 8, .. stay for ever (from 0 for a forward scan); others come
\* and go between them.  A scan gives two keys at a time.
NFixed == 2
Numbers == {k[2] : k \in {j \in DOMAIN st : j[1] = "8"}}
Ahead(pos) == {k \in Numbers : k >= pos}
Behind(pos) == {k \in Numbers : k <= pos}

kvtest_scan1(c) ==
  LET l == loc[c]
      val == Min(Ahead(l.pos))
      missed == val > l.mypos
      fixed == val % 4 = 0
  IN /\ Is(c, "scan") /\ l.cycles < 2
     /\ IF Ahead(l.pos) = {}
        THEN IF l.count = 0
             THEN Step(c, [l EXCEPT !.pos = 0, !.mypos = 0, !.cycles = @ + 1], st, l.mypos < NFixed * 4)
             ELSE Step(c, [l EXCEPT !.count = 0], st, FALSE)
        ELSE Step(c, [l EXCEPT !.pos = val + 1, !.count = (@ + 1) % 2, !.mypos = IF fixed THEN val + 4 ELSE @], st, missed)

kvtest_rscan1(c) ==
  LET l == loc[c]
      val == Max(Behind(l.pos))
      missed == val < l.mypos
      fixed == val % 4 = 0
  IN /\ Is(c, "rscan") /\ l.cycles < 2
     /\ IF Behind(l.pos) = {}
        THEN IF l.count = 0
             THEN Step(c, [l EXCEPT !.pos = (NFixed + 1) * 4, !.mypos = NFixed * 4, !.cycles = @ + 1], st, l.mypos > 0)
             ELSE Step(c, [l EXCEPT !.count = 0], st, FALSE)
        ELSE Step(c, [l EXCEPT !.pos = val - 1, !.count = (@ + 1) % 2, !.mypos = IF fixed THEN val - 4 ELSE @], st, missed)

ScanWriter(c) ==
  LET l == loc[c]
  IN /\ Is(c, "writer") /\ l.rounds < 2
     /\ \E f \in 0..NFixed - 1 :
          LET first == 4 * (f + l.base) + (c % 30)
          IN \/ StepAndDo(c, [l EXCEPT !.rounds = @ + 1], <<Put(<<"8", first>>, first), Put(<<"8", first + 1>>, first + 1)>>)
             \/ l.rounds > 0 /\ StepAndDo(c, [l EXCEPT !.rounds = @ + 1], <<RemoveKey(<<"8", first>>), RemoveKey(<<"8", first + 1>>)>>)

\* splitremove1: client 0 puts the trigger, then a key for each other client,
\* waits until they have removed it and removes the trigger.
Trigger == <<"trigger">>
Go == <<"go">>
Me(c) == <<"me", c>>
Others == Tester \ {0}
AwaitRemoved(c) ==
  /\ Is(c, "await") /\ (late \/ \A i \in Others : ~There(Me(i)))
  /\ StepAndDo(c, [loc[c] EXCEPT !.kind = "again", !.late = late], <<RemoveKey(Trigger), RemoveKey(Go)>>)
SplitRound(c) ==
  /\ Is(c, "again")
  /\ IF loc[c].late \/ loc[c].rounds = 2 THEN Step(c, Idle, st, FALSE)
     ELSE StepAndDo(c, [loc[c] EXCEPT !.kind = "await", !.rounds = @ + 1],
                    <<Put(Trigger, 1), Put(Go, 1)>> \o [i \in 1..NClient - 1 |-> Put(Me(i), 1)])
SeeTrigger(c) ==
  /\ Is(c, "see")
  /\ \/ late /\ Step(c, Idle, st, FALSE)
     \/ There(Trigger) /\ Step(c, [loc[c] EXCEPT !.kind = "mine"], st, FALSE)
SeeMine(c) ==
  /\ Is(c, "mine") /\ Step(c, [loc[c] EXCEPT !.kind = IF There(Me(c)) THEN "take" ELSE "trigger"], st, FALSE)
CheckTrigger(c) ==
  LET missing == ~There(Trigger) /\ ~late
  IN Is(c, "trigger") /\ Step(c, [loc[c] EXCEPT !.kind = IF missing THEN "take" ELSE "mine"], st, missing)
TakeMine(c) ==
  Is(c, "take") /\ (late \/ There(Me(c))) /\ Step(c, [loc[c] EXCEPT !.kind = "gone"], Without(Me(c)), FALSE)
AwaitGone(c) ==
  /\ Is(c, "gone")
  /\ \/ late /\ Step(c, Idle, st, FALSE)
     \/ ~There(Go) /\ Step(c, [loc[c] EXCEPT !.kind = "see"], st, FALSE)
kvtest_splitremove1(c) ==
  AwaitRemoved(c) \/ SplitRound(c) \/ SeeTrigger(c) \/ SeeMine(c) \/ CheckTrigger(c) \/ TakeMine(c) \/ AwaitGone(c)
Alarm == /\ ~late /\ late' = TRUE /\ \E c \in Tester : plan[at[c]] = "splitremove1"
         /\ UNCHANGED <<plan, at, pc, active, todo, loc, st, failed, faults>>

\* A crash between rec1 and rec2 loses the last puts of each client.
Crash(c) ==
  /\ Is(c, "crash")
  /\ \E keep \in [Tester -> 0..3] :
       Step(c, Idle, [k \in {j \in DOMAIN st : j[2] <= keep[j[3]]} |-> st[k]], FALSE)

\* rec2: what is there is a prefix of what was put.
rec2(c) ==
  LET l == loc[c]
      k == <<rand(Seed(c), l.i), l.i, c>>
  IN /\ Is(c, "rec2")
     /\ Step(c, IF l.i = 4 THEN Idle ELSE [l EXCEPT !.i = @ + 1, !.missing = @ \/ ~There(k)], st,
             There(k) /\ (l.missing \/ st[k] # rand(Seed(c), l.i)))

\* What client c begins test t with.
Begins(t, c) ==
  LET With(requests, l) == {[todo |-> requests, loc |-> l]}
      Setup == <<Put(<<"n">>, NClient), Put(<<"s", c>>, 0), Put(<<"k", c>>, -1)>>
      Fixed(base) == [i \in 1..NFixed |-> Put(<<"8", 4 * (i - 1 + base)>>, i)]
      Writer(base) == With(<<>>, [kind |-> "writer", base |-> base, rounds |-> 0])
  IN CASE t = "rw2" -> With(<<>>, [kind |-> "rw2", puts |-> 0, n |-> 0])
       [] t = "rw2fixed" -> With(<<>>, [kind |-> "rw2fixed", puts |-> 0, n |-> 0])
       [] t = "volt2b" -> With(<<>>, [kind |-> "volt2", n |-> 0, draw |-> 0])
       [] t = "over1" -> With(<<>>, [kind |-> "over", n |-> 0, v |-> 0])
       [] t = "over2" -> With(<<>>, [kind |-> "over2", n |-> 0])
       [] t = "scantest" -> With([i \in 1..ScanEnd - ScanFirst |-> Put(<<"k", ScanFirst + i - 1>>, i)],
                                 [kind |-> "scantest", i |-> 1])
       [] t = "wd1" -> With(<<>>, [kind |-> IF c % 2 = 1 THEN "spin" ELSE "write", pos |-> Pos(c)])
       [] t = "wd1check" /\ c % 2 = 0 -> With(<<>>, [kind |-> "verify", pos |-> Pos(c), seen |-> FALSE, found |-> FALSE])
       [] t = "wd2" -> With(Setup, [kind |-> "wd2", x |-> 0, rounds |-> 0, inserted |-> FALSE])
       [] t = "wd2check" /\ c = 0 -> With(<<>>, [kind |-> "wd2check"])
       [] t = "conflictscan1" /\ c # 0 ->
            With(<<Insert(<<c, 0>>, 0), Insert(<<c, 1>>, 1)>>, [kind |-> "churn", head |-> 0, tail |-> 2])
       [] t = "scan1" -> IF c % 24 = 0 THEN With(Fixed(0), [kind |-> "scan", pos |-> 0, mypos |-> 0, count |-> 0, cycles |-> 0])
                         ELSE Writer(0)
       [] t = "rscan1" -> IF c % 24 = 0
                          THEN With(Fixed(1), [kind |-> "rscan", pos |-> (NFixed + 1) * 4, mypos |-> NFixed * 4,
                                               count |-> 0, cycles |-> 0])
                          ELSE Writer(1)
       [] t = "splitremove1" -> With(<<>>, [kind |-> IF c = 0 THEN "again" ELSE "see", rounds |-> 0, late |-> FALSE])
       [] t = "crash" /\ c = 0 -> With(<<>>, [kind |-> "crash"])
       [] t = "rec2" -> With(<<>>, [kind |-> "rec2", i |-> 1, missing |-> FALSE])
       [] OTHER -> {[todo |-> s, loc |-> Idle] : s \in Script(t, c)}

\* One request of a script.
Request(c) ==
  /\ pc[c] = "run" /\ todo[c] # <<>>
  /\ st' = Effect(Head(todo[c])) /\ todo' = [todo EXCEPT ![c] = Tail(@)]
  /\ failed' = IF Passes(Head(todo[c])) THEN failed ELSE failed \cup {plan[at[c]]}
  /\ UNCHANGED <<plan, at, pc, active, loc, late, faults>>

-----------------------------------------------------------------------------
\* What a test gets wrong from its start: rw1long's checks do not draw what its
\* puts drew, and udp1 may check before anything is put.
Faulty(t, requests) ==
  t = "rw1long" \/ (t = "udp1" /\ requests # <<>> /\ Head(requests).op = "get")

\* test_thread::go.  active counts the threads in a test; the last one to end
\* it wakes the others up.
Enter(c, n) ==
  /\ active' = active + 1 /\ pc' = [pc EXCEPT ![c] = "run"] /\ at' = [at EXCEPT ![c] = n]
  /\ \E b \in Begins(plan[n], c) :
       /\ todo' = [todo EXCEPT ![c] = b.todo] /\ loc' = [loc EXCEPT ![c] = b.loc]
       /\ faults' = IF Faulty(plan[n], b.todo) THEN faults \cup {plan[n]} ELSE faults
  /\ late' = (late /\ active > 0) /\ UNCHANGED <<plan, st, failed>>

Start(c) == pc[c] = "start" /\ Enter(c, 1)
Resume(c) == pc[c] = "woken" /\ Enter(c, at[c] + 1)

\* Whoever ends a test before another thread is counted in it may take itself for
\* the last: the barrier does not hold, and what follows is not modelled.
Barrier == faults' = IF \A c \in Tester : pc[c] \notin {"start", "woken"} THEN faults
                     ELSE faults \cup {"barrier"}

EndSubtest(c) ==
  /\ Is(c, "none") /\ at[c] < Len(plan) /\ Barrier
  /\ active' = active - 1
  /\ pc' = IF active = 1 THEN [i \in Tester |-> IF pc[i] = "wait" \/ i = c THEN "woken" ELSE pc[i]]
           ELSE [pc EXCEPT ![c] = "wait"]
  /\ UNCHANGED <<plan, at, todo, loc, st, late, failed>>

Finish(c) ==
  /\ Is(c, "none") /\ at[c] = Len(plan)
  /\ active' = active - 1 /\ pc' = [pc EXCEPT ![c] = "done"]
  /\ UNCHANGED <<plan, at, todo, loc, st, late, failed, faults>>

Init ==
  /\ plan \in Plan /\ at = [c \in Tester |-> 1] /\ pc = [c \in Tester |-> "start"] /\ active = 0
  /\ todo = [c \in Tester |-> <<>>] /\ loc = [c \in Tester |-> Idle]
  /\ st = [k \in {} |-> 0] /\ late = FALSE /\ failed = {} /\ faults = {}

Moves ==
  \/ Alarm
  \/ \E c \in Tester :
       \/ Start(c) \/ Resume(c) \/ EndSubtest(c) \/ Finish(c) \/ Request(c) \/ EndLoop(c)
       \/ kvtest_rw2_seed(c) \/ kvtest_rw2fixed_seed(c) \/ volt2b(c) \/ over1(c) \/ over2(c) \/ scantest(c)
       \/ kvtest_wd1(c) \/ kvtest_wd1_check(c) \/ kvtest_wd2(c) \/ kvtest_wd2_check(c)
       \/ kvtest_conflictscan1(c) \/ kvtest_scan1(c) \/ kvtest_rscan1(c) \/ ScanWriter(c)
       \/ kvtest_splitremove1(c) \/ Crash(c) \/ rec2(c)

Next == "barrier" \notin faults /\ Moves

Spec == Init /\ [][Next]_vars

\* A test finds nothing wrong with a store that is right, whatever the clients do
\* at the same time and wherever the timeout ends them, unless the test itself is
\* at fault (faults: rw1long, kvtest.hh:206-216; udp1 without a put, kvtest.hh:1365;
\* scantest asking for no keys, mtclient.cc:1667), and as long as every thread
\* has come to a test before another leaves it (mttest.cc:673-681).  over1's puts
\* are in time (HalfSecond), and only one client runs bdb.
TestsPass == failed \subseteq faults
=============================================================================
