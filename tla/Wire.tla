-------------------------------- MODULE Wire --------------------------------
(***************************************************************************)
(* Clients and a server thread: a client sends requests ahead, up to a     *)
(* window, and matches the answers by sequence number (mtclient.cc,        *)
(* mtclient.hh); the thread serves the connections that have input         *)
(* (mtd.cc).  Both sides collect output (kvio.cc) and parse messages out   *)
(* of input buffers that the parsed message goes on pointing into.         *)
(* A message is a sequence of cells and a cell says which message it is    *)
(* part of; what the requests do is in the other modules.                  *)
(***************************************************************************)
EXTENDS Integers, Sequences, FiniteSets, SequencesExt

CONSTANTS
  Client,
  Scenario,    \* choices of what the clients do: client -> sequence of calls,
               \* [op, size, answer] with the sizes of request and answer
  Udp,         \* clients with udpflag
  TooLong,     \* clients with longer keys than the server takes
  None,
  Window,      \* window, a power of two
  SeqLimit,      \* sequence numbers are unsigned: 2^32
  Socket,      \* cells a socket holds in one direction
  InBuf,       \* conn::inbufsz and KVConn::inbufsz
  OutCap       \* capacity of a new kvout

ASSUME WindowAssumption == SeqLimit % Window = 0 /\ SeqLimit > Window

VARIABLES
  todo,   \* what the clients do
  cl,     \* struct child and its KVConn: client -> record
  up,     \* client -> cells on their way to the server
  down,   \* client -> cells on their way back
  dgram,  \* datagrams on their way: [up, down], client -> set of messages
  pipe,   \* tcp_thread_pipes: accepted connections
  conn,   \* struct conn: client -> record
  sv      \* tcp_threadfunc: [pc, ready, cur, xpos]

vars == <<todo, cl, up, down, dgram, pipe, conn, sv>>

-----------------------------------------------------------------------------
\* Messages.  id is the number of the call, which only the model knows.
Message(id, seq, size) == [i \in 1..size |-> [id |-> id, seq |-> seq, at |-> i, last |-> i = size]]
Call(c, i) == todo[c][i]
Request(c, id, seq) == Message(id, seq, Call(c, id).size)
Reply(c, id, seq) == Message(id, seq, Call(c, id).answer)

Take(s, k) == SubSeq(s, 1, k)
Rest(s, k) == SubSeq(s, k + 1, Len(s))
Lesser(i, j) == IF i < j THEN i ELSE j

\* An input buffer: inbuf_ is the last of bufs, the others are oldinbuf_;
\* what the parser has so far is where it is found in them.
Empty == [bufs |-> <<<<>>>>, pos |-> 0, total |-> 0, refs |-> <<>>]
Current(b) == Last(b.bufs)
Pending(b) == Len(Current(b)) - b.pos
Parsed(b) == [i \in DOMAIN b.refs |-> b.bufs[b.refs[i][1]][b.refs[i][2]]]
Done(b) == b.refs # <<>> /\ Last(Parsed(b)).last

\* hard_check up to the read: a used buffer is used again when nothing points
\* into it, and kept when it is full and something does.
MakeRoom(b) ==
  IF b.refs = <<>> THEN [b EXCEPT !.total = @ + b.pos, !.pos = 0, !.bufs = <<<<>>>>]
  ELSE IF b.pos = InBuf THEN [b EXCEPT !.total = @ + b.pos, !.pos = 0, !.bufs = Append(@, <<>>)]
  ELSE b
Fill(b, cells) == [b EXCEPT !.bufs[Len(b.bufs)] = Take(@, b.pos) \o cells]

\* parser_.consume: up to the end of a message.
Consume(b) ==
  LET rest == Rest(Current(b), b.pos)
      ends == {i \in DOMAIN rest : rest[i].last}
      k == IF ends = {} THEN Len(rest) ELSE CHOOSE i \in ends : \A j \in ends : i <= j
  IN [b EXCEPT !.pos = @ + k, !.refs = @ \o [i \in 1..k |-> <<Len(b.bufs), b.pos + i>>]]

Recent(b, xpos) ==
  IF xpos >= b.total /\ xpos - b.total <= b.pos
  THEN SubSeq(Current(b), xpos - b.total + 1, b.pos) ELSE <<>>

\* An output buffer o: what fits of the message m goes in; a full one is
\* flushed and has doubled afterwards.
Unparsed(o, m) ==
  LET k == Lesser(Len(m), o.cap - Len(o.buf))
  IN [o EXCEPT !.buf = @ \o Take(m, k), !.part = Rest(m, k)]
Grown(o) == [Unparsed([o EXCEPT !.cap = 2 * @], o.part) EXCEPT !.cap = 2 * o.cap]
NewOut == [buf |-> <<>>, part |-> <<>>, cap |-> OutCap]

-----------------------------------------------------------------------------
\* The client c: its calls, its window seq0..seq1 of requests under way, its
\* buffers; then is where a kvflush returns to and next where checkasync does.
SetC(c, r) == cl' = [cl EXCEPT ![c] = r]
ToC(c, r) == SetC(c, r) /\ UNCHANGED <<todo, up, down, dgram, pipe, conn, sv>>
NextCall(c) == todo[c][cl[c].i]
Hello == <<[id |-> 0, seq |-> 0, at |-> 1, last |-> TRUE]>>
Refused == <<[Hello[1] EXCEPT !.last = FALSE]>>
Async == {"aget", "aput", "aremove", "ascan"}
Sync == {"get", "put", "remove"}

\* KVConn::KVConn and handshake; UDP has none.
Connect(c) ==
  /\ cl[c].pc = "connect"
  /\ SetC(c, [cl[c] EXCEPT !.pc = IF c \in Udp THEN "call" ELSE "hello"])
  /\ up' = IF c \in Udp THEN up ELSE [up EXCEPT ![c] = Hello]
  /\ UNCHANGED <<todo, down, dgram, pipe, conn, sv>>

Greeted(c) ==
  /\ cl[c].pc = "hello" /\ down[c] # <<>>
  /\ SetC(c, [cl[c] EXCEPT !.pc = IF down[c] = Hello THEN "call" ELSE "exit"])
  /\ down' = [down EXCEPT ![c] = <<>>] /\ UNCHANGED <<todo, up, dgram, pipe, conn, sv>>

\* kvflush: write as much as the socket takes, or a datagram, until all is gone.
WriteC(c) ==
  LET r == cl[c]
      k == Lesser(Len(r.o.buf), Socket - Len(up[c]))
  IN /\ r.pc \in {"flush", "grow"} /\ r.o.buf # <<>>
     /\ IF c \in Udp
        THEN /\ SetC(c, [r EXCEPT !.o.buf = <<>>]) /\ UNCHANGED up
             /\ dgram' = [dgram EXCEPT !.up[c] = @ \cup {r.o.buf}]
        ELSE /\ k > 0 /\ SetC(c, [r EXCEPT !.o.buf = Rest(@, k)]) /\ UNCHANGED dgram
             /\ up' = [up EXCEPT ![c] = @ \o Take(r.o.buf, k)]
     /\ UNCHANGED <<todo, down, pipe, conn, sv>>

Flushed(c) ==
  cl[c].pc = "flush" /\ cl[c].o.buf = <<>> /\ ToC(c, [cl[c] EXCEPT !.pc = cl[c].then])

\* check_flush: now and then flush, and wait while the window is full.
InFlight(r) == (r.seq1 - r.seq0) % SeqLimit
\* A bug to catch: one request too many.
Full_Late(r) == InFlight(r) > Window
Full(r) == InFlight(r) >= Window

Begin(c) ==
  LET r == cl[c]
      flush == r.seq1 % ((Window - 1) \div 2 + 1) = 0
  IN /\ r.pc = "call" /\ r.i <= Len(todo[c]) /\ NextCall(c).op \in Async
     /\ ToC(c, [r EXCEPT !.pc = IF flush THEN "flush" ELSE "window", !.then = "window"])

AwaitRoom(c) ==
  /\ cl[c].pc = "window" /\ Full(cl[c])
  /\ ToC(c, [cl[c] EXCEPT !.pc = "async", !.force = 1, !.next = "window"])

\* The entry of the window that remembers a request.
Entry(r) == [id |-> r.i, seq |-> r.seq1, acked |-> FALSE]

\* aget, aget_col, aput, aput_col, aremove once there is room.
Sent(c, r, o) ==
  [r EXCEPT !.o = o, !.pc = IF o.part # <<>> THEN "grow"
                            ELSE IF c \in Udp \/ r.then = "receive" THEN "flush" ELSE "call"]
Send(c) ==
  LET r == cl[c]
  IN /\ r.pc = "window" /\ ~Full(r)
     /\ ToC(c, Sent(c, [r EXCEPT !.a[r.seq1 % Window] = Entry(r), !.seq1 = (@ + 1) % SeqLimit,
                                 !.i = @ + 1, !.then = "call", !.sync = FALSE],
                    Unparsed(r.o, Request(c, r.i, r.seq1))))

GrowC(c) ==
  /\ cl[c].pc = "grow" /\ cl[c].o.buf = <<>> /\ ToC(c, Sent(c, cl[c], Grown(cl[c].o)))

\* get, put, remove: nothing else is under way.
SendSync(c) ==
  LET r == cl[c]
  IN /\ r.pc = "call" /\ r.i <= Len(todo[c]) /\ NextCall(c).op \in Sync
     /\ ToC(c, Sent(c, [r EXCEPT !.ok = @ /\ r.seq0 = r.seq1, !.seq1 = (@ + 1) % SeqLimit,
                                 !.i = @ + 1, !.then = "receive", !.sync = TRUE],
                    Unparsed(r.o, Request(c, r.i, r.seq1))))

\* wait_all, and the end of run_child.
WaitAll(c) ==
  LET r == cl[c]
      over == r.i > Len(todo[c])
  IN /\ r.pc = "call" /\ (IF over THEN TRUE ELSE NextCall(c).op = "wait_all")
     /\ ToC(c, [r EXCEPT !.pc = "async", !.force = 2, !.sync = FALSE, !.i = IF over THEN @ ELSE @ + 1,
                         !.next = IF over THEN "exit" ELSE "call"])

\* checkasync: force is 0, look; 1, wait for an answer; 2, wait for all.
\* A bug to catch: it waits for answers to requests not sent.
CheckAsync_NoFlush(c) ==
  LET r == cl[c]
  IN /\ r.pc = "async"
     /\ ToC(c, [r EXCEPT !.pc = IF r.seq0 = r.seq1 THEN r.next ELSE "poll"])

CheckAsync(c) ==
  LET r == cl[c]
  IN /\ r.pc = "async"
     /\ ToC(c, [r EXCEPT !.pc = IF r.seq0 = r.seq1 THEN r.next ELSE IF r.force > 0 THEN "flush" ELSE "poll",
                         !.then = "poll"])

\* check and hard_check.
Arrived(c) == IF c \in Udp THEN dgram.down[c] # {} ELSE down[c] # <<>>
Poll(c) ==
  LET r == cl[c]
  IN /\ r.pc = "poll"
     /\ ToC(c, IF Pending(r.b) > 0 THEN [r EXCEPT !.pc = "receive"]
               ELSE [r EXCEPT !.b = MakeRoom(@),
                              !.pc = IF r.force > 0 \/ Arrived(c) THEN "read" ELSE r.next])

ReadC(c) ==
  LET r == cl[c]
      k == Lesser(InBuf - r.b.pos, Len(down[c]))
  IN /\ r.pc = "read"
     /\ IF c \in Udp
        THEN \E d \in dgram.down[c] :
               /\ SetC(c, [r EXCEPT !.b = Fill(@, d), !.pc = "receive"])
               /\ dgram' = [dgram EXCEPT !.down[c] = @ \ {d}] /\ UNCHANGED down
        ELSE /\ k > 0 /\ SetC(c, [r EXCEPT !.b = Fill(@, Take(down[c], k)), !.pc = "receive"])
             /\ down' = [down EXCEPT ![c] = Rest(@, k)] /\ UNCHANGED dgram
     /\ UNCHANGED <<todo, up, pipe, conn, sv>>

ReceiveC(c) ==
  LET r == cl[c]
      b == Consume(r.b)
  IN /\ r.pc = "receive"
     /\ ToC(c, IF Pending(r.b) > 0 THEN [r EXCEPT !.b = b, !.pc = IF Done(b) THEN "answer" ELSE @]
               ELSE [r EXCEPT !.b = MakeRoom(@), !.pc = "flush", !.then = "read"])

\* The rest of checkasync, and of get, put and remove.  ok says that the
\* assertions hold and that the answer is to the call it is taken for.
Answer(c) ==
  LET r == cl[c]
      m == Parsed(r.b)
      rseq == m[1].seq
      e == r.a[rseq % Window]
      a == [r.a EXCEPT ![rseq % Window].acked = TRUE]
      \* how far seq0 moves
      steps == CHOOSE k \in 0..InFlight(r) :
                 /\ \A j \in 0..k - 1 : a[(r.seq0 + j) % Window].acked
                 /\ k = InFlight(r) \/ ~a[(r.seq0 + k) % Window].acked
      fine == /\ (rseq - r.seq0) % SeqLimit < InFlight(r) /\ e.seq = rseq /\ ~e.acked
              /\ m = Reply(c, e.id, rseq)
      b == [r.b EXCEPT !.refs = <<>>]
  IN /\ r.pc = "answer" /\ ~r.sync
     /\ ToC(c, [r EXCEPT !.b = b, !.pc = "async", !.force = IF @ = 2 THEN 2 ELSE 0, !.a = a,
                         !.seq0 = (@ + steps) % SeqLimit, !.ok = @ /\ fine])

AnswerSync(c) ==
  LET r == cl[c]
  IN /\ r.pc = "answer" /\ r.sync
     /\ ToC(c, [r EXCEPT !.b.refs = <<>>, !.pc = "call", !.seq0 = (@ + 1) % SeqLimit,
                         !.ok = @ /\ Parsed(r.b) = Reply(c, r.i - 1, r.seq0)])

ClientStep(c) ==
  \/ Connect(c) \/ Greeted(c) \/ WriteC(c) \/ Flushed(c) \/ Begin(c) \/ AwaitRoom(c) \/ Send(c)
  \/ GrowC(c) \/ SendSync(c) \/ WaitAll(c) \/ CheckAsync(c) \/ Poll(c) \/ ReadC(c) \/ ReceiveC(c)
  \/ Answer(c) \/ AnswerSync(c)

-----------------------------------------------------------------------------
\* The server.
ToS(s) == sv' = s /\ UNCHANGED <<todo, cl, up, down, dgram, pipe, conn>>
ToConn(c, k, pc) ==
  conn' = [conn EXCEPT ![c] = k] /\ sv' = [sv EXCEPT !.pc = pc] /\ UNCHANGED <<todo, cl, up, down, dgram, pipe>>

\* main: accept, read the handshake and hand the connection to a thread.
Accept(c) ==
  /\ c \notin Udp /\ cl[c].pc = "hello" /\ up[c] = Hello
  /\ up' = [up EXCEPT ![c] = <<>>] /\ pipe' = Append(pipe, c)
  /\ UNCHANGED <<todo, cl, down, dgram, conn, sv>>

\* tcpfds::wait: the connections with input, in any order; None is the pipe.
Readable(c) == conn[c].open /\ (up[c] # <<>> \/ cl[c].pc = "exit")
Wait ==
  LET ready == {c \in Client : Readable(c)} \cup (IF pipe # <<>> THEN {None} ELSE {})
  IN /\ sv.pc = "wait" /\ ready # {}
     /\ \E order \in SetToSeqs(ready) : ToS([sv EXCEPT !.ready = order, !.pc = "take"])

\* New connections: handshake's answer is the first thing on the socket.
Welcome(c, at) ==
  IF c \in Range(at) THEN [open |-> c \notin TooLong, b |-> Empty, o |-> NewOut] ELSE conn[c]
TakeReady ==
  /\ sv.pc = "take"
  /\ \/ sv.ready = <<>> /\ ToS([sv EXCEPT !.pc = "wait"])
     \/ /\ sv.ready # <<>> /\ Head(sv.ready) = None
        /\ conn' = [c \in Client |-> Welcome(c, pipe)]
        /\ down' = [c \in Client |-> IF c \notin Range(pipe) THEN down[c] ELSE IF c \in TooLong THEN Refused ELSE Hello]
        /\ pipe' = <<>> /\ sv' = [sv EXCEPT !.ready = Tail(@)] /\ UNCHANGED <<todo, cl, up, dgram>>
     \/ /\ sv.ready # <<>> /\ Head(sv.ready) # None
        /\ LET c == Head(sv.ready)
           IN ToS([sv EXCEPT !.ready = Tail(@), !.cur = c, !.pc = "receive",
                             !.xpos = conn[c].b.total + conn[c].b.pos])

\* conn::receive, check and hard_check.
Receive ==
  LET k == conn[sv.cur]
      b == Consume(k.b)
  IN /\ sv.pc = "receive"
     /\ IF Pending(k.b) > 0 THEN ToConn(sv.cur, [k EXCEPT !.b = b], IF Done(b) THEN "go" ELSE "receive")
        ELSE ToConn(sv.cur, [k EXCEPT !.b = MakeRoom(@)], "read")

\* kvflush.
Write ==
  LET c == sv.cur
      o == conn[c].o.buf
      n == Lesser(Len(o), Socket - Len(down[c]))
  IN /\ sv.pc \in {"read", "grow", "flush", "closed"} /\ n > 0
     /\ conn' = [conn EXCEPT ![c].o.buf = Rest(@, n)]
     /\ down' = [down EXCEPT ![c] = @ \o Take(o, n)]
     /\ UNCHANGED <<todo, cl, up, dgram, pipe, sv>>

Written == conn[sv.cur].o.buf = <<>>

Read ==
  LET c == sv.cur
      k == Lesser(InBuf - conn[c].b.pos, Len(up[c]))
  IN /\ sv.pc = "read" /\ Written
     /\ \/ /\ k > 0 /\ conn' = [conn EXCEPT ![c].b = Fill(@, Take(up[c], k))]
           /\ up' = [up EXCEPT ![c] = Rest(@, k)] /\ sv' = [sv EXCEPT !.pc = "receive"]
           /\ UNCHANGED <<todo, cl, down, dgram, pipe>>
        \/ cl[c].pc = "exit" /\ up[c] = <<>> /\ ToS([sv EXCEPT !.pc = "closed"])

\* onego and msgpack::unparse.
Answered(o) == IF o.part # <<>> THEN "grow" ELSE "more"
Go ==
  LET k == conn[sv.cur]
      m == Parsed(k.b)
      o == Unparsed(k.o, Reply(sv.cur, m[1].id, m[1].seq))
  IN sv.pc = "go" /\ ToConn(sv.cur, [k EXCEPT !.o = o, !.b.refs = <<>>], Answered(o))

Grow ==
  LET k == conn[sv.cur]
      o == Grown(k.o)
  IN sv.pc = "grow" /\ Written /\ ToConn(sv.cur, [k EXCEPT !.o = o], Answered(o))

\* More of this connection after the others', or flush it.
More ==
  /\ sv.pc = "more"
  /\ ToS(IF Pending(conn[sv.cur].b) > 0 THEN [sv EXCEPT !.ready = Append(@, sv.cur), !.pc = "take"]
         ELSE [sv EXCEPT !.pc = "flush"])

FlushedS == sv.pc = "flush" /\ Written /\ ToS([sv EXCEPT !.pc = "take"])

Close == sv.pc = "closed" /\ Written /\ ToConn(sv.cur, [conn[sv.cur] EXCEPT !.open = FALSE, !.b = Empty], "take")

\* udp_threadfunc: one datagram, one answer.
UdpStep(c) == \E m \in dgram.up[c] :
  /\ dgram' = [dgram EXCEPT !.up[c] = @ \ {m}, !.down[c] = @ \cup {Reply(c, m[1].id, m[1].seq)}]
  /\ UNCHANGED <<todo, cl, up, down, pipe, conn, sv>>

-----------------------------------------------------------------------------
Init ==
  /\ todo \in Scenario
  /\ cl = [c \in Client |->
       [pc |-> IF todo[c] = <<>> THEN "exit" ELSE "connect", then |-> "call", next |-> "call", i |-> 1,
        seq0 |-> 0, seq1 |-> 0, force |-> 0, sync |-> FALSE, b |-> Empty, o |-> NewOut, ok |-> TRUE,
        a |-> [k \in 0..Window - 1 |-> [id |-> 0, seq |-> 0, acked |-> FALSE]]]]
  /\ up = [c \in Client |-> <<>>] /\ down = [c \in Client |-> <<>>]
  /\ dgram = [up |-> [c \in Client |-> {}], down |-> [c \in Client |-> {}]]
  /\ pipe = <<>> /\ conn = [c \in Client |-> [open |-> FALSE, b |-> Empty, o |-> NewOut]]
  /\ sv = [pc |-> "wait", ready |-> <<>>, cur |-> None, xpos |-> 0]

Next == \/ \E c \in Client : ClientStep(c) \/ Accept(c) \/ UdpStep(c)
        \/ Wait \/ TakeReady \/ Receive \/ Write \/ Read \/ Go \/ Grow \/ More \/ FlushedS \/ Close

Spec == Init /\ [][Next]_vars

-----------------------------------------------------------------------------
\* What the thread runs is a request as it was sent, however it was cut up on
\* the way and whatever was read since, and what it logs is that request or
\* nothing; a client takes every answer for the call it belongs to and its own
\* assertions hold, though answers overtake one another and numbers wrap.
MessagesAreWhole ==
  /\ sv.pc = "go" => LET k == conn[sv.cur]
                         m == Parsed(k.b)
                     IN /\ m = Request(sv.cur, m[1].id, m[1].seq)
                        /\ Recent(k.b, sv.xpos) \in {<<>>, m}
  /\ \A c \in Client : cl[c].ok

\* A kvflush reads nothing while it writes, on either side.  What a client may
\* send after a request that is being answered fits the socket, or the answers do.
Cells(calls, F(_)) == FoldLeft(LAMBDA n, call : n + F(call), 0, calls)
Ahead(c, i, n) == SubSeq(todo[c], i, Lesser(i + n - 1, Len(todo[c])))
Fits(c) ==
  c \in Udp \/ \A i \in DOMAIN todo[c] :
    \/ Cells(Ahead(c, i + 1, Window - 1), LAMBDA call : call.size) <= Socket
    \/ Cells(Ahead(c, i, Window), LAMBDA call : call.answer) <= Socket

\* Clients that send ahead and a thread that saves its answers up do not wait
\* for one another for ever, as long as their windows fit the sockets; the code
\* (mtclient.cc, kvio.cc kvflush) does nothing to make them fit.
NobodyIsStuck ==
  (\A c \in Client : Fits(c)) => ENABLED Next \/ \A c \in Client : cl[c].pc = "exit" /\ ~conn[c].open
=============================================================================
