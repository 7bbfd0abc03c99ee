----------------------------- MODULE LogProofs ------------------------------
(***************************************************************************)
(* LoggedInTurn for any number of server threads, logs and updates: until  *)
(* a thread records an update before one of an earlier epoch that waits,   *)
(* every update of an epoch before a log's flushed epoch is in its file.   *)
(* FlushInv is inductive until the first crash; one lemma per action.      *)
(***************************************************************************)
EXTENDS Log, TLAPS

LEMMA Constants ==
  /\ NLog \in Nat \ {0} /\ MaxPut \in Nat /\ Room = 3 /\ Cap \in Nat /\ Cap >= Room
  /\ \A t \in Writer : LogOf[t] \in LogId
  /\ Nobody \notin Writer
<1>1. MaxPut \in Nat
  BY LogAssumption
<1>2. QED
  BY <1>1, LogAssumption

\* The threads in a queue are server threads.
LEMMA Waiters ==
  ASSUME TypeOK
  PROVE  \A l \in LogId : log[l].waiting \in Seq(Writer) /\ Range(log[l].waiting) \subseteq Writer
<1>1. \A l \in LogId : log[l].waiting \in Seq(Writer)
  BY DEF TypeOK, LogInfo
<1>2. \A s \in Seq(Writer) : Range(s) \subseteq Writer
  BY DEF Range
<1>3. QED
  BY <1>1, <1>2

USE Constants

\* What a sequence of records has, and what is behind its end.
LEMMA PutsOfAppend ==
  ASSUME NEW a \in Seq(LogRecord), NEW b \in Seq(LogRecord)
  PROVE  a \o b \in Seq(LogRecord) /\ PutsOf(a \o b) = PutsOf(a) \cup PutsOf(b)
<1>1. a \o b \in Seq(LogRecord)
  OBVIOUS
<1>2. Range(a \o b) = Range(a) \cup Range(b)
  <2>1. ASSUME NEW i \in DOMAIN (a \o b) PROVE (a \o b)[i] \in Range(a) \cup Range(b)
    <3>1. i \in 1..(Len(a) + Len(b))
      OBVIOUS
    <3>2. CASE i <= Len(a)
      BY <3>1, <3>2 DEF Range
    <3>3. CASE i > Len(a)
      <4>1. (a \o b)[i] = b[i - Len(a)] /\ i - Len(a) \in DOMAIN b
        BY <3>1, <3>3
      <4>2. QED
        BY <4>1 DEF Range
    <3>4. QED
      BY <3>1, <3>2, <3>3
  <2>2. ASSUME NEW i \in DOMAIN a PROVE a[i] \in Range(a \o b)
    <3>1. (a \o b)[i] = a[i] /\ i \in DOMAIN (a \o b)
      OBVIOUS
    <3>2. QED
      BY <3>1 DEF Range
  <2>3. ASSUME NEW i \in DOMAIN b PROVE b[i] \in Range(a \o b)
    <3>1. (a \o b)[i + Len(a)] = b[i] /\ i + Len(a) \in DOMAIN (a \o b)
      OBVIOUS
    <3>2. QED
      BY <3>1 DEF Range
  <2>4. QED
    BY <2>1, <2>2, <2>3 DEF Range
<1>3. QED
  BY <1>1, <1>2 DEF PutsOf

\* The records that say something about epochs are no updates.
LEMMA PutsOfMarks ==
  /\ PutsOf(<<>>) = {}
  /\ \A e \in Nat : /\ <<Epoch(e)>> \in Seq(LogRecord) /\ PutsOf(<<Epoch(e)>>) = {}
  /\ <<Wake>> \in Seq(LogRecord) /\ PutsOf(<<Wake>>) = {}
  /\ <<Quiesce>> \in Seq(LogRecord) /\ PutsOf(<<Quiesce>>) = {}
  /\ \A u \in Update : <<PutRec(u)>> \in Seq(LogRecord) /\ PutsOf(<<PutRec(u)>>) = {u}
<1>1. \A r : Range(<<r>>) = {r}
  BY DEF Range
<1>2. Range(<<>>) = {}
  BY DEF Range
<1>3. \A e \in Nat : Epoch(e) \in LogRecord /\ \A u \in Update : PutRec(u) # Epoch(e)
  BY DEF LogRecord, Epoch, PutRec
<1>4. Wake \in LogRecord /\ Quiesce \in LogRecord
      /\ \A u \in Update : PutRec(u) # Wake /\ PutRec(u) # Quiesce
  BY DEF LogRecord, Wake, Quiesce, PutRec
<1>5. \A u \in Update : PutRec(u) \in LogRecord /\ \A x \in Update : PutRec(u) = PutRec(x) => u = x
  BY DEF LogRecord, PutRec
<1>6. QED
  BY <1>1, <1>2, <1>3, <1>4, <1>5 DEF PutsOf

LEMMA InitFlushInv == Init => FlushInv
<1> SUFFICES ASSUME Init PROVE FlushInv
  OBVIOUS
<1> USE DEF Init, EmptyLog, IdleWriter
<1>1. rec = NoRecovery
  OBVIOUS
<1>2. \A l \in LogId : /\ log[l].buf = <<>> /\ log[l].waiting = <<>> /\ log[l].x_buf = <<>>
                       /\ log[l].pc = "loop" /\ log[l].log_epoch = 1 /\ log[l].x_epoch = 0
                       /\ log[l].flushed_epoch = 1 /\ log[l].quiescent_epoch = 1
  OBVIOUS
<1>3. TypeOK
  <2>1. EmptyLog \in LogInfo
    BY DEF LogInfo
  <2>2. log \in [LogId -> LogInfo]
    <3>1. [EmptyLog EXCEPT !.log_epoch = 1] \in LogInfo
      BY <2>1 DEF LogInfo
    <3>2. [EmptyLog EXCEPT !.log_epoch = 1, !.quiescent_epoch = 1] \in LogInfo
      BY <3>1 DEF LogInfo
    <3>3. [EmptyLog EXCEPT !.log_epoch = 1, !.quiescent_epoch = 1, !.flushed_epoch = 1] \in LogInfo
      BY <3>2 DEF LogInfo
    <3>4. QED
      BY <3>3
  <2>3. <<Epoch(1), Quiesce>> \in Seq(LogRecord)
    BY DEF LogRecord, Epoch, Quiesce
  <2>4. hist.prior \in [Update -> SUBSET Update] /\ hist.epoch \in [Update -> Nat]
        /\ hist.where \in [Update -> 0..NLog]
    OBVIOUS
  <2>5. w \in [Writer -> WriterInfo] /\ hist \in History
    BY <2>4 DEF WriterInfo, History
  <2>6. QED
    BY <2>2, <2>3, <2>5 DEF TypeOK
<1>4. WritersState
  BY DEF WritersState, Pending
<1>5. QueueState
  BY <1>2 DEF QueueState, Range
<1>6. LogsState
  BY <1>2, PutsOfMarks DEF LogsState
<1>7. NothingIsLost /\ EpochsInTurn
  BY DEF NothingIsLost, EpochsInTurn, Pending
<1>8. QED
  BY <1>1, <1>3, <1>4, <1>5, <1>6, <1>7 DEF FlushInv

\* What the checkpointer does, and a turn that changes nothing.
LEMMA BesideTheLogs ==
  ASSUME FlushInv, UNCHANGED <<global_log_epoch, global_wake_epoch, log, disk, w, rec>>,
         \/ hist' = hist \/ hist' = [hist EXCEPT !.ckps = @ + 1]
         \/ \E b \in BOOLEAN : hist' = [hist EXCEPT !.late = b]
  PROVE  FlushInv'
<1> USE DEF FlushInv
<1>1. hist \in History
  BY DEF TypeOK
<1>2. /\ hist'.next = hist.next /\ hist'.epoch = hist.epoch /\ hist'.where = hist.where
      /\ hist'.overtaken = hist.overtaken /\ hist' \in History
  BY <1>1 DEF History
<1>3. TypeOK'
  BY <1>2 DEF TypeOK
<1>4. WritersState'
  BY <1>2 DEF WritersState, Pending
<1>5. QueueState' /\ LogsState'
  <2>1. QueueState'
    BY DEF QueueState
  <2>2. LogsState'
    BY DEF LogsState
  <2>3. QED
    BY <2>1, <2>2
<1>6. NothingIsLost' /\ (EpochsInTurn' <=> EpochsInTurn)
  BY <1>2 DEF NothingIsLost, EpochsInTurn, Pending
<1>7. QED
  BY <1>2, <1>3, <1>4, <1>5, <1>6

\* The update is numbered, and has no epoch yet.
LEMMA PutFlush ==
  ASSUME NEW t \in Writer, FlushInv, Put(t)
  PROVE  FlushInv'
<1> USE DEF FlushInv, Put
<1> DEFINE x == hist.next
<1>1. hist \in History /\ x \in Update
  <2>1. hist \in History /\ hist.next \in Nat \ {0}
    BY DEF TypeOK, History
  <2>2. QED
    BY <2>1 DEF Update
<1>2. /\ w[t].pc = "idle" /\ w'[t] = [pc |-> "apply", u |-> x, epoch |-> 0]
      /\ \A v \in Writer \ {t} : w'[v] = w[v]
  BY DEF TypeOK
<1>3. hist.epoch[x] = 0
  BY <1>1 DEF WritersState, History
<1>4. /\ hist'.next = x + 1 /\ hist'.epoch = hist.epoch /\ hist'.overtaken = hist.overtaken
      /\ hist'.where = [hist.where EXCEPT ![x] = LogOf[t]]
  BY <1>1 DEF History
<1>5. hist'.where[x] = LogOf[t] /\ \A u \in Update \ {x} : hist'.where[u] = hist.where[u]
  BY <1>1, <1>4 DEF History
<1>6. TypeOK'
  <2>1. [pc |-> "apply", u |-> x, epoch |-> 0] \in WriterInfo
    BY <1>1 DEF WriterInfo, Update
  <2>2. w' \in [Writer -> WriterInfo]
    BY <2>1 DEF TypeOK
  <2>3. [hist.prior EXCEPT ![x] = hist.answered] \in [Update -> SUBSET Update]
    BY <1>1 DEF History
  <2>4. [hist.where EXCEPT ![x] = LogOf[t]] \in [Update -> 0..NLog]
    BY <1>1 DEF History, LogId
  <2>5. hist' = [hist EXCEPT !.next = x + 1, !.prior = [hist.prior EXCEPT ![x] = hist.answered],
                             !.where = [hist.where EXCEPT ![x] = LogOf[t]]]
    BY <1>1 DEF History
  <2>6. hist' \in History
    <3>1. x + 1 \in Nat \ {0}
      BY <1>1 DEF Update
    <3>2. QED
      BY <1>1, <2>3, <2>4, <2>5, <3>1 DEF History
  <2>7. QED
    BY <2>2, <2>6 DEF TypeOK
<1>7. WritersState'
  <2>1. \A v \in Writer : w[v].pc # "idle" => w[v].u \in Update /\ w[v].u < x
    BY DEF WritersState
  <2>2. x \in Nat
    BY <1>1 DEF Update
  <2>3. \A u \in Update : u < x => u < x + 1 /\ u # x
    BY <2>2 DEF Update
  <2>4. \A u \in Update : u >= x + 1 => u >= x
    BY <2>2 DEF Update
  <2>5. \A u \in Update : u >= hist'.next => hist'.epoch[u] = 0
    BY <1>4, <2>4 DEF WritersState
  <2>6. ASSUME NEW v \in Writer, w'[v].pc # "idle"
        PROVE  /\ w'[v].u \in Update /\ w'[v].u < x + 1 /\ hist'.where[w'[v].u] = LogOf[v]
               /\ w'[v].pc = "apply" => hist'.epoch[w'[v].u] = 0
               /\ \A z \in Writer : w'[z].pc # "idle" /\ w'[z].u = w'[v].u => z = v
    <3>1. CASE v = t
      BY <1>1, <1>2, <1>3, <1>4, <1>5, <2>1, <2>2, <2>3, <3>1
    <3>2. CASE v # t
      <4>1. w'[v] = w[v] /\ w[v].u # x
        BY <1>2, <2>1, <2>3, <2>6, <3>2
      <4>2. QED
        BY <1>2, <1>4, <1>5, <2>1, <2>3, <2>6, <4>1 DEF WritersState
    <3>3. QED
      BY <3>1, <3>2
  <2>7. \A v \in Writer : Pending(v)' => Pending(v) /\ w'[v] = w[v]
    BY <1>2 DEF Pending
  <2>8. QED
    BY <1>4, <2>5, <2>6, <2>7 DEF WritersState
<1>8. QueueState' /\ LogsState'
  <2>1. \A l \in LogId : t \notin Range(log[l].waiting)
    BY <1>2 DEF QueueState
  <2>2. \A l \in LogId : \A i \in DOMAIN log[l].waiting : log[l].waiting[i] \in Range(log[l].waiting)
    BY DEF Range
  <2>3. \A l \in LogId : Range(log[l].waiting) \subseteq Writer
    BY Waiters
  <2>4. QueueState'
    BY <1>2, <2>1, <2>2, <2>3 DEF QueueState
  <2>5. QED
    BY <2>4 DEF LogsState
<1>9. NothingIsLost' /\ (EpochsInTurn => EpochsInTurn')
  BY <1>1, <1>2, <1>3, <1>4, <1>5 DEF NothingIsLost, EpochsInTurn, Pending
<1>10. QED
  BY <1>4, <1>6, <1>7, <1>8, <1>9

\* A history, a writer and a log are records: what an action leaves of them.
LEMMA HistoryFields ==
  ASSUME FlushInv
  PROVE  /\ hist \in History /\ hist.epoch \in [Update -> Nat] /\ hist.where \in [Update -> 0..NLog]
         /\ hist.next \in Nat /\ hist.answered \in SUBSET Update
  BY DEF FlushInv, TypeOK, History

LEMMA LogFields ==
  ASSUME NEW g \in LogInfo
  PROVE  /\ g.holder \in Writer \cup {Nobody} /\ g.buf \in Seq(LogRecord) /\ g.x_buf \in Seq(LogRecord)
         /\ g.waiting \in Seq(Writer) /\ g.pc \in {"loop", "turn", "write", "check"}
         /\ g.log_epoch \in Nat /\ g.x_epoch \in Nat /\ g.flushed_epoch \in Nat
         /\ g.quiescent_epoch \in Nat /\ g.wake_epoch \in Nat
  BY DEF LogInfo

\* One log changes.
LEMMA OneLogMoves ==
  ASSUME log \in [LogId -> LogInfo], NEW l \in LogId, NEW f \in LogInfo,
         log' = [log EXCEPT ![l] = f]
  PROVE  /\ log'[l] = f /\ log' \in [LogId -> LogInfo]
         /\ \A m \in LogId : m # l => log'[m] = log[m]
  OBVIOUS

\* Only the holder of log l changes.
LEMMA LogHolder ==
  ASSUME TypeOK, NEW l \in LogId, NEW h \in Writer \cup {Nobody},
         log' = [log EXCEPT ![l] = [log[l] EXCEPT !.holder = h]]
  PROVE  /\ log'[l].holder = h /\ log' \in [LogId -> LogInfo]
         /\ \A m \in LogId :
              /\ m # l => log'[m] = log[m]
              /\ log'[m].buf = log[m].buf /\ log'[m].x_buf = log[m].x_buf
              /\ log'[m].waiting = log[m].waiting /\ log'[m].pc = log[m].pc
              /\ log'[m].log_epoch = log[m].log_epoch /\ log'[m].x_epoch = log[m].x_epoch
              /\ log'[m].flushed_epoch = log[m].flushed_epoch
              /\ log'[m].quiescent_epoch = log[m].quiescent_epoch
<1>1. PICK g : g = log[l]
  OBVIOUS
<1>2. PICK f : f = [g EXCEPT !.holder = h]
  OBVIOUS
<1>3. g \in LogInfo
  BY <1>1 DEF TypeOK
<1>4. /\ f \in LogInfo /\ f.holder = h
      /\ f.buf = g.buf /\ f.x_buf = g.x_buf /\ f.waiting = g.waiting /\ f.pc = g.pc
      /\ f.log_epoch = g.log_epoch /\ f.x_epoch = g.x_epoch
      /\ f.flushed_epoch = g.flushed_epoch /\ f.quiescent_epoch = g.quiescent_epoch
  BY <1>2, <1>3 DEF LogInfo
<1>5. log' = [log EXCEPT ![l] = f]
  BY <1>1, <1>2
<1>6. log'[l] = f /\ log' \in [LogId -> LogInfo] /\ \A m \in LogId : m # l => log'[m] = log[m]
  <2>1. log \in [LogId -> LogInfo] /\ f \in LogInfo
    BY <1>4 DEF TypeOK
  <2>2. QED
    BY <1>5, <2>1, OneLogMoves
<1>7. QED
  BY <1>1, <1>4, <1>6

\* The epoch is read and the row is changed, under the lock of the log.
LEMMA ApplyPutFlush ==
  ASSUME NEW t \in Writer, FlushInv, ApplyPut(t)
  PROVE  FlushInv'
<1> USE DEF FlushInv
<1> DEFINE l == LogOf[t]
           x == w[t].u
           e == global_log_epoch
<1>1. /\ x \in Update /\ x < hist.next /\ hist.where[x] = l /\ l \in LogId
      /\ hist.epoch[x] = 0 /\ e \in Nat \ {0}
      /\ \A v \in Writer \ {t} : w[v].pc # "idle" => w[v].u # x
  BY DEF ApplyPut, WritersState, TypeOK
<1>2. /\ w'[t].pc = "finish" /\ w'[t].u = x /\ w'[t].epoch = e /\ w[t].pc = "apply"
      /\ \A v \in Writer \ {t} : w'[v] = w[v]
  <2>1. w' = [w EXCEPT ![t] = [w[t] EXCEPT !.pc = "finish", !.epoch = e]] /\ w[t].pc = "apply"
    BY DEF ApplyPut, TypeOK
  <2>2. w[t] \in WriterInfo
    BY DEF TypeOK
  <2>3. QED
    BY <2>1, <2>2 DEF TypeOK, WriterInfo
<1>3. /\ hist'.next = hist.next /\ hist'.where = hist.where /\ hist'.overtaken = hist.overtaken
      /\ hist'.epoch[x] = e /\ \A u \in Update \ {x} : hist'.epoch[u] = hist.epoch[u]
  BY <1>1, HistoryFields DEF History, ApplyPut
<1>4. /\ log'[l].holder = t /\ log[l].holder = Nobody /\ log' \in [LogId -> LogInfo]
      /\ \A m \in LogId :
           /\ m # l => log'[m] = log[m]
           /\ log'[m].buf = log[m].buf /\ log'[m].x_buf = log[m].x_buf
           /\ log'[m].waiting = log[m].waiting /\ log'[m].pc = log[m].pc
           /\ log'[m].log_epoch = log[m].log_epoch /\ log'[m].x_epoch = log[m].x_epoch
           /\ log'[m].flushed_epoch = log[m].flushed_epoch
           /\ log'[m].quiescent_epoch = log[m].quiescent_epoch
  <2>1. log' = [log EXCEPT ![l] = [log[l] EXCEPT !.holder = t]] /\ log[l].holder = Nobody
    BY DEF ApplyPut, IsFree
  <2>2. t \in Writer \cup {Nobody} /\ TypeOK /\ l \in LogId
    BY <1>1
  <2>3. QED
    BY ONLY <2>1, <2>2, LogHolder
<1>5. TypeOK'
  <2>1. [w[t] EXCEPT !.pc = "finish", !.epoch = e] \in WriterInfo
    BY <1>1 DEF TypeOK, WriterInfo
  <2>2. [hist.epoch EXCEPT ![x] = e] \in [Update -> Nat]
    BY <1>1, HistoryFields
  <2>3. hist' = [hist EXCEPT !.epoch = [hist.epoch EXCEPT ![x] = e]]
    BY HistoryFields DEF History, ApplyPut
  <2>4. hist' \in History
    BY <2>2, <2>3, HistoryFields DEF History
  <2>5. w' \in [Writer -> WriterInfo]
    <3>1. w' = [w EXCEPT ![t] = [w[t] EXCEPT !.pc = "finish", !.epoch = e]]
      BY DEF ApplyPut, TypeOK
    <3>2. QED
      BY <2>1, <3>1 DEF TypeOK
  <2>6. UNCHANGED <<global_log_epoch, global_wake_epoch, disk>>
    BY DEF ApplyPut
  <2>7. QED
    BY <1>4, <2>4, <2>5, <2>6 DEF TypeOK
<1>a. UNCHANGED <<global_log_epoch, global_wake_epoch, disk, rec>>
  BY DEF ApplyPut
<1>6. \A v \in Writer : Pending(v)' => v = t \/ (v # t /\ Pending(v) /\ w'[v] = w[v])
  BY <1>2 DEF Pending
<1>7. \A m \in LogId : t \notin Range(log[m].waiting)
  BY <1>2 DEF QueueState
<1>8. WritersState'
  <2>1. \A u \in Update : u >= hist'.next => hist'.epoch[u] = 0
    <3>1. \A u \in Update : u >= hist.next => u # x
      BY <1>1, HistoryFields DEF Update
    <3>2. QED
      BY <1>3, <3>1 DEF WritersState
  <2>2. \A v \in Writer : w'[v].pc # "idle" =>
          /\ w'[v].u \in Update /\ w'[v].u < hist'.next /\ hist'.where[w'[v].u] = LogOf[v]
          /\ w'[v].pc = "apply" => hist'.epoch[w'[v].u] = 0
          /\ \A z \in Writer : w'[z].pc # "idle" /\ w'[z].u = w'[v].u => z = v
    BY <1>1, <1>2, <1>3 DEF WritersState
  <2>3. ASSUME NEW v \in Writer, Pending(v)'
        PROVE  /\ hist'.epoch[w'[v].u] = w'[v].epoch /\ w'[v].epoch <= e
               /\ w'[v].pc # "nap" => log'[LogOf[v]].holder = v
               /\ w'[v].pc = "nap" => v \in Range(log'[LogOf[v]].waiting)
    <3>1. CASE v = t
      BY <1>1, <1>2, <1>3, <1>4, <3>1
    <3>2. CASE v # t
      <4>1. Pending(v) /\ w'[v] = w[v] /\ w[v].u # x
        BY <1>1, <1>6, <2>3, <3>2 DEF Pending
      <4>2. w[v].u \in Update /\ LogOf[v] \in LogId
        BY <4>1 DEF WritersState, Pending
      <4>3. w[v].pc # "nap" => LogOf[v] # l
        BY <1>4, <4>1 DEF WritersState
      <4>4. QED
        BY <1>3, <1>4, <4>1, <4>2, <4>3 DEF WritersState
    <3>3. QED
      BY <3>1, <3>2
  <2>4. QED
    BY <1>a, <2>1, <2>2, <2>3 DEF WritersState
<1>9. QueueState'
  <2>1. \A m \in LogId : \A v \in Range(log[m].waiting) : v \in Writer \ {t} /\ w'[v] = w[v]
    BY <1>2, <1>7, Waiters
  <2>2. \A m \in LogId : \A i \in DOMAIN log[m].waiting : log[m].waiting[i] \in Range(log[m].waiting)
    BY DEF Range
  <2>3. \A v \in Range(log[l].waiting) : w[v].epoch <= e
    BY <1>1, <2>1 DEF QueueState, WritersState, Pending
  <2>4. QED
    BY <1>2, <1>4, <2>1, <2>2, <2>3 DEF QueueState
<1>10. LogsState'
  <2>1. log[l].pc # "turn"
    BY DEF ApplyPut, IsFree
  <2>2. QED
    BY <1>a, <1>4, <2>1 DEF LogsState
<1>11. NothingIsLost'
  <2>1. \A u \in Update \ {x} : hist'.epoch[u] # 0 => hist'.where[u] \in LogId
          /\ \/ \E v \in Writer : Pending(v) /\ w[v].u = u
             \/ u \in PutsOf(log[hist'.where[u]].buf) \cup PutsOf(log[hist'.where[u]].x_buf)
                      \cup PutsOf(disk[hist'.where[u]])
    BY <1>3 DEF NothingIsLost
  <2>2. \A v \in Writer : Pending(v) => Pending(v)' /\ w'[v].u = w[v].u
    BY <1>2 DEF Pending
  <2>3. Pending(t)'
    BY <1>2 DEF Pending
  <2>4. QED
    BY <1>a, <1>1, <1>2, <1>3, <1>4, <2>1, <2>2, <2>3 DEF NothingIsLost
<1>12. EpochsInTurn => EpochsInTurn'
  <2>1. SUFFICES ASSUME EpochsInTurn PROVE EpochsInTurn'
    OBVIOUS
  <2>2. \A m \in LogId : log[m].log_epoch <= e /\ ~(e < log[m].x_epoch) /\ ~(e < log[m].flushed_epoch)
    <3>1. ASSUME NEW m \in LogId
          PROVE  log[m].log_epoch <= e /\ ~(e < log[m].x_epoch) /\ ~(e < log[m].flushed_epoch)
      <4>1. log[m] \in LogInfo
        BY DEF TypeOK
      <4>2. log[m].log_epoch \in Nat /\ log[m].x_epoch \in Nat /\ log[m].flushed_epoch \in Nat
        BY <4>1, LogFields
      <4>3. QED
        BY <1>1, <4>2 DEF LogsState
    <3>2. QED
      BY <3>1
  <2>3. \A v \in Writer : Pending(v)' => w'[v].epoch >= log'[LogOf[v]].log_epoch
    BY <1>1, <1>2, <1>4, <1>6, <2>1, <2>2 DEF EpochsInTurn
  <2>4. \A u \in Update : hist'.epoch[u] # 0 => hist.where[u] \in LogId
    BY <1>3, <1>11 DEF NothingIsLost
  <2>5. QED
    BY <1>a, <1>1, <1>3, <1>4, <2>1, <2>2, <2>3, <2>4 DEF EpochsInTurn
<1>13. QED
  BY <1>a, <1>3, <1>5, <1>8, <1>9, <1>10, <1>11, <1>12

\* A thread with its update in hand moves on: what is left to show is who holds
\* the log and who waits for it.
LEMMA PendingMoves ==
  ASSUME NEW t \in Writer, FlushInv, Pending(t), NEW p \in {"finish", "record", "nap"},
         w' = [w EXCEPT ![t].pc = p], log' \in [LogId -> LogInfo],
         UNCHANGED <<global_log_epoch, global_wake_epoch, disk, rec, hist>>,
         \A m \in LogId :
           /\ log'[m].buf = log[m].buf /\ log'[m].x_buf = log[m].x_buf /\ log'[m].pc = log[m].pc
           /\ log'[m].log_epoch = log[m].log_epoch /\ log'[m].x_epoch = log[m].x_epoch
           /\ log'[m].flushed_epoch = log[m].flushed_epoch
           /\ log'[m].quiescent_epoch = log[m].quiescent_epoch
           /\ log[m].quiescent_epoch # 0 => log'[m].waiting = <<>>
           /\ log[m].pc = "turn" => log'[m].holder = Nobody,
         \A v \in Writer :
           /\ w'[v].pc \in {"finish", "record"} => log'[LogOf[v]].holder = v
           /\ w'[v].pc = "nap" => v \in Range(log'[LogOf[v]].waiting),
         QueueState'
  PROVE  FlushInv'
<1> USE DEF FlushInv
<1>1. w \in [Writer -> WriterInfo] /\ w[t] \in WriterInfo
  BY DEF TypeOK
<1>2. /\ w'[t].pc = p /\ w'[t].u = w[t].u /\ w'[t].epoch = w[t].epoch
      /\ \A v \in Writer \ {t} : w'[v] = w[v]
  BY <1>1 DEF WriterInfo
<1>3. \A v \in Writer : /\ Pending(v)' <=> Pending(v)
                        /\ w'[v].u = w[v].u /\ w'[v].epoch = w[v].epoch
                        /\ w'[v].pc # "idle" <=> w[v].pc # "idle"
                        /\ w'[v].pc = "apply" <=> w[v].pc = "apply"
  BY <1>2 DEF Pending
<1>4. TypeOK'
  <2>1. [w[t] EXCEPT !.pc = p] \in WriterInfo
    BY <1>1 DEF WriterInfo
  <2>2. w' \in [Writer -> WriterInfo]
    BY <1>1, <2>1
  <2>3. QED
    BY <2>2 DEF TypeOK
<1>5. WritersState'
  BY <1>3 DEF WritersState, Pending
<1>6. LogsState'
  BY DEF LogsState
<1>7. NothingIsLost'
  BY <1>3 DEF NothingIsLost
<1>8. EpochsInTurn => EpochsInTurn'
  <2>1. \A u \in Update : hist.epoch[u] # 0 => hist.where[u] \in LogId
    BY DEF NothingIsLost
  <2>2. QED
    BY <1>3, <2>1 DEF EpochsInTurn
<1>9. QED
  BY <1>4, <1>5, <1>6, <1>7, <1>8

LEMMA FinishPutFlush ==
  ASSUME NEW t \in Writer, FlushInv, FinishPut(t)
  PROVE  FlushInv'
<1>1. /\ w[t].pc = "finish" /\ w' = [w EXCEPT ![t].pc = "record"]
      /\ UNCHANGED <<global_log_epoch, global_wake_epoch, log, disk, rec, hist>>
  BY DEF FinishPut
<1>2. Pending(t)
  BY <1>1 DEF Pending
<1>3. TypeOK /\ WritersState /\ QueueState /\ LogsState
  BY DEF FlushInv
<1>4. /\ w'[t].pc = "record" /\ w'[t].epoch = w[t].epoch
      /\ \A v \in Writer \ {t} : w'[v] = w[v]
  BY <1>1, <1>3 DEF TypeOK, WriterInfo
<1>5. \A v \in Writer :
        /\ w'[v].pc \in {"finish", "record"} => log'[LogOf[v]].holder = v
        /\ w'[v].pc = "nap" => v \in Range(log'[LogOf[v]].waiting)
  BY <1>1, <1>3, <1>4 DEF WritersState, Pending
<1>6. QueueState'
  <2>1. \A l \in LogId : \A i \in DOMAIN log[l].waiting : log[l].waiting[i] \in Range(log[l].waiting)
    BY DEF Range
  <2>2. \A l \in LogId : Range(log[l].waiting) \subseteq Writer
    BY <1>3, Waiters
  <2>3. \A v \in Writer : w'[v].epoch = w[v].epoch
    BY <1>4
  <2>4. QED
    BY <1>1, <1>3, <1>4, <2>1, <2>2, <2>3 DEF QueueState
<1>7. \A m \in LogId : /\ log[m].quiescent_epoch # 0 => log'[m].waiting = <<>>
                       /\ log[m].pc = "turn" => log'[m].holder = Nobody
  BY <1>1, <1>3 DEF LogsState
<1>8. log' \in [LogId -> LogInfo]
  BY <1>1, <1>3 DEF TypeOK
<1>9. QED
  BY <1>1, <1>2, <1>5, <1>6, <1>7, <1>8, PendingMoves

LEMMA ReacquireFlush ==
  ASSUME NEW t \in Writer, FlushInv, Reacquire(t)
  PROVE  FlushInv'
<1> DEFINE l == LogOf[t]
<1>1. /\ w[t].pc = "nap" /\ w' = [w EXCEPT ![t].pc = "record"] /\ l \in LogId
      /\ log[l].holder = Nobody /\ log' = [log EXCEPT ![l] = [log[l] EXCEPT !.holder = t]]
      /\ log[l].pc # "turn" /\ UNCHANGED <<global_log_epoch, global_wake_epoch, disk, rec, hist>>
  BY DEF Reacquire, IsFree
<1>2. Pending(t)
  BY <1>1 DEF Pending
<1>3. TypeOK /\ WritersState /\ QueueState /\ LogsState
  BY DEF FlushInv
<1>4. /\ w'[t].pc = "record" /\ w'[t].epoch = w[t].epoch
      /\ \A v \in Writer \ {t} : w'[v] = w[v]
  BY <1>1, <1>3 DEF TypeOK, WriterInfo
<1>5. /\ log'[l].holder = t /\ log' \in [LogId -> LogInfo]
      /\ \A m \in LogId :
           /\ m # l => log'[m] = log[m]
           /\ log'[m].buf = log[m].buf /\ log'[m].x_buf = log[m].x_buf
           /\ log'[m].waiting = log[m].waiting /\ log'[m].pc = log[m].pc
           /\ log'[m].log_epoch = log[m].log_epoch /\ log'[m].x_epoch = log[m].x_epoch
           /\ log'[m].flushed_epoch = log[m].flushed_epoch
           /\ log'[m].quiescent_epoch = log[m].quiescent_epoch
  BY <1>1, <1>3, LogHolder
<1>6. t \in Range(log[l].waiting)
  BY <1>1, <1>2, <1>3 DEF WritersState
<1>7. ASSUME NEW v \in Writer
      PROVE  /\ w'[v].pc \in {"finish", "record"} => log'[LogOf[v]].holder = v
             /\ w'[v].pc = "nap" => v \in Range(log'[LogOf[v]].waiting)
  <2>1. CASE v = t
    BY <1>4, <1>5, <2>1
  <2>2. CASE v # t
    <3>1. w'[v] = w[v] /\ LogOf[v] \in LogId
      BY <1>4, <2>2
    <3>2. w[v].pc \in {"finish", "record"} => log[LogOf[v]].holder = v
      BY <1>3 DEF WritersState, Pending
    <3>3. w[v].pc \in {"finish", "record"} => LogOf[v] # l
      BY <1>1, <3>2
    <3>4. w[v].pc = "nap" => v \in Range(log[LogOf[v]].waiting)
      BY <1>3 DEF WritersState, Pending
    <3>5. QED
      BY <1>5, <3>1, <3>2, <3>3, <3>4
  <2>3. QED
    BY <2>1, <2>2
<1>8. QueueState'
  <2>1. \A m \in LogId : \A i \in DOMAIN log[m].waiting : log[m].waiting[i] \in Range(log[m].waiting)
    BY DEF Range
  <2>2. \A m \in LogId : Range(log[m].waiting) \subseteq Writer
    BY <1>3, Waiters
  <2>3. \A v \in Writer : w'[v].epoch = w[v].epoch
    BY <1>4
  <2>4. QED
    BY <1>3, <1>4, <1>5, <1>6, <2>1, <2>2, <2>3 DEF QueueState
<1>9. \A m \in LogId : /\ log[m].quiescent_epoch # 0 => log'[m].waiting = <<>>
                       /\ log[m].pc = "turn" => log'[m].holder = Nobody
  BY <1>1, <1>3, <1>5 DEF LogsState
<1>10. QED
  BY <1>1, <1>2, <1>5, <1>7, <1>8, <1>9, PendingMoves


\* Who comes last in a queue comes behind all others.
LEMMA QueueAppend ==
  ASSUME NEW q \in Seq(Writer), NEW t \in Writer, t \notin Range(q)
  PROVE  /\ Append(q, t) \in Seq(Writer) /\ Range(Append(q, t)) = Range(q) \cup {t}
         /\ \A i, j \in DOMAIN Append(q, t) : i < j =>
              /\ i \in DOMAIN q /\ Append(q, t)[i] = q[i]
              /\ \/ j \in DOMAIN q /\ Append(q, t)[j] = q[j]
                 \/ Append(q, t)[j] = t
<1>1. Append(q, t) \in Seq(Writer) /\ Len(Append(q, t)) = Len(q) + 1
      /\ DOMAIN Append(q, t) = 1..(Len(q) + 1) /\ DOMAIN q = 1..Len(q)
  OBVIOUS
<1>2. \A i \in 1..Len(q) : Append(q, t)[i] = q[i]
  OBVIOUS
<1>3. Append(q, t)[Len(q) + 1] = t
  OBVIOUS
<1>4. \A i \in 1..(Len(q) + 1) : i \in 1..Len(q) \/ i = Len(q) + 1
  OBVIOUS
<1>5. Range(Append(q, t)) = Range(q) \cup {t}
  <2>1. \A i \in 1..Len(q) : i \in 1..(Len(q) + 1)
    OBVIOUS
  <2>2. Len(q) + 1 \in 1..(Len(q) + 1)
    OBVIOUS
  <2>3. QED
    BY <1>1, <1>2, <1>3, <1>4, <2>1, <2>2 DEF Range
<1>6. \A i, j \in 1..(Len(q) + 1) : i < j => i \in 1..Len(q)
  OBVIOUS
<1>7. QED
  BY <1>1, <1>2, <1>3, <1>4, <1>5, <1>6

\* The thread that waits for room lets the log go.
LEMMA StallFlush ==
  ASSUME NEW t \in Writer, FlushInv, Stall(t)
  PROVE  FlushInv'
<1> DEFINE l == LogOf[t]
<1>1. TypeOK /\ WritersState /\ QueueState /\ LogsState /\ l \in LogId
  BY DEF FlushInv
<1>2. /\ w[t].pc = "record" /\ w' = [w EXCEPT ![t].pc = "nap"] /\ ~HasRoom(t)
      /\ UNCHANGED <<global_log_epoch, global_wake_epoch, disk, rec, hist>>
  BY DEF Stall
<1>3. PICK g : g = log[l] /\ g \in LogInfo
  BY <1>1 DEF TypeOK
<1>4. PICK q : q = IF t \in Range(g.waiting) THEN g.waiting ELSE Append(g.waiting, t)
  OBVIOUS
<1>5. PICK f : f = [g EXCEPT !.holder = Nobody, !.waiting = q]
  OBVIOUS
<1>6. log' = [log EXCEPT ![l] = f]
  BY <1>1, <1>3, <1>4, <1>5 DEF Stall, TypeOK
<1>7. /\ q \in Seq(Writer) /\ Range(q) = Range(g.waiting) \cup {t}
      /\ \A i, j \in DOMAIN q : i < j =>
           \/ i \in DOMAIN g.waiting /\ j \in DOMAIN g.waiting
              /\ q[i] = g.waiting[i] /\ q[j] = g.waiting[j]
           \/ q[i] \in Range(g.waiting) /\ q[j] = t /\ t \notin Range(g.waiting)
  <2>1. g.waiting \in Seq(Writer)
    BY <1>3, LogFields
  <2>2. CASE t \in Range(g.waiting)
    BY <1>4, <2>1, <2>2
  <2>3. CASE t \notin Range(g.waiting)
    <3>1. \A i \in DOMAIN g.waiting : g.waiting[i] \in Range(g.waiting)
      BY DEF Range
    <3>2. q = Append(g.waiting, t)
      BY <1>4, <2>3
    <3>3. QED
      BY <2>1, <2>3, <3>1, <3>2, QueueAppend
  <2>4. QED
    BY <2>2, <2>3
<1>8. /\ f \in LogInfo /\ f.waiting = q /\ f.holder = Nobody
      /\ f.buf = g.buf /\ f.x_buf = g.x_buf /\ f.pc = g.pc
      /\ f.log_epoch = g.log_epoch /\ f.x_epoch = g.x_epoch
      /\ f.flushed_epoch = g.flushed_epoch /\ f.quiescent_epoch = g.quiescent_epoch
  BY <1>3, <1>5, <1>7 DEF LogInfo
<1>9. log'[l] = f /\ log' \in [LogId -> LogInfo] /\ \A m \in LogId : m # l => log'[m] = log[m]
  <2>1. log \in [LogId -> LogInfo]
    BY <1>1 DEF TypeOK
  <2>2. QED
    BY <1>1, <1>6, <1>8, <2>1, OneLogMoves
<1>10. g.quiescent_epoch = 0
  <2>1. SUFFICES ASSUME g.quiescent_epoch # 0 PROVE FALSE
    OBVIOUS
  <2>2. g.buf = <<>> /\ g.waiting = <<>>
    BY <1>1, <1>3, <2>1 DEF LogsState
  <2>3. Len(g.buf) = 0 /\ t \notin Range(g.waiting)
    BY <2>2 DEF Range
  <2>4. HasRoom(t)
    BY <1>3, <2>3 DEF HasRoom
  <2>5. QED
    BY <1>2, <2>4
<1>11. Pending(t) /\ log[l].holder = t
  <2>1. Pending(t)
    BY <1>2 DEF Pending
  <2>2. QED
    BY <1>1, <1>2, <2>1 DEF WritersState
<1>12. /\ w'[t].pc = "nap" /\ w'[t].epoch = w[t].epoch
       /\ \A v \in Writer \ {t} : w'[v] = w[v]
  BY <1>1, <1>2 DEF TypeOK, WriterInfo
<1>13. \A v \in Writer : w'[v].pc \in {"finish", "record"} =>
         v # t /\ LogOf[v] # l /\ log[LogOf[v]].holder = v /\ w'[v] = w[v]
  BY <1>1, <1>11, <1>12 DEF WritersState, Pending
<1>14. ASSUME NEW v \in Writer
       PROVE  /\ w'[v].pc \in {"finish", "record"} => log'[LogOf[v]].holder = v
              /\ w'[v].pc = "nap" => v \in Range(log'[LogOf[v]].waiting)
  <2>1. CASE v = t
    BY <1>7, <1>8, <1>9, <1>12, <2>1
  <2>2. CASE v # t
    <3>1. w'[v] = w[v] /\ LogOf[v] \in LogId
      BY <1>12, <2>2
    <3>2. w[v].pc = "nap" => v \in Range(log[LogOf[v]].waiting)
      BY <1>1 DEF WritersState, Pending
    <3>3. QED
      BY <1>3, <1>7, <1>8, <1>9, <1>13, <3>1, <3>2
  <2>3. QED
    BY <2>1, <2>2
<1>15. QueueState'
  <2>1. \A m \in LogId : Range(log[m].waiting) \subseteq Writer
    BY <1>1, Waiters
  <2>2. \A v \in Writer : w'[v].epoch = w[v].epoch
    BY <1>12
  <2>3. ASSUME NEW m \in LogId, NEW v \in Range(log'[m].waiting)
        PROVE  LogOf[v] = m /\ w'[v].pc \in {"nap", "record"}
    <3>1. CASE m = l /\ v = t
      BY <1>12, <3>1
    <3>2. CASE ~(m = l /\ v = t)
      <4>1. v \in Range(log[m].waiting)
        BY <1>3, <1>7, <1>8, <1>9, <3>2
      <4>2. QED
        BY <1>1, <1>12, <2>1, <4>1 DEF QueueState
    <3>3. QED
      BY <3>1, <3>2
  <2>4. ASSUME NEW m \in LogId, NEW i \in DOMAIN log'[m].waiting,
               NEW j \in DOMAIN log'[m].waiting, i < j
        PROVE  /\ log'[m].waiting[i] # log'[m].waiting[j]
               /\ w'[log'[m].waiting[i]].epoch <= w'[log'[m].waiting[j]].epoch
    <3>1. \A k \in DOMAIN log[m].waiting : log[m].waiting[k] \in Writer
      BY <1>1 DEF TypeOK, LogInfo
    <3>2. CASE m # l
      BY <1>1, <1>9, <2>2, <2>4, <3>1, <3>2 DEF QueueState
    <3>3. CASE m = l
      <4>1. log'[m].waiting = q /\ log[m].waiting = g.waiting
        BY <1>3, <1>8, <1>9, <3>3
      <4>2. CASE /\ i \in DOMAIN g.waiting /\ j \in DOMAIN g.waiting
                 /\ q[i] = g.waiting[i] /\ q[j] = g.waiting[j]
        BY <1>1, <2>2, <2>4, <3>1, <4>1, <4>2 DEF QueueState
      <4>3. CASE q[i] \in Range(g.waiting) /\ q[j] = t /\ t \notin Range(g.waiting)
        <5>1. w[q[i]].epoch <= w[t].epoch
          BY <1>1, <1>2, <1>3, <4>3 DEF QueueState
        <5>2. q[i] \in Writer
          BY <1>3, <2>1, <4>3, <1>1
        <5>3. QED
          BY <2>2, <4>1, <4>3, <5>1, <5>2
      <4>4. QED
        BY <1>7, <2>4, <4>1, <4>2, <4>3
    <3>4. QED
      BY <3>2, <3>3
  <2>5. ASSUME NEW v \in Writer, w'[v].pc \in {"finish", "record"},
               v \notin Range(log'[LogOf[v]].waiting), NEW z \in Range(log'[LogOf[v]].waiting)
        PROVE  w'[z].epoch <= w'[v].epoch
    <3>1. LogOf[v] \in LogId /\ log'[LogOf[v]] = log[LogOf[v]] /\ w'[v] = w[v]
      BY <1>9, <1>13, <2>5
    <3>2. w[z].epoch <= w[v].epoch /\ z \in Writer
      BY <1>1, <2>1, <2>5, <3>1 DEF QueueState
    <3>3. QED
      BY <2>2, <3>2
  <2>6. QED
    BY <2>3, <2>4, <2>5 DEF QueueState
<1>16. \A m \in LogId :
         /\ log'[m].buf = log[m].buf /\ log'[m].x_buf = log[m].x_buf /\ log'[m].pc = log[m].pc
         /\ log'[m].log_epoch = log[m].log_epoch /\ log'[m].x_epoch = log[m].x_epoch
         /\ log'[m].flushed_epoch = log[m].flushed_epoch
         /\ log'[m].quiescent_epoch = log[m].quiescent_epoch
         /\ log[m].quiescent_epoch # 0 => log'[m].waiting = <<>>
         /\ log[m].pc = "turn" => log'[m].holder = Nobody
  BY <1>1, <1>3, <1>8, <1>9, <1>10 DEF LogsState
<1>17. QED
  BY <1>2, <1>9, <1>11, <1>14, <1>15, <1>16, PendingMoves


\* What the thread of a log does: the server threads are where they were, and
\* what is left to show is about the one log and its file.
LEMMA LogThread ==
  ASSUME FlushInv, NEW l \in LogId, NEW f \in LogInfo, log' = [log EXCEPT ![l] = f],
         disk' \in [LogId -> Seq(LogRecord)], \A m \in LogId : m # l => disk'[m] = disk[m],
         UNCHANGED <<global_wake_epoch, w, rec, hist>>,
         global_log_epoch' \in {global_log_epoch, global_log_epoch + 1},
         f.holder = log[l].holder, f.waiting = log[l].waiting,
         PutsOf(log[l].buf) \cup PutsOf(log[l].x_buf) \cup PutsOf(disk[l])
           \subseteq PutsOf(f.buf) \cup PutsOf(f.x_buf) \cup PutsOf(disk'[l]),
         f.log_epoch <= global_log_epoch, f.x_epoch <= global_log_epoch,
         f.flushed_epoch <= global_log_epoch,
         f.pc # "write" => f.x_buf = <<>>,
         f.pc = "turn" => f.holder = Nobody,
         f.quiescent_epoch # 0 => f.buf = <<>> /\ f.waiting = <<>> /\ PutsOf(f.x_buf) = {},
         EpochsInTurn =>
           /\ \A t \in Writer : Pending(t) /\ LogOf[t] = l => w[t].epoch >= f.log_epoch
           /\ \A u \in Update : hist.epoch[u] # 0 /\ hist.where[u] = l =>
                /\ f.pc = "write" /\ hist.epoch[u] < f.x_epoch =>
                     u \in PutsOf(f.x_buf) \cup PutsOf(disk'[l])
                /\ hist.epoch[u] < f.flushed_epoch => u \in PutsOf(disk'[l])
  PROVE  FlushInv'
<1>1. /\ TypeOK /\ WritersState /\ QueueState /\ LogsState /\ NothingIsLost
      /\ ~hist.overtaken => EpochsInTurn
  BY DEF FlushInv
<1>2. log'[l] = f /\ log' \in [LogId -> LogInfo] /\ \A m \in LogId : m # l => log'[m] = log[m]
  <2>1. log \in [LogId -> LogInfo]
    BY <1>1 DEF TypeOK
  <2>2. QED
    BY <2>1, OneLogMoves
<1>3. \A m \in LogId : log'[m].holder = log[m].holder /\ log'[m].waiting = log[m].waiting
  BY <1>2
<1>4. \A n \in Nat : n <= global_log_epoch => n <= global_log_epoch'
  BY <1>1 DEF TypeOK
<1>5. TypeOK'
  BY <1>1, <1>2 DEF TypeOK
<1>6. WritersState'
  <2>1. \A t \in Writer : w[t].epoch \in Nat
    BY <1>1 DEF TypeOK, WriterInfo
  <2>2. QED
    BY <1>1, <1>3, <1>4, <2>1 DEF WritersState, Pending
<1>7. QueueState'
  <2>1. w' = w /\ QueueState
    BY <1>1
  <2>2. QED
    BY ONLY <1>3, <2>1, Constants DEF QueueState
<1>8. LogsState'
  <2>1. ASSUME NEW m \in LogId
        PROVE  /\ log'[m].log_epoch <= global_log_epoch'
               /\ log'[m].x_epoch <= global_log_epoch'
               /\ log'[m].flushed_epoch <= global_log_epoch'
    <3>1. log'[m] \in LogInfo
      BY <1>2
    <3>2. log'[m].log_epoch \in Nat /\ log'[m].x_epoch \in Nat /\ log'[m].flushed_epoch \in Nat
      BY <3>1, LogFields
    <3>3. QED
      BY <1>1, <1>2, <1>4, <3>2 DEF LogsState
  <2>2. ASSUME NEW m \in LogId
        PROVE  /\ log'[m].pc # "write" => log'[m].x_buf = <<>>
               /\ log'[m].pc = "turn" => log'[m].holder = Nobody
               /\ log'[m].quiescent_epoch # 0 =>
                    log'[m].buf = <<>> /\ log'[m].waiting = <<>> /\ PutsOf(log'[m].x_buf) = {}
    <3>1. CASE m = l
      BY <1>2, <3>1
    <3>2. CASE m # l
      <4>1. log'[m] = log[m] /\ LogsState
        BY <1>1, <1>2, <3>2
      <4>2. QED
        BY ONLY <4>1 DEF LogsState
    <3>3. QED
      BY <3>1, <3>2
  <2>3. QED
    BY <2>1, <2>2 DEF LogsState
<1>9. NothingIsLost'
  BY <1>1, <1>2 DEF NothingIsLost, Pending
<1>10. EpochsInTurn => EpochsInTurn'
  <2>1. \A u \in Update : hist.epoch[u] # 0 => hist.where[u] \in LogId
    BY <1>1 DEF NothingIsLost
  <2>2. QED
    BY <1>2, <2>1 DEF EpochsInTurn, Pending
<1>11. QED
  BY <1>1, <1>5, <1>6, <1>7, <1>8, <1>9, <1>10 DEF FlushInv

\* What is written is on disk, and only then the flushed epoch is raised.
LEMMA FlushFlush ==
  ASSUME NEW l \in LogId, FlushInv, Flush(l)
  PROVE  FlushInv'
<1>1. TypeOK /\ LogsState
  BY DEF FlushInv
<1>2. PICK g : g = log[l] /\ g \in LogInfo
  BY <1>1 DEF TypeOK
<1>3. PICK f : f = [g EXCEPT !.pc = AfterTurn(l), !.x_buf = <<>>, !.x_epoch = 0,
                             !.flushed_epoch = g.x_epoch]
  OBVIOUS
<1>4. /\ g.pc = "write" /\ log' = [log EXCEPT ![l] = f]
      /\ disk' = [disk EXCEPT ![l] = disk[l] \o g.x_buf]
      /\ UNCHANGED <<global_log_epoch, global_wake_epoch, w, rec, hist>>
  BY <1>1, <1>2, <1>3 DEF Flush, TypeOK
<1>5. disk[l] \in Seq(LogRecord) /\ g.x_buf \in Seq(LogRecord) /\ disk \in [LogId -> Seq(LogRecord)]
  BY <1>1, <1>2, LogFields DEF TypeOK
<1>6. /\ disk' \in [LogId -> Seq(LogRecord)] /\ \A m \in LogId : m # l => disk'[m] = disk[m]
      /\ PutsOf(disk'[l]) = PutsOf(disk[l]) \cup PutsOf(g.x_buf)
  BY <1>4, <1>5, PutsOfAppend
<1>7. AfterTurn(l) \in {"loop", "check"}
  BY DEF AfterTurn
<1>8. /\ f.holder = g.holder /\ f.waiting = g.waiting /\ f.buf = g.buf /\ f.x_buf = <<>>
      /\ f.log_epoch = g.log_epoch /\ f.x_epoch = 0 /\ f.flushed_epoch = g.x_epoch
      /\ f.pc \in {"loop", "check"} /\ f.quiescent_epoch = g.quiescent_epoch /\ f \in LogInfo
  <2>1. <<>> \in Seq(LogRecord) /\ g.x_epoch \in Nat
    BY <1>2, LogFields
  <2>2. QED
    BY ONLY <1>2, <1>3, <1>7, <2>1 DEF LogInfo
<1>9. PutsOf(f.x_buf) = {}
  BY <1>8, PutsOfMarks
<1>10. /\ f.log_epoch <= global_log_epoch /\ f.x_epoch <= global_log_epoch
       /\ f.flushed_epoch <= global_log_epoch
       /\ f.quiescent_epoch # 0 => f.buf = <<>> /\ f.waiting = <<>>
  BY <1>1, <1>2, <1>8 DEF LogsState, TypeOK
<1>11. EpochsInTurn =>
         /\ \A t \in Writer : Pending(t) /\ LogOf[t] = l => w[t].epoch >= f.log_epoch
         /\ \A u \in Update : hist.epoch[u] # 0 /\ hist.where[u] = l
              /\ hist.epoch[u] < f.flushed_epoch => u \in PutsOf(disk'[l])
  <2>1. SUFFICES ASSUME EpochsInTurn
        PROVE  /\ \A t \in Writer : Pending(t) /\ LogOf[t] = l => w[t].epoch >= f.log_epoch
               /\ \A u \in Update : hist.epoch[u] # 0 /\ hist.where[u] = l
                    /\ hist.epoch[u] < f.flushed_epoch => u \in PutsOf(disk'[l])
    OBVIOUS
  <2>2. \A t \in Writer : Pending(t) /\ LogOf[t] = l => w[t].epoch >= f.log_epoch
    BY <1>2, <1>8, <2>1 DEF EpochsInTurn
  <2>3. \A u \in Update : hist.epoch[u] # 0 /\ hist.where[u] = l
          /\ hist.epoch[u] < g.x_epoch => u \in PutsOf(g.x_buf) \cup PutsOf(disk[l])
    BY <1>2, <1>4, <2>1 DEF EpochsInTurn
  <2>4. QED
    BY <1>6, <1>8, <2>2, <2>3
<1>12. QED
  BY <1>2, <1>4, <1>6, <1>8, <1>9, <1>10, <1>11, LogThread

\* The clock goes on.
LEMMA CheckEpochFlush ==
  ASSUME NEW l \in LogId, FlushInv, CheckEpoch(l)
  PROVE  FlushInv'
<1>1. TypeOK /\ LogsState
  BY DEF FlushInv
<1>2. PICK g : g = log[l] /\ g \in LogInfo
  BY <1>1 DEF TypeOK
<1>3. PICK f : f = [g EXCEPT !.pc = "loop"]
  OBVIOUS
<1>4. /\ g.pc = "check" /\ log' = [log EXCEPT ![l] = f]
      /\ global_log_epoch' \in {global_log_epoch, global_log_epoch + 1}
      /\ UNCHANGED <<global_wake_epoch, disk, w, rec, hist>>
  BY <1>1, <1>2, <1>3 DEF CheckEpoch, TypeOK
<1>5. /\ f.holder = g.holder /\ f.waiting = g.waiting /\ f.buf = g.buf /\ f.x_buf = g.x_buf
      /\ f.log_epoch = g.log_epoch /\ f.x_epoch = g.x_epoch /\ f.flushed_epoch = g.flushed_epoch
      /\ f.pc = "loop" /\ f.quiescent_epoch = g.quiescent_epoch /\ f \in LogInfo
  BY <1>2, <1>3 DEF LogInfo
<1>6. /\ f.log_epoch <= global_log_epoch /\ f.x_epoch <= global_log_epoch
      /\ f.flushed_epoch <= global_log_epoch /\ f.x_buf = <<>>
      /\ f.quiescent_epoch # 0 => f.buf = <<>> /\ f.waiting = <<>> /\ PutsOf(f.x_buf) = {}
  BY <1>1, <1>2, <1>4, <1>5 DEF LogsState
<1>7. EpochsInTurn =>
        /\ \A t \in Writer : Pending(t) /\ LogOf[t] = l => w[t].epoch >= f.log_epoch
        /\ \A u \in Update : hist.epoch[u] # 0 /\ hist.where[u] = l
             /\ hist.epoch[u] < f.flushed_epoch => u \in PutsOf(disk'[l])
  BY <1>2, <1>4, <1>5 DEF EpochsInTurn
<1>8. disk' \in [LogId -> Seq(LogRecord)]
  BY <1>1, <1>4 DEF TypeOK
<1>9. QED
  BY <1>2, <1>4, <1>5, <1>6, <1>7, <1>8, LogThread


\* What a turn makes of a log before it swaps the buffer: it adds no update, and
\* the epoch goes on only when nothing is in the buffer and nobody waits.
Idles(a, g, ge, we) ==
  \/ GoesQuiescent(a, ge, we) /\ g = GoQuiescent(a, ge)
  \/ g = a
Idled(o, g, ge) ==
  /\ g \in LogInfo /\ g.holder = o.holder /\ g.waiting = o.waiting /\ g.pc = o.pc
  /\ g.x_buf = o.x_buf /\ g.x_epoch = o.x_epoch /\ g.flushed_epoch = o.flushed_epoch
  /\ \/ /\ g.buf = o.buf /\ g.log_epoch = o.log_epoch
        /\ g.quiescent_epoch \in {0, o.quiescent_epoch}
     \/ /\ o.buf = <<>> /\ o.waiting = <<>> /\ g.log_epoch = ge
        /\ g.buf # <<>> /\ PutsOf(g.buf) = {}

\* loginfo::run before the swap (log.cc:250-262).
LEMMA Idling ==
  ASSUME NEW o \in LogInfo, NEW ge \in Nat, NEW we \in Nat, NEW a, a = Adopt(o, we),
         NEW g, Idles(a, g, ge, we)
  PROVE  Idled(o, g, ge)
<1>1. /\ a \in LogInfo /\ a.holder = o.holder /\ a.waiting = o.waiting /\ a.pc = o.pc
      /\ a.x_buf = o.x_buf /\ a.x_epoch = o.x_epoch /\ a.flushed_epoch = o.flushed_epoch
      /\ a.buf = o.buf /\ a.log_epoch = o.log_epoch
      /\ a.quiescent_epoch \in {0, o.quiescent_epoch}
  BY DEF Adopt, LogInfo
<1>2. CASE g = a
  BY <1>1, <1>2 DEF Idled
<1>3. CASE GoesQuiescent(a, ge, we) /\ g = GoQuiescent(a, ge)
  <2>1. a.buf = <<>> /\ a.waiting = <<>>
    BY <1>3 DEF GoesQuiescent
  <2>2. PICK mid : mid = IF ge = a.wake_epoch THEN <<Wake>> ELSE <<>>
    OBVIOUS
  <2>3. mid \in Seq(LogRecord) /\ PutsOf(mid) = {}
    <3>1. <<>> \in Seq(LogRecord)
      OBVIOUS
    <3>2. QED
      BY <2>2, <3>1, PutsOfMarks
  <2>4. PICK b : b = <<Epoch(ge)>> \o mid \o <<Quiesce>>
    OBVIOUS
  <2>5. b \in Seq(LogRecord) /\ PutsOf(b) = {}
    <3>1. <<Epoch(ge)>> \in Seq(LogRecord) /\ PutsOf(<<Epoch(ge)>>) = {}
      BY PutsOfMarks
    <3>2. <<Epoch(ge)>> \o mid \in Seq(LogRecord) /\ PutsOf(<<Epoch(ge)>> \o mid) = {}
      BY ONLY <2>3, <3>1, PutsOfAppend
    <3>3. <<Quiesce>> \in Seq(LogRecord) /\ PutsOf(<<Quiesce>>) = {}
      BY PutsOfMarks
    <3>4. QED
      BY ONLY <2>4, <3>2, <3>3, PutsOfAppend
  <2>6. b # <<>>
    <3>1. Len(b) = 1 + Len(mid) + 1 /\ Len(mid) \in Nat
      BY <2>3, <2>4
    <3>2. QED
      BY <3>1
  <2>0. PICK c \in BOOLEAN : c = (a.adopted /\ ge < a.wake_epoch)
    OBVIOUS
  <2>7. g = [a EXCEPT !.quiescent_epoch = ge, !.log_epoch = ge, !.adopted = c, !.buf = b]
    BY <1>3, <2>0, <2>2, <2>4 DEF GoQuiescent
  <2>8. /\ g \in LogInfo /\ g.holder = a.holder /\ g.waiting = a.waiting /\ g.pc = a.pc
        /\ g.x_buf = a.x_buf /\ g.x_epoch = a.x_epoch /\ g.flushed_epoch = a.flushed_epoch
        /\ g.log_epoch = ge /\ g.buf = b
    BY ONLY <1>1, <2>0, <2>5, <2>7, ge \in Nat DEF LogInfo
  <2>9. QED
    BY <1>1, <2>1, <2>5, <2>6, <2>8 DEF Idled
<1>4. QED
  BY <1>2, <1>3 DEF Idles

\* The log's thread has the lock, and has read the clock.
LEMMA TurnFlush ==
  ASSUME NEW l \in LogId, FlushInv, Turn(l)
  PROVE  FlushInv'
<1>1. TypeOK /\ LogsState /\ global_log_epoch \in Nat
  BY DEF FlushInv, TypeOK
<1>2. PICK g : g = log[l] /\ g \in LogInfo
  BY <1>1 DEF TypeOK
<1>3. PICK f : f = [g EXCEPT !.pc = "turn", !.x_epoch = global_log_epoch]
  OBVIOUS
<1>4. /\ g.pc = "loop" /\ g.holder = Nobody /\ log' = [log EXCEPT ![l] = f]
      /\ UNCHANGED <<global_log_epoch, global_wake_epoch, disk, w, rec, hist>>
  BY <1>1, <1>2, <1>3 DEF Turn, IsFree, TypeOK
<1>5. /\ f.holder = g.holder /\ f.waiting = g.waiting /\ f.buf = g.buf /\ f.x_buf = g.x_buf
      /\ f.log_epoch = g.log_epoch /\ f.x_epoch = global_log_epoch
      /\ f.flushed_epoch = g.flushed_epoch
      /\ f.pc = "turn" /\ f.quiescent_epoch = g.quiescent_epoch /\ f \in LogInfo
  BY <1>1, <1>2, <1>3 DEF LogInfo
<1>6. /\ f.log_epoch <= global_log_epoch /\ f.x_epoch <= global_log_epoch
      /\ f.flushed_epoch <= global_log_epoch /\ f.x_buf = <<>> /\ f.holder = Nobody
      /\ f.quiescent_epoch # 0 => f.buf = <<>> /\ f.waiting = <<>> /\ PutsOf(f.x_buf) = {}
  BY <1>1, <1>2, <1>4, <1>5 DEF LogsState
<1>7. EpochsInTurn =>
        /\ \A t \in Writer : Pending(t) /\ LogOf[t] = l => w[t].epoch >= f.log_epoch
        /\ \A u \in Update : hist.epoch[u] # 0 /\ hist.where[u] = l
             /\ hist.epoch[u] < f.flushed_epoch => u \in PutsOf(disk'[l])
  BY <1>2, <1>4, <1>5 DEF EpochsInTurn
<1>8. disk' \in [LogId -> Seq(LogRecord)]
  BY <1>1, <1>4 DEF TypeOK
<1>9. QED
  BY <1>2, <1>4, <1>5, <1>6, <1>7, <1>8, LogThread

\* The buffer is swapped out under the log's lock: nobody but a thread that
\* waits for room has an update in hand.
LEMMA SwapFlush ==
  ASSUME NEW l \in LogId, FlushInv, Swap(l)
  PROVE  FlushInv'
<1> DEFINE we == global_wake_epoch
<1>0. PICK ge : ge = log[l].x_epoch
  OBVIOUS
<1>1. /\ TypeOK /\ LogsState /\ WritersState /\ NothingIsLost
      /\ log \in [LogId -> LogInfo] /\ ge \in Nat /\ we \in Nat
      /\ ge <= global_log_epoch /\ global_log_epoch \in Nat
  <2>1. log[l] \in LogInfo
    BY DEF FlushInv, TypeOK
  <2>2. QED
    BY <1>0, <2>1, LogFields DEF FlushInv, TypeOK, LogsState
<1>2. PICK o : o = log[l] /\ o \in LogInfo
  BY <1>1
<1>3. PICK a : a = Adopt(o, we)
  OBVIOUS
<1>4. PICK g : g = IF GoesQuiescent(a, ge, we) THEN GoQuiescent(a, ge) ELSE a
  OBVIOUS
<1>5. PICK f : f = IF g.buf # <<>>
                   THEN [g EXCEPT !.pc = "write", !.x_buf = g.buf, !.buf = <<>>,
                                  !.x_epoch = g.log_epoch]
                   ELSE [g EXCEPT !.pc = AfterTurn(l), !.x_epoch = 0]
  OBVIOUS
<1>6. /\ o.pc = "turn" /\ o.holder = Nobody /\ log' = [log EXCEPT ![l] = f]
      /\ UNCHANGED <<global_log_epoch, global_wake_epoch, disk, w, rec, hist>>
  BY <1>0, <1>1, <1>2, <1>3, <1>4, <1>5 DEF Swap, LogsState
<1>7. /\ g \in LogInfo /\ g.holder = o.holder /\ g.waiting = o.waiting
      /\ g.x_buf = o.x_buf /\ g.x_epoch = o.x_epoch /\ g.flushed_epoch = o.flushed_epoch
      /\ \/ /\ g.buf = o.buf /\ g.log_epoch = o.log_epoch
            /\ g.quiescent_epoch \in {0, o.quiescent_epoch}
         \/ /\ o.buf = <<>> /\ o.waiting = <<>> /\ g.log_epoch = ge
            /\ g.buf # <<>> /\ PutsOf(g.buf) = {}
  <2>1. Idles(a, g, ge, we)
    BY <1>4 DEF Idles
  <2>2. ge \in Nat /\ we \in Nat
    BY <1>1
  <2>3. Idled(o, g, ge)
    BY ONLY <1>2, <1>3, <2>1, <2>2, Idling
  <2>4. QED
    BY <2>3 DEF Idled
<1>8. /\ o.x_buf = <<>> /\ o.log_epoch <= global_log_epoch /\ o.flushed_epoch <= global_log_epoch
      /\ o.quiescent_epoch # 0 => o.buf = <<>> /\ o.waiting = <<>>
  BY <1>1, <1>2, <1>6 DEF LogsState
<1>9. PutsOf(o.buf) \subseteq PutsOf(g.buf) /\ PutsOf(o.x_buf) = {} /\ g.log_epoch <= global_log_epoch
  <2>1. ge <= global_log_epoch
    BY <1>1
  <2>2. PutsOf(<<>>) = {}
    BY PutsOfMarks
  <2>3. QED
    BY <1>7, <1>8, <2>1, <2>2
<1>10. ASSUME NEW t \in Writer, Pending(t), LogOf[t] = l
       PROVE  w[t].pc = "nap" /\ o.waiting # <<>>
  <2>1. w[t].pc = "nap"
    BY <1>1, <1>2, <1>6, <1>10 DEF WritersState, Pending
  <2>2. t \in Range(o.waiting)
    BY <1>1, <1>2, <1>10, <2>1 DEF WritersState
  <2>3. QED
    BY <2>1, <2>2 DEF Range
<1>11. ASSUME EpochsInTurn, NEW t \in Writer, Pending(t), LogOf[t] = l
       PROVE  w[t].epoch >= g.log_epoch
  <2>1. o.waiting # <<>>
    BY <1>10, <1>11
  <2>2. g.log_epoch = o.log_epoch
    BY <1>7, <2>1
  <2>3. QED
    BY <1>2, <1>11, <2>2 DEF EpochsInTurn
<1>12. ASSUME EpochsInTurn, NEW u \in Update, hist.epoch[u] # 0, hist.where[u] = l
       PROVE  /\ hist.epoch[u] < g.log_epoch => u \in PutsOf(g.buf) \cup PutsOf(disk[l])
              /\ hist.epoch[u] < g.flushed_epoch => u \in PutsOf(disk[l])
  <2>1. ASSUME NEW t \in Writer, Pending(t), w[t].u = u
        PROVE  ~(hist.epoch[u] < g.log_epoch)
    <3>1. hist.where[w[t].u] = LogOf[t] /\ hist.epoch[w[t].u] = w[t].epoch
      BY <1>1, <2>1 DEF WritersState, Pending
    <3>2. w[t].epoch >= g.log_epoch
      BY <1>11, <1>12, <2>1, <3>1
    <3>3. w[t].epoch \in Nat /\ g.log_epoch \in Nat
      <4>1. w[t] \in WriterInfo
        BY <1>1 DEF TypeOK
      <4>2. QED
        BY <1>7, <4>1, LogFields DEF WriterInfo
    <3>4. QED
      BY <2>1, <3>1, <3>2, <3>3
  <2>2. (\E t \in Writer : Pending(t) /\ w[t].u = u)
        \/ u \in PutsOf(o.buf) \cup PutsOf(o.x_buf) \cup PutsOf(disk[l])
    BY <1>1, <1>2, <1>12 DEF NothingIsLost
  <2>3. hist.epoch[u] < o.flushed_epoch => u \in PutsOf(disk[l])
    BY <1>2, <1>12 DEF EpochsInTurn
  <2>4. QED
    BY <1>7, <1>9, <2>1, <2>2, <2>3
<1>13. disk' \in [LogId -> Seq(LogRecord)] /\ PutsOf(<<>>) = {} /\ <<>> \in Seq(LogRecord)
       /\ AfterTurn(l) \in {"loop", "check"}
  BY <1>1, <1>6, PutsOfMarks DEF TypeOK, AfterTurn
<1>14. CASE g.buf # <<>>
  <2>1. f = [g EXCEPT !.pc = "write", !.x_buf = g.buf, !.buf = <<>>, !.x_epoch = g.log_epoch]
    BY <1>5, <1>14
  <2>2. g.buf \in Seq(LogRecord) /\ g.log_epoch \in Nat
    BY <1>7, LogFields
  <2>3. /\ f \in LogInfo /\ f.holder = g.holder /\ f.waiting = g.waiting /\ f.pc = "write"
        /\ f.buf = <<>> /\ f.x_buf = g.buf /\ f.x_epoch = g.log_epoch
        /\ f.log_epoch = g.log_epoch /\ f.flushed_epoch = g.flushed_epoch
        /\ f.quiescent_epoch = g.quiescent_epoch
    BY ONLY <1>7, <1>13, <2>1, <2>2 DEF LogInfo
  <2>4. f.quiescent_epoch # 0 => f.buf = <<>> /\ f.waiting = <<>> /\ PutsOf(f.x_buf) = {}
    BY <1>7, <1>8, <1>14, <2>3
  <2>5. PutsOf(log[l].buf) \cup PutsOf(log[l].x_buf) \cup PutsOf(disk[l])
          \subseteq PutsOf(f.buf) \cup PutsOf(f.x_buf) \cup PutsOf(disk'[l])
    BY <1>2, <1>6, <1>9, <2>3
  <2>6. EpochsInTurn =>
          /\ \A t \in Writer : Pending(t) /\ LogOf[t] = l => w[t].epoch >= f.log_epoch
          /\ \A u \in Update : hist.epoch[u] # 0 /\ hist.where[u] = l =>
               /\ f.pc = "write" /\ hist.epoch[u] < f.x_epoch =>
                    u \in PutsOf(f.x_buf) \cup PutsOf(disk'[l])
               /\ hist.epoch[u] < f.flushed_epoch => u \in PutsOf(disk'[l])
    BY <1>6, <1>11, <1>12, <2>3
  <2>7. /\ f.holder = log[l].holder /\ f.waiting = log[l].waiting
        /\ f.log_epoch <= global_log_epoch /\ f.x_epoch <= global_log_epoch
        /\ f.flushed_epoch <= global_log_epoch /\ (f.pc # "write" => f.x_buf = <<>>)
        /\ f.pc # "turn"
    BY <1>2, <1>7, <1>8, <1>9, <2>3
  <2>8. global_log_epoch' \in {global_log_epoch, global_log_epoch + 1}
        /\ \A m \in LogId : m # l => disk'[m] = disk[m]
    BY <1>6
  <2>9. QED
    BY ONLY <1>6, <1>13, <2>3, <2>4, <2>5, <2>6, <2>7, <2>8, FlushInv, l \in LogId, LogThread
<1>15. CASE g.buf = <<>>
  <2>1. f = [g EXCEPT !.pc = AfterTurn(l), !.x_epoch = 0]
    BY <1>5, <1>15
  <2>2. /\ f \in LogInfo /\ f.holder = g.holder /\ f.waiting = g.waiting
        /\ f.pc \in {"loop", "check"} /\ f.buf = <<>> /\ f.x_buf = g.x_buf
        /\ f.x_epoch = 0 /\ f.log_epoch = g.log_epoch
        /\ f.flushed_epoch = g.flushed_epoch /\ f.quiescent_epoch = g.quiescent_epoch
    BY ONLY <1>7, <1>13, <1>15, <2>1 DEF LogInfo
  <2>3. f.quiescent_epoch # 0 => f.buf = <<>> /\ f.waiting = <<>> /\ PutsOf(f.x_buf) = {}
    BY <1>7, <1>8, <1>9, <1>15, <2>2
  <2>4. PutsOf(log[l].buf) \cup PutsOf(log[l].x_buf) \cup PutsOf(disk[l])
          \subseteq PutsOf(f.buf) \cup PutsOf(f.x_buf) \cup PutsOf(disk'[l])
    BY <1>2, <1>6, <1>9, <1>15, <2>2
  <2>5. EpochsInTurn =>
          /\ \A t \in Writer : Pending(t) /\ LogOf[t] = l => w[t].epoch >= f.log_epoch
          /\ \A u \in Update : hist.epoch[u] # 0 /\ hist.where[u] = l =>
               /\ f.pc = "write" /\ hist.epoch[u] < f.x_epoch =>
                    u \in PutsOf(f.x_buf) \cup PutsOf(disk'[l])
               /\ hist.epoch[u] < f.flushed_epoch => u \in PutsOf(disk'[l])
    BY <1>6, <1>11, <1>12, <2>2
  <2>6. /\ f.holder = log[l].holder /\ f.waiting = log[l].waiting
        /\ f.log_epoch <= global_log_epoch /\ f.x_epoch <= global_log_epoch
        /\ f.flushed_epoch <= global_log_epoch /\ (f.pc # "write" => f.x_buf = <<>>)
        /\ f.pc # "turn"
    BY <1>1, <1>2, <1>7, <1>8, <1>9, <2>2
  <2>7. global_log_epoch' \in {global_log_epoch, global_log_epoch + 1}
        /\ \A m \in LogId : m # l => disk'[m] = disk[m]
    BY <1>6
  <2>8. QED
    BY ONLY <1>6, <1>13, <2>2, <2>3, <2>4, <2>5, <2>6, <2>7, FlushInv, l \in LogId, LogThread
<1>16. QED
  BY <1>14, <1>15


\* The first of a queue has gone: the others are there, in their order.
LEMMA QueueTail ==
  ASSUME NEW q \in Seq(Writer), q # <<>>, \A i, j \in DOMAIN q : i < j => q[i] # q[j]
  PROVE  /\ Tail(q) \in Seq(Writer) /\ Range(Tail(q)) = Range(q) \ {Head(q)}
         /\ \A i \in DOMAIN Tail(q) : i + 1 \in DOMAIN q /\ Tail(q)[i] = q[i + 1]
         /\ \A i, j \in DOMAIN Tail(q) : i < j => i + 1 < j + 1
         /\ 1 \in DOMAIN q /\ Head(q) = q[1] /\ \A i \in DOMAIN q : i = 1 \/ 1 < i
<1>1. /\ Len(q) \in Nat \ {0} /\ DOMAIN q = 1..Len(q) /\ DOMAIN Tail(q) = 1..(Len(q) - 1)
      /\ Tail(q) \in Seq(Writer) /\ Head(q) = q[1]
  OBVIOUS
<1>2. \A i \in 1..(Len(q) - 1) : i + 1 \in 1..Len(q) /\ Tail(q)[i] = q[i + 1] /\ 1 < i + 1
  OBVIOUS
<1>3. \A i \in 1..Len(q) : i = 1 \/ (1 < i /\ i - 1 \in 1..(Len(q) - 1) /\ (i - 1) + 1 = i)
  BY <1>1
<1>4. \A i, j \in 1..(Len(q) - 1) : i < j => i + 1 < j + 1
  OBVIOUS
<1>5. 1 \in 1..Len(q)
  BY <1>1
<1>6. Range(Tail(q)) = Range(q) \ {Head(q)}
  <2>1. ASSUME NEW i \in 1..(Len(q) - 1) PROVE Tail(q)[i] \in Range(q) \ {Head(q)}
    <3>1. i + 1 \in DOMAIN q /\ 1 \in DOMAIN q /\ 1 < i + 1
      BY <1>1, <1>2, <1>5
    <3>2. q[1] # q[i + 1]
      BY <3>1
    <3>3. QED
      BY <1>1, <1>2, <3>1, <3>2 DEF Range
  <2>2. ASSUME NEW i \in 1..Len(q), q[i] # Head(q) PROVE q[i] \in Range(Tail(q))
    <3>1. i - 1 \in 1..(Len(q) - 1) /\ (i - 1) + 1 = i
      BY <1>1, <1>3, <2>2
    <3>2. Tail(q)[i - 1] = q[i]
      BY <1>2, <3>1
    <3>3. QED
      BY <1>1, <3>1, <3>2 DEF Range
  <2>3. Range(Tail(q)) \subseteq Range(q) \ {Head(q)}
    BY <1>1, <2>1 DEF Range
  <2>4. Range(q) \ {Head(q)} \subseteq Range(Tail(q))
    BY <1>1, <2>2 DEF Range
  <2>5. QED
    BY <2>3, <2>4
<1>7. QED
  BY <1>1, <1>2, <1>3, <1>4, <1>5, <1>6

\* The update is recorded and the log let go.  Who has an update in hand for the
\* same log waits for room; the flushed epoch of a log that was quiescent jumps.
LEMMA RecordFlush ==
  ASSUME NEW t \in Writer, FlushInv, Record(t)
  PROVE  FlushInv'
<1> DEFINE l == LogOf[t]
           e == w[t].epoch
           x == w[t].u
<1>1. /\ TypeOK /\ WritersState /\ QueueState /\ LogsState /\ NothingIsLost /\ l \in LogId
      /\ ~hist.overtaken => EpochsInTurn
      /\ log \in [LogId -> LogInfo] /\ w \in [Writer -> WriterInfo] /\ rec = NoRecovery
      /\ global_log_epoch \in Nat /\ global_wake_epoch \in Nat
  BY DEF FlushInv, TypeOK
<1>2. PICK g : g = log[l] /\ g \in LogInfo
  BY <1>1
<1>3. w[t].pc = "record" /\ HasRoom(t) /\ Pending(t) /\ rec' = rec /\ disk' = disk
      /\ global_log_epoch' = global_log_epoch
  BY DEF Record, Pending
<1>4. /\ x \in Update /\ x < hist.next /\ hist.where[x] = l /\ hist.epoch[x] = e
      /\ e <= global_log_epoch /\ g.holder = t
      /\ \A v \in Writer : w[v].pc # "idle" /\ w[v].u = x => v = t
  BY <1>1, <1>2, <1>3 DEF WritersState
<1>5. e \in Nat
  BY <1>1 DEF WriterInfo
<1>6. PICK raised : raised = IF Wakes(g) /\ global_wake_epoch < e THEN e ELSE global_wake_epoch
  OBVIOUS
<1>7. PICK we : we = WakeFor(g, raised, e)
  OBVIOUS
<1>8. PICK new : new = (IF e # g.log_epoch THEN <<Epoch(e)>> ELSE <<>>)
                       \o (IF we # g.wake_epoch THEN <<Wake>> ELSE <<>>) \o <<PutRec(x)>>
  OBVIOUS
<1>9. PICK q : q = IF g.waiting # <<>> /\ Head(g.waiting) = t THEN Tail(g.waiting) ELSE g.waiting
  OBVIOUS
<1>10. PICK fe : fe = IF Wakes(g) /\ g.flushed_epoch = g.quiescent_epoch THEN e
                      ELSE g.flushed_epoch
  OBVIOUS
<1>11. PICK f : f = [g EXCEPT !.holder = Nobody, !.buf = g.buf \o new, !.log_epoch = e,
                              !.quiescent_epoch = 0, !.wake_epoch = we,
                              !.flushed_epoch = fe, !.waiting = q]
  OBVIOUS
<1>12. /\ global_wake_epoch' = raised /\ log' = [log EXCEPT ![l] = f]
       /\ w' = [w EXCEPT ![t] = IdleWriter]
       /\ hist' = [hist EXCEPT !.answered = hist.answered \cup {x},
                               !.missed = hist.missed \/ (g.adopted /\ we = g.wake_epoch),
                               !.overtaken = hist.overtaken \/ Overtakes(t)]
  <2>1. /\ w' = [w EXCEPT ![t] = IdleWriter] /\ global_wake_epoch' = raised
        /\ hist' = [hist EXCEPT !.answered = hist.answered \cup {x},
                               !.missed = hist.missed \/ (g.adopted /\ we = g.wake_epoch),
                               !.overtaken = hist.overtaken \/ Overtakes(t)]
    BY <1>2, <1>6, <1>7 DEF Record
  <2>2. log' = [log EXCEPT ![l] = f]
    BY ONLY Record(t), <1>2, <1>6, <1>7, <1>8, <1>9, <1>10, <1>11, ZenonT(30) DEF Record
  <2>3. QED
    BY <2>1, <2>2
<1>13. raised \in Nat /\ we \in Nat
  BY <1>1, <1>2, <1>5, <1>6, <1>7 DEF WakeFor
<1>14. g.buf \o new \in Seq(LogRecord) /\ PutsOf(g.buf \o new) = PutsOf(g.buf) \cup {x}
  <2>1. PICK a, b : a = (IF e # g.log_epoch THEN <<Epoch(e)>> ELSE <<>>)
                    /\ b = (IF we # g.wake_epoch THEN <<Wake>> ELSE <<>>)
    OBVIOUS
  <2>2. a \in Seq(LogRecord) /\ PutsOf(a) = {} /\ b \in Seq(LogRecord) /\ PutsOf(b) = {}
    <3>1. <<>> \in Seq(LogRecord)
      OBVIOUS
    <3>2. QED
      BY <1>5, <2>1, <3>1, PutsOfMarks
  <2>3. new = a \o b \o <<PutRec(x)>>
    BY <1>8, <2>1
  <2>4. QED
    <3>1. a \o b \in Seq(LogRecord) /\ PutsOf(a \o b) = {}
      BY ONLY <2>2, PutsOfAppend
    <3>2. <<PutRec(x)>> \in Seq(LogRecord) /\ PutsOf(<<PutRec(x)>>) = {x}
      BY <1>4, PutsOfMarks
    <3>3. PICK r : r = <<PutRec(x)>>
      OBVIOUS
    <3>4. r \in Seq(LogRecord) /\ PutsOf(r) = {x} /\ new = (a \o b) \o r
      BY ONLY <2>3, <3>2, <3>3
    <3>5. new \in Seq(LogRecord) /\ PutsOf(new) = {x}
      BY ONLY <3>1, <3>4, PutsOfAppend
    <3>6. g.buf \in Seq(LogRecord)
      BY <1>2, LogFields
    <3>7. QED
      BY ONLY <3>5, <3>6, PutsOfAppend
<1>15. fe \in Nat /\ fe <= global_log_epoch
  BY <1>1, <1>2, <1>4, <1>5, <1>10, LogFields DEF LogsState
<1>16. /\ g.waiting \in Seq(Writer)
       /\ \A i \in DOMAIN g.waiting : g.waiting[i] \in Range(g.waiting)
       /\ Range(g.waiting) \subseteq Writer
       /\ \A i, j \in DOMAIN g.waiting : i < j => g.waiting[i] # g.waiting[j]
       /\ \A i, j \in DOMAIN g.waiting : i < j =>
            w[g.waiting[i]].epoch <= w[g.waiting[j]].epoch
       /\ t \in Range(g.waiting) => Head(g.waiting) = t /\ g.waiting # <<>>
  <2>1. t \in Range(g.waiting) => Head(g.waiting) = t
    BY <1>2, <1>3 DEF HasRoom
  <2>2. t \in Range(g.waiting) => g.waiting # <<>>
    BY DEF Range
  <2>3. \A i \in DOMAIN g.waiting : g.waiting[i] \in Range(g.waiting)
    BY DEF Range
  <2>4. g.waiting \in Seq(Writer) /\ Range(g.waiting) \subseteq Writer
    BY <1>1, <1>2, Waiters
  <2>5. \A i, j \in DOMAIN g.waiting : i < j =>
          /\ g.waiting[i] # g.waiting[j]
          /\ w[g.waiting[i]].epoch <= w[g.waiting[j]].epoch
    BY <1>1, <1>2 DEF QueueState
  <2>6. QED
    BY <2>1, <2>2, <2>3, <2>4, <2>5
<1>17. /\ q \in Seq(Writer) /\ Range(q) = Range(g.waiting) \ {t}
       /\ \A i, j \in DOMAIN q : i < j =>
            q[i] # q[j] /\ w[q[i]].epoch <= w[q[j]].epoch
  <2>1. CASE t \in Range(g.waiting)
    <3>1. q = Tail(g.waiting) /\ Head(g.waiting) = t /\ g.waiting # <<>>
      BY <1>9, <1>16, <2>1
    <3>2. /\ q \in Seq(Writer) /\ Range(q) = Range(g.waiting) \ {t}
          /\ \A i \in DOMAIN q : i + 1 \in DOMAIN g.waiting /\ q[i] = g.waiting[i + 1]
          /\ \A i, j \in DOMAIN q : i < j => i + 1 < j + 1
      BY ONLY <1>16, <3>1, QueueTail
    <3>3. QED
      BY <1>16, <3>2
  <2>2. CASE t \notin Range(g.waiting)
    <3>1. g.waiting # <<>> => Head(g.waiting) \in Range(g.waiting)
      BY <1>16 DEF Range
    <3>2. q = g.waiting
      BY <1>9, <2>2, <3>1
    <3>3. QED
      BY <1>16, <2>2, <3>2
  <2>3. QED
    BY <2>1, <2>2
<1>18. /\ f \in LogInfo /\ f.waiting = q /\ f.holder = Nobody /\ f.buf = g.buf \o new /\ f.x_buf = g.x_buf
       /\ f.log_epoch = e /\ f.x_epoch = g.x_epoch /\ f.flushed_epoch = fe /\ f.pc = g.pc
       /\ f.quiescent_epoch = 0
  BY ONLY <1>2, <1>5, <1>11, <1>13, <1>14, <1>15, <1>17 DEF LogInfo
<1>19. log'[l] = f /\ log' \in [LogId -> LogInfo] /\ \A m \in LogId : m # l => log'[m] = log[m]
  BY ONLY <1>1, <1>12, <1>18, OneLogMoves
<1>20. /\ w'[t].pc = "idle" /\ \A v \in Writer \ {t} : w'[v] = w[v]
       /\ ~Pending(t)' /\ \A v \in Writer \ {t} : Pending(v)' <=> Pending(v)
  BY <1>1, <1>12 DEF IdleWriter, Pending
<1>21. /\ hist'.next = hist.next /\ hist'.epoch = hist.epoch /\ hist'.where = hist.where
       /\ hist'.overtaken = (hist.overtaken \/ Overtakes(t)) /\ hist' \in History
  <2>1. hist \in History
    BY <1>1 DEF TypeOK
  <2>2. hist.answered \cup {x} \in SUBSET Update /\ g.adopted \in BOOLEAN
        /\ hist.missed \in BOOLEAN /\ hist.overtaken \in BOOLEAN
    BY <1>2, <1>4, <2>1 DEF History, LogInfo
  <2>3. PICK b, o : /\ b = (hist.missed \/ (g.adopted /\ we = g.wake_epoch))
                    /\ o = (hist.overtaken \/ Overtakes(t))
    OBVIOUS
  <2>4. b \in BOOLEAN /\ o \in BOOLEAN
    BY <2>3
  <2>5. hist' = [hist EXCEPT !.answered = hist.answered \cup {x}, !.missed = b, !.overtaken = o]
    BY <1>12, <2>3
  <2>6. /\ hist'.next = hist.next /\ hist'.epoch = hist.epoch /\ hist'.where = hist.where
        /\ hist'.overtaken = o /\ hist' \in History
    BY ONLY <2>1, <2>2, <2>4, <2>5 DEF History
  <2>7. QED
    BY <2>3, <2>6
<1>22. TypeOK'
  <2>1. IdleWriter \in WriterInfo
    BY DEF IdleWriter, WriterInfo
  <2>2. w' \in [Writer -> WriterInfo]
    BY <1>1, <1>12, <2>1
  <2>3. QED
    BY <1>1, <1>3, <1>12, <1>13, <1>19, <1>21, <2>2 DEF TypeOK
\* Who else has an update in hand for the same log, waits.
<1>23. ASSUME NEW v \in Writer, Pending(v), LogOf[v] = l, v # t
       PROVE  w[v].pc = "nap" /\ v \in Range(g.waiting) /\ v \in Range(q)
  <2>1. w[v].pc = "nap"
    BY <1>1, <1>2, <1>4, <1>23 DEF WritersState, Pending
  <2>2. v \in Range(g.waiting)
    BY <1>1, <1>2, <1>23, <2>1 DEF WritersState
  <2>3. QED
    BY <1>17, <1>23, <2>1, <2>2
<1>24. WritersState'
  <2>1. \A v \in Writer : w'[v].pc # "idle" => v # t /\ w'[v] = w[v]
    BY <1>20
  <2>2. \A u \in Update : u >= hist'.next => hist'.epoch[u] = 0
    BY <1>1, <1>21 DEF WritersState
  <2>3. \A v \in Writer : w'[v].pc # "idle" =>
          /\ w'[v].u \in Update /\ w'[v].u < hist'.next /\ hist'.where[w'[v].u] = LogOf[v]
          /\ w'[v].pc = "apply" => hist'.epoch[w'[v].u] = 0
          /\ \A z \in Writer : w'[z].pc # "idle" /\ w'[z].u = w'[v].u => z = v
    BY <1>1, <1>21, <2>1 DEF WritersState
  <2>4. ASSUME NEW v \in Writer, Pending(v)'
        PROVE  /\ hist'.epoch[w'[v].u] = w'[v].epoch /\ w'[v].epoch <= global_log_epoch'
               /\ w'[v].pc # "nap" => log'[LogOf[v]].holder = v
               /\ w'[v].pc = "nap" => v \in Range(log'[LogOf[v]].waiting)
    <3>1. v # t /\ Pending(v) /\ w'[v] = w[v] /\ LogOf[v] \in LogId
      BY <1>20, <2>4
    <3>2. hist.epoch[w[v].u] = w[v].epoch /\ w[v].epoch <= global_log_epoch
      BY <1>1, <3>1 DEF WritersState
    <3>3. CASE LogOf[v] = l
      BY <1>3, <1>18, <1>19, <1>21, <1>23, <3>1, <3>2, <3>3
    <3>4. CASE LogOf[v] # l
      <4>1. log'[LogOf[v]] = log[LogOf[v]]
        BY <1>19, <3>1, <3>4
      <4>2. /\ w[v].pc # "nap" => log[LogOf[v]].holder = v
            /\ w[v].pc = "nap" => v \in Range(log[LogOf[v]].waiting)
        BY <1>1, <3>1 DEF WritersState
      <4>3. QED
        BY <1>3, <1>21, <3>1, <3>2, <4>1, <4>2
    <3>5. QED
      BY <3>3, <3>4
  <2>5. QED
    BY <2>2, <2>3, <2>4 DEF WritersState
<1>25. QueueState'
  <2>1. \A m \in LogId : Range(log[m].waiting) \subseteq Writer
    BY <1>1, Waiters
  <2>2. \A m \in LogId : t \in Range(log[m].waiting) => m = l
    BY <1>1, <2>1 DEF QueueState
  <2>3. \A m \in LogId : Range(log'[m].waiting) \subseteq Range(log[m].waiting) \ {t}
    BY <1>2, <1>17, <1>18, <1>19, <2>2
  <2>4. \A m \in LogId : \A i \in DOMAIN log'[m].waiting : log'[m].waiting[i] \in Range(log'[m].waiting)
    BY DEF Range
  <2>5. ASSUME NEW m \in LogId, NEW v \in Range(log'[m].waiting)
        PROVE  LogOf[v] = m /\ w'[v].pc \in {"nap", "record"}
    <3>1. v \in Range(log[m].waiting) /\ v \in Writer \ {t}
      BY <2>1, <2>3
    <3>2. QED
      BY <1>1, <1>20, <3>1 DEF QueueState
  <2>6. ASSUME NEW m \in LogId, NEW i \in DOMAIN log'[m].waiting,
               NEW j \in DOMAIN log'[m].waiting, i < j
        PROVE  /\ log'[m].waiting[i] # log'[m].waiting[j]
               /\ w'[log'[m].waiting[i]].epoch <= w'[log'[m].waiting[j]].epoch
    <3>1. log'[m].waiting[i] \in Writer \ {t} /\ log'[m].waiting[j] \in Writer \ {t}
      BY <2>1, <2>3, <2>4
    <3>2. /\ log'[m].waiting[i] # log'[m].waiting[j]
          /\ w[log'[m].waiting[i]].epoch <= w[log'[m].waiting[j]].epoch
      <4>1. CASE m = l
        BY <1>17, <1>18, <1>19, <2>6, <4>1
      <4>2. CASE m # l
        <5>1. log'[m] = log[m]
          BY <1>19, <4>2
        <5>2. QED
          BY <1>1, <2>6, <5>1 DEF QueueState
      <4>3. QED
        BY <4>1, <4>2
    <3>3. QED
      BY <1>20, <3>1, <3>2
  <2>7. ASSUME NEW v \in Writer, w'[v].pc \in {"finish", "record"},
               v \notin Range(log'[LogOf[v]].waiting), NEW z \in Range(log'[LogOf[v]].waiting)
        PROVE  w'[z].epoch <= w'[v].epoch
    <3>1. v # t /\ w'[v] = w[v] /\ Pending(v)
      BY <1>20, <2>7 DEF Pending
    <3>2. LogOf[v] # l /\ LogOf[v] \in LogId
      BY <1>23, <2>7, <3>1
    <3>3. log'[LogOf[v]] = log[LogOf[v]]
      BY <1>19, <3>2
    <3>4. w[z].epoch <= w[v].epoch
      BY <1>1, <2>7, <3>1, <3>3 DEF QueueState
    <3>5. z \in Writer \ {t}
      BY <2>1, <2>3, <2>7, <3>2
    <3>6. QED
      BY <1>20, <3>1, <3>4, <3>5
  <2>8. QED
    BY <2>5, <2>6, <2>7 DEF QueueState
<1>26. LogsState'
  <2>1. ASSUME NEW m \in LogId
        PROVE  /\ log'[m].log_epoch <= global_log_epoch
               /\ log'[m].x_epoch <= global_log_epoch
               /\ log'[m].flushed_epoch <= global_log_epoch
               /\ log'[m].pc # "write" => log'[m].x_buf = <<>>
               /\ log'[m].pc = "turn" => log'[m].holder = Nobody
               /\ log'[m].quiescent_epoch # 0 =>
                    log'[m].buf = <<>> /\ log'[m].waiting = <<>> /\ PutsOf(log'[m].x_buf) = {}
    <3>1. CASE m = l
      <4>1. g.x_epoch <= global_log_epoch /\ (g.pc # "write" => g.x_buf = <<>>)
        BY <1>1, <1>2 DEF LogsState
      <4>2. QED
        BY <1>4, <1>15, <1>18, <1>19, <3>1, <4>1
    <3>2. CASE m # l
      <4>1. log'[m] = log[m] /\ LogsState
        BY <1>1, <1>19, <3>2
      <4>2. QED
        BY ONLY <4>1 DEF LogsState
    <3>3. QED
      BY <3>1, <3>2
  <2>2. QED
    BY <1>3, <2>1 DEF LogsState
<1>27. \A m \in LogId : /\ PutsOf(log[m].buf) \subseteq PutsOf(log'[m].buf)
                        /\ log'[m].x_buf = log[m].x_buf
  BY <1>2, <1>14, <1>18, <1>19
<1>28. NothingIsLost'
  <2>1. ASSUME NEW u \in Update, hist.epoch[u] # 0
        PROVE  /\ hist.where[u] \in LogId
               /\ \/ \E v \in Writer : Pending(v)' /\ w'[v].u = u
                  \/ u \in PutsOf(log'[hist.where[u]].buf) \cup PutsOf(log'[hist.where[u]].x_buf)
                           \cup PutsOf(disk[hist.where[u]])
    <3>1. /\ hist.where[u] \in LogId
          /\ \/ \E v \in Writer : Pending(v) /\ w[v].u = u
             \/ u \in PutsOf(log[hist.where[u]].buf) \cup PutsOf(log[hist.where[u]].x_buf)
                      \cup PutsOf(disk[hist.where[u]])
      BY <1>1, <2>1 DEF NothingIsLost
    <3>2. ASSUME NEW v \in Writer, Pending(v), w[v].u = u
          PROVE  \/ Pending(v)' /\ w'[v].u = u
                 \/ u \in PutsOf(log'[hist.where[u]].buf)
      <4>1. CASE v = t
        <5>1. u = x /\ hist.where[u] = l
          BY <1>4, <3>2, <4>1
        <5>2. log'[l].buf = g.buf \o new
          BY <1>18, <1>19
        <5>3. QED
          BY <1>14, <5>1, <5>2
      <4>2. CASE v # t
        BY <1>20, <3>2, <4>2
      <4>3. QED
        BY <4>1, <4>2
    <3>3. QED
      BY <1>27, <3>1, <3>2
  <2>2. QED
    BY <1>3, <1>21, <2>1 DEF NothingIsLost
<1>29. ASSUME ~hist'.overtaken PROVE EpochsInTurn'
  <2>1. EpochsInTurn /\ ~Overtakes(t)
    BY <1>1, <1>21, <1>29
  <2>2. ASSUME NEW v \in Writer, Pending(v), LogOf[v] = l, v # t
        PROVE  w[v].epoch >= e
    <3>1. v \in Range(g.waiting) /\ w[v].epoch \in Nat
      <4>1. w[v] \in WriterInfo
        BY <1>1
      <4>2. QED
        BY <1>23, <2>2, <4>1 DEF WriterInfo
    <3>2. CASE t \in Range(g.waiting)
      <4>1. Head(g.waiting) = t /\ g.waiting # <<>>
        BY <1>16, <3>2
      <4>2. 1 \in DOMAIN g.waiting /\ g.waiting[1] = t
            /\ \A i \in DOMAIN g.waiting : i = 1 \/ 1 < i
        BY ONLY <1>16, <4>1, QueueTail
      <4>3. PICK j \in DOMAIN g.waiting : g.waiting[j] = v
        BY <3>1 DEF Range
      <4>4. 1 < j
        BY <2>2, <4>2, <4>3
      <4>5. w[t].epoch <= w[v].epoch
        BY <1>16, <4>2, <4>3, <4>4
      <4>6. QED
        BY <1>5, <3>1, <4>5
    <3>3. CASE t \notin Range(g.waiting)
      <4>1. ~(w[v].epoch < e)
        BY <1>2, <2>1, <3>1, <3>3 DEF Overtakes
      <4>2. QED
        BY <1>5, <3>1, <4>1
    <3>4. QED
      BY <3>2, <3>3
  <2>3. ASSUME NEW v \in Writer, Pending(v)'
        PROVE  w'[v].epoch >= log'[LogOf[v]].log_epoch
    <3>1. v # t /\ Pending(v) /\ w'[v] = w[v] /\ LogOf[v] \in LogId
      BY <1>20, <2>3
    <3>2. CASE LogOf[v] = l
      BY <1>18, <1>19, <2>2, <3>1, <3>2
    <3>3. CASE LogOf[v] # l
      <4>1. log'[LogOf[v]] = log[LogOf[v]]
        BY <1>19, <3>1, <3>3
      <4>2. QED
        BY <2>1, <3>1, <4>1 DEF EpochsInTurn
    <3>4. QED
      BY <3>2, <3>3
  \* The jump: what a quiescent log has recorded is in its file.
  <2>4. ASSUME NEW u \in Update, hist.epoch[u] # 0, hist.where[u] = l, hist.epoch[u] < fe
        PROVE  u \in PutsOf(disk[l])
    <3>1. CASE fe = g.flushed_epoch
      BY <1>2, <2>1, <2>4, <3>1 DEF EpochsInTurn
    <3>2. CASE fe # g.flushed_epoch
      <4>1. fe = e /\ g.quiescent_epoch # 0
        BY <1>10, <3>2 DEF Wakes
      <4>2. g.buf = <<>> /\ g.waiting = <<>> /\ PutsOf(g.x_buf) = {}
        BY <1>1, <1>2, <4>1 DEF LogsState
      <4>3. PutsOf(g.buf) = {} /\ Range(g.waiting) = {}
        BY <4>2, PutsOfMarks DEF Range
      <4>4. ASSUME NEW v \in Writer, Pending(v), w[v].u = u PROVE FALSE
        <5>1. LogOf[v] = l /\ hist.epoch[u] = w[v].epoch
          BY <1>1, <2>4, <4>4 DEF WritersState, Pending
        <5>2. v # t
          BY <1>5, <2>4, <4>1, <5>1
        <5>3. QED
          BY <1>23, <4>3, <4>4, <5>1, <5>2
      <4>5. QED
        BY <1>1, <1>2, <2>4, <4>2, <4>3, <4>4 DEF NothingIsLost
    <3>3. QED
      BY <3>1, <3>2
  <2>5. ASSUME NEW u \in Update, hist.epoch[u] # 0
        PROVE  LET m == hist.where[u] IN
               /\ log'[m].pc = "write" /\ hist.epoch[u] < log'[m].x_epoch =>
                    u \in PutsOf(log'[m].x_buf) \cup PutsOf(disk[m])
               /\ hist.epoch[u] < log'[m].flushed_epoch => u \in PutsOf(disk[m])
    <3>1. hist.where[u] \in LogId
      BY <1>1, <2>5 DEF NothingIsLost
    <3>2. CASE hist.where[u] = l
      <4>1. g.pc = "write" /\ hist.epoch[u] < g.x_epoch => u \in PutsOf(g.x_buf) \cup PutsOf(disk[l])
        BY <1>2, <2>1, <2>5, <3>2 DEF EpochsInTurn
      <4>2. QED
        BY <1>18, <1>19, <2>4, <2>5, <3>2, <4>1
    <3>3. CASE hist.where[u] # l
      <4>1. log'[hist.where[u]] = log[hist.where[u]]
        BY <1>19, <3>1, <3>3
      <4>2. QED
        BY <2>1, <2>5, <4>1 DEF EpochsInTurn
    <3>4. QED
      BY <3>2, <3>3
  <2>6. QED
    BY <1>3, <1>21, <2>3, <2>5 DEF EpochsInTurn
<1>30. QED
  BY <1>1, <1>3, <1>22, <1>24, <1>25, <1>26, <1>28, <1>29 DEF FlushInv


\* The history counts the crashes, and nothing else touches the count.
LEMMA CrashesCount ==
  ASSUME "crashes" \in DOMAIN hist, hist.crashes \in Nat, [Next]_vars
  PROVE  /\ "crashes" \in DOMAIN hist' /\ hist'.crashes \in Nat
         /\ \/ hist'.crashes = hist.crashes
            \/ Crash /\ hist'.crashes = hist.crashes + 1
<1>1. CASE UNCHANGED hist
  BY <1>1
<1>2. ASSUME NEW t \in Writer, Put(t) \/ ApplyPut(t) \/ Record(t)
      PROVE  "crashes" \in DOMAIN hist' /\ hist'.crashes = hist.crashes
  <2>1. CASE Put(t)
    BY <2>1 DEF Put
  <2>2. CASE ApplyPut(t)
    BY <2>2 DEF ApplyPut
  <2>3. CASE Record(t)
    BY <2>3 DEF Record
  <2>4. QED
    BY <1>2, <2>1, <2>2, <2>3
<1>3. CASE CkpBegin
  BY <1>3 DEF CkpBegin
<1>4. CASE RecoveryDone \/ \E k \in Key : CkpScan(k)
  BY <1>4 DEF RecoveryDone, CkpScan
<1>5. CASE Crash
  <2>1. PICK c : hist' = [hist EXCEPT !.crashes = hist.crashes + 1, !.cut = c]
    BY <1>5 DEF Crash
  <2>2. QED
    BY <1>5, <2>1
<1>6. \/ UNCHANGED hist
      \/ \E t \in Writer : Put(t) \/ ApplyPut(t) \/ Record(t)
      \/ CkpBegin \/ RecoveryDone \/ (\E k \in Key : CkpScan(k)) \/ Crash
  BY DEF Next, vars, FinishPut, Stall, Reacquire, Turn, Swap, Flush, CheckEpoch, Replay,
         PrepareCheckpoint, CommitCheckpoint, Analyze, Aborted
<1>7. QED
  BY <1>1, <1>2, <1>3, <1>4, <1>5, <1>6

\* Until the first crash every step keeps the invariant; there is no recovery yet.
LEMMA NextFlushInv == FlushInv /\ [Next]_vars /\ ~Crash => FlushInv'
<1> SUFFICES ASSUME FlushInv, [Next]_vars, ~Crash PROVE FlushInv'
  OBVIOUS
<1>1. ASSUME NEW t \in Writer,
             \/ Put(t) \/ ApplyPut(t) \/ FinishPut(t) \/ Record(t) \/ Stall(t) \/ Reacquire(t)
      PROVE  FlushInv'
  BY <1>1, PutFlush, ApplyPutFlush, FinishPutFlush, RecordFlush, StallFlush, ReacquireFlush
<1>2. ASSUME NEW l \in LogId, Turn(l) \/ Swap(l) \/ Flush(l) \/ CheckEpoch(l)
      PROVE  FlushInv'
  BY <1>2, TurnFlush, SwapFlush, FlushFlush, CheckEpochFlush
<1>3. CASE UNCHANGED vars \/ CkpBegin \/ (\E k \in Key : CkpScan(k)) \/ PrepareCheckpoint
           \/ CommitCheckpoint
  <2>1. /\ UNCHANGED <<global_log_epoch, global_wake_epoch, log, disk, w, rec>>
        /\ \/ hist' = hist \/ hist' = [hist EXCEPT !.ckps = @ + 1]
           \/ \E b \in BOOLEAN : hist' = [hist EXCEPT !.late = b]
    BY <1>3 DEF vars, CkpBegin, CkpScan, PrepareCheckpoint, CommitCheckpoint
  <2>2. QED
    BY <2>1, BesideTheLogs
<1>4. ~(\/ \E l \in LogId : Replay(l)
        \/ Analyze \/ RecoveryDone \/ Aborted)
  <2>1. rec.phase = "done"
    BY DEF FlushInv, NoRecovery
  <2>2. QED
    BY <2>1 DEF Replay, Analyze, RecoveryDone, Aborted
<1>5. QED
  BY <1>1, <1>2, <1>3, <1>4 DEF Next

LEMMA NextFirstLife == FirstLife /\ [Next]_vars => FirstLife'
<1> SUFFICES ASSUME FirstLife, [Next]_vars PROVE FirstLife'
  OBVIOUS
<1>1. "crashes" \in DOMAIN hist /\ hist.crashes \in Nat
  <2>1. CASE hist.crashes = 0 /\ FlushInv
    <3>1. hist \in History
      BY <2>1 DEF FlushInv, TypeOK
    <3>2. QED
      BY <3>1 DEF History
  <2>2. QED
    BY <2>1 DEF FirstLife
<1>2. CASE Crash
  <2>1. "crashes" \in DOMAIN hist' /\ hist'.crashes = hist.crashes + 1
    BY <1>1, <1>2, CrashesCount DEF Crash
  <2>2. QED
    BY <1>1, <2>1 DEF FirstLife
<1>3. CASE ~Crash
  <2>1. hist'.crashes = hist.crashes /\ "crashes" \in DOMAIN hist'
    BY <1>1, <1>3, CrashesCount
  <2>2. CASE hist.crashes = 0
    <3>1. FlushInv
      BY <2>2 DEF FirstLife
    <3>2. FlushInv'
      BY <1>3, <3>1, NextFlushInv
    <3>3. QED
      BY <2>1, <2>2, <3>2 DEF FirstLife
  <2>3. CASE hist.crashes # 0
    BY <1>1, <2>1, <2>3 DEF FirstLife
  <2>4. QED
    BY <2>2, <2>3
<1>4. QED
  BY <1>2, <1>3

\* Until the first crash (log.cc and log.hh, loginfo): who has its epoch holds
\* the log or waits in the queue, in the order of the epochs; no update gets
\* lost on its way; and the epochs of a log, of the buffer that is being
\* written, and of what is flushed follow each other.
THEOREM FlushInvariant == Spec => []FirstLife
<1>1. Init => FirstLife
  <2>1. Init => hist.crashes = 0
    BY DEF Init
  <2>2. QED
    BY <2>1, InitFlushInv DEF FirstLife
<1>2. QED
  BY <1>1, NextFirstLife, PTL DEF Spec

\* Unless a thread has recorded an update before one of an earlier epoch that
\* waits for room, "we have logged all writes up to, but not including,
\* flushed_epoch_" (log.hh:71), the jump of flushed_epoch_ included (log.cc:320).
THEOREM EpochsAreFlushedInTurn == Spec => []LoggedInTurn
<1>1. FirstLife => LoggedInTurn
  <2>1. SUFFICES ASSUME FirstLife, ~hist.overtaken, hist.crashes = 0,
                        NEW u \in Update, hist.epoch[u] # 0,
                        hist.epoch[u] < log[hist.where[u]].flushed_epoch
                 PROVE  u \in PutsOf(disk[hist.where[u]])
    BY DEF LoggedInTurn, FlushedMeansLogged
  <2>2. FlushInv
    BY <2>1 DEF FirstLife
  <2>3. EpochsInTurn
    BY <2>1, <2>2 DEF FlushInv
  <2>4. QED
    BY <2>1, <2>3 DEF EpochsInTurn
<1>2. QED
  BY <1>1, FlushInvariant, PTL

=============================================================================
