-------------------------------- MODULE Log --------------------------------
(***************************************************************************)
(* Group commit, recovery and checkpoints (log.cc, log.hh, and recover and *)
(* conc_checkpointer of mtd.cc).                                           *)
(*                                                                         *)
(* A server thread applies an update to the tree and appends it to the     *)
(* buffer of its log; the log's own thread swaps the buffer out and writes *)
(* it.  Nothing orders two logs but the global epoch, which log 1's thread *)
(* advances: an update is stamped with the epoch it read under its log's   *)
(* lock, and recovery replays every log up to one common epoch.  A log     *)
(* with nothing to write says so (quiesce) and is left out of that bound;  *)
(* the update that wakes it raises global_wake_epoch, and the other logs   *)
(* must note (wake) that they knew.                                        *)
(*                                                                         *)
(* Updates are numbered; a row is the set of the updates it reflects, as   *)
(* if each one wrote a column of its own.  A file and a buffer are         *)
(* sequences of records <<"epoch", e>>, <<"wake">>, <<"quiesce">>,         *)
(* <<"put", u>>; an epoch is a natural number that does not wrap.          *)
(***************************************************************************)
EXTENDS Naturals, Sequences, FiniteSets, SequencesExt

CONSTANTS
  Writer,      \* server threads
  NLog,        \* number of logs (nlogger)
  LogOf,       \* the log of each server thread
  Key, KeyOf,  \* keys, and the key of each update
  Nobody,
  Cap,         \* records a buffer holds (len_)
  Room,        \* records one call may append: an epoch, a wake, an update
  MaxEpoch,    \* bound: the global epoch
  MaxPut,      \* bound: updates
  MaxCrash,    \* bound: crashes
  Lives,       \* bound: only the first Lives incarnations take updates
  MaxCkp       \* bound: checkpoints

LogId == 1..NLog
Update == 1..MaxPut

ASSUME LogAssumption ==
  /\ NLog \in Nat \ {0} /\ LogOf \in [Writer -> LogId]
  /\ Room = 3 /\ Cap \in Nat /\ Cap >= Room
  /\ {MaxEpoch, MaxPut, MaxCrash, Lives, MaxCkp} \subseteq Nat
  /\ KeyOf \in [Update -> Key]
  /\ Nobody \notin Writer \cup Key

VARIABLES
  global_log_epoch, global_wake_epoch,
  log,       \* per log: its loginfo, and its thread's local variables
  disk,      \* per log: its file
  w,         \* per server thread: where it is in onego, and its update
  leaf,      \* per key: the server thread that holds the lock of its leaf
  table,     \* the updates that the rows of the tree reflect
  ckp,       \* the checkpointer's local variables
  saved,     \* the checkpoint that kvd-ckp-gen names
  rec,       \* the recovery: phase, bounds, logs still to be replayed
  hist       \* history: what was answered when, what was lost

vars == <<global_log_epoch, global_wake_epoch, log, disk, w, leaf, table, ckp,
          saved, rec, hist>>

Epoch(e) == <<"epoch", e>>
Wake == <<"wake">>
Quiesce == <<"quiesce">>
PutRec(u) == <<"put", u>>

PutsOf(s) == {u \in Update : PutRec(u) \in Range(s)}

EmptyLog == [holder |-> Nobody, buf |-> <<>>, log_epoch |-> 0, quiescent_epoch |-> 0,
             wake_epoch |-> 0, flushed_epoch |-> 0, waiting |-> <<>>,
             pc |-> "loop", x_buf |-> <<>>, x_epoch |-> 0, adopted |-> FALSE]

IdleWriter == [pc |-> "idle", u |-> 0, epoch |-> 0]

IdleCkp == [pc |-> "idle", min |-> 0, max |-> 0, left |-> {}, content |-> {}]

NoCheckpoint == [min |-> 0, max |-> 0, content |-> {}]

NoRecovery == [phase |-> "done", max |-> 0, left |-> {}]

\* A server that has come up on empty logs, each of which has gone quiescent
\* in epoch 1 and has written that down.
Init ==
  /\ global_log_epoch = 2 /\ global_wake_epoch = 0
  /\ log = [l \in LogId |-> [EmptyLog EXCEPT !.log_epoch = 1, !.quiescent_epoch = 1,
                                             !.flushed_epoch = 1]]
  /\ disk = [l \in LogId |-> <<Epoch(1), Quiesce>>]
  /\ w = [t \in Writer |-> IdleWriter]
  /\ leaf = [k \in Key |-> Nobody]
  /\ table = {}
  /\ ckp = IdleCkp /\ saved = NoCheckpoint
  /\ rec = NoRecovery
  /\ hist = [next |-> 1, answered |-> {}, prior |-> [u \in Update |-> {}],
             epoch |-> [u \in Update |-> 0], where |-> [u \in Update |-> 0],
             crashes |-> 0, ckps |-> 0, missed |-> FALSE, overtaken |-> FALSE,
             late |-> FALSE, cut |-> 0]

Running == rec.phase = "done"

\* The lock of a log: its own thread has it during the first half of a turn.
IsFree(g) == g.holder = Nobody /\ g.pc # "turn"

-----------------------------------------------------------------------------
(* Server threads: onego, apply_put, loginfo::record. *)

\* The cursor has found the key's leaf and has locked it.
Put(t) ==
  LET u == hist.next IN
  /\ Running /\ hist.crashes < Lives /\ u <= MaxPut
  /\ w[t].pc = "idle" /\ leaf[KeyOf[u]] = Nobody
  /\ leaf' = [leaf EXCEPT ![KeyOf[u]] = t]
  /\ w' = [w EXCEPT ![t] = [pc |-> "apply", u |-> u, epoch |-> 0]]
  /\ hist' = [hist EXCEPT !.next = @ + 1, !.prior[u] = hist.answered, !.where[u] = LogOf[t]]
  /\ UNCHANGED <<global_log_epoch, global_wake_epoch, log, disk, table, ckp, saved, rec>>

\* The log's lock is taken under the leaf's, and the epoch is read under both;
\* the clock and the checkpointer ask for neither.
ApplyPut(t) ==
  LET l == LogOf[t] IN
  /\ w[t].pc = "apply" /\ IsFree(log[l])
  /\ log' = [log EXCEPT ![l].holder = t]
  /\ w' = [w EXCEPT ![t].pc = "finish", ![t].epoch = global_log_epoch]
  /\ hist' = [hist EXCEPT !.epoch[w[t].u] = global_log_epoch]
  /\ UNCHANGED <<global_log_epoch, global_wake_epoch, disk, leaf, table, ckp, saved, rec>>

\* The row is to be seen, and the leaf is unlocked.
FinishPut(t) ==
  /\ w[t].pc = "finish"
  /\ table' = table \cup {w[t].u}
  /\ leaf' = [leaf EXCEPT ![KeyOf[w[t].u]] = Nobody]
  /\ w' = [w EXCEPT ![t].pc = "record"]
  /\ UNCHANGED <<global_log_epoch, global_wake_epoch, log, disk, ckp, saved, rec, hist>>

HasRoom(t) ==
  LET g == log[LogOf[t]] IN
  /\ Cap - Len(g.buf) >= Room
  /\ t \in Range(g.waiting) => Head(g.waiting) = t

\* Whether the log has just left its quiescence, which all others must learn.
Wakes(g) == g.quiescent_epoch # 0

\* Variant: no wake command is recorded.
WakeFor_Old(g, we, e) == g.wake_epoch

\* The wake epoch that a record of epoch e goes by: never later than e.
WakeFor(g, we, e) == IF we # g.wake_epoch /\ e < we THEN e ELSE we

\* A thread that finds room does not queue up behind those that wait, and may
\* so record a later epoch before an earlier one.
Overtakes(t) ==
  LET waiting == Range(log[LogOf[t]].waiting)
  IN  t \notin waiting /\ \E v \in waiting : w[v].epoch < w[t].epoch

Record(t) ==
  LET l == LogOf[t]
      g == log[l]
      e == w[t].epoch
      raised == IF Wakes(g) /\ global_wake_epoch < e THEN e ELSE global_wake_epoch
      we == WakeFor(g, raised, e)
      new == (IF e # g.log_epoch THEN <<Epoch(e)>> ELSE <<>>)
             \o (IF we # g.wake_epoch THEN <<Wake>> ELSE <<>>) \o <<PutRec(w[t].u)>>
  IN
  /\ w[t].pc = "record" /\ HasRoom(t)
  /\ global_wake_epoch' = raised
  /\ log' = [log EXCEPT ![l] =
       [g EXCEPT !.holder = Nobody, !.buf = @ \o new, !.log_epoch = e,
                 !.quiescent_epoch = 0, !.wake_epoch = we,
                 !.flushed_epoch = IF Wakes(g) /\ @ = g.quiescent_epoch THEN e ELSE @,
                 !.waiting = IF @ # <<>> /\ Head(@) = t THEN Tail(@) ELSE @]]
  /\ w' = [w EXCEPT ![t] = IdleWriter]
  /\ hist' = [hist EXCEPT !.answered = @ \cup {w[t].u},
                          !.missed = @ \/ (g.adopted /\ we = g.wake_epoch),
                          !.overtaken = @ \/ Overtakes(t)]
  /\ UNCHANGED <<global_log_epoch, disk, leaf, table, ckp, saved, rec>>

\* Variant: the lock is kept during the nap.
Stall_KeepsLock(t) ==
  LET l == LogOf[t] IN
  /\ w[t].pc = "record" /\ ~HasRoom(t)
  /\ log' = [log EXCEPT ![l].waiting = IF t \in Range(@) THEN @ ELSE Append(@, t)]
  /\ w' = [w EXCEPT ![t].pc = "nap"]
  /\ UNCHANGED <<global_log_epoch, global_wake_epoch, disk, leaf, table, ckp, saved, rec, hist>>

\* No room, or others wait: queue up, release, and come back after a nap.
Stall(t) ==
  LET l == LogOf[t] IN
  /\ w[t].pc = "record" /\ ~HasRoom(t)
  /\ log' = [log EXCEPT ![l].holder = Nobody,
                        ![l].waiting = IF t \in Range(@) THEN @ ELSE Append(@, t)]
  /\ w' = [w EXCEPT ![t].pc = "nap"]
  /\ UNCHANGED <<global_log_epoch, global_wake_epoch, disk, leaf, table, ckp, saved, rec, hist>>

Reacquire(t) ==
  LET l == LogOf[t] IN
  /\ w[t].pc = "nap" /\ IsFree(log[l])
  /\ log' = [log EXCEPT ![l].holder = t]
  /\ w' = [w EXCEPT ![t].pc = "record"]
  /\ UNCHANGED <<global_log_epoch, global_wake_epoch, disk, leaf, table, ckp, saved, rec, hist>>

-----------------------------------------------------------------------------
(* The thread of a log: loginfo::run. *)

\* What one turn makes of the log, before the buffer is swapped out: a new
\* wake epoch ends a quiescence, and an idle log becomes quiescent.
Adopt(g, we) ==
  IF g.wake_epoch # we
  THEN [g EXCEPT !.wake_epoch = we, !.quiescent_epoch = 0, !.adopted = TRUE] ELSE g

\* Variant: the waiting threads are not looked at.
GoesQuiescent_Waiting(g, ge, we) ==
  g.buf = <<>> /\ g.quiescent_epoch = 0 /\ ge # g.log_epoch /\ ge # we
GoesQuiescent(g, ge, we) ==
  /\ g.buf = <<>> /\ g.waiting = <<>>
  /\ g.quiescent_epoch = 0 /\ ge # g.log_epoch /\ ge # we

GoQuiescent(g, ge) ==
  [g EXCEPT !.quiescent_epoch = ge, !.log_epoch = ge, !.adopted = @ /\ ge < g.wake_epoch,
            !.buf = <<Epoch(ge)>> \o (IF ge = g.wake_epoch THEN <<Wake>> ELSE <<>>)
                    \o <<Quiesce>>]

\* The thread of the first log also minds the clock.
AfterTurn(l) == IF l = 1 THEN "check" ELSE "loop"

\* The lock, and the clock; the wake epoch is read after it, and both go on.
Turn(l) ==
  /\ Running /\ log[l].pc = "loop" /\ IsFree(log[l])
  /\ log' = [log EXCEPT ![l].pc = "turn", ![l].x_epoch = global_log_epoch]
  /\ UNCHANGED <<global_log_epoch, global_wake_epoch, disk, w, leaf, table, ckp, saved, rec, hist>>

Swap(l) ==
  LET ge == log[l].x_epoch
      we == global_wake_epoch
      a == Adopt(log[l], we)
      g == IF GoesQuiescent(a, ge, we) THEN GoQuiescent(a, ge) ELSE a
  IN
  /\ log[l].pc = "turn"
  /\ log' = [log EXCEPT ![l] =
       IF g.buf # <<>>
       THEN [g EXCEPT !.pc = "write", !.x_buf = g.buf, !.buf = <<>>, !.x_epoch = g.log_epoch]
       ELSE [g EXCEPT !.pc = AfterTurn(l), !.x_epoch = 0]]
  /\ UNCHANGED <<global_log_epoch, global_wake_epoch, disk, w, leaf, table, ckp, saved, rec, hist>>

\* write, fsync, and only then the flushed epoch.
Flush(l) ==
  /\ log[l].pc = "write"
  /\ disk' = [disk EXCEPT ![l] = @ \o log[l].x_buf]
  /\ log' = [log EXCEPT ![l].pc = AfterTurn(l), ![l].x_buf = <<>>, ![l].x_epoch = 0,
                        ![l].flushed_epoch = log[l].x_epoch]
  /\ UNCHANGED <<global_log_epoch, global_wake_epoch, w, leaf, table, ckp, saved, rec, hist>>

CheckEpoch(l) ==
  /\ log[l].pc = "check"
  /\ log' = [log EXCEPT ![l].pc = "loop"]
  /\ \/ UNCHANGED global_log_epoch
     \/ global_log_epoch < MaxEpoch /\ global_log_epoch' = global_log_epoch + 1
  /\ UNCHANGED <<global_wake_epoch, disk, w, leaf, table, ckp, saved, rec, hist>>

-----------------------------------------------------------------------------
(* The checkpointer. *)

CkpBegin ==
  /\ Running /\ ckp.pc = "idle" /\ hist.ckps < MaxCkp /\ hist.crashes < Lives
  /\ ckp' = [pc |-> "scan", min |-> global_log_epoch, max |-> 0, left |-> Key, content |-> {}]
  /\ hist' = [hist EXCEPT !.ckps = @ + 1]
  /\ UNCHANGED <<global_log_epoch, global_wake_epoch, log, disk, w, leaf, table, saved, rec>>

\* The threads scan their ranges of the table in no order among them, and lock
\* nothing: an update that has its epoch may not be there to be seen yet, and
\* comes too late if that epoch is before those that will be replayed.
CkpScan(k) ==
  /\ ckp.pc = "scan" /\ k \in ckp.left
  /\ hist' = [hist EXCEPT !.late = @ \/ \E t \in Writer :
       w[t].pc = "finish" /\ KeyOf[w[t].u] = k /\ w[t].epoch < ckp.min]
  /\ ckp' = [ckp EXCEPT !.left = @ \ {k}, !.content = @ \cup {u \in table : KeyOf[u] = k}]
  /\ UNCHANGED <<global_log_epoch, global_wake_epoch, log, disk, w, leaf, table, saved, rec>>

PrepareCheckpoint ==
  /\ ckp.pc = "scan" /\ ckp.left = {}
  /\ ckp' = [ckp EXCEPT !.pc = "commit", !.max = global_log_epoch]
  /\ UNCHANGED <<global_log_epoch, global_wake_epoch, log, disk, w, leaf, table, saved, rec, hist>>

Flushed(l) ==
  IF log[l].quiescent_epoch # 0 /\ log[l].quiescent_epoch = log[l].flushed_epoch
  THEN global_log_epoch ELSE log[l].flushed_epoch

\* Despite its name, the least of the logs' flushed epochs.
MaxFlushedEpoch ==
  FoldLeft(LAMBDA mfe, l : IF mfe = 0 \/ Flushed(l) < mfe THEN Flushed(l) ELSE mfe,
           0, [l \in LogId |-> l])

CommitCheckpoint ==
  /\ ckp.pc = "commit" /\ (MaxFlushedEpoch = 0 \/ MaxFlushedEpoch > ckp.max)
  /\ saved' = [min |-> ckp.min, max |-> ckp.max, content |-> ckp.content]
  /\ ckp' = IdleCkp
  /\ UNCHANGED <<global_log_epoch, global_wake_epoch, log, disk, w, leaf, table, rec, hist>>

-----------------------------------------------------------------------------
(* A crash keeps the files, with some of what was being written. *)

Crash ==
  /\ hist.crashes < MaxCrash
  /\ \E n \in [LogId -> 0..Cap] :
       /\ \A l \in LogId : n[l] <= Len(log[l].x_buf)
       /\ disk' = [l \in LogId |-> disk[l] \o SubSeq(log[l].x_buf, 1, n[l])]
  /\ rec' = [NoRecovery EXCEPT !.phase = "analyze"]
  /\ hist' = [hist EXCEPT !.crashes = @ + 1, 
       !.cut = IF Running THEN 0 ELSE IF rec.phase = "replay" THEN rec.max ELSE @]
  /\ global_log_epoch' = 1 /\ global_wake_epoch' = 0
  /\ log' = [l \in LogId |-> EmptyLog]
  /\ w' = [t \in Writer |-> IdleWriter]
  /\ leaf' = [k \in Key |-> Nobody]
  /\ table' = {}
  /\ ckp' = IdleCkp
  /\ UNCHANGED saved

-----------------------------------------------------------------------------
(* Recovery: recover of mtd.cc and class logreplay. *)

EpochAt(s) == {i \in DOMAIN s : s[i][1] = "epoch"}

\* The epoch that the record at position i belongs to; 0 before the first.
EpochOf(s, i) ==
  LET before == {j \in EpochAt(s) : j <= i}
  IN  IF before = {} THEN 0 ELSE s[Max(before)][2]

\* logreplay::info
Info(s) ==
  LET wakes == {i \in DOMAIN s : s[i] = Wake}
  IN  [first_epoch |-> IF EpochAt(s) = {} THEN 0 ELSE s[Min(EpochAt(s))][2],
       last_epoch |-> EpochOf(s, Len(s)),
       \* an epoch below the wake epoch looks like a wrap-around
       wake_epoch |-> IF wakes = {} THEN 0
                      ELSE LET e == EpochOf(s, Max(wakes))
                           IN  IF \E i \in EpochAt(s) : i > Max(wakes) /\ s[i][2] < e
                               THEN 0 ELSE e,
       quiescent |-> s = <<>> \/ s[Len(s)] = Quiesce]

MinPostQuiescentWakeEpoch(s, q) ==
  LET hit == {i \in DOMAIN s : s[i] = Wake /\ EpochOf(s, i) # 0 /\ EpochOf(s, i) >= q}
  IN  IF hit = {} THEN 0 ELSE EpochOf(s, Min(hit))

\* Largest and least of the nonzero members of S, 0 if there are none.
MaxEpochOf(S) == Max(S \cup {0})
MinEpochOf(S) == IF S \subseteq {0} THEN 0 ELSE Min(S \ {0})

\* What recover asserts of a checkpoint before it replays anything.
ChecksHold(first, max) == saved.min > first /\ saved.min < max /\ saved.max < max

\* An empty file has no info: its entry keeps the zeros it was created with,
\* and whether it looks quiescent is left to chance, which matters nowhere.
Analyze ==
  LET info == [l \in LogId |-> Info(disk[l])]
      maxEpoch == MaxEpochOf({info[l].last_epoch : l \in LogId}
                             \cup (IF saved.max = 0 THEN {} ELSE {saved.max + 1}))
      maxWake == MaxEpochOf({info[l].wake_epoch : l \in LogId})
      minQuiescent == MinEpochOf({info[l].last_epoch : l \in {m \in LogId : info[m].quiescent}})
      missedWake == IF maxWake # 0 /\ minQuiescent <= maxWake THEN minQuiescent ELSE 0
      wakeBound(l) == IF missedWake # 0 /\ missedWake <= info[l].wake_epoch
                      THEN MinPostQuiescentWakeEpoch(disk[l], missedWake) ELSE 0
      bounds == {maxEpoch} \cup {wakeBound(l) : l \in LogId}
                \cup {info[l].last_epoch : l \in {m \in LogId : ~info[m].quiescent}}
      first == MaxEpochOf({info[l].first_epoch : l \in LogId})
      max == MinEpochOf(bounds)
  IN
  /\ rec.phase = "analyze"
  /\ rec' = [phase |-> IF saved.min # 0 /\ ~ChecksHold(first, max) THEN "aborted" ELSE "replay",
             max |-> max, left |-> LogId]
  /\ table' = saved.content
  /\ UNCHANGED <<global_log_epoch, global_wake_epoch, log, disk, w, leaf, ckp, saved, hist>>

\* Variant: the epoch record that ended the replay is cut off too.
ReplayAndClean_NoBound(s, min, max) ==
  LET over == {i \in EpochAt(s) : s[i][2] >= max}
      keep == SubSeq(s, 1, IF over = {} THEN Len(s) ELSE Min(over) - 1)
  IN  [puts |-> PutsOf(keep), keep |-> keep]

\* What replayandclean1 does with a file: the updates it replays, and the
\* part of the file it keeps, up to and with the first epoch not replayed.
ReplayAndClean(s, min, max) ==
  LET over == {i \in EpochAt(s) : s[i][2] >= max}
      stop == IF over = {} THEN Len(s) + 1 ELSE Min(over)
      begin == IF min = 0 THEN EpochAt(s)
               ELSE {i \in EpochAt(s) : i <= stop /\ s[i][2] < min}
  IN  [puts |-> {u \in Update : \E i \in 1..(stop - 1) :
                   s[i] = PutRec(u) /\ EpochOf(s, i) # 0 /\ EpochOf(s, i) >= min},
       keep |-> IF begin = {} THEN <<>>
                ELSE SubSeq(s, IF min = 0 THEN Min(begin) ELSE Max(begin),
                            IF over = {} THEN Len(s) ELSE stop)]

Replay(l) ==
  LET r == ReplayAndClean(disk[l], saved.min, rec.max) IN
  /\ rec.phase = "replay" /\ l \in rec.left
  /\ table' = table \cup r.puts
  /\ disk' = [disk EXCEPT ![l] = r.keep]
  /\ rec' = [rec EXCEPT !.left = @ \ {l}]
  /\ UNCHANGED <<global_log_epoch, global_wake_epoch, log, w, leaf, ckp, saved, hist>>

RecoveryDone ==
  /\ rec.phase = "replay" /\ rec.left = {}
  /\ rec' = [rec EXCEPT !.phase = "done"]
  /\ global_log_epoch' = rec.max + 1
  /\ hist' = [hist EXCEPT !.answered = @ \cap table]
  /\ UNCHANGED <<global_wake_epoch, log, disk, w, leaf, table, ckp, saved>>

\* A failed check has aborted the server: it stays down.
Aborted == rec.phase = "aborted" /\ UNCHANGED vars

Next ==
  \/ \E t \in Writer : \/ Put(t) \/ ApplyPut(t) \/ FinishPut(t) \/ Record(t)
                       \/ Stall(t) \/ Reacquire(t)
  \/ \E l \in LogId : Turn(l) \/ Swap(l) \/ Flush(l) \/ CheckEpoch(l) \/ Replay(l)
  \/ CkpBegin \/ (\E k \in Key : CkpScan(k)) \/ PrepareCheckpoint \/ CommitCheckpoint
  \/ Crash \/ Analyze \/ RecoveryDone \/ Aborted

Spec == Init /\ [][Next]_vars

\* A thread that is running goes on.  It gets the lock of its log: the log's
\* thread naps for 200 ms between its turns, and the server threads that wait
\* for room release it for 50 ms at a time.
Acquire(t) == ApplyPut(t) \/ Reacquire(t)
GoOn(t) == FinishPut(t) \/ Record(t) \/ Stall(t)
GoRound(l) == Swap(l) \/ Flush(l) \/ CheckEpoch(l)

FairSpec ==
  /\ Spec
  /\ \A t \in Writer : SF_vars(Acquire(t)) /\ WF_vars(GoOn(t))
  /\ \A l \in LogId : SF_vars(Turn(l)) /\ WF_vars(GoRound(l))

-----------------------------------------------------------------------------
(* Properties *)

\* After a recovery (mtd.cc, recover) the table is closed under what clients
\* could see: whoever began an update after another was answered, from
\* whatever log, does not find the later one kept and the earlier one lost.
\* This is what log.hh:76 has the logs record their wake commands for.
CutIsClosed ==
  Running => \A v \in table : hist.prior[v] \subseteq table

\* The same unless a log's thread took over a wake epoch (log.cc:250) and an
\* update was then recorded in that log with no wake command before it, or an
\* update was recorded before one of an earlier epoch that waited for room, or a
\* checkpoint passed a key before an update of it that had read its epoch
\* (kvrow.hh:184) before the checkpoint did (mtd.cc:1657) was to be seen.
CutIsClosedInOrder == ~hist.missed /\ ~hist.overtaken /\ ~hist.late => CutIsClosed

\* "We have logged all writes up to, but not including, flushed_epoch_"
\* (log.hh:71): also after the jump of flushed_epoch_ when a quiescent log
\* wakes (log.cc:320), and while a server thread waits for room.
FlushedMeansLogged ==
  hist.crashes = 0 =>
    \A u \in Update :
      (hist.epoch[u] # 0 /\ hist.epoch[u] < log[hist.where[u]].flushed_epoch)
        => u \in PutsOf(disk[hist.where[u]])

\* The same unless an update was recorded before one of an earlier epoch that
\* waited for room (log.cc:305 lets a thread that is not in the queue go first).
LoggedInTurn == ~hist.overtaken => FlushedMeansLogged

\* A crash while some of the files have been cut (replayandclean1) and others
\* have not, changes nothing: the next recovery finds the same bound.
RecoveryIsRepeatable == (rec.phase = "replay" /\ hist.cut # 0) => rec.max = hist.cut

\* An update is applied, logged and answered, whoever holds the locks of the
\* leaf and the log and however full the buffer is (loginfo::record).
PutsEnd == \A t \in Writer : (w[t].pc # "idle") ~> (w[t].pc = "idle")

-----------------------------------------------------------------------------
(* The strengthening behind LoggedInTurn, for the first incarnation. *)

LogRecord == ({"epoch"} \X Nat) \cup {Wake, Quiesce} \cup ({"put"} \X Update)
LogInfo == [holder : Writer \cup {Nobody}, buf : Seq(LogRecord), log_epoch : Nat,
            quiescent_epoch : Nat, wake_epoch : Nat, flushed_epoch : Nat,
            waiting : Seq(Writer), pc : {"loop", "turn", "write", "check"}, x_buf : Seq(LogRecord),
            x_epoch : Nat, adopted : BOOLEAN]

WriterInfo == [pc : {"idle", "apply", "finish", "record", "nap"}, u : 0..MaxPut, epoch : Nat]
History == [next : Nat \ {0}, answered : SUBSET Update, prior : [Update -> SUBSET Update],
            epoch : [Update -> Nat], where : [Update -> 0..NLog], crashes : Nat, ckps : Nat,
            missed : BOOLEAN, overtaken : BOOLEAN, late : BOOLEAN, cut : Nat]

TypeOK ==
  /\ global_log_epoch \in Nat \ {0} /\ global_wake_epoch \in Nat
  /\ log \in [LogId -> LogInfo]
  /\ disk \in [LogId -> Seq(LogRecord)]
  /\ w \in [Writer -> WriterInfo]
  /\ hist \in History

\* t has read its epoch, and its update is in no buffer yet.
Pending(t) == w[t].pc \in {"finish", "record", "nap"}

\* A server thread's update is its own, and the history tells its log and epoch.
WritersState ==
  /\ \A u \in Update : u >= hist.next => hist.epoch[u] = 0
  /\ \A t \in Writer : w[t].pc # "idle" =>
       /\ w[t].u \in Update /\ w[t].u < hist.next /\ hist.where[w[t].u] = LogOf[t]
       /\ w[t].pc = "apply" => hist.epoch[w[t].u] = 0
       /\ \A v \in Writer : w[v].pc # "idle" /\ w[v].u = w[t].u => v = t
  /\ \A t \in Writer : Pending(t) =>
       /\ hist.epoch[w[t].u] = w[t].epoch /\ w[t].epoch <= global_log_epoch
       /\ w[t].pc # "nap" => log[LogOf[t]].holder = t
       /\ w[t].pc = "nap" => t \in Range(log[LogOf[t]].waiting)

\* The queue for room: who waits has an epoch no later than who came behind.
QueueState ==
  /\ \A l \in LogId : \A t \in Range(log[l].waiting) :
       LogOf[t] = l /\ w[t].pc \in {"nap", "record"}
  /\ \A l \in LogId : \A i, j \in DOMAIN log[l].waiting : i < j =>
       /\ log[l].waiting[i] # log[l].waiting[j]
       /\ w[log[l].waiting[i]].epoch <= w[log[l].waiting[j]].epoch
  /\ \A t \in Writer : w[t].pc \in {"finish", "record"} /\ t \notin Range(log[LogOf[t]].waiting) =>
       \A v \in Range(log[LogOf[t]].waiting) : w[v].epoch <= w[t].epoch

\* A log's epochs are behind the clock; a quiescent log has nothing in hand.
LogsState ==
  \A l \in LogId :
    /\ log[l].log_epoch <= global_log_epoch
    /\ log[l].x_epoch <= global_log_epoch
    /\ log[l].flushed_epoch <= global_log_epoch
    /\ log[l].pc # "write" => log[l].x_buf = <<>>
    /\ log[l].pc = "turn" => log[l].holder = Nobody
    /\ log[l].quiescent_epoch # 0 =>
         log[l].buf = <<>> /\ log[l].waiting = <<>> /\ PutsOf(log[l].x_buf) = {}

\* An update that has its epoch is still its thread's, or in the log's buffer, or
\* being written, or on disk.
NothingIsLost ==
  \A u \in Update : hist.epoch[u] # 0 =>
    LET l == hist.where[u] IN
    /\ l \in LogId
    /\ \/ \E t \in Writer : Pending(t) /\ w[t].u = u
       \/ u \in PutsOf(log[l].buf) \cup PutsOf(log[l].x_buf) \cup PutsOf(disk[l])

\* Recorded epochs do not go back: what is pending is no earlier than the log,
\* and what is being written, or flushed, has all that is earlier.
EpochsInTurn ==
  /\ \A t \in Writer : Pending(t) => w[t].epoch >= log[LogOf[t]].log_epoch
  /\ \A u \in Update : hist.epoch[u] # 0 =>
       LET l == hist.where[u] IN
       /\ log[l].pc = "write" /\ hist.epoch[u] < log[l].x_epoch =>
            u \in PutsOf(log[l].x_buf) \cup PutsOf(disk[l])
       /\ hist.epoch[u] < log[l].flushed_epoch => u \in PutsOf(disk[l])

FlushInv ==
  /\ rec = NoRecovery
  /\ TypeOK
  /\ WritersState
  /\ QueueState
  /\ LogsState
  /\ NothingIsLost
  /\ ~hist.overtaken => EpochsInTurn

FirstLife ==
  \/ hist.crashes = 0 /\ FlushInv
  \/ "crashes" \in DOMAIN hist /\ hist.crashes \in Nat \ {0}
=============================================================================
