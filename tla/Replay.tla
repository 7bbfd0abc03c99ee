------------------------------- MODULE Replay -------------------------------
(***************************************************************************)
(* Replay of one key's updates (logrecord::apply, log.cc).  The records of *)
(* a key may be spread over several logs, whose threads replay them at the *)
(* same time: each log in its order, the logs in any.  A modify record     *)
(* names the timestamp of the row it changed; if that row is not there yet *)
(* the record is kept in a delta marker until it is.  The table starts     *)
(* with what the checkpoint held, which may be newer than some records.    *)
(*                                                                         *)
(* Update i of the history has timestamp 2i (real rows have even ones, and *)
(* a marker has its record's plus 1) and writes a column of its own, so a  *)
(* row is the set of the updates it reflects.  Removes are left out: the   *)
(* changeset that apply parses for one is not a changeset (README).        *)
(***************************************************************************)
EXTENDS Naturals, Sequences, FiniteSets, SequencesExt

CONSTANTS
  NLog,
  MaxOps     \* bound: updates in the history of the key

Kind == {"put", "replace", "modify"}

VARIABLES
  ops,       \* the history: the kind of each update, in timestamp order
  where,     \* the log that has each update
  left,      \* the updates not replayed yet
  value,     \* the key's rows, newest first: delta markers, then a real row
  created, removed   \* tc_replay_create_delta, tc_replay_remove_delta

vars == <<ops, where, left, value, created, removed>>

Row(t, s) == [delta |-> FALSE, ts |-> t, prev_ts |-> 0, cols |-> s]
Marker(t, p, s) == [delta |-> TRUE, ts |-> t + 1, prev_ts |-> p, cols |-> s]

\* query::apply_put and apply_replace: a put that found no row was logged as
\* a put, one that found a row as a modify.
IsHistory(h) ==
  \A i \in DOMAIN h : (h[i] = "put") <=> (i = 1 /\ h[i] # "replace")

\* The row after the first i updates.
RowAfter(h, i) ==
  LET full == {j \in 1..i : h[j] # "modify"} IN Row(2 * i, Max(full)..i)

\* The checkpoint has the row after update c; the logs go back to update b or
\* further, so that no update between is in neither.
Init ==
  \E n \in 1..MaxOps :
    /\ ops \in {h \in [1..n -> Kind] : IsHistory(h)}
    /\ where \in [1..n -> 1..NLog]
    /\ \E c \in 0..n, b \in 0..n :
         /\ b <= c
         /\ value = IF c = 0 THEN <<>> ELSE <<RowAfter(ops, c)>>
         /\ left = (b + 1)..n
    /\ created = 0 /\ removed = 0

\* "Find point to insert change": after the markers of later updates.
Later(ts) == {i \in DOMAIN value : \A j \in 1..i : value[j].delta /\ value[j].ts > ts}

Deltas(s) == Cardinality({i \in DOMAIN s : s[i].delta})

\* The oldest marker is folded into the real row it was made for, then the
\* next one, as far as they fit.
Fits(s) == LET n == Len(s) IN n >= 2 /\ ~s[n].delta /\ s[n - 1].prev_ts = s[n].ts
CleanUp[s \in Seq([delta : BOOLEAN, ts : Nat, prev_ts : Nat, cols : SUBSET Nat])] ==
  LET n == Len(s)
  IN  IF Fits(s)
      THEN CleanUp[Append(SubSeq(s, 1, n - 2),
                          Row(s[n - 1].ts - 1, s[n].cols \cup s[n - 1].cols))]
      ELSE s

\* Variant: the newest entry decides, marker or not.
OutOfDate_Newest(rest, ts) == value # <<>> /\ value[1].ts >= ts
OutOfDate(rest, ts) == rest # <<>> /\ rest[1].ts >= ts

Apply(i) ==
  LET ts == 2 * i
      prev_ts == 2 * (i - 1)
      skip == Cardinality(Later(ts))
      rest == SubSeq(value, skip + 1, Len(value))
      kept == IF ops[i] = "modify" THEN rest ELSE <<>>
      new == IF ops[i] # "modify" THEN <<Row(ts, {i})>>
             ELSE IF rest # <<>> /\ rest[1].ts = prev_ts
             THEN <<Row(ts, rest[1].cols \cup {i})>> \o Tail(rest)
             ELSE <<Marker(ts, prev_ts, {i})>> \o rest
      before == SubSeq(value, 1, skip) \o new
      after == CleanUp[before]
  IN
  /\ i \in left /\ \A j \in left : where[j] = where[i] => i <= j
  /\ left' = left \ {i}
  /\ IF OutOfDate(rest, ts)
     THEN UNCHANGED <<value, created, removed>>
     ELSE /\ value' = after
          /\ created' = created + (IF new[1].delta THEN 1 ELSE 0)
          /\ removed' = removed + Deltas(rest) - Deltas(kept) + Deltas(before) - Deltas(after)
  /\ UNCHANGED <<ops, where>>

Done == left = {} /\ UNCHANGED vars

Next == (\E i \in left : Apply(i)) \/ Done

Spec == Init /\ [][Next]_vars

-----------------------------------------------------------------------------
\* Whatever the order of the logs, and whatever of the records the checkpoint
\* had already, replay ends with the row that the server last had (mtd.cc says
\* "we don't have to do an explicit merge by time of the log files"), with no
\* delta marker left and as many removed as were made (mtd.cc:1480-1491).
ReplayIsFaithful ==
  left = {} => value = <<RowAfter(ops, Len(ops))>> /\ created = removed
=============================================================================
