---------------------------- MODULE VersionedRow ----------------------------
(***************************************************************************)
(* A row of type value_versioned_array: an update that fits changes the    *)
(* columns in place, between setdirty and clearandbump of the row's        *)
(* version, while readers copy the columns (snapshot) and start again if   *)
(* the version has changed.  An update runs under the lock of the leaf, so *)
(* there is one at a time.  The version's counter wraps (31 bits in the    *)
(* code, modulo M here).                                                   *)
(***************************************************************************)
EXTENDS Naturals, FiniteSets

CONSTANTS
  Col,          \* columns
  Reader,
  M,            \* values of the version's counter, more than MaxUpdates
  MaxUpdates    \* bound: updates

VARIABLES
  cols,     \* per column: the update that wrote it
  ver,      \* the version: [ctr, dirty]
  upd,      \* the update: its number, the columns it has still to write
  rd,       \* per reader: pc, version, copied columns, columns to copy
  past      \* history: the rows there were between updates

vars == <<cols, ver, upd, rd, past>>

Idle == [pc |-> "idle", v1 |-> 0, copy |-> [c \in Col |-> 0], left |-> {}]

Init ==
  /\ cols = [c \in Col |-> 0]
  /\ ver = [ctr |-> 0, dirty |-> FALSE]
  /\ upd = [n |-> 0, left |-> {}]
  /\ rd = [r \in Reader |-> Idle]
  /\ past = {cols}

Begin(cs) ==
  /\ ~ver.dirty /\ upd.n < MaxUpdates
  /\ ver' = [ver EXCEPT !.dirty = TRUE]
  /\ upd' = [n |-> upd.n + 1, left |-> cs]
  /\ UNCHANGED <<cols, rd, past>>

Write(c) ==
  /\ c \in upd.left
  /\ cols' = [cols EXCEPT ![c] = upd.n]
  /\ upd' = [upd EXCEPT !.left = @ \ {c}]
  /\ UNCHANGED <<ver, rd, past>>

ClearAndBump ==
  /\ ver.dirty /\ upd.left = {}
  /\ ver' = [ctr |-> (ver.ctr + 1) % M, dirty |-> FALSE]
  /\ past' = past \cup {cols}
  /\ UNCHANGED <<cols, upd, rd>>

\* rowversion::stable waits while the row is dirty.
Snapshot(r) ==
  /\ rd[r].pc \in {"idle", "done"} /\ ~ver.dirty
  /\ rd' = [rd EXCEPT ![r] = [pc |-> "copy", v1 |-> ver.ctr, copy |-> Idle.copy, left |-> Col]]
  /\ UNCHANGED <<cols, ver, upd, past>>

\* One column of the memcpy.
Copy(r, c) ==
  /\ rd[r].pc = "copy" /\ c \in rd[r].left
  /\ rd' = [rd EXCEPT ![r].copy[c] = cols[c], ![r].left = @ \ {c}]
  /\ UNCHANGED <<cols, ver, upd, past>>

\* Variant: no second look at the version.
Changed_No(r) == FALSE
Changed(r) == ver.ctr # rd[r].v1

Check(r) ==
  /\ rd[r].pc = "copy" /\ rd[r].left = {} /\ ~ver.dirty
  /\ rd' = [rd EXCEPT ![r] = IF Changed(r) THEN [@ EXCEPT !.v1 = ver.ctr, !.left = Col]
                                           ELSE [@ EXCEPT !.pc = "done"]]
  /\ UNCHANGED <<cols, ver, upd, past>>

Next ==
  \/ \E cs \in SUBSET Col \ {{}} : Begin(cs)
  \/ \E c \in Col : Write(c)
  \/ ClearAndBump
  \/ \E r \in Reader : Snapshot(r) \/ Check(r) \/ \E c \in Col : Copy(r, c)

Spec == Init /\ [][Next]_vars

-----------------------------------------------------------------------------
\* What a snapshot returns is the row as it was between two updates, never
\* some columns of one state and some of another (value_versioned_array.cc:31).
SnapshotIsWhole == \A r \in Reader : rd[r].pc = "done" => rd[r].copy \in past

-----------------------------------------------------------------------------
\* The inductive invariant behind SnapshotIsWhole.
TypeOK ==
  /\ cols \in [Col -> Nat]
  /\ ver \in [ctr : Nat, dirty : BOOLEAN]
  /\ upd \in [n : 0 .. MaxUpdates, left : SUBSET Col]
  /\ rd \in [Reader -> [pc : {"idle", "copy", "done"}, v1 : Nat,
                        copy : [Col -> Nat], left : SUBSET Col]]

\* The counter has counted the updates that are through, and not wrapped.
VersionCounts == ver.ctr = IF ver.dirty THEN upd.n - 1 ELSE upd.n

\* Columns change while the row is dirty, and not otherwise.
CleanIsPast == ~ver.dirty => upd.left = {} /\ cols \in past

\* A version that a reader holds is not from the future; if it is that of the
\* clean row, what the reader has copied is what the row has.
CopiesAgree ==
  \A r \in Reader : rd[r].pc = "copy" =>
    /\ rd[r].v1 <= ver.ctr
    /\ ~ver.dirty /\ rd[r].v1 = ver.ctr =>
         \A c \in Col \ rd[r].left : rd[r].copy[c] = cols[c]

VInv == TypeOK /\ VersionCounts /\ CleanIsPast /\ CopiesAgree /\ SnapshotIsWhole
=============================================================================
