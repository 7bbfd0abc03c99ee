------------------------- MODULE VersionedRowProofs -------------------------
(***************************************************************************)
(* SnapshotIsWhole for any number of columns, readers and updates, as long *)
(* as the version's counter does not come round: M > MaxUpdates.  VInv is  *)
(* inductive; one lemma per action, one step per conjunct of VInv.         *)
(***************************************************************************)
EXTENDS VersionedRow, TLAPS

\* No update yet: the row is clean, and nobody reads.
LEMMA InitVInv ==
  ASSUME M \in Nat, MaxUpdates \in Nat, MaxUpdates < M, Init
  PROVE  VInv
<1> USE DEF Init, Idle
<1>1. TypeOK
  BY DEF TypeOK
<1>2. VersionCounts /\ CleanIsPast /\ CopiesAgree /\ SnapshotIsWhole
  BY DEF VersionCounts, CleanIsPast, CopiesAgree, SnapshotIsWhole
<1>3. QED
  BY <1>1, <1>2 DEF VInv

\* setdirty.
LEMMA BeginStep ==
  ASSUME MaxUpdates \in Nat, VInv, NEW cs \in SUBSET Col, Begin(cs)
  PROVE  VInv'
<1> USE DEF VInv, Begin
<1>1. TypeOK'
  <2>1. upd.n + 1 \in 0 .. MaxUpdates
    BY DEF TypeOK
  <2>2. ver' \in [ctr : Nat, dirty : BOOLEAN]
    BY DEF TypeOK
  <2>3. QED
    BY <2>1, <2>2 DEF TypeOK
<1>2. VersionCounts'
  BY DEF TypeOK, VersionCounts
<1>3. CleanIsPast' /\ CopiesAgree'
  BY DEF TypeOK, CleanIsPast, CopiesAgree
<1>4. SnapshotIsWhole'
  BY DEF SnapshotIsWhole
<1>5. QED
  BY <1>1, <1>2, <1>3, <1>4

\* A column is written, in a dirty row.
LEMMA WriteStep ==
  ASSUME VInv, NEW c \in Col, Write(c)
  PROVE  VInv'
<1> USE DEF VInv, Write
<1>1. ver.dirty
  BY DEF CleanIsPast
<1>2. TypeOK'
  BY DEF TypeOK
<1>3. VersionCounts'
  BY DEF TypeOK, VersionCounts
<1>4. CleanIsPast' /\ CopiesAgree'
  BY <1>1 DEF CleanIsPast, CopiesAgree
<1>5. SnapshotIsWhole'
  BY DEF SnapshotIsWhole
<1>6. QED
  BY <1>2, <1>3, <1>4, <1>5

\* clearandbump: the counter leaves every version behind that a reader holds.
LEMMA ClearAndBumpStep ==
  ASSUME M \in Nat, MaxUpdates \in Nat, MaxUpdates < M, VInv, ClearAndBump
  PROVE  VInv'
<1> USE DEF VInv, ClearAndBump
<1>1. ver.ctr + 1 = upd.n /\ ver.ctr \in Nat /\ upd.n \in 0 .. MaxUpdates
  BY DEF TypeOK, VersionCounts
<1>2. (ver.ctr + 1) % M = ver.ctr + 1
  BY <1>1
<1>3. ver' = [ctr |-> ver.ctr + 1, dirty |-> FALSE]
  BY <1>2
<1>4. TypeOK'
  BY <1>1, <1>3 DEF TypeOK
<1>5. VersionCounts' /\ CleanIsPast'
  BY <1>1, <1>3 DEF VersionCounts, CleanIsPast
<1>6. CopiesAgree'
  BY <1>1, <1>3 DEF TypeOK, CopiesAgree
<1>7. SnapshotIsWhole'
  BY DEF SnapshotIsWhole
<1>8. QED
  BY <1>4, <1>5, <1>6, <1>7

\* A reader starts.
LEMMA SnapshotStep ==
  ASSUME VInv, NEW r \in Reader, Snapshot(r)
  PROVE  VInv'
<1> USE DEF VInv, Snapshot, Idle
<1>1. TypeOK'
  BY DEF TypeOK
<1>2. VersionCounts' /\ CleanIsPast'
  BY DEF VersionCounts, CleanIsPast
<1>3. CopiesAgree'
  BY DEF TypeOK, CopiesAgree
<1>4. SnapshotIsWhole'
  BY DEF TypeOK, SnapshotIsWhole
<1>5. QED
  BY <1>1, <1>2, <1>3, <1>4

\* A reader copies a column.
LEMMA CopyStep ==
  ASSUME VInv, NEW r \in Reader, NEW c \in Col, Copy(r, c)
  PROVE  VInv'
<1> USE DEF VInv, Copy
<1>1. rd' = [rd EXCEPT ![r] = [@ EXCEPT !.copy = [@ EXCEPT ![c] = cols[c]], !.left = @ \ {c}]]
  BY DEF TypeOK
<1>2. TypeOK'
  BY <1>1 DEF TypeOK
<1>3. VersionCounts' /\ CleanIsPast'
  BY DEF VersionCounts, CleanIsPast
<1>4. CopiesAgree'
  BY <1>1 DEF TypeOK, CopiesAgree
<1>5. SnapshotIsWhole'
  BY <1>1 DEF TypeOK, SnapshotIsWhole
<1>6. QED
  BY <1>2, <1>3, <1>4, <1>5

\* A reader compares the version with its own: equal, the copy is the row.
LEMMA CheckStep ==
  ASSUME VInv, NEW r \in Reader, Check(r)
  PROVE  VInv'
<1> USE DEF VInv, Check, Changed
<1>1. TypeOK'
  <2>1. ver.ctr \in Nat /\ Col \in SUBSET Col /\ rd \in [Reader -> [pc : {"idle", "copy", "done"},
          v1 : Nat, copy : [Col -> Nat], left : SUBSET Col]]
    BY DEF TypeOK
  <2>2. CASE ver.ctr # rd[r].v1
    <3>1. rd' = [rd EXCEPT ![r] = [@ EXCEPT !.v1 = ver.ctr, !.left = Col]]
      BY <2>2
    <3>2. [rd[r] EXCEPT !.v1 = ver.ctr, !.left = Col]
            \in [pc : {"idle", "copy", "done"}, v1 : Nat, copy : [Col -> Nat], left : SUBSET Col]
      BY <2>1
    <3>3. rd' \in [Reader -> [pc : {"idle", "copy", "done"}, v1 : Nat,
                             copy : [Col -> Nat], left : SUBSET Col]]
      BY <2>1, <3>1, <3>2
    <3>4. QED
      BY <3>3 DEF TypeOK
  <2>3. CASE ver.ctr = rd[r].v1
    <3>1. rd' = [rd EXCEPT ![r] = [@ EXCEPT !.pc = "done"]]
      BY <2>3
    <3>2. [rd[r] EXCEPT !.pc = "done"]
            \in [pc : {"idle", "copy", "done"}, v1 : Nat, copy : [Col -> Nat], left : SUBSET Col]
      BY <2>1
    <3>3. rd' \in [Reader -> [pc : {"idle", "copy", "done"}, v1 : Nat,
                             copy : [Col -> Nat], left : SUBSET Col]]
      BY <2>1, <3>1, <3>2
    <3>4. QED
      BY <3>3 DEF TypeOK
  <2>4. QED
    BY <2>2, <2>3
<1>2. VersionCounts' /\ CleanIsPast'
  BY DEF VersionCounts, CleanIsPast
<1>3. CopiesAgree'
  BY DEF TypeOK, CopiesAgree
<1>4. SnapshotIsWhole'
  <2>1. ASSUME rd[r].v1 = ver.ctr PROVE rd[r].copy \in past
    <3>1. \A c \in Col : rd[r].copy[c] = cols[c]
      BY <2>1 DEF CopiesAgree
    <3>2. rd[r].copy \in [Col -> Nat] /\ cols \in [Col -> Nat]
      BY DEF TypeOK
    <3>3. rd[r].copy = cols
      BY <3>1, <3>2
    <3>4. QED
      BY <3>3 DEF CleanIsPast
  <2>2. QED
    BY <2>1 DEF TypeOK, SnapshotIsWhole
<1>5. QED
  BY <1>1, <1>2, <1>3, <1>4

\* VInv is inductive.
LEMMA NextVInv ==
  ASSUME M \in Nat, MaxUpdates \in Nat, MaxUpdates < M, VInv, [Next]_vars
  PROVE  VInv'
<1>1. ASSUME NEW cs \in SUBSET Col, Begin(cs) PROVE VInv'
  BY <1>1, BeginStep
<1>2. ASSUME NEW c \in Col, Write(c) PROVE VInv'
  BY <1>2, WriteStep
<1>3. CASE ClearAndBump
  BY <1>3, ClearAndBumpStep
<1>4. ASSUME NEW r \in Reader, Snapshot(r) \/ Check(r) PROVE VInv'
  BY <1>4, SnapshotStep, CheckStep
<1>5. ASSUME NEW r \in Reader, NEW c \in Col, Copy(r, c) PROVE VInv'
  BY <1>5, CopyStep
<1>6. CASE UNCHANGED vars
  BY <1>6 DEF vars, VInv, TypeOK, VersionCounts, CleanIsPast, CopiesAgree, SnapshotIsWhole
<1>7. QED
  BY <1>1, <1>2, <1>3, <1>4, <1>5, <1>6 DEF Next

\* A snapshot of a row that is updated in place is a row there was, whatever
\* the updates write and however often the reader has to start again, for any
\* number of columns, readers and updates (value_versioned_array.cc:31); that
\* the counter does not come round in the meantime is assumed.
THEOREM SnapshotsAreWhole ==
  ASSUME M \in Nat, MaxUpdates \in Nat, MaxUpdates < M
  PROVE  Spec => []SnapshotIsWhole
<1>1. Init => VInv
  BY InitVInv
<1>2. VInv /\ [Next]_vars => VInv'
  BY NextVInv
<1>3. VInv => SnapshotIsWhole
  BY DEF VInv
<1>4. QED
  BY <1>1, <1>2, <1>3, PTL DEF Spec

=============================================================================
