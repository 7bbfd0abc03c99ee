-------------------------------- MODULE Scan --------------------------------
EXTENDS Tree

(***************************************************************************)
(* Range scans (masstree_scan.hh), forward and in reverse, over one layer  *)
(* of a tree that others change meanwhile.  A scan takes no lock and holds *)
(* nothing from leaf to leaf but the last key: find_initial finds a leaf,  *)
(* find_next reads entry after entry of the permutation it took there and  *)
(* goes on along the leaf list, find_retry starts again from the root when *)
(* a leaf has been removed.  (Changes of layer are left out, and so are    *)
(* upper_bound_ and the stack of scan_up.)                                 *)
(*                                                                         *)
(* The request of a scan is [op |-> "scan", key, rev, equal]: its key is   *)
(* ka, which moves on; equal is emit_firstkey; op becomes "rescan" in      *)
(* find_retry.                                                             *)
(***************************************************************************)

VARIABLE
  scan    \* per thread: perm_, ki_, whether ka is the bound of a leaf without a
          \* length (low), keys emitted; of the keys in range, those that were in
          \* the table at every moment (must) and at some moment (may)

svars == <<vars, scan>>

NoScan ==
  [perm |-> MakeEmpty, ki |-> 0, low |-> FALSE, out |-> <<>>, must |-> {}, may |-> {}]

ScanInit == Init /\ scan = [t \in Thread |-> NoScan]

Scans(t) == req[t] # Idle /\ req[t].op \in {"scan", "rescan"}
Rev(t) == req[t].rev
Present(m) == {k \in Key : m[k] # None}
InRange(r, k) == (r.equal /\ k = r.key) \/ (IF r.rev THEN k < r.key ELSE k > r.key)

\* What the tree's own steps mean for the scans under way.
Observe ==
  scan' = [t \in Thread |->
    IF req[t] = Idle /\ req'[t] # Idle /\ req'[t].op = "scan"
    THEN LET now == {k \in Present(map) : InRange(req'[t], k)}
         IN  [NoScan EXCEPT !.must = now, !.may = now]
    ELSE [scan[t] EXCEPT !.must = @ \cap Present(map'),
            !.may = IF Scans(t) THEN @ \cup (Present(map') \ Present(map)) ELSE @]]

KeepTree == UNCHANGED <<node, root, trims, ops, pre, history>>

-----------------------------------------------------------------------------
(* The helpers of the two directions *)

\* lower: the first entry not before ka; in reverse, the last not after it.
Lower(t, x) ==
  Position(x, K(t)) - (IF Rev(t) /\ (scan[t].low \/ K(t) \notin Keys(x)) THEN 1 ELSE 0)

NextKi(t, i) == IF Rev(t) THEN i - 1 ELSE i + 1
IsDuplicate_Strict(t, k) == IF Rev(t) THEN k > K(t) ELSE k < K(t)
IsDuplicate(t, k) == IF Rev(t) THEN k >= K(t) ELSE k <= K(t)

\* A key whose slice is the bound of leaf x.
BoundKey(x) == CHOOSE k \in Key :
  IkeyOf[k] = Bound(x) /\ \A j \in Key : IkeyOf[j] = Bound(x) => k <= j

\* kp(), -1 if there is no such entry
Kp(t) ==
  LET s == scan[t] IN IF s.ki \in 0 .. s.perm.size - 1 THEN At(s.perm, s.ki) ELSE -1

-----------------------------------------------------------------------------

\* find_initial, once the leaf and its version are found: the first key itself is
\* emitted or skipped.
FindInitial(t) ==
  LET x == node[loc[t].n]
      found == K(t) \in Keys(x)
      i == Lower(t, x)
      emit == found /\ req[t].equal
  IN  /\ pc[t] = "leaf" /\ req[t].op = "scan"
      /\ ~ loc[t].v.deleted /\ ~ HasChanged(loc[t].n, loc[t].v)
      /\ scan' = [scan EXCEPT ![t].perm = x.perm, ![t].ki = IF found THEN NextKi(t, i) ELSE i,
                              ![t].out = IF emit THEN Append(@, K(t)) ELSE @]
      /\ Goto(t, "entry")
      /\ KeepTree /\ UNCHANGED <<loc, req>>

\* find_retry: the version is as reach_leaf took it, the permutation as it is now.
FindRetry(t) ==
  LET x == node[loc[t].n] IN
  /\ pc[t] = "leaf" /\ req[t].op = "rescan" /\ ~ loc[t].v.deleted
  /\ scan' = [scan EXCEPT ![t].perm = x.perm, ![t].ki = Lower(t, x)]
  /\ Goto(t, "entry")
  /\ KeepTree /\ UNCHANGED <<loc, req>>

\* find_next: one entry.
ReadEntry(t) ==
  LET n == loc[t].n
      k == node[n].slot[Kp(t)]
      skip == IsDuplicate(t, k)
  IN  /\ pc[t] = "entry" /\ ~ loc[t].v.deleted /\ Kp(t) >= 0
      /\ IF HasChanged(n, loc[t].v) THEN Goto(t, "changed") /\ UNCHANGED <<scan, req>>
         ELSE /\ scan' = [scan EXCEPT ![t] = [@ EXCEPT !.ki = NextKi(t, @),
                            !.low = @ /\ skip, !.out = IF skip THEN @ ELSE Append(@, k)]]
              /\ req' = [req EXCEPT ![t].key = IF skip THEN @ ELSE k]
              /\ UNCHANGED pc
      /\ KeepTree /\ UNCHANGED loc

\* find_next: the leaf is through, or has changed.
LeaveLeaf(t) ==
  /\ pc[t] = "entry" /\ ~ loc[t].v.deleted /\ Kp(t) < 0
  /\ Goto(t, IF HasChanged(loc[t].n, loc[t].v) THEN "changed" ELSE "advance")
  /\ KeepTree /\ UNCHANGED <<loc, req, scan>>

Again_SameLeaf(t) ==
  /\ pc[t] = "entry" /\ loc[t].v.deleted
  /\ Goto(t, "changed")
  /\ KeepTree /\ UNCHANGED <<loc, req, scan>>

\* scan_retry: the leaf had been removed when its version was taken.
Again(t) ==
  /\ pc[t] = "entry" /\ loc[t].v.deleted
  /\ req' = [req EXCEPT ![t].op = "rescan"]
  /\ loc' = [loc EXCEPT ![t] = FromStart(t)]
  /\ Goto(t, "root")
  /\ KeepTree /\ UNCHANGED scan

\* advance: in reverse ka becomes the bound of the leaf that is left.
AdvanceLeaf(t) ==
  LET x == node[loc[t].n]
      n == IF Rev(t) THEN x.prev ELSE x.next
      low == Rev(t) /\ n # Nil
  IN  /\ pc[t] = "advance"
      /\ loc' = [loc EXCEPT ![t].n = n]
      /\ req' = [req EXCEPT ![t].key = IF low THEN BoundKey(x) ELSE @]
      /\ scan' = [scan EXCEPT ![t].low = low]
      /\ Goto(t, IF n = Nil THEN "scanned" ELSE "changed")
      /\ KeepTree

StableLeaf(t) ==
  /\ pc[t] = "changed" /\ ~ Dirty(loc[t].n)
  /\ loc' = [loc EXCEPT ![t].v = node[loc[t].n].ver]
  /\ Goto(t, "position")
  /\ KeepTree /\ UNCHANGED <<req, scan>>

TooFarLeft_Never(t) == FALSE
\* reverse_scan_helper::stable: the leaf may have split, ka be further right.
TooFarLeft(t) ==
  LET next == node[loc[t].n].next IN
  /\ Rev(t) /\ next # Nil
  /\ IF scan[t].low THEN IkeyOf[K(t)] > Bound(node[next]) ELSE IkeyOf[K(t)] >= Bound(node[next])

TakePosition(t) ==
  LET x == node[loc[t].n] IN
  /\ pc[t] = "position"
  /\ IF TooFarLeft(t)
     THEN loc' = [loc EXCEPT ![t].n = x.next] /\ Goto(t, "changed") /\ UNCHANGED scan
     ELSE /\ scan' = [scan EXCEPT ![t].perm = x.perm, ![t].ki = Lower(t, x)]
          /\ Goto(t, "entry") /\ UNCHANGED loc
  /\ KeepTree /\ UNCHANGED req

ScanEnd(t) ==
  /\ pc[t] = "scanned"
  /\ req' = [req EXCEPT ![t] = Idle]
  /\ scan' = [scan EXCEPT ![t] = NoScan]
  /\ Goto(t, "idle")
  /\ loc' = [loc EXCEPT ![t] = NoLocals]
  /\ KeepTree

ScanStep(t) ==
  \/ FindInitial(t) \/ FindRetry(t) \/ ReadEntry(t) \/ LeaveLeaf(t) \/ Again(t)
  \/ AdvanceLeaf(t) \/ StableLeaf(t) \/ TakePosition(t) \/ ScanEnd(t)

ScanNext ==
  \/ Load /\ Observe
  \/ \E t \in Thread : (Call(t) \/ RunCallback(t) \/ Step(t)) /\ Observe
  \/ \E t \in Thread : ScanStep(t)
  \/ Done /\ UNCHANGED scan

ScanSpec == ScanInit /\ [][ScanNext]_svars
FairScanSpec ==
  ScanSpec /\ \A t \in Thread : WF_svars(ScanStep(t)) /\ WF_svars(Step(t) /\ Observe)

-----------------------------------------------------------------------------

\* A scan gives keys in order, none twice, whatever splits and removals it meets
\* and however often it starts again.
ScanIsOrdered ==
  \A t \in Thread : \A i \in 1 .. Len(scan[t].out) - 1 :
    LET a == scan[t].out[i]
        b == scan[t].out[i + 1]
    IN  IF Rev(t) THEN b < a ELSE a < b

\* When a scan ends it has given every key of the range that was in the table all
\* the time, and none that was not in it at some time.
ScanIsComplete ==
  \A t \in Thread : pc[t] = "scanned" =>
    /\ scan[t].must \subseteq SX!Range(scan[t].out)
    /\ SX!Range(scan[t].out) \subseteq scan[t].may
=============================================================================
