------------------------------ MODULE RcuProofs -----------------------------
(***************************************************************************)
(* InsideIsSafe for any number of threads and objects: an object that is   *)
(* unlinked before it is retired is not freed while a thread inside        *)
(* rcu_start/rcu_stop has a pointer to it.  RInv is inductive; one lemma   *)
(* per action, one step per conjunct of RInv.  The second half is about    *)
(* the objects that are retired first: TreeIsSafe, by RetireInv.           *)
(***************************************************************************)
EXTENDS Rcu, TLAPS

\* Nobody is inside and nothing is retired.
LEMMA InitRInv == Init => RInv
<1> SUFFICES ASSUME Init PROVE RInv
  OBVIOUS
<1> USE DEF Init
<1>1. TypeOK
  <2>1. linked \in SUBSET Obj /\ freed \in SUBSET Obj /\ todo \in SUBSET Worker
    OBVIOUS
  <2>2. ticking \in BOOLEAN
    OBVIOUS
  <2>3. limbo \in [Worker -> Seq(Retired)] /\ pc \in [Worker -> PCs]
    BY DEF PCs
  <2>4. held \in [Worker -> SUBSET Obj]
    OBVIOUS
  <2>5. QED
    BY <2>1, <2>2, <2>3, <2>4 DEF TypeOK
<1>2. EpochsInOrder
  BY DEF EpochsInOrder, Inside
<1>3. NobodyIsOvertaken /\ HoldersCameFirst
  BY DEF NobodyIsOvertaken, HoldersCameFirst, Inside
<1>4. HeldState /\ InsideIsSafe
  BY DEF HeldState, InsideIsSafe, Inside
<1>5. QED
  BY <1>1, <1>2, <1>3, <1>4 DEF RInv

\* rcu_start loads the global epoch.
LEMMA StartLoadStep ==
  ASSUME NEW t \in Worker, RInv, StartLoad(t)
  PROVE  RInv'
<1> USE DEF RInv, StartLoad, Goto, threadVars, tickVars
<1>1. TypeOK'
  BY DEF TypeOK, PCs
<1>2. EpochsInOrder'
  BY DEF TypeOK, EpochsInOrder, Inside
<1>3. NobodyIsOvertaken'
  BY DEF NobodyIsOvertaken, Inside
<1>4. HoldersCameFirst'
  BY DEF HoldersCameFirst, Inside
<1>5. HeldState'
  BY DEF HeldState
<1>6. InsideIsSafe'
  BY DEF InsideIsSafe, Inside
<1>7. QED
  BY <1>1, <1>2, <1>3, <1>4, <1>5, <1>6

\* rcu_quiesce loads the global epoch.
LEMMA QuiesceLoadStep ==
  ASSUME NEW t \in Worker, RInv, QuiesceLoad(t)
  PROVE  RInv'
<1> USE DEF RInv, QuiesceLoad, Goto, threadVars, tickVars
<1>1. TypeOK'
  BY DEF TypeOK, PCs
<1>2. EpochsInOrder'
  BY DEF TypeOK, EpochsInOrder, Inside
<1>3. NobodyIsOvertaken'
  BY DEF NobodyIsOvertaken, Inside
<1>4. HoldersCameFirst'
  BY DEF HoldersCameFirst, Inside
<1>5. HeldState'
  BY DEF TypeOK, HeldState
<1>6. InsideIsSafe'
  BY DEF InsideIsSafe, Inside
<1>7. QED
  BY <1>1, <1>2, <1>3, <1>4, <1>5, <1>6

\* The thread becomes visible to the timer.
LEMMA StartStoreStep ==
  ASSUME NEW t \in Worker, RInv, StartStore(t)
  PROVE  RInv'
<1> USE DEF RInv, StartStore, Goto, threadVars, tickVars
<1>1. TypeOK'
  BY DEF TypeOK, PCs
<1>2. EpochsInOrder'
  BY DEF TypeOK, EpochsInOrder, Inside
<1>3. NobodyIsOvertaken'
  BY DEF TypeOK, EpochsInOrder, NobodyIsOvertaken, Inside
<1>4. HoldersCameFirst'
  BY DEF HoldersCameFirst, HeldState, Inside
<1>5. HeldState'
  BY DEF HeldState
<1>6. InsideIsSafe'
  BY DEF HeldState, InsideIsSafe, Inside
<1>7. QED
  BY <1>1, <1>2, <1>3, <1>4, <1>5, <1>6

\* A pointer is read from the tree.
LEMMA ReadStep ==
  ASSUME NEW t \in Worker, NEW o \in Obj, RInv, Read(t, o)
  PROVE  RInv'
<1> USE DEF RInv, Read, threadVars, tickVars
<1>1. TypeOK'
  BY DEF TypeOK, PCs
<1>2. EpochsInOrder'
  BY DEF EpochsInOrder, Inside
<1>3. NobodyIsOvertaken'
  BY DEF NobodyIsOvertaken, Inside
<1>4. HoldersCameFirst'
  BY DEF HoldersCameFirst, Inside
<1>5. HeldState'
  BY DEF HeldState
<1>6. InsideIsSafe'
  BY DEF HeldState, InsideIsSafe, Inside
<1>7. QED
  BY <1>1, <1>2, <1>3, <1>4, <1>5, <1>6

\* An object leaves the tree.
LEMMA UnlinkStep ==
  ASSUME NEW t \in Worker, NEW o \in Obj, RInv, Unlink(t, o)
  PROVE  RInv'
<1> USE DEF RInv, Unlink, Goto, threadVars, tickVars
<1>1. TypeOK'
  BY DEF TypeOK, PCs
<1>2. EpochsInOrder'
  BY DEF EpochsInOrder, Inside
<1>3. NobodyIsOvertaken'
  BY DEF NobodyIsOvertaken, Inside
<1>4. HoldersCameFirst'
  BY DEF HoldersCameFirst, Inside
<1>5. HeldState'
  BY DEF TypeOK, HeldState
<1>6. InsideIsSafe'
  BY DEF HeldState, InsideIsSafe, Inside
<1>7. QED
  BY <1>1, <1>2, <1>3, <1>4, <1>5, <1>6

\* record_rcu of an object that has left the tree.
LEMMA RetireStep ==
  ASSUME NEW t \in Worker, NEW o \in Obj, RInv, Retire(t, o)
  PROVE  RInv'
<1> USE DEF RInv, Retire, PushBack, Goto, threadVars, tickVars
<1>1. TypeOK'
  <2>1. /\ limbo'[t] = Append(limbo[t], [ptr |-> o, epoch |-> globalepoch])
        /\ \A u \in Worker : u # t => limbo'[u] = limbo[u]
    BY DEF TypeOK
  <2>2. [ptr |-> o, epoch |-> globalepoch] \in Retired /\ limbo[t] \in Seq(Retired)
    BY DEF TypeOK, Retired
  <2>3. limbo' \in [Worker -> Seq(Retired)]
    BY <2>1, <2>2 DEF TypeOK
  <2>4. QED
    BY <2>3 DEF TypeOK, PCs
<1>2. EpochsInOrder'
  BY DEF EpochsInOrder, Inside
<1>3. NobodyIsOvertaken'
  BY DEF NobodyIsOvertaken, Inside
<1>4. HoldersCameFirst'
  <2>1. /\ limbo'[t] = Append(limbo[t], [ptr |-> o, epoch |-> globalepoch])
        /\ \A u \in Worker : u # t => limbo'[u] = limbo[u]
    BY DEF TypeOK
  <2>2. [ptr |-> o, epoch |-> globalepoch] \in Retired /\ limbo[t] \in Seq(Retired)
    BY DEF TypeOK, Retired
  <2>3. /\ Len(limbo'[t]) = Len(limbo[t]) + 1
        /\ \A i \in 1 .. Len(limbo[t]) : limbo'[t][i] = limbo[t][i]
        /\ limbo'[t][Len(limbo[t]) + 1] = [ptr |-> o, epoch |-> globalepoch]
        /\ DOMAIN limbo'[t] = 1 .. Len(limbo[t]) + 1
        /\ DOMAIN limbo[t] = 1 .. Len(limbo[t]) /\ Len(limbo[t]) \in Nat
    BY <2>1, <2>2
  <2>4. ASSUME NEW u \in Worker, NEW i \in DOMAIN limbo'[u]
        PROVE  \/ i \in DOMAIN limbo[u] /\ limbo'[u][i] = limbo[u][i]
               \/ limbo'[u][i] = [ptr |-> o, epoch |-> globalepoch]
    BY <2>1, <2>3
  <2>5. o \notin linked
    BY DEF HeldState
  <2>6. \A u \in Worker : Inside(u)' => Inside(u) /\ entry[u] <= globalepoch
    BY DEF TypeOK, Inside, EpochsInOrder
  <2>7. QED
    BY <2>4, <2>5, <2>6 DEF HoldersCameFirst
<1>5. HeldState'
  BY DEF HeldState
<1>6. InsideIsSafe'
  BY DEF InsideIsSafe, Inside
<1>7. QED
  BY <1>1, <1>2, <1>3, <1>4, <1>5, <1>6

\* record_rcu of an object still in the tree.
LEMMA RetireFirstStep ==
  ASSUME NEW t \in Worker, NEW o \in Obj, RInv, RetireFirst(t, o)
  PROVE  RInv'
<1> USE DEF RInv, RetireFirst, PushBack, Goto, threadVars, tickVars
<1>1. TypeOK'
  <2>1. /\ limbo'[t] = Append(limbo[t], [ptr |-> o, epoch |-> globalepoch])
        /\ \A u \in Worker : u # t => limbo'[u] = limbo[u]
    BY DEF TypeOK
  <2>2. [ptr |-> o, epoch |-> globalepoch] \in Retired /\ limbo[t] \in Seq(Retired)
    BY DEF TypeOK, Retired
  <2>3. limbo' \in [Worker -> Seq(Retired)]
    BY <2>1, <2>2 DEF TypeOK
  <2>4. QED
    BY <2>3 DEF TypeOK, PCs
<1>2. EpochsInOrder'
  BY DEF EpochsInOrder, Inside
<1>3. NobodyIsOvertaken'
  BY DEF NobodyIsOvertaken, Inside
<1>4. HoldersCameFirst'
  <2>1. /\ limbo'[t] = Append(limbo[t], [ptr |-> o, epoch |-> globalepoch])
        /\ \A u \in Worker : u # t => limbo'[u] = limbo[u]
    BY DEF TypeOK
  <2>2. [ptr |-> o, epoch |-> globalepoch] \in Retired /\ limbo[t] \in Seq(Retired)
    BY DEF TypeOK, Retired
  <2>3. /\ Len(limbo'[t]) = Len(limbo[t]) + 1
        /\ \A i \in 1 .. Len(limbo[t]) : limbo'[t][i] = limbo[t][i]
        /\ limbo'[t][Len(limbo[t]) + 1] = [ptr |-> o, epoch |-> globalepoch]
        /\ DOMAIN limbo'[t] = 1 .. Len(limbo[t]) + 1
        /\ DOMAIN limbo[t] = 1 .. Len(limbo[t]) /\ Len(limbo[t]) \in Nat
    BY <2>1, <2>2
  <2>4. ASSUME NEW u \in Worker, NEW i \in DOMAIN limbo'[u]
        PROVE  \/ i \in DOMAIN limbo[u] /\ limbo'[u][i] = limbo[u][i]
               \/ limbo'[u][i] = [ptr |-> o, epoch |-> globalepoch]
    BY <2>1, <2>3
  <2>5. \A u \in Worker : /\ Inside(u)' => Inside(u) /\ entry[u] <= globalepoch
                          /\ held'[u] \ LateUnlink \subseteq held[u] \ LateUnlink
    BY DEF TypeOK, Inside, EpochsInOrder
  <2>6. QED
    BY <2>4, <2>5 DEF HoldersCameFirst
<1>5. HeldState'
  BY DEF HeldState
<1>6. InsideIsSafe'
  BY DEF InsideIsSafe, Inside
<1>7. QED
  BY <1>1, <1>2, <1>3, <1>4, <1>5, <1>6

\* A retired object leaves the tree.
LEMMA UnlinkAfterStep ==
  ASSUME NEW t \in Worker, RInv, UnlinkAfter(t)
  PROVE  RInv'
<1> USE DEF RInv, UnlinkAfter, Goto, threadVars, tickVars
<1>1. TypeOK'
  BY DEF TypeOK, PCs
<1>2. EpochsInOrder'
  BY DEF EpochsInOrder, Inside
<1>3. NobodyIsOvertaken'
  BY DEF NobodyIsOvertaken, Inside
<1>4. HoldersCameFirst'
  BY DEF HoldersCameFirst, Inside
<1>5. HeldState'
  BY DEF HeldState
<1>6. InsideIsSafe'
  BY DEF InsideIsSafe, Inside
<1>7. QED
  BY <1>1, <1>2, <1>3, <1>4, <1>5, <1>6

\* The request is done.
LEMMA FinishStep ==
  ASSUME NEW t \in Worker, RInv, Finish(t)
  PROVE  RInv'
<1> USE DEF RInv, Finish, Goto, threadVars, tickVars
<1>1. TypeOK'
  BY DEF TypeOK, PCs
<1>2. EpochsInOrder'
  BY DEF EpochsInOrder, Inside
<1>3. NobodyIsOvertaken'
  BY DEF NobodyIsOvertaken, Inside
<1>4. HoldersCameFirst'
  BY DEF HoldersCameFirst, Inside
<1>5. HeldState'
  BY DEF HeldState
<1>6. InsideIsSafe'
  BY DEF InsideIsSafe, Inside
<1>7. QED
  BY <1>1, <1>2, <1>3, <1>4, <1>5, <1>6

\* active_epoch is compared.
LEMMA GcCheckStep ==
  ASSUME NEW t \in Worker, RInv, GcCheck(t)
  PROVE  RInv'
<1> USE DEF RInv, GcCheck, Goto, threadVars, tickVars
<1>1. TypeOK'
  BY DEF TypeOK, PCs
<1>2. EpochsInOrder'
  <2>1. \A u \in Worker : Inside(u)' <=> Inside(u)
    BY DEF TypeOK, Inside
  <2>2. \A u \in Worker : pc'[u] = pc[u] \/ pc'[u] \in {"stopped", "in", "s_bound", "q_bound"}
    BY DEF TypeOK
  <2>3. QED
    BY <2>1, <2>2 DEF EpochsInOrder
<1>3. NobodyIsOvertaken'
  <2>1. \A u \in Worker : Inside(u)' <=> Inside(u)
    BY DEF TypeOK, Inside
  <2>2. \A u \in Worker : pc'[u] = pc[u] \/ pc'[u] \in {"stopped", "in", "s_bound", "q_bound"}
    BY DEF TypeOK
  <2>3. QED
    BY <2>1, <2>2 DEF NobodyIsOvertaken
<1>4. HoldersCameFirst'
  <2>1. \A u \in Worker : Inside(u)' <=> Inside(u)
    BY DEF TypeOK, Inside
  <2>2. QED
    BY <2>1 DEF HoldersCameFirst
<1>5. HeldState'
  BY DEF TypeOK, HeldState
<1>6. InsideIsSafe'
  BY DEF TypeOK, InsideIsSafe, Inside
<1>7. QED
  BY <1>1, <1>2, <1>3, <1>4, <1>5, <1>6

\* active_epoch is read again.
LEMMA GcBoundStep ==
  ASSUME NEW t \in Worker, RInv, GcBound(t)
  PROVE  RInv'
<1> USE DEF RInv, GcBound, Goto, threadVars, tickVars
<1>1. TypeOK'
  <2>1. pc' \in [Worker -> PCs]
    BY DEF TypeOK, PCs
  <2>2. active_epoch - 1 \in Int /\ FreeCount \in Int
    BY CountAssumption DEF TypeOK
  <2>3. bound' \in [Worker -> Int] /\ count' \in [Worker -> Int]
    BY <2>2 DEF TypeOK
  <2>4. QED
    BY <2>1, <2>3 DEF TypeOK
<1>2. EpochsInOrder'
  <2>1. \A u \in Worker : Inside(u)' <=> Inside(u)
    BY DEF TypeOK, Inside
  <2>2. /\ bound'[t] = active_epoch - 1
        /\ pc'[t] \notin {"start", "q_start"}
        /\ \A u \in Worker : u # t => bound'[u] = bound[u] /\ pc'[u] = pc[u]
    BY DEF TypeOK
  <2>3. active_epoch \in Int /\ globalepoch \in Int
    BY DEF TypeOK
  <2>4. \A u \in Worker : pc'[u] \in {"q_free", "s_free"} => bound'[u] < globalepoch
    BY <2>2, <2>3 DEF EpochsInOrder
  <2>5. QED
    BY <2>1, <2>2, <2>4 DEF EpochsInOrder
<1>3. NobodyIsOvertaken'
  <2>1. \A u \in Worker : Inside(u)' <=> Inside(u)
    BY DEF TypeOK, Inside
  <2>2. /\ bound'[t] = active_epoch - 1
        /\ pc'[t] \notin {"start", "q_start"}
        /\ \A u \in Worker : u # t => bound'[u] = bound[u] /\ pc'[u] = pc[u]
    BY DEF TypeOK
  <2>3. active_epoch \in Int /\ globalepoch \in Int
    BY DEF TypeOK
  <2>4. ASSUME NEW u \in Worker, NEW v \in Worker, Inside(u),
               pc'[v] \in {"q_free", "s_free"}
        PROVE  bound'[v] < entry[u]
    <3>1. active_epoch <= entry[u] /\ entry[u] \in Int
      BY <2>4 DEF NobodyIsOvertaken, TypeOK
    <3>2. QED
      BY <2>2, <2>3, <2>4, <3>1 DEF NobodyIsOvertaken
  <2>5. QED
    BY <2>1, <2>4 DEF NobodyIsOvertaken
<1>4. HoldersCameFirst'
  <2>1. \A u \in Worker : Inside(u)' <=> Inside(u)
    BY DEF TypeOK, Inside
  <2>2. QED
    BY <2>1 DEF HoldersCameFirst
<1>5. HeldState'
  BY DEF TypeOK, HeldState
<1>6. InsideIsSafe'
  BY DEF TypeOK, InsideIsSafe, Inside
<1>7. QED
  BY <1>1, <1>2, <1>3, <1>4, <1>5, <1>6

\* The oldest limbo element is freed.
LEMMA FreeOneStep ==
  ASSUME NEW t \in Worker, RInv, FreeOne(t)
  PROVE  RInv'
<1> USE DEF RInv, FreeOne, CanFree, threadVars, tickVars
<1>1. TypeOK'
  <2>1. /\ limbo'[t] = Tail(limbo[t]) /\ limbo[t] \in Seq(Retired) /\ limbo[t] # <<>>
        /\ \A u \in Worker : u # t => limbo'[u] = limbo[u]
    BY DEF TypeOK
  <2>2. /\ Head(limbo[t]) = limbo[t][1] /\ 1 \in DOMAIN limbo[t]
        /\ Head(limbo[t]) \in Retired
    BY <2>1
  <2>3. Tail(limbo[t]) \in Seq(Retired)
    BY <2>1
  <2>4. limbo' \in [Worker -> Seq(Retired)]
    BY <2>1, <2>3 DEF TypeOK
  <2>5. Head(limbo[t]).ptr \in Obj
    BY <2>2 DEF Retired
  <2>6. QED
    BY <2>4, <2>5 DEF TypeOK
<1>2. EpochsInOrder'
  BY DEF EpochsInOrder, Inside
<1>3. NobodyIsOvertaken'
  BY DEF NobodyIsOvertaken, Inside
<1>4. HoldersCameFirst'
  <2>1. /\ limbo'[t] = Tail(limbo[t]) /\ limbo[t] \in Seq(Retired) /\ limbo[t] # <<>>
        /\ \A u \in Worker : u # t => limbo'[u] = limbo[u]
    BY DEF TypeOK
  <2>2. /\ Head(limbo[t]) = limbo[t][1] /\ 1 \in DOMAIN limbo[t]
        /\ Head(limbo[t]) \in Retired
    BY <2>1
  <2>3. /\ Len(limbo[t]) \in Nat /\ Len(limbo[t]) > 0
        /\ DOMAIN Tail(limbo[t]) = 1 .. Len(limbo[t]) - 1
        /\ DOMAIN limbo[t] = 1 .. Len(limbo[t])
        /\ \A i \in 1 .. Len(limbo[t]) - 1 : Tail(limbo[t])[i] = limbo[t][i + 1]
    BY <2>1
  <2>4. ASSUME NEW u \in Worker, NEW i \in DOMAIN limbo'[u]
        PROVE  \E j \in DOMAIN limbo[u] : limbo'[u][i] = limbo[u][j]
    <3>1. CASE u = t
      <4>1. i \in 1 .. Len(limbo[t]) - 1
        BY <2>1, <2>3, <3>1
      <4>2. i + 1 \in 1 .. Len(limbo[t]) /\ Tail(limbo[t])[i] = limbo[t][i + 1]
        BY <2>3, <4>1
      <4>3. QED
        BY <2>1, <2>3, <3>1, <4>2
    <3>2. CASE u # t
      BY <2>1, <2>4, <3>2
    <3>3. QED
      BY <3>1, <3>2
  <2>5. QED
    BY <2>4 DEF HoldersCameFirst, Inside
<1>5. HeldState'
  <2>1. /\ limbo'[t] = Tail(limbo[t]) /\ limbo[t] \in Seq(Retired) /\ limbo[t] # <<>>
        /\ \A u \in Worker : u # t => limbo'[u] = limbo[u]
    BY DEF TypeOK
  <2>2. /\ Head(limbo[t]) = limbo[t][1] /\ 1 \in DOMAIN limbo[t]
        /\ Head(limbo[t]) \in Retired
    BY <2>1
  <2>3. Head(limbo[t]).ptr \in linked => Head(limbo[t]).ptr \in LateUnlink
    BY <2>2 DEF HoldersCameFirst
  <2>4. QED
    BY <2>3 DEF HeldState
<1>6. InsideIsSafe'
  <2>1. /\ limbo'[t] = Tail(limbo[t]) /\ limbo[t] \in Seq(Retired) /\ limbo[t] # <<>>
        /\ \A u \in Worker : u # t => limbo'[u] = limbo[u]
    BY DEF TypeOK
  <2>2. /\ Head(limbo[t]) = limbo[t][1] /\ 1 \in DOMAIN limbo[t]
        /\ Head(limbo[t]) \in Retired
    BY <2>1
  <2>3. ASSUME NEW u \in Worker, Inside(u), Head(limbo[t]).ptr \in held[u] \ LateUnlink
        PROVE  FALSE
    <3>1. entry[u] <= Head(limbo[t]).epoch
      BY <2>2, <2>3 DEF HoldersCameFirst
    <3>2. bound[t] < entry[u] /\ Head(limbo[t]).epoch <= bound[t]
      BY <2>3 DEF NobodyIsOvertaken
    <3>3. entry[u] \in Int /\ bound[t] \in Int /\ Head(limbo[t]).epoch \in Int
      BY <2>2 DEF TypeOK, Retired
    <3>4. QED
      BY <3>1, <3>2, <3>3
  <2>4. QED
    BY <2>3 DEF InsideIsSafe, Inside
<1>7. QED
  BY <1>1, <1>2, <1>3, <1>4, <1>5, <1>6

\* hard_rcu_quiesce returns.
LEMMA GcEndStep ==
  ASSUME NEW t \in Worker, RInv, GcEnd(t)
  PROVE  RInv'
<1> USE DEF RInv, GcEnd, CanFree, Goto, threadVars, tickVars
<1>1. TypeOK'
  BY DEF TypeOK, PCs
<1>2. EpochsInOrder'
  BY DEF TypeOK, EpochsInOrder, Inside
<1>3. NobodyIsOvertaken'
  BY DEF TypeOK, NobodyIsOvertaken, Inside
<1>4. HoldersCameFirst'
  BY DEF HoldersCameFirst, Inside
<1>5. HeldState'
  BY DEF HeldState
<1>6. InsideIsSafe'
  BY DEF InsideIsSafe, Inside
<1>7. QED
  BY <1>1, <1>2, <1>3, <1>4, <1>5, <1>6

\* gc_epoch_ = 0.
LEMMA StopStoreStep ==
  ASSUME NEW t \in Worker, RInv, StopStore(t)
  PROVE  RInv'
<1> USE DEF RInv, StopStore, Goto, threadVars, tickVars
<1>1. TypeOK'
  BY DEF TypeOK, PCs
<1>2. EpochsInOrder'
  BY DEF TypeOK, EpochsInOrder, Inside
<1>3. NobodyIsOvertaken'
  BY DEF TypeOK, NobodyIsOvertaken, Inside
<1>4. HoldersCameFirst'
  BY DEF TypeOK, HoldersCameFirst, Inside
<1>5. HeldState'
  BY DEF TypeOK, HeldState
<1>6. InsideIsSafe'
  BY DEF InsideIsSafe, Inside
<1>7. QED
  BY <1>1, <1>2, <1>3, <1>4, <1>5, <1>6

\* The answer is encoded.
LEMMA ReplyStep ==
  ASSUME NEW t \in Worker, RInv, Reply(t)
  PROVE  RInv'
<1> USE DEF RInv, Reply, Goto, threadVars, tickVars
<1>1. TypeOK'
  BY DEF TypeOK, PCs
<1>2. EpochsInOrder'
  BY DEF EpochsInOrder, Inside
<1>3. NobodyIsOvertaken'
  BY DEF NobodyIsOvertaken, Inside
<1>4. HoldersCameFirst'
  BY DEF HoldersCameFirst, Inside
<1>5. HeldState'
  BY DEF TypeOK, HeldState
<1>6. InsideIsSafe'
  BY DEF InsideIsSafe, Inside
<1>7. QED
  BY <1>1, <1>2, <1>3, <1>4, <1>5, <1>6

\* The global epoch advances.
LEMMA TickStartStep ==
  ASSUME RInv, TickStart
  PROVE  RInv'
<1> USE DEF RInv, TickStart, threadVars, tickVars
<1>1. TypeOK'
  BY DEF TypeOK, PCs
<1>2. EpochsInOrder'
  BY DEF TypeOK, EpochsInOrder, Inside
<1>3. NobodyIsOvertaken'
  BY DEF NobodyIsOvertaken, Inside
<1>4. HoldersCameFirst'
  BY DEF HoldersCameFirst, Inside
<1>5. HeldState'
  BY DEF HeldState
<1>6. InsideIsSafe'
  BY DEF InsideIsSafe, Inside
<1>7. QED
  BY <1>1, <1>2, <1>3, <1>4, <1>5, <1>6

\* min_active_epoch reads a gc_epoch_.
LEMMA TickVisitStep ==
  ASSUME NEW t \in Worker, RInv, TickVisit(t)
  PROVE  RInv'
<1> USE DEF RInv, TickVisit, threadVars, tickVars
<1>1. TypeOK'
  BY DEF TypeOK, PCs
<1>2. EpochsInOrder'
  BY DEF TypeOK, EpochsInOrder, Inside
<1>3. NobodyIsOvertaken'
  BY DEF TypeOK, EpochsInOrder, NobodyIsOvertaken, Inside
<1>4. HoldersCameFirst'
  BY DEF HoldersCameFirst, Inside
<1>5. HeldState'
  BY DEF HeldState
<1>6. InsideIsSafe'
  BY DEF InsideIsSafe, Inside
<1>7. QED
  BY <1>1, <1>2, <1>3, <1>4, <1>5, <1>6

\* active_epoch is stored.
LEMMA TickStoreStep ==
  ASSUME RInv, TickStore
  PROVE  RInv'
<1> USE DEF RInv, TickStore, threadVars, tickVars
<1>1. TypeOK'
  <2>1. ticking' \in BOOLEAN
    BY Zenon
  <2>2. active_epoch' \in Int /\ ae' \in Int
    BY DEF TypeOK
  <2>3. QED
    BY <2>1, <2>2 DEF TypeOK
<1>2. EpochsInOrder'
  BY DEF EpochsInOrder, Inside
<1>3. NobodyIsOvertaken'
  BY DEF NobodyIsOvertaken, Inside
<1>4. HoldersCameFirst'
  BY DEF HoldersCameFirst, Inside
<1>5. HeldState'
  BY DEF HeldState
<1>6. InsideIsSafe'
  BY DEF InsideIsSafe, Inside
<1>7. QED
  BY <1>1, <1>2, <1>3, <1>4, <1>5, <1>6

\* A step that changes nothing keeps the invariant.
LEMMA StutterStep == RInv /\ UNCHANGED vars => RInv'
<1> SUFFICES ASSUME RInv, UNCHANGED vars PROVE RInv'
  OBVIOUS
<1> USE DEF RInv, vars, threadVars, tickVars
<1>1. TypeOK'
  BY DEF TypeOK
<1>2. EpochsInOrder'
  BY DEF EpochsInOrder, Inside
<1>3. NobodyIsOvertaken'
  BY DEF NobodyIsOvertaken, Inside
<1>4. HoldersCameFirst'
  BY DEF HoldersCameFirst, Inside
<1>5. HeldState' /\ InsideIsSafe'
  BY DEF HeldState, InsideIsSafe, Inside
<1>6. QED
  BY <1>1, <1>2, <1>3, <1>4, <1>5

\* RInv is inductive.
LEMMA NextRInv == RInv /\ [Next]_vars => RInv'
<1> SUFFICES ASSUME RInv, [Next]_vars PROVE RInv'
  OBVIOUS
<1>1. CASE Tick
  BY <1>1, TickStartStep, TickVisitStep, TickStoreStep DEF Tick
<1>2. ASSUME NEW t \in Worker, StartLoad(t) PROVE RInv'
  BY <1>2, StartLoadStep
<1>3. ASSUME NEW t \in Worker, Run(t) PROVE RInv'
  <2>1. ASSUME NEW o \in Obj,
               Read(t, o) \/ Unlink(t, o) \/ Retire(t, o) \/ RetireFirst(t, o)
        PROVE  RInv'
    BY <2>1, ReadStep, UnlinkStep, RetireStep, RetireFirstStep
  <2>2. QED
    BY <1>3, <2>1, StartStoreStep, QuiesceLoadStep, UnlinkAfterStep, FinishStep,
       GcCheckStep, GcBoundStep, FreeOneStep, GcEndStep, StopStoreStep, ReplyStep
       DEF Run
<1>4. CASE UNCHANGED vars
  BY <1>4, StutterStep
<1>5. QED
  BY <1>1, <1>2, <1>3, <1>4 DEF Next

\* The invariant of the epochs holds in every reachable state.
THEOREM EpochInvariant == Spec => []RInv
  BY InitRInv, NextRInv, PTL DEF Spec

\* rcu_start ... rcu_stop protects every pointer a thread reads in between to an
\* object that is unlinked before it is retired, for any number of threads,
\* objects and epochs and any FreeCount; the stale epoch a thread may store
\* (rcu_start is a load and a store) and a timer that visits the threads one by
\* one do no harm.
THEOREM ReadersAreProtected == Spec => []InsideIsSafe
<1>1. RInv => InsideIsSafe
  BY DEF RInv
<1>2. QED
  BY <1>1, EpochInvariant, PTL

-----------------------------------------------------------------------------
(* TreeIsSafe: RetireInv is inductive.                                       *)

\* record_rcu puts one element at the end of the thread's own list.
LEMMA PushBackAppends ==
  ASSUME TypeOK, NEW t \in Worker, NEW o \in Obj, PushBack(t, o)
  PROVE  /\ \A u \in Worker : u # t => limbo'[u] = limbo[u]
         /\ Len(limbo[t]) \in Nat
         /\ DOMAIN limbo[t] = 1 .. Len(limbo[t])
         /\ DOMAIN limbo'[t] = 1 .. Len(limbo[t]) + 1
         /\ \A i \in 1 .. Len(limbo[t]) : limbo'[t][i] = limbo[t][i]
         /\ limbo'[t][Len(limbo[t]) + 1] = [ptr |-> o, epoch |-> globalepoch]
<1>1. /\ limbo'[t] = Append(limbo[t], [ptr |-> o, epoch |-> globalepoch])
      /\ \A u \in Worker : u # t => limbo'[u] = limbo[u]
  BY DEF TypeOK, PushBack
<1>2. [ptr |-> o, epoch |-> globalepoch] \in Retired /\ limbo[t] \in Seq(Retired)
  BY DEF TypeOK, Retired
<1>3. QED
  BY <1>1, <1>2

\* The elements after a record_rcu: the ones before, and the new one.
LEMMA PushBackElements ==
  ASSUME TypeOK, NEW t \in Worker, NEW o \in Obj, PushBack(t, o)
  PROVE  \A u \in Worker : \A i \in DOMAIN limbo'[u] :
           \/ i \in DOMAIN limbo[u] /\ limbo'[u][i] = limbo[u][i]
           \/ /\ u = t /\ i = Len(limbo[t]) + 1
              /\ limbo'[u][i] = [ptr |-> o, epoch |-> globalepoch]
<1>1. /\ \A u \in Worker : u # t => limbo'[u] = limbo[u]
      /\ Len(limbo[t]) \in Nat
      /\ DOMAIN limbo[t] = 1 .. Len(limbo[t])
      /\ DOMAIN limbo'[t] = 1 .. Len(limbo[t]) + 1
      /\ \A i \in 1 .. Len(limbo[t]) : limbo'[t][i] = limbo[t][i]
      /\ limbo'[t][Len(limbo[t]) + 1] = [ptr |-> o, epoch |-> globalepoch]
  BY PushBackAppends
<1>2. QED
  BY <1>1

\* An object on no list can be put on one: no object is on two.
LEMMA PushBackDistinct ==
  ASSUME TypeOK, TreeIsSafe, NEW t \in Worker, NEW o \in Obj, PushBack(t, o),
         UNCHANGED freed, linked' \subseteq linked, o \notin freed,
         \A u \in Worker : \A i \in DOMAIN limbo[u] : limbo[u][i].ptr # o
  PROVE  TreeIsSafe'
<1>0. \A u \in Worker : \A i \in DOMAIN limbo'[u] :
        \/ i \in DOMAIN limbo[u] /\ limbo'[u][i] = limbo[u][i]
        \/ /\ u = t /\ i = Len(limbo[t]) + 1
           /\ limbo'[u][i] = [ptr |-> o, epoch |-> globalepoch]
  BY PushBackElements
<1>1. linked' \cap freed' = {}
  BY DEF TreeIsSafe
<1>2. ASSUME NEW u \in Worker, NEW v \in Worker,
             NEW i \in DOMAIN limbo'[u], NEW j \in DOMAIN limbo'[v]
      PROVE  /\ limbo'[u][i].ptr \notin freed'
             /\ limbo'[u][i].ptr = limbo'[v][j].ptr => u = v /\ i = j
  <2>1. \/ i \in DOMAIN limbo[u] /\ limbo'[u][i] = limbo[u][i]
        \/ u = t /\ i = Len(limbo[t]) + 1 /\ limbo'[u][i].ptr = o
    BY <1>0
  <2>2. \/ j \in DOMAIN limbo[v] /\ limbo'[v][j] = limbo[v][j]
        \/ v = t /\ j = Len(limbo[t]) + 1 /\ limbo'[v][j].ptr = o
    BY <1>0
  <2>3. QED
    BY <2>1, <2>2 DEF TreeIsSafe
<1>3. QED
  BY <1>1, <1>2 DEF TreeIsSafe

\* A step that leaves the lists, the tree and the freed objects alone, and the
\* threads that are retiring something where they are.
LEMMA QuietStep ==
  ASSUME RetireInv, RInv', UNCHANGED <<limbo, linked, freed>>,
         \A u \in Worker :
           /\ pc[u] = "retired" => /\ pc'[u] = "retired" /\ held'[u] = held[u]
                                   /\ entry'[u] = entry[u]
           /\ pc'[u] = "unlinked" => pc[u] = "unlinked" /\ held'[u] = held[u]
  PROVE  RetireInv'
<1> USE DEF RetireInv
<1>1. LinkedAreRetiring'
  BY DEF LinkedAreRetiring
<1>2. UnlinkedAreOwned'
  BY DEF UnlinkedAreOwned
<1>3. TreeIsSafe'
  BY DEF TreeIsSafe
<1>4. QED
  BY <1>1, <1>2, <1>3

\* A thread takes an object out of the tree: it alone has it now.
LEMMA UnlinkKeepsTree ==
  ASSUME NEW t \in Worker, NEW o \in Obj, RetireInv, RInv', Unlink(t, o)
  PROVE  RetireInv'
<1> USE DEF RetireInv, Unlink, Goto
<1>1. LinkedAreRetiring'
  <2>1. ASSUME NEW u \in Worker, NEW i \in DOMAIN limbo[u], limbo[u][i].ptr \in linked'
        PROVE  \E v \in Worker : /\ pc'[v] = "retired" /\ held'[v] = {limbo[u][i].ptr}
                                 /\ entry'[v] <= limbo[u][i].epoch
    <3>1. PICK v \in Worker : /\ pc[v] = "retired" /\ held[v] = {limbo[u][i].ptr}
                              /\ entry[v] <= limbo[u][i].epoch
      BY <2>1 DEF LinkedAreRetiring
    <3>2. v # t
      BY <3>1
    <3>3. pc'[v] = pc[v] /\ held'[v] = held[v] /\ entry'[v] = entry[v]
      BY <3>2 DEF threadVars
    <3>4. QED
      BY <3>1, <3>3
  <2>2. QED
    BY <2>1 DEF LinkedAreRetiring
<1>2. UnlinkedAreOwned'
  <2>1. o \notin freed
    BY DEF TreeIsSafe
  <2>2. \A u \in Worker : \A i \in DOMAIN limbo[u] : limbo[u][i].ptr # o
    BY DEF RInv, HoldersCameFirst
  <2>3. \A u \in Worker : pc[u] = "unlinked" => o \notin held[u]
    BY DEF RInv, HeldState
  <2>4. /\ \A u \in Worker : u # t => pc'[u] = pc[u] /\ held'[u] = held[u]
        /\ held'[t] = {o}
    BY DEF RInv, TypeOK
  <2>5. QED
    BY <2>1, <2>2, <2>3, <2>4 DEF UnlinkedAreOwned
<1>3. TreeIsSafe'
  BY DEF TreeIsSafe
<1>4. QED
  BY <1>1, <1>2, <1>3

\* An unlinked object is retired: only its owner does that.
LEMMA RetireKeepsTree ==
  ASSUME NEW t \in Worker, NEW o \in Obj, RetireInv, RInv', Retire(t, o)
  PROVE  RetireInv'
<1> USE DEF RetireInv, Retire, Goto
<1>0. TypeOK /\ o \in held[t]
  BY DEF RInv
<1>list. \A u \in Worker : \A i \in DOMAIN limbo'[u] :
        \/ i \in DOMAIN limbo[u] /\ limbo'[u][i] = limbo[u][i]
        \/ /\ u = t /\ i = Len(limbo[t]) + 1
           /\ limbo'[u][i] = [ptr |-> o, epoch |-> globalepoch]
  BY <1>0, PushBackElements
<1>1. LinkedAreRetiring'
  <2>1. ASSUME NEW u \in Worker, NEW i \in DOMAIN limbo'[u], limbo'[u][i].ptr \in linked'
        PROVE  \E v \in Worker : /\ pc'[v] = "retired" /\ held'[v] = {limbo'[u][i].ptr}
                                 /\ entry'[v] <= limbo'[u][i].epoch
    <3>1. o \notin linked
      BY DEF RInv, HeldState
    <3>2. i \in DOMAIN limbo[u] /\ limbo'[u][i] = limbo[u][i]
      BY <1>list, <2>1, <3>1
    <3>3. PICK v \in Worker : /\ pc[v] = "retired" /\ held[v] = {limbo[u][i].ptr}
                              /\ entry[v] <= limbo[u][i].epoch
      BY <2>1, <3>2 DEF LinkedAreRetiring
    <3>4. pc'[v] = pc[v] /\ held'[v] = held[v] /\ entry'[v] = entry[v]
      BY <3>3
    <3>5. QED
      BY <3>2, <3>3, <3>4
  <2>2. QED
    BY <2>1 DEF LinkedAreRetiring
<1>2. UnlinkedAreOwned'
  <2>1. ASSUME NEW u \in Worker, NEW x \in held'[u], pc'[u] = "unlinked"
        PROVE  /\ x \notin freed'
               /\ \A v \in Worker : \A i \in DOMAIN limbo'[v] : limbo'[v][i].ptr # x
               /\ \A v \in Worker : pc'[v] = "unlinked" /\ x \in held'[v] => v = u
    <3>1. /\ \A v \in Worker : pc'[v] = "unlinked" => v # t /\ pc[v] = "unlinked"
          /\ held' = held
      BY DEF RInv, TypeOK
    <3>2. x # o
      BY <1>0, <2>1, <3>1 DEF UnlinkedAreOwned
    <3>3. ASSUME NEW v \in Worker, NEW i \in DOMAIN limbo'[v]
          PROVE  limbo'[v][i].ptr # x
      BY <1>list, <2>1, <3>1, <3>2 DEF UnlinkedAreOwned
    <3>4. QED
      BY <2>1, <3>1, <3>3 DEF UnlinkedAreOwned
  <2>2. QED
    BY <2>1 DEF UnlinkedAreOwned
<1>3. TreeIsSafe'
  BY <1>0, PushBackDistinct DEF UnlinkedAreOwned
<1>4. QED
  BY <1>1, <1>2, <1>3

\* An object is retired while it is in the tree: nobody else is doing that, so
\* it is on no list yet.
LEMMA RetireFirstKeepsTree ==
  ASSUME NEW t \in Worker, NEW o \in Obj, RetireInv, RInv', RetireFirst(t, o)
  PROVE  RetireInv'
<1> USE DEF RetireInv, RetireFirst, Goto
<1>0. TypeOK
  BY DEF RInv
<1>list. \A u \in Worker : \A i \in DOMAIN limbo'[u] :
        \/ i \in DOMAIN limbo[u] /\ limbo'[u][i] = limbo[u][i]
        \/ /\ u = t /\ i = Len(limbo[t]) + 1
           /\ limbo'[u][i] = [ptr |-> o, epoch |-> globalepoch]
  BY <1>0, PushBackElements
<1>1. \A u \in Worker : \A i \in DOMAIN limbo[u] : limbo[u][i].ptr # o
  BY DEF LinkedAreRetiring
<1>2. /\ \A u \in Worker : u # t => pc'[u] = pc[u] /\ held'[u] = held[u]
      /\ pc'[t] = "retired" /\ held'[t] = {o} /\ entry' = entry
  BY <1>0 DEF TypeOK
<1>3. LinkedAreRetiring'
  <2>1. ASSUME NEW u \in Worker, NEW i \in DOMAIN limbo'[u], limbo'[u][i].ptr \in linked'
        PROVE  \E v \in Worker : /\ pc'[v] = "retired" /\ held'[v] = {limbo'[u][i].ptr}
                                 /\ entry'[v] <= limbo'[u][i].epoch
    <3>1. CASE i \in DOMAIN limbo[u] /\ limbo'[u][i] = limbo[u][i]
      <4>1. PICK v \in Worker : /\ pc[v] = "retired" /\ held[v] = {limbo[u][i].ptr}
                                /\ entry[v] <= limbo[u][i].epoch
        BY <2>1, <3>1 DEF LinkedAreRetiring
      <4>2. v # t
        BY <4>1
      <4>3. QED
        BY <1>2, <3>1, <4>1, <4>2
    <3>2. CASE limbo'[u][i] = [ptr |-> o, epoch |-> globalepoch]
      <4>1. entry[t] <= globalepoch
        BY DEF RInv, EpochsInOrder, Inside
      <4>2. QED
        BY <1>2, <3>2, <4>1
    <3>3. QED
      BY <1>list, <3>1, <3>2
  <2>2. QED
    BY <2>1 DEF LinkedAreRetiring
<1>4. UnlinkedAreOwned'
  <2>1. ASSUME NEW u \in Worker, NEW x \in held'[u], pc'[u] = "unlinked"
        PROVE  /\ x \notin freed'
               /\ \A v \in Worker : \A i \in DOMAIN limbo'[v] : limbo'[v][i].ptr # x
               /\ \A v \in Worker : pc'[v] = "unlinked" /\ x \in held'[v] => v = u
    <3>1. u # t /\ pc[u] = "unlinked" /\ x \in held[u]
      BY <1>2, <2>1
    <3>2. x # o
      BY <3>1 DEF RInv, HeldState
    <3>3. ASSUME NEW v \in Worker, NEW i \in DOMAIN limbo'[v]
          PROVE  limbo'[v][i].ptr # x
      BY <1>list, <3>1, <3>2 DEF UnlinkedAreOwned
    <3>4. QED
      BY <1>2, <3>1, <3>3 DEF UnlinkedAreOwned
  <2>2. QED
    BY <2>1 DEF UnlinkedAreOwned
<1>5. TreeIsSafe'
  <2>1. o \notin freed
    BY DEF TreeIsSafe
  <2>2. QED
    BY <1>0, <1>1, <2>1, PushBackDistinct
<1>6. QED
  BY <1>3, <1>4, <1>5

\* A retired object leaves the tree.
LEMMA UnlinkAfterKeepsTree ==
  ASSUME NEW t \in Worker, RetireInv, RInv', UnlinkAfter(t)
  PROVE  RetireInv'
<1> USE DEF RetireInv, UnlinkAfter, Goto
<1>0. /\ \A u \in Worker : u # t => pc'[u] = pc[u]
      /\ pc'[t] = "in"
  BY DEF RInv, TypeOK
<1>1. LinkedAreRetiring'
  <2>1. ASSUME NEW u \in Worker, NEW i \in DOMAIN limbo[u], limbo[u][i].ptr \in linked'
        PROVE  \E v \in Worker : /\ pc'[v] = "retired" /\ held'[v] = {limbo[u][i].ptr}
                                 /\ entry'[v] <= limbo[u][i].epoch
    <3>1. PICK v \in Worker : /\ pc[v] = "retired" /\ held[v] = {limbo[u][i].ptr}
                              /\ entry[v] <= limbo[u][i].epoch
      BY <2>1 DEF LinkedAreRetiring
    <3>2. v # t
      BY <2>1, <3>1
    <3>3. QED
      BY <1>0, <3>1, <3>2
  <2>2. QED
    BY <2>1 DEF LinkedAreRetiring
<1>2. UnlinkedAreOwned'
  BY <1>0 DEF UnlinkedAreOwned
<1>3. TreeIsSafe'
  BY DEF TreeIsSafe
<1>4. QED
  BY <1>1, <1>2, <1>3

\* The oldest element is freed: it has left the tree, for the thread that
\* retired it would still be inside, and its entry keeps the bound below it.
LEMMA FreeOneKeepsTree ==
  ASSUME NEW t \in Worker, RetireInv, RInv', FreeOne(t)
  PROVE  RetireInv'
<1> USE DEF RetireInv, FreeOne, CanFree
<1> DEFINE o == Head(limbo[t]).ptr
<1>1. /\ limbo'[t] = Tail(limbo[t]) /\ limbo[t] \in Seq(Retired) /\ limbo[t] # <<>>
      /\ \A u \in Worker : u # t => limbo'[u] = limbo[u]
  BY DEF RInv, TypeOK
<1>2. /\ Head(limbo[t]) = limbo[t][1] /\ 1 \in DOMAIN limbo[t]
      /\ Head(limbo[t]) \in Retired
  BY <1>1
<1>3. /\ Len(limbo[t]) \in Nat /\ Len(limbo[t]) > 0
      /\ DOMAIN Tail(limbo[t]) = 1 .. Len(limbo[t]) - 1
      /\ DOMAIN limbo[t] = 1 .. Len(limbo[t])
      /\ \A i \in 1 .. Len(limbo[t]) - 1 : Tail(limbo[t])[i] = limbo[t][i + 1]
  BY <1>1
<1>4. /\ \A i \in DOMAIN limbo'[t] : /\ i \in Nat /\ i >= 1 /\ i + 1 \in DOMAIN limbo[t]
                                     /\ limbo'[t][i] = limbo[t][i + 1]
      /\ \A u \in Worker : u # t =>
           \A i \in DOMAIN limbo'[u] : i \in DOMAIN limbo[u] /\ limbo'[u][i] = limbo[u][i]
  <2>1. ASSUME NEW i \in DOMAIN limbo'[t]
        PROVE  /\ i \in Nat /\ i >= 1 /\ i + 1 \in DOMAIN limbo[t]
               /\ limbo'[t][i] = limbo[t][i + 1]
    <3>1. i \in 1 .. Len(limbo[t]) - 1
      BY <1>1, <1>3
    <3>2. i \in Nat /\ i >= 1 /\ i + 1 \in 1 .. Len(limbo[t])
      BY <1>3, <3>1
    <3>3. QED
      BY <1>1, <1>3, <3>1, <3>2
  <2>2. QED
    BY <1>1, <2>1
<1>5. o \notin linked
  <2>1. SUFFICES ASSUME o \in linked PROVE FALSE
    OBVIOUS
  <2>2. PICK v \in Worker : pc[v] = "retired" /\ entry[v] <= Head(limbo[t]).epoch
    BY <1>2, <2>1 DEF LinkedAreRetiring
  <2>3. bound[t] < entry[v]
    BY <2>2 DEF RInv, NobodyIsOvertaken, Inside
  <2>4. entry[v] \in Int /\ bound[t] \in Int /\ Head(limbo[t]).epoch \in Int
    BY <1>2 DEF RInv, TypeOK, Retired
  <2>5. QED
    BY <2>2, <2>3, <2>4
<1>6. LinkedAreRetiring'
  <2>1. ASSUME NEW u \in Worker, NEW i \in DOMAIN limbo'[u]
        PROVE  \E j \in DOMAIN limbo[u] : limbo'[u][i] = limbo[u][j]
    BY <1>4
  <2>2. ASSUME NEW u \in Worker, NEW i \in DOMAIN limbo'[u], limbo'[u][i].ptr \in linked
        PROVE  \E v \in Worker : /\ pc[v] = "retired" /\ held[v] = {limbo'[u][i].ptr}
                                 /\ entry[v] <= limbo'[u][i].epoch
    <3>1. PICK j \in DOMAIN limbo[u] : limbo'[u][i] = limbo[u][j]
      BY <2>1
    <3>2. QED
      BY <2>2, <3>1 DEF LinkedAreRetiring
  <2>3. QED
    BY <2>2 DEF LinkedAreRetiring
<1>7. UnlinkedAreOwned'
  <2>1. ASSUME NEW u \in Worker, NEW i \in DOMAIN limbo'[u]
        PROVE  \E j \in DOMAIN limbo[u] : limbo'[u][i] = limbo[u][j]
    BY <1>4
  <2>2. \A u \in Worker : pc[u] = "unlinked" => o \notin held[u]
    BY <1>2 DEF UnlinkedAreOwned
  <2>3. QED
    BY <2>1, <2>2 DEF UnlinkedAreOwned
<1>8. TreeIsSafe'
  <2>1. ASSUME NEW u \in Worker, NEW i \in DOMAIN limbo'[u]
        PROVE  limbo'[u][i].ptr \notin freed /\ limbo'[u][i].ptr # o
    <3>1. CASE u = t
      <4>1. i + 1 # 1 /\ i + 1 \in DOMAIN limbo[t] /\ limbo'[t][i] = limbo[t][i + 1]
        BY <1>4, <3>1
      <4>2. QED
        BY <1>2, <3>1, <4>1 DEF TreeIsSafe
    <3>2. CASE u # t
      BY <1>2, <1>4, <3>2 DEF TreeIsSafe
    <3>3. QED
      BY <3>1, <3>2
  <2>2. ASSUME NEW u \in Worker, NEW v \in Worker,
               NEW i \in DOMAIN limbo'[u], NEW j \in DOMAIN limbo'[v],
               limbo'[u][i].ptr = limbo'[v][j].ptr
        PROVE  u = v /\ i = j
    <3>1. CASE u = t /\ v = t
      <4>1. /\ i \in Nat /\ i + 1 \in DOMAIN limbo[t] /\ limbo'[t][i] = limbo[t][i + 1]
            /\ j \in Nat /\ j + 1 \in DOMAIN limbo[t] /\ limbo'[t][j] = limbo[t][j + 1]
        BY <1>4, <3>1
      <4>2. i + 1 = j + 1
        BY <2>2, <3>1, <4>1 DEF TreeIsSafe
      <4>3. QED
        BY <3>1, <4>1, <4>2
    <3>2. CASE u = t /\ v # t
      BY <1>4, <2>2, <3>2 DEF TreeIsSafe
    <3>3. CASE u # t /\ v = t
      BY <1>4, <2>2, <3>3 DEF TreeIsSafe
    <3>4. CASE u # t /\ v # t
      BY <1>4, <2>2, <3>4 DEF TreeIsSafe
    <3>5. QED
      BY <3>1, <3>2, <3>3, <3>4
  <2>3. linked' \cap freed' = {}
    BY <1>5 DEF TreeIsSafe
  <2>4. QED
    BY <2>1, <2>2, <2>3 DEF TreeIsSafe
<1>9. QED
  BY <1>6, <1>7, <1>8

\* RetireInv is inductive.
LEMMA NextRetireInv == RetireInv /\ [Next]_vars => RetireInv'
<1> SUFFICES ASSUME RetireInv, [Next]_vars PROVE RetireInv'
  OBVIOUS
<1>1. RInv' /\ TypeOK
  BY NextRInv DEF RetireInv, RInv
<1> USE DEF threadVars, tickVars, Goto
<1>2. CASE Tick
  <2>1. UNCHANGED threadVars /\ UNCHANGED <<linked, freed>>
    BY <1>2 DEF Tick, TickStart, TickVisit, TickStore
  <2>2. QED
    BY <1>1, <2>1, QuietStep
<1>3. ASSUME NEW t \in Worker, StartLoad(t) PROVE RetireInv'
  BY <1>1, <1>3, QuietStep DEF TypeOK, StartLoad
<1>4. ASSUME NEW t \in Worker, Run(t) PROVE RetireInv'
  <2>1. CASE StartStore(t)
    BY <1>1, <2>1, QuietStep DEF TypeOK, StartStore
  <2>2. CASE QuiesceLoad(t)
    BY <1>1, <2>2, QuietStep DEF TypeOK, QuiesceLoad
  <2>3. ASSUME NEW o \in Obj, Read(t, o) PROVE RetireInv'
    BY <1>1, <2>3, QuietStep DEF TypeOK, Read
  <2>4. ASSUME NEW o \in Obj, Unlink(t, o) \/ Retire(t, o) \/ RetireFirst(t, o)
        PROVE  RetireInv'
    BY <1>1, <2>4, UnlinkKeepsTree, RetireKeepsTree, RetireFirstKeepsTree
  <2>5. CASE UnlinkAfter(t) \/ FreeOne(t)
    BY <1>1, <2>5, UnlinkAfterKeepsTree, FreeOneKeepsTree
  <2>6. CASE Finish(t)
    BY <1>1, <2>6, QuietStep DEF TypeOK, Finish
  <2>7. CASE GcCheck(t)
    BY <1>1, <2>7, QuietStep DEF TypeOK, GcCheck
  <2>8. CASE GcBound(t)
    BY <1>1, <2>8, QuietStep DEF TypeOK, GcBound
  <2>9. CASE GcEnd(t)
    BY <1>1, <2>9, QuietStep DEF TypeOK, GcEnd
  <2>10. CASE StopStore(t)
    BY <1>1, <2>10, QuietStep DEF TypeOK, StopStore
  <2>11. CASE Reply(t)
    BY <1>1, <2>11, QuietStep DEF TypeOK, Reply
  <2>12. QED
    BY <1>4, <2>1, <2>2, <2>3, <2>4, <2>5, <2>6, <2>7, <2>8, <2>9, <2>10, <2>11 DEF Run
<1>5. CASE UNCHANGED vars
  BY <1>1, <1>5, QuietStep DEF vars
<1>6. QED
  BY <1>2, <1>3, <1>4, <1>5 DEF Next

LEMMA InitRetireInv == Init => RetireInv
<1> SUFFICES ASSUME Init PROVE RetireInv
  OBVIOUS
<1>1. LinkedAreRetiring /\ UnlinkedAreOwned /\ TreeIsSafe
  BY DEF Init, LinkedAreRetiring, UnlinkedAreOwned, TreeIsSafe
<1>2. QED
  BY <1>1, InitRInv DEF RetireInv

\* An object that is retired while the tree still leads to it belongs to one
\* thread, which is inside and has not yet unlinked it, and an object unlinked
\* first to the thread that will retire it: the two ways to free an object are
\* never both under way.
THEOREM RetirementInvariant == Spec => []RetireInv
  BY InitRetireInv, NextRetireInv, PTL DEF Spec

\* What is retired is on one limbo list once and not freed, and nothing the tree
\* leads to is freed: also for the objects that remove_leaf, gc_layer and
\* apply_replace hand to deallocate_rcu before they take them out of the tree.
THEOREM TreeIsProtected == Spec => []TreeIsSafe
<1>1. RetireInv => TreeIsSafe
  BY DEF RetireInv
<1>2. QED
  BY <1>1, RetirementInvariant, PTL
=============================================================================
