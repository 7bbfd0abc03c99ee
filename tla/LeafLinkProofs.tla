--------------------------- MODULE LeafLinkProofs ---------------------------
(***************************************************************************)
(* Proofs about LeafLink for any number of leaves and threads.  IInv is    *)
(* inductive; one lemma per action, one step per conjunct of IInv.         *)
(***************************************************************************)
EXTENDS LeafLink, TLAPS

\* The list starts with the first leaf alone.
LEMMA InitIInv == Init => IInv
  BY NodeAssumption, ThreadAssumption
     DEF Init, IInv, ListIsLinked, TypeOK, Ptr, PCs, ThreadState, LeafState, MarksAreOwned,
         NextFollowsOrder, PrevFollowsOrder, OrderIsAList, Linked, Owns,
         Splitting, Unlinking, HoldsNext, HoldsPrev

\* A thread starts to split a leaf.
LEMMA BeginSplitStep ==
  ASSUME NEW t \in Thread, NEW x \in Node, NEW y \in Node, IInv, BeginSplit(t, x, y)
  PROVE  IInv'
<1> USE NodeAssumption, ThreadAssumption
        DEF IInv, ListIsLinked, BeginSplit, Ptr, PCs, links, history
<1>1. TypeOK'
  BY DEF TypeOK
<1>2. ThreadState'
  BY DEF TypeOK, ThreadState, OrderIsAList, Linked, Splitting, Unlinking,
         HoldsNext, HoldsPrev
<1>3. LeafState'
  BY DEF LeafState
<1>4. MarksAreOwned'
  <2>1. \A u \in Thread, z \in Node : Owns(u, z)' <=> Owns(u, z)
    BY DEF TypeOK, ThreadState, Owns, Splitting, Unlinking, HoldsNext, HoldsPrev
  <2>2. QED
    BY <2>1 DEF MarksAreOwned, Linked
<1>5. NextFollowsOrder'
  BY DEF NextFollowsOrder, Linked
<1>6. PrevFollowsOrder'
  BY DEF PrevFollowsOrder, OrderIsAList, Linked, Owns
<1>7. OrderIsAList'
  BY DEF OrderIsAList, Linked
<1>8. QED
  BY <1>1, <1>2, <1>3, <1>4, <1>5, <1>6, <1>7

\* lock_next, for either operation.
LEMMA LockNextStep ==
  ASSUME NEW t \in Thread, IInv, LockNext(t)
  PROVE  IInv'
<1> USE NodeAssumption, ThreadAssumption
        DEF IInv, ListIsLinked, LockNext, Ptr, PCs, links, history
<1>1. TypeOK'
  BY DEF TypeOK, ThreadState
<1>2. ThreadState'
  <2>1. succ[n[t]] = next[n[t]]
    <3>1. n[t] \in Linked /\ pc[t] # "s_pub" /\ lock[n[t]] = t
      BY DEF ThreadState, Linked, Splitting, Unlinking, HoldsNext, HoldsPrev
    <3>2. ~ \E u \in Thread : pc[u] = "s_pub" /\ n[u] = n[t]
      BY <3>1 DEF ThreadState
    <3>3. QED
      BY <3>1, <3>2 DEF NextFollowsOrder
  <2>2. QED
    BY <2>1 DEF TypeOK, ThreadState, Splitting, Unlinking, HoldsNext, HoldsPrev
<1>3. LeafState'
  BY DEF LeafState
<1>4. MarksAreOwned'
  <2> DEFINE took == next[n[t]] # Null
  <2>1. \A u \in Thread, z \in Node :
          Owns(u, z)' <=> Owns(u, z) \/ (took /\ u = t /\ z = n[t])
    BY DEF TypeOK, ThreadState, Owns, Splitting, Unlinking, HoldsNext, HoldsPrev
  <2>2. marked' = IF took THEN marked \cup {n[t]} ELSE marked
    OBVIOUS
  <2>3. Linked' = Linked /\ n[t] \in Node /\ (took => n[t] \notin marked)
    BY DEF Linked, ThreadState
  <2>4. \A u \in Thread, z \in Node : Owns(u, z) => z \in marked
    BY DEF MarksAreOwned
  <2>5. \A u, v \in Thread, z \in Node : Owns(u, z)' /\ Owns(v, z)' => u = v
    BY <2>1, <2>3, <2>4 DEF MarksAreOwned
  <2>6. \A u \in Thread, z \in Node : Owns(u, z)' => z \in marked'
    BY <2>1, <2>2, <2>4
  <2>7. ASSUME NEW z \in Linked', z \in marked'
        PROVE  \E u \in Thread : Owns(u, z)'
    <3>1. z \in Node
      BY DEF Linked
    <3>2. CASE z \in marked
      BY <2>1, <2>3, <3>1, <3>2 DEF MarksAreOwned
    <3>3. CASE took /\ z = n[t]
      BY <2>1, <3>1, <3>3
    <3>4. QED
      BY <2>2, <2>7, <3>2, <3>3
  <2>8. QED
    BY <2>5, <2>6, <2>7 DEF MarksAreOwned
<1>5. NextFollowsOrder'
  BY DEF NextFollowsOrder, Linked
<1>6. PrevFollowsOrder'
  BY DEF PrevFollowsOrder, Linked
<1>7. OrderIsAList'
  BY DEF OrderIsAList, Linked
<1>8. QED
  BY <1>1, <1>2, <1>3, <1>4, <1>5, <1>6, <1>7

\* link_split writes the successor's prev_: the new leaf enters the list.
LEMMA LinkBackStep ==
  ASSUME NEW t \in Thread, IInv, LinkBack(t)
  PROVE  IInv'
<1> USE NodeAssumption, ThreadAssumption
        DEF IInv, ListIsLinked, LinkBack, Ptr, PCs, links, history
<1>1. TypeOK'
  <2>1. n[t] \in Node /\ nr[t] \in Node /\ nxt[t] \in Ptr
    BY DEF TypeOK, ThreadState, Splitting, Unlinking, HoldsNext, HoldsPrev
  <2>2. prev' \in [Node -> Ptr]
    BY <2>1 DEF TypeOK
  <2>3. succ' \in [Node -> Ptr] /\ next' \in [Node -> Ptr]
    BY <2>1 DEF TypeOK
  <2>4. life' \in [Node -> {"fresh", "linked", "unlinked"}] /\ pc' \in [Thread -> PCs]
    BY <2>1 DEF TypeOK
  <2>5. QED
    BY <2>1, <2>2, <2>3, <2>4 DEF TypeOK
<1>2. ThreadState'
  BY DEF TypeOK, ThreadState, MarksAreOwned, OrderIsAList, Linked, Owns,
         Splitting, Unlinking, HoldsNext, HoldsPrev
<1>3. LeafState'
  BY DEF TypeOK, ThreadState, LeafState, OrderIsAList, Linked, Splitting,
         HoldsNext
<1>4. MarksAreOwned'
  <2>1. \A u \in Thread, z \in Node : Owns(u, z)' <=> Owns(u, z)
    BY DEF TypeOK, ThreadState, Owns, Splitting, Unlinking, HoldsNext, HoldsPrev
  <2>2. Linked' = Linked \cup {nr[t]} /\ nr[t] \notin marked
    BY DEF TypeOK, ThreadState, LeafState, Linked, Splitting, Unlinking, HoldsNext, HoldsPrev
  <2>3. marked' = marked /\ Linked \subseteq Node
    BY DEF Linked
  <2>4. \A z \in Linked' : z \in marked' => z \in Linked /\ z \in marked /\ z \in Node
    BY <2>2, <2>3
  <2>5. QED
    BY <2>1, <2>3, <2>4, Zenon DEF MarksAreOwned
<1>5. NextFollowsOrder'
  BY DEF TypeOK, NextFollowsOrder, Linked
<1>6. PrevFollowsOrder'
  <2>1. /\ n[t] \in Linked /\ nr[t] \in Node /\ nr[t] \notin Linked /\ nr[t] # First
        /\ succ[n[t]] = nxt[t] /\ prev[nr[t]] = n[t] /\ nxt[t] # nr[t]
    BY DEF TypeOK, ThreadState, LeafState, OrderIsAList, Linked, Splitting, Unlinking, HoldsNext, HoldsPrev
  <2>2. \A z \in Node : life'[z] = "linked" <=> z \in Linked \/ z = nr[t]
    BY <2>1 DEF TypeOK, Linked
  <2>3. /\ succ'[n[t]] = nr[t] /\ succ'[nr[t]] = nxt[t]
        /\ \A z \in Linked \ {n[t]} : succ'[z] = succ[z]
    BY <2>1 DEF TypeOK, Linked
  <2>4. /\ nxt[t] # Null => prev'[nxt[t]] = nr[t]
        /\ \A z \in Node : z # nxt[t] => prev'[z] = prev[z]
    BY DEF TypeOK
  <2>5. \A u \in Thread : pc'[u] = "u_pub" <=> pc[u] = "u_pub"
    BY DEF TypeOK
  <2>6. ASSUME NEW z \in Linked', succ'[z] # Null
        PROVE  \/ prev'[succ'[z]] = z
               \/ \E u \in Thread : /\ pc'[u] = "u_pub" /\ n'[u] = z
                                     /\ prev'[succ'[z]] = prv'[u]
    <3>1. CASE z = n[t]
      <4>1. prev'[nr[t]] = n[t]
        BY <2>1, <2>4
      <4>2. QED
        BY <2>3, <3>1, <4>1
    <3>2. CASE z = nr[t]
      BY <2>3, <2>4, <2>6, <3>2
    <3>3. CASE z \in Linked \ {n[t]}
      <4>1. succ[z] # Null /\ succ[z] \in Node /\ succ[z] # nxt[t]
        BY <2>1, <2>3, <2>6, <3>3 DEF OrderIsAList, Linked
      <4>2. prev'[succ'[z]] = prev[succ[z]]
        BY <2>3, <2>4, <3>3, <4>1
      <4>3. \/ prev[succ[z]] = z
            \/ \E u \in Thread : pc[u] = "u_pub" /\ n[u] = z /\ prev[succ[z]] = prv[u]
        BY <3>3, <4>1 DEF PrevFollowsOrder
      <4>4. succ'[z] = succ[z] /\ n' = n /\ prv' = prv
        BY <2>3, <3>3
      <4>5. QED
        BY <2>5, <4>2, <4>3, <4>4, Zenon
    <3>4. QED
      BY <2>2, <3>1, <3>2, <3>3 DEF Linked
  <2>7. QED
    BY <2>6 DEF PrevFollowsOrder
<1>7. OrderIsAList'
  <2>1. /\ n[t] \in Linked /\ nr[t] \in Node /\ nr[t] \notin Linked /\ nr[t] # First
        /\ succ[n[t]] = nxt[t]
    BY DEF TypeOK, ThreadState, LeafState, Linked, Splitting, Unlinking, HoldsNext, HoldsPrev
  <2>2. Linked' = Linked \cup {nr[t]}
    BY <2>1 DEF TypeOK, Linked
  <2>3. /\ succ'[n[t]] = nr[t] /\ succ'[nr[t]] = nxt[t]
        /\ \A z \in Linked \ {n[t]} : succ'[z] = succ[z]
    BY <2>1 DEF TypeOK, Linked
  <2>4. ASSUME NEW z \in Linked', succ'[z] # Null
        PROVE  succ'[z] \in Linked' \ {First}
    <3>1. CASE z = n[t]
      BY <2>1, <2>3, <3>1 DEF TypeOK, Linked
    <3>2. CASE z = nr[t]
      BY <2>1, <2>2, <2>3, <2>4, <3>2 DEF OrderIsAList
    <3>3. CASE z \in Linked \ {n[t]}
      <4>1. succ'[z] = succ[z] /\ succ[z] # Null
        BY <2>3, <2>4, <3>3, Zenon
      <4>2. succ[z] \in Linked \ {First}
        BY <3>3, <4>1 DEF OrderIsAList
      <4>3. QED
        BY <2>1, <4>1, <4>2 DEF TypeOK, Linked
    <3>4. QED
      BY <2>2, <3>1, <3>2, <3>3
  <2>5. ASSUME NEW z \in Linked', NEW w \in Linked',
               succ'[z] = succ'[w], succ'[z] # Null
        PROVE  z = w
    BY <2>1, <2>2, <2>3, <2>5 DEF OrderIsAList
  <2>6. QED
    BY <2>4, <2>5 DEF OrderIsAList
<1>8. QED
  BY <1>1, <1>2, <1>3, <1>4, <1>5, <1>6, <1>7

\* link_split writes its leaf's next_.
LEMMA LinkPublishStep ==
  ASSUME NEW t \in Thread, IInv, LinkPublish(t)
  PROVE  IInv'
<1> USE NodeAssumption, ThreadAssumption
        DEF IInv, ListIsLinked, LinkPublish, Ptr, PCs, links, history
<1>1. TypeOK'
  BY DEF TypeOK
<1>2. ThreadState'
  BY DEF TypeOK, ThreadState, Splitting, Unlinking, HoldsNext, HoldsPrev
<1>3. LeafState'
  BY DEF ThreadState, LeafState, Splitting
<1>4. MarksAreOwned'
  BY DEF TypeOK, ThreadState, MarksAreOwned, Linked, Owns, HoldsNext,
         HoldsPrev
<1>5. NextFollowsOrder'
  BY DEF TypeOK, ThreadState, NextFollowsOrder, Linked
<1>6. PrevFollowsOrder'
  BY DEF PrevFollowsOrder, Linked
<1>7. OrderIsAList'
  BY DEF OrderIsAList, Linked
<1>8. QED
  BY <1>1, <1>2, <1>3, <1>4, <1>5, <1>6, <1>7

\* A thread starts to unlink a leaf.
LEMMA BeginUnlinkStep ==
  ASSUME NEW t \in Thread, NEW x \in Node, IInv, BeginUnlink(t, x)
  PROVE  IInv'
<1> USE NodeAssumption, ThreadAssumption
        DEF IInv, ListIsLinked, BeginUnlink, Ptr, PCs, links, history
<1>1. TypeOK'
  BY DEF TypeOK
<1>2. ThreadState'
  BY DEF TypeOK, ThreadState, LeafState, Splitting, Unlinking, HoldsNext,
         HoldsPrev
<1>3. LeafState'
  BY DEF LeafState
<1>4. MarksAreOwned'
  <2>1. \A u \in Thread, z \in Node : Owns(u, z)' <=> Owns(u, z)
    BY DEF TypeOK, ThreadState, Owns, Splitting, Unlinking, HoldsNext, HoldsPrev
  <2>2. QED
    BY <2>1 DEF MarksAreOwned, Linked
<1>5. NextFollowsOrder'
  BY DEF NextFollowsOrder, Linked
<1>6. PrevFollowsOrder'
  BY DEF PrevFollowsOrder, Linked
<1>7. OrderIsAList'
  BY DEF OrderIsAList, Linked
<1>8. QED
  BY <1>1, <1>2, <1>3, <1>4, <1>5, <1>6, <1>7

\* unlink reads prev_.
LEMMA ReadPrevStep ==
  ASSUME NEW t \in Thread, IInv, ReadPrev(t)
  PROVE  IInv'
<1> USE NodeAssumption, ThreadAssumption
        DEF IInv, ListIsLinked, ReadPrev, Ptr, PCs, links, history
<1>1. TypeOK'
  BY DEF TypeOK, ThreadState
<1>2. ThreadState'
  BY DEF TypeOK, ThreadState, LeafState, Splitting, Unlinking, HoldsNext,
         HoldsPrev
<1>3. LeafState'
  BY DEF LeafState
<1>4. MarksAreOwned'
  <2>1. \A u \in Thread, z \in Node : Owns(u, z)' <=> Owns(u, z)
    BY DEF TypeOK, ThreadState, Owns, Splitting, Unlinking, HoldsNext, HoldsPrev
  <2>2. QED
    BY <2>1 DEF MarksAreOwned, Linked
<1>5. NextFollowsOrder'
  BY DEF NextFollowsOrder, Linked
<1>6. PrevFollowsOrder'
  BY DEF PrevFollowsOrder, Linked
<1>7. OrderIsAList'
  BY DEF OrderIsAList, Linked
<1>8. QED
  BY <1>1, <1>2, <1>3, <1>4, <1>5, <1>6, <1>7

\* unlink tries to mark its predecessor's next_.
LEMMA CasPrevStep ==
  ASSUME NEW t \in Thread, IInv, CasPrev(t)
  PROVE  IInv'
<1> USE NodeAssumption, ThreadAssumption
        DEF IInv, ListIsLinked, CasPrev, Ptr, PCs, links, history
<1>1. TypeOK'
  <2>1. prv[t] \in Node
    BY DEF ThreadState
  <2>2. marked' \in SUBSET Node
    BY <2>1 DEF TypeOK
  <2>3. pc' \in [Thread -> PCs]
    BY DEF TypeOK
  <2>4. QED
    BY <2>2, <2>3 DEF TypeOK
<1>2. ThreadState'
  BY DEF TypeOK, ThreadState, LeafState, MarksAreOwned, NextFollowsOrder,
         PrevFollowsOrder, Linked, Owns, Splitting, Unlinking, HoldsNext,
         HoldsPrev
<1>3. LeafState'
  BY DEF ThreadState, LeafState
<1>4. MarksAreOwned'
  <2> DEFINE won == next[prv[t]] = n[t] /\ prv[t] \notin marked
  <2>1. \A u \in Thread, z \in Node :
          Owns(u, z)' <=> Owns(u, z) \/ (won /\ u = t /\ z = prv[t])
    BY DEF TypeOK, ThreadState, Owns, Splitting, Unlinking, HoldsNext, HoldsPrev
  <2>2. marked' = IF won THEN marked \cup {prv[t]} ELSE marked
    OBVIOUS
  <2>3. Linked' = Linked /\ prv[t] \in Node
    BY DEF Linked, ThreadState
  <2>4. \A u \in Thread, z \in Node : Owns(u, z) => z \in marked
    BY DEF MarksAreOwned
  <2>5. \A u, v \in Thread, z \in Node : Owns(u, z)' /\ Owns(v, z)' => u = v
    BY <2>1, <2>4 DEF MarksAreOwned
  <2>6. \A u \in Thread, z \in Node : Owns(u, z)' => z \in marked'
    BY <2>1, <2>2, <2>4
  <2>7. ASSUME NEW z \in Linked', z \in marked'
        PROVE  \E u \in Thread : Owns(u, z)'
    <3>1. z \in Node
      BY DEF Linked
    <3>2. CASE z \in marked
      BY <2>1, <2>3, <3>1, <3>2 DEF MarksAreOwned
    <3>3. CASE won /\ z = prv[t]
      BY <2>1, <3>1, <3>3
    <3>4. QED
      BY <2>2, <2>7, <3>2, <3>3
  <2>8. QED
    BY <2>5, <2>6, <2>7 DEF MarksAreOwned
<1>5. NextFollowsOrder'
  BY DEF TypeOK, NextFollowsOrder, Linked
<1>6. PrevFollowsOrder'
  BY DEF TypeOK, PrevFollowsOrder, Linked
<1>7. OrderIsAList'
  BY DEF OrderIsAList, Linked
<1>8. QED
  BY <1>1, <1>2, <1>3, <1>4, <1>5, <1>6, <1>7

\* unlink writes the successor's prev_.
LEMMA UnlinkBackStep ==
  ASSUME NEW t \in Thread, IInv, UnlinkBack(t)
  PROVE  IInv'
<1> USE NodeAssumption, ThreadAssumption
        DEF IInv, ListIsLinked, UnlinkBack, Ptr, PCs, links, history
<1>1. TypeOK'
  BY DEF TypeOK
<1>2. ThreadState'
  BY DEF TypeOK, ThreadState, OrderIsAList, Linked, Splitting, Unlinking,
         HoldsNext, HoldsPrev
<1>3. LeafState'
  BY DEF ThreadState, LeafState, OrderIsAList, Linked, HoldsNext, HoldsPrev
<1>4. MarksAreOwned'
  <2>1. \A u \in Thread, z \in Node : Owns(u, z)' <=> Owns(u, z)
    BY DEF TypeOK, ThreadState, Owns, Splitting, Unlinking, HoldsNext, HoldsPrev
  <2>2. QED
    BY <2>1 DEF MarksAreOwned, Linked
<1>5. NextFollowsOrder'
  BY DEF NextFollowsOrder, Linked
<1>6. PrevFollowsOrder'
  BY DEF TypeOK, ThreadState, PrevFollowsOrder, OrderIsAList, Linked,
         Unlinking, HoldsNext
<1>7. OrderIsAList'
  BY DEF OrderIsAList, Linked
<1>8. QED
  BY <1>1, <1>2, <1>3, <1>4, <1>5, <1>6, <1>7

\* unlink writes its predecessor's next_: the leaf leaves the list.
LEMMA UnlinkPublishStep ==
  ASSUME NEW t \in Thread, IInv, UnlinkPublish(t)
  PROVE  IInv'
<1> USE NodeAssumption, ThreadAssumption
        DEF IInv, ListIsLinked, UnlinkPublish, Ptr, PCs, links, history
<1>1. TypeOK'
  BY DEF TypeOK
<1>2. ThreadState'
  <2>1. /\ n[t] \in Node /\ prv[t] \in Node /\ n[t] # prv[t] /\ lock[n[t]] = t
        /\ next[prv[t]] = n[t] /\ succ[prv[t]] = n[t]
        /\ Owns(t, prv[t]) /\ succ[n[t]] = nxt[t] /\ next[n[t]] = nxt[t]
        /\ n[t] \in Linked /\ prv[t] \in Linked
    BY DEF TypeOK, ThreadState, Owns, Linked, Splitting, Unlinking, HoldsNext, HoldsPrev
  <2>2. ASSUME NEW u \in Thread \ {t}, HoldsNext(u)
        PROVE  n[u] # prv[t] /\ n[u] # n[t]
    <3>1. n[u] \in Node /\ lock[n[u]] = u /\ next[n[u]] = nxt[u]
      BY <2>2 DEF ThreadState, HoldsNext
    <3>2. CASE nxt[u] = Null
      BY <2>1, <3>1, <3>2
    <3>3. CASE nxt[u] # Null
      BY <2>1, <2>2, <3>1, <3>3 DEF Owns, MarksAreOwned
    <3>4. QED
      BY <3>2, <3>3
  <2>3. ASSUME NEW u \in Thread \ {t}, HoldsPrev(u)
        PROVE  prv[u] # prv[t] /\ prv[u] # n[t]
    <3>1. prv[u] \in Node /\ Owns(u, prv[u]) /\ next[prv[u]] = n[u] /\ n[u] \in Node
      BY <2>3 DEF ThreadState, Owns, HoldsPrev, Unlinking
    <3>2. n[u] # nxt[t] \/ nxt[t] = Null \/ Owns(t, n[t])
      BY DEF Owns, HoldsNext
    <3>3. prv[u] # prv[t]
      BY <2>1, <3>1 DEF MarksAreOwned
    <3>4. prv[u] # n[t]
      BY <2>1, <3>1, <3>2 DEF MarksAreOwned
    <3>5. QED
      BY <3>3, <3>4
  <2>4. ASSUME NEW u \in Thread \ {t}, Splitting(u)
        PROVE  nr[u] # n[t] /\ n[u] # n[t]
    BY <2>1, <2>4 DEF ThreadState, Splitting
  <2>5. ASSUME NEW u \in Thread \ {t}, Unlinking(u)
        PROVE  n[u] # n[t]
    BY <2>1, <2>5 DEF ThreadState, Unlinking
  <2>6. pc'[t] = "unlock" /\ \A u \in Thread \ {t} : pc'[u] = pc[u]
    BY DEF TypeOK
  <2>7. ASSUME NEW u \in Thread \ {t}, pc[u] = "s_pub"
        PROVE  n[u] # prv[t]
    BY <2>2, <2>7 DEF HoldsNext
  <2>8. /\ next'[prv[t]] = nxt[t] /\ \A z \in Node \ {prv[t]} : next'[z] = next[z]
        /\ succ'[prv[t]] = nxt[t] /\ \A z \in Node \ {prv[t]} : succ'[z] = succ[z]
        /\ life'[n[t]] = "unlinked" /\ \A z \in Node \ {n[t]} : life'[z] = life[z]
    BY <2>1 DEF TypeOK
  <2> SUFFICES ASSUME NEW u \in Thread
               PROVE  ThreadState!(u)'
    BY DEF ThreadState
  <2>9. CASE u = t
    BY <2>1, <2>6, <2>9 DEF ThreadState, Splitting, Unlinking, HoldsNext, HoldsPrev
  <2>10. CASE u # t
    BY <2>1, <2>2, <2>3, <2>4, <2>5, <2>6, <2>7, <2>8, <2>10 DEF ThreadState, Splitting, Unlinking, HoldsNext, HoldsPrev
  <2>11. QED
    BY <2>9, <2>10
<1>3. LeafState'
  BY DEF ThreadState, LeafState, MarksAreOwned, Owns, Unlinking, HoldsNext,
         HoldsPrev
<1>4. MarksAreOwned'
  <2>1. /\ n[t] \in Node /\ prv[t] \in Node /\ n[t] # prv[t]
        /\ Owns(t, prv[t]) /\ Linked' = Linked \ {n[t]}
    BY DEF TypeOK, ThreadState, Owns, Linked, Splitting, Unlinking, HoldsNext, HoldsPrev
  <2>2. \A z \in Node : ~ Owns(t, z)'
    BY DEF TypeOK, Owns, HoldsNext, HoldsPrev
  <2>3. \A u \in Thread \ {t}, z \in Node : Owns(u, z)' <=> Owns(u, z)
    BY DEF TypeOK, Owns, HoldsNext, HoldsPrev
  <2>4. \A z \in Node : Owns(t, z) => z \in {n[t], prv[t]}
    BY DEF Owns
  <2>5. QED
    BY <2>1, <2>2, <2>3, <2>4 DEF MarksAreOwned, Linked
<1>5. NextFollowsOrder'
  BY DEF TypeOK, NextFollowsOrder, Linked, Owns
<1>6. PrevFollowsOrder'
  <2>1. /\ n[t] \in Linked /\ prv[t] \in Linked /\ n[t] # prv[t]
        /\ succ[n[t]] = nxt[t] /\ Linked' = Linked \ {n[t]}
        /\ lock[n[t]] = t
    BY DEF TypeOK, ThreadState, Linked, Splitting, Unlinking, HoldsNext, HoldsPrev
  <2>2. nxt[t] # Null => prev[nxt[t]] = prv[t]
    BY DEF ThreadState
  <2>3. succ'[prv[t]] = nxt[t] /\ \A z \in Node \ {prv[t]} : succ'[z] = succ[z]
    BY <2>1 DEF TypeOK, Linked
  <2>4. \A u \in Thread : pc[u] = "u_pub" /\ n[u] # n[t] => pc'[u] = "u_pub"
    BY DEF TypeOK
  <2>5. ASSUME NEW z \in Linked', succ'[z] # Null
        PROVE  \/ prev'[succ'[z]] = z
               \/ \E u \in Thread : /\ pc'[u] = "u_pub" /\ n'[u] = z
                                     /\ prev'[succ'[z]] = prv'[u]
    <3>1. CASE z = prv[t]
      BY <2>2, <2>3, <2>5, <3>1
    <3>2. CASE z # prv[t]
      BY <2>1, <2>3, <2>4, <2>5, <3>2 DEF PrevFollowsOrder, Linked
    <3>3. QED
      BY <3>1, <3>2
  <2>6. QED
    BY <2>5 DEF PrevFollowsOrder
<1>7. OrderIsAList'
  BY DEF TypeOK, ThreadState, OrderIsAList, Linked, HoldsNext, HoldsPrev
<1>8. QED
  BY <1>1, <1>2, <1>3, <1>4, <1>5, <1>6, <1>7

\* The caller releases its leaves.
LEMMA UnlockStep ==
  ASSUME NEW t \in Thread, IInv, Unlock(t)
  PROVE  IInv'
<1> USE NodeAssumption, ThreadAssumption
        DEF IInv, ListIsLinked, Unlock, Ptr, PCs, links, history
<1>1. TypeOK'
  BY DEF TypeOK
<1>2. ThreadState'
  BY DEF TypeOK, ThreadState, Splitting, Unlinking, HoldsNext, HoldsPrev
<1>3. LeafState'
  BY DEF LeafState
<1>4. MarksAreOwned'
  BY DEF ThreadState, MarksAreOwned, Linked, Owns, HoldsNext, HoldsPrev
<1>5. NextFollowsOrder'
  BY DEF NextFollowsOrder, Linked
<1>6. PrevFollowsOrder'
  BY DEF PrevFollowsOrder, Linked, Owns
<1>7. OrderIsAList'
  BY DEF OrderIsAList, Linked
<1>8. QED
  BY <1>1, <1>2, <1>3, <1>4, <1>5, <1>6, <1>7

\* A step that changes nothing keeps the invariant.
LEMMA StutterStep == IInv /\ UNCHANGED vars => IInv'
  BY DEF IInv, ListIsLinked, vars, TypeOK, Ptr, ThreadState, LeafState, MarksAreOwned,
         NextFollowsOrder, PrevFollowsOrder, OrderIsAList, Linked, Owns,
         Splitting, Unlinking, HoldsNext, HoldsPrev

\* IInv is inductive: every step of link_split and unlink keeps it.
LEMMA NextIInv == IInv /\ [Next]_vars => IInv'
<1> SUFFICES ASSUME IInv, [Next]_vars PROVE IInv'
  OBVIOUS
<1>1. ASSUME NEW t \in Thread, Step(t) PROVE IInv'
  BY <1>1, LockNextStep, LinkBackStep, LinkPublishStep, ReadPrevStep,
     CasPrevStep, UnlinkBackStep, UnlinkPublishStep, UnlockStep DEF Step
<1>2. ASSUME NEW t \in Thread, NEW x \in Node, NEW y \in Node, BeginSplit(t, x, y)
      PROVE  IInv'
  BY <1>2, BeginSplitStep
<1>3. ASSUME NEW t \in Thread, NEW x \in Node, BeginUnlink(t, x) PROVE IInv'
  BY <1>3, BeginUnlinkStep
<1>4. CASE UNCHANGED vars
  BY <1>4, StutterStep
<1>5. QED
  BY <1>1, <1>2, <1>3, <1>4 DEF Next

\* The inductive invariant holds in every reachable state of the leaf list,
\* for any number of leaves and of threads that split and unlink them.
THEOREM InductiveInvariant == Spec => []IInv
  BY InitIInv, NextIInv, PTL DEF Spec

\* Every variable keeps its type.
THEOREM TypeCorrect == Spec => []TypeOK
<1>1. IInv => TypeOK
  BY DEF IInv
<1>2. QED
  BY <1>1, InductiveInvariant, PTL

\* Leaf linkage for any number of concurrent link_split and unlink calls: the
\* leaves form one list; next_ follows it except at a leaf in the last step of
\* its own split, prev_ except past a leaf in the last step of its own unlink.
THEOREM LeafLinkage == Spec => []ListIsLinked
<1>1. IInv => ListIsLinked
  BY DEF IInv
<1>2. QED
  BY <1>1, InductiveInvariant, PTL

\* The mark bit is a lock on the next pointer: at most one owner, never leaked.
THEOREM MarkOwnership == Spec => []MarksAreOwned
<1>1. IInv => MarksAreOwned
  BY DEF IInv
<1>2. QED
  BY <1>1, InductiveInvariant, PTL

\* Frozen(x): what a step does to the next word of an unlinked leaf: nothing.
Frozen(x) ==
  life[x] = "unlinked" =>
    /\ life'[x] = "unlinked"
    /\ next'[x] = next[x]
    /\ x \in marked' <=> x \in marked

\* No step writes the next word of an unlinked leaf.
LEMMA FrozenStep ==
  ASSUME IInv, [Next]_vars, NEW x \in Node
  PROVE  Frozen(x)
<1> USE NodeAssumption DEF Frozen, IInv, TypeOK, ThreadState, links, history
<1>1. ASSUME NEW t \in Thread, LockNext(t) PROVE Frozen(x)
  BY <1>1 DEF LockNext, Splitting, Unlinking
<1>2. ASSUME NEW t \in Thread, LinkBack(t) PROVE Frozen(x)
  BY <1>2 DEF LinkBack, Splitting
<1>3. ASSUME NEW t \in Thread, LinkPublish(t) PROVE Frozen(x)
  BY <1>3 DEF LinkPublish, Splitting
<1>4. ASSUME NEW t \in Thread, CasPrev(t) PROVE Frozen(x)
  BY <1>4 DEF CasPrev, Unlinking, LeafState, Ptr
<1>5. ASSUME NEW t \in Thread, UnlinkPublish(t) PROVE Frozen(x)
  BY <1>5 DEF UnlinkPublish, Unlinking, HoldsPrev
<1>6. ASSUME NEW t \in Thread, ReadPrev(t) \/ UnlinkBack(t) \/ Unlock(t)
      PROVE  Frozen(x)
  BY <1>6 DEF ReadPrev, UnlinkBack, Unlock
<1>7. ASSUME NEW t \in Thread, NEW y \in Node, NEW z \in Node,
             BeginSplit(t, y, z) \/ BeginUnlink(t, y)
      PROVE  Frozen(x)
  BY <1>7 DEF BeginSplit, BeginUnlink
<1>8. CASE UNCHANGED vars
  BY <1>8 DEF vars
<1>9. QED
  BY <1>1, <1>2, <1>3, <1>4, <1>5, <1>6, <1>7, <1>8 DEF Next, Step

\* A leaf that unlink has taken out keeps its next_ for ever, mark included.
THEOREM UnlinkedStaysFrozen == Spec => UnlinkedIsFrozen
<1>1. IInv /\ [Next]_vars =>
        [\A x \in Node : life[x] = "unlinked" =>
           /\ life'[x] = "unlinked"
           /\ next'[x] = next[x]
           /\ x \in marked' <=> x \in marked]_vars
  BY FrozenStep DEF Frozen
<1>2. QED
  BY <1>1, InductiveInvariant, PTL DEF Spec, UnlinkedIsFrozen

(***************************************************************************)
(* What the pointers of the leaf list lead to: ActiveIsReachable and       *)
(* GraceSuffices.  A node that is reached is in every set closed under the *)
(* pointers, so that it is not reached is shown by such a set, and that it *)
(* is by the invariant OrderCovers, which says the same of the list order. *)
(***************************************************************************)

\* One leaf, nothing unlinked, nobody at work.
LEMMA InitGInv == Init => GInv
<1> SUFFICES ASSUME Init PROVE GInv
  OBVIOUS
<1> USE NodeAssumption, ThreadAssumption DEF Init
<1>1. OrderCovers
  BY DEF OrderCovers, Linked
<1>2. FreshIsPrivate /\ GraceIsInside /\ IntoUnlinked
  BY DEF FreshIsPrivate, GraceIsInside, IntoUnlinked
<1>3. StaleIsBridged /\ NullIsLast
  BY DEF StaleIsBridged, NullIsLast
<1>4. QED
  BY <1>1, <1>2, <1>3, InitIInv DEF GInv

\* A step that writes no pointer, and leaves the splits where they are.
LEMMA QuietStep ==
  ASSUME GInv, IInv', UNCHANGED <<next, prev, life, succ, grace>>,
         \A u \in Thread :
           /\ pc[u] # "idle" => pc'[u] # "idle"
           /\ pc[u] \in {"s_lock", "s_back"} =>
                pc'[u] \in {"s_lock", "s_back"} /\ nr'[u] = nr[u]
           /\ pc'[u] = "s_pub" <=> pc[u] = "s_pub"
           /\ pc[u] = "s_pub" => n'[u] = n[u] /\ nr'[u] = nr[u] /\ nxt'[u] = nxt[u]
  PROVE  GInv'
<1> USE DEF GInv
<1>1. OrderCovers'
  BY DEF OrderCovers, Linked
<1>2. FreshIsPrivate'
  BY DEF FreshIsPrivate
<1>3. GraceIsInside'
  BY DEF GraceIsInside
<1>4. IntoUnlinked'
  BY DEF IntoUnlinked
<1>5. StaleIsBridged' /\ NullIsLast'
  BY DEF StaleIsBridged, LeadsTo, LeadsOnlyTo, UnlinkedPass, NullIsLast
<1>6. QED
  BY <1>1, <1>2, <1>3, <1>4, <1>5

\* nr->prev_ = n, for a leaf that is not in the list.
LEMMA BeginSplitReach ==
  ASSUME NEW t \in Thread, NEW x \in Node, NEW y \in Node, GInv, IInv', BeginSplit(t, x, y)
  PROVE  GInv'
<1> USE DEF GInv, BeginSplit, history
<1>0. TypeOK /\ (\A u \in Thread \ {t} : pc'[u] = pc[u] /\ n'[u] = n[u] /\ nr'[u] = nr[u])
      /\ pc'[t] = "s_lock" /\ nr'[t] = y
  BY DEF IInv, TypeOK
<1>1. OrderCovers'
  BY DEF OrderCovers, Linked
<1>2. FreshIsPrivate'
  BY <1>0 DEF FreshIsPrivate, TypeOK
<1>3. GraceIsInside'
  BY <1>0 DEF GraceIsInside
<1>4. IntoUnlinked'
  BY <1>0 DEF IntoUnlinked, TypeOK
<1>5. StaleIsBridged' /\ NullIsLast'
  BY <1>0 DEF StaleIsBridged, LeadsTo, LeadsOnlyTo, UnlinkedPass, NullIsLast
<1>6. QED
  BY <1>1, <1>2, <1>3, <1>4, <1>5

\* What the thread in link_split knows of its two leaves.
LEMMA SplitFacts ==
  ASSUME NEW t \in Thread, IInv, pc[t] = "s_back"
  PROVE  /\ n[t] \in Linked /\ nr[t] \in Node /\ life[nr[t]] = "fresh" /\ n[t] # nr[t]
         /\ succ[n[t]] = nxt[t] /\ next[n[t]] = nxt[t]
         /\ nxt[t] # Null => nxt[t] \in Linked
         /\ \A u \in Thread \ {t} : pc[u] \in {"s_lock", "s_back", "s_pub"} =>
              nr[u] # n[t] /\ nr[u] # nr[t] /\ n[u] # n[t]
  BY NodeAssumption DEF IInv, ListIsLinked, TypeOK, ThreadState, OrderIsAList, Linked, Splitting,
                        Unlinking, HoldsNext, HoldsPrev

\* The new leaf enters the list behind its sibling.
LEMMA LinkBackReach ==
  ASSUME NEW t \in Thread, GInv, IInv', LinkBack(t)
  PROVE  GInv'
<1> USE NodeAssumption DEF GInv, LinkBack
<1>0. TypeOK /\ pc'[t] = "s_pub" /\ (\A u \in Thread \ {t} : pc'[u] = pc[u])
  BY DEF IInv, TypeOK
<1>1. /\ n[t] \in Linked /\ nr[t] \in Node /\ life[nr[t]] = "fresh" /\ n[t] # nr[t]
      /\ succ[n[t]] = nxt[t] /\ next[n[t]] = nxt[t]
      /\ nxt[t] # Null => nxt[t] \in Linked
      /\ \A u \in Thread \ {t} : pc[u] \in {"s_lock", "s_back", "s_pub"} =>
           nr[u] # n[t] /\ nr[u] # nr[t] /\ n[u] # n[t]
  BY SplitFacts
<1>2. /\ Linked' = Linked \cup {nr[t]} /\ nr[t] \notin Linked /\ Linked \subseteq Node
      /\ succ'[n[t]] = nr[t] /\ succ'[nr[t]] = nxt[t]
      /\ \A x \in Node \ {n[t], nr[t]} : succ'[x] = succ[x]
      /\ \A x \in Node : life'[x] = "unlinked" <=> life[x] = "unlinked"
      /\ \A x \in Node \ {nr[t]} : life'[x] = life[x] /\ next'[x] = next[x]
  BY <1>0, <1>1 DEF TypeOK, Linked
<1>3. OrderCovers'
  <2>1. ASSUME NEW S \in SUBSET Node, First \in S,
               \A x \in S \cap Linked' : succ'[x] \in S \cup {Null}
        PROVE  Linked' \subseteq S
    <3>1. n[t] \in S => nr[t] \in S /\ nxt[t] \in S \cup {Null}
      BY <1>1, <1>2, <2>1
    <3>2. \A x \in S \cap Linked : succ[x] \in S \cup {Null}
      BY <1>1, <1>2, <2>1, <3>1
    <3>3. Linked \subseteq S
      BY <2>1, <3>2 DEF OrderCovers
    <3>4. QED
      BY <1>1, <1>2, <3>1, <3>3
  <2>2. QED
    BY <2>1 DEF OrderCovers
<1>4. FreshIsPrivate'
  <2>1. ASSUME NEW x \in Node, life'[x] = "fresh", prev'[x] # Null
        PROVE  \E u \in Thread : pc'[u] \in {"s_lock", "s_back"} /\ nr'[u] = x
    <3>1. x # nr[t] /\ life[x] = "fresh"
      BY <1>0, <1>1, <1>2, <2>1 DEF TypeOK
    <3>2. prev'[x] = prev[x]
      BY <1>0, <1>1, <3>1 DEF Linked, TypeOK
    <3>3. PICK u \in Thread : pc[u] \in {"s_lock", "s_back"} /\ nr[u] = x
      BY <2>1, <3>1, <3>2 DEF FreshIsPrivate
    <3>4. QED
      BY <1>0, <3>1, <3>3
  <2>2. QED
    BY <2>1 DEF FreshIsPrivate
<1>5. GraceIsInside'
  BY <1>0 DEF GraceIsInside
<1>6. IntoUnlinked'
  <2>1. ASSUME NEW x \in Node, NEW y \in Node, life[y] = "unlinked"
        PROVE  /\ next'[x] = y => next[x] = y
               /\ prev'[x] = y => prev[x] = y
    BY <1>0, <1>1, <2>1 DEF TypeOK, Linked
  <2>2. \A u \in Thread : pc[u] = "s_pub" => pc'[u] = "s_pub"
    BY <1>0
  <2>3. QED
    BY <1>2, <2>1, <2>2 DEF IntoUnlinked
<1>7. StaleIsBridged' /\ NullIsLast'
  <2>1. \A S \in SUBSET Node : UnlinkedPass(S)' <=> UnlinkedPass(S)
    BY <1>1, <1>2 DEF UnlinkedPass
  <2>2. ASSUME NEW u \in Thread \ {t}, pc[u] = "s_pub"
        PROVE  succ'[nr[u]] = succ[nr[u]]
    <3>1. nr[u] \in Node
      BY <2>2 DEF IInv, ThreadState, Splitting
    <3>2. QED
      BY <1>1, <1>2, <2>2, <3>1
  <2>3. ASSUME NEW u \in Thread, pc'[u] = "s_pub", nxt[u] = Null PROVE succ'[nr[u]] = Null
    <3>1. CASE u = t
      BY <1>2, <2>3, <3>1
    <3>2. CASE u # t
      BY <1>0, <2>2, <2>3, <3>2 DEF NullIsLast
    <3>3. QED
      BY <3>1, <3>2
  <2>4. ASSUME NEW u \in Thread, pc'[u] = "s_pub", nxt[u] # Null
        PROVE  /\ succ'[nr[u]] # Null => LeadsTo(nxt[u], succ[nr[u]])'
               /\ LeadsOnlyTo(nxt[u], succ[nr[u]])'
    <3>1. CASE u = t
      <4>1. {nxt[t]} \in SUBSET Node /\ life[nxt[t]] = "linked"
        BY <1>1, <2>4, <3>1 DEF Linked
      <4>2. UnlinkedPass({nxt[t]}) /\ life'[nxt[t]] = "linked" /\ succ'[nr[t]] = nxt[t]
        BY <1>1, <1>2, <2>4, <3>1, <4>1 DEF UnlinkedPass
      <4>3. LeadsTo(nxt[t], succ[nr[t]])'
        BY <4>2 DEF LeadsTo
      <4>4. LeadsOnlyTo(nxt[t], succ[nr[t]])'
        <5>1. UnlinkedPass({nxt[t]})'
          BY <2>1, <4>1, <4>2
        <5>2. \A z \in {nxt[t]} : life'[z] # "fresh" /\ (life'[z] = "linked" => z = succ'[nr[t]])
          BY <4>2
        <5>3. QED
          BY <4>1, <5>1, <5>2 DEF LeadsOnlyTo
      <4>5. QED
        BY <3>1, <4>3, <4>4
    <3>2. CASE u # t
      <4>1. pc[u] = "s_pub" /\ succ'[nr[u]] = succ[nr[u]]
        BY <1>0, <2>2, <2>4, <3>2
      <4>2. (succ[nr[u]] # Null => LeadsTo(nxt[u], succ[nr[u]])) /\ LeadsOnlyTo(nxt[u], succ[nr[u]])
        BY <2>4, <4>1 DEF StaleIsBridged
      <4>3. PICK C \in SUBSET Node :
               /\ nxt[u] \in C /\ UnlinkedPass(C)
               /\ \A z \in C : life[z] # "fresh" /\ (life[z] = "linked" => z = succ[nr[u]])
        BY <4>2 DEF LeadsOnlyTo
      <4>4. \A z \in C : life'[z] = life[z]
        BY <1>1, <1>2, <4>3
      <4>5. LeadsOnlyTo(nxt[u], succ[nr[u]])'
        BY <2>1, <4>1, <4>3, <4>4 DEF LeadsOnlyTo
      <4>6. QED
        BY <2>1, <4>1, <4>2, <4>5 DEF LeadsTo
    <3>3. QED
      BY <3>1, <3>2
  <2>5. StaleIsBridged'
    BY <2>4 DEF StaleIsBridged
  <2>6. QED
    BY <2>3, <2>5 DEF NullIsLast
<1>8. QED
  BY <1>3, <1>4, <1>5, <1>6, <1>7

\* The split is published: the leaf's next_ is what the order says.
LEMMA LinkPublishReach ==
  ASSUME NEW t \in Thread, GInv, IInv', LinkPublish(t)
  PROVE  GInv'
<1> USE DEF GInv, LinkPublish, history
<1>0. TypeOK /\ pc'[t] = "unlock" /\ (\A u \in Thread \ {t} : pc'[u] = pc[u])
  BY DEF IInv, TypeOK
<1>1. /\ n[t] \in Node /\ life[n[t]] = "linked" /\ life[nr[t]] = "linked"
      /\ next'[n[t]] = nr[t] /\ \A x \in Node \ {n[t]} : next'[x] = next[x]
  BY <1>0 DEF IInv, TypeOK, ThreadState, Splitting
<1>2. OrderCovers'
  BY DEF OrderCovers, Linked
<1>3. FreshIsPrivate'
  BY <1>0 DEF FreshIsPrivate
<1>4. GraceIsInside'
  BY <1>0 DEF GraceIsInside
<1>5. IntoUnlinked'
  BY <1>0, <1>1 DEF IntoUnlinked
<1>6. StaleIsBridged' /\ NullIsLast'
  <2>1. \A S \in SUBSET Node : UnlinkedPass(S)' <=> UnlinkedPass(S)
    BY <1>1 DEF UnlinkedPass
  <2>2. \A u \in Thread : pc'[u] = "s_pub" => pc[u] = "s_pub"
    BY <1>0
  <2>3. QED
    BY <2>1, <2>2 DEF StaleIsBridged, LeadsTo, LeadsOnlyTo, NullIsLast
<1>7. QED
  BY <1>2, <1>3, <1>4, <1>5, <1>6

\* next->prev_ = prev: a pointer to a leaf in the list.
LEMMA UnlinkBackReach ==
  ASSUME NEW t \in Thread, GInv, IInv', UnlinkBack(t)
  PROVE  GInv'
<1> USE DEF GInv, UnlinkBack, history
<1>0. TypeOK /\ pc'[t] = "u_pub" /\ (\A u \in Thread \ {t} : pc'[u] = pc[u])
  BY DEF IInv, TypeOK
<1>1. /\ prv[t] \in Node /\ life[prv[t]] = "linked"
      /\ nxt[t] # Null => nxt[t] \in Linked
  BY DEF IInv, ListIsLinked, ThreadState, OrderIsAList, Linked, HoldsNext, HoldsPrev, Unlinking
<1>2. OrderCovers'
  BY DEF OrderCovers, Linked
<1>3. FreshIsPrivate'
  <2>1. ASSUME NEW x \in Node, life[x] = "fresh" PROVE prev'[x] = prev[x]
    BY <1>0, <1>1, <2>1 DEF TypeOK, Linked
  <2>2. QED
    BY <1>0, <2>1 DEF FreshIsPrivate
<1>4. GraceIsInside'
  BY <1>0 DEF GraceIsInside
<1>5. IntoUnlinked'
  <2>1. ASSUME NEW x \in Node, NEW y \in Node, life[y] = "unlinked", prev'[x] = y
        PROVE  prev[x] = y
    BY <1>0, <1>1, <2>1 DEF TypeOK, Linked
  <2>2. \A u \in Thread : pc[u] = "s_pub" => pc'[u] = "s_pub"
    BY <1>0
  <2>3. QED
    BY <2>1, <2>2 DEF IntoUnlinked
<1>6. StaleIsBridged' /\ NullIsLast'
  BY <1>0 DEF StaleIsBridged, LeadsTo, LeadsOnlyTo, UnlinkedPass, NullIsLast
<1>7. QED
  BY <1>2, <1>3, <1>4, <1>5, <1>6

\* Every leaf but the first has a predecessor.
LEMMA Predecessor ==
  ASSUME IInv, OrderCovers, NEW z \in Linked \ {First}
  PROVE  \E w \in Linked : succ[w] = z
<1> SUFFICES ASSUME \A w \in Linked : succ[w] # z PROVE FALSE
  OBVIOUS
<1>1. Node \ {z} \in SUBSET Node /\ First \in Node \ {z}
  BY NodeAssumption
<1>2. \A x \in (Node \ {z}) \cap Linked : succ[x] \in (Node \ {z}) \cup {Null}
  BY DEF IInv, TypeOK, Ptr
<1>3. QED
  BY <1>1, <1>2 DEF OrderCovers, Linked

\* What the thread in unlink knows of its leaf and of the predecessor.
LEMMA UnlinkFacts ==
  ASSUME NEW t \in Thread, IInv, pc[t] = "u_pub"
  PROVE  /\ n[t] \in Linked /\ prv[t] \in Linked /\ n[t] # prv[t] /\ n[t] # First
         /\ succ[prv[t]] = n[t] /\ succ[n[t]] = nxt[t] /\ next[n[t]] = nxt[t]
         /\ nxt[t] # Null => nxt[t] \in Linked /\ nxt[t] # n[t] /\ prev[nxt[t]] = prv[t]
         /\ lock[n[t]] = t
         /\ \A u \in Thread \ {t} : pc[u] \in {"s_lock", "s_back", "s_pub"} =>
              n[u] # n[t] /\ nr[u] # n[t]
         /\ \A u \in Thread \ {t} : pc[u] = "u_pub" => n[u] # n[t] /\ prv[u] # n[t]
<1> USE NodeAssumption DEF IInv, ListIsLinked
<1>1. /\ n[t] \in Linked /\ prv[t] \in Linked /\ n[t] # prv[t] /\ n[t] # First
      /\ succ[prv[t]] = n[t] /\ succ[n[t]] = nxt[t] /\ next[n[t]] = nxt[t]
      /\ lock[n[t]] = t
  BY DEF TypeOK, ThreadState, Linked, Unlinking, HoldsNext, HoldsPrev
<1>2. nxt[t] # Null => nxt[t] \in Linked /\ nxt[t] # n[t] /\ prev[nxt[t]] = prv[t]
  BY <1>1 DEF ThreadState, OrderIsAList
<1>3. \A u \in Thread \ {t} : pc[u] \in {"s_lock", "s_back", "s_pub"} =>
        n[u] # n[t] /\ nr[u] # n[t]
  BY <1>1 DEF ThreadState, Splitting
<1>4. ASSUME NEW u \in Thread \ {t}, pc[u] = "u_pub"
      PROVE  n[u] # n[t] /\ prv[u] # n[t]
  <2>1. n[u] # n[t]
    BY <1>1, <1>4 DEF ThreadState
  <2>2. SUFFICES ASSUME prv[u] = n[t] PROVE FALSE
    BY <2>1
  <2>3. next[n[t]] = n[u] /\ n[u] \in Node /\ n[t] \in Node
    BY <1>1, <1>4, <2>2 DEF ThreadState, HoldsPrev, Linked
  <2>4. nxt[t] # Null
    BY <1>1, <2>3
  <2>5. Owns(t, n[t]) /\ Owns(u, n[t])
    BY <1>4, <2>2, <2>4 DEF Owns, HoldsNext, HoldsPrev
  <2>6. QED
    BY <2>3, <2>5 DEF MarksAreOwned
<1>5. QED
  BY <1>1, <1>2, <1>3, <1>4

\* The leaf leaves the list, and its predecessor takes its place.
LEMMA UnlinkPublishReach ==
  ASSUME NEW t \in Thread, GInv, IInv', UnlinkPublish(t)
  PROVE  GInv'
<1> USE NodeAssumption DEF GInv, UnlinkPublish
<1>0. /\ TypeOK /\ OrderIsAList /\ pc'[t] = "unlock" /\ (\A u \in Thread \ {t} : pc'[u] = pc[u])
      /\ n' = n /\ nr' = nr /\ nxt' = nxt /\ prv' = prv /\ prev' = prev
  BY DEF IInv, TypeOK, ListIsLinked
<1>1. /\ n[t] \in Linked /\ prv[t] \in Linked /\ n[t] # prv[t] /\ n[t] # First
      /\ succ[prv[t]] = n[t] /\ succ[n[t]] = nxt[t] /\ next[n[t]] = nxt[t]
      /\ nxt[t] # Null => nxt[t] \in Linked /\ nxt[t] # n[t] /\ prev[nxt[t]] = prv[t]
      /\ \A u \in Thread \ {t} : pc[u] \in {"s_lock", "s_back", "s_pub"} =>
           n[u] # n[t] /\ nr[u] # n[t]
      /\ \A u \in Thread \ {t} : pc[u] = "u_pub" => n[u] # n[t] /\ prv[u] # n[t]
  BY UnlinkFacts
<1>2. /\ Linked' = Linked \ {n[t]} /\ Linked \subseteq Node
      /\ succ'[prv[t]] = nxt[t] /\ next'[prv[t]] = nxt[t] /\ life'[n[t]] = "unlinked"
      /\ grace'[n[t]] = {u \in Thread : pc[u] # "idle"}
      /\ \A x \in Node \ {prv[t]} : succ'[x] = succ[x] /\ next'[x] = next[x]
      /\ \A x \in Node \ {n[t]} : life'[x] = life[x] /\ grace'[x] = grace[x]
  BY <1>0, <1>1 DEF TypeOK, Linked
<1> HIDE DEF UnlinkPublish
<1>3. OrderCovers'
  <2>1. ASSUME NEW S \in SUBSET Node, First \in S,
               \A x \in S \cap Linked' : succ'[x] \in S \cup {Null}
        PROVE  Linked' \subseteq S
    <3>1. CASE prv[t] \in S
      <4>1. \A x \in (S \cup {n[t]}) \cap Linked : succ[x] \in S \cup {n[t]} \cup {Null}
        BY <1>1, <1>2, <2>1, <3>1
      <4>2. S \cup {n[t]} \in SUBSET Node
        BY <1>1, <1>2
      <4>3. Linked \subseteq S \cup {n[t]}
        BY <2>1, <4>1, <4>2 DEF OrderCovers
      <4>4. QED
        BY <1>2, <4>3
    <3>2. CASE prv[t] \notin S
      <4>1. \A x \in Linked : succ[x] = n[t] => x = prv[t]
        BY <1>0, <1>1, <1>2 DEF OrderIsAList
      <4>2. \A x \in (S \ {n[t]}) \cap Linked : succ[x] \in (S \ {n[t]}) \cup {Null}
        BY <1>1, <1>2, <2>1, <3>2, <4>1
      <4>3. S \ {n[t]} \in SUBSET Node /\ First \in S \ {n[t]}
        BY <1>1, <2>1
      <4>4. Linked \subseteq S \ {n[t]}
        BY <4>2, <4>3 DEF OrderCovers
      <4>5. QED
        BY <1>2, <4>4
    <3>3. QED
      BY <3>1, <3>2
  <2>2. QED
    BY <2>1 DEF OrderCovers
<1>4. FreshIsPrivate'
  BY <1>0, <1>2, UnlinkFacts DEF FreshIsPrivate, UnlinkPublish
<1>5. GraceIsInside'
  <2>1. \A u \in Thread : pc[u] # "idle" => pc'[u] # "idle"
    BY <1>0
  <2>2. \A x \in Node, u \in Thread : u \in grace'[x] => pc[u] # "idle"
    BY <1>2 DEF GraceIsInside
  <2>3. QED
    BY <2>1, <2>2 DEF GraceIsInside
<1>6. IntoUnlinked'
  <2>1. ASSUME NEW x \in Node, NEW y \in Node, y # n[t], life'[y] = "unlinked"
        PROVE  /\ next'[x] = y =>
                    \/ life'[x] = "unlinked" /\ grace'[x] \subseteq grace'[y]
                    \/ \E u \in Thread : pc'[u] = "s_pub" /\ n'[u] = x /\ u \in grace'[y]
               /\ prev'[x] = y => life'[x] = "unlinked" /\ grace'[x] \subseteq grace'[y]
    <3>1. life[y] = "unlinked" /\ grace'[y] = grace[y] /\ nxt[t] # y
      BY <1>1, <1>2, <2>1 DEF Linked
    <3>2. next'[x] = y => next[x] = y
      BY <1>2, <3>1
    <3>3. life[x] = "unlinked" => life'[x] = "unlinked" /\ grace'[x] = grace[x]
      BY <1>1, <1>2 DEF Linked
    <3>4. \A u \in Thread : pc[u] = "s_pub" => pc'[u] = "s_pub"
      BY <1>0 DEF UnlinkPublish
    <3>5. QED
      BY <1>0, <3>1, <3>2, <3>3, <3>4 DEF IntoUnlinked
  <2>2. ASSUME NEW x \in Node, life[x] = "unlinked"
        PROVE  life'[x] = "unlinked" /\ grace'[x] \subseteq grace'[n[t]]
    <3>1. x # n[t]
      BY <1>1, <2>2 DEF Linked
    <3>2. grace[x] \subseteq Thread
      BY <1>0 DEF TypeOK
    <3>3. QED
      BY <1>2, <2>2, <3>1, <3>2 DEF GraceIsInside
  <2>3. ASSUME NEW x \in Node, next'[x] = n[t]
        PROVE  \/ life'[x] = "unlinked" /\ grace'[x] \subseteq grace'[n[t]]
               \/ \E u \in Thread : pc'[u] = "s_pub" /\ n'[u] = x /\ u \in grace'[n[t]]
    <3>1. n[t] # Null
      BY <1>1, <1>2
    <3>2. x # prv[t] /\ next[x] = n[t]
      BY <1>1, <1>2, <2>3, <3>1
    <3>3. CASE life[x] = "unlinked"
      BY <2>2, <3>3
    <3>4. CASE life[x] = "linked"
      <4>1. succ[x] # n[t]
        BY <1>0, <1>1, <1>2, <3>2, <3>4 DEF OrderIsAList, Linked
      <4>2. PICK u \in Thread : pc[u] = "s_pub" /\ n[u] = x
        BY <3>2, <3>4, <4>1 DEF IInv, ListIsLinked, NextFollowsOrder, Linked
      <4>3. QED
        BY <1>0, <1>2, <4>2 DEF UnlinkPublish
    <3>5. life[x] # "fresh"
      BY <3>1, <3>2 DEF IInv, LeafState
    <3>6. QED
      BY <1>0, <3>3, <3>4, <3>5 DEF TypeOK
  <2>4. ASSUME NEW x \in Node, prev'[x] = n[t]
        PROVE  life'[x] = "unlinked" /\ grace'[x] \subseteq grace'[n[t]]
    <3>1. prev[x] = n[t] /\ n[t] # Null
      BY <1>0, <1>1, <1>2, <2>4
    <3>2. life[x] # "fresh"
      <4>1. SUFFICES ASSUME life[x] = "fresh" PROVE FALSE
        OBVIOUS
      <4>2. PICK u \in Thread : pc[u] \in {"s_lock", "s_back"} /\ nr[u] = x
        BY <3>1, <4>1 DEF FreshIsPrivate
      <4>3. n[u] = n[t] /\ u # t
        BY <3>1, <4>2 DEF IInv, ThreadState, UnlinkPublish
      <4>4. QED
        BY <1>1, <4>2, <4>3
    <3>3. life[x] # "linked"
      <4>1. SUFFICES ASSUME life[x] = "linked" PROVE FALSE
        OBVIOUS
      <4>2. x \in Linked \ {First}
        BY <3>1, <4>1 DEF IInv, LeafState, Linked
      <4>3. PICK w \in Linked : succ[w] = x
        BY <4>2, Predecessor
      <4>4. w # n[t]
        BY <1>1, <1>2, <3>1, <4>2, <4>3
      <4>5. x # Null
        BY <1>2, <4>2
      <4>6. PICK u \in Thread : pc[u] = "u_pub" /\ prev[x] = prv[u]
        BY <3>1, <4>3, <4>4, <4>5 DEF IInv, ListIsLinked, PrevFollowsOrder
      <4>7. u # t
        BY <1>1, <3>1, <4>6
      <4>8. QED
        BY <1>1, <3>1, <4>6, <4>7
    <3>4. QED
      BY <1>0, <2>2, <3>2, <3>3 DEF TypeOK
  <2>5. QED
    BY <2>1, <2>3, <2>4 DEF IntoUnlinked
<1>7. StaleIsBridged' /\ NullIsLast'
  <2>1. \A S \in SUBSET Node :
          UnlinkedPass(S)' <=> UnlinkedPass(S) /\ (n[t] \in S => nxt[t] \in S \cup {Null})
    BY <1>1, <1>2 DEF UnlinkedPass, Linked
  <2>2. ASSUME NEW u \in Thread, pc'[u] = "s_pub"
        PROVE  /\ pc[u] = "s_pub" /\ nr[u] \in Linked /\ (succ[nr[u]] = n[t] <=> nr[u] = prv[t])
               /\ nr[u] # prv[t] => succ'[nr[u]] = succ[nr[u]]
    <3>1. pc[u] = "s_pub"
      BY <1>0, <2>2
    <3>2. nr[u] \in Linked
      BY <3>1 DEF IInv, ThreadState, Splitting, Linked
    <3>3. QED
      BY <1>0, <1>1, <1>2, <3>1, <3>2 DEF OrderIsAList
  <2>3. ASSUME NEW u \in Thread, pc'[u] = "s_pub", nxt[u] = Null PROVE succ'[nr[u]] = Null
    <3>1. pc[u] = "s_pub" /\ succ[nr[u]] = Null
      BY <1>0, <2>3 DEF NullIsLast
    <3>2. QED
      BY <1>1, <1>2, <2>2, <2>3, <3>1
  <2>4. ASSUME NEW u \in Thread, pc'[u] = "s_pub", nxt[u] # Null
        PROVE  /\ succ'[nr[u]] # Null => LeadsTo(nxt[u], succ[nr[u]])'
               /\ LeadsOnlyTo(nxt[u], succ[nr[u]])'
    <3>1. /\ succ[nr[u]] # Null =>
               \A S \in SUBSET Node : nxt[u] \in S /\ UnlinkedPass(S) => succ[nr[u]] \in S
          /\ LeadsOnlyTo(nxt[u], succ[nr[u]])
      <4>1. pc[u] = "s_pub"
        BY <1>0, <2>4
      <4>2. QED
        BY <2>4, <4>1 DEF StaleIsBridged, LeadsTo
    <3>2. PICK C \in SUBSET Node :
               /\ nxt[u] \in C /\ UnlinkedPass(C)
               /\ \A z \in C : life[z] # "fresh" /\ (life[z] = "linked" => z = succ[nr[u]])
      BY <3>1 DEF LeadsOnlyTo
    <3>3. CASE nr[u] = prv[t]
      <4>1. succ'[nr[u]] = nxt[t] /\ succ[nr[u]] = n[t] /\ n[t] # Null
        BY <1>1, <1>2, <3>3
      <4>2. LeadsTo(nxt[u], succ[nr[u]])' \/ nxt[t] = Null
        BY <1>0, <2>1, <3>1, <4>1 DEF LeadsTo
      <4>3. \A z \in C : life[z] = "linked" <=> z = n[t]
        <5>1. \A z \in C : life[z] = "linked" => z = n[t]
          BY <3>2, <4>1
        <5>2. QED
          BY <1>1, <5>1 DEF Linked
      <4>4. LeadsOnlyTo(nxt[u], succ[nr[u]])'
        <5>1. PICK D : D = C \cup ({nxt[t]} \cap Linked)
          OBVIOUS
        <5>2. D \in SUBSET Node /\ nxt'[u] \in D
          BY <1>0, <1>2, <3>2, <5>1
        <5>3. UnlinkedPass(D)
          BY <3>2, <5>1 DEF UnlinkedPass, Linked
        <5>4. nxt[t] \in D \cup {Null}
          BY <1>1, <5>1
        <5>5. UnlinkedPass(D)'
          BY <2>1, <5>2, <5>3, <5>4
        <5>6. ASSUME NEW z \in D
              PROVE  life'[z] # "fresh" /\ (life'[z] = "linked" => z = nxt[t])
          <6>1. CASE z = n[t]
            BY <1>2, <6>1
          <6>2. CASE z # n[t] /\ z \in C
            BY <1>2, <3>2, <4>3, <6>2
          <6>3. CASE z # n[t] /\ z \in {nxt[t]} \cap Linked
            BY <1>2, <6>3 DEF Linked
          <6>4. QED
            BY <5>1, <6>1, <6>2, <6>3
        <5>7. \A z \in D : life'[z] # "fresh" /\ (life'[z] = "linked" => z = succ'[nr'[u]])
          BY <1>0, <4>1, <5>6
        <5>8. QED
          BY <5>2, <5>5, <5>7 DEF LeadsOnlyTo
      <4>5. QED
        BY <4>1, <4>2, <4>4
    <3>4. CASE nr[u] # prv[t]
      <4>1. succ'[nr[u]] = succ[nr[u]] /\ succ[nr[u]] # n[t]
        BY <2>2, <2>4, <3>4
      <4>2. n[t] \notin C
        BY <1>1, <3>2, <4>1 DEF Linked
      <4>3. UnlinkedPass(C)' /\ \A z \in C : life'[z] = life[z]
        BY <1>2, <2>1, <3>2, <4>2
      <4>4. LeadsOnlyTo(nxt[u], succ[nr[u]])'
        BY <1>0, <3>2, <4>1, <4>3 DEF LeadsOnlyTo
      <4>5. succ[nr[u]] # Null => LeadsTo(nxt[u], succ[nr[u]])'
        BY <1>0, <2>1, <3>1, <4>1 DEF LeadsTo
      <4>6. QED
        BY <4>1, <4>4, <4>5
    <3>5. QED
      BY <3>3, <3>4
  <2>5. QED
    BY <1>0, <2>3, <2>4 DEF StaleIsBridged, NullIsLast
<1>8. QED
  BY <1>3, <1>4, <1>5, <1>6, <1>7

\* The end of an operation: the grace periods that wait for it get shorter.
LEMMA UnlockReach ==
  ASSUME NEW t \in Thread, GInv, IInv', Unlock(t)
  PROVE  GInv'
<1> USE DEF GInv, Unlock, links
<1>0. TypeOK /\ pc[t] = "unlock" /\ pc'[t] = "idle" /\ (\A u \in Thread \ {t} : pc'[u] = pc[u])
  BY DEF IInv, TypeOK
<1>1. OrderCovers'
  BY DEF OrderCovers, Linked
<1>2. FreshIsPrivate'
  BY <1>0 DEF FreshIsPrivate
<1>3. GraceIsInside'
  BY <1>0 DEF GraceIsInside
<1>4. IntoUnlinked'
  <2>1. \A x \in Node : grace'[x] = grace[x] \ {t}
    OBVIOUS
  <2>2. \A x, y \in Node : grace[x] \subseteq grace[y] => grace'[x] \subseteq grace'[y]
    BY <2>1
  <2>3. \A u \in Thread, y \in Node :
          pc[u] = "s_pub" /\ u \in grace[y] => pc'[u] = "s_pub" /\ u \in grace'[y]
    BY <1>0, <2>1
  <2>4. QED
    BY <2>2, <2>3 DEF IntoUnlinked
<1>5. StaleIsBridged' /\ NullIsLast'
  BY <1>0 DEF StaleIsBridged, LeadsTo, LeadsOnlyTo, UnlinkedPass, NullIsLast
<1>6. QED
  BY <1>1, <1>2, <1>3, <1>4, <1>5

\* The steps that write no pointer.
LEMMA WriteFreeReach ==
  ASSUME NEW t \in Thread, GInv, IInv',
         \/ LockNext(t) \/ ReadPrev(t) \/ CasPrev(t) \/ \E x \in Node : BeginUnlink(t, x)
  PROVE  GInv'
<1> USE DEF history, links
<1>0. TypeOK
  BY DEF GInv, IInv
<1>1. CASE LockNext(t)
  BY <1>0, <1>1, QuietStep DEF LockNext, TypeOK
<1>2. CASE ReadPrev(t)
  BY <1>0, <1>2, QuietStep DEF ReadPrev, TypeOK
<1>3. CASE CasPrev(t)
  BY <1>0, <1>3, QuietStep DEF CasPrev, TypeOK
<1>4. CASE \E x \in Node : BeginUnlink(t, x)
  BY <1>0, <1>4, QuietStep DEF BeginUnlink, TypeOK
<1>5. QED
  BY <1>1, <1>2, <1>3, <1>4

LEMMA NextGInv == GInv /\ [Next]_vars => GInv'
<1> SUFFICES ASSUME GInv, [Next]_vars PROVE GInv'
  OBVIOUS
<1>1. IInv'
  BY NextIInv DEF GInv
<1>2. ASSUME NEW t \in Thread, Step(t) PROVE GInv'
  BY <1>1, <1>2, WriteFreeReach, LinkBackReach, LinkPublishReach, UnlinkBackReach,
     UnlinkPublishReach, UnlockReach DEF Step
<1>3. ASSUME NEW t \in Thread, NEW x \in Node, NEW y \in Node, BeginSplit(t, x, y) PROVE GInv'
  BY <1>1, <1>3, BeginSplitReach
<1>4. ASSUME NEW t \in Thread, NEW x \in Node, BeginUnlink(t, x) PROVE GInv'
  BY <1>1, <1>4, WriteFreeReach
<1>5. CASE UNCHANGED vars
  BY <1>1, <1>5, QuietStep DEF vars
<1>6. QED
  BY <1>2, <1>3, <1>4, <1>5 DEF Next

\* The inductive invariant of the leaf list.  With IInv it says what the
\* pointers of leaves outside the list still lead to.
THEOREM ReachInvariant == Spec => []GInv
  BY InitGInv, NextGInv, PTL DEF Spec

-----------------------------------------------------------------------------
\* A leaf can be freed once the operations that were under way at its unlink
\* have ended: no next pointer from the first leaf and no prev pointer from a
\* leaf of the list leads to it.
LEMMA GraceFromGInv == GInv => GraceSuffices
<1> SUFFICES ASSUME GInv, NEW x \in Node, life[x] = "unlinked", grace[x] = {}
             PROVE  x \notin Reach(next, First) /\ \A y \in Linked : x \notin Reach(prev, y)
  BY DEF GraceSuffices
<1>1. PICK S \in SUBSET Node : S = {z \in Node : life[z] = "unlinked" => grace[z] # {}}
  OBVIOUS
<1>2. x \notin S /\ First \in S /\ Linked \subseteq S
  BY <1>1, NodeAssumption DEF GInv, IInv, LeafState, Linked
<1>3. \A z \in S : next[z] \in S \cup {Null} /\ prev[z] \in S \cup {Null}
  BY <1>1 DEF GInv, IInv, TypeOK, Ptr, IntoUnlinked
<1>4. QED
  BY <1>2, <1>3 DEF Reach

THEOREM GraceIsEnough == Spec => []GraceSuffices
  BY ReachInvariant, GraceFromGInv, PTL

\* Every published leaf of the list is reached from the first one.
LEMMA ReachedByNext ==
  ASSUME GInv, NEW x \in Linked \ {nr[t] : t \in {u \in Thread : pc[u] = "s_pub"}}
  PROVE  x \in Reach(next, First)
<1> SUFFICES ASSUME NEW S \in SUBSET Node, First \in S, \A z \in S : next[z] \in S \cup {Null}
             PROVE  x \in S
  BY DEF Reach, Linked
<1> USE DEF GInv
<1>1. PICK D \in SUBSET Node :
        D = S \cup {z \in Node : \E t \in Thread : pc[t] = "s_pub" /\ n[t] \in S /\ nr[t] = z}
  OBVIOUS
<1>2. ASSUME NEW z \in D \cap Linked PROVE succ[z] \in D \cup {Null}
  <2>1. succ[z] \in Node \cup {Null}
    BY DEF IInv, TypeOK, Ptr, Linked
  <2>2. CASE z \in S
    BY <1>1, <2>1, <2>2 DEF IInv, ListIsLinked, NextFollowsOrder
  <2>3. ASSUME NEW t \in Thread, pc[t] = "s_pub", n[t] \in S, nr[t] = z
        PROVE  succ[z] \in D \cup {Null}
    <3>1. next[n[t]] = nxt[t]
      BY <2>3 DEF IInv, ThreadState, HoldsNext
    <3>2. CASE nxt[t] = Null
      BY <2>3, <3>2 DEF NullIsLast
    <3>3. CASE nxt[t] # Null
      <4>1. nxt[t] \in S /\ UnlinkedPass(S)
        BY <2>3, <3>1, <3>3 DEF UnlinkedPass
      <4>2. succ[nr[t]] # Null => LeadsTo(nxt[t], succ[nr[t]])
        BY <2>3, <3>3 DEF StaleIsBridged
      <4>3. QED
        BY <1>1, <2>3, <4>1, <4>2 DEF LeadsTo
    <3>4. QED
      BY <3>2, <3>3
  <2>4. QED
    BY <1>1, <2>2, <2>3
<1>3. Linked \subseteq D
  BY <1>1, <1>2 DEF OrderCovers
<1>4. QED
  BY <1>1, <1>3

\* Behind a leaf, in list order, come only leaves from which the prev pointers
\* lead back to it.
LEMMA PrevLeadsBack ==
  ASSUME IInv, NEW T \in SUBSET Node, \A z \in T : prev[z] \in T \cup {Null},
         NEW B, B = {z \in Node : \E t \in Thread : pc[t] = "u_pub" /\ n[t] = z /\ prv[t] \in T}
  PROVE  \A z \in Linked \ (T \cup B) : succ[z] # Null => succ[z] \in Linked \ (T \cup B)
<1> SUFFICES ASSUME NEW z \in Linked \ (T \cup B), succ[z] # Null
             PROVE  succ[z] \in Linked \ (T \cup B)
  OBVIOUS
<1> USE NodeAssumption DEF IInv, ListIsLinked
<1>1. succ[z] \in Linked /\ z \in Node
  BY DEF OrderIsAList, Linked
<1>2. succ[z] \notin T
  <2>1. SUFFICES ASSUME succ[z] \in T PROVE FALSE
    OBVIOUS
  <2>2. prev[succ[z]] \in T \cup {Null}
    BY <2>1
  <2>3. CASE prev[succ[z]] = z
    BY <1>1, <2>2, <2>3
  <2>4. ASSUME NEW t \in Thread, pc[t] = "u_pub", n[t] = z, prev[succ[z]] = prv[t]
        PROVE  FALSE
    <3>1. prv[t] \in Node
      BY <2>4 DEF ThreadState, HoldsPrev
    <3>2. QED
      BY <1>1, <2>2, <2>4, <3>1
  <2>5. QED
    BY <2>3, <2>4 DEF PrevFollowsOrder
<1>3. succ[z] \notin B
  <2>1. SUFFICES ASSUME NEW t \in Thread, pc[t] = "u_pub", n[t] = succ[z], prv[t] \in T
                 PROVE  FALSE
    OBVIOUS
  <2>2. prv[t] \in Linked /\ succ[prv[t]] = succ[z]
    BY <2>1 DEF ThreadState, HoldsPrev, Linked
  <2>3. QED
    BY <2>1, <2>2 DEF OrderIsAList
<1>4. QED
  BY <1>1, <1>2, <1>3

\* A leaf nobody removes is reached by prev pointers from what it reaches by
\* next pointers.
LEMMA ReachedByPrev ==
  ASSUME GInv, NEW x \in Linked \ {n[t] : t \in {u \in Thread : Unlinking(u)}},
         NEW y \in Linked, y \in Reach(next, x)
  PROVE  x \in Reach(prev, y)
<1> SUFFICES ASSUME NEW T \in SUBSET Node, y \in T, \A z \in T : prev[z] \in T \cup {Null},
                    x \notin T
             PROVE  FALSE
  BY DEF Reach, Linked
<1> USE DEF GInv
<1>1. PICK B : B = {z \in Node : \E t \in Thread : pc[t] = "u_pub" /\ n[t] = z /\ prv[t] \in T}
  OBVIOUS
<1>2. \A z \in Linked \ (T \cup B) : succ[z] # Null => succ[z] \in Linked \ (T \cup B)
  BY <1>1, PrevLeadsBack
<1> DEFINE Bridge(C) == /\ UnlinkedPass(C)
                        /\ \A w \in C : /\ life[w] # "fresh"
                                        /\ life[w] = "linked" => w \notin T \cup B
<1>3. PICK S \in SUBSET Node :
        S = (Linked \ (T \cup B)) \cup
              {z \in Node : life[z] = "unlinked" /\ \E C \in SUBSET Node : z \in C /\ Bridge(C)}
  BY DEF Linked
<1>4. ASSUME NEW C \in SUBSET Node, Bridge(C) PROVE C \subseteq S
  <2>1. \A z \in C : life[z] \in {"linked", "unlinked"}
    BY <1>4 DEF IInv, TypeOK
  <2>2. QED
    BY <1>3, <1>4, <2>1 DEF Linked
<1>5. ASSUME NEW z \in S, next[z] # Null PROVE next[z] \in S
  <2>1. CASE z \in Linked \ (T \cup B)
    <3>1. CASE next[z] = succ[z]
      BY <1>2, <1>3, <1>5, <2>1, <3>1
    <3>2. ASSUME NEW t \in Thread, pc[t] = "s_pub", n[t] = z, nr[t] = succ[z]
          PROVE  next[z] \in S
      <4>1. nr[t] \in Linked \ (T \cup B)
        BY <1>2, <2>1, <3>2, NodeAssumption DEF IInv, ThreadState, Splitting
      <4>2. succ[nr[t]] # Null => succ[nr[t]] \notin T \cup B
        BY <1>2, <4>1
      <4>3. next[z] = nxt[t]
        BY <3>2 DEF IInv, ThreadState, HoldsNext
      <4>4. LeadsOnlyTo(nxt[t], succ[nr[t]])
        BY <1>5, <3>2, <4>3 DEF StaleIsBridged
      <4>5. PICK C \in SUBSET Node :
              /\ nxt[t] \in C /\ UnlinkedPass(C)
              /\ \A w \in C : life[w] # "fresh" /\ (life[w] = "linked" => w = succ[nr[t]])
        BY <4>4 DEF LeadsOnlyTo
      <4>6. Bridge(C)
        BY <4>2, <4>5, NodeAssumption
      <4>7. QED
        BY <1>4, <4>3, <4>5, <4>6
    <3>3. QED
      BY <2>1, <3>1, <3>2 DEF IInv, ListIsLinked, NextFollowsOrder
  <2>2. ASSUME NEW C \in SUBSET Node, z \in C, life[z] = "unlinked", Bridge(C)
        PROVE  next[z] \in S
    BY <1>4, <1>5, <2>2 DEF UnlinkedPass
  <2>3. QED
    BY <1>3, <2>1, <2>2
<1>6. x \in S
  BY <1>1, <1>3 DEF Unlinking
<1>7. y \in S
  BY <1>5, <1>6 DEF Reach
<1>8. QED
  BY <1>3, <1>7 DEF Linked

\* doc/spec.tex, Invariants: in every state, whatever splits and removals are
\* under way, the next pointers reach every published leaf from the first one,
\* and the prev pointers lead back from it to every leaf not being removed.
THEOREM ActiveLeavesAreReached == Spec => []ActiveIsReachable
<1>1. GInv => ActiveIsReachable
  BY ReachedByNext, ReachedByPrev DEF ActiveIsReachable
<1>2. QED
  BY <1>1, ReachInvariant, PTL
=============================================================================
