------------------------------ MODULE LeafLink ------------------------------
EXTENDS Naturals, FiniteSets

(***************************************************************************)
(* The doubly linked list of the leaves of one trie layer                  *)
(* (btree_leaflink.hh), the CONCURRENT version.  A leaf's next pointer     *)
(* carries a mark in its low bit: the mark is a lock on that pointer.      *)
(* link_split puts a new right sibling after a locked leaf, unlink takes a *)
(* locked leaf out; both run while neighbours split and are unlinked, and  *)
(* while lock-free scans walk the pointers.                                *)
(*                                                                         *)
(* One action is one access to shared memory.  A write to a leaf that no   *)
(* other thread can reach yet (nr before it is published) is done together *)
(* with the shared access that follows it.                                 *)
(*                                                                         *)
(* life, succ and grace are history variables.  A leaf enters the list     *)
(* when its successor's prev_ points to it (from then on an unlink of the  *)
(* successor goes through it) and leaves it when its predecessor's next_   *)
(* is overwritten; succ is the list order these two events define.         *)
(***************************************************************************)

CONSTANTS
  Node,       \* the leaves, allocated or not
  First,      \* the leftmost leaf, which is never unlinked
  Null,       \* the null pointer
  Thread,     \* threads that split and remove leaves
  NoThread    \* "unlocked"

ASSUME NodeAssumption == First \in Node /\ Null \notin Node
ASSUME ThreadAssumption == NoThread \notin Thread

VARIABLES
  next,       \* leaf::next_, without its mark
  marked,     \* the leaves whose next_ carries the mark
  prev,       \* leaf::prev_
  lock,       \* holder of the leaf's version lock
  life,       \* "fresh" (not in the list yet), "linked", "unlinked"
  succ,       \* the successor of each linked leaf in list order
  grace,      \* for an unlinked leaf, the threads that have been inside an
              \* operation ever since it was unlinked
  pc, n, nr, nxt, prv   \* each thread's position and locals

vars == <<next, marked, prev, lock, life, succ, grace, pc, n, nr, nxt, prv>>
links == <<next, marked, prev>>
history == <<life, succ, grace>>

Ptr == Node \cup {Null}

PCs == {"idle", "s_lock", "s_back", "s_pub",
        "u_lock", "u_read", "u_cas", "u_back", "u_pub", "unlock"}

TypeOK ==
  /\ next \in [Node -> Ptr]
  /\ marked \in SUBSET Node
  /\ prev \in [Node -> Ptr]
  /\ lock \in [Node -> Thread \cup {NoThread}]
  /\ life \in [Node -> {"fresh", "linked", "unlinked"}]
  /\ succ \in [Node -> Ptr]
  /\ grace \in [Node -> SUBSET Thread]
  /\ pc \in [Thread -> PCs]
  /\ n \in [Thread -> Ptr]
  /\ nr \in [Thread -> Ptr]
  /\ nxt \in [Thread -> Ptr]
  /\ prv \in [Thread -> Ptr]

\* leaf::make_root: one leaf, no siblings.
Init ==
  /\ next = [x \in Node |-> Null]
  /\ marked = {}
  /\ prev = [x \in Node |-> Null]
  /\ lock = [x \in Node |-> NoThread]
  /\ life = [x \in Node |-> IF x = First THEN "linked" ELSE "fresh"]
  /\ succ = [x \in Node |-> Null]
  /\ grace = [x \in Node |-> {}]
  /\ pc = [t \in Thread |-> "idle"]
  /\ n = [t \in Thread |-> Null]
  /\ nr = [t \in Thread |-> Null]
  /\ nxt = [t \in Thread |-> Null]
  /\ prv = [t \in Thread |-> Null]

-----------------------------------------------------------------------------
\* A thread holding leaf x splits it: leaf::make gives y, born locked
\* (assign_version of a locked leaf); nr->prev_ = n.
BeginSplit(t, x, y) ==
  /\ pc[t] = "idle"
  /\ life[x] = "linked" /\ lock[x] = NoThread
  /\ life[y] = "fresh" /\ lock[y] = NoThread
  /\ lock' = [lock EXCEPT ![x] = t, ![y] = t]
  /\ prev' = [prev EXCEPT ![y] = x]
  /\ n' = [n EXCEPT ![t] = x]
  /\ nr' = [nr EXCEPT ![t] = y]
  /\ pc' = [pc EXCEPT ![t] = "s_lock"]
  /\ UNCHANGED <<next, marked, history, nxt, prv>>

\* Variant: next_ is read and not marked.
LockNext_NoMark(t) ==
  /\ pc[t] \in {"s_lock", "u_lock"}
  /\ next[n[t]] = Null \/ n[t] \notin marked
  /\ nxt' = [nxt EXCEPT ![t] = next[n[t]]]
  /\ pc' = [pc EXCEPT ![t] = IF pc[t] = "s_lock" THEN "s_back" ELSE "u_read"]
  /\ UNCHANGED <<links, lock, history, n, nr, prv>>

\* lock_next: returns null unmarked, or marks the pointer by compare-and-swap.
\* A thread that sees a mark spins: the action is not enabled.
LockNext(t) ==
  /\ pc[t] \in {"s_lock", "u_lock"}
  /\ next[n[t]] = Null \/ n[t] \notin marked
  /\ nxt' = [nxt EXCEPT ![t] = next[n[t]]]
  /\ marked' = IF next[n[t]] = Null THEN marked ELSE marked \cup {n[t]}
  /\ pc' = [pc EXCEPT ![t] = IF pc[t] = "s_lock" THEN "s_back" ELSE "u_read"]
  /\ UNCHANGED <<next, prev, lock, history, n, nr, prv>>

\* Variant: the successor's prev_ is forgotten.
LinkBack_NoPrev(t) ==
  /\ pc[t] = "s_back"
  /\ next' = [next EXCEPT ![nr[t]] = nxt[t]]
  /\ life' = [life EXCEPT ![nr[t]] = "linked"]
  /\ succ' = [succ EXCEPT ![n[t]] = nr[t], ![nr[t]] = nxt[t]]
  /\ pc' = [pc EXCEPT ![t] = "s_pub"]
  /\ UNCHANGED <<marked, prev, lock, grace, n, nr, nxt, prv>>

\* link_split: nr->next_ = next; if (next) next->prev_ = nr.
LinkBack(t) ==
  /\ pc[t] = "s_back"
  /\ next' = [next EXCEPT ![nr[t]] = nxt[t]]
  /\ prev' = IF nxt[t] = Null THEN prev ELSE [prev EXCEPT ![nxt[t]] = nr[t]]
  /\ life' = [life EXCEPT ![nr[t]] = "linked"]
  /\ succ' = [succ EXCEPT ![n[t]] = nr[t], ![nr[t]] = nxt[t]]
  /\ pc' = [pc EXCEPT ![t] = "s_pub"]
  /\ UNCHANGED <<marked, lock, grace, n, nr, nxt, prv>>

\* Variant: the mark stays.
LinkPublish_KeepsMark(t) ==
  /\ pc[t] = "s_pub"
  /\ next' = [next EXCEPT ![n[t]] = nr[t]]
  /\ pc' = [pc EXCEPT ![t] = "unlock"]
  /\ UNCHANGED <<marked, prev, lock, history, n, nr, nxt, prv>>

\* link_split: n->next_ = nr, which also clears the mark.
LinkPublish(t) ==
  /\ pc[t] = "s_pub"
  /\ next' = [next EXCEPT ![n[t]] = nr[t]]
  /\ marked' = marked \ {n[t]}
  /\ pc' = [pc EXCEPT ![t] = "unlock"]
  /\ UNCHANGED <<prev, lock, history, n, nr, nxt, prv>>

-----------------------------------------------------------------------------
\* remove_leaf on the locked leaf x: a leaf without prev_ stays.
BeginUnlink(t, x) ==
  /\ pc[t] = "idle"
  /\ life[x] = "linked" /\ lock[x] = NoThread
  /\ prev[x] # Null
  /\ lock' = [lock EXCEPT ![x] = t]
  /\ n' = [n EXCEPT ![t] = x]
  /\ nr' = [nr EXCEPT ![t] = Null]
  /\ pc' = [pc EXCEPT ![t] = "u_lock"]
  /\ UNCHANGED <<links, history, nxt, prv>>

\* unlink: prev = n->prev_.
ReadPrev(t) ==
  /\ pc[t] = "u_read"
  /\ prv' = [prv EXCEPT ![t] = prev[n[t]]]
  /\ pc' = [pc EXCEPT ![t] = "u_cas"]
  /\ UNCHANGED <<links, lock, history, n, nr, nxt>>

\* Variant: the mark is not looked at.
CasPrev_IgnoresMark(t) ==
  /\ pc[t] = "u_cas"
  /\ \/ /\ next[prv[t]] = n[t]
        /\ marked' = marked \cup {prv[t]}
        /\ pc' = [pc EXCEPT ![t] = "u_back"]
     \/ /\ next[prv[t]] # n[t]
        /\ pc' = [pc EXCEPT ![t] = "u_read"]
        /\ UNCHANGED marked
  /\ UNCHANGED <<next, prev, lock, history, n, nr, nxt, prv>>

\* unlink: bool_cmpxchg(&prev->next_, n, mark(n)); on failure read prev_ again.
CasPrev(t) ==
  /\ pc[t] = "u_cas"
  /\ \/ /\ next[prv[t]] = n[t] /\ prv[t] \notin marked
        /\ marked' = marked \cup {prv[t]}
        /\ pc' = [pc EXCEPT ![t] = "u_back"]
     \/ /\ next[prv[t]] # n[t] \/ prv[t] \in marked
        /\ pc' = [pc EXCEPT ![t] = "u_read"]
        /\ UNCHANGED marked
  /\ UNCHANGED <<next, prev, lock, history, n, nr, nxt, prv>>

\* Variant: the successor's prev_ is forgotten.
UnlinkBack_NoPrev(t) ==
  /\ pc[t] = "u_back"
  /\ pc' = [pc EXCEPT ![t] = "u_pub"]
  /\ UNCHANGED <<links, lock, history, n, nr, nxt, prv>>

\* unlink: if (next) next->prev_ = prev.
UnlinkBack(t) ==
  /\ pc[t] = "u_back"
  /\ prev' = IF nxt[t] = Null THEN prev ELSE [prev EXCEPT ![nxt[t]] = prv[t]]
  /\ pc' = [pc EXCEPT ![t] = "u_pub"]
  /\ UNCHANGED <<next, marked, lock, history, n, nr, nxt, prv>>

\* Variant: n's own mark is cleared too.
UnlinkPublish_Unmarks(t) ==
  /\ pc[t] = "u_pub"
  /\ next' = [next EXCEPT ![prv[t]] = nxt[t]]
  /\ marked' = marked \ {prv[t], n[t]}
  /\ life' = [life EXCEPT ![n[t]] = "unlinked"]
  /\ succ' = [succ EXCEPT ![prv[t]] = nxt[t]]
  /\ grace' = [grace EXCEPT ![n[t]] = {u \in Thread : pc[u] # "idle"}]
  /\ pc' = [pc EXCEPT ![t] = "unlock"]
  /\ UNCHANGED <<prev, lock, n, nr, nxt, prv>>

\* unlink: prev->next_ = next, which also clears prev's mark.
UnlinkPublish(t) ==
  /\ pc[t] = "u_pub"
  /\ next' = [next EXCEPT ![prv[t]] = nxt[t]]
  /\ marked' = marked \ {prv[t]}
  /\ life' = [life EXCEPT ![n[t]] = "unlinked"]
  /\ succ' = [succ EXCEPT ![prv[t]] = nxt[t]]
  /\ grace' = [grace EXCEPT ![n[t]] = {u \in Thread : pc[u] # "idle"}]
  /\ pc' = [pc EXCEPT ![t] = "unlock"]
  /\ UNCHANGED <<prev, lock, n, nr, nxt, prv>>

\* The caller unlocks the leaf, and after a split its new sibling too.
Unlock(t) ==
  /\ pc[t] = "unlock"
  /\ lock' = [x \in Node |-> IF x \in {n[t], nr[t]} THEN NoThread ELSE lock[x]]
  /\ grace' = [x \in Node |-> grace[x] \ {t}]
  /\ pc' = [pc EXCEPT ![t] = "idle"]
  /\ UNCHANGED <<links, life, succ, n, nr, nxt, prv>>

-----------------------------------------------------------------------------
Step(t) ==
  \/ LockNext(t) \/ LinkBack(t) \/ LinkPublish(t)
  \/ ReadPrev(t) \/ CasPrev(t) \/ UnlinkBack(t) \/ UnlinkPublish(t)
  \/ Unlock(t)

Next ==
  \E t \in Thread :
     \/ Step(t)
     \/ \E x, y \in Node : BeginSplit(t, x, y)
     \/ \E x \in Node : BeginUnlink(t, x)

Spec == Init /\ [][Next]_vars

\* A thread inside link_split or unlink is running code: it keeps taking steps.
\* Whether a thread starts another operation is up to its client.
FairSpec == Spec /\ \A t \in Thread : WF_vars(Step(t))

-----------------------------------------------------------------------------
\* Which leaves a thread is working on, and which next pointers it has marked.
Linked == {x \in Node : life[x] = "linked"}

Splitting(t) == pc[t] \in {"s_lock", "s_back", "s_pub"}
Unlinking(t) == pc[t] \in {"u_lock", "u_read", "u_cas", "u_back", "u_pub"}

\* t has gone through lock_next(n) and not yet given n's next pointer back.
HoldsNext(t) == pc[t] \in {"s_back", "s_pub", "u_read", "u_cas", "u_back", "u_pub"}
\* t has marked its predecessor's pointer to n.
HoldsPrev(t) == pc[t] \in {"u_back", "u_pub"}

Owns(t, x) == \/ HoldsNext(t) /\ n[t] = x /\ nxt[t] # Null
              \/ HoldsPrev(t) /\ prv[t] = x

\* The nodes that a chain of the pointers f leads to from x, x included: those
\* in every set that contains x and that no pointer leads out of.
Reach(f, x) ==
  {y \in Node : \A S \in SUBSET Node :
     x \in S /\ (\A z \in S : f[z] \in S \cup {Null}) => y \in S}

-----------------------------------------------------------------------------
\* A mark on a linked leaf's next pointer has exactly one owner, and the
\* pointer of an owner stays marked (lock_next and the compare-and-swap of
\* unlink): no two operations rewrite one pointer, and no mark is leaked.
MarksAreOwned ==
  /\ \A t, u \in Thread, x \in Node : Owns(t, x) /\ Owns(u, x) => t = u
  /\ \A t \in Thread, x \in Node : Owns(t, x) => x \in marked
  /\ \A x \in Linked : x \in marked => \E t \in Thread : Owns(t, x)

\* The next pointer of a linked leaf is its successor in list order, unless a
\* split of that leaf has written the successor's prev_ and not yet its own
\* next_; that pointer may then lead to a leaf already unlinked.
NextFollowsOrder ==
  \A x \in Linked :
    \/ next[x] = succ[x]
    \/ \E t \in Thread : pc[t] = "s_pub" /\ n[t] = x /\ nr[t] = succ[x]

\* The prev pointer of a linked leaf is its predecessor in list order, unless
\* that predecessor is being unlinked and has already been bypassed.
PrevFollowsOrder ==
  \A x \in Linked :
    succ[x] # Null =>
      \/ prev[succ[x]] = x
      \/ \E t \in Thread : /\ pc[t] = "u_pub" /\ n[t] = x
                            /\ prev[succ[x]] = prv[t]

\* Successors are linked leaves, each with one predecessor, never the first
\* leaf: whatever neighbours do, the list neither forks nor dangles.
OrderIsAList ==
  /\ \A x \in Linked : succ[x] # Null => succ[x] \in Linked \ {First}
  /\ \A x, y \in Linked : succ[x] = succ[y] /\ succ[x] # Null => x = y

\* Splits and unlinks of neighbours, in whatever order their stores to next_ and
\* prev_ happen, keep one doubly linked list.
ListIsLinked ==
  /\ OrderIsAList
  /\ NextFollowsOrder
  /\ PrevFollowsOrder

\* Leaf linkage (doc/spec.tex, Invariants): every active leaf is reached from
\* the leftmost one by next pointers, where a leaf whose split has not published
\* it is not active yet; and it is reached by prev pointers from every leaf to
\* its right, unless it is being removed (then it is dirty).
ActiveIsReachable ==
  /\ \A x \in Linked \ {nr[t] : t \in {u \in Thread : pc[u] = "s_pub"}} :
       x \in Reach(next, First)
  /\ \A x \in Linked \ {n[t] : t \in {u \in Thread : Unlinking(u)}} :
       \A y \in Linked : y \in Reach(next, x) => x \in Reach(prev, y)

\* Once every thread that was inside an operation when a leaf was unlinked has
\* finished that operation, no pointer chain of the list leads to the leaf:
\* a grace period counted from the unlink is enough to reuse its memory.
GraceSuffices ==
  \A x \in Node :
    life[x] = "unlinked" /\ grace[x] = {} =>
      /\ x \notin Reach(next, First)
      /\ \A y \in Linked : x \notin Reach(prev, y)

\* An unlinked leaf's next word is never written again: a late compare-and-swap
\* through a stale prev_ cannot succeed on it, and a scan standing on the leaf
\* still gets to the list.
UnlinkedIsFrozen ==
  [][\A x \in Node :
       life[x] = "unlinked" =>
         /\ life'[x] = "unlinked"
         /\ next'[x] = next[x]
         /\ x \in marked' <=> x \in marked]_vars

\* Every link_split and unlink that starts also ends, although both spin on
\* marks and unlink spins on its predecessor's changes: marks are waited for
\* from right to left and the first leaf is never unlinked.
OperationsEnd == \A t \in Thread : pc[t] # "idle" ~> pc[t] = "idle"

-----------------------------------------------------------------------------
\* The strengthening that makes the four structural invariants inductive.
\* What is true of the leaves and pointers a thread works on, by position.
ThreadState ==
  \A t \in Thread :
    /\ pc[t] # "idle" => n[t] \in Node /\ lock[n[t]] = t
    /\ Splitting(t) => /\ nr[t] \in Node /\ nr[t] # n[t] /\ lock[nr[t]] = t
                       /\ life[n[t]] = "linked"
    /\ pc[t] \in {"s_lock", "s_back"} =>
         life[nr[t]] = "fresh" /\ prev[nr[t]] = n[t]
    /\ pc[t] = "s_pub" => life[nr[t]] = "linked" /\ succ[n[t]] = nr[t]
    /\ Unlinking(t) => life[n[t]] = "linked" /\ n[t] # First /\ nr[t] = Null
    /\ pc[t] = "unlock" => nr[t] = Null \/ lock[nr[t]] = t
    /\ HoldsNext(t) => next[n[t]] = nxt[t]
    /\ HoldsNext(t) /\ pc[t] # "s_pub" => succ[n[t]] = nxt[t]
    /\ pc[t] = "u_cas" => prv[t] \in Node
    /\ HoldsPrev(t) => /\ prv[t] \in Node /\ prv[t] # n[t]
                       /\ life[prv[t]] = "linked"
                       /\ next[prv[t]] = n[t] /\ succ[prv[t]] = n[t]
    /\ pc[t] = "u_pub" /\ nxt[t] # Null => prev[nxt[t]] = prv[t]

\* What is true of a leaf because of its history.
LeafState ==
  /\ life[First] = "linked" /\ prev[First] = Null
  /\ \A x \in Node :
       /\ life[x] = "fresh" => next[x] = Null /\ x \notin marked
       /\ life[x] = "linked" /\ x # First => prev[x] \in Node
       /\ life[x] = "unlinked" /\ next[x] # Null => x \in marked

IInv ==
  /\ TypeOK
  /\ ThreadState
  /\ LeafState
  /\ MarksAreOwned
  /\ ListIsLinked

\* What ActiveIsReachable and GraceSuffices need besides: the list order leads
\* from the first leaf to every other one, ...
OrderCovers ==
  \A S \in SUBSET Node :
    First \in S /\ (\A x \in S \cap Linked : succ[x] \in S \cup {Null}) => Linked \subseteq S

\* ... a leaf that is not in the list is known to the thread that made it, ...
FreshIsPrivate ==
  \A x \in Node :
    life[x] = "fresh" /\ prev[x] # Null =>
      \E t \in Thread : pc[t] \in {"s_lock", "s_back"} /\ nr[t] = x

\* ... a grace period is waiting for threads that are still at work, ...
GraceIsInside == \A x \in Node, t \in Thread : t \in grace[x] => pc[t] # "idle"

\* ... what still points to an unlinked leaf is not in use longer than that
\* leaf: a leaf unlinked before, or a leaf whose split is not published, ...
IntoUnlinked ==
  \A x, y \in Node :
    life[y] = "unlinked" =>
      /\ next[x] = y =>
           \/ life[x] = "unlinked" /\ grace[x] \subseteq grace[y]
           \/ \E t \in Thread : pc[t] = "s_pub" /\ n[t] = x /\ t \in grace[y]
      /\ prev[x] = y => life[x] = "unlinked" /\ grace[x] \subseteq grace[y]

\* ... and if the old successor of a splitting leaf has been unlinked, it and
\* those unlinked after it lead to the successor of the new sibling.
UnlinkedPass(S) == \A x \in S : life[x] = "unlinked" => next[x] \in S \cup {Null}
LeadsTo(x, y) == \A S \in SUBSET Node : x \in S /\ UnlinkedPass(S) => y \in S
LeadsOnlyTo(x, y) ==
  \E C \in SUBSET Node :
    /\ x \in C /\ UnlinkedPass(C)
    /\ \A z \in C : life[z] # "fresh" /\ (life[z] = "linked" => z = y)
StaleIsBridged ==
  \A t \in Thread :
    pc[t] = "s_pub" /\ nxt[t] # Null =>
      /\ succ[nr[t]] # Null => LeadsTo(nxt[t], succ[nr[t]])
      /\ LeadsOnlyTo(nxt[t], succ[nr[t]])
NullIsLast == \A t \in Thread : pc[t] = "s_pub" /\ nxt[t] = Null => succ[nr[t]] = Null

GInv ==
  /\ IInv
  /\ OrderCovers
  /\ FreshIsPrivate
  /\ GraceIsInside
  /\ IntoUnlinked
  /\ StaleIsBridged
  /\ NullIsLast
=============================================================================
