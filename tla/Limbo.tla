------------------------------- MODULE Limbo --------------------------------
EXTENDS Integers, FiniteSets, SequencesExt

(***************************************************************************)
(* One thread's limbo list as it is (kvthread.hh, kvthread.cc): a chain of *)
(* fixed-size arrays that are filled at limbo_tail_ and emptied at         *)
(* limbo_head_; an entry is a retired pointer or, when its pointer is      *)
(* null, the epoch of the entries after it.  A freed entry may be a        *)
(* callback, which retires more while the list is being cleaned.  Rcu has  *)
(* a sequence instead; q is that sequence here.                            *)
(*                                                                         *)
(* Epochs are words of M values, compared by the sign of their difference. *)
(* Only this thread touches the list, so one action is one turn of a loop. *)
(***************************************************************************)

CONSTANTS
  Group,       \* limbo_groups, allocated or not
  First,       \* the group the constructor allocates
  Cap,         \* limbo_group::capacity
  Obj,         \* what can be retired
  Callback,    \* the objects that are mrcu_callbacks
  FreeCount,   \* rcu_free_count
  M,           \* number of epochs (2^64 in the code)
  MaxLag,      \* bound: ticks that active_epoch may lag behind
  Window,      \* bound: ticks between a retirement or a cleanup and the next cleanup
  Null

\* To be assumed of the constants where this module is instantiated.
Constants ==
  /\ First \in Group /\ Null \notin Group /\ Cap \in Nat /\ Cap >= 2
  /\ Callback \subseteq Obj /\ Null \notin Obj
  /\ M % 2 = 0 /\ MaxLag \in Nat /\ Window > MaxLag /\ 4 * Window < M

VARIABLES
  globalepoch, active_epoch, perform_gc_epoch,
  ticks,                    \* history: ticks so far, up to MaxLag
  g,                        \* the groups
  limbo_head, limbo_tail,
  pc, bound, count, epoch, empty_head, empty_tail,   \* locals of the cleanup
  allocated,                \* groups that exist
  q                         \* history: what is in limbo, oldest first

epochs == <<globalepoch, active_epoch, ticks>>
locals == <<bound, count, epoch, empty_head, empty_tail>>
vars == <<epochs, perform_gc_epoch, g, limbo_head, limbo_tail, pc, locals, allocated, q>>

Epoch == 0 .. M - 1
Entry == [ptr : Obj \cup {Null}, epoch : Epoch]
Tag(o) == [ptr |-> o, epoch |-> 0]      \* the union holds o's memtag

Word(a) == a % M
Signed(a) == IF Word(a) >= M \div 2 THEN Word(a) - M ELSE Word(a)

\* limbo_group().  (epoch_ and e_ are uninitialized; 0 and null stand for that.)
EmptyGroup == [head |-> 0, tail |-> 0, epoch |-> 0, next |-> Null,
               e |-> [i \in 0 .. Cap - 1 |-> Tag(Null)]]

Init ==
  /\ globalepoch = 1 /\ active_epoch = 1 /\ perform_gc_epoch = 0 /\ ticks = 0
  /\ g = [x \in Group |-> EmptyGroup]
  /\ limbo_head = First /\ limbo_tail = First
  /\ allocated = {First}
  /\ pc = "idle" /\ bound = 0 /\ count = 0 /\ epoch = 0
  /\ empty_head = Null /\ empty_tail = Null
  /\ q = <<>>

-----------------------------------------------------------------------------
\* push_back: an epoch entry goes first unless the group's last one will do.
PushBack(x, o, ep) ==
  LET new == x.head = x.tail \/ x.epoch # ep
      i == IF new THEN x.tail + 1 ELSE x.tail
  IN  [x EXCEPT !.e = [j \in 0 .. Cap - 1 |->
                         IF j = i THEN Tag(o)
                         ELSE IF new /\ j = x.tail THEN [ptr |-> Null, epoch |-> ep]
                         ELSE @[j]],
                !.epoch = ep,
                !.tail = i + 1]

\* record_rcu's test whether the group has room for an epoch and a pointer.
Full(x) == x.tail + 2 > Cap

\* allocate(sizeof(limbo_group)): any address that is not in use will do.
NewGroup == CHOOSE z \in Group : z \notin allocated

\* record_rcu, and refill_rcu if the last group is full.
Record(o) ==
  LET y == IF Full(g[limbo_tail]) THEN g[limbo_tail].next ELSE limbo_tail
  IN  /\ pc \in {"idle", "callback"}
      /\ \A i \in DOMAIN q : q[i].ptr # o
      /\ \/ /\ y # Null
            /\ limbo_tail' = y
            /\ g' = [g EXCEPT ![y] = PushBack(@, o, globalepoch)]
            /\ UNCHANGED allocated
         \/ /\ y = Null /\ allocated # Group
            /\ LET z == NewGroup IN
                 /\ allocated' = allocated \cup {z}
                 /\ limbo_tail' = z
                 /\ g' = [g EXCEPT ![limbo_tail].next = z,
                                   ![z] = PushBack(EmptyGroup, o, globalepoch)]
      /\ q' = Append(q, [ptr |-> o, epoch |-> globalepoch])
      /\ UNCHANGED <<epochs, perform_gc_epoch, limbo_head, pc, locals>>

-----------------------------------------------------------------------------
\* hard_rcu_quiesce, if active_epoch is news: is the oldest entry old enough?
Quiesce ==
  LET b == Word(active_epoch - 1)
      x == g[limbo_head]
      none == x.head = x.tail \/ Signed(b - x.e[x.head].epoch) < 0
  IN  /\ pc = "idle"
      /\ perform_gc_epoch # active_epoch
      /\ bound' = b
      /\ count' = FreeCount
      /\ pc' = IF none THEN "done" ELSE "clean"
      /\ UNCHANGED <<epochs, perform_gc_epoch, g, limbo_head, limbo_tail, epoch,
                     empty_head, empty_tail, allocated, q>>

\* What follows when an entry has been dealt with: ++head_.  (The array keeps
\* the entry; nothing reads it any more, and forgetting it here saves states.)
Skip(gs) ==
  LET x == gs[limbo_head]
  IN  [gs EXCEPT ![limbo_head] = [x EXCEPT !.head = @ + 1, !.e = [@ EXCEPT ![x.head] = Tag(Null)]]]

\* clean_until's comparison.
TooYoung(ep) == Signed(bound - ep) < 0

\* clean_until, an epoch entry: go on unless it is too young.
CleanEpoch ==
  LET x == g[limbo_head] IN
  /\ pc = "clean"
  /\ x.head # x.tail /\ x.e[x.head].ptr = Null
  /\ epoch' = x.e[x.head].epoch
  /\ \/ /\ TooYoung(epoch')
        /\ pc' = "group"
        /\ UNCHANGED g
     \/ /\ ~ TooYoung(epoch')
        /\ g' = Skip(g)
        /\ UNCHANGED pc
  /\ UNCHANGED <<epochs, perform_gc_epoch, limbo_head, limbo_tail, bound, count,
                 empty_head, empty_tail, allocated, q>>

\* Variant: the entries after it are given the bound for an epoch.
Count_BoundEpoch ==
  LET x == g[limbo_head] IN
  /\ count' = count - 1
  /\ \/ /\ count = 1
        /\ g' = [g EXCEPT ![limbo_head].e = [x.e EXCEPT ![x.head] = [ptr |-> Null, epoch |-> bound]]]
        /\ pc' = "group"
     \/ /\ count > 1
        /\ g' = Skip(g)
        /\ pc' = "clean"

\* After free_rcu: if the budget is used up, the entry becomes an epoch entry.
Count ==
  LET x == g[limbo_head] IN
  /\ count' = count - 1
  /\ \/ /\ count = 1
        /\ g' = [g EXCEPT ![limbo_head].e = [x.e EXCEPT ![x.head] = [ptr |-> Null, epoch |-> epoch]]]
        /\ pc' = "group"
     \/ /\ count > 1
        /\ g' = Skip(g)
        /\ pc' = "clean"

\* clean_until, a retired pointer: free_rcu gives the memory back, ...
CleanPtr ==
  LET x == g[limbo_head]
      o == x.e[x.head].ptr
  IN  /\ pc = "clean"
      /\ x.head # x.tail /\ o # Null
      /\ q' = SelectSeq(q, LAMBDA r : r.ptr # o)
      /\ IF o \in Callback THEN pc' = "callback" /\ UNCHANGED <<g, count>> ELSE Count
      /\ UNCHANGED <<epochs, perform_gc_epoch, limbo_head, limbo_tail, bound,
                     epoch, empty_head, empty_tail, allocated>>

\* ... or runs the callback, which retires (Record) as it likes, itself included.
CallbackEnd ==
  /\ pc = "callback"
  /\ Count
  /\ UNCHANGED <<epochs, perform_gc_epoch, limbo_head, limbo_tail, bound, epoch,
                 empty_head, empty_tail, allocated, q>>

\* clean_until has reached the end of the group.
CleanEnd ==
  LET x == g[limbo_head] IN
  /\ pc = "clean"
  /\ x.head = x.tail
  /\ g' = [g EXCEPT ![limbo_head].head = 0, ![limbo_head].tail = 0]
  /\ pc' = "group"
  /\ UNCHANGED <<epochs, perform_gc_epoch, limbo_head, limbo_tail, locals, allocated, q>>

\* hard_rcu_quiesce after clean_until: the groups emptied so far are a chain,
\* empty_head to empty_tail; they are put behind limbo_tail_ in the end, or
\* become the list if all are empty.
NextGroup ==
  LET x == g[limbo_head]
      eh == IF empty_head = Null THEN limbo_head ELSE empty_head
  IN  /\ pc = "group"
      /\ epoch' = 0
      /\ \/ /\ x.head # x.tail
            /\ g' = IF empty_head = Null THEN g
                    ELSE [g EXCEPT ![empty_tail].next = g[limbo_tail].next,
                                   ![limbo_tail].next = empty_head]
            /\ pc' = "done"
            /\ empty_head' = Null /\ empty_tail' = Null
            /\ UNCHANGED <<limbo_head, limbo_tail>>
         \/ /\ x.head = x.tail /\ limbo_head = limbo_tail
            /\ limbo_head' = eh /\ limbo_tail' = eh
            /\ pc' = "done"
            /\ empty_head' = Null /\ empty_tail' = Null
            /\ UNCHANGED g
         \/ /\ x.head = x.tail /\ limbo_head # limbo_tail
            /\ empty_head' = eh /\ empty_tail' = limbo_head
            /\ limbo_head' = x.next
            /\ pc' = "clean"
            /\ UNCHANGED <<g, limbo_tail>>
      /\ UNCHANGED <<epochs, perform_gc_epoch, bound, count, allocated, q>>

\* hard_rcu_quiesce: done.
Done ==
  /\ pc = "done"
  /\ perform_gc_epoch' = IF count = 0 THEN bound ELSE Word(bound + 1)
  /\ pc' = "idle" /\ bound' = 0 /\ count' = 0
  /\ UNCHANGED <<epochs, g, limbo_head, limbo_tail, epoch, empty_head, empty_tail, allocated, q>>

-----------------------------------------------------------------------------
\* epochinc.  The minimum that it stores may be smaller than the one before
\* (Rcu: the epoch that rcu_start stores may be stale).  The 2^64 epochs do not
\* come round while something waits in limbo or between two cleanups.
Tick ==
  LET ge == Word(globalepoch + 2)
      Near(ep) == Word(ge - ep) <= 2 * Window
  IN  /\ \A x \in Group : \A i \in g[x].head .. g[x].tail - 1 :
           g[x].e[i].ptr = Null => Near(g[x].e[i].epoch)
      /\ pc # "idle" => Near(epoch)
      /\ Near(perform_gc_epoch) /\ (pc # "idle" => Near(bound))
      /\ globalepoch' = ge
      /\ ticks' = IF ticks < MaxLag THEN ticks + 1 ELSE ticks
      /\ active_epoch' \in {Word(ge - 2 * k) : k \in 0 .. ticks'}
      /\ UNCHANGED <<perform_gc_epoch, g, limbo_head, limbo_tail, pc, locals, allocated, q>>

Clean == CleanEpoch \/ CleanPtr \/ CallbackEnd \/ CleanEnd \/ NextGroup \/ Done

Next == Tick \/ Quiesce \/ Clean \/ \E o \in Obj : Record(o)

Spec == Init /\ [][Next]_vars

-----------------------------------------------------------------------------
\* The n-th group from limbo_head_ on, and the number of those in use.
Nth[n \in 0 .. Cardinality(Group)] ==
  IF n = 0 THEN limbo_head ELSE IF Nth[n - 1] = Null THEN Null ELSE g[Nth[n - 1]].next
Chain == {Nth[n] : n \in DOMAIN Nth} \ {Null}
UsedGroups == 1 + CHOOSE n \in DOMAIN Nth :
  Nth[n] = limbo_tail /\ \A k \in 0 .. n - 1 : Nth[k] # limbo_tail

\* The retired objects of group x, each with the epoch entry before it; the
\* callback that is being run is not in limbo any more.
Contents(x) ==
  LET Live(i) == g[x].e[i].ptr # Null /\ ~ (pc = "callback" /\ x = limbo_head /\ i = g[x].head)
      is == SelectSeq([j \in 1 .. g[x].tail - g[x].head |-> g[x].head + j - 1], Live)
      Marks(i) == {j \in g[x].head .. i : g[x].e[j].ptr = Null}
      EpochOf(i) == IF Marks(i) = {} THEN epoch
                    ELSE g[x].e[CHOOSE j \in Marks(i) : \A k \in Marks(i) : k <= j].epoch
  IN  [k \in DOMAIN is |-> [ptr |-> g[x].e[is[k]].ptr, epoch |-> EpochOf(is[k])]]

TypeOK ==
  /\ {globalepoch, active_epoch, perform_gc_epoch, bound, epoch} \subseteq Epoch
  /\ g \in [Group -> [head : 0 .. Cap, tail : 0 .. Cap, epoch : Epoch,
                      next : Group \cup {Null}, e : [0 .. Cap - 1 -> Entry]]]
  /\ {limbo_head, limbo_tail} \subseteq allocated /\ allocated \subseteq Group
  /\ {empty_head, empty_tail} \subseteq allocated \cup {Null}
  /\ count \in 0 .. FreeCount /\ ticks \in 0 .. MaxLag
  /\ pc \in {"idle", "clean", "callback", "group", "done"}
  /\ q \in Seq([ptr : Obj, epoch : Epoch])

\* The arrays hold what was retired and not freed, in that order, each object
\* with the epoch in which it was retired: also while they are being cleaned,
\* when a cleanup stops halfway because its budget is used up, when a callback
\* retires into the group that is being cleaned, and when groups are reused.
LimboIsQueue ==
  q = FlattenSeq([n \in 1 .. UsedGroups |-> Contents(Nth[n - 1])])

\* rcu_stop skips the cleanup when perform_gc_epoch_ equals active_epoch: then
\* nothing can be freed, although active_epoch may go back to a value it had
\* and although the last cleanup may not have finished.
SkipIsSound ==
  pc = "idle" /\ perform_gc_epoch = active_epoch =>
    \A i \in DOMAIN q : Signed(active_epoch - 1 - q[i].epoch) < 0

\* Between cleanups every group is in the chain, so none is leaked.
GroupsAreKept == pc = "idle" => Chain = allocated

\* The assertion of refill_rcu: the groups behind limbo_tail_ are empty and
\* start at 0.
SpareGroupsAreEmpty ==
  \A n \in UsedGroups .. Cardinality(Group) :
    Nth[n] # Null => g[Nth[n]].head = 0 /\ g[Nth[n]].tail = 0

\* The limbo lists lose nothing, leak nothing and skip no cleanup that could
\* free something, also when the epoch goes back (kvthread.cc:71-139,
\* kvthread.hh:268-344).
LimboIsSound == LimboIsQueue /\ SkipIsSound /\ GroupsAreKept /\ SpareGroupsAreEmpty
=============================================================================
