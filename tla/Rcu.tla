-------------------------------- MODULE Rcu ---------------------------------
EXTENDS Integers, Sequences

(***************************************************************************)
(* Epoch-based reclamation (kvthread.hh, kvthread.cc, epochinc in mtd.cc). *)
(* A thread brackets the handling of a request with rcu_start and          *)
(* rcu_stop; what it takes out of the tree goes to its limbo list, stamped *)
(* with the global epoch; a timer advances the global epoch and computes   *)
(* the oldest epoch a thread is active in; a thread frees what is older.   *)
(*                                                                         *)
(* Obj stands for everything the tree hands to deallocate_rcu or           *)
(* rcu_register: leaves, internodes, key suffixes, rows and callbacks.     *)
(* The 64-bit epochs are plain integers here; MaxEpoch bounds them.        *)
(* Locals are reset to 0 when the code is done with them.                  *)
(***************************************************************************)

CONSTANTS
  Udp,          \* threads that send the answer before rcu_stop
  Tcp,          \* threads that encode the answer after rcu_stop
  Client,       \* test clients, which also call rcu_quiesce
  Obj,          \* objects, all in the tree at first
  LateUnlink,   \* the objects that are retired before they are unlinked
  FreeCount,    \* rcu_free_count
  MaxEpoch      \* bound on the global epoch

Worker == Udp \cup Tcp \cup Client

ASSUME EpochAssumption == MaxEpoch \in Nat
ASSUME CountAssumption == FreeCount \in Nat \ {0}

VARIABLES
  globalepoch, active_epoch,
  gc_epoch,           \* per thread; 0 when outside rcu_start/rcu_stop
  perform_gc_epoch,   \* per thread: the active epoch it last cleaned up to
  limbo,              \* per thread: sequence of retired objects with epochs
  pc, ge, bound, count,   \* per thread: position and locals
  linked,             \* objects that can be reached from the tree
  freed,              \* objects whose memory has been given back
  held,               \* per thread: objects it has pointers to
  entry,              \* history: the global epoch when gc_epoch was stored
  ticking, ae, todo   \* the timer handler: running?, minimum so far, to visit

threadVars == <<gc_epoch, perform_gc_epoch, limbo, pc, ge, bound, count, held, entry>>
tickVars == <<ticking, ae, todo>>
vars == <<globalepoch, active_epoch, threadVars, linked, freed, tickVars>>

Retired == [ptr : Obj, epoch : Int]

PCs == {"out", "start", "in", "unlinked", "retired", "q_start", "q_gc",
        "q_bound", "q_free", "stop", "s_bound", "s_free", "stopped", "reply"}

TypeOK ==
  /\ globalepoch \in Int /\ active_epoch \in Int
  /\ gc_epoch \in [Worker -> Int]
  /\ perform_gc_epoch \in [Worker -> Int]
  /\ limbo \in [Worker -> Seq(Retired)]
  /\ pc \in [Worker -> PCs]
  /\ ge \in [Worker -> Int]
  /\ bound \in [Worker -> Int]
  /\ count \in [Worker -> Int]
  /\ linked \in SUBSET Obj
  /\ freed \in SUBSET Obj
  /\ held \in [Worker -> SUBSET Obj]
  /\ entry \in [Worker -> Int]
  /\ ticking \in BOOLEAN /\ ae \in Int /\ todo \in SUBSET Worker

Init ==
  /\ globalepoch = 1 /\ active_epoch = 1
  /\ gc_epoch = [t \in Worker |-> 0]
  /\ perform_gc_epoch = [t \in Worker |-> 0]
  /\ limbo = [t \in Worker |-> <<>>]
  /\ pc = [t \in Worker |-> "out"]
  /\ ge = [t \in Worker |-> 0]
  /\ bound = [t \in Worker |-> 0]
  /\ count = [t \in Worker |-> 0]
  /\ linked = Obj
  /\ freed = {}
  /\ held = [t \in Worker |-> {}]
  /\ entry = [t \in Worker |-> 0]
  /\ ticking = FALSE /\ ae = 0 /\ todo = {}

Goto(t, p) == pc' = [pc EXCEPT ![t] = p]

-----------------------------------------------------------------------------
\* rcu_start, and the rcu_start inside rcu_quiesce: load the global epoch ...
StartLoad(t) ==
  /\ pc[t] = "out"
  /\ ge' = [ge EXCEPT ![t] = globalepoch]
  /\ Goto(t, "start")
  /\ UNCHANGED <<globalepoch, active_epoch, gc_epoch, perform_gc_epoch, limbo,
                 bound, count, linked, freed, held, entry, tickVars>>

\* (a thread that calls rcu_quiesce keeps no pointers into the tree)
QuiesceLoad(t) ==
  /\ t \in Client
  /\ pc[t] = "in"
  /\ ge' = [ge EXCEPT ![t] = globalepoch]
  /\ held' = [held EXCEPT ![t] = {}]
  /\ Goto(t, "q_start")
  /\ UNCHANGED <<globalepoch, active_epoch, gc_epoch, perform_gc_epoch, limbo,
                 bound, count, linked, freed, entry, tickVars>>

\* ... and store it, any time later.
StartStore(t) ==
  /\ pc[t] \in {"start", "q_start"}
  /\ gc_epoch' = [gc_epoch EXCEPT ![t] = ge[t]]
  /\ entry' = [entry EXCEPT ![t] = globalepoch]
  /\ ge' = [ge EXCEPT ![t] = 0]
  /\ Goto(t, IF pc[t] = "start" THEN "in" ELSE "q_gc")
  /\ UNCHANGED <<globalepoch, active_epoch, perform_gc_epoch, limbo, bound,
                  count, linked, freed, held, tickVars>>

\* A lookup or scan reads a pointer from the tree.
Read(t, o) ==
  /\ pc[t] = "in"
  /\ o \in linked \ held[t]
  /\ held' = [held EXCEPT ![t] = @ \cup {o}]
  /\ UNCHANGED <<globalepoch, active_epoch, gc_epoch, perform_gc_epoch, limbo,
                 pc, ge, bound, count, linked, freed, entry, tickVars>>

\* apply_put replaces the row and then retires the old one ...
Unlink(t, o) ==
  /\ pc[t] = "in"
  /\ o \in linked \ LateUnlink
  /\ linked' = linked \ {o}
  /\ held' = [held EXCEPT ![t] = {o}]
  /\ Goto(t, "unlinked")
  /\ UNCHANGED <<globalepoch, active_epoch, gc_epoch, perform_gc_epoch, limbo,
                 ge, bound, count, freed, entry, tickVars>>

\* Variant: stamped with the epoch the thread came in.
PushBack_OwnEpoch(t, o) ==
  limbo' = [limbo EXCEPT ![t] = Append(@, [ptr |-> o, epoch |-> gc_epoch[t]])]

\* record_rcu: stamp with the current global epoch, append to the own list.
PushBack(t, o) ==
  limbo' = [limbo EXCEPT ![t] = Append(@, [ptr |-> o, epoch |-> globalepoch])]

Retire(t, o) ==
  /\ pc[t] = "unlinked"
  /\ held[t] = {o}
  /\ PushBack(t, o)
  /\ Goto(t, "in")
  /\ UNCHANGED <<globalepoch, active_epoch, gc_epoch, perform_gc_epoch, ge,
                 bound, count, linked, freed, held, entry, tickVars>>

\* Variant: two threads may be retiring one object.
RetireFirst_NoLock(t, o) ==
  /\ pc[t] = "in"
  /\ o \in linked \cap LateUnlink
  /\ PushBack(t, o)
  /\ held' = [held EXCEPT ![t] = {o}]
  /\ Goto(t, "retired")
  /\ UNCHANGED <<globalepoch, active_epoch, gc_epoch, perform_gc_epoch, ge,
                 bound, count, linked, freed, entry, tickVars>>

\* ... but remove_leaf, gc_layer, apply_replace and apply_remove call
\* deallocate_rcu first and take the object out of the tree after that.  The
\* object is locked, or in a locked leaf: no other thread retires it.
RetireFirst(t, o) ==
  /\ pc[t] = "in"
  /\ o \in linked \cap LateUnlink
  /\ \A u \in Worker : pc[u] = "retired" => held[u] # {o}
  /\ PushBack(t, o)
  /\ held' = [held EXCEPT ![t] = {o}]
  /\ Goto(t, "retired")
  /\ UNCHANGED <<globalepoch, active_epoch, gc_epoch, perform_gc_epoch, ge,
                 bound, count, linked, freed, entry, tickVars>>

UnlinkAfter(t) ==
  /\ pc[t] = "retired"
  /\ linked' = linked \ held[t]
  /\ Goto(t, "in")
  /\ UNCHANGED <<globalepoch, active_epoch, gc_epoch, perform_gc_epoch, limbo,
                 ge, bound, count, freed, held, entry, tickVars>>

-----------------------------------------------------------------------------
\* The request is done: rcu_stop.
Finish(t) ==
  /\ pc[t] = "in"
  /\ Goto(t, "stop")
  /\ UNCHANGED <<globalepoch, active_epoch, gc_epoch, perform_gc_epoch, limbo,
                 ge, bound, count, linked, freed, held, entry, tickVars>>

\* rcu_stop and rcu_quiesce clean up only if active_epoch is news; ...
GcCheck(t) ==
  /\ pc[t] \in {"q_gc", "stop"}
  /\ Goto(t, IF perform_gc_epoch[t] = active_epoch
             THEN IF pc[t] = "stop" THEN "stopped" ELSE "in"
             ELSE IF pc[t] = "stop" THEN "s_bound" ELSE "q_bound")
  /\ UNCHANGED <<globalepoch, active_epoch, gc_epoch, perform_gc_epoch, limbo,
                 ge, bound, count, linked, freed, held, entry, tickVars>>

\* Variant: clean up to and including the active epoch.
GcBound_OffByOne(t) ==
  /\ pc[t] \in {"q_bound", "s_bound"}
  /\ bound' = [bound EXCEPT ![t] = active_epoch]
  /\ count' = [count EXCEPT ![t] = FreeCount]
  /\ Goto(t, IF pc[t] = "s_bound" THEN "s_free" ELSE "q_free")
  /\ UNCHANGED <<globalepoch, active_epoch, gc_epoch, perform_gc_epoch, limbo,
                 ge, linked, freed, held, entry, tickVars>>

\* ... hard_rcu_quiesce loads active_epoch again.
GcBound(t) ==
  /\ pc[t] \in {"q_bound", "s_bound"}
  /\ bound' = [bound EXCEPT ![t] = active_epoch - 1]
  /\ count' = [count EXCEPT ![t] = FreeCount]
  /\ Goto(t, IF pc[t] = "s_bound" THEN "s_free" ELSE "q_free")
  /\ UNCHANGED <<globalepoch, active_epoch, gc_epoch, perform_gc_epoch, limbo,
                 ge, linked, freed, held, entry, tickVars>>

\* hard_rcu_quiesce, clean_until: may the oldest element be freed?
CanFree(t) == count[t] > 0 /\ limbo[t] # <<>> /\ Head(limbo[t]).epoch <= bound[t]

\* free_rcu of the oldest element (for a callback: it is run).
FreeOne(t) ==
  /\ pc[t] \in {"q_free", "s_free"}
  /\ CanFree(t)
  /\ freed' = freed \cup {Head(limbo[t]).ptr}
  /\ limbo' = [limbo EXCEPT ![t] = Tail(@)]
  /\ count' = [count EXCEPT ![t] = @ - 1]
  /\ UNCHANGED <<globalepoch, active_epoch, gc_epoch, perform_gc_epoch, pc, ge,
                 bound, linked, held, entry, tickVars>>

\* Variant: an exhausted budget is taken for a finished cleanup.
GcEnd_IgnoresBudget(t) ==
  /\ pc[t] \in {"q_free", "s_free"}
  /\ ~ CanFree(t)
  /\ perform_gc_epoch' = [perform_gc_epoch EXCEPT ![t] = bound[t] + 1]
  /\ bound' = [bound EXCEPT ![t] = 0]
  /\ count' = [count EXCEPT ![t] = 0]
  /\ Goto(t, IF pc[t] = "s_free" THEN "stopped" ELSE "in")
  /\ UNCHANGED <<globalepoch, active_epoch, gc_epoch, limbo, ge, linked, freed,
                 held, entry, tickVars>>

\* When the budget ran out, the next rcu_stop goes on.
GcEnd(t) ==
  /\ pc[t] \in {"q_free", "s_free"}
  /\ ~ CanFree(t)
  /\ perform_gc_epoch' = [perform_gc_epoch EXCEPT
       ![t] = IF count[t] = 0 THEN bound[t] ELSE bound[t] + 1]
  /\ bound' = [bound EXCEPT ![t] = 0]
  /\ count' = [count EXCEPT ![t] = 0]
  /\ Goto(t, IF pc[t] = "s_free" THEN "stopped" ELSE "in")
  /\ UNCHANGED <<globalepoch, active_epoch, gc_epoch, limbo, ge, linked, freed,
                 held, entry, tickVars>>

\* rcu_stop: gc_epoch_ = 0.  udp_threadfunc has sent the answer by now;
\* tcp_threadfunc still holds it, with its pointers into rows.
StopStore(t) ==
  /\ pc[t] = "stopped"
  /\ gc_epoch' = [gc_epoch EXCEPT ![t] = 0]
  /\ entry' = [entry EXCEPT ![t] = 0]
  /\ held' = [held EXCEPT ![t] = IF t \in Tcp THEN @ ELSE {}]
  /\ Goto(t, IF t \in Tcp THEN "reply" ELSE "out")
  /\ UNCHANGED <<globalepoch, active_epoch, perform_gc_epoch, limbo, ge, bound,
                 count, linked, freed, tickVars>>

\* tcp_threadfunc: msgpack::unparse reads the answer, then clears it.
Reply(t) ==
  /\ pc[t] = "reply"
  /\ held' = [held EXCEPT ![t] = {}]
  /\ Goto(t, "out")
  /\ UNCHANGED <<globalepoch, active_epoch, gc_epoch, perform_gc_epoch, limbo,
                 ge, bound, count, linked, freed, entry, tickVars>>

-----------------------------------------------------------------------------
\* epochinc: advance the global epoch, load it, ...  At MaxEpoch the timer
\* goes on firing without advancing it.
TickStart ==
  /\ ~ ticking
  /\ globalepoch' = IF globalepoch + 2 <= MaxEpoch THEN globalepoch + 2 ELSE globalepoch
  /\ ticking' = TRUE
  /\ ae' = globalepoch'
  /\ todo' = Worker
  /\ UNCHANGED <<active_epoch, threadVars, linked, freed>>

\* ... min_active_epoch: look at each thread's gc_epoch_, ...
TickVisit(t) ==
  /\ ticking /\ t \in todo
  /\ ae' = IF gc_epoch[t] # 0 /\ gc_epoch[t] < ae THEN gc_epoch[t] ELSE ae
  /\ todo' = todo \ {t}
  /\ UNCHANGED <<globalepoch, active_epoch, threadVars, linked, freed, ticking>>

\* ... and store the minimum as active_epoch.
TickStore ==
  /\ ticking /\ todo = {}
  /\ active_epoch' = ae
  /\ ticking' = FALSE
  /\ ae' = 0
  /\ UNCHANGED <<globalepoch, threadVars, linked, freed, todo>>

-----------------------------------------------------------------------------
\* What a thread does once it has a request.
Run(t) ==
  \/ StartStore(t) \/ QuiesceLoad(t)
  \/ \E o \in Obj : Read(t, o) \/ Unlink(t, o) \/ Retire(t, o) \/ RetireFirst(t, o)
  \/ UnlinkAfter(t)
  \/ Finish(t) \/ GcCheck(t) \/ GcBound(t) \/ FreeOne(t) \/ GcEnd(t)
  \/ StopStore(t) \/ Reply(t)

Tick == TickStart \/ TickStore \/ \E t \in Worker : TickVisit(t)

Next == Tick \/ \E t \in Worker : StartLoad(t) \/ Run(t)

Spec == Init /\ [][Next]_vars

\* The timer keeps firing, and a thread that has a request serves it; that
\* another request comes is not assumed.
FairSpec == Spec /\ WF_vars(Tick) /\ \A t \in Worker : WF_vars(Run(t))

-----------------------------------------------------------------------------
Inside(t) == pc[t] \notin {"out", "start", "reply"}

\* Between rcu_start and rcu_stop no object a thread has a pointer to is freed,
\* whatever the timer and the other threads do in between, if the object was
\* unlinked before it was retired.
InsideIsSafe ==
  \A t \in Worker : Inside(t) => held[t] \cap freed \subseteq LateUnlink

\* The same for every object.  doc/spec.tex, "Interior node validity", says of
\* a pointer read at a time that one reader's activity spans: it "is a pointer
\* to a valid (though not necessarily reachable) node".
PointersStayValid == \A t \in Worker : Inside(t) => held[t] \cap freed = {}

\* The answer of tcp_threadfunc still refers to rows when it is encoded.
\* string.hh says of make_stable, which query::emit_fields refers to them with:
\* "suitable for static constant strings whose data is known to stay around".
AnswerIsSafe == \A t \in Worker : pc[t] = "reply" => held[t] \cap freed = {}

\* Nothing the tree still leads to is freed, and no object is put on limbo lists
\* twice or retired again after it was freed (free_rcu would return its memory
\* to the pool twice).
TreeIsSafe ==
  /\ linked \cap freed = {}
  /\ \A t, u \in Worker : \A i \in DOMAIN limbo[t], j \in DOMAIN limbo[u] :
       /\ limbo[t][i].ptr \notin freed
       /\ limbo[t][i].ptr = limbo[u][j].ptr => t = u /\ i = j

\* What a thread retired is freed if the thread goes on serving requests, even
\* though one rcu_stop frees at most FreeCount objects.  (Objects retired in
\* the last epoch of the model have no later epoch to wait for.)
InLimbo(t, o) ==
  \E i \in DOMAIN limbo[t] : limbo[t][i].ptr = o /\ limbo[t][i].epoch < MaxEpoch
RetiredIsFreed ==
  \A t \in Worker : []<>(pc[t] = "stop") =>
    \A o \in Obj : InLimbo(t, o) ~> o \in freed

-----------------------------------------------------------------------------
\* The inductive invariant behind InsideIsSafe.  The epoch a thread stores can
\* be stale, so gc_epoch does not bound what it may hold; entry does.
EpochsInOrder ==
  /\ 1 <= globalepoch /\ active_epoch <= globalepoch
  /\ ticking => ae <= globalepoch
  /\ \A t \in Worker :
       /\ pc[t] \in {"start", "q_start"} => 1 <= ge[t] /\ ge[t] <= globalepoch
       /\ pc[t] \in {"q_free", "s_free"} => bound[t] < globalepoch
       /\ Inside(t) => /\ 1 <= gc_epoch[t] /\ gc_epoch[t] <= entry[t]
                       /\ entry[t] <= globalepoch

\* active_epoch, what the timer is about to store there, and every bound in use
\* are no later than the entry of any thread inside.
NobodyIsOvertaken ==
  \A t \in Worker :
    Inside(t) =>
      /\ active_epoch <= entry[t]
      /\ ticking => t \in todo \/ ae <= entry[t]
      /\ \A u \in Worker : pc[u] \in {"q_free", "s_free"} => bound[u] < entry[t]

\* An object that somebody holds was retired no earlier than its holder came.
HoldersCameFirst ==
  \A t, u \in Worker : \A i \in DOMAIN limbo[u] :
    /\ Inside(t) /\ limbo[u][i].ptr \in held[t] \ LateUnlink
         => entry[t] <= limbo[u][i].epoch
    /\ limbo[u][i].ptr \in linked => limbo[u][i].ptr \in LateUnlink

HeldState ==
  /\ linked \cap freed \subseteq LateUnlink
  /\ \A t \in Worker :
       /\ pc[t] \in {"out", "start", "q_start", "q_gc", "q_bound", "q_free"} => held[t] = {}
       /\ pc[t] = "unlinked" => held[t] \cap linked = {}

RInv ==
  /\ TypeOK
  /\ EpochsInOrder
  /\ NobodyIsOvertaken
  /\ HoldersCameFirst
  /\ HeldState
  /\ InsideIsSafe

\* The strengthening behind TreeIsSafe.  An object that is on a limbo list and
\* still in the tree is just being retired, by a thread that came in no later
\* than the epoch it was stamped with: nobody can free it before it is unlinked.
LinkedAreRetiring ==
  \A u \in Worker : \A i \in DOMAIN limbo[u] :
    limbo[u][i].ptr \in linked =>
      \E t \in Worker : /\ pc[t] = "retired" /\ held[t] = {limbo[u][i].ptr}
                        /\ entry[t] <= limbo[u][i].epoch

\* An object that is unlinked and not retired yet belongs to one thread.
UnlinkedAreOwned ==
  \A t \in Worker : \A o \in held[t] :
    pc[t] = "unlinked" =>
      /\ o \notin freed
      /\ \A u \in Worker : \A i \in DOMAIN limbo[u] : limbo[u][i].ptr # o
      /\ \A u \in Worker : pc[u] = "unlinked" /\ o \in held[u] => u = t

RetireInv ==
  /\ RInv
  /\ LinkedAreRetiring
  /\ UnlinkedAreOwned
  /\ TreeIsSafe

=============================================================================
