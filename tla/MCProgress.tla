----------------------------- MODULE MCProgress -----------------------------
(***************************************************************************)
(* What threads share and wait for, each on its own: the list of leaves,   *)
(* with splits and unlinks of neighbours (LeafLink), the epochs, up to the *)
(* freeing of what was retired (Rcu), and a log's lock and buffer (Log).   *)
(* part says which of them moves; the others stay in an initial state.     *)
(* Each has the fairness of its own FairSpec.                              *)
(***************************************************************************)
EXTENDS LeafLink

CONSTANTS Udp, Tcp, Client, Obj, LateUnlink, FreeCount, MaxEpoch      \* for Rcu

VARIABLES part,
  globalepoch, active_epoch, gc_epoch, perform_gc_epoch, limbo, rpc, ge, bound, count, linked, freed,
  held, entry, ticking, ae, todo,                                             \* Rcu
  global_log_epoch, global_wake_epoch, log, disk, w, leaf, table, ckp, saved, rec, hist   \* Log

Epochs == INSTANCE Rcu WITH pc <- rpc

\* The UDP and the TCP thread of one index share a log, and both wait for room.
Logs == INSTANCE Log WITH Writer <- {"w1", "w2"}, NLog <- 1, LogOf <- [t \in {"w1", "w2"} |-> 1],
       Key <- {"a", "b"}, KeyOf <- <<"a", "b", "a">>, Nobody <- "nobody", Cap <- 4, Room <- 3,
       MaxEpoch <- 3, MaxPut <- 3, MaxCrash <- 0, Lives <- 1, MaxCkp <- 0

epochs == <<globalepoch, active_epoch, gc_epoch, perform_gc_epoch, limbo, rpc, ge, bound, count,
            linked, freed, held, entry, ticking, ae, todo>>
commits == <<global_log_epoch, global_wake_epoch, log, disk, w, leaf, table, ckp, saved, rec, hist>>
allvars == <<part, vars, epochs, commits>>

Start == part \in {"links", "epochs", "commits"} /\ Init /\ Epochs!Init /\ Logs!Init

Links(A) == part = "links" /\ A /\ UNCHANGED <<part, epochs, commits>>
Reclaims(A) == part = "epochs" /\ A /\ UNCHANGED <<part, vars, commits>>
Commits(A) == part = "commits" /\ A /\ UNCHANGED <<part, vars, epochs>>

Move == Links(Next) \/ Reclaims(Epochs!Next) \/ Commits(Logs!Next)

ProgressSpec ==
  /\ Start /\ [][Move]_allvars
  /\ \A t \in Thread : WF_allvars(Links(Step(t)))
  /\ \A t \in Epochs!Worker : WF_allvars(Reclaims(Epochs!Run(t)))
  /\ WF_allvars(Reclaims(Epochs!Tick))
  /\ \A t \in {"w1", "w2"} : SF_allvars(Commits(Logs!Acquire(t))) /\ WF_allvars(Commits(Logs!GoOn(t)))
  /\ SF_allvars(Commits(Logs!Turn(1))) /\ WF_allvars(Commits(Logs!GoRound(1)))

\* What was retired is freed (see Rcu).
RetiredIsFreed == Epochs!RetiredIsFreed

\* An update that has begun is recorded and answered (see Log).
PutsEnd == Logs!PutsEnd
=============================================================================
