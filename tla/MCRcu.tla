-------------------------------- MODULE MCRcu --------------------------------
(***************************************************************************)
(* Reclamation: the epochs of all threads, with limbo lists that are       *)
(* sequences (Rcu), and the limbo list of one thread as it is (Limbo).     *)
(* part says which of them moves; the other stays in its initial state.    *)
(***************************************************************************)
EXTENDS Rcu, TLC

CONSTANTS Group, First, Null, p1, p2, callback           \* for Limbo

VARIABLES part, lglobalepoch, lactive_epoch, lperform, ticks, g, limbo_head, limbo_tail, lpc, lbound, lcount,
          epoch, empty_head, empty_tail, allocated, q

Lists == INSTANCE Limbo WITH
  Cap <- 4, Obj <- {p1, p2, callback}, Callback <- {callback}, FreeCount <- 2, M <- 10, MaxLag <- 1, Window <- 2,
  globalepoch <- lglobalepoch, active_epoch <- lactive_epoch, perform_gc_epoch <- lperform,
  pc <- lpc, bound <- lbound, count <- lcount

ASSUME ListsAssumption == Lists!Constants

lists == <<lglobalepoch, lactive_epoch, lperform, ticks, g, limbo_head, limbo_tail, lpc, lbound, lcount,
           epoch, empty_head, empty_tail, allocated, q>>

Start == part \in {"epochs", "lists"} /\ Init /\ Lists!Init

Move == /\ UNCHANGED part
        /\ \/ part = "epochs" /\ Next /\ UNCHANGED lists
           \/ part = "lists" /\ Lists!Next /\ UNCHANGED vars

RcuSpec == Start /\ [][Move]_<<part, vars, lists>>

\* Limbo lists lose nothing and skip nothing (see Limbo).
LimboIsSound == part = "lists" => Lists!LimboIsSound

Symmetry == Permutations(Udp) \cup Permutations(Tcp) \cup Permutations(Client)
            \cup Permutations({p1, p2})
=============================================================================
