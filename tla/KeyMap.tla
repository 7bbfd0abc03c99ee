------------------------------- MODULE KeyMap -------------------------------
(***************************************************************************)
(* What a Masstree table promises its clients: a map from keys to values   *)
(* whose gets, puts and removes take effect one at a time, each at some    *)
(* moment between its call and its return.  A get has no effect to order:  *)
(* it may return whatever the key was mapped to at a moment of the call,   *)
(* which is what ans collects.                                             *)
(***************************************************************************)

CONSTANTS
  Key, Val,
  Thread,
  None,      \* "the key is not in the table"
  Idle       \* "no request", "no answer yet"

VARIABLES
  map,       \* the table
  req,       \* per thread: the request it is serving
  ans,       \* per thread: the answers it may give
  res        \* per thread: the answer it has decided on, or Idle

vars == <<map, req, ans, res>>

Request == [op : {"get", "remove"}, key : Key] \cup [op : {"put"}, key : Key, val : Val]

Init ==
  /\ map \in [Key -> Val \cup {None}]
  /\ req = [t \in Thread |-> Idle]
  /\ ans = [t \in Thread |-> {}]
  /\ res = [t \in Thread |-> Idle]

Call(t, r) ==
  /\ req[t] = Idle
  /\ req' = [req EXCEPT ![t] = r]
  /\ ans' = [ans EXCEPT ![t] = IF r.op = "get" THEN {map[r.key]} ELSE {}]
  /\ UNCHANGED <<map, res>>

\* A put or remove, which has not taken effect yet, does.  Its answer says
\* whether the key was there.
Effect(t) ==
  /\ req[t] # Idle /\ req[t].op # "get"
  /\ ans[t] = {}
  /\ LET k == req[t].key
         w == IF req[t].op = "put" THEN req[t].val ELSE None
     IN  /\ map' = [map EXCEPT ![k] = w]
         /\ ans' = [u \in Thread |->
              IF u = t THEN {IF map[k] = None THEN "missing" ELSE "found"}
              ELSE IF req[u] # Idle /\ req[u].op = "get" /\ req[u].key = k
                   THEN ans[u] \cup {w} ELSE ans[u]]
  /\ UNCHANGED <<req, res>>

Answer(t) ==
  /\ req[t] # Idle /\ res[t] = Idle
  /\ \E a \in ans[t] : res' = [res EXCEPT ![t] = a]
  /\ UNCHANGED <<map, req, ans>>

Return(t) ==
  /\ res[t] # Idle
  /\ req' = [req EXCEPT ![t] = Idle]
  /\ ans' = [ans EXCEPT ![t] = {}]
  /\ res' = [res EXCEPT ![t] = Idle]
  /\ UNCHANGED map

Next ==
  \E t \in Thread : Effect(t) \/ Answer(t) \/ Return(t) \/ \E r \in Request : Call(t, r)

Spec == Init /\ [][Next]_vars
=============================================================================
