------------------------------- MODULE MCLog -------------------------------
(* The UDP and the TCP thread of one index share a log (prepare_thread); the
   second log is another thread's. *)
EXTENDS Log, TLC

CONSTANTS w1, w2, w3

MCLogOf == [t \in Writer |-> IF t = w3 THEN 2 ELSE 1]
\* The two threads that share a log are alike.
Symmetry == Permutations({w1, w2})

MCKeyOf == [u \in 1..MaxPut |-> IF u = 2 THEN "b" ELSE "a"]
=============================================================================
