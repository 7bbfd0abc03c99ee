----------------------------- MODULE MCLeafRows -----------------------------
(***************************************************************************)
(* A leaf and its layers, and the rows its slots lead to (Rows): part says *)
(* which of the two moves, and the other stays in an initial state.        *)
(***************************************************************************)
EXTENDS MCLeaf

VARIABLES
  part,
  rtype, rmem, rrow, rmarker, rwant, rstorage, rharmed       \* Rows

R == INSTANCE Rows WITH Type <- {"bag", "array", "versioned", "string"}, Block <- 1..9, MaxCol <- 2, Small <- 1,
       Shift <- 8, Text <- {<<>>, <<"a">>, <<"b", "c">>},
       type <- rtype, mem <- rmem, row <- rrow, marker <- rmarker, want <- rwant,
       storage <- rstorage, harmed <- rharmed

rows == <<rtype, rmem, rrow, rmarker, rwant, rstorage, rharmed>>

Start ==
  /\ part \in {"leaf", "rows"}
  /\ Init
  /\ (part # "rows" => rtype = "bag" /\ rmarker = FALSE) /\ R!Init

Move ==
  /\ UNCHANGED part
  /\ \/ part = "leaf" /\ Next /\ UNCHANGED rows
     \/ part = "rows" /\ R!Next /\ UNCHANGED vars

LeafSpec == Start /\ [][Move]_<<part, vars, rows>>

\* In every layout a row says what the requests wrote, and shares no memory
\* that was retired, until a get of a versioned row does harm (see Rows).
RowsAreKept == part = "rows" => R!RowsAreKept
=============================================================================
