------------------------------- MODULE MCTree -------------------------------
(***************************************************************************)
(* The tree; the bags that the suffixes of a leaf are in (Suffixes) and    *)
(* the keys a scan spells out of its layers (KeyScan).  part says which of *)
(* them moves, and the others stay in an initial state.                    *)
(***************************************************************************)
EXTENDS Tree, TLC

CONSTANTS rd, w1, w2

VARIABLES
  part,
  keys, kept, tab, ask, kbuf, ka, kst, kroot, leafno, ki, kstack, upper, scankey, scankeypos, kout,    \* KeyScan
  bags, slots, bwant, broken                                 \* Suffixes

\* Keys 4 and 5 have one slice.
MCIkeyOf == [k \in Key |-> IF k = 5 THEN 4 ELSE k]

\* Numbers stand for requests: k puts key k, -k removes it, 100 + k gets it.
Request(k) ==
  IF k < 0 THEN [op |-> "remove", key |-> -k]
  ELSE IF k > 100 THEN [op |-> "get", key |-> k - 100]
  ELSE [op |-> "put", key |-> k, val |-> "present"]

Make(load, one, two, three) ==
  [load |-> [i \in DOMAIN load |-> Request(load[i])],
   calls |-> [t \in Thread |->
     {Request(k) : k \in IF t = w1 THEN one ELSE IF t = w2 THEN two ELSE three}]]

\* Eight leaves of two keys, three internode levels.
High == <<1, 20, 19, 18, 17, 16, 15, 14, 13, 12, 11, 10, 9, 8, 7, 6>>

MCScenario == {
  \* The first leaf of an internode goes, and a full sibling splits.
  Make(<<1, 2, 3, 4, 8, 9, 10, 5, 6, 11, 12, 13, -9>>, {-8}, {7, 9, 14}, {108}),
  \* An internode is left with one leaf, which moves up and then splits.
  Make(<<1, 2, 4, 6, 8, 9, 10, 7, 11, 12, 13, -6, -7>>, {-8}, {3, 5, 8}, {104}),
  \* Two leaves below a full internode split.
  Make(<<2, 4, 6, 1, 8, 9, 10, 12>>, {3}, {11}, {109}),
  \* The layer becomes empty.
  Make(<<1, 2, 4, 6, -6, -2, -4>>, {-1}, {1, 3}, {101}),
  \* A redirect goes up two levels; the next leaf goes too.
  Make(High \o <<-14, -16>>, {-13}, {14, -15}, {113}),
  \* An internode without children is taken out.
  Make(High \o <<-13, -14, -15, -18>>, {-16}, {-17}, {117}),
  \* A leaf splits between slices, not within one.
  Make(<<1, 4, 6>>, {5}, {2, -4}, {105})
}

\* A hypothesis of TreeProofs.
ASSUME RequestsAssumption == MapRequests

-----------------------------------------------------------------------------
\* KeyScan: slices of 2 bits, one slice a leaf, and keys that begin others, end
\* with zeros or need three layers.
MCUniverse == {<<>>, <<0>>, <<0, 0>>, <<1>>, <<0, 1>>, <<0, 0, 0>>, <<0, 0, 1, 1, 0>>, <<0, 0, 1, 1>>, <<1, 1, 0>>,
               <<1, 1, 1, 1>>, <<1, 1, 1, 1, 1>>}
MCContent == {MCUniverse, {<<0, 0>>, <<0, 0, 0>>, <<1, 1, 1, 1, 1>>}, {<<>>, <<0>>, <<0, 0, 1, 1>>, <<0, 0, 1, 1, 0>>},
              {<<0, 1>>}, {<<1, 1, 1, 1, 1>>, <<1, 1, 0>>, <<1, 1, 1, 1, 0>>}}
Q == INSTANCE KeyScan WITH Size <- 2, Base <- 2, Width <- 1, BufLen <- 8, Limit <- {7},
       Marked <- {<<0, 1>>, <<0, 0, 1, 1>>}, FirstCap <- 2, UsedCap <- {0, 4},
       Content <- MCContent, FirstKey <- MCUniverse \cup {<<0, 0, 1>>}, Emptied <- {<<0, 0>>, <<0, 0, 1, 1>>},
       left <- kept, root <- kroot, st <- kst, n <- leafno, buf <- kbuf, stack <- kstack, out <- kout

\* Suffixes: one length below a slice, and two of the other need a larger bag.
F == INSTANCE Suffixes WITH W <- 2, Slice <- 5, Node <- 12, Align <- 8, MaxInline <- 16, Suffix <- {4, 12},
       leaf <- bags, active <- slots, want <- bwant

keyscan == <<keys, kept, tab, ask, kbuf, ka, kst, kroot, leafno, ki, kstack, upper, scankey, scankeypos, kout>>
suffixes == <<bags, slots, bwant, broken>>

Begin ==
  /\ part \in {"tree", "keyscan", "suffixes"}
  /\ Init /\ (part # "tree" => pre = CHOOSE s \in Scenario : TRUE)
  /\ (part # "keyscan" => keys = {<<0, 1>>} /\ kept = {}) /\ Q!Init
  /\ (part # "suffixes" => bwant = [p \in F!Slot |-> F!Short]) /\ F!Init

Move ==
  /\ UNCHANGED part
  /\ \/ part = "tree" /\ Next /\ UNCHANGED <<keyscan, suffixes>>
     \/ part = "keyscan" /\ Q!Next /\ UNCHANGED <<vars, suffixes>>
     \/ part = "suffixes" /\ F!Next /\ UNCHANGED <<vars, keyscan>>
     \* the scan is over, the bags are full
     \/ part \in {"keyscan", "suffixes"} /\ UNCHANGED <<vars, keyscan, suffixes>>

TreeSpec == Begin /\ [][Move]_<<part, vars, keyscan, suffixes>>

\* A scan spells every key in full and in order (see KeyScan).
ScanSpellsKeys == part = "keyscan" => Q!ScanSpellsKeys

\* Keys keep their suffixes as bags fill up (see Suffixes).
SuffixesAreKept == part = "suffixes" => F!SuffixesAreKept
=============================================================================
