------------------------------- MODULE MCScan -------------------------------
EXTENDS Scan, TLC

CONSTANTS rd, w1, w2

\* Keys 4 and 5 have one slice.
MCIkeyOf == [k \in Key |-> IF k = 5 THEN 4 ELSE k]

\* Numbers stand for requests: k puts key k, -k removes it.
Request(k) == IF k < 0 THEN [op |-> "remove", key |-> -k]
              ELSE [op |-> "put", key |-> k, val |-> "present"]

Up(k) == [op |-> "scan", key |-> k, rev |-> FALSE, equal |-> TRUE]
Down(k) == [op |-> "scan", key |-> k, rev |-> TRUE, equal |-> FALSE]

Make(load, one, two) ==
  [load |-> [i \in DOMAIN load |-> Request(load[i])],
   calls |-> [t \in Thread |-> IF t = w1 THEN {Request(k) : k \in one}
                               ELSE IF t = w2 THEN {Request(k) : k \in two}
                               ELSE {Up(2), Down(8)}]]

MCScenario == {
  \* A leaf splits.
  Make(<<1, 4, 7, 2, 5, 8>>, {6}, {}),
  \* A leaf is removed, its neighbours change.
  Make(<<1, 4, 7, 2, 8, -4>>, {-7}, {3, -8}),
  \* A leaf in the middle is removed and its range is used again.
  Make(<<1, 4, 7, 2, 5, 8, -4, -5, -8>>, {-7}, {4})
}
=============================================================================
