--------------------------- MODULE MCRegistration ---------------------------
EXTENDS Registration, TLC
CONSTANTS m1, m2, p1

TwoEach == [r \in Routes |-> 2]

\* The kinds of request that meet in one behaviour.
Together ==
  { [requests |-> {"signup", "verify request", "suspend", "later"}, users |-> <<>>, contacts |-> {m1}],
    [requests |-> {"signup", "verify request", "suspend", "later"}, users |-> <<>>, contacts |-> {p1}],
    [requests |-> {"signup", "invite", "stop"}, users |-> <<m2>>, contacts |-> {m1}],
    [requests |-> {"invite", "later", "suspend"}, users |-> <<m2>>, contacts |-> {m1, m2}] }

Symmetry == Permutations(Clients)
=============================================================================
