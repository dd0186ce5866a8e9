------------------------------- MODULE MCLogin -------------------------------
EXTENDS Login, TLC
CONSTANTS m1, i1, i2

OneMail == [s \in Subjects |-> m1]

\* The kinds of request that meet in one behaviour.
Together ==
  { [requests |-> {"password", "reset"}, from |-> {i1, None}, accounts |-> <<m1>>],
    [requests |-> {"phone", "suspend"}, from |-> {i1, i2}, accounts |-> <<m1>>],
    [requests |-> {"phone", "stop"}, from |-> {i1}, accounts |-> <<m1>>],
    [requests |-> {"social", "register", "suspend"}, from |-> {i1}, accounts |-> <<>>] }

Symmetry == Permutations(Clients)
=============================================================================
