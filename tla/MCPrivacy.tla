------------------------------ MODULE MCPrivacy ------------------------------
EXTENDS Privacy

\* The kinds of request that meet in one behaviour.
Together ==
  { [requests |-> {"export", "erasure", "refuse"}, sole |-> {FALSE}],
    [requests |-> {"export", "erasure", "stop"}, sole |-> {FALSE}],
    [requests |-> {"erasure", "login", "owners", "refuse"}, sole |-> BOOLEAN],
    [requests |-> {"audit"}, sole |-> {FALSE}] }
=============================================================================
