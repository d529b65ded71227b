------------------------------ MODULE MCStream ------------------------------
EXTENDS Stream

Good == [command |-> "argv", timeout |-> "default", env |-> "allowed", cwd |-> "root",
         media |-> "json", accept |-> "matching", background |-> FALSE]

\* Every request that differs from a good one in at most one field.
NearlyGood ==
    {q \in Requests : \E g \in {Good, [Good EXCEPT !.background = TRUE]} :
        Cardinality({f \in DOMAIN q : q[f] # g[f]}) <= 1}
=============================================================================
