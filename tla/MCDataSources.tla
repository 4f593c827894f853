----------------------------- MODULE MCDataSources -----------------------------
EXTENDS DataSources, TLC

CONSTANTS d1, d2, d3, w1, w2, e1, e2, v1, v2, kafka, p1, j1, c1, c2

MCPlace == d1 :> w1 @@ d2 :> w2
MCHome  == d1 :> e1 @@ d2 :> e2
MCEnv   == [enabled |-> FALSE, url |-> Blank, token |-> Blank, ui |-> Blank, jm |-> e1, domain |-> Blank]
MCBodies == {[url |-> e1, token |-> e1, enabled |-> TRUE], [url |-> Blank, enabled |-> None],
             [token |-> None, ui |-> Blank], [jm |-> e2, domain |-> Blank]}
MCOverrides == {[jm |-> e2, domain |-> e2], [jm |-> Blank], [domain |-> Blank]}
MCJobPlace == j1 :> w1
MCSymmetry == Permutations({c1, c2}) \cup Permutations({v1, v2})
================================================================================
