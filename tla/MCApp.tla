------------------------------- MODULE MCApp --------------------------------
EXTENDS App, TLC

CONSTANTS h1, h2, w1, w2, nomap

MCHosts == {h1, h2}
MCWorkers == {w1, w2}
(* Successive maps differ in what they say of h1; h2 is a plain tenant.    *)
MCMaps == {[h \in MCHosts |-> IF h = h1 THEN k ELSE "plain"] :
              k \in {"none", "plain", "httpsOnly"}}
MCArtifactHosts == {h2}
WorkerSymmetry == Permutations(MCWorkers)
=============================================================================
