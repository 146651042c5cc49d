------------------------------ MODULE MCSecrets ------------------------------
(* Instances of Secrets: two hosts, and a phone full with one, on which more is done *)
EXTENDS Secrets

MCScopes == {[maxHosts |-> 2, maxAsked |-> 5], [maxHosts |-> 1, maxAsked |-> 6]}
=============================================================================
