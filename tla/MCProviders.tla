------------------------------ MODULE MCProviders ------------------------------
(* Instances of Providers for TLC. *)
EXTENDS Providers

CONSTANTS k1, k2, p1

OneProvider == [k \in Keys |-> p1]
Triple == (k1 :> 3) @@ (k2 :> 1)

\* One provider alone, and a chain that names it for two of its models.
AloneAndChain == {<<p1>>, <<p1, p1>>}

\* A saved key is switched off, or is made lighter. (An import brings a new secret
\* and the weight 1.)
Off == {<<FALSE, FALSE, 3>>}
OffOrLighter == Off \cup {<<TRUE, FALSE, 1>>}
================================================================================
