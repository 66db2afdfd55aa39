--------------------------- MODULE MCContextSocket ---------------------------
(* Instances of ContextSocket for TLC. *)
EXTENDS ContextSocket, TLC

CONSTANTS s1, s2, s3, local, wild    \* sockets; a resolvable and a wildcard endpoint

MCSocket2 == {s1, s2}
MCSocket3 == {s1, s2, s3}
MCEndpoint == {local, wild}
MCUnresolvable == {wild}

Sym2 == Permutations(MCSocket2)
Sym3 == Permutations(MCSocket3)
=============================================================================
