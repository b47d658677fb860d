------------------------------ MODULE MCMerkle ------------------------------
(* Policies of up to five calls: single, even, odd at the leaves, and odd   *)
(* further up.  The hash is a pairing function, so it has no collisions.    *)
EXTENDS Merkle

Pairing(a, b) == ((a + b) * (a + b + 1)) \div 2 + b + 1
=============================================================================
