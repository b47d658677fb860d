----------------------------- MODULE Primitives -----------------------------
(***************************************************************************)
(* What the Cairo runtime and its libraries do for the account contract:   *)
(* signature checks on the two curves and Merkle membership.  None of this *)
(* is code of the repository; each operator says only what src/ relies on. *)
(*                                                                         *)
(* Hashing is ideal: the hash of a value is a tuple holding the value.  A  *)
(* signature scheme is the relation of what verifies, left as a constant,  *)
(* so nothing below assumes that signatures are unique.                    *)
(***************************************************************************)
EXTENDS Integers, Sequences

CONSTANTS
    EcdsaSigned,  \* the <<hash, public key, r, s>> accepted on the Stark curve
    P256Signed    \* the <<message, point, <<r, s>>>> that satisfy the equation on secp256r1

check_ecdsa_signature(message_hash, public_key, r, s) ==
    <<message_hash, public_key, r, s>> \in EcdsaSigned

\* r is the abscissa of (hash(msg) / s) G + (r / s) Q, modulo the curve's order.
curve_equation(public_key_pt, msg, signature) ==
    <<msg, public_key_pt, signature>> \in P256Signed

\* A Merkle root stands for the set of leaves below it and the height of the
\* tree; the proof of a leaf has one sibling per level.
merkle_proof(root, leaf) == [level \in 1 .. root.height |-> <<leaf, level>>]

merkle_verify(root, leaf, proof) ==
    /\ leaf \in root.leaves
    /\ proof = merkle_proof(root, leaf)
=============================================================================
