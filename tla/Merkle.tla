------------------------------- MODULE Merkle -------------------------------
(***************************************************************************)
(* The Merkle tree over the permitted calls                                *)
(* (account_sdk/src/session_token/hash.rs).  The prover climbs the tree    *)
(* level by level and notes the neighbour of each leaf's ancestor; the     *)
(* verifier hashes a leaf with those neighbours, in the same order.  Here  *)
(* both go in step, for every leaf at once, and a second verifier follows  *)
(* the same proof from another leaf.  Hashes are naturals, ordered as the  *)
(* felts are.                                                              *)
(***************************************************************************)
EXTENDS Integers, Sequences, Powers

CONSTANTS
    Leaves,       \* the hashes a call may have
    MaxLeaves,    \* bound on the calls of a policy
    H(_, _)       \* poseidon_hash

ASSUME MerkleConstants == Leaves \subseteq Nat /\ MaxLeaves \in Nat

\* What the theorems ask of the hash: it is total, and has no collisions.
HashTyped == \A a \in Nat, b \in Nat : H(a, b) \in Nat
HashBinds ==
    \A a \in Nat, b \in Nat, c \in Nat, d \in Nat :
        H(a, b) = H(c, d) => a = c /\ b = d

VARIABLES
    leaves,   \* the call hashes
    nodes,    \* the level the prover has reached
    index,    \* leaf |-> the place of its ancestor in nodes
    proof,    \* leaf |-> the proof so far
    current,  \* leaf |-> compute_root of the leaf along the proof so far
    others,   \* leaf |-> another hash in its place
    wrong     \* leaf |-> compute_root of the other hash along the same proof

vars == <<leaves, nodes, index, proof, current, others, wrong>>

-----------------------------------------------------------------------------
\* MUTANT: the order of the arguments is kept.
pair_unsorted(left, right) == H(left, right)

\* MUTANT: the larger of the two is hashed with itself.
pair_slip(left, right) == IF left < right THEN H(right, right) ELSE H(left, left)

\* Both the tree and the verifier sort the two nodes they hash.
pair(left, right) == IF left < right THEN H(left, right) ELSE H(right, left)

\* MUTANT: the proof is read from its far end.
compute_root_backwards(leaf, path) ==
    LET node[k \in 0 .. Len(path)] ==
            IF k = 0 THEN leaf ELSE pair(node[k - 1], path[Len(path) + 1 - k])
    IN  node[Len(path)]

\* compute_root: the whole loop of the verifier.
compute_root(leaf, path) ==
    LET node[k \in 0 .. Len(path)] ==
            IF k = 0 THEN leaf ELSE pair(node[k - 1], path[k])
    IN  node[Len(path)]

\* An odd level gets a null node.
padded(level) == IF Len(level) % 2 # 0 THEN Append(level, 0) ELSE level

get_next_level(level) ==
    [i \in 1 .. Len(level) \div 2 |-> pair(level[2 * i - 1], level[2 * i])]

neighbour(i) == IF i % 2 = 1 THEN i + 1 ELSE i - 1

\* MUTANT: rounded down.
parent_floor(i) == i \div 2

parent(i) == (i + 1) \div 2

\* MUTANT: the climb stops at an empty level.
at_top_empty(level) == Len(level) = 0

at_top(level) == Len(level) = 1

Init ==
    /\ leaves \in UNION {[1 .. n -> Leaves] : n \in 1 .. MaxLeaves}
    /\ nodes = leaves
    /\ index = [i \in DOMAIN leaves |-> i]
    /\ proof = [i \in DOMAIN leaves |-> <<>>]
    /\ current = leaves
    /\ others \in [DOMAIN leaves -> Leaves]
    /\ \A i \in DOMAIN leaves : others[i] # leaves[i]
    /\ wrong = others

\* One level of compute_proof, and one round of compute_root.
Climb ==
    /\ ~ at_top(nodes)
    /\ LET level == padded(nodes)
           sibling == [i \in DOMAIN leaves |-> level[neighbour(index[i])]]
       IN  /\ nodes' = get_next_level(level)
           /\ index' = [i \in DOMAIN leaves |-> parent(index[i])]
           /\ proof' = [i \in DOMAIN leaves |-> Append(proof[i], sibling[i])]
           /\ current' = [i \in DOMAIN leaves |-> pair(current[i], sibling[i])]
           /\ wrong' = [i \in DOMAIN leaves |-> pair(wrong[i], sibling[i])]
    /\ UNCHANGED <<leaves, others>>

\* The proofs are complete.
Done == at_top(nodes) /\ UNCHANGED vars

Next == Climb \/ Done

Spec == Init /\ [][Next]_vars

-----------------------------------------------------------------------------
(* Type correctness.                                                       *)
TypeOK ==
    /\ leaves \in Seq(Nat) /\ nodes \in Seq(Nat) /\ Len(nodes) >= 1
    /\ index \in [DOMAIN leaves -> DOMAIN nodes]
    /\ DOMAIN proof = DOMAIN leaves
    /\ current \in [DOMAIN leaves -> Nat]
    /\ others \in [DOMAIN leaves -> Nat]
    /\ wrong \in [DOMAIN leaves -> Nat]

(* The proof of every call leads to one and the same root, so the root that *)
(* set_policy takes from the first call's proof serves all of them.        *)
ProofsReachRoot ==
    Len(nodes) = 1 => \A i \in DOMAIN leaves : current[i] = nodes[1]

(* The two verifiers do what compute_root does with the proof: from the    *)
(* leaf itself, and from the other hash along the proof of the leaf.       *)
InStep ==
    \A i \in DOMAIN leaves :
        /\ current[i] = compute_root(leaves[i], proof[i])
        /\ wrong[i] = compute_root(others[i], proof[i])

(* The proof of one call is no proof of another.                           *)
WrongLeafFails ==
    Len(nodes) = 1 => \A i \in DOMAIN leaves : wrong[i] # nodes[1]

(* All proofs are as long as the tree is high, the logarithm of the number *)
(* of calls rounded up: none at all for a single call.  The contract cuts  *)
(* the flat array of proofs by that one length.                            *)
ProofsAreHigh ==
    Len(nodes) = 1 =>
        \A i \in DOMAIN leaves :
            LET height == Len(proof[i])
            IN  /\ Len(leaves) <= power(2, height)
                /\ height > 0 => power(2, height - 1) < Len(leaves)
=============================================================================
