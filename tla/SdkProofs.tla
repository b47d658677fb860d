----------------------------- MODULE SdkProofs -----------------------------
(***************************************************************************)
(* Proofs about what the SDK computes: the Merkle tree, for policies of    *)
(* every size and every hash that is total and, where it says so, free of  *)
(* collisions; and the serializer, for values of every depth and calls of  *)
(* every number and length.                                                *)
(***************************************************************************)
EXTENDS Merkle, Calldata, Groundwork

-----------------------------------------------------------------------------
(* The Merkle tree.                                                        *)

LEMMA PairTyped ==
    ASSUME HashTyped, NEW a \in Nat, NEW b \in Nat
    PROVE  pair(a, b) \in Nat
BY DEF HashTyped, pair

\* It does not matter which of the two nodes is the verifier's own.
LEMMA PairCommutes ==
    ASSUME NEW a \in Nat, NEW b \in Nat
    PROVE  pair(a, b) = pair(b, a)
<1>1. CASE a < b
  BY <1>1 DEF pair
<1>2. CASE b < a
  BY <1>2 DEF pair
<1>3. CASE a = b
  BY <1>3
<1>4. QED
  BY <1>1, <1>2, <1>3

\* Without collisions, two nodes that hash alike with a third are the same.
LEMMA PairBinds ==
    ASSUME HashBinds, NEW a \in Nat, NEW b \in Nat, NEW c \in Nat,
           pair(a, c) = pair(b, c)
    PROVE  a = b
<1>1. CASE a < c /\ b < c
  BY <1>1 DEF HashBinds, pair
<1>2. CASE a < c /\ ~ (b < c)
  <2>1. H(a, c) = H(c, b)
    BY <1>2 DEF pair
  <2>2. a = c
    BY <2>1 DEF HashBinds
  <2>3. QED
    BY <1>2, <2>2
<1>3. CASE ~ (a < c) /\ b < c
  <2>1. H(c, a) = H(b, c)
    BY <1>3 DEF pair
  <2>2. c = b
    BY <2>1 DEF HashBinds
  <2>3. QED
    BY <1>3, <2>2
<1>4. CASE ~ (a < c) /\ ~ (b < c)
  BY <1>4 DEF HashBinds, pair
<1>5. QED
  BY <1>1, <1>2, <1>3, <1>4

\* A padded level is the level itself, with a null node behind an odd one.
LEMMA PaddedLevel ==
    ASSUME NEW level \in Seq(Nat), Len(level) >= 2
    PROVE  /\ padded(level) \in Seq(Nat)
           /\ Len(padded(level)) % 2 = 0
           /\ Len(padded(level)) >= Len(level)
           /\ \A i \in DOMAIN level : padded(level)[i] = level[i]
<1>1. CASE Len(level) % 2 # 0
  <2>1. padded(level) = Append(level, 0)
    BY <1>1 DEF padded
  <2>2. padded(level) \in Seq(Nat) /\ Len(padded(level)) = Len(level) + 1
    BY <2>1
  <2>3. \A i \in DOMAIN level : padded(level)[i] = level[i]
    BY <2>1
  <2>4. (Len(level) + 1) % 2 = 0
    BY <1>1
  <2>5. QED
    BY <2>2, <2>3, <2>4
<1>2. CASE Len(level) % 2 = 0
  BY <1>2 DEF padded
<1>3. QED
  BY <1>1, <1>2

\* The step up from any node of a level: its neighbour is there, and the two
\* hash to the node above them.
LEMMA StepUp ==
    ASSUME HashTyped, NEW level \in Seq(Nat), Len(level) % 2 = 0,
           NEW i \in 1 .. Len(level)
    PROVE  /\ neighbour(i) \in 1 .. Len(level)
           /\ parent(i) \in 1 .. Len(level) \div 2
           /\ get_next_level(level)[parent(i)] = pair(level[i], level[neighbour(i)])
<1>1. PICK m \in Nat : Len(level) = 2 * m /\ Len(level) \div 2 = m
  BY Z3
<1>2. ASSUME NEW p \in 1 .. m
      PROVE  get_next_level(level)[p] = pair(level[2 * p - 1], level[2 * p])
  BY <1>1 DEF get_next_level
<1>3. CASE i % 2 = 1
  <2>1. neighbour(i) = i + 1 /\ 2 * parent(i) = i + 1
    BY <1>3 DEF neighbour, parent
  <2>2. neighbour(i) \in 1 .. Len(level) /\ parent(i) \in 1 .. m
    BY <1>1, <2>1 DEF parent
  <2>3. get_next_level(level)[parent(i)] = pair(level[i], level[i + 1])
    <3>1. get_next_level(level)[parent(i)] =
              pair(level[2 * parent(i) - 1], level[2 * parent(i)])
      BY <1>2, <2>2
    <3>2. (i + 1) - 1 = i
      OBVIOUS
    <3>3. QED
      BY <2>1, <3>1, <3>2
  <2>4. QED
    BY <1>1, <2>1, <2>2, <2>3
<1>4. CASE i % 2 = 0
  <2>1. neighbour(i) = i - 1 /\ 2 * parent(i) = i
    BY <1>4 DEF neighbour, parent
  <2>2. neighbour(i) \in 1 .. Len(level) /\ parent(i) \in 1 .. m
    BY <1>1, <2>1 DEF parent
  <2>3. get_next_level(level)[parent(i)] = pair(level[i - 1], level[i])
    <3>1. get_next_level(level)[parent(i)] =
              pair(level[2 * parent(i) - 1], level[2 * parent(i)])
      BY <1>2, <2>2
    <3>2. QED
      BY <2>1, <3>1
  <2>4. level[i] \in Nat /\ level[i - 1] \in Nat
    BY <2>1, <2>2
  <2>5. pair(level[i - 1], level[i]) = pair(level[i], level[i - 1])
    BY <2>4, PairCommutes
  <2>6. QED
    BY <1>1, <2>1, <2>2, <2>3, <2>5
<1>5. QED
  BY <1>3, <1>4

LEMMA NextLevelTyped ==
    ASSUME HashTyped, NEW level \in Seq(Nat), Len(level) % 2 = 0, Len(level) >= 2
    PROVE  /\ get_next_level(level) \in Seq(Nat)
           /\ Len(get_next_level(level)) = Len(level) \div 2
           /\ Len(get_next_level(level)) >= 1
<1>1. PICK m \in Nat : Len(level) = 2 * m /\ Len(level) \div 2 = m /\ m >= 1
  BY Z3
<1>2. ASSUME NEW i \in 1 .. m
      PROVE  pair(level[2 * i - 1], level[2 * i]) \in Nat
  <2>1. 2 * i - 1 \in 1 .. Len(level) /\ 2 * i \in 1 .. Len(level)
    BY <1>1
  <2>2. level[2 * i - 1] \in Nat /\ level[2 * i] \in Nat
    BY <2>1
  <2>3. QED
    BY <2>2, PairTyped
<1>3. QED
  BY <1>1, <1>2 DEF get_next_level

-----------------------------------------------------------------------------
(* Each leaf's verifier stands on the leaf's ancestor, whatever its level;  *)
(* the one that started from a wrong leaf never does.                      *)
OnAncestor == \A i \in DOMAIN leaves : current[i] = nodes[index[i]]
OffAncestor == \A i \in DOMAIN leaves : wrong[i] # current[i]

\* What a climb does, level by level, when it happens.
LEMMA ClimbLevel ==
    ASSUME HashTyped, TypeOK, Climb
    PROVE  LET level == padded(nodes)
           IN  /\ level \in Seq(Nat) /\ Len(level) % 2 = 0 /\ Len(level) >= 2
               /\ \A i \in DOMAIN leaves :
                     /\ index[i] \in 1 .. Len(level)
                     /\ level[index[i]] = nodes[index[i]]
                     /\ level[neighbour(index[i])] \in Nat
<1> DEFINE level == padded(nodes)
<1>1. nodes \in Seq(Nat) /\ Len(nodes) >= 2
  <2>1. nodes \in Seq(Nat) /\ Len(nodes) >= 1
    BY DEF TypeOK
  <2>2. Len(nodes) \in Nat
    BY <2>1
  <2>3. Len(nodes) # 1
    BY DEF Climb, at_top
  <2>4. \A k \in Nat : k >= 1 /\ k # 1 => k >= 2
    OBVIOUS
  <2>5. QED
    BY <2>1, <2>2, <2>3, <2>4
<1>2. /\ level \in Seq(Nat) /\ Len(level) % 2 = 0 /\ Len(level) >= Len(nodes)
      /\ \A i \in DOMAIN nodes : level[i] = nodes[i]
  BY <1>1, PaddedLevel
<1>3. Len(level) >= 2
  BY <1>1, <1>2
<1> HIDE DEF level
<1>4. ASSUME NEW i \in DOMAIN leaves
      PROVE  /\ index[i] \in 1 .. Len(level)
             /\ level[index[i]] = nodes[index[i]]
             /\ level[neighbour(index[i])] \in Nat
  <2>1. index[i] \in 1 .. Len(nodes)
    BY <1>1 DEF TypeOK
  <2>2. index[i] \in 1 .. Len(level) /\ level[index[i]] = nodes[index[i]]
    BY <1>1, <1>2, <2>1
  <2>3. neighbour(index[i]) \in 1 .. Len(level)
    BY <1>2, <2>2, StepUp
  <2>4. QED
    BY <1>2, <2>2, <2>3
<1>5. QED
  BY <1>2, <1>3, <1>4 DEF level

LEMMA ClimbKeepsTypes ==
    ASSUME HashTyped, TypeOK, Climb
    PROVE  TypeOK'
<1> DEFINE level == padded(nodes)
<1>1. /\ level \in Seq(Nat) /\ Len(level) % 2 = 0 /\ Len(level) >= 2
      /\ \A i \in DOMAIN leaves :
            index[i] \in 1 .. Len(level) /\ level[neighbour(index[i])] \in Nat
  BY ClimbLevel
<1>2. /\ nodes' = get_next_level(level)
      /\ leaves' = leaves
      /\ index' = [i \in DOMAIN leaves |-> parent(index[i])]
      /\ DOMAIN proof' = DOMAIN leaves
      /\ current' = [i \in DOMAIN leaves |-> pair(current[i], level[neighbour(index[i])])]
      /\ wrong' = [i \in DOMAIN leaves |-> pair(wrong[i], level[neighbour(index[i])])]
      /\ others' = others
  BY DEF Climb
<1> HIDE DEF level
<1>3. /\ nodes' \in Seq(Nat) /\ Len(nodes') >= 1
      /\ DOMAIN nodes' = 1 .. Len(level) \div 2
  <2>1. get_next_level(level) \in Seq(Nat) /\ Len(get_next_level(level)) >= 1
        /\ Len(get_next_level(level)) = Len(level) \div 2
    BY <1>1, NextLevelTyped
  <2>2. QED
    BY <1>2, <2>1
<1>4. \A i \in DOMAIN leaves : parent(index[i]) \in DOMAIN nodes'
  BY <1>1, <1>3, StepUp
<1>5. index' \in [DOMAIN leaves' -> DOMAIN nodes']
  BY <1>2, <1>4
<1>6. current' \in [DOMAIN leaves' -> Nat]
  BY <1>1, <1>2, PairTyped DEF TypeOK
<1>7. /\ wrong' \in [DOMAIN leaves' -> Nat]
      /\ others' \in [DOMAIN leaves' -> Nat]
  BY <1>1, <1>2, PairTyped DEF TypeOK
<1>8. QED
  BY <1>2, <1>3, <1>5, <1>6, <1>7 DEF TypeOK

LEMMA ClimbStaysOnAncestor ==
    ASSUME HashTyped, TypeOK, OnAncestor, Climb
    PROVE  OnAncestor'
<1> DEFINE level == padded(nodes)
<1>1. /\ level \in Seq(Nat) /\ Len(level) % 2 = 0
      /\ \A i \in DOMAIN leaves :
            index[i] \in 1 .. Len(level) /\ level[index[i]] = nodes[index[i]]
  BY ClimbLevel
<1>2. /\ nodes' = get_next_level(level) /\ leaves' = leaves
      /\ index' = [i \in DOMAIN leaves |-> parent(index[i])]
      /\ current' = [i \in DOMAIN leaves |-> pair(current[i], level[neighbour(index[i])])]
  BY DEF Climb
<1> HIDE DEF level
<1>3. ASSUME NEW i \in DOMAIN leaves
      PROVE  current'[i] = nodes'[index'[i]]
  <2>1. nodes'[index'[i]] = pair(level[index[i]], level[neighbour(index[i])])
    BY <1>1, <1>2, StepUp
  <2>2. current[i] = level[index[i]]
    BY <1>1 DEF OnAncestor
  <2>3. QED
    BY <1>2, <2>1, <2>2
<1>4. QED
  BY <1>2, <1>3 DEF OnAncestor

LEMMA ClimbStaysOff ==
    ASSUME HashTyped, HashBinds, TypeOK, OffAncestor, Climb
    PROVE  OffAncestor'
<1> DEFINE level == padded(nodes)
<1>1. \A i \in DOMAIN leaves : level[neighbour(index[i])] \in Nat
  BY ClimbLevel
<1>2. /\ leaves' = leaves
      /\ current' = [i \in DOMAIN leaves |-> pair(current[i], level[neighbour(index[i])])]
      /\ wrong' = [i \in DOMAIN leaves |-> pair(wrong[i], level[neighbour(index[i])])]
  BY DEF Climb
<1> HIDE DEF level
<1>3. ASSUME NEW i \in DOMAIN leaves
      PROVE  wrong'[i] # current'[i]
  <2>1. wrong[i] \in Nat /\ current[i] \in Nat /\ wrong[i] # current[i]
    BY DEF TypeOK, OffAncestor
  <2>2. pair(wrong[i], level[neighbour(index[i])])
          # pair(current[i], level[neighbour(index[i])])
    BY <1>1, <2>1, PairBinds
  <2>3. QED
    BY <1>2, <2>2
<1>4. QED
  BY <1>2, <1>3 DEF OffAncestor

LEMMA InitFacts ==
    ASSUME Init
    PROVE  TypeOK /\ OnAncestor /\ OffAncestor
<1>1. PICK n \in 1 .. MaxLeaves : leaves \in [1 .. n -> Leaves]
  BY DEF Init
<1>2. leaves \in Seq(Nat) /\ Len(leaves) >= 1 /\ DOMAIN leaves = 1 .. n
  <2>1. n \in Nat /\ n >= 1
    BY MerkleConstants
  <2>2. leaves \in [1 .. n -> Nat]
    BY <1>1, MerkleConstants
  <2>3. leaves \in Seq(Nat)
    BY <2>1, <2>2
  <2>4. DOMAIN leaves = 1 .. n /\ Len(leaves) = n
    BY <2>1, <2>2, <2>3
  <2>5. QED
    BY <2>1, <2>3, <2>4
<1>3. QED
  BY <1>2, MerkleConstants DEF Init, TypeOK, OnAncestor, OffAncestor, MerkleConstants

\* Every climb stays within the level: no neighbour is out of its range.
THEOREM MerkleTyped ==
    ASSUME HashTyped
    PROVE  Spec => []TypeOK
<1>1. TypeOK /\ [Next]_vars => TypeOK'
  BY ClimbKeepsTypes DEF Next, Done, vars, TypeOK
<1>2. QED
  BY <1>1, InitFacts, PTL DEF Spec

\* All proofs lead to the one root, for any number of calls and any hash.
THEOREM AllProofsReachRoot ==
    ASSUME HashTyped
    PROVE  Spec => []ProofsReachRoot
<1>1. TypeOK /\ OnAncestor /\ [Next]_vars => OnAncestor'
  BY ClimbStaysOnAncestor DEF Next, Done, vars, OnAncestor
<1>2. TypeOK /\ OnAncestor => ProofsReachRoot
  BY DEF TypeOK, OnAncestor, ProofsReachRoot
<1>3. QED
  BY <1>1, <1>2, InitFacts, MerkleTyped, PTL DEF Spec

\* Where the hash has no collisions, the proof of a call proves no other call.
THEOREM NoOtherLeaf ==
    ASSUME HashTyped, HashBinds
    PROVE  Spec => []WrongLeafFails
<1>1. TypeOK /\ OffAncestor /\ [Next]_vars => OffAncestor'
  BY ClimbStaysOff DEF Next, Done, vars, OffAncestor
<1>2. ProofsReachRoot /\ OffAncestor => WrongLeafFails
  BY DEF ProofsReachRoot, OffAncestor, WrongLeafFails
<1>3. QED
  BY <1>1, <1>2, InitFacts, MerkleTyped, AllProofsReachRoot, PTL DEF Spec

-----------------------------------------------------------------------------
\* The verifier's loop, unrolled: the nodes it passes.
LEMMA RootFunction ==
    ASSUME HashTyped, NEW leaf \in Nat, NEW path \in Seq(Nat)
    PROVE  \E node \in [0 .. Len(path) -> Nat] :
              /\ node[0] = leaf
              /\ \A k \in 1 .. Len(path) : node[k] = pair(node[k - 1], path[k])
              /\ compute_root(leaf, path) = node[Len(path)]
<1> DEFINE n == Len(path)
           step == [k \in Nat |-> [x \in Nat |->
                       IF k \in 1 .. n THEN pair(x, path[k]) ELSE 0]]
           Computes(f) ==
              f = [k \in 0 .. n |-> IF k = 0 THEN leaf ELSE pair(f[k - 1], path[k])]
<1>1. n \in Nat /\ DOMAIN path = 1 .. n
  OBVIOUS
<1>2. step \in [Nat -> [Nat -> Nat]]
  <2>1. ASSUME NEW k \in Nat, NEW x \in Nat
        PROVE  (IF k \in 1 .. n THEN pair(x, path[k]) ELSE 0) \in Nat
    <3>1. CASE k \in 1 .. n
      <4>1. path[k] \in Nat
        BY <3>1
      <4> QED
        BY <3>1, <4>1, PairTyped
    <3> QED
      BY <3>1
  <2> HIDE DEF n
  <2> QED
    BY <2>1
<1>3. PICK f \in [0 .. n -> Nat] : Follows(f, leaf, step, n)
  <2> HIDE DEF n, step
  <2> QED
    BY <1>1, <1>2, RecursionExists, Zenon
<1> HIDE DEF n
<1>4. ASSUME NEW k \in 1 .. n
      PROVE  f[k] = pair(f[k - 1], path[k])
  <2>1. k \in Nat /\ k - 1 \in 0 .. n
    BY <1>1
  <2>2. f[k - 1] \in Nat
    BY <1>3, <2>1
  <2>3. f[k] = step[k][f[k - 1]]
    BY <1>3 DEF Follows
  <2> QED
    BY <2>1, <2>2, <2>3
<1>5. f[0] = leaf
  BY <1>3 DEF Follows
<1> HIDE DEF step
<1>6. Computes(f)
  <2>1. \A k \in 0 .. n : f[k] = IF k = 0 THEN leaf ELSE pair(f[k - 1], path[k])
    BY <1>1, <1>4, <1>5
  <2> QED
    BY <1>3, <2>1
<1> DEFINE g == CHOOSE h : Computes(h)
<1>7. Computes(g)
  <2> HIDE DEF Computes
  <2> QED
    BY <1>6
<1>8. compute_root(leaf, path) = g[n]
  BY DEF compute_root, n
<1>9. \A k \in 0 .. n : f[k] = g[k]
  <2> HIDE DEF g
  <2>1. g[0] = leaf
    BY <1>1, <1>7
  <2>2. ASSUME NEW k \in 1 .. n, f[k - 1] = g[k - 1]
        PROVE  f[k] = g[k]
    BY <1>1, <1>4, <1>7, <2>2
  <2>3. Alike(f, g, n)
    BY <1>5, <2>1, <2>2 DEF Alike
  <2> QED
    BY <1>1, <2>3, RecursionAgrees
<1>10. compute_root(leaf, path) = f[n]
  BY <1>1, <1>8, <1>9
<1> HIDE DEF g, Computes
<1> QED
  BY <1>3, <1>4, <1>5, <1>10 DEF n

\* One more node in the proof is one more round of the verifier.
LEMMA RootOfLongerProof ==
    ASSUME HashTyped, NEW leaf \in Nat, NEW path \in Seq(Nat), NEW node \in Nat
    PROVE  compute_root(leaf, Append(path, node)) = pair(compute_root(leaf, path), node)
<1> DEFINE longer == Append(path, node)
           n == Len(path)
<1>1. /\ longer \in Seq(Nat) /\ Len(longer) = n + 1 /\ n \in Nat
      /\ longer[n + 1] = node
      /\ \A k \in 1 .. n : longer[k] = path[k]
  OBVIOUS
<1> HIDE DEF longer
<1>2. PICK f \in [0 .. n -> Nat] :
          /\ f[0] = leaf
          /\ \A k \in 1 .. n : f[k] = pair(f[k - 1], path[k])
          /\ compute_root(leaf, path) = f[n]
  BY RootFunction, Zenon
<1>3. PICK g \in [0 .. n + 1 -> Nat] :
          /\ g[0] = leaf
          /\ \A k \in 1 .. n + 1 : g[k] = pair(g[k - 1], longer[k])
          /\ compute_root(leaf, longer) = g[n + 1]
  <2>1. \E g \in [0 .. Len(longer) -> Nat] :
            /\ g[0] = leaf
            /\ \A k \in 1 .. Len(longer) : g[k] = pair(g[k - 1], longer[k])
            /\ compute_root(leaf, longer) = g[Len(longer)]
    BY <1>1, RootFunction, Zenon
  <2> QED
    BY <1>1, <2>1
<1> HIDE DEF n
<1>4. \A k \in 0 .. n : f[k] = g[k]
  <2>1. ASSUME NEW k \in 1 .. n, f[k - 1] = g[k - 1]
        PROVE  f[k] = g[k]
    BY <1>1, <1>2, <1>3, <2>1
  <2>2. Alike(f, g, n)
    BY <1>2, <1>3, <2>1 DEF Alike
  <2>3. n \in Nat
    BY <1>1
  <2> QED
    BY <2>2, <2>3, RecursionAgrees
<1>5. g[n + 1] = pair(g[n], node)
  BY <1>1, <1>3
<1> QED
  BY <1>1, <1>2, <1>3, <1>4, <1>5 DEF longer

LEMMA RootOfNoProof ==
    ASSUME HashTyped, NEW leaf \in Nat
    PROVE  compute_root(leaf, <<>>) = leaf
<1> DEFINE path == <<>>
<1>1. path \in Seq(Nat) /\ Len(path) = 0
  OBVIOUS
<1> HIDE DEF path
<1>2. PICK f \in [0 .. Len(path) -> Nat] :
          /\ f[0] = leaf
          /\ \A k \in 1 .. Len(path) : f[k] = pair(f[k - 1], path[k])
          /\ compute_root(leaf, path) = f[Len(path)]
  BY <1>1, RootFunction, Zenon
<1> QED
  BY <1>1, <1>2 DEF path

ProofsTyped == proof \in [DOMAIN leaves -> Seq(Nat)]

LEMMA ClimbKeepsInStep ==
    ASSUME HashTyped, TypeOK, ProofsTyped, InStep, Climb
    PROVE  ProofsTyped' /\ InStep'
<1> DEFINE level == padded(nodes)
           sibling(i) == level[neighbour(index[i])]
<1>1. \A i \in DOMAIN leaves : sibling(i) \in Nat
  BY ClimbLevel
<1>2. /\ leaves' = leaves /\ others' = others
      /\ proof' = [i \in DOMAIN leaves |-> Append(proof[i], sibling(i))]
      /\ current' = [i \in DOMAIN leaves |-> pair(current[i], sibling(i))]
      /\ wrong' = [i \in DOMAIN leaves |-> pair(wrong[i], sibling(i))]
  BY DEF Climb
<1> HIDE DEF level, sibling
<1>3. ProofsTyped'
  BY <1>1, <1>2 DEF ProofsTyped
<1>4. ASSUME NEW i \in DOMAIN leaves
      PROVE  /\ current'[i] = compute_root(leaves[i], proof'[i])
             /\ wrong'[i] = compute_root(others[i], proof'[i])
  <2>1. /\ leaves[i] \in Nat /\ others[i] \in Nat
        /\ proof[i] \in Seq(Nat) /\ sibling(i) \in Nat
    BY <1>1 DEF TypeOK, ProofsTyped
  <2>2. \A leaf \in Nat :
            compute_root(leaf, Append(proof[i], sibling(i)))
                = pair(compute_root(leaf, proof[i]), sibling(i))
    BY <2>1, RootOfLongerProof
  <2>3. /\ current[i] = compute_root(leaves[i], proof[i])
        /\ wrong[i] = compute_root(others[i], proof[i])
    BY DEF InStep
  <2> QED
    BY <1>2, <2>1, <2>2, <2>3
<1> QED
  BY <1>2, <1>3, <1>4 DEF InStep

\* What the two verifiers compute in step with the prover, the one from the leaf
\* and the other from another hash, is what compute_root makes of each of them and
\* the leaf's proof, for proofs of every length.
THEOREM VerifierInStep ==
    ASSUME HashTyped
    PROVE  Spec => []InStep
<1>1. Init => ProofsTyped /\ InStep
  <2> SUFFICES ASSUME Init PROVE ProofsTyped /\ InStep
    OBVIOUS
  <2>1. \A i \in DOMAIN leaves : leaves[i] \in Nat /\ others[i] \in Nat
    BY InitFacts DEF TypeOK
  <2>2. /\ proof = [i \in DOMAIN leaves |-> <<>>]
        /\ current = leaves /\ wrong = others
    BY DEF Init
  <2> QED
    BY <2>1, <2>2, RootOfNoProof DEF ProofsTyped, InStep
<1>2. TypeOK /\ ProofsTyped /\ InStep /\ [Next]_vars => ProofsTyped' /\ InStep'
  BY ClimbKeepsInStep DEF Next, Done, vars, ProofsTyped, InStep
<1> QED
  BY <1>1, <1>2, MerkleTyped, PTL DEF Spec

-----------------------------------------------------------------------------
\* So many levels up, each node stands for power(2, h) leaves, the last one for
\* at least one of them.
CoversLeaves ==
    \A i \in DOMAIN leaves :
        LET h == Len(proof[i])
        IN  /\ (Len(nodes) - 1) * power(2, h) < Len(leaves)
            /\ Len(leaves) <= Len(nodes) * power(2, h)
            /\ h > 0 => power(2, h - 1) < Len(leaves)

\* A level of half the length, rounded up, covers as many leaves.
LEMMA HalfCovers ==
    ASSUME NEW n \in Nat, n >= 2, NEW m \in Nat, 2 * m = n \/ 2 * m = n + 1,
           NEW p \in Nat, NEW count \in Nat,
           (n - 1) * p < count, count <= n * p
    PROVE  (m - 1) * (2 * p) < count /\ count <= m * (2 * p) /\ p < count
<1>1. n * p <= (2 * m) * p
  OBVIOUS
<1>2. (2 * m - 2) * p <= (n - 1) * p
  <2>1. 2 * m - 2 \in Nat /\ n - 1 \in Nat /\ 2 * m - 2 <= n - 1
    OBVIOUS
  <2>2. \A x \in Nat, y \in Nat : x <= y => x * p <= y * p
    OBVIOUS
  <2> QED
    BY <2>1, <2>2
<1>3. p <= (n - 1) * p
  <2>1. \A y \in Nat : 1 <= y => p <= y * p
    OBVIOUS
  <2> QED
    BY <2>1
<1>4. (2 * m) * p = m * (2 * p) /\ (2 * m - 2) * p = (m - 1) * (2 * p)
  OBVIOUS
<1> DEFINE x == (2 * m) * p
           y == (2 * m - 2) * p
           u == n * p
           v == (n - 1) * p
<1>5. x \in Int /\ y \in Int /\ u \in Int /\ v \in Int
  OBVIOUS
<1>6. u <= x /\ y <= v /\ p <= v /\ v < count /\ count <= u
  BY <1>1, <1>2, <1>3
<1>7. x = m * (2 * p) /\ y = (m - 1) * (2 * p)
  BY <1>4
<1> HIDE DEF x, y, u, v
<1>8. y < count /\ count <= x /\ p < count
  BY <1>5, <1>6
<1> QED
  BY <1>7, <1>8

LEMMA ClimbCoversLeaves ==
    ASSUME HashTyped, TypeOK, ProofsTyped, CoversLeaves, Climb
    PROVE  CoversLeaves'
<1> DEFINE level == padded(nodes)
           sibling(i) == level[neighbour(index[i])]
           n == Len(nodes)
           m == Len(nodes')
<1>1. /\ leaves' = leaves
      /\ proof' = [i \in DOMAIN leaves |-> Append(proof[i], sibling(i))]
      /\ nodes' = get_next_level(level)
  BY DEF Climb
<1>2. nodes \in Seq(Nat) /\ n \in Nat /\ n >= 2 /\ leaves \in Seq(Nat)
  <2>1. nodes \in Seq(Nat) /\ n >= 1 /\ leaves \in Seq(Nat)
    BY DEF TypeOK
  <2>2. n \in Nat
    BY <2>1
  <2>3. n # 1
    BY DEF Climb, at_top
  <2> HIDE DEF n
  <2>4. n >= 2
    BY <2>1, <2>2, <2>3
  <2> QED
    BY <2>1, <2>2, <2>4
<1>3. m \in Nat /\ (2 * m = n \/ 2 * m = n + 1)
  <2>1. level \in Seq(Nat) /\ Len(level) % 2 = 0 /\ Len(level) >= 2
    BY ClimbLevel
  <2>2. m = Len(level) \div 2
    BY <1>1, <2>1, NextLevelTyped
  <2>3. Len(level) = n \/ Len(level) = n + 1
    BY <1>2 DEF padded
  <2> HIDE DEF level, m
  <2>4. Len(level) \in Nat
    BY <2>1
  <2> QED
    BY <2>1, <2>2, <2>4, <2>3
<1> HIDE DEF level, sibling, m
<1>4. ASSUME NEW i \in DOMAIN leaves
      PROVE  LET h == Len(proof'[i])
             IN  /\ (m - 1) * power(2, h) < Len(leaves)
                 /\ Len(leaves) <= m * power(2, h)
                 /\ h > 0 => power(2, h - 1) < Len(leaves)
  <2> DEFINE h == Len(proof[i])
             p == power(2, h)
  <2>1. proof[i] \in Seq(Nat) /\ h \in Nat
    BY DEF ProofsTyped
  <2>2. Len(proof'[i]) = h + 1
    <3>1. \A path \in Seq(Nat) : \A x : Len(Append(path, x)) = Len(path) + 1
      OBVIOUS
    <3> QED
      BY <1>1, <2>1, <3>1
  <2>3. p \in Nat /\ power(2, h + 1) = 2 * p
    BY <2>1, PowerTyped, PowerNext
  <2>4. (n - 1) * p < Len(leaves) /\ Len(leaves) <= n * p
    BY DEF CoversLeaves
  <2>5. Len(leaves) \in Nat
    BY <1>2
  <2> HIDE DEF h, p, n
  <2>6. (m - 1) * (2 * p) < Len(leaves) /\ Len(leaves) <= m * (2 * p) /\ p < Len(leaves)
    BY <1>2, <1>3, <2>3, <2>4, <2>5, HalfCovers
  <2>7. (h + 1) - 1 = h
    BY <2>1
  <2> QED
    BY <2>2, <2>3, <2>6, <2>7 DEF p
<1> QED
  BY <1>1, <1>4 DEF CoversLeaves, m

\* Every proof is as long as the tree is high, for any number of calls: a level
\* more would be a level of one node, a level less would not hold the leaves.
THEOREM ProofsAsHighAsTree ==
    ASSUME HashTyped
    PROVE  Spec => []ProofsAreHigh
<1>1. Init => ProofsTyped /\ CoversLeaves
  <2> SUFFICES ASSUME Init PROVE ProofsTyped /\ CoversLeaves
    OBVIOUS
  <2>1. proof = [i \in DOMAIN leaves |-> <<>>] /\ nodes = leaves
    BY DEF Init
  <2>2. leaves \in Seq(Nat) /\ Len(leaves) \in Nat
    BY InitFacts DEF TypeOK
  <2>3. power(2, 0) = 1
    BY PowerZero
  <2>4. ProofsTyped
    BY <2>1 DEF ProofsTyped
  <2>5. (Len(nodes) - 1) * 1 < Len(leaves) /\ Len(leaves) <= Len(nodes) * 1
    BY <2>1, <2>2
  <2> QED
    BY <2>1, <2>3, <2>4, <2>5 DEF CoversLeaves
<1>2. TypeOK /\ ProofsTyped /\ [Next]_vars => ProofsTyped'
  <2> SUFFICES ASSUME TypeOK, ProofsTyped, [Next]_vars PROVE ProofsTyped'
    OBVIOUS
  <2>1. CASE Climb
    <3>1. \A i \in DOMAIN leaves : padded(nodes)[neighbour(index[i])] \in Nat
      BY <2>1, ClimbLevel
    <3> QED
      BY <2>1, <3>1 DEF Climb, ProofsTyped
  <2>2. CASE UNCHANGED vars
    BY <2>2 DEF vars, ProofsTyped
  <2> QED
    BY <2>1, <2>2 DEF Next, Done
<1>3. TypeOK /\ ProofsTyped /\ CoversLeaves /\ [Next]_vars => CoversLeaves'
  BY ClimbCoversLeaves DEF Next, Done, vars, CoversLeaves
<1>4. TypeOK /\ ProofsTyped /\ CoversLeaves => ProofsAreHigh
  <2> SUFFICES ASSUME TypeOK, ProofsTyped, CoversLeaves, Len(nodes) = 1,
                      NEW i \in DOMAIN leaves
               PROVE  LET height == Len(proof[i])
                      IN  /\ Len(leaves) <= power(2, height)
                          /\ height > 0 => power(2, height - 1) < Len(leaves)
    BY DEF ProofsAreHigh
  <2> DEFINE h == Len(proof[i])
  <2>1. power(2, h) \in Nat
    <3>1. h \in Nat
      BY DEF ProofsTyped
    <3> QED
      BY <3>1, PowerTyped
  <2>2. Len(leaves) <= 1 * power(2, h) /\ (h > 0 => power(2, h - 1) < Len(leaves))
    BY DEF CoversLeaves
  <2> QED
    BY <2>1, <2>2
<1> QED
  BY <1>1, <1>2, <1>3, <1>4, MerkleTyped, PTL DEF Spec

-----------------------------------------------------------------------------
(* What a value is made of.                                                *)

\* The levels of a value's parts, as Parts builds them.
Levels(f, v, n) ==
    f = [d \in 0 .. n |-> IF d = 0 THEN {v} ELSE AllItems(f[d - 1])]

LEMMA LevelsExist ==
    ASSUME NEW v, NEW m \in Nat
    PROVE  \E f : Levels(f, v, m)
<1> DEFINE S == {n \in Nat : \E f : Levels(f, v, n)}
<1>1. 0 \in S
  <2>1. Levels([d \in 0 .. 0 |-> {v}], v, 0)
    BY DEF Levels
  <2>2. QED
    BY <2>1
<1>2. ASSUME NEW n \in Nat, n \in S
      PROVE  n + 1 \in S
  <2>1. PICK f : Levels(f, v, n)
    BY <1>2
  <2> DEFINE g == [d \in 0 .. n + 1 |-> IF d = n + 1 THEN AllItems(f[n]) ELSE f[d]]
  <2>2. \A d \in 0 .. n : f[d] = IF d = 0 THEN {v} ELSE AllItems(f[d - 1])
    BY <2>1 DEF Levels
  <2>3. ASSUME NEW d \in 0 .. n + 1
        PROVE  g[d] = IF d = 0 THEN {v} ELSE AllItems(g[d - 1])
    <3>1. CASE d = n + 1
      <4>1. g[d] = AllItems(f[n]) /\ g[d - 1] = f[n] /\ d # 0
        BY <3>1
      <4>2. QED
        BY <4>1
    <3>2. CASE d \in 0 .. n
      <4>1. g[d] = f[d] /\ (d # 0 => g[d - 1] = f[d - 1])
        BY <3>2
      <4>2. QED
        BY <2>2, <3>2, <4>1
    <3>3. QED
      BY <3>1, <3>2
  <2>4. Levels(g, v, n + 1)
    BY <2>3 DEF Levels
  <2> HIDE DEF g
  <2>5. \E h : Levels(h, v, n + 1)
    BY <2>4
  <2>6. QED
    BY <2>5
<1>3. Nat \subseteq S
  <2> HIDE DEF S
  <2>1. QED
    BY <1>1, <1>2, SetInduction
<1>4. QED
  BY <1>3

LEMMA PartsLevels ==
    ASSUME NEW v
    PROVE  /\ MaxDepth \in Nat
           /\ \E f : Levels(f, v, MaxDepth) /\ Parts(v) = UNION {f[d] : d \in 0 .. MaxDepth}
<1> DEFINE g == CHOOSE h : Levels(h, v, MaxDepth)
<1>1. MaxDepth \in Nat
  BY ValuesTyped DEF ValuesTyped
<1>2. Levels(g, v, MaxDepth)
  BY <1>1, LevelsExist
<1>3. Parts(v) = UNION {g[d] : d \in 0 .. MaxDepth}
  BY DEF Parts, Levels
<1> HIDE DEF g
<1>4. QED
  BY <1>1, <1>2, <1>3

\* A value is one of its parts.
LEMMA PartOfItself == ASSUME NEW v PROVE v \in Parts(v)
<1>1. PICK f : Levels(f, v, MaxDepth) /\ Parts(v) = UNION {f[d] : d \in 0 .. MaxDepth}
  BY PartsLevels
<1>2. MaxDepth \in Nat
  BY PartsLevels
<1>3. f[0] = {v} /\ 0 \in 0 .. MaxDepth
  BY <1>1, <1>2 DEF Levels
<1>4. QED
  BY <1>1, <1>3

\* Whatever has the value and the items of all it has, has all its parts.
Closed(S) == \A w \in S : ItemsOf(w) \subseteq S

LEMMA PartsLeast ==
    ASSUME NEW v, NEW S, v \in S, Closed(S)
    PROVE  Parts(v) \subseteq S
<1>1. PICK f : Levels(f, v, MaxDepth) /\ Parts(v) = UNION {f[d] : d \in 0 .. MaxDepth}
  BY PartsLevels
<1>2. MaxDepth \in Nat
  BY PartsLevels
<1>3. f[0] = {v} /\ \A d \in 1 .. MaxDepth : f[d] = AllItems(f[d - 1])
  <2>1. \A d \in 0 .. MaxDepth : f[d] = IF d = 0 THEN {v} ELSE AllItems(f[d - 1])
    BY <1>1 DEF Levels
  <2>2. 0 \in 0 .. MaxDepth /\ \A d \in 1 .. MaxDepth : d \in 0 .. MaxDepth /\ d # 0
    BY <1>2
  <2>3. QED
    BY <2>1, <2>2
<1> DEFINE Below == {n \in Nat : n <= MaxDepth => f[n] \subseteq S}
<1>4. 0 \in Below
  BY <1>3
<1>5. ASSUME NEW n \in Nat, n \in Below
      PROVE  n + 1 \in Below
  <2>1. SUFFICES ASSUME n + 1 <= MaxDepth PROVE f[n + 1] \subseteq S
    OBVIOUS
  <2>2. n + 1 \in 1 .. MaxDepth /\ (n + 1) - 1 = n
    BY <1>2, <2>1
  <2>3. f[n + 1] = AllItems(f[n])
    BY <1>3, <2>2
  <2>4. f[n] \subseteq S
    BY <1>2, <1>5, <2>1
  <2>5. AllItems(f[n]) \subseteq S
    BY <2>4 DEF AllItems, Closed
  <2>6. QED
    BY <2>3, <2>5
<1>6. Nat \subseteq Below
  <2> HIDE DEF Below
  <2>1. QED
    BY <1>4, <1>5, SetInduction
<1>7. \A d \in 0 .. MaxDepth : f[d] \subseteq S
  BY <1>2, <1>6
<1>8. QED
  BY <1>1, <1>7

-----------------------------------------------------------------------------
(* Nothing is refused but for a part without encoding, and none is missed. *)

\* What is still to be written lies in S: the value in hand and the rests of the
\* compounds begun.
Awaits(S) ==
    /\ value # NoValue => value \in S
    /\ \A k \in DOMAIN frames : \A j \in DOMAIN frames[k].rest : frames[k].rest[j] \in S

SerializerTyped ==
    LET all == Parts(input.value)
    IN  /\ input \in Inputs
        /\ value \in all \union {NoValue}
        /\ frames \in Seq([kind : Compounds, rest : Seq(all)])
        /\ outcome \in {"Serializing", "Returned"} \union Errors
        /\ value # NoValue => outcome = "Serializing"
        /\ outcome = "Returned" => value = NoValue /\ frames = <<>>

\* Whatever has the parts still to be written and is closed has every part that
\* has no encoding.
NoneMissed ==
    \A S \in SUBSET Parts(input.value) :
        Closed(S) /\ Awaits(S) => \A w \in Parts(input.value) \ S : Encodable(w)

RefusalInv ==
    /\ SerializerTyped
    /\ outcome \notin Errors => NoneMissed
    /\ outcome \in Errors => \E w \in Parts(input.value) : ~ Encodable(w)

LEMMA PartsTyped ==
    ASSUME NEW i \in Inputs, NEW v \in Parts(i.value)
    PROVE  /\ v # NoValue
           /\ v.kind \in UnsignedInts \union {"str"} \union Unsupported \union Compounds
           /\ v.kind \in Compounds =>
                  /\ v.items \in Seq(Parts(i.value))
                  /\ ItemsOf(v) = {v.items[k] : k \in 1 .. Len(v.items)}
           /\ v.kind \notin Compounds => ItemsOf(v) = {}
           /\ v.kind = "newtype_struct" => Len(v.items) = 1
<1>1. WellFormed(v, Parts(i.value))
  BY ValuesTyped DEF ValuesTyped
<1>2. v.kind \in Compounds => DOMAIN v.items = 1 .. Len(v.items)
  BY <1>1 DEF WellFormed
<1>3. QED
  BY <1>1, <1>2 DEF WellFormed, ItemsOf

LEMMA RefusalInit ==
    ASSUME SerializerInit
    PROVE  RefusalInv
<1>1. input \in Inputs /\ value = input.value /\ frames = <<>> /\ outcome = "Serializing"
  BY DEF SerializerInit
<1>2. SerializerTyped
  <2>1. value \in Parts(input.value)
    BY <1>1, PartOfItself
  <2>2. <<>> \in Seq([kind : Compounds, rest : Seq(Parts(input.value))])
    OBVIOUS
  <2>3. QED
    BY <1>1, <2>1, <2>2 DEF SerializerTyped
<1>3. NoneMissed
  <2>1. SUFFICES ASSUME NEW S \in SUBSET Parts(input.value), Closed(S), Awaits(S)
                 PROVE  Parts(input.value) \subseteq S
    BY DEF NoneMissed
  <2>2. value # NoValue
    <3>1. value \in Parts(input.value)
      BY <1>1, PartOfItself
    <3>2. QED
      BY <1>1, <3>1, PartsTyped
  <2>3. input.value \in S
    BY <1>1, <2>1, <2>2 DEF Awaits
  <2>4. QED
    BY <2>1, <2>3, PartsLeast
<1>4. QED
  BY <1>1, <1>2, <1>3 DEF RefusalInv, Errors

\* The value in hand is done with: it has an encoding, and its items, if it has
\* any, are among what is still to be written.
LEMMA ValueDone ==
    ASSUME RefusalInv, value # NoValue, Encodable(value), UNCHANGED input,
           \A S \in SUBSET Parts(input.value) :
               Awaits(S)' => ItemsOf(value) \subseteq S
                             /\ \A k \in DOMAIN frames : \A j \in DOMAIN frames[k].rest :
                                    frames[k].rest[j] \in S
    PROVE  NoneMissed'
<1> DEFINE all == Parts(input.value)
<1>1. value \in all /\ NoneMissed
  BY DEF RefusalInv, SerializerTyped, Errors
<1>2. SUFFICES ASSUME NEW S \in SUBSET all, Closed(S), Awaits(S)',
                      NEW w \in all \ S
               PROVE  Encodable(w)
  BY DEF NoneMissed
<1> DEFINE T == S \union {value}
<1>3. T \in SUBSET all
  BY <1>1
<1>4. ItemsOf(value) \subseteq S
      /\ \A k \in DOMAIN frames : \A j \in DOMAIN frames[k].rest : frames[k].rest[j] \in S
  BY <1>2
<1>5. Closed(T)
  BY <1>2, <1>4 DEF Closed
<1>6. Awaits(T)
  BY <1>4 DEF Awaits
<1>7. w = value \/ w \in all \ T
  BY <1>2
<1> HIDE DEF T, all
<1>8. CASE w \in all \ T
  BY <1>1, <1>3, <1>5, <1>6, <1>8 DEF NoneMissed, all
<1>9. QED
  BY <1>7, <1>8

\* Nothing new is met.
LEMMA NothingMet ==
    ASSUME RefusalInv, outcome \notin Errors, UNCHANGED input,
           \A S \in SUBSET Parts(input.value) : Awaits(S)' => Awaits(S)
    PROVE  NoneMissed'
BY DEF RefusalInv, NoneMissed

LEMMA FailKeepsInv ==
    ASSUME RefusalInv, value # NoValue, ~ Encodable(value), NEW error \in Errors, Fail(error)
    PROVE  RefusalInv'
<1>1. outcome' = error /\ value' = NoValue /\ frames' = <<>> /\ input' = input
  BY DEF Fail
<1>2. SerializerTyped'
  BY <1>1 DEF RefusalInv, SerializerTyped, Errors
<1>3. value \in Parts(input.value)
  BY DEF RefusalInv, SerializerTyped
<1>4. QED
  BY <1>1, <1>2, <1>3 DEF RefusalInv

LEMMA PushKeepsInv ==
    ASSUME RefusalInv, value # NoValue, Encodable(value), value.kind \notin Compounds,
           NEW number, Push(number)
    PROVE  RefusalInv'
<1>1. value' = NoValue /\ UNCHANGED <<input, frames, outcome>> /\ outcome = "Serializing"
      /\ value \in Parts(input.value) /\ input \in Inputs
  BY DEF Push, RefusalInv, SerializerTyped
<1>2. ItemsOf(value) = {}
  BY <1>1, PartsTyped
<1>3. NoneMissed'
  BY <1>1, <1>2, ValueDone DEF Awaits
<1>4. SerializerTyped'
  BY <1>1 DEF RefusalInv, SerializerTyped
<1>5. QED
  BY <1>1, <1>3, <1>4 DEF RefusalInv, Errors

LEMMA BeginKeepsInv ==
    ASSUME RefusalInv, value # NoValue, Encodable(value), value.kind \in Compounds,
           NEW prefix, Begin(prefix)
    PROVE  RefusalInv'
<1> DEFINE all == Parts(input.value)
           frame == [kind |-> value.kind, rest |-> value.items]
<1>1. value' = NoValue /\ frames' = <<frame>> \o frames
      /\ UNCHANGED <<input, outcome>> /\ outcome = "Serializing"
      /\ value \in all /\ input \in Inputs
      /\ frames \in Seq([kind : Compounds, rest : Seq(all)])
  BY DEF Begin, RefusalInv, SerializerTyped
<1>2. value.items \in Seq(all) /\ ItemsOf(value) = {value.items[k] : k \in 1 .. Len(value.items)}
  BY <1>1, PartsTyped
<1>3. frame \in [kind : Compounds, rest : Seq(all)]
  BY <1>2
<1>4. frames' \in Seq([kind : Compounds, rest : Seq(all)])
  BY <1>1, <1>3
<1>5. /\ 1 \in DOMAIN frames' /\ frames'[1] = frame
      /\ \A k \in DOMAIN frames : k + 1 \in DOMAIN frames' /\ frames'[k + 1] = frames[k]
  BY <1>1, <1>3
<1>6. frame.rest = value.items
  OBVIOUS
<1>7. DOMAIN value.items = 1 .. Len(value.items)
  BY <1>2
<1> HIDE DEF frame, all
<1>8. ASSUME NEW S, Awaits(S)'
      PROVE  /\ ItemsOf(value) \subseteq S
             /\ \A k \in DOMAIN frames : \A j \in DOMAIN frames[k].rest :
                    frames[k].rest[j] \in S
  BY <1>2, <1>5, <1>6, <1>7, <1>8 DEF Awaits
<1>9. NoneMissed'
  BY <1>1, <1>8, ValueDone
<1>10. SerializerTyped'
  BY <1>1, <1>4 DEF RefusalInv, SerializerTyped, all
<1>11. QED
  BY <1>1, <1>9, <1>10 DEF RefusalInv, Errors

LEMMA NewtypeKeepsInv ==
    ASSUME RefusalInv, serialize_newtype_struct
    PROVE  RefusalInv'
<1>1. value # NoValue /\ value.kind = "newtype_struct" /\ value' = value.items[1]
      /\ UNCHANGED <<input, frames, output, outcome>>
  BY DEF serialize_newtype_struct
<1>2. value \in Parts(input.value) /\ input \in Inputs /\ outcome = "Serializing"
  BY <1>1 DEF RefusalInv, SerializerTyped
<1>3. /\ value.items \in Seq(Parts(input.value)) /\ Len(value.items) = 1
      /\ ItemsOf(value) = {value.items[k] : k \in 1 .. Len(value.items)}
  BY <1>1, <1>2, PartsTyped DEF Compounds
<1>4. value' \in Parts(input.value) /\ ItemsOf(value) = {value'}
  BY <1>1, <1>3
<1>5. value' # NoValue
  BY <1>2, <1>4, PartsTyped
<1>6. Encodable(value)
  BY <1>1 DEF Encodable, Compounds
<1>7. NoneMissed'
  BY <1>1, <1>4, <1>5, <1>6, ValueDone DEF Awaits
<1>8. SerializerTyped'
  BY <1>1, <1>2, <1>4 DEF RefusalInv, SerializerTyped
<1>9. QED
  BY <1>1, <1>2, <1>7, <1>8 DEF RefusalInv, Errors

\* The first part of the innermost compound is handed over.
LEMMA NextPartKeepsInv ==
    ASSUME RefusalInv, NEW kind, NextPart(kind)
    PROVE  RefusalInv'
<1> DEFINE all == Parts(input.value)
           Frame == [kind : Compounds, rest : Seq(all)]
           rest == frames[1].rest
           frame == [kind |-> kind, rest |-> Tail(rest)]
<1>1. /\ outcome = "Serializing" /\ value = NoValue /\ frames # <<>>
      /\ UNCHANGED <<input, output, outcome>>
  BY DEF NextPart
<1>2. input \in Inputs /\ frames \in Seq(Frame)
  BY DEF RefusalInv, SerializerTyped
<1>3. 1 \in DOMAIN frames /\ Head(frames) = frames[1] /\ frames[1] \in Frame
  <2> HIDE DEF Frame
  <2>1. QED
    BY <1>1, <1>2
<1>4. rest \in Seq(all) /\ frames[1].kind \in Compounds
  BY <1>3
<1>5. frames[1].kind = kind /\ rest # <<>> /\ value' = Head(rest)
      /\ frames' = <<frame>> \o Tail(frames)
  <2>1. Head(frames).kind = kind /\ Head(frames).rest # <<>>
        /\ value' = Head(Head(frames).rest)
        /\ frames' = <<[kind |-> kind, rest |-> Tail(Head(frames).rest)]>> \o Tail(frames)
    BY DEF NextPart
  <2>2. QED
    BY <1>3, <2>1
<1> HIDE DEF rest
<1>6. Tail(rest) \in Seq(all) /\ value' \in all
      /\ 1 \in DOMAIN rest /\ rest[1] = value'
      /\ \A j \in DOMAIN rest \ {1} : j - 1 \in DOMAIN Tail(rest) /\ Tail(rest)[j - 1] = rest[j]
  <2> HIDE DEF all
  <2>1. QED
    BY <1>4, <1>5
<1>7. frame \in Frame
  BY <1>4, <1>5, <1>6
<1>8. frame.rest = Tail(rest)
  OBVIOUS
<1> HIDE DEF frame, Frame
<1>9. /\ frames' \in Seq(Frame)
      /\ 1 \in DOMAIN frames' /\ frames'[1] = frame
      /\ \A k \in DOMAIN frames \ {1} : k \in DOMAIN frames' /\ frames'[k] = frames[k]
  BY <1>1, <1>2, <1>5, <1>7
<1> HIDE DEF all
<1>10. value' # NoValue
  BY <1>2, <1>6, PartsTyped DEF all
<1>11. ASSUME NEW S, Awaits(S)'
      PROVE  Awaits(S)
  <2>1. value' \in S
    BY <1>10, <1>11 DEF Awaits
  <2>2. \A j \in DOMAIN Tail(rest) : Tail(rest)[j] \in S
    BY <1>8, <1>9, <1>11 DEF Awaits
  <2>3. \A j \in DOMAIN rest : rest[j] \in S
    BY <1>6, <2>1, <2>2
  <2>4. \A k \in DOMAIN frames \ {1} : \A j \in DOMAIN frames[k].rest : frames[k].rest[j] \in S
    BY <1>9, <1>11 DEF Awaits
  <2>5. \A j \in DOMAIN frames[1].rest : frames[1].rest[j] \in S
    BY <2>3 DEF rest
  <2>6. QED
    BY <1>1, <2>4, <2>5 DEF Awaits
<1>12. NoneMissed'
  BY <1>1, <1>11, NothingMet DEF Errors
<1>13. SerializerTyped'
  BY <1>1, <1>2, <1>6, <1>9 DEF SerializerTyped, all, Frame
<1>14. QED
  BY <1>1, <1>12, <1>13 DEF RefusalInv, Errors

LEMMA EndKeepsInv ==
    ASSUME RefusalInv, end
    PROVE  RefusalInv'
<1> DEFINE all == Parts(input.value)
<1>1. /\ outcome = "Serializing" /\ value = NoValue /\ frames # <<>>
      /\ Head(frames).rest = <<>> /\ frames' = Tail(frames)
      /\ UNCHANGED <<input, value, output, outcome>>
  BY DEF end
<1>2. input \in Inputs /\ frames \in Seq([kind : Compounds, rest : Seq(all)])
  BY DEF RefusalInv, SerializerTyped
<1>3. frames' \in Seq([kind : Compounds, rest : Seq(all)])
  BY <1>1, <1>2
<1>4. frames[1].rest = <<>>
  BY <1>1, <1>2
<1>5. \A k \in DOMAIN frames \ {1} : k - 1 \in DOMAIN frames' /\ frames'[k - 1] = frames[k]
  BY <1>1, <1>2
<1>6. ASSUME NEW S, Awaits(S)'
      PROVE  Awaits(S)
  <2>1. \A j \in DOMAIN frames[1].rest : FALSE
    BY <1>4
  <2>2. \A k \in DOMAIN frames \ {1} : \A j \in DOMAIN frames[k].rest : frames[k].rest[j] \in S
    BY <1>5, <1>6 DEF Awaits
  <2>3. QED
    BY <1>1, <2>1, <2>2 DEF Awaits
<1>7. NoneMissed'
  BY <1>1, <1>6, NothingMet DEF Errors
<1>8. SerializerTyped'
  BY <1>1, <1>2, <1>3 DEF SerializerTyped
<1>9. QED
  BY <1>1, <1>7, <1>8 DEF RefusalInv, Errors

LEMMA RefusalNext ==
    ASSUME RefusalInv, [SerializerNext]_serializer
    PROVE  RefusalInv'
<1>0. value # NoValue => outcome = "Serializing" /\ input \in Inputs
  BY DEF RefusalInv, SerializerTyped
<1>1. CASE serialize_u64
  <2>1. value # NoValue /\ value.kind \in UnsignedInts /\ Push(value.number)
    BY <1>1 DEF serialize_u64
  <2>2. Encodable(value) /\ value.kind \notin Compounds
    BY <2>1 DEF Encodable, UnsignedInts, Compounds
  <2>3. QED
    BY <2>1, <2>2, PushKeepsInv
<1>2. CASE serialize_str
  <2>1. value # NoValue /\ value.kind = "str"
    BY <1>2 DEF serialize_str
  <2>2. CASE from_str[value.text] = NotAFelt /\ Fail("Message")
    <3>1. ~ Encodable(value)
      BY <2>1, <2>2 DEF Encodable, UnsignedInts, Compounds
    <3>2. "Message" \in Errors
      BY DEF Errors
    <3>3. QED
      BY <2>1, <2>2, <3>1, <3>2, FailKeepsInv
  <2>3. CASE from_str[value.text] # NotAFelt /\ Push(from_str[value.text])
    <3>1. Encodable(value) /\ value.kind \notin Compounds
      BY <2>1, <2>3 DEF Encodable, Compounds
    <3>2. QED
      BY <2>1, <2>3, <3>1, PushKeepsInv
  <2>4. QED
    BY <1>2, <2>2, <2>3 DEF serialize_str
<1>3. CASE unsupported
  <2>1. value # NoValue /\ value.kind \in Unsupported /\ Fail("TypeNotSupported")
    BY <1>3 DEF unsupported
  <2>2. ~ Encodable(value)
    BY <2>1 DEF Encodable, UnsignedInts, Compounds, Unsupported, SignedInts, FloatsAndChar,
              BytesAndOptions, NewtypeVariants, TuplesByName, StructVariants
  <2>3. "TypeNotSupported" \in Errors
    BY DEF Errors
  <2>4. QED
    BY <2>1, <2>2, <2>3, FailKeepsInv
<1>4. CASE serialize_newtype_struct
  BY <1>4, NewtypeKeepsInv
<1>5. CASE serialize_seq
  <2>1. value # NoValue /\ value.kind = "seq"
    BY <1>5 DEF serialize_seq
  <2>2. CASE value.len = NoLen /\ Fail("UnknownLength")
    <3>1. ~ Encodable(value)
      BY <2>1, <2>2 DEF Encodable, UnsignedInts
    <3>2. "UnknownLength" \in Errors
      BY DEF Errors
    <3>3. QED
      BY <2>1, <2>2, <3>1, <3>2, FailKeepsInv
  <2>3. CASE value.len # NoLen /\ Begin(<<value.len>>)
    <3>1. Encodable(value) /\ value.kind \in Compounds
      BY <2>1, <2>3 DEF Encodable, Compounds
    <3>2. QED
      BY <2>1, <2>3, <3>1, BeginKeepsInv
  <2>4. QED
    BY <1>5, <2>2, <2>3 DEF serialize_seq
<1>6. CASE serialize_tuple
  <2>1. value # NoValue /\ value.kind = "tuple" /\ Begin(<<>>)
    BY <1>6 DEF serialize_tuple
  <2>2. Encodable(value) /\ value.kind \in Compounds
    BY <2>1 DEF Encodable, Compounds
  <2>3. QED
    BY <2>1, <2>2, BeginKeepsInv
<1>7. CASE serialize_struct
  <2>1. value # NoValue /\ value.kind = "struct" /\ Begin(<<>>)
    BY <1>7 DEF serialize_struct
  <2>2. Encodable(value) /\ value.kind \in Compounds
    BY <2>1 DEF Encodable, Compounds
  <2>3. QED
    BY <2>1, <2>2, BeginKeepsInv
<1>8. CASE SeqElement
  BY <1>8, NextPartKeepsInv DEF SeqElement
<1>9. CASE TupleElement
  BY <1>9, NextPartKeepsInv DEF TupleElement
<1>10. CASE StructField
  BY <1>10, NextPartKeepsInv DEF StructField
<1>11. CASE end
  BY <1>11, EndKeepsInv
<1>12. CASE Return
  <2>1. /\ outcome = "Serializing" /\ value = NoValue /\ frames = <<>>
        /\ outcome' = "Returned" /\ UNCHANGED <<input, value, frames>>
    BY <1>12 DEF Return
  <2>2. \A S : Awaits(S)' => Awaits(S)
    BY <2>1 DEF Awaits
  <2>3. NoneMissed'
    BY <2>1, <2>2, NothingMet DEF Errors
  <2>4. SerializerTyped'
    BY <2>1 DEF RefusalInv, SerializerTyped
  <2>5. QED
    BY <2>1, <2>3, <2>4 DEF RefusalInv, Errors
<1>13. CASE Over \/ UNCHANGED serializer
  <2>1. UNCHANGED <<input, value, frames, outcome>>
    BY <1>13 DEF Over, serializer
  <2>2. UNCHANGED SerializerTyped /\ \A S : Awaits(S)' <=> Awaits(S)
    BY <2>1 DEF SerializerTyped, Awaits
  <2>3. UNCHANGED NoneMissed
    BY <2>1, <2>2 DEF NoneMissed
  <2>4. QED
    BY <2>1, <2>2, <2>3 DEF RefusalInv
<1>14. QED
  BY <1>1, <1>2, <1>3, <1>4, <1>5, <1>6, <1>7, <1>8, <1>9, <1>10, <1>11, <1>12, <1>13
     DEF SerializerNext

LEMMA RefusalDecides ==
    ASSUME RefusalInv
    PROVE  RefusesExactly
<1>1. ASSUME outcome = "Returned", NEW w \in Parts(input.value)
      PROVE  Encodable(w)
  <2>1. NoneMissed /\ value = NoValue /\ frames = <<>>
    BY <1>1 DEF RefusalInv, SerializerTyped, Errors
  <2>2. Closed({}) /\ Awaits({})
    BY <2>1 DEF Closed, Awaits
  <2>3. {} \in SUBSET Parts(input.value) /\ w \in Parts(input.value) \ {}
    BY <1>1
  <2>4. QED
    BY <2>1, <2>2, <2>3 DEF NoneMissed
<1>2. outcome \in Errors => \E w \in Parts(input.value) : ~ Encodable(w)
  BY DEF RefusalInv
<1>3. QED
  BY <1>1, <1>2 DEF RefusesExactly

(* A value is refused if and only if some part of it, however deep, has no *)
(* encoding (the Err arms of Serializer, passed on by the ? of the derived *)
(* code, and the unwrap of to_felts).                                      *)
THEOREM SerializerRefusesExactly == SerializerSpec => []RefusesExactly
<1>1. SerializerInit => RefusalInv
  BY RefusalInit
<1>2. RefusalInv /\ [SerializerNext]_serializer => RefusalInv'
  BY RefusalNext
<1>3. RefusalInv => RefusesExactly
  BY RefusalDecides
<1>4. QED
  BY <1>1, <1>2, <1>3, PTL DEF SerializerSpec

-----------------------------------------------------------------------------
(* The calls of a transaction are written as the session account writes    *)
(* them: where in the calls the serializer is, so much of their code it    *)
(* has written.                                                            *)

Bundles == Seq([to : DOMAIN text, selector : DOMAIN text, calldata : Seq(DOMAIN text)])
Codes == DOMAIN text \union Nat

\* The code of one call.
CallCode(call) == <<call.to, call.selector, Len(call.calldata)>> \o call.calldata

\* The code of the first so many calls, as session_encode_calls builds it.
EncodedBy(f, calls) ==
    /\ f \in [0 .. Len(calls) -> Seq(Codes)]
    /\ f[0] = <<Len(calls)>>
    /\ \A k \in 1 .. Len(calls) : f[k] = f[k - 1] \o CallCode(calls[k])
    /\ session_encode_calls(calls) = f[Len(calls)]

encoded(calls) == CHOOSE f : EncodedBy(f, calls)

LEMMA CallTyped ==
    ASSUME NEW calls \in Bundles, NEW k \in 1 .. Len(calls)
    PROVE  /\ calls[k].to \in DOMAIN text /\ calls[k].selector \in DOMAIN text
           /\ calls[k].calldata \in Seq(DOMAIN text)
<1> DEFINE Call == [to : DOMAIN text, selector : DOMAIN text, calldata : Seq(DOMAIN text)]
<1>1. calls \in Seq(Call)
  BY DEF Bundles
<1>2. calls[k] \in Call
  <2> HIDE DEF Call
  <2>1. QED
    BY <1>1
<1>3. QED
  BY <1>2

LEMMA CodeTyped ==
    ASSUME NEW to \in DOMAIN text, NEW selector \in DOMAIN text, NEW felts \in Seq(DOMAIN text)
    PROVE  /\ felts \in Seq(Codes)
           /\ <<to, selector, Len(felts)>> \in Seq(Codes)
           /\ Len(felts) \in Nat
BY DEF Codes

LEMMA ConcatTyped ==
    ASSUME NEW S, NEW s \in Seq(S), NEW t \in Seq(S)
    PROVE  s \o t \in Seq(S)
OBVIOUS

LEMMA ConcatAssociates ==
    ASSUME NEW S, NEW s \in Seq(S), NEW t \in Seq(S), NEW u \in Seq(S)
    PROVE  s \o t \o u = s \o (t \o u)
OBVIOUS

LEMMA CallCodeTyped ==
    ASSUME NEW calls \in Bundles, NEW k \in 1 .. Len(calls)
    PROVE  CallCode(calls[k]) \in Seq(Codes)
<1>1. /\ calls[k].to \in DOMAIN text /\ calls[k].selector \in DOMAIN text
      /\ calls[k].calldata \in Seq(DOMAIN text)
  BY CallTyped
<1>2. /\ calls[k].calldata \in Seq(Codes)
      /\ <<calls[k].to, calls[k].selector, Len(calls[k].calldata)>> \in Seq(Codes)
  BY <1>1, CodeTyped
<1>3. QED
  BY <1>2, ConcatTyped DEF CallCode

LEMMA EncodingExists ==
    ASSUME NEW calls \in Bundles
    PROVE  /\ EncodedBy(encoded(calls), calls)
           /\ Len(calls) \in Nat
<1> DEFINE n == Len(calls)
           step == [k \in Nat |-> [s \in Seq(Codes) |->
                       IF k \in 1 .. n THEN s \o CallCode(calls[k]) ELSE s]]
           Computes(f) == f = [k \in 0 .. n |->
                       IF k = 0 THEN <<n>>
                       ELSE f[k - 1]
                                \o <<calls[k].to, calls[k].selector, Len(calls[k].calldata)>>
                                \o calls[k].calldata]
           g == CHOOSE f : Computes(f)
<1>1. n \in Nat /\ <<n>> \in Seq(Codes)
  BY DEF Bundles, Codes
<1>2. step \in [Nat -> [Seq(Codes) -> Seq(Codes)]]
  <2>1. \A k \in Nat, s \in Seq(Codes) :
            (IF k \in 1 .. n THEN s \o CallCode(calls[k]) ELSE s) \in Seq(Codes)
    <3>1. \A k \in 1 .. n, s \in Seq(Codes) : s \o CallCode(calls[k]) \in Seq(Codes)
      BY CallCodeTyped, ConcatTyped
    <3>2. QED
      BY <3>1
  <2>2. QED
    BY <2>1
<1>3. PICK f \in [0 .. n -> Seq(Codes)] : Follows(f, <<n>>, step, n)
  <2> HIDE DEF step, n
  <2>1. QED
    BY <1>1, <1>2, RecursionExists
<1>4. f[0] = <<n>> /\ \A k \in 1 .. n : f[k] = f[k - 1] \o CallCode(calls[k])
  <2>1. \A k \in 1 .. n : k \in Nat /\ k - 1 \in 0 .. n
    BY <1>1
  <2>2. \A k \in 1 .. n : f[k - 1] \in Seq(Codes)
    BY <2>1
  <2>3. \A k \in 1 .. n : step[k][f[k - 1]] = f[k - 1] \o CallCode(calls[k])
    BY <2>1, <2>2
  <2> HIDE DEF step
  <2>4. QED
    BY <1>3, <2>3 DEF Follows
<1>5. ASSUME NEW k \in 1 .. n
      PROVE  f[k] = f[k - 1] \o <<calls[k].to, calls[k].selector, Len(calls[k].calldata)>>
                             \o calls[k].calldata
  <2>1. f[k - 1] \in Seq(Codes)
    BY <1>1
  <2>2. /\ calls[k].calldata \in Seq(Codes)
        /\ <<calls[k].to, calls[k].selector, Len(calls[k].calldata)>> \in Seq(Codes)
    BY CallTyped, CodeTyped
  <2>3. f[k] = f[k - 1] \o (<<calls[k].to, calls[k].selector, Len(calls[k].calldata)>>
                                \o calls[k].calldata)
    BY <1>4 DEF CallCode
  <2> DEFINE before == f[k - 1]
             head == <<calls[k].to, calls[k].selector, Len(calls[k].calldata)>>
             rest == calls[k].calldata
  <2>4. before \in Seq(Codes) /\ head \in Seq(Codes) /\ rest \in Seq(Codes)
    BY <2>1, <2>2
  <2> HIDE DEF n, step, Computes, g, before, head, rest
  <2>5. before \o head \o rest = before \o (head \o rest)
    BY <2>4, ConcatAssociates
  <2>6. QED
    BY <2>3, <2>5 DEF before, head, rest
<1>6. Computes(f)
  <2> HIDE DEF n, step
  <2>1. \A k \in 0 .. n : k # 0 => k \in 1 .. n
    BY <1>1
  <2>2. QED
    BY <1>4, <1>5, <2>1
<1>7. Computes(g)
  <2> HIDE DEF Computes
  <2>1. QED
    BY <1>6
<1>8. session_encode_calls(calls) = g[n]
  BY DEF session_encode_calls
<1>9. g[n] = f[n]
  <2>1. Alike(f, g, n)
    <3>1. g[0] = <<n>> /\ \A k \in 1 .. n : g[k] =
                  g[k - 1] \o <<calls[k].to, calls[k].selector, Len(calls[k].calldata)>>
                           \o calls[k].calldata
      <4>1. \A k \in 0 .. n : g[k] = IF k = 0 THEN <<n>> ELSE
                g[k - 1] \o <<calls[k].to, calls[k].selector, Len(calls[k].calldata)>>
                         \o calls[k].calldata
        <5> HIDE DEF g, n, step
        <5>1. QED
          BY <1>7
      <4>2. 0 \in 0 .. n /\ \A k \in 1 .. n : k \in 0 .. n /\ k # 0
        BY <1>1
      <4> HIDE DEF g, n, step
      <4>3. QED
        BY <4>1, <4>2
    <3> HIDE DEF g, n, step
    <3>2. QED
      BY <1>4, <1>5, <3>1 DEF Alike
  <2>2. n \in 0 .. n
    BY <1>1
  <2> HIDE DEF g, n, step
  <2>3. QED
    BY <1>1, <2>1, <2>2, RecursionAgrees
<1>10. EncodedBy(f, calls)
  <2> HIDE DEF g, step
  <2>1. QED
    BY <1>4, <1>8, <1>9 DEF EncodedBy
<1>11. QED
  BY <1>1, <1>10 DEF encoded

\* What is left of a sequence once so many have gone.
Remaining(s, k) == SubSeq(s, k + 1, Len(s))

LEMMA TailOf ==
    ASSUME NEW S, NEW s \in Seq(S), NEW n \in Nat, Len(s) = n + 1
    PROVE  /\ Tail(s) \in Seq(S) /\ Len(Tail(s)) = n
           /\ \A i \in 1 .. n : Tail(s)[i] = s[i + 1]
OBVIOUS

LEMMA SameSequence ==
    ASSUME NEW S, NEW s \in Seq(S), NEW t \in Seq(S), NEW n \in Nat, Len(s) = n, Len(t) = n,
           \A i \in 1 .. n : s[i] = t[i]
    PROVE  s = t
OBVIOUS

LEMMA RemainingSteps ==
    ASSUME NEW S, NEW s \in Seq(S), NEW k \in 0 .. Len(s)
    PROVE  /\ Remaining(s, 0) = s
           /\ k < Len(s) => /\ Remaining(s, k) # <<>>
                            /\ Head(Remaining(s, k)) = s[k + 1]
                            /\ Tail(Remaining(s, k)) = Remaining(s, k + 1)
           /\ k = Len(s) => Remaining(s, k) = <<>>
<1>1. Remaining(s, 0) = s
  BY DEF Remaining
<1>2. ASSUME k < Len(s)
      PROVE  /\ Remaining(s, k) # <<>>
             /\ Head(Remaining(s, k)) = s[k + 1]
             /\ Tail(Remaining(s, k)) = Remaining(s, k + 1)
  <2> DEFINE n == Len(s)
             rest == SubSeq(s, k + 1, n)
             next == SubSeq(s, k + 2, n)
  <2>1. /\ rest \in Seq(S) /\ Len(rest) = n - k /\ rest[1] = s[k + 1]
        /\ \A i \in 1 .. n - k : rest[i] = s[k + i]
    BY <1>2
  <2>2. /\ next \in Seq(S) /\ Len(next) = n - (k + 1)
        /\ \A i \in 1 .. n - (k + 1) : next[i] = s[k + 1 + i]
    BY <1>2
  <2>3. Tail(rest) \in Seq(S) /\ Len(Tail(rest)) = n - (k + 1)
        /\ \A i \in 1 .. n - (k + 1) : Tail(rest)[i] = s[k + 1 + i]
    <3> DEFINE m == n - (k + 1)
    <3>1. m \in Nat /\ n - k = m + 1
          /\ \A i \in 1 .. m : i + 1 \in 1 .. n - k /\ k + (i + 1) = k + 1 + i
      BY <1>2
    <3> HIDE DEF rest, next, n, m
    <3>2. Len(Tail(rest)) = m /\ Tail(rest) \in Seq(S)
          /\ \A i \in 1 .. m : Tail(rest)[i] = rest[i + 1]
      BY <2>1, <3>1, TailOf
    <3>3. \A i \in 1 .. m : Tail(rest)[i] = s[k + 1 + i]
      BY <2>1, <3>1, <3>2
    <3>4. QED
      BY <3>2, <3>3 DEF m
  <2>4. Head(rest) = s[k + 1] /\ rest # <<>>
    <3>1. n - k > 0
      BY <1>2
    <3> HIDE DEF rest, next, n
    <3>2. QED
      BY <2>1, <3>1
  <2>5. Tail(rest) = next
    <3>1. n - (k + 1) \in Nat
      BY <1>2
    <3> HIDE DEF rest, next, n
    <3>2. QED
      BY <2>2, <2>3, <3>1, SameSequence
  <2>6. k + 1 + 1 = k + 2
    OBVIOUS
  <2>7. QED
    BY <2>4, <2>5, <2>6 DEF Remaining
<1>3. k = Len(s) => Remaining(s, k) = <<>>
  BY DEF Remaining
<1>4. QED
  BY <1>1, <1>2, <1>3

\* So much of it has gone.
LEMMA TakenSteps ==
    ASSUME NEW S, NEW before \in Seq(S), NEW s \in Seq(S), NEW k \in 0 .. Len(s)
    PROVE  /\ before \o SubSeq(s, 1, 0) = before
           /\ before \o SubSeq(s, 1, Len(s)) = before \o s
           /\ k < Len(s) => Append(before \o SubSeq(s, 1, k), s[k + 1])
                                = before \o SubSeq(s, 1, k + 1)
<1>1. SubSeq(s, 1, 0) = <<>> /\ before \o <<>> = before
  OBVIOUS
<1>2. SubSeq(s, 1, Len(s)) = s
  OBVIOUS
<1>3. ASSUME k < Len(s)
      PROVE  Append(before \o SubSeq(s, 1, k), s[k + 1]) = before \o SubSeq(s, 1, k + 1)
  BY <1>3
<1>4. QED
  BY <1>1, <1>2, <1>3

\* One frame on the others.
Stacked(below) ==
    \A a : LET s == <<a>> \o below
           IN  s # <<>> /\ Head(s) = a /\ Tail(s) = below

LEMMA StackedTyped ==
    ASSUME NEW S, NEW below \in Seq(S)
    PROVE  Stacked(below)
<1>1. SUFFICES ASSUME NEW a
               PROVE  /\ <<a>> \o below # <<>> /\ Head(<<a>> \o below) = a
                      /\ Tail(<<a>> \o below) = below
  BY DEF Stacked
<1> DEFINE T == S \union {a}
<1>2. <<a>> \in Seq(T) /\ below \in Seq(T)
  OBVIOUS
<1> HIDE DEF T
<1>3. QED
  BY <1>2

LEMMA StackedOnes ==
    ASSUME NEW a, NEW b
    PROVE  Stacked(<<>>) /\ Stacked(<<a>> \o <<>>) /\ Stacked(<<b>> \o (<<a>> \o <<>>))
<1> DEFINE T == {a, b}
<1>1. <<>> \in Seq(T) /\ <<a>> \in Seq(T) /\ <<b>> \in Seq(T)
  OBVIOUS
<1> HIDE DEF T
<1>2. <<a>> \o <<>> \in Seq(T)
  BY <1>1, ConcatTyped
<1>3. <<b>> \o (<<a>> \o <<>>) \in Seq(T)
  BY <1>1, <1>2, ConcatTyped
<1>4. QED
  BY <1>1, <1>2, <1>3, StackedTyped

\* A compound begun, so many of its items handed over.
Begun(kind, s, k) == [kind |-> kind, rest |-> Remaining(s, k)]

\* Between two values, the innermost compound goes on or ends.
LEMMA OnlyParts ==
    ASSUME SerializerNext, outcome = "Serializing", value = NoValue, frames # <<>>
    PROVE  \/ Head(frames).rest # <<>> /\ NextPart(Head(frames).kind)
           \/ end
<1>1. SeqElement \/ TupleElement \/ StructField \/ end
  BY DEF SerializerNext, serialize_u64, serialize_str, unsupported, serialize_newtype_struct,
         serialize_seq, serialize_tuple, serialize_struct, Return, Over
<1>2. QED
  BY <1>1 DEF SeqElement, TupleElement, StructField, NextPart

LEMMA GoesOn ==
    ASSUME SerializerNext, outcome = "Serializing", value = NoValue,
           NEW kind, NEW S, NEW s \in Seq(S), NEW k \in 0 .. Len(s),
           NEW below, Stacked(below), frames = <<Begun(kind, s, k)>> \o below
    PROVE  /\ UNCHANGED <<input, output, outcome>>
           /\ k < Len(s) => value' = s[k + 1] /\ frames' = <<Begun(kind, s, k + 1)>> \o below
           /\ k = Len(s) => value' = NoValue /\ frames' = below
<1> DEFINE top == Begun(kind, s, k)
<1>1. frames # <<>> /\ Head(frames) = top /\ Tail(frames) = below
  BY DEF Stacked
<1>2. top.kind = kind /\ top.rest = Remaining(s, k)
  BY DEF Begun
<1> HIDE DEF top
<1>3. UNCHANGED <<input, output, outcome>>
  BY <1>1, OnlyParts DEF NextPart, end
<1>4. ASSUME k < Len(s)
      PROVE  value' = s[k + 1] /\ frames' = <<Begun(kind, s, k + 1)>> \o below
  <2>1. Remaining(s, k) # <<>> /\ Head(Remaining(s, k)) = s[k + 1]
        /\ Tail(Remaining(s, k)) = Remaining(s, k + 1)
    BY <1>4, RemainingSteps
  <2>2. NextPart(kind)
    BY <1>1, <1>2, <2>1, OnlyParts DEF end
  <2>3. value' = Head(Head(frames).rest)
        /\ frames' = <<[kind |-> kind, rest |-> Tail(Head(frames).rest)]>> \o Tail(frames)
    BY <2>2 DEF NextPart
  <2>4. QED
    BY <1>1, <1>2, <2>1, <2>3 DEF Begun
<1>5. ASSUME k = Len(s)
      PROVE  value' = NoValue /\ frames' = below
  <2>1. Remaining(s, k) = <<>>
    BY <1>5, RemainingSteps
  <2>2. end
    BY <1>1, <1>2, <2>1, OnlyParts
  <2>3. QED
    BY <1>1, <2>2 DEF end
<1>6. QED
  BY <1>3, <1>4, <1>5

\* A value in hand is written as its kind is.
LEMMA FeltWritten ==
    ASSUME SerializerNext, outcome = "Serializing",
           NEW f \in DOMAIN text, value = felt(f), value # NoValue
    PROVE  Push(f)
<1>1. value.kind = "str" /\ value.text = text[f]
  BY DEF felt
<1>2. serialize_str
  BY <1>1 DEF SerializerNext, serialize_u64, unsupported, serialize_newtype_struct,
         serialize_seq, serialize_tuple, serialize_struct, SeqElement, TupleElement, StructField,
         NextPart, end, Return, Over, UnsignedInts, Unsupported, SignedInts, FloatsAndChar,
         BytesAndOptions, NewtypeVariants, TuplesByName, StructVariants
<1>3. from_str[text[f]] = f /\ f # NotAFelt
  BY BundlesEncoded DEF BundlesEncoded
<1>4. QED
  BY <1>1, <1>2, <1>3 DEF serialize_str

LEMMA VecBegun ==
    ASSUME SerializerNext, outcome = "Serializing", NEW S, NEW items \in Seq(S),
           value = vec(items), value # NoValue
    PROVE  /\ output' = output \o <<Len(items)>>
           /\ frames' = <<Begun("seq", items, 0)>> \o frames
           /\ value' = NoValue /\ UNCHANGED <<input, outcome>>
<1>1. value.kind = "seq" /\ value.len = Len(items) /\ value.items = items
  BY DEF vec
<1>2. serialize_seq
  BY <1>1 DEF SerializerNext, serialize_u64, serialize_str, unsupported, serialize_newtype_struct,
         serialize_tuple, serialize_struct, SeqElement, TupleElement, StructField,
         NextPart, end, Return, Over, UnsignedInts, Unsupported, SignedInts, FloatsAndChar,
         BytesAndOptions, NewtypeVariants, TuplesByName, StructVariants
<1>3. Remaining(items, 0) = items
  <2>1. 0 \in 0 .. Len(items)
    OBVIOUS
  <2>2. QED
    BY <2>1, RemainingSteps
<1>4. Len(items) # NoLen
  <2>1. Len(items) \in Nat /\ NoLen \notin Nat
    BY ValuesTyped DEF ValuesTyped
  <2>2. QED
    BY <2>1
<1>5. Begin(<<Len(items)>>)
  BY <1>1, <1>2, <1>4 DEF serialize_seq
<1>6. QED
  BY <1>1, <1>3, <1>5 DEF Begin, Begun

LEMMA StructBegun ==
    ASSUME SerializerNext, outcome = "Serializing", NEW call,
           NEW S, SerializableCall(call).items \in Seq(S),
           value = SerializableCall(call), value # NoValue
    PROVE  /\ output' = output \o <<>>
           /\ frames' = <<Begun("struct", SerializableCall(call).items, 0)>> \o frames
           /\ value' = NoValue /\ UNCHANGED <<input, outcome>>
<1> DEFINE items == SerializableCall(call).items
<1>1. value.kind = "struct" /\ value.items = items
  BY DEF SerializableCall
<1> HIDE DEF items
<1>2. serialize_struct
  BY <1>1 DEF SerializerNext, serialize_u64, serialize_str, unsupported, serialize_newtype_struct,
         serialize_tuple, serialize_seq, SeqElement, TupleElement, StructField,
         NextPart, end, Return, Over, UnsignedInts, Unsupported, SignedInts, FloatsAndChar,
         BytesAndOptions, NewtypeVariants, TuplesByName, StructVariants
<1>3. Remaining(items, 0) = items
  <2>1. items \in Seq(S)
    BY DEF items
  <2>2. 0 \in 0 .. Len(items)
    BY <2>1
  <2>3. QED
    BY <2>1, <2>2, RemainingSteps
<1>4. QED
  BY <1>1, <1>2, <1>3 DEF serialize_struct, Begin, Begun, items

-----------------------------------------------------------------------------
CallItems(calls) == [i \in DOMAIN calls |-> SerializableCall(calls[i])]
CallFields(call) == SerializableCall(call).items
CallFelts(call) == [i \in DOMAIN call.calldata |-> felt(call.calldata[i])]

\* The calls, as the parts of the value that stands for them.
LEMMA PartsOfPart ==
    ASSUME input \in Inputs, NEW v \in Parts(input.value), v.kind \in Compounds
    PROVE  v # NoValue /\ v.items \in Seq(Parts(input.value))
BY PartsTyped

LEMMA ItemsOfCalls ==
    ASSUME input \in Inputs, NEW calls \in input.calls
    PROVE  /\ calls \in Bundles /\ Len(calls) \in Nat
           /\ input.value = vec(CallItems(calls)) /\ input.value # NoValue
           /\ CallItems(calls) \in Seq(Parts(input.value))
           /\ Len(CallItems(calls)) = Len(calls)
           /\ \A j \in 1 .. Len(calls) : CallItems(calls)[j] = SerializableCall(calls[j])
<1>1. calls \in Bundles /\ input.value = webauthn_calls(calls)
  BY BundlesEncoded DEF BundlesEncoded, Bundles
<1>2. input.value = vec(CallItems(calls))
  BY <1>1 DEF webauthn_calls, CallItems
<1>3. input.value.kind = "seq" /\ input.value.items = CallItems(calls)
  BY <1>2 DEF vec
<1>4. input.value \in Parts(input.value)
  BY PartOfItself
<1>5. input.value # NoValue /\ CallItems(calls) \in Seq(Parts(input.value))
  BY <1>3, <1>4, PartsOfPart DEF Compounds
<1>6. Len(calls) \in Nat /\ DOMAIN calls = 1 .. Len(calls)
  BY <1>1 DEF Bundles
<1>7. Len(CallItems(calls)) = Len(calls)
      /\ \A j \in 1 .. Len(calls) : CallItems(calls)[j] = SerializableCall(calls[j])
  BY <1>6 DEF CallItems
<1>8. QED
  BY <1>1, <1>2, <1>5, <1>6, <1>7

LEMMA PartsOfCalls ==
    ASSUME input \in Inputs, NEW calls \in input.calls, NEW j \in 1 .. Len(calls)
    PROVE  /\ SerializableCall(calls[j]) # NoValue
           /\ CallFields(calls[j]) \in Seq(Parts(input.value)) /\ Len(CallFields(calls[j])) = 3
           /\ CallFields(calls[j])[1] = felt(calls[j].to) /\ felt(calls[j].to) # NoValue
           /\ CallFields(calls[j])[2] = felt(calls[j].selector) /\ felt(calls[j].selector) # NoValue
           /\ CallFields(calls[j])[3] = vec(CallFelts(calls[j])) /\ vec(CallFelts(calls[j])) # NoValue
           /\ CallFelts(calls[j]) \in Seq(Parts(input.value))
           /\ Len(CallFelts(calls[j])) = Len(calls[j].calldata)
           /\ \A k \in 1 .. Len(calls[j].calldata) :
                  /\ CallFelts(calls[j])[k] = felt(calls[j].calldata[k])
                  /\ felt(calls[j].calldata[k]) # NoValue
<1> DEFINE all == Parts(input.value)
           call == calls[j]
           fields == CallFields(call)
<1>1. CallItems(calls) \in Seq(all) /\ Len(CallItems(calls)) = Len(calls)
      /\ CallItems(calls)[j] = SerializableCall(call)
  BY ItemsOfCalls
<1>2. SerializableCall(call) \in all
  <2> HIDE DEF all, call
  <2>1. QED
    BY <1>1
<1>3. SerializableCall(call).kind = "struct" /\ SerializableCall(call).items = fields
  BY DEF SerializableCall, CallFields
<1>4. SerializableCall(call) # NoValue /\ fields \in Seq(all)
  <2> HIDE DEF call, fields
  <2>1. QED
    BY <1>2, <1>3, PartsOfPart DEF Compounds
<1>5. fields = <<felt(call.to), felt(call.selector), vec(CallFelts(call))>>
  BY DEF SerializableCall, CallFields, CallFelts
<1>6. Len(fields) = 3 /\ fields[1] = felt(call.to) /\ fields[2] = felt(call.selector)
      /\ fields[3] = vec(CallFelts(call))
  BY <1>5
<1>7. fields[1] \in all /\ fields[2] \in all /\ fields[3] \in all
  <2> HIDE DEF fields, all, call
  <2>1. DOMAIN fields = 1 .. 3 /\ 1 \in 1 .. 3 /\ 2 \in 1 .. 3 /\ 3 \in 1 .. 3
    BY <1>4, <1>6
  <2>2. \A k \in DOMAIN fields : fields[k] \in all
    BY <1>4
  <2>3. QED
    BY <2>1, <2>2
<1>8. felt(call.to) # NoValue /\ felt(call.selector) # NoValue
  <2> HIDE DEF call, fields
  <2>1. QED
    BY <1>6, <1>7, PartsTyped
<1>9. vec(CallFelts(call)).kind = "seq" /\ vec(CallFelts(call)).items = CallFelts(call)
  BY DEF vec
<1>10. vec(CallFelts(call)) # NoValue /\ CallFelts(call) \in Seq(all)
  <2> HIDE DEF call, fields
  <2>1. QED
    BY <1>6, <1>7, <1>9, PartsOfPart DEF Compounds
<1>11. call.calldata \in Seq(DOMAIN text)
  BY ItemsOfCalls, CallTyped
<1>12. Len(CallFelts(call)) = Len(call.calldata)
       /\ \A k \in 1 .. Len(call.calldata) : CallFelts(call)[k] = felt(call.calldata[k])
  <2>1. DOMAIN call.calldata = 1 .. Len(call.calldata) /\ Len(call.calldata) \in Nat
    BY <1>11
  <2> HIDE DEF call
  <2>2. QED
    BY <2>1 DEF CallFelts
<1>13. \A k \in 1 .. Len(call.calldata) : CallFelts(call)[k] \in all
  <2> HIDE DEF call, all
  <2>1. QED
    BY <1>10, <1>12
<1>14. \A k \in 1 .. Len(call.calldata) : felt(call.calldata[k]) # NoValue
  <2> HIDE DEF call, fields
  <2>1. QED
    BY <1>12, <1>13, PartsTyped
<1> HIDE DEF all
<1>15. QED
  BY <1>4, <1>6, <1>8, <1>10, <1>12, <1>14 DEF all

\* The code of the calls before this one, and the first words of its own.
written(calls, j, p) == encoded(calls)[j - 1] \o SubSeq(CallCode(calls[j]), 1, p)

LEMMA WrittenSteps ==
    ASSUME NEW calls \in Bundles, NEW j \in 1 .. Len(calls)
    PROVE  /\ encoded(calls)[j - 1] \o <<>> = encoded(calls)[j - 1]
           /\ Append(encoded(calls)[j - 1], calls[j].to) = written(calls, j, 1)
           /\ Append(written(calls, j, 1), calls[j].selector) = written(calls, j, 2)
           /\ written(calls, j, 2) \o <<Len(calls[j].calldata)>> = written(calls, j, 3)
           /\ \A k \in 1 .. Len(calls[j].calldata) :
                  Append(written(calls, j, 3 + (k - 1)), calls[j].calldata[k])
                      = written(calls, j, 3 + k)
           /\ written(calls, j, 3 + Len(calls[j].calldata)) = encoded(calls)[j]
<1> DEFINE before == encoded(calls)[j - 1]
           call == calls[j]
           code == CallCode(call)
           n == Len(call.calldata)
<1>1. before \in Seq(Codes) /\ encoded(calls)[j] = before \o code
  <2>1. EncodedBy(encoded(calls), calls) /\ Len(calls) \in Nat
    BY EncodingExists
  <2>2. j - 1 \in 0 .. Len(calls)
    BY <2>1
  <2>3. QED
    BY <2>1, <2>2 DEF EncodedBy
<1>2. code \in Seq(Codes)
  BY CallCodeTyped
<1>3. call.calldata \in Seq(DOMAIN text)
  BY CallTyped
<1>4. n \in Nat
  BY <1>3
<1>5. /\ Len(code) = 3 + n /\ code[1] = call.to /\ code[2] = call.selector /\ code[3] = n
      /\ \A k \in 1 .. n : code[3 + k] = call.calldata[k]
  <2> DEFINE first == <<call.to, call.selector, n>>
  <2>1. first \in Seq(Codes) /\ call.calldata \in Seq(Codes)
    BY <1>3, CallTyped, CodeTyped
  <2>2. Len(first) = 3 /\ first[1] = call.to /\ first[2] = call.selector /\ first[3] = n
    OBVIOUS
  <2>3. code = first \o call.calldata
    BY DEF CallCode
  <2>4. Len(code) = Len(first) + n
        /\ (\A k \in 1 .. Len(first) : code[k] = first[k])
        /\ (\A k \in 1 .. n : code[Len(first) + k] = call.calldata[k])
    <3> HIDE DEF first, code
    <3>1. QED
      BY <2>1, <2>3
  <2>5. 1 \in 1 .. Len(first) /\ 2 \in 1 .. Len(first) /\ 3 \in 1 .. Len(first)
    BY <2>2
  <2> HIDE DEF first, code, n
  <2>6. QED
    BY <2>2, <2>4, <2>5
<1> DEFINE w(p) == before \o SubSeq(code, 1, p)
<1>6. \A p \in 0 .. 3 + n : p < 3 + n => Append(w(p), code[p + 1]) = w(p + 1)
  <2> HIDE DEF before, code, n
  <2>1. \A p \in 0 .. Len(code) : p < Len(code) => Append(w(p), code[p + 1]) = w(p + 1)
    BY <1>1, <1>2, TakenSteps, Zenon
  <2> HIDE DEF w
  <2>2. QED
    BY <1>5, <2>1
<1>7. w(0) = before /\ w(3 + n) = before \o code
  <2>1. 0 \in 0 .. Len(code)
    BY <1>4, <1>5
  <2> HIDE DEF before, code, n
  <2>2. w(0) = before /\ w(Len(code)) = before \o code
    BY <1>1, <1>2, <2>1, TakenSteps, Zenon
  <2> HIDE DEF w
  <2>3. QED
    BY <1>5, <2>2
<1>8. \A p \in 0 .. 3 + n : w(p) \in Seq(Codes)
  <2> HIDE DEF before, code, n
  <2>1. \A p \in 0 .. 3 + n : SubSeq(code, 1, p) \in Seq(Codes)
    BY <1>2, <1>5
  <2>2. QED
    BY <1>1, <2>1, ConcatTyped
<1>9. /\ 0 \in 0 .. 3 + n /\ 1 \in 0 .. 3 + n /\ 2 \in 0 .. 3 + n /\ 0 < 3 + n
      /\ 1 < 3 + n /\ 2 < 3 + n /\ 0 + 1 = 1 /\ 1 + 1 = 2 /\ 2 + 1 = 3
      /\ \A k \in 1 .. n : /\ 3 + (k - 1) \in 0 .. 3 + n /\ 3 + (k - 1) < 3 + n
                           /\ 3 + (k - 1) + 1 = 3 + k
  BY <1>4
<1>10. Append(before, call.to) = w(1)
  <2> HIDE DEF before, code, n, w, call
  <2>1. Append(w(0), code[0 + 1]) = w(0 + 1)
    BY <1>6, <1>9
  <2>2. QED
    BY <1>5, <1>7, <1>9, <2>1
<1>11. Append(w(1), call.selector) = w(2)
  <2> HIDE DEF before, code, n, w, call
  <2>1. Append(w(1), code[1 + 1]) = w(1 + 1)
    BY <1>6, <1>9
  <2>2. QED
    BY <1>5, <1>9, <2>1
<1>12. w(2) \o <<n>> = w(3)
  <2>1. w(2) \in Seq(Codes) /\ n \in Codes
    BY <1>4, <1>8, <1>9 DEF Codes
  <2> HIDE DEF before, code, n, w, call
  <2>2. Append(w(2), code[2 + 1]) = w(2 + 1)
    BY <1>6, <1>9
  <2>3. Append(w(2), n) = w(2) \o <<n>>
    BY <2>1
  <2>4. QED
    BY <1>5, <1>9, <2>2, <2>3
<1>13. \A k \in 1 .. n : Append(w(3 + (k - 1)), call.calldata[k]) = w(3 + k)
  <2> SUFFICES ASSUME NEW k \in 1 .. n
               PROVE  Append(w(3 + (k - 1)), call.calldata[k]) = w(3 + k)
    OBVIOUS
  <2> HIDE DEF before, code, n, w, call
  <2>1. Append(w(3 + (k - 1)), code[3 + (k - 1) + 1]) = w(3 + (k - 1) + 1)
    BY <1>6, <1>9
  <2>2. QED
    BY <1>5, <1>9, <2>1
<1>14. before \o <<>> = before
  <2> HIDE DEF before
  <2>1. QED
    BY <1>1
<1>15. \A p : written(calls, j, p) = w(p)
  BY DEF written
<1>16. w(3 + n) = encoded(calls)[j]
  BY <1>1, <1>7
<1> HIDE DEF w
<1>17. QED
  BY <1>10, <1>11, <1>12, <1>13, <1>14, <1>15, <1>16

-----------------------------------------------------------------------------
\* The compounds begun: the calls, a call, its calldata.
Outer(calls, j) == <<Begun("seq", CallItems(calls), j)>> \o <<>>
Middle(calls, j, m) == <<Begun("struct", CallFields(calls[j]), m)>> \o Outer(calls, j)
Innermost(calls, j, k) == <<Begun("seq", CallFelts(calls[j]), k)>> \o Middle(calls, j, 3)

\* Where in the calls the serializer is, and what it has written by then.
BeforeCalls == value = input.value /\ frames = <<>> /\ output = <<>>

BetweenCalls(calls, j) ==
    value = NoValue /\ frames = Outer(calls, j) /\ output = encoded(calls)[j]

BeforeCall(calls, j) ==
    /\ value = SerializableCall(calls[j])
    /\ frames = Outer(calls, j) /\ output = encoded(calls)[j - 1]

BeforeField(calls, j, m) ==
    /\ value = CallFields(calls[j])[m]
    /\ frames = Middle(calls, j, m)
    /\ output = IF m = 1 THEN encoded(calls)[j - 1] ELSE written(calls, j, m - 1)

AfterField(calls, j, m) ==
    /\ value = NoValue /\ frames = Middle(calls, j, m)
    /\ output = IF m = 0 THEN encoded(calls)[j - 1]
                ELSE IF m = 3 THEN encoded(calls)[j] ELSE written(calls, j, m)

BeforeFelt(calls, j, k) ==
    /\ value = felt(calls[j].calldata[k])
    /\ frames = Innermost(calls, j, k) /\ output = written(calls, j, 3 + (k - 1))

BetweenFelts(calls, j, k) ==
    value = NoValue /\ frames = Innermost(calls, j, k) /\ output = written(calls, j, 3 + k)

AfterCalls(calls) ==
    value = NoValue /\ frames = <<>> /\ output = session_encode_calls(calls)

Somewhere(calls) ==
    \/ BeforeCalls
    \/ \E j \in 0 .. Len(calls) : BetweenCalls(calls, j)
    \/ \E j \in 1 .. Len(calls) :
          \/ BeforeCall(calls, j)
          \/ \E m \in 1 .. 3 : BeforeField(calls, j, m)
          \/ \E m \in 0 .. 3 : AfterField(calls, j, m)
          \/ \E k \in 1 .. Len(calls[j].calldata) : BeforeFelt(calls, j, k)
          \/ \E k \in 0 .. Len(calls[j].calldata) : BetweenFelts(calls, j, k)
    \/ AfterCalls(calls)

EncodingInv ==
    /\ input \in Inputs
    /\ \A calls \in input.calls :
          \/ outcome = "Serializing" /\ Somewhere(calls)
          \/ outcome = "Returned" /\ AfterCalls(calls)

\* A step from one place.
Going(calls) ==
    /\ SerializerNext /\ outcome = "Serializing"
    /\ input \in Inputs /\ calls \in input.calls

Stays == UNCHANGED <<input, outcome>>

LEMMA BetweenCallsGoesOn ==
    ASSUME NEW calls, Going(calls), NEW j \in 0 .. Len(calls), BetweenCalls(calls, j)
    PROVE  /\ Stays
           /\ \/ j < Len(calls) /\ BeforeCall(calls, j + 1)'
              \/ AfterCalls(calls)'
<1>1. /\ calls \in Bundles /\ Len(calls) \in Nat
      /\ CallItems(calls) \in Seq(Parts(input.value))
      /\ Len(CallItems(calls)) = Len(calls)
      /\ \A i \in 1 .. Len(calls) : CallItems(calls)[i] = SerializableCall(calls[i])
  BY ItemsOfCalls DEF Going
<1>2. value = NoValue /\ frames = <<Begun("seq", CallItems(calls), j)>> \o <<>>
      /\ output = encoded(calls)[j]
  BY DEF BetweenCalls, Outer
<1>3. Stacked(<<>>)
  BY StackedOnes
<1>4. /\ UNCHANGED <<input, output, outcome>>
      /\ j < Len(calls) => value' = CallItems(calls)[j + 1]
                           /\ frames' = <<Begun("seq", CallItems(calls), j + 1)>> \o <<>>
      /\ j = Len(calls) => value' = NoValue /\ frames' = <<>>
  BY <1>1, <1>2, <1>3, GoesOn, Zenon DEF Going
<1>5. CASE j < Len(calls)
  <2>1. j + 1 \in 1 .. Len(calls) /\ (j + 1) - 1 = j
    BY <1>1, <1>5
  <2>2. QED
    BY <1>1, <1>2, <1>4, <1>5, <2>1 DEF Stays, BeforeCall, Outer
<1>6. CASE j = Len(calls)
  <2>1. encoded(calls)[j] = session_encode_calls(calls)
    BY <1>1, <1>6, EncodingExists DEF EncodedBy
  <2>2. QED
    BY <1>2, <1>4, <1>6, <2>1 DEF Stays, AfterCalls
<1>7. QED
  BY <1>1, <1>5, <1>6

LEMMA BeforeCallsGoesOn ==
    ASSUME NEW calls, Going(calls), BeforeCalls
    PROVE  Stays /\ BetweenCalls(calls, 0)'
<1>1. /\ calls \in Bundles /\ Len(calls) \in Nat
      /\ input.value = vec(CallItems(calls)) /\ input.value # NoValue
      /\ CallItems(calls) \in Seq(Parts(input.value))
      /\ Len(CallItems(calls)) = Len(calls)
  BY ItemsOfCalls DEF Going
<1>2. /\ output' = output \o <<Len(CallItems(calls))>>
      /\ frames' = <<Begun("seq", CallItems(calls), 0)>> \o frames
      /\ value' = NoValue /\ UNCHANGED <<input, outcome>>
  BY <1>1, VecBegun DEF Going, BeforeCalls
<1>3. encoded(calls)[0] = <<Len(calls)>>
  BY <1>1, EncodingExists DEF EncodedBy
<1>4. <<>> \o <<Len(calls)>> = <<Len(calls)>>
  BY <1>1
<1>5. QED
  BY <1>1, <1>2, <1>3, <1>4 DEF BeforeCalls, BetweenCalls, Outer, Stays

LEMMA BeforeCallGoesOn ==
    ASSUME NEW calls, Going(calls), NEW j \in 1 .. Len(calls), BeforeCall(calls, j)
    PROVE  Stays /\ AfterField(calls, j, 0)'
<1>1. /\ SerializableCall(calls[j]) # NoValue
      /\ CallFields(calls[j]) \in Seq(Parts(input.value))
      /\ calls \in Bundles
  BY PartsOfCalls, ItemsOfCalls DEF Going
<1>2. /\ output' = output \o <<>>
      /\ frames' = <<Begun("struct", CallFields(calls[j]), 0)>> \o frames
      /\ value' = NoValue /\ UNCHANGED <<input, outcome>>
  BY <1>1, StructBegun DEF Going, BeforeCall, CallFields
<1>3. output' = encoded(calls)[j - 1]
  BY <1>1, <1>2, WrittenSteps DEF BeforeCall
<1>4. QED
  BY <1>2, <1>3 DEF BeforeCall, AfterField, Middle, Stays

LEMMA AfterFieldGoesOn ==
    ASSUME NEW calls, Going(calls), NEW j \in 1 .. Len(calls), NEW m \in 0 .. 3,
           AfterField(calls, j, m)
    PROVE  /\ Stays
           /\ \/ m < 3 /\ BeforeField(calls, j, m + 1)'
              \/ BetweenCalls(calls, j)'
<1> DEFINE fields == CallFields(calls[j])
           below == Outer(calls, j)
<1>1. fields \in Seq(Parts(input.value)) /\ Len(fields) = 3
  BY PartsOfCalls DEF Going
<1>2. value = NoValue /\ frames = <<Begun("struct", fields, m)>> \o below
  BY DEF AfterField, Middle
<1>3. Stacked(below)
  BY StackedOnes DEF Outer
<1>4. /\ UNCHANGED <<input, output, outcome>>
      /\ m < 3 => value' = fields[m + 1]
                  /\ frames' = <<Begun("struct", fields, m + 1)>> \o below
      /\ m = 3 => value' = NoValue /\ frames' = below
  <2> HIDE DEF fields, below
  <2>1. m \in 0 .. Len(fields)
    BY <1>1
  <2>2. QED
    BY <1>1, <1>2, <1>3, <2>1, GoesOn, Zenon DEF Going
<1>5. output = IF m = 0 THEN encoded(calls)[j - 1]
               ELSE IF m = 3 THEN encoded(calls)[j] ELSE written(calls, j, m)
  BY DEF AfterField
<1>6. CASE m < 3
  <2>1. output' = IF m + 1 = 1 THEN encoded(calls)[j - 1] ELSE written(calls, j, (m + 1) - 1)
    <3>1. (m + 1 = 1 <=> m = 0) /\ (m + 1) - 1 = m /\ m # 3
      BY <1>6
    <3>2. QED
      BY <1>4, <1>5, <3>1
  <2>2. QED
    BY <1>4, <1>6, <2>1 DEF Stays, BeforeField, Middle
<1>7. CASE m = 3
  BY <1>4, <1>5, <1>7 DEF Stays, BetweenCalls
<1>8. QED
  BY <1>6, <1>7

LEMMA BeforeFieldGoesOn ==
    ASSUME NEW calls, Going(calls), NEW j \in 1 .. Len(calls), NEW m \in 1 .. 3,
           BeforeField(calls, j, m)
    PROVE  /\ Stays
           /\ \/ AfterField(calls, j, m)'
              \/ BetweenFelts(calls, j, 0)'
<1> DEFINE call == calls[j]
<1>1. calls \in Bundles
  BY ItemsOfCalls DEF Going
<1>2. /\ call.to \in DOMAIN text /\ call.selector \in DOMAIN text
      /\ call.calldata \in Seq(DOMAIN text)
  BY <1>1, CallTyped
<1>3. value = CallFields(call)[m] /\ frames = Middle(calls, j, m)
  BY DEF BeforeField
<1>4. CASE m = 1
  <2>1. value = felt(call.to) /\ value # NoValue
    BY <1>3, <1>4, PartsOfCalls DEF Going
  <2>2. Push(call.to)
    BY <1>2, <2>1, FeltWritten DEF Going
  <2>3. output = encoded(calls)[j - 1]
    BY <1>4 DEF BeforeField
  <2>4. output' = written(calls, j, 1)
    BY <1>1, <2>2, <2>3, WrittenSteps DEF Push
  <2>5. QED
    BY <1>3, <1>4, <2>2, <2>4 DEF Push, AfterField, Stays
<1>5. CASE m = 2
  <2>1. value = felt(call.selector) /\ value # NoValue
    BY <1>3, <1>5, PartsOfCalls DEF Going
  <2>2. Push(call.selector)
    BY <1>2, <2>1, FeltWritten DEF Going
  <2>3. output = written(calls, j, 1)
    BY <1>5 DEF BeforeField
  <2>4. output' = written(calls, j, 2)
    BY <1>1, <2>2, <2>3, WrittenSteps DEF Push
  <2>5. QED
    BY <1>3, <1>5, <2>2, <2>4 DEF Push, AfterField, Stays
<1>6. CASE m = 3
  <2>1. /\ value = vec(CallFelts(call)) /\ value # NoValue
        /\ CallFelts(call) \in Seq(Parts(input.value))
        /\ Len(CallFelts(call)) = Len(call.calldata)
    BY <1>3, <1>6, PartsOfCalls DEF Going
  <2>2. /\ output' = output \o <<Len(CallFelts(call))>>
        /\ frames' = <<Begun("seq", CallFelts(call), 0)>> \o frames
        /\ value' = NoValue /\ UNCHANGED <<input, outcome>>
    BY <2>1, VecBegun DEF Going
  <2>3. output = written(calls, j, 2)
    BY <1>6 DEF BeforeField
  <2>4. output' = written(calls, j, 3)
    BY <1>1, <2>1, <2>2, <2>3, WrittenSteps
  <2>5. QED
    BY <1>3, <1>6, <2>2, <2>4 DEF BetweenFelts, Innermost, Stays
<1>7. QED
  BY <1>4, <1>5, <1>6

LEMMA BetweenFeltsGoesOn ==
    ASSUME NEW calls, Going(calls), NEW j \in 1 .. Len(calls),
           NEW k \in 0 .. Len(calls[j].calldata), BetweenFelts(calls, j, k)
    PROVE  /\ Stays
           /\ \/ k < Len(calls[j].calldata) /\ BeforeFelt(calls, j, k + 1)'
              \/ AfterField(calls, j, 3)'
<1> DEFINE felts == CallFelts(calls[j])
           below == Middle(calls, j, 3)
           n == Len(calls[j].calldata)
<1>1. /\ felts \in Seq(Parts(input.value)) /\ Len(felts) = n
      /\ \A i \in 1 .. n : felts[i] = felt(calls[j].calldata[i])
  BY PartsOfCalls DEF Going
<1>2. value = NoValue /\ frames = <<Begun("seq", felts, k)>> \o below
      /\ output = written(calls, j, 3 + k)
  BY DEF BetweenFelts, Innermost
<1>3. Stacked(below)
  BY StackedOnes DEF Outer, Middle
<1>4. /\ UNCHANGED <<input, output, outcome>>
      /\ k < n => value' = felts[k + 1]
                  /\ frames' = <<Begun("seq", felts, k + 1)>> \o below
      /\ k = n => value' = NoValue /\ frames' = below
  <2>1. k \in 0 .. Len(felts)
    BY <1>1
  <2> HIDE DEF felts, below, n
  <2>2. QED
    BY <1>1, <1>2, <1>3, <2>1, GoesOn, Zenon DEF Going
<1>5. n \in Nat /\ calls \in Bundles
  <2>1. calls \in Bundles
    BY ItemsOfCalls DEF Going
  <2>2. QED
    BY <2>1, CallTyped
<1>6. CASE k < n
  <2>1. k + 1 \in 1 .. n /\ (k + 1) - 1 = k
    BY <1>5, <1>6
  <2>2. value' = felt(calls[j].calldata[k + 1])
    BY <1>1, <1>4, <1>6, <2>1
  <2>3. output' = written(calls, j, 3 + ((k + 1) - 1))
    BY <1>2, <1>4, <2>1
  <2> HIDE DEF n
  <2>4. QED
    BY <1>4, <1>6, <2>2, <2>3 DEF Stays, BeforeFelt, Innermost, n
<1>7. CASE k = n
  <2>1. output' = encoded(calls)[j]
    BY <1>2, <1>4, <1>5, <1>7, WrittenSteps
  <2>2. QED
    BY <1>4, <1>7, <2>1 DEF Stays, AfterField
<1>8. QED
  BY <1>5, <1>6, <1>7

LEMMA BeforeFeltGoesOn ==
    ASSUME NEW calls, Going(calls), NEW j \in 1 .. Len(calls),
           NEW k \in 1 .. Len(calls[j].calldata), BeforeFelt(calls, j, k)
    PROVE  Stays /\ BetweenFelts(calls, j, k)'
<1> DEFINE f == calls[j].calldata[k]
<1>1. calls \in Bundles
  BY ItemsOfCalls DEF Going
<1>2. f \in DOMAIN text
  <2>1. calls[j].calldata \in Seq(DOMAIN text)
    BY <1>1, CallTyped
  <2>2. QED
    BY <2>1
<1>3. value = felt(f) /\ value # NoValue
  BY PartsOfCalls DEF Going, BeforeFelt
<1>4. Push(f)
  <2> HIDE DEF f
  <2>1. QED
    BY <1>2, <1>3, FeltWritten DEF Going
<1>5. output' = written(calls, j, 3 + k)
  BY <1>1, <1>4, WrittenSteps DEF Push, BeforeFelt
<1>6. QED
  BY <1>4, <1>5 DEF Push, BeforeFelt, BetweenFelts, Stays

LEMMA AfterCallsGoesOn ==
    ASSUME NEW calls, Going(calls), AfterCalls(calls)
    PROVE  input' = input /\ outcome' = "Returned" /\ AfterCalls(calls)'
<1>1. value = NoValue /\ frames = <<>> /\ outcome = "Serializing"
  BY DEF AfterCalls, Going
<1>2. Return
  BY <1>1 DEF Going, SerializerNext, serialize_u64, serialize_str, unsupported,
         serialize_newtype_struct, serialize_seq, serialize_tuple, serialize_struct,
         SeqElement, TupleElement, StructField, NextPart, end, Over
<1>3. QED
  BY <1>2 DEF Return, AfterCalls

LEMMA SomewhereGoesOn ==
    ASSUME NEW calls, Going(calls), Somewhere(calls)
    PROVE  \/ outcome' = "Serializing" /\ Somewhere(calls)'
           \/ outcome' = "Returned" /\ AfterCalls(calls)'
<1>0. Len(calls) \in Nat /\ outcome = "Serializing"
  BY ItemsOfCalls DEF Going
<1>1. CASE BeforeCalls
  <2>1. Stays /\ BetweenCalls(calls, 0)'
    BY <1>1, BeforeCallsGoesOn
  <2>2. 0 \in 0 .. Len(calls)
    BY <1>0
  <2>3. QED
    BY <1>0, <2>1, <2>2 DEF Somewhere, Stays
<1>2. ASSUME NEW j \in 0 .. Len(calls), BetweenCalls(calls, j)
      PROVE  Stays /\ Somewhere(calls)'
  <2>1. Stays /\ ((j < Len(calls) /\ BeforeCall(calls, j + 1)') \/ AfterCalls(calls)')
    BY <1>2, BetweenCallsGoesOn
  <2>2. j < Len(calls) => j + 1 \in 1 .. Len(calls)
    BY <1>0
  <2>3. QED
    BY <2>1, <2>2 DEF Somewhere
<1>3. ASSUME NEW j \in 1 .. Len(calls), BeforeCall(calls, j)
      PROVE  Stays /\ Somewhere(calls)'
  <2>1. Stays /\ AfterField(calls, j, 0)'
    BY <1>3, BeforeCallGoesOn
  <2>2. 0 \in 0 .. 3
    OBVIOUS
  <2>3. QED
    BY <2>1, <2>2 DEF Somewhere
<1>4. ASSUME NEW j \in 1 .. Len(calls), NEW m \in 1 .. 3, BeforeField(calls, j, m)
      PROVE  Stays /\ Somewhere(calls)'
  <2>1. Stays /\ (AfterField(calls, j, m)' \/ BetweenFelts(calls, j, 0)')
    BY <1>4, BeforeFieldGoesOn
  <2>2. m \in 0 .. 3
    OBVIOUS
  <2>3. 0 \in 0 .. Len(calls[j].calldata)
    <3>1. calls[j].calldata \in Seq(DOMAIN text)
      BY ItemsOfCalls, CallTyped DEF Going
    <3>2. QED
      BY <3>1
  <2>4. QED
    BY <2>1, <2>2, <2>3 DEF Somewhere
<1>5. ASSUME NEW j \in 1 .. Len(calls), NEW m \in 0 .. 3, AfterField(calls, j, m)
      PROVE  Stays /\ Somewhere(calls)'
  <2>1. Stays /\ ((m < 3 /\ BeforeField(calls, j, m + 1)') \/ BetweenCalls(calls, j)')
    BY <1>5, AfterFieldGoesOn
  <2>2. (m < 3 => m + 1 \in 1 .. 3) /\ j \in 0 .. Len(calls)
    BY <1>0
  <2>3. QED
    BY <2>1, <2>2 DEF Somewhere
<1>6. ASSUME NEW j \in 1 .. Len(calls), NEW k \in 1 .. Len(calls[j].calldata),
             BeforeFelt(calls, j, k)
      PROVE  Stays /\ Somewhere(calls)'
  <2>1. Stays /\ BetweenFelts(calls, j, k)'
    BY <1>6, BeforeFeltGoesOn
  <2>2. k \in 0 .. Len(calls[j].calldata)
    OBVIOUS
  <2>3. QED
    BY <2>1, <2>2 DEF Somewhere
<1>7. ASSUME NEW j \in 1 .. Len(calls), NEW k \in 0 .. Len(calls[j].calldata),
             BetweenFelts(calls, j, k)
      PROVE  Stays /\ Somewhere(calls)'
  <2>1. Stays /\ ((k < Len(calls[j].calldata) /\ BeforeFelt(calls, j, k + 1)')
                  \/ AfterField(calls, j, 3)')
    BY <1>7, BetweenFeltsGoesOn
  <2>2. k < Len(calls[j].calldata) => k + 1 \in 1 .. Len(calls[j].calldata)
    <3>1. calls[j].calldata \in Seq(DOMAIN text)
      BY ItemsOfCalls, CallTyped DEF Going
    <3>2. QED
      BY <3>1
  <2>3. 3 \in 0 .. 3
    OBVIOUS
  <2>4. QED
    BY <2>1, <2>2, <2>3 DEF Somewhere
<1>8. CASE AfterCalls(calls)
  BY <1>8, AfterCallsGoesOn
<1>9. QED
  BY <1>0, <1>1, <1>2, <1>3, <1>4, <1>5, <1>6, <1>7, <1>8 DEF Somewhere, Stays

LEMMA InputStays ==
    ASSUME [SerializerNext]_serializer
    PROVE  input' = input
BY DEF SerializerNext, serializer, serialize_u64, serialize_str, unsupported,
       serialize_newtype_struct, serialize_seq, serialize_tuple, serialize_struct,
       SeqElement, TupleElement, StructField, NextPart, end, Return, Over, Fail, Push, Begin

\* Once it is over nothing changes.
LEMMA ReturnedStays ==
    ASSUME EncodingInv, NEW calls \in input.calls, outcome = "Returned",
           [SerializerNext]_serializer
    PROVE  UNCHANGED serializer
<1>1. value = NoValue /\ frames = <<>>
  BY DEF EncodingInv, AfterCalls
<1>2. QED
  BY <1>1 DEF SerializerNext, serialize_u64, serialize_str, unsupported,
         serialize_newtype_struct, serialize_seq, serialize_tuple, serialize_struct,
         SeqElement, TupleElement, StructField, NextPart, end, Return, Over

LEMMA EncodingNext ==
    ASSUME EncodingInv, [SerializerNext]_serializer
    PROVE  EncodingInv'
<1>1. input' = input /\ input \in Inputs
  BY InputStays DEF EncodingInv
<1>2. SUFFICES ASSUME NEW calls \in input.calls
               PROVE  \/ outcome' = "Serializing" /\ Somewhere(calls)'
                      \/ outcome' = "Returned" /\ AfterCalls(calls)'
  BY <1>1 DEF EncodingInv
<1>3. CASE UNCHANGED serializer
  <2>1. UNCHANGED <<input, value, frames, output, outcome>>
    BY <1>3 DEF serializer
  <2>2. UNCHANGED <<Somewhere(calls), AfterCalls(calls)>>
    BY <2>1 DEF Somewhere, AfterCalls, BeforeCalls, BetweenCalls, BeforeCall, BeforeField,
                AfterField, BeforeFelt, BetweenFelts
  <2>3. QED
    BY <2>1, <2>2 DEF EncodingInv
<1>4. CASE SerializerNext /\ outcome = "Serializing"
  <2>1. Going(calls)
    BY <1>1, <1>4 DEF Going
  <2>2. Somewhere(calls)
    BY <1>4 DEF EncodingInv
  <2>3. QED
    BY <2>1, <2>2, SomewhereGoesOn
<1>5. CASE outcome = "Returned"
  <2>1. UNCHANGED serializer
    BY <1>5, ReturnedStays
  <2>2. QED
    BY <1>3, <2>1
<1>6. outcome = "Serializing" \/ outcome = "Returned"
  BY DEF EncodingInv
<1>7. QED
  BY <1>3, <1>4, <1>5, <1>6

(* The calls of a transaction are encoded alike by the two accounts,       *)
(* however many they are and however long their calldata                   *)
(* (WebauthnAccount::encode_calls through to_felts, against                *)
(* SessionAccount::encode_calls).                                          *)
THEOREM CallsEncodedAlike == SerializerSpec => []EncodersAgree
<1>1. SerializerInit => EncodingInv
  <2>1. SUFFICES ASSUME SerializerInit PROVE EncodingInv
    OBVIOUS
  <2>2. BeforeCalls /\ outcome = "Serializing" /\ input \in Inputs
    BY <2>1 DEF SerializerInit, BeforeCalls
  <2>3. QED
    BY <2>2 DEF EncodingInv, Somewhere
<1>2. EncodingInv /\ [SerializerNext]_serializer => EncodingInv'
  BY EncodingNext
<1>3. EncodingInv => EncodersAgree
  BY DEF EncodingInv, EncodersAgree, AfterCalls
<1>4. QED
  BY <1>1, <1>2, <1>3, PTL DEF SerializerSpec
=============================================================================
