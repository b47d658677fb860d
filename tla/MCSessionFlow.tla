---------------------------- MODULE MCSessionFlow ----------------------------
(* One session, two owners.  The first grants either of two policies, the  *)
(* second one of them; or the first grants a policy of a single call.      *)
EXTENDS SessionFlow

CONSTANTS k1, k2, sk, self, erc20, r0, r1, r2, r3, s1, s2, zeroFelt

MCFelts == {r0, r1, r2, r3, s1, s2, zeroFelt}

transfer == [to |-> erc20, selector |-> "transfer"]
approve == [to |-> erc20, selector |-> "approve"]
swap == [to |-> erc20, selector |-> "swap"]
mint == [to |-> erc20, selector |-> "mint"]

two == <<transfer, approve>>
three == <<swap, transfer, approve>>
one == <<transfer>>

several == {<<>>, two, three}
single == {one}

MCBundles == {<<>>, <<transfer>>, <<transfer, approve>>, <<approve, transfer>>,
              <<transfer, mint>>, <<transfer, transfer>>}

\* The third is a token as a careless application might make one up.
MCTokens == {<<r1, s1>>, <<r2, s1>>, <<r1, s2>>, <<r3, s1>>}
\* A token that is granted, and one that takes its place among the revoked.
MCRevocations == {<<r1, s1>>, <<r1, s2>>}

\* What an owner signs is the hash that set_policy has returned.
grant(policy) == session_hash(partial_signature(policy))

transactions ==
    {<<<<"transaction", self, bundle>>, sk, r0, s1>> : bundle \in MCBundles}

severalSigned ==
    transactions \union {<<grant(two), k1, r1, s1>>, <<grant(three), k1, r2, s1>>,
                         <<grant(two), k2, r3, s1>>}

singleSigned == transactions \union {<<grant(one), k1, r1, s1>>}
=============================================================================
