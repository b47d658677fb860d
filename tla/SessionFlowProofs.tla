------------------------- MODULE SessionFlowProofs -------------------------
(***************************************************************************)
(* Proofs about sessions, for any policies, bundles, tokens and owners:    *)
(* the flow is well typed; it implements SessionPermit; and what it signs  *)
(* for policies of several calls is accepted while the session holds, as   *)
(* the contract cuts the flat proofs where the SDK has joined them.        *)
(***************************************************************************)
EXTENDS SessionFlow, Groundwork

LEMMA TypeInit == Init => TypeOK
BY FlowConstants DEF Init, TypeOK, NoRoot

LEMMA TypeNext ==
    ASSUME TypeOK, [Next]_vars
    PROVE  TypeOK'
<1> USE DEF TypeOK, client, chain
<1>1. ASSUME NEW policy \in Policies, set_policy(policy) PROVE TypeOK'
  BY <1>1 DEF set_policy
<1>2. ASSUME NEW token \in Tokens, set_token(token) PROVE TypeOK'
  BY <1>2 DEF set_token, token_vec
<1>3. ASSUME NEW bundle \in Bundles, sign_execution(bundle) PROVE TypeOK'
  <2>1. CASE UNCHANGED sent
    BY <1>3, <2>1 DEF sign_execution
  <2>2. CASE session_token # <<>> /\ \E signed \in EcdsaSigned :
                sent' = sent \union
                      {[calls |-> bundle,
                        signature |-> session_signature(bundle, signed[3], signed[4])]}
    <3>1. PICK signed \in EcdsaSigned :
                sent' = sent \union
                      {[calls |-> bundle,
                        signature |-> session_signature(bundle, signed[3], signed[4])]}
      BY <2>2
    <3>2. \A r, s : session_signature(bundle, r, s).session_token = session_token
      BY DEF session_signature
    <3>3. \A t \in sent' : t.calls \in Bundles /\ t.signature.session_token \in Tokens
      BY <2>2, <3>1, <3>2
    <3> QED
      BY <1>3, <3>3 DEF sign_execution
  <2> QED
    BY <1>3, <2>1, <2>2 DEF sign_execution
<1>4. ASSUME NEW t \in sent, Judge(t) PROVE TypeOK'
  <2>1. ran'.bit \in {0, 1}
    BY <1>4 DEF Judge
  <2> QED
    BY <1>4, <2>1 DEF Judge
<1>5. ASSUME NEW owner \in Owners, Rotate(owner) PROVE TypeOK'
  BY <1>5 DEF Rotate
<1>6. ASSUME NEW token \in Revocations, Revoke(token) PROVE TypeOK'
  BY <1>6, FlowConstants DEF Revoke, revoke_session
<1>7. CASE Tick
  BY <1>7, FlowConstants DEF Tick
<1>8. CASE UNCHANGED vars
  BY <1>8 DEF vars
<1> QED
  BY <1>1, <1>2, <1>3, <1>4, <1>5, <1>6, <1>7, <1>8 DEF Next

\* The session, what it has signed and the account are well typed.
THEOREM SessionTyped == Spec => []TypeOK
<1>1. TypeOK /\ [Next]_vars => TypeOK'
  BY TypeNext
<1> QED
  BY TypeInit, <1>1, PTL DEF Spec

-----------------------------------------------------------------------------
(* The refinement of SessionPermit.                                        *)

\* Nothing is revoked to begin with: an empty slot holds no half of a token.
LEMMA InitRefines == Init => Permits!Init
<1>1. SUFFICES ASSUME Init PROVE EndedPermits = {}
  BY DEF Init, Permits!Init
<1>2. \A grant \in Grants : ~ token_revoked(Permit(grant).token)
  BY <1>1, GrantConstants DEF Init, token_revoked, Permit
<1> QED
  BY <1>2 DEF EndedPermits, AllPermits

\* Revoking a token ends its permits, and displaces those that share its slot.
LEMMA RevokeEnds ==
    ASSUME TypeOK, NEW token \in Revocations, Revoke(token)
    PROVE  Permits!End(token)
<1>1. /\ revoked \in [Felts -> Felts]
      /\ token \in Felts \X Felts
      /\ revoked' = [revoked EXCEPT ![token[1]] = token[2]]
  BY FlowConstants DEF TypeOK, Revoke, revoke_session
<1>2. ASSUME NEW permit \in AllPermits
      PROVE  permit \in EndedPermits'
                 <=> \/ permit.token[1] # token[1] /\ permit \in EndedPermits
                     \/ permit.token = token
  <2>1. PICK r \in Felts, s \in Felts : permit.token = <<r, s>>
    BY GrantConstants DEF AllPermits, Permit
  <2>2. permit \in EndedPermits <=> revoked[r] = s
    BY <2>1 DEF EndedPermits, token_revoked
  <2>3. permit \in EndedPermits' <=> revoked'[r] = s
    BY <2>1 DEF EndedPermits, AllPermits, token_revoked
  <2>4. permit.token = token <=> r = token[1] /\ s = token[2]
    BY <1>1, <2>1
  <2>5. revoked'[r] = IF r = token[1] THEN token[2] ELSE revoked[r]
    BY <1>1
  <2> QED
    BY <2>1, <2>2, <2>3, <2>4, <2>5
<1>3. EndedPermits \subseteq AllPermits /\ EndedPermits' \subseteq AllPermits
  BY DEF EndedPermits, AllPermits
<1>4. EndedPermits' = {permit \in EndedPermits : permit.token[1] # token[1]}
                          \union {permit \in AllPermits : permit.token = token}
  BY <1>2, <1>3
<1> QED
  BY <1>4 DEF Permits!End, Revoke, client

\* Every signed transaction carries the expiry of the session.
SentExpire == \A t \in sent : t.signature.session_expires = Expires

LEMMA SentExpireNext ==
    ASSUME SentExpire, [Next]_vars
    PROVE  SentExpire'
<1>1. CASE \E bundle \in Bundles : sign_execution(bundle)
  <2>1. \A bundle, r, s : session_signature(bundle, r, s).session_expires = Expires
    BY DEF session_signature
  <2> QED
    BY <1>1, <2>1 DEF SentExpire, sign_execution
<1>2. CASE \E t \in sent : Judge(t)
  BY <1>2 DEF SentExpire, Judge
<1>3. CASE UNCHANGED sent
  BY <1>3 DEF SentExpire
<1> QED
  BY <1>1, <1>2, <1>3 DEF Next, vars, set_policy, set_token, Rotate, Revoke, Tick

\* A verdict of VALIDATED has passed every check.
LEMMA ValidatedMeans ==
    ASSUME NEW t \in sent,
           validate_signature(public_key, t.signature, t.calls, tx_hash(t.calls), now)
               = "VALIDATED"
    PROVE  /\ ~ session_expired(t.signature, now)
           /\ ~ token_revoked(t.signature.session_token)
           /\ check_policy(t.calls, t.signature.root, t.signature.proofs)
BY DEF validate_signature

\* What is accepted runs under the permit of the grant it carries.
LEMMA JudgeRuns ==
    ASSUME TypeOK, SentExpire, NEW t \in sent, Judge(t)
    PROVE  [Permits!Next]_Permits!vars
<1> DEFINE verdict == validate_signature(public_key, t.signature, t.calls,
                                         tx_hash(t.calls), now)
<1>0. UNCHANGED <<public_key, EndedPermits, now>>
  BY DEF Judge, client, chain, EndedPermits, AllPermits, token_revoked
<1>1. CASE verdict # "VALIDATED"
  <2>1. UNCHANGED ran
    BY <1>1 DEF Judge
  <2> QED
    BY <1>0, <2>1 DEF Permits!vars
<1>2. CASE verdict = "VALIDATED"
  <2>1. PICK grant \in Grants :
            /\ granted(t, grant) /\ grant[2] = public_key
            /\ ran' = [calls |-> t.calls, permit |-> Permit(grant), bit |-> 1 - ran.bit]
    BY <1>2 DEF Judge
  <2>2. grant[1] = <<"session", t.signature.session_key, t.signature.session_expires,
                     t.signature.root, Self>>
    BY <2>1 DEF granted, compute_session_hash
  <2>3. Permit(grant) \in AllPermits
    BY DEF AllPermits
  <2>4. Permit(grant).owner = public_key
    BY <2>1 DEF Permit
  <2>5. Permit(grant) \notin EndedPermits
    <3>1. Permit(grant).token = t.signature.session_token
      BY <2>1 DEF Permit, granted
    <3> QED
      BY <1>2, <3>1, ValidatedMeans DEF EndedPermits
  <2>6. now < Permit(grant).expires
    <3>1. Permit(grant).expires = t.signature.session_expires
      BY <2>2 DEF Permit
    <3>2. ~ (t.signature.session_expires <= now)
      BY <1>2, ValidatedMeans DEF session_expired
    <3> QED
      BY <3>1, <3>2, FlowConstants DEF TypeOK, SentExpire
  <2>7. \A i \in DOMAIN t.calls : Permits!Names(t.calls[i]) \in Permit(grant).calls
    <3>1. Permit(grant).calls = t.signature.root.leaves
      BY <2>2 DEF Permit
    <3>2. DOMAIN t.calls = 1 .. Len(t.calls)
      <4>1. t.calls \in Seq({t.calls[i] : i \in DOMAIN t.calls})
        BY FlowConstants DEF TypeOK
      <4> QED
        BY <4>1
    <3> QED
      BY <1>2, <3>1, <3>2, ValidatedMeans
         DEF check_policy, merkle_verify, compute_call_hash, Permits!Names
  <2>8. t.calls \in Bundles
    BY DEF TypeOK
  <2>9. Permits!Run(t.calls, Permit(grant))
    BY <1>0, <2>1, <2>4, <2>5, <2>6, <2>7 DEF Permits!Run
  <2> QED
    BY <2>3, <2>8, <2>9 DEF Permits!Next
<1> QED
  BY <1>1, <1>2

LEMMA NextRefines ==
    ASSUME TypeOK, SentExpire, [Next]_vars
    PROVE  [Permits!Next]_Permits!vars
<1>1. ASSUME UNCHANGED <<chain, ran>>
      PROVE  UNCHANGED Permits!vars
  BY <1>1 DEF chain, Permits!vars, EndedPermits, AllPermits, token_revoked
<1>2. CASE \E policy \in Policies : set_policy(policy)
  BY <1>1, <1>2 DEF set_policy
<1>3. CASE \E token \in Tokens : set_token(token)
  BY <1>1, <1>3 DEF set_token
<1>4. CASE \E bundle \in Bundles : sign_execution(bundle)
  BY <1>1, <1>4 DEF sign_execution
<1>5. CASE \E t \in sent : Judge(t)
  BY <1>5, JudgeRuns
<1>6. ASSUME NEW owner \in Owners, Rotate(owner)
      PROVE  Permits!Next
  <2>1. Permits!Rotate
    BY <1>6 DEF Rotate, Permits!Rotate, EndedPermits, AllPermits, token_revoked
  <2> QED
    BY <2>1 DEF Permits!Next
<1>7. CASE \E token \in Revocations : Revoke(token)
  BY <1>7, RevokeEnds DEF Permits!Next
<1>8. CASE Tick
  <2>1. Permits!Pass
    BY <1>8 DEF Tick, Permits!Pass, EndedPermits, AllPermits, token_revoked
  <2> QED
    BY <2>1 DEF Permits!Next
<1>9. CASE UNCHANGED vars
  BY <1>1, <1>9 DEF vars
<1> QED
  BY <1>2, <1>3, <1>4, <1>5, <1>6, <1>7, <1>8, <1>9 DEF Next

\* A session keeps its promise whatever is signed, revoked and rotated in whatever
\* order: nothing runs but the calls of a permit of the owner of the moment, while
\* its token is not revoked, and only a token with the same r ends a revocation.
THEOREM SessionKeepsPromise == Spec => KeepsPromise
<1>1. Init => SentExpire
  BY DEF Init, SentExpire
<1>2. SentExpire /\ [Next]_vars => SentExpire'
  BY SentExpireNext
<1>3. TypeOK /\ SentExpire /\ [Next]_vars => [Permits!Next]_Permits!vars
  BY NextRefines
<1> QED
  BY InitRefines, SessionTyped, <1>1, <1>2, <1>3, PTL DEF Spec, KeepsPromise, Permits!Spec

-----------------------------------------------------------------------------
\* What the policy's tree is like.
LEMMA HeightOfSeveral ==
    ASSUME NEW n \in Nat, n > 1
    PROVE  height(n) \in Nat \ {0}
<1> DEFINE h == height(n)
           Fits(k) == n <= power(2, k) /\ (k > 0 => power(2, k - 1) < n)
<1>1. h = CHOOSE k \in 0 .. n : Fits(k)
  BY DEF height
<1>2. \E k \in 0 .. n : Fits(k)
  BY LeastPower
<1>3. h \in 0 .. n /\ Fits(h)
  <2> HIDE DEF h, Fits
  <2> QED
    BY <1>1, <1>2
<1>4. power(2, 0) = 1
  BY PowerZero
<1>5. h # 0
  <2> HIDE DEF h
  <2> QED
    BY <1>3, <1>4
<1> HIDE DEF h
<1> QED
  BY <1>3, <1>5 DEF h

\* The session holds a policy of the owner's, with the proofs of its own tree.
ClientInv ==
    \/ calls = <<>>
    \/ \E policy \in Policies \ {<<>>} :
          calls = with_proofs(policy) /\ root = policy_root(policy)

\* A permitted call is a leaf, and the proof found for it is its own.
LEMMA ProofOfCall ==
    ASSUME NEW policy \in Policies \ {<<>>}, calls = with_proofs(policy),
           NEW call, permitted(call)
    PROVE  /\ compute_call_hash(call) \in policy_root(policy).leaves
           /\ call_proof(call) = merkle_proof(policy_root(policy), compute_call_hash(call))
<1> DEFINE Same(i) == same_call(calls[i].call, call)
           T == {i \in DOMAIN calls : Same(i)}
           First(i) == Same(i) /\ \A j \in 1 .. i - 1 : ~ Same(j)
           first == CHOOSE i \in DOMAIN calls : First(i)
<1>1. DOMAIN calls = DOMAIN policy /\ DOMAIN policy = 1 .. Len(policy) /\ Len(policy) \in Nat
  <2>1. policy \in Seq({policy[i] : i \in DOMAIN policy})
    BY FlowConstants
  <2> QED
    BY <2>1 DEF with_proofs
<1>2. T # {} /\ T \subseteq Nat
  BY <1>1 DEF permitted
<1>3. PICK least \in T : \A m \in T : ~ (m < least)
  <2> HIDE DEF T
  <2> QED
    BY <1>2, LeastNumber
<1>4. least \in DOMAIN calls /\ First(least)
  <2>1. least \in 1 .. Len(policy) /\ Same(least)
    BY <1>1, <1>3
  <2>2. ASSUME NEW j \in 1 .. least - 1, Same(j) PROVE FALSE
    <3> HIDE DEF Same
    <3>1. j \in DOMAIN calls /\ j < least
      BY <1>1, <2>1
    <3> QED
      BY <1>3, <2>2, <3>1
  <2> HIDE DEF Same
  <2> QED
    BY <1>1, <2>1, <2>2
<1>5. first \in DOMAIN calls /\ Same(first)
  <2> HIDE DEF Same
  <2>1. \E i \in DOMAIN calls : First(i)
    BY <1>4
  <2>2. first \in DOMAIN calls /\ First(first)
    <3> HIDE DEF First
    <3> QED
      BY <2>1
  <2> QED
    BY <2>2
<1>6. call_proof(call) = calls[first].proof
  BY DEF call_proof
<1> HIDE DEF first
<1>7. /\ calls[first].call = policy[first]
      /\ calls[first].proof = merkle_proof(policy_root(policy), call_hash(policy[first]))
  BY <1>1, <1>5 DEF with_proofs
<1>8. call_hash(policy[first]) = compute_call_hash(call)
  BY <1>5, <1>7 DEF same_call, call_hash, compute_call_hash
<1>9. call_hash(policy[first]) \in policy_root(policy).leaves
  BY <1>1, <1>5 DEF policy_root
<1> QED
  BY <1>6, <1>7, <1>8, <1>9

\* The proofs of a bundle, end to end.
ProofsOf(S, parts, bundle, n) ==
    \A i \in 1 .. n : parts[i] = call_proof(bundle[i]) /\ parts[i] \in Seq(S)

LEMMA FlattenLays ==
    ASSUME NEW S, NEW bundle, Len(bundle) \in Nat,
           NEW parts, ProofsOf(S, parts, bundle, Len(bundle))
    PROVE  \E f \in [0 .. Len(bundle) -> Seq(S)] :
              Laid(f, parts, Len(bundle)) /\ flatten(bundle) = f[Len(bundle)]
<1> DEFINE n == Len(bundle)
           onto(laid, k) == laid \o call_proof(bundle[k])
           Computes(f) == f = [i \in 0 .. n |-> IF i = 0 THEN <<>> ELSE onto(f[i - 1], i)]
           g == CHOOSE h : Computes(h)
<1>1. n \in Nat /\ ProofsOf(S, parts, bundle, n)
  OBVIOUS
<1>2. flatten(bundle) = g[n]
  BY DEF flatten
<1> HIDE DEF n
<1>3. PICK f \in [0 .. n -> Seq(S)] : Laid(f, parts, n)
  BY <1>1, LayingExists DEF ProofsOf
<1>4. f[0] = <<>> /\ \A k \in 1 .. n : f[k] = onto(f[k - 1], k)
  BY <1>1, <1>3 DEF Laid, ProofsOf
<1>5. Computes(f)
  <2> HIDE DEF onto
  <2>1. \A k \in 0 .. n : f[k] = IF k = 0 THEN <<>> ELSE onto(f[k - 1], k)
    BY <1>1, <1>4
  <2> QED
    BY <1>3, <2>1
<1>6. Computes(g)
  <2> HIDE DEF Computes
  <2> QED
    BY <1>5
<1>7. Laid(g, parts, n)
  <2>1. g[0] = <<>> /\ \A k \in 1 .. n : g[k] = onto(g[k - 1], k)
    <3> HIDE DEF g, onto
    <3> QED
      BY <1>1, <1>6
  <2> HIDE DEF g, Computes
  <2> QED
    BY <1>1, <2>1 DEF Laid, ProofsOf
<1> HIDE DEF g
<1>8. f[n] = g[n]
  <2>1. \A k \in 0 .. n : f[k] = g[k]
    BY <1>1, <1>3, <1>7, LayingsAgree
  <2> QED
    BY <1>1, <2>1
<1> HIDE DEF Computes
<1> QED
  BY <1>2, <1>3, <1>8 DEF n

\* What the SDK signs passes the checks that the contract makes of it whatever the
\* moment: the number of proofs, the session key's signature, every proof.
Checks(t) ==
    /\ proofs_len(t.signature.proofs) = Len(t.calls)
    /\ check_policy(t.calls, t.signature.root, t.signature.proofs)
    /\ check_ecdsa_signature(tx_hash(t.calls), t.signature.session_key,
                             t.signature.r, t.signature.s)

SeveralPermitted == \A policy \in Policies : Len(policy) # 1

\* Cut by the contract, the proofs are those that were laid end to end.
ProofsAlike(S, bundle, h) == \A i \in 1 .. Len(bundle) : Text(S, call_proof(bundle[i]), h)

CutApart(bundle, proofs) ==
    /\ proofs_len(proofs) = Len(bundle)
    /\ \A i \in 1 .. Len(bundle) : proofs_at(proofs, i) = call_proof(bundle[i])

LEMMA ProofsCut ==
    ASSUME NEW S, NEW bundle, Len(bundle) \in Nat \ {0}, NEW h \in Nat \ {0},
           ProofsAlike(S, bundle, h),
           NEW proofs,
           proofs.single_proof_len = Len(flatten(bundle)) \div Len(bundle),
           proofs.proofs_flat = flatten(bundle)
    PROVE  CutApart(bundle, proofs)
<1> DEFINE n == Len(bundle)
           parts == [i \in 1 .. n |-> call_proof(bundle[i])]
           flat == flatten(bundle)
<1>0. n \in Nat \ {0} /\ n = Len(bundle)
  OBVIOUS
<1>1. \A i \in 1 .. n : parts[i] = call_proof(bundle[i]) /\ Text(S, parts[i], h)
  BY DEF ProofsAlike
<1> HIDE DEF parts, n
<1>2. \A i \in 1 .. n : parts[i] \in Seq(S)
  BY <1>1 DEF Text
<1>3. PICK f : f \in [0 .. n -> Seq(S)] /\ Laid(f, parts, n) /\ flat = f[n]
  <2> HIDE DEF flat
  <2>1. Len(bundle) \in Nat /\ ProofsOf(S, parts, bundle, Len(bundle))
    BY <1>1, <1>2 DEF ProofsOf, n
  <2>2. \E g \in [0 .. Len(bundle) -> Seq(S)] :
           Laid(g, parts, Len(bundle)) /\ flatten(bundle) = g[Len(bundle)]
    BY <2>1, FlattenLays, Zenon
  <2> QED
    BY <2>2 DEF flat, n
<1>4. Text(S, flat, n * h) /\ \A i \in 1 .. n : At(flat, (i - 1) * h, parts[i])
  <2>1. \A k \in 1 .. n : Text(S, parts[k], h)
    BY <1>1
  <2>2. \A k \in 0 .. n :
              /\ Text(S, f[k], k * h)
              /\ \A i \in 1 .. k : At(f[k], (i - 1) * h, parts[i])
    <3> HIDE DEF flat
    <3> QED
      BY <1>0, <1>3, <2>1, PartsFound
  <2>3. n \in 0 .. n
    BY <1>0
  <2> QED
    BY <1>0, <1>3, <2>2, <2>3
<1> HIDE DEF flat
<1>5. proofs.single_proof_len = h
  <2>1. n * h = h * n
    BY <1>0
  <2>2. (h * n) \div n = h
    BY <1>0, QuotientOfProduct
  <2> QED
    BY <1>0, <1>4, <2>1, <2>2 DEF Text, flat
<1>6. proofs_len(proofs) = n
  <2>1. Len(flat) = n * h
    BY <1>4 DEF Text
  <2>2. (n * h) \div h = n
    BY <1>0, QuotientOfProduct
  <2>3. proofs.proofs_flat = flat
    BY DEF flat
  <2>4. proofs_len(proofs) = Len(proofs.proofs_flat) \div proofs.single_proof_len
    BY <1>5 DEF proofs_len
  <2> QED
    BY <1>5, <2>1, <2>2, <2>3, <2>4
<1>7. ASSUME NEW i \in 1 .. n PROVE proofs_at(proofs, i) = call_proof(bundle[i])
  <2> DEFINE p == (i - 1) * h
  <2>1. p \in Nat /\ i * h = p + h
    <3>1. i - 1 \in Nat /\ (i - 1) + 1 = i
      BY <1>0
    <3>2. (i - 1) * h \in Nat /\ ((i - 1) + 1) * h = (i - 1) * h + h
      BY <3>1, TimesMore
    <3> QED
      BY <3>1, <3>2
  <2>2. At(flat, p, parts[i])
    BY <1>4
  <2>3. flat \in Seq(S) /\ parts[i] \in Seq(S) /\ Len(parts[i]) = h
    BY <1>1, <1>4 DEF Text
  <2>4. proofs_at(proofs, i) = SubSeq(flat, p + 1, i * h)
    BY <1>5 DEF proofs_at, flat
  <2> HIDE DEF p
  <2>5. SubSeq(flat, p + 1, p + h) = parts[i]
    BY <2>1, <2>2, <2>3, CutAt
  <2> QED
    BY <1>1, <2>1, <2>4, <2>5
<1> QED
  BY <1>0, <1>6, <1>7 DEF CutApart

\* What the session signs passes the contract's checks.
LEMMA SignedChecks ==
    ASSUME SeveralPermitted, ClientInv,
           NEW bundle \in Bundles, bundle # <<>>,
           \A i \in DOMAIN bundle : permitted(bundle[i]),
           NEW signed \in EcdsaSigned, signed[1] = tx_hash(bundle), signed[2] = SessionKey
    PROVE  Checks([calls |-> bundle,
                   signature |-> session_signature(bundle, signed[3], signed[4])])
<1> DEFINE n == Len(bundle)
           t == [calls |-> bundle,
                 signature |-> session_signature(bundle, signed[3], signed[4])]
<1>1. n \in Nat \ {0} /\ DOMAIN bundle = 1 .. n
  <2>1. bundle \in Seq({bundle[i] : i \in DOMAIN bundle})
    BY FlowConstants
  <2>2. Len(bundle) \in Nat /\ DOMAIN bundle = 1 .. Len(bundle)
    BY <2>1
  <2>3. Len(bundle) # 0
    BY <2>1
  <2> QED
    BY <2>2, <2>3
<1>2. PICK policy \in Policies \ {<<>>} :
          calls = with_proofs(policy) /\ root = policy_root(policy)
  <2>1. permitted(bundle[1])
    BY <1>1
  <2>2. calls # <<>>
    BY <2>1 DEF permitted
  <2> QED
    BY <2>2 DEF ClientInv
<1> DEFINE h == height(Len(policy))
           leaves == {call_hash(policy[i]) : i \in DOMAIN policy}
           S == leaves \X Nat
<1>3. h \in Nat \ {0}
  <2>1. policy \in Seq({policy[i] : i \in DOMAIN policy}) /\ policy # <<>>
    BY FlowConstants
  <2>2. Len(policy) \in Nat /\ Len(policy) # 0
    BY <2>1
  <2>3. Len(policy) # 1
    BY DEF SeveralPermitted
  <2> DEFINE m == Len(policy)
  <2>4. m \in Nat /\ m # 0 /\ m # 1
    BY <2>2, <2>3
  <2> HIDE DEF m
  <2>5. m > 1
    BY <2>4
  <2>6. height(m) \in Nat \ {0}
    BY <2>4, <2>5, HeightOfSeveral
  <2> QED
    BY <2>6 DEF m
<1>4. root.leaves = leaves /\ root.height = h
  BY <1>2 DEF policy_root
<1> HIDE DEF h, leaves
<1>5. ASSUME NEW i \in 1 .. n
      PROVE  /\ compute_call_hash(bundle[i]) \in root.leaves
             /\ call_proof(bundle[i]) = merkle_proof(root, compute_call_hash(bundle[i]))
  <2>1. permitted(bundle[i])
    BY <1>1
  <2>2. /\ compute_call_hash(bundle[i]) \in policy_root(policy).leaves
        /\ call_proof(bundle[i]) = merkle_proof(policy_root(policy), compute_call_hash(bundle[i]))
    BY <1>2, <2>1, ProofOfCall
  <2> QED
    BY <1>2, <2>2
<1>6. ASSUME NEW leaf \in leaves PROVE Text(S, merkle_proof(root, leaf), h)
  <2>1. merkle_proof(root, leaf) = [level \in 1 .. h |-> <<leaf, level>>]
    BY <1>4 DEF merkle_proof
  <2>2. merkle_proof(root, leaf) \in [1 .. h -> S]
    BY <2>1
  <2>3. merkle_proof(root, leaf) \in Seq(S) /\ Len(merkle_proof(root, leaf)) = h
    <3> HIDE DEF S
    <3> QED
      BY <1>3, <2>2
  <2> QED
    BY <2>3 DEF Text
<1> HIDE DEF S
<1>7. \A i \in 1 .. n : Text(S, call_proof(bundle[i]), h)
  BY <1>4, <1>5, <1>6
<1>8. /\ t.calls = bundle
      /\ t.signature.session_key = SessionKey /\ t.signature.root = root
      /\ t.signature.r = signed[3] /\ t.signature.s = signed[4]
      /\ t.signature.proofs.single_proof_len = Len(flatten(bundle)) \div Len(bundle)
      /\ t.signature.proofs.proofs_flat = flatten(bundle)
  BY DEF session_signature
<1> HIDE DEF t
<1> DEFINE proofs == t.signature.proofs
<1>9. proofs_len(proofs) = n /\ \A i \in 1 .. n : proofs_at(proofs, i) = call_proof(bundle[i])
  <2>1. /\ proofs.single_proof_len = Len(flatten(bundle)) \div Len(bundle)
        /\ proofs.proofs_flat = flatten(bundle)
    BY <1>8
  <2>2. Len(bundle) \in Nat \ {0} /\ ProofsAlike(S, bundle, h)
    BY <1>1, <1>7 DEF ProofsAlike
  <2> HIDE DEF proofs
  <2>3. CutApart(bundle, proofs)
    BY <1>3, <2>1, <2>2, ProofsCut
  <2> QED
    BY <2>3 DEF CutApart
<1> HIDE DEF proofs
<1>10. check_policy(bundle, root, proofs)
  <2>1. \A i \in 1 .. n : merkle_verify(root, compute_call_hash(bundle[i]), proofs_at(proofs, i))
    BY <1>5, <1>9 DEF merkle_verify
  <2> QED
    BY <2>1 DEF check_policy
<1>11. check_ecdsa_signature(tx_hash(bundle), SessionKey, signed[3], signed[4])
  BY FlowConstants DEF check_ecdsa_signature
<1>12. Checks(t)
  BY <1>8, <1>9, <1>10, <1>11 DEF Checks, proofs
<1> QED
  BY <1>12 DEF t

SentChecks == \A t \in sent : Checks(t)

LEMMA ClientNext ==
    ASSUME ClientInv, [Next]_vars
    PROVE  ClientInv'
<1>1. ASSUME NEW policy \in Policies, set_policy(policy) PROVE ClientInv'
  <2>1. CASE UNCHANGED <<calls, root>>
    BY <2>1 DEF ClientInv
  <2>2. CASE policy # <<>> /\ calls' = with_proofs(policy) /\ root' = policy_root(policy)
    BY <2>2 DEF ClientInv
  <2> QED
    BY <1>1, <2>1, <2>2 DEF set_policy
<1>2. CASE UNCHANGED <<calls, root>>
  BY <1>2 DEF ClientInv
<1> QED
  BY <1>1, <1>2 DEF Next, vars, client, set_token, sign_execution, Judge, Rotate, Revoke, Tick

LEMMA SentChecksNext ==
    ASSUME SeveralPermitted, ClientInv, SentChecks, [Next]_vars
    PROVE  SentChecks'
<1>1. ASSUME NEW bundle \in Bundles, sign_execution(bundle) PROVE SentChecks'
  <2>1. CASE UNCHANGED sent
    BY <2>1 DEF SentChecks
  <2>2. CASE /\ \A i \in DOMAIN bundle : permitted(bundle[i])
             /\ bundle # <<>>
             /\ \E signed \in EcdsaSigned :
                   /\ signed[1] = tx_hash(bundle) /\ signed[2] = SessionKey
                   /\ sent' = sent \union
                         {[calls |-> bundle,
                           signature |-> session_signature(bundle, signed[3], signed[4])]}
    <3>1. PICK signed \in EcdsaSigned :
              /\ signed[1] = tx_hash(bundle) /\ signed[2] = SessionKey
              /\ sent' = sent \union
                    {[calls |-> bundle,
                      signature |-> session_signature(bundle, signed[3], signed[4])]}
      BY <2>2
    <3> DEFINE t == [calls |-> bundle,
                     signature |-> session_signature(bundle, signed[3], signed[4])]
    <3>2. Checks(t)
      BY <2>2, <3>1, SignedChecks
    <3> HIDE DEF t
    <3>3. sent' = sent \union {t}
      BY <3>1 DEF t
    <3> QED
      BY <3>2, <3>3 DEF SentChecks
  <2> QED
    BY <1>1, <2>1, <2>2 DEF sign_execution
<1>2. CASE sent' \subseteq sent
  BY <1>2 DEF SentChecks
<1> QED
  BY <1>1, <1>2 DEF Next, vars, set_policy, set_token, Judge, Rotate, Revoke, Tick

\* A signed transaction whose session holds passes every check.
LEMMA HeldIsValidated ==
    ASSUME TypeOK, SentExpire, NEW t \in sent, Checks(t), Holds(t)
    PROVE  validate_signature(public_key, t.signature, t.calls, tx_hash(t.calls), now)
               = "VALIDATED"
<1>1. PICK grant \in Grants :
          /\ grant[1] = session_hash(t.signature) /\ grant[2] = public_key
          /\ <<grant[3], grant[4]>> = t.signature.session_token
          /\ now < Expires
          /\ ~ token_revoked(t.signature.session_token)
  BY DEF Holds
<1> DEFINE token == t.signature.session_token
<1>2. token = <<grant[3], grant[4]>>
  BY <1>1
<1>3. Len(token) = 2 /\ token[1] = grant[3] /\ token[2] = grant[4]
  BY <1>2
<1>4. ~ session_expired(t.signature, now)
  <2>1. t.signature.session_expires = Expires /\ now \in Nat /\ Expires \in Nat
    BY FlowConstants DEF SentExpire, TypeOK
  <2> QED
    BY <1>1, <2>1 DEF session_expired
<1>5. check_ecdsa_signature(compute_session_hash(t.signature, Self), public_key,
                            token[1], token[2])
  <2>1. grant \in EcdsaSigned /\ grant = <<grant[1], grant[2], grant[3], grant[4]>>
    BY FlowConstants DEF Grants
  <2>2. grant[1] = compute_session_hash(t.signature, Self)
    BY <1>1 DEF session_hash, compute_session_hash
  <2> HIDE DEF token
  <2> QED
    BY <1>1, <1>3, <2>1, <2>2 DEF check_ecdsa_signature
<1>6. ~ (Len(token) < 2) /\ ~ token_revoked(token)
  BY <1>1, <1>3
<1> QED
  BY <1>4, <1>5, <1>6 DEF Checks, validate_signature

\* What the SDK signs for a policy of several calls, the contract accepts for as long
\* as the session holds, in whatever order owners, tokens and policies change: the
\* hashes agree, and the proofs laid end to end are cut where they were joined.  The
\* policy of a single call, whose proofs are empty, is the one it fails for.
THEOREM SignedByHeldSessionAccepted ==
    ASSUME SeveralPermitted
    PROVE  Spec => SignedIsAccepted
<1> DEFINE Accepted == \A t \in sent \ sent' : Holds(t) => result' = "VALIDATED"
<1>1. Init => ClientInv /\ SentChecks /\ SentExpire
  BY DEF Init, ClientInv, SentChecks, SentExpire
<1>2. ClientInv /\ SentChecks /\ SentExpire /\ [Next]_vars
          => (ClientInv /\ SentChecks /\ SentExpire)'
  BY ClientNext, SentChecksNext, SentExpireNext
<1>3. TypeOK /\ SentChecks /\ SentExpire /\ [Next]_vars => [Accepted]_vars
  <2> SUFFICES ASSUME TypeOK, SentChecks, SentExpire, [Next]_vars,
                      NEW t \in sent \ sent', Holds(t)
               PROVE  result' = "VALIDATED"
    OBVIOUS
  <2>1. PICK u \in sent : Judge(u)
    BY DEF Next, vars, set_policy, set_token, sign_execution, Rotate, Revoke, Tick
  <2>2. t = u
    BY <2>1 DEF Judge
  <2>3. Checks(t)
    BY DEF SentChecks
  <2> QED
    BY <2>1, <2>2, <2>3, HeldIsValidated DEF Judge
<1> QED
  BY <1>1, <1>2, <1>3, SessionTyped, PTL DEF Spec, SignedIsAccepted
=============================================================================
