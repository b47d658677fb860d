--------------------------- MODULE AccountProofs ---------------------------
(***************************************************************************)
(* Proofs about the account for every set of keys, contracts, transactions *)
(* and signatures.                                                         *)
(***************************************************************************)
EXTENDS Account, TLAPS, SequenceTheorems

\* A SubSeq up to the end loses its first element as the start moves on.
LEMMA TailOfSuffix ==
    ASSUME NEW S, NEW s \in Seq(S), NEW n \in 0 .. Len(s),
           SubSeq(s, n + 1, Len(s)) # <<>>
    PROVE  /\ n + 1 \in DOMAIN s
           /\ Head(SubSeq(s, n + 1, Len(s))) = s[n + 1]
           /\ Tail(SubSeq(s, n + 1, Len(s))) = SubSeq(s, n + 2, Len(s))
<1>1. n + 1 \in DOMAIN s
  BY SubSeqProperties, EmptySeq
<1>2. QED
  BY <1>1, SubSeqProperties, HeadTailProperties

-----------------------------------------------------------------------------
(* Every variable keeps its type: no entry point, whoever calls it, writes *)
(* a value of another type, and what a revert restores is storage too.     *)
LEMMA EntryKeepsTypes ==
    ASSUME TypeOK, ConstantsTyped, NEW e, WellTyped(e), NEW rest \in Seq(Calls),
           NEW caller, entry_accepts(caller, e), caller # Zero,
           entry_effect(e, rest)
    PROVE  /\ Account_public_key' \in Keys \union {NoKey}
           /\ webauthn_public_key' \in Points \union {NoPoint}
           /\ revoked' \in [Felts -> Felts]
           /\ pending' = rest
<1>1. e.selector # "__execute__"
  BY DEF entry_accepts, execute_accepts, Setters
<1>2. Account_public_key' \in Keys \union {NoKey}
  BY DEF entry_effect, TypeOK, WellTyped
<1>3. webauthn_public_key' \in Points \union {NoPoint}
  BY DEF entry_effect, TypeOK, WellTyped
<1>4. revoked' \in [Felts -> Felts]
  <2>1. CASE e.selector = "revoke_session"
    <3>1. e.data \in Seq(Felts) /\ Len(e.data) >= 2
      BY <2>1 DEF WellTyped, entry_accepts, revoke_session_accepts, Setters
    <3>2. e.data[2] \in Felts
      BY <3>1
    <3>3. QED
      BY <2>1, <3>2 DEF entry_effect, revoke_session, TypeOK
  <2>2. CASE e.selector # "revoke_session"
    BY <2>2 DEF entry_effect, TypeOK
  <2>3. QED
    BY <2>1, <2>2
<1>5. pending' = rest
  BY <1>1 DEF entry_effect
<1>6. QED
  BY <1>2, <1>3, <1>4, <1>5

LEMMA ForeignCalls == ForeignTx.body.calls = <<>>
BY DEF ForeignTx

LEMMA CallsTyped ==
    ASSUME TypeOK
    PROVE  tx.body.calls \in Seq(Calls)
<1>1. CASE tx \in Txs
  BY <1>1, ConstantsTyped DEF ConstantsTyped
<1>2. CASE tx = ForeignTx
  <2>1. tx.body.calls = <<>>
    BY <1>2, ForeignCalls
  <2>2. QED
    BY <2>1
<1>3. QED
  BY <1>1, <1>2 DEF TypeOK

LEMMA RevertKeepsTypes ==
    ASSUME TypeOK, Revert
    PROVE  TypeOK'
<1>1. pending' \in Seq(Calls)
  BY DEF Revert
<1>2. QED
  BY <1>1 DEF TypeOK, Revert

LEMMA InitTyped ==
    ASSUME Init, ConstantsTyped
    PROVE  TypeOK
<1>1. pending \in Seq(Calls)
  BY DEF Init
<1>2. QED
  BY <1>1 DEF Init, TypeOK, storage, ConstantsTyped

LEMMA NextKeepsTypes ==
    ASSUME TypeOK, [Next]_vars
    PROVE  TypeOK'
<1> USE AddressesDiffer, ConstantsTyped
<1>1. ASSUME NEW owner \in Owners, Constructor(owner) PROVE TypeOK'
  BY <1>1 DEF Constructor, TypeOK, ConstantsTyped
<1>2. ASSUME NEW t \in Txs, Validate(t) PROVE TypeOK'
  BY <1>2 DEF Validate, TypeOK, storage
<1>3. ASSUME NEW t \in Txs, Declare(t) PROVE TypeOK'
  BY <1>3 DEF Declare, TypeOK, vars, storage, sequencer
<1>4. CASE Execute
  <2>1. CASE Revert
    BY <2>1, RevertKeepsTypes
  <2>2. CASE pending' = tx.body.calls /\ phase' = "executing"
             /\ UNCHANGED <<storage, tx, callee, saved, now>>
    <3>1. tx.body.calls \in Seq(Calls)
      BY CallsTyped
    <3>2. QED
      BY <2>2, <3>1 DEF TypeOK, storage
  <2>3. QED
    BY <1>4, <2>1, <2>2 DEF Execute
<1>5. ASSUME NEW contract \in Contracts, ForeignTransaction(contract) PROVE TypeOK'
  BY <1>5 DEF ForeignTransaction, TypeOK, storage
<1>6. CASE CallContract
  <2>1. Tail(pending) \in Seq(Calls)
    BY <1>6 DEF CallContract, TypeOK
  <2>2. QED
    BY <1>6, <2>1 DEF CallContract, TypeOK, storage
<1>7. CASE CallSelf
  <2>1. CASE Revert
    BY <2>1, RevertKeepsTypes
  <2>2. CASE /\ entry_accepts(Self, Head(pending))
             /\ entry_effect(Head(pending), Tail(pending))
             /\ UNCHANGED <<phase, tx, callee, saved, now>>
    <3>1. Head(pending) \in Calls /\ Tail(pending) \in Seq(Calls)
      BY <1>7 DEF CallSelf, TypeOK
    <3>2. WellTyped(Head(pending))
      BY <3>1 DEF ConstantsTyped
    <3>3. QED
      BY <2>2, <3>1, <3>2, EntryKeepsTypes, AddressesDiffer DEF TypeOK, AddressesDiffer
  <2>3. QED
    BY <1>7, <2>1, <2>2 DEF CallSelf
<1>8. CASE CallNowhere
  BY <1>8, RevertKeepsTypes DEF CallNowhere
<1>9. ASSUME NEW caller \in Contracts, NEW e \in Entries, Callback(caller, e) PROVE TypeOK'
  <2>1. CASE Revert
    BY <2>1, RevertKeepsTypes
  <2>2. CASE /\ entry_accepts(caller, e)
             /\ entry_effect(e, pending)
             /\ UNCHANGED <<phase, tx, callee, saved, now>>
    <3>1. WellTyped(e) /\ pending \in Seq(Calls) /\ caller # Zero
      BY DEF ConstantsTyped, TypeOK, AddressesDiffer
    <3>2. QED
      BY <2>2, <3>1, EntryKeepsTypes DEF TypeOK
  <2>3. QED
    BY <1>9, <2>1, <2>2 DEF Callback
<1>10. CASE ContractReturns
  BY <1>10 DEF ContractReturns, TypeOK, storage
<1>11. CASE ContractPanics
  BY <1>11, RevertKeepsTypes DEF ContractPanics
<1>12. CASE Finish
  BY <1>12 DEF Finish, TypeOK, storage
<1>13. CASE Tick
  BY <1>13 DEF Tick, TypeOK, storage, ConstantsTyped
<1>14. CASE UNCHANGED vars
  BY <1>14 DEF vars, storage, sequencer, TypeOK
<1>15. QED
  BY <1>1, <1>2, <1>3, <1>4, <1>5, <1>6, <1>7, <1>8, <1>9, <1>10, <1>11, <1>12,
     <1>13, <1>14 DEF Next

\* Every variable of the account keeps its type, whoever calls it with whatever
\* well-typed arguments, and a revert restores storage of that type.
THEOREM AccountTyped == Spec => []TypeOK
<1>1. Init => TypeOK
  BY InitTyped, ConstantsTyped
<1>2. TypeOK /\ [Next]_vars => TypeOK'
  BY NextKeepsTypes
<1>3. QED
  BY <1>1, <1>2, PTL DEF Spec

-----------------------------------------------------------------------------
(* Validation answers VALIDATED only to a transaction that the storage of  *)
(* that moment authorises, one lemma for each kind of signature.           *)

LEMMA ValidOwner ==
    ASSUME NEW t \in Txs, validate_ecdsa_transaction(t) = "VALIDATED"
    PROVE  SignedBy(t, Account_public_key)
<1> DEFINE signed == <<tx_hash(t), Account_public_key, t.signature.r, t.signature.s>>
<1>1. signed \in EcdsaSigned
  BY DEF validate_ecdsa_transaction, is_valid_ecdsa_signature, check_ecdsa_signature
<1>2. signed[1] = tx_hash(t) /\ signed[2] = Account_public_key
  OBVIOUS
<1>3. QED
  BY <1>1, <1>2 DEF SignedBy

LEMMA ValidSession ==
    ASSUME NEW t \in Txs, TypeOK, t.signature.type = "session",
           validate_signature(Account_public_key, t.signature, t.body.calls,
                              tx_hash(t), now) = "VALIDATED"
    PROVE  PermittedBySession(t, Account_public_key, revoked, now)
<1> DEFINE sig == t.signature
           token == sig.session_token
           hash == compute_session_hash(sig, Self)
           grant == <<hash, Account_public_key, token[1], token[2]>>
           signed == <<tx_hash(t), sig.session_key, sig.r, sig.s>>
<1>1. /\ ~ session_expired(sig, now)
      /\ ~ token_revoked(token)
      /\ grant \in EcdsaSigned
      /\ signed \in EcdsaSigned
      /\ check_policy(t.body.calls, sig.root, sig.proofs)
  BY DEF validate_signature, check_ecdsa_signature
<1>2. /\ hash[1] = "session" /\ hash[2] = sig.session_key
      /\ hash[3] = sig.session_expires /\ hash[4] = sig.root /\ hash[5] = Self
  BY DEF compute_session_hash
<1>3. /\ grant[1] = hash /\ grant[2] = Account_public_key
      /\ grant[3] = token[1] /\ grant[4] = token[2]
  OBVIOUS
<1>4. SignedBy(t, hash[2])
  <2>1. signed[1] = tx_hash(t) /\ signed[2] = hash[2]
    BY <1>2
  <2>2. QED
    BY <1>1, <2>1 DEF SignedBy
<1>5. hash[3] > now
  <2>1. sig.session_expires \in Nat /\ now \in Int
    BY ConstantsTyped DEF ConstantsTyped, TypeOK
  <2>2. QED
    BY <1>1, <1>2, <2>1 DEF session_expired
<1>6. revoked[grant[3]] # grant[4]
  BY <1>1, <1>3 DEF token_revoked
<1>7. \A i \in 1 .. Len(t.body.calls) :
          <<t.body.calls[i].to, t.body.calls[i].selector>> \in hash[4].leaves
  BY <1>1, <1>2 DEF check_policy, merkle_verify, compute_call_hash
<1> HIDE DEF grant, hash, signed
<1>8. QED
  BY <1>1, <1>2, <1>3, <1>4, <1>5, <1>6, <1>7 DEF PermittedBySession

LEMMA ValidAssertion ==
    ASSUME NEW t \in Txs, verify_webauthn_signer(t.signature, tx_hash(t)) = "VALIDATED"
    PROVE  SignedByAuthenticator(t, webauthn_public_key)
<1> DEFINE a == t.signature
           message == <<a.authenticator_data, a.client_data_json>>
           signed == <<message, webauthn_public_key, a.signature>>
<1>1. /\ webauthn_public_key \in OnCurve
      /\ verify(webauthn_public_key, a, tx_hash(t)) = "OK"
  BY DEF verify_webauthn_signer
<1>2. /\ verify_challenge(a.client_data_json, a.challenge_offset, tx_hash(t)) = "OK"
      /\ verify_user_flags(a.authenticator_data)
      /\ signed \in P256Signed
  BY <1>1 DEF verify, verify_ecdsa, curve_equation
<1>3. /\ a.challenge_offset \in 1 .. Len(a.client_data_json)
      /\ a.client_data_json[a.challenge_offset] = tx_hash(t)
  BY <1>2 DEF verify_challenge
<1>4. /\ signed[1][1] = a.authenticator_data /\ signed[1][2] = a.client_data_json
      /\ signed[2] = webauthn_public_key
  OBVIOUS
<1>5. {"UP", "UV"} \subseteq signed[1][1].flags
  BY <1>2, <1>4 DEF verify_user_flags
<1>6. \E word \in 1 .. Len(signed[1][2]) : signed[1][2][word] = tx_hash(t)
  BY <1>3, <1>4
<1> HIDE DEF signed
<1>7. QED
  BY <1>1, <1>2, <1>4, <1>5, <1>6 DEF SignedByAuthenticator

LEMMA ValidatedIsAuthorized ==
    ASSUME NEW t \in Txs, TypeOK, validate_transaction(t) = "VALIDATED"
    PROVE  AuthorizedIn(t, storage, now)
<1>1. /\ storage[1] = Account_public_key
      /\ storage[2] = webauthn_public_key
      /\ storage[3] = revoked
  BY DEF storage
<1>2. CASE validate_ecdsa_transaction(t) = "VALIDATED"
  BY <1>1, <1>2, ValidOwner DEF AuthorizedIn
<1>3. CASE /\ t.signature.type = "session"
           /\ validate_signature(Account_public_key, t.signature, t.body.calls,
                                 tx_hash(t), now) = "VALIDATED"
  BY <1>1, <1>3, ValidSession DEF AuthorizedIn
<1>4. CASE verify_webauthn_signer(t.signature, tx_hash(t)) = "VALIDATED"
  BY <1>1, <1>4, ValidAssertion DEF AuthorizedIn
<1>5. QED
  BY <1>2, <1>3, <1>4 DEF validate_transaction

-----------------------------------------------------------------------------
(* The inductive invariant: besides the two properties it says that between *)
(* transactions none is under way, which makes the calls that are left     *)
(* those of the running transaction.                                       *)
IInv ==
    /\ TypeOK
    /\ RunningIsAuthorized
    /\ OnlySignedCallsPending
    /\ phase \in {"undeployed", "idle"} => tx = ForeignTx

\* Nothing is left to call when no own transaction runs.
LEMMA ForeignPendsNothing ==
    ASSUME OnlySignedCallsPending, tx = ForeignTx
    PROVE  pending = <<>>
<1>1. Len(tx.body.calls) = 0 /\ tx.body.calls = <<>>
  BY ForeignCalls
<1>2. PICK made \in 0 .. 0 : pending = SubSeq(tx.body.calls, made + 1, 0)
  BY <1>1 DEF OnlySignedCallsPending
<1>3. QED
  BY <1>1, <1>2

\* No call left is a suffix: the empty one.
LEMMA NothingPendingIsSuffix ==
    ASSUME TypeOK, pending = <<>>
    PROVE  OnlySignedCallsPending
<1> DEFINE n == Len(tx.body.calls)
<1>1. tx.body.calls \in Seq(Calls) /\ n \in Nat
  BY CallsTyped
<1>2. SubSeq(tx.body.calls, n + 1, n) = <<>>
  BY <1>1
<1>3. n \in 0 .. n
  BY <1>1
<1>4. QED
  BY <1>2, <1>3 DEF OnlySignedCallsPending

\* The call about to be made is one of the running transaction's own, and the
\* ones behind it are still a suffix.
LEMMA NextCallIsSigned ==
    ASSUME IInv, pending # <<>>
    PROVE  /\ tx # ForeignTx /\ AuthorizedIn(tx, saved, now)
           /\ \E i \in 1 .. Len(tx.body.calls) : Head(pending) = tx.body.calls[i]
           /\ \E made \in 0 .. Len(tx.body.calls) :
                 Tail(pending) = SubSeq(tx.body.calls, made + 1, Len(tx.body.calls))
<1> DEFINE calls == tx.body.calls
<1>1. calls \in Seq(Calls)
  BY CallsTyped DEF IInv
<1>2. PICK made \in 0 .. Len(calls) : pending = SubSeq(calls, made + 1, Len(calls))
  BY DEF IInv, OnlySignedCallsPending
<1>3. /\ made + 1 \in DOMAIN calls
      /\ Head(pending) = calls[made + 1]
      /\ Tail(pending) = SubSeq(calls, made + 2, Len(calls))
  BY <1>1, <1>2, TailOfSuffix
<1>4. made + 1 \in 0 .. Len(calls) /\ made + 1 \in 1 .. Len(calls)
      /\ made + 2 = (made + 1) + 1
  BY <1>1, <1>3
<1>5. tx # ForeignTx
  BY ForeignPendsNothing DEF IInv
<1>6. QED
  BY <1>3, <1>4, <1>5 DEF IInv, RunningIsAuthorized

\* What holds of the running transaction goes on holding while it runs.
LEMMA StillAuthorized ==
    ASSUME RunningIsAuthorized, UNCHANGED <<tx, saved, now>>
    PROVE  RunningIsAuthorized'
BY DEF RunningIsAuthorized, AuthorizedIn, SignedBy, SignedByAuthenticator,
       PermittedBySession, tx_hash

LEMMA StillSuffix ==
    ASSUME OnlySignedCallsPending, UNCHANGED <<tx, pending>>
    PROVE  OnlySignedCallsPending'
BY DEF OnlySignedCallsPending

LEMMA RevertKeepsIInv ==
    ASSUME IInv, TypeOK', Revert
    PROVE  IInv'
<1>1. tx' = ForeignTx /\ pending' = <<>> /\ phase' = "idle"
  BY DEF Revert
<1>2. RunningIsAuthorized'
  BY <1>1 DEF RunningIsAuthorized, ForeignTx
<1>3. OnlySignedCallsPending'
  <2>1. (tx.body.calls)' = <<>> /\ Len((tx.body.calls)') = 0
    BY <1>1, ForeignCalls DEF ForeignTx
  <2>2. pending' = SubSeq((tx.body.calls)', 0 + 1, 0) /\ 0 \in 0 .. 0
    BY <1>1, <2>1
  <2>3. QED
    BY <2>1, <2>2 DEF OnlySignedCallsPending
<1>4. QED
  BY <1>1, <1>2, <1>3 DEF IInv, ForeignTx

\* A callback that returns leaves the owner's keys and the calls to make alone.
LEMMA CallbackLeavesKeys ==
    ASSUME NEW caller \in Contracts, NEW e \in Entries,
           entry_accepts(caller, e), entry_effect(e, pending)
    PROVE  UNCHANGED <<Account_public_key, webauthn_public_key, pending>>
<1>1. caller # Self /\ caller # Zero
  BY AddressesDiffer DEF AddressesDiffer
<1>2. e.selector \notin Setters /\ e.selector # "__execute__"
  BY <1>1 DEF entry_accepts, assert_only_self, execute_accepts
<1>3. QED
  BY <1>2 DEF entry_effect, Setters

LEMMA NextKeepsIInv ==
    ASSUME IInv, [Next]_vars
    PROVE  IInv'
<1> USE DEF IInv
<1>0. TypeOK'
  BY NextKeepsTypes
<1>1. ASSUME NEW owner \in Owners, Constructor(owner) PROVE IInv'
  BY <1>0, <1>1, StillAuthorized, StillSuffix DEF Constructor, ForeignTx
<1>2. ASSUME NEW t \in Txs, Validate(t) PROVE IInv'
  <2>1. pending = <<>> /\ pending' = pending
    BY <1>2, ForeignPendsNothing DEF Validate
  <2>2. AuthorizedIn(t, storage, now)
    BY <1>2, ValidatedIsAuthorized DEF Validate
  <2>3. saved' = storage /\ tx' = t /\ now' = now
    BY <1>2 DEF Validate
  <2>4. RunningIsAuthorized'
    BY <2>2, <2>3 DEF RunningIsAuthorized, AuthorizedIn, SignedBy,
                      SignedByAuthenticator, PermittedBySession, tx_hash
  <2>5. OnlySignedCallsPending'
    <3>1. (TypeOK /\ pending = <<>> => OnlySignedCallsPending)'
      BY NothingPendingIsSuffix, PTL
    <3>2. QED
      BY <1>0, <2>1, <3>1
  <2>6. QED
    BY <1>0, <1>2, <2>4, <2>5 DEF Validate
<1>3. ASSUME NEW t \in Txs, Declare(t) PROVE IInv'
  BY <1>0, <1>3, StillAuthorized, StillSuffix DEF Declare, vars, sequencer, ForeignTx
<1>4. CASE Execute
  <2>1. CASE Revert
    BY <1>0, <2>1, RevertKeepsIInv
  <2>2. CASE pending' = tx.body.calls /\ phase' = "executing"
             /\ UNCHANGED <<storage, tx, callee, saved, now>>
    <3>1. OnlySignedCallsPending'
      <4>1. tx.body.calls \in Seq(Calls)
        BY CallsTyped
      <4>2. /\ 0 \in 0 .. Len(tx.body.calls)
            /\ tx.body.calls = SubSeq(tx.body.calls, 0 + 1, Len(tx.body.calls))
        BY <4>1
      <4>3. QED
        BY <2>2, <4>2 DEF OnlySignedCallsPending
    <3>2. QED
      BY <1>0, <2>2, <3>1, StillAuthorized
  <2>3. QED
    BY <1>4, <2>1, <2>2 DEF Execute
<1>5. ASSUME NEW contract \in Contracts, ForeignTransaction(contract) PROVE IInv'
  <2>1. tx = ForeignTx /\ tx' = ForeignTx /\ pending' = pending /\ phase' = "executing"
    BY <1>5 DEF ForeignTransaction
  <2>2. RunningIsAuthorized'
    BY <2>1 DEF RunningIsAuthorized, ForeignTx
  <2>3. QED
    BY <1>0, <2>1, <2>2, StillSuffix
<1>6. CASE CallContract
  <2>1. UNCHANGED <<tx, phase, saved, now>> /\ pending' = Tail(pending)
    BY <1>6 DEF CallContract
  <2>2. OnlySignedCallsPending'
    BY <1>6, <2>1, NextCallIsSigned DEF CallContract, OnlySignedCallsPending
  <2>3. QED
    BY <1>0, <2>1, <2>2, StillAuthorized DEF ForeignTx
<1>7. CASE CallSelf
  <2>1. CASE Revert
    BY <1>0, <2>1, RevertKeepsIInv
  <2>2. CASE /\ entry_accepts(Self, Head(pending))
             /\ entry_effect(Head(pending), Tail(pending))
             /\ UNCHANGED <<phase, tx, callee, saved, now>>
    <3>1. pending' = Tail(pending)
      BY <2>2, AddressesDiffer
         DEF entry_accepts, execute_accepts, entry_effect, AddressesDiffer
    <3>2. OnlySignedCallsPending'
      BY <1>7, <2>2, <3>1, NextCallIsSigned DEF CallSelf, OnlySignedCallsPending
    <3>3. QED
      BY <1>0, <2>2, <3>2, StillAuthorized DEF ForeignTx
  <2>3. QED
    BY <1>7, <2>1, <2>2 DEF CallSelf
<1>8. CASE CallNowhere
  BY <1>0, <1>8, RevertKeepsIInv DEF CallNowhere
<1>9. ASSUME NEW caller \in Contracts, NEW e \in Entries, Callback(caller, e) PROVE IInv'
  <2>1. CASE Revert
    BY <1>0, <2>1, RevertKeepsIInv
  <2>2. CASE /\ entry_accepts(caller, e)
             /\ entry_effect(e, pending)
             /\ UNCHANGED <<phase, tx, callee, saved, now>>
    <3>1. UNCHANGED pending
      BY <2>2, CallbackLeavesKeys
    <3>2. QED
      BY <1>0, <2>2, <3>1, StillAuthorized, StillSuffix DEF ForeignTx
  <2>3. QED
    BY <1>9, <2>1, <2>2 DEF Callback
<1>10. CASE ContractReturns
  BY <1>0, <1>10, StillAuthorized, StillSuffix DEF ContractReturns, ForeignTx
<1>11. CASE ContractPanics
  BY <1>0, <1>11, RevertKeepsIInv DEF ContractPanics
<1>12. CASE Finish
  <2>1. tx' = ForeignTx /\ phase' = "idle" /\ pending = <<>> /\ pending' = pending
    BY <1>12 DEF Finish
  <2>2. RunningIsAuthorized'
    BY <2>1 DEF RunningIsAuthorized, ForeignTx
  <2>3. OnlySignedCallsPending'
    <3>1. (TypeOK /\ pending = <<>> => OnlySignedCallsPending)'
      BY NothingPendingIsSuffix, PTL
    <3>2. QED
      BY <1>0, <2>1, <3>1
  <2>4. QED
    BY <1>0, <2>1, <2>2, <2>3 DEF ForeignTx
<1>13. CASE Tick
  <2>1. UNCHANGED <<phase, tx, pending>> /\ tx = ForeignTx
    BY <1>13 DEF Tick
  <2>2. RunningIsAuthorized'
    BY <2>1 DEF RunningIsAuthorized, ForeignTx
  <2>3. QED
    BY <1>0, <2>1, <2>2, StillSuffix DEF ForeignTx
<1>14. CASE UNCHANGED vars
  BY <1>0, <1>14, StillAuthorized, StillSuffix DEF vars, sequencer, ForeignTx
<1>15. QED
  BY <1>1, <1>2, <1>3, <1>4, <1>5, <1>6, <1>7, <1>8, <1>9, <1>10, <1>11, <1>12,
     <1>13, <1>14 DEF Next

LEMMA InitIInv ==
    ASSUME Init
    PROVE  IInv
<1>1. TypeOK
  BY InitTyped, ConstantsTyped
<1>2. OnlySignedCallsPending
  BY <1>1, NothingPendingIsSuffix DEF Init
<1>3. QED
  BY <1>1, <1>2 DEF IInv, Init, RunningIsAuthorized

LEMMA AccountInductive == Spec => []IInv
<1>1. Init => IInv
  BY InitIInv
<1>2. IInv /\ [Next]_vars => IInv'
  BY NextKeepsIInv
<1>3. QED
  BY <1>1, <1>2, PTL DEF Spec

\* A transaction of the account runs only if the storage it began with, and the
\* time, authorise it: owner, authenticator, or a session over all its calls.
THEOREM RunningAuthorized == Spec => []RunningIsAuthorized
<1>1. IInv => RunningIsAuthorized
  BY DEF IInv
<1>2. QED
  BY <1>1, AccountInductive, PTL

\* The account never has a call left to make that the signed transaction does
\* not contain: __execute__ cannot be entered a second time.
THEOREM OnlySignedCalls == Spec => []OnlySignedCallsPending
<1>1. IInv => OnlySignedCallsPending
  BY DEF IInv
<1>2. QED
  BY <1>1, AccountInductive, PTL

-----------------------------------------------------------------------------
(* Who changes the owner's keys.                                           *)
KeysStep ==
    phase # "undeployed" =>
        /\ Account_public_key' # Account_public_key =>
              \/ OwnKeyCall("set_public_key", Account_public_key')
              \/ phase' = "idle" /\ Account_public_key' = saved[1]
        /\ webauthn_public_key' # webauthn_public_key =>
              \/ OwnKeyCall("set_webauthn_pub_key", webauthn_public_key')
              \/ phase' = "idle" /\ webauthn_public_key' = saved[2]

LEMMA KeysStepHolds ==
    ASSUME IInv, [Next]_vars
    PROVE  KeysStep
<1>1. CASE UNCHANGED <<Account_public_key, webauthn_public_key>>
  BY <1>1 DEF KeysStep
<1>2. CASE Revert
  BY <1>2 DEF KeysStep, Revert
<1>3. CASE CallSelf /\ ~ Revert
  <2> DEFINE call == Head(pending)
  <2>1. /\ pending # <<>> /\ call.to = Self
        /\ entry_effect(call, Tail(pending))
    BY <1>3 DEF CallSelf
  <2>2. /\ tx # ForeignTx /\ AuthorizedIn(tx, saved, now)
        /\ \E i \in 1 .. Len(tx.body.calls) : call = tx.body.calls[i]
    BY <2>1, NextCallIsSigned
  <2>3. Account_public_key' # Account_public_key =>
            call.selector = "set_public_key" /\ Account_public_key' = call.data[1]
    BY <2>1 DEF entry_effect
  <2>4. webauthn_public_key' # webauthn_public_key =>
            call.selector = "set_webauthn_pub_key" /\ webauthn_public_key' = call.data[1]
    BY <2>1 DEF entry_effect
  <2> HIDE DEF call
  <2>5. QED
    BY <2>1, <2>2, <2>3, <2>4 DEF KeysStep, OwnKeyCall
<1>4. ASSUME NEW caller \in Contracts, NEW e \in Entries, Callback(caller, e), ~ Revert
      PROVE  KeysStep
  BY <1>1, <1>4, CallbackLeavesKeys DEF Callback
<1>5. ASSUME NEW owner \in Owners, Constructor(owner) PROVE KeysStep
  BY <1>5 DEF Constructor, KeysStep
<1>6. QED
  BY <1>1, <1>2, <1>3, <1>4, <1>5
     DEF Next, Validate, Declare, Execute, ForeignTransaction, CallContract, CallNowhere,
         ContractReturns, ContractPanics, Finish, Tick, vars, storage

\* The account's own keys change by a call of an authorised transaction to the
\* account itself, or back when such a transaction is undone; by nothing else.
THEOREM KeysChangeOnlyByOwner == Spec => KeysChangeByOwner
<1>1. IInv /\ [Next]_vars => [KeysStep]_vars
  BY KeysStepHolds
<1>2. KeysChangeByOwner <=> [][KeysStep]_vars
  BY PTL DEF KeysChangeByOwner, KeysStep
<1>3. QED
  BY <1>1, <1>2, AccountInductive, PTL DEF Spec

-----------------------------------------------------------------------------
(* Who writes the slots of the revoked tokens.                             *)
SlotsStep ==
    \A r \in Felts :
        revoked'[r] # revoked[r] =>
            \/ callee # Zero /\ <<r, revoked'[r]>> \in Revocations
            \/ callee = Zero /\ OwnRevocation(r, revoked'[r])
            \/ phase' = "idle" /\ revoked'[r] = saved[3][r]

\* What an entry point writes into a slot is the token it is given.
LEMMA EffectWritesToken ==
    ASSUME TypeOK, NEW e \in Calls \union Entries, NEW rest, NEW caller,
           entry_accepts(caller, e), entry_effect(e, rest),
           NEW r \in Felts, revoked'[r] # revoked[r]
    PROVE  /\ e.selector = "revoke_session" /\ revoke_session_accepts(e.data)
           /\ e.data[1] = r /\ e.data[2] = revoked'[r]
<1>1. e.selector = "revoke_session" /\ revoked' = revoke_session(e.data)
  BY DEF entry_effect
<1>2. e.data \in Seq(Felts) /\ revoke_session_accepts(e.data)
  BY <1>1, ConstantsTyped DEF ConstantsTyped, WellTyped, entry_accepts
<1>3. revoked' = [revoked EXCEPT ![e.data[1]] = e.data[2]]
  BY <1>1 DEF revoke_session
<1>4. revoked \in [Felts -> Felts]
  BY DEF TypeOK
<1>5. QED
  BY <1>1, <1>2, <1>3, <1>4

LEMMA SlotsStepHolds ==
    ASSUME IInv, [Next]_vars
    PROVE  SlotsStep
<1>0. TypeOK
  BY DEF IInv
<1>1. CASE UNCHANGED revoked
  BY <1>1 DEF SlotsStep
<1>2. CASE Revert
  BY <1>2 DEF Revert, SlotsStep
<1>3. CASE CallSelf /\ ~ Revert
  <2> DEFINE call == Head(pending)
  <2>1. /\ callee = Zero /\ pending # <<>> /\ call \in Calls /\ call.to = Self
        /\ entry_accepts(Self, call) /\ entry_effect(call, Tail(pending))
    BY <1>0, <1>3 DEF CallSelf, TypeOK
  <2>2. /\ tx # ForeignTx /\ AuthorizedIn(tx, saved, now)
        /\ \E i \in 1 .. Len(tx.body.calls) : call = tx.body.calls[i]
    BY <2>1, NextCallIsSigned
  <2> HIDE DEF call
  <2>3. ASSUME NEW r \in Felts, revoked'[r] # revoked[r]
        PROVE  OwnRevocation(r, revoked'[r])
    <3>1. /\ call.selector = "revoke_session"
          /\ call.data[1] = r /\ call.data[2] = revoked'[r]
      BY <1>0, <2>1, <2>3, EffectWritesToken
    <3>2. QED
      BY <2>1, <2>2, <3>1 DEF OwnRevocation
  <2>4. QED
    BY <2>1, <2>3 DEF SlotsStep
<1>4. ASSUME NEW caller \in Contracts, NEW e \in Entries, Callback(caller, e), ~ Revert
      PROVE  SlotsStep
  <2>1. callee # Zero /\ entry_accepts(caller, e) /\ entry_effect(e, pending)
    BY <1>4 DEF Callback
  <2>2. ASSUME NEW r \in Felts, revoked'[r] # revoked[r]
        PROVE  <<r, revoked'[r]>> \in Revocations
    <3>1. /\ e.selector = "revoke_session" /\ revoke_session_accepts(e.data)
          /\ e.data[1] = r /\ e.data[2] = revoked'[r]
      BY <1>0, <2>1, <2>2, EffectWritesToken
    <3>2. QED
      BY <3>1 DEF Revocations
  <2>3. QED
    BY <2>1, <2>2 DEF SlotsStep
<1>5. QED
  BY <1>1, <1>2, <1>3, <1>4
     DEF Next, Constructor, Validate, Declare, Execute, ForeignTransaction, CallContract,
         CallNowhere, ContractReturns, ContractPanics, Finish, Tick, vars, storage

\* Whatever is revoked, called back and undone in whatever order: a slot changes
\* only to hold a token that is then revoked, by a running contract or by a call of
\* an authorised transaction of the account, or back when that is undone.  A token
\* whose r half no other revoked token has therefore stays revoked.
THEOREM SlotsChangeOnlyByRevoking == Spec => SlotsChangeByRevoking
<1>1. IInv /\ [Next]_vars => [SlotsStep]_vars
  BY SlotsStepHolds
<1>2. SlotsChangeByRevoking <=> [][SlotsStep]_vars
  BY PTL DEF SlotsChangeByRevoking, SlotsStep
<1>3. QED
  BY <1>1, <1>2, AccountInductive, PTL DEF Spec

-----------------------------------------------------------------------------
(* The account implements the guarded store.                               *)

\* How far the running transaction has got: what the account has written since
\* it began is the effect of the calls it has made.
Progress(calls, n) ==
    /\ pending = SubSeq(calls, n + 1, Len(calls))
    /\ \A i \in 1 .. n : Store!CanBeMade(calls[i])
    /\ Store!LeftBy(calls, n, "set_public_key", saved[1], Account_public_key)
    /\ Store!LeftBy(calls, n, "set_webauthn_pub_key", saved[2], webauthn_public_key)
    /\ Store!SlotsLeftBy(calls, n, saved[3], revoked)

Underway == \E n \in 0 .. Len(tx.body.calls) : Progress(tx.body.calls, n)

\* The invariant behind the refinement.
StoreInv ==
    /\ IInv
    /\ phase = "validated" => saved = storage /\ tx # ForeignTx
    /\ tx # ForeignTx => tx.body.kind = "invoke"
    /\ phase = "executing" =>
           /\ tx # ForeignTx => supported_version(tx.body.version)
           /\ Underway

\* One more call, to the setter or not.
LEMMA LeftByOneMore ==
    ASSUME NEW calls, NEW n \in Nat, NEW selector, NEW before, NEW after, NEW then,
           Store!LeftBy(calls, n, selector, before, after),
           then = IF Store!OfSelf(calls[n + 1], selector) THEN calls[n + 1].data[1] ELSE after
    PROVE  Store!LeftBy(calls, n + 1, selector, before, then)
<1>1. \A i \in 1 .. n + 1 : i \in 1 .. n \/ i = n + 1
  OBVIOUS
<1>2. CASE Store!OfSelf(calls[n + 1], selector)
  <2>1. n + 1 \in 1 .. n + 1 /\ \A i \in n + 1 + 1 .. n + 1 : FALSE
    OBVIOUS
  <2>2. QED
    BY <1>2, <2>1 DEF Store!LeftBy
<1>3. CASE ~ Store!OfSelf(calls[n + 1], selector)
  <2>1. then = after
    BY <1>3
  <2>2. CASE after = before /\ \A i \in 1 .. n : ~ Store!OfSelf(calls[i], selector)
    BY <1>1, <1>3, <2>1, <2>2 DEF Store!LeftBy
  <2>3. CASE \E last \in 1 .. n :
                /\ Store!OfSelf(calls[last], selector) /\ after = calls[last].data[1]
                /\ \A i \in last + 1 .. n : ~ Store!OfSelf(calls[i], selector)
    <3>1. PICK last \in 1 .. n :
                /\ Store!OfSelf(calls[last], selector) /\ after = calls[last].data[1]
                /\ \A i \in last + 1 .. n : ~ Store!OfSelf(calls[i], selector)
      BY <2>3
    <3>2. last \in 1 .. n + 1
      OBVIOUS
    <3>3. \A i \in last + 1 .. n + 1 : i \in last + 1 .. n \/ i = n + 1
      OBVIOUS
    <3>4. \A i \in last + 1 .. n + 1 : ~ Store!OfSelf(calls[i], selector)
      BY <1>3, <3>1, <3>3
    <3>5. QED
      BY <2>1, <3>1, <3>2, <3>4 DEF Store!LeftBy
  <2>4. QED
    BY <2>2, <2>3 DEF Store!LeftBy
<1>4. QED
  BY <1>2, <1>3

LEMMA RevokedByOneMore ==
    ASSUME NEW calls, NEW n \in Nat, NEW r, NEW s, Store!RevokedBy(calls, n, r, s)
    PROVE  Store!RevokedBy(calls, n + 1, r, s)
BY DEF Store!RevokedBy

\* One more call that revokes nothing.
LEMMA SlotsOneMore ==
    ASSUME NEW calls, NEW n \in Nat, NEW before, NEW after,
           Store!SlotsLeftBy(calls, n, before, after),
           ~ Store!OfSelf(calls[n + 1], "revoke_session")
    PROVE  Store!SlotsLeftBy(calls, n + 1, before, after)
<1>1. \A i \in 1 .. n + 1 : i \in 1 .. n \/ i = n + 1
  OBVIOUS
<1>2. QED
  BY <1>1, RevokedByOneMore DEF Store!SlotsLeftBy

\* A token is revoked, by the next call or by another contract.
LEMMA SlotsRevoke ==
    ASSUME NEW calls, NEW m \in Nat, NEW before, NEW after, NEW r \in Felts, NEW s \in Felts,
           \A i \in 1 .. m : Store!OfSelf(calls[i], "revoke_session")
                                 => calls[i].data[1] \in Felts,
           after \in [Felts -> Felts],
           \A x \in Felts : after[x] # before[x] => Store!RevokedBy(calls, m, x, after[x]),
           \A i \in 1 .. m :
               Store!OfSelf(calls[i], "revoke_session") /\ calls[i].data[1] # r
                   => Store!RevokedBy(calls, m, calls[i].data[1], after[calls[i].data[1]]),
           Store!RevokedBy(calls, m, r, s)
    PROVE  Store!SlotsLeftBy(calls, m, before, [after EXCEPT ![r] = s])
<1> DEFINE then == [after EXCEPT ![r] = s]
<1>1. then \in [Felts -> Felts] /\ then[r] = s /\ \A x \in Felts \ {r} : then[x] = after[x]
  OBVIOUS
<1> HIDE DEF then
<1>2. \A x \in Felts : then[x] # before[x] => Store!RevokedBy(calls, m, x, then[x])
  BY <1>1
<1>3. ASSUME NEW i \in 1 .. m, Store!OfSelf(calls[i], "revoke_session")
      PROVE  Store!RevokedBy(calls, m, calls[i].data[1], then[calls[i].data[1]])
  BY <1>1, <1>3
<1>4. Store!SlotsLeftBy(calls, m, before, then)
  BY <1>1, <1>2, <1>3 DEF Store!SlotsLeftBy
<1>5. QED
  BY <1>4 DEF then

\* Nothing is made yet of the calls when __execute__ begins.
LEMMA NothingMade ==
    ASSUME NEW calls, NEW key, NEW selector
    PROVE  Store!LeftBy(calls, 0, selector, key, key)
BY DEF Store!LeftBy

LEMMA NothingRevoked ==
    ASSUME NEW calls, NEW slots \in [Felts -> Felts]
    PROVE  Store!SlotsLeftBy(calls, 0, slots, slots)
BY DEF Store!SlotsLeftBy

\* The next call of the transaction, in the terms of its list of calls.
LEMMA NextCall ==
    ASSUME TypeOK, pending # <<>>, NEW calls \in Seq(Calls), NEW n \in 0 .. Len(calls),
           pending = SubSeq(calls, n + 1, Len(calls))
    PROVE  /\ n \in Nat /\ n + 1 \in 0 .. Len(calls) /\ n + 1 \in 1 .. Len(calls)
           /\ Head(pending) = calls[n + 1]
           /\ Tail(pending) = SubSeq(calls, (n + 1) + 1, Len(calls))
           /\ Head(pending) \in Calls
<1>1. /\ n + 1 \in DOMAIN calls
      /\ Head(pending) = calls[n + 1]
      /\ Tail(pending) = SubSeq(calls, n + 2, Len(calls))
  BY TailOfSuffix
<1>2. n \in Nat /\ n + 2 = (n + 1) + 1 /\ n + 1 \in 1 .. Len(calls) /\ n + 1 \in 0 .. Len(calls)
  BY <1>1
<1>3. QED
  BY <1>1, <1>2

\* A call of another contract is made: nothing of the account's is written.
LEMMA ProgressByContract ==
    ASSUME StoreInv, CallContract
    PROVE  Underway'
<1> DEFINE calls == tx.body.calls
<1>1. calls \in Seq(Calls) /\ TypeOK
  BY CallsTyped DEF StoreInv, IInv
<1>2. PICK n \in 0 .. Len(calls) : Progress(calls, n)
  BY DEF StoreInv, Underway, CallContract
<1>3. /\ n \in Nat /\ n + 1 \in 0 .. Len(calls)
      /\ Head(pending) = calls[n + 1]
      /\ Tail(pending) = SubSeq(calls, (n + 1) + 1, Len(calls))
  BY <1>1, <1>2, NextCall DEF CallContract, Progress
<1>4. calls[n + 1].to \in Contracts /\ calls[n + 1].to # Self
  BY <1>3, AddressesDiffer DEF CallContract, AddressesDiffer
<1>5. \A selector : ~ Store!OfSelf(calls[n + 1], selector)
  BY <1>4 DEF Store!OfSelf
<1>6. \A i \in 1 .. n + 1 : Store!CanBeMade(calls[i])
  <2>1. Store!CanBeMade(calls[n + 1])
    BY <1>4, <1>5 DEF Store!CanBeMade
  <2>2. QED
    BY <1>2, <1>3, <2>1 DEF Progress
<1>7. Store!LeftBy(calls, n + 1, "set_public_key", saved[1], Account_public_key)
  BY <1>2, <1>3, <1>5, LeftByOneMore DEF Progress
<1>8. Store!LeftBy(calls, n + 1, "set_webauthn_pub_key", saved[2], webauthn_public_key)
  BY <1>2, <1>3, <1>5, LeftByOneMore DEF Progress
<1>9. Store!SlotsLeftBy(calls, n + 1, saved[3], revoked)
  BY <1>2, <1>3, <1>5, SlotsOneMore DEF Progress
<1>10. UNCHANGED <<tx, saved, Account_public_key, webauthn_public_key, revoked>>
       /\ pending' = Tail(pending)
  BY DEF CallContract, storage
<1>11. Progress(calls, n + 1)'
  BY <1>3, <1>6, <1>7, <1>8, <1>9, <1>10 DEF Progress
<1>12. QED
  BY <1>3, <1>10, <1>11 DEF Underway

\* A call of the account to itself is made.
LEMMA ProgressBySelf ==
    ASSUME StoreInv, CallSelf, ~ Revert
    PROVE  Underway'
<1> DEFINE calls == tx.body.calls
<1>1. calls \in Seq(Calls) /\ TypeOK
  BY CallsTyped DEF StoreInv, IInv
<1>2. PICK n \in 0 .. Len(calls) : Progress(calls, n)
  BY DEF StoreInv, Underway, CallSelf
<1> DEFINE call == calls[n + 1]
<1>3. /\ n \in Nat /\ n + 1 \in 0 .. Len(calls) /\ n + 1 \in 1 .. Len(calls)
      /\ Head(pending) = call /\ call \in Calls
      /\ Tail(pending) = SubSeq(calls, (n + 1) + 1, Len(calls))
  BY <1>1, <1>2, NextCall DEF CallSelf, Progress
<1>4. /\ call.to = Self /\ entry_accepts(Self, call)
      /\ entry_effect(call, Tail(pending))
      /\ UNCHANGED <<tx, saved>>
  BY <1>3 DEF CallSelf
<1>5. \A selector : Store!OfSelf(call, selector) <=> call.selector = selector
  BY <1>4 DEF Store!OfSelf
<1>6. call.selector # "__execute__" /\ pending' = Tail(pending)
  BY <1>4, AddressesDiffer
     DEF entry_accepts, execute_accepts, entry_effect, AddressesDiffer
<1>7. Store!CanBeMade(call)
  BY <1>4, <1>5, <1>6 DEF Store!CanBeMade, entry_accepts, revoke_session_accepts
<1>8. \A i \in 1 .. n + 1 : Store!CanBeMade(calls[i])
  <2>1. \A i \in 1 .. n + 1 : i \in 1 .. n \/ i = n + 1
    BY <1>3
  <2>2. \A i \in 1 .. n : Store!CanBeMade(calls[i])
    BY <1>2 DEF Progress
  <2> HIDE DEF calls
  <2>3. QED
    BY <1>7, <2>1, <2>2
<1>9. Store!LeftBy(calls, n + 1, "set_public_key", saved[1], Account_public_key')
  <2>1. Account_public_key' = IF Store!OfSelf(call, "set_public_key")
                              THEN call.data[1] ELSE Account_public_key
    BY <1>4, <1>5 DEF entry_effect
  <2>2. QED
    BY <1>2, <1>3, <2>1, LeftByOneMore DEF Progress
<1>10. Store!LeftBy(calls, n + 1, "set_webauthn_pub_key", saved[2], webauthn_public_key')
  <2>1. webauthn_public_key' = IF Store!OfSelf(call, "set_webauthn_pub_key")
                               THEN call.data[1] ELSE webauthn_public_key
    BY <1>4, <1>5 DEF entry_effect
  <2>2. QED
    BY <1>2, <1>3, <2>1, LeftByOneMore DEF Progress
<1>11. Store!SlotsLeftBy(calls, n + 1, saved[3], revoked')
  <2>1. CASE call.selector # "revoke_session"
    <3>1. revoked' = revoked /\ ~ Store!OfSelf(call, "revoke_session")
      BY <1>4, <1>5, <2>1 DEF entry_effect
    <3>2. QED
      BY <1>2, <1>3, <3>1, SlotsOneMore DEF Progress
  <2>2. CASE call.selector = "revoke_session"
    <3> DEFINE r == call.data[1]
               s == call.data[2]
    <3>1. \A i \in 1 .. n + 1 : Store!OfSelf(calls[i], "revoke_session")
                                    => calls[i].data[1] \in Felts
      <4>1. ASSUME NEW i \in 1 .. n + 1, Store!OfSelf(calls[i], "revoke_session")
            PROVE  calls[i].data[1] \in Felts
        <5>1. calls[i] \in Calls
          BY <1>1, <1>3
        <5>2. calls[i].data \in Seq(Felts)
          BY <4>1, <5>1, ConstantsTyped DEF ConstantsTyped, WellTyped, Store!OfSelf
        <5>3. Len(calls[i].data) >= 2
          BY <1>8, <4>1 DEF Store!CanBeMade
        <5>4. QED
          BY <5>2, <5>3
      <4>2. QED
        BY <4>1
    <3>2. r \in Felts /\ s \in Felts
      <4>1. call.data \in Seq(Felts)
        BY <1>3, <2>2, ConstantsTyped DEF ConstantsTyped, WellTyped
      <4>2. Len(call.data) >= 2
        BY <1>5, <1>7, <2>2 DEF Store!CanBeMade
      <4>3. QED
        BY <4>1, <4>2
    <3>3. revoked' = [revoked EXCEPT ![r] = s]
      BY <1>4, <2>2 DEF entry_effect, revoke_session
    <3>4. Store!RevokedBy(calls, n + 1, r, s)
      <4>1. n + 1 \in 1 .. n + 1 /\ Store!OfSelf(calls[n + 1], "revoke_session")
        BY <1>3, <1>5, <2>2
      <4>2. QED
        BY <4>1 DEF Store!RevokedBy
    <3>5. Store!SlotsLeftBy(calls, n, saved[3], revoked)
      BY <1>2 DEF Progress
    <3>6. \A x \in Felts : revoked[x] # saved[3][x]
                               => Store!RevokedBy(calls, n + 1, x, revoked[x])
      BY <1>3, <3>5, RevokedByOneMore DEF Store!SlotsLeftBy
    <3>7. ASSUME NEW i \in 1 .. n + 1,
                 Store!OfSelf(calls[i], "revoke_session"), calls[i].data[1] # r
          PROVE  Store!RevokedBy(calls, n + 1, calls[i].data[1], revoked[calls[i].data[1]])
      <4>1. i \in 1 .. n
        BY <1>3, <3>7
      <4>2. Store!RevokedBy(calls, n, calls[i].data[1], revoked[calls[i].data[1]])
        BY <3>5, <3>7, <4>1 DEF Store!SlotsLeftBy
      <4>3. QED
        BY <1>3, <4>2, RevokedByOneMore
    <3>8. n + 1 \in Nat /\ revoked \in [Felts -> Felts]
      BY <1>1, <1>3 DEF TypeOK
    <3> HIDE DEF calls, r, s
    <3>9. QED
      BY <3>1, <3>2, <3>3, <3>4, <3>6, <3>7, <3>8, SlotsRevoke
  <2>3. QED
    BY <2>1, <2>2
<1>12. Progress(calls, n + 1)'
  BY <1>3, <1>4, <1>6, <1>8, <1>9, <1>10, <1>11 DEF Progress
<1>13. QED
  BY <1>3, <1>4, <1>12 DEF Underway

\* A contract calls back.
LEMMA ProgressByCallback ==
    ASSUME StoreInv, phase = "executing", NEW caller \in Contracts, NEW e \in Entries,
           entry_accepts(caller, e), entry_effect(e, pending),
           UNCHANGED <<phase, tx, callee, saved, now>>
    PROVE  Underway'
<1> DEFINE calls == tx.body.calls
<1>1. calls \in Seq(Calls) /\ TypeOK
  BY CallsTyped DEF StoreInv, IInv
<1>2. PICK n \in 0 .. Len(calls) : Progress(calls, n)
  BY DEF StoreInv, Underway
<1>3. UNCHANGED <<Account_public_key, webauthn_public_key, pending>>
  BY CallbackLeavesKeys
<1>4. n \in Nat /\ Store!SlotsLeftBy(calls, n, saved[3], revoked)
  BY <1>1, <1>2 DEF Progress
<1>5. Store!SlotsLeftBy(calls, n, saved[3], revoked')
  <2>1. CASE e.selector # "revoke_session"
    BY <1>4, <2>1 DEF entry_effect
  <2>2. CASE e.selector = "revoke_session"
    <3> DEFINE r == e.data[1]
               s == e.data[2]
    <3>1. e.data \in Seq(Felts) /\ Len(e.data) >= 2
      BY <2>2, ConstantsTyped
         DEF ConstantsTyped, WellTyped, entry_accepts, revoke_session_accepts
    <3>2. r \in Felts /\ s \in Felts
      BY <3>1
    <3>3. revoked' = [revoked EXCEPT ![r] = s]
      BY <2>2 DEF entry_effect, revoke_session
    <3>4. Store!RevokedBy(calls, n, r, s)
      <4>1. <<r, s>> \in Revocations
        BY <2>2, <3>1 DEF Revocations, revoke_session_accepts
      <4>2. QED
        BY <4>1 DEF Store!RevokedBy
    <3>5. \A i \in 1 .. n : Store!OfSelf(calls[i], "revoke_session")
                                => calls[i].data[1] \in Felts
      <4>1. ASSUME NEW i \in 1 .. n, Store!OfSelf(calls[i], "revoke_session")
            PROVE  calls[i].data[1] \in Felts
        <5>1. calls[i] \in Calls
          BY <1>1
        <5>2. calls[i].data \in Seq(Felts)
          BY <4>1, <5>1, ConstantsTyped DEF ConstantsTyped, WellTyped, Store!OfSelf
        <5>3. Len(calls[i].data) >= 2
          BY <1>2, <4>1 DEF Progress, Store!CanBeMade
        <5>4. QED
          BY <5>2, <5>3
      <4>2. QED
        BY <4>1
    <3>6. \A x \in Felts : revoked[x] # saved[3][x] => Store!RevokedBy(calls, n, x, revoked[x])
      BY <1>4 DEF Store!SlotsLeftBy
    <3>7. \A i \in 1 .. n : Store!OfSelf(calls[i], "revoke_session")
              => Store!RevokedBy(calls, n, calls[i].data[1], revoked[calls[i].data[1]])
      BY <1>4 DEF Store!SlotsLeftBy
    <3>8. revoked \in [Felts -> Felts]
      BY <1>1 DEF TypeOK
    <3> HIDE DEF calls, r, s
    <3>9. QED
      BY <1>4, <3>2, <3>3, <3>4, <3>5, <3>6, <3>7, <3>8, SlotsRevoke
  <2>3. QED
    BY <2>1, <2>2
<1>6. Progress(calls, n)'
  BY <1>2, <1>3, <1>5 DEF Progress
<1>7. QED
  BY <1>6 DEF Underway

\* Nothing has been made of a transaction that begins.
LEMMA BeginsUnderway ==
    ASSUME TypeOK, NEW calls \in Seq(Calls), calls = (tx.body.calls)',
           saved' = storage, UNCHANGED storage, pending' = calls
    PROVE  Underway'
<1>1. /\ saved'[1] = Account_public_key' /\ saved'[2] = webauthn_public_key'
      /\ saved'[3] = revoked' /\ revoked' \in [Felts -> Felts]
  BY DEF storage, TypeOK
<1>2. /\ Store!LeftBy(calls, 0, "set_public_key", saved'[1], Account_public_key')
      /\ Store!LeftBy(calls, 0, "set_webauthn_pub_key", saved'[2], webauthn_public_key')
      /\ Store!SlotsLeftBy(calls, 0, saved'[3], revoked')
  BY <1>1, NothingMade, NothingRevoked
<1>3. \A i \in 1 .. 0 : Store!CanBeMade(calls[i])
  OBVIOUS
<1>4. pending' = SubSeq(calls, 0 + 1, Len(calls)) /\ 0 \in 0 .. Len(calls)
  OBVIOUS
<1>5. Progress(calls, 0)'
  BY <1>2, <1>3, <1>4 DEF Progress
<1>6. QED
  BY <1>4, <1>5 DEF Underway

LEMMA StillUnderway ==
    ASSUME Underway, UNCHANGED <<storage, pending, tx, saved>>
    PROVE  Underway'
BY DEF Underway, Progress, storage

LEMMA NextKeepsStoreInv ==
    ASSUME StoreInv, [Next]_vars
    PROVE  StoreInv'
<1> USE DEF StoreInv
<1>0. IInv'
  BY NextKeepsIInv
<1>1. ASSUME NEW owner \in Owners, Constructor(owner) PROVE StoreInv'
  BY <1>0, <1>1 DEF Constructor, IInv, ForeignTx
<1>2. ASSUME NEW t \in Txs, Validate(t) PROVE StoreInv'
  <2>1. t # ForeignTx
    BY <1>2 DEF Validate, ForeignTx
  <2>2. QED
    BY <1>0, <1>2, <2>1 DEF Validate, storage, ForeignTx
<1>3. ASSUME NEW t \in Txs, Declare(t) PROVE StoreInv'
  BY <1>0, <1>3 DEF Declare, vars, sequencer, ForeignTx, IInv
<1>4. CASE Revert
  BY <1>0, <1>4 DEF Revert, ForeignTx
<1>5. CASE Execute /\ ~ Revert
  <2>1. /\ phase = "validated" /\ execute_accepts(Zero) /\ phase' = "executing"
        /\ pending' = tx.body.calls /\ UNCHANGED <<storage, tx, callee, saved, now>>
    BY <1>5 DEF Execute
  <2>2. saved = storage /\ tx # ForeignTx /\ tx.body.kind = "invoke"
    BY <2>1
  <2>3. tx.body.calls \in Seq(Calls) /\ TypeOK
    BY CallsTyped DEF IInv
  <2>4. Underway'
    BY <2>1, <2>2, <2>3, BeginsUnderway
  <2>5. supported_version(tx.body.version)
    BY <2>1, <2>2 DEF execute_accepts
  <2>6. QED
    BY <1>0, <2>1, <2>2, <2>4, <2>5 DEF ForeignTx, supported_version
<1>6. ASSUME NEW contract \in Contracts, ForeignTransaction(contract) PROVE StoreInv'
  <2>1. /\ phase' = "executing" /\ tx' = ForeignTx /\ tx = ForeignTx /\ saved' = storage
        /\ UNCHANGED storage /\ pending' = pending
    BY <1>6 DEF ForeignTransaction, IInv
  <2>2. pending = <<>> /\ TypeOK
    BY <2>1, ForeignPendsNothing DEF IInv
  <2>3. (tx.body.calls)' = <<>> /\ <<>> \in Seq(Calls)
    BY <2>1, ForeignCalls DEF ForeignTx
  <2>4. Underway'
    BY <2>1, <2>2, <2>3, BeginsUnderway
  <2>5. QED
    BY <1>0, <2>1, <2>4 DEF ForeignTx
<1>7. CASE CallContract
  <2>1. Underway'
    BY <1>7, ProgressByContract
  <2>2. QED
    BY <1>0, <1>7, <2>1 DEF CallContract, ForeignTx, supported_version
<1>8. CASE CallSelf /\ ~ Revert
  <2>1. Underway'
    BY <1>8, ProgressBySelf
  <2>2. UNCHANGED <<phase, tx, callee, saved, now>> /\ phase = "executing"
    BY <1>8 DEF CallSelf
  <2>3. QED
    BY <1>0, <2>1, <2>2 DEF ForeignTx, supported_version
<1>9. ASSUME NEW caller \in Contracts, NEW e \in Entries, Callback(caller, e), ~ Revert
      PROVE  StoreInv'
  <2>1. /\ entry_accepts(caller, e) /\ entry_effect(e, pending) /\ phase = "executing"
        /\ UNCHANGED <<phase, tx, callee, saved, now>>
    BY <1>9 DEF Callback
  <2>2. Underway'
    BY <2>1, ProgressByCallback
  <2>3. QED
    BY <1>0, <2>1, <2>2 DEF ForeignTx, supported_version
<1>10. CASE ContractReturns
  BY <1>0, <1>10, StillUnderway DEF ContractReturns, ForeignTx, supported_version
<1>11. CASE Finish
  BY <1>0, <1>11 DEF Finish, ForeignTx
<1>12. CASE Tick
  BY <1>0, <1>12 DEF Tick, ForeignTx, IInv
<1>13. CASE UNCHANGED vars
  <2>1. Underway => Underway'
    BY <1>13, StillUnderway DEF vars, sequencer
  <2>2. QED
    BY <1>0, <1>13, <2>1 DEF vars, storage, sequencer, ForeignTx, supported_version
<1>14. QED
  BY <1>1, <1>2, <1>3, <1>4, <1>5, <1>6, <1>7, <1>8, <1>9, <1>10, <1>11, <1>12, <1>13
     DEF Next, CallNowhere, ContractPanics, Execute, CallSelf, Callback

LEMMA StoreInductive == Spec => []StoreInv
<1>1. Init => StoreInv
  BY InitIInv DEF StoreInv, Init
<1>2. StoreInv /\ [Next]_vars => StoreInv'
  BY NextKeepsStoreInv
<1>3. QED
  BY <1>1, <1>2, PTL DEF Spec

\* Storage, saved or not, is a triple: what the mapping reads off it is all of it.
LEMMA CommittedIs ==
    ASSUME TypeOK
    PROVE  /\ phase \in {"validated", "executing"} => Store!store = saved
           /\ phase \notin {"validated", "executing"} => Store!store = storage
<1>1. saved = <<saved[1], saved[2], saved[3]>>
  BY DEF TypeOK
<1>2. storage = <<storage[1], storage[2], storage[3]>>
  BY DEF storage
<1>3. QED
  BY <1>1, <1>2 DEF Store!store, committed

\* What a step of the store has to say of its variables.
LEMMA StoreStutters ==
    ASSUME UNCHANGED committed, (phase' = "undeployed") = (phase = "undeployed"),
           UNCHANGED <<tx, now>>
    PROVE  UNCHANGED Store!vars
BY DEF Store!vars, Store!store

LEMMA RevertAborts ==
    ASSUME StoreInv, phase \in {"validated", "executing"}, Revert
    PROVE  Store!Abort \/ UNCHANGED Store!vars
<1>1. committed = saved /\ saved = <<saved[1], saved[2], saved[3]>>
  BY DEF committed, StoreInv, IInv, TypeOK
<1>2. phase' = "idle" /\ tx' = ForeignTx /\ UNCHANGED now
      /\ Account_public_key' = saved[1] /\ webauthn_public_key' = saved[2]
      /\ revoked' = saved[3]
  BY DEF Revert
<1>3. committed' = saved
  BY <1>1, <1>2 DEF committed, storage
<1>4. CASE tx = ForeignTx
  BY <1>1, <1>2, <1>3, <1>4, StoreStutters
<1>5. CASE tx # ForeignTx
  BY <1>1, <1>2, <1>3, <1>5 DEF Store!Abort, Store!store
<1>6. QED
  BY <1>4, <1>5

LEMMA FinishCommits ==
    ASSUME StoreInv, Finish
    PROVE  Store!Commit \/ Store!Foreign
<1> DEFINE calls == tx.body.calls
<1>1. /\ phase = "executing" /\ pending = <<>> /\ phase' = "idle" /\ tx' = ForeignTx
      /\ UNCHANGED <<Account_public_key, webauthn_public_key, revoked, saved, now>>
  BY DEF Finish, storage
<1>2. committed = saved /\ committed'[1] = Account_public_key
      /\ committed'[2] = webauthn_public_key /\ committed'[3] = revoked
  BY <1>1 DEF committed, storage
<1>3. calls \in Seq(Calls) /\ Len(calls) \in Nat
  BY CallsTyped DEF StoreInv, IInv
<1>4. Progress(calls, Len(calls))
  <2>1. PICK n \in 0 .. Len(calls) : Progress(calls, n)
    BY <1>1 DEF StoreInv, Underway
  <2>2. n = Len(calls)
    <3>1. SubSeq(calls, n + 1, Len(calls)) = <<>>
      BY <1>1, <2>1 DEF Progress
    <3>2. CASE n < Len(calls)
      <4>1. Len(SubSeq(calls, n + 1, Len(calls))) = Len(calls) - n
        BY <1>3, <3>2
      <4>2. Len(SubSeq(calls, n + 1, Len(calls))) = 0
        <5>1. Len(<<>>) = 0
          OBVIOUS
        <5>2. QED
          BY <3>1, <5>1, Zenon
      <4> HIDE DEF calls
      <4>3. QED
        BY <1>3, <3>2, <4>1, <4>2
    <3>3. QED
      BY <1>3, <3>2
  <2>3. QED
    BY <2>1, <2>2
<1>5. CASE tx = ForeignTx
  <2>1. calls = <<>> /\ Len(calls) = 0
    BY <1>5, ForeignCalls
  <2>2. Account_public_key = saved[1] /\ webauthn_public_key = saved[2]
    BY <1>4, <2>1 DEF Progress, Store!LeftBy
  <2>3. Store!SlotsLeftBy(<<>>, 0, saved[3], revoked)
    BY <1>4, <2>1 DEF Progress
  <2>4. QED
    BY <1>1, <1>2, <1>5, <2>2, <2>3 DEF Store!Foreign
<1>6. CASE tx # ForeignTx
  <2>1. tx.body.kind = "invoke" /\ tx.body.version \in {TRANSACTION_VERSION, QUERY_VERSION}
    BY <1>1, <1>6 DEF StoreInv, supported_version
  <2>2. /\ \A i \in 1 .. Len(calls) : Store!CanBeMade(calls[i])
        /\ Store!LeftBy(calls, Len(calls), "set_public_key", saved[1], Account_public_key)
        /\ Store!LeftBy(calls, Len(calls), "set_webauthn_pub_key",
                        saved[2], webauthn_public_key)
        /\ Store!SlotsLeftBy(calls, Len(calls), saved[3], revoked)
    BY <1>4 DEF Progress
  <2>3. QED
    BY <1>1, <1>2, <1>6, <2>1, <2>2 DEF Store!Commit
<1>7. QED
  BY <1>5, <1>6

LEMMA StepsImplement ==
    ASSUME StoreInv, [Next]_vars
    PROVE  [Store!Next]_Store!vars
<1> USE DEF StoreInv, IInv
<1>1. ASSUME NEW owner \in Owners, Constructor(owner) PROVE Store!Deploy
  BY <1>1 DEF Constructor, Store!Deploy, committed, storage
<1>2. ASSUME NEW t \in Txs, Validate(t) PROVE Store!Begin(t)
  <2>1. /\ phase = "idle" /\ phase' = "validated" /\ tx = ForeignTx /\ tx' = t
        /\ saved' = storage /\ UNCHANGED now
    BY <1>2 DEF Validate
  <2>2. AuthorizedIn(t, storage, now)
    BY <1>2, ValidatedIsAuthorized DEF Validate
  <2>3. Store!store = storage /\ committed = storage /\ committed' = storage
    BY <2>1, CommittedIs DEF committed
  <2>4. QED
    BY <2>1, <2>2, <2>3 DEF Store!Begin, Store!store
<1>3. ASSUME NEW t \in Txs, Declare(t) PROVE UNCHANGED Store!vars
  BY <1>3, StoreStutters DEF Declare, vars, sequencer, storage, committed
<1>4. CASE Revert /\ phase \in {"validated", "executing"}
  BY <1>4, RevertAborts DEF Store!Next
<1>5. CASE Execute /\ ~ Revert
  BY <1>5, StoreStutters DEF Execute, committed
<1>6. ASSUME NEW contract \in Contracts, ForeignTransaction(contract)
      PROVE  UNCHANGED Store!vars
  BY <1>6, StoreStutters DEF ForeignTransaction, committed
<1>7. CASE CallContract
  BY <1>7, StoreStutters DEF CallContract, committed
<1>8. CASE CallSelf /\ ~ Revert
  BY <1>8, StoreStutters DEF CallSelf, committed
<1>9. ASSUME NEW caller \in Contracts, NEW e \in Entries, Callback(caller, e), ~ Revert
      PROVE  UNCHANGED Store!vars
  BY <1>9, StoreStutters DEF Callback, committed
<1>10. CASE ContractReturns
  BY <1>10, StoreStutters DEF ContractReturns, committed
<1>11. CASE Finish
  BY <1>11, FinishCommits DEF Store!Next
<1>12. CASE Tick
  BY <1>12 DEF Tick, Store!Next, Store!Pass, Store!store, committed, storage
<1>13. CASE UNCHANGED vars
  BY <1>13, StoreStutters DEF vars, sequencer, storage, committed
<1>14. QED
  BY <1>1, <1>2, <1>3, <1>4, <1>5, <1>6, <1>7, <1>8, <1>9, <1>10, <1>11, <1>12, <1>13
     DEF Next, Store!Next, CallNowhere, ContractPanics, Execute, CallSelf, Callback

\* Whatever contracts call back and wherever a panic strikes, each transaction of
\* the account takes effect as a whole or not at all, and under an authorisation
\* by the store it changes; transactions of others leave the keys alone.
THEOREM AccountImplementsStore == Spec => ImplementsStore
<1>1. Init => Store!Init
  BY DEF Init, Store!Init, committed, storage
<1>2. StoreInv /\ [Next]_vars => [Store!Next]_Store!vars
  BY StepsImplement
<1>3. QED
  BY <1>1, <1>2, StoreInductive, PTL DEF Spec, ImplementsStore, Store!Spec
=============================================================================
