------------------------------ MODULE Account ------------------------------
(***************************************************************************)
(* The account contract (cartridge_account/src/lib.cairo) with its two     *)
(* embedded components, driven by the sequencer and called by the other    *)
(* contracts.  An invoke transaction is validated, then its calls are made *)
(* one by one; a called contract may call back into the account, at any    *)
(* time and with any arguments, before it returns.  A panic anywhere       *)
(* undoes the whole transaction.                                           *)
(***************************************************************************)
EXTENDS SessionComponent, WebauthnComponent

CONSTANTS
    Keys,        \* the Stark public keys
    NoKey,       \* 0, Account_public_key before the constructor ran
    Owners,      \* the constructor arguments considered
    Zero,        \* the caller of a transaction's entry point
    Contracts,   \* the other contracts
    Calls,       \* the calls transactions are made of
    Txs,         \* the transactions that may be submitted, told apart up to nonce
    Entries,     \* the entry point invocations the other contracts may make
    MaxTime      \* bound on the block timestamp

ASSUME AddressesDiffer == Self # Zero /\ Self \notin Contracts /\ Zero \notin Contracts

\* Calldata deserializes into the argument types of the account's entry points.
WellTyped(e) ==
    /\ e.selector = "set_public_key" => e.data[1] \in Keys
    /\ e.selector = "set_webauthn_pub_key" => e.data[1] \in Points
    /\ e.selector = "revoke_session" => e.data \in Seq(Felts)

ASSUME ConstantsTyped ==
    /\ NoFelt \in Felts
    /\ Owners \subseteq Keys
    /\ \A t \in Txs :
          /\ t.body.calls \in Seq(Calls)
          /\ t.signature.type = "session" => t.signature.session_expires \in Nat
    /\ \A e \in Calls \union Entries : WellTyped(e)
    /\ MaxTime \in Nat

VARIABLES
    Account_public_key,
    phase,       \* what the sequencer is doing
    tx,          \* the transaction being processed
    pending,     \* the calls the account has still to make
    callee,      \* the contract that is running on the account's behalf, or Zero
    saved,       \* the account's storage when the transaction began
    now          \* the block timestamp

storage == <<Account_public_key, webauthn_public_key, revoked>>
sequencer == <<phase, tx, pending, callee, saved, now>>
vars == <<storage, sequencer>>

\* A transaction of somebody else's account: this account signs nothing in it.
ForeignTx == [body |-> [kind |-> "foreign", calls |-> <<>>],
              signature |-> [type |-> "empty"]]

\* The transaction hash covers the kind, the nonce, the version and the calls.
tx_hash(t) == <<"transaction", Self, t.body>>

TRANSACTION_VERSION == 1
QUERY_VERSION == 2    \* 2^128 + 1 in the code: only told apart from 1

-----------------------------------------------------------------------------
(* Validation: what the sequencer asks before it runs a transaction.       *)

is_valid_ecdsa_signature(hash, signature) ==
    /\ signature.type = "ecdsa"      \* a signature of exactly two felts
    /\ check_ecdsa_signature(hash, Account_public_key, signature.r, signature.s)

validate_ecdsa_transaction(t) ==
    IF is_valid_ecdsa_signature(tx_hash(t), t.signature)
    THEN "VALIDATED" ELSE "INVALID_SIGNATURE"

\* at(0) of an empty signature and the unwrap of one that does not deserialize
\* both panic; an unknown type felt is a plain refusal.
validate_transaction(t) ==
    LET signature == t.signature
    IN  IF signature.type = "ecdsa" THEN validate_ecdsa_transaction(t)
        ELSE IF signature.type \in {"empty", "malformed"} THEN "PANIC"
        ELSE IF signature.type = "session"
             THEN validate_signature(Account_public_key, signature, t.body.calls,
                                     tx_hash(t), now)
        ELSE IF signature.type = "webauthn"
             THEN verify_webauthn_signer(signature, tx_hash(t))
        ELSE "INVALID_SIGNATURE"

-----------------------------------------------------------------------------
(* The entry points that other contracts, or the account itself, can call. *)

\* MUTANT: anyone may call.
assert_nothing(caller) == TRUE

assert_only_self(caller) == caller = Self

supported_version(version) == version \in {TRANSACTION_VERSION, QUERY_VERSION}

\* MUTANT: calls from contracts are let through.
execute_from_anyone(caller) == tx.body.kind = "invoke" => supported_version(tx.body.version)

\* Inside a transaction of another account the version is that account's.
execute_accepts(caller) ==
    /\ caller = Zero
    /\ tx.body.kind = "invoke" => supported_version(tx.body.version)

Setters == {"set_public_key", "set_webauthn_pub_key"}

\* Entry points that only read; the second set panics on some arguments.
Views == {"get_public_key", "get_webauthn_pub_key", "compute_session_hash", "compute_root"}
PartialViews == {"__validate__", "__validate_declare__", "__validate_deploy__",
                 "is_valid_signature", "validate_session", "validate_session_serialized",
                 "compute_proof", "verify_webauthn_signer",
                 "verify_webauthn_signer_serialized"}

\* Whether the entry point can return.
entry_accepts(caller, e) ==
    /\ e.selector \in Setters \union Views \union PartialViews
                        \union {"__execute__", "revoke_session"}
    /\ e.selector \in Setters => assert_only_self(caller)
    /\ e.selector = "__execute__" => execute_accepts(caller)
    /\ e.selector = "revoke_session" => revoke_session_accepts(e.data)

\* Whether it can panic; so does a call to a selector the account does not have.
entry_panics(caller, e) ==
    \/ ~ entry_accepts(caller, e)
    \/ e.selector \in PartialViews

\* What it does when it returns; rest is what the account had still to call.
entry_effect(e, rest) ==
    /\ Account_public_key' =
          IF e.selector = "set_public_key" THEN e.data[1] ELSE Account_public_key
    /\ webauthn_public_key' =
          IF e.selector = "set_webauthn_pub_key" THEN e.data[1] ELSE webauthn_public_key
    /\ revoked' =
          IF e.selector = "revoke_session" THEN revoke_session(e.data) ELSE revoked
    /\ pending' =
          IF e.selector = "__execute__" THEN e.data \o rest ELSE rest

\* call_contract_syscall(..).unwrap(): a panic anywhere ends the transaction, and
\* the sequencer restores the storage it began with.
Revert ==
    /\ Account_public_key' = saved[1]
    /\ webauthn_public_key' = saved[2]
    /\ revoked' = saved[3]
    /\ phase' = "idle" /\ tx' = ForeignTx /\ pending' = <<>> /\ callee' = Zero
    /\ UNCHANGED <<saved, now>>

-----------------------------------------------------------------------------
Init ==
    /\ Account_public_key = NoKey
    /\ webauthn_public_key = NoPoint
    /\ revoked = [r \in Felts |-> NoFelt]
    /\ phase = "undeployed"
    /\ tx = ForeignTx
    /\ pending = <<>>
    /\ callee = Zero
    /\ saved = storage
    /\ now = 0

\* The constructor, run by a deploying contract or by a deploy-account
\* transaction; the latter is kept only if __validate_deploy__ then accepts it.
Constructor(owner) ==
    /\ phase = "undeployed"
    /\ Account_public_key' = owner
    /\ phase' = "idle"
    /\ UNCHANGED <<webauthn_public_key, revoked, tx, pending, callee, saved, now>>

\* The sequencer validates an invoke transaction and goes on to run it.
Validate(t) ==
    /\ phase = "idle"
    /\ t.body.kind = "invoke"
    /\ validate_transaction(t) = "VALIDATED"
    /\ phase' = "validated" /\ tx' = t /\ saved' = storage
    /\ UNCHANGED <<storage, pending, callee, now>>

\* A declaration runs nothing in the account; only the owner's signature will do.
Declare(t) ==
    /\ phase = "idle"
    /\ t.body.kind = "declare"
    /\ validate_ecdsa_transaction(t) = "VALIDATED"
    /\ UNCHANGED vars

\* The sequencer enters __execute__.
Execute ==
    /\ phase = "validated"
    /\ \/ /\ execute_accepts(Zero)
          /\ phase' = "executing"
          /\ pending' = tx.body.calls
          /\ UNCHANGED <<storage, tx, callee, saved, now>>
       \/ ~ execute_accepts(Zero) /\ Revert

\* Another account's transaction calls a contract, which may call this account.
ForeignTransaction(contract) ==
    /\ phase = "idle"
    /\ phase' = "executing" /\ tx' = ForeignTx /\ callee' = contract /\ saved' = storage
    /\ UNCHANGED <<storage, pending, now>>

\* _execute_single_call on another contract: it runs until it returns.
CallContract ==
    /\ phase = "executing" /\ callee = Zero /\ pending # <<>>
    /\ Head(pending).to \in Contracts
    /\ callee' = Head(pending).to
    /\ pending' = Tail(pending)
    /\ UNCHANGED <<storage, phase, tx, saved, now>>

\* _execute_single_call on the account itself: the caller is the account.
CallSelf ==
    /\ phase = "executing" /\ callee = Zero /\ pending # <<>>
    /\ Head(pending).to = Self
    /\ \/ /\ entry_accepts(Self, Head(pending))
          /\ entry_effect(Head(pending), Tail(pending))
          /\ UNCHANGED <<phase, tx, callee, saved, now>>
       \/ entry_panics(Self, Head(pending)) /\ Revert

\* MUTANT: a call that fails is passed over.
CallNowhereSkipped ==
    /\ phase = "executing" /\ callee = Zero /\ pending # <<>>
    /\ Head(pending).to \notin Contracts \union {Self}
    /\ pending' = Tail(pending)
    /\ UNCHANGED <<storage, phase, tx, callee, saved, now>>

\* Nothing is deployed at the target.
CallNowhere ==
    /\ phase = "executing" /\ callee = Zero /\ pending # <<>>
    /\ Head(pending).to \notin Contracts \union {Self}
    /\ Revert

\* The running contract, or one that it calls, calls the account; the caller is
\* that contract.
Callback(caller, e) ==
    /\ phase = "executing" /\ callee # Zero
    /\ \/ /\ entry_accepts(caller, e)
          /\ entry_effect(e, pending)
          /\ UNCHANGED <<phase, tx, callee, saved, now>>
       \/ entry_panics(caller, e) /\ Revert

ContractReturns ==
    /\ phase = "executing" /\ callee # Zero
    /\ callee' = Zero
    /\ UNCHANGED <<storage, phase, tx, pending, saved, now>>

ContractPanics ==
    /\ phase = "executing" /\ callee # Zero
    /\ Revert

\* All calls made: __execute__ returns and the transaction commits.
Finish ==
    /\ phase = "executing" /\ callee = Zero /\ pending = <<>>
    /\ phase' = "idle" /\ tx' = ForeignTx
    /\ UNCHANGED <<storage, pending, callee, saved, now>>

\* The timestamp moves between blocks, never inside a transaction.
Tick ==
    /\ phase = "idle" /\ now < MaxTime
    /\ now' = now + 1
    /\ UNCHANGED <<storage, phase, tx, pending, callee, saved>>

Next ==
    \/ \E owner \in Owners : Constructor(owner)
    \/ \E t \in Txs : Validate(t)
    \/ \E t \in Txs : Declare(t)
    \/ Execute
    \/ \E contract \in Contracts : ForeignTransaction(contract)
    \/ CallContract
    \/ CallSelf
    \/ CallNowhere
    \/ \E caller \in Contracts, e \in Entries : Callback(caller, e)
    \/ ContractReturns
    \/ ContractPanics
    \/ Finish
    \/ Tick

Spec == Init /\ [][Next]_vars

-----------------------------------------------------------------------------
(* Type correctness: every variable keeps the type its declaration gives.  *)
TypeOK ==
    /\ Account_public_key \in Keys \union {NoKey}
    /\ webauthn_public_key \in Points \union {NoPoint}
    /\ revoked \in [Felts -> Felts]
    /\ phase \in {"undeployed", "idle", "validated", "executing"}
    /\ tx \in Txs \union {ForeignTx}
    /\ pending \in Seq(Calls)
    /\ callee \in Contracts \union {Zero}
    /\ saved \in (Keys \union {NoKey}) \X (Points \union {NoPoint}) \X [Felts -> Felts]
    /\ now \in 0 .. MaxTime

\* Somebody holding this key has signed the transaction.
SignedBy(t, key) ==
    \E signed \in EcdsaSigned : signed[1] = tx_hash(t) /\ signed[2] = key

\* The registered authenticator, with its user present and verified, has signed
\* client data that carries the hash of this transaction.
SignedByAuthenticator(t, point) ==
    \E signed \in P256Signed :
        /\ signed[2] = point /\ point \in OnCurve
        /\ {"UP", "UV"} \subseteq signed[1][1].flags
        /\ \E word \in 1 .. Len(signed[1][2]) : signed[1][2][word] = tx_hash(t)

\* One session the owner's key has granted for this account, still running and
\* not revoked, whose key has signed the transaction, permits each of the calls.
PermittedBySession(t, key, slots, time) ==
    \E grant \in EcdsaSigned :
        LET hash == grant[1]    \* <<"session", session key, expiry, root, account>>
        IN  /\ hash[1] = "session" /\ hash[5] = Self /\ grant[2] = key
            /\ hash[3] > time
            /\ slots[grant[3]] # grant[4]
            /\ SignedBy(t, hash[2])
            /\ \A i \in 1 .. Len(t.body.calls) :
                  <<t.body.calls[i].to, t.body.calls[i].selector>> \in hash[4].leaves

AuthorizedIn(t, store, time) ==
    \/ SignedBy(t, store[1])
    \/ SignedByAuthenticator(t, store[2])
    \/ PermittedBySession(t, store[1], store[3], time)

(* A transaction of this account is under way only if, when it began, the  *)
(* owner of that moment had authorised it: by the current Stark key, by    *)
(* the registered authenticator, or by a session that covers every call,   *)
(* has not expired and has not been revoked (validate_transaction).        *)
RunningIsAuthorized == tx # ForeignTx => AuthorizedIn(tx, saved, now)

(* Whatever contracts call back, the account only ever has calls of the    *)
(* signed transaction left to make, in their order: no way into            *)
(* __execute__ smuggles in a call that validation did not see.             *)
OnlySignedCallsPending ==
    \E made \in 0 .. Len(tx.body.calls) :
        pending = SubSeq(tx.body.calls, made + 1, Len(tx.body.calls))

(* The owner's keys change only when a transaction the owner authorised    *)
(* makes the account call its own setter with that value, or when such a   *)
(* change is undone; a called contract never changes them                  *)
(* (assert_only_self, execute's caller check).                             *)
OwnKeyCall(selector, key) ==
    /\ tx # ForeignTx /\ AuthorizedIn(tx, saved, now)
    /\ \E i \in 1 .. Len(tx.body.calls) :
          LET call == tx.body.calls[i]
          IN  call.to = Self /\ call.selector = selector /\ call.data[1] = key

KeysChangeByOwner ==
    [][phase # "undeployed" =>
        /\ Account_public_key' # Account_public_key =>
              \/ OwnKeyCall("set_public_key", Account_public_key')
              \/ phase' = "idle" /\ Account_public_key' = saved[1]
        /\ webauthn_public_key' # webauthn_public_key =>
              \/ OwnKeyCall("set_webauthn_pub_key", webauthn_public_key')
              \/ phase' = "idle" /\ webauthn_public_key' = saved[2]]_vars

-----------------------------------------------------------------------------
(* Between its transactions the account is a guarded store: what a running *)
(* transaction has written so far does not count until it commits.         *)
committed == IF phase \in {"validated", "executing"} THEN saved ELSE storage

\* The tokens that other contracts may revoke.
Revocations ==
    {<<e.data[1], e.data[2]>> :
        e \in {f \in Entries : f.selector = "revoke_session" /\ revoke_session_accepts(f.data)}}

Store == INSTANCE GuardedStore WITH
    deployed <- phase # "undeployed",
    key <- committed[1], point <- committed[2], slots <- committed[3],
    running <- tx, time <- now,
    NoTx <- ForeignTx, Versions <- {TRANSACTION_VERSION, QUERY_VERSION}

(* The account implements the guarded store: every transaction takes       *)
(* effect as one step, with all its calls in their order or not at all,    *)
(* under an authorisation by the very store it changes (__validate__,      *)
(* __execute__, _execute_single_call's unwrap).                            *)
ImplementsStore == Store!Spec

(* A slot of the revoked tokens changes only to hold a token that somebody *)
(* then revokes: a running contract, whichever it is, or the account, by a *)
(* call of a transaction that its owner authorised; or back, when such a   *)
(* change is undone.  So a revoked token stays revoked until another with  *)
(* the same r is revoked (revoke_session, the revoked map).                *)
OwnRevocation(r, s) ==
    /\ tx # ForeignTx /\ AuthorizedIn(tx, saved, now)
    /\ \E i \in 1 .. Len(tx.body.calls) :
          LET call == tx.body.calls[i]
          IN  /\ call.to = Self /\ call.selector = "revoke_session"
              /\ call.data[1] = r /\ call.data[2] = s

SlotsChangeByRevoking ==
    [][\A r \in Felts :
        revoked'[r] # revoked[r] =>
            \/ callee # Zero /\ <<r, revoked'[r]>> \in Revocations
            \/ callee = Zero /\ OwnRevocation(r, revoked'[r])
            \/ phase' = "idle" /\ revoked'[r] = saved[3][r]]_vars

(* As the test of revocation has it: a revoked token stays revoked, except *)
(* when the transaction that revoked it is undone.  Here another token     *)
(* with the same r may replace it.                                         *)
RevocationSticks ==
    [][\A r \in Felts :
        revoked[r] # NoFelt =>
            \/ revoked'[r] = revoked[r]
            \/ phase' = "idle" /\ saved[3][r] # revoked[r]]_vars
=============================================================================
