# The Cartridge account, modelled and proved

This directory is a TLA+ development of `cairo-webauthn`: a Starknet account
contract with session keys and WebAuthn, and the Rust SDK that signs for it.
TLC checks the modules on small instances; TLAPS proves the properties that
matter most for every value of the constants. `PROJECT.json` lists the
components, the runs, the source lines of each definition, the hazards and the
theorems.

To check a run or a proof:

    tlc -config MCAccount.cfg MCAccount.tla
    tlapm AccountProofs.tla

## 1. The system

| Component | State | Operations | Talks to |
|---|---|---|---|
| **Account contract** `cartridge_account/src/lib.cairo` | `Account_public_key` | constructor, `__validate__`, `__execute__`, `__validate_declare__`, `__validate_deploy__`, `set_public_key`, `is_valid_signature` | embeds the two components; called by the sequencer and by any contract |
| **Session component** `webauthn/session/src` | `revoked`: one felt for each felt | `validate_session`, `revoke_session`, views | reads the account's key; Merkle and ECDSA libraries |
| **WebAuthn component** `webauthn/auth/src` | `public_key`, if any | `set_webauthn_pub_key`, `verify_webauthn_signer`, views | secp256r1 syscalls |
| **Session of the SDK** `account_sdk/src/session_token` | policy with proofs, root, token | `set_policy`, `set_token`, `sign_execution` | its owner signs the session hash; its transactions go to the contract |
| **Merkle tree** `account_sdk/src/session_token/hash.rs` | none | `compute_proof`, `compute_root` | its proofs are verified by the contract |
| **Transaction waiter** `account_sdk/src/transaction_waiter.rs` | the current round | `wait` | polls a node; races a timer |
| **WebAuthn signers** `account_sdk/src/webauthn_signer` | a key in memory, or a credential of the browser | `register`, `sign`, `sign_execution` | spawned tasks and one-shot channels; the contract's `verify` |
| **Deployment** `account_sdk/src/deploy_contract` | a pending result | `declare`, `deploy`, `skip_waiting`, `wait_for_completion` | the node; the waiter |
| **Arithmetic** `webauthn/auth/src/mod_arithmetic.cairo`, `helpers.cairo`, `ecdsa.cairo` | none | `extended_gcd`, `mod_inv`, `extract_u256...`, `verify_hashed_ecdsa` | the curve's syscalls |
| **Felt serializer** `account_sdk/src/felt_ser.rs` | output | `to_felts` | calldata of the WebAuthn account |
| **Test runners** `account_sdk/src/tests/runners` | a subprocess | `wait` for its start line | reader thread, channel, timeout |

### What is hard in it

* **Reentrancy.** `__execute__` makes its calls one by one, and a called
  contract may call any entry point of the account before it returns.
  `revoke_session` has no access check; the setters and `__execute__` have one.
* **Validation before execution.** A transaction is judged against the key and
  revocations of one moment and run afterwards; its own calls may change both.
* **Rollback.** A panic anywhere undoes every change of the transaction.
* **Distance between signing and judging.** What a session signs arrives later;
  by then the application may hold another policy or token, the account
  another owner, the token may be revoked, the session over.
* **Three implementations of one tree.** The prover in Rust, the verifier in
  Rust and the verifier in Cairo must agree on padding, on the order in which
  two nodes are hashed, and on how flat proofs are cut.
* **Polling.** The waiter acts on answers that are as old as their journey,
  from a node that may be silent, about a chain that moves meanwhile. A
  deployment rests on two such waits, and on the first transaction while the
  second is under way.
* **Overlapping prompts.** Each `sign` or `register` of the device signer spawns
  a task on the browser's event loop and awaits its answer without a time limit.
  The browser holds one prompt and refuses another; a caller that gives up
  leaves its prompt behind.
* **Texts and halves.** Offsets into client data come from a text search in text
  that a browser wrote; integers cross to the contract as two halves; the calls
  of a transaction are encoded twice and parsed once out of Debug output.
* **Unsigned arithmetic.** `extended_gcd` keeps coefficients of alternating sign
  as magnitudes and lifts the negative one at the end.

What makes each component correct: the account runs nothing its owner has not
authorised and loses control of neither its keys nor its call queue; a session
permits exactly what was granted for exactly as long; a proof leads to the root
and to no other leaf's place; a wait ends, with a verdict that is true; a
request to the browser is answered once, with what its user approved; a
signature is accepted exactly when the key's holder can have made it; calldata
read back are the calls that were meant.

## 2. The modules

    Primitives ---- SessionComponent -----+---- Account ---- MCAccount
              \                           |        \----- AccountProofs
               ---- WebauthnComponent ----+        +---- implements GuardedStore
                        \
                         +---- WebauthnFlow ---- MCWebauthnFlow
              Assertion /        |      \----- WebauthnFlowProofs
                                 +---- implements DeviceRequests
    SessionComponent ---- SessionFlow ---- MCSessionFlow
                              |     \----- SessionFlowProofs
                              +---- implements SessionPermit
    Merkle ---- MCMerkle
          \---- SdkProofs
    TransactionWaiter ---- WaiterProofs
             \---- Deployment ---- DeploymentProofs
    ModArith ---- Ecdsa ---- MCEcdsa
                       \---- EcdsaProofs
    FeltSerializer, CallEncoding ---- Calldata ---- MCFeltSerializer, with CairoSerde
                                             \---- SdkProofs
    Powers, below Assertion, SessionFlow and Merkle
    Groundwork, below EcdsaProofs, SdkProofs, SessionFlowProofs and
        WebauthnFlowProofs

**Primitives** is what the code takes from libraries. Hashes are ideal: the
hash of a value is a tuple that holds it. Signature schemes are constants, the
relation of what verifies, so nothing assumes that a message has one signature.
A Merkle root is a record of its leaves and its height; `Merkle` is where this
is shown to be justified.

**SessionComponent** and **WebauthnComponent** hold the contract's two
components: their storage as a variable, their checks as operators in the order
the code makes them, with the name of the error each failure gives or `PANIC`
where the code unwraps. Client data is a sequence of words and the challenge a
word of it; authenticator data is a length and a set of flag bits.

**Account** puts them under the sequencer and among other contracts.

| In the code | In the module |
|---|---|
| storage | `Account_public_key`, `webauthn_public_key`, `revoked` |
| `__validate__` then `__execute__` of a transaction | `Validate`, `Execute`, with `phase` and `tx` |
| the loop of `_execute_calls` | `pending`; `CallContract`, `CallSelf`, `CallNowhere`, `Finish` |
| a contract that is running | `callee`; `Callback`, `ContractReturns`, `ContractPanics` |
| `unwrap` of a failed call, rollback | `Revert`, to `saved` |
| `__validate_declare__` | `Declare` |
| transactions of other accounts that reach this one | `ForeignTransaction` |

A nested `__execute__` that got past its caller check would put its calls before
those that are pending; that it never does is what `OnlySignedCallsPending`
says. Inside a transaction of another account the sequencer's transaction info
is that account's, which is why the version check looks at `tx` only when it is
an invocation of this account. Nonces are left out: `Txs` are told apart up to
their nonce, so a transaction may come again, which only adds behaviours. The
contract's events are left out. Whether a panicking view panics depends on its
arguments; the model lets it panic or return.

**GuardedStore** is the abstract specification of the account, without its call
stack, its callbacks and its rollback: a store of the two keys and the revoked
tokens. A transaction that the store authorises begins (`Begin`), and ends with
the effect of all its calls, in their order (`Commit`), or with none (`Abort`);
what comes from others only adds tokens that anyone may revoke (`Foreign`).
`ImplementsStore` maps its store to `committed`: what the account would be left
with if the transaction under way panicked. So a session that is revoked by the
bundle it signed still has its whole bundle made, and a setter that follows
another one in a bundle decides.

**SessionPermit** is the abstract specification of a session: permits, their
owner, expiry and end. **SessionFlow** is the machinery: the `Session` object,
`SessionAccount`, the account's verdict, and the changes that happen meanwhile.
`KeepsPromise` says the second implements the first: `owner` is the account's
key, `ended` the permits whose slot holds their second half, and `ran` is a
history variable whose bit makes two equal runs in a row two steps. In
`SessionPermit` a permit leaves `ended` only when another token with the same
first half is revoked (`End`), which anyone may do; so the refinement also says
that a revocation is lost to nothing else. A session key that cannot sign sends
nothing. What the accepted calls do to the account is left to `Account`; here
rotations and revocations are steps of their own.

**Merkle** climbs the tree for all leaves at once. `Climb` is one level of
`compute_proof` and one round of `compute_root`. `wrong` is a second verifier
that starts from another hash, kept in `others`, and follows the same proof.

**TransactionWaiter** has the chain (`ChainMoves`), the node (`NodeAnswers` from
what it knows when it looks, `NodeFails`), the clock, and the waiter: `TakeReply`
is the code between two awaits, `Poll` the start of a round, `TimesOut` the
other branch of the `select!`, which may win even when an answer is there. The
chain may drop a pending transaction and include it again with another result;
blocks accepted on L2 are not reorganised.

**Deployment** puts the waiter's own module (`W`) under `declare` and `deploy`.
`ledger` has the status and result of both transactions on the chain, `waited`
the one the waiter looks at, and `waiter` steps happen only while the caller
awaits. A pending block loses what is last in it first, so a declaration is not
dropped from under a deployment that used it. `deployable` is what the
simulation before sending finds; between it and inclusion the declaration may be
dropped and `OtherDeploys` may take the address, which is possible because
`unique` is false. Sending itself has no time limit: `deploy` may never happen.

**Assertion** is client data, authenticator data and the conversion into the
contract's arguments. A text is a sequence of words, so that a search
(`find_value_index`) finds what the code's search finds; a browser may leave
white space (`Gaps`), and a relying party's name may hold a colon. Bytes are
digits to the base `Base`, `HalfLen` of them in half an integer.

**DeviceRequests** is the abstract specification of overlapping requests: a
task (`spawned`, `prompted`), a channel with at most one answer, a caller that
waits or has given up. **WebauthnFlow** is the two signers, `register`,
`sign_execution` and the contract's `verify_webauthn_signer`, which it takes
from `WebauthnComponent`; `signer` tells whether the account signs in memory or
with the device. `asked` is what a task has captured, `approved` is a history
variable of what the user saw. The browser, the authenticator and the points of
the curve that verify are external. The signature of an answer is taken to be the 64
bytes of r and s, because `from_response` cuts it in two at byte 32
(`cairo_args.rs`); authenticators as a rule give the DER encoding of the two numbers,
which would be cut at the wrong places, and what follows then is outside the
model. `Receive` of a signature waits for room under
`MaxSent`; the fairness of `Receive` therefore presumes that signed transactions
are judged or that room is left, and nothing else about the contract.

**ModArith** is one pass of the loop of `extended_gcd` per step, over unsigned
integers up to `MaxU256`; a product or sum out of range is `PANIC`. **Ecdsa**
adds the way from the bytes of a signature to the verdict. The curve is any
group of prime order: a point is a multiple of the generator and stands for its
factor, `Abscissa` is what of a point the code compares. Its syscalls are taken
not to fail.

**FeltSerializer** has one action per method that serde calls back and a stack of
the compounds begun; every method of the code that returns `TypeNotSupported` is
a kind in `Unsupported`. A value is of finite depth: all its parts lie within
`MaxDepth` levels, which `ValuesTyped` assumes. **CairoSerde** is the contract's deserializer
(external). **CallEncoding** has the two `encode_calls`, and `parse_calls` over
the words that the derived `Debug` of starknet-rs prints (external), where a field
element has another text (`hex`) than the one serde gives it (`text`); `read` is
`from_hex_be(..).unwrap()`, and `NotHex` stands for its panic. The format of that
`Debug` text is an assumption: what a version that prints differently would do to
`parse_calls` is not modelled. **Calldata**
brings the serializer and the encodings together; an input that stands for the
calls of a transaction says for which.

**Powers** is the power of a number, the size of an integer's half and of a tree.
**Groundwork** has the lemmas that several proofs share (section 4).

Operators commented `MUTANT` are variants of the definition that follows them,
as a plausible bug would have it; the specification does not use them. Each
property is violated when one of them takes the place of the original.

## 3. The runs

| Run | Module, configuration | Result |
|---|---|---|
| `account` | `MCAccount`, `MCAccount.cfg` | passes |
| `account_overlap` | `MCAccount`, `MCAccountOverlap.cfg` | `RevocationSticks` is violated |
| `session_several` | `MCSessionFlow`, `SessionFlowSeveral.cfg` | passes |
| `session_single` | `MCSessionFlow`, `SessionFlowSingle.cfg` | `SignedIsAccepted` is violated |
| `merkle` | `MCMerkle`, `MCMerkle.cfg` | passes |
| `waiter_final` | `TransactionWaiter`, `WaiterFinal.cfg` | passes |
| `waiter_reverted` | `TransactionWaiter`, `WaiterReverted.cfg` | `MustSucceedHonoured` is violated |
| `deployment` | `Deployment`, `Deployment.cfg` | passes |
| `webauthn` | `MCWebauthnFlow`, `WebauthnFlow.cfg` | passes |
| `webauthn_rp_id_hash` | `MCWebauthnFlow`, `WebauthnRpIdHash.cfg` | `CarriesRpIdHash` is violated |
| `ecdsa` | `MCEcdsa`, `MCEcdsa.cfg` | passes |
| `felt_serializer` | `MCFeltSerializer`, `MCFeltSerializer.cfg` | passes |

**account.** Two owner keys, one authenticator, one session key, one other
contract that may call back with nine invocations, among them revocations of two
tokens with the same `r`. The transactions cover every
way to sign and every way to be refused: a session of one call and one of three
(a tree of height two), by either owner; an expired session; a token too short;
a wrong token; a call the policy lacks at the end of the bundle; an assertion
without user verification, one with the challenge misplaced, one for another
transaction, one with a signature entry of zero; an unsupported version; a
target that does not exist; a nested `__execute__`. `MaxTime = 2` lets one
session expire while the other runs, and lets both expire.

* `RunningIsAuthorized`: what runs was authorised by the key, the authenticator
  or a session of the moment it began. Stated over signatures, not over
  `validate_transaction`.
* `OnlySignedCallsPending`, `KeysChangeByOwner`: reentrancy adds no call and
  changes no key.
* `SlotsChangeByRevoking`: a slot of the revoked tokens changes only to hold a token
  that is revoked in that step, by a running contract or by an authorised call of
  the account, or back in a rollback. A revoked token therefore stays revoked until
  another with the same `r` is revoked.
* `ImplementsStore`: every transaction takes effect as one step, with all its
  calls in their order or not at all, authorised by the very store it changes. One
  transaction (`handover`) sets the owner's key, the authenticator's, and the
  owner's again, with a call to a contract in between that may call back; another
  ends in a call that cannot be made, when a callback may have revoked a token.

**account_overlap** asks of the same account what the test of revocation says of a
revoked session, that it cannot sign any more. Genuine tokens, signatures with fresh
nonces, differ in `r`; but `revoke_session` accepts any pair from any caller, and
one with the `r` of a revoked token and another `s` overwrites its slot: the first
token is no longer revoked.

**session_several.** Policies of two and three calls (heights one and two), four
tokens of which one is made up, six bundles (empty, one call, two in either
order, one repeated, one not permitted), two owners, a session that expires at
time 1, one transaction under way at a time: a second one would be judged by the
same rules at a later moment, which the first one already meets. Two tokens may be
revoked: one that was granted, and one with the same `r`, which puts the first in
force again.

* `SignedIsAccepted`: the SDK and the contract agree; no signed transaction is
  refused while its session holds.
* `KeepsPromise`: nothing else is accepted, revocations in the same slot included.

**session_single.** The same with a policy of one call. Its proof is empty, the
contract counts such proofs as one (`signature.cairo:35`), and a bundle of two
permitted calls is refused.

**merkle.** Up to five calls with three possible hashes, repeated ones included:
one leaf, two, three (odd at the leaves), four, and five (odd at two levels). The
hash is Cantor's pairing, which has no collisions. `ProofsAreHigh` is what
`SessionFlow` takes for the length of its proofs. `InStep` says of both verifiers
that they compute what `compute_root` does, and so `WrongLeafFails` says that
`compute_root` of another hash along the proof of a leaf is not the root.

**waiter_final.** Interval 2, timeout 5, clock up to 7: two full
rounds and a slow answer that spans a round fit before the timeout, and the
clock goes on after it. Fairness: time passes (`WF(Tick)`), and the executor
polls the `select!` once its timer is due (`WF(TimesOut)`), which the runtime
owes to any task it was asked to wake. The node owes nothing, so `Ends` holds
without its answer.

**waiter_reverted.** With the defaults of `TransactionWaiter::new`, the
execution status is checked only in a pending receipt
(`transaction_waiter.rs:194`).

**deployment.** Interval 1, timeout 2, clock up to 3: a round that ends `AGAIN`
and another one fit before the timer, for each of the two waits. Fairness: time
passes, the timer's branch and the caller whose wait is over are polled.

* `HandsOutWhatItSaw`: what is handed out has been in a block, and was not seen
  reverted in a pending one.
* `AchievedEndsWait`: an answer that shows the transaction in a block, pending or
  accepted meanwhile, ends the wait for it.
* `WaitsEnd`: every wait ends, wherever the transactions go.

A deployment that is accepted and reverted before the first poll is handed out
as well; that is the subject of `waiter_reverted`.

**webauthn.** Either signer; two overlapping requests, two credentials whose
integers have unequal halves, a transaction that is real or simulated, a browser
that leaves white space, a relying party with a port, one signed transaction
under way. Two requests are what it takes for one to hold the prompt and one to
be refused, or to register another credential while a signature is awaited; a
third is refused like the second. Fairness: the executor polls tasks and callers
that can go on, and the browser ends every prompt, by the user or by the time
limit of the request.

* `OwnAnswer`: what a call sends is what its own user approved, for this very
  transaction, with the credential of the moment of the request.
* `OffsetsPointAtValues`: the three offsets point at their values.
* `SignedIsAccepted`: what the key in memory signs is accepted by a contract that
  has its key. Said of the key in memory only: of the device signer it fails for
  the reason of the next run, as its mutilated data do not verify.
* `AnsweredOnce`, `RequestsEnd`: the promises of `DeviceRequests`.

**webauthn_rp_id_hash.** `DeviceSigner::sign` puts zeros where the authenticator
has signed the hash of the relying party (`device.rs:141`).

**ecdsa.** `extended_gcd` and `mod_inv` for every pair of integers up to 40, zero
included; and on the curve y^2 = x^3 + 2x + 2 over 17 elements, of order 19,
every byte string of up to four bytes to the base 5, with some of five, for four
keys and six hashes, of which two are at the order or beyond it. The entries
reach 24, so they pass the order as well.

* `AcceptsWhatIsSigned`: accepted are exactly the signatures the holder of the
  key can make; short ones are refused without a panic.
* `Terminates`: fairness is that a sequential program goes on.

**felt_serializer.** 1446 arguments of `to_felts`: every kind alone, compounds two
deep with a refused part in the middle of some, and every transaction of up to
two calls with up to two felts of calldata. `MaxDepth = 4` is how
deep the deepest part of them lies: an element of a sequence of unknown length in a
tuple in a newtype in a struct. A serializer that gets stuck is a deadlock, which
TLC looks for.

* `ReadsBack`: the contract reads the value that was written, to the last felt.
* `RefusesExactly`: refused is what has a part without encoding, and nothing else.
* `EncodersAgree`, `ParsedAsRun`: the two accounts write the same calls alike, and
  the calls read out of `Debug` text are those the contract runs.

## 4. What is proved

TLAPS proves, for every value of the constants that satisfies the assumptions
named in the modules:

* **AccountProofs**, from `AddressesDiffer` (the account, the zero address and
  the other contracts are different) and `ConstantsTyped` (calldata has the
  types the entry points declare). The inductive invariant `IInv` is `TypeOK`,
  `RunningIsAuthorized`, `OnlySignedCallsPending` and, to tie them together,
  that `tx` is a foreign transaction whenever the sequencer is idle. From the
  last follows that nothing is pending when a new transaction starts, and that
  the clock only moves when there is no authorisation to outlive.
  `RunningIsAuthorized` follows the verdict of each kind of signature back to
  what verified, one lemma for each kind; it speaks of `saved`, so nothing the
  transaction does can disturb it.
  `KeysChangeByOwner` combines both: the call that changes a key is the first of
  those pending, and so a call of the signed transaction. `SlotsChangeByRevoking`
  follows in the same way, with callbacks as the other writers; it assumes nothing
  of the tokens that are revoked.
  `AccountImplementsStore` is the refinement of `GuardedStore`. Its invariant
  `StoreInv` says how far the transaction under way has got (`Progress`): for some
  `n`, its first `n` calls have been made, the others are `pending`, and the store
  is what these `n` leave of `saved`, other contracts' revocations apart. A call of
  the transaction adds one to `n`, a callback leaves it; `Finish` is `Commit` with
  all calls made, or `Foreign`; `Revert` is `Abort`, because `committed` is `saved`
  as long as anything is under way.
* **SdkProofs**, first the Merkle tree, from `HashTyped` (the hash is total) and, for `NoOtherLeaf`,
  `HashBinds` (no collisions). The inductive invariant is that each verifier
  stands on its leaf's ancestor, `current[i] = nodes[index[i]]`; the step is
  that two neighbours hash to their parent whichever of them is the verifier's.
  `InStep` compares both verifiers with the recursive `compute_root`: over a
  longer proof the function goes on from its value over the shorter one, since
  two recursions that start alike and go on alike agree. `ProofsAreHigh` rests on
  `CoversLeaves`: so many levels up, a node stands for `power(2, levels)` leaves,
  the last one for at least one of them. Then the serializer, from `ValuesTyped`
  (the values are well formed and of finite depth, and an unknown length is not a
  number) and `BundlesEncoded` (a field element's text stands for it). That it
  refuses exactly what it must cannot be said of a value part by part without
  induction over the value; the invariant `NoneMissed` quantifies over sets of
  parts instead: every set that has what is still to be written, and the items of
  all it has, has every part without encoding. At the start the value itself is to
  be written, so such a set has all parts (`PartsLeast`); once it has returned the
  empty set is one. For `EncodersAgree` the invariant `EncodingInv` lists where in
  the calls the serializer may be (`Somewhere`), and at each place the output is so
  much of the other encoder's output; since it lists no error, calls are never
  refused.
* **WaiterProofs**, from `WaiterConstants`. `VerdictIsFinal` needs that an answer
  on its way never claims more than the chain has reached and that an accepted
  transaction keeps its result; `Paced` needs `wake >= issued + Interval` while
  the waiter sleeps.
* **SessionFlowProofs**, from `FlowConstants` (policies and bundles are sequences)
  and `GrantConstants` (a signature that verifies has no half that is zero).
  `SessionKeepsPromise` is the refinement of `SessionPermit`: the verdict of `Judge`
  is taken apart into its checks, each of which is a conjunct of `Run`, and `Revoke`
  is `End` of the same token, because the one slot it writes decides of just the
  permits whose token has that first half. Beside the type invariant it needs that
  every signed transaction carries the session's expiry.
  `SignedByHeldSessionAccepted` is `SignedIsAccepted` under `SeveralPermitted`,
  which leaves out the policies of exactly one call that `session_single` shows to
  fail. The invariant follows a transaction from the session object that made it
  (`ClientInv`: the stored calls, proofs and root are those of one policy) to the
  judge (`SentChecks`: every check of `validate_signature` that does not depend on
  the account is met). In between, `flatten` lays the proofs end to end and
  `proofs_at` cuts them at multiples of the length that the SDK gives as the flat
  one's by the number of calls: a layout is a function, it is unique, and the
  quotient of a product is its factor.
* **DeploymentProofs**, from `DeploymentConstants`. The invariant adds that the
  waiter looks at the transaction that is waited for and has been sent
  (`Watched`; without it the type invariant is not inductive, as an unsent
  transaction has no answer), and that what is in a block, or was when the node
  looked, has been seen (`Witnessed`).
* **EcdsaProofs**, from `ModArithConstants`, for integers of any width. The
  invariant `IInv` is that the signed coefficients combine the arguments to the
  two remainders (`Sums`), that their signs alternate with the parity (`Signs`),
  and that the determinant of two rounds bounds the magnitudes by the arguments
  (`Bounds`); hence no panic, Bezout's identity, the gcd and the inverse. From
  `EcdsaConstants` (the order is a prime, bytes are digits) follows
  `AcceptsExactlySigned`: `EInv` adds that `extended_gcd` works on an entry of
  the signature and the order while the verdict is open, and that a verdict is OK
  exactly for what is signed. A common divisor of a prime and a smaller number is
  one, so the entry has an inverse; the two reduced products add up to
  `inverse * (hash + r * key)` and a multiple of the order; and that is the only
  factor whose product with the entry is what the signer started from.
* **WebauthnFlowProofs**, for any number of requests and credentials, from
  `AssertionConstants` (the base, the length of a half), `KeyConstants` (the key
  of a credential is a point on the curve), `TextConstants` (white space is white
  space, the relying party's name is any words) and `FlowConstants`. First
  `DeviceRequests` by itself; then every step of the flow is a step of it or
  leaves the requests alone, and `FlowImplementsRequests` has the fairness too.
  What is signed needs a longer invariant, `FlowIInv`: the signer's credential
  and the contract's key are what they can be (`Settled`); an answer on its way is
  one of the authenticator's for the credential and the challenge that the user of
  this request approved (`Approvals`); and every transaction under way carries the
  conversion of such an answer, or of one signed in memory (`SentInv`). The
  properties of the run are not inductive without it: they speak of `sent`, and
  what is sent was approved several steps earlier. The rest
  is data: an integer is the sum of its digits, reading it in two halves and
  putting these together gives it back; and the first place where a search finds
  a key in client data is the key's own, since names hold no quotation marks.
* **Groundwork** has what these share. The provers know no induction over an
  operator, so induction is said of sets (`SetInduction`, from the least element
  of a set of numbers), and recursion of functions: there is a function that
  follows a family of steps, and any two agree. Powers, quotients of quotients,
  the value of digits, and joining and cutting sequences are stated over these.

Only model-checked: all liveness (`Ends`, `WaitsEnd`, `RequestsEnd`,
`Terminates`), which rests on fairness and `ENABLED`; and `ReadsBack` and
`ParsedAsRun`, which compare with the contract's deserializer and with the plain
value, both recursive over data: the one goes as deep as the type it is asked
for, the other as the value.
`SeveralPermitted` is a hypothesis of its theorem: nothing in the code asks for it,
and `session_single` shows what happens without.

## 5. What is not modelled, and the plan

Left out for good:

* the contents of encodings that no property is about, events, fees and nonces,
  the class artifacts, generated bindings and plain data types, the ERC-20 token
  of the tests, the harness that runs Cairo from Rust, the test runners (a
  process, its pipe and a port);
* `CallSequence`, which nothing uses; the ceremony steps of `webauthn.cairo` that
  nothing calls (`find_and_verify_credential_source`,
  `expand_auth_data_and_verify_rp_id_hash`);
* the bytes of base64url and SHA-256: the challenge is a word of client data.
  `CliendData::new` encodes with padding and a browser without; whether the
  contract's encoder, a library's, writes the padding character too and so
  would refuse a browser's text is outside the model;
* the points of a curve as coordinates, and syscalls of the curve that fail;
* the WebAssembly branch of `Sleeper`: on that target `Instant::now` of the
  standard library (`transaction_waiter.rs:155`) panics before any sleep;
* the arms "receiver dropped" of `device.rs`: on `wasm32` a panic in the task
  aborts and drops no sender, so no run reaches them.

Done: all components of the table, with their compositions and the abstract
specifications of the account, of a session and of a request to the device, and
a theorem for every safety property but `ReadsBack` and `ParsedAsRun`. A proof of
these two would need `CairoSerde` as recursive functions over the finite set of
types in a value, and an invariant that goes with the stack of types.

Observed on the way, and not the subject of a run: the defaults documented for
the waiter are 250 ms and 60 s, those in the code 2.5 s and 300 s
(`transaction_waiter.rs:59,62,112`); `compute_proof` of the session component
ignores its `position` (`lib.cairo:121`); rotating the key back to a former one
makes the sessions granted under it valid again; the waiter compares the
finality of a receipt for equality (`transaction_waiter.rs:178`), so one that
asks for L2 and finds the transaction on L1 already polls until its timeout. No run
checks the latter: `AchievedEndsWait`, which `deployment` checks of a waiter without
a finality, is false of `TransactionWaiter` with the constants of `WaiterFinal.cfg`.
