--------------------------- MODULE GuardedStore ---------------------------
(***************************************************************************)
(* What the account contract promises, without its call stack: a store of  *)
(* the owner's key, the authenticator's point and the revoked tokens.  A   *)
(* transaction that the store authorises begins, and either ends with the  *)
(* effect of all its calls in their order or with none.  Transactions of   *)
(* other accounts only add tokens that anyone may revoke.                  *)
(***************************************************************************)
EXTENDS Integers, Sequences

CONSTANTS
    Self,          \* the address of the account
    Contracts,     \* the other contracts
    Owners, NoKey, NoPoint, Felts, NoFelt,
    Txs, NoTx,
    Versions,      \* the transaction versions the account runs
    Revocations,   \* the tokens that other contracts may revoke
    AuthorizedIn(_, _, _)  \* whether a store authorises a transaction at a time

VARIABLES
    deployed,
    key, point, slots,
    running,       \* the transaction of this account that is under way, or NoTx
    time

store == <<key, point, slots>>
vars == <<deployed, store, running, time>>

Init ==
    /\ deployed = FALSE
    /\ key = NoKey /\ point = NoPoint /\ slots = [r \in Felts |-> NoFelt]
    /\ running = NoTx
    /\ time = 0

Deploy ==
    /\ ~ deployed
    /\ deployed' = TRUE /\ key' \in Owners
    /\ UNCHANGED <<point, slots, running, time>>

-----------------------------------------------------------------------------
(* The effect of the first n of some calls.                                *)

OfSelf(call, selector) == call.to = Self /\ call.selector = selector

\* The last call of the setter decides; without one the value stays.
LeftBy(calls, n, selector, before, after) ==
    \/ after = before /\ \A i \in 1 .. n : ~ OfSelf(calls[i], selector)
    \/ \E last \in 1 .. n :
          /\ OfSelf(calls[last], selector) /\ after = calls[last].data[1]
          /\ \A i \in last + 1 .. n : ~ OfSelf(calls[i], selector)

\* The token may be written by one of these calls, or by another contract.
RevokedBy(calls, n, r, s) ==
    \/ <<r, s>> \in Revocations
    \/ \E i \in 1 .. n :
          OfSelf(calls[i], "revoke_session") /\ calls[i].data[1] = r /\ calls[i].data[2] = s

\* A slot that changes holds a token revoked meanwhile; so does one that the
\* calls wrote, where another token may have come last.
SlotsLeftBy(calls, n, before, after) ==
    /\ after \in [Felts -> Felts]
    /\ \A r \in Felts : after[r] # before[r] => RevokedBy(calls, n, r, after[r])
    /\ \A i \in 1 .. n :
          LET r == calls[i].data[1]
          IN  OfSelf(calls[i], "revoke_session") => RevokedBy(calls, n, r, after[r])

\* The account has no second way into __execute__, and no token shorter than two.
CanBeMade(call) ==
    /\ call.to \in Contracts \union {Self}
    /\ ~ OfSelf(call, "__execute__")
    /\ OfSelf(call, "revoke_session") => Len(call.data) >= 2

-----------------------------------------------------------------------------
Begin(t) ==
    /\ deployed /\ running = NoTx
    /\ AuthorizedIn(t, store, time)
    /\ running' = t
    /\ UNCHANGED <<deployed, store, time>>

\* Only as a whole: one call that cannot be made, and nothing is kept.
Commit ==
    LET calls == running.body.calls
    IN  /\ running # NoTx
        /\ running.body.kind = "invoke" /\ running.body.version \in Versions
        /\ \A i \in 1 .. Len(calls) : CanBeMade(calls[i])
        /\ LeftBy(calls, Len(calls), "set_public_key", key, key')
        /\ LeftBy(calls, Len(calls), "set_webauthn_pub_key", point, point')
        /\ SlotsLeftBy(calls, Len(calls), slots, slots')
        /\ running' = NoTx
        /\ UNCHANGED <<deployed, time>>

Abort ==
    /\ running # NoTx /\ running' = NoTx
    /\ UNCHANGED <<deployed, store, time>>

\* A transaction of another account leaves the keys alone.
Foreign ==
    /\ deployed /\ running = NoTx
    /\ SlotsLeftBy(<<>>, 0, slots, slots')
    /\ UNCHANGED <<deployed, key, point, running, time>>

Pass ==
    /\ deployed /\ running = NoTx
    /\ time' = time + 1
    /\ UNCHANGED <<deployed, store, running>>

Next ==
    \/ Deploy
    \/ \E t \in Txs : Begin(t)
    \/ Commit
    \/ Abort
    \/ Foreign
    \/ Pass

Spec == Init /\ [][Next]_vars
=============================================================================
