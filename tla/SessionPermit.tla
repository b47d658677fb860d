---------------------------- MODULE SessionPermit ----------------------------
(***************************************************************************)
(* What a session promises, whatever signatures, hashes and proofs it is   *)
(* made of.  An owner hands out permits; the holder of a permit may run    *)
(* bundles of the calls it names, while its owner owns the account, before *)
(* it expires, and as long as its token is not revoked.  A revoked token   *)
(* stays so until another with the same first half is revoked: that takes  *)
(* its place, and whatever it had ended is back.                           *)
(***************************************************************************)
EXTENDS Integers, Sequences

CONSTANTS
    Permits,   \* [owner, token, calls, expires]
    Owners,
    Revocable, \* the tokens that may be revoked
    Bundles    \* the sequences of calls a holder may want to run

VARIABLES
    owner,
    ended,     \* the permits that have been ended
    time,
    ran        \* the last bundle that ran and its permit; bit flips each time

vars == <<owner, ended, time, ran>>

Names(call) == <<call.to, call.selector>>

Init ==
    /\ owner \in Owners
    /\ ended = {}
    /\ time = 0
    /\ ran = [calls |-> <<>>, permit |-> "none", bit |-> 0]

\* The account changes hands.
Rotate ==
    /\ owner' \in Owners
    /\ UNCHANGED <<ended, time, ran>>

\* The permits of this token end; those of another with the same first half,
\* and only those, are in force again.
End(token) ==
    /\ ended' = {permit \in ended : permit.token[1] # token[1]}
                    \union {permit \in Permits : permit.token = token}
    /\ UNCHANGED <<owner, time, ran>>

Pass ==
    /\ time' = time + 1
    /\ UNCHANGED <<owner, ended, ran>>

Run(calls, permit) ==
    /\ permit.owner = owner
    /\ permit \notin ended
    /\ time < permit.expires
    /\ \A i \in DOMAIN calls : Names(calls[i]) \in permit.calls
    /\ ran' = [calls |-> calls, permit |-> permit, bit |-> 1 - ran.bit]
    /\ UNCHANGED <<owner, ended, time>>

Next ==
    \/ Rotate
    \/ \E token \in Revocable : End(token)
    \/ Pass
    \/ \E calls \in Bundles, permit \in Permits : Run(calls, permit)

Spec == Init /\ [][Next]_vars
=============================================================================
