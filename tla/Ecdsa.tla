------------------------------- MODULE Ecdsa -------------------------------
(***************************************************************************)
(* The verification of a signature on secp256r1, from its bytes to the     *)
(* verdict: extract_r_and_s_from_array (webauthn/auth/src/helpers.cairo),  *)
(* verify_signature (webauthn.cairo), verify_ecdsa and verify_hashed_ecdsa *)
(* (ecdsa.cairo), on the arithmetic of ModArith.                           *)
(*                                                                         *)
(* The curve is any group of prime order: a point is a multiple of the     *)
(* generator and stands for its factor.  Bytes are digits to the base Base *)
(* and WordLen of them make an integer.                                    *)
(***************************************************************************)
EXTENDS ModArith, Sequences

CONSTANTS
    Order,      \* the order of the curve, get_curve_size
    Abscissa,   \* of a point: its first coordinate, and of infinity 0
    Base,       \* 256 in the code
    WordLen,    \* 32 in the code
    Hashes,     \* the integers that the hash of a message may be
    Keys,       \* the public keys considered
    Signatures  \* the byte strings considered

\* The order of secp256r1 is a prime; infinity has no coordinate and gives zero.
ASSUME EcdsaConstants ==
    /\ Order \in Nat \ {0, 1} /\ Order <= MaxU256
    /\ \A d \in 2 .. Order - 1 : Order % d # 0
    /\ DOMAIN Abscissa = 0 .. Order - 1 /\ Abscissa[0] = 0
    /\ Base \in Nat \ {0, 1} /\ WordLen \in Nat \ {0}
    /\ Hashes \subseteq Nat /\ Keys \subseteq Nat
    /\ Signatures \subseteq Seq(0 .. Base - 1)

VARIABLES
    msg_hash, public_key_pt, sig,   \* the arguments
    r, s,                           \* the two integers of the signature
    verdict   \* "extract" and "invert" until it is known; "direct" when the caller
              \* is a test of extended_gcd and there is no signature

arguments == <<msg_hash, public_key_pt, sig>>
ecdsa_vars == <<vars, arguments, r, s, verdict>>

-----------------------------------------------------------------------------
\* The value of WordLen bytes from an offset on; None when there are fewer.  The
\* offset is taken off the length first, which panics past the end.
big_endian(bytes, offset) ==
    LET upto[i \in 0 .. WordLen] ==
            IF i = 0 THEN 0 ELSE Base * upto[i - 1] + bytes[offset + i]
    IN  upto[WordLen]

extract_u256_from_u8_array(bytes, offset) ==
    IF Len(bytes) < offset THEN "PANIC"
    ELSE IF Len(bytes) - offset < WordLen THEN "None"
    ELSE "Some"

\* s is looked for only when there is an r.
extract_r_and_s_from_array(bytes) ==
    IF extract_u256_from_u8_array(bytes, 0) # "Some"
    THEN extract_u256_from_u8_array(bytes, 0)
    ELSE extract_u256_from_u8_array(bytes, WordLen)

\* MUTANT: only the lower bound is checked.
is_signature_entry_positive(n) == n > 0

is_signature_entry_valid(n) == 0 < n /\ n < Order

-----------------------------------------------------------------------------
\* The variables of extended_gcd have no value before it is called.
EcdsaInit ==
    /\ msg_hash \in Hashes /\ public_key_pt \in Keys /\ sig \in Signatures
    /\ r = 0 /\ s = 0
    /\ Start(0, 0)
    /\ verdict = "extract"

\* The tests of mod_arithmetic call it with arguments of their own.
DirectInit ==
    /\ msg_hash = 0 /\ public_key_pt = 0 /\ sig = <<>>
    /\ r = 0 /\ s = 0
    /\ Init
    /\ verdict = "direct"

call_extended_gcd(x, y) ==
    /\ a' = x /\ b' = y
    /\ r0' = x /\ r1' = y
    /\ s0' = 1 /\ s1' = 0
    /\ t0' = 0 /\ t1' = 1
    /\ parity' = FALSE
    /\ outcome' = "Running"

\* verify_signature up to mod_inv: without an r and an s in their range there is
\* nothing to invert.
verify_signature ==
    /\ verdict = "extract"
    /\ UNCHANGED arguments
    /\ \/ /\ extract_r_and_s_from_array(sig) = "Some"
          /\ r' = big_endian(sig, 0) /\ s' = big_endian(sig, WordLen)
          /\ \/ /\ is_signature_entry_valid(r') /\ is_signature_entry_valid(s')
                /\ verdict' = "invert"
                /\ call_extended_gcd(s', Order)
             \/ /\ ~ (is_signature_entry_valid(r') /\ is_signature_entry_valid(s'))
                /\ verdict' = "WrongArgument"
                /\ UNCHANGED vars
       \/ /\ extract_r_and_s_from_array(sig) # "Some"
          /\ verdict' = IF extract_r_and_s_from_array(sig) = "None"
                        THEN "InvalidSignature" ELSE "PANIC"
          /\ UNCHANGED <<vars, r, s>>

\* The call of mod_inv.
extended_gcd ==
    /\ verdict \in {"invert", "direct"}
    /\ Round \/ Lift
    /\ UNCHANGED <<arguments, r, s, verdict>>

\* u_1 times the generator and u_2 times the public key.
point(s_inv) ==
    (mod_mul(msg_hash, s_inv, Order) + mod_mul(r, s_inv, Order) * public_key_pt) % Order

verify_hashed_ecdsa ==
    /\ verdict = "invert" /\ outcome # "Running"
    /\ verdict' = IF outcome = "PANIC" THEN "PANIC"
                  ELSE IF mod_inv = <<>> THEN "WrongArgument"
                  ELSE IF r = Abscissa[point(mod_inv[1])] % Order THEN "OK"
                  ELSE "InvalidSignature"
    /\ UNCHANGED <<vars, arguments, r, s>>

\* SyscallError is left out: the syscalls do not fail on points of the curve.
Verdicts == {"OK", "InvalidSignature", "WrongArgument"}

Finished == verdict \in Verdicts \/ (verdict = "direct" /\ outcome # "Running")

Judged == Finished /\ UNCHANGED ecdsa_vars

EcdsaNext == verify_signature \/ extended_gcd \/ verify_hashed_ecdsa \/ Judged

\* A sequential program goes on as long as it can.
EcdsaSpec ==
    /\ EcdsaInit \/ DirectInit
    /\ [][EcdsaNext]_ecdsa_vars
    /\ WF_ecdsa_vars(EcdsaNext)

-----------------------------------------------------------------------------
\* The signer's side: a nonce k whose point has r for its abscissa, and
\* s = (msg_hash + r key) / k.
Signed ==
    /\ r \in 1 .. Order - 1 /\ s \in 1 .. Order - 1
    /\ \E k \in 1 .. Order - 1 :
          /\ r = Abscissa[k] % Order
          /\ (k * s) % Order = (msg_hash + r * public_key_pt) % Order

(* The signatures accepted are those that the holder of the key can make,  *)
(* neither more nor fewer, whatever the key, the hash and the bytes: the   *)
(* hash may exceed the order, the two multiples may cancel out, and bytes  *)
(* too few for an r and an s are refused, however few, without a panic     *)
(* (verify_hashed_ecdsa, mod_inv, mod_mul, extract_u256_from_u8_array).    *)
AcceptsWhatIsSigned ==
    /\ verdict # "PANIC"
    /\ verdict \in Verdicts => (verdict = "OK" <=> Len(sig) >= 2 * WordLen /\ Signed)

(* A verdict, or the result of extended_gcd, always comes (the loop of     *)
(* extended_gcd).                                                          *)
Terminates == <>Finished
=============================================================================
