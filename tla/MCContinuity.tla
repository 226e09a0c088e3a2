---------------------------- MODULE MCContinuity ----------------------------
(* Small deployments of Continuity for TLC. *)
EXTENDS Continuity, TLC

CONSTANTS
    k1, k2,         \* identity keys
    a, b, c, z,     \* guests: z's platform makes no instance claim
    A, B, C,        \* instances
    p, q,           \* places
    s1, s2, s3, relay,
    owner, admin,
    g1, g2

(* Platforms. *)
OwnInstance == [t \in Tee |-> CASE t = a -> A [] t = b -> B [] t = c -> C [] OTHER -> None]
\* a's instance also shows up on b's silicon; z claims nothing.
SharedInstance == [t \in Tee |-> IF t = z THEN None ELSE A]
OwnPlace == [t \in Tee |-> CASE t = a -> p [] t = b -> q [] OTHER -> None]

(* Sessions: s1 and s3 end at a, s2 at b; relay ends at an intermediary. *)
OneKey == [s \in Session |-> k1]
Guests == [s \in Session |-> CASE s = s2 -> b [] s = relay -> None [] OTHER -> a]
\* s3 ends at the guest whose platform claims nothing.
GuestsWithBlank == [s \in Session |-> CASE s = s2 -> b [] s = s3 -> z [] OTHER -> a]

(* Owners. *)
NoOwner == [k \in Tik |-> None]
Owned == [k \in Tik |-> owner]

\* No property names a grant's nonce.
AnyGrantNonce == Permutations(GrantNonce)
=============================================================================
