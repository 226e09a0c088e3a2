------------------------------ MODULE Evidence ------------------------------
(***************************************************************************)
(* What the hardware signs, as free terms (hatls/protocol.py, tee.py).     *)
(*                                                                         *)
(* A link is the HKDF output of the code: one value per (session context,  *)
(* identity key, sequence of (exporter, counter) pairs folded into it).    *)
(* It is kept here as those very arguments, so two links are equal exactly *)
(* when every input of the derivation is: the key schedule is taken to be  *)
(* collision free and nothing else is assumed of it.  A TLS session yields *)
(* one session context and one exporter, both named by the session.        *)
(***************************************************************************)
EXTENDS Naturals, Sequences

CONSTANTS
    Tik,          \* identity keys (the SPKI a peer proves in its handshake)
    Session,      \* TLS sessions, each with one context and one exporter
    Tee,          \* guests able to obtain a hardware report
    Instance,     \* instance claims: REPORT_ID on SEV-SNP, RTMR3 on TDX
    Place,        \* place claims: CHIP_ID
    InstanceOf,   \* the instance claim in a guest's reports, or None
    PlaceOf,      \* the place claim in a guest's reports, or None
    None          \* an absent value

ASSUME PlatformAssumption ==
    /\ InstanceOf \in [Tee -> Instance \cup {None}]
    /\ PlaceOf \in [Tee -> Place \cup {None}]
    /\ None \notin Tik \cup Session \cup Tee \cup Instance \cup Place

-----------------------------------------------------------------------------
(* The continuity chain.                                                   *)

Step == [exporter : Session, counter : Nat]
Link == [session : Session, tik : Tik, steps : Seq(Step)]

\* The chain's first link: nothing but the session and the identity key.
IntraLink(s, k) == [session |-> s, tik |-> k, steps |-> <<>>]

\* One more (exporter, counter) pair folded into a link.
PostLink(s, prev, n) ==
    [prev EXCEPT !.steps = Append(@, [exporter |-> s, counter |-> n])]

-----------------------------------------------------------------------------
(* Report data and reports.  The three kinds of report data are hashed     *)
(* over differently tagged inputs, so they never coincide.                 *)

ReportData(link, head) == [link |-> link, head |-> head]
EnrolmentData(nonce, key) == [nonce |-> nonce, csr |-> key]

\* TEE.report: only a guest's own hardware puts that guest's claims in it.
Report(tee, data) == [tee |-> tee, data |-> data]

\* verify_report answers (ok, anchor).  Evidence is None when it carries no
\* valid signature; otherwise it is good for exactly the data it binds.
Verifies(evidence, data) == evidence # None /\ evidence.data = data

InstanceClaim(evidence) == InstanceOf[evidence.tee]

\* A report without an instance claim yields no anchor, hence no place.
PlaceClaim(evidence) ==
    IF InstanceClaim(evidence) = None THEN None ELSE PlaceOf[evidence.tee]

\* Attester.attest: the message a guest sends for position n of a chain.
Message(tee, s, base, n, head) ==
    LET link == PostLink(s, base, n)
    IN  [counter |-> n, link |-> link, head |-> head,
         evidence |-> Report(tee, ReportData(link, head))]
=============================================================================
