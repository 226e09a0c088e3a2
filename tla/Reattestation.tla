---------------------------- MODULE Reattestation ----------------------------
(***************************************************************************)
(* The appraisal of a guest's report from connection to verdict            *)
(* (examples/reattest_freshness_hw.py, with the guest's side in            *)
(* tools/guest_probe.py): both ends record one handshake, the guest has    *)
(* its hardware sign the binder it derives from its recording, the relying *)
(* party derives its own and has the report verified against it, while     *)
(* other processes verify reports of their own over the same cache.        *)
(***************************************************************************)
EXTENDS Transcript, Verifier

CONSTANT Own    \* the verifications that are this relying party's

ASSUME OwnAssumption == Own \subseteq Call

VARIABLE round    \* what a connection left behind: a report and a binder

vars == <<transcriptVars, verifierVars, round>>

\* One recorded connection has ended.  Either end may have found no hellos to
\* derive a binder from, and raised: then there is nothing to appraise.
HangUp ==
    /\ Connected
    /\ round' = IF \E e \in End : Recorded(e) = <<>> THEN None
                ELSE [signed |-> Recorded("server"), expected |-> Recorded("client")]
    /\ wrote' = Unconnected.wrote
    /\ heard' = Unconnected.heard
    /\ phase' = Unconnected.phase
    /\ UNCHANGED verifierVars

\* The guest's report, verified against the relying party's own binder, as
\* often as it likes.
Appraise(c, chip) ==
    /\ c \in Own /\ round # None
    /\ Begin(c, [sound |-> round.signed = round.expected, key |-> "VCEK", chip |-> chip,
                 supplied |-> FALSE, signed |-> TRUE, rooted |-> TRUE,
                 require_chain |-> TRUE])
    /\ UNCHANGED <<transcriptVars, round>>

\* A report as another process may be given one.  A VCEK leaf is AMD's; what
\* the verifier does not look at is left out.  The cache knows nothing of
\* connections, so nothing is lost by the bound that others verify only while
\* there is a round.
Elsewhere ==
    {r \in Snp : /\ r.key = "VCEK" => r.rooted /\ ~r.supplied
                 /\ r.key = "none" \/ ~r.sound =>
                        r.signed /\ r.rooted /\ ~r.supplied /\ r.require_chain}

AppraiseElsewhere(c) ==
    /\ c \notin Own /\ round # None
    /\ \E r \in Elsewhere : Begin(c, r)
    /\ UNCHANGED <<transcriptVars, round>>

Init == TranscriptInit /\ VerifierInit /\ round = None

\* One connection that comes to something.
Connection == round = None /\ Handshake /\ UNCHANGED <<verifierVars, round>>
Verification(c) == Proceed(c) /\ UNCHANGED <<transcriptVars, round>>
Death(c) == Die(c) /\ UNCHANGED <<transcriptVars, round>>

Next ==
    \/ Connection
    \/ HangUp
    \/ \E c \in Call :
         \/ \E chip \in Chip : Appraise(c, chip)
         \/ AppraiseElsewhere(c)
         \/ Verification(c)
         \/ Death(c)

\* A verification runs on: sleep() returns, urlopen() has a timeout.
Spec == Init /\ [][Next]_vars /\ \A c \in Call : WF_vars(Verification(c))
=============================================================================
