-------------------------- MODULE ContinuityProofs --------------------------
(***************************************************************************)
(* Theorems about Continuity, for every set of identities, sessions,       *)
(* guests and nonces and every setting of the mandate.                     *)
(***************************************************************************)
EXTENDS Continuity, TLAPS

USE DEF Optional

-----------------------------------------------------------------------------
(* Values.                                                                 *)

\* A link with one more step is a link.
LEMMA PostLinkIsLink ==
    ASSUME NEW s \in Session, NEW prev \in Link, NEW n \in Nat
    PROVE  PostLink(s, prev, n) \in Link
<1> DEFINE step == [exporter |-> s, counter |-> n]
<1>1. step \in Step
  BY DEF Step
<1>2. Append(prev.steps, step) \in Seq(Step)
  BY <1>1 DEF Link
<1> QED BY <1>2 DEF PostLink, Link

\* The first link of a chain is a link.
LEMMA IntraLinkIsLink ==
    ASSUME NEW s \in Session, NEW k \in Tik
    PROVE  IntraLink(s, k) \in Link
BY DEF IntraLink, Link

\* The claims in a report are an instance and a place, or absent.
LEMMA ClaimTypes ==
    ASSUME NEW e, e.tee \in Tee
    PROVE  /\ InstanceClaim(e) \in Optional(Instance)
           /\ PlaceClaim(e) \in Optional(Place)
BY PlatformAssumption DEF InstanceClaim, PlaceClaim

\* Appending an element of a set to a sequence over it.
LEMMA AppendType ==
    ASSUME NEW S, NEW seq \in Seq(S), NEW e \in S
    PROVE  Append(seq, e) \in Seq(S)
OBVIOUS

\* Keeping the last entries of a sequence keeps its type.
LEMMA KeepLastType ==
    ASSUME NEW S, NEW seq \in Seq(S), NEW cap \in Nat \ {0}
    PROVE  KeepLast(seq, cap) \in Seq(S)
<1>1. CASE Len(seq) <= cap
  BY <1>1 DEF KeepLast
<1>2. CASE ~(Len(seq) <= cap)
  <2>1. /\ Len(seq) - cap + 1 \in 1 .. Len(seq)
        /\ Len(seq) \in Nat
    BY <1>2
  <2>2. SubSeq(seq, Len(seq) - cap + 1, Len(seq)) \in Seq(S)
    BY <2>1
  <2> QED BY <1>2, <2>2 DEF KeepLast
<1> QED BY <1>1, <1>2

-----------------------------------------------------------------------------
(* The mandate's handlers keep its types.                                  *)

\* A recorded decision leaves the log a log (_record).
LEMMA LogDecisionType ==
    ASSUME MandateTypeOK, LogDecision
    PROVE  log' \in [epoch : Nat, size : Nat]
BY DEF MandateTypeOK, LogDecision

\* What _witness may leave in a record are sightings.
LEMMA WitnessingType ==
    ASSUME MandateTypeOK, NEW k \in Tik, NEW e, e.tee \in Tee,
           InstanceClaim(e) # None, NEW seen \in Witnessing(k, e)
    PROVE  seen \subseteq Sighting
<1> DEFINE fresh == {w \in ledger[k].witnessed :
                       w.instance # InstanceClaim(e) /\ now < w.at + WitnessTTL}
           new == [instance |-> InstanceClaim(e), place |-> PlaceClaim(e), at |-> now]
<1>1. ledger[k].witnessed \subseteq Sighting
  BY DEF MandateTypeOK, Record
<1>2. new \in Sighting
  BY ClaimTypes DEF Sighting, MandateTypeOK
<1>3. fresh \cup {new} \subseteq Sighting
  BY <1>1, <1>2
<1>4. seen \subseteq fresh \cup {new}
  BY DEF Witnessing
<1> QED BY <1>3, <1>4

\* What _dispute leaves in a record is a list of disputes.
LEMMA DisputesType ==
    ASSUME MandateTypeOK, NEW k \in Tik, NEW why \in Dispute
    PROVE  KeepLast(Append(ledger[k].disputes, why), DisputeCap) \in Seq(Dispute)
<1>1. ledger[k].disputes \in Seq(Dispute)
  BY DEF MandateTypeOK, Record
<1>2. Append(ledger[k].disputes, why) \in Seq(Dispute)
  BY <1>1, AppendType
<1> QED BY <1>2, KeepLastType, MandateAssumption

\* A refused presentation.
LEMMA RefusedType ==
    ASSUME MandateTypeOK, NEW k \in Tik, NEW s \in Session, NEW m \in Msg,
           NEW head, PresentRefused(k, s, m, head, None)
    PROVE  MandateTypeOK'
<1>e. m.evidence.tee \in Tee
  BY DEF Msg
<1>r. ledger[k] \in Record
  BY DEF MandateTypeOK
<1>1. ASSUME NEW why \in Dispute, Disputed(k, why)  PROVE MandateTypeOK'
  <2>1. PICK d \in Seq(Dispute) : d = KeepLast(Append(ledger[k].disputes, why), DisputeCap)
    BY DisputesType
  <2>2. [ledger[k] EXCEPT !.disputes = d] \in Record
    BY <1>r DEF Record
  <2>3. ledger' = [ledger EXCEPT ![k] = [ledger[k] EXCEPT !.disputes = d]]
    BY <1>1, <2>1 DEF Disputed, MandateTypeOK
  <2>4. ledger' \in [Tik -> Record]
    BY <2>2, <2>3 DEF MandateTypeOK
  <2> QED BY <1>1, <2>4, LogDecisionType DEF Disputed, MandateTypeOK
<1>2. ASSUME NEW why \in Dispute, Sighted(k, m, why), InstanceClaim(m.evidence) # None
      PROVE  MandateTypeOK'
  <2>1. PICK seen \in Witnessing(k, m.evidence) :
          ledger' = [ledger EXCEPT ![k].disputes = KeepLast(Append(@, why), DisputeCap),
                                   ![k].witnessed = seen]
    BY <1>2 DEF Sighted
  <2>2. seen \subseteq Sighting
    BY <1>2, <1>e, WitnessingType
  <2>3. PICK d \in Seq(Dispute) : d = KeepLast(Append(ledger[k].disputes, why), DisputeCap)
    BY DisputesType
  <2>4. ledger' = [ledger EXCEPT ![k] =
                     [ledger[k] EXCEPT !.disputes = d, !.witnessed = seen]]
    BY <2>1, <2>3 DEF MandateTypeOK
  <2>5. [ledger[k] EXCEPT !.disputes = d, !.witnessed = seen] \in Record
    BY <1>r, <2>2 DEF Record
  <2>6. ledger' \in [Tik -> Record]
    BY <2>4, <2>5 DEF MandateTypeOK
  <2> QED BY <1>2, <2>6, LogDecisionType DEF Sighted, MandateTypeOK
<1>3. CASE PresentDeclined(k, s, m, head, None)
  BY <1>3, LogDecisionType DEF PresentDeclined, MandateTypeOK
<1>4. CASE PresentImpostor(k, m, head, None)
  BY <1>4, <1>2 DEF PresentImpostor, Foreign, Differs, Dispute
<1>5. CASE PresentDisplaced(k, m, head, None)
  BY <1>5, <1>1 DEF PresentDisplaced, Dispute
<1>6. CASE PresentContending(k, m, head, None)
  BY <1>6, <1>2 DEF PresentContending, Contends, Differs, Dispute
<1>7. CASE PresentMisplaced(k, s, m, head, None)
  BY <1>7, <1>1 DEF PresentMisplaced, Dispute
<1>8. CASE PresentUnchained(k, s, m, head, None)
  BY <1>8, <1>1 DEF PresentUnchained, Dispute
<1> QED BY <1>3, <1>4, <1>5, <1>6, <1>7, <1>8 DEF PresentRefused

\* The chain written after an accepted step is a chain (sessions[s] = ...).
LEMMA AdvanceType ==
    ASSUME MandateTypeOK, NEW k \in Tik, NEW s \in Session, NEW m \in Msg, Advance(k, s, m)
    PROVE  sessions' \in [Tik -> [Session -> Optional(Chain)]]
BY DEF Advance, MandateTypeOK, Chain, Msg

\* A presentation accepted and saved (present).
LEMMA AcceptedType ==
    ASSUME MandateTypeOK, NEW k \in Tik, NEW s \in Session, NEW m \in Msg,
           NEW head, PresentAccepted(k, s, m, head, None)
    PROVE  MandateTypeOK'
<1>1. m.evidence.tee \in Tee
  BY DEF Msg
<1>2. PICK i \in Optional(Instance), pl \in Optional(Place) :
        i = InstanceClaim(m.evidence) /\ pl = PlaceClaim(m.evidence)
  BY <1>1, ClaimTypes
<1> DEFINE served == [ledger[k] EXCEPT !.observed = i, !.observedPlace = pl]
<1>r. ledger[k] \in Record
  BY DEF MandateTypeOK
<1>a. served \in Record
  BY <1>r DEF Record
<1>b. ledger' \in {ledger, [ledger EXCEPT ![k] = served]}
  BY <1>2 DEF PresentAccepted, MandateTypeOK
<1>3. ledger' \in [Tik -> Record]
  BY <1>a, <1>b DEF MandateTypeOK
<1> QED BY <1>3, AdvanceType, LogDecisionType DEF PresentAccepted, MandateTypeOK

\* A presentation accepted whose save raised (present).
LEMMA UnsavedType ==
    ASSUME MandateTypeOK, NEW k \in Tik, NEW s \in Session, NEW m \in Msg,
           NEW head, PresentUnsaved(k, s, m, head, None)
    PROVE  MandateTypeOK'
BY AdvanceType DEF PresentUnsaved, MandateTypeOK

\* An enrolment accepted (enroll).
LEMMA EnrollAcceptedType ==
    ASSUME MandateTypeOK, NEW k \in Tik, NEW e, e.tee \in Tee, NEW n \in Nonce,
           NEW csr, NEW owner \in Optional(Authority), NEW permit,
           EnrollAccepted(k, e, n, csr, owner, permit)
    PROVE  MandateTypeOK'
<1>1. PICK i \in Optional(Instance), pl \in Optional(Place), o \in Optional(Authority) :
        /\ i = InstanceClaim(e) /\ pl = PlaceClaim(e)
        /\ o = IF owner = None THEN ledger[k].authority ELSE owner
  BY ClaimTypes DEF MandateTypeOK, Record
<1> DEFINE born == [ledger[k] EXCEPT !.enrolled = i, !.enrolledPlace = pl, !.authority = o]
<1>r. ledger[k] \in Record
  BY DEF MandateTypeOK
<1>a. born \in Record
  BY <1>r DEF Record
<1>b. ledger' = [ledger EXCEPT ![k] = born]
  BY <1>1 DEF EnrollAccepted, MandateTypeOK, Record
<1>c. ledger' \in [Tik -> Record]
  BY <1>a, <1>b DEF MandateTypeOK
<1>2. challenges' \in [Nonce -> Optional(Nat)]
  BY DEF EnrollAccepted, Spend, MandateTypeOK
<1> QED BY <1>c, <1>2, LogDecisionType DEF EnrollAccepted, MandateTypeOK

\* A transfer accepted: the record's lists stay lists of what they hold
\* (accept_transfer).
LEMMA TransferAcceptedType ==
    ASSUME MandateTypeOK, NEW k \in Tik, NEW g \in Grant, TransferAccepted(k, g)
    PROVE  MandateTypeOK'
<1> DEFINE move == Entry(k, g)
           moved == KeepLast(Append(ledger[k].transfers, move), TransferCap)
           spent == KeepLast(Append(ledger[k].consumed, g.nonce), ConsumedCap)
<1>1. PICK w \in Destinations(k, g.to) :
        ledger' = [ledger EXCEPT
           ![k].enrolled = g.to, ![k].enrolledPlace = w.place,
           ![k].observed = None, ![k].observedPlace = None,
           ![k].transfers = moved, ![k].consumed = spent]
  BY DEF TransferAccepted
<1>2. ledger[k] \in Record /\ g.to \in Instance /\ g.nonce \in GrantNonce
  BY DEF MandateTypeOK, Grant
<1>3. w.place \in Optional(Place)
  BY <1>2 DEF Destinations, Record, Sighting
<1>4. moved \in Seq(Transfer)
  <2>1. move \in Transfer
    BY <1>2 DEF TransferAccepted, Transferable, Entry, Record, Transfer
  <2>2. Append(ledger[k].transfers, move) \in Seq(Transfer)
    BY <1>2, <2>1 DEF Record
  <2> QED BY <2>2, KeepLastType, MandateAssumption
<1>5. spent \in Seq(GrantNonce)
  <2>1. Append(ledger[k].consumed, g.nonce) \in Seq(GrantNonce)
    BY <1>2 DEF Record
  <2> QED BY <2>1, KeepLastType, MandateAssumption
<1>6. ledger' \in [Tik -> Record]
  <2> DEFINE there == [ledger[k] EXCEPT !.enrolled = g.to, !.enrolledPlace = w.place,
                         !.observed = None, !.observedPlace = None,
                         !.transfers = moved, !.consumed = spent]
  <2> HIDE DEF moved, spent
  <2>1. there \in Record
    BY <1>2, <1>3, <1>4, <1>5 DEF Record
  <2>2. ledger' = [ledger EXCEPT ![k] = there]
    BY <1>1 DEF MandateTypeOK
  <2> QED BY <2>1, <2>2 DEF MandateTypeOK
<1>7. sessions' \in [Tik -> [Session -> Optional(Chain)]]
  BY DEF TransferAccepted, MandateTypeOK
<1> QED BY <1>6, <1>7, LogDecisionType DEF TransferAccepted, MandateTypeOK

\* A challenge handed out (challenge).
LEMMA ChallengeType ==
    ASSUME MandateTypeOK, NEW n \in Nonce, Challenge(n)
    PROVE  MandateTypeOK'
<1>1. now + ChallengeTTL \in Nat
  BY MandateAssumption DEF MandateTypeOK
<1>2. challenges' \in [Nonce -> Optional(Nat)]
  BY <1>1 DEF Challenge, MandateTypeOK
<1> QED BY <1>2 DEF Challenge, MandateTypeOK

\* A mandate built anew over the store (__init__).
LEMMA RestartType ==
    ASSUME MandateTypeOK, MandateRestart
    PROVE  MandateTypeOK'
<1>1. Blank \in Record
  BY DEF Blank, Record
<1> QED BY <1>1 DEF MandateRestart, MandateTypeOK

-----------------------------------------------------------------------------
(* The deployment keeps its types.                                         *)

\* A guest attests: what it sends is a message (Attester.attest).
LEMMA AttestType ==
    ASSUME TypeOK, NEW s \in Session, NEW t \in Tee, NEW head \in HeadsOnOffer(s),
           Attest(s, t, head)
    PROVE  PartyTypeOK'
<1> DEFINE g == guest[s][t]
           base == IF g.prev = None THEN IntraLink(s, TikOf[s]) ELSE g.prev
           m == Message(t, s, base, g.counter, head)
<1>1. g \in [prev : Optional(Link), counter : Nat]
  BY DEF Attest, TypeOK, PartyTypeOK
<1>2. base \in Link
  BY <1>1, IntraLinkIsLink, DeploymentAssumption
<1>3. PostLink(s, base, g.counter) \in Link
  BY <1>1, <1>2, PostLinkIsLink
<1>4. head \in Optional(TreeHead)
  BY DEF HeadsOnOffer, CurrentHead, HeadAt, TreeHead, TypeOK, MandateTypeOK
<1>5. m \in Msg /\ m.link \in Link
  BY <1>1, <1>3, <1>4 DEF Message, Report, ReportData, Msg, Binding
<1>6. /\ guest' = [guest EXCEPT ![s][t] = [prev |-> m.link, counter |-> g.counter + 1]]
      /\ net' = net \cup {m}
  BY DEF Attest
<1>7. guest' \in [Session -> [Tee -> Optional([prev : Optional(Link), counter : Nat])]]
  BY <1>1, <1>5, <1>6 DEF TypeOK, PartyTypeOK
<1> QED BY <1>5, <1>6, <1>7 DEF Attest, TypeOK, PartyTypeOK

\* An owner issues a grant (make_grant).
LEMMA IssueGrantType ==
    ASSUME TypeOK, NEW k \in Tik, NEW from \in Optional(Instance),
           NEW to \in Instance, NEW signer \in Authority, IssueGrant(k, from, to, signer)
    PROVE  PartyTypeOK'
<1> DEFINE grant(n) == [tik |-> k, from |-> from, to |-> to, anyOrigin |-> from = None,
                        nbf |-> now, exp |-> now + GrantFor, nonce |-> n,
                        signer |-> signer]
<1>1. PICK n \in GrantNonce : grants' = grants \cup {grant(n)}
  BY DEF IssueGrant
<1>2. now \in Nat /\ now + GrantFor \in Nat
  BY DeploymentAssumption DEF TypeOK, MandateTypeOK
<1>3. grant(n) \in Grant
  BY <1>2 DEF Grant
<1>4. grants' \subseteq Grant
  BY <1>1, <1>3 DEF TypeOK, PartyTypeOK
<1> QED BY <1>4 DEF IssueGrant, TypeOK, PartyTypeOK

\* An enrolment authority issues a permit (make_enrolment_authorisation).
LEMMA IssuePermitType ==
    ASSUME TypeOK, NEW k \in Tik, NEW n \in Nonce, IssuePermit(k, n)
    PROVE  PartyTypeOK'
<1>1. EnrolmentAuthority \in Authority /\ now \in Nat /\ now + PermitFor \in Nat
  BY MandateAssumption, DeploymentAssumption DEF IssuePermit, TypeOK, MandateTypeOK
<1>2. permits' \subseteq Permit
  BY <1>1 DEF IssuePermit, TypeOK, PartyTypeOK, Permit
<1> QED BY <1>2 DEF IssuePermit, TypeOK, PartyTypeOK

\* Every variable keeps its type in every step of the deployment.
LEMMA TypePreserved ==
    ASSUME TypeOK, [Next]_vars
    PROVE  TypeOK'
<1> USE DEF TypeOK
<1>d. \A d \in Deliverable : d[1] \in Msg
  BY DEF Deliverable, PartyTypeOK
<1>e. \A e \in Evidences : e.tee \in Tee
  BY DEF Evidences, Report
<1>1. CASE UNCHANGED vars
  BY <1>1 DEF vars, mandateVars, partyVars, history, MandateTypeOK, PartyTypeOK, HistoryTypeOK
<1>2. ASSUME NEW s \in Session, NEW t \in Tee, NEW head \in HeadsOnOffer(s), Attest(s, t, head)
      PROVE  TypeOK'
  <2>1. UNCHANGED mandateVars /\ UNCHANGED history
    BY <1>2 DEF Attest
  <2> QED BY <1>2, <2>1, AttestType DEF mandateVars, history, MandateTypeOK, HistoryTypeOK
<1>3. ASSUME NEW s \in Session, NEW t \in Tee, NEW u \in Clones, Rehost(s, t, u)
      PROVE  TypeOK'
  <2>1. guest' \in [Session -> [Tee -> Optional([prev : Optional(Link), counter : Nat])]]
    BY <1>3, DeploymentAssumption DEF Rehost, PartyTypeOK
  <2> QED BY <1>3, <2>1 DEF Rehost, mandateVars, history, MandateTypeOK, PartyTypeOK, HistoryTypeOK
<1>4. ASSUME NEW s \in Session, Connect(s)
      PROVE  TypeOK'
  BY <1>4 DEF Connect, mandateVars, history, MandateTypeOK, PartyTypeOK, HistoryTypeOK
<1>5. ASSUME NEW s \in Session, ReceiveAccepted(s)
      PROVE  TypeOK'
  <2>1. PICK d \in Deliverable :
          /\ PresentAccepted(TikOf[s], s, d[1], d[2], None)
          /\ serves' = [serves EXCEPT ![s] =
               Append(@, [counter |-> d[1].counter, tee |-> d[1].evidence.tee])]
    BY <1>5 DEF ReceiveAccepted
  <2>2. MandateTypeOK'
    BY <1>d, <2>1, AcceptedType, DeploymentAssumption
  <2>3. [counter |-> d[1].counter, tee |-> d[1].evidence.tee] \in [counter : Nat, tee : Tee]
    BY <1>d DEF Msg
  <2>a. PICK served \in Seq([counter : Nat, tee : Tee]) :
          served = Append(serves[s], [counter |-> d[1].counter, tee |-> d[1].evidence.tee])
    <3>1. serves[s] \in Seq([counter : Nat, tee : Tee])
      BY DEF HistoryTypeOK
    <3> QED BY <2>3, <3>1, AppendType
  <2>b. serves' = [serves EXCEPT ![s] = served]
    BY <2>1, <2>a DEF HistoryTypeOK
  <2>4. serves' \in [Session -> Seq([counter : Nat, tee : Tee])]
    BY <2>b DEF HistoryTypeOK
  <2> QED BY <1>5, <2>2, <2>4 DEF ReceiveAccepted, partyVars, PartyTypeOK, HistoryTypeOK
<1>6. ASSUME NEW s \in Session, ReceiveUnsaved(s)
      PROVE  TypeOK'
  <2>1. MandateTypeOK'
    BY <1>d, <1>6, UnsavedType, DeploymentAssumption DEF ReceiveUnsaved
  <2> QED BY <1>6, <2>1 DEF ReceiveUnsaved, partyVars, history, PartyTypeOK, HistoryTypeOK
<1>7. ASSUME NEW s \in Session, ReceiveRefused(s)
      PROVE  TypeOK'
  <2>1. MandateTypeOK'
    BY <1>d, <1>7, RefusedType, DeploymentAssumption DEF ReceiveRefused
  <2> QED BY <1>7, <2>1 DEF ReceiveRefused, partyVars, history, PartyTypeOK, HistoryTypeOK
<1>8. ASSUME NEW n \in Nonce, IssueChallenge(n)
      PROVE  TypeOK'
  BY <1>8, ChallengeType DEF IssueChallenge, partyVars, history, PartyTypeOK, HistoryTypeOK
<1>9. ASSUME NEW n \in Nonce, EnrolTooLate(n)
      PROVE  TypeOK'
  BY <1>9, LogDecisionType
     DEF EnrolTooLate, EnrollExpired, Spend, MandateTypeOK, partyVars, history, PartyTypeOK, HistoryTypeOK
<1>10. ASSUME NEW k \in Tik, NEW n \in Nonce, IssuePermit(k, n)
       PROVE  TypeOK'
  <2>1. UNCHANGED mandateVars /\ UNCHANGED history
    BY <1>10 DEF IssuePermit
  <2> QED BY <1>10, <2>1, IssuePermitType DEF mandateVars, history, MandateTypeOK, HistoryTypeOK
<1>11. ASSUME NEW k \in Tik, NEW n \in Nonce, Enrol(k, n)
       PROVE  TypeOK'
  <2>1. PICK e \in Evidences, permit \in Optional(permits) :
          EnrollAccepted(k, e, n, e.data.csr, OwnerOf[k], permit)
    BY <1>11 DEF Enrol
  <2>2. OwnerOf[k] \in Optional(Authority)
    BY DeploymentAssumption
  <2>3. MandateTypeOK'
    BY <1>e, <2>1, <2>2, EnrollAcceptedType
  <2>4. births' \in [Nonce -> Nat]
    BY <1>11 DEF Enrol, HistoryTypeOK
  <2> QED BY <1>11, <2>3, <2>4 DEF Enrol, partyVars, PartyTypeOK, HistoryTypeOK
<1>12. ASSUME NEW k \in Tik, NEW n \in Nonce, EnrolUnsaved(k, n)
       PROVE  TypeOK'
  BY <1>12 DEF EnrolUnsaved, EnrollUnsaved, Spend, MandateTypeOK, partyVars, history, PartyTypeOK, HistoryTypeOK
<1>13. ASSUME NEW k \in Tik, NEW n \in Nonce, EnrolRefused(k, n)
       PROVE  TypeOK'
  BY <1>13, LogDecisionType
     DEF EnrolRefused, EnrollRefused, MandateTypeOK, partyVars, history, PartyTypeOK, HistoryTypeOK
<1>14. ASSUME NEW k \in Tik, NEW from \in Optional(Instance), NEW to \in Instance,
              NEW signer \in Authority, IssueGrant(k, from, to, signer)
       PROVE  TypeOK'
  <2>1. UNCHANGED mandateVars /\ UNCHANGED history
    BY <1>14 DEF IssueGrant
  <2> QED BY <1>14, <2>1, IssueGrantType DEF mandateVars, history, MandateTypeOK, HistoryTypeOK
<1>15. ASSUME NEW k \in Tik, Move(k)
       PROVE  TypeOK'
  <2>1. PICK g \in grants :
          TransferAccepted(k, g) /\ moves' = [moves EXCEPT ![g.nonce] = @ + 1]
    BY <1>15 DEF Move
  <2>2. g \in Grant
    BY DEF PartyTypeOK
  <2>3. MandateTypeOK'
    BY <2>1, <2>2, TransferAcceptedType
  <2>4. moves' \in [GrantNonce -> Nat]
    BY <2>1, <2>2 DEF HistoryTypeOK, Grant
  <2> QED BY <1>15, <2>3, <2>4 DEF Move, partyVars, PartyTypeOK, HistoryTypeOK
<1>16. ASSUME NEW k \in Tik, MoveRefused(k)
       PROVE  TypeOK'
  BY <1>16, LogDecisionType
     DEF MoveRefused, TransferRefused, MandateTypeOK, partyVars, history, PartyTypeOK, HistoryTypeOK
<1>17. ASSUME NEW k \in Tik, RevokeIdentity(k)
       PROVE  TypeOK'
  <2>a. [ledger[k] EXCEPT !.revoked = TRUE] \in Record
    BY DEF MandateTypeOK, Record
  <2>1. ledger' \in [Tik -> Record]
    BY <1>17, <2>a DEF RevokeIdentity, Revoke, MandateTypeOK
  <2> QED BY <1>17, <2>1, LogDecisionType
     DEF RevokeIdentity, Revoke, MandateTypeOK, partyVars, history, PartyTypeOK, HistoryTypeOK
<1>18. CASE ClockTick
  <2>1. MandateTypeOK'
    BY <1>18 DEF ClockTick, Tick, MandateTypeOK
  <2> QED BY <1>18, <2>1 DEF ClockTick, partyVars, history, PartyTypeOK, HistoryTypeOK
<1>19. CASE Restart
  <2>1. MandateTypeOK'
    BY <1>19, RestartType DEF Restart
  <2> QED BY <1>19, <2>1 DEF Restart, history, PartyTypeOK, HistoryTypeOK
<1> QED BY <1>1, <1>2, <1>3, <1>4, <1>5, <1>6, <1>7, <1>8, <1>9, <1>10, <1>11, <1>12, <1>13,
            <1>14, <1>15, <1>16, <1>17, <1>18, <1>19
        DEF Next, GuestStep, RelyingPartyStep, EnrolmentStep, OwnerStep

\* Type correctness of the mandate and of everyone who calls it.
THEOREM TypeCorrect == Spec => []TypeOK
<1>1. Init => TypeOK
  <2>1. Blank \in Record
    BY DEF Blank, Record
  <2>2. MandateInit => MandateTypeOK
    BY <2>1 DEF MandateInit, MandateTypeOK
  <2>3. Init => PartyTypeOK /\ HistoryTypeOK
    BY DEF Init, PartyTypeOK, HistoryTypeOK
  <2> QED BY <2>2, <2>3 DEF Init, TypeOK
<1>2. TypeOK /\ [Next]_vars => TypeOK'
  BY TypePreserved
<1> QED BY <1>1, <1>2, PTL DEF Spec

-----------------------------------------------------------------------------
(* What each outcome of a handler does to the record of an identity.       *)

\* The parts of a record that no refusal may touch.
SameStanding(r, q) ==
    /\ r.enrolled = q.enrolled /\ r.enrolledPlace = q.enrolledPlace
    /\ r.observed = q.observed /\ r.observedPlace = q.observedPlace
    /\ r.revoked = q.revoked /\ r.authority = q.authority
    /\ r.transfers = q.transfers /\ r.consumed = q.consumed

\* A refused presentation touches none of them, nor a chain (_appraise: the
\* returns of "reject" come before sessions[s] is assigned, and what
\* _witness and _dispute save are two lists).
LEMMA RefusalKeepsStanding ==
    ASSUME MandateTypeOK, NEW k \in Tik, NEW s \in Session, NEW m \in Msg,
           NEW head, PresentRefused(k, s, m, head, None)
    PROVE  /\ \A j \in Tik : SameStanding(ledger'[j], ledger[j])
           /\ UNCHANGED <<sessions, challenges, issued, now>>
           /\ LogDecision
<1>a. ledger \in [Tik -> Record]
  BY DEF MandateTypeOK
<1>1. ASSUME NEW why, Disputed(k, why)
      PROVE  \A j \in Tik : SameStanding(ledger'[j], ledger[j])
  BY <1>a, <1>1 DEF Disputed, SameStanding, Record
<1>2. ASSUME NEW why, Sighted(k, m, why)
      PROVE  \A j \in Tik : SameStanding(ledger'[j], ledger[j])
  BY <1>a, <1>2 DEF Sighted, SameStanding, Record
<1>3. CASE PresentDeclined(k, s, m, head, None)
  BY <1>3 DEF PresentDeclined, SameStanding
<1>4. CASE PresentImpostor(k, m, head, None)
  BY <1>4, <1>2 DEF PresentImpostor, Sighted
<1>5. CASE PresentDisplaced(k, m, head, None)
  BY <1>5, <1>1 DEF PresentDisplaced, Disputed
<1>6. CASE PresentContending(k, m, head, None)
  BY <1>6, <1>2 DEF PresentContending, Sighted
<1>7. CASE PresentMisplaced(k, s, m, head, None)
  BY <1>7, <1>1 DEF PresentMisplaced, Disputed
<1>8. CASE PresentUnchained(k, s, m, head, None)
  BY <1>8, <1>1 DEF PresentUnchained, Disputed
<1> QED BY <1>3, <1>4, <1>5, <1>6, <1>7, <1>8 DEF PresentRefused

\* A step whose records keep their standing is no step of the promise.
LEMMA StandingIsStutter ==
    ASSUME \A j \in Tik : SameStanding(ledger'[j], ledger[j]), UNCHANGED grants
    PROVE  UNCHANGED Promise!vars
BY DEF SameStanding, Promise!vars

\* A step that leaves the ledger and the grants alone is no step of the promise.
LEMMA LedgerIsStutter ==
    ASSUME UNCHANGED <<ledger, grants>>
    PROVE  UNCHANGED Promise!vars
BY DEF Promise!vars

\* An accepted presentation serves the instance claimed, or nobody.
LEMMA AcceptedServes ==
    ASSUME MandateTypeOK, NEW k \in Tik, NEW s \in Session, NEW m \in Msg,
           NEW head, PresentAccepted(k, s, m, head, None), UNCHANGED grants
    PROVE  [Promise!Next]_(Promise!vars)
<1>p. PICK i, pl : i = InstanceClaim(m.evidence) /\ pl = PlaceClaim(m.evidence)
  OBVIOUS
<1>1. CASE i = None
  BY <1>p, <1>1, LedgerIsStutter DEF PresentAccepted
<1>2. CASE i # None
  <2>1. i \in Instance
    BY <1>p, <1>2, ClaimTypes DEF Msg
  <2>2. /\ ~ledger[k].revoked
        /\ ledger[k].enrolled \in {None, i}
        /\ ledger[k].observed \in {None, i}
    BY <1>p, <1>2 DEF PresentAccepted, Acceptable, Undisputed, Placed, Recognised,
                Appraisable, Foreign, Contends, Differs
  <2>3. ledger' = [ledger EXCEPT ![k].observed = i, ![k].observedPlace = pl]
    BY <1>p, <1>2 DEF PresentAccepted
  <2>4. \A j \in Tik :
          /\ ledger'[j].enrolled = ledger[j].enrolled
          /\ ledger'[j].authority = ledger[j].authority
          /\ ledger'[j].revoked = ledger[j].revoked
          /\ ledger'[j].observed = IF j = k THEN i ELSE ledger[j].observed
    BY <2>3 DEF MandateTypeOK, Record
  <2>5. Promise!Serve(k, i)
    BY <2>2, <2>4 DEF Promise!Serve
  <2> QED BY <2>1, <2>5 DEF Promise!Next
<1> QED BY <1>1, <1>2

\* An accepted enrolment binds.
LEMMA EnrolmentBinds ==
    ASSUME MandateTypeOK, NEW k \in Tik, NEW e, e.tee \in Tee, NEW n \in Nonce,
           NEW csr, NEW owner \in Optional(Authority), NEW permit,
           EnrollAccepted(k, e, n, csr, owner, permit), UNCHANGED grants
    PROVE  Promise!Next
<1>p. PICK i, pl, o : /\ i = InstanceClaim(e) /\ pl = PlaceClaim(e)
                      /\ o = IF owner = None THEN ledger[k].authority ELSE owner
  OBVIOUS
<1>1. i \in Instance
  BY <1>p, ClaimTypes DEF EnrollAccepted, Enrollable
<1>2. o \in Optional(Authority)
  BY <1>p DEF MandateTypeOK, Record
<1>3. ledger[k].enrolled = None
  BY DEF EnrollAccepted, Enrollable
<1>4. ledger' = [ledger EXCEPT ![k] =
         [ledger[k] EXCEPT !.enrolled = i, !.enrolledPlace = pl, !.authority = o]]
  BY <1>p DEF EnrollAccepted, MandateTypeOK, Record
<1>5. \A j \in Tik :
        /\ ledger'[j].enrolled = IF j = k THEN i ELSE ledger[j].enrolled
        /\ ledger'[j].authority = IF j = k THEN o ELSE ledger[j].authority
        /\ ledger'[j].revoked = ledger[j].revoked
        /\ ledger'[j].observed = ledger[j].observed
  BY <1>4 DEF MandateTypeOK, Record
<1>6. Promise!Bind(k, i, o)
  BY <1>3, <1>5 DEF Promise!Bind
<1> QED BY <1>1, <1>2, <1>6 DEF Promise!Next

\* An accepted transfer moves the home, on an owner's grant.
LEMMA TransferMovesHome ==
    ASSUME MandateTypeOK, NEW k \in Tik, NEW g \in grants, g \in Grant,
           TransferAccepted(k, g), UNCHANGED grants
    PROVE  Promise!Next
<1>1. /\ ~ledger[k].revoked
      /\ ledger[k].enrolled # None
      /\ g.tik = k /\ g.signer = ledger[k].authority
      /\ g.from \in {None, ledger[k].enrolled}
  BY DEF TransferAccepted, Transferable, SignedByOwner
<1>w. Promise!MayMove(k, g.to)
  <2> DEFINE said(x) == [identity |-> x.tik, from |-> x.from, to |-> x.to,
                         by |-> x.signer]
  <2>1. said(g) \in {said(x) : x \in grants}
    OBVIOUS
  <2>2. /\ said(g).identity = k /\ said(g).by = ledger[k].authority
        /\ said(g).from \in {None, ledger[k].enrolled} /\ said(g).to = g.to
    BY <1>1
  <2>3. [i \in Tik |-> ledger[i].authority][k] = ledger[k].authority
    OBVIOUS
  <2>4. [i \in Tik |-> ledger[i].enrolled][k] = ledger[k].enrolled
    OBVIOUS
  <2> HIDE DEF said
  <2>5. \E w \in {said(x) : x \in grants} :
           /\ w.identity = k /\ w.by = [i \in Tik |-> ledger[i].authority][k]
           /\ w.from \in {None, [i \in Tik |-> ledger[i].enrolled][k]} /\ w.to = g.to
    BY <2>1, <2>2, <2>3, <2>4, Zenon
  <2> QED BY <2>5 DEF Promise!MayMove, said
<1> DEFINE moved == KeepLast(Append(ledger[k].transfers, Entry(k, g)), TransferCap)
           spent == KeepLast(Append(ledger[k].consumed, g.nonce), ConsumedCap)
<1>2. PICK w \in Destinations(k, g.to) :
        ledger' = [ledger EXCEPT
           ![k].enrolled = g.to, ![k].enrolledPlace = w.place,
           ![k].observed = None, ![k].observedPlace = None,
           ![k].transfers = moved, ![k].consumed = spent]
  BY DEF TransferAccepted
<1>3. \A j \in Tik :
        /\ ledger'[j].enrolled = IF j = k THEN g.to ELSE ledger[j].enrolled
        /\ ledger'[j].observed = IF j = k THEN None ELSE ledger[j].observed
        /\ ledger'[j].authority = ledger[j].authority
        /\ ledger'[j].revoked = ledger[j].revoked
  BY <1>2 DEF MandateTypeOK, Record
<1>4. Promise!MoveHome(k, g.to)
  BY <1>1, <1>w, <1>3 DEF Promise!MoveHome
<1> QED BY <1>4 DEF Promise!Next, Grant

\* A revocation bars.
LEMMA RevocationBars ==
    ASSUME MandateTypeOK, NEW k \in Tik, Revoke(k), UNCHANGED grants
    PROVE  Promise!Next
<1>1. \A j \in Tik :
        /\ ledger'[j].enrolled = ledger[j].enrolled
        /\ ledger'[j].authority = ledger[j].authority
        /\ ledger'[j].observed = ledger[j].observed
        /\ ledger'[j].revoked = (j = k \/ ledger[j].revoked)
  BY DEF Revoke, MandateTypeOK, Record
<1>2. Promise!Bar(k)
  BY <1>1 DEF Promise!Bar
<1> QED BY <1>2 DEF Promise!Next

\* A new process over a store that kept nothing forgets.
LEMMA RestartForgets ==
    ASSUME MandateRestart, UNCHANGED grants
    PROVE  [Promise!Next]_(Promise!vars)
<1>1. CASE Durable
  BY <1>1, LedgerIsStutter DEF MandateRestart
<1>2. CASE ~Durable
  <2>1. ledger' = [k \in Tik |-> Blank]
    BY <1>2 DEF MandateRestart
  <2>2. Promise!Forget
    BY <1>2, <2>1 DEF Promise!Forget, Blank
  <2> QED BY <2>2 DEF Promise!Next
<1> QED BY <1>1, <1>2

\* A grant signed, by whomever, is a word given.
LEMMA GrantIsAWord ==
    ASSUME NEW k \in Tik, NEW from \in Optional(Instance), NEW to \in Instance,
           NEW signer \in Authority, IssueGrant(k, from, to, signer)
    PROVE  Promise!Next
<1> DEFINE grant(n) == [tik |-> k, from |-> from, to |-> to, anyOrigin |-> from = None,
                        nbf |-> now, exp |-> now + GrantFor, nonce |-> n,
                        signer |-> signer]
           said(g) == [identity |-> g.tik, from |-> g.from, to |-> g.to, by |-> g.signer]
           word == [identity |-> k, from |-> from, to |-> to, by |-> signer]
<1>1. PICK n \in GrantNonce : grants' = grants \cup {grant(n)}
  BY DEF IssueGrant
<1>2. said(grant(n)) = word
  OBVIOUS
<1> HIDE DEF grant
<1>3. {said(g) : g \in grants'} = {said(g) : g \in grants} \cup {word}
  BY <1>1, <1>2
<1>4. UNCHANGED ledger
  BY DEF IssueGrant, mandateVars
<1>5. word \in Promise!Word
  BY DEF Promise!Word
<1>6. Promise!GiveWord(word)
  BY <1>3, <1>4 DEF Promise!GiveWord
<1> QED BY <1>5, <1>6 DEF Promise!Next

\* Every step of the deployment is a step of the promise, or none.
LEMMA StepKeepsCustody ==
    ASSUME TypeOK, [Next]_vars
    PROVE  [Promise!Next]_(Promise!vars)
<1>m. MandateTypeOK
  BY DEF TypeOK
<1>d. \A d \in Deliverable : d[1] \in Msg
  BY DEF Deliverable, TypeOK, PartyTypeOK
<1>1. CASE UNCHANGED vars
  BY <1>1, LedgerIsStutter DEF vars, mandateVars, partyVars
<1>2. CASE GuestStep
  BY <1>2, LedgerIsStutter DEF GuestStep, Attest, Rehost, mandateVars
<1>3. CASE RelyingPartyStep
  <2>1. ASSUME NEW s \in Session, ReceiveAccepted(s)
        PROVE  [Promise!Next]_(Promise!vars)
    BY <1>m, <1>d, <2>1, AcceptedServes, DeploymentAssumption DEF ReceiveAccepted, partyVars
  <2>2. ASSUME NEW s \in Session, ReceiveRefused(s)
        PROVE  [Promise!Next]_(Promise!vars)
    BY <1>m, <1>d, <2>2, RefusalKeepsStanding, StandingIsStutter, DeploymentAssumption
       DEF ReceiveRefused, partyVars
  <2>3. ASSUME NEW s \in Session, Connect(s) \/ ReceiveUnsaved(s)
        PROVE  [Promise!Next]_(Promise!vars)
    BY <2>3, LedgerIsStutter DEF Connect, ReceiveUnsaved, PresentUnsaved, mandateVars, partyVars
  <2> QED BY <1>3, <2>1, <2>2, <2>3 DEF RelyingPartyStep
<1>4. CASE EnrolmentStep
  <2>1. ASSUME NEW k \in Tik, NEW n \in Nonce, Enrol(k, n)
        PROVE  [Promise!Next]_(Promise!vars)
    <3>1. PICK e \in Evidences, permit \in Optional(permits) :
            EnrollAccepted(k, e, n, e.data.csr, OwnerOf[k], permit)
      BY <2>1 DEF Enrol
    <3>2. e.tee \in Tee
      BY DEF Evidences, Report
    <3>3. UNCHANGED grants
      BY <2>1 DEF Enrol, partyVars
    <3> QED BY <1>m, <3>1, <3>2, <3>3, EnrolmentBinds, DeploymentAssumption
  <2>2. ASSUME NEW k \in Tik, NEW n \in Nonce,
               IssuePermit(k, n) \/ EnrolUnsaved(k, n) \/ EnrolRefused(k, n)
        PROVE  [Promise!Next]_(Promise!vars)
    BY <2>2, LedgerIsStutter
       DEF IssuePermit, EnrolUnsaved, EnrollUnsaved, EnrolRefused, EnrollRefused, mandateVars, partyVars
  <2>3. ASSUME NEW n \in Nonce, IssueChallenge(n) \/ EnrolTooLate(n)
        PROVE  [Promise!Next]_(Promise!vars)
    BY <2>3, LedgerIsStutter DEF IssueChallenge, Challenge, EnrolTooLate, EnrollExpired, partyVars
  <2> QED BY <1>4, <2>1, <2>2, <2>3 DEF EnrolmentStep
<1>5. CASE OwnerStep
  <2>1. ASSUME NEW k \in Tik, Move(k)
        PROVE  [Promise!Next]_(Promise!vars)
    <3>1. PICK g \in grants : TransferAccepted(k, g)
      BY <2>1 DEF Move
    <3>2. g \in Grant /\ UNCHANGED grants
      BY <2>1 DEF Move, partyVars, TypeOK, PartyTypeOK
    <3> QED BY <1>m, <3>1, <3>2, TransferMovesHome
  <2>2. ASSUME NEW k \in Tik, RevokeIdentity(k)
        PROVE  [Promise!Next]_(Promise!vars)
    BY <1>m, <2>2, RevocationBars DEF RevokeIdentity, partyVars
  <2>3. ASSUME NEW k \in Tik, MoveRefused(k)
        PROVE  [Promise!Next]_(Promise!vars)
    BY <2>3, LedgerIsStutter DEF MoveRefused, TransferRefused, partyVars
  <2>4. ASSUME NEW k \in Tik, NEW from \in Optional(Instance), NEW to \in Instance,
               NEW signer \in Authority, IssueGrant(k, from, to, signer)
        PROVE  [Promise!Next]_(Promise!vars)
    BY <2>4, GrantIsAWord
  <2> QED BY <1>5, <2>1, <2>2, <2>3, <2>4 DEF OwnerStep
<1>6. CASE ClockTick
  BY <1>6, LedgerIsStutter DEF ClockTick, Tick, partyVars
<1>7. CASE Restart
  BY <1>7, RestartForgets DEF Restart
<1> QED BY <1>1, <1>2, <1>3, <1>4, <1>5, <1>6, <1>7 DEF Next

\* The mandate implements Custody: whatever the network, the guests, the
\* clock, a failing store and restarts do, an identity has one home, moved
\* only on its owner's word, is served to its incumbent alone, and not at
\* all once revoked.
THEOREM CustodyIsKept == Spec => KeepsCustody
<1>1. Init => Promise!Init
  BY DEF Init, MandateInit, Blank, Promise!Init
<1>2. TypeOK /\ [Next]_vars => [Promise!Next]_(Promise!vars)
  BY StepKeepsCustody
<1> QED BY <1>1, <1>2, TypeCorrect, PTL DEF Spec, KeepsCustody, Promise!Spec

-----------------------------------------------------------------------------
(* Who is served.                                                          *)

\* What ServedIsEntitled says of one step.
ServesTheEntitled ==
    \A s \in Session : serves'[s] # serves[s] =>
        LET k == TikOf[s]
            tee == LastServed(s)'.tee
            place == IF InstanceOf[tee] = None THEN None ELSE PlaceOf[tee]
        IN  /\ ~ledger[k].revoked
            /\ ledger[k].enrolled \in {None, InstanceOf[tee]} \/ InstanceOf[tee] = None
            /\ RequirePlace => place # None /\ ledger[k].enrolledPlace \in {None, place}

\* An accepted presentation is by an entitled instance (the tests 0, 1c and
\* 1d of _appraise, against the record as it is before the step).
LEMMA AcceptedIsEntitled ==
    ASSUME TypeOK, NEW s \in Session, ReceiveAccepted(s)
    PROVE  ServesTheEntitled
<1>1. PICK d \in Deliverable :
        /\ PresentAccepted(TikOf[s], s, d[1], d[2], None)
        /\ serves' = [serves EXCEPT ![s] =
             Append(@, [counter |-> d[1].counter, tee |-> d[1].evidence.tee])]
  BY DEF ReceiveAccepted
<1> DEFINE k == TikOf[s]
           t == d[1].evidence.tee
           last == [counter |-> d[1].counter, tee |-> t]
<1>2. serves'[s] = Append(serves[s], last) /\ serves[s] \in Seq([counter : Nat, tee : Tee])
  BY <1>1 DEF TypeOK, HistoryTypeOK
<1>3. LastServed(s)' = last
  <2>1. \A seq \in Seq([counter : Nat, tee : Tee]) : \A x :
          Append(seq, x)[Len(Append(seq, x))] = x
    OBVIOUS
  <2> QED BY <1>2, <2>1 DEF LastServed
<1>4. \A r \in Session : serves'[r] # serves[r] => r = s
  BY <1>1 DEF TypeOK, HistoryTypeOK
<1>5. Placed(k, d[1], d[2], None)
  BY <1>1 DEF PresentAccepted, Acceptable, Undisputed
<1>6. /\ ~ledger[k].revoked
      /\ ledger[k].enrolled \in {None, InstanceOf[t]} \/ InstanceOf[t] = None
  BY <1>5 DEF Placed, Recognised, Appraisable, Foreign, Differs, InstanceClaim
<1> DEFINE place == IF InstanceOf[t] = None THEN None ELSE PlaceOf[t]
<1>7. RequirePlace => place # None /\ ledger[k].enrolledPlace \in {None, place}
  BY <1>5 DEF Placed, Unplaced, Displaced, Differs, PlaceClaim, InstanceClaim
<1> QED BY <1>3, <1>4, <1>6, <1>7 DEF ServesTheEntitled

\* Steps other than an accepted presentation serve nobody.
LEMMA OnlyAcceptedServes ==
    ASSUME [Next]_vars
    PROVE  (\E s \in Session : ReceiveAccepted(s)) \/ UNCHANGED serves
BY DEF Next, vars, history, GuestStep, Attest, Rehost, RelyingPartyStep, Connect, ReceiveUnsaved,
       ReceiveRefused, EnrolmentStep, IssueChallenge, EnrolTooLate, IssuePermit, Enrol,
       EnrolUnsaved, EnrolRefused, OwnerStep, IssueGrant, Move, MoveRefused, RevokeIdentity,
       ClockTick, Restart

\* A step is served to none but an entitled instance, in every deployment.
THEOREM EntitledAreServed == Spec => ServedIsEntitled
<1>1. TypeOK /\ [Next]_vars => [ServesTheEntitled]_vars
  BY OnlyAcceptedServes, AcceptedIsEntitled DEF ServesTheEntitled
<1>2. [][ServesTheEntitled]_vars <=> ServedIsEntitled
  BY DEF ServesTheEntitled, ServedIsEntitled
<1> QED BY <1>1, <1>2, TypeCorrect, PTL DEF Spec
-----------------------------------------------------------------------------
(* Refusals.                                                               *)

\* A head the log has had, it has had after one more decision too.
LEMMA HeadsStayKnown ==
    ASSUME MandateTypeOK, LogDecision, NEW h, KnowsHead(h)
    PROVE  KnowsHead(h)'
<1>1. log \in [epoch : Nat, size : Nat]
  BY DEF MandateTypeOK
<1>2. log'.epoch = log.epoch /\ log'.size \in {log.size, log.size + 1}
  BY <1>1 DEF LogDecision
<1>3. PICK n \in 0 .. log.size : h = HeadAt(log.epoch, n)
  BY DEF KnowsHead
<1>4. n \in 0 .. log'.size
  BY <1>1, <1>2
<1> QED BY <1>2, <1>3, <1>4 DEF KnowsHead, HeadAt

\* What was acceptable stays acceptable, when no record loses its standing
\* and no chain moves.
LEMMA AcceptableKept ==
    ASSUME MandateTypeOK, LogDecision, UNCHANGED sessions,
           \A j \in Tik : SameStanding(ledger'[j], ledger[j]),
           NEW k \in Tik, NEW s \in Session, NEW m, NEW head,
           Acceptable(k, s, m, head, None)
    PROVE  Acceptable(k, s, m, head, None)'
<1>1. HeadAccepted(head, None)'
  BY HeadsStayKnown DEF Acceptable, Undisputed, Placed, Recognised, Appraisable, HeadAccepted
<1>2. Appraisable(k, m, head, None)'
  BY <1>1 DEF Acceptable, Undisputed, Placed, Recognised, Appraisable, SameStanding,
     Verifies, ReportData, InstanceClaim
<1>3. ~Foreign(k, m)'
  BY DEF Acceptable, Undisputed, Placed, Recognised, Foreign, Differs, SameStanding, InstanceClaim
<1>4. ~Unplaced(m)' /\ ~Displaced(k, m)'
  BY DEF Acceptable, Undisputed, Placed, Unplaced, Displaced, Differs, SameStanding,
     PlaceClaim, InstanceClaim
<1>5. ~Contends(k, m)'
  BY DEF Acceptable, Undisputed, Contends, Differs, SameStanding, InstanceClaim
<1>6. Positioned(k, s, m)' /\ Chains(k, s, m)'
  BY DEF Acceptable, Positioned, Chains, Base, Started, PostLink, IntraLink
<1> QED BY <1>2, <1>3, <1>4, <1>5, <1>6 DEF Acceptable, Undisputed, Placed, Recognised

\* What RefusalDisturbsNobody says of one step.
RefusalTakesNothing ==
    (\E s \in Session : ReceiveRefused(s)) =>
        \A s \in Session : \A d \in Deliverable :
            Acceptable(TikOf[s], s, d[1], d[2], None)
                => Acceptable(TikOf[s], s, d[1], d[2], None)'

\* A refused presentation takes nothing from anyone.
LEMMA RefusedTakesNothing ==
    ASSUME TypeOK
    PROVE  RefusalTakesNothing
<1> SUFFICES ASSUME NEW r \in Session, ReceiveRefused(r), NEW s \in Session,
                    NEW d \in Deliverable, Acceptable(TikOf[s], s, d[1], d[2], None)
             PROVE  Acceptable(TikOf[s], s, d[1], d[2], None)'
  BY DEF RefusalTakesNothing
<1>1. PICK e \in Deliverable : PresentRefused(TikOf[r], r, e[1], e[2], None)
  BY DEF ReceiveRefused
<1>2. e[1] \in Msg
  BY DEF Deliverable, TypeOK, PartyTypeOK
<1>3. /\ \A j \in Tik : SameStanding(ledger'[j], ledger[j])
      /\ UNCHANGED sessions
      /\ LogDecision
  BY <1>1, <1>2, RefusalKeepsStanding, DeploymentAssumption DEF TypeOK
<1> QED BY <1>3, AcceptableKept, DeploymentAssumption DEF TypeOK

\* Whatever is refused, what was acceptable in any session before is
\* acceptable after, in every deployment.
THEOREM RefusalIsHarmless == Spec => RefusalDisturbsNobody
<1>1. TypeOK /\ [Next]_vars => [RefusalTakesNothing]_vars
  BY RefusedTakesNothing
<1>2. [][RefusalTakesNothing]_vars <=> RefusalDisturbsNobody
  BY DEF RefusalTakesNothing, RefusalDisturbsNobody
<1> QED BY <1>1, <1>2, TypeCorrect, PTL DEF Spec

-----------------------------------------------------------------------------
(* A challenge enrols once.                                                *)

\* A nonce that has enrolled an identity was issued and is not outstanding;
\* one never issued is not outstanding either.
NonceIsSpent ==
    \A n \in Nonce :
        /\ births[n] \in {0, 1}
        /\ Outstanding(n) => n \in issued
        /\ births[n] = 1 => n \in issued /\ ~Outstanding(n)

\* Steps that neither issue, spend nor use a nonce.
LEMMA NonceUntouched ==
    ASSUME NonceIsSpent, UNCHANGED <<challenges, issued, births>>
    PROVE  NonceIsSpent'
BY DEF NonceIsSpent, Outstanding

\* Steps that spend a nonce and enrol nobody.
LEMMA NonceSpent ==
    ASSUME TypeOK, NonceIsSpent, NEW n \in Nonce, Spend(n), UNCHANGED <<issued, births>>
    PROVE  NonceIsSpent'
BY DEF NonceIsSpent, Outstanding, Spend, TypeOK, MandateTypeOK

\* Every step keeps account of the nonces.
LEMMA NoncePreserved ==
    ASSUME TypeOK, NonceIsSpent, [Next]_vars
    PROVE  NonceIsSpent'
<1>m. MandateTypeOK
  BY DEF TypeOK
<1>d. \A d \in Deliverable : d[1] \in Msg
  BY DEF Deliverable, TypeOK, PartyTypeOK
<1>1. CASE UNCHANGED vars
  BY <1>1, NonceUntouched DEF vars, mandateVars, history
<1>2. CASE GuestStep
  BY <1>2, NonceUntouched DEF GuestStep, Attest, Rehost, mandateVars, history
<1>3. CASE RelyingPartyStep
  <2>1. ASSUME NEW s \in Session, ReceiveRefused(s)
        PROVE  NonceIsSpent'
    BY <1>m, <1>d, <2>1, RefusalKeepsStanding, NonceUntouched, DeploymentAssumption
       DEF ReceiveRefused, history
  <2>2. ASSUME NEW s \in Session, Connect(s) \/ ReceiveAccepted(s) \/ ReceiveUnsaved(s)
        PROVE  NonceIsSpent'
    BY <2>2, NonceUntouched DEF Connect, ReceiveAccepted, PresentAccepted, ReceiveUnsaved,
       PresentUnsaved, mandateVars, history
  <2> QED BY <1>3, <2>1, <2>2 DEF RelyingPartyStep
<1>4. ASSUME NEW n \in Nonce, IssueChallenge(n)
      PROVE  NonceIsSpent'
  BY <1>4 DEF NonceIsSpent, IssueChallenge, Challenge, Live, Outstanding, history
<1>5. ASSUME NEW n \in Nonce, EnrolTooLate(n)
      PROVE  NonceIsSpent'
  BY <1>5, NonceSpent DEF EnrolTooLate, EnrollExpired, history
<1>6. ASSUME NEW k \in Tik, NEW n \in Nonce, EnrolUnsaved(k, n)
      PROVE  NonceIsSpent'
  BY <1>6, NonceSpent DEF EnrolUnsaved, EnrollUnsaved, history
<1>7. ASSUME NEW k \in Tik, NEW n \in Nonce, IssuePermit(k, n) \/ EnrolRefused(k, n)
      PROVE  NonceIsSpent'
  BY <1>7, NonceUntouched DEF IssuePermit, EnrolRefused, EnrollRefused, mandateVars, history
<1>8. ASSUME NEW k \in Tik, NEW n \in Nonce, Enrol(k, n)
      PROVE  NonceIsSpent'
  <2>1. Live(n) /\ Spend(n) /\ UNCHANGED issued
    BY <1>8 DEF Enrol, EnrollAccepted, Enrollable
  <2>2. births' = [births EXCEPT ![n] = births[n] + 1] /\ births \in [Nonce -> Nat]
    BY <1>8 DEF Enrol, TypeOK, HistoryTypeOK
  <2>3. births[n] = 0 /\ n \in issued
    BY <2>1 DEF NonceIsSpent, Live
  <2>4. births'[n] = 1 /\ ~Outstanding(n)'
    BY <2>1, <2>2, <2>3 DEF Spend, Outstanding, TypeOK, MandateTypeOK
  <2>5. \A x \in Nonce \ {n} : births'[x] = births[x] /\ challenges'[x] = challenges[x]
    BY <2>1, <2>2 DEF Spend, TypeOK, MandateTypeOK
  <2> QED BY <2>1, <2>3, <2>4, <2>5 DEF NonceIsSpent, Outstanding
<1>9. CASE OwnerStep
  <2>1. ASSUME NEW k \in Tik, Move(k)
        PROVE  NonceIsSpent'
    BY <2>1, NonceUntouched DEF Move, TransferAccepted
  <2>2. ASSUME NEW k \in Tik, MoveRefused(k) \/ RevokeIdentity(k)
        PROVE  NonceIsSpent'
    BY <2>2, NonceUntouched DEF MoveRefused, TransferRefused, RevokeIdentity, Revoke, history
  <2>3. ASSUME NEW k \in Tik, NEW from \in Optional(Instance), NEW to \in Instance,
               NEW signer \in Authority, IssueGrant(k, from, to, signer)
        PROVE  NonceIsSpent'
    BY <2>3, NonceUntouched DEF IssueGrant, mandateVars, history
  <2> QED BY <1>9, <2>1, <2>2, <2>3 DEF OwnerStep
<1>10. CASE ClockTick
  BY <1>10, NonceUntouched DEF ClockTick, Tick, history
<1>11. CASE Restart
  BY <1>11 DEF NonceIsSpent, Restart, MandateRestart, Outstanding, history
<1> QED BY <1>1, <1>2, <1>3, <1>4, <1>5, <1>6, <1>7, <1>8, <1>9, <1>10, <1>11
        DEF Next, EnrolmentStep

\* A challenge nonce enrols at most one identity, in every deployment: over
\* expiry, retries, stores that raise and restarts.
THEOREM ChallengeEnrolsOnce == Spec => []NonceEnrolsOnce
<1>1. Init => NonceIsSpent
  BY DEF Init, MandateInit, NonceIsSpent, Outstanding
<1>2. TypeOK /\ NonceIsSpent /\ [Next]_vars => NonceIsSpent'
  BY NoncePreserved
<1>3. NonceIsSpent => NonceEnrolsOnce
  BY DEF NonceIsSpent, NonceEnrolsOnce
<1> QED BY <1>1, <1>2, <1>3, TypeCorrect, PTL DEF Spec
-----------------------------------------------------------------------------
(* Where identities have been, and the sightings that led them there.      *)

\* What xs[-cap:] keeps is an end of the list, not empty unless the list is.
LEMMA KeepLastIsSuffix ==
    ASSUME NEW S, NEW seq \in Seq(S), NEW cap \in Nat \ {0}
    PROVE  \E d \in Nat :
             /\ d <= Len(seq)
             /\ Len(KeepLast(seq, cap)) = Len(seq) - d
             /\ Len(seq) > 0 => d < Len(seq)
             /\ \A i \in 1 .. Len(seq) - d : KeepLast(seq, cap)[i] = seq[i + d]
<1>1. CASE Len(seq) <= cap
  <2>1. KeepLast(seq, cap) = seq
    BY <1>1 DEF KeepLast
  <2> QED BY <2>1
<1>2. CASE ~(Len(seq) <= cap)
  <2> DEFINE d == Len(seq) - cap
  <2>1. /\ d \in Nat /\ d < Len(seq) /\ d + 1 \in 1 .. Len(seq)
        /\ Len(seq) \in Nat /\ Len(seq) - d = cap
    BY <1>2
  <2>2. KeepLast(seq, cap) = SubSeq(seq, d + 1, Len(seq))
    BY <1>2 DEF KeepLast
  <2>3. Len(SubSeq(seq, d + 1, Len(seq))) = Len(seq) - d
    BY <2>1
  <2>4. \A i \in 1 .. Len(seq) - d : SubSeq(seq, d + 1, Len(seq))[i] = seq[i + d]
    BY <2>1
  <2>5. d \in Nat /\ d <= Len(seq) /\ (Len(seq) > 0 => d < Len(seq))
    BY <2>1
  <2> HIDE DEF d
  <2>6. /\ Len(KeepLast(seq, cap)) = Len(seq) - d
        /\ \A i \in 1 .. Len(seq) - d : KeepLast(seq, cap)[i] = seq[i + d]
    BY <2>2, <2>3, <2>4
  <2> QED BY <2>5, <2>6
<1> QED BY <1>1, <1>2

\* The parts of a record that only a transfer, or the loss of the ledger,
\* changes; and the enrolment, which nothing else changes once it is there.
SameJourney(r, q) ==
    /\ r.transfers = q.transfers /\ r.consumed = q.consumed
    /\ q.enrolled # None => r.enrolled = q.enrolled

\* The ledger as a step leaves it: the record of one identity transferred,
\* every record wiped with the memory it was in, or every journey as it was.
LEMMA JourneyKinds ==
    ASSUME TypeOK, [Next]_vars
    PROVE  \/ \A j \in Tik : SameJourney(ledger'[j], ledger[j])
           \/ \E k \in Tik : \E g \in Grant : TransferAccepted(k, g) /\ UNCHANGED net
           \/ ~Durable /\ ledger' = [j \in Tik |-> Blank]
<1>m. MandateTypeOK
  BY DEF TypeOK
<1>d. \A d \in Deliverable : d[1] \in Msg
  BY DEF Deliverable, TypeOK, PartyTypeOK
<1> DEFINE Kept == \A j \in Tik : SameJourney(ledger'[j], ledger[j])
<1>0. ASSUME UNCHANGED ledger  PROVE Kept
  BY <1>0 DEF SameJourney
<1>1. CASE UNCHANGED vars
  BY <1>0, <1>1 DEF vars, mandateVars
<1>2. CASE GuestStep
  BY <1>0, <1>2 DEF GuestStep, Attest, Rehost, mandateVars
<1>3. ASSUME NEW s \in Session, ReceiveRefused(s)
      PROVE  Kept
  <2>1. \A j \in Tik : SameStanding(ledger'[j], ledger[j])
    BY <1>m, <1>d, <1>3, RefusalKeepsStanding, DeploymentAssumption DEF ReceiveRefused
  <2> QED BY <2>1 DEF SameStanding, SameJourney
<1>4. ASSUME NEW s \in Session, ReceiveAccepted(s)
      PROVE  Kept
  <2> DEFINE k == TikOf[s]
  <2>1. PICK i, pl : \/ UNCHANGED ledger
                     \/ ledger' = [ledger EXCEPT ![k].observed = i, ![k].observedPlace = pl]
    BY <1>4 DEF ReceiveAccepted, PresentAccepted
  <2>2. ASSUME ledger' = [ledger EXCEPT ![k].observed = i, ![k].observedPlace = pl]
        PROVE  Kept
    BY <1>m, <2>2, DeploymentAssumption DEF SameJourney, MandateTypeOK, Record
  <2> QED BY <1>0, <2>1, <2>2
<1>5. ASSUME NEW s \in Session, Connect(s) \/ ReceiveUnsaved(s)
      PROVE  Kept
  BY <1>0, <1>5 DEF Connect, ReceiveUnsaved, PresentUnsaved, mandateVars
<1>6. ASSUME NEW k \in Tik, NEW n \in Nonce, Enrol(k, n)
      PROVE  Kept
  <2>1. PICK e \in Evidences, permit \in Optional(permits) :
          EnrollAccepted(k, e, n, e.data.csr, OwnerOf[k], permit)
    BY <1>6 DEF Enrol
  <2>2. PICK i, pl, o : /\ i = InstanceClaim(e) /\ pl = PlaceClaim(e)
                        /\ o = IF OwnerOf[k] = None THEN ledger[k].authority ELSE OwnerOf[k]
    OBVIOUS
  <2>3. ledger' = [ledger EXCEPT ![k] =
           [ledger[k] EXCEPT !.enrolled = i, !.enrolledPlace = pl, !.authority = o]]
    BY <1>m, <2>1, <2>2 DEF EnrollAccepted, MandateTypeOK, Record
  <2>4. ledger[k].enrolled = None
    BY <2>1 DEF EnrollAccepted, Enrollable
  <2> QED BY <1>m, <2>3, <2>4 DEF SameJourney, MandateTypeOK, Record
<1>7. ASSUME NEW k \in Tik, NEW n \in Nonce,
             IssuePermit(k, n) \/ EnrolUnsaved(k, n) \/ EnrolRefused(k, n)
      PROVE  Kept
  BY <1>0, <1>7 DEF IssuePermit, EnrolUnsaved, EnrollUnsaved, EnrolRefused, EnrollRefused, mandateVars
<1>8. ASSUME NEW n \in Nonce, IssueChallenge(n) \/ EnrolTooLate(n)
      PROVE  Kept
  BY <1>0, <1>8 DEF IssueChallenge, Challenge, EnrolTooLate, EnrollExpired
<1>9. ASSUME NEW k \in Tik, Move(k)
      PROVE  \E g \in Grant : TransferAccepted(k, g) /\ UNCHANGED net
  BY <1>9 DEF Move, partyVars, TypeOK, PartyTypeOK
<1>10. ASSUME NEW k \in Tik, MoveRefused(k)
       PROVE  Kept
  BY <1>0, <1>10 DEF MoveRefused, TransferRefused
<1>11. ASSUME NEW k \in Tik, RevokeIdentity(k)
       PROVE  Kept
  BY <1>m, <1>11 DEF RevokeIdentity, Revoke, SameJourney, MandateTypeOK, Record
<1>12. ASSUME NEW k \in Tik, NEW from \in Optional(Instance), NEW to \in Instance,
              NEW signer \in Authority, IssueGrant(k, from, to, signer)
       PROVE  Kept
  BY <1>0, <1>12 DEF IssueGrant, mandateVars
<1>13. CASE ClockTick
  BY <1>0, <1>13 DEF ClockTick, Tick
<1>14. CASE Restart
  BY <1>0, <1>14 DEF Restart, MandateRestart
<1> QED BY <1>1, <1>2, <1>3, <1>4, <1>5, <1>6, <1>7, <1>8, <1>9, <1>10, <1>11, <1>12, <1>13, <1>14
        DEF Next, RelyingPartyStep, EnrolmentStep, OwnerStep

\* A journey: each entry leaves where the one before arrived, and the last
\* arrived at home.
Leads(t, home) ==
    /\ \A i \in 1 .. Len(t) - 1 : t[i].to = t[i + 1].from
    /\ t # <<>> => t[Len(t)].to = home

\* The same for the transfers on record.
LEMMA TransfersKeptAreSuffix ==
    ASSUME NEW u \in Seq(Transfer), NEW cap \in Nat \ {0}
    PROVE  \E d \in Nat :
             /\ d <= Len(u)
             /\ Len(KeepLast(u, cap)) = Len(u) - d
             /\ Len(u) > 0 => d < Len(u)
             /\ \A i \in 1 .. Len(u) - d : KeepLast(u, cap)[i] = u[i + d]
BY KeepLastIsSuffix, Zenon

\* One more move, the list cut to its last entries, is a journey still.
LEMMA LeadsOn ==
    ASSUME NEW t \in Seq(Transfer), NEW home, Leads(t, home),
           NEW e \in Transfer, e.from = home, NEW cap \in Nat \ {0}
    PROVE  Leads(KeepLast(Append(t, e), cap), e.to)
<1> DEFINE u == Append(t, e)
<1>1. /\ u \in Seq(Transfer) /\ Len(t) \in Nat /\ Len(u) = Len(t) + 1
      /\ u[Len(u)] = e
      /\ \A i \in 1 .. Len(t) : u[i] = t[i]
  OBVIOUS
<1>2. \A i \in 1 .. Len(u) - 1 : u[i].to = u[i + 1].from
  <2> SUFFICES ASSUME NEW i \in 1 .. Len(t)  PROVE u[i].to = u[i + 1].from
    BY <1>1
  <2>1. CASE i = Len(t)
    <3>1. t # <<>> /\ u[i] = t[Len(t)] /\ u[i + 1] = e
      BY <1>1, <2>1
    <3> QED BY <3>1 DEF Leads
  <2>2. CASE i # Len(t)
    <3>1. i \in 1 .. Len(t) - 1 /\ u[i] = t[i] /\ u[i + 1] = t[i + 1]
      BY <1>1, <2>2
    <3> QED BY <3>1 DEF Leads
  <2> QED BY <2>1, <2>2
<1> HIDE DEF u
<1>3. PICK d \in Nat :
        /\ d <= Len(u)
        /\ Len(KeepLast(u, cap)) = Len(u) - d
        /\ Len(u) > 0 => d < Len(u)
        /\ \A i \in 1 .. Len(u) - d : KeepLast(u, cap)[i] = u[i + d]
  <2>1. u \in Seq(Transfer)
    BY <1>1
  <2> QED BY <2>1, TransfersKeptAreSuffix, Zenon
<1> DEFINE v == KeepLast(u, cap)
<1>4. d < Len(u) /\ Len(v) = Len(u) - d /\ Len(v) \in Nat
  BY <1>1, <1>3
<1>5. \A i \in 1 .. Len(v) - 1 : v[i].to = v[i + 1].from
  <2> SUFFICES ASSUME NEW i \in 1 .. Len(v) - 1  PROVE v[i].to = v[i + 1].from
    OBVIOUS
  <2>1. v[i] = u[i + d] /\ v[i + 1] = u[i + d + 1] /\ i + d \in 1 .. Len(u) - 1
    BY <1>1, <1>3, <1>4
  <2> QED BY <1>2, <2>1
<1>6. v[Len(v)] = e
  BY <1>1, <1>3, <1>4
<1> QED BY <1>5, <1>6 DEF Leads, u
\* Recorded journeys lead home, in every step.
LEMMA JourneyPreserved ==
    ASSUME TypeOK, TransfersLeadHome, [Next]_vars
    PROVE  TransfersLeadHome'
<1>m. ledger \in [Tik -> Record]
  BY DEF TypeOK, MandateTypeOK
<1>l. \A j \in Tik : Leads(ledger[j].transfers, ledger[j].enrolled)
  BY DEF TransfersLeadHome, Leads
<1>t. \A j \in Tik : ledger[j].transfers \in Seq(Transfer)
  BY <1>m DEF Record
<1> SUFFICES ASSUME NEW j \in Tik
             PROVE  Leads(ledger'[j].transfers, ledger'[j].enrolled)
  BY DEF TransfersLeadHome, Leads
<1>1. CASE \A i \in Tik : SameJourney(ledger'[i], ledger[i])
  <2>1. CASE ledger[j].transfers = <<>>
    BY <1>1, <2>1 DEF SameJourney, Leads
  <2>2. CASE ledger[j].transfers # <<>>
    <3>1. ledger[j].transfers[Len(ledger[j].transfers)] \in Transfer
      BY <1>t, <2>2
    <3>2. ledger[j].enrolled # None
      BY <1>l, <2>2, <3>1, PlatformAssumption DEF Leads, Transfer
    <3> QED BY <1>1, <1>l, <3>2 DEF SameJourney
  <2> QED BY <2>1, <2>2
<1>2. ASSUME NEW k \in Tik, NEW g \in Grant, TransferAccepted(k, g)
      PROVE  Leads(ledger'[j].transfers, ledger'[j].enrolled)
  <2> DEFINE moved == KeepLast(Append(ledger[k].transfers, Entry(k, g)), TransferCap)
             spent == KeepLast(Append(ledger[k].consumed, g.nonce), ConsumedCap)
  <2>1. PICK w \in Destinations(k, g.to) :
          ledger' = [ledger EXCEPT
             ![k].enrolled = g.to, ![k].enrolledPlace = w.place,
             ![k].observed = None, ![k].observedPlace = None,
             ![k].transfers = moved, ![k].consumed = spent]
    BY <1>2 DEF TransferAccepted
  <2>2. CASE j # k
    BY <1>l, <1>m, <2>1, <2>2
  <2>3. CASE j = k
    <3>1. ledger'[k].transfers = moved /\ ledger'[k].enrolled = g.to
      BY <1>m, <2>1 DEF Record
    <3>2. Entry(k, g) \in Transfer /\ Entry(k, g).from = ledger[k].enrolled
          /\ Entry(k, g).to = g.to
      BY <1>2, <1>m DEF TransferAccepted, Transferable, Entry, Record, Transfer, Grant
    <3>3. Leads(moved, Entry(k, g).to)
      BY <1>l, <1>t, <3>2, LeadsOn, MandateAssumption
    <3> QED BY <2>3, <3>1, <3>2, <3>3
  <2> QED BY <2>2, <2>3
<1>3. CASE ledger' = [i \in Tik |-> Blank]
  BY <1>3 DEF Blank, Leads
<1> QED BY <1>1, <1>2, <1>3, JourneyKinds

\* The transfers on record lead, one from where the last arrived, to where
\* the identity is enrolled, for any caps and any order of grants.
THEOREM JourneysLeadHome == Spec => []TransfersLeadHome
<1>1. Init => TransfersLeadHome
  <2>1. Init => \A k \in Tik : ledger[k].transfers = <<>>
    <3>1. Init => ledger = [k \in Tik |-> Blank]
      BY DEF Init, MandateInit
    <3>2. Blank.transfers = <<>>
      BY DEF Blank
    <3> QED BY <3>1, <3>2
  <2>2. \A i \in 1 .. Len(<<>>) - 1 : FALSE
    OBVIOUS
  <2> QED BY <2>1, <2>2 DEF TransfersLeadHome
<1>2. TypeOK /\ TransfersLeadHome /\ [Next]_vars => TransfersLeadHome'
  BY JourneyPreserved
<1> QED BY <1>1, <1>2, TypeCorrect, PTL DEF Spec
-----------------------------------------------------------------------------
(* What the ledger remembers.                                              *)

\* A list with room for one more keeps what it has.
LEMMA RoomKeepsList ==
    ASSUME NEW S, NEW d \in Seq(S), NEW why \in S, NEW cap \in Nat, Len(d) < cap
    PROVE  SubSeq(KeepLast(Append(d, why), cap), 1, Len(d)) = d
<1>1. Len(Append(d, why)) = Len(d) + 1 /\ Len(d) \in Nat
  OBVIOUS
<1>2. KeepLast(Append(d, why), cap) = Append(d, why)
  BY <1>1 DEF KeepLast
<1>3. SubSeq(Append(d, why), 1, Len(d)) = d
  OBVIOUS
<1> QED BY <1>2, <1>3

\* A list left alone keeps what it has.
LEMMA WholeList ==
    ASSUME NEW S, NEW d \in Seq(S)
    PROVE  SubSeq(d, 1, Len(d)) = d
OBVIOUS

\* What is remembered of one identity's record.
Remembered(r, q) ==
    /\ r.revoked => q.revoked
    /\ Len(r.disputes) < DisputeCap
         => SubSeq(q.disputes, 1, Len(r.disputes)) = r.disputes
    /\ r.enrolled # None => q.enrolled = r.enrolled

\* A refusal adds at most one dispute to a record.
LEMMA RefusalRemembers ==
    ASSUME MandateTypeOK, NEW k \in Tik, NEW s \in Session, NEW m \in Msg,
           NEW head, PresentRefused(k, s, m, head, None), NEW j \in Tik
    PROVE  Remembered(ledger[j], ledger'[j])
<1>a. ledger \in [Tik -> Record] /\ DisputeCap \in Nat \ {0}
  BY MandateAssumption DEF MandateTypeOK
<1>b. ledger[j].disputes \in Seq(Dispute)
  BY <1>a DEF Record
<1>s. SameStanding(ledger'[j], ledger[j])
  BY RefusalKeepsStanding
<1>0. CASE ledger'[j].disputes = ledger[j].disputes
  BY <1>0, <1>b, <1>s, WholeList DEF Remembered, SameStanding
<1>1. ASSUME NEW why \in Dispute,
             ledger'[j].disputes = KeepLast(Append(ledger[j].disputes, why), DisputeCap)
      PROVE  Remembered(ledger[j], ledger'[j])
  BY <1>1, <1>a, <1>b, <1>s, RoomKeepsList DEF Remembered, SameStanding
<1>2. ASSUME NEW why \in Dispute, Disputed(k, why)
      PROVE  Remembered(ledger[j], ledger'[j])
  <2>1. \/ ledger'[j].disputes = ledger[j].disputes
        \/ ledger'[j].disputes = KeepLast(Append(ledger[j].disputes, why), DisputeCap)
    BY <1>a, <1>2 DEF Disputed, Record
  <2> QED BY <1>0, <1>1, <2>1
<1>3. ASSUME NEW why \in Dispute, Sighted(k, m, why)
      PROVE  Remembered(ledger[j], ledger'[j])
  <2>1. \/ ledger'[j].disputes = ledger[j].disputes
        \/ ledger'[j].disputes = KeepLast(Append(ledger[j].disputes, why), DisputeCap)
    BY <1>a, <1>3 DEF Sighted, Record
  <2> QED BY <1>0, <1>1, <2>1
<1>4. CASE PresentDeclined(k, s, m, head, None)
  BY <1>4, <1>0 DEF PresentDeclined
<1>5. CASE PresentImpostor(k, m, head, None)
  BY <1>5, <1>3 DEF PresentImpostor, Dispute
<1>6. CASE PresentDisplaced(k, m, head, None)
  BY <1>6, <1>2 DEF PresentDisplaced, Dispute
<1>7. CASE PresentContending(k, m, head, None)
  BY <1>7, <1>3 DEF PresentContending, Dispute
<1>8. CASE PresentMisplaced(k, s, m, head, None)
  BY <1>8, <1>2 DEF PresentMisplaced, Dispute
<1>9. CASE PresentUnchained(k, s, m, head, None)
  BY <1>9, <1>2 DEF PresentUnchained, Dispute
<1> QED BY <1>4, <1>5, <1>6, <1>7, <1>8, <1>9 DEF PresentRefused

\* What LedgerRemembers says of one step.
StepRemembers ==
    Durable => \A k \in Tik :
        /\ ledger[k].revoked => ledger'[k].revoked
        /\ Len(ledger[k].disputes) < DisputeCap
             => SubSeq(ledger'[k].disputes, 1, Len(ledger[k].disputes)) = ledger[k].disputes
        /\ ledger[k].enrolled # None => ledger'[k].enrolled # None
        /\ (/\ ledger[k].enrolled # None
            /\ ledger'[k].enrolled # ledger[k].enrolled)
               => \E g \in grants : moves'[g.nonce] = moves[g.nonce] + 1

\* Every step of a deployment with a durable store remembers.
LEMMA EveryStepRemembers ==
    ASSUME TypeOK, [Next]_vars
    PROVE  StepRemembers
<1>m. MandateTypeOK /\ ledger \in [Tik -> Record]
  BY DEF TypeOK, MandateTypeOK
<1>b. \A j \in Tik : ledger[j].disputes \in Seq(Dispute)
  BY <1>m DEF Record
<1>d. \A d \in Deliverable : d[1] \in Msg
  BY DEF Deliverable, TypeOK, PartyTypeOK
<1> DEFINE Kept == \A j \in Tik : Remembered(ledger[j], ledger'[j])
<1>k. Kept => StepRemembers
  BY DEF Remembered, StepRemembers
<1>0. ASSUME UNCHANGED ledger  PROVE Kept
  BY <1>0, <1>b, WholeList DEF Remembered
<1>1. CASE UNCHANGED vars
  BY <1>k, <1>0, <1>1 DEF vars, mandateVars
<1>2. CASE GuestStep
  BY <1>k, <1>0, <1>2 DEF GuestStep, Attest, Rehost, mandateVars
<1>3. ASSUME NEW s \in Session, ReceiveRefused(s)
      PROVE  StepRemembers
  BY <1>k, <1>m, <1>d, <1>3, RefusalRemembers, DeploymentAssumption DEF ReceiveRefused
<1>4. ASSUME NEW s \in Session, ReceiveAccepted(s)
      PROVE  StepRemembers
  <2> DEFINE k == TikOf[s]
  <2>1. PICK i, pl : \/ UNCHANGED ledger
                     \/ ledger' = [ledger EXCEPT ![k].observed = i, ![k].observedPlace = pl]
    BY <1>4 DEF ReceiveAccepted, PresentAccepted
  <2>2. ASSUME ledger' = [ledger EXCEPT ![k].observed = i, ![k].observedPlace = pl]
        PROVE  Kept
    <3>1. \A j \in Tik : /\ ledger'[j].revoked = ledger[j].revoked
                         /\ ledger'[j].disputes = ledger[j].disputes
                         /\ ledger'[j].enrolled = ledger[j].enrolled
      BY <1>m, <2>2, DeploymentAssumption DEF Record
    <3> QED BY <3>1, <1>b, WholeList DEF Remembered
  <2> QED BY <1>k, <1>0, <2>1, <2>2
<1>5. ASSUME NEW s \in Session, Connect(s) \/ ReceiveUnsaved(s)
      PROVE  StepRemembers
  BY <1>k, <1>0, <1>5 DEF Connect, ReceiveUnsaved, PresentUnsaved, mandateVars
<1>6. ASSUME NEW k \in Tik, NEW n \in Nonce, Enrol(k, n)
      PROVE  StepRemembers
  <2>1. PICK e \in Evidences, permit \in Optional(permits) :
          EnrollAccepted(k, e, n, e.data.csr, OwnerOf[k], permit)
    BY <1>6 DEF Enrol
  <2>2. PICK i, pl, o : /\ i = InstanceClaim(e) /\ pl = PlaceClaim(e)
                        /\ o = IF OwnerOf[k] = None THEN ledger[k].authority ELSE OwnerOf[k]
    OBVIOUS
  <2>3. ledger' = [ledger EXCEPT ![k] =
           [ledger[k] EXCEPT !.enrolled = i, !.enrolledPlace = pl, !.authority = o]]
    BY <1>m, <2>1, <2>2 DEF EnrollAccepted, Record
  <2>4. ledger[k].enrolled = None
    BY <2>1 DEF EnrollAccepted, Enrollable
  <2>5. \A j \in Tik : /\ ledger'[j].revoked = ledger[j].revoked
                       /\ ledger'[j].disputes = ledger[j].disputes
                       /\ ledger[j].enrolled # None => ledger'[j].enrolled = ledger[j].enrolled
    BY <1>m, <2>3, <2>4 DEF Record
  <2> QED BY <1>k, <1>b, <2>5, WholeList DEF Remembered
<1>7. ASSUME NEW k \in Tik, NEW n \in Nonce,
             IssuePermit(k, n) \/ EnrolUnsaved(k, n) \/ EnrolRefused(k, n)
      PROVE  StepRemembers
  BY <1>k, <1>0, <1>7
     DEF IssuePermit, EnrolUnsaved, EnrollUnsaved, EnrolRefused, EnrollRefused, mandateVars
<1>8. ASSUME NEW n \in Nonce, IssueChallenge(n) \/ EnrolTooLate(n)
      PROVE  StepRemembers
  BY <1>k, <1>0, <1>8 DEF IssueChallenge, Challenge, EnrolTooLate, EnrollExpired
<1>9. ASSUME NEW k \in Tik, Move(k)
      PROVE  StepRemembers
  <2>1. PICK g \in grants :
          TransferAccepted(k, g) /\ moves' = [moves EXCEPT ![g.nonce] = moves[g.nonce] + 1]
    BY <1>9 DEF Move
  <2>2. g \in Grant
    BY DEF TypeOK, PartyTypeOK
  <2>3. moves'[g.nonce] = moves[g.nonce] + 1
    BY <2>1, <2>2 DEF Grant, TypeOK, HistoryTypeOK
  <2> DEFINE moved == KeepLast(Append(ledger[k].transfers, Entry(k, g)), TransferCap)
             spent == KeepLast(Append(ledger[k].consumed, g.nonce), ConsumedCap)
  <2>4. PICK w \in Destinations(k, g.to) :
          ledger' = [ledger EXCEPT
             ![k].enrolled = g.to, ![k].enrolledPlace = w.place,
             ![k].observed = None, ![k].observedPlace = None,
             ![k].transfers = moved, ![k].consumed = spent]
    BY <2>1 DEF TransferAccepted
  <2>5. \A j \in Tik : /\ ledger'[j].revoked = ledger[j].revoked
                       /\ ledger'[j].disputes = ledger[j].disputes
                       /\ ledger'[j].enrolled = IF j = k THEN g.to ELSE ledger[j].enrolled
    BY <1>m, <2>4 DEF Record
  <2>6. g.to # None
    BY <2>1 DEF TransferAccepted, Transferable
  <2> QED BY <1>b, <2>3, <2>5, <2>6, WholeList DEF StepRemembers
<1>10. ASSUME NEW k \in Tik, MoveRefused(k)
       PROVE  StepRemembers
  BY <1>k, <1>0, <1>10 DEF MoveRefused, TransferRefused
<1>11. ASSUME NEW k \in Tik, RevokeIdentity(k)
       PROVE  StepRemembers
  <2>1. \A j \in Tik : /\ ledger[j].revoked => ledger'[j].revoked
                       /\ ledger'[j].disputes = ledger[j].disputes
                       /\ ledger'[j].enrolled = ledger[j].enrolled
    BY <1>m, <1>11 DEF RevokeIdentity, Revoke, Record
  <2> QED BY <1>k, <1>b, <2>1, WholeList DEF Remembered
<1>12. ASSUME NEW k \in Tik, NEW from \in Optional(Instance), NEW to \in Instance,
              NEW signer \in Authority, IssueGrant(k, from, to, signer)
       PROVE  StepRemembers
  BY <1>k, <1>0, <1>12 DEF IssueGrant, mandateVars
<1>13. CASE ClockTick
  BY <1>k, <1>0, <1>13 DEF ClockTick, Tick
<1>14. CASE Restart
  BY <1>k, <1>0, <1>14 DEF Restart, MandateRestart, StepRemembers
<1> QED BY <1>1, <1>2, <1>3, <1>4, <1>5, <1>6, <1>7, <1>8, <1>9, <1>10, <1>11, <1>12, <1>13, <1>14
        DEF Next, RelyingPartyStep, EnrolmentStep, OwnerStep

\* A durable ledger forgets no revocation, no dispute it has room for, and no
\* enrolment except to a grant, in every step of every deployment.
THEOREM DurableLedgerRemembers == Spec => LedgerRemembers
<1>1. TypeOK /\ [Next]_vars => [StepRemembers]_vars
  BY EveryStepRemembers
<1>2. [][StepRemembers]_vars <=> LedgerRemembers
  BY DEF StepRemembers, LedgerRemembers
<1> QED BY <1>1, <1>2, TypeCorrect, PTL DEF Spec
-----------------------------------------------------------------------------
(* An identity moves only to hardware that has shown itself.               *)

\* Hardware that claims this instance has sent evidence.
HasShown(i) == \E m \in net : InstanceClaim(m.evidence) = i

\* Every instance on a record's list of sightings has shown itself.
SightingsWereShown ==
    \A k \in Tik : \A w \in ledger[k].witnessed : HasShown(w.instance)

\* What a step may add to the sightings of a record.
SightingsGrow(j) ==
    \A w \in ledger'[j].witnessed : w \in ledger[j].witnessed \/ HasShown(w.instance)

\* What was sent stays in the network.
LEMMA SentStays ==
    ASSUME [Next]_vars
    PROVE  net \subseteq net'
<1>1. CASE UNCHANGED vars
  BY <1>1 DEF vars, partyVars
<1>2. CASE GuestStep
  BY <1>2 DEF GuestStep, Attest, Rehost
<1>3. CASE RelyingPartyStep
  BY <1>3 DEF RelyingPartyStep, Connect, ReceiveAccepted, ReceiveUnsaved, ReceiveRefused, partyVars
<1>4. CASE EnrolmentStep
  BY <1>4 DEF EnrolmentStep, IssueChallenge, EnrolTooLate, IssuePermit, Enrol, EnrolUnsaved,
     EnrolRefused, partyVars
<1>5. CASE OwnerStep
  BY <1>5 DEF OwnerStep, IssueGrant, Move, MoveRefused, RevokeIdentity, partyVars
<1>6. CASE ClockTick \/ Restart
  BY <1>6 DEF ClockTick, Restart, partyVars
<1> QED BY <1>1, <1>2, <1>3, <1>4, <1>5, <1>6 DEF Next

\* What _witness leaves was there before, or is of the evidence at hand.
LEMMA WitnessingShows ==
    ASSUME NEW k \in Tik, NEW m \in net, NEW seen \in Witnessing(k, m.evidence),
           NEW w \in seen
    PROVE  w \in ledger[k].witnessed \/ HasShown(w.instance)
<1> DEFINE new == [instance |-> InstanceClaim(m.evidence), place |-> PlaceClaim(m.evidence),
                   at |-> now]
<1>1. w \in ledger[k].witnessed \/ w = new
  BY DEF Witnessing
<1>2. new.instance = InstanceClaim(m.evidence)
  OBVIOUS
<1> QED BY <1>1, <1>2 DEF HasShown

\* A refused presentation adds no sighting but of the evidence presented.
LEMMA RefusalSights ==
    ASSUME MandateTypeOK, NEW k \in Tik, NEW s \in Session, NEW m \in net,
           NEW head, PresentRefused(k, s, m, head, None), NEW j \in Tik
    PROVE  SightingsGrow(j)
<1>a. ledger \in [Tik -> Record]
  BY DEF MandateTypeOK
<1>0. CASE ledger'[j].witnessed = ledger[j].witnessed
  BY <1>0 DEF SightingsGrow
<1>1. ASSUME NEW why, Disputed(k, why)
      PROVE  SightingsGrow(j)
  BY <1>a, <1>0, <1>1 DEF Disputed, Record
<1>2. ASSUME NEW why, Sighted(k, m, why)
      PROVE  SightingsGrow(j)
  <2>1. PICK seen \in Witnessing(k, m.evidence) :
          ledger' = [ledger EXCEPT ![k].disputes = KeepLast(Append(@, why), DisputeCap),
                                   ![k].witnessed = seen]
    BY <1>2 DEF Sighted
  <2>2. ledger'[j].witnessed = IF j = k THEN seen ELSE ledger[j].witnessed
    BY <1>a, <2>1 DEF Record
  <2> QED BY <2>2, WitnessingShows DEF SightingsGrow
<1>3. CASE PresentDeclined(k, s, m, head, None)
  BY <1>3, <1>0 DEF PresentDeclined
<1>4. CASE PresentImpostor(k, m, head, None)
  BY <1>4, <1>2 DEF PresentImpostor
<1>5. CASE PresentDisplaced(k, m, head, None)
  BY <1>5, <1>1 DEF PresentDisplaced
<1>6. CASE PresentContending(k, m, head, None)
  BY <1>6, <1>2 DEF PresentContending
<1>7. CASE PresentMisplaced(k, s, m, head, None)
  BY <1>7, <1>1 DEF PresentMisplaced
<1>8. CASE PresentUnchained(k, s, m, head, None)
  BY <1>8, <1>1 DEF PresentUnchained
<1> QED BY <1>3, <1>4, <1>5, <1>6, <1>7, <1>8 DEF PresentRefused

\* A step adds a sighting only of evidence that was sent.
LEMMA EveryStepSights ==
    ASSUME TypeOK, [Next]_vars, NEW j \in Tik
    PROVE  SightingsGrow(j)
<1>m. MandateTypeOK /\ ledger \in [Tik -> Record]
  BY DEF TypeOK, MandateTypeOK
<1>0. ASSUME ledger'[j].witnessed = ledger[j].witnessed
      PROVE  SightingsGrow(j)
  BY <1>0 DEF SightingsGrow
<1>1. CASE UNCHANGED vars
  BY <1>0, <1>1 DEF vars, mandateVars
<1>2. CASE GuestStep
  BY <1>0, <1>2 DEF GuestStep, Attest, Rehost, mandateVars
<1>3. ASSUME NEW s \in Session, ReceiveRefused(s)
      PROVE  SightingsGrow(j)
  <2>1. PICK d \in Deliverable : PresentRefused(TikOf[s], s, d[1], d[2], None)
    BY <1>3 DEF ReceiveRefused
  <2>2. d[1] \in net
    BY DEF Deliverable
  <2> QED BY <1>m, <2>1, <2>2, RefusalSights, DeploymentAssumption
<1>4. ASSUME NEW s \in Session, ReceiveAccepted(s)
      PROVE  SightingsGrow(j)
  <2> DEFINE k == TikOf[s]
  <2>1. PICK i, pl : \/ UNCHANGED ledger
                     \/ ledger' = [ledger EXCEPT ![k].observed = i, ![k].observedPlace = pl]
    BY <1>4 DEF ReceiveAccepted, PresentAccepted
  <2>2. ASSUME ledger' = [ledger EXCEPT ![k].observed = i, ![k].observedPlace = pl]
        PROVE  ledger'[j].witnessed = ledger[j].witnessed
    BY <1>m, <2>2, DeploymentAssumption DEF Record
  <2> QED BY <1>0, <2>1, <2>2
<1>5. ASSUME NEW s \in Session, Connect(s) \/ ReceiveUnsaved(s)
      PROVE  SightingsGrow(j)
  BY <1>0, <1>5 DEF Connect, ReceiveUnsaved, PresentUnsaved, mandateVars
<1>6. ASSUME NEW k \in Tik, NEW n \in Nonce, Enrol(k, n)
      PROVE  SightingsGrow(j)
  <2>1. PICK i, pl, o : ledger' = [ledger EXCEPT
           ![k].enrolled = i, ![k].enrolledPlace = pl, ![k].authority = o]
    BY <1>6 DEF Enrol, EnrollAccepted
  <2>2. ledger'[j].witnessed = ledger[j].witnessed
    BY <1>m, <2>1 DEF Record
  <2> QED BY <1>0, <2>2
<1>7. ASSUME NEW k \in Tik, NEW n \in Nonce,
             IssuePermit(k, n) \/ EnrolUnsaved(k, n) \/ EnrolRefused(k, n)
      PROVE  SightingsGrow(j)
  BY <1>0, <1>7
     DEF IssuePermit, EnrolUnsaved, EnrollUnsaved, EnrolRefused, EnrollRefused, mandateVars
<1>8. ASSUME NEW n \in Nonce, IssueChallenge(n) \/ EnrolTooLate(n)
      PROVE  SightingsGrow(j)
  BY <1>0, <1>8 DEF IssueChallenge, Challenge, EnrolTooLate, EnrollExpired
<1>9. ASSUME NEW k \in Tik, Move(k)
      PROVE  SightingsGrow(j)
  <2>1. PICK g \in grants : TransferAccepted(k, g)
    BY <1>9 DEF Move
  <2> DEFINE moved == KeepLast(Append(ledger[k].transfers, Entry(k, g)), TransferCap)
             spent == KeepLast(Append(ledger[k].consumed, g.nonce), ConsumedCap)
  <2>2. PICK w \in Destinations(k, g.to) :
          ledger' = [ledger EXCEPT
             ![k].enrolled = g.to, ![k].enrolledPlace = w.place,
             ![k].observed = None, ![k].observedPlace = None,
             ![k].transfers = moved, ![k].consumed = spent]
    BY <2>1 DEF TransferAccepted
  <2>3. ledger'[j].witnessed = ledger[j].witnessed
    BY <1>m, <2>2 DEF Record
  <2> QED BY <1>0, <2>3
<1>10. ASSUME NEW k \in Tik, MoveRefused(k)
       PROVE  SightingsGrow(j)
  BY <1>0, <1>10 DEF MoveRefused, TransferRefused
<1>11. ASSUME NEW k \in Tik, RevokeIdentity(k)
       PROVE  SightingsGrow(j)
  <2>1. ledger'[j].witnessed = ledger[j].witnessed
    BY <1>m, <1>11 DEF RevokeIdentity, Revoke, Record
  <2> QED BY <1>0, <2>1
<1>12. ASSUME NEW k \in Tik, NEW from \in Optional(Instance), NEW to \in Instance,
              NEW signer \in Authority, IssueGrant(k, from, to, signer)
       PROVE  SightingsGrow(j)
  BY <1>0, <1>12 DEF IssueGrant, mandateVars
<1>13. CASE ClockTick
  BY <1>0, <1>13 DEF ClockTick, Tick
<1>14. CASE Restart
  BY <1>14 DEF Restart, MandateRestart, SightingsGrow, Blank
<1> QED BY <1>1, <1>2, <1>3, <1>4, <1>5, <1>6, <1>7, <1>8, <1>9, <1>10, <1>11, <1>12, <1>13, <1>14
        DEF Next, RelyingPartyStep, EnrolmentStep, OwnerStep

\* A list cut to its last entries has no entries but those it had.
LEMMA MovesKept ==
    ASSUME NEW t \in Seq(Transfer), NEW e \in Transfer, NEW cap \in Nat \ {0},
           NEW i \in DOMAIN KeepLast(Append(t, e), cap)
    PROVE  \/ KeepLast(Append(t, e), cap)[i] = e
           \/ \E n \in DOMAIN t : KeepLast(Append(t, e), cap)[i] = t[n]
<1> DEFINE u == Append(t, e)
           v == KeepLast(u, cap)
<1>1. /\ u \in Seq(Transfer) /\ Len(t) \in Nat /\ Len(u) = Len(t) + 1
      /\ u[Len(t) + 1] = e
      /\ \A n \in 1 .. Len(t) : u[n] = t[n]
  OBVIOUS
<1> HIDE DEF u
<1>2. PICK d \in Nat : /\ d <= Len(u) /\ Len(v) = Len(u) - d
                       /\ \A n \in 1 .. Len(u) - d : v[n] = u[n + d]
  <2>1. u \in Seq(Transfer)
    BY <1>1
  <2> QED BY <2>1, TransfersKeptAreSuffix, Zenon
<1>3. v \in Seq(Transfer)
  BY <1>1, KeepLastType
<1> HIDE DEF v
<1>4. i \in 1 .. Len(v)
  BY <1>3 DEF v, u
<1>5. v[i] = u[i + d] /\ i + d \in 1 .. Len(t) + 1
  BY <1>1, <1>2, <1>4
<1>6. v[i] = e \/ \E n \in 1 .. Len(t) : v[i] = t[n]
  BY <1>1, <1>5
<1> QED BY <1>6 DEF v, u

\* Sightings and recorded moves name hardware that has shown itself, still.
LEMMA MovesPreserved ==
    ASSUME TypeOK, SightingsWereShown, MovedOnlyToWitnessed, [Next]_vars
    PROVE  SightingsWereShown' /\ MovedOnlyToWitnessed'
<1>m. ledger \in [Tik -> Record]
  BY DEF TypeOK, MandateTypeOK
<1>s. \A i : HasShown(i) => HasShown(i)'
  BY SentStays DEF HasShown
<1>1. SightingsWereShown'
  BY <1>s, EveryStepSights DEF SightingsWereShown, SightingsGrow
<1>2. \A k \in Tik : \A i \in DOMAIN ledger[k].transfers : HasShown(ledger[k].transfers[i].to)
  BY DEF MovedOnlyToWitnessed, HasShown
<1>3. ASSUME NEW j \in Tik, NEW i \in DOMAIN ledger'[j].transfers
      PROVE  HasShown(ledger'[j].transfers[i].to)
  <2>1. CASE ledger'[j].transfers = ledger[j].transfers
    BY <1>2, <2>1
  <2>2. ASSUME NEW k \in Tik, NEW g \in Grant, TransferAccepted(k, g)
        PROVE  HasShown(ledger'[j].transfers[i].to)
    <3> DEFINE moved == KeepLast(Append(ledger[k].transfers, Entry(k, g)), TransferCap)
               spent == KeepLast(Append(ledger[k].consumed, g.nonce), ConsumedCap)
    <3>1. PICK w \in Destinations(k, g.to) :
            ledger' = [ledger EXCEPT
               ![k].enrolled = g.to, ![k].enrolledPlace = w.place,
               ![k].observed = None, ![k].observedPlace = None,
               ![k].transfers = moved, ![k].consumed = spent]
      BY <2>2 DEF TransferAccepted
    <3>2. HasShown(g.to)
      BY <3>1 DEF Destinations, SightingsWereShown
    <3>3. ledger'[j].transfers = IF j = k THEN moved ELSE ledger[j].transfers
      BY <1>m, <3>1 DEF Record
    <3>4. CASE j # k
      BY <2>1, <3>3, <3>4
    <3>5. CASE j = k
      <4>1. Entry(k, g) \in Transfer /\ Entry(k, g).to = g.to
        BY <2>2, <1>m DEF TransferAccepted, Transferable, Entry, Record, Transfer, Grant
      <4>2. ledger[k].transfers \in Seq(Transfer)
        BY <1>m DEF Record
      <4>3. i \in DOMAIN moved /\ ledger'[j].transfers[i] = moved[i]
        BY <3>3, <3>5
      <4> HIDE DEF moved
      <4>4. moved[i] = Entry(k, g) \/ \E n \in DOMAIN ledger[k].transfers :
                                         moved[i] = ledger[k].transfers[n]
        BY <4>1, <4>2, <4>3, MovesKept, MandateAssumption DEF moved
      <4> QED BY <1>2, <3>2, <4>1, <4>3, <4>4
    <3> QED BY <3>4, <3>5
  <2>3. CASE ledger' = [k \in Tik |-> Blank]
    <3>1. ledger'[j].transfers = <<>>
      BY <2>3 DEF Blank
    <3> QED BY <3>1
  <2> QED BY <2>1, <2>2, <2>3, JourneyKinds DEF SameJourney
<1>4. MovedOnlyToWitnessed'
  BY <1>3, SentStays DEF MovedOnlyToWitnessed, HasShown
<1> QED BY <1>1, <1>4

\* An identity on record as moved was moved to an instance whose own hardware
\* had sent evidence: a grant's word alone moves nothing to where nobody is.
THEOREM MovesAreWitnessed == Spec => []MovedOnlyToWitnessed
<1>1. Init => SightingsWereShown /\ MovedOnlyToWitnessed
  <2>1. Init => \A k \in Tik : ledger[k].transfers = <<>> /\ ledger[k].witnessed = {}
    <3>1. Init => ledger = [k \in Tik |-> Blank]
      BY DEF Init, MandateInit
    <3>2. Blank.transfers = <<>> /\ Blank.witnessed = {}
      BY DEF Blank
    <3> QED BY <3>1, <3>2
  <2>2. DOMAIN <<>> = {}
    OBVIOUS
  <2> QED BY <2>1, <2>2 DEF SightingsWereShown, MovedOnlyToWitnessed
<1>2. /\ TypeOK /\ SightingsWereShown /\ MovedOnlyToWitnessed /\ [Next]_vars
      => (SightingsWereShown /\ MovedOnlyToWitnessed)'
  BY MovesPreserved
<1> QED BY <1>1, <1>2, TypeCorrect, PTL DEF Spec

-----------------------------------------------------------------------------
(* A grant moves an identity once, while the list of those consumed has    *)
(* room for one more.                                                      *)

\* No list of consumed grants has been filled to its cap (protocol.py 470).
HasRoom == \A k \in Tik : Len(ledger[k].consumed) < ConsumedCap

\* A nonce is that of one grant; a grant that has moved an identity is among those
\* its record has consumed.
GrantsAreConsumed ==
    /\ \A g, h \in grants : g.nonce = h.nonce => g = h
    /\ \A n \in GrantNonce :
         /\ moves[n] \in {0, 1}
         /\ moves[n] = 1 => \E g \in grants : g.nonce = n /\ n \in Range(ledger[g.tik].consumed)

\* Room for one more: nothing is cut from the list, the new entry is on it.
LEMMA RoomForOne ==
    ASSUME NEW S, NEW seq \in Seq(S), NEW n \in S, NEW cap \in Nat, Len(seq) < cap
    PROVE  Range(KeepLast(Append(seq, n), cap)) = Range(seq) \cup {n}
<1>1. Len(Append(seq, n)) = Len(seq) + 1 /\ Len(seq) \in Nat
  OBVIOUS
<1>2. KeepLast(Append(seq, n), cap) = Append(seq, n)
  BY <1>1 DEF KeepLast
<1>3. /\ DOMAIN Append(seq, n) = 1 .. Len(seq) + 1
      /\ DOMAIN seq = 1 .. Len(seq)
      /\ \A i \in 1 .. Len(seq) : Append(seq, n)[i] = seq[i]
      /\ Append(seq, n)[Len(seq) + 1] = n
  OBVIOUS
<1>4. 1 .. Len(seq) + 1 = (1 .. Len(seq)) \cup {Len(seq) + 1}
  BY <1>1
<1>5. Range(Append(seq, n)) = Range(seq) \cup {n}
  BY <1>3, <1>4 DEF Range
<1> QED BY <1>2, <1>5

\* What a transfer leaves on the lists of consumed grants.
LEMMA TransferConsumes ==
    ASSUME TypeOK, HasRoom, NEW k \in Tik, NEW g \in Grant, TransferAccepted(k, g)
    PROVE  \A j \in Tik : Range(ledger'[j].consumed) =
             Range(ledger[j].consumed) \cup IF j = k THEN {g.nonce} ELSE {}
<1>m. ledger \in [Tik -> Record]
  BY DEF TypeOK, MandateTypeOK
<1> DEFINE moved == KeepLast(Append(ledger[k].transfers, Entry(k, g)), TransferCap)
           spent == KeepLast(Append(ledger[k].consumed, g.nonce), ConsumedCap)
<1>1. PICK w \in Destinations(k, g.to) :
        ledger' = [ledger EXCEPT
           ![k].enrolled = g.to, ![k].enrolledPlace = w.place,
           ![k].observed = None, ![k].observedPlace = None,
           ![k].transfers = moved, ![k].consumed = spent]
  BY DEF TransferAccepted
<1>2. \A j \in Tik : ledger'[j].consumed = IF j = k THEN spent ELSE ledger[j].consumed
  BY <1>m, <1>1 DEF Record
<1>3. /\ ledger[k].consumed \in Seq(GrantNonce) /\ g.nonce \in GrantNonce
      /\ ConsumedCap \in Nat /\ Len(ledger[k].consumed) < ConsumedCap
  BY <1>m, MandateAssumption DEF Record, Grant, HasRoom
<1>4. Range(spent) = Range(ledger[k].consumed) \cup {g.nonce}
  BY <1>3, RoomForOne
<1> QED BY <1>2, <1>4

\* A durable ledger with room takes nothing off the lists of consumed grants.
LEMMA ConsumedStays ==
    ASSUME TypeOK, HasRoom, Durable, [Next]_vars, NEW j \in Tik
    PROVE  Range(ledger[j].consumed) \subseteq Range(ledger'[j].consumed)
<1>1. CASE \A i \in Tik : SameJourney(ledger'[i], ledger[i])
  BY <1>1 DEF SameJourney
<1>2. ASSUME NEW k \in Tik, NEW g \in Grant, TransferAccepted(k, g)
      PROVE  Range(ledger[j].consumed) \subseteq Range(ledger'[j].consumed)
  BY <1>2, TransferConsumes
<1> QED BY <1>1, <1>2, JourneyKinds

\* A step issues a grant under a nonce no grant has, moves an identity, or leaves
\* both the grants and what each has done as they were.
LEMMA GrantKinds ==
    ASSUME [Next]_vars
    PROVE  \/ \E k \in Tik : Move(k)
           \/ /\ \E g : grants' = grants \cup {g} /\ \A h \in grants : h.nonce # g.nonce
              /\ UNCHANGED moves
           \/ UNCHANGED <<grants, moves>>
<1>1. CASE UNCHANGED vars
  BY <1>1 DEF vars, partyVars, history
<1>2. CASE GuestStep
  BY <1>2 DEF GuestStep, Attest, Rehost, history
<1>3. CASE RelyingPartyStep
  BY <1>3 DEF RelyingPartyStep, Connect, ReceiveAccepted, ReceiveUnsaved, ReceiveRefused,
     partyVars, history
<1>4. CASE EnrolmentStep
  BY <1>4 DEF EnrolmentStep, IssueChallenge, EnrolTooLate, IssuePermit, Enrol, EnrolUnsaved,
     EnrolRefused, partyVars, history
<1>5. ASSUME NEW k \in Tik, NEW from \in Optional(Instance), NEW to \in Instance,
             NEW signer \in Authority, IssueGrant(k, from, to, signer)
      PROVE  /\ \E g : grants' = grants \cup {g} /\ \A h \in grants : h.nonce # g.nonce
             /\ UNCHANGED moves
  <2> DEFINE issue(n) ==
               [tik |-> k, from |-> from, to |-> to, anyOrigin |-> from = None,
                nbf |-> now, exp |-> now + GrantFor, nonce |-> n, signer |-> signer]
  <2>1. PICK n \in GrantNonce \ {h.nonce : h \in grants} : grants' = grants \cup {issue(n)}
    BY <1>5 DEF IssueGrant
  <2>2. issue(n).nonce = n /\ \A h \in grants : h.nonce # n
    BY <2>1
  <2> HIDE DEF issue
  <2>3. grants' = grants \cup {issue(n)} /\ \A h \in grants : h.nonce # issue(n).nonce
    BY <2>1, <2>2
  <2>4. UNCHANGED moves
    BY <1>5 DEF IssueGrant, history
  <2> QED BY <2>3, <2>4
<1>6. CASE OwnerStep
  BY <1>5, <1>6 DEF OwnerStep, MoveRefused, RevokeIdentity, partyVars, history
<1>7. CASE ClockTick \/ Restart
  BY <1>7 DEF ClockTick, Restart, partyVars, history
<1> QED BY <1>1, <1>2, <1>3, <1>4, <1>6, <1>7 DEF Next

\* Every step of a durable ledger with room keeps account of the grants.
LEMMA GrantsPreserved ==
    ASSUME TypeOK, HasRoom, Durable, GrantsAreConsumed, [Next]_vars
    PROVE  GrantsAreConsumed'
<1>g. grants \subseteq Grant /\ moves \in [GrantNonce -> Nat]
  BY DEF TypeOK, PartyTypeOK, HistoryTypeOK
<1>c. \A h \in Grant : Range(ledger[h.tik].consumed) \subseteq Range(ledger'[h.tik].consumed)
  BY ConsumedStays DEF Grant
<1>1. ASSUME NEW k \in Tik, Move(k)
      PROVE  GrantsAreConsumed'
  <2>1. PICK g \in grants :
          TransferAccepted(k, g) /\ moves' = [moves EXCEPT ![g.nonce] = moves[g.nonce] + 1]
    BY <1>1 DEF Move
  <2>2. g \in Grant /\ g.nonce \in GrantNonce /\ g.tik = k
        /\ g.nonce \notin Range(ledger[k].consumed)
    BY <1>g, <2>1 DEF Grant, TransferAccepted, Transferable, Unused
  <2>3. moves[g.nonce] = 0
    BY <2>2 DEF GrantsAreConsumed
  <2>4. /\ moves'[g.nonce] = 1
        /\ \A n \in GrantNonce : n # g.nonce => moves'[n] = moves[n]
    BY <1>g, <2>1, <2>2, <2>3
  <2>5. g.nonce \in Range(ledger'[k].consumed)
    BY <2>1, <2>2, TransferConsumes
  <2>6. grants' = grants
    BY <1>1 DEF Move, partyVars
  <2>7. ASSUME NEW n \in GrantNonce
        PROVE  /\ moves'[n] \in {0, 1}
               /\ moves'[n] = 1 => \E h \in grants : h.nonce = n /\ n \in Range(ledger'[h.tik].consumed)
    <3>1. CASE n = g.nonce
      BY <2>2, <2>4, <2>5, <3>1
    <3>2. CASE n # g.nonce
      BY <1>c, <1>g, <2>4, <3>2 DEF GrantsAreConsumed
    <3> QED BY <3>1, <3>2
  <2> QED BY <2>6, <2>7 DEF GrantsAreConsumed
<1>2. ASSUME UNCHANGED moves, grants \subseteq grants',
             \A g, h \in grants' : g.nonce = h.nonce => g = h
      PROVE  GrantsAreConsumed'
  <2>1. \A n \in GrantNonce : moves[n] = 1 =>
          \E h \in grants : h.nonce = n /\ n \in Range(ledger'[h.tik].consumed)
    BY <1>c, <1>g DEF GrantsAreConsumed
  <2> QED BY <1>2, <2>1 DEF GrantsAreConsumed
<1>3. ASSUME NEW g, grants' = grants \cup {g}, \A h \in grants : h.nonce # g.nonce,
             UNCHANGED moves
      PROVE  GrantsAreConsumed'
  BY <1>2, <1>3 DEF GrantsAreConsumed
<1>4. CASE UNCHANGED <<grants, moves>>
  BY <1>2, <1>4 DEF GrantsAreConsumed
<1> QED BY <1>1, <1>3, <1>4, GrantKinds

\* With a durable ledger a grant moves an identity at most once in its life, over
\* restarts, refusals and other grants, as long as no list of consumed grants has
\* been filled: past its cap the oldest nonce is forgotten (protocol.py 470).
THEOREM GrantsMoveOnce == Spec /\ Durable /\ []HasRoom => []GrantMovesOnce
<1> SUFFICES ASSUME Durable  PROVE Spec /\ []HasRoom => []GrantMovesOnce
  OBVIOUS
<1>1. Init => GrantsAreConsumed
  BY DEF Init, GrantsAreConsumed
<1>2. TypeOK /\ HasRoom /\ GrantsAreConsumed /\ [Next]_vars => GrantsAreConsumed'
  BY GrantsPreserved
<1>3. GrantsAreConsumed => GrantMovesOnce
  BY DEF GrantsAreConsumed, GrantMovesOnce
<1> QED BY <1>1, <1>2, <1>3, TypeCorrect, PTL DEF Spec
=============================================================================
