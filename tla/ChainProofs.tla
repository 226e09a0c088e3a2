----------------------------- MODULE ChainProofs -----------------------------
(***************************************************************************)
(* Theorems about the chains of the sessions: what is accepted was         *)
(* attested for that place, live chains are all the incumbent's, and       *)
(* positions are served in order and once.                                 *)
(***************************************************************************)
EXTENDS ContinuityProofs

USE DEF Optional

-----------------------------------------------------------------------------
(* Which steps touch the chains.                                           *)

\* A step that serves nobody, opens or ends no chain, and leaves where each
\* identity is enrolled and whom it is served to.
Quiet ==
    /\ UNCHANGED <<sessions, serves>>
    /\ net \subseteq net'
    /\ \A k \in Tik : /\ ledger'[k].enrolled = ledger[k].enrolled
                      /\ ledger'[k].observed = ledger[k].observed

\* Every step is quiet, or one of five kinds.
LEMMA StepKinds ==
    ASSUME TypeOK, [Next]_vars
    PROVE  \/ Quiet
           \/ \E s \in Session : ReceiveAccepted(s) \/ ReceiveUnsaved(s)
           \/ \E k \in Tik, n \in Nonce : Enrol(k, n)
           \/ \E k \in Tik : Move(k)
           \/ Restart
<1>m. MandateTypeOK
  BY DEF TypeOK
<1>d. \A d \in Deliverable : d[1] \in Msg
  BY DEF Deliverable, TypeOK, PartyTypeOK
<1>1. CASE UNCHANGED vars
  BY <1>1 DEF Quiet, vars, mandateVars, partyVars, history
<1>2. CASE GuestStep
  BY <1>2 DEF Quiet, GuestStep, Attest, Rehost, mandateVars, history
<1>3. ASSUME NEW s \in Session, Connect(s)
      PROVE  Quiet
  BY <1>3 DEF Quiet, Connect, mandateVars, history
<1>4. ASSUME NEW s \in Session, ReceiveRefused(s)
      PROVE  Quiet
  <2>1. /\ \A j \in Tik : SameStanding(ledger'[j], ledger[j])
        /\ UNCHANGED sessions
    BY <1>m, <1>d, <1>4, RefusalKeepsStanding, DeploymentAssumption DEF ReceiveRefused
  <2> QED BY <1>4, <2>1 DEF Quiet, SameStanding, ReceiveRefused, partyVars, history
<1>5. ASSUME NEW k \in Tik, NEW n \in Nonce,
             IssuePermit(k, n) \/ EnrolUnsaved(k, n) \/ EnrolRefused(k, n)
      PROVE  Quiet
  BY <1>5 DEF Quiet, IssuePermit, EnrolUnsaved, EnrollUnsaved, EnrolRefused, EnrollRefused,
              mandateVars, partyVars, history
<1>6. ASSUME NEW n \in Nonce, IssueChallenge(n) \/ EnrolTooLate(n)
      PROVE  Quiet
  BY <1>6 DEF Quiet, IssueChallenge, Challenge, EnrolTooLate, EnrollExpired, partyVars, history
<1>7. ASSUME NEW k \in Tik, MoveRefused(k)
      PROVE  Quiet
  BY <1>7 DEF Quiet, MoveRefused, TransferRefused, partyVars, history
<1>8. ASSUME NEW k \in Tik, RevokeIdentity(k)
      PROVE  Quiet
  BY <1>m, <1>8 DEF Quiet, RevokeIdentity, Revoke, MandateTypeOK, Record, partyVars, history
<1>9. ASSUME NEW k \in Tik, NEW from \in Optional(Instance), NEW to \in Instance,
             NEW signer \in Authority, IssueGrant(k, from, to, signer)
      PROVE  Quiet
  BY <1>9 DEF Quiet, IssueGrant, mandateVars, history
<1>10. CASE ClockTick
  BY <1>10 DEF Quiet, ClockTick, Tick, partyVars, history
<1> QED BY <1>1, <1>2, <1>3, <1>4, <1>5, <1>6, <1>7, <1>8, <1>9, <1>10
        DEF Next, RelyingPartyStep, EnrolmentStep, OwnerStep

\* What an accepted presentation does to the chains and to the history.
LEMMA AcceptedEffect ==
    ASSUME TypeOK, NEW s \in Session, ReceiveAccepted(s)
    PROVE  \E m \in net :
             /\ m \in Msg
             /\ \E d \in Deliverable :
                  d[1] = m /\ PresentAccepted(TikOf[s], s, m, d[2], None)
             /\ sessions' = [sessions EXCEPT
                  ![TikOf[s]] = [sessions[TikOf[s]] EXCEPT
                                   ![s] = [prev |-> m.link, counter |-> m.counter]]]
             /\ serves' = [serves EXCEPT
                  ![s] = Append(serves[s], [counter |-> m.counter, tee |-> m.evidence.tee])]
<1>1. PICK d \in Deliverable :
        /\ PresentAccepted(TikOf[s], s, d[1], d[2], None)
        /\ serves' = [serves EXCEPT ![s] =
             Append(@, [counter |-> d[1].counter, tee |-> d[1].evidence.tee])]
  BY DEF ReceiveAccepted
<1>2. d[1] \in net /\ d[1] \in Msg
  BY DEF Deliverable, TypeOK, PartyTypeOK
<1>3. sessions' = [sessions EXCEPT
        ![TikOf[s]] = [sessions[TikOf[s]] EXCEPT
                         ![s] = [prev |-> d[1].link, counter |-> d[1].counter]]]
  BY <1>1, DeploymentAssumption DEF PresentAccepted, Advance, TypeOK, MandateTypeOK
<1>4. serves' = [serves EXCEPT
        ![s] = Append(serves[s], [counter |-> d[1].counter, tee |-> d[1].evidence.tee])]
  BY <1>1 DEF TypeOK, HistoryTypeOK
<1> QED BY <1>1, <1>2, <1>3, <1>4

\* The last of a sequence that has grown by one.
LEMMA LastOfAppend ==
    ASSUME NEW S, NEW seq \in Seq(S), NEW x
    PROVE  /\ Append(seq, x)[Len(Append(seq, x))] = x
           /\ Len(Append(seq, x)) = Len(seq) + 1
           /\ \A i \in 1 .. Len(seq) : Append(seq, x)[i] = seq[i]
OBVIOUS

-----------------------------------------------------------------------------
(* What is served was attested for that place in that session.             *)

\* A link folded onto an honest chain of n steps, for position n, is an
\* honest chain of n + 1.
LEMMA HonestLinkGrows ==
    ASSUME NEW s \in Session, NEW n \in Nat
    PROVE  PostLink(s, HonestLink(s, n), n) = HonestLink(s, n + 1)
<1> DEFINE step(i) == [exporter |-> s, counter |-> i - 1]
           old == [i \in 1 .. n |-> step(i)]
           new == [i \in 1 .. n + 1 |-> step(i)]
<1>1. old \in Seq([exporter : Session, counter : Nat]) /\ Len(old) = n
  OBVIOUS
<1>2. new \in Seq([exporter : Session, counter : Nat]) /\ Len(new) = n + 1
  OBVIOUS
<1>3. step(n + 1) = [exporter |-> s, counter |-> n]
  OBVIOUS
<1>4. Append(old, step(n + 1)) = new
  <2>1. \A i \in 1 .. n + 1 : Append(old, step(n + 1))[i] = new[i]
    BY <1>1
  <2>2. Len(Append(old, step(n + 1))) = Len(new)
    BY <1>1, <1>2
  <2>3. Append(old, step(n + 1)) \in Seq([exporter : Session, counter : Nat])
    BY <1>1, <1>3
  <2> QED BY <1>2, <2>1, <2>2, <2>3
<1>5. /\ HonestLink(s, n) = [session |-> s, tik |-> TikOf[s], steps |-> old]
      /\ HonestLink(s, n + 1) = [session |-> s, tik |-> TikOf[s], steps |-> new]
  BY DEF HonestLink
<1>6. Append(old, [exporter |-> s, counter |-> n]) = new
  <2> HIDE DEF old, new, step
  <2> QED BY <1>3, <1>4, Zenon
<1> HIDE DEF old, new
<1>7. PostLink(s, HonestLink(s, n), n) = [session |-> s, tik |-> TikOf[s], steps |-> new]
  <2> DEFINE t == TikOf[s]
             link == [session |-> s, tik |-> t, steps |-> old]
             last == [exporter |-> s, counter |-> n]
  <2> HIDE DEF t, last
  <2>1. [link EXCEPT !.steps = Append(@, last)]
          = [session |-> s, tik |-> t, steps |-> Append(old, last)]
    OBVIOUS
  <2> QED BY <1>5, <1>6, <2>1, Zenon DEF PostLink, last, t
<1> QED BY <1>5, <1>7

\* An honest chain of no steps is the first link.
LEMMA HonestLinkStarts ==
    ASSUME NEW s \in Session
    PROVE  HonestLink(s, 0) = IntraLink(s, TikOf[s])
<1>1. [i \in 1 .. 0 |-> [exporter |-> s, counter |-> i - 1]] = <<>>
  OBVIOUS
<1> QED BY <1>1 DEF HonestLink, IntraLink

\* What a mandate keeps of a session's chain is the link an honest guest of
\* that very session would have reached, whoever sent it.
ChainsAreHonest ==
    \A s \in Session : Started(TikOf[s], s) =>
        sessions[TikOf[s]][s].prev = HonestLink(s, sessions[TikOf[s]][s].counter + 1)

\* A message that chains carries the honest link of its place.
LEMMA ChainedIsHonest ==
    ASSUME TypeOK, ChainsAreHonest, NEW s \in Session, NEW m \in Msg, NEW head,
           Acceptable(TikOf[s], s, m, head, None)
    PROVE  m.link = HonestLink(s, m.counter + 1)
<1> DEFINE k == TikOf[s]
<1>1. m.link = PostLink(s, Base(k, s), m.counter) /\ Positioned(k, s, m) /\ m.counter \in Nat
  BY DEF Acceptable, Chains, Msg
<1>2. Base(k, s) = HonestLink(s, m.counter)
  <2>1. CASE Started(k, s)
    BY <1>1, <2>1 DEF Base, Positioned, ChainsAreHonest
  <2>2. CASE ~Started(k, s)
    BY <1>1, <2>2, HonestLinkStarts DEF Base, Positioned
  <2> QED BY <2>1, <2>2
<1> QED BY <1>1, <1>2, HonestLinkGrows
\* An accepted or unsaved step writes an honest chain down.
LEMMA AdvanceIsHonest ==
    ASSUME TypeOK, ChainsAreHonest, NEW s \in Session, NEW m \in Msg, NEW head,
           Acceptable(TikOf[s], s, m, head, None), Advance(TikOf[s], s, m)
    PROVE  ChainsAreHonest'
<1> DEFINE k == TikOf[s]
<1>1. m.link = HonestLink(s, m.counter + 1)
  BY ChainedIsHonest
<1>2. sessions' = [sessions EXCEPT ![k] =
        [sessions[k] EXCEPT ![s] = [prev |-> m.link, counter |-> m.counter]]]
  BY DeploymentAssumption DEF Advance, TypeOK, MandateTypeOK
<1>3. k \in Tik /\ sessions[k] \in [Session -> Optional(Chain)]
  BY DeploymentAssumption DEF TypeOK, MandateTypeOK
<1>4. \A r \in Session : sessions'[TikOf[r]][r] =
        IF r = s THEN [prev |-> m.link, counter |-> m.counter] ELSE sessions[TikOf[r]][r]
  BY <1>2, <1>3, DeploymentAssumption DEF TypeOK, MandateTypeOK
<1> QED BY <1>1, <1>4 DEF ChainsAreHonest, Started

\* The chains stay honest in every step.
LEMMA HonestyPreserved ==
    ASSUME TypeOK, ChainsAreHonest, [Next]_vars
    PROVE  ChainsAreHonest'
<1>d. \A d \in Deliverable : d[1] \in Msg
  BY DEF Deliverable, TypeOK, PartyTypeOK
<1>1. CASE Quiet
  BY <1>1 DEF Quiet, ChainsAreHonest, Started
<1>2. ASSUME NEW s \in Session, ReceiveAccepted(s)
      PROVE  ChainsAreHonest'
  BY <1>2, <1>d, AdvanceIsHonest DEF ReceiveAccepted, PresentAccepted
<1>3. ASSUME NEW s \in Session, ReceiveUnsaved(s)
      PROVE  ChainsAreHonest'
  BY <1>3, <1>d, AdvanceIsHonest DEF ReceiveUnsaved, PresentUnsaved
<1>4. ASSUME NEW k \in Tik, NEW n \in Nonce, Enrol(k, n)
      PROVE  ChainsAreHonest'
  BY <1>4 DEF Enrol, EnrollAccepted, ChainsAreHonest, Started
<1>5. ASSUME NEW k \in Tik, Move(k)
      PROVE  ChainsAreHonest'
  <2>1. sessions' = [sessions EXCEPT ![k] = [s \in Session |-> None]]
    BY <1>5 DEF Move, TransferAccepted
  <2>2. \A r \in Session : sessions'[TikOf[r]][r] =
          IF TikOf[r] = k THEN None ELSE sessions[TikOf[r]][r]
    BY <2>1, DeploymentAssumption DEF TypeOK, MandateTypeOK
  <2> QED BY <2>2 DEF ChainsAreHonest, Started
<1>6. CASE Restart
  BY <1>6, DeploymentAssumption DEF Restart, MandateRestart, ChainsAreHonest, Started
<1> QED BY <1>1, <1>2, <1>3, <1>4, <1>5, <1>6, StepKinds

\* Agreement is kept: what is newly accepted is on the network, with the
\* honest link of its place.
LEMMA AgreementPreserved ==
    ASSUME TypeOK, ChainsAreHonest, ServedIsAttested, [Next]_vars
    PROVE  ServedIsAttested'
<1>1. ASSUME UNCHANGED serves, net \subseteq net'
      PROVE  ServedIsAttested'
  <2>1. ASSUME NEW r \in Session, NEW i \in DOMAIN serves'[r]
        PROVE  \E q \in net' : /\ q.counter = serves'[r][i].counter
                               /\ q.evidence.tee = serves'[r][i].tee
                               /\ q.link = HonestLink(r, q.counter + 1)
    BY <1>1 DEF ServedIsAttested
  <2> QED BY <2>1 DEF ServedIsAttested, HonestLink
<1>2. ASSUME NEW s \in Session, ReceiveAccepted(s)
      PROVE  ServedIsAttested'
  <2>1. PICK m \in net :
          /\ m \in Msg
          /\ \E d \in Deliverable :
               d[1] = m /\ PresentAccepted(TikOf[s], s, m, d[2], None)
          /\ serves' = [serves EXCEPT
               ![s] = Append(serves[s], [counter |-> m.counter, tee |-> m.evidence.tee])]
    BY <1>2, AcceptedEffect
  <2>2. m.link = HonestLink(s, m.counter + 1)
    BY <2>1, ChainedIsHonest DEF PresentAccepted
  <2>3. net' = net
    BY <1>2 DEF ReceiveAccepted, partyVars
  <2> DEFINE new == [counter |-> m.counter, tee |-> m.evidence.tee]
  <2>4. /\ serves[s] \in Seq([counter : Nat, tee : Tee])
        /\ \A r \in Session : serves'[r] = IF r = s THEN Append(serves[s], new) ELSE serves[r]
    BY <2>1 DEF TypeOK, HistoryTypeOK
  <2>a. /\ Append(serves[s], new)[Len(serves[s]) + 1] = new
        /\ DOMAIN Append(serves[s], new) = 1 .. Len(serves[s]) + 1
        /\ DOMAIN serves[s] = 1 .. Len(serves[s])
        /\ \A i \in 1 .. Len(serves[s]) : Append(serves[s], new)[i] = serves[s][i]
    BY <2>4
  <2> HIDE DEF new
  <2>5. ASSUME NEW r \in Session, NEW i \in DOMAIN serves'[r]
        PROVE  \E q \in net : /\ q.counter = serves'[r][i].counter
                              /\ q.evidence.tee = serves'[r][i].tee
                              /\ q.link = HonestLink(r, q.counter + 1)
    <3>1. CASE r = s /\ i = Len(serves[s]) + 1
      <4>1. serves'[r][i] = new
        BY <2>4, <2>a, <3>1
      <4> QED BY <2>1, <2>2, <3>1, <4>1 DEF new
    <3>2. CASE ~(r = s /\ i = Len(serves[s]) + 1)
      <4>1. i \in DOMAIN serves[r] /\ serves'[r][i] = serves[r][i]
        <5>1. CASE r = s
          <6>a. serves'[r] = Append(serves[s], new)
            BY <2>4, <5>1
          <6>b. Len(serves[s]) \in Nat
            BY <2>4
          <6>1. i \in 1 .. Len(serves[s]) + 1
            BY <2>a, <6>a
          <6>2. i \in 1 .. Len(serves[s])
            BY <6>1, <6>b, <3>2, <5>1
          <6> QED BY <6>2, <2>4, <2>a, <5>1
        <5>2. CASE r # s
          BY <2>4, <2>5, <5>2
        <5> QED BY <5>1, <5>2
      <4> QED BY <4>1 DEF ServedIsAttested
    <3> QED BY <3>1, <3>2
  <2> QED BY <2>3, <2>5 DEF ServedIsAttested, HonestLink
<1>3. (\E s \in Session : ReceiveAccepted(s)) \/ (UNCHANGED serves /\ net \subseteq net')
  BY StepKinds DEF Quiet, ReceiveUnsaved, Enrol, Move, Restart, partyVars, history
<1> QED BY <1>1, <1>2, <1>3

\* Agreement, in every deployment: what the mandate accepts at a position of
\* a session was attested for that position of that session, and the claims
\* it judged are those of the guest that attested it.
THEOREM Agreement == Spec => []ServedIsAttested
<1>1. Init => ChainsAreHonest /\ ServedIsAttested
  BY DeploymentAssumption DEF Init, MandateInit, ChainsAreHonest, Started, ServedIsAttested
<1>2. TypeOK /\ ChainsAreHonest /\ ServedIsAttested /\ [Next]_vars
        => ChainsAreHonest' /\ ServedIsAttested'
  BY HonestyPreserved, AgreementPreserved
<1> QED BY <1>1, <1>2, TypeCorrect, PTL DEF Spec
-----------------------------------------------------------------------------
(* Live chains.                                                            *)

\* A session the step neither serves nor ends is as live as it was.
LEMMA LiveUnchanged ==
    ASSUME NEW r \in Session, serves'[r] = serves[r],
           sessions'[TikOf[r]][r] = sessions[TikOf[r]][r]
    PROVE  /\ LiveChain(r)' <=> LiveChain(r)
           /\ LiveInstance(r)' = LiveInstance(r)
BY DEF LiveChain, LiveInstance, LastServed, Started

\* After an accepted presentation the session served is live on the
\* presenter's instance, and the others are as they were.
LEMMA LiveAfterAccepted ==
    ASSUME TypeOK, NEW s \in Session, ReceiveAccepted(s)
    PROVE  \E m \in Msg :
             /\ \E d \in Deliverable : PresentAccepted(TikOf[s], s, m, d[2], None)
             /\ LiveInstance(s)' = InstanceClaim(m.evidence)
             /\ \A r \in Session \ {s} : /\ LiveChain(r)' <=> LiveChain(r)
                                         /\ LiveInstance(r)' = LiveInstance(r)
<1>1. PICK m \in net :
        /\ m \in Msg
        /\ \E d \in Deliverable :
             d[1] = m /\ PresentAccepted(TikOf[s], s, m, d[2], None)
        /\ sessions' = [sessions EXCEPT
             ![TikOf[s]] = [sessions[TikOf[s]] EXCEPT
                              ![s] = [prev |-> m.link, counter |-> m.counter]]]
        /\ serves' = [serves EXCEPT
             ![s] = Append(serves[s], [counter |-> m.counter, tee |-> m.evidence.tee])]
  BY AcceptedEffect
<1>2. serves'[s] = Append(serves[s], [counter |-> m.counter, tee |-> m.evidence.tee])
      /\ serves[s] \in Seq([counter : Nat, tee : Tee])
  BY <1>1 DEF TypeOK, HistoryTypeOK
<1>3. LastServed(s)' = [counter |-> m.counter, tee |-> m.evidence.tee]
  BY <1>2, LastOfAppend DEF LastServed
<1>4. LiveInstance(s)' = InstanceClaim(m.evidence)
  BY <1>3 DEF LiveInstance, InstanceClaim
<1>5. \A r \in Session \ {s} : /\ serves'[r] = serves[r]
                               /\ sessions'[TikOf[r]][r] = sessions[TikOf[r]][r]
  BY <1>1, DeploymentAssumption DEF TypeOK, HistoryTypeOK, MandateTypeOK
<1> QED BY <1>1, <1>4, <1>5, LiveUnchanged

\* After a transfer no chain of the identity is live, and the others are as
\* they were.
LEMMA LiveAfterMove ==
    ASSUME TypeOK, NEW k \in Tik, Move(k)
    PROVE  \A r \in Session :
             IF TikOf[r] = k THEN ~LiveChain(r)'
             ELSE /\ LiveChain(r)' <=> LiveChain(r)
                  /\ LiveInstance(r)' = LiveInstance(r)
<1>1. sessions' = [sessions EXCEPT ![k] = [s \in Session |-> None]] /\ UNCHANGED serves
  BY DEF Move, TransferAccepted
<1>2. \A r \in Session : sessions'[TikOf[r]][r] =
        IF TikOf[r] = k THEN None ELSE sessions[TikOf[r]][r]
  BY <1>1, DeploymentAssumption DEF TypeOK, MandateTypeOK
<1> QED BY <1>1, <1>2, LiveUnchanged DEF LiveChain, Started

\* After a restart no chain is live.
LEMMA NoneLiveAfterRestart ==
    ASSUME Restart
    PROVE  \A r \in Session : ~LiveChain(r)'
BY DeploymentAssumption DEF Restart, MandateRestart, LiveChain, Started

\* Where an identity is enrolled and whom it is served to, after each kind of
\* step that changes them.
LEMMA RecordAfterAccepted ==
    ASSUME TypeOK, NEW k \in Tik, NEW s \in Session, NEW m \in Msg, NEW head,
           PresentAccepted(k, s, m, head, None)
    PROVE  \A j \in Tik :
             /\ ledger'[j].enrolled = ledger[j].enrolled
             /\ ledger'[j].observed =
                  IF j = k /\ InstanceClaim(m.evidence) # None
                  THEN InstanceClaim(m.evidence) ELSE ledger[j].observed
<1>1. PICK i, pl : i = InstanceClaim(m.evidence) /\ pl = PlaceClaim(m.evidence)
  OBVIOUS
<1>2. ledger' = IF i = None THEN ledger
                ELSE [ledger EXCEPT ![k].observed = i, ![k].observedPlace = pl]
  BY <1>1 DEF PresentAccepted
<1> QED BY <1>1, <1>2 DEF TypeOK, MandateTypeOK, Record

\* A transfer changes the record of the identity it moves, and no other.
LEMMA RecordAfterMove ==
    ASSUME TypeOK, NEW k \in Tik, Move(k)
    PROVE  \A j \in Tik \ {k} : /\ ledger'[j].enrolled = ledger[j].enrolled
                                /\ ledger'[j].observed = ledger[j].observed
<1>1. PICK g : TransferAccepted(k, g)
  BY DEF Move
<1> DEFINE moved == KeepLast(Append(ledger[k].transfers, Entry(k, g)), TransferCap)
           spent == KeepLast(Append(ledger[k].consumed, g.nonce), ConsumedCap)
<1>2. PICK w \in Destinations(k, g.to) :
        ledger' = [ledger EXCEPT
           ![k].enrolled = g.to, ![k].enrolledPlace = w.place,
           ![k].observed = None, ![k].observedPlace = None,
           ![k].transfers = moved, ![k].consumed = spent]
  BY <1>1 DEF TransferAccepted
<1> QED BY <1>2 DEF TypeOK, MandateTypeOK

\* An enrolment finds nobody enrolled, and changes no incumbent.
LEMMA RecordAfterEnrol ==
    ASSUME TypeOK, NEW k \in Tik, NEW n \in Nonce, Enrol(k, n)
    PROVE  /\ ledger[k].enrolled = None
           /\ \A j \in Tik : ledger'[j].observed = ledger[j].observed
           /\ \A j \in Tik \ {k} : ledger'[j].enrolled = ledger[j].enrolled
<1>1. PICK e \in Evidences, permit \in Optional(permits) :
        EnrollAccepted(k, e, n, e.data.csr, OwnerOf[k], permit)
  BY DEF Enrol
<1>2. PICK i, pl, o : /\ i = InstanceClaim(e) /\ pl = PlaceClaim(e)
                      /\ o = IF OwnerOf[k] = None THEN ledger[k].authority ELSE OwnerOf[k]
  OBVIOUS
<1>3. ledger' = [ledger EXCEPT ![k] =
         [ledger[k] EXCEPT !.enrolled = i, !.enrolledPlace = pl, !.authority = o]]
  BY <1>1, <1>2 DEF EnrollAccepted, TypeOK, MandateTypeOK, Record
<1>4. ledger[k].enrolled = None
  BY <1>1 DEF EnrollAccepted, Enrollable
<1> QED BY <1>3, <1>4 DEF TypeOK, MandateTypeOK, Record

\* While the store takes what it is given, every live chain stays on the
\* incumbent's instance.
LEMMA IncumbencyPreserved ==
    ASSUME ~StoreMayFail, TypeOK, OneIncumbent, [Next]_vars
    PROVE  OneIncumbent'
<1>t. \A r \in Session : TikOf[r] \in Tik
  BY DeploymentAssumption
<1>1. CASE Quiet
  BY <1>1, <1>t, LiveUnchanged DEF Quiet, OneIncumbent
<1>2. ASSUME NEW s \in Session, ReceiveAccepted(s)
      PROVE  OneIncumbent'
  <2>1. PICK m \in Msg :
          /\ \E d \in Deliverable : PresentAccepted(TikOf[s], s, m, d[2], None)
          /\ LiveInstance(s)' = InstanceClaim(m.evidence)
          /\ \A r \in Session \ {s} : /\ LiveChain(r)' <=> LiveChain(r)
                                      /\ LiveInstance(r)' = LiveInstance(r)
    BY <1>2, LiveAfterAccepted
  <2>2. ~Contends(TikOf[s], m)
    BY <2>1 DEF PresentAccepted, Acceptable, Undisputed
  <2>3. \A j \in Tik : ledger'[j].observed =
          IF j = TikOf[s] /\ InstanceClaim(m.evidence) # None
          THEN InstanceClaim(m.evidence) ELSE ledger[j].observed
    BY <1>t, <2>1, RecordAfterAccepted
  <2>4. ASSUME NEW r \in Session, LiveChain(r)'
        PROVE  LiveInstance(r)' \in {None, ledger'[TikOf[r]].observed}
    <3>1. CASE r = s
      BY <1>t, <2>1, <2>3, <3>1
    <3>2. CASE r # s
      <4>1. LiveInstance(r)' \in {None, ledger[TikOf[r]].observed}
        BY <2>1, <2>4, <3>2 DEF OneIncumbent
      <4> QED BY <1>t, <2>2, <2>3, <4>1 DEF Contends, Differs
    <3> QED BY <3>1, <3>2
  <2> QED BY <2>4 DEF OneIncumbent
<1>3. ASSUME NEW s \in Session, ReceiveUnsaved(s)
      PROVE  OneIncumbent'
  BY <1>3 DEF ReceiveUnsaved, PresentUnsaved
<1>4. ASSUME NEW k \in Tik, NEW n \in Nonce, Enrol(k, n)
      PROVE  OneIncumbent'
  <2>1. UNCHANGED <<sessions, serves>>
    BY <1>4 DEF Enrol, EnrollAccepted
  <2> QED BY <1>4, <1>t, <2>1, LiveUnchanged, RecordAfterEnrol DEF OneIncumbent
<1>5. ASSUME NEW k \in Tik, Move(k)
      PROVE  OneIncumbent'
  BY <1>5, <1>t, LiveAfterMove, RecordAfterMove DEF OneIncumbent
<1>6. CASE Restart
  BY <1>6, NoneLiveAfterRestart DEF OneIncumbent
<1> QED BY <1>1, <1>2, <1>3, <1>4, <1>5, <1>6, StepKinds

\* One incumbent at a time: all the live chains of an identity are on the
\* instance last served, in every deployment whose store does not fail.
THEOREM IncumbentIsAlone ==
    ASSUME ~StoreMayFail
    PROVE  Spec => []OneIncumbent
<1>1. Init => OneIncumbent
  BY DEF Init, OneIncumbent, LiveChain
<1>2. TypeOK /\ OneIncumbent /\ [Next]_vars => OneIncumbent'
  BY IncumbencyPreserved
<1> QED BY <1>1, <1>2, TypeCorrect, PTL DEF Spec

\* Where enrolment and anchors are required, live chains stay on the enrolled
\* instance.
LEMMA EnrolledPreserved ==
    ASSUME ~StoreMayFail, TypeOK, LiveChainsAreEnrolled, [Next]_vars
    PROVE  LiveChainsAreEnrolled'
<1> SUFFICES ASSUME RequireEnrolment, RequireAnchor
             PROVE  \A r \in Session : LiveChain(r)' =>
                      /\ ledger'[TikOf[r]].enrolled # None
                      /\ LiveInstance(r)' = ledger'[TikOf[r]].enrolled
  BY DEF LiveChainsAreEnrolled
<1>t. \A r \in Session : TikOf[r] \in Tik
  BY DeploymentAssumption
<1>i. \A r \in Session : LiveChain(r) =>
        /\ ledger[TikOf[r]].enrolled # None
        /\ LiveInstance(r) = ledger[TikOf[r]].enrolled
  BY DEF LiveChainsAreEnrolled
<1>1. CASE Quiet
  BY <1>1, <1>i, <1>t, LiveUnchanged DEF Quiet
<1>2. ASSUME NEW s \in Session, ReceiveAccepted(s), NEW r \in Session, LiveChain(r)'
      PROVE  /\ ledger'[TikOf[r]].enrolled # None
             /\ LiveInstance(r)' = ledger'[TikOf[r]].enrolled
  <2>1. PICK m \in Msg :
          /\ \E d \in Deliverable : PresentAccepted(TikOf[s], s, m, d[2], None)
          /\ LiveInstance(s)' = InstanceClaim(m.evidence)
          /\ \A q \in Session \ {s} : /\ LiveChain(q)' <=> LiveChain(q)
                                      /\ LiveInstance(q)' = LiveInstance(q)
    BY <1>2, LiveAfterAccepted
  <2>2. /\ ledger[TikOf[s]].enrolled # None
        /\ InstanceClaim(m.evidence) = ledger[TikOf[s]].enrolled
    BY <2>1 DEF PresentAccepted, Acceptable, Undisputed, Placed, Recognised, Appraisable,
                Foreign, Differs
  <2>3. \A j \in Tik : ledger'[j].enrolled = ledger[j].enrolled
    BY <1>t, <2>1, RecordAfterAccepted
  <2> QED BY <1>2, <1>i, <1>t, <2>1, <2>2, <2>3
<1>3. ASSUME NEW s \in Session, ReceiveUnsaved(s)
      PROVE  FALSE
  BY <1>3 DEF ReceiveUnsaved, PresentUnsaved
<1>4. ASSUME NEW k \in Tik, NEW n \in Nonce, Enrol(k, n), NEW r \in Session, LiveChain(r)'
      PROVE  /\ ledger'[TikOf[r]].enrolled # None
             /\ LiveInstance(r)' = ledger'[TikOf[r]].enrolled
  <2>1. UNCHANGED <<sessions, serves>>
    BY <1>4 DEF Enrol, EnrollAccepted
  <2> QED BY <1>4, <1>i, <1>t, <2>1, LiveUnchanged, RecordAfterEnrol
<1>5. ASSUME NEW k \in Tik, Move(k), NEW r \in Session, LiveChain(r)'
      PROVE  /\ ledger'[TikOf[r]].enrolled # None
             /\ LiveInstance(r)' = ledger'[TikOf[r]].enrolled
  BY <1>5, <1>i, <1>t, LiveAfterMove, RecordAfterMove
<1>6. CASE Restart
  BY <1>6, NoneLiveAfterRestart
<1> QED BY <1>1, <1>2, <1>3, <1>4, <1>5, <1>6, StepKinds

\* No silent downgrade: a mandate that requires enrolment and anchors has
\* live chains on the enrolled instance only, over restarts that lose the
\* ledger and over transfers.
THEOREM OnlyTheEnrolledIsLive ==
    ASSUME ~StoreMayFail
    PROVE  Spec => []LiveChainsAreEnrolled
<1>1. Init => LiveChainsAreEnrolled
  BY DEF Init, LiveChainsAreEnrolled, LiveChain
<1>2. TypeOK /\ LiveChainsAreEnrolled /\ [Next]_vars => LiveChainsAreEnrolled'
  BY EnrolledPreserved
<1> QED BY <1>1, <1>2, TypeCorrect, PTL DEF Spec

-----------------------------------------------------------------------------
(* Where identities are never moved, a session's positions are served in   *)
(* order and once.  (With transfers they need not be: a chain dropped by a *)
(* transfer starts again if the identity comes back while the connection   *)
(* is still open.)                                                         *)

\* A connection not yet made has served nothing; an open one has served
\* nothing past the link on record.
ServedUpToChain ==
    \A s \in Session :
        /\ conn[s] = "idle" => serves[s] = <<>>
        /\ conn[s] = "open" => \A i \in DOMAIN serves[s] :
             /\ Started(TikOf[s], s)
             /\ serves[s][i].counter <= sessions[TikOf[s]][s].counter

\* A sequence holds elements of its set.
LEMMA ElementType ==
    ASSUME NEW S, NEW seq \in Seq(S), NEW i \in DOMAIN seq
    PROVE  seq[i] \in S
<1>1. i \in 1 .. Len(seq)
  OBVIOUS
<1> QED BY <1>1

\* Without grants nothing moves.
LEMMA NothingMoves ==
    ASSUME GrantNonce = {}, TypeOK, NEW k \in Tik
    PROVE  ~Move(k)
BY DEF Move, TypeOK, PartyTypeOK, Grant

\* Only a connection's own steps, its opening and a restart change it.
LEMMA ConnectionKinds ==
    ASSUME TypeOK, [Next]_vars, NEW s \in Session
    PROVE  \/ conn'[s] = conn[s]
           \/ conn[s] = "idle" /\ conn'[s] = "open" /\ UNCHANGED <<sessions, serves>>
           \/ conn'[s] = "closed"
<1>0. conn \in [Session -> {"idle", "open", "closed"}]
  BY DEF TypeOK, PartyTypeOK
<1>1. CASE UNCHANGED vars
  BY <1>1 DEF vars, partyVars
<1>2. CASE GuestStep
  BY <1>2 DEF GuestStep, Attest, Rehost
<1>3. CASE RelyingPartyStep
  <2>1. PICK r \in Session : Connect(r) \/ ReceiveAccepted(r) \/ ReceiveUnsaved(r) \/ ReceiveRefused(r)
    BY <1>3 DEF RelyingPartyStep
  <2>2. CASE Connect(r)
    BY <1>0, <2>2 DEF Connect, mandateVars, history
  <2>3. CASE ReceiveAccepted(r)
    BY <1>0, <2>3 DEF ReceiveAccepted, partyVars
  <2>4. CASE ReceiveUnsaved(r)
    BY <1>0, <2>4 DEF ReceiveUnsaved, partyVars
  <2>5. CASE ReceiveRefused(r)
    BY <1>0, <2>5 DEF ReceiveRefused, partyVars
  <2> QED BY <2>1, <2>2, <2>3, <2>4, <2>5
<1>4. CASE EnrolmentStep
  BY <1>4 DEF EnrolmentStep, IssueChallenge, EnrolTooLate, IssuePermit, Enrol, EnrolUnsaved,
              EnrolRefused, partyVars
<1>5. CASE OwnerStep
  BY <1>5 DEF OwnerStep, IssueGrant, Move, MoveRefused, RevokeIdentity, partyVars
<1>6. CASE ClockTick \/ Restart
  BY <1>0, <1>6 DEF ClockTick, Restart, partyVars
<1> QED BY <1>1, <1>2, <1>3, <1>4, <1>5, <1>6 DEF Next

\* A step accepted, saved or not, is past everything its session was served,
\* and becomes the link on record.
LEMMA AdvanceEffect ==
    ASSUME TypeOK, NEW s \in Session, conn[s] = "open", NEW m \in Msg, NEW head,
           Acceptable(TikOf[s], s, m, head, None), Advance(TikOf[s], s, m)
    PROVE  /\ \A r \in Session : sessions'[TikOf[r]][r] =
                IF r = s THEN [prev |-> m.link, counter |-> m.counter]
                ELSE sessions[TikOf[r]][r]
           /\ m.counter \in Nat
           /\ Started(TikOf[s], s) =>
                /\ sessions[TikOf[s]][s].counter \in Nat
                /\ m.counter = sessions[TikOf[s]][s].counter + 1
           /\ ~Started(TikOf[s], s) => m.counter = 0
<1> DEFINE k == TikOf[s]
<1>1. sessions' = [sessions EXCEPT ![k] =
        [sessions[k] EXCEPT ![s] = [prev |-> m.link, counter |-> m.counter]]]
  BY DeploymentAssumption DEF Advance, TypeOK, MandateTypeOK
<1>2. k \in Tik /\ sessions[k] \in [Session -> Optional(Chain)]
  BY DeploymentAssumption DEF TypeOK, MandateTypeOK
<1>3. \A r \in Session : sessions'[TikOf[r]][r] =
        IF r = s THEN [prev |-> m.link, counter |-> m.counter] ELSE sessions[TikOf[r]][r]
  BY <1>1, <1>2, DeploymentAssumption DEF TypeOK, MandateTypeOK
<1>4. Positioned(k, s, m)
  BY DEF Acceptable
<1>5. Started(k, s) => sessions[k][s].counter \in Nat
  BY <1>2 DEF Started, Chain
<1> QED BY <1>3, <1>4, <1>5 DEF Positioned, Msg

\* The history of a session that has been served one more step.
LEMMA HistoryGrows ==
    ASSUME TypeOK, NEW s \in Session, NEW e \in [counter : Nat, tee : Tee],
           serves' = [serves EXCEPT ![s] = Append(serves[s], e)]
    PROVE  /\ Len(serves[s]) \in Nat
           /\ DOMAIN serves[s] = 1 .. Len(serves[s])
           /\ DOMAIN serves'[s] = 1 .. Len(serves[s]) + 1
           /\ serves'[s][Len(serves[s]) + 1] = e
           /\ \A i \in DOMAIN serves[s] : serves'[s][i] = serves[s][i]
           /\ \A r \in Session \ {s} : serves'[r] = serves[r]
<1>1. /\ serves'[s] = Append(serves[s], e)
      /\ serves[s] \in Seq([counter : Nat, tee : Tee])
      /\ \A r \in Session \ {s} : serves'[r] = serves[r]
  BY DEF TypeOK, HistoryTypeOK
<1>2. /\ Len(serves[s]) \in Nat
      /\ DOMAIN serves[s] = 1 .. Len(serves[s])
      /\ DOMAIN Append(serves[s], e) = 1 .. Len(serves[s]) + 1
      /\ Append(serves[s], e)[Len(serves[s]) + 1] = e
      /\ \A i \in 1 .. Len(serves[s]) : Append(serves[s], e)[i] = serves[s][i]
  BY <1>1
<1> QED BY <1>1, <1>2

\* What ServedUpToChain asks of one session.
UpToChain(r) ==
    /\ conn[r] = "idle" => serves[r] = <<>>
    /\ conn[r] = "open" => \A i \in DOMAIN serves[r] :
         /\ Started(TikOf[r], r)
         /\ serves[r][i].counter <= sessions[TikOf[r]][r].counter

\* A session whose chain and history a step leaves alone.
LEMMA UpToChainKept ==
    ASSUME TypeOK, [Next]_vars, NEW r \in Session, UpToChain(r),
           serves'[r] = serves[r],
           sessions'[TikOf[r]][r] = sessions[TikOf[r]][r]
    PROVE  UpToChain(r)'
<1>1. CASE conn'[r] = conn[r]
  BY <1>1 DEF UpToChain, Started
<1>2. CASE conn[r] = "idle" /\ conn'[r] = "open"
  BY <1>2 DEF UpToChain
<1>3. CASE conn'[r] = "closed"
  BY <1>3 DEF UpToChain
<1> QED BY <1>1, <1>2, <1>3, ConnectionKinds

\* Open connections have served nothing past the link on record, after every
\* step that is not a transfer.
LEMMA UpToChainPreserved ==
    ASSUME GrantNonce = {}, TypeOK, ServedUpToChain, [Next]_vars
    PROVE  ServedUpToChain'
<1> SUFFICES ASSUME NEW r \in Session  PROVE UpToChain(r)'
  BY DEF ServedUpToChain, UpToChain
<1>u. UpToChain(r)
  BY DEF ServedUpToChain, UpToChain
<1>d. \A d \in Deliverable : d[1] \in Msg
  BY DEF Deliverable, TypeOK, PartyTypeOK
<1>1. CASE Quiet
  BY <1>1, <1>u, UpToChainKept DEF Quiet
<1>2. ASSUME NEW s \in Session, ReceiveAccepted(s)
      PROVE  UpToChain(r)'
  <2>1. PICK m \in net :
          /\ m \in Msg
          /\ \E d \in Deliverable :
               d[1] = m /\ PresentAccepted(TikOf[s], s, m, d[2], None)
          /\ serves' = [serves EXCEPT
               ![s] = Append(serves[s], [counter |-> m.counter, tee |-> m.evidence.tee])]
    BY <1>2, AcceptedEffect
  <2>2. conn[s] = "open" /\ UNCHANGED conn
    BY <1>2 DEF ReceiveAccepted, partyVars
  <2>3. /\ \A q \in Session : sessions'[TikOf[q]][q] =
             IF q = s THEN [prev |-> m.link, counter |-> m.counter]
             ELSE sessions[TikOf[q]][q]
        /\ m.counter \in Nat
        /\ Started(TikOf[s], s) =>
             /\ sessions[TikOf[s]][s].counter \in Nat
             /\ m.counter = sessions[TikOf[s]][s].counter + 1
    BY <2>1, <2>2, AdvanceEffect DEF PresentAccepted
  <2>4. [counter |-> m.counter, tee |-> m.evidence.tee] \in [counter : Nat, tee : Tee]
    BY <2>1 DEF Msg
  <2>5. CASE r # s
    <3>1. serves'[r] = serves[r] /\ sessions'[TikOf[r]][r] = sessions[TikOf[r]][r]
      BY <2>1, <2>3, <2>4, <2>5, HistoryGrows
    <3> QED BY <1>u, <3>1, UpToChainKept
  <2>6. CASE r = s
    <3>1. ASSUME NEW i \in DOMAIN serves'[s]
          PROVE  serves'[s][i].counter <= m.counter
      <4>1. CASE i \in DOMAIN serves[s]
        <5>1. /\ Started(TikOf[s], s)
              /\ serves[s][i].counter <= sessions[TikOf[s]][s].counter
          BY <1>u, <2>2, <2>6, <4>1 DEF UpToChain
        <5>2. serves[s][i].counter \in Nat
          <6>1. serves[s] \in Seq([counter : Nat, tee : Tee])
            BY DEF TypeOK, HistoryTypeOK
          <6>2. serves[s][i] \in [counter : Nat, tee : Tee]
            BY <4>1, <6>1, ElementType
          <6> QED BY <6>2
        <5>3. serves'[s][i] = serves[s][i]
          BY <2>1, <2>4, <4>1, HistoryGrows
        <5> QED BY <2>3, <5>1, <5>2, <5>3
      <4>2. CASE i \notin DOMAIN serves[s]
        <5>1. serves'[s][i] = [counter |-> m.counter, tee |-> m.evidence.tee]
          BY <2>1, <2>4, <3>1, <4>2, HistoryGrows
        <5> QED BY <2>3, <5>1
      <4> QED BY <4>1, <4>2
    <3>2. /\ Started(TikOf[s], s)'
          /\ sessions'[TikOf[s]][s].counter = m.counter
      <4>1. [prev |-> m.link, counter |-> m.counter] # None
        BY <2>1, <2>3, ChainAssumption DEF Chain, Msg
      <4> QED BY <2>3, <4>1 DEF Started
    <3> QED BY <2>2, <2>6, <3>1, <3>2 DEF UpToChain
  <2> QED BY <2>5, <2>6
<1>3. ASSUME NEW s \in Session, ReceiveUnsaved(s)
      PROVE  UpToChain(r)'
  <2>1. PICK d \in Deliverable : PresentUnsaved(TikOf[s], s, d[1], d[2], None)
    BY <1>3 DEF ReceiveUnsaved
  <2>2. conn[s] = "open" /\ UNCHANGED <<conn, serves>> /\ d[1] \in Msg
    BY <1>3, <1>d DEF ReceiveUnsaved, partyVars, history
  <2>3. /\ \A q \in Session : sessions'[TikOf[q]][q] =
             IF q = s THEN [prev |-> d[1].link, counter |-> d[1].counter]
             ELSE sessions[TikOf[q]][q]
        /\ d[1].counter \in Nat
        /\ Started(TikOf[s], s) =>
             /\ sessions[TikOf[s]][s].counter \in Nat
             /\ d[1].counter = sessions[TikOf[s]][s].counter + 1
    BY <2>1, <2>2, AdvanceEffect DEF PresentUnsaved
  <2>4. CASE r # s
    BY <1>u, <2>2, <2>3, <2>4, UpToChainKept
  <2>5. CASE r = s
    <3>1. ASSUME NEW i \in DOMAIN serves[s]
          PROVE  serves[s][i].counter <= d[1].counter
      <4>1. /\ Started(TikOf[s], s)
            /\ serves[s][i].counter <= sessions[TikOf[s]][s].counter
        BY <1>u, <2>2, <2>5, <3>1 DEF UpToChain
      <4>2. serves[s] \in Seq([counter : Nat, tee : Tee])
        BY DEF TypeOK, HistoryTypeOK
      <4>3. serves[s][i] \in [counter : Nat, tee : Tee]
        BY <3>1, <4>2, ElementType
      <4> QED BY <2>3, <4>1, <4>3
    <3>2. /\ Started(TikOf[s], s)'
          /\ sessions'[TikOf[s]][s].counter = d[1].counter
      <4>1. [prev |-> d[1].link, counter |-> d[1].counter] # None
        BY <2>2, <2>3, ChainAssumption DEF Chain, Msg
      <4> QED BY <2>3, <4>1 DEF Started
    <3> QED BY <2>2, <2>5, <3>1, <3>2 DEF UpToChain
  <2> QED BY <2>4, <2>5
<1>4. ASSUME NEW k \in Tik, NEW n \in Nonce, Enrol(k, n)
      PROVE  UpToChain(r)'
  BY <1>4, <1>u, UpToChainKept DEF Enrol, EnrollAccepted
<1>5. ASSUME NEW k \in Tik, Move(k)
      PROVE  UpToChain(r)'
  BY <1>5, NothingMoves
<1>6. CASE Restart
  BY <1>6, <1>u DEF UpToChain, Restart, history, TypeOK, PartyTypeOK
<1> QED BY <1>1, <1>2, <1>3, <1>4, <1>5, <1>6, StepKinds

\* No position is served twice, or after a later one, in every step that is
\* not a transfer.
LEMMA OncePreserved ==
    ASSUME GrantNonce = {}, TypeOK, ServedUpToChain, ServedAtMostOnce, [Next]_vars
    PROVE  ServedAtMostOnce'
<1>1. CASE UNCHANGED serves
  BY <1>1 DEF ServedAtMostOnce
<1>2. ASSUME NEW s \in Session, ReceiveAccepted(s)
      PROVE  ServedAtMostOnce'
  <2>1. PICK m \in net :
          /\ m \in Msg
          /\ \E d \in Deliverable :
               d[1] = m /\ PresentAccepted(TikOf[s], s, m, d[2], None)
          /\ serves' = [serves EXCEPT
               ![s] = Append(serves[s], [counter |-> m.counter, tee |-> m.evidence.tee])]
    BY <1>2, AcceptedEffect
  <2>2. conn[s] = "open"
    BY <1>2 DEF ReceiveAccepted
  <2>3. /\ m.counter \in Nat
        /\ Started(TikOf[s], s) =>
             /\ sessions[TikOf[s]][s].counter \in Nat
             /\ m.counter = sessions[TikOf[s]][s].counter + 1
    BY <2>1, <2>2, AdvanceEffect DEF PresentAccepted
  <2>4. [counter |-> m.counter, tee |-> m.evidence.tee] \in [counter : Nat, tee : Tee]
    BY <2>1 DEF Msg
  <2>5. \A i \in DOMAIN serves[s] : serves[s][i].counter < m.counter
    <3> SUFFICES ASSUME NEW i \in DOMAIN serves[s]
                 PROVE  serves[s][i].counter < m.counter
      OBVIOUS
    <3>1. /\ Started(TikOf[s], s)
          /\ serves[s][i].counter <= sessions[TikOf[s]][s].counter
      BY <2>2 DEF ServedUpToChain
    <3>2. serves[s] \in Seq([counter : Nat, tee : Tee])
      BY DEF TypeOK, HistoryTypeOK
    <3>3. serves[s][i] \in [counter : Nat, tee : Tee]
      BY <3>2, ElementType
    <3> QED BY <2>3, <3>1, <3>3
  <2>6. ASSUME NEW r \in Session, NEW i \in DOMAIN serves'[r], NEW j \in DOMAIN serves'[r], i < j
        PROVE  serves'[r][i].counter < serves'[r][j].counter
    <3>1. CASE r # s
      BY <2>1, <2>4, <2>6, <3>1, HistoryGrows DEF ServedAtMostOnce
    <3>2. CASE r = s
      <4> DEFINE n == Len(serves[s])
      <4>1. /\ n \in Nat /\ DOMAIN serves[s] = 1 .. n /\ DOMAIN serves'[s] = 1 .. n + 1
            /\ serves'[s][n + 1] = [counter |-> m.counter, tee |-> m.evidence.tee]
            /\ \A x \in DOMAIN serves[s] : serves'[s][x] = serves[s][x]
        BY <2>1, <2>4, HistoryGrows
      <4>2. i \in DOMAIN serves[s]
        BY <2>6, <3>2, <4>1
      <4>3. CASE j = n + 1
        BY <2>5, <3>2, <4>1, <4>2, <4>3
      <4>4. CASE j # n + 1
        <5>1. j \in DOMAIN serves[s]
          BY <2>6, <3>2, <4>1, <4>4
        <5> QED BY <2>6, <3>2, <4>1, <4>2, <5>1 DEF ServedAtMostOnce
      <4> QED BY <4>3, <4>4
    <3> QED BY <3>1, <3>2
  <2> QED BY <2>6 DEF ServedAtMostOnce
<1> QED BY <1>1, <1>2, OnlyAcceptedServes

\* Where nothing is moved, no position of a session is ever accepted twice or
\* after a later one, whatever is repeated or reordered, the store may fail
\* and the process restart.
THEOREM EachPositionOnce ==
    ASSUME GrantNonce = {}
    PROVE  Spec => []ServedAtMostOnce
<1>1. Init => ServedUpToChain /\ ServedAtMostOnce
  BY DEF Init, ServedUpToChain, ServedAtMostOnce
<1>2. TypeOK /\ ServedUpToChain /\ ServedAtMostOnce /\ [Next]_vars
        => ServedUpToChain' /\ ServedAtMostOnce'
  BY UpToChainPreserved, OncePreserved
<1> QED BY <1>1, <1>2, TypeCorrect, PTL DEF Spec

-----------------------------------------------------------------------------
(* Every position is served, where the store does not raise either.        *)

\* A session that has not been closed was served once for each link up to the one
\* on record.
InStep(r) ==
    conn[r] # "closed" =>
        IF Started(TikOf[r], r) THEN Len(serves[r]) = sessions[TikOf[r]][r].counter + 1
        ELSE serves[r] = <<>>

\* A session whose chain and history a step leaves alone.
LEMMA InStepKept ==
    ASSUME TypeOK, [Next]_vars, NEW r \in Session, InStep(r),
           serves'[r] = serves[r],
           sessions'[TikOf[r]][r] = sessions[TikOf[r]][r]
    PROVE  InStep(r)'
<1>1. conn'[r] = "closed" \/ conn[r] # "closed"
  BY ConnectionKinds
<1> QED BY <1>1 DEF InStep, Started

\* A step accepted is at the position after those its session was served.
LEMMA AcceptedIsNext ==
    ASSUME TypeOK, NEW s \in Session, InStep(s), ReceiveAccepted(s)
    PROVE  \E m \in Msg :
             /\ m.counter = Len(serves[s])
             /\ serves' = [serves EXCEPT
                  ![s] = Append(serves[s], [counter |-> m.counter, tee |-> m.evidence.tee])]
             /\ \A q \in Session : sessions'[TikOf[q]][q] =
                  IF q = s THEN [prev |-> m.link, counter |-> m.counter]
                  ELSE sessions[TikOf[q]][q]
             /\ conn[s] = "open" /\ UNCHANGED conn
<1>1. PICK m \in net :
        /\ m \in Msg
        /\ \E d \in Deliverable :
             d[1] = m /\ PresentAccepted(TikOf[s], s, m, d[2], None)
        /\ serves' = [serves EXCEPT
             ![s] = Append(serves[s], [counter |-> m.counter, tee |-> m.evidence.tee])]
  BY AcceptedEffect
<1>2. conn[s] = "open" /\ UNCHANGED conn
  BY DEF ReceiveAccepted, partyVars
<1>3. /\ \A q \in Session : sessions'[TikOf[q]][q] =
           IF q = s THEN [prev |-> m.link, counter |-> m.counter]
           ELSE sessions[TikOf[q]][q]
      /\ Started(TikOf[s], s) => m.counter = sessions[TikOf[s]][s].counter + 1
      /\ ~Started(TikOf[s], s) => m.counter = 0
  BY <1>1, <1>2, AdvanceEffect DEF PresentAccepted
<1>4. m.counter = Len(serves[s])
  <2>1. Len(<<>>) = 0
    OBVIOUS
  <2> QED BY <1>2, <1>3, <2>1 DEF InStep
<1> QED BY <1>1, <1>2, <1>3, <1>4

\* Sessions stay in step with their chains, and in order.
LEMMA InStepPreserved ==
    ASSUME GrantNonce = {}, ~StoreMayFail, TypeOK, ServedUpToChain,
           \A s \in Session : InStep(s), [Next]_vars, NEW r \in Session
    PROVE  InStep(r)'
<1>1. CASE Quiet
  BY <1>1, InStepKept DEF Quiet
<1>2. ASSUME NEW s \in Session, ReceiveAccepted(s)
      PROVE  InStep(r)'
  <2>1. PICK m \in Msg :
          /\ m.counter = Len(serves[s])
          /\ serves' = [serves EXCEPT
               ![s] = Append(serves[s], [counter |-> m.counter, tee |-> m.evidence.tee])]
          /\ \A q \in Session : sessions'[TikOf[q]][q] =
               IF q = s THEN [prev |-> m.link, counter |-> m.counter]
               ELSE sessions[TikOf[q]][q]
          /\ conn[s] = "open" /\ UNCHANGED conn
    BY <1>2, AcceptedIsNext
  <2>2. [counter |-> m.counter, tee |-> m.evidence.tee] \in [counter : Nat, tee : Tee]
    BY DEF Msg
  <2>3. CASE r # s
    <3>1. serves'[r] = serves[r] /\ sessions'[TikOf[r]][r] = sessions[TikOf[r]][r]
      BY <2>1, <2>2, <2>3, HistoryGrows
    <3> QED BY <3>1, InStepKept
  <2>4. CASE r = s
    <3>1. Len(serves'[s]) = m.counter + 1
      <4>1. serves[s] \in Seq([counter : Nat, tee : Tee])
        BY DEF TypeOK, HistoryTypeOK
      <4>2. serves'[s] = Append(serves[s], [counter |-> m.counter, tee |-> m.evidence.tee])
        BY <2>1 DEF TypeOK, HistoryTypeOK
      <4> QED BY <2>1, <4>1, <4>2
    <3>2. [prev |-> m.link, counter |-> m.counter] # None
      BY ChainAssumption DEF Chain, Msg
    <3>3. Started(TikOf[s], s)' /\ sessions'[TikOf[s]][s].counter = m.counter
      BY <2>1, <3>2 DEF Started
    <3> QED BY <2>4, <3>1, <3>3 DEF InStep
  <2> QED BY <2>3, <2>4
<1>3. ASSUME NEW s \in Session, ReceiveUnsaved(s)
      PROVE  InStep(r)'
  BY <1>3 DEF ReceiveUnsaved, PresentUnsaved
<1>4. ASSUME NEW k \in Tik, NEW n \in Nonce, Enrol(k, n)
      PROVE  InStep(r)'
  BY <1>4, InStepKept DEF Enrol, EnrollAccepted
<1>5. ASSUME NEW k \in Tik, Move(k)
      PROVE  InStep(r)'
  BY <1>5, NothingMoves
<1>6. CASE Restart
  <2>1. /\ conn' = [s \in Session |-> IF conn[s] = "open" THEN "closed" ELSE conn[s]]
        /\ sessions' = [k \in Tik |-> [s \in Session |-> None]]
        /\ serves' = serves
    BY <1>6 DEF Restart, MandateRestart, history
  <2>2. ~Started(TikOf[r], r)'
    BY <2>1, DeploymentAssumption DEF Started
  <2>3. conn'[r] # "closed" => conn[r] = "idle"
    BY <2>1 DEF TypeOK, PartyTypeOK
  <2>4. conn[r] = "idle" => serves'[r] = <<>>
    BY <2>1 DEF ServedUpToChain
  <2> QED BY <2>2, <2>3, <2>4 DEF InStep
<1> QED BY <1>1, <1>2, <1>3, <1>4, <1>5, <1>6, StepKinds

\* A step accepted is served in its turn.
LEMMA OrderPreserved ==
    ASSUME TypeOK, \A r \in Session : InStep(r), ServedInOrder, [Next]_vars
    PROVE  ServedInOrder'
<1>1. CASE UNCHANGED serves
  BY <1>1 DEF ServedInOrder
<1>2. ASSUME NEW s \in Session, ReceiveAccepted(s)
      PROVE  ServedInOrder'
  <2>1. PICK m \in Msg :
          /\ m.counter = Len(serves[s])
          /\ serves' = [serves EXCEPT
               ![s] = Append(serves[s], [counter |-> m.counter, tee |-> m.evidence.tee])]
    BY <1>2, AcceptedIsNext
  <2>2. [counter |-> m.counter, tee |-> m.evidence.tee] \in [counter : Nat, tee : Tee]
    BY DEF Msg
  <2> SUFFICES ASSUME NEW r \in Session, NEW i \in DOMAIN serves'[r]
               PROVE  serves'[r][i].counter = i - 1
    BY DEF ServedInOrder
  <2>3. CASE r # s
    <3>1. serves'[r] = serves[r]
      BY <2>1, <2>2, <2>3, HistoryGrows
    <3> QED BY <3>1 DEF ServedInOrder
  <2>4. CASE r = s
    <3> DEFINE n == Len(serves[s])
    <3>1. /\ n \in Nat /\ DOMAIN serves[s] = 1 .. n /\ DOMAIN serves'[s] = 1 .. n + 1
          /\ serves'[s][n + 1] = [counter |-> m.counter, tee |-> m.evidence.tee]
          /\ \A x \in DOMAIN serves[s] : serves'[s][x] = serves[s][x]
      BY <2>1, <2>2, HistoryGrows
    <3>2. CASE i = n + 1
      BY <2>1, <2>4, <3>1, <3>2
    <3>3. CASE i # n + 1
      <4>1. i \in DOMAIN serves[s]
        BY <2>4, <3>1, <3>3
      <4> QED BY <2>4, <3>1, <4>1 DEF ServedInOrder
    <3> QED BY <3>2, <3>3
  <2> QED BY <2>3, <2>4
<1> QED BY <1>1, <1>2, OnlyAcceptedServes

\* Where nothing is moved and the store does not raise, what a session is served is
\* positions 0, 1, 2, ... of its chain, whatever is repeated, reordered or withheld
\* and however often the process restarts.
THEOREM EachPositionInTurn ==
    ASSUME GrantNonce = {}, ~StoreMayFail
    PROVE  Spec => []ServedInOrder
<1> DEFINE AllInStep == \A r \in Session : InStep(r)
<1>1. Init => ServedUpToChain /\ AllInStep /\ ServedInOrder
  <2> SUFFICES ASSUME Init  PROVE ServedUpToChain /\ AllInStep /\ ServedInOrder
    OBVIOUS
  <2>1. \A r \in Session : serves[r] = <<>> /\ ~Started(TikOf[r], r)
    BY DeploymentAssumption DEF Init, MandateInit, Started
  <2> QED BY <2>1 DEF Init, ServedUpToChain, InStep, ServedInOrder
<1>2. TypeOK /\ ServedUpToChain /\ AllInStep /\ ServedInOrder /\ [Next]_vars
        => ServedUpToChain' /\ AllInStep' /\ ServedInOrder'
  BY UpToChainPreserved, InStepPreserved, OrderPreserved
<1> QED BY <1>1, <1>2, TypeCorrect, PTL DEF Spec
=============================================================================
