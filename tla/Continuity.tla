----------------------------- MODULE Continuity -----------------------------
(***************************************************************************)
(* The mandate with everyone who calls it: guests attesting the steps of   *)
(* their sessions (class Attester), relying parties appraising what comes  *)
(* out of their own connections (hatls/client.py), owners issuing grants   *)
(* and permits (hatls/transfer.py).                                        *)
(*                                                                         *)
(* A message once sent can be received in any open connection, any number  *)
(* of times and in any order, or never: a peer that forwards, repeats or   *)
(* reorders is the deployment the continuity chain is for.                 *)
(***************************************************************************)
EXTENDS Mandate

CONSTANTS
    TikOf,        \* the identity key proved in each session's handshake
    GuestOf,      \* the guest at the far end of each session; None when the
                  \* far end is an intermediary without a hardware report
    OwnerOf,      \* the transfer authority an identity names, or None
    Clones,       \* guests on which a session's guest end can be re-hosted
    OfferHeads,   \* sessions whose relying party asks for its mandate's head to be
                  \* bound
    GrantFor, PermitFor,   \* validity of grants and permits
    MaxPermits,   \* bound on the permits issued
    MaxSteps      \* bound on the steps attested in one session

ASSUME DeploymentAssumption ==
    /\ TikOf \in [Session -> Tik]
    /\ GuestOf \in [Session -> Tee \cup {None}]
    /\ OwnerOf \in [Tik -> Authority \cup {None}]
    /\ Clones \subseteq Tee
    /\ OfferHeads \subseteq Session
    /\ {GrantFor, PermitFor, MaxPermits, MaxSteps} \subseteq Nat

VARIABLES
    guest,    \* the attester of each session on each guest that runs it
    conn,     \* each session at the relying party: idle, open or closed
    net,      \* every message ever sent
    grants,   \* every grant ever issued
    permits,  \* every enrolment permit ever issued
    serves,   \* history: the steps accepted in each session, in order
    births,   \* history: how often each challenge nonce enrolled an identity
    moves     \* history: how often each grant moved an identity

partyVars == <<guest, conn, net, grants, permits>>
history == <<serves, births, moves>>
vars == <<mandateVars, partyVars, history>>

-----------------------------------------------------------------------------
(* Guests.                                                                 *)

\* Attester.attest: the chain grows by one link whatever becomes of it.
Attest(s, t, head) ==
    /\ guest[s][t] # None
    /\ guest[s][t].counter < MaxSteps
    /\ LET g == guest[s][t]
           base == IF g.prev = None THEN IntraLink(s, TikOf[s]) ELSE g.prev
           m == Message(t, s, base, g.counter, head)
       IN  /\ guest' = [guest EXCEPT ![s][t] = [prev |-> m.link, counter |-> g.counter + 1]]
           /\ net' = net \cup {m}
    /\ UNCHANGED <<mandateVars, conn, grants, permits, history>>

\* Re-hosting: the guest end of a session, keys and attester included, also
\* runs on other hardware from now on.
Rehost(s, t, u) ==
    /\ guest[s][t] # None /\ guest[s][u] = None
    /\ guest' = [guest EXCEPT ![s][u] = guest[s][t]]
    /\ UNCHANGED <<mandateVars, conn, net, grants, permits, history>>

-----------------------------------------------------------------------------
(* Relying parties.                                                        *)

Connect(s) ==
    /\ conn[s] = "idle"
    /\ conn' = [conn EXCEPT ![s] = "open"]
    /\ UNCHANGED <<mandateVars, guest, net, grants, permits, history>>

\* What a relying party can be handed, with or without asking its mandate to
\* check the head the message says it binds.
Deliverable ==
    {d \in net \X Optional({m.head : m \in net}) : d[2] \in {None, d[1].head}}

\* The relying party appraises a message against its own end of the session.
ReceiveAccepted(s) ==
    /\ conn[s] = "open"
    /\ \E d \in Deliverable :
         /\ PresentAccepted(TikOf[s], s, d[1], d[2], None)
         /\ serves' = [serves EXCEPT ![s] =
              Append(@, [counter |-> d[1].counter, tee |-> d[1].evidence.tee])]
    /\ UNCHANGED <<partyVars, births, moves>>

ReceiveUnsaved(s) ==
    /\ conn[s] = "open"
    /\ \E d \in Deliverable : PresentUnsaved(TikOf[s], s, d[1], d[2], None)
    /\ UNCHANGED <<partyVars, history>>

ReceiveRefused(s) ==
    /\ conn[s] = "open"
    /\ \E d \in Deliverable : PresentRefused(TikOf[s], s, d[1], d[2], None)
    /\ UNCHANGED <<partyVars, history>>

-----------------------------------------------------------------------------
(* Enrolment and transfer.                                                 *)

\* make_enrolment_authorisation: one identity, one challenge, for a while.
IssuePermit(k, n) ==
    /\ EnrolmentAuthority # None /\ n \in issued
    /\ Cardinality(permits) < MaxPermits
    /\ permits' = permits \cup
         {[tik |-> k, nonce |-> n, nbf |-> now, exp |-> now + PermitFor,
           signer |-> EnrolmentAuthority]}
    /\ UNCHANGED <<mandateVars, guest, conn, net, grants, history>>

IssueChallenge(n) == Challenge(n) /\ UNCHANGED <<partyVars, history>>

\* A guest answers a challenge it was given, this one or an earlier one, with
\* the CSR of an identity key.
Evidences == {Report(t, EnrolmentData(n, k)) : t \in Tee, n \in issued, k \in Tik}

Enrol(k, n) ==
    /\ \E e \in Evidences, permit \in Optional(permits) :
         EnrollAccepted(k, e, n, e.data.csr, OwnerOf[k], permit)
    /\ births' = [births EXCEPT ![n] = @ + 1]
    /\ UNCHANGED <<partyVars, serves, moves>>

EnrolUnsaved(k, n) ==
    /\ \E e \in Evidences, permit \in Optional(permits) :
         EnrollUnsaved(k, e, n, e.data.csr, permit)
    /\ UNCHANGED <<partyVars, history>>

EnrolRefused(k, n) ==
    /\ \E e \in Evidences, permit \in Optional(permits) :
         EnrollRefused(k, e, n, e.data.csr, permit)
    /\ UNCHANGED <<partyVars, history>>

EnrolTooLate(n) == EnrollExpired(n) /\ UNCHANGED <<partyVars, history>>

\* make_grant: whoever has a key signs a grant, which names the destination and
\* what is being left.
IssueGrant(k, from, to, signer) ==
    /\ \E n \in GrantNonce \ {g.nonce : g \in grants} :
         grants' = grants \cup
           {[tik |-> k, from |-> from, to |-> to, anyOrigin |-> from = None,
             nbf |-> now, exp |-> now + GrantFor, nonce |-> n,
             signer |-> signer]}
    /\ UNCHANGED <<mandateVars, guest, conn, net, permits, history>>

Move(k) ==
    /\ \E g \in grants :
         /\ TransferAccepted(k, g)
         /\ moves' = [moves EXCEPT ![g.nonce] = @ + 1]
    /\ UNCHANGED <<partyVars, serves, births>>

MoveRefused(k) ==
    /\ \E g \in grants : TransferRefused(k, g)
    /\ UNCHANGED <<partyVars, history>>

RevokeIdentity(k) == Revoke(k) /\ UNCHANGED <<partyVars, history>>

-----------------------------------------------------------------------------

ClockTick == Tick /\ UNCHANGED <<partyVars, history>>

\* The relying party's process dies, its mandate and its connections with it.
Restart ==
    /\ MandateRestart
    /\ conn' = [s \in Session |-> IF conn[s] = "open" THEN "closed" ELSE conn[s]]
    /\ UNCHANGED <<guest, net, grants, permits, history>>

Init ==
    /\ MandateInit
    /\ guest = [s \in Session |-> [t \in Tee |->
                  IF GuestOf[s] = t THEN [prev |-> None, counter |-> 0] ELSE None]]
    /\ conn = [s \in Session |-> "idle"]
    /\ net = {} /\ grants = {} /\ permits = {}
    /\ serves = [s \in Session |-> <<>>]
    /\ births = [n \in Nonce |-> 0]
    /\ moves = [n \in GrantNonce |-> 0]

HeadsOnOffer(s) == {None} \cup (IF s \in OfferHeads THEN {CurrentHead} ELSE {})

GuestStep ==
    \E s \in Session, t \in Tee :
        \/ \E head \in HeadsOnOffer(s) : Attest(s, t, head)
        \/ \E u \in Clones : Rehost(s, t, u)

RelyingPartyStep ==
    \E s \in Session :
        \/ Connect(s)
        \/ ReceiveAccepted(s)
        \/ ReceiveUnsaved(s)
        \/ ReceiveRefused(s)

EnrolmentStep ==
    \E n \in Nonce :
        \/ IssueChallenge(n)
        \/ EnrolTooLate(n)
        \/ \E k \in Tik :
             \/ IssuePermit(k, n)
             \/ Enrol(k, n)
             \/ EnrolUnsaved(k, n)
             \/ EnrolRefused(k, n)

OwnerStep ==
    \E k \in Tik :
        \/ \E from \in Optional(Instance), to \in Instance, signer \in Authority :
             IssueGrant(k, from, to, signer)
        \/ Move(k)
        \/ MoveRefused(k)
        \/ RevokeIdentity(k)

Next == GuestStep \/ RelyingPartyStep \/ EnrolmentStep \/ OwnerStep \/ ClockTick \/ Restart

Spec == Init /\ [][Next]_vars

-----------------------------------------------------------------------------
(* Types.                                                                  *)

TreeHead == [epoch : Nat, size : Nat]
Binding == [link : Link, head : Optional(TreeHead)]
Msg == [counter : Nat, link : Link, head : Optional(TreeHead),
        evidence : [tee : Tee, data : Binding]]
Grant == [tik : Tik, from : Optional(Instance), to : Instance, anyOrigin : BOOLEAN,
          nbf : Nat, exp : Nat, nonce : GrantNonce, signer : Authority]
Permit == [tik : Tik, nonce : Nonce, nbf : Nat, exp : Nat, signer : Authority]

PartyTypeOK ==
    /\ guest \in [Session -> [Tee -> Optional([prev : Optional(Link), counter : Nat])]]
    /\ conn \in [Session -> {"idle", "open", "closed"}]
    /\ net \subseteq Msg
    /\ grants \subseteq Grant
    /\ permits \subseteq Permit

HistoryTypeOK ==
    /\ serves \in [Session -> Seq([counter : Nat, tee : Tee])]
    /\ births \in [Nonce -> Nat]
    /\ moves \in [GrantNonce -> Nat]

\* Every variable, the mandate's, its callers' and the history, has its type.
TypeOK == MandateTypeOK /\ PartyTypeOK /\ HistoryTypeOK

-----------------------------------------------------------------------------
(* Safety.                                                                 *)

\* The chain of session s after n honest steps.
HonestLink(s, n) ==
    [session |-> s, tik |-> TikOf[s],
     steps |-> [i \in 1 .. n |-> [exporter |-> s, counter |-> i - 1]]]

\* The steps accepted in a session are positions 0, 1, 2, ... of its chain,
\* each once and in that order, whatever the network repeats or reorders
\* (_appraise's counter and chain tests against a session's last link).
ServedInOrder ==
    \A s \in Session : \A i \in DOMAIN serves[s] : serves[s][i].counter = i - 1

\* As ServedInOrder, for a mandate whose store may fail: a step whose ledger
\* write raised is lost to the record, but no position is ever served twice
\* or after a later one.
ServedAtMostOnce ==
    \A s \in Session : \A i, j \in DOMAIN serves[s] :
        i < j => serves[s][i].counter < serves[s][j].counter

\* Agreement: what is accepted at position n of a session was attested for
\* position n of that very session, by the guest whose claims were judged --
\* a relay's other session, or another position, never passes (post_link
\* recomputed from the relying party's own exporter and context).
ServedIsAttested ==
    \A s \in Session : \A i \in DOMAIN serves[s] :
        \E m \in net :
            /\ m.counter = serves[s][i].counter
            /\ m.evidence.tee = serves[s][i].tee
            /\ m.link = HonestLink(s, m.counter + 1)

LastServed(s) == serves[s][Len(serves[s])]
LiveChain(s) == Started(TikOf[s], s) /\ serves[s] # <<>>
LiveInstance(s) == InstanceOf[LastServed(s).tee]

\* All the live chains of an identity are on one instance, the ledger's
\* incumbent: a second instance is refused as contention, and a transfer ends
\* every chain of the instance it leaves.
OneIncumbent ==
    \A s \in Session : LiveChain(s) =>
        LiveInstance(s) \in {None, ledger[TikOf[s]].observed}

\* A mandate that requires enrolment and anchors has live chains only on the
\* enrolled instance -- also after a restart that lost the ledger, and after
\* a transfer (no silent downgrade).
LiveChainsAreEnrolled ==
    (RequireEnrolment /\ RequireAnchor) =>
        \A s \in Session : LiveChain(s) =>
            /\ ledger[TikOf[s]].enrolled # None
            /\ LiveInstance(s) = ledger[TikOf[s]].enrolled

\* With enrolment on record the mandate knows which instance is legitimate,
\* and does not refuse it as a contender.
EnrolledIsNoContender ==
    \A k \in Tik : \A m \in net :
        (/\ ledger[k].enrolled # None
         /\ InstanceClaim(m.evidence) = ledger[k].enrolled)
            => ~Contends(k, m)

\* The recorded transfers lead, one from where the last arrived, to the
\* instance now enrolled.
TransfersLeadHome ==
    \A k \in Tik :
        LET t == ledger[k].transfers
        IN  /\ \A i \in 1 .. Len(t) - 1 : t[i].to = t[i + 1].from
            /\ t # <<>> => t[Len(t)].to = ledger[k].enrolled

\* An identity only ever moves to an instance that has itself produced evidence,
\* in whichever session, however long ago (the sighting a grant's destination needs).
MovedOnlyToWitnessed ==
    \A k \in Tik : \A i \in DOMAIN ledger[k].transfers :
        \E m \in net : InstanceClaim(m.evidence) = ledger[k].transfers[i].to

\* A grant moves an identity at most once in its life.
GrantMovesOnce == \A n \in GrantNonce : moves[n] <= 1

\* A challenge nonce enrols at most one identity, over expiry, restarts and
\* failing stores.
NonceEnrolsOnce == \A n \in Nonce : births[n] <= 1

-----------------------------------------------------------------------------
(* Action properties.                                                      *)

\* A rejected presenter takes nothing from anyone: what was acceptable in any
\* open session before the refusal is acceptable after it.
RefusalDisturbsNobody ==
    [][(\E s \in Session : ReceiveRefused(s)) =>
         \A s \in Session : \A d \in Deliverable :
             Acceptable(TikOf[s], s, d[1], d[2], None)
                 => Acceptable(TikOf[s], s, d[1], d[2], None)']_vars

\* A served step is served to an entitled instance: not after revocation, on
\* the enrolled instance whenever there is one and the step has a claim, and,
\* for a mandate that pins the silicon, where that instance was enrolled.
ServedIsEntitled ==
    [][\A s \in Session : serves'[s] # serves[s] =>
         LET k == TikOf[s]
             tee == LastServed(s)'.tee
             place == IF InstanceOf[tee] = None THEN None ELSE PlaceOf[tee]
         IN  /\ ~ledger[k].revoked
             /\ ledger[k].enrolled \in {None, InstanceOf[tee]} \/ InstanceOf[tee] = None
             /\ RequirePlace => place # None /\ ledger[k].enrolledPlace \in {None, place}]_vars

\* A durable ledger forgets neither a revocation, nor a dispute while there is
\* room for another, nor -- except to a grant -- where an identity is enrolled;
\* restarts and the record read before and saved after included.
LedgerRemembers ==
    [][Durable => \A k \in Tik :
         /\ ledger[k].revoked => ledger'[k].revoked
         /\ Len(ledger[k].disputes) < DisputeCap
              => SubSeq(ledger'[k].disputes, 1, Len(ledger[k].disputes)) = ledger[k].disputes
         /\ ledger[k].enrolled # None => ledger'[k].enrolled # None
         /\ (/\ ledger[k].enrolled # None
             /\ ledger'[k].enrolled # ledger[k].enrolled)
                => \E g \in grants : moves'[g.nonce] = moves[g.nonce] + 1]_vars

\* The ledger keeps the promise of Custody, an identity's home being the
\* instance enrolled, its incumbent the instance last served, and the words given
\* the grants signed, by its owner or by others.
Promise == INSTANCE Custody WITH
    home <- [k \in Tik |-> ledger[k].enrolled],
    owner <- [k \in Tik |-> ledger[k].authority],
    incumbent <- [k \in Tik |-> ledger[k].observed],
    barred <- {k \in Tik : ledger[k].revoked},
    words <- {[identity |-> g.tik, from |-> g.from, to |-> g.to, by |-> g.signer] : g \in grants}

\* Every step of the deployment is a step the promise allows, or none.
KeepsCustody == Promise!Spec

-----------------------------------------------------------------------------
(* Liveness.                                                               *)

\* The guest keeps attesting and the relying party keeps appraising what
\* arrives in its open connections (the serving loop of tools/guest_probe.py
\* and the client's loop over a session).
Fairness ==
    \A s \in Session :
        /\ WF_vars(GuestOf[s] # None /\ Attest(s, GuestOf[s], None))
        /\ WF_vars(ReceiveAccepted(s))

FairSpec == Spec /\ Fairness

\* The head a guest bound may be one of a mandate that is no more.
HeadsKnown(s) ==
    \A m \in net :
        (m.link.session = s /\ m.evidence.tee = GuestOf[s]) => m.head = None \/ KnowsHead(m.head)

Entitled(s) ==
    /\ conn[s] = "open"
    /\ HeadsKnown(s)
    /\ GuestOf[s] # None
    /\ ~ledger[TikOf[s]].revoked
    /\ ledger[TikOf[s]].enrolled = InstanceOf[GuestOf[s]]

\* Whatever other instances present meanwhile, an open session with a guest
\* on the enrolled instance is served to its last step, unless the identity
\* is revoked or moved; also if every head the guest bound has since been
\* succeeded by others.
EnrolledGuestIsServed ==
    \A s \in Session :
        Entitled(s) ~> (~Entitled(s) \/ Len(serves[s]) = MaxSteps)
=============================================================================
