------------------------------- MODULE Mandate -------------------------------
(***************************************************************************)
(* The mandate (hatls/protocol.py, class Mandate): the relying party's     *)
(* authority over an identity.  It keeps a ledger in a store, and three    *)
(* pieces of state that die with the process: the chains of the open       *)
(* connections, the enrolment nonces it has issued, and its Merkle log.    *)
(*                                                                         *)
(* Every handler is an action over its arguments; a handler with several   *)
(* outcomes that change state differently is one action per outcome, whose *)
(* guard is the code's sequence of tests up to that outcome.  The callers  *)
(* are in the modules that extend this one.                                *)
(***************************************************************************)
EXTENDS Evidence, FiniteSets, Functions

CONSTANTS
    Authority,          \* keys that sign grants and enrolment permits
    Nonce,              \* challenge nonces (os.urandom: never issued twice)
    GrantNonce,         \* grant nonces
    Self,               \* this mandate's id in a bundle of heads
    RequireAnchor, RequireEnrolment, RequirePlace,   \* constructor settings
    EnrolmentAuthority, \* the key that must permit an enrolment, or None
    Durable,            \* the store is a FileStore: the ledger survives
    StoreMayFail,       \* store.put may raise (disk full, permissions)
    ChallengeTTL, WitnessTTL,
    WitnessCap, DisputeCap, TransferCap, ConsumedCap,   \* 32, 64, 64 and 256
    LogCap,             \* bound: heads past this size are identified
    MaxTime,            \* bound on the clock
    MaxEpoch            \* bound on restarts

ASSUME MandateAssumption ==
    /\ {RequireAnchor, RequireEnrolment, RequirePlace, Durable, StoreMayFail}
         \subseteq BOOLEAN
    /\ {ChallengeTTL, WitnessTTL, LogCap, MaxTime, MaxEpoch} \subseteq Nat
    /\ {WitnessCap, DisputeCap, TransferCap, ConsumedCap} \subseteq Nat \ {0}
    /\ None \notin Authority \cup Nonce \cup GrantNonce
    /\ EnrolmentAuthority \in Authority \cup {None}

VARIABLES
    ledger,      \* store: the durable record of each identity
    sessions,    \* the last accepted link of each identity's sessions
    challenges,  \* expiry of each outstanding nonce, None when not outstanding
    issued,      \* nonces ever handed out, by any incarnation of the process
    log,         \* the Merkle log: which incarnation's, and how long
    now          \* the clock

mandateVars == <<ledger, sessions, challenges, issued, log, now>>

-----------------------------------------------------------------------------
(* The ledger record, and the log's heads.                                 *)

Optional(S) == S \cup {None}

Dispute == {"impostor", "place", "contention", "counter", "link"}
Sighting == [instance : Instance, place : Optional(Place), at : Nat]
Transfer == [from : Instance, to : Instance, nonce : GrantNonce]

Record ==
    [enrolled : Optional(Instance), enrolledPlace : Optional(Place),
     observed : Optional(Instance), observedPlace : Optional(Place),
     revoked : BOOLEAN, disputes : Seq(Dispute),
     authority : Optional(Authority), transfers : Seq(Transfer),
     consumed : Seq(GrantNonce), witnessed : SUBSET Sighting]

Blank ==
    [enrolled |-> None, enrolledPlace |-> None,
     observed |-> None, observedPlace |-> None,
     revoked |-> FALSE, disputes |-> <<>>,
     authority |-> None, transfers |-> <<>>,
     consumed |-> <<>>, witnessed |-> {}]

Chain == [prev : Link, counter : Nat]

ASSUME ChainAssumption == None \notin Chain

\* Entries carry their position and their time, so two heads are equal only
\* within one incarnation of the log -- except that of the empty log.
HeadAt(epoch, size) ==
    [epoch |-> IF size = 0 THEN 0 ELSE epoch, size |-> size]

CurrentHead == HeadAt(log.epoch, log.size)
KnowsHead(h) == \E n \in 0 .. log.size : h = HeadAt(log.epoch, n)

\* The hash of a bundle, a function from mandate ids to heads.
Commitment(bundle) == [bundle |-> bundle]

\* _record: the decision becomes a leaf.
LogDecision ==
    log' = [log EXCEPT !.size = IF @ < LogCap THEN @ + 1 ELSE @]

\* xs[-cap:]
KeepLast(seq, cap) ==
    IF Len(seq) <= cap THEN seq ELSE SubSeq(seq, Len(seq) - cap + 1, Len(seq))

-----------------------------------------------------------------------------
(* Challenges and enrolment.                                               *)

Outstanding(n) == challenges[n] # None
Live(n) == Outstanding(n) /\ now < challenges[n]

\* challenge(): drop what has expired, hand out a fresh nonce.
Challenge(n) ==
    /\ n \notin issued
    /\ issued' = issued \cup {n}
    /\ challenges' = [x \in Nonce |->
                        IF x = n THEN now + ChallengeTTL
                        ELSE IF Live(x) THEN challenges[x] ELSE None]
    /\ UNCHANGED <<ledger, sessions, log, now>>

\* Mutant: the nonce is checked and never spent.
SpendNever(n) == challenges' = challenges

Spend(n) == challenges' = [challenges EXCEPT ![n] = None]

\* verify_enrolment_authorisation, when the mandate has an authority.
Permitted(k, n, permit) ==
    EnrolmentAuthority # None =>
        /\ permit # None
        /\ permit.tik = k
        /\ permit.nonce = n
        /\ permit.nbf <= now /\ now <= permit.exp
        /\ permit.signer = EnrolmentAuthority

\* Mutant: enrolling again overwrites.
EnrollableAgain(k, evidence, n, csr, permit) ==
    /\ Live(n)
    /\ Permitted(k, n, permit)
    /\ csr = k
    /\ Verifies(evidence, EnrolmentData(n, csr))
    /\ InstanceClaim(evidence) # None
    /\ RequirePlace => PlaceClaim(evidence) # None

Enrollable(k, evidence, n, csr, permit) ==
    /\ Live(n)
    /\ Permitted(k, n, permit)
    /\ ledger[k].enrolled = None
    /\ csr = k                      \* well formed, self-signed, this very key
    /\ Verifies(evidence, EnrolmentData(n, csr))
    /\ InstanceClaim(evidence) # None
    /\ RequirePlace => PlaceClaim(evidence) # None

\* enroll(), accepted: the nonce is spent and the first write wins.
EnrollAccepted(k, evidence, n, csr, authority, permit) ==
    /\ Enrollable(k, evidence, n, csr, permit)
    /\ Spend(n)
    /\ ledger' = [ledger EXCEPT
                    ![k].enrolled = InstanceClaim(evidence),
                    ![k].enrolledPlace = PlaceClaim(evidence),
                    ![k].authority = IF authority = None THEN @ ELSE authority]
    /\ LogDecision
    /\ UNCHANGED <<sessions, issued, now>>

\* enroll() when store.put raises: the nonce is gone and nothing is written.
EnrollUnsaved(k, evidence, n, csr, permit) ==
    /\ StoreMayFail
    /\ Enrollable(k, evidence, n, csr, permit)
    /\ Spend(n)
    /\ UNCHANGED <<ledger, sessions, issued, log, now>>

\* enroll() with a nonce found expired: it is forgotten.
EnrollExpired(n) ==
    /\ Outstanding(n) /\ ~Live(n)
    /\ Spend(n)
    /\ LogDecision
    /\ UNCHANGED <<ledger, sessions, issued, now>>

\* enroll(), any other refusal: the nonce, if any, stays outstanding.
EnrollRefused(k, evidence, n, csr, permit) ==
    /\ Outstanding(n) => Live(n)
    /\ ~Enrollable(k, evidence, n, csr, permit)
    /\ LogDecision
    /\ UNCHANGED <<ledger, sessions, challenges, issued, now>>

-----------------------------------------------------------------------------
(* present(): the tests of _appraise, in order.                            *)

HeadAccepted(head, bundle) ==
    \/ head = None
    \/ /\ bundle # None
       /\ head = Commitment(bundle)
       /\ Self \in DOMAIN bundle
       /\ KnowsHead(bundle[Self])
    \/ /\ bundle = None
       /\ KnowsHead(head)

\* Up to 1b: the evidence is genuine, binds this link, and is of a kind the
\* mandate's settings let it judge.
Appraisable(k, m, head, bundle) ==
    /\ ~ledger[k].revoked
    /\ HeadAccepted(head, bundle)
    /\ Verifies(m.evidence, ReportData(m.link, head))
    /\ RequireAnchor => InstanceClaim(m.evidence) # None
    /\ RequireEnrolment => ledger[k].enrolled # None

\* 1c, 1d, 2: the claims differ from those on record.
Differs(claim, onRecord) == onRecord # None /\ claim # None /\ claim # onRecord

\* Mutant: an instance that is not on record is let through.
Unchecked(k, m) == FALSE

Foreign(k, m) == Differs(InstanceClaim(m.evidence), ledger[k].enrolled)
Unplaced(m) == RequirePlace /\ PlaceClaim(m.evidence) = None
Displaced(k, m) == RequirePlace /\ Differs(PlaceClaim(m.evidence), ledger[k].enrolledPlace)
Contends(k, m) == Differs(InstanceClaim(m.evidence), ledger[k].observed)

Recognised(k, m, head, bundle) ==
    Appraisable(k, m, head, bundle) /\ ~Foreign(k, m)
Placed(k, m, head, bundle) ==
    Recognised(k, m, head, bundle) /\ ~Unplaced(m) /\ ~Displaced(k, m)
Undisputed(k, m, head, bundle) ==
    Placed(k, m, head, bundle) /\ ~Contends(k, m)

\* 3, 4: the position in this session's chain, and the link itself.
Started(k, s) == sessions[k][s] # None
Positioned(k, s, m) ==
    m.counter = IF Started(k, s) THEN sessions[k][s].counter + 1 ELSE 0
Base(k, s) == IF Started(k, s) THEN sessions[k][s].prev ELSE IntraLink(s, k)
\* Mutant: the link in the message is believed, not recomputed.
ChainsUnchecked(k, s, m) == TRUE

Chains(k, s, m) == m.link = PostLink(s, Base(k, s), m.counter)

Acceptable(k, s, m, head, bundle) ==
    Undisputed(k, m, head, bundle) /\ Positioned(k, s, m) /\ Chains(k, s, m)

\* _witness: one fresh sighting per instance, the oldest evicted past the cap.
Witnessing(k, evidence) ==
    LET fresh == {w \in ledger[k].witnessed :
                    /\ w.instance # InstanceClaim(evidence)
                    /\ now < w.at + WitnessTTL}
        seen == fresh \cup {[instance |-> InstanceClaim(evidence),
                             place |-> PlaceClaim(evidence), at |-> now]}
    IN  IF Cardinality(seen) <= WitnessCap THEN {seen}
        ELSE {seen \ {w} : w \in {v \in fresh : \A u \in fresh : v.at <= u.at}}

\* A refusal that leaves the ledger and the chains as they are.
PresentDeclined(k, s, m, head, bundle) ==
    /\ \/ ~Appraisable(k, m, head, bundle)
       \/ Recognised(k, m, head, bundle) /\ Unplaced(m)
       \/ /\ Undisputed(k, m, head, bundle)
          /\ ~Started(k, s) /\ ~Positioned(k, s, m)
    /\ LogDecision
    /\ UNCHANGED <<ledger, sessions, challenges, issued, now>>

\* Refusals that leave a dispute, and for the first two a sighting.
Disputed(k, why) ==
    /\ ledger' = [ledger EXCEPT ![k].disputes = KeepLast(Append(@, why), DisputeCap)]
    /\ LogDecision
    /\ UNCHANGED <<sessions, challenges, issued, now>>

\* Mutant: a refused presenter costs the identity its standing.
SightedAndRevoked(k, m, why) ==
    /\ \E seen \in Witnessing(k, m.evidence) :
         ledger' = [ledger EXCEPT ![k].disputes = KeepLast(Append(@, why), DisputeCap),
                                  ![k].revoked = TRUE, ![k].witnessed = seen]
    /\ LogDecision
    /\ UNCHANGED <<sessions, challenges, issued, now>>

\* Mutant: the last presenter, refused or not, becomes the incumbent.
SightedAsIncumbent(k, m, why) ==
    /\ \E seen \in Witnessing(k, m.evidence) :
         ledger' = [ledger EXCEPT ![k].disputes = KeepLast(Append(@, why), DisputeCap),
                                  ![k].witnessed = seen,
                                  ![k].observed = InstanceClaim(m.evidence)]
    /\ LogDecision
    /\ UNCHANGED <<sessions, challenges, issued, now>>

\* Mutant: the dispute is written over the ones before it.
SightedAlone(k, m, why) ==
    /\ \E seen \in Witnessing(k, m.evidence) :
         ledger' = [ledger EXCEPT ![k].disputes = <<why>>, ![k].witnessed = seen]
    /\ LogDecision
    /\ UNCHANGED <<sessions, challenges, issued, now>>

Sighted(k, m, why) ==
    /\ \E seen \in Witnessing(k, m.evidence) :
         ledger' = [ledger EXCEPT ![k].disputes = KeepLast(Append(@, why), DisputeCap),
                                  ![k].witnessed = seen]
    /\ LogDecision
    /\ UNCHANGED <<sessions, challenges, issued, now>>

PresentImpostor(k, m, head, bundle) ==
    /\ Appraisable(k, m, head, bundle) /\ Foreign(k, m)
    /\ Sighted(k, m, "impostor")

PresentDisplaced(k, m, head, bundle) ==
    /\ Recognised(k, m, head, bundle) /\ ~Unplaced(m) /\ Displaced(k, m)
    /\ Disputed(k, "place")

PresentContending(k, m, head, bundle) ==
    /\ Placed(k, m, head, bundle) /\ Contends(k, m)
    /\ Sighted(k, m, "contention")

PresentMisplaced(k, s, m, head, bundle) ==
    /\ Undisputed(k, m, head, bundle)
    /\ Started(k, s) /\ ~Positioned(k, s, m)
    /\ Disputed(k, "counter")

PresentUnchained(k, s, m, head, bundle) ==
    /\ Undisputed(k, m, head, bundle)
    /\ Positioned(k, s, m) /\ ~Chains(k, s, m)
    /\ Disputed(k, "link")

\* Mutant: the chain is never written down.
AdvanceNever(k, s, m) == sessions' = sessions

\* Mutant: the chain keeps what the hardware signed, not the link in it.
AdvanceByBinding(k, s, m) ==
    sessions' = [sessions EXCEPT
                   ![k][s] = [prev |-> ReportData(m.link, m.head), counter |-> m.counter]]

Advance(k, s, m) ==
    sessions' = [sessions EXCEPT
                   ![k][s] = [prev |-> m.link, counter |-> m.counter]]

\* Accepted: the chain advances and the instance becomes the incumbent.
PresentAccepted(k, s, m, head, bundle) ==
    /\ Acceptable(k, s, m, head, bundle)
    /\ Advance(k, s, m)
    /\ ledger' = IF InstanceClaim(m.evidence) = None THEN ledger
                 ELSE [ledger EXCEPT
                         ![k].observed = InstanceClaim(m.evidence),
                         ![k].observedPlace = PlaceClaim(m.evidence)]
    /\ LogDecision
    /\ UNCHANGED <<challenges, issued, now>>

\* Acceptable, but store.put raises after the chain has advanced: the caller
\* sees an exception, the ledger and the log see nothing.
PresentUnsaved(k, s, m, head, bundle) ==
    /\ StoreMayFail
    /\ Acceptable(k, s, m, head, bundle)
    /\ InstanceClaim(m.evidence) # None
    /\ Advance(k, s, m)
    /\ UNCHANGED <<ledger, challenges, issued, log, now>>

PresentRefused(k, s, m, head, bundle) ==
    \/ PresentDeclined(k, s, m, head, bundle)
    \/ PresentImpostor(k, m, head, bundle)
    \/ PresentDisplaced(k, m, head, bundle)
    \/ PresentContending(k, m, head, bundle)
    \/ PresentMisplaced(k, s, m, head, bundle)
    \/ PresentUnchained(k, s, m, head, bundle)

-----------------------------------------------------------------------------
(* Transfer, revocation, the clock and the process.                        *)

\* Mutant: the grant's word is enough that its destination exists.
DestinationsUnseen(k, to) == {[instance |-> to, place |-> None, at |-> now]}

\* The sightings a grant may point at.
Destinations(k, to) ==
    {w \in ledger[k].witnessed : w.instance = to /\ now < w.at + WitnessTTL}

\* Mutant: used grants are remembered and not looked up.
UnusedUnchecked(k, g) == TRUE

Unused(k, g) == g.nonce \notin Range(ledger[k].consumed)

\* Mutant: the entry repeats the grant instead of the ledger.
EntryAsGranted(k, g) == [from |-> g.from, to |-> g.to, nonce |-> g.nonce]

Entry(k, g) == [from |-> ledger[k].enrolled, to |-> g.to, nonce |-> g.nonce]

\* Mutant: any signature will do.
SignedByAnyone(k, g) == ledger[k].authority # None

\* verify_grant, under the key on record.
SignedByOwner(k, g) == ledger[k].authority # None /\ g.signer = ledger[k].authority

Transferable(k, g) ==
    /\ ~ledger[k].revoked
    /\ ledger[k].enrolled # None
    /\ g.tik = k
    /\ SignedByOwner(k, g)
    /\ g.nbf <= now /\ now <= g.exp
    /\ Unused(k, g)
    /\ g.from = None => g.anyOrigin
    /\ g.from # None => g.from = ledger[k].enrolled
    /\ g.to # None
    /\ Destinations(k, g.to) # {}

TransferAccepted(k, g) ==
    /\ Transferable(k, g)
    /\ \E w \in Destinations(k, g.to) :
         ledger' = [ledger EXCEPT
           ![k].enrolled = g.to, ![k].enrolledPlace = w.place,
           ![k].observed = None, ![k].observedPlace = None,
           ![k].transfers =
              KeepLast(Append(@, Entry(k, g)), TransferCap),
           ![k].consumed = KeepLast(Append(@, g.nonce), ConsumedCap)]
    /\ sessions' = [sessions EXCEPT ![k] = [s \in Session |-> None]]
    /\ LogDecision
    /\ UNCHANGED <<challenges, issued, now>>

TransferRefused(k, g) ==
    /\ ~Transferable(k, g)
    /\ LogDecision
    /\ UNCHANGED <<ledger, sessions, challenges, issued, now>>

Revoke(k) ==
    /\ ledger' = [ledger EXCEPT ![k].revoked = TRUE]
    /\ LogDecision
    /\ UNCHANGED <<sessions, challenges, issued, now>>

Tick ==
    /\ now < MaxTime
    /\ now' = now + 1
    /\ UNCHANGED <<ledger, sessions, challenges, issued, log>>

\* Mutant: the chains are carried over with the store.
RestartKeepsChains ==
    /\ log.epoch < MaxEpoch
    /\ ledger' = IF Durable THEN ledger ELSE [k \in Tik |-> Blank]
    /\ challenges' = [n \in Nonce |-> None]
    /\ log' = [epoch |-> log.epoch + 1, size |-> 0]
    /\ UNCHANGED <<sessions, issued, now>>

\* The process dies and another is built over the same store.  A crash inside
\* a handler is this action before or after it: what lies between the store's
\* put and the end of the handler is lost with the process.
MandateRestart ==
    /\ log.epoch < MaxEpoch
    /\ ledger' = IF Durable THEN ledger ELSE [k \in Tik |-> Blank]
    /\ sessions' = [k \in Tik |-> [s \in Session |-> None]]
    /\ challenges' = [n \in Nonce |-> None]
    /\ log' = [epoch |-> log.epoch + 1, size |-> 0]
    /\ UNCHANGED <<issued, now>>

MandateInit ==
    /\ ledger = [k \in Tik |-> Blank]
    /\ sessions = [k \in Tik |-> [s \in Session |-> None]]
    /\ challenges = [n \in Nonce |-> None]
    /\ issued = {}
    /\ log = [epoch |-> 1, size |-> 0]
    /\ now = 0

MandateTypeOK ==
    /\ ledger \in [Tik -> Record]
    /\ sessions \in [Tik -> [Session -> Optional(Chain)]]
    /\ challenges \in [Nonce -> Optional(Nat)]
    /\ issued \subseteq Nonce
    /\ log \in [epoch : Nat, size : Nat]
    /\ now \in Nat
=============================================================================
