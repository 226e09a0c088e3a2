# A verification development for hatls

This directory holds TLA+ specifications of hatls: the mandate and everyone who
calls it, the transparency log with its receipts and audits, the durable store,
the appraisal of hardware reports, the guest's server with its callers and a
relay, and the runs on cloud machines. The specifications are model-checked with
TLC on small deployments, and what matters most in them is proved for deployments
of any size with TLAPS.

File and line references are to the repository. Library files are under
`src/hatls/` (`protocol.py`, `log.py`, ...); `examples/`, `tools/` and `docs/`
are beside it.

    tlc -workers 2 -config Chains.cfg MCContinuity      # one run
    tlapm ChainProofs.tla                               # one module of proofs

Contents: [1 the system](#1-the-system) ·
[2 what is hard](#2-what-is-hard) ·
[3 the modules](#3-the-modules) ·
[4 from the code to the model](#4-from-the-code-to-the-model) ·
[5 the runs](#5-the-runs) ·
[6 fairness](#6-fairness) ·
[7 the proofs](#7-the-proofs) ·
[8 where code and documents part](#8-where-code-and-documents-part) ·
[9 what is not modelled](#9-what-is-not-modelled) ·
[10 the plan](#10-the-plan)

## 1 The system

A relying party talks over TLS to a peer that proves possession of an identity
key (TIK). hatls lets the relying party ask, at every step of a session, whether
the peer is still the same hardware instance. The peer's *attester* folds each
step into a chain of links and has the hardware sign the link. The relying
party's *mandate* recomputes the link from its own end of the session, verifies
the hardware report, and compares the report's instance claim with what its
ledger says of the identity. The mandate records every decision in a Merkle log
and hands out receipts.

| component | state | operations | what makes it correct |
|---|---|---|---|
| **Mandate** `protocol.py` 150-632 | the ledger (in a store); `self.sessions`, the chains of open connections; `self._challenges`; `self._roots` and `self.merkle`; `self._peers` | `challenge`, `enroll`, `present`, `accept_transfer`, `revoke`, `observe`, `sth`, `receipt`, `prove_extension` | a chain is accepted in order, each position once; an identity is served to one instance, the enrolled one when there is one; a refusal takes nothing from anyone; an identity moves only on its owner's word and only to hardware that has shown itself; a revocation stays; no restart serves more than before |
| **Attester** `protocol.py` 107-123 | the last link and the counter | `attest` | what it signs fits one position of one session |
| **Key schedule** `protocol.py` 50-104 | none | `intra_link`, `post_link`, `report_data_for`, enrolment requests | different inputs give different outputs |
| **Grants and permits** `transfer.py` | none | make and verify, for a grant and for an enrolment authorisation | good for one identity, one nonce, one window |
| **Merkle log** `log.py` | the entries | `append`, `root`, both proofs, both verifiers | a proof shows exactly one thing; an honest log can show its history and no other can be shown |
| **Receipts, signed heads** `receipt.py` | none | `make_entry`, `sth`, `verify_*`, `is_equivocation` | two histories under one key are evidence; one history never is |
| **Federation** `federation.py` | none (`observe` keeps `_peers`) | `make_bundle`, `cross_witness`, `divergence` | a mandate is convicted exactly when its log does not extend what it was witnessed with |
| **Store** `store.py` | one JSON file per identity; or a dictionary | `get`, `put` | a record is read whole; `put` is atomic |
| **Hardware reports** `tee.py` | a directory of cached certificates, shared by every process | `report`, verifiers | evidence verifies only for the data it binds, and only under certificates that were seen; nothing but a failing service keeps a genuine report from verifying |
| **Client** `client.py` | a connection | connect, `request` | exporter and context are this connection's own; an answer is whole and its own, or an exception |
| **Guest server** `tools/guest_probe.py` | the connection it is at, and what it has made for it; its deadline | accept, read a request, answer it report by report, close | one chain for one connection; an answer is sent whole or not at all; an error costs one connection |
| **Relay** `examples/relay_hw.py`, `relay_demo.py` | two connections | pass one request up and its answer down | what it passes on, however genuine, tells the caller it is there |
| **Cloud runs** `examples/aws_anchor_run.py`, `azure_anchor_run.py` | machines, consoles, results | launch, wait, reassemble, judge, take down | damage is not taken for reports; good for the right reasons; no machine forgotten |
| **Transcript** `transcript.py` | what each end of a connection has sent and received | record a handshake; find the two hellos | both ends find the same messages, whole, however they were cut and delivered |

How they interact. The relying party calls its mandate directly: `present` for
every message of every connection, `challenge` and `enroll` when an identity is
set up, `accept_transfer` when an owner hands it a grant, `revoke` by hand. The
mandate calls the store (`get`, work, `put` of the whole record) and the
report verifier. Guest and mandate share nothing but messages. A guest may fold
a mandate's tree head, or a bundle of several mandates' heads, into what the
hardware signs; `present` then checks that the head is one it has had. Other
mandates and auditors see signed heads, receipts and proofs. A guest's server
and its callers share nothing but connections, of which it serves one at a time.

## 2 What is hard

`PROJECT.json` lists every hazard at its line with the properties that watch
it. In groups:

* **Several connections, one ledger record** (`protocol.py` 497-617). Sessions
  of one identity, honest ones, re-hosted ones and relayed ones, interleave step
  by step. The chain table has a row per session, the ledger one per identity.
* **A network that repeats, reorders, drops and forwards** (598). Only the link
  and the counter together tell positions and sessions apart.
* **Part of a handler happening** (362, 614). `_enroll` deletes the nonce, and
  `_appraise` advances the chain, before `store.put`, which may raise.
* **Restarts** (158). Chains, nonces and the log die; with the default store
  so does the ledger; with a durable one the ledger outlives the log that
  vouched for it.
* **Expiry** (220, 324, 457, `transfer.py` 75, 104). Nonces, permits, grants and
  sightings each run out on their own.
* **Caps** (230, 297, 470). Witnessed instances, disputes, transfers and
  consumed grants are cut to the last 32, 64, 64 and 256.
* **Long legal sequences** (442, 473, 545, 580). Enrolment after service,
  transfers there and back, a lost ledger under a policy.
* **Edges of the tree algorithms** (`log.py` 66-103). Size 0, powers of two, the
  right edge of a lopsided tree.
* **A file replaced under readers** (`store.py` 48-59). Concurrent writers,
  exceptions, a dying process or machine between any two system calls.
* **A file written in place under readers** (`tee.py` 190-199). The certificate
  cache has none of the store's care: whatever exists is read, half written or
  cut short.
* **One connection at a time, without limits** (`tools/guest_probe.py` 156-161,
  `client.py` 43). Who connects and says nothing holds the guest, and the client
  takes its own limit off before the handshake.
* **Answers that end early** (`client.py` 77, `guest_probe.py` 204). The device may
  refuse the third report, the process or the machine die, between any two frames.
* **A console instead of a wire** (`aws_anchor_run.py` 185-200). Lines are lost, cut or
  overwritten, their numbers included; some were printed twice.
* **Machines that cost money** (`aws_anchor_run.py` 219-321). Each command may fail
  before or after it took effect.
* **A stream cut anywhere** (`transcript.py` 47-63). Records cut messages, TCP
  cuts records, and a retry puts a second message of the same type after the
  first.

## 3 The modules

    Evidence <- Mandate <- Continuity <- MCContinuity          (runs)
                              |   \-- Promise == INSTANCE Custody
                              \<- ContinuityProofs <- ChainProofs
    MerkleLog <- MCMerkleLog          Transparency <- MCTransparency
              <- MerkleProofs                      <- TransparencyProofs
                   \-- OfSizes, OfRoots, ... == INSTANCE Recursion
    FileStore <- MCFileStore          FileStore: Atomic == INSTANCE AtomicStore
              <- StoreProofs
    Transcript <- Reattestation <-\
    Verifier <-/   \<- VerifierProofs
                          \-- OfPrefixes, OfMessages, ... == INSTANCE Recursion
                   GuestService <-+- HardwareRuns <- MCHardwareRuns
                      AnchorRun <-/
    GuestService, AnchorRun <- RunsProofs

* `Evidence` — the key schedule and what the hardware signs, as free terms.
* `Mandate` — class Mandate: ledger, chains, challenges. One action for each
  handler and outcome, over the handler's arguments.
* `Continuity` — the mandate composed with its callers: guests, relying
  parties, owners, a network, the clock, the process. All properties of the
  protocol are stated here.
* `Custody` — the abstract specification. Anyone may give a *word*: this identity may
  go there, from here or from anywhere. An identity has at most one home, given once
  and changed only on a word of its owner that names the identity, the new home, and
  the old one or none; it is served to one incumbent, the home when there is one;
  barred, it is neither served nor moved. In the mandate's case the words are the
  grants, and a transfer that did not look at the signature would not implement it.
* `MerkleLog` — the proof algorithms, checked on two logs growing side by side.
* `Transparency` — mandates that decide, sign heads, hand out receipts, are
  witnessed and restart; auditors who compare what they have.
* `FileStore` — `put` one system call at a time; `AtomicStore` — what it
  promises: each `put` takes effect at one instant or never.
* `Transcript` — two recorded ends of a handshake, byte by byte, and what each
  finds in its recording.
* `Verifier` — verifications of SEV-SNP reports, one system call at a time, over
  one cache of certificates.
* `Reattestation` — the two composed, as `examples/reattest_freshness_hw.py` and
  the guest's side of it do: record a handshake, derive the binder from it, have
  it signed, verify the report.
* `GuestService` — the guest's serving loop, the callers of `client.py` and the
  relay, frame by frame.
* `AnchorRun` — a run on two cloud machines, from the first launch to the last
  termination, on AWS or on Azure.
* `HardwareRuns` — the three programs an operator runs against real machines,
  `Reattestation`, `GuestService` and `AnchorRun`, one at a time: they share nothing,
  and one run checks them all.
* `MC*` — small values for the constants. `*Proofs` — theorems.
* `Recursion` — that a recursive function is what its definition says, and
  induction over numbers: to be instantiated for each recursive function that
  something is proved of.

## 4 From the code to the model

### State

| variable | code |
|---|---|
| `ledger[k]` | the record `_rec` returns (`_BLANK`, 185-189): `enrolled` = `enrolled_instance`, `enrolledPlace`, `observed`, `observedPlace`, `revoked`, `disputes`, `authority` = `transfer_authority`, `transfers`, `consumed` = `consumed_grants`, `witnessed` |
| `sessions[k][s]` | `self.sessions[(tik, exporter)]`: last accepted link and counter |
| `challenges[n]`, `issued` | `self._challenges`: nonce to expiry; and which nonces `os.urandom` has given |
| `log` | `self.merkle` by incarnation and length: enough to say which heads `self._roots` holds |
| `now` | `time.time()` |
| `guest[s][t]` | the `Attester` of session `s` on guest `t`; `None` where it does not run |
| `conn`, `net` | open connections; every message ever sent |
| `grants`, `permits` | every grant ever made and signed, by whomever; every enrolment permit issued |
| `serves`, `births`, `moves` | history variables for the properties; no action reads them |
| `log[m]`, `roots[m]`, `life[m]` (`Transparency`) | `MerkleLog.entries`, `self._roots`, how often the process was restarted |
| `signed`, `receipts`, `witnessed` (`Transparency`) | everything ever handed out, and the heads others hold |
| `name`, `disk`, `put` (`FileStore`) | the file under each name as `open` finds it, as it is on disk, and the calls of `put` under way |
| `wrote[e]`, `heard[e]`, `phase[e]` (`Transcript`) | the records of end `e`, all of which it has in `sent`; how much of the other's it has in `received`; how far its `do_handshake` has come |
| `file[n]` (`Verifier`) | the file under the cache name `n`: none, not whole, whole |
| `job[c]`, `verdict[c]` (`Verifier`) | a call of `verify` under way: its report, the certificates it still needs, the line it is at, the attempts made; and what it said last |
| `cut` (`Verifier`) | history: names under which a write was cut short |
| `round` (`Reattestation`) | the binder the guest had signed, and the one the relying party expects |
| `server[h]`, `backlog[h]` (`GuestService`) | the line the guest or the relay is at, and the connection `s`; the kernel's queue of `listen` |
| `call[c]`, `reply[c]` (`GuestService`) | where a caller is in `__enter__` and `request`, what it asked and how many frames it has read; the reports made for a connection, the frames sent, whether it is closed |
| `late` (`GuestService`) | `deadline` has passed |
| `launched`, `results`, `script` (`AnchorRun`) | `launched`; the keys of `results`, in order; where `main` is, and its result |
| `running`, `byHand` (`AnchorRun`) | the machines the provider charges for; those the script told its operator to take down |
| `printed`, `reports[m]` (`AnchorRun`) | the machines whose probes have printed; the bytes the script keeps as theirs, `results[iid]` |
| `claims[m]`, `masked` (`AnchorRun`) | `claims[iid]["instance"]`; `both_masked` |
| `mandate`, `served` (`AnchorRun`) | the record of the script's own `Mandate` and its one chain; the machines whose step it accepted (`okB`, `okA2`) |
| `stale`, `expired` (`AnchorRun`) | the challenge is past its life; `deadline` has passed |
| `amiss` (`AnchorRun`) | history: machines one of whose reports was not genuine, or named an instance other than the other report |

### Actions

| action | handler |
|---|---|
| `Challenge` | `challenge`, 300-306: drop the expired, issue one |
| `EnrollAccepted`, `EnrollUnsaved`, `EnrollExpired`, `EnrollRefused` | `enroll` and `_enroll`, 308-379. The second is `store.put` raising after the nonce was deleted |
| `PresentAccepted`, `PresentUnsaved` | `present` to the end of `_appraise`, 593-632; the second is `store.put` (614) raising after the chain advanced |
| `PresentDeclined` | the refusals that save nothing: revoked, unknown head, bad evidence, no anchor, not enrolled, no place, a first message out of place |
| `PresentImpostor`, `PresentDisplaced`, `PresentContending`, `PresentMisplaced`, `PresentUnchained` | the five refusals that record a dispute; the first and third also record a sighting (`_witness`) |
| `TransferAccepted`, `TransferRefused` | `accept_transfer`, 390-480 |
| `Revoke`, `MandateRestart` | `revoke`, 381-388; the process gone and `__init__` run again over the same store |
| `Attest`, `Rehost` | `Attester.attest`; its state carried to other hardware |
| `Connect`, `Receive*` | `client.py`; a call of `present` with any message the network has |
| `IssuePermit`, `IssueGrant` | `make_enrolment_authorisation`, `make_grant`, the second with anyone's key |
| `Decide`, `SignHead`, `GiveReceipt`, `Witness`, `Restart` (`Transparency`) | `_record`, `sth`, `receipt`, `observe` or `make_bundle`, process death |
| `Open`, `Dump`, `Sync`, `Replace`, `Abandon` (`FileStore`) | the lines of `FileStore.put`; `WriteBack` and `PowerCut` are the operating system's |
| `Feed`, `Client*`, `Server*` (`Transcript`) | `BioConnection._feed`, and `handshake` between two calls of it; what OpenSSL writes is chosen by the model |
| `Begin` (`Verifier`) | `verify` up to its first certificate (`tee.py` 255-268) |
| `Read`, `Miss`, `Fetched`, `Throttled`, `Failed`, `Truncate`, `Fill`, `WriteFailed` (`Verifier`) | the outcomes of the calls in `_get` (190-199), each with the judgement of the certificate that follows it |
| `HangUp`, `Appraise`, `AppraiseElsewhere` (`Reattestation`) | the two `transcript_ch_sh` of a connection; `verify` on the guest's report; `verify` in another process |
| `Dial`, `DialFails`, `SendAsk`, `ReadFrame`, `CallFails`, `Leave` (`GuestService`) | `__enter__` and `request` of the client, and the caller gone at any point |
| `Top`, `AcceptTimesOut`, `Accept`, `Greet`, `Hear`, `Sign`, `SignFails`, `StartSending`, `SendFrame`, `GuestHangsUp` (`GuestService`) | the lines of the guest's loop, 156-235; `LoseCaller` is an exception of a read or a write |
| `Forward`, `RelayFails`, `RelayHangsUp` (`GuestService`) | `relay`, 31-60; its own connection to the guest is a caller's, `Upstream` |
| `GuestDies`, `GuestVanishes`, `GetsLate` (`GuestService`) | the process, or the machine under it, gone; fifteen minutes over |
| `Launch`, `LaunchFails`, `NewRound`, `PollSkips`, `Poll`, `GiveUp`, `ReadClaims`, `EnrolFirst`, `PresentSecond`, `PresentFirst`, `Terminate`, `DeleteGroup` (`AnchorRun`) | `main` of the two scripts, a command or a call of the mandate at a time; `ProbePrints` is the machine, `Expire` and `Lapse` the two clocks |

### What was decided in translating

* The guards of `present` keep the order of `_appraise`: `Appraisable` (up to
  1b), `Recognised` (1c), `Placed` (1d), `Undisputed` (2), `Acceptable` (3
  and 4). A refusal is the first test that fails.
* A link is the list of inputs folded into it, so two links are equal only when
  all inputs are. That is the assumption that HKDF and SHA-256 do not collide.
  The three kinds of report data have different shapes, as their hash inputs
  have different tags.
* A report names the guest that made it. Nobody else can make it, and the
  network may deliver it anywhere, any number of times, or never.
* Handlers are atomic. Nothing in the repository calls a mandate from two
  threads, or opens one store directory from two processes; `protocol.py` takes
  no lock, so either would need one.
* A `store.put` that raises in `revoke`, `accept_transfer`, or a refusal leaves
  everything as it was, since nothing was changed before it: a stutter. Only the
  two handlers that change memory first have an `Unsaved` action.
* A crash within a handler is the handler's action before or after
  `MandateRestart`: what lies between `put` and the end of the handler is in
  memory only.
* `_witness` evicts the oldest sighting past the cap; among sightings of one
  second the code's choice follows list order, the model allows any.
* `HeadAt` gives the empty head to every incarnation, since the root of an empty
  log is a constant; other heads hold entries with times and positions and belong
  to one incarnation.
* In `Transparency` a root stands for the list under it and a consistency proof
  shows only what it was made for: `MerkleLog` checks that of the algorithms.
* In `FileStore` a rename is atomic for readers. It reaches the disk at some
  later time, because the directory is never synced, and a power cut may
  truncate what was not synced. A temporary file left behind by a dead process
  is never read (`get` opens names ending in `.json` it computes itself), so it
  is not kept.
* In `Transcript` a byte is a message and a position, so what a parser returns
  is right exactly when it is the bytes of one message. A hello has a header of
  four bytes and a body of `Size`; record headers carry no byte of their own.
  Only the first ClientHello and the ServerHello are cut, at any set of places.
  A handshake goes on when all that was written has been heard.
* In `Verifier` a certificate has one content, since the service answers one URL
  with one certificate; two processes that write it write the same. `open` and
  `read` of a cached file are one step: it is a few kilobytes in one call. A
  failed `write` raises, or passes unnoticed: the file object is never closed by
  the code, and an error the interpreter meets when it discards it is ignored.
* A report in `Verifier` is what the verifier can tell about it: whether its own
  fields are as required (`sound`), under which key, whether that key signed it,
  whether the key is one of AMD's.
* In `GuestService` a frame is the answer's length or one report in it. A request is
  one frame: a line that comes in part is a caller that has not asked yet. TLS and TCP
  deliver in order or not at all, so nothing is reordered on a connection. A machine
  that vanishes closes nothing; a process that dies closes what it had.
* A caller is given the guest's address or the relay's and cannot tell which. The
  relay serves one connection and ends, as `relay` does.
* In `AnchorRun` a payload is a sequence of bits, cut into chunks of `Width`, the last
  filled up with zeros, and printed as lines with a tag, a number and data, the chunks
  `Passes` times. In each fetch a noisy console may show any two lines lost, or with
  another number, other data, another digest; `reassemble` is modelled with its
  dictionary, in which the later chunk of a number wins, the cut to the announced
  length, and the lookup of a missing number, which raises. A digest is the data it is
  the digest of, or `Noise`: SHA-256 does not collide.
* What the two reports of a machine say, and whether they are genuine, is chosen when
  each is looked at, twice for a machine: the report of enrolment and that of the step
  are two, and need not agree. The script's mandate is a small one of its own: one key,
  one session, no enrolment required, as `Mandate(sevsnp_verifier())` makes it
  (`aws_anchor_run.py` 209).
* In `GuestService` a guest or relay that writes a frame does not block. The code writes
  with `sendall` on a socket without limit (`guest_probe.py` 106, 122, 227), which a
  caller that asks and does not read can hold once the kernel's buffers are full; the
  answers to the requests modelled are a few kilobytes. Such a caller would be one more
  way to be silent, and `OnlySilenceHolds` does not speak of it.

## 5 The runs

Every property of a passing run also has a *mutant*: a definition of the model
changed as a plausible bug would change the code, under which TLC finds the
property violated. They are the definitions marked `Mutant:`.

Unless said otherwise: one identity, sessions `s1` (ends at guest `a`) and `s2`
(ends at `b`), guests on instances and places of their own, one challenge
nonce, anchors required, nothing else required, durable store, no store
failures, two steps per session, no restart.

| run | asks | distinct states |
|---|---|---|
| `chains` | a third session `relay` that ends at an intermediary, re-hosting onto `b`, enrolment and revocation at any moment. Chains in order; every served step attested for its position; one incumbent; refusals harmless; only the entitled served | 95 796 |
| `steady` | enrolment required, ledger in memory, one restart, heads bound into the reports of one of the two sessions, the log told apart up to two decisions, under fairness. No chain on an unenrolled instance; the enrolled guest is served both its steps, whatever the other presents before or between them | 197 466 |
| `transfers` | an owner, two grants (from a named origin or any, signed by the owner or by another authority) with a window of 1, sightings that expire after 1, a clock to 2, one step per session; the two nonces of grants are interchangeable (symmetry). The recorded journey leads home; no move to hardware not seen; no grant moves twice; the ledger forgets nothing; the mandate implements `Custody` | 1 164 152 |
| `enrolment` | two identities, two nonces, two permits with a window, a clock to 2, a store that may raise, one restart, no sessions. A nonce enrols once; no enrolment is overwritten | 21 464 |
| `hardship` | place pinning, one instance claim on two chips, a platform with no claims, a store that may raise after the chain has advanced, room for one dispute. No position twice; entitled only; refusals harmless | 41 100 |
| `merkle` | every pair of logs up to 9 leaves in which the first 3 may differ | 3 969 |
| `transparency` | two mandates under keys they were given, logs up to 2, one restart each, one head witnessed | 85 762 |
| `file_store` | two identities, two records, two writers, power cuts | 33 124 |
| `hardware_runs` | three programs. A handshake recorded and a report appraised: hellos with one byte of body, at most one retry, a relying party and another process, one chip, two attempts at a fetch. A guest with two callers, each to the guest or to the relay, of which one may fall silent, with five requests between them and room for one waiting connection. Two cloud machines with payloads of three and four bits in two chunks of two, on AWS and on Azure, any two lines spoilt in each fetch. The ends agree; no half message; only genuine evidence accepted, refused only for cause; answers are whole and one's own; the relay is caught; damage is no report; the verdict is right; no machine forgotten; everything ends that only silence could hold | 211 927 |
| `late_enrolment`, `round_trip`, `first_head` | one documented claim each, found not to hold: section 8 | up to the violation: about 400, 21 000, 20 |

Why these bounds are enough for the questions asked. *Sessions and guests*:
contention, relay, re-hosting and impersonation each take two parties, and the
`chains` run has three. *Steps*: two tell a first message (no chain) from a
later one (a chain to extend), and give a message that is out of place in either
direction. *Grants*: two race for one origin, or chain. *Time*: each window is
one tick and the clocks of `transfers` and `enrolment` go to 2, so TLC meets the first
second of a window, its last, and the one after. Windows open when grants and permits
are issued, so no answer comes before its window. *Restarts*: one separates
what a process knew from what the store knew. *Caps*: `DisputeCap` and
`WitnessCap` are low enough to be reached, `TransferCap` and `ConsumedCap` are
not reached: see the remark on `consumed_grants` in section 8. *Log sizes*: nine
leaves go past the power of two 8, and include every shape of right edge with up
to three levels above it. *Log heads*: `LogCap` identifies the heads past a size,
0 or 1; `HistoryIsShown` and `Transparency` look at longer logs. *Hellos*: five
bytes are cut in every way, inside and after the four of the header, which is
where the parser changes its mind. *Verifications*: two write one file together
and read what the other writes; `VerifierProofs` covers any number. In
`hardware_runs` there is one connection that leaves a binder behind, and others
verify only once it has: the cache knows nothing of connections. *Callers*: two,
with `Room` 1 where the guest has five places and the relay one, so that a full
queue, a queue reset by a server that stops, and a relayed caller behind a straight
one all happen; the invariant of `RunsProofs` was also checked with three callers
and `Room` 2 (3 395 606 states), and holds for any number. One of the callers asks
for two links or an enrolment, the other for a draft binder after a second hello, a
static one, or nonsense. *Machines*: two, as in the scripts. *Chunks*: two a
machine, the second of one payload not filled, so that one may be lost in both copies,
in one, be made good by the second, take the other's number or a number out of range;
two spoilt lines are enough to lose both copies of a chunk, to renumber one while the
announced count changes, or to spoil the data and the length together. `RunsProofs` covers
any payload and any width.

`CHECK_DEADLOCK FALSE` is in `Merkle.cfg`, where both logs reach their bound, and in
`HardwareRuns.cfg`, whose programs end.

### The properties

Of the connections (`Continuity`):

* `ServedInOrder` — the steps accepted in a session are 0, 1, 2, ..., whatever
  the network does, as long as no transfer takes the identity away and back.
* `ServedAtMostOnce` — the same with a store that may raise: a step may be lost
  to the record, none is accepted twice or out of order.
* `ServedIsAttested` — agreement: what is accepted at position *n* of a session
  was attested for position *n* of that session by the guest whose claims were
  judged. A relay's other session never passes.
* `OneIncumbent` — all live chains of an identity are on one instance.
* `LiveChainsAreEnrolled` — with enrolment required, on the enrolled instance;
  also after the ledger was lost, or a transfer.
* `RefusalDisturbsNobody` (action) — what was acceptable in any session before a
  refusal is acceptable after it.
* `ServedIsEntitled` (action) — nobody is served after revocation, on an instance
  other than the enrolled, or on other silicon when silicon is pinned.
* `EnrolledGuestIsServed` (liveness) — section 6.

Of the ledger: `NonceEnrolsOnce`, `TransfersLeadHome`, `MovedOnlyToWitnessed`,
`GrantMovesOnce`, `LedgerRemembers` (action: a durable ledger forgets no
revocation, no dispute it has room for, and no enrolment except to a grant) and
`KeepsCustody`, the refinement of `Custody` with home = `enrolled_instance`,
owner = `transfer_authority`, incumbent = `observed_instance`, barred =
`revoked`, words = the grants anyone has signed. `MovedOnlyToWitnessed` asks that the
destination's own hardware had sent evidence, at any time: that a sighting has
expired only makes a transfer fail.

Of the log: `InclusionIsOnePlace` (a proof of inclusion verifies for one entry
at one place), `HistoryIsShown` (every log proves that it extends every earlier
nonempty state), `HistoryIsNotFeigned` (no proof either log could make connects
histories that part). `HonestMandateIsAcquitted`, `OwnHeadsAreKnown` and
`DenialIsConvicted` say what the audits make of them.

Of the store: `ReadsAreWhole`, `DiskIsWhole`, `IsAtomic`. The run has power cuts, after
which `AtomicStore` lets a record be an earlier one at any step, so there `IsAtomic`
says little more than `ReadsAreWhole`; the theorem `Atomicity` covers a power that does
not fail as well, where it says that no `put` is undone.

Of the transcript: `EndsAgree` (after a handshake both ends find the hellos that
were sent, or both refuse because of a retry) and `NeverHalf` (during it neither
finds anything but a whole message).

Of the verifier: `AcceptedIsGenuine` (no state of the cache lets a report
through), `TornOnlyWhenCut` (concurrent writers do not spoil a file between them),
`SettledStays` (action: a whole file nobody fetches is not fetched nor truncated
again), `GenuineIsRefusedForCause` (action: a genuine report is refused only for
a certificate that is not settled), `EveryCallEnds` (liveness).

Of the guest's server and its callers:

* `AnswerIsOwn` — an answer `request` returns has as many reports as were asked for,
  each over the right counters and head, and is never in part another's, whoever
  died, hung up or was late, and through the relay too.
* `RelayIsCaught` — every link of an answer is of the caller's own session exactly
  when no relay stands between.
* `OnlySilenceHolds` (liveness) — if no caller that is silent for ever holds the
  guest and its machine is there, everyone who waits is answered or told, and the
  guest stops when it is late. The premise is the point: without it the property
  is false, for the reasons given in section 2.

Of the cloud runs: `ReceivedIsWhole` (what is kept as a machine's reports is what its
probe printed, byte for byte, and a console shown unspoilt is always taken),
`VerdictIsRight` (a run called good has enrolled the first machine on the instance it
named and served it and not the other, which named another; and when every report was
genuine and consistent, the claims differed, on AWS without silicon, and the challenge
held, the run is called good),
`LeftRunningIsSaid` (a run that ends without an exception leaves no machine running
it did not name), `RunEnds` (liveness).

## 6 Fairness

Two runs assume some. `hardware_runs` assumes weak fairness

* of each verification under way, for `EveryCallEnds`: `time.sleep` returns, and
  `urlopen` has a timeout (`tee.py` 195). Nothing is assumed of the service, which
  may answer 429 every time;
* of the guest's and the relay's own steps: a process that is not waiting goes on,
  `accept` wakes after ten seconds (`guest_probe.py` 152), the device answers or
  refuses. Of a handshake only with a caller that goes on talking: the code has no
  limit there, so nothing is assumed of a silent one;
* of the callers that do not fall silent, and of nothing else they might do: no
  caller has to call;
* of the cloud script's steps, each of which is a command with a timeout
  (`aws_anchor_run.py` 32, `azure_anchor_run.py` 28-29), and of its deadline.
  Nothing is assumed of the machines, which may never print.

`steady` assumes some for `EnrolledGuestIsServed`:

* weak fairness of `Attest` by each session's own guest: the serving loop of
  `tools/guest_probe.py` (135-235) answers every request it reads;
* weak fairness of `ReceiveAccepted` for each session: the relying party keeps
  asking and presenting what arrives. A message that is acceptable stays in the
  network until it is presented.

Nothing is assumed of other presenters, of enrolment, of the clock or of
restarts. The claim is: while the session stays open, the identity is neither
revoked nor moved, and the heads its guest bound are still ones the mandate has
had, an open session with a guest on the enrolled instance is served to its last
step. Another instance that keeps being refused cannot prevent it. The condition
on heads is the code's own (519): after a restart the mandate knows none of the
heads it gave out before.

## 7 The proofs

All theorems hold for every value of the constants that meets the named
assumptions: `PlatformAssumption` (`None` is no instance, place, ...),
`MandateAssumption` (settings are Booleans, caps are positive, `None` is no
nonce and no authority), `ChainAssumption` (`None` is no chain entry),
`DeploymentAssumption` (every session proves one identity key, and so on),
`TransparencyAssumption`, `StoreAssumption`, `TranscriptAssumption` (a hello has a
size, zero or more), `VerifierAssumption`,
`VerificationAssumption`, `CallerAssumption`, `MenuAssumption`, `RoomAssumption` and
`FleetAssumption`. They say of the constants what Python's `None` and the types
of the constructor's arguments say; TLC evaluates them in every run.

| theorem | statement |
|---|---|
| `TypeCorrect` (`ContinuityProofs`) | `Spec => []TypeOK` |
| `CustodyIsKept` (`ContinuityProofs`) | `Spec => KeepsCustody`: the deployment implements `Custody`, with grants signed by anyone, restarts and a store that may raise |
| `EntitledAreServed`, `RefusalIsHarmless` (`ContinuityProofs`) | `ServedIsEntitled`, `RefusalDisturbsNobody` |
| `Agreement` (`ChainProofs`) | `[]ServedIsAttested` |
| `IncumbentIsAlone`, `OnlyTheEnrolledIsLive` (`ChainProofs`) | `[]OneIncumbent`, `[]LiveChainsAreEnrolled`, for a store that does not raise |
| `EachPositionOnce` (`ChainProofs`) | `[]ServedAtMostOnce`, where nothing is transferred (`GrantNonce = {}`) |
| `EachPositionInTurn` (`ChainProofs`) | `[]ServedInOrder`, where nothing is transferred and the store does not raise |
| `ChallengeEnrolsOnce`, `JourneysLeadHome`, `DurableLedgerRemembers` (`ContinuityProofs`) | `[]NonceEnrolsOnce`, `[]TransfersLeadHome`, `LedgerRemembers` |
| `MovesAreWitnessed`, `GrantsMoveOnce` (`ContinuityProofs`) | `[]MovedOnlyToWitnessed`; `[]GrantMovesOnce` for a durable ledger no list of consumed grants of which is filled to its cap (`HasRoom`) |
| `TheHonestAreAcquitted`, `HeadsAreKnown`, `DenialsAreConvicted` (`TransparencyProofs`) | `[]HonestMandateIsAcquitted`, `[]OwnHeadsAreKnown`, `[]DenialIsConvicted` |
| `AProofIsOfOnePlace`, `GrowthIsShown`, `GrowthIsNotFeigned` (`MerkleProofs`) | `[]InclusionIsOnePlace`, `[]HistoryIsShown`, `[]HistoryIsNotFeigned`, for logs of any size |
| `WholeRecords`, `DiskStaysWhole`, `Atomicity` (`StoreProofs`) | `[](TypeOK /\ ReadsAreWhole /\ DiskIsWhole)`, `[]DiskIsWhole`, `FileStore` implements `AtomicStore` |
| `BothFindTheSame`, `NoHalfHello` (`VerifierProofs`) | `[]EndsAgree`, `[]NeverHalf`, for hellos of any size, cut at any places |
| `OnlyGenuineIsAccepted`, `OnlyACutTears` (`VerifierProofs`) | `[]AcceptedIsGenuine`, `[]TornOnlyWhenCut` |
| `NoRefusalWithoutCause`, `SettledForGood` (`VerifierProofs`) | `GenuineIsRefusedForCause`, `SettledStays` |
| `AnswersAreOwn`, `RelaysAreCaught` (`RunsProofs`) | `[]AnswerIsOwn`, `[]RelayIsCaught`, of `ServiceSpec` |
| `DamageIsNoReport`, `GoodForTheRightReasons`, `NoneLeftInSilence` (`RunsProofs`) | `[]ReceivedIsWhole`, `[]VerdictIsRight`, `[]LeftRunningIsSaid`, of `AnchorSpec`, for any payloads and chunk width |

How they go:

* **Types.** `TypeOK` is inductive. One lemma for each action of `Mandate`, then
  one step for each action of `Continuity`. All later arguments stand on it.
* **Custody.** With `TypeOK`, each action maps to one abstract step:
  `EnrollAccepted` to `Bind`, `PresentAccepted` to `Serve` (or to nothing when
  the evidence has no claim), `TransferAccepted` to `MoveHome` (the word it needs is
  the grant whose signature `SignedByOwner` checks), `IssueGrant` to `GiveWord`,
  `Revoke` to `Bar`, a restart to `Forget` or to nothing. Everything else leaves home,
  owner, incumbent and revocation alone; that a *refusal* does is the lemma
  `RefusalKeepsStanding`, used again for `RefusalIsHarmless`.
* **Agreement** is not inductive: that the link accepted is the honest one of
  its position needs to know that the link it extends was. `ChainsAreHonest`
  says so of every chain in the table, and is inductive with `TypeOK`;
  `ChainedIsHonest` then derives the shape of the accepted link from the two
  tests of the code (counter, recomputed link).
* **One position once** needs that nothing served lies beyond the chain.
  `ServedUpToChain` says that a session's served positions are at most its
  chain's counter, that a session never opened has served nothing, and that an
  open session that has served has a chain. A transfer breaks the last part, and
  with it the theorem: hence `GrantNonce = {}`, and the finding `round_trip`.
* **In turn.** `InStep` says more when the store does not raise: a session not
  closed was served once for each link up to the one on record, so the next position
  accepted is the number of those served.
* **Moves** stand on `SightingsWereShown`: every sighting a record holds is of
  evidence that was sent. Refusals are the only steps that add one.
* **Grants.** `GrantsAreConsumed`: a nonce is that of one grant, and a grant that has
  moved an identity is on its record's list. It needs the list not to be cut.
* **Nonces.** `NonceIsSpent`: a nonce that is outstanding has been issued and has
  enrolled nobody. A restart empties the table without making a nonce issuable
  again.
* **Journeys.** That the list leads home survives the cut to the last
  `TransferCap` entries because a suffix of a path is a path (`LeadsOn`).
* **The store.** The inductive `Inv` adds two facts: a call that has dumped holds
  in its temporary file the value it was given (`Written`), and every file under
  a name, in memory or on disk, is synced and holds a value once renamed there
  (`Sound`). Without the second a power cut could leave a truncated file.
* **The audits.** `TransparencyInv`: what is witnessed was signed; what is signed under
  the key a process holds is a head it has noted, and no head is signed under a key
  yet to be made (`NoneAhead`, for a key that dies with the process); a receipt shows
  what its head has in its place. Acquittal follows because every head noted is a
  prefix of the log, conviction because two lists that differ in a place are not.
* **The Merkle log.** The invariant is small: entries are numbered with their places
  (`Placed`), so no two leaves of a log are alike. The rest is about the algorithms.
  What the recursive functions compute is what their definitions say because each
  calls itself on less (`Recursion`, instantiated once for each of them). A log of
  `n` leaves is a left part of `k`, the power of two below `n`, and a right part;
  each proof is the proof in one part, then the root of the other. The verifiers
  know nothing of parts: they shift two numbers. `UnderLeft` and `UnderRight` relate
  a walk in a part to the walk in the whole, hash by hash, and `PartWalk` says that
  the second arrives one hash after the first. By induction over the length of
  the log, the one list of hashes that leads from a leaf to the root is
  the one `inclusion_proof` makes (`OnlyItsPath`), and the one that leads from an
  earlier size is the one `consistency_proof` makes, given that size's root
  (`OnlyItsSubproof`). Roots determine logs (`RootOnce`), and where leaves differ no
  two places and no two sizes have the same proof (`PathOnce`, `SubproofOnce`). The
  three properties follow.
* **The guest's server.** `ServiceInv` is a conjunction over connections and over
  servers. `ConnInv`: what was made for a connection is a beginning of the right
  answer to what its caller asked, nothing is sent before it is complete, and no more
  is read than was sent. `WaitInv` and `ServeInv`: a connection is at one place only,
  waiting at one server or served by it, and what was made for any other that is
  open is nothing. `UpstreamInv` ties the relay's own connection to the caller it
  serves. Without the last two an answer could be another's.
* **The cloud runs.** `AnchorInv` says which machines may be running and which named
  at each point of the clearing up, that no machine is counted twice, that what is kept
  is what was printed, and at each point of the judging what the mandate has on record,
  whom it has served and what the history `amiss` holds; the two directions of
  `VerdictIsRight` follow at the end. That what is kept is what was printed goes by the
  digest: however many lines are spoilt it is the printed one or `Noise`, and
  nothing joined from a console is `Noise` (`SoundIsPrinted`). That an unspoilt console
  is taken is that cutting and joining are inverse (`WholeIsSound`): the last chunk of
  number `n` is `Cut(payload, n)`, byte `k` of the payload is byte `(k - 1) % Width + 1`
  of chunk `(k - 1) \div Width`, and the filling is cut off by the length.
* **The transcript.** A stream *opens with* a message when its first records are the
  message, cut somewhere (`Opens`); it still does when more is written. By induction
  from the last of those records to the first, the parser finds the message in such a
  stream (`GathersAll`), and in the first `n` bytes of it as much of the message as
  has come (`GathersWhatCame`). `HandshakeInv` says with which message each stream
  opens, that a `HelloRetryRequest` is in the server's exactly when it opens it, and
  that no end goes on before it has heard a hello (`HeardFirst`). Both properties
  follow. That what an end has heard is enough needs that a stream which opens with a
  message has at least its bytes (`HoldsAMessage`).
* **The verifier.** `AcceptedIsGenuine` is not inductive: at the last certificate
  it must be known that the earlier ones have spoken. `EachIsDue` says what is
  left to look at for a report, and what was found when less is left than was
  wanted. Steps of `Reattestation` are steps of the verifiers or leave them
  alone (`StepIsVerifiers`), so the arguments are about the verifiers only.

`OneIncumbent` and `LiveChainsAreEnrolled` are proved only for a store that does
not raise. Otherwise the chain is in the table and the incumbent is not in the
record (`protocol.py` 614), and after a later transfer or presentation the two may
differ.

Every safety property and action property of a passing run is the statement of a
theorem. Model-checked only, because liveness and `ENABLED` are outside what the
provers do: `EnrolledGuestIsServed`, `EveryCallEnds`, `OnlySilenceHolds`, `RunEnds`.

## 8 Where code and documents part

1. **`late_enrolment`** (code, `protocol.py` 580). Enrolment leaves
   `observed_instance` as it was. If another instance was served before the
   identity was enrolled, the enrolled one passes the enrolment test and is then
   refused as a contender, with the reason "no enrolment on record". The other
   is refused as an impostor: nobody can be served. `docs/DESIGN.md` 82-83
   says that with an enrolment the mandate knows which instance is legitimate.
2. **`round_trip`** (documents, `protocol.py` 473). A transfer deletes the
   chains of the identity. A connection that stays open while the identity is
   moved away and back has no chain, and its first message is accepted again.
   `docs/SEAT-GOALS.md` 129 says that links are not replayed within a session.
3. **`first_head`** (code, `log.py` 71 and 86). The head of the empty log is
   handed out like any other, but no consistency proof from it can be made or
   verified, so a mandate witnessed with it is convicted by its first decision: for
   offering no proof (`federation.py` 95) or, when it offers an empty one, for a proof
   that shows nothing (104). `tests/test_log.py` 58 pins that no proof is made.

Remarks that are not findings:

* A mandate restarted with its store and its signing key starts an empty log
  (`protocol.py` 158), so `divergence` convicts it by any head witnessed before.
  The constructor's comment (155-156) advises that deployment. Hence
  `HonestMandateIsAcquitted` speaks of mandates that were never restarted under
  one key (`NeverRestarted`).
* A certificate cut short in the cache stays there. `_get` reads whatever exists
  and never fetches it again, so every report that needs it is refused until the
  file is removed. `GenuineIsRefusedForCause` says that this, another's
  write under way and a failing service are the only causes.
* `consumed_grants` is cut to its last 256. A grant whose window is longer than
  it takes to consume 256 others could be used again; with a cap of 1 TLC shows
  it. `GrantMovesOnce` holds as long as the cap is not reached.
* `prove_extension` proves consistency to the present head only. An auditor with
  two earlier heads, both outgrown, cannot get a proof between them, and
  `is_equivocation` without a proof convicts an honest mandate of the pair. Each has to
  be compared with the present head, as `HonestMandateIsAcquitted` does.
* What `observe` notes in `self._peers`, and the audit list `self.log` that `_emit` appends to, are
  written and never read; they are not modelled.
* The size in a bundle's entry is not checked against the root; `present` looks
  at the root alone.
* An exception between the first launch and the last termination of a cloud run
  leaves its machines running and says nothing of them: a launch that fails, a
  report without an instance claim (`aws_anchor_run.py` 226, 267), or chunks that are as
  many as announced but not those announced, one number having been overwritten: the
  lookup at 194 is outside the `try` and raises `KeyError`, where the docstring (186)
  has damage refused. The Azure script does the same. `LeftRunningIsSaid`
  speaks of the runs that end otherwise.
* A cloud run calls its result good when the second machine was refused, whatever
  for (303): evidence of it that does not verify will do. `VerdictIsRight` therefore
  says of the second machine that it named another instance and was not served, and
  not why.
* The challenge of a cloud run lives five minutes (`protocol.py` 151), and the script
  waits fifteen (`aws_anchor_run.py` 238) or twenty (`azure_anchor_run.py` 161) for what
  answers it: machines that report later are genuine and the result is unexpected.
* A guest held by a silent caller serves past its fifteen minutes, and a client of a
  machine that vanished waits for ever: see `OnlySilenceHolds`.
* `FileStore.put` does not sync the directory. A record that was put may be the
  previous one after a power cut: whole, but older, a revocation included.
  `AtomicStore` says so (its power cut may bring back an earlier record).

## 9 What is not modelled

* **The binder** of `transcript.py` (29-88), a function of the two hellos, the key
  and the hash.
* **Report layouts**: parsing of binary reports and certificates; the models
  take "verifies for this data, with these claims".
* **`tools/liveness_probe.py`, `bench`, and the other `examples/`**: straight-line
  scripts, which call the library in one order and show what came of it. The
  scenarios of `examples/run_local.py`, `attack.py` and the `*_hw.py` scripts are
  behaviours of `Continuity`, `Transparency` and `GuestService`; `malleability.py`,
  `hrr_finished_check.py` and `tdx_claims_run.py` work on the bytes of signatures,
  handshakes and reports.
* **`formal/`**: the repository's own symbolic models of the key schedule.
  They argue what is assumed here.
* **Two mandates over one store directory, or threads over one mandate**:
  section 4. A composition of read, work and save over `FileStore` would show which
  properties need the mandate to be alone.
* **Issuer's and mandate's clocks** are one; grants and permits are issued
  with a window that starts when they are made.

## 10 The plan

Done, in this order: `Evidence`, `Mandate`, `Continuity` with `chains` and its
type theorem; `Custody`; transfers and enrolment; `MerkleLog`; `Transparency`;
`FileStore` and `AtomicStore`; `Transcript`, `Verifier` and `Reattestation`;
`GuestService`, `AnchorRun` and `HardwareRuns`; the proofs of section 7, which cover
every safety property of the runs.

What would come next:

1. **Mandates over one store**: read, work, save as three steps over `FileStore`,
   to show which of the ledger's properties need the mandate to be alone.
2. **`GuestService` under `Continuity`**: the network of `Continuity` as the frames of
   `GuestService`, with a step of a chain lost only where an answer ended early.
3. **Two clocks**: the issuer's of a grant or permit beside the mandate's, each with a
   drift, for the edges of their windows.
