------------------------------ MODULE Verifier ------------------------------
(***************************************************************************)
(* The SEV-SNP verifier (hatls/tee.py, sevsnp_verifier): a report is       *)
(* judged by certificates, each read from a cache of files that every      *)
(* process using the package shares, or fetched from AMD's key             *)
(* distribution service and written to it in place.                        *)
(*                                                                         *)
(* A verification is taken one system call at a time, several under way at *)
(* once; it may raise wherever the code does, or die with its process.     *)
(***************************************************************************)
EXTENDS Naturals, Sequences

CONSTANTS
    Call,           \* verifications that may be under way together
    Chip,           \* chips, each with a certificate of its own
    MaxAttempts,    \* 6
    None, Torn, Whole

ASSUME VerifierAssumption ==
    /\ MaxAttempts \in Nat \ {0}
    /\ Torn # Whole /\ None \notin {Torn, Whole}

VARIABLES
    file,       \* the cached certificate under each name
    job,        \* each verification under way, None where there is none
    verdict,    \* what each last verification said of what report, None until it did
    cut         \* history: names under which a write was ever cut short

verifierVars == <<file, job, verdict, cut>>

-----------------------------------------------------------------------------
(* Reports, and the certificates it takes to judge one.                    *)

\* sound: parsed, of the kind expected, over the report data expected, of the
\* measurement expected, not open to debugging.  signed: by the leaf's key.
\* rooted: the leaf is one of AMD's.  A VLEK leaf comes with the report.
\* require_chain is the verifier's that is given the report.
Snp == [sound : BOOLEAN, key : {"VCEK", "VLEK", "none"}, chip : Chip,
        supplied : BOOLEAN, signed : BOOLEAN, rooted : BOOLEAN, require_chain : BOOLEAN]

Genuine(r) ==
    /\ r.sound /\ r.signed
    /\ r.key # "none"
    /\ r.key = "VLEK" => r.supplied
    /\ r.require_chain => r.rooted

Leaf(chip) == [of |-> chip]
ChainFile(key) == [chain |-> key]
Name == {Leaf(chip) : chip \in Chip} \cup {ChainFile(key) : key \in {"VCEK", "VLEK"}}

Wanted(r) ==
    (IF r.key = "VCEK" THEN <<Leaf(r.chip)>> ELSE <<>>)
        \o (IF r.require_chain THEN <<ChainFile(r.key)>> ELSE <<>>)

Job == [report : Snp, left : Seq(Name), at : {"look", "ask", "open", "write"}, tries : Nat]

\* None is no verification under way.
ASSUME VerificationAssumption == None \notin Job

Busy(c) == job[c] # None
At(c, place) == Busy(c) /\ job[c].at = place
Current(c) == Head(job[c].left)

Look(r, left) == [report |-> r, left |-> left, at |-> "look", tries |-> 0]

-----------------------------------------------------------------------------

\* verify() ends.
Answer(c, r, yes) ==
    /\ job' = [job EXCEPT ![c] = None]
    /\ verdict' = [verdict EXCEPT ![c] = [report |-> r, accepted |-> yes]]

Refuse(c) == Answer(c, job[c].report, FALSE)

\* Mutant: a report that is not signed by a VCEK is not one for this verifier.
InadmissibleVlek(r) == ~r.sound \/ r.key # "VCEK"

\* Refused before any certificate is looked at; the signature is checked as
\* soon as there is a leaf.
Inadmissible(r) ==
    \/ ~r.sound
    \/ r.key = "none"
    \/ (r.key = "VLEK" /\ ~(r.supplied /\ r.signed))

Begin(c, r) ==
    /\ ~Busy(c)
    /\ IF Inadmissible(r) THEN Answer(c, r, FALSE)
       ELSE IF Wanted(r) = <<>> THEN Answer(c, r, TRUE)
       ELSE /\ job' = [job EXCEPT ![c] = Look(r, Wanted(r))]
            /\ verdict' = [verdict EXCEPT ![c] = None]
    /\ UNCHANGED <<file, cut>>

\* Mutant: a chain that cannot be parsed is no objection.
UnlessUnparsed(r, name, data) ==
    IF name = Leaf(r.chip) THEN data = Whole /\ r.signed
    ELSE data = Torn \/ r.rooted

\* Does the certificate speak for the report?  A leaf by the signature, the
\* chain by AMD's root; a file cut short does not parse.
Speaks(r, name, data) ==
    /\ data = Whole
    /\ IF name = Leaf(r.chip) THEN r.signed ELSE r.rooted

\* With one certificate in hand: refuse, go on to the next, or accept.
Judge(c, data) ==
    LET r == job[c].report
        next == Tail(job[c].left)
    IN  IF ~Speaks(r, Current(c), data) THEN Refuse(c)
        ELSE IF next = <<>> THEN Answer(c, r, TRUE)
        ELSE /\ job' = [job EXCEPT ![c] = Look(r, next)]
             /\ UNCHANGED verdict

\* _get: what is cached is taken as it is.  Nothing removes a file, so it is
\* read as it stands at the read, whenever it was found to exist.
Read(c) ==
    /\ At(c, "look")
    /\ file[Current(c)] # None
    /\ Judge(c, file[Current(c)])
    /\ UNCHANGED <<file, cut>>

\* Mutant: the cache is not consulted.
MissAlways(c) ==
    /\ At(c, "look")
    /\ job' = [job EXCEPT ![c].at = "ask"]
    /\ UNCHANGED <<file, verdict, cut>>

\* Mutant: the file is opened before there is anything to write to it.
MissOpening(c) ==
    /\ At(c, "look")
    /\ file[Current(c)] = None
    /\ file' = [file EXCEPT ![Current(c)] = Torn]
    /\ job' = [job EXCEPT ![c].at = "ask"]
    /\ UNCHANGED <<verdict, cut>>

Miss(c) ==
    /\ At(c, "look")
    /\ file[Current(c)] = None
    /\ job' = [job EXCEPT ![c].at = "ask"]
    /\ UNCHANGED <<file, verdict, cut>>

Fetched(c) ==
    /\ At(c, "ask")
    /\ job' = [job EXCEPT ![c].at = "open"]
    /\ UNCHANGED <<file, verdict, cut>>

\* Mutant: a throttled fetch is retried for as long as it takes, the waits
\* growing and starting over.
ThrottledForever(c) ==
    /\ At(c, "ask")
    /\ job' = [job EXCEPT ![c].tries = (@ + 1) % MaxAttempts]
    /\ UNCHANGED <<file, verdict, cut>>

\* HTTP 429: wait and ask again, up to MaxAttempts times in all.
Throttled(c) ==
    /\ At(c, "ask")
    /\ IF job[c].tries + 1 < MaxAttempts
       THEN job' = [job EXCEPT ![c].tries = @ + 1] /\ UNCHANGED verdict
       ELSE Refuse(c)
    /\ UNCHANGED <<file, cut>>

\* Any other error of the service or the network, or open() raises.
Failed(c) ==
    /\ At(c, "ask") \/ At(c, "open")
    /\ Refuse(c)
    /\ UNCHANGED <<file, cut>>

\* open(fp, "wb") truncates what is there.
Truncate(c) ==
    /\ At(c, "open")
    /\ file' = [file EXCEPT ![Current(c)] = Torn]
    /\ job' = [job EXCEPT ![c].at = "write"]
    /\ UNCHANGED <<verdict, cut>>

\* The data is written, and judged as it was received.
Fill(c) ==
    /\ At(c, "write")
    /\ file' = [file EXCEPT ![Current(c)] = Whole]
    /\ Judge(c, Whole)
    /\ UNCHANGED cut

CutNow(c) == cut' = IF At(c, "write") THEN cut \cup {Current(c)} ELSE cut

\* The write fails, and the file stays as it is.  write() raises, or the
\* interpreter meets the error when it closes the file, and ignores it.
WriteFailed(c) ==
    /\ At(c, "write")
    /\ Refuse(c) \/ Judge(c, Whole)
    /\ CutNow(c)
    /\ UNCHANGED file

\* The process dies.
Die(c) ==
    /\ Busy(c)
    /\ job' = [job EXCEPT ![c] = None]
    /\ CutNow(c)
    /\ UNCHANGED <<file, verdict>>

VerifierInit ==
    /\ file = [n \in Name |-> None]
    /\ job = [c \in Call |-> None]
    /\ verdict = [c \in Call |-> None]
    /\ cut = {}

\* A step of a verification that is under way.
Proceed(c) ==
    \/ Read(c) \/ Miss(c) \/ Fetched(c) \/ Throttled(c) \/ Failed(c)
    \/ Truncate(c) \/ Fill(c) \/ WriteFailed(c)

VerifierTypeOK ==
    /\ file \in [Name -> {None, Torn, Whole}]
    /\ job \in [Call -> Job \cup {None}]
    /\ verdict \in [Call -> [report : Snp, accepted : BOOLEAN] \cup {None}]
    /\ cut \subseteq Name
    /\ \A c \in Call : Busy(c) => job[c].left # <<>>

-----------------------------------------------------------------------------
(* Properties.                                                             *)

Fetching(c, n) == Busy(c) /\ job[c].at # "look" /\ Current(c) = n
Writing(c, n) == At(c, "write") /\ Current(c) = n

\* A cached certificate that is not whole is being written, or a write of it
\* was cut short: two writers of one file do not spoil it between them.
TornOnlyWhenCut ==
    \A n \in Name : file[n] = Torn => n \in cut \/ \E c \in Call : Writing(c, n)

\* A certificate that is cached and that nobody fetches...
Settled(n) == file[n] = Whole /\ \A c \in Call : ~Fetching(c, n)

\* ... is never fetched nor truncated again.
SettledStays == [][\A n \in Name : Settled(n) => Settled(n)']_verifierVars

\* A genuine report is refused only for a certificate that was not settled:
\* a service that fails, another's write under way, or one cut short.
GenuineIsRefusedForCause ==
    [][\A c \in Call :
         (verdict'[c] \notin {None, verdict[c]} /\ ~verdict'[c].accepted
            /\ Genuine(verdict'[c].report))
             => Busy(c) /\ ~Settled(Current(c))]_verifierVars

\* No report is accepted that is not genuine, whatever state its certificates
\* are found in: a chain that does not parse is no reason to do without one.
AcceptedIsGenuine ==
    \A c \in Call : (verdict[c] # None /\ verdict[c].accepted) => Genuine(verdict[c].report)

\* A verification ends, however long the service keeps answering 429.
EveryCallEnds == \A c \in Call : Busy(c) ~> ~Busy(c)
=============================================================================
