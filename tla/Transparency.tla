---------------------------- MODULE Transparency ----------------------------
(***************************************************************************)
(* What a mandate says about itself, and what others can make of it: the   *)
(* decisions it records, the heads it signs and the receipts it hands out  *)
(* (hatls/receipt.py, and the transparency side of class Mandate), the     *)
(* heads others witness, alone or in a bundle a guest's hardware signs     *)
(* (hatls/federation.py), and the audits that compare them.                *)
(*                                                                         *)
(* A root stands for the whole list of decisions under it, and a proof of  *)
(* consistency is good for the two states it was made from and no others:  *)
(* MerkleLog checks both of the algorithms themselves.                     *)
(***************************************************************************)
EXTENDS Naturals, FiniteSets, SequencesExt

CONSTANTS
    Mandate,          \* mandates, each one relying party's
    Decision,         \* what a leaf can say, its position apart
    SigningKeyGiven,  \* the key is supplied, and outlives the process
    MaxSize,          \* bound on the decisions of one process
    MaxRestarts,      \* bound on the restarts of one mandate
    MaxWitnessed      \* bound on the heads witnessed

ASSUME TransparencyAssumption ==
    /\ SigningKeyGiven \in BOOLEAN
    /\ {MaxSize, MaxRestarts, MaxWitnessed} \subseteq Nat

VARIABLES
    log,        \* MerkleLog.entries of each mandate
    roots,      \* _roots: the heads each mandate's process knows it has had
    life,       \* the restarts of each mandate
    signed,     \* every tree head ever signed
    receipts,   \* every receipt ever handed out
    witnessed   \* heads in cross-witness statements and in hardware bundles

vars == <<log, roots, life, signed, receipts, witnessed>>

-----------------------------------------------------------------------------
(* Heads, receipts and proofs.                                             *)

\* public_key: what a verifier knows a mandate by.
Key(m) == <<m, IF SigningKeyGiven THEN 0 ELSE life[m]>>
Keys == Mandate \X (0 .. MaxRestarts)

\* sign_sth: its size is the length of the log.
Sth(m, entries) == [by |-> Key(m), log |-> entries]

\* receipt(index); its proof of inclusion is made for the head it comes with.
Receipt(m, entries, index) ==
    [entry |-> entries[index], index |-> index, sth |-> Sth(m, entries)]

\* prove_extension: from a size to the log as it is now, or an exception.
ProveExtension(m, size) ==
    IF 0 < size /\ size <= Len(log[m]) THEN {[size |-> size, log |-> log[m]]} ELSE {}

\* Mutant: the old root is not compared.
ShowsBySize(proof, old, new) ==
    IF Len(old) = Len(new) THEN old = new
    ELSE /\ 0 < Len(old) /\ Len(old) < Len(new)
         /\ proof.log = new /\ proof.size = Len(old)

\* verify_consistency.
Shows(proof, old, new) ==
    IF Len(old) = Len(new) THEN old = new /\ proof.size = Len(proof.log)
    ELSE /\ 0 < Len(old) /\ Len(old) < Len(new)
         /\ proof.log = new /\ proof.size = Len(old)
         /\ IsPrefix(old, new)

-----------------------------------------------------------------------------
(* Audits.  proofs holds the proof the mandate offered, or nothing.        *)

\* divergence: does the log a mandate shows extend one it was witnessed with?
Diverged(claimed, later, proofs) ==
    IF Len(claimed) = Len(later) THEN claimed # later
    ELSE \/ Len(claimed) > Len(later)
         \/ \A proof \in proofs : ~Shows(proof, claimed, later)

\* is_equivocation, on two heads under one key.
IsEquivocation(a, b, proofs) ==
    LET lo == IF Len(a) <= Len(b) THEN a ELSE b
        hi == IF Len(a) <= Len(b) THEN b ELSE a
    IN  /\ a # b
        /\ \A proof \in proofs : ~Shows(proof, lo, hi)

-----------------------------------------------------------------------------
(* The mandates.                                                           *)

\* Mutant: the head is noted before the decision is appended to the log.
NoteHeadBefore(m, entries) == roots' = [roots EXCEPT ![m] = @ \cup {log[m]}]

NoteHead(m, entries) == roots' = [roots EXCEPT ![m] = @ \cup {entries}]

Extended(m, d) == Append(log[m], d)

\* _record: append, note the head, issue the receipt.
Decide(m, d) ==
    /\ Len(log[m]) < MaxSize
    /\ LET entries == Extended(m, d)
       IN  /\ log' = [log EXCEPT ![m] = entries]
           /\ NoteHead(m, entries)
           /\ signed' = signed \cup {Sth(m, entries)}
           /\ receipts' = receipts \cup {Receipt(m, entries, Len(entries))}
    /\ UNCHANGED <<life, witnessed>>

\* sth(), for whoever asks.
SignHead(m) ==
    /\ signed' = signed \cup {Sth(m, log[m])}
    /\ UNCHANGED <<log, roots, life, receipts, witnessed>>

\* receipt(index), for an earlier decision.
GiveReceipt(m, index) ==
    /\ index \in DOMAIN log[m]
    /\ signed' = signed \cup {Sth(m, log[m])}
    /\ receipts' = receipts \cup {Receipt(m, log[m], index)}
    /\ UNCHANGED <<log, roots, life, witnessed>>

\* Heads a witness can be shown: signed, or a head of one mandate under the
\* name of another.
Offered == signed \cup [by : Keys, log : {s.log : s \in signed}]

\* Mutant: the signature is not looked at.
SignatureVerifiesAlways(sth) == TRUE

\* verify_sth.
SignatureVerifies(sth) == sth \in signed

\* observe (cross_witness), or make_bundle and the report over it: either way
\* the head is verified first and is on record from then on.
Witness(sth) ==
    /\ Cardinality(witnessed) < MaxWitnessed
    /\ SignatureVerifies(sth)
    /\ witnessed' = witnessed \cup {sth}
    /\ UNCHANGED <<log, roots, life, signed, receipts>>

\* The process dies, its log with it: __init__ starts from an empty one.
Restart(m) ==
    /\ life[m] < MaxRestarts
    /\ life' = [life EXCEPT ![m] = @ + 1]
    /\ log' = [log EXCEPT ![m] = <<>>]
    /\ roots' = [roots EXCEPT ![m] = {<<>>}]
    /\ UNCHANGED <<signed, receipts, witnessed>>

Init ==
    /\ log = [m \in Mandate |-> <<>>]
    /\ roots = [m \in Mandate |-> {<<>>}]
    /\ life = [m \in Mandate |-> 0]
    /\ signed = {} /\ receipts = {} /\ witnessed = {}

Next ==
    \/ \E m \in Mandate :
         \/ \E d \in Decision : Decide(m, d)
         \/ SignHead(m)
         \/ \E index \in 1 .. MaxSize : GiveReceipt(m, index)
         \/ Restart(m)
    \/ \E sth \in Offered : Witness(sth)

Spec == Init /\ [][Next]_vars

-----------------------------------------------------------------------------
(* Properties.                                                             *)

\* The process that holds a key held it from the start.
NeverRestarted(m) == SigningKeyGiven => life[m] = 0

\* Whatever head a mandate was witnessed with, the empty one apart, its sth()
\* and prove_extension() acquit it of divergence and of equivocation, as long
\* as it was not restarted under a key it kept.  A witness checks signatures,
\* so no other mandate's head is held against it.
HonestMandateIsAcquitted ==
    \A m \in Mandate : \A w \in witnessed :
        (NeverRestarted(m) /\ w.by = Key(m) /\ w.log # <<>>) =>
            LET proofs == ProveExtension(m, Len(w.log))
            IN  /\ ~Diverged(w.log, log[m], proofs)
                /\ ~IsEquivocation(w.log, log[m], proofs)

\* Every proof of consistency anyone could ever have been given.
AnyProof == {[size |-> n, log |-> s.log] : n \in 1 .. MaxSize, s \in signed}

\* A decision cannot be denied: two receipts under one key that say different
\* things of one place come with two heads that convict it.
DenialIsConvicted ==
    \A r, q \in receipts :
        (r.sth.by = q.sth.by /\ r.index = q.index /\ r.entry # q.entry) =>
            \A proof \in AnyProof : IsEquivocation(r.sth.log, q.sth.log, {proof})

\* knows_head answers yes for every head this process has signed and no for
\* one it has not had: present() refuses no honest guest for binding the head
\* it was given.
OwnHeadsAreKnown ==
    \A m \in Mandate : NeverRestarted(m) =>
        /\ \A s \in signed : s.by = Key(m) => s.log \in roots[m]
        /\ \A root \in roots[m] : IsPrefix(root, log[m])

\* A log extends every head it was witnessed with, from the first.
FirstHeadIsExtended ==
    \A m \in Mandate : \A w \in witnessed :
        (NeverRestarted(m) /\ w.by = Key(m)) =>
            ~Diverged(w.log, log[m], ProveExtension(m, Len(w.log)))
=============================================================================
