------------------------------ MODULE AnchorRun ------------------------------
(***************************************************************************)
(* The runs on machines of a public cloud (examples/aws_anchor_run.py,     *)
(* azure_anchor_run.py): launch the machines, wait until each has printed  *)
(* its reports on its serial console, put them before a mandate, and take  *)
(* the machines down again.  The console mixes its own lines in with the   *)
(* probe's, and shows no more than it likes of either.                     *)
(***************************************************************************)
EXTENDS Integers, FiniteSetsExt, SequencesExt

CONSTANTS
    Fleet,       \* the machines, in the order they are launched
    Payload,     \* what each machine's probe has to say, byte by byte
    Width,       \* how many bytes go into a chunk
    Noisy,       \* the machines whose consoles may spoil what they show
    Noise        \* what is the digest of nothing a probe prints

ASSUME FleetAssumption ==
    /\ Fleet \in Seq(Range(Fleet)) /\ IsInjective(Fleet) /\ Len(Fleet) = 2
    /\ Payload \in [Range(Fleet) -> Seq(0 .. 1)]
    /\ Width \in Nat \ {0} /\ Noise \notin Seq(0 .. 1)

VARIABLES
    cloud,       \* the script: "aws" or "azure"
    keep,        \* the machines are to be kept running
    script,      \* where it is, the machine it is at, and how it came out
    expired,     \* its time for waiting is over
    stale,       \* the challenge it began with has lapsed at its mandate
    running,     \* the machines that run
    launched,    \* those it knows of, in order
    printed,     \* the machines whose probes have printed
    results,     \* the machines whose reports it has, in the order it got them
    reports,     \* what it holds to be each machine's reports
    claims,      \* the instance each machine's report of enrolment names
    masked,      \* neither of these names its silicon
    mandate,     \* what the script's mandate has on record for the key
    served,      \* the machines whose step it accepted
    amiss,       \* the machines a report of which was not as it should be
    byHand       \* the machines it said must be taken down by hand

waitVars == <<expired, running, launched, printed, results, reports>>
judgeVars == <<claims, masked, mandate, served, amiss>>
anchorVars == <<cloud, keep, script, stale, waitVars, judgeVars, byHand>>

Machine == Range(Fleet)
Stands(place) == script.at = place
Ends(outcome) == script' = [script EXCEPT !.at = "over", !.outcome = outcome]

-----------------------------------------------------------------------------
(* The probe's output, line by line.  A digest stands for what it is of.   *)

META(want, digest) == [tag |-> "META", number |-> want, data |-> digest]
LEN(length) == [tag |-> "LEN", number |-> length, data |-> <<>>]
END == [tag |-> "END", number |-> 0, data |-> <<>>]
Chunk(n, bytes) == [tag |-> "C", number |-> n, data |-> bytes]

ChunksOf(bytes) == (Len(bytes) + Width - 1) \div Width

\* The last chunk is filled up with zeros.
Cut(bytes, n) ==
    [j \in 1 .. Width |-> IF n * Width + j <= Len(bytes) THEN bytes[n * Width + j] ELSE 0]

\* Azure's probe prints its chunks twice.
Passes == IF cloud = "aws" THEN 1 ELSE 2

Lines(bytes) ==
    LET count == ChunksOf(bytes)
    IN  <<META(count, bytes)>>
          \o [i \in 1 .. Passes * count |->
                Chunk((i - 1) % count, Cut(bytes, (i - 1) % count))]
          \o <<LEN(Len(bytes)), END>>

\* What can become of a line: nothing that the patterns find, or the line with a
\* number or what follows it overwritten.
Lost == [tag |-> "", number |-> 0, data |-> <<>>]

Spoilt(line) ==
    {line, Lost} \cup
    CASE line.tag = "META" -> {[line EXCEPT !.number = n] : n \in 0 .. line.number + 1}
                                \cup {[line EXCEPT !.data = Noise]}
      [] line.tag = "LEN"  -> {[line EXCEPT !.number = n] : n \in 0 .. line.number + 1}
      [] line.tag = "C"    -> {[line EXCEPT !.number = n] : n \in 0 .. line.number + 1}
                                \cup {[line EXCEPT !.data = d] : d \in [1 .. Width -> 0 .. 1]}
      [] OTHER             -> {}

\* What a fetch of the console may show: nothing yet, all that was printed, or, of a
\* noisy one, two lines of it spoilt.
Shows(m) ==
    LET lines == Lines(Payload[m])
        twice(i, j) == {[lines EXCEPT ![i] = x, ![j] = y] :
                          x \in Spoilt(lines[i]), y \in Spoilt(lines[j])}
    IN  IF m \notin printed THEN {<<>>}
        ELSE IF m \notin Noisy THEN {lines}
        ELSE UNION {twice(i, j) : i \in DOMAIN lines, j \in DOMAIN lines}

-----------------------------------------------------------------------------
(* Putting it together again.                                              *)

Found(text, tag) == {i \in DOMAIN text : text[i].tag = tag}
First(text, tag) == text[Min(Found(text, tag))]

\* The chunks go into a dictionary: of those with one number the last stays.
Numbers(text) == {text[i].number : i \in Found(text, "C")}
Kept(text, n) == text[Max({i \in Found(text, "C") : text[i].number = n})].data

Legible(text) == \A tag \in {"META", "LEN", "END"} : Found(text, tag) # {}
Complete(text) == Legible(text) /\ Cardinality(Numbers(text)) = First(text, "META").number

\* As many chunks as announced, but not those: the lookup of one raises KeyError.
HasGap(text) ==
    Complete(text) /\ Numbers(text) # 0 .. First(text, "META").number - 1

Joined(text) ==
    LET all == First(text, "META").number * Width
        length == First(text, "LEN").number
    IN  [k \in 1 .. Min({all, length}) |->
           Kept(text, (k - 1) \div Width)[((k - 1) % Width) + 1]]

\* Mutant: no digest.
IsSoundUnchecked(text) == Complete(text) /\ ~HasGap(text)

\* reassemble yields the payload.
IsSound(text) ==
    /\ Complete(text) /\ ~HasGap(text)
    /\ Joined(text) = First(text, "META").data

-----------------------------------------------------------------------------
(* Launching.                                                              *)

Launch ==
    /\ Stands("launch") /\ Len(launched) < Len(Fleet)
    /\ LET m == Fleet[Len(launched) + 1]
       IN  launched' = Append(launched, m) /\ running' = running \cup {m}
    /\ UNCHANGED <<cloud, keep, script, expired, stale, printed, results, reports, judgeVars,
                   byHand>>

\* The command fails, before or after the machine has started; nothing catches it.
LaunchFails ==
    /\ Stands("launch") /\ Len(launched) < Len(Fleet)
    /\ \E started \in SUBSET {Fleet[Len(launched) + 1]} : running' = running \cup started
    /\ Ends("raised")
    /\ UNCHANGED <<cloud, keep, expired, stale, launched, printed, results, reports, judgeVars,
                   byHand>>

\* A probe that gets its reports prints them; one that does not prints nothing.
ProbePrints(m) ==
    /\ m \in running \ printed
    /\ printed' = printed \cup {m}
    /\ UNCHANGED <<cloud, keep, script, expired, stale, running, launched, results, reports,
                   judgeVars, byHand>>

-----------------------------------------------------------------------------
(* Waiting.                                                                *)

Missing == Len(results) < Len(launched)

\* Mutant: the deadline is not looked at.
NewRoundAlways ==
    /\ (Stands("launch") /\ Len(launched) = Len(Fleet)) \/ Stands("wait")
    /\ Missing
    /\ script' = [script EXCEPT !.at = "poll", !.next = 1]
    /\ UNCHANGED <<cloud, keep, stale, waitVars, judgeVars, byHand>>

\* The deadline is looked at between rounds.
NewRound ==
    /\ (Stands("launch") /\ Len(launched) = Len(Fleet)) \/ Stands("wait")
    /\ Missing /\ ~expired
    /\ script' = [script EXCEPT !.at = "poll", !.next = 1]
    /\ UNCHANGED <<cloud, keep, stale, waitVars, judgeVars, byHand>>

\* Past this machine, or on to the pause between rounds.
PolledOne ==
    script' = IF script.next = Len(launched) THEN [script EXCEPT !.at = "wait"]
              ELSE [script EXCEPT !.next = @ + 1]

\* The machine has reported before, or its console is not to be had.
PollSkips ==
    /\ Stands("poll")
    /\ PolledOne
    /\ UNCHANGED <<cloud, keep, stale, waitVars, judgeVars, byHand>>

\* reassemble returns the reports, or nothing, or raises.
Poll ==
    LET m == launched[script.next]
    IN  /\ Stands("poll") /\ m \notin Range(results)
        /\ \E text \in Shows(m) :
             \/ /\ HasGap(text) /\ Ends("raised")
                /\ UNCHANGED <<results, reports>>
             \/ /\ IsSound(text) /\ PolledOne
                /\ results' = Append(results, m)
                /\ reports' = [reports EXCEPT ![m] = Joined(text)]
             \/ /\ ~HasGap(text) /\ ~IsSound(text) /\ PolledOne
                /\ UNCHANGED <<results, reports>>
        /\ UNCHANGED <<cloud, keep, expired, stale, running, launched, printed, judgeVars,
                       byHand>>

Expire ==
    /\ script.at \in {"poll", "wait"} /\ ~expired
    /\ expired' = TRUE
    /\ UNCHANGED <<cloud, keep, script, stale, running, launched, printed, results, reports,
                   judgeVars, byHand>>

\* The mandate keeps a challenge for five minutes; the script waits longer.
Lapse ==
    /\ script.at \in {"launch", "poll", "wait", "enrol"} /\ ~stale
    /\ stale' = TRUE
    /\ UNCHANGED <<cloud, keep, script, waitVars, judgeVars, byHand>>

Concludes(outcome) ==
    script' = [at |-> IF keep THEN "over" ELSE "clear", next |-> 1, outcome |-> outcome]

\* Time is up before both have reported.
GiveUp ==
    /\ Stands("wait") /\ Missing /\ expired
    /\ Concludes("too few")
    /\ UNCHANGED <<cloud, keep, stale, waitVars, judgeVars, byHand>>

-----------------------------------------------------------------------------
(* Judging.  The first machine to report is enrolled; the other presents   *)
(* itself under the same key in the same session, and then the first does. *)

Instance == {"one", "other"}
OnRecord == [enrolled |-> "none", observed |-> "none", begun |-> FALSE]

GoesTo(place) == script' = [script EXCEPT !.at = place]
Doubts(m, fine) == amiss' = IF fine THEN amiss ELSE amiss \cup {m}

\* The reports of enrolment are read, not yet verified; one that names no instance
\* stops the script where it prints it.
ReadClaims ==
    /\ Stands("wait") /\ ~Missing
    /\ claims' \in [Machine -> Instance \cup {"none"}]
    /\ masked' \in BOOLEAN
    /\ IF \E m \in Machine : claims'[m] = "none" THEN Ends("raised") ELSE GoesTo("enrol")
    /\ UNCHANGED <<cloud, keep, stale, waitVars, mandate, served, amiss, byHand>>

\* enroll: the report may turn out not to be genuine, the challenge not to be good
\* any more; the script goes on either way.
EnrolFirst ==
    LET m == results[1]
    IN  /\ Stands("enrol")
        /\ \E genuine \in BOOLEAN :
             /\ Doubts(m, genuine)
             /\ mandate' = IF genuine /\ ~stale THEN [mandate EXCEPT !.enrolled = claims[m]]
                           ELSE mandate
        /\ GoesTo("second")
        /\ UNCHANGED <<cloud, keep, stale, waitVars, claims, masked, served, byHand>>

\* present: the report of the step is another one, genuine or not, and what it names
\* need not be what the report of enrolment named.  The mandate does not insist on an
\* enrolment; who is enrolled, or came first, is alone admitted, once at a position.
Admits(genuine, instance) ==
    /\ genuine /\ instance # "none"
    /\ mandate.enrolled \in {"none", instance} /\ mandate.observed \in {"none", instance}
    /\ ~mandate.begun

Present(m) ==
    \E genuine \in BOOLEAN, instance \in Instance \cup {"none"} :
        /\ Doubts(m, genuine /\ instance = claims[m])
        /\ IF Admits(genuine, instance)
           THEN /\ mandate' = [mandate EXCEPT !.observed = instance, !.begun = TRUE]
                /\ served' = served \cup {m}
           ELSE UNCHANGED <<mandate, served>>

PresentSecond ==
    /\ Stands("second") /\ Present(results[2])
    /\ GoesTo("first")
    /\ UNCHANGED <<cloud, keep, stale, waitVars, claims, masked, byHand>>

Differ == claims[results[1]] # claims[results[2]]
\* The mandate's answers are as they should be; seen after the last of them.
Answered ==
    mandate'.enrolled # "none" /\ results[2] \notin served' /\ results[1] \in served'

\* Mutant: the mandate's refusal is taken for claims that differ.
GoodUncompared == (cloud = "aws" => masked) /\ Answered

Good == (cloud = "aws" => masked) /\ Differ /\ Answered

PresentFirst ==
    /\ Stands("first") /\ Present(results[1])
    /\ Concludes(IF Good THEN "good" ELSE "unexpected")
    /\ UNCHANGED <<cloud, keep, stale, waitVars, claims, masked, byHand>>

-----------------------------------------------------------------------------
(* Clearing up.                                                            *)

clearVars == <<cloud, keep, expired, stale, launched, printed, results, reports, judgeVars>>

\* Mutant: the first failure is reported and ends it.
TerminateUntilFailure ==
    LET m == launched[script.next]
    IN  /\ Stands("clear") /\ cloud = "aws"
        /\ \E done \in BOOLEAN :
             /\ running' = IF done THEN running \ {m} ELSE running
             /\ byHand' = IF done THEN byHand ELSE byHand \cup {m}
             /\ script' = IF done /\ script.next < Len(launched)
                          THEN [script EXCEPT !.next = @ + 1] ELSE [script EXCEPT !.at = "over"]
        /\ UNCHANGED clearVars

\* terminate: one machine after the other, a failure is printed.
Terminate ==
    LET m == launched[script.next]
    IN  /\ Stands("clear") /\ cloud = "aws"
        /\ \E done \in BOOLEAN :
             /\ running' = IF done THEN running \ {m} ELSE running
             /\ byHand' = IF done THEN byHand ELSE byHand \cup {m}
        /\ script' = IF script.next < Len(launched) THEN [script EXCEPT !.next = @ + 1]
                     ELSE [script EXCEPT !.at = "over"]
        /\ UNCHANGED clearVars

\* cleanup: the whole group, whatever is in it.
DeleteGroup ==
    /\ Stands("clear") /\ cloud = "azure"
    /\ \/ running' = {} /\ UNCHANGED byHand
       \/ byHand' = Machine /\ UNCHANGED running
    /\ script' = [script EXCEPT !.at = "over"]
    /\ UNCHANGED clearVars

-----------------------------------------------------------------------------

AnchorInit ==
    /\ cloud \in {"aws", "azure"} /\ keep \in BOOLEAN
    /\ script = [at |-> "launch", next |-> 1, outcome |-> "none"]
    /\ expired = FALSE /\ stale = FALSE
    /\ running = {} /\ launched = <<>> /\ printed = {} /\ results = <<>> /\ byHand = {}
    /\ reports = [m \in Machine |-> <<>>]
    /\ claims = [m \in Machine |-> "none"] /\ masked = FALSE
    /\ mandate = OnRecord /\ served = {} /\ amiss = {}

\* What the script does of itself: every command it runs has a timeout.
ScriptStep ==
    \/ Launch \/ LaunchFails
    \/ NewRound \/ PollSkips \/ Poll \/ GiveUp
    \/ ReadClaims \/ EnrolFirst \/ PresentSecond \/ PresentFirst
    \/ Terminate \/ DeleteGroup

AnchorNext ==
    \/ ScriptStep
    \/ \E m \in Machine : ProbePrints(m)
    \/ Expire \/ Lapse

AnchorSpec == AnchorInit /\ [][AnchorNext]_anchorVars

-----------------------------------------------------------------------------
(* Properties.                                                             *)

\* What is kept as a machine's reports is what its probe printed, to the byte, however
\* the console numbered, cut or overwrote its lines: reassemble refuses what it cannot
\* answer for.  And it refuses nothing that a console shows unspoilt.
ReceivedIsWhole ==
    /\ \A m \in Range(results) : reports[m] = Payload[m]
    /\ \A m \in Machine : IsSound(Lines(Payload[m]))

\* A run that is told to clear up and comes to its end leaves no machine running
\* of which it did not say that it must be taken down by hand.  Only an exception
\* leaves machines behind in silence: nothing in main catches one.
LeftRunningIsSaid ==
    Stands("over") /\ script.outcome # "raised" /\ ~keep => running \subseteq byHand

\* What the last line of a run says can be relied on.  If it is good, the first machine
\* to report stands enrolled at the mandate on the instance it named, and it and not
\* the other, which named another one, was served.  And a run in which every report
\* was genuine and named its machine, those differed, neither named its silicon on AWS
\* and the challenge held, is called good, whichever machine came first.
VerdictIsRight ==
    Stands("over") /\ script.outcome \in {"good", "unexpected"} =>
        /\ script.outcome = "good" =>
             /\ mandate.enrolled = claims[results[1]] /\ mandate.observed = claims[results[1]]
             /\ served = {results[1]}
             /\ Differ
        /\ amiss = {} /\ Differ /\ ~stale /\ (cloud = "azure" \/ masked) =>
             script.outcome = "good"

\* A run that has a machine running comes to its end, whatever the consoles show
\* or never show: it waits for reports no longer than it said.
RunEnds == running # {} ~> Stands("over")
=============================================================================
