---------------------------- MODULE HardwareRuns ----------------------------
(***************************************************************************)
(* What an operator runs against real machines, one program at a time: the *)
(* appraisal of a report over a connection of its own                      *)
(* (examples/reattest_freshness_hw.py), a guest that serves callers and a  *)
(* relay (tools/guest_probe.py, examples/relay_hw.py), or the runs on      *)
(* machines of a public cloud (examples/aws_anchor_run.py,                 *)
(* azure_anchor_run.py).  The programs share nothing.                      *)
(***************************************************************************)
EXTENDS Reattestation, GuestService, AnchorRun

VARIABLE program    \* the one that runs

runVars == <<vars, serviceVars, anchorVars, program>>

RunInit ==
    /\ program \in {"reattest", "serve", "anchor"}
    /\ Init /\ ServiceInit /\ AnchorInit
    /\ program # "anchor" => cloud = "aws" /\ keep    \* of no account

\* A step of the program that runs.
Reattest(step) == program = "reattest" /\ step /\ UNCHANGED <<serviceVars, anchorVars, program>>
Serve(step) == program = "serve" /\ step /\ UNCHANGED <<vars, anchorVars, program>>
Anchor(step) == program = "anchor" /\ step /\ UNCHANGED <<vars, serviceVars, program>>

RunNext == Reattest(Next) \/ Serve(ServiceNext) \/ Anchor(AnchorNext)

RunSpec ==
    /\ RunInit /\ [][RunNext]_runVars
    /\ \A c \in Call : WF_runVars(Reattest(Verification(c)))
    /\ WF_runVars(Serve(GuestStep)) /\ WF_runVars(Serve(RelayStep))
    /\ \A h \in Host : WF_runVars(Serve(GreetSpeaking(h)))
    /\ \A c \in Caller \ Silent : WF_runVars(Serve(CallerStep(c)))
    /\ WF_runVars(Anchor(ScriptStep)) /\ WF_runVars(Anchor(Expire))
=============================================================================
