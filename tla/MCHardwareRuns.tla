--------------------------- MODULE MCHardwareRuns ---------------------------
(* Small instances of HardwareRuns for TLC. *)
EXTENDS HardwareRuns

CONSTANTS chip, c1, c2, d, q, m1, m2

AskFor(kind, steps, head) == [kind |-> kind, steps |-> steps, head |-> head]
Chain == AskFor("chain", 2, "head")
Draft == AskFor("draft", 1, "")
Menus == [x \in Caller |-> IF x = d THEN {Chain, AskFor("enroll", 3, "nonce")}
                            ELSE {Draft, AskFor("static", 1, "head"), AskFor("unreadable", 0, "")}]
\* The guest's backlog is five, the relay's one: each is filled here.
OneEach == [h \in Host |-> 1]
TwoMachines == <<m1, m2>>
\* The one fills its last chunk, the other does not.
Said == [m \in {m1, m2} |-> IF m = m1 THEN <<1, 0, 1>> ELSE <<0, 1, 1, 1>>]
=============================================================================
