---------------------------- MODULE GuestService ----------------------------
(***************************************************************************)
(* The guest's serving loop (tools/guest_probe.py, main), the relying      *)
(* parties that call it (hatls/client.py) and the relay that stands        *)
(* between some of them and the guest (examples/relay_demo.py, relay_hw.py)*)
(*                                                                         *)
(* The guest serves one connection at a time.  It and the relay wait for a *)
(* caller without a limit; a caller's limit ends when it has connected.  A *)
(* TLS session is named by the end that opened it: what the guest derives  *)
(* from a relayed caller's session is the relay's own, Upstream.           *)
(***************************************************************************)
EXTENDS Naturals, Sequences

CONSTANTS
    Caller,       \* relying parties, with one connection each
    Silent,       \* those that may stop talking without hanging up
    Upstream,     \* the relay's own connection to the guest
    RetryAsked,   \* the handshakes of which the guest asked a second hello
    Menu,         \* the requests each caller may send
    Room,         \* how many connections wait to be accepted, per server
    Nobody        \* the connection of a server that has none

ASSUME CallerAssumption ==
    /\ Silent \subseteq Caller
    /\ Upstream \notin Caller \cup {Nobody} /\ Nobody \notin Caller

Kind == {"enroll", "chain", "static", "draft", "unreadable"}

\* steps: the reports asked for; head: the log head to bind, or the challenge.
Ask == [kind : Kind, steps : Nat, head : STRING]
NoAsk == [kind |-> "none", steps |-> 0, head |-> ""]

ASSUME MenuAssumption == Menu \in [Caller -> SUBSET Ask]
ASSUME RoomAssumption == Room \in [{"guest", "relay"} -> Nat \ {0}]

VARIABLES
    server,    \* where each server is, and the connection it is at
    backlog,   \* the connections each server has yet to accept
    call,      \* whom each caller called, where it is, what it asked, the frames
               \* it has read
    reply,     \* per connection: what was made for it, how much of it sent
    late       \* the fifteen minutes of the guest are over

serviceVars == <<server, backlog, call, reply, late>>

Host == {"guest", "relay"}
Conn == Caller \cup {Upstream}

IsAt(h, place) == server[h].at = place
Served(h) == server[h].conn
Goes(h, place) == server' = [server EXCEPT ![h].at = place]
Moves(c, place) == call' = [call EXCEPT ![c].at = place]
Unheard == [via |-> "none", at |-> "failed", asked |-> NoAsk, got |-> 0]

-----------------------------------------------------------------------------
(* Answers.  A piece is a report with what it binds: a session, the        *)
(* counters folded into the link, and a log head or challenge.             *)

\* A request for an enrolment has one report whatever its steps.
Pieces(r) == IF r.kind = "enroll" THEN 1 ELSE r.steps

\* The n-th report for a request, over the counters folded in before.
Piece(c, r, n, before) ==
    [kind |-> r.kind,
     session |-> IF r.kind = "enroll" THEN Nobody ELSE c,
     counters |-> IF r.kind = "chain" THEN Append(before, n - 1) ELSE <<>>,
     head |-> IF r.kind = "draft" THEN "" ELSE r.head]

Folded(made) == IF made = <<>> THEN <<>> ELSE made[Len(made)].counters

\* The draft's binder is not to be had from a handshake with a second hello.
Signable(c, r) == r.kind = "draft" => c \notin RetryAsked

\* A frame for the length of the answer and one for every report.
Frames(c) == 1 + Len(reply[c].made)

\* What a connection has brought its caller.
Got(c) == SubSeq(reply[c].made, 1, IF call[c].got = 0 THEN 0 ELSE call[c].got - 1)

-----------------------------------------------------------------------------
(* Callers.  A caller is given the guest's address, or the relay's for it. *)

\* The relay opens its own connection once it has a request to pass on.
MayDial(c) == call[c].at = "idle" /\ (c = Upstream => IsAt("relay", "work"))

Dial(c, h) ==
    /\ MayDial(c)
    /\ server[h].at \notin {"stopped", "gone"} /\ Len(backlog[h]) < Room[h]
    /\ backlog' = [backlog EXCEPT ![h] = Append(@, c)]
    /\ call' = [call EXCEPT ![c].via = h, ![c].at = "greeting"]
    /\ UNCHANGED <<server, reply, late>>

\* Nobody listens, nobody answers for thirty seconds, or there is no room.
DialFails(c, h) ==
    /\ MayDial(c)
    /\ server[h].at \in {"stopped", "gone"} \/ Len(backlog[h]) >= Room[h]
    /\ call' = [call EXCEPT ![c] = Unheard]
    /\ UNCHANGED <<server, backlog, reply, late>>

\* The relay passes the line it heard on as it is.
Asks(c) == IF c = Upstream THEN {call[Served("relay")].asked} ELSE Menu[c]

SendAsk(c) ==
    /\ call[c].at = "asking"
    /\ \E r \in Asks(c) : call' = [call EXCEPT ![c].at = "reading", ![c].asked = r]
    /\ UNCHANGED <<server, backlog, reply, late>>

\* Mutant: what has come when the connection is closed is taken for the answer.
ReadShort(c) ==
    /\ call[c].at = "reading"
    /\ call[c].got < reply[c].sent \/ (reply[c].closed /\ call[c].got > 0)
    /\ call' = [call EXCEPT ![c].got = IF @ < reply[c].sent THEN @ + 1 ELSE @,
                            ![c].at = IF call[c].got + 1 >= reply[c].sent /\ reply[c].closed
                                      THEN "answered" ELSE @]
    /\ UNCHANGED <<server, backlog, reply, late>>

\* The length first, then as many bytes as it says.
ReadFrame(c) ==
    /\ call[c].at = "reading" /\ call[c].got < reply[c].sent
    /\ call' = [call EXCEPT ![c].got = @ + 1,
                            ![c].at = IF call[c].got + 1 = Frames(c) THEN "answered" ELSE @]
    /\ UNCHANGED <<server, backlog, reply, late>>

\* The connection is closed before it has brought what it should.
CallFails(c) ==
    /\ call[c].at \in {"greeting", "asking", "reading"}
    /\ reply[c].closed /\ call[c].got = reply[c].sent
    /\ call' = [call EXCEPT ![c] = Unheard]
    /\ UNCHANGED <<server, backlog, reply, late>>

\* A caller hangs up, wherever it is.
Leave(c) ==
    /\ call[c].at \in {"greeting", "asking", "reading"}
    /\ Moves(c, "left")
    /\ UNCHANGED <<server, backlog, reply, late>>

-----------------------------------------------------------------------------
(* Servers.                                                                *)

\* A server that ends closes its connection and resets those that wait.
Ending(h) ==
    reply' = [c \in Conn |->
                IF c = Served(h) \/ \E i \in DOMAIN backlog[h] : backlog[h][i] = c
                THEN [reply[c] EXCEPT !.closed = TRUE] ELSE reply[c]]

Stop(h) ==
    /\ server' = [server EXCEPT ![h] = [at |-> "stopped", conn |-> Nobody]]
    /\ backlog' = [backlog EXCEPT ![h] = <<>>]
    /\ Ending(h)

\* The deadline is looked at between connections.
Top ==
    /\ IsAt("guest", "top")
    /\ IF late THEN Stop("guest") ELSE Goes("guest", "accept") /\ UNCHANGED <<backlog, reply>>
    /\ UNCHANGED <<call, late>>

AcceptTimesOut ==
    /\ IsAt("guest", "accept") /\ backlog["guest"] = <<>>
    /\ Goes("guest", "top")
    /\ UNCHANGED <<backlog, call, reply, late>>

Accept(h) ==
    /\ IsAt(h, "accept") /\ backlog[h] # <<>>
    /\ server' = [server EXCEPT ![h] = [at |-> "greet", conn |-> Head(backlog[h])]]
    /\ backlog' = [backlog EXCEPT ![h] = Tail(@)]
    /\ UNCHANGED <<call, reply, late>>

\* The handshake takes both ends.
Greet(h) ==
    /\ IsAt(h, "greet") /\ call[Served(h)].at = "greeting"
    /\ Goes(h, "hear") /\ Moves(Served(h), "asking")
    /\ UNCHANGED <<backlog, reply, late>>

\* The guest reads what it heard; the relay does not.
Hear(h) ==
    /\ IsAt(h, "hear") /\ call[Served(h)].asked # NoAsk
    /\ Goes(h, IF h = "guest" /\ call[Served(h)].asked.kind = "unreadable" THEN "hang up"
               ELSE "work")
    /\ UNCHANGED <<backlog, call, reply, late>>

\* The caller went away before it had asked, or while it is answered.
LoseCaller(h) ==
    /\ \/ server[h].at \in {"greet", "hear"} /\ call[Served(h)].asked = NoAsk
       \/ IsAt(h, "send")
    /\ call[Served(h)].at = "left"
    /\ Goes(h, "hang up")
    /\ UNCHANGED <<backlog, call, reply, late>>

\* Mutant: what is bound is the session of whoever asked, read off the wire.
SignAsTold ==
    LET c == Served("guest")
        r == call[c].asked
        made == reply[c].made
        asker == IF c = Upstream THEN Served("relay") ELSE c
    IN  /\ IsAt("guest", "work") /\ Signable(c, r) /\ Len(made) < Pieces(r)
        /\ reply' = [reply EXCEPT ![c].made =
                       Append(@, Piece(asker, r, Len(made) + 1, Folded(made)))]
        /\ UNCHANGED <<server, backlog, call, late>>

\* One report from the hardware, over the guest's own session.
Sign ==
    LET c == Served("guest")
        r == call[c].asked
        made == reply[c].made
    IN  /\ IsAt("guest", "work") /\ Signable(c, r) /\ Len(made) < Pieces(r)
        /\ reply' = [reply EXCEPT ![c].made =
                       Append(@, Piece(c, r, Len(made) + 1, Folded(made)))]
        /\ UNCHANGED <<server, backlog, call, late>>

\* The device refuses, or there is no binder: nothing is answered.
SignFails ==
    /\ IsAt("guest", "work")
    /\ Goes("guest", "hang up")
    /\ UNCHANGED <<backlog, call, reply, late>>

\* The answer is put together when the last report is there.
StartSending ==
    LET c == Served("guest")
    IN  /\ IsAt("guest", "work") /\ Signable(c, call[c].asked)
        /\ Len(reply[c].made) = Pieces(call[c].asked)
        /\ Goes("guest", "send")
        /\ UNCHANGED <<backlog, call, reply, late>>

\* The relay forwards a whole answer, untouched.
Forward ==
    /\ IsAt("relay", "work") /\ call[Upstream].at = "answered"
    /\ reply' = [reply EXCEPT ![Served("relay")].made = Got(Upstream)]
    /\ Goes("relay", "send")
    /\ UNCHANGED <<backlog, call, late>>

RelayFails ==
    /\ IsAt("relay", "work") /\ call[Upstream].at = "failed"
    /\ Goes("relay", "hang up")
    /\ UNCHANGED <<backlog, call, reply, late>>

SendFrame(h) ==
    LET c == Served(h)
    IN  /\ IsAt(h, "send")
        /\ reply' = [reply EXCEPT ![c].sent = @ + 1]
        /\ Goes(h, IF reply[c].sent + 1 = Frames(c) THEN "hang up" ELSE "send")
        /\ UNCHANGED <<backlog, call, late>>

\* Mutant: an error is not caught, the connection is left open.
HangUpOnSuccess ==
    LET c == Served("guest")
    IN  /\ IsAt("guest", "hang up")
        /\ server' = [server EXCEPT !["guest"] = [at |-> "top", conn |-> Nobody]]
        /\ reply' = [reply EXCEPT ![c].closed = (reply[c].sent = Frames(c))]
        /\ UNCHANGED <<backlog, call, late>>

\* finally: the connection is closed, and the guest goes on to the next.
GuestHangsUp ==
    /\ IsAt("guest", "hang up")
    /\ server' = [server EXCEPT !["guest"] = [at |-> "top", conn |-> Nobody]]
    /\ reply' = [reply EXCEPT ![Served("guest")].closed = TRUE]
    /\ UNCHANGED <<backlog, call, late>>

\* The relay serves one connection and no more.
RelayHangsUp ==
    /\ IsAt("relay", "hang up")
    /\ Stop("relay")
    /\ UNCHANGED <<call, late>>

\* The guest's process dies, and its kernel closes what it had.
GuestDies ==
    /\ server["guest"].at \notin {"stopped", "gone"}
    /\ Stop("guest")
    /\ UNCHANGED <<call, late>>

\* The guest's machine dies: nobody hears of it.
GuestVanishes ==
    /\ server["guest"].at \notin {"stopped", "gone"}
    /\ server' = [server EXCEPT !["guest"].at = "gone"]
    /\ UNCHANGED <<backlog, call, reply, late>>

GetsLate == ~late /\ late' = TRUE /\ UNCHANGED <<server, backlog, call, reply>>

-----------------------------------------------------------------------------

ServiceInit ==
    /\ server = [h \in Host |-> [at |-> IF h = "guest" THEN "top" ELSE "accept",
                                 conn |-> Nobody]]
    /\ backlog = [h \in Host |-> <<>>]
    /\ call = [c \in Conn |-> [via |-> "none", at |-> "idle", asked |-> NoAsk, got |-> 0]]
    /\ reply = [c \in Conn |-> [made |-> <<>>, sent |-> 0, closed |-> FALSE]]
    /\ late = FALSE

\* What a caller does of itself once it is connected.
CallerStep(c) == SendAsk(c) \/ ReadFrame(c) \/ CallFails(c)

\* What a server does for the connection it is at, the handshake apart.
ServeStep(h) == Accept(h) \/ Hear(h) \/ LoseCaller(h) \/ SendFrame(h)

GuestStep ==
    \/ Top \/ AcceptTimesOut \/ ServeStep("guest")
    \/ Sign \/ SignFails \/ StartSending \/ GuestHangsUp

RelayStep ==
    \/ ServeStep("relay") \/ Forward \/ RelayFails \/ RelayHangsUp
    \/ Dial(Upstream, "guest") \/ DialFails(Upstream, "guest") \/ CallerStep(Upstream)

ServiceNext ==
    \/ GuestStep
    \/ RelayStep
    \/ \E h \in Host : Greet(h)
    \/ \E c \in Caller :
         \/ \E h \in Host : Dial(c, h) \/ DialFails(c, h)
         \/ CallerStep(c) \/ Leave(c)
    \/ GuestDies \/ GuestVanishes \/ GetsLate

ServiceSpec == ServiceInit /\ [][ServiceNext]_serviceVars

\* A handshake with a caller that goes on talking.
GreetSpeaking(h) == Served(h) \notin Silent /\ Greet(h)

-----------------------------------------------------------------------------
(* Properties.                                                             *)

\* What the i-th report for a request binds, whatever the session.
RightPiece(r, i) ==
    [kind |-> r.kind,
     counters |-> IF r.kind = "chain" THEN [n \in 1 .. i |-> n - 1] ELSE <<>>,
     head |-> IF r.kind = "draft" THEN "" ELSE r.head]

IsRight(piece, r, i) ==
    [kind |-> piece.kind, counters |-> piece.counters, head |-> piece.head] = RightPiece(r, i)

\* The session the guest sees of a caller's connection.
Relayed(c) == call[c].via = "relay"
SeenAs(c) == IF Relayed(c) THEN Upstream ELSE c

\* An answer that HatlsClient.request returns is whole, in order, and to the
\* request it sent: never part of one, never another connection's, whoever
\* died, hung up or was late, and however many hands it went through.
AnswerIsOwn ==
    \A c \in Caller : call[c].at = "answered" =>
        LET r == call[c].asked IN
        /\ r.kind # "unreadable" /\ Signable(SeenAs(c), r)
        /\ Len(Got(c)) = Pieces(r)
        /\ \A i \in DOMAIN Got(c) : IsRight(Got(c)[i], r, i)

\* Every link in an answer is of the caller's own session exactly when no relay
\* stands between, so the exporter the caller derives tells the two apart.
RelayIsCaught ==
    \A c \in Caller : call[c].at = "answered" /\ call[c].asked.kind # "enroll" =>
        \A i \in DOMAIN Got(c) : Got(c)[i].session = c <=> ~Relayed(c)

\* The server waits, without a limit, for one that may never speak.
Held(h) ==
    \/ IsAt(h, "gone")
    \/ /\ server[h].at \in {"greet", "hear"} /\ Served(h) \in Silent
       /\ call[Served(h)].at \in {"greeting", "asking"}

Waits(c) == call[c].at \in {"greeting", "asking", "reading"}

\* Only silence keeps a caller waiting for ever: if no silent caller holds the
\* guest, and its machine is there, every caller is answered or told, the guest
\* stops when it is late, and a caller silent to the relay keeps nobody from it.
OnlySilenceHolds ==
    <>[]~Held("guest") =>
        /\ late ~> IsAt("guest", "stopped")
        /\ \A c \in Caller \ Silent : Waits(c) /\ ~Relayed(c) ~> ~Waits(c)
        /\ <>[]~Held("relay") => \A c \in Caller \ Silent : Waits(c) ~> ~Waits(c)
=============================================================================
