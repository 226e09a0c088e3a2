----------------------------- MODULE RunsProofs -----------------------------
(***************************************************************************)
(* Theorems about the programs of HardwareRuns: the guest's service, for   *)
(* any number of callers and requests, and the runs on a cloud's machines, *)
(* for any payload and any width of a chunk.                               *)
(***************************************************************************)
EXTENDS GuestService, AnchorRun, FiniteSetTheorems, SequenceTheorems, WellFoundedInduction,
        TLAPS

-----------------------------------------------------------------------------
(* The guest's service: its invariant, by connection and by server.        *)

ServerPlace ==
    {"top", "accept", "greet", "hear", "work", "send", "hang up", "stopped", "gone"}
CallPlace == {"idle", "greeting", "asking", "reading", "answered", "failed", "left"}
Report == [kind : Kind \cup {"none"}, session : Conn \cup {Nobody}, counters : Seq(Nat),
           head : STRING \cup {""}]

Server == [at : ServerPlace, conn : Conn \cup {Nobody}]
Party == [via : Host \cup {"none"}, at : CallPlace, asked : Ask \cup {NoAsk}, got : Nat]
Reply == [made : Seq(Report), sent : Nat, closed : BOOLEAN]

\* Every variable has its type.
ServiceTypeOK ==
    /\ server \in [Host -> Server] /\ backlog \in [Host -> Seq(Conn)]
    /\ call \in [Conn -> Party] /\ reply \in [Conn -> Reply] /\ late \in BOOLEAN

Alive(c) == call[c].at # "failed"
Untouched(c) == reply[c].made = <<>> /\ reply[c].sent = 0
Hears(c) == call[c].asked # NoAsk

\* The i-th report for a request over a session, whole.
Full(c, r, i) ==
    [kind |-> r.kind,
     session |-> IF r.kind = "enroll" THEN Nobody ELSE c,
     counters |-> IF r.kind = "chain" THEN [n \in 1 .. i |-> n - 1] ELSE <<>>,
     head |-> IF r.kind = "draft" THEN "" ELSE r.head]

\* What the guest has made for a connection so far is a beginning of the answer.
Begun(c) ==
    /\ Len(reply[c].made) <= Pieces(call[c].asked)
    /\ \A i \in 1 .. Len(reply[c].made) : reply[c].made[i] = Full(c, call[c].asked, i)

Whole(c) ==
    /\ Hears(c) /\ call[c].asked.kind # "unreadable" /\ Signable(c, call[c].asked)
    /\ Begun(c) /\ Len(reply[c].made) = Pieces(call[c].asked)

\* What the relay forwards is what it got for the request it heard.
Passed(c) ==
    /\ call[Upstream].at = "answered"
    /\ reply[c].made = Got(Upstream)
    /\ Hears(c) /\ call[Upstream].asked = call[c].asked

\* A connection: what it may have asked and got where it is, and what has been made
\* for it by whom.
ConnInv(c) ==
    /\ call[c].at = "idle" => call[c].via = "none"
    /\ call[c].via = "none" => call[c].at \in {"idle", "failed"}
    /\ call[c].at \in {"idle", "greeting", "asking"} => ~Hears(c) /\ call[c].got = 0
    /\ Alive(c) =>
        /\ ~Hears(c) => Untouched(c)
        /\ call[c].got <= reply[c].sent
        /\ call[c].at = "answered" => call[c].got = Frames(c)
        /\ call[c].via = "guest" => Begun(c) /\ (reply[c].sent > 0 => Whole(c))
        /\ call[c].via = "relay" => (reply[c].sent > 0 => Passed(c))

\* One that waits is greeted once and has asked nothing.
WaitInv(h) ==
    /\ \A i, j \in 1 .. Len(backlog[h]) : backlog[h][i] = backlog[h][j] => i = j
    /\ \A i \in 1 .. Len(backlog[h]) : LET c == backlog[h][i] IN
         /\ c # Served(h)
         /\ Alive(c) => call[c].via = h /\ call[c].at \in {"greeting", "left"} /\ ~Hears(c)

\* A server is at a place with a connection that has come that far.
ServeInv(h) == LET c == Served(h) IN
    /\ server[h].at \in {"greet", "hear", "work", "send", "hang up"} => c # Nobody
    /\ c # Nobody /\ Alive(c) =>
        /\ call[c].via = h
        /\ IsAt(h, "greet") => call[c].at \in {"greeting", "left"} /\ ~Hears(c)
        /\ IsAt(h, "hear") => Untouched(c)
        /\ server[h].at \in {"work", "send"} => Hears(c)
        /\ IsAt(h, "work") => reply[c].sent = 0
        /\ IsAt(h, "work") /\ h = "guest" => call[c].asked.kind # "unreadable"
        /\ IsAt(h, "work") /\ h = "relay" => reply[c].made = <<>>
        /\ IsAt(h, "send") => IF h = "guest" THEN Whole(c) ELSE Passed(c)

\* The relay has a connection of its own while it works for another, and once.
UpstreamInv ==
    /\ call[Upstream].via # "relay" /\ call[Upstream].at # "left"
    /\ Served("relay") # Upstream
    /\ \A i \in 1 .. Len(backlog["relay"]) : backlog["relay"][i] # Upstream
    /\ call[Upstream].at # "idle" => server["relay"].at \notin {"accept", "greet", "hear"}
    /\ call[Upstream].at \in {"greeting", "asking", "reading"} => IsAt("relay", "work")
    /\ IsAt("relay", "work") /\ call[Upstream].at \in {"reading", "answered"}
         /\ Alive(Served("relay")) => call[Upstream].asked = call[Served("relay")].asked

StandInv ==
    /\ \A c \in Conn : ConnInv(c)
    /\ \A h \in Host : WaitInv(h) /\ ServeInv(h)
    /\ UpstreamInv

ServiceInv == ServiceTypeOK /\ StandInv

-----------------------------------------------------------------------------
(* What a step leaves alone keeps its part of the invariant.               *)

SameConn(c) ==
    /\ call'[c] = call[c]
    /\ reply'[c].made = reply[c].made /\ reply'[c].sent = reply[c].sent

\* The answer the relay got stays what it is.
SameAnswer ==
    call[Upstream].at = "answered" =>
        call'[Upstream] = call[Upstream] /\ reply'[Upstream].made = reply[Upstream].made

LEMMA Hosts == Host = {"guest", "relay"} /\ Upstream \in Conn /\ Upstream \notin Caller
BY CallerAssumption DEF Host, Conn

LEMMA PassedKept ==
    ASSUME NEW c, SameConn(c), SameAnswer, Passed(c) PROVE Passed(c)'
BY DEF SameConn, SameAnswer, Passed, Got, Hears

LEMMA WholeKept ==
    ASSUME NEW c, SameConn(c)
    PROVE  /\ Hears(c)' <=> Hears(c)
           /\ Alive(c)' <=> Alive(c)
           /\ Untouched(c)' <=> Untouched(c)
           /\ Begun(c)' <=> Begun(c)
           /\ Whole(c)' <=> Whole(c)
           /\ Frames(c)' = Frames(c)
BY DEF SameConn, Hears, Alive, Untouched, Begun, Whole, Frames

LEMMA ConnKept ==
    ASSUME NEW c, SameConn(c), SameAnswer, ConnInv(c) PROVE ConnInv(c)'
BY WholeKept, PassedKept DEF ConnInv, SameConn

\* A connection that failed is nobody's concern.
LEMMA ConnDead == ASSUME NEW c, call'[c] = Unheard PROVE ConnInv(c)'
BY DEF ConnInv, Unheard, Alive, Hears

\* It goes on as it is, hangs up or fails.
StaysOn(c) ==
    Alive(c)' => /\ Alive(c) /\ call'[c].via = call[c].via /\ call'[c].asked = call[c].asked
                 /\ call'[c].at \in {call[c].at, "left"}

LEMMA WaitKept ==
    ASSUME NEW h, WaitInv(h), backlog'[h] = backlog[h],
           \A i \in 1 .. Len(backlog[h]) :
             backlog[h][i] # server'[h].conn /\ StaysOn(backlog[h][i])
    PROVE  WaitInv(h)'
<1>1. ASSUME NEW i \in 1 .. Len(backlog[h]), Alive(backlog[h][i])'
      PROVE  /\ call'[backlog[h][i]].via = h /\ call'[backlog[h][i]].at \in {"greeting", "left"}
             /\ ~Hears(backlog[h][i])'
  BY <1>1 DEF WaitInv, StaysOn, Hears
<1> QED BY <1>1 DEF WaitInv, Served

LEMMA ServeKept ==
    ASSUME NEW h, ServeInv(h), server'[h] = server[h], SameAnswer,
           SameConn(Served(h)) \/ ~Alive(Served(h))'
    PROVE  ServeInv(h)'
<1>1. Served(h)' = Served(h) /\ \A place : IsAt(h, place)' <=> IsAt(h, place)
  BY DEF Served, IsAt
<1>2. CASE ~Alive(Served(h))'
  BY <1>1, <1>2 DEF ServeInv
<1>3. CASE SameConn(Served(h))
  BY <1>1, <1>3, WholeKept, PassedKept DEF ServeInv, SameConn
<1> QED BY <1>2, <1>3

-----------------------------------------------------------------------------
(* Types.                                                                  *)

\* The counters folded in before a report.
LEMMA FoldedType ==
    ASSUME NEW made \in Seq(Report) PROVE Folded(made) \in Seq(Nat)
<1>1. CASE made = <<>>
  BY <1>1 DEF Folded
<1>2. CASE made # <<>>
  <2>1. Len(made) \in 1 .. Len(made)
    BY <1>2
  <2>2. made[Len(made)] \in Report
    BY <2>1
  <2> QED BY <1>2, <2>2 DEF Folded, Report
<1> QED BY <1>1, <1>2

LEMMA ServiceTyped == ServiceInv /\ [ServiceNext]_serviceVars => ServiceTypeOK'
<1> SUFFICES ASSUME ServiceInv, ServiceTypeOK, [ServiceNext]_serviceVars PROVE ServiceTypeOK'
  BY DEF ServiceInv
<1>0. /\ server \in [Host -> Server] /\ backlog \in [Host -> Seq(Conn)]
      /\ call \in [Conn -> Party] /\ reply \in [Conn -> Reply] /\ late \in BOOLEAN
  BY DEF ServiceTypeOK
<1>a. {"guest", "relay"} \subseteq Host
  BY DEF Host
<1>b. ASSUME NEW h \in Host, NEW place \in ServerPlace, Goes(h, place)
      PROVE  server' \in [Host -> Server]
  BY <1>0, <1>b DEF Goes, Server
<1>c. ASSUME NEW c \in Conn, NEW place \in CallPlace, Moves(c, place)
      PROVE  call' \in [Conn -> Party]
  BY <1>0, <1>c DEF Moves, Party
<1>d. ASSUME NEW h \in Host, Stop(h)
      PROVE  /\ server' \in [Host -> Server] /\ backlog' \in [Host -> Seq(Conn)]
             /\ reply' \in [Conn -> Reply]
  <2>1. server' \in [Host -> Server]
    BY <1>0, <1>d DEF Stop, Server, ServerPlace
  <2>2. backlog' \in [Host -> Seq(Conn)]
    BY <1>0, <1>d DEF Stop
  <2>3. reply' \in [Conn -> Reply]
    BY <1>0, <1>d DEF Stop, Ending, Reply
  <2> QED BY <2>1, <2>2, <2>3
<1>e. {"top", "accept", "greet", "hear", "work", "send", "hang up"} \subseteq ServerPlace
  BY DEF ServerPlace
<1>f. {"asking", "reading", "left"} \subseteq CallPlace
  BY DEF CallPlace
<1>g. ASSUME NEW h \in Host, server[h].at \in {"greet", "hear", "work", "send", "hang up"}
      PROVE  Served(h) \in Conn
  <2>1. Served(h) # Nobody
    BY <1>g DEF ServiceInv, StandInv, ServeInv
  <2> QED BY <1>0, <2>1 DEF Served, Server
<1>1. CASE Top
  BY <1>0, <1>a, <1>b, <1>d, <1>e, <1>1 DEF Top, ServiceTypeOK
<1>2. CASE AcceptTimesOut \/ SignFails
  BY <1>0, <1>a, <1>b, <1>e, <1>2 DEF AcceptTimesOut, SignFails, ServiceTypeOK
<1>3. CASE StartSending \/ RelayFails
  BY <1>0, <1>a, <1>b, <1>e, <1>3 DEF StartSending, RelayFails, ServiceTypeOK
<1>4. ASSUME NEW h \in Host, Accept(h) PROVE ServiceTypeOK'
  <2>1. Head(backlog[h]) \in Conn /\ Tail(backlog[h]) \in Seq(Conn)
    BY <1>0, <1>4 DEF Accept
  <2>2. server' \in [Host -> Server]
    BY <1>0, <1>e, <1>4, <2>1 DEF Accept, Server
  <2> QED BY <1>0, <1>4, <2>1, <2>2 DEF Accept, ServiceTypeOK
<1>5. ASSUME NEW h \in Host, Hear(h) \/ LoseCaller(h) PROVE ServiceTypeOK'
  BY <1>0, <1>b, <1>e, <1>5 DEF Hear, LoseCaller, ServiceTypeOK
<1>6. ASSUME NEW h \in Host, SendFrame(h) PROVE ServiceTypeOK'
  <2>1. reply' \in [Conn -> Reply]
    <3>1. Served(h) \in Conn
      BY <1>g, <1>6 DEF SendFrame, IsAt
    <3>2. \A r \in Reply : [r EXCEPT !.sent = @ + 1] \in Reply
      BY DEF Reply
    <3>3. reply' = [reply EXCEPT ![Served(h)] = [reply[Served(h)] EXCEPT !.sent = @ + 1]]
      BY <1>0, <1>6, <3>1 DEF SendFrame
    <3> QED BY <1>0, <3>1, <3>2, <3>3
  <2> QED BY <1>0, <1>b, <1>e, <1>6, <2>1 DEF SendFrame, ServiceTypeOK
<1>7. CASE Sign
  <2> DEFINE c == Served("guest")
             made == reply[c].made
             piece == Piece(c, call[c].asked, Len(made) + 1, Folded(made))
  <2>1. c \in Conn
    BY <1>a, <1>g, <1>7 DEF Sign, IsAt
  <2>2. made \in Seq(Report) /\ Len(made) \in Nat /\ (Len(made) + 1) - 1 \in Nat
    BY <1>0, <2>1 DEF Reply
  <2>3. call[c].asked \in Ask \cup {NoAsk}
    BY <1>0, <2>1 DEF Party
  <2>4. call[c].asked.kind \in Kind \cup {"none"} /\ call[c].asked.head \in STRING \cup {""}
    <3>1. NoAsk.kind = "none" /\ NoAsk.head = ""
      BY DEF NoAsk
    <3>2. \A r \in Ask : r.kind \in Kind /\ r.head \in STRING
      BY DEF Ask
    <3> QED BY <2>3, <3>1, <3>2
  <2>5. Append(Folded(made), (Len(made) + 1) - 1) \in Seq(Nat)
    BY <2>2, FoldedType, AppendProperties
  <2>6. piece \in Report
    <3>1. <<>> \in Seq(Nat)
      OBVIOUS
    <3>2. piece.counters \in Seq(Nat)
      BY <2>5, <3>1 DEF Piece
    <3>3. piece.head \in STRING \cup {""}
      BY <2>4, <3>1 DEF Piece
    <3>4. piece.session \in Conn \cup {Nobody} /\ piece.kind \in Kind \cup {"none"}
      BY <2>1, <2>4 DEF Piece
    <3>5. piece = [kind |-> piece.kind, session |-> piece.session,
                   counters |-> piece.counters, head |-> piece.head]
      BY DEF Piece
    <3> HIDE DEF piece
    <3> QED BY <3>2, <3>3, <3>4, <3>5 DEF Report
  <2>7. reply' = [reply EXCEPT ![c].made = Append(made, piece)]
    BY <1>7 DEF Sign
  <2> HIDE DEF piece, made, c
  <2>8. Append(made, piece) \in Seq(Report)
    BY <2>2, <2>6, AppendProperties
  <2>9. reply' \in [Conn -> Reply]
    BY <1>0, <2>1, <2>7, <2>8 DEF Reply
  <2> QED BY <1>0, <1>7, <2>9 DEF Sign, ServiceTypeOK
<1>8. CASE Forward
  <2>1. Got(Upstream) \in Seq(Report)
    <3>1. reply[Upstream].made \in Seq(Report) /\ call[Upstream].got \in Nat
      BY <1>0, Hosts DEF Reply, Party
    <3>2. call[Upstream].got <= reply[Upstream].sent /\ call[Upstream].got = Frames(Upstream)
      BY <1>8, Hosts DEF Forward, ServiceInv, StandInv, ConnInv, Alive
    <3>3. Got(Upstream) = SubSeq(reply[Upstream].made, 1, Len(reply[Upstream].made))
      BY <3>1, <3>2 DEF Got, Frames
    <3> QED BY <3>1, <3>3
  <2>2. reply' \in [Conn -> Reply]
    BY <1>0, <1>8, <2>1 DEF Forward, Reply
  <2> QED BY <1>0, <1>a, <1>b, <1>e, <1>8, <2>2 DEF Forward, ServiceTypeOK
<1>9. CASE GuestHangsUp
  <2>1. server' \in [Host -> Server] /\ reply' \in [Conn -> Reply]
    BY <1>0, <1>9 DEF GuestHangsUp, Server, ServerPlace, Reply
  <2> QED BY <1>0, <1>9, <2>1 DEF GuestHangsUp, ServiceTypeOK
<1>10. CASE RelayHangsUp \/ GuestDies
  BY <1>0, <1>a, <1>d, <1>10 DEF RelayHangsUp, GuestDies, ServiceTypeOK
<1>11. CASE GuestVanishes
  <2>1. server' \in [Host -> Server]
    BY <1>0, <1>11 DEF GuestVanishes, Server, ServerPlace
  <2> QED BY <1>0, <1>11, <2>1 DEF GuestVanishes, ServiceTypeOK
<1>12. CASE GetsLate
  BY <1>0, <1>12 DEF GetsLate, ServiceTypeOK
<1>13. ASSUME NEW h \in Host, Greet(h) PROVE ServiceTypeOK'
  <2>1. Served(h) \in Conn
    BY <1>g, <1>13 DEF Greet, IsAt
  <2> QED BY <1>0, <1>b, <1>c, <1>e, <1>f, <1>13, <2>1 DEF Greet, ServiceTypeOK
<1>14. ASSUME NEW c \in Conn, NEW h \in Host, Dial(c, h) PROVE ServiceTypeOK'
  <2>1. backlog' \in [Host -> Seq(Conn)]
    BY <1>0, <1>14, AppendProperties DEF Dial
  <2>2. [call[c] EXCEPT !.via = h, !.at = "greeting"] \in Party
    <3>1. call[c] \in Party
      BY <1>0
    <3> QED BY <3>1 DEF Party, CallPlace
  <2>3. call' \in [Conn -> Party]
    BY <1>0, <1>14, <2>2 DEF Dial
  <2> QED BY <1>0, <1>14, <2>1, <2>3 DEF Dial, ServiceTypeOK
<1>15. ASSUME NEW c \in Conn, call' = [call EXCEPT ![c] = Unheard]
      PROVE  call' \in [Conn -> Party]
  BY <1>0, <1>15 DEF Unheard, Party, CallPlace
<1>16. ASSUME NEW c \in Conn, NEW h, DialFails(c, h) \/ CallFails(c) PROVE ServiceTypeOK'
  BY <1>0, <1>15, <1>16 DEF DialFails, CallFails, ServiceTypeOK
<1>17. ASSUME NEW c \in Conn, SendAsk(c) PROVE ServiceTypeOK'
  <2>1. PICK r \in Asks(c) :
          call' = [call EXCEPT ![c].at = "reading", ![c].asked = r]
    BY <1>17 DEF SendAsk
  <2>2. r \in Ask \cup {NoAsk}
    <3>1. CASE c = Upstream
      <4>1. IsAt("relay", "work")
        BY <1>17, <3>1 DEF SendAsk, ServiceInv, StandInv, UpstreamInv
      <4>2. Served("relay") \in Conn
        BY <1>a, <1>g, <4>1 DEF IsAt
      <4> QED BY <1>0, <2>1, <3>1, <4>2 DEF Asks, Party
    <3>2. CASE c # Upstream
      <4>1. Menu[c] \in SUBSET Ask
        BY <3>2, MenuAssumption DEF Conn
      <4> QED BY <2>1, <3>2, <4>1 DEF Asks
    <3> QED BY <3>1, <3>2
  <2>3. [call[c] EXCEPT !.at = "reading", !.asked = r] \in Party
    <3>1. call[c] \in Party
      BY <1>0
    <3> QED BY <2>2, <3>1 DEF Party, CallPlace
  <2>4. call' \in [Conn -> Party]
    BY <1>0, <2>1, <2>3
  <2> QED BY <1>0, <1>17, <2>4 DEF SendAsk, ServiceTypeOK
<1>18. ASSUME NEW c \in Conn, ReadFrame(c) PROVE ServiceTypeOK'
  <2>1. call' \in [Conn -> Party]
    <3>1. call[c].at \in CallPlace /\ call[c].got + 1 \in Nat
      BY <1>0 DEF Party
    <3>2. PICK at \in CallPlace :
            call' = [call EXCEPT ![c].got = @ + 1, ![c].at = at]
      BY <1>0, <1>18, <3>1 DEF ReadFrame, CallPlace
    <3>3. [call[c] EXCEPT !.got = @ + 1, !.at = at] \in Party
      <4>1. call[c] \in Party
        BY <1>0
      <4> QED BY <3>1, <3>2, <4>1 DEF Party
    <3>4. call' = [call EXCEPT ![c] = [call[c] EXCEPT !.got = @ + 1, !.at = at]]
      BY <1>0, <3>2
    <3> QED BY <1>0, <3>3, <3>4
  <2> QED BY <1>0, <1>18, <2>1 DEF ReadFrame, ServiceTypeOK
<1>19. ASSUME NEW c \in Conn, Leave(c) PROVE ServiceTypeOK'
  BY <1>0, <1>c, <1>f, <1>19 DEF Leave, ServiceTypeOK
<1>20. CASE UNCHANGED serviceVars
  BY <1>0, <1>20 DEF serviceVars, ServiceTypeOK
<1>21. CASE GuestStep
  BY <1>a, <1>1, <1>2, <1>3, <1>4, <1>5, <1>6, <1>7, <1>9, <1>21 DEF GuestStep, ServeStep
<1>22. CASE RelayStep
  BY <1>a, <1>3, <1>4, <1>5, <1>6, <1>8, <1>10, <1>14, <1>16, <1>17, <1>18, <1>22, Hosts
     DEF RelayStep, ServeStep, CallerStep
<1>23. CASE \E c \in Caller :
         \/ \E h \in Host : Dial(c, h) \/ DialFails(c, h)
         \/ CallerStep(c) \/ Leave(c)
  <2>1. Caller \subseteq Conn
    BY DEF Conn
  <2> QED BY <1>14, <1>16, <1>17, <1>18, <1>19, <1>23, <2>1 DEF CallerStep
<1> QED BY <1>10, <1>11, <1>12, <1>13, <1>20, <1>21, <1>22, <1>23 DEF ServiceNext

-----------------------------------------------------------------------------
(* Steps of the servers.                                                   *)

\* Nothing is asked, read, made or sent.
Quiet ==
    /\ call' = call
    /\ \A c \in Conn : reply'[c].made = reply[c].made /\ reply'[c].sent = reply[c].sent

LEMMA QuietKeeps ==
    ASSUME StandInv, Quiet
    PROVE  /\ SameAnswer
           /\ \A c \in Conn : SameConn(c) /\ ConnInv(c)' /\ StaysOn(c)
<1>1. SameAnswer /\ \A c \in Conn : SameConn(c)
  BY Hosts DEF Quiet, SameAnswer, SameConn
<1>2. \A c \in Conn : ConnInv(c)'
  BY <1>1, ConnKept DEF StandInv
<1>3. \A c \in Conn : StaysOn(c)
  BY <1>1 DEF StaysOn, SameConn, Alive
<1> QED BY <1>1, <1>2, <1>3

\* Where the connections are that a server has to do with.
LEMMA AtHand ==
    ASSUME ServiceTypeOK, NEW h \in Host
    PROVE  /\ \A i \in 1 .. Len(backlog[h]) : backlog[h][i] \in Conn
           /\ Served(h) # Nobody => Served(h) \in Conn
           /\ Len(backlog[h]) \in Nat
BY DEF ServiceTypeOK, Served, Server

\* A server of which nothing has changed.
LEMMA Unconcerned ==
    ASSUME ServiceTypeOK, StandInv, Quiet, NEW h \in Host,
           server'[h] = server[h], backlog'[h] = backlog[h]
    PROVE  WaitInv(h)' /\ ServeInv(h)'
<1>1. WaitInv(h) /\ ServeInv(h) /\ SameAnswer /\ \A c \in Conn : SameConn(c) /\ StaysOn(c)
  BY QuietKeeps DEF StandInv
<1>2. WaitInv(h)'
  <2>1. \A i \in 1 .. Len(backlog[h]) :
          backlog[h][i] # server'[h].conn /\ StaysOn(backlog[h][i])
    BY <1>1, AtHand DEF WaitInv, Served
  <2> QED BY <1>1, <2>1, WaitKept
<1>3. ServeInv(h)'
  <2>1. CASE Served(h) = Nobody
    BY <1>1, <2>1 DEF ServeInv, Served, IsAt
  <2>2. CASE Served(h) \in Conn
    BY <1>1, <2>2, ServeKept
  <2> QED BY <2>1, <2>2, AtHand
<1> QED BY <1>2, <1>3

LEMMA NoneOfNone == ASSUME NEW n, n = 0 PROVE 1 .. n = {}
OBVIOUS

LEMMA StopKeeps ==
    ASSUME ServiceInv, NEW h \in Host, Stop(h), call' = call,
           h = "relay" => IsAt(h, "hang up")
    PROVE  StandInv'
<1>0. ServiceTypeOK /\ StandInv
  BY DEF ServiceInv
<1>1. Quiet
  BY <1>0 DEF Stop, Ending, Quiet, ServiceTypeOK, Reply
<1>2. /\ server'[h].at = "stopped" /\ server'[h].conn = Nobody /\ Len(backlog'[h]) = 0
      /\ \A g \in Host \ {h} : server'[g] = server[g] /\ backlog'[g] = backlog[g]
  BY <1>0 DEF Stop, ServiceTypeOK
<1>a. 1 .. Len(backlog'[h]) = {}
  BY <1>2, NoneOfNone
<1>3. WaitInv(h)' /\ ServeInv(h)'
  <2>1. WaitInv(h)'
    BY <1>a DEF WaitInv
  <2>2. ServeInv(h)'
    BY <1>2 DEF ServeInv, Served, IsAt
  <2> QED BY <2>1, <2>2
<1>4. \A g \in Host \ {h} : WaitInv(g)' /\ ServeInv(g)'
  BY <1>0, <1>1, <1>2, Unconcerned
<1>5. UpstreamInv'
  <2>1. UpstreamInv /\ "relay" \in Host /\ call' = call /\ Upstream # Nobody
    BY <1>0, Hosts, CallerAssumption DEF StandInv
  <2>2. CASE h = "relay"
    <3>1. call[Upstream].at \notin {"greeting", "asking", "reading"}
      BY <2>1, <2>2 DEF UpstreamInv, IsAt
    <3> QED BY <1>2, <1>a, <2>1, <2>2, <3>1 DEF UpstreamInv, Served, IsAt
  <2>3. CASE h # "relay"
    BY <1>2, <2>1, <2>3 DEF UpstreamInv, Served, IsAt, Alive
  <2> QED BY <2>2, <2>3
<1> QED BY <1>0, <1>1, <1>3, <1>4, <1>5, QuietKeeps DEF StandInv

\* A server goes on to another place, and nothing else happens.
LEMMA GoingKeeps ==
    ASSUME ServiceInv, NEW h \in Host, NEW place, Goes(h, place),
           UNCHANGED <<backlog, call, reply>>,
           place \in {"top", "accept", "gone"} => h = "guest",
           place \in {"top", "accept", "work", "send", "hang up", "gone"},
           place \in {"work", "send", "hang up"} => Served(h) # Nobody,
           place = "work" => /\ IsAt(h, "hear") /\ Hears(Served(h))
                             /\ h = "guest" => call[Served(h)].asked.kind # "unreadable",
           place = "send" => h = "guest" /\ (Alive(Served(h)) => Whole(Served(h))),
           h = "relay" => call[Upstream].at \notin {"greeting", "asking", "reading"}
    PROVE  StandInv'
<1>0. ServiceTypeOK /\ StandInv /\ Quiet
  BY DEF ServiceInv, Quiet
<1>1. /\ server'[h].at = place /\ server'[h].conn = server[h].conn
      /\ \A g \in Host \ {h} : server'[g] = server[g]
  BY <1>0 DEF Goes, ServiceTypeOK, Server
<1>2. SameAnswer /\ \A c \in Conn : SameConn(c) /\ StaysOn(c) /\ ConnInv(c)'
  BY <1>0, QuietKeeps
<1>3. WaitInv(h)'
  <2>1. \A i \in 1 .. Len(backlog[h]) :
          backlog[h][i] # server'[h].conn /\ StaysOn(backlog[h][i])
    <3>1. WaitInv(h) /\ server'[h].conn = Served(h)
      BY <1>0, <1>1 DEF StandInv, Served
    <3> QED BY <1>0, <1>2, <3>1, AtHand DEF WaitInv
  <2> QED BY <1>0, <2>1, WaitKept DEF StandInv
<1>4. ServeInv(h)'
  <2>1. ServeInv(h) /\ Served(h)' = Served(h) /\ UNCHANGED <<call, reply>>
    BY <1>0, <1>1 DEF StandInv, Served
  <2>2. CASE place \in {"top", "accept", "hang up", "gone"}
    BY <1>1, <2>1, <2>2 DEF ServeInv, IsAt, Alive
  <2>3. CASE place = "work"
    BY <1>1, <2>1, <2>3 DEF ServeInv, IsAt, Alive, Untouched, Hears
  <2>4. CASE place = "send"
    <3>1. Served(h) \in Conn
      BY <1>0, <2>4, AtHand
    <3>2. (Whole(Served(h)) => Whole(Served(h))') /\ (Whole(Served(h)) => Hears(Served(h))')
      BY <2>1 DEF Whole, Begun, Hears
    <3> QED BY <1>1, <2>1, <2>4, <3>2 DEF ServeInv, IsAt, Alive
  <2> QED BY <2>2, <2>3, <2>4
<1>5. UpstreamInv'
  <2>1. UpstreamInv /\ UNCHANGED <<backlog, call>> /\ "relay" \in Host
    BY <1>0, Hosts DEF StandInv
  <2>2. CASE h = "relay"
    BY <1>1, <2>1, <2>2 DEF UpstreamInv, Served, IsAt
  <2>3. CASE h # "relay"
    BY <1>1, <2>1, <2>3 DEF UpstreamInv, Served, IsAt, Alive
  <2> QED BY <2>2, <2>3
<1> QED BY <1>0, <1>1, <1>2, <1>3, <1>4, <1>5, Unconcerned DEF StandInv

\* The steps that move one server and nothing else.
LEMMA MovesKeep ==
    ASSUME ServiceInv, NEW h \in Host,
           \/ (Top /\ ~late) \/ AcceptTimesOut \/ SignFails \/ StartSending
           \/ RelayFails \/ GuestVanishes \/ Hear(h) \/ LoseCaller(h)
    PROVE  StandInv'
<1>0. StandInv /\ UpstreamInv /\ (\A g \in Host : ServeInv(g)) /\ "guest" \in Host /\ "relay" \in Host
  BY Hosts DEF ServiceInv, StandInv
<1>1. CASE Top /\ ~late
  <2>1. Goes("guest", "accept") /\ UNCHANGED <<backlog, call, reply>>
    BY <1>1 DEF Top
  <2> QED BY <1>0, <2>1, GoingKeeps
<1>2. CASE AcceptTimesOut
  <2>1. Goes("guest", "top") /\ UNCHANGED <<backlog, call, reply>>
    BY <1>2 DEF AcceptTimesOut
  <2> QED BY <1>0, <2>1, GoingKeeps
<1>3. CASE SignFails
  <2>1. /\ Goes("guest", "hang up") /\ UNCHANGED <<backlog, call, reply>>
        /\ Served("guest") # Nobody
    BY <1>0, <1>3 DEF SignFails, ServeInv, IsAt
  <2> QED BY <1>0, <2>1, GoingKeeps
<1>4. CASE StartSending
  <2> DEFINE c == Served("guest")
  <2>1. Goes("guest", "send") /\ UNCHANGED <<backlog, call, reply>> /\ IsAt("guest", "work")
    BY <1>4 DEF StartSending
  <2>2. c # Nobody
    BY <1>0, <2>1 DEF ServeInv, IsAt
  <2>3. ASSUME Alive(c) PROVE Whole(c)
    <3>1. c \in Conn /\ ConnInv(c)
      BY <1>0, <2>2, AtHand DEF ServiceInv, StandInv
    <3>2. call[c].via = "guest" /\ Hears(c) /\ call[c].asked.kind # "unreadable"
      BY <1>0, <2>1, <2>2, <2>3 DEF ServeInv, IsAt
    <3>3. Begun(c)
      BY <2>3, <3>1, <3>2 DEF ConnInv
    <3> QED BY <1>4, <3>2, <3>3 DEF StartSending, Whole
  <2> QED BY <1>0, <2>1, <2>2, <2>3, GoingKeeps
<1>5. CASE RelayFails
  <2>1. /\ Goes("relay", "hang up") /\ UNCHANGED <<backlog, call, reply>>
        /\ Served("relay") # Nobody /\ call[Upstream].at = "failed"
    BY <1>0, <1>5 DEF RelayFails, ServeInv, IsAt
  <2> QED BY <1>0, <2>1, GoingKeeps
<1>6. CASE GuestVanishes
  <2>1. Goes("guest", "gone") /\ UNCHANGED <<backlog, call, reply>>
    BY <1>6 DEF GuestVanishes, Goes
  <2> QED BY <1>0, <2>1, GoingKeeps
<1>7. CASE Hear(h)
  <2>1. /\ UNCHANGED <<backlog, call, reply>> /\ IsAt(h, "hear") /\ Hears(Served(h))
        /\ Served(h) # Nobody
    BY <1>0, <1>7 DEF Hear, Hears, ServeInv, IsAt
  <2>2. h = "relay" => call[Upstream].at = "idle"
    BY <1>0, <2>1 DEF UpstreamInv, IsAt
  <2>3. CASE Goes(h, "hang up")
    BY <2>1, <2>2, <2>3, GoingKeeps
  <2>4. CASE Goes(h, "work") /\ (h = "guest" => call[Served(h)].asked.kind # "unreadable")
    BY <2>1, <2>2, <2>4, GoingKeeps
  <2> QED BY <1>7, <2>3, <2>4 DEF Hear
<1>8. CASE LoseCaller(h)
  <2>1. /\ UNCHANGED <<backlog, call, reply>> /\ Goes(h, "hang up")
        /\ server[h].at \in {"greet", "hear", "send"}
    BY <1>8 DEF LoseCaller, IsAt
  <2>2. Served(h) # Nobody
    BY <1>0, <2>1 DEF ServeInv
  <2>3. h = "relay" => call[Upstream].at \notin {"greeting", "asking", "reading"}
    BY <1>0, <2>1 DEF UpstreamInv, IsAt
  <2> QED BY <2>1, <2>2, <2>3, GoingKeeps
<1> QED BY <1>1, <1>2, <1>3, <1>4, <1>5, <1>6, <1>7, <1>8

LEMMA HangUpKeeps == ASSUME ServiceInv, GuestHangsUp PROVE StandInv'
<1>0. ServiceTypeOK /\ StandInv /\ "guest" \in Host /\ "relay" \in Host /\ Upstream \in Conn
  BY Hosts DEF ServiceInv
<1>1. Quiet /\ backlog' = backlog
  BY <1>0 DEF GuestHangsUp, Quiet, ServiceTypeOK, Reply
<1>2. /\ server'["guest"].at = "top" /\ server'["guest"].conn = Nobody
      /\ \A g \in Host \ {"guest"} : server'[g] = server[g]
  BY <1>0 DEF GuestHangsUp, ServiceTypeOK
<1>3. WaitInv("guest")'
  <2>1. WaitInv("guest") /\ \A c \in Conn : StaysOn(c)
    BY <1>0, <1>1, QuietKeeps DEF StandInv
  <2>2. \A i \in 1 .. Len(backlog["guest"]) : backlog["guest"][i] \in Conn
    BY <1>0, AtHand
  <2>3. Nobody \notin Conn
    BY CallerAssumption DEF Conn
  <2> QED BY <1>0, <1>1, <1>2, <2>1, <2>2, <2>3, WaitKept
<1>4. ServeInv("guest")'
  BY <1>2 DEF ServeInv, Served, IsAt
<1>5. \A g \in Host \ {"guest"} : WaitInv(g)' /\ ServeInv(g)'
  BY <1>0, <1>1, <1>2, Unconcerned
<1>6. UpstreamInv'
  <2>1. UpstreamInv /\ server'["relay"] = server["relay"] /\ call' = call
    BY <1>0, <1>1, <1>2 DEF StandInv, Quiet
  <2> QED BY <1>1, <2>1 DEF UpstreamInv, Served, IsAt, Alive
<1> QED BY <1>0, <1>1, <1>3, <1>4, <1>5, <1>6, QuietKeeps DEF StandInv

LEMMA AcceptKeeps == ASSUME ServiceInv, NEW h \in Host, Accept(h) PROVE StandInv'
<1>0. ServiceTypeOK /\ StandInv /\ UpstreamInv /\ WaitInv(h) /\ "relay" \in Host
  BY Hosts DEF ServiceInv, StandInv
<1>1. Quiet /\ UNCHANGED <<call, reply>>
  BY DEF Accept, Quiet
<1> DEFINE c == Head(backlog[h])
           q == backlog[h]
<1>2. q \in Seq(Conn) /\ q # <<>>
  BY <1>0 DEF Accept, ServiceTypeOK
<1>3. /\ c = q[1] /\ 1 \in 1 .. Len(q) /\ Len(q) \in Nat /\ c \in Conn
      /\ Tail(q) \in Seq(Conn) /\ Len(Tail(q)) = Len(q) - 1
      /\ \A i \in 1 .. Len(Tail(q)) : Tail(q)[i] = q[i + 1] /\ i + 1 \in 1 .. Len(q)
  BY <1>2
<1>4. /\ server'[h].at = "greet" /\ server'[h].conn = c /\ backlog'[h] = Tail(q)
      /\ \A g \in Host \ {h} : server'[g] = server[g] /\ backlog'[g] = backlog[g]
  BY <1>0 DEF Accept, ServiceTypeOK
<1>5. c # Nobody
  BY <1>3, CallerAssumption DEF Conn
<1>6. Alive(c) => call[c].via = h /\ call[c].at \in {"greeting", "left"} /\ ~Hears(c)
  BY <1>0, <1>3 DEF WaitInv
<1> HIDE DEF c, q
<1>7. WaitInv(h)'
  <2>1. \A i \in 1 .. Len(Tail(q)) :
          /\ Tail(q)[i] # c
          /\ Alive(Tail(q)[i]) => /\ call[Tail(q)[i]].via = h
                                  /\ call[Tail(q)[i]].at \in {"greeting", "left"}
                                  /\ ~Hears(Tail(q)[i])
    <3>1. \A i \in 1 .. Len(q) : q[i] = q[1] => i = 1
      BY <1>0, <1>3 DEF WaitInv, q
    <3>2. \A i \in 1 .. Len(Tail(q)) : i + 1 # 1
      BY <1>3
    <3> QED BY <1>0, <1>3, <3>1, <3>2 DEF WaitInv, q
  <2>2. \A i, j \in 1 .. Len(Tail(q)) : Tail(q)[i] = Tail(q)[j] => i = j
    <3>1. \A i, j \in 1 .. Len(q) : q[i] = q[j] => i = j
      BY <1>0 DEF WaitInv, q
    <3>2. \A i, j \in 1 .. Len(Tail(q)) : i + 1 = j + 1 => i = j
      BY <1>3
    <3> QED BY <1>3, <3>1, <3>2
  <2> QED BY <1>1, <1>4, <2>1, <2>2 DEF WaitInv, Served, Alive, Hears
<1>8. ServeInv(h)'
  BY <1>1, <1>4, <1>5, <1>6 DEF ServeInv, Served, IsAt, Alive, Hears
<1>9. UpstreamInv'
  <2>1. CASE h = "relay"
    <3>1. IsAt("relay", "accept")
      BY <2>1 DEF Accept
    <3>2. call[Upstream].at = "idle"
      BY <1>0, <3>1 DEF UpstreamInv, IsAt
    <3>3. c # Upstream /\ \A i \in 1 .. Len(Tail(q)) : Tail(q)[i] # Upstream
      BY <1>0, <1>3, <2>1 DEF UpstreamInv, q
    <3> QED BY <1>0, <1>1, <1>4, <2>1, <3>2, <3>3 DEF UpstreamInv, Served, IsAt
  <2>2. CASE h # "relay"
    BY <1>0, <1>1, <1>4, <2>2 DEF UpstreamInv, Served, IsAt, Alive
  <2> QED BY <2>1, <2>2
<1> QED BY <1>0, <1>1, <1>4, <1>7, <1>8, <1>9, QuietKeeps, Unconcerned DEF StandInv

-----------------------------------------------------------------------------
(* Steps of a connection: one party changes, and no server does.           *)

\* All the others.
OthersKept(c) ==
    \A x \in Conn \ {c} : call'[x] = call[x]

LEMMA PartyKeeps ==
    ASSUME ServiceInv, NEW c \in Conn, OthersKept(c), UNCHANGED <<server, reply>>,
           call[c].at # "answered", ConnInv(c)',
           \A h \in Host : WaitInv(h)',
           \A h \in Host : Served(h) = c /\ Alive(c)' => ServeInv(h)',
           UpstreamInv'
    PROVE  StandInv'
<1>0. ServiceTypeOK /\ StandInv
  BY DEF ServiceInv
<1>1. SameAnswer /\ \A x \in Conn \ {c} : SameConn(x)
  BY Hosts DEF OthersKept, SameAnswer, SameConn
<1>2. \A x \in Conn : ConnInv(x)'
  BY <1>0, <1>1, ConnKept DEF StandInv
<1>3. ASSUME NEW h \in Host PROVE ServeInv(h)'
  <2>1. ServeInv(h) /\ server'[h] = server[h]
    BY <1>0 DEF StandInv
  <2>2. CASE Served(h) = Nobody
    BY <2>1, <2>2 DEF ServeInv, Served, IsAt
  <2>3. CASE Served(h) \in Conn /\ (Served(h) # c \/ ~Alive(c)')
    <3>1. SameConn(Served(h)) \/ ~Alive(Served(h))'
      BY <1>1, <2>1, <2>3 DEF Served, Alive
    <3> QED BY <1>1, <2>1, <3>1, ServeKept
  <2> QED BY <1>0, <2>2, <2>3, AtHand
<1> QED BY <1>2, <1>3 DEF StandInv

\* It gives up, having no answer.
LEMMA FailKeeps ==
    ASSUME ServiceInv, NEW c \in Conn, NEW h \in Host,
           (DialFails(c, h) /\ (c = Upstream => IsAt("relay", "work"))) \/ CallFails(c)
    PROVE  StandInv'
<1>0. ServiceTypeOK /\ StandInv /\ UpstreamInv /\ "relay" \in Host
  BY Hosts DEF ServiceInv, StandInv
<1>1. /\ UNCHANGED <<server, backlog, reply>> /\ call' = [call EXCEPT ![c] = Unheard]
      /\ call[c].at \in {"idle", "greeting", "asking", "reading"}
      /\ call[c].at = "idle" => (c = Upstream => IsAt("relay", "work"))
  BY DEF DialFails, CallFails, MayDial
<1>2. call'[c] = Unheard /\ OthersKept(c)
  BY <1>0, <1>1 DEF OthersKept, ServiceTypeOK
<1>3. ~Alive(c)' /\ \A x \in Conn : StaysOn(x)
  BY <1>2 DEF Alive, Unheard, StaysOn, OthersKept
<1>4. ASSUME NEW g \in Host PROVE WaitInv(g)'
  <2>1. WaitInv(g) /\ backlog'[g] = backlog[g] /\ server'[g].conn = Served(g)
    BY <1>0, <1>1 DEF StandInv, Served
  <2>2. \A i \in 1 .. Len(backlog[g]) :
          backlog[g][i] # server'[g].conn /\ StaysOn(backlog[g][i])
    BY <1>0, <1>3, <2>1, AtHand DEF WaitInv
  <2> QED BY <2>1, <2>2, WaitKept
<1>5. ConnInv(c)'
  BY <1>2, ConnDead
<1>6. UpstreamInv'
  <2>1. CASE c = Upstream
    <3>1. server["relay"].at \notin {"accept", "greet", "hear"}
      BY <1>0, <1>1, <2>1 DEF UpstreamInv, IsAt
    <3> QED BY <1>0, <1>1, <1>2, <2>1, <3>1 DEF UpstreamInv, Served, IsAt, Unheard
  <2>2. CASE c # Upstream
    <3>1. call'[Upstream] = call[Upstream]
      BY <1>2, <2>2, Hosts DEF OthersKept
    <3>2. Alive(Served("relay"))' /\ IsAt("relay", "work") =>
            Alive(Served("relay")) /\ call'[Served("relay")] = call[Served("relay")]
      <4>1. IsAt("relay", "work") => Served("relay") \in Conn
        BY <1>0, AtHand DEF StandInv, ServeInv, IsAt
      <4>2. Alive(Served("relay"))' => Served("relay") # c
        BY <1>1, <1>3 DEF Served, Alive
      <4> QED BY <1>1, <1>2, <4>1, <4>2 DEF OthersKept, Alive, Served
    <3> QED BY <1>0, <1>1, <3>1, <3>2 DEF UpstreamInv, Served, IsAt
  <2> QED BY <2>1, <2>2
<1> QED BY <1>1, <1>2, <1>3, <1>4, <1>5, <1>6, PartyKeeps

LEMMA DialKeeps ==
    ASSUME ServiceInv, NEW c \in Conn, NEW h \in Host, Dial(c, h),
           c = Upstream => h = "guest"
    PROVE  StandInv'
<1>0. ServiceTypeOK /\ StandInv /\ UpstreamInv /\ ConnInv(c) /\ "relay" \in Host
  BY Hosts DEF ServiceInv, StandInv
<1>1. /\ UNCHANGED <<server, reply>> /\ call[c].at = "idle"
      /\ call' = [call EXCEPT ![c].via = h, ![c].at = "greeting"]
      /\ backlog' = [backlog EXCEPT ![h] = Append(@, c)]
      /\ c = Upstream => IsAt("relay", "work")
  BY DEF Dial, MayDial
<1>2. /\ OthersKept(c) /\ call'[c].via = h /\ call'[c].at = "greeting"
      /\ call'[c].asked = call[c].asked /\ call'[c].got = call[c].got
  BY <1>0, <1>1 DEF OthersKept, ServiceTypeOK, Party
<1>3. call[c].via = "none" /\ Alive(c) /\ ~Hears(c) /\ Untouched(c) /\ call[c].got = 0
  BY <1>0, <1>1 DEF ConnInv, Alive
<1>4. \A g \in Host : Served(g) # c
  <2>1. c # Nobody /\ "none" \notin Host
    BY CallerAssumption DEF Conn, Host
  <2> SUFFICES ASSUME NEW g \in Host, Served(g) = c PROVE FALSE
    OBVIOUS
  <2>2. ServeInv(g)
    BY <1>0 DEF StandInv
  <2>3. call[c].via = g
    BY <1>3, <2>1, <2>2 DEF ServeInv
  <2> QED BY <1>3, <2>1, <2>3
<1>5. \A g \in Host : \A i \in 1 .. Len(backlog[g]) : backlog[g][i] # c
  <2>1. "none" \notin Host
    BY DEF Host
  <2> QED BY <1>0, <1>3, <2>1 DEF StandInv, WaitInv
<1>6. ConnInv(c)'
  <2>1. call'[c].asked = NoAsk
    BY <1>2, <1>3 DEF Hears
  <2>2. Begun(c)'
    <3>1. Len(reply'[c].made) = 0 /\ Pieces(NoAsk) = 0
      BY <1>1, <1>3 DEF Untouched, Pieces, NoAsk
    <3>2. 1 .. Len(reply'[c].made) = {}
      BY <3>1, NoneOfNone
    <3> QED BY <2>1, <3>1, <3>2 DEF Begun
  <2>3. reply'[c].sent = 0 /\ ~(reply'[c].sent > 0) /\ Untouched(c)' /\ ~Hears(c)'
    BY <1>1, <1>3, <2>1 DEF Untouched, Hears
  <2>4. h # "none"
    BY DEF Host
  <2> QED BY <1>2, <1>3, <2>2, <2>3, <2>4 DEF ConnInv
<1>7. ASSUME NEW g \in Host PROVE WaitInv(g)'
  <2>1. WaitInv(g) /\ \A x \in Conn \ {c} : StaysOn(x)
    BY <1>0, <1>2 DEF StandInv, StaysOn, OthersKept, Alive
  <2>2. CASE g # h
    <3>1. backlog'[g] = backlog[g] /\ server'[g].conn = Served(g)
      BY <1>0, <1>1, <2>2 DEF Served, ServiceTypeOK
    <3>2. \A i \in 1 .. Len(backlog[g]) :
            backlog[g][i] # server'[g].conn /\ StaysOn(backlog[g][i])
      BY <1>0, <1>5, <2>1, <3>1, AtHand DEF WaitInv
    <3> QED BY <2>1, <3>1, <3>2, WaitKept
  <2>3. CASE g = h
    <3> DEFINE q == backlog[h]
    <3>1. q \in Seq(Conn)
      BY <1>0 DEF ServiceTypeOK
    <3>2. /\ backlog'[h] = Append(q, c) /\ Len(Append(q, c)) = Len(q) + 1 /\ Len(q) \in Nat
          /\ \A i \in 1 .. Len(q) : Append(q, c)[i] = q[i]
          /\ Append(q, c)[Len(q) + 1] = c
      BY <1>0, <1>1, <3>1, AppendProperties DEF ServiceTypeOK
    <3> HIDE DEF q
    <3>3. \A i \in 1 .. Len(q) + 1 : i \in 1 .. Len(q) \/ i = Len(q) + 1
      BY <3>2
    <3>4. \A i \in 1 .. Len(q) : q[i] \in Conn \ {c}
      BY <1>0, <1>5, AtHand DEF q
    <3>5. \A i, j \in 1 .. Len(q) + 1 : Append(q, c)[i] = Append(q, c)[j] => i = j
      <4>1. \A i, j \in 1 .. Len(q) : q[i] = q[j] => i = j
        BY <2>1, <2>3 DEF WaitInv, q
      <4> QED BY <3>2, <3>3, <3>4, <4>1
    <3>6. ASSUME NEW i \in 1 .. Len(q) + 1
          PROVE  LET x == Append(q, c)[i] IN
                 /\ x # server'[h].conn
                 /\ call'[x].at # "failed" =>
                      /\ call'[x].via = h /\ call'[x].at \in {"greeting", "left"}
                      /\ call'[x].asked = NoAsk
      <4>1. CASE i = Len(q) + 1
        BY <1>1, <1>2, <1>3, <1>4, <3>2, <4>1 DEF Served, Hears
      <4>2. CASE i \in 1 .. Len(q)
        <5>1. call'[q[i]] = call[q[i]]
          BY <1>2, <3>4, <4>2 DEF OthersKept
        <5>2. /\ q[i] # Served(h)
              /\ Alive(q[i]) => /\ call[q[i]].via = h /\ call[q[i]].at \in {"greeting", "left"}
                                /\ ~Hears(q[i])
          BY <2>1, <2>3, <4>2 DEF WaitInv, q
        <5> QED BY <1>1, <3>2, <4>2, <5>1, <5>2 DEF Served, Alive, Hears
      <4> QED BY <3>3, <4>1, <4>2
    <3> QED BY <2>3, <3>2, <3>5, <3>6 DEF WaitInv, Served, Alive, Hears
  <2> QED BY <2>2, <2>3
<1>8. UpstreamInv'
  <2>1. \A i \in 1 .. Len(backlog'["relay"]) : backlog'["relay"][i] # Upstream
    <3>1. CASE h # "relay"
      BY <1>0, <1>1, <3>1 DEF UpstreamInv, ServiceTypeOK
    <3>2. CASE h = "relay"
      <4>1. /\ backlog["relay"] \in Seq(Conn) /\ backlog'["relay"] = Append(backlog["relay"], c)
            /\ c # Upstream
        BY <1>0, <1>1, <3>2 DEF ServiceTypeOK
      <4> QED BY <1>0, <4>1, AppendProperties DEF UpstreamInv
    <3> QED BY <3>1, <3>2
  <2>2. CASE c = Upstream
    <3>1. server["relay"].at \notin {"accept", "greet", "hear"}
      BY <1>1, <2>2 DEF IsAt
    <3> QED BY <1>0, <1>1, <1>2, <2>1, <2>2, <3>1 DEF UpstreamInv, Served, IsAt
  <2>3. CASE c # Upstream
    <3>1. call'[Upstream] = call[Upstream]
      BY <1>2, <2>3, Hosts DEF OthersKept
    <3>2. IsAt("relay", "work") => call'[Served("relay")] = call[Served("relay")]
      <4>1. IsAt("relay", "work") => Served("relay") \in Conn
        BY <1>0, AtHand DEF StandInv, ServeInv, IsAt
      <4> QED BY <1>0, <1>2, <1>4, <4>1 DEF OthersKept
    <3> QED BY <1>0, <1>1, <2>1, <3>1, <3>2 DEF UpstreamInv, Served, IsAt, Alive
  <2> QED BY <2>2, <2>3
<1> QED BY <1>1, <1>2, <1>4, <1>6, <1>7, <1>8, PartyKeeps

\* A caller that is past its handshake waits nowhere and is greeted by nobody.
LEMMA PastGreeting ==
    ASSUME StandInv, NEW c \in Conn, call[c].at \in {"asking", "reading"}
    PROVE  \A h \in Host :
             /\ \A i \in 1 .. Len(backlog[h]) : backlog[h][i] # c
             /\ Served(h) = c => ~IsAt(h, "greet")
<1>1. CallerAssumption /\ c # Nobody /\ Alive(c)
  BY CallerAssumption DEF Conn, Alive
<1>2. ASSUME NEW h \in Host, NEW i \in 1 .. Len(backlog[h]), backlog[h][i] = c PROVE FALSE
  BY <1>1, <1>2 DEF StandInv, WaitInv
<1>3. ASSUME NEW h \in Host, Served(h) = c, IsAt(h, "greet") PROVE FALSE
  <2>1. ServeInv(h)
    BY DEF StandInv
  <2> QED BY <1>1, <1>3, <2>1 DEF ServeInv
<1> QED BY <1>2, <1>3

\* What a step of a caller, the handshake apart, does to those that wait.
LEMMA WaitersStay ==
    ASSUME ServiceInv, NEW c \in Conn, OthersKept(c), UNCHANGED <<server, backlog>>,
           StaysOn(c) \/ \A h \in Host : \A i \in 1 .. Len(backlog[h]) : backlog[h][i] # c
    PROVE  \A h \in Host : WaitInv(h)'
<1> SUFFICES ASSUME NEW h \in Host PROVE WaitInv(h)'
  OBVIOUS
<1>1. ServiceTypeOK /\ WaitInv(h) /\ backlog'[h] = backlog[h] /\ server'[h].conn = Served(h)
  BY DEF ServiceInv, StandInv, Served
<1>2. \A x \in Conn \ {c} : StaysOn(x)
  BY DEF StaysOn, OthersKept, Alive
<1>3. \A i \in 1 .. Len(backlog[h]) :
        backlog[h][i] # server'[h].conn /\ StaysOn(backlog[h][i])
  BY <1>1, <1>2, AtHand DEF WaitInv
<1> QED BY <1>1, <1>3, WaitKept

LEMMA AskKeeps == ASSUME ServiceInv, NEW c \in Conn, SendAsk(c) PROVE StandInv'
<1>0. ServiceTypeOK /\ StandInv /\ UpstreamInv /\ ConnInv(c) /\ "relay" \in Host
  BY Hosts DEF ServiceInv, StandInv
<1>1. UNCHANGED <<server, backlog, reply>> /\ call[c].at = "asking"
  BY DEF SendAsk
<1>2. PICK r \in Asks(c) : call' = [call EXCEPT ![c].at = "reading", ![c].asked = r]
  BY DEF SendAsk
<1>3. /\ OthersKept(c) /\ call'[c].via = call[c].via /\ call'[c].at = "reading"
      /\ call'[c].asked = r /\ call'[c].got = call[c].got
  BY <1>0, <1>2 DEF OthersKept, ServiceTypeOK, Party
<1>4. Alive(c) /\ ~Hears(c) /\ Untouched(c) /\ call[c].got = 0 /\ call[c].via # "none"
  BY <1>0, <1>1 DEF ConnInv, Alive
<1>5. ConnInv(c)'
  <2>1. Untouched(c)' /\ ~(reply'[c].sent > 0) /\ reply'[c].sent = 0
    BY <1>1, <1>4 DEF Untouched
  <2>2. Begun(c)'
    <3>2. Len(reply'[c].made) = 0
      BY <2>1 DEF Untouched
    <3>3. r \in Ask \cup {NoAsk}
      <4>1. CASE c = Upstream
        <5>1. Served("relay") \in Conn
          BY <1>0, <1>1, <4>1, AtHand DEF UpstreamInv, StandInv, ServeInv, IsAt
        <5> QED BY <1>0, <1>2, <4>1, <5>1 DEF Asks, ServiceTypeOK, Party
      <4>2. CASE c # Upstream
        <5>1. Menu[c] \in SUBSET Ask
          BY <4>2, MenuAssumption DEF Conn
        <5> QED BY <1>2, <4>2, <5>1 DEF Asks
      <4> QED BY <4>1, <4>2
    <3>4. 0 <= Pieces(r)
      <4>1. r.steps \in Nat
        <5>1. NoAsk.steps = 0 /\ \A a \in Ask : a.steps \in Nat
          BY DEF Ask, NoAsk
        <5> QED BY <3>3, <5>1
      <4> QED BY <4>1 DEF Pieces
    <3>5. 1 .. Len(reply'[c].made) = {}
      BY <3>2, NoneOfNone
    <3> QED BY <1>3, <3>2, <3>4, <3>5 DEF Begun
  <2> QED BY <1>3, <1>4, <2>1, <2>2 DEF ConnInv
<1>6. ASSUME NEW h \in Host
      PROVE  /\ \A i \in 1 .. Len(backlog[h]) : backlog[h][i] # c
             /\ Served(h) = c => ~IsAt(h, "greet")
  BY <1>0, <1>1, PastGreeting
<1>7. \A h \in Host : WaitInv(h)'
  <2>1. \A h \in Host : \A i \in 1 .. Len(backlog[h]) : backlog[h][i] # c
    BY <1>6
  <2> QED BY <1>1, <1>3, <2>1, WaitersStay
<1>8. ASSUME NEW h \in Host, Served(h) = c PROVE ServeInv(h)'
  <2>1. ServeInv(h) /\ c # Nobody
    BY <1>0, CallerAssumption DEF StandInv, Conn
  <2>2. call[c].via = h /\ server[h].at \notin {"work", "send", "greet"}
    <3>1. call[c].via = h /\ (server[h].at \in {"work", "send"} => Hears(c))
      BY <1>4, <1>8, <2>1 DEF ServeInv
    <3>2. ~IsAt(h, "greet")
      BY <1>6, <1>8
    <3> QED BY <1>4, <3>1, <3>2 DEF IsAt
  <2> QED BY <1>1, <1>3, <1>4, <1>8, <2>1, <2>2 DEF ServeInv, Served, IsAt, Untouched
<1>9. UpstreamInv'
  <2>1. CASE c = Upstream
    <3>1. IsAt("relay", "work") /\ r = call[Served("relay")].asked /\ Served("relay") # c
      BY <1>0, <1>1, <1>2, <2>1 DEF UpstreamInv, Asks
    <3>2. Served("relay") \in Conn
      BY <1>0, <3>1, AtHand DEF StandInv, ServeInv, IsAt
    <3>3. call'[Served("relay")] = call[Served("relay")]
      BY <1>3, <3>1, <3>2 DEF OthersKept
    <3> QED BY <1>0, <1>1, <1>3, <2>1, <3>1, <3>3 DEF UpstreamInv, Served, IsAt
  <2>2. CASE c # Upstream
    <3>1. call'[Upstream] = call[Upstream]
      BY <1>3, <2>2, Hosts DEF OthersKept
    <3>2. IsAt("relay", "work") => call'[Served("relay")] = call[Served("relay")]
      <4>1. IsAt("relay", "work") => Served("relay") \in Conn
        BY <1>0, AtHand DEF StandInv, ServeInv, IsAt
      <4>2. IsAt("relay", "work") => Served("relay") # c
        <5>1. ServeInv("relay") /\ c # Nobody
          BY <1>0, CallerAssumption DEF StandInv, Conn
        <5> QED BY <1>4, <5>1 DEF ServeInv, IsAt
      <4> QED BY <1>3, <4>1, <4>2 DEF OthersKept
    <3> QED BY <1>0, <1>1, <3>1, <3>2 DEF UpstreamInv, Served, IsAt, Alive
  <2> QED BY <2>1, <2>2
<1> QED BY <1>1, <1>3, <1>5, <1>7, <1>8, <1>9, PartyKeeps

\* It reads what it asked for, or hangs up: what it asked stays.
LEMMA ReadingKeeps ==
    ASSUME ServiceInv, NEW c \in Conn, ReadFrame(c) \/ (c \in Caller /\ Leave(c))
    PROVE  StandInv'
<1>0. ServiceTypeOK /\ StandInv /\ UpstreamInv /\ ConnInv(c) /\ "relay" \in Host
  BY Hosts DEF ServiceInv, StandInv
<1>1. UNCHANGED <<server, backlog, reply>> /\ call[c].at \in {"greeting", "asking", "reading"}
  BY DEF ReadFrame, Leave
<1>2. call[c].got \in Nat /\ reply[c].sent \in Nat
  BY <1>0 DEF ServiceTypeOK, Party, Reply
<1>3. /\ OthersKept(c) /\ call'[c].via = call[c].via /\ call'[c].asked = call[c].asked
      /\ call'[c].at \in {"left", "reading", "answered"} /\ call'[c].got <= reply[c].sent
      /\ call'[c].at = "answered" => call'[c].got = Frames(c)
      /\ call'[c].at # "left" => call[c].at = "reading"
  <2>1. CASE ReadFrame(c)
    BY <1>0, <1>2, <2>1 DEF ReadFrame, OthersKept, ServiceTypeOK, Party
  <2>2. CASE Leave(c)
    <3>1. call[c].got <= reply[c].sent
      BY <1>0, <1>1 DEF ConnInv, Alive
    <3> QED BY <1>0, <2>2, <3>1 DEF Leave, Moves, OthersKept, ServiceTypeOK, Party
  <2> QED BY <2>1, <2>2
<1>4. Alive(c) /\ call[c].via # "none"
  BY <1>0, <1>1 DEF ConnInv, Alive
<1>5. /\ Hears(c)' <=> Hears(c)
      /\ Begun(c)' <=> Begun(c)
      /\ Whole(c)' <=> Whole(c)
      /\ Untouched(c)' <=> Untouched(c)
      /\ Frames(c)' = Frames(c)
  BY <1>1, <1>3 DEF Hears, Begun, Whole, Untouched, Frames
<1>6. ASSUME Passed(c), c # Upstream PROVE Passed(c)'
  <2>1. call'[Upstream] = call[Upstream]
    BY <1>3, <1>6, Hosts DEF OthersKept
  <2> QED BY <1>1, <1>3, <1>6, <2>1 DEF Passed, Got, Hears
<1>7. ConnInv(c)'
  <2>1. call[c].via = "relay" => c # Upstream
    BY <1>0 DEF UpstreamInv
  <2> QED BY <1>0, <1>1, <1>3, <1>4, <1>5, <1>6, <2>1 DEF ConnInv
<1>8. \A h \in Host : WaitInv(h)'
  <2>1. CASE call'[c].at = "left"
    BY <1>1, <1>3, <1>4, <2>1, WaitersStay DEF StaysOn
  <2>2. CASE call'[c].at # "left"
    <3>1. \A h \in Host : \A i \in 1 .. Len(backlog[h]) : backlog[h][i] # c
      BY <1>0, <1>3, <2>2, PastGreeting
    <3> QED BY <1>1, <1>3, <3>1, WaitersStay
  <2> QED BY <2>1, <2>2
<1>9. ASSUME NEW h \in Host, Served(h) = c PROVE ServeInv(h)'
  <2>1. ServeInv(h) /\ c # Nobody /\ server'[h] = server[h]
    BY <1>0, <1>1, CallerAssumption DEF StandInv, Conn
  <2>2. h = "relay" => c # Upstream
    BY <1>0, <1>9 DEF UpstreamInv
  <2>3. IsAt(h, "greet") => call'[c].at = "left"
    BY <1>0, <1>3, <1>9, PastGreeting
  <2> QED BY <1>1, <1>3, <1>4, <1>5, <1>6, <1>9, <2>1, <2>2, <2>3, Hosts
          DEF ServeInv, Served, IsAt
<1>10. UpstreamInv'
  <2>1. CASE c = Upstream
    <3>1. call[c].at = "reading" /\ call'[c].at # "left"
      <4>1. ReadFrame(c)
        BY <2>1, Hosts
      <4> QED BY <1>0, <4>1 DEF ReadFrame, ServiceTypeOK, Party
    <3>2. IsAt("relay", "work") /\ Served("relay") # c
      BY <1>0, <2>1, <3>1 DEF UpstreamInv
    <3>3. Served("relay") \in Conn
      BY <1>0, <3>2, AtHand DEF StandInv, ServeInv, IsAt
    <3>4. call'[Served("relay")] = call[Served("relay")]
      BY <1>3, <3>2, <3>3 DEF OthersKept
    <3> QED BY <1>0, <1>1, <1>3, <2>1, <3>1, <3>2, <3>4 DEF UpstreamInv, Served, IsAt, Alive
  <2>2. CASE c # Upstream
    <3>1. call'[Upstream] = call[Upstream]
      BY <1>3, <2>2, Hosts DEF OthersKept
    <3>2. IsAt("relay", "work") =>
            call'[Served("relay")].asked = call[Served("relay")].asked
            /\ (Alive(Served("relay"))' => Alive(Served("relay")))
      <4>1. IsAt("relay", "work") => Served("relay") \in Conn
        BY <1>0, AtHand DEF StandInv, ServeInv, IsAt
      <4> QED BY <1>1, <1>3, <1>4, <4>1 DEF OthersKept, Alive, Served
    <3> QED BY <1>0, <1>1, <3>1, <3>2 DEF UpstreamInv, Served, IsAt
  <2> QED BY <2>1, <2>2
<1>11. call[c].at # "answered"
  BY <1>1
<1> QED BY <1>1, <1>3, <1>7, <1>8, <1>9, <1>10, <1>11, PartyKeeps

\* The handshake moves both ends.
LEMMA GreetKeeps == ASSUME ServiceInv, NEW h \in Host, Greet(h) PROVE StandInv'
<1>0. ServiceTypeOK /\ StandInv /\ UpstreamInv /\ ServeInv(h) /\ WaitInv(h) /\ "relay" \in Host
  BY Hosts DEF ServiceInv, StandInv
<1>1. UNCHANGED <<backlog, reply>> /\ IsAt(h, "greet") /\ Served(h) # Nobody
  BY <1>0 DEF Greet, ServeInv, IsAt
<1>2. PICK c \in Conn : c = Served(h) /\ c # Nobody /\ call[c].at = "greeting"
  BY <1>0, <1>1, AtHand DEF Greet
<1>3. /\ OthersKept(c) /\ call'[c].via = call[c].via /\ call'[c].asked = call[c].asked
      /\ call'[c].at = "asking" /\ call'[c].got = call[c].got
  BY <1>0, <1>2 DEF Greet, Moves, OthersKept, ServiceTypeOK, Party
<1>4. /\ server'[h].at = "hear" /\ server'[h].conn = c
      /\ \A g \in Host \ {h} : server'[g] = server[g]
  BY <1>0, <1>2 DEF Greet, Goes, Served, ServiceTypeOK, Server
<1>5. ConnInv(c)
  BY <1>0, <1>2 DEF StandInv
<1>6. Alive(c) /\ ~Hears(c) /\ Untouched(c) /\ call[c].got = 0 /\ call[c].via = h /\ h # "none"
  BY <1>0, <1>1, <1>2, <1>5 DEF ConnInv, ServeInv, Alive, Host
<1>7. ConnInv(c)'
  <2>1. Begun(c)' <=> Begun(c)
    BY <1>1, <1>3 DEF Begun
  <2>2. ~Hears(c)' /\ Untouched(c)' /\ reply'[c].sent = 0 /\ ~(reply'[c].sent > 0)
    BY <1>1, <1>3, <1>6 DEF Hears, Untouched
  <2> QED BY <1>3, <1>5, <1>6, <2>1, <2>2 DEF ConnInv
<1>8. SameAnswer /\ \A x \in Conn \ {c} : SameConn(x) /\ ConnInv(x)'
  <2>1. SameAnswer /\ \A x \in Conn \ {c} : SameConn(x)
    BY <1>1, <1>2, <1>3, Hosts DEF SameAnswer, SameConn, OthersKept
  <2> QED BY <1>0, <2>1, ConnKept DEF StandInv
<1>9. ASSUME NEW g \in Host PROVE WaitInv(g)'
  <2>1. WaitInv(g) /\ backlog'[g] = backlog[g] /\ server'[g].conn = Served(g)
    BY <1>0, <1>1, <1>2, <1>4 DEF StandInv, Served
  <2>2. \A i \in 1 .. Len(backlog[g]) : backlog[g][i] # c
    <3>1. g = h => \A i \in 1 .. Len(backlog[g]) : backlog[g][i] # c
      BY <1>0, <1>2 DEF WaitInv
    <3>2. g # h => \A i \in 1 .. Len(backlog[g]) : backlog[g][i] # c
      BY <1>6, <2>1 DEF WaitInv
    <3> QED BY <3>1, <3>2
  <2>3. \A x \in Conn \ {c} : StaysOn(x)
    BY <1>3 DEF StaysOn, OthersKept, Alive
  <2>4. \A i \in 1 .. Len(backlog[g]) :
          backlog[g][i] # server'[g].conn /\ StaysOn(backlog[g][i])
    BY <1>0, <2>1, <2>2, <2>3, AtHand DEF WaitInv
  <2> QED BY <2>1, <2>4, WaitKept
<1>10. ServeInv(h)'
  BY <1>1, <1>2, <1>3, <1>4, <1>6 DEF ServeInv, Served, IsAt, Untouched
<1>11. ASSUME NEW g \in Host \ {h} PROVE ServeInv(g)'
  <2>1. ServeInv(g) /\ server'[g] = server[g]
    BY <1>0, <1>4 DEF StandInv
  <2>2. Served(g) # c
    BY <1>2, <1>6, <2>1 DEF ServeInv
  <2>3. CASE Served(g) = Nobody
    BY <2>1, <2>3 DEF ServeInv, Served, IsAt
  <2>4. CASE Served(g) \in Conn
    BY <1>8, <2>1, <2>2, <2>4, ServeKept
  <2> QED BY <1>0, <2>3, <2>4, AtHand
<1>12. UpstreamInv'
  <2>1. CASE c = Upstream
    <3>1. h # "relay" /\ IsAt("relay", "work") /\ Served("relay") # c
      BY <1>0, <1>1, <1>2, <2>1 DEF UpstreamInv
    <3>2. server'["relay"] = server["relay"]
      BY <1>0, <1>4, <3>1
    <3> QED BY <1>0, <1>1, <1>3, <2>1, <3>1, <3>2 DEF UpstreamInv, Served, IsAt
  <2>2. CASE c # Upstream /\ h = "relay"
    <3>1. call'[Upstream] = call[Upstream] /\ call[Upstream].at = "idle"
      BY <1>0, <1>1, <1>2, <1>3, <2>2, Hosts DEF OthersKept, UpstreamInv, IsAt
    <3> QED BY <1>0, <1>1, <1>2, <1>4, <2>2, <3>1 DEF UpstreamInv, Served, IsAt
  <2>3. CASE c # Upstream /\ h # "relay"
    <3>1. call'[Upstream] = call[Upstream] /\ server'["relay"] = server["relay"]
      BY <1>0, <1>3, <1>4, <2>3, Hosts DEF OthersKept
    <3>2. IsAt("relay", "work") => call'[Served("relay")] = call[Served("relay")]
      <4>1. ServeInv("relay")
        BY <1>0 DEF StandInv
      <4>2. IsAt("relay", "work") => Served("relay") \in Conn
        BY <1>0, <4>1, AtHand DEF ServeInv, IsAt
      <4>3. Served("relay") # c
        BY <1>2, <1>6, <2>3, <4>1 DEF ServeInv
      <4> QED BY <1>3, <4>2, <4>3 DEF OthersKept
    <3> QED BY <1>0, <1>1, <3>1, <3>2 DEF UpstreamInv, Served, IsAt, Alive
  <2> QED BY <2>1, <2>2, <2>3
<1> QED BY <1>7, <1>8, <1>9, <1>10, <1>11, <1>12 DEF StandInv

-----------------------------------------------------------------------------
(* Steps of an answer: something is made or sent for one connection.       *)

\* A server at work on the connection c, or sending to it, does so for it alone.
LEMMA AnswerKeeps ==
    ASSUME ServiceInv, NEW h \in Host, NEW c \in Conn, Served(h) = c, c # Nobody,
           server[h].at \in {"work", "send"},
           UNCHANGED <<backlog, call>>,
           \A g \in Host \ {h} : server'[g] = server[g],
           server'[h].conn = c, server'[h].at \in {"work", "send", "hang up"},
           server'[h].at = "work" => server[h].at = "work" /\ h = "guest",
           \A x \in Conn \ {c} : SameConn(x),
           c = Upstream => SameAnswer, Alive(c) => ConnInv(c)', ServeInv(h)',
           h = "relay" => call[Upstream].at \notin {"greeting", "asking", "reading"}
    PROVE  StandInv'
<1>0. ServiceTypeOK /\ StandInv /\ UpstreamInv /\ ServeInv(h) /\ "relay" \in Host
  BY Hosts DEF ServiceInv, StandInv
<1>1. SameAnswer
  BY Hosts DEF SameAnswer, SameConn
<1>2. \A x \in Conn : ConnInv(x)'
  <2>1. \A x \in Conn \ {c} : ConnInv(x)'
    BY <1>0, <1>1, ConnKept DEF StandInv
  <2>2. ~Alive(c) => ConnInv(c)'
    BY <1>0 DEF StandInv, ConnInv, Alive, Hears
  <2> QED BY <2>1, <2>2
<1>3. ASSUME NEW g \in Host PROVE WaitInv(g)'
  <2>1. WaitInv(g) /\ backlog'[g] = backlog[g] /\ server'[g].conn = Served(g)
    BY <1>0 DEF StandInv, Served
  <2>2. \A x \in Conn : StaysOn(x)
    BY DEF StaysOn, Alive
  <2>3. \A i \in 1 .. Len(backlog[g]) :
          backlog[g][i] # server'[g].conn /\ StaysOn(backlog[g][i])
    BY <1>0, <2>1, <2>2, AtHand DEF WaitInv
  <2> QED BY <2>1, <2>3, WaitKept
<1>4. ASSUME NEW g \in Host \ {h} PROVE ServeInv(g)'
  <2>1. ServeInv(g) /\ server'[g] = server[g]
    BY <1>0 DEF StandInv
  <2>2. CASE Served(g) = Nobody
    BY <2>1, <2>2 DEF ServeInv, Served, IsAt
  <2>3. CASE Served(g) = c
    <3>1. ~Alive(Served(g))'
      BY <1>0, <2>1, <2>3 DEF ServeInv, Alive, Served
    <3> QED BY <1>1, <2>1, <3>1, ServeKept
  <2>4. CASE Served(g) \in Conn \ {c}
    BY <1>1, <2>1, <2>4, ServeKept
  <2> QED BY <1>0, <2>2, <2>3, <2>4, AtHand
<1>5. UpstreamInv'
  <2>1. CASE h = "relay"
    BY <1>0, <2>1 DEF UpstreamInv, Served, IsAt
  <2>2. CASE h # "relay"
    <3>1. server'["relay"] = server["relay"]
      BY <1>0, <2>2
    <3> QED BY <1>0, <3>1 DEF UpstreamInv, Served, IsAt, Alive
  <2> QED BY <2>1, <2>2
<1> QED BY <1>2, <1>3, <1>4, <1>5 DEF StandInv

\* The counters of one report more.
LEMMA OneMore ==
    ASSUME NEW n \in Nat
    PROVE  Append([i \in 1 .. n |-> i - 1], n) = [i \in 1 .. n + 1 |-> i - 1]
<1> DEFINE s == [i \in 1 .. n |-> i - 1]
           t == [i \in 1 .. n + 1 |-> i - 1]
<1>1. \A i \in 1 .. n + 1 : i - 1 \in Nat
  OBVIOUS
<1>2. s \in Seq(Nat) /\ Len(s) = n /\ t \in Seq(Nat) /\ Len(t) = n + 1
  BY <1>1
<1>3. /\ Append(s, n) \in Seq(Nat) /\ Len(Append(s, n)) = n + 1
      /\ \A i \in 1 .. n : Append(s, n)[i] = s[i]
      /\ Append(s, n)[n + 1] = n
  BY <1>2, AppendProperties
<1>4. ASSUME NEW i \in 1 .. n + 1 PROVE Append(s, n)[i] = t[i]
  <2>1. CASE i \in 1 .. n
    BY <1>3, <2>1
  <2>2. CASE i = n + 1
    BY <1>3, <2>2
  <2> QED BY <2>1, <2>2
<1> HIDE DEF s, t
<1>5. \A i \in 1 .. Len(t) : Append(s, n)[i] = t[i]
  BY <1>2, <1>4
<1>6. Append(s, n) = t
  BY <1>2, <1>3, <1>5, SeqEqual
<1> QED BY <1>6 DEF s, t

\* A report made next is the one that was to come.
LEMMA PieceIsFull ==
    ASSUME NEW c, NEW r, NEW made \in Seq(Report),
           \A i \in 1 .. Len(made) : made[i] = Full(c, r, i)
    PROVE  Piece(c, r, Len(made) + 1, Folded(made)) = Full(c, r, Len(made) + 1)
<1> DEFINE n == Len(made)
<1>1. n \in Nat /\ (n + 1) - 1 = n
  OBVIOUS
<1>2. r.kind = "chain" => Folded(made) = [i \in 1 .. n |-> i - 1]
  <2>1. CASE made = <<>>
    <3>1. n = 0 /\ Folded(made) = <<>>
      BY <2>1 DEF Folded
    <3>2. 1 .. n = {}
      BY <3>1, NoneOfNone
    <3>3. [i \in 1 .. n |-> i - 1] = <<>>
      BY <3>2
    <3> QED BY <3>1, <3>3
  <2>2. CASE made # <<>>
    <3>1. n \in 1 .. n
      BY <2>2
    <3>2. made[n] = Full(c, r, n)
      BY <3>1
    <3> QED BY <2>2, <3>2 DEF Folded, Full
  <2> QED BY <2>1, <2>2
<1>3. r.kind = "chain" => Append(Folded(made), (n + 1) - 1) = [i \in 1 .. n + 1 |-> i - 1]
  <2> HIDE DEF n
  <2> QED BY <1>1, <1>2, OneMore
<1> QED BY <1>3 DEF Piece, Full

LEMMA SignKeeps == ASSUME ServiceInv, Sign PROVE StandInv'
<1>0. /\ ServiceTypeOK /\ StandInv /\ UpstreamInv /\ ServeInv("guest")
      /\ "guest" \in Host /\ Upstream \in Conn
  BY Hosts DEF ServiceInv, StandInv
<1>1. UNCHANGED <<server, backlog, call>> /\ IsAt("guest", "work") /\ Served("guest") # Nobody
  BY <1>0 DEF Sign, ServeInv, IsAt
<1>2. PICK c \in Conn : c = Served("guest") /\ c # Nobody
  BY <1>0, <1>1, AtHand
<1>3. PICK r : r = call[c].asked
  OBVIOUS
<1>4. PICK made \in Seq(Report) : made = reply[c].made
  BY <1>0 DEF ServiceTypeOK, Reply
<1>5. PICK piece : piece = Piece(c, r, Len(made) + 1, Folded(made))
  OBVIOUS
<1>6. /\ Len(made) < Pieces(r) /\ Len(made) \in Nat
      /\ reply' = [reply EXCEPT ![c].made = Append(made, piece)]
  BY <1>2, <1>3, <1>4, <1>5 DEF Sign
<1>7. /\ reply'[c].made = Append(made, piece) /\ reply'[c].sent = reply[c].sent
      /\ \A x \in Conn \ {c} : SameConn(x)
  BY <1>0, <1>1, <1>6 DEF ServiceTypeOK, Reply, SameConn
<1>8. Alive(c) => call[c].via = "guest" /\ Hears(c) /\ reply[c].sent = 0 /\ r.kind # "unreadable"
  BY <1>0, <1>1, <1>2, <1>3 DEF ServeInv, IsAt
<1>9. Alive(c) => call[c].at # "answered"
  <2>1. ConnInv(c)
    BY <1>0 DEF StandInv
  <2>2. call[c].got <= 0 /\ call[c].at = "answered" /\ Alive(c) => call[c].got = Frames(c)
    BY <2>1 DEF ConnInv
  <2>3. Frames(c) > 0 /\ call[c].got \in Nat /\ Frames(c) \in Nat
    BY <1>0, <1>4 DEF Frames, ServiceTypeOK, Party
  <2>4. Alive(c) => call[c].got <= 0
    BY <1>8, <2>1 DEF ConnInv
  <2> QED BY <2>2, <2>3, <2>4
<1>10. ASSUME Alive(c) PROVE ConnInv(c)'
  <2>1. ConnInv(c)
    BY <1>0 DEF StandInv
  <2>2. \A i \in 1 .. Len(made) : made[i] = Full(c, r, i)
    BY <1>3, <1>4, <1>8, <1>10, <2>1 DEF ConnInv, Begun
  <2>3. piece = Full(c, r, Len(made) + 1)
    BY <1>4, <1>5, <2>2, PieceIsFull
  <2>4. /\ Len(Append(made, piece)) = Len(made) + 1
        /\ \A i \in 1 .. Len(made) : Append(made, piece)[i] = made[i]
        /\ Append(made, piece)[Len(made) + 1] = piece
    BY <1>4
  <2>5. \A i \in 1 .. Len(made) + 1 : i \in 1 .. Len(made) \/ i = Len(made) + 1
    BY <1>6
  <2>6. \A i \in 1 .. Len(Append(made, piece)) : Append(made, piece)[i] = Full(c, r, i)
    BY <2>2, <2>3, <2>4, <2>5
  <2>7. Len(Append(made, piece)) <= Pieces(r)
    <3>1. r \in Ask
      BY <1>0, <1>3, <1>8, <1>10 DEF ServiceTypeOK, Party, Hears
    <3>2. Pieces(r) \in Nat
      BY <3>1 DEF Pieces, Ask
    <3> QED BY <1>6, <2>4, <3>2
  <2>8. Begun(c)'
    BY <1>1, <1>3, <1>7, <2>6, <2>7 DEF Begun, Full
  <2>9. /\ Hears(c)' /\ reply'[c].sent = 0 /\ ~(reply'[c].sent > 0)
        /\ call' = call /\ call[c].via = "guest" /\ call[c].at # "answered"
    BY <1>1, <1>7, <1>8, <1>9, <1>10 DEF Hears
  <2> QED BY <1>8, <1>10, <2>1, <2>8, <2>9 DEF ConnInv
<1>11. ServeInv("guest")'
  <2>1. IsAt("guest", "work")' /\ Served("guest")' = c /\ ~IsAt("guest", "send")'
        /\ ~IsAt("guest", "hear")' /\ ~IsAt("guest", "greet")'
    BY <1>1, <1>2 DEF IsAt, Served
  <2> QED BY <1>1, <1>2, <1>3, <1>7, <1>8, <2>1 DEF ServeInv, Alive, Hears
<1>12. c = Upstream => SameAnswer
  BY <1>9 DEF SameAnswer, Alive
<1>13. server["guest"].at = "work" /\ server' = server
  BY <1>1 DEF IsAt
<1> QED BY <1>0, <1>1, <1>2, <1>7, <1>10, <1>11, <1>12, <1>13, AnswerKeeps DEF Served

LEMMA ForwardKeeps == ASSUME ServiceInv, Forward PROVE StandInv'
<1>0. /\ ServiceTypeOK /\ StandInv /\ UpstreamInv /\ ServeInv("relay")
      /\ "relay" \in Host /\ Upstream \in Conn
  BY Hosts DEF ServiceInv, StandInv
<1>1. /\ UNCHANGED <<backlog, call>> /\ IsAt("relay", "work") /\ Served("relay") # Nobody
      /\ call[Upstream].at = "answered"
  BY <1>0 DEF Forward, ServeInv, IsAt
<1>2. PICK c \in Conn : c = Served("relay") /\ c # Nobody /\ c # Upstream
  BY <1>0, <1>1, AtHand DEF UpstreamInv
<1>3. PICK got : got = Got(Upstream)
  OBVIOUS
<1>4. /\ reply'[c].made = got /\ reply'[c].sent = reply[c].sent
      /\ \A x \in Conn \ {c} : SameConn(x)
  BY <1>0, <1>1, <1>2, <1>3 DEF Forward, ServiceTypeOK, Reply, SameConn
<1>5. /\ server'["relay"].at = "send" /\ server'["relay"].conn = c
      /\ \A g \in Host \ {"relay"} : server'[g] = server[g]
  BY <1>0, <1>2 DEF Forward, Goes, Served, ServiceTypeOK, Server
<1>6. Alive(c) => /\ call[c].via = "relay" /\ Hears(c) /\ reply[c].sent = 0
                  /\ call[Upstream].asked = call[c].asked
  BY <1>0, <1>1, <1>2 DEF ServeInv, UpstreamInv, IsAt
<1>7. got = Got(Upstream)'
  BY <1>0, <1>1, <1>2, <1>3, <1>4 DEF Got, SameConn
<1>8. Alive(c) => Passed(c)'
  BY <1>1, <1>4, <1>6, <1>7 DEF Passed, Hears
<1>9. ASSUME Alive(c) PROVE ConnInv(c)'
  <2>1. ConnInv(c) /\ call' = call
    BY <1>0, <1>1 DEF StandInv
  <2>2. call[c].at # "answered"
    <3>1. call[c].at = "answered" => call[c].got = Frames(c) /\ call[c].got <= 0
      BY <1>6, <1>9, <2>1 DEF ConnInv
    <3>2. Frames(c) \in Nat /\ Frames(c) > 0 /\ call[c].got \in Nat
      BY <1>0 DEF Frames, ServiceTypeOK, Party, Reply
    <3> QED BY <3>1, <3>2
  <2>3. Hears(c)' /\ ~(reply'[c].sent > 0) /\ reply'[c].sent = 0
    BY <1>1, <1>4, <1>6, <1>9 DEF Hears
  <2> QED BY <1>6, <1>9, <2>1, <2>2, <2>3 DEF ConnInv
<1>10. ServeInv("relay")'
  <2>1. /\ Served("relay")' = c /\ Alive(c)' = Alive(c) /\ Hears(c)' = Hears(c)
        /\ \A place : IsAt("relay", place)' <=> place = "send"
    BY <1>1, <1>5 DEF Served, IsAt, Alive, Hears
  <2> QED BY <1>1, <1>2, <1>5, <1>6, <1>8, <2>1 DEF ServeInv
<1>11. server["relay"].at = "work" /\ Served("relay") = c
  BY <1>1, <1>2 DEF IsAt
<1> QED BY <1>0, <1>1, <1>2, <1>4, <1>5, <1>9, <1>10, <1>11, AnswerKeeps

LEMMA SendKeeps == ASSUME ServiceInv, NEW h \in Host, SendFrame(h) PROVE StandInv'
<1>0. /\ ServiceTypeOK /\ StandInv /\ UpstreamInv /\ ServeInv(h) /\ Upstream \in Conn
  BY Hosts DEF ServiceInv, StandInv
<1>1. UNCHANGED <<backlog, call>> /\ IsAt(h, "send") /\ Served(h) # Nobody
  BY <1>0 DEF SendFrame, ServeInv, IsAt
<1>2. PICK c \in Conn : c = Served(h) /\ c # Nobody
  BY <1>0, <1>1, AtHand
<1>3. /\ reply'[c].made = reply[c].made /\ reply'[c].sent = reply[c].sent + 1
      /\ \A x \in Conn \ {c} : SameConn(x)
  BY <1>0, <1>1, <1>2 DEF SendFrame, ServiceTypeOK, Reply, SameConn
<1>4. /\ server'[h].at \in {"send", "hang up"} /\ server'[h].conn = c
      /\ \A g \in Host \ {h} : server'[g] = server[g]
  BY <1>0, <1>2 DEF SendFrame, Goes, Served, ServiceTypeOK, Server
<1>5. /\ Hears(c)' <=> Hears(c)
      /\ Alive(c)' <=> Alive(c)
      /\ Begun(c)' <=> Begun(c)
      /\ Whole(c)' <=> Whole(c)
      /\ Frames(c)' = Frames(c)
      /\ Passed(c) => Passed(c)'
  <2>1. Got(Upstream)' = Got(Upstream)
    <3>1. reply'[Upstream].made = reply[Upstream].made
      BY <1>0, <1>3 DEF SameConn
    <3> QED BY <1>1, <3>1 DEF Got
  <2> QED BY <1>1, <1>3, <2>1 DEF Hears, Alive, Begun, Whole, Frames, Passed
<1>6. Alive(c) => /\ call[c].via = h /\ Hears(c)
                  /\ IF h = "guest" THEN Whole(c) ELSE Passed(c)
  BY <1>0, <1>1, <1>2 DEF ServeInv, IsAt
<1>7. ASSUME Alive(c) PROVE ConnInv(c)'
  <2>1. ConnInv(c) /\ call' = call
    BY <1>0, <1>1 DEF StandInv
  <2>2. call[c].got <= reply'[c].sent
    <3>1. call[c].got <= reply[c].sent /\ call[c].got \in Nat /\ reply[c].sent \in Nat
      BY <1>0, <1>7, <2>1 DEF ConnInv, ServiceTypeOK, Party, Reply
    <3> QED BY <1>3, <3>1
  <2>3. Whole(c) => Begun(c)
    BY DEF Whole
  <2> QED BY <1>5, <1>6, <1>7, <2>1, <2>2, <2>3, Hosts DEF ConnInv
<1>8. ServeInv(h)'
  <2>1. /\ Served(h)' = c /\ ~IsAt(h, "greet")' /\ ~IsAt(h, "hear")' /\ ~IsAt(h, "work")'
    BY <1>4 DEF Served, IsAt
  <2> QED BY <1>1, <1>2, <1>4, <1>5, <1>6, <2>1 DEF ServeInv
<1>9. h = "relay" => call[Upstream].at \notin {"greeting", "asking", "reading"}
  BY <1>0, <1>1 DEF UpstreamInv, IsAt
<1>10. c = Upstream => SameAnswer
  BY <1>1, <1>3 DEF SameAnswer
<1>11. server[h].at = "send" /\ Served(h) = c
  BY <1>1, <1>2 DEF IsAt
<1> QED BY <1>0, <1>1, <1>2, <1>3, <1>4, <1>7, <1>8, <1>9, <1>10, <1>11, AnswerKeeps

-----------------------------------------------------------------------------

\* ServiceInv is inductive: it holds when the servers start and after every step.
THEOREM ServiceInvariant == ServiceSpec => []ServiceInv
<1>1. ServiceInit => ServiceInv
  <2> SUFFICES ASSUME ServiceInit PROVE ServiceInv
    OBVIOUS
  <2>1. /\ \A h \in Host : /\ server[h].at \in {"top", "accept"} /\ server[h].conn = Nobody
                           /\ backlog[h] = <<>>
        /\ \A c \in Conn : /\ call[c].via = "none" /\ call[c].at = "idle"
                           /\ call[c].asked = NoAsk /\ call[c].got = 0
                           /\ reply[c].made = <<>> /\ reply[c].sent = 0
    BY DEF ServiceInit
  <2>2. ServiceTypeOK
    <3>1. server \in [Host -> Server]
      BY DEF ServiceInit, Server, ServerPlace
    <3>2. call \in [Conn -> Party]
      BY DEF ServiceInit, Party, CallPlace
    <3>3. reply \in [Conn -> Reply]
      BY DEF ServiceInit, Reply
    <3>4. backlog \in [Host -> Seq(Conn)]
      BY DEF ServiceInit
    <3> QED BY <3>1, <3>2, <3>3, <3>4 DEF ServiceInit, ServiceTypeOK
  <2>3. \A c \in Conn : ConnInv(c)
    BY <2>1 DEF ConnInv, Hears, Alive, Untouched
  <2>4. \A h \in Host : 1 .. Len(backlog[h]) = {}
    <3>1. \A h \in Host : Len(backlog[h]) = 0
      BY <2>1
    <3> QED BY <3>1, NoneOfNone
  <2>5. \A h \in Host : WaitInv(h) /\ ServeInv(h)
    BY <2>1, <2>4 DEF WaitInv, ServeInv, Served
  <2>6. UpstreamInv
    BY <2>1, <2>4, Hosts, CallerAssumption DEF UpstreamInv, Served
  <2> QED BY <2>2, <2>3, <2>5, <2>6 DEF ServiceInv, StandInv
<1>2. ServiceInv /\ [ServiceNext]_serviceVars => ServiceInv'
  <2> SUFFICES ASSUME ServiceInv, [ServiceNext]_serviceVars PROVE StandInv'
    BY ServiceTyped DEF ServiceInv
  <2>0. Caller \subseteq Conn /\ {"guest", "relay"} \subseteq Host /\ Upstream \in Conn
        /\ Upstream \notin Caller
    BY Hosts DEF Conn
  <2>1. CASE (Top /\ late) \/ RelayHangsUp \/ GuestDies
    BY <2>0, <2>1, StopKeeps DEF Top, RelayHangsUp, GuestDies
  <2>2. ASSUME NEW h \in Host,
               \/ (Top /\ ~late) \/ AcceptTimesOut \/ SignFails \/ StartSending
               \/ RelayFails \/ GuestVanishes \/ Hear(h) \/ LoseCaller(h)
        PROVE  StandInv'
    BY <2>2, MovesKeep
  <2>3. ASSUME NEW h \in Host, ServeStep(h) PROVE StandInv'
    BY <2>2, <2>3, AcceptKeeps, SendKeeps DEF ServeStep
  <2>4. CASE GuestStep
    BY <2>0, <2>1, <2>2, <2>3, <2>4, SignKeeps, HangUpKeeps DEF GuestStep
  <2>5. ASSUME NEW c \in Conn, CallerStep(c) PROVE StandInv'
    BY <2>0, <2>5, AskKeeps, ReadingKeeps, FailKeeps DEF CallerStep
  <2>6. CASE RelayStep
    <3>1. Dial(Upstream, "guest") => StandInv'
      BY <2>0, DialKeeps
    <3>2. DialFails(Upstream, "guest") => StandInv'
      <4>1. DialFails(Upstream, "guest") => IsAt("relay", "work")
        BY DEF DialFails, MayDial
      <4> QED BY <2>0, <4>1, FailKeeps
    <3> QED BY <2>0, <2>1, <2>2, <2>3, <2>5, <2>6, <3>1, <3>2, ForwardKeeps DEF RelayStep
  <2>7. CASE \E c \in Caller :
          \/ \E h \in Host : Dial(c, h) \/ DialFails(c, h)
          \/ CallerStep(c) \/ Leave(c)
    <3> SUFFICES ASSUME NEW c \in Caller,
                        \/ \E h \in Host : Dial(c, h) \/ DialFails(c, h)
                        \/ CallerStep(c) \/ Leave(c)
                 PROVE  StandInv'
      BY <2>7
    <3>1. c \in Conn /\ c # Upstream
      BY <2>0
    <3> QED BY <2>5, <3>1, DialKeeps, FailKeeps, ReadingKeeps
  <2>8. CASE GetsLate \/ UNCHANGED serviceVars
    <3>1. Quiet /\ UNCHANGED <<server, backlog, call>>
      BY <2>8 DEF GetsLate, serviceVars, Quiet
    <3>2. ServiceTypeOK /\ StandInv
      BY DEF ServiceInv
    <3>3. \A h \in Host : WaitInv(h)' /\ ServeInv(h)'
      BY <3>1, <3>2, Unconcerned
    <3>4. UpstreamInv'
      BY <3>1, <3>2 DEF StandInv, UpstreamInv, Served, IsAt, Alive
    <3> QED BY <3>1, <3>2, <3>3, <3>4, QuietKeeps DEF StandInv
  <2> QED BY <2>0, <2>1, <2>2, <2>4, <2>6, <2>7, <2>8, GreetKeeps DEF ServiceNext
<1> QED BY <1>1, <1>2, PTL DEF ServiceSpec

\* What a party that was answered has got is all that was made for it, and the guest
\* made all of it for the connection it saw.
LEMMA AnsweredIsWhole ==
    ASSUME ServiceInv, NEW c \in Caller, call[c].at = "answered"
    PROVE  LET r == call[c].asked IN
           /\ r \in Ask /\ r.kind # "unreadable" /\ Signable(SeenAs(c), r)
           /\ Len(Got(c)) = Pieces(r) /\ Got(c) \in Seq(Report)
           /\ \A i \in 1 .. Len(Got(c)) : Got(c)[i] = Full(SeenAs(c), r, i)
<1>0. ServiceTypeOK /\ (\A x \in Conn : ConnInv(x)) /\ UpstreamInv /\ c \in Conn /\ Upstream \in Conn
  BY Hosts DEF ServiceInv, StandInv, Conn
<1>1. ASSUME NEW x \in Conn, call[x].at = "answered"
      PROVE  /\ Got(x) = reply[x].made /\ reply[x].made \in Seq(Report) /\ reply[x].sent > 0
             /\ Alive(x) /\ call[x].via \in {"guest", "relay"}
  <2>1. /\ ConnInv(x) /\ Alive(x) /\ reply[x].made \in Seq(Report) /\ reply[x].sent \in Nat
        /\ call[x].via \in {"guest", "relay", "none"}
    BY <1>0, <1>1 DEF ServiceTypeOK, Party, Reply, Alive, Host
  <2>2. /\ call[x].got = 1 + Len(reply[x].made) /\ call[x].got <= reply[x].sent
        /\ call[x].via # "none"
    BY <1>1, <2>1 DEF ConnInv, Frames
  <2>3. Len(reply[x].made) \in Nat
    BY <2>1
  <2>4. reply[x].sent > 0 /\ call[x].got # 0 /\ call[x].got - 1 = Len(reply[x].made)
    BY <2>1, <2>2, <2>3
  <2>5. Got(x) = SubSeq(reply[x].made, 1, Len(reply[x].made))
    BY <2>4 DEF Got
  <2> QED BY <2>1, <2>2, <2>4, <2>5
<1>2. ASSUME NEW x \in Conn, call[x].at = "answered", call[x].via = "guest" PROVE Whole(x)
  BY <1>0, <1>1, <1>2 DEF ConnInv
<1>3. ASSUME NEW x \in Conn, Whole(x) PROVE call[x].asked \in Ask
  BY <1>0, <1>3 DEF Whole, Hears, ServiceTypeOK, Party
<1>4. CASE call[c].via = "guest"
  <2>1. Whole(c) /\ Got(c) = reply[c].made /\ SeenAs(c) = c /\ Got(c) \in Seq(Report)
    BY <1>0, <1>1, <1>2, <1>4 DEF SeenAs, Relayed
  <2> QED BY <1>0, <1>3, <2>1 DEF Whole, Begun
<1>5. CASE call[c].via = "relay"
  <2>1. Passed(c)
    BY <1>0, <1>1, <1>5 DEF ConnInv
  <2>2. call[Upstream].at = "answered" /\ call[Upstream].via = "guest"
    BY <1>0, <1>1, <2>1 DEF Passed, UpstreamInv
  <2>3. Whole(Upstream) /\ Got(Upstream) = reply[Upstream].made /\ Got(Upstream) \in Seq(Report)
    BY <1>0, <1>1, <1>2, <2>2
  <2>4. Got(c) = Got(Upstream) /\ call[Upstream].asked = call[c].asked /\ SeenAs(c) = Upstream
    BY <1>0, <1>1, <1>5, <2>1 DEF Passed, SeenAs, Relayed
  <2> QED BY <1>0, <1>3, <2>3, <2>4 DEF Whole, Begun
<1> QED BY <1>0, <1>1, <1>4, <1>5

\* A whole report is of the session it is for, and binds what it was asked to.
LEMMA FullIsRight ==
    ASSUME NEW c, NEW r, NEW i
    PROVE  /\ IsRight(Full(c, r, i), r, i)
           /\ r.kind # "enroll" => Full(c, r, i).session = c
BY DEF Full, IsRight, RightPiece

\* An answer that a caller's request returns is whole, in order and to what it asked
\* (serve_chain, respond, recv_msg and the relay's forwarding), for any number of
\* callers and any requests.
THEOREM AnswersAreOwn == ServiceSpec => []AnswerIsOwn
<1>1. ServiceInv => AnswerIsOwn
  <2> SUFFICES ASSUME ServiceInv, NEW c \in Caller, call[c].at = "answered"
               PROVE  LET r == call[c].asked IN
                      /\ r.kind # "unreadable" /\ Signable(SeenAs(c), r)
                      /\ Len(Got(c)) = Pieces(r)
                      /\ \A i \in DOMAIN Got(c) : IsRight(Got(c)[i], r, i)
    BY DEF AnswerIsOwn
  <2>1. DOMAIN Got(c) = 1 .. Len(Got(c))
    BY AnsweredIsWhole
  <2>2. \A i \in 1 .. Len(Got(c)) : Got(c)[i] = Full(SeenAs(c), call[c].asked, i)
    BY AnsweredIsWhole
  <2>3. \A i \in DOMAIN Got(c) : IsRight(Got(c)[i], call[c].asked, i)
    BY <2>1, <2>2, FullIsRight
  <2> QED BY <2>3, AnsweredIsWhole
<1> QED BY <1>1, ServiceInvariant, PTL

\* A link is bound to the caller's own session exactly when nothing stands between
\* (relay_demo, relay_hw: the relay has a session of its own with the guest).
THEOREM RelaysAreCaught == ServiceSpec => []RelayIsCaught
<1>1. ServiceInv => RelayIsCaught
  <2> SUFFICES ASSUME ServiceInv, NEW c \in Caller, call[c].at = "answered",
                      call[c].asked.kind # "enroll", NEW i \in DOMAIN Got(c)
               PROVE  Got(c)[i].session = c <=> ~Relayed(c)
    BY DEF RelayIsCaught
  <2>1. DOMAIN Got(c) = 1 .. Len(Got(c))
    BY AnsweredIsWhole
  <2>2. Got(c)[i] = Full(SeenAs(c), call[c].asked, i)
    BY <2>1, AnsweredIsWhole
  <2>3. Got(c)[i].session = SeenAs(c)
    BY <2>2, FullIsRight
  <2> QED BY <2>3, CallerAssumption DEF SeenAs
<1> QED BY <1>1, ServiceInvariant, PTL

-----------------------------------------------------------------------------
(* The runs on a cloud's machines.                                         *)

Bytes == Seq(0 .. 1)
Place == {"launch", "poll", "wait", "enrol", "second", "first", "clear", "over"}
Outcome == {"none", "raised", "too few", "good", "unexpected"}
Script == [at : Place, next : Nat, outcome : Outcome]
MaybeInstance == Instance \cup {"none"}
OfTheKey == [enrolled : MaybeInstance, observed : MaybeInstance, begun : BOOLEAN]

\* Every variable has its type.
AnchorTypeOK ==
    /\ cloud \in {"aws", "azure"} /\ keep \in BOOLEAN
    /\ script \in Script
    /\ expired \in BOOLEAN /\ stale \in BOOLEAN
    /\ running \in SUBSET Machine /\ byHand \in SUBSET Machine /\ printed \in SUBSET Machine
    /\ launched \in Seq(Machine) /\ results \in Seq(Machine)
    /\ reports \in [Machine -> Bytes]
    /\ claims \in [Machine -> MaybeInstance] /\ masked \in BOOLEAN
    /\ mandate \in OfTheKey /\ served \in SUBSET Machine /\ amiss \in SUBSET Machine

\* The script knows both machines wherever it can still clear up, and has no outcome
\* while it waits and judges.
Launches ==
    /\ Len(launched) <= 2 /\ \A i \in 1 .. Len(launched) : launched[i] = Fleet[i]
    /\ script.outcome # "raised" /\ ~Stands("launch") => Len(launched) = 2
    /\ script.at \in Place \ {"clear", "over"} <=> script.outcome = "none"
    /\ Stands("poll") => script.next \in {1, 2}
    /\ Stands("clear") => ~keep /\ script.outcome # "raised"

\* The machines already passed are down, or it said that they are not.
Clearing ==
    Stands("clear") /\ cloud = "aws" =>
        /\ script.next \in {1, 2}
        /\ script.next = 2 /\ Fleet[1] \in running => Fleet[1] \in byHand

\* Each machine reports once, and what is kept of it is what it printed.
OnceEach == IsInjective(results) /\ Len(results) <= 2
KeptIsPrinted == \A m \in Range(results) : reports[m] = Payload[m]

\* How far the mandate can have come where the script is.
FirstEnrolled ==
    /\ mandate.enrolled \in {"none", claims[results[1]]}
    /\ amiss = {} /\ ~stale => mandate.enrolled = claims[results[1]]

BothThere == Len(results) = 2 /\ \A m \in Machine : claims[m] # "none"

Right ==
    /\ script.outcome = "good" =>
         /\ mandate.enrolled = claims[results[1]] /\ mandate.observed = claims[results[1]]
         /\ served = {results[1]}
         /\ Differ
    /\ amiss = {} /\ Differ /\ ~stale /\ (cloud = "azure" \/ masked) =>
         script.outcome = "good"

Judged ==
    /\ script.at \in {"launch", "poll", "wait", "enrol"} =>
         mandate = OnRecord /\ served = {} /\ amiss = {}
    /\ Stands("enrol") => BothThere
    /\ Stands("second") =>
         /\ BothThere /\ FirstEnrolled
         /\ mandate.observed = "none" /\ ~mandate.begun /\ served = {}
    /\ Stands("first") =>
         /\ BothThere /\ FirstEnrolled
         /\ served \subseteq {results[2]}
         /\ served = {} => mandate.observed = "none" /\ ~mandate.begun
         /\ served # {} => mandate.begun
         /\ amiss = {} /\ ~stale /\ Differ => served = {}
    /\ script.at \in {"clear", "over"} /\ script.outcome \in {"good", "unexpected"} => Right

AnchorInv ==
    /\ AnchorTypeOK /\ Launches /\ Clearing /\ LeftRunningIsSaid
    /\ OnceEach /\ KeptIsPrinted /\ Judged

-----------------------------------------------------------------------------

\* The two machines of the fleet.
LEMMA TwoMachines ==
    /\ Machine = {Fleet[1], Fleet[2]} /\ Fleet[1] # Fleet[2]
    /\ Len(Fleet) = 2 /\ Fleet[1] \in Machine /\ Fleet[2] \in Machine
<1>1. DOMAIN Fleet = 1 .. 2
  BY FleetAssumption
<1>2. DOMAIN Fleet = {1, 2}
  BY <1>1
<1>3. Machine = {Fleet[1], Fleet[2]}
  BY <1>2 DEF Machine, Range
<1>4. Fleet[1] # Fleet[2]
  BY <1>2, FleetAssumption DEF IsInjective
<1> QED BY <1>3, <1>4, FleetAssumption

\* The machines that reported, when both have.
LEMMA BothReported ==
    ASSUME AnchorTypeOK, OnceEach, Len(results) = 2
    PROVE  /\ results[1] \in Machine /\ results[2] \in Machine /\ results[1] # results[2]
           /\ Machine = {results[1], results[2]}
<1>1. results \in Seq(Machine) /\ IsInjective(results)
  BY DEF AnchorTypeOK, OnceEach
<1>2. results[1] \in Machine /\ results[2] \in Machine /\ results[1] # results[2]
  BY <1>1 DEF IsInjective
<1> QED BY <1>2, TwoMachines

-----------------------------------------------------------------------------
(* What a console shows and what can be had from it.                       *)

\* The lines of a machine's output, spoilt or not: a chunk is as wide as it should
\* be, and a digest is the one printed or the digest of nothing.
Tag == {"META", "LEN", "END", "C", ""}
AnyLine == [tag : Tag, number : Nat, data : Bytes \cup {Noise}]
LineOf(m) ==
    {line \in AnyLine :
        /\ line.tag = "C" => line.data \in [1 .. Width -> 0 .. 1]
        /\ line.tag = "META" => line.data \in {Payload[m], Noise}}

LEMMA Division ==
    ASSUME NEW w \in Nat \ {0}, NEW k \in Nat
    PROVE  /\ k \div w \in Nat /\ k % w \in 0 .. w - 1
           /\ k = (k \div w) * w + (k % w)
OBVIOUS

\* A finite set of numbers has a least and a greatest: the set of those below the
\* least is least by inclusion.
LEMMA LeastOf ==
    ASSUME NEW S, S \subseteq Nat, IsFiniteSet(S), S # {}
    PROVE  \E x \in S : \A y \in S : x <= y
<1> DEFINE Below(k) == {j \in S : j < k}
           T == {Below(k) : k \in S}
<1>1. T \subseteq FiniteSubsetsOf(S) /\ T # {}
  <2>1. ASSUME NEW k \in S PROVE Below(k) \in FiniteSubsetsOf(S)
    <3>1. Below(k) \in SUBSET S
      OBVIOUS
    <3> HIDE DEF Below
    <3> QED BY <3>1, FS_Subset DEF FiniteSubsetsOf
  <2> QED BY <2>1
<1>2. PICK x \in T : \A y \in T : ~ (<<y, x>> \in StrictSubsetOrdering(S))
  <2> HIDE DEF T
  <2> QED BY <1>1, FS_StrictSubsetOrderingWellFounded, WFMin
<1>3. PICK k \in S : x = Below(k)
  OBVIOUS
<1>4. ASSUME NEW j \in S, j < k PROVE FALSE
  <2>1. Below(j) \subseteq Below(k) /\ j \in Below(k) /\ j \notin Below(j)
    <3>1. \A i \in S : i < j => i < k
      BY <1>4
    <3>2. j \in Below(k) /\ j \notin Below(j)
      BY <1>4
    <3> QED BY <3>1, <3>2
  <2>2. <<Below(j), Below(k)>> \in StrictSubsetOrdering(S)
    BY <2>1 DEF StrictSubsetOrdering
  <2> QED BY <1>2, <1>3, <2>2
<1> QED BY <1>4

LEMMA GreatestOf ==
    ASSUME NEW S, S \subseteq Nat, IsFiniteSet(S), S # {}
    PROVE  \E x \in S : \A y \in S : x >= y
<1> DEFINE Above(k) == {j \in S : j > k}
           T == {Above(k) : k \in S}
<1>1. T \subseteq FiniteSubsetsOf(S) /\ T # {}
  <2>1. ASSUME NEW k \in S PROVE Above(k) \in FiniteSubsetsOf(S)
    <3>1. Above(k) \in SUBSET S
      OBVIOUS
    <3> HIDE DEF Above
    <3> QED BY <3>1, FS_Subset DEF FiniteSubsetsOf
  <2> QED BY <2>1
<1>2. PICK x \in T : \A y \in T : ~ (<<y, x>> \in StrictSubsetOrdering(S))
  <2> HIDE DEF T
  <2> QED BY <1>1, FS_StrictSubsetOrderingWellFounded, WFMin
<1>3. PICK k \in S : x = Above(k)
  OBVIOUS
<1>4. ASSUME NEW j \in S, j > k PROVE FALSE
  <2>1. Above(j) \subseteq Above(k) /\ j \in Above(k) /\ j \notin Above(j)
    <3>1. \A i \in S : i > j => i > k
      BY <1>4
    <3>2. j \in Above(k) /\ j \notin Above(j)
      BY <1>4
    <3> QED BY <3>1, <3>2
  <2>2. <<Above(j), Above(k)>> \in StrictSubsetOrdering(S)
    BY <2>1 DEF StrictSubsetOrdering
  <2> QED BY <1>2, <1>3, <2>2
<1> QED BY <1>4

LEMMA ExtremesAreIn ==
    ASSUME NEW S, S \subseteq Nat, IsFiniteSet(S), S # {}
    PROVE  /\ Min(S) \in S /\ \A x \in S : Min(S) <= x
           /\ Max(S) \in S /\ \A x \in S : Max(S) >= x
BY LeastOf, GreatestOf DEF Min, Max

LEMMA LeastOfTwo ==
    ASSUME NEW a \in Nat, NEW b \in Nat
    PROVE  Min({a, b}) = IF a <= b THEN a ELSE b
<1>1. Min({a, b}) \in {a, b} /\ \A x \in {a, b} : Min({a, b}) <= x
  <2>1. IsFiniteSet({a, b})
    <3>1. IsFiniteSet({a}) /\ {a, b} = {a} \cup {b}
      BY FS_Singleton
    <3>2. IsFiniteSet({a} \cup {b})
      BY <3>1, FS_AddElement
    <3> QED BY <3>1, <3>2
  <2> QED BY <2>1, ExtremesAreIn
<1> QED BY <1>1

\* How many chunks there are: enough, and not one more than that.
LEMMA CountOfChunks ==
    ASSUME NEW bytes \in Bytes
    PROVE  ChunksOf(bytes) \in Nat /\ Len(bytes) <= ChunksOf(bytes) * Width
<1>1. Len(bytes) \in Nat /\ Width \in Nat \ {0}
  BY FleetAssumption DEF Bytes
<1> DEFINE length == Len(bytes)
<1> HIDE DEF length
<1>2. length \in Nat
  BY <1>1 DEF length
<1>3. /\ (length + Width - 1) \div Width \in Nat
      /\ length <= ((length + Width - 1) \div Width) * Width
  BY <1>1, <1>2
<1> QED BY <1>3 DEF ChunksOf, length

LEMMA CutIsWide ==
    ASSUME NEW bytes \in Bytes, NEW n \in Nat
    PROVE  Cut(bytes, n) \in [1 .. Width -> 0 .. 1] /\ Cut(bytes, n) \in Bytes
<1>1. Width \in Nat /\ Len(bytes) \in Nat
  BY FleetAssumption DEF Bytes
<1>2. ASSUME NEW j \in 1 .. Width, n * Width + j <= Len(bytes)
      PROVE  bytes[n * Width + j] \in 0 .. 1
  <2>1. n * Width \in Nat
    BY <1>1
  <2>2. n * Width + j \in 1 .. Len(bytes)
    BY <1>1, <1>2, <2>1
  <2> QED BY <2>2 DEF Bytes
<1>3. Cut(bytes, n) \in [1 .. Width -> 0 .. 1]
  BY <1>2 DEF Cut
<1> QED BY <1>1, <1>3, SeqDef DEF Bytes

\* What the probe prints, line by line.
LEMMA LinesInOrder ==
    ASSUME cloud \in {"aws", "azure"}, NEW bytes \in Bytes,
           NEW c, c = ChunksOf(bytes), NEW N, N = Passes * c
    PROVE  /\ N \in Nat /\ Lines(bytes) \in Seq(AnyLine) /\ Len(Lines(bytes)) = N + 3
           /\ Lines(bytes)[1] = META(c, bytes)
           /\ \A i \in 1 .. N :
                /\ (i - 1) % c \in 0 .. c - 1
                /\ Lines(bytes)[i + 1] = Chunk((i - 1) % c, Cut(bytes, (i - 1) % c))
           /\ Lines(bytes)[N + 2] = LEN(Len(bytes)) /\ Lines(bytes)[N + 3] = END
<1> DEFINE chunk(i) == Chunk((i - 1) % c, Cut(bytes, (i - 1) % c))
           body == [i \in 1 .. N |-> chunk(i)]
           head == META(c, bytes)
           length == LEN(Len(bytes))
           all == Lines(bytes)
<1>1. c \in Nat /\ N \in Nat /\ Len(bytes) \in Nat
  BY CountOfChunks DEF Passes, Bytes
<1>2. ASSUME NEW i \in 1 .. N PROVE (i - 1) % c \in 0 .. c - 1
  <2>1. c \in Nat \ {0}
    BY <1>1, <1>2 DEF Passes
  <2>2. i - 1 \in Nat
    BY <1>1, <1>2
  <2> QED BY <2>1, <2>2, Division
<1>3. ASSUME NEW i \in 1 .. N PROVE chunk(i) \in AnyLine
  <2>1. (i - 1) % c \in Nat
    BY <1>1, <1>2
  <2>2. Cut(bytes, (i - 1) % c) \in Bytes
    BY <2>1, CutIsWide
  <2> QED BY <2>1, <2>2 DEF Chunk, AnyLine, Tag
<1>4. head \in AnyLine /\ length \in AnyLine /\ END \in AnyLine
  <2>1. <<>> \in Bytes
    BY DEF Bytes
  <2> QED BY <1>1, <2>1 DEF META, LEN, END, AnyLine, Tag
<1>5. all = <<head>> \o body \o <<length, END>>
  BY DEF Lines
<1> HIDE DEF chunk, head, length, all
<1>6. body \in Seq(AnyLine) /\ Len(body) = N /\ \A i \in 1 .. N : body[i] = chunk(i)
  <2>1. body \in [1 .. N -> AnyLine]
    BY <1>3
  <2>2. body \in Seq(AnyLine)
    BY <1>1, <2>1, SeqDef
  <2> QED BY <1>1, <2>1, <2>2
<1> HIDE DEF body
<1>7. /\ <<head>> \o body \in Seq(AnyLine) /\ Len(<<head>> \o body) = N + 1
      /\ (<<head>> \o body)[1] = head
      /\ \A i \in 1 .. N : (<<head>> \o body)[i + 1] = body[i]
  BY <1>1, <1>4, <1>6
<1> DEFINE front == <<head>> \o body
<1> HIDE DEF front
<1>8. /\ all \in Seq(AnyLine) /\ Len(all) = N + 3
      /\ \A i \in 1 .. N + 1 : all[i] = front[i]
      /\ all[N + 2] = length /\ all[N + 3] = END
  <2>1. front \in Seq(AnyLine) /\ Len(front) = N + 1 /\ all = front \o <<length, END>>
    BY <1>5, <1>7 DEF front
  <2> DEFINE back == <<length, END>>
  <2>2. back \in Seq(AnyLine) /\ Len(back) = 2 /\ back[1] = length /\ back[2] = END
    BY <1>4
  <2> HIDE DEF back
  <2>3. all \in Seq(AnyLine) /\ Len(all) = (N + 1) + 2
    BY <2>1, <2>2 DEF back
  <2>4. \A i \in 1 .. N + 1 : all[i] = front[i]
    BY <1>1, <2>1, <2>2 DEF back
  <2>5. all[(N + 1) + 1] = back[1] /\ all[(N + 1) + 2] = back[2]
    BY <1>1, <2>1, <2>2 DEF back
  <2>6. (N + 1) + 1 = N + 2 /\ (N + 1) + 2 = N + 3
    BY <1>1
  <2> QED BY <2>2, <2>3, <2>4, <2>5, <2>6, Zenon
<1>9. all[1] = head /\ \A i \in 1 .. N : all[i + 1] = chunk(i)
  <2>1. front[1] = head /\ \A i \in 1 .. N : front[i + 1] = body[i]
    BY <1>7 DEF front
  <2>2. 1 \in 1 .. N + 1 /\ \A i \in 1 .. N : i + 1 \in 1 .. N + 1
    BY <1>1
  <2>3. \A i \in 1 .. N : all[i + 1] = front[i + 1]
    BY <1>8, <2>2
  <2>4. all[1] = front[1]
    BY <1>8, <2>2
  <2> QED BY <1>6, <2>1, <2>3, <2>4, Zenon
<1> QED BY <1>1, <1>2, <1>8, <1>9, Zenon DEF all, head, length, chunk

\* It is lines of the machine's output, and so is what becomes of them.
LEMMA LinesAreOf ==
    ASSUME cloud \in {"aws", "azure"}, NEW m \in Machine
    PROVE  Lines(Payload[m]) \in Seq(LineOf(m))
<1> DEFINE bytes == Payload[m]
           c == ChunksOf(bytes)
           N == Passes * c
           all == Lines(bytes)
<1>1. bytes \in Bytes
  BY FleetAssumption DEF Machine, Bytes
<1>2. /\ N \in Nat /\ all \in Seq(AnyLine) /\ Len(all) = N + 3
      /\ all[1] = META(c, bytes)
      /\ \A i \in 1 .. N :
           /\ (i - 1) % c \in 0 .. c - 1
           /\ all[i + 1] = Chunk((i - 1) % c, Cut(bytes, (i - 1) % c))
      /\ all[N + 2] = LEN(Len(bytes)) /\ all[N + 3] = END
  <2> HIDE DEF bytes
  <2> QED BY <1>1, LinesInOrder
<1>3. c \in Nat
  BY <1>1, CountOfChunks
<1> HIDE DEF c, N, all
<1>4. ASSUME NEW i \in 1 .. Len(all) PROVE all[i] \in LineOf(m)
  <2>1. all[i] \in AnyLine
    BY <1>2
  <2>2. CASE i = 1
    BY <1>2, <2>1, <2>2 DEF LineOf, META, bytes
  <2>3. CASE i \in 2 .. N + 1
    <3>1. i - 1 \in 1 .. N /\ i = (i - 1) + 1
      BY <1>2, <2>3
    <3> DEFINE n == ((i - 1) - 1) % c
    <3>2. n \in 0 .. c - 1 /\ all[i] = Chunk(n, Cut(bytes, n))
      BY <1>2, <3>1
    <3> HIDE DEF n
    <3>3. Cut(bytes, n) \in [1 .. Width -> 0 .. 1]
      BY <1>1, <1>3, <3>2, CutIsWide
    <3> QED BY <2>1, <3>2, <3>3 DEF LineOf, Chunk
  <2>4. CASE i \in {N + 2, N + 3}
    BY <1>2, <2>1, <2>4 DEF LineOf, LEN, END
  <2> QED BY <1>2, <2>2, <2>3, <2>4
<1>5. Len(all) \in Nat /\ all \in [1 .. Len(all) -> LineOf(m)]
  BY <1>2, <1>4
<1> QED BY <1>5, SeqDef DEF all, bytes

LEMMA SpoiltIsOf ==
    ASSUME NEW m \in Machine, NEW line \in LineOf(m), NEW x \in Spoilt(line)
    PROVE  x \in LineOf(m)
<1>1. /\ line \in AnyLine /\ line.number \in Nat
      /\ line.tag = "C" => line.data \in [1 .. Width -> 0 .. 1]
      /\ line.tag = "META" => line.data \in {Payload[m], Noise}
  BY DEF LineOf, AnyLine
<1>2. <<>> \in Bytes
  BY DEF Bytes
<1>3. CASE x = line
  BY <1>3
<1>4. CASE x = Lost
  BY <1>2, <1>4 DEF Lost, LineOf, AnyLine, Tag
<1>5. ASSUME NEW n \in 0 .. line.number + 1, x = [line EXCEPT !.number = n]
      PROVE  x \in LineOf(m)
  <2>1. n \in Nat /\ x \in AnyLine
    BY <1>1, <1>5 DEF AnyLine
  <2>2. x.tag = line.tag /\ x.data = line.data
    BY <1>1, <1>5 DEF AnyLine
  <2> QED BY <1>1, <2>1, <2>2 DEF LineOf
<1>6. CASE line.tag = "META" /\ x = [line EXCEPT !.data = Noise]
  <2>1. x \in AnyLine
    BY <1>1, <1>6 DEF AnyLine
  <2>2. x.tag = "META" /\ x.data = Noise
    BY <1>1, <1>6 DEF AnyLine
  <2> QED BY <2>1, <2>2 DEF LineOf
<1>7. ASSUME line.tag = "C", NEW d \in [1 .. Width -> 0 .. 1], x = [line EXCEPT !.data = d]
      PROVE  x \in LineOf(m)
  <2>0. Width \in Nat
    BY FleetAssumption
  <2>1. d \in Bytes
    BY <2>0, SeqDef DEF Bytes
  <2>2. x \in AnyLine
    BY <1>1, <1>7, <2>1 DEF AnyLine
  <2>3. x.tag = "C" /\ x.data = d
    BY <1>1, <1>7 DEF AnyLine
  <2> QED BY <2>2, <2>3 DEF LineOf
<1>8. \/ x \in {line, Lost}
      \/ \E n \in 0 .. line.number + 1 : x = [line EXCEPT !.number = n]
      \/ line.tag = "META" /\ x = [line EXCEPT !.data = Noise]
      \/ line.tag = "C" /\ \E d \in [1 .. Width -> 0 .. 1] : x = [line EXCEPT !.data = d]
  BY DEF Spoilt
<1> QED BY <1>3, <1>4, <1>5, <1>6, <1>7, <1>8

LEMMA ShownIsOf ==
    ASSUME cloud \in {"aws", "azure"}, NEW m \in Machine, NEW text \in Shows(m)
    PROVE  text \in Seq(LineOf(m))
<1> DEFINE lines == Lines(Payload[m])
<1>1. lines \in Seq(LineOf(m))
  BY LinesAreOf
<1>2. \/ text = <<>> \/ text = lines
      \/ \E i \in DOMAIN lines, j \in DOMAIN lines :
           \E x \in Spoilt(lines[i]), y \in Spoilt(lines[j]) :
             text = [lines EXCEPT ![i] = x, ![j] = y]
  BY DEF Shows
<1> HIDE DEF lines
<1>3. ASSUME NEW i \in DOMAIN lines, NEW j \in DOMAIN lines,
             NEW x \in Spoilt(lines[i]), NEW y \in Spoilt(lines[j]),
             text = [lines EXCEPT ![i] = x, ![j] = y]
      PROVE  text \in Seq(LineOf(m))
  <2>1. lines[i] \in LineOf(m) /\ lines[j] \in LineOf(m)
    BY <1>1
  <2>2. x \in LineOf(m) /\ y \in LineOf(m)
    BY <2>1, SpoiltIsOf
  <2>3. lines \in [1 .. Len(lines) -> LineOf(m)] /\ Len(lines) \in Nat
    BY <1>1
  <2>4. text \in [1 .. Len(lines) -> LineOf(m)]
    BY <1>3, <2>2, <2>3
  <2> QED BY <2>3, <2>4, SeqDef
<1>4. <<>> \in Seq(LineOf(m))
  OBVIOUS
<1> QED BY <1>1, <1>2, <1>3, <1>4

\* The lines with a tag have a first one.
LEMMA FoundIsFinite ==
    ASSUME NEW S, NEW text \in Seq(S), NEW F, F \subseteq DOMAIN text
    PROVE  IsFiniteSet(F) /\ F \subseteq Nat
<1>1. Len(text) \in Nat /\ DOMAIN text = 1 .. Len(text)
  OBVIOUS
<1>2. IsFiniteSet(1 .. Len(text))
  BY <1>1, FS_Interval
<1> QED BY <1>1, <1>2, FS_Subset

LEMMA FirstIsFound ==
    ASSUME NEW S, NEW text \in Seq(S), NEW tag, Found(text, tag) # {}
    PROVE  First(text, tag) \in S /\ First(text, tag).tag = tag
<1>1. Found(text, tag) \subseteq DOMAIN text
  BY DEF Found
<1>2. IsFiniteSet(Found(text, tag)) /\ Found(text, tag) \subseteq Nat
  BY <1>1, FoundIsFinite
<1>3. Min(Found(text, tag)) \in Found(text, tag)
  BY <1>2, ExtremesAreIn
<1> QED BY <1>3 DEF First, Found

\* And a chunk that is there has a last copy.
LEMMA KeptIsThere ==
    ASSUME NEW S, NEW text \in Seq(S), NEW n \in Numbers(text)
    PROVE  \E i \in Found(text, "C") : text[i].number = n /\ Kept(text, n) = text[i].data
<1> DEFINE copies == {i \in Found(text, "C") : text[i].number = n}
<1>1. copies # {} /\ copies \subseteq DOMAIN text
  BY DEF Numbers, Found
<1> HIDE DEF copies
<1>2. IsFiniteSet(copies) /\ copies \subseteq Nat
  BY <1>1, FoundIsFinite
<1>3. Max(copies) \in copies
  BY <1>1, <1>2, ExtremesAreIn
<1> QED BY <1>3 DEF copies, Kept

\* What goes with its digest is what was printed.
LEMMA SoundIsPrinted ==
    ASSUME NEW m \in Machine, NEW text \in Seq(LineOf(m)), IsSound(text)
    PROVE  Joined(text) = Payload[m]
<1> DEFINE want == First(text, "META").number
           length == First(text, "LEN").number
           count == Min({want * Width, length})
           byte(k) == Kept(text, (k - 1) \div Width)[((k - 1) % Width) + 1]
<1>1. /\ First(text, "META") \in LineOf(m) /\ First(text, "META").tag = "META"
      /\ First(text, "LEN") \in LineOf(m)
  BY FirstIsFound DEF IsSound, Complete, Legible
<1>2. want \in Nat /\ length \in Nat /\ First(text, "META").data \in {Payload[m], Noise}
  BY <1>1 DEF LineOf, AnyLine
<1>3. Numbers(text) = 0 .. want - 1
  BY DEF IsSound, HasGap
<1>4. Joined(text) = [k \in 1 .. count |-> byte(k)]
  BY DEF Joined
<1>w. Width \in Nat \ {0}
  BY FleetAssumption
<1> HIDE DEF want, length
<1>5. count \in Nat /\ count <= want * Width
  <2>1. want * Width \in Nat
    BY <1>2, <1>w
  <2> QED BY <1>2, <2>1, LeastOfTwo
<1> HIDE DEF count
<1>6. ASSUME NEW k \in 1 .. count PROVE byte(k) \in 0 .. 1
  <2> DEFINE q == (k - 1) \div Width
             r == (k - 1) % Width
  <2>1. q \in Nat /\ r \in 0 .. Width - 1 /\ k - 1 = q * Width + r
    <3>1. k - 1 \in Nat
      BY <1>5
    <3> QED BY <1>w, <3>1, Division
  <2> HIDE DEF q, r
  <2>2. q * Width < want * Width
    <3>1. q * Width \in Nat /\ want * Width \in Nat
      BY <1>2, <1>w, <2>1
    <3> QED BY <1>5, <1>w, <2>1, <3>1
  <2>3. q < want
    BY <1>2, <1>w, <2>1, <2>2
  <2>4. q \in Numbers(text)
    BY <1>2, <1>3, <2>1, <2>3
  <2>5. PICK i \in Found(text, "C") : Kept(text, q) = text[i].data
    BY <2>4, KeptIsThere
  <2>6. text[i] \in LineOf(m) /\ text[i].tag = "C"
    BY DEF Found
  <2>7. Kept(text, q) \in [1 .. Width -> 0 .. 1]
    BY <2>5, <2>6 DEF LineOf
  <2>8. r + 1 \in 1 .. Width
    BY <1>w, <2>1
  <2>9. Kept(text, q)[r + 1] \in 0 .. 1
    BY <2>7, <2>8
  <2> QED BY <2>9 DEF q, r
<1> HIDE DEF byte
<1>7. Joined(text) \in Seq(0 .. 1)
  <2>1. Joined(text) \in [1 .. count -> 0 .. 1]
    BY <1>4, <1>6
  <2> QED BY <1>5, <2>1, SeqDef
<1>8. Joined(text) # Noise
  BY <1>7, FleetAssumption
<1> QED BY <1>2, <1>8 DEF IsSound

\* What is shown as it was printed is put together again, whatever was printed: the
\* chunks are counted, found by their numbers, and cut to the length.
LEMMA WholeIsSound ==
    ASSUME cloud \in {"aws", "azure"}, NEW bytes \in Bytes
    PROVE  IsSound(Lines(bytes))
<1> DEFINE c == ChunksOf(bytes)
           N == Passes * c
           all == Lines(bytes)
           number(i) == (i - 1) % c
<1>1. /\ N \in Nat /\ all \in Seq(AnyLine) /\ Len(all) = N + 3
      /\ all[1] = META(c, bytes)
      /\ \A i \in 1 .. N :
           number(i) \in 0 .. c - 1 /\ all[i + 1] = Chunk(number(i), Cut(bytes, number(i)))
      /\ all[N + 2] = LEN(Len(bytes)) /\ all[N + 3] = END
  BY LinesInOrder
<1>2. c \in Nat /\ Len(bytes) <= c * Width /\ Len(bytes) \in Nat /\ Width \in Nat \ {0}
  BY CountOfChunks, FleetAssumption DEF Bytes
<1>p. c <= N
  BY <1>2 DEF Passes
<1>n. \A n \in 0 .. c - 1 : number(n + 1) = n
  BY <1>2
<1> HIDE DEF c, N, all, number
<1>3. DOMAIN all = 1 .. N + 3
  BY <1>1
\* Where each kind of line is.
<1>4. ASSUME NEW i \in 2 .. N + 1
      PROVE  /\ all[i].tag = "C" /\ all[i].number = number(i - 1)
             /\ all[i].data = Cut(bytes, number(i - 1))
  <2>1. i - 1 \in 1 .. N /\ i = (i - 1) + 1
    BY <1>1, <1>4
  <2>2. all[i] = Chunk(number(i - 1), Cut(bytes, number(i - 1)))
    BY <1>1, <2>1
  <2> QED BY <2>2 DEF Chunk
<1>5. \A i \in 1 .. N + 3 : i = 1 \/ i \in 2 .. N + 1 \/ i = N + 2 \/ i = N + 3
  BY <1>1
<1>6. all[1].tag = "META" /\ all[N + 2].tag = "LEN" /\ all[N + 3].tag = "END"
  BY <1>1 DEF META, LEN, END
<1>7. Found(all, "META") = {1} /\ Found(all, "LEN") = {N + 2} /\ Found(all, "END") = {N + 3}
  <2>1. ASSUME NEW i \in 1 .. N + 3
        PROVE  /\ all[i].tag = "META" <=> i = 1
               /\ all[i].tag = "LEN" <=> i = N + 2
               /\ all[i].tag = "END" <=> i = N + 3
    BY <1>1, <1>4, <1>5, <1>6
  <2> QED BY <1>1, <1>3, <2>1 DEF Found
<1>8. Found(all, "C") = 2 .. N + 1
  <2>1. ASSUME NEW i \in 1 .. N + 3
        PROVE  all[i].tag = "C" <=> i \in 2 .. N + 1
    <3>1. i \in {1, N + 2, N + 3} => i \notin 2 .. N + 1
      BY <1>1
    <3> QED BY <1>4, <1>5, <1>6, <3>1
  <2>2. \A i \in 2 .. N + 1 : i \in 1 .. N + 3
    BY <1>1
  <2> QED BY <1>3, <2>1, <2>2 DEF Found
<1>9. First(all, "META") = META(c, bytes) /\ First(all, "LEN") = LEN(Len(bytes))
  <2>1. \A x : Min({x}) = x
    BY DEF Min
  <2> QED BY <1>1, <1>7, <2>1 DEF First
<1>10. Numbers(all) = 0 .. c - 1
  <2>1. ASSUME NEW n \in 0 .. c - 1 PROVE n \in Numbers(all)
    <3>1. n + 2 \in 2 .. N + 1 /\ (n + 2) - 1 = n + 1
      BY <1>1, <1>2, <1>p
    <3>2. all[n + 2].number = n
      BY <1>4, <1>n, <3>1
    <3> QED BY <1>8, <3>1, <3>2 DEF Numbers
  <2>2. ASSUME NEW i \in 2 .. N + 1 PROVE all[i].number \in 0 .. c - 1
    <3>1. i - 1 \in 1 .. N
      BY <1>1
    <3> QED BY <1>1, <1>4, <3>1
  <2> QED BY <1>8, <2>1, <2>2 DEF Numbers
<1>11. Complete(all) /\ ~HasGap(all)
  <2>1. Cardinality(0 .. c - 1) = c
    BY <1>2, FS_Interval
  <2>2. First(all, "META").number = c
    BY <1>9 DEF META
  <2> QED BY <1>7, <1>10, <2>1, <2>2 DEF Complete, Legible, HasGap
<1>12. ASSUME NEW n \in 0 .. c - 1 PROVE Kept(all, n) = Cut(bytes, n)
  <2>0. n \in Numbers(all) /\ all \in Seq(AnyLine)
    BY <1>1, <1>10
  <2>1. PICK i \in Found(all, "C") : all[i].number = n /\ Kept(all, n) = all[i].data
    BY <2>0, KeptIsThere
  <2> QED BY <1>4, <1>8, <2>1
<1>13. Joined(all) = [k \in 1 .. Len(bytes) |->
                        Kept(all, (k - 1) \div Width)[((k - 1) % Width) + 1]]
  <2>1. First(all, "META").number = c /\ First(all, "LEN").number = Len(bytes)
    BY <1>9 DEF META, LEN
  <2>2. Min({c * Width, Len(bytes)}) = Len(bytes)
    <3>1. c * Width \in Nat
      BY <1>2
    <3> QED BY <1>2, <3>1, LeastOfTwo
  <2> QED BY <2>1, <2>2 DEF Joined
<1>14. ASSUME NEW k \in 1 .. Len(bytes)
       PROVE  Kept(all, (k - 1) \div Width)[((k - 1) % Width) + 1] = bytes[k]
  <2> DEFINE q == (k - 1) \div Width
             r == (k - 1) % Width
  <2>1. q \in Nat /\ r \in 0 .. Width - 1 /\ k - 1 = q * Width + r
    <3>1. k - 1 \in Nat
      BY <1>2
    <3> QED BY <1>2, <3>1, Division
  <2> HIDE DEF q, r
  <2>2. q * Width < c * Width
    <3>1. q * Width \in Nat /\ c * Width \in Nat
      BY <1>2, <2>1
    <3> QED BY <1>2, <2>1, <3>1
  <2>3. q < c
    BY <1>2, <2>1, <2>2
  <2>4. Kept(all, q) = Cut(bytes, q)
    BY <1>2, <1>12, <2>1, <2>3
  <2>5. r + 1 \in 1 .. Width /\ q * Width + (r + 1) = k
    <3>1. q * Width \in Nat
      BY <1>2, <2>1
    <3> QED BY <1>2, <2>1, <3>1
  <2>6. Cut(bytes, q)[r + 1] = bytes[k]
    <3>1. Cut(bytes, q)[r + 1] = IF q * Width + (r + 1) <= Len(bytes)
                                  THEN bytes[q * Width + (r + 1)] ELSE 0
      BY <2>5 DEF Cut
    <3> QED BY <1>2, <2>5, <3>1
  <2> QED BY <2>4, <2>6 DEF q, r
<1>15. Joined(all) = bytes
  <2>1. bytes = [k \in 1 .. Len(bytes) |-> bytes[k]]
    BY DEF Bytes
  <2> QED BY <1>13, <1>14, <2>1
<1> QED BY <1>9, <1>11, <1>15 DEF IsSound, META, all

-----------------------------------------------------------------------------
(* The script's steps.                                                     *)

\* The script stays in its places.
LEMMA ScriptTyped == AnchorTypeOK /\ AnchorNext => script' \in Script
<1> SUFFICES ASSUME AnchorTypeOK, AnchorNext PROVE script' \in Script
  OBVIOUS
<1>0. script \in [at : Place, next : Nat, outcome : Outcome]
  BY DEF AnchorTypeOK, Script
<1>1. ASSUME NEW at \in Place PROVE [script EXCEPT !.at = at] \in Script
  BY <1>0 DEF Script
<1>2. ASSUME NEW at \in Place PROVE [script EXCEPT !.at = at, !.next = 1] \in Script
  BY <1>0 DEF Script
<1>3. [script EXCEPT !.next = @ + 1] \in Script
  BY <1>0 DEF Script
<1>4. ASSUME NEW outcome \in Outcome
      PROVE [script EXCEPT !.at = "over", !.outcome = outcome] \in Script
  BY <1>0 DEF Script, Place
<1>5. ASSUME NEW outcome \in Outcome, NEW at \in Place
      PROVE [at |-> at, next |-> 1, outcome |-> outcome] \in Script
  BY DEF Script
<1>6. {"launch", "poll", "wait", "enrol", "second", "first", "clear", "over"} \subseteq Place
  BY DEF Place
<1>7. {"none", "raised", "too few", "good", "unexpected"} \subseteq Outcome
  BY DEF Outcome
<1>8. CASE PolledOne
  BY <1>1, <1>3, <1>6, <1>8 DEF PolledOne
<1>9. ASSUME NEW outcome \in Outcome, Concludes(outcome) PROVE script' \in Script
  BY <1>5, <1>6, <1>9 DEF Concludes
<1>10. CASE UNCHANGED script
  BY <1>0, <1>10 DEF Script
<1>11. CASE Ends("raised")
  BY <1>4, <1>7, <1>11 DEF Ends
<1>12. CASE NewRound
  BY <1>2, <1>6, <1>12 DEF NewRound
<1>13. CASE GiveUp
  BY <1>7, <1>9, <1>13 DEF GiveUp
<1>14. ASSUME NEW place \in Place, GoesTo(place) PROVE script' \in Script
  BY <1>1, <1>14 DEF GoesTo
<1>15. CASE PresentFirst
  BY <1>7, <1>9, <1>15 DEF PresentFirst
<1>16. CASE Terminate
  BY <1>1, <1>3, <1>6, <1>16 DEF Terminate
<1>17. CASE DeleteGroup
  BY <1>1, <1>6, <1>17 DEF DeleteGroup
<1>18. CASE ReadClaims \/ EnrolFirst \/ PresentSecond
  BY <1>6, <1>11, <1>14, <1>18 DEF ReadClaims, EnrolFirst, PresentSecond
<1>19. CASE Poll
  BY <1>8, <1>11, <1>19 DEF Poll
<1> QED BY <1>8, <1>10, <1>11, <1>12, <1>13, <1>15, <1>16, <1>17, <1>18, <1>19
        DEF AnchorNext, ScriptStep, Launch, LaunchFails, ProbePrints, PollSkips, Expire, Lapse

\* What a poll brings, if anything, is what was printed.
LEMMA PollBrings ==
    ASSUME AnchorTypeOK, Launches, Poll, NEW m, m = launched[script.next]
    PROVE  /\ m \in Machine /\ m \notin Range(results)
           /\ \/ UNCHANGED <<results, reports>> /\ (Ends("raised") \/ PolledOne)
              \/ /\ results' = Append(results, m) /\ PolledOne
                 /\ reports' = [reports EXCEPT ![m] = Payload[m]]
<1>1. script.next \in 1 .. Len(launched)
  <2>1. script.at = "poll"
    BY DEF Poll, Stands
  <2>2. script.outcome = "none" /\ script.next \in {1, 2}
    BY <2>1 DEF Launches, Stands, Place
  <2>3. Len(launched) = 2
    BY <2>1, <2>2 DEF Launches, Stands
  <2> QED BY <2>2, <2>3
<1>2. m \in Machine
  BY <1>1 DEF AnchorTypeOK
<1>3. PICK text \in Shows(m) :
         \/ /\ HasGap(text) /\ Ends("raised")
            /\ UNCHANGED <<results, reports>>
         \/ /\ IsSound(text) /\ PolledOne
            /\ results' = Append(results, m)
            /\ reports' = [reports EXCEPT ![m] = Joined(text)]
         \/ /\ ~HasGap(text) /\ ~IsSound(text) /\ PolledOne
            /\ UNCHANGED <<results, reports>>
  BY DEF Poll
<1>4. text \in Seq(LineOf(m))
  BY <1>2, ShownIsOf DEF AnchorTypeOK
<1>5. IsSound(text) => Joined(text) = Payload[m]
  BY <1>2, <1>4, SoundIsPrinted
<1>6. m \notin Range(results)
  BY DEF Poll
<1> QED BY <1>2, <1>3, <1>5, <1>6

\* The mandate's record and what is noted of a step stay what they are.
LEMMA PresentTyped ==
    ASSUME AnchorTypeOK, NEW m \in Machine, Present(m)
    PROVE  mandate' \in OfTheKey /\ served' \in SUBSET Machine /\ amiss' \in SUBSET Machine
<1>1. PICK genuine \in BOOLEAN, instance \in Instance \cup {"none"} :
        /\ Doubts(m, genuine /\ instance = claims[m])
        /\ IF Admits(genuine, instance)
           THEN /\ mandate' = [mandate EXCEPT !.observed = instance, !.begun = TRUE]
                /\ served' = served \cup {m}
           ELSE UNCHANGED <<mandate, served>>
  BY DEF Present
<1>2. amiss' \in SUBSET Machine
  BY <1>1 DEF Doubts, AnchorTypeOK
<1>3. mandate \in [enrolled : MaybeInstance, observed : MaybeInstance, begun : BOOLEAN]
  BY DEF AnchorTypeOK, OfTheKey
<1>4. [mandate EXCEPT !.observed = instance, !.begun = TRUE] \in OfTheKey
  BY <1>3 DEF OfTheKey, MaybeInstance
<1> QED BY <1>1, <1>2, <1>3, <1>4 DEF AnchorTypeOK, OfTheKey

LEMMA AnchorTyped == AnchorInv /\ [AnchorNext]_anchorVars => AnchorTypeOK'
<1> SUFFICES ASSUME AnchorInv, [AnchorNext]_anchorVars PROVE AnchorTypeOK'
  OBVIOUS
<1> USE DEF waitVars, judgeVars, clearVars, Stands, Ends
<1>0. AnchorTypeOK /\ Launches /\ Clearing /\ OnceEach /\ Judged
  BY DEF AnchorInv
<1>a. Len(launched) \in Nat
  BY <1>0 DEF AnchorTypeOK
<1>b. AnchorNext => script' \in Script
  BY <1>0, ScriptTyped
<1>c. BothThere => results[1] \in Machine /\ results[2] \in Machine
  BY <1>0, BothReported DEF BothThere
<1>1. CASE Launch
  <2>1. Fleet[Len(launched) + 1] \in Machine
    BY <1>0, <1>1, <1>a, TwoMachines DEF Launch
  <2>2. launched' \in Seq(Machine) /\ running' \in SUBSET Machine
    BY <1>0, <1>1, <2>1, AppendProperties DEF Launch, AnchorTypeOK
  <2> QED BY <1>0, <1>b, <1>1, <2>2
        DEF AnchorNext, ScriptStep, Launch, AnchorTypeOK
<1>2. CASE LaunchFails
  <2>1. Fleet[Len(launched) + 1] \in Machine
    BY <1>0, <1>2, <1>a, TwoMachines DEF LaunchFails
  <2>2. running' \in SUBSET Machine
    BY <1>0, <1>2, <2>1 DEF LaunchFails, AnchorTypeOK
  <2> QED BY <1>0, <1>b, <1>2, <2>2
        DEF AnchorNext, ScriptStep, LaunchFails, AnchorTypeOK
<1>3. ASSUME NEW m \in Machine, ProbePrints(m) PROVE AnchorTypeOK'
  BY <1>0, <1>b, <1>3 DEF AnchorNext, ProbePrints, AnchorTypeOK
<1>4. CASE NewRound \/ PollSkips \/ GiveUp
  BY <1>0, <1>b, <1>4 DEF AnchorNext, ScriptStep, NewRound, PollSkips, GiveUp, AnchorTypeOK
<1>5. CASE Poll
  <2> DEFINE m == launched[script.next]
  <2>1. /\ m \in Machine
        /\ \/ UNCHANGED <<results, reports>>
           \/ results' = Append(results, m) /\ reports' = [reports EXCEPT ![m] = Payload[m]]
    BY <1>0, <1>5, PollBrings
  <2>2. Payload[m] \in Bytes
    BY <2>1, FleetAssumption DEF Machine, Bytes
  <2> HIDE DEF m
  <2>3. results' \in Seq(Machine)
    BY <1>0, <2>1, AppendProperties DEF AnchorTypeOK
  <2>4. reports' \in [Machine -> Bytes]
    BY <1>0, <2>1, <2>2 DEF AnchorTypeOK
  <2> QED BY <1>0, <1>b, <1>5, <2>3, <2>4 DEF AnchorNext, ScriptStep, Poll, AnchorTypeOK
<1>6. CASE Expire \/ Lapse
  BY <1>0, <1>b, <1>6 DEF AnchorNext, Expire, Lapse, AnchorTypeOK
<1>7. CASE ReadClaims
  <2>1. claims' \in [Machine -> MaybeInstance] /\ masked' \in BOOLEAN
    BY <1>7 DEF ReadClaims, MaybeInstance
  <2> QED BY <1>0, <1>b, <1>7, <2>1 DEF AnchorNext, ScriptStep, ReadClaims, AnchorTypeOK
<1>8. CASE EnrolFirst
  <2>1. results[1] \in Machine
    BY <1>0, <1>c, <1>8 DEF EnrolFirst, Judged
  <2>2. amiss' \in SUBSET Machine
    BY <1>0, <1>8, <2>1 DEF EnrolFirst, Doubts, AnchorTypeOK
  <2>3. claims[results[1]] \in MaybeInstance
    BY <1>0, <2>1 DEF AnchorTypeOK
  <2>4. mandate' \in OfTheKey
    BY <1>0, <1>8, <2>3 DEF EnrolFirst, AnchorTypeOK, OfTheKey
  <2> QED BY <1>0, <1>b, <1>8, <2>2, <2>4 DEF AnchorNext, ScriptStep, EnrolFirst, AnchorTypeOK
<1>9. CASE PresentSecond
  <2>1. mandate' \in OfTheKey /\ served' \in SUBSET Machine /\ amiss' \in SUBSET Machine
    BY <1>0, <1>c, <1>9, PresentTyped DEF PresentSecond, Judged
  <2> QED BY <1>0, <1>b, <1>9, <2>1 DEF AnchorNext, ScriptStep, PresentSecond, AnchorTypeOK
<1>10. CASE PresentFirst
  <2>1. mandate' \in OfTheKey /\ served' \in SUBSET Machine /\ amiss' \in SUBSET Machine
    BY <1>0, <1>c, <1>10, PresentTyped DEF PresentFirst, Judged
  <2> QED BY <1>0, <1>b, <1>10, <2>1 DEF AnchorNext, ScriptStep, PresentFirst, AnchorTypeOK
<1>11. CASE Terminate
  <2>1. launched[script.next] \in Machine
    BY <1>0, <1>11 DEF Terminate, Launches, Clearing, AnchorTypeOK
  <2>2. running' \in SUBSET Machine /\ byHand' \in SUBSET Machine
    BY <1>0, <1>11, <2>1 DEF Terminate, AnchorTypeOK
  <2> QED BY <1>0, <1>b, <1>11, <2>2
        DEF AnchorNext, ScriptStep, Terminate, AnchorTypeOK
<1>12. CASE DeleteGroup
  BY <1>0, <1>b, <1>12 DEF AnchorNext, ScriptStep, DeleteGroup, AnchorTypeOK
<1>13. CASE UNCHANGED anchorVars
  BY <1>0, <1>13 DEF anchorVars, AnchorTypeOK
<1> QED BY <1>1, <1>2, <1>3, <1>4, <1>5, <1>6, <1>7, <1>8, <1>9, <1>10, <1>11, <1>12, <1>13
        DEF AnchorNext, ScriptStep

LEMMA LaunchesKept == AnchorInv /\ [AnchorNext]_anchorVars => Launches'
<1> SUFFICES ASSUME AnchorInv, [AnchorNext]_anchorVars PROVE Launches'
  OBVIOUS
<1> USE DEF waitVars, clearVars, Stands, Ends, Place
<1>0. AnchorTypeOK /\ Launches /\ Clearing
  BY DEF AnchorInv
<1>a. Len(launched) \in Nat /\ script \in [at : Place, next : Nat, outcome : Outcome]
  BY <1>0 DEF AnchorTypeOK, Script
<1>1. CASE Launch
  <2>1. /\ Len(launched') = Len(launched) + 1
        /\ \A i \in 1 .. Len(launched) : launched'[i] = launched[i]
        /\ launched'[Len(launched) + 1] = Fleet[Len(launched) + 1]
    BY <1>0, <1>1, <1>a DEF Launch, AnchorTypeOK
  <2>2. \A i \in 1 .. Len(launched') : launched'[i] = Fleet[i]
    BY <1>0, <1>a, <2>1 DEF Launches
  <2>3. Len(launched') <= 2
    BY <1>1, <1>a, <2>1, TwoMachines DEF Launch
  <2> QED BY <1>0, <1>1, <2>2, <2>3 DEF Launch, Launches
<1>2. CASE LaunchFails
  BY <1>0, <1>a, <1>2 DEF LaunchFails, Launches
<1>3. ASSUME NEW m \in Machine, ProbePrints(m) PROVE Launches'
  BY <1>0, <1>3 DEF ProbePrints, Launches
<1>4. CASE NewRound
  BY <1>0, <1>a, <1>4, TwoMachines DEF NewRound, Launches
<1>r. ASSUME Ends("raised"), UNCHANGED <<keep, launched>> PROVE Launches'
  BY <1>0, <1>a, <1>r DEF Launches
<1>p. ASSUME Stands("poll"), PolledOne, UNCHANGED <<keep, launched>>  PROVE Launches'
  <2>1. script.next \in {1, 2} /\ script.outcome = "none" /\ Len(launched) = 2
    BY <1>0, <1>a, <1>p DEF Launches, AnchorTypeOK
  <2>2. CASE script.next = Len(launched)
    <3>1. script' = [script EXCEPT !.at = "wait"]
      BY <1>p, <2>2 DEF PolledOne
    <3>2. script'.at = "wait" /\ script'.outcome = "none"
      BY <1>a, <2>1, <3>1
    <3> QED BY <1>0, <1>p, <2>1, <3>2 DEF Launches
  <2>3. CASE script.next # Len(launched)
    <3>1. script' = [script EXCEPT !.next = script.next + 1]
      BY <1>p, <2>3 DEF PolledOne
    <3>2. script'.at = "poll" /\ script'.outcome = "none" /\ script'.next \in {1, 2}
      BY <1>a, <1>p, <2>1, <2>3, <3>1
    <3> QED BY <1>0, <1>p, <2>1, <3>2 DEF Launches
  <2> QED BY <2>2, <2>3
<1>g. ASSUME NEW place \in {"enrol", "second", "first"}, GoesTo(place),
             script.at \in {"wait", "enrol", "second"}, UNCHANGED <<keep, launched>>
      PROVE  Launches'
  <2>1. script.outcome = "none" /\ Len(launched) = 2
    BY <1>0, <1>a, <1>g DEF Launches
  <2>2. script'.at = place /\ script'.outcome = "none"
    BY <1>a, <1>g, <2>1 DEF GoesTo
  <2> QED BY <1>0, <1>g, <2>1, <2>2 DEF Launches
<1>c. ASSUME NEW outcome \in {"too few", "good", "unexpected"}, Concludes(outcome),
             script.at \in {"wait", "first"}, UNCHANGED <<keep, launched>>
      PROVE  Launches'
  <2>1. Len(launched) = 2
    BY <1>0, <1>c DEF Launches
  <2>2. /\ script'.at \in {"over", "clear"} /\ script'.outcome = outcome
        /\ script'.at = "clear" => ~keep
    BY <1>c DEF Concludes
  <2> QED BY <1>0, <1>c, <2>1, <2>2 DEF Launches
<1>5. CASE PollSkips
  BY <1>5, <1>p DEF PollSkips
<1>6. CASE Poll
  <2>1. (Ends("raised") \/ PolledOne) /\ UNCHANGED <<keep, launched>> /\ Stands("poll")
    BY <1>6 DEF Poll
  <2> QED BY <1>p, <1>r, <2>1
<1>7. CASE Expire \/ Lapse
  BY <1>0, <1>7 DEF Expire, Lapse, Launches
<1>8. CASE GiveUp
  BY <1>c, <1>8 DEF GiveUp
<1>9. CASE ReadClaims
  <2>1. (Ends("raised") \/ GoesTo("enrol")) /\ UNCHANGED <<keep, launched>> /\ script.at = "wait"
    BY <1>9 DEF ReadClaims
  <2> QED BY <1>g, <1>r, <2>1
<1>10. CASE EnrolFirst \/ PresentSecond
  BY <1>g, <1>10 DEF EnrolFirst, PresentSecond
<1>11. CASE PresentFirst
  <2>1. \E outcome \in {"good", "unexpected"} : Concludes(outcome)
    BY <1>11 DEF PresentFirst
  <2> QED BY <1>c, <1>11, <2>1 DEF PresentFirst
<1>12. CASE Terminate
  BY <1>0, <1>a, <1>12 DEF Terminate, Launches
<1>13. CASE DeleteGroup
  BY <1>0, <1>a, <1>13 DEF DeleteGroup, Launches
<1>14. CASE UNCHANGED anchorVars
  BY <1>0, <1>14 DEF anchorVars, Launches
<1> QED BY <1>1, <1>2, <1>3, <1>4, <1>5, <1>6, <1>7, <1>8, <1>9, <1>10, <1>11, <1>12, <1>13,
           <1>14 DEF AnchorNext, ScriptStep

LEMMA ClearingKept == AnchorInv /\ [AnchorNext]_anchorVars => (Clearing /\ LeftRunningIsSaid)'
<1> SUFFICES ASSUME AnchorInv, [AnchorNext]_anchorVars PROVE (Clearing /\ LeftRunningIsSaid)'
  OBVIOUS
<1> USE DEF waitVars, clearVars, Stands, Ends
<1>0. AnchorTypeOK /\ Launches /\ Clearing /\ LeftRunningIsSaid
  BY DEF AnchorInv
<1>a. script \in [at : Place, next : Nat, outcome : Outcome]
  BY <1>0 DEF AnchorTypeOK, Script
<1>c. ASSUME NEW outcome, Concludes(outcome), UNCHANGED <<cloud, keep, running, byHand>>
      PROVE  (Clearing /\ LeftRunningIsSaid)'
  <2>1. script'.next = 1 /\ (script'.at = "over" => keep)
    BY <1>0, <1>c DEF Concludes, AnchorTypeOK
  <2> QED BY <1>c, <2>1 DEF Clearing, LeftRunningIsSaid
<1>n. ASSUME script'.at \notin {"clear", "over"} PROVE (Clearing /\ LeftRunningIsSaid)'
  BY <1>n DEF Clearing, LeftRunningIsSaid
<1>r. ASSUME Ends("raised") PROVE (Clearing /\ LeftRunningIsSaid)'
  BY <1>a, <1>r DEF Clearing, LeftRunningIsSaid
<1>1. CASE Launch
  BY <1>0, <1>1 DEF Launch, Clearing, LeftRunningIsSaid
<1>2. CASE LaunchFails
  BY <1>r, <1>2 DEF LaunchFails
<1>3. ASSUME NEW m \in Machine, ProbePrints(m) PROVE (Clearing /\ LeftRunningIsSaid)'
  BY <1>0, <1>3 DEF ProbePrints, Clearing, LeftRunningIsSaid
<1>4. CASE NewRound
  BY <1>a, <1>n, <1>4 DEF NewRound
<1>p. ASSUME Stands("poll"), PolledOne PROVE (Clearing /\ LeftRunningIsSaid)'
  BY <1>a, <1>n, <1>p DEF PolledOne
<1>5. CASE PollSkips \/ Poll
  BY <1>p, <1>r, <1>5 DEF PollSkips, Poll
<1>6. CASE Expire \/ Lapse
  BY <1>0, <1>6 DEF Expire, Lapse, Clearing, LeftRunningIsSaid
<1>7. CASE GiveUp \/ PresentFirst
  BY <1>c, <1>7 DEF GiveUp, PresentFirst
<1>8. CASE ReadClaims \/ EnrolFirst \/ PresentSecond
  <2>1. Ends("raised") \/ \E place \in {"enrol", "second", "first"} : GoesTo(place)
    BY <1>8 DEF ReadClaims, EnrolFirst, PresentSecond
  <2>2. ASSUME NEW place \in {"enrol", "second", "first"}, GoesTo(place)
        PROVE  script'.at = place
    BY <1>a, <2>2 DEF GoesTo
  <2> QED BY <1>n, <1>r, <2>1, <2>2
\* The machine it is at is taken down or said to run; the other was before.
<1>9. CASE Terminate
  <2>1. /\ Len(launched) = 2 /\ launched[1] = Fleet[1] /\ launched[2] = Fleet[2]
        /\ script.next \in {1, 2} /\ cloud = "aws"
        /\ Stands("clear") /\ script.outcome # "raised"
    BY <1>0, <1>9 DEF Terminate, Launches, Clearing
  <2>2. running' \subseteq running /\ byHand \subseteq byHand'
    BY <1>9 DEF Terminate
  <2>3. launched[script.next] \in running' => launched[script.next] \in byHand'
    BY <1>9 DEF Terminate
  <2>4. CASE script.next = 1
    BY <1>a, <1>9, <2>1, <2>3, <2>4 DEF Terminate, Clearing, LeftRunningIsSaid
  <2>5. CASE script.next = 2
    <3>1. Fleet[1] \in running' => Fleet[1] \in byHand'
      BY <1>0, <2>1, <2>2, <2>5 DEF Clearing
    <3>2. running' \subseteq byHand'
      BY <1>0, <2>1, <2>2, <2>3, <2>5, <3>1, TwoMachines DEF AnchorTypeOK
    <3>3. script'.at = "over"
      BY <1>a, <1>9, <2>1, <2>5 DEF Terminate
    <3> QED BY <3>2, <3>3 DEF Clearing, LeftRunningIsSaid
  <2> QED BY <2>1, <2>4, <2>5
<1>10. CASE DeleteGroup
  <2>1. running' \subseteq byHand' /\ script'.at = "over"
    BY <1>0, <1>a, <1>10 DEF DeleteGroup, AnchorTypeOK
  <2> QED BY <2>1 DEF Clearing, LeftRunningIsSaid
<1>11. CASE UNCHANGED anchorVars
  BY <1>0, <1>11 DEF anchorVars, Clearing, LeftRunningIsSaid
<1> QED BY <1>1, <1>2, <1>3, <1>4, <1>5, <1>6, <1>7, <1>8, <1>9, <1>10, <1>11
        DEF AnchorNext, ScriptStep

\* A machine whose reports it has is not polled again, and only what was printed is
\* kept of it.
LEMMA OncePolled == AnchorInv /\ [AnchorNext]_anchorVars => (OnceEach /\ KeptIsPrinted)'
<1> SUFFICES ASSUME AnchorInv, [AnchorNext]_anchorVars PROVE (OnceEach /\ KeptIsPrinted)'
  OBVIOUS
<1>0. AnchorTypeOK /\ Launches /\ OnceEach /\ KeptIsPrinted
  BY DEF AnchorInv
<1>a. results \in Seq(Machine) /\ Len(results) \in Nat
  BY <1>0 DEF AnchorTypeOK
<1>1. CASE UNCHANGED <<results, reports>>
  BY <1>0, <1>1 DEF OnceEach, KeptIsPrinted
<1> DEFINE m == launched[script.next]
<1>2. CASE /\ m \in Machine /\ m \notin Range(results)
           /\ results' = Append(results, m)
           /\ reports' = [reports EXCEPT ![m] = Payload[m]]
  <2> HIDE DEF m
  <2>4. /\ DOMAIN results = 1 .. Len(results) /\ DOMAIN results' = 1 .. Len(results) + 1
        /\ \A i \in 1 .. Len(results) : results'[i] = results[i] /\ results[i] # m
        /\ results'[Len(results) + 1] = m /\ Len(results') = Len(results) + 1
    BY <1>a, <1>2, AppendProperties DEF Range
  <2>5. IsInjective(results')
    BY <1>0, <1>a, <2>4 DEF OnceEach, IsInjective
  <2>6. Len(results) # 2
    <3> SUFFICES ASSUME Len(results) = 2 PROVE FALSE
      OBVIOUS
    <3>1. results[1] # results[2] /\ results[1] # m /\ results[2] # m
      BY <1>0, <2>4 DEF OnceEach, IsInjective
    <3>2. results[1] \in Machine /\ results[2] \in Machine
      BY <1>a
    <3> QED BY <1>2, <3>1, <3>2, TwoMachines
  <2>7. Range(results') \subseteq Range(results) \cup {m}
    BY <1>a, <2>4 DEF Range
  <2>8. Range(results) \subseteq Machine
    BY <1>a DEF Range
  <2>9. KeptIsPrinted'
    BY <1>0, <1>2, <2>7, <2>8 DEF KeptIsPrinted, AnchorTypeOK
  <2> QED BY <1>0, <1>a, <2>4, <2>5, <2>6, <2>9 DEF OnceEach
<1>3. CASE Poll
  BY <1>0, <1>1, <1>2, <1>3, PollBrings
<1>4. ~Poll => UNCHANGED <<results, reports>>
  BY DEF AnchorNext, ScriptStep, Launch, LaunchFails, ProbePrints, NewRound, PollSkips,
         Expire, Lapse, GiveUp, ReadClaims, EnrolFirst, PresentSecond, PresentFirst, Terminate,
         DeleteGroup, waitVars, clearVars, anchorVars
<1> QED BY <1>1, <1>3, <1>4

\* How a step goes: what is genuine and names the instance on record, or any when none
\* is, is served at a position that is not spent.
LEMMA Presented ==
    ASSUME NEW m \in Machine, Present(m), mandate \in OfTheKey
    PROVE  \E genuine \in BOOLEAN, instance \in MaybeInstance :
             /\ amiss' = IF genuine /\ instance = claims[m] THEN amiss ELSE amiss \cup {m}
             /\ \/ /\ Admits(genuine, instance)
                   /\ served' = served \cup {m}
                   /\ mandate'.enrolled = mandate.enrolled
                   /\ mandate'.observed = instance /\ mandate'.begun
                \/ ~Admits(genuine, instance) /\ UNCHANGED <<mandate, served>>
<1>1. PICK genuine \in BOOLEAN, instance \in Instance \cup {"none"} :
        /\ Doubts(m, genuine /\ instance = claims[m])
        /\ IF Admits(genuine, instance)
           THEN /\ mandate' = [mandate EXCEPT !.observed = instance, !.begun = TRUE]
                /\ served' = served \cup {m}
           ELSE UNCHANGED <<mandate, served>>
  BY DEF Present
<1>2. mandate \in [enrolled : MaybeInstance, observed : MaybeInstance, begun : BOOLEAN]
  BY DEF OfTheKey
<1>3. amiss' = IF genuine /\ instance = claims[m] THEN amiss ELSE amiss \cup {m}
  BY <1>1 DEF Doubts
<1>4. CASE Admits(genuine, instance)
  <2>1. mandate' = [mandate EXCEPT !.observed = instance, !.begun = TRUE]
    BY <1>1, <1>4
  <2>2. mandate'.enrolled = mandate.enrolled /\ mandate'.observed = instance /\ mandate'.begun
    BY <1>2, <2>1
  <2> QED BY <1>1, <1>3, <1>4, <2>2 DEF MaybeInstance
<1>5. CASE ~Admits(genuine, instance)
  BY <1>1, <1>3, <1>5 DEF MaybeInstance
<1> QED BY <1>4, <1>5

\* The second machine is served only if something is amiss, the challenge has lapsed,
\* or it names the instance of the first.
LEMMA SecondPresented == AnchorInv /\ PresentSecond => Judged'
<1> SUFFICES ASSUME AnchorInv, PresentSecond PROVE Judged'
  OBVIOUS
<1>0. /\ AnchorTypeOK /\ OnceEach /\ BothThere /\ FirstEnrolled
      /\ mandate.observed = "none" /\ ~mandate.begun /\ served = {}
  BY DEF AnchorInv, PresentSecond, Judged
<1> DEFINE a == results[1]
           b == results[2]
<1>1. a \in Machine /\ b \in Machine /\ a # b /\ Len(results) = 2
  BY <1>0, BothReported DEF BothThere
<1>2. mandate \in OfTheKey
  BY <1>0 DEF AnchorTypeOK
<1>3. PICK genuine \in BOOLEAN, instance \in MaybeInstance :
         /\ amiss' = IF genuine /\ instance = claims[b] THEN amiss ELSE amiss \cup {b}
         /\ \/ /\ Admits(genuine, instance)
               /\ served' = served \cup {b}
               /\ mandate'.enrolled = mandate.enrolled
               /\ mandate'.observed = instance /\ mandate'.begun
            \/ ~Admits(genuine, instance) /\ UNCHANGED <<mandate, served>>
  BY <1>1, <1>2, Presented DEF PresentSecond
<1>4. UNCHANGED <<claims, results, stale>> /\ script'.at = "first"
  <2>1. script \in [at : Place, next : Nat, outcome : Outcome]
    BY <1>0 DEF AnchorTypeOK, Script
  <2> QED BY <2>1 DEF PresentSecond, GoesTo, waitVars
<1>5. amiss' = {} => amiss = {} /\ genuine /\ instance = claims[b]
  BY <1>3
<1>6. BothThere'
  BY <1>0, <1>4 DEF BothThere, Machine
<1>7. mandate'.enrolled = mandate.enrolled
  BY <1>3
<1>8. FirstEnrolled'
  BY <1>0, <1>4, <1>5, <1>7 DEF FirstEnrolled
<1>9. /\ served' \subseteq {b} /\ (served' # {} => mandate'.begun)
      /\ served' = {} => mandate'.observed = "none" /\ ~mandate'.begun
  BY <1>0, <1>3
<1>10. ASSUME amiss' = {}, ~stale, claims[a] # claims[b] PROVE served' = {}
  <2>1. mandate.enrolled = claims[a] /\ instance = claims[b]
    BY <1>0, <1>5, <1>10 DEF FirstEnrolled
  <2>2. claims[a] # "none"
    BY <1>0, <1>1 DEF BothThere
  <2>3. ~Admits(genuine, instance)
    BY <1>10, <2>1, <2>2 DEF Admits
  <2> QED BY <1>0, <1>3, <2>3
<1> HIDE DEF a, b
<1>11. /\ served' \subseteq {results'[2]}
       /\ amiss' = {} /\ ~stale' /\ Differ' => served' = {}
  BY <1>4, <1>9, <1>10 DEF Differ, a, b
<1> QED BY <1>4, <1>6, <1>8, <1>9, <1>11 DEF Judged, Stands

\* And what is said of the first machine's step is right.
LEMMA FirstPresented == AnchorInv /\ PresentFirst => Judged'
<1> SUFFICES ASSUME AnchorInv, PresentFirst PROVE Judged'
  OBVIOUS
<1>0. /\ AnchorTypeOK /\ OnceEach /\ BothThere /\ FirstEnrolled
      /\ served \subseteq {results[2]}
      /\ served = {} => mandate.observed = "none" /\ ~mandate.begun
      /\ served # {} => mandate.begun
      /\ amiss = {} /\ ~stale /\ Differ => served = {}
  BY DEF AnchorInv, PresentFirst, Judged
<1> DEFINE a == results[1]
           b == results[2]
<1>1. a \in Machine /\ b \in Machine /\ a # b /\ Len(results) = 2
  BY <1>0, BothReported DEF BothThere
<1>2. mandate \in OfTheKey /\ cloud \in {"aws", "azure"} /\ keep \in BOOLEAN
  BY <1>0 DEF AnchorTypeOK
<1>3. PICK genuine \in BOOLEAN, instance \in MaybeInstance :
         /\ amiss' = IF genuine /\ instance = claims[a] THEN amiss ELSE amiss \cup {a}
         /\ \/ /\ Admits(genuine, instance)
               /\ served' = served \cup {a}
               /\ mandate'.enrolled = mandate.enrolled
               /\ mandate'.observed = instance /\ mandate'.begun
            \/ ~Admits(genuine, instance) /\ UNCHANGED <<mandate, served>>
  BY <1>1, <1>2, Presented DEF PresentFirst
<1>4. /\ UNCHANGED <<claims, results, stale, masked, cloud>>
      /\ script'.outcome = (IF Good THEN "good" ELSE "unexpected")
      /\ script'.at \in {"over", "clear"}
  BY DEF PresentFirst, Concludes, waitVars
<1>5. claims[a] # "none" /\ mandate.enrolled \in {"none", claims[a]}
  BY <1>0, <1>1 DEF BothThere, FirstEnrolled
<1>6. a \notin served /\ (served # {} => b \in served)
  BY <1>0, <1>1
<1>7. ASSUME Good
      PROVE  /\ mandate'.enrolled = claims[a] /\ mandate'.observed = claims[a]
             /\ served' = {a} /\ Differ
  <2>1. Differ /\ mandate'.enrolled # "none" /\ b \notin served' /\ a \in served'
    BY <1>7 DEF Good, Answered
  <2>2. /\ Admits(genuine, instance) /\ served' = served \cup {a}
        /\ mandate'.enrolled = mandate.enrolled /\ mandate'.observed = instance
    BY <1>3, <1>6, <2>1
  <2>3. served' = {a}
    BY <1>6, <2>1, <2>2
  <2>4. mandate.enrolled = claims[a]
    BY <1>5, <2>1, <2>2
  <2>5. instance = claims[a]
    BY <1>5, <2>2, <2>4 DEF Admits
  <2> QED BY <2>1, <2>2, <2>3, <2>4, <2>5
<1>8. ASSUME amiss' = {}, Differ, ~stale, cloud = "azure" \/ masked
      PROVE  Good
  <2>1. amiss = {} /\ genuine /\ instance = claims[a]
    BY <1>3, <1>8
  <2>2. served = {} /\ mandate.enrolled = claims[a]
    BY <1>0, <1>8, <2>1 DEF FirstEnrolled
  <2>3. mandate.observed = "none" /\ ~mandate.begun
    BY <1>0, <2>2
  <2>4. Admits(genuine, instance)
    BY <1>5, <2>1, <2>2, <2>3 DEF Admits
  <2>5. served' = {a} /\ mandate'.enrolled = claims[a]
    BY <1>3, <2>2, <2>4
  <2>6. b \notin served' /\ a \in served' /\ mandate'.enrolled # "none"
    BY <1>1, <1>5, <2>5
  <2> QED BY <1>8, <2>6 DEF Good, Answered
<1>9. Differ' <=> Differ
  BY <1>4 DEF Differ
<1>10. Right'
  <2>1. script'.outcome = "good" <=> Good
    BY <1>4
  <2>2. Good => /\ mandate'.enrolled = claims'[results'[1]]
                /\ mandate'.observed = claims'[results'[1]]
                /\ served' = {results'[1]} /\ Differ'
    BY <1>4, <1>7, <1>9
  <2>3. amiss' = {} /\ Differ' /\ ~stale' /\ (cloud' = "azure" \/ masked') => Good
    BY <1>4, <1>8, <1>9
  <2> QED BY <2>1, <2>2, <2>3 DEF Right
<1> QED BY <1>4, <1>10 DEF Judged, Stands

LEMMA JudgedKept == AnchorInv /\ [AnchorNext]_anchorVars => Judged'
<1> SUFFICES ASSUME AnchorInv, [AnchorNext]_anchorVars PROVE Judged'
  OBVIOUS
<1> USE DEF waitVars, judgeVars, clearVars, Stands, Ends
<1>0. AnchorTypeOK /\ Launches /\ OnceEach /\ Judged
  BY DEF AnchorInv
<1>a. script \in [at : Place, next : Nat, outcome : Outcome] /\ Len(launched) \in Nat
  BY <1>0 DEF AnchorTypeOK, Script
<1>b. Len(results) \in Nat
  BY <1>0 DEF AnchorTypeOK
\* Nothing of it is touched while the script waits.
<1>w. ASSUME script'.at \in {"launch", "poll", "wait"},
             script.at \in {"launch", "poll", "wait"}, UNCHANGED <<mandate, served, amiss>>
      PROVE  Judged'
  BY <1>0, <1>w DEF Judged
<1>r. ASSUME Ends("raised") PROVE Judged'
  BY <1>a, <1>r DEF Judged
<1>1. CASE Launch \/ NewRound \/ PollSkips
  <2>1. /\ script.at \in {"launch", "poll", "wait"}
        /\ script'.at \in {"launch", "poll", "wait"}
    BY <1>a, <1>1 DEF Launch, NewRound, PollSkips, PolledOne
  <2>2. UNCHANGED <<mandate, served, amiss>>
    BY <1>1 DEF Launch, NewRound, PollSkips
  <2> QED BY <1>w, <2>1, <2>2
<1>2. CASE LaunchFails
  BY <1>r, <1>2 DEF LaunchFails
<1>3. CASE Poll
  <2>1. CASE PolledOne
    <3>1. script'.at \in {"poll", "wait"} /\ script.at = "poll"
      BY <1>a, <1>3, <2>1 DEF Poll, PolledOne
    <3>2. UNCHANGED <<mandate, served, amiss>>
      BY <1>3 DEF Poll
    <3> QED BY <1>w, <3>1, <3>2
  <2> QED BY <1>r, <1>3, <2>1 DEF Poll
\* Both have reported where the judging begins.
<1>4. CASE ReadClaims
  <2>1. /\ claims' \in [Machine -> Instance \cup {"none"}]
        /\ IF \E m \in Machine : claims'[m] = "none" THEN Ends("raised") ELSE GoesTo("enrol")
        /\ UNCHANGED <<results, mandate, served, amiss>> /\ script.at = "wait"
    BY <1>4 DEF ReadClaims
  <2>2. CASE \A m \in Machine : claims'[m] # "none"
    <3>1. script'.at = "enrol"
      BY <1>a, <2>1, <2>2 DEF GoesTo
    <3>2. Len(results) = 2
      <4>1. ~(Len(results) < Len(launched))
        BY <1>4 DEF ReadClaims, Missing
      <4>2. Len(launched) = 2
        BY <1>0, <2>1 DEF Launches, Place
      <4>3. Len(results) <= 2
        BY <1>0 DEF OnceEach
      <4>4. \A n \in Nat : n <= 2 /\ ~(n < 2) => n = 2
        OBVIOUS
      <4> QED BY <1>b, <4>1, <4>2, <4>3, <4>4
    <3>3. BothThere'
      BY <2>1, <2>2, <3>2 DEF BothThere, Machine
    <3>4. mandate = OnRecord /\ served = {} /\ amiss = {}
      BY <1>0, <2>1 DEF Judged
    <3> QED BY <2>1, <3>1, <3>3, <3>4 DEF Judged, OnRecord
  <2> QED BY <1>r, <2>1, <2>2
<1>5. CASE EnrolFirst
  <2> DEFINE m == results[1]
  <2>1. /\ mandate = OnRecord /\ served = {} /\ amiss = {} /\ BothThere
    BY <1>0, <1>5 DEF EnrolFirst, Judged
  <2>2. PICK genuine \in BOOLEAN :
           /\ amiss' = IF genuine THEN amiss ELSE amiss \cup {m}
           /\ mandate' = IF genuine /\ ~stale THEN [mandate EXCEPT !.enrolled = claims[m]]
                         ELSE mandate
    BY <1>5 DEF EnrolFirst, Doubts
  <2>3. UNCHANGED <<claims, results, stale, served>> /\ script'.at = "second"
    BY <1>a, <1>5 DEF EnrolFirst, GoesTo
  <2>4. /\ mandate'.observed = "none" /\ ~mandate'.begun
        /\ mandate'.enrolled = IF genuine /\ ~stale THEN claims[m] ELSE "none"
    BY <2>1, <2>2 DEF OnRecord
  <2>5. amiss' = {} => genuine
    BY <2>2
  <2>6. FirstEnrolled'
    BY <2>3, <2>4, <2>5 DEF FirstEnrolled
  <2>7. BothThere'
    BY <2>1, <2>3 DEF BothThere, Machine
  <2> QED BY <2>1, <2>3, <2>4, <2>6, <2>7 DEF Judged
<1>6. CASE PresentSecond
  BY <1>6, SecondPresented
<1>7. CASE PresentFirst
  BY <1>7, FirstPresented
<1>8. CASE GiveUp
  <2>1. script'.at \in {"over", "clear"} /\ script'.outcome = "too few"
    BY <1>8 DEF GiveUp, Concludes
  <2> QED BY <2>1 DEF Judged
<1>9. CASE Terminate \/ DeleteGroup
  <2>1. /\ script.at = "clear" /\ script'.outcome = script.outcome
        /\ script'.at \in {"clear", "over"}
        /\ UNCHANGED <<cloud, stale, results, claims, masked, mandate, served, amiss>>
    BY <1>a, <1>9 DEF Terminate, DeleteGroup
  <2>2. script.outcome \in {"good", "unexpected"} => Right
    BY <1>0, <2>1 DEF Judged
  <2>3. Right => Right'
    BY <2>1 DEF Right, Differ
  <2> QED BY <2>1, <2>2, <2>3 DEF Judged
\* A lapse comes before the enrolment; the rest does not concern it.
<1>10. CASE Lapse
  <2>1. /\ script.at \in {"launch", "poll", "wait", "enrol"}
        /\ UNCHANGED <<script, results, claims, mandate, served, amiss>>
    BY <1>10 DEF Lapse
  <2>2. BothThere => BothThere'
    BY <2>1 DEF BothThere, Machine
  <2> QED BY <1>0, <2>1, <2>2 DEF Judged
<1>11. CASE \/ Expire \/ (\E m \in Machine : ProbePrints(m)) \/ UNCHANGED anchorVars
  <2>1. UNCHANGED <<script, cloud, stale, results, claims, masked, mandate, served, amiss>>
    BY <1>11 DEF Expire, ProbePrints, anchorVars
  <2>2. /\ BothThere => BothThere'
        /\ FirstEnrolled => FirstEnrolled'
        /\ Right => Right'
        /\ Differ' <=> Differ
    BY <2>1 DEF BothThere, FirstEnrolled, Right, Differ, Machine
  <2> QED BY <1>0, <2>1, <2>2 DEF Judged
<1> QED BY <1>1, <1>2, <1>3, <1>4, <1>5, <1>6, <1>7, <1>8, <1>9, <1>10, <1>11
        DEF AnchorNext, ScriptStep

-----------------------------------------------------------------------------

\* AnchorInv is inductive: it holds at the start and in every state of a run.
THEOREM AnchorInvariant == AnchorSpec => []AnchorInv
<1>1. AnchorInit => AnchorInv
  <2> SUFFICES ASSUME AnchorInit PROVE AnchorInv
    OBVIOUS
  <2>1. <<>> \in Bytes /\ <<>> \in Seq(Machine) /\ Len(<<>>) = 0
    BY DEF Bytes
  <2>2. mandate \in OfTheKey
    BY DEF AnchorInit, OnRecord, OfTheKey, MaybeInstance
  <2>3. script \in Script
    BY DEF AnchorInit, Script, Place, Outcome
  <2>4. AnchorTypeOK
    BY <2>1, <2>2, <2>3 DEF AnchorInit, AnchorTypeOK, MaybeInstance
  <2>5. Launches /\ Clearing /\ LeftRunningIsSaid /\ Judged
    BY <2>1 DEF AnchorInit, Launches, Clearing, LeftRunningIsSaid, Judged, Stands, Place
  <2>6. OnceEach
    BY <2>1 DEF AnchorInit, OnceEach, IsInjective
  <2>7. KeptIsPrinted
    BY <2>1 DEF AnchorInit, KeptIsPrinted, Range
  <2> QED BY <2>4, <2>5, <2>6, <2>7 DEF AnchorInv
<1>2. AnchorInv /\ [AnchorNext]_anchorVars => AnchorInv'
  BY AnchorTyped, LaunchesKept, ClearingKept, OncePolled, JudgedKept DEF AnchorInv
<1> QED BY <1>1, <1>2, PTL DEF AnchorSpec

\* A run that is told to clear up, and that no exception ends, leaves no machine
\* running of which it did not say so (terminate and cleanup of the two scripts).
THEOREM NoneLeftInSilence == AnchorSpec => []LeftRunningIsSaid
<1>1. AnchorInv => LeftRunningIsSaid
  BY DEF AnchorInv
<1> QED BY <1>1, AnchorInvariant, PTL

\* The verdict at the end of main in the two scripts: a run called good has one machine
\* enrolled and served and the other, another one, not, and a run in which all was as it
\* should be is called good, whatever the reports turn out to be and whichever machine
\* came first.
THEOREM GoodForTheRightReasons == AnchorSpec => []VerdictIsRight
<1>1. AnchorInv => VerdictIsRight
  BY DEF AnchorInv, Judged, Right, VerdictIsRight, Stands
<1> QED BY <1>1, AnchorInvariant, PTL

\* Whatever two lines the console makes of two of the probe's, for any payload and any
\* width of a chunk, what reassemble returns is what was printed; and from a console
\* that spoils nothing it returns it.
THEOREM DamageIsNoReport == AnchorSpec => []ReceivedIsWhole
<1>1. AnchorInv => ReceivedIsWhole
  <2> SUFFICES ASSUME AnchorInv PROVE ReceivedIsWhole
    OBVIOUS
  <2>1. ASSUME NEW m \in Machine PROVE IsSound(Lines(Payload[m]))
    <3>1. Payload[m] \in Bytes
      BY FleetAssumption DEF Machine, Bytes
    <3> QED BY <3>1, WholeIsSound DEF AnchorInv, AnchorTypeOK
  <2> QED BY <2>1 DEF AnchorInv, KeptIsPrinted, ReceivedIsWhole
<1> QED BY <1>1, AnchorInvariant, PTL
=============================================================================
