----------------------------- MODULE Transcript -----------------------------
(***************************************************************************)
(* Two ends of a TLS 1.3 handshake over recorded memory BIOs               *)
(* (hatls/transcript.py, class BioConnection), and what each end makes of  *)
(* its recording: the ClientHello and ServerHello a binder is derived from.*)
(*                                                                         *)
(* OpenSSL cuts messages into records as it likes, TCP delivers any number *)
(* of bytes at a time, a server may ask for a second ClientHello.  Both    *)
(* ends must find the same two messages all the same.                      *)
(***************************************************************************)
EXTENDS Naturals, SequencesExt

CONSTANTS
    Size,       \* bytes in the body of a hello
    MayRetry    \* the server may send a HelloRetryRequest, once

ASSUME TranscriptAssumption == Size \in Nat /\ MayRetry \in BOOLEAN

VARIABLES
    wrote,    \* the records each end has written
    heard,    \* how much of the other's records each end has received
    phase     \* how far each end's handshake has come

transcriptVars == <<wrote, heard, phase>>

-----------------------------------------------------------------------------
(* Bytes, messages and records.  A hello has a header of four bytes, which *)
(* say its type and its size.                                              *)

End == {"client", "server"}
Peer(e) == IF e = "client" THEN "server" ELSE "client"

Hello == {"ClientHello", "RetryRequest", "SecondClientHello", "ServerHello"}
Byte == [of : Hello \cup {"ChangeCipherSpec", "Finished"}, at : Nat]

TypeOf(m) == IF m \in {"ClientHello", "SecondClientHello"} THEN 1 ELSE 2
Length(m) == 4 + Size
Bytes(m) == [i \in 1 .. Length(m) |-> [of |-> m, at |-> i]]

Rec(type, body) == [type |-> type, body |-> body]
ChangeCipherSpec == Rec("change_cipher_spec", <<[of |-> "ChangeCipherSpec", at |-> 1]>>)
Encrypted == Rec("application_data", <<[of |-> "Finished", at |-> 1]>>)

Record == [type : {"handshake", "change_cipher_spec", "application_data"},
           body : Seq(Byte)]
Stream == Seq(Record)

\* A message in records, each of which ends where ends says.
InRecords(m, ends) ==
    [i \in DOMAIN ends |->
       Rec("handshake", SubSeq(Bytes(m), IF i = 1 THEN 1 ELSE ends[i - 1] + 1, ends[i]))]

\* A message in one record.
Uncut == <<4 + Size>>

\* A slice from the start, as long as there is something to slice.
Upto(seq, n) == SubSeq(seq, 1, IF n < Len(seq) THEN n ELSE Len(seq))

\* x is <<records, n>>.  The first n bytes of what was written, as records, the
\* last perhaps short.
FirstBytes[x \in Stream \X Nat] ==
    IF x[1] = <<>> \/ x[2] = 0 THEN <<>>
    ELSE LET body == Upto(Head(x[1]).body, x[2])
         IN  <<Rec(Head(x[1]).type, body)>> \o FirstBytes[<<Tail(x[1]), x[2] - Len(body)>>]

BytesIn[records \in Stream] ==
    IF records = <<>> THEN 0 ELSE Len(Head(records).body) + BytesIn[Tail(records)]

-----------------------------------------------------------------------------
(* The parser.                                                             *)

\* Mutant: the message is taken for complete when its body's size is there.
HasWholeButHeader(hs) == Len(hs) >= 4 /\ Len(hs) >= Length(hs[1].of) - 4

HasWhole(hs) == Len(hs) >= 4 /\ Len(hs) >= Length(hs[1].of)

\* x is <<stream, hs>>: what is yet to be read, and what has been put together.
\* Other records before the first handshake record are skipped, any after it
\* ends the search.
Gathered[x \in Stream \X Seq(Byte)] ==
    LET next == Head(x[1])
        hs == x[2] \o next.body
    IN  IF x[1] = <<>> THEN x[2]
        ELSE IF next.type # "handshake"
             THEN IF x[2] # <<>> THEN x[2] ELSE Gathered[<<Tail(x[1]), x[2]>>]
             ELSE IF HasWhole(hs) THEN hs ELSE Gathered[<<Tail(x[1]), hs>>]

\* first_handshake_message: the message, or nothing.
FirstHandshakeMessage(stream, type) ==
    LET hs == Gathered[<<stream, <<>>>>]
    IN  IF HasWhole(hs) /\ TypeOf(hs[1].of) = type THEN Upto(hs, Length(hs[1].of)) ELSE <<>>

\* Mutant: a HelloRetryRequest is not told from a ServerHello.
RefusedNever(ch, sh) == ch = <<>> \/ sh = <<>>

Refused(ch, sh) == ch = <<>> \/ sh = <<>> \/ sh[1].of = "RetryRequest"

\* transcript_ch_sh: both hellos, or an exception.
TranscriptOf(client_to_server, server_to_client) ==
    LET ch == FirstHandshakeMessage(client_to_server, 1)
        sh == FirstHandshakeMessage(server_to_client, 2)
    IN  IF Refused(ch, sh) THEN <<>> ELSE <<ch, sh>>

-----------------------------------------------------------------------------
(* The handshake.                                                          *)

\* BioConnection.received and .sent of each end.
Received(e) == FirstBytes[<<wrote[Peer(e)], heard[e]>>]
Recorded(e) ==
    IF e = "client" THEN TranscriptOf(wrote["client"], Received("client"))
    ELSE TranscriptOf(Received("server"), wrote["server"])

HeardAll(e) == heard[e] = BytesIn[wrote[Peer(e)]]

Write(e, records, then) ==
    /\ wrote' = [wrote EXCEPT ![e] = @ \o records]
    /\ phase' = [phase EXCEPT ![e] = then]
    /\ UNCHANGED heard

\* Bound: only the first ClientHello and the ServerHello are ever cut.
Cuts ==
    {ends \in SeqOf(1 .. 4 + Size, 4 + Size) :
       /\ ends # <<>> /\ Last(ends) = 4 + Size
       /\ \A i \in 2 .. Len(ends) : ends[i - 1] < ends[i]}

ClientStarts ==
    /\ phase["client"] = "start"
    /\ \E ends \in Cuts : Write("client", InRecords("ClientHello", ends), "waiting")

\* The server's flight, up to its Finished.
ServerAnswers ==
    /\ phase["client"] = "waiting" /\ phase["server"] \in {"start", "retried"}
    /\ HeardAll("server")
    /\ \E ends \in Cuts :
         Write("server", InRecords("ServerHello", ends) \o <<ChangeCipherSpec, Encrypted>>,
               "waiting")

ServerRetries ==
    /\ MayRetry
    /\ phase["client"] = "waiting" /\ phase["server"] = "start"
    /\ HeardAll("server")
    /\ Write("server", InRecords("RetryRequest", Uncut) \o <<ChangeCipherSpec>>, "asking")

ClientStartsAgain ==
    /\ phase["server"] = "asking" /\ HeardAll("client")
    /\ wrote' = [wrote EXCEPT !["client"] =
                   @ \o <<ChangeCipherSpec>> \o InRecords("SecondClientHello", Uncut)]
    /\ phase' = [phase EXCEPT !["server"] = "retried"]
    /\ UNCHANGED heard

\* do_handshake() returns at the client, which records no more.
ClientFinishes ==
    /\ phase["client"] = "waiting" /\ phase["server"] = "waiting"
    /\ HeardAll("client")
    /\ Write("client", <<ChangeCipherSpec, Encrypted>>, "done")

ServerFinishes ==
    /\ phase["client"] = "done" /\ phase["server"] = "waiting"
    /\ HeardAll("server")
    /\ Write("server", <<>>, "done")

\* _feed: some more of what the other end has written.
Feed(e) ==
    /\ heard[e] < BytesIn[wrote[Peer(e)]]
    /\ heard' = [heard EXCEPT ![e] = @ + 1]
    /\ UNCHANGED <<wrote, phase>>

Unconnected ==
    [wrote |-> [e \in End |-> <<>>], heard |-> [e \in End |-> 0],
     phase |-> [e \in End |-> "start"]]

TranscriptInit ==
    /\ wrote = Unconnected.wrote
    /\ heard = Unconnected.heard
    /\ phase = Unconnected.phase

Handshake ==
    \/ ClientStarts \/ ServerAnswers \/ ServerRetries
    \/ ClientStartsAgain \/ ClientFinishes \/ ServerFinishes
    \/ \E e \in End : Feed(e)

-----------------------------------------------------------------------------
(* Properties.                                                             *)

Connected == \A e \in End : phase[e] = "done"
Retried == \E r \in Range(wrote["server"]) : r.body = Bytes("RetryRequest")

\* Both ends find the hellos that were sent, however they were cut, and both
\* refuse a handshake with a retry.
EndsAgree ==
    Connected => \A e \in End :
        Recorded(e) = IF Retried THEN <<>> ELSE <<Bytes("ClientHello"), Bytes("ServerHello")>>

\* What is found while the handshake is still under way is a whole message,
\* the first of its stream, or nothing.
NeverHalf ==
    \A e \in End : \A type \in {1, 2} :
        FirstHandshakeMessage(Received(e), type) \in
            {<<>>} \cup {Bytes(m) : m \in {"ClientHello", "RetryRequest", "ServerHello"}}
=============================================================================
