------------------------------ MODULE WsSession ------------------------------
(***************************************************************************)
(* One connection from its HTTP request to its echoes: CWsInput::ParseMsg, *)
(* the dispatch of CWsHandlerMgr::ProcMsg and the three handlers.          *)
(*                                                                         *)
(* A client sends an upgrade request and then whole messages; the stream   *)
(* is a sequence of pieces, and a read may end after any piece.  The       *)
(* pieces of the request are where a cut makes a difference: within GET,   *)
(* before and within the key, before and within the subprotocol, and       *)
(* before the empty line.  WsInput is how bytes reach the cache, and       *)
(* WsMsgParse how frames become messages; here both are one step.          *)
(***************************************************************************)
EXTENDS WsStream

GET == "GET"
WEBSOCKETKEY == "Sec-WebSocket-Key"
WS_PROTOCOL_BLANK == "blank"
WS_PROTOCOL_ECHO == "echo"

CONSTANT Clients        \* what a client may send

Parts == {"G", "ET", "key", "key half", "key rest",
          "protocol", "protocol half", "protocol rest", "end"}

\* A client: the parts of its request, the subprotocol it asks for ("" for
\* none), the types of its messages, and whether it keeps them back until
\* the handshake is done, as RFC 6455 demands.
ASSUME ClientsAssumption ==
    Clients \subseteq [request : Seq(Parts), protocol : STRING,
                       types : Seq(0 .. 15), patient : BOOLEAN]

VARIABLES client,
          arrived,      \* how many pieces of the stream arrived
          recvBuffer,   \* mpRecvBuffer
          cache,        \* mstMsgCache.pBuffer
          first,        \* history: how many pieces the cache first held
          miState,
          mstrProtocol,
          msg,          \* the CWsMsg being handled: <<>> or <<message>>
          pc,           \* where the task thread is
          answers,      \* what was sent to the client
          leaked,       \* messages that were never deleted
          astray        \* the frame decoder was given text of the request

buffers == <<arrived, recvBuffer, cache, first>>
state == <<miState, mstrProtocol>>
outcome == <<answers, leaked>>
vars == <<client, buffers, state, msg, pc, outcome, astray>>

Init == /\ client \in Clients
        /\ arrived = 0
        /\ recvBuffer = <<>>
        /\ cache = <<>>
        /\ first = 0
        /\ miState = "WS_STATE_NONE"
        /\ mstrProtocol = ""
        /\ msg = <<>>
        /\ pc = "wait"
        /\ answers = <<>>
        /\ leaked = <<>>
        /\ astray = FALSE

Text(part) == [part |-> part, type |-> 0, id |-> 0]
MessagePiece(type, id) == [part |-> "message", type |-> type, id |-> id]

\* All the client has to send.
Pieces == [i \in 1 .. Len(client.request) |-> Text(client.request[i])]
          \o [i \in 1 .. Len(client.types) |-> MessagePiece(client.types[i], i)]

IsData(m) == m.type \in {WS_FRAME_TEXT, WS_FRAME_BINARY}

\* The client was sent the answer that its key asks for.
Accepted == \E i \in 1 .. Len(answers) : answers[i].kind = "101" /\ answers[i].key = "whole"

-----------------------------------------------------------------------------
\* OnRecv with n more pieces (event-loop thread).
Arrive(n) ==
    /\ pc # "crashed"
    /\ arrived + n <= Len(Pieces)
    /\ client.patient /\ arrived + n > Len(client.request) => Accepted
    /\ arrived' = arrived + n
    /\ recvBuffer' = recvBuffer \o SubSeq(Pieces, arrived + 1, arrived + n)
    /\ UNCHANGED <<client, cache, first, state, msg, pc, outcome, astray>>

\* CWsInput::ProcMsg moves what arrived to the cache and calls ParseMsg.
ProcMsg ==
    /\ pc = "wait"
    /\ recvBuffer # <<>>
    /\ cache' = cache \o recvBuffer
    /\ recvBuffer' = <<>>
    /\ first' = IF first = 0 THEN Len(recvBuffer) ELSE first
    /\ pc' = "parse"
    /\ UNCHANGED <<client, arrived, state, msg, outcome, astray>>

-----------------------------------------------------------------------------
(* ParseMsg before the upgrade. *)

PartsOf(text) == {text[i].part : i \in 1 .. Len(text)}

StartsWithGet(text) == Len(text) >= 2 /\ text[1] = Text("G") /\ text[2] = Text("ET")

\* Mutant: the key is looked for at the start of the text only.
ProtocolOf_Prefix(text) == IF text[1] = Text("key") THEN WEBSOCKETKEY ELSE GET

\* The protocol whose handler gets the text.
ProtocolOf(text) == IF "key" \in PartsOf(text) THEN WEBSOCKETKEY ELSE GET

ParseHttp ==
    /\ pc = "parse"
    /\ miState = "WS_STATE_NONE"
    /\ IF StartsWithGet(cache)
       THEN /\ mstrProtocol' = ProtocolOf(cache)
            /\ msg' = <<[protocol |-> ProtocolOf(cache), http |-> cache, frame |-> <<>>]>>
            /\ pc' = "handle"
       ELSE /\ pc' = "reset"
            /\ UNCHANGED <<mstrProtocol, msg>>
    /\ UNCHANGED <<client, buffers, miState, outcome, astray>>

\* Mutant: the text is kept for the next read.
ResetCache_Keeps ==
    /\ pc = "reset"
    /\ pc' = "wait"
    /\ UNCHANGED <<client, buffers, state, msg, outcome, astray>>

\* Mutant: what arrived in the meantime is thrown away too.
ResetCache_Both ==
    /\ pc = "reset"
    /\ cache' = <<>>
    /\ recvBuffer' = <<>>
    /\ pc' = "wait"
    /\ UNCHANGED <<client, arrived, first, state, msg, outcome, astray>>

\* SetBuffLen(0): all of the text is dropped, whatever was made of it.
ResetCache ==
    /\ pc = "reset"
    /\ cache' = <<>>
    /\ pc' = "wait"
    /\ UNCHANGED <<client, arrived, recvBuffer, first, state, msg, outcome, astray>>

-----------------------------------------------------------------------------
(* ParseMsg after the upgrade. *)

Decoding == pc = "parse" /\ miState = "WS_STATE_CONNECT"

Lost == cache # <<>> /\ (astray \/ cache[1].part # "message")

DecodeMsg ==
    /\ Decoding
    /\ cache # <<>>
    /\ ~Lost
    /\ msg' = <<[protocol |-> mstrProtocol, http |-> <<>>, frame |-> <<Head(cache)>>]>>
    /\ cache' = Tail(cache)
    /\ pc' = "handle"
    /\ UNCHANGED <<client, arrived, recvBuffer, first, state, outcome, astray>>

\* The decoder takes the rest of a request for frames: it waits for bytes,
\* or makes a message of what it reads, now and ever after.
DecodeText ==
    /\ Decoding
    /\ Lost
    /\ astray' = TRUE
    /\ cache' = <<>>
    /\ \/ pc' = "wait" /\ UNCHANGED msg
       \/ /\ \E type \in {WS_FRAME_CONTINUATION, WS_FRAME_TEXT} :
                msg' = <<[protocol |-> mstrProtocol, http |-> <<>>,
                          frame |-> <<MessagePiece(type, 0)>>]>>
          /\ pc' = "handle"
    /\ UNCHANGED <<client, arrived, recvBuffer, first, state, outcome>>

DecodeEnd ==
    /\ Decoding
    /\ cache = <<>>
    /\ pc' = "wait"
    /\ UNCHANGED <<client, buffers, state, msg, outcome, astray>>

-----------------------------------------------------------------------------
(* CWsHandlerMgr::ProcMsg. *)

Ignored(m) == m.frame # <<>> /\ ~IsData(m.frame[1])

\* Mutant: one message is parsed per wakeup.
Return_Once(m) == IF m.http # <<>> THEN "reset" ELSE "wait"

\* Where ParseMsg goes on after the message was handled.
Return(m) == IF m.http # <<>> THEN "reset" ELSE "parse"

\* What every path does with the message.
Handled(m) ==
    /\ pc = "handle"
    /\ msg = <<m>>
    /\ msg' = <<>>
    /\ pc' = Return(m)
    /\ UNCHANGED <<client, buffers, astray>>

\* Frames other than text and binary are dropped, the close of the peer too.
IgnoreFrame(m) ==
    /\ Ignored(m)
    /\ Handled(m)
    /\ UNCHANGED <<state, outcome>>

Registered == {GET, WEBSOCKETKEY, WS_PROTOCOL_ECHO}

\* Line 55: no handler, and the message is never deleted.
NoHandler(m) ==
    /\ ~Ignored(m)
    /\ m.protocol \notin Registered
    /\ Handled(m)
    /\ leaked' = leaked \o m.frame
    /\ UNCHANGED <<state, answers>>

\* CWsGetHandler answers with index.html, or with nothing if there is none.
GetHandler(m) ==
    /\ ~Ignored(m)
    /\ m.protocol = GET
    /\ Handled(m)
    /\ \/ answers' = Append(answers, [kind |-> "page"])
       \/ UNCHANGED answers
    /\ UNCHANGED <<state, leaked>>

\* The value of a header in the text.  Of a line that was cut the last
\* byte is erased instead of the \r.
Value(text, half, rest, whole) ==
    IF rest \in PartsOf(text) THEN whole ELSE IF half \in PartsOf(text) THEN "cut" ELSE ""

Key(text) == Value(text, "key half", "key rest", "whole")
Protocol(text) == Value(text, "protocol half", "protocol rest", client.protocol)

\* CWsUpgradeHandler answers the key and switches the connection to frames.
UpgradeHandler(m) ==
    /\ ~Ignored(m)
    /\ m.protocol = WEBSOCKETKEY
    /\ Key(m.http) # ""
    /\ Handled(m)
    /\ answers' = Append(answers, [kind |-> "101", key |-> Key(m.http),
                                   protocol |-> Protocol(m.http)])
    /\ miState' = "WS_STATE_CONNECT"
    /\ mstrProtocol' = IF Protocol(m.http) = "" THEN WS_PROTOCOL_BLANK ELSE Protocol(m.http)
    /\ UNCHANGED leaked

\* CWsUpgradeHandler finds no key and returns NULL, which ProcMsg uses.
UpgradeCrash(m) ==
    /\ ~Ignored(m)
    /\ pc = "handle"
    /\ msg = <<m>>
    /\ m.protocol = WEBSOCKETKEY
    /\ Key(m.http) = ""
    /\ pc' = "crashed"
    /\ UNCHANGED <<client, buffers, state, msg, answers, leaked, astray>>

\* CWsEchoHandler sends the payload back in a text frame.
EchoHandler(m) ==
    /\ ~Ignored(m)
    /\ m.protocol = WS_PROTOCOL_ECHO
    /\ Handled(m)
    /\ answers' = Append(answers, [kind |-> "echo", id |-> m.frame[1].id])
    /\ UNCHANGED <<state, leaked>>

-----------------------------------------------------------------------------
Handle(m) == \/ IgnoreFrame(m) \/ NoHandler(m) \/ GetHandler(m)
             \/ UpgradeHandler(m) \/ UpgradeCrash(m) \/ EchoHandler(m)

Task == \/ ProcMsg
        \/ ParseHttp \/ ResetCache
        \/ DecodeMsg \/ DecodeText \/ DecodeEnd
        \/ \E i \in 1 .. Len(msg) : Handle(msg[i])

Next == (\E n \in 1 .. Len(Pieces) : Arrive(n)) \/ Task

\* The task thread runs; no bytes need arrive.
Spec == Init /\ [][Next]_vars /\ WF_vars(Task)

-----------------------------------------------------------------------------
TypeOK ==
    /\ client \in Clients
    /\ arrived \in 0 .. Len(Pieces)
    /\ {recvBuffer[i] : i \in 1 .. Len(recvBuffer)} \subseteq {Pieces[i] : i \in 1 .. arrived}
    /\ {cache[i] : i \in 1 .. Len(cache)} \subseteq {Pieces[i] : i \in 1 .. arrived}
    /\ first \in 0 .. arrived
    /\ miState \in {"WS_STATE_NONE", "WS_STATE_CONNECT"}
    /\ pc \in {"wait", "parse", "handle", "reset", "crashed"}
    /\ Len(msg) = (IF pc \in {"handle", "crashed"} THEN 1 ELSE 0)
    /\ astray \in BOOLEAN

\* The numbers of the data messages in a list of pieces, and of those echoed.
IdOf(m) == IF IsData(m) THEN <<m.id>> ELSE <<>>
Ids(ms) == FlattenSeq([i \in 1 .. Len(ms) |-> IdOf(ms[i])])

EchoOf(a) == IF a.kind = "echo" THEN <<a.id>> ELSE <<>>
Echoes == FlattenSeq([i \in 1 .. Len(answers) |-> EchoOf(answers[i])])

\* The message being handled, if it came in a frame.
InHand == IF msg = <<>> THEN <<>> ELSE msg[1].frame

\* For a client that waits for its answer, every data message that arrived
\* is echoed, leaked for want of a handler, or still on its way, in order:
\* though ParseMsg drops all of its cache after the handshake (line 47) no
\* message is in it, however soon after the answer the messages arrive.  The
\* subprotocol "GET" is the name of a handler that answers with pages.
NothingDropped ==
    client.patient /\ ~astray /\ client.protocol # GET =>
        Echoes \o Ids(leaked) \o Ids(InHand) \o Ids(cache) \o Ids(recvBuffer)
            = Ids(SubSeq(Pieces, 1, arrived))

\* A client that does not wait may lose messages, but only at the start: its
\* echoes are consecutive messages, each echoed once.
EchoesAreARun ==
    ~astray => \E i \in 1 .. Len(Ids(Pieces)) + 1 :
                  /\ i + Len(Echoes) - 1 <= Len(Ids(Pieces))
                  /\ Echoes = SubSeq(Ids(Pieces), i, i + Len(Echoes) - 1)

\* No message is lost, repeated or reordered between its arrival and its echo,
\* but those a client sends before it got its answer.
MessagesAccounted == TypeOK /\ NothingDropped /\ EchoesAreARun

\* What the first text in the cache lacks of the request is never made up
\* for: without all of the key in it the handshake is never answered right.
SplitIsLost ==
    /\ first # 0
    /\ "key" \in {client.request[i] : i \in 1 .. Len(client.request)}
    /\ "key rest" \notin PartsOf(SubSeq(Pieces, 1, first))
    => ~Accepted

\* A request that is whole when it is first looked at gets the answer to its
\* key, with the subprotocol it asked for.
WholeIsUpgraded ==
    (first >= Len(client.request) /\ "key" \in PartsOf(Pieces))
        ~> \E i \in 1 .. Len(answers) :
              answers[i] = [kind |-> "101", key |-> "whole", protocol |-> client.protocol]

\* Once the connection speaks echo every data message that arrives is echoed
\* (the first three, the longest stream of the runs).
EchoesAll ==
    \A k \in 1 .. 3 :
        /\ client.patient
        /\ mstrProtocol = WS_PROTOCOL_ECHO
        /\ Len(Ids(SubSeq(Pieces, 1, arrived))) >= k
        ~> Len(Echoes) >= k \/ astray
==============================================================================
