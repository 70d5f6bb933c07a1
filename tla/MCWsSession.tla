----------------------------- MODULE MCWsSession -----------------------------
(* Clients for the model checking of WsSession. *)
EXTENDS WsSession

KeyLine == <<"key", "key half", "key rest">>
ProtocolLine == <<"protocol", "protocol half", "protocol rest">>

\* The headers of a request in either order, with and without a subprotocol,
\* and a plain request.
Upgrade(lines) == <<"G", "ET">> \o lines \o <<"end">>

Requests(protocol) ==
    IF protocol = "" THEN {Upgrade(KeyLine), Upgrade(<<>>)}
    ELSE {Upgrade(KeyLine \o ProtocolLine), Upgrade(ProtocolLine \o KeyLine)}

MessageTypes == [1 .. 3 -> {WS_FRAME_TEXT, WS_FRAME_PING}] \cup [1 .. 1 -> {WS_FRAME_BINARY}]

\* A subprotocol with the name of a handler that is not for frames: the page
\* of GET is sent for each message, the upgrade handler finds no key.
NamedAsHandler ==
    UNION {[request : Requests(protocol), protocol : {protocol},
            types : {<<WS_FRAME_TEXT, WS_FRAME_TEXT>>, <<WS_FRAME_PING>>}, patient : BOOLEAN] :
               protocol \in {GET, WEBSOCKETKEY}}

AllClients ==
    NamedAsHandler \cup
    UNION {[request : Requests(protocol), protocol : {protocol},
            types : MessageTypes, patient : BOOLEAN] : protocol \in {"", "echo", "chat"}}
==============================================================================
