------------------------------- MODULE AsyncApi -------------------------------
(***************************************************************************)
(* The registry of an AsyncAPI document (src/src/asyncapi/registry.ts):    *)
(* channels, messages and operations are registered in any order, and      *)
(* generate() turns what is there into a document or throws.               *)
(***************************************************************************)
EXTENDS FiniteSets

CONSTANTS
  Channels,   \* name -> [headers, query]: does it describe its handshake's?
  Messages,   \* the messages' names
  Operations  \* name -> [channel, direction, messages]

AsyncApiAssumption ==
  /\ Channels \in [DOMAIN Channels -> [headers : BOOLEAN, query : BOOLEAN]]
  /\ \A o \in DOMAIN Operations :
       Operations[o].direction \in {"clientToServer", "serverToClient"}

VARIABLES
  channels, messages, operations, \* the names registered
  document                        \* the last document, or None before it

vars == <<channels, messages, operations, document>>

None == [channels |-> {}, operations |-> {}, messages |-> {}, schemas |-> {}]

Init == channels = {} /\ messages = {} /\ operations = {} /\ document = None

\* a name in use throws
RegisterChannel(c) ==
  /\ c \notin channels /\ channels' = channels \cup {c}
  /\ UNCHANGED <<messages, operations, document>>

RegisterMessage(m) ==
  /\ m \notin messages /\ messages' = messages \cup {m}
  /\ UNCHANGED <<channels, operations, document>>

RegisterOperation(o) ==
  /\ o \notin operations /\ operations' = operations \cup {o}
  /\ UNCHANGED <<channels, messages, document>>

\* faulty variant: asks for the channels only
ChannelsResolve == \A o \in operations : Operations[o].channel \in channels

\* assertReferencesResolve
ReferencesResolve ==
  \A o \in operations :
    Operations[o].channel \in channels /\ Operations[o].messages \subseteq messages

\* actionFor: from the server's side, which receives what clients send
ActionFor(direction) == IF direction = "clientToServer" THEN "receive" ELSE "send"

\* renderPayloads: a schema for each message and for each handshake described
Schemas ==
  {<<"payload", m>> : m \in messages}
  \cup {<<"headers", c>> : c \in {d \in channels : Channels[d].headers}}
  \cup {<<"query", c>> : c \in {d \in channels : Channels[d].query}}

\* renderMessages, renderChannels, renderOperations
Rendered ==
  [messages |-> {[name |-> m, payload |-> <<"payload", m>>] : m \in messages},
   channels |-> {[name |-> c, messages |-> messages,
                  bindings |-> (IF Channels[c].headers THEN {<<"headers", c>>} ELSE {})
                               \cup (IF Channels[c].query THEN {<<"query", c>>} ELSE {})]
                   : c \in channels},
   operations |-> {[name |-> o, action |-> ActionFor(Operations[o].direction),
                    channel |-> Operations[o].channel,
                    messages |-> {<<Operations[o].channel, m>> : m \in Operations[o].messages}]
                     : o \in operations},
   schemas |-> Schemas]

Generate ==
  /\ ReferencesResolve /\ document' = Rendered
  /\ UNCHANGED <<channels, messages, operations>>

Next ==
  \/ \E c \in DOMAIN Channels : RegisterChannel(c)
  \/ \E m \in Messages : RegisterMessage(m)
  \/ \E o \in DOMAIN Operations : RegisterOperation(o)
  \/ Generate

Spec == Init /\ [][Next]_vars

-----------------------------------------------------------------------------

TypeOK ==
  /\ channels \subseteq DOMAIN Channels /\ messages \subseteq Messages
  /\ operations \subseteq DOMAIN Operations

\* Every reference of a generated document points at something in it, in
\* whatever order its parts were registered: an operation's channel and its
\* messages under that channel, a channel's messages and the schemas it binds,
\* a message's payload.
DocumentIsClosed ==
  /\ \A o \in document.operations :
       \E c \in document.channels :
         /\ c.name = o.channel
         /\ o.messages \subseteq {<<c.name, m>> : m \in c.messages}
  /\ \A c \in document.channels :
       /\ c.messages \subseteq {m.name : m \in document.messages}
       /\ c.bindings \subseteq document.schemas
  /\ \A m \in document.messages : m.payload \in document.schemas
=============================================================================
