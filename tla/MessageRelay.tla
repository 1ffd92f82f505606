----------------------------- MODULE MessageRelay -----------------------------
(***************************************************************************)
(* A protocol message on its way: it is written to a datagram, read by the *)
(* node its source route names next, passed on along the route             *)
(* (forward_protocol_message.rs), sent on over another overlay hop that    *)
(* lengthens the route (handle_overlay_discovery.rs,                       *)
(* distributed_hash_table.rs), and answered over the reversed route        *)
(* (source_route.rs).  Each node works on what it has read, so the format  *)
(* is applied once per hop.  Reading is one step per object of the         *)
(* payload, as the loops of format/binrw.rs are.                           *)
(*                                                                         *)
(* Datagrams are delivered or not at all; a lost one ends the behaviour.   *)
(***************************************************************************)
EXTENDS WireFormat

CONSTANTS Messages,     \* the messages nodes make
          OverlayPaths, \* the paths by which an overlay hop goes on
          MaxHops       \* bound on the nodes of a lengthened route

VARIABLES
    origin,   \* the message as its node made it
    message,  \* the message in the memory of the node that holds it
    wire,     \* the datagram, or None
    at,       \* the position of the reader in the payload
    consumed, \* the bytes it has counted
    parsed,   \* what it has read so far
    visited,  \* the nodes that have held the message, beginning with its source
    stage     \* "memory", "wire", "read", or how the message ended

vars == <<origin, message, wire, at, consumed, parsed, visited, stage>>

Routed(m) == m.kind \in RoutedKind

Source(m) == IF Routed(m) THEN m.route.ids[1] ELSE m.header.src

CurrentHop(route) == route.ids[route.progress + 1]

Finished(route) == route.progress >= Len(route.ids) - 1

Advance(route) == IF Finished(route) THEN route ELSE [route EXCEPT !.progress = @ + 1]

Extend(route, path) == [route EXCEPT !.ids = @ \o path]

(* Mutant: the route is reversed without cutting it behind the responder.  *)
FromReversedWhole(route) == [ids |-> Reverse(route.ids), progress |-> 1]

FromReversed(route) ==
    [ids |-> Reverse(SubSeq(route.ids, 1, route.progress + 1)), progress |-> 1]

Init ==
    /\ message \in Messages
    /\ origin = message
    /\ wire = None
    /\ at = 0
    /\ consumed = 0
    /\ parsed = Parsed
    /\ visited = <<Source(message)>>
    /\ stage = "memory"

(* binrw::serialize, and the send to the current hop of the route; a       *)
(* neighbour message goes to the neighbour itself.                         *)
Serialize ==
    LET payload == Payload(message)
    IN  /\ stage = "memory"
        /\ IF Unwritable(message) \/ TooLong(payload)
           THEN /\ stage' = "refused"
                /\ UNCHANGED <<wire, at, consumed, parsed, visited>>
           ELSE /\ wire' = Datagram(message, payload)
                /\ at' = 1
                /\ consumed' = 0
                /\ parsed' = Parsed
                /\ visited' = Append(visited, IF Routed(message)
                                              THEN CurrentHop(message.route)
                                              ELSE message.header.dest)
                /\ stage' = "wire"
        /\ UNCHANGED <<origin, message>>

PayloadLength == wire.length - HeaderLen

(* One turn of the reading loop: an object whose length reaches beyond the *)
(* payload, or that is malformed, ends the reading with an error; an       *)
(* assertion that fails ends the node.                                     *)
ReadNextObject ==
    /\ stage = "wire"
    /\ consumed < PayloadLength
    /\ LET head == wire.payload[at]
           length == head.v.length
           type == Decode(ObjectCode, head.v.type)
           end == ContentEnd(wire.payload, at, length)
           fields == SubSeq(wire.payload, at + 1, end)
           bad == \/ head.w # 3
                  \/ consumed + 3 + length > PayloadLength
                  \/ ContentEnds(wire.payload, at, length) = {}
                  \/ Malformed(type, length, fields)
                  \/ ~Aligned(type, fields)
       IN  IF bad
           THEN stage' = "rejected" /\ UNCHANGED <<at, consumed, parsed>>
           ELSE IF AssertionFails(type, fields)
                THEN stage' = "panicked" /\ UNCHANGED <<at, consumed, parsed>>
                ELSE /\ parsed' = ReadObject(parsed, type, fields)
                     /\ at' = end + 1
                     /\ consumed' = consumed + 3 + length
                     /\ UNCHANGED stage
    /\ UNCHANGED <<origin, message, wire, visited>>

(* The end of the deserialize functions.                                   *)
Deserialized ==
    /\ stage = "wire"
    /\ consumed >= PayloadLength
    /\ LET kind == Decode(KindCode, wire.kind)
       IN  IF Incomplete(kind, parsed)
           THEN stage' = "rejected" /\ UNCHANGED message
           ELSE /\ message' = Assembled(kind, wire.header, parsed)
                /\ stage' = "read"
    /\ UNCHANGED <<origin, wire, at, consumed, parsed, visited>>

(* handle_forwarding: the node is the current hop and there is a next one. *)
Forward ==
    /\ stage = "read"
    /\ Routed(message)
    /\ CurrentHop(message.route) = Last(visited)
    /\ ~Finished(message.route)
    /\ message' = [message EXCEPT !.route = Advance(@)]
    /\ stage' = "memory"
    /\ UNCHANGED <<origin, wire, at, consumed, parsed, visited>>

(* An overlay hop that is not the destination sends the request on by the  *)
(* path of a closer contact, which is appended to the route.               *)
ForwardOverlay ==
    /\ stage = "read"
    /\ message.kind \in {"FindNodeReq", "StoreReq", "FetchReq"}
    /\ Finished(message.route)
    /\ CurrentHop(message.route) # message.header.dest
    /\ \E path \in OverlayPaths :
          /\ Len(message.route.ids) + Len(path) <= MaxHops
          /\ path[1] # CurrentHop(message.route)
          /\ message' = [message EXCEPT !.route = Advance(Extend(@, path))]
    /\ stage' = "memory"
    /\ UNCHANGED <<origin, wire, at, consumed, parsed, visited>>

(* The node a probe is for answers it; the answer is a message of its own. *)
Answer ==
    /\ stage = "read"
    /\ message.kind = "ProbeReq"
    /\ Finished(message.route)
    /\ message' = [kind |-> "ProbeRsp",
                   header |-> [message.header EXCEPT !.dest = Source(message),
                                                     !.src = CurrentHop(message.route)],
                   route |-> FromReversed(message.route), notVia |-> None, data |-> None]
    /\ origin' = message'
    /\ visited' = <<CurrentHop(message.route)>>
    /\ stage' = "memory"
    /\ UNCHANGED <<wire, at, consumed, parsed>>

(* An error for the sender replaces a message whose next hop is gone: it   *)
(* goes back from the middle of the route (handle_next_hop_failed).        *)
NextHopFailed ==
    /\ stage = "read"
    /\ Routed(message)
    /\ message.kind # "UpdateRouteReq"
    /\ ~Finished(message.route)
    /\ LET me == CurrentHop(message.route)
           next == message.route.ids[message.route.progress + 2]
       IN  /\ message' = [kind |-> "Error",
                          header |-> [message.header EXCEPT !.dest = Source(message),
                                                            !.src = me],
                          route |-> FromReversed(message.route), notVia |-> None,
                          data |-> [kind |-> "SegmentFailure", source |-> me,
                                    link |-> Link(me, next)]]
           /\ visited' = <<me>>
    /\ origin' = message'
    /\ stage' = "memory"
    /\ UNCHANGED <<wire, at, consumed, parsed>>

Deliver ==
    /\ stage = "read"
    /\ Routed(message) => Finished(message.route)
    /\ stage' = "delivered"
    /\ UNCHANGED <<origin, message, wire, at, consumed, parsed, visited>>

Next ==
    \/ Serialize
    \/ ReadNextObject
    \/ Deserialized
    \/ Forward
    \/ ForwardOverlay
    \/ Answer
    \/ NextHopFailed
    \/ Deliver

Spec == Init /\ [][Next]_vars

-----------------------------------------------------------------------------
(* What a reader is to get of a message: the ages of the links to avoid    *)
(* are not sent, no list and an empty list are the same, and a radius      *)
(* saturates.  Everything else arrives as it was made.                     *)
Received(m) ==
    [m EXCEPT !.notVia = CASE ~Routed(m) -> None
                           [] Routed(m) /\ m.notVia = None -> {}
                           [] OTHER -> {[e EXCEPT !.age = 0] : e \in m.notVia},
              !.data = IF m.kind = "FindNodeReq" /\ m.data > MaxU8 THEN MaxU8 ELSE m.data]

(* However many nodes have read a message and written it again, the node   *)
(* that reads it gets what its origin made, apart from the route, which    *)
(* grows at overlay hops, and from what the format does not carry.         *)
ArrivesUnchanged ==
    stage \in {"read", "delivered"} =>
        [message EXCEPT !.route = None] = [Received(origin) EXCEPT !.route = None]

(* What a node agrees to write, every reader takes: no length computed     *)
(* apart from the fields, no 16-bit limit and no order of the objects      *)
(* makes a reader refuse the message or fail an assertion.                 *)
ReaderAcceptsWriter == stage \notin {"rejected", "panicked"}

(* The route names the nodes that have really held the message, in their   *)
(* order, and its index stands at the node that holds it: what the route's *)
(* reversal, the learning of paths and the next forwarding rest on.        *)
RouteWasTravelled ==
    (stage \in {"read", "delivered"} /\ Routed(message)) =>
        visited = SubSeq(message.route.ids, 1, message.route.progress + 1)

=============================================================================
