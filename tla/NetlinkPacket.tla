--------------------------- MODULE NetlinkPacket ---------------------------
(***************************************************************************)
(* The generic NetlinkMessage of netlink-packet                            *)
(* (netlink-packet/src/packets/netlink/message.rs), built with the         *)
(* rtnetlink feature: a header, a NetlinkPayload (Done, Noop, Error, Ack,  *)
(* Overrun or Rtnl(RtnlMessage)) and the `finalized` gate, driven by a     *)
(* caller that constructs, parses, mutates, finalizes and serialises one   *)
(* message in any order.                                                   *)
(*                                                                         *)
(* The RtnlMessage enum is in rtnetlink/src/packets/rtnl/message.rs; its   *)
(* message_type, buffer_len, emit and parse are not in this tree and      *)
(* follow the dispatch table of the specification (4.5).  Link messages   *)
(* are encoded by RtnlCodec.  netlink-packet's NetlinkBuffer is not in     *)
(* this tree either; it is the audit crate's, modelled in NetlinkWire.     *)
(*                                                                         *)
(* A panic is recorded in `fault` and ends the behaviour.  So does        *)
(* finalize on Rtnl(Other): the code of RtnlMessage::message_type for     *)
(* Other is not in this tree and the specification gives Other no code.   *)
(***************************************************************************)
EXTENDS RtnlCodec

CONSTANTS
    Inputs,       \* byte strings handed to NetlinkMessage::from_bytes
    Payloads,     \* NetlinkPayload values handed to From, new and payload_mut
    Headers,      \* NetlinkHeader values handed to NetlinkMessage::new
    BufLens,      \* lengths of the storage handed to to_bytes
    HeaderEdits,  \* [field, value] pairs written through header_mut
    Garbage       \* content of caller storage before to_bytes writes it

VARIABLES
    msg,    \* the caller's NetlinkMessage
    wire,   \* the storage of the last successful to_bytes of msg, if any
    fault,  \* "none", the operation that panicked, or "unspecified"
    dirty   \* history: msg was mutated after it was last finalized or parsed

vars == <<msg, wire, fault, dirty>>

-----------------------------------------------------------------------------
(* netlink-packet/src/constants.rs, rtnl: the link message types. *)
RTM_NEWLINK == 16
RTM_DELLINK == 17
RTM_GETLINK == 18
RTM_SETLINK == 19
RTM_NEWNEIGH == 28
RTM_GETNEIGH == 30

(* LinkMessage::new(): a zeroed LinkHeader and no NLAs (spec S3). *)
DefaultLink ==
    [header |-> [address_family |-> 0, link_layer_type |-> 0, index |-> 0,
                 flags |-> 0, change_mask |-> 0],
     nlas |-> <<>>]

(* NeighbourMessage with a zeroed header and no NLAs. *)
NoNeighbour ==
    [header |-> [family |-> 0, ifindex |-> 0, state |-> 0, flags |-> 0, ntype |-> 0],
     nlas |-> <<>>]

(* RtnlMessage: the link variants carry a LinkMessage, the neighbour      *)
(* variants a NeighbourMessage, Other its bytes.  The enum has no         *)
(* DelNeighbour.                                                           *)
LinkVariants == {"NewLink", "DelLink", "GetLink", "SetLink"}
NeighbourVariants == {"NewNeighbour", "GetNeighbour"}

Rtnl(variant, link, bytes) ==
    [variant |-> variant, link |-> link, neighbour |-> NoNeighbour, bytes |-> bytes]

RtnlNeighbour(variant, n) == [Rtnl(variant, DefaultLink, <<>>) EXCEPT !.neighbour = n]

(* The dispatch table of the specification (4.5), rows of the variants   *)
(* the enum has.                                                           *)
RtmCode == [NewLink |-> RTM_NEWLINK, DelLink |-> RTM_DELLINK,
            GetLink |-> RTM_GETLINK, SetLink |-> RTM_SETLINK,
            NewNeighbour |-> RTM_NEWNEIGH, GetNeighbour |-> RTM_GETNEIGH]

(* Defect for mutation analysis: GetLink given RTM_NEWLINK's code. *)
RtnlMessageTypeGetAsNew(r) ==
    IF r.variant = "GetLink" THEN RTM_NEWLINK ELSE RtmCode[r.variant]

RtnlMessageType(r) == RtmCode[r.variant]

RtnlBytes(r) ==
    CASE r.variant \in LinkVariants -> LinkMessageEmit(r.link)
      [] r.variant \in NeighbourVariants -> NeighbourMessageEmit(r.neighbour)
      [] OTHER -> r.bytes

(* RtnlMessage::parse(message_type, payload): a family message needs its  *)
(* fixed header (LinkBuffer / NeighbourBuffer new_checked), any other code *)
(* is Other.                                                               *)
RtnlParse(t, p) ==
    LET v == CHOOSE v \in DOMAIN RtmCode : RtmCode[v] = t
        Family(hlen, Parse(_), Wrap(_)) ==
            IF Len(p) < hlen THEN [err |-> "Truncated"]
            ELSE LET f == Parse(p)
                 IN  IF f.err # "none" THEN [err |-> f.err]
                     ELSE [err |-> "none", r |-> Wrap(f.msg)]
        AsLink(m) == Rtnl(v, m, <<>>)
        AsNeighbour(m) == RtnlNeighbour(v, m)
    IN  CASE t \notin {RtmCode[u] : u \in DOMAIN RtmCode}
               -> [err |-> "none", r |-> Rtnl("Other", DefaultLink, p)]
          [] v \in LinkVariants -> Family(LINK_HEADER_LEN, LinkMessageParse, AsLink)
          [] OTHER -> Family(NEIGHBOUR_HEADER_LEN, NeighbourMessageParse, AsNeighbour)

-----------------------------------------------------------------------------
(* NetlinkPayload.  `bytes` is Overrun's Vec<u8>, `err` the ErrorMessage  *)
(* of Error and Ack, `rtnl` the RtnlMessage of Rtnl.                       *)
NoError == [code |-> 0, header |-> DefaultHeader]
NoRtnl == Rtnl("Other", DefaultLink, <<>>)

NetlinkPayload(k, bytes, err, rtnl) ==
    [kind |-> k, bytes |-> bytes, err |-> err, rtnl |-> rtnl]

(* NetlinkPayload::is_done, is_error, is_ack and is_rtnl, and             *)
(* RtnlMessage::is_new_link.                                               *)
IsDone(p) == p.kind = "Done"
IsError(p) == p.kind = "Error"
IsAck(p) == p.kind = "Ack"
IsRtnl(p) == p.kind = "Rtnl"
IsNewLink(r) == r.variant = "NewLink"

IsErrorKind(p) == IsError(p) \/ IsAck(p)

(* NetlinkMessage::is_done, is_error and is_ack: those of the payload. *)
MessageIsDone(m) == IsDone(m.payload)
MessageIsError(m) == IsError(m.payload)
MessageIsAck(m) == IsAck(m.payload)

(* NetlinkPayload::message_type *)
PayloadMessageType(p) ==
    CASE p.kind = "Noop" -> NLMSG_NOOP
      [] p.kind = "Done" -> NLMSG_DONE
      [] IsErrorKind(p) -> NLMSG_ERROR
      [] p.kind = "Overrun" -> NLMSG_OVERRUN
      [] p.kind = "Rtnl" -> RtnlMessageType(p.rtnl)

(* From<NetlinkPayload> / From<RtnlMessage> for NetlinkMessage *)
From(p) == [header |-> DefaultHeader, payload |-> p, finalized |-> FALSE]

(* Emitable for NetlinkMessage: the bytes after the header, and when emit  *)
(* panics: header emit into less than 16 bytes, Overrun's copy_from_slice  *)
(* into a tail of another length, an error body or a link message into a   *)
(* shorter tail.                                                           *)
PayloadBytes(p) ==
    CASE p.kind \in {"Noop", "Done"} -> <<>>
      [] p.kind = "Overrun" -> p.bytes
      [] IsErrorKind(p) -> ErrorBytes(p.err)
      [] p.kind = "Rtnl" -> RtnlBytes(p.rtnl)

BufferLen(m) == NETLINK_HEADER_LEN + Len(PayloadBytes(m.payload))

EmitPanics(m, l) ==
    LET tail == l - NETLINK_HEADER_LEN IN
    \/ l < NETLINK_HEADER_LEN
    \/ m.payload.kind = "Overrun" /\ tail # Len(m.payload.bytes)
    \/ tail < Len(PayloadBytes(m.payload))

Emit(m, storage) ==
    WriteAt(WriteAt(storage, 0, HeaderBytes(m.header)),
            NETLINK_HEADER_LEN, PayloadBytes(m.payload))

-----------------------------------------------------------------------------
(* Parseable<NetlinkMessage> for NetlinkBuffer after new_checked.  NOOP    *)
(* and DONE ignore the payload; ERROR and the catch-all call payload(),    *)
(* which panics when the length field is below 16; NLMSG_OVERRUN has no    *)
(* arm and goes to the rtnetlink parser.                                   *)
FromBytes(b) ==
    LET h == ParseHeader(b)
        t == h.message_type
        Parsed(p) == [res |-> "Ok",
                      msg |-> [header |-> h, payload |-> p, finalized |-> TRUE]]
        Failed(r) == [res |-> r]
        r == RtnlParse(t, Payload(b))
    IN  IF ~CheckBufferLength(b) THEN Failed("Truncated")
        ELSE IF t = NLMSG_NOOP THEN Parsed(NetlinkPayload("Noop", <<>>, NoError, NoRtnl))
        ELSE IF t = NLMSG_DONE THEN Parsed(NetlinkPayload("Done", <<>>, NoError, NoRtnl))
        ELSE IF PayloadPanics(b) THEN Failed("Panic")
        ELSE IF t = NLMSG_ERROR
          THEN IF ErrorTruncated(Payload(b)) THEN Failed("Truncated")
               ELSE LET e == ParseError(Payload(b))
                    IN  Parsed(NetlinkPayload(IF e.code >= 0 THEN "Ack" ELSE "Error",
                                              <<>>, e, NoRtnl))
        ELSE IF r.err # "none" THEN Failed(r.err)
        ELSE Parsed(NetlinkPayload("Rtnl", <<>>, NoError, r.r))

(* NetlinkMessage::finalize: length and message type from the payload. *)
Finalized(m) ==
    [m EXCEPT !.header.length = BufferLen(m),
              !.header.message_type = PayloadMessageType(m.payload),
              !.finalized = TRUE]

(* NetlinkMessage::to_bytes into storage of length l. *)
ToBytesResult(m, l) ==
    LET storage == [i \in 1 .. l |-> Garbage]
    IN  IF ~m.finalized THEN [res |-> "Malformed"]
        ELSE IF m.header.length > l THEN [res |-> "Exhausted"]
        ELSE IF EmitPanics(m, l) THEN [res |-> "Panic"]
        ELSE [res |-> "Ok", n |-> m.header.length, bytes |-> Emit(m, storage)]

-----------------------------------------------------------------------------
NoWire == [n |-> 0, bytes |-> <<>>]

Init ==
    /\ msg \in {From(p) : p \in Payloads}
    /\ wire = NoWire
    /\ fault = "none"
    /\ dirty = FALSE

(* NetlinkMessage::from(payload) replaces the caller's message. *)
Construct(p) ==
    /\ msg' = From(p)
    /\ wire' = NoWire
    /\ dirty' = FALSE
    /\ UNCHANGED fault

(* NetlinkMessage::new(header, payload): a message not yet finalized. *)
New(h, p) ==
    /\ msg' = [header |-> h, payload |-> p, finalized |-> FALSE]
    /\ wire' = NoWire
    /\ dirty' = FALSE
    /\ UNCHANGED fault

(* NetlinkMessage::from_bytes.  A call that returns Err changes nothing,   *)
(* which is a stuttering step; only Ok and a panic are steps of Next.      *)
ParseBytes(b) ==
    LET r == FromBytes(b) IN
    \/ r.res = "Ok" /\ msg' = r.msg /\ wire' = NoWire /\ dirty' = FALSE
         /\ UNCHANGED fault
    \/ r.res = "Panic" /\ fault' = "from_bytes" /\ UNCHANGED <<msg, wire, dirty>>

Finalize ==
    \/ msg.payload.kind = "Rtnl" /\ msg.payload.rtnl.variant = "Other"
         /\ fault' = "unspecified" /\ UNCHANGED <<msg, wire, dirty>>
    \/ ~(msg.payload.kind = "Rtnl" /\ msg.payload.rtnl.variant = "Other")
         /\ msg' = Finalized(msg) /\ wire' = NoWire /\ dirty' = FALSE
         /\ UNCHANGED fault

(* header_mut() followed by one of NetlinkHeader's setters. *)
HeaderMut(e) ==
    /\ msg' = [msg EXCEPT !.header = SetHeaderField(@, e.field, e.value)]
    /\ wire' = NoWire
    /\ dirty' = TRUE
    /\ UNCHANGED fault

(* *payload_mut() = p *)
PayloadMut(p) ==
    /\ msg' = [msg EXCEPT !.payload = p]
    /\ wire' = NoWire
    /\ dirty' = TRUE
    /\ UNCHANGED fault

(* to_bytes.  Malformed and Exhausted leave everything as it was, a       *)
(* stuttering step.                                                        *)
ToBytes(l) ==
    LET r == ToBytesResult(msg, l) IN
    \/ r.res = "Ok" /\ wire' = [n |-> r.n, bytes |-> r.bytes]
         /\ UNCHANGED <<msg, fault, dirty>>
    \/ r.res = "Panic" /\ fault' = "to_bytes" /\ UNCHANGED <<msg, wire, dirty>>

Next ==
    /\ fault = "none"
    /\ \/ \E p \in Payloads : Construct(p)
       \/ \E h \in Headers, p \in Payloads : New(h, p)
       \/ \E b \in Inputs : ParseBytes(b)
       \/ Finalize
       \/ \E e \in HeaderEdits : HeaderMut(e)
       \/ \E p \in Payloads : PayloadMut(p)
       \/ \E l \in BufLens : ToBytes(l)

Spec == Init /\ [][Next]_vars

-----------------------------------------------------------------------------
(* Emit then parse, through the rtnetlink dispatch: when to_bytes          *)
(* succeeds on a message not mutated since it was finalized or parsed,    *)
(* and whose length covers the header, from_bytes of the reported bytes    *)
(* gives back the same header and the same payload.                        *)
EmitParseInverse ==
    wire # NoWire /\ ~dirty /\ msg.header.length >= NETLINK_HEADER_LEN =>
        LET r == FromBytes(SubSeq(wire.bytes, 1, wire.n))
        IN  /\ r.res = "Ok"
            /\ r.msg.header = msg.header
            /\ r.msg.payload = msg.payload

-----------------------------------------------------------------------------
(* The lifecycle of the message (spec 4.7) seen through the code's state:  *)
(* a message whose last to_bytes result is still current is Serialized.   *)
(* Otherwise the `finalized` flag tells Finalized from Fresh, and a        *)
(* mutation since the last finalize or parse (the history variable         *)
(* `dirty`) counts as a return to Fresh, which is what the specification   *)
(* asks.                                                                   *)
SpecState ==
    IF wire # NoWire THEN "Serialized"
    ELSE IF ~msg.finalized \/ dirty THEN "Fresh" ELSE "Finalized"

Specified == INSTANCE MessageLifecycle WITH state <- SpecState, MutationResets <- TRUE

(* The lifecycle of the specification (4.7): after header_mut or           *)
(* payload_mut a message must be finalized again before to_bytes may       *)
(* serialise it.                                                           *)
SpecifiedLifecycle == Specified!Spec

=============================================================================
