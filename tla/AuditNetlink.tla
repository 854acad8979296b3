---------------------------- MODULE AuditNetlink ----------------------------
(***************************************************************************)
(* The NetlinkMessage of the audit crate                                   *)
(* (audit/src/packets/netlink/message.rs): a header, an AuditMessage      *)
(* payload and the `finalized` gate, driven by a caller that constructs,  *)
(* parses, mutates, finalizes and serialises one message in any order.    *)
(*                                                                         *)
(* A panic of the library is recorded in `fault` and ends the behaviour:   *)
(* the calling thread unwinds and the message is gone.                     *)
(***************************************************************************)
EXTENDS NetlinkWire, FiniteSets

CONSTANTS
    Inputs,       \* byte strings handed to NetlinkMessage::from_bytes
    Payloads,     \* AuditMessage values handed to From and message_mut
    BufLens,      \* lengths of the storage handed to to_bytes
    HeaderEdits,  \* [field, value] pairs written through header_mut
    Garbage       \* content of caller storage before to_bytes writes it

ASSUME Garbage \in Byte /\ BufLens \subseteq Nat

VARIABLES
    msg,     \* the caller's NetlinkMessage
    last,    \* the operation last called and what it returned
    wire,    \* the caller storage, when the last call was to_bytes
    fault,   \* "none", or the operation that panicked
    origin,  \* history: the bytes msg was parsed from, <<>> once it changed
    stale    \* history: msg was mutated after it was last finalized or parsed

vars == <<msg, last, wire, fault, origin, stale>>

-----------------------------------------------------------------------------
(* AuditMessage.  `bytes` is the Vec<u8> of Overrun and Other, `err` the   *)
(* ErrorMessage of Error and Ack; the other field is unused.              *)
Kinds == {"Done", "Noop", "Overrun", "Other", "Error", "Ack"}

NoError == [code |-> 0, header |-> DefaultHeader]

AuditDone == [kind |-> "Done", bytes |-> <<>>, err |-> NoError]
AuditNoop == [kind |-> "Noop", bytes |-> <<>>, err |-> NoError]
AuditOverrun(bs) == [kind |-> "Overrun", bytes |-> bs, err |-> NoError]
AuditOther(bs) == [kind |-> "Other", bytes |-> bs, err |-> NoError]
AuditError(e) == [kind |-> "Error", bytes |-> <<>>, err |-> e]
AuditAck(e) == [kind |-> "Ack", bytes |-> <<>>, err |-> e]

IsErrorKind(p) == p.kind \in {"Error", "Ack"}
IsBytesKind(p) == p.kind \in {"Overrun", "Other"}

(* From<AuditMessage> for NetlinkMessage *)
From(p) == [header |-> DefaultHeader, message |-> p, finalized |-> FALSE]

(* Emitable::buffer_len for NetlinkMessage *)
PayloadLen(p) ==
    CASE p.kind \in {"Noop", "Done"} -> 0
      [] IsBytesKind(p)              -> Len(p.bytes)
      [] IsErrorKind(p)              -> ERROR_LEN

BufferLen(m) == NETLINK_HEADER_LEN + PayloadLen(m.message)

(* Defect for mutation analysis: Noop given NLMSG_DONE's code. *)
AuditMessageTypeNoopAsDone(p) ==
    CASE p.kind \in {"Noop", "Done"} -> NLMSG_DONE
      [] p.kind \in {"Error", "Ack"} -> NLMSG_ERROR
      [] p.kind = "Overrun" -> NLMSG_OVERRUN

(* The message type finalize() derives from the payload; Other has none   *)
(* (unimplemented!()).                                                     *)
AuditMessageType(p) ==
    CASE p.kind = "Noop"  -> NLMSG_NOOP
      [] p.kind = "Done"  -> NLMSG_DONE
      [] IsErrorKind(p)   -> NLMSG_ERROR
      [] p.kind = "Overrun" -> NLMSG_OVERRUN

(* Emitable::emit for NetlinkMessage: what it writes after the header,    *)
(* and when it panics: header.emit on storage shorter than 16 bytes,       *)
(* copy_from_slice into a tail of another length, ErrorMessage::emit into  *)
(* a tail shorter than its 20 bytes.                                       *)
PayloadBytes(p) ==
    CASE p.kind \in {"Noop", "Done"} -> <<>>
      [] IsBytesKind(p)              -> p.bytes
      [] IsErrorKind(p)              -> ErrorBytes(p.err)

EmitPanics(m, l) ==
    \/ l < NETLINK_HEADER_LEN
    \/ IsBytesKind(m.message) /\ l - NETLINK_HEADER_LEN # Len(m.message.bytes)
    \/ IsErrorKind(m.message) /\ l - NETLINK_HEADER_LEN < ERROR_LEN

Emit(m, storage) ==
    WriteAt(WriteAt(storage, 0, HeaderBytes(m.header)),
            NETLINK_HEADER_LEN, PayloadBytes(m.message))

-----------------------------------------------------------------------------
(* NetlinkMessage::from_bytes: new_checked, then Parseable<NetlinkMessage>.*)
(* Only NLMSG_ERROR and the catch-all arm touch payload(); NOOP and DONE   *)
(* ignore it, and NLMSG_OVERRUN falls into the catch-all arm.              *)
Unparsed == From(AuditDone)

FromBytes(b) ==
    LET h == ParseHeader(b)
        Parsed(p) == [res |-> "Ok",
                      msg |-> [header |-> h, message |-> p, finalized |-> TRUE]]
        Failed(r) == [res |-> r, msg |-> Unparsed]
    IN  IF ~CheckBufferLength(b) THEN Failed("Truncated")
        ELSE IF h.message_type = NLMSG_NOOP THEN Parsed(AuditNoop)
        ELSE IF h.message_type = NLMSG_DONE THEN Parsed(AuditDone)
        ELSE IF PayloadPanics(b) THEN Failed("Panic")
        ELSE IF h.message_type # NLMSG_ERROR THEN Parsed(AuditOther(Payload(b)))
        ELSE IF ErrorTruncated(Payload(b)) THEN Failed("Truncated")
        ELSE LET e == ParseError(Payload(b))
             IN  Parsed(IF e.code >= 0 THEN AuditAck(e) ELSE AuditError(e))

(* NetlinkMessage::finalize: length and message type from the payload. *)
Finalized(m) ==
    [m EXCEPT !.header.length = BufferLen(m),
              !.header.message_type = AuditMessageType(m.message),
              !.finalized = TRUE]

(* Defect for mutation analysis: to_bytes without the Exhausted test. *)
ToBytesResultUnchecked(m, l) ==
    LET storage == [i \in 1 .. l |-> Garbage]
    IN  IF ~m.finalized
        THEN [res |-> "Malformed", n |-> 0, bytes |-> storage, written |-> {}]
        ELSE IF EmitPanics(m, l)
        THEN [res |-> "Panic", n |-> 0, bytes |-> storage, written |-> {}]
        ELSE [res |-> "Ok", n |-> m.header.length,
              bytes |-> Emit(m, storage),
              written |-> 1 .. NETLINK_HEADER_LEN + PayloadLen(m.message)]

(* NetlinkMessage::to_bytes into storage of length l. *)
ToBytesResult(m, l) ==
    LET storage == [i \in 1 .. l |-> Garbage]
        Err(r) == [res |-> r, n |-> 0, bytes |-> storage, written |-> {}]
    IN  IF ~m.finalized THEN Err("Malformed")
        ELSE IF m.header.length > l THEN Err("Exhausted")
        ELSE IF EmitPanics(m, l) THEN Err("Panic")
        ELSE [res |-> "Ok", n |-> m.header.length,
              bytes |-> Emit(m, storage),
              written |-> 1 .. NETLINK_HEADER_LEN + PayloadLen(m.message)]

-----------------------------------------------------------------------------
NoWire == [res |-> "none", n |-> 0, bytes |-> <<>>, written |-> {}]

Init ==
    /\ msg \in {From(p) : p \in Payloads}
    /\ last = [op |-> "new", res |-> "Ok"]
    /\ wire = NoWire
    /\ fault = "none"
    /\ origin = <<>>
    /\ stale = FALSE

(* NetlinkMessage::from(AuditMessage) replaces the caller's message. *)
Construct(p) ==
    /\ msg' = From(p)
    /\ last' = [op |-> "from", res |-> "Ok"]
    /\ origin' = <<>>
    /\ stale' = FALSE
    /\ wire' = NoWire
    /\ UNCHANGED fault

(* NetlinkMessage::from_bytes; on Err the caller keeps its message. *)
ParseBytes(b) ==
    LET r == FromBytes(b) IN
    /\ last' = [op |-> "from_bytes", res |-> r.res]
    /\ IF r.res = "Panic" THEN fault' = "from_bytes" ELSE UNCHANGED fault
    /\ IF r.res = "Ok"
         THEN msg' = r.msg /\ origin' = b /\ stale' = FALSE
         ELSE UNCHANGED <<msg, origin, stale>>
    /\ wire' = NoWire

Finalize ==
    /\ last' = [op |-> "finalize", res |-> "Ok"]
    /\ IF msg.message.kind = "Other"
         THEN fault' = "finalize" /\ UNCHANGED <<msg, stale>>
         ELSE msg' = Finalized(msg) /\ stale' = FALSE /\ UNCHANGED fault
    /\ wire' = NoWire
    /\ UNCHANGED origin

(* header_mut() followed by one of NetlinkHeader's setters. *)
HeaderMut(e) ==
    /\ msg' = [msg EXCEPT !.header = SetHeaderField(@, e.field, e.value)]
    /\ last' = [op |-> "header_mut", res |-> "Ok"]
    /\ origin' = <<>>
    /\ stale' = TRUE
    /\ wire' = NoWire
    /\ UNCHANGED fault

(* *message_mut() = p *)
MessageMut(p) ==
    /\ msg' = [msg EXCEPT !.message = p]
    /\ last' = [op |-> "message_mut", res |-> "Ok"]
    /\ origin' = <<>>
    /\ stale' = TRUE
    /\ wire' = NoWire
    /\ UNCHANGED fault

ToBytes(l) ==
    LET r == ToBytesResult(msg, l) IN
    /\ last' = [op |-> "to_bytes", res |-> r.res]
    /\ IF r.res = "Panic"
         THEN fault' = "to_bytes" /\ wire' = NoWire
         ELSE wire' = r /\ UNCHANGED fault
    /\ UNCHANGED <<msg, origin, stale>>

Next ==
    /\ fault = "none"
    /\ \/ \E p \in Payloads : Construct(p)
       \/ \E b \in Inputs : ParseBytes(b)
       \/ Finalize
       \/ \E e \in HeaderEdits : HeaderMut(e)
       \/ \E p \in Payloads : MessageMut(p)
       \/ \E l \in BufLens : ToBytes(l)

Spec == Init /\ [][Next]_vars

-----------------------------------------------------------------------------
(***************************************************************************)
(* Properties.                                                            *)
(***************************************************************************)
Headers == [length : Nat, message_type : Nat, flags : Nat,
            sequence_number : Nat, port_number : Nat]

AuditMessages == [kind : Kinds, bytes : Seq(Byte),
             err : [code : Int, header : Headers]]

Messages == [header : Headers, message : AuditMessages, finalized : BOOLEAN]

Results == {"none", "Ok", "Truncated", "Malformed", "Exhausted", "Panic"}

(* Every variable has its type, and to_bytes never reports more bytes than *)
(* the storage it was given.                                               *)
TypeOK ==
    /\ msg \in Messages
    /\ last \in [op : {"new", "from", "from_bytes", "finalize", "header_mut",
                       "message_mut", "to_bytes"}, res : Results]
    /\ wire.res \in Results
    /\ wire.bytes \in Seq(Byte)
    /\ wire.n \in 0 .. Len(wire.bytes)
    /\ wire.written \subseteq 1 .. Len(wire.bytes)
    /\ fault \in {"none", "from_bytes", "finalize", "to_bytes"}
    /\ origin \in Seq(Byte)
    /\ stale \in BOOLEAN

(* A datagram that satisfies the data model: the declared length covers   *)
(* the header and is the storage length, and DONE/NOOP carry no body and  *)
(* ERROR exactly a code and a header.                                      *)
WellFormed(b) ==
    /\ Len(b) >= NETLINK_HEADER_LEN
    /\ ReadU32(b, 0) = Len(b)
    /\ LET t == ReadU16(b, 4)
           body == Len(b) - NETLINK_HEADER_LEN
       IN  /\ t \in {NLMSG_NOOP, NLMSG_DONE} => body = 0
           /\ t = NLMSG_ERROR => body = ERROR_LEN

(* Round trip (parse, then optionally finalize, then to_bytes): when the  *)
(* message came unmodified from a well-formed datagram and to_bytes       *)
(* succeeds, the bytes it reports are exactly that datagram.               *)
RoundTrip ==
    wire.res = "Ok" /\ WellFormed(origin) =>
        SubSeq(wire.bytes, 1, wire.n) = origin

(* Emit then parse: when to_bytes succeeds on a message that was not      *)
(* mutated since it was finalized or parsed, and whose header length      *)
(* covers the header, from_bytes of the reported bytes gives back the same *)
(* header and the same payload variant and contents.                       *)
EmitParseInverse ==
    wire.res = "Ok" /\ ~stale /\ msg.header.length >= NETLINK_HEADER_LEN =>
        LET r == FromBytes(SubSeq(wire.bytes, 1, wire.n))
        IN  /\ r.res = "Ok"
            /\ r.msg.header = msg.header
            /\ r.msg.message = msg.message

NoPanicFromBytes == fault # "from_bytes"

(* finalize does not panic on a message from_bytes returned and nothing  *)
(* has changed since: it gives the payload its message type, including     *)
(* the Other payload from_bytes returns for an audit command such as       *)
(* AUDIT_SET (spec S5: parse, finalize, re-emit).                          *)
NoPanicFinalize == fault = "finalize" => origin = <<>>

(* to_bytes does not panic: a too-small destination is Exhausted, and any *)
(* destination of at least buffer_len() bytes is accepted.                 *)
NoPanicToBytes == fault # "to_bytes"

=============================================================================
