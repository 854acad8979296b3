---------------------------- MODULE NetlinkWire ----------------------------
(***************************************************************************)
(* Byte layout of a netlink message and of the NLMSG_ERROR body, as read  *)
(* and written by NetlinkBuffer (audit/src/packets/netlink/buffer.rs) and *)
(* NetlinkHeader (audit/src/packets/netlink/header.rs).  A byte string is *)
(* a sequence of naturals below 256; offsets are the code's 0-based ones. *)
(* The host is little-endian (byteorder::NativeEndian on x86/arm).        *)
(*                                                                         *)
(* u32 fields are decoded arithmetically, which TLC can do below 2^31:     *)
(* every u32 field of every input has a top byte below 128.  The i32 code  *)
(* of an NLMSG_ERROR body is decoded as two's complement.                  *)
(***************************************************************************)
EXTENDS Integers, Sequences

Byte == 0 .. 255

(* NativeEndian::write_u16 / write_u32 of a value v >= 0. *)
LE(v, w) == [i \in 1 .. w |-> (v \div (256 ^ (i - 1))) % 256]

(* NativeEndian::write_i32: two's complement, computed without 2^32. *)
I32Bytes(c) ==
    IF c >= 0 THEN LE(c, 4)
    ELSE [LE((c + 2147483647) + 1, 4) EXCEPT ![4] = @ + 128]

ReadU16(b, off) == b[off + 1] + 256 * b[off + 2]

ReadU32(b, off) ==
    b[off + 1] + 256 * b[off + 2] + 65536 * b[off + 3] + 16777216 * b[off + 4]

ReadI32(b, off) ==
    IF b[off + 4] < 128 THEN ReadU32(b, off)
    ELSE (b[off + 1] + 256 * b[off + 2] + 65536 * b[off + 3]
            + 16777216 * (b[off + 4] - 128)) - 2147483647 - 1

(* bytes [off, off + Len(src)) of buf replaced by src; the caller has     *)
(* checked that they fit.                                                  *)
WriteAt(buf, off, src) ==
    [i \in 1 .. Len(buf) |->
        IF off < i /\ i <= off + Len(src) THEN src[i - off] ELSE buf[i]]

-----------------------------------------------------------------------------
(* The 16-byte netlink header: the offsets at which each field starts,     *)
(* and PAYLOAD 16.. after them.                                            *)
LENGTH == 0
MESSAGE_TYPE == 4
FLAGS == 6
SEQUENCE_NUMBER == 8
PORT_NUMBER == 12

NETLINK_HEADER_LEN == 16

(* The getters of NetlinkBuffer, each a native-endian read of its field. *)
BufferLength(b) == ReadU32(b, LENGTH)
BufferMessageType(b) == ReadU16(b, MESSAGE_TYPE)
BufferFlags(b) == ReadU16(b, FLAGS)
BufferSequenceNumber(b) == ReadU32(b, SEQUENCE_NUMBER)
BufferPortNumber(b) == ReadU32(b, PORT_NUMBER)

(* NLMSG_* message types of the frozen constant table. *)
NLMSG_NOOP == 1
NLMSG_ERROR == 2
NLMSG_DONE == 3
NLMSG_OVERRUN == 4

(* NetlinkHeader::default() *)
DefaultHeader ==
    [length |-> 0, message_type |-> 0, flags |-> 0,
     sequence_number |-> 0, port_number |-> 0]

(* NetlinkHeader::new(length, message_type, flags, sequence_number,       *)
(* port_number)                                                            *)
NetlinkHeaderNew(length, message_type, flags, sequence_number, port_number) ==
    [length |-> length, message_type |-> message_type, flags |-> flags,
     sequence_number |-> sequence_number, port_number |-> port_number]

(* NetlinkBuffer::check_buffer_length, the test of new_checked: the       *)
(* storage must hold the five header fields and the declared length.  It   *)
(* does not require the declared length to cover the header.               *)
CheckBufferLength(b) ==
    ~(Len(b) < PORT_NUMBER + 4 \/ Len(b) < BufferLength(b))

(* NetlinkBuffer::payload: the slice 16..length, which panics when the    *)
(* declared length is below the header size (start > end).                *)
PayloadPanics(b) == BufferLength(b) < NETLINK_HEADER_LEN

Payload(b) == SubSeq(b, NETLINK_HEADER_LEN + 1, BufferLength(b))

(* Parseable<NetlinkHeader> for NetlinkBuffer: the five getters. *)
ParseHeader(b) ==
    [length |-> BufferLength(b), message_type |-> BufferMessageType(b),
     flags |-> BufferFlags(b), sequence_number |-> BufferSequenceNumber(b),
     port_number |-> BufferPortNumber(b)]

(* NetlinkHeader's field setters and *_mut accessors: field f of h set to  *)
(* v, the other fields kept.                                               *)
SetHeaderField(h, f, v) == [h EXCEPT ![f] = v]

(* Defect for mutation analysis: message_type and flags written at each   *)
(* other's offsets.                                                        *)
HeaderBytesSwapped(h) ==
    LE(h.length, 4) \o LE(h.flags, 2) \o LE(h.message_type, 2)
        \o LE(h.sequence_number, 4) \o LE(h.port_number, 4)

(* Emitable for NetlinkHeader: the five setters write bytes 0..16. *)
HeaderBytes(h) ==
    LE(h.length, 4) \o LE(h.message_type, 2) \o LE(h.flags, 2)
        \o LE(h.sequence_number, 4) \o LE(h.port_number, 4)

-----------------------------------------------------------------------------
(* ErrorMessage (the NLMSG_ERROR body): an i32 code and the echoed 16-byte *)
(* header.  ErrorBuffer is not part of this source tree; its layout and    *)
(* its refusal of a short body are taken from the specification.           *)
ERROR_LEN == 20

ErrorBytes(e) == I32Bytes(e.code) \o HeaderBytes(e.header)

ErrorTruncated(p) == Len(p) < ERROR_LEN

ParseError(p) ==
    [code |-> ReadI32(p, 0), header |-> ParseHeader(SubSeq(p, 5, ERROR_LEN))]

=============================================================================
