--------------------------- MODULE MCAuditNetlink ---------------------------
(***************************************************************************)
(* Model values for AuditNetlink.  The inputs are the specification's     *)
(* scenarios S1, S2, S5 and S6 and the messages a kernel really sends that *)
(* the scenarios leave out: an NLMSG_DONE closing a dump carries a 4-byte  *)
(* int, and an NLMSG_ERROR echoes the whole failed request.  The audit    *)
(* status struct is cut to its first u32 (mask = 1): the audit crate keeps *)
(* that payload as opaque bytes.                                           *)
(***************************************************************************)
EXTENDS AuditNetlink

Hdr(len, type, flags, seq) == NetlinkHeaderNew(len, type, flags, seq, 0)

AUDIT_SET == 1001
NLM_F_MULTI == 2
NLM_F_REQUEST_ACK == 5

DoneHdr == Hdr(16, NLMSG_DONE, 0, 0)
SetHdr == Hdr(20, AUDIT_SET, NLM_F_REQUEST_ACK, 1)
SetBody == <<1, 0, 0, 0>>

(* S1, S2, a NOOP, a failed-request ERROR, S5 and an OVERRUN *)
Canonical ==
    { HeaderBytes(DoneHdr),
      HeaderBytes(Hdr(36, NLMSG_ERROR, 0, 0)) \o I32Bytes(0) \o HeaderBytes(DoneHdr),
      HeaderBytes(Hdr(16, NLMSG_NOOP, 0, 0)),
      HeaderBytes(Hdr(36, NLMSG_ERROR, 0, 1)) \o I32Bytes(-1) \o HeaderBytes(SetHdr),
      HeaderBytes(SetHdr) \o SetBody,
      HeaderBytes(Hdr(20, NLMSG_OVERRUN, 0, 0)) \o <<7, 7, 7, 7>> }

(* truncated storage, S6's length beyond the storage, an ERROR body too    *)
(* short for its header, a DONE with its int, an ERROR with the request    *)
Hostile ==
    { SubSeq(HeaderBytes(DoneHdr), 1, 15),
      SubSeq(HeaderBytes(Hdr(36, NLMSG_ERROR, 0, 0)) \o I32Bytes(0)
               \o HeaderBytes(DoneHdr), 1, 30),
      HeaderBytes(Hdr(16777215, NLMSG_DONE, 0, 0)),
      HeaderBytes(Hdr(20, NLMSG_ERROR, 0, 1)) \o I32Bytes(-1),
      HeaderBytes(Hdr(20, NLMSG_DONE, NLM_F_MULTI, 1)) \o I32Bytes(0),
      HeaderBytes(Hdr(40, NLMSG_ERROR, 0, 1)) \o I32Bytes(-1)
        \o HeaderBytes(SetHdr) \o SetBody }

(* a header whose length field is below the header size *)
ShortLength == { HeaderBytes(Hdr(0, NLMSG_ERROR, 0, 0)) }

MCInputs == Canonical \cup Hostile
MCInputsShort == MCInputs \cup ShortLength

MCPayloads ==
    { AuditDone, AuditNoop,
      AuditAck([code |-> 0, header |-> DoneHdr]),
      AuditError([code |-> -1, header |-> SetHdr]),
      AuditOther(SetBody) }

MCPayloadsOverrun == MCPayloads \cup { AuditOverrun(<<7, 7, 7, 7>>) }

MCBufLens == {8, 16, 20, 36, 40}

MCHeaderEdits ==
    { [field |-> "length", value |-> 20],
      [field |-> "message_type", value |-> NLMSG_DONE],
      [field |-> "sequence_number", value |-> 1] }

MCGarbage == 170

=============================================================================
