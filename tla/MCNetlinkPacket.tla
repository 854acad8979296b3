-------------------------- MODULE MCNetlinkPacket --------------------------
(***************************************************************************)
(* Model values for NetlinkPacket.  The inputs are the specification's    *)
(* S1, S2 and S3, a NEWLINK reply of the loopback link without NLAs (the   *)
(* NLA run of a link message is checked in RtnlNla), an NLMSG_ERROR, an    *)
(* NLMSG_OVERRUN, a NEWNEIGH without NLAs, and hostile datagrams:         *)
(* truncated storage, a link and a neighbour reply too short for their    *)
(* family header, and a length field of 0.                                 *)
(***************************************************************************)
EXTENDS NetlinkPacket

Hdr(len, type, flags, seq) == NetlinkHeaderNew(len, type, flags, seq, 0)

(* NLM_F_REQUEST | NLM_F_DUMP, the flags of `ip link get` *)
GET_FLAGS == 769

DoneHdr == Hdr(16, NLMSG_DONE, 0, 0)
GetHdr == Hdr(32, RTM_GETLINK, GET_FLAGS, 1)

Loopback ==
    [header |-> [address_family |-> 0, link_layer_type |-> 772, index |-> 1,
                 flags |-> 73, change_mask |-> 0],
     nlas |-> <<>>]

(* A permanent IPv4 neighbour entry on link 1, without NLAs. *)
Arp ==
    [header |-> [family |-> 2, ifindex |-> 1, state |-> 128, flags |-> 0, ntype |-> 1],
     nlas |-> <<>>]

MCInputs ==
    { HeaderBytes(DoneHdr),
      HeaderBytes(Hdr(36, NLMSG_ERROR, 0, 0)) \o I32Bytes(0) \o HeaderBytes(DoneHdr),
      HeaderBytes(Hdr(36, NLMSG_ERROR, 0, 1)) \o I32Bytes(-19) \o HeaderBytes(GetHdr),
      HeaderBytes(GetHdr) \o LinkMessageEmit(DefaultLink),
      HeaderBytes(Hdr(32, RTM_NEWLINK, 2, 1)) \o LinkMessageEmit(Loopback),
      HeaderBytes(Hdr(20, NLMSG_OVERRUN, 0, 0)) \o <<7, 7, 7, 7>>,
      SubSeq(HeaderBytes(DoneHdr), 1, 15),
      HeaderBytes(Hdr(24, RTM_NEWLINK, 2, 1)) \o SubSeq(LinkMessageEmit(Loopback), 1, 8),
      HeaderBytes(Hdr(0, NLMSG_ERROR, 0, 0)),
      HeaderBytes(Hdr(28, RTM_NEWNEIGH, 2, 1)) \o NeighbourMessageEmit(Arp),
      HeaderBytes(Hdr(24, RTM_NEWNEIGH, 2, 1)) \o SubSeq(NeighbourMessageEmit(Arp), 1, 8) }

Done == NetlinkPayload("Done", <<>>, NoError, NoRtnl)
Ack == NetlinkPayload("Ack", <<>>, [code |-> 0, header |-> DoneHdr], NoRtnl)
GetLink == NetlinkPayload("Rtnl", <<>>, NoError, Rtnl("GetLink", DefaultLink, <<>>))
Overrun == NetlinkPayload("Overrun", <<7, 7, 7, 7>>, NoError, NoRtnl)

GetNeighbour == NetlinkPayload("Rtnl", <<>>, NoError, RtnlNeighbour("GetNeighbour", Arp))

MCPayloads == {Done, Ack, GetLink, GetNeighbour}

(* A header that already describes a GetLink request, and one that does *)
(* not describe the payload it is given with.                            *)
MCHeaders == {GetHdr, Hdr(16, RTM_NEWLINK, 0, 7)}

MCPayloadsOverrun == MCPayloads \cup {Overrun}

MCBufLens == {16, 20, 32, 36}

MCHeaderEdits ==
    { [field |-> "flags", value |-> GET_FLAGS],
      [field |-> "length", value |-> 36],
      [field |-> "sequence_number", value |-> 1] }

MCGarbage == 170

=============================================================================
