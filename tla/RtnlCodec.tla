------------------------------ MODULE RtnlCodec ------------------------------
(***************************************************************************)
(* The rtnetlink attribute (NLA) codec and the two family messages of this *)
(* tree that carry an NLA run after a fixed header, as pure operators:     *)
(*   - NeighbourNla (rtnetlink/src/packets/rtnl/neighbour/nla.rs): the     *)
(*     per-tag value_len / emit_value / kind and the tag dispatch of parse; *)
(*   - NeighbourMessage (rtnetlink/.../neighbour/message.rs) and           *)
(*     LinkMessage (netlink-sys/src/packet/rtnl/link/message.rs): emit     *)
(*     writes the fixed header, then the NLA slice; parse reads the header *)
(*     and then every NLA of the run, failing on the first bad one.        *)
(* NlaBuffer, DefaultNla, the slice emission of [T: Nla], parse_u16/u32,   *)
(* NativeNla and the Neighbour/Link header buffers are not in this tree;   *)
(* their operators below follow the specification (sections 3, 4.1, 4.3). *)
(***************************************************************************)
EXTENDS NetlinkWire

-----------------------------------------------------------------------------
(* NLA framing (spec 4.3).  An NLA is length u16, kind u16, value, then    *)
(* zero padding up to align4; length counts header and value only.         *)
NLA_HEADER_LEN == 4

(* netlink-packet/src/constants.rs: the two flag bits of the type field,   *)
(* NLA_F_NESTED = 1 << 15 and NLA_F_NET_BYTEORDER = 1 << 14, and           *)
(* NLA_TYPE_MASK, their complement.  kind() keeps the low 14 bits.         *)
NLA_TYPE_MASK == 16383

Align4(n) == ((n + 3) \div 4) * 4

Zeros(k) == [i \in 1 .. k |-> 0]

(* Emitable for an NLA: 4 + value_len, kind, emit_value, zero fill. *)
NlaFrame(kind, value) ==
    LE(NLA_HEADER_LEN + Len(value), 2) \o LE(kind, 2) \o value
        \o Zeros(Align4(Len(value)) - Len(value))

(* The NLA iterator over a run b, with DefaultNla items (kind, value).     *)
(* It stops when fewer than 4 bytes remain; a length below 4 is Malformed  *)
(* and a length beyond the run is Truncated, and either ends iteration.   *)
(* Each step takes align4(length) bytes, or what is left.                 *)
RECURSIVE NlaItems(_)
NlaItems(b) ==
    IF Len(b) < NLA_HEADER_LEN THEN <<>>
    ELSE LET len == ReadU16(b, 0)
             step == IF Align4(len) > Len(b) THEN Len(b) ELSE Align4(len)
         IN  IF len < NLA_HEADER_LEN THEN <<[err |-> "Malformed"]>>
             ELSE IF len > Len(b) THEN <<[err |-> "Truncated"]>>
             ELSE <<[err |-> "none", kind |-> ReadU16(b, 2) % (NLA_TYPE_MASK + 1),
                     value |-> SubSeq(b, 5, len)]>>
                    \o NlaItems(SubSeq(b, step + 1, Len(b)))

-----------------------------------------------------------------------------
(* NeighbourNla.  A value is a record whose variant names the enum arm;   *)
(* bytes carries the Vec<u8> arms and Other's value, num the integer arms, *)
(* cache the four u32 of NeighbourCacheInfo, and kind Other's tag.        *)
BytesVariants ==
    {"Unspec", "Destination", "LinkLocalAddress", "Probes", "Port",
     "Master", "LinkNetNSID"}

U32Variants == {"VNI", "IfIndex", "SourceVNI"}

(* The NDA_* tags (kernel neighbour.h; the frozen table is not in tree). *)
NdaTag ==
    [Unspec |-> 0, Destination |-> 1, LinkLocalAddress |-> 2, CacheInfo |-> 3,
     Probes |-> 4, VLAN |-> 5, Port |-> 6, VNI |-> 7, IfIndex |-> 8,
     Master |-> 9, LinkNetNSID |-> 10, SourceVNI |-> 11]

Nla(variant, bytes, num, cache, kind) ==
    [variant |-> variant, bytes |-> bytes, num |-> num, cache |-> cache,
     kind |-> kind]

NoCache == <<0, 0, 0, 0>>

(* Defect for mutation analysis: VLAN given the width of a u32. *)
value_lenVlanU32(n) ==
    CASE n.variant \in BytesVariants \cup {"Other"} -> Len(n.bytes)
      [] n.variant = "CacheInfo" -> 16
      [] n.variant = "VLAN" -> 4
      [] n.variant \in U32Variants -> 4

(* Nla::value_len: size_of the fixed-width arms, the length of the others. *)
value_len(n) ==
    CASE n.variant \in BytesVariants \cup {"Other"} -> Len(n.bytes)
      [] n.variant = "CacheInfo" -> 16
      [] n.variant = "VLAN" -> 2
      [] n.variant \in U32Variants -> 4

(* Nla::emit_value into buf[4 .. 4 + value_len]: write_u16/u32 write the  *)
(* low bytes of the slice, the rest of which stays zero; CacheInfo is its *)
(* repr(C) bytes.                                                          *)
emit_value(n) ==
    LET v == CASE n.variant \in BytesVariants \cup {"Other"} -> n.bytes
                [] n.variant = "CacheInfo" ->
                     LE(n.cache[1], 4) \o LE(n.cache[2], 4)
                       \o LE(n.cache[3], 4) \o LE(n.cache[4], 4)
                [] n.variant = "VLAN" -> LE(n.num, 2)
                [] n.variant \in U32Variants -> LE(n.num, 4)
    IN  v \o Zeros(value_len(n) - Len(v))

(* Nla::kind *)
kind(n) == IF n.variant = "Other" THEN n.kind ELSE NdaTag[n.variant]

(* The NLA as emitted; emit_value(n) has value_len(n) bytes. *)
NeighbourNlaBytes(n) == NlaFrame(kind(n), emit_value(n))

(* Emitable for [T: Nla]: the emissions of the NLAs, back to back. *)
RECURSIVE EmitNlaRun(_)
EmitNlaRun(s) ==
    IF s = <<>> THEN <<>> ELSE NeighbourNlaBytes(Head(s)) \o EmitNlaRun(Tail(s))

(* parse_u16 / parse_u32 (utils, not in tree): the payload must have       *)
(* exactly the width of the integer, else Malformed.                       *)
ParseUInt(payload, w) ==
    IF Len(payload) # w THEN [err |-> "Malformed"]
    ELSE [err |-> "none", num |-> IF w = 2 THEN ReadU16(payload, 0)
                                 ELSE ReadU32(payload, 0)]

(* NativeNla::from_bytes for NeighbourCacheInfo: 16 bytes, four u32. *)
ParseCacheInfo(payload) ==
    IF Len(payload) # 16 THEN [err |-> "Malformed"]
    ELSE [err |-> "none",
          cache |-> [i \in 1 .. 4 |-> ReadU32(payload, 4 * (i - 1))]]

TagVariant(k) == CHOOSE v \in DOMAIN NdaTag : NdaTag[v] = k

Ok(n) == [err |-> "none", nla |-> n]

(* Defect for mutation analysis: NDA_LLADDR parsed into the Destination  *)
(* arm, a copy-and-paste slip in the match.                                *)
ParseNeighbourNlaLlAsDst(item) ==
    LET k == item.kind
        p == item.value
    IN  IF k \notin {NdaTag[v] : v \in DOMAIN NdaTag}
          THEN Ok(Nla("Other", p, 0, NoCache, k))
        ELSE LET v == TagVariant(k) IN
          CASE v = "LinkLocalAddress" -> Ok(Nla("Destination", p, 0, NoCache, 0))
            [] v \in BytesVariants -> Ok(Nla(v, p, 0, NoCache, 0))
            [] v = "CacheInfo" ->
                 LET c == ParseCacheInfo(p) IN
                 IF c.err # "none" THEN c ELSE Ok(Nla(v, <<>>, 0, c.cache, 0))
            [] v = "VLAN" \/ v \in U32Variants ->
                 LET u == ParseUInt(p, IF v = "VLAN" THEN 2 ELSE 4) IN
                 IF u.err # "none" THEN u ELSE Ok(Nla(v, <<>>, u.num, NoCache, 0))

(* Parseable<NeighbourNla> for NlaBuffer: dispatch on the masked kind. *)
ParseNeighbourNla(item) ==
    LET k == item.kind
        p == item.value
    IN  IF k \notin {NdaTag[v] : v \in DOMAIN NdaTag}
          THEN Ok(Nla("Other", p, 0, NoCache, k))
        ELSE LET v == TagVariant(k) IN
          CASE v \in BytesVariants -> Ok(Nla(v, p, 0, NoCache, 0))
            [] v = "CacheInfo" ->
                 LET c == ParseCacheInfo(p) IN
                 IF c.err # "none" THEN c ELSE Ok(Nla(v, <<>>, 0, c.cache, 0))
            [] v = "VLAN" \/ v \in U32Variants ->
                 LET u == ParseUInt(p, IF v = "VLAN" THEN 2 ELSE 4) IN
                 IF u.err # "none" THEN u ELSE Ok(Nla(v, <<>>, u.num, NoCache, 0))

(* Parseable<Vec<NeighbourNla>> for NeighbourBuffer: push every parsed NLA *)
(* of the run; the first iterator error or parse error is the result.      *)
ParseNeighbourNlas(b) ==
    LET items == NlaItems(b)
        parsed == [i \in 1 .. Len(items) |->
                     IF items[i].err # "none" THEN items[i]
                     ELSE ParseNeighbourNla(items[i])]
        bad == {i \in 1 .. Len(parsed) : parsed[i].err # "none"}
    IN  IF bad = {} THEN [err |-> "none", nlas |-> [i \in 1 .. Len(parsed) |-> parsed[i].nla]]
        ELSE [err |-> parsed[CHOOSE i \in bad : \A j \in bad : i <= j].err]

-----------------------------------------------------------------------------
(* The family messages.  Both emit into the caller's buffer of buffer_len  *)
(* bytes (zeroed by the caller) and parse the header, then the NLA run     *)
(* that follows it.                                                        *)
NEIGHBOUR_HEADER_LEN == 12
LINK_HEADER_LEN == 16

(* NeighbourHeader emit (spec 3): family, 3 pad bytes, ifindex i32, state  *)
(* u16, flags u8, ntype u8.                                                *)
NeighbourHeaderBytes(h) ==
    LE(h.family, 1) \o Zeros(3) \o I32Bytes(h.ifindex) \o LE(h.state, 2)
        \o LE(h.flags, 1) \o LE(h.ntype, 1)

ParseNeighbourHeader(b) ==
    [family |-> b[1], ifindex |-> ReadI32(b, 4), state |-> ReadU16(b, 8),
     flags |-> b[11], ntype |-> b[12]]

(* The link attribute kinds, link layer type and interface flags of a     *)
(* loopback link (netlink-packet constants).                              *)
IFLA_IFNAME == 3
IFLA_MTU == 4
IFLA_TXQLEN == 13
IFLA_OPERSTATE == 16
IFLA_LINKMODE == 17
IFLA_GROUP == 27
IFLA_PROMISCUITY == 30
IFLA_NUM_TX_QUEUES == 31
IFLA_GSO_MAX_SEGS == 40
IFLA_GSO_MAX_SIZE == 41
ARPHRD_LOOPBACK == 772
IFF_UP == 1
IFF_LOOPBACK == 8
IFF_RUNNING == 64

(* LinkHeader emit (spec 3): family, reserved, link_layer_type u16, index  *)
(* i32, flags u32, change_mask u32.                                        *)
LinkHeaderBytes(h) ==
    LE(h.address_family, 1) \o Zeros(1) \o LE(h.link_layer_type, 2)
        \o I32Bytes(h.index) \o LE(h.flags, 4) \o LE(h.change_mask, 4)

(* Defect for mutation analysis: link_layer_type read as one byte. *)
ParseLinkHeaderNarrowType(b) ==
    [address_family |-> b[1], link_layer_type |-> b[3],
     index |-> ReadI32(b, 4), flags |-> ReadU32(b, 8),
     change_mask |-> ReadU32(b, 12)]

ParseLinkHeader(b) ==
    [address_family |-> b[1], link_layer_type |-> ReadU16(b, 2),
     index |-> ReadI32(b, 4), flags |-> ReadU32(b, 8),
     change_mask |-> ReadU32(b, 12)]

(* Emitable for NeighbourMessage: buffer_len is the header's plus the NLA  *)
(* slice's; emit gives both the whole buffer, so both write from offset 0. *)
NeighbourMessageEmit(m) ==
    LET run == EmitNlaRun(m.nlas)
        buf == Zeros(NEIGHBOUR_HEADER_LEN + Len(run))
    IN  WriteAt(WriteAt(buf, 0, NeighbourHeaderBytes(m.header)), 0, run)

(* Parseable<NeighbourMessage> for NeighbourBuffer: the header, then the   *)
(* NLAs of the bytes after it.                                             *)
NeighbourMessageParse(b) ==
    LET r == ParseNeighbourNlas(SubSeq(b, NEIGHBOUR_HEADER_LEN + 1, Len(b)))
    IN  IF r.err # "none" THEN [err |-> r.err]
        ELSE [err |-> "none",
              msg |-> [header |-> ParseNeighbourHeader(b), nlas |-> r.nlas]]

(* LinkNla is not in this tree: a link NLA is kept as its (kind, value),   *)
(* as DefaultNla keeps an unknown one.                                     *)
RECURSIVE EmitLinkNlaRun(_)
EmitLinkNlaRun(s) ==
    IF s = <<>> THEN <<>>
    ELSE NlaFrame(Head(s).kind, Head(s).value) \o EmitLinkNlaRun(Tail(s))

(* Defect for mutation analysis: the "best effort" parse the FIXME asks    *)
(* for, done by skipping the NLAs that fail.                               *)
ParseLinkNlasBestEffort(b) ==
    LET items == NlaItems(b)
        good == SelectSeq(items, LAMBDA it : it.err = "none")
    IN  [err |-> "none",
         nlas |-> [i \in 1 .. Len(good) |-> [kind |-> good[i].kind, value |-> good[i].value]]]

(* Parseable<Vec<LinkNla>> for LinkBuffer: the first bad NLA fails all. *)
ParseLinkNlas(b) ==
    LET items == NlaItems(b)
        bad == {i \in 1 .. Len(items) : items[i].err # "none"}
    IN  IF bad = {} THEN [err |-> "none",
                         nlas |-> [i \in 1 .. Len(items) |->
                                     [kind |-> items[i].kind, value |-> items[i].value]]]
        ELSE [err |-> items[Len(items)].err]

(* Emitable for LinkMessage: the same shape as NeighbourMessage. *)
LinkMessageEmit(m) ==
    LET run == EmitLinkNlaRun(m.nlas)
        buf == Zeros(LINK_HEADER_LEN + Len(run))
    IN  WriteAt(WriteAt(buf, 0, LinkHeaderBytes(m.header)), 0, run)

(* Parseable<LinkMessage> for LinkBuffer. *)
LinkMessageParse(b) ==
    LET r == ParseLinkNlas(SubSeq(b, LINK_HEADER_LEN + 1, Len(b)))
    IN  IF r.err # "none" THEN [err |-> r.err]
        ELSE [err |-> "none",
              msg |-> [header |-> ParseLinkHeader(b), nlas |-> r.nlas]]

=============================================================================
