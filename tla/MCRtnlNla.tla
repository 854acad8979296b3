------------------------------ MODULE MCRtnlNla ------------------------------
(***************************************************************************)
(* Bounds for RtnlNla.  NLA values cover every width class of             *)
(* NeighbourNla: byte vectors of length 0, 4 and 6 (none, no and two bytes *)
(* of padding), a u16, a u32, the 16-byte CacheInfo and an unknown tag    *)
(* with a 1-byte value.  Lists have up to two NLAs, so an NLA that needs  *)
(* padding is followed by another.                                         *)
(***************************************************************************)
EXTENDS RtnlNla

Dst == Nla("Destination", <<10, 0, 0, 1>>, 0, NoCache, 0)
LlAddr == Nla("LinkLocalAddress", <<2, 0, 0, 0, 0, 1>>, 0, NoCache, 0)
NoProbes == Nla("Probes", <<>>, 0, NoCache, 0)
Vlan == Nla("VLAN", <<>>, 100, NoCache, 0)
Vni == Nla("VNI", <<>>, 42, NoCache, 0)
Cache == Nla("CacheInfo", <<>>, 0, <<1, 2, 3, 1>>, 0)
Unknown == Nla("Other", <<5>>, 0, NoCache, 99)

MaxNlas == 2

ListsOf(S) == UNION {[1 .. k -> S] : k \in 0 .. MaxNlas}

MCNlaLists == ListsOf({Dst, LlAddr, NoProbes, Vlan, Vni, Cache, Unknown})

(* Three NLAs of the S4 loopback reply: IFNAME "lo", MTU 65536, OperState. *)
MCLinkNlaLists ==
    ListsOf({[kind |-> 3, value |-> <<108, 111, 0>>],
             [kind |-> 4, value |-> <<0, 0, 1, 0>>],
             [kind |-> 16, value |-> <<0>>]})

(* A reachable IPv4 neighbour on interface 1. *)
MCNeighHeader == [family |-> 2, ifindex |-> 1, state |-> 2, flags |-> 0, ntype |-> 1]

(* The S4 loopback link header. *)
MCLinkHdr ==
    [address_family |-> 0, link_layer_type |-> 772, index |-> 1,
     flags |-> 73, change_mask |-> 0]

(* The loopback RTM_NEWLINK body captured from a kernel, as the tests of  *)
(* LinkMessage (netlink-sys link/message.rs) hold it: the 16-byte link     *)
(* header, then ten NLAs, three of them padded to 4 bytes.                 *)
LoopbackCapture ==
    << 0, 0, 4, 3, 1, 0, 0, 0, 73, 0, 0, 0, 0, 0, 0, 0,
       7, 0, 3, 0, 108, 111, 0, 0,
       8, 0, 13, 0, 232, 3, 0, 0,
       5, 0, 16, 0, 0, 0, 0, 0,
       5, 0, 17, 0, 0, 0, 0, 0,
       8, 0, 4, 0, 0, 0, 1, 0,
       8, 0, 27, 0, 0, 0, 0, 0,
       8, 0, 30, 0, 0, 0, 0, 0,
       8, 0, 31, 0, 1, 0, 0, 0,
       8, 0, 40, 0, 255, 255, 0, 0,
       8, 0, 41, 0, 0, 0, 1, 0 >>

(* What the tests read from it: family 0, ARPHRD_LOOPBACK, index 1, the   *)
(* flags UP, LOOPBACK and RUNNING, and each NLA's kind and value.          *)
LoopbackHeader ==
    [address_family |-> 0, link_layer_type |-> ARPHRD_LOOPBACK, index |-> 1,
     flags |-> IFF_UP + IFF_LOOPBACK + IFF_RUNNING, change_mask |-> 0]

LoopbackNlas ==
    << [kind |-> IFLA_IFNAME, value |-> <<108, 111, 0>>],
       [kind |-> IFLA_TXQLEN, value |-> <<232, 3, 0, 0>>],
       [kind |-> IFLA_OPERSTATE, value |-> <<0>>],
       [kind |-> IFLA_LINKMODE, value |-> <<0>>],
       [kind |-> IFLA_MTU, value |-> <<0, 0, 1, 0>>],
       [kind |-> IFLA_GROUP, value |-> <<0, 0, 0, 0>>],
       [kind |-> IFLA_PROMISCUITY, value |-> <<0, 0, 0, 0>>],
       [kind |-> IFLA_NUM_TX_QUEUES, value |-> <<1, 0, 0, 0>>],
       [kind |-> IFLA_GSO_MAX_SEGS, value |-> <<255, 255, 0, 0>>],
       [kind |-> IFLA_GSO_MAX_SIZE, value |-> <<0, 0, 1, 0>>] >>

(* The NLA run of the capture, as the kernel sends it after the header. *)
LoopbackNlaRun == SubSeq(LoopbackCapture, LINK_HEADER_LEN + 1, Len(LoopbackCapture))

(* Neighbour NLA runs as the kernel sends them, then hostile ones: an NLA *)
(* length of 2 (spec S6), a VLAN with a 4-byte value, and a length beyond *)
(* the run; and the link NLA run of the loopback capture below.           *)
MCRuns ==
    { <<10, 0, 2, 0, 2, 0, 0, 0, 0, 1, 0, 0, 8, 0, 1, 0, 10, 0, 0, 1>>,
      <<20, 0, 3, 0, 1, 0, 0, 0, 2, 0, 0, 0, 3, 0, 0, 0, 1, 0, 0, 0,
        6, 0, 5, 0, 100, 0, 0, 0>>,
      <<5, 0, 99, 0, 5, 0, 0, 0, 8, 0, 8, 0, 2, 0, 0, 0>>,
      <<2, 0, 1, 0>>,
      <<8, 0, 5, 0, 100, 0, 0, 0>>,
      <<12, 0, 1, 0, 10, 0, 0, 1>>,
      LoopbackNlaRun }

(* packet_header_read and packet_nlas_read: when the kernel sends the     *)
(* capture's NLA run, LinkMessage's parse of it behind the captured       *)
(* header yields the header fields and the ten NLAs the tests expect, so  *)
(* the NLA iterator steps over each NLA's padding.                        *)
CaptureRead ==
    received = LoopbackNlaRun
        => LinkMessageParse(SubSeq(LoopbackCapture, 1, LINK_HEADER_LEN) \o received)
             = [err |-> "none", msg |-> [header |-> LoopbackHeader, nlas |-> LoopbackNlas]]

=============================================================================
