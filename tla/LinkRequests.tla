---------------------------- MODULE LinkRequests ----------------------------
(***************************************************************************)
(* The link requests of rtnetlink (LinkGetRequest, rtnetlink/src/link/    *)
(* get.rs) and iproute2 (LinkHandle and LinkDelRequest, iproute2/src/link) *)
(* sent over one shared connection to the kernel's link table.            *)
(*                                                                         *)
(* A request is built as the code builds it and serialised by the codec   *)
(* of NetlinkPacket (finalize, then to_bytes); the kernel parses the bytes *)
(* with from_bytes and acts on the message type, the flags and the link    *)
(* index it reads; its replies are datagrams that the connection parses   *)
(* with from_bytes, and the streams test with the payload's is_done,      *)
(* is_ack, is_error and is_rtnl.  The connection, Stream2Vec and          *)
(* Stream2Ack are not in this tree: they follow the specification         *)
(* (section 1): replies are correlated to their request, a multipart dump *)
(* is drained up to its NLMSG_DONE, which ends the stream, and ACKs and   *)
(* errors are surfaced.                                                   *)
(* The kernel follows rtnetlink: a GETLINK with NLM_F_DUMP starts a dump   *)
(* that returns the links one datagram at a time in index order, an error  *)
(* is always answered with NLMSG_ERROR, and success is acknowledged only   *)
(* when NLM_F_ACK is set.                                                  *)
(***************************************************************************)
EXTENDS Integers, Sequences, FiniteSetsExt, Bitwise

CONSTANTS
    Clients,    \* futures sharing one ConnectionHandle, one request each
    Ops,        \* [Clients -> request]: LinkHandle::get() or del(index)
    InitLinks,  \* link indices in the kernel's table at the start
    Indices     \* link indices a caller writes through message_mut

VARIABLES
    table,    \* link indices the kernel has
    kq,       \* request datagrams sent on the socket, not yet read by the kernel
    dump,     \* per client: the index the kernel's dump has reached, or -1
    chan,     \* per client: replies the connection routed to its stream
    pc,       \* per client: "idle", "sent" (future polled) or "done"
    res,      \* per client: the future's result
    target,   \* per client: the link index in the request's LinkMessage
    present   \* history: the request's link was in the table when read

vars == <<table, kq, dump, chan, pc, res, target, present>>

Codec == INSTANCE NetlinkPacket
    WITH Inputs <- {}, Payloads <- {}, Headers <- {}, BufLens <- {}, HeaderEdits <- {},
         Garbage <- 0, msg <- 0, wire <- 0, fault <- "none", dirty <- FALSE

-----------------------------------------------------------------------------
(* netlink-packet/src/constants.rs, the NLM_F_* flags. *)
NLM_F_REQUEST == 1
NLM_F_MULTIPART == 2
NLM_F_ACK == 4
NLM_F_ROOT == 256
NLM_F_MATCH == 512
NLM_F_DUMP == NLM_F_ROOT | NLM_F_MATCH
NLM_F_EXCL == 512
NLM_F_CREATE == 1024

(* Defect for mutation analysis: `ip link get` without NLM_F_DUMP. *)
GET_FLAGSNoDump == NLM_F_REQUEST

(* get.rs: the flags of `ip link get`. *)
GET_FLAGS == NLM_F_REQUEST | NLM_F_DUMP

(* Defect for mutation analysis: `ip link del` without NLM_F_ACK. *)
DEL_FLAGSNoAck == NLM_F_REQUEST | NLM_F_EXCL | NLM_F_CREATE

(* del.rs: the flags of `ip link del`. *)
DEL_FLAGS == NLM_F_REQUEST | NLM_F_ACK | NLM_F_EXCL | NLM_F_CREATE

(* LinkHandle::get() and LinkHandle::del(index) *)
Get == [kind |-> "get", index |-> 0]
Del(i) == [kind |-> "del", index |-> i]

(* LinkGetRequest::new and execute: GetLink(LinkMessage::new()), flags    *)
(* set through header_mut; i is the index message_mut may have written.    *)
LinkGetRequest(i) ==
    LET link == [Codec!DefaultLink EXCEPT !.header.index = i]
        m == Codec!From(Codec!NetlinkPayload("Rtnl", <<>>, Codec!NoError,
                          Codec!Rtnl("GetLink", link, <<>>)))
    IN  [m EXCEPT !.header = Codec!SetHeaderField(@, "flags", GET_FLAGS)]

(* Defect for mutation analysis: LinkDelRequest::new without set_index. *)
LinkDelRequestNoIndex(i) ==
    LET m == Codec!From(Codec!NetlinkPayload("Rtnl", <<>>, Codec!NoError,
                          Codec!Rtnl("DelLink", Codec!DefaultLink, <<>>)))
    IN  [m EXCEPT !.header = Codec!SetHeaderField(@, "flags", DEL_FLAGS)]

(* LinkDelRequest::new (set_index) and execute: DelLink, DEL_FLAGS. *)
LinkDelRequest(i) ==
    LET link == [Codec!DefaultLink EXCEPT !.header.index = i]
        m == Codec!From(Codec!NetlinkPayload("Rtnl", <<>>, Codec!NoError,
                          Codec!Rtnl("DelLink", link, <<>>)))
    IN  [m EXCEPT !.header = Codec!SetHeaderField(@, "flags", DEL_FLAGS)]

Request(op) == IF op.kind = "get" THEN LinkGetRequest(op.index) ELSE LinkDelRequest(op.index)

(* ConnectionHandle::request: finalize, then to_bytes into a buffer of     *)
(* buffer_len() bytes.                                                     *)
Datagram(m) ==
    LET f == Codec!Finalized(m) IN Codec!ToBytesResult(f, Codec!BufferLen(f)).bytes

(* The datagram a future sends for each index its LinkMessage may hold,   *)
(* and what from_bytes reads in it, are computed once.                     *)
Targets(c) == Indices \cup {Ops[c].index}

Sent == [p \in UNION {{c} \X Targets(c) : c \in Clients} |->
            Datagram(Request([Ops[p[1]] EXCEPT !.index = p[2]]))]

Read == [b \in {Sent[p] : p \in DOMAIN Sent} |-> Codec!FromBytes(b).msg]

-----------------------------------------------------------------------------
EINVAL == 22
ENODEV == 19
EBUSY == 16

(* The kernel's reply datagrams: a netlink header and a body.  A dump sends *)
(* each link as an RTM_NEWLINK, and ends with an NLMSG_DONE that carries a  *)
(* 4-byte int, both flagged multipart; an error or an ACK is an            *)
(* NLMSG_ERROR that echoes the request's header.                           *)
KernelDatagram(type, flags, body) ==
    Codec!HeaderBytes(Codec!NetlinkHeaderNew(Codec!NETLINK_HEADER_LEN + Len(body),
                                              type, flags, 0, 0)) \o body

NewLinkDatagram(i) ==
    KernelDatagram(Codec!RTM_NEWLINK, NLM_F_MULTIPART,
                   Codec!LinkMessageEmit([Codec!DefaultLink EXCEPT !.header.index = i]))

DoneDatagram == KernelDatagram(Codec!NLMSG_DONE, NLM_F_MULTIPART, Codec!I32Bytes(0))

ErrorDatagram(code, h) ==
    KernelDatagram(Codec!NLMSG_ERROR, 0, Codec!ErrorBytes([code |-> code, header |-> h]))

(* The channel names each reply by what the kernel sends: a link, the    *)
(* end of a dump, or an error code with the request it answers.  Its     *)
(* bytes, and what from_bytes reads in them on the connection, are        *)
(* computed once per reply.                                               *)
Reply(kind, index, code, op) == [kind |-> kind, index |-> index, code |-> code, op |-> op]

Replies ==
    {Reply("newlink", i, 0, Get) : i \in InitLinks} \cup {Reply("done", 0, 0, Get)}
        \cup {Reply("error", 0, code, Ops[c]) : code \in {0, -EINVAL, -ENODEV, -EBUSY}, c \in Clients}

ReplyBytes(r) ==
    CASE r.kind = "newlink" -> NewLinkDatagram(r.index)
      [] r.kind = "done"    -> DoneDatagram
      [] r.kind = "error"   -> ErrorDatagram(r.code, Read[Datagram(Request(r.op))].header)

Received == [r \in Replies |-> Codec!FromBytes(ReplyBytes(r)).msg]

(* rtnl_getlink / rtnl_dellink: index 0 names no device, an index not in   *)
(* the table no existing one.                                              *)
LookupError(i) == IF i = 0 THEN -EINVAL ELSE -ENODEV

Pending == [state |-> "pending", links |-> <<>>, code |-> 0]

Init ==
    /\ table = InitLinks
    /\ kq = <<>>
    /\ dump = [c \in Clients |-> -1]
    /\ chan = [c \in Clients |-> <<>>]
    /\ pc = [c \in Clients |-> "idle"]
    /\ res = [c \in Clients |-> Pending]
    /\ target = [c \in Clients |-> Ops[c].index]
    /\ present = [c \in Clients |-> FALSE]

(* LinkGetRequest::message_mut / LinkDelRequest::message_mut, then         *)
(* set_index on the LinkMessage, before execute consumes the request.      *)
MessageMut(c, i) ==
    /\ pc[c] = "idle"
    /\ target' = [target EXCEPT ![c] = i]
    /\ UNCHANGED <<table, kq, dump, chan, pc, res, present>>

(* execute(): the request is serialised and sent; the future is polled. *)
Execute(c) ==
    /\ pc[c] = "idle"
    /\ pc' = [pc EXCEPT ![c] = "sent"]
    /\ kq' = Append(kq, [client |-> c, bytes |-> Sent[<<c, target[c]>>]])
    /\ UNCHANGED <<table, dump, chan, res, target, present>>

(* The kernel reads the next request datagram.  A GETLINK with a dump flag *)
(* starts a dump, unless a dump is already running on the socket          *)
(* (netlink_dump_start: EBUSY).  A DELLINK, or a GETLINK without the flag, *)
(* looks the index up: NLMSG_ERROR when it names no link, otherwise the    *)
(* link is deleted and the request acknowledged only if NLM_F_ACK is set.  *)
(* A single-link GETLINK of an existing link is never sent by these        *)
(* builders (LinkGetRequest always dumps) and is left out.                 *)
Handle(c, m) ==
    LET t == m.header.message_type
        f == m.header.flags
        i == m.payload.rtnl.link.header.index
        dumpReq == t = Codec!RTM_GETLINK /\ f & NLM_F_DUMP # 0
        dumping == \E d \in Clients : dump[d] >= 0
        ack == IF f & NLM_F_ACK # 0 THEN <<Reply("error", 0, 0, Ops[c])>> ELSE <<>>
        Answer(r) == chan' = [chan EXCEPT ![c] = @ \o r]
    IN  /\ present' = [present EXCEPT ![c] = i \in table]
        /\ \/ dumpReq /\ ~dumping
                /\ dump' = [dump EXCEPT ![c] = 0]
                /\ UNCHANGED <<table, chan>>
           \/ dumpReq /\ dumping
                /\ Answer(<<Reply("error", 0, -EBUSY, Ops[c])>>)
                /\ UNCHANGED <<table, dump>>
           \/ t = Codec!RTM_DELLINK /\ i \in table
                /\ table' = table \ {i}
                /\ Answer(ack)
                /\ UNCHANGED <<dump>>
           \/ t \in {Codec!RTM_GETLINK, Codec!RTM_DELLINK} /\ ~dumpReq /\ i \notin table
                /\ Answer(<<Reply("error", 0, LookupError(i), Ops[c])>>)
                /\ UNCHANGED <<table, dump>>

KernelRecv ==
    /\ kq # <<>>
    /\ Handle(Head(kq).client, Read[Head(kq).bytes])
    /\ kq' = Tail(kq)
    /\ UNCHANGED <<pc, res, target>>

(* One datagram of a dump: the next link above the cursor in the table as *)
(* it is now, or NLMSG_DONE when there is none.                            *)
DumpStep(c) ==
    /\ dump[c] >= 0
    /\ LET rest == {i \in table : i > dump[c]}
       IN  \/ rest # {}
                /\ chan' = [chan EXCEPT ![c] = Append(@, Reply("newlink", Min(rest), 0, Get))]
                /\ dump' = [dump EXCEPT ![c] = Min(rest)]
           \/ rest = {}
                /\ chan' = [chan EXCEPT ![c] = Append(@, Reply("done", 0, 0, Get))]
                /\ dump' = [dump EXCEPT ![c] = -1]
    /\ UNCHANGED <<table, kq, pc, res, target, present>>

(* The stream of a get: the connection parses each reply, ends the stream *)
(* at NLMSG_DONE (and Stream2Vec resolves to the Vec), and hands any other *)
(* message to the map of get.rs: an Rtnl(NewLink) gives a link, anything   *)
(* else is UnexpectedMessage and fails the whole future.                   *)
GetReply(c, msg) ==
    LET p == msg.payload
    IN  \/ Codec!MessageIsDone(msg)
             /\ res' = [res EXCEPT ![c].state = "ok"]
             /\ pc' = [pc EXCEPT ![c] = "done"]
        \/ Codec!IsRtnl(p) /\ Codec!IsNewLink(p.rtnl)
             /\ res' = [res EXCEPT ![c].links = Append(@, p.rtnl.link.header.index)]
             /\ UNCHANGED pc
        \/ ~Codec!MessageIsDone(msg) /\ ~(Codec!IsRtnl(p) /\ Codec!IsNewLink(p.rtnl))
             /\ res' = [res EXCEPT ![c].state = "err", ![c].code = p.err.code]
             /\ pc' = [pc EXCEPT ![c] = "done"]

ReceiveGet(c) ==
    /\ Ops[c].kind = "get"
    /\ chan[c] # <<>>
    /\ GetReply(c, Received[Head(chan[c])])
    /\ chan' = [chan EXCEPT ![c] = Tail(@)]
    /\ UNCHANGED <<table, kq, dump, target, present>>

(* The stream of a del: Stream2Ack.  An ACK completes it, an error fails   *)
(* it with the kernel's code.                                              *)
DelReply(c, msg) ==
    \/ Codec!MessageIsAck(msg) /\ res' = [res EXCEPT ![c].state = "ok"]
    \/ Codec!MessageIsError(msg)
         /\ res' = [res EXCEPT ![c].state = "err", ![c].code = msg.payload.err.code]

ReceiveDel(c) ==
    /\ Ops[c].kind = "del"
    /\ chan[c] # <<>>
    /\ DelReply(c, Received[Head(chan[c])])
    /\ pc' = [pc EXCEPT ![c] = "done"]
    /\ chan' = [chan EXCEPT ![c] = Tail(@)]
    /\ UNCHANGED <<table, kq, dump, target, present>>

Next ==
    \/ \E c \in Clients, i \in Indices : MessageMut(c, i)
    \/ \E c \in Clients : Execute(c)
    \/ KernelRecv
    \/ \E c \in Clients : DumpStep(c) \/ ReceiveGet(c) \/ ReceiveDel(c)

(* The kernel reads every datagram sent to it and continues a dump each    *)
(* time the socket is read, and a polled future keeps reading its stream.  *)
Fairness ==
    /\ WF_vars(KernelRecv)
    /\ \A c \in Clients : WF_vars(DumpStep(c)) /\ WF_vars(ReceiveGet(c)) /\ WF_vars(ReceiveDel(c))

Spec == Init /\ [][Next]_vars /\ Fairness

-----------------------------------------------------------------------------
(* `ip link get` fails only when the kernel refuses its dump: the reply   *)
(* stream of an accepted dump holds only NewLink messages before its       *)
(* NLMSG_DONE, so the map of get.rs never turns one into                   *)
(* UnexpectedMessage, whatever dels run beside it on the connection; the   *)
(* one error it can meet is EBUSY, a dump requested while another runs on  *)
(* the shared socket.                                                      *)
GetFailsOnlyBusy ==
    \A c \in Clients :
        Ops[c].kind = "get" /\ pc[c] = "done" =>
            res[c].state = "ok" \/ res[c].code = -EBUSY

(* `ip link del` reports what it did: the future resolves Ok exactly when  *)
(* the link its request names (after any message_mut) was in the table   *)
(* when the kernel read the request, and that link is gone afterwards.     *)
DelReportsOutcome ==
    \A c \in Clients :
        Ops[c].kind = "del" /\ pc[c] = "done" =>
            /\ (res[c].state = "ok") = present[c]
            /\ target[c] \notin table

(* Every request that was sent is eventually answered: the get's dump      *)
(* ends in NLMSG_DONE and the del's stream receives its ACK or error.     *)
RequestsComplete == \A c \in Clients : pc[c] = "sent" ~> pc[c] = "done"

=============================================================================
