------------------------------- MODULE RtnlNla -------------------------------
(***************************************************************************)
(* A caller of the rtnetlink codec (RtnlCodec): it builds the NLA lists of *)
(* a NeighbourMessage and of a LinkMessage, and it receives NLA runs that  *)
(* the neighbour parse reads.                                              *)
(***************************************************************************)
EXTENDS RtnlCodec

CONSTANTS
    NlaLists,       \* Vec<NeighbourNla> values a caller may build
    LinkNlaLists,   \* Vec<LinkNla> values, each NLA kept as (kind, value)
    Runs,           \* NLA runs the kernel may send in a neighbour payload
    NeighHeader,    \* the NeighbourHeader of the caller's message
    LinkHdr         \* the LinkHeader of the caller's message

VARIABLES nlas, linkNlas, received

vars == <<nlas, linkNlas, received>>

-----------------------------------------------------------------------------
(* The caller.  It builds a NeighbourMessage or a LinkMessage with an NLA  *)
(* list of its choice (the struct literals of both message.rs files), and  *)
(* it receives NLA runs that the neighbour parse reads.                    *)
Init ==
    /\ nlas = <<>>
    /\ linkNlas = <<>>
    /\ received = <<>>

BuildNeighbour(s) ==
    /\ nlas' = s
    /\ UNCHANGED <<linkNlas, received>>

BuildLink(s) ==
    /\ linkNlas' = s
    /\ UNCHANGED <<nlas, received>>

Receive(b) ==
    /\ received' = b
    /\ UNCHANGED <<nlas, linkNlas>>

Next ==
    \/ \E s \in NlaLists : BuildNeighbour(s)
    \/ \E s \in LinkNlaLists : BuildLink(s)
    \/ \E b \in Runs : Receive(b)

Spec == Init /\ [][Next]_vars

-----------------------------------------------------------------------------
(* An NLA list the caller builds is emitted as an NLA run that the         *)
(* neighbour NLA parse reads back as the same list: value_len, emit_value  *)
(* and kind of every NeighbourNla arm agree with its parse arm (the        *)
(* integer widths, the CacheInfo layout, and Other's tag).                 *)
NlaRunRoundTrip ==
    ParseNeighbourNlas(EmitNlaRun(nlas)) = [err |-> "none", nlas |-> nlas]

(* An NLA run received from the kernel that parses is re-emitted byte for  *)
(* byte, unknown tags included (spec 8, properties 1 and 5).               *)
ReceivedRoundTrip ==
    LET r == ParseNeighbourNlas(received)
    IN  r.err = "none" => EmitNlaRun(r.nlas) = received

(* A link NLA run received from the kernel either fails to parse as a     *)
(* whole or is read in full: the parse loop of Parseable<Vec<LinkNla>>     *)
(* (the `?` on each NLA) never returns a list that leaves an NLA of the    *)
(* run out, so the list re-emits to the bytes received.                   *)
LinkReceivedRoundTrip ==
    LET r == ParseLinkNlas(received)
    IN  r.err = "none" => EmitLinkNlaRun(r.nlas) = received

(* NeighbourMessage emit followed by its parse gives the message back. *)
NeighbourRoundTrip ==
    LET m == [header |-> NeighHeader, nlas |-> nlas]
    IN  NeighbourMessageParse(NeighbourMessageEmit(m)) = [err |-> "none", msg |-> m]

(* LinkMessage emit followed by its parse gives the message back. *)
LinkRoundTrip ==
    LET m == [header |-> LinkHdr, nlas |-> linkNlas]
    IN  LinkMessageParse(LinkMessageEmit(m)) = [err |-> "none", msg |-> m]

=============================================================================
