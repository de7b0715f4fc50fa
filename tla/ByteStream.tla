----------------------------- MODULE ByteStream -----------------------------
(***************************************************************************)
(* What the send side of a session promises its callers: the packets given *)
(* to SendPacket leave the session as one byte stream, in the order they   *)
(* were accepted, every byte once, no packet cut by another.  The stream   *)
(* may stop (the connection is lost) but it never skips, repeats or mixes. *)
(***************************************************************************)
EXTENDS Naturals

CONSTANTS MaxPackets,   \* bound on the packets accepted
          PacketLen     \* bytes of a packet

VARIABLES accepted,     \* packets 1..accepted have been accepted, in this order
          next,         \* the next byte of the stream: [pkt, off]
          total         \* bytes that have left

bsvars == <<accepted, next, total>>

\* The position n bytes after pos; a finished packet is followed by the next.
Advance(pos, n) ==
  IF pos.off + n >= PacketLen THEN [pkt |-> pos.pkt + 1, off |-> 0]
                              ELSE [pkt |-> pos.pkt, off |-> pos.off + n]

Init == accepted = 0 /\ next = [pkt |-> 1, off |-> 0] /\ total = 0

Accept ==
  /\ accepted < MaxPackets
  /\ accepted' = accepted + 1
  /\ UNCHANGED <<next, total>>

\* n bytes leave, starting with the next byte of a packet already accepted.
Emit ==
  /\ next.pkt <= accepted
  /\ \E n \in 1 .. (PacketLen - next.off) :
       next' = Advance(next, n) /\ total' = total + n
  /\ UNCHANGED accepted

Next == Accept \/ Emit

Spec == Init /\ [][Next]_bsvars
=============================================================================
