---------------------------- MODULE PacketStream ----------------------------
(***************************************************************************)
(* What a debugger's caller may rely on between it and the device: an      *)
(* ordered stream of packets.  The device appends, the caller takes from   *)
(* the front, and nothing else happens to the stream until the peer is     *)
(* gone, when what is not yet delivered may be cut off from some point on. *)
(***************************************************************************)
EXTENDS Naturals, Sequences

CONSTANT Packets

VARIABLES stream, up

Init == stream = <<>> /\ up = TRUE

Emit ==
  /\ up
  /\ stream' # <<>>
  /\ LET p == stream'[Len(stream')] IN p \in Packets /\ stream' = Append(stream, p)
  /\ UNCHANGED up

Take ==
  /\ stream # <<>>
  /\ stream' = Tail(stream)
  /\ UNCHANGED up

Cut ==
  /\ up /\ up' = FALSE
  /\ \E n \in 0 .. Len(stream) : stream' = SubSeq(stream, 1, n)

Next == Emit \/ Take \/ Cut

Spec == Init /\ [][Next]_<<stream, up>>
=============================================================================
