----------------------------- MODULE MCPacketRing -----------------------------
(***************************************************************************)
(* The packet ring on a ring of a few bytes.                               *)
(***************************************************************************)
EXTENDS PacketRing

\* A packet without and one with padding, one that is empty and one that is
\* too long for any record.
MCPackets == {<<>>, <<0, 1>>, <<1, 1, 0>>, <<1, 0, 1, 1>>}
=============================================================================
