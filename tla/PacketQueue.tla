----------------------------- MODULE PacketQueue -----------------------------
(***************************************************************************)
(* What one direction of the shared packet ring promises to its producer   *)
(* and its consumer (crates/usque-platform/src/packet_ring.rs): a bounded  *)
(* FIFO.  A packet that was accepted comes out once, whole and in order; a  *)
(* packet that was refused leaves no trace.                                *)
(***************************************************************************)
EXTENDS Naturals, Sequences

CONSTANTS
    Packets,      \* the packets a producer may offer
    Bytes(_),     \* the bytes that a packet occupies
    Limit         \* the bytes that the queue holds

VARIABLES
    queue,        \* packets accepted and not yet taken
    used,         \* the bytes that they occupy
    taken         \* the packet that the consumer took last

QueueInit == queue = <<>> /\ used = 0 /\ taken = <<>>

Accept ==
    \E p \in Packets :
        /\ used + Bytes(p) <= Limit
        /\ queue' = Append(queue, p)
        /\ used' = used + Bytes(p)
        /\ UNCHANGED taken

Take ==
    /\ queue # <<>>
    /\ taken' = Head(queue)
    /\ queue' = Tail(queue)
    /\ used' = used - Bytes(Head(queue))

QueueSpec == QueueInit /\ [][Accept \/ Take]_<<queue, used, taken>>
=============================================================================
