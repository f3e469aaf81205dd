------------------------------ MODULE PacketRing ------------------------------
(***************************************************************************)
(* One direction of SharedPacketRing (crates/usque-platform/src/           *)
(* packet_ring.rs): a byte ring in shared memory between the Engine and    *)
(* the Agent, with one producer and one consumer.  Head and tail are       *)
(* counters that wrap at their own width, the bytes wrap at the capacity,  *)
(* and a record is a length header, the packet and zeros up to the next    *)
(* multiple of the header size.                                            *)
(*                                                                         *)
(* Each load, copy and store is a step.  The indices are Acquire/Release   *)
(* atomics, so the copies before a store are visible to whoever loads the  *)
(* stored index, and the steps interleave as if memory were sequential.    *)
(***************************************************************************)
EXTENDS Naturals, Sequences

CONSTANTS
    Capacity,     \* bytes of the ring, a power of two                [128 KiB..]
    Modulus,      \* first value an index does not have               [2^32]
    Header,       \* bytes of a record header, and record alignment   [4]
    Base,         \* values of one byte                               [256]
    MaxPacket,    \* MAX_PACKET_BYTES                                 [65535]
    Packets       \* packets that are offered: sequences of bytes

Index == 0 .. Modulus - 1
Byte == 0 .. Base - 1

\* What a byte of a header is worth, least significant byte first.
Weight[i \in 0 .. Header] == IF i = 0 THEN 1 ELSE Base * Weight[i - 1]

ASSUME RingAssumption ==
    /\ Capacity \in Nat \ {0} /\ Modulus \in Nat /\ Header \in Nat \ {0}
    /\ MaxPacket \in Nat /\ Base \in Nat \ {0, 1} /\ MaxPacket < Weight[Header]
    /\ Capacity < Modulus
    /\ \E n \in 1 .. Modulus : Modulus = n * Capacity
    /\ Packets \subseteq Seq(Byte)

VARIABLES
    buffer,       \* the mapped bytes of this direction
    head, tail,   \* the shared indices
    dropped,      \* the shared count of refused packets, capped
    prod,         \* try_push_inner: where it is and what it loaded
    cons,         \* try_pop_into: where it is and what it loaded
    popped        \* the packet that try_pop_into returned last

ringVars == <<buffer, head, tail, dropped, prod, cons, popped>>

(***************************************************************************)
(* wrapping_add and wrapping_sub of indices, and sizes of records.         *)
(***************************************************************************)
Add(i, n) == IF i + n < Modulus THEN i + n ELSE i + n - Modulus
Sub(i, j) == IF i >= j THEN i - j ELSE i + Modulus - j

aligned_record_bytes(n) == ((Header + n + Header - 1) \div Header) * Header

(***************************************************************************)
(* write_wrapped and read_wrapped: a run of bytes from an offset on, cut   *)
(* at the end of the buffer and continued at its start.                    *)
(***************************************************************************)
Cell(offset) == offset % Capacity

\* Mutant: the bytes past the end of the buffer are not continued at its start.
WriteTruncated(b, offset, source) ==
    [c \in 0 .. Capacity - 1 |->
        IF c >= Cell(offset) /\ c - Cell(offset) < Len(source)
        THEN source[c - Cell(offset) + 1] ELSE b[c]]

write_wrapped(b, offset, source) ==
    [c \in 0 .. Capacity - 1 |->
        IF \E i \in 1 .. Len(source) : Cell(Add(offset, i - 1)) = c
        THEN source[CHOOSE i \in 1 .. Len(source) : Cell(Add(offset, i - 1)) = c]
        ELSE b[c]]

read_wrapped(b, offset, n) == [i \in 1 .. n |-> b[Cell(Add(offset, i - 1))]]

\* The length is stored in the header, least significant byte first.
to_le_bytes(n) == [i \in 1 .. Header |-> (n \div Weight[i - 1]) % Base]
from_le_bytes(d) ==
    LET Sum[i \in 0 .. Header] == IF i = 0 THEN 0 ELSE Sum[i - 1] + d[i] * Weight[i - 1]
    IN  Sum[Header]

(***************************************************************************)
(* try_push_inner.  MaxDropped caps the counter, which nothing reads back. *)
(***************************************************************************)
MaxDropped == 1
Zeros(n) == [i \in 1 .. n |-> 0]
RingIdle == [pc |-> "idle", packet |-> <<>>, seen |-> 0, size |-> 0]

RingInit ==
    /\ buffer = [c \in 0 .. Capacity - 1 |-> 0]
    /\ head = 0 /\ tail = 0 /\ dropped = 0
    /\ prod = RingIdle
    /\ cons = RingIdle
    /\ popped = <<>>

\* The packet's size is checked and the consumer's tail is loaded; a packet of
\* a size that no record has is refused with an error.
LoadTail(p) ==
    /\ prod.pc = "idle"
    /\ prod' = IF Len(p) \in 1 .. MaxPacket
               THEN [pc |-> "check", packet |-> p, seen |-> tail,
                     size |-> aligned_record_bytes(Len(p))]
               ELSE RingIdle
    /\ UNCHANGED <<buffer, head, tail, dropped, cons, popped>>

\* Mutant: a record may be as long as the free space and one more header.
CheckSpaceOffByOne(count) ==
    /\ prod.pc = "check"
    /\ LET used == Sub(head, prod.seen)
           full == prod.size > Capacity - used + Header
       IN  /\ prod' = IF used > Capacity THEN [prod EXCEPT !.pc = "corrupt"]
                      ELSE IF full THEN RingIdle ELSE [prod EXCEPT !.pc = "header"]
           /\ dropped' = IF used <= Capacity /\ full /\ count /\ dropped < MaxDropped
                         THEN dropped + 1 ELSE dropped
    /\ UNCHANGED <<buffer, head, tail, cons, popped>>

\* Indices that cannot be are an error; a full ring refuses the packet, and
\* only try_push counts it (try_push_preserving keeps and retries it).
CheckSpace(count) ==
    /\ prod.pc = "check"
    /\ LET used == Sub(head, prod.seen)
           full == prod.size > Capacity - used
       IN  /\ prod' = IF used > Capacity THEN [prod EXCEPT !.pc = "corrupt"]
                      ELSE IF full THEN RingIdle ELSE [prod EXCEPT !.pc = "header"]
           /\ dropped' = IF used <= Capacity /\ full /\ count /\ dropped < MaxDropped
                         THEN dropped + 1 ELSE dropped
    /\ UNCHANGED <<buffer, head, tail, cons, popped>>

WriteHeader ==
    /\ prod.pc = "header"
    /\ buffer' = write_wrapped(buffer, head, to_le_bytes(Len(prod.packet)))
    /\ prod' = [prod EXCEPT !.pc = "payload"]
    /\ UNCHANGED <<head, tail, dropped, cons, popped>>

WritePayload ==
    /\ prod.pc = "payload"
    /\ buffer' = write_wrapped(buffer, Add(head, Header),
                     prod.packet \o Zeros(prod.size - Header - Len(prod.packet)))
    /\ prod' = [prod EXCEPT !.pc = "publish"]
    /\ UNCHANGED <<head, tail, dropped, cons, popped>>

PublishHead ==
    /\ prod.pc = "publish"
    /\ head' = Add(head, prod.size)
    /\ prod' = RingIdle
    /\ UNCHANGED <<buffer, tail, dropped, cons, popped>>

(***************************************************************************)
(* try_pop_into.  An empty ring is polled again; an error is final, because *)
(* the pump that gets one ends.                                            *)
(***************************************************************************)
\* Mutant: a ring that is exactly full is taken for a corrupt one.
LoadHeadFullIsCorrupt ==
    /\ cons.pc = "idle"
    /\ LET used == Sub(head, tail)
       IN  cons' = [cons EXCEPT !.seen = used,
                                !.pc = IF used >= Capacity THEN "corrupt"
                                       ELSE IF used = 0 THEN "idle"
                                       ELSE IF used < Header THEN "truncated"
                                       ELSE "length"]
    /\ UNCHANGED <<buffer, head, tail, dropped, prod, popped>>

LoadHead ==
    /\ cons.pc = "idle"
    /\ LET used == Sub(head, tail)
       IN  cons' = [cons EXCEPT !.seen = used,
                                !.pc = IF used > Capacity THEN "corrupt"
                                       ELSE IF used = 0 THEN "idle"
                                       ELSE IF used < Header THEN "truncated"
                                       ELSE "length"]
    /\ UNCHANGED <<buffer, head, tail, dropped, prod, popped>>

ReadLength ==
    /\ cons.pc = "length"
    /\ LET n == from_le_bytes(read_wrapped(buffer, tail, Header))
           size == aligned_record_bytes(n)
       IN  cons' = IF n \notin 1 .. MaxPacket THEN [cons EXCEPT !.pc = "size_error"]
                   ELSE IF size > cons.seen \/ size > Capacity
                        THEN [cons EXCEPT !.pc = "truncated"]
                   ELSE [cons EXCEPT !.pc = "copy", !.size = n]
    /\ UNCHANGED <<buffer, head, tail, dropped, prod, popped>>

ReadPayload ==
    /\ cons.pc = "copy"
    /\ cons' = [cons EXCEPT !.pc = "release",
                            !.packet = read_wrapped(buffer, Add(tail, Header), cons.size)]
    /\ UNCHANGED <<buffer, head, tail, dropped, prod, popped>>

ReleaseTail ==
    /\ cons.pc = "release"
    /\ tail' = Add(tail, aligned_record_bytes(cons.size))
    /\ popped' = cons.packet
    /\ cons' = RingIdle
    /\ UNCHANGED <<buffer, head, dropped, prod>>

Producer ==
    \/ \E p \in Packets : LoadTail(p)
    \/ \E count \in BOOLEAN : CheckSpace(count)
    \/ WriteHeader \/ WritePayload \/ PublishHead

Consumer == LoadHead \/ ReadLength \/ ReadPayload \/ ReleaseTail

RingNext == Producer \/ Consumer

SpecRing == RingInit /\ [][RingNext]_ringVars

(***************************************************************************)
(* Properties.                                                             *)
(***************************************************************************)
ProducerLabels == {"idle", "check", "header", "payload", "publish",
                   "corrupt"}
ConsumerLabels == {"idle", "length", "copy", "release",
                   "corrupt", "truncated", "size_error"}

\* Two peers that follow the protocol never see each other as corrupt: neither
\* try_push_inner nor try_pop_into returns CorruptIndices, TruncatedRecord or
\* PacketSize for what the other side published, wherever head, tail and the
\* record wrap.
NoFalseCorruption ==
    /\ prod.pc # "corrupt"
    /\ cons.pc \notin {"corrupt", "truncated", "size_error"}

\* A record being written fits into the space behind the unread records, and
\* a record being read lies within the published ones, at every moment of
\* the copy and whatever the other side did since the index was loaded.
NoOverwrite ==
    /\ prod.pc \in {"header", "payload", "publish"}
       => Sub(head, tail) + prod.size <= Capacity
    /\ cons.pc \in {"copy", "release"}
       => aligned_record_bytes(cons.size) <= Sub(head, tail)

(***************************************************************************)
(* The ring implements PacketQueue.  The queue is what the bytes between   *)
(* tail and head decode to; the record that the consumer has copied and    *)
(* not yet released is still in it.                                        *)
(***************************************************************************)
\* The packets in the last u bytes before the head.
Decoded ==
    LET R[u \in 0 .. Capacity] ==
          IF u = 0 THEN <<>>
          ELSE LET at == Sub(head, u)
                   n  == from_le_bytes(read_wrapped(buffer, at, Header))
                   size == aligned_record_bytes(n)
               IN  IF n = 0 \/ size > u THEN <<<<>>>>
                   ELSE <<read_wrapped(buffer, Add(at, Header), n)>> \o R[u - size]
    IN  R
Records == Decoded[Sub(head, tail)]

RecordBytes(p) == aligned_record_bytes(Len(p))
Accepted == {p \in Packets : Len(p) \in 1 .. MaxPacket}

Queue == INSTANCE PacketQueue
    WITH Packets <- Accepted, Bytes <- RecordBytes, Limit <- Capacity,
         queue <- Records, used <- Sub(head, tail), taken <- popped

\* The ring is a bounded FIFO: what the bytes between tail and head decode to
\* only ever gains an offered packet at its end, when PublishHead stores the
\* head, and only ever loses its first packet, whole, when ReleaseTail stores
\* the tail; that packet is the one try_pop_into returns.
RingIsQueue == Queue!QueueSpec
=============================================================================
