------------------------------ MODULE TcpRelay ------------------------------
(* The relay of a connection (relay_streams of tcp_gateway.rs): one process *)
(* copies both directions through two fixed buffers and passes on each half *)
(* close once the buffer before it is empty.                                *)
(*                                                                          *)
(* The bytes of a direction are numbered in the order they are written, so  *)
(* that a lost, repeated or reordered byte shows.                           *)
EXTENDS Naturals, Sequences, Functions

CONSTANTS
    BufferSize,     \* BUFFER_SIZE
    MaxBytes        \* bound on the bytes a peer writes

ASSUME RelayAssumption == BufferSize \in Nat \ {0} /\ MaxBytes \in Nat

Directions == {"up", "down"}     \* client to broker, broker to client

VARIABLES
    written,        \* bytes the source has written
    shut,           \* the source has shut down its side
    taken,          \* bytes received from the source
    buffer,         \* RelayBuffer: bytes, offset, length
    ended,          \* client_ended, broker_ended
    writeClosed,    \* broker_write_closed, client_write_closed
    delivered,      \* what the sink got
    looping         \* "top" of the loop, "poll", or how relay_streams returned

byteVars == <<written, shut, taken, buffer, ended, writeClosed, delivered, looping>>

RelayInit ==
    /\ written = [d \in Directions |-> 0] /\ shut = [d \in Directions |-> FALSE]
    /\ taken = [d \in Directions |-> 0]
    /\ buffer = [d \in Directions |-> [bytes |-> [i \in 0..(BufferSize - 1) |-> 0], offset |-> 0, length |-> 0]]
    /\ ended = [d \in Directions |-> FALSE] /\ writeClosed = [d \in Directions |-> FALSE]
    /\ delivered = [d \in Directions |-> <<>>] /\ looping = "top"

\* The peers.
PeerWrites(d) ==
    /\ ~shut[d] /\ written[d] < MaxBytes
    /\ written' = [written EXCEPT ![d] = @ + 1]
    /\ UNCHANGED <<shut, taken, buffer, ended, writeClosed, delivered, looping>>
PeerCloses(d) ==
    /\ ~shut[d] /\ shut' = [shut EXCEPT ![d] = TRUE]
    /\ UNCHANGED <<written, taken, buffer, ended, writeClosed, delivered, looping>>

-----------------------------------------------------------------------------
\* Mutant: the half close overtakes the buffer.
ClosesWriteEarly(d) == ended[d]
\* A half close is passed on when nothing is left to send in its direction.
ClosesWrite(d) == ended[d] /\ buffer[d].length = 0

\* The top of the loop: shutdown_write where it is due, and the return when both
\* directions are done.
LoopTop ==
    /\ looping = "top"
    /\ writeClosed' = [d \in Directions |-> writeClosed[d] \/ ClosesWrite(d)]
    /\ looping' = IF \A d \in Directions : ended[d] /\ buffer[d].length = 0 THEN "done" ELSE "poll"
    /\ UNCHANGED <<written, shut, taken, buffer, ended, delivered>>

\* RelayBuffer::receive moves what is left to the front before it appends.
Compacted(b) == [b EXCEPT !.offset = 0,
                          !.bytes = [i \in DOMAIN b.bytes |->
                             IF i < b.length THEN b.bytes[b.offset + i] ELSE b.bytes[i]]]

\* Up to `count' bytes arrive, or the end of the stream; a spurious wake-up is no
\* step.  The source is polled only while there is room.
Receive(d) ==
    /\ looping = "poll" /\ ~ended[d] /\ buffer[d].length < BufferSize
    /\ LET b == Compacted(buffer[d]) IN
       \/ \E count \in 1..(BufferSize - b.length) :
             /\ taken[d] + count <= written[d]
             /\ buffer' = [buffer EXCEPT ![d] =
                   [b EXCEPT !.bytes = [i \in DOMAIN b.bytes |->
                                          IF i \in b.length..(b.length + count - 1)
                                          THEN taken[d] + 1 + (i - b.length) ELSE b.bytes[i]],
                             !.length = @ + count]]
             /\ taken' = [taken EXCEPT ![d] = @ + count] /\ UNCHANGED ended
       \/ /\ shut[d] /\ taken[d] = written[d]
          /\ ended' = [ended EXCEPT ![d] = TRUE]
          /\ buffer' = [buffer EXCEPT ![d] = b] /\ UNCHANGED taken
    /\ looping' = "top"
    /\ UNCHANGED <<written, shut, writeClosed, delivered>>

\* RelayBuffer::send: the sink takes a part of what is left.
Send(d) ==
    /\ looping = "poll" /\ buffer[d].length > 0
    /\ \E count \in 1..buffer[d].length :
          /\ buffer' = [buffer EXCEPT ![d].length = @ - count,
                                      ![d].offset = IF count = buffer[d].length THEN 0 ELSE @ + count]
          /\ delivered' = [delivered EXCEPT ![d] =
                @ \o [i \in 1..count |-> buffer[d].bytes[buffer[d].offset + i - 1]]]
    /\ looping' = "top"
    /\ UNCHANGED <<written, shut, taken, ended, writeClosed>>

\* A reset of either socket ends the relay.
RelayFails ==
    /\ looping = "poll" /\ looping' = "failed"
    /\ UNCHANGED <<written, shut, taken, buffer, ended, writeClosed, delivered>>

RelayLoop == LoopTop \/ (\E d \in Directions : Receive(d) \/ Send(d))
RelayNext == RelayLoop \/ RelayFails \/ (\E d \in Directions : PeerWrites(d) \/ PeerCloses(d))

-----------------------------------------------------------------------------
\* The relay is transparent, whatever is split, joined or delayed: a sink gets
\* the bytes of its source in order and without a gap, and it sees the end of the
\* stream, in either direction, only after the last byte (relay_streams).
RelayFaithful ==
    /\ \A d \in Directions : /\ \A i \in DOMAIN delivered[d] : delivered[d][i] = i
                             /\ Len(delivered[d]) + buffer[d].length = taken[d]
                             /\ writeClosed[d] => shut[d] /\ Len(delivered[d]) = written[d]
    /\ looping = "done" => \A d \in Directions : writeClosed[d]
=============================================================================
