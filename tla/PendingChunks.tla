---------------------------- MODULE PendingChunks ----------------------------
(***************************************************************************)
(* What the chunk sequence table promises to the offloading thread: it     *)
(* remembers which chunks of the current object are unacknowledged, and it *)
(* is empty when the next object starts.                                   *)
(***************************************************************************)
EXTENDS Naturals

CONSTANT Seqs          \* the sequence numbers of chunks

VARIABLES pending,     \* the unacknowledged chunks
          next         \* the sequence number of the object's next chunk

Init == pending = {} /\ next = 0

(* Chunks are added in order, each once per object.                        *)
Add == /\ next \in Seqs
       /\ pending' = pending \cup {next}
       /\ next' = next + 1

(* An acknowledgement removes its chunk, the first time.                   *)
Acknowledge(s) == /\ s \in pending
                  /\ pending' = pending \ {s}
                  /\ UNCHANGED next

(* The object is done when the table says it is empty.                     *)
Finish == /\ pending = {}
          /\ next' = 0
          /\ UNCHANGED pending

Next == Add \/ (\E s \in Seqs : Acknowledge(s)) \/ Finish

Spec == Init /\ [][Next]_<<pending, next>>
=============================================================================
