--------------------------- MODULE ReliableEviction ---------------------------
(***************************************************************************)
(* What an eviction promises to the block accounting: the blocks of an     *)
(* object are booked from before it is on the NIC until after the data     *)
(* plane has dropped it, so the data plane never holds more than is booked *)
(* - except for objects that are excused, because the data plane answered  *)
(* for them more often than it dropped them.                               *)
(***************************************************************************)
EXTENDS Naturals

CONSTANT Items

VARIABLES booked,     \* the objects whose blocks are taken
          resident,   \* the objects the data plane holds
          excused

Init == booked = Items /\ resident = Items /\ excused = {}

Offload(it) == /\ it \notin booked \/ it \in excused
               /\ booked' \in {booked \cup {it}} \cup (IF it \in excused THEN {booked} ELSE {})
               /\ resident' = resident \cup {it}
               /\ UNCHANGED excused

Drop(it) == /\ it \in resident
            /\ it \in booked \cup excused
            /\ resident' = resident \ {it}
            /\ UNCHANGED <<booked, excused>>

Free(it) == /\ it \in booked
            /\ it \notin resident \ excused
            /\ booked' = booked \ {it}
            /\ UNCHANGED <<resident, excused>>

Excuse == /\ excused' \in SUBSET Items
          /\ excused \subseteq excused'
          /\ UNCHANGED <<booked, resident>>

Next == Excuse \/ \E it \in Items : Offload(it) \/ Drop(it) \/ Free(it)

Spec == Init /\ [][Next]_<<booked, resident, excused>>
=============================================================================
