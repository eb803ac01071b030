--------------------------- MODULE ReliableOffload ---------------------------
(***************************************************************************)
(* What an offload promises to its callers (OffloadItems): when the        *)
(* function returns for an object, the data plane has stored every one of  *)
(* the object's chunks that it did not answer for in vain.                 *)
(***************************************************************************)
EXTENDS Naturals

CONSTANTS Objects,     \* the objects that are offloaded
          NbChunks     \* NbChunks[o]: the number of chunks of an object

VARIABLES stored,      \* <<object, chunk>> pairs the data plane has stored
          inVain,      \* those it answers without storing anything
          finished     \* the objects whose offload returned

ChunksOf(o) == {o} \X (0 .. NbChunks[o] - 1)

Init == stored = {} /\ inVain = {} /\ finished = {}

Receive(o, s) == /\ stored' = stored \cup {<<o, s>>}
                 /\ inVain' = inVain \ {<<o, s>>}
                 /\ UNCHANGED finished

AnswerInVain(o, s) == /\ inVain' = inVain \cup {<<o, s>>}
                      /\ UNCHANGED <<stored, finished>>

Finish(o) == /\ ChunksOf(o) \subseteq stored \cup inVain
             /\ finished' = finished \cup {o}
             /\ UNCHANGED <<stored, inVain>>

(* The data plane drops an object that was offloaded; answers it gave      *)
(* before may still arrive.                                                *)
Evict(o) == /\ o \in finished
            /\ stored' = stored \ ChunksOf(o)
            /\ \E late \in SUBSET ChunksOf(o) : inVain' = (inVain \ ChunksOf(o)) \cup late
            /\ finished' = finished \ {o}

Next == \E o \in Objects :
          \/ \E s \in 0 .. NbChunks[o] - 1 : Receive(o, s) \/ AnswerInVain(o, s)
          \/ Finish(o)
          \/ Evict(o)

Spec == Init /\ [][Next]_<<stored, inVain, finished>>
=============================================================================
