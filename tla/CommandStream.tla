--------------------------- MODULE CommandStream ---------------------------
(***************************************************************************)
(* What a DXVK command stream promises to the front end, and nothing of    *)
(* how: chunks are numbered as they are dispatched, they complete one by   *)
(* one in that order, and a caller that waits for a chunk gets back only   *)
(* once it has completed.  CsThread.tla implements this with a worker      *)
(* thread, two mutexes and two condition variables; BufferMapping.tla      *)
(* takes it for granted.                                                   *)
(***************************************************************************)
EXTENDS Integers

CONSTANTS Callers    \* threads that dispatch and wait

VARIABLES dispatched,   \* number of the last chunk dispatched
          completed,    \* number of the last chunk whose commands have run
          target        \* target[c]: chunk that caller c waits for, or NotWaiting

streamVars == <<dispatched, completed, target>>

NotWaiting == -1

Init == /\ dispatched = 0
        /\ completed = 0
        /\ target = [c \in Callers |-> NotWaiting]

Dispatch == /\ dispatched' = dispatched + 1
            /\ UNCHANGED <<completed, target>>

Complete == /\ completed < dispatched
            /\ completed' = completed + 1
            /\ UNCHANGED <<dispatched, target>>

\* A caller may wait for any chunk dispatched so far. Chunk 0 is complete from
\* the start: who relies on dxvk_cs.h:406, by which 0 stands for all chunks, is
\* not served by this stream.
Wait(c) == /\ target[c] = NotWaiting
           /\ \E n \in 0 .. dispatched : target' = [target EXCEPT ![c] = n]
           /\ UNCHANGED <<dispatched, completed>>

Return(c) == /\ target[c] # NotWaiting
             /\ target[c] <= completed
             /\ target' = [target EXCEPT ![c] = NotWaiting]
             /\ UNCHANGED <<dispatched, completed>>

Next == \/ Dispatch
        \/ Complete
        \/ \E c \in Callers : Wait(c) \/ Return(c)

Spec == Init /\ [][Next]_streamVars

=============================================================================
