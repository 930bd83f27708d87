---------------------------- MODULE DeviceQueue ----------------------------
(***************************************************************************)
(* What the rest of DXVK relies on when it submits and presents, and       *)
(* nothing of how: entries reach the Vulkan queue in the order they were   *)
(* accepted in, what they use is released in that order and only after the *)
(* GPU is done with it, and a call that waits gets back only once what it  *)
(* waits for has come.  SubmissionQueue.tla implements this with two       *)
(* threads and three condition variables.                                  *)
(***************************************************************************)
EXTENDS Integers, Sequences, FiniteSets

CONSTANTS
  Callers,      \* threads that submit, present and wait
  MaxQueued     \* command lists are accepted while no more entries are held

VARIABLES
  kind,         \* kind[e] of every entry accepted so far, cmdlist or present
  status,       \* status[e] of every entry that the Vulkan queue has been given
  executing,    \* command lists that the GPU has not completed
  lost,         \* the Vulkan device is lost
  held,         \* entries whose resources or presenter are referenced
  reusable,     \* command lists that may be recorded again
  waits         \* waits[c]: what the call of caller c waits for

queueVars == <<kind, status, executing, lost, held, reusable, waits>>

NoWait == [for |-> "nothing", entry |-> 0]

Init ==
  /\ kind = <<>> /\ status = <<>>
  /\ executing = {} /\ lost = FALSE /\ held = {} /\ reusable = {}
  /\ waits = [c \in Callers |-> NoWait]

\* An entry is accepted; a command list only if there is room.
Accept(k) ==
  /\ k = "cmdlist" => Cardinality(held) <= MaxQueued
  /\ kind' = Append(kind, k)
  /\ held' = held \cup {Len(kind) + 1}
  /\ UNCHANGED <<status, executing, lost, reusable, waits>>

\* The next entry is given to the Vulkan queue, which takes it or does not.
Give(r) ==
  LET e == Len(status) + 1
  IN /\ e <= Len(kind)
     /\ r = "lost" <=> lost
     /\ status' = Append(status, r)
     /\ executing' = IF r = "success" /\ kind[e] = "cmdlist"
                     THEN executing \cup {e} ELSE executing
     /\ UNCHANGED <<kind, lost, held, reusable, waits>>

\* The GPU completes the oldest command list.
Complete ==
  /\ \E e \in executing : (\A f \in executing : e <= f) /\ executing' = executing \ {e}
  /\ UNCHANGED <<kind, status, lost, held, reusable, waits>>

Lose ==
  /\ lost' = TRUE
  /\ UNCHANGED <<kind, status, executing, held, reusable, waits>>

\* What an entry uses is released, and its signals are fired.
Release(e) ==
  /\ e <= Len(status)
  /\ lost \/ (e \notin executing /\ \A f \in held : e <= f)
  /\ held' = held \ {e}
  /\ UNCHANGED <<kind, status, executing, lost, reusable, waits>>

Recycle(e) ==
  /\ kind[e] = "cmdlist"
  /\ e \notin held
  /\ reusable' = reusable \cup {e}
  /\ UNCHANGED <<kind, status, executing, lost, held, waits>>

\* A call waits for one entry to be submitted or to be released, or for
\* everything that has been accepted so far.
Wait(c) ==
  /\ waits[c] = NoWait
  /\ \E for \in {"submission", "release", "idle"}, e \in 0 .. Len(kind) :
       /\ for = "idle" => e = Len(kind)
       /\ waits' = [waits EXCEPT ![c] = [for |-> for, entry |-> e]]
  /\ UNCHANGED <<kind, status, executing, lost, held, reusable>>

Satisfied(w) ==
  CASE w.for = "submission" -> w.entry <= Len(status)
    [] w.for = "release"    -> w.entry \notin held
    [] w.for = "idle"       -> /\ \A e \in held : e > w.entry
                               /\ executing = {} \/ lost

Return(c) ==
  /\ waits[c] # NoWait
  /\ Satisfied(waits[c])
  /\ waits' = [waits EXCEPT ![c] = NoWait]
  /\ UNCHANGED <<kind, status, executing, lost, held, reusable>>

Next ==
  \/ \E k \in {"cmdlist", "present"} : Accept(k)
  \/ \E r \in {"success", "lost", "error"} : Give(r)
  \/ Complete \/ Lose
  \/ \E e \in 1 .. Len(kind) : Release(e) \/ Recycle(e)
  \/ \E c \in Callers : Wait(c) \/ Return(c)

Spec == Init /\ [][Next]_queueVars

=============================================================================
