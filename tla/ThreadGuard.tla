---------------------------- MODULE ThreadGuard ----------------------------
(***************************************************************************)
(* What CThreadOwner (utils.h) promises its clients: an object has at most *)
(* one worker, a worker told to end is never set going again, and the      *)
(* object's memory outlives its worker.                                    *)
(***************************************************************************)
CONSTANT Owners

VARIABLES
  thread,  \* per object: "none", "run", or "told" once it has to end
  freed    \* the objects whose memory has been given back

Init ==
  /\ thread = [o \in Owners |-> "none"]
  /\ freed = {}

Begin(o) ==
  /\ thread[o] = "none"
  /\ o \notin freed
  /\ thread' = [thread EXCEPT ![o] = "run"]
  /\ UNCHANGED freed

Tell(o) ==
  /\ thread[o] = "run"
  /\ thread' = [thread EXCEPT ![o] = "told"]
  /\ UNCHANGED freed

End(o) ==
  /\ thread[o] = "told"
  /\ thread' = [thread EXCEPT ![o] = "none"]
  /\ UNCHANGED freed

Free(o) ==
  /\ thread[o] = "none"
  /\ freed' = freed \cup {o}
  /\ UNCHANGED thread

Next == \E o \in Owners : Begin(o) \/ Tell(o) \/ End(o) \/ Free(o)

Spec == Init /\ [][Next]_<<thread, freed>>
=============================================================================
