------------------------------ MODULE WorkGate ------------------------------
(***************************************************************************)
(* What the destructor of CThreadCollection (Threads.cpp) promises the     *)
(* workers of its activity: work begins only while the collection is open, *)
(* and the objects are deleted only when no work is in progress.           *)
(***************************************************************************)
CONSTANT Workers

VARIABLES
  busy,  \* the workers past their Wait() and short of their final Signal()
  open   \* whether deleting the objects is still ahead

Init == busy = {} /\ open = TRUE

Begin(w) ==
  /\ open
  /\ w \notin busy
  /\ busy' = busy \cup {w}
  /\ UNCHANGED open

End(w) ==
  /\ w \in busy
  /\ busy' = busy \ {w}
  /\ UNCHANGED open

Close ==
  /\ busy = {}
  /\ open' = FALSE
  /\ UNCHANGED busy

Reopen ==
  /\ ~open
  /\ open' = TRUE
  /\ UNCHANGED busy

Next == Close \/ Reopen \/ \E w \in Workers : Begin(w) \/ End(w)

Spec == Init /\ [][Next]_<<busy, open>>
=============================================================================
