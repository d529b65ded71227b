------------------------------ MODULE WakeSlot ------------------------------
(***************************************************************************)
(* What the reconcile code expects of the wake queue: per sandbox id one   *)
(* bit "wanted again" and at most one run.  A wake during a run is kept    *)
(* for one more run that starts after it.  Lifecycle is written on top of  *)
(* this, for one id.                                                       *)
(***************************************************************************)
CONSTANT ID

VARIABLES
    queued,   \* ids with a wake that no run has answered yet
    busy      \* ids that a worker is processing

slotVars == <<queued, busy>>

SlotInit == queued = {} /\ busy = {}

SlotWake(id) ==
    /\ id \notin queued
    /\ queued' = queued \cup {id}
    /\ UNCHANGED busy

SlotStart(id) ==
    /\ id \in queued \ busy
    /\ queued' = queued \ {id}
    /\ busy' = busy \cup {id}

SlotFinish(id) ==
    /\ id \in busy
    /\ busy' = busy \ {id}
    /\ UNCHANGED queued

SlotNext == \E id \in ID : SlotWake(id) \/ SlotStart(id) \/ SlotFinish(id)

SlotSpec == SlotInit /\ [][SlotNext]_slotVars
=============================================================================
