------------------------------ MODULE JobSlot ------------------------------
(***************************************************************************)
(* What UpdateJobManager promises, without its threads: a single slot that *)
(* one update job takes and gives back.  A job that gave the slot back     *)
(* never takes it again.                                                   *)
(***************************************************************************)
CONSTANTS Jobs,   \* the update jobs that may be requested
          NoJob   \* "the slot is free"

VARIABLES slot,   \* the job that holds the slot, or NoJob
          ended   \* the jobs that have given it back

slotVars == <<slot, ended>>

Init ==
  /\ slot = NoJob
  /\ ended = {}

Take(j) ==
  /\ slot = NoJob
  /\ j \notin ended
  /\ slot' = j
  /\ UNCHANGED ended

GiveBack ==
  /\ slot # NoJob
  /\ ended' = ended \cup {slot}
  /\ slot' = NoJob

Next == GiveBack \/ \E j \in Jobs : Take(j)

Spec == Init /\ [][Next]_slotVars
============================================================================
