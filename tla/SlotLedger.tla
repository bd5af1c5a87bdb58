------------------------------ MODULE SlotLedger ------------------------------
(***************************************************************************)
(* What the orchestrator's state file promises of the wakes that have a    *)
(* slot: a wake runs while its slot is not recorded, only wakes that ran   *)
(* are recorded, and a record stays until the file is lost as a whole.     *)
(***************************************************************************)
EXTENDS Naturals

CONSTANT Keys  \* a tenant's slot on a day
VARIABLES runs, recorded

Init == runs = [k \in Keys |-> 0] /\ recorded = {}

Wake(k) == k \notin recorded /\ runs' = [runs EXCEPT ![k] = @ + 1] /\ UNCHANGED recorded
Record(new) ==
  /\ \A k \in new : runs[k] > 0
  /\ recorded' = recorded \cup new /\ UNCHANGED runs
Lose == recorded' = {} /\ UNCHANGED runs

Next == (\E k \in Keys : Wake(k)) \/ (\E new \in SUBSET Keys : Record(new)) \/ Lose
Spec == Init /\ [][Next]_<<runs, recorded>>
==============================================================================
