------------------------------ MODULE MCReview ------------------------------
(***************************************************************************)
(* A mind_propose call beside the nights, on rows of every kind and with   *)
(* reads that fail and look empty; and in behaviours of their own, where   *)
(* only a duplicate is ever proposed, the same call beside the deletion of *)
(* the observations it is about, with a call that fails.                   *)
(***************************************************************************)
EXTENDS MCProposals

CONSTANT Parts   \* those a run drives

VARIABLE part

Deleted == INSTANCE Proposals WITH
  Editors <- {e}, LinkThreshold <- 100, RescueLimit <- 0, MaxFaults <- 1

PartInit == part \in Parts /\ IF part = "deleted" THEN Deleted!Init ELSE Init

PartNext ==
  \/ part = "reviewed" /\ Next /\ UNCHANGED part
  \/ part = "deleted" /\ Deleted!Next /\ UNCHANGED part

PartSpec == PartInit /\ [][PartNext]_<<part, vars>>
=============================================================================
