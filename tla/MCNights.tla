------------------------------ MODULE MCNights ------------------------------
(***************************************************************************)
(* Nights that take two orphans at a time into detection and rescue, and   *)
(* nights that take one, over the same observations and rows.              *)
(***************************************************************************)
EXTENDS MCProposals

CONSTANT Parts   \* those a run drives

VARIABLE part

Narrow == INSTANCE Proposals WITH DetectLimit <- 1, RescueLimit <- 1

NightsInit == part \in Parts /\ Init
NightsNext ==
  \/ part = "two" /\ Next /\ UNCHANGED part
  \/ part = "one" /\ Narrow!Next /\ UNCHANGED part

\* A night that is not killed runs to its end.
FairNights ==
  /\ NightsInit /\ [][NightsNext]_<<part, vars>>
  /\ WF_<<part, vars>>(part = "two" /\ Night /\ UNCHANGED part)
  /\ WF_<<part, vars>>(part = "one" /\ Narrow!Night /\ UNCHANGED part)
=============================================================================
