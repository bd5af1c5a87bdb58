---------------------------- MODULE MCOrchestrator ----------------------------
\* Two tenants; the first dreams at minute 1 and wakes at 2, the second wakes
\* at the last minute of the day.
EXTENDS Orchestrator, TLC

CONSTANTS a, b

MCOrder == <<a, b>>
NightlyOne == (a :> 1) @@ (b :> None)
PersonalTwo == <<[t |-> a, slot |-> 2], [t |-> b, slot |-> DayLength - 1]>>
==============================================================================
