------------------------------ MODULE MCRuntime ------------------------------
(***************************************************************************)
(* Small instances of the work agents are woken for: the budget of their   *)
(* wakes and the tasks they share.  A wake's gate meets the tasks only as  *)
(* the flag pending, and a claim never looks at the budget, so a behaviour *)
(* drives one of them and leaves the other as it was.                      *)
(*                                                                         *)
(* Budgets are scaled down so that a day of a few ticks can spend them.    *)
(***************************************************************************)
EXTENDS Runtime, TLC

CONSTANTS
  Parts,                                 \* those a run drives
  Tenants, Nobody, Triggers, AgentOf,    \* of the tasks
  MaxTasks, Priority, PreviewLimit, TaskEdits, TaskFaults

Settings(d, i, r, g, c) ==
  [mode |-> "balanced", daily |-> d, impulse |-> i, reserve |-> r, gap |-> g, clear |-> c]

\* Defaults whose reserve binds before the impulse budget; a larger budget, where the impulse
\* budget does; a cooldown of two ticks.
Sparing == [m \in Modes |-> Settings(3, 2, 2, 0, FALSE)]
Offered == {Settings(5, 2, 1, 0, TRUE), Settings(9, 2, 1, 2, FALSE)}
MCAgentOf == [g \in {"g1", "g2"} |-> IF g = "g1" THEN "companion" ELSE "rainer"]
Alike == Permutations(Calls)   \* triggers are interchangeable
MCPriority == <<3, 4>>

VARIABLES part,
  created, status, owner, assignee, deps, wake, half, unsent, letters, unheard, rec, working,
  closedByOwner, reopened, edits, tFaults

Shared == INSTANCE Tasks WITH MaxEdits <- TaskEdits, MaxFaults <- TaskFaults, faults <- tFaults

ASSUME BoardAssumption == Shared!TasksAssumption

Wakes == <<clock, ledger, setting, session, pending, pc, seen, history, faults>>
Board == <<created, status, owner, assignee, deps, wake, half, unsent, letters, unheard, rec, working,
           closedByOwner, reopened, edits, tFaults>>
all == <<part, Wakes, Board>>

AllInit ==
  /\ part \in Parts
  /\ Init /\ (part # "wakes" => pending)
  /\ Shared!Init

\* Impulses at the gate, on either side of a midnight, under a policy with or without a gap;
\* wakes of every kind under the defaults, on one day, with every query answered.  The dated
\* and the paced pass as now a time of the day before, of the same day, or of the day after.
Flying == {c \in Calls : pc[c] # "idle"}
Undated == \A c \in Flying : seen[c].at = seen[c].began
Gated(gaps) ==
  /\ duty' = duty /\ session' = NoSession /\ clock' <= DayLength /\ (policy' # NoPolicy => policy'.gap \in gaps)
  /\ \A c \in Flying' : seen'[c].enforce /\ seen'[c].kind = "impulse"
AllNext ==
  \/ /\ part = "wakes" /\ Next /\ Gated({0}) /\ Undated' /\ base' = base
     /\ IF clock' = 0 THEN pc' = pc ELSE pending' = pending
     /\ UNCHANGED <<part, Board>>
  \/ /\ part = "dated" /\ Next /\ Gated({0}) /\ faults' = 0 /\ base' = base
     /\ IF clock' = 0 THEN pc' = pc ELSE policy' = policy
     /\ UNCHANGED <<part, pending, Board>>
  \/ /\ part = "paced" /\ Next /\ Gated({2}) /\ faults' = 0 /\ impulse'[0] < MaxRows - 1
     /\ (policy' = NoPolicy => pc' = pc)
     /\ UNCHANGED <<part, pending, Board>>
  \/ /\ part = "tight" /\ Next /\ Undated' /\ policy' = NoPolicy /\ clock' = 0 /\ faults' = 0
     /\ duty'[0] + impulse'[0] < MaxRows - 1
     /\ UNCHANGED <<part, pending, Board>>
  \/ part = "tasks" /\ Shared!Next /\ UNCHANGED <<part, Wakes>>

AllSpec == AllInit /\ [][AllNext]_all

-----------------------------------------------------------------------------
\* What the gate holds back it holds back: the wakes reserved for duty, but for the overshoot
\* of triggers in flight together, and an impulse within the gap of the last one its day shows.
GateHolds == [][Cooled /\ ReserveHolds']_vars

\* The right agent works on the right task, and no delegated task ends in silence: an agent
\* at work found the dependencies done, owner and assignee are never both at it, and what an
\* assignee finished its owner is told, as far as letters can be written.
TasksTrue == Shared!NoSilentFinish /\ Shared!DependenciesFirst /\ Shared!OneTenantAtWork
=============================================================================
