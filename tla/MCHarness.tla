------------------------------- MODULE MCHarness -------------------------------
(***************************************************************************)
(* Small instances of the harnessed agent run, of the voice bridge beside  *)
(* it and of the document store a self-hosted brain keeps.  They share no  *)
(* state, so a behaviour drives one of them and leaves the others as they  *)
(* were.                                                                   *)
(***************************************************************************)
EXTENDS Harness

CONSTANTS
  Parts,                    \* those a run drives
  Updates, Voiced, Muffled, \* what the bridge hears: how many updates, the voice
                            \* messages among them, those without a word in them
  Size,                     \* most updates it gets at once
  VoiceFaults, VoiceCrashes,
  StoreIds, Territory,      \* what the store holds, and where an observation is appended
  StoreCalls, StoreCrashes, \* bounds on the store's calls and crashes
  Overlapping, AtOnce       \* the methods that overlap, and how many of them

MCTools == {"mind_wake", "mind_task"}
\* The shipped contract's gates with and without a required tool, and one with the
\* narrowest iteration cap.
MCContracts ==
  {[repair |-> r, max |-> n, gates |-> g, must |-> {"mind_task"}, cap |-> 1, improve |-> i] :
     r \in BOOLEAN, i \in BOOLEAN, n \in 0..2,
     g \in {Gates, {"required_output_keys", "non_empty_summary"}, {"must_call_tools"}, {"max_iterations"}}}

VARIABLES part,
  arrived, forgotten, offset, rows, pc, file, stored, vFaults, vCrashes,
  doc, calls, started, crashes, added, removed, clashed

Bridge == INSTANCE VoiceBridge WITH
  Last <- Updates, Voice <- Voiced, Silent <- Muffled, Batch <- Size,
  MaxFaults <- VoiceFaults, MaxCrashes <- VoiceCrashes, faults <- vFaults, crashes <- vCrashes

\* Everything but the backfill.
AllMethods == {"deleteObservation", "appendToTerritory", "rewriteTerritory", "advanceChargePhase",
  "expireStaleProposals", "touch", "embed", "incrementProcessingCount", "linkObservationToEntity",
  "appendLink", "createVersion", "createProcessingEntry", "appendOpenLoop", "createProposal",
  "reviewProposal", "markOrphan", "incrementRescueAttempt", "updateOrphanStatus",
  "updateProposalThreshold", "updateDaemonConfigData", "createTask", "updateTask",
  "openDueScheduledTasks", "createSkill", "reviewSkill", "recordAgentLease", "heartbeatAgentLease",
  "reapExpiredAgentLeases"}
MCTerritory == [o \in {1, 2} |-> IF o = 1 THEN "craft" ELSE "self"]

Serial == INSTANCE Sqlite WITH
  Ids <- StoreIds, Methods <- AllMethods, Width <- 1, MaxCalls <- StoreCalls, MaxCrashes <- 0
Overlap == INSTANCE Sqlite WITH
  Ids <- StoreIds, Methods <- Overlapping, Width <- AtOnce, MaxCalls <- StoreCalls, MaxCrashes <- StoreCrashes

ASSUME HeardAssumption == Bridge!BridgeAssumption
ASSUME StoreAssumption ==
  Serial!SqliteAssumption /\ Overlap!SqliteAssumption /\ Overlapping \subseteq AllMethods \cup {"backfill"}

Agent == <<contract, stage, attempt, total, text, called, erred, passed, status, code, artifacts, ledger, entered,
           proposal, queue, counted, decided, si, row, faults>>
Heard == <<arrived, forgotten, offset, rows, pc, file, stored, vFaults, vCrashes>>
Store == <<doc, calls, started, crashes, added, removed, clashed>>
all   == <<part, Agent, Heard, Store>>

\* Where the agent is not driven its contract does not matter, nor does the
\* first row where the store is not.
AllInit ==
  /\ part \in Parts
  /\ Init /\ (part # "run" => contract = CHOOSE c \in Contracts : TRUE)
  /\ Bridge!Init
  /\ Serial!Init /\ (part \notin {"serial", "overlap"} => doc.hints = {1})

AllNext ==
  \/ part = "run" /\ Next /\ UNCHANGED <<part, Heard, Store>>
  \/ part = "voice" /\ Bridge!Next /\ UNCHANGED <<part, Agent, Store>>
  \/ part = "serial" /\ Serial!Next /\ UNCHANGED <<part, Agent, Heard>>
  \/ part = "overlap" /\ Overlap!Next /\ UNCHANGED <<part, Agent, Heard>>

AllSpec == AllInit /\ [][AllNext]_all

------------------------------------------------------------------------------
\* What Telegram has dropped was stored, messages in the order they were sent, and again
\* only for a failed call or a crash.
VoiceKept == Bridge!NothingLost /\ Bridge!StoredInOrder /\ Bridge!RepeatsExplained

\* After methods of the store that ran one after the other its documents agree: what is
\* kept beside the observations is about those that exist, no version number is given
\* twice, and what was deleted is gone.  Of methods that overlap, a row whose append
\* returned is lost only to one that held a copy of the same document: never to one in
\* another document, nor to a crash.
StoreTrue ==
  /\ part = "serial" => Serial!SidecarsFollow /\ Serial!VersionsNumbered /\ Serial!DeletedGone
  /\ part = "overlap" => Overlap!LossNeedsClash

\* A row whose append returned is in its document.
AddedKept == part = "overlap" => Overlap!AddedKept
==============================================================================
