------------------------------ MODULE MCDuties ------------------------------
(***************************************************************************)
(* Small instances of what must happen in the end: the orchestrator's duty *)
(* passes, voice messages on their way to the brain, embeddings made up    *)
(* for, stale skills, the queue of orphans.  They share no state, so a     *)
(* behaviour drives one of them and leaves the others as they were.        *)
(***************************************************************************)
EXTENDS Orchestrator

CONSTANTS
  Parts,   \* those a run drives
  Filled, FilledFirst, FilledDead, FilledWarped, FillRequests, FillLimits, FillChunks, FillNight, FillFaults

\* Two tenants without slots.
DutyOrder == <<"a", "b">>
NoDreams == [t \in {"a", "b"} |-> None]
NoSlots == <<>>

VARIABLES part,
  arrived, forgotten, offset, rows, vPc, file, stored, vFaults, crashes,
  born, embedded, scheduled, requests, tried, night, bFaults,
  sNow, skills, proposed, review, sFaults,
  fresh, searched, attempts, archival, stage, backlog, troubles

Voices == INSTANCE VoiceBridge WITH
  Last <- 4, Voice <- {1, 3, 4}, Silent <- {}, Batch <- 3, MaxFaults <- 2, MaxCrashes <- 2, pc <- vPc, faults <- vFaults

\* A provider that never embeds row 1; and requests beside each other.
Nights == INSTANCE Backfill WITH
  Last <- 4, First <- 3, Dead <- {1}, Warped <- {}, Requests <- {"r1"}, Limits <- {3}, Chunks <- {1, 2}, NightCap <- 2,
  MaxFaults <- 1, faults <- bFaults
Shared == INSTANCE Backfill WITH
  Last <- Filled, First <- FilledFirst, Dead <- FilledDead, Warped <- FilledWarped, Requests <- FillRequests,
  Limits <- FillLimits, Chunks <- FillChunks, NightCap <- FillNight, MaxFaults <- FillFaults, faults <- bFaults

Aged == INSTANCE Skills WITH
  SkillKeys <- {"k1"}, Reviewers <- {"r1"}, MaxSkills <- 2, MaxNow <- 1, StaleAfter <- 1, MinAge <- 1, ScanCap <- 3,
  MaxFaults <- 0, now <- sNow, rows <- proposed, faults <- sFaults

\* Nights that search more rows than one night's detection makes them.
Queue == INSTANCE OrphanDrain WITH
  Slots <- 5, MaxAttempts <- 1, DetectLimit <- 1, RescueLimit <- 4, BacklogRescueLimit <- 5, Reach <- 2, MaxTroubles <- 2,
  tried <- searched

ASSUME FillAssumption == Shared!BackfillAssumption
ASSUME /\ Voices!BridgeAssumption /\ Nights!BackfillAssumption /\ Aged!SkillsAssumption
       /\ Queue!FlowAssumption /\ Queue!BoundsAssumption /\ Queue!ReachAssumption

VoiceVars == <<arrived, forgotten, offset, rows, vPc, file, stored, vFaults, crashes>>
FillVars  == <<born, embedded, scheduled, requests, tried, night, bFaults>>
SkillVars == <<sNow, skills, proposed, review, sFaults>>
QueueVars == <<fresh, searched, attempts, archival, stage, backlog, troubles>>
all == <<part, vars, VoiceVars, FillVars, SkillVars, QueueVars>>

AllInit ==
  /\ part \in Parts /\ Init /\ Voices!Init /\ Aged!Init
  /\ Queue!Init /\ (part # "queue" => fresh = <<>>)
  /\ IF part = "requests" THEN Shared!Init ELSE Nights!Init /\ (part # "drains" => embedded = {})

AllNext ==
  \/ part = "duty" /\ Next /\ UNCHANGED <<part, VoiceVars, FillVars, SkillVars, QueueVars>>
  \/ part = "voice" /\ Voices!Next /\ UNCHANGED <<part, vars, FillVars, SkillVars, QueueVars>>
  \/ part = "drains" /\ Nights!Next /\ UNCHANGED <<part, vars, VoiceVars, SkillVars, QueueVars>>
  \/ part = "requests" /\ Shared!Next /\ UNCHANGED <<part, vars, VoiceVars, SkillVars, QueueVars>>
  \/ part = "skills" /\ Aged!Next /\ UNCHANGED <<part, vars, VoiceVars, FillVars, QueueVars>>
  \/ part = "queue" /\ Queue!Next /\ UNCHANGED <<part, vars, VoiceVars, FillVars, SkillVars>>

\* The fairness each of them states.
AllSpec ==
  /\ AllInit /\ [][AllNext]_all
  /\ \A p \in Procs : WF_all(part = "duty" /\ Moves(p) /\ UNCHANGED <<part, VoiceVars, FillVars, SkillVars, QueueVars>>)
  /\ WF_all(part = "voice" /\ Voices!Bridge /\ UNCHANGED <<part, vars, FillVars, SkillVars, QueueVars>>)
  /\ WF_all(part = "voice" /\ Voices!Arrive /\ UNCHANGED <<part, vars, FillVars, SkillVars, QueueVars>>)
  /\ WF_all(/\ part = "drains" /\ UNCHANGED <<part, vars, VoiceVars, SkillVars, QueueVars>>
            /\ \/ Nights!Fetch("r1") \/ Nights!Embed("r1") \/ Nights!Write("r1")
               \/ Nights!Throw("r1") \/ Nights!Count("r1"))
  /\ WF_all(/\ part = "drains" /\ UNCHANGED <<part, vars, VoiceVars, SkillVars, QueueVars>>
            /\ Nights!NightFetch \/ Nights!NightEmbed \/ Nights!NightWrite)
  /\ WF_all(part = "skills" /\ Aged!runSkillHealthTask /\ UNCHANGED <<part, vars, VoiceVars, FillVars, QueueVars>>)
  /\ WF_all(part = "skills" /\ Aged!Tick /\ UNCHANGED <<part, vars, VoiceVars, FillVars, QueueVars>>)
  /\ WF_all(part = "skills" /\ Aged!reviewCapturedSkillArtifact("r1")
            /\ UNCHANGED <<part, vars, VoiceVars, FillVars, QueueVars>>)
  /\ part = "queue" => []<><<Queue!Advances>>_all

-----------------------------------------------------------------------------
\* While no provider's run hangs for ever: every tick of the orchestrator ends, even when
\* two tenants hand the baton back and forth for ever, and every tenant with an open task
\* is woken for it.
TicksEnd == TickEnds /\ Served

\* When the passes end before their limit every baton has been taken up, but for those of
\* runs that ended in error and what came from outside; a row is sent to the provider once by a request, and what its answer lists as embedded is stored.
WorkTrue ==
  /\ Drained
  /\ part = "requests" => Shared!AttemptedOnce /\ Shared!AnswerIsTrue

\* What waits is seen to in the end: a voice message is stored, a request is answered, a row
\* gets its embedding although others never do, a stale skill is proposed for recapture.
SeenTo ==
  /\ part = "voice" => Voices!VoiceStored
  /\ part = "drains" => Nights!Ends /\ Nights!Drains
  /\ Aged!StaleProposed

\* postgres.ts on listOrphans: "head-of-line blocking impossible by construction now".  While
\* orphans with a settled archival leave the window roomy, no orphan of a queue longer than
\* the window waits for ever, unless its own archival was settled.
HeadNeverBlocks == part = "queue" => Queue!HeadNeverBlocks
=============================================================================
