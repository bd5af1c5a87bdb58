------------------------------ MODULE MCNightly ------------------------------
(***************************************************************************)
(* Small instances of the night: the run of ten stages around its work,    *)
(* and four of the tasks with what they lead to: paradoxes, the demotion   *)
(* of forgotten memories, the captured skills, the link threshold.  They   *)
(* keep their state apart, so a behaviour drives one and leaves the others *)
(* as they were.  Calls and runs of one task come one at a time.           *)
(***************************************************************************)
EXTENDS Nightly, TLC

CONSTANTS
    Parts,   \* those a run drives
    Cores, Entity, ParadoxCallers, Challenged, ParadoxLookback,
    ParadoxTime, MaxChallenges, MaxLoops, MaxLog, ParadoxFaults,
    Plain, Vows, Runners, Early, Cap, Ramp, ForgottenAge, SurfacedStale,
    Switches, MaxDay, MaxRuns, MaxAccess, RegradeFaults,
    SkillKeys, Reviewers, MaxSkills, SkillTime, StaleAfter, PromotionAge, ScanCap, SkillFaults,
    MinSample, DefaultThreshold, MaxRows, MaxNights, ThresholdFaults

VARIABLES part,
  pNow, challenges, proposals, loops, task, pScan, pCall, opened, phase, log, fresh, pFaults,
  day, shadow, switched, obs, shields, rRows, rRun, runs, rScan, rReview, rFaults,
  sNow, skills, sRows, sReview, sFaults,
  threshold, backlog, pending, accepted, rejected, nights, lFaults

Paradoxes == INSTANCE Paradox WITH
  Callers <- ParadoxCallers, Lookback <- ParadoxLookback, Overlaps <- FALSE, Decays <- TRUE,
  MaxNow <- ParadoxTime, MaxFaults <- ParadoxFaults,
  now <- pNow, scan <- pScan, call <- pCall, faults <- pFaults

Regraded == INSTANCE Regrade WITH
  MinAge <- ForgottenAge, Stale <- SurfacedStale, Overlaps <- FALSE, MaxFaults <- RegradeFaults,
  rows <- rRows, run <- rRun, scan <- rScan, review <- rReview, faults <- rFaults

Captured == INSTANCE Skills WITH
  MaxNow <- SkillTime, MinAge <- PromotionAge, MaxFaults <- SkillFaults,
  now <- sNow, rows <- sRows, review <- sReview, faults <- sFaults

Governed == INSTANCE Learning WITH
  Default <- DefaultThreshold, MaxFaults <- ThresholdFaults, faults <- lFaults

ASSUME TasksAssumption ==
  /\ Paradoxes!ParadoxAssumption /\ Regraded!RegradeAssumption
  /\ Captured!SkillsAssumption /\ Governed!LearningAssumption

-----------------------------------------------------------------------------
Night == <<now, made, changed, iron, index, keys, trace, pc, stage, start, boundary, error, first, job, held, seen,
           lost, handled, tracked, green, spoilt, reached, traced, wrote, edits, failures, kills, faults>>
Burning == <<pNow, challenges, proposals, loops, task, pScan, pCall, opened, phase, log, fresh, pFaults>>
Forgetting == <<day, shadow, switched, obs, shields, rRows, rRun, runs, rScan, rReview, rFaults>>
Registry == <<sNow, skills, sRows, sReview, sFaults>>
Governor == <<threshold, backlog, pending, accepted, rejected, nights, lFaults>>
all == <<part, Night, Burning, Forgetting, Registry, Governor>>

AllInit ==
  /\ part \in Parts /\ Init /\ Paradoxes!Init /\ Regraded!Init /\ Captured!Init
  /\ Governed!Init /\ (part # "threshold" => backlog = FALSE)

\* Two days without a failure, or one with engagements, the decay and a query that fails.
Challenging == Paradoxes!Next /\ phase' = phase /\ log' = log /\ pFaults' = 0
Decaying == Paradoxes!Next /\ pNow' = pNow /\ pScan'.runs <= 1

\* Two skills of any keys with a query that fails, or three versions of one key, none of
\* which grows old.
Few == Captured!Next /\ Len(skills') <= 2
Versions == Captured!Next /\ sNow' = 0 /\ sFaults' = 0 /\ \A i, j \in DOMAIN skills' : skills'[i].key = skills'[j].key

AllNext ==
  \/ part = "night" /\ Next /\ UNCHANGED <<part, Burning, Forgetting, Registry, Governor>>
  \/ part = "paradox" /\ Challenging /\ UNCHANGED <<part, Night, Forgetting, Registry, Governor>>
  \/ part = "decayed" /\ Decaying /\ UNCHANGED <<part, Night, Forgetting, Registry, Governor>>
  \/ part = "regrade" /\ Regraded!Next /\ UNCHANGED <<part, Night, Burning, Registry, Governor>>
  \/ part = "skills" /\ Few /\ UNCHANGED <<part, Night, Burning, Forgetting, Governor>>
  \/ part = "lineages" /\ Versions /\ UNCHANGED <<part, Night, Burning, Forgetting, Governor>>
  \/ part = "threshold" /\ Governed!Next /\ UNCHANGED <<part, Night, Burning, Forgetting, Registry>>

AllSpec == AllInit /\ [][AllNext]_all

\* The items of the night are alike.
Alike == Permutations(Items)

-----------------------------------------------------------------------------
\* What the tasks keep stays true: a loop that was opened is there and an accepted paradox
\* has one, the queue of demotions stays under its ceiling and its runs report what they
\* inserted, and no two skills of a key have one version.
LedgersTrue ==
  /\ Paradoxes!LoopsKept /\ Paradoxes!AcceptedHasLoop
  /\ Regraded!WipBound /\ Regraded!CreatedTrue /\ Regraded!ShadowCreatesNone
  /\ Captured!OneVersionEach

\* What is proposed is called for, and what moves, moves for its reason: a paradox for a core
\* challenged often of late that has none, a demotion of what is forgotten and unprotected, a
\* promotion or a supersession against the accepted versions there are; a phase faster only by a
\* burning paradox, a memory down only by an accepted row, a skill along its lifecycle, the
\* threshold on a sample of reviewed links and never in backlog mode.
ForCause ==
  /\ Paradoxes!ProposesInNeed /\ Regraded!ProposesForgotten /\ Captured!ProposesLineage
  /\ Paradoxes!AcceleratesByParadox /\ Regraded!DemotesReviewed /\ Captured!FollowsLifecycle
  /\ Governed!LowersOnAcceptance /\ Governed!StaysInBacklog /\ Governed!HasSample
MovedForCause == [][ForCause]_all
=============================================================================
