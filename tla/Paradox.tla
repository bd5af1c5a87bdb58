-------------------------------- MODULE Paradox --------------------------------
(***************************************************************************)
(* From a challenged identity core to a burning paradox and back into      *)
(* memory: the nightly task proposes a paradox loop for a core challenged  *)
(* often of late, a reviewer accepts and mind_propose opens the loop,      *)
(* mind_loop opens and resolves loops of its own, and while a paradox      *)
(* burns, engagements with an observation of an entity it names count for  *)
(* more.  The cores themselves are modelled in Identity.                   *)
(***************************************************************************)
EXTENDS Integers, FiniteSets, Sequences

CONSTANTS
  Cores,         \* identity cores
  Entity,        \* the entity id of the observation engaged with
  Callers,       \* calls that may overlap
  Challenged,    \* CHALLENGE_THRESHOLD
  Lookback,      \* LOOKBACK_DAYS
  Overlaps,      \* may calls and the task overlap?
  Decays,        \* does the nightly decay age the observation?
  MaxNow, MaxChallenges, MaxLoops, MaxLog, MaxFaults  \* bounds

ParadoxAssumption ==
  /\ IsFiniteSet(Cores) /\ Challenged \in Nat \ {0} /\ Lookback \in Nat /\ Overlaps \in BOOLEAN /\ Decays \in BOOLEAN
  /\ MaxNow \in Nat /\ MaxChallenges \in Nat /\ MaxLoops \in Nat /\ MaxLog \in Nat /\ MaxFaults \in Nat

VARIABLES
  now,
  challenges,  \* dates of each core's challenges
  proposals,   \* the row of each core's paradox_detected proposal
  loops,       \* open_loops by id
  task,        \* the nightly task: what it read and what is left
  scan,        \* what the last run reported, and what it inserted
  call,        \* a reviewer's or a resolver's step
  opened,      \* loops their callers were told of, or the reviewer's acceptance created
  phase, log,  \* the observation: charge phase, processing entries
  fresh,       \* engagements since one last moved the phase
  faults

vars == <<now, challenges, proposals, loops, task, scan, call, opened, phase, log, fresh, faults>>
mind == <<phase, log, fresh>>

LoopIds == 1..MaxLoops
NoLoop == [mode |-> "none", status |-> "none", ents |-> {}]
Modes == {"standard", "learning_objective", "paradox"}
Off == [on |-> FALSE]
Idle == [busy |-> FALSE]
Metabolized == 3

Loop(mode, ents) == [mode |-> mode, status |-> IF mode = "paradox" THEN "burning" ELSE "nagging", ents |-> ents]

Init ==
  /\ now = 0 /\ challenges = [k \in Cores |-> <<>>] /\ proposals = [k \in Cores |-> "none"]
  /\ loops = [i \in LoopIds |-> NoLoop] /\ task = Off
  /\ scan = [runs |-> 0, created |-> 0, inserted |-> 0]
  /\ call = [c \in Callers |-> Idle] /\ opened = {} /\ phase = 0 /\ log = 0 /\ fresh = 0 /\ faults = 0

Quiet == Overlaps \/ (task = Off /\ \A c \in Callers : call[c] = Idle)
Fault == faults < MaxFaults /\ faults' = faults + 1

Tick ==
  /\ Quiet /\ now < MaxNow /\ now' = now + 1
  /\ UNCHANGED <<challenges, proposals, loops, task, scan, call, opened, mind, faults>>

\* mind_identity, action=challenge.
Challenge(k) ==
  /\ Quiet /\ Len(challenges[k]) < MaxChallenges
  /\ challenges' = [challenges EXCEPT ![k] = Append(@, now)]
  /\ UNCHANGED <<now, proposals, loops, task, scan, call, opened, mind, faults>>

-----------------------------------------------------------------------------
(* Loops. *)

Free(i) == i \in LoopIds /\ \A j \in LoopIds : (loops[j] # NoLoop \/ j \in opened) => j < i

\* A call names both cores of a paradox; an acceptance names the one it has.
appendOpenLoop(i, loop) == Free(i) /\ loops' = [loops EXCEPT ![i] = loop] /\ opened' = opened \cup {i}

OpenLoop(i, mode, ents) ==
  /\ Quiet /\ IF mode = "paradox" THEN Cardinality(ents) = 2 ELSE ents = {}
  /\ appendOpenLoop(i, Loop(mode, ents))
  /\ UNCHANGED <<now, challenges, proposals, task, scan, call, mind, faults>>

Resolved(rows, i) == [rows EXCEPT ![i].status = "resolved"]

\* action=resolve reads all loops (a failed query reads none, and the id is not found) ...
ReadOpenLoops(c, i) ==
  /\ Quiet /\ call[c] = Idle /\ loops[i] # NoLoop
  /\ call' = [call EXCEPT ![c] = [busy |-> TRUE, kind |-> "resolve", loops |-> Resolved(loops, i)]]
  /\ UNCHANGED <<now, challenges, proposals, loops, task, scan, opened, mind, faults>>

\* ... and replaces them.
writeOpenLoops(c) ==
  /\ call[c] # Idle /\ call[c].kind = "resolve"
  /\ loops' = call[c].loops /\ call' = [call EXCEPT ![c] = Idle]
  /\ UNCHANGED <<now, challenges, proposals, task, scan, opened, mind, faults>>

-----------------------------------------------------------------------------
(* The nightly task. *)

recentChallenges(k) == {n \in DOMAIN challenges[k] : challenges[k][n] >= now - Lookback}

\* A failed query for the loops is no loops.
StartTask ==
  \E held \in {loops, [i \in LoopIds |-> NoLoop]} :
    /\ Quiet /\ task = Off
    /\ \/ held = loops /\ UNCHANGED faults
       \/ held # loops /\ Fault
    /\ task' = [on |-> TRUE, loops |-> held, todo |-> {k \in Cores : Cardinality(recentChallenges(k)) >= Challenged},
                created |-> 0, inserted |-> 0]
    /\ UNCHANGED <<now, challenges, proposals, loops, scan, call, opened, mind>>

alreadyHasParadox(rows, k) == \E i \in LoopIds : rows[i].mode = "paradox" /\ k \in rows[i].ents
proposalExists(k) == proposals[k] = "pending"

\* createProposal inserts nothing where a row with the key is there, whatever its status.
ProposeFor(k) ==
  /\ task # Off /\ k \in task.todo
  /\ LET proposes == ~alreadyHasParadox(task.loops, k) /\ ~proposalExists(k)
         inserts  == proposes /\ proposals[k] = "none"
     IN /\ proposals' = IF inserts THEN [proposals EXCEPT ![k] = "pending"] ELSE proposals
        /\ task' = [task EXCEPT !.todo = @ \ {k}, !.created = @ + (IF proposes THEN 1 ELSE 0),
                                !.inserted = @ + (IF inserts THEN 1 ELSE 0)]
  /\ UNCHANGED <<now, challenges, loops, scan, call, opened, mind, faults>>

EndTask ==
  /\ task # Off /\ task.todo = {} /\ task' = Off
  /\ scan' = [runs |-> scan.runs + 1, created |-> task.created, inserted |-> task.inserted]
  /\ scan.runs < MaxNow + 1
  /\ UNCHANGED <<now, challenges, proposals, loops, call, opened, mind, faults>>

-----------------------------------------------------------------------------
(* mind_propose, action=review. *)

GetProposal(c, k, decision) ==
  /\ Quiet /\ call[c] = Idle /\ proposals[k] = "pending"
  /\ call' = [call EXCEPT ![c] = [busy |-> TRUE, kind |-> "review", core |-> k, decision |-> decision]]
  /\ UNCHANGED <<now, challenges, proposals, loops, task, scan, opened, mind, faults>>

\* reviewProposal: an UPDATE by id, whatever the row's status has become.
reviewProposal(c) ==
  /\ call[c] # Idle /\ call[c].kind = "review"
  /\ proposals' = [proposals EXCEPT ![call[c].core] = call[c].decision]
  /\ call' = [call EXCEPT ![c] = IF @.decision = "accepted" THEN [@ EXCEPT !.kind = "effect"] ELSE Idle]
  /\ UNCHANGED <<now, challenges, loops, task, scan, opened, mind, faults>>

createParadoxLoop(k) == Loop("paradox", {k})

\* A failed read of the cores is core_not_found, a failed insert an error: no loop.
AcceptParadox(c, i) ==
  /\ call[c] # Idle /\ call[c].kind = "effect"
  /\ call' = [call EXCEPT ![c] = Idle]
  /\ \/ appendOpenLoop(i, createParadoxLoop(call[c].core)) /\ UNCHANGED faults
     \/ Fault /\ UNCHANGED <<loops, opened>>
  /\ UNCHANGED <<now, challenges, proposals, task, scan, mind>>

-----------------------------------------------------------------------------
(* mind_pull with process=true, and the decay that ages phases too. *)

linkedToBurningParadox == \E i \in LoopIds : loops[i].mode = "paradox" /\ loops[i].status = "burning" /\ Entity \in loops[i].ents
baseThreshold == IF linkedToBurningParadox THEN 2 ELSE 3

\* The threshold is compared with all entries ever logged.
Engage ==
  /\ Quiet /\ log < MaxLog /\ log' = log + 1
  /\ IF log + 1 >= baseThreshold /\ phase < Metabolized
     THEN phase' = phase + 1 /\ fresh' = 0
     ELSE phase' = phase /\ fresh' = fresh + 1
  /\ UNCHANGED <<now, challenges, proposals, loops, task, scan, call, opened, faults>>

RunDecay ==
  /\ Decays /\ Quiet /\ phase < 2 /\ phase' = phase + 1
  /\ UNCHANGED <<now, challenges, proposals, loops, task, scan, call, opened, log, fresh, faults>>

Next ==
  \/ Tick \/ StartTask \/ EndTask \/ Engage \/ RunDecay
  \/ \E k \in Cores : Challenge(k) \/ ProposeFor(k)
  \/ \E i \in LoopIds, mode \in Modes, ents \in SUBSET Cores : OpenLoop(i, mode, ents)
  \/ \E c \in Callers :
       \/ \E i \in LoopIds : ReadOpenLoops(c, i) \/ AcceptParadox(c, i)
       \/ \E k \in Cores, d \in {"accepted", "rejected"} : GetProposal(c, k, d)
       \/ writeOpenLoops(c) \/ reviewProposal(c)

Spec == Init /\ [][Next]_vars

-----------------------------------------------------------------------------
Holding(k) == \E c \in Callers : call[c] # Idle /\ call[c].kind \in {"review", "effect"} /\ call[c].core = k
ForCore(k) == {i \in LoopIds : loops[i].mode = "paradox" /\ loops[i].ents = {k}}
Covered(k) == (\E i \in LoopIds : loops[i].mode = "paradox" /\ k \in loops[i].ents) \/ proposals[k] = "pending"

TypeOK ==
  /\ now \in 0..MaxNow /\ proposals \in [Cores -> {"none", "pending", "accepted", "rejected"}]
  /\ \A i \in LoopIds : loops[i] = NoLoop \/ loops[i].mode \in Modes
  /\ opened \subseteq LoopIds /\ phase \in 0..Metabolized /\ log \in 0..MaxLog
  /\ \A k \in Cores : Len(challenges[k]) <= MaxChallenges

\* A loop that was opened is there, whatever became of it.
LoopsKept == \A i \in opened : loops[i] # NoLoop

\* While no query fails, an accepted paradox has its loop, and one loop.
AcceptedHasLoop == faults = 0 => \A k \in Cores : proposals[k] = "accepted" /\ ~Holding(k) => Cardinality(ForCore(k)) = 1

\* While no query fails, a paradox is proposed only for a core that no paradox loop, open or over, names, and only
\* when it was challenged often enough in the days looked back on.
ProposesInNeed ==
  \A k \in Cores : faults = 0 /\ proposals[k] = "none" /\ proposals'[k] = "pending"
    => /\ ~\E i \in LoopIds : loops[i].mode = "paradox" /\ k \in loops[i].ents
       /\ Cardinality(recentChallenges(k)) >= Challenged
ProposedInNeed == [][ProposesInNeed]_vars

\* Without a burning paradox that names its entity, it takes three engagements to move a phase.
AcceleratesByParadox ==
  log' # log /\ phase' # phase /\ log' < 3
    => \E i \in LoopIds : loops[i].mode = "paradox" /\ loops[i].status = "burning" /\ Entity \in loops[i].ents
AcceleratedByParadox == [][AcceleratesByParadox]_vars

\* A run ends with every candidate covered by a loop or a pending proposal.
EveryCandidate ==
  [][scan' # scan => \A k \in Cores : Cardinality(recentChallenges(k)) >= Challenged => Covered(k)]_vars

\* The scan reports as created what the run inserted.
CreatedIsInserted == scan.created = scan.inserted

\* Only an engagement moves a phase.
NotByTime == [][phase' # phase => log' # log]_vars

\* Each phase takes engagements of its own.
EngagementsPerPhase == [][log' # log /\ phase' # phase => fresh + 1 >= 2]_vars

=============================================================================
