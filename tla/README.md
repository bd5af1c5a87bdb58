# muse-brain in TLA+

A verification project for muse-brain, a multi-tenant memory service: a TypeScript
worker (`src/muse-brain/src`) that keeps observations, links, identity, tasks and
proposals in Postgres or SQLite, serves some twenty-five MCP tools, runs a nightly
daemon over every tenant, and is worked by a runner (`src/runner/src`) that wakes
agents and lets them act. Almost nothing in it holds a lock or a transaction wider
than one statement, so most of what can go wrong is an order of single calls. The
modules here take those calls one by one; TLC checks them on small instances, and
TLAPS proves what they check, but for liveness, for every value of the constants.

Paths are relative to `src/muse-brain/src` unless they start with `src/`.

**Contents.** 1 Inventory. 2 Modules. 3 Runs. 4 Fairness. 5 Findings and divergences.
6 Proofs. 7 What is only model-checked. 8 What is not modelled, and the plan.

## 1. Inventory

| Part | State | Operations | Interacts with |
| --- | --- | --- | --- |
| Proposal ledger (`daemon/tasks/{proposals,absorption,dedup}.ts`, `daemon/ai-review.ts`, `tools-v2/propose.ts`) | `daemon_proposals`, unique per type, source and target | propose, absorb, AI review, mind_propose, expire | links, textures, orphans |
| Orphan rescue (`daemon/tasks/orphans.ts`) | `orphan_observations`: status, attempts, timestamps | detect, search, propose, archive | ledger |
| Night (`daemon/cycle.ts`, `heartbeat.ts`, `context.ts`) | `daemon_config.data`, one JSON blob, with the trace of the last run | ten stages, each caught on its own; a success boundary | every task |
| Daemon tasks with judgment (`daemon/tasks/{paradox-detection,salience-regrade,skill-health,learning}.ts`) | rows of the ledger; the link threshold | scan, propose, tune | identity, observations, skills |
| Observations (`tools-v2/{memory,deeper,wake}.ts`, `daemon/decay.ts`) | `observations`, `processing_log` | store, pull, engage, edit, delete, decay, dream | links |
| Embeddings (`embedding/backfill.ts`, `index.ts`) | the embedding column | embed on store, POST /admin/backfill, nightly stage | provider |
| Retrieval (`tools-v2/memory.ts`, `retrieval/*`) | access counts, memory cascade | lanes, merge, score, rerank, count | observations |
| Identity (`tools-v2/identity.ts`) | cores, anchors, each a whole table | seed, reinforce, challenge, evolve, resonate | wake |
| Entities, projects, agents (`tools-v2/{entity,projects,agents}.ts`) | entities, dossiers, manifests, relations, links | create, update, normalize, relate, link, backfill | retrieval, runtime |
| Captured skills (`tools-v2/skills.ts`) | versions with a lifecycle | capture, review, recapture | night |
| Agent runtime (`tools-v2/runtime.ts`) | policy, session, run ledger | trigger, log_run, set_policy, set_session | tasks |
| Tasks and letters (`tools-v2/tasks.ts`, `daemon/tasks/task-scheduling.ts`) | `tasks`, `letters`, across tenants | create, create_dual, update, complete, schedule | runtime |
| Leases (`security/leases.ts`, `index.ts`) | lease ledger, audit events | parse, delegate, authorize, maintain | every tool call |
| Consent and watches (`tools-v2/safety.ts`) | one consent row; a trigger table | check, grant, revoke, set level; set, check | - |
| Front door (`index.ts`, `auth.ts`, `tenant-config.ts`) | bound secrets; rate-limit map of an isolate | authenticate, resolve tenant, limit | every request |
| SQLite store (`storage/sqlite.ts`) | one JSON document per collection | read, change, write back | every tool |
| Orchestrator (`src/runner/src/orchestrator.ts`) | a state file of slots and wakes | nightly, duty, personal and impulse loops | runtime, tasks |
| Harness (`src/runner/src/{agent,self-improvement}.ts`, `harness/*`) | one run's plan, attempts, budget | plan, execute, verify, repair, self-improve | ledger |
| Voice bridge (`src/runner/src/telegram-voice-bridge.ts`) | an offset in a file | poll, transcribe, store | brain |
| Cascade, cross-agent, cross-tenant, valence, recall contracts; receipts, connections, projections; benchmarks; CLI, ops, migrations | - | - | not modelled |

**What is hard, and what makes each part correct.**

* *Ledger.* A row is settled by absorption, by an AI reviewer that waits for a model
  between its read and its write, or by a call. The daemon writes effects first and
  the status last; a call does the reverse. Correct: what the daemon accepted is in
  the tables wherever it is killed, an archival is carried out whole, a decision is
  never undone by a night, and nothing absorbable is forgotten
  unless newer rows keep it out of the listing.
* *Orphans.* Two modes with different budgets, a listing window, a deadline, a count
  written after the rows it counts. Correct: archived only after a search, searched at
  most the budget's times and once more per failure, every orphan leaves the queue while
  the settled archivals leave the window room.
* *Night.* A run takes its boundary from the trace of the run before, which may have
  failed or been cut off; a blob that several writers read, merge and replace.
  Correct: the boundary is the start of a run that succeeded, no item is skipped but
  by a pass that more newer ones filled, no key of the blob is dropped while queries answer.
* *Judgment tasks.* They propose against tables that move while the row waits for
  review. Correct: what moves moves for its reason, and ceilings hold.
* *Observations.* An engagement is five statements; textures are read and written
  whole; territories are deleted and inserted in chunks from a snapshot. Correct: no
  row is lost or comes back, phases and counters go forward.
* *Runtime, tasks.* The budget is read long before the run is inserted; a claim has no
  status guard; tasks cross tenants. Correct: by the clock the
  budgets hold but for a known overshoot, no delegated task ends in silence, dependencies come first.
* *Leases, consent, watches.* "Omitted means unrestricted", chains of delegation,
  checks that replace the record they read, events that come late. Correct: narrowing
  composes, every act leaves its row, a yes follows a grant that still stands.
* *Front door, identity, search, registry.* Aliases and letter case decide a tenant;
  tables are replaced whole; several queries make one answer. Correct: a key acts for
  its tenant alone, an identity table says what the answered calls did, what a search
  shows it was asked for, counts once and does not put before what is far nearer, and the
  registry's rows hang on what they claim to hang on.
* *Runner.* Bookkeeping saved at the end of a tick, an offset saved per batch, a
  budget over attempts and repairs. Correct: a slot is not lost or repeated without
  cause, "completed" means verified, no voice message is skipped.

`PROJECT.json` lists the hazards at their lines with the properties that watch them.

## 2. Modules

Component modules, one per part; a step is one database call unless said otherwise.

| Module | Models | Instantiated by |
| --- | --- | --- |
| `Proposals` | the ledger, its reviewers, the night's tasks on it, mind_propose, mind_edit delete | `MCProposals`, then `MCNights`, `MCReview` |
| `OrphanDrain` | the orphan queue over many nights, its order and limits; a step is a stage | `MCDuties` |
| `Observations` | the rows of a territory and everything that writes them | `MCObservations` |
| `Nightly` | one tenant's ten stages, the blob, the boundary | `MCNightly` |
| `Paradox`, `Regrade`, `Skills`, `Learning` | a daemon task each, with the tools that carry its proposals on | `MCNightly` (`Skills` also `MCDuties`) |
| `Runtime`, `Tasks` | the wake budget; the shared tasks | `MCRuntime` |
| `Leases`, `Consent`, `Triggers` | trust envelope; consent record; watches | `MCLeases` |
| `Gateway`, `Identity`, `Retrieval`, `Registry` | front door; cores and anchors; mind_query; entities, dossiers, manifests | `MCGateway` |
| `Orchestrator`, `SlotLedger` | the runner's tick, and the ledger of slots it implements | `MCOrchestrator`, `MCDuties` |
| `Harness`, `VoiceBridge`, `Sqlite` | one harnessed run; the voice bridge; the document store | `MCHarness` |
| `Backfill` | embeddings and their backfill | `MCDuties` |

`*Proof` modules hold the theorems: `ProposalsProof`, `ObservationsProof`,
`RuntimeProof`, `HarnessProof`, `LeasesProof`, `GatewayProof`, `NightlyProof`,
`OrchestratorProof`.

**Composites.** A composite extends one component and instantiates the others, with a
variable `part` that says which of them a behaviour drives; the rest keep their initial
values. That is sound because the components it joins share no row: what one tells
another (a wake's pending flag, a task's agent, a core's challenges) is an input the
component itself leaves free. It is not an interleaving product, and nothing is claimed
of one. Components that do share rows are one module (`Proposals`: ledger, orphans,
links, textures; `Tasks`: both tenants, daemon, triggers; `Registry`: all five tables).
The same component under several constants is several parts.

### Abstractions worth knowing

* `Proposals`. Similarities and confidences are constants per pair; a texture is
  "metabolized or not"; the age of expiry is free (`Expire` takes any subset of the
  stale types). Reads of dedup, proposal and detection are one step with their
  idempotent insert; the long reads (AI review, orphan search) are split. `older` keeps
  the order of `proposed_at`, so that the absorption pass lists only the newest
  `ListLimit` pending rows of all types (200 in the code). A straggler
  of a failed `Promise.all` is not modelled. `Misreads` lets a failed query read empty.
* `OrphanDrain`. A batch stamped by one statement is a set, its order free. A slot
  whose orphan left stands for the next observation that ages. The rest of the ledger is
  not there: that newer rows keep an archival out of the absorption pass is a trouble of
  the night.
* `Observations`. `ChunkSize` (100 in the code) and `Thresholds` (2 and 3) are scaled
  down. Ghosts: `torn` (a rewrite overlapped a store, a delete, another rewrite, or
  died between chunks) and `overlapped` (two calls in flight).
* `Nightly`. Of ten stages' work three effects are kept: blob writes, the pass over
  what arrived since the boundary, the rebuilt iron index. `Lookback` is the window a
  run without a trace falls back to. The pass looks at the newest `ListLimit` rows of the
  window (30 in cascade, 50 in cross-tenant, 100 in cross-agent, 120 in kit hygiene), in
  any order among equal times. The caps on what a pass does with the rows it listed are
  below it (section 5).
* `Paradox`, `Regrade`, `Skills`. Times are small integers; a proposal's row in the
  ledger is its status. Which observation counts as forgotten is the code's test over
  grip, access and age; embeddings and wording are left out.
* `Runtime`. A day is `DayLength` ticks. A trigger's `now` is the clock or one of
  `Stamps`, whatever the clock says: it chooses the day whose usage is read and the time
  the cooldown is judged by, while a run's row is dated by the database. So the ledger is
  kept per day, as the counters of the rows since that day began. Intention pulse, prompts and workspace routing
  change nothing the gate reads.
* `Tasks`. Letters are counted as notices of completion only.
* `Leases`. A capability is a pair family and verb; an omitted scope and an empty one
  are the empty set, as the code treats them; a header is missing, malformed or a lease.
* `Triggers`. Events carry a time or none, and may come late or unsorted; the clock
  starts at hour `Start`, and no event was observed before hour zero.
* `Retrieval`. Similarities and ranks are whole percents, what a query and a text cue
  (`extractQuerySignals`, hints) is data, the circadian multiplier is left out, the
  legacy scorer is asked of Postgres only. Postgres looks in one query per lane, SQLite
  in one reading; the read-modify-write of SQLite's cascade is one step here, its
  overlaps are in `Sqlite`.
* `Registry`. Postgres; of tags, salience and context one note is kept; a normalize
  call has one roster entry; both finds of relate and link are one read. Rows are never
  deleted, so the ghost `been` (the types an entity has had) only grows.
* `Gateway`. The rate map is one isolate's. CORS, pings and JSON-RPC wording are out.
* `Orchestrator`. One tick's clock is the time it started at, as in the code. A run opens
  tasks for others or for its own tenant whether or not it then ends well, or while the
  tick that started it dies. A task whose run failed is gone from what triggers list. Prompts
  and provider command lines are out.
* `Harness`. A model's answer is what the gates tell apart: nothing, no object, one
  without the keys, one with them.
* `Sqlite`. A method is a sequence of read and write of one document after another;
  what two methods in flight do to each other is an interleaving of those. The array of
  observations is a set whose rows carry their place (`no`): what the code finds is the
  first row of an id, and nothing else of the order is looked at.

## 3. Runs

Every configuration is checked to the end; no run is a simulation.

| Run | Properties | Bounds, and why they are enough |
| --- | --- | --- |
| `proposals_night` | `DaemonAcceptanceBacked`, `OrphanExitComplete`, `ArchivedOnlyIfExhausted`, `AutomationInBand`, `RescueBudget`, `AbsorbableDrained` | two observations are every pairwise race; a confidence in each band (absorbed, AI only, below the floor); one fault, anywhere; a listing of one row, so that newer rows crowd it; nights without bound, two orphans at a time or one |
| `proposals_review` | `DecisionsSurvive` | one mind_propose call beside the nights over a link, an archival, a duplicate, with reads that fail; and beside a deletion |
| `observations` | `NothingLost`, `CountBehindLog`, `PhaseNeverRegresses` | two rows and one row per chunk, so a rewrite takes two transactions; two calls; the log reaches the threshold that advances a phase |
| `nightly` | `BoundaryGreen`, `NothingMissed`, `KeysStay`, `LedgersTrue`, `MovedForCause` | ten stages, two items changed twice and a listing of one, one failing stage, one cut-off run; two challenged cores; a forgotten memory and a vow; three skills of one key or two of two; six nights of the threshold |
| `work` | `AdmittedBounded`, `GateHolds`, `TasksTrue` | two triggers in flight, one editor of the policy; two days, with a `now` of the same, the earlier or the later; budgets where the impulse budget, the reserve or the cooldown binds; two tasks of two tenants, each with an agent |
| `safety` | `Narrowed`, `Outlived`, `Accountable`, `RecordsTrue`, `Honoured`, `SilenceTrue` | lines of three leases, so narrowing composes twice; two calls with the ledger failing and audit events lost; consent with a gated and a hard domain, one caller and a failed query; each kind of watch checked three times with a failed query, and two watches in one table |
| `gateway` | `KeyBindsTenant`, `OwnName`, `SlidingBound`, `ToolsTrue`, `FoundAndFiled` | a tenant that is also an alias, one in capitals, a stranger; three keys; limits of two per window of two; one caller of each tool alone, and two overlapping ones with a failed query; two cores of two weights and two anchors, five calls or four; three observations in two territories; four entities |
| `runner` | `CompletedIsVerified`, `OneBudget`, `CountsTrue`, `VoiceKept`, `StoreTrue` | forty-eight contracts, two failing calls, a second reviewer; four updates in batches of three with two faults and two crashes; every method of the store, and two in flight with a crash |
| `minutes` | `SlotsKept`, `ImplementsLedger` | six minutes of days of four, a dream, two personal slots and impulses, one exception or kill anywhere |
| `duties` | `WorkTrue`, `TicksEnd`, `SeenTo`, `HeadNeverBlocks` | two tenants handing a baton back and forth, by runs that end well or in error; messages through failures and crashes; a row the provider never embeds; a skill that ages; five orphans at a time and a window of four, with two nights killed, archivals settled or left |
| `observations_wiped` | violation of `NothingLost` | finding 1 |
| `sqlite_parallel` | violation of `AddedKept` | finding 2 |

`MaxFaults`, `MaxKills`, `MaxMishaps` and the like bound how many failures there are,
never where. The clocks, logs and ledgers that the code lets grow stop at named bounds
in the guards (`MaxNow`, `MaxLog`, `MaxRows`, `Horizon`, ...). Symmetry is used in
`observations` and `work` (the calls) and in `nightly` (the items), beside invariants and
action properties only.

**Deadlock** is checked in the `proposals` runs, where nights repeat for ever, and in
`minutes`, whose clock stops at `Horizon` while ticks go on starting. The other runs drive clients, clocks and bounded queues
that may simply stop.

`PROJECT.json` gives each property of a passing run a slip of the code that breaks it:
a guard dropped, an order swapped, a reset forgotten. The operators named `X_Something`
beside a definition `X`, marked "Slip", are those; no specification uses them.

## 4. Fairness

* `proposals_night`: weak fairness of the night. The scheduler starts one every day,
  and one that is not killed runs its stages to the end. No fairness of calls or faults.
* `duties`: of the tick's steps between its jobs (`Moves`), not of a job's end: the runner
  waits for a provider's `close` without a limit (`src/runner/src/provider-executor.ts:30-49`,
  `run.sh:325`, `:389`), and launchd starts no second tick beside one that hangs. So what is
  shown is conditional (`RunsEnd`): while no run hangs for ever, every tick ends and every
  open task is woken for. One that hangs stops everything, and nothing but a person ends it;
  of the bridge and of the arrival of what it polls; of a request's and the night's own
  steps in the backfill; of the skill task, the clock and one reviewer; of the night in
  the queue, which is always enabled. Each is a loop of the program or its timer.
* Everything else is checked for safety only, under `[][Next]_vars`.

A tenant whose every night is killed drains nothing, and a bridge whose provider always
fails stores nothing: no property says otherwise. Faults are bounded in those runs
instead.

## 5. Findings and divergences

Two runs end in a violation of what a text of the repository says (`findings` in
`PROJECT.json` quotes both sides):

1. `observations_wiped`: "rarely surfaced but never deleted". A dream reads each
   territory twice; the second read of a failed query is an empty list, and the empty
   list is written back.
2. `sqlite_parallel`: "favors correctness". Two appends issued through one
   `Promise.all` keep only the last; both links of an accepted proposal are such a pair.

Met while modelling, visible in the modules, and not made into runs of their own:

| Where | The code | The text |
| --- | --- | --- |
| `storage/postgres.ts:564` | a dream or a wake with decay (`tools-v2/deeper.ts:337`, `:645`, `tools-v2/wake.ts:151`) writes a territory back without processing_count, entity and embedding | "rarely surfaced but never deleted" |
| `tools-v2/memory.ts:451` | a delete rewrites the link table from a snapshot and drops a link inserted meanwhile | "remove an observation and its links" |
| `tools-v2/deeper.ts:336` | a dream or decay writes back what it read: an observation stored meanwhile is lost, one deleted meanwhile comes back | "rarely surfaced but never deleted" |
| `storage/postgres.ts:4164` | of two engagements at once the later one writes the phase it derived from an older one | - |
| `types.ts:491` | two calls that both read a judgment row as pending both settle it | "a deliberate, permanent tombstone" |
| `daemon/tasks/absorption.ts:6` | archived, not metabolized, when the read of the texture fails | "metabolize observation + mark orphan archived" |
| `storage/postgres.ts:3530` | archivals that were settled keep their place at the head of the window; once they fill it (three of four places, in the model, with four troubles and without `Roomy`) no orphan behind them is ever carried out | "head-of-line blocking impossible by construction now" |
| `daemon/tasks/absorption.ts:33` | only the newest 200 pending rows are listed: an absorbable one behind more of them waits, perhaps for ever | - |
| `daemon/tasks/cascade.ts:12`, `cross-tenant.ts:112` | a pass lists the newest 30 (50, 100, 120) rows of its window and a green run advances the boundary over the others, which no later run looks at | - |
| `daemon/tasks/cross-tenant.ts:183` | pairs beyond the fifty of a run, and cascade's beyond twenty, are dropped while the boundary advances | "deferred to a later run" |
| `daemon/tasks/orphans.ts:233` | a night killed after its searches and before they are counted searches the same orphans again | "MAX_RESCUE_ATTEMPTS_STEADY = 3" |
| `tools-v2/runtime.ts:350` | a trigger whose `now` is on a later day reads an empty day: neither budget, reserve nor cooldown refuses it | "Optional event timestamp" (`:128`) |
| `src/runner/run.sh:399` | a run that opened a task for a peer and then ended in error is no progress (`orchestrator.ts:305-314`, `:478`), so the peer is not woken before the next tick | "same-cycle baton handoff" (`src/runner/README.md:58`) |
| `index.ts:778` | a fetch of dead rows alone ends the request with live rows behind them | "nothing left to attempt" (`:767`) |
| `storage/postgres.ts:1120` | a vector of the wrong size makes the write throw, and the request with it, its good rows unwritten | "a bad row is skipped, never aborts the whole request" (`index.ts:640`) |
| `security/leases.ts:287` | a parent's empty list of shared territories restricts no child, which may then name some its parent could not read (`Comparable` leaves that case out) | "Delegated leases cannot widen omitted parent fields" (`:50`) |
| `daemon/heartbeat.ts:216` | a failed read of daemon_config is an empty blob, and the write that follows drops every other key; so do two writers that overlap | - |
| `tools-v2/identity.ts:362` | overlapping identity calls take each other back | - |
| `tools-v2/tasks.ts:255` | the letter of a completion that fails is swallowed; nobody writes it again unless the task is completed again | - |
| `daemon/tasks/salience-regrade.ts:160` | a failed read of the statistics is an empty queue, and the run fills it past its ceiling | - |
| `daemon/tasks/paradox-detection.ts:51` | a failed read of the loops is none, and a paradox that has one is proposed again | - |
| `daemon/decay.ts:97` | charge phases age by time | "**intentional engagement**, not time" (`src/muse-brain/docs/CAPABILITIES.md:137`) |
| `storage/interface.ts` | `entity_id` of a hybrid search adds a lane | "Filter to observations linked to this entity." |
| `storage/postgres.ts` | its entity lane ignores territory and grip, and no lane filters on charge_phase; SQLite does both | one interface |
| `tools-v2/projects.ts` | a create that fails between entity and dossier leaves a project that can never get one | - |
| `tools-v2/projects.ts:3` | mind_entity retypes a project or agent under its dossier or manifest | "Canonical identity lives in entities(entity_type='project')" |
| `tools-v2/agents.ts` | overlapping updates leave an explicit manifest with a router | - |
| `storage/sqlite.ts` | no unique index on entity names | Postgres has one |
| `storage/sqlite.ts:693` | a deletion that ends between its documents leaves links, versions or hints of an observation that a second attempt no longer finds | - |
| `tools-v2/projects.ts` | an update whose read of the old metadata fails erases the rest of it | - |
| `storage/postgres.ts:4917` | the last impulse is looked for among the day's runs, so a cooldown ends at midnight | "Minimum time between impulse-driven wakes" |
| `tools-v2/runtime.ts:677` | duties are counted in the daily budget and never held to it | "Total wake cycles allowed per day" |
| `tools-v2/runtime.ts:680` | impulses that were refused are rows, and rows spend the impulse budget | "Separate budget for curiosity-driven wakes" |
| `tools-v2/runtime.ts:512` | a trigger writes back the session it resolved, over a newer one | "stores resumable state" |
| `tools-v2/runtime.ts:276` | a policy whose mode is changed keeps the budgets of the mode before | "`lean` (6 wakes/day)" |
| `tools-v2/safety.ts:269` | a check that overlaps a revocation writes the grant back | - |
| `tools-v2/safety.ts:290` | a grant without a level is a session without an end | "current session only" |
| `tools-v2/safety.ts` | a failed read of the consent row answers the default, which the call then writes | - |
| `tools-v2/safety.ts:607` | a check writes back the table it read, without a watch another call set meanwhile; so does a set after a failed read (`storage/postgres.ts:1776`) | "Trigger set. I'll notice when this condition is met." |
| `tools-v2/safety.ts:509` | an event observed before the last firing comes late, and the silence after it counts as reported | the same |
| `tools-v2/safety.ts:501` | somebody who was never heard from is never missed | "The agent can notice absence." |
| `tools-v2/safety.ts:565` | of events without a time in one batch only the first is processed | "Processed in observed_at order." |
| `tools-v2/safety.ts:440` | a window that ends at zero ends at 23 | "time_window restricts to hours." |
| `tools-v2/skills.ts` | a review writes the status it decided on from the row it read, and revives a skill retired meanwhile | `validateTransition` lets nothing out of retired |
| `daemon/tasks/skill-health.ts` | with more skills than a scan reads, a candidate is proposed beside an accepted version it did not see | - |
| `tools-v2/entity.ts` | an overlapping backfill overwrites an explicit link | - |

The model made one condition precise that a comment leaves open. The search deadline of
`orphans.ts` must leave time for **more** than `DETECT_LIMIT x A` searches
(`ReachAssumption`): with exactly that many and a backlog, the never-tried orphans are
listed first every night and the tried ones starve. And a settled archival takes a slot
of the window for ever, so the bound is really `D (A + 1) + settled < R`; the code's
margin gives it twenty-five such rows.

## 6. Proofs

Every theorem holds for every value of the constants that meets the named assumptions
(`...Assumption` in the component modules; TLC evaluates them in the runs). Each proof
is: an inductive invariant, that it holds initially, one lemma per action (or per call
of a handler), a step that collects them, `PTL`.

### ProposalsProof

| Theorem | Says | Under |
| --- | --- | --- |
| `TypeCorrect` | `TypeOK`, and whoever reviews holds a row | - |
| `OrphanSafety`, `RescuesBounded` | archivals earned, searches within the budget and one more per failure, archived means metabolized or gone | the last if reads do not fail |
| `AutomationSafety` | automation stays in its bands | - |
| `DaemonSafety` | accepted by the daemon means effects in place | no mind_edit delete |
| `DecisionsDurable` | no settled row is lost or reopened | - |
| `OneCallTombstones` | judgment rejections are permanent | one call at a time |
| `QuietExits` | orphans leave metabolized or linked | no calls, edits, failing reads |

`OrphanInv` adds to the properties that whoever has an orphan's row in hand has it of a
marked orphan, and an archival of one searched (`OrphanRowsEarned`); that an
orphan's searches are its counted attempts, one for a failure each, and one more while
tonight's are not yet counted (`SearchBudget`), since a night can be killed between the
two (`orphans.ts:233`);
and that a texture no longer owed is written (`TextureProgress`). `BandInv` carries a
row's band from the listing to the settling; `BackedInv` says which effects of the row
in the daemon's hand are already there. The conditions are not conveniences: without
them the table of section 5 has the counterexamples.

### ObservationsProof

| Theorem | Says | Under |
| --- | --- | --- |
| `TypeCorrect` | `TypeOK`, and a phase to be written has a predecessor | - |
| `CountsDocumented` | no row counts more engagements than the log documents | - |
| `RowsSafe` | nothing is lost or comes back until a rewrite is `torn` | reads do not fail |
| `PhasesForward` | no phase goes back until two calls have `overlapped` | - |

`CountInv` strengthens the bound by the number of engagements between their log entry
and their count, which is why the set of calls is finite. `RowInv`, `RewriteInv` and
`OverlapInv` say what a rewrite holds and owes, that until a tear one call rewrites and
rows and owed chunks are together everything stored and not deleted, and that until an
overlap nobody holds a phase behind the row's.

### RuntimeProof

`RuntimeTypeCorrect`; `ImpulsesBounded`: a day admits the largest budget plus one per
further trigger and per failed query, of impulses whose `now` is on the day of the clock
or an earlier one (a later one reads an empty day, and nothing bounds those); the invariant counts the triggers that have read
and not yet written, each with the usage it saw. `TheGateHolds`: no wake while a cooldown
runs, however the policy is edited, and the reserve left for duties as long as every mode's
default leaves one (`CoolInv`, and `ReserveInv` for each reserve that all modes leave at
least). `TasksAreTrue`, for any tenants,
triggers and tasks: `BoardInv` says what each trigger at work has seen done, who owns
and who is assigned, and which notice is owed.

### HarnessProof

`HarnessTypeCorrect`, `CompletedVerified`, `BudgetKept`, `CountsAreTrue` for every set
of contracts; `VoiceIsKept` for every number of updates, chat and batch size: the file
and the memory offset never pass a voice update that is not stored, which needs what
Telegram has forgotten to be behind the offset it was last polled with.

`StoreIsTrue` (`StoreTrue`), for any ids, territories and number of calls. Where methods
overlap, `StoreInv` follows each returned row: as long as its call clashed with no other,
the row is in the document and in every copy a call still holds, and no call in flight
deletes its observation. Where they run one at a time, `SerialInv` says how far the
method under way has come: a copy is its document, a deletion's observation is out of
exactly the documents it has been through, a rewriting holds the territory as it stands;
and a version's number is at most the count of its observation's versions (`CountedUp`),
which is why the next count is new.

### LeasesProof

`LinesDescend` (every lease is below each of its ancestors, scope by scope),
`DelegationNarrows`, `NoneOutlives`, `CallsAccounted`, `RowsEndOnce` (a row that ended
comes back only by a decision in flight), `ChainsTellTheTruth`. Narrowing is transitive
only for the two readings of an empty list together; the lemmas on `Below` are that.

`ConsentIsHonoured`: every grant that is stored, or held by the call under way, is
covered by a grant the user said and did not take back (`ConsentInv`); what the call
trims from the log is what the log trims (`TrimsOnce`). It needs one caller at a time
and grants that name their level; section 5 has what happens otherwise.
`SilencesAreTrue`: the signal of a silence watch is at or after everything the watch
was given, in the row and in what a call holds (`WatchInv`), and the windows a row
holds are those asked for, while no query fails. One caller; no window asked to end at
zero, which the code takes for 23.
`RecordsAreTrue` (`RecordsTrue`), for any batches and watches: `RecordInv` says of each
row what it has reported. A silence watch's reports are about different signals, all
before its last firing (`SilenceKept`); a presence watch's are changes it was given, none
after its last firing, a cooldown apart (`PresenceKept`). A batch is sorted by time and
an event no later than the last one is skipped, so a check is a function of the hours
(`PresenceTransition`), one event an hour; `PresenceByHour` shows that function defined,
by the least hour where it would not be, and `PresenceKeeps` carries the record from hour
to hour.

### GatewayProof

`KeysBind` and `NamesHold` (lemmas on `resolveTenant`, for any alias map and case),
`TwoWindowsAtMost` (in the open window as many requests as counted, at most one window's
worth in the length before it), `RefusalsJust`, `RotatesSeamlessly`,
`SearchShowsAndCounts` (what each lane holds was in scope when it read; what waits to be
counted was shown), `FindsAndFiles`. The last is the largest: a step of a registry call
rests on what its earlier steps made sure of (`been` records the types an entity has
had, and only grows), so the invariant says of every step a call still has in hand
which rows already stand.

`ToolsAreTrue` (`ToolsTrue`) rests on three more invariants, one per tool, and on the
registry's.

* `RankInv`: what a lane holds has a grip and a novelty from the data. Each lane gives at
  most its weight and the weights add up to one (`RelevanceWithin`). The capped multiplier
  lies between 117 and 135 of 125 whatever the row (`Weighted`), so a row further than
  135/117 ahead before it is ahead after it, and what is ahead of one of the first n is
  among them (`FirstAhead`).
* `IdentityInv`: every table stored or about to be written has whole histories and one
  canonical core at most, whoever overlaps and whatever read came back empty (`TwoInv`);
  with one caller, what a call is about to write differs from what is stored by exactly
  what it will be answered for (`Planned`), so the rows and the answered calls agree
  (`OneInv`). How often a call was answered is a ghost, `done`.
* `AloneInv`: a call is somewhere on the route of what was asked (`OnRoute`); while it is
  quiet the tables are as it found them (`Kept`); a project keeps its name and, where only
  the routing changes, the rest of its metadata (`ProjectKept`); a manifest about to be
  written has the mode asked for (`CardKept`); the rows a backfill listed are linked or
  about to be, to the entity of their first tag (`RowsKept`). `CallsFit` says which steps a
  call can have in hand together, which is why most pairs of steps need no argument.

### NightlyProof

`BoundaryIsGreen`; `KeysStayThere`, when no query fails; `NothingIsMissed`, when the
fallback window reaches over the horizon (a shorter one skips what arrived before it,
as the code does): what was not looked at was crowded out of a pass's listing and stays
so (`CrowdedStays`), because items only grow newer and a window that fits its listing is
listed whole (`WindowHasAll`).

`LedgersAreTrue` and `MovesForCause` are about the four tasks that share the run, each
with an invariant of its own (`ParadoxInv`, `RegradeInv`, `SkillsInv`, `GovernorInv`);
`EachSteps` says that a step of the run is a step or a stutter of each, and TLC has
checked the first two with two callers and two runners as well. What they turn on: a
core's own paradox loops are none until its acceptance is carried out and then one
(`LoopPerCore`), because loops for two cores never name one alone; what a run of the
demotion still has to create fits under the ceiling with what is pending already
(`RunKeeps`), and the ceiling grows with the reviews (`CeilingGrows`); versions of a key
rise with the row's number, so the newest accepted one exists when any does
(`ImageHasMax`, by a minimal counterexample). Calls of one task come one at a time, also
the reviews of skills (the hypothesis on `Reviewers`; two that overlap revive a retired
skill, as section 5 says), and the second needs a health scan that reads all skills
(`MaxSkills <= ScanCap`; beyond the cap the code promotes without seeing the rest).

### OrchestratorProof

`TypeCorrect`, `GraceKept`, `BatonsTaken` (whoever has an open task when the passes end
before their limit got it from outside or from a run that ended in error, or failed
itself: `excused` follows them through a pass); and for one orchestrator process (`Alone`;
the runner is started once) `SlotsAreKept` and `KeepsTheLedger`, the refinement of
`SlotLedger` with the recorded slots of the state file: every step of the tick maps to
a wake, a record, the loss of the file, or a stutter.

`WorkIsTrue` (`WorkTrue`) adds the backfill requests of `MCDuties`, for all rows, limits,
chunk sizes and failures. Its invariant is `FillInv`: what a request has in hand is new
to it (`InHand`), every row it ever sent is settled or in hand (`Tried`), and its two
lists together are no longer than the rows it has processed. That a query for `n` rows
returns at most `n` (`QueryWithinLimit`) is shown with the last row it returns, which
exists because rows are well-ordered.

## 7. What is only model-checked

* Liveness: `AbsorbableDrained`, `TicksEnd`, `SeenTo`, `HeadNeverBlocks`. Fairness needs
  ENABLED, and the arguments are inductions over queues.

Every other property of a passing run is stated by a theorem of section 6: all the safety
invariants and action properties, and the refinement `ImplementsLedger`. A theorem with a
hypothesis says under what it holds.

## 8. Not modelled, and the plan

Left out for good: what only ranks, words or formats (embedding arithmetic, novelty
scores, prompts, JSON-RPC, notices), AI and HTTP clients, benchmarks, the CLI, ops and
templates. Migrations enter through the constraints they give the tables.

Not modelled, with state that could be: the tasks cascade, cross-agent, cross-tenant,
valence floor and recall contracts, which propose rows of types nothing here carries
out; receipts and connections; project read grants; `mind_query` without words.
The component list in `PROJECT.json` says of every part whether all of it is modelled.

