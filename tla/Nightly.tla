-------------------------------- MODULE Nightly --------------------------------
(***************************************************************************)
(* One tenant's nightly cycle around the work of its tasks: ten stages in  *)
(* order, each caught on its own, a heartbeat that reads and replaces the  *)
(* whole daemon_config blob, and the boundary a run takes from the trace   *)
(* of the run before.  Of the stages' work three effects are kept: the     *)
(* blob writes of the AI reviewer and of the expiry, the pass over what    *)
(* arrived since the boundary, and the rebuilt iron grip index.            *)
(*                                                                         *)
(* A run can be cut off at any point, which nothing catches.  The runs of  *)
(* a tenant do not overlap.                                                *)
(***************************************************************************)
EXTENDS Integers, FiniteSets, Sequences, FiniteSetsExt

CONSTANTS
  Items,        \* observations that arrive, change and gain or lose iron grip
  MaxNow,       \* bound on the clock, in days
  Lookback,     \* LOOKBACK_DAYS of a bootstrap pass
  ListLimit,    \* rows the shortest arrival listing returns
  MaxEdits,     \* bound on the changes to items
  MaxFailures,  \* bound on stages that throw
  MaxKills,     \* bound on runs cut off
  MaxFaults     \* bound on failing database calls that the code catches

Never == -1
Time == 0..MaxNow
Stages == <<"ai-review", "daemon-tasks", "decay", "subconscious", "valence-lexicon",
            "valence-floor", "novelty", "summary-backfill", "overviews", "embedding-backfill">>
Sweep == 2
Snapshot == 4       \* readAllTerritories comes between decay and subconscious
Overviews == 9
Checkpoints == {Sweep}
Keys == {"last_ai_review", "last_expiry", "last_scans"}

ASSUME NightlyAssumption ==
  /\ MaxNow \in Nat /\ Lookback \in Nat /\ ListLimit \in Nat /\ MaxEdits \in Nat /\ MaxFailures \in Nat
  /\ MaxKills \in Nat /\ MaxFaults \in Nat /\ IsFiniteSet(Items)

VARIABLES
  now,        \* the clock
  made, changed,       \* when an item was stored, when it was last stored or touched
  iron, index,         \* items with iron grip, entries of iron_grip_index
  keys, trace,         \* daemon_config.data: the other keys, last_daemon_run (or NoTrace)
  pc, stage,           \* the run's next step and the stage it is in
  start, boundary,     \* startedAt and arrivalBoundary of the run
  error, first,        \* error # null, persistedFirstStage
  job, held,           \* the blob write under way and the blob it read
  seen, lost,          \* territoryData: its iron items; was it left empty by a failed read?
  handled,             \* items a pass has looked at since they last changed
  tracked,             \* items changed after the first run that ended well
  green,               \* starts of the runs that ended with no failed stage
  spoilt,              \* has a stage of this run failed?
  reached, traced,     \* stages this run has left behind; has it written a trace?
  wrote,               \* the other keys ever written
  edits, failures, kills, faults

items   == <<made, changed, iron>>
blob    == <<keys, trace>>
run     == <<pc, stage, start, boundary, error, first, job, held, seen, lost>>
ghosts  == <<handled, tracked, green, spoilt, reached, traced, wrote>>
bounds  == <<edits, failures, kills, faults>>
vars    == <<now, items, index, blob, run, ghosts, bounds>>

NoTrace == [start |-> Never, finished |-> FALSE, error |-> FALSE, stages |-> 0]
Traces == [start : Time \cup {Never}, finished : BOOLEAN, error : BOOLEAN, stages : 0..Len(Stages)]
Blobs == [keys : SUBSET Keys, trace : Traces]
Blob == [keys |-> keys, trace |-> trace]
NoData == [keys |-> {}, trace |-> NoTrace]

TypeOK ==
  /\ now \in Time /\ made \in [Items -> Time \cup {Never}] /\ changed \in [Items -> Time \cup {Never}]
  /\ iron \subseteq Items /\ index \subseteq Items /\ Blob \in Blobs
  /\ pc \in {"off", "work", "pass", "done", "write", "close"} /\ stage \in 1..Len(Stages)
  /\ start \in Time /\ boundary \in Time \cup {Never} /\ error \in BOOLEAN /\ first \in BOOLEAN
  /\ job \in {"none", "last_ai_review", "last_expiry", "trace", "finish"} /\ held \in Blobs
  /\ seen \subseteq Items /\ lost \in BOOLEAN /\ handled \subseteq Items /\ tracked \subseteq Items
  /\ green \subseteq Time /\ spoilt \in BOOLEAN /\ reached \in 0..Len(Stages) /\ traced \in BOOLEAN /\ wrote \subseteq Keys
  /\ edits \in 0..MaxEdits /\ failures \in 0..MaxFailures
  /\ kills \in 0..MaxKills /\ faults \in 0..MaxFaults

Init ==
  /\ now = 0 /\ made = [i \in Items |-> Never] /\ changed = made
  /\ iron = {} /\ index = {} /\ keys = {} /\ trace = NoTrace
  /\ pc = "off" /\ stage = 1 /\ start = 0 /\ boundary = Never /\ error = FALSE /\ first = FALSE
  /\ job = "none" /\ held = NoData /\ seen = {} /\ lost = FALSE
  /\ handled = {} /\ tracked = {} /\ green = {} /\ spoilt = FALSE /\ reached = 0 /\ traced = FALSE /\ wrote = {}
  /\ edits = 0 /\ failures = 0 /\ kills = 0 /\ faults = 0

-----------------------------------------------------------------------------
(* What happens beside the run. *)

Tick == now < MaxNow /\ now' = now + 1 /\ UNCHANGED <<items, index, blob, run, ghosts, bounds>>

\* An item is stored, or touched by a tool call; mind_edit may set or take its iron
\* grip, and the entry it appends to the index is best effort.
Edit(i) ==
  \E grip, appended \in SUBSET {i} :
    /\ appended \subseteq grip
    /\ edits < MaxEdits /\ edits' = edits + 1
    /\ made' = [made EXCEPT ![i] = IF @ = Never THEN now ELSE @]
    /\ changed' = [changed EXCEPT ![i] = now]
    /\ iron' = (iron \ {i}) \cup grip
    /\ index' = index \cup appended
    /\ handled' = handled \ {i}
    /\ tracked' = IF green = {} THEN tracked ELSE tracked \cup {i}
    /\ UNCHANGED <<now, blob, run, green, spoilt, reached, traced, wrote, failures, kills, faults>>

-----------------------------------------------------------------------------
(* daemon_config. *)

\* readDaemonConfig answers a failed query with the defaults, whose data is empty.
readDaemonConfig(b) ==
  \/ b = Blob /\ UNCHANGED faults
  \/ faults < MaxFaults /\ faults' = faults + 1 /\ b = NoData

\* (Slip: an error in the trace is not looked at.)
extractPreviousSuccessfulRunStartedAt_AnyFinished(t) == IF t.finished THEN t.start ELSE Never
extractPreviousSuccessfulRunStartedAt(t) == IF t.finished /\ ~t.error THEN t.start ELSE Never

snapshot(finished) ==
  [start |-> start, finished |-> finished, error |-> error, stages |-> IF finished THEN Len(Stages) ELSE stage]

\* The blob a write stores: what it read, with its own key replaced.
\* (Slip: nothing of what was read is kept.)
Merged_Replaces == [keys |-> IF job = "finish" THEN {"last_scans"} ELSE {job} \cap Keys,
                    trace |-> IF job \in {"trace", "finish"} THEN snapshot(job = "finish") ELSE held.trace]
Merged == [keys |-> held.keys \cup (IF job = "finish" THEN {"last_scans"} ELSE {job} \cap Keys),
           trace |-> IF job \in {"trace", "finish"} THEN snapshot(job = "finish") ELSE held.trace]

\* A write is a read, and later the replacement of the whole blob.
ReadToWrite(j) == pc' = "write" /\ job' = j /\ readDaemonConfig(held')

\* The run leaves its stage for the next, or for finish().
NextStage ==
  /\ reached' = stage
  /\ IF stage = Len(Stages) THEN pc' = "close" /\ UNCHANGED stage
                            ELSE pc' = "work" /\ stage' = stage + 1

\* updateDaemonConfigData: the write lands, or fails and is logged; the run goes on.
updateDaemonConfigData ==
  /\ pc = "write" /\ job' = "none" /\ held' = NoData
  /\ \/ /\ keys' = Merged.keys /\ trace' = Merged.trace
        /\ wrote' = wrote \cup (Merged.keys \ held.keys) /\ traced' = (traced \/ job \in {"trace", "finish"})
        /\ UNCHANGED faults
     \/ /\ faults < MaxFaults /\ faults' = faults + 1
        /\ UNCHANGED <<keys, trace, wrote, traced>>
  /\ \/ job = "last_ai_review" /\ pc' = "done" /\ UNCHANGED <<stage, reached>>
     \/ job = "last_expiry" /\ pc' = "pass" /\ UNCHANGED <<stage, reached>>
     \/ job = "finish" /\ pc' = "off" /\ UNCHANGED <<stage, reached>>
     \/ job = "trace" /\ NextStage
  /\ UNCHANGED <<now, items, index, start, boundary, error, first, seen, lost, handled, tracked,
                 green, spoilt, edits, failures, kills>>

-----------------------------------------------------------------------------
(* The run. *)

\* runTenantCycle: the boundary is read before the run writes anything.
Start ==
  /\ pc = "off" /\ pc' = "work" /\ stage' = 1 /\ start' = now
  /\ \E b \in {Blob, NoData} : /\ readDaemonConfig(b)
                               /\ boundary' = extractPreviousSuccessfulRunStartedAt(b.trace)
  /\ error' = FALSE /\ first' = FALSE /\ seen' = {} /\ lost' = FALSE
  /\ spoilt' = FALSE /\ reached' = 0 /\ traced' = FALSE
  /\ UNCHANGED <<now, items, index, blob, job, held, handled, tracked, green, wrote, edits, failures, kills>>

\* With an AI binding the review ends in storeSummary; without, in nothing.
Review ==
  /\ pc = "work" /\ stage = 1 /\ ReadToWrite("last_ai_review")
  /\ UNCHANGED <<now, items, index, blob, stage, start, boundary, error, first, seen, lost, ghosts,
                 edits, failures, kills>>

\* expireStaleProposals leaves a breadcrumb when it deleted rows.
Expire ==
  /\ pc = "work" /\ stage = Sweep /\ ReadToWrite("last_expiry")
  /\ UNCHANGED <<now, items, index, blob, stage, start, boundary, error, first, seen, lost, ghosts,
                 edits, failures, kills>>

\* What a pass looks at: what was touched since the boundary, or in a bootstrap run
\* what was stored within the lookback.
Window == {i \in Items : IF boundary = Never THEN made[i] # Never /\ made[i] >= now - Lookback
                                             ELSE changed[i] >= boundary}

\* The tasks that read by arrival (cascade, kit hygiene, cross-agent, cross-tenant) list
\* the newest rows of the window, each up to its own limit and by its own grouping: what
\* one of them leaves out has that many others stored no earlier.
Listed(T) ==
  \A i \in Window \ T : Cardinality({j \in Window \ {i} : made[j] >= made[i]}) >= ListLimit

\* An item counts as looked at when every listing it belongs to returned it.
Pass ==
  /\ pc \in {"work", "pass"} /\ stage = Sweep /\ pc' = "done"
  /\ \E T \in SUBSET Window : Listed(T) /\ handled' = handled \cup T
  /\ UNCHANGED <<now, items, index, blob, stage, start, boundary, error, first, job, held, seen, lost,
                 tracked, green, spoilt, reached, traced, wrote, bounds>>

\* The territories are read once, outside every stage; a failed read is logged.
readAllTerritories ==
  /\ pc = "work" /\ stage = Snapshot /\ pc' = "done"
  /\ \/ seen' = iron /\ UNCHANGED <<lost, faults>>
     \/ faults < MaxFaults /\ faults' = faults + 1 /\ lost' = TRUE /\ UNCHANGED seen
  /\ UNCHANGED <<now, items, index, blob, stage, start, boundary, error, first, job, held, ghosts,
                 edits, failures, kills>>

\* writeIronGripIndex deletes every entry and stores those of the territories read.
writeIronGripIndex == index' = seen

WriteOverviews ==
  /\ pc = "work" /\ stage = Overviews /\ pc' = "done" /\ writeIronGripIndex
  /\ UNCHANGED <<now, items, blob, stage, start, boundary, error, first, job, held, seen, lost, ghosts, bounds>>

\* stageComplete persists on the first stage and on checkpoints.
Persists == ~first \/ stage \in Checkpoints

stageComplete ==
  /\ pc = "done" \/ (pc = "work" /\ stage \notin {Sweep, Snapshot, Overviews})
  /\ first' = TRUE
  /\ IF Persists THEN ReadToWrite("trace") /\ UNCHANGED <<stage, reached>>
                 ELSE NextStage /\ UNCHANGED <<job, held, faults>>
  /\ UNCHANGED <<now, items, index, blob, start, boundary, error, seen, lost, handled, tracked, green,
                 spoilt, traced, wrote, edits, failures, kills>>

\* A stage throws, before its work, in the middle or after: it is marked and the run goes on.
\* (Slip: the stage is listed and the error is not kept.)
stageFailed_Listed == error' = error
stageFailed == error' = TRUE

Throw ==
  /\ pc \in {"work", "pass", "done"} /\ failures < MaxFailures /\ failures' = failures + 1
  /\ stageFailed /\ spoilt' = TRUE /\ first' = TRUE
  /\ ReadToWrite("trace")
  /\ UNCHANGED <<now, items, index, blob, stage, start, boundary, seen, lost, handled, tracked, green,
                 reached, traced, wrote, edits, kills>>

finish ==
  /\ pc = "close" /\ ReadToWrite("finish")
  /\ green' = IF spoilt THEN green ELSE green \cup {start}
  /\ UNCHANGED <<now, items, index, blob, stage, start, boundary, error, first, seen, lost,
                 handled, tracked, spoilt, reached, traced, wrote, edits, failures, kills>>

\* The process is cut off: nothing runs and nothing is written.
Kill ==
  /\ pc # "off" /\ kills < MaxKills /\ kills' = kills + 1
  /\ pc' = "off" /\ job' = "none" /\ held' = NoData
  /\ UNCHANGED <<now, items, index, blob, stage, start, boundary, error, first, seen, lost, ghosts,
                 edits, failures, faults>>

Cycle ==
  \/ Review \/ Expire \/ Pass \/ readAllTerritories \/ WriteOverviews
  \/ stageComplete \/ Throw \/ finish \/ updateDaemonConfigData

Next == Tick \/ (\E i \in Items : Edit(i)) \/ Start \/ Cycle \/ Kill

Spec == Init /\ [][Next]_vars

\* The timer starts a run whenever none is under way; a run takes its next step.
FairSpec == Spec /\ WF_vars(Start) /\ WF_vars(Cycle)

-----------------------------------------------------------------------------
(* A run that failed or died never passes for a good one: the trace a boundary is *)
(* taken from belongs to a run none of whose stages failed.                       *)
BoundaryGreen == trace.finished /\ ~trace.error => trace.start \in green

\* As many others as a listing holds were stored no earlier.
Crowded(i) == Cardinality({j \in Items \ {i} : made[j] >= made[i]}) >= ListLimit

(* Work is skipped for want of room alone: an item changed before the start of a  *)
(* run that ended well has been looked at since, unless as many others as the     *)
(* shortest listing holds are as new (the boundary moves past what the limit left *)
(* out, and no later run comes back to it).  Holds while a bootstrap pass reaches *)
(* back further than the failed runs it replaces.                                 *)
NothingMissed == \A i \in tracked \ handled : Crowded(i) \/ \A g \in green : changed[i] >= g

(* What one writer of daemon_config puts there, the others keep. *)
KeysStay == wrote \subseteq keys

(* After a death the trace tells whether it came before or after the daemon-tasks *)
(* sweep, and names no stage the run had not left.                                *)
DeathPlaced ==
  pc = "off" /\ traced /\ ~trace.finished =>
    trace.stages <= reached /\ (reached >= Sweep => trace.stages >= Sweep)

(* A run that looks healthy has read the memories it reports on. *)
HealthyHasRead == pc = "off" /\ traced /\ trace.finished /\ ~trace.error => ~lost

(* The iron grip index, which tools write at best effort, comes to hold the items *)
(* of iron grip and no other once edits, failures and kills stop.                 *)
IronIndexed == <>[](index = iron)
=============================================================================
