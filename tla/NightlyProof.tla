------------------------------ MODULE NightlyProof ------------------------------
(***************************************************************************)
(* For any number of items, days, edits, failing stages, cut-off runs and  *)
(* failing queries: no run takes its boundary from one that went badly.    *)
(* While no query fails, the writers of daemon_config keep each other's    *)
(* keys, although each replaces all of it.                                 *)
(***************************************************************************)
EXTENDS MCNightly, FiniteSetTheorems, SequenceTheorems, WellFoundedInduction, TLAPS

\* The heartbeat remembers a failed stage for as long as the run lasts; and the blob a
\* write read is no greener than the one it replaces.
GreenTrace(t) == t.finished /\ ~t.error => t.start \in green

BoundaryInv ==
  /\ error \in BOOLEAN /\ spoilt \in BOOLEAN
  /\ pc \in {"off", "work", "pass", "done", "write", "close"}
  /\ spoilt <=> error
  /\ GreenTrace(trace) /\ GreenTrace(held.trace)
  /\ pc = "write" /\ job = "finish" /\ ~error => start \in green
  /\ job \in {"none", "last_ai_review", "last_expiry", "trace", "finish"}

\* A blob read is good whether or not the query failed.
LEMMA ReadIsGreen ==
  ASSUME BoundaryInv, NEW b \in {Blob, NoData}
  PROVE  GreenTrace(b.trace)
<1>1. CASE b = Blob
  BY <1>1 DEF BoundaryInv, Blob
<1>2. CASE b = NoData
  BY <1>2 DEF GreenTrace, NoData, NoTrace
<1> QED BY <1>1, <1>2

LEMMA BoundaryInit == Init => BoundaryInv
<1> SUFFICES ASSUME Init PROVE BoundaryInv
  OBVIOUS
<1>1. trace = NoTrace /\ held.trace = NoTrace
  BY DEF Init, NoData
<1>2. GreenTrace(NoTrace)
  BY DEF GreenTrace, NoTrace
<1>3. error = FALSE /\ spoilt = FALSE /\ pc = "off" /\ job = "none"
  BY DEF Init
<1> QED BY <1>1, <1>2, <1>3 DEF BoundaryInv

LEMMA BoundaryStep == BoundaryInv /\ [Next]_vars => BoundaryInv'
<1> SUFFICES ASSUME BoundaryInv, [Next]_vars PROVE BoundaryInv'
  OBVIOUS
<1> USE DEF BoundaryInv, GreenTrace
<1>1. CASE UNCHANGED vars
  BY <1>1 DEF vars, items, blob, run, ghosts, bounds
<1>2. CASE Tick
  BY <1>2 DEF Tick, items, blob, run, ghosts, bounds
<1>3. ASSUME NEW i \in Items, Edit(i) PROVE BoundaryInv'
  BY <1>3 DEF Edit, blob, run
<1>4. CASE Start
  BY <1>4 DEF Start, blob
<1>5. CASE Review
  <2>1. GreenTrace(held.trace)'
    <3>1. green' = green
      BY <1>5 DEF Review, ghosts
    <3>2. PICK b \in {Blob, NoData} : b = held'
      BY <1>5 DEF Review, ReadToWrite, readDaemonConfig
    <3>3. GreenTrace(b.trace)
      BY <3>2, ReadIsGreen
    <3> QED BY <3>1, <3>2, <3>3
  <2> QED BY <1>5, <2>1 DEF Review, ReadToWrite, blob, ghosts
<1>6. CASE Expire
  <2>1. GreenTrace(held.trace)'
    <3>1. green' = green
      BY <1>6 DEF Expire, ghosts
    <3>2. PICK b \in {Blob, NoData} : b = held'
      BY <1>6 DEF Expire, ReadToWrite, readDaemonConfig
    <3>3. GreenTrace(b.trace)
      BY <3>2, ReadIsGreen
    <3> QED BY <3>1, <3>2, <3>3
  <2> QED BY <1>6, <2>1 DEF Expire, ReadToWrite, blob, ghosts
<1>7. CASE Pass \/ readAllTerritories \/ WriteOverviews
  BY <1>7 DEF Pass, readAllTerritories, WriteOverviews, blob, ghosts
<1>8. CASE stageComplete
  <2>1. CASE Persists
    <3>1. green' = green /\ ReadToWrite("trace")
      BY <1>8, <2>1 DEF stageComplete
    <3>2. PICK b \in {Blob, NoData} : b = held'
      BY <3>1 DEF ReadToWrite, readDaemonConfig
    <3>3. GreenTrace(b.trace)
      BY <3>2, ReadIsGreen
    <3> QED BY <1>8, <2>1, <3>1, <3>2, <3>3 DEF stageComplete, ReadToWrite, blob
  <2>2. CASE ~Persists
    BY <1>8, <2>2 DEF stageComplete, NextStage, blob
  <2> QED BY <2>1, <2>2
<1>9. CASE Throw
  <2>1. green' = green /\ ReadToWrite("trace")
    BY <1>9 DEF Throw
  <2>2. PICK b \in {Blob, NoData} : b = held'
    BY <2>1 DEF ReadToWrite, readDaemonConfig
  <2>3. GreenTrace(b.trace)
    BY <2>2, ReadIsGreen
  <2> QED BY <1>9, <2>1, <2>2, <2>3 DEF Throw, ReadToWrite, stageFailed, blob
<1>10. CASE finish
  <2>1. ReadToWrite("finish") /\ green \subseteq green'
    BY <1>10 DEF finish
  <2>2. PICK b \in {Blob, NoData} : b = held'
    BY <2>1 DEF ReadToWrite, readDaemonConfig
  <2>3. GreenTrace(b.trace)
    BY <2>2, ReadIsGreen
  <2> QED BY <1>10, <2>1, <2>2, <2>3 DEF finish, ReadToWrite, blob
<1>11. CASE updateDaemonConfigData
  <2>1. green' = green /\ error' = error /\ spoilt' = spoilt /\ job' = "none" /\ held' = NoData /\ pc = "write"
    BY <1>11 DEF updateDaemonConfigData
  <2>2. pc' \in {"off", "work", "pass", "done", "close"}
    BY <1>11 DEF updateDaemonConfigData, NextStage
  <2>3. trace' = trace \/ trace' = Merged.trace
    BY <1>11 DEF updateDaemonConfigData
  <2>4. GreenTrace(Merged.trace)
    <3>1. CASE job = "finish"
      BY <2>1, <3>1 DEF Merged, snapshot
    <3>2. CASE job = "trace"
      BY <3>2 DEF Merged, snapshot
    <3>3. CASE job \notin {"trace", "finish"}
      BY <3>3 DEF Merged
    <3> QED BY <3>1, <3>2, <3>3
  <2>5. GreenTrace(trace)'
    BY <2>1, <2>3, <2>4
  <2>6. GreenTrace(held.trace)'
    BY <2>1 DEF NoData, NoTrace
  <2> QED BY <2>1, <2>2, <2>5, <2>6
<1>12. CASE Kill
  BY <1>12 DEF Kill, blob, ghosts, NoData, NoTrace
<1> QED
  BY <1>1, <1>2, <1>3, <1>4, <1>5, <1>6, <1>7, <1>8, <1>9, <1>10, <1>11, <1>12 DEF Next, Cycle

\* The boundary: for any failures, cut-offs and failing queries, the trace a boundary is
\* taken from belongs to a run none of whose stages failed.
THEOREM BoundaryIsGreen == Spec => []BoundaryGreen
<1>1. BoundaryInv => BoundaryGreen
  BY DEF BoundaryInv, GreenTrace, BoundaryGreen
<1> QED BY BoundaryInit, BoundaryStep, <1>1, PTL DEF Spec

-----------------------------------------------------------------------------
\* While queries do not fail, what a write holds has every key ever written.
KeysInv == wrote \subseteq keys /\ (pc = "write" => held.keys = keys)

\* The keys: with no failing query no writer of daemon_config drops another's key.
THEOREM KeysAreKept == ASSUME MaxFaults = 0 PROVE Spec => [](faults \in Nat /\ KeysInv)
<1> DEFINE Inv == faults \in Nat /\ KeysInv
<1>1. Init => Inv
  BY DEF Init, KeysInv
<1>2. Inv /\ [Next]_vars => Inv'
  <2> SUFFICES ASSUME Inv, [Next]_vars PROVE Inv'
    OBVIOUS
  <2> USE DEF KeysInv
  <2>0. ~(faults < MaxFaults)
    BY MaxFaults = 0
  <2>1. CASE UNCHANGED vars
    BY <2>1 DEF vars, items, blob, run, ghosts, bounds
  <2>2. CASE Tick
    BY <2>2 DEF Tick, items, blob, run, ghosts, bounds
  <2>3. ASSUME NEW i \in Items, Edit(i) PROVE Inv'
    BY <2>3 DEF Edit, blob, run
  <2>4. CASE Start
    BY <2>0, <2>4 DEF Start, blob, readDaemonConfig
  <2>5. CASE Review \/ Expire
    BY <2>0, <2>5 DEF Review, Expire, ReadToWrite, readDaemonConfig, Blob, blob, ghosts
  <2>6. CASE Pass \/ readAllTerritories \/ WriteOverviews
    BY <2>0, <2>6 DEF Pass, readAllTerritories, WriteOverviews, blob, ghosts, bounds
  <2>7. CASE stageComplete
    BY <2>0, <2>7 DEF stageComplete, ReadToWrite, NextStage, readDaemonConfig, Blob, blob
  <2>8. CASE Throw
    BY <2>0, <2>8 DEF Throw, ReadToWrite, readDaemonConfig, Blob, blob
  <2>9. CASE finish
    BY <2>0, <2>9 DEF finish, ReadToWrite, readDaemonConfig, Blob, blob
  <2>10. CASE updateDaemonConfigData
    <3>1. pc = "write" /\ pc' # "write"
      BY <2>10 DEF updateDaemonConfigData, NextStage
    <3>2. faults' = faults /\ keys' = Merged.keys /\ wrote' = wrote \cup (Merged.keys \ held.keys)
      BY <2>0, <2>10 DEF updateDaemonConfigData
    <3>3. held.keys \subseteq Merged.keys
      BY DEF Merged
    <3> QED BY <3>1, <3>2, <3>3
  <2>11. CASE Kill
    BY <2>11 DEF Kill, blob, ghosts
  <2> QED
    BY <2>1, <2>2, <2>3, <2>4, <2>5, <2>6, <2>7, <2>8, <2>9, <2>10, <2>11 DEF Next, Cycle
<1> QED BY <1>1, <1>2, PTL DEF Spec

\* The keys, as the run states it.
THEOREM KeysStayThere == ASSUME MaxFaults = 0 PROVE Spec => []KeysStay
<1>1. faults \in Nat /\ KeysInv => KeysStay
  BY DEF KeysInv, KeysStay
<1> QED BY KeysAreKept, <1>1, PTL
-----------------------------------------------------------------------------
(* Nothing missed *)

\* Has the run's arrival pass been made?
Swept ==
  \/ stage > Sweep
  \/ stage = Sweep /\ (pc = "done" \/ (pc = "write" /\ job = "trace"))

\* Times are times: nothing is ahead of the clock.
Timely ==
  /\ now \in Time /\ start \in 0..now /\ green \subseteq 0..now
  /\ made \in [Items -> Time \cup {Never}] /\ changed \in [Items -> Time \cup {Never}]
  /\ tracked \subseteq Items /\ \A i \in tracked : made[i] # Never

\* Where the run stands.
Placed ==
  /\ stage \in 1..Len(Stages)
  /\ pc = "close" => stage = Len(Stages)
  /\ pc = "write" /\ job = "last_ai_review" => stage = 1

\* NothingMissed alone says nothing of the run under way: once it has swept, what is
\* still unhandled was crowded out or changed after its start, so that its own end
\* may turn green.
SweepInv ==
  /\ Timely /\ Placed
  /\ boundary # Never => boundary \in green
  /\ NothingMissed
  /\ Swept /\ ~spoilt => \A i \in tracked \ handled : Crowded(i) \/ changed[i] >= start

LEMMA StagesTen == Len(Stages) = 10
BY DEF Stages

\* At least as many others in a larger set of others.
LEMMA MoreAreMore ==
  ASSUME NEW S, NEW R \in SUBSET Items, S \subseteq R, Cardinality(S) >= ListLimit
  PROVE  Cardinality(R) >= ListLimit
<1>1. IsFiniteSet(R)
  BY NightlyAssumption, FS_Subset
<1>2. IsFiniteSet(S) /\ Cardinality(S) <= Cardinality(R)
  BY <1>1, FS_Subset
<1>3. Cardinality(S) \in Nat /\ Cardinality(R) \in Nat
  BY <1>1, <1>2, FS_CardinalityType
<1> QED BY <1>2, <1>3, NightlyAssumption

\* Who was stored no later than others stays so: nobody is stored twice.
LEMMA CrowdedStays ==
  ASSUME Timely, Timely', NEW i \in Items, made[i] # Never, Crowded(i),
         \A j \in Items : made[j] # Never => made'[j] = made[j]
  PROVE  Crowded(i)'
<1>1. {j \in Items \ {i} : made[j] >= made[i]} \subseteq {j \in Items \ {i} : made'[j] >= made'[i]}
  BY DEF Timely, Time, Never
<1> QED BY <1>1, MoreAreMore DEF Crowded

\* While a bootstrap pass reaches back to the first day, a pass has everything unhandled
\* in its window, and leaves out what is crowded.
LEMMA WindowHasAll ==
  ASSUME SweepInv, Lookback >= MaxNow, NEW i \in tracked \ handled, ~Crowded(i)
  PROVE  i \in Window
<1>1. i \in Items /\ made[i] # Never /\ made[i] \in Time /\ now \in Time
  BY DEF SweepInv, Timely
<1>2. CASE boundary = Never
  <2>1. made[i] >= now - Lookback
    BY <1>1, NightlyAssumption DEF Time
  <2> QED BY <1>1, <1>2, <2>1 DEF Window
<1>3. CASE boundary # Never
  <2>1. changed[i] >= boundary
    BY <1>3 DEF SweepInv, NothingMissed
  <2> QED BY <1>1, <1>3, <2>1 DEF Window
<1> QED BY <1>2, <1>3

LEMMA PassLeavesCrowded ==
  ASSUME SweepInv, Lookback >= MaxNow, NEW T \in SUBSET Window, Listed(T),
         NEW i \in tracked \ (handled \cup T)
  PROVE  Crowded(i)
<1>1. CASE i \in Window
  <2>1. Cardinality({j \in Window \ {i} : made[j] >= made[i]}) >= ListLimit
    BY <1>1 DEF Listed
  <2>2. Window \subseteq Items
    BY DEF Window
  <2> QED BY <2>1, <2>2, MoreAreMore DEF Crowded
<1>2. CASE i \notin Window
  BY <1>2, WindowHasAll
<1> QED BY <1>1, <1>2

\* A step that leaves the items and what is known of them alone, and the run unswept
\* or as swept as it was.
LEMMA RunStepKeeps ==
  ASSUME SweepInv, UNCHANGED <<now, items, start, boundary, tracked, handled, green>>,
         Placed', Swept' => Swept \/ spoilt', spoilt => spoilt'
  PROVE  SweepInv'
BY DEF SweepInv, Timely, NothingMissed, Crowded, items

LEMMA SweepStep ==
  ASSUME BoundaryInv, SweepInv, Lookback >= MaxNow, [Next]_vars
  PROVE  SweepInv'
<1> USE StagesTen DEF Sweep
<1>1. CASE UNCHANGED vars
  BY <1>1 DEF vars, items, run, ghosts, SweepInv, Timely, Placed, NothingMissed, Crowded, Swept
<1>2. CASE Tick
  <2>1. now' = now + 1 /\ now' \in Time /\ UNCHANGED <<items, run, ghosts>>
    BY <1>2, NightlyAssumption DEF Tick, SweepInv, Timely, Time
  <2> QED BY <2>1 DEF items, run, ghosts, SweepInv, Timely, Placed, NothingMissed, Crowded, Swept, Time
<1>3. ASSUME NEW i \in Items, Edit(i) PROVE SweepInv'
  <2>1. /\ made' = [made EXCEPT ![i] = IF @ = Never THEN now ELSE @]
        /\ changed' = [changed EXCEPT ![i] = now] /\ handled' = handled \ {i}
        /\ tracked' \in {tracked, tracked \cup {i}}
        /\ UNCHANGED <<now, run, green, spoilt>>
    BY <1>3 DEF Edit
  <2>2. Timely'
    <3>1. made' \in [Items -> Time \cup {Never}] /\ changed' \in [Items -> Time \cup {Never}]
      BY <2>1 DEF SweepInv, Timely
    <3>2. \A j \in tracked' : j \in Items /\ made'[j] # Never
      BY <2>1 DEF SweepInv, Timely, Time, Never
    <3> QED BY <2>1, <3>1, <3>2 DEF SweepInv, Timely, run
  <2>3. \A j \in tracked' \ handled' :
          changed'[j] = now \/ (j \in tracked \ handled /\ changed'[j] = changed[j])
    BY <2>1 DEF SweepInv, Timely
  <2>c. \A j \in tracked \ handled : Crowded(j) => Crowded(j)'
    <3>1. \A k \in Items : made[k] # Never => made'[k] = made[k]
      BY <2>1 DEF SweepInv, Timely
    <3> QED BY <3>1, <2>2, CrowdedStays DEF SweepInv, Timely
  <2>4. NothingMissed'
    BY <2>1, <2>3, <2>c DEF SweepInv, Timely, NothingMissed, Time
  <2>5. Swept' = Swept /\ start' = start /\ boundary' = boundary /\ Placed'
    BY <2>1 DEF run, Swept, SweepInv, Placed
  <2> QED BY <2>1, <2>2, <2>3, <2>c, <2>4, <2>5 DEF SweepInv, Timely, Time
<1>4. CASE Start
  <2>1. PICK b \in {Blob, NoData} : boundary' = extractPreviousSuccessfulRunStartedAt(b.trace)
    BY <1>4 DEF Start
  <2>2. boundary' # Never => boundary' \in green
    BY <2>1, ReadIsGreen DEF GreenTrace, extractPreviousSuccessfulRunStartedAt
  <2>3. UNCHANGED <<now, made, changed, handled, tracked, green>> /\ pc' = "work" /\ stage' = 1 /\ start' = now
    BY <1>4 DEF Start, items
  <2>4. ~Swept' /\ Placed'
    BY <2>3 DEF Swept, Placed
  <2> QED BY <2>2, <2>3, <2>4 DEF SweepInv, Timely, NothingMissed, Crowded, Time
<1>5. CASE Review \/ Expire
  <2>1. Placed' /\ ~Swept'
    BY <1>5 DEF Review, Expire, ReadToWrite, Swept, SweepInv, Placed
  <2> QED BY <1>5, <2>1, RunStepKeeps DEF Review, Expire, ghosts
<1>6. CASE Pass
  <2>1. /\ UNCHANGED <<now, items, tracked, stage, start, boundary, green>> /\ pc' = "done"
        /\ \E T \in SUBSET Window : Listed(T) /\ handled' = handled \cup T
    BY <1>6 DEF Pass
  <2>2. \A i \in tracked' \ handled' : Crowded(i)'
    BY <2>1, PassLeavesCrowded DEF Crowded, items
  <2> QED BY <2>1, <2>2 DEF SweepInv, Timely, Placed, NothingMissed, items
<1>7. CASE readAllTerritories \/ WriteOverviews
  <2>1. Placed' /\ Swept
    BY <1>7 DEF readAllTerritories, WriteOverviews, Snapshot, Overviews, Swept, SweepInv, Placed
  <2> QED BY <1>7, <2>1, RunStepKeeps DEF readAllTerritories, WriteOverviews, ghosts
<1>8. CASE stageComplete
  <2>1. UNCHANGED <<now, items, start, boundary, tracked, handled, green, spoilt>>
    BY <1>8 DEF stageComplete
  <2>2. CASE Persists
    <3>1. pc' = "write" /\ job' = "trace" /\ stage' = stage
      BY <1>8, <2>2 DEF stageComplete, ReadToWrite
    <3>2. Swept' => Swept
      BY <1>8, <3>1 DEF stageComplete, Swept
    <3> QED BY <2>1, <3>1, <3>2, RunStepKeeps DEF SweepInv, Placed
  <2>3. CASE ~Persists
    <3>1. NextStage
      BY <1>8, <2>3 DEF stageComplete
    <3>2. Swept' => Swept
      BY <1>8, <3>1 DEF stageComplete, NextStage, Swept, SweepInv, Placed
    <3> QED BY <2>1, <3>1, <3>2, RunStepKeeps DEF SweepInv, Placed, NextStage
  <2> QED BY <2>2, <2>3
<1>9. CASE Throw
  <2>1. pc' = "write" /\ job' = "trace" /\ stage' = stage /\ spoilt'
    BY <1>9 DEF Throw, ReadToWrite
  <2> QED BY <1>9, <2>1, RunStepKeeps DEF Throw, SweepInv, Placed
<1>10. CASE finish
  <2>1. pc' = "write" /\ job' = "finish" /\ stage' = stage /\ Swept
    BY <1>10 DEF finish, ReadToWrite, SweepInv, Placed, Swept
  <2>2. UNCHANGED <<now, made, changed, start, boundary, tracked, handled, spoilt>>
        /\ green' = IF spoilt THEN green ELSE green \cup {start}
    BY <1>10 DEF finish, items
  <2>c. \A i \in Items : Crowded(i)' <=> Crowded(i)
    BY <2>2 DEF Crowded
  <2>3. NothingMissed'
    BY <2>1, <2>2, <2>c DEF SweepInv, Timely, NothingMissed
  <2>4. Swept' /\ ~spoilt' => \A i \in tracked' \ handled' : Crowded(i)' \/ changed'[i] >= start'
    BY <2>1, <2>2, <2>c DEF SweepInv, Timely
  <2> QED BY <2>1, <2>2, <2>3, <2>4 DEF SweepInv, Timely, Placed
<1>11. CASE updateDaemonConfigData
  <2>1. UNCHANGED <<now, items, start, boundary, tracked, handled, green, spoilt>> /\ pc = "write" /\ job' = "none"
    BY <1>11 DEF updateDaemonConfigData
  <2>2. CASE job = "last_ai_review"
    <3>1. pc' = "done" /\ stage' = 1
      BY <1>11, <2>2 DEF updateDaemonConfigData, SweepInv, Placed
    <3> QED BY <2>1, <3>1, RunStepKeeps DEF Placed, Swept
  <2>3. CASE job \in {"last_expiry", "finish"}
    <3>1. pc' \in {"pass", "off"} /\ stage' = stage
      BY <1>11, <2>3 DEF updateDaemonConfigData
    <3> QED BY <2>1, <3>1, RunStepKeeps DEF SweepInv, Placed, Swept
  <2>4. CASE job = "trace"
    <3>1. NextStage
      BY <1>11, <2>4 DEF updateDaemonConfigData
    <3>2. Swept' => Swept
      BY <2>1, <2>4, <3>1 DEF NextStage, Swept, SweepInv, Placed
    <3> QED BY <2>1, <3>1, <3>2, RunStepKeeps DEF SweepInv, Placed, NextStage
  <2> QED BY <1>11, <2>2, <2>3, <2>4 DEF updateDaemonConfigData
<1>12. CASE Kill
  <2>1. pc' = "off" /\ stage' = stage
    BY <1>12 DEF Kill
  <2> QED BY <1>12, <2>1, RunStepKeeps DEF Kill, ghosts, SweepInv, Placed, Swept
<1> QED
  BY <1>1, <1>2, <1>3, <1>4, <1>5, <1>6, <1>7, <1>8, <1>9, <1>10, <1>11, <1>12 DEF Next, Cycle

\* Failures, cut-off runs, failing queries and edits at any moment: an item changed
\* before the start of a run that ended well has been looked at since, unless as many
\* others as the shortest listing holds are as new. A bootstrap pass sees only what was
\* stored within the lookback, so the horizon is assumed to lie within it; past it the
\* code does miss items (NothingMissed; extractPreviousSuccessfulRunStartedAt,
\* LOOKBACK_DAYS, the limits of the arrival queries).
THEOREM NothingIsMissed == ASSUME Lookback >= MaxNow PROVE Spec => []NothingMissed
<1>1. Init => SweepInv
  BY NightlyAssumption, StagesTen
     DEF Init, SweepInv, Timely, Placed, NothingMissed, Swept, Sweep, Time, Never
<1>2. SweepInv => NothingMissed
  BY DEF SweepInv
<1> QED BY <1>1, <1>2, BoundaryInit, BoundaryStep, SweepStep, PTL DEF Spec

-----------------------------------------------------------------------------
(* The tasks.  Each keeps its own state, so a step of a night is a step of *)
(* one of them and leaves the others as they were.                         *)

LEMMA EachSteps ==
  [AllNext]_all => /\ [Paradoxes!Next]_Burning /\ [Regraded!Next]_Forgetting
                   /\ [Captured!Next]_Registry /\ [Governed!Next]_Governor
BY Zenon DEF AllNext, all, Challenging, Decaying, Few, Versions

-----------------------------------------------------------------------------
(* The link threshold. *)

GovernorInv ==
  /\ threshold \in 65..95 /\ lFaults \in Nat
  /\ pending \in Nat /\ accepted \in Nat /\ rejected \in Nat

LEMMA GovernorInit == Governed!Init => GovernorInv
BY TasksAssumption DEF Governed!Init, GovernorInv, Governed!LearningAssumption

\* A night moves the bar by a step at most, down only where more was accepted.
LEMMA AdjustedWithin ==
  ASSUME GovernorInv, NEW was \in 65..95
  PROVE  /\ Governed!Adjusted(was) \in 65..95
         /\ Governed!Adjusted(was) < was => accepted > rejected /\ was - Governed!Adjusted(was) <= 5
BY DEF GovernorInv, Governed!Adjusted, Governed!LowAcceptance, Governed!HighAcceptance, Governed!Lesser, Governed!Greater

LEMMA GovernorStep ==
  GovernorInv /\ [Governed!Next]_Governor
    => GovernorInv' /\ Governed!LowersOnAcceptance /\ Governed!StaysInBacklog /\ Governed!HasSample
<1> SUFFICES ASSUME GovernorInv, [Governed!Next]_Governor
    PROVE  GovernorInv' /\ Governed!LowersOnAcceptance /\ Governed!StaysInBacklog /\ Governed!HasSample
  OBVIOUS
<1> USE DEF GovernorInv, Governed!LowersOnAcceptance, Governed!StaysInBacklog, Governed!HasSample
<1>1. CASE UNCHANGED Governor
  BY <1>1 DEF Governor
<1>2. CASE Governed!Propose \/ Governed!Expire \/ Governed!SwitchBacklog
  BY <1>2 DEF Governed!Propose, Governed!Expire, Governed!SwitchBacklog, Governed!rows
<1>3. ASSUME NEW d \in {"accepted", "rejected"}, Governed!Review(d)
      PROVE  GovernorInv' /\ Governed!LowersOnAcceptance /\ Governed!StaysInBacklog /\ Governed!HasSample
  BY <1>3 DEF Governed!Review
<1>4. CASE Governed!runLearningTask
  <2>1. PICK was \in {threshold, DefaultThreshold}, total \in {pending + accepted + rejected, 0} :
          /\ \/ was = threshold /\ total = pending + accepted + rejected /\ lFaults' = lFaults
             \/ lFaults' = lFaults + 1
          /\ threshold' = IF Governed!Frozen \/ ~Governed!Enough(total) \/ Governed!Adjusted(was) = was
                          THEN threshold ELSE Governed!Adjusted(was)
          /\ UNCHANGED <<backlog, pending, accepted, rejected>>
    BY <1>4, Zenon DEF Governed!runLearningTask, Governed!rows
  <2>2. was \in 65..95
    BY TasksAssumption DEF Governed!LearningAssumption
  <2>3. /\ Governed!Adjusted(was) \in 65..95
        /\ Governed!Adjusted(was) < was => accepted > rejected /\ was - Governed!Adjusted(was) <= 5
    BY <2>2, AdjustedWithin
  <2>4. GovernorInv'
    BY <2>1, <2>3
  <2>5. Governed!LowersOnAcceptance
    BY <2>1, <2>3
  <2>6. Governed!StaysInBacklog
    BY <2>1 DEF Governed!Frozen
  <2>7. Governed!HasSample
    BY <2>1, TasksAssumption DEF Governed!Enough, Governed!LearningAssumption
  <2> QED BY <2>4, <2>5, <2>6, <2>7
<1> QED BY <1>1, <1>2, <1>3, <1>4 DEF Governed!Next

-----------------------------------------------------------------------------
(* The captured skills. *)

\* A nonempty set of naturals under a bound has a greatest one.
LEMMA BoundedHasMax ==
  ASSUME NEW S \in SUBSET Nat, S # {}, NEW b \in Nat, \A x \in S : x <= b
  PROVE  \E m \in S : \A x \in S : x <= m
<1> DEFINE below == {n \in Nat : b - n \in S}
<1>1. below \subseteq Nat /\ below # {}
  <2>1. PICK x \in S : TRUE
    OBVIOUS
  <2>2. b - x \in Nat /\ b - (b - x) = x
    OBVIOUS
  <2> QED BY <2>2
<1> HIDE DEF below
<1>2. PICK n \in below : \A m \in below : ~(<<m, n>> \in OpToRel(<, Nat))
  BY <1>1, NatLessThanWellFounded, WFMin, Zenon
<1>3. n \in Nat /\ b - n \in S
  BY <1>2 DEF below
<1>4. ASSUME NEW x \in S PROVE x <= b - n
  <2>1. b - x \in Nat /\ b - (b - x) = x
    OBVIOUS
  <2>2. b - x \in below
    BY <2>1 DEF below
  <2>3. ~(b - x < n)
    <3>1. ~(<<b - x, n>> \in {ss \in Nat \X Nat : ss[1] < ss[2]})
      BY <1>2, <2>2, Zenon DEF OpToRel
    <3> QED BY <1>3, <2>1, <3>1
  <2> QED BY <1>3, <2>3
<1> QED BY <1>3, <1>4

\* And so has an image of a finite set of positions.
LEMMA ImageHasMax ==
  ASSUME NEW n \in Nat, NEW f, NEW I \in SUBSET (1..n), I # {}, \A i \in I : f[i] \in Nat
  PROVE  \E i \in I : \A j \in I : f[j] <= f[i]
<1> DEFINE F == {f[i] : i \in I}
<1>1. \E b \in Nat : \A i \in I : f[i] <= b
  <2> DEFINE Bounded == {m \in Nat : \A b \in Nat : \E i \in I : i <= m /\ f[i] > b}
  <2> SUFFICES Bounded = {}
    <3>1. n \notin Bounded
      OBVIOUS
    <3>2. PICK b \in Nat : \A i \in I : ~(i <= n /\ f[i] > b)
      BY <3>1
    <3> QED BY <3>2
  <2>1. SUFFICES ASSUME Bounded # {} PROVE FALSE
    OBVIOUS
  <2> HIDE DEF Bounded
  <2>2. Bounded \subseteq Nat
    BY DEF Bounded
  <2>3. PICK m \in Bounded : \A k \in Bounded : ~(<<k, m>> \in OpToRel(<, Nat))
    BY <2>1, <2>2, NatLessThanWellFounded, WFMin, Zenon
  <2>4. m \in Nat /\ \A b \in Nat : \E i \in I : i <= m /\ f[i] > b
    BY <2>3 DEF Bounded
  <2>5. m # 0
    BY <2>4
  <2>6. m - 1 \in Nat /\ m - 1 < m
    BY <2>4, <2>5
  <2>7. m - 1 \notin Bounded
    <3>1. ASSUME m - 1 \in Bounded PROVE FALSE
      <4>1. ~(<<m - 1, m>> \in {ss \in Nat \X Nat : ss[1] < ss[2]})
        BY <2>3, <3>1, Zenon DEF OpToRel
      <4> QED BY <2>4, <2>6, <4>1
    <3> QED BY <3>1
  <2>8. PICK b \in Nat : \A i \in I : ~(i <= m - 1 /\ f[i] > b)
    BY <2>6, <2>7 DEF Bounded
  <2>9. CASE m \in I
    <3>1. b + f[m] \in Nat
      BY <2>9
    <3>2. PICK i \in I : i <= m /\ f[i] > b + f[m]
      BY <2>4, <3>1
    <3>3. f[i] \in Nat /\ f[m] \in Nat /\ i \in Nat
      BY <2>9
    <3>4. i # m
      BY <3>2, <3>3
    <3>5. i <= m - 1 /\ f[i] > b
      BY <2>4, <3>2, <3>3, <3>4
    <3> QED BY <2>8, <3>5
  <2>10. CASE m \notin I
    <3>1. PICK i \in I : i <= m /\ f[i] > b
      BY <2>4
    <3>2. i \in Nat /\ i # m
      BY <2>10
    <3> QED BY <2>4, <2>8, <3>1, <3>2
  <2> QED BY <2>9, <2>10
<1>2. PICK b \in Nat : \A i \in I : f[i] <= b
  BY <1>1
<1>3. F \subseteq Nat /\ F # {} /\ \A x \in F : x <= b
  BY <1>2
<1>4. PICK x \in F : \A y \in F : y <= x
  BY <1>3, BoundedHasMax
<1> QED BY <1>4

SkillRow == [key : SkillKeys, version : Nat, status : Captured!Statuses, made : Nat, updated : Nat]

\* What a reviewer has validated still is a transition, while reviewers take turns.
ReviewsHold ==
  \A r \in Reviewers : sReview[r] # Captured!Idle =>
    /\ sReview[r].id \in Captured!Ids
    /\ Captured!validateTransition(skills[sReview[r].id].status, sReview[r].decision)

SkillsInv ==
  /\ skills \in Seq(SkillRow) /\ Len(skills) <= MaxSkills
  /\ sNow \in Nat /\ sFaults \in Nat
  /\ sReview \in [Reviewers -> [id : Nat, decision : Captured!Decisions]]
  /\ ReviewsHold /\ Captured!OneVersionEach

LEMMA SkillsInit == Captured!Init => SkillsInv
<1> SUFFICES ASSUME Captured!Init PROVE SkillsInv
  OBVIOUS
<1>1. skills = <<>> /\ sNow = 0 /\ sFaults = 0 /\ sReview = [r \in Reviewers |-> Captured!Idle]
  BY DEF Captured!Init
<1>2. skills \in Seq(SkillRow) /\ Len(skills) = 0
  BY <1>1
<1>3. Captured!Ids = {}
  BY <1>1 DEF Captured!Ids
<1>4. Captured!Idle \in [id : Nat, decision : Captured!Decisions]
  BY DEF Captured!Idle, Captured!Decisions
<1> QED BY <1>1, <1>2, <1>3, <1>4, TasksAssumption
        DEF SkillsInv, ReviewsHold, Captured!OneVersionEach, Captured!SkillsAssumption

LEMMA CapturedCounts == \A S : Captured!Cardinality(S) = Cardinality(S)
BY DEF Captured!Cardinality, Cardinality

LEMMA SkillsTyped ==
  ASSUME SkillsInv
  PROVE  \A i \in Captured!Ids : skills[i].version \in Nat /\ skills[i].status \in Captured!Statuses
<1>1. \A i \in Captured!Ids : skills[i] \in SkillRow
  BY DEF SkillsInv, Captured!Ids
<1> QED BY <1>1 DEF SkillRow

\* A new version is above every version of its key.
LEMMA VersionsRise ==
  ASSUME SkillsInv, NEW k
  PROVE  /\ Captured!NextVersion(k) \in Nat
         /\ \A i \in Captured!Ids : skills[i].key = k => skills[i].version < Captured!NextVersion(k)
<1> DEFINE I == {j \in Captured!Ids : skills[j].key = k}
           V == {0} \cup {skills[i].version : i \in I}
           n == Len(skills)
           f == [i \in 1..n |-> skills[i].version]
<1>1. n \in Nat /\ Captured!Ids = 1..n
  BY DEF SkillsInv, Captured!Ids
<1>2. \A i \in Captured!Ids : skills[i].version \in Nat
  BY SkillsTyped
<1>3. \E m \in V : \A x \in V : m >= x
  <2>1. CASE I = {}
    BY <2>1
  <2>2. CASE I # {}
    <3>1. I \in SUBSET (1..n) /\ \A i \in I : f[i] \in Nat
      BY <1>1, <1>2
    <3> HIDE DEF I, f
    <3>2. PICK i \in I : \A j \in I : f[j] <= f[i]
      BY <1>1, <2>2, <3>1, ImageHasMax
    <3>3. \A j \in I : f[j] = skills[j].version /\ skills[j].version \in Nat
      BY <1>1, <1>2, <3>1 DEF f
    <3>4. skills[i].version \in V /\ \A x \in V : skills[i].version >= x
      BY <3>2, <3>3
    <3> QED BY <3>4
  <2> QED BY <2>1, <2>2
<1>4. Captured!Max(V) \in V /\ \A x \in V : Captured!Max(V) >= x
  BY <1>3 DEF Captured!Max
<1>5. V \subseteq Nat
  BY <1>2
<1>6. Captured!NextVersion(k) = 1 + Captured!Max(V)
  BY DEF Captured!NextVersion
<1>7. \A i \in Captured!Ids : skills[i].key = k => skills[i].version \in V
  OBVIOUS
<1> HIDE DEF V, I
<1>8. PICK m : m = Captured!Max(V)
  OBVIOUS
<1>9. m \in Nat /\ \A x \in V : m >= x
  BY <1>4, <1>5, <1>8
<1>10. Captured!NextVersion(k) = 1 + m
  BY <1>6, <1>8
<1> QED BY <1>2, <1>7, <1>9, <1>10

LEMMA SkillsCreate ==
  ASSUME SkillsInv, NEW k \in SkillKeys, Captured!createCapturedSkillArtifact(k)
  PROVE  SkillsInv' /\ Captured!FollowsLifecycle
<1> DEFINE row == [key |-> k, version |-> Captured!NextVersion(k), status |-> "candidate", made |-> sNow, updated |-> sNow]
<1>1. PICK x : x = row
  OBVIOUS
<1>2. x \in SkillRow /\ x.version = Captured!NextVersion(k) /\ x.key = k
  BY <1>1, VersionsRise DEF SkillRow, Captured!Statuses, SkillsInv
<1>3. skills' = Append(skills, x) /\ Len(skills) < MaxSkills /\ UNCHANGED <<sNow, sReview, sFaults>>
  BY <1>1 DEF Captured!createCapturedSkillArtifact
<1> DEFINE n == Len(skills)
<1>4. skills \in Seq(SkillRow) /\ n \in Nat /\ MaxSkills \in Nat
  BY TasksAssumption DEF SkillsInv, Captured!SkillsAssumption
<1>5. /\ skills' \in Seq(SkillRow) /\ Len(skills') = n + 1
      /\ \A i \in 1..n : skills'[i] = skills[i]
      /\ skills'[n + 1] = x
  BY <1>2, <1>3, <1>4
<1>6. Captured!Ids = 1..n /\ Captured!Ids' = 1..(n + 1)
  BY <1>4, <1>5 DEF Captured!Ids
<1>7. Captured!OneVersionEach'
  <2>1. SUFFICES ASSUME NEW i \in 1..(n + 1), NEW j \in 1..(n + 1), i < j, skills'[i].key = skills'[j].key
                 PROVE  skills'[i].version < skills'[j].version
    BY <1>6 DEF Captured!OneVersionEach
  <2>2. i \in 1..n
    BY <1>4, <2>1
  <2>3. CASE j \in 1..n
    BY <1>5, <1>6, <2>1, <2>2, <2>3 DEF SkillsInv, Captured!OneVersionEach
  <2>4. CASE j = n + 1
    BY <1>2, <1>5, <1>6, <2>1, <2>2, <2>4, VersionsRise
  <2> QED BY <1>4, <2>3, <2>4
<1>8. ReviewsHold'
  <2>1. SUFFICES ASSUME NEW r \in Reviewers, sReview'[r] # Captured!Idle
                 PROVE  /\ sReview'[r].id \in Captured!Ids'
                        /\ Captured!validateTransition(skills'[sReview'[r].id].status, sReview'[r].decision)
    BY DEF ReviewsHold, Captured!Idle, Captured!validateTransition
  <2>2. PICK id, d : id = sReview[r].id /\ d = sReview[r].decision
    OBVIOUS
  <2>3. sReview' = sReview
    BY <1>3
  <2>4. id \in 1..n /\ Captured!validateTransition(skills[id].status, d)
    BY <1>6, <2>1, <2>2, <2>3 DEF SkillsInv, ReviewsHold
  <2>5. skills'[id] = skills[id]
    BY <1>5, <2>4
  <2>6. id \in 1..(n + 1)
    BY <1>4, <2>4
  <2> QED BY <1>6, <2>2, <2>3, <2>4, <2>5, <2>6
<1>9. Captured!FollowsLifecycle
  <2>1. \A i \in 1..n : skills[i].status \in Captured!Statuses
    BY <1>6, SkillsTyped
  <2> QED BY <1>5, <1>6, <2>1 DEF Captured!FollowsLifecycle, Captured!Statuses
<1> QED BY <1>3, <1>4, <1>5, <1>7, <1>8, <1>9 DEF SkillsInv

LEMMA SkillsReviewed ==
  ASSUME SkillsInv, NEW r \in Reviewers, \A s \in Reviewers : s = r, Captured!reviewCapturedSkillArtifact(r)
  PROVE  SkillsInv' /\ Captured!FollowsLifecycle
<1>1. PICK id, d : id = sReview[r].id /\ d = sReview[r].decision
  OBVIOUS
<1>2. sReview[r] # Captured!Idle
  BY DEF Captured!reviewCapturedSkillArtifact
<1>3. d \in Captured!Decisions /\ id \in Captured!Ids /\ Captured!validateTransition(skills[id].status, d)
  BY <1>1, <1>2 DEF SkillsInv, ReviewsHold
<1>4. skills \in Seq(SkillRow) /\ Len(skills) \in Nat /\ Captured!Ids = 1..Len(skills)
  BY DEF SkillsInv, Captured!Ids
<1>5. PICK row : row = [skills[id] EXCEPT !.status = d, !.updated = sNow]
  OBVIOUS
<1>6. skills[id] \in SkillRow
  BY <1>3, <1>4
<1>7. row \in SkillRow /\ row.key = skills[id].key /\ row.version = skills[id].version /\ row.status = d
  BY <1>3, <1>5, <1>6 DEF SkillRow, Captured!Decisions, Captured!Statuses, SkillsInv
<1>8. skills' = [skills EXCEPT ![id].status = d, ![id].updated = sNow]
  BY <1>1 DEF Captured!reviewCapturedSkillArtifact
<1>9. skills' = [skills EXCEPT ![id] = row]
  BY <1>5, <1>8
<1>10. /\ skills' \in Seq(SkillRow) /\ Len(skills') = Len(skills)
       /\ \A i \in 1..Len(skills) : skills'[i] = IF i = id THEN row ELSE skills[i]
  BY <1>3, <1>4, <1>7, <1>9
<1>11. Captured!Ids' = 1..Len(skills)
  BY <1>4, <1>10 DEF Captured!Ids
<1>12. sReview' = [sReview EXCEPT ![r] = Captured!Idle] /\ UNCHANGED <<sNow, sFaults>>
  BY DEF Captured!reviewCapturedSkillArtifact
<1>13. \A s \in Reviewers : sReview'[s] = Captured!Idle
  BY <1>12 DEF SkillsInv
<1>14. sReview' \in [Reviewers -> [id : Nat, decision : Captured!Decisions]]
  BY <1>12 DEF SkillsInv, Captured!Idle, Captured!Decisions
<1>15. ReviewsHold'
  BY <1>13 DEF ReviewsHold, Captured!Idle
<1>16. Captured!OneVersionEach'
  <2>1. \A i \in 1..Len(skills) : skills'[i].key = skills[i].key /\ skills'[i].version = skills[i].version
    BY <1>7, <1>10
  <2> QED BY <1>4, <1>11, <2>1 DEF SkillsInv, Captured!OneVersionEach
<1>17. Captured!FollowsLifecycle
  <2>1. \A i \in 1..Len(skills) : skills[i].status \in Captured!Statuses
    BY <1>4, SkillsTyped
  <2>2. \A i \in 1..Len(skills) : i # id => skills'[i].status = skills[i].status
    BY <1>10
  <2>3. skills'[id].status = d
    BY <1>3, <1>4, <1>7, <1>10
  <2> QED BY <1>3, <1>4, <2>1, <2>2, <2>3
          DEF Captured!FollowsLifecycle, Captured!Statuses, Captured!validateTransition, Captured!Decisions
<1> QED BY <1>10, <1>12, <1>14, <1>15, <1>16, <1>17 DEF SkillsInv

LEMMA QueriesFinite == IsFiniteSet({"accepted", "candidate"})
<1>1. IsFiniteSet({"accepted"}) /\ {"accepted", "candidate"} = {"accepted"} \cup {"candidate"}
  BY FS_Singleton
<1> QED BY <1>1, FS_AddElement

LEMMA SkillsStep ==
  ASSUME \A r, s \in Reviewers : r = s, SkillsInv, [Captured!Next]_Registry
  PROVE  SkillsInv' /\ Captured!FollowsLifecycle
<1> DEFINE Kept == skills' = skills /\ sNow' \in Nat /\ sFaults' \in Nat
<1>1. ASSUME Kept, sReview' = sReview PROVE SkillsInv' /\ Captured!FollowsLifecycle
  <2>1. \A i \in Captured!Ids : skills[i].status \in Captured!Statuses
    BY SkillsTyped
  <2>2. Captured!FollowsLifecycle
    BY <1>1, <2>1 DEF Captured!FollowsLifecycle, Captured!Statuses
  <2>3. ReviewsHold' /\ Captured!OneVersionEach'
    BY <1>1 DEF SkillsInv, ReviewsHold, Captured!OneVersionEach, Captured!Ids, Captured!Idle, Captured!validateTransition
  <2> QED BY <1>1, <2>2, <2>3 DEF SkillsInv
<1>2. CASE UNCHANGED Registry
  BY <1>1, <1>2 DEF Registry, SkillsInv
<1>3. CASE Captured!Tick
  BY <1>1, <1>3 DEF Captured!Tick, SkillsInv
<1>4. ASSUME NEW k \in SkillKeys, Captured!createCapturedSkillArtifact(k)
      PROVE  SkillsInv' /\ Captured!FollowsLifecycle
  BY <1>4, SkillsCreate
<1>5. ASSUME NEW r \in Reviewers, Captured!reviewCapturedSkillArtifact(r)
      PROVE  SkillsInv' /\ Captured!FollowsLifecycle
  BY <1>5, SkillsReviewed
<1>6. ASSUME NEW r \in Reviewers, Captured!Validate(r) PROVE SkillsInv' /\ Captured!FollowsLifecycle
  <2>1. PICK i \in Captured!Ids, d \in Captured!Decisions :
          /\ Captured!validateTransition(skills[i].status, d)
          /\ sReview' = [sReview EXCEPT ![r] = [id |-> i, decision |-> d]]
          /\ UNCHANGED <<sNow, skills, sRows, sFaults>>
    BY <1>6 DEF Captured!Validate
  <2>2. i \in Nat
    BY DEF SkillsInv, Captured!Ids
  <2>3. sReview' \in [Reviewers -> [id : Nat, decision : Captured!Decisions]]
    BY <2>1, <2>2 DEF SkillsInv
  <2>4. ReviewsHold'
    BY <2>1 DEF SkillsInv, ReviewsHold, Captured!Ids, Captured!validateTransition
  <2>5. \A j \in Captured!Ids : skills[j].status \in Captured!Statuses
    BY SkillsTyped
  <2>6. Captured!FollowsLifecycle
    BY <2>1, <2>5 DEF Captured!FollowsLifecycle, Captured!Statuses
  <2>7. Captured!OneVersionEach'
    BY <2>1 DEF SkillsInv, Captured!OneVersionEach, Captured!Ids
  <2> QED BY <2>1, <2>3, <2>4, <2>6, <2>7 DEF SkillsInv
<1>7. CASE Captured!runSkillHealthTask
  <2>1. PICK gone \in SUBSET {"accepted", "candidate"} : sFaults' = sFaults + Cardinality(gone) /\ UNCHANGED <<sNow, skills, sReview>>
    BY <1>7, CapturedCounts DEF Captured!runSkillHealthTask
  <2>2. IsFiniteSet({"accepted", "candidate"})
    BY QueriesFinite
  <2>3. Cardinality(gone) \in Nat
    BY <2>2, FS_Subset, FS_CardinalityType
  <2>4. sFaults' \in Nat
    BY <2>1, <2>3 DEF SkillsInv
  <2> QED BY <1>1, <2>1, <2>4 DEF SkillsInv
<1>8. ASSUME NEW p \in DOMAIN sRows, Captured!ReviewProposal(p) PROVE SkillsInv' /\ Captured!FollowsLifecycle
  BY <1>1, <1>8 DEF Captured!ReviewProposal, SkillsInv
<1> QED BY <1>2, <1>3, <1>4, <1>5, <1>6, <1>7, <1>8 DEF Captured!Next

\* One scan lists the whole registry.
LEMMA ListsAll ==
  ASSUME SkillsInv, MaxSkills <= ScanCap, NEW status
  PROVE  Captured!listCapturedSkillArtifacts(status) = {i \in Captured!Ids : skills[i].status = status}
<1> DEFINE Of == {i \in Captured!Ids : skills[i].status = status}
           n == Len(skills)
<1>1. n \in Nat /\ Captured!Ids = 1..n /\ n <= ScanCap /\ ScanCap \in Nat
  BY TasksAssumption DEF SkillsInv, Captured!Ids, Captured!SkillsAssumption
<1>2. ASSUME NEW i \in Of PROVE Cardinality({j \in Of : j > i}) < ScanCap
  <2>1. IsFiniteSet(1..n) /\ Cardinality(1..n) = n
    <3>1. IsFiniteSet(1..n) /\ Cardinality(1..n) = IF 1 > n THEN 0 ELSE n - 1 + 1
      BY <1>1, FS_Interval
    <3> QED BY <1>1, <3>1
  <2>0. i \in 1..n
    BY <1>1
  <2>2. IsFiniteSet((1..n) \ {i}) /\ Cardinality((1..n) \ {i}) = n - 1
    BY <2>0, <2>1, FS_RemoveElement
  <2>3. {j \in Of : j > i} \subseteq (1..n) \ {i}
    BY <1>1
  <2>4. Cardinality({j \in Of : j > i}) <= n - 1 /\ Cardinality({j \in Of : j > i}) \in Nat
    BY <2>2, <2>3, FS_Subset, FS_CardinalityType
  <2> QED BY <1>1, <2>4
<1>3. Captured!listCapturedSkillArtifacts(status) = {i \in Of : Cardinality({j \in Of : j > i}) < ScanCap}
  BY CapturedCounts DEF Captured!listCapturedSkillArtifacts
<1> HIDE DEF Of
<1>4. Captured!listCapturedSkillArtifacts(status) = Of
  BY <1>2, <1>3
<1> QED BY <1>4 DEF Of

LEMMA WhatIsProposed ==
  ASSUME NEW old, NEW young, NEW p \in Captured!Actions(old, young)
  PROVE  \/ p \in Captured!Recaptures(old) \/ \E c \in young : p \in Captured!Supersessions(old, c)
         \/ \E c \in {x \in young : Captured!Promotable(old, x)} : p = Captured!Proposal("skill_promotion", c, c)
<1> DEFINE Super == UNION {Captured!Supersessions(old, c) : c \in young}
           Promo == {Captured!Proposal("skill_promotion", c, c) : c \in {x \in young : Captured!Promotable(old, x)}}
<1>1. p \in Captured!Recaptures(old) \cup Super \cup Promo
  BY DEF Captured!Actions
<1>2. p \in Super => \E c \in young : p \in Captured!Supersessions(old, c)
  OBVIOUS
<1>3. p \in Promo => \E c \in {x \in young : Captured!Promotable(old, x)} : p = Captured!Proposal("skill_promotion", c, c)
  OBVIOUS
<1> HIDE DEF Super, Promo
<1> QED BY <1>1, <1>2, <1>3

LEMMA SkillsLineage ==
  ASSUME MaxSkills <= ScanCap, SkillsInv, [Captured!Next]_Registry
  PROVE  Captured!ProposesLineage
<1>1. CASE sRows' = sRows
  BY <1>1 DEF Captured!ProposesLineage
<1>2. ASSUME NEW q \in DOMAIN sRows, Captured!ReviewProposal(q) PROVE Captured!ProposesLineage
  <2>1. DOMAIN sRows' = DOMAIN sRows
    BY <1>2 DEF Captured!ReviewProposal
  <2> QED BY <2>1 DEF Captured!ProposesLineage
<1>3. CASE Captured!runSkillHealthTask
  <2>1. SUFFICES ASSUME sFaults' = 0, NEW p \in DOMAIN sRows' \ DOMAIN sRows
        PROVE  LET good == {i \in Captured!Ids : skills[i].status = "accepted" /\ skills[i].key = skills[p.target].key}
               IN /\ p.type = "skill_promotion" => good = {}
                  /\ p.type = "skill_supersession" =>
                       /\ p.source \in good /\ skills[p.target].version > skills[p.source].version
                       /\ \A i \in good : skills[i].version <= skills[p.source].version
    BY DEF Captured!ProposesLineage
  <2> DEFINE good == {i \in Captured!Ids : skills[i].status = "accepted" /\ skills[i].key = skills[p.target].key}
             old == {i \in Captured!Ids : skills[i].status = "accepted"}
             young == {i \in Captured!Ids : skills[i].status = "candidate"}
  <2>2. PICK gone \in SUBSET {"accepted", "candidate"} :
          LET grown == IF "accepted" \in gone THEN {} ELSE Captured!listCapturedSkillArtifacts("accepted")
              raw == IF "candidate" \in gone THEN {} ELSE Captured!listCapturedSkillArtifacts("candidate")
              create == Captured!Actions(grown, raw) \ DOMAIN sRows
          IN /\ sFaults' = sFaults + Cardinality(gone)
             /\ sRows' = [x \in DOMAIN sRows \cup create |-> IF x \in create THEN "pending" ELSE sRows[x]]
    BY <1>3, CapturedCounts DEF Captured!runSkillHealthTask
  <2>3. gone = {}
    <3>1. IsFiniteSet({"accepted", "candidate"})
      BY QueriesFinite
    <3>2. IsFiniteSet(gone) /\ Cardinality(gone) \in Nat
      BY <3>1, FS_Subset, FS_CardinalityType
    <3>3. Cardinality(gone) = 0
      BY <2>1, <2>2, <3>2 DEF SkillsInv
    <3> QED BY <3>2, <3>3, FS_EmptySet
  <2>4. p \in Captured!Actions(old, young)
    <3>1. Captured!listCapturedSkillArtifacts("accepted") = old
      BY ListsAll
    <3>2. Captured!listCapturedSkillArtifacts("candidate") = young
      BY ListsAll
    <3>3. DOMAIN sRows' = DOMAIN sRows \cup (Captured!Actions(old, young) \ DOMAIN sRows)
      BY <2>2, <2>3, <3>1, <3>2, Zenon
    <3> QED BY <2>1, <3>3
  <2> DEFINE of(k) == {i \in old : skills[i].key = k}
  <2> DEFINE Recaptured == \E i \in old : p = Captured!Proposal("skill_recapture", i, i)
             Superseded == \E c \in young, a \in Captured!Ids :
               /\ a \in Captured!buildLatestVersionMap(old, skills[c].key) /\ skills[a].version < skills[c].version
               /\ p = Captured!Proposal("skill_supersession", a, c)
             Promoted == \E c \in young : p = Captured!Proposal("skill_promotion", c, c) /\ Captured!Promotable(old, c)
  <2>5. Recaptured \/ Superseded \/ Promoted
    <3>1. CASE p \in Captured!Recaptures(old)
      BY <3>1 DEF Captured!Recaptures
    <3>2. ASSUME NEW c \in young, p \in Captured!Supersessions(old, c) PROVE Superseded
      <4>1. PICK a \in Captured!buildLatestVersionMap(old, skills[c].key) :
              skills[a].version < skills[c].version /\ p = Captured!Proposal("skill_supersession", a, c)
        BY <3>2 DEF Captured!Supersessions
      <4>2. a \in Captured!Ids
        BY DEF Captured!buildLatestVersionMap
      <4> QED BY <4>1, <4>2
    <3>3. ASSUME NEW c \in {x \in young : Captured!Promotable(old, x)}, p = Captured!Proposal("skill_promotion", c, c)
          PROVE  Promoted
      BY <3>3
    <3> HIDE DEF old, young, Superseded, Promoted, Recaptured
    <3>4. \/ p \in Captured!Recaptures(old) \/ \E c \in young : p \in Captured!Supersessions(old, c)
          \/ \E c \in {x \in young : Captured!Promotable(old, x)} : p = Captured!Proposal("skill_promotion", c, c)
      BY <2>4, WhatIsProposed
    <3> QED BY <3>1, <3>2, <3>3, <3>4
  <2>6. CASE p.type = "skill_promotion"
    <3>1. PICK c \in young : p = Captured!Proposal("skill_promotion", c, c) /\ Captured!Promotable(old, c)
      BY <2>5, <2>6 DEF Captured!Proposal
    <3>2. p.target = c
      BY <3>1 DEF Captured!Proposal
    <3>3. {i \in of(skills[c].key) : \A j \in of(skills[c].key) : skills[j].version <= skills[i].version} = {}
      BY <3>1 DEF Captured!Promotable, Captured!buildLatestVersionMap
    <3>4. of(skills[c].key) = good
      BY <3>2
    <3>5. ASSUME good # {} PROVE FALSE
      <4> DEFINE f == [i \in 1..Len(skills) |-> skills[i].version]
      <4>1. Len(skills) \in Nat /\ good \in SUBSET (1..Len(skills)) /\ \A i \in good : f[i] \in Nat
        BY SkillsTyped DEF SkillsInv, Captured!Ids
      <4> HIDE DEF good, f
      <4>2. PICK i \in good : \A j \in good : f[j] <= f[i]
        BY <3>5, <4>1, ImageHasMax
      <4>3. \A j \in good : f[j] = skills[j].version
        BY <4>1 DEF f
      <4> QED BY <3>3, <3>4, <4>2, <4>3
    <3> QED BY <2>6, <3>5
  <2>7. CASE p.type = "skill_supersession"
    <3>1. \A i : p # Captured!Proposal("skill_recapture", i, i) /\ p # Captured!Proposal("skill_promotion", i, i)
      BY <2>7 DEF Captured!Proposal
    <3>2. PICK c \in young, a \in Captured!Ids :
            /\ a \in Captured!buildLatestVersionMap(old, skills[c].key) /\ skills[a].version < skills[c].version
            /\ p = Captured!Proposal("skill_supersession", a, c)
      BY <2>5, <3>1, Zenon
    <3>3. p.source = a /\ p.target = c
      BY <3>2 DEF Captured!Proposal
    <3>4. a \in of(skills[c].key) /\ \A j \in of(skills[c].key) : skills[j].version <= skills[a].version
      BY <3>2 DEF Captured!buildLatestVersionMap
    <3>5. skills[c].version \in Nat /\ skills[a].version \in Nat
      BY <3>4, SkillsTyped
    <3> QED BY <2>7, <3>2, <3>3, <3>4, <3>5
  <2> QED BY <2>6, <2>7
<1> QED BY <1>1, <1>2, <1>3 DEF Captured!Next, Registry, Captured!Tick, Captured!createCapturedSkillArtifact,
       Captured!Validate, Captured!reviewCapturedSkillArtifact

-----------------------------------------------------------------------------
(* The demotion of what is forgotten. *)

ObsRow == [there : BOOLEAN, salience : {"none", "foundational", "active"}, access : Nat, created : Nat,
           surfaced : Int, toWhom : BOOLEAN]
RunRow == [on : {TRUE}, todo : SUBSET Regraded!Obs, shadow : BOOLEAN, created : Nat, inserted : Nat]

RegradeTyped ==
  /\ day \in Nat /\ shadow \in BOOLEAN /\ rFaults \in Nat /\ obs \in [Regraded!Obs -> ObsRow]
  /\ rRows \in [Regraded!Obs -> {"none", "pending", "accepted", "rejected"}]
  /\ rRun \in [Runners -> {Regraded!Off} \cup RunRow]

\* One run or one review at a time.
OneAtATime ==
  /\ rReview # Regraded!Idle => \A r \in Runners : rRun[r] = Regraded!Off
  /\ \A r, s \in Runners : rRun[r] # Regraded!Off /\ rRun[s] # Regraded!Off => r = s

\* What a run still has to create is forgotten, has no row and is counted for.
RunKeeps(r) ==
  /\ \A o \in rRun[r].todo : rRows[o] = "none" /\ Regraded!Forgotten(o)
  /\ rRun[r].created = rRun[r].inserted
  /\ rRun[r].shadow => rRun[r].todo = {} /\ rRun[r].inserted = 0
  /\ rFaults = 0 => Cardinality(Regraded!Pending) + Cardinality(rRun[r].todo)
                      <= Regraded!Ceiling(Cardinality(Regraded!Reviewed))

\* A row stands for an observation, foundational until its acceptance is carried out.
Standing(o) ==
  /\ rRows[o] # "none" => obs[o] # Regraded!Absent
  /\ obs[o] # Regraded!Absent => obs[o].there /\ obs[o].salience \in {"foundational", "active"}
  /\ rRows[o] \in {"none", "pending"} => obs[o].salience # "active"

ReviewKeeps ==
  rReview # Regraded!Idle =>
    /\ rReview.obs \in Regraded!Obs /\ rRows[rReview.obs] = "accepted" /\ obs[rReview.obs].salience # "active"

RegradeInv ==
  /\ RegradeTyped /\ OneAtATime /\ ReviewKeeps
  /\ \A r \in Runners : rRun[r] # Regraded!Off => RunKeeps(r)
  /\ \A o \in Regraded!Obs : Standing(o)
  /\ rFaults = 0 => Cardinality(Regraded!Pending) <= Regraded!Ceiling(Cardinality(Regraded!Reviewed))
  /\ rScan.created = rScan.inserted

LEMMA RegradedCounts == \A S : Regraded!Cardinality(S) = Cardinality(S) /\ (Regraded!IsFiniteSet(S) <=> IsFiniteSet(S))
<1>1. \A S : Regraded!Cardinality(S) = Cardinality(S)
  BY DEF Regraded!Cardinality, Cardinality
<1>2. \A S : Regraded!IsFiniteSet(S) <=> IsFiniteSet(S)
  BY DEF Regraded!IsFiniteSet, IsFiniteSet
<1> QED BY <1>1, <1>2

LEMMA ObsFinite ==
  ASSUME NEW S \in SUBSET Regraded!Obs
  PROVE  IsFiniteSet(S) /\ Cardinality(S) \in Nat
<1>1. IsFiniteSet(Plain) /\ IsFiniteSet(Vows)
  BY TasksAssumption, RegradedCounts DEF Regraded!RegradeAssumption
<1>2. IsFiniteSet(Regraded!Obs)
  BY <1>1, FS_Union DEF Regraded!Obs
<1> QED BY <1>2, FS_Subset, FS_CardinalityType

LEMMA CeilingGrows ==
  ASSUME NEW m \in Nat, NEW n \in Nat, m <= n
  PROVE  /\ Regraded!Ceiling(m) \in Nat /\ Regraded!Ceiling(n) \in Nat
         /\ Regraded!Ceiling(m) <= Regraded!Ceiling(n)
BY TasksAssumption DEF Regraded!RegradeAssumption, Regraded!Ceiling

LEMMA RunIsOn == \A k \in RunRow : k # Regraded!Off
<1> SUFFICES ASSUME NEW k \in RunRow, k = Regraded!Off PROVE FALSE
  OBVIOUS
<1>1. k.on = TRUE
  BY DEF RunRow
<1> QED BY <1>1 DEF Regraded!Off

LEMMA RegradeInit == Regraded!Init => RegradeInv
<1> SUFFICES ASSUME Regraded!Init PROVE RegradeInv
  OBVIOUS
<1>1. Regraded!Absent \in ObsRow /\ Regraded!Absent.salience = "none"
  BY DEF Regraded!Absent, ObsRow
<1>2. /\ day = 0 /\ shadow = TRUE /\ rFaults = 0 /\ obs = [o \in Regraded!Obs |-> Regraded!Absent]
      /\ rRows = [o \in Regraded!Obs |-> "none"] /\ rRun = [r \in Runners |-> Regraded!Off]
      /\ rReview = Regraded!Idle /\ rScan.created = rScan.inserted
  BY DEF Regraded!Init
<1>3. RegradeTyped
  BY <1>1, <1>2 DEF RegradeTyped
<1>4. OneAtATime /\ ReviewKeeps /\ \A r \in Runners : rRun[r] # Regraded!Off => RunKeeps(r)
  BY <1>2 DEF OneAtATime, ReviewKeeps
<1>5. \A o \in Regraded!Obs : Standing(o)
  BY <1>1, <1>2 DEF Standing
<1>6. Cardinality(Regraded!Pending) <= Regraded!Ceiling(Cardinality(Regraded!Reviewed))
  <2>1. Regraded!Pending = {} /\ Regraded!Reviewed = {}
    BY <1>2 DEF Regraded!Pending, Regraded!Reviewed
  <2>2. Cardinality({}) = 0
    BY FS_EmptySet
  <2>3. Regraded!Ceiling(0) \in Nat
    BY CeilingGrows
  <2> QED BY <2>1, <2>2, <2>3
<1> QED BY <1>2, <1>3, <1>4, <1>5, <1>6 DEF RegradeInv

Justified == Regraded!ProposesForgotten /\ Regraded!DemotesReviewed

\* A row of the corpus stays as it is for the ledger, or is new.
Steady(o) ==
  \/ obs'[o] = obs[o]
  \/ obs[o] # Regraded!Absent /\ obs'[o].there /\ obs'[o].salience = obs[o].salience
  \/ obs[o] = Regraded!Absent /\ obs'[o].there /\ obs'[o].salience = "foundational"

\* While nothing runs, what changes the corpus disturbs no row.
LEMMA QuietKeeps ==
  ASSUME RegradeInv, Regraded!Quiet, UNCHANGED <<rRows, rRun, rScan, rReview, rFaults>>,
         day' \in Nat, shadow' \in BOOLEAN, obs' \in [Regraded!Obs -> ObsRow],
         \A o \in Regraded!Obs : Steady(o)
  PROVE  RegradeInv' /\ Justified
<1>1. rReview = Regraded!Idle /\ \A r \in Runners : rRun[r] = Regraded!Off
  BY DEF Regraded!Quiet
<1>2. RegradeTyped'
  BY DEF RegradeInv, RegradeTyped
<1>3. OneAtATime' /\ ReviewKeeps' /\ \A r \in Runners : (rRun[r] # Regraded!Off)' => RunKeeps(r)'
  BY <1>1 DEF OneAtATime, ReviewKeeps, Regraded!Off, Regraded!Idle
<1>4. \A o \in Regraded!Obs : Standing(o)'
  BY DEF RegradeInv, Standing, Steady, Regraded!Absent
<1>5. Regraded!Pending' = Regraded!Pending /\ Regraded!Reviewed' = Regraded!Reviewed
  BY DEF Regraded!Pending, Regraded!Reviewed
<1>6. Justified
  BY DEF Justified, Regraded!ProposesForgotten, Regraded!DemotesReviewed, Steady
<1>7. (Cardinality(Regraded!Pending) <= Regraded!Ceiling(Cardinality(Regraded!Reviewed)))'
        <=> Cardinality(Regraded!Pending) <= Regraded!Ceiling(Cardinality(Regraded!Reviewed))
  BY <1>5 DEF Regraded!Ceiling
<1>8. \A r \in Runners : (rRun[r] # Regraded!Off => RunKeeps(r))'
  BY <1>3 DEF Regraded!Off
<1> QED BY <1>2, <1>3, <1>4, <1>6, <1>7, <1>8 DEF RegradeInv

LEMMA CorpusStep ==
  ASSUME RegradeInv,
         \/ Regraded!NextDay \/ Regraded!SwitchShadow
         \/ \E o \in Regraded!Obs : \/ Regraded!Observe(o) \/ Regraded!Protect(o) \/ Regraded!updateObservationAccess(o)
                                    \/ Regraded!Surface(o) \/ \E own \in BOOLEAN : Regraded!CreateVow(o, own)
  PROVE  RegradeInv' /\ Justified
<1>1. Regraded!Quiet /\ UNCHANGED <<rRows, rRun, rScan, rReview, rFaults>>
  BY DEF Regraded!corpus, Regraded!NextDay, Regraded!SwitchShadow, Regraded!Observe, Regraded!Protect, Regraded!updateObservationAccess,
         Regraded!Surface, Regraded!CreateVow
<1>2. day' \in Nat
  BY DEF Regraded!NextDay, Regraded!SwitchShadow, Regraded!Observe, Regraded!Protect, Regraded!updateObservationAccess,
         Regraded!Surface, Regraded!CreateVow, RegradeInv, RegradeTyped
<1>4. shadow' \in BOOLEAN
  <2>1. shadow' = shadow \/ shadow' = ~shadow
    BY Zenon DEF Regraded!NextDay, Regraded!SwitchShadow, Regraded!Observe, Regraded!Protect, Regraded!updateObservationAccess,
         Regraded!Surface, Regraded!CreateVow
  <2>2. shadow \in BOOLEAN
    BY DEF RegradeInv, RegradeTyped
  <2> QED BY <2>1, <2>2
<1>3. obs' \in [Regraded!Obs -> ObsRow] /\ \A o \in Regraded!Obs : Steady(o)
  <2> DEFINE Goal == obs' \in [Regraded!Obs -> ObsRow] /\ \A p \in Regraded!Obs : Steady(p)
  <2>0. obs \in [Regraded!Obs -> ObsRow] /\ day \in Nat
    BY DEF RegradeInv, RegradeTyped
  <2>1. PICK a \in ObsRow : a = Regraded!Absent
    <3>1. Regraded!Absent \in ObsRow
      BY DEF Regraded!Absent, ObsRow
    <3> QED BY <3>1
  <2>2. ASSUME obs' = obs PROVE Goal
    BY <2>0, <2>2 DEF Steady
  <2>3. ASSUME NEW o \in Regraded!Obs, NEW row \in ObsRow, obs' = [obs EXCEPT ![o] = row], row.there,
               \/ obs[o] # Regraded!Absent /\ row.salience = obs[o].salience
               \/ obs[o] = Regraded!Absent /\ row.salience = "foundational"
        PROVE  Goal
    <3>1. obs'[o] = row /\ \A p \in Regraded!Obs : p # o => obs'[p] = obs[p]
      BY <2>0, <2>3
    <3> QED BY <2>0, <2>3, <3>1 DEF Steady
  <2>4. ASSUME NEW o \in Regraded!Obs, Regraded!Observe(o) PROVE Goal
    <3>1. PICK row : row = [a EXCEPT !.there = TRUE, !.salience = "foundational", !.created = day]
      OBVIOUS
    <3>2. obs' = [obs EXCEPT ![o] = row] /\ obs[o] = Regraded!Absent
      BY <2>4, <2>1, <3>1 DEF Regraded!Observe
    <3>3. row \in ObsRow /\ row.there /\ row.salience = "foundational"
      BY <2>0, <3>1 DEF ObsRow
    <3> QED BY <2>3, <3>2, <3>3
  <2>5. ASSUME NEW o \in Regraded!Obs, NEW own, Regraded!CreateVow(o, own) PROVE Goal
    <3>1. PICK row : row = [a EXCEPT !.there = TRUE, !.salience = "foundational", !.access = 1, !.created = day]
      OBVIOUS
    <3>2. obs' = [obs EXCEPT ![o] = row] /\ obs[o] = Regraded!Absent
      BY <2>5, <2>1, <3>1 DEF Regraded!CreateVow
    <3>3. row \in ObsRow /\ row.there /\ row.salience = "foundational"
      BY <2>0, <3>1 DEF ObsRow
    <3> QED BY <2>3, <3>2, <3>3
  <2>6. ASSUME NEW o \in Regraded!Obs, Regraded!updateObservationAccess(o) \/ Regraded!Surface(o) PROVE Goal
    <3>1. PICK row : /\ \/ row = [obs[o] EXCEPT !.access = @ + 1]
                        \/ row = [obs[o] EXCEPT !.surfaced = day]
                     /\ obs' = [obs EXCEPT ![o] = row]
      BY <2>0, <2>6 DEF Regraded!updateObservationAccess, Regraded!Surface
    <3>2. obs[o] \in ObsRow /\ obs[o] # Regraded!Absent
      BY <2>0, <2>6 DEF Regraded!updateObservationAccess, Regraded!Surface
    <3>3. obs[o].there
      BY <3>2 DEF RegradeInv, Standing
    <3>4. row \in ObsRow /\ row.there /\ row.salience = obs[o].salience
      BY <2>0, <3>1, <3>2, <3>3 DEF ObsRow
    <3> QED BY <2>3, <3>1, <3>2, <3>4
  <2>7. Regraded!NextDay \/ Regraded!SwitchShadow \/ (\E o \in Regraded!Obs : Regraded!Protect(o)) => obs' = obs
    BY DEF Regraded!NextDay, Regraded!SwitchShadow, Regraded!Protect, Regraded!corpus
  <2> HIDE DEF Goal
  <2>8. Goal
    BY <2>2, <2>4, <2>5, <2>6, <2>7
  <2> QED BY <2>8 DEF Goal
<1> QED BY <1>1, <1>2, <1>3, <1>4, QuietKeeps

\* What a run starts with is within the headroom.
LEMMA StartFits ==
  ASSUME RegradeInv, rFaults = 0, NEW picked, NEW found \in SUBSET Regraded!Obs, picked \in SUBSET found,
         Cardinality(picked) = Regraded!Size(found, Regraded!headroom(Cardinality(Regraded!Pending), Cardinality(Regraded!Reviewed)))
  PROVE  Cardinality(Regraded!Pending) + Cardinality(picked) <= Regraded!Ceiling(Cardinality(Regraded!Reviewed))
<1> DEFINE p == Cardinality(Regraded!Pending)
           c == Regraded!Ceiling(Cardinality(Regraded!Reviewed))
           h == Regraded!headroom(p, Cardinality(Regraded!Reviewed))
<1>1. p \in Nat /\ Cardinality(Regraded!Reviewed) \in Nat /\ Cardinality(found) \in Nat
  <2>1. Regraded!Pending \in SUBSET Regraded!Obs /\ Regraded!Reviewed \in SUBSET Regraded!Obs
    BY DEF Regraded!Pending, Regraded!Reviewed
  <2> QED BY <2>1, ObsFinite
<1>2. c \in Nat /\ p <= c
  BY <1>1, CeilingGrows DEF RegradeInv
<1>3. h = c - p
  BY <1>1, <1>2 DEF Regraded!headroom
<1>4. Cardinality(picked) = IF Cardinality(found) <= h THEN Cardinality(found) ELSE h
  BY RegradedCounts DEF Regraded!Size
<1>5. Cardinality(picked) <= c - p /\ Cardinality(picked) \in Nat
  <2> HIDE DEF p, c, h
  <2>1. picked \in SUBSET Regraded!Obs
    OBVIOUS
  <2>2. Cardinality(picked) \in Nat
    BY <2>1, ObsFinite
  <2> QED BY <1>1, <1>2, <1>3, <1>4, <2>2
<1> HIDE DEF p, c, h
<1>6. p + Cardinality(picked) <= c
  BY <1>1, <1>2, <1>5
<1> QED BY <1>6 DEF p, c

LEMMA CountsNatural ==
  /\ Cardinality(Regraded!Pending) \in Nat /\ Cardinality(Regraded!Reviewed) \in Nat
  /\ Regraded!Ceiling(Cardinality(Regraded!Reviewed)) \in Nat
<1>1. Regraded!Pending \in SUBSET Regraded!Obs /\ Regraded!Reviewed \in SUBSET Regraded!Obs
  BY DEF Regraded!Pending, Regraded!Reviewed
<1> QED BY <1>1, ObsFinite, CeilingGrows

LEMMA RunStarts ==
  ASSUME RegradeInv, NEW r \in Runners, Regraded!StartRun(r)
  PROVE  RegradeInv' /\ Justified
<1>0. PICK dark \in {shadow, TRUE}, counted \in BOOLEAN, found \in {Regraded!findSalienceRegradeCandidates, {}} :
        LET room == IF counted THEN Regraded!headroom(Regraded!Cardinality(Regraded!Pending), Regraded!Cardinality(Regraded!Reviewed))
                               ELSE Regraded!headroom(0, 0) IN
        /\ Regraded!Quiet /\ rRun[r] = Regraded!Off /\ runs < MaxRuns /\ runs' = runs + 1
        /\ \/ dark = shadow /\ counted /\ found = Regraded!findSalienceRegradeCandidates /\ UNCHANGED rFaults
           \/ ~(dark = shadow /\ counted /\ found = Regraded!findSalienceRegradeCandidates) /\ Regraded!Fault
        /\ \E picked \in SUBSET found :
             /\ Regraded!Cardinality(picked) = Regraded!Size(found, room)
             /\ rRun' = [rRun EXCEPT ![r] = [on |-> TRUE, todo |-> Regraded!Makes(picked, dark), shadow |-> dark,
                                             created |-> 0, inserted |-> 0]]
        /\ UNCHANGED <<day, shadow, switched, Regraded!corpus, rRows, rScan, rReview>>
  BY Zenon DEF Regraded!StartRun
<1> DEFINE room == IF counted THEN Regraded!headroom(Regraded!Cardinality(Regraded!Pending), Regraded!Cardinality(Regraded!Reviewed))
                              ELSE Regraded!headroom(0, 0)
<1>01. PICK picked \in SUBSET found :
        /\ Regraded!Cardinality(picked) = Regraded!Size(found, room)
        /\ rRun' = [rRun EXCEPT ![r] = [on |-> TRUE, todo |-> Regraded!Makes(picked, dark), shadow |-> dark,
                                        created |-> 0, inserted |-> 0]]
  BY <1>0
<1>1. /\ Regraded!Quiet
      /\ \/ dark = shadow /\ counted /\ found = Regraded!findSalienceRegradeCandidates /\ UNCHANGED rFaults
         \/ rFaults' = rFaults + 1
      /\ UNCHANGED <<day, shadow, obs, shields, rRows, rScan, rReview>>
  BY <1>0 DEF Regraded!Fault, Regraded!corpus
<1>17. counted => Cardinality(picked) = Regraded!Size(found, Regraded!headroom(Cardinality(Regraded!Pending), Cardinality(Regraded!Reviewed)))
  BY <1>01, RegradedCounts
<1> HIDE DEF room
<1>2. PICK k : k = [on |-> TRUE, todo |-> Regraded!Makes(picked, dark), shadow |-> dark, created |-> 0, inserted |-> 0]
  OBVIOUS
<1>3. /\ found \in SUBSET Regraded!Obs /\ picked \in SUBSET found
      /\ \A o \in found : rRows[o] = "none" /\ Regraded!Forgotten(o)
  <2>1. found \subseteq Regraded!findSalienceRegradeCandidates /\ picked \in SUBSET found
    BY <1>01
  <2>2. \A o \in Regraded!findSalienceRegradeCandidates : o \in Regraded!Obs /\ rRows[o] = "none" /\ Regraded!Forgotten(o)
    BY DEF Regraded!findSalienceRegradeCandidates
  <2> QED BY <2>1, <2>2
<1>4. k \in RunRow /\ k.todo \subseteq picked /\ (k.shadow => k.todo = {}) /\ k.created = 0 /\ k.inserted = 0
  BY <1>2, <1>3 DEF Regraded!Makes, RunRow, RegradeInv, RegradeTyped
<1>5. rReview = Regraded!Idle /\ \A s \in Runners : rRun[s] = Regraded!Off
  BY <1>1 DEF Regraded!Quiet
<1>6. rRun' \in [Runners -> {Regraded!Off} \cup RunRow] /\ rRun'[r] = k /\ \A s \in Runners \ {r} : rRun'[s] = Regraded!Off
  BY <1>01, <1>1, <1>2, <1>4, <1>5 DEF RegradeInv, RegradeTyped
<1>7. rFaults' \in Nat
  BY <1>1 DEF RegradeInv, RegradeTyped
<1>8. RegradeTyped'
  BY <1>1, <1>6, <1>7 DEF RegradeInv, RegradeTyped
<1>9. OneAtATime' /\ ReviewKeeps'
  BY <1>1, <1>5, <1>6 DEF OneAtATime, ReviewKeeps, Regraded!Idle, Regraded!Off
<1>10. Regraded!Pending' = Regraded!Pending /\ Regraded!Reviewed' = Regraded!Reviewed
  BY <1>1 DEF Regraded!Pending, Regraded!Reviewed
<1>11. rFaults' = 0 => rFaults = 0 /\ Cardinality(Regraded!Pending) + Cardinality(k.todo) <= Regraded!Ceiling(Cardinality(Regraded!Reviewed))
  <2>1. SUFFICES ASSUME rFaults' = 0
                 PROVE  rFaults = 0 /\ Cardinality(Regraded!Pending) + Cardinality(k.todo) <= Regraded!Ceiling(Cardinality(Regraded!Reviewed))
    OBVIOUS
  <2>2. counted /\ rFaults = 0
    BY <1>1, <2>1 DEF RegradeInv, RegradeTyped
  <2>3. Cardinality(Regraded!Pending) + Cardinality(picked) <= Regraded!Ceiling(Cardinality(Regraded!Reviewed))
    BY <1>17, <1>3, <2>2, StartFits
  <2>4. IsFiniteSet(picked) /\ Cardinality(picked) \in Nat /\ Cardinality(k.todo) \in Nat /\ Cardinality(k.todo) <= Cardinality(picked)
    <3>1. picked \in SUBSET Regraded!Obs
      BY <1>3
    <3>2. IsFiniteSet(picked)
      BY <3>1, ObsFinite
    <3> QED BY <1>4, <3>2, FS_Subset, FS_CardinalityType
  <2>5. Cardinality(Regraded!Pending) \in Nat /\ Regraded!Ceiling(Cardinality(Regraded!Reviewed)) \in Nat
    BY CountsNatural
  <2> QED BY <2>2, <2>3, <2>4, <2>5
<1>12. RunKeeps(r)'
  <2>1. \A o \in k.todo : rRows'[o] = "none" /\ Regraded!Forgotten(o)'
    BY <1>1, <1>3, <1>4 DEF Regraded!Forgotten, Regraded!Absent
  <2>2. (rFaults = 0 => Cardinality(Regraded!Pending) + Cardinality(rRun[r].todo) <= Regraded!Ceiling(Cardinality(Regraded!Reviewed)))'
    BY <1>6, <1>10, <1>11 DEF Regraded!Ceiling
  <2> QED BY <1>4, <1>6, <2>1, <2>2 DEF RunKeeps
<1>13. \A s \in Runners : (rRun[s] # Regraded!Off => RunKeeps(s))'
  BY <1>6, <1>12 DEF Regraded!Off
<1>14. \A o \in Regraded!Obs : Standing(o)'
  BY <1>1 DEF RegradeInv, Standing, Regraded!Absent
<1>15. (rFaults = 0 => Cardinality(Regraded!Pending) <= Regraded!Ceiling(Cardinality(Regraded!Reviewed)))'
  BY <1>10, <1>11 DEF RegradeInv, Regraded!Ceiling
<1>16. Justified
  BY <1>1 DEF Justified, Regraded!ProposesForgotten, Regraded!DemotesReviewed
<1> QED BY <1>1, <1>8, <1>9, <1>13, <1>14, <1>15, <1>16 DEF RegradeInv

LEMMA RunCreates ==
  ASSUME RegradeInv, NEW r \in Runners, NEW o \in Regraded!Obs, Regraded!Create(r, o)
  PROVE  RegradeInv' /\ Justified
<1>1. /\ rRun[r] # Regraded!Off /\ o \in rRun[r].todo
      /\ rRows' = IF rRows[o] = "none" THEN [rRows EXCEPT ![o] = "pending"] ELSE rRows
      /\ rRun' = [rRun EXCEPT ![r].todo = @ \ {o}, ![r].created = @ + 1, ![r].inserted = @ + (IF rRows[o] = "none" THEN 1 ELSE 0)]
      /\ UNCHANGED <<day, shadow, obs, shields, rScan, rReview, rFaults>>
  BY DEF Regraded!Create, Regraded!corpus
<1>2. PICK k : k = rRun[r]
  OBVIOUS
<1>3. k \in RunRow /\ rRun[r] = k
  BY <1>1, <1>2 DEF RegradeInv, RegradeTyped
<1>4. /\ \A p \in k.todo : rRows[p] = "none" /\ Regraded!Forgotten(p)
      /\ k.created = k.inserted /\ ~k.shadow
      /\ rFaults = 0 => Cardinality(Regraded!Pending) + Cardinality(k.todo) <= Regraded!Ceiling(Cardinality(Regraded!Reviewed))
  BY <1>1, <1>3 DEF RegradeInv, RunKeeps
<1>5. PICK l : l = [k EXCEPT !.todo = @ \ {o}, !.created = @ + 1, !.inserted = @ + 1]
  OBVIOUS
<1>6. rRows[o] = "none" /\ rRows' = [rRows EXCEPT ![o] = "pending"] /\ rRun' = [rRun EXCEPT ![r] = l]
  BY <1>1, <1>3, <1>4, <1>5
<1>7. l \in RunRow /\ l.todo = k.todo \ {o} /\ l.created = l.inserted /\ ~l.shadow
  <2>1. l.todo = k.todo \ {o} /\ l.created = k.created + 1 /\ l.inserted = k.inserted + 1
    BY <1>3, <1>5 DEF RunRow
  <2>3. l \in RunRow
    <3>0. k.todo \ {o} \in SUBSET Regraded!Obs /\ k.created + 1 \in Nat /\ k.inserted + 1 \in Nat
      <4>1. k.todo \in SUBSET Regraded!Obs /\ k.created \in Nat /\ k.inserted \in Nat
        BY <1>3 DEF RunRow
      <4> QED BY <4>1
    <3>1. PICK left \in SUBSET Regraded!Obs, made1 \in Nat, made2 \in Nat :
            left = k.todo \ {o} /\ made1 = k.created + 1 /\ made2 = k.inserted + 1
      BY <3>0
    <3>2. l = [k EXCEPT !.todo = left, !.created = made1, !.inserted = made2]
      BY <1>5, <3>1
    <3> QED BY <1>3, <3>2 DEF RunRow
  <2>2. l.shadow = k.shadow
    BY <1>3, <1>5 DEF RunRow
  <2> QED BY <1>4, <2>1, <2>2, <2>3
<1>8. /\ rRun' \in [Runners -> {Regraded!Off} \cup RunRow] /\ rRun'[r] = l
      /\ \A s \in Runners \ {r} : rRun'[s] = rRun[s]
  BY <1>6, <1>7 DEF RegradeInv, RegradeTyped
<1>9. \A s \in Runners \ {r} : rRun[s] = Regraded!Off
  BY <1>1 DEF RegradeInv, OneAtATime
<1>10. rReview = Regraded!Idle
  BY <1>1 DEF RegradeInv, OneAtATime
<1>11. /\ rRows' \in [Regraded!Obs -> {"none", "pending", "accepted", "rejected"}] /\ rRows'[o] = "pending"
       /\ \A p \in Regraded!Obs \ {o} : rRows'[p] = rRows[p]
  BY <1>6 DEF RegradeInv, RegradeTyped
<1>12. RegradeTyped'
  BY <1>1, <1>8, <1>11 DEF RegradeInv, RegradeTyped
<1>13. OneAtATime' /\ ReviewKeeps'
  <2>1. rReview' = Regraded!Idle /\ \A s \in Runners : rRun'[s] # Regraded!Off => s = r
    BY <1>1, <1>8, <1>9, <1>10
  <2> QED BY <2>1 DEF OneAtATime, ReviewKeeps, Regraded!Idle, Regraded!Off
<1>14. Regraded!Pending' = Regraded!Pending \cup {o} /\ o \notin Regraded!Pending /\ Regraded!Reviewed' = Regraded!Reviewed
  BY <1>6, <1>11 DEF Regraded!Pending, Regraded!Reviewed
<1>15. Cardinality(Regraded!Pending') = Cardinality(Regraded!Pending) + 1 /\ Cardinality(l.todo) = Cardinality(k.todo) - 1
  <2>1. IsFiniteSet(Regraded!Pending) /\ IsFiniteSet(k.todo)
    BY <1>3, ObsFinite DEF RunRow, Regraded!Pending
  <2> QED BY <1>1, <1>3, <1>7, <1>14, <2>1, FS_AddElement, FS_RemoveElement
<1>16. Cardinality(Regraded!Pending) \in Nat /\ Cardinality(k.todo) \in Nat /\ Cardinality(l.todo) \in Nat
       /\ Regraded!Ceiling(Cardinality(Regraded!Reviewed)) \in Nat
  BY <1>3, <1>7, CountsNatural, ObsFinite DEF RunRow
<1>17. rFaults = 0 => Cardinality(Regraded!Pending') + Cardinality(l.todo) <= Regraded!Ceiling(Cardinality(Regraded!Reviewed))
  BY <1>4, <1>15, <1>16
<1>18. RunKeeps(r)'
  <2>1. \A p \in l.todo : rRows'[p] = "none" /\ Regraded!Forgotten(p)'
    BY <1>1, <1>3, <1>4, <1>7, <1>11 DEF RunRow, Regraded!Forgotten, Regraded!Absent
  <2>2. (rFaults = 0 => Cardinality(Regraded!Pending) + Cardinality(rRun[r].todo) <= Regraded!Ceiling(Cardinality(Regraded!Reviewed)))'
    BY <1>1, <1>8, <1>14, <1>17 DEF Regraded!Ceiling
  <2> QED BY <1>7, <1>8, <2>1, <2>2 DEF RunKeeps
<1>19. \A s \in Runners : (rRun[s] # Regraded!Off => RunKeeps(s))'
  BY <1>8, <1>9, <1>18 DEF Regraded!Off
<1>20. \A p \in Regraded!Obs : Standing(p)'
  <2>1. obs[o] # Regraded!Absent /\ obs[o].salience # "active"
    BY <1>1, <1>3, <1>4 DEF Regraded!Forgotten
  <2> QED BY <1>1, <1>11, <2>1 DEF RegradeInv, Standing, Regraded!Absent
<1>21. (rFaults = 0 => Cardinality(Regraded!Pending) <= Regraded!Ceiling(Cardinality(Regraded!Reviewed)))'
  BY <1>1, <1>14, <1>15, <1>16, <1>17 DEF Regraded!Ceiling
<1>22. Justified
  BY <1>1, <1>3, <1>4, <1>11 DEF Justified, Regraded!ProposesForgotten, Regraded!DemotesReviewed
<1> QED BY <1>1, <1>12, <1>13, <1>19, <1>20, <1>21, <1>22 DEF RegradeInv

LEMMA RunEnds ==
  ASSUME RegradeInv, NEW r \in Runners, Regraded!EndRun(r)
  PROVE  RegradeInv' /\ Justified
<1>1. /\ rRun[r] # Regraded!Off /\ rRun' = [rRun EXCEPT ![r] = Regraded!Off]
      /\ rScan' = [created |-> rRun[r].created, inserted |-> rRun[r].inserted, shadow |-> rRun[r].shadow]
      /\ UNCHANGED <<day, shadow, obs, shields, rRows, rReview, rFaults>>
  BY DEF Regraded!EndRun, Regraded!corpus
<1>2. rScan'.created = rRun[r].created /\ rScan'.inserted = rRun[r].inserted
  BY <1>1
<1>3. rRun[r].created = rRun[r].inserted
  BY <1>1 DEF RegradeInv, RunKeeps
<1>4. rRun' \in [Runners -> {Regraded!Off} \cup RunRow] /\ rRun'[r] = Regraded!Off
      /\ \A s \in Runners \ {r} : rRun'[s] = rRun[s]
  BY <1>1 DEF RegradeInv, RegradeTyped
<1>5. \A s \in Runners : rRun'[s] = Regraded!Off
  BY <1>1, <1>4 DEF RegradeInv, OneAtATime
<1>6. RegradeTyped'
  BY <1>1, <1>4 DEF RegradeInv, RegradeTyped
<1>7. OneAtATime' /\ \A s \in Runners : (rRun[s] # Regraded!Off => RunKeeps(s))'
  BY <1>5 DEF OneAtATime, Regraded!Off
<1>8. ReviewKeeps' /\ \A o \in Regraded!Obs : Standing(o)'
  BY <1>1 DEF RegradeInv, Standing, ReviewKeeps, Regraded!Absent, Regraded!Idle
<1>9. Regraded!Pending' = Regraded!Pending /\ Regraded!Reviewed' = Regraded!Reviewed
  BY <1>1 DEF Regraded!Pending, Regraded!Reviewed
<1>10. (rFaults = 0 => Cardinality(Regraded!Pending) <= Regraded!Ceiling(Cardinality(Regraded!Reviewed)))'
  BY <1>1, <1>9 DEF RegradeInv, Regraded!Ceiling
<1>11. Justified
  BY <1>1 DEF Justified, Regraded!ProposesForgotten, Regraded!DemotesReviewed
<1> QED BY <1>2, <1>3, <1>6, <1>7, <1>8, <1>10, <1>11 DEF RegradeInv

LEMMA RowIsReviewed ==
  ASSUME RegradeInv, NEW o \in Regraded!Obs, NEW decision \in {"accepted", "rejected"}, Regraded!Review(o, decision)
  PROVE  RegradeInv' /\ Justified
<1>1. /\ Regraded!Quiet /\ rReview = Regraded!Idle /\ rRows[o] = "pending" /\ rRows' = [rRows EXCEPT ![o] = decision]
      /\ rReview' = (IF decision = "accepted" THEN [busy |-> TRUE, obs |-> o] ELSE Regraded!Idle)
      /\ UNCHANGED <<day, shadow, obs, shields, rRun, rScan, rFaults>>
  BY DEF Regraded!Review, Regraded!corpus
<1>2. \A r \in Runners : rRun'[r] = Regraded!Off
  BY <1>1 DEF Regraded!Quiet
<1>3. /\ rRows' \in [Regraded!Obs -> {"none", "pending", "accepted", "rejected"}] /\ rRows'[o] = decision
      /\ \A p \in Regraded!Obs \ {o} : rRows'[p] = rRows[p]
  BY <1>1 DEF RegradeInv, RegradeTyped
<1>4. RegradeTyped'
  BY <1>1, <1>3 DEF RegradeInv, RegradeTyped
<1>5. OneAtATime' /\ \A s \in Runners : (rRun[s] # Regraded!Off => RunKeeps(s))'
  BY <1>2 DEF OneAtATime, Regraded!Off
<1>6. obs[o] # Regraded!Absent /\ obs[o].salience # "active"
  BY <1>1 DEF RegradeInv, Standing
<1>7. ReviewKeeps'
  <2>1. rReview' # Regraded!Idle => decision = "accepted" /\ rReview'.obs = o
    BY <1>1
  <2> QED BY <1>1, <1>3, <1>6, <2>1 DEF ReviewKeeps, Regraded!Idle
<1>8. \A p \in Regraded!Obs : Standing(p)'
  BY <1>1, <1>3, <1>6 DEF RegradeInv, Standing, Regraded!Absent
<1>9. Regraded!Pending' \in SUBSET Regraded!Pending /\ Regraded!Reviewed \in SUBSET Regraded!Reviewed'
  BY <1>1, <1>3 DEF Regraded!Pending, Regraded!Reviewed
<1>10. Cardinality(Regraded!Pending') <= Cardinality(Regraded!Pending) /\ Cardinality(Regraded!Reviewed) <= Cardinality(Regraded!Reviewed')
       /\ Cardinality(Regraded!Pending') \in Nat /\ Cardinality(Regraded!Reviewed') \in Nat
  <2>1. Regraded!Pending \in SUBSET Regraded!Obs /\ Regraded!Reviewed' \in SUBSET Regraded!Obs
    BY DEF Regraded!Pending, Regraded!Reviewed, Regraded!Obs
  <2>2. IsFiniteSet(Regraded!Pending) /\ IsFiniteSet(Regraded!Reviewed')
    BY <2>1, ObsFinite
  <2> QED BY <1>9, <2>2, FS_Subset, FS_CardinalityType
<1>11. Regraded!Ceiling(Cardinality(Regraded!Reviewed)) <= Regraded!Ceiling(Cardinality(Regraded!Reviewed'))
       /\ Regraded!Ceiling(Cardinality(Regraded!Reviewed')) \in Nat
  BY <1>10, CountsNatural, CeilingGrows
<1>12. rFaults = 0 => Cardinality(Regraded!Pending') <= Regraded!Ceiling(Cardinality(Regraded!Reviewed'))
  <2>1. rFaults = 0 => Cardinality(Regraded!Pending) <= Regraded!Ceiling(Cardinality(Regraded!Reviewed))
    BY DEF RegradeInv
  <2> QED BY <1>10, <1>11, <2>1, CountsNatural
<1>13. (rFaults = 0 => Cardinality(Regraded!Pending) <= Regraded!Ceiling(Cardinality(Regraded!Reviewed)))'
  BY <1>1, <1>12 DEF Regraded!Ceiling
<1>14. Justified
  BY <1>1, <1>3 DEF Justified, Regraded!ProposesForgotten, Regraded!DemotesReviewed
<1> QED BY <1>1, <1>4, <1>5, <1>7, <1>8, <1>13, <1>14 DEF RegradeInv

LEMMA ReviewedIsDemoted ==
  ASSUME RegradeInv, Regraded!Demote
  PROVE  RegradeInv' /\ Justified
<1> PICK o : o = rReview.obs
  OBVIOUS
<1>1. /\ rReview # Regraded!Idle /\ rReview' = Regraded!Idle
      /\ \/ obs' = [obs EXCEPT ![o] = [obs[o] EXCEPT !.salience = "active"]] /\ UNCHANGED rFaults
         \/ rFaults' = rFaults + 1 /\ UNCHANGED obs
      /\ UNCHANGED <<day, shadow, shields, rRows, rRun, rScan>>
  BY DEF Regraded!Demote, Regraded!Demoted, Regraded!Fault
<1>2. o \in Regraded!Obs /\ rRows[o] = "accepted" /\ obs[o].salience # "active"
  BY <1>1 DEF RegradeInv, ReviewKeeps
<1>3. \A r \in Runners : rRun'[r] = Regraded!Off
  BY <1>1 DEF RegradeInv, OneAtATime
<1>4. OneAtATime' /\ ReviewKeeps' /\ \A s \in Runners : (rRun[s] # Regraded!Off => RunKeeps(s))'
  BY <1>1, <1>3 DEF OneAtATime, ReviewKeeps, Regraded!Off, Regraded!Idle
<1>5. obs[o] \in ObsRow /\ obs[o] # Regraded!Absent /\ obs[o].there /\ obs[o].salience = "foundational"
  BY <1>2 DEF RegradeInv, RegradeTyped, Standing
<1>6. PICK row : row = [obs[o] EXCEPT !.salience = "active"]
  OBVIOUS
<1>7. row \in ObsRow /\ row.there /\ row.salience = "active"
  BY <1>5, <1>6 DEF ObsRow
<1>8. obs' = [obs EXCEPT ![o] = row] \/ obs' = obs
  BY <1>1, <1>6
<1>9. /\ obs' \in [Regraded!Obs -> ObsRow]
      /\ \A p \in Regraded!Obs : obs'[p] = obs[p] \/ (p = o /\ obs'[p] = row)
  BY <1>7, <1>8 DEF RegradeInv, RegradeTyped
<1>10. rFaults' \in Nat /\ (rFaults' = 0 => rFaults = 0)
  BY <1>1 DEF RegradeInv, RegradeTyped
<1>11. RegradeTyped'
  BY <1>1, <1>9, <1>10 DEF RegradeInv, RegradeTyped
<1>12. row # Regraded!Absent
  BY <1>7 DEF Regraded!Absent
<1>13. \A p \in Regraded!Obs : Standing(p)'
  BY <1>1, <1>2, <1>7, <1>9, <1>12 DEF RegradeInv, Standing, Regraded!Absent
<1>14. Regraded!Pending' = Regraded!Pending /\ Regraded!Reviewed' = Regraded!Reviewed
  BY <1>1 DEF Regraded!Pending, Regraded!Reviewed
<1>15. (rFaults = 0 => Cardinality(Regraded!Pending) <= Regraded!Ceiling(Cardinality(Regraded!Reviewed)))'
  BY <1>10, <1>14 DEF RegradeInv, Regraded!Ceiling
<1>16. Justified
  BY <1>1, <1>2, <1>5, <1>7, <1>9 DEF Justified, Regraded!ProposesForgotten, Regraded!DemotesReviewed
<1> QED BY <1>1, <1>4, <1>11, <1>13, <1>15, <1>16 DEF RegradeInv

LEMMA RegradeStep == RegradeInv /\ [Regraded!Next]_Forgetting => RegradeInv' /\ Justified
<1>1. ASSUME RegradeInv, UNCHANGED Forgetting PROVE RegradeInv' /\ Justified
  <2>1. UNCHANGED <<day, shadow, obs, shields, rRows, rRun, rScan, rReview, rFaults>>
    BY <1>1 DEF Forgetting
  <2>2. RegradeTyped' /\ OneAtATime' /\ ReviewKeeps' /\ \A o \in Regraded!Obs : Standing(o)'
    BY <1>1, <2>1 DEF RegradeInv, RegradeTyped, OneAtATime, ReviewKeeps, Standing, Regraded!Absent, Regraded!Idle, Regraded!Off
  <2>3. Regraded!Pending' = Regraded!Pending /\ Regraded!Reviewed' = Regraded!Reviewed
    BY <2>1 DEF Regraded!Pending, Regraded!Reviewed
  <2>4. \A r \in Runners : (rRun[r] # Regraded!Off => RunKeeps(r))'
    BY <1>1, <2>1, <2>3 DEF RegradeInv, RunKeeps, Regraded!Off, Regraded!Forgotten, Regraded!Absent, Regraded!Ceiling
  <2>5. (rFaults = 0 => Cardinality(Regraded!Pending) <= Regraded!Ceiling(Cardinality(Regraded!Reviewed)))'
    BY <1>1, <2>1, <2>3 DEF RegradeInv, Regraded!Ceiling
  <2>6. Justified
    BY <2>1 DEF Justified, Regraded!ProposesForgotten, Regraded!DemotesReviewed
  <2> QED BY <1>1, <2>1, <2>2, <2>4, <2>5, <2>6 DEF RegradeInv
<1> QED BY <1>1, CorpusStep, RunStarts, RunCreates, RunEnds, RowIsReviewed, ReviewedIsDemoted DEF Regraded!Next

\* What the demotion keeps, of its invariant.
LEMMA RegradeKept == RegradeInv => Regraded!WipBound /\ Regraded!CreatedTrue /\ Regraded!ShadowCreatesNone
BY RegradedCounts DEF RegradeInv, RunKeeps, Regraded!WipBound, Regraded!CreatedTrue, Regraded!ShadowCreatesNone

-----------------------------------------------------------------------------
(* The paradoxes. *)

LoopRow == [mode : {"none", "standard", "learning_objective", "paradox"}, status : {"none", "burning", "nagging", "resolved"},
            ents : SUBSET Cores]
LoopTable == [Paradoxes!LoopIds -> LoopRow]
TaskRow == [on : {TRUE}, loops : LoopTable, todo : SUBSET Cores, created : Nat, inserted : Nat]
ResolveRow == [busy : {TRUE}, kind : {"resolve"}, loops : LoopTable]
ReviewRow == [busy : {TRUE}, kind : {"review", "effect"}, core : Cores, decision : {"accepted", "rejected"}]

ParadoxTyped ==
  /\ pNow \in Nat /\ log \in Nat /\ pFaults \in Nat /\ loops \in LoopTable /\ opened \in SUBSET Paradoxes!LoopIds
  /\ proposals \in [Cores -> {"none", "pending", "accepted", "rejected"}]
  /\ task \in {Paradoxes!Off} \cup TaskRow
  /\ pCall \in [ParadoxCallers -> {Paradoxes!Idle} \cup ResolveRow \cup ReviewRow]

\* One run of the task or one call at a time.
OneCall ==
  /\ task # Paradoxes!Off => \A c \in ParadoxCallers : pCall[c] = Paradoxes!Idle
  /\ \A c, d \in ParadoxCallers : pCall[c] # Paradoxes!Idle /\ pCall[d] # Paradoxes!Idle => c = d

\* What the task has left was challenged often, and the loops it read are those there are.
TaskKeeps ==
  /\ \A k \in task.todo : Paradoxes!Cardinality(Paradoxes!recentChallenges(k)) >= Challenged
  /\ pFaults = 0 => task.loops = loops

\* Nothing but the status of a loop changes.
SameLoops(table) ==
  \A i \in Paradoxes!LoopIds :
    /\ table[i].mode = loops[i].mode /\ table[i].ents = loops[i].ents
    /\ table[i] = Paradoxes!NoLoop <=> loops[i] = Paradoxes!NoLoop

CallKeeps(c) ==
  /\ pCall[c].kind = "resolve" => SameLoops(pCall[c].loops)
  /\ pCall[c].kind = "review" => proposals[pCall[c].core] = "pending"
  /\ pCall[c].kind = "effect" => proposals[pCall[c].core] = "accepted"

\* A core has a paradox loop of its own when its acceptance has been carried out, and one.
LoopPerCore ==
  \A k \in Cores :
    IF proposals[k] = "accepted" /\ ~Paradoxes!Holding(k) THEN \E i \in Paradoxes!LoopIds : Paradoxes!ForCore(k) = {i}
                                                          ELSE Paradoxes!ForCore(k) = {}

ParadoxInv ==
  /\ ParadoxTyped /\ OneCall
  /\ task # Paradoxes!Off => TaskKeeps
  /\ \A c \in ParadoxCallers : pCall[c] # Paradoxes!Idle => CallKeeps(c)
  /\ \A i \in opened : loops[i] # Paradoxes!NoLoop
  /\ pFaults = 0 => LoopPerCore

LEMMA ParadoxCounts == \A S : Paradoxes!Cardinality(S) = Cardinality(S)
BY DEF Paradoxes!Cardinality, Cardinality

LEMMA RowShapes ==
  /\ \A x \in ResolveRow : x # Paradoxes!Idle /\ x.kind = "resolve" /\ x.loops \in LoopTable
  /\ \A x \in ReviewRow : x # Paradoxes!Idle /\ x.kind \in {"review", "effect"} /\ x.core \in Cores
                          /\ x.decision \in {"accepted", "rejected"}
  /\ \A x \in TaskRow : x # Paradoxes!Off
<1>1. ASSUME NEW x \in ResolveRow \cup ReviewRow PROVE x # Paradoxes!Idle
  <2>1. x.busy
    BY DEF ResolveRow, ReviewRow
  <2>2. ~Paradoxes!Idle.busy
    BY DEF Paradoxes!Idle
  <2> QED BY <2>1, <2>2
<1>2. ASSUME NEW x \in TaskRow PROVE x # Paradoxes!Off
  <2>1. x.on
    BY DEF TaskRow
  <2>2. ~Paradoxes!Off.on
    BY DEF Paradoxes!Off
  <2> QED BY <2>1, <2>2
<1>3. \A x \in ResolveRow : x.kind = "resolve" /\ x.loops \in LoopTable
  BY DEF ResolveRow
<1>4. \A x \in ReviewRow : x.kind \in {"review", "effect"} /\ x.core \in Cores /\ x.decision \in {"accepted", "rejected"}
  BY DEF ReviewRow
<1> QED BY <1>1, <1>2, <1>3, <1>4

LEMMA ParadoxInit == Paradoxes!Init => ParadoxInv
<1> SUFFICES ASSUME Paradoxes!Init PROVE ParadoxInv
  OBVIOUS
<1>1. /\ pNow = 0 /\ proposals = [k \in Cores |-> "none"] /\ loops = [i \in Paradoxes!LoopIds |-> Paradoxes!NoLoop]
      /\ task = Paradoxes!Off /\ pCall = [c \in ParadoxCallers |-> Paradoxes!Idle] /\ opened = {} /\ log = 0 /\ pFaults = 0
  BY DEF Paradoxes!Init
<1>2. Paradoxes!NoLoop \in LoopRow /\ Paradoxes!NoLoop.mode # "paradox"
  BY DEF Paradoxes!NoLoop, LoopRow
<1>3. ParadoxTyped
  BY <1>1, <1>2 DEF ParadoxTyped, LoopTable
<1>4. \A k \in Cores : Paradoxes!ForCore(k) = {} /\ proposals[k] # "accepted"
  BY <1>1, <1>2 DEF Paradoxes!ForCore
<1> QED BY <1>1, <1>3, <1>4 DEF ParadoxInv, OneCall, LoopPerCore

Called == Paradoxes!ProposesInNeed /\ Paradoxes!AcceleratesByParadox

\* The cores' loops are theirs as before.
PerCoreSame ==
  \A k \in Cores : /\ Paradoxes!ForCore(k)' = Paradoxes!ForCore(k)
                   /\ (proposals'[k] = "accepted" /\ ~Paradoxes!Holding(k)') <=> (proposals[k] = "accepted" /\ ~Paradoxes!Holding(k))

LEMMA PerCoreKept ==
  ASSUME ParadoxInv, PerCoreSame, pFaults' = 0 => pFaults = 0
  PROVE  (pFaults = 0 => LoopPerCore)'
<1> SUFFICES ASSUME pFaults' = 0 PROVE LoopPerCore'
  OBVIOUS
<1>1. LoopPerCore
  BY DEF ParadoxInv
<1>2. ASSUME NEW k \in Cores
      PROVE  IF proposals'[k] = "accepted" /\ ~Paradoxes!Holding(k)'
             THEN \E i \in Paradoxes!LoopIds : Paradoxes!ForCore(k)' = {i} ELSE Paradoxes!ForCore(k)' = {}
  BY <1>1 DEF LoopPerCore, PerCoreSame
<1> QED BY <1>2 DEF LoopPerCore, Paradoxes!LoopIds

LEMMA LoopsUnmoved ==
  ASSUME \A i \in Paradoxes!LoopIds : loops'[i].mode = loops[i].mode /\ loops'[i].ents = loops[i].ents
  PROVE  \A k : Paradoxes!ForCore(k)' = Paradoxes!ForCore(k)
BY DEF Paradoxes!ForCore, Paradoxes!LoopIds

LEMMA QuietIsIdle ==
  ASSUME Paradoxes!Quiet
  PROVE  task = Paradoxes!Off /\ \A c \in ParadoxCallers : pCall[c] = Paradoxes!Idle
BY DEF Paradoxes!Quiet

LEMMA IdleHolds ==
  ASSUME \A c \in ParadoxCallers : pCall[c] = Paradoxes!Idle
  PROVE  \A k : ~Paradoxes!Holding(k)
BY DEF Paradoxes!Holding

\* Time, a challenge, an engagement and the decay.
LEMMA MindSteps ==
  ASSUME ParadoxInv,
         Paradoxes!Tick \/ Paradoxes!Engage \/ Paradoxes!RunDecay \/ \E k \in Cores : Paradoxes!Challenge(k)
  PROVE  ParadoxInv' /\ Called
<1>1. Paradoxes!Quiet /\ UNCHANGED <<proposals, loops, task, pCall, opened, pFaults>>
  BY DEF Paradoxes!Tick, Paradoxes!Engage, Paradoxes!RunDecay, Paradoxes!Challenge
<1>2. pNow' \in Nat /\ log' \in Nat
  BY DEF Paradoxes!Tick, Paradoxes!Engage, Paradoxes!RunDecay, Paradoxes!Challenge, Paradoxes!mind, ParadoxInv, ParadoxTyped
<1>3. task = Paradoxes!Off /\ \A c \in ParadoxCallers : pCall[c] = Paradoxes!Idle
  BY <1>1, QuietIsIdle
<1>4. ParadoxTyped'
  BY <1>1, <1>2 DEF ParadoxInv, ParadoxTyped, LoopTable, Paradoxes!LoopIds, TaskRow, ResolveRow
<1>5. OneCall' /\ (task # Paradoxes!Off => TaskKeeps)' /\ \A c \in ParadoxCallers : (pCall[c] # Paradoxes!Idle => CallKeeps(c))'
  BY <1>1, <1>3 DEF OneCall, Paradoxes!Idle, Paradoxes!Off
<1>6. \A i \in opened' : (loops[i] # Paradoxes!NoLoop)'
  BY <1>1 DEF ParadoxInv, Paradoxes!NoLoop
<1>7. PerCoreSame
  BY <1>1, LoopsUnmoved DEF PerCoreSame, Paradoxes!Holding, Paradoxes!Idle
<1>8. (pFaults = 0 => LoopPerCore)'
  BY <1>1, <1>7, PerCoreKept
<1>9. Paradoxes!AcceleratesByParadox
  <2>1. SUFFICES ASSUME log' # log, phase' # phase, log' < 3
                 PROVE  Paradoxes!linkedToBurningParadox
    BY DEF Paradoxes!AcceleratesByParadox, Paradoxes!linkedToBurningParadox
  <2>2. Paradoxes!Engage
    BY <2>1 DEF Paradoxes!Tick, Paradoxes!RunDecay, Paradoxes!Challenge, Paradoxes!mind
  <2>3. log' = log + 1 /\ log + 1 >= Paradoxes!baseThreshold /\ log \in Nat
    BY <2>1, <2>2 DEF Paradoxes!Engage, ParadoxInv, ParadoxTyped
  <2> QED BY <2>1, <2>3 DEF Paradoxes!baseThreshold
<1>10. Paradoxes!ProposesInNeed
  BY <1>1 DEF Paradoxes!ProposesInNeed
<1> QED BY <1>4, <1>5, <1>6, <1>8, <1>9, <1>10 DEF ParadoxInv, Called

\* A loop added under a free id is one more, and the cores' own stay.
LEMMA LoopAppended ==
  ASSUME ParadoxTyped, NEW i, NEW row \in LoopRow, row.status # "none", Paradoxes!appendOpenLoop(i, row),
         \A j \in opened : loops[j] # Paradoxes!NoLoop
  PROVE  /\ i \in Paradoxes!LoopIds /\ loops' \in LoopTable /\ opened' \in SUBSET Paradoxes!LoopIds
         /\ \A j \in opened' : loops'[j] # Paradoxes!NoLoop
         /\ \A k : Paradoxes!ForCore(k)' = IF row.mode = "paradox" /\ row.ents = {k} THEN Paradoxes!ForCore(k) \cup {i}
                                                                                  ELSE Paradoxes!ForCore(k)
<1>1. /\ i \in Paradoxes!LoopIds /\ \A j \in Paradoxes!LoopIds : (loops[j] # Paradoxes!NoLoop \/ j \in opened) => j < i
      /\ loops' = [loops EXCEPT ![i] = row] /\ opened' = opened \cup {i}
  BY DEF Paradoxes!appendOpenLoop, Paradoxes!Free
<1>2. loops[i] = Paradoxes!NoLoop
  <2>1. i \in Int
    BY <1>1 DEF Paradoxes!LoopIds
  <2> QED BY <1>1, <2>1
<1>3. row # Paradoxes!NoLoop /\ Paradoxes!NoLoop.mode # "paradox"
  BY DEF Paradoxes!NoLoop
<1>4. loops' \in LoopTable /\ loops'[i] = row /\ \A j \in Paradoxes!LoopIds \ {i} : loops'[j] = loops[j]
  BY <1>1 DEF ParadoxTyped, LoopTable
<1>5. opened' \in SUBSET Paradoxes!LoopIds /\ \A j \in opened' : loops'[j] # Paradoxes!NoLoop
  BY <1>1, <1>3, <1>4 DEF ParadoxTyped
<1>6. ASSUME NEW k
      PROVE  Paradoxes!ForCore(k)' = IF row.mode = "paradox" /\ row.ents = {k} THEN Paradoxes!ForCore(k) \cup {i}
                                                                            ELSE Paradoxes!ForCore(k)
  <2>1. \A j : j \in Paradoxes!ForCore(k)' <=> j \in Paradoxes!LoopIds /\ loops'[j].mode = "paradox" /\ loops'[j].ents = {k}
    BY DEF Paradoxes!ForCore, Paradoxes!LoopIds
  <2>2. \A j : j \in Paradoxes!ForCore(k) <=> j \in Paradoxes!LoopIds /\ loops[j].mode = "paradox" /\ loops[j].ents = {k}
    BY DEF Paradoxes!ForCore
  <2> DEFINE old == Paradoxes!ForCore(k)
             new == Paradoxes!ForCore(k)'
  <2>3. \A j : j # i => (j \in new <=> j \in old)
    BY <1>4, <2>1, <2>2
  <2>4. i \notin old
    BY <1>2, <1>3, <2>2
  <2>5. i \in new <=> row.mode = "paradox" /\ row.ents = {k}
    BY <1>1, <1>4, <2>1
  <2> HIDE DEF old, new
  <2>6. new = IF row.mode = "paradox" /\ row.ents = {k} THEN old \cup {i} ELSE old
    BY <2>3, <2>4, <2>5
  <2> QED BY <2>6 DEF old, new
<1> QED BY <1>1, <1>4, <1>5, <1>6

LEMMA LoopIsRow ==
  ASSUME NEW mode \in Paradoxes!Modes, NEW ents \in SUBSET Cores
  PROVE  /\ Paradoxes!Loop(mode, ents) \in LoopRow /\ Paradoxes!Loop(mode, ents).status # "none"
         /\ Paradoxes!Loop(mode, ents).mode = mode /\ Paradoxes!Loop(mode, ents).ents = ents
BY DEF Paradoxes!Loop, Paradoxes!Modes, LoopRow

LEMMA LoopOpened ==
  ASSUME ParadoxInv, NEW i, NEW mode \in Paradoxes!Modes, NEW ents \in SUBSET Cores, Paradoxes!OpenLoop(i, mode, ents)
  PROVE  ParadoxInv' /\ Called
<1> PICK row : row = Paradoxes!Loop(mode, ents)
  OBVIOUS
<1>1. /\ Paradoxes!Quiet /\ Paradoxes!appendOpenLoop(i, row)
      /\ IF mode = "paradox" THEN Paradoxes!Cardinality(ents) = 2 ELSE ents = {}
      /\ UNCHANGED <<pNow, proposals, task, pCall, log, pFaults>>
  BY DEF Paradoxes!OpenLoop, Paradoxes!mind
<1>2. row \in LoopRow /\ row.status # "none" /\ row.mode = mode /\ row.ents = ents
  BY LoopIsRow
<1>3. ParadoxTyped /\ \A j \in opened : loops[j] # Paradoxes!NoLoop
  BY DEF ParadoxInv
<1>4. /\ loops' \in LoopTable /\ opened' \in SUBSET Paradoxes!LoopIds /\ \A j \in opened' : loops'[j] # Paradoxes!NoLoop
      /\ \A k : Paradoxes!ForCore(k)' = IF row.mode = "paradox" /\ row.ents = {k} THEN Paradoxes!ForCore(k) \cup {i}
                                                                                ELSE Paradoxes!ForCore(k)
  BY <1>1, <1>2, <1>3, LoopAppended
<1>5. \A k : ~(row.mode = "paradox" /\ row.ents = {k})
  <2>1. SUFFICES ASSUME NEW k, row.mode = "paradox", row.ents = {k} PROVE FALSE
    OBVIOUS
  <2>2. Paradoxes!Cardinality({k}) = 2
    BY <1>1, <1>2, <2>1
  <2>3. Cardinality({k}) = 1
    BY FS_Singleton
  <2>4. Cardinality({k}) = 2
    BY <2>2, ParadoxCounts
  <2> QED BY <2>3, <2>4
<1>6. task' = Paradoxes!Off /\ \A c \in ParadoxCallers : pCall'[c] = Paradoxes!Idle
  BY <1>1, QuietIsIdle
<1>7. ParadoxTyped'
  BY <1>1, <1>3, <1>4 DEF ParadoxTyped, LoopTable, Paradoxes!LoopIds, TaskRow, ResolveRow
<1>8. OneCall' /\ (task # Paradoxes!Off => TaskKeeps)' /\ \A c \in ParadoxCallers : (pCall[c] # Paradoxes!Idle => CallKeeps(c))'
  BY <1>6 DEF OneCall, Paradoxes!Idle, Paradoxes!Off
<1>9. PerCoreSame
  BY <1>1, <1>4, <1>5 DEF PerCoreSame, Paradoxes!Holding, Paradoxes!Idle
<1>10. (pFaults = 0 => LoopPerCore)'
  BY <1>1, <1>9, PerCoreKept
<1>11. Called
  BY <1>1 DEF Called, Paradoxes!ProposesInNeed, Paradoxes!AcceleratesByParadox
<1>12. \A j \in opened' : (loops[j] # Paradoxes!NoLoop)'
  BY <1>4 DEF Paradoxes!NoLoop
<1> QED BY <1>7, <1>8, <1>10, <1>11, <1>12 DEF ParadoxInv

LEMMA LoopsAreRead ==
  ASSUME ParadoxInv, NEW c \in ParadoxCallers, NEW i \in Paradoxes!LoopIds, Paradoxes!ReadOpenLoops(c, i)
  PROVE  ParadoxInv' /\ Called
<1> PICK table : table = Paradoxes!Resolved(loops, i)
  OBVIOUS
<1> PICK x : x = [busy |-> TRUE, kind |-> "resolve", loops |-> table]
  OBVIOUS
<1>1. /\ Paradoxes!Quiet /\ loops[i] # Paradoxes!NoLoop /\ pCall' = [pCall EXCEPT ![c] = x]
      /\ UNCHANGED <<pNow, proposals, loops, task, opened, log, pFaults>>
  BY DEF Paradoxes!ReadOpenLoops, Paradoxes!mind
<1>2. task = Paradoxes!Off /\ \A d \in ParadoxCallers : pCall[d] = Paradoxes!Idle
  BY <1>1, QuietIsIdle
<1>3. ParadoxTyped
  BY DEF ParadoxInv
<1>4. PICK row : row = [loops[i] EXCEPT !.status = "resolved"]
  OBVIOUS
<1>5. loops[i] \in LoopRow
  BY <1>3 DEF ParadoxTyped, LoopTable
<1>6. row \in LoopRow /\ row.status = "resolved" /\ row.mode = loops[i].mode /\ row.ents = loops[i].ents
  BY <1>4, <1>5 DEF LoopRow
<1>7. table = [loops EXCEPT ![i] = row]
  BY <1>4 DEF Paradoxes!Resolved
<1>8. table \in LoopTable /\ table[i] = row /\ \A j \in Paradoxes!LoopIds \ {i} : table[j] = loops[j]
  BY <1>3, <1>6, <1>7 DEF ParadoxTyped, LoopTable
<1>9. row # Paradoxes!NoLoop
  BY <1>6 DEF Paradoxes!NoLoop
<1>10. SameLoops(table)
  BY <1>1, <1>6, <1>8, <1>9 DEF SameLoops
<1>11. x \in ResolveRow /\ x.kind = "resolve" /\ x.loops = table
  BY <1>8 DEF ResolveRow
<1>12. /\ pCall' \in [ParadoxCallers -> {Paradoxes!Idle} \cup ResolveRow \cup ReviewRow] /\ pCall'[c] = x
       /\ \A d \in ParadoxCallers \ {c} : pCall'[d] = Paradoxes!Idle
  BY <1>1, <1>2, <1>3, <1>11 DEF ParadoxTyped
<1>13. ParadoxTyped'
  BY <1>1, <1>3, <1>12 DEF ParadoxTyped, LoopTable, Paradoxes!LoopIds, TaskRow, ResolveRow, Paradoxes!Idle, Paradoxes!Off
<1>14. OneCall' /\ (task # Paradoxes!Off => TaskKeeps)'
  BY <1>1, <1>2, <1>12 DEF OneCall, Paradoxes!Idle, Paradoxes!Off
<1>15. \A d \in ParadoxCallers : (pCall[d] # Paradoxes!Idle => CallKeeps(d))'
  <2>0. pCall'[c].loops = table /\ pCall'[c].kind = "resolve" /\ loops' = loops
    BY <1>1, <1>11, <1>12
  <2>1. SameLoops(pCall[c].loops)'
    BY <1>10, <2>0 DEF SameLoops, Paradoxes!LoopIds, Paradoxes!NoLoop
  <2>2. CallKeeps(c)'
    BY <2>0, <2>1 DEF CallKeeps
  <2> QED BY <1>12, <2>2 DEF Paradoxes!Idle
<1>16. PerCoreSame
  <2>1. \A k : ~Paradoxes!Holding(k)
    BY <1>2, IdleHolds
  <2>2. \A k : ~Paradoxes!Holding(k)'
    BY <1>11, <1>12 DEF Paradoxes!Holding, Paradoxes!Idle
  <2>3. \A k : Paradoxes!ForCore(k)' = Paradoxes!ForCore(k)
    BY <1>1, LoopsUnmoved
  <2> QED BY <1>1, <2>1, <2>2, <2>3 DEF PerCoreSame
<1>17. (pFaults = 0 => LoopPerCore)'
  BY <1>1, <1>16, PerCoreKept
<1>18. Called /\ \A j \in opened' : (loops[j] # Paradoxes!NoLoop)'
  BY <1>1 DEF ParadoxInv, Called, Paradoxes!ProposesInNeed, Paradoxes!AcceleratesByParadox, Paradoxes!NoLoop
<1> QED BY <1>13, <1>14, <1>15, <1>17, <1>18 DEF ParadoxInv

\* A call that ends leaves all idle.
LEMMA CallEnds ==
  ASSUME ParadoxInv, NEW c \in ParadoxCallers, pCall[c] # Paradoxes!Idle, pCall' = [pCall EXCEPT ![c] = Paradoxes!Idle]
  PROVE  task = Paradoxes!Off /\ \A d \in ParadoxCallers : pCall'[d] = Paradoxes!Idle
BY DEF ParadoxInv, ParadoxTyped, OneCall

LEMMA LoopsAreWritten ==
  ASSUME ParadoxInv, NEW c \in ParadoxCallers, Paradoxes!writeOpenLoops(c)
  PROVE  ParadoxInv' /\ Called
<1>1. /\ pCall[c] # Paradoxes!Idle /\ pCall[c].kind = "resolve" /\ loops' = pCall[c].loops
      /\ pCall' = [pCall EXCEPT ![c] = Paradoxes!Idle]
      /\ UNCHANGED <<pNow, proposals, task, opened, log, pFaults>>
  BY DEF Paradoxes!writeOpenLoops, Paradoxes!mind
<1>2. task = Paradoxes!Off /\ \A d \in ParadoxCallers : pCall'[d] = Paradoxes!Idle
  BY <1>1, CallEnds
<1>3. SameLoops(loops')
  BY <1>1 DEF ParadoxInv, CallKeeps
<1>4. ParadoxTyped
  BY DEF ParadoxInv
<1>5. loops' \in LoopTable
  <2>1. pCall[c] \in ResolveRow
    BY <1>1, <1>4, RowShapes DEF ParadoxTyped
  <2> QED BY <1>1, <2>1, RowShapes
<1>6. ParadoxTyped'
  BY <1>1, <1>2, <1>4, <1>5 DEF ParadoxTyped, LoopTable, Paradoxes!LoopIds, TaskRow, ResolveRow, Paradoxes!Idle, Paradoxes!Off
<1>7. OneCall' /\ (task # Paradoxes!Off => TaskKeeps)' /\ \A d \in ParadoxCallers : (pCall[d] # Paradoxes!Idle => CallKeeps(d))'
  BY <1>1, <1>2 DEF OneCall, Paradoxes!Idle, Paradoxes!Off
<1>8. \A j \in opened' : (loops[j] # Paradoxes!NoLoop)'
  <2>1. \A j \in opened : j \in Paradoxes!LoopIds /\ loops[j] # Paradoxes!NoLoop
    BY DEF ParadoxInv, ParadoxTyped
  <2> QED BY <1>1, <1>3, <2>1 DEF SameLoops, Paradoxes!NoLoop
<1>9. PerCoreSame
  <2>1. \A k : ~Paradoxes!Holding(k)
    <3>1. \A d \in ParadoxCallers : pCall[d] # Paradoxes!Idle => pCall[d].kind = "resolve"
      BY <1>1 DEF ParadoxInv, OneCall
    <3> QED BY <3>1 DEF Paradoxes!Holding
  <2>2. \A k : ~Paradoxes!Holding(k)'
    BY <1>2 DEF Paradoxes!Holding, Paradoxes!Idle
  <2>3. \A k : Paradoxes!ForCore(k)' = Paradoxes!ForCore(k)
    BY <1>3, LoopsUnmoved DEF SameLoops
  <2> QED BY <1>1, <2>1, <2>2, <2>3 DEF PerCoreSame
<1>10. (pFaults = 0 => LoopPerCore)'
  BY <1>1, <1>9, PerCoreKept
<1>11. Called
  BY <1>1 DEF Called, Paradoxes!ProposesInNeed, Paradoxes!AcceleratesByParadox
<1> QED BY <1>6, <1>7, <1>8, <1>10, <1>11 DEF ParadoxInv

LEMMA TaskStarts ==
  ASSUME ParadoxInv, Paradoxes!StartTask
  PROVE  ParadoxInv' /\ Called
<1>0. PICK kept \in {loops, [i \in Paradoxes!LoopIds |-> Paradoxes!NoLoop]} :
        /\ Paradoxes!Quiet
        /\ \/ kept = loops /\ UNCHANGED pFaults
           \/ kept # loops /\ pFaults' = pFaults + 1
        /\ task' = [on |-> TRUE, loops |-> kept,
                    todo |-> {k \in Cores : Paradoxes!Cardinality(Paradoxes!recentChallenges(k)) >= Challenged},
                    created |-> 0, inserted |-> 0]
        /\ UNCHANGED <<pNow, challenges, proposals, loops, pCall, opened, log>>
  BY DEF Paradoxes!StartTask, Paradoxes!Fault, Paradoxes!mind
<1> PICK often : often = {k \in Cores : Paradoxes!Cardinality(Paradoxes!recentChallenges(k)) >= Challenged}
  OBVIOUS
<1>1. task' = [on |-> TRUE, loops |-> kept, todo |-> often, created |-> 0, inserted |-> 0]
  BY <1>0
<1>2. task'.loops = kept /\ task'.todo = often
  BY <1>1
<1>3. ParadoxTyped
  BY DEF ParadoxInv
<1>4. kept \in LoopTable
  <2>1. Paradoxes!NoLoop \in LoopRow
    BY DEF Paradoxes!NoLoop, LoopRow
  <2>2. [i \in Paradoxes!LoopIds |-> Paradoxes!NoLoop] \in LoopTable
    BY <2>1 DEF LoopTable
  <2> QED BY <1>0, <1>3, <2>2 DEF ParadoxTyped
<1>5. task' \in TaskRow
  <2>1. often \in SUBSET Cores
    OBVIOUS
  <2> QED BY <1>1, <1>4, <2>1 DEF TaskRow
<1>6. pFaults' \in Nat /\ (pFaults' = 0 => pFaults = 0 /\ kept = loops)
  BY <1>0, <1>3 DEF ParadoxTyped
<1>7. \A c \in ParadoxCallers : pCall'[c] = Paradoxes!Idle
  BY <1>0, QuietIsIdle
<1>8. ParadoxTyped'
  BY <1>0, <1>3, <1>5, <1>6 DEF ParadoxTyped, LoopTable, Paradoxes!LoopIds, TaskRow, ResolveRow, Paradoxes!Idle, Paradoxes!Off
<1>9. OneCall' /\ \A c \in ParadoxCallers : (pCall[c] # Paradoxes!Idle => CallKeeps(c))'
  BY <1>7 DEF OneCall, Paradoxes!Idle, Paradoxes!Off
<1>10. TaskKeeps'
  <2>1. \A k : Paradoxes!recentChallenges(k)' = Paradoxes!recentChallenges(k)
    BY <1>0 DEF Paradoxes!recentChallenges
  <2>2. \A k \in task'.todo : (Paradoxes!Cardinality(Paradoxes!recentChallenges(k)) >= Challenged)'
    <3>1. SUFFICES ASSUME NEW k \in often PROVE Paradoxes!Cardinality(Paradoxes!recentChallenges(k)') >= Challenged
      BY <1>2 DEF Paradoxes!Cardinality
    <3>2. Paradoxes!Cardinality(Paradoxes!recentChallenges(k)) >= Challenged
      OBVIOUS
    <3> QED BY <2>1, <3>2
  <2> QED BY <1>0, <1>2, <1>6, <2>2 DEF TaskKeeps
<1>11. PerCoreSame
  BY <1>0, LoopsUnmoved DEF PerCoreSame, Paradoxes!Holding, Paradoxes!Idle
<1>12. (pFaults = 0 => LoopPerCore)'
  BY <1>6, <1>11, PerCoreKept
<1>13. Called /\ \A j \in opened' : (loops[j] # Paradoxes!NoLoop)'
  BY <1>0 DEF ParadoxInv, Called, Paradoxes!ProposesInNeed, Paradoxes!AcceleratesByParadox, Paradoxes!NoLoop
<1> QED BY <1>8, <1>9, <1>10, <1>12, <1>13 DEF ParadoxInv

LEMMA TaskProposes ==
  ASSUME ParadoxInv, NEW k \in Cores, Paradoxes!ProposeFor(k)
  PROVE  ParadoxInv' /\ Called
<1> DEFINE proposes == ~Paradoxes!alreadyHasParadox(task.loops, k) /\ ~Paradoxes!proposalExists(k)
           inserts == proposes /\ proposals[k] = "none"
<1>1. /\ task # Paradoxes!Off /\ k \in task.todo
      /\ proposals' = IF inserts THEN [proposals EXCEPT ![k] = "pending"] ELSE proposals
      /\ task' = [task EXCEPT !.todo = @ \ {k}, !.created = @ + (IF proposes THEN 1 ELSE 0),
                              !.inserted = @ + (IF inserts THEN 1 ELSE 0)]
      /\ UNCHANGED <<pNow, challenges, loops, pCall, opened, log, pFaults>>
  BY DEF Paradoxes!ProposeFor, Paradoxes!mind
<1>2. ParadoxTyped /\ TaskKeeps /\ OneCall
  BY <1>1 DEF ParadoxInv
<1>3. task \in TaskRow
  BY <1>1, <1>2 DEF ParadoxTyped
<1>4. task.todo \in SUBSET Cores /\ task.created \in Nat /\ task.inserted \in Nat
  BY <1>3 DEF TaskRow
<1>5. PICK left \in SUBSET Cores, n1 \in Nat, n2 \in Nat :
        left = task.todo \ {k} /\ n1 = task.created + (IF proposes THEN 1 ELSE 0) /\ n2 = task.inserted + (IF inserts THEN 1 ELSE 0)
  <2>1. task.todo \ {k} \in SUBSET Cores
    BY <1>4
  <2>2. task.created + (IF proposes THEN 1 ELSE 0) \in Nat /\ task.inserted + (IF inserts THEN 1 ELSE 0) \in Nat
    <3> HIDE DEF proposes, inserts
    <3> QED BY <1>4
  <2> QED BY <2>1, <2>2
<1>6. task' = [task EXCEPT !.todo = left, !.created = n1, !.inserted = n2]
  BY <1>1, <1>5
<1>7. task' \in TaskRow /\ task'.loops = task.loops /\ task'.todo = left
  BY <1>3, <1>6 DEF TaskRow
<1>8. proposals' \in [Cores -> {"none", "pending", "accepted", "rejected"}]
  BY <1>1, <1>2 DEF ParadoxTyped
<1>9. ParadoxTyped'
  BY <1>1, <1>2, <1>7, <1>8 DEF ParadoxTyped, LoopTable, Paradoxes!LoopIds, TaskRow, ResolveRow, Paradoxes!Idle, Paradoxes!Off
<1>10. \A c \in ParadoxCallers : pCall'[c] = Paradoxes!Idle
  BY <1>1, <1>2 DEF OneCall
<1>11. OneCall' /\ \A c \in ParadoxCallers : (pCall[c] # Paradoxes!Idle => CallKeeps(c))'
  BY <1>10 DEF OneCall, Paradoxes!Idle, Paradoxes!Off
<1>12. TaskKeeps'
  <2>1. \A j : Paradoxes!recentChallenges(j)' = Paradoxes!recentChallenges(j)
    BY <1>1 DEF Paradoxes!recentChallenges
  <2>2. \A j \in task'.todo : (Paradoxes!Cardinality(Paradoxes!recentChallenges(j)) >= Challenged)'
    <3>1. SUFFICES ASSUME NEW j \in task.todo PROVE Paradoxes!Cardinality(Paradoxes!recentChallenges(j)') >= Challenged
      BY <1>5, <1>7 DEF Paradoxes!Cardinality
    <3>2. Paradoxes!Cardinality(Paradoxes!recentChallenges(j)) >= Challenged
      BY <1>2 DEF TaskKeeps
    <3> QED BY <2>1, <3>2
  <2> QED BY <1>1, <1>2, <1>7, <2>2 DEF TaskKeeps
<1>13. PerCoreSame
  <2>1. \A j : Paradoxes!ForCore(j)' = Paradoxes!ForCore(j)
    BY <1>1, LoopsUnmoved
  <2>2. \A j : Paradoxes!Holding(j)' <=> Paradoxes!Holding(j)
    BY <1>1 DEF Paradoxes!Holding, Paradoxes!Idle
  <2>3. \A j \in Cores : proposals'[j] = "accepted" <=> proposals[j] = "accepted"
    BY <1>1, <1>2 DEF ParadoxTyped
  <2> QED BY <2>1, <2>2, <2>3 DEF PerCoreSame
<1>14. (pFaults = 0 => LoopPerCore)'
  BY <1>1, <1>13, PerCoreKept
<1>15. Paradoxes!ProposesInNeed
  <2>1. SUFFICES ASSUME NEW j \in Cores, pFaults = 0, proposals[j] = "none", proposals'[j] = "pending"
                 PROVE  /\ ~\E i \in Paradoxes!LoopIds : loops[i].mode = "paradox" /\ j \in loops[i].ents
                        /\ Paradoxes!Cardinality(Paradoxes!recentChallenges(j)) >= Challenged
    BY DEF Paradoxes!ProposesInNeed
  <2>2. inserts /\ j = k
    BY <1>1, <1>2, <2>1 DEF ParadoxTyped
  <2>3. task.loops = loops /\ Paradoxes!Cardinality(Paradoxes!recentChallenges(k)) >= Challenged
    BY <1>1, <1>2, <2>1 DEF TaskKeeps
  <2> QED BY <2>2, <2>3 DEF Paradoxes!alreadyHasParadox
<1>16. Paradoxes!AcceleratesByParadox /\ \A j \in opened' : (loops[j] # Paradoxes!NoLoop)'
  BY <1>1 DEF ParadoxInv, Paradoxes!AcceleratesByParadox, Paradoxes!NoLoop
<1> QED BY <1>9, <1>11, <1>12, <1>14, <1>15, <1>16 DEF ParadoxInv, Called

LEMMA TaskEnds ==
  ASSUME ParadoxInv, Paradoxes!EndTask
  PROVE  ParadoxInv' /\ Called
<1>1. task # Paradoxes!Off /\ task' = Paradoxes!Off /\ UNCHANGED <<pNow, proposals, loops, pCall, opened, log, pFaults>>
  BY DEF Paradoxes!EndTask, Paradoxes!mind
<1>2. \A c \in ParadoxCallers : pCall'[c] = Paradoxes!Idle
  BY <1>1 DEF ParadoxInv, OneCall
<1>3. ParadoxTyped'
  BY <1>1 DEF ParadoxInv, ParadoxTyped, LoopTable, Paradoxes!LoopIds, TaskRow, ResolveRow, Paradoxes!Idle, Paradoxes!Off
<1>4. OneCall' /\ (task # Paradoxes!Off => TaskKeeps)' /\ \A c \in ParadoxCallers : (pCall[c] # Paradoxes!Idle => CallKeeps(c))'
  BY <1>1, <1>2 DEF OneCall, Paradoxes!Idle, Paradoxes!Off
<1>5. PerCoreSame
  BY <1>1, LoopsUnmoved DEF PerCoreSame, Paradoxes!Holding, Paradoxes!Idle
<1>6. (pFaults = 0 => LoopPerCore)'
  BY <1>1, <1>5, PerCoreKept
<1>7. Called /\ \A j \in opened' : (loops[j] # Paradoxes!NoLoop)'
  BY <1>1 DEF ParadoxInv, Called, Paradoxes!ProposesInNeed, Paradoxes!AcceleratesByParadox, Paradoxes!NoLoop
<1> QED BY <1>3, <1>4, <1>6, <1>7 DEF ParadoxInv

LEMMA ProposalIsRead ==
  ASSUME ParadoxInv, NEW c \in ParadoxCallers, NEW k \in Cores, NEW decision \in {"accepted", "rejected"},
         Paradoxes!GetProposal(c, k, decision)
  PROVE  ParadoxInv' /\ Called
<1> PICK x : x = [busy |-> TRUE, kind |-> "review", core |-> k, decision |-> decision]
  OBVIOUS
<1>1. /\ Paradoxes!Quiet /\ proposals[k] = "pending" /\ pCall' = [pCall EXCEPT ![c] = x]
      /\ UNCHANGED <<pNow, proposals, loops, task, opened, log, pFaults>>
  BY DEF Paradoxes!GetProposal, Paradoxes!mind
<1>2. task = Paradoxes!Off /\ \A d \in ParadoxCallers : pCall[d] = Paradoxes!Idle
  BY <1>1, QuietIsIdle
<1>3. x \in ReviewRow /\ x.kind = "review" /\ x.core = k
  BY DEF ReviewRow
<1>4. /\ pCall' \in [ParadoxCallers -> {Paradoxes!Idle} \cup ResolveRow \cup ReviewRow] /\ pCall'[c] = x
      /\ \A d \in ParadoxCallers \ {c} : pCall'[d] = Paradoxes!Idle
  BY <1>1, <1>2, <1>3 DEF ParadoxInv, ParadoxTyped
<1>5. ParadoxTyped'
  BY <1>1, <1>4 DEF ParadoxInv, ParadoxTyped, LoopTable, Paradoxes!LoopIds, TaskRow, ResolveRow, Paradoxes!Idle, Paradoxes!Off
<1>6. OneCall' /\ (task # Paradoxes!Off => TaskKeeps)'
  BY <1>1, <1>2, <1>4 DEF OneCall, Paradoxes!Idle, Paradoxes!Off
<1>7. \A d \in ParadoxCallers : (pCall[d] # Paradoxes!Idle => CallKeeps(d))'
  BY <1>1, <1>3, <1>4 DEF CallKeeps, Paradoxes!Idle
<1>8. PerCoreSame
  <2>1. \A j : ~Paradoxes!Holding(j)
    BY <1>2, IdleHolds
  <2>2. \A j : Paradoxes!Holding(j)' => j = k
    BY <1>3, <1>4 DEF Paradoxes!Holding, Paradoxes!Idle
  <2>3. \A j : Paradoxes!ForCore(j)' = Paradoxes!ForCore(j)
    BY <1>1, LoopsUnmoved
  <2> QED BY <1>1, <2>1, <2>2, <2>3 DEF PerCoreSame
<1>9. (pFaults = 0 => LoopPerCore)'
  BY <1>1, <1>8, PerCoreKept
<1>10. Called /\ \A j \in opened' : (loops[j] # Paradoxes!NoLoop)'
  BY <1>1 DEF ParadoxInv, Called, Paradoxes!ProposesInNeed, Paradoxes!AcceleratesByParadox, Paradoxes!NoLoop
<1> QED BY <1>5, <1>6, <1>7, <1>9, <1>10 DEF ParadoxInv

LEMMA ProposalIsReviewed ==
  ASSUME ParadoxInv, NEW c \in ParadoxCallers, Paradoxes!reviewProposal(c)
  PROVE  ParadoxInv' /\ Called
<1> PICK x : x = pCall[c]
  OBVIOUS
<1> PICK y : y = IF x.decision = "accepted" THEN [x EXCEPT !.kind = "effect"] ELSE Paradoxes!Idle
  OBVIOUS
<1>1. /\ x # Paradoxes!Idle /\ x.kind = "review" /\ proposals' = [proposals EXCEPT ![x.core] = x.decision]
      /\ pCall' = [pCall EXCEPT ![c] = y]
      /\ UNCHANGED <<pNow, loops, task, opened, log, pFaults>>
  BY DEF Paradoxes!reviewProposal, Paradoxes!mind
<1>2. ParadoxTyped /\ OneCall /\ CallKeeps(c)
  BY <1>1 DEF ParadoxInv
<1>3. x \in ReviewRow /\ x.core \in Cores /\ x.decision \in {"accepted", "rejected"} /\ proposals[x.core] = "pending"
  <2>1. x \in ReviewRow
    BY <1>1, <1>2, RowShapes DEF ParadoxTyped
  <2>2. proposals[x.core] = "pending"
    BY <1>1, <1>2 DEF CallKeeps
  <2> QED BY <2>1, <2>2, RowShapes
<1>4. /\ x.decision = "accepted" => y \in ReviewRow /\ y # Paradoxes!Idle /\ y.kind = "effect" /\ y.core = x.core
      /\ x.decision # "accepted" => y = Paradoxes!Idle
  <2>1. x.decision = "accepted" => y \in ReviewRow /\ y.kind = "effect" /\ y.core = x.core
    BY <1>3 DEF ReviewRow
  <2> QED BY <2>1, RowShapes
<1>5. task = Paradoxes!Off /\ \A d \in ParadoxCallers \ {c} : pCall[d] = Paradoxes!Idle
  BY <1>1, <1>2 DEF OneCall, ParadoxTyped
<1>6. /\ pCall' \in [ParadoxCallers -> {Paradoxes!Idle} \cup ResolveRow \cup ReviewRow] /\ pCall'[c] = y
      /\ \A d \in ParadoxCallers \ {c} : pCall'[d] = Paradoxes!Idle
  BY <1>1, <1>2, <1>4, <1>5 DEF ParadoxTyped
<1>7. /\ proposals' \in [Cores -> {"none", "pending", "accepted", "rejected"}] /\ proposals'[x.core] = x.decision
      /\ \A j \in Cores \ {x.core} : proposals'[j] = proposals[j]
  BY <1>1, <1>2, <1>3 DEF ParadoxTyped
<1>8. ParadoxTyped'
  BY <1>1, <1>2, <1>6, <1>7 DEF ParadoxTyped, LoopTable, Paradoxes!LoopIds, TaskRow, ResolveRow, Paradoxes!Idle, Paradoxes!Off
<1>9. OneCall' /\ (task # Paradoxes!Off => TaskKeeps)'
  BY <1>1, <1>5, <1>6 DEF OneCall, Paradoxes!Idle, Paradoxes!Off
<1>10. \A d \in ParadoxCallers : (pCall[d] # Paradoxes!Idle => CallKeeps(d))'
  <2>1. SUFFICES ASSUME NEW d \in ParadoxCallers, pCall'[d] # Paradoxes!Idle PROVE CallKeeps(d)'
    BY DEF Paradoxes!Idle
  <2>2. d = c /\ pCall'[d] = y /\ x.decision = "accepted"
    BY <1>4, <1>6, <2>1
  <2>3. pCall'[d].kind = "effect" /\ pCall'[d].core = x.core /\ proposals'[x.core] = "accepted"
    BY <1>4, <1>7, <2>2
  <2> QED BY <2>3 DEF CallKeeps
<1>11. PerCoreSame
  <2>1. \A j : Paradoxes!Holding(j) <=> j = x.core
    BY <1>1, <1>5 DEF Paradoxes!Holding
  <2>2. \A j : Paradoxes!Holding(j)' <=> x.decision = "accepted" /\ j = x.core
    <3>1. CASE x.decision = "accepted"
      <4>1. pCall'[c] # Paradoxes!Idle /\ pCall'[c].kind = "effect" /\ pCall'[c].core = x.core
        BY <1>4, <1>6, <3>1
      <4> QED BY <1>6, <3>1, <4>1 DEF Paradoxes!Holding, Paradoxes!Idle
    <3>2. CASE x.decision # "accepted"
      <4>1. \A d \in ParadoxCallers : pCall'[d] = Paradoxes!Idle
        BY <1>4, <1>6, <3>2
      <4> QED BY <3>2, <4>1 DEF Paradoxes!Holding, Paradoxes!Idle
    <3> QED BY <3>1, <3>2
  <2>3. \A j : Paradoxes!ForCore(j)' = Paradoxes!ForCore(j)
    BY <1>1, LoopsUnmoved
  <2> QED BY <1>3, <1>7, <2>1, <2>2, <2>3 DEF PerCoreSame
<1>12. (pFaults = 0 => LoopPerCore)'
  BY <1>1, <1>11, PerCoreKept
<1>13. Called /\ \A j \in opened' : (loops[j] # Paradoxes!NoLoop)'
  <2>1. \A j \in Cores : ~(proposals[j] = "none" /\ proposals'[j] = "pending")
    BY <1>3, <1>7
  <2> QED BY <1>1, <2>1 DEF ParadoxInv, Called, Paradoxes!ProposesInNeed, Paradoxes!AcceleratesByParadox, Paradoxes!NoLoop
<1> QED BY <1>8, <1>9, <1>10, <1>12, <1>13 DEF ParadoxInv

LEMMA ParadoxIsAccepted ==
  ASSUME ParadoxInv, NEW c \in ParadoxCallers, NEW i, Paradoxes!AcceptParadox(c, i)
  PROVE  ParadoxInv' /\ Called
<1> PICK k : k = pCall[c].core
  OBVIOUS
<1> PICK row : row = Paradoxes!createParadoxLoop(k)
  OBVIOUS
<1>1. /\ pCall[c] # Paradoxes!Idle /\ pCall[c].kind = "effect" /\ pCall' = [pCall EXCEPT ![c] = Paradoxes!Idle]
      /\ \/ Paradoxes!appendOpenLoop(i, row) /\ UNCHANGED pFaults
         \/ pFaults' = pFaults + 1 /\ UNCHANGED <<loops, opened>>
      /\ UNCHANGED <<pNow, proposals, task, log>>
  BY DEF Paradoxes!AcceptParadox, Paradoxes!Fault, Paradoxes!mind
<1>2. task = Paradoxes!Off /\ \A d \in ParadoxCallers : pCall'[d] = Paradoxes!Idle
  BY <1>1, CallEnds
<1>3. ParadoxTyped /\ OneCall /\ CallKeeps(c) /\ \A j \in opened : loops[j] # Paradoxes!NoLoop
  BY <1>1 DEF ParadoxInv
<1>4. k \in Cores /\ proposals[k] = "accepted"
  <2>1. pCall[c] \in ReviewRow
    BY <1>1, <1>3, RowShapes DEF ParadoxTyped
  <2> QED BY <1>1, <1>3, <2>1, RowShapes DEF CallKeeps
<1>5. row \in LoopRow /\ row.status # "none" /\ row.mode = "paradox" /\ row.ents = {k}
  <2>1. "paradox" \in Paradoxes!Modes /\ {k} \in SUBSET Cores
    BY <1>4 DEF Paradoxes!Modes
  <2> QED BY <2>1, LoopIsRow DEF Paradoxes!createParadoxLoop
<1>6. pFaults' \in Nat /\ (pFaults' = 0 => pFaults = 0 /\ Paradoxes!appendOpenLoop(i, row))
  BY <1>1, <1>3 DEF ParadoxTyped
<1>7. Paradoxes!appendOpenLoop(i, row) =>
        /\ i \in Paradoxes!LoopIds /\ loops' \in LoopTable /\ opened' \in SUBSET Paradoxes!LoopIds
        /\ \A j \in opened' : loops'[j] # Paradoxes!NoLoop
        /\ \A j : Paradoxes!ForCore(j)' = IF row.mode = "paradox" /\ row.ents = {j} THEN Paradoxes!ForCore(j) \cup {i}
                                                                                  ELSE Paradoxes!ForCore(j)
  BY <1>3, <1>5, LoopAppended
<1>8. loops' \in LoopTable /\ opened' \in SUBSET Paradoxes!LoopIds /\ \A j \in opened' : loops'[j] # Paradoxes!NoLoop
  BY <1>1, <1>3, <1>7 DEF ParadoxTyped
<1>9. ParadoxTyped'
  BY <1>1, <1>2, <1>3, <1>6, <1>8 DEF ParadoxTyped, LoopTable, Paradoxes!LoopIds, TaskRow, ResolveRow, Paradoxes!Idle, Paradoxes!Off
<1>10. OneCall' /\ (task # Paradoxes!Off => TaskKeeps)' /\ \A d \in ParadoxCallers : (pCall[d] # Paradoxes!Idle => CallKeeps(d))'
  BY <1>1, <1>2 DEF OneCall, Paradoxes!Idle, Paradoxes!Off
<1>11. (pFaults = 0 => LoopPerCore)'
  <2>1. SUFFICES ASSUME pFaults' = 0
                 PROVE  \A j \in Cores :
                          IF proposals'[j] = "accepted" /\ ~Paradoxes!Holding(j)'
                          THEN \E l \in Paradoxes!LoopIds : Paradoxes!ForCore(j)' = {l} ELSE Paradoxes!ForCore(j)' = {}
    BY DEF LoopPerCore, Paradoxes!LoopIds
  <2>2. LoopPerCore /\ proposals' = proposals
    BY <1>1, <1>6, <2>1 DEF ParadoxInv
  <2>3. \A j : Paradoxes!Holding(j) <=> j = k
    <3>1. \A d \in ParadoxCallers : pCall[d] # Paradoxes!Idle => d = c
      BY <1>1, <1>3 DEF OneCall
    <3> QED BY <1>1, <3>1 DEF Paradoxes!Holding
  <2>4. \A j : ~Paradoxes!Holding(j)'
    BY <1>2 DEF Paradoxes!Holding, Paradoxes!Idle
  <2>5. i \in Paradoxes!LoopIds /\ Paradoxes!ForCore(k)' = Paradoxes!ForCore(k) \cup {i}
        /\ \A j : j # k => Paradoxes!ForCore(j)' = Paradoxes!ForCore(j)
    BY <1>5, <1>6, <1>7, <2>1
  <2>6. Paradoxes!ForCore(k) = {}
    BY <1>4, <2>2, <2>3 DEF LoopPerCore
  <2>7. Paradoxes!ForCore(k)' = {i}
    BY <2>5, <2>6
  <2>8. \A j \in Cores : j # k => IF proposals[j] = "accepted" THEN \E l \in Paradoxes!LoopIds : Paradoxes!ForCore(j) = {l}
                                                               ELSE Paradoxes!ForCore(j) = {}
    BY <2>2, <2>3 DEF LoopPerCore
  <2> QED BY <1>4, <2>2, <2>4, <2>5, <2>7, <2>8
<1>12. Called /\ \A j \in opened' : (loops[j] # Paradoxes!NoLoop)'
  BY <1>1, <1>8 DEF Called, Paradoxes!ProposesInNeed, Paradoxes!AcceleratesByParadox, Paradoxes!NoLoop
<1> QED BY <1>9, <1>10, <1>11, <1>12 DEF ParadoxInv

LEMMA ParadoxStep == ParadoxInv /\ [Paradoxes!Next]_Burning => ParadoxInv' /\ Called
<1>1. ASSUME ParadoxInv, UNCHANGED Burning PROVE ParadoxInv' /\ Called
  <2>1. UNCHANGED <<pNow, challenges, proposals, loops, task, pCall, opened, log, pFaults>>
    BY <1>1 DEF Burning
  <2>2. ParadoxTyped' /\ OneCall' /\ \A i \in opened' : (loops[i] # Paradoxes!NoLoop)'
    BY <1>1, <2>1 DEF ParadoxInv, ParadoxTyped, OneCall, LoopTable, Paradoxes!LoopIds, TaskRow, ResolveRow, Paradoxes!Idle,
         Paradoxes!Off, Paradoxes!NoLoop
  <2>3. (task # Paradoxes!Off => TaskKeeps)'
    <3>1. SUFFICES ASSUME task # Paradoxes!Off PROVE TaskKeeps'
      BY <2>1 DEF Paradoxes!Off
    <3>2. TaskKeeps
      BY <1>1, <3>1 DEF ParadoxInv
    <3>3. \A k : Paradoxes!recentChallenges(k)' = Paradoxes!recentChallenges(k)
      BY <2>1 DEF Paradoxes!recentChallenges
    <3>4. \A k \in task'.todo : (Paradoxes!Cardinality(Paradoxes!recentChallenges(k)) >= Challenged)'
      <4>1. SUFFICES ASSUME NEW k \in task.todo PROVE Paradoxes!Cardinality(Paradoxes!recentChallenges(k)') >= Challenged
        BY <2>1 DEF Paradoxes!Cardinality
      <4>2. Paradoxes!Cardinality(Paradoxes!recentChallenges(k)) >= Challenged
        BY <3>2 DEF TaskKeeps
      <4> QED BY <3>3, <4>2
    <3> QED BY <2>1, <3>2, <3>4 DEF TaskKeeps
  <2>4. \A c \in ParadoxCallers : (pCall[c] # Paradoxes!Idle => CallKeeps(c))'
    BY <1>1, <2>1 DEF ParadoxInv, CallKeeps, SameLoops, Paradoxes!LoopIds, Paradoxes!NoLoop, Paradoxes!Idle
  <2>5. PerCoreSame
    BY <2>1, LoopsUnmoved DEF PerCoreSame, Paradoxes!Holding, Paradoxes!Idle
  <2>6. (pFaults = 0 => LoopPerCore)'
    BY <1>1, <2>1, <2>5, PerCoreKept
  <2>7. Called
    BY <2>1 DEF Called, Paradoxes!ProposesInNeed, Paradoxes!AcceleratesByParadox
  <2> QED BY <2>2, <2>3, <2>4, <2>6, <2>7 DEF ParadoxInv
<1>2. ASSUME ParadoxInv, Paradoxes!Next PROVE ParadoxInv' /\ Called
  <2>1. \/ Paradoxes!Tick \/ Paradoxes!Engage \/ Paradoxes!RunDecay \/ (\E k \in Cores : Paradoxes!Challenge(k))
        \/ Paradoxes!StartTask \/ Paradoxes!EndTask \/ (\E k \in Cores : Paradoxes!ProposeFor(k))
        \/ (\E i \in Paradoxes!LoopIds, mode \in Paradoxes!Modes, ents \in SUBSET Cores : Paradoxes!OpenLoop(i, mode, ents))
        \/ (\E c \in ParadoxCallers : \E i \in Paradoxes!LoopIds : Paradoxes!ReadOpenLoops(c, i) \/ Paradoxes!AcceptParadox(c, i))
        \/ (\E c \in ParadoxCallers : \E k \in Cores, d \in {"accepted", "rejected"} : Paradoxes!GetProposal(c, k, d))
        \/ (\E c \in ParadoxCallers : Paradoxes!writeOpenLoops(c) \/ Paradoxes!reviewProposal(c))
    BY <1>2, Zenon DEF Paradoxes!Next
  <2> QED BY <1>2, <2>1, MindSteps, TaskStarts, TaskEnds, TaskProposes, LoopOpened, LoopsAreRead, ParadoxIsAccepted, ProposalIsRead,
             LoopsAreWritten, ProposalIsReviewed
<1> QED BY <1>1, <1>2

\* What the paradoxes keep, of their invariant.
LEMMA ParadoxKept == ParadoxInv => Paradoxes!LoopsKept /\ Paradoxes!AcceptedHasLoop
<1> SUFFICES ASSUME ParadoxInv PROVE Paradoxes!LoopsKept /\ Paradoxes!AcceptedHasLoop
  OBVIOUS
<1>1. Paradoxes!LoopsKept
  BY DEF ParadoxInv, Paradoxes!LoopsKept
<1>2. ASSUME pFaults = 0, NEW k \in Cores, proposals[k] = "accepted", ~Paradoxes!Holding(k)
      PROVE  Paradoxes!Cardinality(Paradoxes!ForCore(k)) = 1
  <2>1. PICK i \in Paradoxes!LoopIds : Paradoxes!ForCore(k) = {i}
    BY <1>2 DEF ParadoxInv, LoopPerCore
  <2> QED BY <2>1, FS_Singleton, ParadoxCounts
<1> QED BY <1>1, <1>2 DEF Paradoxes!AcceptedHasLoop

-----------------------------------------------------------------------------
(* All the tasks. *)

LedgersInv == ParadoxInv /\ RegradeInv /\ SkillsInv /\ GovernorInv

LEMMA LedgersInit == AllInit => LedgersInv
BY ParadoxInit, RegradeInit, SkillsInit, GovernorInit DEF AllInit, LedgersInv

LEMMA LedgersStep ==
  ASSUME \A r, s \in Reviewers : r = s
  PROVE  LedgersInv /\ [AllNext]_all => LedgersInv'
BY EachSteps, ParadoxStep, RegradeStep, SkillsStep, GovernorStep DEF LedgersInv

LEMMA CausesStep ==
  ASSUME \A r, s \in Reviewers : r = s, MaxSkills <= ScanCap
  PROVE  LedgersInv /\ [AllNext]_all => [ForCause]_all
<1> SUFFICES ASSUME LedgersInv, [AllNext]_all PROVE ForCause
  OBVIOUS
<1>1. Called
  BY EachSteps, ParadoxStep DEF LedgersInv
<1>2. Justified
  BY EachSteps, RegradeStep DEF LedgersInv
<1>3. Captured!FollowsLifecycle /\ Captured!ProposesLineage
  BY EachSteps, SkillsStep, SkillsLineage DEF LedgersInv
<1>4. Governed!LowersOnAcceptance /\ Governed!StaysInBacklog /\ Governed!HasSample
  BY EachSteps, GovernorStep DEF LedgersInv
<1> QED BY <1>1, <1>2, <1>3, <1>4 DEF Called, Justified, ForCause

\* For any number of cores, challenges, loops, calls, observations, runs, skills and failing
\* queries: a loop that was opened is not lost and, while no query fails, an accepted paradox
\* has the one loop its acceptance opened; what awaits a demotion stays under the ceiling, a
\* run reports what it inserted and in shadow inserts nothing; the versions of a skill's key
\* differ.  The reviews of skills come one at a time, as the other calls do here.
THEOREM LedgersAreTrue ==
  ASSUME \A r, s \in Reviewers : r = s
  PROVE  AllSpec => []LedgersTrue
<1>1. LedgersInv => LedgersTrue
  BY ParadoxKept, RegradeKept DEF LedgersInv, LedgersTrue, SkillsInv
<1> QED BY <1>1, LedgersInit, LedgersStep, PTL DEF AllSpec

\* For the same instances, while the health scan reads every skill there is: nothing is
\* proposed that its table does not call for, and every phase, salience, status and
\* threshold moves for the reason the code gives it.
THEOREM MovesForCause ==
  ASSUME \A r, s \in Reviewers : r = s, MaxSkills <= ScanCap
  PROVE  AllSpec => MovedForCause
BY LedgersInit, LedgersStep, CausesStep, PTL DEF AllSpec, MovedForCause

=============================================================================
