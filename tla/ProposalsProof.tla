--------------------------- MODULE ProposalsProof ---------------------------
(***************************************************************************)
(* Proofs about Proposals, for every set of observations, proposals,       *)
(* scores and calls, and every number of faults.                           *)
(***************************************************************************)
EXTENDS Proposals, TLAPS

LEMMA EffectsType == \A k \in Keys : Effects(k) \subseteq Effect
  BY DEF Effects, Effect

LEMMA KeyFields ==
  \A k \in Keys : k.type \in Types /\ k.source \in Obs /\ k.target \in Obs /\ k # NoKey
  BY KeysAssumption

LEMMA EnterType ==
  ASSUME TypeOK, NEW s \in Stage, Enter(s)
  PROVE  stage' \in Stage /\ queue' \subseteq Keys
  BY DEF TypeOK, Enter, AiCandidates, AbsorbQueue, Pending

LEMMA AfterType == stage \in Stage \ {"idle"} => After[stage] \in Stage
  BY DEF After, Stage

LEMMA ApplyEffectType ==
  ASSUME TypeOK, NEW e, NEW k \in Keys, ApplyEffect(e, k)
  PROVE  /\ links' \subseteq Obs \X Obs /\ metab' \subseteq Obs
         /\ ostat' \in [Obs -> {"none", "orphaned", "rescued", "archived"}]
<1>1. k.source \in Obs /\ k.target \in Obs
  BY KeyFields
<1>2. links' \subseteq Obs \X Obs
  BY <1>1 DEF TypeOK, ApplyEffect
<1>3. metab' \subseteq Obs
  BY DEF TypeOK, ApplyEffect
<1>4. ostat' \in [Obs -> {"none", "orphaned", "rescued", "archived"}]
  BY <1>1 DEF TypeOK, ApplyEffect
<1> QED BY <1>2, <1>3, <1>4

LEMMA ReviewType ==
  ASSUME TypeOK, NEW k \in Keys, NEW status \in {"accepted", "rejected"},
         NEW who \in {"human", "absorb", "ai"}, ReviewProposal(k, status, who)
  PROVE  /\ row' \in [Keys -> {"none", "pending", "accepted", "rejected"}]
         /\ reviewer' \in [Keys -> {"none", "human", "absorb", "ai"}]
         /\ older' \in [Keys -> SUBSET Keys]
  BY DEF TypeOK, ReviewProposal, Settled

LEMMA CreateType ==
  ASSUME TypeOK, NEW k \in Keys, CreateProposal(k)
  PROVE  /\ row' \in [Keys -> {"none", "pending", "accepted", "rejected"}]
         /\ older' \in [Keys -> SUBSET Keys]
  BY DEF TypeOK, CreateProposal, Pending

LEMMA HangUpType ==
  ASSUME TypeOK, NEW c \in Callers, HangUp(c)
  PROVE  /\ pc' \in [Callers -> {"idle", "read", "gone", "reviewed", "acting"}]
         /\ held' \in [Callers -> Keys \cup {NoKey}]
         /\ owed' \in [Callers -> SUBSET Effect]
  BY DEF TypeOK, HangUp

-----------------------------------------------------------------------------
\* A call in the middle of its work holds a row, and so does the daemon while a
\* verdict is open: the rows of the two CASE distinctions below are real keys.
Holding ==
  /\ \A c \in Callers : pc[c] # "idle" => held[c] \in Keys
  /\ verdict # "none" => cur \in Keys
  /\ cur = NoKey => todo = {}
  /\ \A e \in Editors : epc[e] # "idle" => victim[e] \in Obs

LEMMA NightTypes ==
  ASSUME TypeOK, Holding, Night
  PROVE  TypeOK' /\ Holding'
<1> USE DEF TypeOK, Holding, tables, night, calls, edits
<1>1. CASE StartCycle
  <2>1. stage' \in Stage /\ queue' \subseteq Keys
    BY <1>1, EnterType DEF StartCycle, Stage
  <2> QED BY <1>1, <2>1 DEF StartCycle
<1>2. CASE AiSkip
  BY <1>2 DEF AiSkip, PutDown
<1>3. CASE DaemonReview
  <2>1. cur \in Keys /\ verdict \in {"accepted", "rejected"}
    BY <1>3 DEF DaemonReview, ReadyToReview
  <2>2. /\ row' \in [Keys -> {"none", "pending", "accepted", "rejected"}]
        /\ reviewer' \in [Keys -> {"none", "human", "absorb", "ai"}]
        /\ older' \in [Keys -> SUBSET Keys]
    BY <1>3, <2>1, ReviewType DEF DaemonReview
  <2> QED BY <1>3, <2>2 DEF DaemonReview, PutDown
<1>4. CASE FinishTask
  <2>1. stage' \in Stage /\ queue' \subseteq Keys
    BY <1>4, EnterType, AfterType DEF FinishTask, Stage
  <2> QED BY <1>4, <2>1 DEF FinishTask
<1>5. CASE FinishOrphans
  <2>1. stage' \in Stage /\ queue' \subseteq Keys
    BY <1>5, EnterType, AfterType DEF FinishOrphans, Stage
  <2>2. attempts' \in [Obs -> Nat]
    BY <1>5 DEF FinishOrphans, IncrementRescueAttempts
  <2> QED BY <1>5, <2>1, <2>2 DEF FinishOrphans
<1>6. ASSUME NEW k \in Keys, AiRead(k) PROVE TypeOK' /\ Holding'
  BY <1>6, KeyFields DEF AiRead
<1>7. ASSUME NEW k \in Keys, AbsorbTake(k) PROVE TypeOK' /\ Holding'
  BY <1>7, KeyFields, EffectsType DEF AbsorbTake
<1>8. ASSUME NEW k \in Keys, DedupPropose(k) PROVE TypeOK' /\ Holding'
  <2>1. /\ row' \in [Keys -> {"none", "pending", "accepted", "rejected"}]
        /\ older' \in [Keys -> SUBSET Keys]
    BY <1>8, CreateType DEF DedupPropose
  <2> QED BY <1>8, <2>1 DEF DedupPropose
<1>9. ASSUME NEW k \in Keys, ProposeLink(k) PROVE TypeOK' /\ Holding'
  <2>1. /\ row' \in [Keys -> {"none", "pending", "accepted", "rejected"}]
        /\ older' \in [Keys -> SUBSET Keys]
    BY <1>9, CreateType DEF ProposeLink
  <2> QED BY <1>9, <2>1 DEF ProposeLink
<1>10. ASSUME NEW k \in Keys, CreateOrphanRow(k) PROVE TypeOK' /\ Holding'
  <2>1. /\ row' \in [Keys -> {"none", "pending", "accepted", "rejected"}]
        /\ older' \in [Keys -> SUBSET Keys]
    BY <1>10, CreateType DEF CreateOrphanRow
  <2> QED BY <1>10, <2>1 DEF CreateOrphanRow
<1>11. ASSUME NEW answer \in {"accepted", "rejected"}, AiDecide(answer)
       PROVE  TypeOK' /\ Holding'
  <2>1. cur \in Keys /\ verdict' \in {"accepted", "rejected"}
    BY <1>11 DEF AiDecide
  <2>2. todo' \subseteq Effect
    BY <1>11, <2>1, EffectsType DEF AiDecide
  <2> QED BY <1>11, <2>1, <2>2, KeyFields DEF AiDecide
<1>12. ASSUME NEW e \in Effect, DaemonEffect(e) PROVE TypeOK' /\ Holding'
  <2>1. cur \in Keys
    BY <1>12 DEF DaemonEffect
  <2>2. /\ links' \subseteq Obs \X Obs /\ metab' \subseteq Obs
        /\ ostat' \in [Obs -> {"none", "orphaned", "rescued", "archived"}]
    BY <1>12, <2>1, ApplyEffectType DEF DaemonEffect
  <2> QED BY <1>12, <2>1, <2>2, KeyFields DEF DaemonEffect
<1>13. ASSUME NEW E \in SUBSET Stale, Expire(E) PROVE TypeOK' /\ Holding'
  <2>1. stage' \in Stage /\ queue' \subseteq Keys
    BY <1>13, EnterType, AfterType DEF Expire, Stage
  <2>2. /\ row' \in [Keys -> {"none", "pending", "accepted", "rejected"}]
        /\ older' \in [Keys -> SUBSET Keys]
    BY <1>13 DEF Expire, Settled
  <2>3. pc' \in [Callers -> {"idle", "read", "gone", "reviewed", "acting"}]
    BY <1>13 DEF Expire
  <2>4. \A c \in Callers : pc'[c] # "idle" => held'[c] \in Keys
    BY <1>13 DEF Expire
  <2> QED BY <1>13, <2>1, <2>2, <2>3, <2>4 DEF Expire
<1>14. ASSUME NEW S \in SUBSET OrphanCandidates, DetectOrphans(S) PROVE TypeOK' /\ Holding'
  <2>1. stage' \in Stage /\ queue' \subseteq Keys
    BY <1>14, EnterType, AfterType DEF DetectOrphans, Stage
  <2>2. ostat' \in [Obs -> {"none", "orphaned", "rescued", "archived"}]
    BY <1>14 DEF DetectOrphans, MarkOrphans
  <2> QED BY <1>14, <2>1, <2>2 DEF DetectOrphans
<1>15. ASSUME NEW window \in SUBSET Obs, NEW reached \in SUBSET window,
              NEW found \in SUBSET reached,
              SearchOrphans(window, reached, found)
       PROVE  TypeOK' /\ Holding'
  BY <1>15 DEF SearchOrphans, Stage
<1>16. CASE DaemonMisread
  BY <1>16 DEF DaemonMisread
<1> QED
  BY <1>1, <1>2, <1>3, <1>4, <1>5, <1>6, <1>7, <1>8, <1>9, <1>10, <1>11, <1>12, <1>13,
     <1>14, <1>15, <1>16 DEF Night

LEMMA FaultTypes ==
  ASSUME TypeOK, Holding, NightFault
  PROVE  TypeOK' /\ Holding'
<1> USE LimitsAssumption DEF TypeOK, Holding, tables, night, calls, edits
<1>1. CASE RowFails
  BY <1>1 DEF RowFails, PutDown
<1>2. CASE TaskFails
  <2>1. stage' \in Stage /\ queue' \subseteq Keys
    BY <1>2, EnterType, AfterType DEF TaskFails, Stage
  <2> QED BY <1>2, <2>1 DEF TaskFails
<1>3. CASE NightKilled
  BY <1>3 DEF NightKilled, PutDown, Stage
<1> QED BY <1>1, <1>2, <1>3 DEF NightFault

LEMMA CallTypes ==
  ASSUME TypeOK, Holding, NEW c \in Callers, Call(c)
  PROVE  TypeOK' /\ Holding'
<1> USE DEF TypeOK, Holding, tables, night, calls, edits
<1>h. ASSUME HangUp(c)
      PROVE  /\ pc' \in [Callers -> {"idle", "read", "gone", "reviewed", "acting"}]
             /\ held' \in [Callers -> Keys \cup {NoKey}]
             /\ owed' \in [Callers -> SUBSET Effect]
             /\ \A d \in Callers : pc'[d] # "idle" => held'[d] \in Keys
  BY <1>h DEF HangUp
<1>1. ASSUME NEW k \in Keys, NEW d \in {"accepted", "rejected"}, CallerRead(c, k, d)
      PROVE  TypeOK' /\ Holding'
  BY <1>1 DEF CallerRead
<1>2. CASE CallerReview(c)
  <2>1. held[c] \in Keys /\ decision[c] \in {"accepted", "rejected"}
    BY <1>2 DEF CallerReview
  <2>2. /\ row' \in [Keys -> {"none", "pending", "accepted", "rejected"}]
        /\ reviewer' \in [Keys -> {"none", "human", "absorb", "ai"}]
        /\ older' \in [Keys -> SUBSET Keys]
    BY <1>2, <2>1, ReviewType DEF CallerReview
  <2>3. CASE decision[c] = "accepted"
    BY <1>2, <2>2, <2>3 DEF CallerReview
  <2>4. CASE decision[c] # "accepted"
    BY <1>2, <2>2, <2>4, <1>h DEF CallerReview
  <2> QED BY <2>3, <2>4
<1>3. CASE CallerBegin(c)
  <2>1. Effects(held[c]) \subseteq Effect
    BY <1>3, EffectsType DEF CallerBegin
  <2> QED BY <1>3, <2>1 DEF CallerBegin
<1>4. CASE CallerDeclines(c)
  BY <1>4, <1>h DEF CallerDeclines
<1>5. CASE CallerFindsNothing(c)
  BY <1>5, <1>h DEF CallerFindsNothing
<1>6. CASE CallerFails(c)
  BY <1>6, <1>h, LimitsAssumption DEF CallerFails
<1>7. ASSUME NEW e \in Effect, CallerEffect(c, e) PROVE TypeOK' /\ Holding'
  <2>1. held[c] \in Keys
    BY <1>7 DEF CallerEffect
  <2>2. /\ links' \subseteq Obs \X Obs /\ metab' \subseteq Obs
        /\ ostat' \in [Obs -> {"none", "orphaned", "rescued", "archived"}]
    BY <1>7, <2>1, ApplyEffectType DEF CallerEffect
  <2>3. CASE owed[c] = {e}
    BY <1>7, <2>2, <2>3, <1>h DEF CallerEffect
  <2>4. CASE owed[c] # {e}
    BY <1>7, <2>2, <2>4 DEF CallerEffect
  <2> QED BY <2>3, <2>4
<1>8. CASE CallerMisread(c)
  BY <1>8 DEF CallerMisread
<1> QED BY <1>1, <1>2, <1>3, <1>4, <1>5, <1>6, <1>7, <1>8 DEF Call

LEMMA EditTypes ==
  ASSUME TypeOK, Holding, NEW ed \in Editors, Edit(ed)
  PROVE  TypeOK' /\ Holding'
<1> USE DEF TypeOK, Holding, tables, night, calls, edits
<1>1. ASSUME NEW o \in Obs, DeleteObservation(ed, o) PROVE TypeOK' /\ Holding'
  BY <1>1 DEF DeleteObservation
<1>2. CASE ReadLinks(ed)
  BY <1>2 DEF ReadLinks
<1>3. CASE WriteLinks(ed)
  BY <1>3 DEF WriteLinks
<1> QED BY <1>1, <1>2, <1>3 DEF Edit

LEMMA InitTypes == Init => TypeOK /\ Holding
<1> SUFFICES ASSUME Init PROVE TypeOK /\ Holding
  OBVIOUS
<1>1. faults \in 0..MaxFaults
  BY LimitsAssumption DEF Init
<1>2. TypeOK
  BY <1>1 DEF Init, TypeOK, Stage
<1>3. Holding
  BY DEF Init, Holding
<1> QED BY <1>2, <1>3

LEMMA NextTypes ==
  ASSUME TypeOK, Holding, [Next]_vars
  PROVE  TypeOK' /\ Holding'
<1>1. CASE UNCHANGED vars
  BY <1>1 DEF TypeOK, Holding, vars, tables, night, calls, edits
<1> QED BY <1>1, NightTypes, FaultTypes, CallTypes, EditTypes DEF Next

\* Every reachable state is well typed, and whoever is in the middle of a row
\* still holds a real one: no mind_propose call, review or absorption ever
\* works on a row it does not have.
THEOREM TypeCorrect == Spec => [](TypeOK /\ Holding)
<1>1. Init => TypeOK /\ Holding
  BY InitTypes
<1>2. (TypeOK /\ Holding) /\ [Next]_vars => (TypeOK /\ Holding)'
  BY NextTypes
<1> QED BY <1>1, <1>2, PTL DEF Spec
-----------------------------------------------------------------------------
\* What no step undoes.

\* Observations only disappear, metabolized ones stay so, an orphan row stays,
\* never becomes "orphaned" again, and its attempts only grow.
OnlyForward ==
  /\ obs' \subseteq obs /\ metab \subseteq metab'
  /\ \A o \in Obs :
       /\ ostat[o] # "none" => ostat'[o] # "none"
       /\ ostat[o] \notin {"none", "orphaned"} => ostat'[o] # "orphaned"
       /\ attempts'[o] \in Nat /\ attempts[o] <= attempts'[o]

LEMMA ApplyForward ==
  ASSUME TypeOK, NEW e, NEW k \in Keys, ApplyEffect(e, k), UNCHANGED <<obs, attempts>>
  PROVE  OnlyForward
<1>1. k.source \in Obs
  BY KeyFields
<1> QED BY <1>1 DEF TypeOK, ApplyEffect, OnlyForward

LEMMA Forward ==
  ASSUME TypeOK, Holding, [Next]_vars
  PROVE  OnlyForward
<1> USE DEF tables
<1>s. ASSUME UNCHANGED <<obs, metab, ostat, attempts>> PROVE OnlyForward
  BY <1>s DEF TypeOK, OnlyForward
<1>1. CASE Night
  <2>1. ASSUME NEW e \in Effect, DaemonEffect(e) PROVE OnlyForward
    BY <2>1, ApplyForward DEF DaemonEffect, TypeOK
  <2>2. ASSUME NEW S \in SUBSET OrphanCandidates, DetectOrphans(S) PROVE OnlyForward
    BY <2>2 DEF DetectOrphans, MarkOrphans, TypeOK, OnlyForward
  <2>3. CASE FinishOrphans
    BY <2>3 DEF FinishOrphans, IncrementRescueAttempts, TypeOK, OnlyForward
  <2>4. CASE StartCycle \/ AiSkip \/ DaemonMisread \/ DaemonReview \/ FinishTask
    BY <2>4, <1>s DEF StartCycle, AiSkip, DaemonMisread, DaemonReview, FinishTask
  <2>5. ASSUME NEW k \in Keys,
               AiRead(k) \/ AbsorbTake(k) \/ DedupPropose(k) \/ ProposeLink(k) \/ CreateOrphanRow(k)
        PROVE  OnlyForward
    BY <2>5, <1>s DEF AiRead, AbsorbTake, DedupPropose, ProposeLink, CreateOrphanRow
  <2>6. ASSUME NEW answer \in {"accepted", "rejected"}, AiDecide(answer) PROVE OnlyForward
    BY <2>6, <1>s DEF AiDecide
  <2>7. ASSUME NEW E \in SUBSET Stale, Expire(E) PROVE OnlyForward
    BY <2>7, <1>s DEF Expire
  <2>8. ASSUME NEW window \in SUBSET Obs, NEW reached \in SUBSET window,
               NEW found \in SUBSET reached,
               SearchOrphans(window, reached, found)
        PROVE  OnlyForward
    BY <2>8, <1>s DEF SearchOrphans
  <2> QED BY <1>1, <2>1, <2>2, <2>3, <2>4, <2>5, <2>6, <2>7, <2>8 DEF Night
<1>2. CASE NightFault
  BY <1>2, <1>s DEF NightFault, RowFails, TaskFails, NightKilled
<1>3. ASSUME NEW c \in Callers, Call(c) PROVE OnlyForward
  <2>1. ASSUME NEW e \in Effect, CallerEffect(c, e) PROVE OnlyForward
    BY <2>1, ApplyForward DEF CallerEffect, Holding
  <2>2. ASSUME NEW k \in Keys, NEW d \in {"accepted", "rejected"}, CallerRead(c, k, d)
        PROVE  OnlyForward
    BY <2>2, <1>s DEF CallerRead
  <2>3. CASE \/ CallerReview(c) \/ CallerBegin(c) \/ CallerDeclines(c)
             \/ CallerFindsNothing(c) \/ CallerMisread(c) \/ CallerFails(c)
    BY <2>3, <1>s DEF CallerReview, CallerBegin, CallerDeclines, CallerFindsNothing,
                      CallerMisread, CallerFails
  <2> QED BY <1>3, <2>1, <2>2, <2>3 DEF Call
<1>4. ASSUME NEW ed \in Editors, Edit(ed) PROVE OnlyForward
  BY <1>4, <1>s DEF Edit, DeleteObservation, ReadLinks, WriteLinks, TypeOK, OnlyForward
<1>5. CASE UNCHANGED vars
  BY <1>5, <1>s DEF vars
<1> QED BY <1>1, <1>2, <1>3, <1>4, <1>5 DEF Next

-----------------------------------------------------------------------------
\* Orphan rows are earned.

\* A row newly in somebody's hand is of another type, or comes from tonight's
\* search of the orphans.
NewlyEngaged(k) ==
  \/ k.type # "orphan_rescue"
  \/ ostat[k.source] # "none" /\ (IsArchive(k) => attempts[k.source] >= MaxBacklog)

LEMMA EnterEngaged ==
  ASSUME TypeOK, NEW s, Enter(s), UNCHANGED <<row, cur, held>>, NEW k \in Keys, Engaged(k)'
  PROVE  Engaged(k)
  BY DEF TypeOK, Enter, Engaged, AiCandidates, AbsorbQueue, Pending

LEMMA EngagedNext ==
  ASSUME TypeOK, Holding, [Next]_vars, NEW k \in Keys, Engaged(k)'
  PROVE  Engaged(k) \/ NewlyEngaged(k)
<1> USE KeyFields DEF tables, night, calls, edits
<1>s. ASSUME \A j \in Keys : row'[j] # "none" => \/ row[j] # "none" \/ j \in queue
                                               \/ j.type # "orphan_rescue",
             queue' \subseteq queue, cur' \in {cur, NoKey} \cup queue, UNCHANGED held
      PROVE  Engaged(k) \/ NewlyEngaged(k)
  BY <1>s DEF Engaged, NewlyEngaged
<1>1. CASE Night
  <2>1. CASE StartCycle
    BY <2>1, EnterEngaged DEF StartCycle
  <2>2. CASE FinishTask \/ FinishOrphans
    BY <2>2, EnterEngaged DEF FinishTask, FinishOrphans
  <2>3. CASE AiSkip \/ DaemonMisread
    BY <2>3, <1>s DEF AiSkip, DaemonMisread, PutDown
  <2>4. CASE DaemonReview
    <3>1. cur \in Keys
      BY <2>4 DEF DaemonReview, ReadyToReview, Holding
    <3> QED BY <2>4, <3>1 DEF DaemonReview, PutDown, ReviewProposal, Engaged, TypeOK
  <2>5. ASSUME NEW j \in Keys, AiRead(j) \/ AbsorbTake(j) PROVE Engaged(k) \/ NewlyEngaged(k)
    BY <2>5, <1>s DEF AiRead, AbsorbTake
  <2>6. ASSUME NEW j \in Keys, DedupPropose(j) \/ ProposeLink(j) PROVE Engaged(k) \/ NewlyEngaged(k)
    BY <2>6, <1>s DEF DedupPropose, ProposeLink, CreateProposal, TypeOK
  <2>7. ASSUME NEW j \in Keys, CreateOrphanRow(j) PROVE Engaged(k) \/ NewlyEngaged(k)
    BY <2>7, <1>s DEF CreateOrphanRow, CreateProposal, TypeOK
  <2>8. ASSUME NEW answer \in {"accepted", "rejected"}, AiDecide(answer)
        PROVE  Engaged(k) \/ NewlyEngaged(k)
    BY <2>8, <1>s DEF AiDecide
  <2>9. ASSUME NEW e \in Effect, DaemonEffect(e) PROVE Engaged(k) \/ NewlyEngaged(k)
    BY <2>9, <1>s DEF DaemonEffect
  <2>10. ASSUME NEW E \in SUBSET Stale, Expire(E) PROVE Engaged(k) \/ NewlyEngaged(k)
    BY <2>10 DEF Expire, Enter, After, Engaged, TypeOK
  <2>11. ASSUME NEW S \in SUBSET OrphanCandidates, DetectOrphans(S)
         PROVE  Engaged(k) \/ NewlyEngaged(k)
    BY <2>11, EnterEngaged DEF DetectOrphans
  <2>12. ASSUME NEW window \in SUBSET Obs, NEW reached \in SUBSET window,
                NEW found \in SUBSET reached,
                SearchOrphans(window, reached, found)
         PROVE  Engaged(k) \/ NewlyEngaged(k)
    <3>1. CASE row[k] # "none" \/ cur = k \/ \E c \in Callers : held[c] = k
      BY <3>1 DEF Engaged
    <3>2. CASE k \in queue'
      <4>1. /\ k.source \in window
            /\ IsArchive(k) => Exhausted(k.source)
        BY <2>12, <3>2 DEF SearchOrphans, Nearest, IsArchive, IsRescue
      <4>2. Exhausted(k.source) => attempts[k.source] >= MaxBacklog
        BY DEF Exhausted, MaxAttempts, MaxBacklog, MaxSteady, TypeOK
      <4> QED BY <2>12, <4>1, <4>2 DEF SearchOrphans, NewlyEngaged
    <3> QED BY <2>12, <3>1, <3>2 DEF SearchOrphans, Engaged
  <2> QED BY <1>1, <2>1, <2>2, <2>3, <2>4, <2>5, <2>6, <2>7, <2>8, <2>9, <2>10, <2>11, <2>12
        DEF Night
<1>2. CASE NightFault
  <2>1. CASE RowFails
    BY <2>1, <1>s DEF RowFails, PutDown
  <2>2. CASE TaskFails
    BY <2>2, EnterEngaged DEF TaskFails
  <2>3. CASE NightKilled
    BY <2>3, <1>s DEF NightKilled, PutDown
  <2> QED BY <1>2, <2>1, <2>2, <2>3 DEF NightFault
<1>3. ASSUME NEW c \in Callers, Call(c) PROVE Engaged(k) \/ NewlyEngaged(k)
  <2>1. \A j \in Keys : row'[j] # "none" => row[j] # "none" \/ held[c] = j
    BY <1>3 DEF Call, CallerRead, CallerReview, ReviewProposal, CallerBegin, CallerDeclines,
                CallerFindsNothing, CallerMisread, CallerFails, CallerEffect, TypeOK
  <2>2. \A d \in Callers : held'[d] \in {held[d], NoKey} \/ row[held'[d]] = "pending"
    BY <1>3 DEF Call, CallerRead, CallerReview, CallerBegin, CallerDeclines,
                CallerFindsNothing, CallerMisread, CallerFails, CallerEffect, HangUp, TypeOK
  <2>3. UNCHANGED <<queue, cur>>
    BY <1>3 DEF Call, CallerRead, CallerReview, CallerBegin, CallerDeclines,
                CallerFindsNothing, CallerMisread, CallerFails, CallerEffect
  <2> QED BY <2>1, <2>2, <2>3 DEF Engaged
<1>4. ASSUME NEW ed \in Editors, Edit(ed) PROVE Engaged(k) \/ NewlyEngaged(k)
  BY <1>4, <1>s DEF Edit, DeleteObservation, ReadLinks, WriteLinks
<1>5. CASE UNCHANGED vars
  BY <1>5, <1>s DEF vars
<1> QED BY <1>1, <1>2, <1>3, <1>4, <1>5 DEF Next

LEMMA OrphanRowsNext ==
  ASSUME TypeOK, Holding, OrphanRowsEarned, [Next]_vars
  PROVE  OrphanRowsEarned'
<1>1. OnlyForward
  BY Forward
<1> SUFFICES ASSUME NEW k \in Keys, k.type = "orphan_rescue", Engaged(k)'
             PROVE  ostat'[k.source] # "none" /\ (IsArchive(k) => attempts'[k.source] >= MaxBacklog)
  BY DEF OrphanRowsEarned, IsArchive, MaxBacklog
<1>2. ostat[k.source] # "none" /\ (IsArchive(k) => attempts[k.source] >= MaxBacklog)
  BY EngagedNext DEF NewlyEngaged, OrphanRowsEarned
<1> QED BY <1>1, <1>2, KeyFields DEF OnlyForward, MaxBacklog, TypeOK

-----------------------------------------------------------------------------
\* The rescue budget: a search is listed only under it, and counted once, unless
\* the night ends before the count is written.

LEMMA BudgetHolds == TypeOK /\ SearchBudget => RescueBudget
  BY DEF TypeOK, SearchBudget, RescueBudget, MaxSteady

LEMMA BudgetNext ==
  ASSUME TypeOK, SearchBudget, [Next]_vars
  PROVE  SearchBudget'
<1> USE DEF tables, night, SearchBudget, MaxSteady, TypeOK
\* Most steps search for nothing: they keep the count, and end no "create" task.
<1>s. ASSUME UNCHANGED <<attempts, searched, attempted>>, faults' \in {faults, faults + 1},
             stage = "create" => stage' = "create"
      PROVE  SearchBudget'
  <2>1. stage' # "create" => attempted' = {}
    BY <1>s
  <2>2. faults' \in Int /\ faults <= faults'
    BY <1>s
  <2>3. attempts' = attempts /\ searched' = searched /\ attempted' = attempted
    BY <1>s
  <2> QED BY <2>1, <2>2, <2>3
\* A failure gives up what was searched for and not counted.
<1>f. ASSUME UNCHANGED <<attempts, searched>>, attempted' = {}, faults' = faults + 1
      PROVE  SearchBudget'
  BY <1>f
<1>1. CASE Night
  <2>1. CASE FinishOrphans
    <3>1. stage' # "create"
      BY <2>1 DEF FinishOrphans, Enter, After
    <3>2. attempted' = {} /\ UNCHANGED <<searched, faults>>
      BY <2>1 DEF FinishOrphans
    <3>3. \A o \in Obs : attempts'[o] = IF o \in attempted THEN attempts[o] + 1 ELSE attempts[o]
      BY <2>1 DEF FinishOrphans, IncrementRescueAttempts
    <3> QED BY <3>1, <3>2, <3>3
  <2>2. ASSUME NEW window \in SUBSET Obs, NEW reached \in SUBSET window,
               NEW found \in SUBSET reached,
               SearchOrphans(window, reached, found)
        PROVE  SearchBudget'
    <3>1. attempted = {} /\ stage' = "create" /\ attempted' = reached /\ UNCHANGED <<attempts, faults>>
      BY <2>2 DEF SearchOrphans
    <3>2. \A o \in Obs : searched'[o] = IF o \in reached THEN searched[o] + 1 ELSE searched[o]
      BY <2>2 DEF SearchOrphans
    <3>3. \A o \in reached : attempts[o] < 3
      BY <2>2 DEF SearchOrphans, Exhausted, MaxAttempts, MaxBacklog
    <3> QED BY <3>1, <3>2, <3>3
  <2>3. CASE StartCycle \/ AiSkip \/ DaemonMisread \/ DaemonReview \/ FinishTask
    BY <2>3, <1>s DEF StartCycle, AiSkip, DaemonMisread, DaemonReview, FinishTask
  <2>4. ASSUME NEW k \in Keys,
               AiRead(k) \/ AbsorbTake(k) \/ DedupPropose(k) \/ ProposeLink(k) \/ CreateOrphanRow(k)
        PROVE  SearchBudget'
    BY <2>4, <1>s DEF AiRead, AbsorbTake, DedupPropose, ProposeLink, CreateOrphanRow
  <2>5. ASSUME NEW answer \in {"accepted", "rejected"}, AiDecide(answer)
        PROVE  SearchBudget'
    BY <2>5, <1>s DEF AiDecide
  <2>6. ASSUME NEW e \in Effect, DaemonEffect(e) PROVE SearchBudget'
    BY <2>6, <1>s DEF DaemonEffect
  <2>7. ASSUME NEW E \in SUBSET Stale, Expire(E) PROVE SearchBudget'
    BY <2>7, <1>s DEF Expire
  <2>8. ASSUME NEW S \in SUBSET OrphanCandidates, DetectOrphans(S)
        PROVE  SearchBudget'
    BY <2>8, <1>s DEF DetectOrphans
  <2> QED BY <1>1, <2>1, <2>2, <2>3, <2>4, <2>5, <2>6, <2>7, <2>8 DEF Night
<1>2. CASE NightFault
  <2>1. CASE RowFails
    BY <2>1, <1>s DEF RowFails
  <2>2. CASE TaskFails
    BY <2>2, <1>f DEF TaskFails
  <2>3. CASE NightKilled
    BY <2>3, <1>f DEF NightKilled
  <2> QED BY <1>2, <2>1, <2>2, <2>3 DEF NightFault
<1>3. ASSUME NEW c \in Callers, Call(c) PROVE SearchBudget'
  BY <1>3, <1>s DEF Call, CallerRead, CallerReview, CallerBegin, CallerDeclines,
                    CallerFindsNothing, CallerMisread, CallerFails, CallerEffect
<1>4. ASSUME NEW ed \in Editors, Edit(ed) PROVE SearchBudget'
  BY <1>4, <1>s DEF Edit, DeleteObservation, ReadLinks, WriteLinks
<1>5. CASE UNCHANGED vars
  BY <1>5, <1>s DEF vars
<1> QED BY <1>1, <1>2, <1>3, <1>4, <1>5 DEF Next

-----------------------------------------------------------------------------
\* Archived is metabolized: the texture is written before the status.

\* What has been written for k stays written.
LEMMA TextureDoneForward ==
  ASSUME OnlyForward, NEW k, TextureDone(k)
  PROVE  TextureDone(k)'
  BY DEF OnlyForward, TextureDone, Metabolized

LEMMA ApplyTexture ==
  ASSUME NEW e, NEW k, ApplyEffect(e, k), UNCHANGED obs, e = "texture"
  PROVE  TextureDone(k)'
  BY DEF ApplyEffect, TextureDone, Metabolized

LEMMA TextureNext ==
  ASSUME TypeOK, Holding, TextureProgress, [Next]_vars
  PROVE  TextureProgress'
<1> USE DEF tables, night, calls, edits
<1>f. OnlyForward
  BY Forward
<1>g. \A k : TextureDone(k) => TextureDone(k)'
  BY <1>f, TextureDoneForward
<1>p. ASSUME UNCHANGED calls PROVE CallTexture'
  BY <1>p, <1>g DEF CallTexture, TextureProgress
<1>d. ASSUME UNCHANGED <<cur, verdict, todo>> PROVE NightTexture'
  BY <1>d, <1>g DEF NightTexture, TextureProgress
<1>s. ASSUME UNCHANGED <<cur, verdict, todo, pc, held, owed>> PROVE TextureProgress'
  BY <1>s, <1>g DEF TextureProgress, NightTexture, CallTexture
<1>n. ASSUME UNCHANGED calls, todo' = {}, verdict' # "accepted" PROVE TextureProgress'
  BY <1>n, <1>p DEF TextureProgress, NightTexture
<1>1. CASE Night
  <2>1. ASSUME NEW e \in Effect, DaemonEffect(e) PROVE TextureProgress'
    <3>1. /\ verdict = "accepted" /\ todo' = todo \ {e} /\ UNCHANGED <<cur, verdict, calls>>
          /\ e = "texture" => TextureDone(cur)'
      BY <2>1, ApplyTexture DEF DaemonEffect, DaemonMayDo, TextureProgress, NightTexture
    <3> QED BY <3>1, <1>g, <1>p DEF TextureProgress, NightTexture
  <2>2. CASE AiSkip \/ DaemonReview
    BY <2>2, <1>n DEF AiSkip, DaemonReview, PutDown
  <2>3. CASE StartCycle \/ FinishTask \/ FinishOrphans
    BY <2>3, <1>s DEF StartCycle, FinishTask, FinishOrphans
  <2>11. CASE DaemonMisread
    <3>1. CallTexture'
      BY <2>11, <1>p DEF DaemonMisread
    <3>2. NightTexture'
      BY <2>11 DEF DaemonMisread, TextureProgress, NightTexture, TextureDone
    <3> QED BY <3>1, <3>2 DEF TextureProgress
  <2>4. ASSUME NEW k \in Keys, AiRead(k) PROVE TextureProgress'
    BY <2>4, <1>n DEF AiRead, Holding
  <2>5. ASSUME NEW k \in Keys, AbsorbTake(k) PROVE TextureProgress'
    BY <2>5, <1>p DEF AbsorbTake, TextureProgress, NightTexture
  <2>6. ASSUME NEW k \in Keys, DedupPropose(k) \/ ProposeLink(k) \/ CreateOrphanRow(k)
        PROVE  TextureProgress'
    BY <2>6, <1>s DEF DedupPropose, ProposeLink, CreateOrphanRow
  <2>7. ASSUME NEW answer \in {"accepted", "rejected"}, AiDecide(answer) PROVE TextureProgress'
    BY <2>7, <1>p DEF AiDecide, TextureProgress, NightTexture
  <2>8. ASSUME NEW E \in SUBSET Stale, Expire(E) PROVE TextureProgress'
    BY <2>8, <1>d, <1>g DEF Expire, TextureProgress, CallTexture, TypeOK
  <2>9. ASSUME NEW S \in SUBSET OrphanCandidates, DetectOrphans(S) PROVE TextureProgress'
    BY <2>9, <1>s DEF DetectOrphans
  <2>10. ASSUME NEW window \in SUBSET Obs, NEW reached \in SUBSET window,
                NEW found \in SUBSET reached,
                SearchOrphans(window, reached, found)
         PROVE  TextureProgress'
    BY <2>10, <1>s DEF SearchOrphans
  <2> QED
    BY <1>1, <2>1, <2>2, <2>3, <2>4, <2>5, <2>6, <2>7, <2>8, <2>9, <2>10, <2>11 DEF Night
<1>2. CASE NightFault
  BY <1>2, <1>n, <1>s DEF NightFault, RowFails, TaskFails, NightKilled, PutDown
<1>3. ASSUME NEW c \in Callers, Call(c) PROVE TextureProgress'
  <2>h. ASSUME HangUp(c), UNCHANGED <<cur, verdict, todo>> PROVE TextureProgress'
    BY <2>h, <1>d, <1>g DEF HangUp, TextureProgress, CallTexture, TypeOK
  <2>1. ASSUME NEW k \in Keys, NEW d \in {"accepted", "rejected"}, CallerRead(c, k, d)
        PROVE  TextureProgress'
    BY <2>1, <1>d, <1>g DEF CallerRead, TextureProgress, CallTexture, TypeOK
  <2>2. CASE CallerReview(c)
    BY <2>2, <2>h, <1>d, <1>g DEF CallerReview, TextureProgress, CallTexture, TypeOK
  <2>3. CASE CallerBegin(c)
    BY <2>3, <1>d, <1>g DEF CallerBegin, TextureProgress, CallTexture, TypeOK
  <2>4. CASE CallerDeclines(c) \/ CallerFindsNothing(c) \/ CallerFails(c)
    BY <2>4, <2>h DEF CallerDeclines, CallerFindsNothing, CallerFails
  <2>5. ASSUME NEW e \in Effect, CallerEffect(c, e) PROVE TextureProgress'
    <3>1. CASE owed[c] = {e}
      BY <2>5, <3>1, <2>h DEF CallerEffect
    <3>2. CASE owed[c] # {e}
      <4>1. /\ owed' = [owed EXCEPT ![c] = @ \ {e}] /\ UNCHANGED <<pc, held, cur, verdict, todo>>
            /\ e = "texture" => TextureDone(held[c])'
        BY <2>5, <3>2, ApplyTexture DEF CallerEffect
      <4> QED BY <4>1, <1>d, <1>g DEF TextureProgress, CallTexture, TypeOK
    <3> QED BY <3>1, <3>2
  <2>6. CASE CallerMisread(c)
    <3>1. NightTexture'
      BY <2>6, <1>d DEF CallerMisread
    <3>2. CallTexture'
      BY <2>6 DEF CallerMisread, TextureProgress, CallTexture, TextureDone, TypeOK
    <3> QED BY <3>1, <3>2 DEF TextureProgress
  <2> QED BY <1>3, <2>1, <2>2, <2>3, <2>4, <2>5, <2>6 DEF Call
<1>4. ASSUME NEW ed \in Editors, Edit(ed) PROVE TextureProgress'
  BY <1>4, <1>s DEF Edit, DeleteObservation, ReadLinks, WriteLinks
<1>5. CASE UNCHANGED vars
  BY <1>5, <1>s DEF vars
<1> QED BY <1>1, <1>2, <1>3, <1>4, <1>5 DEF Next

\* A status becomes "archived" only through an archival row whose texture is done.
LEMMA ArchiveStep ==
  ASSUME TypeOK, Holding, TextureProgress, [Next]_vars,
         NEW o \in Obs, ostat[o] # "archived", ostat'[o] = "archived"
  PROVE  \E k \in Keys : Engaged(k) /\ IsArchive(k) /\ k.source = o /\ TextureDone(k)
<1> USE DEF tables, TypeOK
<1>1. ASSUME NEW e, NEW k \in Keys, ApplyEffect(e, k)
      PROVE  e = "orphan" /\ IsArchive(k) /\ k.source = o
  BY <1>1, KeyFields DEF ApplyEffect
<1>2. CASE Night
  <2>1. ASSUME NEW e \in Effect, DaemonEffect(e)
        PROVE  \E k \in Keys : Engaged(k) /\ IsArchive(k) /\ k.source = o /\ TextureDone(k)
    <3>1. cur \in Keys /\ e = "orphan" /\ IsArchive(cur) /\ cur.source = o
      BY <2>1, <1>1 DEF DaemonEffect
    <3>2. todo = {"orphan"} /\ verdict = "accepted"
      BY <2>1, <3>1 DEF DaemonEffect, DaemonMayDo, TextureProgress, NightTexture
    <3>3. TextureDone(cur)
      BY <3>1, <3>2 DEF TextureProgress, NightTexture, Effects
    <3> QED BY <3>1, <3>3 DEF Engaged
  <2>2. ASSUME NEW S \in SUBSET OrphanCandidates, DetectOrphans(S) PROVE FALSE
    BY <2>2 DEF DetectOrphans, MarkOrphans
  <2>3. CASE StartCycle \/ AiSkip \/ DaemonMisread \/ DaemonReview \/ FinishTask \/ FinishOrphans
    BY <2>3 DEF StartCycle, AiSkip, DaemonMisread, DaemonReview, FinishTask, FinishOrphans
  <2>4. ASSUME NEW k \in Keys,
               AiRead(k) \/ AbsorbTake(k) \/ DedupPropose(k) \/ ProposeLink(k) \/ CreateOrphanRow(k)
        PROVE  FALSE
    BY <2>4 DEF AiRead, AbsorbTake, DedupPropose, ProposeLink, CreateOrphanRow
  <2>5. ASSUME NEW answer \in {"accepted", "rejected"}, AiDecide(answer) PROVE FALSE
    BY <2>5 DEF AiDecide
  <2>6. ASSUME NEW E \in SUBSET Stale, Expire(E) PROVE FALSE
    BY <2>6 DEF Expire
  <2>7. ASSUME NEW window \in SUBSET Obs, NEW reached \in SUBSET window,
               NEW found \in SUBSET reached,
               SearchOrphans(window, reached, found)
        PROVE  FALSE
    BY <2>7 DEF SearchOrphans
  <2> QED BY <1>2, <2>1, <2>2, <2>3, <2>4, <2>5, <2>6, <2>7 DEF Night
<1>3. CASE NightFault
  BY <1>3 DEF NightFault, RowFails, TaskFails, NightKilled
<1>4. ASSUME NEW c \in Callers, Call(c)
      PROVE  \E k \in Keys : Engaged(k) /\ IsArchive(k) /\ k.source = o /\ TextureDone(k)
  <2>1. PICK e \in Effect : CallerEffect(c, e)
    BY <1>4 DEF Call, CallerRead, CallerReview, CallerBegin, CallerDeclines,
                CallerFindsNothing, CallerMisread, CallerFails
  <2>2. held[c] \in Keys /\ pc[c] = "acting"
    BY <2>1 DEF CallerEffect, Holding
  <2>3. e = "orphan" /\ IsArchive(held[c]) /\ held[c].source = o
    BY <2>1, <2>2, <1>1 DEF CallerEffect
  <2>4. owed[c] = {"orphan"}
    BY <2>1, <2>3 DEF CallerEffect, CallerMayDo
  <2>5. TextureDone(held[c])
    BY <2>2, <2>3, <2>4 DEF TextureProgress, CallTexture, Effects
  <2> QED BY <2>2, <2>3, <2>5 DEF Engaged
<1>5. ASSUME NEW ed \in Editors, Edit(ed) PROVE FALSE
  BY <1>5 DEF Edit, DeleteObservation, ReadLinks, WriteLinks
<1>6. CASE UNCHANGED vars
  BY <1>6 DEF vars
<1> QED BY <1>2, <1>3, <1>4, <1>5, <1>6 DEF Next

LEMMA ArchivedNext ==
  ASSUME TypeOK, Holding, OrphanInv, [Next]_vars
  PROVE  ArchivedDone' /\ ArchivedOnlyIfExhausted'
<1> SUFFICES ASSUME NEW o \in Obs, ostat'[o] = "archived"
             PROVE  (Misreads \/ o \in metab' \/ o \notin obs') /\ attempts'[o] >= MaxBacklog
  BY DEF ArchivedDone, ArchivedIsMetabolized, ArchivedOnlyIfExhausted, MaxBacklog
<1>1. OnlyForward
  BY Forward
<1>2. (Misreads \/ o \in metab \/ o \notin obs) /\ attempts[o] >= MaxBacklog
  <2>1. CASE ostat[o] = "archived"
    BY <2>1 DEF OrphanInv, ArchivedDone, ArchivedIsMetabolized, ArchivedOnlyIfExhausted
  <2>2. CASE ostat[o] # "archived"
    <3>1. PICK k \in Keys : Engaged(k) /\ IsArchive(k) /\ k.source = o /\ TextureDone(k)
      BY <2>2, ArchiveStep DEF OrphanInv
    <3>2. attempts[o] >= MaxBacklog
      BY <3>1 DEF OrphanInv, OrphanRowsEarned, IsArchive
    <3>3. Misreads \/ o \in metab \/ o \notin obs
      BY <3>1 DEF TextureDone, Metabolized, IsArchive
    <3> QED BY <3>2, <3>3
  <2> QED BY <2>1, <2>2
<1> QED BY <1>1, <1>2 DEF OnlyForward, MaxBacklog, TypeOK

LEMMA OrphanInvNext ==
  TypeOK /\ Holding /\ OrphanInv /\ [Next]_vars => OrphanInv'
<1>1. TypeOK /\ Holding /\ OrphanInv /\ [Next]_vars => TypeOK' /\ SearchBudget'
  BY NextTypes, BudgetNext DEF OrphanInv
<1>2. TypeOK' /\ SearchBudget' => RescueBudget'
  BY BudgetHolds, PTL
<1> QED BY <1>1, <1>2, OrphanRowsNext, TextureNext, ArchivedNext DEF OrphanInv

LEMMA OrphanInvInit == Init => OrphanInv
<1> SUFFICES ASSUME Init PROVE OrphanInv
  OBVIOUS
<1>1. OrphanRowsEarned
  BY KeyFields DEF Init, OrphanRowsEarned, Engaged
<1>2. SearchBudget /\ RescueBudget
  BY DEF Init, SearchBudget, RescueBudget, MaxSteady
<1>3. TextureProgress
  BY DEF Init, TextureProgress, NightTexture, CallTexture
<1>4. ArchivedDone /\ ArchivedOnlyIfExhausted
  BY DEF Init, ArchivedDone, ArchivedIsMetabolized, ArchivedOnlyIfExhausted
<1> QED BY <1>1, <1>2, <1>3, <1>4 DEF OrphanInv

\* With every interleaving of the night, of mind_propose calls and of deletions,
\* killed anywhere: an archived orphan was searched for first, no orphan is searched
\* for more often than the steady budget and the failures allow, and unless a failed read passes for a
\* missing observation, an archived orphan is metabolized or gone.
THEOREM OrphanSafety ==
  Spec => [](/\ ArchivedOnlyIfExhausted /\ RescueBudget
             /\ ~Misreads => ArchivedIsMetabolized)
<1>1. Init => OrphanInv
  BY OrphanInvInit
<1>2. TypeOK /\ Holding /\ OrphanInv /\ [Next]_vars => OrphanInv'
  BY OrphanInvNext
<1>3. OrphanInv => /\ ArchivedOnlyIfExhausted /\ RescueBudget
                   /\ ~Misreads => ArchivedIsMetabolized
  BY DEF OrphanInv, ArchivedDone
<1> QED BY <1>1, <1>2, <1>3, TypeCorrect, PTL DEF Spec

\* However the mode changes from night to night, the vector searches made for an
\* orphan are MAX_RESCUE_ATTEMPTS_STEADY at most, and one more for every failure: a
\* night that ends after its searches and before incrementRescueAttempts leaves them
\* uncounted, and nothing else does.
THEOREM RescuesBounded == Spec => []RescueBudget
BY OrphanSafety, PTL

-----------------------------------------------------------------------------
\* Automation stays in its bands.

LEMMA EnterBand ==
  ASSUME TypeOK, NEW s \in Stage, Enter(s), NEW k \in Keys, k \in queue'
  PROVE  /\ stage' = "ai" => AiBand(k)
         /\ stage' \in {"absorb", "absorb2"} => Absorbable(k)
  BY DEF Enter, AiCandidates, AbsorbQueue, AiBand, Stage

LEMMA BandNext ==
  ASSUME TypeOK, Holding, BandInv, [Next]_vars
  PROVE  BandInv'
<1> USE KeyFields DEF tables, night, calls, edits
<1>s. ASSUME UNCHANGED <<row, reviewer, stage, verdict>>, queue' \subseteq queue, cur' = cur
      PROVE  BandInv'
  BY <1>s DEF BandInv, AutomationInBand, AiBand, Absorbable, TypeOK
\* New pending rows, rows expired and rows a human reviewed claim nothing.
<1>r. ASSUME \A k \in Keys : \/ row'[k] \in {row[k], "none", "pending"}
                                /\ reviewer'[k] = reviewer[k]
                             \/ reviewer'[k] = "human"
      PROVE  AutomationInBand'
  BY <1>r DEF BandInv, AutomationInBand, AiBand, Absorbable, IsRescue, IsArchive, TypeOK
\* A new task starts with an empty hand.
<1>e. ASSUME NEW s \in Stage, Enter(s), cur' = NoKey, verdict' # "accepted", AutomationInBand'
      PROVE  BandInv'
  BY <1>e, EnterBand DEF BandInv, AiBand, Absorbable, Enter
<1>c. ASSUME AutomationInBand', UNCHANGED <<stage, queue, cur, verdict>> PROVE BandInv'
  BY <1>c DEF BandInv, AiBand, Absorbable
\* An empty hand has no verdict.
<1>v. cur = NoKey => verdict = "none"
  BY DEF Holding
<1>1. CASE Night
  <2>1. CASE StartCycle
    BY <2>1, <1>e, <1>r, <1>v DEF StartCycle, Stage, BandInv, Holding, TypeOK
  <2>2. CASE AiSkip \/ DaemonMisread
    BY <2>2 DEF AiSkip, DaemonMisread, PutDown, BandInv, AutomationInBand, AiBand, Absorbable
  <2>3. CASE DaemonReview
    <3>1. cur \in Keys /\ verdict \in {"accepted", "rejected"}
      BY <2>3 DEF DaemonReview, ReadyToReview, Holding
    <3>2. /\ stage = "ai" => AiBand(cur)
          /\ stage # "ai" => Absorbable(cur)
      BY <3>1 DEF BandInv
    <3>3. /\ row' = [row EXCEPT ![cur] = verdict]
          /\ reviewer' = [reviewer EXCEPT ![cur] = IF stage = "ai" THEN "ai" ELSE "absorb"]
      BY <2>3 DEF DaemonReview, ReviewProposal
    <3>4. AutomationInBand'
      BY <3>1, <3>2, <3>3 DEF BandInv, AutomationInBand, AiBand, Absorbable, IsRescue,
                              IsArchive, TypeOK
    <3> QED BY <2>3, <3>4 DEF DaemonReview, PutDown, BandInv, AiBand, Absorbable
  <2>4. CASE FinishTask
    <3>1. After[stage] \in Stage
      BY <2>4, AfterType DEF FinishTask, Stage
    <3> QED BY <2>4, <3>1, <1>e, <1>r, <1>v DEF FinishTask
  <2>5. CASE FinishOrphans
    <3>1. After[stage] \in Stage /\ cur = NoKey
      BY <2>5, AfterType DEF FinishOrphans, Stage, BandInv
    <3> QED BY <2>5, <3>1, <1>e, <1>r, <1>v DEF FinishOrphans
  <2>6. ASSUME NEW k \in Keys, AiRead(k) PROVE BandInv'
    BY <2>6 DEF AiRead, BandInv, AutomationInBand, AiBand, Absorbable
  <2>7. ASSUME NEW k \in Keys, AbsorbTake(k) PROVE BandInv'
    BY <2>7 DEF AbsorbTake, BandInv, AutomationInBand, AiBand, Absorbable
  <2>8. ASSUME NEW k \in Keys, DedupPropose(k) \/ ProposeLink(k) PROVE BandInv'
    BY <2>8, <1>r, <1>c DEF DedupPropose, ProposeLink, CreateProposal, TypeOK
  <2>9. ASSUME NEW k \in Keys, CreateOrphanRow(k) PROVE BandInv'
    <3>1. AutomationInBand'
      BY <2>9, <1>r DEF CreateOrphanRow, CreateProposal, TypeOK
    <3> QED BY <2>9, <3>1 DEF CreateOrphanRow, BandInv, AiBand, Absorbable
  <2>10. ASSUME NEW answer \in {"accepted", "rejected"}, AiDecide(answer) PROVE BandInv'
    <3>1. stage = "ai" /\ verdict' = "accepted" => Similarity[cur] >= AiFloor
      <4>1. cur \in Keys /\ Similarity[cur] \in 0..100
        BY <2>10, ScoresAssumption DEF AiDecide, Holding
      <4> QED BY <2>10, <4>1 DEF AiDecide, AiFloor
    <3> QED BY <2>10, <3>1 DEF AiDecide, BandInv, AutomationInBand, AiBand, Absorbable
  <2>11. ASSUME NEW e \in Effect, DaemonEffect(e) PROVE BandInv'
    BY <2>11, <1>s DEF DaemonEffect
  <2>12. ASSUME NEW E \in SUBSET Stale, Expire(E) PROVE BandInv'
    <3>1. After[stage] = "propose" /\ cur = NoKey
      BY <2>12 DEF Expire, After, BandInv
    <3>2. AutomationInBand'
      BY <2>12, <1>r DEF Expire
    <3> QED BY <2>12, <3>1, <3>2, <1>e, <1>v DEF Expire, Stage
  <2>13. ASSUME NEW S \in SUBSET OrphanCandidates, DetectOrphans(S) PROVE BandInv'
    <3>1. After[stage] \in Stage /\ cur = NoKey
      BY <2>13, AfterType DEF DetectOrphans, Stage, BandInv
    <3> QED BY <2>13, <3>1, <1>e, <1>r, <1>v DEF DetectOrphans
  <2>14. ASSUME NEW window \in SUBSET Obs, NEW reached \in SUBSET window,
                NEW found \in SUBSET reached,
                SearchOrphans(window, reached, found)
         PROVE  BandInv'
    <3>1. cur = NoKey
      BY <2>14 DEF SearchOrphans, BandInv
    <3> QED BY <2>14, <3>1, <1>v DEF SearchOrphans, BandInv, AutomationInBand, AiBand, Absorbable
  <2> QED BY <1>1, <2>1, <2>2, <2>3, <2>4, <2>5, <2>6, <2>7, <2>8, <2>9, <2>10, <2>11, <2>12,
             <2>13, <2>14 DEF Night
<1>2. CASE NightFault
  <2>1. CASE RowFails
    BY <2>1 DEF RowFails, PutDown, BandInv, AutomationInBand, AiBand, Absorbable
  <2>2. CASE TaskFails
    <3>1. After[stage] \in Stage
      BY <2>2, AfterType DEF TaskFails, Stage, TypeOK
    <3>2. Enter(After[stage]) /\ cur' = NoKey /\ verdict' = "none" /\ UNCHANGED <<row, reviewer>>
      BY <2>2, <1>v DEF TaskFails
    <3>3. AutomationInBand'
      BY <3>2, <1>r
    <3> QED BY <3>1, <3>2, <3>3, <1>e
  <2>3. CASE NightKilled
    BY <2>3 DEF NightKilled, PutDown, BandInv, AutomationInBand, AiBand, Absorbable
  <2> QED BY <1>2, <2>1, <2>2, <2>3 DEF NightFault
<1>3. ASSUME NEW c \in Callers, Call(c) PROVE BandInv'
  <2>1. CASE CallerReview(c)
    BY <2>1, <1>r, <1>c DEF CallerReview, ReviewProposal, Holding, TypeOK
  <2>2. CASE ~CallerReview(c)
    BY <1>3, <2>2, <1>s DEF Call, CallerRead, CallerBegin, CallerDeclines,
                            CallerFindsNothing, CallerMisread, CallerFails, CallerEffect
  <2> QED BY <2>1, <2>2
<1>4. ASSUME NEW ed \in Editors, Edit(ed) PROVE BandInv'
  BY <1>4, <1>s DEF Edit, DeleteObservation, ReadLinks, WriteLinks
<1>5. CASE UNCHANGED vars
  BY <1>5, <1>s DEF vars
<1> QED BY <1>1, <1>2, <1>3, <1>4, <1>5 DEF Next

LEMMA BandInit == Init => BandInv
  BY KeyFields DEF Init, BandInv, AutomationInBand

\* Absorption and the AI reviewer settle only rows of their bands, and the model
\* never gets a row accepted below the similarity floor, however the listed rows
\* age while other actors work on them.
THEOREM AutomationSafety == Spec => []AutomationInBand
<1>1. Init => BandInv
  BY BandInit
<1>2. TypeOK /\ Holding /\ BandInv /\ [Next]_vars => BandInv'
  BY BandNext
<1>3. BandInv => AutomationInBand
  BY DEF BandInv
<1> QED BY <1>1, <1>2, <1>3, TypeCorrect, PTL DEF Spec

-----------------------------------------------------------------------------
\* A daemon acceptance has its effects, as long as no mind_edit delete rewrites
\* the link table.

LEMMA LinksGrow ==
  ASSUME TypeOK, Editors = {}, [Next]_vars
  PROVE  links \subseteq links'
<1> USE DEF tables
<1>1. CASE Night
  BY <1>1 DEF Night, StartCycle, AiSkip, DaemonMisread, DaemonReview, FinishTask, FinishOrphans,
              AiRead,
              AbsorbTake, DedupPropose, ProposeLink, CreateOrphanRow, AiDecide, DaemonEffect,
              ApplyEffect, Expire, DetectOrphans, SearchOrphans
<1>2. CASE NightFault
  BY <1>2 DEF NightFault, RowFails, TaskFails, NightKilled
<1>3. ASSUME NEW c \in Callers, Call(c) PROVE links \subseteq links'
  BY <1>3 DEF Call, CallerRead, CallerReview, CallerBegin, CallerDeclines,
              CallerFindsNothing, CallerMisread, CallerFails, CallerEffect, ApplyEffect
<1>4. CASE UNCHANGED vars
  BY <1>4 DEF vars
<1> QED BY <1>1, <1>2, <1>3, <1>4 DEF Next

\* The orphan of an orphan_rescue row in hand is out of the queue for good once it left.
LEMMA StaysOut ==
  ASSUME OrphanRowsEarned, OnlyForward, NEW k \in Keys, k.type = "orphan_rescue",
         Engaged(k), ostat[k.source] # "orphaned"
  PROVE  ostat'[k.source] # "orphaned"
  BY KeyFields DEF OrphanRowsEarned, OnlyForward

LEMMA EffectsStay ==
  ASSUME OrphanRowsEarned, OnlyForward, links \subseteq links', NEW k \in Keys,
         Engaged(k), EffectsInPlace(k)
  PROVE  EffectsInPlace(k)'
<1>1. "orphan" \in Effects(k) => k.type = "orphan_rescue"
  BY DEF Effects, IsArchive, IsRescue
<1> QED BY <1>1, StaysOut DEF EffectsInPlace

\* A row becomes accepted by the daemon only when its last effect is written.
LEMMA AcceptanceNext ==
  ASSUME TypeOK, Holding, OrphanRowsEarned, BackedInv, Editors = {}, [Next]_vars
  PROVE  DaemonAcceptanceBacked'
<1> USE DEF tables
<1>1. OnlyForward /\ links \subseteq links'
  BY Forward, LinksGrow
<1>2. ASSUME \A k \in Keys : row'[k] = "accepted" /\ reviewer'[k] \in {"absorb", "ai"} =>
               row[k] = "accepted" /\ reviewer[k] \in {"absorb", "ai"}
      PROVE  DaemonAcceptanceBacked'
  BY <1>1, <1>2, EffectsStay DEF BackedInv, DaemonAcceptanceBacked, Engaged
<1>3. CASE DaemonReview
  <2>1. /\ cur \in Keys /\ todo = {} /\ UNCHANGED <<links, ostat>>
        /\ row' = [row EXCEPT ![cur] = verdict]
        /\ \A k \in Keys : k # cur => reviewer'[k] = reviewer[k]
    BY <1>3 DEF DaemonReview, ReadyToReview, ReviewProposal, Holding, TypeOK
  <2>2. verdict = "accepted" => EffectsInPlace(cur)
    BY <2>1 DEF BackedInv, HandProgress, EffectsInPlace, Effects
  <2>3. \A k \in Keys : EffectsInPlace(k) => EffectsInPlace(k)'
    BY <2>1 DEF EffectsInPlace
  <2>4. ASSUME NEW k \in Keys, row'[k] = "accepted", reviewer'[k] \in {"absorb", "ai"}
        PROVE  EffectsInPlace(k)
    <3>1. CASE k = cur
      BY <2>1, <2>2, <2>4, <3>1 DEF TypeOK
    <3>2. CASE k # cur
      BY <2>1, <2>4, <3>2 DEF BackedInv, DaemonAcceptanceBacked, TypeOK
    <3> QED BY <3>1, <3>2
  <2> QED BY <2>3, <2>4 DEF DaemonAcceptanceBacked
<1>4. CASE Night /\ ~DaemonReview
  BY <1>2, <1>4 DEF Night, StartCycle, AiSkip, DaemonMisread, FinishTask, FinishOrphans, AiRead,
                    AbsorbTake,
                    DedupPropose, ProposeLink, CreateOrphanRow, CreateProposal, AiDecide,
                    DaemonEffect, Expire, DetectOrphans, SearchOrphans, TypeOK
<1>5. CASE NightFault
  BY <1>2, <1>5 DEF NightFault, RowFails, TaskFails, NightKilled
<1>6. ASSUME NEW c \in Callers, Call(c) PROVE DaemonAcceptanceBacked'
  BY <1>2, <1>6 DEF Call, CallerRead, CallerReview, ReviewProposal, CallerBegin, CallerDeclines,
                    CallerFindsNothing, CallerMisread, CallerFails, CallerEffect, Holding, TypeOK
<1>7. CASE UNCHANGED vars
  BY <1>2, <1>7 DEF vars
<1> QED BY <1>3, <1>4, <1>5, <1>6, <1>7 DEF Next

LEMMA ApplyDone ==
  ASSUME TypeOK, NEW k \in Keys, NEW e, ApplyEffect(e, k)
  PROVE  /\ e = "forward" => <<k.source, k.target>> \in links'
         /\ e = "reverse" => <<k.target, k.source>> \in links'
         /\ e = "orphan" => ostat'[k.source] # "orphaned"
  BY KeyFields DEF ApplyEffect, TypeOK

LEMMA HandNext ==
  ASSUME TypeOK, Holding, OrphanRowsEarned, NightTexture, BackedInv, Editors = {}, [Next]_vars
  PROVE  HandProgress'
<1> USE DEF tables, night, HandProgress
<1>1. OnlyForward /\ links \subseteq links'
  BY Forward, LinksGrow
<1>2. verdict = "accepted" => cur \in Keys /\ Engaged(cur)
  BY DEF Holding, Engaged
<1>3. \A k \in Keys : "orphan" \in Effects(k) => k.type = "orphan_rescue"
  BY DEF Effects, IsArchive, IsRescue
<1>s. ASSUME UNCHANGED <<cur, verdict, todo>> PROVE HandProgress'
  <2>1. verdict = "accepted" /\ "orphan" \in Effects(cur) \ todo => ostat'[cur.source] # "orphaned"
    BY <1>1, <1>2, <1>3, StaysOut DEF BackedInv
  <2> QED BY <1>s, <1>1, <2>1 DEF BackedInv
<1>n. ASSUME verdict' # "accepted" PROVE HandProgress'
  BY <1>n
<1>4. ASSUME NEW e \in Effect, DaemonEffect(e) PROVE HandProgress'
  <2>1. /\ verdict = "accepted" /\ cur \in Keys /\ todo' = todo \ {e} /\ UNCHANGED <<cur, verdict>>
        /\ ApplyEffect(e, cur)
    BY <1>4, <1>2 DEF DaemonEffect, DaemonMayDo, NightTexture
  <2>2. "orphan" \in Effects(cur) \ todo => ostat'[cur.source] # "orphaned"
    BY <2>1, <1>1, <1>2, <1>3, StaysOut DEF BackedInv
  <2> QED BY <2>1, <2>2, <1>1, ApplyDone DEF BackedInv
<1>5. ASSUME NEW k \in Keys, AiRead(k) \/ AbsorbTake(k) PROVE HandProgress'
  BY <1>5 DEF AiRead, AbsorbTake
<1>6. ASSUME NEW answer \in {"accepted", "rejected"}, AiDecide(answer) PROVE HandProgress'
  BY <1>6 DEF AiDecide
<1>7. CASE AiSkip \/ DaemonReview
  BY <1>7, <1>n DEF AiSkip, DaemonReview, PutDown
<1>12. CASE DaemonMisread
  <2>1. verdict = "accepted" /\ "orphan" \in Effects(cur) \ todo => ostat'[cur.source] # "orphaned"
    BY <1>1, <1>2, <1>3, StaysOut DEF BackedInv
  <2> QED BY <1>12, <2>1 DEF DaemonMisread, BackedInv
<1>8. CASE /\ Night /\ ~AiSkip /\ ~DaemonReview /\ ~DaemonMisread
           /\ \A k \in Keys : ~AiRead(k) /\ ~AbsorbTake(k)
           /\ \A answer \in {"accepted", "rejected"} : ~AiDecide(answer)
           /\ \A e \in Effect : ~DaemonEffect(e)
  BY <1>8, <1>s DEF Night, StartCycle, FinishTask, FinishOrphans, DedupPropose, ProposeLink,
                    CreateOrphanRow, Expire, DetectOrphans, SearchOrphans
<1>9. CASE NightFault
  BY <1>9, <1>n, <1>s DEF NightFault, RowFails, TaskFails, NightKilled, PutDown
<1>10. ASSUME NEW c \in Callers, Call(c) PROVE HandProgress'
  BY <1>10, <1>s DEF Call, CallerRead, CallerReview, CallerBegin, CallerDeclines,
                     CallerFindsNothing, CallerMisread, CallerFails, CallerEffect
<1>11. CASE UNCHANGED vars
  BY <1>11, <1>s DEF vars
<1> QED BY <1>4, <1>5, <1>6, <1>7, <1>8, <1>9, <1>10, <1>11, <1>12 DEF Next

LEMMA BackedInit == Init => BackedInv
  BY DEF Init, BackedInv, DaemonAcceptanceBacked, HandProgress

\* Without mind_edit deletes, whatever absorption or the AI reviewer marked
\* accepted has both its links and its orphan out of the queue, wherever nights
\* were killed and whatever mind_propose calls did meanwhile.
THEOREM DaemonSafety == Editors = {} /\ Spec => []DaemonAcceptanceBacked
<1>1. Init => OrphanInv /\ BackedInv
  BY OrphanInvInit, BackedInit
<1>2. TypeOK /\ Holding /\ OrphanInv /\ [Next]_vars => OrphanInv'
  BY OrphanInvNext
<1>3. ASSUME Editors = {}
      PROVE  TypeOK /\ Holding /\ OrphanInv /\ BackedInv /\ [Next]_vars => BackedInv'
  BY <1>3, AcceptanceNext, HandNext DEF BackedInv, OrphanInv, TextureProgress
<1>4. BackedInv => DaemonAcceptanceBacked
  BY DEF BackedInv
<1>5. CASE Editors = {}
  BY <1>1, <1>2, <1>3, <1>4, <1>5, TypeCorrect, PTL DEF Spec
<1>6. CASE Editors # {}
  BY <1>6
<1> QED BY <1>5, <1>6

-----------------------------------------------------------------------------
\* Decisions survive, and tombstones with one review call at a time.

\* How a step may change a row: creation, expiry, or a review of the row in hand.
LEMMA RowStep ==
  ASSUME TypeOK, Holding, [Next]_vars, NEW k \in Keys, row'[k] # row[k]
  PROVE  \/ row[k] = "none" /\ row'[k] = "pending"
         \/ row[k] = "pending" /\ row'[k] = "none" /\ k.type \in Expirable
         \/ row'[k] \in {"accepted", "rejected"} /\ cur = k
         \/ /\ row'[k] \in {"accepted", "rejected"}
            /\ \E c \in Callers : pc[c] = "read" /\ held[c] = k /\ pc'[c] # "read"
<1> USE DEF tables, TypeOK
<1>1. CASE Night
  <2>1. CASE DaemonReview
    BY <2>1 DEF DaemonReview, ReadyToReview, ReviewProposal, Holding
  <2>2. ASSUME NEW j \in Keys, DedupPropose(j) \/ ProposeLink(j) \/ CreateOrphanRow(j)
        PROVE  row[k] = "none" /\ row'[k] = "pending"
    BY <2>2 DEF DedupPropose, ProposeLink, CreateOrphanRow, CreateProposal
  <2>3. ASSUME NEW E \in SUBSET Stale, Expire(E)
        PROVE  row[k] = "pending" /\ row'[k] = "none" /\ k.type \in Expirable
    BY <2>3 DEF Expire, Stale, Pending
  <2>4. ASSUME NEW j \in Keys, AiRead(j) \/ AbsorbTake(j) PROVE FALSE
    BY <2>4 DEF AiRead, AbsorbTake
  <2>5. ASSUME NEW answer \in {"accepted", "rejected"}, AiDecide(answer) PROVE FALSE
    BY <2>5 DEF AiDecide
  <2>6. ASSUME NEW e \in Effect, DaemonEffect(e) PROVE FALSE
    BY <2>6 DEF DaemonEffect
  <2>7. ASSUME NEW S \in SUBSET OrphanCandidates, DetectOrphans(S) PROVE FALSE
    BY <2>7 DEF DetectOrphans
  <2>8. ASSUME NEW window \in SUBSET Obs, NEW reached \in SUBSET window,
               NEW found \in SUBSET reached,
               SearchOrphans(window, reached, found)
        PROVE  FALSE
    BY <2>8 DEF SearchOrphans
  <2>9. CASE StartCycle \/ AiSkip \/ DaemonMisread \/ FinishTask \/ FinishOrphans
    BY <2>9 DEF StartCycle, AiSkip, DaemonMisread, FinishTask, FinishOrphans
  <2> QED BY <1>1, <2>1, <2>2, <2>3, <2>4, <2>5, <2>6, <2>7, <2>8, <2>9 DEF Night
<1>2. CASE NightFault
  BY <1>2 DEF NightFault, RowFails, TaskFails, NightKilled
<1>3. ASSUME NEW c \in Callers, Call(c)
      PROVE  /\ row'[k] \in {"accepted", "rejected"}
             /\ pc[c] = "read" /\ held[c] = k /\ pc'[c] # "read"
  BY <1>3 DEF Call, CallerRead, CallerReview, ReviewProposal, HangUp, CallerBegin,
              CallerDeclines, CallerFindsNothing, CallerMisread, CallerFails, CallerEffect, Holding
<1>4. ASSUME NEW ed \in Editors, Edit(ed) PROVE FALSE
  BY <1>4 DEF Edit, DeleteObservation, ReadLinks, WriteLinks
<1>5. CASE UNCHANGED vars
  BY <1>5 DEF vars
<1> QED BY <1>1, <1>2, <1>3, <1>4, <1>5 DEF Next

\* A settled proposal is never pending again and never deleted, and judgment
\* rows are never deleted at all, under every interleaving.
THEOREM DecisionsDurable == Spec => DecisionsSurvive
<1>1. TypeOK /\ Holding /\ [Next]_vars => DecisionKept
  <2> SUFFICES ASSUME TypeOK, Holding, [Next]_vars, NEW k \in Keys
               PROVE  /\ row[k] \in {"accepted", "rejected"} => row'[k] \in {"accepted", "rejected"}
                      /\ k.type \notin Expirable /\ row[k] # "none" => row'[k] # "none"
    BY DEF DecisionKept
  <2>1. CASE row'[k] = row[k]
    BY <2>1
  <2>2. CASE row'[k] # row[k]
    BY <2>2, RowStep
  <2> QED BY <2>1, <2>2
<1> QED BY <1>1, TypeCorrect, PTL DEF Spec, DecisionsSurvive

\* Whoever holds a row it read, held it before or has just read it as pending.
LEMMA ReadStep ==
  ASSUME TypeOK, [Next]_vars, NEW c \in Callers, pc'[c] = "read"
  PROVE  (pc[c] = "read" /\ held'[c] = held[c]) \/ row[held'[c]] = "pending"
<1> USE DEF calls, TypeOK
<1>1. CASE Night
  <2>1. ASSUME NEW E \in SUBSET Stale, Expire(E) PROVE pc[c] = "read" /\ held'[c] = held[c]
    BY <2>1 DEF Expire
  <2>2. CASE UNCHANGED <<pc, held>>
    BY <2>2
  <2> QED
    BY <1>1, <2>1, <2>2
    DEF Night, StartCycle, AiRead, AiDecide, AiSkip, DaemonMisread, AbsorbTake, DaemonEffect,
        DaemonReview,
        DedupPropose, ProposeLink, FinishTask, DetectOrphans, SearchOrphans,
        CreateOrphanRow, FinishOrphans
<1>2. CASE NightFault
  BY <1>2 DEF NightFault, RowFails, TaskFails, NightKilled
<1>3. ASSUME NEW d \in Callers, Call(d)
      PROVE  (pc[c] = "read" /\ held'[c] = held[c]) \/ row[held'[c]] = "pending"
  <2>1. ASSUME NEW k \in Keys, NEW x \in {"accepted", "rejected"}, CallerRead(d, k, x)
        PROVE  (pc[c] = "read" /\ held'[c] = held[c]) \/ row[held'[c]] = "pending"
    BY <2>1 DEF CallerRead
  <2>2. ASSUME NEW e \in Effect, CallerEffect(d, e)
        PROVE  pc[c] = "read" /\ held'[c] = held[c]
    BY <2>2 DEF CallerEffect, HangUp
  <2>3. ASSUME CallerReview(d) \/ CallerBegin(d) \/ CallerDeclines(d)
                 \/ CallerFindsNothing(d) \/ CallerMisread(d) \/ CallerFails(d)
        PROVE  pc[c] = "read" /\ held'[c] = held[c]
    BY <2>3 DEF CallerReview, CallerBegin, CallerDeclines, CallerFindsNothing, CallerMisread,
                CallerFails,
                HangUp
  <2> QED BY <1>3, <2>1, <2>2, <2>3 DEF Call
<1>4. ASSUME NEW ed \in Editors, Edit(ed) PROVE pc[c] = "read" /\ held'[c] = held[c]
  BY <1>4 DEF Edit, DeleteObservation, ReadLinks, WriteLinks
<1>5. CASE UNCHANGED vars
  BY <1>5 DEF vars
<1> QED BY <1>1, <1>2, <1>3, <1>4, <1>5 DEF Next

LEMMA JudgmentNext ==
  ASSUME TypeOK, Holding, BandInv, JudgmentHeld, OneCall, [Next]_vars
  PROVE  JudgmentHeld' /\ TombstoneKept
<1>1. \A k \in Keys : AiBand(k) \/ Absorbable(k) => k.type \in Expirable
  BY DEF AiBand, Absorbable, IsRescue, IsArchive, Expirable
<1>2. \A k \in Keys : k.type \notin Expirable => cur # k
  BY <1>1, KeyFields DEF BandInv
<1>3. ASSUME NEW k \in Keys, k.type \notin Expirable, row'[k] # row[k], row[k] # "none"
      PROVE  \E c \in Callers : pc[c] = "read" /\ held[c] = k /\ pc'[c] # "read"
  BY <1>2, <1>3, RowStep
<1>4. TombstoneKept
  BY <1>3 DEF TombstoneKept, JudgmentHeld
<1>5. ASSUME NEW c \in Callers, pc'[c] = "read", held'[c].type \notin Expirable
      PROVE  row'[held'[c]] = "pending"
  <2>1. row[held'[c]] = "pending"
    BY <1>5, ReadStep DEF JudgmentHeld
  <2>2. TypeOK' /\ Holding' /\ held'[c] \in Keys
    <3>1. TypeOK' /\ Holding'
      BY NextTypes
    <3> QED BY <1>5, <3>1 DEF TypeOK, Holding
  <2> QED BY <1>3, <1>5, <2>1, <2>2 DEF OneCall
<1> QED BY <1>4, <1>5 DEF JudgmentHeld

\* With one mind_propose call at a time the tombstone of types.ts is permanent:
\* only the unguarded race of two calls can reopen it.
THEOREM OneCallTombstones == OneCall /\ Spec => TombstonesPermanent
<1>1. Init => JudgmentHeld
  BY DEF Init, JudgmentHeld
<1>2. ASSUME OneCall
      PROVE  TypeOK /\ Holding /\ BandInv /\ JudgmentHeld /\ [Next]_vars
               => JudgmentHeld' /\ TombstoneKept
  BY <1>2, JudgmentNext
<1>3. Init => BandInv
  BY BandInit
<1>4. TypeOK /\ Holding /\ BandInv /\ [Next]_vars => BandInv'
  BY BandNext
<1>5. CASE OneCall
  BY <1>1, <1>2, <1>3, <1>4, <1>5, TypeCorrect, PTL DEF Spec, TombstonesPermanent
<1>6. CASE ~OneCall
  BY <1>6
<1> QED BY <1>5, <1>6

-----------------------------------------------------------------------------
\* Rescues of the daemon alone.

RescuedIsLinked == \A o \in Obs : ostat[o] = "rescued" => HasLink(o)

LEMMA RescuedNext ==
  ASSUME TypeOK, Holding, OrphanInv, BackedInv, RescuedIsLinked,
         Callers = {}, Editors = {}, [Next]_vars
  PROVE  RescuedIsLinked'
<1> USE DEF tables
<1>1. links \subseteq links'
  BY LinksGrow
<1>2. \A o \in Obs : HasLink(o) => HasLink(o)'
  BY <1>1 DEF HasLink, Touches
<1>3. ASSUME \A o \in Obs : ostat'[o] = "rescued" => ostat[o] = "rescued"
      PROVE  RescuedIsLinked'
  BY <1>2, <1>3 DEF RescuedIsLinked
<1>4. ASSUME NEW e \in Effect, DaemonEffect(e) PROVE RescuedIsLinked'
  <2>1. cur \in Keys /\ verdict = "accepted" /\ ApplyEffect(e, cur) /\ e \in todo
    BY <1>4 DEF DaemonEffect, DaemonMayDo, Holding, OrphanInv, TextureProgress, NightTexture
  <2>2. CASE e = "orphan" /\ IsRescue(cur)
    <3>1. todo = {"orphan"}
      BY <1>4, <2>2 DEF DaemonEffect, DaemonMayDo
    <3>2. "forward" \in Effects(cur) \ todo
      BY <2>2, <3>1 DEF Effects, IsRescue, IsArchive
    <3>3. <<cur.source, cur.target>> \in links
      BY <2>1, <3>2 DEF BackedInv, HandProgress
    <3>4. HasLink(cur.source)
      <4>1. Touches(<<cur.source, cur.target>>, cur.source)
        BY DEF Touches
      <4> QED BY <3>3, <4>1 DEF HasLink
    <3>5. \A o \in Obs : o # cur.source => ostat'[o] = ostat[o]
      BY <2>1 DEF ApplyEffect, TypeOK
    <3> QED BY <1>2, <2>1, <3>4, <3>5, KeyFields DEF RescuedIsLinked
  <2>3. CASE ~(e = "orphan" /\ IsRescue(cur))
    <3>1. e = "orphan" => IsArchive(cur)
      BY <2>1, <2>3, KeyFields
      DEF OrphanInv, TextureProgress, NightTexture, Effects, IsArchive, IsRescue
    <3> QED BY <1>3, <2>1, <3>1 DEF ApplyEffect, TypeOK
  <2> QED BY <2>2, <2>3
<1>5. ASSUME NEW S \in SUBSET OrphanCandidates, DetectOrphans(S) PROVE RescuedIsLinked'
  BY <1>3, <1>5 DEF DetectOrphans, MarkOrphans, TypeOK
<1>6. CASE /\ Night /\ \A e \in Effect : ~DaemonEffect(e)
           /\ \A S \in SUBSET OrphanCandidates : ~DetectOrphans(S)
  BY <1>3, <1>6 DEF Night, StartCycle, AiSkip, DaemonMisread, DaemonReview, FinishTask,
                    FinishOrphans, AiRead,
                    AbsorbTake, DedupPropose, ProposeLink, CreateOrphanRow, AiDecide, Expire,
                    SearchOrphans
<1>7. CASE NightFault
  BY <1>3, <1>7 DEF NightFault, RowFails, TaskFails, NightKilled
<1>8. CASE UNCHANGED vars
  BY <1>3, <1>8 DEF vars
<1> QED BY <1>4, <1>5, <1>6, <1>7, <1>8 DEF Next

\* With the daemon alone, killed and failing anywhere but in a swallowed read, no orphan leaves the
\* rescue queue without what it left for: a link in place, or the metabolized phase.
THEOREM QuietExits ==
  Callers = {} /\ Editors = {} /\ ~Misreads /\ Spec => []OrphanExitComplete
<1>1. Init => OrphanInv /\ BackedInv /\ RescuedIsLinked
  BY OrphanInvInit, BackedInit DEF Init, RescuedIsLinked
<1>2. TypeOK /\ Holding /\ OrphanInv /\ [Next]_vars => OrphanInv'
  BY OrphanInvNext
<1>3. ASSUME Callers = {}, Editors = {}
      PROVE  TypeOK /\ Holding /\ OrphanInv /\ BackedInv /\ RescuedIsLinked /\ [Next]_vars
               => BackedInv' /\ RescuedIsLinked'
  BY <1>3, AcceptanceNext, HandNext, RescuedNext DEF BackedInv, OrphanInv, TextureProgress
<1>4. ASSUME ~Misreads PROVE OrphanInv /\ RescuedIsLinked => OrphanExitComplete
  BY <1>4 DEF OrphanInv, ArchivedDone, RescuedIsLinked, OrphanExitComplete
<1>5. CASE Callers = {} /\ Editors = {} /\ ~Misreads
  BY <1>1, <1>2, <1>3, <1>4, <1>5, TypeCorrect, PTL DEF Spec
<1>6. CASE ~(Callers = {} /\ Editors = {} /\ ~Misreads)
  BY <1>6
<1> QED BY <1>5, <1>6
=============================================================================
