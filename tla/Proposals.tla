------------------------------ MODULE Proposals ------------------------------
(***************************************************************************)
(* The proposal ledger of one tenant on the Postgres backend: the nightly  *)
(* daemon proposes links, rescues, archivals and dedups, and three kinds   *)
(* of reviewer settle them, each with its own order of writes:             *)
(*                                                                         *)
(*   - auto-absorption and the AI reviewer write the effects of an         *)
(*     acceptance first and the row last;                                  *)
(*   - a mind_propose call writes the row first and the effects last.      *)
(*                                                                         *)
(* Nothing serialises them: reviewProposal has no status guard, effects    *)
(* are single statements, and a mind_edit delete rewrites the link table   *)
(* from a snapshot.  A step of this module is one database call.           *)
(***************************************************************************)
EXTENDS Integers, FiniteSets

CONSTANTS
  Obs,          \* observations the tenant starts with
  Keys,         \* proposals the embeddings make possible, see KeysAssumption
  NoKey,        \* "no proposal"
  Similarity,   \* percent, per key: fixed by the two embeddings
  Confidence,   \* percent, per key: similarity plus the charge bonus
  Created,      \* creation rank of an observation
  Callers,      \* mind_propose review calls that may be in flight
  Editors,      \* mind_edit delete calls that may be in flight
  LinkThreshold,  \* daemon_config.link_proposal_threshold, percent
  DetectLimit,  \* orphans marked per steady night (backlog nights mark none)
  RescueLimit,  \* orphans listed per night
  ListLimit,    \* rows listProposals returns at most
  MaxFaults,    \* bound on failed calls and killed nights in a behaviour
  Misreads      \* may a read swallow a failed query and report "nothing found"?

LinkAbsorb   == 92    \* LINK_CONFIDENCE_THRESHOLD
RescueAbsorb == 90    \* ORPHAN_RESCUE_CONFIDENCE_THRESHOLD
AiFloor      == 60    \* MIN_SIMILARITY_FOR_AI_ACCEPT
MaxSteady    == 3     \* MAX_RESCUE_ATTEMPTS_STEADY
MaxBacklog   == 1     \* MAX_RESCUE_ATTEMPTS_BACKLOG

\* One row per (type, source, target): the unique index idx_proposals_dedup.
\* An orphan_rescue whose source is its target carries action "archive".
Types     == {"link", "orphan_rescue", "dedup"}
Expirable == {"link", "orphan_rescue"}
IsArchive(k) == k.type = "orphan_rescue" /\ k.source = k.target
IsRescue(k)  == k.type = "orphan_rescue" /\ k.source # k.target

ASSUME KeysAssumption ==
  /\ Keys \subseteq [type : Types, source : Obs, target : Obs]
  /\ \A k \in Keys : k.type # "orphan_rescue" => k.source # k.target
  /\ NoKey \notin Keys
ASSUME ScoresAssumption ==
  /\ Similarity \in [Keys -> 0..100] /\ Confidence \in [Keys -> 0..100]
  /\ Created \in [Obs -> Nat]
ASSUME LimitsAssumption ==
  /\ LinkThreshold \in Nat /\ DetectLimit \in Nat /\ RescueLimit \in Nat /\ ListLimit \in Nat
  /\ MaxFaults \in Nat
  /\ Misreads \in BOOLEAN

VARIABLES
  obs, metab, links,      \* live observations, metabolized ones, directed link pairs
  ostat, attempts,        \* orphan_observations: status and rescue_attempts
  searched,               \* history: vector searches made for an orphan
  row, reviewer,          \* daemon_proposals: status, and who reviewed it last
  older,                  \* proposed_at: the pending rows proposed before a pending row
  stage, backlog, queue,  \* the night: running task, mode, rows still to handle
  cur, verdict, todo,     \* the row in hand, its outcome, effects still to write
  attempted,              \* orphans whose vector search ran tonight
  pc, held, decision, owed,  \* mind_propose calls
  epc, victim, snapshot,     \* mind_edit delete calls
  faults

tables == <<obs, metab, links, ostat, attempts, searched, row, older, reviewer>>
night  == <<stage, backlog, queue, cur, verdict, todo, attempted>>
calls  == <<pc, held, decision, owed>>
edits  == <<epc, victim, snapshot>>
vars   == <<tables, night, calls, edits, faults>>

Effect == {"forward", "reverse", "texture", "orphan"}
Stage  == {"idle", "ai", "dedup", "expire", "propose", "absorb", "detect",
           "rescue", "create", "absorb2"}

TypeOK ==
  /\ obs \subseteq Obs /\ metab \subseteq Obs /\ links \subseteq Obs \X Obs
  /\ ostat \in [Obs -> {"none", "orphaned", "rescued", "archived"}]
  /\ attempts \in [Obs -> Nat] /\ searched \in [Obs -> Nat]
  /\ row \in [Keys -> {"none", "pending", "accepted", "rejected"}]
  /\ reviewer \in [Keys -> {"none", "human", "absorb", "ai"}]
  /\ older \in [Keys -> SUBSET Keys]
  /\ stage \in Stage /\ backlog \in BOOLEAN
  /\ queue \subseteq Keys /\ cur \in Keys \cup {NoKey}
  /\ verdict \in {"none", "asked", "accepted", "rejected"}
  /\ todo \subseteq Effect /\ attempted \subseteq Obs
  /\ pc \in [Callers -> {"idle", "read", "gone", "reviewed", "acting"}]
  /\ held \in [Callers -> Keys \cup {NoKey}]
  /\ decision \in [Callers -> {"accepted", "rejected"}]
  /\ owed \in [Callers -> SUBSET Effect]
  /\ epc \in [Editors -> {"idle", "deleted", "read"}]
  /\ victim \in [Editors -> Obs \cup {NoKey}]
  /\ snapshot \in [Editors -> SUBSET (Obs \X Obs)]
  /\ faults \in 0..MaxFaults

Init ==
  /\ obs = Obs /\ metab = {} /\ links = {}
  /\ ostat = [o \in Obs |-> "none"] /\ attempts = [o \in Obs |-> 0] /\ searched = attempts
  /\ row = [k \in Keys |-> "none"] /\ reviewer = [k \in Keys |-> "none"]
  /\ older = [k \in Keys |-> {}]
  /\ stage = "idle" /\ backlog = FALSE
  /\ queue = {} /\ cur = NoKey /\ verdict = "none" /\ todo = {} /\ attempted = {}
  /\ pc = [c \in Callers |-> "idle"] /\ held = [c \in Callers |-> NoKey]
  /\ decision = [c \in Callers |-> "rejected"] /\ owed = [c \in Callers |-> {}]
  /\ epc = [e \in Editors |-> "idle"] /\ victim = [e \in Editors |-> NoKey]
  /\ snapshot = [e \in Editors |-> {}]
  /\ faults = 0

-----------------------------------------------------------------------------
\* What the storage calls return and write.

Pending       == {k \in Keys : row[k] = "pending"}
Alive(k)      == k.source \in obs /\ k.target \in obs
Touches(l, o) == l[1] = o \/ l[2] = o
Linked(a, b)  == <<a, b>> \in links \/ <<b, a>> \in links
HasLink(o)    == \E l \in links : Touches(l, o)

\* findSimilarUnlinked(source): the source keeps its embedding, the target is
\* live, not linked to it either way, and no pending row of any type already
\* goes from the source to the target.
Unclaimed(k) ==
  /\ Alive(k) /\ ~Linked(k.source, k.target)
  /\ \A p \in Pending : ~(p.source = k.source /\ p.target = k.target)

\* Rows that are pending no more.
Settled(E) == [p \in Keys |-> IF p \in E THEN {} ELSE older[p] \ E]

\* createProposal: ON CONFLICT DO NOTHING, whatever the status of the old row.
CreateProposal(k) ==
  /\ row' = [row EXCEPT ![k] = IF @ = "none" THEN "pending" ELSE @]
  /\ older' = [older EXCEPT ![k] = IF row[k] = "none" THEN Pending ELSE @]

\* reviewProposal: an UPDATE by id, whatever the current status.
ReviewProposal(k, status, who) ==
  /\ row' = [row EXCEPT ![k] = status]
  /\ reviewer' = [reviewer EXCEPT ![k] = who]
  /\ older' = Settled({k})

\* expireStaleProposals: the rows it may delete (their age is not modelled).
\* (Slip: the DELETE without its status condition.)
Stale_AnyStatus == {k \in Keys : k.type \in Expirable}
Stale == {k \in Pending : k.type \in Expirable}

\* findOrphanCandidates, then the task's own filter on the charge phase.
OrphanCandidates == {o \in obs \ metab : ~HasLink(o) /\ ostat[o] = "none"}

MarkOrphans(S) ==
  ostat' = [o \in Obs |-> IF o \in S /\ ostat[o] = "none" THEN "orphaned" ELSE ostat[o]]

IncrementRescueAttempts(S) ==
  attempts' = [o \in Obs |-> IF o \in S THEN attempts[o] + 1 ELSE attempts[o]]

-----------------------------------------------------------------------------
\* The effects of an acceptance.

Effects(k) ==
  IF IsArchive(k) THEN {"texture", "orphan"}
  ELSE IF IsRescue(k) THEN {"forward", "reverse", "orphan"}
  ELSE IF k.type = "link" THEN {"forward", "reverse"}
  ELSE {"forward", "reverse", "texture"}

\* The observation whose charge_phase becomes "metabolized": an archived orphan,
\* or the newer side of a duplicate.
Metabolized(k) ==
  IF k.type = "dedup" /\ Created[k.source] < Created[k.target] THEN k.target ELSE k.source

\* Effect e of accepting k, one statement each; an UPDATE of an absent row
\* changes nothing, appendLink has no foreign key to miss.
ApplyEffect(e, k) ==
  /\ links' = links \cup (IF e = "forward" THEN {<<k.source, k.target>>}
                          ELSE IF e = "reverse" THEN {<<k.target, k.source>>} ELSE {})
  /\ metab' = metab \cup (IF e = "texture" THEN {Metabolized(k)} \cap obs ELSE {})
  /\ ostat' = [ostat EXCEPT ![k.source] =
       IF e = "orphan" /\ @ # "none"
       THEN (IF IsArchive(k) THEN "archived" ELSE "rescued") ELSE @]

\* The daemon awaits the links (or the texture) before it writes the status.
\* (Slip: the three writes in one Promise.all.)
DaemonMayDo_Parallel(e) == e \in todo
DaemonMayDo(e) == e \in todo /\ (e = "orphan" => todo = {"orphan"})

\* A mind_propose call awaits only the texture of an archival before the status;
\* a rescue's three writes run in one Promise.all.
CallerMayDo(e, c) ==
  e \in owed[c] /\ (e = "orphan" /\ IsArchive(held[c]) => owed[c] = {"orphan"})

-----------------------------------------------------------------------------
\* The night.  Stages run in the order of cycle.ts and index.ts.

Absorbable(k) ==
  \/ k.type = "link" /\ Confidence[k] >= LinkAbsorb
  \/ IsArchive(k)
  \/ IsRescue(k) /\ Confidence[k] >= RescueAbsorb

\* listProposals(undefined, "pending"), newest first: what it leaves out.
Buried(k) == Cardinality({p \in Pending : k \in older[p]}) >= ListLimit

AiCandidates ==
  {k \in Pending : k.type = "link" \/ (IsRescue(k) /\ Confidence[k] < RescueAbsorb)}
\* (Slip: leaving archivals to a reviewer, who never fetches them.)
AbsorbQueue_NoArchive == {k \in Pending : ~Buried(k) /\ Absorbable(k) /\ ~IsArchive(k)}
AbsorbQueue == {k \in Pending : ~Buried(k) /\ Absorbable(k)}

After == [ai |-> "dedup", dedup |-> "expire", expire |-> "propose", propose |-> "absorb",
          absorb |-> "detect", detect |-> "rescue", rescue |-> "absorb2",
          create |-> "absorb2", absorb2 |-> "idle"]

\* Start task s: the absorption passes and the AI reviewer list their rows at once.
\* A failed listing is an empty one.
Enter(s) ==
  /\ stage' = s
  /\ \/ queue' = IF s = "ai" THEN AiCandidates
                 ELSE IF s \in {"absorb", "absorb2"} THEN AbsorbQueue ELSE {}
     \/ Misreads /\ queue' = {}
PutDown == cur' = NoKey /\ verdict' = "none" /\ todo' = {}

StartCycle ==
  /\ stage = "idle" /\ Enter("ai") /\ backlog' \in BOOLEAN
  /\ UNCHANGED <<tables, cur, verdict, todo, attempted, calls, edits, faults>>

\* reviewOne reads both observations; a missing one settles the row, and
\* findObservation answers a failed query like a missing row.
AiRead(k) ==
  /\ stage = "ai" /\ cur = NoKey /\ k \in queue
  /\ cur' = k /\ queue' = queue \ {k}
  /\ \/ verdict' = IF Alive(k) THEN "asked" ELSE "rejected"
     \/ Misreads /\ verdict' = "rejected"
  /\ UNCHANGED <<tables, stage, backlog, todo, attempted, calls, edits, faults>>

\* The model answers, long after the row was listed.
AiDecide(answer) ==
  /\ verdict = "asked"
  /\ verdict' = IF Similarity[cur] < AiFloor THEN "rejected" ELSE answer
  /\ todo' = IF verdict' = "accepted" THEN Effects(cur) ELSE {}
  /\ UNCHANGED <<tables, stage, backlog, queue, cur, attempted, calls, edits, faults>>

\* The model call failed or could not be parsed: the row stays pending.
AiSkip ==
  /\ verdict = "asked" /\ PutDown
  /\ UNCHANGED <<tables, stage, backlog, queue, attempted, calls, edits, faults>>

AbsorbTake(k) ==
  /\ stage \in {"absorb", "absorb2"} /\ cur = NoKey /\ k \in queue
  /\ cur' = k /\ queue' = queue \ {k} /\ verdict' = "accepted" /\ todo' = Effects(k)
  /\ UNCHANGED <<tables, stage, backlog, attempted, calls, edits, faults>>

DaemonEffect(e) ==
  /\ cur # NoKey /\ DaemonMayDo(e) /\ ApplyEffect(e, cur) /\ todo' = todo \ {e}
  /\ UNCHANGED <<obs, attempts, searched, row, older, reviewer, stage, backlog, queue, cur, verdict,
                 attempted, calls, edits, faults>>

\* The archival's findObservation failed: absorb goes on as if it were deleted.
DaemonMisread ==
  /\ Misreads /\ "texture" \in todo /\ todo' = todo \ {"texture"}
  /\ UNCHANGED <<tables, stage, backlog, queue, cur, verdict, attempted, calls, edits, faults>>

\* The row is written once every effect is.
\* (Slip: reviewing the row without awaiting its effects.)
ReadyToReview_NotAwaited == verdict \in {"accepted", "rejected"}
ReadyToReview == verdict \in {"accepted", "rejected"} /\ todo = {}

DaemonReview ==
  /\ ReadyToReview
  /\ ReviewProposal(cur, verdict, IF stage = "ai" THEN "ai" ELSE "absorb")
  /\ PutDown
  /\ UNCHANGED <<obs, metab, links, ostat, attempts, searched, stage, backlog, queue, attempted,
                 calls, edits, faults>>

\* A duplicate pair above the configured dedup threshold, neither side protected.
DedupPropose(k) ==
  /\ stage = "dedup" /\ k.type = "dedup" /\ Alive(k)
  /\ {k.source, k.target} \cap metab = {}
  /\ CreateProposal(k)
  /\ UNCHANGED <<obs, metab, links, ostat, attempts, searched, reviewer, night, calls, edits, faults>>

\* Deletes rows past 30 days; a call that holds a deleted id will find no row.
Expire(E) ==
  /\ stage = "expire" /\ Enter(After[stage])
  /\ row' = [k \in Keys |-> IF k \in E THEN "none" ELSE row[k]]
  /\ older' = Settled(E)
  /\ pc' = [c \in Callers |-> IF pc[c] = "read" /\ held[c] \in E THEN "gone" ELSE pc[c]]
  /\ UNCHANGED <<obs, metab, links, ostat, attempts, searched, reviewer, backlog, cur, verdict, todo,
                 attempted, held, decision, owed, edits, faults>>

ProposeLink(k) ==
  /\ stage = "propose" /\ k.type = "link" /\ k.source \notin metab
  /\ Unclaimed(k) /\ Similarity[k] >= LinkThreshold
  /\ CreateProposal(k)
  /\ UNCHANGED <<obs, metab, links, ostat, attempts, searched, reviewer, night, calls, edits, faults>>

\* dedup, proposals and the AI reviewer may stop at their batch or at the
\* deadline; the absorption passes run their list to the end.
FinishTask ==
  /\ stage \in {"ai", "dedup", "propose", "absorb", "absorb2"} /\ cur = NoKey
  /\ stage \in {"absorb", "absorb2"} => queue = {}
  /\ Enter(After[stage])
  /\ UNCHANGED <<tables, backlog, cur, verdict, todo, attempted, calls, edits, faults>>

DetectOrphans(S) ==
  /\ stage = "detect" /\ Cardinality(S) <= (IF backlog THEN 0 ELSE DetectLimit)
  /\ MarkOrphans(S) /\ Enter(After[stage])
  /\ UNCHANGED <<obs, metab, links, attempts, searched, row, older, reviewer, backlog, cur, verdict, todo,
                 attempted, calls, edits, faults>>

MaxAttempts  == IF backlog THEN MaxBacklog ELSE MaxSteady
\* (Slips: the last attempt forgotten, and one attempt too many.)
Exhausted_OneShort(o) == attempts[o] >= MaxAttempts - 1
Exhausted_OneLate(o)  == attempts[o] > MaxAttempts
Exhausted(o) == attempts[o] >= MaxAttempts

\* The nearest unlinked neighbour of the orphan k.source is k.target.
Nearest(k) ==
  /\ IsRescue(k) /\ Unclaimed(k)
  /\ \A j \in Keys : IsRescue(j) /\ j.source = k.source /\ Unclaimed(j)
                       => Similarity[j] <= Similarity[k]

\* The orphans listed tonight, and those the deadline let the search reach: the
\* rows to create are fixed here, their inserts follow.  A search that failed has
\* found nothing, but counts as an attempt.
SearchOrphans(window, reached, found) ==
  /\ stage = "rescue"
  /\ Cardinality(window) <= RescueLimit
  /\ \A o \in window : ostat[o] = "orphaned"
  /\ \A o \in reached : o \in window /\ ~Exhausted(o)
  /\ found \subseteq reached /\ (~Misreads => found = reached)
  /\ stage' = "create" /\ attempted' = reached
  /\ queue' = {k \in Keys : \/ IsArchive(k) /\ k.source \in window /\ Exhausted(k.source)
                               /\ k \notin Pending
                            \/ Nearest(k) /\ k.source \in found}
  /\ searched' = [o \in Obs |-> IF o \in reached THEN searched[o] + 1 ELSE searched[o]]
  /\ UNCHANGED <<obs, metab, links, ostat, attempts, row, older, reviewer, backlog, cur, verdict, todo,
                 calls, edits, faults>>

CreateOrphanRow(k) ==
  /\ stage = "create" /\ k \in queue
  /\ CreateProposal(k) /\ queue' = queue \ {k}
  /\ UNCHANGED <<obs, metab, links, ostat, attempts, searched, reviewer, stage, backlog, cur, verdict,
                 todo, attempted, calls, edits, faults>>

FinishOrphans ==
  /\ stage = "create" /\ queue = {}
  /\ IncrementRescueAttempts(attempted) /\ attempted' = {}
  /\ Enter(After[stage])
  /\ UNCHANGED <<obs, metab, links, ostat, searched, row, older, reviewer, backlog, cur, verdict, todo,
                 calls, edits, faults>>

\* One row's absorb or review throws: its catch goes on with the next row.
RowFails ==
  /\ cur # NoKey /\ faults < MaxFaults /\ faults' = faults + 1 /\ PutDown
  /\ UNCHANGED <<tables, stage, backlog, queue, attempted, calls, edits>>

\* A task throws as a whole, and its catch goes on with the next one; expiry and
\* detection swallow their failure and go on with the rest of their own task.
TaskFails ==
  /\ stage # "idle" /\ cur = NoKey /\ faults < MaxFaults /\ faults' = faults + 1
  /\ Enter(After[stage]) /\ attempted' = {}
  /\ UNCHANGED <<tables, backlog, cur, verdict, todo, calls, edits>>

\* The process dies between two writes.
NightKilled ==
  /\ stage # "idle" /\ faults < MaxFaults /\ faults' = faults + 1
  /\ stage' = "idle" /\ queue' = {} /\ attempted' = {} /\ PutDown
  /\ UNCHANGED <<tables, backlog, calls, edits>>

Night ==
  \/ StartCycle \/ AiSkip \/ DaemonMisread \/ DaemonReview \/ FinishTask \/ FinishOrphans
  \/ \E k \in Keys : \/ AiRead(k) \/ AbsorbTake(k) \/ DedupPropose(k)
                     \/ ProposeLink(k) \/ CreateOrphanRow(k)
  \/ \E answer \in {"accepted", "rejected"} : AiDecide(answer)
  \/ \E e \in Effect : DaemonEffect(e)
  \/ \E E \in SUBSET Stale : Expire(E)
  \/ \E S \in SUBSET OrphanCandidates : DetectOrphans(S)
  \/ \E window \in SUBSET Obs : \E reached \in SUBSET window :
       \E found \in SUBSET reached : SearchOrphans(window, reached, found)

NightFault == RowFails \/ TaskFails \/ NightKilled

-----------------------------------------------------------------------------
\* A mind_propose call with action=review.

HangUp(c) ==
  /\ pc' = [pc EXCEPT ![c] = "idle"] /\ held' = [held EXCEPT ![c] = NoKey]
  /\ owed' = [owed EXCEPT ![c] = {}]

\* getProposalById found the row pending.
CallerRead(c, k, d) ==
  /\ pc[c] = "idle" /\ row[k] = "pending"
  /\ pc' = [pc EXCEPT ![c] = "read"] /\ held' = [held EXCEPT ![c] = k]
  /\ decision' = [decision EXCEPT ![c] = d]
  /\ UNCHANGED <<tables, night, owed, edits, faults>>

CallerReview(c) ==
  /\ pc[c] = "read"
  /\ ReviewProposal(held[c], decision[c], "human")
  /\ IF decision[c] = "accepted"
     THEN pc' = [pc EXCEPT ![c] = "reviewed"] /\ UNCHANGED <<held, owed>>
     ELSE HangUp(c)
  /\ UNCHANGED <<obs, metab, links, ostat, attempts, searched, night, decision, edits, faults>>

\* The row's acceptance is committed; a link's resonance_type passes the
\* allowlist, a dedup's two observations are still there: write the effects.
CallerBegin(c) ==
  /\ pc[c] = "reviewed" /\ (held[c].type = "dedup" => Alive(held[c]))
  /\ pc' = [pc EXCEPT ![c] = "acting"] /\ owed' = [owed EXCEPT ![c] = Effects(held[c])]
  /\ UNCHANGED <<tables, night, held, decision, edits, faults>>

\* ... or the call returns without any: an unknown resonance_type (a free
\* string in the tool's schema), or a dedup observation not found.
CallerDeclines(c) ==
  /\ pc[c] = "reviewed"
  /\ held[c].type = "link" \/ (held[c].type = "dedup" /\ (Misreads \/ ~Alive(held[c])))
  /\ HangUp(c)
  /\ UNCHANGED <<tables, night, decision, edits, faults>>

CallerEffect(c, e) ==
  /\ pc[c] = "acting" /\ CallerMayDo(e, c) /\ ApplyEffect(e, held[c])
  /\ IF owed[c] = {e} THEN HangUp(c)
     ELSE owed' = [owed EXCEPT ![c] = @ \ {e}] /\ UNCHANGED <<pc, held>>
  /\ UNCHANGED <<obs, attempts, searched, row, older, reviewer, night, decision, edits, faults>>

\* findObservation failed: an archival goes on without its texture.
CallerMisread(c) ==
  /\ Misreads /\ pc[c] = "acting" /\ IsArchive(held[c]) /\ "texture" \in owed[c]
  /\ owed' = [owed EXCEPT ![c] = @ \ {"texture"}]
  /\ UNCHANGED <<tables, night, pc, held, decision, edits, faults>>

\* reviewProposal finds no row under the id: "Proposal not found".
CallerFindsNothing(c) ==
  /\ pc[c] = "gone" /\ HangUp(c) /\ UNCHANGED <<tables, night, decision, edits, faults>>

CallerFails(c) ==
  /\ pc[c] \in {"read", "reviewed", "acting"} /\ faults < MaxFaults /\ faults' = faults + 1
  /\ HangUp(c) /\ UNCHANGED <<tables, night, decision, edits>>

Call(c) ==
  \/ \E k \in Keys : \E d \in {"accepted", "rejected"} : CallerRead(c, k, d)
  \/ CallerReview(c) \/ CallerBegin(c) \/ CallerDeclines(c) \/ CallerFindsNothing(c)
  \/ CallerMisread(c) \/ CallerFails(c) \/ \E e \in Effect : CallerEffect(c, e)

-----------------------------------------------------------------------------
\* A mind_edit call with action=delete.

DeleteObservation(ed, o) ==
  /\ epc[ed] = "idle" /\ o \in obs /\ obs' = obs \ {o}
  /\ epc' = [epc EXCEPT ![ed] = "deleted"] /\ victim' = [victim EXCEPT ![ed] = o]
  /\ UNCHANGED <<metab, links, ostat, attempts, searched, row, older, reviewer, night, calls, snapshot, faults>>

\* readLinks; with no link to remove, or none read, the call is done.
ReadLinks(ed) ==
  /\ epc[ed] = "deleted"
  /\ \/ /\ HasLink(victim[ed]) /\ epc' = [epc EXCEPT ![ed] = "read"]
        /\ snapshot' = [snapshot EXCEPT ![ed] = links]
     \/ /\ Misreads \/ ~HasLink(victim[ed])
        /\ epc' = [epc EXCEPT ![ed] = "idle"] /\ UNCHANGED snapshot
  /\ UNCHANGED <<tables, night, calls, victim, faults>>

\* writeLinks replaces the whole table, in one transaction, by the filtered snapshot.
WriteLinks(ed) ==
  /\ epc[ed] = "read"
  /\ links' = {l \in snapshot[ed] : ~Touches(l, victim[ed])}
  /\ epc' = [epc EXCEPT ![ed] = "idle"] /\ snapshot' = [snapshot EXCEPT ![ed] = {}]
  /\ UNCHANGED <<obs, metab, ostat, attempts, searched, row, older, reviewer, night, calls, victim, faults>>

Edit(ed) == (\E o \in Obs : DeleteObservation(ed, o)) \/ ReadLinks(ed) \/ WriteLinks(ed)

-----------------------------------------------------------------------------
Next ==
  \/ Night \/ NightFault
  \/ \E c \in Callers : Call(c)
  \/ \E ed \in Editors : Edit(ed)

Spec == Init /\ [][Next]_vars

\* The timer starts every night and a night that is not killed runs to its end.
FairSpec == Spec /\ WF_vars(Night)

-----------------------------------------------------------------------------
\* What the ledger promises.

\* A row that absorption or the AI reviewer accepted has its effects in the
\* tables: both link directions for a link or a rescue, and the orphan out of the
\* rescue queue - wherever the night was killed or a write failed.
EffectsInPlace(k) ==
  /\ {"forward", "reverse"} \subseteq Effects(k) =>
       {<<k.source, k.target>>, <<k.target, k.source>>} \subseteq links
  /\ "orphan" \in Effects(k) => ostat[k.source] # "orphaned"
DaemonAcceptanceBacked ==
  \A k \in Keys : row[k] = "accepted" /\ reviewer[k] \in {"absorb", "ai"} => EffectsInPlace(k)

\* absorption.ts on archivals: "metabolize observation + mark orphan archived".
\* An archived orphan is metabolized or gone, whether the daemon or a
\* mind_propose call archived it; with the daemon alone, an orphan also leaves
\* the queue rescued only with a link in place.
ArchivedIsMetabolized == \A o \in Obs : ostat[o] = "archived" => o \in metab \/ o \notin obs
OrphanExitComplete ==
  ArchivedIsMetabolized /\ \A o \in Obs : ostat[o] = "rescued" => HasLink(o)

\* No observation is archived before the daemon searched a rescue for it, as
\* often as the mode of some night allowed, whoever accepted the archival.
ArchivedOnlyIfExhausted ==
  \A o \in Obs : ostat[o] = "archived" => attempts[o] >= MaxBacklog

\* However the mode changes from night to night, an orphan costs no more vector
\* searches than MAX_RESCUE_ATTEMPTS_STEADY and one for every failure: a night that
\* ends between its searches and the write that counts them repeats them.
RescueBudget == \A o \in Obs : searched[o] <= MaxSteady + faults

\* What the AI reviewer is given.
AiBand(k) == k.type = "link" \/ (IsRescue(k) /\ Confidence[k] < RescueAbsorb)

\* Automation settles only what it was given: absorption accepts its confidence
\* bands, the AI reviewer never touches a dedup, an archival or a rescue above
\* the absorption band, and never accepts below the similarity floor.
AutomationInBand ==
  \A k \in Keys :
    /\ reviewer[k] = "absorb" => Absorbable(k)
    /\ reviewer[k] = "ai" =>
         /\ AiBand(k)
         /\ row[k] = "accepted" => Similarity[k] >= AiFloor

\* A settled row is never pending again and never deleted, and a row of a
\* judgment type is never deleted at all: expiry takes only pending link and
\* orphan_rescue rows, and re-proposing a settled pair changes nothing.
DecisionKept ==
  \A k \in Keys :
    /\ row[k] \in {"accepted", "rejected"} => row'[k] \in {"accepted", "rejected"}
    /\ k.type \notin Expirable /\ row[k] # "none" => row'[k] # "none"
DecisionsSurvive == [][DecisionKept]_vars

\* Every pending row in an absorption band is settled, or expires, unless newer rows
\* bury it again and again: killed nights and failed writes only delay it.
AbsorbableDrained ==
  \A k \in Keys : Absorbable(k) =>
    ([]<>(row[k] = "pending" /\ Buried(k))) \/ (row[k] = "pending" ~> row[k] # "pending")

\* types.ts on judgment types: "a rejection there is a deliberate, permanent
\* tombstone".
TombstoneKept ==
  \A k \in Keys : k.type \notin Expirable /\ row[k] = "rejected" => row'[k] = "rejected"
TombstonesPermanent == [][TombstoneKept]_vars

\* mind_edit's description: "delete: remove an observation and its links" - and
\* no other observation's.
OnlyItsLinks ==
  [][\A l \in links : l[1] \in obs /\ l[2] \in obs => l \in links']_vars
-----------------------------------------------------------------------------
\* The inductive strengthening of the invariants above, in named parts.

\* Whoever has an orphan_rescue row in hand, has it of a marked orphan; an
\* archival, of one that was searched for.
Engaged(k) == row[k] # "none" \/ k \in queue \/ cur = k \/ \E c \in Callers : held[c] = k
OrphanRowsEarned ==
  \A k \in Keys : k.type = "orphan_rescue" /\ Engaged(k) =>
    ostat[k.source] # "none" /\ (IsArchive(k) => attempts[k.source] >= MaxBacklog)

\* Tonight's searches are all within the budget; a search is counted, or about to be,
\* or was lost to a failure.
SearchBudget ==
  /\ stage # "create" => attempted = {}
  /\ \A o \in Obs :
       /\ attempts[o] <= MaxSteady
       /\ IF o \in attempted THEN attempts[o] < MaxSteady /\ searched[o] <= attempts[o] + faults + 1
          ELSE searched[o] <= attempts[o] + faults

\* An effect no longer owed has been written, unless a failed read skipped it.
TextureDone(k) == Misreads \/ Metabolized(k) \in metab \/ Metabolized(k) \notin obs
NightTexture ==
  /\ todo # {} => verdict = "accepted"
  /\ verdict = "accepted" =>
       todo \subseteq Effects(cur) /\ ("texture" \in Effects(cur) \ todo => TextureDone(cur))
CallTexture ==
  \A c \in Callers : pc[c] = "acting" =>
    /\ owed[c] \subseteq Effects(held[c])
    /\ "texture" \in Effects(held[c]) \ owed[c] => TextureDone(held[c])
TextureProgress == NightTexture /\ CallTexture

ArchivedDone == Misreads \/ ArchivedIsMetabolized

OrphanInv ==
  /\ OrphanRowsEarned /\ SearchBudget /\ TextureProgress
  /\ ArchivedDone /\ ArchivedOnlyIfExhausted /\ RescueBudget

\* The reviewer's list and the row in its hand are in its band.
BandInv ==
  /\ AutomationInBand
  /\ cur # NoKey => stage \in {"ai", "absorb", "absorb2"}
  /\ \A k \in Keys : k \in queue \/ k = cur =>
       /\ stage = "ai" => AiBand(k)
       /\ stage \in {"absorb", "absorb2"} => Absorbable(k)
  /\ stage = "ai" /\ verdict = "accepted" => Similarity[cur] >= AiFloor

\* The daemon's row in hand: an effect no longer to do is in the tables.
HandProgress ==
  verdict = "accepted" =>
    /\ "forward" \in Effects(cur) \ todo => <<cur.source, cur.target>> \in links
    /\ "reverse" \in Effects(cur) \ todo => <<cur.target, cur.source>> \in links
    /\ "orphan" \in Effects(cur) \ todo => ostat[cur.source] # "orphaned"
BackedInv == DaemonAcceptanceBacked /\ HandProgress

\* With one mind_propose call at a time, the judgment row it read as pending still is.
OneCall == \A c, d \in Callers : c = d
JudgmentHeld ==
  \A c \in Callers : pc[c] = "read" /\ held[c].type \notin Expirable => row[held[c]] = "pending"
=============================================================================
