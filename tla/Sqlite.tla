-------------------------------- MODULE Sqlite --------------------------------
(***************************************************************************)
(* The SQLite backend keeps every collection of a tenant as one JSON       *)
(* document.  Each method reads the whole document, changes its copy and   *)
(* writes the whole document back, with awaits in between; a method that   *)
(* touches several collections does so one after the other.                *)
(*                                                                         *)
(* Methods run interleaved when requests overlap, when a batch request     *)
(* maps its calls through Promise.all, and when a handler does.            *)
(***************************************************************************)
EXTENDS Integers, Sequences, FiniteSets, FiniteSetsExt

CONSTANTS
  Ids,             \* observation, task, proposal, lease and skill ids
  Territory,       \* [Ids -> territory]: where an observation is appended
  Methods,         \* methods the callers of this run use
  Width,           \* most methods in flight at a time
  MaxCalls,        \* bound on calls
  MaxCrashes

Territories == {"craft", "self"}
SqliteAssumption ==
  /\ Territory \in [Ids -> Territories]
  /\ Width \in Nat \ {0} /\ MaxCalls \in Nat /\ MaxCrashes \in Nat

VARIABLES
  doc,       \* kv_store of one tenant: document by key
  calls,     \* [1..MaxCalls -> call]: the methods called, in the order of their start
  started,   \* calls begun
  crashes,
  added,     \* history: rows whose append has returned, until their observation's deletion begins
  removed,   \* history: ids whose deletion has returned, until they are appended again
  clashed    \* history: calls that shared a document with another call in flight

vars == <<doc, calls, started, crashes, added, removed, clashed>>

\* The documents the methods below write, and the order they do it in.  A
\* leading step only reads.
Plan(m) ==
  CASE m = "deleteObservation"  -> <<"observations", "links", "versions", "processing", "hints">>
    [] m = "appendToTerritory"  -> <<"observations", "hints">>
    [] m = "rewriteTerritory"   -> <<"observations", "observations", "observations", "hints">>
    [] m = "advanceChargePhase" -> <<"loops", "observations">>
    [] m = "expireStaleProposals" -> <<"proposals", "config">>
    [] m \in {"touch", "embed", "incrementProcessingCount", "linkObservationToEntity"} -> <<"observations">>
    [] m = "appendLink"   -> <<"links">>
    [] m = "createVersion" -> <<"versions">>
    [] m = "createProcessingEntry" -> <<"processing">>
    [] m = "appendOpenLoop" -> <<"loops">>
    [] m \in {"createProposal", "reviewProposal"} -> <<"proposals">>
    [] m \in {"markOrphan", "incrementRescueAttempt", "updateOrphanStatus"} -> <<"orphans">>
    [] m \in {"updateProposalThreshold", "updateDaemonConfigData"} -> <<"config">>
    [] m \in {"createTask", "updateTask", "openDueScheduledTasks"} -> <<"tasks">>
    [] m \in {"createSkill", "reviewSkill"} -> <<"skills">>
    [] m \in {"recordAgentLease", "heartbeatAgentLease", "reapExpiredAgentLeases"} -> <<"leases">>

Phases == <<"fresh", "active", "processing", "metabolized">>
\* The array of observations as a set: a row's number is its place among the rows of its
\* territory.
Row == [id : Ids, no : Nat, territory : Territories, vec : BOOLEAN, count : Nat, entity : BOOLEAN, phase : 1..4]
\* A row of a list document: the call that wrote it, the id it is about, a
\* version number where the document numbers its rows.
Item == [by : 0..MaxCalls, of : Ids, num : Nat]
Documents == {"observations", "links", "versions", "processing", "hints", "loops", "proposals",
              "orphans", "config", "tasks", "skills", "leases"}
Lists == {"links", "versions", "processing", "loops", "skills"}

TypeOK ==
  /\ DOMAIN doc = Documents
  /\ doc.observations \subseteq Row
  /\ \A d \in Lists : doc[d] \subseteq Item
  /\ doc.hints \subseteq Ids
  /\ doc.proposals \in [Ids -> {"none", "pending", "accepted"}]
  /\ doc.orphans \in [Ids -> [status : {"none", "orphaned", "rescued"}, tries : Nat]]
  /\ doc.config \subseteq {"threshold", "last_expiry", "run"}
  /\ doc.tasks \subseteq [id : Ids, to : {"self", "other"}, status : {"open", "scheduled", "done"}]
  /\ doc.leases \in [Ids -> {"none", "active", "expired"}]
  /\ \A n \in 1..MaxCalls : calls[n].pc \in {"unborn", "read", "write", "done"}
  /\ started \in 0..MaxCalls /\ crashes \in 0..MaxCrashes
  /\ removed \subseteq Ids /\ clashed \subseteq 1..MaxCalls

Present == {r.id : r \in doc.observations}
NewRow(o, n) == [id |-> o, no |-> n, territory |-> Territory[o], vec |-> FALSE, count |-> 2, entity |-> FALSE, phase |-> 1]

Unborn == [id |-> 0, m |-> "none", o |-> 0, at |-> 1, pc |-> "unborn", snap |-> {}, rows |-> {}, ids |-> {}]

\* One observation, embedded and linked to itself; the rest of the store is empty.
Init ==
  /\ \E o \in Ids :
       doc = [observations |-> {[NewRow(o, 1) EXCEPT !.vec = TRUE]},
              links |-> {[by |-> 0, of |-> o, num |-> 0]}, versions |-> {}, processing |-> {},
              hints |-> {o}, loops |-> {}, proposals |-> [p \in Ids |-> "none"],
              orphans |-> [p \in Ids |-> [status |-> "none", tries |-> 0]], config |-> {}, tasks |-> {}, skills |-> {},
              leases |-> [l \in Ids |-> "none"]]
  /\ calls = [n \in 1..MaxCalls |-> Unborn] /\ started = 0 /\ crashes = 0
  /\ added = {} /\ removed = {} /\ clashed = {}

------------------------------------------------------------------------------
\* What a method makes of the document it has read.

\* Methods find the first row of an id.
First(s, o) == {r \in s : r.id = o /\ \A q \in s : q.id = o => r.no <= q.no}
\* deleteObservation's first document: the row goes.
Without(s, o) == s \ First(s, o)
Changed(s, o, F(_)) == (s \ First(s, o)) \cup {F(r) : r \in First(s, o)}
Appended(s, o) == s \cup {NewRow(o, Max({r.no : r \in s} \cup {0}) + 1)}

\* writeTerritory: the caller's rows replace the territory's.  They come from
\* readTerritory, which leaves the embedding and the counter out.
Rewritten(s, t, rows) == {r \in s : r.territory # t} \cup {[r EXCEPT !.vec = FALSE, !.count = 0] : r \in rows}
Public(s, t) == {r \in s : r.territory = t}

\* advanceChargePhase: three processings a phase, two while a burning paradox
\* holds the entity; the counter is not reset.
Advanced(r, paradox) ==
  IF r.count >= 1 /\ r.phase < Len(Phases) /\ r.count >= (IF r.entity /\ paradox THEN 2 ELSE 3)
  THEN [r EXCEPT !.phase = @ + 1] ELSE r

\* updateObservationEmbedding, incrementProcessingCount, linkObservationToEntity.
Embedded(r) == [r EXCEPT !.vec = TRUE]
Counted(r)  == [r EXCEPT !.count = @ + 1]
Entitled(r) == [r EXCEPT !.entity = TRUE]

\* "touch" stands for the methods that change only what is left out of a row
\* here, textures, access and surfacing: they write the document back as well.
Observations(c, s) ==
  CASE c.m = "appendToTerritory"  -> Appended(s, c.o)
    [] c.m = "deleteObservation"  -> Without(s, c.o)
    [] c.m = "rewriteTerritory"   -> IF c.at = 3 THEN Rewritten(s, Territory[c.o], c.rows) ELSE s
    [] c.m = "embed"              -> Changed(s, c.o, Embedded)
    [] c.m = "incrementProcessingCount" -> Changed(s, c.o, Counted)
    [] c.m = "linkObservationToEntity"  -> Changed(s, c.o, Entitled)
    [] c.m = "advanceChargePhase" -> Changed(s, c.o, LAMBDA r : Advanced(r, c.rows # {}))
    [] c.m = "touch"              -> s

Hints(c, s) ==
  CASE c.m = "appendToTerritory" -> s \cup {c.o}
    [] c.m = "deleteObservation" -> s \ {c.o}
    [] c.m = "rewriteTerritory"  -> (s \ c.ids) \cup {r.id : r \in c.rows}

\* createVersion counts the observation's versions.
NextNumber(s, o) == Cardinality({r \in s : r.of = o}) + 1
\* createCapturedSkillArtifact: one more than the largest version of the key.
SkillNumber(s, o) == Max({r.num : r \in {q \in s : q.of = o}} \cup {0}) + 1
\* (Slip: one row an observation.)
Listed_Latest(c, s) ==
  IF c.m = "deleteObservation" THEN {r \in s : r.of # c.o}
  ELSE {r \in s : r.of # c.o} \cup {[by |-> c.id, of |-> c.o, num |-> 1]}
\* Lists: a row appended, or those of a deleted observation taken out.
Listed(c, s) ==
  IF c.m = "deleteObservation" THEN {r \in s : r.of # c.o}
  ELSE s \cup {[by |-> c.id, of |-> c.o,
                num |-> CASE c.m = "createVersion" -> NextNumber(s, c.o)
                          [] c.m = "createSkill" -> SkillNumber(s, c.o)
                          [] OTHER -> 0]}

\* Proposals, by id: createProposal, reviewProposal, expireStaleProposals.
Proposals(c, s) ==
  CASE c.m = "createProposal" -> [s EXCEPT ![c.o] = "pending"]
    [] c.m = "reviewProposal" -> [s EXCEPT ![c.o] = "accepted"]
    [] c.m = "expireStaleProposals" -> [p \in Ids |-> IF s[p] = "pending" THEN "none" ELSE s[p]]

\* markOrphan, incrementRescueAttempt, updateOrphanStatus.
Orphans(c, s) ==
  CASE c.m = "markOrphan" /\ s[c.o].status = "none" -> [s EXCEPT ![c.o].status = "orphaned"]
    [] c.m = "incrementRescueAttempt" /\ s[c.o].status # "none" -> [s EXCEPT ![c.o].tries = @ + 1]
    [] c.m = "updateOrphanStatus" /\ s[c.o].status # "none" -> [s EXCEPT ![c.o].status = "rescued"]
    [] OTHER -> s

\* updateDaemonConfigData, updateProposalThreshold; expiry leaves its receipt.
Config(c, s) ==
  s \cup {CASE c.m = "updateProposalThreshold" -> "threshold"
            [] c.m = "updateDaemonConfigData" -> "run"
            [] c.m = "expireStaleProposals" -> "last_expiry"}

\* createTask keeps the assignee in the row, and the row in the creator's document.
Tasks(c, s) ==
  CASE c.m = "createTask" -> s \cup {[id |-> c.o, to |-> "other", status |-> "scheduled"]}
    [] c.m = "updateTask" -> {IF r.id = c.o THEN [r EXCEPT !.status = "done"] ELSE r : r \in s}
    [] c.m = "openDueScheduledTasks" ->
         {IF r.status = "scheduled" THEN [r EXCEPT !.status = "open"] ELSE r : r \in s}
\* listTasks of another tenant reads that tenant's document.
ListedTasks(tenant) == IF tenant = "self" THEN doc.tasks ELSE {}

\* recordAgentLease, heartbeatAgentLease, reapExpiredAgentLeases.
Leases(c, s) ==
  CASE c.m \in {"recordAgentLease", "heartbeatAgentLease"} -> [s EXCEPT ![c.o] = "active"]
    [] c.m = "reapExpiredAgentLeases" -> [l \in Ids |-> IF s[l] = "active" THEN "expired" ELSE s[l]]

After(c, k, s) ==
  CASE k = "observations" -> Observations(c, s)
    [] k = "hints" -> Hints(c, s)
    [] k \in Lists -> IF c.m \in {"advanceChargePhase", "reviewSkill"} THEN s ELSE Listed(c, s)
    [] k = "proposals" -> Proposals(c, s)
    [] k = "orphans" -> Orphans(c, s)
    [] k = "config" -> Config(c, s)
    [] k = "tasks" -> Tasks(c, s)
    [] k = "leases" -> Leases(c, s)

\* The returns before any write: the id is not there, or nothing changed.
NoWrite(c, k, s) ==
  \/ c.m = "rewriteTerritory" /\ c.at < 3
  \/ c.m = "advanceChargePhase" /\ k = "loops"
  \/ c.m = "linkObservationToEntity" /\ \A r \in s : r.id # c.o
  \/ c.m = "reviewProposal" /\ s[c.o] = "none"
  \/ c.m = "updateTask" /\ \A r \in s : r.id # c.o
  \/ c.m = "heartbeatAgentLease" /\ s[c.o] # "active"
  \/ c.m \in {"markOrphan", "incrementRescueAttempt", "updateOrphanStatus", "expireStaleProposals",
              "openDueScheduledTasks", "reapExpiredAgentLeases"} /\ After(c, k, s) = s
\* deleteObservation and the expiry stop where they find nothing.
Stops(c, k, s) ==
  \/ c.m = "deleteObservation" /\ k = "observations" /\ Without(s, c.o) = s
  \/ c.m = "expireStaleProposals" /\ k = "proposals" /\ NoWrite(c, k, s)

------------------------------------------------------------------------------
\* Calls.

\* Handlers look the id up before they write about it.
Sensible(m, o) ==
  /\ m \in {"appendLink", "createVersion", "createProcessingEntry"} => o \in Present
  /\ m = "appendToTerritory" => o \notin Present
  /\ m = "createProposal" => doc.proposals[o] = "none"
  /\ m = "createTask" => \A r \in doc.tasks : r.id # o
  /\ m = "recordAgentLease" => doc.leases[o] = "none"

InFlight == {n \in 1..MaxCalls : calls[n].pc \in {"read", "write"}}
\* A call begins; the observation it deletes takes its rows along.
Begin(m, o) ==
  /\ started < MaxCalls /\ Cardinality(InFlight) < Width
  /\ started' = started + 1
  /\ calls' = [calls EXCEPT ![started + 1] = [Unborn EXCEPT !.id = started + 1, !.m = m, !.o = o, !.pc = "read"]]
  /\ added' = IF m = "deleteObservation" THEN {a \in added : a[3] # o} ELSE added
  /\ removed' = IF m = "appendToTerritory" THEN removed \ {o} ELSE removed
  /\ UNCHANGED <<doc, crashes, clashed>>
Start(m, o) == Sensible(m, o) /\ Begin(m, o)
\* The v4 backfill appends observations that are there already.
Backfill(o) == "backfill" \in Methods /\ o \in Present /\ Begin("appendToTerritory", o)

Key(c) == Plan(c.m)[c.at]
\* Calls in flight that hold a copy of the same document.
Rivals(c) == {n \in InFlight \ {c.id} : calls[n].pc = "write" /\ Key(calls[n]) = Key(c)}

\* What a method takes to a later document from what it reads: the territory's rows and
\* their ids, the loops.
RowsTaken(c) ==
  CASE c.m = "rewriteTerritory" /\ c.at = 1 -> Public(doc.observations, Territory[c.o])
    [] c.m = "advanceChargePhase" /\ c.at = 1 -> doc.loops
    [] OTHER -> c.rows
IdsTaken(c) ==
  IF c.m = "rewriteTerritory" /\ c.at = 2 THEN {r.id : r \in Public(doc.observations, Territory[c.o])} ELSE c.ids

\* readCollection
Read(c) ==
  /\ c.pc = "read"
  /\ calls' = [calls EXCEPT ![c.id] = [@ EXCEPT !.pc = "write", !.snap = doc[Key(c)], !.rows = RowsTaken(c), !.ids = IdsTaken(c)]]
  /\ clashed' = IF Rivals(c) = {} THEN clashed ELSE clashed \cup {c.id} \cup Rivals(c)
  /\ UNCHANGED <<doc, started, crashes, added, removed>>

\* writeCollection, of the copy read; then the next document, or the return.
Write(c) ==
  /\ c.pc = "write"
  /\ doc' = IF NoWrite(c, Key(c), c.snap) THEN doc ELSE [doc EXCEPT ![Key(c)] = After(c, Key(c), c.snap)]
  /\ IF c.at = Len(Plan(c.m)) \/ Stops(c, Key(c), c.snap)
     THEN /\ calls' = [calls EXCEPT ![c.id] = [Unborn EXCEPT !.pc = "done"]]
          /\ added' = IF Key(c) \in Lists /\ c.m \notin {"advanceChargePhase", "reviewSkill"}
                         /\ \A n \in InFlight : ~(calls[n].m = "deleteObservation" /\ calls[n].o = c.o)
                      THEN added \cup {<<Key(c), c.id, c.o>>} ELSE added
          /\ removed' = IF c.m = "deleteObservation" THEN removed \cup {c.o} ELSE removed
     ELSE /\ calls' = [calls EXCEPT ![c.id].at = @ + 1, ![c.id].pc = "read", ![c.id].snap = {}]
          /\ UNCHANGED <<added, removed>>
  /\ UNCHANGED <<started, crashes, clashed>>

\* The process ends; what was written stays.
Crash ==
  /\ crashes < MaxCrashes /\ InFlight # {} /\ crashes' = crashes + 1
  /\ calls' = [n \in 1..MaxCalls |-> IF n \in InFlight THEN [Unborn EXCEPT !.pc = "done"] ELSE calls[n]]
  /\ UNCHANGED <<doc, started, added, removed, clashed>>

Next ==
  \/ \E m \in Methods \ {"backfill"}, o \in Ids : Start(m, o)
  \/ \E o \in Ids : Backfill(o)
  \/ \E n \in InFlight : Read(calls[n]) \/ Write(calls[n])
  \/ Crash
Spec == Init /\ [][Next]_vars

------------------------------------------------------------------------------
\* Properties.

Idle == InFlight = {}
\* With one method at a time and no crash, what is kept beside the observations
\* is about observations that exist, and every one of them has its hints.
SidecarsFollow ==
  Idle /\ crashes = 0 =>
    /\ \A d \in {"links", "versions", "processing"} : \A r \in doc[d] : r.of \in Present
    /\ doc.hints = Present

\* No two versions of an observation, or of a skill, have the same number.
VersionsNumbered ==
  \A d \in {"versions", "skills"} : \A r, q \in doc[d] : r.of = q.of /\ r.num = q.num => r = q

\* An observation whose deletion has returned is gone.
DeletedGone == removed \cap Present = {}

\* A lease that has expired is not active again.
ExpiredStays == [][\A l \in Ids : doc.leases[l] = "expired" => doc'.leases[l] = "expired"]_vars

Kept(a) == \E r \in doc[a[1]] : r.by = a[2] /\ r.of = a[3]
\* A row whose append returned is lost only to a method that shared the
\* document with its own: never to one in another document, nor to a crash.
LossNeedsClash == \A a \in added : Kept(a) \/ a[2] \in clashed

\* A row whose append returned is in its document.
AddedKept == \A a \in added : Kept(a)

\* An observation has one row.
OneRowPerId == \A r, q \in doc.observations : r.id = q.id => r = q

\* What is assigned to another tenant is in what that tenant lists.
AssignedListed == \A r \in doc.tasks : r.to = "other" => r \in ListedTasks("other")
==============================================================================
