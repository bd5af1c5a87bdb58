------------------------------ MODULE Backfill ------------------------------
(***************************************************************************)
(* Embeddings and how the missing ones are made up: a new observation is   *)
(* embedded after its call has answered; POST /admin/backfill drains the   *)
(* queue of unembedded rows, oldest first, and so does a stage of the      *)
(* nightly cycle (src/muse-brain/src/index.ts, embedding/backfill.ts,      *)
(* daemon/cycle.ts).                                                       *)
(*                                                                         *)
(* Rows are numbered in the order of their creation.  A batch call to the  *)
(* provider that fails falls back to one call per row, so what matters of  *)
(* both is the set of rows that fail.                                      *)
(***************************************************************************)
EXTENDS Integers, FiniteSets

CONSTANTS
    Last,          \* rows are 1..Last
    First,         \* those there at the start
    Dead,          \* rows the provider never embeds
    Warped,        \* rows it answers with something that is no vector of 768
    Requests,      \* backfill requests
    Limits, Chunks,\* the limits and chunk sizes they ask for
    NightCap,      \* rows the nightly stage takes (500)
    MaxFaults      \* bound on failing calls to storage and provider

BackfillAssumption ==
    /\ Last \in Nat /\ First \in 0..Last /\ Dead \subseteq 1..Last /\ Warped \subseteq 1..Last
    /\ Dead \cap Warped = {}
    /\ Limits \subseteq Nat \ {0} /\ Chunks \subseteq Nat \ {0} /\ NightCap \in Nat \ {0} /\ MaxFaults \in Nat

Rows == 1..Last

VARIABLES
    born,          \* rows 1..born exist
    embedded,      \* rows whose embedding is stored
    scheduled,     \* new rows whose embedding is under way
    requests,
    tried,         \* how often each request sent each row to the provider (history)
    night,
    faults

vars == <<born, embedded, scheduled, requests, tried, night, faults>>

Idle == [pc |-> "idle", limit |-> 1, chunk |-> 1, processed |-> 0, fetched |-> 0,
         rows |-> {}, good |-> {}, deadIds |-> {}, backfilledIds |-> {}]

TypeOK ==
    /\ born \in 0..Last /\ embedded \subseteq 1..born /\ scheduled \subseteq 1..born
    /\ \A r \in Requests :
        LET q == requests[r]
        IN  /\ q.pc \in {"idle", "fetch", "embed", "write", "count", "answered", "failed"}
            /\ q.processed \in 0..q.limit /\ q.fetched \in 0..q.chunk
            /\ q.good \subseteq q.rows /\ q.rows \cup q.deadIds \cup q.backfilledIds \subseteq 1..born
    /\ tried \in [Requests -> [Rows -> Nat]]
    /\ night.pc \in {"idle", "embed", "write"} /\ night.good \subseteq night.rows /\ night.rows \subseteq 1..born
    /\ faults \in 0..MaxFaults

Init ==
    /\ born = First /\ embedded \in SUBSET ((1..First) \ (Dead \cup Warped)) /\ scheduled = {}
    /\ requests = [r \in Requests |-> Idle]
    /\ tried = [r \in Requests |-> [i \in Rows |-> 0]]
    /\ night = [pc |-> "idle", rows |-> {}, good |-> {}] /\ faults = 0

Fault == faults < MaxFaults /\ faults' = faults + 1

Unembedded == (1..born) \ embedded
queryUnembedded(limit) == {i \in Unembedded : Cardinality({j \in Unembedded : j <= i}) <= limit}

\* The rows that come back with an embedding; the rest are skipped.
embedBackfillBatch(rows, failing) == rows \ failing

\* Vectors are checked before any is written.
Writable(rows) == rows \cap Warped = {}

-----------------------------------------------------------------------------
(* New observations *)

\* mind_observe stores the row and schedules its embedding.
Observe ==
    /\ born < Last /\ born' = born + 1 /\ scheduled' = scheduled \cup {born + 1}
    /\ UNCHANGED <<embedded, requests, tried, night, faults>>

scheduleEmbed(i) ==
    /\ i \in scheduled /\ scheduled' = scheduled \ {i}
    /\ \/ i \notin Dead \cup Warped /\ embedded' = embedded \cup {i} /\ UNCHANGED faults
       \/ i \in Dead \cup Warped /\ UNCHANGED <<embedded, faults>>
       \/ Fault /\ UNCHANGED embedded
    /\ UNCHANGED <<born, requests, tried, night>>

-----------------------------------------------------------------------------
(* POST /admin/backfill *)

Begin(r) ==
    /\ requests[r].pc = "idle"
    /\ \E l \in Limits, c \in Chunks :
        requests' = [requests EXCEPT ![r] = [Idle EXCEPT !.pc = "fetch", !.limit = l, !.chunk = c]]
    /\ UNCHANGED <<born, embedded, scheduled, tried, night, faults>>

\* (Slip: rows that failed are sent again.)
Fetched_Again(q, rows) ==
    IF q.processed >= q.limit \/ rows = {}
    THEN [q EXCEPT !.pc = "count", !.rows = {}]
    ELSE [q EXCEPT !.pc = "embed", !.rows = rows, !.fetched = Cardinality(rows)]

\* The head of the loop: the rows of this batch that were not tried yet.
Fetched(q, rows) ==
    IF q.processed >= q.limit \/ rows \subseteq q.deadIds
    THEN [q EXCEPT !.pc = "count", !.rows = {}]
    ELSE [q EXCEPT !.pc = "embed", !.rows = rows \ q.deadIds, !.fetched = Cardinality(rows)]

BatchLimit(q) == IF q.chunk <= q.limit - q.processed THEN q.chunk ELSE q.limit - q.processed

\* A failing query is answered with no rows.
Fetch(r) ==
    /\ requests[r].pc = "fetch"
    /\ \/ requests' = [requests EXCEPT ![r] = Fetched(@, queryUnembedded(BatchLimit(@)))] /\ UNCHANGED faults
       \/ Fault /\ requests' = [requests EXCEPT ![r] = Fetched(@, {})]
    /\ UNCHANGED <<born, embedded, scheduled, tried, night>>

\* The rows that fail: the dead ones, and any while the provider is away.
Failing(rows, away) == (Dead \cap rows) \cup away

Embed(r) ==
    /\ requests[r].pc = "embed"
    /\ \E away \in SUBSET requests[r].rows :
        /\ IF away = {} THEN UNCHANGED faults ELSE Fault
        /\ requests' = [requests EXCEPT ![r].pc = "write",
                            ![r].good = embedBackfillBatch(requests[r].rows, Failing(requests[r].rows, away))]
    /\ tried' = [tried EXCEPT ![r] = [i \in Rows |-> IF i \in requests[r].rows THEN @[i] + 1 ELSE @[i]]]
    /\ UNCHANGED <<born, embedded, scheduled, night>>

Written(q) ==
    [q EXCEPT !.pc = "fetch", !.processed = @ + q.fetched, !.fetched = 0, !.rows = {}, !.good = {},
              !.deadIds = @ \cup (q.rows \ q.good), !.backfilledIds = @ \cup q.good]

Write(r) ==
    /\ requests[r].pc = "write" /\ Writable(requests[r].good)
    /\ embedded' = embedded \cup requests[r].good
    /\ requests' = [requests EXCEPT ![r] = Written(@)]
    /\ UNCHANGED <<born, scheduled, tried, night, faults>>

\* bulkUpdateEmbeddings throws, and with it the request.
Throw(r) ==
    /\ requests[r].pc = "write" /\ requests[r].good # {}
    /\ IF Writable(requests[r].good) THEN Fault ELSE UNCHANGED faults
    /\ requests' = [requests EXCEPT ![r].pc = "failed"]
    /\ UNCHANGED <<born, embedded, scheduled, tried, night>>

Count(r) ==
    /\ requests[r].pc = "count" /\ requests' = [requests EXCEPT ![r].pc = "answered"]
    /\ UNCHANGED <<born, embedded, scheduled, tried, night, faults>>

-----------------------------------------------------------------------------
(* The nightly stage: one batch *)

NightFetch ==
    /\ night.pc = "idle" /\ queryUnembedded(NightCap) # {}
    /\ night' = [pc |-> "embed", rows |-> queryUnembedded(NightCap), good |-> {}]
    /\ UNCHANGED <<born, embedded, scheduled, requests, tried, faults>>

NightEmbed ==
    /\ night.pc = "embed"
    /\ \E away \in SUBSET night.rows :
        /\ IF away = {} THEN UNCHANGED faults ELSE Fault
        /\ night' = [night EXCEPT !.pc = "write", !.good = embedBackfillBatch(night.rows, Failing(night.rows, away))]
    /\ UNCHANGED <<born, embedded, scheduled, requests, tried>>

NightWrite ==
    /\ night.pc = "write"
    /\ \/ Writable(night.good) /\ embedded' = embedded \cup night.good /\ UNCHANGED faults
       \/ ~Writable(night.good) /\ UNCHANGED <<embedded, faults>>
       \/ night.good # {} /\ Fault /\ UNCHANGED embedded
    /\ night' = [pc |-> "idle", rows |-> {}, good |-> {}]
    /\ UNCHANGED <<born, scheduled, requests, tried>>

Next ==
    \/ Observe
    \/ \E i \in Rows : scheduleEmbed(i)
    \/ \E r \in Requests : Begin(r) \/ Fetch(r) \/ Embed(r) \/ Write(r) \/ Throw(r) \/ Count(r)
    \/ NightFetch \/ NightEmbed \/ NightWrite

Spec == Init /\ [][Next]_vars

\* A request runs on and a night comes after every night.
FairSpec ==
    /\ Spec
    /\ \A r \in Requests : WF_vars(Fetch(r) \/ Embed(r) \/ Write(r) \/ Throw(r) \/ Count(r))
    /\ WF_vars(NightFetch \/ NightEmbed \/ NightWrite)

-----------------------------------------------------------------------------
(* Properties *)

\* However many batches a request fetches, and whoever else embeds meanwhile,
\* it sends no row to the provider in two of them: a dead row is attempted
\* once.
AttemptedOnce == \A r \in Requests, i \in Rows : tried[r][i] <= 1

\* What an answer lists as embedded is stored, and it lists nothing as skipped
\* too; it never worked on more rows than its limit.
AnswerIsTrue ==
    \A r \in Requests :
        LET q == requests[r]
        IN  /\ q.backfilledIds \subseteq embedded /\ q.backfilledIds \cap q.deadIds = {}
            /\ Cardinality(q.backfilledIds) + Cardinality(q.deadIds) <= q.limit

\* A request ends.
Ends == \A r \in Requests : requests[r].pc = "fetch" ~> requests[r].pc \in {"answered", "failed"}

\* One bad row does not keep its neighbours from their embedding: with fewer
\* dead rows than a night takes, every other one has its embedding some day.
Drains == \A i \in Rows \ (Dead \cup Warped) : born >= i ~> i \in embedded
=============================================================================
