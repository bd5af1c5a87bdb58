----------------------------- MODULE Observations -----------------------------
(***************************************************************************)
(* The observation rows of one territory on the Postgres backend, and the  *)
(* calls that change them.  An engagement is three writes and two reads;   *)
(* whoever edits a texture reads all of it and writes all of it back; a    *)
(* decay call and a dream replace the whole territory, in chunks, by what  *)
(* they read before.  Nothing locks.  A step is one database call.         *)
(*                                                                         *)
(* Of a texture only charge_phase is kept, as its index in PHASE_ORDER; of *)
(* the columns a rewrite leaves out, only processing_count.                *)
(***************************************************************************)
EXTENDS Integers, FiniteSets

CONSTANTS
  MaxStored,   \* bound on the observations ever stored, numbered as created
  Calls,       \* tool calls and nightly stages that may be in flight
  NoRow,       \* "no such row"
  Thresholds,  \* baseThreshold, by the paradoxes burning: {2, 3}
  ChunkSize,   \* CHUNK_SIZE of writeTerritory
  MaxLog,      \* bound on the entries of processing_log
  Misreads     \* may readTerritory swallow a failed query and return no rows?

Ids == 1..MaxStored
Phase == 0..3
Fresh == 0
Active == 1
Processing == 2
Metabolized == 3

ASSUME ObservationsAssumption ==
  /\ MaxStored \in Nat \ {0} /\ ChunkSize \in Nat \ {0} /\ MaxLog \in Nat
  /\ Thresholds \subseteq Nat \ {0} /\ Misreads \in BOOLEAN /\ NoRow \notin Phase
  /\ IsFiniteSet(Calls)

VARIABLES
  phase,    \* texture.charge_phase of a row, or NoRow
  count,    \* processing_count of a row
  log,      \* processing_log rows, per observation
  pc, held, later,  \* a call's next step, what it read, the chunks it still owes
  target,           \* the observation an engagement is about
  stored, deleted,  \* observations ever stored, ever deleted on purpose
  torn,             \* did a rewrite overlap a change of the row set, or die half done?
  overlapped        \* were two calls ever in flight at a time?

rows  == <<phase, count, log>>
local == <<pc, held, later, target>>
ghost == <<stored, deleted, torn>>
vars  == <<rows, local, ghost, overlapped>>

Step == {"idle", "log", "count", "check", "advance", "texture", "rewrite", "dreamt"}

TypeOK ==
  /\ phase \in [Ids -> Phase \cup {NoRow}] /\ count \in [Ids -> Nat] /\ log \in [Ids -> Nat]
  /\ pc \in [Calls -> Step] /\ held \in [Calls -> [Ids -> Phase \cup {NoRow}]]
  /\ later \in [Calls -> SUBSET Ids] /\ target \in [Calls -> Ids]
  /\ stored \subseteq Ids /\ deleted \subseteq Ids
  /\ torn \in BOOLEAN /\ overlapped \in BOOLEAN

Nothing == [o \in Ids |-> NoRow]

Init ==
  /\ phase = [Nothing EXCEPT ![1] = Fresh]
  /\ count = [o \in Ids |-> 0] /\ log = [o \in Ids |-> 0]
  /\ pc = [c \in Calls |-> "idle"] /\ held = [c \in Calls |-> Nothing]
  /\ later = [c \in Calls |-> {}] /\ target = [c \in Calls |-> 1]
  /\ stored = {1} /\ deleted = {}
  /\ torn = FALSE /\ overlapped = FALSE

Present == {o \in Ids : phase[o] # NoRow}
Snapshot(c) == {o \in Ids : held[c][o] # NoRow}
\* Ids are random: a new one is of no row, stored or held in memory.
Unused == Ids \ (stored \cup UNION {Snapshot(c) : c \in Calls})
Busy == \E c \in Calls : pc[c] # "idle"
Rewriting == \E c \in Calls : pc[c] \in {"rewrite", "dreamt"}
Overlap == overlapped' = (overlapped \/ Busy)

GoTo(c, step) == pc' = [pc EXCEPT ![c] = step]
HangUp(c) ==
  /\ GoTo(c, "idle") /\ held' = [held EXCEPT ![c] = Nothing]
  /\ later' = [later EXCEPT ![c] = {}] /\ target' = [target EXCEPT ![c] = 1]

-----------------------------------------------------------------------------
\* appendToTerritory: one INSERT.
Store(o) ==
  /\ o \in Unused /\ \A p \in stored : p < o
  /\ phase' = [phase EXCEPT ![o] = Fresh] /\ count' = [count EXCEPT ![o] = 0]
  /\ stored' = stored \cup {o} /\ torn' = (torn \/ Rewriting) /\ Overlap
  /\ UNCHANGED <<log, local, deleted>>

\* The order of the three calls of an engagement.
\* (Slip: the counter before the log entry.)
AfterPull_CountFirst == [pull |-> "count", count |-> "log", log |-> "check"]
AfterPull == [pull |-> "log", log |-> "count", count |-> "check"]

Entries == Cardinality({e \in Ids \X (1..MaxLog) : log[e[1]] >= e[2]})

\* mind_pull with process=true: the observation was found.
Pull(c, o) ==
  /\ pc[c] = "idle" /\ o \in Present /\ Overlap
  /\ Entries + Cardinality({d \in Calls : pc[d] = "log"}) < MaxLog
  /\ GoTo(c, AfterPull["pull"]) /\ target' = [target EXCEPT ![c] = o]
  /\ UNCHANGED <<rows, held, later, ghost>>

CreateProcessingEntry(c) ==
  /\ pc[c] = "log" /\ log' = [log EXCEPT ![target[c]] = @ + 1]
  /\ GoTo(c, AfterPull["log"])
  /\ UNCHANGED <<phase, count, held, later, target, ghost, overlapped>>

IncrementProcessingCount(c) ==
  /\ pc[c] = "count"
  /\ count' = [count EXCEPT ![target[c]] = IF target[c] \in Present THEN @ + 1 ELSE @]
  /\ GoTo(c, AfterPull["count"])
  /\ UNCHANGED <<phase, log, held, later, target, ghost, overlapped>>

CanAdvance(p) == p # NoRow /\ p < Metabolized

\* advanceChargePhase counts the whole log, then reads the phase.  Between the two
\* the log only grows, so they are one step here.
ReadPhase(c) ==
  LET now == phase[target[c]] IN
  /\ pc[c] = "check"
  /\ \E threshold \in Thresholds :
       IF log[target[c]] >= threshold /\ CanAdvance(now)
       THEN /\ GoTo(c, "advance") /\ held' = [held EXCEPT ![c][target[c]] = now]
            /\ UNCHANGED <<later, target>>
       ELSE HangUp(c)
  /\ UNCHANGED <<rows, ghost, overlapped>>

\* (Slip: the step counted from the default phase.)
NextPhase_FromFresh(p) == Fresh + 1
NextPhase(p) == p + 1

AdvancePhase(c) ==
  /\ pc[c] = "advance"
  /\ phase' = [phase EXCEPT ![target[c]] =
                 IF @ = NoRow THEN NoRow ELSE NextPhase(held[c][target[c]])]
  /\ HangUp(c)
  /\ UNCHANGED <<count, log, ghost, overlapped>>

-----------------------------------------------------------------------------
\* Whole textures read to be written back: of one observation by mind_edit, by an
\* accepted archival, dedup or skill (which metabolizes it), of many by the novelty
\* stage (which leaves the phase alone).
ReadTextures(c, S, metabolize) ==
  /\ pc[c] = "idle" /\ S # {} /\ S \subseteq Present
  /\ metabolize => Cardinality(S) = 1
  /\ held' = [held EXCEPT ![c] = [o \in Ids |->
                IF o \notin S THEN NoRow ELSE IF metabolize THEN Metabolized ELSE phase[o]]]
  /\ GoTo(c, "texture") /\ Overlap
  /\ UNCHANGED <<rows, later, target, stored, deleted, torn>>

\* updateObservationTexture, bulkReplaceTexture: an UPDATE touches only live rows.
WriteTextures(c) ==
  /\ pc[c] = "texture"
  /\ phase' = [o \in Ids |->
       IF o \in Present /\ held[c][o] # NoRow THEN held[c][o] ELSE phase[o]]
  /\ HangUp(c)
  /\ UNCHANGED <<count, log, ghost, overlapped>>

\* mind_edit's delete is one statement; its read before that decides nothing more.
\* (The links it removes are modelled in Proposals.)
DeleteObservation(o) ==
  /\ o \in Present /\ phase' = [phase EXCEPT ![o] = NoRow] /\ count' = [count EXCEPT ![o] = 0]
  /\ deleted' = deleted \cup {o} /\ torn' = (torn \/ Rewriting) /\ Overlap
  /\ UNCHANGED <<log, local, stored>>

-----------------------------------------------------------------------------
\* mind_maintain and mind_wake decay a territory, a dream drifts it: both read it,
\* change the textures in memory, and write the territory back.  Only a dream
\* moves phases (drifted), and only its readTerritory answers a failed query with
\* an empty list; decay reads with readAllTerritories, which throws.
ReadTerritory(c, drifted) ==
  LET read == [o \in Ids |-> IF o \in drifted THEN Metabolized ELSE phase[o]] IN
  /\ pc[c] = "idle" /\ Present # {} /\ Overlap
  /\ \A o \in drifted : phase[o] = Processing
  /\ \E snap \in {read} \cup (IF Misreads THEN {Nothing} ELSE {}) :
       held' = [held EXCEPT ![c] = snap]
  /\ torn' = (torn \/ Rewriting)
  /\ GoTo(c, "rewrite")
  /\ UNCHANGED <<rows, later, target, stored, deleted>>

\* The first ChunkSize members of S, in the order they were created.
Chunk(S) == {o \in S : Cardinality({p \in S : p < o}) < ChunkSize}
\* (Slip: the chunks after the first one are never written.)
Rest_Dropped(S) == {}
Rest(S) == S \ Chunk(S)

Done(c, rest) ==
  /\ later' = [later EXCEPT ![c] = rest]
  /\ GoTo(c, IF rest = {} THEN "dreamt" ELSE "rewrite")
  /\ UNCHANGED <<held, target>>

\* writeTerritory's first transaction: DELETE the territory, INSERT the first chunk.
WriteFirstChunk(c) ==
  LET chunk == Chunk(Snapshot(c)) IN
  /\ pc[c] = "rewrite" /\ later[c] = {}
  /\ phase' = [o \in Ids |-> IF o \in chunk THEN held[c][o] ELSE NoRow]
  /\ count' = [o \in Ids |-> 0]
  /\ stored' = stored \cup Snapshot(c) /\ Done(c, Rest(Snapshot(c)))
  /\ UNCHANGED <<log, deleted, torn, overlapped>>

\* ... and one more per further chunk: an upsert that keeps the other columns.
WriteNextChunk(c) ==
  LET chunk == Chunk(later[c]) IN
  /\ pc[c] = "rewrite" /\ later[c] # {}
  /\ phase' = [o \in Ids |-> IF o \in chunk THEN held[c][o] ELSE phase[o]]
  /\ Done(c, Rest(later[c]))
  /\ UNCHANGED <<count, log, ghost, overlapped>>

\* A dream adds a fragment to the rows in its memory and writes them all again.
DreamFragment(c, o) ==
  /\ pc[c] = "dreamt" /\ o \in Unused /\ \A p \in stored : p < o
  /\ held' = [held EXCEPT ![c][o] = Fresh] /\ GoTo(c, "rewrite")
  /\ UNCHANGED <<rows, later, target, ghost, overlapped>>

RewriteDone(c) ==
  /\ pc[c] = "dreamt" /\ HangUp(c)
  /\ UNCHANGED <<rows, ghost, overlapped>>

-----------------------------------------------------------------------------
\* runDecay, one UPDATE: phases age, by one step at most.
Aged(p) == IF p \in {Fresh, Active} THEN p + 1 ELSE p

RunDecay(S) ==
  /\ S # {} /\ S \subseteq Present
  /\ phase' = [o \in Ids |-> IF o \in S THEN Aged(phase[o]) ELSE phase[o]]
  /\ Overlap
  /\ UNCHANGED <<count, log, local, ghost>>

\* A statement fails, or the process dies.
Dies(c) ==
  /\ pc[c] # "idle"
  /\ torn' = (torn \/ later[c] # {}) /\ HangUp(c)
  /\ UNCHANGED <<rows, stored, deleted, overlapped>>

Call(c) ==
  \/ \E o \in Ids : Pull(c, o) \/ DreamFragment(c, o)
  \/ CreateProcessingEntry(c) \/ IncrementProcessingCount(c)
  \/ ReadPhase(c) \/ AdvancePhase(c)
  \/ \E S \in SUBSET Ids : \E metabolize \in BOOLEAN : ReadTextures(c, S, metabolize)
  \/ WriteTextures(c)
  \/ \E drifted \in SUBSET Ids : ReadTerritory(c, drifted)
  \/ WriteFirstChunk(c) \/ WriteNextChunk(c) \/ RewriteDone(c)
  \/ Dies(c)

Next ==
  \/ \E o \in Ids : Store(o) \/ DeleteObservation(o)
  \/ \E S \in SUBSET Ids : RunDecay(S)
  \/ \E c \in Calls : Call(c)

Spec == Init /\ [][Next]_vars

-----------------------------------------------------------------------------
\* What the rows promise.

\* An observation is lost, or comes back after its deletion, only where a rewrite
\* of its territory overlapped a store, a deletion or another rewrite, or died
\* between two chunks: until then every observation has its row, or is in a chunk
\* still to be written.
Owed == UNION {later[c] : c \in Calls}
NothingLost ==
  ~torn => /\ stored \ deleted \subseteq Present \cup Owed
           /\ deleted \cap Present = {}

\* Whatever overlaps or dies, a row's processing_count never exceeds the entries
\* of the log that documents it.
CountBehindLog == \A o \in Present : count[o] <= log[o]

\* Without two calls at a time, a charge phase never goes back.
PhaseKept ==
  \A o \in Present : phase'[o] # NoRow => overlapped' \/ phase'[o] >= phase[o]
PhaseNeverRegresses == [][PhaseKept]_vars

\* deeper.ts on mind_maintain: "run vividness and grip decay pass" - and nothing
\* else: what an observation was engaged with stays counted.
CountKept ==
  [][\A o \in Present : phase'[o] # NoRow => count'[o] >= count[o]]_vars
-----------------------------------------------------------------------------
\* The inductive strengthening of the properties above, in named parts.

\* A phase about to be advanced is not the last one.
AdvanceHeld == \A c \in Calls : pc[c] = "advance" => held[c][target[c]] \in Phase \ {Metabolized}

\* The log is ahead of the counter by the engagements between the two at least.
Counting(o) == {c \in Calls : pc[c] = "count" /\ target[c] = o}
CountInv == \A o \in Ids : count[o] + Cardinality(Counting(o)) <= log[o]

\* Rows, and the chunks owed, are of stored observations; chunks are owed only in
\* the middle of a rewrite, from its snapshot.
RowInv ==
  /\ Present \subseteq stored /\ deleted \subseteq stored
  /\ \A c \in Calls : later[c] # {} =>
       pc[c] = "rewrite" /\ later[c] \subseteq stored \cap Snapshot(c)

\* Until a rewrite is torn there is one at a time, and its snapshot is complete.
InRewrite(c) == pc[c] \in {"rewrite", "dreamt"}
RewriteInv ==
  ~torn => /\ \A c, d \in Calls : InRewrite(c) /\ InRewrite(d) => c = d
           /\ \A c \in Calls : InRewrite(c) =>
                stored \ deleted \subseteq Snapshot(c) /\ Snapshot(c) \cap deleted = {}

\* Until two calls overlap there is one at a time, and no phase it would write back
\* is behind the row's.
Ahead(c, o) == held[c][o] # NoRow /\ phase[o] # NoRow => held[c][o] >= phase[o]
OverlapInv ==
  ~overlapped =>
    /\ \A c, d \in Calls : pc[c] # "idle" /\ pc[d] # "idle" => c = d
    /\ \A c \in Calls : pc[c] = "advance" => Ahead(c, target[c])
    /\ \A c \in Calls : pc[c] = "texture" \/ InRewrite(c) => \A o \in Ids : Ahead(c, o)
=============================================================================
