-------------------------- MODULE ObservationsProof --------------------------
(***************************************************************************)
(* Proofs about Observations, for any number of observations, calls,       *)
(* chunks and thresholds.                                                  *)
(***************************************************************************)
EXTENDS Observations, FiniteSetTheorems, TLAPS

LEMMA Phases ==
  /\ Phase = {Fresh, Active, Processing, Metabolized} /\ NoRow \notin Phase
  /\ Phase \subseteq Int
  BY ObservationsAssumption DEF Phase, Fresh, Active, Processing, Metabolized

LEMMA Identifiers == 1 \in Ids /\ Ids \subseteq Int
  BY ObservationsAssumption DEF Ids

LEMMA HangUpType ==
  ASSUME TypeOK, NEW c \in Calls, HangUp(c)
  PROVE  /\ pc' \in [Calls -> Step] /\ held' \in [Calls -> [Ids -> Phase \cup {NoRow}]]
         /\ later' \in [Calls -> SUBSET Ids] /\ target' \in [Calls -> Ids]
  BY Identifiers DEF TypeOK, HangUp, GoTo, Nothing, Step

LEMMA ChunkWithin == \A S : Chunk(S) \subseteq S
  BY DEF Chunk

LEMMA TypeStep ==
  ASSUME TypeOK, AdvanceHeld, [Next]_vars
  PROVE  TypeOK' /\ AdvanceHeld'
<1> USE DEF TypeOK, rows, local, ghost, Overlap
<1>1. ASSUME NEW o \in Ids, Store(o) PROVE TypeOK' /\ AdvanceHeld'
  BY <1>1, Phases DEF Store, AdvanceHeld, Rewriting, Busy
<1>2. ASSUME NEW o \in Ids, DeleteObservation(o) PROVE TypeOK' /\ AdvanceHeld'
  BY <1>2 DEF DeleteObservation, AdvanceHeld, Rewriting, Busy
<1>3. ASSUME NEW S \in SUBSET Ids, RunDecay(S) PROVE TypeOK' /\ AdvanceHeld'
  <2>1. phase' \in [Ids -> Phase \cup {NoRow}]
    BY <1>3, Phases DEF RunDecay, Aged, Phase, Fresh, Active, Present
  <2> QED BY <1>3, <2>1 DEF RunDecay, AdvanceHeld, Busy
<1>4. ASSUME NEW c \in Calls, NEW o \in Ids, Pull(c, o) PROVE TypeOK' /\ AdvanceHeld'
  BY <1>4 DEF Pull, GoTo, AfterPull, Step, AdvanceHeld, Busy
<1>5. ASSUME NEW c \in Calls, NEW o \in Ids, DreamFragment(c, o) PROVE TypeOK' /\ AdvanceHeld'
  <2>1. held' \in [Calls -> [Ids -> Phase \cup {NoRow}]] /\ pc' \in [Calls -> Step]
    BY <1>5, Phases DEF DreamFragment, GoTo, Step
  <2>2. \A d \in Calls : pc'[d] = "advance" => pc[d] = "advance" /\ held'[d] = held[d]
    BY <1>5 DEF DreamFragment, GoTo
  <2> QED BY <1>5, <2>1, <2>2 DEF DreamFragment, AdvanceHeld
<1>6. ASSUME NEW c \in Calls, CreateProcessingEntry(c) PROVE TypeOK' /\ AdvanceHeld'
  BY <1>6 DEF CreateProcessingEntry, GoTo, AfterPull, Step, AdvanceHeld
<1>7. ASSUME NEW c \in Calls, IncrementProcessingCount(c) PROVE TypeOK' /\ AdvanceHeld'
  BY <1>7 DEF IncrementProcessingCount, GoTo, AfterPull, Step, AdvanceHeld
<1>8. ASSUME NEW c \in Calls, ReadPhase(c) PROVE TypeOK' /\ AdvanceHeld'
  <2>1. CASE /\ CanAdvance(phase[target[c]]) /\ GoTo(c, "advance")
             /\ held' = [held EXCEPT ![c][target[c]] = phase[target[c]]]
             /\ UNCHANGED <<later, target>>
    <3>1. phase[target[c]] \in Phase \ {Metabolized}
      BY <2>1, Phases DEF CanAdvance, Metabolized
    <3>2. held' \in [Calls -> [Ids -> Phase \cup {NoRow}]] /\ pc' \in [Calls -> Step]
      BY <2>1, <3>1 DEF GoTo, Step
    <3>3. \A d \in Calls \ {c} : pc'[d] = pc[d] /\ held'[d] = held[d]
      BY <2>1 DEF GoTo
    <3>4. held'[c][target[c]] = phase[target[c]]
      BY <2>1
    <3> QED BY <1>8, <2>1, <3>1, <3>2, <3>3, <3>4 DEF ReadPhase, AdvanceHeld
  <2>2. CASE HangUp(c)
    BY <1>8, <2>2, HangUpType DEF ReadPhase, AdvanceHeld, HangUp, GoTo
  <2> QED BY <1>8, <2>1, <2>2 DEF ReadPhase
<1>9. ASSUME NEW c \in Calls, AdvancePhase(c) PROVE TypeOK' /\ AdvanceHeld'
  <2>1. NextPhase(held[c][target[c]]) \in Phase
    BY <1>9, Phases DEF AdvancePhase, AdvanceHeld, NextPhase, Phase, Metabolized
  <2>2. phase' \in [Ids -> Phase \cup {NoRow}]
    BY <1>9, <2>1 DEF AdvancePhase
  <2> QED BY <1>9, <2>2, HangUpType DEF AdvancePhase, AdvanceHeld, HangUp, GoTo
<1>10. ASSUME NEW c \in Calls, NEW S \in SUBSET Ids, NEW m \in BOOLEAN, ReadTextures(c, S, m)
       PROVE  TypeOK' /\ AdvanceHeld'
  <2>1. held' \in [Calls -> [Ids -> Phase \cup {NoRow}]] /\ pc' \in [Calls -> Step]
    BY <1>10, Phases DEF ReadTextures, GoTo, Step
  <2>2. \A d \in Calls : pc'[d] = "advance" => pc[d] = "advance" /\ held'[d] = held[d]
    BY <1>10 DEF ReadTextures, GoTo
  <2> QED BY <1>10, <2>1, <2>2 DEF ReadTextures, AdvanceHeld, Busy
<1>11. ASSUME NEW c \in Calls, WriteTextures(c) PROVE TypeOK' /\ AdvanceHeld'
  <2>1. phase' \in [Ids -> Phase \cup {NoRow}]
    BY <1>11 DEF WriteTextures
  <2> QED BY <1>11, <2>1, HangUpType DEF WriteTextures, AdvanceHeld, HangUp, GoTo
<1>12. ASSUME NEW c \in Calls, NEW D \in SUBSET Ids, ReadTerritory(c, D)
       PROVE  TypeOK' /\ AdvanceHeld'
  <2> DEFINE read == [o \in Ids |-> IF o \in D THEN Metabolized ELSE phase[o]]
  <2>1. read \in [Ids -> Phase \cup {NoRow}] /\ Nothing \in [Ids -> Phase \cup {NoRow}]
    BY Phases DEF Nothing
  <2>2. PICK snap \in {read} \cup (IF Misreads THEN {Nothing} ELSE {}) :
          held' = [held EXCEPT ![c] = snap]
    BY <1>12 DEF ReadTerritory
  <2>3. held' \in [Calls -> [Ids -> Phase \cup {NoRow}]]
    BY <2>1, <2>2
  <2>4. pc' \in [Calls -> Step]
    BY <1>12 DEF ReadTerritory, GoTo, Step
  <2>5. \A d \in Calls : pc'[d] = "advance" => pc[d] = "advance" /\ held'[d] = held[d]
    BY <1>12, <2>2 DEF ReadTerritory, GoTo
  <2> QED BY <1>12, <2>3, <2>4, <2>5 DEF ReadTerritory, AdvanceHeld, Busy, Rewriting
<1>13. ASSUME NEW c \in Calls, WriteFirstChunk(c) PROVE TypeOK' /\ AdvanceHeld'
  <2>1. Snapshot(c) \subseteq Ids /\ Rest(Snapshot(c)) \subseteq Ids
    BY DEF Snapshot, Rest
  <2>2. phase' \in [Ids -> Phase \cup {NoRow}]
    BY <1>13 DEF WriteFirstChunk
  <2>3. later' \in [Calls -> SUBSET Ids] /\ pc' \in [Calls -> Step]
    BY <1>13, <2>1 DEF WriteFirstChunk, Done, GoTo, Step
  <2>4. \A d \in Calls : pc'[d] = "advance" => pc[d] = "advance"
    BY <1>13 DEF WriteFirstChunk, Done, GoTo
  <2> QED BY <1>13, <2>1, <2>2, <2>3, <2>4 DEF WriteFirstChunk, Done, AdvanceHeld
<1>14. ASSUME NEW c \in Calls, WriteNextChunk(c) PROVE TypeOK' /\ AdvanceHeld'
  <2>1. phase' \in [Ids -> Phase \cup {NoRow}]
    BY <1>14 DEF WriteNextChunk
  <2>2. later' \in [Calls -> SUBSET Ids] /\ pc' \in [Calls -> Step]
    BY <1>14 DEF WriteNextChunk, Done, GoTo, Rest, Step
  <2>3. \A d \in Calls : pc'[d] = "advance" => pc[d] = "advance"
    BY <1>14 DEF WriteNextChunk, Done, GoTo
  <2> QED BY <1>14, <2>1, <2>2, <2>3 DEF WriteNextChunk, Done, AdvanceHeld
<1>15. ASSUME NEW c \in Calls, RewriteDone(c) PROVE TypeOK' /\ AdvanceHeld'
  BY <1>15, HangUpType DEF RewriteDone, AdvanceHeld, HangUp, GoTo
<1>16. ASSUME NEW c \in Calls, Dies(c) PROVE TypeOK' /\ AdvanceHeld'
  BY <1>16, HangUpType DEF Dies, AdvanceHeld, HangUp, GoTo
<1>17. CASE UNCHANGED vars
  BY <1>17 DEF vars, AdvanceHeld
<1> QED
  BY <1>1, <1>2, <1>3, <1>4, <1>5, <1>6, <1>7, <1>8, <1>9, <1>10, <1>11, <1>12, <1>13,
     <1>14, <1>15, <1>16, <1>17 DEF Next, Call

LEMMA TypeInit == Init => TypeOK /\ AdvanceHeld
<1>1. Nothing \in [Ids -> Phase \cup {NoRow}]
  BY DEF Nothing
<1>2. 1 \in Ids /\ Fresh \in Phase
  BY Phases, Identifiers
<1>3. [Nothing EXCEPT ![1] = Fresh] \in [Ids -> Phase \cup {NoRow}]
  BY <1>1, <1>2
<1> SUFFICES ASSUME Init PROVE TypeOK /\ AdvanceHeld
  OBVIOUS
<1>4. /\ phase \in [Ids -> Phase \cup {NoRow}] /\ count \in [Ids -> Nat] /\ log \in [Ids -> Nat]
      /\ stored \subseteq Ids /\ deleted \subseteq Ids /\ torn \in BOOLEAN /\ overlapped \in BOOLEAN
  BY <1>2, <1>3 DEF Init
<1>5. held \in [Calls -> [Ids -> Phase \cup {NoRow}]]
  BY <1>1 DEF Init
<1>6. later \in [Calls -> SUBSET Ids] /\ target \in [Calls -> Ids] /\ pc \in [Calls -> Step]
  BY <1>2 DEF Init, Step
<1>7. AdvanceHeld
  BY DEF Init, AdvanceHeld
<1> QED BY <1>4, <1>5, <1>6, <1>7 DEF TypeOK

\* Every state has its types, and advances only phases that have a next one.
THEOREM TypeCorrect == Spec => [](TypeOK /\ AdvanceHeld)
  BY TypeInit, TypeStep, PTL DEF Spec
-----------------------------------------------------------------------------
\* The counter and the log.

\* What leaves the log at least as long, the counter at most as high and adds no
\* engagement between the two, keeps the bound.
LEMMA CountKeptBehind ==
  ASSUME TypeOK, TypeOK', CountInv,
         \A o \in Ids : count'[o] <= count[o] /\ log'[o] >= log[o],
         \A c \in Calls : pc'[c] = "count" => pc[c] = "count" /\ target'[c] = target[c]
  PROVE  CountInv'
<1> SUFFICES ASSUME NEW o \in Ids PROVE count'[o] + Cardinality(Counting(o)') <= log'[o]
  BY DEF CountInv
<1>1. Counting(o)' \subseteq Counting(o)
  BY DEF Counting
<1>2. IsFiniteSet(Counting(o))
  BY ObservationsAssumption, FS_Subset DEF Counting
<1>3. /\ Cardinality(Counting(o)') \in Nat /\ Cardinality(Counting(o)) \in Nat
      /\ Cardinality(Counting(o)') <= Cardinality(Counting(o))
  BY <1>1, <1>2, FS_Subset, FS_CardinalityType
<1>4. /\ count[o] \in Nat /\ count'[o] \in Nat /\ log[o] \in Nat /\ log'[o] \in Nat
      /\ count'[o] <= count[o] /\ log'[o] >= log[o]
  BY DEF TypeOK
<1>5. count[o] + Cardinality(Counting(o)) <= log[o]
  BY DEF CountInv
<1> QED BY <1>3, <1>4, <1>5

LEMMA CountStep ==
  ASSUME TypeOK, TypeOK', CountInv, [Next]_vars
  PROVE  CountInv'
<1> USE DEF rows, local, ghost
<1>0. \A o \in Ids : count[o] \in Nat /\ log[o] \in Nat
  BY DEF TypeOK
<1>1. ASSUME NEW o \in Ids, Store(o) PROVE CountInv'
  <2>1. \A p \in Ids : count'[p] <= count[p] /\ log'[p] >= log[p]
    BY <1>0, <1>1 DEF Store, TypeOK
  <2> QED BY <1>1, <2>1, CountKeptBehind DEF Store
<1>2. ASSUME NEW o \in Ids, DeleteObservation(o) PROVE CountInv'
  <2>1. \A p \in Ids : count'[p] <= count[p] /\ log'[p] >= log[p]
    BY <1>0, <1>2 DEF DeleteObservation, TypeOK
  <2> QED BY <1>2, <2>1, CountKeptBehind DEF DeleteObservation
<1>3. ASSUME NEW S \in SUBSET Ids, RunDecay(S) PROVE CountInv'
  BY <1>0, <1>3, CountKeptBehind DEF RunDecay
<1>4. ASSUME NEW c \in Calls, CreateProcessingEntry(c) PROVE CountInv'
  <2> DEFINE t == target[c]
  <2>1. t \in Ids /\ pc[c] = "log" /\ log' = [log EXCEPT ![t] = @ + 1] /\ count' = count
        /\ target' = target /\ pc' = [pc EXCEPT ![c] = "count"]
    BY <1>4 DEF CreateProcessingEntry, GoTo, AfterPull, TypeOK
  <2>2. ASSUME NEW o \in Ids PROVE count'[o] + Cardinality(Counting(o)') <= log'[o]
    <3>1. IsFiniteSet(Counting(o)) /\ Cardinality(Counting(o)) \in Nat
      BY ObservationsAssumption, FS_Subset, FS_CardinalityType DEF Counting
    <3>2. CASE o = t
      <4>1. Counting(o)' = Counting(o) \cup {c} /\ c \notin Counting(o)
        BY <2>1, <3>2 DEF Counting, TypeOK
      <4>2. Cardinality(Counting(o)') = Cardinality(Counting(o)) + 1
        BY <3>1, <4>1, FS_AddElement
      <4>3. log'[o] = log[o] + 1 /\ count'[o] = count[o]
        BY <2>1, <3>2 DEF TypeOK
      <4>4. count[o] + Cardinality(Counting(o)) <= log[o]
        BY DEF CountInv
      <4> QED BY <1>0, <3>1, <4>2, <4>3, <4>4
    <3>3. CASE o # t
      <4>1. Counting(o)' = Counting(o)
        BY <2>1, <3>3 DEF Counting, TypeOK
      <4>2. log'[o] = log[o] /\ count'[o] = count[o]
        BY <2>1, <3>3 DEF TypeOK
      <4> QED BY <4>1, <4>2 DEF CountInv
    <3> QED BY <3>2, <3>3
  <2> QED BY <2>2 DEF CountInv
<1>5. ASSUME NEW c \in Calls, IncrementProcessingCount(c) PROVE CountInv'
  <2> DEFINE t == target[c]
  <2>1. t \in Ids /\ pc[c] = "count" /\ log' = log /\ target' = target
        /\ count' = [count EXCEPT ![t] = IF t \in Present THEN @ + 1 ELSE @]
        /\ pc' = [pc EXCEPT ![c] = "check"]
    BY <1>5 DEF IncrementProcessingCount, GoTo, AfterPull, TypeOK
  <2>2. ASSUME NEW o \in Ids PROVE count'[o] + Cardinality(Counting(o)') <= log'[o]
    <3>1. IsFiniteSet(Counting(o)) /\ Cardinality(Counting(o)) \in Nat
      BY ObservationsAssumption, FS_Subset, FS_CardinalityType DEF Counting
    <3>2. CASE o = t
      <4>1. Counting(o)' = Counting(o) \ {c} /\ c \in Counting(o)
        BY <2>1, <3>2 DEF Counting, TypeOK
      <4>2. Cardinality(Counting(o)') = Cardinality(Counting(o)) - 1
        BY <3>1, <4>1, FS_RemoveElement
      <4>3. log'[o] = log[o] /\ (count'[o] = count[o] \/ count'[o] = count[o] + 1)
        BY <2>1, <3>2 DEF TypeOK
      <4>4. count[o] + Cardinality(Counting(o)) <= log[o]
        BY DEF CountInv
      <4> QED BY <1>0, <3>1, <4>2, <4>3, <4>4
    <3>3. CASE o # t
      <4>1. Counting(o)' = Counting(o)
        BY <2>1, <3>3 DEF Counting, TypeOK
      <4>2. log'[o] = log[o] /\ count'[o] = count[o]
        BY <2>1, <3>3 DEF TypeOK
      <4> QED BY <4>1, <4>2 DEF CountInv
    <3> QED BY <3>2, <3>3
  <2> QED BY <2>2 DEF CountInv
<1>6. ASSUME NEW c \in Calls, NEW o \in Ids, Pull(c, o) \/ DreamFragment(c, o) PROVE CountInv'
  <2>1. \A d \in Calls : pc'[d] = "count" => pc[d] = "count" /\ target'[d] = target[d]
    BY <1>6 DEF Pull, DreamFragment, GoTo, AfterPull, TypeOK
  <2> QED BY <1>0, <1>6, <2>1, CountKeptBehind DEF Pull, DreamFragment
<1>7. ASSUME NEW c \in Calls, ReadPhase(c) \/ AdvancePhase(c) \/ WriteTextures(c)
                              \/ RewriteDone(c) \/ Dies(c)
      PROVE CountInv'
  <2>1. \A d \in Calls : pc'[d] = "count" => pc[d] = "count" /\ target'[d] = target[d]
    BY <1>7 DEF ReadPhase, AdvancePhase, WriteTextures, RewriteDone, Dies, HangUp, GoTo, TypeOK
  <2>2. count' = count /\ log' = log
    BY <1>7 DEF ReadPhase, AdvancePhase, WriteTextures, RewriteDone, Dies
  <2> QED BY <1>0, <2>1, <2>2, CountKeptBehind
<1>8. ASSUME NEW c \in Calls, NEW S \in SUBSET Ids,
             (\E m \in BOOLEAN : ReadTextures(c, S, m)) \/ ReadTerritory(c, S)
      PROVE CountInv'
  <2>1. \A d \in Calls : pc'[d] = "count" => pc[d] = "count" /\ target'[d] = target[d]
    BY <1>8 DEF ReadTextures, ReadTerritory, GoTo, TypeOK
  <2>2. count' = count /\ log' = log
    BY <1>8 DEF ReadTextures, ReadTerritory
  <2> QED BY <1>0, <2>1, <2>2, CountKeptBehind
<1>9. ASSUME NEW c \in Calls, WriteFirstChunk(c) \/ WriteNextChunk(c) PROVE CountInv'
  <2>1. \A d \in Calls : pc'[d] = "count" => pc[d] = "count" /\ target'[d] = target[d]
    BY <1>9 DEF WriteFirstChunk, WriteNextChunk, Done, GoTo, TypeOK
  <2>2. \A o \in Ids : count'[o] <= count[o] /\ log'[o] >= log[o]
    BY <1>0, <1>9 DEF WriteFirstChunk, WriteNextChunk
  <2> QED BY <2>1, <2>2, CountKeptBehind
<1>10. CASE UNCHANGED vars
  BY <1>0, <1>10, CountKeptBehind DEF vars
<1> QED
  BY <1>1, <1>2, <1>3, <1>4, <1>5, <1>6, <1>7, <1>8, <1>9, <1>10 DEF Next, Call

LEMMA CountInit == Init => CountInv
<1> SUFFICES ASSUME Init, NEW o \in Ids PROVE count[o] + Cardinality(Counting(o)) <= log[o]
  BY DEF CountInv
<1>1. Counting(o) = {}
  BY DEF Init, Counting
<1> QED BY <1>1, FS_EmptySet DEF Init

\* Whatever overlaps, dies or is rewritten, and with any number of engagements in
\* flight, no row counts more engagements than the log documents.
THEOREM CountsDocumented == Spec => []CountBehindLog
<1>1. TypeOK /\ CountInv => CountBehindLog
  <2> SUFFICES ASSUME TypeOK, CountInv, NEW o \in Ids PROVE count[o] <= log[o]
    BY DEF CountBehindLog, Present
  <2>1. Cardinality(Counting(o)) \in Nat
    BY ObservationsAssumption, FS_Subset, FS_CardinalityType DEF Counting
  <2> QED BY <2>1 DEF TypeOK, CountInv
<1>2. TypeOK /\ TypeOK' /\ CountInv /\ [Next]_vars => CountInv'
  BY CountStep
<1> QED BY <1>1, <1>2, CountInit, TypeCorrect, PTL DEF Spec
-----------------------------------------------------------------------------
\* The rows and the chunks owed.

LEMMA RowKept ==
  ASSUME RowInv, Present' \subseteq stored', deleted' \subseteq stored', stored \subseteq stored',
         \A d \in Calls : later'[d] # {} =>
           later'[d] = later[d] /\ pc'[d] = pc[d] /\ held'[d] = held[d]
  PROVE  RowInv'
  BY DEF RowInv, Snapshot

LEMMA RowStep ==
  ASSUME TypeOK, TypeOK', AdvanceHeld, RowInv, [Next]_vars
  PROVE  RowInv'
<1> USE DEF rows, local, ghost
<1>0. /\ Present \subseteq stored /\ deleted \subseteq stored
      /\ \A d \in Calls : later[d] # {} => pc[d] = "rewrite"
  BY DEF RowInv
<1>1. ASSUME NEW o \in Ids, Store(o) PROVE RowInv'
  <2>1. Present' \subseteq stored'
    BY <1>0, <1>1 DEF Store, Present, TypeOK
  <2> QED BY <1>0, <1>1, <2>1, RowKept DEF Store
<1>2. ASSUME NEW o \in Ids, DeleteObservation(o) PROVE RowInv'
  <2>1. Present' \subseteq stored' /\ o \in stored
    BY <1>0, <1>2 DEF DeleteObservation, Present, TypeOK
  <2> QED BY <1>0, <1>2, <2>1, RowKept DEF DeleteObservation
<1>3. ASSUME NEW S \in SUBSET Ids, RunDecay(S) PROVE RowInv'
  <2>1. Present' \subseteq Present
    BY <1>3 DEF RunDecay, Present, TypeOK
  <2> QED BY <1>0, <1>3, <2>1, RowKept DEF RunDecay
<1>4. ASSUME NEW c \in Calls, NEW o \in Ids, Pull(c, o) PROVE RowInv'
  <2>1. \A d \in Calls : later'[d] # {} => pc'[d] = pc[d]
    BY <1>0, <1>4 DEF Pull, GoTo, TypeOK
  <2>2. Present' = Present
    BY <1>4 DEF Pull, Present
  <2> QED BY <1>0, <1>4, <2>1, <2>2, RowKept DEF Pull
<1>5. ASSUME NEW c \in Calls, NEW o \in Ids, DreamFragment(c, o) PROVE RowInv'
  <2>1. \A d \in Calls : later'[d] # {} => pc'[d] = pc[d] /\ held'[d] = held[d]
    BY <1>0, <1>5 DEF DreamFragment, GoTo, TypeOK
  <2>2. Present' = Present
    BY <1>5 DEF DreamFragment, Present
  <2> QED BY <1>0, <1>5, <2>1, <2>2, RowKept DEF DreamFragment
<1>6. ASSUME NEW c \in Calls, CreateProcessingEntry(c) \/ IncrementProcessingCount(c)
      PROVE RowInv'
  <2>1. \A d \in Calls : later'[d] # {} => pc'[d] = pc[d]
    BY <1>0, <1>6 DEF CreateProcessingEntry, IncrementProcessingCount, GoTo, TypeOK
  <2>2. Present' = Present
    BY <1>6 DEF CreateProcessingEntry, IncrementProcessingCount, Present
  <2> QED BY <1>0, <1>6, <2>1, <2>2, RowKept DEF CreateProcessingEntry, IncrementProcessingCount
<1>7. ASSUME NEW c \in Calls, HangUp(c), Present' \subseteq Present,
             stored' = stored, deleted' = deleted
      PROVE RowInv'
  <2>1. \A d \in Calls : later'[d] # {} =>
          later'[d] = later[d] /\ pc'[d] = pc[d] /\ held'[d] = held[d]
    BY <1>7 DEF HangUp, GoTo, TypeOK
  <2> QED BY <1>0, <1>7, <2>1, RowKept
<1>8. ASSUME NEW c \in Calls, ReadPhase(c) PROVE RowInv'
  <2>1. CASE HangUp(c)
    BY <1>7, <1>8, <2>1 DEF ReadPhase, Present
  <2>2. CASE /\ GoTo(c, "advance") /\ UNCHANGED <<later, target>>
             /\ held' = [held EXCEPT ![c][target[c]] = phase[target[c]]]
    <3>1. \A d \in Calls : later'[d] # {} => pc'[d] = pc[d] /\ held'[d] = held[d]
      BY <1>0, <1>8, <2>2 DEF ReadPhase, GoTo, TypeOK
    <3>2. Present' = Present
      BY <1>8 DEF ReadPhase, Present
    <3> QED BY <1>0, <1>8, <2>2, <3>1, <3>2, RowKept DEF ReadPhase
  <2> QED BY <1>8, <2>1, <2>2 DEF ReadPhase
<1>9. ASSUME NEW c \in Calls, AdvancePhase(c) PROVE RowInv'
  <2>1. Present' \subseteq Present
    BY <1>9 DEF AdvancePhase, Present, TypeOK
  <2> QED BY <1>7, <1>9, <2>1 DEF AdvancePhase
<1>10. ASSUME NEW c \in Calls, WriteTextures(c) PROVE RowInv'
  <2>1. Present' \subseteq Present
    BY <1>10 DEF WriteTextures, Present, TypeOK
  <2> QED BY <1>7, <1>10, <2>1 DEF WriteTextures
<1>11. ASSUME NEW c \in Calls, RewriteDone(c) \/ Dies(c) PROVE RowInv'
  BY <1>7, <1>11 DEF RewriteDone, Dies, Present
<1>12. ASSUME NEW c \in Calls, NEW S \in SUBSET Ids,
              (\E m \in BOOLEAN : ReadTextures(c, S, m)) \/ ReadTerritory(c, S)
       PROVE RowInv'
  <2>1. \A d \in Calls : later'[d] # {} => pc'[d] = pc[d] /\ held'[d] = held[d]
    BY <1>0, <1>12 DEF ReadTextures, ReadTerritory, GoTo, TypeOK
  <2>2. /\ Present' = Present /\ later' = later /\ stored' = stored /\ deleted' = deleted
    BY <1>12 DEF ReadTextures, ReadTerritory, Present
  <2> QED BY <1>0, <2>1, <2>2, RowKept
<1>13. ASSUME NEW c \in Calls, WriteFirstChunk(c) PROVE RowInv'
  <2>1. Present' \subseteq stored' /\ stored' = stored \cup Snapshot(c)
    BY <1>13, ChunkWithin DEF WriteFirstChunk, Present, TypeOK
  <2>2. \A d \in Calls : Snapshot(d)' = Snapshot(d)
    BY <1>13 DEF WriteFirstChunk, Done, Snapshot
  <2>3. /\ later'[c] \subseteq Snapshot(c) /\ (later'[c] # {} => pc'[c] = "rewrite")
        /\ \A d \in Calls \ {c} : later'[d] = later[d] /\ pc'[d] = pc[d]
    BY <1>13 DEF WriteFirstChunk, Done, GoTo, Rest, TypeOK
  <2> QED BY <1>13, <2>1, <2>2, <2>3 DEF RowInv, WriteFirstChunk
<1>14. ASSUME NEW c \in Calls, WriteNextChunk(c) PROVE RowInv'
  <2>1. Present' \subseteq Present \cup later[c]
    BY <1>14, ChunkWithin DEF WriteNextChunk, Present, TypeOK
  <2>2. \A d \in Calls : Snapshot(d)' = Snapshot(d)
    BY <1>14 DEF WriteNextChunk, Done, Snapshot
  <2>3. /\ later'[c] \subseteq later[c] /\ (later'[c] # {} => pc'[c] = "rewrite")
        /\ \A d \in Calls \ {c} : later'[d] = later[d] /\ pc'[d] = pc[d]
    BY <1>14 DEF WriteNextChunk, Done, GoTo, Rest, TypeOK
  <2>4. later[c] \subseteq stored \cap Snapshot(c) /\ stored' = stored /\ deleted' = deleted
    BY <1>14 DEF RowInv, WriteNextChunk
  <2> QED BY <2>1, <2>2, <2>3, <2>4 DEF RowInv
<1>15. CASE UNCHANGED vars
  BY <1>15 DEF vars, RowInv, Present, Snapshot
<1> QED
  BY <1>1, <1>2, <1>3, <1>4, <1>5, <1>6, <1>8, <1>9, <1>10, <1>11, <1>12, <1>13, <1>14, <1>15
  DEF Next, Call

LEMMA RowInit == Init => RowInv
<1> SUFFICES ASSUME Init PROVE RowInv
  OBVIOUS
<1>1. \A o \in Ids \ {1} : phase[o] = NoRow
  BY DEF Init, Nothing
<1> QED BY <1>1 DEF Init, RowInv, Present
-----------------------------------------------------------------------------
\* Nothing is lost until a rewrite is torn.

Kept == RewriteInv /\ NothingLost

\* What leaves the rows, the chunks owed and the rewrites in flight as they are.
LEMMA KeptStill ==
  ASSUME Kept, torn' = torn, Present' = Present, stored' = stored, deleted' = deleted,
         \A d \in Calls : later'[d] = later[d],
         \A d \in Calls : InRewrite(d)' => InRewrite(d) /\ held'[d] = held[d]
  PROVE  Kept'
<1>1. Owed' = Owed
  BY DEF Owed
<1>2. \A d \in Calls : InRewrite(d)' => Snapshot(d)' = Snapshot(d)
  BY DEF Snapshot
<1>3. RewriteInv'
  BY <1>2 DEF Kept, RewriteInv
<1> QED BY <1>1, <1>3 DEF Kept, NothingLost

\* Nobody owes a chunk unless the one rewrite in flight does.
LEMMA SoleOwer ==
  ASSUME RowInv, Kept, ~torn, NEW c \in Calls, InRewrite(c)
  PROVE  \A d \in Calls \ {c} : ~InRewrite(d) /\ later[d] = {}
  BY DEF RowInv, Kept, RewriteInv, InRewrite

LEMMA NoOwer ==
  ASSUME RowInv, ~Rewriting
  PROVE  Owed = {} /\ \A d \in Calls : ~InRewrite(d)
  BY DEF RowInv, Rewriting, InRewrite, Owed

LEMMA KeptStep ==
  ASSUME ~Misreads, TypeOK, TypeOK', AdvanceHeld, RowInv, Kept, [Next]_vars
  PROVE  Kept'
<1> USE DEF rows, local, ghost
<1>0. /\ \A d \in Calls : later[d] # {} => pc[d] = "rewrite"
      /\ Present \subseteq stored /\ deleted \subseteq stored
  BY DEF RowInv
<1>1. ASSUME NEW o \in Ids, Store(o) PROVE Kept'
  <2> SUFFICES ASSUME ~torn' PROVE Kept'
    BY DEF Kept, RewriteInv, NothingLost
  <2>1. ~torn /\ ~Rewriting
    BY <1>1 DEF Store, TypeOK
  <2>2. \A d \in Calls : ~InRewrite(d)'
    BY <1>1, <2>1, NoOwer DEF Store, InRewrite
  <2>3. Present' = Present \cup {o}
    BY <1>1, Phases DEF Store, Present, TypeOK
  <2>4. o \notin deleted /\ stored' = stored \cup {o} /\ deleted' = deleted
    BY <1>0, <1>1 DEF Store, Unused
  <2>5. stored \ deleted \subseteq Present /\ deleted \cap Present = {}
    BY <2>1, NoOwer DEF Kept, NothingLost
  <2> QED BY <2>2, <2>3, <2>4, <2>5 DEF Kept, RewriteInv, NothingLost
<1>2. ASSUME NEW o \in Ids, DeleteObservation(o) PROVE Kept'
  <2> SUFFICES ASSUME ~torn' PROVE Kept'
    BY DEF Kept, RewriteInv, NothingLost
  <2>1. ~torn /\ ~Rewriting
    BY <1>2 DEF DeleteObservation, TypeOK
  <2>2. \A d \in Calls : ~InRewrite(d)'
    BY <1>2, <2>1, NoOwer DEF DeleteObservation, InRewrite
  <2>3. Present' = Present \ {o} /\ stored' = stored /\ deleted' = deleted \cup {o}
    BY <1>2 DEF DeleteObservation, Present, TypeOK
  <2>4. stored \ deleted \subseteq Present /\ deleted \cap Present = {}
    BY <2>1, NoOwer DEF Kept, NothingLost
  <2> QED BY <2>2, <2>3, <2>4 DEF Kept, RewriteInv, NothingLost
<1>3. ASSUME NEW S \in SUBSET Ids, RunDecay(S) PROVE Kept'
  <2>1. \A o \in Ids : phase'[o] = NoRow <=> phase[o] = NoRow
    <3>1. ASSUME NEW o \in S PROVE phase'[o] \in Phase /\ phase[o] # NoRow
      BY <1>3, <3>1, Phases DEF RunDecay, Aged, Present, TypeOK, Phase, Fresh, Active
    <3>2. \A o \in Ids \ S : phase'[o] = phase[o]
      BY <1>3 DEF RunDecay
    <3> QED BY <3>1, <3>2, Phases
  <2>2. Present' = Present
    BY <2>1 DEF Present
  <2> QED BY <1>3, <2>2, KeptStill DEF RunDecay, InRewrite
<1>4. ASSUME NEW c \in Calls, NEW o \in Ids, Pull(c, o) PROVE Kept'
  <2>1. \A d \in Calls : InRewrite(d)' => InRewrite(d)
    BY <1>4 DEF Pull, GoTo, AfterPull, InRewrite, TypeOK
  <2> QED BY <1>4, <2>1, KeptStill DEF Pull, Present
<1>5. ASSUME NEW c \in Calls, NEW o \in Ids, DreamFragment(c, o) PROVE Kept'
  <2> SUFFICES ASSUME ~torn' PROVE Kept'
    BY DEF Kept, RewriteInv, NothingLost
  <2>1. ~torn /\ InRewrite(c)
    BY <1>5 DEF DreamFragment, InRewrite
  <2>2. \A d \in Calls \ {c} : ~InRewrite(d)'
    BY <1>5, <2>1, SoleOwer DEF DreamFragment, GoTo, InRewrite, TypeOK
  <2>3. Snapshot(c)' = Snapshot(c) \cup {o}
    BY <1>5, Phases DEF DreamFragment, Snapshot, TypeOK
  <2>4. o \notin deleted
    BY <1>0, <1>5 DEF DreamFragment, Unused
  <2>5. stored \ deleted \subseteq Snapshot(c) /\ Snapshot(c) \cap deleted = {}
    BY <2>1 DEF Kept, RewriteInv
  <2>6. RewriteInv'
    BY <1>5, <2>2, <2>3, <2>4, <2>5 DEF RewriteInv, DreamFragment
  <2>7. NothingLost'
    BY <1>5 DEF Kept, NothingLost, DreamFragment, Present, Owed
  <2> QED BY <2>6, <2>7 DEF Kept
<1>6. ASSUME NEW c \in Calls, CreateProcessingEntry(c) \/ IncrementProcessingCount(c)
      PROVE Kept'
  <2>1. \A d \in Calls : InRewrite(d)' => InRewrite(d)
    BY <1>6 DEF CreateProcessingEntry, IncrementProcessingCount, GoTo, AfterPull, InRewrite, TypeOK
  <2> QED BY <1>6, <2>1, KeptStill DEF CreateProcessingEntry, IncrementProcessingCount, Present
<1>7. ASSUME NEW c \in Calls, HangUp(c), later[c] = {}, Present' = Present,
             stored' = stored, deleted' = deleted, torn' = torn
      PROVE Kept'
  <2>1. /\ \A d \in Calls : later'[d] = later[d]
        /\ \A d \in Calls : InRewrite(d)' => InRewrite(d) /\ held'[d] = held[d]
    BY <1>7 DEF HangUp, GoTo, InRewrite, TypeOK
  <2> QED BY <1>7, <2>1, KeptStill
<1>8. ASSUME NEW c \in Calls, ReadPhase(c) PROVE Kept'
  <2>1. CASE HangUp(c)
    <3>1. later[c] = {}
      BY <1>0, <1>8 DEF ReadPhase
    <3> QED BY <1>7, <1>8, <2>1, <3>1 DEF ReadPhase, Present
  <2>2. CASE /\ GoTo(c, "advance") /\ UNCHANGED <<later, target>>
             /\ held' = [held EXCEPT ![c][target[c]] = phase[target[c]]]
    <3>1. \A d \in Calls : InRewrite(d)' => InRewrite(d) /\ held'[d] = held[d]
      BY <1>8, <2>2 DEF ReadPhase, GoTo, InRewrite, TypeOK
    <3> QED BY <1>8, <2>2, <3>1, KeptStill DEF ReadPhase, Present
  <2> QED BY <1>8, <2>1, <2>2 DEF ReadPhase
<1>9. ASSUME NEW c \in Calls, AdvancePhase(c) PROVE Kept'
  <2>1. NextPhase(held[c][target[c]]) # NoRow
    BY <1>9, Phases DEF AdvancePhase, AdvanceHeld, NextPhase, Phase, Metabolized
  <2>2. Present' = Present
    BY <1>9, <2>1 DEF AdvancePhase, Present, TypeOK
  <2>3. later[c] = {}
    BY <1>0, <1>9 DEF AdvancePhase
  <2> QED BY <1>7, <1>9, <2>2, <2>3 DEF AdvancePhase
<1>10. ASSUME NEW c \in Calls, WriteTextures(c) PROVE Kept'
  <2>1. Present' = Present
    BY <1>10 DEF WriteTextures, Present
  <2>2. later[c] = {}
    BY <1>0, <1>10 DEF WriteTextures
  <2> QED BY <1>7, <1>10, <2>1, <2>2 DEF WriteTextures
<1>11. ASSUME NEW c \in Calls, RewriteDone(c) PROVE Kept'
  <2>1. later[c] = {}
    BY <1>0, <1>11 DEF RewriteDone
  <2> QED BY <1>7, <1>11, <2>1 DEF RewriteDone, Present
<1>12. ASSUME NEW c \in Calls, Dies(c) PROVE Kept'
  <2> SUFFICES ASSUME ~torn' PROVE Kept'
    BY DEF Kept, RewriteInv, NothingLost
  <2>1. later[c] = {} /\ torn' = torn
    BY <1>12 DEF Dies, TypeOK
  <2> QED BY <1>7, <1>12, <2>1 DEF Dies, Present
<1>13. ASSUME NEW c \in Calls, NEW S \in SUBSET Ids, NEW m \in BOOLEAN, ReadTextures(c, S, m)
       PROVE Kept'
  <2>1. \A d \in Calls : InRewrite(d)' => InRewrite(d) /\ held'[d] = held[d]
    BY <1>13 DEF ReadTextures, GoTo, InRewrite, TypeOK
  <2> QED BY <1>13, <2>1, KeptStill DEF ReadTextures, Present
<1>14. ASSUME NEW c \in Calls, NEW D \in SUBSET Ids, ReadTerritory(c, D) PROVE Kept'
  <2> SUFFICES ASSUME ~torn' PROVE Kept'
    BY DEF Kept, RewriteInv, NothingLost
  <2>1. ~torn /\ ~Rewriting
    BY <1>14 DEF ReadTerritory, TypeOK
  <2>2. \A d \in Calls \ {c} : ~InRewrite(d)'
    BY <1>14, <2>1, NoOwer DEF ReadTerritory, GoTo, InRewrite, TypeOK
  <2>3. held'[c] = [o \in Ids |-> IF o \in D THEN Metabolized ELSE phase[o]]
    BY <1>14 DEF ReadTerritory, TypeOK
  <2>4. Snapshot(c)' = Present
    BY <1>14, <2>3, Phases DEF ReadTerritory, Snapshot, Present
  <2>5. stored \ deleted \subseteq Present /\ deleted \cap Present = {}
    BY <2>1, NoOwer DEF Kept, NothingLost
  <2>6. RewriteInv'
    BY <1>14, <2>2, <2>4, <2>5 DEF RewriteInv, ReadTerritory
  <2>7. NothingLost'
    BY <1>14, <2>5 DEF NothingLost, ReadTerritory, Present
  <2> QED BY <2>6, <2>7 DEF Kept
<1>15. ASSUME NEW c \in Calls, WriteFirstChunk(c) PROVE Kept'
  <2> SUFFICES ASSUME ~torn' PROVE Kept'
    BY DEF Kept, RewriteInv, NothingLost
  <2>1. ~torn /\ InRewrite(c) /\ deleted' = deleted /\ stored' = stored \cup Snapshot(c)
    BY <1>15 DEF WriteFirstChunk, InRewrite
  <2>2. \A d \in Calls \ {c} : ~InRewrite(d)'
    BY <1>15, <2>1, SoleOwer DEF WriteFirstChunk, Done, GoTo, InRewrite, TypeOK
  <2>3. stored \ deleted \subseteq Snapshot(c) /\ Snapshot(c) \cap deleted = {}
    BY <2>1 DEF Kept, RewriteInv
  <2>4. Snapshot(c)' = Snapshot(c)
    BY <1>15 DEF WriteFirstChunk, Done, Snapshot
  <2>5. RewriteInv'
    BY <2>1, <2>2, <2>3, <2>4 DEF RewriteInv
  <2>6. Present' = Chunk(Snapshot(c)) /\ Chunk(Snapshot(c)) \subseteq Snapshot(c)
    BY <1>15, ChunkWithin DEF WriteFirstChunk, Present, Snapshot
  <2>7. Snapshot(c) \ Chunk(Snapshot(c)) \subseteq Owed'
    BY <1>15 DEF WriteFirstChunk, Done, Rest, Owed, TypeOK
  <2>8. NothingLost'
    BY <2>1, <2>3, <2>6, <2>7 DEF NothingLost
  <2> QED BY <2>5, <2>8 DEF Kept
<1>16. ASSUME NEW c \in Calls, WriteNextChunk(c) PROVE Kept'
  <2> SUFFICES ASSUME ~torn' PROVE Kept'
    BY DEF Kept, RewriteInv, NothingLost
  <2>1. ~torn /\ InRewrite(c) /\ deleted' = deleted /\ stored' = stored
    BY <1>16 DEF WriteNextChunk, InRewrite
  <2>2. \A d \in Calls \ {c} : ~InRewrite(d) /\ ~InRewrite(d)' /\ later[d] = {}
    BY <1>16, <2>1, SoleOwer DEF WriteNextChunk, Done, GoTo, InRewrite, TypeOK
  <2>3. stored \ deleted \subseteq Snapshot(c) /\ Snapshot(c) \cap deleted = {}
    BY <2>1 DEF Kept, RewriteInv
  <2>4. Snapshot(c)' = Snapshot(c) /\ later[c] \subseteq Snapshot(c)
    BY <1>16 DEF WriteNextChunk, Done, Snapshot, RowInv
  <2>5. RewriteInv'
    BY <2>1, <2>2, <2>3, <2>4 DEF RewriteInv
  <2>6. Present' = Present \cup Chunk(later[c]) /\ Chunk(later[c]) \subseteq later[c]
    <3>1. Chunk(later[c]) \subseteq later[c] /\ later[c] \subseteq Ids
      BY ChunkWithin DEF TypeOK
    <3>2. \A o \in Chunk(later[c]) : held[c][o] # NoRow
      BY <2>4, <3>1 DEF Snapshot
    <3> QED BY <1>16, <3>1, <3>2 DEF WriteNextChunk, Present
  <2>7. later[c] \ Chunk(later[c]) \subseteq Owed'
    BY <1>16 DEF WriteNextChunk, Done, Rest, Owed, TypeOK
  <2>8. Owed \subseteq later[c]
    BY <2>2 DEF Owed
  <2>9. stored \ deleted \subseteq Present \cup later[c] /\ deleted \cap Present = {}
    BY <2>1, <2>8 DEF Kept, NothingLost
  <2>10. NothingLost'
    BY <2>1, <2>3, <2>4, <2>6, <2>7, <2>9 DEF NothingLost
  <2> QED BY <2>5, <2>10 DEF Kept
<1>17. CASE UNCHANGED vars
  BY <1>17, KeptStill DEF vars, Present, InRewrite
<1> QED
  BY <1>1, <1>2, <1>3, <1>4, <1>5, <1>6, <1>8, <1>9, <1>10, <1>11, <1>12, <1>13, <1>14,
     <1>15, <1>16, <1>17 DEF Next, Call

LEMMA KeptInit == Init => Kept
<1> SUFFICES ASSUME Init PROVE Kept
  OBVIOUS
<1>1. phase[1] = Fresh /\ 1 \in Ids
  BY Identifiers DEF Init, Nothing
<1>2. 1 \in Present
  BY <1>1, Phases DEF Present
<1> QED BY <1>2 DEF Init, Kept, RewriteInv, InRewrite, NothingLost

\* If no read fails, then with any number of calls, chunks and deaths an observation
\* is lost, or comes back, only after a rewrite overlapped another change of the row
\* set or died between two chunks.
THEOREM RowsSafe == ~Misreads /\ Spec => []NothingLost
<1>1. TypeOK /\ TypeOK' /\ AdvanceHeld /\ RowInv /\ [Next]_vars => RowInv'
  BY RowStep
<1>2. ~Misreads /\ TypeOK /\ TypeOK' /\ AdvanceHeld /\ RowInv /\ Kept /\ [Next]_vars => Kept'
  BY KeptStep
<1>3. Kept => NothingLost
  BY DEF Kept
<1>4. Init => RowInv /\ Kept
  BY RowInit, KeptInit
<1>5. CASE Misreads
  BY <1>5
<1>6. CASE ~Misreads
  <2>1. TypeOK /\ TypeOK' /\ AdvanceHeld /\ RowInv /\ Kept /\ [Next]_vars => Kept'
    BY <1>2, <1>6
  <2> QED BY <1>1, <1>3, <1>4, <2>1, TypeCorrect, PTL DEF Spec
<1> QED BY <1>5, <1>6
-----------------------------------------------------------------------------
\* A phase goes back only under overlap.

LEMMA PhaseInt ==
  ASSUME TypeOK, NEW o \in Present
  PROVE  o \in Ids /\ phase[o] \in Phase /\ phase[o] \in Int
  BY Phases DEF TypeOK, Present

LEMMA SamePhase ==
  ASSUME TypeOK, phase' = phase
  PROVE  PhaseKept
  BY PhaseInt DEF PhaseKept

\* Whatever a call does, it is alone.
LEMMA Alone ==
  ASSUME OverlapInv, ~overlapped, NEW c \in Calls, pc[c] # "idle"
  PROVE  \A d \in Calls \ {c} : pc[d] = "idle"
  BY DEF OverlapInv

\* The one call in flight ends.
LEMMA AllIdle ==
  ASSUME \A d \in Calls : pc'[d] = "idle"
  PROVE  OverlapInv'
  BY DEF OverlapInv, InRewrite

LEMMA HungUp ==
  ASSUME TypeOK, OverlapInv, ~overlapped, NEW c \in Calls, pc[c] # "idle", HangUp(c)
  PROVE  OverlapInv'
<1>1. \A d \in Calls : pc'[d] = "idle"
  BY Alone DEF HangUp, GoTo, TypeOK
<1> QED BY <1>1, AllIdle

\* One call goes on, and what it holds is not behind the rows.
LEMMA OneBusy ==
  ASSUME NEW c \in Calls, \A d \in Calls \ {c} : pc'[d] = "idle",
         pc'[c] = "advance" => Ahead(c, target[c])',
         pc'[c] = "texture" \/ InRewrite(c)' => \A o \in Ids : Ahead(c, o)'
  PROVE  OverlapInv'
  BY DEF OverlapInv, InRewrite

LEMMA OverlapStep ==
  ASSUME TypeOK, TypeOK', AdvanceHeld, RowInv, OverlapInv, [Next]_vars
  PROVE  OverlapInv' /\ PhaseKept
<1> USE DEF rows, local, ghost
<1>a. \A o \in Ids : phase[o] # NoRow => phase[o] \in Phase /\ phase[o] \in Int
  BY Phases DEF TypeOK
<1>b. \A o \in Ids : phase'[o] # NoRow => phase'[o] \in Phase /\ phase'[o] \in Int
  BY Phases DEF TypeOK
<1>c. Fresh \in Int /\ Processing \in Int /\ Metabolized \in Int
      /\ \A p \in Phase : p \in Int /\ p <= Metabolized
  BY DEF Phase, Fresh, Processing, Metabolized
<1>d. \A d \in Calls, o \in Ids : held[d][o] # NoRow => held[d][o] \in Phase /\ held[d][o] \in Int
  BY Phases DEF TypeOK
<1>1. ASSUME NEW o \in Ids, Store(o) PROVE OverlapInv' /\ PhaseKept
  <2>1. phase[o] = NoRow /\ \A p \in Ids \ {o} : phase'[p] = phase[p]
    BY <1>1 DEF Store, Unused, RowInv, Present, TypeOK
  <2>2. PhaseKept
    BY <1>a, <2>1 DEF PhaseKept, Present
  <2>3. ~overlapped' => \A d \in Calls : pc'[d] = "idle"
    BY <1>1 DEF Store, Overlap, Busy
  <2> QED BY <2>2, <2>3, AllIdle DEF OverlapInv
<1>2. ASSUME NEW o \in Ids, DeleteObservation(o) PROVE OverlapInv' /\ PhaseKept
  <2>1. \A p \in Ids : phase'[p] # NoRow => phase'[p] = phase[p]
    BY <1>2 DEF DeleteObservation, TypeOK
  <2>2. PhaseKept
    BY <1>a, <2>1 DEF PhaseKept, Present
  <2>3. ~overlapped' => \A d \in Calls : pc'[d] = "idle"
    BY <1>2 DEF DeleteObservation, Overlap, Busy
  <2> QED BY <2>2, <2>3, AllIdle DEF OverlapInv
<1>3. ASSUME NEW S \in SUBSET Ids, RunDecay(S) PROVE OverlapInv' /\ PhaseKept
  <2>1. \A o \in Present : phase'[o] = phase[o] \/ phase'[o] = phase[o] + 1
    BY <1>3 DEF RunDecay, Aged, Present
  <2>2. PhaseKept
    BY <1>a, <2>1 DEF PhaseKept, Present
  <2>3. ~overlapped' => \A d \in Calls : pc'[d] = "idle"
    BY <1>3 DEF RunDecay, Overlap, Busy
  <2> QED BY <2>2, <2>3, AllIdle DEF OverlapInv
<1>4. ASSUME NEW c \in Calls, NEW o \in Ids, Pull(c, o) PROVE OverlapInv' /\ PhaseKept
  <2>1. phase' = phase /\ pc'[c] = "log"
        /\ (~overlapped' => \A d \in Calls \ {c} : pc'[d] = "idle")
    BY <1>4 DEF Pull, GoTo, AfterPull, Overlap, Busy, TypeOK
  <2>2. ~overlapped' => OverlapInv'
    BY <2>1, OneBusy DEF InRewrite
  <2> QED BY <2>1, <2>2, SamePhase DEF OverlapInv
<1>5. ASSUME NEW c \in Calls, NEW o \in Ids, DreamFragment(c, o) PROVE OverlapInv' /\ PhaseKept
  <2>1. phase' = phase /\ overlapped' = overlapped /\ pc[c] = "dreamt" /\ pc'[c] = "rewrite"
        /\ \A d \in Calls \ {c} : pc'[d] = pc[d]
    BY <1>5 DEF DreamFragment, GoTo, TypeOK
  <2>2. phase[o] = NoRow /\ \A p \in Ids \ {o} : held'[c][p] = held[c][p]
    BY <1>5 DEF DreamFragment, Unused, RowInv, Present, TypeOK
  <2>3. ASSUME ~overlapped PROVE OverlapInv'
    <3>1. \A p \in Ids : Ahead(c, p)'
      BY <2>1, <2>2, <2>3 DEF OverlapInv, Ahead, InRewrite
    <3>2. \A d \in Calls \ {c} : pc'[d] = "idle"
      BY <2>1, <2>3, Alone
    <3> QED BY <2>1, <3>1, <3>2, OneBusy DEF InRewrite
  <2> QED BY <2>1, <2>3, SamePhase DEF OverlapInv
<1>6. ASSUME NEW c \in Calls, CreateProcessingEntry(c) \/ IncrementProcessingCount(c)
      PROVE OverlapInv' /\ PhaseKept
  <2>1. phase' = phase /\ overlapped' = overlapped /\ pc[c] # "idle" /\ pc'[c] \in {"count", "check"}
        /\ \A d \in Calls \ {c} : pc'[d] = pc[d]
    BY <1>6 DEF CreateProcessingEntry, IncrementProcessingCount, GoTo, AfterPull, TypeOK
  <2>2. ~overlapped => OverlapInv'
    BY <2>1, Alone, OneBusy DEF InRewrite
  <2> QED BY <2>1, <2>2, SamePhase DEF OverlapInv
<1>7. ASSUME NEW c \in Calls, ReadPhase(c) PROVE OverlapInv' /\ PhaseKept
  <2>1. phase' = phase /\ overlapped' = overlapped /\ pc[c] # "idle"
    BY <1>7 DEF ReadPhase
  <2>2. CASE HangUp(c)
    BY <2>1, <2>2, HungUp, SamePhase DEF OverlapInv
  <2>3. CASE /\ GoTo(c, "advance") /\ UNCHANGED <<later, target>>
             /\ held' = [held EXCEPT ![c][target[c]] = phase[target[c]]]
    <3>1. pc'[c] = "advance" /\ \A d \in Calls \ {c} : pc'[d] = pc[d]
      BY <2>3 DEF GoTo, TypeOK
    <3>2. Ahead(c, target[c])'
      BY <1>a, <2>1, <2>3 DEF Ahead, TypeOK
    <3>3. ~overlapped => OverlapInv'
      BY <2>1, <3>1, <3>2, Alone, OneBusy DEF InRewrite
    <3> QED BY <2>1, <3>3, SamePhase DEF OverlapInv
  <2> QED BY <1>7, <2>2, <2>3 DEF ReadPhase
<1>8. ASSUME NEW c \in Calls, AdvancePhase(c) PROVE OverlapInv' /\ PhaseKept
  <2>1. overlapped' = overlapped /\ pc[c] = "advance" /\ HangUp(c)
    BY <1>8 DEF AdvancePhase
  <2>2. OverlapInv'
    BY <2>1, HungUp DEF OverlapInv
  <2>3. ASSUME ~overlapped, NEW o \in Present PROVE phase'[o] >= phase[o]
    <3>1. CASE o = target[c]
      <4>1. phase'[o] = held[c][o] + 1
        BY <1>8, <3>1, PhaseInt DEF AdvancePhase, NextPhase, Present, TypeOK
      <4>2. held[c][o] \in Phase
        BY <2>1, <3>1 DEF AdvanceHeld
      <4>3. held[c][o] >= phase[o]
        BY <2>1, <2>3, <3>1, <4>2, Phases DEF OverlapInv, Ahead, Present
      <4> QED BY <4>1, <4>2, <4>3, PhaseInt, Phases
    <3>2. CASE o # target[c]
      BY <1>8, <3>2, PhaseInt DEF AdvancePhase, TypeOK
    <3> QED BY <3>1, <3>2
  <2> QED BY <2>1, <2>2, <2>3 DEF PhaseKept
<1>9. ASSUME NEW c \in Calls, WriteTextures(c) PROVE OverlapInv' /\ PhaseKept
  <2>1. overlapped' = overlapped /\ pc[c] = "texture" /\ HangUp(c)
    BY <1>9 DEF WriteTextures
  <2>2. OverlapInv'
    BY <2>1, HungUp DEF OverlapInv
  <2>3. ASSUME ~overlapped, NEW o \in Present PROVE phase'[o] >= phase[o]
    <3>1. o \in Ids /\ phase[o] # NoRow /\ Ahead(c, o)
      BY <2>1, <2>3 DEF OverlapInv, Present
    <3>2. phase'[o] = IF held[c][o] # NoRow THEN held[c][o] ELSE phase[o]
      BY <1>9, <3>1 DEF WriteTextures
    <3> QED BY <1>a, <3>1, <3>2 DEF Ahead
  <2> QED BY <2>1, <2>2, <2>3 DEF PhaseKept
<1>10. ASSUME NEW c \in Calls, RewriteDone(c) \/ Dies(c) PROVE OverlapInv' /\ PhaseKept
  <2>1. phase' = phase /\ overlapped' = overlapped /\ pc[c] # "idle" /\ HangUp(c)
    BY <1>10 DEF RewriteDone, Dies
  <2> QED BY <2>1, HungUp, SamePhase DEF OverlapInv
<1>11. ASSUME NEW c \in Calls, NEW S \in SUBSET Ids, NEW m \in BOOLEAN, ReadTextures(c, S, m)
       PROVE OverlapInv' /\ PhaseKept
  <2>1. phase' = phase /\ pc'[c] = "texture"
        /\ (~overlapped' => \A d \in Calls \ {c} : pc'[d] = "idle")
    BY <1>11 DEF ReadTextures, GoTo, Overlap, Busy, TypeOK
  <2>2. ASSUME NEW o \in Ids PROVE Ahead(c, o)'
    <3>1. held'[c][o] = IF o \notin S THEN NoRow ELSE IF m THEN Metabolized ELSE phase[o]
      BY <1>11 DEF ReadTextures, TypeOK
    <3> QED BY <1>a, <1>c, <2>1, <3>1 DEF Ahead
  <2>3. ~overlapped' => OverlapInv'
    BY <2>1, <2>2, OneBusy DEF InRewrite
  <2> QED BY <2>1, <2>3, SamePhase DEF OverlapInv
<1>12. ASSUME NEW c \in Calls, NEW D \in SUBSET Ids, ReadTerritory(c, D)
       PROVE OverlapInv' /\ PhaseKept
  <2>1. phase' = phase /\ pc'[c] = "rewrite"
        /\ (~overlapped' => \A d \in Calls \ {c} : pc'[d] = "idle")
    BY <1>12 DEF ReadTerritory, GoTo, Overlap, Busy, TypeOK
  <2>2. ASSUME NEW o \in Ids PROVE Ahead(c, o)'
    <3>1. \/ held'[c][o] = IF o \in D THEN Metabolized ELSE phase[o]
          \/ held'[c][o] = NoRow
      BY <1>12 DEF ReadTerritory, Nothing, TypeOK
    <3> QED BY <1>a, <1>c, <2>1, <3>1 DEF Ahead
  <2>3. ~overlapped' => OverlapInv'
    BY <2>1, <2>2, OneBusy
  <2> QED BY <2>1, <2>3, SamePhase DEF OverlapInv
<1>13. ASSUME NEW c \in Calls, NEW S \in SUBSET Snapshot(c), pc[c] = "rewrite",
              overlapped' = overlapped, held' = held,
              \A d \in Calls \ {c} : pc'[d] = pc[d],
              \A o \in Ids : IF o \in S THEN phase'[o] = held[c][o]
                             ELSE phase'[o] = phase[o] \/ phase'[o] = NoRow,
              pc'[c] \in {"rewrite", "dreamt"}
       PROVE OverlapInv' /\ PhaseKept
  <2>1. \A o \in S : o \in Ids /\ held[c][o] # NoRow
    BY <1>13 DEF Snapshot
  <2>2. ASSUME ~overlapped, NEW o \in Present PROVE phase'[o] = NoRow \/ phase'[o] >= phase[o]
    <3>1. o \in Ids /\ phase[o] # NoRow /\ Ahead(c, o)
      BY <1>13, <2>2 DEF OverlapInv, InRewrite, Present
    <3> QED BY <1>a, <1>13, <2>1, <3>1 DEF Ahead
  <2>3. ASSUME ~overlapped, NEW o \in Ids PROVE Ahead(c, o)'
    <3>1. Ahead(c, o)
      BY <1>13, <2>3 DEF OverlapInv, InRewrite
    <3> QED BY <1>b, <1>13, <2>1, <3>1 DEF Ahead
  <2>4. ~overlapped => OverlapInv'
    BY <1>13, <2>3, Alone, OneBusy
  <2> QED BY <1>13, <2>2, <2>4 DEF OverlapInv, PhaseKept
<1>14. ASSUME NEW c \in Calls, WriteFirstChunk(c) PROVE OverlapInv' /\ PhaseKept
  <2>1. Chunk(Snapshot(c)) \subseteq Snapshot(c)
    BY ChunkWithin
  <2>2. \A d \in Calls \ {c} : pc'[d] = pc[d]
    BY <1>14 DEF WriteFirstChunk, Done, GoTo, TypeOK
  <2>3. pc[c] = "rewrite" /\ pc'[c] \in {"rewrite", "dreamt"} /\ held' = held
        /\ overlapped' = overlapped
    BY <1>14 DEF WriteFirstChunk, Done, GoTo, TypeOK
  <2>4. \A o \in Ids : IF o \in Chunk(Snapshot(c)) THEN phase'[o] = held[c][o]
                       ELSE phase'[o] = phase[o] \/ phase'[o] = NoRow
    BY <1>14 DEF WriteFirstChunk
  <2> QED BY <1>13, <2>1, <2>2, <2>3, <2>4
<1>15. ASSUME NEW c \in Calls, WriteNextChunk(c) PROVE OverlapInv' /\ PhaseKept
  <2>1. Chunk(later[c]) \subseteq Snapshot(c)
    BY <1>15, ChunkWithin DEF WriteNextChunk, RowInv
  <2>2. \A d \in Calls \ {c} : pc'[d] = pc[d]
    BY <1>15 DEF WriteNextChunk, Done, GoTo, TypeOK
  <2>3. pc[c] = "rewrite" /\ pc'[c] \in {"rewrite", "dreamt"} /\ held' = held
        /\ overlapped' = overlapped
    BY <1>15 DEF WriteNextChunk, Done, GoTo, TypeOK
  <2>4. \A o \in Ids : IF o \in Chunk(later[c]) THEN phase'[o] = held[c][o]
                       ELSE phase'[o] = phase[o] \/ phase'[o] = NoRow
    BY <1>15 DEF WriteNextChunk
  <2> QED BY <1>13, <2>1, <2>2, <2>3, <2>4
<1>16. CASE UNCHANGED vars
  <2>1. OverlapInv'
    BY <1>16 DEF vars, OverlapInv, InRewrite, Ahead
  <2> QED BY <1>16, <2>1, SamePhase DEF vars
<1> QED
  BY <1>1, <1>2, <1>3, <1>4, <1>5, <1>6, <1>7, <1>8, <1>9, <1>10, <1>11, <1>12, <1>14,
     <1>15, <1>16 DEF Next, Call

LEMMA OverlapInit == Init => OverlapInv
  BY DEF Init, OverlapInv, InRewrite

\* While no two calls overlap, no engagement, texture edit, decay or dream sets a
\* charge phase back, however many chunks a rewrite takes and wherever calls die.
THEOREM PhasesForward == Spec => PhaseNeverRegresses
<1>1. TypeOK /\ TypeOK' /\ AdvanceHeld /\ RowInv /\ [Next]_vars => RowInv'
  BY RowStep
<1>2. TypeOK /\ TypeOK' /\ AdvanceHeld /\ RowInv /\ OverlapInv /\ [Next]_vars
        => OverlapInv' /\ PhaseKept
  BY OverlapStep
<1>3. Init => RowInv /\ OverlapInv
  BY RowInit, OverlapInit
<1>4. PhaseKept => [PhaseKept]_vars
  OBVIOUS
<1> QED BY <1>1, <1>2, <1>3, <1>4, TypeCorrect, PTL DEF Spec, PhaseNeverRegresses
=============================================================================
