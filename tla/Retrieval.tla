------------------------------ MODULE Retrieval ------------------------------
(***************************************************************************)
(* mind_query with words: four lanes look for observations, each in a      *)
(* query of its own (Postgres) or in one reading of the collection         *)
(* (SQLite); what they found is merged, scored by its place in each lane,  *)
(* perhaps reranked, cut to the limit, and filtered by confidence.  What   *)
(* an answer showed is counted afterwards, while others edit the rows.     *)
(*                                                                         *)
(* Similarities, ranks and boosts are whole percents; a fraction with a    *)
(* place or a number of candidates below is a whole number of Units.       *)
(***************************************************************************)
EXTENDS Integers, FiniteSets, FiniteSetsExt

CONSTANTS
  Obs, Territories, Grips,
  Recent,       \* observations within the recency window
  Cued,         \* the signals each observation matches
  StartRows,    \* the rows a behaviour may begin with
  Scenes,       \* what each lane makes of each observation: 0 for no match
  Asks,         \* the requests made
  Pool,         \* candidates a lane returns at most
  K, Unit, LaneWeight, \* the fused profile
  Ceiling, MaxBoost, \* what cues add at most, by profile
  Held,         \* what its hold on the mind makes of an observation, by grip
  MinScore,     \* by profile
  HintFloor,    \* by backend
  Gain, MinHead, \* the rerank: by signal, and the least it looks at
  RecencyBoost, CascadeTop, Wear,
  MaxSearches, MaxEdits, MaxFailed,   \* bounds
  None

VARIABLES rows, scene, ask, lanes, answer, pending, due, lost, cascade, searches, edits, failed

vars == <<rows, scene, ask, lanes, answer, pending, due, lost, cascade, searches, edits, failed>>

Lanes  == {"vector", "keyword", "hint", "entity"}
\* What a query may cue: quoted phrases, names, times, the assistant.
Signals == {"phrase", "name", "time", "assistant"}
Gone   == None  \* a deleted row
Unread == None  \* a lane not read yet
NoAsk  == None  \* no request under way
Any    == "any"

Row == [territory : Territories, grip : Grips, linked : BOOLEAN, novelty : Nat, surfaced : {0}]

RetrievalAssumption ==
  /\ IsFiniteSet(Obs) /\ Cued \in [Obs -> SUBSET Signals]
  /\ StartRows \subseteq [Obs -> Row] /\ None \notin Asks
  /\ Scenes \subseteq [Lanes -> [Obs -> 0..100]]
  /\ \A sc \in Scenes, l \in Lanes, o, p \in Obs : sc[l][o] = sc[l][p] /\ sc[l][o] > 0 => o = p
  /\ Pool \in [Lanes -> Nat] /\ K \in Nat \ {0} /\ Unit \in Nat
  /\ \A p \in 1..Cardinality(Obs) : Unit % (K + p) = 0 /\ Unit % p = 0
  /\ Wear \in Nat
  /\ LaneWeight \in [Lanes -> 0..100]
  /\ LaneWeight["vector"] + LaneWeight["keyword"] + LaneWeight["hint"] + LaneWeight["entity"] = 100
  /\ Ceiling["fused"] \in [Signals -> Nat] /\ MaxBoost["fused"] \in Nat /\ Held \in [Grips -> Nat]
  /\ RecencyBoost \in Nat /\ \A a \in Asks : a.limit \in Nat /\ a.items \in Nat
  /\ \A a \in Asks : a.profile = "legacy" => a.backend = "postgres"

-----------------------------------------------------------------------------
(* The lanes *)

\* A row is in the territory and the grips asked for.
Matches(a, row) ==
  /\ a.territory = Any \/ row.territory = a.territory
  /\ row.grip \in a.grips

\* SQLite narrows the collection before its lanes; in Postgres the lane of the entity does
\* without the filter.
Within(a, l, row) == (a.backend = "postgres" /\ l = "entity") \/ Matches(a, row)

Finds(a, l, o) ==
  CASE l = "vector"  -> a.embedded /\ scene[l][o] > 0
    [] l = "keyword" -> scene[l][o] > 0
    [] l = "hint"    -> scene[l][o] > 0 /\ scene[l][o] >= HintFloor[a.backend]
    [] l = "entity"  -> a.entity /\ rows[o].linked

Hits(a, l) == {o \in Obs : rows[o] # Gone /\ Within(a, l, rows[o]) /\ Finds(a, l, o)}

\* The best of them, with the row as this query sees it.
Pooled(a, l) ==
  [o \in {p \in Hits(a, l) : Cardinality({q \in Hits(a, l) : scene[l][q] > scene[l][p]}) < Pool[l]} |-> rows[o]]

-----------------------------------------------------------------------------
(* Merging *)

Found == UNION {DOMAIN lanes[l] : l \in Lanes}
By(o) == {l \in Lanes : o \in DOMAIN lanes[l]}

\* A candidate is the row of the first lane that brought it.
Turn(l) ==
  CASE l = "vector"  -> 1
    [] l = "keyword" -> 2
    [] l = "hint"    -> IF ask.backend = "postgres" THEN 3 ELSE 4
    [] l = "entity"  -> IF ask.backend = "postgres" THEN 4 ELSE 3
Source(o) == CHOOSE l \in By(o) : \A m \in By(o) : Turn(l) <= Turn(m)

Place(l, o) == 1 + Cardinality({p \in DOMAIN lanes[l] : scene[l][p] > scene[l][o]})

\* A signal most candidates match says little.
Frequency == [s \in Signals |-> Cardinality({o \in Found : s \in Cued[o]})]

-----------------------------------------------------------------------------
(* Scoring *)

\* Reciprocal ranks: first in every lane is 100 percent.
Share(l, o) == IF l \in By(o) THEN LaneWeight[l] * ((K + 1) * (Unit \div (K + Place(l, o)))) ELSE 0
Relevance(o) == Share("vector", o) + Share("keyword", o) + Share("hint", o) + Share("entity", o)

\* What the cues an observation matches add up to.
Total(o, worth) ==
  LET Of(s) == IF s \in Cued[o] THEN worth[s] ELSE 0
  IN  Of("phrase") + Of("name") + Of("time") + Of("assistant")

Boost(o) ==
  LET worth == [s \in Signals |-> Ceiling["fused"][s] * (Unit - (Frequency[s] * (Unit \div Cardinality(Found))))]
  IN  Min({Max({Total(o, worth), 0}), MaxBoost["fused"] * Unit})

\* Grip and charge, and what is left of an observation's novelty.
Novel(row) == IF row.novelty > 70 THEN 100 + ((row.novelty - 50) \div 2) ELSE 100
Lift(row)  == (Held[row.grip] * Novel(row)) \div 100
Capped(row) == Max({92, Min({110, Lift(row)})})
Weighted(row) == 125 + (Capped(row) - 100)  \* four fifths of it, in 125ths

\* The scorer before ranks (asked of Postgres here): similarities themselves, and no cap.
Strongest == Max({scene["keyword"][o] : o \in DOMAIN lanes["keyword"]} \cup {0})
Keyword(o) == (scene["keyword"][o] * 100) \div Strongest
Legacy(a, o, row) ==
  LET ofEntity == "entity" \in By(o) \/ (a.entity /\ row.linked)
      base == IF {"vector", "keyword"} \subseteq By(o) THEN scene["vector"][o] * 70 + Keyword(o) * 30
              ELSE IF "vector" \in By(o) THEN scene["vector"][o] * 100
              ELSE IF "keyword" \in By(o) THEN Keyword(o) * 100
              ELSE IF ofEntity THEN 5000 ELSE 0
      hint == IF "hint" \in By(o) THEN scene["hint"][o] * 6 ELSE 0
      ours == IF ofEntity THEN 800 ELSE 0
      cues == 100 * Min({Total(o, Ceiling["legacy"]), MaxBoost["legacy"]})
  IN  (base + hint + ours + cues) * Lift(row)

One(profile) == IF profile = "legacy" THEN 1000000 ELSE 12500 * Unit

\* What the scorer makes of a candidate.
Candidate(a, o) ==
  LET row   == lanes[Source(o)][o]
      rank  == Relevance(o)
      cued  == rank + Boost(o)
      score == IF a.profile = "legacy" THEN Legacy(a, o, row) ELSE cued * Weighted(row)
  IN  [id |-> o, row |-> row, by |-> By(o), turn |-> Turn(Source(o)), place |-> Place(Source(o), o),
       relevance |-> rank, cued |-> cued, score |-> score, final |-> score]

Scored(a) ==
  {c \in {Candidate(a, o) : o \in Found} : c.score > 0 /\ c.score >= MinScore[a.profile] * (One(a.profile) \div 100)}

-----------------------------------------------------------------------------
(* Order, rerank and confidence *)

\* Sorting is stable: equals stay in the order they were merged in.
Merged(c, d) == c.turn < d.turn \/ (c.turn = d.turn /\ c.place < d.place)
Ahead(c, d)  == c.score > d.score \/ (c.score = d.score /\ Merged(c, d))
Leads(c, d)  == c.final > d.final \/ (c.final = d.final /\ Ahead(c, d))

\* The n first of C.
First(C, n) == {c \in C : Cardinality({d \in C : Leads(d, c)}) < n}

computeHeuristicDelta(a, c) ==
  LET cues  == Total(c.id, Gain)
      focus == IF a.cue = Any THEN 0 ELSE IF c.row.territory = a.cue THEN 60 ELSE -30
      both  == IF Cardinality(c.by) >= 2 THEN 15 ELSE 0
  IN  Max({-200, Min({280, cues + focus + both})})

\* Only the head is reranked.
applyRetrievalRerank(a, C) ==
  IF ~a.rerank THEN C
  ELSE LET head == First(C, Max({MinHead, a.top})) IN
       (C \ head) \cup {[c EXCEPT !.final = @ + computeHeuristicDelta(a, c) * (One(a.profile) \div 1000)] : c \in head}

Confidence(a, c) ==
  LET boosted == c.final + (IF c.id \in Recent THEN RecencyBoost * (One(a.profile) \div 100) ELSE 0)
  IN  Max({0, Min({One(a.profile), boosted})})

\* hybridSearch cuts to the limit before mind_query looks at time and confidence.
Shown(a, C) ==
  LET timely == {c \in First(C, a.limit) : a.window => c.id \in Recent}
      sure   == {c \in timely : a.shadow \/ Confidence(a, c) >= a.threshold * (One(a.profile) \div 100)}
  IN  First(sure, a.items)

Ids(C) == {c.id : c \in C}

-----------------------------------------------------------------------------
(* Behaviour *)

Pairs == {S \in SUBSET Obs : Cardinality(S) = 2}

\* The countings of a row that are under way.
Owed(o) == {e \in pending : e.kind = "surface" /\ o \in e.ids}

Init ==
  /\ rows \in StartRows
  /\ scene \in Scenes
  /\ ask = NoAsk /\ lanes = [l \in Lanes |-> Unread]
  /\ answer = [ask |-> NoAsk, shown |-> {}, scored |-> {}]
  /\ pending = {} /\ due = [o \in Obs |-> 0] /\ lost = [o \in Obs |-> 0]
  /\ cascade = [pair \in Pairs |-> 0]
  /\ searches = 0 /\ edits = 0 /\ failed = 0

Ask(a) ==
  /\ ask = NoAsk /\ searches < MaxSearches
  /\ ask' = a /\ searches' = searches + 1
  /\ lanes' = [l \in Lanes |-> Unread]
  /\ UNCHANGED <<rows, scene, answer, pending, due, lost, cascade, edits, failed>>

\* Postgres: each lane is a query of its own, and an empty one if that fails.
ReadLane(l) ==
  /\ ask # NoAsk /\ ask.backend = "postgres" /\ lanes[l] = Unread
  /\ lanes' = [lanes EXCEPT ![l] = Pooled(ask, l)]
  /\ UNCHANGED <<rows, scene, ask, answer, pending, due, lost, cascade, searches, edits, failed>>

LaneFails(l) ==
  /\ ask # NoAsk /\ ask.backend = "postgres" /\ lanes[l] = Unread /\ failed < MaxFailed
  /\ lanes' = [lanes EXCEPT ![l] = <<>>]
  /\ failed' = failed + 1
  /\ UNCHANGED <<rows, scene, ask, answer, pending, due, lost, cascade, searches, edits>>

\* SQLite: the lanes are made of one reading of the collection.
ReadCollection ==
  /\ ask # NoAsk /\ ask.backend = "sqlite" /\ \A l \in Lanes : lanes[l] = Unread
  /\ lanes' = [l \in Lanes |-> Pooled(ask, l)]
  /\ UNCHANGED <<rows, scene, ask, answer, pending, due, lost, cascade, searches, edits, failed>>

\* What the answer shows and, unless the caller wants no footprint, what is left to do after it.
Answer ==
  /\ ask # NoAsk /\ \A l \in Lanes : lanes[l] # Unread
  /\ \E scored \in {Scored(ask)} : \E shown \in {Shown(ask, applyRetrievalRerank(ask, scored))} :
       LET effects == ask.effects /\ shown # {} IN
         /\ answer' = [ask |-> ask, shown |-> shown, scored |-> scored]
         /\ due' = [o \in Obs |-> due[o] + IF effects /\ o \in Ids(shown) THEN 1 ELSE 0]
         /\ pending' = IF effects
                       THEN pending \cup {[search |-> searches, kind |-> "surface", ids |-> Ids(shown)],
                                          [search |-> searches, kind |-> "cascade", ids |-> Ids(First(shown, CascadeTop))]}
                       ELSE pending
  /\ ask' = NoAsk
  /\ UNCHANGED <<rows, scene, lanes, lost, cascade, searches, edits, failed>>

updateSurfacingEffects(e) ==
  /\ e.kind = "surface"
  /\ rows' = [o \in Obs |-> IF o \in e.ids /\ rows[o] # Gone
                            THEN [rows[o] EXCEPT !.surfaced = @ + 1, !.novelty = Max({@ - Wear, 0})]
                            ELSE rows[o]]
  /\ pending' = pending \ {e}
  /\ UNCHANGED <<scene, ask, lanes, answer, due, lost, cascade, searches, edits, failed>>

recordMemoryCascade(e) ==
  /\ e.kind = "cascade"
  /\ cascade' = [pair \in Pairs |-> cascade[pair] + IF pair \subseteq e.ids THEN 1 ELSE 0]
  /\ pending' = pending \ {e}
  /\ UNCHANGED <<rows, scene, ask, lanes, answer, due, lost, searches, edits, failed>>

\* Both are tried once, whatever becomes of them.
EffectFails(e) ==
  /\ failed < MaxFailed /\ failed' = failed + 1
  /\ pending' = pending \ {e}
  /\ lost' = [o \in Obs |-> lost[o] + IF e.kind = "surface" /\ o \in e.ids THEN 1 ELSE 0]
  /\ UNCHANGED <<rows, scene, ask, lanes, answer, due, cascade, searches, edits>>

\* mind_memory edits a texture, mind_entity links, mind_observe deletes.
Edit(o, row) ==
  /\ edits < MaxEdits /\ edits' = edits + 1
  /\ rows[o] # Gone
  /\ rows' = [rows EXCEPT ![o] = row]
  /\ UNCHANGED <<scene, ask, lanes, answer, pending, due, lost, cascade, searches, failed>>

Next ==
  \/ \E a \in Asks : Ask(a)
  \/ \E l \in Lanes : ReadLane(l) \/ LaneFails(l)
  \/ ReadCollection \/ Answer
  \/ \E e \in pending : updateSurfacingEffects(e) \/ recordMemoryCascade(e) \/ EffectFails(e)
  \/ \E o \in Obs, g \in Grips : rows[o] # Gone /\ rows[o].grip # g /\ Edit(o, [rows[o] EXCEPT !.grip = g])
  \/ \E o \in Obs : rows[o] # Gone /\ ~rows[o].linked /\ Edit(o, [rows[o] EXCEPT !.linked = TRUE])
  \/ \E o \in Obs : Edit(o, Gone)

-----------------------------------------------------------------------------
\* Whatever a lane with the filter brought satisfied it when it was read: rows edited between
\* the lanes do not put a row of another territory or grip into the answer.
FilterKept ==
  \A c \in answer.shown : c.by # {"entity"} \/ answer.ask.backend = "sqlite" => Matches(answer.ask, c.row)

\* query-signals.ts: the multiplier "can only reorder candidates already close in relevance".  Of
\* two candidates far apart the nearer one is never left out for the other.
Plain(a) == a.profile = "fused" /\ ~a.rerank /\ ~a.window /\ a.threshold = 0
GapKept ==
  answer.ask # NoAsk => (Plain(answer.ask) =>
    \A c \in answer.scored, d \in answer.shown : c.cued * 117 > d.cued * 135 => c.id \in Ids(answer.shown))

\* scoring.ts: the fused relevance is "in [0,1]. Rank 1 in every lane == 1.0".
InBand == \A c \in answer.scored : c.relevance \in 0..100 * Unit

\* Every answer that leaves a footprint counts each row it showed once, however the effects of
\* several answers, edits and failures interleave; one that leaves none counts nothing.
SurfacedOnce == \A o \in Obs : rows[o] # Gone => rows[o].surfaced + lost[o] + Cardinality(Owed(o)) = due[o]

\* Two observations are noted together no more often than an answer showed both.
CascadeBacked == \A pair \in Pairs : \A o \in pair : cascade[pair] <= due[o]
=============================================================================
