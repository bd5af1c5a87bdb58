------------------------------- MODULE Identity -------------------------------
(***************************************************************************)
(* The identity cores and anchors of a tenant.  mind_identity seeds,       *)
(* reinforces, challenges and evolves cores, a wake adds the canonical     *)
(* visual core where none is there, mind_anchor creates anchors and counts *)
(* the ones a text resonates with, a wake counts the ones it surfaces.     *)
(* But for the last, every call reads a whole table, changes it in memory  *)
(* and replaces it.  Weights are in twentieths: 1.0 is 20.                 *)
(***************************************************************************)
EXTENDS Integers, FiniteSets, FiniteSetsExt, Sequences

CONSTANTS
  Callers,    \* calls that may overlap
  Actions,    \* the kinds of calls made
  Weights,    \* initial weights asked for
  Contents,   \* what a core may say
  MaxCores, MaxAnchors, MaxCalls, MaxFaults  \* bounds

Kinds == {"seed", "reinforce", "challenge", "evolve", "wake", "anchor", "resonate", "touch"}

IdentityAssumption ==
  /\ Actions \subseteq Kinds
  /\ Weights \subseteq Nat /\ Contents # {}
  /\ MaxCores \in Nat \ {0} /\ MaxAnchors \in Nat /\ MaxCalls \in Nat /\ MaxFaults \in Nat

VARIABLES
  cores, anchors,  \* the stored rows by id
  call,            \* what each caller made of what it read
  done,            \* how often each kind of call was answered with success, for each row
  made,            \* ids given out
  calls, faults

vars == <<cores, anchors, call, done, made, calls, faults>>

Ids == 1..MaxCores
AnchorIds == 1..MaxAnchors
NoRow == [here |-> FALSE]
Idle == [busy |-> FALSE]
NoCores == [i \in Ids |-> NoRow]
NoAnchors == [i \in AnchorIds |-> NoRow]

Init ==
  /\ cores = NoCores /\ anchors = NoAnchors /\ call = [c \in Callers |-> Idle] /\ done = [kind \in Kinds |-> [i \in Ids \cup AnchorIds |-> 0]]
  /\ made = [core |-> 0, anchor |-> 0] /\ calls = 0 /\ faults = 0

-----------------------------------------------------------------------------
(* What a call makes of a core. *)

Core(weight, content, visual) ==
  [here |-> TRUE, weight |-> weight, content |-> content, visual |-> visual,
   reinforced |-> 0, challenged |-> 0, history |-> <<>>]

\* A weight of zero is taken for a missing one.
Weight(core) == IF core.weight = 0 THEN 20 ELSE core.weight
reinforce(core) == [core EXCEPT !.weight = Weight(core) + 2, !.reinforced = @ + 1]

challenge(core) == [core EXCEPT !.weight = Max({2, Weight(core) - 1}), !.challenged = @ + 1]

evolve(core, content) ==
  [core EXCEPT !.history = Append(@, [from |-> core.content, to |-> content]), !.content = content,
               !.weight = 20 + 4 * (Len(core.history) + 1)]

hasVisualCore(held) == \E i \in Ids : held[i].here /\ held[i].visual

-----------------------------------------------------------------------------
(* The calls. *)

\* The lists of rows answer a failed query with no rows.
Read(held, table, empty) ==
  \/ held = table /\ UNCHANGED faults
  \/ held = empty /\ held # table /\ faults < MaxFaults /\ faults' = faults + 1

\* The rows a call was answered with success for.
Answered(kind, ids) ==
  done' = [done EXCEPT ![kind] = [i \in Ids \cup AnchorIds |-> done[kind][i] + IF i \in ids THEN 1 ELSE 0]]

Starts(c, kind) == call[c] = Idle /\ kind \in Actions /\ calls < MaxCalls /\ calls' = calls + 1

\* The new table of cores, about to be written.
WillWrite(c, kind, id, rows) ==
  call' = [call EXCEPT ![c] = [busy |-> TRUE, kind |-> kind, id |-> id, cores |-> rows, hits |-> {}]]

Seed(c, weight, content) ==
  \E held \in {cores, NoCores} :
    /\ Starts(c, "seed") /\ Read(held, cores, NoCores) /\ made.core < MaxCores
    /\ made' = [made EXCEPT !.core = @ + 1]
    /\ WillWrite(c, "seed", made.core + 1, [held EXCEPT ![made.core + 1] = Core(weight, content, FALSE)])
    /\ UNCHANGED <<cores, anchors, done>>

Changed(kind, core, content) ==
  CASE kind = "reinforce" -> reinforce(core)
    [] kind = "challenge" -> challenge(core)
    [] kind = "evolve"    -> evolve(core, content)

\* Of a core that was not found the call answers an error and writes nothing.
Change(c, kind, i, content) ==
  \E held \in {cores, NoCores} :
    /\ Starts(c, kind) /\ Read(held, cores, NoCores) /\ i <= made.core
    /\ IF held[i].here THEN WillWrite(c, kind, i, [held EXCEPT ![i] = Changed(kind, @, content)])
                       ELSE UNCHANGED call
    /\ UNCHANGED <<cores, anchors, done, made>>

\* The wake of the tenant that has a canonical embodiment.
ensureRainerEmbodimentCore(c, content) ==
  \E held \in {cores, NoCores} :
    /\ Starts(c, "wake") /\ Read(held, cores, NoCores) /\ made.core < MaxCores
    /\ IF hasVisualCore(held) THEN UNCHANGED <<call, made>>
       ELSE /\ made' = [made EXCEPT !.core = @ + 1]
            /\ WillWrite(c, "wake", made.core + 1, [held EXCEPT ![made.core + 1] = Core(20, content, TRUE)])
    /\ UNCHANGED <<cores, anchors, done>>

Replace(k) == k.cores

writeIdentityCores(c) ==
  LET k == call[c]
  IN /\ k # Idle /\ k.kind \in {"seed", "reinforce", "challenge", "evolve", "wake"}
     /\ cores' = Replace(k)
     /\ Answered(k.kind, {k.id}) /\ call' = [call EXCEPT ![c] = Idle]
     /\ UNCHANGED <<anchors, made, calls, faults>>

-----------------------------------------------------------------------------
(* Anchors. *)

Anchor == [here |-> TRUE, activations |-> 0]

Activated(row) == [row EXCEPT !.activations = @ + 1]
Resonant(rows, hits) == [i \in AnchorIds |-> IF i \in hits /\ rows[i].here THEN Activated(rows[i]) ELSE rows[i]]

WillWriteAnchors(c, kind, hits, rows) ==
  call' = [call EXCEPT ![c] = [busy |-> TRUE, kind |-> kind, id |-> 0, anchors |-> rows, hits |-> hits]]

CreateAnchor(c) ==
  \E held \in {anchors, NoAnchors} :
    /\ Starts(c, "anchor") /\ Read(held, anchors, NoAnchors) /\ made.anchor < MaxAnchors
    /\ made' = [made EXCEPT !.anchor = @ + 1]
    /\ WillWriteAnchors(c, "anchor", {made.anchor + 1}, [held EXCEPT ![made.anchor + 1] = Anchor])
    /\ UNCHANGED <<cores, anchors, done>>

\* action=check: nothing is written where nothing resonates.
CheckAnchors(c, hits) ==
  \E held \in {anchors, NoAnchors} :
    /\ Starts(c, "resonate") /\ Read(held, anchors, NoAnchors)
    /\ LET found == {i \in hits : held[i].here}
       IN IF found = {} THEN UNCHANGED call
          ELSE WillWriteAnchors(c, "resonate", found, Resonant(held, found))
    /\ UNCHANGED <<cores, anchors, done, made>>

writeAnchors(c) ==
  LET k == call[c]
  IN /\ k # Idle /\ k.kind \in {"anchor", "resonate"}
     /\ anchors' = k.anchors
     /\ Answered(k.kind, k.hits) /\ call' = [call EXCEPT ![c] = Idle]
     /\ UNCHANGED <<cores, made, calls, faults>>

\* A wake counts in one statement; its failure is swallowed.
touchAnchors(c, hits) ==
  /\ Starts(c, "touch") /\ hits # {} /\ \A i \in hits : anchors[i].here
  /\ \/ /\ anchors' = Resonant(anchors, hits)
        /\ Answered("touch", hits)
        /\ UNCHANGED faults
     \/ faults < MaxFaults /\ faults' = faults + 1 /\ UNCHANGED <<anchors, done>>
  /\ UNCHANGED <<cores, call, made>>

\* A failed replacement is rolled back and the call answers with an error.
WriteFails(c) ==
  /\ call[c] # Idle /\ faults < MaxFaults /\ faults' = faults + 1
  /\ call' = [call EXCEPT ![c] = Idle]
  /\ UNCHANGED <<cores, anchors, done, made, calls>>

Next ==
  \E c \in Callers :
    \/ \E w \in Weights, t \in Contents : Seed(c, w, t)
    \/ \E i \in Ids : \/ Change(c, "reinforce", i, "none") \/ Change(c, "challenge", i, "none")
                      \/ \E t \in Contents : Change(c, "evolve", i, t)
    \/ \E t \in Contents : ensureRainerEmbodimentCore(c, t)
    \/ writeIdentityCores(c)
    \/ CreateAnchor(c) \/ writeAnchors(c)
    \/ \E hits \in SUBSET AnchorIds : CheckAnchors(c, hits) \/ touchAnchors(c, hits)
    \/ WriteFails(c)

Spec == Init /\ [][Next]_vars

-----------------------------------------------------------------------------
Times(kind, i) == done[kind][i]

TypeOK ==
  /\ \A i \in Ids : cores[i] # NoRow =>
       cores[i].weight \in Nat /\ cores[i].content \in Contents /\ Len(cores[i].history) <= MaxCalls
  /\ \A i \in AnchorIds : anchors[i] # NoRow => anchors[i].activations \in 0..MaxCalls
  /\ \A c \in Callers : call[c] # Idle => call[c].kind \in Actions
  /\ calls \in 0..MaxCalls /\ faults \in 0..MaxFaults

\* A core or an anchor a caller was told of is there.
CoresKept == \A i \in Ids : Times("seed", i) + Times("wake", i) > 0 => cores[i].here
AnchorsKept == \A i \in AnchorIds : Times("anchor", i) > 0 => anchors[i].here

\* What a core says of its life is what the calls did: its reinforcements, challenges and
\* evolutions are counted once each.
LifeCounted ==
  \A i \in Ids : cores[i].here =>
    /\ cores[i].reinforced = Times("reinforce", i)
    /\ cores[i].challenged = Times("challenge", i)
    /\ Len(cores[i].history) = Times("evolve", i)

\* The history of a core leads without a gap to what it says now.
HistoryLeads ==
  \A i \in Ids : cores[i].here =>
    LET h == cores[i].history
    IN /\ \A n \in 1..(Len(h) - 1) : h[n].to = h[n + 1].from
       /\ h # <<>> => h[Len(h)].to = cores[i].content

\* An anchor is counted once for every time it resonated or surfaced.
ActivationsCounted ==
  \A i \in AnchorIds : anchors[i].here => anchors[i].activations = Times("resonate", i) + Times("touch", i)

\* However wakes and other calls overlap, there is one canonical core.
OneVisual == Cardinality({i \in Ids : cores[i].here /\ cores[i].visual}) <= 1

\* A challenge takes a little weight and no more: a core never weighs more after one.
ChallengeLowers ==
  [][\A i \in Ids : cores[i].here /\ cores'[i].here /\ cores'[i].challenged > cores[i].challenged
       => cores'[i].weight <= cores[i].weight \/ cores'[i].weight = 2]_vars

=============================================================================
