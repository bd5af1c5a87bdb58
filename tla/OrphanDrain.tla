----------------------------- MODULE OrphanDrain -----------------------------
(***************************************************************************)
(* The orphan queue of one tenant over many nights: which orphans a night  *)
(* lists, searches, and finally archives, in the order the queries give.   *)
(* Proposals models the single writes of a night; here a step is a stage   *)
(* of the orphan work, so that the order of the queue and the limits of    *)
(* orphans.ts decide who is ever served.                                   *)
(*                                                                         *)
(* Similarities are below the absorption threshold, so an orphan leaves    *)
(* the queue when its archival is absorbed, or when a reviewer accepts one *)
(* of its rescues.  A member of Obs is a slot: when its orphan has left it  *)
(* is free for another one.  Slots have no meaning, so detection takes the *)
(* lowest free ones.                                                       *)
(***************************************************************************)
EXTENDS Integers, Sequences, FiniteSetsExt

CONSTANTS
  Slots,               \* observations that can be orphaned at the same time
  MaxAttempts,         \* MAX_RESCUE_ATTEMPTS_STEADY; a backlog night allows one
  DetectLimit,         \* DETECT_LIMIT_STEADY; a backlog night detects none
  RescueLimit,         \* RESCUE_LIMIT_STEADY
  BacklogRescueLimit,  \* RESCUE_LIMIT_BACKLOG
  Reach,               \* searches the deadline always leaves time for
  MaxTroubles          \* bound on nights killed, archivals settled or left

\* assertOrphanFlowInvariant, for the steady mode and for the backlog mode.
FlowAssumption ==
  /\ DetectLimit * (MaxAttempts + 1) < RescueLimit
  /\ BacklogRescueLimit > 0
BoundsAssumption ==
  /\ Slots \in Nat /\ DetectLimit \in Nat /\ MaxAttempts \in Nat \ {0} /\ RescueLimit \in Nat
  /\ BacklogRescueLimit \in Nat /\ MaxTroubles \in Nat
\* Every orphan detected needs MaxAttempts searches: the deadline leaves a night
\* at least the searches one night's detection asks for.
ReachAssumption == Reach \in Nat /\ Reach > DetectLimit * MaxAttempts

Obs == 1..Slots

VARIABLES
  fresh,     \* never searched, in classes of equal first_marked, oldest first
  tried,     \* searched, in classes of equal last_rescue_attempt, oldest first
  attempts,  \* rescue_attempts
  archival,  \* the orphan's archival proposal
  stage, backlog,
  troubles

vars == <<fresh, tried, attempts, archival, stage, backlog, troubles>>

\* listOrphans: ORDER BY last_rescue_attempt ASC NULLS FIRST, first_marked ASC.
Turns == fresh \o tried
Members(classes) == UNION {classes[i] : i \in DOMAIN classes}
Waiting == Members(Turns)

TypeOK ==
  /\ fresh \in Seq(SUBSET Obs) /\ tried \in Seq(SUBSET Obs)
  /\ \A i, j \in DOMAIN Turns :
       Turns[i] # {} /\ (i # j => Turns[i] \cap Turns[j] = {})
  /\ attempts \in [Obs -> 0..MaxAttempts]
  /\ archival \in [Obs -> {"none", "pending", "settled"}]
  /\ stage \in {"detect", "rescue", "absorb"} /\ backlog \in BOOLEAN
  /\ troubles \in 0..MaxTroubles

-----------------------------------------------------------------------------
Without(classes, S) ==
  SelectSeq([i \in DOMAIN classes |-> classes[i] \ S], LAMBDA class : class # {})
With(classes, S) == IF S = {} THEN classes ELSE Append(classes, S)

\* A first night finds the backlog of the nights before detection had its limit.
Init ==
  /\ \E n \in 0..Slots : fresh = With(<<>>, 1..n)
  /\ tried = <<>> /\ stage = "detect" /\ backlog = FALSE /\ troubles = 0
  /\ attempts = [o \in Obs |-> 0] /\ archival = [o \in Obs |-> "none"]

Smaller(m, n) == IF m < n THEN m ELSE n

\* The first n of the candidates in the order of the queue: which of a class is open.
First(n, candidates) ==
  LET Upto(i) == Members(SubSeq(Turns, 1, i)) \cap candidates
      whole == CHOOSE i \in 0..Len(Turns) :
                 Cardinality(Upto(i)) <= n /\ \A j \in (i + 1)..Len(Turns) : Cardinality(Upto(j)) > n
      split == Upto(Smaller(whole + 1, Len(Turns))) \ Upto(whole)
  IN {Upto(whole) \cup S : S \in kSubset(Smaller(n, Cardinality(candidates)) - Cardinality(Upto(whole)), split)}

\* (Slip: a window for the searches, without the slot that carries the archival.)
WindowCap_Flat == DetectLimit * MaxAttempts + 1
DetectCap == IF backlog THEN 0 ELSE DetectLimit
WindowCap == IF backlog THEN BacklogRescueLimit ELSE RescueLimit
Exhausted(o) == attempts[o] >= IF backlog THEN 1 ELSE MaxAttempts

\* S leaves orphan_observations' queue, its slots become observations again.
Leave(S) ==
  /\ fresh' = Without(fresh, S) /\ tried' = Without(tried, S)
  /\ attempts' = [o \in Obs |-> IF o \in S THEN 0 ELSE attempts[o]]
  /\ archival' = [o \in Obs |-> IF o \in S THEN "none" ELSE archival[o]]

\* The operator may switch backlog mode between two nights.
SwitchMode ==
  /\ stage = "detect" /\ backlog' = ~backlog
  /\ UNCHANGED <<fresh, tried, attempts, archival, stage, troubles>>

Detect(n) ==
  LET free == Obs \ Waiting
      marked == {o \in free : Cardinality({p \in free : p < o}) < n}
  IN
  /\ stage = "detect" /\ n <= Cardinality(free)
  /\ fresh' = With(fresh, marked) /\ stage' = "rescue"
  /\ UNCHANGED <<tried, attempts, archival, backlog, troubles>>

Rescuable(window) == {o \in window : ~Exhausted(o)}

\* One listing, searches from its front until the deadline, archivals for the
\* exhausted (none where a settled one lies), and one stamp for all searched.
Rescue(window, searched) ==
  /\ stage = "rescue"
  /\ archival' = [o \in Obs |-> IF o \in window /\ Exhausted(o) /\ archival[o] = "none"
                                THEN "pending" ELSE archival[o]]
  /\ attempts' = [o \in Obs |-> IF o \in searched THEN attempts[o] + 1 ELSE attempts[o]]
  /\ fresh' = Without(fresh, searched) /\ tried' = With(Without(tried, searched), searched)
  /\ stage' = "absorb"
  /\ UNCHANGED <<backlog, troubles>>

\* The absorption pass after the orphans carries out the pending archivals, but for
\* those behind more newer pending rows than it lists.
Absorb(buried) ==
  LET pending == {o \in Obs : archival[o] = "pending"} IN
  /\ stage = "absorb" /\ stage' = "detect"
  /\ buried \subseteq pending /\ Leave(pending \ buried)
  /\ (buried # {} => troubles < MaxTroubles)
  /\ troubles' = IF buried = {} THEN troubles ELSE troubles + 1
  /\ UNCHANGED backlog

Night ==
  \/ \E n \in 0..DetectCap : Detect(n)
  \/ \E window \in First(WindowCap, Waiting) :
       \E n \in Smaller(Reach, Cardinality(Rescuable(window)))..Cardinality(Rescuable(window)) :
         \E searched \in First(n, Rescuable(window)) : Rescue(window, searched)
  \/ Absorb({})

\* The process dies, or the task throws, before the stage's writes.
NightKilled ==
  /\ stage # "detect" /\ troubles < MaxTroubles
  /\ stage' = "detect" /\ troubles' = troubles + 1
  /\ UNCHANGED <<fresh, tried, attempts, archival, backlog>>

\* A rescue proposal of an earlier search is accepted, by the AI reviewer or a
\* call.  Accepted during a night, it commutes with the stages around it, so
\* between two nights is when it happens here.
AcceptRescue(o) ==
  /\ stage = "detect" /\ o \in Waiting /\ attempts[o] > 0 /\ Leave({o})
  /\ UNCHANGED <<stage, backlog, troubles>>

\* A mind_propose call rejects a pending archival, or accepts it and dies before
\* its effects: the row stays, and its unique index swallows any later insert.
SettleArchival(o) ==
  /\ o \in Waiting /\ archival[o] = "pending" /\ troubles < MaxTroubles
  /\ archival' = [archival EXCEPT ![o] = "settled"] /\ troubles' = troubles + 1
  /\ UNCHANGED <<fresh, tried, attempts, stage, backlog>>

Next ==
  \/ Night \/ NightKilled \/ SwitchMode
  \/ \E buried \in SUBSET Waiting \ {{}} : Absorb(buried)
  \/ \E o \in Obs : AcceptRescue(o) \/ SettleArchival(o)

\* Nights come again and again, and each runs its stages unless it is killed: weak
\* fairness of Night, which is always enabled, and whose steps are those that go on
\* to another stage without trouble.
Advances == stage' # stage /\ troubles' = troubles
Spec == Init /\ [][Next]_vars /\ []<><<Advances>>_vars

-----------------------------------------------------------------------------
\* Orphans whose archival was settled hold their places in the window for ever.  While
\* they leave it room for what one night's detection asks for, and for one more:
Settled == {o \in Obs : archival[o] = "settled"}
Roomy == DetectLimit * (MaxAttempts + 1) + Cardinality(Settled) < RescueLimit

\* postgres.ts on listOrphans: "head-of-line blocking impossible by construction
\* now"; orphans.ts: "detection cannot outrun the drain by construction now".
\* What is true of it: while the window stays roomy every orphan leaves the queue,
\* however many are detected ahead of it, however long the queue is and however often
\* the mode is switched, unless its own archival was settled.
HeadNeverBlocks ==
  []Roomy => \A o \in Obs : o \in Waiting ~> (o \notin Waiting \/ archival[o] = "settled")
=============================================================================
