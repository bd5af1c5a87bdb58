----------------------------- MODULE RuntimeProof -----------------------------
(***************************************************************************)
(* How far overlapping triggers can overshoot the impulse budget, proved   *)
(* for every number of calls, every policy and every budget.               *)
(***************************************************************************)
EXTENDS MCRuntime, TLAPS, FiniteSetTheorems

\* Triggers in flight, judged by a day no later than their own, whose reads still left
\* room in the largest budget.
Hopeful == {c \in Calls : pc[c] = "read" /\ Duly(seen[c]) /\ seen[c].impulse < Ceiling}

\* Today's rows, as the usage query of this day counts them.
Impulses == impulse[Today]
Rows     == duty[Today] + impulse[Today]

\* An earlier day counts at least what a later one does.
Layered ==
  \A d, e \in Dates : d <= e => impulse[e] <= impulse[d] /\ duty[e] <= duty[d]

\* AdmittedBounded is not inductive: once the ledger shows a full budget, what
\* can still be admitted is what the hopeful triggers have read.
Overshoot ==
  /\ admitted <= Impulses
  /\ Impulses < Ceiling
       \/ admitted + Cardinality(Hopeful) <= Ceiling + (Cardinality(Calls) - 1) + faults

\* Nothing is counted for a day that has not come.
Unwritten == \A d \in Dates : d > Today => impulse[d] = 0 /\ duty[d] = 0

Sheet == TypeOK /\ Layered /\ Unwritten
IInv  == Sheet /\ Overshoot

\* Days follow the clock.
LEMMA DayMono ==
  ASSUME NEW t \in Times, NEW u \in Times, t <= u
  PROVE  DayOf(t) <= DayOf(u) /\ DayOf(t) \in Dates /\ DayOf(u) \in Dates
PROOF
  <1> USE RuntimeAssumption
  <1>1. Days * DayLength \in Nat
    OBVIOUS
  <1>2. \A v \in Times : v \in Nat /\ v < Days * DayLength
    BY <1>1 DEF Times
  <1>3. \A v \in Times : v \div DayLength \in 0..(Days - 1)
    BY <1>2
  <1>4. t \div DayLength <= u \div DayLength
    BY <1>2
  <1> QED BY <1>3, <1>4 DEF DayOf, Dates

\* Midnight is when the day changes.
LEMMA Midnight ==
  ASSUME NEW t \in Times, NEW u, u = t + 1
  PROVE  IF u % DayLength = 0 THEN DayOf(t) < DayOf(u) ELSE DayOf(u) = DayOf(t)
PROOF
  <1>1. t \in Nat /\ DayLength \in Nat \ {0}
    BY RuntimeAssumption DEF Times
  <1>2. CASE u % DayLength = 0
    <2>1. t \div DayLength < (t + 1) \div DayLength
      BY <1>1, <1>2
    <2> QED BY <1>2, <2>1 DEF DayOf
  <1>3. CASE u % DayLength # 0
    <2>1. (t + 1) \div DayLength = t \div DayLength
      BY <1>1, <1>3
    <2> QED BY <1>3, <2>1 DEF DayOf
  <1> QED BY <1>2, <1>3

\* Today is a day of the ledger, and its counters are numbers.
LEMMA TodayType == TypeOK => Today \in Dates /\ Impulses \in Nat /\ Rows \in Nat
PROOF
  <1> SUFFICES ASSUME TypeOK PROVE Today \in Dates /\ Impulses \in Nat /\ Rows \in Nat
    OBVIOUS
  <1>1. Today \in Dates
    BY DayMono, RuntimeAssumption DEF TypeOK, Today, Times
  <1> QED BY <1>1 DEF TypeOK, Impulses, Rows

\* A row is counted for today and every day before.
LEMMA RowWritten ==
  ASSUME TypeOK, NEW kind, Row(kind), clock' = clock
  PROVE  /\ duty' \in [Dates -> Nat] /\ impulse' \in [Dates -> Nat] /\ last' \in [Dates -> Nat \cup {Never}]
         /\ \A d \in Dates : d > Today => duty'[d] = duty[d] /\ impulse'[d] = impulse[d] /\ last'[d] = last[d]
         /\ kind = "impulse" =>
              \A d \in Dates : d <= Today => impulse'[d] = impulse[d] + 1 /\ duty'[d] = duty[d] /\ last'[d] = clock
         /\ kind # "impulse" =>
              \A d \in Dates : d <= Today => impulse'[d] = impulse[d] /\ duty'[d] = duty[d] + 1 /\ last'[d] = last[d]
PROOF
  <1>1. Today \in Int /\ clock \in Nat /\ \A d \in Dates : d \in Int
    BY TodayType, RuntimeAssumption DEF TypeOK, Dates, Times
  <1> QED BY <1>1 DEF Row, TypeOK

\* There is a trigger at all, and the hopeful ones are some of them.
LEMMA CallsFinite ==
  /\ Cardinality(Calls) \in Nat \ {0}
  /\ \A S \in SUBSET Calls : IsFiniteSet(S) /\ Cardinality(S) \in Nat /\ Cardinality(S) <= Cardinality(Calls)
PROOF
  <1>1. IsFiniteSet(Calls) /\ Calls # {}
    BY RuntimeAssumption
  <1>2. Cardinality(Calls) \in Nat /\ Cardinality(Calls) # 0
    BY <1>1, FS_CardinalityType, FS_EmptySet
  <1>3. \A S \in SUBSET Calls : IsFiniteSet(S) /\ Cardinality(S) <= Cardinality(Calls)
    BY <1>1, FS_Subset
  <1>4. \A S \in SUBSET Calls : Cardinality(S) \in Nat
    BY <1>3, FS_CardinalityType
  <1> QED BY <1>2, <1>3, <1>4

\* What a policy merges to is a policy.
LEMMA MergeType ==
  ASSUME NEW from \in Policy, NEW args \in Policy, NEW given
  PROVE  Merge(from, args, given) \in Policy
PROOF
  BY DEF Merge, Policy

\* The clock and the counters stay numbers, a stored policy a policy.
LEMMA TypeStep == TypeOK /\ [Next]_vars => TypeOK'
PROOF
  <1> SUFFICES ASSUME TypeOK, [Next]_vars PROVE TypeOK'
    OBVIOUS
  <1> USE RuntimeAssumption, PoliciesAssumption
  <1>1. ASSUME NEW c \in Calls, NEW kind \in Kinds, NEW enforce \in Enforced, NEW mode \in Modes,
               NEW sid \in Requested, NEW blind \in Blindness, NEW at \in {clock} \cup Stamps,
               Begin(c, kind, enforce, mode, sid, blind, at)
        PROVE  TypeOK'
    <2> DEFINE s == [kind |-> kind, enforce |-> enforce, at |-> at, began |-> clock, deferred |-> FALSE,
                     policy  |-> IF policy = NoPolicy \/ "policy" \in blind THEN Defaults[mode] ELSE policy,
                     total   |-> IF "usage" \in blind THEN 0 ELSE duty[DayOf(at)] + impulse[DayOf(at)],
                     impulse |-> IF "usage" \in blind THEN 0 ELSE impulse[DayOf(at)],
                     last    |-> IF "usage" \in blind THEN Never ELSE last[DayOf(at)],
                     sid     |-> IF sid # NoSession THEN sid
                                 ELSE IF "session" \in blind THEN NoSession ELSE session]
    <2>0. at \in Times /\ clock \in Times /\ DayOf(at) \in Dates
      <3>1. at \in Times /\ clock \in Times
        BY DEF TypeOK, Times
      <3>2. at <= at
        BY <3>1 DEF Times
      <3> QED BY <3>1, <3>2, DayMono
    <2>1. s \in Seen
      <3>1. /\ duty[DayOf(at)] + impulse[DayOf(at)] \in Nat /\ impulse[DayOf(at)] \in Nat
            /\ last[DayOf(at)] \in Nat \cup {Never}
        BY <2>0 DEF TypeOK
      <3>2. s.policy \in Policy /\ s.sid \in 0..MaxSession
        BY DEF TypeOK, NoSession
      <3>3. kind \in {"duty", "impulse"} /\ enforce \in BOOLEAN
        OBVIOUS
      <3> QED BY <2>0, <3>1, <3>2, <3>3 DEF Seen, Never
    <2>2. seen' = [seen EXCEPT ![c] = s]
      BY <1>1 DEF Begin
    <2>3. faults' \in 0..MaxFaults
      BY <1>1 DEF Begin, TypeOK
    <2>4. /\ pc' = [pc EXCEPT ![c] = "read"]
          /\ UNCHANGED <<clock, ledger, setting, session, pending, history>>
      BY <1>1 DEF Begin
    <2> HIDE DEF s
    <2>5. seen' \in [Calls -> Seen \cup {Nothing}] /\ \A d \in Calls : pc'[d] # "idle" => seen'[d] \in Seen
      BY <2>1, <2>2, <2>4 DEF TypeOK
    <2> QED
      BY <2>3, <2>4, <2>5 DEF TypeOK, ledger, setting, history
  <1>2. ASSUME NEW c \in Calls, Log(c) PROVE TypeOK'
    <2>1. seen[c] \in Seen /\ seen[c].kind \in {"duty", "impulse"}
      BY <1>2 DEF Log, TypeOK, Seen
    <2>2. Refused(seen[c]) \in BOOLEAN
      BY <2>1 DEF Refused, DailySpent, ImpulseSpent, Reserved, Busy, Cooling
    <2>3. [seen[c] EXCEPT !.deferred = Refused(seen[c])] \in Seen
      BY <2>1, <2>2 DEF Seen
    <2>4. seen' = [seen EXCEPT ![c] = [seen[c] EXCEPT !.deferred = Refused(seen[c])]]
      BY <1>2 DEF Log, TypeOK
    <2>5. Row(seen[c].kind) /\ clock' = clock
      BY <1>2 DEF Log
    <2>6. duty' \in [Dates -> Nat] /\ impulse' \in [Dates -> Nat] /\ last' \in [Dates -> Nat \cup {Never}]
      BY <2>5, RowWritten
    <2>7. admitted' \in Nat /\ lastAdmitted' \in Nat \cup {Never} /\ woken' \in Nat
      BY <1>2 DEF Log, TypeOK, Times
    <2> QED
      BY <1>2, <2>3, <2>4, <2>6, <2>7 DEF Log, TypeOK, setting
  <1>3. ASSUME NEW c \in Calls, LogFails(c) PROVE TypeOK'
    BY <1>3 DEF LogFails, TypeOK, ledger, setting, history
  <1>4. ASSUME NEW c \in Calls, Resume(c) PROVE TypeOK'
    <2>1. seen[c].sid \in 0..MaxSession
      BY <1>4 DEF Resume, TypeOK, Seen
    <2> QED
      BY <1>4, <2>1 DEF Resume, Upsert, TypeOK, ledger, setting, history
  <1>5. ASSUME NEW kind \in Kinds, NEW sid \in Requested, LogRun(kind, sid) PROVE TypeOK'
    <2>1. duty' \in [Dates -> Nat] /\ impulse' \in [Dates -> Nat] /\ last' \in [Dates -> Nat \cup {Never}]
      BY <1>5, RowWritten DEF LogRun
    <2> QED
      BY <1>5, <2>1 DEF LogRun, Upsert, TypeOK, setting, history
  <1>6. CASE SetSession
    BY <1>6 DEF SetSession, Upsert, NoSession, TypeOK, ledger, setting, history
  <1>7. ASSUME NEW e \in Editors, ReadPolicy(e) PROVE TypeOK'
    BY <1>7 DEF ReadPolicy, TypeOK, ledger, history
  <1>8. ASSUME NEW e \in Editors, NEW args \in Policies, NEW given \in Given, SetPolicy(e, args, given)
        PROVE  TypeOK'
    <2> DEFINE from == IF base[e] # NoPolicy THEN base[e]
                       ELSE Defaults[IF "mode" \in given THEN args.mode ELSE "balanced"]
    <2>1. args \in Policy /\ args.mode \in Modes
      BY DEF Policy
    <2>2. policy' = Merge(from, args, given)
      BY <1>8 DEF SetPolicy
    <2>3. CASE from \in Policy
      <3>1. policy' \in Policy
        BY <2>1, <2>2, <2>3, MergeType
      <3>2. tuned' \in BOOLEAN
        BY <1>8 DEF SetPolicy, TypeOK
      <3> QED
        BY <1>8, <3>1, <3>2 DEF SetPolicy, TypeOK, ledger, history
    <2>4. base[e] # NoPolicy => from \in Policy
      BY DEF TypeOK
    <2>5. base[e] = NoPolicy => from \in Policy
      BY <2>1, BalancedAssumption DEF Policy
    <2> QED BY <2>3, <2>4, <2>5
  <1>9. CASE Tick
    <2>1. clock' \in Times
      <3>1. Days * DayLength \in Int
        OBVIOUS
      <3> QED BY <1>9, <3>1 DEF Tick, TypeOK, Times
    <2> QED BY <1>9, <2>1 DEF Tick, TypeOK, ledger, setting
  <1>10. CASE PriorityChanges
    BY <1>10 DEF PriorityChanges, TypeOK, ledger, setting, history
  <1>11. CASE UNCHANGED vars
    BY <1>11 DEF vars, TypeOK, ledger, setting, history
  <1> QED
    BY <1>1, <1>2, <1>3, <1>4, <1>5, <1>6, <1>7, <1>8, <1>9, <1>10, <1>11 DEF Next

\* Every step keeps the ledger layered, and the days to come unwritten.
LEMMA SheetStep == Sheet /\ [Next]_vars => Sheet'
PROOF
  <1> SUFFICES ASSUME Sheet, [Next]_vars PROVE Layered' /\ Unwritten'
    BY TypeStep DEF Sheet
  <1>0. /\ TypeOK /\ TypeOK' /\ Today \in Dates /\ Today' \in Dates /\ Layered /\ Unwritten
        /\ \A d \in Dates : duty[d] \in Nat /\ impulse[d] \in Nat /\ d \in Int
    <2>1. TypeOK /\ TypeOK' /\ Layered /\ Unwritten
      BY TypeStep DEF Sheet
    <2>2. Today \in Dates /\ Today' \in Dates
      <3>1. clock' \in Times /\ clock' <= clock'
        BY <2>1 DEF TypeOK, Times
      <3>2. Today' \in Dates
        BY <3>1, DayMono DEF Today
      <3> QED BY <2>1, <3>2, TodayType
    <2>3. \A d \in Dates : d \in Int
      BY RuntimeAssumption DEF Dates
    <2> QED BY <2>1, <2>2, <2>3 DEF TypeOK
  <1>1. ASSUME NEW kind, Row(kind), clock' = clock PROVE Layered' /\ Unwritten'
    <2>1. Today' = Today
      BY <1>1 DEF Today
    <2>2. \A d \in Dates : d > Today => duty'[d] = duty[d] /\ impulse'[d] = impulse[d]
      BY <1>0, <1>1, RowWritten
    <2>3. \/ \A d \in Dates : d <= Today => impulse'[d] = impulse[d] + 1 /\ duty'[d] = duty[d]
          \/ \A d \in Dates : d <= Today => impulse'[d] = impulse[d] /\ duty'[d] = duty[d] + 1
      BY <1>0, <1>1, RowWritten
    <2>4. Unwritten'
      BY <1>0, <2>1, <2>2 DEF Unwritten
    <2>5. Layered'
      <3> SUFFICES ASSUME NEW d \in Dates, NEW e \in Dates, d <= e
                   PROVE  impulse'[e] <= impulse'[d] /\ duty'[e] <= duty'[d]
        BY DEF Layered
      <3>1. impulse[e] <= impulse[d] /\ duty[e] <= duty[d]
        BY <1>0 DEF Layered
      <3>2. d \in Int /\ e \in Int /\ Today \in Int
        BY <1>0
      <3> QED BY <1>0, <2>2, <2>3, <3>1, <3>2
    <2> QED BY <2>4, <2>5
  <1>2. ASSUME NEW c \in Calls, Log(c) PROVE Layered' /\ Unwritten'
    BY <1>1, <1>2 DEF Log
  <1>3. ASSUME NEW kind \in Kinds, NEW sid \in Requested, LogRun(kind, sid) PROVE Layered' /\ Unwritten'
    BY <1>1, <1>3 DEF LogRun
  <1>4. CASE UNCHANGED <<clock, duty, impulse>>
    <2>1. Today' = Today
      BY <1>4 DEF Today
    <2> QED BY <1>0, <1>4, <2>1 DEF Layered, Unwritten
  <1>5. CASE Tick
    <2>1. UNCHANGED <<duty, impulse>> /\ clock' = clock + 1
      BY <1>5 DEF Tick, ledger
    <2>2. Today <= Today'
      <3>1. clock \in Times /\ clock' \in Times
        BY <1>0 DEF TypeOK
      <3>2. clock <= clock'
        BY <2>1, <3>1 DEF Times
      <3>3. DayOf(clock) <= DayOf(clock')
        BY <3>1, <3>2, DayMono
      <3> QED BY <3>3 DEF Today
    <2>3. \A d \in Dates : d > Today' => d > Today
      BY <1>0, <2>2
    <2> QED BY <1>0, <2>1, <2>3 DEF Layered, Unwritten
  <1> QED
    BY <1>2, <1>3, <1>4, <1>5 DEF Next, vars, ledger, Begin, LogFails, Resume, SetSession, ReadPolicy, SetPolicy,
       PriorityChanges

\* What a day up to today counts covers what today does.
LEMMA DueDay ==
  ASSUME Sheet, NEW at \in {clock} \cup Stamps, DayOf(at) <= DayOf(clock)
  PROVE  /\ DayOf(at) \in Dates /\ Impulses <= impulse[DayOf(at)]
         /\ Rows <= duty[DayOf(at)] + impulse[DayOf(at)]
PROOF
  <1>1. at \in Times /\ clock \in Times
    BY RuntimeAssumption DEF Sheet, TypeOK, Times
  <1>2. DayOf(at) \in Dates /\ Today \in Dates
    <2>1. at <= at /\ clock <= clock
      BY <1>1 DEF Times
    <2> QED BY <1>1, <2>1, DayMono DEF Today
  <1>3. impulse[Today] <= impulse[DayOf(at)] /\ duty[Today] <= duty[DayOf(at)]
    BY <1>2 DEF Sheet, Layered, Today
  <1>4. /\ impulse[Today] \in Nat /\ duty[Today] \in Nat
        /\ impulse[DayOf(at)] \in Nat /\ duty[DayOf(at)] \in Nat
    BY <1>2 DEF Sheet, TypeOK
  <1> QED BY <1>2, <1>3, <1>4 DEF Impulses, Rows

\* A row adds one to today's, and to today's impulses if it is one.
LEMMA RowToday ==
  ASSUME TypeOK, NEW kind, Row(kind), clock' = clock
  PROVE  /\ Rows' = Rows + 1 /\ Impulses' \in {Impulses, Impulses + 1}
         /\ kind = "impulse" => Impulses' = Impulses + 1
PROOF
  <1>1. Today' = Today /\ Today \in Dates /\ Today <= Today
    BY TodayType, RuntimeAssumption DEF Today, Dates
  <1>2. duty[Today] \in Nat /\ impulse[Today] \in Nat
    BY <1>1 DEF TypeOK
  <1>3. /\ kind = "impulse" => impulse'[Today] = impulse[Today] + 1 /\ duty'[Today] = duty[Today]
        /\ kind # "impulse" => impulse'[Today] = impulse[Today] /\ duty'[Today] = duty[Today] + 1
    BY <1>1, RowWritten
  <1>4. Rows' = duty'[Today] + impulse'[Today] /\ Impulses' = impulse'[Today]
    BY <1>1 DEF Rows, Impulses
  <1> QED BY <1>2, <1>3, <1>4 DEF Rows, Impulses

\* What leaves clock and ledger alone leaves today's rows alone.
LEMMA SameToday == UNCHANGED <<clock, duty, impulse>> => Rows' = Rows /\ Impulses' = Impulses
PROOF
  BY DEF Rows, Impulses, Today

\* At midnight the counters start from nothing; until then they stay.
LEMMA TickToday ==
  ASSUME Sheet, Sheet', Tick
  PROVE  \/ admitted' = 0 /\ Rows' = 0 /\ Impulses' = 0
         \/ admitted' = admitted /\ Rows' = Rows /\ Impulses' = Impulses
PROOF
  <1>1. UNCHANGED <<duty, impulse>> /\ clock' = clock + 1 /\ clock \in Times
    BY DEF Tick, ledger, Sheet, TypeOK
  <1>2. Today \in Dates /\ Today' \in Dates
    <2>1. clock' \in Times /\ clock' <= clock'
      BY DEF Sheet, TypeOK, Times
    <2>2. Today' \in Dates
      BY <2>1, DayMono DEF Today
    <2> QED BY <2>2, TodayType DEF Sheet
  <1>3. CASE clock' % DayLength = 0
    <2>1. Today < Today'
      BY <1>1, <1>3, Midnight DEF Today
    <2>2. impulse[Today'] = 0 /\ duty[Today'] = 0
      BY <1>2, <2>1 DEF Sheet, Unwritten
    <2>3. admitted' = 0
      BY <1>3 DEF Tick
    <2> QED BY <1>1, <2>2, <2>3 DEF Rows, Impulses
  <1>4. CASE clock' % DayLength # 0
    <2>1. Today' = Today
      BY <1>1, <1>4, Midnight DEF Today
    <2>2. admitted' = admitted
      BY <1>4 DEF Tick
    <2> QED BY <1>1, <2>1, <2>2 DEF Rows, Impulses
  <1> QED BY <1>3, <1>4

\* A step that takes no trigger into the hopeful ones and admits nothing keeps
\* the bound, provided the rows and the faults only grow.
LEMMA Quiet ==
  ASSUME TypeOK, TypeOK', Overshoot, Hopeful' \subseteq Hopeful, admitted' = admitted,
         faults' >= faults, Impulses' \in {Impulses, Impulses + 1}
  PROVE  Overshoot'
PROOF
  <1>1. /\ Hopeful \in SUBSET Calls /\ Hopeful' \in SUBSET Calls
        /\ IsFiniteSet(Hopeful) /\ Cardinality(Hopeful') <= Cardinality(Hopeful)
    <2>1. Hopeful \in SUBSET Calls /\ Hopeful' \in SUBSET Calls
      BY DEF Hopeful
    <2>2. IsFiniteSet(Hopeful)
      BY <2>1, CallsFinite
    <2> QED BY <2>1, <2>2, FS_Subset
  <1>2. /\ Cardinality(Hopeful) \in Nat /\ Cardinality(Hopeful') \in Nat
        /\ Cardinality(Hopeful') <= Cardinality(Calls) /\ Cardinality(Calls) \in Nat
    BY <1>1, CallsFinite
  <1>3. /\ admitted \in Nat /\ Impulses \in Nat /\ faults \in Nat /\ faults' \in Nat /\ Ceiling \in Nat
    BY TodayType, RuntimeAssumption DEF TypeOK
  <1>4. admitted' <= Impulses'
    BY <1>3 DEF Overshoot
  <1>5. Impulses' < Ceiling
          \/ admitted' + Cardinality(Hopeful') <= Ceiling + (Cardinality(Calls) - 1) + faults'
    <2>1. CASE Impulses < Ceiling
      BY <1>2, <1>3, <2>1 DEF Overshoot
    <2>2. CASE admitted + Cardinality(Hopeful) <= Ceiling + (Cardinality(Calls) - 1) + faults
      BY <1>1, <1>2, <1>3, <2>2
    <2> QED BY <2>1, <2>2 DEF Overshoot
  <1> QED BY <1>4, <1>5 DEF Overshoot

\* Every step keeps the bound.
LEMMA OvershootStep == IInv /\ [Next]_vars => Overshoot'
PROOF
  <1> SUFFICES ASSUME TypeOK, Sheet, Overshoot, [Next]_vars PROVE Overshoot'
    BY DEF IInv, Sheet
  <1> USE RuntimeAssumption
  <1>0. TypeOK' /\ Sheet' /\ Impulses \in Nat
    BY TypeStep, SheetStep, TodayType
  <1> DEFINE Still == Hopeful' \subseteq Hopeful /\ admitted' = admitted /\ faults' >= faults
                      /\ Impulses' \in {Impulses, Impulses + 1}
  <1>q. Still => Overshoot'
    BY <1>0, Quiet
  <1>1. ASSUME NEW c \in Calls, NEW kind \in Kinds, NEW enforce \in Enforced, NEW mode \in Modes,
               NEW sid \in Requested, NEW blind \in Blindness, NEW at \in {clock} \cup Stamps,
               Begin(c, kind, enforce, mode, sid, blind, at)
        PROVE  Overshoot'
    <2>1. /\ admitted' = admitted /\ UNCHANGED <<clock, duty, impulse>>
          /\ pc[c] = "idle" /\ pc' = [pc EXCEPT ![c] = "read"]
          /\ faults' = IF blind = {} THEN faults ELSE faults + 1
          /\ \A d \in Calls \ {c} : seen'[d] = seen[d]
          /\ seen'[c].at = at /\ seen'[c].began = clock
          /\ blind = {} => seen'[c].impulse = impulse[DayOf(at)]
      BY <1>1 DEF Begin, ledger, history, TypeOK
    <2>0. Impulses' = Impulses
      BY <2>1, SameToday
    <2>2. Hopeful' \subseteq Hopeful \cup {c}
      BY <2>1 DEF Hopeful, TypeOK, Duly
    <2>3. CASE blind = {}
      <3>1. CASE Impulses < Ceiling
        BY <2>0, <2>1, <3>1 DEF Overshoot
      <3>2. CASE ~(Impulses < Ceiling)
        <4>1. c \notin Hopeful'
          <5>1. SUFFICES ASSUME DayOf(at) <= DayOf(clock) PROVE ~(impulse[DayOf(at)] < Ceiling)
            BY <2>1, <2>3 DEF Hopeful, Duly
          <5>2. DayOf(at) \in Dates /\ Impulses <= impulse[DayOf(at)]
            BY <5>1, DueDay
          <5>3. impulse[DayOf(at)] \in Nat
            BY <5>2 DEF TypeOK
          <5> QED BY <1>0, <3>2, <5>2, <5>3
        <4> QED BY <1>q, <2>0, <2>1, <2>2, <2>3, <4>1 DEF TypeOK
      <3> QED BY <3>1, <3>2
    <2>4. CASE blind # {}
      <3>1. Cardinality(Hopeful') <= Cardinality(Hopeful) + 1
        <4>1. IsFiniteSet(Hopeful) /\ Cardinality(Hopeful) \in Nat
          BY CallsFinite DEF Hopeful
        <4>2. IsFiniteSet(Hopeful \cup {c}) /\ Cardinality(Hopeful \cup {c}) <= Cardinality(Hopeful) + 1
          <5>1. IsFiniteSet(Hopeful \cup {c})
                /\ Cardinality(Hopeful \cup {c}) = IF c \in Hopeful THEN Cardinality(Hopeful)
                                                   ELSE Cardinality(Hopeful) + 1
            BY <4>1, FS_AddElement
          <5> QED BY <4>1, <5>1
        <4>3. Cardinality(Hopeful') <= Cardinality(Hopeful \cup {c})
          BY <2>2, <4>2, FS_Subset
        <4>4. Cardinality(Hopeful') \in Nat /\ Cardinality(Hopeful \cup {c}) \in Nat
          BY <2>2, <4>2, FS_CardinalityType, FS_Subset
        <4> QED BY <4>1, <4>2, <4>3, <4>4
      <3>2. Cardinality(Hopeful') \in Nat /\ Cardinality(Hopeful) \in Nat /\ Cardinality(Calls) \in Nat
        BY CallsFinite DEF Hopeful
      <3> QED BY <1>0, <2>0, <2>1, <2>4, <3>1, <3>2 DEF Overshoot, TypeOK
    <2> QED BY <2>3, <2>4
  <1>2. ASSUME NEW c \in Calls, Log(c) PROVE Overshoot'
    <2>1. /\ pc[c] = "read" /\ pc' = [pc EXCEPT ![c] = "logged"] /\ faults' = faults
          /\ \A d \in Calls \ {c} : seen'[d] = seen[d]
      BY <1>2 DEF Log, TypeOK
    <2>2. Hopeful' \subseteq Hopeful \ {c}
      BY <2>1 DEF Hopeful, TypeOK
    <2>0. Row(seen[c].kind) /\ clock' = clock
      BY <1>2 DEF Log
    <2>3. Impulses' \in {Impulses, Impulses + 1} /\ faults' >= faults
      BY <2>0, <2>1, RowToday DEF TypeOK
    <2>4. CASE admitted' = admitted
      BY <1>q, <2>2, <2>3, <2>4
    <2>5. CASE admitted' = admitted + 1 /\ admitted' # admitted
      <3>1. seen[c].kind = "impulse" /\ ~Refused(seen[c]) /\ seen[c].enforce /\ Duly(seen[c])
        BY <1>2, <2>5 DEF Log
      <3>2. Impulses' = Impulses + 1
        BY <2>0, <3>1, RowToday
      <3>3. c \in Hopeful
        <4>1. ~(seen[c].impulse >= seen[c].policy.impulse)
          BY <3>1 DEF Refused, ImpulseSpent
        <4>2. seen[c].impulse \in Nat /\ seen[c].policy.impulse \in 0..Ceiling
          BY <2>1 DEF TypeOK, Seen, Policy
        <4> QED BY <2>1, <3>1, <4>1, <4>2 DEF Hopeful
      <3>4. /\ Cardinality(Hopeful') <= Cardinality(Hopeful) - 1
            /\ Cardinality(Hopeful') \in Nat /\ Cardinality(Hopeful) \in Nat
            /\ Cardinality(Hopeful) <= Cardinality(Calls) /\ Cardinality(Calls) \in Nat
        <4>1. IsFiniteSet(Hopeful) /\ Cardinality(Hopeful) \in Nat
              /\ Cardinality(Hopeful) <= Cardinality(Calls) /\ Cardinality(Calls) \in Nat
          BY CallsFinite DEF Hopeful
        <4>2. IsFiniteSet(Hopeful \ {c}) /\ Cardinality(Hopeful \ {c}) = Cardinality(Hopeful) - 1
          BY <3>3, <4>1, FS_RemoveElement
        <4>3. Cardinality(Hopeful') <= Cardinality(Hopeful \ {c}) /\ Cardinality(Hopeful') \in Nat
          BY <2>2, <4>2, FS_Subset, FS_CardinalityType
        <4> QED BY <4>1, <4>2, <4>3
      <3> QED
        BY <1>0, <2>1, <2>5, <3>2, <3>4 DEF Overshoot, TypeOK
    <2> QED BY <1>2, <2>4, <2>5 DEF Log
  <1>3. ASSUME NEW c \in Calls, LogFails(c) PROVE Overshoot'
    <2>1. Still
      BY <1>3, SameToday DEF LogFails, Hopeful, TypeOK, ledger, history
    <2> QED BY <1>q, <2>1
  <1>4. ASSUME NEW c \in Calls, Resume(c) PROVE Overshoot'
    <2>1. Still
      BY <1>4, SameToday DEF Resume, Hopeful, TypeOK, ledger, history
    <2> QED BY <1>q, <2>1
  <1>5. ASSUME NEW kind \in Kinds, NEW sid \in Requested, LogRun(kind, sid) PROVE Overshoot'
    <2>1. Still
      BY <1>5, RowToday DEF LogRun, Hopeful, TypeOK, history
    <2> QED BY <1>q, <2>1
  <1>6. CASE SetSession \/ PriorityChanges \/ (\E e \in Editors : ReadPolicy(e))
             \/ (\E e \in Editors, args \in Policies, given \in Given : SetPolicy(e, args, given))
             \/ UNCHANGED vars
    <2>1. Still
      BY <1>6, SameToday
         DEF SetSession, PriorityChanges, ReadPolicy, SetPolicy, vars, Hopeful, TypeOK, ledger, history
    <2> QED BY <1>q, <2>1
  <1>7. CASE Tick
    <2>1. UNCHANGED <<pc, seen, faults>>
      BY <1>7 DEF Tick
    <2>2. Hopeful' = Hopeful
      BY <2>1 DEF Hopeful
    <2>3. CASE Impulses' = 0 /\ admitted' = 0
      <3>1. CASE Ceiling > 0
        BY <2>3, <3>1 DEF Overshoot
      <3>2. CASE Ceiling = 0
        <4>1. Hopeful' = {}
          BY <2>2, <3>2 DEF Hopeful, TypeOK, Seen
        <4>2. Cardinality(Hopeful') = 0
          BY <4>1, FS_EmptySet
        <4>3. Cardinality(Calls) \in Nat \ {0} /\ faults' \in Nat
          BY <1>0, CallsFinite DEF TypeOK
        <4> QED BY <2>3, <3>2, <4>2, <4>3 DEF Overshoot
      <3> QED BY <3>1, <3>2
    <2>4. CASE Impulses' = Impulses /\ admitted' = admitted
      BY <1>q, <2>1, <2>2, <2>4 DEF TypeOK
    <2> QED BY <1>0, <1>7, <2>3, <2>4, TickToday
  <1> QED
    BY <1>1, <1>2, <1>3, <1>4, <1>5, <1>6, <1>7 DEF Next

\* A day begins empty.
LEMMA InitIInv == Init => IInv
PROOF
  <1> SUFFICES ASSUME Init PROVE IInv
    OBVIOUS
  <1> USE RuntimeAssumption, PoliciesAssumption
  <1>1. TypeOK
    <2>0. clock \in Times
      <3>1. Days * DayLength \in Nat \ {0}
        OBVIOUS
      <3> QED BY <3>1 DEF Init, Times
    <2>1. /\ duty \in [Dates -> Nat] /\ impulse \in [Dates -> Nat] /\ last \in [Dates -> Nat \cup {Never}]
          /\ session \in 0..MaxSession /\ faults \in 0..MaxFaults
          /\ woken \in Nat /\ admitted \in Nat /\ lastAdmitted \in Nat \cup {Never}
      BY DEF Init, NoSession
    <2>5. pending \in BOOLEAN /\ tuned \in BOOLEAN
      BY DEF Init
    <2>2. policy \in Policy \cup {NoPolicy} /\ base \in [Editors -> Policy \cup {NoPolicy}]
      BY DEF Init
    <2>3. seen \in [Calls -> Seen \cup {Nothing}] /\ pc \in [Calls -> {"idle", "read", "logged"}]
      BY DEF Init
    <2>4. \A c \in Calls : pc[c] = "idle"
      BY DEF Init
    <2> QED BY <2>0, <2>1, <2>2, <2>3, <2>4, <2>5 DEF TypeOK
  <1>4. Today \in Dates /\ Layered /\ Unwritten
    BY <1>1, TodayType DEF Init, Layered, Unwritten
  <1>2. Hopeful = {}
    BY DEF Init, Hopeful
  <1>3. Cardinality(Hopeful) = 0 /\ Cardinality(Calls) \in Nat \ {0}
    BY <1>2, CallsFinite, FS_EmptySet
  <1>5. admitted = 0 /\ Impulses = 0 /\ faults = 0
    BY <1>4 DEF Init, Impulses
  <1> QED BY <1>1, <1>3, <1>4, <1>5 DEF IInv, Sheet, Overshoot

\* The bound is what the invariant says of the triggers in flight.
LEMMA OvershootBounds == IInv => AdmittedBounded
PROOF
  <1>1. Cardinality(Calls) \in Nat \ {0} /\ Cardinality(Hopeful) \in Nat
    BY CallsFinite DEF Hopeful
  <1>2. TypeOK => Impulses \in Nat
    BY TodayType
  <1> QED BY <1>1, <1>2, RuntimeAssumption DEF IInv, Sheet, TypeOK, Overshoot, AdmittedBounded

\* The ledger, the policy row and the triggers keep their types.
THEOREM RuntimeTypeCorrect == Spec => []TypeOK
PROOF
  <1>1. Init => TypeOK
    BY InitIInv DEF IInv, Sheet
  <1> QED BY <1>1, TypeStep, PTL DEF Spec

\* A day's gated impulse wakes, but for those given a later day's now, exceed the largest
\* impulse budget by no more than the other triggers in flight and the queries that failed.
THEOREM ImpulsesBounded == Spec => []AdmittedBounded
PROOF
  <1>1. IInv /\ [Next]_vars => IInv'
    BY SheetStep, OvershootStep DEF IInv
  <1> QED BY <1>1, InitIInv, OvershootBounds, PTL DEF Spec
------------------------------------------------------------------------------
\* What the gate holds back for duty, and for a while.

\* Triggers in flight whose reads still left room below r.
Welcome(r) == {c \in Calls : pc[c] = "read" /\ Duly(seen[c]) /\ seen[c].total < r}

\* No mode's defaults leave impulses more than r wakes of a day.
Leaves(r) == \A m \in Modes : Defaults[m].daily - Defaults[m].reserve <= r

\* What Overshoot is for the impulse budget, for every such r.
Left(r) ==
  /\ admitted <= Rows
  /\ Rows < r
       \/ admitted + Cardinality(Welcome(r)) <= r + (Cardinality(Calls) - 1) + faults

\* Until a policy is stored every trigger has read the defaults of a mode.
ReserveInv ==
  policy = NoPolicy =>
    /\ \A c \in Calls : pc[c] = "read" => \E m \in Modes : seen[c].policy = Defaults[m]
    /\ \A r \in Nat \ {0} : Leaves(r) => Left(r)

\* A stored policy stays one.
LEMMA PolicyStays == TypeOK /\ [Next]_vars /\ policy' = NoPolicy => policy = NoPolicy
PROOF
  <1> SUFFICES ASSUME TypeOK, [Next]_vars, policy' = NoPolicy PROVE policy = NoPolicy
    OBVIOUS
  <1>1. ASSUME NEW e \in Editors, NEW args \in Policies, NEW given \in Given, SetPolicy(e, args, given)
        PROVE  FALSE
    <2> DEFINE from == IF base[e] # NoPolicy THEN base[e]
                       ELSE Defaults[IF "mode" \in given THEN args.mode ELSE "balanced"]
    <2>1. args \in Policy /\ args.mode \in Modes
      BY PoliciesAssumption DEF Policy
    <2>2. from \in Policy
      BY <2>1, PoliciesAssumption, BalancedAssumption DEF TypeOK
    <2>3. policy' = Merge(from, args, given)
      BY <1>1 DEF SetPolicy
    <2> HIDE DEF from
    <2> QED BY <2>1, <2>2, <2>3, MergeType, PoliciesAssumption
  <1> QED
    BY <1>1 DEF Next, vars, setting, Begin, Log, LogFails, Resume, LogRun, SetSession, ReadPolicy, Tick, PriorityChanges

\* A step that welcomes no trigger and admits nothing keeps the bound, provided the
\* rows and the faults only grow.
LEMMA QuietLeft ==
  ASSUME TypeOK, TypeOK', NEW r \in Nat \ {0}, Left(r), Welcome(r)' \subseteq Welcome(r), admitted' = admitted,
         faults' >= faults, Rows' \in {Rows, Rows + 1}
  PROVE  Left(r)'
PROOF
  <1>1. /\ Welcome(r) \in SUBSET Calls /\ Welcome(r)' \in SUBSET Calls
        /\ IsFiniteSet(Welcome(r)) /\ Cardinality(Welcome(r)') <= Cardinality(Welcome(r))
    <2>1. Welcome(r) \in SUBSET Calls /\ Welcome(r)' \in SUBSET Calls
      BY DEF Welcome
    <2>2. IsFiniteSet(Welcome(r))
      BY <2>1, CallsFinite
    <2> QED BY <2>1, <2>2, FS_Subset
  <1>2. /\ Cardinality(Welcome(r)) \in Nat /\ Cardinality(Welcome(r)') \in Nat
        /\ Cardinality(Welcome(r)') <= Cardinality(Calls) /\ Cardinality(Calls) \in Nat
    BY <1>1, CallsFinite
  <1>3. /\ admitted \in Nat /\ Rows \in Nat /\ faults \in Nat /\ faults' \in Nat
    BY TodayType, RuntimeAssumption DEF TypeOK
  <1>4. admitted' <= Rows'
    BY <1>3 DEF Left
  <1>5. Rows' < r
          \/ admitted' + Cardinality(Welcome(r)') <= r + (Cardinality(Calls) - 1) + faults'
    <2>1. CASE Rows < r
      BY <1>2, <1>3, <2>1 DEF Left
    <2>2. CASE admitted + Cardinality(Welcome(r)) <= r + (Cardinality(Calls) - 1) + faults
      BY <1>1, <1>2, <1>3, <2>2
    <2> QED BY <2>1, <2>2 DEF Left
  <1> QED BY <1>4, <1>5 DEF Left

\* A trigger that begins sees today's rows, or a query failed.
LEMMA BeginLeft ==
  ASSUME TypeOK, TypeOK', Sheet, NEW r \in Nat \ {0}, Left(r),
         NEW c \in Calls, NEW kind \in Kinds, NEW enforce \in Enforced, NEW mode \in Modes,
         NEW sid \in Requested, NEW blind \in Blindness, NEW at \in {clock} \cup Stamps,
         Begin(c, kind, enforce, mode, sid, blind, at)
  PROVE  Left(r)'
PROOF
  <1>1. /\ admitted' = admitted /\ UNCHANGED <<clock, duty, impulse>>
        /\ pc[c] = "idle" /\ pc' = [pc EXCEPT ![c] = "read"]
        /\ faults' = IF blind = {} THEN faults ELSE faults + 1
        /\ \A d \in Calls \ {c} : seen'[d] = seen[d]
        /\ seen'[c].at = at /\ seen'[c].began = clock
        /\ blind = {} => seen'[c].total = duty[DayOf(at)] + impulse[DayOf(at)]
    BY DEF Begin, ledger, history, TypeOK
  <1>0. Rows' = Rows
    BY <1>1, SameToday
  <1>2. Welcome(r)' \subseteq Welcome(r) \cup {c}
    BY <1>1 DEF Welcome, TypeOK, Duly
  <1>3. faults \in Nat /\ Rows \in Nat
    BY TodayType, RuntimeAssumption DEF TypeOK
  <1>4. CASE Rows < r
    BY <1>0, <1>1, <1>4 DEF Left
  <1>5. CASE ~(Rows < r) /\ blind = {}
    <2>1. c \notin Welcome(r)'
      <3>1. SUFFICES ASSUME DayOf(at) <= DayOf(clock) PROVE ~(duty[DayOf(at)] + impulse[DayOf(at)] < r)
        BY <1>1, <1>5 DEF Welcome, Duly
      <3>2. DayOf(at) \in Dates /\ Rows <= duty[DayOf(at)] + impulse[DayOf(at)]
        BY <3>1, DueDay
      <3>3. duty[DayOf(at)] + impulse[DayOf(at)] \in Nat
        BY <3>2 DEF TypeOK
      <3> QED BY <1>3, <1>5, <3>2, <3>3
    <2> QED BY <1>0, <1>1, <1>2, <1>3, <1>5, <2>1, QuietLeft
  <1>6. CASE ~(Rows < r) /\ blind # {}
    <2>1. Cardinality(Welcome(r)') <= Cardinality(Welcome(r)) + 1
      <3>1. IsFiniteSet(Welcome(r)) /\ Cardinality(Welcome(r)) \in Nat
        BY CallsFinite DEF Welcome
      <3>2. IsFiniteSet(Welcome(r) \cup {c}) /\ Cardinality(Welcome(r) \cup {c}) <= Cardinality(Welcome(r)) + 1
        <4>1. IsFiniteSet(Welcome(r) \cup {c})
              /\ Cardinality(Welcome(r) \cup {c}) = IF c \in Welcome(r) THEN Cardinality(Welcome(r))
                                                 ELSE Cardinality(Welcome(r)) + 1
          BY <3>1, FS_AddElement
        <4> QED BY <3>1, <4>1
      <3>3. Cardinality(Welcome(r)') <= Cardinality(Welcome(r) \cup {c})
        BY <1>2, <3>2, FS_Subset
      <3>4. Cardinality(Welcome(r)') \in Nat /\ Cardinality(Welcome(r) \cup {c}) \in Nat
        BY <1>2, <3>2, FS_CardinalityType, FS_Subset
      <3> QED BY <3>1, <3>2, <3>3, <3>4
    <2>2. Cardinality(Welcome(r)') \in Nat /\ Cardinality(Welcome(r)) \in Nat /\ Cardinality(Calls) \in Nat
      BY CallsFinite DEF Welcome
    <2> QED BY <1>0, <1>1, <1>3, <1>6, <2>1, <2>2 DEF Left, TypeOK
  <1> QED BY <1>4, <1>5, <1>6

\* An impulse that passes had read room below what every mode leaves.
LEMMA LogLeft ==
  ASSUME TypeOK, TypeOK', NEW r \in Nat \ {0}, Leaves(r), Left(r), NEW c \in Calls, Log(c),
         \E m \in Modes : seen[c].policy = Defaults[m]
  PROVE  Left(r)'
PROOF
  <1>1. /\ pc[c] = "read" /\ pc' = [pc EXCEPT ![c] = "logged"] /\ faults' = faults
        /\ \A d \in Calls \ {c} : seen'[d] = seen[d]
    BY DEF Log, TypeOK
  <1>2. Welcome(r)' \subseteq Welcome(r) \ {c}
    BY <1>1 DEF Welcome, TypeOK
  <1>3. Rows' = Rows + 1 /\ faults' >= faults
    <2>1. Row(seen[c].kind) /\ clock' = clock
      BY DEF Log
    <2> QED BY <1>1, <2>1, RowToday, RuntimeAssumption DEF TypeOK
  <1>4. CASE admitted' = admitted
    BY <1>2, <1>3, <1>4, QuietLeft
  <1>5. CASE admitted' = admitted + 1 /\ admitted' # admitted
    <2>1. seen[c].kind = "impulse" /\ ~Refused(seen[c]) /\ seen[c].enforce /\ Duly(seen[c])
      BY <1>5 DEF Log
    <2>2. c \in Welcome(r)
      <3>1. PICK m \in Modes : seen[c].policy = Defaults[m]
        OBVIOUS
      <3>2. /\ seen[c].policy.daily \in Nat /\ seen[c].policy.reserve \in Nat /\ seen[c].total \in Nat
            /\ seen[c].policy.daily - seen[c].policy.reserve <= r
        BY <1>1, <3>1, PoliciesAssumption DEF TypeOK, Seen, Policy, Leaves
      <3>3. ~(seen[c].policy.daily - seen[c].total <= seen[c].policy.reserve)
        BY <2>1 DEF Refused, Reserved
      <3> QED BY <1>1, <2>1, <3>2, <3>3 DEF Welcome
    <2>3. /\ Cardinality(Welcome(r)') <= Cardinality(Welcome(r)) - 1
          /\ Cardinality(Welcome(r)') \in Nat /\ Cardinality(Welcome(r)) \in Nat
          /\ Cardinality(Welcome(r)) <= Cardinality(Calls) /\ Cardinality(Calls) \in Nat
      <3>1. IsFiniteSet(Welcome(r)) /\ Cardinality(Welcome(r)) \in Nat
            /\ Cardinality(Welcome(r)) <= Cardinality(Calls) /\ Cardinality(Calls) \in Nat
        BY CallsFinite DEF Welcome
      <3>2. IsFiniteSet(Welcome(r) \ {c}) /\ Cardinality(Welcome(r) \ {c}) = Cardinality(Welcome(r)) - 1
        BY <2>2, <3>1, FS_RemoveElement
      <3>3. Cardinality(Welcome(r)') <= Cardinality(Welcome(r) \ {c}) /\ Cardinality(Welcome(r)') \in Nat
        BY <1>2, <3>2, FS_Subset, FS_CardinalityType
      <3> QED BY <3>1, <3>2, <3>3
    <2>4. faults \in Nat /\ admitted \in Nat /\ Rows \in Nat
      BY TodayType, RuntimeAssumption DEF TypeOK
    <2> QED
      BY <1>1, <1>3, <1>5, <2>3, <2>4 DEF Left
  <1> QED BY <1>4, <1>5 DEF Log

\* A new day begins with nothing admitted.
LEMMA TickLeft ==
  ASSUME TypeOK, TypeOK', Sheet, Sheet', NEW r \in Nat \ {0}, Left(r), Tick
  PROVE  Left(r)'
PROOF
  <1>1. UNCHANGED <<pc, seen, faults>>
    BY DEF Tick
  <1>2. Welcome(r)' = Welcome(r)
    BY <1>1 DEF Welcome
  <1>3. CASE admitted' = 0 /\ Rows' = 0
    BY <1>3 DEF Left
  <1>4. CASE admitted' = admitted /\ Rows' = Rows
    BY <1>1, <1>2, <1>4, QuietLeft, RuntimeAssumption DEF TypeOK
  <1> QED BY <1>3, <1>4, TickToday

\* Every step keeps what is left to duty.
LEMMA ReserveStep == Sheet /\ ReserveInv /\ [Next]_vars => ReserveInv'
PROOF
  <1> SUFFICES ASSUME TypeOK, Sheet, ReserveInv, [Next]_vars, policy' = NoPolicy PROVE ReserveInv'
    BY DEF ReserveInv, Sheet
  <1>0. TypeOK' /\ Sheet' /\ policy = NoPolicy /\ Rows \in Nat
    BY TypeStep, SheetStep, PolicyStays, TodayType
  <1>1. /\ \A c \in Calls : pc[c] = "read" => \E m \in Modes : seen[c].policy = Defaults[m]
        /\ \A r \in Nat \ {0} : Leaves(r) => Left(r)
    BY <1>0 DEF ReserveInv
  <1> DEFINE Known == \A c \in Calls : pc'[c] = "read" => \E m \in Modes : seen'[c].policy = Defaults[m]
  <1> DEFINE Held == \A r \in Nat \ {0} : Leaves(r) => Left(r)'
  <1>2. ASSUME NEW c \in Calls, NEW kind \in Kinds, NEW enforce \in Enforced, NEW mode \in Modes,
               NEW sid \in Requested, NEW blind \in Blindness, NEW at \in {clock} \cup Stamps,
               Begin(c, kind, enforce, mode, sid, blind, at)
        PROVE  Known /\ Held
    <2>1. Known
      <3>1. /\ pc' = [pc EXCEPT ![c] = "read"] /\ \A d \in Calls \ {c} : seen'[d] = seen[d]
            /\ seen'[c].policy = Defaults[mode]
        BY <1>0, <1>2 DEF Begin, TypeOK
      <3> QED BY <1>1, <3>1 DEF TypeOK
    <2>2. Held
      BY <1>0, <1>1, <1>2, BeginLeft
    <2> QED BY <2>1, <2>2
  <1>3. ASSUME NEW c \in Calls, Log(c) PROVE Known /\ Held
    <2>1. /\ pc[c] = "read" /\ pc' = [pc EXCEPT ![c] = "logged"]
          /\ \A d \in Calls \ {c} : seen'[d] = seen[d]
      BY <1>3 DEF Log, TypeOK
    <2>2. Known
      BY <1>1, <2>1 DEF TypeOK
    <2>3. \E m \in Modes : seen[c].policy = Defaults[m]
      BY <1>1, <2>1
    <2>4. Held
      BY <1>0, <1>1, <1>3, <2>3, LogLeft
    <2> QED BY <2>2, <2>4
  <1>4. ASSUME Tick PROVE Known /\ Held
    <2>1. Known
      BY <1>1, <1>4 DEF Tick
    <2>2. Held
      BY <1>0, <1>1, <1>4, TickLeft
    <2> QED BY <2>1, <2>2
  <1> DEFINE Still == /\ \A c \in Calls : pc'[c] = "read" => pc[c] = "read" /\ seen'[c] = seen[c]
                      /\ admitted' = admitted /\ faults' >= faults
                      /\ Rows' \in {Rows, Rows + 1}
  <1>5. Still => Known /\ Held
    <2> SUFFICES ASSUME Still PROVE Known /\ Held
      OBVIOUS
    <2>1. Known
      BY <1>1
    <2>2. ASSUME NEW r \in Nat \ {0}, Leaves(r) PROVE Left(r)'
      <3>1. Welcome(r)' \subseteq Welcome(r)
        BY DEF Welcome
      <3>2. Left(r)
        BY <1>1, <2>2
      <3> QED BY <1>0, <3>1, <3>2, QuietLeft
    <2> QED BY <2>1, <2>2
  <1>6. ASSUME NEW c \in Calls, LogFails(c) \/ Resume(c) PROVE Still
    BY <1>6, SameToday, RuntimeAssumption DEF LogFails, Resume, TypeOK, ledger, history
  <1>7. ASSUME NEW kind \in Kinds, NEW sid \in Requested, LogRun(kind, sid) PROVE Still
    BY <1>7, RowToday, RuntimeAssumption DEF LogRun, TypeOK, history
  <1>8. ASSUME \/ SetSession \/ PriorityChanges \/ (\E e \in Editors : ReadPolicy(e))
               \/ \E e \in Editors, args \in Policies, given \in Given : SetPolicy(e, args, given)
               \/ UNCHANGED vars
        PROVE  Still
    BY <1>8, SameToday, RuntimeAssumption
       DEF SetSession, PriorityChanges, ReadPolicy, SetPolicy, vars, TypeOK, ledger, history
  <1>9. Known /\ Held
    <2> HIDE DEF Known, Held, Still
    <2> QED BY <1>2, <1>3, <1>4, <1>5, <1>6, <1>7, <1>8 DEF Next
  <1> QED BY <1>9 DEF ReserveInv

\* The reserve holds: were every mode's defaults passed, they would leave less than they do.
LEMMA ReserveBounds == TypeOK /\ ReserveInv => ReserveHolds
PROOF
  <1> SUFFICES ASSUME TypeOK, ReserveInv, policy = NoPolicy,
                      \A m \in Modes : ~(admitted <= Defaults[m].daily - Defaults[m].reserve + (Cardinality(Calls) - 1) + faults)
               PROVE  FALSE
    BY DEF ReserveHolds
  <1> DEFINE k == (Cardinality(Calls) - 1) + faults   r == admitted - k - 1
  <1>1. k \in Nat /\ admitted \in Nat
    BY CallsFinite, RuntimeAssumption DEF TypeOK
  <1>2. \A m \in Modes : Defaults[m].daily \in Nat /\ Defaults[m].reserve \in Nat /\ Defaults[m].reserve < Defaults[m].daily
    BY PoliciesAssumption DEF Policy
  <1>3. \A m \in Modes : ~(admitted <= Defaults[m].daily - Defaults[m].reserve + k)
    <2> SUFFICES ASSUME NEW m \in Modes PROVE ~(admitted <= Defaults[m].daily - Defaults[m].reserve + k)
      OBVIOUS
    <2>1. Cardinality(Calls) \in Nat /\ faults \in Nat
      BY CallsFinite, RuntimeAssumption DEF TypeOK
    <2> QED BY <1>2, <2>1
  <1> HIDE DEF k
  <1>4. Leaves(r)
    BY <1>1, <1>2, <1>3 DEF Leaves
  <1>5. r \in Nat \ {0}
    <2>1. PICK m \in Modes : TRUE
      BY PoliciesAssumption
    <2> QED BY <1>1, <1>2, <1>3, <2>1
  <1>6. Left(r)
    BY <1>4, <1>5 DEF ReserveInv
  <1>7. Cardinality(Welcome(r)) \in Nat
    BY CallsFinite DEF Welcome
  <1>8. admitted <= Rows /\ Rows \in Nat
    BY <1>6, TodayType DEF Left
  <1>9. Rows < r \/ admitted + Cardinality(Welcome(r)) <= r + k
    <2>1. Cardinality(Calls) \in Nat /\ faults \in Nat
      BY CallsFinite, RuntimeAssumption DEF TypeOK
    <2>2. r + (Cardinality(Calls) - 1) + faults = r + k
      BY <1>5, <2>1 DEF k
    <2> QED BY <1>6, <2>2 DEF Left
  <1> QED BY <1>1, <1>7, <1>8, <1>9

\* The last admitted gated impulse is in the ledger of every day up to its own, and who began
\* after it and read one of those days has seen it.
CoolInv ==
  /\ lastAdmitted <= clock
  /\ lastAdmitted # Never => \A d \in Dates : d <= DayOf(lastAdmitted) => lastAdmitted <= last[d]
  /\ \A d \in Dates : last[d] <= clock
  /\ \A c \in Calls : pc[c] = "read" =>
       /\ seen[c].began <= clock
       /\ (/\ faults = 0 /\ lastAdmitted # Never /\ DayOf(seen[c].at) <= DayOf(lastAdmitted)
           /\ lastAdmitted < seen[c].began)
            => lastAdmitted <= seen[c].last

\* Every step keeps that.
LEMMA CoolStep == TypeOK /\ CoolInv /\ [Next]_vars => CoolInv'
PROOF
  <1> SUFFICES ASSUME TypeOK, CoolInv, [Next]_vars PROVE CoolInv'
    OBVIOUS
  <1>0. /\ clock \in Nat /\ lastAdmitted \in Nat \cup {Never} /\ Never \in Int /\ faults \in Nat
        /\ \A d \in Dates : last[d] \in Int
        /\ \A c \in Calls : pc[c] = "read" => seen[c].began \in Nat /\ seen[c].at \in Times /\ seen[c].last \in Int
        /\ Today \in Dates
    <2>1. Today \in Dates
      BY TodayType
    <2> QED BY <2>1, RuntimeAssumption DEF TypeOK, Seen, Never, Times
  <1>1. ASSUME NEW c \in Calls, NEW kind \in Kinds, NEW enforce \in Enforced, NEW mode \in Modes,
               NEW sid \in Requested, NEW blind \in Blindness, NEW at \in {clock} \cup Stamps,
               Begin(c, kind, enforce, mode, sid, blind, at)
        PROVE  CoolInv'
    <2>1. /\ UNCHANGED <<clock, last, lastAdmitted>> /\ pc' = [pc EXCEPT ![c] = "read"]
          /\ faults' = IF blind = {} THEN faults ELSE faults + 1
          /\ \A d \in Calls \ {c} : seen'[d] = seen[d]
          /\ seen'[c].at = at /\ seen'[c].began = clock /\ (blind = {} => seen'[c].last = last[DayOf(at)])
      BY <1>1 DEF Begin, ledger, history, TypeOK
    <2>2. \A d \in Calls \ {c} : pc'[d] = pc[d]
      BY <2>1 DEF TypeOK
    <2>3. faults' = 0 => blind = {} /\ faults = 0
      BY <1>0, <2>1
    <2>4. DayOf(at) \in Dates
      <3>1. at \in Times /\ at <= at
        BY RuntimeAssumption DEF TypeOK, Times
      <3> QED BY <3>1, DayMono
    <2>5. faults' = 0 /\ lastAdmitted # Never /\ DayOf(at) <= DayOf(lastAdmitted) => lastAdmitted <= seen'[c].last
      BY <2>1, <2>3, <2>4 DEF CoolInv
    <2>6. \A d \in Calls : pc'[d] = "read" =>
             /\ seen'[d].began <= clock
             /\ (/\ faults' = 0 /\ lastAdmitted # Never /\ DayOf(seen'[d].at) <= DayOf(lastAdmitted)
                 /\ lastAdmitted < seen'[d].began)
                  => lastAdmitted <= seen'[d].last
      <3> SUFFICES ASSUME NEW d \in Calls, pc'[d] = "read"
                   PROVE  /\ seen'[d].began <= clock
                          /\ (/\ faults' = 0 /\ lastAdmitted # Never /\ DayOf(seen'[d].at) <= DayOf(lastAdmitted)
                              /\ lastAdmitted < seen'[d].began)
                               => lastAdmitted <= seen'[d].last
        OBVIOUS
      <3>1. CASE d = c
        BY <1>0, <2>1, <2>5, <3>1
      <3>2. CASE d # c
        BY <2>1, <2>2, <2>3, <3>2 DEF CoolInv
      <3> QED BY <3>1, <3>2
    <2> QED BY <2>1, <2>6 DEF CoolInv
  <1>2. ASSUME NEW kind, Row(kind), clock' = clock, faults' = faults,
               \A d \in Calls : pc'[d] = "read" => pc[d] = "read" /\ seen'[d] = seen[d],
               lastAdmitted' = lastAdmitted \/ (kind = "impulse" /\ lastAdmitted' = clock)
        PROVE  CoolInv'
    <2>1. \A d \in Dates : last'[d] \in {last[d], clock} /\ last[d] <= last'[d] /\ last'[d] <= clock
      <3> SUFFICES ASSUME NEW d \in Dates
                   PROVE  last'[d] \in {last[d], clock} /\ last[d] <= last'[d] /\ last'[d] <= clock
        OBVIOUS
      <3>1. d \in Int /\ Today \in Int
        BY <1>0, RuntimeAssumption DEF Dates
      <3>2. last'[d] \in {last[d], clock}
        BY <1>2, <3>1, RowWritten
      <3> QED BY <1>0, <3>2 DEF CoolInv
    <2>2. CASE lastAdmitted' = lastAdmitted
      <3>1. ASSUME lastAdmitted # Never, NEW d \in Dates, d <= DayOf(lastAdmitted) PROVE lastAdmitted <= last'[d]
        <4>1. lastAdmitted <= last[d] /\ last[d] <= last'[d] /\ last'[d] \in {last[d], clock}
          BY <2>1, <3>1 DEF CoolInv
        <4> QED BY <1>0, <4>1
      <3> QED BY <1>2, <2>1, <2>2, <3>1 DEF CoolInv
    <2>3. CASE kind = "impulse" /\ lastAdmitted' = clock
      <3>1. \A d \in Dates : d <= Today => last'[d] = clock
        BY <1>2, <2>3, RowWritten
      <3>2. \A d \in Calls : pc'[d] = "read" => seen'[d].began \in Nat /\ seen'[d].began <= clock
        BY <1>0, <1>2 DEF CoolInv
      <3> QED BY <1>0, <1>2, <2>1, <2>3, <3>1, <3>2 DEF CoolInv, Today
    <2> QED BY <1>2, <2>2, <2>3
  <1>3. ASSUME NEW c \in Calls, Log(c) PROVE CoolInv'
    <2>1. /\ Row(seen[c].kind) /\ clock' = clock /\ faults' = faults
          /\ lastAdmitted' = lastAdmitted \/ (seen[c].kind = "impulse" /\ lastAdmitted' = clock)
      BY <1>3 DEF Log
    <2>2. \A d \in Calls : pc'[d] = "read" => pc[d] = "read" /\ seen'[d] = seen[d]
      BY <1>3 DEF Log, TypeOK
    <2> QED BY <1>2, <2>1, <2>2
  <1>4. ASSUME NEW kind \in Kinds, NEW sid \in Requested, LogRun(kind, sid) PROVE CoolInv'
    <2>1. Row(kind) /\ UNCHANGED <<clock, faults, lastAdmitted, pc, seen>>
      BY <1>4 DEF LogRun, history
    <2> QED BY <1>2, <2>1
  <1>5. ASSUME NEW c \in Calls, LogFails(c) \/ Resume(c) PROVE CoolInv'
    <2>1. /\ UNCHANGED <<clock, last, lastAdmitted>> /\ faults' \in {faults, faults + 1}
          /\ \A d \in Calls : pc'[d] = "read" => pc[d] = "read" /\ seen'[d] = seen[d]
      BY <1>5 DEF LogFails, Resume, ledger, history, TypeOK
    <2>2. faults' = 0 => faults = 0
      BY <1>0, <2>1
    <2> QED BY <2>1, <2>2 DEF CoolInv
  <1>6. CASE SetSession \/ PriorityChanges \/ (\E e \in Editors : ReadPolicy(e))
             \/ (\E e \in Editors, args \in Policies, given \in Given : SetPolicy(e, args, given))
             \/ UNCHANGED vars
    <2>1. UNCHANGED <<clock, last, pc, seen, lastAdmitted, faults>>
      BY <1>6 DEF SetSession, PriorityChanges, ReadPolicy, SetPolicy, vars, ledger, history
    <2> QED BY <2>1 DEF CoolInv
  <1>7. CASE Tick
    <2>1. clock' = clock + 1 /\ UNCHANGED <<last, pc, seen, lastAdmitted, faults>>
      BY <1>7 DEF Tick, ledger
    <2> QED BY <1>0, <2>1 DEF CoolInv
  <1> QED BY <1>1, <1>3, <1>4, <1>5, <1>6, <1>7 DEF Next

\* Who passes the gate has waited since the last impulse it saw.
LEMMA CooledStep == TypeOK /\ CoolInv /\ [Next]_vars => Cooled
PROOF
  <1> SUFFICES ASSUME TypeOK, CoolInv, [Next]_vars, NEW c \in Calls, pc[c] = "read", pc'[c] = "logged",
                      seen[c].kind = "impulse", seen[c].enforce, ~seen'[c].deferred, faults = 0,
                      seen[c].at <= seen[c].began, lastAdmitted # Never,
                      DayOf(seen[c].at) <= DayOf(lastAdmitted), ~(seen[c].began <= lastAdmitted)
               PROVE  seen[c].began - lastAdmitted >= seen[c].policy.gap
    BY DEF Cooled
  <1>1. Log(c)
    BY DEF Next, vars, ledger, Begin, Log, LogFails, Resume, LogRun, SetSession, ReadPolicy, SetPolicy, Tick,
           PriorityChanges, TypeOK
  <1>2. /\ seen[c].at \in Nat /\ seen[c].began \in Nat /\ seen[c].last \in Nat \cup {Never}
        /\ seen[c].policy.gap \in Nat /\ lastAdmitted \in Nat
    BY DEF TypeOK, Seen, Policy, Times
  <1>3. 0 <= lastAdmitted /\ lastAdmitted <= seen[c].last
    BY <1>2 DEF CoolInv
  <1>4. ~Refused(seen[c])
    <2>1. seen[c] \in Seen /\ seen' = [seen EXCEPT ![c].deferred = Refused(seen[c])]
      BY <1>1 DEF TypeOK, Log
    <2>2. seen' = [seen EXCEPT ![c] = [seen[c] EXCEPT !.deferred = Refused(seen[c])]]
      BY <2>1 DEF TypeOK
    <2>3. seen'[c] = [seen[c] EXCEPT !.deferred = Refused(seen[c])]
      BY <2>2 DEF TypeOK
    <2>4. seen'[c].deferred = Refused(seen[c])
      BY <2>1, <2>3 DEF Seen
    <2> QED BY <2>4
  <1>5. ~Cooling(seen[c])
    BY <1>4 DEF Refused
  <1> QED BY <1>2, <1>3, <1>5 DEF Cooling, Never

\* However many triggers overlap: while the defaults apply, impulses leave duty its reserve, but for
\* one wake per further trigger in flight and per failed query; and an admitted impulse whose now is
\* not ahead of the clock has waited since the one before it that its day shows, unless it was in
\* flight by then or a query failed.
THEOREM TheGateHolds == AllSpec => GateHolds
PROOF
  <1> DEFINE Inv == Sheet /\ ReserveInv /\ CoolInv
  <1>1. AllInit => Inv
    <2> SUFFICES ASSUME Init PROVE Inv
      BY DEF AllInit
    <2>1. Sheet /\ Today \in Dates
      BY InitIInv, TodayType DEF IInv, Sheet
    <2>2. \A c \in Calls : pc[c] # "read"
      BY DEF Init
    <2>6. Rows = 0 /\ admitted = 0
      BY <2>1 DEF Init, Rows
    <2>3. ASSUME NEW r \in Nat \ {0} PROVE Left(r)
      BY <2>3, <2>6 DEF Left
    <2>4. ReserveInv
      BY <2>2, <2>3 DEF ReserveInv
    <2>5. CoolInv
      BY <2>2 DEF Init, CoolInv, Never
    <2> QED BY <2>1, <2>4, <2>5
  <1>2. Inv /\ [AllNext]_all => Inv' /\ Cooled /\ ReserveHolds'
    <2> SUFFICES ASSUME Inv, [AllNext]_all PROVE Inv' /\ Cooled /\ ReserveHolds'
      OBVIOUS
    <2>1. [Next]_vars
      BY DEF AllNext, all, Wakes, vars
    <2>2. Inv'
      BY <2>1, SheetStep, ReserveStep, CoolStep DEF Sheet
    <2>3. TypeOK' /\ ReserveInv' => ReserveHolds'
      BY ReserveBounds, PTL
    <2> QED BY <2>1, <2>2, <2>3, CooledStep DEF Sheet
  <1> HIDE DEF Inv
  <1> QED BY <1>1, <1>2, PTL DEF AllSpec, GateHolds
------------------------------------------------------------------------------
\* The tasks the agents share.  An agent is at work on what its trigger settled on,
\* and what made that task its own to take does not change any more: a task keeps its
\* owner and its assignee, and a dependency that was done is done or was reopened.

TaskIds == Shared!Ids
People == Tenants \cup {Nobody}

BoardTyped ==
  /\ created \in 0..MaxTasks
  /\ status \in [TaskIds -> Shared!Status \cup {"none"}]
  /\ owner \in [TaskIds -> People] /\ assignee \in [TaskIds -> People]
  /\ deps \in [TaskIds -> SUBSET TaskIds]
  /\ unsent \in [TaskIds -> Nat] /\ letters \in [TaskIds -> Nat] /\ unheard \in [TaskIds -> Nat]
  /\ rec \in [Triggers -> TaskIds \cup {0}] /\ working \in [Triggers -> BOOLEAN]

\* Rows come into being in order.
Unborn == \A i \in TaskIds : i > created => status[i] = "none"

WasDone(d) == status[d] = "done" \/ d \in reopened

\* What a trigger holds is a task there is, actionable for its agent, that waits for nothing.
Holds(g) ==
  /\ rec[g] \in 1..created
  /\ Shared!Actionable(AgentOf[g], rec[g])
  /\ \A d \in deps[rec[g]] : WasDone(d)
Held == \A g \in Triggers : /\ rec[g] # 0 => Holds(g)
                            /\ working[g] => rec[g] # 0

BoardInv == BoardTyped /\ Unborn /\ Held /\ Shared!NoSilentFinish

LEMMA BoardFacts ==
  /\ MaxTasks \in Nat /\ TaskIds = 1..MaxTasks /\ Nobody \notin Tenants
  /\ \A g \in Triggers : AgentOf[g] \in Tenants
BY BoardAssumption DEF Shared!TasksAssumption, TaskIds, Shared!Ids

LEMMA BoardInit == Shared!Init => BoardInv
<1> SUFFICES ASSUME Shared!Init PROVE BoardInv OBVIOUS
<1>1. BoardTyped BY BoardFacts DEF Shared!Init, BoardTyped, TaskIds, People
<1>2. Unborn /\ Held BY DEF Shared!Init, Unborn, Held, TaskIds
<1>3. Shared!NoSilentFinish BY DEF Shared!Init, Shared!NoSilentFinish, Shared!Created
<1> QED BY <1>1, <1>2, <1>3 DEF BoardInv

\* A new row leaves alone whatever was there.
LEMMA InsertKeeps ==
  ASSUME BoardInv, NEW t \in People, NEW a \in People, NEW D \in SUBSET TaskIds, NEW w,
         NEW s \in {"open", "scheduled"}, created < MaxTasks,
         Shared!Insert(created + 1, t, s, a, D, w),
         UNCHANGED <<unsent, letters, unheard, rec, working, closedByOwner, reopened>>
  PROVE  BoardInv'
<1> DEFINE n == created + 1
<1>1. created \in Nat /\ n \in TaskIds /\ created' = n /\ n \in 0..MaxTasks
  BY BoardFacts DEF BoardInv, BoardTyped, Shared!Insert
<1>2. /\ status' = [status EXCEPT ![n] = s] /\ owner' = [owner EXCEPT ![n] = t]
      /\ assignee' = [assignee EXCEPT ![n] = a] /\ deps' = [deps EXCEPT ![n] = D]
  BY DEF Shared!Insert
<1> HIDE DEF n
<1>3. BoardTyped' BY <1>1, <1>2 DEF BoardInv, BoardTyped, Shared!Status
<1>4. \A i \in TaskIds : i # n => /\ status'[i] = status[i] /\ owner'[i] = owner[i]
                                 /\ assignee'[i] = assignee[i] /\ deps'[i] = deps[i]
  BY <1>1, <1>2 DEF BoardInv, BoardTyped
<1>5. status[n] = "none" /\ status'[n] = s
  BY <1>1, <1>2 DEF BoardInv, BoardTyped, Unborn, n
<1>6. \A i \in 1..created : i \in TaskIds /\ i # n
  BY <1>1, BoardFacts DEF BoardInv, BoardTyped, n
<1>7. Unborn' BY <1>1, <1>4, BoardFacts DEF BoardInv, Unborn, n
<1>8. \A d \in TaskIds : WasDone(d) => WasDone(d)' BY <1>4, <1>5 DEF WasDone
<1>9. Held'
  <2> SUFFICES ASSUME NEW g \in Triggers PROVE (rec'[g] # 0 => Holds(g)') /\ (working'[g] => rec'[g] # 0)
    BY DEF Held
  <2>1. working'[g] => rec'[g] # 0 BY DEF BoardInv, Held
  <2>2. ASSUME rec[g] # 0 PROVE Holds(g)'
    <3>1. Holds(g) BY <2>2 DEF BoardInv, Held
    <3>2. rec[g] \in 1..created /\ rec[g] \in TaskIds /\ rec[g] # n BY <3>1, <1>6 DEF Holds
    <3>3. rec[g] \in 1..created' BY <3>2, <1>1 DEF n
    <3>4. Shared!Actionable(AgentOf[g], rec[g])'
      BY <3>1, <3>2, <1>4 DEF Holds, Shared!Actionable, Shared!IsAssigned, Shared!DelegatedAway
    <3>5. \A d \in deps'[rec[g]] : WasDone(d)'
      BY <3>1, <3>2, <1>4, <1>8 DEF Holds, BoardInv, BoardTyped
    <3> QED BY <3>3, <3>4, <3>5 DEF Holds
  <2> QED BY <2>1, <2>2
<1>10. Shared!NoSilentFinish'
  <2> SUFFICES ASSUME NEW i \in 1..created', status'[i] = "done", i \notin closedByOwner'
               PROVE  unsent'[i] + letters'[i] + unheard'[i] > 0
    BY DEF Shared!NoSilentFinish, Shared!Created
  <2>1. i # n BY <1>5
  <2>2. i \in 1..created BY <2>1, <1>1 DEF n
  <2> QED BY <2>2, <1>4, <1>6 DEF BoardInv, Shared!NoSilentFinish, Shared!Created
<1> QED BY <1>3, <1>7, <1>9, <1>10 DEF BoardInv

\* The status of rows there are may change, whoever changes it, if none is finished in
\* silence and no trigger gets hold of a task by it.
LEMMA MovedKeeps ==
  ASSUME BoardInv, NEW I \in SUBSET (1..created), NEW s \in Shared!Status, Shared!SetStatus(I, s),
         UNCHANGED <<created, owner, assignee, deps, letters, unheard, rec>>,
         unsent' \in [TaskIds -> Nat], \A i \in TaskIds : unsent'[i] >= unsent[i],
         working' \in [Triggers -> BOOLEAN], \A g \in Triggers : working'[g] => rec[g] # 0,
         closedByOwner \subseteq closedByOwner',
         s = "done" => \A i \in I : i \in closedByOwner' \/ unsent'[i] > 0
  PROVE  BoardInv'
<1>1. /\ status' = [i \in TaskIds |-> IF i \in I THEN s ELSE status[i]]
      /\ reopened' = IF s = "done" THEN reopened ELSE reopened \cup {i \in I : status[i] = "done"}
  BY DEF Shared!SetStatus, TaskIds
<1>2. \A i \in 1..created : i \in TaskIds
  BY BoardFacts DEF BoardInv, BoardTyped
<1>3. \A i \in TaskIds : status'[i] = IF i \in I THEN s ELSE status[i] BY <1>1
<1>4. BoardTyped' BY <1>1 DEF BoardInv, BoardTyped
<1>5. Unborn'
  <2> SUFFICES ASSUME NEW i \in TaskIds, i > created PROVE status'[i] = "none" BY DEF Unborn
  <2>1. i \notin I BY BoardFacts DEF BoardInv, BoardTyped
  <2> QED BY <1>3, <2>1 DEF BoardInv, Unborn
<1>6. \A d \in TaskIds : WasDone(d) => WasDone(d)' BY <1>1, <1>3 DEF WasDone
<1>7. Held'
  <2> SUFFICES ASSUME NEW g \in Triggers, rec[g] # 0 PROVE Holds(g)' BY DEF Held
  <2>1. Holds(g) BY DEF BoardInv, Held
  <2>2. rec[g] \in TaskIds BY <2>1, <1>2 DEF Holds
  <2>3. Shared!Actionable(AgentOf[g], rec[g])'
    BY <2>1 DEF Holds, Shared!Actionable, Shared!IsAssigned, Shared!DelegatedAway
  <2>4. \A d \in deps'[rec[g]] : WasDone(d)'
    BY <2>1, <2>2, <1>6 DEF Holds, BoardInv, BoardTyped
  <2> QED BY <2>1, <2>3, <2>4 DEF Holds
<1>8. Shared!NoSilentFinish'
  <2> SUFFICES ASSUME NEW i \in 1..created, status'[i] = "done", i \notin closedByOwner'
               PROVE  unsent'[i] + letters[i] + unheard[i] > 0
    BY DEF Shared!NoSilentFinish, Shared!Created
  <2>1. i \in TaskIds /\ letters[i] \in Nat /\ unheard[i] \in Nat /\ unsent[i] \in Nat /\ unsent'[i] \in Nat
    BY <1>2 DEF BoardInv, BoardTyped
  <2>2. CASE i \in I
    <3>1. s = "done" BY <2>1, <2>2, <1>3
    <3>2. unsent'[i] > 0 BY <2>2, <3>1
    <3> QED BY <2>1, <3>2
  <2>3. CASE i \notin I
    <3>1. status[i] = "done" /\ i \notin closedByOwner BY <2>1, <2>3, <1>3
    <3>2. unsent[i] + letters[i] + unheard[i] > 0
      BY <3>1 DEF BoardInv, Shared!NoSilentFinish, Shared!Created
    <3>3. unsent'[i] >= unsent[i] BY <2>1
    <3> QED BY <2>1, <3>2, <3>3
  <2> QED BY <2>2, <2>3
<1> QED BY <1>4, <1>5, <1>7, <1>8 DEF BoardInv

\* A step that leaves the rows alone.
LEMMA RowsStay ==
  ASSUME BoardInv, UNCHANGED <<created, status, owner, assignee, deps, closedByOwner, reopened>>,
         unsent' \in [TaskIds -> Nat], letters' \in [TaskIds -> Nat], unheard' \in [TaskIds -> Nat],
         \A i \in TaskIds : unsent'[i] + letters'[i] + unheard'[i] = unsent[i] + letters[i] + unheard[i],
         rec' \in [Triggers -> TaskIds \cup {0}], working' \in [Triggers -> BOOLEAN],
         \A g \in Triggers : /\ working'[g] => rec'[g] # 0
                             /\ rec'[g] # 0 /\ rec'[g] # rec[g] =>
                                  /\ rec'[g] \in 1..created /\ Shared!Actionable(AgentOf[g], rec'[g])
                                  /\ \A d \in deps[rec'[g]] : WasDone(d)
  PROVE  BoardInv'
<1>1. BoardTyped' BY DEF BoardInv, BoardTyped
<1>2. Unborn' BY DEF BoardInv, Unborn
<1>3. Held'
  <2> SUFFICES ASSUME NEW g \in Triggers, rec'[g] # 0 PROVE Holds(g)' BY DEF Held
  <2>1. rec'[g] \in 1..created /\ Shared!Actionable(AgentOf[g], rec'[g]) /\ \A d \in deps[rec'[g]] : WasDone(d)
    BY DEF BoardInv, Held, Holds
  <2> QED BY <2>1 DEF Holds, WasDone, Shared!Actionable, Shared!IsAssigned, Shared!DelegatedAway
<1>4. \A i \in 1..created : i \in TaskIds BY BoardFacts DEF BoardInv, BoardTyped
<1>5. Shared!NoSilentFinish' BY <1>4 DEF BoardInv, Shared!NoSilentFinish, Shared!Created
<1> QED BY <1>1, <1>2, <1>3, <1>5 DEF BoardInv

LEMMA BoardStep == ASSUME BoardInv, Shared!Next PROVE BoardInv'
<1> USE DEF Shared!rows, Shared!mail, Shared!runtime, Shared!history
<1>0. /\ created \in Nat /\ created <= MaxTasks /\ \A i \in 1..created : i \in TaskIds
      /\ unsent \in [TaskIds -> Nat] /\ letters \in [TaskIds -> Nat] /\ unheard \in [TaskIds -> Nat]
      /\ rec \in [Triggers -> TaskIds \cup {0}] /\ working \in [Triggers -> BOOLEAN]
      /\ \A g \in Triggers : working[g] => rec[g] # 0
  <2>1. created \in Nat /\ created <= MaxTasks /\ \A i \in 1..created : i \in TaskIds
    BY BoardFacts DEF BoardInv, BoardTyped
  <2>2. /\ unsent \in [TaskIds -> Nat] /\ letters \in [TaskIds -> Nat] /\ unheard \in [TaskIds -> Nat]
        /\ rec \in [Triggers -> TaskIds \cup {0}] /\ working \in [Triggers -> BOOLEAN]
    BY DEF BoardInv, BoardTyped
  <2>3. \A g \in Triggers : working[g] => rec[g] # 0 BY DEF BoardInv, Held
  <2> QED BY <2>1, <2>2, <2>3
<1>1. ASSUME NEW t \in Tenants, NEW a \in Tenants \cup {Nobody}, NEW D \in SUBSET Shared!Created,
             NEW w \in {"never", "later"}, Shared!Create(t, a, D, w)
      PROVE  BoardInv'
  <2> DEFINE s == IF w = "never" THEN "open" ELSE "scheduled"
  <2>1. created < MaxTasks /\ Shared!Insert(created + 1, t, s, a, D, w)
    /\ UNCHANGED <<unsent, letters, unheard, rec, working, closedByOwner, reopened>>
    BY <1>1 DEF Shared!Create
  <2>2. s \in {"open", "scheduled"} OBVIOUS
  <2>3. t \in People /\ a \in People /\ D \in SUBSET TaskIds BY <1>0, <1>1 DEF People, Shared!Created
  <2> HIDE DEF s
  <2> QED BY <2>1, <2>2, <2>3, InsertKeeps
<1>2. ASSUME NEW t \in Tenants, NEW a \in Tenants, NEW w \in {"never", "later"}, Shared!CreateExecutor(t, a, w)
      PROVE  BoardInv'
  <2> DEFINE s == IF w = "never" THEN "open" ELSE "scheduled"
  <2>1. created < MaxTasks /\ Shared!Insert(created + 1, t, s, Nobody, {}, w)
    /\ UNCHANGED <<unsent, letters, unheard, rec, working, closedByOwner, reopened>>
    BY <1>2 DEF Shared!CreateExecutor
  <2>2. s \in {"open", "scheduled"} OBVIOUS
  <2>3. t \in People /\ Nobody \in People /\ {} \in SUBSET TaskIds BY <1>2 DEF People
  <2> HIDE DEF s
  <2> QED BY <2>1, <2>2, <2>3, InsertKeeps
<1>3. ASSUME NEW e \in TaskIds, NEW a \in Tenants, Shared!CreateReviewer(e, a)
      PROVE  BoardInv'
  <2>1. created < MaxTasks /\ Shared!Insert(created + 1, owner[e], "open", a, {e}, "never")
    /\ UNCHANGED <<unsent, letters, unheard, rec, working, closedByOwner, reopened>>
    BY <1>3 DEF Shared!CreateReviewer
  <2>2. owner[e] \in People /\ a \in People /\ {e} \in SUBSET TaskIds
    BY <1>3 DEF People, BoardInv, BoardTyped
  <2> QED BY <2>1, <2>2, InsertKeeps
<1>4. ASSUME NEW e \in TaskIds, Shared!RefuseReviewer(e) PROVE BoardInv'
  BY <1>0, <1>4, RowsStay DEF Shared!RefuseReviewer
<1>5. ASSUME NEW t \in Tenants, NEW i \in TaskIds, NEW s \in Shared!Status \cup {"keep"},
             NEW w \in {"keep", "later"}, Shared!Update(t, i, s, w)
      PROVE  BoardInv'
  <2>1. /\ i \in 1..created /\ (owner[i] = t \/ assignee[i] = t)
        /\ Shared!IsAssigned(t, i) => s # "done"
        /\ IF s = "keep" THEN UNCHANGED <<status, reopened>> ELSE Shared!SetStatus({i}, s)
        /\ closedByOwner' = IF owner[i] = t /\ s # "keep" THEN closedByOwner \cup {i} ELSE closedByOwner
        /\ UNCHANGED <<created, owner, assignee, deps, unsent, letters, unheard, rec, working>>
    BY <1>5 DEF Shared!Update, Shared!Visible, Shared!Created
  <2>2. CASE s = "keep"
    <3>1. UNCHANGED <<status, reopened, closedByOwner>> BY <2>1, <2>2
    <3> QED BY <1>0, <2>1, <3>1, RowsStay
  <2>3. CASE s # "keep"
    <3>1. s \in Shared!Status /\ Shared!SetStatus({i}, s) BY <2>1, <2>3
    <3>2. s = "done" => i \in closedByOwner' BY <2>1, <2>3 DEF Shared!IsAssigned
    <3>3. closedByOwner \subseteq closedByOwner' BY <2>1
    <3> QED BY <1>0, <2>1, <3>1, <3>2, <3>3, MovedKeeps
  <2> QED BY <2>2, <2>3
<1>6. ASSUME NEW t \in Tenants, NEW i \in TaskIds, Shared!Complete(t, i) PROVE BoardInv'
  <2>1. /\ i \in 1..created /\ (owner[i] = t \/ assignee[i] = t)
        /\ Shared!SetStatus({i}, "done")
        /\ unsent' = IF Shared!IsAssigned(t, i) THEN [unsent EXCEPT ![i] = @ + 1] ELSE unsent
        /\ closedByOwner' = IF owner[i] = t THEN closedByOwner \cup {i} ELSE closedByOwner
        /\ UNCHANGED <<created, owner, assignee, deps, letters, unheard, rec, working>>
    BY <1>6 DEF Shared!Complete, Shared!Visible, Shared!Created
  <2>2. unsent' \in [TaskIds -> Nat] /\ \A j \in TaskIds : unsent'[j] >= unsent[j]
    BY <1>0, <2>1
  <2>3. i \in closedByOwner' \/ unsent'[i] > 0
    BY <1>0, <2>1 DEF Shared!IsAssigned
  <2>4. closedByOwner \subseteq closedByOwner' /\ "done" \in Shared!Status BY <2>1 DEF Shared!Status
  <2> QED BY <1>0, <2>1, <2>2, <2>3, <2>4, MovedKeeps
<1>7. ASSUME NEW i \in TaskIds, Shared!Notify(i) PROVE BoardInv'
  <2>1. /\ unsent[i] > 0 /\ unsent' = [unsent EXCEPT ![i] = @ - 1]
        /\ \/ letters' = [letters EXCEPT ![i] = @ + 1] /\ unheard' = unheard
           \/ unheard' = [unheard EXCEPT ![i] = @ + 1] /\ letters' = letters
        /\ UNCHANGED <<created, status, owner, assignee, deps, closedByOwner, reopened, rec, working>>
    BY <1>7 DEF Shared!Notify
  <2>2. unsent' \in [TaskIds -> Nat] /\ letters' \in [TaskIds -> Nat] /\ unheard' \in [TaskIds -> Nat]
    BY <1>0, <2>1
  <2>3. \A j \in TaskIds : unsent'[j] + letters'[j] + unheard'[j] = unsent[j] + letters[j] + unheard[j]
    BY <1>0, <2>1
  <2> QED BY <1>0, <2>1, <2>2, <2>3, RowsStay
<1>8. ASSUME NEW i \in TaskIds, Shared!ClockReaches(i) PROVE BoardInv'
  BY <1>0, <1>8, RowsStay DEF Shared!ClockReaches
<1>9. ASSUME NEW t \in Tenants, Shared!OpenDue(t) PROVE BoardInv'
  <2>1. Shared!Due(t) \in SUBSET (1..created) BY DEF Shared!Due, Shared!Created
  <2>2. "open" \in Shared!Status BY DEF Shared!Status
  <2>3. /\ Shared!SetStatus(Shared!Due(t), "open")
        /\ UNCHANGED <<created, owner, assignee, deps, unsent, letters, unheard, rec, working, closedByOwner>>
    BY <1>9 DEF Shared!OpenDue
  <2> QED BY <1>0, <2>1, <2>2, <2>3, MovedKeeps
<1>10. ASSUME NEW g \in Triggers, Shared!Look(g) PROVE BoardInv'
  <2>1. PICK i \in Shared!Recommended(AgentOf[g]) : rec' = [rec EXCEPT ![g] = i]
    BY <1>10 DEF Shared!Look
  <2>2. UNCHANGED <<created, status, owner, assignee, deps, unsent, letters, unheard, working, closedByOwner, reopened>>
    BY <1>10 DEF Shared!Look
  <2>3. /\ i \in 1..created /\ Shared!Actionable(AgentOf[g], i)
        /\ \A d \in deps[i] : status[d] = "done"
    BY DEF Shared!Recommended, Shared!Listed, Shared!Runnable, Shared!Created
  <2>4. i \in TaskIds /\ i # 0 BY <1>0, <2>3
  <2>5. rec' \in [Triggers -> TaskIds \cup {0}] /\ rec'[g] = i /\ \A h \in Triggers : h # g => rec'[h] = rec[h]
    BY <1>0, <2>1, <2>4
  <2>6. \A h \in Triggers : working'[h] => rec'[h] # 0 BY <1>0, <2>2, <2>4, <2>5
  <2> QED BY <1>0, <2>2, <2>3, <2>5, <2>6, RowsStay DEF WasDone
<1>11. ASSUME NEW g \in Triggers, Shared!Claim(g) PROVE BoardInv'
  <2>1. /\ rec[g] # 0 /\ Shared!SetStatus({rec[g]}, "in_progress")
        /\ working' = [working EXCEPT ![g] = TRUE]
        /\ UNCHANGED <<created, owner, assignee, deps, unsent, letters, unheard, rec, closedByOwner>>
    BY <1>11 DEF Shared!Claim
  <2>2. {rec[g]} \in SUBSET (1..created) /\ "in_progress" \in Shared!Status
    BY <2>1 DEF BoardInv, Held, Holds, Shared!Status
  <2>3. working' \in [Triggers -> BOOLEAN] BY <1>0, <2>1
  <2>4. \A h \in Triggers : h # g => working'[h] = working[h] BY <1>0, <2>1
  <2>5. \A h \in Triggers : working'[h] => rec[h] # 0 BY <1>0, <2>1, <2>4
  <2> QED BY <1>0, <2>1, <2>2, <2>3, <2>5, MovedKeeps
<1>12. ASSUME NEW g \in Triggers, Shared!ClaimFails(g) PROVE BoardInv'
  <2>1. /\ rec[g] # 0 /\ working' = [working EXCEPT ![g] = TRUE]
        /\ UNCHANGED <<created, status, owner, assignee, deps, unsent, letters, unheard, rec, closedByOwner, reopened>>
    BY <1>12 DEF Shared!ClaimFails
  <2>2. working' \in [Triggers -> BOOLEAN] /\ \A h \in Triggers : h # g => working'[h] = working[h] BY <1>0, <2>1
  <2>3. \A h \in Triggers : working'[h] => rec'[h] # 0 BY <1>0, <2>1, <2>2
  <2> QED BY <1>0, <2>1, <2>2, <2>3, RowsStay
<1>13. ASSUME NEW g \in Triggers, Shared!Pass(g) PROVE BoardInv'
  <2>1. /\ ~working[g] /\ rec' = [rec EXCEPT ![g] = 0]
        /\ UNCHANGED <<created, status, owner, assignee, deps, unsent, letters, unheard, working, closedByOwner, reopened>>
    BY <1>13 DEF Shared!Pass
  <2>2. rec' \in [Triggers -> TaskIds \cup {0}] /\ rec'[g] = 0 /\ \A h \in Triggers : h # g => rec'[h] = rec[h]
    BY <1>0, <2>1
  <2>3. \A h \in Triggers : working'[h] => rec'[h] # 0 BY <1>0, <2>1, <2>2
  <2> QED BY <1>0, <2>1, <2>2, <2>3, RowsStay
<1>14. ASSUME NEW g \in Triggers, Shared!RunEnds(g) PROVE BoardInv'
  <2>1. /\ working' = [working EXCEPT ![g] = FALSE] /\ rec' = [rec EXCEPT ![g] = 0]
        /\ UNCHANGED <<created, status, owner, assignee, deps, unsent, letters, unheard, closedByOwner, reopened>>
    BY <1>14 DEF Shared!RunEnds
  <2>2. rec' \in [Triggers -> TaskIds \cup {0}] /\ rec'[g] = 0 /\ \A h \in Triggers : h # g => rec'[h] = rec[h]
    BY <1>0, <2>1
  <2>3. working' \in [Triggers -> BOOLEAN] /\ ~working'[g] /\ \A h \in Triggers : h # g => working'[h] = working[h]
    BY <1>0, <2>1
  <2>4. \A h \in Triggers : working'[h] => rec'[h] # 0 BY <1>0, <2>2, <2>3
  <2> QED BY <1>0, <2>1, <2>2, <2>3, <2>4, RowsStay
<1> QED BY <1>1, <1>2, <1>3, <1>4, <1>5, <1>6, <1>7, <1>8, <1>9, <1>10, <1>11, <1>12, <1>13, <1>14
        DEF Shared!Next, TaskIds, Shared!Ids

\* No task belongs to two.
LEMMA OneActs ==
  ASSUME NEW t \in Tenants, NEW u \in Tenants, NEW i,
         Shared!Actionable(t, i), Shared!Actionable(u, i)
  PROVE  t = u
BY BoardFacts DEF Shared!Actionable, Shared!IsAssigned, Shared!DelegatedAway

\* For any number of tenants, tasks and overlapping triggers, with any call failing: what an
\* assignee finished its owner is told as far as letters can be written, an agent at work
\* found the dependencies done, and owner and assignee are never both at one task.
THEOREM TasksAreTrue == AllSpec => []TasksTrue
<1>1. AllInit => BoardInv BY BoardInit DEF AllInit
<1>2. BoardInv /\ [AllNext]_all => BoardInv'
  <2> SUFFICES ASSUME BoardInv, [AllNext]_all PROVE BoardInv' OBVIOUS
  <2>1. CASE Shared!Next BY <2>1, BoardStep
  <2>2. CASE UNCHANGED Board
    <3>1. UNCHANGED <<created, status, owner, assignee, deps, unsent, letters, unheard, rec, working, closedByOwner, reopened>>
      BY <2>2 DEF Board
    <3> QED BY <3>1, RowsStay DEF BoardInv, BoardTyped, Held
  <2> QED BY <2>1, <2>2 DEF AllNext, all
<1>3. BoardInv => TasksTrue
  <2> SUFFICES ASSUME BoardInv PROVE TasksTrue OBVIOUS
  <2>1. Shared!DependenciesFirst BY DEF BoardInv, Held, Holds, WasDone, Shared!DependenciesFirst
  <2>2. Shared!OneTenantAtWork
    <3> SUFFICES ASSUME NEW g \in Triggers, NEW h \in Triggers, rec[g] # 0, rec[g] = rec[h]
                 PROVE  AgentOf[g] = AgentOf[h]
      BY DEF Shared!OneTenantAtWork
    <3>1. Shared!Actionable(AgentOf[g], rec[g]) /\ Shared!Actionable(AgentOf[h], rec[g])
      BY DEF BoardInv, Held, Holds
    <3> QED BY <3>1, OneActs, BoardFacts
  <2> QED BY <2>1, <2>2 DEF BoardInv, TasksTrue
<1> QED BY <1>1, <1>2, <1>3, PTL DEF AllSpec
==============================================================================
