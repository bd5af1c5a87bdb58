--------------------------- MODULE OrchestratorProof ---------------------------
(***************************************************************************)
(* What the orchestrator's bookkeeping promises, for every list of tenants *)
(* and slots, every grace, every number of faults.  The slots are only     *)
(* kept by one process at a time, as launchd runs it: that assumption      *)
(* stands in the theorems that need it.                                    *)
(***************************************************************************)
EXTENDS MCDuties, SequenceTheorems, FiniteSetTheorems, WellFoundedInduction, TLAPS

SlotKinds == {"dream", "personal"}

-----------------------------------------------------------------------------
(* Minutes and days *)

\* A time is its day's minutes and its minute.
LEMMA Division ==
  ASSUME NEW n \in Nat, NEW d \in Nat, d > 0
  PROVE  /\ n \div d \in Nat /\ n % d \in 0..(d - 1)
         /\ n = d * (n \div d) + (n % d)
<1>1. n \div d \in Int /\ n % d \in 0..(d - 1)
  BY SMT
<1>2. n = d * (n \div d) + (n % d)
  BY SMT
<1>3. n \div d >= 0
  BY SMT
<1> QED BY <1>1, <1>2, <1>3, SMT

\* Days grow with time.
LEMMA DaysGrow ==
  ASSUME NEW m \in Nat, NEW n \in Nat, NEW d \in Nat, d > 0, m <= n
  PROVE  m \div d <= n \div d
<1> DEFINE M == m \div d  N == n \div d
<1>1. M \in Nat /\ N \in Nat
  BY Division
<1>2. d * M <= m
  BY Division, SMT
<1>3. n < d * N + d
  BY Division, SMT
<1> HIDE DEF M, N
<1>4. ASSUME M >= N + 1 PROVE FALSE
  <2>1. d * M >= d * (N + 1)
    BY <1>1, <1>4, SMT
  <2> QED BY <1>1, <1>2, <1>3, <2>1, SMT
<1>5. M <= N
  BY <1>1, <1>4, SMT
<1> QED BY <1>5 DEF M, N

-----------------------------------------------------------------------------
(* The jobs *)

\* The tenants are those listed, the slots those configured.
LEMMA Inputs ==
  /\ Order \in Seq(Tenants)
  /\ \A i \in 1..Len(Order) : Order[i] \in Tenants /\ NightlyAt[Order[i]] \in 0..(DayLength - 1) \cup {None}
  /\ \A i \in 1..Len(PersonalAt) : PersonalAt[i].t \in Tenants /\ PersonalAt[i].slot \in 0..(DayLength - 1)
<1>1. Order \in Seq(Tenants)
  BY OrchestratorAssumption DEF Tenants
<1>2. \A i \in 1..Len(Order) : Order[i] \in Tenants
  BY <1>1
<1>3. \A i \in 1..Len(PersonalAt) : PersonalAt[i] \in [t : Tenants, slot : 0..(DayLength - 1)]
  <2> DEFINE S == [t : Tenants, slot : 0..(DayLength - 1)]
  <2>1. PersonalAt \in Seq(S)
    BY OrchestratorAssumption
  <2> HIDE DEF S
  <2>2. \A i \in 1..Len(PersonalAt) : PersonalAt[i] \in S
    BY <2>1, ElementOfSeq
  <2> QED BY <2>2 DEF S
<1> QED BY <1>1, <1>2, <1>3, OrchestratorAssumption

\* What a list of jobs made for each tenant holds.
LEMMA EachTenantTypes ==
  ASSUME NEW kind
  PROVE  /\ EachTenant(kind) \in Seq(Range(EachTenant(kind)))
         /\ \A j \in Range(EachTenant(kind)) : j.kind = kind /\ j.t \in Tenants /\ j.slot = None
<1> DEFINE s == EachTenant(kind)
<1>1. Len(Order) \in Nat
  BY Inputs
<1>2. DOMAIN s = 1..Len(Order)
  BY DEF EachTenant
<1>3. \A i \in 1..Len(Order) : s[i] = [kind |-> kind, t |-> Order[i], slot |-> None]
  BY DEF EachTenant
<1>4. \A j \in Range(s) : j.kind = kind /\ j.t \in Tenants /\ j.slot = None
  BY <1>2, <1>3, Inputs DEF Range
<1>5. s = [i \in 1..Len(Order) |-> s[i]]
  BY DEF EachTenant
<1>6. s \in [1..Len(Order) -> Range(s)]
  BY <1>2, <1>5 DEF Range
<1> HIDE DEF s
<1>7. s \in Seq(Range(s))
  BY <1>1, <1>6
<1> QED BY <1>4, <1>7 DEF s

LEMMA DreamTypes ==
  /\ Dreams \in Seq(Range(Dreams))
  /\ \A j \in Range(Dreams) : j.kind = "dream" /\ j.t \in Tenants /\ j.slot \in 0..(DayLength - 1) \cup {None}
<1> DEFINE s == Dreams
<1>1. Len(Order) \in Nat
  BY Inputs
<1>2. DOMAIN s = 1..Len(Order)
  BY DEF Dreams
<1>3. \A i \in 1..Len(Order) : s[i] = [kind |-> "dream", t |-> Order[i], slot |-> NightlyAt[Order[i]]]
  BY DEF Dreams
<1>4. \A j \in Range(s) : j.kind = "dream" /\ j.t \in Tenants /\ j.slot \in 0..(DayLength - 1) \cup {None}
  BY <1>2, <1>3, Inputs DEF Range
<1>5. s = [i \in 1..Len(Order) |-> s[i]]
  BY DEF Dreams
<1>6. s \in [1..Len(Order) -> Range(s)]
  BY <1>2, <1>5 DEF Range
<1> HIDE DEF s
<1>7. s \in Seq(Range(s))
  BY <1>1, <1>6
<1> QED BY <1>4, <1>7 DEF s

LEMMA PersonalTypes ==
  /\ Personals \in Seq(Range(Personals))
  /\ \A j \in Range(Personals) : j.kind = "personal" /\ j.t \in Tenants /\ j.slot \in 0..(DayLength - 1)
<1>1. Len(PersonalAt) \in Nat
  BY OrchestratorAssumption
<1> QED BY <1>1, Inputs DEF Personals, Range

LEMMA JobTypes ==
  /\ \A j \in Job : /\ j.t \in Tenants /\ j.slot \in 0..(DayLength - 1) \cup {None}
                    /\ j.kind \in {"dream", "duty", "personal", "impulse"}
                    /\ j.kind \in SlotKinds => j \in Range(Dreams) \cup Range(Personals)
  /\ Dreams \in Seq(Job) /\ Duties \in Seq(Job) /\ Personals \in Seq(Job) /\ Impulses \in Seq(Job)
<1>1. \A j \in Range(Duties) : j.kind = "duty" /\ j.t \in Tenants /\ j.slot = None
  BY EachTenantTypes DEF Duties
<1>2. \A j \in Range(Impulses) : j.kind = "impulse" /\ j.t \in Tenants /\ j.slot = None
  BY EachTenantTypes DEF Impulses
<1>3. Duties \in Seq(Range(Duties)) /\ Impulses \in Seq(Range(Impulses))
  BY EachTenantTypes DEF Duties, Impulses
<1>4. Dreams \in Seq(Job) /\ Duties \in Seq(Job) /\ Personals \in Seq(Job) /\ Impulses \in Seq(Job)
  BY <1>3, DreamTypes, PersonalTypes, SeqMonotonic DEF Job
<1> QED BY <1>1, <1>2, <1>4, DreamTypes, PersonalTypes DEF Job, SlotKinds

\* The next job of a list, and those after it.
LEMMA NextJob ==
  ASSUME NEW S, NEW s \in Seq(S), s # <<>>
  PROVE  Head(s) \in S /\ Tail(s) \in Seq(S) /\ Range(s) = {Head(s)} \cup Range(Tail(s))
<1>1. Head(s) \in S /\ Tail(s) \in Seq(S) /\ Len(Tail(s)) = Len(s) - 1 /\ Len(s) \in Nat \ {0}
  BY HeadTailProperties
<1>2. \A i \in 1..(Len(s) - 1) : Tail(s)[i] = s[i + 1]
  BY HeadTailProperties
<1>3. Head(s) = s[1]
  OBVIOUS
<1>4. \A i \in 2..Len(s) : s[i] = Tail(s)[i - 1]
  BY <1>1, <1>2
<1>5. \A i \in 1..Len(s) : s[i] = Head(s) \/ \E n \in 1..Len(Tail(s)) : s[i] = Tail(s)[n]
  <2> SUFFICES ASSUME NEW i \in 1..Len(s), i # 1 PROVE \E n \in 1..Len(Tail(s)) : s[i] = Tail(s)[n]
    BY <1>3
  <2>1. i - 1 \in 1..Len(Tail(s)) /\ s[i] = Tail(s)[i - 1]
    BY <1>1, <1>4
  <2> QED BY <2>1
<1>6. \A n \in 1..Len(Tail(s)) : n + 1 \in 1..Len(s) /\ Tail(s)[n] = s[n + 1]
  BY <1>1, <1>2
<1>7. DOMAIN s = 1..Len(s) /\ DOMAIN Tail(s) = 1..Len(Tail(s)) /\ 1 \in 1..Len(s)
  BY <1>1
<1>8. Range(s) \subseteq {Head(s)} \cup Range(Tail(s))
  BY <1>5, <1>7 DEF Range
<1>9. Range(Tail(s)) \subseteq Range(s)
  BY <1>6, <1>7 DEF Range
<1>10. Head(s) \in Range(s)
  BY <1>3, <1>7 DEF Range
<1> QED BY <1>1, <1>8, <1>9, <1>10

\* The key of a due slot is one of the keys.
LEMMA DueKey ==
  ASSUME NEW j \in Job, j.kind \in SlotKinds, j.slot # None, NEW now \in 0..Horizon
  PROVE  Key(j, now) \in Keys
<1>1. j \in Slots
  BY JobTypes DEF Slots
<1>2. now \div DayLength \in 0..(Horizon \div DayLength)
  BY Division, DaysGrow, OrchestratorAssumption
<1> QED BY <1>1, <1>2 DEF Key, Keys

-----------------------------------------------------------------------------
(* The invariants *)

\* A job in progress was due when it began, and is not marked before it ends.
AtWork == \A p \in Procs : pc[p] = "busy" => Ready(Head(agenda[p]), mem[p], at[p])

\* Only wakes that ran are marked, in the file and in the copies.
MarksTrue ==
  \A k \in Keys : (k \in disk.marks \/ \E p \in Procs : k \in mem[p].marks) => runs[k] > 0

\* A tick has every mark of the file.
OnTop == \A p \in Procs : pc[p] # "idle" => disk.marks \subseteq mem[p].marks

\* Marked in the file or by a tick that will save.
Noted(k) == k \in disk.marks \/ \E p \in Procs : pc[p] # "idle" /\ k \in mem[p].marks

\* A wake that is not marked ran as often as there were faults, at most.
Counted == \A k \in Keys : runs[k] <= (IF Noted(k) THEN faults + 1 ELSE faults)

\* Of a list of jobs, the due ones are marked or, in their phase, still to come.
Visited(p, jobs, here) ==
  \A j \in Range(jobs) : j.slot # None /\ Due(j.slot, at[p]) =>
    Key(j, at[p]) \in mem[p].marks \/ (here /\ j \in Range(agenda[p]))
Passed ==
  \A p \in Procs : pc[p] # "idle" =>
    /\ Visited(p, Dreams, phase[p] = "nightly")
    /\ phase[p] \in {"personal", "impulse"} => Visited(p, Personals, phase[p] = "personal")

\* In a duty pass, a tenant with an open task is still to come, or the pass has made
\* progress, or it is excused.
ToCome(p, t) == \E j \in Range(agenda[p]) : j.t = t
InRound(p) ==
  pc[p] # "idle" /\ phase[p] = "duty" =>
    /\ \A j \in Range(agenda[p]) : j.kind = "duty"
    /\ \A t \in Tenants : waiting[t] > 0 => t \in excused[p] \/ progressed[p] \/ ToCome(p, t)
Rounds == \A p \in Procs : InRound(p)

-----------------------------------------------------------------------------
(* Types *)

\* The job at the head of an agenda.
LEMMA JobInHand ==
  ASSUME TypeOK, NEW p \in Procs, agenda[p] # <<>>
  PROVE  /\ Head(agenda[p]) \in Job /\ Tail(agenda[p]) \in Seq(Job)
         /\ Head(agenda[p]).t \in Tenants
         /\ Range(agenda[p]) = {Head(agenda[p])} \cup Range(Tail(agenda[p]))
<1>1. agenda[p] \in Seq(Job)
  BY DEF TypeOK
<1> QED BY <1>1, NextJob, JobTypes

\* The wake of a slot in progress has a key of its own, and no mark yet.
LEMMA SlotInHand ==
  ASSUME TypeOK, AtWork, NEW p \in Procs, pc[p] = "busy", Head(agenda[p]).kind \in SlotKinds
  PROVE  /\ Key(Head(agenda[p]), at[p]) \in Keys
         /\ Key(Head(agenda[p]), at[p]) \notin mem[p].marks
<1> DEFINE j == Head(agenda[p])
<1>1. j \in Job /\ at[p] \in 0..Horizon
  BY JobInHand DEF TypeOK
<1>2. Ready(j, mem[p], at[p])
  BY DEF AtWork
<1>3. j.slot # None /\ Key(j, at[p]) \notin mem[p].marks
  BY <1>2 DEF Ready, SlotKinds
<1> HIDE DEF j
<1>4. Key(j, at[p]) \in Keys
  BY <1>1, <1>3, DueKey DEF j
<1> QED BY <1>3, <1>4 DEF j

LEMMA TypeInit == Init => TypeOK
<1> SUFFICES ASSUME Init PROVE TypeOK
  OBVIOUS
<1>1. Blank \in State
  BY DEF Blank, State
<1>2. \A p \in Procs : agenda[p] = <<>> /\ pc[p] = "idle"
  BY DEF Init
<1> QED BY <1>1, <1>2, OrchestratorAssumption DEF Init, TypeOK

\* The types of what a run of Handed changes.
LEMMA HandedTypes ==
  ASSUME TypeOK, NEW p \in Procs, NEW t \in Tenants, NEW ok \in BOOLEAN, NEW heirs \in SUBSET Tenants,
         Handed(p, t, ok, heirs)
  PROVE  /\ waiting' \in [Tenants -> 0..MaxWaiting]
         /\ excused' \in [Procs -> SUBSET Tenants] /\ runs' = runs
<1>1. waiting' \in [Tenants -> 0..MaxWaiting]
  BY OrchestratorAssumption DEF TypeOK, Handed
<1>3. excused' \in [Procs -> SUBSET Tenants]
  BY DEF TypeOK, Handed
<1> QED BY <1>1, <1>3 DEF Handed

LEMMA StartTypes ==
  ASSUME TypeOK, NEW p \in Procs, Start(p) PROVE TypeOK'
<1>1. agenda' = [agenda EXCEPT ![p] = Dreams] /\ agenda' \in [Procs -> Seq(Job)]
  BY JobTypes DEF TypeOK, Start
<1>2. \A q \in Procs : pc'[q] = "busy" => agenda'[q] # <<>>
  BY <1>1 DEF TypeOK, Start
<1>3. mem' \in [Procs -> State] /\ at' \in [Procs -> 0..Horizon]
  BY DEF TypeOK, Start
<1>4. pass' \in [Procs -> 0..MaxPasses] /\ progressed' \in [Procs -> BOOLEAN]
  BY OrchestratorAssumption DEF TypeOK, Start
<1>5. /\ pc' \in [Procs -> {"idle", "next", "busy"}]
      /\ phase' \in [Procs -> {"nightly", "duty", "personal", "impulse"}]
  BY DEF TypeOK, Start
<1> QED BY <1>1, <1>2, <1>3, <1>4, <1>5 DEF TypeOK, Start, tasks, history

\* What Begin does with the job: it is left out or started, with a task or without.
LEMMA BeginCases ==
  ASSUME TypeOK, NEW p \in Procs, Begin(p), Head(agenda[p]).t \in Tenants
  PROVE  \E claims \in BOOLEAN, skip \in BOOLEAN :
    LET job  == Head(agenda[p])
        late == clock - (Key(job, at[p]).day * DayLength + job.slot)
    IN /\ claims => waiting[job.t] > 0 /\ ~skip /\ job.kind \in {"duty", "impulse"}
       /\ skip => \/ ~Ready(job, mem[p], at[p])
                  \/ job.kind = "duty" /\ waiting[job.t] = 0
       /\ ~skip => Ready(job, mem[p], at[p])
       /\ pc' = [pc EXCEPT ![p] = IF skip THEN "next" ELSE "busy"]
       /\ agenda' = IF skip THEN [agenda EXCEPT ![p] = Tail(@)] ELSE agenda
       /\ worst' = IF ~skip /\ job.kind \in {"dream", "personal"} /\ late > worst THEN late ELSE worst
       /\ holding' = [holding EXCEPT ![p] = claims]
       /\ waiting' = IF claims THEN [waiting EXCEPT ![job.t] = @ - 1] ELSE waiting
<1> DEFINE job  == Head(agenda[p])
           late == clock - (Key(job, at[p]).day * DayLength + job.slot)
           due  == Ready(job, mem[p], at[p])
           Offer == IF due /\ job.kind \in {"duty", "impulse"}
                    THEN Triggered(job.t, job.kind = "impulse") ELSE {FALSE}
           Left(claims) == ~due \/ (job.kind = "duty" /\ ~claims)
<1>1. waiting[job.t] \in Nat
  BY SMTT(30), OrchestratorAssumption DEF TypeOK
<1>2. PICK claims \in Offer :
        /\ pc' = [pc EXCEPT ![p] = IF Left(claims) THEN "next" ELSE "busy"]
        /\ agenda' = IF Left(claims) THEN [agenda EXCEPT ![p] = Tail(@)] ELSE agenda
        /\ worst' = IF ~Left(claims) /\ job.kind \in {"dream", "personal"} /\ late > worst
                    THEN late ELSE worst
        /\ holding' = [holding EXCEPT ![p] = claims]
        /\ waiting' = IF claims THEN [waiting EXCEPT ![job.t] = @ - 1] ELSE waiting
  BY DEF Begin
<1>3. claims \in BOOLEAN /\ Left(claims) \in BOOLEAN
  BY DEF Triggered
<1>4. claims => waiting[job.t] > 0 /\ due /\ job.kind \in {"duty", "impulse"}
  <2>1. CASE due /\ job.kind \in {"duty", "impulse"}
    <3>1. claims \in Triggered(job.t, job.kind = "impulse")
      BY <2>1
    <3>2. claims => waiting[job.t] # 0
      BY <3>1 DEF Triggered
    <3> QED BY <2>1, <3>2, <1>1
  <2>2. CASE ~(due /\ job.kind \in {"duty", "impulse"})
    <3>1. claims \in {FALSE}
      BY <2>2
    <3> QED BY <3>1
  <2> QED BY <2>1, <2>2
<1>5. ~claims /\ due /\ job.kind = "duty" => waiting[job.t] = 0
  BY DEF Triggered
<1> HIDE DEF job, late, due, Offer
<1>6. /\ claims => waiting[job.t] > 0 /\ ~Left(claims) /\ job.kind \in {"duty", "impulse"}
      /\ Left(claims) => ~due \/ (job.kind = "duty" /\ waiting[job.t] = 0)
      /\ ~Left(claims) => due
  BY <1>4, <1>5
<1> HIDE DEF Left
<1>7. \E c \in BOOLEAN, skip \in BOOLEAN :
        /\ c => waiting[job.t] > 0 /\ ~skip /\ job.kind \in {"duty", "impulse"}
        /\ skip => ~due \/ (job.kind = "duty" /\ waiting[job.t] = 0)
        /\ ~skip => due
        /\ pc' = [pc EXCEPT ![p] = IF skip THEN "next" ELSE "busy"]
        /\ agenda' = IF skip THEN [agenda EXCEPT ![p] = Tail(@)] ELSE agenda
        /\ worst' = IF ~skip /\ job.kind \in {"dream", "personal"} /\ late > worst THEN late ELSE worst
        /\ holding' = [holding EXCEPT ![p] = c]
        /\ waiting' = IF c THEN [waiting EXCEPT ![job.t] = @ - 1] ELSE waiting
  BY <1>2, <1>3, <1>6
<1> QED BY <1>7 DEF job, late, due

LEMMA BeginTypes ==
  ASSUME TypeOK, NEW p \in Procs, Begin(p) PROVE TypeOK'
<1> DEFINE job  == Head(agenda[p])
           late == clock - (Key(job, at[p]).day * DayLength + job.slot)
<1>1. agenda[p] # <<>> /\ job \in Job /\ Tail(agenda[p]) \in Seq(Job) /\ job.t \in Tenants
  BY JobInHand DEF Begin
<1>2. late \in Int
  <2>1. job.slot \in Int
    BY <1>1, JobTypes, OrchestratorAssumption DEF None
  <2>2. at[p] \in Nat /\ clock \in Int /\ DayLength \in Nat \ {0}
    BY OrchestratorAssumption DEF TypeOK
  <2>3. at[p] \div DayLength \in Nat
    BY <2>2, Division
  <2>4. (at[p] \div DayLength) * DayLength \in Int
    BY <2>2, <2>3
  <2> QED BY <2>1, <2>2, <2>4 DEF Key
<1> HIDE DEF late
<1>3. PICK claims \in BOOLEAN, skip \in BOOLEAN :
        /\ claims => waiting[job.t] > 0
        /\ pc' = [pc EXCEPT ![p] = IF skip THEN "next" ELSE "busy"]
        /\ agenda' = IF skip THEN [agenda EXCEPT ![p] = Tail(@)] ELSE agenda
        /\ worst' = IF ~skip /\ job.kind \in {"dream", "personal"} /\ late > worst THEN late ELSE worst
        /\ holding' = [holding EXCEPT ![p] = claims]
        /\ waiting' = IF claims THEN [waiting EXCEPT ![job.t] = @ - 1] ELSE waiting
  BY <1>1, BeginCases DEF late
<1>4. waiting' \in [Tenants -> 0..MaxWaiting]
  <2>1. waiting \in [Tenants -> 0..MaxWaiting] /\ MaxWaiting \in Nat
    BY OrchestratorAssumption DEF TypeOK
  <2>2. claims => waiting[job.t] - 1 \in 0..MaxWaiting
    BY <1>1, <1>3, <2>1
  <2> QED BY <1>1, <1>3, <2>1, <2>2
<1>5. worst' \in Nat
  BY <1>2, <1>3 DEF TypeOK
<1>6. /\ agenda' \in [Procs -> Seq(Job)] /\ \A q \in Procs : pc'[q] = "busy" => agenda'[q] # <<>>
      /\ pc' \in [Procs -> {"idle", "next", "busy"}]
  BY <1>1, <1>3 DEF TypeOK
<1>7. holding' \in [Procs -> BOOLEAN]
  BY <1>3 DEF TypeOK
<1> QED BY <1>4, <1>5, <1>6, <1>7 DEF TypeOK, Begin

LEMMA EndTypes ==
  ASSUME TypeOK, AtWork, NEW p \in Procs, End(p) PROVE TypeOK'
<1> DEFINE job == Head(agenda[p])
<1>1. agenda[p] # <<>> /\ job \in Job /\ Tail(agenda[p]) \in Seq(Job) /\ job.t \in Tenants
  BY JobInHand DEF End, TypeOK
<1>2. /\ agenda' \in [Procs -> Seq(Job)] /\ \A q \in Procs : pc'[q] = "busy" => agenda'[q] # <<>>
      /\ pc' \in [Procs -> {"idle", "next", "busy"}] /\ holding' \in [Procs -> BOOLEAN]
  BY <1>1 DEF TypeOK, End
<1>3. mem[p] \in State /\ at[p] \in Nat
  BY DEF TypeOK
<1>4. /\ mem' \in [Procs -> State] /\ progressed' \in [Procs -> BOOLEAN] /\ runs' \in [Keys -> Nat]
      /\ waiting' \in [Tenants -> 0..MaxWaiting]
      /\ excused' \in [Procs -> SUBSET Tenants]
  <2>1. CASE job.kind \in {"dream", "personal"} /\ Slept(p, job)
    <3>1. Key(job, at[p]) \in Keys
      BY <2>1, SlotInHand DEF End, SlotKinds
    <3>2. mem' = [mem EXCEPT ![p].marks = @ \cup {Key(job, at[p])}]
      BY <2>1 DEF Slept
    <3>3. mem' \in [Procs -> State]
      BY <3>1, <3>2 DEF TypeOK, State
    <3>4. runs' \in [Keys -> Nat]
      BY <2>1, <3>1 DEF Slept, TypeOK
    <3> QED BY <2>1, <3>3, <3>4 DEF Slept, TypeOK
  <2>2. CASE \E ok \in BOOLEAN, heirs \in SUBSET Tenants : job.kind = "duty" /\ Worked(p, job, ok, heirs)
    <3>1. PICK ok \in BOOLEAN, heirs \in SUBSET Tenants : Worked(p, job, ok, heirs)
      BY <2>2
    <3>2. Handed(p, job.t, ok, heirs) /\ progressed' = [progressed EXCEPT ![p] = @ \/ ok] /\ mem' = mem
      BY <3>1 DEF Worked
    <3>3. progressed' \in [Procs -> BOOLEAN]
      BY <3>2, Zenon DEF TypeOK
    <3>4. /\ waiting' \in [Tenants -> 0..MaxWaiting]
          /\ excused' \in [Procs -> SUBSET Tenants] /\ runs' = runs
      BY <1>1, <3>2, HandedTypes
    <3> QED BY <3>2, <3>3, <3>4 DEF TypeOK
  <2>3. CASE \E ok \in BOOLEAN, heirs \in SUBSET Tenants : job.kind = "impulse" /\ Wandered(p, job, ok, heirs)
    <3>1. mem' = [mem EXCEPT ![p].impulse[job.t] = at[p]]
      BY <2>3 DEF Wandered
    <3>2. mem' \in [Procs -> State]
      BY <1>1, <1>3, <3>1 DEF TypeOK, State
    <3>3. CASE holding[p]
      <4>1. PICK ok \in BOOLEAN, heirs \in SUBSET Tenants : Handed(p, job.t, ok, heirs)
        BY <2>3, <3>3 DEF Wandered
      <4>2. /\ waiting' \in [Tenants -> 0..MaxWaiting]
            /\ excused' \in [Procs -> SUBSET Tenants] /\ runs' = runs
        BY <1>1, <4>1, HandedTypes
      <4> QED BY <2>3, <3>2, <4>2 DEF Wandered, TypeOK
    <3>4. CASE ~holding[p]
      BY <2>3, <3>2, <3>4 DEF Wandered, TypeOK
    <3> QED BY <3>3, <3>4
  <2> QED BY <2>1, <2>2, <2>3 DEF End
<1> QED BY <1>2, <1>4 DEF End, TypeOK

LEMMA NextPassTypes ==
  ASSUME TypeOK, NEW p \in Procs, NextPass(p) PROVE TypeOK'
<1>1. agenda' \in [Procs -> Seq(Job)] /\ pc' = pc
  BY JobTypes DEF TypeOK, NextPass
<1>2. \A q \in Procs : pc'[q] = "busy" => agenda'[q] = agenda[q]
  BY DEF TypeOK, NextPass
<1>3. phase' \in [Procs -> {"nightly", "duty", "personal", "impulse"}]
  BY DEF TypeOK, NextPass
<1>4. pass' \in [Procs -> 0..MaxPasses] /\ progressed' \in [Procs -> BOOLEAN]
  BY OrchestratorAssumption DEF TypeOK, NextPass
<1>5. excused' \in [Procs -> SUBSET Tenants]
  BY DEF TypeOK, NextPass
<1> QED BY <1>1, <1>2, <1>3, <1>4, <1>5 DEF TypeOK, NextPass, tasks

LEMMA NextPhaseTypes ==
  ASSUME TypeOK, NEW p \in Procs, NextPhase(p) PROVE TypeOK'
<1>1. \E jobs \in {Personals, Impulses} : agenda' = [agenda EXCEPT ![p] = jobs]
  BY DEF NextPhase
<1>2. agenda' \in [Procs -> Seq(Job)] /\ pc' = pc
  BY <1>1, JobTypes DEF TypeOK, NextPhase
<1>3. \A q \in Procs : pc'[q] = "busy" => agenda'[q] = agenda[q]
  BY <1>1 DEF TypeOK, NextPhase
<1>4. phase' \in [Procs -> {"nightly", "duty", "personal", "impulse"}]
  BY DEF TypeOK, NextPhase
<1> QED BY <1>2, <1>3, <1>4 DEF TypeOK, NextPhase, tasks, history

LEMMA SaveTypes ==
  ASSUME TypeOK, NEW p \in Procs, Save(p) \/ Torn(p) PROVE TypeOK'
<1>1. disk' \in State
  <2>1. Blank \in State
    BY DEF Blank, State
  <2> QED BY <2>1 DEF TypeOK, Save, Torn
<1>2. /\ pc' = [pc EXCEPT ![p] = "idle"] /\ faults' \in 0..MaxFaults
      /\ UNCHANGED <<clock, phase, agenda, at, mem, pass, progressed, holding, tasks, history>>
  BY SMTT(30), OrchestratorAssumption DEF TypeOK, Save, Torn
<1>3. /\ pc' \in [Procs -> {"idle", "next", "busy"}]
      /\ \A q \in Procs : pc'[q] = "busy" => pc[q] = "busy"
  BY <1>2 DEF TypeOK
<1> QED BY <1>1, <1>2, <1>3 DEF TypeOK, tasks, history

LEMMA AbortTypes ==
  ASSUME TypeOK, AtWork, NEW p \in Procs, Abort(p) PROVE TypeOK'
<1>1. /\ pc' \in [Procs -> {"idle", "next", "busy"}] /\ faults' \in 0..MaxFaults
      /\ \A q \in Procs : pc'[q] = "busy" => pc[q] = "busy"
      /\ holding' \in [Procs -> BOOLEAN]
  BY OrchestratorAssumption DEF TypeOK, Abort
<1>2. /\ waiting' \in [Tenants -> 0..MaxWaiting]
      /\ excused' \in [Procs -> SUBSET Tenants]
  <2>1. CASE UNCHANGED <<waiting, excused>>
    BY <2>1 DEF TypeOK
  <2>2. CASE /\ pc[p] = "busy"
             /\ \E ok \in BOOLEAN, heirs \in SUBSET Tenants : Handed(p, Head(agenda[p]).t, ok, heirs)
    <3>1. PICK ok \in BOOLEAN, heirs \in SUBSET Tenants : Handed(p, Head(agenda[p]).t, ok, heirs)
      BY <2>2
    <3>2. Head(agenda[p]).t \in Tenants
      BY <2>2, JobInHand DEF TypeOK
    <3> QED BY <3>1, <3>2, HandedTypes
  <2> QED BY <2>1, <2>2 DEF Abort
<1>3. runs' \in [Keys -> Nat]
  <2>1. CASE runs' = runs
    BY <2>1 DEF TypeOK
  <2>2. CASE \E k \in {Key(Head(agenda[p]), at[p])} : runs' = [runs EXCEPT ![k] = @ + 1]
    <3>1. PICK k : runs' = [runs EXCEPT ![k] = @ + 1]
      BY <2>2
    <3>2. \A l \in Keys : runs'[l] = (IF l = k THEN runs[l] + 1 ELSE runs[l])
      BY <3>1 DEF TypeOK
    <3>3. \A l \in Keys : runs[l] \in Nat
      BY DEF TypeOK
    <3>4. runs' = [l \in Keys |-> runs'[l]]
      BY <3>1 DEF TypeOK
    <3>5. \A l \in Keys : runs'[l] \in Nat
      BY <3>2, <3>3
    <3> QED BY <3>4, <3>5
  <2> QED BY <2>1, <2>2 DEF Abort, Handed
<1> QED BY <1>1, <1>2, <1>3 DEF TypeOK, Abort

LEMMA OutsideTypes ==
  ASSUME TypeOK, (\E t \in Tenants : Arrive(t)) \/ Minute PROVE TypeOK'
<1>1. CASE Minute
  BY <1>1, OrchestratorAssumption DEF TypeOK, Minute, process, tasks, history
<1>2. ASSUME NEW t \in Tenants, Arrive(t) PROVE TypeOK'
  <2>1. waiting' \in [Tenants -> 0..MaxWaiting] /\ arrivals' \in 0..MaxArrivals
    BY <1>2, OrchestratorAssumption DEF TypeOK, Arrive
  <2>2. excused' \in [Procs -> SUBSET Tenants]
    BY <1>2 DEF TypeOK, Arrive
  <2> QED BY <1>2, <2>1, <2>2 DEF TypeOK, Arrive, process
<1> QED BY <1>1, <1>2

LEMMA TypeStep == TypeOK /\ AtWork /\ [Next]_vars => TypeOK'
<1> SUFFICES ASSUME TypeOK, AtWork, [Next]_vars PROVE TypeOK'
  OBVIOUS
<1>1. ASSUME NEW p \in Procs, Step(p) \/ Abort(p) \/ Torn(p) PROVE TypeOK'
  BY <1>1, StartTypes, BeginTypes, EndTypes, NextPassTypes, NextPhaseTypes, SaveTypes, AbortTypes DEF Step, Moves
<1>2. CASE UNCHANGED vars
  BY <1>2 DEF TypeOK, vars, process, tasks, history
<1> QED BY <1>1, <1>2, OutsideTypes DEF Next

-----------------------------------------------------------------------------
(* What a step leaves alone *)

\* Every step of p leaves the other processes where they are.
LEMMA OthersStay ==
  ASSUME TypeOK, NEW p \in Procs, Step(p) \/ Abort(p) \/ Torn(p), NEW q \in Procs, q # p
  PROVE  /\ pc'[q] = pc[q] /\ phase'[q] = phase[q] /\ agenda'[q] = agenda[q] /\ at'[q] = at[q]
         /\ mem'[q] = mem[q] /\ pass'[q] = pass[q] /\ progressed'[q] = progressed[q]
<1>1. CASE Start(p)
  BY <1>1 DEF TypeOK, Start
<1>2. CASE Begin(p)
  <2>1. Head(agenda[p]).t \in Tenants
    BY <1>2, JobInHand DEF Begin
  <2>2. PICK skip \in BOOLEAN :
          /\ pc' = [pc EXCEPT ![p] = IF skip THEN "next" ELSE "busy"]
          /\ agenda' = IF skip THEN [agenda EXCEPT ![p] = Tail(@)] ELSE agenda
    BY <1>2, <2>1, BeginCases
  <2>3. UNCHANGED <<phase, at, mem, pass, progressed>>
    BY <1>2 DEF Begin
  <2>4. pc'[q] = pc[q]
    BY <2>2 DEF TypeOK
  <2>5. agenda'[q] = agenda[q]
    BY <2>2
  <2> QED BY <2>3, <2>4, <2>5
<1>3. CASE End(p)
  <2>1. UNCHANGED <<phase, at, pass>> /\ pc'[q] = pc[q] /\ agenda'[q] = agenda[q]
    BY <1>3 DEF TypeOK, End
  <2>2. \/ Slept(p, Head(agenda[p]))
        \/ \E ok \in BOOLEAN, heirs \in SUBSET Tenants :
             Worked(p, Head(agenda[p]), ok, heirs) \/ Wandered(p, Head(agenda[p]), ok, heirs)
    BY <1>3 DEF End
  <2>3. mem \in [Procs -> [marks : SUBSET Keys, impulse : [Tenants -> Nat \cup {Never}]]]
    BY DEF TypeOK, State
  <2>4. mem'[q] = mem[q]
    BY <2>2, <2>3 DEF Slept, Worked, Wandered
  <2>5. progressed'[q] = progressed[q]
    BY <2>2 DEF Slept, Worked, Wandered, TypeOK
  <2> QED BY <2>1, <2>4, <2>5
<1>4. CASE NextPass(p)
  BY <1>4 DEF TypeOK, NextPass
<1>5. CASE NextPhase(p)
  BY <1>5 DEF TypeOK, NextPhase
<1>6. CASE Save(p) \/ Torn(p)
  BY <1>6 DEF TypeOK, Save, Torn
<1>7. CASE Abort(p)
  BY <1>7 DEF TypeOK, Abort
<1> QED BY <1>1, <1>2, <1>3, <1>4, <1>5, <1>6, <1>7 DEF Step, Moves

\* Nothing from outside touches a process.
LEMMA OutsideStays ==
  ASSUME (\E t \in Tenants : Arrive(t)) \/ Minute
  PROVE  UNCHANGED <<process, disk, runs, faults>>
BY DEF Arrive, Minute, process, history

LEMMA WorkStep == TypeOK /\ AtWork /\ [Next]_vars => AtWork'
<1> SUFFICES ASSUME TypeOK, AtWork, [Next]_vars PROVE AtWork'
  OBVIOUS
<1>1. ASSUME NEW p \in Procs, Step(p) \/ Abort(p) \/ Torn(p), NEW q \in Procs, pc'[q] = "busy"
      PROVE  Ready(Head(agenda'[q]), mem'[q], at'[q])
  <2>1. CASE q # p
    BY <1>1, <2>1, OthersStay DEF AtWork
  <2>2. CASE q = p
    <3>1. CASE Begin(p)
      <4>1. agenda[p] # <<>> /\ Head(agenda[p]).t \in Tenants
        BY <3>1, JobInHand DEF Begin
      <4>2. mem' = mem /\ at' = at
        BY <3>1 DEF Begin
      <4>3. agenda' = agenda /\ Ready(Head(agenda[p]), mem[p], at[p])
        BY SMTT(30), <1>1, <2>2, <3>1, <4>1, BeginCases DEF TypeOK
      <4> QED BY <2>2, <4>2, <4>3
    <3>2. CASE ~Begin(p)
      <4>1. Start(p) \/ End(p) \/ Save(p) \/ Abort(p) \/ Torn(p) => pc'[p] # "busy"
        BY DEF TypeOK, Start, End, Save, Abort, Torn
      <4>2. NextPass(p) \/ NextPhase(p) => pc'[p] = "next"
        BY DEF TypeOK, NextPass, NextPhase
      <4> QED BY <1>1, <2>2, <3>2, <4>1, <4>2 DEF Step, Moves
    <3> QED BY <3>1, <3>2
  <2> QED BY <2>1, <2>2
<1>2. CASE UNCHANGED <<process, disk, runs, faults>>
  BY <1>2 DEF AtWork, process
<1>3. UNCHANGED vars => UNCHANGED <<process, disk, runs, faults>>
  BY DEF vars, history
<1> QED BY <1>1, <1>2, <1>3, OutsideStays DEF Next, AtWork

\* No two processes: launchd starts a tick when none runs.
Alone == \A p, q \in Procs : p = q

-----------------------------------------------------------------------------
(* What a step does to the bookkeeping *)

\* The wake of one slot of p's, not yet marked.
Ran(p, k) ==
  k \in Keys /\ k \notin mem[p].marks /\ runs' = [runs EXCEPT ![k] = @ + 1]

\* A step of p's loads, leaves alone, notes a wake, saves, loses the file, or ends early.
Loads(p)   == pc[p] = "idle" /\ mem'[p] = disk /\ UNCHANGED <<disk, runs, faults>>
Leaves(p)  == /\ pc[p] # "idle" /\ pc'[p] # "idle" /\ mem'[p].marks = mem[p].marks
              /\ UNCHANGED <<disk, runs, faults>>
Notes(p)   == /\ pc[p] # "idle" /\ pc'[p] # "idle" /\ UNCHANGED <<disk, faults>>
              /\ \E k \in Keys : Ran(p, k) /\ mem'[p].marks = mem[p].marks \cup {k}
Saves(p)   == /\ pc[p] # "idle" /\ pc'[p] = "idle" /\ disk' = mem[p] /\ mem'[p] = mem[p]
              /\ UNCHANGED <<runs, faults>>
Loses(p)   == /\ pc[p] # "idle" /\ pc'[p] = "idle" /\ disk'.marks = {} /\ mem'[p] = mem[p]
              /\ runs' = runs /\ faults' = faults + 1
Breaks(p)  == /\ pc[p] # "idle" /\ pc'[p] = "idle" /\ disk' = disk /\ mem'[p] = mem[p]
              /\ faults' = faults + 1 /\ (runs' = runs \/ \E k \in Keys : Ran(p, k))

LEMMA EndNotes ==
  ASSUME TypeOK, AtWork, NEW p \in Procs, End(p) PROVE Leaves(p) \/ Notes(p)
<1> DEFINE job == Head(agenda[p])
<1>1. pc[p] # "idle" /\ pc'[p] # "idle" /\ UNCHANGED <<disk, faults>>
  BY DEF End, TypeOK
<1>2. mem \in [Procs -> [marks : SUBSET Keys, impulse : [Tenants -> Nat \cup {Never}]]]
  BY DEF TypeOK, State
<1>3. CASE job.kind \in {"dream", "personal"} /\ Slept(p, job)
  <2> DEFINE k == Key(job, at[p])
  <2>1. k \in Keys /\ k \notin mem[p].marks
    BY <1>3, SlotInHand DEF End, SlotKinds
  <2>2. runs' = [runs EXCEPT ![k] = @ + 1] /\ mem' = [mem EXCEPT ![p].marks = @ \cup {k}]
    BY <1>3 DEF Slept
  <2> HIDE DEF k
  <2>3. mem'[p].marks = mem[p].marks \cup {k}
    BY <1>2, <2>2
  <2> QED BY <1>1, <2>1, <2>2, <2>3 DEF Notes, Ran
<1>4. CASE \E ok \in BOOLEAN, heirs \in SUBSET Tenants : Worked(p, job, ok, heirs)
  BY <1>1, <1>4 DEF Leaves, Worked, Handed
<1>5. CASE \E ok \in BOOLEAN, heirs \in SUBSET Tenants : Wandered(p, job, ok, heirs)
  <2>1. mem' = [mem EXCEPT ![p].impulse[job.t] = at[p]] /\ runs' = runs
    BY <1>5 DEF Wandered, Handed
  <2>2. mem'[p].marks = mem[p].marks
    BY <1>2, <2>1
  <2> QED BY <1>1, <2>1, <2>2 DEF Leaves
<1> QED BY <1>3, <1>4, <1>5 DEF End

LEMMA AbortBreaks ==
  ASSUME TypeOK, AtWork, NEW p \in Procs, Abort(p) PROVE Breaks(p)
<1> DEFINE job == Head(agenda[p])
<1>1. pc[p] # "idle" /\ pc'[p] = "idle" /\ UNCHANGED <<disk, mem>> /\ faults' = faults + 1
  BY DEF Abort, TypeOK
<1>2. CASE runs' = runs
  BY <1>1, <1>2 DEF Breaks
<1>3. CASE pc[p] = "busy" /\ job.kind \in {"dream", "personal"} /\ runs' = [runs EXCEPT ![Key(job, at[p])] = @ + 1]
  <2>1. Key(job, at[p]) \in Keys /\ Key(job, at[p]) \notin mem[p].marks
    BY <1>3, SlotInHand DEF SlotKinds
  <2> QED BY <1>1, <1>3, <2>1 DEF Breaks, Ran
<1> QED BY <1>2, <1>3 DEF Abort, Handed

LEMMA Bookkeeping ==
  ASSUME TypeOK, AtWork, NEW p \in Procs, Step(p) \/ Abort(p) \/ Torn(p)
  PROVE  Loads(p) \/ Leaves(p) \/ Notes(p) \/ Saves(p) \/ Loses(p) \/ Breaks(p)
<1>1. Start(p) => Loads(p)
  BY DEF TypeOK, Start, Loads, history
<1>2. Begin(p) => Leaves(p)
  <2> SUFFICES ASSUME Begin(p) PROVE Leaves(p)
    OBVIOUS
  <2>1. Head(agenda[p]).t \in Tenants
    BY JobInHand DEF Begin
  <2>2. PICK skip \in BOOLEAN : pc' = [pc EXCEPT ![p] = IF skip THEN "next" ELSE "busy"]
    BY <2>1, BeginCases
  <2>3. pc[p] # "idle" /\ pc'[p] # "idle"
    BY <2>2 DEF TypeOK, Begin
  <2> QED BY <2>3 DEF Begin, Leaves
<1>3. NextPass(p) \/ NextPhase(p) => Leaves(p)
  BY DEF TypeOK, NextPass, NextPhase, Leaves, history
<1>4. Save(p) => Saves(p)
  BY DEF TypeOK, Save, Saves, history
<1>5. Torn(p) => Loses(p)
  BY DEF TypeOK, Torn, Loses, history, Blank
<1> QED BY <1>1, <1>2, <1>3, <1>4, <1>5, EndNotes, AbortBreaks DEF Step, Moves

\* The wakes that ran are not forgotten.
LEMMA RunsGrow ==
  ASSUME TypeOK, AtWork, NEW p \in Procs, Step(p) \/ Abort(p) \/ Torn(p), NEW k \in Keys
  PROVE  runs'[k] \in Nat /\ runs'[k] >= runs[k] /\ (\A l \in Keys : Ran(p, l) => runs'[l] = runs[l] + 1)
<1>1. runs' = runs \/ \E l \in Keys : Ran(p, l)
  BY Bookkeeping DEF Loads, Leaves, Notes, Saves, Loses, Breaks
<1>2. \A l \in Keys : runs[l] \in Nat
  BY DEF TypeOK
<1>3. \A l \in Keys : Ran(p, l) => \A m \in Keys : runs'[m] = (IF m = l THEN runs[m] + 1 ELSE runs[m])
  BY DEF Ran, TypeOK
<1> QED BY <1>1, <1>2, <1>3

LEMMA MarksStep == TypeOK /\ AtWork /\ MarksTrue /\ [Next]_vars => MarksTrue'
<1> SUFFICES ASSUME TypeOK, AtWork, MarksTrue, [Next]_vars PROVE MarksTrue'
  OBVIOUS
<1>1. ASSUME NEW p \in Procs, Step(p) \/ Abort(p) \/ Torn(p),
             NEW k \in Keys, k \in disk'.marks \/ \E q \in Procs : k \in mem'[q].marks
      PROVE  runs'[k] > 0
  <2>1. runs'[k] \in Nat /\ runs[k] \in Nat /\ runs'[k] >= runs[k]
    BY <1>1, RunsGrow DEF TypeOK
  <2>2. \/ k \in disk.marks \/ \E q \in Procs : k \in mem[q].marks
        \/ Ran(p, k)
    <3>1. \A q \in Procs : q # p => mem'[q] = mem[q]
      BY <1>1, OthersStay
    <3>2. k \in disk'.marks => k \in disk.marks \/ k \in mem[p].marks
      BY <1>1, Bookkeeping DEF Loads, Leaves, Notes, Saves, Loses, Breaks
    <3>3. k \in mem'[p].marks => k \in disk.marks \/ k \in mem[p].marks \/ Ran(p, k)
      BY <1>1, Bookkeeping DEF Loads, Leaves, Notes, Saves, Loses, Breaks
    <3> QED BY <1>1, <3>1, <3>2, <3>3
  <2>3. CASE Ran(p, k)
    <3>1. runs'[k] = runs[k] + 1
      BY <1>1, <2>3, RunsGrow
    <3> QED BY <2>1, <3>1
  <2>4. CASE k \in disk.marks \/ \E q \in Procs : k \in mem[q].marks
    BY <2>1, <2>4 DEF MarksTrue
  <2> QED BY <2>2, <2>3, <2>4
<1>2. CASE UNCHANGED <<process, disk, runs, faults>>
  BY <1>2 DEF MarksTrue, process
<1>3. UNCHANGED vars => UNCHANGED <<process, disk, runs, faults>>
  BY DEF vars, history
<1> QED BY <1>1, <1>2, <1>3, OutsideStays DEF Next, MarksTrue

LEMMA OnTopStep == Alone /\ TypeOK /\ AtWork /\ OnTop /\ [Next]_vars => OnTop'
<1> SUFFICES ASSUME Alone, TypeOK, AtWork, OnTop, [Next]_vars PROVE OnTop'
  OBVIOUS
<1>1. ASSUME NEW p \in Procs, Step(p) \/ Abort(p) \/ Torn(p), pc'[p] # "idle"
      PROVE  disk'.marks \subseteq mem'[p].marks
  BY <1>1, Bookkeeping DEF Loads, Leaves, Notes, Saves, Loses, Breaks, OnTop
<1>2. CASE UNCHANGED <<process, disk, runs, faults>>
  BY <1>2 DEF OnTop, process
<1>3. UNCHANGED vars => UNCHANGED <<process, disk, runs, faults>>
  BY DEF vars, history
<1>4. ASSUME NEW p \in Procs, Step(p) \/ Abort(p) \/ Torn(p) PROVE OnTop'
  BY <1>1, <1>4 DEF Alone, OnTop
<1> QED BY <1>2, <1>3, <1>4, OutsideStays DEF Next

LEMMA CountedStep == Alone /\ TypeOK /\ AtWork /\ OnTop /\ Counted /\ [Next]_vars => Counted'
<1> SUFFICES ASSUME Alone, TypeOK, AtWork, OnTop, Counted, [Next]_vars PROVE Counted'
  OBVIOUS
<1>1. ASSUME NEW p \in Procs, Step(p) \/ Abort(p) \/ Torn(p), NEW k \in Keys
      PROVE  runs'[k] <= (IF Noted(k)' THEN faults' + 1 ELSE faults')
  <2>1. Noted(k) <=> k \in disk.marks \/ (pc[p] # "idle" /\ k \in mem[p].marks)
    BY DEF Noted, Alone
  <2>2. Noted(k)' <=> k \in disk'.marks \/ (pc'[p] # "idle" /\ k \in mem'[p].marks)
    BY DEF Noted, Alone
  <2>3. /\ runs[k] \in Nat /\ faults \in Nat
        /\ runs[k] <= faults + 1 /\ (~Noted(k) => runs[k] <= faults)
    BY OrchestratorAssumption DEF Counted, TypeOK
  <2>4. CASE Loads(p) \/ Leaves(p) \/ Saves(p)
    <3>1. runs' = runs /\ faults' = faults
      BY <2>4 DEF Loads, Leaves, Saves
    <3>2. Noted(k) => Noted(k)'
      BY <2>1, <2>2, <2>4 DEF Loads, Leaves, Saves, OnTop
    <3> QED BY <2>3, <3>1, <3>2
  <2>5. CASE Notes(p)
    <3>1. PICK l \in Keys : Ran(p, l) /\ mem'[p].marks = mem[p].marks \cup {l}
      BY <2>5 DEF Notes
    <3>2. pc[p] # "idle" /\ pc'[p] # "idle" /\ disk' = disk /\ faults' = faults
      BY <2>5 DEF Notes
    <3>3. CASE k = l
      <4>1. ~Noted(k)
        BY <2>1, <3>1, <3>2, <3>3 DEF Ran, OnTop
      <4>2. runs'[k] = runs[k] + 1
        BY <1>1, <3>1, <3>3, RunsGrow
      <4>3. Noted(k)'
        BY <2>2, <3>1, <3>2, <3>3
      <4> QED BY <2>3, <3>2, <4>1, <4>2, <4>3
    <3>4. CASE k # l
      <4>1. runs'[k] = runs[k]
        BY <3>1, <3>4 DEF Ran, TypeOK
      <4>2. Noted(k) => Noted(k)'
        BY <2>1, <2>2, <3>1, <3>2
      <4> QED BY <2>3, <3>2, <4>1, <4>2
    <3> QED BY <3>3, <3>4
  <2>6. CASE Loses(p)
    <3>1. runs'[k] = runs[k] /\ faults' = faults + 1
      BY <2>6 DEF Loses
    <3>2. runs'[k] <= faults' /\ runs'[k] <= faults' + 1
      BY <2>3, <3>1
    <3> QED BY <3>2
  <2>7. CASE Breaks(p)
    <3>1. pc[p] # "idle" /\ faults' = faults + 1
      BY <2>7 DEF Breaks
    <3>2. CASE Ran(p, k)
      <4>1. ~Noted(k)
        BY <2>1, <3>1, <3>2 DEF Ran, OnTop
      <4>2. runs'[k] = runs[k] + 1
        BY <1>1, <3>2, RunsGrow
      <4> QED BY <2>3, <3>1, <4>1, <4>2
    <3>3. CASE ~Ran(p, k)
      <4>1. runs'[k] = runs[k]
        BY <2>7, <3>3 DEF Breaks, Ran, TypeOK
      <4> QED BY <2>3, <3>1, <4>1
    <3> QED BY <3>2, <3>3
  <2> QED BY <1>1, <2>4, <2>5, <2>6, <2>7, Bookkeeping
<1>2. CASE UNCHANGED <<process, disk, runs, faults>>
  BY <1>2 DEF Counted, Noted, process
<1>3. UNCHANGED vars => UNCHANGED <<process, disk, runs, faults>>
  BY DEF vars, history
<1> QED BY <1>1, <1>2, <1>3, OutsideStays DEF Next, Counted

-----------------------------------------------------------------------------
(* The due slots of a tick, and its rounds *)

\* A job of a slot that is dropped when it is due has its mark.
LEMMA DroppedMarked ==
  ASSUME TypeOK, AtWork, NEW p \in Procs, Begin(p) \/ End(p), agenda' # agenda,
         Head(agenda[p]).kind \in SlotKinds,
         Head(agenda[p]).slot # None, Due(Head(agenda[p]).slot, at[p])
  PROVE  Key(Head(agenda[p]), at[p]) \in mem'[p].marks
<1> DEFINE job == Head(agenda[p])
<1>1. CASE Begin(p)
  <2>1. job.t \in Tenants
    BY <1>1, JobInHand DEF Begin
  <2>2. job.kind # "duty" /\ job.kind # "impulse"
    BY DEF SlotKinds
  <2>3. PICK skip \in BOOLEAN :
          /\ skip => ~Ready(job, mem[p], at[p]) \/ job.kind = "duty"
          /\ agenda' = IF skip THEN [agenda EXCEPT ![p] = Tail(@)] ELSE agenda
    BY <1>1, <2>1, BeginCases
  <2>4. ~Ready(job, mem[p], at[p]) /\ mem' = mem
    BY <1>1, <2>2, <2>3 DEF Begin
  <2> QED BY <2>2, <2>4 DEF Ready
<1>2. CASE End(p)
  <2>1. Slept(p, job)
    BY <1>2 DEF End, SlotKinds
  <2>2. mem \in [Procs -> [marks : SUBSET Keys, impulse : [Tenants -> Nat \cup {Never}]]]
    BY DEF TypeOK, State
  <2>3. \E k \in {Key(job, at[p])} : mem' = [mem EXCEPT ![p].marks = @ \cup {k}]
    BY <2>1 DEF Slept
  <2> QED BY <2>2, <2>3
<1> QED BY <1>1, <1>2

\* Marks are only added while a tick goes on.
LEMMA MarksGrow ==
  ASSUME TypeOK, AtWork, NEW p \in Procs, Step(p) \/ Abort(p) \/ Torn(p), pc[p] # "idle"
  PROVE  mem[p].marks \subseteq mem'[p].marks
BY Bookkeeping DEF Loads, Leaves, Notes, Saves, Loses, Breaks

\* Begin and End leave the agenda alone or drop its first job.
LEMMA AgendaDrops ==
  ASSUME TypeOK, NEW p \in Procs, Begin(p) \/ End(p)
  PROVE  /\ UNCHANGED <<phase, at, pass>> /\ agenda[p] # <<>> /\ pc[p] # "idle"
         /\ \/ agenda' = agenda
            \/ agenda'[p] = Tail(agenda[p]) /\ Range(agenda[p]) = {Head(agenda[p])} \cup Range(agenda'[p])
<1>1. agenda[p] # <<>> /\ UNCHANGED <<phase, at, pass>> /\ pc[p] # "idle"
  BY DEF Begin, End, TypeOK
<1>2. Head(agenda[p]).t \in Tenants /\ Range(agenda[p]) = {Head(agenda[p])} \cup Range(Tail(agenda[p]))
  BY <1>1, JobInHand
<1>3. agenda' = agenda \/ agenda' = [agenda EXCEPT ![p] = Tail(@)]
  <2>1. CASE Begin(p)
    <3>1. PICK skip \in BOOLEAN : agenda' = IF skip THEN [agenda EXCEPT ![p] = Tail(@)] ELSE agenda
      BY <1>2, <2>1, BeginCases
    <3> QED BY <3>1
  <2>2. CASE End(p)
    BY <2>2 DEF End
  <2> QED BY <2>1, <2>2
<1>4. agenda' = [agenda EXCEPT ![p] = Tail(@)] => agenda'[p] = Tail(agenda[p])
  BY DEF TypeOK
<1> QED BY <1>1, <1>2, <1>3, <1>4

\* A list visited so far is visited after the next step of the same phase.
LEMMA VisitStep ==
  ASSUME TypeOK, AtWork, NEW p \in Procs, Begin(p) \/ End(p),
         NEW jobs, \A j \in Range(jobs) : j.kind \in SlotKinds,
         NEW here \in BOOLEAN, Visited(p, jobs, here)
  PROVE  \A j \in Range(jobs) : j.slot # None /\ Due(j.slot, at'[p]) =>
           Key(j, at'[p]) \in mem'[p].marks \/ (here /\ j \in Range(agenda'[p]))
<1>1. at' = at /\ mem[p].marks \subseteq mem'[p].marks
  BY AgendaDrops, MarksGrow DEF Step, Moves
<1> SUFFICES ASSUME NEW j \in Range(jobs), j.slot # None, Due(j.slot, at[p])
             PROVE  Key(j, at[p]) \in mem'[p].marks \/ (here /\ j \in Range(agenda'[p]))
  BY <1>1
<1>2. CASE Key(j, at[p]) \in mem[p].marks
  BY <1>1, <1>2
<1>3. CASE here /\ j \in Range(agenda[p]) /\ j \notin Range(agenda'[p])
  <2>1. agenda' # agenda /\ j = Head(agenda[p])
    BY <1>3, AgendaDrops
  <2> QED BY <2>1, DroppedMarked
<1> QED BY <1>2, <1>3 DEF Visited

LEMMA PassedStep == TypeOK /\ AtWork /\ Passed /\ [Next]_vars => Passed'
<1> SUFFICES ASSUME TypeOK, AtWork, Passed, [Next]_vars PROVE Passed'
  OBVIOUS
<1>0. /\ \A j \in Range(Dreams) : j.kind \in SlotKinds
      /\ \A j \in Range(Personals) : j.kind \in SlotKinds
  BY DreamTypes, PersonalTypes DEF SlotKinds
<1>1. ASSUME NEW p \in Procs, Step(p) \/ Abort(p) \/ Torn(p), NEW q \in Procs, pc'[q] # "idle"
      PROVE  /\ Visited(q, Dreams, phase[q] = "nightly")'
             /\ phase'[q] \in {"personal", "impulse"} => Visited(q, Personals, phase[q] = "personal")'
  <2>1. CASE q # p
    BY <1>1, <2>1, OthersStay DEF Passed, Visited
  <2>2. CASE q = p /\ Start(p)
    <3>1. phase'[p] = "nightly" /\ agenda'[p] = Dreams
      BY <2>2 DEF Start, TypeOK
    <3> QED BY <2>2, <3>1 DEF Visited
  <2>3. CASE q = p /\ (Begin(p) \/ End(p))
    <3>1. pc[p] # "idle" /\ phase' = phase
      BY <2>3, AgendaDrops
    <3>2. /\ Visited(p, Dreams, phase[p] = "nightly")
          /\ phase[p] \in {"personal", "impulse"} => Visited(p, Personals, phase[p] = "personal")
      BY <3>1 DEF Passed
    <3>3. /\ (phase[p] = "nightly") \in BOOLEAN /\ (phase[p] = "personal") \in BOOLEAN
      OBVIOUS
    <3>4. \A j \in Range(Dreams) : j.slot # None /\ Due(j.slot, at'[p]) =>
            Key(j, at'[p]) \in mem'[p].marks \/ (phase[p] = "nightly" /\ j \in Range(agenda'[p]))
      BY <1>0, <2>3, <3>2, <3>3, VisitStep
    <3>5. phase[p] \in {"personal", "impulse"} =>
            \A j \in Range(Personals) : j.slot # None /\ Due(j.slot, at'[p]) =>
              Key(j, at'[p]) \in mem'[p].marks \/ (phase[p] = "personal" /\ j \in Range(agenda'[p]))
      BY <1>0, <2>3, <3>2, <3>3, VisitStep
    <3> QED BY <2>3, <3>1, <3>4, <3>5 DEF Visited
  <2>4. CASE q = p /\ (NextPass(p) \/ NextPhase(p))
    <3>1. pc[p] # "idle" /\ agenda[p] = <<>> /\ UNCHANGED <<at, mem>>
      BY <2>4 DEF NextPass, NextPhase
    <3>2. Range(agenda[p]) = {}
      BY <3>1 DEF Range
    <3>3. \A jobs : Visited(p, jobs, FALSE)' <=> Visited(p, jobs, FALSE)
      BY <3>1 DEF Visited
    <3>4. \A jobs, here : Visited(p, jobs, here) => Visited(p, jobs, FALSE)
      BY <3>2 DEF Visited
    <3>5. phase'[p] # "nightly" /\ Visited(p, Dreams, FALSE)'
      BY <2>4, <3>1, <3>3, <3>4 DEF NextPass, NextPhase, TypeOK, Passed
    <3>6. Visited(p, Dreams, phase[p] = "nightly")'
      BY <3>5 DEF Visited
    <3>7. CASE phase'[p] = "personal"
      <4>1. agenda'[p] = Personals
        BY <2>4, <3>7 DEF NextPass, NextPhase, TypeOK
      <4> QED BY <2>4, <3>6, <3>7, <4>1 DEF Visited
    <3>8. CASE phase'[p] = "impulse"
      <4>1. phase[p] = "personal"
        BY <2>4, <3>8 DEF NextPass, NextPhase, TypeOK
      <4>2. Visited(p, Personals, FALSE)'
        BY <3>1, <3>3, <3>4, <4>1 DEF Passed
      <4> QED BY <2>4, <3>6, <3>8, <4>2 DEF Visited
    <3> QED BY <2>4, <3>6, <3>7, <3>8
  <2>5. Save(p) \/ Torn(p) \/ Abort(p) => pc'[p] = "idle"
    BY DEF Save, Torn, Abort, TypeOK
  <2> QED BY <1>1, <2>1, <2>2, <2>3, <2>4, <2>5 DEF Step, Moves
<1>2. CASE UNCHANGED <<process, disk, runs, faults>>
  BY <1>2 DEF Passed, Visited, process
<1>3. UNCHANGED vars => UNCHANGED <<process, disk, runs, faults>>
  BY DEF vars, history
<1> QED BY <1>1, <1>2, <1>3, OutsideStays DEF Next, Passed

\* Every tenant has its duty job.
LEMMA DutyOfEach == \A t \in Tenants : \E j \in Range(Duties) : j.t = t
<1> SUFFICES ASSUME NEW t \in Tenants PROVE \E j \in Range(Duties) : j.t = t
  OBVIOUS
<1>1. PICK i \in DOMAIN Order : t = Order[i]
  BY DEF Tenants, Range
<1>2. i \in 1..Len(Order)
  BY <1>1, Inputs
<1>3. i \in DOMAIN Duties /\ Duties[i].t = t
  BY <1>1, <1>2 DEF Duties, EachTenant
<1> QED BY <1>3 DEF Range

\* Who is excused stays so in a pass, and a task that appears excuses its tenant, unless
\* the run that hands it over counts as progress of this very pass: one that fails
\* excuses whoever it left a task to.
LEMMA HandedRounds ==
  ASSUME TypeOK, NEW p \in Procs, NEW u \in Tenants, NEW ok \in BOOLEAN, NEW heirs \in SUBSET Tenants,
         Handed(p, u, ok, heirs), NEW q \in Procs, NEW t \in Tenants, waiting'[t] > 0
  PROVE  /\ t \in excused[q] => t \in excused'[q]
         /\ waiting[t] > 0 \/ t \in excused'[q] \/ (q = p /\ phase[p] = "duty" /\ ok)
         /\ q = p /\ phase[p] = "duty" /\ t = u => ok \/ t \in excused'[q]
<1>1. waiting'[t] = IF t \in heirs THEN waiting[t] + 1 ELSE waiting[t]
  BY DEF Handed
<1>2. excused'[q] = IF q # p \/ phase[p] # "duty" THEN excused[q] \cup heirs
                    ELSE IF ok THEN excused[q] ELSE excused[q] \cup {u} \cup heirs
  BY DEF Handed
<1> QED BY <1>1, <1>2

\* What any step leaves of the open tasks and the excuses, for a tick that goes on in its phase.
Settled(q, t) == waiting'[t] > 0 => (waiting[t] > 0 /\ t \notin excused[q]) \/ t \in excused'[q]

LEMMA BeginSettles ==
  ASSUME TypeOK, NEW p \in Procs, Begin(p), NEW q \in Procs, NEW t \in Tenants
  PROVE  Settled(q, t) /\ (agenda' # agenda /\ phase[p] = "duty" /\ Head(agenda[p]).kind = "duty" => waiting[Head(agenda[p]).t] = 0)
<1> DEFINE job == Head(agenda[p])
<1>1. job.t \in Tenants
  BY JobInHand DEF Begin
<1>2. PICK claims \in BOOLEAN, skip \in BOOLEAN :
        /\ claims => waiting[job.t] > 0
        /\ skip => ~Ready(job, mem[p], at[p]) \/ (job.kind = "duty" /\ waiting[job.t] = 0)
        /\ agenda' = IF skip THEN [agenda EXCEPT ![p] = Tail(@)] ELSE agenda
        /\ waiting' = IF claims THEN [waiting EXCEPT ![job.t] = @ - 1] ELSE waiting
  BY <1>1, BeginCases
<1>3. waiting'[t] > 0 => waiting[t] > 0
  <2>1. \A u \in Tenants : waiting[u] \in Nat
    BY OrchestratorAssumption DEF TypeOK
  <2>2. waiting'[t] = waiting[t] \/ waiting'[t] = waiting[t] - 1
    BY <1>2 DEF TypeOK
  <2> QED BY <2>1, <2>2
<1>4. excused' = excused
  BY DEF Begin
<1>5. job.kind = "duty" => Ready(job, mem[p], at[p])
  BY DEF Ready
<1> HIDE DEF job
<1>6. agenda' # agenda /\ job.kind = "duty" => waiting[job.t] = 0
  BY <1>2, <1>5
<1> QED BY <1>3, <1>4, <1>6 DEF Settled, job

LEMMA EndSettles ==
  ASSUME TypeOK, NEW p \in Procs, End(p), NEW q \in Procs, NEW t \in Tenants
  PROVE  /\ (q # p \/ phase[p] # "duty") => Settled(q, t) /\ (q # p => progressed'[q] = progressed[q])
         /\ Head(agenda[p]).kind = "duty" /\ phase[p] = "duty" /\ waiting'[t] > 0 =>
              \/ t \in excused'[p] \/ progressed'[p]
              \/ waiting[t] > 0 /\ ~progressed[p] /\ t \notin excused[p] /\ t # Head(agenda[p]).t
<1> DEFINE job == Head(agenda[p])
<1>1. job.t \in Tenants
  BY JobInHand DEF End, TypeOK
<1>3. ASSUME NEW ok \in BOOLEAN, NEW heirs \in SUBSET Tenants, job.kind = "duty", Worked(p, job, ok, heirs)
      PROVE  /\ (q # p \/ phase[p] # "duty") => Settled(q, t) /\ (q # p => progressed'[q] = progressed[q])
             /\ phase[p] = "duty" /\ waiting'[t] > 0 =>
                  \/ t \in excused'[p] \/ progressed'[p]
                  \/ waiting[t] > 0 /\ ~progressed[p] /\ t \notin excused[p] /\ t # job.t
  <2>1. Handed(p, job.t, ok, heirs) /\ progressed' = [progressed EXCEPT ![p] = @ \/ ok]
    BY <1>3 DEF Worked
  <2>2. /\ progressed'[p] <=> (progressed[p] \/ ok)
        /\ q # p => progressed'[q] = progressed[q]
    BY <2>1, Zenon DEF TypeOK
  <2>3. \A r \in Procs : waiting'[t] > 0 =>
          /\ t \in excused[r] => t \in excused'[r]
          /\ waiting[t] > 0 \/ t \in excused'[r] \/ (r = p /\ phase[p] = "duty" /\ ok)
          /\ r = p /\ phase[p] = "duty" /\ t = job.t => ok \/ t \in excused'[r]
    BY <1>1, <2>1, HandedRounds
  <2> HIDE DEF job
  <2> QED BY <2>2, <2>3 DEF Settled
<1>4. ASSUME NEW ok \in BOOLEAN, NEW heirs \in SUBSET Tenants, job.kind = "impulse", Wandered(p, job, ok, heirs),
             q # p \/ phase[p] # "duty"
      PROVE  Settled(q, t) /\ progressed' = progressed
  <2>1. CASE holding[p]
    <3>1. Handed(p, job.t, ok, heirs) /\ progressed' = progressed
      BY <1>4, <2>1 DEF Wandered
    <3>2. waiting'[t] > 0 =>
          /\ t \in excused[q] => t \in excused'[q]
          /\ waiting[t] > 0 \/ t \in excused'[q] \/ (q = p /\ phase[p] = "duty" /\ ok)
      BY <1>1, <3>1, HandedRounds
    <3> QED BY <1>4, <3>1, <3>2 DEF Settled
  <2>2. CASE ~holding[p]
    BY <1>4, <2>2 DEF Wandered, Settled
  <2> QED BY <2>1, <2>2
<1> HIDE DEF job
<1>5. \/ job.kind \in {"dream", "personal"} /\ Slept(p, job)
      \/ \E ok \in BOOLEAN, heirs \in SUBSET Tenants : job.kind = "duty" /\ Worked(p, job, ok, heirs)
      \/ \E ok \in BOOLEAN, heirs \in SUBSET Tenants : job.kind = "impulse" /\ Wandered(p, job, ok, heirs)
  BY DEF End, job
<1>6. CASE job.kind \in {"dream", "personal"} /\ Slept(p, job)
  BY <1>6 DEF Slept, Settled, job
<1>7. CASE \E ok \in BOOLEAN, heirs \in SUBSET Tenants : job.kind = "duty" /\ Worked(p, job, ok, heirs)
  BY <1>3, <1>7 DEF job
<1>8. CASE \E ok \in BOOLEAN, heirs \in SUBSET Tenants : job.kind = "impulse" /\ Wandered(p, job, ok, heirs)
  BY <1>4, <1>8 DEF job
<1> QED BY <1>5, <1>6, <1>7, <1>8

LEMMA StepSettles ==
  ASSUME TypeOK, NEW p \in Procs, Step(p) \/ Abort(p) \/ Torn(p), NEW q \in Procs, NEW t \in Tenants,
         q # p
  PROVE  Settled(q, t)
<1>1. CASE Start(p) \/ NextPhase(p) \/ Save(p) \/ Torn(p)
  <2>1. waiting' = waiting /\ excused' = excused
    BY <1>1 DEF Start, NextPhase, Save, Torn, tasks, history
  <2> QED BY <2>1 DEF Settled
<1>3. CASE Abort(p)
  <2>1. CASE waiting' = waiting /\ excused' = excused
    BY <2>1 DEF Settled
  <2>2. ASSUME NEW ok \in BOOLEAN, NEW heirs \in SUBSET Tenants, Handed(p, Head(agenda[p]).t, ok, heirs)
        PROVE  Settled(q, t)
    <3>1. waiting'[t] = IF t \in heirs THEN waiting[t] + 1 ELSE waiting[t]
      BY <2>2 DEF Handed
    <3>2. excused'[q] = excused[q] \cup heirs
      BY <2>2 DEF Handed
    <3> QED BY <3>1, <3>2 DEF Settled
  <2> QED BY <1>3, <2>1, <2>2 DEF Abort
<1>2. CASE NextPass(p)
  <2>1. waiting' = waiting /\ excused'[q] = excused[q]
    BY <1>2 DEF NextPass, tasks, TypeOK
  <2> QED BY <2>1 DEF Settled
<1> QED BY <1>1, <1>2, <1>3, BeginSettles, EndSettles DEF Step, Moves

\* A tenant that gets a task from outside is excused by every tick.
LEMMA OutsideSettles ==
  ASSUME TypeOK, (\E u \in Tenants : Arrive(u)) \/ Minute \/ UNCHANGED vars, NEW q \in Procs, NEW t \in Tenants
  PROVE  Settled(q, t)
<1>1. ASSUME NEW u \in Tenants, Arrive(u) PROVE Settled(q, t)
  <2>1. t # u => waiting'[t] = waiting[t]
    BY <1>1 DEF Arrive, TypeOK
  <2>2. excused'[q] = excused[q] \cup {u}
    BY <1>1 DEF Arrive
  <2> QED BY <2>1, <2>2 DEF Settled
<1>2. CASE Minute \/ UNCHANGED vars
  BY <1>2 DEF Minute, vars, tasks, history, Settled
<1> QED BY <1>1, <1>2

\* A tick that stays where it is keeps to its round.
LEMMA StillInRound ==
  ASSUME NEW q \in Procs, InRound(q),
         pc'[q] # "idle" => UNCHANGED <<phase[q], agenda[q], progressed[q]>> /\ pc[q] # "idle",
         \A t \in Tenants : Settled(q, t)
  PROVE  InRound(q)'
BY DEF InRound, ToCome, Settled

LEMMA EndInRound ==
  ASSUME TypeOK, NEW p \in Procs, InRound(p), End(p)
  PROVE  InRound(p)'
<1>1. pc[p] # "idle" /\ phase' = phase /\ agenda' = [agenda EXCEPT ![p] = Tail(@)] /\ agenda[p] # <<>>
  BY DEF End, TypeOK
<1>2. agenda'[p] = Tail(agenda[p]) /\ Range(agenda[p]) = {Head(agenda[p])} \cup Range(agenda'[p])
  BY <1>1, JobInHand DEF TypeOK
<1> SUFFICES ASSUME phase[p] = "duty" PROVE InRound(p)'
  BY <1>1 DEF InRound
<1>3. /\ \A j \in Range(agenda'[p]) : j.kind = "duty"
      /\ Head(agenda[p]).kind = "duty"
  BY <1>1, <1>2 DEF InRound
<1>4. ASSUME NEW t \in Tenants, waiting'[t] > 0 PROVE t \in excused'[p] \/ progressed'[p] \/ ToCome(p, t)'
  <2>1. \/ t \in excused'[p] \/ progressed'[p]
        \/ waiting[t] > 0 /\ ~progressed[p] /\ t \notin excused[p] /\ t # Head(agenda[p]).t
    BY <1>3, <1>4, EndSettles
  <2>2. waiting[t] > 0 /\ ~progressed[p] /\ t \notin excused[p] => \E j \in Range(agenda[p]) : j.t = t
    BY <1>1 DEF InRound, ToCome
  <2> QED BY <1>2, <2>1, <2>2 DEF ToCome
<1> QED BY <1>3, <1>4 DEF InRound

LEMMA BeginInRound ==
  ASSUME TypeOK, NEW p \in Procs, InRound(p), Begin(p)
  PROVE  InRound(p)'
<1>1. /\ pc[p] # "idle" /\ UNCHANGED <<phase, progressed, excused>>
      /\ \/ agenda' = agenda
         \/ Range(agenda[p]) = {Head(agenda[p])} \cup Range(agenda'[p])
  BY AgendaDrops DEF Begin
<1> SUFFICES ASSUME phase[p] = "duty" PROVE InRound(p)'
  BY <1>1 DEF InRound
<1>2. \A t \in Tenants : Settled(p, t)
  BY BeginSettles
<1>3. \A j \in Range(agenda[p]) : j.kind = "duty"
  BY <1>1 DEF InRound
<1>4. CASE agenda' = agenda
  BY <1>1, <1>2, <1>4, StillInRound
<1>5. CASE agenda' # agenda
  <2>1. Head(agenda[p]).kind = "duty" /\ Head(agenda[p]).t \in Tenants
    BY <1>1, <1>3, <1>5, JobInHand DEF Begin
  <2>2. waiting[Head(agenda[p]).t] = 0
    BY <1>5, <2>1, BeginSettles
  <2>3. ASSUME NEW t \in Tenants, waiting'[t] > 0 PROVE t \in excused'[p] \/ progressed'[p] \/ ToCome(p, t)'
    <3>1. t \in excused'[p] \/ (waiting[t] > 0 /\ t # Head(agenda[p]).t)
      BY <1>2, <2>2, <2>3 DEF Settled
    <3>2. waiting[t] > 0 => t \in excused[p] \/ progressed[p] \/ \E j \in Range(agenda[p]) : j.t = t
      BY <1>1 DEF InRound, ToCome
    <3> QED BY <1>1, <1>5, <3>1, <3>2 DEF ToCome
  <2>4. \A j \in Range(agenda'[p]) : j.kind = "duty"
    BY <1>1, <1>3
  <2> QED BY <2>3, <2>4 DEF InRound
<1> QED BY <1>4, <1>5

LEMMA RoundsStep == TypeOK /\ AtWork /\ Rounds /\ [Next]_vars => Rounds'
<1> SUFFICES ASSUME TypeOK, AtWork, Rounds, [Next]_vars, NEW q \in Procs PROVE InRound(q)'
  BY DEF Rounds
<1>1. InRound(q)
  BY DEF Rounds
<1>2. ASSUME NEW p \in Procs, Step(p) \/ Abort(p) \/ Torn(p) PROVE InRound(q)'
  <2>1. CASE q # p
    <3>1. UNCHANGED <<pc[q], phase[q], agenda[q], progressed[q]>>
      BY <1>2, <2>1, OthersStay
    <3>2. \A t \in Tenants : Settled(q, t)
      BY <1>2, <2>1, StepSettles
    <3> QED BY <1>1, <3>1, <3>2, StillInRound
  <2>2. CASE q = p /\ (Begin(p) \/ End(p))
    BY <1>1, <2>2, BeginInRound, EndInRound
  <2>3. CASE q = p /\ NextPass(p)
    <3>1. agenda'[p] = Duties
      BY <2>3 DEF NextPass, TypeOK
    <3>2. \A j \in Range(Duties) : j.kind = "duty"
      BY EachTenantTypes DEF Duties
    <3>3. \A t \in Tenants : ToCome(p, t)'
      BY <3>1, DutyOfEach DEF ToCome
    <3> QED BY <2>3, <3>1, <3>2, <3>3 DEF InRound
  <2>4. CASE q = p /\ (Start(p) \/ NextPhase(p))
    <3>1. phase'[p] # "duty"
      BY <2>4 DEF Start, NextPhase, TypeOK
    <3> QED BY <2>4, <3>1 DEF InRound
  <2>5. CASE q = p /\ (Save(p) \/ Torn(p) \/ Abort(p))
    <3>1. pc'[p] = "idle"
      BY <2>5 DEF Save, Torn, Abort, TypeOK
    <3> QED BY <2>5, <3>1 DEF InRound
  <2> QED BY <1>2, <2>1, <2>2, <2>3, <2>4, <2>5 DEF Step, Moves
<1>3. CASE (\E u \in Tenants : Arrive(u)) \/ Minute \/ UNCHANGED vars
  <2>1. UNCHANGED process
    BY <1>3 DEF Arrive, Minute, vars
  <2>2. \A t \in Tenants : Settled(q, t)
    BY <1>3, OutsideSettles
  <2> QED BY <1>1, <2>1, <2>2, StillInRound DEF process
<1> QED BY <1>2, <1>3 DEF Next

LEMMA DrainedStep == TypeOK /\ AtWork /\ Rounds /\ Drained /\ [Next]_vars => Drained'
<1> SUFFICES ASSUME TypeOK, AtWork, Rounds, Drained, [Next]_vars, NEW q \in Procs,
                    pc'[q] # "idle", phase'[q] \in {"personal", "impulse"}, pass'[q] < MaxPasses,
                    NEW t \in Tenants, waiting'[t] > 0
             PROVE  t \in excused'[q]
  BY DEF Drained
<1>1. ASSUME Settled(q, t), pc[q] # "idle", UNCHANGED <<phase[q], pass[q]>> PROVE t \in excused'[q]
  BY <1>1 DEF Drained, Settled
<1>2. ASSUME NEW p \in Procs, Step(p) \/ Abort(p) \/ Torn(p) PROVE t \in excused'[q]
  <2>1. CASE q # p
    BY <1>1, <1>2, <2>1, OthersStay, StepSettles
  <2>2. CASE q = p /\ (Begin(p) \/ End(p))
    <3>1. pc[p] # "idle" /\ phase' = phase /\ pass' = pass
      BY <2>2, AgendaDrops
    <3>2. Settled(q, t)
      BY <2>2, <3>1, BeginSettles, EndSettles
    <3> QED BY <1>1, <2>2, <3>1, <3>2
  <2>3. CASE q = p /\ NextPhase(p)
    <3>1. pc[p] # "idle" /\ agenda[p] = <<>> /\ UNCHANGED <<pass, waiting, excused>>
      BY <2>3 DEF NextPhase, tasks, history
    <3>2. CASE phase[p] = "personal"
      BY <2>3, <3>1, <3>2 DEF Drained
    <3>3. CASE phase[p] = "duty"
      <4>1. ~progressed[p]
        BY <2>3, <3>1, <3>3 DEF NextPhase, Again
      <4>2. ~ToCome(p, t)
        BY <3>1 DEF ToCome, Range
      <4>3. InRound(p)
        BY DEF Rounds
      <4> QED BY <2>3, <3>1, <3>3, <4>1, <4>2, <4>3 DEF InRound
    <3> QED BY <2>3, <3>2, <3>3 DEF NextPhase
  <2>4. CASE q = p /\ (Start(p) \/ NextPass(p))
    <3>1. phase'[p] \in {"nightly", "duty"}
      BY <2>4 DEF Start, NextPass, TypeOK
    <3> QED BY <2>4, <3>1
  <2>5. CASE q = p /\ (Save(p) \/ Torn(p) \/ Abort(p))
    <3>1. pc'[p] = "idle"
      BY <2>5 DEF Save, Torn, Abort, TypeOK
    <3> QED BY <2>5, <3>1
  <2> QED BY <1>2, <2>1, <2>2, <2>3, <2>4, <2>5 DEF Step, Moves
<1>3. CASE (\E u \in Tenants : Arrive(u)) \/ Minute \/ UNCHANGED vars
  <2>1. UNCHANGED process
    BY <1>3 DEF Arrive, Minute, vars
  <2> QED BY <1>1, <1>3, <2>1, OutsideSettles DEF process
<1> QED BY <1>2, <1>3 DEF Next

-----------------------------------------------------------------------------
(* Theorems *)

LEMMA InitHolds == Init => TypeOK /\ AtWork /\ MarksTrue /\ OnTop /\ Counted /\ Passed /\ Rounds /\ Drained
<1> SUFFICES ASSUME Init PROVE TypeOK /\ AtWork /\ MarksTrue /\ OnTop /\ Counted /\ Passed /\ Rounds /\ Drained
  OBVIOUS
<1>1. \A p \in Procs : pc[p] = "idle" /\ mem[p] = Blank
  BY DEF Init
<1>2. disk = Blank /\ faults = 0 /\ \A k \in Keys : runs[k] = 0
  BY DEF Init
<1>3. AtWork /\ OnTop /\ Passed /\ Rounds /\ Drained
  BY <1>1 DEF AtWork, OnTop, Passed, Rounds, InRound, Drained
<1>4. MarksTrue
  BY <1>1, <1>2 DEF MarksTrue, Blank
<1>5. Counted
  BY <1>2 DEF Counted
<1> QED BY <1>3, <1>4, <1>5, TypeInit

\* Every tick that runs is at a point of the loops the code has, on a job of its
\* list, with what it may hold; and a job that runs was due, and is not marked yet.
THEOREM TypeCorrect == Spec => [](TypeOK /\ AtWork)
<1>1. Init => TypeOK /\ AtWork
  BY InitHolds
<1>2. TypeOK /\ AtWork /\ [Next]_vars => (TypeOK /\ AtWork)'
  BY TypeStep, WorkStep
<1> QED BY <1>1, <1>2, PTL DEF Spec

\* Duty passes that end before their limit leave no tenant with an open task but those
\* who got it since the last pass began from outside or from a run that ended in error,
\* or whose own run did: whatever a run that succeeded opened has been taken up.
THEOREM BatonsTaken == Spec => []Drained
<1> DEFINE Inv == TypeOK /\ AtWork /\ Rounds /\ Drained
<1>1. Init => Inv
  BY InitHolds
<1>2. Inv /\ [Next]_vars => Inv'
  BY TypeStep, WorkStep, RoundsStep, DrainedStep
<1>3. Inv => Drained
  OBVIOUS
<1> QED BY <1>1, <1>2, <1>3, PTL DEF Spec

\* The day and the minute of a time in the grace of a slot of the same day.
LEMMA DueInGrace ==
  ASSUME NEW now \in 0..Horizon, NEW k \in Keys, k.day = now \div DayLength,
         k.day * DayLength + k.job.slot <= now, now <= k.day * DayLength + k.job.slot + Grace
  PROVE  k = Key(k.job, now) /\ k.job.slot # None /\ Due(k.job.slot, now)
         /\ k.job \in Range(Dreams) \cup Range(Personals)
<1>1. k.job \in Slots /\ k = [job |-> k.job, day |-> k.day]
  BY DEF Keys
<1>2. k.job \in Range(Dreams) \cup Range(Personals) /\ k.job.slot # None
  BY <1>1 DEF Slots
<1>3. k.job.slot \in Nat
  BY <1>2, DreamTypes, PersonalTypes, OrchestratorAssumption
<1> DEFINE D == now \div DayLength
           M == now % DayLength
           S == k.job.slot
           T == DayLength * D
<1>4. D \in Nat /\ M \in Nat /\ now = DayLength * D + M /\ DayLength \in Nat /\ Grace \in Nat
  <2>1. now \in Nat /\ DayLength \in Nat /\ DayLength > 0 /\ Grace \in Nat
    BY OrchestratorAssumption
  <2>2. D \in Nat /\ M \in 0..(DayLength - 1) /\ now = DayLength * D + M
    BY <2>1, Division
  <2> HIDE DEF D, M
  <2> QED BY <2>1, <2>2
<1>5. D * DayLength + S <= now /\ now <= D * DayLength + S + Grace
  OBVIOUS
<1> HIDE DEF D, M, S
<1>6. T \in Nat /\ D * DayLength = T
  BY <1>4
<1> HIDE DEF T
<1>7. now = T + M
  BY <1>4 DEF T
<1>8. S \in Nat
  BY <1>3 DEF S
<1>9. S <= M /\ M <= S + Grace
  BY <1>4, <1>5, <1>6, <1>7, <1>8
<1> QED BY <1>1, <1>2, <1>9 DEF Key, Due, M, S

LEMMA GraceStep ==
  ASSUME TypeOK, AtWork, MarksTrue, Passed, [Next]_vars,
         NEW q \in Procs, pc[q] # "idle", pc'[q] = "idle", faults' = faults,
         NEW k \in Keys, k.day = at[q] \div DayLength,
         k.day * DayLength + k.job.slot <= at[q], at[q] <= k.day * DayLength + k.job.slot + Grace
  PROVE  runs[k] > 0
<1>1. faults \in Int /\ at[q] \in 0..Horizon
  BY DEF TypeOK
<1>2. PICK p \in Procs : Step(p) \/ Abort(p) \/ Torn(p)
  <2>1. ~UNCHANGED process
    BY DEF process
  <2> QED BY <2>1 DEF Next, Arrive, Minute, vars
<1>3. p = q
  BY <1>2, OthersStay
<1>4. faults' # faults + 1
  BY <1>1
<1>5. Save(q)
  <2>1. ~Abort(q) /\ ~Torn(q)
    BY <1>4 DEF Abort, Torn
  <2>2. ~Start(q)
    BY DEF Start
  <2>3. ~Begin(q) /\ ~End(q) /\ ~NextPass(q) /\ ~NextPhase(q)
    <3>1. Begin(q) => pc'[q] # "idle"
      <4> SUFFICES ASSUME Begin(q) PROVE pc'[q] # "idle"
        OBVIOUS
      <4>1. Head(agenda[q]).t \in Tenants
        BY JobInHand DEF Begin
      <4>2. PICK skip \in BOOLEAN : pc' = [pc EXCEPT ![q] = IF skip THEN "next" ELSE "busy"]
        BY <4>1, BeginCases
      <4> QED BY <4>2 DEF TypeOK
    <3> QED BY <3>1 DEF End, NextPass, NextPhase, TypeOK
  <2> QED BY <1>2, <1>3, <2>1, <2>2, <2>3 DEF Step, Moves
<1>6. phase[q] = "impulse" /\ ~(phase[q] = "nightly") /\ ~(phase[q] = "personal")
  BY <1>5 DEF Save
<1>7. k = Key(k.job, at[q]) /\ k.job.slot # None /\ Due(k.job.slot, at[q])
      /\ k.job \in Range(Dreams) \cup Range(Personals)
  BY <1>1, DueInGrace
<1>8. Visited(q, Dreams, phase[q] = "nightly") /\ Visited(q, Personals, phase[q] = "personal")
  BY <1>6 DEF Passed
<1>9. Key(k.job, at[q]) \in mem[q].marks
  BY <1>6, <1>7, <1>8 DEF Visited
<1> QED BY <1>7, <1>9 DEF MarksTrue

\* A tick that saves has run every slot of its day that came up in the grace before
\* it started, however many processes there are.
THEOREM GraceKept == Spec => GraceHonoured
<1> DEFINE Inv == TypeOK /\ AtWork /\ MarksTrue /\ Passed
<1>1. Init => Inv
  BY InitHolds
<1>2. Inv /\ [Next]_vars => Inv'
  BY TypeStep, WorkStep, MarksStep, PassedStep
<1>3. Inv /\ [Next]_vars =>
        [\A p \in Procs : pc[p] # "idle" /\ pc'[p] = "idle" /\ faults' = faults =>
           \A k \in Keys : LET time == k.day * DayLength + k.job.slot
                           IN k.day = at[p] \div DayLength /\ time <= at[p] /\ at[p] <= time + Grace
                                => runs[k] > 0]_vars
  BY GraceStep
<1> QED BY <1>1, <1>2, <1>3, PTL DEF Spec, GraceHonoured

\* One process at a time keeps every slot: it repeats a wake only after a tick that
\* threw or was killed, and leaves none out that came up in the grace.
THEOREM SlotsAreKept == ASSUME Alone PROVE Spec => SlotsKept
<1> DEFINE Inv == TypeOK /\ AtWork /\ OnTop /\ Counted
<1>1. Init => Inv
  BY InitHolds
<1>2. Inv /\ [Next]_vars => Inv'
  BY TypeStep, WorkStep, OnTopStep, CountedStep
<1>3. Inv => SlotRepeats
  <2> SUFFICES ASSUME Inv, NEW k \in Keys PROVE runs[k] <= 1 + faults
    BY DEF SlotRepeats
  <2>1. runs[k] \in Nat /\ faults \in Nat
    BY OrchestratorAssumption DEF TypeOK
  <2> QED BY <2>1 DEF Counted
<1> QED BY <1>1, <1>2, <1>3, GraceKept, PTL DEF Spec, SlotsKept

LEMMA LedgerStep ==
  ASSUME Alone, TypeOK, AtWork, MarksTrue, OnTop, [Next]_vars
  PROVE  [Ledger!Next]_<<runs, disk.marks>>
<1>1. ASSUME NEW p \in Procs, Step(p) \/ Abort(p) \/ Torn(p)
      PROVE  Ledger!Next \/ UNCHANGED <<runs, disk.marks>>
  <2>1. CASE Loads(p) \/ Leaves(p)
    BY <2>1 DEF Loads, Leaves
  <2>2. CASE disk' = disk /\ pc[p] # "idle" /\ \E k \in Keys : Ran(p, k)
    <3>1. PICK k \in Keys : Ran(p, k)
      BY <2>2
    <3>2. k \notin disk.marks
      BY <2>2, <3>1 DEF Ran, OnTop
    <3>3. Ledger!Wake(k)
      BY <2>2, <3>1, <3>2 DEF Ran, Ledger!Wake
    <3> QED BY <3>3 DEF Ledger!Next
  <2>3. CASE Saves(p)
    <3>1. disk' = mem[p] /\ runs' = runs /\ pc[p] # "idle"
      BY <2>3 DEF Saves
    <3>2. mem[p].marks \in SUBSET Keys
      BY DEF TypeOK, State
    <3>3. \A k \in mem[p].marks : runs[k] > 0
      BY <3>2 DEF MarksTrue
    <3>4. disk'.marks = disk.marks \cup mem[p].marks
      BY <3>1 DEF OnTop
    <3>5. Ledger!Record(mem[p].marks)
      BY <3>1, <3>3, <3>4 DEF Ledger!Record
    <3> QED BY <3>2, <3>5 DEF Ledger!Next
  <2>4. CASE Loses(p)
    BY <2>4 DEF Loses, Ledger!Lose, Ledger!Next
  <2>5. CASE Breaks(p) /\ runs' = runs
    BY <2>5 DEF Breaks
  <2> QED BY <1>1, <2>1, <2>2, <2>3, <2>4, <2>5, Bookkeeping DEF Notes, Breaks
<1>2. UNCHANGED vars \/ UNCHANGED <<process, disk, runs, faults>> => UNCHANGED <<runs, disk.marks>>
  BY DEF vars, history
<1> QED BY <1>1, <1>2, OutsideStays DEF Next

\* With one process at a time, the bookkeeping is the ledger of slots: a wake runs
\* while its slot is not recorded, only wakes that ran are recorded, a record stays
\* until the whole file is lost.
THEOREM KeepsTheLedger == ASSUME Alone PROVE Spec => ImplementsLedger
<1> DEFINE Inv == TypeOK /\ AtWork /\ MarksTrue /\ OnTop
<1>1. Init => Inv /\ Ledger!Init
  <2>1. Init => Ledger!Init
    BY DEF Init, Ledger!Init, Blank
  <2> QED BY <2>1, InitHolds
<1>2. Inv /\ [Next]_vars => Inv'
  BY TypeStep, WorkStep, MarksStep, OnTopStep
<1>3. Inv /\ [Next]_vars => [Ledger!Next]_<<runs, disk.marks>>
  BY LedgerStep
<1> QED BY <1>1, <1>2, <1>3, PTL DEF Spec, ImplementsLedger, Ledger!Spec
-----------------------------------------------------------------------------
(* Requests for the missing embeddings *)

FillRows == 1..Filled
RequestRow == [pc : {"idle", "fetch", "embed", "write", "count", "answered", "failed"}, limit : Nat, chunk : Nat,
               processed : Nat, fetched : Nat, rows : SUBSET FillRows, good : SUBSET FillRows,
               deadIds : SUBSET FillRows, backfilledIds : SUBSET FillRows]

\* The rows a request has tried: settled ones, and those in its hands once they were sent.
Tried(r) ==
  requests[r].deadIds \cup requests[r].backfilledIds
    \cup (IF requests[r].pc \in {"write", "failed"} THEN requests[r].rows ELSE {})

\* What a request has in hand is new to it, and within what its limit leaves.
InHand(q) ==
  /\ q.good \subseteq q.rows /\ q.rows \cap (q.deadIds \cup q.backfilledIds) = {} /\ q.backfilledIds \cap q.deadIds = {}
  /\ Cardinality(q.rows) <= q.fetched /\ q.processed + q.fetched <= q.limit
  /\ Cardinality(q.backfilledIds) + Cardinality(q.deadIds) <= q.processed
  /\ q.pc \in {"idle", "fetch", "count"} => q.rows = {} /\ q.good = {} /\ q.fetched = 0
  /\ q.pc = "idle" => q.deadIds = {} /\ q.backfilledIds = {}

RequestKeeps(r) ==
  /\ InHand(requests[r]) /\ requests[r].backfilledIds \subseteq embedded
  /\ \A i \in FillRows : tried[r][i] <= 1 /\ (tried[r][i] = 1 => i \in Tried(r))

FillTyped ==
  /\ born \in 0..Filled /\ embedded \in SUBSET FillRows
  /\ requests \in [FillRequests -> RequestRow] /\ tried \in [FillRequests -> [FillRows -> Nat]]
  /\ night \in [pc : {"idle", "embed", "write"}, rows : SUBSET FillRows, good : SUBSET FillRows]

FillInv == FillTyped /\ \A r \in FillRequests : RequestKeeps(r)

LEMMA FillCounts == \A S : Shared!Cardinality(S) = Cardinality(S)
BY DEF Shared!Cardinality, Cardinality

LEMMA FillFinite ==
  ASSUME NEW S \in SUBSET FillRows
  PROVE  IsFiniteSet(S) /\ Cardinality(S) \in Nat
<1>1. Filled \in Nat
  BY FillAssumption DEF Shared!BackfillAssumption
<1>2. IsFiniteSet(1..Filled)
  BY <1>1, FS_Interval
<1> QED BY <1>2, FS_Subset, FS_CardinalityType DEF FillRows

\* A nonempty set of rows has a last one.
LEMMA LastRow ==
  ASSUME NEW S \in SUBSET FillRows, S # {}
  PROVE  \E m \in S : \A x \in S : x <= m
<1> DEFINE after == {n \in Nat : Filled - n \in S}
<1>0. Filled \in Nat /\ \A x \in S : x \in Nat /\ x <= Filled
  BY FillAssumption DEF Shared!BackfillAssumption, FillRows
<1>1. after \subseteq Nat /\ after # {}
  <2>1. PICK x \in S : TRUE
    OBVIOUS
  <2>2. Filled - x \in Nat /\ Filled - (Filled - x) = x
    BY <1>0
  <2> QED BY <2>2
<1> HIDE DEF after
<1>2. PICK n \in after : \A m \in after : ~(<<m, n>> \in OpToRel(<, Nat))
  BY <1>1, NatLessThanWellFounded, WFMin, Zenon
<1>3. n \in Nat /\ Filled - n \in S
  BY <1>2 DEF after
<1>4. ASSUME NEW x \in S PROVE x <= Filled - n
  <2>1. Filled - x \in Nat /\ Filled - (Filled - x) = x
    BY <1>0
  <2>2. Filled - x \in after
    BY <2>1 DEF after
  <2>3. ~(Filled - x < n)
    <3>1. ~(<<Filled - x, n>> \in {ss \in Nat \X Nat : ss[1] < ss[2]})
      BY <1>2, <2>2, Zenon DEF OpToRel
    <3> QED BY <1>3, <2>1, <3>1
  <2> QED BY <1>0, <1>3, <2>3
<1> QED BY <1>3, <1>4

\* A query returns rows without an embedding, and no more than it was asked for.
LEMMA QueryWithinLimit ==
  ASSUME FillTyped, NEW n \in Nat
  PROVE  /\ Shared!queryUnembedded(n) \in SUBSET (FillRows \ embedded)
         /\ Cardinality(Shared!queryUnembedded(n)) <= n
<1> DEFINE Q == Shared!queryUnembedded(n)
           U == Shared!Unembedded
<1>1. U \in SUBSET (FillRows \ embedded)
  BY FillAssumption DEF FillTyped, FillRows, Shared!Unembedded, Shared!BackfillAssumption
<1>2. Q \in SUBSET U /\ \A i \in Q : Cardinality({j \in U : j <= i}) <= n
  BY FillCounts DEF Shared!queryUnembedded
<1> HIDE DEF Q, U
<1>3. CASE Q = {}
  BY <1>1, <1>2, <1>3, FS_EmptySet DEF Q
<1>4. CASE Q # {}
  <2>1. PICK m \in Q : \A i \in Q : i <= m
    BY <1>1, <1>2, <1>4, LastRow
  <2>2. Q \subseteq {j \in U : j <= m} /\ {j \in U : j <= m} \in SUBSET FillRows
    BY <1>1, <1>2, <2>1
  <2>3. Cardinality(Q) <= Cardinality({j \in U : j <= m}) /\ Cardinality(Q) \in Nat /\ Cardinality({j \in U : j <= m}) \in Nat
    BY <2>2, FillFinite, FS_Subset
  <2>4. Cardinality({j \in U : j <= m}) <= n
    BY <1>2, <2>1
  <2>5. Cardinality(Q) <= n
    BY <2>3, <2>4
  <2> QED BY <1>1, <1>2, <2>5 DEF Q
<1> QED BY <1>3, <1>4

LEMMA FillInit == Shared!Init => FillInv
<1> SUFFICES ASSUME Shared!Init PROVE FillInv
  OBVIOUS
<1>1. /\ born = FilledFirst /\ embedded \in SUBSET ((1..FilledFirst) \ (FilledDead \cup FilledWarped))
      /\ requests = [r \in FillRequests |-> Shared!Idle] /\ tried = [r \in FillRequests |-> [i \in 1..Filled |-> 0]]
      /\ night = [pc |-> "idle", rows |-> {}, good |-> {}]
  BY DEF Shared!Init, Shared!Rows
<1>2. Filled \in Nat /\ FilledFirst \in 0..Filled
  BY FillAssumption DEF Shared!BackfillAssumption
<1>3. Shared!Idle \in RequestRow
  BY DEF Shared!Idle, RequestRow
<1>4. FillTyped
  BY <1>1, <1>2, <1>3 DEF FillTyped, FillRows
<1>5. InHand(Shared!Idle) /\ Shared!Idle.backfilledIds = {}
  BY FS_EmptySet DEF InHand, Shared!Idle
<1>6. \A r \in FillRequests : requests[r] = Shared!Idle /\ \A i \in FillRows : tried[r][i] = 0
  BY <1>1 DEF FillRows
<1> QED BY <1>4, <1>5, <1>6 DEF FillInv, RequestKeeps

\* One request's step: its new row keeps, and the others' stay.
LEMMA RequestMoves ==
  ASSUME FillInv, NEW r \in FillRequests, NEW q \in RequestRow, requests' = [requests EXCEPT ![r] = q],
         born' = born, night' = night, embedded' \in SUBSET FillRows, embedded \subseteq embedded',
         InHand(q), q.backfilledIds \subseteq embedded',
         tried' \in [FillRequests -> [FillRows -> Nat]], \A s \in FillRequests \ {r} : tried'[s] = tried[s],
         \A i \in FillRows : /\ tried'[r][i] <= 1
                             /\ tried'[r][i] = 1 => i \in q.deadIds \cup q.backfilledIds
                                                       \cup (IF q.pc \in {"write", "failed"} THEN q.rows ELSE {})
  PROVE  FillInv'
<1>1. /\ requests' \in [FillRequests -> RequestRow] /\ requests'[r] = q
      /\ \A s \in FillRequests \ {r} : requests'[s] = requests[s]
  BY DEF FillInv, FillTyped
<1>2. FillTyped'
  BY <1>1 DEF FillInv, FillTyped, FillRows, RequestRow
<1>3. RequestKeeps(r)'
  BY <1>1 DEF RequestKeeps, InHand, Tried, FillRows
<1>4. ASSUME NEW s \in FillRequests \ {r} PROVE RequestKeeps(s)'
  <2>1. requests'[s] = requests[s] /\ tried'[s] = tried[s] /\ RequestKeeps(s)
    BY <1>1 DEF FillInv
  <2> QED BY <2>1 DEF RequestKeeps, InHand, Tried, FillRows
<1> QED BY <1>2, <1>3, <1>4 DEF FillInv

\* What others do: rows are created, and embedded.
LEMMA OthersFill ==
  ASSUME FillInv, requests' = requests, tried' = tried, born' \in 0..Filled,
         embedded' \in SUBSET FillRows, embedded \subseteq embedded',
         night' \in [pc : {"idle", "embed", "write"}, rows : SUBSET FillRows, good : SUBSET FillRows]
  PROVE  FillInv'
<1>1. FillTyped'
  BY DEF FillInv, FillTyped, FillRows, RequestRow
<1>2. ASSUME NEW r \in FillRequests PROVE RequestKeeps(r)'
  <2>1. RequestKeeps(r)
    BY DEF FillInv
  <2> QED BY <2>1 DEF RequestKeeps, InHand, Tried, FillRows
<1> QED BY <1>1, <1>2 DEF FillInv

LEMMA BeginFills == ASSUME FillInv, NEW r \in FillRequests, Shared!Begin(r) PROVE FillInv'
<1>1. PICK l \in FillLimits, c \in FillChunks :
        requests' = [requests EXCEPT ![r] = [Shared!Idle EXCEPT !.pc = "fetch", !.limit = l, !.chunk = c]]
  BY DEF Shared!Begin
<1>2. l \in Nat /\ c \in Nat
  BY FillAssumption DEF Shared!BackfillAssumption
<1>3. PICK q : q = [Shared!Idle EXCEPT !.pc = "fetch", !.limit = l, !.chunk = c]
  OBVIOUS
<1>4. /\ q \in RequestRow /\ q.rows = {} /\ q.good = {} /\ q.deadIds = {} /\ q.backfilledIds = {}
      /\ q.processed = 0 /\ q.fetched = 0 /\ q.pc = "fetch" /\ q.limit = l
  BY <1>2, <1>3 DEF RequestRow, Shared!Idle
<1>5. InHand(q)
  BY <1>2, <1>4, FS_EmptySet DEF InHand
<1>6. \A i \in FillRows : tried[r][i] <= 1 /\ tried[r][i] # 1
  <2>1. requests[r].pc = "idle" /\ RequestKeeps(r)
    BY DEF FillInv, Shared!Begin
  <2> QED BY <2>1 DEF RequestKeeps, InHand, Tried
<1>7. /\ embedded' = embedded /\ born' = born /\ night' = night /\ tried' = tried
      /\ embedded \in SUBSET FillRows /\ tried \in [FillRequests -> [FillRows -> Nat]]
  BY DEF Shared!Begin, FillInv, FillTyped
<1> QED BY <1>1, <1>3, <1>4, <1>5, <1>6, <1>7, RequestMoves

\* What a batch fetches is new to the request and fits its limit.
LEMMA FetchFills ==
  ASSUME FillInv, NEW r \in FillRequests, requests[r].pc = "fetch", NEW found \in SUBSET (FillRows \ embedded),
         found = {} \/ Cardinality(found) <= Shared!BatchLimit(requests[r]),
         requests' = [requests EXCEPT ![r] = Shared!Fetched(@, found)],
         born' = born, embedded' = embedded, night' = night, tried' = tried
  PROVE  FillInv'
<1>1. PICK p : p = requests[r]
  OBVIOUS
<1>2. /\ p \in RequestRow /\ InHand(p) /\ p.backfilledIds \subseteq embedded /\ p.pc = "fetch"
      /\ \A i \in FillRows : tried[r][i] <= 1 /\ (tried[r][i] = 1 => i \in p.deadIds \cup p.backfilledIds)
  BY <1>1 DEF FillInv, FillTyped, RequestKeeps, Tried
<1>3. requests' = [requests EXCEPT ![r] = Shared!Fetched(p, found)]
  BY <1>1
<1>4. /\ embedded \in SUBSET FillRows /\ tried \in [FillRequests -> [FillRows -> Nat]]
  BY DEF FillInv, FillTyped
<1>5. CASE p.processed >= p.limit \/ found \subseteq p.deadIds
  <2>1. PICK q : q = [p EXCEPT !.pc = "count", !.rows = {}]
    OBVIOUS
  <2>2. /\ q \in RequestRow /\ InHand(q) /\ q.backfilledIds = p.backfilledIds /\ q.deadIds = p.deadIds
        /\ Shared!Fetched(p, found) = q
    BY <1>2, <1>5, <2>1 DEF RequestRow, InHand, Shared!Fetched
  <2> QED BY <1>2, <1>3, <1>4, <2>2, RequestMoves
<1>6. CASE ~(p.processed >= p.limit \/ found \subseteq p.deadIds)
  <2>1. Cardinality(found) \in Nat /\ Cardinality(found \ p.deadIds) \in Nat /\ Cardinality(found \ p.deadIds) <= Cardinality(found)
    <3>1. IsFiniteSet(found) /\ found \in SUBSET FillRows /\ found \ p.deadIds \in SUBSET FillRows
      BY FillFinite
    <3> QED BY <3>1, FillFinite, FS_Subset
  <2>2. PICK n \in Nat : n = Cardinality(found)
    BY <2>1
  <2>3. PICK q : q = [p EXCEPT !.pc = "embed", !.rows = found \ p.deadIds, !.fetched = n]
    OBVIOUS
  <2>4. Shared!Fetched(p, found) = q
    BY <1>6, <2>2, <2>3, FillCounts DEF Shared!Fetched
  <2>5. q \in RequestRow
    BY <1>2, <2>3 DEF RequestRow
  <2>6. /\ q.rows = found \ p.deadIds /\ q.fetched = n /\ q.processed = p.processed /\ q.limit = p.limit /\ q.good = {}
        /\ q.pc = "embed" /\ q.deadIds = p.deadIds /\ q.backfilledIds = p.backfilledIds
    BY <1>2, <2>3 DEF RequestRow, InHand
  <2>7. p.limit \in Nat /\ p.processed \in Nat /\ p.chunk \in Nat /\ p.processed < p.limit
    BY <1>2, <1>6 DEF RequestRow
  <2>8. n <= p.limit - p.processed
    BY <1>1, <1>6, <2>2, <2>7 DEF Shared!BatchLimit
  <2>9. InHand(q)
    <3>1. q.rows \cap (q.deadIds \cup q.backfilledIds) = {}
      BY <1>2, <2>6
    <3>2. Cardinality(q.rows) <= q.fetched /\ q.processed + q.fetched <= q.limit
      BY <2>1, <2>2, <2>6, <2>7, <2>8
    <3> QED BY <1>2, <2>6, <3>1, <3>2 DEF InHand
  <2> QED BY <1>2, <1>3, <1>4, <2>4, <2>5, <2>6, <2>9, RequestMoves
<1> QED BY <1>5, <1>6

\* Sending a batch: its rows are tried for the first time.
LEMMA EmbedFills == ASSUME FillInv, NEW r \in FillRequests, Shared!Embed(r) PROVE FillInv'
<1>1. PICK p : p = requests[r]
  OBVIOUS
<1>2. /\ p \in RequestRow /\ InHand(p) /\ p.backfilledIds \subseteq embedded /\ p.pc = "embed"
      /\ \A i \in FillRows : tried[r][i] <= 1 /\ (tried[r][i] = 1 => i \in p.deadIds \cup p.backfilledIds)
  BY <1>1 DEF FillInv, FillTyped, RequestKeeps, Tried, Shared!Embed
<1>3. PICK away \in SUBSET p.rows :
        requests' = [requests EXCEPT ![r].pc = "write",
                        ![r].good = Shared!embedBackfillBatch(p.rows, Shared!Failing(p.rows, away))]
  BY <1>1 DEF Shared!Embed
<1>4. PICK good : good = Shared!embedBackfillBatch(p.rows, Shared!Failing(p.rows, away))
  OBVIOUS
<1>5. good \subseteq p.rows
  BY <1>4 DEF Shared!embedBackfillBatch
<1>6. PICK q : q = [p EXCEPT !.pc = "write", !.good = good]
  OBVIOUS
<1>7. requests' = [requests EXCEPT ![r] = q]
  BY <1>1, <1>2, <1>3, <1>4, <1>6 DEF FillInv, FillTyped, RequestRow
<1>8. /\ q \in RequestRow /\ q.pc = "write" /\ q.rows = p.rows /\ q.good = good
      /\ q.deadIds = p.deadIds /\ q.backfilledIds = p.backfilledIds
      /\ q.fetched = p.fetched /\ q.processed = p.processed /\ q.limit = p.limit
  BY <1>2, <1>5, <1>6 DEF RequestRow
<1>9. InHand(q)
  BY <1>2, <1>5, <1>8 DEF InHand
<1>10. PICK mine : mine = [i \in FillRows |-> IF i \in p.rows THEN tried[r][i] + 1 ELSE tried[r][i]]
  OBVIOUS
<1>11. tried' = [tried EXCEPT ![r] = mine]
  BY <1>1, <1>10 DEF Shared!Embed, Shared!Rows, FillRows, FillInv, FillTyped
<1>12. tried \in [FillRequests -> [FillRows -> Nat]] /\ tried[r] \in [FillRows -> Nat] /\ p.rows \in SUBSET FillRows
  BY <1>2 DEF FillInv, FillTyped, RequestRow
<1>13. ASSUME NEW i \in FillRows
       PROVE  mine[i] \in Nat /\ mine[i] <= 1 /\ (mine[i] = 1 => i \in q.deadIds \cup q.backfilledIds \cup q.rows)
  <2>1. PICK n \in Nat : n = tried[r][i]
    BY <1>12
  <2>2. CASE i \in p.rows
    <3>1. n <= 1 /\ n # 1
      BY <1>2, <2>1, <2>2 DEF InHand
    <3>2. mine[i] = n + 1
      BY <1>10, <2>1, <2>2
    <3> QED BY <1>8, <2>2, <3>1, <3>2
  <2>3. CASE i \notin p.rows
    BY <1>2, <1>8, <1>10, <2>1, <2>3
  <2> QED BY <2>2, <2>3
<1>14. mine \in [FillRows -> Nat]
  BY <1>10, <1>13
<1>15. tried' \in [FillRequests -> [FillRows -> Nat]] /\ tried'[r] = mine /\ \A s \in FillRequests \ {r} : tried'[s] = tried[s]
  BY <1>11, <1>12, <1>14
<1>16. embedded' = embedded /\ born' = born /\ night' = night /\ embedded \in SUBSET FillRows
  BY DEF Shared!Embed, FillInv, FillTyped
<1> QED BY <1>2, <1>7, <1>8, <1>9, <1>13, <1>15, <1>16, RequestMoves

\* Two sets of rows hold no more together than one by one.
LEMMA TogetherAtMost ==
  ASSUME NEW A \in SUBSET FillRows, NEW B \in SUBSET FillRows
  PROVE  Cardinality(A \cup B) <= Cardinality(A) + Cardinality(B)
<1>1. /\ IsFiniteSet(A) /\ IsFiniteSet(B) /\ Cardinality(A) \in Nat /\ Cardinality(B) \in Nat
      /\ Cardinality(A \cap B) \in Nat /\ Cardinality(A \cup B) \in Nat
  <2>1. A \cap B \in SUBSET FillRows /\ A \cup B \in SUBSET FillRows
    OBVIOUS
  <2> QED BY <2>1, FillFinite
<1>2. Cardinality(A \cup B) = Cardinality(A) + Cardinality(B) - Cardinality(A \cap B)
  BY <1>1, FS_Union
<1> QED BY <1>1, <1>2

\* A part of a set of rows and the rest of it.
LEMMA PartAndRest ==
  ASSUME NEW S \in SUBSET FillRows, NEW part_ \in SUBSET S
  PROVE  Cardinality(part_) + Cardinality(S \ part_) = Cardinality(S)
<1>1. IsFiniteSet(S) /\ part_ \in SUBSET FillRows /\ S \cap part_ = part_
  BY FillFinite
<1>2. Cardinality(S) \in Nat /\ Cardinality(part_) \in Nat /\ Cardinality(S \ part_) \in Nat
  <2>1. S \ part_ \in SUBSET FillRows
    OBVIOUS
  <2> QED BY <1>1, <2>1, FillFinite
<1>3. Cardinality(S \ part_) = Cardinality(S) - Cardinality(S \cap part_)
  BY <1>1, FS_Difference
<1>4. Cardinality(S \cap part_) = Cardinality(part_)
  BY <1>1
<1> QED BY <1>2, <1>3, <1>4

\* A batch that was written is settled: each of its rows is embedded or skipped.
LEMMA WriteFills == ASSUME FillInv, NEW r \in FillRequests, Shared!Write(r) PROVE FillInv'
<1>1. PICK p : p = requests[r]
  OBVIOUS
<1>2. /\ p \in RequestRow /\ InHand(p) /\ p.backfilledIds \subseteq embedded /\ p.pc = "write"
      /\ \A i \in FillRows : tried[r][i] <= 1 /\ (tried[r][i] = 1 => i \in p.deadIds \cup p.backfilledIds \cup p.rows)
  BY <1>1 DEF FillInv, FillTyped, RequestKeeps, Tried, Shared!Write
<1>3. /\ p.processed \in Nat /\ p.fetched \in Nat /\ p.limit \in Nat /\ p.rows \in SUBSET FillRows /\ p.good \in SUBSET p.rows
      /\ p.deadIds \in SUBSET FillRows /\ p.backfilledIds \in SUBSET FillRows /\ p.good \in SUBSET FillRows
  BY <1>2 DEF RequestRow, InHand
<1>4. p.processed + p.fetched \in Nat
  BY <1>3
<1>5. PICK n \in Nat : n = p.processed + p.fetched
  BY <1>4
<1>6. PICK q : q = [p EXCEPT !.pc = "fetch", !.processed = n, !.fetched = 0, !.rows = {}, !.good = {},
                             !.deadIds = p.deadIds \cup (p.rows \ p.good), !.backfilledIds = p.backfilledIds \cup p.good]
  OBVIOUS
<1>7. Shared!Written(p) = q
  BY <1>5, <1>6 DEF Shared!Written
<1>8. requests' = [requests EXCEPT ![r] = q]
  BY <1>1, <1>7 DEF Shared!Write
<1>9. /\ q \in RequestRow /\ q.pc = "fetch" /\ q.rows = {} /\ q.good = {} /\ q.fetched = 0 /\ q.processed = n /\ q.limit = p.limit
      /\ q.deadIds = p.deadIds \cup (p.rows \ p.good) /\ q.backfilledIds = p.backfilledIds \cup p.good
  BY <1>2, <1>3, <1>6 DEF RequestRow
<1>10. Cardinality(q.backfilledIds) + Cardinality(q.deadIds) <= n
  <2>1. p.rows \ p.good \in SUBSET FillRows /\ q.deadIds \in SUBSET FillRows /\ q.backfilledIds \in SUBSET FillRows
    BY <1>3, <1>9
  <2>2. /\ Cardinality(p.backfilledIds) \in Nat /\ Cardinality(p.deadIds) \in Nat /\ Cardinality(p.good) \in Nat
        /\ Cardinality(p.rows \ p.good) \in Nat /\ Cardinality(p.rows) \in Nat
        /\ Cardinality(q.backfilledIds) \in Nat /\ Cardinality(q.deadIds) \in Nat
    BY <1>3, <2>1, FillFinite
  <2>3. Cardinality(q.backfilledIds) <= Cardinality(p.backfilledIds) + Cardinality(p.good)
    BY <1>3, <1>9, TogetherAtMost
  <2>4. Cardinality(q.deadIds) <= Cardinality(p.deadIds) + Cardinality(p.rows \ p.good)
    BY <1>3, <1>9, <2>1, TogetherAtMost
  <2>5. Cardinality(p.good) + Cardinality(p.rows \ p.good) = Cardinality(p.rows)
    BY <1>3, PartAndRest
  <2>6. Cardinality(p.rows) <= p.fetched /\ Cardinality(p.backfilledIds) + Cardinality(p.deadIds) <= p.processed
    BY <1>2 DEF InHand
  <2> QED BY <1>3, <1>5, <2>2, <2>3, <2>4, <2>5, <2>6
<1>11. InHand(q)
  <2>1. q.backfilledIds \cap q.deadIds = {}
    BY <1>2, <1>3, <1>9 DEF InHand
  <2>2. Cardinality(q.rows) <= q.fetched /\ q.processed + q.fetched <= q.limit
    BY <1>2, <1>3, <1>5, <1>9, FS_EmptySet DEF InHand
  <2> QED BY <1>9, <1>10, <2>1, <2>2 DEF InHand
<1>12. /\ embedded' = embedded \cup p.good /\ born' = born /\ night' = night /\ tried' = tried
       /\ embedded \in SUBSET FillRows /\ tried \in [FillRequests -> [FillRows -> Nat]]
  BY <1>1 DEF Shared!Write, FillInv, FillTyped
<1>13. embedded' \in SUBSET FillRows /\ embedded \subseteq embedded' /\ q.backfilledIds \subseteq embedded'
  BY <1>2, <1>3, <1>9, <1>12
<1>14. \A i \in FillRows : tried[r][i] = 1 => i \in q.deadIds \cup q.backfilledIds
  BY <1>2, <1>9
<1> QED BY <1>2, <1>8, <1>9, <1>11, <1>12, <1>13, <1>14, RequestMoves

LEMMA EndFills == ASSUME FillInv, NEW r \in FillRequests, Shared!Throw(r) \/ Shared!Count(r) PROVE FillInv'
<1>1. PICK p : p = requests[r]
  OBVIOUS
<1>2. /\ p \in RequestRow /\ InHand(p) /\ p.backfilledIds \subseteq embedded
      /\ \A i \in FillRows : tried[r][i] <= 1 /\ (tried[r][i] = 1 => i \in Tried(r))
  BY <1>1 DEF FillInv, FillTyped, RequestKeeps
<1>3. PICK pc_ \in {"failed", "answered"} :
        /\ requests' = [requests EXCEPT ![r].pc = pc_] /\ p.pc \notin {"idle", "fetch", "embed"}
        /\ p.pc = "write" <=> pc_ = "failed"
  BY <1>1 DEF Shared!Throw, Shared!Count
<1>4. PICK q : q = [p EXCEPT !.pc = pc_]
  OBVIOUS
<1>5. requests' = [requests EXCEPT ![r] = q]
  BY <1>1, <1>3, <1>4
<1>6. /\ q \in RequestRow /\ q.pc = pc_ /\ q.rows = p.rows /\ q.good = p.good
      /\ q.deadIds = p.deadIds /\ q.backfilledIds = p.backfilledIds
      /\ q.fetched = p.fetched /\ q.processed = p.processed /\ q.limit = p.limit
  BY <1>2, <1>4 DEF RequestRow
<1>7. InHand(q)
  BY <1>2, <1>3, <1>6 DEF InHand
<1>8. /\ embedded' = embedded /\ born' = born /\ night' = night /\ tried' = tried
      /\ embedded \in SUBSET FillRows /\ tried \in [FillRequests -> [FillRows -> Nat]]
  BY DEF Shared!Throw, Shared!Count, FillInv, FillTyped
<1>9. \A i \in FillRows :
        tried[r][i] = 1 => i \in q.deadIds \cup q.backfilledIds \cup (IF q.pc \in {"write", "failed"} THEN q.rows ELSE {})
  <2>1. p.pc \in {"write", "failed"} => q.pc = "failed"
    BY <1>1, <1>3, <1>6 DEF Shared!Throw, Shared!Count
  <2> QED BY <1>1, <1>2, <1>6, <2>1 DEF Tried
<1> QED BY <1>2, <1>5, <1>6, <1>7, <1>8, <1>9, RequestMoves

\* A night embeds rows there are.
LEMMA NightFills == ASSUME FillInv, Shared!NightFetch \/ Shared!NightEmbed \/ Shared!NightWrite PROVE FillInv'
<1>0. /\ requests' = requests /\ tried' = tried /\ born' = born /\ born \in 0..Filled /\ embedded \in SUBSET FillRows
      /\ night \in [pc : {"idle", "embed", "write"}, rows : SUBSET FillRows, good : SUBSET FillRows]
  BY DEF Shared!NightFetch, Shared!NightEmbed, Shared!NightWrite, FillInv, FillTyped
<1>1. CASE Shared!NightFetch
  <2>1. Shared!queryUnembedded(FillNight) \in SUBSET FillRows
    BY FillAssumption, QueryWithinLimit DEF FillInv, Shared!BackfillAssumption
  <2> QED BY <1>0, <1>1, <2>1, OthersFill DEF Shared!NightFetch
<1>2. CASE Shared!NightEmbed
  <2>1. PICK away \in SUBSET night.rows :
          night' = [night EXCEPT !.pc = "write", !.good = Shared!embedBackfillBatch(night.rows, Shared!Failing(night.rows, away))]
    BY <1>2 DEF Shared!NightEmbed
  <2>2. Shared!embedBackfillBatch(night.rows, Shared!Failing(night.rows, away)) \in SUBSET FillRows
    BY <1>0 DEF Shared!embedBackfillBatch
  <2>3. night' \in [pc : {"idle", "embed", "write"}, rows : SUBSET FillRows, good : SUBSET FillRows]
    BY <1>0, <2>1, <2>2
  <2> QED BY <1>0, <1>2, <2>3, OthersFill DEF Shared!NightEmbed
<1>3. CASE Shared!NightWrite
  <2>1. night' = [pc |-> "idle", rows |-> {}, good |-> {}] /\ (embedded' = embedded \cup night.good \/ embedded' = embedded)
    BY <1>3 DEF Shared!NightWrite
  <2>2. embedded' \in SUBSET FillRows /\ embedded \subseteq embedded'
    BY <1>0, <2>1
  <2> QED BY <1>0, <2>1, <2>2, OthersFill
<1> QED BY <1>1, <1>2, <1>3

LEMMA FillStep == FillInv /\ [Shared!Next]_FillVars => FillInv'
<1> SUFFICES ASSUME FillInv, [Shared!Next]_FillVars PROVE FillInv'
  OBVIOUS
<1>0. /\ born \in 0..Filled /\ embedded \in SUBSET FillRows
      /\ night \in [pc : {"idle", "embed", "write"}, rows : SUBSET FillRows, good : SUBSET FillRows]
  BY DEF FillInv, FillTyped
<1>1. CASE UNCHANGED FillVars
  BY <1>0, <1>1, OthersFill DEF FillVars
<1>2. CASE Shared!Observe \/ \E i \in Shared!Rows : Shared!scheduleEmbed(i)
  <2>1. /\ requests' = requests /\ tried' = tried /\ night' = night /\ born' \in 0..Filled
        /\ embedded' \in SUBSET FillRows /\ embedded \subseteq embedded'
    <3>0. Filled \in Nat
      BY FillAssumption DEF Shared!BackfillAssumption
    <3>1. CASE Shared!Observe
      BY <1>0, <3>0, <3>1 DEF Shared!Observe
    <3>2. ASSUME NEW i \in FillRows, Shared!scheduleEmbed(i)
          PROVE  /\ requests' = requests /\ tried' = tried /\ night' = night /\ born' = born
                 /\ embedded' \in SUBSET FillRows /\ embedded \subseteq embedded'
      BY <1>0, <3>2 DEF Shared!scheduleEmbed
    <3> QED BY <1>0, <1>2, <3>1, <3>2 DEF Shared!Rows, FillRows
  <2> QED BY <1>0, <2>1, OthersFill
<1>3. ASSUME NEW r \in FillRequests, Shared!Fetch(r) PROVE FillInv'
  <2>1. requests[r].pc = "fetch" /\ born' = born /\ embedded' = embedded /\ night' = night /\ tried' = tried
    BY <1>3 DEF Shared!Fetch
  <2>2. CASE requests' = [requests EXCEPT ![r] = Shared!Fetched(@, {})]
    <3>1. PICK found \in SUBSET (FillRows \ embedded) : found = {}
      OBVIOUS
    <3>2. requests' = [requests EXCEPT ![r] = Shared!Fetched(@, found)]
      BY <2>2, <3>1
    <3> QED BY <2>1, <3>1, <3>2, FetchFills
  <2>3. CASE requests' = [requests EXCEPT ![r] = Shared!Fetched(@, Shared!queryUnembedded(Shared!BatchLimit(@)))]
    <3>1. PICK p : p = requests[r]
      OBVIOUS
    <3>2. PICK found : found = Shared!queryUnembedded(Shared!BatchLimit(p))
      OBVIOUS
    <3>3. requests' = [requests EXCEPT ![r] = Shared!Fetched(@, found)]
      BY <2>3, <3>1, <3>2
    <3>4. Shared!BatchLimit(p) \in Nat
      <4>1. p.processed \in Nat /\ p.limit \in Nat /\ p.fetched \in Nat /\ p.chunk \in Nat /\ p.processed + p.fetched <= p.limit
        BY <3>1 DEF FillInv, FillTyped, RequestKeeps, InHand, RequestRow
      <4> QED BY <4>1 DEF Shared!BatchLimit
    <3>5. found \in SUBSET (FillRows \ embedded) /\ Cardinality(found) <= Shared!BatchLimit(p)
      BY <3>2, <3>4, QueryWithinLimit DEF FillInv
    <3> QED BY <2>1, <3>1, <3>3, <3>5, FetchFills
  <2> QED BY <1>3, <2>2, <2>3 DEF Shared!Fetch
<1> QED BY <1>1, <1>2, <1>3, BeginFills, EmbedFills, WriteFills, EndFills, NightFills, Zenon DEF Shared!Next

-----------------------------------------------------------------------------
(* What the work amounts to *)

\* A step of the whole is a step of the one part it drives.
LEMMA OnePartMoves ==
  [AllNext]_all => /\ [Next]_vars /\ part' = part
                   /\ part = "requests" => [Shared!Next]_FillVars
<1> SUFFICES ASSUME [AllNext]_all
             PROVE  /\ [Next]_vars /\ part' = part
                    /\ part = "requests" => [Shared!Next]_FillVars
  OBVIOUS
<1>1. CASE UNCHANGED all
  BY <1>1 DEF all
<1>2. CASE AllNext
  BY <1>2, Zenon DEF AllNext
<1> QED BY <1>1, <1>2

LEMMA FillKeepsTrue == FillInv => Shared!AttemptedOnce /\ Shared!AnswerIsTrue
<1> SUFFICES ASSUME FillInv PROVE Shared!AttemptedOnce /\ Shared!AnswerIsTrue
  OBVIOUS
<1>1. Shared!AttemptedOnce
  BY DEF Shared!AttemptedOnce, Shared!Rows, FillInv, RequestKeeps, FillRows
<1>2. ASSUME NEW r \in FillRequests
      PROVE  /\ requests[r].backfilledIds \subseteq embedded /\ requests[r].backfilledIds \cap requests[r].deadIds = {}
             /\ Cardinality(requests[r].backfilledIds) + Cardinality(requests[r].deadIds) <= requests[r].limit
  <2>1. PICK p : p = requests[r]
    OBVIOUS
  <2>2. InHand(p) /\ p \in RequestRow /\ p.backfilledIds \subseteq embedded
    BY <2>1 DEF FillInv, FillTyped, RequestKeeps
  <2>3. /\ p.processed \in Nat /\ p.limit \in Nat /\ p.fetched \in Nat
        /\ Cardinality(p.backfilledIds) \in Nat /\ Cardinality(p.deadIds) \in Nat
    <3>1. p.backfilledIds \in SUBSET FillRows /\ p.deadIds \in SUBSET FillRows
      BY <2>2 DEF RequestRow
    <3> QED BY <2>2, <3>1, FillFinite DEF RequestRow
  <2>4. Cardinality(p.backfilledIds) + Cardinality(p.deadIds) <= p.limit
    BY <2>2, <2>3 DEF InHand
  <2> QED BY <2>1, <2>2, <2>4 DEF InHand
<1>3. Shared!AnswerIsTrue
  BY <1>2, FillCounts DEF Shared!AnswerIsTrue
<1> QED BY <1>1, <1>3

\* When the passes of a tick end before their limit every baton has been taken up, but for
\* those of runs that ended in error in the last pass and what came from outside; and of
\* requests that make up missing embeddings beside each other and beside the nights, each
\* sends a row to the provider once, reports as embedded only what is stored, and works on
\* no more rows than it was asked to.
THEOREM WorkIsTrue == AllSpec => []WorkTrue
<1> DEFINE Inv == TypeOK /\ AtWork /\ Rounds /\ Drained /\ (part = "requests" => FillInv)
<1>1. AllInit => Inv
  BY InitHolds, FillInit DEF AllInit
<1>2. Inv /\ [AllNext]_all => Inv'
  <2> SUFFICES ASSUME Inv, [AllNext]_all PROVE Inv'
    OBVIOUS
  <2>1. [Next]_vars /\ part' = part /\ (part = "requests" => [Shared!Next]_FillVars)
    BY OnePartMoves
  <2>2. TypeOK' /\ AtWork' /\ Rounds' /\ Drained'
    BY <2>1, TypeStep, WorkStep, RoundsStep, DrainedStep
  <2>3. part' = "requests" => FillInv'
    BY <2>1, FillStep
  <2> QED BY <2>2, <2>3
<1>3. Inv => WorkTrue
  BY FillKeepsTrue DEF WorkTrue
<1> QED BY <1>1, <1>2, <1>3, PTL DEF AllSpec
=============================================================================
