----------------------------- MODULE Orchestrator -----------------------------
(***************************************************************************)
(* The runner's orchestrator: a tick started every minute that loads its   *)
(* bookkeeping, gives the due tenants their nightly dream, drains duty     *)
(* tasks in passes, runs personal and impulse wakes, and saves the         *)
(* bookkeeping once, at the very end.  The tick judges what is due by the  *)
(* time it started at, however long the runs in it take.                   *)
(*                                                                         *)
(* An exception anywhere ends the process: what it had marked is lost,     *)
(* what it had done is not.                                                *)
(***************************************************************************)
EXTENDS Integers, Sequences, Functions

CONSTANTS
  Procs,                   \* orchestrator processes: launchd's, one by hand
  Order,                   \* enabled tenants, in the order of tenants.json
  NightlyAt,               \* minute of each tenant's dream
  PersonalAt,              \* all personal slots, in the order of tenants.json
  Impulsive, Interval,     \* tenants with impulses, impulse_check_interval_minutes
  Grace, MaxPasses,        \* slotGraceMinutes, maxDutyPasses
  DayLength, Horizon,      \* minutes in a day; bound on the clock
  MaxWaiting, MaxArrivals, \* bounds on a tenant's open tasks, on tasks from outside
  MaxFaults                \* bound on exceptions and crashes

Tenants == Range(Order)
None  == -1
Never == -1

ASSUME OrchestratorAssumption ==
  /\ Order \in Seq(Range(Order))
  /\ NightlyAt \in [Tenants -> 0..(DayLength - 1) \cup {None}]
  /\ PersonalAt \in Seq([t : Tenants, slot : 0..(DayLength - 1)])
  /\ Impulsive \subseteq Tenants /\ Interval \in Nat /\ Grace \in Nat
  /\ MaxPasses \in Nat \ {0} /\ DayLength \in Nat \ {0} /\ Horizon \in Nat
  /\ MaxWaiting \in Nat /\ MaxArrivals \in Nat /\ MaxFaults \in Nat

\* The jobs each loop of the tick goes through, in tenant order.
EachTenant(kind) == [i \in 1..Len(Order) |-> [kind |-> kind, t |-> Order[i], slot |-> None]]
Dreams    == [i \in 1..Len(Order) |-> [kind |-> "dream", t |-> Order[i], slot |-> NightlyAt[Order[i]]]]
Personals == [i \in 1..Len(PersonalAt) |->
               [kind |-> "personal", t |-> PersonalAt[i].t, slot |-> PersonalAt[i].slot]]
Duties    == EachTenant("duty")
Impulses  == EachTenant("impulse")

Job == Range(Dreams) \cup Range(Duties) \cup Range(Personals) \cup Range(Impulses)

\* A tenant's slot on a day.
Slots == {j \in Range(Dreams) \cup Range(Personals) : j.slot # None}
Keys  == [job : Slots, day : 0..(Horizon \div DayLength)]

VARIABLES
  clock,
  disk,                  \* orchestrator-state.json
  pc, phase, agenda,     \* per process: idle, between jobs or in one; where in the tick
  at, mem,               \* when the tick started, its copy of the state
  pass, progressed,      \* the duty loop's counter and flag
  holding,               \* does the run in progress hold a claimed task?
  waiting,               \* per tenant: open tasks
  runs, worst,           \* history: wakes run per key; lateness of the latest slot wake
  excused,               \* history: in this pass, tenants whose run failed, or who got a task
                         \* from a run that failed or from outside
  arrivals, faults

process == <<pc, phase, agenda, at, mem, pass, progressed, holding>>
tasks   == <<waiting, arrivals>>
history == <<runs, worst, excused>>
vars    == <<clock, disk, process, tasks, history, faults>>

Blank == [marks |-> {}, impulse |-> [t \in Tenants |-> Never]]
State == [marks : SUBSET Keys, impulse : [Tenants -> Nat \cup {Never}]]

TypeOK ==
  /\ clock \in 0..Horizon /\ disk \in State
  /\ pc \in [Procs -> {"idle", "next", "busy"}]
  /\ phase \in [Procs -> {"nightly", "duty", "personal", "impulse"}]
  /\ agenda \in [Procs -> Seq(Job)] /\ \A p \in Procs : pc[p] = "busy" => agenda[p] # <<>>
  /\ at \in [Procs -> 0..Horizon] /\ mem \in [Procs -> State]
  /\ pass \in [Procs -> 0..MaxPasses] /\ progressed \in [Procs -> BOOLEAN]
  /\ holding \in [Procs -> BOOLEAN]
  /\ waiting \in [Tenants -> 0..MaxWaiting]
  /\ runs \in [Keys -> Nat] /\ worst \in Nat /\ excused \in [Procs -> SUBSET Tenants]
  /\ arrivals \in 0..MaxArrivals /\ faults \in 0..MaxFaults

Init ==
  /\ clock = 0 /\ disk = Blank
  /\ pc = [p \in Procs |-> "idle"] /\ phase = [p \in Procs |-> "nightly"]
  /\ agenda = [p \in Procs |-> <<>>]
  /\ at = [p \in Procs |-> 0] /\ mem = [p \in Procs |-> Blank]
  /\ pass = [p \in Procs |-> 0] /\ progressed = [p \in Procs |-> FALSE]
  /\ holding = [p \in Procs |-> FALSE]
  /\ waiting = [t \in Tenants |-> 0]
  /\ runs = [k \in Keys |-> 0] /\ worst = 0 /\ excused = [p \in Procs |-> {}]
  /\ arrivals = 0 /\ faults = 0

------------------------------------------------------------------------------
\* What is due.

\* (Slip: the last minute of the grace is not in it.)
Due_Strict(slot, now) ==
  LET minute == now % DayLength IN slot <= minute /\ minute < slot + Grace
\* isSlotDue: minutes of the same day only.
Due(slot, now) ==
  LET minute == now % DayLength IN slot <= minute /\ minute <= slot + Grace

\* `${tenant}:${today}:${slot}`
Key(job, now) == [job |-> job, day |-> now \div DayLength]

\* What each loop of the tick asks of a job when it comes to it: is the slot due and
\* not marked, is the tenant's impulse (isImpulseDue)?
Ready(job, state, now) ==
  CASE job.kind = "duty" -> TRUE
    [] job.kind = "impulse" -> /\ job.t \in Impulsive
                               /\ state.impulse[job.t] = Never \/ now - state.impulse[job.t] >= Interval
    [] OTHER -> job.slot # None /\ Key(job, now) \notin state.marks /\ Due(job.slot, now)

------------------------------------------------------------------------------
\* A tick.

\* loadState, and `now`.
Start(p) ==
  /\ pc[p] = "idle"
  /\ pc' = [pc EXCEPT ![p] = "next"] /\ phase' = [phase EXCEPT ![p] = "nightly"]
  /\ at' = [at EXCEPT ![p] = clock] /\ mem' = [mem EXCEPT ![p] = disk]
  /\ agenda' = [agenda EXCEPT ![p] = Dreams]
  /\ pass' = [pass EXCEPT ![p] = 0] /\ progressed' = [progressed EXCEPT ![p] = FALSE]
  /\ UNCHANGED <<clock, disk, holding, tasks, history, faults>>

\* mind_runtime trigger: does it claim a task for the run?  An impulse may be
\* deferred by the agent's budget, or run without a task.
Triggered(t, deferrable) ==
  IF waiting[t] = 0 THEN {FALSE} ELSE IF deferrable THEN BOOLEAN ELSE {TRUE}

\* The next job, if it is due.  A duty trigger that claims nothing has no runnable contract.
Begin(p) ==
  /\ pc[p] = "next" /\ agenda[p] # <<>>
  /\ LET job  == Head(agenda[p])
         late == clock - (Key(job, at[p]).day * DayLength + job.slot)
         due  == Ready(job, mem[p], at[p])
     IN \E claims \in IF due /\ job.kind \in {"duty", "impulse"}
                      THEN Triggered(job.t, job.kind = "impulse") ELSE {FALSE} :
        LET skip == ~due \/ (job.kind = "duty" /\ ~claims)
        IN /\ pc' = [pc EXCEPT ![p] = IF skip THEN "next" ELSE "busy"]
           /\ agenda' = IF skip THEN [agenda EXCEPT ![p] = Tail(@)] ELSE agenda
           /\ holding' = [holding EXCEPT ![p] = claims]
           /\ waiting' = IF claims THEN [waiting EXCEPT ![job.t] = @ - 1] ELSE waiting
           /\ worst' = IF ~skip /\ job.kind \in {"dream", "personal"} /\ late > worst THEN late ELSE worst
  /\ UNCHANGED <<clock, disk, phase, at, mem, pass, progressed, arrivals,
                 runs, excused, faults>>

\* The wake of a slot ran, and is marked: failed personal runs as well.
Slept(p, job) ==
  /\ runs' = [runs EXCEPT ![Key(job, at[p])] = @ + 1]
  /\ mem' = [mem EXCEPT ![p].marks = @ \cup {Key(job, at[p])}]
  /\ UNCHANGED <<progressed, waiting, excused>>

\* A run on a task opens tasks for others or for its own tenant through the tools,
\* before its status is known; one that fails leaves its task in progress, where no
\* trigger looks for it.
Handed(p, t, ok, heirs) ==
  /\ \A h \in heirs : waiting[h] < MaxWaiting
  /\ waiting' = [h \in Tenants |-> IF h \in heirs THEN waiting[h] + 1 ELSE waiting[h]]
  /\ excused' = [q \in Procs |->
       IF q # p \/ phase[p] # "duty" THEN excused[q] \cup heirs
       ELSE IF ok THEN excused[q] ELSE excused[q] \cup {t} \cup heirs]
  /\ UNCHANGED runs

\* runTriggeredTask after the provider's run.
Worked(p, job, ok, heirs) ==
  /\ Handed(p, job.t, ok, heirs)
  /\ progressed' = [progressed EXCEPT ![p] = @ \/ ok] /\ UNCHANGED mem

\* runImpulseWake, with a task or without, deferred or failed: it is marked.
Wandered(p, job, ok, heirs) ==
  /\ mem' = [mem EXCEPT ![p].impulse[job.t] = at[p]]
  /\ IF holding[p] THEN Handed(p, job.t, ok, heirs)
     ELSE ok /\ heirs = {} /\ UNCHANGED <<waiting, excused, runs>>
  /\ UNCHANGED progressed

End(p) ==
  /\ pc[p] = "busy"
  /\ LET job == Head(agenda[p]) IN
     \/ job.kind \in {"dream", "personal"} /\ Slept(p, job)
     \/ \E ok \in BOOLEAN, heirs \in SUBSET Tenants :
          \/ job.kind = "duty" /\ Worked(p, job, ok, heirs)
          \/ job.kind = "impulse" /\ Wandered(p, job, ok, heirs)
  /\ pc' = [pc EXCEPT ![p] = "next"] /\ agenda' = [agenda EXCEPT ![p] = Tail(@)]
  /\ holding' = [holding EXCEPT ![p] = FALSE]
  /\ UNCHANGED <<clock, disk, phase, at, pass, arrivals, worst, faults>>

\* (Slip: a pass with progress is always followed by another.)
Again_Uncapped(p) == progressed[p]
Again(p) == progressed[p] /\ pass[p] < MaxPasses

\* The duty loop: from the dreams to the first pass, and from pass to pass.
NextPass(p) ==
  /\ pc[p] = "next" /\ agenda[p] = <<>>
  /\ phase[p] = "nightly" \/ (phase[p] = "duty" /\ Again(p))
  /\ phase' = [phase EXCEPT ![p] = "duty"] /\ agenda' = [agenda EXCEPT ![p] = Duties]
  /\ pass' = [pass EXCEPT ![p] = IF @ < MaxPasses THEN @ + 1 ELSE @]
  /\ progressed' = [progressed EXCEPT ![p] = FALSE]
  /\ excused' = [excused EXCEPT ![p] = {}]
  /\ UNCHANGED <<clock, disk, pc, at, mem, holding, tasks, runs, worst, faults>>

NextPhase(p) ==
  /\ pc[p] = "next" /\ agenda[p] = <<>>
  /\ \/ /\ phase[p] = "duty" /\ ~Again(p)
        /\ phase' = [phase EXCEPT ![p] = "personal"]
        /\ agenda' = [agenda EXCEPT ![p] = Personals]
     \/ /\ phase[p] = "personal"
        /\ phase' = [phase EXCEPT ![p] = "impulse"]
        /\ agenda' = [agenda EXCEPT ![p] = Impulses]
  /\ UNCHANGED <<clock, disk, pc, at, mem, pass, progressed, holding, tasks, history, faults>>

\* (Slip: only this tick's marks are written.)
Save_Fresh(p) ==
  /\ pc[p] = "next" /\ agenda[p] = <<>> /\ phase[p] = "impulse"
  /\ disk' = [mem[p] EXCEPT !.marks = {k \in @ : k.day = at[p] \div DayLength /\ k \notin disk.marks}]
  /\ pc' = [pc EXCEPT ![p] = "idle"]
  /\ UNCHANGED <<clock, phase, agenda, at, mem, pass, progressed, holding, tasks, history, faults>>
\* saveState
Save(p) ==
  /\ pc[p] = "next" /\ agenda[p] = <<>> /\ phase[p] = "impulse"
  /\ disk' = mem[p] /\ pc' = [pc EXCEPT ![p] = "idle"]
  /\ UNCHANGED <<clock, phase, agenda, at, mem, pass, progressed, holding, tasks, history, faults>>

\* A brain call, the provider's spawn or the notifier throws, or the process
\* is killed: before the job, in it, or after its effect.
Abort(p) ==
  /\ pc[p] # "idle" /\ faults < MaxFaults
  /\ faults' = faults + 1 /\ pc' = [pc EXCEPT ![p] = "idle"]
  /\ LET job == Head(agenda[p]) IN
     \/ ~holding[p] /\ UNCHANGED <<runs, waiting, excused>>
     \/ /\ pc[p] = "busy" /\ holding[p]
        /\ \E ok \in BOOLEAN, heirs \in SUBSET Tenants : Handed(p, job.t, ok, heirs)
     \/ /\ pc[p] = "busy" /\ job.kind \in {"dream", "personal"}
        /\ runs' = [runs EXCEPT ![Key(job, at[p])] = @ + 1]
        /\ UNCHANGED <<waiting, excused>>
  /\ holding' = [holding EXCEPT ![p] = FALSE]
  /\ UNCHANGED <<clock, disk, phase, agenda, at, mem, pass, progressed, arrivals, worst>>
\* Killed while writing: the truncated file parses as none.
Torn(p) ==
  /\ pc[p] = "next" /\ agenda[p] = <<>> /\ phase[p] = "impulse" /\ faults < MaxFaults
  /\ faults' = faults + 1 /\ disk' = Blank /\ pc' = [pc EXCEPT ![p] = "idle"]
  /\ UNCHANGED <<clock, phase, agenda, at, mem, pass, progressed, holding, tasks, history>>

\* A person or a peer opens a task for t.
Arrive(t) ==
  /\ waiting[t] < MaxWaiting /\ arrivals < MaxArrivals /\ arrivals' = arrivals + 1
  /\ waiting' = [waiting EXCEPT ![t] = @ + 1]
  /\ excused' = [p \in Procs |-> excused[p] \cup {t}]
  /\ UNCHANGED <<clock, disk, process, runs, worst, faults>>
Minute ==
  /\ clock < Horizon /\ clock' = clock + 1
  /\ UNCHANGED <<disk, process, tasks, history, faults>>

Moves(p) == Start(p) \/ Begin(p) \/ NextPass(p) \/ NextPhase(p) \/ Save(p)
Step(p) == Moves(p) \/ End(p)
Next ==
  \/ \E p \in Procs : Step(p) \/ Abort(p) \/ Torn(p)
  \/ \E t \in Tenants : Arrive(t)
  \/ Minute
Spec == Init /\ [][Next]_vars
\* launchd starts a tick whenever none runs, and a started tick runs on between its
\* jobs.  A job may hang: nothing puts a limit on a provider's run.
FairSpec == Spec /\ \A p \in Procs : WF_vars(Moves(p))

------------------------------------------------------------------------------
\* Properties.

\* A slot's wake runs once, plus once for every tick that threw or was killed.
SlotRepeats == \A k \in Keys : runs[k] <= 1 + faults

\* An undisturbed orchestrator runs a slot once: its bookkeeping survives the
\* exceptions of later jobs.
SlotOnce == \A k \in Keys : runs[k] <= 1

\* A tick that saves has run, now or earlier, every slot of its day whose time
\* was at most the grace before it started.
GraceHonoured ==
  [][\A p \in Procs : pc[p] # "idle" /\ pc'[p] = "idle" /\ faults' = faults =>
       \A k \in Keys : LET time == k.day * DayLength + k.job.slot
                       IN k.day = at[p] \div DayLength /\ time <= at[p] /\ at[p] <= time + Grace
                            => runs[k] > 0]_vars

\* A slot's wake is never lost and never repeated without cause: SlotRepeats and
\* GraceHonoured.
SlotsKept == []SlotRepeats /\ GraceHonoured

\* The same of the slots just before midnight.
GraceAcrossMidnight ==
  [][\A p \in Procs : pc[p] # "idle" /\ pc'[p] = "idle" /\ faults' = faults =>
       \A k \in Keys : LET time == k.day * DayLength + k.job.slot
                       IN time <= at[p] /\ at[p] <= time + Grace => runs[k] > 0]_vars

\* No slot's wake begins later than the allowed window.
WithinGrace == worst <= Grace

\* The state file keeps the slots it has recorded.
BookkeepingKept == [][disk.marks \subseteq disk'.marks]_vars

\* The bookkeeping implements the ledger: the record of slots is true and
\* grows, unless the whole file is lost.
Ledger == INSTANCE SlotLedger WITH recorded <- disk.marks
ImplementsLedger == Ledger!Spec

\* When the passes end before their limit, a tenant with an open task got it from
\* outside since the last pass began, or from a run of that pass that ended in error,
\* or its own run did: a baton of a run that succeeded has been taken up, and no other
\* need be.
Drained ==
  \A p \in Procs : pc[p] # "idle" /\ phase[p] \in {"personal", "impulse"} /\ pass[p] < MaxPasses =>
    \A t \in Tenants : waiting[t] > 0 => t \in excused[p]

\* While no run hangs for ever: every tick ends, even when two tenants hand the baton
\* back and forth for ever.
RunsEnd == \A p \in Procs : []<>(pc[p] # "busy")
TickEnds == RunsEnd => \A p \in Procs : pc[p] # "idle" ~> pc[p] = "idle"
\* Every tenant with an open task is woken for it.
Served == RunsEnd => \A t \in Tenants : waiting[t] > 0 ~>
  \E p \in Procs : holding[p] /\ Head(agenda[p]).t = t
==============================================================================
