-------------------------------- MODULE Tasks --------------------------------
(***************************************************************************)
(* Tasks shared by the tenants of one brain: mind_task creates, updates    *)
(* and completes them, the daemon and every runtime trigger open the       *)
(* scheduled ones that are due, and a runtime trigger claims the task it   *)
(* recommends and runs an agent on it.                                     *)
(*                                                                         *)
(* updateTask is one UPDATE by id whose fields COALESCE with the row: it   *)
(* never looks at the status it overwrites.  A step is what one handler    *)
(* does up to its next write; ids are creation order.                      *)
(***************************************************************************)
EXTENDS Integers, FiniteSets

CONSTANTS
  Tenants, Nobody,     \* ALLOWED_TENANTS; no assignee, or no task's agent
  Triggers, AgentOf,   \* runtime triggers that may overlap, and the agent of each
  MaxTasks,            \* tasks ever created
  Priority,            \* rank of a task's priority, burning highest
  PreviewLimit,        \* preview_limit: open tasks a trigger lists
  MaxEdits,            \* bound on updates and completions
  MaxFaults            \* bound on failed calls

Ids == 1..MaxTasks
Status == {"open", "scheduled", "in_progress", "done", "deferred", "cancelled"}

TasksAssumption ==
  /\ Nobody \notin Tenants /\ AgentOf \in [Triggers -> Tenants]
  /\ MaxTasks \in Nat /\ Priority \in [Ids -> 1..5]
  /\ PreviewLimit \in Nat /\ MaxEdits \in Nat /\ MaxFaults \in Nat

VARIABLES
  created,                  \* tasks created so far
  status, owner, assignee, deps, wake,
  half,                     \* executors whose reviewer create_dual still has to create
  unsent, letters, unheard, \* handoff letters owed, written, failed, per task
  rec, working,             \* per trigger: the recommended task it holds, is its agent at work
  closedByOwner, reopened,  \* history: the owner moved it; it left "done"
  edits, faults

rows    == <<created, status, owner, assignee, deps, wake>>
mail    == <<unsent, letters, unheard>>
runtime == <<rec, working>>
history == <<closedByOwner, reopened>>
vars    == <<rows, half, mail, runtime, history, edits, faults>>

Created == 1..created

TypeOK ==
  /\ created \in 0..MaxTasks
  /\ status \in [Ids -> Status \cup {"none"}]
  /\ owner \in [Ids -> Tenants \cup {Nobody}] /\ assignee \in [Ids -> Tenants \cup {Nobody}]
  /\ deps \in [Ids -> SUBSET Ids] /\ wake \in [Ids -> {"never", "later", "due"}]
  /\ half \subseteq Ids
  /\ unsent \in [Ids -> Nat] /\ letters \in [Ids -> Nat] /\ unheard \in [Ids -> Nat]
  /\ rec \in [Triggers -> Ids \cup {0}] /\ working \in [Triggers -> BOOLEAN]
  /\ closedByOwner \subseteq Ids /\ reopened \subseteq Ids
  /\ edits \in 0..MaxEdits /\ faults \in 0..MaxFaults

Init ==
  /\ created = 0
  /\ status = [i \in Ids |-> "none"]
  /\ owner = [i \in Ids |-> Nobody] /\ assignee = [i \in Ids |-> Nobody]
  /\ deps = [i \in Ids |-> {}] /\ wake = [i \in Ids |-> "never"]
  /\ half = {}
  /\ unsent = [i \in Ids |-> 0] /\ letters = [i \in Ids |-> 0] /\ unheard = [i \in Ids |-> 0]
  /\ rec = [g \in Triggers |-> 0] /\ working = [g \in Triggers |-> FALSE]
  /\ closedByOwner = {} /\ reopened = {} /\ edits = 0 /\ faults = 0

------------------------------------------------------------------------------
\* Rows as the queries see them.

\* "tenant_id = t OR assigned_tenant = t"
Visible(t, i) == i \in Created /\ (owner[i] = t \/ assignee[i] = t)
\* isAssignedTaskForCurrentTenant, isDelegatedTaskForAgent
IsAssigned(t, i)    == assignee[i] = t /\ owner[i] # t
DelegatedAway(t, i) == owner[i] = t /\ assignee[i] \notin {t, Nobody}
Actionable(t, i)    == IsAssigned(t, i) \/ (owner[i] = t /\ ~DelegatedAway(t, i))
\* isTaskRunnable: a dependency the tenant cannot see reads as not done.
Runnable(t, i) == \A d \in deps[i] : Visible(t, d) /\ status[d] = "done"

\* listTasks("open", includeAssigned): the PreviewLimit newest.
Listed(t) ==
  LET open == {i \in Created : status[i] = "open" /\ Visible(t, i)}
  IN {i \in open : Cardinality({j \in open : j > i}) < PreviewLimit}

\* pickRecommendedTask: delegated tasks first, then priority, then age.
Recommended(t) ==
  LET actionable == {i \in Listed(t) : Runnable(t, i) /\ Actionable(t, i)}
      delegated  == {i \in actionable : IsAssigned(t, i)}
      pool       == IF delegated # {} THEN delegated ELSE actionable
  IN {i \in pool : \A j \in pool \ {i} :
        Priority[i] > Priority[j] \/ (Priority[i] = Priority[j] /\ i < j)}

\* status = COALESCE(new, status) on the rows of I, with the history it makes.
SetStatus(I, s) ==
  /\ status' = [i \in Ids |-> IF i \in I THEN s ELSE status[i]]
  /\ reopened' = IF s = "done" THEN reopened
                 ELSE reopened \cup {i \in I : status[i] = "done"}

------------------------------------------------------------------------------
\* mind_task.

\* createTask: a row of the current tenant.
Insert(i, t, s, a, D, w) ==
  /\ created' = i
  /\ status' = [status EXCEPT ![i] = s]
  /\ owner' = [owner EXCEPT ![i] = t] /\ assignee' = [assignee EXCEPT ![i] = a]
  /\ deps' = [deps EXCEPT ![i] = D] /\ wake' = [wake EXCEPT ![i] = w]

\* validateCreateTaskInput: nobody assigns to himself; a wake makes it scheduled.
Create(t, a, D, w) ==
  /\ created < MaxTasks /\ a # t
  /\ Insert(created + 1, t, IF w = "never" THEN "open" ELSE "scheduled", a, D, w)
  /\ UNCHANGED <<half, mail, runtime, history, edits, faults>>

\* create_dual writes the executor first, which stays with its creator ...
CreateExecutor(t, a, w) ==
  /\ created < MaxTasks /\ a \in Tenants \ {t}
  /\ Insert(created + 1, t, IF w = "never" THEN "open" ELSE "scheduled", Nobody, {}, w)
  /\ half' = half \cup {created + 1}
  /\ UNCHANGED <<mail, runtime, history, edits, faults>>

\* ... then the reviewer, assigned away and depending on the executor ...
CreateReviewer(e, a) ==
  /\ e \in half /\ created < MaxTasks /\ a \in Tenants \ {owner[e]}
  /\ Insert(created + 1, owner[e], "open", a, {e}, "never")
  /\ half' = half \ {e}
  /\ UNCHANGED <<mail, runtime, history, edits, faults>>

\* ... unless the reviewer's title is refused or its insert fails.
RefuseReviewer(e) ==
  /\ e \in half /\ faults < MaxFaults
  /\ half' = half \ {e} /\ faults' = faults + 1
  /\ UNCHANGED <<rows, mail, runtime, history, edits>>

\* (Slip: an assignee may set any status.)
Update_AnyStatus(t, i, s, w) ==
  /\ Visible(t, i) /\ edits < MaxEdits
  /\ IsAssigned(t, i) => w = "keep"
  /\ s = "scheduled" => w # "keep" \/ wake[i] # "never"
  /\ s # "keep" \/ w # "keep"
  /\ IF s = "keep" THEN UNCHANGED <<status, reopened>> ELSE SetStatus({i}, s)
  /\ wake' = IF w = "keep" THEN wake ELSE [wake EXCEPT ![i] = w]
  /\ closedByOwner' = IF owner[i] = t /\ s # "keep" THEN closedByOwner \cup {i} ELSE closedByOwner
  /\ edits' = edits + 1
  /\ UNCHANGED <<created, owner, assignee, deps, half, mail, runtime, faults>>
\* The fields update checks (assignee, owner, a wake once set) never go back to
\* what they were before getTask read them, so read and write are one step.
Update(t, i, s, w) ==
  /\ Visible(t, i) /\ edits < MaxEdits
  /\ IsAssigned(t, i) => w = "keep" /\ s # "done"
  /\ s = "scheduled" => w # "keep" \/ wake[i] # "never"
  /\ s # "keep" \/ w # "keep"
  /\ IF s = "keep" THEN UNCHANGED <<status, reopened>> ELSE SetStatus({i}, s)
  /\ wake' = IF w = "keep" THEN wake ELSE [wake EXCEPT ![i] = w]
  /\ closedByOwner' = IF owner[i] = t /\ s # "keep" THEN closedByOwner \cup {i} ELSE closedByOwner
  /\ edits' = edits + 1
  /\ UNCHANGED <<created, owner, assignee, deps, half, mail, runtime, faults>>

\* complete: "done" whatever the status was; an assignee owes the owner a letter.
Complete(t, i) ==
  /\ Visible(t, i) /\ edits < MaxEdits
  /\ SetStatus({i}, "done")
  /\ unsent' = IF IsAssigned(t, i) THEN [unsent EXCEPT ![i] = @ + 1] ELSE unsent
  /\ closedByOwner' = IF owner[i] = t THEN closedByOwner \cup {i} ELSE closedByOwner
  /\ edits' = edits + 1
  /\ UNCHANGED <<created, owner, assignee, deps, wake, half, letters, unheard, runtime, faults>>

\* appendLetter to the owner; a failure is reported to the caller and forgotten.
Notify(i) ==
  /\ unsent[i] > 0
  /\ unsent' = [unsent EXCEPT ![i] = @ - 1]
  /\ \/ letters' = [letters EXCEPT ![i] = @ + 1] /\ UNCHANGED <<unheard, faults>>
     \/ /\ faults < MaxFaults /\ faults' = faults + 1
        /\ unheard' = [unheard EXCEPT ![i] = @ + 1] /\ UNCHANGED letters
  /\ UNCHANGED <<rows, half, runtime, history, edits>>

------------------------------------------------------------------------------
\* The daemon and the runtime.

Due(t) == {i \in Created : owner[i] = t /\ status[i] = "scheduled" /\ wake[i] = "due"}

\* runTaskSchedulingTask: openDueScheduledTasks, one UPDATE over the owner's rows.
OpenDue(t) ==
  /\ Due(t) # {}
  /\ SetStatus(Due(t), "open")
  /\ UNCHANGED <<created, owner, assignee, deps, wake, half, mail, runtime, closedByOwner, edits, faults>>

\* A trigger opens the agent's due tasks, lists, drops the blocked ones and
\* settles on the task it recommends.
Look(g) ==
  LET t == AgentOf[g] IN
  /\ rec[g] = 0 /\ Due(t) = {}
  /\ \E i \in Recommended(t) : rec' = [rec EXCEPT ![g] = i]
  /\ UNCHANGED <<rows, half, mail, working, history, edits, faults>>

\* claimTaskForAgent: the status it checks is the one it listed.
Claim(g) ==
  /\ rec[g] # 0 /\ ~working[g]
  /\ SetStatus({rec[g]}, "in_progress")
  /\ working' = [working EXCEPT ![g] = TRUE]
  /\ UNCHANGED <<created, owner, assignee, deps, wake, half, mail, rec, closedByOwner, edits, faults>>

\* A failed claim is recorded as claim_error; the agent is run all the same.
ClaimFails(g) ==
  /\ rec[g] # 0 /\ ~working[g] /\ faults < MaxFaults
  /\ working' = [working EXCEPT ![g] = TRUE] /\ faults' = faults + 1
  /\ UNCHANGED <<rows, half, mail, rec, history, edits>>

\* The wake is deferred, or was not asked to claim: nothing is claimed.
Pass(g) ==
  /\ rec[g] # 0 /\ ~working[g] /\ faults < MaxFaults
  /\ rec' = [rec EXCEPT ![g] = 0] /\ faults' = faults + 1
  /\ UNCHANGED <<rows, half, mail, working, history, edits>>

\* The run ends, its task completed by a mind_task call or not.
RunEnds(g) ==
  /\ working[g]
  /\ working' = [working EXCEPT ![g] = FALSE] /\ rec' = [rec EXCEPT ![g] = 0]
  /\ UNCHANGED <<rows, half, mail, history, edits, faults>>

ClockReaches(i) ==
  /\ wake[i] = "later" /\ wake' = [wake EXCEPT ![i] = "due"]
  /\ UNCHANGED <<created, status, owner, assignee, deps, half, mail, runtime, history, edits, faults>>

Next ==
  \/ \E t \in Tenants, a \in Tenants \cup {Nobody}, D \in SUBSET Created, w \in {"never", "later"} :
       Create(t, a, D, w)
  \/ \E t, a \in Tenants, w \in {"never", "later"} : CreateExecutor(t, a, w)
  \/ \E e \in Ids, a \in Tenants : CreateReviewer(e, a)
  \/ \E e \in Ids : RefuseReviewer(e)
  \/ \E t \in Tenants, i \in Ids, s \in Status \cup {"keep"}, w \in {"keep", "later"} : Update(t, i, s, w)
  \/ \E t \in Tenants, i \in Ids : Complete(t, i)
  \/ \E i \in Ids : Notify(i) \/ ClockReaches(i)
  \/ \E t \in Tenants : OpenDue(t)
  \/ \E g \in Triggers : Look(g) \/ Claim(g) \/ ClaimFails(g) \/ Pass(g) \/ RunEnds(g)

Spec == Init /\ [][Next]_vars

\* The daemon's cron and the runner's timer come back, a begun run ends and time
\* passes.  Nobody is obliged to create, update or complete a task.
Fairness ==
  /\ \A t \in Tenants : WF_vars(OpenDue(t))
  /\ \A g \in Triggers : WF_vars(Look(g)) /\ WF_vars(Claim(g)) /\ WF_vars(RunEnds(g))
  /\ \A i \in Ids : WF_vars(ClockReaches(i)) /\ WF_vars(Notify(i))

FairSpec == Spec /\ Fairness

------------------------------------------------------------------------------
\* A delegated task never ends in silence: done, and never moved by its owner,
\* it has a handoff letter written, on its way, or lost to a failed write
\* (update refuses "done" and completion notes from an assignee).
NoSilentFinish ==
  \A i \in Created :
    status[i] = "done" /\ i \notin closedByOwner => unsent[i] + letters[i] + unheard[i] > 0

\* An agent at work on a task found its dependencies done: if one is not done
\* now, it was done and has been reopened meanwhile.
DependenciesFirst ==
  \A g \in Triggers : working[g] =>
    \A d \in deps[rec[g]] : status[d] = "done" \/ d \in reopened

\* Owner and assignee are never both put to work on a task, however their
\* triggers overlap: a delegated task is its assignee's alone.
OneTenantAtWork ==
  \A g, h \in Triggers : rec[g] # 0 /\ rec[g] = rec[h] => AgentOf[g] = AgentOf[h]

\* A scheduled task whose time has come is opened, by a trigger or by the night.
DueTasksOpen ==
  \A i \in Ids : (status[i] = "scheduled" /\ wake[i] = "due") ~> (status[i] # "scheduled")

\* An open task of the agent's own, or delegated to it, that waits for nothing
\* is sooner or later claimed, or somebody moved it.
ActionableClaimed ==
  \A i \in Ids, g \in Triggers :
    (i \in Created /\ status[i] = "open" /\ deps[i] = {} /\ Actionable(AgentOf[g], i)) ~> (status[i] # "open")

\* The reviewer half of a dual pair comes to its assignee once the executor is
\* done (CAPABILITIES.md, "first-class pattern").
ReviewFollows ==
  \A i \in Ids, g \in Triggers :
    (<>[](i \in Created /\ IsAssigned(AgentOf[g], i) /\ status[i] = "open"
            /\ \A d \in deps[i] : status[d] = "done"))
      => <>(rec[g] = i)

\* A claim finds the task it takes open (mind_runtime: "automatically claim
\* recommended open task as in_progress").
ClaimsOpenTasks ==
  [][\A g \in Triggers :
       (working'[g] /\ ~working[g] /\ status' # status) => status[rec[g]] = "open"]_vars
=============================================================================
