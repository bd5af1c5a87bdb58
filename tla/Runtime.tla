------------------------------- MODULE Runtime -------------------------------
(***************************************************************************)
(* mind_runtime for one agent: the policy that budgets its wakes, the run  *)
(* ledger the budget is counted from, the session a wake resumes, and      *)
(* triggers that may overlap.                                              *)
(*                                                                         *)
(* A trigger reads policy, usage and session together, does a good deal of *)
(* other work, and only then inserts the run row that the next trigger's   *)
(* usage will count.  A row is dated by the database; which day's usage is *)
(* read, and when a cooldown counts from, is the caller's "now" to choose. *)
(* The ledger is kept by day: the rows written on that UTC day or later.   *)
(***************************************************************************)
EXTENDS Integers, FiniteSets

CONSTANTS
  Calls,            \* trigger calls that may be in flight
  Editors,          \* set_policy calls that may be in flight
  Modes, Defaults,  \* execution modes, and POLICY_DEFAULTS of each
  Policies,         \* values a set_policy call may pass
  Ceiling,          \* the largest impulse_wake_budget set_policy accepts
  NoPolicy,
  DayLength, Days,  \* clock ticks in a UTC day; bound on days
  MaxSession,       \* session ids 1..MaxSession, in the order they are created
  Kinds, Enforced, Requested,  \* wake_kind, enforce_policy, session_id a caller may pass
  Stamps,           \* times a caller may pass as now, whatever the clock says
  Given,            \* sets of fields a set_policy call may pass
  MaxRows,          \* bound on run rows per day
  MaxFaults         \* bound on failed queries

Fields == {"mode", "daily", "impulse", "reserve", "gap", "clear"}
Policy == [mode : Modes, daily : Nat, impulse : 0..Ceiling, reserve : Nat, gap : Nat, clear : BOOLEAN]

ASSUME RuntimeAssumption ==
  /\ Ceiling \in Nat /\ DayLength \in Nat \ {0} /\ Days \in Nat \ {0}
  /\ MaxSession \in Nat /\ MaxRows \in Nat /\ MaxFaults \in Nat
  /\ IsFiniteSet(Calls) /\ Calls # {}
  /\ Kinds \subseteq {"duty", "impulse"} /\ Enforced \subseteq BOOLEAN
  /\ Requested \subseteq 0..MaxSession /\ Given \subseteq SUBSET Fields
  /\ Stamps \subseteq 0..(Days * DayLength - 1)
ASSUME PoliciesAssumption ==
  /\ Policies \subseteq Policy /\ NoPolicy \notin Policy
  /\ Defaults \in [Modes -> Policy] /\ Modes # {}
  /\ \A m \in Modes : Defaults[m].reserve < Defaults[m].daily
ASSUME BalancedAssumption == Editors # {} => "balanced" \in Modes

Never == -1   \* no impulse row yet (last_impulse_run_at undefined)
NoSession == 0

Times == 0..(Days * DayLength - 1)
Dates == 0..(Days - 1)
DayOf(t) == t \div DayLength   \* toStartOfUtcDay

VARIABLES
  clock,
  duty, impulse,  \* per day: rows since by metadata.wake_kind, deferred ones included
  last,           \* per day: created_at of the last impulse row since
  policy, base,   \* agent_runtime_policies row; what each editor merges into
  session,        \* session_id of the agent_runtime_sessions row
  pending,        \* is a burning or high task open or in progress?
  pc, seen,       \* per trigger: stage, and what it read when it began
  woken, admitted, lastAdmitted,  \* history: today's wakes, its duly gated impulses; last gated one ever
  tuned,          \* history: was a budget ever set explicitly?
  faults

ledger  == <<duty, impulse, last>>
setting == <<policy, base, tuned>>
history == <<woken, admitted, lastAdmitted>>
vars    == <<clock, ledger, setting, session, pending, pc, seen, history, faults>>

Seen == [kind : {"duty", "impulse"}, enforce : BOOLEAN, policy : Policy, total : Nat,
         impulse : Nat, last : Nat \cup {Never}, at : Times, began : Times, sid : 0..MaxSession,
         deferred : BOOLEAN]
Nothing == [kind |-> "none"]

TypeOK ==
  /\ clock \in Times /\ duty \in [Dates -> Nat] /\ impulse \in [Dates -> Nat]
  /\ last \in [Dates -> Nat \cup {Never}]
  /\ policy \in Policy \cup {NoPolicy} /\ base \in [Editors -> Policy \cup {NoPolicy}]
  /\ session \in 0..MaxSession /\ pending \in BOOLEAN
  /\ pc \in [Calls -> {"idle", "read", "logged"}]
  /\ seen \in [Calls -> Seen \cup {Nothing}]
  /\ \A c \in Calls : pc[c] # "idle" => seen[c] \in Seen
  /\ woken \in Nat /\ admitted \in Nat /\ lastAdmitted \in Nat \cup {Never}
  /\ tuned \in BOOLEAN /\ faults \in 0..MaxFaults

Init ==
  /\ clock = 0 /\ duty = [d \in Dates |-> 0] /\ impulse = duty /\ last = [d \in Dates |-> Never]
  /\ policy = NoPolicy /\ base = [e \in Editors |-> NoPolicy] /\ tuned = FALSE
  /\ session = NoSession /\ pending \in BOOLEAN
  /\ pc = [c \in Calls |-> "idle"] /\ seen = [c \in Calls |-> Nothing]
  /\ woken = 0 /\ admitted = 0 /\ lastAdmitted = Never /\ faults = 0

------------------------------------------------------------------------------
\* The gate.

\* buildImpulseDeferReasons, one operator per reason.
DailySpent(s)   == s.total >= s.policy.daily
ImpulseSpent(s) == s.impulse >= s.policy.impulse
\* (Slip: one wake more than the reserve leaves.)
Reserved_Strict(s) == s.policy.daily - s.total < s.policy.reserve
Reserved(s)     == s.policy.daily - s.total <= s.policy.reserve
Busy(s)         == s.policy.clear /\ pending
Cooling(s)      == s.policy.gap > 0 /\ s.last # Never /\ s.at - s.last < s.policy.gap

\* (Slip: the impulse budget is not looked at.)
Refused_NoBudget(s) ==
  s.kind = "impulse" /\ s.enforce /\ (DailySpent(s) \/ Reserved(s) \/ Busy(s) \/ Cooling(s))
Refused(s) ==
  s.kind = "impulse" /\ s.enforce
    /\ (DailySpent(s) \/ ImpulseSpent(s) \/ Reserved(s) \/ Busy(s) \/ Cooling(s))

Today == DayOf(clock)

\* A row of the ledger, dated now: what is not an impulse counts as duty.
Row(kind) ==
  LET more(count) == [d \in Dates |-> IF d <= Today THEN count[d] + 1 ELSE count[d]] IN
  IF kind = "impulse"
  THEN impulse' = more(impulse) /\ last' = [d \in Dates |-> IF d <= Today THEN clock ELSE last[d]] /\ duty' = duty
  ELSE duty' = more(duty) /\ UNCHANGED <<impulse, last>>
Room == duty[Today] + impulse[Today] < MaxRows

\* upsertAgentRuntimeSession: one row per agent, the last writer's.
Upsert(sid) == session' = IF sid = NoSession THEN session ELSE sid

------------------------------------------------------------------------------
\* mind_runtime action=trigger.

\* The three reads: usage is that of the day of at, the caller's now or else the clock.
\* A failed policy or session query reads as none, a failed usage query as an empty day.
Begin(c, kind, enforce, mode, sid, blind, at) ==
  /\ pc[c] = "idle"
  /\ blind # {} => faults < MaxFaults
  /\ faults' = IF blind = {} THEN faults ELSE faults + 1
  /\ seen' = [seen EXCEPT ![c] =
       [kind |-> kind, enforce |-> enforce, at |-> at, began |-> clock, deferred |-> FALSE,
        policy  |-> IF policy = NoPolicy \/ "policy" \in blind THEN Defaults[mode] ELSE policy,
        total   |-> IF "usage" \in blind THEN 0 ELSE duty[DayOf(at)] + impulse[DayOf(at)],
        impulse |-> IF "usage" \in blind THEN 0 ELSE impulse[DayOf(at)],
        last    |-> IF "usage" \in blind THEN Never ELSE last[DayOf(at)],
        sid     |-> IF sid # NoSession THEN sid
                    ELSE IF "session" \in blind THEN NoSession ELSE session]]
  /\ pc' = [pc EXCEPT ![c] = "read"]
  /\ UNCHANGED <<clock, ledger, setting, session, pending, history>>

\* Judged by the rows of the day it began in, or of more days, not by a day to come.
Duly(s) == DayOf(s.at) <= DayOf(s.began)

\* createAgentRuntimeRun: the verdict, on what was read, becomes a row.
Log(c) ==
  /\ pc[c] = "read" /\ Room
  /\ LET s == seen[c] IN
     /\ Row(s.kind)
     /\ seen' = [seen EXCEPT ![c].deferred = Refused(s)]
     /\ woken' = IF Refused(s) THEN woken ELSE woken + 1
     /\ IF s.kind = "impulse" /\ s.enforce /\ ~Refused(s)
        THEN admitted' = (IF Duly(s) THEN admitted + 1 ELSE admitted) /\ lastAdmitted' = clock
        ELSE UNCHANGED <<admitted, lastAdmitted>>
  /\ pc' = [pc EXCEPT ![c] = "logged"]
  /\ UNCHANGED <<clock, setting, session, pending, faults>>

\* The insert throws: the call fails, nothing is counted.
LogFails(c) ==
  /\ pc[c] = "read" /\ faults < MaxFaults
  /\ pc' = [pc EXCEPT ![c] = "idle"] /\ seen' = [seen EXCEPT ![c] = Nothing]
  /\ faults' = faults + 1
  /\ UNCHANGED <<clock, ledger, setting, session, pending, history>>

\* The session row is written back last, with the id read at the beginning.
Resume(c) ==
  /\ pc[c] = "logged"
  /\ Upsert(seen[c].sid)
  /\ pc' = [pc EXCEPT ![c] = "idle"] /\ seen' = [seen EXCEPT ![c] = Nothing]
  /\ UNCHANGED <<clock, ledger, setting, pending, history, faults>>

------------------------------------------------------------------------------
\* The other actions.

\* log_run appends a row past the gate, and stores the session if one is named.
LogRun(kind, sid) ==
  /\ Room
  /\ Row(kind)
  /\ Upsert(sid)
  /\ UNCHANGED <<clock, setting, pending, pc, seen, history, faults>>

\* set_session: here always a session newer than the stored one.
SetSession ==
  /\ session < MaxSession /\ Upsert(session + 1)
  /\ UNCHANGED <<clock, ledger, setting, pending, pc, seen, history, faults>>

\* set_policy reads the row (a failed read is no row) ...
ReadPolicy(e) ==
  /\ base[e] = NoPolicy /\ policy # NoPolicy
  /\ base' = [base EXCEPT ![e] = policy]
  /\ UNCHANGED <<clock, ledger, policy, tuned, session, pending, pc, seen, history, faults>>

Merge(from, args, given) ==
  LET pick(f, a, b) == IF f \in given THEN a ELSE b IN
  [mode    |-> pick("mode", args.mode, from.mode),
   daily   |-> pick("daily", args.daily, from.daily),
   impulse |-> pick("impulse", args.impulse, from.impulse),
   reserve |-> pick("reserve", args.reserve, from.reserve),
   gap     |-> pick("gap", args.gap, from.gap),
   clear   |-> pick("clear", args.clear, from.clear)]

Valid(p) == p.impulse <= p.daily /\ p.reserve < p.daily

\* ... and writes the row it read, or the mode's defaults, with the given fields
\* replaced.
SetPolicy(e, args, given) ==
  LET from == IF base[e] # NoPolicy THEN base[e]
              ELSE Defaults[IF "mode" \in given THEN args.mode ELSE "balanced"]
      new  == Merge(from, args, given)
  IN /\ base[e] = NoPolicy => policy = NoPolicy
     /\ Valid(new)
     /\ policy' = new
     /\ tuned' = (tuned \/ given \cap {"daily", "impulse", "reserve", "gap", "clear"} # {})
  /\ base' = [base EXCEPT ![e] = NoPolicy]
  /\ UNCHANGED <<clock, ledger, session, pending, pc, seen, history, faults>>

Tick ==
  /\ clock < Days * DayLength - 1
  /\ clock' = clock + 1
  /\ IF clock' % DayLength = 0
     THEN woken' = 0 /\ admitted' = 0
     ELSE UNCHANGED <<woken, admitted>>
  /\ UNCHANGED <<ledger, setting, session, pending, pc, seen, lastAdmitted, faults>>

PriorityChanges ==
  /\ pending' = ~pending
  /\ UNCHANGED <<clock, ledger, setting, session, pc, seen, history, faults>>

Blindness == {{}, {"usage"}, {"policy"}, {"session"}}

Next ==
  \/ \E c \in Calls :
       \/ \E kind \in Kinds, enforce \in Enforced, mode \in Modes, sid \in Requested, blind \in Blindness,
             at \in {clock} \cup Stamps :
            Begin(c, kind, enforce, mode, sid, blind, at)
       \/ Log(c) \/ LogFails(c) \/ Resume(c)
  \/ \E kind \in Kinds, sid \in Requested : LogRun(kind, sid)
  \/ SetSession
  \/ \E e \in Editors :
       ReadPolicy(e) \/ \E args \in Policies, given \in Given : SetPolicy(e, args, given)
  \/ Tick \/ PriorityChanges

Spec == Init /\ [][Next]_vars

------------------------------------------------------------------------------
\* However many triggers overlap, whatever the policy is changed to, whatever log_run
\* adds and whatever earlier time callers pass as now, a day admits at most the largest
\* budget the policy can have, one more for every further trigger that may be in flight,
\* and one more for every failed query (an unreadable usage counts as an empty day).
\* Counted are the impulses judged by the day they began in or an earlier one: one that
\* is given a later day's now reads a day without rows, and nothing bounds those.
AdmittedBounded == admitted <= Ceiling + (Cardinality(Calls) - 1) + faults

\* Impulses alone never eat the wakes held back for duty, but for the same
\* overshoot: while the defaults apply, the day admits what one of them leaves.
ReserveHolds ==
  policy = NoPolicy =>
    \E m \in Modes :
      admitted <= Defaults[m].daily - Defaults[m].reserve + (Cardinality(Calls) - 1) + faults

\* A gated impulse whose now is not ahead of the clock begins gap after the previous
\* gated one that its now's day can see, or was already in flight when that one was
\* written, as long as no query fails.  What went before that day is forgotten.
Cooled ==
  \A c \in Calls :
    (/\ pc[c] = "read" /\ pc'[c] = "logged" /\ seen[c].kind = "impulse" /\ seen[c].enforce /\ ~seen'[c].deferred
     /\ faults = 0 /\ seen[c].at <= seen[c].began
     /\ lastAdmitted # Never /\ DayOf(seen[c].at) <= DayOf(lastAdmitted))
      => seen[c].began <= lastAdmitted \/ seen[c].began - lastAdmitted >= seen[c].policy.gap

\* "Minimum time between impulse-driven wakes" (ARCHITECTURE_BRAIN_v1.md).
CooldownKept ==
  [][\A c \in Calls :
       (pc[c] = "read" /\ pc'[c] = "logged" /\ admitted' = admitted + 1 /\ lastAdmitted # Never)
         => clock - lastAdmitted >= seen[c].policy.gap]_vars

\* "Total wake cycles allowed per day" (CAPABILITIES.md, daily_wake_budget).
DailyBudget == policy # NoPolicy => woken <= policy.daily

\* "impulse wake budget reached (n/n)": an impulse is refused for its budget only
\* when that many impulse wakes have been admitted today.
BudgetForWakes ==
  [][\A c \in Calls :
       (pc[c] = "read" /\ pc'[c] = "logged" /\ seen'[c].deferred /\ ImpulseSpent(seen[c]))
         => admitted >= seen[c].policy.impulse]_vars

\* "set_session stores resumable state": a newer session is not replaced by an
\* older one by a trigger that was given none.
SessionStored == [][session' >= session]_vars

\* "lean (6 wakes/day)": with no budget set by hand, the mode's own budget holds.
ModeMeansBudget == policy # NoPolicy /\ ~tuned => policy.daily = Defaults[policy.mode].daily
=============================================================================
