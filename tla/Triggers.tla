------------------------------- MODULE Triggers -------------------------------
(***************************************************************************)
(* mind_trigger: watches for a silence, for a change of presence and for a *)
(* window of the day.  Setting one appends it to the tenant's rows and     *)
(* checking updates them all in place; both read the rows, work on what    *)
(* they read and replace the whole table.  Events carry the time they were *)
(* observed, or none and then the time of the call, and may come late.     *)
(***************************************************************************)
EXTENDS Integers, FiniteSets, Sequences, SequencesExt

CONSTANTS
  Callers,      \* calls that may overlap
  Watches,      \* what a caller may ask to watch
  Batches,      \* the event batches of checks; an event's age is how long ago it was observed
  Day,          \* hours of a day
  Start,        \* the first hour of the clock: nothing was observed before hour zero
  MaxTriggers,  \* bound on triggers
  MaxChecks,    \* bound on checks
  MaxNow,       \* bound on the clock, in hours
  MaxFaults     \* bound on queries that fail

Unknown == -1
Omitted == -1  \* an event without observed_at

Hours == 0..(Day - 1)
Watch == [kind : {"no_contact", "presence_transition", "time_window"}, entity : STRING, silence : Nat \ {0},
          from : STRING \ {"none"}, to : STRING, cooldown : Nat, start : Hours, finish : Hours, signal : {Unknown} \cup Nat]

TriggersAssumption ==
  /\ Day \in Nat \ {0} /\ Start \in Nat /\ MaxTriggers \in Nat /\ MaxChecks \in Nat /\ MaxNow \in Nat /\ MaxFaults \in Nat
  /\ Watches \subseteq Watch
  /\ \A batch \in Batches : batch \in Seq([entity : STRING, state : STRING, age : {Omitted} \cup 0..Start])

VARIABLES
  now,
  triggers,  \* the stored rows by id
  call,      \* what each caller read, made of it and will answer
  asked,     \* the watches callers were told are set
  heard,     \* per watch the events its checks were given
  noticed,   \* per watch what was reported: when, and the event time it is about
  last,      \* the last check that answered
  made, checks, faults

vars == <<now, triggers, call, asked, heard, noticed, last, made, checks, faults>>

Watched == 1..MaxTriggers
Time == 0..MaxNow
Idle == [busy |-> FALSE]
NoRow == [watch |-> "none"]

\* A row of a watch: the silence clock, or the state last seen, and the last firing.
New(w) == [watch |-> w, signal |-> w.signal, seen |-> "none", seenAt |-> Unknown, fired |-> Unknown]

Init ==
  /\ now = Start /\ triggers = [i \in Watched |-> NoRow] /\ call = [c \in Callers |-> Idle]
  /\ asked = {} /\ heard = [i \in Watched |-> {}] /\ noticed = [i \in Watched |-> {}]
  /\ last = [nth |-> 0, fired |-> {}, batch |-> <<>>, at |-> 0] /\ made = 0 /\ checks = 0 /\ faults = 0

Tick == now < MaxNow /\ now' = now + 1 /\ UNCHANGED <<triggers, call, asked, heard, noticed, last, made, checks, faults>>

-----------------------------------------------------------------------------
(* action=set *)

\* Number(end_hour) || 23: an end of zero is no end.
EndHour(h) == IF h = 0 THEN Day - 1 ELSE h
Sanitized(w) == [w EXCEPT !.finish = EndHour(w.finish)]

\* (Slip: only the new row is written.)
Pushed_Only(held, i, w) == [j \in Watched |-> IF j = i THEN New(Sanitized(w)) ELSE NoRow]
Pushed(held, i, w) == [held EXCEPT ![i] = New(Sanitized(w))]

-----------------------------------------------------------------------------
(* action=check: what one row becomes, and whether it fires. *)

ObservedAt(e, at) == IF e.age = Omitted THEN at ELSE at - e.age

Observed(e, at) == [entity |-> e.entity, state |-> e.state, at |-> ObservedAt(e, at)]

\* The batch in order: by time, those of one time as they were given.
parsePresenceEvents(batch, at, t) == {n \in DOMAIN batch : ObservedAt(batch[n], at) = t}
entitiesMatch(w, e) == w.entity \in {"any", e.entity}
Matching(w, batch, places) == {n \in places : entitiesMatch(w, batch[n])}

\* The events a watch is given.
Given(w, batch, at) == {e \in {Observed(batch[n], at) : n \in DOMAIN batch} : entitiesMatch(w, e)}

Outcome(row, fires) == [row |-> row, fires |-> fires]

\* (Slip: a batch is the signal, however late it comes.)
Signal_Late(row, events) == IF events = {} THEN row.signal ELSE Max({e.at : e \in events})
Signal(row, events) == Max({row.signal} \cup {e.at : e \in events})

alreadyFired(row, signal) == row.fired >= signal

NoContact(row, events, at) ==
  LET signal == Signal(row, events)
      fires  == /\ signal # Unknown /\ at - signal >= row.watch.silence /\ ~alreadyFired(row, signal)
  IN Outcome([row EXCEPT !.signal = signal, !.fired = IF fires THEN at ELSE @],
             IF fires THEN {[at |-> at, about |-> signal]} ELSE {})

withinCooldown(row, e) == row.watch.cooldown > 0 /\ row.fired > 0 /\ e.at - row.fired < row.watch.cooldown
Transition(row, e) == row.seen = row.watch.from /\ e.state = row.watch.to /\ row.seen # e.state

\* Events at or before the time of the last one seen are skipped.
See(out, e) ==
  LET row   == out.row
      fires == Transition(row, e) /\ ~withinCooldown(row, e)
  IN IF row.seenAt # Unknown /\ e.at <= row.seenAt THEN out
     ELSE Outcome([row EXCEPT !.seen = e.state, !.seenAt = e.at, !.fired = IF fires THEN e.at ELSE @],
                  out.fires \cup IF fires THEN {[at |-> e.at, about |-> e.at]} ELSE {})

\* The first event of an hour is seen; the others of that hour are then not later.
SeeAt(out, batch, at, t) ==
  LET places == Matching(out.row.watch, batch, parsePresenceEvents(batch, at, t))
  IN IF places = {} THEN out ELSE See(out, Observed(batch[Min(places)], at))

\* What the events observed before each hour make of a row.
PresenceTransition(row, batch, at) ==
  LET Before[t \in 0..(at + 1)] == IF t = 0 THEN Outcome(row, {}) ELSE SeeAt(Before[t - 1], batch, at, t - 1)
  IN Before[at + 1]

InWindow(start, finish, hour) == IF start <= finish THEN hour >= start /\ hour < finish ELSE hour >= start \/ hour < finish
TimeWindow(row, at) ==
  Outcome(row, IF InWindow(row.watch.start, row.watch.finish, at % Day) THEN {[at |-> at, about |-> at]} ELSE {})

Checked(row, batch, at) ==
  IF row = NoRow THEN Outcome(row, {})
  ELSE CASE row.watch.kind = "no_contact"          -> NoContact(row, Given(row.watch, batch, at), at)
         [] row.watch.kind = "presence_transition" -> PresenceTransition(row, batch, at)
         [] row.watch.kind = "time_window"         -> TimeWindow(row, at)

-----------------------------------------------------------------------------
(* The steps of a call. *)

\* A failed read is an empty list.
readTriggers(held) ==
  \/ held = triggers /\ UNCHANGED faults
  \/ held = [i \in Watched |-> NoRow] /\ held # triggers /\ faults < MaxFaults /\ faults' = faults + 1

Set(c, w) ==
  \E held \in {triggers, [i \in Watched |-> NoRow]} :
    /\ call[c] = Idle /\ made < MaxTriggers /\ made' = made + 1
    /\ readTriggers(held)
    /\ call' = [call EXCEPT ![c] = [busy |-> TRUE, kind |-> "set", id |-> made + 1,
                                    rows |-> Pushed(held, made + 1, w), watch |-> w, at |-> now]]
    /\ UNCHANGED <<now, triggers, asked, heard, noticed, last, checks>>

Check(c, batch) ==
  \E held \in {triggers, [i \in Watched |-> NoRow]} :
    /\ call[c] = Idle /\ checks < MaxChecks /\ checks' = checks + 1
    /\ readTriggers(held)
    /\ LET out == [i \in Watched |-> Checked(held[i], batch, now)]
       IN call' = [call EXCEPT ![c] = [busy |-> TRUE, kind |-> "check", batch |-> batch, at |-> now,
                                       rows |-> [i \in Watched |-> out[i].row], fires |-> [i \in Watched |-> out[i].fires]]]
    /\ UNCHANGED <<now, triggers, asked, heard, noticed, last, made>>

\* What a check was given and what it reports, remembered for the properties.
Report(k) ==
  /\ heard' = [i \in Watched |->
       IF triggers[i] = NoRow THEN {}
       ELSE heard[i] \cup Given(triggers[i].watch, k.batch, k.at)]
  /\ noticed' = [i \in Watched |-> noticed[i] \cup k.fires[i]]
  /\ last' = [nth |-> last.nth + 1, fired |-> {i \in Watched : k.fires[i] # {}}, batch |-> k.batch, at |-> k.at]

writeTriggers(c) ==
  LET k == call[c]
  IN /\ k # Idle /\ call' = [call EXCEPT ![c] = Idle]
     /\ triggers' = k.rows
     /\ \/ /\ k.kind = "set" /\ asked' = asked \cup {[id |-> k.id, watch |-> k.watch, at |-> k.at]}
           /\ UNCHANGED <<heard, noticed, last>>
        \/ k.kind = "check" /\ Report(k) /\ UNCHANGED asked
     /\ UNCHANGED <<now, made, checks, faults>>

\* A failed replacement is rolled back and the call answers with an error.
WriteFails(c) ==
  /\ call[c] # Idle /\ faults < MaxFaults /\ faults' = faults + 1
  /\ call' = [call EXCEPT ![c] = Idle]
  /\ UNCHANGED <<now, triggers, asked, heard, noticed, last, made, checks>>

Next ==
  \/ Tick
  \/ \E c \in Callers :
       \/ \E w \in Watches : Set(c, w)
       \/ \E b \in Batches : Check(c, b)
       \/ writeTriggers(c) \/ WriteFails(c)

Spec == Init /\ [][Next]_vars

-----------------------------------------------------------------------------
Kind(i) == IF triggers[i] = NoRow THEN "none" ELSE triggers[i].watch.kind

TypeOK ==
  /\ now \in Time /\ made \in 0..MaxTriggers /\ checks \in 0..MaxChecks /\ faults \in 0..MaxFaults
  /\ asked \subseteq [id : 1..made, watch : Watches, at : Time]
  /\ \A i \in Watched : triggers[i] # NoRow =>
       /\ triggers[i].signal \in {Unknown} \cup Time /\ triggers[i].fired \in {Unknown} \cup Time
       /\ triggers[i].watch.finish \in 1..(Day - 1)
       /\ triggers[i].seenAt \in {Unknown} \cup Time

\* A silence is reported once: no two firings of a watch are about the same signal.
OncePerSilence ==
  \A i \in Watched : Kind(i) = "no_contact" => \A n, m \in noticed[i] : n.about = m.about => n = m

\* A firing that says somebody was away is true of every event the watch was given by then.
Silent ==
  \A i \in Watched : last' # last /\ i \in last'.fired /\ Kind(i) = "no_contact"
    => \A e \in heard'[i] : last'.at - e.at >= triggers[i].watch.silence
SilenceTrue == [][Silent]_vars

\* Firings of a presence watch are a cooldown apart.
CooldownKept ==
  \A i \in Watched : Kind(i) = "presence_transition" =>
    \A n, m \in noticed[i] : n.at < m.at => m.at - n.at >= triggers[i].watch.cooldown

\* A presence watch reports a change that happened: it was given the event, and an earlier
\* one with the state it leaves.
TransitionTrue ==
  \A i \in Watched : Kind(i) = "presence_transition" =>
    \A n \in noticed[i] : \E e, f \in heard[i] :
      /\ f.at = n.at /\ f.state = triggers[i].watch.to /\ e.at < f.at /\ e.state = triggers[i].watch.from

\* A watch a caller was told is set is there.
Kept == \A a \in asked : triggers[a.id] # NoRow

\* A batch is processed in the order it was observed: after a check whose events are all
\* later than what the watch has seen, the state last seen is that of the batch's last one.
LastEventSeen ==
  [][\A i \in Watched : last' # last /\ Kind(i) = "presence_transition" /\ triggers'[i] # NoRow =>
       LET At(n)  == ObservedAt(last'.batch[n], last'.at)
           places == Matching(triggers[i].watch, last'.batch, DOMAIN last'.batch)
       IN \A n \in places :
            (\A m \in places : At(m) > triggers[i].seenAt /\ (At(m) < At(n) \/ (At(m) = At(n) /\ m <= n)))
              => triggers'[i].seen = last'.batch[n].state]_vars

\* A check that finds a silence long enough has it reported, then or before.  (An event of
\* the very moment of a firing counts as part of the silence reported.)
Noticed ==
  [][\A i \in Watched : last' # last /\ Kind(i) = "no_contact" /\ heard'[i] # {} =>
       LET signal == Max({triggers[i].watch.signal} \cup {e.at : e \in heard'[i]})
       IN last'.at - signal >= triggers[i].watch.silence
            => \E n \in noticed'[i] : n.at >= signal + triggers[i].watch.silence \/ n.at = signal]_vars

\* A silence since the watch was set is noticed too.
NeverHeardNoticed ==
  [][\A a \in asked : last' # last /\ Kind(a.id) = "no_contact" /\ heard'[a.id] = {} /\ last'.at >= a.at + a.watch.silence
       => noticed'[a.id] # {}]_vars

\* While no query fails, a window fires in the hours it was asked for, and in no other.
InHours ==
  \A a \in asked : last' # last /\ a.watch.kind = "time_window" /\ faults = 0
    => (a.id \in last'.fired <=> InWindow(a.watch.start, a.watch.finish, last'.at % Day))
WindowAsked == [][InHours]_vars

=============================================================================
