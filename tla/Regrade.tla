-------------------------------- MODULE Regrade --------------------------------
(***************************************************************************)
(* Demoting forgotten foundational memories: the nightly task proposes the *)
(* least alive of the unprotected ones, within a ceiling on what awaits    *)
(* review; a reviewer accepts, and the observation is active and decays    *)
(* again.  Vows are foundational observations too.                         *)
(***************************************************************************)
EXTENDS Integers, FiniteSets

CONSTANTS
  Plain,             \* foundational observations
  Vows,              \* observations mind_vow creates
  Runners,           \* runs of the task that may overlap
  Early, Cap, Ramp,  \* REGRADE_WIP_CAP_EARLY, REGRADE_WIP_CAP, REGRADE_RAMP_REVIEWED
  MinAge, Stale,     \* MIN_AGE_DAYS, SURFACED_STALE_DAYS
  Overlaps,          \* may runs and reviews overlap?
  Switches,          \* times the operator switches the shadow mode
  MaxDay, MaxRuns, MaxAccess, MaxFaults   \* bounds

RegradeAssumption ==
  /\ IsFiniteSet(Plain) /\ IsFiniteSet(Vows)
  /\ Early \in Nat /\ Cap \in Nat /\ Early <= Cap /\ Ramp \in Nat /\ MinAge \in Nat /\ Stale \in Nat
  /\ Overlaps \in BOOLEAN /\ Switches \in Nat
  /\ MaxDay \in Nat /\ MaxRuns \in Nat /\ MaxAccess \in Nat /\ MaxFaults \in Nat

VARIABLES
  day, shadow, switched,
  obs,      \* each observation's row, or absent
  shields,  \* what protects it
  rows,     \* the status of its salience_regrade row
  run,      \* each run: what is left to create
  runs,     \* runs so far
  scan,     \* what the last run reported, and what it inserted
  review,   \* the reviewer's step
  faults

vars == <<day, shadow, switched, obs, shields, rows, run, runs, scan, review, faults>>
corpus == <<obs, shields>>

Obs == Plain \cup Vows
\* A link, an anchor, a consolidation or a skill keeps it; so does the territory self.
Shields == {"kept", "self"}
Absent == [there |-> FALSE, salience |-> "none", access |-> 0, created |-> 0, surfaced |-> -1, toWhom |-> FALSE]
Off == [on |-> FALSE]
Idle == [busy |-> FALSE]

\* What awaits review counts against the ceiling.
Pending == {o \in Obs : rows[o] = "pending"}
Reviewed == {o \in Obs : rows[o] \in {"accepted", "rejected"}}

Init ==
  /\ day = 0 /\ shadow = TRUE /\ switched = 0
  /\ obs = [o \in Obs |-> Absent] /\ shields = [o \in Obs |-> {}] /\ rows = [o \in Obs |-> "none"]
  /\ run = [r \in Runners |-> Off] /\ runs = 0 /\ scan = [created |-> 0, inserted |-> 0, shadow |-> TRUE]
  /\ review = Idle /\ faults = 0

Quiet == Overlaps \/ (review = Idle /\ \A r \in Runners : run[r] = Off)
Fault == faults < MaxFaults /\ faults' = faults + 1

NextDay ==
  /\ Quiet /\ day < MaxDay /\ day' = day + 1
  /\ UNCHANGED <<shadow, switched, corpus, rows, run, runs, scan, review, faults>>

\* An operator writes daemon_config.data.salience_regrade_shadow.
SwitchShadow ==
  /\ Quiet /\ switched < Switches /\ switched' = switched + 1 /\ shadow' = ~shadow
  /\ UNCHANGED <<day, corpus, rows, run, runs, scan, review, faults>>

-----------------------------------------------------------------------------
(* The corpus. *)

Observe(o) ==
  /\ Quiet /\ o \in Plain /\ obs[o] = Absent
  /\ obs' = [obs EXCEPT ![o] = [Absent EXCEPT !.there = TRUE, !.salience = "foundational", !.created = day]]
  /\ UNCHANGED <<day, shadow, switched, shields, rows, run, runs, scan, review, faults>>

\* A vow to oneself lands in the territory self; the insert keeps the type, not to_whom.
CreateVow(o, own) ==
  /\ Quiet /\ o \in Vows /\ obs[o] = Absent
  /\ obs' = [obs EXCEPT ![o] = [Absent EXCEPT !.there = TRUE, !.salience = "foundational", !.access = 1, !.created = day]]
  /\ shields' = [shields EXCEPT ![o] = IF own THEN {"self"} ELSE {}]
  /\ UNCHANGED <<day, shadow, switched, rows, run, runs, scan, review, faults>>

\* mind_pull, mind_vow reinforce.
updateObservationAccess(o) ==
  /\ Quiet /\ obs[o] # Absent /\ obs[o].access < MaxAccess
  /\ obs' = [obs EXCEPT ![o].access = @ + 1]
  /\ UNCHANGED <<day, shadow, switched, shields, rows, run, runs, scan, review, faults>>

\* A wake or a search surfaces it.
Surface(o) ==
  /\ Quiet /\ obs[o] # Absent /\ obs' = [obs EXCEPT ![o].surfaced = day]
  /\ UNCHANGED <<day, shadow, switched, shields, rows, run, runs, scan, review, faults>>

Protect(o) ==
  /\ Quiet /\ obs[o] # Absent /\ "kept" \notin shields[o] /\ shields' = [shields EXCEPT ![o] = @ \cup {"kept"}]
  /\ UNCHANGED <<day, shadow, switched, obs, rows, run, runs, scan, review, faults>>

-----------------------------------------------------------------------------
(* The nightly task. *)

Forgotten(o) ==
  /\ obs[o] # Absent /\ obs[o].salience = "foundational" /\ obs[o].access <= 1 /\ shields[o] = {}
  /\ obs[o].created < day - MinAge /\ obs[o].surfaced < day - Stale

findSalienceRegradeCandidates == {o \in Obs : Forgotten(o) /\ rows[o] = "none"}

Ceiling(reviewed) == IF reviewed >= Ramp THEN Cap ELSE Early

\* (Slip: the cap is taken for the headroom.)
headroom_Cap(pending, reviewed) == Ceiling(reviewed)
headroom(pending, reviewed) == IF Ceiling(reviewed) > pending THEN Ceiling(reviewed) - pending ELSE 0

Makes(picked, dark) == IF dark THEN {} ELSE picked

Size(S, n) == IF Cardinality(S) <= n THEN Cardinality(S) ELSE n

\* Any choice within the headroom, as pull strengths order them.  A failed query for the
\* configuration is shadow, one for the statistics no rows, one for the candidates none.
StartRun(r) ==
  \E dark \in {shadow, TRUE}, counted \in BOOLEAN, found \in {findSalienceRegradeCandidates, {}} :
    LET room == IF counted THEN headroom(Cardinality(Pending), Cardinality(Reviewed)) ELSE headroom(0, 0) IN
    /\ Quiet /\ run[r] = Off /\ runs < MaxRuns /\ runs' = runs + 1
    /\ \/ dark = shadow /\ counted /\ found = findSalienceRegradeCandidates /\ UNCHANGED faults
       \/ ~(dark = shadow /\ counted /\ found = findSalienceRegradeCandidates) /\ Fault
    /\ \E picked \in SUBSET found :
         /\ Cardinality(picked) = Size(found, room)
         /\ run' = [run EXCEPT ![r] = [on |-> TRUE, todo |-> Makes(picked, dark), shadow |-> dark, created |-> 0, inserted |-> 0]]
    /\ UNCHANGED <<day, shadow, switched, corpus, rows, scan, review>>

Create(r, o) ==
  /\ run[r] # Off /\ o \in run[r].todo
  /\ rows' = IF rows[o] = "none" THEN [rows EXCEPT ![o] = "pending"] ELSE rows
  /\ run' = [run EXCEPT ![r].todo = @ \ {o}, ![r].created = @ + 1, ![r].inserted = @ + (IF rows[o] = "none" THEN 1 ELSE 0)]
  /\ UNCHANGED <<day, shadow, switched, corpus, runs, scan, review, faults>>

\* All created, or the deadline has passed.
EndRun(r) ==
  /\ run[r] # Off /\ run' = [run EXCEPT ![r] = Off]
  /\ scan' = [created |-> run[r].created, inserted |-> run[r].inserted, shadow |-> run[r].shadow]
  /\ UNCHANGED <<day, shadow, switched, corpus, rows, runs, review, faults>>

-----------------------------------------------------------------------------
(* mind_propose, action=review; a new row carries no shadow mark, so nothing is refused. *)

\* The texture is read when the row was accepted, and written back with one field changed.
Review(o, decision) ==
  /\ Quiet /\ review = Idle /\ rows[o] = "pending"
  /\ rows' = [rows EXCEPT ![o] = decision]
  /\ review' = IF decision = "accepted" THEN [busy |-> TRUE, obs |-> o] ELSE Idle
  /\ UNCHANGED <<day, shadow, switched, corpus, run, runs, scan, faults>>

Demoted(row) == [row EXCEPT !.salience = "active"]

\* A failed read is observation_not_found.
Demote ==
  /\ review # Idle /\ review' = Idle
  /\ \/ obs' = [obs EXCEPT ![review.obs] = Demoted(@)] /\ UNCHANGED faults
     \/ Fault /\ UNCHANGED obs
  /\ UNCHANGED <<day, shadow, switched, shields, rows, run, runs, scan>>

Next ==
  \/ NextDay \/ SwitchShadow \/ Demote
  \/ \E o \in Obs :
       \/ Observe(o) \/ Protect(o) \/ updateObservationAccess(o) \/ Surface(o)
       \/ \E own \in BOOLEAN : CreateVow(o, own)
       \/ \E d \in {"accepted", "rejected"} : Review(o, d)
       \/ \E r \in Runners : Create(r, o)
  \/ \E r \in Runners : StartRun(r) \/ EndRun(r)

Spec == Init /\ [][Next]_vars

-----------------------------------------------------------------------------
TypeOK ==
  /\ day \in 0..MaxDay /\ shadow \in BOOLEAN /\ rows \in [Obs -> {"none", "pending", "accepted", "rejected"}]
  /\ \A o \in Obs : obs[o] = Absent \/ (obs[o].salience \in {"foundational", "active"} /\ obs[o].access \in 0..MaxAccess)

\* While no query fails, what awaits review never exceeds the ceiling that the reviews so
\* far allow.
WipBound == faults = 0 => Cardinality(Pending) <= Ceiling(Cardinality(Reviewed))

\* A run reports as created what it inserted.
CreatedTrue == scan.created = scan.inserted

\* A run in shadow inserts nothing.
ShadowCreatesNone == \A r \in Runners : run[r] # Off /\ run[r].shadow => run[r].inserted = 0

\* A row is made for an observation that is forgotten and unprotected then.
ProposesForgotten == \A o \in Obs : rows[o] = "none" /\ rows'[o] = "pending" => Forgotten(o)
ProposedForgotten == [][ProposesForgotten]_vars

\* Only an accepted row demotes, one step and never back.
DemotesReviewed ==
  \A o \in Obs : obs[o] # Absent /\ obs[o].salience # obs'[o].salience
    => rows[o] = "accepted" /\ obs[o].salience = "foundational" /\ obs'[o].salience = "active"
DemotedByReview == [][DemotesReviewed]_vars

\* A vow stays foundational.
VowsFoundational == \A o \in Vows : obs[o] # Absent => obs[o].salience = "foundational"

\* A vow records to whom it is made.
VowsRecorded == \A o \in Vows : obs[o] # Absent => obs[o].toWhom

\* While the shadow mode is on, no row that exists can be accepted.
ShadowRefuses == [][shadow => \A o \in Obs : rows[o] = "pending" => rows'[o] # "accepted"]_vars

=============================================================================
