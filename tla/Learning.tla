------------------------------- MODULE Learning -------------------------------
(***************************************************************************)
(* The governor of the link threshold: every night it reads how the link   *)
(* proposals of all time were reviewed and raises or lowers the bar that   *)
(* new ones must pass.  Thresholds are in hundredths.                      *)
(***************************************************************************)
EXTENDS Integers

CONSTANTS
  MinSample,              \* MIN_SAMPLE_SIZE
  Default,                \* the threshold of a tenant without a row, and of a failed read
  MaxRows, MaxNights, MaxFaults   \* bounds

LearningAssumption ==
  /\ MinSample \in Nat \ {0} /\ Default \in 65..95
  /\ MaxRows \in Nat /\ MaxNights \in Nat /\ MaxFaults \in Nat

VARIABLES
  threshold, backlog,
  pending, accepted, rejected,   \* link rows by status
  nights, faults

vars == <<threshold, backlog, pending, accepted, rejected, nights, faults>>
rows == <<pending, accepted, rejected>>

Init ==
  /\ threshold = Default /\ backlog \in BOOLEAN
  /\ pending = 0 /\ accepted = 0 /\ rejected = 0 /\ nights = 0 /\ faults = 0

\* The proposal task adds pairs that pass the bar.
Propose ==
  /\ pending + accepted + rejected < MaxRows /\ pending' = pending + 1
  /\ UNCHANGED <<threshold, backlog, accepted, rejected, nights, faults>>

Review(decision) ==
  /\ pending > 0 /\ pending' = pending - 1
  /\ IF decision = "accepted" THEN accepted' = accepted + 1 /\ UNCHANGED rejected
                              ELSE rejected' = rejected + 1 /\ UNCHANGED accepted
  /\ UNCHANGED <<threshold, backlog, nights, faults>>

\* Pending links expire after weeks, which takes them from the totals.
Expire ==
  /\ pending > 0 /\ pending' = pending - 1
  /\ UNCHANGED <<threshold, backlog, accepted, rejected, nights, faults>>

\* The operator sets or clears daemon_config.data.backlog_mode.
SwitchBacklog ==
  /\ backlog' = ~backlog /\ UNCHANGED <<threshold, rows, nights, faults>>

-----------------------------------------------------------------------------
(* Ratios: accepted of reviewed, 0 when nothing was reviewed. *)

Lesser(a, b) == IF a < b THEN a ELSE b
Greater(a, b) == IF a < b THEN b ELSE a

LowAcceptance == IF accepted + rejected = 0 THEN TRUE ELSE 10 * accepted < 3 * (accepted + rejected)
HighAcceptance == accepted + rejected > 0 /\ 10 * accepted > 8 * (accepted + rejected)

Adjusted(was) ==
  IF LowAcceptance THEN Lesser(was + 7, 95) ELSE IF HighAcceptance THEN Greater(was - 5, 65) ELSE was

Enough(total) == total >= MinSample

Frozen == backlog

\* A failed read of the configuration answers the default; one of the statistics, no rows.
\* The context's backlog flag is read once, before.
runLearningTask ==
  \E held \in {threshold, Default}, total \in {pending + accepted + rejected, 0} :
    /\ nights < MaxNights /\ nights' = nights + 1
    /\ \/ held = threshold /\ total = pending + accepted + rejected /\ UNCHANGED faults
       \/ faults < MaxFaults /\ faults' = faults + 1
          /\ ~(held = threshold /\ total = pending + accepted + rejected)
    /\ threshold' = IF Frozen \/ ~Enough(total) \/ Adjusted(held) = held THEN threshold ELSE Adjusted(held)
    /\ UNCHANGED <<backlog, rows>>

Next == Propose \/ Expire \/ SwitchBacklog \/ runLearningTask \/ \E d \in {"accepted", "rejected"} : Review(d)

Spec == Init /\ [][Next]_vars

-----------------------------------------------------------------------------
\* The threshold stays within its rails.
TypeOK ==
  /\ threshold \in 65..95 /\ backlog \in BOOLEAN /\ pending + accepted + rejected \in 0..MaxRows
  /\ pending \in Nat /\ accepted \in Nat /\ rejected \in Nat

\* While no query fails, the bar falls only where more links were accepted than rejected, and by a step at most.
LowersOnAcceptance == faults' = 0 /\ threshold' < threshold => accepted > rejected /\ threshold - threshold' <= 5
LoweredByAcceptance == [][LowersOnAcceptance]_vars

\* In backlog mode nothing moves the bar.
StaysInBacklog == backlog => threshold' = threshold
FrozenInBacklog == [][StaysInBacklog]_vars

\* The bar moves only on enough evidence.
HasSample == threshold' # threshold => pending + accepted + rejected >= MinSample
MovesOnSample == [][HasSample]_vars

\* The bar rises only where links were rejected.
RaisedByRejections == [][threshold' > threshold => rejected > 0]_vars

=============================================================================
