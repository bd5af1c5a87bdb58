-------------------------------- MODULE Harness --------------------------------
(***************************************************************************)
(* One run of the runner's harnessed agent: plan, execute with tools,      *)
(* verify against the contract's gates, repair, then the self-improvement  *)
(* loop over pending proposals and the log_run call that closes the run.   *)
(*                                                                         *)
(* The model's answers are abstracted to what the gates tell apart; other  *)
(* reviewers may decide the same proposals at any time.                    *)
(***************************************************************************)
EXTENDS Integers, FiniteSets

CONSTANTS
  MaxIterations, MaxRepairs,  \* MAX_ITERATIONS, MAX_REPAIRS
  Contracts,                  \* harness contracts an agent file may hold, with ENABLE_SELF_IMPROVEMENT
  Tools,                      \* brain tools the model may call
  Props, Trusted, Limit,      \* pending proposals, those at the threshold or above, PROPOSAL_REVIEW_LIMIT
  MaxFaults                   \* bound on failed calls

Gates == {"required_output_keys", "must_call_tools", "non_empty_summary", "max_iterations"}
Contract == [repair : BOOLEAN, max : Nat, gates : SUBSET Gates, must : SUBSET Tools, cap : Nat,
             improve : BOOLEAN]
\* What a stage may answer: nothing, no JSON object, one without the required keys, one with them.
Texts == {"empty", "prose", "partial", "full"}
Codes == {"none", "timeout", "tool_fail", "contract_fail", "empty_output", "budget_exceeded", "validation_fail"}

ASSUME HarnessAssumption ==
  /\ MaxIterations \in Nat \ {0} /\ MaxRepairs \in Nat
  /\ Contracts \subseteq Contract /\ "mind_wake" \in Tools
  /\ Trusted \subseteq Props /\ Limit \in Nat /\ MaxFaults \in Nat

VARIABLES
  contract, stage,
  attempt, total,        \* executeAttempt, totalIterations
  text, called, erred,   \* last answer; tools called so far; did one fail in this stage?
  passed,                \* validationPassed
  status, code,          \* of the AgentResult
  artifacts, ledger,     \* stage artifacts written, and their lines in artifact-ledger.jsonl
  entered,               \* history: stages the run has started
  proposal, queue,       \* mind_propose rows; those listed and still to review
  counted, decided, si,  \* rows the result counts, rows this run decided, did the loop fail?
  row,                   \* agent_runtime_runs row of this run
  faults

run   == <<contract, stage, attempt, total, text, called, erred, passed>>
files == <<artifacts, ledger, entered>>
loop  == <<proposal, queue, counted, decided, si>>
vars  == <<run, status, code, files, loop, row, faults>>

Stages == {"plan", "execute", "repair", "verify"}

TypeOK ==
  /\ contract \in Contracts
  /\ stage \in {"start", "plan", "execute", "check", "improve", "review", "log", "done"}
  /\ attempt \in Nat /\ total \in 0..MaxIterations
  /\ text \in Texts /\ called \in SUBSET Tools /\ erred \in BOOLEAN /\ passed \in BOOLEAN
  /\ status \in {"completed", "budget_exceeded", "validation_failed", "error"} /\ code \in Codes
  /\ artifacts \in SUBSET (Stages \X Nat) /\ ledger \in SUBSET (Stages \X Nat)
  /\ entered \in SUBSET (Stages \X Nat)
  /\ proposal \in [Props -> {"pending", "accepted", "rejected"}]
  /\ queue \in SUBSET Props /\ counted \in SUBSET Props /\ decided \in SUBSET Props
  /\ si \in {"none", "ok", "error"} /\ row \in {"none", "succeeded", "failed"}
  /\ faults \in 0..MaxFaults

Init ==
  /\ contract \in Contracts /\ stage = "start" /\ attempt = 0 /\ total = 0
  /\ text = "empty" /\ called = {} /\ erred = FALSE /\ passed = FALSE
  /\ status = "completed" /\ code = "none"
  /\ artifacts = {} /\ ledger = {} /\ entered = {}
  /\ proposal = [q \in Props |-> "pending"]
  /\ queue = {} /\ counted = {} /\ decided = {} /\ si = "none"
  /\ row = "none" /\ faults = 0

\* The repairs a run may make: none unless the flow names the stage.
Repairs == IF contract.repair
           THEN IF MaxRepairs < contract.max THEN MaxRepairs ELSE contract.max ELSE 0
Current == IF attempt = 0 THEN "execute" ELSE "repair"

\* persistStageArtifact: the file, then its ledger line.
Persist(st, n) == artifacts' = artifacts \cup {<<st, n>>} /\ ledger' = ledger \cup {<<st, n>>}

\* runAgent's catch: a HarnessFailure names its code, any other error none.
Fails(c) ==
  /\ stage' = "done" /\ code' = c
  /\ status' = IF c = "budget_exceeded" THEN "budget_exceeded" ELSE "error"
  /\ UNCHANGED <<contract, attempt, total, text, called, erred, passed, loop, row>>
\* A stage that throws leaves no artifact.
Throws(c) == Fails(c) /\ UNCHANGED files
Fault == faults < MaxFaults /\ faults' = faults + 1

------------------------------------------------------------------------------
\* The stages.

\* loadHarnessDefinition, tools/list and mind_wake.
Start ==
  /\ stage = "start"
  /\ \/ /\ stage' = "plan" /\ called' = {"mind_wake"} /\ entered' = {<<"plan", 1>>}
        /\ UNCHANGED <<contract, attempt, total, text, erred, passed, status, code,
                       artifacts, ledger, loop, row, faults>>
     \/ Fault /\ \E c \in {"contract_fail", "none"} : Throws(c)

Plan ==
  /\ stage = "plan"
  /\ \/ /\ stage' = "execute" /\ Persist("plan", 1) /\ entered' = entered \cup {<<"execute", 1>>}
        /\ UNCHANGED <<contract, attempt, total, text, called, erred, passed, status, code,
                       loop, row, faults>>
     \/ Throws("empty_output") /\ UNCHANGED faults
     \/ Fault /\ \E c \in {"timeout", "none"} : Throws(c)

\* runToolStage: an answer that uses tools.  A tool that throws was called.
Iterate ==
  /\ stage = "execute" /\ total < MaxIterations
  /\ \E used \in (SUBSET Tools) \ {{}} : called' = called \cup used
  /\ \/ erred' = erred /\ faults' = faults
     \/ Fault /\ erred' = TRUE
  /\ total' = total + 1
  /\ UNCHANGED <<contract, stage, attempt, text, passed, status, code, files, loop, row>>

\* The stage ends: with a text, or with none because the model gave none or
\* the iterations are used up.
Answer ==
  /\ stage = "execute"
  /\ \E t \in IF total < MaxIterations THEN Texts ELSE {"empty"} :
       IF t = "empty"
       THEN /\ Persist(Current, attempt + 1) /\ UNCHANGED <<entered, faults>>
            /\ Fails(IF erred THEN "tool_fail" ELSE "empty_output")
       ELSE /\ text' = t /\ stage' = "check"
            /\ Persist(Current, attempt + 1) /\ entered' = entered \cup {<<"verify", attempt + 1>>}
            /\ UNCHANGED <<contract, attempt, total, called, erred, passed, status, code,
                           loop, row, faults>>
\* A model call times out or throws, or the artifact's ledger line cannot be written.
Breaks ==
  /\ stage = "execute" /\ Fault
  /\ \/ \E c \in {"timeout", "none"} : Throws(c)
     \/ /\ artifacts' = artifacts \cup {<<Current, attempt + 1>>}
        /\ Fails("none") /\ UNCHANGED <<ledger, entered>>

\* runValidationGates.  The text is not empty here, so non_empty_summary holds.
Valid ==
  /\ "required_output_keys" \in contract.gates => text = "full"
  /\ "must_call_tools" \in contract.gates => contract.must \subseteq called
  /\ "max_iterations" \in contract.gates => total <= contract.cap

\* (Slip: the attempt in progress is not counted.)
Last_Off == attempt > Repairs
Last == attempt + 1 > Repairs
NextAttempt == attempt + 1
\* (Slip: a run whose last repair failed stays completed.)
Verdict_Kept(ok) == IF ok \/ attempt > 0 THEN status ELSE "validation_failed"
Verdict(ok) == IF ok THEN status ELSE "validation_failed"

\* The verify stage, and what follows it: the end of the loop, another
\* attempt, or the refusal of one for want of iterations.
Verify ==
  /\ stage = "check" /\ Persist("verify", attempt + 1)
  /\ IF ~Valid /\ ~Last /\ total = MaxIterations
     THEN Fails("budget_exceeded") /\ UNCHANGED entered
     ELSE /\ passed' = Valid /\ attempt' = NextAttempt /\ erred' = FALSE
          /\ UNCHANGED <<contract, total, text, called, loop, row>>
          /\ IF Valid \/ Last
             THEN /\ stage' = "improve" /\ status' = Verdict(Valid)
                  /\ code' = IF Valid THEN code ELSE "validation_fail"
                  /\ UNCHANGED entered
             ELSE /\ stage' = "execute" /\ entered' = entered \cup {<<"repair", attempt + 2>>}
                  /\ UNCHANGED <<status, code>>
  /\ UNCHANGED faults

------------------------------------------------------------------------------
\* runSelfImprovement.

\* Its catch: the result starts again from zero.
Loses ==
  /\ Fault /\ stage' = "log" /\ si' = "error" /\ counted' = {} /\ queue' = {}
  /\ UNCHANGED <<contract, attempt, total, text, called, erred, passed, status, code,
                 files, proposal, decided, row>>
List ==
  /\ stage = "improve"
  /\ IF contract.improve
     THEN /\ \E listed \in SUBSET {q \in Props : proposal[q] = "pending"} :
               Cardinality(listed) <= Limit /\ queue' = listed
          /\ stage' = "review"
     ELSE stage' = "log" /\ UNCHANGED queue
  /\ UNCHANGED <<contract, attempt, total, text, called, erred, passed, status, code,
                 files, proposal, counted, decided, si, row, faults>>
ListFails == stage = "improve" /\ contract.improve /\ Loses

\* (Slip: counted before the answer is looked at.)
Review_Eager(q) ==
  /\ stage = "review" /\ q \in queue /\ queue' = queue \ {q}
  /\ IF proposal[q] = "pending"
     THEN /\ proposal' = [proposal EXCEPT ![q] = IF q \in Trusted THEN "accepted" ELSE "rejected"]
          /\ decided' = decided \cup {q}
     ELSE UNCHANGED <<proposal, decided>>
  /\ counted' = counted \cup {q}
  /\ UNCHANGED <<run, status, code, files, si, row, faults>>
\* mind_propose action=review: a row decided meanwhile answers with an error,
\* and is not counted.
Review(q) ==
  /\ stage = "review" /\ q \in queue /\ queue' = queue \ {q}
  /\ IF proposal[q] = "pending"
     THEN /\ proposal' = [proposal EXCEPT ![q] = IF q \in Trusted THEN "accepted" ELSE "rejected"]
          /\ decided' = decided \cup {q} /\ counted' = counted \cup {q}
     ELSE UNCHANGED <<proposal, decided, counted>>
  /\ UNCHANGED <<run, status, code, files, si, row, faults>>
\* The call throws, before or after the brain has decided the row.
ReviewFails(q) ==
  /\ stage = "review" /\ q \in queue /\ Fault
  /\ stage' = "log" /\ si' = "error" /\ counted' = {} /\ queue' = {}
  /\ \/ UNCHANGED <<proposal, decided>>
     \/ /\ proposal[q] = "pending" /\ decided' = decided \cup {q}
        /\ proposal' = [proposal EXCEPT ![q] = IF q \in Trusted THEN "accepted" ELSE "rejected"]
  /\ UNCHANGED <<contract, attempt, total, text, called, erred, passed, status, code, files, row>>
\* The telemetry observation.
Telemetry ==
  /\ stage = "review" /\ queue = {}
  /\ stage' = "log" /\ si' = "ok"
  /\ UNCHANGED <<contract, attempt, total, text, called, erred, passed, status, code, files,
                 proposal, queue, counted, decided, row, faults>>
TelemetryFails == stage = "review" /\ queue = {} /\ Loses

\* A person, the daemon or another run decides a proposal.
Others(q) ==
  /\ proposal[q] = "pending" /\ stage # "done"
  /\ proposal' \in {[proposal EXCEPT ![q] = d] : d \in {"accepted", "rejected"}}
  /\ UNCHANGED <<run, status, code, files, queue, counted, decided, si, row, faults>>

------------------------------------------------------------------------------
\* mind_runtime action=log_run.

\* The brain takes a run status of its own list and a known trigger mode; the
\* refusal is an ordinary answer with an error in it.
Logged(st, mode) ==
  st \in {"queued", "running", "succeeded", "failed", "deferred"} /\
  mode \in {"schedule", "webhook", "manual", "delegated"}
LogRun ==
  /\ stage = "log" /\ stage' = "done"
  /\ LET st == IF status = "completed" THEN "completed" ELSE "failed"
     IN row' = IF Logged(st, "duty") THEN st ELSE row
  /\ UNCHANGED <<contract, attempt, total, text, called, erred, passed, status, code, files, loop, faults>>
\* The call throws: a run that had succeeded has not.
LogRunFails ==
  /\ stage = "log" /\ stage' = "done" /\ Fault
  /\ status' = IF status = "completed" THEN "error" ELSE status
  /\ code' = IF status = "completed" THEN "tool_fail" ELSE code
  /\ UNCHANGED <<contract, attempt, total, text, called, erred, passed, files, loop, row>>

Done == stage = "done" /\ UNCHANGED vars

Move ==
  \/ Start \/ Plan \/ Iterate \/ Answer \/ Breaks \/ Verify
  \/ List \/ ListFails \/ Telemetry \/ TelemetryFails \/ LogRun \/ LogRunFails
  \/ \E q \in Props : Review(q) \/ ReviewFails(q)
Next == Move \/ Done \/ \E q \in Props : Others(q)
Spec == Init /\ [][Next]_vars
\* The run is one async function: every await is answered, or times out.
FairSpec == Spec /\ WF_vars(Move)

------------------------------------------------------------------------------
\* Properties.

\* A run that reports "completed" ended in a verify stage whose gates its last
\* answer passed, within the iterations and repairs it was allowed.
CompletedIsVerified ==
  stage = "done" /\ status = "completed" =>
    /\ passed /\ Valid
    /\ <<"verify", attempt>> \in artifacts /\ attempt <= 1 + Repairs

\* Iterations are one budget for the whole run, whatever its repairs.
OneBudget == total <= MaxIterations /\ attempt <= 1 + Repairs

\* Unless the loop reports an error, the proposals the run counts as reviewed
\* are those it decided itself.
CountsTrue == stage = "done" /\ si # "error" => counted = decided

\* The proposals the run counts are those it decided, error or not.
DecisionsReported == stage = "done" => counted = decided

\* Self-improvement runs after a successful verification.
ImprovesAfterSuccess == decided # {} => passed

\* Every stage the run enters leaves an artifact.
EveryStageWrites == stage = "done" => entered \subseteq artifacts

\* A run that reports success has its row in the run ledger.
CompletedIsLogged == stage = "done" /\ status = "completed" => row # "none"

\* A run that stops for want of iterations says so.
BudgetNamed ==
  stage = "done" /\ total = MaxIterations /\ status = "error" /\ ~erred => code # "empty_output"

\* Every run ends.
RunEnds == <>(stage = "done")
==============================================================================
