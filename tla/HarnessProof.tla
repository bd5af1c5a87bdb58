----------------------------- MODULE HarnessProof -----------------------------
(***************************************************************************)
(* Theorems about the harness, for every contract, budget and number of    *)
(* proposals.  What makes "completed means verified" inductive is that     *)
(* everything the gates look at is frozen once the loop is left, and that  *)
(* the loop's counter has room for one more attempt whenever it is in it.  *)
(***************************************************************************)
EXTENDS MCHarness, Sequences, FiniteSetTheorems, WellFoundedInduction, TLAPS

InLoop == stage \in {"start", "plan", "execute", "check"}
After  == stage \in {"improve", "review", "log", "done"}

\* In the loop an attempt is still allowed; behind it, "completed" is the
\* verdict on the answer the verify artifact is about.
Loop ==
  /\ InLoop => attempt <= Repairs
  /\ attempt <= 1 + Repairs
  /\ After /\ status = "completed" =>
       passed /\ Valid /\ <<"verify", attempt>> \in artifacts
Inv == TypeOK /\ Loop

\* The repairs a run may make are a number, whatever its contract.
LEMMA RepairsNat == ASSUME TypeOK PROVE Repairs \in Nat
<1>1. contract \in Contract BY HarnessAssumption DEF TypeOK
<1>2. contract.max \in Nat BY <1>1 DEF Contract
<1>3. contract.repair \in BOOLEAN BY <1>1 DEF Contract
<1>4. CASE contract.repair BY <1>2, <1>4, HarnessAssumption DEF Repairs
<1>5. CASE ~contract.repair BY <1>5 DEF Repairs
<1> QED BY <1>4, <1>5

\* runAgent's initial values satisfy the invariant.
THEOREM InitInv == Init => Inv
<1>1. Init => TypeOK
  <2> SUFFICES ASSUME Init PROVE TypeOK OBVIOUS
  <2>1. proposal \in [Props -> {"pending", "accepted", "rejected"}] BY DEF Init
  <2>2. total \in 0..MaxIterations /\ faults \in 0..MaxFaults
    BY HarnessAssumption DEF Init
  <2>3. attempt \in Nat BY DEF Init
  <2>4. called \in SUBSET Tools /\ text \in Texts /\ code \in Codes
    BY DEF Init, Texts, Codes
  <2>5. artifacts = {} /\ ledger = {} /\ entered = {} /\ queue = {} /\ counted = {} /\ decided = {}
    BY DEF Init
  <2>6. passed \in BOOLEAN /\ erred \in BOOLEAN BY DEF Init
  <2>7. contract \in Contracts /\ stage = "start" /\ status = "completed" /\ si = "none" /\ row = "none"
    BY DEF Init
  <2> QED BY <2>1, <2>2, <2>3, <2>4, <2>5, <2>6, <2>7 DEF TypeOK
<1>2. Init /\ TypeOK => Loop
  <2> SUFFICES ASSUME Init, TypeOK PROVE Loop OBVIOUS
  <2>1. Repairs \in Nat BY RepairsNat
  <2>2. attempt = 0 /\ stage = "start" BY DEF Init
  <2>3. attempt <= Repairs /\ attempt <= 1 + Repairs BY <2>1, <2>2
  <2> QED BY <2>2, <2>3 DEF Loop, After
<1> QED BY <1>1, <1>2 DEF Inv

------------------------------------------------------------------------------
\* Steps that end the run by an exception.
LEMMA FailsKeeps ==
  ASSUME Inv, NEW c \in Codes, Fails(c), artifacts' \in SUBSET (Stages \X Nat),
         ledger' \in SUBSET (Stages \X Nat), entered' \in SUBSET (Stages \X Nat),
         faults' \in 0..MaxFaults
  PROVE  Inv'
<1>1. TypeOK'
  BY DEF Inv, TypeOK, Fails, loop
<1>2. status' # "completed"
  BY DEF Fails
<1>3. Repairs' = Repairs
  BY DEF Fails, Repairs
<1>4. Loop'
  BY <1>2, <1>3 DEF Inv, Loop, Fails, InLoop, After
<1> QED BY <1>1, <1>4 DEF Inv

\* Steps of the loop before its verdict: they stay in it and keep the counter.
LEMMA LoopKeeps ==
  ASSUME Inv, InLoop, TypeOK', stage' \in {"plan", "execute", "check"},
         UNCHANGED <<contract, attempt, status>>
  PROVE  Inv'
<1>1. Repairs' = Repairs
  BY DEF Repairs
<1> QED BY <1>1 DEF Inv, Loop, InLoop, After

\* Steps behind the loop: the gates' operands stand still.
LEMMA AfterKeeps ==
  ASSUME Inv, After, TypeOK', stage' \in {"improve", "review", "log", "done"},
         status' \in {status, "error"},
         UNCHANGED <<contract, attempt, total, text, called, passed, artifacts>>
  PROVE  Inv'
<1>1. Repairs' = Repairs /\ Valid' = Valid
  BY DEF Repairs, Valid
<1>2. Loop'
  BY <1>1 DEF Inv, Loop, InLoop, After
<1> QED BY <1>2 DEF Inv

\* The bound on failed calls is kept by a step that uses one.
LEMMA FaultCount == ASSUME Inv, Fault PROVE faults' \in 0..MaxFaults
  BY HarnessAssumption DEF Inv, TypeOK, Fault

\* persistStageArtifact keeps both stores sets of stage artifacts.
LEMMA Persisted ==
  ASSUME Inv, NEW st \in Stages, NEW n \in Nat, Persist(st, n)
  PROVE  artifacts' \in SUBSET (Stages \X Nat) /\ ledger' \in SUBSET (Stages \X Nat)
  BY DEF Inv, TypeOK, Persist

------------------------------------------------------------------------------
\* Loading the harness and waking keep the invariant.
LEMMA StartKeeps == Inv /\ Start => Inv'
<1> SUFFICES ASSUME Inv, Start PROVE Inv' OBVIOUS
<1>1. CASE Fault /\ \E c \in {"contract_fail", "none"} : Throws(c)
  <2>1. PICK c \in {"contract_fail", "none"} : Throws(c) BY <1>1
  <2>2. c \in Codes BY DEF Codes
  <2>3. faults' \in 0..MaxFaults BY <1>1, FaultCount
  <2> QED BY <2>1, <2>2, <2>3, FailsKeeps DEF Throws, files, Inv, TypeOK
<1>2. CASE /\ stage' = "plan" /\ called' = {"mind_wake"} /\ entered' = {<<"plan", 1>>}
           /\ UNCHANGED <<contract, attempt, total, text, erred, passed, status, code,
                          artifacts, ledger, loop, row, faults>>
  <2>1. TypeOK'
    BY <1>2, HarnessAssumption DEF Inv, TypeOK, loop, Stages
  <2>2. InLoop BY DEF Start, InLoop
  <2> QED BY <1>2, <2>1, <2>2, LoopKeeps
<1> QED BY <1>1, <1>2 DEF Start

\* The plan stage keeps it.
LEMMA PlanKeeps == Inv /\ Plan => Inv'
<1> SUFFICES ASSUME Inv, Plan PROVE Inv' OBVIOUS
<1>1. CASE Throws("empty_output") /\ UNCHANGED faults
  <2>1. "empty_output" \in Codes BY DEF Codes
  <2> QED BY <1>1, <2>1, FailsKeeps DEF Throws, files, Inv, TypeOK
<1>2. CASE Fault /\ \E c \in {"timeout", "none"} : Throws(c)
  <2>1. PICK c \in {"timeout", "none"} : Throws(c) BY <1>2
  <2>2. c \in Codes BY DEF Codes
  <2>3. faults' \in 0..MaxFaults BY <1>2, FaultCount
  <2> QED BY <2>1, <2>2, <2>3, FailsKeeps DEF Throws, files, Inv, TypeOK
<1>3. CASE /\ stage' = "execute" /\ Persist("plan", 1) /\ entered' = entered \cup {<<"execute", 1>>}
           /\ UNCHANGED <<contract, attempt, total, text, called, erred, passed, status, code,
                          loop, row, faults>>
  <2>1. TypeOK'
    BY <1>3 DEF Inv, TypeOK, loop, Stages, Persist
  <2>2. InLoop BY DEF Plan, InLoop
  <2> QED BY <1>3, <2>1, <2>2, LoopKeeps
<1> QED BY <1>1, <1>2, <1>3 DEF Plan

\* One iteration with tools keeps it.
LEMMA IterateKeeps == Inv /\ Iterate => Inv'
<1> SUFFICES ASSUME Inv, Iterate PROVE Inv' OBVIOUS
<1>1. faults' \in 0..MaxFaults
  BY FaultCount DEF Iterate, Inv, TypeOK
<1>2. total' \in 0..MaxIterations
  BY HarnessAssumption DEF Iterate, Inv, TypeOK
<1>3. called' \in SUBSET Tools /\ erred' \in BOOLEAN
  BY DEF Iterate, Inv, TypeOK
<1>4. TypeOK'
  BY <1>1, <1>2, <1>3 DEF Iterate, Inv, TypeOK, files, loop
<1>5. InLoop /\ stage' = "execute" BY DEF Iterate, InLoop
<1> QED BY <1>4, <1>5, LoopKeeps DEF Iterate

\* The end of an execute or repair stage keeps it.
LEMMA AnswerKeeps == Inv /\ Answer => Inv'
<1> SUFFICES ASSUME Inv, Answer PROVE Inv' OBVIOUS
<1> DEFINE Ts == IF total < MaxIterations THEN Texts ELSE {"empty"}
<1>1. PICK t \in Ts :
        IF t = "empty"
        THEN /\ Persist(Current, attempt + 1) /\ UNCHANGED <<entered, faults>>
             /\ Fails(IF erred THEN "tool_fail" ELSE "empty_output")
        ELSE /\ text' = t /\ stage' = "check"
             /\ Persist(Current, attempt + 1) /\ entered' = entered \cup {<<"verify", attempt + 1>>}
             /\ UNCHANGED <<contract, attempt, total, called, erred, passed, status, code,
                            loop, row, faults>>
  BY DEF Answer
<1>2. t \in Texts BY DEF Texts
<1>3. Current \in Stages /\ attempt + 1 \in Nat
  BY DEF Current, Stages, Inv, TypeOK
<1>4. Persist(Current, attempt + 1) BY <1>1
<1>5. artifacts' \in SUBSET (Stages \X Nat) /\ ledger' \in SUBSET (Stages \X Nat)
  BY <1>3, <1>4, Persisted
<1>6. CASE t = "empty"
  <2> DEFINE c == IF erred THEN "tool_fail" ELSE "empty_output"
  <2>1. c \in Codes BY DEF Codes
  <2>2. Fails(c) /\ UNCHANGED <<entered, faults>> BY <1>1, <1>6
  <2> HIDE DEF c
  <2> QED BY <2>1, <2>2, <1>5, FailsKeeps DEF Inv, TypeOK
<1>7. CASE t # "empty"
  <2>1. TypeOK'
    BY <1>1, <1>2, <1>3, <1>5, <1>7 DEF Inv, TypeOK, loop, Stages
  <2>2. InLoop BY DEF Answer, InLoop
  <2> QED BY <1>1, <1>7, <2>1, <2>2, LoopKeeps
<1> QED BY <1>6, <1>7

\* A stage that throws keeps it.
LEMMA BreaksKeeps == Inv /\ Breaks => Inv'
<1> SUFFICES ASSUME Inv, Breaks PROVE Inv' OBVIOUS
<1>1. faults' \in 0..MaxFaults BY FaultCount DEF Breaks
<1>2. CASE \E c \in {"timeout", "none"} : Throws(c)
  <2>1. PICK c \in {"timeout", "none"} : Throws(c) BY <1>2
  <2>2. c \in Codes BY DEF Codes
  <2> QED BY <1>1, <2>1, <2>2, FailsKeeps DEF Throws, files, Inv, TypeOK
<1>3. CASE /\ artifacts' = artifacts \cup {<<Current, attempt + 1>>}
           /\ Fails("none") /\ UNCHANGED <<ledger, entered>>
  <2>1. "none" \in Codes BY DEF Codes
  <2>2. artifacts' \in SUBSET (Stages \X Nat)
    BY <1>3 DEF Inv, TypeOK, Current, Stages
  <2> QED BY <1>1, <1>3, <2>1, <2>2, FailsKeeps DEF Inv, TypeOK
<1> QED BY <1>2, <1>3 DEF Breaks

\* The verify stage keeps it: the one place where a run becomes verified.
LEMMA VerifyKeeps == Inv /\ Verify => Inv'
<1> SUFFICES ASSUME Inv, Verify PROVE Inv' OBVIOUS
<1>1. "verify" \in Stages /\ attempt + 1 \in Nat /\ attempt \in Nat
  BY DEF Stages, Inv, TypeOK
<1>2. artifacts' \in SUBSET (Stages \X Nat) /\ ledger' \in SUBSET (Stages \X Nat)
  BY <1>1, Persisted DEF Verify
<1>3. InLoop BY DEF Verify, InLoop
<1>4. CASE ~Valid /\ ~Last /\ total = MaxIterations
  <2>1. "budget_exceeded" \in Codes BY DEF Codes
  <2> QED BY <1>2, <1>4, <2>1, FailsKeeps DEF Verify, Inv, TypeOK
<1>5. CASE ~(~Valid /\ ~Last /\ total = MaxIterations)
  <2>1. /\ passed' = Valid /\ attempt' = attempt + 1 /\ erred' = FALSE
        /\ UNCHANGED <<contract, total, text, called, loop, row, faults>>
    BY <1>5 DEF Verify, NextAttempt
  <2>2. Repairs' = Repairs /\ Repairs \in Nat
    BY <2>1, RepairsNat DEF Repairs, Inv
  <2>3. Valid' = Valid BY <2>1 DEF Valid
  <2>4. attempt <= Repairs BY <1>3 DEF Inv, Loop
  <2>5. <<"verify", attempt'>> \in artifacts' BY <2>1 DEF Verify, Persist
  <2>6. Valid \in BOOLEAN BY DEF Valid
  <2>7. CASE Valid \/ Last
    <3>1. /\ stage' = "improve" /\ status' = Verdict(Valid)
          /\ code' = IF Valid THEN code ELSE "validation_fail"
          /\ UNCHANGED entered
      BY <1>5, <2>7 DEF Verify
    <3>2. TypeOK'
      BY <1>1, <1>2, <2>1, <2>6, <3>1 DEF Inv, TypeOK, loop, Verdict, Codes
    <3>3. status' = "completed" => Valid
      BY <3>1 DEF Verdict
    <3>4. attempt' <= 1 + Repairs' BY <1>1, <2>1, <2>2, <2>4
    <3> QED BY <2>1, <2>3, <2>5, <3>1, <3>2, <3>3, <3>4 DEF Inv, Loop, InLoop
  <2>8. CASE ~(Valid \/ Last)
    <3>1. /\ stage' = "execute" /\ entered' = entered \cup {<<"repair", attempt + 2>>}
          /\ UNCHANGED <<status, code>>
      BY <1>5, <2>8 DEF Verify
    <3>2. attempt + 2 \in Nat /\ "repair" \in Stages BY <1>1 DEF Stages
    <3>3. TypeOK'
      <4>1. entered' \in SUBSET (Stages \X Nat)
        <5>1. entered \in SUBSET (Stages \X Nat) BY DEF Inv, TypeOK
        <5>2. <<"repair", attempt + 2>> \in Stages \X Nat BY <3>2
        <5> QED BY <3>1, <5>1, <5>2
      <4>2. attempt' \in Nat BY <1>1, <2>1
      <4>3. passed' \in BOOLEAN /\ erred' \in BOOLEAN BY <2>1, <2>6
      <4>4. stage' = "execute" /\ UNCHANGED <<status, code>> BY <3>1
      <4>5. UNCHANGED <<contract, total, text, called, loop, row, faults>> BY <2>1
      <4> QED BY <1>2, <4>1, <4>2, <4>3, <4>4, <4>5 DEF Inv, TypeOK, loop
    <3>4. attempt' <= Repairs' BY <1>1, <2>1, <2>2, <2>8 DEF Last
    <3>5. attempt' <= 1 + Repairs' BY <1>1, <2>1, <2>2, <3>4
    <3> QED BY <3>1, <3>3, <3>4, <3>5 DEF Inv, Loop, After
  <2> QED BY <2>7, <2>8
<1> QED BY <1>4, <1>5

------------------------------------------------------------------------------
\* The self-improvement listing, its telemetry and log_run keep it.
LEMMA LoopEndKeeps ==
  Inv /\ (List \/ ListFails \/ Telemetry \/ TelemetryFails \/ LogRun \/ LogRunFails) => Inv'
<1>1. Inv /\ List => Inv'
  <2> SUFFICES ASSUME Inv, List PROVE Inv' OBVIOUS
  <2>1. queue' \in SUBSET Props BY DEF List, Inv, TypeOK
  <2>2. stage' \in {"review", "log"} BY DEF List
  <2>3. TypeOK' BY <2>1, <2>2 DEF List, Inv, TypeOK, files
  <2> QED BY <2>2, <2>3, AfterKeeps DEF List, After, files
<1>2. ASSUME Inv, After, Loses PROVE Inv'
  <2>1. faults' \in 0..MaxFaults BY <1>2, FaultCount DEF Loses
  <2>2. TypeOK' BY <1>2, <2>1 DEF Loses, Inv, TypeOK, files
  <2> QED BY <1>2, <2>2, AfterKeeps DEF Loses, files
<1>3. Inv /\ ListFails => Inv' BY <1>2 DEF ListFails, After
<1>4. Inv /\ TelemetryFails => Inv' BY <1>2 DEF TelemetryFails, After
<1>5. Inv /\ Telemetry => Inv'
  <2> SUFFICES ASSUME Inv, Telemetry PROVE Inv' OBVIOUS
  <2>1. TypeOK' BY DEF Telemetry, Inv, TypeOK, files
  <2> QED BY <2>1, AfterKeeps DEF Telemetry, After, files
<1>6. Inv /\ LogRun => Inv'
  <2> SUFFICES ASSUME Inv, LogRun PROVE Inv' OBVIOUS
  <2>1. row' \in {"none", "succeeded", "failed"} BY DEF LogRun, Logged, Inv, TypeOK
  <2>2. TypeOK' BY <2>1 DEF LogRun, Inv, TypeOK, files, loop
  <2> QED BY <2>2, AfterKeeps DEF LogRun, After, files
<1>7. Inv /\ LogRunFails => Inv'
  <2> SUFFICES ASSUME Inv, LogRunFails PROVE Inv' OBVIOUS
  <2>1. faults' \in 0..MaxFaults BY FaultCount DEF LogRunFails
  <2>2. code' \in Codes BY DEF LogRunFails, Inv, TypeOK, Codes
  <2>3. TypeOK' BY <2>1, <2>2 DEF LogRunFails, Inv, TypeOK, files, loop
  <2> QED BY <2>3, AfterKeeps DEF LogRunFails, After, files
<1> QED BY <1>1, <1>3, <1>4, <1>5, <1>6, <1>7

\* Reviews, by this run or by others, keep it.
LEMMA ReviewKeeps == \A q \in Props : Inv /\ (Review(q) \/ ReviewFails(q) \/ Others(q)) => Inv'
<1> TAKE q \in Props
<1>1. Inv /\ Review(q) => Inv'
  <2> SUFFICES ASSUME Inv, Review(q) PROVE Inv' OBVIOUS
  <2>1. TypeOK' BY DEF Review, Inv, TypeOK, run, files
  <2> QED BY <2>1, AfterKeeps DEF Review, After, run, files
<1>2. Inv /\ ReviewFails(q) => Inv'
  <2> SUFFICES ASSUME Inv, ReviewFails(q) PROVE Inv' OBVIOUS
  <2>1. faults' \in 0..MaxFaults BY FaultCount DEF ReviewFails
  <2>2. TypeOK' BY <2>1 DEF ReviewFails, Inv, TypeOK, files
  <2> QED BY <2>2, AfterKeeps DEF ReviewFails, After, files
<1>3. Inv /\ Others(q) => Inv'
  <2> SUFFICES ASSUME Inv, Others(q) PROVE Inv' OBVIOUS
  <2>1. TypeOK' BY DEF Others, Inv, TypeOK, run, files
  <2>2. Repairs' = Repairs /\ Valid' = Valid BY DEF Others, run, Repairs, Valid
  <2> QED BY <2>1, <2>2 DEF Others, Inv, Loop, InLoop, After, run, files
<1> QED BY <1>1, <1>2, <1>3

\* A step that changes nothing keeps it.
LEMMA StutterKeeps == Inv /\ UNCHANGED vars => Inv'
  BY DEF Inv, TypeOK, Loop, InLoop, After, Repairs, Valid, vars, run, files, loop

\* Every step of the run keeps the invariant.
THEOREM StepInv == Inv /\ [Next]_vars => Inv'
<1> SUFFICES ASSUME Inv, [Next]_vars PROVE Inv' OBVIOUS
<1>1. CASE Next
  BY <1>1, StartKeeps, PlanKeeps, IterateKeeps, AnswerKeeps, BreaksKeeps, VerifyKeeps,
     LoopEndKeeps, ReviewKeeps, StutterKeeps DEF Next, Move, Done
<1>2. CASE UNCHANGED vars BY <1>2, StutterKeeps
<1> QED BY <1>1, <1>2

\* The harness's variables keep their types for every contract and every bound.
THEOREM HarnessTypeCorrect == Spec => []TypeOK
<1>1. Inv => TypeOK BY DEF Inv
<1> QED BY <1>1, InitInv, StepInv, PTL DEF Spec

\* Whatever the contract: a run that reports "completed" passed its gates with
\* its last answer, and left the verify artifact that says so.
THEOREM CompletedVerified == Spec => []CompletedIsVerified
<1>1. Inv => CompletedIsVerified
  BY DEF Inv, Loop, After, CompletedIsVerified
<1> QED BY <1>1, InitInv, StepInv, PTL DEF Spec

\* Iterations and repairs stay within what configuration and contract allow.
THEOREM BudgetKept == Spec => []OneBudget
<1>1. Inv => OneBudget
  BY HarnessAssumption DEF Inv, TypeOK, Loop, OneBudget
<1> QED BY <1>1, InitInv, StepInv, PTL DEF Spec

------------------------------------------------------------------------------
\* Counts.

\* The result's count and the decisions go together until the loop gives up: its
\* catch starts the count from zero, and says so in si; nothing of the loop runs
\* after that, so that no later success can cover it.
Counts ==
  /\ si # "error" => counted = decided
  /\ si = "error" => stage \in {"log", "done"}

LEMMA CountsStep == Counts /\ [Next]_vars => Counts'
<1> SUFFICES ASSUME Counts, [Next]_vars PROVE Counts' OBVIOUS
<1> USE DEF Counts
<1>1. ASSUME UNCHANGED <<counted, decided, si>>, stage' \in {stage, "log", "done"} \/ stage \notin {"log", "done"}
      PROVE  Counts'
  BY <1>1
<1>2. ASSUME NEW q \in Props, Review(q) PROVE Counts'
  BY <1>2 DEF Review, run
<1>3. ASSUME NEW q \in Props, ReviewFails(q) PROVE Counts'
  BY <1>3 DEF ReviewFails
<1>4. CASE ListFails \/ TelemetryFails
  BY <1>4 DEF ListFails, TelemetryFails, Loses
<1>5. CASE Telemetry
  BY <1>5 DEF Telemetry
<1>6. CASE Start \/ Plan
  BY <1>1, <1>6 DEF Start, Plan, Throws, Fails, loop
<1>7. CASE Iterate \/ Breaks
  BY <1>1, <1>7 DEF Iterate, Breaks, Throws, Fails, loop
<1>8. CASE Answer
  BY <1>1, <1>8 DEF Answer, Fails, loop
<1>9. CASE Verify
  <2>1. UNCHANGED loop /\ stage = "check"
    BY <1>9 DEF Verify, Fails
  <2> QED BY <1>1, <2>1 DEF loop
<1>10. CASE List
  BY <1>1, <1>10 DEF List
<1>11. CASE LogRun \/ LogRunFails
  BY <1>1, <1>11 DEF LogRun, LogRunFails, loop
<1>12. CASE UNCHANGED vars
  BY <1>1, <1>12 DEF vars, run, loop
<1>13. ASSUME NEW q \in Props, Others(q) PROVE Counts'
  BY <1>1, <1>13 DEF Others, run
<1> QED
  BY <1>2, <1>3, <1>4, <1>5, <1>6, <1>7, <1>8, <1>9, <1>10, <1>11, <1>12, <1>13 DEF Next, Move, Done

\* Whoever else decides the same proposals, and wherever a call fails: a run whose
\* loop reports no error counts the rows it decided and no other
\* (CountsTrue; runSelfImprovement).
THEOREM CountsAreTrue == Spec => []CountsTrue
<1>1. Init => Counts
  BY DEF Init, Counts
<1>2. Counts => CountsTrue
  BY DEF Counts, CountsTrue
<1> QED BY <1>1, <1>2, CountsStep, PTL DEF Spec
------------------------------------------------------------------------------
\* The voice bridge.  Its memory, the state file and Telegram may each be behind
\* the others, but none is ever ahead of what was stored: that is what survives a
\* crash, a file that cannot be read and a batch dropped in the middle.

BTyped ==
  /\ arrived \in 0..Updates /\ forgotten \in Nat /\ offset \in Nat /\ file \in Int
  /\ rows \in Seq(Nat) /\ pc \in {"poll", "handle", "observe", "ack", "save", "down"}
  /\ stored \in [Voiced -> Nat] /\ vFaults \in Nat /\ vCrashes \in Nat

\* The batch in hand: consecutive updates, all after the offset, and a next one
\* wherever one is being handled.
InHand ==
  /\ pc \in {"handle", "observe", "ack"} <=> rows # <<>>
  /\ \A i \in 1..Len(rows) : rows[i] = rows[1] + (i - 1)
  /\ rows # <<>> => rows[1] > offset
  /\ pc \in {"observe", "ack"} => rows[1] \in Voiced

\* What anyone takes for done was stored, and so was all before the next update.
Kept ==
  /\ \A u \in Voiced : u <= forgotten \/ u <= offset \/ u <= file => stored[u] > 0
  /\ rows # <<>> => \A u \in Voiced : u < rows[1] => stored[u] > 0
  /\ pc = "ack" => stored[rows[1]] > 0
  /\ Bridge!StoredInOrder

\* An update still to come was stored only by attempts that failed.
Owed(u) == u \in Voiced /\ (pc = "down" \/ (u > offset /\ ~(pc = "ack" /\ u = rows[1])))
Repeats ==
  /\ \A u \in Voiced : stored[u] <= 1 + vFaults + vCrashes
  /\ \A u \in Voiced : Owed(u) => stored[u] <= vFaults + vCrashes

BInv == BTyped /\ InHand /\ Kept /\ Repeats

LEMMA BridgeInit == Bridge!Init => BInv
<1> SUFFICES ASSUME Bridge!Init PROVE BInv OBVIOUS
<1>1. Updates \in Nat /\ Voiced \subseteq 1..Updates
  BY HeardAssumption DEF Bridge!BridgeAssumption
<1>2. BTyped BY <1>1 DEF Bridge!Init, BTyped
<1>3. InHand BY DEF Bridge!Init, InHand
<1>4. Kept BY <1>1 DEF Bridge!Init, Kept, Bridge!StoredInOrder
<1>5. Repeats BY DEF Bridge!Init, Repeats, Owed
<1> QED BY <1>2, <1>3, <1>4, <1>5 DEF BInv

\* A tick's catch drops the batch.  If no more was stored than the faults now
\* explain, the invariant is kept.
LEMMA TickKeeps ==
  ASSUME BInv, Bridge!Tick, UNCHANGED <<arrived, forgotten, file, vCrashes>>,
         stored' \in [Voiced -> Nat], vFaults' \in Nat, Bridge!StoredInOrder',
         \A u \in Voiced : stored'[u] >= stored[u],
         \A u \in Voiced : stored'[u] <= 1 + vFaults' + vCrashes',
         \A u \in Voiced : u > offset => stored'[u] <= vFaults' + vCrashes'
  PROVE  BInv'
<1>1. BTyped' BY DEF BInv, BTyped, Bridge!Tick
<1>2. InHand' BY DEF InHand, Bridge!Tick
<1>3. Kept' BY DEF BInv, BTyped, Kept, Bridge!Tick
<1>4. Repeats' BY DEF BInv, BTyped, Repeats, Owed, Bridge!Tick
<1> QED BY <1>1, <1>2, <1>3, <1>4 DEF BInv

\* The offset may follow the row in hand once that was stored, if it is a voice message.
LEMMA AdvanceKeeps ==
  ASSUME BInv, pc \in {"handle", "ack"}, rows[1] \in Voiced => pc = "ack", Bridge!Advance,
         UNCHANGED <<arrived, forgotten, file, stored, vFaults, vCrashes>>
  PROVE  BInv'
<1>1. rows \in Seq(Nat) /\ rows # <<>> /\ Head(rows) = rows[1] /\ rows[1] \in Nat
  BY DEF BInv, BTyped, InHand
<1>2. offset \in Nat /\ rows[1] > offset BY <1>1 DEF BInv, BTyped, InHand
<1>3. offset' = rows[1] BY <1>1, <1>2 DEF Bridge!Advance
<1>4. Tail(rows) \in Seq(Nat) /\ Len(Tail(rows)) = Len(rows) - 1
  /\ \A i \in 1..Len(Tail(rows)) : Tail(rows)[i] = rows[i + 1]
  BY <1>1
<1>5. \A i \in 1..Len(Tail(rows)) : Tail(rows)[i] = rows[1] + i
  <2> SUFFICES ASSUME NEW i \in 1..Len(Tail(rows)) PROVE Tail(rows)[i] = rows[1] + i OBVIOUS
  <2>1. i + 1 \in 1..Len(rows) /\ (i + 1) - 1 = i BY <1>1, <1>4
  <2>2. rows[i + 1] = rows[1] + ((i + 1) - 1) BY <2>1 DEF BInv, InHand
  <2> QED BY <1>4, <2>1, <2>2
<1>6. rows' = Tail(rows) /\ pc' = IF rows' = <<>> THEN "save" ELSE "handle"
  BY DEF Bridge!Advance
<1>7. rows' # <<>> => rows'[1] = rows[1] + 1
  <2> SUFFICES ASSUME rows' # <<>> PROVE rows'[1] = rows[1] + 1 OBVIOUS
  <2>1. 1 \in 1..Len(Tail(rows)) BY <1>1, <1>4, <1>6
  <2> QED BY <1>5, <1>6, <2>1
<1>8. BTyped' BY <1>1, <1>3, <1>4, <1>6 DEF BInv, BTyped
<1>9. InHand'
  <2>1. \A i \in 1..Len(rows') : rows'[i] = rows'[1] + (i - 1)
    <3> SUFFICES ASSUME NEW i \in 1..Len(rows') PROVE rows'[i] = rows'[1] + (i - 1) OBVIOUS
    <3>1. rows' # <<>> /\ i \in Nat BY <1>4, <1>6
    <3>2. rows'[i] = rows[1] + i /\ rows'[1] = rows[1] + 1 BY <1>5, <1>6, <1>7, <3>1
    <3> QED BY <3>1, <3>2, <1>1
  <2> QED BY SMTT(30), <2>1, <1>1, <1>3, <1>6, <1>7 DEF InHand
<1>10. \A u \in Voiced : u \in Nat
  BY HeardAssumption DEF Bridge!BridgeAssumption
<1>11. \A u \in Voiced : u <= rows[1] => stored[u] > 0
  BY <1>1, <1>10 DEF BInv, Kept
<1>12. pc' \in {"save", "handle"} BY <1>6
<1>13. Kept'
  <2>1. \A u \in Voiced : u <= forgotten' \/ u <= offset' \/ u <= file' => stored'[u] > 0
    BY <1>3, <1>11 DEF BInv, Kept
  <2>2. rows' # <<>> => \A u \in Voiced : u < rows'[1] => stored'[u] > 0
    BY <1>1, <1>7, <1>10, <1>11
  <2>3. Bridge!StoredInOrder' BY DEF BInv, Kept, Bridge!StoredInOrder
  <2> QED BY <1>12, <2>1, <2>2, <2>3 DEF Kept
<1>14. Repeats'
  <2>1. \A u \in Voiced : stored'[u] <= 1 + vFaults' + vCrashes' BY DEF BInv, Repeats
  <2>2. ASSUME NEW u \in Voiced, Owed(u)' PROVE stored'[u] <= vFaults' + vCrashes'
    <3>1. u > rows[1] BY <1>3, <1>12, <2>2 DEF Owed
    <3>2. u > offset /\ u # rows[1] BY <1>1, <1>2, <1>10, <3>1
    <3>3. Owed(u) BY <3>2 DEF Owed
    <3> QED BY <3>3 DEF BInv, Repeats
  <2> QED BY <2>1, <2>2 DEF Repeats
<1> QED BY <1>8, <1>9, <1>13, <1>14 DEF BInv

LEMMA PollKeeps == ASSUME BInv, Bridge!Poll PROVE BInv'
<1> DEFINE a == Bridge!After
           top == IF arrived < a + Size THEN arrived ELSE a + Size
<1>1. Updates \in Nat /\ Size \in Nat \ {0} /\ \A u \in Voiced : u \in Nat
  BY HeardAssumption DEF Bridge!BridgeAssumption
<1>2. a \in Nat /\ a >= offset /\ a >= forgotten /\ (a = offset \/ a = forgotten)
  BY DEF Bridge!After, BInv, BTyped
<1>3. a < arrived /\ arrived \in Nat /\ top \in Nat /\ top - a \in Nat \ {0}
  BY <1>1, <1>2 DEF Bridge!Poll, BInv, BTyped
<1>4. rows' = [i \in 1..(top - a) |-> a + i] BY DEF Bridge!Poll
<1>5. UNCHANGED <<arrived, offset, file, stored, vFaults, vCrashes>> /\ pc' = "handle" /\ pc = "poll"
  BY DEF Bridge!Poll
<1>6. forgotten' \in {offset, forgotten}
  BY DEF Bridge!Poll, Bridge!Confirms
<1> HIDE DEF a, top
<1>7. rows' \in Seq(Nat) /\ Len(rows') = top - a /\ rows' # <<>> /\ rows'[1] = a + 1
  /\ \A i \in 1..Len(rows') : rows'[i] = a + i
  <2>1. \A i \in 1..(top - a) : a + i \in Nat BY <1>2, <1>3
  <2>2. rows' \in Seq(Nat) /\ Len(rows') = top - a BY <1>3, <1>4, <2>1
  <2>3. 1 \in 1..(top - a) BY <1>3
  <2> QED BY <1>3, <1>4, <2>2, <2>3
<1>8. BTyped' BY <1>5, <1>6, <1>7 DEF BInv, BTyped
<1>9. InHand'
  <2>1. \A i \in 1..Len(rows') : rows'[i] = rows'[1] + (i - 1) BY <1>2, <1>3, <1>7
  <2> QED BY <2>1, <1>2, <1>5, <1>7 DEF InHand, BInv, BTyped
<1>10. Kept'
  BY <1>1, <1>2, <1>5, <1>6, <1>7 DEF BInv, BTyped, Kept, Bridge!StoredInOrder
<1>11. Repeats' BY <1>5 DEF BInv, Repeats, Owed
<1> QED BY <1>8, <1>9, <1>10, <1>11 DEF BInv

\* Storing a row adds one to its count; everything before it was stored.
LEMMA StoresNext ==
  ASSUME BInv, pc = "observe", stored' = [stored EXCEPT ![Head(rows)] = @ + 1]
  PROVE  /\ stored' \in [Voiced -> Nat] /\ stored'[rows[1]] = stored[rows[1]] + 1
         /\ \A u \in Voiced : u # rows[1] => stored'[u] = stored[u]
         /\ \A u \in Voiced : stored'[u] >= stored[u]
         /\ Bridge!StoredInOrder'
         /\ stored[rows[1]] <= vFaults + vCrashes
<1>1. rows # <<>> /\ Head(rows) = rows[1] /\ rows[1] \in Voiced /\ rows[1] > offset
  BY DEF BInv, BTyped, InHand
<1>2. \A u \in Voiced : u \in Nat
  BY HeardAssumption DEF Bridge!BridgeAssumption
<1>3. stored \in [Voiced -> Nat] BY DEF BInv, BTyped
<1>4. stored' \in [Voiced -> Nat] /\ stored'[rows[1]] = stored[rows[1]] + 1
      /\ \A u \in Voiced : u # rows[1] => stored'[u] = stored[u]
  BY <1>1, <1>3
<1>5. \A u \in Voiced : stored'[u] >= stored[u] BY <1>3, <1>4
<1>6. Bridge!StoredInOrder'
  BY <1>1, <1>2, <1>3, <1>4 DEF BInv, Kept, Bridge!StoredInOrder
<1>7. stored[rows[1]] <= vFaults + vCrashes
  BY <1>1, <1>2, <1>3 DEF BInv, Repeats, Owed
<1> QED BY <1>4, <1>5, <1>6, <1>7

LEMMA ObserveKeeps == ASSUME BInv, Bridge!Observe PROVE BInv'
<1>1. pc = "observe" /\ UNCHANGED <<arrived, forgotten, file, vCrashes>>
  BY DEF Bridge!Observe
<1>2. rows # <<>> /\ rows[1] \in Voiced /\ stored \in [Voiced -> Nat]
  /\ offset \in Nat /\ vFaults \in Nat /\ vCrashes \in Nat /\ rows[1] > offset
  BY <1>1 DEF BInv, BTyped, InHand
<1>3. \A u \in Voiced : u \in Nat
  BY HeardAssumption DEF Bridge!BridgeAssumption
<1>4. CASE /\ stored' = [stored EXCEPT ![Head(rows)] = @ + 1]
           /\ pc' = "ack" /\ UNCHANGED <<offset, rows, vFaults>>
  <2>1. /\ stored' \in [Voiced -> Nat] /\ stored'[rows[1]] = stored[rows[1]] + 1
        /\ \A u \in Voiced : u # rows[1] => stored'[u] = stored[u]
        /\ \A u \in Voiced : stored'[u] >= stored[u]
        /\ Bridge!StoredInOrder' /\ stored[rows[1]] <= vFaults + vCrashes
    BY <1>1, <1>4, StoresNext
  <2>2. BTyped' BY <1>1, <1>4, <2>1 DEF BInv, BTyped
  <2>3. InHand' BY <1>1, <1>2, <1>4 DEF BInv, InHand
  <2>4. Kept' BY <1>1, <1>2, <1>4, <2>1 DEF BInv, BTyped, Kept
  <2>5. Repeats' BY <1>1, <1>2, <1>3, <1>4, <2>1 DEF BInv, Repeats, Owed
  <2> QED BY <2>2, <2>3, <2>4, <2>5 DEF BInv
<1>5. CASE /\ Bridge!Fault /\ Bridge!Tick
           /\ stored' \in {stored, [stored EXCEPT ![Head(rows)] = @ + 1]}
  <2>1. vFaults' = vFaults + 1 BY <1>5 DEF Bridge!Fault
  <2>2. CASE stored' = stored
    <3>1. Bridge!StoredInOrder' BY <2>2 DEF BInv, Kept, Bridge!StoredInOrder
    <3>2. \A u \in Voiced : stored'[u] <= vFaults' + vCrashes'
      BY <1>1, <1>2, <2>1, <2>2 DEF BInv, Repeats
    <3> QED BY <1>1, <1>2, <1>5, <2>1, <2>2, <3>1, <3>2, TickKeeps
  <2>3. CASE stored' = [stored EXCEPT ![Head(rows)] = @ + 1]
    <3>1. /\ stored' \in [Voiced -> Nat] /\ stored'[rows[1]] = stored[rows[1]] + 1
          /\ \A u \in Voiced : u # rows[1] => stored'[u] = stored[u]
          /\ \A u \in Voiced : stored'[u] >= stored[u]
          /\ Bridge!StoredInOrder' /\ stored[rows[1]] <= vFaults + vCrashes
      BY <1>1, <2>3, StoresNext
    <3>2. \A u \in Voiced : stored'[u] <= vFaults' + vCrashes'
      <4> SUFFICES ASSUME NEW u \in Voiced PROVE stored'[u] <= vFaults' + vCrashes' OBVIOUS
      <4>1. CASE u = rows[1] BY <4>1, <1>1, <1>2, <2>1, <3>1
      <4>2. CASE u # rows[1] BY <4>2, <1>1, <1>2, <2>1, <3>1 DEF BInv, Repeats
      <4> QED BY <4>1, <4>2
    <3> QED BY <1>1, <1>2, <1>5, <2>1, <3>1, <3>2, TickKeeps
  <2> QED BY <1>5, <2>2, <2>3
<1> QED BY <1>4, <1>5 DEF Bridge!Observe

\* A fault with nothing stored.
LEMMA FaultKeeps ==
  ASSUME BInv, Bridge!Fault, Bridge!Tick, UNCHANGED <<arrived, forgotten, file, stored, vCrashes>>
  PROVE  BInv'
<1>1. vFaults' = vFaults + 1 /\ vFaults \in Nat /\ vCrashes \in Nat /\ stored \in [Voiced -> Nat]
  BY DEF Bridge!Fault, BInv, BTyped
<1>2. Bridge!StoredInOrder' BY DEF BInv, Kept, Bridge!StoredInOrder
<1>3. \A u \in Voiced : stored'[u] <= vFaults' + vCrashes'
  BY <1>1 DEF BInv, Repeats
<1> QED BY <1>1, <1>2, <1>3, TickKeeps

LEMMA BridgeStep == ASSUME BInv, Bridge!Next PROVE BInv'
<1>0. \A u \in Voiced : u \in Nat
  BY HeardAssumption DEF Bridge!BridgeAssumption
<1>1. CASE Bridge!Arrive
  <2>1. BTyped'
    BY <1>1, HeardAssumption DEF Bridge!BridgeAssumption, Bridge!Arrive, Bridge!bridge, BInv, BTyped
  <2>2. InHand' BY <1>1 DEF Bridge!Arrive, Bridge!bridge, BInv, InHand
  <2>3. Kept' BY <1>1 DEF Bridge!Arrive, Bridge!bridge, BInv, Kept, Bridge!StoredInOrder
  <2>4. Repeats' BY <1>1 DEF Bridge!Arrive, Bridge!bridge, BInv, Repeats, Owed
  <2> QED BY <2>1, <2>2, <2>3, <2>4 DEF BInv
<1>2. CASE Bridge!Poll BY <1>2, PollKeeps
<1>3. CASE Bridge!PollFails
  <2>1. pc = "poll" /\ vFaults' = vFaults + 1
    /\ UNCHANGED <<arrived, forgotten, offset, rows, pc, file, stored, vCrashes>>
    BY <1>3 DEF Bridge!PollFails, Bridge!Fault, Bridge!bridge
  <2>2. BTyped' BY <2>1 DEF BInv, BTyped
  <2>3. InHand' BY <2>1 DEF BInv, InHand
  <2>4. Kept' BY <2>1 DEF BInv, Kept, Bridge!StoredInOrder
  <2>5. Repeats' BY <2>1 DEF BInv, BTyped, Repeats, Owed
  <2> QED BY <2>2, <2>3, <2>4, <2>5 DEF BInv
<1>4. CASE Bridge!Skip
  <2>1. Head(rows) = rows[1] BY <1>4 DEF Bridge!Skip, BInv, BTyped, InHand
  <2> QED BY <1>4, <2>1, AdvanceKeeps DEF Bridge!Skip
<1>5. CASE Bridge!Transcribe
  <2>1. pc = "handle" /\ Head(rows) \in Voiced /\ UNCHANGED <<arrived, forgotten, file, stored, vCrashes>>
    BY <1>5 DEF Bridge!Transcribe
  <2>2. CASE pc' = "observe" /\ UNCHANGED <<offset, rows, vFaults>>
    <3>1. rows[1] \in Voiced BY <2>1 DEF BInv, BTyped, InHand
    <3>2. BTyped' BY <2>1, <2>2 DEF BInv, BTyped
    <3>3. InHand' BY <2>1, <2>2, <3>1 DEF BInv, InHand
    <3>4. Kept' BY <2>1, <2>2 DEF BInv, Kept, Bridge!StoredInOrder
    <3>5. Repeats' BY <2>1, <2>2 DEF BInv, Repeats, Owed
    <3> QED BY <3>2, <3>3, <3>4, <3>5 DEF BInv
  <2>3. CASE Bridge!Tick /\ UNCHANGED vFaults
    <3>1. Bridge!StoredInOrder' BY <2>1 DEF BInv, Kept, Bridge!StoredInOrder
    <3>2. \A u \in Voiced : u > offset => stored'[u] <= vFaults' + vCrashes'
      BY <2>1, <2>3 DEF BInv, Repeats, Owed
    <3>3. \A u \in Voiced : stored'[u] <= 1 + vFaults' + vCrashes' /\ stored'[u] >= stored[u]
      BY <2>1, <2>3 DEF BInv, BTyped, Repeats
    <3>4. stored' \in [Voiced -> Nat] /\ vFaults' \in Nat BY <2>1, <2>3 DEF BInv, BTyped
    <3> QED BY <2>1, <2>3, <3>1, <3>2, <3>3, <3>4, TickKeeps
  <2>4. CASE Bridge!Fault /\ Bridge!Tick BY <2>1, <2>4, FaultKeeps
  <2> QED BY <1>5, <2>2, <2>3, <2>4 DEF Bridge!Transcribe
<1>6. CASE Bridge!Observe BY <1>6, ObserveKeeps
<1>7. CASE Bridge!Ack
  <2>1. pc = "ack" /\ UNCHANGED <<arrived, forgotten, file, stored, vCrashes>>
    BY <1>7 DEF Bridge!Ack
  <2>2. CASE Bridge!Advance /\ UNCHANGED vFaults BY <2>1, <2>2, AdvanceKeeps
  <2>3. CASE Bridge!Fault /\ Bridge!Tick BY <2>1, <2>3, FaultKeeps
  <2> QED BY <1>7, <2>2, <2>3 DEF Bridge!Ack
<1>8. CASE Bridge!Save
  <2>1. pc = "save" /\ pc' = "poll" /\ UNCHANGED <<arrived, forgotten, offset, rows, stored, vCrashes>>
    /\ vFaults' \in {vFaults, vFaults + 1} /\ file' \in {file, offset}
    BY <1>8 DEF Bridge!Save, Bridge!Fault
  <2>2. BTyped' BY <2>1 DEF BInv, BTyped
  <2>3. InHand' BY <2>1 DEF BInv, InHand
  <2>4. Kept' BY <2>1 DEF BInv, Kept, Bridge!StoredInOrder
  <2>5. Repeats' BY <2>1 DEF BInv, BTyped, Repeats, Owed
  <2> QED BY <2>2, <2>3, <2>4, <2>5 DEF BInv
<1>9. CASE Bridge!Crash
  <2>1. pc' = "down" /\ rows' = <<>> /\ file' \in {file, -1} /\ vCrashes' = vCrashes + 1
    /\ UNCHANGED <<arrived, forgotten, offset, stored, vFaults>>
    BY <1>9 DEF Bridge!Crash
  <2>2. BTyped' BY <2>1 DEF BInv, BTyped
  <2>3. InHand' BY <2>1 DEF BInv, InHand
  <2>4. Kept' BY <1>0, <2>1 DEF BInv, Kept, Bridge!StoredInOrder
  <2>5. Repeats' BY <2>1 DEF BInv, BTyped, Repeats, Owed
  <2> QED BY <2>2, <2>3, <2>4, <2>5 DEF BInv
<1>10. CASE Bridge!Restart
  <2>1. pc = "down" /\ pc' = "poll" /\ UNCHANGED <<arrived, forgotten, rows, file, stored, vFaults, vCrashes>>
    /\ file \in Int /\ offset' \in Nat /\ (offset' = file \/ offset' = 0)
    BY <1>10 DEF Bridge!Restart, Bridge!Loaded, BInv, BTyped
  <2>2. BTyped' BY <2>1 DEF BInv, BTyped
  <2>3. InHand' BY <2>1 DEF BInv, InHand
  <2>4. Kept'
    <3>1. \A u \in Voiced : u > 0
      BY HeardAssumption DEF Bridge!BridgeAssumption
    <3> QED BY <1>0, <3>1, <2>1 DEF BInv, InHand, Kept, Bridge!StoredInOrder
  <2>5. Repeats' BY <2>1 DEF BInv, BTyped, Repeats, Owed
  <2> QED BY <2>2, <2>3, <2>4, <2>5 DEF BInv
<1> QED BY <1>1, <1>2, <1>3, <1>4, <1>5, <1>6, <1>7, <1>8, <1>9, <1>10 DEF Bridge!Next, Bridge!Bridge

\* However many updates come in whatever batches, whichever calls fail and wherever
\* the process dies: what Telegram has dropped was stored, messages in order, and
\* again only for a failed call or a crash.
THEOREM VoiceIsKept == AllSpec => []VoiceKept
<1>1. AllInit => BInv BY BridgeInit DEF AllInit
<1>2. BInv /\ [AllNext]_all => BInv'
  <2> SUFFICES ASSUME BInv, [AllNext]_all PROVE BInv' OBVIOUS
  <2>1. CASE Bridge!Next BY <2>1, BridgeStep
  <2>2. CASE UNCHANGED Heard
    <3>1. UNCHANGED <<arrived, forgotten, offset, rows, pc, file, stored, vFaults, vCrashes>>
      BY <2>2 DEF Heard
    <3>2. BTyped' BY <3>1 DEF BInv, BTyped
    <3>3. InHand' BY <3>1 DEF BInv, InHand
    <3>4. Kept' BY <3>1 DEF BInv, Kept, Bridge!StoredInOrder
    <3>5. Repeats' BY <3>1 DEF BInv, Repeats, Owed
    <3> QED BY <3>2, <3>3, <3>4, <3>5 DEF BInv
  <2> QED BY <2>1, <2>2 DEF AllNext, all
<1>3. BInv => VoiceKept
  BY DEF BInv, Kept, Repeats, VoiceKept, Bridge!NothingLost, Bridge!RepeatsExplained
<1> QED BY <1>1, <1>2, <1>3, PTL DEF AllSpec
------------------------------------------------------------------------------
(* The document store: methods that overlap *)

\* What is known of a call in flight.
Fields == {"id", "m", "o", "at", "pc", "snap", "rows", "ids"}
CallOk(n) ==
  LET c == calls[n]
  IN  /\ DOMAIN c = Fields
      /\ c.id = n /\ c.m \in AllMethods /\ c.o \in StoreIds /\ c.at \in 1..Len(Serial!Plan(c.m))

CallsOk ==
  /\ DOMAIN calls = 1..StoreCalls /\ started \in Nat /\ DOMAIN doc = Serial!Documents
  /\ \A n \in Serial!InFlight : CallOk(n)

Holds(n, k) == n \in Serial!InFlight /\ calls[n].pc = "write" /\ Serial!Key(calls[n]) = k
In(a, s) == \E r \in s : r.by = a[2] /\ r.of = a[3]

\* Two that hold a copy of one document have clashed; a returned row is in its document and
\* in every copy of it, unless its call clashed; and nobody deletes what it is about.
Clashes ==
  \A n, p \in Serial!InFlight : n # p /\ Holds(n, Serial!Key(calls[p])) /\ Holds(p, Serial!Key(calls[p])) => n \in clashed
Returned(a) ==
  /\ a[1] \in Serial!Lists
  /\ a[2] \in clashed \/ In(a, doc[a[1]])
  /\ \A n \in Serial!InFlight :
       /\ Holds(n, a[1]) => a[2] \in clashed \/ In(a, calls[n].snap)
       /\ calls[n].m = "deleteObservation" => calls[n].o # a[3]
StoreInv == CallsOk /\ Clashes /\ \A a \in added : Returned(a)

\* The methods that write lists.
Listing == {"deleteObservation", "appendLink", "createVersion", "createProcessingEntry", "appendOpenLoop", "createSkill",
            "reviewSkill", "advanceChargePhase"}

LEMMA Plans ==
  /\ \A m \in AllMethods : \A i \in 1..Len(Serial!Plan(m)) : Serial!Plan(m)[i] \in Serial!Documents
  /\ \A m \in AllMethods \ Listing : \A i \in 1..Len(Serial!Plan(m)) : Serial!Plan(m)[i] \notin Serial!Lists
<1>1. \A m \in Listing : \A i \in 1..Len(Serial!Plan(m)) : Serial!Plan(m)[i] \in Serial!Documents
  BY DEF Listing, Serial!Plan, Serial!Documents
<1>2. \A m \in AllMethods \ Listing : \A i \in 1..Len(Serial!Plan(m)) :
        Serial!Plan(m)[i] \in Serial!Documents \ Serial!Lists
  BY DEF Listing, AllMethods, Serial!Plan, Serial!Documents, Serial!Lists
<1> QED BY <1>1, <1>2

\* What a method makes of a list.
LEMMA OnLists ==
  ASSUME NEW c, c.m \in AllMethods, c.at \in 1..Len(Serial!Plan(c.m)), Serial!Key(c) \in Serial!Lists, NEW s
  PROVE  /\ c.m \in Listing
         /\ c.m \in {"advanceChargePhase", "reviewSkill"} => Serial!After(c, Serial!Key(c), s) = s
         /\ c.m \notin {"advanceChargePhase", "reviewSkill"} =>
              Serial!After(c, Serial!Key(c), s) = Serial!Listed(c, s) /\ ~Serial!NoWrite(c, Serial!Key(c), s)
<1>1. c.m \in Listing
  BY Plans DEF Serial!Key
<1> DEFINE k == Serial!Key(c)
<1>2. k # "observations" /\ k # "hints" /\ k # "proposals" /\ k # "orphans" /\ k # "config" /\ k # "tasks" /\ k # "leases"
  BY DEF Serial!Lists
<1> HIDE DEF k
<1>3. Serial!After(c, k, s) = IF c.m \in {"advanceChargePhase", "reviewSkill"} THEN s ELSE Serial!Listed(c, s)
  <2>1. k \in Serial!Lists
    BY DEF k
  <2> QED BY <1>2, <2>1 DEF Serial!After
<1>4. c.m \in Listing \ {"advanceChargePhase"} => ~Serial!NoWrite(c, Serial!Key(c), s)
  BY DEF Serial!NoWrite, Listing
<1> QED BY <1>1, <1>3, <1>4 DEF k

\* The two instances of the store differ in who may call: what a call does is the same.
LEMMA SameStore ==
  /\ Overlap!InFlight = Serial!InFlight
  /\ \A c : (Overlap!Read(c) <=> Serial!Read(c)) /\ (Overlap!Write(c) <=> Serial!Write(c))
<1>1. Overlap!InFlight = Serial!InFlight
  BY DEF Overlap!InFlight, Serial!InFlight
<1>2. ASSUME NEW c PROVE Overlap!Key(c) = Serial!Key(c) /\ Overlap!Rivals(c) = Serial!Rivals(c)
  BY DEF Overlap!Key, Serial!Key, Overlap!Plan, Serial!Plan, Overlap!Rivals, Serial!Rivals, Overlap!InFlight, Serial!InFlight
<1>3. ASSUME NEW c PROVE Overlap!Read(c) <=> Serial!Read(c)
  BY <1>2 DEF Overlap!Read, Serial!Read, Overlap!RowsTaken, Serial!RowsTaken, Overlap!IdsTaken, Serial!IdsTaken,
    Overlap!Public, Serial!Public
<1>4. ASSUME NEW c, NEW k, NEW s PROVE Overlap!After(c, k, s) = Serial!After(c, k, s)
  BY DEF Overlap!After, Serial!After, Overlap!Lists, Serial!Lists, Overlap!Observations, Serial!Observations, Overlap!Hints, Serial!Hints,
    Overlap!Proposals, Serial!Proposals, Overlap!Orphans, Serial!Orphans, Overlap!Config, Serial!Config, Overlap!Tasks, Serial!Tasks,
    Overlap!Leases, Serial!Leases, Overlap!Listed, Serial!Listed, Overlap!Appended, Serial!Appended, Overlap!Without, Serial!Without,
    Overlap!Rewritten, Serial!Rewritten, Overlap!Changed, Serial!Changed, Overlap!First, Serial!First, Overlap!NewRow, Serial!NewRow,
    Overlap!Embedded, Serial!Embedded, Overlap!Counted, Serial!Counted, Overlap!Entitled, Serial!Entitled, Overlap!Advanced,
    Serial!Advanced, Overlap!Phases, Serial!Phases, Overlap!NextNumber, Serial!NextNumber, Overlap!SkillNumber, Serial!SkillNumber,
    Overlap!Max, Serial!Max, Overlap!Cardinality, Serial!Cardinality
<1>5. ASSUME NEW c, NEW k, NEW s
      PROVE  (Overlap!NoWrite(c, k, s) <=> Serial!NoWrite(c, k, s)) /\ (Overlap!Stops(c, k, s) <=> Serial!Stops(c, k, s))
  BY <1>4 DEF Overlap!NoWrite, Serial!NoWrite, Overlap!Stops, Serial!Stops, Overlap!Without, Serial!Without, Overlap!First, Serial!First
<1>6. ASSUME NEW c PROVE Overlap!Plan(c.m) = Serial!Plan(c.m) /\ Overlap!Lists = Serial!Lists /\ Overlap!Unborn = Serial!Unborn
  BY DEF Overlap!Plan, Serial!Plan, Overlap!Lists, Serial!Lists, Overlap!Unborn, Serial!Unborn
<1>7. ASSUME NEW c PROVE Overlap!Write(c) <=> Serial!Write(c)
  BY <1>1, <1>2, <1>4, <1>5, <1>6 DEF Overlap!Write, Serial!Write
<1> QED BY <1>1, <1>3, <1>7

\* A call's first step: it is new, and what its deletion takes along is forgotten.
Begins(m, o) ==
  /\ started < StoreCalls /\ started' = started + 1
  /\ calls' = [calls EXCEPT ![started + 1] =
                 [id |-> started + 1, m |-> m, o |-> o, at |-> 1, pc |-> "read", snap |-> {}, rows |-> {}, ids |-> {}]]
  /\ added' = (IF m = "deleteObservation" THEN {a \in added : a[3] # o} ELSE added)
  /\ removed' = (IF m = "appendToTerritory" THEN removed \ {o} ELSE removed)
  /\ doc' = doc /\ crashes' = crashes /\ clashed' = clashed

LEMMA BeginIs == ASSUME NEW m, NEW o, Overlap!Begin(m, o) \/ Serial!Begin(m, o) PROVE Begins(m, o)
BY DEF Overlap!Begin, Serial!Begin, Begins, Overlap!Unborn, Serial!Unborn

LEMMA PlanLengths == \A m \in AllMethods : Len(Serial!Plan(m)) \in Nat \ {0}
BY DEF AllMethods, Serial!Plan

LEMMA CallsBegin ==
  ASSUME CallsOk, NEW m \in AllMethods, NEW o \in StoreIds, Begins(m, o)
  PROVE  /\ CallsOk' /\ Serial!InFlight' = Serial!InFlight \cup {started + 1}
         /\ calls'[started + 1].m = m /\ calls'[started + 1].o = o /\ calls'[started + 1].at = 1
         /\ calls'[started + 1].pc = "read"
         /\ \A n \in 1..StoreCalls : n # started + 1 => calls'[n] = calls[n]
<1>0. StoreCalls \in Nat /\ started \in Nat /\ started + 1 \in 1..StoreCalls /\ started + 1 \in Nat
  BY StoreAssumption DEF Serial!SqliteAssumption, CallsOk, Begins
<1>1. PICK n \in 1..StoreCalls : n = started + 1
  BY <1>0
<1>2. PICK c : c = [id |-> n, m |-> m, o |-> o, at |-> 1, pc |-> "read", snap |-> {}, rows |-> {}, ids |-> {}]
  OBVIOUS
<1>3. calls' = [calls EXCEPT ![n] = c] /\ DOMAIN calls = 1..StoreCalls
  BY <1>1, <1>2 DEF Begins, CallsOk
<1>4. DOMAIN calls' = 1..StoreCalls /\ calls'[n] = c /\ \A p \in 1..StoreCalls : p # n => calls'[p] = calls[p]
  BY <1>3
<1>5. Serial!InFlight' = Serial!InFlight \cup {n}
  BY <1>2, <1>4 DEF Serial!InFlight
<1>6. 1 \in 1..Len(Serial!Plan(m))
  BY PlanLengths
<1>7. CallOk(n)'
  <2>1. DOMAIN c = Fields
    BY <1>2 DEF Fields
  <2> QED BY <1>2, <1>4, <1>6, <2>1 DEF CallOk
<1>8. ASSUME NEW p \in Serial!InFlight, p # n PROVE CallOk(p)'
  <2>1. calls'[p] = calls[p] /\ CallOk(p)
    BY <1>4, <1>8 DEF CallsOk, Serial!InFlight
  <2> QED BY <2>1 DEF CallOk
<1>9. started' \in Nat /\ DOMAIN doc' = Serial!Documents
  BY <1>0 DEF Begins, CallsOk
<1>10. CallsOk'
  BY <1>4, <1>5, <1>7, <1>8, <1>9 DEF CallsOk
<1> QED BY <1>1, <1>2, <1>4, <1>5, <1>10

LEMMA CallsRead ==
  ASSUME CallsOk, NEW n \in Serial!InFlight, Serial!Read(calls[n])
  PROVE  /\ CallsOk' /\ Serial!InFlight' = Serial!InFlight
         /\ calls[n].pc = "read" /\ calls'[n].pc = "write" /\ calls'[n].snap = doc[Serial!Key(calls[n])]
         /\ calls'[n].m = calls[n].m /\ calls'[n].o = calls[n].o /\ calls'[n].at = calls[n].at
         /\ calls'[n].rows = Serial!RowsTaken(calls[n]) /\ calls'[n].ids = Serial!IdsTaken(calls[n])
         /\ \A p \in 1..StoreCalls : p # n => calls'[p] = calls[p]
<1>1. PICK c : c = calls[n]
  OBVIOUS
<1>2. /\ DOMAIN c = Fields
      /\ c.id = n /\ c.m \in AllMethods /\ c.o \in StoreIds /\ c.at \in 1..Len(Serial!Plan(c.m)) /\ n \in 1..StoreCalls
  BY <1>1 DEF CallsOk, CallOk, Serial!InFlight
<1>3. PICK w : w = Serial!RowsTaken(c)
  OBVIOUS
<1>4. PICK x : x = Serial!IdsTaken(c)
  OBVIOUS
<1>5. calls' = [calls EXCEPT ![n] = [@ EXCEPT !.pc = "write", !.snap = doc[Serial!Key(c)], !.rows = w, !.ids = x]]
  BY <1>1, <1>2, <1>3, <1>4 DEF Serial!Read
<1>6. PICK v : v = doc[Serial!Key(c)]
  OBVIOUS
<1>7. PICK d : d = [c EXCEPT !.pc = "write", !.snap = v, !.rows = w, !.ids = x]
  OBVIOUS
<1>8. /\ DOMAIN d = Fields /\ d.id = c.id /\ d.m = c.m /\ d.o = c.o /\ d.at = c.at
      /\ d.pc = "write" /\ d.snap = v /\ d.rows = w /\ d.ids = x
  BY <1>2, <1>7 DEF Fields
<1>9. DOMAIN calls' = 1..StoreCalls /\ calls'[n] = d /\ \A p \in 1..StoreCalls : p # n => calls'[p] = calls[p]
  BY <1>1, <1>2, <1>5, <1>6, <1>7 DEF CallsOk
<1>10. calls[n].pc = "read" /\ doc' = doc /\ started' = started
  BY <1>1 DEF Serial!Read
<1>11. Serial!InFlight' = Serial!InFlight
  BY <1>1, <1>2, <1>8, <1>9 DEF Serial!InFlight
<1>12. CallOk(n)'
  BY <1>2, <1>8, <1>9 DEF CallOk
<1>13. ASSUME NEW p \in Serial!InFlight, p # n PROVE CallOk(p)'
  <2>1. calls'[p] = calls[p] /\ CallOk(p)
    BY <1>9, <1>13 DEF CallsOk, Serial!InFlight
  <2> QED BY <2>1 DEF CallOk
<1>14. CallsOk'
  BY <1>9, <1>10, <1>11, <1>12, <1>13 DEF CallsOk
<1> QED BY <1>1, <1>3, <1>4, <1>6, <1>8, <1>9, <1>10, <1>11, <1>14

\* A write ends the call, or leads on to the next document.
LEMMA CallsWrite ==
  ASSUME CallsOk, NEW n \in Serial!InFlight, Serial!Write(calls[n])
  PROVE  /\ CallsOk' /\ calls[n].pc = "write"
         /\ \A p \in 1..StoreCalls : p # n => calls'[p] = calls[p]
         /\ IF calls[n].at = Len(Serial!Plan(calls[n].m)) \/ Serial!Stops(calls[n], Serial!Key(calls[n]), calls[n].snap)
            THEN Serial!InFlight' = Serial!InFlight \ {n}
            ELSE /\ Serial!InFlight' = Serial!InFlight /\ calls'[n].pc = "read" /\ calls'[n].at = calls[n].at + 1
                 /\ calls'[n].m = calls[n].m /\ calls'[n].o = calls[n].o
                 /\ calls'[n].rows = calls[n].rows /\ calls'[n].ids = calls[n].ids
<1>1. PICK c : c = calls[n]
  OBVIOUS
<1>2. /\ DOMAIN c = Fields
      /\ c.id = n /\ c.m \in AllMethods /\ c.o \in StoreIds /\ c.at \in 1..Len(Serial!Plan(c.m)) /\ n \in 1..StoreCalls
  BY <1>1 DEF CallsOk, CallOk, Serial!InFlight
<1>3. c.pc = "write" /\ started' = started
  BY <1>1 DEF Serial!Write
<1>4. DOMAIN doc' = Serial!Documents
  BY <1>1 DEF Serial!Write, CallsOk
<1>5. ASSUME NEW d, calls' = [calls EXCEPT ![n] = d]
      PROVE  DOMAIN calls' = 1..StoreCalls /\ calls'[n] = d /\ \A p \in 1..StoreCalls : p # n => calls'[p] = calls[p]
  BY <1>2, <1>5 DEF CallsOk
<1>6. ASSUME NEW p \in Serial!InFlight, p # n, calls'[p] = calls[p] PROVE CallOk(p)'
  <2>1. CallOk(p)
    BY DEF CallsOk
  <2> QED BY <1>6, <2>1 DEF CallOk
<1>7. CASE c.at = Len(Serial!Plan(c.m)) \/ Serial!Stops(c, Serial!Key(c), c.snap)
  <2>1. PICK d : d = [Serial!Unborn EXCEPT !.pc = "done"]
    OBVIOUS
  <2>2. d.pc = "done"
    BY <2>1 DEF Serial!Unborn
  <2>3. calls' = [calls EXCEPT ![n] = d]
    BY <1>1, <1>2, <1>7, <2>1 DEF Serial!Write
  <2>4. Serial!InFlight' = Serial!InFlight \ {n}
    BY <1>5, <2>2, <2>3 DEF Serial!InFlight
  <2>5. CallsOk'
    <3>1. \A p \in Serial!InFlight : p # n => calls'[p] = calls[p]
      BY <1>5, <2>3 DEF Serial!InFlight
    <3> QED BY <1>3, <1>4, <1>5, <1>6, <2>3, <2>4, <3>1 DEF CallsOk
  <2> QED BY <1>1, <1>3, <1>5, <1>7, <2>3, <2>4, <2>5
<1>8. CASE ~(c.at = Len(Serial!Plan(c.m)) \/ Serial!Stops(c, Serial!Key(c), c.snap))
  <2>1. c.at + 1 \in 1..Len(Serial!Plan(c.m))
    BY <1>2, <1>8, PlanLengths
  <2>2. PICK i \in 1..Len(Serial!Plan(c.m)) : i = c.at + 1
    BY <2>1
  <2>3. PICK d : d = [c EXCEPT !.at = i, !.pc = "read", !.snap = {}]
    OBVIOUS
  <2>4. /\ DOMAIN d = Fields /\ d.id = c.id /\ d.m = c.m /\ d.o = c.o /\ d.at = i
        /\ d.pc = "read" /\ d.rows = c.rows /\ d.ids = c.ids
    BY <1>2, <2>3 DEF Fields
  <2>5. calls' = [calls EXCEPT ![n].at = i, ![n].pc = "read", ![n].snap = {}]
    <3>1. calls' = [calls EXCEPT ![c.id].at = @ + 1, ![c.id].pc = "read", ![c.id].snap = {}]
      BY <1>1, <1>8 DEF Serial!Write
    <3> QED BY <1>1, <1>2, <2>2, <3>1
  <2>6. calls' = [calls EXCEPT ![n] = d]
    BY <1>1, <1>2, <2>3, <2>5 DEF CallsOk
  <2>7. Serial!InFlight' = Serial!InFlight
    BY <1>1, <1>2, <1>5, <2>4, <2>6 DEF Serial!InFlight
  <2>8. CallOk(n)'
    BY <1>2, <1>5, <2>4, <2>6 DEF CallOk
  <2>9. CallsOk'
    <3>1. \A p \in Serial!InFlight : p # n => calls'[p] = calls[p]
      BY <1>5, <2>6 DEF Serial!InFlight
    <3> QED BY <1>3, <1>4, <1>5, <1>6, <2>6, <2>7, <2>8, <3>1 DEF CallsOk
  <2> QED BY <1>1, <1>2, <1>3, <1>5, <1>8, <2>2, <2>4, <2>6, <2>7, <2>9
<1> QED BY <1>1, <1>7, <1>8

LEMMA BeginStores ==
  ASSUME StoreInv, NEW m \in AllMethods, NEW o \in StoreIds, Begins(m, o)
  PROVE  StoreInv'
<1>1. PICK q : q = started + 1
  OBVIOUS
<1>2. /\ CallsOk' /\ Serial!InFlight' = Serial!InFlight \cup {q}
      /\ calls'[q].m = m /\ calls'[q].o = o /\ calls'[q].pc = "read"
      /\ \A n \in Serial!InFlight : n # q => calls'[n] = calls[n]
  BY <1>1, CallsBegin DEF StoreInv, Serial!InFlight
<1>3. ~Holds(q, Serial!Key(calls[q]))' /\ \A k : ~Holds(q, k)'
  BY <1>2 DEF Holds
<1>4. \A n \in Serial!InFlight : n # q => \A k : Holds(n, k)' <=> Holds(n, k)
  BY <1>2 DEF Holds, Serial!Key
<1>5. doc' = doc /\ clashed' = clashed
  BY DEF Begins
<1>6. Clashes'
  BY <1>2, <1>3, <1>4, <1>5 DEF Clashes, StoreInv, Serial!Key, Holds
<1>7. ASSUME NEW a \in added' PROVE Returned(a)'
  <2>1. a \in added /\ Returned(a) /\ (m = "deleteObservation" => a[3] # o)
    BY DEF StoreInv, Begins
  <2> QED BY <1>2, <1>3, <1>4, <1>5, <2>1 DEF Returned, In
<1> QED BY <1>2, <1>6, <1>7 DEF StoreInv

LEMMA ReadStores ==
  ASSUME StoreInv, NEW n \in Serial!InFlight, Serial!Read(calls[n])
  PROVE  StoreInv'
<1>1. PICK c : c = calls[n]
  OBVIOUS
<1>2. /\ CallsOk' /\ Serial!InFlight' = Serial!InFlight /\ c.id = n /\ n \in 1..StoreCalls
      /\ c.pc = "read" /\ calls'[n].pc = "write" /\ calls'[n].snap = doc[Serial!Key(c)]
      /\ calls'[n].m = c.m /\ calls'[n].o = c.o /\ calls'[n].at = c.at
      /\ \A p \in Serial!InFlight : p # n => calls'[p] = calls[p]
  BY <1>1, CallsRead DEF StoreInv, CallsOk, CallOk, Serial!InFlight
<1>3. doc' = doc /\ added' = added
  BY DEF Serial!Read
<1>4. \A p \in Serial!Rivals(c) : n \in clashed' /\ p \in clashed'
  BY <1>1, <1>2 DEF Serial!Read
<1>5. clashed \subseteq clashed'
  BY DEF Serial!Read
<1>6. Serial!Key(c) = Serial!Key(calls'[n])
  BY <1>2 DEF Serial!Key
<1>7. \A p \in Serial!InFlight : p # n => \A k : Holds(p, k)' <=> Holds(p, k)
  BY <1>2 DEF Holds, Serial!Key
<1>8. \A k : Holds(n, k)' <=> k = Serial!Key(c)
  BY <1>2, <1>6 DEF Holds, Serial!Key
<1>9. \A p \in Serial!InFlight : p # n /\ Holds(p, Serial!Key(c)) => p \in Serial!Rivals(c)
  BY <1>2 DEF Serial!Rivals, Holds
<1>10. Clashes'
  <2> SUFFICES ASSUME NEW p \in Serial!InFlight, NEW q \in Serial!InFlight, p # q,
                      Holds(p, Serial!Key(calls[q]))', Holds(q, Serial!Key(calls[q]))'
               PROVE  p \in clashed'
    BY <1>2 DEF Clashes
  <2>1. PICK k : k = Serial!Key(calls'[q])
    OBVIOUS
  <2>2. Serial!Key(calls[q])' = k
    BY <2>1 DEF Serial!Key
  <2>3. Holds(p, k)' /\ Holds(q, k)'
    BY <2>2 DEF Holds
  <2>4. CASE p = n
    BY <1>4, <1>7, <1>8, <1>9, <2>3, <2>4
  <2>5. CASE q = n
    BY <1>4, <1>7, <1>8, <1>9, <2>3, <2>5
  <2>6. CASE p # n /\ q # n
    <3>1. Holds(p, k) /\ Holds(q, k)
      BY <1>7, <2>3, <2>6
    <3>2. k = Serial!Key(calls[q])
      BY <3>1 DEF Holds
    <3> QED BY <1>5, <3>1, <3>2 DEF StoreInv, Clashes
  <2> QED BY <2>4, <2>5, <2>6
<1>11. ASSUME NEW a \in added PROVE Returned(a)'
  <2>1. Returned(a)
    BY DEF StoreInv
  <2> QED BY <1>1, <1>2, <1>3, <1>5, <1>7, <1>8, <2>1 DEF Returned, In
<1> QED BY <1>2, <1>3, <1>10, <1>11 DEF StoreInv

\* A written list loses only what the call deletes.
LEMMA ListKeeps ==
  ASSUME NEW c, c.m \in AllMethods, c.at \in 1..Len(Serial!Plan(c.m)), Serial!Key(c) \in Serial!Lists,
         NEW s, NEW a, In(a, s), c.m = "deleteObservation" => c.o # a[3]
  PROVE  In(a, Serial!After(c, Serial!Key(c), s))
<1>1. CASE c.m \in {"advanceChargePhase", "reviewSkill"}
  BY <1>1, OnLists
<1>2. CASE c.m \notin {"advanceChargePhase", "reviewSkill"}
  <2>1. Serial!After(c, Serial!Key(c), s) = Serial!Listed(c, s)
    BY <1>2, OnLists
  <2>2. In(a, Serial!Listed(c, s))
    BY DEF In, Serial!Listed
  <2> QED BY <2>1, <2>2
<1> QED BY <1>1, <1>2

LEMMA WriteStores ==
  ASSUME StoreInv, NEW n \in Serial!InFlight, Serial!Write(calls[n])
  PROVE  StoreInv'
<1>1. PICK c : c = calls[n]
  OBVIOUS
<1>2. /\ c.id = n /\ c.m \in AllMethods /\ c.at \in 1..Len(Serial!Plan(c.m)) /\ n \in 1..StoreCalls /\ c.pc = "write"
      /\ CallsOk' /\ Serial!InFlight' \subseteq Serial!InFlight
      /\ \A p \in Serial!InFlight : p # n => calls'[p] = calls[p]
      /\ n \in Serial!InFlight' => calls'[n].pc = "read" /\ calls'[n].m = c.m /\ calls'[n].o = c.o
  BY <1>1, CallsWrite DEF StoreInv, CallsOk, CallOk, Serial!InFlight
<1>3. PICK k : k = Serial!Key(c)
  OBVIOUS
<1>4. PICK after : after = Serial!After(c, k, c.snap)
  OBVIOUS
<1>5. /\ clashed' = clashed
      /\ doc' = IF Serial!NoWrite(c, k, c.snap) THEN doc ELSE [doc EXCEPT ![k] = after]
      /\ \A a \in added' : a \in added \/ /\ a = <<k, n, c.o>> /\ k \in Serial!Lists /\ c.m \notin {"advanceChargePhase", "reviewSkill"}
                                          /\ \A p \in Serial!InFlight : ~(calls[p].m = "deleteObservation" /\ calls[p].o = c.o)
                                          /\ n \notin Serial!InFlight'
  <2>1. Serial!Write(c)
    BY <1>1
  <2>2. /\ clashed' = clashed
        /\ doc' = IF Serial!NoWrite(c, k, c.snap) THEN doc ELSE [doc EXCEPT ![k] = after]
    BY <1>3, <1>4, <2>1 DEF Serial!Write
  <2>3. CASE c.at = Len(Serial!Plan(c.m)) \/ Serial!Stops(c, Serial!Key(c), c.snap)
    <3>1. added' = IF Serial!Key(c) \in Serial!Lists /\ c.m \notin {"advanceChargePhase", "reviewSkill"}
                      /\ \A p \in Serial!InFlight : ~(calls[p].m = "deleteObservation" /\ calls[p].o = c.o)
                   THEN added \cup {<<Serial!Key(c), c.id, c.o>>} ELSE added
      BY <2>1, <2>3 DEF Serial!Write
    <3>2. n \notin Serial!InFlight'
      BY <1>1, <2>3, CallsWrite DEF StoreInv
    <3> QED BY <1>2, <1>3, <2>2, <3>1, <3>2
  <2>4. CASE ~(c.at = Len(Serial!Plan(c.m)) \/ Serial!Stops(c, Serial!Key(c), c.snap))
    BY <2>1, <2>2, <2>4 DEF Serial!Write
  <2> QED BY <2>3, <2>4
<1>6. k \in DOMAIN doc
  BY <1>2, <1>3, Plans DEF StoreInv, CallsOk, Serial!Key
<1>7. \A d : d # k => doc'[d] = doc[d]
  BY <1>5
<1>8. doc'[k] = IF Serial!NoWrite(c, k, c.snap) THEN doc[k] ELSE after
  BY <1>5, <1>6
<1>9. \A p \in Serial!InFlight' : p # n => \A d : Holds(p, d)' <=> Holds(p, d)
  BY <1>2 DEF Holds, Serial!Key
<1>10. \A d : ~Holds(n, d)'
  BY <1>2 DEF Holds
<1>11. Clashes'
  <2> SUFFICES ASSUME NEW p \in Serial!InFlight', NEW q \in Serial!InFlight', p # q,
                      Holds(p, Serial!Key(calls[q]))', Holds(q, Serial!Key(calls[q]))'
               PROVE  p \in clashed'
    BY DEF Clashes
  <2>1. p # n /\ q # n
    BY <1>10 DEF Holds
  <2>2. calls'[p] = calls[p] /\ calls'[q] = calls[q] /\ p \in Serial!InFlight /\ q \in Serial!InFlight
    BY <1>2, <2>1
  <2> QED BY <1>5, <2>2 DEF StoreInv, Clashes, Holds, Serial!Key
<1>12. ASSUME NEW a \in added PROVE Returned(a)'
  <2>1. Returned(a)
    BY DEF StoreInv
  <2>2. a[2] \in clashed \/ In(a, doc'[a[1]])
    <3>1. CASE a[1] # k
      BY <1>7, <2>1, <3>1 DEF Returned
    <3>2. CASE a[1] = k /\ Serial!NoWrite(c, k, c.snap)
      BY <1>8, <2>1, <3>2 DEF Returned
    <3>3. CASE a[1] = k /\ ~Serial!NoWrite(c, k, c.snap)
      <4>1. Holds(n, k)
        BY <1>1, <1>2, <1>3 DEF Holds
      <4>2. a[2] \in clashed \/ In(a, c.snap)
        BY <1>1, <2>1, <3>3, <4>1 DEF Returned
      <4>3. In(a, c.snap) => In(a, after)
        BY <1>1, <1>2, <1>3, <1>4, <2>1, <3>3, ListKeeps DEF Returned
      <4> QED BY <1>8, <3>3, <4>2, <4>3
    <3> QED BY <3>1, <3>2, <3>3
  <2>3. ASSUME NEW p \in Serial!InFlight'
        PROVE  /\ Holds(p, a[1])' => a[2] \in clashed \/ In(a, calls'[p].snap)
               /\ calls'[p].m = "deleteObservation" => calls'[p].o # a[3]
    BY <1>1, <1>2, <1>9, <1>10, <2>1 DEF Returned
  <2> QED BY <1>5, <2>1, <2>2, <2>3 DEF Returned, In
<1>13. ASSUME NEW a \in added', a \notin added PROVE Returned(a)'
  <2>1. /\ a[1] = k /\ a[2] = n /\ a[3] = c.o /\ k \in Serial!Lists /\ c.m \notin {"advanceChargePhase", "reviewSkill"}
        /\ \A p \in Serial!InFlight : ~(calls[p].m = "deleteObservation" /\ calls[p].o = c.o)
        /\ n \notin Serial!InFlight'
    BY <1>5, <1>13
  <2>2. In(a, doc'[k])
    <3>1. after = Serial!Listed(c, c.snap) /\ ~Serial!NoWrite(c, k, c.snap)
      BY <1>2, <1>3, <1>4, <2>1, OnLists
    <3>2. c.m # "deleteObservation"
      BY <1>1, <2>1
    <3>3. In(a, Serial!Listed(c, c.snap))
      <4>1. PICK i : Serial!Listed(c, c.snap) = c.snap \cup {[by |-> c.id, of |-> c.o, num |-> i]}
        BY <3>2, Zenon DEF Serial!Listed
      <4>2. PICK e : e = [by |-> c.id, of |-> c.o, num |-> i]
        OBVIOUS
      <4> QED BY <1>2, <2>1, <4>1, <4>2 DEF In
    <3> QED BY <1>8, <3>1, <3>3
  <2>3. ASSUME NEW p \in Serial!InFlight', Holds(p, k)' PROVE n \in clashed
    <3>1. p # n /\ p \in Serial!InFlight /\ Holds(p, k)
      BY <1>2, <1>9, <2>1, <2>3
    <3>2. Holds(n, k) /\ k = Serial!Key(calls[p])
      BY <1>1, <1>2, <1>3, <3>1 DEF Holds
    <3> QED BY <3>1, <3>2 DEF StoreInv, Clashes
  <2>4. \A p \in Serial!InFlight' : calls'[p] = calls[p] /\ p \in Serial!InFlight
    BY <1>2, <2>1
  <2> QED BY <1>5, <2>1, <2>2, <2>3, <2>4 DEF Returned, In
<1> QED BY <1>2, <1>11, <1>12, <1>13 DEF StoreInv

LEMMA StoreInit == Serial!Init => StoreInv
<1> SUFFICES ASSUME Serial!Init PROVE StoreInv
  OBVIOUS
<1>1. calls = [n \in 1..StoreCalls |-> Serial!Unborn] /\ started = 0 /\ added = {}
  BY DEF Serial!Init
<1>2. DOMAIN doc = Serial!Documents
  BY DEF Serial!Init, Serial!Documents
<1>3. Serial!InFlight = {}
  BY <1>1 DEF Serial!InFlight, Serial!Unborn
<1> QED BY <1>1, <1>2, <1>3 DEF StoreInv, CallsOk, Clashes

LEMMA OverlapStep == StoreInv /\ [Overlap!Next]_Store => StoreInv'
<1> SUFFICES ASSUME StoreInv, [Overlap!Next]_Store PROVE StoreInv'
  OBVIOUS
<1>1. CASE UNCHANGED Store
  <2>1. doc' = doc /\ calls' = calls /\ started' = started /\ added' = added /\ clashed' = clashed
    BY <1>1 DEF Store
  <2> QED BY <2>1 DEF StoreInv, CallsOk, CallOk, Clashes, Returned, Holds, In, Serial!InFlight, Serial!Key
<1>2. ASSUME NEW m \in Overlapping \ {"backfill"}, NEW o \in StoreIds, Overlap!Start(m, o) PROVE StoreInv'
  BY <1>2, BeginIs, BeginStores, StoreAssumption DEF Overlap!Start
<1>3. ASSUME NEW o \in StoreIds, Overlap!Backfill(o) PROVE StoreInv'
  <2>1. "appendToTerritory" \in AllMethods
    BY DEF AllMethods
  <2> QED BY <1>3, <2>1, BeginIs, BeginStores DEF Overlap!Backfill
<1>4. ASSUME NEW n \in Overlap!InFlight, Overlap!Read(calls[n]) \/ Overlap!Write(calls[n]) PROVE StoreInv'
  BY <1>4, SameStore, ReadStores, WriteStores
<1>5. CASE Overlap!Crash
  <2>1. PICK d : d = [Serial!Unborn EXCEPT !.pc = "done"]
    OBVIOUS
  <2>2. calls' = [n \in 1..StoreCalls |-> IF n \in Serial!InFlight THEN d ELSE calls[n]]
    BY <1>5, <2>1, SameStore DEF Overlap!Crash, Overlap!Unborn, Serial!Unborn
  <2>3. doc' = doc /\ started' = started /\ added' = added /\ clashed' = clashed
    BY <1>5 DEF Overlap!Crash
  <2>4. Serial!InFlight' = {}
    BY <2>1, <2>2 DEF Serial!InFlight, Serial!Unborn
  <2> QED BY <2>2, <2>3, <2>4 DEF StoreInv, CallsOk, Clashes, Returned, In
<1> QED BY <1>1, <1>2, <1>3, <1>4, <1>5, Zenon DEF Overlap!Next

LEMMA LossIsClash == StoreInv => Overlap!LossNeedsClash
BY DEF StoreInv, Returned, In, Overlap!LossNeedsClash, Overlap!Kept

------------------------------------------------------------------------------
(* The document store: methods one after the other *)

Ids(s) == {r.id : r \in s}
StoredRow == [id : StoreIds, no : Nat, territory : {"craft", "self"}, vec : BOOLEAN, count : Nat, entity : BOOLEAN, phase : Nat]
RowsOk(s) == s \in SUBSET StoredRow /\ IsFiniteSet(s) /\ \A r, q \in s : r.id = q.id => r = q

LEMMA StoreCounts == \A S : Serial!Cardinality(S) = Cardinality(S)
BY DEF Serial!Cardinality, Cardinality

LEMMA ImageFinite ==
  ASSUME NEW f, IsFiniteSet(DOMAIN f), f = [x \in DOMAIN f |-> f[x]] PROVE IsFiniteSet({f[x] : x \in DOMAIN f})
<1>1. f \in Surjection(DOMAIN f, {f[x] : x \in DOMAIN f})
  BY DEF Surjection
<1> QED BY <1>1, FS_Surjection

\* A finite set of numbers has a largest one.
LEMMA FiniteHasMax ==
  ASSUME NEW S \in SUBSET Nat, IsFiniteSet(S), S # {}
  PROVE  \E m \in S : \A x \in S : x <= m
<1>1. PICK n \in Nat : ExistsSurjection(1..n, S)
  BY FS_NatSurjection
<1>2. PICK f \in Surjection(1..n, S) : TRUE
  BY <1>1 DEF ExistsSurjection
<1>3. f \in [1..n -> S] /\ \A x \in S : \E i \in 1..n : f[i] = x
  BY <1>2 DEF Surjection
<1>4. n > 0 /\ \A i \in 1..n : f[i] \in S /\ f[i] \in Nat
  <2>1. PICK x \in S : TRUE
    OBVIOUS
  <2>2. PICK i \in 1..n : f[i] = x
    BY <1>3, <2>1
  <2>3. n > 0
    BY <2>2
  <2> QED BY <1>3, <2>3
<1> DEFINE lacking == {i \in Nat : i > 0 /\ i <= n /\ \A j \in 1..i : \E l \in 1..i : f[l] > f[j]}
<1> SUFFICES lacking = {}
  <2>1. n \notin lacking
    OBVIOUS
  <2>2. PICK j \in 1..n : \A l \in 1..n : ~(f[l] > f[j])
    BY <1>4, <2>1
  <2>3. ASSUME NEW x \in S PROVE x <= f[j]
    <3>1. PICK l \in 1..n : f[l] = x
      BY <1>3
    <3> QED BY <1>4, <2>2, <3>1
  <2>4. f[j] \in S
    BY <1>4
  <2> QED BY <2>3, <2>4
<1> SUFFICES ASSUME lacking # {} PROVE FALSE
  OBVIOUS
<1>5. lacking \in SUBSET Nat
  OBVIOUS
<1> HIDE DEF lacking
<1>6. PICK i \in lacking : \A j \in lacking : ~(<<j, i>> \in OpToRel(<, Nat))
  BY <1>5, NatLessThanWellFounded, WFMin, Zenon
<1>7. i \in Nat /\ i > 0 /\ i <= n /\ \A j \in 1..i : \E l \in 1..i : f[l] > f[j]
  BY <1>6 DEF lacking
<1>8. f[i] \in Nat /\ \A j \in 1..i : f[j] \in Nat
  <2>1. \A j \in 1..i : j \in 1..n
    BY <1>7
  <2>2. i \in 1..i
    BY <1>7
  <2> QED BY <1>4, <2>1, <2>2
<1>9. i # 1
  BY <1>7, <1>8
<1>10. i - 1 \in Nat /\ i - 1 > 0 /\ i - 1 <= n /\ i - 1 < i
  BY <1>7, <1>9
<1>11. i - 1 \notin lacking
  <2>1. ASSUME i - 1 \in lacking PROVE FALSE
    <3>1. ~(<<i - 1, i>> \in {ss \in Nat \X Nat : ss[1] < ss[2]})
      BY <1>6, <2>1, Zenon DEF OpToRel
    <3> QED BY <1>7, <1>10, <3>1
  <2> QED BY <2>1
<1>12. PICK j \in 1..(i - 1) : \A l \in 1..(i - 1) : ~(f[l] > f[j])
  BY <1>10, <1>11 DEF lacking
<1>13. j \in 1..i /\ f[j] \in Nat
  BY <1>7, <1>8, <1>12
<1>14. PICK l \in 1..i : f[l] > f[j]
  BY <1>7, <1>13
<1>15. l = i
  BY <1>7, <1>12, <1>14
<1>16. PICK h \in 1..i : f[h] > f[i]
  BY <1>7
<1>17. h # i /\ h \in 1..(i - 1)
  <2>1. h # i
    BY <1>8, <1>16
  <2> QED BY <1>7, <2>1
<1> QED BY <1>8, <1>12, <1>13, <1>14, <1>15, <1>16, <1>17

LEMMA StoreMax ==
  ASSUME NEW S \in SUBSET Nat, IsFiniteSet(S)
  PROVE  Serial!Max(S \cup {0}) \in Nat /\ \A x \in S : x <= Serial!Max(S \cup {0})
<1>1. S \cup {0} \in SUBSET Nat /\ IsFiniteSet(S \cup {0}) /\ S \cup {0} # {}
  BY FS_AddElement
<1>2. \E m \in S \cup {0} : \A x \in S \cup {0} : x <= m
  BY <1>1, FiniteHasMax
<1>3. Serial!Max(S \cup {0}) \in S \cup {0} /\ \A x \in S \cup {0} : Serial!Max(S \cup {0}) >= x
  BY <1>1, <1>2 DEF Serial!Max
<1> QED BY <1>1, <1>3

\* The rows after an append, a deletion, a rewriting, a change of one of them.
LEMMA AppendRows ==
  ASSUME NEW s, RowsOk(s), NEW o \in StoreIds, o \notin Ids(s)
  PROVE  RowsOk(Serial!Appended(s, o)) /\ Ids(Serial!Appended(s, o)) = Ids(s) \cup {o}
<1>1. Territory[o] \in {"craft", "self"}
  BY StoreAssumption DEF Serial!SqliteAssumption, Serial!Territories
<1> DEFINE N == {r.no : r \in s}
<1>2. N \in SUBSET Nat /\ IsFiniteSet(N)
  <2>1. PICK f : f = [r \in s |-> r.no]
    OBVIOUS
  <2>2. DOMAIN f = s /\ {f[r] : r \in s} = N
    BY <2>1
  <2>3. IsFiniteSet({f[x] : x \in DOMAIN f})
    BY <2>1, <2>2, ImageFinite DEF RowsOk
  <2>4. N \in SUBSET Nat
    BY DEF RowsOk, StoredRow
  <2> QED BY <2>2, <2>3, <2>4
<1>3. Serial!Max(N \cup {0}) \in Nat
  BY <1>2, StoreMax
<1>4. PICK n \in Nat : n = Serial!Max(N \cup {0}) + 1
  <2>1. PICK m \in Nat : m = Serial!Max(N \cup {0})
    BY <1>3
  <2>2. m + 1 \in Nat
    BY <2>1
  <2> QED BY <2>1, <2>2
<1>5. PICK r : r = [id |-> o, no |-> n, territory |-> Territory[o], vec |-> FALSE, count |-> 2, entity |-> FALSE, phase |-> 1]
  OBVIOUS
<1>6. r \in StoredRow /\ r.id = o
  BY <1>1, <1>5 DEF StoredRow
<1>7. Serial!Appended(s, o) = s \cup {r}
  BY <1>4, <1>5 DEF Serial!Appended, Serial!NewRow
<1>8. IsFiniteSet(s \cup {r})
  BY FS_AddElement DEF RowsOk
<1> QED BY <1>6, <1>7, <1>8 DEF RowsOk, Ids

LEMMA FirstIsTheRow ==
  ASSUME NEW s, RowsOk(s), NEW o
  PROVE  Serial!First(s, o) = {r \in s : r.id = o}
<1>1. \A r, q \in s : r.id = o /\ q.id = o => r.no <= q.no
  <2> SUFFICES ASSUME NEW r \in s, NEW q \in s, r.id = o, q.id = o PROVE r.no <= q.no
    OBVIOUS
  <2>1. r = q /\ r.no \in Nat
    BY DEF RowsOk, StoredRow
  <2> QED BY <2>1
<1> QED BY <1>1 DEF Serial!First

LEMMA WithoutRows ==
  ASSUME NEW s, RowsOk(s), NEW o
  PROVE  /\ RowsOk(Serial!Without(s, o)) /\ Ids(Serial!Without(s, o)) = Ids(s) \ {o}
         /\ Serial!Without(s, o) = s <=> o \notin Ids(s)
<1>1. Serial!Without(s, o) = {r \in s : r.id # o}
  BY FirstIsTheRow DEF Serial!Without
<1>2. IsFiniteSet({r \in s : r.id # o})
  BY FS_Subset DEF RowsOk
<1> QED BY <1>1, <1>2 DEF RowsOk, Ids

LEMMA ChangedRows ==
  ASSUME NEW s, RowsOk(s), NEW o, NEW g \in [StoredRow -> StoredRow], \A r \in StoredRow : g[r].id = r.id
  PROVE  LET t == (s \ Serial!First(s, o)) \cup {g[r] : r \in Serial!First(s, o)}
         IN  RowsOk(t) /\ Ids(t) = Ids(s)
<1> DEFINE F == Serial!First(s, o)
           t == (s \ F) \cup {g[r] : r \in F}
<1>1. F = {r \in s : r.id = o} /\ F \in SUBSET s /\ s \in SUBSET StoredRow
  BY FirstIsTheRow DEF RowsOk
<1> HIDE DEF F
<1>2. \A r \in F : g[r] \in StoredRow /\ g[r].id = o
  BY <1>1
<1>3. t \in SUBSET StoredRow
  BY <1>1, <1>2
<1>4. IsFiniteSet(t)
  <2>1. IsFiniteSet(F) /\ IsFiniteSet(s \ F)
    BY <1>1, FS_Subset DEF RowsOk
  <2>2. PICK f : f = [r \in F |-> g[r]]
    OBVIOUS
  <2>3. IsFiniteSet({f[x] : x \in DOMAIN f})
    BY <2>1, <2>2, ImageFinite
  <2>4. {f[x] : x \in DOMAIN f} = {g[r] : r \in F}
    BY <2>2
  <2> QED BY <2>1, <2>3, <2>4, FS_Union
<1>5. ASSUME NEW a \in t, NEW b \in t, a.id = b.id PROVE a = b
  <2>1. CASE a.id # o
    BY <1>1, <1>2, <1>5, <2>1 DEF RowsOk
  <2>2. CASE a.id = o
    <3>1. PICK r \in F : a = g[r]
      BY <1>1, <2>2
    <3>2. PICK q \in F : b = g[q]
      BY <1>1, <1>5, <2>2
    <3> QED BY <1>1, <3>1, <3>2 DEF RowsOk
  <2> QED BY <2>1, <2>2
<1>6. Ids(t) = Ids(s)
  BY <1>1, <1>2 DEF Ids
<1> QED BY <1>3, <1>4, <1>5, <1>6 DEF RowsOk, F

LEMMA RewrittenRows ==
  ASSUME NEW s, RowsOk(s), NEW o
  PROVE  LET u == Serial!Rewritten(s, o, Serial!Public(s, o))
         IN  /\ RowsOk(u) /\ Ids(u) = Ids(s)
             /\ Ids(Serial!Public(u, o)) = Ids(Serial!Public(s, o))
<1> DEFINE P == {r \in s : r.territory = o}
           u == Serial!Rewritten(s, o, Serial!Public(s, o))
           g == [r \in P |-> [r EXCEPT !.vec = FALSE, !.count = 0]]
<1>1. ASSUME NEW r \in P PROVE g[r] \in StoredRow /\ g[r].id = r.id /\ g[r].territory = o
  <2>1. PICK q : q = [r EXCEPT !.vec = FALSE, !.count = 0]
    OBVIOUS
  <2>2. r \in StoredRow /\ r.territory = o
    BY DEF RowsOk
  <2>3. q \in StoredRow /\ q.id = r.id /\ q.territory = o
    BY <2>1, <2>2 DEF StoredRow
  <2>4. g[r] = q
    BY <2>1
  <2> QED BY <2>3, <2>4
<1>2. u = {r \in s : r.territory # o} \cup {g[r] : r \in P}
  BY DEF Serial!Rewritten, Serial!Public
<1>3. IsFiniteSet({r \in s : r.territory # o}) /\ IsFiniteSet(P)
  BY FS_Subset DEF RowsOk
<1>4. IsFiniteSet({g[r] : r \in P})
  <2>1. DOMAIN g = P /\ g = [x \in DOMAIN g |-> g[x]]
    OBVIOUS
  <2> QED BY <1>3, <2>1, ImageFinite
<1>5. P \subseteq s /\ \A r \in P : r.territory = o
  OBVIOUS
<1>6. P = {r \in s : r.territory = o}
  OBVIOUS
<1> HIDE DEF g, P
<1>7. u \in SUBSET StoredRow
  BY <1>1, <1>2 DEF RowsOk
<1>8. IsFiniteSet(u)
  <2>1. PICK A : A = {r \in s : r.territory # o}
    OBVIOUS
  <2>2. PICK B : B = {g[r] : r \in P}
    OBVIOUS
  <2>3. IsFiniteSet(A \cup B)
    BY <1>3, <1>4, <2>1, <2>2, FS_Union
  <2> QED BY <1>2, <2>1, <2>2, <2>3
<1>9. ASSUME NEW a \in u, NEW b \in u, a.id = b.id PROVE a = b
  <2>1. PICK r \in s : r.id = a.id /\ IF r \in P THEN a = g[r] ELSE a = r
    BY <1>1, <1>2, <1>5, <1>6
  <2>2. PICK q \in s : q.id = b.id /\ IF q \in P THEN b = g[q] ELSE b = q
    BY <1>1, <1>2, <1>5, <1>6
  <2>3. r = q
    BY <1>9, <2>1, <2>2 DEF RowsOk
  <2> QED BY <2>1, <2>2, <2>3
<1>10. Ids(u) = Ids(s)
  <2>1. \A r \in s : \E q \in u : q.id = r.id
    BY <1>1, <1>2, <1>6
  <2>2. \A q \in u : \E r \in s : q.id = r.id
    BY <1>1, <1>2, <1>5
  <2> QED BY <2>1, <2>2 DEF Ids
<1>11. Serial!Public(u, o) = {g[r] : r \in P}
  BY <1>1, <1>2 DEF Serial!Public
<1>12. Ids(Serial!Public(u, o)) = Ids(Serial!Public(s, o))
  <2>1. Serial!Public(s, o) = P
    BY <1>6 DEF Serial!Public
  <2> QED BY <1>1, <1>11, <2>1 DEF Ids
<1> QED BY <1>7, <1>8, <1>9, <1>10, <1>12 DEF RowsOk

ListOk(s) == s \in SUBSET [by : Nat, of : StoreIds, num : Nat] /\ IsFiniteSet(s)
Unique(s) == \A r, q \in s : r.of = q.of /\ r.num = q.num => r = q
CountedUp(s) == \A r \in s : r.num <= Cardinality({q \in s : q.of = r.of})

LEMMA ListAppended ==
  ASSUME NEW s, ListOk(s), NEW i \in Nat, NEW o \in StoreIds, NEW v \in Nat
  PROVE  ListOk(s \cup {[by |-> i, of |-> o, num |-> v]})
<1>1. PICK r : r = [by |-> i, of |-> o, num |-> v]
  OBVIOUS
<1>2. r \in [by : Nat, of : StoreIds, num : Nat] /\ IsFiniteSet(s \cup {r})
  BY <1>1, FS_AddElement DEF ListOk
<1> QED BY <1>1, <1>2 DEF ListOk

LEMMA ListCleared ==
  ASSUME NEW s, ListOk(s), NEW o
  PROVE  LET t == {r \in s : r.of # o}
         IN  ListOk(t) /\ (Unique(s) => Unique(t)) /\ (CountedUp(s) => CountedUp(t))
<1> DEFINE t == {r \in s : r.of # o}
<1>1. t \in SUBSET s
  OBVIOUS
<1>2. ListOk(t)
  BY <1>1, FS_Subset DEF ListOk
<1>3. Unique(s) => Unique(t)
  BY DEF Unique
<1>4. ASSUME CountedUp(s), NEW r \in t PROVE r.num <= Cardinality({q \in t : q.of = r.of})
  <2>1. {q \in t : q.of = r.of} = {q \in s : q.of = r.of}
    OBVIOUS
  <2> QED BY <1>4, <2>1 DEF CountedUp
<1> QED BY <1>2, <1>3, <1>4 DEF CountedUp

\* A version's number is one more than those its observation has.
LEMMA VersionNumbered ==
  ASSUME NEW s, ListOk(s), Unique(s), CountedUp(s), NEW i \in Nat, NEW o \in StoreIds
  PROVE  LET t == s \cup {[by |-> i, of |-> o, num |-> Serial!NextNumber(s, o)]}
         IN  ListOk(t) /\ Unique(t) /\ CountedUp(t)
<1> DEFINE mine(x) == {q \in s : q.of = x}
<1>1. \A x : IsFiniteSet(mine(x)) /\ Cardinality(mine(x)) \in Nat
  <2> SUFFICES ASSUME NEW x PROVE IsFiniteSet(mine(x)) /\ Cardinality(mine(x)) \in Nat
    OBVIOUS
  <2>1. mine(x) \in SUBSET s /\ IsFiniteSet(s)
    BY DEF ListOk
  <2> QED BY <2>1, FS_Subset, FS_CardinalityType
<1>2. PICK n \in Nat : n = Cardinality(mine(o))
  BY <1>1
<1>3. PICK v \in Nat : v = n + 1
  <2>1. n + 1 \in Nat
    BY <1>2
  <2> QED BY <2>1
<1>4. Serial!NextNumber(s, o) = v
  BY <1>2, <1>3, StoreCounts DEF Serial!NextNumber
<1>5. PICK e : e = [by |-> i, of |-> o, num |-> v]
  OBVIOUS
<1>6. PICK t : t = s \cup {e}
  OBVIOUS
<1>7. e.of = o /\ e.num = v /\ ListOk(t)
  BY <1>5, <1>6, ListAppended
<1>8. \A r \in s : r.of = o => r.num <= n /\ r.num \in Nat
  BY <1>2 DEF CountedUp, ListOk
<1>9. e \notin s
  BY <1>2, <1>3, <1>7, <1>8
<1>10. Unique(t)
  BY <1>2, <1>3, <1>6, <1>7, <1>8 DEF Unique
<1>11. ASSUME NEW r \in t PROVE r.num <= Cardinality({q \in t : q.of = r.of})
  <2>1. CASE r.of # o
    <3>1. {q \in t : q.of = r.of} = mine(r.of) /\ r \in s
      BY <1>6, <1>7, <2>1
    <3> QED BY <3>1 DEF CountedUp
  <2>2. CASE r.of = o
    <3>1. {q \in t : q.of = r.of} = mine(o) \cup {e}
      BY <1>6, <1>7, <2>2
    <3>2. e \notin mine(o)
      BY <1>9
    <3>3. Cardinality(mine(o) \cup {e}) = Cardinality(mine(o)) + 1
      <4>1. PICK M : M = mine(o)
        OBVIOUS
      <4>2. IsFiniteSet(M) /\ e \notin M
        BY <1>1, <3>2, <4>1
      <4>3. Cardinality(M \cup {e}) = Cardinality(M) + 1
        BY <4>2, FS_AddElement
      <4> QED BY <4>1, <4>3
    <3>4. Cardinality({q \in t : q.of = r.of}) = v
      BY <1>2, <1>3, <3>1, <3>3
    <3>5. r.num <= v
      BY <1>2, <1>3, <1>6, <1>7, <1>8, <2>2
    <3> QED BY <3>4, <3>5
  <2> QED BY <2>1, <2>2
<1> QED BY <1>4, <1>5, <1>6, <1>7, <1>10, <1>11 DEF CountedUp

\* A skill's version is one more than the largest of its key.
LEMMA SkillNumbered ==
  ASSUME NEW s, ListOk(s), Unique(s), NEW i \in Nat, NEW o \in StoreIds
  PROVE  LET t == s \cup {[by |-> i, of |-> o, num |-> Serial!SkillNumber(s, o)]}
         IN  ListOk(t) /\ Unique(t)
<1> DEFINE mine == {q \in s : q.of = o}
           N == {r.num : r \in mine}
<1>1. IsFiniteSet(mine) /\ \A r \in mine : r.num \in Nat
  BY FS_Subset DEF ListOk
<1> HIDE DEF mine
<1>2. N \in SUBSET Nat /\ IsFiniteSet(N)
  <2>1. PICK f : f = [r \in mine |-> r.num]
    OBVIOUS
  <2>2. DOMAIN f = mine /\ {f[r] : r \in mine} = N
    BY <2>1
  <2>3. IsFiniteSet({f[x] : x \in DOMAIN f})
    BY <1>1, <2>1, <2>2, ImageFinite
  <2> QED BY <1>1, <2>2, <2>3
<1>3. PICK m \in Nat : m = Serial!Max(N \cup {0}) /\ \A x \in N : x <= m
  BY <1>2, StoreMax
<1>4. PICK v \in Nat : v = m + 1
  <2>1. m + 1 \in Nat
    BY <1>3
  <2> QED BY <2>1
<1>5. Serial!SkillNumber(s, o) = v
  BY <1>3, <1>4 DEF Serial!SkillNumber, mine
<1>6. PICK e : e = [by |-> i, of |-> o, num |-> v]
  OBVIOUS
<1>7. e.of = o /\ e.num = v /\ ListOk(s \cup {e})
  BY <1>6, ListAppended
<1>8. \A r \in s : r.of = o => r.num <= m /\ r.num \in Nat
  BY <1>1, <1>3 DEF mine
<1>9. Unique(s \cup {e})
  BY <1>3, <1>4, <1>7, <1>8 DEF Unique
<1> QED BY <1>5, <1>6, <1>7, <1>9

\* What is kept beside the observations, and how it stands between two methods.
Sidecars == {"links", "versions", "processing"}
Have == Ids(doc.observations)
About(d, W) == \A r \in doc[d] : r.of \in W
Settled == (\A d \in Sidecars : About(d, Have)) /\ doc.hints = Have

Docs ==
  /\ RowsOk(doc.observations) /\ removed \cap Have = {}
  /\ ListOk(doc.versions) /\ Unique(doc.versions) /\ CountedUp(doc.versions)
  /\ ListOk(doc.skills) /\ Unique(doc.skills)

\* An append gives the observation its hints last, a deletion takes them last.
Appending(o, at) ==
  /\ o \notin removed
  /\ at = 1 => Settled /\ o \notin Have
  /\ at = 2 => o \in Have /\ doc.hints = Have \ {o} /\ \A d \in Sidecars : About(d, Have)
Deleting(o, at) ==
  /\ at = 1 => Settled
  /\ at > 1 => /\ o \notin Have /\ doc.hints = Have \cup {o}
               /\ About("links", IF at = 2 THEN Have \cup {o} ELSE Have)
               /\ About("versions", IF at <= 3 THEN Have \cup {o} ELSE Have)
               /\ About("processing", IF at <= 4 THEN Have \cup {o} ELSE Have)
\* What a rewriting has taken is the territory as it is.
Rewriting(c) ==
  LET now == Serial!Public(doc.observations, Territory[c.o])
  IN  /\ c.at \in {2, 3} \/ (c.at = 1 /\ c.pc = "write") => c.rows = now
      /\ c.at = 4 => Ids(c.rows) = Ids(now)
      /\ c.at \in {3, 4} \/ (c.at = 2 /\ c.pc = "write") => c.ids = Ids(now)

Mid(c) ==
  /\ c.pc = "write" => c.snap = doc[Serial!Key(c)]
  /\ c.m = "appendToTerritory" => Appending(c.o, c.at)
  /\ c.m = "deleteObservation" => Deleting(c.o, c.at)
  /\ c.m = "rewriteTerritory" => Rewriting(c)
  /\ c.m \notin {"appendToTerritory", "deleteObservation"} => Settled
  /\ c.m \in {"appendLink", "createVersion", "createProcessingEntry"} => c.o \in Have

SerialInv ==
  /\ CallsOk /\ Docs /\ crashes = 0
  /\ Serial!InFlight = {} => Settled
  /\ \A n \in Serial!InFlight : Serial!InFlight = {n} /\ Mid(calls[n])

LEMMA StillDocs ==
  ASSUME Docs, doc'.versions = doc.versions, doc'.skills = doc.skills, RowsOk(doc'.observations),
         removed' \cap Ids(doc'.observations) = {}
  PROVE  Docs'
BY DEF Docs, Have

LEMMA StillSettled ==
  ASSUME Settled, \A d \in Sidecars \cup {"hints"} : doc'[d] = doc[d], Ids(doc'.observations) = Ids(doc.observations)
  PROVE  Settled'
BY DEF Settled, About, Have, Sidecars

LEMMA SerialInit == Serial!Init => SerialInv
<1> SUFFICES ASSUME Serial!Init PROVE SerialInv
  OBVIOUS
<1>1. CallsOk /\ Serial!InFlight = {} /\ crashes = 0 /\ removed = {}
  <2>1. calls = [n \in 1..StoreCalls |-> Serial!Unborn] /\ crashes = 0 /\ removed = {}
    BY DEF Serial!Init
  <2>2. Serial!InFlight = {}
    BY <2>1 DEF Serial!InFlight, Serial!Unborn
  <2> QED BY <2>1, <2>2, StoreInit DEF StoreInv
<1>2. PICK o \in StoreIds :
        /\ doc.observations = {[Serial!NewRow(o, 1) EXCEPT !.vec = TRUE]} /\ doc.hints = {o}
        /\ doc.links = {[by |-> 0, of |-> o, num |-> 0]}
        /\ doc.versions = {} /\ doc.processing = {} /\ doc.skills = {}
  BY DEF Serial!Init
<1>3. PICK q : q = [id |-> o, no |-> 1, territory |-> Territory[o], vec |-> FALSE, count |-> 2, entity |-> FALSE, phase |-> 1]
  OBVIOUS
<1>4. q \in StoredRow /\ q.id = o /\ q = Serial!NewRow(o, 1)
  <2>1. Territory[o] \in {"craft", "self"}
    BY StoreAssumption DEF Serial!SqliteAssumption, Serial!Territories
  <2> QED BY <1>3, <2>1 DEF StoredRow, Serial!NewRow
<1>5. PICK r \in StoredRow : r.id = o /\ doc.observations = {r}
  <2>1. PICK r : r = [q EXCEPT !.vec = TRUE]
    OBVIOUS
  <2>2. r \in StoredRow /\ r.id = o
    BY <1>4, <2>1 DEF StoredRow
  <2> QED BY <1>2, <1>4, <2>1, <2>2
<1>6. IsFiniteSet({}) /\ IsFiniteSet({r})
  BY FS_EmptySet, FS_Singleton
<1>7. Docs
  BY <1>1, <1>2, <1>5, <1>6 DEF Docs, RowsOk, ListOk, Unique, CountedUp
<1>8. Settled
  BY <1>2, <1>5 DEF Settled, Sidecars, About, Have, Ids
<1> QED BY <1>1, <1>7, <1>8 DEF SerialInv

\* A call begins when none is in flight.
LEMMA SerialBegin ==
  ASSUME SerialInv, NEW m \in AllMethods, NEW o \in StoreIds, Serial!Start(m, o)
  PROVE  SerialInv'
<1>1. Begins(m, o) /\ Serial!Sensible(m, o)
  BY BeginIs DEF Serial!Start
<1>2. Serial!InFlight = {}
  <2>1. IsFiniteSet(Serial!InFlight)
    <3>1. StoreCalls \in Nat /\ Serial!InFlight \in SUBSET (1..StoreCalls)
      BY StoreAssumption DEF Serial!SqliteAssumption, Serial!InFlight
    <3>2. IsFiniteSet(1..StoreCalls)
      BY <3>1, FS_Interval
    <3> QED BY <3>1, <3>2, FS_Subset
  <2>2. Cardinality(Serial!InFlight) < 1
    BY StoreCounts DEF Serial!Start, Serial!Begin
  <2> QED BY <2>1, <2>2, FS_CardinalityType, FS_EmptySet
<1>3. PICK q : q = started + 1
  OBVIOUS
<1>4. /\ CallsOk' /\ Serial!InFlight' = {q}
      /\ calls'[q].m = m /\ calls'[q].o = o /\ calls'[q].at = 1 /\ calls'[q].pc = "read"
  BY <1>1, <1>2, <1>3, CallsBegin DEF SerialInv
<1>5. doc' = doc /\ crashes' = 0 /\ removed' \subseteq removed /\ (m = "appendToTerritory" => o \notin removed')
  BY <1>1 DEF Begins, SerialInv
<1>6. Settled' /\ Have' = Have
  BY <1>2, <1>5 DEF SerialInv, Settled, About, Have
<1>7. Docs'
  BY <1>5 DEF SerialInv, Docs, Have
<1>8. Mid(calls[q])'
  <2>1. m = "appendToTerritory" => o \notin Have
    BY <1>1 DEF Serial!Sensible, Serial!Present, Have, Ids
  <2>2. m \in {"appendLink", "createVersion", "createProcessingEntry"} => o \in Have
    BY <1>1 DEF Serial!Sensible, Serial!Present, Have, Ids
  <2>3. m = "appendToTerritory" => Appending(o, 1)'
    BY <1>5, <1>6, <2>1 DEF Appending
  <2>4. Deleting(o, 1)'
    BY <1>6 DEF Deleting
  <2>5. Rewriting(calls[q])'
    BY <1>4 DEF Rewriting
  <2> QED BY <1>4, <1>6, <2>2, <2>3, <2>4, <2>5 DEF Mid
<1> QED BY <1>4, <1>5, <1>7, <1>8 DEF SerialInv

LEMMA SerialRead ==
  ASSUME SerialInv, NEW n \in Serial!InFlight, Serial!Read(calls[n])
  PROVE  SerialInv'
<1>1. PICK c : c = calls[n]
  OBVIOUS
<1>2. PICK d : d = calls'[n]
  OBVIOUS
<1>3. /\ CallsOk' /\ Serial!InFlight' = {n} /\ Mid(c) /\ Serial!InFlight = {n}
      /\ c.pc = "read" /\ d.pc = "write" /\ d.snap = doc[Serial!Key(c)] /\ d.m = c.m /\ d.o = c.o /\ d.at = c.at
      /\ d.rows = Serial!RowsTaken(c) /\ d.ids = Serial!IdsTaken(c)
  BY <1>1, <1>2, CallsRead DEF SerialInv
<1>4. doc' = doc /\ removed' = removed /\ crashes' = crashes
  BY DEF Serial!Read
<1>5. Docs'
  BY <1>4 DEF SerialInv, Docs, Have
<1>6. Serial!Key(d) = Serial!Key(c)
  BY <1>3 DEF Serial!Key
<1>7. c.m = "appendToTerritory" => Appending(d.o, d.at)'
  BY <1>3, <1>4 DEF Mid, Appending, Settled, About, Have
<1>8. c.m = "deleteObservation" => Deleting(d.o, d.at)'
  BY <1>3, <1>4 DEF Mid, Deleting, Settled, About, Have
<1>9. c.m = "rewriteTerritory" => Rewriting(d)'
  BY <1>3, <1>4 DEF Mid, Rewriting, Serial!RowsTaken, Serial!IdsTaken, Ids
<1>10. c.m \notin {"appendToTerritory", "deleteObservation"} => Settled'
  BY <1>3, <1>4 DEF Mid, Settled, About, Have
<1>11. c.m \in {"appendLink", "createVersion", "createProcessingEntry"} => d.o \in Have'
  BY <1>3, <1>4 DEF Mid, Have
<1>12. Mid(d)'
  <2>1. d.snap = doc'[Serial!Key(d)]
    BY <1>3, <1>4, <1>6
  <2> QED BY <1>3, <1>7, <1>8, <1>9, <1>10, <1>11, <2>1 DEF Mid
<1>13. Mid(calls[n])'
  BY <1>2, <1>12 DEF Mid, Appending, Deleting, Rewriting
<1> QED BY <1>3, <1>4, <1>5, <1>13 DEF SerialInv

\* What a write does: the copy it starts from is the document.
Returns(c, k) == c.at = Len(Serial!Plan(c.m)) \/ Serial!Stops(c, k, doc[k])
Wrote(n, c, k) ==
  /\ CallsOk' /\ crashes' = 0 /\ Docs /\ Mid(c)
  /\ c.id \in Nat /\ c.m \in AllMethods /\ c.o \in StoreIds /\ c.at \in 1..Len(Serial!Plan(c.m)) /\ k = Serial!Key(c)
  /\ c.pc = "write" /\ \A d : d # k => doc'[d] = doc[d]
  /\ Serial!NoWrite(c, k, doc[k]) => doc'[k] = doc[k]
  /\ ~Serial!NoWrite(c, k, doc[k]) => doc'[k] = Serial!After(c, k, doc[k])
  /\ Returns(c, k) => Serial!InFlight' = {}
  /\ Returns(c, k) /\ c.m = "deleteObservation" => removed' = removed \cup {c.o}
  /\ ~(Returns(c, k) /\ c.m = "deleteObservation") => removed' = removed
  /\ ~Returns(c, k) => /\ Serial!InFlight' = {n} /\ calls'[n].pc = "read" /\ calls'[n].at = c.at + 1
                       /\ calls'[n].m = c.m /\ calls'[n].o = c.o /\ calls'[n].rows = c.rows /\ calls'[n].ids = c.ids

LEMMA SerialWrites ==
  ASSUME SerialInv, NEW n \in Serial!InFlight, Serial!Write(calls[n]), NEW c, c = calls[n], NEW k, k = Serial!Key(c)
  PROVE  Wrote(n, c, k)
<1>1. /\ Serial!InFlight = {n} /\ Mid(c) /\ Docs /\ CallsOk /\ CallOk(n) /\ crashes = 0 /\ n \in 1..StoreCalls
  BY DEF SerialInv, CallsOk, Serial!InFlight
<1>2. /\ c.id \in Nat /\ c.id = n /\ c.m \in AllMethods /\ c.o \in StoreIds /\ c.at \in 1..Len(Serial!Plan(c.m))
  BY <1>1 DEF CallOk
<1>3. k \in Serial!Documents /\ DOMAIN doc = Serial!Documents
  BY <1>1, <1>2, Plans DEF Serial!Key, CallsOk
<1>4. Serial!Write(c) /\ c.pc = "write" /\ CallsOk'
  BY <1>1, CallsWrite
<1>5. c.snap = doc[k]
  BY <1>1, <1>4 DEF Mid
<1>6. PICK after : after = Serial!After(c, k, doc[k])
  OBVIOUS
<1>7. doc' = IF Serial!NoWrite(c, k, doc[k]) THEN doc ELSE [doc EXCEPT ![k] = after]
  BY <1>4, <1>5, <1>6 DEF Serial!Write
<1>8. /\ \A d : d # k => doc'[d] = doc[d]
      /\ doc'[k] = IF Serial!NoWrite(c, k, doc[k]) THEN doc[k] ELSE Serial!After(c, k, doc[k])
  BY <1>3, <1>6, <1>7
<1>9. crashes' = 0
  BY <1>1, <1>4 DEF Serial!Write
<1>10. IF c.at = Len(Serial!Plan(c.m)) \/ Serial!Stops(c, k, c.snap)
       THEN removed' = IF c.m = "deleteObservation" THEN removed \cup {c.o} ELSE removed
       ELSE removed' = removed
  BY <1>4 DEF Serial!Write
<1>11. Returns(c, k) <=> (c.at = Len(Serial!Plan(c.m)) \/ Serial!Stops(c, k, c.snap))
  BY <1>5 DEF Returns
<1>12. /\ Returns(c, k) => Serial!InFlight' = {}
       /\ ~Returns(c, k) => /\ Serial!InFlight' = {n} /\ calls'[n].pc = "read" /\ calls'[n].at = c.at + 1
                            /\ calls'[n].m = c.m /\ calls'[n].o = c.o /\ calls'[n].rows = c.rows /\ calls'[n].ids = c.ids
  BY <1>1, <1>3, <1>5, <1>11, CallsWrite
<1> QED BY <1>1, <1>2, <1>4, <1>8, <1>9, <1>10, <1>11, <1>12 DEF Wrote

\* What the methods make of the rows and of the hints.
LEMMA OnRows ==
  ASSUME NEW c, NEW s
  PROVE  /\ Serial!After(c, "observations", s) = Serial!Observations(c, s)
         /\ Serial!After(c, "hints", s) = Serial!Hints(c, s)
         /\ c.m = "appendToTerritory" => /\ Serial!Observations(c, s) = Serial!Appended(s, c.o)
                                         /\ Serial!Hints(c, s) = s \cup {c.o}
         /\ c.m = "deleteObservation" => /\ Serial!Observations(c, s) = Serial!Without(s, c.o)
                                         /\ Serial!Hints(c, s) = s \ {c.o}
         /\ c.m = "rewriteTerritory" =>
              /\ c.at = 3 => Serial!Observations(c, s) = Serial!Rewritten(s, Territory[c.o], c.rows)
              /\ Serial!Hints(c, s) = (s \ c.ids) \cup Ids(c.rows)
         /\ c.m = "embed" => Serial!Observations(c, s) = Serial!Changed(s, c.o, Serial!Embedded)
         /\ c.m = "incrementProcessingCount" => Serial!Observations(c, s) = Serial!Changed(s, c.o, Serial!Counted)
         /\ c.m = "linkObservationToEntity" => Serial!Observations(c, s) = Serial!Changed(s, c.o, Serial!Entitled)
         /\ c.m = "advanceChargePhase" =>
              Serial!Observations(c, s) =
                (s \ Serial!First(s, c.o)) \cup {Serial!Advanced(r, c.rows # {}) : r \in Serial!First(s, c.o)}
         /\ c.m = "touch" => Serial!Observations(c, s) = s
<1>1. "observations" \notin Serial!Lists /\ "hints" \notin Serial!Lists
  BY DEF Serial!Lists
<1>2. Serial!After(c, "observations", s) = Serial!Observations(c, s)
  BY <1>1 DEF Serial!After
<1>3. Serial!After(c, "hints", s) = Serial!Hints(c, s)
  BY <1>1 DEF Serial!After
<1>4. /\ c.m = "appendToTerritory" => Serial!Hints(c, s) = s \cup {c.o}
      /\ c.m = "deleteObservation" => Serial!Hints(c, s) = s \ {c.o}
      /\ c.m = "rewriteTerritory" => Serial!Hints(c, s) = (s \ c.ids) \cup Ids(c.rows)
  BY DEF Serial!Hints, Ids
<1>5. ASSUME c.m = "appendToTerritory" PROVE Serial!Observations(c, s) = Serial!Appended(s, c.o)
  BY <1>5 DEF Serial!Observations
<1>6. ASSUME c.m = "deleteObservation" PROVE Serial!Observations(c, s) = Serial!Without(s, c.o)
  BY <1>6 DEF Serial!Observations
<1>7. ASSUME c.m = "rewriteTerritory", c.at = 3 PROVE Serial!Observations(c, s) = Serial!Rewritten(s, Territory[c.o], c.rows)
  BY <1>7 DEF Serial!Observations
<1>8. ASSUME c.m = "embed" PROVE Serial!Observations(c, s) = Serial!Changed(s, c.o, Serial!Embedded)
  BY <1>8 DEF Serial!Observations
<1>9. ASSUME c.m = "incrementProcessingCount" PROVE Serial!Observations(c, s) = Serial!Changed(s, c.o, Serial!Counted)
  BY <1>9 DEF Serial!Observations
<1>10. ASSUME c.m = "linkObservationToEntity" PROVE Serial!Observations(c, s) = Serial!Changed(s, c.o, Serial!Entitled)
  BY <1>10 DEF Serial!Observations
<1>11. ASSUME c.m = "advanceChargePhase"
       PROVE  Serial!Observations(c, s) =
                (s \ Serial!First(s, c.o)) \cup {Serial!Advanced(r, c.rows # {}) : r \in Serial!First(s, c.o)}
  BY <1>11, Zenon DEF Serial!Observations, Serial!Changed
<1>12. ASSUME c.m = "touch" PROVE Serial!Observations(c, s) = s
  BY <1>12 DEF Serial!Observations
<1> QED BY <1>2, <1>3, <1>4, <1>5, <1>6, <1>7, <1>8, <1>9, <1>10, <1>11, <1>12

LEMMA Ended == ASSUME CallsOk', crashes' = 0, Docs', Serial!InFlight' = {}, Settled' PROVE SerialInv'
BY DEF SerialInv

LEMMA GoesOn == ASSUME CallsOk', crashes' = 0, Docs', NEW n, Serial!InFlight' = {n}, Mid(calls[n])' PROVE SerialInv'
BY DEF SerialInv

\* An append: the row, then the observation's hints.
LEMMA AppendWrites ==
  ASSUME NEW n, NEW c, NEW k, Wrote(n, c, k), c.m = "appendToTerritory"
  PROVE  SerialInv'
<1>1. CallsOk' /\ crashes' = 0 /\ Docs /\ Mid(c) /\ c.o \in StoreIds
  BY DEF Wrote
<1>2. Serial!Plan(c.m) = <<"observations", "hints">>
  BY DEF Serial!Plan
<1>3. c.at \in {1, 2} /\ (c.at = 1 => k = "observations") /\ (c.at = 2 => k = "hints")
  BY <1>2 DEF Wrote, Serial!Key
<1>4. ~Serial!NoWrite(c, k, doc[k]) /\ ~Serial!Stops(c, k, doc[k])
  BY DEF Serial!NoWrite, Serial!Stops
<1>5. doc'[k] = Serial!After(c, k, doc[k]) /\ \A d : d # k => doc'[d] = doc[d]
  BY <1>4 DEF Wrote
<1>6. Appending(c.o, c.at) /\ removed' = removed /\ c.o \notin removed
  BY <1>1 DEF Mid, Appending, Wrote
<1>7. CASE c.at = 1
  <2>1. k = "observations" /\ doc'.observations = Serial!Appended(doc.observations, c.o)
    BY <1>3, <1>5, <1>7, OnRows
  <2>2. Settled /\ c.o \notin Have
    BY <1>6, <1>7 DEF Appending
  <2>3. RowsOk(doc'.observations) /\ Ids(doc'.observations) = Have \cup {c.o}
    BY <1>1, <2>1, <2>2, AppendRows DEF Docs, Have
  <2>4. Docs'
    BY <1>1, <1>5, <1>6, <2>1, <2>3, StillDocs DEF Docs
  <2>5. Appending(c.o, 2)'
    BY <1>5, <1>6, <2>1, <2>2, <2>3 DEF Appending, Settled, Sidecars, About, Have
  <2>6. ~Returns(c, k)
    BY <1>2, <1>4, <1>7 DEF Returns
  <2>7. Serial!InFlight' = {n} /\ calls'[n].pc = "read" /\ calls'[n].at = 2 /\ calls'[n].m = "appendToTerritory" /\ calls'[n].o = c.o
    BY <1>7, <2>6 DEF Wrote
  <2>8. Mid(calls[n])'
    BY <2>5, <2>7 DEF Mid
  <2> QED BY <1>1, <2>4, <2>7, <2>8, GoesOn
<1>8. CASE c.at = 2
  <2>1. k = "hints" /\ doc'.hints = doc.hints \cup {c.o}
    BY <1>3, <1>5, <1>8, OnRows
  <2>2. c.o \in Have /\ doc.hints = Have \ {c.o} /\ \A d \in Sidecars : About(d, Have)
    BY <1>6, <1>8 DEF Appending
  <2>3. Docs'
    BY <1>1, <1>5, <1>6, <2>1, StillDocs DEF Docs, Have
  <2>4. Settled'
    BY <1>5, <2>1, <2>2 DEF Settled, Sidecars, About, Have
  <2>5. Serial!InFlight' = {}
    BY <1>2, <1>8 DEF Wrote, Returns
  <2> QED BY <1>1, <2>3, <2>4, <2>5, Ended
<1> QED BY <1>3, <1>7, <1>8

\* A deletion: the row, what is kept beside it, its hints.
LEMMA DeleteWrites ==
  ASSUME NEW n, NEW c, NEW k, Wrote(n, c, k), c.m = "deleteObservation"
  PROVE  SerialInv'
<1>1. CallsOk' /\ crashes' = 0 /\ Docs /\ Mid(c) /\ c.o \in StoreIds
  BY DEF Wrote
<1>2. Serial!Plan(c.m) = <<"observations", "links", "versions", "processing", "hints">>
  BY DEF Serial!Plan
<1>3. c.at \in 1..5 /\ (c.at = 1 => k = "observations") /\ (c.at = 2 => k = "links") /\ (c.at = 3 => k = "versions")
      /\ (c.at = 4 => k = "processing") /\ (c.at = 5 => k = "hints")
  BY <1>2 DEF Wrote, Serial!Key
<1>4. ~Serial!NoWrite(c, k, doc[k])
  BY DEF Serial!NoWrite
<1>5. doc'[k] = Serial!After(c, k, doc[k]) /\ \A d : d # k => doc'[d] = doc[d]
  BY <1>4 DEF Wrote
<1>6. Deleting(c.o, c.at)
  BY <1>1 DEF Mid
<1>7. CASE c.at = 1
  <2>1. k = "observations" /\ doc'.observations = Serial!Without(doc.observations, c.o)
    <3>1. k = "observations"
      BY <1>3, <1>7
    <3>2. Serial!After(c, "observations", doc.observations) = Serial!Without(doc.observations, c.o)
      BY OnRows
    <3> QED BY <1>5, <3>1, <3>2
  <2>2. Settled
    BY <1>6, <1>7 DEF Deleting
  <2>3. RowsOk(doc'.observations) /\ Ids(doc'.observations) = Have \ {c.o}
        /\ (Serial!Without(doc.observations, c.o) = doc.observations <=> c.o \notin Have)
    BY <1>1, <2>1, WithoutRows DEF Docs, Have
  <2>4. removed' \subseteq removed \cup {c.o}
    BY DEF Wrote
  <2>5. Docs'
    BY <1>1, <1>5, <2>1, <2>3, <2>4, StillDocs DEF Docs
  <2>6. CASE c.o \notin Have
    <3>1. Settled'
      BY <1>5, <2>1, <2>2, <2>3, <2>6 DEF Settled, Sidecars, About, Have
    <3>2. Serial!Stops(c, k, doc[k])
      BY <2>1, <2>3, <2>6 DEF Serial!Stops
    <3>3. Serial!InFlight' = {}
      BY <3>2 DEF Wrote, Returns
    <3> QED BY <1>1, <2>5, <3>1, <3>3, Ended
  <2>7. CASE c.o \in Have
    <3>1. ~Serial!Stops(c, k, doc[k])
      BY <2>1, <2>3, <2>7 DEF Serial!Stops
    <3>2. ~Returns(c, k)
      BY <1>2, <1>7, <3>1 DEF Returns
    <3>3. Serial!InFlight' = {n} /\ calls'[n].pc = "read" /\ calls'[n].at = 2 /\ calls'[n].m = "deleteObservation" /\ calls'[n].o = c.o
      BY <1>7, <3>2 DEF Wrote
    <3>4. Deleting(c.o, 2)'
      BY <1>5, <2>1, <2>2, <2>3, <2>7 DEF Deleting, Settled, Sidecars, About, Have
    <3>5. Mid(calls[n])'
      BY <3>3, <3>4 DEF Mid
    <3> QED BY <1>1, <2>5, <3>3, <3>5, GoesOn
  <2> QED BY <2>6, <2>7
<1>8. CASE c.at \in 2..4
  <2>1. k \in Sidecars /\ k # "observations" /\ k # "hints" /\ k # "skills"
    BY <1>3, <1>8 DEF Sidecars
  <2>2. doc'[k] = {r \in doc[k] : r.of # c.o}
    <3>1. k \in Serial!Lists
      BY <2>1 DEF Sidecars, Serial!Lists
    <3>2. c.m \in AllMethods /\ c.at \in 1..Len(Serial!Plan(c.m)) /\ k = Serial!Key(c)
      BY DEF Wrote
    <3>3. Serial!After(c, k, doc[k]) = Serial!Listed(c, doc[k])
      BY <3>1, <3>2, OnLists
    <3> QED BY <1>5, <3>3 DEF Serial!Listed
  <2>3. ~Serial!Stops(c, k, doc[k])
    BY <2>1 DEF Serial!Stops
  <2>4. ~Returns(c, k)
    <3>1. Len(Serial!Plan(c.m)) = 5
      BY <1>2
    <3>2. c.at # 5
      BY <1>8
    <3> QED BY <2>3, <3>1, <3>2 DEF Returns
  <2>5. /\ Serial!InFlight' = {n} /\ calls'[n].pc = "read" /\ calls'[n].at = c.at + 1 /\ removed' = removed
        /\ calls'[n].m = "deleteObservation" /\ calls'[n].o = c.o
    BY <2>4 DEF Wrote
  <2>6. doc'.observations = doc.observations /\ doc'.hints = doc.hints /\ doc'.skills = doc.skills
    BY <1>5, <2>1
  <2>7. Docs'
    <3>1. ListOk(doc'.versions) /\ Unique(doc'.versions) /\ CountedUp(doc'.versions)
      <4>1. CASE k = "versions"
        <5>1. doc'.versions = {r \in doc.versions : r.of # c.o}
          BY <2>2, <4>1
        <5>2. PICK v : v = doc.versions
          OBVIOUS
        <5>3. ListOk(v) /\ Unique(v) /\ CountedUp(v)
          BY <1>1, <5>2 DEF Docs
        <5> QED BY <5>1, <5>2, <5>3, ListCleared
      <4>2. CASE k # "versions"
        BY <1>1, <1>5, <4>2 DEF Docs
      <4> QED BY <4>1, <4>2
    <3> QED BY <1>1, <2>5, <2>6, <3>1 DEF Docs, Have
  <2>8. Deleting(c.o, c.at + 1)'
    <3>1. CASE c.at = 2
      BY <1>3, <1>5, <1>6, <2>2, <2>6, <3>1 DEF Deleting, About, Have
    <3>2. CASE c.at = 3
      BY <1>3, <1>5, <1>6, <2>2, <2>6, <3>2 DEF Deleting, About, Have
    <3>3. CASE c.at = 4
      BY <1>3, <1>5, <1>6, <2>2, <2>6, <3>3 DEF Deleting, About, Have
    <3> QED BY <1>8, <3>1, <3>2, <3>3
  <2>9. Mid(calls[n])'
    BY <2>5, <2>8 DEF Mid
  <2> QED BY <1>1, <2>5, <2>7, <2>9, GoesOn
<1>9. CASE c.at = 5
  <2>1. k = "hints" /\ doc'.hints = doc.hints \ {c.o}
    BY <1>3, <1>5, <1>9, OnRows
  <2>2. /\ c.o \notin Have /\ doc.hints = Have \cup {c.o}
        /\ About("links", Have) /\ About("versions", Have) /\ About("processing", Have)
    BY <1>6, <1>9 DEF Deleting
  <2>3. Serial!InFlight' = {} /\ removed' = removed \cup {c.o}
    BY <1>2, <1>9 DEF Wrote, Returns
  <2>4. Docs'
    BY <1>1, <1>5, <2>1, <2>2, <2>3, StillDocs DEF Docs, Have
  <2>5. Settled'
    BY <1>5, <2>1, <2>2 DEF Settled, Sidecars, About, Have
  <2> QED BY <1>1, <2>3, <2>4, <2>5, Ended
<1> QED BY <1>3, <1>7, <1>8, <1>9

\* A rewriting: the territory, then the hints of what it held.
LEMMA RewriteWrites ==
  ASSUME NEW n, NEW c, NEW k, Wrote(n, c, k), c.m = "rewriteTerritory"
  PROVE  SerialInv'
<1>1. CallsOk' /\ crashes' = 0 /\ Docs /\ Mid(c) /\ c.o \in StoreIds /\ removed' = removed /\ Settled
  BY DEF Wrote, Mid
<1>2. Serial!Plan(c.m) = <<"observations", "observations", "observations", "hints">>
  BY DEF Serial!Plan
<1>3. c.at \in 1..4 /\ (c.at \in 1..3 => k = "observations") /\ (c.at = 4 => k = "hints")
  BY <1>2 DEF Wrote, Serial!Key
<1>4. ~Serial!Stops(c, k, doc[k]) /\ (Serial!NoWrite(c, k, doc[k]) <=> c.at < 3)
  BY DEF Serial!Stops, Serial!NoWrite
<1>5. \A d : d # k => doc'[d] = doc[d]
  BY DEF Wrote
<1>6. PICK t : t = Territory[c.o]
  OBVIOUS
<1>7. PICK now : now = Serial!Public(doc.observations, t)
  OBVIOUS
<1>8. /\ c.at \in 1..3 => c.rows = now
      /\ c.at = 4 => Ids(c.rows) = Ids(now)
      /\ c.at \in 2..4 => c.ids = Ids(now)
  BY <1>1, <1>6, <1>7 DEF Mid, Rewriting, Wrote
<1>9. c.at \in 1..3 => /\ Serial!InFlight' = {n} /\ calls'[n].pc = "read" /\ calls'[n].at = c.at + 1 /\ calls'[n].m = c.m
                       /\ calls'[n].o = c.o /\ calls'[n].rows = c.rows /\ calls'[n].ids = c.ids
  <2> SUFFICES ASSUME c.at \in 1..3
               PROVE  /\ Serial!InFlight' = {n} /\ calls'[n].pc = "read" /\ calls'[n].at = c.at + 1 /\ calls'[n].m = c.m
                      /\ calls'[n].o = c.o /\ calls'[n].rows = c.rows /\ calls'[n].ids = c.ids
    OBVIOUS
  <2>1. Len(Serial!Plan(c.m)) = 4
    BY <1>2
  <2>2. c.at # 4
    OBVIOUS
  <2>3. ~Returns(c, k)
    BY <1>4, <2>1, <2>2 DEF Returns
  <2> QED BY <2>3 DEF Wrote
<1>10. CASE c.at \in 1..2
  <2>1. \A d : doc'[d] = doc[d]
    <3>1. c.at < 3
      BY <1>10
    <3> QED BY <1>4, <1>5, <3>1 DEF Wrote
  <2>2. Docs' /\ Settled'
    BY <1>1, <2>1 DEF Docs, Settled, About, Have
  <2>3. Rewriting(calls[n])'
    <3>1. PICK d : d = calls'[n]
      OBVIOUS
    <3>2. d.pc = "read" /\ d.o = c.o /\ d.rows = now /\ d.at \in 2..3 /\ (d.at = 3 => d.ids = Ids(now))
      BY <1>8, <1>9, <1>10, <3>1
    <3>3. Serial!Public(doc'.observations, Territory[d.o]) = now
      BY <1>6, <1>7, <2>1, <3>2
    <3>4. Rewriting(d)'
      BY <3>2, <3>3 DEF Rewriting
    <3> QED BY <3>1, <3>4 DEF Rewriting
  <2>4. Mid(calls[n])'
    BY <1>9, <1>10, <2>2, <2>3 DEF Mid
  <2> QED BY <1>1, <1>9, <1>10, <2>2, <2>4, GoesOn
<1>11. CASE c.at = 3
  <2>1. k = "observations" /\ doc'.observations = Serial!Rewritten(doc.observations, t, now)
    <3>1. k = "observations" /\ c.rows = now
      BY <1>3, <1>8, <1>11
    <3>2. Serial!After(c, "observations", doc.observations) = Serial!Rewritten(doc.observations, t, now)
      BY <1>6, <1>11, <3>1, OnRows
    <3>3. ~Serial!NoWrite(c, k, doc[k])
      BY <1>4, <1>11
    <3> QED BY <3>1, <3>2, <3>3 DEF Wrote
  <2>2. /\ RowsOk(doc'.observations) /\ Ids(doc'.observations) = Ids(doc.observations)
        /\ Ids(Serial!Public(doc'.observations, t)) = Ids(now)
    <3>1. PICK s : s = doc.observations
      OBVIOUS
    <3>2. RowsOk(s)
      BY <1>1, <3>1 DEF Docs
    <3> QED BY <1>7, <2>1, <3>1, <3>2, RewrittenRows
  <2>3. Docs'
    BY <1>1, <1>5, <2>1, <2>2, StillDocs DEF Docs, Have
  <2>4. Settled'
    BY <1>1, <1>5, <2>1, <2>2, StillSettled DEF Sidecars
  <2>5. Rewriting(calls[n])'
    <3>1. PICK d : d = calls'[n]
      OBVIOUS
    <3>2. d.pc = "read" /\ d.o = c.o /\ d.rows = now /\ d.at = 4 /\ d.ids = Ids(now)
      BY <1>8, <1>9, <1>11, <3>1
    <3>3. Ids(Serial!Public(doc'.observations, Territory[d.o])) = Ids(now)
      BY <1>6, <2>2, <3>2
    <3>4. PICK v : v = Serial!Public(doc'.observations, Territory[d.o])
      OBVIOUS
    <3>5. Ids(d.rows) = Ids(v) /\ d.ids = Ids(v)
      BY <3>2, <3>3, <3>4
    <3>6. Rewriting(d)'
      BY <3>2, <3>4, <3>5 DEF Rewriting
    <3> QED BY <3>1, <3>6 DEF Rewriting
  <2>6. Mid(calls[n])'
    BY <1>9, <1>11, <2>4, <2>5 DEF Mid
  <2> QED BY <1>1, <1>9, <1>11, <2>3, <2>6, GoesOn
<1>12. CASE c.at = 4
  <2>1. k = "hints" /\ doc'.hints = (doc.hints \ Ids(now)) \cup Ids(now)
    <3>1. k = "hints" /\ Ids(c.rows) = Ids(now) /\ c.ids = Ids(now)
      BY <1>3, <1>8, <1>12
    <3>2. Serial!After(c, "hints", doc.hints) = (doc.hints \ c.ids) \cup Ids(c.rows)
      BY OnRows
    <3>3. ~Serial!NoWrite(c, k, doc[k])
      BY <1>4, <1>12
    <3> QED BY <3>1, <3>2, <3>3 DEF Wrote
  <2>2. Ids(now) \subseteq Have
    BY <1>7 DEF Serial!Public, Ids, Have
  <2>3. doc'.hints = doc.hints
    BY <1>1, <2>1, <2>2 DEF Settled
  <2>4. Docs'
    BY <1>1, <1>5, <2>1, StillDocs DEF Docs, Have
  <2>5. Settled'
    BY <1>1, <1>5, <2>1, <2>3, StillSettled DEF Sidecars
  <2>6. Serial!InFlight' = {}
    BY <1>2, <1>12 DEF Wrote, Returns
  <2> QED BY <1>1, <2>4, <2>5, <2>6, Ended
<1> QED BY <1>3, <1>10, <1>11, <1>12

\* The other methods leave the store settled at each of their writes.
LEMMA Onward ==
  ASSUME NEW n, NEW c, NEW k, Wrote(n, c, k), c.m \notin {"appendToTerritory", "deleteObservation", "rewriteTerritory"},
         Docs', Settled', Ids(doc'.observations) = Ids(doc.observations)
  PROVE  SerialInv'
<1>1. CallsOk' /\ crashes' = 0 /\ Mid(c)
  BY DEF Wrote
<1>2. CASE Returns(c, k)
  BY <1>1, <1>2, Ended DEF Wrote
<1>3. CASE ~Returns(c, k)
  <2>1. Serial!InFlight' = {n} /\ calls'[n].pc = "read" /\ calls'[n].m = c.m /\ calls'[n].o = c.o
    BY <1>3 DEF Wrote
  <2>2. Mid(calls[n])'
    BY <1>1, <2>1 DEF Mid, Have
  <2> QED BY <1>1, <2>1, <2>2, GoesOn
<1> QED BY <1>2, <1>3

\* Changes of a row leave the rows' ids alone.
LEMMA RowChanges ==
  ASSUME NEW s, RowsOk(s), NEW o, NEW t,
         \/ t = Serial!Changed(s, o, Serial!Embedded)
         \/ t = Serial!Changed(s, o, Serial!Counted)
         \/ t = Serial!Changed(s, o, Serial!Entitled)
  PROVE  RowsOk(t) /\ Ids(t) = Ids(s)
<1>1. PICK F : F = Serial!First(s, o)
  OBVIOUS
<1>2. F \in SUBSET StoredRow
  BY <1>1 DEF Serial!First, RowsOk
<1>3. ASSUME NEW g \in [StoredRow -> StoredRow], \A r \in StoredRow : g[r].id = r.id, t = (s \ F) \cup {g[r] : r \in F}
      PROVE  RowsOk(t) /\ Ids(t) = Ids(s)
  BY <1>1, <1>3, ChangedRows
<1>4. CASE t = Serial!Changed(s, o, Serial!Embedded)
  <2>1. PICK g : g = [r \in StoredRow |-> [r EXCEPT !.vec = TRUE]]
    OBVIOUS
  <2>2. g \in [StoredRow -> StoredRow] /\ \A r \in StoredRow : g[r].id = r.id
    BY <2>1 DEF StoredRow
  <2>3. t = (s \ F) \cup {[r EXCEPT !.vec = TRUE] : r \in F}
    BY <1>1, <1>4, Zenon DEF Serial!Changed, Serial!Embedded
  <2>4. {[r EXCEPT !.vec = TRUE] : r \in F} = {g[r] : r \in F}
    BY <1>2, <2>1
  <2> QED BY <1>3, <2>2, <2>3, <2>4
<1>5. CASE t = Serial!Changed(s, o, Serial!Counted)
  <2>1. PICK g : g = [r \in StoredRow |-> [r EXCEPT !.count = @ + 1]]
    OBVIOUS
  <2>2. g \in [StoredRow -> StoredRow] /\ \A r \in StoredRow : g[r].id = r.id
    BY <2>1 DEF StoredRow
  <2>3. t = (s \ F) \cup {[r EXCEPT !.count = @ + 1] : r \in F}
    BY <1>1, <1>5, Zenon DEF Serial!Changed, Serial!Counted
  <2>4. {[r EXCEPT !.count = @ + 1] : r \in F} = {g[r] : r \in F}
    BY <1>2, <2>1
  <2> QED BY <1>3, <2>2, <2>3, <2>4
<1>6. CASE t = Serial!Changed(s, o, Serial!Entitled)
  <2>1. PICK g : g = [r \in StoredRow |-> [r EXCEPT !.entity = TRUE]]
    OBVIOUS
  <2>2. g \in [StoredRow -> StoredRow] /\ \A r \in StoredRow : g[r].id = r.id
    BY <2>1 DEF StoredRow
  <2>3. t = (s \ F) \cup {[r EXCEPT !.entity = TRUE] : r \in F}
    BY <1>1, <1>6, Zenon DEF Serial!Changed, Serial!Entitled
  <2>4. {[r EXCEPT !.entity = TRUE] : r \in F} = {g[r] : r \in F}
    BY <1>2, <2>1
  <2> QED BY <1>3, <2>2, <2>3, <2>4
<1> QED BY <1>4, <1>5, <1>6

LEMMA RowAdvances ==
  ASSUME NEW s, RowsOk(s), NEW o, NEW b \in BOOLEAN, NEW t,
         t = (s \ Serial!First(s, o)) \cup {Serial!Advanced(r, b) : r \in Serial!First(s, o)}
  PROVE  RowsOk(t) /\ Ids(t) = Ids(s)
<1>1. PICK F : F = Serial!First(s, o)
  OBVIOUS
<1>2. F \in SUBSET StoredRow
  BY <1>1 DEF Serial!First, RowsOk
<1>3. PICK g : g = [r \in StoredRow |-> Serial!Advanced(r, b)]
  OBVIOUS
<1>4. ASSUME NEW r \in StoredRow PROVE Serial!Advanced(r, b) \in StoredRow /\ Serial!Advanced(r, b).id = r.id
  <2>1. PICK q : q = [r EXCEPT !.phase = @ + 1]
    OBVIOUS
  <2>2. q \in StoredRow /\ q.id = r.id
    BY <2>1 DEF StoredRow
  <2>3. Serial!Advanced(r, b) \in {r, q}
    BY <2>1, Zenon DEF Serial!Advanced
  <2> QED BY <2>2, <2>3
<1>5. g \in [StoredRow -> StoredRow] /\ \A r \in StoredRow : g[r].id = r.id
  BY <1>3, <1>4
<1>6. t = (s \ F) \cup {Serial!Advanced(r, b) : r \in F}
  BY <1>1
<1>7. {Serial!Advanced(r, b) : r \in F} = {g[r] : r \in F}
  BY <1>2, <1>3
<1>8. t = (s \ F) \cup {g[r] : r \in F}
  BY <1>6, <1>7
<1> QED BY <1>1, <1>5, <1>8, ChangedRows

RowMethods == {"touch", "embed", "incrementProcessingCount", "linkObservationToEntity", "advanceChargePhase"}
NoteMethods == {"appendLink", "createVersion", "createProcessingEntry"}

Elsewhere == AllMethods \ (RowMethods \cup NoteMethods \cup {"appendToTerritory", "deleteObservation", "rewriteTerritory"})

\* The documents these methods write.
LEMMA PlanKeys ==
  /\ \A m \in RowMethods : \A i \in 1..Len(Serial!Plan(m)) : Serial!Plan(m)[i] \in {"observations", "loops"}
  /\ \A m \in NoteMethods : \A i \in 1..Len(Serial!Plan(m)) :
       Serial!Plan(m)[i] \in Sidecars /\ (Serial!Plan(m)[i] = "versions" <=> m = "createVersion")
  /\ \A m \in Elsewhere : \A i \in 1..Len(Serial!Plan(m)) :
       Serial!Plan(m)[i] \notin Sidecars \cup {"observations", "hints"}
       /\ (Serial!Plan(m)[i] = "skills" => m \in {"createSkill", "reviewSkill"})
<1>1. \A m \in RowMethods : \A i \in 1..Len(Serial!Plan(m)) : Serial!Plan(m)[i] \in {"observations", "loops"}
  BY DEF RowMethods, Serial!Plan
<1>2. \A m \in NoteMethods : \A i \in 1..Len(Serial!Plan(m)) :
        Serial!Plan(m)[i] \in Sidecars /\ (Serial!Plan(m)[i] = "versions" <=> m = "createVersion")
  BY DEF NoteMethods, Serial!Plan, Sidecars
<1>3. \A m \in Elsewhere : \A i \in 1..Len(Serial!Plan(m)) :
        Serial!Plan(m)[i] \notin Sidecars \cup {"observations", "hints"}
        /\ (Serial!Plan(m)[i] = "skills" => m \in {"createSkill", "reviewSkill"})
  BY DEF Elsewhere, AllMethods, RowMethods, NoteMethods, Serial!Plan, Sidecars
<1> QED BY <1>1, <1>2, <1>3

LEMMA RowWrites ==
  ASSUME NEW n, NEW c, NEW k, Wrote(n, c, k), c.m \in RowMethods
  PROVE  SerialInv'
<1>1. Docs /\ Settled /\ removed' = removed /\ \A d : d # k => doc'[d] = doc[d]
  BY DEF Wrote, Mid, RowMethods
<1>2. k \in {"observations", "loops"}
  BY PlanKeys DEF Wrote, Serial!Key
<1>3. PICK s : s = doc.observations
  OBVIOUS
<1>4. RowsOk(s)
  BY <1>1, <1>3 DEF Docs
<1>5. RowsOk(doc'.observations) /\ Ids(doc'.observations) = Ids(s)
  <2>1. CASE k = "loops" \/ Serial!NoWrite(c, k, doc[k])
    <3>1. doc'.observations = s
      BY <1>1, <1>3, <2>1 DEF Wrote
    <3> QED BY <1>4, <3>1
  <2>2. CASE k = "observations" /\ ~Serial!NoWrite(c, k, doc[k])
    <3>1. doc'.observations = Serial!Observations(c, s)
      <4>1. Serial!After(c, "observations", s) = Serial!Observations(c, s)
        BY OnRows
      <4> QED BY <1>3, <2>2, <4>1 DEF Wrote
    <3>2. CASE c.m = "touch"
      <4>1. Serial!Observations(c, s) = s
        BY <3>2, OnRows
      <4> QED BY <1>4, <3>1, <4>1
    <3>3. CASE c.m = "embed"
      <4>1. Serial!Observations(c, s) = Serial!Changed(s, c.o, Serial!Embedded)
        BY <3>3, OnRows
      <4> QED BY <1>4, <3>1, <4>1, RowChanges
    <3>4. CASE c.m = "incrementProcessingCount"
      <4>1. Serial!Observations(c, s) = Serial!Changed(s, c.o, Serial!Counted)
        BY <3>4, OnRows
      <4> QED BY <1>4, <3>1, <4>1, RowChanges
    <3>5. CASE c.m = "linkObservationToEntity"
      <4>1. Serial!Observations(c, s) = Serial!Changed(s, c.o, Serial!Entitled)
        BY <3>5, OnRows
      <4> QED BY <1>4, <3>1, <4>1, RowChanges
    <3>6. CASE c.m = "advanceChargePhase"
      <4>1. Serial!Observations(c, s) =
              (s \ Serial!First(s, c.o)) \cup {Serial!Advanced(r, c.rows # {}) : r \in Serial!First(s, c.o)}
        BY <3>6, OnRows
      <4>2. PICK b \in BOOLEAN : b = (c.rows # {})
        OBVIOUS
      <4>3. PICK t : t = (s \ Serial!First(s, c.o)) \cup {Serial!Advanced(r, b) : r \in Serial!First(s, c.o)}
        OBVIOUS
      <4>4. RowsOk(t) /\ Ids(t) = Ids(s)
        BY <1>4, <4>3, RowAdvances
      <4>5. doc'.observations = t
        BY <3>1, <4>1, <4>2, <4>3, Zenon
      <4> QED BY <4>4, <4>5
    <3> QED BY <3>2, <3>3, <3>4, <3>5, <3>6 DEF RowMethods
  <2> QED BY <1>2, <2>1, <2>2
<1>6. Docs'
  BY <1>1, <1>2, <1>3, <1>5, StillDocs DEF Docs, Have
<1>7. Settled'
  BY <1>1, <1>2, <1>3, <1>5, StillSettled DEF Sidecars
<1> QED BY <1>3, <1>5, <1>6, <1>7, Onward DEF RowMethods

\* A link, a version, a processing entry is about an observation that is there.
LEMMA NoteWrites ==
  ASSUME NEW n, NEW c, NEW k, Wrote(n, c, k), c.m \in NoteMethods
  PROVE  SerialInv'
<1>1. /\ Docs /\ Settled /\ removed' = removed /\ c.o \in Have /\ c.o \in StoreIds /\ c.id \in Nat
      /\ \A d : d # k => doc'[d] = doc[d]
  BY DEF Wrote, Mid, NoteMethods
<1>2. k \in Sidecars /\ (k = "versions" <=> c.m = "createVersion")
  BY PlanKeys DEF Wrote, Serial!Key
<1>3. doc'[k] = Serial!Listed(c, doc[k])
  <2>1. c.m \in AllMethods /\ c.at \in 1..Len(Serial!Plan(c.m)) /\ k = Serial!Key(c)
    BY DEF Wrote
  <2>2. k \in Serial!Lists /\ c.m \notin {"advanceChargePhase", "reviewSkill"}
    BY <1>2 DEF Sidecars, Serial!Lists, NoteMethods
  <2>3. Serial!After(c, k, doc[k]) = Serial!Listed(c, doc[k]) /\ ~Serial!NoWrite(c, k, doc[k])
    BY <2>1, <2>2, OnLists
  <2> QED BY <2>3 DEF Wrote
<1>4. \A r \in doc'[k] : r \in doc[k] \/ r.of = c.o
  <2>1. PICK i : Serial!Listed(c, doc[k]) = doc[k] \cup {[by |-> c.id, of |-> c.o, num |-> i]}
    BY Zenon DEF Serial!Listed, NoteMethods
  <2>2. PICK e : e = [by |-> c.id, of |-> c.o, num |-> i]
    OBVIOUS
  <2> QED BY <1>3, <2>1, <2>2
<1>5. doc'.observations = doc.observations /\ doc'.hints = doc.hints /\ doc'.skills = doc.skills
  BY <1>1, <1>2 DEF Sidecars
<1>6. Settled'
  BY <1>1, <1>4, <1>5 DEF Settled, About, Have
<1>7. ListOk(doc'.versions) /\ Unique(doc'.versions) /\ CountedUp(doc'.versions)
  <2>1. CASE k # "versions"
    BY <1>1, <2>1 DEF Docs
  <2>2. CASE k = "versions"
    <3>1. PICK s : s = doc.versions
      OBVIOUS
    <3>2. ListOk(s) /\ Unique(s) /\ CountedUp(s)
      BY <1>1, <3>1 DEF Docs
    <3>3. c.m = "createVersion"
      BY <1>2, <2>2
    <3>4. doc'.versions = s \cup {[by |-> c.id, of |-> c.o, num |-> Serial!NextNumber(s, c.o)]}
      BY <1>3, <2>2, <3>1, <3>3 DEF Serial!Listed
    <3>5. PICK i \in Nat : i = c.id
      BY <1>1
    <3>6. PICK o \in StoreIds : o = c.o
      BY <1>1
    <3> QED BY <3>2, <3>4, <3>5, <3>6, VersionNumbered
  <2> QED BY <2>1, <2>2
<1>8. Docs'
  BY <1>1, <1>5, <1>7 DEF Docs, Have
<1> QED BY <1>5, <1>6, <1>8, Onward DEF NoteMethods

\* The rest leave the observations and what is kept beside them as they are.
LEMMA OtherWrites ==
  ASSUME NEW n, NEW c, NEW k, Wrote(n, c, k), c.m \in Elsewhere
  PROVE  SerialInv'
<1>1. Docs /\ Settled /\ removed' = removed /\ c.o \in StoreIds /\ c.id \in Nat /\ c.m \in AllMethods
  BY DEF Wrote, Mid, Elsewhere
<1>2. k \notin Sidecars \cup {"observations", "hints"} /\ (k = "skills" => c.m \in {"createSkill", "reviewSkill"})
  BY PlanKeys DEF Wrote, Serial!Key
<1>3. \A d \in Sidecars \cup {"observations", "hints"} : doc'[d] = doc[d]
  BY <1>2 DEF Wrote
<1>4. ListOk(doc'.skills) /\ Unique(doc'.skills)
  <2>1. CASE k # "skills"
    <3>1. doc'.skills = doc.skills
      BY <2>1 DEF Wrote
    <3> QED BY <1>1, <3>1 DEF Docs
  <2>2. CASE k = "skills"
    <3>1. PICK s : s = doc.skills
      OBVIOUS
    <3>2. ListOk(s) /\ Unique(s)
      BY <1>1, <3>1 DEF Docs
    <3>3. k \in Serial!Lists /\ c.at \in 1..Len(Serial!Plan(c.m)) /\ k = Serial!Key(c)
      BY <2>2 DEF Serial!Lists, Wrote
    <3>4. CASE c.m = "reviewSkill"
      <4>1. Serial!After(c, k, doc[k]) = doc[k]
        BY <1>1, <3>3, <3>4, OnLists
      <4>2. doc'.skills = s
        BY <2>2, <3>1, <4>1 DEF Wrote
      <4> QED BY <3>2, <4>2
    <3>5. CASE c.m = "createSkill"
      <4>1. Serial!After(c, k, doc[k]) = Serial!Listed(c, doc[k]) /\ ~Serial!NoWrite(c, k, doc[k])
        BY <1>1, <3>3, <3>5, OnLists
      <4>2. doc'.skills = Serial!Listed(c, s)
        BY <2>2, <3>1, <4>1 DEF Wrote
      <4>3. Serial!Listed(c, s) = s \cup {[by |-> c.id, of |-> c.o, num |-> Serial!SkillNumber(s, c.o)]}
        BY <3>5 DEF Serial!Listed
      <4>4. PICK i \in Nat : i = c.id
        BY <1>1
      <4>5. PICK o \in StoreIds : o = c.o
        BY <1>1
      <4> QED BY <3>2, <4>2, <4>3, <4>4, <4>5, SkillNumbered
    <3> QED BY <1>2, <2>2, <3>4, <3>5
  <2> QED BY <2>1, <2>2
<1>5. Docs'
  BY <1>1, <1>3, <1>4 DEF Docs, Have, Sidecars
<1>6. Settled'
  BY <1>1, <1>3, StillSettled
<1>7. Ids(doc'.observations) = Ids(doc.observations)
  BY <1>3
<1> QED BY <1>5, <1>6, <1>7, Onward DEF Elsewhere

LEMMA SerialStep == SerialInv /\ [Serial!Next]_Store => SerialInv'
<1> SUFFICES ASSUME SerialInv, [Serial!Next]_Store PROVE SerialInv'
  OBVIOUS
<1>1. CASE UNCHANGED Store
  <2>1. doc' = doc /\ calls' = calls /\ started' = started /\ removed' = removed /\ crashes' = crashes
    BY <1>1 DEF Store
  <2>2. Serial!InFlight' = Serial!InFlight
    BY <2>1 DEF Serial!InFlight
  <2>3. CallsOk' /\ Docs' /\ (Settled' <=> Settled)
    BY <2>1, <2>2 DEF SerialInv, CallsOk, CallOk, Docs, Settled, About, Have
  <2>4. ASSUME NEW n \in Serial!InFlight PROVE Mid(calls[n])'
    <3>1. PICK c : c = calls[n]
      OBVIOUS
    <3>2. Mid(c)
      BY <3>1 DEF SerialInv
    <3>3. Mid(c)'
      BY <2>1, <2>3, <3>2 DEF Mid, Appending, Deleting, Rewriting, About, Have
    <3> QED BY <2>1, <3>1, <3>3 DEF Mid, Appending, Deleting, Rewriting
  <2> QED BY <2>1, <2>2, <2>3, <2>4 DEF SerialInv
<1>2. ASSUME NEW m \in AllMethods \ {"backfill"}, NEW o \in StoreIds, Serial!Start(m, o) PROVE SerialInv'
  BY <1>2, SerialBegin
<1>3. ASSUME NEW o \in StoreIds, Serial!Backfill(o) PROVE SerialInv'
  BY <1>3 DEF Serial!Backfill, AllMethods
<1>4. ASSUME NEW n \in Serial!InFlight, Serial!Read(calls[n]) PROVE SerialInv'
  BY <1>4, SerialRead
<1>5. ASSUME NEW n \in Serial!InFlight, Serial!Write(calls[n]) PROVE SerialInv'
  <2>1. PICK c : c = calls[n]
    OBVIOUS
  <2>2. PICK k : k = Serial!Key(c)
    OBVIOUS
  <2>3. Wrote(n, c, k)
    BY <1>5, <2>1, <2>2, SerialWrites
  <2>4. c.m \in AllMethods
    BY <2>3 DEF Wrote
  <2> QED BY <2>3, <2>4, AppendWrites, DeleteWrites, RewriteWrites, RowWrites, NoteWrites, OtherWrites DEF Elsewhere
<1>6. ~Serial!Crash
  BY DEF Serial!Crash, SerialInv
<1> QED BY <1>1, <1>2, <1>3, <1>4, <1>5, <1>6, Zenon DEF Serial!Next

LEMMA SerialTrue == SerialInv => Serial!SidecarsFollow /\ Serial!VersionsNumbered /\ Serial!DeletedGone
<1> SUFFICES ASSUME SerialInv PROVE Serial!SidecarsFollow /\ Serial!VersionsNumbered /\ Serial!DeletedGone
  OBVIOUS
<1>1. Serial!Present = Have
  BY DEF Serial!Present, Have, Ids
<1>2. Serial!SidecarsFollow
  BY <1>1 DEF SerialInv, Settled, Sidecars, About, Serial!SidecarsFollow, Serial!Idle
<1>3. Serial!VersionsNumbered
  BY DEF SerialInv, Docs, Unique, Serial!VersionsNumbered
<1>4. Serial!DeletedGone
  BY <1>1 DEF SerialInv, Docs, Serial!DeletedGone
<1> QED BY <1>2, <1>3, <1>4

\* A behaviour drives one part: what holds of a store method by method holds of it.
BothStores == (part = "serial" => SerialInv) /\ (part = "overlap" => StoreInv)

LEMMA StorePart ==
  [AllNext]_all => part' = part /\ (part = "serial" => [Serial!Next]_Store) /\ (part = "overlap" => [Overlap!Next]_Store)
<1> SUFFICES ASSUME [AllNext]_all
             PROVE  part' = part /\ (part = "serial" => [Serial!Next]_Store) /\ (part = "overlap" => [Overlap!Next]_Store)
  OBVIOUS
<1>1. CASE UNCHANGED all
  BY <1>1 DEF all
<1>2. CASE AllNext
  BY <1>2, Zenon DEF AllNext
<1> QED BY <1>1, <1>2

\* However many calls of whatever methods: one after the other, they leave what is kept
\* beside the observations about observations that exist, no version number twice and
\* nothing of what was deleted; where they overlap, a row whose append returned is lost
\* only to a call that held a copy of the same document (StoreTrue; sqlite.ts's
\* read-modify-write of whole documents).
THEOREM StoreIsTrue == AllSpec => []StoreTrue
<1>1. AllInit => BothStores
  BY SerialInit, StoreInit DEF AllInit, BothStores
<1>2. BothStores /\ [AllNext]_all => BothStores'
  <2> SUFFICES ASSUME BothStores, [AllNext]_all PROVE BothStores'
    OBVIOUS
  <2>1. part' = part
    BY StorePart
  <2>2. CASE part = "serial"
    <3>1. SerialInv'
      BY <2>2, StorePart, SerialStep DEF BothStores
    <3> QED BY <2>1, <2>2, <3>1 DEF BothStores
  <2>3. CASE part = "overlap"
    <3>1. StoreInv'
      BY <2>3, StorePart, OverlapStep DEF BothStores
    <3> QED BY <2>1, <2>3, <3>1 DEF BothStores
  <2>4. CASE part \notin {"serial", "overlap"}
    BY <2>1, <2>4 DEF BothStores
  <2> QED BY <2>2, <2>3, <2>4
<1>3. BothStores => StoreTrue
  BY SerialTrue, LossIsClash DEF BothStores, StoreTrue
<1> QED BY <1>1, <1>2, <1>3, PTL DEF AllSpec
==============================================================================
