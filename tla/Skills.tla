--------------------------------- MODULE Skills ---------------------------------
(***************************************************************************)
(* The captured skill registry: versions of a skill key, the lifecycle a   *)
(* reviewer moves them through with mind_skill, and the nightly task that  *)
(* proposes what to review.  mind_skill reads the status, validates the    *)
(* transition and then updates the row unconditionally, so a review is two *)
(* steps.  Accepting one of the task's proposals changes nothing in the    *)
(* registry: the row of the ledger is a tombstone whatever its status.     *)
(***************************************************************************)
EXTENDS Integers, FiniteSets, Sequences, FiniteSetsExt

CONSTANTS
  SkillKeys,   \* skill_key
  Reviewers,   \* concurrent callers of mind_skill
  MaxSkills,   \* bound on artifacts
  MaxNow,      \* bound on the clock
  StaleAfter,  \* STALE_ACCEPTED_DAYS
  MinAge,      \* PROMOTION_MIN_AGE_HOURS
  ScanCap,     \* MAX_SCAN_PER_STATUS
  MaxFaults    \* bound on queries that fail and are answered by an empty list

SkillsAssumption ==
  /\ IsFiniteSet(SkillKeys) /\ MaxSkills \in Nat /\ MaxNow \in Nat
  /\ StaleAfter \in Nat /\ MinAge \in Nat /\ ScanCap \in Nat \ {0} /\ MaxFaults \in Nat

VARIABLES
  now,      \* the clock
  skills,   \* captured_skills in the order of created_at; an id is a position
  rows,     \* daemon_proposals of the task's types: proposal |-> status
  review,   \* what each reviewer has validated and not yet written
  faults

vars == <<now, skills, rows, review, faults>>

Statuses == {"candidate", "accepted", "degraded", "retired"}
Decisions == {"accepted", "degraded", "retired"}
SkillTypes == {"skill_recapture", "skill_supersession", "skill_promotion"}
Ids == DOMAIN skills
Idle == [id |-> 0, decision |-> "retired"]
Skill == [key : SkillKeys, version : 1..MaxSkills, status : Statuses, made : 0..MaxNow, updated : 0..MaxNow]
Proposal(type, source, target) == [type |-> type, source |-> source, target |-> target]
Proposals == [type : SkillTypes, source : 1..MaxSkills, target : 1..MaxSkills]

TypeOK ==
  /\ now \in 0..MaxNow /\ faults \in 0..MaxFaults
  /\ skills \in Seq(Skill) /\ Len(skills) <= MaxSkills
  /\ DOMAIN rows \subseteq Proposals /\ \A p \in DOMAIN rows : rows[p] \in {"pending", "reviewed"}
  /\ \A r \in Reviewers : review[r] = Idle \/ (review[r].id \in Ids /\ review[r].decision \in Decisions)

Init ==
  /\ now = 0 /\ skills = <<>> /\ rows = <<>> /\ faults = 0
  /\ review = [r \in Reviewers |-> Idle]

Tick == now < MaxNow /\ now' = now + 1 /\ UNCHANGED <<skills, rows, review, faults>>

-----------------------------------------------------------------------------
(* The registry. *)

NextVersion(k) == 1 + Max({0} \cup {skills[i].version : i \in {j \in Ids : skills[j].key = k}})

createCapturedSkillArtifact(k) ==
  /\ Len(skills) < MaxSkills
  /\ skills' = Append(skills, [key |-> k, version |-> NextVersion(k), status |-> "candidate",
                               made |-> now, updated |-> now])
  /\ UNCHANGED <<now, rows, review, faults>>

\* (Slip: a retired skill may be taken back.)
validateTransition_Revives(from, to) ==
  <<from, to>> \in ({"candidate", "degraded", "retired"} \X {"accepted"}) \cup ({"accepted"} \X {"degraded"})
                   \cup ({"candidate", "accepted", "degraded"} \X {"retired"})
validateTransition(from, to) ==
  <<from, to>> \in ({"candidate", "degraded"} \X {"accepted"}) \cup ({"accepted"} \X {"degraded"})
                   \cup ({"candidate", "accepted", "degraded"} \X {"retired"})

\* mind_skill action=review up to its validation, and its write, whose UPDATE names the
\* id and no status.
Validate(r) ==
  \E i \in Ids, d \in Decisions :
    /\ review[r] = Idle /\ validateTransition(skills[i].status, d)
    /\ review' = [review EXCEPT ![r] = [id |-> i, decision |-> d]]
    /\ UNCHANGED <<now, skills, rows, faults>>
reviewCapturedSkillArtifact(r) ==
  /\ review[r] # Idle
  /\ skills' = [skills EXCEPT ![review[r].id].status = review[r].decision, ![review[r].id].updated = now]
  /\ review' = [review EXCEPT ![r] = Idle]
  /\ UNCHANGED <<now, rows, faults>>

-----------------------------------------------------------------------------
(* The nightly task. *)

\* The newest of a status.
listCapturedSkillArtifacts(status) ==
  LET all == {i \in Ids : skills[i].status = status}
  IN {i \in all : Cardinality({j \in all : j > i}) < ScanCap}

Stale(i) == skills[i].status = "accepted" /\ now - skills[i].updated >= StaleAfter

\* The accepted version of the candidate's key that stands for it, if any was listed.
buildLatestVersionMap(accepted, k) ==
  LET of == {i \in accepted : skills[i].key = k} IN {i \in of : \A j \in of : skills[j].version <= skills[i].version}

Recaptures(accepted) == {Proposal("skill_recapture", i, i) : i \in {a \in accepted : Stale(a)}}
Supersessions(accepted, c) ==
  {Proposal("skill_supersession", a, c) :
     a \in {l \in buildLatestVersionMap(accepted, skills[c].key) : skills[l].version < skills[c].version}}
Promotable(accepted, c) == buildLatestVersionMap(accepted, skills[c].key) = {} /\ now - skills[c].made >= MinAge
Actions(accepted, candidates) ==
  Recaptures(accepted) \cup (UNION {Supersessions(accepted, c) : c \in candidates})
    \cup {Proposal("skill_promotion", c, c) : c \in {x \in candidates : Promotable(accepted, x)}}

HasWork(accepted, candidates) == accepted # {} \/ candidates # {}

\* A query that fails is answered by an empty list.  The insert leaves a row that is
\* there alone, whatever its status.
runSkillHealthTask ==
  \E lost \in SUBSET {"accepted", "candidate"} :
    LET accepted == IF "accepted" \in lost THEN {} ELSE listCapturedSkillArtifacts("accepted")
        candidates == IF "candidate" \in lost THEN {} ELSE listCapturedSkillArtifacts("candidate")
        create == Actions(accepted, candidates) \ DOMAIN rows
    IN /\ faults + Cardinality(lost) <= MaxFaults /\ faults' = faults + Cardinality(lost)
       /\ HasWork(accepted, candidates) /\ create # {}
       /\ rows' = [p \in DOMAIN rows \cup create |-> IF p \in create THEN "pending" ELSE rows[p]]
       /\ UNCHANGED <<now, skills, review>>

\* mind_propose action=review of such a proposal: no branch acts on these types, so
\* accepted and rejected are one.
ReviewProposal(p) ==
  /\ rows[p] = "pending" /\ rows' = [rows EXCEPT ![p] = "reviewed"]
  /\ UNCHANGED <<now, skills, review, faults>>

-----------------------------------------------------------------------------
Next ==
  \/ Tick
  \/ \E k \in SkillKeys : createCapturedSkillArtifact(k)
  \/ \E r \in Reviewers : Validate(r) \/ reviewCapturedSkillArtifact(r)
  \/ runSkillHealthTask
  \/ \E p \in DOMAIN rows : ReviewProposal(p)

Spec == Init /\ [][Next]_vars

\* The task runs every night; a validated review is written, and the clock goes on.
FairSpec == Spec /\ WF_vars(runSkillHealthTask) /\ WF_vars(Tick)
                 /\ \A r \in Reviewers : WF_vars(reviewCapturedSkillArtifact(r))

-----------------------------------------------------------------------------
\* A skill only moves along the lifecycle mind_skill describes; in particular a retired
\* skill never comes back.
FollowsLifecycle ==
  \A i \in Ids :
    /\ skills[i].status = "retired" => skills'[i].status = "retired"
    /\ skills'[i].status = "accepted" => skills[i].status \in {"candidate", "accepted", "degraded"}
    /\ skills'[i].status = "degraded" => skills[i].status \in {"accepted", "degraded"}
    /\ skills'[i].status = "candidate" => skills[i].status = "candidate"
Lifecycle == [][FollowsLifecycle]_vars

\* No two artifacts of a key have the same version, and the versions follow their age.
OneVersionEach ==
  \A i, j \in Ids : i < j /\ skills[i].key = skills[j].key => skills[i].version < skills[j].version

\* While no query fails, a proposal to promote is made only where no version of the key is accepted, and a
\* proposal to supersede only against the newest version that is.
ProposesLineage ==
  faults' = 0 => \A p \in DOMAIN rows' \ DOMAIN rows :
    LET accepted == {i \in Ids : skills[i].status = "accepted" /\ skills[i].key = skills[p.target].key}
    IN /\ p.type = "skill_promotion" => accepted = {}
       /\ p.type = "skill_supersession" =>
            /\ p.source \in accepted /\ skills[p.target].version > skills[p.source].version
            /\ \A i \in accepted : skills[i].version <= skills[p.source].version
Lineage == [][ProposesLineage]_vars

\* An accepted skill that stays stale is proposed for recapture.
StaleProposed ==
  \A i \in 1..MaxSkills :
    (i \in Ids /\ Stale(i)) ~> (i \in Ids /\ Stale(i) => Proposal("skill_recapture", i, i) \in DOMAIN rows)

=============================================================================
