------------------------------ MODULE MCLeases ------------------------------
(***************************************************************************)
(* Small instances of what the user permits: the leases agents act under,  *)
(* the consent record and the watches.  They share no state, so a          *)
(* behaviour drives one of them and leaves the others as they were: lines  *)
(* of leases, calls that present one, calls of mind_consent, calls of      *)
(* mind_trigger.                                                           *)
(***************************************************************************)
EXTENDS Leases

CONSTANTS
    Parts,          \* those a run drives
    l1, a1,
    ConsentCallers,
    ConsentLevels,  \* levels grants ask for
    UserDomains, Gates, HardDomains, TopLevel, Documented, SessionTime, LogCap,
    ConsentTime, ConsentCalls, ConsentFaults,
    TriggerCallers,
    Watches, Batches, Day, Start, MaxTriggers, MaxChecks, TriggerTime, TriggerFaults

Sc(t, terr, ents, shared, all) ==
    [tenant |-> t, territories |-> terr, entities |-> ents, projects |-> {}, shared |-> shared, all |-> all]
MCScopes == {Sc("t1", {}, {}, {}, FALSE), Sc("t1", {"craft"}, {}, {}, FALSE), Sc("t1", {}, {}, {"craft"}, FALSE),
             Sc("t1", {"craft"}, {"e"}, {"craft"}, TRUE)}
MCGrants == {{<<"memory", "read">>, <<"cross_tenant", "shared_read">>}, {<<"memory", "*">>}, {Root},
             {<<"observe", "write">>, <<"memory", "read">>}}
MCResources == {[territory |-> x, entity |-> None] : x \in {"craft", None}}
CallScopes == {Sc("t1", {}, {}, {}, FALSE), Sc("t2", {}, {}, {"craft"}, FALSE)}
CallGrants == {{<<"memory", "read">>, <<"cross_tenant", "shared_read">>}, {<<"observe", "write">>}}
CallRequests == {<<"memory", "get">>, <<"observe", "none">>}
CallResource == [territory |-> "craft", entity |-> None]
MCRequests == CallRequests \cup {<<"letter", "write">>, <<"other", "none">>}

VARIABLES part,
  cNow, consent, cCall, answer, word, reached, history, cCalls, cFaults,
  tNow, triggers, tCall, asked, heard, noticed, last, made, checks, tFaults

-----------------------------------------------------------------------------
\* Two user domains, a gated one and a hard boundary.
MCGates == [g \in {"vulnerability"} |-> 1]
MCDocumented == [d \in UserDomains |-> IF d = "proactive_check_ins" THEN 1 ELSE 0]

Consents == INSTANCE Consent WITH
  Callers <- ConsentCallers, Requests <- ConsentLevels, MaxNow <- ConsentTime, MaxCalls <- ConsentCalls,
  MaxFaults <- ConsentFaults, now <- cNow, call <- cCall, calls <- cCalls, faults <- cFaults

\* Windows over and within midnight, presences with and without a cooldown, silences of
\* one and of anybody; events that come late, in one batch or out of order.
Usual == [kind |-> "no_contact", entity |-> "any", silence |-> 1, from |-> "away", to |-> "here",
          cooldown |-> 0, start |-> 0, finish |-> 0, signal |-> -1]
Quiet(e, s) == [Usual EXCEPT !.entity = e, !.silence = 2, !.signal = s]
Presence(c) == [Usual EXCEPT !.kind = "presence_transition", !.cooldown = c]
Window(s, f) == [Usual EXCEPT !.kind = "time_window", !.start = s, !.finish = f]
Event(e, s, a) == [entity |-> e, state |-> s, age |-> a]
MCWatches == {Quiet("ann", -1), Quiet("any", 0), Presence(0), Presence(3), Window(1, 2), Window(2, 1)}
MCBatches == {<<>>, <<Event("ann", "busy", 0)>>, <<Event("ann", "here", 0)>>, <<Event("bob", "away", 1)>>,
              <<Event("ann", "here", 0), Event("ann", "away", 1)>>}

Triggered == INSTANCE Triggers WITH
  Callers <- TriggerCallers, MaxNow <- TriggerTime, MaxFaults <- TriggerFaults,
  now <- tNow, call <- tCall, faults <- tFaults

ASSUME SafetyAssumption == Consents!ConsentAssumption /\ Triggered!TriggersAssumption

-----------------------------------------------------------------------------
Trust   == <<now, mode, leases, lineage, calls, ledger, audit>>
Allowed == <<cNow, consent, cCall, answer, word, reached, history, cCalls, cFaults>>
Noted   == <<tNow, triggers, tCall, asked, heard, noticed, last, made, checks, tFaults>>
all     == <<part, Trust, Allowed, Noted>>

AllInit ==
  /\ part \in Parts
  /\ Init /\ (part # "calls" => mode = "required")
  /\ Consents!Init /\ Triggered!Init

\* One lease, presented by two calls.
Next_calls ==
  \/ Tick
  \/ \E c \in Calls :
       \/ \E header \in {"missing", "malformed"} : Refuse(c, header)
       \/ \E t \in Tenants, id \in {l1, None}, r \in CallRequests : Authorize(c, t, id, r[1], r[2], CallResource)
       \/ RecordFails(c) \/ Decide(c)
       \/ \E state \in {"written", "lost"} : AuditEnds(c, state)
  \/ \E grant \in CallGrants, scope \in CallScopes : Issue(l1, a1, grant, scope, 1)
  \/ \E t \in Tenants :
       \/ heartbeatAgentLease(t, l1)
       \/ \E status \in {"expired", "revoked"} : expireAgentLeasesForProcess(t, {l1}, status)
       \/ reapExpiredAgentLeases(t)

\* One watch checked three times with a query that may fail, or two of them.
Watching(rows, times, until, failures) ==
  Triggered!Next /\ made' <= rows /\ checks' <= times /\ tNow' <= until /\ tFaults' <= failures

AllNext ==
  \/ part = "lines" /\ (Tick \/ Clients) /\ UNCHANGED <<part, Allowed, Noted>>
  \/ part = "calls" /\ Next_calls /\ UNCHANGED <<part, Allowed, Noted>>
  \/ part = "consent" /\ Consents!Next /\ UNCHANGED <<part, Trust, Noted>>
  \/ part = "watch" /\ Watching(1, 3, 4, 1) /\ UNCHANGED <<part, Trust, Allowed>>
  \/ part = "watches" /\ Watching(2, 2, 2, 0) /\ UNCHANGED <<part, Trust, Allowed>>

AllSpec == AllInit /\ [][AllNext]_all

-----------------------------------------------------------------------------
\* A check of a consent says yes only after a grant the user has not revoked since and
\* whose session, if it is one, has not ended, whatever query failed in between.  As long
\* as every query is answered the record is what the completed calls said, and its log
\* ends with them.
Honoured ==
  [][Consents!Honouring /\ (cFaults' = 0 => (Consents!RecordIsSaid /\ Consents!LogIsTail)')]_all

\* The reports of the watches are what happened, once: no two of one silence, presences a
\* cooldown apart and after the state they leave; and no watch is lost to another.
RecordsTrue ==
  /\ part = "watch" => Triggered!OncePerSilence /\ Triggered!CooldownKept
  /\ part = "watches" => Triggered!Kept
  /\ Triggered!TransitionTrue

\* A report of a silence is true of every event given by then, and windows fire in their
\* hours.
SilenceTrue == [][Triggered!Silent /\ Triggered!InHours]_all
=============================================================================
