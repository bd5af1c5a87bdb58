------------------------------- MODULE Leases -------------------------------
(***************************************************************************)
(* The trust envelope of agent calls: what a lease permits, how it is      *)
(* delegated (src/muse-brain/src/security/leases.ts), and the life of a    *)
(* tool call that presents one: gate, authorization, ledger row, execution *)
(* and audit event (src/muse-brain/src/index.ts).                          *)
(*                                                                         *)
(* A capability "family.verb" is the pair <<family, verb>>; an omitted     *)
(* scope list and an empty one mean the same and are the empty set.        *)
(***************************************************************************)
EXTENDS Integers, Sequences, FiniteSets

CONSTANTS
    Ids,          \* lease ids
    Issued,       \* those clients give to leases of their own
    Agents,
    Tenants,
    Scopes,       \* the scopes a client asks for
    Grants,       \* the capability sets a client asks for
    Resources,    \* what calls name: a territory and an entity, or None
    Calls,        \* tool calls in flight
    Requests,     \* the <<tool, action>> pairs calls make
    Modes,        \* LEASE_ENFORCEMENT_MODE of the deployment
    MaxTime,
    MaxChain,     \* MAX_CHAIN_LENGTH
    None

Scope == [tenant: Tenants, territories: SUBSET STRING, entities: SUBSET STRING,
          projects: SUBSET STRING, shared: SUBSET STRING, all: BOOLEAN]
Capability == STRING \X STRING

ASSUME ScopesAssumption == Scopes \subseteq Scope
ASSUME GrantsAssumption == \A g \in Grants : g \subseteq Capability
ASSUME BoundsAssumption == MaxTime \in Nat /\ MaxChain \in Nat \ {0}

VARIABLES
    now,
    mode,
    leases,       \* the leases clients hold, by id
    lineage,      \* the ids a lease descends from (history)
    calls,
    ledger,       \* agent_leases: a row per tenant and id
    audit         \* agent_audit_events

vars == <<now, mode, leases, lineage, calls, ledger, audit>>

Lease == [agent: Agents, parent: Ids \cup {None}, chain: Seq(Agents),
          capabilities: SUBSET Capability, scope: Scope, expires: Nat]

ASSUME NoneAssumption == None \notin Ids /\ None \notin Lease

-----------------------------------------------------------------------------
(* What a lease permits *)

Star == <<"*", "*">>
All  == <<"*", "">>
Root == <<"system", "root">>
SharedRead == <<"cross_tenant", "shared_read">>

hasCapability(held, c) ==
    \/ All \in held \/ Root \in held
    \/ c \in held
    \/ <<c[1], "*">> \in held

isLeaseExpired(l, t) == l.expires <= t

\* (Slip: a request that names nothing counts as narrower.)
requestedScopeDoesNotWiden_Omitted(parent, requested) ==
    parent = {} \/ requested \subseteq parent

requestedScopeDoesNotWiden(parent, requested) ==
    parent = {} \/ (requested # {} /\ requested \subseteq parent)

isScopeSubset(parent, requested) ==
    /\ parent.tenant = requested.tenant
    /\ \/ parent.all
       \/ /\ requestedScopeDoesNotWiden(parent.territories, requested.territories)
          /\ requestedScopeDoesNotWiden(parent.entities, requested.entities)
          /\ requestedScopeDoesNotWiden(parent.projects, requested.projects)
          /\ requestedScopeDoesNotWiden(parent.shared, requested.shared)
          /\ ~requested.all

\* A list that names something admits only what it names; a call that names
\* nothing is outside of it.
Covers(list, named) == list = {} \/ (named # None /\ named \in list)

scopeAllowsResource(scope, res) ==
    scope.all \/ ( /\ Covers(scope.territories, res.territory)
                   /\ Covers(scope.entities, res.entity)
                   /\ Covers(scope.projects, None) )

-----------------------------------------------------------------------------
(* What a tool call requires *)

WRITE_ACTIONS == {"create", "update", "delete", "texture", "link", "relate", "backfill",
    "review", "complete", "create_dual", "set", "grant", "revoke", "feel", "level", "open",
    "paradox", "resolve", "log", "write", "process", "trigger"}
READ_ACTIONS == {"get", "list", "read", "toward", "status", "check", "who_i_am", "gestalt",
    "search", "recent", "lookup", "timeline", "territory", "stats", "patterns"}

\* An operation and the capabilities of which one is needed.
Needs(op, caps) == [op |-> op, anyOf |-> caps]
ReadWrite(family, writeCaps, readCaps) ==
    [write |-> Needs(<<family, "write">>, writeCaps), read |-> Needs(<<family, "read">>, readCaps)]

Observe == {<<"observe", "write">>}
Memory  == Needs(<<"memory", "read">>, {<<"memory", "read">>})

\* One entry per group of tools that share a requirement.
Required(tool, action) ==
    LET pick(rw) == IF action \in WRITE_ACTIONS THEN rw.write ELSE rw.read
        plain(f) == pick(ReadWrite(f, {<<f, "write">>}, {<<f, "read">>}))
    IN CASE tool = "wake"    -> IF action = "full" THEN Needs(<<"memory", "write">>, Observe) ELSE Memory
         [] tool = "observe" -> Needs(<<"observe", "write">>, Observe)
         [] tool = "edit"    -> Needs(<<"observe", "edit">>, Observe)
         [] tool = "link"    -> IF action \in WRITE_ACTIONS
                                THEN Needs(<<"entity", "link">>, {<<"entity", "link">>} \cup Observe) ELSE Memory
         [] tool = "search"  -> Needs(<<"memory", "search">>, {<<"memory", "search">>, <<"memory", "read">>})
         [] tool = "memory"  -> Memory
         [] tool = "entity"  -> pick(ReadWrite("entity", {<<"entity", "write">>, <<"entity", "link">>}, {<<"entity", "read">>}))
         [] tool = "identity" -> pick(ReadWrite("identity", {<<"identity", "write">>, <<"identity", "propose">>}, {<<"identity", "read">>}))
         [] tool = "relate"  -> pick(ReadWrite("relationship", {<<"relationship", "write">>, <<"state", "write">>},
                                               {<<"relationship", "read">>, <<"state", "read">>}))
         [] tool \in {"agent", "letter", "consent", "task", "skill"} -> plain(tool)
         [] tool = "runtime" -> IF action = "trigger"
                                THEN Needs(<<"runtime", "trigger">>, {<<"runtime", "trigger">>, <<"runtime", "write">>})
                                ELSE IF action \in READ_ACTIONS THEN plain(tool)
                                ELSE Needs(<<"runtime", "write">>, {<<"runtime", "write">>})
         [] tool = "maintain" -> IF action \in WRITE_ACTIONS THEN Needs(<<"memory", "write">>, Observe) ELSE Memory
         [] OTHER            -> Needs(<<"tool", "call">>, {Root})

TerritoryTools == {"wake", "observe", "edit", "link", "search", "memory", "maintain", "other"}

resolveToolLeaseRequirement(tool, action, res) ==
    [op |-> Required(tool, action).op, anyOf |-> Required(tool, action).anyOf,
     resource |-> [res EXCEPT !.territory = IF tool \in TerritoryTools THEN @ ELSE None]]

isReadRequirement(req) == req.op[2] \in {"read", "search"}

scopeAllowsSharedTenantRead(l, tenant, req) ==
    /\ l.scope.tenant # tenant
    /\ isReadRequirement(req)
    /\ hasCapability(l.capabilities, SharedRead)
    /\ req.resource.territory # None
    /\ "*" \in l.scope.shared \/ req.resource.territory \in l.scope.shared

\* authorizeLeaseForTool, but for the expiry.
Permits(l, tenant, req) ==
    \/ scopeAllowsSharedTenantRead(l, tenant, req)
    \/ /\ l.scope.tenant = tenant
       /\ \E c \in req.anyOf : hasCapability(l.capabilities, c)
       /\ scopeAllowsResource(l.scope, req.resource)

authorizeLeaseForTool(l, tenant, req, t) == ~isLeaseExpired(l, t) /\ Permits(l, tenant, req)

-----------------------------------------------------------------------------
(* Leases in the hands of clients *)

\* (Slip: the expiry asked for is compared with the clock only.)
Delegable_Outliving(p, grant, scope, expires, t) ==
    /\ ~isLeaseExpired(p, t)
    /\ isScopeSubset(p.scope, scope)
    /\ \A c \in grant : hasCapability(p.capabilities, c)
    /\ expires > t

\* What createDelegatedLease refuses to exceed.
Delegable(p, grant, scope, expires, t) ==
    /\ ~isLeaseExpired(p, t)
    /\ isScopeSubset(p.scope, scope)
    /\ \A c \in grant : hasCapability(p.capabilities, c)
    /\ expires > t /\ expires <= p.expires

Capped(chain) ==
    SubSeq(chain, IF Len(chain) > MaxChain THEN Len(chain) - MaxChain + 1 ELSE 1, Len(chain))

Held == {i \in Ids : leases[i] # None}

\* A lease the client declares itself: the header is taken at its word.
Issue(i, a, grant, scope, expires) ==
    /\ i \in Issued /\ leases[i] = None
    /\ leases' = [leases EXCEPT ![i] = [agent |-> a, parent |-> None, chain |-> <<a>>,
                    capabilities |-> grant, scope |-> scope, expires |-> expires]]
    /\ UNCHANGED <<now, mode, lineage, calls, ledger, audit>>

createDelegatedLease(i, p, a, grant, scope, expires) ==
    /\ i \notin Issued /\ leases[i] = None /\ leases[p] # None
    /\ Delegable(leases[p], grant, scope, expires, now)
    /\ leases' = [leases EXCEPT ![i] = [agent |-> a, parent |-> p,
                    chain |-> Capped(Append(leases[p].chain, a)),
                    capabilities |-> grant, scope |-> scope, expires |-> expires]]
    /\ lineage' = [lineage EXCEPT ![i] = lineage[p] \cup {p}]
    /\ UNCHANGED <<now, mode, calls, ledger, audit>>

Tick == now < MaxTime /\ now' = now + 1 /\ UNCHANGED <<mode, leases, lineage, calls, ledger, audit>>

-----------------------------------------------------------------------------
(* A tool call *)

Idle == [phase |-> "idle"]

\* The root lease an authenticated client without a header acts under.
createSyntheticRootLease(tenant, t) ==
    [agent |-> "operator", parent |-> None, chain |-> <<"operator">>, capabilities |-> {Root},
     scope |-> [tenant |-> tenant, territories |-> {}, entities |-> {}, projects |-> {},
                shared |-> {}, all |-> TRUE],
     expires |-> t + 1]

\* gateRequestLease: a malformed header is refused in every mode, a missing one
\* where leases are required.
Refuse(c, header) ==
    /\ calls[c] = Idle
    /\ header = "malformed" \/ (header = "missing" /\ mode = "required")
    /\ calls' = [calls EXCEPT ![c] = [phase |-> "refused"]]
    /\ UNCHANGED <<now, mode, leases, lineage, ledger, audit>>

\* The decision is taken at once; the lease row is written behind an await, with
\* the status the lease had at the decision.
Authorize(c, tenant, id, tool, action, res) ==
    LET l   == IF id = None THEN createSyntheticRootLease(tenant, now) ELSE leases[id]
        req == resolveToolLeaseRequirement(tool, action, res)
    IN /\ calls[c] = Idle
       /\ IF id = None THEN mode # "required" ELSE id \in Held
       /\ calls' = [calls EXCEPT ![c] =
            [phase |-> "deciding", tenant |-> tenant, lease |-> id, op |-> req.op,
             allowed |-> authorizeLeaseForTool(l, tenant, req, now),
             status |-> IF isLeaseExpired(l, now) THEN "expired" ELSE "active"]]
       /\ UNCHANGED <<now, mode, leases, lineage, ledger, audit>>

shouldAuditLeaseDecision(call) ==
    ~call.allowed \/ call.op[2] \in {"write", "trigger", "link", "edit"}

\* recordAgentLease: the row of an id is replaced, its heartbeat with it.
Recorded(call) ==
    IF call.lease = None THEN ledger
    ELSE [ledger EXCEPT ![call.tenant][call.lease] =
            [status |-> call.status, expires |-> leases[call.lease].expires, beat |-> FALSE]]

\* (Slip: a call whose lease was not recorded goes on.)
RecordFails_Ignored(c) ==
    /\ calls[c].phase = "deciding" /\ calls[c].lease # None
    /\ calls' = [calls EXCEPT ![c].phase = "executed"]
    /\ UNCHANGED <<now, mode, leases, lineage, ledger, audit>>

\* The ledger write failed: the call ends without running the tool.
RecordFails(c) ==
    /\ calls[c].phase = "deciding" /\ calls[c].lease # None
    /\ calls' = [calls EXCEPT ![c].phase = "unavailable"]
    /\ UNCHANGED <<now, mode, leases, lineage, ledger, audit>>

\* authorizeAndExecuteTool after the ledger write: deny or run, and queue the
\* audit event (result "denied", "allowed" or "shadow").
Decide(c) ==
    LET call   == calls[c]
        denied == ~call.allowed /\ mode = "required"
        result == IF denied THEN "denied" ELSE IF call.allowed THEN "allowed" ELSE "shadow"
    IN /\ call.phase = "deciding"
       /\ ledger' = Recorded(call)
       /\ calls' = [calls EXCEPT ![c].phase = IF denied THEN "denied" ELSE "executed"]
       /\ audit' = [audit EXCEPT ![c] =
            IF shouldAuditLeaseDecision(call) THEN [state |-> "queued", result |-> result] ELSE @]
       /\ UNCHANGED <<now, mode, leases, lineage>>

\* The queued event is written, or its failure is logged and the event is lost.
AuditEnds(c, state) ==
    /\ audit[c].state = "queued"
    /\ audit' = [audit EXCEPT ![c].state = state]
    /\ UNCHANGED <<now, mode, leases, lineage, calls, ledger>>

-----------------------------------------------------------------------------
(* Maintenance of the ledger *)

Active(t, i) == ledger[t][i].status = "active"

heartbeatAgentLease(t, i) ==
    /\ Active(t, i)
    /\ ledger' = [ledger EXCEPT ![t][i].beat = TRUE]
    /\ UNCHANGED <<now, mode, leases, lineage, calls, audit>>

\* expireAgentLeasesForProcess; the leases of a process are any set of ids.
expireAgentLeasesForProcess(t, S, status) ==
    /\ \E i \in S : Active(t, i)
    /\ ledger' = [ledger EXCEPT ![t] = [i \in Ids |->
            IF i \in S /\ Active(t, i) THEN [ledger[t][i] EXCEPT !.status = status] ELSE ledger[t][i]]]
    /\ UNCHANGED <<now, mode, leases, lineage, calls, audit>>

reapExpiredAgentLeases(t) ==
    /\ \E i \in Ids : Active(t, i) /\ ledger[t][i].expires <= now
    /\ ledger' = [ledger EXCEPT ![t] = [i \in Ids |->
            IF Active(t, i) /\ ledger[t][i].expires <= now
            THEN [ledger[t][i] EXCEPT !.status = "expired"] ELSE ledger[t][i]]]
    /\ UNCHANGED <<now, mode, leases, lineage, calls, audit>>

-----------------------------------------------------------------------------
NoRow == [status |-> "none", expires |-> 0, beat |-> FALSE]

Init ==
    /\ now = 0
    /\ mode \in Modes
    /\ leases = [i \in Ids |-> None]
    /\ lineage = [i \in Ids |-> {}]
    /\ calls = [c \in Calls |-> Idle]
    /\ ledger = [t \in Tenants |-> [i \in Ids |-> NoRow]]
    /\ audit = [c \in Calls |-> [state |-> "none", result |-> "none"]]

Clients ==
    \E i \in Ids, a \in Agents, grant \in Grants, scope \in Scopes, expires \in 1..MaxTime :
        \/ Issue(i, a, grant, scope, expires)
        \/ \E p \in Ids : createDelegatedLease(i, p, a, grant, scope, expires)

Serving ==
    \E c \in Calls :
        \/ \E header \in {"missing", "malformed"} : Refuse(c, header)
        \/ \E t \in Tenants, id \in Ids \cup {None}, r \in Requests, res \in Resources :
               Authorize(c, t, id, r[1], r[2], res)
        \/ RecordFails(c)
        \/ Decide(c)
        \/ \E state \in {"written", "lost"} : AuditEnds(c, state)

Maintenance ==
    \E t \in Tenants :
        \/ \E i \in Ids : heartbeatAgentLease(t, i)
        \/ \E S \in SUBSET Ids, status \in {"expired", "revoked"} : expireAgentLeasesForProcess(t, S, status)
        \/ reapExpiredAgentLeases(t)

Next == Tick \/ Clients \/ Serving \/ Maintenance
Spec == Init /\ [][Next]_vars

-----------------------------------------------------------------------------
(* Properties *)

LedgerRow == [status: {"none", "active", "expired", "revoked"}, expires: Nat, beat: BOOLEAN]

\* Types: leases are lease records or None, and every row has a known status.
TypeOK ==
    /\ now \in 0..MaxTime /\ mode \in Modes
    /\ leases \in [Ids -> Lease \cup {None}]
    /\ lineage \in [Ids -> SUBSET Ids]
    /\ DOMAIN calls = Calls
    /\ ledger \in [Tenants -> [Ids -> LedgerRow]]
    /\ DOMAIN audit = Calls

\* The two wildcards under which a root capability is itself grantable.
Plain(l) == <<"system", "*">> \notin l.capabilities /\ Star \notin l.capabilities

\* Requests of a lease's own tenant, and reads of another's shared territories
\* where the ancestor names which.
Comparable(a, tenant) == a.scope.tenant = tenant \/ (a.scope.shared # {} /\ ~a.scope.all)

\* However long the line of delegations, a lease permits nothing that a lease it
\* descends from does not (createDelegatedLease: narrowing composes).
Narrowed ==
    \A i \in Ids : \A a \in lineage[i] :
        Plain(leases[a]) =>
            \A t \in Tenants, r \in Requests, res \in Resources :
                LET req == resolveToolLeaseRequirement(r[1], r[2], res)
                IN Comparable(leases[a], t) /\ Permits(leases[i], t, req) => Permits(leases[a], t, req)

\* No lease outlives one it descends from.
Outlived == \A i \in Ids : \A a \in lineage[i] : leases[i].expires <= leases[a].expires

\* The comment on LeaseScope: "Delegated leases cannot widen omitted parent
\* fields", reads of other tenants' territories included.
SharedNarrowed ==
    \A i \in Ids : \A a \in lineage[i] :
        \A t \in Tenants \ {leases[a].scope.tenant}, r \in Requests, res \in Resources :
            LET req == resolveToolLeaseRequirement(r[1], r[2], res)
            IN Permits(leases[i], t, req) => Permits(leases[a], t, req)

\* The delegation chain of a lease ends with its own agent and, before it, with
\* the agent of its parent, however often it was cut to its length.
ChainTruth ==
    \A i \in Ids : leases[i] # None =>
        LET l == leases[i]
        IN /\ Len(l.chain) \in 1..MaxChain /\ l.chain[Len(l.chain)] = l.agent
           /\ l.parent # None /\ MaxChain > 1 =>
                Len(l.chain) > 1 /\ l.chain[Len(l.chain) - 1] = leases[l.parent].agent

Writes(call) == call.op \in {<<"memory", "write">>, <<"observe", "write">>, <<"observe", "edit">>,
    <<"entity", "write">>, <<"entity", "link">>, <<"identity", "write">>, <<"letter", "write">>,
    <<"task", "write">>, <<"runtime", "trigger">>, <<"runtime", "write">>}

\* Who acted, under what scope, and whether it was authorized: a tool that ran
\* under a presented lease left its row in the ledger of the tenant, and if it
\* writes, or was not allowed, an audit event that says so, unless that was lost.
Accountable ==
    \A c \in Calls : calls[c].phase \in {"executed", "denied"} =>
        /\ calls[c].lease # None => ledger[calls[c].tenant][calls[c].lease].status # "none"
        /\ Writes(calls[c]) \/ ~calls[c].allowed =>
              /\ audit[c].state # "none"
              /\ (audit[c].result = "allowed") = calls[c].allowed
              /\ (audit[c].result = "denied") = (calls[c].phase = "denied")

\* Only presenting the lease again changes a row that has ended: a reaper or a
\* process's end never renames it.
EndedStays ==
    [][\A t \in Tenants, i \in Ids :
          ledger[t][i].status \in {"expired", "revoked"} /\ ledger'[t][i].status # ledger[t][i].status
            => \E c \in Calls : calls[c].phase = "deciding" /\ calls[c].lease = i /\ calls[c].tenant = t
                                 /\ calls'[c].phase # "deciding"]_vars
=============================================================================
