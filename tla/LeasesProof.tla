----------------------------- MODULE LeasesProof -----------------------------
(***************************************************************************)
(* Delegation narrows, chains tell who acted and calls are accounted for,  *)
(* for every set of leases, scopes, capabilities, requests and calls and   *)
(* every length of the line of delegations.                                *)
(***************************************************************************)
EXTENDS MCLeases, SequenceTheorems, WellFoundedInduction, TLAPS

-----------------------------------------------------------------------------
(* The two orders a delegation respects, and that they compose *)

Powerful(held) == All \in held \/ Root \in held
PlainCaps(held) == <<"system", "*">> \notin held /\ Star \notin held

\* What is held below: nothing beyond the capabilities held above.
CapsBelow(above, below) ==
    \/ Powerful(above)
    \/ PlainCaps(below) /\ \A c \in below : hasCapability(above, c)

\* Every capability is admitted by a powerful holder.
LEMMA PowerfulHoldsAll ==
    ASSUME NEW held, NEW c, Powerful(held)
    PROVE  hasCapability(held, c)
BY DEF Powerful, hasCapability

\* A family held above admits what it admits below.
LEMMA CapsBelowAdmits ==
    ASSUME NEW above, NEW below, NEW c,
           PlainCaps(above), CapsBelow(above, below), hasCapability(below, c)
    PROVE  hasCapability(above, c)
<1>1. CASE Powerful(above)
    BY <1>1, PowerfulHoldsAll
<1>2. CASE ~Powerful(above)
    <2>1. \A d \in below : hasCapability(above, d)
        BY <1>2 DEF CapsBelow
    <2>2. ~Powerful(below)
        <3>1. All \notin below
            BY <1>2, <2>1 DEF Powerful, PlainCaps, hasCapability, All, Star
        <3>2. Root \notin below
            BY <1>2, <2>1 DEF Powerful, PlainCaps, hasCapability, Root
        <3> QED BY <3>1, <3>2 DEF Powerful
    <2>3. CASE c \in below
        BY <2>1, <2>3
    <2>4. CASE <<c[1], "*">> \in below
        <3>1. hasCapability(above, <<c[1], "*">>)
            BY <2>1, <2>4
        <3>2. <<c[1], "*">>[1] = c[1]
            OBVIOUS
        <3> QED BY <1>2, <3>1, <3>2 DEF hasCapability, Powerful
    <2> QED BY <2>2, <2>3, <2>4 DEF hasCapability, Powerful
<1> QED BY <1>1, <1>2

\* The check of createDelegatedLease on each capability asked for gives the
\* order, and the order composes.
LEMMA CapsBelowComposes ==
    ASSUME NEW above, NEW held, NEW grant,
           PlainCaps(above), CapsBelow(above, held), \A c \in grant : hasCapability(held, c)
    PROVE  CapsBelow(above, grant)
<1>1. CASE Powerful(above)
    BY <1>1 DEF CapsBelow
<1>2. CASE ~Powerful(above)
    <2>1. \A c \in grant : hasCapability(above, c)
        BY CapsBelowAdmits
    <2>2. PlainCaps(grant)
        <3>1. <<"system", "*">> \notin grant
            <4> SUFFICES ASSUME <<"system", "*">> \in grant PROVE FALSE
                OBVIOUS
            <4>1. hasCapability(above, <<"system", "*">>)
                BY <2>1
            <4>2. <<"system", "*">>[1] = "system"
                OBVIOUS
            <4> QED BY <1>2, <4>1, <4>2 DEF hasCapability, Powerful, PlainCaps
        <3>2. Star \notin grant
            <4> SUFFICES ASSUME Star \in grant PROVE FALSE
                OBVIOUS
            <4>1. hasCapability(above, Star)
                BY <2>1
            <4>2. Star[1] = "*" /\ <<Star[1], "*">> = Star
                BY DEF Star
            <4> QED BY <1>2, <4>1, <4>2 DEF hasCapability, Powerful, PlainCaps
        <3> QED BY <3>1, <3>2 DEF PlainCaps
    <2> QED BY <2>1, <2>2 DEF CapsBelow
<1> QED BY <1>1, <1>2

\* Scope subset is transitive.
LEMMA ScopeSubsetComposes ==
    ASSUME NEW a, NEW p, NEW c, p.all \in BOOLEAN, c.all \in BOOLEAN,
           isScopeSubset(a, p), isScopeSubset(p, c)
    PROVE  isScopeSubset(a, c)
<1>1. CASE a.all
    BY <1>1 DEF isScopeSubset
<1>2. CASE ~a.all
    <2>1. ~p.all
        BY <1>2 DEF isScopeSubset
    <2>2. ASSUME NEW x, NEW y, NEW z, requestedScopeDoesNotWiden(x, y), requestedScopeDoesNotWiden(y, z)
          PROVE  requestedScopeDoesNotWiden(x, z)
        BY <2>2 DEF requestedScopeDoesNotWiden
    <2> QED BY <1>2, <2>1, <2>2 DEF isScopeSubset
<1> QED BY <1>1, <1>2

\* Under the two orders, and for a request the one above is comparable on, what
\* the lower lease permits the upper one permits.
LEMMA BelowPermits ==
    ASSUME NEW a, NEW l, NEW tenant, NEW req,
           PlainCaps(a.capabilities), CapsBelow(a.capabilities, l.capabilities),
           isScopeSubset(a.scope, l.scope), Comparable(a, tenant), Permits(l, tenant, req)
    PROVE  Permits(a, tenant, req)
<1>1. \A c : hasCapability(l.capabilities, c) => hasCapability(a.capabilities, c)
    BY CapsBelowAdmits
<1>2. a.scope.tenant = l.scope.tenant
    BY DEF isScopeSubset
<1>3. CASE l.scope.tenant = tenant
    <2>1. \E c \in req.anyOf : hasCapability(a.capabilities, c)
        BY <1>1, <1>3 DEF Permits, scopeAllowsSharedTenantRead
    <2>2. scopeAllowsResource(l.scope, req.resource)
        BY <1>3 DEF Permits, scopeAllowsSharedTenantRead
    <2>3. ASSUME NEW x, NEW y, NEW named, requestedScopeDoesNotWiden(x, y), Covers(y, named)
          PROVE  Covers(x, named)
        BY <2>3 DEF requestedScopeDoesNotWiden, Covers
    <2>4. scopeAllowsResource(a.scope, req.resource)
        BY <2>2, <2>3 DEF isScopeSubset, scopeAllowsResource
    <2> QED BY <1>2, <1>3, <2>1, <2>4 DEF Permits
<1>4. CASE l.scope.tenant # tenant
    <2>1. scopeAllowsSharedTenantRead(l, tenant, req)
        BY <1>4 DEF Permits
    <2>2. l.scope.shared \subseteq a.scope.shared
        BY <1>2, <1>4 DEF Comparable, isScopeSubset, requestedScopeDoesNotWiden
    <2>3. scopeAllowsSharedTenantRead(a, tenant, req)
        BY <1>1, <1>2, <2>1, <2>2 DEF scopeAllowsSharedTenantRead
    <2> QED BY <2>3 DEF Permits
<1> QED BY <1>3, <1>4

-----------------------------------------------------------------------------
(* The invariant *)

LeasesTyped ==
    /\ leases \in [Ids -> Lease \cup {None}]
    /\ lineage \in [Ids -> SUBSET Ids]

Below(a, l) ==
    /\ isScopeSubset(a.scope, l.scope)
    /\ PlainCaps(a.capabilities) => CapsBelow(a.capabilities, l.capabilities)
    /\ l.expires <= a.expires

\* Every lease of a line is below the ones it descends from. Narrowed alone says
\* nothing of the capabilities a lease could pass on, so it is not inductive.
Descends ==
    \A i \in Ids : \A a \in lineage[i] :
        leases[i] # None /\ leases[a] # None /\ Below(leases[a], leases[i])

\* Leases of no line: no id has ancestors before its lease exists.
IInv == LeasesTyped /\ Descends

\* No other step than a delegation or an issue touches leases or lines.
Untouched == UNCHANGED <<leases, lineage>>

LEMMA OtherSteps ==
    ASSUME [Next]_vars
    PROVE  Untouched \/ Clients
BY DEF Next, vars, Untouched, Tick, Serving, Maintenance, Refuse, Authorize, RecordFails, Decide,
       AuditEnds, heartbeatAgentLease, expireAgentLeasesForProcess, reapExpiredAgentLeases

\* The record a delegation makes is a lease.
LEMMA NewIsLease ==
    ASSUME LeasesTyped, NEW p \in Ids, leases[p] # None, NEW a \in Agents, NEW grant \in Grants,
           NEW scope \in Scopes, NEW expires \in 1..MaxTime
    PROVE  [agent |-> a, parent |-> p, chain |-> Capped(Append(leases[p].chain, a)),
            capabilities |-> grant, scope |-> scope, expires |-> expires] \in Lease
<1>1. leases[p] \in Lease
    BY DEF LeasesTyped
<1>2. Capped(Append(leases[p].chain, a)) \in Seq(Agents)
    <2> DEFINE s == Append(leases[p].chain, a)
    <2>1. s \in Seq(Agents) /\ Len(s) \in Nat
        BY <1>1 DEF Lease
    <2> HIDE DEF s
    <2>2. Capped(s) \in Seq(Agents)
        <3>1. CASE Len(s) > MaxChain
            BY <2>1, <3>1, BoundsAssumption DEF Capped
        <3>2. CASE ~(Len(s) > MaxChain)
            BY <2>1, <3>2 DEF Capped
        <3> QED BY <3>1, <3>2
    <2> QED BY <2>2 DEF s
<1> QED BY <1>2, ScopesAssumption, GrantsAssumption, BoundsAssumption DEF Lease

\* Types of the leases are kept.
LEMMA TypedStep ==
    ASSUME LeasesTyped, [Next]_vars
    PROVE  LeasesTyped'
<1>1. CASE Untouched
    BY <1>1 DEF Untouched, LeasesTyped
<1>2. ASSUME NEW i \in Ids, NEW a \in Agents, NEW grant \in Grants, NEW scope \in Scopes,
             NEW expires \in 1..MaxTime, Issue(i, a, grant, scope, expires)
      PROVE  LeasesTyped'
    <2> DEFINE new == [agent |-> a, parent |-> None, chain |-> <<a>>,
                       capabilities |-> grant, scope |-> scope, expires |-> expires]
    <2>1. new \in Lease
        BY ScopesAssumption, GrantsAssumption, BoundsAssumption DEF Lease
    <2>2. leases' = [leases EXCEPT ![i] = new] /\ lineage' = lineage
        BY <1>2 DEF Issue
    <2> HIDE DEF new
    <2> QED BY <2>1, <2>2 DEF LeasesTyped
<1>3. ASSUME NEW i \in Ids, NEW p \in Ids, NEW a \in Agents, NEW grant \in Grants, NEW scope \in Scopes,
             NEW expires \in 1..MaxTime, createDelegatedLease(i, p, a, grant, scope, expires)
      PROVE  LeasesTyped'
    <2> DEFINE new == [agent |-> a, parent |-> p, chain |-> Capped(Append(leases[p].chain, a)),
                       capabilities |-> grant, scope |-> scope, expires |-> expires]
    <2>3. new \in Lease
        BY <1>3, NewIsLease DEF createDelegatedLease
    <2>4. leases' = [leases EXCEPT ![i] = new] /\ lineage' = [lineage EXCEPT ![i] = lineage[p] \cup {p}]
        BY <1>3 DEF createDelegatedLease
    <2> HIDE DEF new
    <2> QED BY <2>3, <2>4 DEF LeasesTyped
<1> QED BY <1>1, <1>2, <1>3, OtherSteps DEF Clients

\* A delegated lease is below its parent and all its parent is below.
LEMMA DelegatedBelow ==
    ASSUME NEW a \in Lease, NEW p \in Lease, NEW grant, NEW scope \in Scope, NEW expires \in Nat,
           NEW l, l.scope = scope, l.capabilities = grant, l.expires = expires,
           a = p \/ Below(a, p), Delegable(p, grant, scope, expires, now)
    PROVE  Below(a, l)
<1>1. a.expires \in Nat /\ p.expires \in Nat /\ p.scope.all \in BOOLEAN /\ scope.all \in BOOLEAN
    BY DEF Lease, Scope
<1>2. isScopeSubset(p.scope, scope) /\ expires <= p.expires /\ \A c \in grant : hasCapability(p.capabilities, c)
    BY DEF Delegable
<1>3. isScopeSubset(a.scope, scope)
    BY <1>1, <1>2, ScopeSubsetComposes DEF Below
<1>4. expires <= a.expires
    <2>1. p.expires <= a.expires
        BY <1>1 DEF Below
    <2> QED BY <1>1, <1>2, <2>1
<1>5. PlainCaps(a.capabilities) => CapsBelow(a.capabilities, grant)
    <2> SUFFICES ASSUME PlainCaps(a.capabilities) PROVE CapsBelow(a.capabilities, grant)
        OBVIOUS
    <2>1. CapsBelow(a.capabilities, p.capabilities)
        BY DEF Below, CapsBelow, hasCapability
    <2> QED BY <1>2, <2>1, CapsBelowComposes
<1> QED BY <1>3, <1>4, <1>5 DEF Below

\* Descends is kept.
LEMMA DescendsStep ==
    ASSUME IInv, [Next]_vars
    PROVE  Descends'
<1>1. CASE Untouched
    BY <1>1 DEF Untouched, IInv, Descends
<1>2. ASSUME NEW i \in Ids, NEW ag \in Agents, NEW grant \in Grants, NEW scope \in Scopes,
             NEW expires \in 1..MaxTime, Issue(i, ag, grant, scope, expires)
      PROVE  Descends'
    <2>1. leases[i] = None /\ lineage' = lineage /\ \A j \in Ids \ {i} : leases'[j] = leases[j]
        BY <1>2 DEF Issue, IInv, LeasesTyped
    <2> SUFFICES ASSUME NEW j \in Ids, NEW a \in lineage[j]
                 PROVE  leases'[j] # None /\ leases'[a] # None /\ Below(leases'[a], leases'[j])
        BY <2>1 DEF Descends
    <2>2. a \in Ids /\ leases[j] # None /\ leases[a] # None /\ Below(leases[a], leases[j])
        BY DEF IInv, Descends, LeasesTyped
    <2> QED BY <2>1, <2>2
<1>3. ASSUME NEW i \in Ids, NEW p \in Ids, NEW ag \in Agents, NEW grant \in Grants, NEW scope \in Scopes,
             NEW expires \in 1..MaxTime, createDelegatedLease(i, p, ag, grant, scope, expires)
      PROVE  Descends'
    <2> DEFINE new == [agent |-> ag, parent |-> p, chain |-> Capped(Append(leases[p].chain, ag)),
                       capabilities |-> grant, scope |-> scope, expires |-> expires]
    <2>1. /\ leases[i] = None /\ leases[p] # None /\ leases[p] \in Lease
          /\ \A j \in Ids \ {i} : leases'[j] = leases[j] /\ lineage'[j] = lineage[j]
          /\ leases'[i] = new /\ lineage'[i] = lineage[p] \cup {p}
        BY <1>3 DEF createDelegatedLease, IInv, LeasesTyped
    <2>2. Delegable(leases[p], grant, scope, expires, now)
        BY <1>3 DEF createDelegatedLease
    <2>4. /\ new.scope = scope /\ new.capabilities = grant /\ new.expires = expires
          /\ new # None
        <3>1. new.scope = scope /\ new.capabilities = grant /\ new.expires = expires
            OBVIOUS
        <3>3. new \in Lease
            BY <2>1, NewIsLease DEF IInv
        <3> QED BY <3>1, <3>3, NoneAssumption
    <2> SUFFICES ASSUME NEW j \in Ids, NEW a \in lineage'[j]
                 PROVE  leases'[j] # None /\ leases'[a] # None /\ Below(leases'[a], leases'[j])
        BY DEF Descends
    <2> HIDE DEF new
    <2>5. CASE j = i
        <3>1. a \in Ids /\ leases[a] # None /\ (a = p \/ Below(leases[a], leases[p]))
            BY <2>1, <2>5 DEF IInv, Descends, LeasesTyped
        <3>2. leases'[a] = leases[a] /\ leases[a] \in Lease
            BY <2>1, <3>1 DEF IInv, LeasesTyped
        <3>3. scope \in Scope /\ expires \in Nat
            BY ScopesAssumption, BoundsAssumption
        <3>4. Below(leases[a], new)
            BY <2>1, <2>2, <2>4, <3>1, <3>2, <3>3, DelegatedBelow
        <3> QED BY <2>1, <2>4, <2>5, <3>1, <3>2, <3>4
    <2>6. CASE j # i
        <3>1. a \in lineage[j]
            BY <2>1, <2>6
        <3>2. a \in Ids /\ leases[j] # None /\ leases[a] # None /\ Below(leases[a], leases[j])
            BY <3>1 DEF IInv, Descends, LeasesTyped
        <3> QED BY <2>1, <2>6, <3>2
    <2> QED BY <2>5, <2>6
<1> QED BY <1>1, <1>2, <1>3, OtherSteps DEF Clients

LEMMA Initially == Init => IInv
BY DEF Init, IInv, LeasesTyped, Descends

\* In every reachable state the leases are typed and each is below the line it
\* descends from.
THEOREM LinesDescend == Spec => []IInv
<1>1. IInv /\ [Next]_vars => IInv'
    BY TypedStep, DescendsStep DEF IInv
<1> QED BY Initially, <1>1, PTL DEF Spec

\* A lease permits nothing that a lease above it, however far, does not
\* (Narrowed; createDelegatedLease with authorizeLeaseForTool).
THEOREM DelegationNarrows == Spec => []Narrowed
<1>1. IInv => Narrowed
    <2> SUFFICES ASSUME IInv, NEW i \in Ids, NEW a \in lineage[i], Plain(leases[a]),
                        NEW t \in Tenants, NEW r \in Requests, NEW res \in Resources,
                        Comparable(leases[a], t),
                        Permits(leases[i], t, resolveToolLeaseRequirement(r[1], r[2], res))
                 PROVE  Permits(leases[a], t, resolveToolLeaseRequirement(r[1], r[2], res))
        BY DEF Narrowed
    <2>1. PlainCaps(leases[a].capabilities) /\ Below(leases[a], leases[i])
        BY DEF IInv, Descends, Plain, PlainCaps
    <2> QED BY <2>1, BelowPermits DEF Below
<1> QED BY <1>1, LinesDescend, PTL

\* No lease outlives one it descends from (Outlived; createDelegatedLease).
THEOREM NoneOutlives == Spec => []Outlived
<1>1. IInv => Outlived
    BY DEF IInv, Descends, Below, Outlived
<1> QED BY <1>1, LinesDescend, PTL

-----------------------------------------------------------------------------
(* What a call leaves behind *)

Operations == {Required(r[1], r[2]).op : r \in Requests}
Phases == {"deciding", "unavailable", "executed", "denied"}
Presented == [phase: Phases, tenant: Tenants, lease: Ids \cup {None}, op: Operations,
              allowed: BOOLEAN, status: {"active", "expired"}]
Refused == [phase |-> "refused"]
AuditRow == [state: {"none", "queued", "written", "lost"},
             result: {"none", "denied", "allowed", "shadow"}]

\* A call carries its decision from the moment it takes it, and a lease it names
\* is one a client holds, so that the row to be written has an expiry.
CallTyped(c) ==
    \/ calls[c] \in {Idle, Refused}
    \/ calls[c] \in Presented /\ (calls[c].lease # None => leases[calls[c].lease] # None)

RowsTyped ==
    /\ ledger \in [Tenants -> [Ids -> LedgerRow]]
    /\ audit \in [Calls -> AuditRow]

ResultOf(call) ==
    IF call.phase = "denied" THEN "denied" ELSE IF call.allowed THEN "allowed" ELSE "shadow"

\* What a decided call is owed: its row, and its event when one is due. Accountable
\* says it only of the operations that write; the audit's own guard decides by verb.
Settled(c) ==
    /\ calls[c].phase = "denied" => ~calls[c].allowed
    /\ calls[c].lease # None => ledger[calls[c].tenant][calls[c].lease].status # "none"
    /\ shouldAuditLeaseDecision(calls[c]) =>
          audit[c].state # "none" /\ audit[c].result = ResultOf(calls[c])


CInv ==
    /\ calls = [c \in Calls |-> calls[c]]
    /\ RowsTyped
    /\ \A c \in Calls : CallTyped(c)
    /\ \A c \in Calls : calls[c].phase \in {"executed", "denied"} => Settled(c)

\* Leases and rows of the ledger come to be and never cease.
RowsStay ==
    /\ \A t \in Tenants, i \in Ids : ledger[t][i].status # "none" => ledger'[t][i].status # "none"
    /\ \A i \in Ids : leases[i] # None => leases'[i] # None

\* What changes of the ledger outside of a decision: rows that are active, and
\* they stay rows.
Tended ==
    /\ ledger' \in [Tenants -> [Ids -> LedgerRow]]
    /\ \A t \in Tenants, i \in Ids :
          \/ ledger'[t][i].status = ledger[t][i].status
          \/ Active(t, i) /\ ledger'[t][i].status # "none"

\* A row with another of the statuses a row ends in is a row.
LEMMA EndedIsRow ==
    ASSUME NEW row \in LedgerRow, NEW status \in {"expired", "revoked"}
    PROVE  /\ [row EXCEPT !.status = status] \in LedgerRow
           /\ [row EXCEPT !.status = status].status # "none"
BY DEF LedgerRow

\* Replacing the rows of one tenant by rows tends the ledger.
LEMMA ReplacedTends ==
    ASSUME RowsTyped, NEW t \in Tenants, NEW rows \in [Ids -> LedgerRow],
           ledger' = [ledger EXCEPT ![t] = rows],
           \A i \in Ids : rows[i].status = ledger[t][i].status \/ (Active(t, i) /\ rows[i].status # "none")
    PROVE  Tended
BY DEF Tended, RowsTyped

\* Each step of the maintenance tends the ledger.
LEMMA MaintenanceTends ==
    ASSUME RowsTyped, Maintenance
    PROVE  Tended /\ UNCHANGED <<leases, lineage, calls, audit>>
<1>1. PICK t \in Tenants :
        \/ \E i \in Ids : heartbeatAgentLease(t, i)
        \/ \E S \in SUBSET Ids, status \in {"expired", "revoked"} : expireAgentLeasesForProcess(t, S, status)
        \/ reapExpiredAgentLeases(t)
    BY DEF Maintenance
<1>2. ASSUME NEW i \in Ids, heartbeatAgentLease(t, i)
      PROVE  Tended
    <2> DEFINE row == [ledger[t][i] EXCEPT !.beat = TRUE]
    <2>1. ledger[t][i] \in LedgerRow
        BY DEF RowsTyped
    <2>2. row \in LedgerRow /\ row.status = ledger[t][i].status
        BY <2>1 DEF LedgerRow
    <2> DEFINE rows == [ledger[t] EXCEPT ![i] = row]
    <2>3. ledger' = [ledger EXCEPT ![t] = rows]
        BY <1>2 DEF heartbeatAgentLease, RowsTyped
    <2> HIDE DEF row
    <2>4. rows \in [Ids -> LedgerRow]
        BY <2>2 DEF RowsTyped
    <2>5. \A j \in Ids : rows[j].status = ledger[t][j].status
        BY <2>2 DEF RowsTyped
    <2> HIDE DEF rows
    <2> QED BY <2>3, <2>4, <2>5, ReplacedTends
<1>3. ASSUME NEW rows, ledger' = [ledger EXCEPT ![t] = rows], rows = [i \in Ids |-> rows[i]],
             \A i \in Ids : \/ rows[i] = ledger[t][i]
                           \/ \E status \in {"expired", "revoked"} :
                                 Active(t, i) /\ rows[i] = [ledger[t][i] EXCEPT !.status = status]
      PROVE  Tended
    <2>1. ASSUME NEW i \in Ids
          PROVE  /\ rows[i] \in LedgerRow
                 /\ rows[i].status = ledger[t][i].status \/ (Active(t, i) /\ rows[i].status # "none")
        <3>1. ledger[t][i] \in LedgerRow
            BY DEF RowsTyped
        <3> QED BY <1>3, <3>1, EndedIsRow
    <2>2. rows \in [Ids -> LedgerRow]
        BY <1>3, <2>1
    <2> QED BY <1>3, <2>1, <2>2, ReplacedTends
<1>4. ASSUME reapExpiredAgentLeases(t)
      PROVE  Tended
    <2> DEFINE rows == [i \in Ids |-> IF Active(t, i) /\ ledger[t][i].expires <= now
                                      THEN [ledger[t][i] EXCEPT !.status = "expired"] ELSE ledger[t][i]]
    <2>1. ledger' = [ledger EXCEPT ![t] = rows]
        BY <1>4 DEF reapExpiredAgentLeases
    <2>2. rows = [i \in Ids |-> rows[i]]
        OBVIOUS
    <2>3. \A i \in Ids : \/ rows[i] = ledger[t][i]
                        \/ \E status \in {"expired", "revoked"} :
                              Active(t, i) /\ rows[i] = [ledger[t][i] EXCEPT !.status = status]
        OBVIOUS
    <2> HIDE DEF rows
    <2> QED BY <1>3, <2>1, <2>2, <2>3
<1>5. UNCHANGED <<leases, lineage, calls, audit>>
    BY <1>1 DEF heartbeatAgentLease, expireAgentLeasesForProcess, reapExpiredAgentLeases
<1>6. ASSUME NEW S \in SUBSET Ids, NEW status \in {"expired", "revoked"}, expireAgentLeasesForProcess(t, S, status)
      PROVE  Tended
    <2> DEFINE rows == [i \in Ids |-> IF i \in S /\ Active(t, i) THEN [ledger[t][i] EXCEPT !.status = status]
                                      ELSE ledger[t][i]]
    <2>1. ledger' = [ledger EXCEPT ![t] = rows]
        BY <1>6 DEF expireAgentLeasesForProcess
    <2>2. rows = [i \in Ids |-> rows[i]]
        OBVIOUS
    <2>3. \A i \in Ids : \/ rows[i] = ledger[t][i]
                        \/ \E ends \in {"expired", "revoked"} :
                              Active(t, i) /\ rows[i] = [ledger[t][i] EXCEPT !.status = ends]
        OBVIOUS
    <2> HIDE DEF rows
    <2> QED BY <1>3, <2>1, <2>2, <2>3
<1> QED BY <1>1, <1>2, <1>4, <1>5, <1>6

\* A tended ledger, and no other change but of time and leases, keep what calls left.
LEMMA TendedKeeps ==
    ASSUME CInv, Tended, UNCHANGED <<calls, audit>>, \A i \in Ids : leases[i] # None => leases'[i] # None
    PROVE  CInv'
<1>1. RowsTyped'
    BY DEF CInv, RowsTyped, Tended
<1>2. ASSUME NEW c \in Calls PROVE CallTyped(c)'
    BY <1>2 DEF CInv, CallTyped, Presented
<1>3. ASSUME NEW c \in Calls, calls[c].phase \in {"executed", "denied"} PROVE Settled(c)'
    <2>1. Settled(c)
        BY <1>3 DEF CInv
    <2>2. calls[c] \in Presented
        BY <1>3 DEF CInv, CallTyped, Idle, Refused
    <2>3. calls[c].lease # None => ledger'[calls[c].tenant][calls[c].lease].status # "none"
        BY <2>1, <2>2 DEF Settled, Tended, Presented, Active
    <2>4. shouldAuditLeaseDecision(calls[c])' = shouldAuditLeaseDecision(calls[c])
        BY DEF shouldAuditLeaseDecision
    <2> QED BY <2>1, <2>3 DEF Settled, shouldAuditLeaseDecision, ResultOf
<1> QED BY <1>1, <1>2, <1>3 DEF CInv

\* A call that decides leaves its row and, if one is due, its event.
LEMMA DecideStep ==
    ASSUME LeasesTyped, CInv, NEW c \in Calls, Decide(c)
    PROVE  CInv' /\ RowsStay
<1> DEFINE call == calls[c]
           denied == ~call.allowed /\ mode = "required"
           row == [status |-> call.status, expires |-> leases[call.lease].expires, beat |-> FALSE]
           result == IF denied THEN "denied" ELSE IF call.allowed THEN "allowed" ELSE "shadow"
           next == [call EXCEPT !.phase = IF denied THEN "denied" ELSE "executed"]
<1>1. call \in Presented /\ call.phase = "deciding" /\ (call.lease # None => leases[call.lease] # None)
    BY DEF Decide, CInv, CallTyped, Idle, Refused
<1>2. call.tenant \in Tenants /\ call.lease \in Ids \cup {None} /\ call.status \in {"active", "expired"}
    BY <1>1 DEF Presented
<1>3. call.lease # None => row \in LedgerRow
    BY <1>1, <1>2 DEF LeasesTyped, Lease, LedgerRow
<1>4. next \in Presented /\ next.phase = (IF denied THEN "denied" ELSE "executed") /\ next.allowed = call.allowed
        /\ next.lease = call.lease /\ next.tenant = call.tenant /\ next.op = call.op
    BY <1>1 DEF Presented, Phases
<1>5. calls' = [d \in Calls |-> IF d = c THEN next ELSE calls[d]]
    <2>1. calls' = [calls EXCEPT ![c] = next]
        BY <1>1 DEF Decide, Presented
    <2> HIDE DEF next
    <2> QED BY <2>1 DEF CInv
<1>6. call.lease # None => ledger' = [ledger EXCEPT ![call.tenant][call.lease] = row]
    BY DEF Decide, Recorded
<1>7. call.lease = None => ledger' = ledger
    BY DEF Decide, Recorded
<1>8. leases' = leases
    BY DEF Decide
<1>9. audit' = [audit EXCEPT ![c] = IF shouldAuditLeaseDecision(call) THEN [state |-> "queued", result |-> result] ELSE @]
    BY DEF Decide
<1>10. row.status # "none"
    BY <1>2
<1>11. next.phase \in {"executed", "denied"} /\ (next.phase = "denied" <=> denied)
    BY <1>4
<1> HIDE DEF next, row
<1>12. RowsTyped'
    <2>1. ledger' \in [Tenants -> [Ids -> LedgerRow]]
        BY <1>2, <1>3, <1>6, <1>7 DEF CInv, RowsTyped
    <2>2. [state |-> "queued", result |-> result] \in AuditRow
        BY DEF AuditRow
    <2>3. audit' \in [Calls -> AuditRow]
        BY <1>9, <2>2 DEF CInv, RowsTyped
    <2> QED BY <2>1, <2>3 DEF RowsTyped
<1>13. RowsStay
    BY <1>2, <1>3, <1>6, <1>7, <1>8, <1>10 DEF RowsStay, CInv, RowsTyped
<1>14. ASSUME NEW d \in Calls PROVE CallTyped(d)'
    BY <1>1, <1>4, <1>5, <1>8 DEF CInv, CallTyped
<1>15. ASSUME NEW d \in Calls, calls'[d].phase \in {"executed", "denied"} PROVE Settled(d)'
    <2>1. CASE d = c
        <3>1. calls'[c] = next
            BY <1>5
        <3>2. next.lease # None => ledger'[next.tenant][next.lease].status # "none"
            BY <1>2, <1>4, <1>6, <1>10 DEF CInv, RowsTyped
        <3>3. shouldAuditLeaseDecision(next) = shouldAuditLeaseDecision(call)
            BY <1>4 DEF shouldAuditLeaseDecision
        <3>4. shouldAuditLeaseDecision(call) => audit'[c] = [state |-> "queued", result |-> result]
            BY <1>9 DEF CInv, RowsTyped
        <3>5. result = ResultOf(next)
            BY <1>4, <1>11 DEF ResultOf
        <3>6. next.phase = "denied" => ~next.allowed
            BY <1>4, <1>11
        <3> QED BY <2>1, <3>1, <3>2, <3>3, <3>4, <3>5, <3>6 DEF Settled, shouldAuditLeaseDecision, ResultOf
    <2>2. CASE d # c
        <3>1. calls'[d] = calls[d] /\ audit'[d] = audit[d]
            BY <1>5, <1>9, <2>2 DEF CInv, RowsTyped
        <3>2. Settled(d) /\ calls[d] \in Presented
            BY <1>15, <3>1 DEF CInv, CallTyped, Idle, Refused
        <3>3. calls[d].lease # None => ledger'[calls[d].tenant][calls[d].lease].status # "none"
            BY <1>13, <3>2 DEF RowsStay, Settled, Presented
        <3> QED BY <3>1, <3>2, <3>3 DEF Settled, shouldAuditLeaseDecision, ResultOf
    <2> QED BY <2>1, <2>2
<1> QED BY <1>5, <1>12, <1>13, <1>14, <1>15 DEF CInv

\* A call that moves without deciding leaves the ledger and its debts alone.
LEMMA CallMoves ==
    ASSUME CInv, NEW c \in Calls, NEW new, calls' = [calls EXCEPT ![c] = new],
           UNCHANGED <<leases, ledger, audit>>,
           new = Refused \/ (new \in Presented /\ (new.lease # None => leases[new.lease] # None)),
           new.phase \notin {"executed", "denied"}
    PROVE  CInv' /\ RowsStay
<1>1. calls' = [d \in Calls |-> IF d = c THEN new ELSE calls[d]]
    BY DEF CInv
<1>2. RowsTyped' /\ RowsStay
    BY DEF CInv, RowsTyped, RowsStay
<1>3. ASSUME NEW d \in Calls PROVE CallTyped(d)'
    BY <1>1 DEF CInv, CallTyped
<1>4. ASSUME NEW d \in Calls, calls'[d].phase \in {"executed", "denied"} PROVE Settled(d)'
    <2>1. d # c /\ calls'[d] = calls[d]
        BY <1>1, <1>4
    <2> QED BY <1>4, <2>1 DEF CInv, Settled, shouldAuditLeaseDecision, ResultOf
<1> QED BY <1>1, <1>2, <1>3, <1>4 DEF CInv

\* An authorization leaves nothing yet, and names a lease that is held.
LEMMA AuthorizeStep ==
    ASSUME CInv, NEW c \in Calls, NEW t \in Tenants, NEW id \in Ids \cup {None}, NEW r \in Requests,
           NEW res, Authorize(c, t, id, r[1], r[2], res)
    PROVE  CInv' /\ RowsStay
<1> DEFINE l == IF id = None THEN createSyntheticRootLease(t, now) ELSE leases[id]
           req == resolveToolLeaseRequirement(r[1], r[2], res)
           may == authorizeLeaseForTool(l, t, req, now)
           over == IF isLeaseExpired(l, now) THEN "expired" ELSE "active"
           new == [phase |-> "deciding", tenant |-> t, lease |-> id, op |-> req.op, allowed |-> may, status |-> over]
<1>1. calls' = [calls EXCEPT ![c] = new]
    BY DEF Authorize
<1>2. id # None => id \in Ids /\ leases[id] # None
    BY DEF Authorize, Held
<1>3. new \in Presented /\ new.phase = "deciding" /\ new.lease = id
    <2>1. req.op \in Operations
        BY DEF resolveToolLeaseRequirement, Operations
    <2>2. may \in BOOLEAN
        BY DEF authorizeLeaseForTool, Permits, scopeAllowsSharedTenantRead, isLeaseExpired
    <2>3. over \in {"active", "expired"}
        OBVIOUS
    <2> HIDE DEF req, may, over
    <2> QED BY <2>1, <2>2, <2>3 DEF Presented, Phases
<1> HIDE DEF new
<1>4. UNCHANGED <<leases, ledger, audit>>
    BY DEF Authorize
<1> QED BY <1>1, <1>2, <1>3, <1>4, CallMoves

\* A call that is refused or cut off leaves nothing.
LEMMA StoppedStep ==
    ASSUME CInv, NEW c \in Calls, RecordFails(c) \/ \E header \in {"missing", "malformed"} : Refuse(c, header)
    PROVE  CInv' /\ RowsStay
<1>1. CASE RecordFails(c)
    <2> DEFINE new == [calls[c] EXCEPT !.phase = "unavailable"]
    <2>1. calls[c] \in Presented /\ (calls[c].lease # None => leases[calls[c].lease] # None)
        BY <1>1 DEF RecordFails, CInv, CallTyped, Idle, Refused
    <2>2. new \in Presented /\ new.phase = "unavailable" /\ new.lease = calls[c].lease
        BY <2>1 DEF Presented, Phases
    <2>3. calls' = [calls EXCEPT ![c] = new] /\ UNCHANGED <<leases, ledger, audit>>
        BY <1>1 DEF RecordFails
    <2> HIDE DEF new
    <2> QED BY <2>1, <2>2, <2>3, CallMoves
<1>2. CASE \E header \in {"missing", "malformed"} : Refuse(c, header)
    <2>1. calls' = [calls EXCEPT ![c] = Refused] /\ UNCHANGED <<leases, ledger, audit>>
        BY <1>2 DEF Refuse, Refused
    <2>2. Refused.phase = "refused"
        BY DEF Refused
    <2> QED BY <2>1, <2>2, CallMoves
<1> QED BY <1>1, <1>2

\* An event that is written or lost stays what it said.
LEMMA AuditEndsStep ==
    ASSUME CInv, NEW c \in Calls, NEW state \in {"written", "lost"}, AuditEnds(c, state)
    PROVE  CInv' /\ RowsStay
<1> DEFINE event == [audit[c] EXCEPT !.state = state]
<1>1. audit[c] \in AuditRow
    BY DEF CInv, RowsTyped
<1>2. event \in AuditRow /\ event.result = audit[c].result /\ event.state # "none"
    BY <1>1 DEF AuditRow
<1>3. audit' = [audit EXCEPT ![c] = event] /\ UNCHANGED <<leases, ledger, calls>>
    BY DEF AuditEnds
<1> HIDE DEF event
<1>4. RowsTyped' /\ RowsStay
    BY <1>2, <1>3 DEF CInv, RowsTyped, RowsStay
<1>5. ASSUME NEW d \in Calls PROVE CallTyped(d)'
    BY <1>3 DEF CInv, CallTyped
<1>6. ASSUME NEW d \in Calls, calls[d].phase \in {"executed", "denied"} PROVE Settled(d)'
    <2>1. Settled(d)
        BY <1>6 DEF CInv
    <2>2. shouldAuditLeaseDecision(calls[d]) => audit'[d].result = audit[d].result /\ audit'[d].state # "none"
        BY <1>2, <1>3, <2>1 DEF Settled, CInv, RowsTyped
    <2> QED BY <1>3, <2>1, <2>2 DEF Settled, shouldAuditLeaseDecision, ResultOf
<1> QED BY <1>3, <1>4, <1>5, <1>6 DEF CInv

\* A lease that is held stays held, whatever clients and the clock do.
LEMMA HeldStays ==
    ASSUME LeasesTyped, Clients \/ Tick \/ UNCHANGED vars
    PROVE  \A i \in Ids : leases[i] # None => leases'[i] = leases[i]
BY DEF Clients, Tick, vars, Issue, createDelegatedLease, LeasesTyped

LEMMA CallsKept ==
    ASSUME LeasesTyped, CInv, [Next]_vars
    PROVE  CInv'
<1>1. CASE Serving
    BY <1>1, AuthorizeStep, StoppedStep, DecideStep, AuditEndsStep DEF Serving
<1>2. CASE Maintenance
    BY <1>2, MaintenanceTends, TendedKeeps DEF CInv
<1>3. CASE Clients \/ Tick \/ UNCHANGED vars
    <2>1. UNCHANGED <<calls, ledger, audit>>
        BY <1>3 DEF Clients, Tick, vars, Issue, createDelegatedLease
    <2>2. Tended
        BY <2>1 DEF CInv, RowsTyped, Tended
    <2>3. \A i \in Ids : leases[i] # None => leases'[i] # None
        BY <1>3, HeldStays
    <2> QED BY <2>1, <2>2, <2>3, TendedKeeps
<1> QED BY <1>1, <1>2, <1>3 DEF Next

LEMMA CallsInitially == Init => CInv
BY DEF Init, CInv, RowsTyped, CallTyped, AuditRow, LedgerRow, NoRow, Idle

\* A tool that ran, or was denied, under a presented lease left its row, and its
\* audit event when it writes or was not allowed, for every number of calls,
\* leases and tenants (Accountable; authorizeAndExecuteTool).
THEOREM CallsAccounted == Spec => []Accountable
<1>1. CInv => Accountable
    <2> SUFFICES ASSUME CInv, NEW c \in Calls, calls[c].phase \in {"executed", "denied"}
                 PROVE  /\ calls[c].lease # None => ledger[calls[c].tenant][calls[c].lease].status # "none"
                        /\ Writes(calls[c]) \/ ~calls[c].allowed =>
                              /\ audit[c].state # "none"
                              /\ (audit[c].result = "allowed") = calls[c].allowed
                              /\ (audit[c].result = "denied") = (calls[c].phase = "denied")
        BY DEF Accountable
    <2>1. Settled(c) /\ calls[c].allowed \in BOOLEAN
        BY DEF CInv, CallTyped, Idle, Refused, Presented
    <2>2. Writes(calls[c]) => calls[c].op[2] \in {"write", "trigger", "link", "edit"}
        BY DEF Writes
    <2>3. Writes(calls[c]) \/ ~calls[c].allowed => shouldAuditLeaseDecision(calls[c])
        BY <2>2 DEF shouldAuditLeaseDecision
    <2> QED BY <2>1, <2>3 DEF Settled, ResultOf
<1> QED BY <1>1, CallsInitially, CallsKept, Initially, LinesDescend, PTL DEF Spec, IInv

\* A decision writes one row, that of the lease its call presents, and the call
\* has decided then.
LEMMA DecideTouches ==
    ASSUME LeasesTyped, CInv, NEW c \in Calls, Decide(c), NEW t \in Tenants, NEW i \in Ids,
           ledger'[t][i] # ledger[t][i]
    PROVE  /\ calls[c].phase = "deciding" /\ calls[c].lease = i /\ calls[c].tenant = t
           /\ calls'[c].phase # "deciding"
<1> DEFINE call == calls[c]
           row == [status |-> call.status, expires |-> leases[call.lease].expires, beat |-> FALSE]
<1>1. call \in Presented /\ call.phase = "deciding"
    BY DEF Decide, CInv, CallTyped, Idle, Refused
<1>2. call.lease # None
    BY DEF Decide, Recorded
<1>3. ledger' = [ledger EXCEPT ![call.tenant][call.lease] = row]
    BY <1>2 DEF Decide, Recorded
<1> HIDE DEF row
<1>4. call.lease = i /\ call.tenant = t
    BY <1>1, <1>3 DEF CInv, RowsTyped, Presented
<1>5. calls'[c].phase # "deciding"
    <2>1. calls'[c] = [call EXCEPT !.phase = IF ~call.allowed /\ mode = "required" THEN "denied" ELSE "executed"]
        BY DEF Decide, CInv
    <2> QED BY <1>1, <2>1 DEF Presented
<1> QED BY <1>1, <1>4, <1>5

\* A row that ended changes only when a call presents its lease again
\* (EndedStays; expireAgentLeasesForProcess, reapExpiredAgentLeases).
THEOREM RowsEndOnce == Spec => EndedStays
<1> DEFINE Again == \A t \in Tenants, i \in Ids :
          ledger[t][i].status \in {"expired", "revoked"} /\ ledger'[t][i].status # ledger[t][i].status
            => \E c \in Calls : calls[c].phase = "deciding" /\ calls[c].lease = i /\ calls[c].tenant = t
                                 /\ calls'[c].phase # "deciding"
<1>1. LeasesTyped /\ CInv /\ Next => Again
    <2> SUFFICES ASSUME LeasesTyped, CInv, Next, NEW t \in Tenants, NEW i \in Ids,
                        ledger[t][i].status \in {"expired", "revoked"},
                        ledger'[t][i].status # ledger[t][i].status
                 PROVE  \E c \in Calls : calls[c].phase = "deciding" /\ calls[c].lease = i /\ calls[c].tenant = t
                                           /\ calls'[c].phase # "deciding"
        OBVIOUS
    <2>1. CASE Maintenance
        BY <2>1, MaintenanceTends DEF CInv, Tended, Active
    <2>2. CASE Serving
        BY <2>2, DecideTouches DEF Serving, Refuse, Authorize, RecordFails, AuditEnds
    <2>3. CASE Tick \/ Clients
        BY <2>3 DEF Tick, Clients, Issue, createDelegatedLease
    <2> QED BY <2>1, <2>2, <2>3 DEF Next
<1>2. LeasesTyped /\ CInv /\ [Next]_vars => [Again]_vars
    BY <1>1
<1>3. LeasesTyped /\ CInv /\ [Next]_vars => CInv' /\ LeasesTyped'
    BY CallsKept, TypedStep
<1>4. Init => LeasesTyped /\ CInv
    BY Initially, CallsInitially DEF IInv
<1> QED BY <1>2, <1>3, <1>4, PTL DEF Spec, EndedStays

-----------------------------------------------------------------------------
(* Chains *)

\* Cutting a chain to its length keeps its last two entries.
LEMMA CutKeepsEnd ==
    ASSUME NEW s \in Seq(Agents), Len(s) > 1
    PROVE  LET k == Capped(s) IN
           /\ Len(k) \in 1..MaxChain /\ k[Len(k)] = s[Len(s)]
           /\ MaxChain > 1 => Len(k) > 1 /\ k[Len(k) - 1] = s[Len(s) - 1]
<1> DEFINE from == IF Len(s) > MaxChain THEN Len(s) - MaxChain + 1 ELSE 1
           k == SubSeq(s, from, Len(s))
<1>1. MaxChain \in Nat /\ MaxChain > 0 /\ Len(s) \in Nat
    BY BoundsAssumption
<1>2. from \in 1..Len(s) /\ Len(s) - from + 1 = (IF Len(s) > MaxChain THEN MaxChain ELSE Len(s))
    BY <1>1
<1> HIDE DEF from
<1>3. Len(k) = Len(s) - from + 1 /\ \A n \in 1..Len(k) : k[n] = s[from + n - 1]
    BY <1>2
<1>4. Capped(s) = k
    BY DEF Capped, from
<1> HIDE DEF k
<1>5. Len(k) \in 1..MaxChain /\ k[Len(k)] = s[Len(s)]
    BY <1>1, <1>2, <1>3
<1>6. ASSUME MaxChain > 1 PROVE Len(k) > 1 /\ k[Len(k) - 1] = s[Len(s) - 1]
    BY <1>1, <1>2, <1>3, <1>6
<1> QED BY <1>4, <1>5, <1>6

\* The parent of a lease is a lease: the chain's second name from the end is of one that is held.
ChainInv ==
    /\ ChainTruth
    /\ \A i \in Ids : leases[i] # None /\ leases[i].parent # None => leases[leases[i].parent] # None

\* Each lease's chain ends with its agent and its parent's, however long the line
\* and however often it was cut (ChainTruth; createDelegatedLease, MAX_CHAIN_LENGTH).
THEOREM ChainsTellTheTruth == Spec => []ChainTruth
<1> DEFINE True(l, parent) ==
        /\ Len(l.chain) \in 1..MaxChain /\ l.chain[Len(l.chain)] = l.agent
        /\ l.parent # None /\ MaxChain > 1 =>
              Len(l.chain) > 1 /\ l.chain[Len(l.chain) - 1] = parent.agent
<1>1. Init => ChainInv
    BY DEF Init, ChainInv, ChainTruth
<1>2. ASSUME LeasesTyped, ChainInv, [Next]_vars PROVE ChainInv'
    <2>1. CASE Untouched
        BY <1>2, <2>1 DEF Untouched, ChainInv, ChainTruth
    <2>2. ASSUME NEW i \in Ids, NEW new, new.parent = None \/ (new.parent \in Ids /\ leases[new.parent] # None),
                 new # None, leases[i] = None, leases' = [leases EXCEPT ![i] = new],
                 True(new, leases[new.parent])
          PROVE  ChainInv'
        <3>1. leases'[i] = new /\ \A j \in Ids \ {i} : leases'[j] = leases[j]
            BY <1>2, <2>2 DEF LeasesTyped
        <3>2. new.parent # None => new.parent # i /\ leases'[new.parent] = leases[new.parent]
            BY <2>2, <3>1
        <3>3. ASSUME NEW j \in Ids, leases'[j] # None
              PROVE  /\ True(leases'[j], leases'[leases'[j].parent])
                     /\ leases'[j].parent # None => leases'[leases'[j].parent] # None
            <4>1. CASE j = i
                BY <2>2, <3>1, <3>2, <4>1
            <4>2. CASE j # i
                <5>1. leases'[j] = leases[j] /\ leases[j] # None
                    BY <3>1, <3>3, <4>2
                <5>2. /\ True(leases[j], leases[leases[j].parent])
                      /\ leases[j].parent # None => leases[leases[j].parent] # None
                    BY <1>2, <5>1 DEF ChainInv, ChainTruth
                <5>3. leases[j].parent \in Ids \cup {None}
                    BY <1>2, <5>1 DEF LeasesTyped, Lease
                <5>4. leases[j].parent # None => leases'[leases[j].parent] = leases[leases[j].parent]
                    BY <2>2, <3>1, <5>2, <5>3
                <5> QED BY <5>1, <5>2, <5>4
            <4> QED BY <4>1, <4>2
        <3> QED BY <3>3 DEF ChainInv, ChainTruth
    <2>3. ASSUME NEW i \in Ids, NEW a \in Agents, NEW grant \in Grants, NEW scope \in Scopes,
                 NEW expires \in 1..MaxTime, Issue(i, a, grant, scope, expires)
          PROVE  ChainInv'
        <3> DEFINE new == [agent |-> a, parent |-> None, chain |-> <<a>>,
                           capabilities |-> grant, scope |-> scope, expires |-> expires]
        <3>1. new \in Lease
            BY ScopesAssumption, GrantsAssumption, BoundsAssumption DEF Lease
        <3>2. leases[i] = None /\ leases' = [leases EXCEPT ![i] = new]
            BY <2>3 DEF Issue
        <3>3. new.parent = None /\ True(new, leases[new.parent])
            BY BoundsAssumption
        <3> HIDE DEF new, True
        <3> QED BY <2>2, <3>1, <3>2, <3>3, NoneAssumption
    <2>4. ASSUME NEW i \in Ids, NEW p \in Ids, NEW a \in Agents, NEW grant \in Grants, NEW scope \in Scopes,
                 NEW expires \in 1..MaxTime, createDelegatedLease(i, p, a, grant, scope, expires)
          PROVE  ChainInv'
        <3> DEFINE s == Append(leases[p].chain, a)
                   new == [agent |-> a, parent |-> p, chain |-> Capped(s),
                           capabilities |-> grant, scope |-> scope, expires |-> expires]
        <3>1. leases[i] = None /\ leases[p] # None /\ leases' = [leases EXCEPT ![i] = new]
            BY <2>4 DEF createDelegatedLease
        <3>2. leases[p] \in Lease /\ new \in Lease
            BY <1>2, <2>4, <3>1, NewIsLease DEF LeasesTyped
        <3>3. /\ s \in Seq(Agents) /\ Len(s) > 1 /\ s[Len(s)] = a
              /\ s[Len(s) - 1] = leases[p].agent
            <4>1. /\ leases[p].chain \in Seq(Agents) /\ Len(leases[p].chain) \in 1..MaxChain
                  /\ leases[p].chain[Len(leases[p].chain)] = leases[p].agent
                BY <1>2, <3>1, <3>2 DEF ChainInv, ChainTruth, Lease
            <4> QED BY <4>1, BoundsAssumption
        <3> HIDE DEF s
        <3>4. new.parent = p /\ new.chain = Capped(s) /\ new.agent = a
            OBVIOUS
        <3>5. True(new, leases[new.parent])
            BY <3>3, <3>4, CutKeepsEnd
        <3> HIDE DEF new, True
        <3> QED BY <2>2, <3>1, <3>2, <3>4, <3>5, NoneAssumption
    <2> QED BY <1>2, <2>1, <2>3, <2>4, OtherSteps DEF Clients
<1>3. ChainInv => ChainTruth
    BY DEF ChainInv
<1> QED BY <1>1, <1>2, <1>3, TypedStep, Initially, PTL DEF Spec, IInv

-----------------------------------------------------------------------------
(* The audit log of the consent record: cut after each entry, it is the end of *)
(* the log that was never cut.                                                 *)

\* What trimLog keeps.
LEMMA TrimKeeps ==
    ASSUME NEW S, NEW log \in Seq(S)
    PROVE  /\ Consents!trimLog(log) \in Seq(S)
           /\ Len(Consents!trimLog(log)) = IF Len(log) > LogCap THEN LogCap ELSE Len(log)
           /\ \A n \in 1..Len(Consents!trimLog(log)) :
                  Consents!trimLog(log)[n] = log[Len(log) - Len(Consents!trimLog(log)) + n]
<1> DEFINE from == IF Len(log) > LogCap THEN Len(log) - LogCap + 1 ELSE 1
<1>1. LogCap \in Nat \ {0} /\ Len(log) \in Nat /\ \A n \in 1..Len(log) : log[n] \in S
    BY SafetyAssumption, LenProperties, ElementOfSeq DEF Consents!ConsentAssumption
<1>2. from \in Int /\ from >= 1 /\ from <= Len(log) + 1 /\ \A n \in from..Len(log) : log[n] \in S
    BY <1>1
<1>3. Consents!trimLog(log) = SubSeq(log, from, Len(log))
    BY DEF Consents!trimLog
<1> HIDE DEF from
<1>4. /\ SubSeq(log, from, Len(log)) \in Seq(S)
      /\ Len(SubSeq(log, from, Len(log))) = IF from <= Len(log) THEN Len(log) - from + 1 ELSE 0
      /\ \A n \in 1..(Len(log) - from + 1) : SubSeq(log, from, Len(log))[n] = log[from + n - 1]
    BY <1>1, <1>2, SubSeqProperties
<1>5. Len(SubSeq(log, from, Len(log))) = Len(log) - from + 1
    BY <1>1, <1>2, <1>4
<1>6. from = Len(log) - (Len(log) - from + 1) + 1
    BY <1>1, <1>2
<1>7. \A n \in 1..(Len(log) - from + 1) : from + n - 1 = Len(log) - (Len(log) - from + 1) + n
    BY <1>1, <1>2
<1>8. Len(log) - from + 1 = IF Len(log) > LogCap THEN LogCap ELSE Len(log)
    BY <1>1 DEF from
<1> QED BY <1>3, <1>4, <1>5, <1>7, <1>8

\* Cutting before an entry is appended and after it is cutting after it.
LEMMA TrimsOnce ==
    ASSUME NEW S, NEW log \in Seq(S), NEW entry \in S
    PROVE  Consents!trimLog(Append(Consents!trimLog(log), entry)) = Consents!trimLog(Append(log, entry))
<1> DEFINE cut == Consents!trimLog(log)
           short == Append(cut, entry)   long == Append(log, entry)
           a == Consents!trimLog(short)  b == Consents!trimLog(long)
<1>1. LogCap \in Nat \ {0} /\ Len(log) \in Nat
    BY SafetyAssumption, LenProperties DEF Consents!ConsentAssumption
<1>2. /\ cut \in Seq(S) /\ Len(cut) = IF Len(log) > LogCap THEN LogCap ELSE Len(log)
      /\ \A n \in 1..Len(cut) : cut[n] = log[Len(log) - Len(cut) + n]
    BY TrimKeeps
<1> HIDE DEF cut
<1>3. /\ short \in Seq(S) /\ Len(short) = Len(cut) + 1
      /\ \A n \in 1..Len(cut) : short[n] = cut[n]
      /\ short[Len(cut) + 1] = entry
    BY <1>2, AppendProperties
<1>4. /\ long \in Seq(S) /\ Len(long) = Len(log) + 1
      /\ \A n \in 1..Len(log) : long[n] = log[n]
      /\ long[Len(log) + 1] = entry
    BY AppendProperties
<1> HIDE DEF short, long
<1>5. /\ a \in Seq(S) /\ Len(a) = IF Len(short) > LogCap THEN LogCap ELSE Len(short)
      /\ \A n \in 1..Len(a) : a[n] = short[Len(short) - Len(a) + n]
    BY <1>3, TrimKeeps
<1>6. /\ b \in Seq(S) /\ Len(b) = IF Len(long) > LogCap THEN LogCap ELSE Len(long)
      /\ \A n \in 1..Len(b) : b[n] = long[Len(long) - Len(b) + n]
    BY <1>4, TrimKeeps
<1> HIDE DEF a, b
<1>7. Len(a) = Len(b) /\ Len(a) \in Nat /\ Len(a) <= Len(cut) + 1 /\ Len(a) <= Len(log) + 1
    BY <1>1, <1>2, <1>3, <1>4, <1>5, <1>6
<1>8. ASSUME NEW n \in 1..Len(a) PROVE a[n] = b[n]
    <2>1. a[n] = short[Len(cut) + 1 - Len(a) + n]
        <3>1. a[n] = short[Len(short) - Len(a) + n]
            BY <1>5
        <3>2. Len(short) - Len(a) + n = Len(cut) + 1 - Len(a) + n
            BY <1>3
        <3> QED BY <3>1, <3>2
    <2>5. b[n] = long[Len(log) + 1 - Len(a) + n]
        <3>1. b[n] = long[Len(long) - Len(b) + n]
            BY <1>6, <1>7
        <3>2. Len(long) - Len(b) + n = Len(log) + 1 - Len(a) + n
            BY <1>4, <1>7
        <3> QED BY <3>1, <3>2
    <2>2. CASE n = Len(a)
        <3>1. a[n] = short[Len(cut) + 1] /\ b[n] = long[Len(log) + 1]
            <4>1. Len(cut) + 1 - Len(a) + n = Len(cut) + 1 /\ Len(log) + 1 - Len(a) + n = Len(log) + 1
                BY <1>1, <1>2, <1>7, <2>2
            <4> QED BY <2>1, <2>5, <4>1
        <3> QED BY <1>3, <1>4, <3>1
    <2>3. CASE n # Len(a)
        <3> DEFINE i == Len(cut) + 1 - Len(a) + n   j == Len(log) + 1 - Len(a) + n
        <3>4. Len(a) \in Nat /\ Len(cut) \in Nat /\ Len(cut) <= Len(log) /\ Len(a) <= Len(cut) + 1 /\ n < Len(a)
            BY <1>1, <1>2, <1>7, <2>3
        <3>5. Len(cut) + 1 = Len(a) \/ Len(cut) + 1 > Len(a)
            BY <3>4
        <3>1. i \in 1..Len(cut) /\ j \in 1..Len(log) /\ j = Len(log) - Len(cut) + i
            BY <1>1, <3>4
        <3>2. short[i] = cut[i] /\ cut[i] = log[j] /\ long[j] = log[j]
            BY <1>2, <1>3, <1>4, <3>1
        <3> QED BY <2>1, <2>5, <3>2
    <2> QED BY <2>2, <2>3
<1>9. a = b
    BY <1>5, <1>6, <1>7, <1>8, SeqEqual
<1> QED BY <1>9 DEF a, b, short, long, cut

-----------------------------------------------------------------------------
(* The consent record *)

ConsentRows ==
    [grants : [UserDomains -> Consents!Entries], level : Consents!Levels, log : Seq(Consents!Ops)]

ConsentCallsBusy == [busy : {TRUE}, op : Consents!Ops, held : ConsentRows, at : Consents!Time]

ConsentTyped ==
    /\ cNow \in Consents!Time /\ cFaults \in Nat /\ consent \in ConsentRows
    /\ word \in [UserDomains -> Consents!Words] /\ reached \in Consents!Levels
    /\ history \in Seq(Consents!Ops)
    /\ cCall \in [ConsentCallers -> {Consents!Idle} \cup ConsentCallsBusy]

\* A grant in a record is one the user gave, and ends no later than the user was told.
Covered(grants) ==
    \A d \in UserDomains : grants[d].level # "none" =>
        /\ word[d].given
        /\ word[d].until # Consents!Never => grants[d].level = "session" /\ grants[d].until = word[d].until

\* What is stored and what a call read is covered; and as long as every query was
\* answered, a call holds what is stored, which is what was said.
ConsentInv ==
    /\ Covered(consent.grants)
    /\ \A c \in ConsentCallers : cCall[c] # Consents!Idle => Covered(cCall[c].held.grants)
    /\ cFaults = 0 =>
         /\ Consents!RecordIsSaid /\ Consents!LogIsTail
         /\ \A c \in ConsentCallers : cCall[c] # Consents!Idle => cCall[c].held = consent

ConsentUntouched == UNCHANGED <<cNow, consent, cCall, answer, word, reached, history, cCalls, cFaults>>

\* A call under way is told from an idle caller.
LEMMA BusyIsNotIdle == \A k \in ConsentCallsBusy : k # Consents!Idle
<1> SUFFICES ASSUME NEW k \in ConsentCallsBusy PROVE k.busy /\ ~Consents!Idle.busy
    OBVIOUS
<1> QED BY DEF ConsentCallsBusy, Consents!Idle

LEMMA DefaultIsRow ==
    /\ Consents!defaultConsent \in ConsentRows
    /\ \A d \in UserDomains : Consents!defaultConsent.grants[d].level = "none"
<1>1. 0 \in Consents!Levels /\ Consents!NoEntry \in Consents!Entries /\ Consents!NoEntry.level = "none"
    BY SafetyAssumption DEF Consents!ConsentAssumption, Consents!Levels, Consents!NoEntry, Consents!Entries, Consents!Never
<1>2. << >> \in Seq(Consents!Ops)
    BY EmptySeq
<1> QED BY <1>1, <1>2 DEF Consents!defaultConsent, ConsentRows

\* What each kind of call is about.
LEMMA OpKinds ==
    ASSUME NEW op \in Consents!Ops
    PROVE  /\ op.kind \in {"check", "grant", "revoke", "level"}
           /\ op.kind \in {"grant", "revoke"} => op.domain \in UserDomains
           /\ op.kind = "grant" => op.level \in ConsentLevels
           /\ op.kind = "level" => op.to \in Consents!Levels
BY DEF Consents!Ops, Consents!Op

\* The row a call writes: its domain, or the level, and the log.
LEMMA RowWritten ==
    ASSUME NEW op \in Consents!Ops, NEW held \in ConsentRows, NEW at \in Consents!Time
    PROVE  LET row == Consents!Row(op, held, at)
           IN /\ row \in ConsentRows
              /\ row.log = Consents!trimLog(Append(held.log, op))
              /\ row.level = IF op.kind = "level" THEN op.to ELSE held.level
              /\ row.grants = CASE op.kind = "grant"  -> [held.grants EXCEPT ![op.domain] = Consents!EntryFor(op.level, at)]
                                [] op.kind = "revoke" -> [held.grants EXCEPT ![op.domain] = Consents!NoEntry]
                                [] OTHER -> held.grants
<1> DEFINE log == Consents!trimLog(Append(held.log, op))
<1>1. log \in Seq(Consents!Ops)
    BY TrimKeeps, AppendProperties DEF ConsentRows
<1>2. op.kind = "grant" => Consents!EntryFor(op.level, at) \in Consents!Entries
    <2>1. CASE op.kind = "grant"
        <3>1. op.level \in {"standing", "session", "ask_each_time", "omitted"}
            BY <2>1, OpKinds, SafetyAssumption DEF Consents!ConsentAssumption
        <3>2. at + SessionTime \in 0..(ConsentTime + SessionTime)
            BY SafetyAssumption DEF Consents!ConsentAssumption, Consents!Time
        <3> QED BY <3>1, <3>2 DEF Consents!EntryFor, Consents!Entries
    <2> QED BY <2>1
<1>3. Consents!NoEntry \in Consents!Entries
    BY DEF Consents!NoEntry, Consents!Entries
<1> HIDE DEF log
<1>4. CASE op.kind = "grant"
    <2>1. Consents!Row(op, held, at) = [[held EXCEPT !.grants[op.domain] = Consents!EntryFor(op.level, at)] EXCEPT !.log = log]
        BY <1>4 DEF Consents!Row, Consents!grant, log
    <2>2. op.domain \in UserDomains /\ held = [grants |-> held.grants, level |-> held.level, log |-> held.log]
        BY <1>4, OpKinds DEF ConsentRows
    <2>3. Consents!Row(op, held, at) =
            [grants |-> [held.grants EXCEPT ![op.domain] = Consents!EntryFor(op.level, at)], level |-> held.level, log |-> log]
        BY <2>1, <2>2
    <2>4. [held.grants EXCEPT ![op.domain] = Consents!EntryFor(op.level, at)] \in [UserDomains -> Consents!Entries]
        BY <1>2, <1>4, <2>2 DEF ConsentRows
    <2> QED BY <1>1, <1>4, <2>3, <2>4 DEF ConsentRows, log
<1>5. CASE op.kind = "revoke"
    <2>1. Consents!Row(op, held, at) = [[held EXCEPT !.grants[op.domain] = Consents!NoEntry] EXCEPT !.log = log]
        BY <1>5 DEF Consents!Row, Consents!revoke, log
    <2>2. op.domain \in UserDomains /\ held = [grants |-> held.grants, level |-> held.level, log |-> held.log]
        BY <1>5, OpKinds DEF ConsentRows
    <2>3. Consents!Row(op, held, at) =
            [grants |-> [held.grants EXCEPT ![op.domain] = Consents!NoEntry], level |-> held.level, log |-> log]
        BY <2>1, <2>2
    <2>4. [held.grants EXCEPT ![op.domain] = Consents!NoEntry] \in [UserDomains -> Consents!Entries]
        BY <1>3, <1>5, <2>2 DEF ConsentRows
    <2> QED BY <1>1, <1>5, <2>3, <2>4 DEF ConsentRows, log
<1>6. CASE op.kind = "level"
    <2>1. Consents!Row(op, held, at) = [[held EXCEPT !.level = op.to] EXCEPT !.log = log]
        BY <1>6 DEF Consents!Row, Consents!updateRelationshipLevel, log
    <2> QED BY <1>1, <1>6, <2>1, OpKinds DEF ConsentRows, log
<1>7. CASE op.kind = "check"
    <2>1. Consents!Row(op, held, at) = [held EXCEPT !.log = log]
        BY <1>7 DEF Consents!Row, log
    <2> QED BY <1>1, <1>7, <2>1 DEF ConsentRows, log
<1> QED BY <1>4, <1>5, <1>6, <1>7, OpKinds

LEMMA ConsentInitially == Consents!Init => ConsentTyped /\ ConsentInv
<1> SUFFICES ASSUME Consents!Init PROVE ConsentTyped /\ ConsentInv
    OBVIOUS
<1>1. << >> \in Seq(Consents!Ops) /\ 0 \in Consents!Levels /\ 0 \in Consents!Time /\ LogCap \in Nat
    BY SafetyAssumption, EmptySeq DEF Consents!ConsentAssumption, Consents!Levels, Consents!Time
<1>2. ConsentTyped
    <2>1. [given |-> FALSE, until |-> Consents!Never] \in Consents!Words
        BY DEF Consents!Words
    <2>2. cCall = [c \in ConsentCallers |-> Consents!Idle]
        BY DEF Consents!Init
    <2> QED BY <1>1, <2>1, <2>2, DefaultIsRow DEF Consents!Init, ConsentTyped
<1>3. \A c \in ConsentCallers : cCall[c] = Consents!Idle
    BY DEF Consents!Init
<1>4. consent = Consents!defaultConsent /\ word = [d \in UserDomains |-> [given |-> FALSE, until |-> Consents!Never]]
      /\ reached = 0 /\ history = << >>
    BY DEF Consents!Init
<1>5. Covered(consent.grants)
    BY <1>4, DefaultIsRow DEF Covered
<1>6. Consents!RecordIsSaid
    BY <1>4, DefaultIsRow DEF Consents!RecordIsSaid, Consents!defaultConsent
<1>7. Consents!LogIsTail
    <2>1. consent.log = << >> /\ Len(history) = 0
        BY <1>4 DEF Consents!defaultConsent
    <2>2. SubSeq(history, 1, 0) = << >>
        BY SubSeqEmpty
    <2> QED BY <1>1, <2>1, <2>2 DEF Consents!LogIsTail
<1> QED BY <1>2, <1>3, <1>5, <1>6, <1>7 DEF ConsentInv

\* The steps of a call on the record, one by one.
ConsentBegins(c, op, held) ==
    /\ cCall[c] = Consents!Idle
    /\ (held = consent /\ cFaults' = cFaults) \/ (held = Consents!defaultConsent /\ cFaults' = cFaults + 1)
    /\ cCall' = [cCall EXCEPT ![c] = [busy |-> TRUE, op |-> op, held |-> held, at |-> cNow]]
    /\ op.kind = "check" => /\ answer'.domain = op.domain
                            /\ answer'.permitted = Consents!Permitted(held, op.domain)
    /\ UNCHANGED <<cNow, consent, word, reached, history>>

LEMMA BeginIs ==
    ASSUME NEW c \in ConsentCallers, NEW op \in Consents!Ops, Consents!Begin(c, op)
    PROVE  \E held \in {consent, Consents!defaultConsent} : ConsentBegins(c, op, held)
<1>1. PICK held \in {consent, Consents!defaultConsent} :
        /\ cCall[c] = Consents!Idle
        /\ \/ held = consent /\ UNCHANGED cFaults
           \/ held # consent /\ cFaults < ConsentFaults /\ cFaults' = cFaults + 1
        /\ cCall' = [cCall EXCEPT ![c] = [busy |-> TRUE, op |-> op, held |-> held, at |-> cNow]]
        /\ answer' = IF op.kind = "check"
                       THEN [domain |-> op.domain, permitted |-> Consents!Permitted(held, op.domain), level |-> held.level]
                       ELSE answer
        /\ UNCHANGED <<cNow, consent, word, reached, history>>
    BY DEF Consents!Begin
<1>2. op.kind = "check" => answer'.domain = op.domain /\ answer'.permitted = Consents!Permitted(held, op.domain)
    BY <1>1
<1> QED BY <1>1, <1>2 DEF ConsentBegins

LEMMA ConsentTypedStep == ConsentTyped /\ (Consents!Next \/ ConsentUntouched) => ConsentTyped'
<1> SUFFICES ASSUME ConsentTyped, Consents!Next \/ ConsentUntouched PROVE ConsentTyped'
    OBVIOUS
<1>1. CASE ConsentUntouched
    BY <1>1 DEF ConsentUntouched, ConsentTyped
<1>2. CASE Consents!Tick
    <2>1. cNow' \in Consents!Time
        BY <1>2, SafetyAssumption DEF Consents!Tick, ConsentTyped, Consents!Time, Consents!ConsentAssumption
    <2> QED BY <1>2, <2>1 DEF Consents!Tick, ConsentTyped
<1>3. ASSUME NEW c \in ConsentCallers, NEW op \in Consents!Ops, Consents!Begin(c, op) PROVE ConsentTyped'
    <2>1. PICK held \in {consent, Consents!defaultConsent} : ConsentBegins(c, op, held)
        BY <1>3, BeginIs
    <2>2. held \in ConsentRows
        BY <2>1, DefaultIsRow DEF ConsentTyped
    <2>3. [busy |-> TRUE, op |-> op, held |-> held, at |-> cNow] \in ConsentCallsBusy
        BY <2>2 DEF ConsentTyped, ConsentCallsBusy
    <2>4. cCall' \in [ConsentCallers -> {Consents!Idle} \cup ConsentCallsBusy]
        BY <2>1, <2>3 DEF ConsentTyped, ConsentBegins
    <2>5. cFaults' \in Nat
        BY <2>1 DEF ConsentTyped, ConsentBegins
    <2>6. UNCHANGED <<cNow, consent, word, reached, history>>
        BY <2>1 DEF ConsentBegins
    <2> QED BY <2>4, <2>5, <2>6 DEF ConsentTyped
<1>4. ASSUME NEW c \in ConsentCallers, Consents!writeConsent(c) PROVE ConsentTyped'
    <2>1. cCall[c] \in ConsentCallsBusy
        BY <1>4 DEF Consents!writeConsent, ConsentTyped
    <2> DEFINE op == cCall[c].op   at == cCall[c].at
    <2>2. op \in Consents!Ops /\ cCall[c].held \in ConsentRows /\ at \in Consents!Time
        BY <2>1 DEF ConsentCallsBusy
    <2>3. consent' \in ConsentRows
        BY <1>4, <2>2, RowWritten DEF Consents!writeConsent
    <2>4. word' \in [UserDomains -> Consents!Words]
        <3>1. at + SessionTime \in 0..(ConsentTime + SessionTime)
            BY <2>2, SafetyAssumption DEF Consents!ConsentAssumption, Consents!Time
        <3> QED BY <1>4, <2>2, <3>1, OpKinds DEF Consents!writeConsent, Consents!Said, Consents!Words, ConsentTyped
    <2>5. reached' \in Consents!Levels /\ history' \in Seq(Consents!Ops)
        BY <1>4, <2>2, OpKinds, AppendProperties DEF Consents!writeConsent, Consents!Said, ConsentTyped
    <2>6. cCall' \in [ConsentCallers -> {Consents!Idle} \cup ConsentCallsBusy] /\ UNCHANGED <<cNow, cFaults>>
        BY <1>4 DEF Consents!writeConsent, ConsentTyped
    <2> QED BY <2>3, <2>4, <2>5, <2>6 DEF ConsentTyped
<1>5. ASSUME NEW c \in ConsentCallers, Consents!WriteFails(c) PROVE ConsentTyped'
    BY <1>5 DEF Consents!WriteFails, ConsentTyped
<1> QED BY <1>1, <1>2, <1>3, <1>4, <1>5 DEF Consents!Next

\* A write by the one call there is says and stores the same.
LEMMA ConsentWriteStep ==
    ASSUME \A c, d \in ConsentCallers : c = d, "omitted" \notin ConsentLevels,
           ConsentTyped, ConsentInv, NEW c \in ConsentCallers, Consents!writeConsent(c)
    PROVE  ConsentInv'
<1> DEFINE op == cCall[c].op   at == cCall[c].at   held == cCall[c].held
<1>1. cCall[c] # Consents!Idle /\ cCall[c] \in ConsentCallsBusy
    BY DEF Consents!writeConsent, ConsentTyped
<1>2. op \in Consents!Ops /\ held \in ConsentRows /\ at \in Consents!Time
    BY <1>1 DEF ConsentCallsBusy
<1>3. \A d \in ConsentCallers : cCall'[d] = Consents!Idle
    BY DEF Consents!writeConsent, ConsentTyped
<1>4. /\ consent' = Consents!Row(op, held, at) /\ cFaults' = cFaults
      /\ Consents!Said(op, at)
    BY DEF Consents!writeConsent
<1>5. Covered(held.grants)
    BY <1>1 DEF ConsentInv
<1>6. /\ consent'.log = Consents!trimLog(Append(held.log, op))
      /\ consent'.level = IF op.kind = "level" THEN op.to ELSE held.level
      /\ consent'.grants = CASE op.kind = "grant"  -> [held.grants EXCEPT ![op.domain] = Consents!EntryFor(op.level, at)]
                             [] op.kind = "revoke" -> [held.grants EXCEPT ![op.domain] = Consents!NoEntry]
                             [] OTHER -> held.grants
    BY <1>2, <1>4, RowWritten
<1>7. /\ held.grants \in [UserDomains -> Consents!Entries] /\ word \in [UserDomains -> Consents!Words]
      /\ held.log \in Seq(Consents!Ops)
    BY <1>2 DEF ConsentRows, ConsentTyped
<1> HIDE DEF op, at, held
<1>8. ASSUME op.kind = "grant"
      PROVE  /\ Covered(consent.grants)'
             /\ op.domain \in UserDomains /\ consent'.grants[op.domain].level # "none" /\ word'[op.domain].given
             /\ \A d \in UserDomains \ {op.domain} :
                    consent'.grants[d] = held.grants[d] /\ word'[d] = word[d]
    <2>1. op.domain \in UserDomains /\ op.level \in {"standing", "session", "ask_each_time"}
        BY <1>2, <1>8, OpKinds, SafetyAssumption DEF Consents!ConsentAssumption
    <2>2. /\ consent'.grants = [held.grants EXCEPT ![op.domain] = Consents!EntryFor(op.level, at)]
          /\ word' = [word EXCEPT ![op.domain] =
                        [given |-> TRUE, until |-> IF op.level \in {"session", "omitted"} THEN at + SessionTime ELSE Consents!Never]]
        BY <1>4, <1>6, <1>8 DEF Consents!Said
    <2>3. /\ consent'.grants[op.domain] = Consents!EntryFor(op.level, at)
          /\ word'[op.domain].given
          /\ word'[op.domain].until = IF op.level = "session" THEN at + SessionTime ELSE Consents!Never
        BY <1>7, <2>1, <2>2
    <2>4. /\ Consents!EntryFor(op.level, at).level = op.level
          /\ op.level = "session" => Consents!EntryFor(op.level, at).until = at + SessionTime
        BY <2>1 DEF Consents!EntryFor
    <2>5. \A d \in UserDomains \ {op.domain} : consent'.grants[d] = held.grants[d] /\ word'[d] = word[d]
        BY <1>7, <2>1, <2>2
    <2>6. consent'.grants[op.domain].level # "none"
        BY <2>1, <2>3, <2>4
    <2>7. ASSUME NEW d \in UserDomains, consent'.grants[d].level # "none"
          PROVE  /\ word'[d].given
                 /\ word'[d].until # Consents!Never =>
                        consent'.grants[d].level = "session" /\ consent'.grants[d].until = word'[d].until
        <3>1. CASE d = op.domain
            BY <2>1, <2>3, <2>4, <3>1
        <3>2. CASE d # op.domain
            BY <1>5, <2>5, <2>7, <3>2 DEF Covered
        <3> QED BY <3>1, <3>2
    <2> QED BY <2>1, <2>3, <2>5, <2>6, <2>7 DEF Covered
<1>9. ASSUME op.kind = "revoke"
      PROVE  /\ Covered(consent.grants)'
             /\ op.domain \in UserDomains /\ consent'.grants[op.domain].level = "none" /\ ~word'[op.domain].given
             /\ \A d \in UserDomains \ {op.domain} :
                    consent'.grants[d] = held.grants[d] /\ word'[d] = word[d]
    <2>1. op.domain \in UserDomains
        BY <1>2, <1>9, OpKinds
    <2>2. /\ consent'.grants = [held.grants EXCEPT ![op.domain] = Consents!NoEntry]
          /\ word' = [word EXCEPT ![op.domain] = [given |-> FALSE, until |-> Consents!Never]]
        BY <1>4, <1>6, <1>9 DEF Consents!Said
    <2>3. consent'.grants[op.domain].level = "none" /\ ~word'[op.domain].given
        BY <1>7, <2>1, <2>2 DEF Consents!NoEntry
    <2>4. \A d \in UserDomains \ {op.domain} : consent'.grants[d] = held.grants[d] /\ word'[d] = word[d]
        BY <1>7, <2>1, <2>2
    <2>5. ASSUME NEW d \in UserDomains, consent'.grants[d].level # "none"
          PROVE  /\ word'[d].given
                 /\ word'[d].until # Consents!Never =>
                        consent'.grants[d].level = "session" /\ consent'.grants[d].until = word'[d].until
        BY <1>5, <2>3, <2>4, <2>5 DEF Covered
    <2> QED BY <2>1, <2>3, <2>4, <2>5 DEF Covered
<1>10. ASSUME op.kind \notin {"grant", "revoke"} PROVE consent'.grants = held.grants /\ word' = word
    BY <1>4, <1>6, <1>10 DEF Consents!Said
<1>11. Covered(consent.grants)'
    <2>1. CASE op.kind \notin {"grant", "revoke"}
        BY <1>5, <1>10, <2>1 DEF Covered
    <2> QED BY <1>8, <1>9, <2>1
<1>12. ASSUME cFaults = 0 PROVE Consents!RecordIsSaid' /\ Consents!LogIsTail'
    <2>1. held = consent /\ Consents!RecordIsSaid /\ Consents!LogIsTail
        BY <1>1, <1>12 DEF ConsentInv, held
    <2>2. ASSUME NEW d \in UserDomains PROVE (consent'.grants[d].level # "none") <=> word'[d].given
        <3>1. (held.grants[d].level # "none") <=> word[d].given
            BY <2>1 DEF Consents!RecordIsSaid
        <3>2. word[d].given \in BOOLEAN
            BY <1>7 DEF Consents!Words
        <3>3. CASE op.kind = "grant"
            BY <1>8, <3>1, <3>3
        <3>4. CASE op.kind = "revoke"
            BY <1>9, <3>1, <3>4
        <3> QED BY <1>10, <3>1, <3>3, <3>4
    <2>3. consent'.level = reached'
        BY <1>4, <1>6, <2>1 DEF Consents!RecordIsSaid, Consents!Said
    <2>4. history' = Append(history, op) /\ history \in Seq(Consents!Ops)
        BY <1>4 DEF Consents!Said, ConsentTyped
    <2>5. held.log = Consents!trimLog(history)
        BY <2>1 DEF Consents!LogIsTail, Consents!trimLog
    <2>6. consent'.log = Consents!trimLog(history')
        BY <1>2, <1>6, <2>4, <2>5, TrimsOnce
    <2> QED BY <2>2, <2>3, <2>6 DEF Consents!RecordIsSaid, Consents!LogIsTail, Consents!trimLog
<1> QED BY <1>3, <1>4, <1>11, <1>12 DEF ConsentInv

\* A step leaves the record what was said, and a check that says yes says it of a grant
\* that is covered.
LEMMA ConsentStep ==
    ASSUME \A c, d \in ConsentCallers : c = d, "omitted" \notin ConsentLevels,
           ConsentTyped, ConsentInv, Consents!Next \/ ConsentUntouched
    PROVE  ConsentInv' /\ Consents!Honouring
<1>1. CASE ConsentUntouched
    <2>1. ConsentInv'
        BY <1>1 DEF ConsentUntouched, ConsentInv, Covered, Consents!RecordIsSaid, Consents!LogIsTail
    <2> QED BY <1>1, <2>1 DEF ConsentUntouched, Consents!Honouring
<1>2. CASE Consents!Tick
    <2>1. UNCHANGED <<consent, cCall, word, reached, history, cFaults, cCalls>>
        BY <1>2 DEF Consents!Tick
    <2>2. ConsentInv'
        BY <2>1 DEF ConsentInv, Covered, Consents!RecordIsSaid, Consents!LogIsTail
    <2> QED BY <2>1, <2>2 DEF Consents!Honouring
<1>3. ASSUME NEW c \in ConsentCallers, NEW op \in Consents!Ops, Consents!Begin(c, op)
      PROVE  ConsentInv' /\ Consents!Honouring
    <2>1. PICK held \in {consent, Consents!defaultConsent} : ConsentBegins(c, op, held)
        BY <1>3, BeginIs
    <2>2. \A d \in ConsentCallers : d = c
        OBVIOUS
    <2>3. UNCHANGED <<cNow, consent, word, reached, history>> /\ cCall'[c].held = held /\ cCall'[c].op = op
        BY <2>1 DEF ConsentBegins, ConsentTyped
    <2>4. held \in ConsentRows /\ Covered(held.grants)
        BY <2>1, DefaultIsRow DEF ConsentInv, Covered, ConsentTyped
    <2>5. ConsentInv'
        <3>1. Covered(consent.grants)' /\ Covered(held.grants)'
            BY <2>3, <2>4 DEF ConsentInv, Covered
        <3>2. ASSUME cFaults' = 0 PROVE cFaults = 0 /\ held = consent
            BY <2>1, <3>2 DEF ConsentBegins, ConsentTyped
        <3>3. ASSUME cFaults' = 0 PROVE Consents!RecordIsSaid' /\ Consents!LogIsTail' /\ held = consent'
            BY <2>3, <3>2, <3>3 DEF ConsentInv, Consents!RecordIsSaid, Consents!LogIsTail
        <3>4. \A d \in ConsentCallers : cCall'[d].held = held
            BY <2>2, <2>3
        <3>5. \A d \in ConsentCallers : Covered(cCall[d].held.grants)'
            BY <3>1, <3>4 DEF Covered
        <3> QED BY <3>1, <3>3, <3>4, <3>5 DEF ConsentInv
    <2>6. Consents!Honouring
        <3> SUFFICES ASSUME answer'.permitted,
                            \E d \in ConsentCallers : cCall'[d].op.kind = "check"
                     PROVE  LET w == word[answer'.domain] IN w.given /\ (w.until # Consents!Never => cNow <= w.until)
            BY DEF Consents!Honouring
        <3>1. op.kind = "check"
            BY <2>2, <2>3
        <3>2. answer'.domain = op.domain /\ Consents!Permitted(held, op.domain)
            BY <2>1, <3>1 DEF ConsentBegins
        <3>3. /\ op.domain \in UserDomains /\ held.grants[op.domain].level # "none"
              /\ ~Consents!Expired(held.grants[op.domain])
            BY <3>2 DEF Consents!Permitted, Consents!Granted
        <3>4. /\ word[op.domain].given
              /\ word[op.domain].until # Consents!Never =>
                    held.grants[op.domain].level = "session" /\ held.grants[op.domain].until = word[op.domain].until
            BY <2>4, <3>3 DEF Covered
        <3>5. word[op.domain].until # Consents!Never => ~(cNow > word[op.domain].until)
            BY <3>3, <3>4 DEF Consents!Expired
        <3>6. cNow \in Int /\ (word[op.domain].until # Consents!Never => word[op.domain].until \in Int)
            BY <3>3, SafetyAssumption DEF ConsentTyped, Consents!Time, Consents!Words, Consents!ConsentAssumption
        <3> QED BY <3>2, <3>4, <3>5, <3>6
    <2> QED BY <2>5, <2>6
<1>4. ASSUME NEW c \in ConsentCallers, Consents!writeConsent(c) PROVE ConsentInv' /\ Consents!Honouring
    <2>1. ConsentInv'
        BY <1>4, ConsentWriteStep
    <2> QED BY <1>4, <2>1 DEF Consents!writeConsent, Consents!Honouring
<1>5. ASSUME NEW c \in ConsentCallers, Consents!WriteFails(c) PROVE ConsentInv' /\ Consents!Honouring
    <2>1. /\ UNCHANGED <<consent, word, reached, history, cCalls>> /\ cFaults' = cFaults + 1
          /\ \A d \in ConsentCallers : cCall'[d] # Consents!Idle => cCall'[d] = cCall[d]
        BY <1>5 DEF Consents!WriteFails, ConsentTyped
    <2>2. cFaults' # 0
        BY <2>1 DEF ConsentTyped
    <2>3. ConsentInv'
        BY <2>1, <2>2 DEF ConsentInv, Covered
    <2> QED BY <2>1, <2>3 DEF Consents!Honouring
<1> QED BY <1>1, <1>2, <1>3, <1>4, <1>5 DEF Consents!Next

\* A yes follows a grant that stands, and the record and the end of its log are what was
\* said (Honoured; mind_consent, writeConsent): for any domains, gates, levels, lengths of
\* sessions and of the log, if no two calls overlap and every grant names its level.
THEOREM ConsentIsHonoured ==
    ASSUME \A c, d \in ConsentCallers : c = d, "omitted" \notin ConsentLevels
    PROVE  AllSpec => Honoured
<1>1. AllInit => ConsentTyped /\ ConsentInv
    BY ConsentInitially DEF AllInit
<1>2. [AllNext]_all => Consents!Next \/ ConsentUntouched
    BY DEF AllNext, all, Allowed, ConsentUntouched
<1>3. ConsentTyped /\ ConsentInv /\ [AllNext]_all => (ConsentTyped /\ ConsentInv)' /\ Consents!Honouring
    BY <1>2, ConsentTypedStep, ConsentStep
<1>4. (ConsentTyped /\ ConsentInv)' => (cFaults' = 0 => (Consents!RecordIsSaid /\ Consents!LogIsTail)')
    BY DEF ConsentInv
<1> QED BY <1>1, <1>3, <1>4, PTL DEF AllSpec, Honoured

-----------------------------------------------------------------------------
(* The watches *)

\* A nonempty set of integers under a bound has a greatest one.
LEMMA BoundedHasMax ==
    ASSUME NEW S \in SUBSET Int, S # {}, NEW b \in Int, \A x \in S : x <= b
    PROVE  Triggered!Max(S) \in S /\ \A x \in S : x <= Triggered!Max(S)
<1> DEFINE below == {n \in Nat : b - n \in S}
<1>1. below \subseteq Nat /\ below # {}
    <2>1. PICK x \in S : TRUE
        OBVIOUS
    <2>2. b - x \in Nat /\ b - (b - x) = x
        OBVIOUS
    <2> QED BY <2>2
<1> HIDE DEF below
<1>2. PICK n \in below : \A m \in below : ~(<<m, n>> \in OpToRel(<, Nat))
    BY <1>1, NatLessThanWellFounded, WFMin, Zenon
<1>3. n \in Nat /\ b - n \in S
    BY <1>2 DEF below
<1>4. ASSUME NEW x \in S PROVE b - n >= x
    <2>1. b - x \in Nat /\ b - (b - x) = x
        OBVIOUS
    <2>2. b - x \in below
        BY <2>1 DEF below
    <2>3. ~(b - x < n)
        <3>1. ~(<<b - x, n>> \in {ss \in Nat \X Nat : ss[1] < ss[2]})
            BY <1>2, <2>2, Zenon DEF OpToRel
        <3> QED BY <1>3, <2>1, <3>1
    <2> QED BY <1>3, <2>3
<1>5. \E x \in S : \A y \in S : x >= y
    BY <1>3, <1>4
<1>6. Triggered!Max(S) \in S /\ \A y \in S : Triggered!Max(S) >= y
    BY <1>5 DEF Triggered!Max
<1> QED BY <1>6

\* A row of a watch.
IsWatch(row) ==
    /\ row = [watch |-> row.watch, signal |-> row.signal, seen |-> row.seen, seenAt |-> row.seenAt, fired |-> row.fired]
    /\ row.watch \in Triggered!Watch /\ row.signal \in Int

LEMMA WatchIsRow == \A row : IsWatch(row) => row # Triggered!NoRow
<1> SUFFICES ASSUME NEW row, IsWatch(row), row = Triggered!NoRow PROVE FALSE
    OBVIOUS
<1>1. "signal" \in DOMAIN row
    BY DEF IsWatch
<1>2. "signal" \notin DOMAIN Triggered!NoRow
    BY DEF Triggered!NoRow
<1> QED BY <1>1, <1>2

\* An hour of the clock.
Hour(at) == Start \in Nat /\ at \in Nat /\ Start <= at

LEMMA ObservedByNow ==
    ASSUME NEW batch \in Batches, NEW at, Hour(at), NEW n \in DOMAIN batch
    PROVE  Triggered!ObservedAt(batch[n], at) \in Nat /\ Triggered!ObservedAt(batch[n], at) <= at
<1>1. batch \in Seq([entity : STRING, state : STRING, age : {Triggered!Omitted} \cup 0..Start]) /\ Start \in Nat
    BY SafetyAssumption DEF Triggered!TriggersAssumption
<1>2. batch[n] \in [entity : STRING, state : STRING, age : {Triggered!Omitted} \cup 0..Start]
    BY <1>1, LenProperties, ElementOfSeq
<1>3. batch[n].age = Triggered!Omitted \/ batch[n].age \in 0..Start
    BY <1>2
<1> QED BY <1>1, <1>3 DEF Triggered!ObservedAt, Hour

\* Events are observed by the time they are given.
LEMMA GivenByNow ==
    ASSUME NEW w, NEW batch \in Batches, NEW at, Hour(at), NEW e \in Triggered!Given(w, batch, at)
    PROVE  e.at \in Nat /\ e.at <= at
<1>1. PICK n \in DOMAIN batch : e = Triggered!Observed(batch[n], at)
    BY DEF Triggered!Given
<1>2. e.at = Triggered!ObservedAt(batch[n], at)
    BY <1>1 DEF Triggered!Observed
<1> QED BY <1>1, <1>2, ObservedByNow

\* The signal is at or after the one before it and every event.
LEMMA SignalIsLatest ==
    ASSUME NEW row, row.signal \in Int, NEW at \in Int,
           NEW events, \A e \in events : e.at \in Int /\ e.at <= at
    PROVE  /\ Triggered!Signal(row, events) \in Int
           /\ row.signal <= Triggered!Signal(row, events)
           /\ \A e \in events : e.at <= Triggered!Signal(row, events)
<1> DEFINE S == {row.signal} \cup {e.at : e \in events}
           b == IF row.signal > at THEN row.signal ELSE at
<1>1. S \in SUBSET Int /\ S # {} /\ b \in Int
    OBVIOUS
<1>2. \A x \in S : x <= b
    <2>1. row.signal <= b /\ at <= b
        OBVIOUS
    <2>2. \A e \in events : e.at <= b
        BY <2>1
    <2> QED BY <2>1, <2>2
<1>3. Triggered!Signal(row, events) = Triggered!Max(S)
    BY DEF Triggered!Signal
<1>4. row.signal \in S /\ \A e \in events : e.at \in S
    OBVIOUS
<1> HIDE DEF S, b
<1>5. Triggered!Max(S) \in S /\ \A x \in S : x <= Triggered!Max(S)
    BY <1>1, <1>2, BoundedHasMax
<1> QED BY <1>1, <1>3, <1>4, <1>5

\* The first place of a set of places.
LEMMA PlacesHaveMin ==
    ASSUME NEW S \in SUBSET Nat, S # {}
    PROVE  Triggered!Min(S) \in S
<1>1. PICK n \in S : \A m \in S : ~(<<m, n>> \in OpToRel(<, Nat))
    BY NatLessThanWellFounded, WFMin, Zenon
<1>2. \A m \in S : n <= m
    <2> SUFFICES ASSUME NEW m \in S, ~(n <= m) PROVE FALSE
        OBVIOUS
    <2>1. ~(<<m, n>> \in {ss \in Nat \X Nat : ss[1] < ss[2]})
        BY <1>1, Zenon DEF OpToRel
    <2> QED BY <2>1
<1> QED BY <1>2 DEF Triggered!Min

\* What the hours make of a row, one after another.
ByHour(seen, row, batch, at, k) ==
    seen = [t \in 0..k |-> IF t = 0 THEN Triggered!Outcome(row, {}) ELSE Triggered!SeeAt(seen[t - 1], batch, at, t - 1)]

\* A check of a presence watch goes through the hours to its own.
LEMMA PresenceByHour ==
    ASSUME NEW row, NEW batch, NEW at \in Nat
    PROVE  \E seen : /\ ByHour(seen, row, batch, at, at + 1)
                     /\ Triggered!PresenceTransition(row, batch, at) = seen[at + 1]
<1> DEFINE missing == {k \in Nat : ~\E seen : ByHour(seen, row, batch, at, k)}
<1>1. missing = {}
    <2> SUFFICES ASSUME missing # {} PROVE FALSE
        OBVIOUS
    <2>1. PICK k \in missing : \A m \in missing : ~(<<m, k>> \in OpToRel(<, Nat))
        BY NatLessThanWellFounded, WFMin, Zenon
    <2>2. k \in Nat /\ ~\E seen : ByHour(seen, row, batch, at, k)
        BY <2>1, Zenon
    <2>3. CASE k = 0
        <3> DEFINE g == [t \in 0..0 |-> Triggered!Outcome(row, {})]
        <3>1. g = [t \in 0..0 |-> IF t = 0 THEN Triggered!Outcome(row, {}) ELSE Triggered!SeeAt(g[t - 1], batch, at, t - 1)]
            OBVIOUS
        <3>2. ByHour(g, row, batch, at, 0)
            BY <3>1 DEF ByHour
        <3> QED BY <2>2, <2>3, <3>2
    <2>4. CASE k # 0
        <3>1. k - 1 \in Nat /\ k - 1 < k
            BY <2>2, <2>4
        <3>2. k - 1 \notin missing
            <4>1. <<k - 1, k>> \in {ss \in Nat \X Nat : ss[1] < ss[2]}
                BY <2>2, <3>1
            <4> HIDE DEF missing
            <4> QED BY <2>1, <4>1, Zenon DEF OpToRel
        <3>3. PICK g : ByHour(g, row, batch, at, k - 1)
            BY <3>1, <3>2
        <3> DEFINE h == [t \in 0..k |-> IF t = k THEN Triggered!SeeAt(g[k - 1], batch, at, k - 1) ELSE g[t]]
        <3>4. ASSUME NEW t \in 0..k
              PROVE  h[t] = IF t = 0 THEN Triggered!Outcome(row, {}) ELSE Triggered!SeeAt(h[t - 1], batch, at, t - 1)
            <4>1. CASE t = k
                <5>1. h[k] = Triggered!SeeAt(g[k - 1], batch, at, k - 1) /\ h[k - 1] = g[k - 1]
                    BY <2>2, <3>1
                <5> HIDE DEF h
                <5> QED BY <2>4, <4>1, <5>1
            <4>2. CASE t # k
                <5>1. t \in 0..(k - 1) /\ h[t] = g[t] /\ (t # 0 => h[t - 1] = g[t - 1])
                    BY <2>2, <4>2
                <5>2. g[t] = IF t = 0 THEN Triggered!Outcome(row, {}) ELSE Triggered!SeeAt(g[t - 1], batch, at, t - 1)
                    BY <3>3, <5>1 DEF ByHour
                <5> HIDE DEF h
                <5> QED BY <5>1, <5>2
            <4> QED BY <4>1, <4>2
        <3>5. h = [t \in 0..k |-> h[t]]
            OBVIOUS
        <3> HIDE DEF h
        <3>6. ByHour(h, row, batch, at, k)
            BY <3>4, <3>5 DEF ByHour
        <3> QED BY <2>2, <3>6
    <2> QED BY <2>3, <2>4
<1>2. \E seen : ByHour(seen, row, batch, at, at + 1)
    <2>1. at + 1 \in Nat
        OBVIOUS
    <2> QED BY <1>1, <2>1
<1> DEFINE before == CHOOSE seen : ByHour(seen, row, batch, at, at + 1)
<1>3. ByHour(before, row, batch, at, at + 1)
    BY <1>2, Zenon
<1>4. Triggered!PresenceTransition(row, batch, at) = before[at + 1]
    BY Zenon DEF Triggered!PresenceTransition, ByHour
<1> QED BY <1>3, <1>4, Zenon

\* A change of presence that was given: an event, and an earlier one of the state left.
Changed(w, n, given) ==
    \E e, f \in given : f.at = n.at /\ f.state = w.to /\ e.at < f.at /\ e.state = w.from

\* The record of a presence watch: what it saw last was given; what it reported was given,
\* is not later than its last firing and is a cooldown apart.
PresenceKept(row, reports, given) ==
    /\ row.seenAt \in Int /\ row.fired \in Int /\ row.fired <= row.seenAt
    /\ \/ row.seenAt = Triggered!Unknown /\ row.seen = "none"
       \/ 0 <= row.seenAt /\ \E e \in given : e.at = row.seenAt /\ e.state = row.seen
    /\ \A n \in reports : n.at \in Int /\ 0 < n.at /\ n.at <= row.fired /\ Changed(row.watch, n, given)
    /\ \A n, m \in reports : n.at < m.at => m.at - n.at >= row.watch.cooldown

\* What events make of a row and what it reports: a row of the same watch, its record kept.
Follows(out, row, fires, reports, given) ==
    /\ out = Triggered!Outcome(out.row, out.fires) /\ IsWatch(out.row) /\ out.row.watch = row.watch
    /\ PresenceKept(row, reports \cup fires, given) => PresenceKept(out.row, reports \cup out.fires, given)

LEMMA SeeKeeps ==
    ASSUME NEW row, IsWatch(row), NEW fires, NEW reports, NEW given, NEW e \in given, e.at \in Nat
    PROVE  Follows(Triggered!See(Triggered!Outcome(row, fires), e), row, fires, reports, given)
<1> DEFINE out == Triggered!See(Triggered!Outcome(row, fires), e)
<1>0. PICK o : o = out
    OBVIOUS
<1>1. CASE row.seenAt # Triggered!Unknown /\ e.at <= row.seenAt
    <2>1. o = Triggered!Outcome(row, fires)
        BY <1>0, <1>1 DEF Triggered!See, Triggered!Outcome
    <2>2. o.row = row /\ o.fires = fires
        BY <2>1 DEF Triggered!Outcome
    <2> HIDE DEF out
    <2>3. o = Triggered!Outcome(o.row, o.fires)
        BY <2>1, <2>2
    <2> QED BY <1>0, <2>2, <2>3 DEF out, Follows
<1>2. CASE ~(row.seenAt # Triggered!Unknown /\ e.at <= row.seenAt)
    <2>0. PICK fired \in BOOLEAN : fired <=> Triggered!Transition(row, e) /\ ~Triggered!withinCooldown(row, e)
        OBVIOUS
    <2>1. o = Triggered!Outcome([row EXCEPT !.seen = e.state, !.seenAt = e.at, !.fired = IF fired THEN e.at ELSE row.fired],
                                fires \cup IF fired THEN {[at |-> e.at, about |-> e.at]} ELSE {})
        BY <1>0, <1>2, <2>0 DEF Triggered!See, Triggered!Outcome
    <2>2. /\ o.row = [row EXCEPT !.seen = e.state, !.seenAt = e.at, !.fired = IF fired THEN e.at ELSE row.fired]
          /\ o.fires = fires \cup IF fired THEN {[at |-> e.at, about |-> e.at]} ELSE {}
        BY <2>1 DEF Triggered!Outcome
    <2>3. o = Triggered!Outcome(o.row, o.fires)
        BY <2>1, <2>2
    <2> HIDE DEF out
    <2>4. o.row = [watch |-> row.watch, signal |-> row.signal, seen |-> e.state, seenAt |-> e.at,
                   fired |-> IF fired THEN e.at ELSE row.fired]
        BY <2>2 DEF IsWatch
    <2>5. /\ IsWatch(o.row) /\ o.row.watch = row.watch /\ o.row.seen = e.state /\ o.row.seenAt = e.at
          /\ o.row.fired = IF fired THEN e.at ELSE row.fired
        BY <2>4 DEF IsWatch
    <2>6. ASSUME PresenceKept(row, reports \cup fires, given)
          PROVE  PresenceKept(o.row, reports \cup o.fires, given)
        <3>1. /\ row.seenAt \in Int /\ row.fired \in Int /\ row.fired <= row.seenAt
              /\ \A n \in reports \cup fires : n.at \in Int /\ 0 < n.at /\ n.at <= row.fired /\ Changed(row.watch, n, given)
              /\ \A n, m \in reports \cup fires : n.at < m.at => m.at - n.at >= row.watch.cooldown
            BY <2>6 DEF PresenceKept
        <3>2. row.seenAt < e.at
            BY <1>2, <2>6, <3>1 DEF Triggered!Unknown
        <3>3. row.watch.cooldown \in Nat /\ row.watch.from # "none"
            BY DEF IsWatch, Triggered!Watch
        <3>4. CASE ~fired
            <4>1. o.fires = fires /\ o.row.fired = row.fired
                BY <2>2, <2>5, <3>4
            <4> QED BY <2>5, <2>6, <3>1, <3>2, <4>1 DEF PresenceKept
        <3>5. CASE fired
            <4>0. PICK new : new = [at |-> e.at, about |-> e.at]
                OBVIOUS
            <4>1. /\ o.fires = fires \cup {new} /\ o.row.fired = e.at /\ new.at = e.at
                  /\ row.seen = row.watch.from /\ e.state = row.watch.to
                BY <2>0, <2>2, <2>5, <3>5, <4>0 DEF Triggered!Transition
            <4>2. ~(row.watch.cooldown > 0 /\ row.fired > 0 /\ e.at - row.fired < row.watch.cooldown)
                BY <2>0, <3>5 DEF Triggered!withinCooldown
            <4>3. 0 <= row.seenAt /\ \E b \in given : b.at = row.seenAt /\ b.state = row.seen
                BY <2>6, <3>3, <4>1 DEF PresenceKept
            <4>4. PICK b \in given : b.at = row.seenAt /\ b.state = row.seen
                BY <4>3
            <4>5. Changed(row.watch, new, given)
                BY <2>6, <3>2, <4>1, <4>4 DEF Changed
            <4>6. \A n \in reports \cup o.fires : n.at \in Int /\ 0 < n.at /\ n.at <= e.at /\ Changed(row.watch, n, given)
                BY <2>6, <3>1, <3>2, <4>1, <4>3, <4>5
            <4>7. ASSUME NEW n \in reports \cup o.fires, NEW m \in reports \cup o.fires, n.at < m.at
                  PROVE  m.at - n.at >= row.watch.cooldown
                <5>1. CASE m = new
                    <6>1. n # new /\ n \in reports \cup fires
                        BY <2>6, <4>1, <4>7, <5>1
                    <6>2. n.at \in Int /\ 0 < n.at /\ n.at <= row.fired
                        BY <3>1, <6>1
                    <6> QED BY <2>6, <3>1, <3>3, <4>1, <4>2, <4>7, <5>1, <6>2
                <5>2. CASE m # new
                    <6>1. m \in reports \cup fires /\ m.at \in Int /\ m.at <= row.fired
                        BY <3>1, <4>1, <5>2
                    <6>2. n \in reports \cup fires
                        BY <2>6, <3>1, <3>2, <4>1, <4>7, <6>1
                    <6> QED BY <3>1, <4>7, <6>1, <6>2
                <5> QED BY <5>1, <5>2
            <4> QED BY <2>5, <2>6, <4>1, <4>6, <4>7 DEF PresenceKept
        <3> QED BY <3>4, <3>5
    <2> QED BY <1>0, <2>3, <2>5, <2>6 DEF out, Follows
<1> QED BY <1>1, <1>2

LEMMA SeeAtKeeps ==
    ASSUME NEW row, IsWatch(row), NEW fires, NEW reports, NEW given, NEW batch \in Batches, NEW at, Hour(at), NEW t,
           Triggered!Given(row.watch, batch, at) \subseteq given
    PROVE  Follows(Triggered!SeeAt(Triggered!Outcome(row, fires), batch, at, t), row, fires, reports, given)
<1> DEFINE out == Triggered!SeeAt(Triggered!Outcome(row, fires), batch, at, t)
           places == Triggered!Matching(row.watch, batch, Triggered!parsePresenceEvents(batch, at, t))
           e == Triggered!Observed(batch[Triggered!Min(places)], at)
<1>1. Triggered!Outcome(row, fires).row = row /\ Triggered!Outcome(row, fires).fires = fires
    BY DEF Triggered!Outcome
<1>2. out = IF places = {} THEN Triggered!Outcome(row, fires) ELSE Triggered!See(Triggered!Outcome(row, fires), e)
    BY <1>1 DEF Triggered!SeeAt
<1>3. CASE places = {}
    <2>1. out = Triggered!Outcome(row, fires)
        BY <1>2, <1>3
    <2> HIDE DEF out
    <2> QED BY <1>1, <2>1 DEF out, Follows
<1>4. CASE places # {}
    <2>1. \A n \in places : n \in DOMAIN batch /\ Triggered!entitiesMatch(row.watch, batch[n])
        BY DEF Triggered!Matching, Triggered!parsePresenceEvents
    <2>2. DOMAIN batch \subseteq Nat
        <3>1. batch \in Seq([entity : STRING, state : STRING, age : {Triggered!Omitted} \cup 0..Start])
            BY SafetyAssumption DEF Triggered!TriggersAssumption
        <3> QED BY <3>1, LenProperties
    <2> HIDE DEF places
    <2>3. Triggered!Min(places) \in places
        BY <1>4, <2>1, <2>2, PlacesHaveMin
    <2>4. PICK n \in DOMAIN batch : e = Triggered!Observed(batch[n], at) /\ Triggered!entitiesMatch(row.watch, batch[n])
        BY <2>1, <2>3
    <2>5. Triggered!entitiesMatch(row.watch, e)
        BY <2>4 DEF Triggered!entitiesMatch, Triggered!Observed
    <2>6. e \in Triggered!Given(row.watch, batch, at)
        BY <2>4, <2>5 DEF Triggered!Given
    <2>7. e.at \in Nat
        BY <2>6, GivenByNow
    <2>8. out = Triggered!See(Triggered!Outcome(row, fires), e)
        BY <1>2, <1>4
    <2> HIDE DEF e, out
    <2> QED BY <2>6, <2>7, <2>8, SeeKeeps DEF out
<1> QED BY <1>3, <1>4

\* What a batch makes of the row of a presence watch.
LEMMA PresenceKeeps ==
    ASSUME NEW row, IsWatch(row), NEW reports, NEW given, NEW batch \in Batches, NEW at, Hour(at),
           Triggered!Given(row.watch, batch, at) \subseteq given
    PROVE  Follows(Triggered!PresenceTransition(row, batch, at), row, {}, reports, given)
<1> DEFINE Good(out) == Follows(out, row, {}, reports, given)
<1>1. at \in Nat
    BY DEF Hour
<1>2. PICK seen : /\ ByHour(seen, row, batch, at, at + 1)
                  /\ Triggered!PresenceTransition(row, batch, at) = seen[at + 1]
    BY <1>1, PresenceByHour
<1> DEFINE bad == {t \in Nat : t <= at + 1 /\ ~Good(seen[t])}
<1>3. bad = {}
    <2> SUFFICES ASSUME bad # {} PROVE FALSE
        OBVIOUS
    <2>1. PICK t \in bad : \A m \in bad : ~(<<m, t>> \in OpToRel(<, Nat))
        BY NatLessThanWellFounded, WFMin, Zenon
    <2>2. t \in Nat /\ t <= at + 1 /\ ~Good(seen[t])
        BY <2>1, Zenon
    <2> HIDE DEF Good
    <2>3. t \in 0..(at + 1)
        BY <1>1, <2>2
    <2>4. seen[t] = IF t = 0 THEN Triggered!Outcome(row, {}) ELSE Triggered!SeeAt(seen[t - 1], batch, at, t - 1)
        BY <1>2, <2>3 DEF ByHour
    <2>5. CASE t = 0
        <3>1. seen[t] = Triggered!Outcome(row, {})
            BY <2>4, <2>5
        <3>2. seen[t].row = row /\ seen[t].fires = {}
            BY <3>1 DEF Triggered!Outcome
        <3>3. Good(seen[t])
            BY <3>1, <3>2 DEF Good, Follows
        <3> QED BY <2>2, <3>3
    <2>6. CASE t # 0
        <3>1. t - 1 \in Nat /\ t - 1 < t /\ t - 1 <= at + 1
            BY <1>1, <2>2, <2>6
        <3>2. t - 1 \notin bad
            <4>1. <<t - 1, t>> \in {ss \in Nat \X Nat : ss[1] < ss[2]}
                BY <2>2, <3>1
            <4> HIDE DEF bad
            <4> QED BY <2>1, <4>1, Zenon DEF OpToRel
        <3>3. Good(seen[t - 1])
            BY <3>1, <3>2
        <3>4. PICK o : o = seen[t - 1]
            OBVIOUS
        <3>5. o = Triggered!Outcome(o.row, o.fires) /\ IsWatch(o.row) /\ o.row.watch = row.watch
            BY <3>3, <3>4 DEF Good, Follows
        <3>6. seen[t] = Triggered!SeeAt(Triggered!Outcome(o.row, o.fires), batch, at, t - 1)
            BY <2>4, <2>6, <3>4, <3>5
        <3>7. Follows(seen[t], o.row, o.fires, reports, given)
            BY <3>5, <3>6, SeeAtKeeps
        <3>8. Good(seen[t])
            BY <3>3, <3>4, <3>7 DEF Good, Follows
        <3> QED BY <2>2, <3>8
    <2> QED BY <2>5, <2>6
<1>4. Good(seen[at + 1])
    <2>1. at + 1 \in Nat /\ at + 1 <= at + 1
        BY <1>1
    <2> HIDE DEF Good
    <2> QED BY <1>3, <2>1
<1> QED BY <1>2, <1>4

\* What a check makes of a row.
LEMMA CheckedRow ==
    ASSUME NEW row, IsWatch(row), NEW batch \in Batches, NEW at, Hour(at)
    PROVE  LET out == Triggered!Checked(row, batch, at)
           IN /\ IsWatch(out.row) /\ out.row.watch = row.watch
              /\ row.watch.kind = "no_contact" =>
                   /\ row.signal <= out.row.signal
                   /\ \A e \in Triggered!Given(row.watch, batch, at) : e.at <= out.row.signal
                   /\ out.fires # {} => at - out.row.signal >= row.watch.silence
              /\ row.watch.kind = "time_window" =>
                   (out.fires # {} <=> Triggered!InWindow(row.watch.start, row.watch.finish, at % Day))
<1> DEFINE out == Triggered!Checked(row, batch, at)
<1>1. row # Triggered!NoRow
    BY WatchIsRow
<1>2. row.watch.kind \in {"no_contact", "presence_transition", "time_window"}
    BY DEF IsWatch, Triggered!Watch
<1>3. CASE row.watch.kind = "no_contact"
    <2> DEFINE given == Triggered!Given(row.watch, batch, at)   signal == Triggered!Signal(row, given)
               fires == /\ signal # Triggered!Unknown /\ at - signal >= row.watch.silence
                        /\ ~Triggered!alreadyFired(row, signal)
    <2>1. out = Triggered!NoContact(row, given, at)
        BY <1>1, <1>3 DEF Triggered!Checked
    <2>2. /\ out.row = [row EXCEPT !.signal = signal, !.fired = IF fires THEN at ELSE @]
          /\ out.fires = IF fires THEN {[at |-> at, about |-> signal]} ELSE {}
        BY <2>1 DEF Triggered!NoContact, Triggered!Outcome
    <2>3. signal \in Int /\ row.signal <= signal /\ \A e \in given : e.at <= signal
        BY GivenByNow, SignalIsLatest DEF IsWatch, Hour
    <2> HIDE DEF given, signal, fires, out
    <2>4. out.row = [watch |-> row.watch, signal |-> signal, seen |-> row.seen, seenAt |-> row.seenAt,
                     fired |-> IF fires THEN at ELSE row.fired]
        BY <2>2 DEF IsWatch
    <2>5. IsWatch(out.row) /\ out.row.watch = row.watch /\ out.row.signal = signal
        BY <2>3, <2>4 DEF IsWatch
    <2>6. out.fires # {} => at - signal >= row.watch.silence
        BY <2>2 DEF fires
    <2> QED BY <1>3, <2>3, <2>5, <2>6 DEF given, out
<1>4. CASE row.watch.kind = "presence_transition"
    <2>1. out = Triggered!PresenceTransition(row, batch, at)
        BY <1>1, <1>4 DEF Triggered!Checked
    <2> HIDE DEF out
    <2>2. Follows(out, row, {}, {}, Triggered!Given(row.watch, batch, at))
        BY <2>1, PresenceKeeps
    <2>3. IsWatch(out.row) /\ out.row.watch = row.watch
        BY <2>2 DEF Follows
    <2> QED BY <1>4, <2>3 DEF out
<1>5. CASE row.watch.kind = "time_window"
    <2>1. out = Triggered!TimeWindow(row, at)
        BY <1>1, <1>5 DEF Triggered!Checked
    <2> DEFINE inWindow == Triggered!InWindow(row.watch.start, row.watch.finish, at % Day)
    <2>2. out.row = row /\ out.fires = IF inWindow THEN {[at |-> at, about |-> at]} ELSE {}
        BY <2>1 DEF Triggered!TimeWindow, Triggered!Outcome
    <2> HIDE DEF inWindow
    <2>3. inWindow \in BOOLEAN
        BY DEF inWindow, Triggered!InWindow
    <2>4. out.fires # {} <=> inWindow
        BY <2>2, <2>3
    <2> QED BY <1>5, <2>2, <2>4 DEF inWindow
<1> QED BY <1>2, <1>3, <1>4, <1>5

Watched == Triggered!Watched

\* A watch has heard nothing after its signal.
HeardBySignal(i) ==
    triggers[i] # Triggered!NoRow /\ triggers[i].watch.kind = "no_contact" =>
        \A e \in heard[i] : e.at \in Int /\ e.at <= triggers[i].signal

\* What a call that sets a watch holds: the rows it read and its own.
SetHolds(k) ==
    /\ k.id \in Watched /\ k.id <= made /\ triggers[k.id] = Triggered!NoRow /\ heard[k.id] = {}
    /\ k.watch \in Watches
    /\ k.rows = [i \in Watched |-> k.rows[i]] /\ k.rows[k.id] = Triggered!New(Triggered!Sanitized(k.watch))
    /\ \A i \in Watched \ {k.id} :
         /\ k.rows[i] \in {Triggered!NoRow, triggers[i]}
         /\ tFaults = 0 => k.rows[i] = triggers[i]

\* What a check holds: of every row it read what it made of it.
CheckHolds(k) ==
    /\ k.batch \in Batches /\ Hour(k.at)
    /\ k.rows = [i \in Watched |-> k.rows[i]]
    /\ \A i \in Watched :
         LET out == Triggered!Checked(triggers[i], k.batch, k.at)
         IN \/ k.rows[i] = out.row /\ k.fires[i] = out.fires
            \/ k.rows[i] = Triggered!NoRow /\ k.fires[i] = {} /\ tFaults # 0

\* A watch its caller was told is set is there as asked for.
AskedIsSet(a) ==
    /\ a.id \in Watched /\ a.watch \in Watches
    /\ triggers[a.id] # Triggered!NoRow /\ triggers[a.id].watch = Triggered!Sanitized(a.watch)

WatchInv ==
    /\ Hour(tNow) /\ made \in Nat /\ tFaults \in Nat
    /\ triggers = [i \in Watched |-> triggers[i]]
    /\ \A i \in Watched : triggers[i] # Triggered!NoRow => IsWatch(triggers[i]) /\ i <= made
    /\ \A i \in Watched : HeardBySignal(i) /\ (i > made => heard[i] = {})
    /\ tCall = [c \in TriggerCallers |-> tCall[c]]
    /\ \A c \in TriggerCallers : tCall[c] # Triggered!Idle =>
         \/ tCall[c].kind = "set" /\ SetHolds(tCall[c])
         \/ tCall[c].kind = "check" /\ CheckHolds(tCall[c])
    /\ tFaults = 0 => \A a \in asked : AskedIsSet(a)

WatchesUntouched == UNCHANGED <<tNow, triggers, tCall, asked, heard, noticed, last, made, checks, tFaults>>

LEMMA WatchInitially == Triggered!Init => WatchInv
<1> SUFFICES ASSUME Triggered!Init PROVE WatchInv
    OBVIOUS
<1>1. /\ tNow = Start /\ triggers = [i \in Watched |-> Triggered!NoRow] /\ tCall = [c \in TriggerCallers |-> Triggered!Idle]
      /\ asked = {} /\ heard = [i \in Watched |-> {}] /\ made = 0 /\ tFaults = 0
    BY DEF Triggered!Init, Watched
<1>2. Start \in Nat
    BY SafetyAssumption DEF Triggered!TriggersAssumption
<1> QED BY <1>1, <1>2 DEF WatchInv, HeardBySignal, Hour

\* Setting a watch makes a row of it, its fields those asked for but for the end of a window.
LEMMA NewIsWatch ==
    ASSUME NEW w \in Watches
    PROVE  /\ IsWatch(Triggered!New(Triggered!Sanitized(w)))
           /\ Triggered!New(Triggered!Sanitized(w)).watch = Triggered!Sanitized(w)
           /\ Triggered!Sanitized(w).kind = w.kind /\ Triggered!Sanitized(w).start = w.start
           /\ w.finish # 0 => Triggered!Sanitized(w).finish = w.finish
<1>1. w \in Triggered!Watch /\ Day \in Nat \ {0}
    BY SafetyAssumption DEF Triggered!TriggersAssumption
<1>2. Triggered!EndHour(w.finish) \in 0..(Day - 1)
    BY <1>1 DEF Triggered!EndHour, Triggered!Watch, Triggered!Hours
<1>3. Triggered!Sanitized(w) \in Triggered!Watch
    BY <1>1, <1>2 DEF Triggered!Sanitized, Triggered!Watch, Triggered!Hours
<1>4. /\ Triggered!Sanitized(w).kind = w.kind /\ Triggered!Sanitized(w).start = w.start
      /\ w.finish # 0 => Triggered!Sanitized(w).finish = w.finish
    BY <1>1 DEF Triggered!Sanitized, Triggered!Watch, Triggered!EndHour
<1>5. Triggered!Sanitized(w).signal \in Int
    BY <1>3 DEF Triggered!Watch, Triggered!Unknown
<1> QED BY <1>3, <1>4, <1>5 DEF IsWatch, Triggered!New

\* A read finds the rows or, failing, none.
LEMMA ReadFinds ==
    ASSUME WatchInv, NEW held, Triggered!readTriggers(held)
    PROVE  /\ held = [i \in Watched |-> held[i]]
           /\ tFaults' \in Nat /\ (tFaults' = 0 => tFaults = 0 /\ held = triggers)
           /\ held = triggers \/ (tFaults' # 0 /\ \A i \in Watched : held[i] = Triggered!NoRow)
<1>1. CASE held = triggers /\ tFaults' = tFaults
    BY <1>1 DEF WatchInv
<1>2. CASE held = [i \in Watched |-> Triggered!NoRow] /\ tFaults' = tFaults + 1
    BY <1>2 DEF WatchInv
<1> QED BY <1>1, <1>2 DEF Triggered!readTriggers, Watched

LEMMA WatchSetStep ==
    ASSUME \A c, d \in TriggerCallers : c = d, WatchInv,
           NEW c \in TriggerCallers, NEW w \in Watches, Triggered!Set(c, w)
    PROVE  WatchInv'
<1>1. PICK held \in {triggers, [i \in Watched |-> Triggered!NoRow]} :
        /\ tCall[c] = Triggered!Idle /\ made < MaxTriggers /\ made' = made + 1
        /\ Triggered!readTriggers(held)
        /\ tCall' = [tCall EXCEPT ![c] = [busy |-> TRUE, kind |-> "set", id |-> made + 1,
                                         rows |-> Triggered!Pushed(held, made + 1, w), watch |-> w, at |-> tNow]]
        /\ UNCHANGED <<tNow, triggers, asked, heard>>
    BY DEF Triggered!Set, Watched
<1>0. PICK k : k = [busy |-> TRUE, kind |-> "set", id |-> made + 1,
                    rows |-> Triggered!Pushed(held, made + 1, w), watch |-> w, at |-> tNow]
    OBVIOUS
<1>2. /\ held = [i \in Watched |-> held[i]]
      /\ tFaults' \in Nat /\ (tFaults' = 0 => tFaults = 0 /\ held = triggers)
      /\ held = triggers \/ \A i \in Watched : held[i] = Triggered!NoRow
    BY <1>1, ReadFinds
<1>3. /\ made \in Nat /\ made + 1 \in Watched /\ made' = made + 1
      /\ triggers[made + 1] = Triggered!NoRow /\ heard[made + 1] = {}
    <2>1. MaxTriggers \in Nat
        BY SafetyAssumption DEF Triggered!TriggersAssumption
    <2>2. made \in Nat /\ made + 1 \in Watched
        BY <1>1, <2>1 DEF WatchInv, Watched, Triggered!Watched
    <2> QED BY <1>1, <2>2 DEF WatchInv
<1>4. /\ k.rows = [held EXCEPT ![made + 1] = Triggered!New(Triggered!Sanitized(w))]
      /\ k.kind = "set" /\ k.id = made + 1 /\ k.watch = w
    BY <1>0 DEF Triggered!Pushed
<1>5. /\ k.rows = [i \in Watched |-> k.rows[i]] /\ k.rows[made + 1] = Triggered!New(Triggered!Sanitized(w))
      /\ \A i \in Watched \ {made + 1} : k.rows[i] = held[i]
    BY <1>2, <1>3, <1>4
<1>6. tCall' = [d \in TriggerCallers |-> IF d = c THEN k ELSE tCall[d]]
    BY <1>0, <1>1 DEF WatchInv
<1>7. SetHolds(k)'
    <2>1. \A i \in Watched \ {k.id} : k.rows[i] \in {Triggered!NoRow, triggers[i]} /\ (tFaults' = 0 => k.rows[i] = triggers[i])
        BY <1>2, <1>4, <1>5
    <2> QED BY <1>1, <1>3, <1>4, <1>5, <2>1 DEF SetHolds, Watched
<1>8. tCall'[c] = k /\ \A d \in TriggerCallers : d = c
    BY <1>6
<1>9. \A i \in Watched : i \in Int
    BY DEF Watched, Triggered!Watched
<1>10. tFaults' = 0 => \A a \in asked' : AskedIsSet(a)'
    BY <1>1, <1>2 DEF WatchInv, AskedIsSet
<1>11. Hour(tNow)' /\ made' \in Nat
    BY <1>1, <1>3 DEF WatchInv, Hour
<1>12. triggers' = [i \in Watched |-> triggers'[i]]
    BY <1>1 DEF WatchInv
<1>13. tCall' = [d \in TriggerCallers |-> tCall'[d]]
    BY <1>6
<1>14. \A d \in TriggerCallers : tCall'[d].kind = "set" /\ SetHolds(tCall[d])'
    BY <1>4, <1>7, <1>8
<1>15. tFaults' \in Nat
    BY <1>2
<1>16. \A i \in Watched : triggers'[i] # Triggered!NoRow => IsWatch(triggers'[i]) /\ i <= made'
    BY <1>1, <1>3, <1>9 DEF WatchInv
<1>17. \A i \in Watched : HeardBySignal(i)'
    BY <1>1 DEF WatchInv, HeardBySignal
<1>18. \A i \in Watched : i > made' => heard'[i] = {}
    BY <1>1, <1>3, <1>9 DEF WatchInv
<1> QED BY <1>10, <1>11, <1>12, <1>13, <1>14, <1>15, <1>16, <1>17, <1>18 DEF WatchInv

LEMMA WatchCheckStep ==
    ASSUME \A c, d \in TriggerCallers : c = d, WatchInv,
           NEW c \in TriggerCallers, NEW batch \in Batches, Triggered!Check(c, batch)
    PROVE  WatchInv'
<1>1. PICK held \in {triggers, [i \in Watched |-> Triggered!NoRow]} :
        /\ Triggered!readTriggers(held)
        /\ LET out == [i \in Watched |-> Triggered!Checked(held[i], batch, tNow)]
           IN tCall' = [tCall EXCEPT ![c] =
                [busy |-> TRUE, kind |-> "check", batch |-> batch, at |-> tNow,
                 rows |-> [i \in Watched |-> out[i].row], fires |-> [i \in Watched |-> out[i].fires]]]
        /\ UNCHANGED <<tNow, triggers, asked, heard, made>>
    BY DEF Triggered!Check, Watched
<1> DEFINE out == [i \in Watched |-> Triggered!Checked(held[i], batch, tNow)]
<1>0. PICK k : k = [busy |-> TRUE, kind |-> "check", batch |-> batch, at |-> tNow,
                    rows |-> [i \in Watched |-> out[i].row], fires |-> [i \in Watched |-> out[i].fires]]
    OBVIOUS
<1>2. /\ tFaults' \in Nat /\ (tFaults' = 0 => tFaults = 0)
      /\ held = triggers \/ (tFaults' # 0 /\ \A i \in Watched : held[i] = Triggered!NoRow)
    BY <1>1, ReadFinds
<1>3. k.kind = "check" /\ k.batch = batch /\ k.at = tNow /\ k.rows = [i \in Watched |-> k.rows[i]]
    BY <1>0
<1>4. ASSUME NEW i \in Watched
      PROVE  \/ k.rows[i] = Triggered!Checked(triggers[i], batch, tNow).row /\ k.fires[i] = Triggered!Checked(triggers[i], batch, tNow).fires
             \/ k.rows[i] = Triggered!NoRow /\ k.fires[i] = {} /\ tFaults' # 0
    <2>1. k.rows[i] = Triggered!Checked(held[i], batch, tNow).row /\ k.fires[i] = Triggered!Checked(held[i], batch, tNow).fires
        BY <1>0
    <2>2. CASE held = triggers
        BY <2>1, <2>2
    <2>3. CASE tFaults' # 0 /\ held[i] = Triggered!NoRow
        <3>1. Triggered!Checked(held[i], batch, tNow) = [row |-> held[i], fires |-> {}]
            BY <2>3 DEF Triggered!Checked, Triggered!Outcome
        <3> QED BY <2>1, <2>3, <3>1
    <2> QED BY <1>2, <2>2, <2>3
<1>5. tCall' = [d \in TriggerCallers |-> IF d = c THEN k ELSE tCall[d]]
    BY <1>0, <1>1 DEF WatchInv
<1> HIDE DEF out
<1>6. CheckHolds(k)'
    BY <1>1, <1>3, <1>4 DEF CheckHolds, WatchInv, Watched
<1>7. tCall'[c] = k /\ \A d \in TriggerCallers : d = c
    BY <1>5
<1>8. \A i \in Watched : HeardBySignal(i)'
    BY <1>1 DEF WatchInv, HeardBySignal
<1>9. tFaults' = 0 => \A a \in asked' : AskedIsSet(a)'
    BY <1>1, <1>2 DEF WatchInv, AskedIsSet
<1>10. \A i \in Watched : triggers'[i] # Triggered!NoRow => IsWatch(triggers'[i]) /\ i <= made'
    BY <1>1 DEF WatchInv
<1>11. \A i \in Watched : i > made' => heard'[i] = {}
    BY <1>1 DEF WatchInv
<1>12. triggers' = [i \in Watched |-> triggers'[i]]
    BY <1>1 DEF WatchInv
<1>13. tCall' = [d \in TriggerCallers |-> tCall'[d]]
    BY <1>5
<1>14. Hour(tNow)' /\ made' \in Nat
    BY <1>1 DEF WatchInv, Hour
<1> QED BY <1>2, <1>3, <1>6, <1>7, <1>8, <1>9, <1>10, <1>11, <1>12, <1>13, <1>14 DEF WatchInv, Watched

\* The row of a watch after a check, and what it has heard.
LEMMA CheckedHears ==
    ASSUME WatchInv, NEW k, CheckHolds(k), NEW i \in Watched,
           k.rows[i] # Triggered!NoRow
    PROVE  /\ triggers[i] # Triggered!NoRow /\ IsWatch(k.rows[i]) /\ k.rows[i].watch = triggers[i].watch
           /\ triggers[i].watch.kind = "no_contact" =>
                \A e \in heard[i] \cup Triggered!Given(triggers[i].watch, k.batch, k.at) :
                    e.at \in Int /\ e.at <= k.rows[i].signal
<1> DEFINE out == Triggered!Checked(triggers[i], k.batch, k.at)
<1>1. k.rows[i] = out.row /\ k.batch \in Batches /\ Hour(k.at)
    BY DEF CheckHolds
<1>2. triggers[i] # Triggered!NoRow
    <2>1. ASSUME triggers[i] = Triggered!NoRow PROVE FALSE
        <3>1. out = [row |-> triggers[i], fires |-> {}]
            BY <2>1 DEF Triggered!Checked, Triggered!Outcome
        <3> QED BY <1>1, <2>1, <3>1
    <2> QED BY <2>1
<1>3. IsWatch(triggers[i])
    BY <1>2 DEF WatchInv
<1>4. /\ IsWatch(out.row) /\ out.row.watch = triggers[i].watch
      /\ triggers[i].watch.kind = "no_contact" =>
           /\ triggers[i].signal <= out.row.signal
           /\ \A e \in Triggered!Given(triggers[i].watch, k.batch, k.at) : e.at <= out.row.signal
    BY <1>1, <1>3, CheckedRow
<1> HIDE DEF out
<1>5. CASE triggers[i].watch.kind = "no_contact"
    <2>1. \A e \in heard[i] : e.at \in Int /\ e.at <= triggers[i].signal
        BY <1>2, <1>5 DEF WatchInv, HeardBySignal
    <2>2. \A e \in Triggered!Given(triggers[i].watch, k.batch, k.at) : e.at \in Int
        BY <1>1, GivenByNow
    <2>3. triggers[i].signal \in Int /\ out.row.signal \in Int
        BY <1>3, <1>4 DEF IsWatch
    <2> QED BY <1>1, <1>2, <1>4, <1>5, <2>1, <2>2, <2>3
<1> QED BY <1>1, <1>2, <1>4, <1>5

LEMMA WatchWriteStep ==
    ASSUME \A c, d \in TriggerCallers : c = d, WatchInv,
           NEW c \in TriggerCallers, Triggered!writeTriggers(c)
    PROVE  WatchInv'
<1>0. PICK k : k = tCall[c]
    OBVIOUS
<1>1. /\ k # Triggered!Idle /\ tCall' = [tCall EXCEPT ![c] = Triggered!Idle]
      /\ triggers' = k.rows /\ UNCHANGED <<tNow, made, tFaults>>
      /\ \/ /\ k.kind = "set" /\ asked' = asked \cup {[id |-> k.id, watch |-> k.watch, at |-> k.at]}
            /\ heard' = heard
         \/ k.kind = "check" /\ Triggered!Report(k) /\ asked' = asked
    BY <1>0 DEF Triggered!writeTriggers
<1>2. \A d \in TriggerCallers : tCall'[d] = Triggered!Idle
    BY <1>1 DEF WatchInv
<1>3. (k.kind = "set" /\ SetHolds(k)) \/ (k.kind = "check" /\ CheckHolds(k))
    BY <1>0, <1>1 DEF WatchInv
<1>4. triggers' = [i \in Watched |-> triggers'[i]] /\ tCall' = [d \in TriggerCallers |-> tCall'[d]]
    <2>1. k.rows = [i \in Watched |-> k.rows[i]]
        BY <1>3 DEF SetHolds, CheckHolds
    <2>2. tCall = [d \in TriggerCallers |-> tCall[d]]
        BY DEF WatchInv
    <2> QED BY <1>1, <2>1, <2>2
<1>5. Hour(tNow)' /\ made' \in Nat /\ tFaults' \in Nat
    BY <1>1 DEF WatchInv, Hour
<1> DEFINE Sound == \A i \in Watched : /\ triggers'[i] # Triggered!NoRow => IsWatch(triggers'[i]) /\ i <= made'
                                       /\ HeardBySignal(i)' /\ (i > made' => heard'[i] = {})
           Told == tFaults' = 0 => \A a \in asked' : AskedIsSet(a)'
<1>6. ASSUME k.kind = "set" PROVE Sound /\ Told
    <2>1. SetHolds(k)
        BY <1>3, <1>6
    <2>2. asked' = asked \cup {[id |-> k.id, watch |-> k.watch, at |-> k.at]} /\ heard' = heard
        BY <1>1, <1>6
    <2>3. /\ k.id \in Watched /\ k.id <= made /\ triggers[k.id] = Triggered!NoRow /\ heard[k.id] = {}
          /\ k.watch \in Watches /\ k.rows[k.id] = Triggered!New(Triggered!Sanitized(k.watch))
          /\ IsWatch(k.rows[k.id]) /\ k.rows[k.id].watch = Triggered!Sanitized(k.watch)
        BY <2>1, NewIsWatch DEF SetHolds
    <2>4. \A i \in Watched \ {k.id} : k.rows[i] \in {Triggered!NoRow, triggers[i]} /\ (tFaults = 0 => k.rows[i] = triggers[i])
        BY <2>1 DEF SetHolds
    <2>5. Sound
        <3> SUFFICES ASSUME NEW i \in Watched
                     PROVE  /\ triggers'[i] # Triggered!NoRow => IsWatch(triggers'[i]) /\ i <= made'
                            /\ HeardBySignal(i)' /\ (i > made' => heard'[i] = {})
            OBVIOUS
        <3>1. CASE i = k.id
            BY <1>1, <2>2, <2>3, <3>1 DEF HeardBySignal, WatchInv
        <3>2. CASE i # k.id
            BY <1>1, <2>2, <2>4, <3>2 DEF HeardBySignal, WatchInv
        <3> QED BY <3>1, <3>2
    <2>6. Told
        <3> SUFFICES ASSUME tFaults' = 0, NEW a \in asked' PROVE AskedIsSet(a)'
            OBVIOUS
        <3>1. tFaults = 0
            BY <1>1
        <3>2. CASE a \in asked
            <4>1. AskedIsSet(a)
                BY <3>1, <3>2 DEF WatchInv
            <4>2. a.id # k.id
                BY <2>3, <4>1 DEF AskedIsSet
            <4> QED BY <1>1, <2>4, <3>1, <4>1, <4>2 DEF AskedIsSet
        <3>3. CASE a = [id |-> k.id, watch |-> k.watch, at |-> k.at]
            <4>1. a.id = k.id /\ a.watch = k.watch
                BY <3>3
            <4>2. k.rows[k.id] # Triggered!NoRow
                BY <2>3, WatchIsRow
            <4> QED BY <1>1, <2>3, <4>1, <4>2 DEF AskedIsSet
        <3> QED BY <2>2, <3>2, <3>3
    <2> QED BY <2>5, <2>6
<1>7. ASSUME k.kind = "check" PROVE Sound /\ Told
    <2>1. CheckHolds(k) /\ Triggered!Report(k) /\ asked' = asked
        BY <1>1, <1>3, <1>7
    <2>2. \A i \in Watched : heard'[i] = IF triggers[i] = Triggered!NoRow THEN {}
                                        ELSE heard[i] \cup Triggered!Given(triggers[i].watch, k.batch, k.at)
        BY <2>1 DEF Triggered!Report, Watched
    <2>3. Sound
        <3> SUFFICES ASSUME NEW i \in Watched
                     PROVE  /\ triggers'[i] # Triggered!NoRow => IsWatch(triggers'[i]) /\ i <= made'
                            /\ HeardBySignal(i)' /\ (i > made' => heard'[i] = {})
            OBVIOUS
        <3>1. triggers[i] # Triggered!NoRow => i <= made
            BY DEF WatchInv
        <3>2. i > made' => heard'[i] = {}
            <4>1. i \in Int /\ made \in Int /\ made' = made
                BY <1>1 DEF Watched, Triggered!Watched, WatchInv
            <4>2. CASE triggers[i] = Triggered!NoRow
                <5>1. heard'[i] = {}
                    BY <2>2, <4>2
                <5> QED BY <5>1
            <4>3. CASE triggers[i] # Triggered!NoRow
                BY <3>1, <4>1, <4>3
            <4> QED BY <4>2, <4>3
        <3>3. CASE triggers'[i] = Triggered!NoRow
            BY <3>2, <3>3 DEF HeardBySignal
        <3>4. CASE triggers'[i] # Triggered!NoRow
            <4>1. triggers'[i] = k.rows[i]
                BY <1>1
            <4>2. /\ triggers[i] # Triggered!NoRow /\ IsWatch(k.rows[i]) /\ k.rows[i].watch = triggers[i].watch
                  /\ triggers[i].watch.kind = "no_contact" =>
                       \A e \in heard[i] \cup Triggered!Given(triggers[i].watch, k.batch, k.at) :
                           e.at \in Int /\ e.at <= k.rows[i].signal
                BY <2>1, <3>4, <4>1, CheckedHears
            <4>3. HeardBySignal(i)'
                BY <2>2, <4>1, <4>2 DEF HeardBySignal
            <4> QED BY <1>1, <3>1, <3>2, <4>1, <4>2, <4>3
        <3> QED BY <3>3, <3>4
    <2>4. Told
        <3> SUFFICES ASSUME tFaults' = 0, NEW a \in asked PROVE AskedIsSet(a)'
            BY <2>1
        <3>1. tFaults = 0 /\ AskedIsSet(a)
            BY <1>1 DEF WatchInv
        <3>2. a.id \in Watched /\ triggers[a.id] # Triggered!NoRow /\ IsWatch(triggers[a.id])
            BY <3>1 DEF AskedIsSet, WatchInv
        <3>3. k.rows[a.id] = Triggered!Checked(triggers[a.id], k.batch, k.at).row /\ k.batch \in Batches /\ Hour(k.at)
            BY <2>1, <3>1, <3>2 DEF CheckHolds
        <3>4. IsWatch(k.rows[a.id]) /\ k.rows[a.id].watch = triggers[a.id].watch
            BY <3>2, <3>3, CheckedRow
        <3> QED BY <1>1, <3>1, <3>4, WatchIsRow DEF AskedIsSet
    <2> QED BY <2>3, <2>4
<1>8. Sound /\ Told
    <2> HIDE DEF Sound, Told
    <2> QED BY <1>3, <1>6, <1>7
<1> QED BY <1>2, <1>4, <1>5, <1>8 DEF WatchInv

\* A report of a silence is true, and windows fire in their hours, if no window was asked
\* to end at hour zero.
LEMMA ReportsTrue ==
    ASSUME WatchInv, \A w \in Watches : w.kind = "time_window" => w.finish # 0,
           NEW c \in TriggerCallers, Triggered!writeTriggers(c)
    PROVE  Triggered!Silent /\ Triggered!InHours
<1>0. PICK k : k = tCall[c]
    OBVIOUS
<1>1. /\ k # Triggered!Idle /\ UNCHANGED <<tNow, made, tFaults>>
      /\ (k.kind = "set" /\ last' = last) \/ (k.kind = "check" /\ Triggered!Report(k))
    BY <1>0 DEF Triggered!writeTriggers
<1>2. CASE last' = last
    BY <1>2 DEF Triggered!Silent, Triggered!InHours
<1>3. CASE k.kind = "check" /\ Triggered!Report(k)
    <2>1. CheckHolds(k)
        BY <1>0, <1>1, <1>3 DEF WatchInv
    <2>2. /\ last'.fired = {i \in Watched : k.fires[i] # {}} /\ last'.at = k.at
          /\ \A i \in Watched : heard'[i] = IF triggers[i] = Triggered!NoRow THEN {}
                                        ELSE heard[i] \cup Triggered!Given(triggers[i].watch, k.batch, k.at)
        BY <1>3 DEF Triggered!Report, Watched
    <2>3. Hour(k.at) /\ k.at \in Int /\ k.batch \in Batches
        BY <2>1 DEF CheckHolds, Hour
    <2>4. ASSUME NEW i \in Watched, i \in last'.fired, Triggered!Kind(i) = "no_contact", NEW e \in heard'[i]
          PROVE  last'.at - e.at >= triggers[i].watch.silence
        <3> DEFINE out == Triggered!Checked(triggers[i], k.batch, k.at)
        <3>1. triggers[i] # Triggered!NoRow /\ triggers[i].watch.kind = "no_contact"
            BY <2>4 DEF Triggered!Kind
        <3>2. IsWatch(triggers[i])
            BY <3>1 DEF WatchInv
        <3>3. k.fires[i] = out.fires /\ k.rows[i] = out.row /\ k.fires[i] # {}
            BY <2>1, <2>2, <2>4 DEF CheckHolds
        <3>4. IsWatch(out.row) /\ k.at - out.row.signal >= triggers[i].watch.silence
            BY <2>3, <3>1, <3>2, <3>3, CheckedRow
        <3> HIDE DEF out
        <3>5. k.rows[i] # Triggered!NoRow
            BY <3>3, <3>4, WatchIsRow
        <3>6. e \in heard[i] \cup Triggered!Given(triggers[i].watch, k.batch, k.at)
            BY <2>2, <2>4, <3>1
        <3>7. e.at \in Int /\ e.at <= out.row.signal
            BY <2>1, <3>1, <3>3, <3>5, <3>6, CheckedHears
        <3>8. out.row.signal \in Int /\ triggers[i].watch.silence \in Int
            BY <3>2, <3>4 DEF IsWatch, Triggered!Watch
        <3> QED BY <2>2, <2>3, <3>4, <3>7, <3>8
    <2>5. ASSUME NEW a \in asked, a.watch.kind = "time_window", tFaults = 0
          PROVE  a.id \in last'.fired <=> Triggered!InWindow(a.watch.start, a.watch.finish, last'.at % Day)
        <3> DEFINE out == Triggered!Checked(triggers[a.id], k.batch, k.at)
        <3>1. /\ a.id \in Watched /\ a.watch \in Watches
              /\ triggers[a.id] # Triggered!NoRow /\ triggers[a.id].watch = Triggered!Sanitized(a.watch)
            BY <2>5 DEF WatchInv, AskedIsSet
        <3>2. IsWatch(triggers[a.id])
            BY <3>1 DEF WatchInv
        <3>3. k.fires[a.id] = out.fires
            BY <2>1, <2>5, <3>1 DEF CheckHolds
        <3>4. /\ triggers[a.id].watch.kind = "time_window"
              /\ triggers[a.id].watch.start = a.watch.start /\ triggers[a.id].watch.finish = a.watch.finish
            BY <2>5, <3>1, NewIsWatch
        <3>5. out.fires # {} <=> Triggered!InWindow(a.watch.start, a.watch.finish, k.at % Day)
            BY <2>3, <3>2, <3>4, CheckedRow
        <3> HIDE DEF out
        <3> QED BY <2>2, <3>1, <3>3, <3>5
    <2>6. Triggered!Silent
        BY <2>4 DEF Triggered!Silent, Watched
    <2>7. Triggered!InHours
        BY <2>5 DEF Triggered!InHours
    <2> QED BY <2>6, <2>7
<1> QED BY <1>1, <1>2, <1>3

LEMMA WatchInvStep ==
    ASSUME \A c, d \in TriggerCallers : c = d, WatchInv, Triggered!Next \/ WatchesUntouched
    PROVE  WatchInv'
<1>1. CASE WatchesUntouched
    BY <1>1 DEF WatchesUntouched, WatchInv, HeardBySignal, SetHolds, CheckHolds, AskedIsSet
<1>2. CASE Triggered!Tick
    <2>1. Hour(tNow)' /\ UNCHANGED <<triggers, tCall, asked, heard, made, tFaults>>
        BY <1>2 DEF Triggered!Tick, WatchInv, Hour
    <2> QED BY <2>1 DEF WatchInv, HeardBySignal, SetHolds, CheckHolds, AskedIsSet
<1>3. ASSUME NEW c \in TriggerCallers, Triggered!WriteFails(c) PROVE WatchInv'
    <2>1. /\ UNCHANGED <<tNow, triggers, asked, heard, made>> /\ tFaults' \in Nat /\ tFaults' # 0
          /\ tCall' = [d \in TriggerCallers |-> Triggered!Idle]
        BY <1>3 DEF Triggered!WriteFails, WatchInv
    <2> QED BY <2>1 DEF WatchInv, HeardBySignal
<1> QED BY <1>1, <1>2, <1>3, WatchSetStep, WatchCheckStep, WatchWriteStep DEF Triggered!Next

LEMMA WatchReports ==
    ASSUME \A w \in Watches : w.kind = "time_window" => w.finish # 0, WatchInv, Triggered!Next \/ WatchesUntouched
    PROVE  Triggered!Silent /\ Triggered!InHours
<1>1. CASE last' = last
    BY <1>1 DEF Triggered!Silent, Triggered!InHours
<1>2. CASE \E c \in TriggerCallers : Triggered!writeTriggers(c)
    BY <1>2, ReportsTrue
<1>3. last' = last \/ \E c \in TriggerCallers : Triggered!writeTriggers(c)
    BY DEF WatchesUntouched, Triggered!Next, Triggered!Tick, Triggered!Set, Triggered!Check, Triggered!WriteFails
<1> QED BY <1>1, <1>2, <1>3

\* No report of a silence is premature, whatever was lost and however late events come, and
\* windows fire in the hours asked for (SilenceTrue; mind_trigger, writeTriggers): for any
\* watches, batches and lengths of a day, if no two calls overlap and no window is asked to
\* end at hour zero, which the code takes for no end.
THEOREM SilencesAreTrue ==
    ASSUME \A c, d \in TriggerCallers : c = d, \A w \in Watches : w.kind = "time_window" => w.finish # 0
    PROVE  AllSpec => SilenceTrue
<1>1. AllInit => WatchInv
    BY WatchInitially DEF AllInit
<1>2. [AllNext]_all => Triggered!Next \/ WatchesUntouched
    BY DEF AllNext, all, Noted, Watching, WatchesUntouched
<1>3. WatchInv /\ [AllNext]_all => WatchInv' /\ Triggered!Silent /\ Triggered!InHours
    BY <1>2, WatchInvStep, WatchReports
<1> QED BY <1>1, <1>3, PTL DEF AllSpec, SilenceTrue

-----------------------------------------------------------------------------
(* What the watches report *)

\* The record of a silence watch: what it reported were silences since different signals,
\* all before its last firing.
SilenceKept(row, reports) ==
    /\ row.fired \in Int /\ row.signal \in Int
    /\ \A n \in reports : n.about \in Int /\ n.about < row.fired
    /\ \A n, m \in reports : n.about = m.about => n = m

RowKept(row, reports, given) ==
    /\ row.watch.kind = "no_contact" => SilenceKept(row, reports)
    /\ row.watch.kind = "presence_transition" => PresenceKept(row, reports, given)

RecordInv ==
    /\ \A i \in Watched : triggers[i] # Triggered!NoRow => RowKept(triggers[i], noticed[i], heard[i])
    /\ \A i \in Watched : i > made => noticed[i] = {}
    /\ \A c \in TriggerCallers : tCall[c] # Triggered!Idle /\ tCall[c].kind = "set" => noticed[tCall[c].id] = {}

\* A check keeps the record of a watch.
LEMMA CheckedKeeps ==
    ASSUME NEW row, IsWatch(row), NEW batch \in Batches, NEW at, Hour(at),
           NEW reports, NEW given, RowKept(row, reports, given)
    PROVE  LET out == Triggered!Checked(row, batch, at)
           IN RowKept(out.row, reports \cup out.fires, given \cup Triggered!Given(row.watch, batch, at))
<1> DEFINE out == Triggered!Checked(row, batch, at)
<1>1. row # Triggered!NoRow
    BY WatchIsRow
<1>2. row.watch.kind \in {"no_contact", "presence_transition", "time_window"}
    BY DEF IsWatch, Triggered!Watch
<1>3. out.row.watch = row.watch
    BY CheckedRow
<1>4. CASE row.watch.kind = "no_contact"
    <2> DEFINE events == Triggered!Given(row.watch, batch, at)   signal == Triggered!Signal(row, events)
               fires == /\ signal # Triggered!Unknown /\ at - signal >= row.watch.silence
                        /\ ~Triggered!alreadyFired(row, signal)
    <2>1. out = Triggered!NoContact(row, events, at)
        BY <1>1, <1>4 DEF Triggered!Checked
    <2>2. /\ out.row = [row EXCEPT !.signal = signal, !.fired = IF fires THEN at ELSE row.fired]
          /\ out.fires = IF fires THEN {[at |-> at, about |-> signal]} ELSE {}
        BY <2>1 DEF Triggered!NoContact, Triggered!Outcome
    <2>3. signal \in Int
        BY GivenByNow, SignalIsLatest DEF IsWatch, Hour
    <2> HIDE DEF events, signal, fires, out
    <2>4. out.row = [watch |-> row.watch, signal |-> signal, seen |-> row.seen, seenAt |-> row.seenAt,
                     fired |-> IF fires THEN at ELSE row.fired]
        BY <2>2 DEF IsWatch
    <2>5. out.row.signal = signal /\ out.row.fired = IF fires THEN at ELSE row.fired
        BY <2>4
    <2>6. /\ row.fired \in Int /\ \A n \in reports : n.about \in Int /\ n.about < row.fired
          /\ \A n, m \in reports : n.about = m.about => n = m
        BY <1>4 DEF RowKept, SilenceKept
    <2>7. SilenceKept(out.row, reports \cup out.fires)
        <3>1. CASE ~fires
            BY <2>2, <2>3, <2>5, <2>6, <3>1 DEF SilenceKept
        <3>2. CASE fires
            <4>0. PICK new : new = [at |-> at, about |-> signal]
                OBVIOUS
            <4>1. out.fires = {new} /\ new.about = signal /\ out.row.fired = at
                BY <2>2, <2>5, <3>2, <4>0
            <4>2. row.watch.silence \in Nat /\ row.watch.silence # 0 /\ at \in Int
                BY DEF IsWatch, Triggered!Watch, Hour
            <4>3. signal < at /\ row.fired < signal
                <5>1. at - signal >= row.watch.silence
                    BY <3>2 DEF fires
                <5>2. ~(row.fired >= signal)
                    BY <3>2 DEF fires, Triggered!alreadyFired
                <5> QED BY <2>3, <2>6, <4>2, <5>1, <5>2
            <4>4. \A n \in reports \cup {new} : n.about \in Int /\ n.about < at
                BY <2>3, <2>6, <4>1, <4>2, <4>3
            <4>5. \A n \in reports : n.about # signal
                BY <2>3, <2>6, <4>3
            <4>6. \A n, m \in reports \cup {new} : n.about = m.about => n = m
                BY <2>6, <4>1, <4>5
            <4> QED BY <2>3, <2>5, <4>1, <4>2, <4>4, <4>6 DEF SilenceKept
        <3> QED BY <3>1, <3>2
    <2> QED BY <1>3, <1>4, <2>7 DEF RowKept, out
<1>5. CASE row.watch.kind = "presence_transition"
    <2>0. PICK all_given : all_given = given \cup Triggered!Given(row.watch, batch, at)
        OBVIOUS
    <2>1. out = Triggered!PresenceTransition(row, batch, at)
        BY <1>1, <1>5 DEF Triggered!Checked
    <2> HIDE DEF out
    <2>2. PresenceKept(row, reports, given)
        BY <1>5 DEF RowKept
    <2>3. PresenceKept(row, reports, all_given)
        <3>1. \A n \in reports : Changed(row.watch, n, given) => Changed(row.watch, n, all_given)
            BY <2>0 DEF Changed
        <3> QED BY <2>0, <2>2, <3>1 DEF PresenceKept
    <2>4. Follows(out, row, {}, reports, all_given)
        BY <2>0, <2>1, PresenceKeeps
    <2>5. reports \cup {} = reports
        OBVIOUS
    <2>6. PresenceKept(out.row, reports \cup out.fires, all_given)
        BY <2>3, <2>4, <2>5 DEF Follows
    <2> QED BY <1>3, <1>5, <2>0, <2>6 DEF RowKept, out
<1>6. CASE row.watch.kind = "time_window"
    <2> HIDE DEF out
    <2> QED BY <1>3, <1>6 DEF RowKept, out
<1> QED BY <1>2, <1>4, <1>5, <1>6

\* A watch just set has reported nothing.
LEMMA NewIsKept ==
    ASSUME NEW w \in Watches, NEW given
    PROVE  RowKept(Triggered!New(Triggered!Sanitized(w)), {}, given)
<1>1. PICK row : row = Triggered!New(Triggered!Sanitized(w))
    OBVIOUS
<1>2. IsWatch(row)
    BY <1>1, NewIsWatch
<1>3. row.seen = "none" /\ row.seenAt = Triggered!Unknown /\ row.fired = Triggered!Unknown
    BY <1>1 DEF Triggered!New
<1>4. PresenceKept(row, {}, given) /\ SilenceKept(row, {})
    BY <1>2, <1>3 DEF PresenceKept, SilenceKept, IsWatch, Triggered!Unknown
<1> QED BY <1>1, <1>4 DEF RowKept

LEMMA RecordInitially == Triggered!Init => RecordInv
<1> SUFFICES ASSUME Triggered!Init PROVE RecordInv
    OBVIOUS
<1>1. /\ triggers = [i \in Watched |-> Triggered!NoRow] /\ tCall = [c \in TriggerCallers |-> Triggered!Idle]
      /\ noticed = [i \in Watched |-> {}]
    BY DEF Triggered!Init, Watched
<1> QED BY <1>1 DEF RecordInv

LEMMA RecordWriteStep ==
    ASSUME \A c, d \in TriggerCallers : c = d, WatchInv, RecordInv,
           NEW c \in TriggerCallers, Triggered!writeTriggers(c)
    PROVE  RecordInv'
<1>0. PICK k : k = tCall[c]
    OBVIOUS
<1>1. /\ k # Triggered!Idle /\ tCall' = [tCall EXCEPT ![c] = Triggered!Idle]
      /\ triggers' = k.rows /\ made' = made
      /\ \/ k.kind = "set" /\ heard' = heard /\ noticed' = noticed
         \/ k.kind = "check" /\ Triggered!Report(k)
    BY <1>0 DEF Triggered!writeTriggers
<1>2. \A d \in TriggerCallers : tCall'[d] = Triggered!Idle
    BY <1>1 DEF WatchInv
<1>3. (k.kind = "set" /\ SetHolds(k)) \/ (k.kind = "check" /\ CheckHolds(k))
    BY <1>0, <1>1 DEF WatchInv
<1>4. ASSUME k.kind = "set", NEW i \in Watched
      PROVE  /\ triggers'[i] # Triggered!NoRow => RowKept(triggers'[i], noticed'[i], heard'[i])
             /\ i > made' => noticed'[i] = {}
    <2>1. SetHolds(k) /\ heard' = heard /\ noticed' = noticed
        BY <1>1, <1>3, <1>4
    <2>2. i > made' => noticed'[i] = {}
        BY <1>1, <2>1 DEF RecordInv
    <2>3. CASE i = k.id
        <3>1. k.rows[i] = Triggered!New(Triggered!Sanitized(k.watch)) /\ k.watch \in Watches
            BY <2>1, <2>3 DEF SetHolds
        <3>2. noticed[i] = {}
            BY <1>0, <1>1, <1>4, <2>3 DEF RecordInv
        <3>3. RowKept(k.rows[i], noticed[i], heard[i])
            BY <3>1, <3>2, NewIsKept
        <3> QED BY <1>1, <2>1, <2>2, <3>3
    <2>4. CASE i # k.id
        <3>1. k.rows[i] \in {Triggered!NoRow, triggers[i]}
            BY <2>1, <2>4 DEF SetHolds
        <3> QED BY <1>1, <2>1, <2>2, <3>1 DEF RecordInv
    <2> QED BY <2>3, <2>4
<1>5. ASSUME k.kind = "check", NEW i \in Watched
      PROVE  /\ triggers'[i] # Triggered!NoRow => RowKept(triggers'[i], noticed'[i], heard'[i])
             /\ i > made' => noticed'[i] = {}
    <2>1. CheckHolds(k) /\ Triggered!Report(k)
        BY <1>1, <1>3, <1>5
    <2>2. /\ noticed'[i] = noticed[i] \cup k.fires[i]
          /\ heard'[i] = IF triggers[i] = Triggered!NoRow THEN {} ELSE heard[i] \cup Triggered!Given(triggers[i].watch, k.batch, k.at)
        BY <2>1 DEF Triggered!Report, Watched
    <2>3. k.batch \in Batches /\ Hour(k.at)
        BY <2>1 DEF CheckHolds
    <2> DEFINE out == Triggered!Checked(triggers[i], k.batch, k.at)
    <2>4. \/ k.rows[i] = out.row /\ k.fires[i] = out.fires
          \/ k.rows[i] = Triggered!NoRow /\ k.fires[i] = {}
        BY <2>1 DEF CheckHolds
    <2>5. CASE triggers[i] = Triggered!NoRow
        <3>1. out = [row |-> triggers[i], fires |-> {}]
            BY <2>5 DEF Triggered!Checked, Triggered!Outcome
        <3>2. k.rows[i] = Triggered!NoRow /\ k.fires[i] = {}
            BY <2>4, <2>5, <3>1
        <3>3. triggers'[i] = Triggered!NoRow /\ noticed'[i] = noticed[i]
            BY <1>1, <2>2, <3>2
        <3> QED BY <1>1, <3>3 DEF RecordInv
    <2>6. CASE triggers[i] # Triggered!NoRow
        <3>1. IsWatch(triggers[i]) /\ i <= made
            BY <2>6 DEF WatchInv
        <3>2. ~(i > made')
            BY <1>1, <3>1 DEF WatchInv, Watched, Triggered!Watched
        <3>3. RowKept(triggers[i], noticed[i], heard[i])
            BY <2>6 DEF RecordInv
        <3>4. RowKept(out.row, noticed[i] \cup out.fires, heard[i] \cup Triggered!Given(triggers[i].watch, k.batch, k.at))
            BY <2>3, <3>1, <3>3, CheckedKeeps
        <3> HIDE DEF out
        <3>5. triggers'[i] # Triggered!NoRow => RowKept(triggers'[i], noticed'[i], heard'[i])
            BY <1>1, <2>2, <2>4, <2>6, <3>4
        <3> QED BY <3>2, <3>5
    <2> QED BY <2>5, <2>6
<1> QED BY <1>2, <1>3, <1>4, <1>5 DEF RecordInv

LEMMA RecordStep ==
    ASSUME \A c, d \in TriggerCallers : c = d, WatchInv, RecordInv, Triggered!Next \/ WatchesUntouched
    PROVE  RecordInv'
<1>0. /\ made \in Nat /\ tCall = [d \in TriggerCallers |-> tCall[d]]
      /\ \A i \in Watched : i \in Int
    BY DEF WatchInv, Watched, Triggered!Watched
<1>1. CASE WatchesUntouched
    BY <1>1 DEF WatchesUntouched, RecordInv
<1>2. CASE Triggered!Tick
    BY <1>2 DEF Triggered!Tick, RecordInv
<1>3. ASSUME NEW c \in TriggerCallers, NEW w \in Watches, Triggered!Set(c, w) PROVE RecordInv'
    <2>1. PICK k : /\ k.id = made + 1 /\ tCall' = [tCall EXCEPT ![c] = k]
                   /\ made < MaxTriggers /\ made' = made + 1 /\ UNCHANGED <<triggers, heard, noticed>>
        <3>1. PICK held : tCall' = [tCall EXCEPT ![c] = [busy |-> TRUE, kind |-> "set", id |-> made + 1,
                              rows |-> Triggered!Pushed(held, made + 1, w), watch |-> w, at |-> tNow]]
            BY <1>3 DEF Triggered!Set
        <3>2. PICK k : k = [busy |-> TRUE, kind |-> "set", id |-> made + 1,
                              rows |-> Triggered!Pushed(held, made + 1, w), watch |-> w, at |-> tNow]
            OBVIOUS
        <3>3. k.id = made + 1 /\ tCall' = [tCall EXCEPT ![c] = k]
            BY <3>1, <3>2
        <3>4. made < MaxTriggers /\ made' = made + 1 /\ UNCHANGED <<triggers, heard, noticed>>
            BY <1>3 DEF Triggered!Set
        <3> QED BY <3>3, <3>4
    <2>2. made + 1 \in Watched /\ made + 1 > made
        <3>1. MaxTriggers \in Nat
            BY SafetyAssumption DEF Triggered!TriggersAssumption
        <3> QED BY <1>0, <2>1, <3>1 DEF Watched, Triggered!Watched
    <2>3. noticed[made + 1] = {}
        BY <2>2 DEF RecordInv
    <2>4. \A d \in TriggerCallers : tCall'[d] = k
        BY <1>0, <2>1
    <2>5. \A i \in Watched : i > made' => noticed'[i] = {}
        BY <1>0, <2>1 DEF RecordInv
    <2> QED BY <2>1, <2>3, <2>4, <2>5 DEF RecordInv
<1>4. ASSUME NEW c \in TriggerCallers, NEW batch \in Batches, Triggered!Check(c, batch) PROVE RecordInv'
    <2>1. PICK k : /\ k.kind = "check" /\ tCall' = [tCall EXCEPT ![c] = k]
                   /\ UNCHANGED <<triggers, heard, noticed, made>>
        <3>1. PICK rows, fires : tCall' = [tCall EXCEPT ![c] = [busy |-> TRUE, kind |-> "check", batch |-> batch, at |-> tNow,
                                                               rows |-> rows, fires |-> fires]]
            BY <1>4, Zenon DEF Triggered!Check
        <3>2. PICK k : k = [busy |-> TRUE, kind |-> "check", batch |-> batch, at |-> tNow, rows |-> rows, fires |-> fires]
            OBVIOUS
        <3>3. k.kind = "check" /\ tCall' = [tCall EXCEPT ![c] = k]
            BY <3>1, <3>2
        <3>4. UNCHANGED <<triggers, heard, noticed, made>>
            BY <1>4 DEF Triggered!Check
        <3> QED BY <3>3, <3>4
    <2>2. \A d \in TriggerCallers : tCall'[d] = k
        BY <1>0, <2>1
    <2> QED BY <2>1, <2>2 DEF RecordInv
<1>5. ASSUME NEW c \in TriggerCallers, Triggered!writeTriggers(c) PROVE RecordInv'
    BY <1>5, RecordWriteStep
<1>6. ASSUME NEW c \in TriggerCallers, Triggered!WriteFails(c) PROVE RecordInv'
    <2>1. UNCHANGED <<triggers, heard, noticed, made>> /\ tCall' = [tCall EXCEPT ![c] = Triggered!Idle]
        BY <1>6 DEF Triggered!WriteFails
    <2>2. \A d \in TriggerCallers : tCall'[d] = Triggered!Idle
        BY <1>0, <2>1
    <2> QED BY <2>1, <2>2 DEF RecordInv
<1> QED BY <1>1, <1>2, <1>3, <1>4, <1>5, <1>6 DEF Triggered!Next

\* Where no query may fail none has.
NothingFails == part = "watches" => tFaults = 0

\* The records of the watches are what happened.
LEMMA RecordsHold ==
    ASSUME WatchInv, RecordInv, NothingFails
    PROVE  RecordsTrue
<1>1. ASSUME NEW i \in Watched, Triggered!Kind(i) # "none"
      PROVE  /\ triggers[i] # Triggered!NoRow /\ Triggered!Kind(i) = triggers[i].watch.kind
             /\ RowKept(triggers[i], noticed[i], heard[i])
    BY <1>1 DEF Triggered!Kind, RecordInv
<1>2. Triggered!OncePerSilence
    BY <1>1 DEF Triggered!OncePerSilence, RowKept, SilenceKept, Watched
<1>3. Triggered!CooldownKept
    BY <1>1 DEF Triggered!CooldownKept, RowKept, PresenceKept, Watched
<1>4. Triggered!TransitionTrue
    <2> SUFFICES ASSUME NEW i \in Watched, Triggered!Kind(i) = "presence_transition", NEW n \in noticed[i]
                 PROVE  Changed(triggers[i].watch, n, heard[i])
        BY DEF Triggered!TransitionTrue, Changed, Watched
    <2> QED BY <1>1 DEF RowKept, PresenceKept
<1>5. tFaults = 0 => Triggered!Kept
    BY DEF WatchInv, AskedIsSet, Triggered!Kept
<1> QED BY <1>2, <1>3, <1>4, <1>5 DEF RecordsTrue, NothingFails

\* The watches report what happened, once, and none is lost to another (RecordsTrue;
\* mind_trigger, writeTriggers): no two reports of a silence watch are about the same
\* signal, those of a presence watch are a cooldown apart and after an event of the state
\* they leave, and while no query fails every watch set is there.  For any watches, batches
\* and hours, if no two calls overlap.
THEOREM RecordsAreTrue ==
    ASSUME \A c, d \in TriggerCallers : c = d
    PROVE  AllSpec => []RecordsTrue
<1> DEFINE Inv == WatchInv /\ RecordInv /\ NothingFails
<1>1. AllInit => Inv
    BY WatchInitially, RecordInitially DEF AllInit, NothingFails, Triggered!Init
<1>2. [AllNext]_all => Triggered!Next \/ WatchesUntouched
    BY DEF AllNext, all, Noted, Watching, WatchesUntouched
<1>3. Inv /\ [AllNext]_all => Inv'
    <2> SUFFICES ASSUME Inv, [AllNext]_all PROVE Inv'
        OBVIOUS
    <2>1. WatchInv' /\ RecordInv'
        BY <1>2, WatchInvStep, RecordStep
    <2>2. NothingFails'
        <3>1. tFaults' \in Nat
            BY <2>1 DEF WatchInv
        <3> QED BY <3>1 DEF NothingFails, AllNext, all, Noted, Watching
    <2> QED BY <2>1, <2>2
<1>4. Inv => RecordsTrue
    BY RecordsHold
<1> QED BY <1>1, <1>3, <1>4, PTL DEF AllSpec
=============================================================================
