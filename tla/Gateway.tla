------------------------------- MODULE Gateway -------------------------------
(***************************************************************************)
(* The front door of the worker (src/muse-brain/src/index.ts, auth.ts,     *)
(* tenant-config.ts): the bearer key says which tenant a request belongs   *)
(* to, the tenant header may only confirm it, and one isolate counts each  *)
(* address's requests in fixed windows.  Secrets are bound and dropped     *)
(* while clients go on calling.  Leases, the gate behind it, are Leases.   *)
(***************************************************************************)
EXTENDS Integers, Sequences, FiniteSets

CONSTANTS
    Names,         \* what a tenant header may say
    Allowed,       \* resolveAllowedTenants: the tenants of the deployment
    Lower,         \* toLowerCase, on Names
    Aliases,       \* resolveTenantAliases: a function on some names
    Default,       \* the tenant of a legacy call without a header
    SecretName,    \* tenantSecretName: the variable that holds a tenant's key
    LegacyVar,     \* API_KEY
    Keys,          \* secret values
    Absent, Blank, Malformed,     \* headers that name nobody
    IPs,
    RATE_LIMIT, RATE_WINDOW,
    CleanupAt,     \* entries beyond which expired ones are dropped (1000)
    MaxBatch,      \* JSON-RPC calls in a request (20)
    Requests,      \* what clients send
    MaxTime,
    None

ASSUME TenantsAssumption ==
    /\ Default \in Names
    /\ Lower \in [Names -> Names] /\ \A n \in Names : Lower[Lower[n]] = Lower[n]
    /\ DOMAIN Aliases \subseteq Names /\ \A a \in DOMAIN Aliases : Aliases[a] \in Names
    /\ DOMAIN SecretName = Allowed /\ \A t \in Allowed : SecretName[t] # LegacyVar
    /\ None \notin Keys /\ None \notin Allowed
ASSUME NamesAssumption == Names \cap {Absent, Blank, Malformed} = {} /\ Allowed \subseteq Names
ASSUME LimitsAssumption ==
    /\ RATE_LIMIT \in Nat \ {0} /\ RATE_WINDOW \in Nat \ {0}
    /\ CleanupAt \in Nat /\ MaxBatch \in Nat /\ MaxTime \in Nat
    /\ None \notin [count: Nat, resetAt: Nat]

Vars    == {SecretName[t] : t \in Allowed} \cup {LegacyVar}
Headers == Names \cup {Absent, Blank, Malformed}
Tenanted == {"trigger", "backfill", "sse", "rpc"}

VARIABLES
    secrets,       \* the deployment's keys, by variable
    rateLimitMap,  \* per address: None, or the count and end of its window
    now,
    passed,        \* when each address's requests passed the limiter (history)
    last           \* the last answer (history)

vars == <<secrets, rateLimitMap, now, passed, last>>

Routes  == Tenanted \cup {"options", "health", "root", "other"}
Request == [ip: IPs, key: Keys, header: Headers, route: Routes, size: Nat, parses: BOOLEAN]

ASSUME RequestsAssumption == Requests \subseteq Request

-----------------------------------------------------------------------------
(* Whose key it is *)

discoverAuthCandidates ==
    {[tenant |-> t, key |-> secrets[SecretName[t]], legacy |-> FALSE] :
        t \in {t \in Allowed : secrets[SecretName[t]] # None}}
    \cup {[tenant |-> None, key |-> k, legacy |-> TRUE] : k \in {secrets[LegacyVar]} \ {None}}

findDuplicateSecretValues(candidates) ==
    {p \in candidates \X candidates : p[1] # p[2] /\ p[1].key = p[2].key}

\* The candidates a key matches; the tenant's own goes before the legacy one.
matchAuthCandidate(key, candidates) ==
    LET matches == {c \in candidates : c.key = key}
        own     == {c \in matches : ~c.legacy}
    IN  IF own # {} THEN own ELSE matches

\* "misconfigured", "unauthorized", or the candidate.
resolveAuth(key) ==
    LET candidates == discoverAuthCandidates
        matches    == matchAuthCandidate(key, candidates)
    IN  CASE candidates = {} \/ findDuplicateSecretValues(candidates) # {} -> [ok |-> FALSE, status |-> 503]
          [] matches = {} -> [ok |-> FALSE, status |-> 401]
          [] OTHER -> [ok |-> TRUE, as |-> CHOOSE c \in matches : TRUE]

-----------------------------------------------------------------------------
(* Which tenant it names *)

\* (Slip: the alias map is asked first.)
resolveTenantAlias_AliasFirst(raw) ==
    LET n == Lower[raw] IN IF n \in DOMAIN Aliases THEN Aliases[n] ELSE n

resolveTenantAlias(raw) ==
    LET n == Lower[raw]
    IN  IF n \notin Allowed /\ n \in DOMAIN Aliases THEN Aliases[n] ELSE n

Refuse(status) == [ok |-> FALSE, status |-> status]

\* (Slip: the header decides, as it does for the shared key.)
crossCheckTenantHeader_Overrides(header, keyTenant) ==
    CASE header = Absent -> [ok |-> TRUE, tenant |-> keyTenant]
      [] header \in {Blank, Malformed} -> Refuse(400)
      [] resolveTenantAlias(header) \notin Allowed -> Refuse(400)
      [] OTHER -> [ok |-> TRUE, tenant |-> resolveTenantAlias(header)]

\* A tenant's own key: the header can only agree.
crossCheckTenantHeader(header, keyTenant) ==
    CASE header = Absent -> [ok |-> TRUE, tenant |-> keyTenant]
      [] header \in {Blank, Malformed} -> Refuse(400)
      [] resolveTenantAlias(header) \notin Allowed -> Refuse(400)
      [] resolveTenantAlias(header) # keyTenant -> Refuse(403)
      [] OTHER -> [ok |-> TRUE, tenant |-> keyTenant]

\* The shared key: the header names the tenant, nothing names the default one.
resolveLegacyTenantFromHeader(header) ==
    LET name == IF header \in {Absent, Blank} THEN Default ELSE header
    IN  IF name = Malformed \/ resolveTenantAlias(name) \notin Allowed THEN Refuse(400)
        ELSE [ok |-> TRUE, tenant |-> resolveTenantAlias(name)]

resolveRequestTenant(candidate, header) ==
    IF candidate.legacy THEN resolveLegacyTenantFromHeader(header)
    ELSE crossCheckTenantHeader(header, candidate.tenant)

\* What a key and a header come to.
Tenancy(key, header) ==
    LET auth == resolveAuth(key)
    IN  IF auth.ok THEN resolveRequestTenant(auth.as, header) ELSE auth

-----------------------------------------------------------------------------
TypeOK ==
    /\ secrets \in [Vars -> Keys \cup {None}]
    /\ rateLimitMap \in [IPs -> {None} \cup [count: 1..(RATE_LIMIT + 1), resetAt: 1..(MaxTime + RATE_WINDOW)]]
    /\ now \in 0..MaxTime
    /\ passed \in [IPs -> Seq(0..MaxTime)]
    /\ last.code \in {0, 200, 400, 401, 403, 404, 413, 429, 503}
    /\ last.tenant \in Allowed \cup {None}

Init ==
    /\ secrets \in {s \in [Vars -> Keys \cup {None}] : \A v \in Vars \ {LegacyVar} : s[v] = None}
    /\ rateLimitMap = [i \in IPs |-> None] /\ now = 0
    /\ passed = [i \in IPs |-> <<>>]
    /\ last = [code |-> 0, tenant |-> None, ip |-> None, at |-> 0]

Answer(req, code, tenant) == last' = [code |-> code, tenant |-> tenant, ip |-> req.ip, at |-> now]

\* OPTIONS and /health answer before anyone is asked for a key.
Unauthenticated(req) ==
    /\ req.route \in {"options", "health"}
    /\ Answer(req, 200, None)
    /\ UNCHANGED <<secrets, rateLimitMap, now, passed>>

\* A refused key leaves no trace in the limiter.
Denied(req) ==
    /\ req.route \notin {"options", "health"} /\ ~resolveAuth(req.key).ok
    /\ Answer(req, resolveAuth(req.key).status, None)
    /\ UNCHANGED <<secrets, rateLimitMap, now, passed>>

Windowed(ip) == rateLimitMap[ip] # None /\ now < rateLimitMap[ip].resetAt

Full(ip) == Windowed(ip) /\ rateLimitMap[ip].count >= RATE_LIMIT

\* A full window refuses; the count goes on (it is only compared: one above
\* the limit stands for all).
Limited(req) ==
    /\ req.route \notin {"options", "health"} /\ resolveAuth(req.key).ok /\ Full(req.ip)
    /\ rateLimitMap' = [rateLimitMap EXCEPT ![req.ip].count = RATE_LIMIT + 1]
    /\ Answer(req, 429, None)
    /\ UNCHANGED <<secrets, now, passed>>

Counted(ip) ==
    [rateLimitMap EXCEPT ![ip] =
        IF Windowed(ip) THEN [count |-> @.count + 1, resetAt |-> @.resetAt]
        ELSE [count |-> 1, resetAt |-> now + RATE_WINDOW]]

\* (Slip: a full map is emptied.)
Cleaned_All(map) ==
    IF Cardinality({i \in IPs : map[i] # None}) > CleanupAt THEN [i \in IPs |-> None] ELSE map

Cleaned(map) ==
    IF Cardinality({i \in IPs : map[i] # None}) > CleanupAt
    THEN [i \in IPs |-> IF map[i] # None /\ now >= map[i].resetAt THEN None ELSE map[i]]
    ELSE map

\* The status of a request that was let in, and the tenant it ran for.
Outcome(req) ==
    LET tenancy == Tenancy(req.key, req.header)
    IN  CASE req.route \in Tenanted /\ ~tenancy.ok -> <<tenancy.status, None>>
          [] req.route \in {"trigger", "backfill", "rpc"} /\ ~req.parses -> <<400, None>>
          [] req.route = "rpc" /\ req.size > MaxBatch -> <<400, None>>
          [] req.route \in Tenanted -> <<200, tenancy.tenant>>
          [] req.route = "root" -> <<200, None>>
          [] OTHER -> <<404, None>>

Admitted(req) ==
    /\ req.route \notin {"options", "health"} /\ resolveAuth(req.key).ok /\ ~Full(req.ip)
    /\ rateLimitMap' = Cleaned(Counted(req.ip))
    /\ passed' = [passed EXCEPT ![req.ip] = Append(@, now)]
    /\ Answer(req, Outcome(req)[1], Outcome(req)[2])
    /\ UNCHANGED <<secrets, now>>

\* A body above 1 MB is refused after the limiter and before any route.
TooLarge(req) ==
    /\ req.route \notin {"options", "health"} /\ resolveAuth(req.key).ok /\ ~Full(req.ip)
    /\ rateLimitMap' = Cleaned(Counted(req.ip))
    /\ passed' = [passed EXCEPT ![req.ip] = Append(@, now)]
    /\ Answer(req, 413, None)
    /\ UNCHANGED <<secrets, now>>

Tick == now < MaxTime /\ now' = now + 1 /\ UNCHANGED <<secrets, rateLimitMap, passed, last>>

\* The operator: a tenant gets a key of its own; the shared key goes.
BindSecret(t, k) ==
    /\ secrets[SecretName[t]] = None
    /\ secrets' = [secrets EXCEPT ![SecretName[t]] = k]
    /\ UNCHANGED <<rateLimitMap, now, passed, last>>

DropLegacy ==
    /\ secrets[LegacyVar] # None
    /\ secrets' = [secrets EXCEPT ![LegacyVar] = None]
    /\ UNCHANGED <<rateLimitMap, now, passed, last>>

Next ==
    \/ \E req \in Requests : Unauthenticated(req) \/ Denied(req) \/ Limited(req) \/ Admitted(req) \/ TooLarge(req)
    \/ Tick
    \/ \E t \in Allowed, k \in Keys : BindSecret(t, k)
    \/ DropLegacy

Spec == Init /\ [][Next]_vars

-----------------------------------------------------------------------------
(* Properties *)

\* Whatever the header says, a tenant's own key runs nothing for another
\* tenant: not through an alias, not through letter case, not when its value
\* is bound a second time.
KeyBindsTenant ==
    \A t \in Allowed, h \in Headers :
        LET key == secrets[SecretName[t]]
        IN  key # None /\ Tenancy(key, h).ok => Tenancy(key, h).tenant = t

\* An allowed tenant is reached under its own name, whatever the alias map
\* says: with its own key, and with the shared one.
OwnName ==
    \A t \in Allowed :
        LET legacy == secrets[LegacyVar]
            own    == secrets[SecretName[t]]
        IN  Lower[t] = t /\ findDuplicateSecretValues(discoverAuthCandidates) = {} =>
                \A key \in {own, legacy} \ {None} : Tenancy(key, t) = [ok |-> TRUE, tenant |-> t]

\* Rotation without downtime: while the values differ, binding a tenant's key
\* or dropping the shared one changes nothing for a call whose key is still
\* bound.
Seamless ==
    [][findDuplicateSecretValues(discoverAuthCandidates)' = {} =>
        \A key \in Keys, h \in Headers :
            Tenancy(key, h).ok /\ (\E v \in Vars : secrets'[v] = key) =>
                Tenancy(key, h)' = Tenancy(key, h)]_secrets

Within(ip, from, to) == Cardinality({i \in DOMAIN passed[ip] : passed[ip][i] \in from..to})

\* However an address times its requests, and whatever entries are cleaned
\* away meanwhile, no stretch of a window's length lets in more than two
\* windows' worth.
SlidingBound ==
    \A ip \in IPs, t \in 0..now : Within(ip, t, t + RATE_WINDOW - 1) <= 2 * RATE_LIMIT

\* A 429 answers only an address that a window's worth of requests passed for
\* within the last window: waiting one out (Retry-After: 60) is enough.
RefusedJustly ==
    last.code = 429 => Within(last.ip, last.at - RATE_WINDOW + 1, last.at) >= RATE_LIMIT
=============================================================================
