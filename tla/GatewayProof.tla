---------------------------- MODULE GatewayProof ----------------------------
(***************************************************************************)
(* For every deployment: any tenants, aliases, letter case and secrets, a  *)
(* tenant's own key reaches that tenant alone, under its own name.  Behind *)
(* the door, for any rows, requests and scorers, a search shows rows that  *)
(* were within what was asked for, counts each row it showed once, and     *)
(* ranks them within the band of what lifts a score; for any calls that    *)
(* overlap, what the registry files hangs on entities of the type it       *)
(* needs; for calls that do not, each does what was asked and leaves the   *)
(* rest; and the identity tables say what the answered calls did.          *)
(***************************************************************************)
EXTENDS MCGateway, SequenceTheorems, FiniteSetTheorems, TLAPS

\* With no value bound twice, the candidates a key matches are one at most.
LEMMA OneMatch ==
    ASSUME findDuplicateSecretValues(discoverAuthCandidates) = {},
           NEW c \in discoverAuthCandidates, NEW d \in discoverAuthCandidates, c.key = d.key
    PROVE  c = d
  <1>1. c # d => <<c, d>> \in findDuplicateSecretValues(discoverAuthCandidates)
    BY DEF findDuplicateSecretValues
  <1> QED BY <1>1

\* A tenant's secret is a candidate of its own.
LEMMA OwnCandidate ==
    ASSUME NEW t \in Allowed, secrets[SecretName[t]] # None
    PROVE  [tenant |-> t, key |-> secrets[SecretName[t]], legacy |-> FALSE] \in discoverAuthCandidates
  BY DEF discoverAuthCandidates

\* The shared secret is one too.
LEMMA LegacyCandidate ==
    ASSUME secrets[LegacyVar] # None
    PROVE  [tenant |-> None, key |-> secrets[LegacyVar], legacy |-> TRUE] \in discoverAuthCandidates
  BY DEF discoverAuthCandidates

\* A candidate is what its key authenticates as.
LEMMA AuthenticatesAs ==
    ASSUME NEW c \in discoverAuthCandidates
    PROVE  /\ resolveAuth(c.key).ok =>
                findDuplicateSecretValues(discoverAuthCandidates) = {} /\ resolveAuth(c.key).as = c
           /\ findDuplicateSecretValues(discoverAuthCandidates) = {} =>
                resolveAuth(c.key) = [ok |-> TRUE, as |-> c]
  <1> DEFINE C == discoverAuthCandidates
             M == matchAuthCandidate(c.key, C)
  <1>0. CASE findDuplicateSecretValues(C) # {}
    BY <1>0 DEF resolveAuth
  <1>1. CASE findDuplicateSecretValues(C) = {}
    <2>1. \A d \in C : d.key = c.key => d = c
      BY <1>1, OneMatch
    <2>2. M = {c}
      BY <2>1 DEF matchAuthCandidate
    <2>3. resolveAuth(c.key) = [ok |-> TRUE, as |-> CHOOSE x \in {c} : TRUE]
      BY <1>1, <2>2 DEF resolveAuth
    <2>4. (CHOOSE x \in {c} : TRUE) = c
      OBVIOUS
    <2>5. resolveAuth(c.key) = [ok |-> TRUE, as |-> c]
      BY <2>3, <2>4
    <2>6. resolveAuth(c.key).as = c
      BY <2>5
    <2> QED BY <1>1, <2>5, <2>6
  <1> QED BY <1>0, <1>1

\* What KeyBindsTenant says of a key and a header.
LEMMA KeyReachesItsTenant ==
    ASSUME NEW t \in Allowed, NEW h \in Headers, secrets[SecretName[t]] # None,
           Tenancy(secrets[SecretName[t]], h).ok
    PROVE  Tenancy(secrets[SecretName[t]], h).tenant = t
  <1> DEFINE key == secrets[SecretName[t]]
             c   == [tenant |-> t, key |-> key, legacy |-> FALSE]
  <1>1. c \in discoverAuthCandidates /\ c.key = key /\ c.tenant = t /\ ~c.legacy
    BY OwnCandidate
  <1>2. resolveAuth(key).ok => resolveAuth(key).as = c
    BY <1>1, AuthenticatesAs
  <1>3. resolveAuth(key).ok
    BY DEF Tenancy
  <1>4. Tenancy(key, h) = crossCheckTenantHeader(h, t)
    BY <1>1, <1>2, <1>3 DEF Tenancy, resolveRequestTenant
  <1> QED BY <1>4 DEF crossCheckTenantHeader, Refuse

\* What OwnName says of it.
LEMMA NameReachesItsTenant ==
    ASSUME NEW t \in Allowed, Lower[t] = t, t \notin {Absent, Blank, Malformed},
           findDuplicateSecretValues(discoverAuthCandidates) = {},
           NEW key \in {secrets[SecretName[t]], secrets[LegacyVar]} \ {None}
    PROVE  Tenancy(key, t) = [ok |-> TRUE, tenant |-> t]
  <1>0. resolveTenantAlias(t) = t
    BY DEF resolveTenantAlias
  <1>1. CASE key = secrets[SecretName[t]]
    <2> DEFINE c == [tenant |-> t, key |-> key, legacy |-> FALSE]
    <2>1. c \in discoverAuthCandidates /\ c.key = key /\ c.tenant = t /\ ~c.legacy
      BY <1>1, OwnCandidate
    <2>2. resolveAuth(key) = [ok |-> TRUE, as |-> c]
      BY <2>1, AuthenticatesAs
    <2>3. Tenancy(key, t) = crossCheckTenantHeader(t, t)
      BY <2>1, <2>2 DEF Tenancy, resolveRequestTenant
    <2> QED BY <1>0, <2>3 DEF crossCheckTenantHeader
  <1>2. CASE key = secrets[LegacyVar]
    <2> DEFINE c == [tenant |-> None, key |-> key, legacy |-> TRUE]
    <2>1. c \in discoverAuthCandidates /\ c.key = key /\ c.legacy
      BY <1>2, LegacyCandidate
    <2>2. resolveAuth(key) = [ok |-> TRUE, as |-> c]
      BY <2>1, AuthenticatesAs
    <2>3. Tenancy(key, t) = resolveLegacyTenantFromHeader(t)
      BY <2>1, <2>2 DEF Tenancy, resolveRequestTenant
    <2> QED BY <1>0, <2>3 DEF resolveLegacyTenantFromHeader
  <1> QED BY <1>1, <1>2

\* No header, alias or letter case makes a tenant's own key another tenant's.
THEOREM KeysBind == Spec => []KeyBindsTenant
  <1>1. KeyBindsTenant
    BY KeyReachesItsTenant DEF KeyBindsTenant
  <1> QED BY <1>1, PTL

\* No alias takes the name of an allowed tenant away from it.
THEOREM NamesHold == Spec => []OwnName
  <1>1. OwnName
    BY NameReachesItsTenant, NamesAssumption DEF OwnName
  <1> QED BY <1>1, PTL

-----------------------------------------------------------------------------
(* Rotating the keys *)

\* A key that authenticates is one candidate's, and stays so while that candidate does
\* and no value is bound twice.
LEMMA StaysAuthenticated ==
    ASSUME NEW key \in Keys, resolveAuth(key).ok,
           findDuplicateSecretValues(discoverAuthCandidates)' = {},
           \A c \in discoverAuthCandidates : c.key = key => c \in discoverAuthCandidates'
    PROVE  resolveAuth(key)' = resolveAuth(key)
  <1> DEFINE C == discoverAuthCandidates
  <1>1. PICK c \in C : c.key = key
    <2>1. matchAuthCandidate(key, C) # {}
      BY DEF resolveAuth
    <2> QED BY <2>1 DEF matchAuthCandidate
  <1>2. resolveAuth(key) = [ok |-> TRUE, as |-> c]
    BY <1>1, AuthenticatesAs
  <1>3. c \in C' /\ c.key = key
    BY <1>1
  <1>4. \A d \in C' : d.key = key => d = c
    <2>1. \A d \in C' : d # c /\ d.key = c.key => <<c, d>> \in findDuplicateSecretValues(C)'
      BY <1>3 DEF findDuplicateSecretValues
    <2> QED BY <1>3, <2>1
  <1>5. matchAuthCandidate(key, C)' = {c}
    BY <1>3, <1>4 DEF matchAuthCandidate
  <1>6. resolveAuth(key)' = [ok |-> TRUE, as |-> CHOOSE x \in {c} : TRUE]
    BY <1>3, <1>5 DEF resolveAuth
  <1>7. (CHOOSE x \in {c} : TRUE) = c
    OBVIOUS
  <1> QED BY <1>2, <1>6, <1>7

LEMMA RotationStep ==
    ASSUME secrets \in [Vars -> Keys \cup {None}], [Next]_vars, secrets' # secrets,
           findDuplicateSecretValues(discoverAuthCandidates)' = {},
           NEW key \in Keys, NEW h \in Headers, Tenancy(key, h).ok, \E v \in Vars : secrets'[v] = key
    PROVE  Tenancy(key, h)' = Tenancy(key, h)
  <1>1. resolveAuth(key).ok
    BY DEF Tenancy
  <1>2. (\E t \in Allowed, k \in Keys : BindSecret(t, k)) \/ DropLegacy
    BY DEF Next, Unauthenticated, Denied, Limited, Admitted, TooLarge, Tick, vars
  <1>3. ASSUME NEW c \in discoverAuthCandidates, c.key = key PROVE c \in discoverAuthCandidates'
    <2>1. c.key # None
      BY <1>3, TenantsAssumption
    <2>2. \/ ~c.legacy /\ \E t \in Allowed : c = [tenant |-> t, key |-> secrets[SecretName[t]], legacy |-> FALSE]
          \/ c = [tenant |-> None, key |-> secrets[LegacyVar], legacy |-> TRUE]
      BY DEF discoverAuthCandidates
    <2>3. CASE \E t \in Allowed, k \in Keys : BindSecret(t, k)
      <3>1. \A v \in Vars : secrets[v] # None => secrets'[v] = secrets[v]
        BY <2>3 DEF BindSecret
      <3>2. LegacyVar \in Vars /\ \A t \in Allowed : SecretName[t] \in Vars
        BY DEF Vars
      <3> QED BY <2>1, <2>2, <3>1, <3>2 DEF discoverAuthCandidates
    <2>4. CASE DropLegacy
      <3>1. secrets' = [secrets EXCEPT ![LegacyVar] = None]
        BY <2>4 DEF DropLegacy
      <3>2. \A t \in Allowed : secrets'[SecretName[t]] = secrets[SecretName[t]]
        BY <3>1, TenantsAssumption
      <3>3. ~c.legacy
        <4>1. PICK v \in Vars : secrets'[v] = key
          OBVIOUS
        <4>2. v # LegacyVar
          BY <3>1, <4>1, TenantsAssumption DEF Vars
        <4>3. PICK t \in Allowed : v = SecretName[t]
          BY <4>2 DEF Vars
        <4>4. secrets[SecretName[t]] = key
          BY <3>2, <4>1, <4>3
        <4>5. [tenant |-> t, key |-> key, legacy |-> FALSE] \in discoverAuthCandidates
          BY <4>4, <2>1, <1>3, OwnCandidate
        <4>6. findDuplicateSecretValues(discoverAuthCandidates) = {}
          BY <1>1, <1>3, AuthenticatesAs
        <4> QED BY <1>3, <4>5, <4>6, OneMatch
      <3> QED BY <2>1, <2>2, <3>2, <3>3 DEF discoverAuthCandidates
    <2> QED BY <1>2, <2>3, <2>4
  <1>4. resolveAuth(key)' = resolveAuth(key)
    BY <1>1, <1>3, StaysAuthenticated
  <1> QED BY <1>4 DEF Tenancy

LEMMA SecretTypes == Spec => [](secrets \in [Vars -> Keys \cup {None}])
  <1> DEFINE T == secrets \in [Vars -> Keys \cup {None}]
  <1>1. Init => T
    BY DEF Init
  <1>2. T /\ [Next]_vars => T'
    BY DEF Next, Unauthenticated, Denied, Limited, Admitted, TooLarge, Tick, BindSecret, DropLegacy, vars
  <1> QED BY <1>1, <1>2, PTL DEF Spec

\* Rotation without downtime: binding a tenant's key, or dropping the shared one, changes
\* nothing for a call whose key is still bound, while no value is bound twice.
THEOREM RotatesSeamlessly == Spec => Seamless
  <1>1. secrets \in [Vars -> Keys \cup {None}] /\ [Next]_vars =>
          [findDuplicateSecretValues(discoverAuthCandidates)' = {} =>
             \A key \in Keys, h \in Headers :
               Tenancy(key, h).ok /\ (\E v \in Vars : secrets'[v] = key) =>
                 Tenancy(key, h)' = Tenancy(key, h)]_secrets
    BY RotationStep
  <1> QED BY <1>1, SecretTypes, PTL DEF Spec, Seamless

-----------------------------------------------------------------------------
(* Counting the requests of a stretch of time *)

At(s, from, to) == {i \in DOMAIN s : s[i] \in from..to}
Count(s, from, to) == Cardinality(At(s, from, to))

LEMMA CountIsNumber ==
    ASSUME NEW s \in Seq(Int), NEW from \in Int, NEW to \in Int
    PROVE  IsFiniteSet(At(s, from, to)) /\ Count(s, from, to) \in Nat
  <1>1. DOMAIN s = 1..Len(s) /\ Len(s) \in Nat
    OBVIOUS
  <1>2. IsFiniteSet(1..Len(s))
    BY <1>1, FS_Interval
  <1>3. At(s, from, to) \in SUBSET (1..Len(s))
    BY <1>1 DEF At
  <1>4. IsFiniteSet(At(s, from, to))
    BY <1>2, <1>3, FS_Subset
  <1> QED BY <1>4, FS_CardinalityType DEF Count

\* A longer stretch has no fewer.
LEMMA CountGrows ==
    ASSUME NEW s \in Seq(Int), NEW a \in Int, NEW b \in Int, NEW c \in Int, NEW d \in Int, c <= a, b <= d
    PROVE  Count(s, a, b) <= Count(s, c, d)
  <1>1. At(s, a, b) \in SUBSET At(s, c, d)
    BY DEF At
  <1> QED BY <1>1, CountIsNumber, FS_Subset DEF Count

\* Two stretches cover the one they meet in.
LEMMA CountSplits ==
    ASSUME NEW s \in Seq(Int), NEW a \in Int, NEW b \in Int, NEW c \in Int
    PROVE  Count(s, a, c) <= Count(s, a, b) + Count(s, b + 1, c)
  <1> DEFINE X == At(s, a, b)  Y == At(s, b + 1, c)
  <1>1. IsFiniteSet(X) /\ IsFiniteSet(Y) /\ Cardinality(X) \in Nat /\ Cardinality(Y) \in Nat
    BY CountIsNumber DEF Count
  <1>2. At(s, a, c) \in SUBSET (X \cup Y)
    <2>1. \A i \in DOMAIN s : s[i] \in Int
      OBVIOUS
    <2> QED BY <2>1 DEF At
  <1> HIDE DEF X, Y
  <1>3. /\ IsFiniteSet(X \cup Y) /\ IsFiniteSet(X \cap Y)
        /\ Cardinality(X \cup Y) = Cardinality(X) + Cardinality(Y) - Cardinality(X \cap Y)
    BY <1>1, FS_Union, FS_Intersection
  <1>4. Cardinality(X \cap Y) \in Nat
    BY <1>3, FS_CardinalityType
  <1>5. Cardinality(At(s, a, c)) <= Cardinality(X \cup Y)
    BY <1>2, <1>3, FS_Subset
  <1>6. Count(s, a, c) \in Nat /\ Cardinality(X \cup Y) \in Nat
    BY <1>3, CountIsNumber, FS_CardinalityType
  <1>7. Cardinality(At(s, a, c)) <= Cardinality(X) + Cardinality(Y)
    BY <1>1, <1>3, <1>4, <1>5, <1>6 DEF Count
  <1> QED BY <1>7 DEF Count, X, Y

\* One more request counts where its time falls.
LEMMA CountAppends ==
    ASSUME NEW s \in Seq(Int), NEW n \in Int, NEW a \in Int, NEW b \in Int
    PROVE  Count(Append(s, n), a, b) = Count(s, a, b) + (IF n \in a..b THEN 1 ELSE 0)
  <1> DEFINE r == Append(s, n)  k == Len(s) + 1
  <1>1. /\ Len(s) \in Nat /\ DOMAIN s = 1..Len(s) /\ DOMAIN r = 1..k
        /\ r[k] = n /\ \A i \in 1..Len(s) : r[i] = s[i]
    BY AppendProperties
  <1> HIDE DEF r
  <1>2. k \notin At(s, a, b)
    BY <1>1 DEF At
  <1>3. CASE n \in a..b
    <2>1. At(r, a, b) = At(s, a, b) \cup {k}
      BY <1>1, <1>3 DEF At
    <2>2. Cardinality(At(s, a, b) \cup {k}) = Cardinality(At(s, a, b)) + 1
      BY <1>2, CountIsNumber, FS_AddElement
    <2> QED BY <1>3, <2>1, <2>2 DEF Count, r
  <1>4. CASE n \notin a..b
    <2>1. At(r, a, b) = At(s, a, b)
      BY <1>1, <1>4 DEF At
    <2>2. Count(s, a, b) \in Nat
      BY CountIsNumber
    <2> QED BY <1>4, <2>1, <2>2 DEF Count, r
  <1> QED BY <1>3, <1>4

\* Nothing is counted of a time after the last.
LEMMA CountNone ==
    ASSUME NEW s \in Seq(Int), NEW a \in Int, NEW b \in Int, \A i \in DOMAIN s : s[i] < a
    PROVE  Count(s, a, b) = 0
  <1>1. \A i \in DOMAIN s : s[i] \in Int
    OBVIOUS
  <1>2. At(s, a, b) = {}
    BY <1>1 DEF At
  <1> QED BY <1>2, FS_EmptySet DEF Count

-----------------------------------------------------------------------------
(* The limiter *)

Window == [count: 1..(RATE_LIMIT + 1), resetAt: 1..(MaxTime + RATE_WINDOW)]
LimiterTypes ==
    /\ rateLimitMap \in [IPs -> {None} \cup Window]
    /\ now \in 0..MaxTime /\ passed \in [IPs -> Seq(0..MaxTime)]

\* What the limiter does: a request passes, or is refused, or time does.
Passes(ip) ==
    /\ ~Full(ip) /\ rateLimitMap' = Cleaned(Counted(ip))
    /\ passed' = [passed EXCEPT ![ip] = Append(@, now)] /\ now' = now
Refuses(ip) ==
    /\ Full(ip) /\ rateLimitMap' = [rateLimitMap EXCEPT ![ip].count = RATE_LIMIT + 1]
    /\ UNCHANGED <<passed, now>>

LEMMA LimiterSteps ==
    ASSUME [Next]_vars
    PROVE  \/ UNCHANGED <<rateLimitMap, passed, now>>
           \/ Tick
           \/ \E ip \in IPs : Passes(ip) \/ Refuses(ip)
  <1>1. ASSUME NEW req \in Requests
        PROVE  /\ Unauthenticated(req) \/ Denied(req) => UNCHANGED <<rateLimitMap, passed, now>>
               /\ Admitted(req) \/ TooLarge(req) => Passes(req.ip)
               /\ Limited(req) => Refuses(req.ip)
               /\ req.ip \in IPs
    <2>1. req \in Request
      BY RequestsAssumption
    <2> QED BY <2>1 DEF Request, Unauthenticated, Denied, Admitted, TooLarge, Limited, Passes, Refuses
  <1>2. \A t \in Allowed, k \in Keys : BindSecret(t, k) => UNCHANGED <<rateLimitMap, passed, now>>
    BY DEF BindSecret
  <1>3. DropLegacy \/ UNCHANGED vars => UNCHANGED <<rateLimitMap, passed, now>>
    BY DEF DropLegacy, vars
  <1> QED BY <1>1, <1>2, <1>3 DEF Next

\* The entry a request leaves for its own address is counted or fresh.
LEMMA PassesMap ==
    ASSUME LimiterTypes, NEW ip \in IPs, Passes(ip)
    PROVE  /\ rateLimitMap'[ip] = (IF Windowed(ip)
                 THEN [count |-> rateLimitMap[ip].count + 1, resetAt |-> rateLimitMap[ip].resetAt]
                 ELSE [count |-> 1, resetAt |-> now + RATE_WINDOW])
           /\ rateLimitMap'[ip] \in Window /\ now < rateLimitMap'[ip].resetAt
           /\ rateLimitMap' = [i \in IPs |-> rateLimitMap'[i]]
           /\ \A q \in IPs \ {ip} :
                rateLimitMap'[q] = rateLimitMap[q] \/ (~Windowed(q) /\ rateLimitMap'[q] = None)
  <1> DEFINE e == IF Windowed(ip)
                  THEN [count |-> rateLimitMap[ip].count + 1, resetAt |-> rateLimitMap[ip].resetAt]
                  ELSE [count |-> 1, resetAt |-> now + RATE_WINDOW]
             map == Counted(ip)
  <1>1. rateLimitMap[ip] # None => rateLimitMap[ip] \in Window
    BY DEF LimiterTypes
  <1>2. e \in Window /\ now < e.resetAt
    <2>1. CASE Windowed(ip)
      <3>1. rateLimitMap[ip] \in Window /\ rateLimitMap[ip].count < RATE_LIMIT /\ now < rateLimitMap[ip].resetAt
        BY <1>1, <2>1, LimitsAssumption DEF Windowed, Passes, Full, Window
      <3>2. rateLimitMap[ip].count + 1 \in 1..(RATE_LIMIT + 1)
        BY <3>1, LimitsAssumption DEF Window
      <3> QED BY <2>1, <3>1, <3>2 DEF Window
    <2>2. CASE ~Windowed(ip)
      BY <2>2, LimitsAssumption DEF Window, LimiterTypes
    <2> QED BY <2>1, <2>2
  <1>3. map = [rateLimitMap EXCEPT ![ip] = e]
    BY DEF Counted
  <1>4. map[ip] = e /\ DOMAIN map = IPs /\ \A q \in IPs \ {ip} : map[q] = rateLimitMap[q]
    BY <1>3 DEF LimiterTypes
  <1>5. ~(now >= e.resetAt)
    BY <1>2 DEF LimiterTypes, Window
  <1> HIDE DEF map, e
  <1>6. rateLimitMap' = Cleaned(map)
    BY DEF Passes, map
  <1>7. \/ rateLimitMap' = map
        \/ rateLimitMap' = [i \in IPs |-> IF map[i] # None /\ now >= map[i].resetAt THEN None ELSE map[i]]
    BY <1>6 DEF Cleaned
  <1>8. rateLimitMap'[ip] = e
    BY <1>4, <1>5, <1>7
  <1>9. DOMAIN rateLimitMap' = IPs /\ rateLimitMap' = [i \in IPs |-> rateLimitMap'[i]]
    BY <1>3, <1>4, <1>7 DEF LimiterTypes
  <1>10. ASSUME NEW q \in IPs \ {ip}
         PROVE  rateLimitMap'[q] = rateLimitMap[q] \/ (~Windowed(q) /\ rateLimitMap'[q] = None)
    <2>1. rateLimitMap[q] # None => rateLimitMap[q].resetAt \in Int /\ now \in Int
      BY DEF LimiterTypes, Window
    <2> QED BY <1>4, <1>7, <2>1 DEF Windowed
  <1> QED BY <1>2, <1>8, <1>9, <1>10 DEF e

LEMMA LimiterTypesStep == LimiterTypes /\ [Next]_vars => LimiterTypes'
  <1> SUFFICES ASSUME LimiterTypes, [Next]_vars PROVE LimiterTypes'
    OBVIOUS
  <1>1. ASSUME NEW ip \in IPs, Passes(ip) PROVE LimiterTypes'
    <2>1. \A q \in IPs : rateLimitMap'[q] \in {None} \cup Window
      BY <1>1, PassesMap DEF LimiterTypes
    <2>2. rateLimitMap' = [i \in IPs |-> rateLimitMap'[i]]
      BY <1>1, PassesMap
    <2>3. passed' \in [IPs -> Seq(0..MaxTime)] /\ now' = now
      <3>1. passed[ip] \in Seq(0..MaxTime) /\ now \in 0..MaxTime
        BY DEF LimiterTypes
      <3>2. Append(passed[ip], now) \in Seq(0..MaxTime)
        BY <3>1, AppendProperties
      <3> QED BY <1>1, <3>2 DEF Passes, LimiterTypes
    <2> QED BY <2>1, <2>2, <2>3 DEF LimiterTypes
  <1>2. ASSUME NEW ip \in IPs, Refuses(ip) PROVE LimiterTypes'
    <2>1. rateLimitMap[ip] \in Window
      BY <1>2 DEF LimiterTypes, Refuses, Full, Windowed
    <2>2. [rateLimitMap[ip] EXCEPT !.count = RATE_LIMIT + 1] \in Window
      BY <2>1, LimitsAssumption DEF Window
    <2> QED BY <1>2, <2>2 DEF LimiterTypes, Refuses
  <1>3. CASE Tick
    BY <1>3, LimitsAssumption DEF Tick, LimiterTypes
  <1>4. CASE UNCHANGED <<rateLimitMap, passed, now>>
    BY <1>4 DEF LimiterTypes
  <1> QED BY <1>1, <1>2, <1>3, <1>4, LimiterSteps

\* The start of an address's window.
Since(ip) == rateLimitMap[ip].resetAt - RATE_WINDOW

\* What stands of an address: requests passed in the past; an open window has counted
\* its own, and the window's length before it saw one window's worth; when none is open,
\* the last window's length did.
Metered(ip) ==
    /\ \A i \in DOMAIN passed[ip] : passed[ip][i] <= now
    /\ Windowed(ip) =>
         /\ Since(ip) <= now
         /\ Count(passed[ip], Since(ip), now) =
               (IF rateLimitMap[ip].count > RATE_LIMIT THEN RATE_LIMIT ELSE rateLimitMap[ip].count)
         /\ Count(passed[ip], Since(ip) - RATE_WINDOW + 1, Since(ip) - 1) <= RATE_LIMIT
    /\ ~Windowed(ip) =>
         /\ \A i \in DOMAIN passed[ip] : passed[ip][i] < now
         /\ Count(passed[ip], now - RATE_WINDOW + 1, now) <= RATE_LIMIT

\* One window's worth before the open one, and one in it: two in any stretch.
Bounded(ip) ==
    \A t \in Nat : Count(passed[ip], t, t + RATE_WINDOW - 1) <= 2 * RATE_LIMIT

LEMMA PassedTypes ==
    ASSUME LimiterTypes, NEW ip \in IPs
    PROVE  /\ passed[ip] \in Seq(Int) /\ now \in Nat /\ RATE_LIMIT \in Nat \ {0} /\ RATE_WINDOW \in Nat \ {0}
           /\ rateLimitMap[ip] # None => Since(ip) \in Int /\ rateLimitMap[ip].count \in Nat \ {0}
                                          /\ rateLimitMap[ip].resetAt \in Int
  <1>1. passed[ip] \in Seq(0..MaxTime)
    BY DEF LimiterTypes
  <1>2. 0..MaxTime \subseteq Int
    OBVIOUS
  <1>3. passed[ip] \in Seq(Int)
    BY <1>1, <1>2, SeqMonotonic
  <1>4. rateLimitMap[ip] # None => Since(ip) \in Int /\ rateLimitMap[ip].count \in Nat \ {0}
                                          /\ rateLimitMap[ip].resetAt \in Int
    BY LimitsAssumption DEF LimiterTypes, Window, Since
  <1> QED BY <1>3, <1>4, LimitsAssumption DEF LimiterTypes

\* A metered address, in a window that opens or is open, stays within two windows' worth
\* when a request of now is added: s is what passed before, S the window's start.
LEMMA TwoWindows ==
    ASSUME NEW s \in Seq(Int), NEW n \in Int, NEW S \in Int, NEW W \in Nat \ {0}, NEW L \in Nat,
           S <= n, n < S + W,
           \A i \in DOMAIN s : s[i] <= n,
           Count(s, S, n) + 1 <= L, Count(s, S - W + 1, S - 1) <= L,
           NEW t \in Int, Count(s, t, t + W - 1) <= 2 * L
    PROVE  Count(Append(s, n), t, t + W - 1) <= 2 * L
  <1>1. Count(s, t, t + W - 1) \in Nat /\ Count(s, S, n) \in Nat /\ Count(s, S - W + 1, S - 1) \in Nat
        /\ Count(s, t, S - 1) \in Nat /\ Count(s, S, t + W - 1) \in Nat /\ Count(s, n + 1, t + W - 1) \in Nat
    BY CountIsNumber
  <1>2. Count(Append(s, n), t, t + W - 1) = Count(s, t, t + W - 1) + (IF n \in t..(t + W - 1) THEN 1 ELSE 0)
    BY CountAppends
  <1>3. CASE n \notin t..(t + W - 1)
    BY <1>1, <1>2, <1>3
  <1>4. CASE n \in t..(t + W - 1)
    <2>1. Count(s, t, t + W - 1) <= Count(s, t, S - 1) + Count(s, S, t + W - 1)
      <3>1. Count(s, t, t + W - 1) <= Count(s, t, S - 1) + Count(s, (S - 1) + 1, t + W - 1)
        BY CountSplits
      <3>2. (S - 1) + 1 = S
        OBVIOUS
      <3> QED BY <3>1, <3>2
    <2>2. Count(s, S, t + W - 1) <= Count(s, S, n) + Count(s, n + 1, t + W - 1)
      BY CountSplits
    <2>3. Count(s, n + 1, t + W - 1) = 0
      <3>1. \A i \in DOMAIN s : s[i] \in Int
        OBVIOUS
      <3>2. \A i \in DOMAIN s : s[i] < n + 1
        BY <3>1
      <3> QED BY <3>2, CountNone
    <2>4. Count(s, t, S - 1) <= Count(s, S - W + 1, S - 1)
      <3>1. S - W + 1 <= t
        BY <1>4
      <3> QED BY <3>1, CountGrows
    <2>5. Count(Append(s, n), t, t + W - 1) = Count(s, t, t + W - 1) + 1
      BY <1>2, <1>4
    <2> DEFINE a == Count(s, t, t + W - 1)      b == Count(s, t, S - 1)  c == Count(s, S, t + W - 1)
               d == Count(s, n + 1, t + W - 1)  e == Count(s, S, n)      f == Count(s, S - W + 1, S - 1)
    <2>6. /\ a \in Nat /\ b \in Nat /\ c \in Nat /\ d \in Nat /\ e \in Nat /\ f \in Nat
          /\ a <= b + c /\ c <= e + d /\ d = 0 /\ b <= f /\ e + 1 <= L /\ f <= L
      BY <1>1, <2>1, <2>2, <2>3, <2>4
    <2> HIDE DEF a, b, c, d, e, f
    <2>7. a + 1 <= 2 * L
      BY <2>6
    <2> QED BY <2>5, <2>7 DEF a
  <1> QED BY <1>3, <1>4

\* A stretch that ends later than the last request has no more.
LEMMA CountLater ==
    ASSUME NEW s \in Seq(Int), NEW a \in Int, NEW b \in Int, \A i \in DOMAIN s : s[i] <= b
    PROVE  Count(s, a, b + 1) = Count(s, a, b)
  <1>1. \A i \in DOMAIN s : s[i] \in Int
    OBVIOUS
  <1>2. At(s, a, b + 1) = At(s, a, b)
    BY <1>1 DEF At
  <1> QED BY <1>2 DEF Count

\* A window is what its entry says.
LEMMA WindowedIs ==
    ASSUME LimiterTypes, NEW q \in IPs, rateLimitMap'[q] = rateLimitMap[q], now' = now
    PROVE  (Windowed(q)' <=> Windowed(q)) /\ Since(q)' = Since(q)
  BY DEF Windowed, Since

\* The address of the request itself, its window open or opening.
LEMMA PassesMetered ==
    ASSUME LimiterTypes, NEW ip \in IPs, Passes(ip), Metered(ip), Bounded(ip)
    PROVE  Metered(ip)' /\ Bounded(ip)'
  <1> DEFINE s == passed[ip]  S == rateLimitMap'[ip].resetAt - RATE_WINDOW
  <1>1. /\ s \in Seq(Int) /\ now \in Nat /\ RATE_LIMIT \in Nat \ {0} /\ RATE_WINDOW \in Nat \ {0}
        /\ now' = now /\ passed'[ip] = Append(s, now)
    BY PassedTypes DEF Passes, LimiterTypes
  <1>2. /\ rateLimitMap'[ip] \in Window /\ now < rateLimitMap'[ip].resetAt
        /\ Windowed(ip) => /\ rateLimitMap'[ip].count = rateLimitMap[ip].count + 1
                           /\ rateLimitMap'[ip].resetAt = rateLimitMap[ip].resetAt
        /\ ~Windowed(ip) => /\ rateLimitMap'[ip].count = 1
                            /\ rateLimitMap'[ip].resetAt = now + RATE_WINDOW
    <2>1. /\ rateLimitMap'[ip] \in Window /\ now < rateLimitMap'[ip].resetAt
          /\ rateLimitMap'[ip] = (IF Windowed(ip)
                 THEN [count |-> rateLimitMap[ip].count + 1, resetAt |-> rateLimitMap[ip].resetAt]
                 ELSE [count |-> 1, resetAt |-> now + RATE_WINDOW])
      BY PassesMap
    <2> QED BY <2>1
  <1>3. S \in Int /\ now < S + RATE_WINDOW /\ Since(ip)' = S
    BY <1>1, <1>2, LimitsAssumption DEF Window, Since
  <1>4. Windowed(ip)'
    <2>1. Window \subseteq [count: Nat, resetAt: Nat]
      BY LimitsAssumption DEF Window
    <2> QED BY <1>1, <1>2, <2>1, LimitsAssumption DEF Windowed
  <1>5. \A i \in DOMAIN s : s[i] <= now
    BY DEF Metered
  <1>6. /\ S <= now /\ Count(s, S, now) + 1 = rateLimitMap'[ip].count /\ rateLimitMap'[ip].count <= RATE_LIMIT
        /\ Count(s, S - RATE_WINDOW + 1, S - 1) <= RATE_LIMIT
    <2>1. CASE Windowed(ip)
      <3>1. rateLimitMap[ip].count \in Nat /\ rateLimitMap[ip].count < RATE_LIMIT /\ S = Since(ip)
        BY SMTT(30), <1>1, <1>2, <2>1, PassedTypes DEF Passes, Full, Windowed, Since
      <3>2. /\ Since(ip) <= now /\ Count(s, Since(ip), now) = rateLimitMap[ip].count
            /\ Count(s, Since(ip) - RATE_WINDOW + 1, Since(ip) - 1) <= RATE_LIMIT
        BY <1>1, <2>1, <3>1 DEF Metered
      <3> QED BY <1>1, <1>2, <2>1, <3>1, <3>2
    <2>2. CASE ~Windowed(ip)
      <3>1. S = now
        BY <1>1, <1>2, <2>2
      <3>2. Count(s, now, now) = 0
        BY <1>1, <2>2, CountNone DEF Metered
      <3>3. Count(s, now - RATE_WINDOW + 1, now - 1) <= Count(s, now - RATE_WINDOW + 1, now)
        BY <1>1, CountGrows
      <3>4. Count(s, now - RATE_WINDOW + 1, now) <= RATE_LIMIT
        BY <2>2 DEF Metered
      <3>5. Count(s, now - RATE_WINDOW + 1, now - 1) \in Nat /\ Count(s, now - RATE_WINDOW + 1, now) \in Nat
        BY <1>1, CountIsNumber
      <3>6. Count(s, now - RATE_WINDOW + 1, now - 1) <= RATE_LIMIT
        BY <1>1, <3>3, <3>4, <3>5
      <3> HIDE DEF S
      <3> QED BY <1>1, <1>2, <2>2, <3>1, <3>2, <3>6
    <2> QED BY <2>1, <2>2
  <1> HIDE DEF s, S
  <1>7. Bounded(ip)'
    <2> SUFFICES ASSUME NEW t \in Nat PROVE Count(Append(s, now), t, t + RATE_WINDOW - 1) <= 2 * RATE_LIMIT
      BY <1>1 DEF Bounded
    <2>1. Count(s, t, t + RATE_WINDOW - 1) <= 2 * RATE_LIMIT
      BY DEF Bounded, s
    <2>2. Count(s, S, now) + 1 <= RATE_LIMIT /\ Count(s, S - RATE_WINDOW + 1, S - 1) <= RATE_LIMIT
      BY <1>6
    <2>3. now \in Int /\ S \in Int /\ t \in Int /\ S <= now /\ now < S + RATE_WINDOW /\ RATE_LIMIT \in Nat
      BY <1>1, <1>3, <1>6
    <2> QED BY <1>1, <1>5, <2>1, <2>2, <2>3, TwoWindows
  <1>8. \A i \in DOMAIN Append(s, now) : Append(s, now)[i] <= now
    <2>1. /\ DOMAIN s = 1..Len(s) /\ DOMAIN Append(s, now) = 1..(Len(s) + 1) /\ Append(s, now)[Len(s) + 1] = now
          /\ \A i \in 1..Len(s) : Append(s, now)[i] = s[i]
      BY <1>1, AppendProperties
    <2> QED BY <1>1, <1>5, <2>1
  <1>9. Count(Append(s, now), S, now) = rateLimitMap'[ip].count
    <2>1. Count(Append(s, now), S, now) = Count(s, S, now) + 1
      <3>1. now \in S..now
        BY <1>1, <1>3, <1>6
      <3> QED BY <1>1, <1>3, <3>1, CountAppends
    <2> QED BY <1>6, <2>1
  <1>10. Count(Append(s, now), S - RATE_WINDOW + 1, S - 1) <= RATE_LIMIT
    <2>1. now \notin (S - RATE_WINDOW + 1)..(S - 1)
      BY <1>1, <1>3, <1>6
    <2>2. Count(s, S - RATE_WINDOW + 1, S - 1) \in Nat
      BY <1>1, <1>3, CountIsNumber
    <2>3. Count(Append(s, now), S - RATE_WINDOW + 1, S - 1) = Count(s, S - RATE_WINDOW + 1, S - 1)
      BY <1>1, <1>3, <2>1, <2>2, CountAppends
    <2> QED BY <1>6, <2>3
  <1>11. ~(rateLimitMap'[ip].count > RATE_LIMIT)
    BY <1>1, <1>2, <1>6 DEF Window
  <1> QED BY <1>1, <1>3, <1>4, <1>6, <1>7, <1>8, <1>9, <1>10, <1>11 DEF Metered

LEMMA OthersMetered ==
    ASSUME LimiterTypes, NEW q \in IPs, Metered(q), Bounded(q), passed'[q] = passed[q], now' = now,
           rateLimitMap'[q] = rateLimitMap[q] \/ (~Windowed(q) /\ rateLimitMap'[q] = None)
    PROVE  Metered(q)' /\ Bounded(q)'
  <1>1. CASE rateLimitMap'[q] = rateLimitMap[q]
    BY <1>1, WindowedIs DEF Metered, Bounded
  <1>2. CASE ~Windowed(q) /\ rateLimitMap'[q] = None
    <2>1. ~Windowed(q)'
      BY <1>2 DEF Windowed
    <2> QED BY <1>2, <2>1 DEF Metered, Bounded
  <1> QED BY <1>1, <1>2

LEMMA RefusesMetered ==
    ASSUME LimiterTypes, NEW ip \in IPs, Refuses(ip), Metered(ip), Bounded(ip)
    PROVE  Metered(ip)' /\ Bounded(ip)'
  <1>1. /\ passed' = passed /\ now' = now /\ Windowed(ip) /\ rateLimitMap[ip].count >= RATE_LIMIT
        /\ rateLimitMap[ip] \in Window /\ RATE_LIMIT \in Nat
    BY LimitsAssumption DEF Refuses, Full, Windowed, LimiterTypes
  <1>2. rateLimitMap'[ip] = [rateLimitMap[ip] EXCEPT !.count = RATE_LIMIT + 1]
    BY DEF Refuses, LimiterTypes
  <1>3. rateLimitMap'[ip].count = RATE_LIMIT + 1 /\ rateLimitMap'[ip].resetAt = rateLimitMap[ip].resetAt
        /\ rateLimitMap'[ip] # None
    <2>1. rateLimitMap'[ip] = [count |-> RATE_LIMIT + 1, resetAt |-> rateLimitMap[ip].resetAt]
      BY <1>1, <1>2 DEF Window
    <2>2. rateLimitMap'[ip] \in [count: Nat, resetAt: Nat]
      BY <1>1, <2>1, LimitsAssumption DEF Window
    <2> QED BY <2>1, <2>2, LimitsAssumption
  <1>4. Windowed(ip)' /\ Since(ip)' = Since(ip)
    BY <1>1, <1>3 DEF Windowed, Since
  <1>5. Count(passed[ip], Since(ip), now) = RATE_LIMIT
    <2>1. rateLimitMap[ip].count > RATE_LIMIT \/ rateLimitMap[ip].count = RATE_LIMIT
      BY <1>1 DEF Window
    <2> QED BY <1>1, <2>1 DEF Metered
  <1>6. rateLimitMap'[ip].count > RATE_LIMIT
    BY <1>1, <1>3
  <1> QED BY <1>1, <1>3, <1>4, <1>5, <1>6 DEF Metered, Bounded

LEMMA TickMetered ==
    ASSUME LimiterTypes, NEW q \in IPs, Tick, Metered(q), Bounded(q)
    PROVE  Metered(q)' /\ Bounded(q)'
  <1> DEFINE s == passed[q]  S == Since(q)
  <1>1. /\ s \in Seq(Int) /\ now \in Nat /\ RATE_LIMIT \in Nat \ {0} /\ RATE_WINDOW \in Nat \ {0}
        /\ now' = now + 1 /\ passed'[q] = s /\ rateLimitMap' = rateLimitMap /\ S = Since(q)'
        /\ rateLimitMap[q] # None => S \in Int /\ rateLimitMap[q].count \in Nat \ {0} /\ rateLimitMap[q].resetAt \in Int
    BY PassedTypes DEF Tick, Since
  <1>2. \A i \in DOMAIN s : s[i] <= now
    BY DEF Metered
  <1>3. \A i \in DOMAIN s : s[i] <= now + 1 /\ s[i] < now + 1
    <2>1. \A i \in DOMAIN s : s[i] \in Int
      BY <1>1
    <2> QED BY <1>1, <1>2, <2>1
  <1>4. \A a \in Int : Count(s, a, now + 1) = Count(s, a, now) /\ Count(s, a, now) \in Nat
    BY <1>1, <1>2, CountLater, CountIsNumber
  <1>5. Bounded(q)'
    BY <1>1 DEF Bounded
  <1>6. CASE Windowed(q)
    <2>1. /\ S \in Int /\ S <= now /\ S + RATE_WINDOW = rateLimitMap[q].resetAt
          /\ Count(s, S, now) = (IF rateLimitMap[q].count > RATE_LIMIT THEN RATE_LIMIT ELSE rateLimitMap[q].count)
          /\ Count(s, S - RATE_WINDOW + 1, S - 1) <= RATE_LIMIT /\ now < rateLimitMap[q].resetAt
          /\ rateLimitMap[q] # None
      BY <1>1, <1>6 DEF Metered, Windowed, Since
    <2>2. CASE Windowed(q)'
      <3>1. S <= now + 1
        BY <1>1, <2>1
      <3> HIDE DEF s, S
      <3> QED BY <1>1, <1>3, <1>4, <1>5, <2>1, <2>2, <3>1 DEF Metered
    <2>3. CASE ~Windowed(q)'
      <3>1. ~(now + 1 < rateLimitMap[q].resetAt)
        BY <1>1, <2>1, <2>3 DEF Windowed
      <3>2. now + 1 = S + RATE_WINDOW
        BY <1>1, <2>1, <3>1
      <3>3. Count(s, now + 1 - RATE_WINDOW + 1, now + 1) <= Count(s, S, now + 1)
        <4>1. S <= now + 1 - RATE_WINDOW + 1
          BY <1>1, <2>1, <3>2
        <4> QED BY <1>1, <2>1, <4>1, CountGrows
      <3>4. Count(s, S, now + 1) = Count(s, S, now)
        BY <1>4, <2>1
      <3>5. Count(s, S, now) <= RATE_LIMIT
        BY <1>1, <2>1
      <3>6. Count(s, now + 1 - RATE_WINDOW + 1, now + 1) <= RATE_LIMIT
        <4> DEFINE x == Count(s, now + 1 - RATE_WINDOW + 1, now + 1)  y == Count(s, S, now)
        <4>1. x \in Nat /\ y \in Nat
          BY <1>1, <2>1, CountIsNumber
        <4>2. x <= y /\ y <= RATE_LIMIT
          BY <3>3, <3>4, <3>5
        <4> HIDE DEF x, y
        <4>3. x <= RATE_LIMIT
          BY <1>1, <4>1, <4>2
        <4> QED BY <4>3 DEF x
      <3> HIDE DEF s, S
      <3>7. Count(passed'[q], now' - RATE_WINDOW + 1, now') <= RATE_LIMIT
        BY <1>1, <3>6
      <3>8. \A i \in DOMAIN passed'[q] : passed'[q][i] <= now' /\ passed'[q][i] < now'
        BY <1>1, <1>3
      <3> QED BY <1>5, <2>3, <3>7, <3>8 DEF Metered
    <2> QED BY <2>2, <2>3
  <1>7. CASE ~Windowed(q)
    <2>1. ~Windowed(q)'
      BY <1>1, <1>7 DEF Windowed
    <2>2. Count(s, now - RATE_WINDOW + 1, now) <= RATE_LIMIT
      BY <1>7 DEF Metered
    <2>3. Count(s, now + 1 - RATE_WINDOW + 1, now + 1) <= Count(s, now - RATE_WINDOW + 1, now + 1)
      BY <1>1, CountGrows
    <2>4. now - RATE_WINDOW + 1 \in Int
      BY <1>1
    <2>5. Count(s, now - RATE_WINDOW + 1, now + 1) = Count(s, now - RATE_WINDOW + 1, now)
      BY <1>4, <2>4
    <2>6. Count(s, now + 1 - RATE_WINDOW + 1, now + 1) <= RATE_LIMIT
      <3> DEFINE x == Count(s, now + 1 - RATE_WINDOW + 1, now + 1)  y == Count(s, now - RATE_WINDOW + 1, now)
      <3>1. x \in Nat /\ y \in Nat
        BY <1>1, CountIsNumber
      <3>2. x <= y /\ y <= RATE_LIMIT
        BY <2>2, <2>3, <2>5
      <3> HIDE DEF x, y
      <3>3. x <= RATE_LIMIT
        BY <1>1, <3>1, <3>2
      <3> QED BY <3>3 DEF x
    <2>7. Count(passed'[q], now' - RATE_WINDOW + 1, now') <= RATE_LIMIT
      BY <1>1, <2>6
    <2>8. \A i \in DOMAIN passed'[q] : passed'[q][i] <= now' /\ passed'[q][i] < now'
      BY <1>1, <1>3
    <2> QED BY <1>5, <2>1, <2>7, <2>8 DEF Metered
  <1> QED BY <1>6, <1>7

LimiterInv == LimiterTypes /\ \A ip \in IPs : Metered(ip) /\ Bounded(ip)

LEMMA LimiterInit == Init => LimiterInv
  <1> SUFFICES ASSUME Init PROVE LimiterInv
    OBVIOUS
  <1>1. LimiterTypes
    BY LimitsAssumption DEF Init, LimiterTypes
  <1>2. ASSUME NEW ip \in IPs PROVE Metered(ip) /\ Bounded(ip)
    <2>1. passed[ip] = <<>> /\ ~Windowed(ip)
      BY DEF Init, Windowed
    <2>2. \A a, b \in Int : Count(<<>>, a, b) = 0
      <3>1. <<>> \in Seq(Int) /\ \A a \in Int : \A i \in DOMAIN <<>> : <<>>[i] < a
        OBVIOUS
      <3> QED BY <3>1, CountNone
    <2>3. \A i \in DOMAIN passed[ip] : FALSE
      BY <2>1
    <2>4. now \in Int /\ RATE_WINDOW \in Int /\ RATE_LIMIT \in Nat
      BY LimitsAssumption DEF Init
    <2>5. Bounded(ip)
      BY <2>1, <2>2, <2>4 DEF Bounded
    <2> QED BY <2>1, <2>2, <2>3, <2>4, <2>5 DEF Metered
  <1> QED BY <1>1, <1>2 DEF LimiterInv

LEMMA LimiterNext == LimiterInv /\ [Next]_vars => LimiterInv'
  <1> SUFFICES ASSUME LimiterInv, [Next]_vars PROVE LimiterInv'
    OBVIOUS
  <1>0. LimiterTypes /\ LimiterTypes' /\ \A q \in IPs : Metered(q) /\ Bounded(q)
    BY LimiterTypesStep DEF LimiterInv
  <1> SUFFICES ASSUME NEW q \in IPs PROVE Metered(q)' /\ Bounded(q)'
    BY <1>0 DEF LimiterInv
  <1>1. ASSUME NEW ip \in IPs, Passes(ip) PROVE Metered(q)' /\ Bounded(q)'
    <2>1. CASE q = ip
      BY <1>0, <1>1, <2>1, PassesMetered
    <2>2. CASE q # ip
      <3>1. passed'[q] = passed[q] /\ now' = now
        BY <1>0, <1>1, <2>2 DEF Passes, LimiterTypes
      <3>2. rateLimitMap'[q] = rateLimitMap[q] \/ (~Windowed(q) /\ rateLimitMap'[q] = None)
        BY <1>0, <1>1, <2>2, PassesMap
      <3> QED BY <1>0, <3>1, <3>2, OthersMetered
    <2> QED BY <2>1, <2>2
  <1>2. ASSUME NEW ip \in IPs, Refuses(ip) PROVE Metered(q)' /\ Bounded(q)'
    <2>1. CASE q = ip
      BY <1>0, <1>2, <2>1, RefusesMetered
    <2>2. CASE q # ip
      <3>1. passed'[q] = passed[q] /\ now' = now /\ rateLimitMap'[q] = rateLimitMap[q]
        BY <1>0, <1>2, <2>2 DEF Refuses, LimiterTypes
      <3> QED BY <1>0, <3>1, OthersMetered
    <2> QED BY <2>1, <2>2
  <1>3. CASE Tick
    BY <1>0, <1>3, TickMetered
  <1>4. CASE UNCHANGED <<rateLimitMap, passed, now>>
    BY <1>0, <1>4, OthersMetered
  <1> QED BY <1>1, <1>2, <1>3, <1>4, LimiterSteps

\* However an address times its requests, whatever other addresses do to the map and
\* whenever it is cleaned, no stretch of a window's length lets in more than two
\* windows' worth.
THEOREM TwoWindowsAtMost == Spec => []SlidingBound
  <1>1. LimiterInv => SlidingBound
    <2> SUFFICES ASSUME LimiterInv, NEW ip \in IPs, NEW t \in 0..now
                 PROVE  Within(ip, t, t + RATE_WINDOW - 1) <= 2 * RATE_LIMIT
      BY DEF SlidingBound
    <2>1. t \in Nat
      OBVIOUS
    <2>2. Within(ip, t, t + RATE_WINDOW - 1) = Count(passed[ip], t, t + RATE_WINDOW - 1)
      BY DEF Within, Count, At
    <2> QED BY <2>1, <2>2 DEF LimiterInv, Bounded
  <1> QED BY <1>1, LimiterInit, LimiterNext, PTL DEF Spec

\* The last refusal was of an address with a window's worth behind it.
Refusal ==
    last.code = 429 =>
        /\ last.ip \in IPs /\ last.at \in Nat
        /\ Count(passed[last.ip], last.at - RATE_WINDOW + 1, last.at) >= RATE_LIMIT

\* Only a full window answers 429.
LEMMA RefusesOnlyFull ==
    ASSUME [Next]_vars, last'.code = 429
    PROVE  \/ last' = last
           \/ \E ip \in IPs : Refuses(ip) /\ last'.ip = ip /\ last'.at = now
  <1>1. ASSUME NEW req \in Requests, Limited(req) PROVE Refuses(req.ip) /\ last'.ip = req.ip /\ last'.at = now /\ req.ip \in IPs
    BY <1>1, RequestsAssumption DEF Request, Limited, Refuses, Answer
  <1>2. ASSUME NEW req \in Requests, Unauthenticated(req) \/ TooLarge(req) PROVE last'.code # 429
    BY <1>2 DEF Unauthenticated, TooLarge, Answer
  <1>3. ASSUME NEW req \in Requests, Denied(req) PROVE last'.code # 429
    <2>1. last'.code = resolveAuth(req.key).status /\ ~resolveAuth(req.key).ok
      BY <1>3 DEF Denied, Answer
    <2>2. resolveAuth(req.key).status \in {401, 503}
      BY <2>1 DEF resolveAuth
    <2> QED BY <2>1, <2>2
  <1>4. ASSUME NEW req \in Requests, Admitted(req) PROVE last'.code # 429
    <2>1. last'.code = Outcome(req)[1]
      BY <1>4 DEF Admitted, Answer
    <2>2. ~Tenancy(req.key, req.header).ok => Tenancy(req.key, req.header).status \in {400, 401, 403, 503}
      <3>1. ~resolveAuth(req.key).ok => resolveAuth(req.key).status \in {401, 503}
        BY DEF resolveAuth
      <3>2. \A c : ~resolveRequestTenant(c, req.header).ok =>
                    resolveRequestTenant(c, req.header).status \in {400, 403}
        BY DEF resolveRequestTenant, resolveLegacyTenantFromHeader, crossCheckTenantHeader, Refuse
      <3> QED BY <3>1, <3>2 DEF Tenancy
    <2>3. Outcome(req)[1] \in {200, 400, 401, 403, 404, 503}
      BY <2>2 DEF Outcome
    <2> QED BY <2>1, <2>3
  <1>5. (\E t \in Allowed, k \in Keys : BindSecret(t, k)) \/ DropLegacy \/ Tick \/ UNCHANGED vars => last' = last
    BY DEF BindSecret, DropLegacy, Tick, vars
  <1> QED BY <1>1, <1>2, <1>3, <1>4, <1>5 DEF Next

LEMMA RefusalNext == LimiterInv /\ Refusal /\ [Next]_vars => Refusal'
  <1> SUFFICES ASSUME LimiterInv, Refusal, [Next]_vars, last'.code = 429
               PROVE  /\ last'.ip \in IPs /\ last'.at \in Nat
                      /\ Count(passed'[last'.ip], last'.at - RATE_WINDOW + 1, last'.at) >= RATE_LIMIT
    BY DEF Refusal
  <1>0. LimiterTypes /\ RATE_LIMIT \in Nat \ {0} /\ RATE_WINDOW \in Nat \ {0} /\ now \in Nat
    BY LimitsAssumption DEF LimiterInv, LimiterTypes
  <1>1. ASSUME NEW ip \in IPs, Refuses(ip), last'.ip = ip, last'.at = now
        PROVE  Count(passed'[ip], now - RATE_WINDOW + 1, now) >= RATE_LIMIT
    <2>1. Windowed(ip) /\ rateLimitMap[ip].count >= RATE_LIMIT /\ passed' = passed
      BY <1>1 DEF Refuses, Full
    <2>2. Count(passed[ip], Since(ip), now) = RATE_LIMIT
      <3>1. rateLimitMap[ip].count \in Nat
        BY <1>0, <2>1, PassedTypes DEF Windowed
      <3> QED BY <1>0, <2>1, <3>1 DEF LimiterInv, Metered
    <2>3. now - RATE_WINDOW + 1 <= Since(ip) /\ Since(ip) \in Int
      BY <1>0, <2>1, PassedTypes DEF Windowed, Since
    <2>4. Count(passed[ip], Since(ip), now) <= Count(passed[ip], now - RATE_WINDOW + 1, now)
      BY <1>0, <2>3, PassedTypes, CountGrows
    <2> QED BY <2>1, <2>2, <2>4
  <1>2. CASE last' = last
    <2> DEFINE ip == last.ip  a == last.at - RATE_WINDOW + 1  b == last.at
    <2>1. ip \in IPs /\ b \in Nat /\ Count(passed[ip], a, b) >= RATE_LIMIT
      BY <1>2 DEF Refusal
    <2>2. a \in Int /\ b \in Int /\ passed[ip] \in Seq(Int)
      BY <1>0, <2>1, PassedTypes
    <2>3. passed'[ip] = passed[ip] \/ passed'[ip] = Append(passed[ip], now)
      <3>1. ASSUME NEW q \in IPs, Passes(q) PROVE passed'[ip] = passed[ip] \/ passed'[ip] = Append(passed[ip], now)
        BY <1>0, <2>1, <3>1 DEF Passes, LimiterTypes
      <3>2. (\E q \in IPs : Refuses(q)) \/ Tick \/ UNCHANGED <<rateLimitMap, passed, now>> => passed' = passed
        BY DEF Refuses, Tick
      <3> QED BY <3>1, <3>2, LimiterSteps
    <2> HIDE DEF a, b, ip
    <2>4. Count(passed[ip], a, b) \in Nat
      BY <2>2, CountIsNumber
    <2>5. Count(Append(passed[ip], now), a, b) = Count(passed[ip], a, b) + (IF now \in a..b THEN 1 ELSE 0)
      BY <1>0, <2>1, <2>2, CountAppends
    <2>6. Count(passed'[ip], a, b) >= RATE_LIMIT
      <3> DEFINE c == Count(passed[ip], a, b)
      <3>1. c \in Nat /\ c >= RATE_LIMIT /\ Count(Append(passed[ip], now), a, b) \in {c, c + 1}
        BY <2>1, <2>4, <2>5
      <3> HIDE DEF c
      <3>2. c + 1 >= RATE_LIMIT
        BY <1>0, <3>1
      <3>3. CASE passed'[ip] = passed[ip]
        BY <3>1, <3>3 DEF c
      <3>4. CASE passed'[ip] = Append(passed[ip], now)
        BY <3>1, <3>2, <3>4
      <3> QED BY <2>3, <3>3, <3>4
    <2> QED BY <1>2, <2>1, <2>6 DEF a, b, ip
  <1> QED BY <1>0, <1>1, <1>2, RefusesOnlyFull

\* A 429 answers only an address that a window's worth of requests passed for within
\* the last window: waiting one out (Retry-After: 60) is always enough.
THEOREM RefusalsJust == Spec => []RefusedJustly
  <1>1. Init => LimiterInv /\ Refusal
    BY LimiterInit DEF Init, Refusal
  <1>2. LimiterInv /\ Refusal /\ [Next]_vars => (LimiterInv /\ Refusal)'
    BY LimiterNext, RefusalNext
  <1>3. Refusal => RefusedJustly
    BY DEF Refusal, RefusedJustly, Within, Count, At
  <1> QED BY <1>1, <1>2, <1>3, PTL DEF Spec

-----------------------------------------------------------------------------
(* The search.  What a lane holds satisfied the filter when it was read, and what a search shows
   are rows of the first lane that brought them.  What an answer leaves to count is either
   counted, lost, or still to be done. *)

\* A lane read for the present request holds what was within its filter.
LanesWithin ==
  /\ ask # None => ask \in Asks
  /\ DOMAIN lanes = Search!Lanes
  /\ ask # None => \A l \in Search!Lanes : lanes[l] # None => \A o \in DOMAIN lanes[l] : Search!Within(ask, l, lanes[l][o])

\* The cascades of a pair that are under way.
Noting(pair) == {e \in pending : e.kind = "cascade" /\ pair \subseteq e.ids}

\* The shapes of what is counted; an effect is older than the search under way.
CountsTyped ==
  /\ rows = [o \in Obs |-> rows[o]]
  /\ \A o \in Obs : rows[o] # None =>
       rows[o] \in [territory : Territories, grip : Grips, linked : BOOLEAN, novelty : Int, surfaced : Nat]
  /\ due \in [Obs -> Nat] /\ lost \in [Obs -> Nat] /\ cascade \in [Search!Pairs -> Nat]
  /\ searches \in Nat
  /\ IsFiniteSet(pending)
  /\ \A e \in pending : e.search <= searches /\ (ask # None => e.search < searches) /\ e.search \in Nat

CountedOnce == \A o \in Obs : rows[o] # None => rows[o].surfaced + lost[o] + Cardinality(Search!Owed(o)) = due[o]

NotedBehind ==
  \A pair \in Search!Pairs : \A o \in pair : cascade[pair] + Cardinality(Noting(pair)) <= due[o]

CountsKept == CountsTyped /\ CountedOnce /\ NotedBehind

SearchInv == LanesWithin /\ Search!FilterKept /\ CountsKept

\* The search counts its sets as this module does.
LEMMA SameCount == Search!SurfacedOnce <=> CountedOnce
  <1>1. \A S : Search!Cardinality(S) = Cardinality(S)
    BY DEF Search!Cardinality, Cardinality
  <1> QED BY <1>1 DEF Search!SurfacedOnce, CountedOnce, Search!Gone

\* The larger of a number and zero is a number.
LEMMA MaxWithZero == \A x \in Int : Search!Max({x, 0}) \in Int
  <1> SUFFICES ASSUME NEW x \in Int PROVE Search!Max({x, 0}) \in Int
    OBVIOUS
  <1>1. \E y \in {x, 0} : \A z \in {x, 0} : y >= z
    OBVIOUS
  <1>2. Search!Max({x, 0}) = CHOOSE y \in {x, 0} : \A z \in {x, 0} : y >= z
    BY DEF Search!Max
  <1> QED BY <1>1, <1>2

\* Every candidate comes from a lane that brought it, and from one whose turn is first.
LEMMA FirstLane ==
    ASSUME NEW o \in Search!Found
    PROVE  /\ Search!Source(o) \in Search!By(o)
           /\ \A m \in Search!By(o) : Search!Turn(Search!Source(o)) <= Search!Turn(m)
  <1> DEFINE B == Search!By(o)
             Least(l) == l \in B /\ \A m \in B : Search!Turn(l) <= Search!Turn(m)
  <1>1. B # {} /\ B \subseteq {"vector", "keyword", "hint", "entity"}
    BY DEF Search!Found, Search!By, Search!Lanes
  <1>2. /\ Search!Turn("vector") = 1 /\ Search!Turn("keyword") = 2
        /\ \/ Search!Turn("hint") = 3 /\ Search!Turn("entity") = 4
           \/ Search!Turn("hint") = 4 /\ Search!Turn("entity") = 3
    BY DEF Search!Turn
  <1> HIDE DEF B
  <1>3. \E l \in B : \A m \in B : Search!Turn(l) <= Search!Turn(m)
    <2>1. CASE "vector" \in B
      BY <1>1, <1>2, <2>1
    <2>2. CASE "vector" \notin B /\ "keyword" \in B
      BY <1>1, <1>2, <2>2
    <2>3. CASE B = {"hint"} \/ B = {"entity"}
      BY <1>2, <2>3
    <2>4. CASE B = {"hint", "entity"}
      BY <1>2, <2>4
    <2>5. "vector" \notin B /\ "keyword" \notin B => B = {"hint"} \/ B = {"entity"} \/ B = {"hint", "entity"}
      BY <1>1
    <2> QED BY <2>1, <2>2, <2>3, <2>4, <2>5
  <1>4. Search!Source(o) = CHOOSE l \in B : \A m \in B : Search!Turn(l) <= Search!Turn(m)
    BY DEF Search!Source, B
  <1>5. Search!Source(o) \in B /\ \A m \in B : Search!Turn(Search!Source(o)) <= Search!Turn(m)
    BY <1>3, <1>4
  <1> QED BY <1>5 DEF B

\* What is shown is what was scored, but for the final score.
LEMMA ShownFromScored ==
    ASSUME NEW a, NEW C, NEW c \in Search!Shown(a, Search!applyRetrievalRerank(a, C)),
           \A d \in C : d = [id |-> d.id, row |-> d.row, by |-> d.by, turn |-> d.turn, place |-> d.place,
                              relevance |-> d.relevance, cued |-> d.cued, score |-> d.score, final |-> d.final]
    PROVE  \E d \in C : c.id = d.id /\ c.row = d.row /\ c.by = d.by
  <1>1. c \in Search!applyRetrievalRerank(a, C)
    BY DEF Search!Shown, Search!First
  <1>2. CASE ~a.rerank
    BY <1>1, <1>2 DEF Search!applyRetrievalRerank
  <1>3. CASE a.rerank
    <2> DEFINE head == Search!First(C, Search!Max({MinHead, a.top}))
               Raised(d) == d.final + Search!computeHeuristicDelta(a, d) * (Search!One(a.profile) \div 1000)
    <2>0. Search!applyRetrievalRerank(a, C) = (C \ head) \cup {[d EXCEPT !.final = Raised(d)] : d \in head}
      BY <1>3 DEF Search!applyRetrievalRerank
    <2>5. head \subseteq C
      BY DEF Search!First
    <2> HIDE DEF head, Raised
    <2>1. c \in C \/ \E d \in C : \E x : c = [d EXCEPT !.final = x]
      BY <1>1, <2>0, <2>5
    <2>2. CASE c \in C
      BY <2>2
    <2>3. CASE \E d \in C : \E x : c = [d EXCEPT !.final = x]
      <3>1. PICK d \in C : \E x : c = [d EXCEPT !.final = x]
        BY <2>3
      <3>2. c.id = d.id /\ c.row = d.row /\ c.by = d.by
        BY <3>1
      <3> QED BY <3>2
    <2> QED BY <2>1, <2>2, <2>3
  <1> QED BY <1>2, <1>3

\* An answer shows rows within the filter of its request.
LEMMA AnswerKeepsFilter ==
    ASSUME LanesWithin, Search!Answer
    PROVE  Search!FilterKept'
  <1>1. PICK scored \in {Search!Scored(ask)} :
          \E shown \in {Search!Shown(ask, Search!applyRetrievalRerank(ask, scored))} :
            answer' = [ask |-> ask, shown |-> shown, scored |-> scored]
    BY DEF Search!Answer
  <1>2. ask # None /\ \A l \in Search!Lanes : lanes[l] # None
    BY DEF Search!Answer, Search!NoAsk, Search!Unread
  <1>3. answer'.ask = ask /\ answer'.shown = Search!Shown(ask, Search!applyRetrievalRerank(ask, Search!Scored(ask)))
    BY <1>1
  <1> SUFFICES ASSUME NEW c \in answer'.shown, c.by # {"entity"} \/ ask.backend = "sqlite"
               PROVE  Search!Matches(ask, c.row)
    BY <1>3 DEF Search!FilterKept, Search!Matches
  <1>4. \A d \in Search!Scored(ask) : \E o \in Search!Found : d = Search!Candidate(ask, o)
    BY DEF Search!Scored
  <1>5. PICK d \in Search!Scored(ask) : c.id = d.id /\ c.row = d.row /\ c.by = d.by
    <2>1. \A d \in Search!Scored(ask) :
            d = [id |-> d.id, row |-> d.row, by |-> d.by, turn |-> d.turn, place |-> d.place,
                 relevance |-> d.relevance, cued |-> d.cued, score |-> d.score, final |-> d.final]
      BY <1>4 DEF Search!Candidate
    <2> QED BY <1>3, <2>1, ShownFromScored
  <1>6. PICK o \in Search!Found : d = Search!Candidate(ask, o)
    BY <1>4
  <1> DEFINE l == Search!Source(o)
  <1>7. c.row = lanes[l][o] /\ c.by = Search!By(o)
    BY <1>5, <1>6 DEF Search!Candidate
  <1>8. l \in Search!By(o) /\ \A m \in Search!By(o) : Search!Turn(l) <= Search!Turn(m)
    BY FirstLane
  <1>9. l \in Search!Lanes /\ o \in DOMAIN lanes[l]
    BY <1>8 DEF Search!By
  <1>10. Search!Within(ask, l, c.row)
    BY <1>2, <1>7, <1>9 DEF LanesWithin
  <1>11. CASE ask.backend = "sqlite"
    BY <1>10, <1>11 DEF Search!Within
  <1>12. CASE ask.backend # "sqlite" /\ c.by # {"entity"}
    <2>1. PICK m \in Search!By(o) : m # "entity"
      BY <1>7, <1>8, <1>12
    <2>2. m \in {"vector", "keyword", "hint"}
      BY <2>1 DEF Search!By, Search!Lanes
    <2>3. ask.backend = "postgres" => l # "entity"
      <3> SUFFICES ASSUME ask.backend = "postgres", l = "entity" PROVE FALSE
        OBVIOUS
      <3>1. Search!Turn("entity") = 4
        BY DEF Search!Turn
      <3>2. Search!Turn(m) \in {1, 2, 3}
        BY <2>2 DEF Search!Turn
      <3>3. Search!Turn("entity") <= Search!Turn(m)
        BY <1>8, <2>1
      <3> QED BY <3>1, <3>2, <3>3
    <2> QED BY <1>10, <2>3 DEF Search!Within
  <1> QED BY <1>11, <1>12

\* The lanes a step reads, it reads within the filter.
LEMMA LanesStayWithin ==
    ASSUME LanesWithin, Search!Next
    PROVE  LanesWithin'
  <1> USE DEF LanesWithin, Search!Gone, Search!Unread, Search!NoAsk
  <1>0. \A l \in Search!Lanes : \A o \in DOMAIN Search!Pooled(ask, l) : Search!Within(ask, l, Search!Pooled(ask, l)[o])
    BY DEF Search!Pooled, Search!Hits
  <1>1. ASSUME NEW a \in Asks, Search!Ask(a) PROVE LanesWithin'
    <2>1. ask' = a /\ lanes' = [l \in Search!Lanes |-> None]
      BY <1>1 DEF Search!Ask
    <2> QED BY <2>1
  <1>2. ASSUME NEW l \in Search!Lanes, Search!ReadLane(l) PROVE LanesWithin'
    <2>1. ask' = ask /\ lanes' = [lanes EXCEPT ![l] = Search!Pooled(ask, l)]
      BY <1>2 DEF Search!ReadLane
    <2>2. \A m \in Search!Lanes : lanes'[m] = IF m = l THEN Search!Pooled(ask, l) ELSE lanes[m]
      BY <2>1
    <2> QED BY <1>0, <2>1, <2>2 DEF Search!Within, Search!Matches
  <1>3. ASSUME NEW l \in Search!Lanes, Search!LaneFails(l) PROVE LanesWithin'
    <2>1. ask' = ask /\ lanes' = [lanes EXCEPT ![l] = <<>>] /\ DOMAIN <<>> = {}
      BY <1>3 DEF Search!LaneFails
    <2>2. \A m \in Search!Lanes : lanes'[m] = IF m = l THEN <<>> ELSE lanes[m]
      BY <2>1
    <2> QED BY <2>1, <2>2 DEF Search!Within, Search!Matches
  <1>4. CASE Search!ReadCollection
    <2>1. ask' = ask /\ lanes' = [l \in Search!Lanes |-> Search!Pooled(ask, l)]
      BY <1>4 DEF Search!ReadCollection
    <2>2. \A m \in Search!Lanes : lanes'[m] = Search!Pooled(ask, m)
      BY <2>1
    <2> QED BY <1>0, <2>1, <2>2 DEF Search!Within, Search!Matches
  <1>5. CASE Search!Answer
    BY <1>5 DEF Search!Answer
  <1>6. ASSUME UNCHANGED <<ask, lanes>> PROVE LanesWithin'
    BY <1>6 DEF Search!Within, Search!Matches
  <1>7. ASSUME NEW e \in pending, Search!updateSurfacingEffects(e) \/ Search!recordMemoryCascade(e) \/ Search!EffectFails(e)
        PROVE  UNCHANGED <<ask, lanes>>
    BY <1>7 DEF Search!updateSurfacingEffects, Search!recordMemoryCascade, Search!EffectFails
  <1>8. ASSUME NEW o, NEW row, Search!Edit(o, row) PROVE UNCHANGED <<ask, lanes>>
    BY <1>8 DEF Search!Edit
  <1> QED BY <1>1, <1>2, <1>3, <1>4, <1>5, <1>6, <1>7, <1>8 DEF Search!Next

\* The countings under way of a row, and the notings of a pair, are finitely many.
LEMMA UnderWay ==
    ASSUME CountsTyped
    PROVE  /\ \A o \in Obs : IsFiniteSet(Search!Owed(o)) /\ Cardinality(Search!Owed(o)) \in Nat
           /\ \A pair : IsFiniteSet(Noting(pair)) /\ Cardinality(Noting(pair)) \in Nat
  <1>1. IsFiniteSet(pending)
    BY DEF CountsTyped
  <1>2. ASSUME NEW o \in Obs PROVE IsFiniteSet(Search!Owed(o)) /\ Cardinality(Search!Owed(o)) \in Nat
    BY <1>1, FS_Subset, FS_CardinalityType DEF Search!Owed
  <1>3. ASSUME NEW pair PROVE IsFiniteSet(Noting(pair)) /\ Cardinality(Noting(pair)) \in Nat
    BY <1>1, FS_Subset, FS_CardinalityType DEF Noting
  <1> QED BY <1>2, <1>3

\* Until an answer, a search counts nothing.
LEMMA LookingCountsNothing ==
    ASSUME CountsKept, UNCHANGED <<rows, due, lost, cascade, pending>>,
           \/ ask' = ask /\ searches' = searches
           \/ searches' = searches + 1
    PROVE  CountsKept'
  <1>1. CountsTyped'
    BY DEF CountsKept, CountsTyped
  <1>2. CountedOnce'
    BY DEF CountsKept, CountedOnce, Search!Owed
  <1>3. NotedBehind'
    BY DEF CountsKept, NotedBehind, Noting
  <1> QED BY <1>1, <1>2, <1>3 DEF CountsKept

\* An answer leaves as much to count as it says is due, and cascades only what it showed.
LEMMA AnswerCounts ==
    ASSUME CountsKept, Search!Answer
    PROVE  CountsKept'
  <1>0. PICK shown : \E effects \in BOOLEAN :
          /\ due' = [o \in Obs |-> due[o] + IF effects /\ o \in Search!Ids(shown) THEN 1 ELSE 0]
          /\ pending' = IF effects
                        THEN pending \cup {[search |-> searches, kind |-> "surface", ids |-> Search!Ids(shown)],
                                           [search |-> searches, kind |-> "cascade",
                                            ids |-> Search!Ids(Search!First(shown, CascadeTop))]}
                        ELSE pending
    <2>1. PICK scored \in {Search!Scored(ask)} : \E shown \in {Search!Shown(ask, Search!applyRetrievalRerank(ask, scored))} :
            LET effects == ask.effects /\ shown # {} IN
              /\ due' = [o \in Obs |-> due[o] + IF effects /\ o \in Search!Ids(shown) THEN 1 ELSE 0]
              /\ pending' = IF effects
                            THEN pending \cup {[search |-> searches, kind |-> "surface", ids |-> Search!Ids(shown)],
                                               [search |-> searches, kind |-> "cascade",
                                                ids |-> Search!Ids(Search!First(shown, CascadeTop))]}
                            ELSE pending
      BY DEF Search!Answer
    <2>2. PICK shown : LET effects == ask.effects /\ shown # {} IN
              /\ due' = [o \in Obs |-> due[o] + IF effects /\ o \in Search!Ids(shown) THEN 1 ELSE 0]
              /\ pending' = IF effects
                            THEN pending \cup {[search |-> searches, kind |-> "surface", ids |-> Search!Ids(shown)],
                                               [search |-> searches, kind |-> "cascade",
                                                ids |-> Search!Ids(Search!First(shown, CascadeTop))]}
                            ELSE pending
      BY <2>1
    <2>3. (ask.effects /\ shown # {}) \in BOOLEAN
      OBVIOUS
    <2> QED BY <2>2, <2>3
  <1>1. PICK effects \in BOOLEAN :
          /\ due' = [o \in Obs |-> due[o] + IF effects /\ o \in Search!Ids(shown) THEN 1 ELSE 0]
          /\ pending' = IF effects
                        THEN pending \cup {[search |-> searches, kind |-> "surface", ids |-> Search!Ids(shown)],
                                           [search |-> searches, kind |-> "cascade",
                                            ids |-> Search!Ids(Search!First(shown, CascadeTop))]}
                        ELSE pending
    BY <1>0
  <1>2. /\ ask # None /\ ask' = None
        /\ UNCHANGED <<rows, lost, cascade, searches>>
    BY DEF Search!Answer, Search!NoAsk
  <1> DEFINE ids == Search!Ids(shown)
             top == Search!Ids(Search!First(shown, CascadeTop))
             s == [search |-> searches, kind |-> "surface", ids |-> ids]
             c == [search |-> searches, kind |-> "cascade", ids |-> top]
  <1>3. top \subseteq ids
    BY DEF Search!Ids, Search!First
  <1>4. /\ due' = [o \in Obs |-> due[o] + IF effects /\ o \in ids THEN 1 ELSE 0]
        /\ pending' = IF effects THEN pending \cup {s, c} ELSE pending
    BY <1>1
  <1>5. /\ s.kind = "surface" /\ s.ids = ids /\ s.search = searches
        /\ c.kind = "cascade" /\ c.ids = top /\ c.search = searches
    OBVIOUS
  <1>6. s \notin pending /\ c \notin pending /\ searches \in Nat
    BY <1>2, <1>5 DEF CountsKept, CountsTyped
  <1> HIDE DEF ids, top, s, c
  <1>7. CountsTyped'
    <2>1. IsFiniteSet(pending')
      <3>1. IsFiniteSet(pending)
        BY DEF CountsKept, CountsTyped
      <3>2. IsFiniteSet((pending \cup {s}) \cup {c})
        BY <3>1, FS_AddElement
      <3>3. pending \cup {s, c} = (pending \cup {s}) \cup {c}
        OBVIOUS
      <3> QED BY <1>4, <3>1, <3>2, <3>3
    <2>2. due' \in [Obs -> Nat]
      BY <1>4 DEF CountsKept, CountsTyped
    <2>3. \A e \in pending' : e.search <= searches' /\ (ask' # None => e.search < searches') /\ e.search \in Nat
      BY <1>2, <1>4, <1>5, <1>6 DEF CountsKept, CountsTyped
    <2> QED BY <1>2, <2>1, <2>2, <2>3 DEF CountsKept, CountsTyped
  <1>8. CountedOnce'
    <2> SUFFICES ASSUME NEW o \in Obs, rows[o] # None
                 PROVE  rows[o].surfaced + lost[o] + Cardinality(Search!Owed(o)') = due'[o]
      BY <1>2 DEF CountedOnce, Search!Owed
    <2>1. rows[o].surfaced + lost[o] + Cardinality(Search!Owed(o)) = due[o]
      BY DEF CountsKept, CountedOnce
    <2>2. /\ IsFiniteSet(Search!Owed(o)) /\ Cardinality(Search!Owed(o)) \in Nat
          /\ rows[o].surfaced \in Nat /\ lost[o] \in Nat /\ due[o] \in Nat
      BY UnderWay DEF CountsKept, CountsTyped
    <2>3. CASE effects /\ o \in ids
      <3>1. Search!Owed(o)' = Search!Owed(o) \cup {s}
        BY <1>4, <1>5, <2>3 DEF Search!Owed
      <3>2. s \notin Search!Owed(o)
        BY <1>6 DEF Search!Owed
      <3>3. Cardinality(Search!Owed(o)') = Cardinality(Search!Owed(o)) + 1
        BY <2>2, <3>1, <3>2, FS_AddElement
      <3>4. due'[o] = due[o] + 1
        BY <1>4, <2>3
      <3> QED BY <2>1, <2>2, <3>3, <3>4
    <2>4. CASE ~(effects /\ o \in ids)
      <3>1. Search!Owed(o)' = Search!Owed(o)
        BY <1>4, <1>5, <2>4 DEF Search!Owed
      <3>2. due'[o] = due[o]
        BY <1>4, <2>2, <2>4
      <3> QED BY <2>1, <3>1, <3>2
    <2> QED BY <2>3, <2>4
  <1>9. NotedBehind'
    <2> SUFFICES ASSUME NEW pair \in Search!Pairs, NEW o \in pair
                 PROVE  cascade[pair] + Cardinality(Noting(pair)') <= due'[o]
      BY <1>2 DEF NotedBehind, Noting, Search!Pairs
    <2>1. cascade[pair] + Cardinality(Noting(pair)) <= due[o]
      BY DEF CountsKept, NotedBehind
    <2>2. /\ IsFiniteSet(Noting(pair)) /\ Cardinality(Noting(pair)) \in Nat
          /\ o \in Obs /\ cascade[pair] \in Nat /\ due[o] \in Nat
      BY UnderWay DEF CountsKept, CountsTyped, Search!Pairs
    <2>3. CASE effects /\ pair \subseteq top
      <3>1. Noting(pair)' = Noting(pair) \cup {c}
        BY <1>4, <1>5, <2>3 DEF Noting
      <3>2. c \notin Noting(pair)
        BY <1>6 DEF Noting
      <3>3. Cardinality(Noting(pair)') = Cardinality(Noting(pair)) + 1
        BY <2>2, <3>1, <3>2, FS_AddElement
      <3>4. due'[o] = due[o] + 1
        BY <1>3, <1>4, <2>2, <2>3
      <3> QED BY <2>1, <2>2, <3>3, <3>4
    <2>4. CASE ~(effects /\ pair \subseteq top)
      <3>1. Noting(pair)' = Noting(pair)
        BY <1>4, <1>5, <2>4 DEF Noting
      <3>2. due'[o] = due[o] \/ due'[o] = due[o] + 1
        BY <1>4, <2>2
      <3> QED BY <2>1, <2>2, <3>1, <3>2
    <2> QED BY <2>3, <2>4
  <1> QED BY <1>7, <1>8, <1>9 DEF CountsKept

\* An effect done or lost is under way no longer.
LEMMA OneFewer ==
    ASSUME CountsKept, NEW e \in pending, pending' = pending \ {e}
    PROVE  /\ \A o \in Obs : Cardinality(Search!Owed(o)') =
                Cardinality(Search!Owed(o)) - (IF e.kind = "surface" /\ o \in e.ids THEN 1 ELSE 0)
           /\ \A pair : Cardinality(Noting(pair)') =
                Cardinality(Noting(pair)) - (IF e.kind = "cascade" /\ pair \subseteq e.ids THEN 1 ELSE 0)
           /\ IsFiniteSet(pending')
  <1>1. ASSUME NEW o \in Obs
        PROVE  Cardinality(Search!Owed(o)') =
                 Cardinality(Search!Owed(o)) - (IF e.kind = "surface" /\ o \in e.ids THEN 1 ELSE 0)
    <2>1. IsFiniteSet(Search!Owed(o)) /\ Cardinality(Search!Owed(o)) \in Nat
      BY UnderWay DEF CountsKept
    <2>2. CASE e.kind = "surface" /\ o \in e.ids
      <3>1. Search!Owed(o)' = Search!Owed(o) \ {e} /\ e \in Search!Owed(o)
        BY <2>2 DEF Search!Owed
      <3> QED BY <2>1, <2>2, <3>1, FS_RemoveElement
    <2>3. CASE ~(e.kind = "surface" /\ o \in e.ids)
      <3>1. Search!Owed(o)' = Search!Owed(o)
        BY <2>3 DEF Search!Owed
      <3> QED BY <2>1, <2>3, <3>1
    <2> QED BY <2>2, <2>3
  <1>2. ASSUME NEW pair
        PROVE  Cardinality(Noting(pair)') =
                 Cardinality(Noting(pair)) - (IF e.kind = "cascade" /\ pair \subseteq e.ids THEN 1 ELSE 0)
    <2>1. IsFiniteSet(Noting(pair)) /\ Cardinality(Noting(pair)) \in Nat
      BY UnderWay DEF CountsKept
    <2>2. CASE e.kind = "cascade" /\ pair \subseteq e.ids
      <3>1. Noting(pair)' = Noting(pair) \ {e} /\ e \in Noting(pair)
        BY <2>2 DEF Noting
      <3> QED BY <2>1, <2>2, <3>1, FS_RemoveElement
    <2>3. CASE ~(e.kind = "cascade" /\ pair \subseteq e.ids)
      <3>1. Noting(pair)' = Noting(pair)
        BY <2>3 DEF Noting
      <3> QED BY <2>1, <2>3, <3>1
    <2> QED BY <2>2, <2>3
  <1>3. IsFiniteSet(pending')
    BY FS_RemoveElement DEF CountsKept, CountsTyped
  <1> QED BY <1>1, <1>2, <1>3

\* What is under way is a number of things.
LEMMA EffectNumbers ==
    ASSUME CountsKept
    PROVE  /\ \A o \in Obs : Cardinality(Search!Owed(o)) \in Nat /\ due[o] \in Nat /\ lost[o] \in Nat
           /\ \A pair \in Search!Pairs : Cardinality(Noting(pair)) \in Nat /\ cascade[pair] \in Nat /\ pair \subseteq Obs
  BY UnderWay DEF CountsKept, CountsTyped, Search!Pairs

\* A row counted once more is a row.
LEMMA CountedRow ==
    ASSUME NEW row \in [territory : Territories, grip : Grips, linked : BOOLEAN, novelty : Int, surfaced : Nat],
           NEW n \in Nat, NEW x \in Int
    PROVE  /\ [row EXCEPT !.surfaced = n, !.novelty = x] \in
                [territory : Territories, grip : Grips, linked : BOOLEAN, novelty : Int, surfaced : Nat]
           /\ [row EXCEPT !.surfaced = n, !.novelty = x].surfaced = n
  <1>1. [row EXCEPT !.surfaced = n] \in [territory : Territories, grip : Grips, linked : BOOLEAN, novelty : Int, surfaced : Nat]
    OBVIOUS
  <1>2. [row EXCEPT !.surfaced = n].surfaced = n
    OBVIOUS
  <1> QED BY <1>1, <1>2

\* Counting a row that was shown moves one from the countings under way to the row.
LEMMA SurfacingCounts ==
    ASSUME CountsKept, NEW e \in pending, Search!updateSurfacingEffects(e)
    PROVE  CountsKept'
  <1> DEFINE Aged(o) == Search!Max({rows[o].novelty - Wear, 0})
             Told(o) == [rows[o] EXCEPT !.surfaced = rows[o].surfaced + 1, !.novelty = Aged(o)]
  <1>1. /\ e.kind = "surface" /\ pending' = pending \ {e}
        /\ rows' = [o \in Obs |-> IF o \in e.ids /\ rows[o] # None THEN Told(o) ELSE rows[o]]
        /\ UNCHANGED <<ask, due, lost, cascade, searches>>
    BY DEF Search!updateSurfacingEffects, Search!Gone
  <1>2. ASSUME NEW o \in Obs, rows[o] # None
        PROVE  /\ Told(o).surfaced = rows[o].surfaced + 1
               /\ Told(o) \in [territory : Territories, grip : Grips, linked : BOOLEAN, novelty : Int, surfaced : Nat]
    <2>1. rows[o] \in [territory : Territories, grip : Grips, linked : BOOLEAN, novelty : Int, surfaced : Nat]
      BY <1>2 DEF CountsKept, CountsTyped
    <2>2. Aged(o) \in Int
      <3>1. Wear \in Nat
        BY ToolsAssumption DEF Search!RetrievalAssumption
      <3>2. rows[o].novelty - Wear \in Int
        BY <2>1, <3>1
      <3> QED BY <3>2, MaxWithZero
    <2> HIDE DEF Aged
    <2>3. rows[o].surfaced + 1 \in Nat
      BY <2>1
    <2> QED BY <2>1, <2>2, <2>3, CountedRow
  <1> HIDE DEF Told
  <1>3. \A o \in Obs : rows'[o] = IF o \in e.ids /\ rows[o] # None THEN Told(o) ELSE rows[o]
    BY <1>1
  <1>4. CountsTyped'
    <2>1. rows' = [o \in Obs |-> rows'[o]]
      BY <1>1
    <2>2. \A o \in Obs : rows'[o] # None =>
            rows'[o] \in [territory : Territories, grip : Grips, linked : BOOLEAN, novelty : Int, surfaced : Nat]
      BY <1>2, <1>3 DEF CountsKept, CountsTyped
    <2> QED BY <1>1, <2>1, <2>2, OneFewer DEF CountsKept, CountsTyped
  <1>5. CountedOnce'
    <2> SUFFICES ASSUME NEW o \in Obs, rows'[o] # None
                 PROVE  rows'[o].surfaced + lost'[o] + Cardinality(Search!Owed(o)') = due'[o]
      BY DEF CountedOnce
    <2>1. /\ Cardinality(Search!Owed(o)') = Cardinality(Search!Owed(o)) - (IF o \in e.ids THEN 1 ELSE 0)
          /\ Cardinality(Search!Owed(o)) \in Nat /\ due[o] \in Nat /\ lost[o] \in Nat
      BY <1>1, OneFewer, EffectNumbers
    <2>2. rows[o] # None
      BY <1>3
    <2>3. rows'[o].surfaced = rows[o].surfaced + (IF o \in e.ids THEN 1 ELSE 0) /\ rows[o].surfaced \in Nat
      BY <1>2, <1>3, <2>2 DEF CountsKept, CountsTyped
    <2>4. rows[o].surfaced + lost[o] + Cardinality(Search!Owed(o)) = due[o]
      BY <2>2 DEF CountsKept, CountedOnce
    <2> QED BY <1>1, <2>1, <2>3, <2>4
  <1>6. NotedBehind'
    <2> SUFFICES ASSUME NEW pair \in Search!Pairs, NEW o \in pair
                 PROVE  cascade[pair] + Cardinality(Noting(pair)') <= due[o]
      BY <1>1 DEF NotedBehind, Search!Pairs
    <2>1. Cardinality(Noting(pair)') = Cardinality(Noting(pair)) /\ Cardinality(Noting(pair)) \in Nat
      BY <1>1, OneFewer, EffectNumbers
    <2> QED BY <2>1 DEF CountsKept, NotedBehind
  <1> QED BY <1>4, <1>5, <1>6 DEF CountsKept

\* Noting the pairs of a cascade moves one from the cascades under way to each of its pairs.
LEMMA CascadeCounts ==
    ASSUME CountsKept, NEW e \in pending, Search!recordMemoryCascade(e)
    PROVE  CountsKept'
  <1>1. /\ e.kind = "cascade" /\ pending' = pending \ {e}
        /\ cascade' = [pair \in Search!Pairs |-> cascade[pair] + IF pair \subseteq e.ids THEN 1 ELSE 0]
        /\ UNCHANGED <<rows, ask, due, lost, searches>>
    BY DEF Search!recordMemoryCascade
  <1>2. CountsTyped'
    <2>1. cascade' \in [Search!Pairs -> Nat]
      BY <1>1 DEF CountsKept, CountsTyped
    <2> QED BY <1>1, <2>1, OneFewer DEF CountsKept, CountsTyped
  <1>3. CountedOnce'
    <2> SUFFICES ASSUME NEW o \in Obs, rows[o] # None
                 PROVE  rows[o].surfaced + lost[o] + Cardinality(Search!Owed(o)') = due[o]
      BY <1>1 DEF CountedOnce
    <2>1. Cardinality(Search!Owed(o)') = Cardinality(Search!Owed(o)) /\ Cardinality(Search!Owed(o)) \in Nat
      BY <1>1, OneFewer, EffectNumbers
    <2> QED BY <2>1 DEF CountsKept, CountedOnce
  <1>4. NotedBehind'
    <2> SUFFICES ASSUME NEW pair \in Search!Pairs, NEW o \in pair
                 PROVE  cascade'[pair] + Cardinality(Noting(pair)') <= due[o]
      BY <1>1 DEF NotedBehind, Search!Pairs
    <2>1. /\ Cardinality(Noting(pair)') = Cardinality(Noting(pair)) - (IF pair \subseteq e.ids THEN 1 ELSE 0)
          /\ Cardinality(Noting(pair)) \in Nat /\ cascade[pair] \in Nat /\ due[o] \in Nat
      BY <1>1, OneFewer, EffectNumbers
    <2>2. cascade'[pair] = cascade[pair] + IF pair \subseteq e.ids THEN 1 ELSE 0
      BY <1>1
    <2>3. cascade[pair] + Cardinality(Noting(pair)) <= due[o]
      BY DEF CountsKept, NotedBehind
    <2> QED BY <2>1, <2>2, <2>3
  <1> QED BY <1>2, <1>3, <1>4 DEF CountsKept

\* What is not done is lost to the rows it would have counted.
LEMMA FailureCounts ==
    ASSUME CountsKept, NEW e \in pending, Search!EffectFails(e)
    PROVE  CountsKept'
  <1>1. /\ pending' = pending \ {e}
        /\ lost' = [o \in Obs |-> lost[o] + IF e.kind = "surface" /\ o \in e.ids THEN 1 ELSE 0]
        /\ UNCHANGED <<rows, ask, due, cascade, searches>>
    BY DEF Search!EffectFails
  <1>2. CountsTyped'
    <2>1. lost' \in [Obs -> Nat]
      BY <1>1 DEF CountsKept, CountsTyped
    <2> QED BY <1>1, <2>1, OneFewer DEF CountsKept, CountsTyped
  <1>3. CountedOnce'
    <2> SUFFICES ASSUME NEW o \in Obs, rows[o] # None
                 PROVE  rows[o].surfaced + lost'[o] + Cardinality(Search!Owed(o)') = due[o]
      BY <1>1 DEF CountedOnce
    <2> DEFINE one == IF e.kind = "surface" /\ o \in e.ids THEN 1 ELSE 0
    <2>1. /\ Cardinality(Search!Owed(o)') = Cardinality(Search!Owed(o)) - one
          /\ Cardinality(Search!Owed(o)) \in Nat /\ due[o] \in Nat /\ lost[o] \in Nat
      BY <1>1, OneFewer, EffectNumbers
    <2>2. lost'[o] = lost[o] + one /\ one \in Nat
      BY <1>1
    <2> HIDE DEF one
    <2>3. rows[o].surfaced \in Nat /\ rows[o].surfaced + lost[o] + Cardinality(Search!Owed(o)) = due[o]
      BY DEF CountsKept, CountsTyped, CountedOnce
    <2> QED BY <2>1, <2>2, <2>3
  <1>4. NotedBehind'
    <2> SUFFICES ASSUME NEW pair \in Search!Pairs, NEW o \in pair
                 PROVE  cascade[pair] + Cardinality(Noting(pair)') <= due[o]
      BY <1>1 DEF NotedBehind, Search!Pairs
    <2>1. /\ Cardinality(Noting(pair)') <= Cardinality(Noting(pair)) /\ Cardinality(Noting(pair)') \in Int
          /\ Cardinality(Noting(pair)) \in Nat /\ cascade[pair] \in Nat /\ due[o] \in Nat
      BY <1>1, OneFewer, EffectNumbers
    <2>2. cascade[pair] + Cardinality(Noting(pair)) <= due[o]
      BY DEF CountsKept, NotedBehind
    <2> QED BY <2>1, <2>2
  <1> QED BY <1>2, <1>3, <1>4 DEF CountsKept

\* An edit changes what a row says, never how often it surfaced.
LEMMA EditCountsNothing ==
    ASSUME CountsKept, NEW o \in Obs, NEW row, Search!Edit(o, row),
           \/ row = None
           \/ /\ row \in [territory : Territories, grip : Grips, linked : BOOLEAN, novelty : Int, surfaced : Nat]
              /\ row.surfaced = rows[o].surfaced
    PROVE  CountsKept'
  <1>1. /\ rows[o] # None /\ rows' = [rows EXCEPT ![o] = row]
        /\ UNCHANGED <<ask, due, lost, cascade, pending, searches>>
    BY DEF Search!Edit, Search!Gone
  <1>2. /\ rows' = [p \in Obs |-> rows'[p]]
        /\ \A p \in Obs : rows'[p] = IF p = o THEN row ELSE rows[p]
    BY <1>1 DEF CountsKept, CountsTyped
  <1>3. CountsTyped'
    BY <1>1, <1>2 DEF CountsKept, CountsTyped
  <1>4. CountedOnce'
    <2> SUFFICES ASSUME NEW p \in Obs, rows'[p] # None
                 PROVE  rows'[p].surfaced + lost[p] + Cardinality(Search!Owed(p)) = due[p]
      BY <1>1 DEF CountedOnce, Search!Owed
    <2>1. rows[p] # None /\ rows'[p].surfaced = rows[p].surfaced
      BY <1>1, <1>2
    <2> QED BY <2>1 DEF CountsKept, CountedOnce
  <1>5. NotedBehind'
    BY <1>1 DEF CountsKept, NotedBehind, Noting
  <1> QED BY <1>3, <1>4, <1>5 DEF CountsKept

\* Every step of a search keeps what is counted.
LEMMA StepsCount ==
    ASSUME CountsKept, Search!Next
    PROVE  CountsKept'
  <1>1. CASE \E a \in Asks : Search!Ask(a)
    BY <1>1, LookingCountsNothing DEF Search!Ask
  <1>2. CASE \E l \in Search!Lanes : Search!ReadLane(l) \/ Search!LaneFails(l)
    BY <1>2, LookingCountsNothing DEF Search!ReadLane, Search!LaneFails
  <1>3. CASE Search!ReadCollection
    BY <1>3, LookingCountsNothing DEF Search!ReadCollection
  <1>4. CASE Search!Answer
    BY <1>4, AnswerCounts
  <1>5. ASSUME NEW e \in pending,
               Search!updateSurfacingEffects(e) \/ Search!recordMemoryCascade(e) \/ Search!EffectFails(e)
        PROVE  CountsKept'
    BY <1>5, SurfacingCounts, CascadeCounts, FailureCounts
  <1>6. \A o \in Obs : rows[o] # None =>
          rows[o] \in [territory : Territories, grip : Grips, linked : BOOLEAN, novelty : Int, surfaced : Nat]
    BY DEF CountsKept, CountsTyped
  <1>7. ASSUME NEW o \in Obs, NEW g \in Grips, rows[o] # None, Search!Edit(o, [rows[o] EXCEPT !.grip = g])
        PROVE  CountsKept'
    <2> DEFINE row == [rows[o] EXCEPT !.grip = g]
    <2>1. /\ row \in [territory : Territories, grip : Grips, linked : BOOLEAN, novelty : Int, surfaced : Nat]
          /\ row.surfaced = rows[o].surfaced
      BY <1>6, <1>7
    <2> QED BY <1>7, <2>1, EditCountsNothing
  <1>8. ASSUME NEW o \in Obs, rows[o] # None, Search!Edit(o, [rows[o] EXCEPT !.linked = TRUE])
        PROVE  CountsKept'
    <2> DEFINE row == [rows[o] EXCEPT !.linked = TRUE]
    <2>1. /\ row \in [territory : Territories, grip : Grips, linked : BOOLEAN, novelty : Int, surfaced : Nat]
          /\ row.surfaced = rows[o].surfaced
      BY <1>6, <1>8
    <2> QED BY <1>8, <2>1, EditCountsNothing
  <1>9. ASSUME NEW o \in Obs, Search!Edit(o, None)
        PROVE  CountsKept'
    BY <1>9, EditCountsNothing
  <1> QED BY <1>1, <1>2, <1>3, <1>4, <1>5, <1>7, <1>8, <1>9 DEF Search!Next, Search!Gone

\* A search begins with nothing shown and nothing counted.
LEMMA SearchStarts ==
    ASSUME Search!Init
    PROVE  SearchInv
  <1>1. LanesWithin
    BY DEF Search!Init, LanesWithin, Search!NoAsk
  <1>2. Search!FilterKept
    BY DEF Search!Init, Search!FilterKept
  <1>3. /\ rows \in [Obs -> [territory : Territories, grip : Grips, linked : BOOLEAN, novelty : Nat, surfaced : {0}]]
        /\ pending = {} /\ due = [o \in Obs |-> 0] /\ lost = [o \in Obs |-> 0]
        /\ cascade = [pair \in Search!Pairs |-> 0] /\ searches = 0
    BY ToolsAssumption DEF Search!Init, Search!RetrievalAssumption, Search!Row
  <1>4. CountsTyped
    <2>1. \A o \in Obs : rows[o] \in [territory : Territories, grip : Grips, linked : BOOLEAN, novelty : Int, surfaced : Nat]
      <3>1. ASSUME NEW o \in Obs
            PROVE  rows[o] \in [territory : Territories, grip : Grips, linked : BOOLEAN, novelty : Int, surfaced : Nat]
        <4>1. rows[o] \in [territory : Territories, grip : Grips, linked : BOOLEAN, novelty : Nat, surfaced : {0}]
          BY <1>3
        <4> QED BY <4>1
      <3> QED BY <3>1
    <2>2. rows = [o \in Obs |-> rows[o]]
      BY <1>3
    <2>3. IsFiniteSet(pending)
      BY <1>3, FS_EmptySet
    <2> QED BY <1>3, <2>1, <2>2, <2>3 DEF CountsTyped
  <1>5. Cardinality({}) = 0
    BY FS_EmptySet
  <1>6. CountedOnce
    <2> SUFFICES ASSUME NEW o \in Obs
                 PROVE  rows[o].surfaced + lost[o] + Cardinality(Search!Owed(o)) = due[o]
      BY DEF CountedOnce
    <2>1. Search!Owed(o) = {}
      BY <1>3 DEF Search!Owed
    <2>2. rows[o].surfaced = 0
      BY <1>3
    <2> QED BY <1>3, <1>5, <2>1, <2>2
  <1>7. NotedBehind
    <2> SUFFICES ASSUME NEW pair \in Search!Pairs, NEW o \in pair
                 PROVE  cascade[pair] + Cardinality(Noting(pair)) <= due[o]
      BY DEF NotedBehind
    <2>1. Noting(pair) = {} /\ o \in Obs
      BY <1>3 DEF Noting, Search!Pairs
    <2> QED BY <1>3, <1>5, <2>1
  <1> QED BY <1>1, <1>2, <1>4, <1>6, <1>7 DEF SearchInv, CountsKept

\* Whatever the front door and the other tools do, a step keeps it.
LEMMA SearchSteps ==
    ASSUME SearchInv, [AllNext]_all
    PROVE  SearchInv'
  <1>1. CASE Search!Next
    <2>1. Search!FilterKept'
      <3>1. CASE Search!Answer
        BY <3>1, AnswerKeepsFilter DEF SearchInv
      <3>2. CASE answer' = answer
        BY <3>2 DEF SearchInv, Search!FilterKept, Search!Matches
      <3>3. Search!Answer \/ answer' = answer
        BY <1>1 DEF Search!Next, Search!Ask, Search!ReadLane, Search!LaneFails, Search!ReadCollection,
             Search!updateSurfacingEffects, Search!recordMemoryCascade, Search!EffectFails, Search!Edit
      <3> QED BY <3>1, <3>2, <3>3
    <2> QED BY <1>1, <2>1, LanesStayWithin, StepsCount DEF SearchInv
  <1>2. CASE UNCHANGED Finds
    <2>1. UNCHANGED <<ask, lanes, answer>> /\ UNCHANGED <<rows, pending, due, lost, cascade, searches>>
      BY <1>2 DEF Finds
    <2>2. LanesWithin'
      BY <2>1 DEF SearchInv, LanesWithin, Search!Within, Search!Matches
    <2>3. Search!FilterKept'
      BY <2>1 DEF SearchInv, Search!FilterKept, Search!Matches
    <2>4. CountsKept'
      BY <2>1, LookingCountsNothing DEF SearchInv
    <2> QED BY <2>2, <2>3, <2>4 DEF SearchInv
  <1> QED BY <1>1, <1>2 DEF AllNext, all

\* Two observations were noted together no more often than an answer showed each.
LEMMA NotedWhenShown ==
    ASSUME SearchInv
    PROVE  SearchTrue
  <1>1. Search!CascadeBacked
    <2> SUFFICES ASSUME NEW pair \in Search!Pairs, NEW o \in pair
                 PROVE  cascade[pair] <= due[o]
      BY DEF Search!CascadeBacked
    <2>1. cascade[pair] + Cardinality(Noting(pair)) <= due[o]
      BY DEF SearchInv, CountsKept, NotedBehind
    <2>2. Cardinality(Noting(pair)) \in Nat /\ cascade[pair] \in Nat /\ due[o] \in Nat
      BY EffectNumbers DEF SearchInv
    <2> QED BY <2>1, <2>2
  <1> QED BY <1>1, SameCount DEF SearchInv, CountsKept, SearchTrue

\* mind_query, for all rows, requests, scorers and profiles, in every interleaving of lanes,
\* edits, answers and their effects: a row is shown only if it was within the territory and the
\* grips asked for when read, each answer counts each row it showed once, and a pair is noted
\* together no more often than an answer showed both.
THEOREM SearchShowsAndCounts == AllSpec => []SearchTrue
  <1>1. AllInit => SearchInv
    BY SearchStarts DEF AllInit
  <1>2. SearchInv /\ [AllNext]_all => SearchInv'
    BY SearchSteps
  <1>3. SearchInv => SearchTrue
    BY NotedWhenShown
  <1> QED BY <1>1, <1>2, <1>3, PTL DEF AllSpec

-----------------------------------------------------------------------------
(* The registry.  Each step of a call rests on what an earlier one made sure of, while other calls
   write the same tables: that the entity it holds was a project or an agent, that the manifest
   it is about to write names a router exactly where it is routed.  As the types an entity has
   had only grow, what was made sure of stays so, and it is what the tables are written from. *)

LegSteps   == {"readEntity", "writeEntity", "readDossier", "writeDossier"}
OfProject  == {"insertDossier", "readBase", "readDossier", "writeDossier"}
OfAgent    == {"reread", "assertRouter", "insertManifest", "writeManifest"}
Identified == OfProject \cup OfAgent \cup {"readEntity", "writeEntity", "assertProject", "readManifest", "assertAgent", "writeLink"}

\* A manifest as it may be stored, and what an update may hold: one that is or becomes routed
\* names its router, one that clears the router gives a mode that has none.
CardFit(card) == card.router \in EntityIds \cup {None} /\ (card.mode = "router" => card.router # None)
UpdateFit(card) ==
  /\ card.router \in EntityIds \cup {None, Same}
  /\ card.mode = "router" => card.router \in EntityIds
  /\ card.router = None => card.mode # Same /\ card.mode # "router"

\* What was fresh sure of before a step is taken, b being the types each entity has had.
Ready(s, k, b) ==
  /\ s \in Identified => k.id \in EntityIds
  /\ s \in OfProject => "project" \in b[k.id]
  /\ s \in OfAgent => "agent" \in b[k.id]
  /\ s \in {"assertAgent", "assertRouter", "insertManifest", "writeManifest"} => CardFit(k.card)
  /\ s \in {"insertManifest", "writeManifest"} /\ k.card.router # None => "agent" \in b[k.card.router]
  /\ s = "reread" => UpdateFit(k.card) /\ k.then = "writeManifest"
  /\ s = "assertAgent" => k.then = "insertManifest"
  /\ s = "assertRouter" => k.then \in {"insertManifest", "writeManifest"} /\ k.card.router # None
  /\ s = "writeLink" => b[k.id] # {}
  /\ s = "writeRelation" => b[k.ask.id] # {} /\ b[k.ask.to] # {}
  /\ s = "readTags" => DOMAIN k.of = {}
  /\ s \in {"resolve", "insertTag", "linkRows"} =>
       /\ k.rows \subseteq {o \in Obs : Tags[o] # <<>>}
       /\ \A t \in DOMAIN k.of : k.of[t] \in EntityIds /\ b[k.of[t]] # {}
  /\ s = "linkRows" => \A o \in k.rows : Tags[o][1] \in DOMAIN k.of

AskedFit(s, k) ==
  /\ k.ask \in Wishes
  /\ s \in {"link", "writeLink"} => k.ask.kind = "link"
  /\ s \in {"relate", "writeRelation"} => k.ask.kind = "relate"
  /\ s # "find" /\ k.ask.kind \in {"agent.create", "agent.normalize"} => Register!WellRouted(k.ask.mode, k.ask.router)
  /\ s = "insertEntity" => k.ask.kind \in {"entity.create", "project.create", "agent.normalize"}
  /\ s = "readManifest" => k.ask.kind \in {"agent.create", "agent.update", "agent.normalize"}
  /\ s = "readBase" => k.ask.kind = "project.update"

\* Two steps are in hand at once only where a project and its dossier are updated.
Lone(k) == (\E s : k.todo \subseteq {s}) \/ (k.ask.kind = "project.update" /\ k.todo \subseteq LegSteps)
InHand(k, b) == Lone(k) /\ \A s \in k.todo : AskedFit(s, k) /\ Ready(s, k, b)

\* A call has the fields it starts with.
IsCall(k) ==
  k = [ask |-> k.ask, todo |-> k.todo, id |-> k.id, entity |-> k.entity, dossier |-> k.dossier, card |-> k.card,
       then |-> k.then, rows |-> k.rows, of |-> k.of, tag |-> k.tag, end |-> k.end, before |-> k.before]

Shaped ==
  /\ entities = [i \in EntityIds |-> entities[i]] /\ been = [i \in EntityIds |-> been[i]]
  /\ dossiers = [i \in EntityIds |-> dossiers[i]] /\ manifests = [i \in EntityIds |-> manifests[i]]
  /\ links = [o \in Obs |-> links[o]]
CallsFit ==
  /\ doing = [c \in Clients |-> doing[c]]
  /\ \A c \in Clients : IsCall(doing[c]) /\ InHand(doing[c], been)
TypeHad == \A i \in EntityIds : entities[i] # None => entities[i].type \in been[i]

RegistryInv == Shaped /\ TypeHad /\ CallsFit /\ FiledTrue

Grown == Shaped' /\ \A i \in EntityIds : been[i] \subseteq been'[i]

LEMMA RegisterAssumed == Register!RegistryAssumption
  BY ToolsAssumption

\* What a call holds after two or three of its fields are set.
FoundAs(k, x, y)      == [k EXCEPT !.id = x, !.entity = y]
ProjectAs(k, x, y, z) == [k EXCEPT !.id = x, !.entity = y, !.dossier = z]
PlannedAs(k, x, y)    == [k EXCEPT !.card = x, !.then = y]

LEMMA FoundSet ==
    ASSUME NEW k, IsCall(k), NEW x, NEW y
    PROVE  IsCall(FoundAs(k, x, y)) /\ FoundAs(k, x, y).ask = k.ask /\ FoundAs(k, x, y).id = x
  <1> DEFINE m == [k EXCEPT !.id = x]
  <1>1. FoundAs(k, x, y) = [m EXCEPT !.entity = y]
    BY DEF FoundAs
  <1>2. IsCall(m) /\ m.ask = k.ask /\ m.id = x
    BY DEF IsCall
  <1> HIDE DEF m
  <1> QED BY <1>1, <1>2 DEF IsCall

LEMMA ProjectSet ==
    ASSUME NEW k, IsCall(k), NEW x, NEW y, NEW z
    PROVE  IsCall(ProjectAs(k, x, y, z)) /\ ProjectAs(k, x, y, z).ask = k.ask /\ ProjectAs(k, x, y, z).id = x
  <1> DEFINE m == FoundAs(k, x, y)
  <1>1. ProjectAs(k, x, y, z) = [m EXCEPT !.dossier = z]
    BY DEF ProjectAs, FoundAs
  <1>2. IsCall(m) /\ m.ask = k.ask /\ m.id = x
    BY FoundSet
  <1> HIDE DEF m
  <1> QED BY <1>1, <1>2 DEF IsCall

LEMMA PlanSet ==
    ASSUME NEW k, IsCall(k), NEW x, NEW y
    PROVE  /\ IsCall(PlannedAs(k, x, y)) /\ PlannedAs(k, x, y).ask = k.ask /\ PlannedAs(k, x, y).id = k.id
           /\ PlannedAs(k, x, y).card = x /\ PlannedAs(k, x, y).then = y
  <1> DEFINE m == [k EXCEPT !.card = x]
  <1>1. PlannedAs(k, x, y) = [m EXCEPT !.then = y]
    BY DEF PlannedAs
  <1>2. IsCall(m) /\ m.ask = k.ask /\ m.id = k.id /\ m.card = x
    BY DEF IsCall
  <1> HIDE DEF m
  <1> QED BY <1>1, <1>2 DEF IsCall

\* What a step leaves in the call that takes it, and in the others.
LEMMA Going ==
    ASSUME CallsFit, NEW c \in Clients, NEW k, IsCall(k), NEW step, NEW next, Register!Goes(c, step, k, next)
    PROVE  /\ doing' = [d \in Clients |-> doing'[d]]
           /\ \A d \in Clients \ {c} : doing'[d] = doing[d]
           /\ IsCall(doing'[c]) /\ doing'[c].todo = (doing[c].todo \ {step}) \cup next
           /\ doing'[c].ask = k.ask /\ doing'[c].id = k.id /\ doing'[c].card = k.card /\ doing'[c].then = k.then
           /\ doing'[c].rows = k.rows /\ doing'[c].of = k.of
  <1> DEFINE todo == (doing[c].todo \ {step}) \cup next
             new == [k EXCEPT !.todo = todo]
  <1>1. doing' = [doing EXCEPT ![c] = new]
    BY DEF Register!Goes
  <1>2. doing = [d \in Clients |-> doing[d]]
    BY DEF CallsFit
  <1> HIDE DEF new
  <1>3. doing'[c] = new /\ (\A d \in Clients \ {c} : doing'[d] = doing[d]) /\ doing' = [d \in Clients |-> doing'[d]]
    BY <1>1, <1>2
  <1>4. new = [ask |-> k.ask, todo |-> todo, id |-> k.id, entity |-> k.entity, dossier |-> k.dossier, card |-> k.card,
               then |-> k.then, rows |-> k.rows, of |-> k.of, tag |-> k.tag, end |-> k.end, before |-> k.before]
    BY DEF new, IsCall
  <1>5. /\ new.todo = todo /\ new.ask = k.ask /\ new.id = k.id /\ new.card = k.card /\ new.then = k.then
        /\ new.rows = k.rows /\ new.of = k.of /\ IsCall(new)
    BY <1>4 DEF IsCall
  <1> QED BY <1>3, <1>5

\* What was fresh sure of stays so: the types an entity has had only grow.
LEMMA StaysReady ==
    ASSUME Shaped, Grown, NEW s, NEW k, Ready(s, k, been), AskedFit(s, k)
    PROVE  Ready(s, k, been')
  <1>1. \A i \in EntityIds : been[i] \subseteq been'[i]
    BY DEF Grown
  <1>2. s = "writeRelation" => k.ask.id \in EntityIds /\ k.ask.to \in EntityIds
    BY RegisterAssumed DEF AskedFit, Register!RegistryAssumption
  <1>3. s = "writeLink" => k.id \in EntityIds
    BY DEF Ready, Identified
  <1>4. s \in {"insertManifest", "writeManifest"} /\ k.card.router # None => k.card.router \in EntityIds
    BY DEF Ready, CardFit
  <1>5. s \in OfProject \cup OfAgent => k.id \in EntityIds
    BY DEF Ready, Identified
  <1>6. /\ s = "writeLink" => been'[k.id] # {}
        /\ s = "writeRelation" => been'[k.ask.id] # {} /\ been'[k.ask.to] # {}
    BY <1>1, <1>2, <1>3 DEF Ready
  <1>7. s \in {"resolve", "insertTag", "linkRows"} => \A t \in DOMAIN k.of : k.of[t] \in EntityIds /\ been'[k.of[t]] # {}
    BY <1>1 DEF Ready
  <1> QED BY <1>1, <1>4, <1>5, <1>6, <1>7 DEF Ready

\* A step whose next steps are ready leaves every call with steps that are.
LEMMA Proceeds ==
    ASSUME Shaped, CallsFit, Grown,
           NEW c \in Clients, NEW step \in doing[c].todo, NEW k, IsCall(k), k.ask = doing[c].ask,
           NEW next, Register!Goes(c, step, k, next),
           \A s \in next : AskedFit(s, k) /\ Ready(s, k, been'),
           (\E s : next \subseteq {s}) \/ (k.ask.kind = "project.update" /\ next \subseteq LegSteps),
           step \in LegSteps /\ k.ask.kind = "project.update" => next \subseteq LegSteps /\ k.id = doing[c].id
    PROVE  CallsFit'
  <1> DEFINE new == doing'[c]
  <1>1. /\ doing' = [d \in Clients |-> doing'[d]] /\ (\A d \in Clients \ {c} : doing'[d] = doing[d])
        /\ IsCall(new) /\ new.todo = (doing[c].todo \ {step}) \cup next
        /\ new.ask = k.ask /\ new.id = k.id /\ new.card = k.card /\ new.then = k.then
        /\ new.rows = k.rows /\ new.of = k.of
    BY Going
  <1> HIDE DEF new
  <1>2. \A s \in next : AskedFit(s, new) /\ Ready(s, new, been')
    BY <1>1 DEF AskedFit, Ready
  <1>3. ASSUME NEW t, doing[c].todo \subseteq {t}
        PROVE  InHand(new, been')
    <2>1. doing[c].todo \ {step} = {}
      BY <1>3
    <2>2. new.todo = next
      BY <1>1, <2>1
    <2> QED BY <1>1, <1>2, <2>2 DEF InHand, Lone
  <1>4. ASSUME k.ask.kind = "project.update" /\ doing[c].todo \subseteq LegSteps
        PROVE  InHand(new, been')
    <2>1. step \in LegSteps /\ next \subseteq LegSteps /\ new.id = doing[c].id
      BY <1>1, <1>4
    <2>2. ASSUME NEW s \in doing[c].todo PROVE AskedFit(s, new) /\ Ready(s, new, been')
      <3>1. s \in LegSteps /\ AskedFit(s, doing[c]) /\ Ready(s, doing[c], been)
        BY <1>4 DEF CallsFit, InHand
      <3>2. Ready(s, doing[c], been')
        BY <3>1, StaysReady
      <3>3. new.ask = doing[c].ask
        BY <1>1
      <3> QED BY <2>1, <3>1, <3>2, <3>3 DEF LegSteps, AskedFit, Ready, OfAgent
    <2>3. new.todo \subseteq LegSteps
      BY <1>1, <1>4, <2>1
    <2> QED BY <1>1, <1>2, <1>4, <2>2, <2>3 DEF InHand, Lone
  <1>5. IsCall(new) /\ InHand(new, been')
    <2>1. InHand(doing[c], been)
      BY DEF CallsFit
    <2> QED BY <1>1, <1>3, <1>4, <2>1 DEF InHand, Lone
  <1>6. ASSUME NEW d \in Clients \ {c} PROVE IsCall(doing'[d]) /\ InHand(doing'[d], been')
    <2>1. doing'[d] = doing[d] /\ IsCall(doing[d]) /\ InHand(doing[d], been)
      BY <1>1 DEF CallsFit
    <2> QED BY <2>1, StaysReady DEF InHand
  <1> QED BY <1>1, <1>5, <1>6 DEF CallsFit, new

\* A call that ends keeps what the others fresh sure of.
LEMMA Ending ==
    ASSUME Shaped, CallsFit, Grown, NEW c \in Clients, NEW step \in doing[c].todo, NEW how, Register!Ends(c, step, how)
    PROVE  CallsFit'
  <1> DEFINE k == [doing[c] EXCEPT !.end = how]
  <1>1. IsCall(doing[c])
    BY DEF CallsFit
  <1>2. IsCall(k) /\ k.ask = doing[c].ask /\ k.id = doing[c].id
    BY <1>1 DEF IsCall
  <1>3. Register!Goes(c, step, k, {})
    BY DEF Register!Ends
  <1> HIDE DEF k
  <1>4. \E s : {} \subseteq {s}
    OBVIOUS
  <1> QED BY <1>2, <1>3, <1>4, Proceeds

\* Where no table changes, nothing that is filed does.
LEMMA TablesStay ==
    ASSUME Shaped, TypeHad, FiledTrue, UNCHANGED Register!tables
    PROVE  Shaped' /\ TypeHad' /\ FiledTrue' /\ Grown
  <1>1. UNCHANGED <<entities, dossiers, manifests, links, relations, been>>
    BY DEF Register!tables
  <1> QED BY <1>1 DEF Shaped, TypeHad, FiledTrue, Grown, Register!OneName, Register!Routed, Register!Rooted

\* The steps that only look.
LEMMA LookingKeeps ==
    ASSUME RegistryInv, UNCHANGED Register!tables, Shaped /\ Grown => CallsFit'
    PROVE  RegistryInv'
  BY TablesStay DEF RegistryInv

LEMMA AskKeeps ==
    ASSUME RegistryInv, NEW c \in Clients, NEW a \in Wishes, Register!Ask(c, a)
    PROVE  RegistryInv'
  <1> DEFINE first == CASE a.kind = "relate" -> "relate" [] a.kind = "link" -> "link"
                        [] a.kind = "backfill" -> "readTags" [] OTHER -> "find"
             new == [Register!NoCall EXCEPT !.ask = a,
                       !.before = [entities |-> entities, dossiers |-> dossiers, manifests |-> manifests,
                                   links |-> links, relations |-> relations],
                       !.todo = {first}]
  <1>1. doing' = [doing EXCEPT ![c] = new] /\ UNCHANGED Register!tables
    BY DEF Register!Ask
  <1>2. IsCall(new) /\ new.todo = {first} /\ new.ask = a /\ DOMAIN new.of = {}
    <2> DEFINE before == [entities |-> entities, dossiers |-> dossiers, manifests |-> manifests,
                          links |-> links, relations |-> relations]
               one == [Register!NoCall EXCEPT !.ask = a]
               two == [one EXCEPT !.before = before]
    <2>1. new = [two EXCEPT !.todo = {first}]
      OBVIOUS
    <2>2. IsCall(Register!NoCall) /\ DOMAIN Register!NoCall.of = {}
      BY DEF Register!NoCall, IsCall
    <2>4. IsCall(one) /\ one.ask = a /\ DOMAIN one.of = {}
      BY <2>2 DEF IsCall
    <2> HIDE DEF one, before
    <2>3. IsCall(two) /\ two.ask = a /\ DOMAIN two.of = {}
      BY <2>4 DEF IsCall
    <2> HIDE DEF two, first, new
    <2> QED BY <2>1, <2>3 DEF IsCall
  <1>3. first \in {"relate", "link", "readTags", "find"} /\ (first = "link" => a.kind = "link") /\ (first = "relate" => a.kind = "relate")
        /\ (first # "find" => a.kind \notin {"agent.create", "agent.normalize"})
    OBVIOUS
  <1> HIDE DEF new, first
  <1>4. InHand(new, been)
    BY <1>2, <1>3 DEF InHand, Lone, AskedFit, Ready, Identified, OfProject, OfAgent
  <1>5. CallsFit'
    <2>1. been' = been /\ doing = [d \in Clients |-> doing[d]] /\ \A d \in Clients : IsCall(doing[d]) /\ InHand(doing[d], been)
      BY <1>1 DEF Register!tables, RegistryInv, CallsFit
    <2>2. doing'[c] = new /\ (\A d \in Clients \ {c} : doing'[d] = doing[d]) /\ doing' = [d \in Clients |-> doing'[d]]
      BY <1>1, <2>1
    <2> QED BY <1>2, <1>4, <2>1, <2>2 DEF CallsFit
  <1> QED BY <1>1, <1>5, LookingKeeps

\* What a call finds by name or id is there.
LEMMA NamedThere ==
    ASSUME NEW title, Register!Named(title) # None
    PROVE  Register!Named(title) \in EntityIds /\ entities[Register!Named(title)] # None
  BY RegisterAssumed DEF Register!Named, Register!Taken

LEMMA FreeKeeps ==
    ASSUME RegistryInv, NEW c \in Clients, Register!FindFree(c)
    PROVE  RegistryInv'
  <1> DEFINE row == [name |-> doing[c].ask.name, note |-> Register!Given(doing[c].ask.note, None),
                     type |-> IF doing[c].ask.kind = "project.create" THEN "project" ELSE doing[c].ask.type]
             k == [doing[c] EXCEPT !.entity = row]
  <1>1. /\ "find" \in doing[c].todo /\ UNCHANGED Register!tables
        /\ doing[c].ask.kind \in {"entity.create", "project.create"}
        /\ Register!Ends(c, "find", "refused") \/ Register!Goes(c, "find", k, {"insertEntity"})
    BY DEF Register!FindFree, Register!At
  <1>2. IsCall(doing[c]) /\ AskedFit("find", doing[c])
    BY <1>1 DEF RegistryInv, CallsFit, InHand
  <1>3. IsCall(k) /\ k.ask = doing[c].ask
    BY <1>2 DEF IsCall
  <1> HIDE DEF k
  <1>4. AskedFit("insertEntity", k) /\ Ready("insertEntity", k, been')
    BY <1>1, <1>2, <1>3 DEF AskedFit, Ready, Identified, OfProject, OfAgent
  <1>5. "find" \notin LegSteps /\ {"insertEntity"} \subseteq {"insertEntity"}
    BY DEF LegSteps
  <1>6. ASSUME Shaped, Grown PROVE CallsFit'
    BY <1>1, <1>3, <1>4, <1>5, <1>6, Proceeds, Ending DEF RegistryInv
  <1> QED BY <1>1, <1>6, LookingKeeps

LEMMA WantedThere ==
    ASSUME NEW a \in Wishes, Register!Wanted(a) # None, a.id \in EntityIds \cup {None}
    PROVE  Register!Wanted(a) \in EntityIds /\ entities[Register!Wanted(a)] # None
  BY NamedThere DEF Register!Wanted

LEMMA FoundKeeps ==
    ASSUME RegistryInv, NEW c \in Clients, Register!FindEntity(c)
    PROVE  RegistryInv'
  <1> DEFINE a == doing[c].ask
             updates == [name |-> a.name, type |-> a.type, note |-> a.note]
  <1>1. "find" \in doing[c].todo /\ UNCHANGED Register!tables /\ a.kind = "entity.update"
    BY DEF Register!FindEntity, Register!At
  <1>2. IsCall(doing[c]) /\ AskedFit("find", doing[c])
    BY <1>1 DEF RegistryInv, CallsFit, InHand
  <1>3. PICK seen \in {Register!Wanted(a), None} :
          \/ Register!Ends(c, "find", "refused")
          \/ seen # None /\ Register!Goes(c, "find", FoundAs(doing[c], seen, updates), {"readEntity"})
    BY DEF Register!FindEntity, FoundAs
  <1> DEFINE k == FoundAs(doing[c], seen, updates)
  <1>4. IsCall(k) /\ k.ask = a /\ k.id = seen
    BY <1>2, FoundSet
  <1> HIDE DEF k
  <1>5. seen # None => seen \in EntityIds
    BY <1>2, WantedThere, RegisterAssumed DEF AskedFit, Register!RegistryAssumption
  <1>6. seen # None => AskedFit("readEntity", k) /\ Ready("readEntity", k, been')
    BY <1>1, <1>2, <1>4, <1>5 DEF AskedFit, Ready, Identified, OfProject, OfAgent
  <1>7. "find" \notin LegSteps /\ {"readEntity"} \subseteq {"readEntity"}
    BY DEF LegSteps
  <1>8. ASSUME Shaped, Grown PROVE CallsFit'
    BY <1>1, <1>3, <1>4, <1>6, <1>7, <1>8, Proceeds, Ending DEF RegistryInv, k
  <1> QED BY <1>1, <1>8, LookingKeeps

\* A step that only looks, and ends, or goes on with one step or none.
LEMMA LooksAndEnds ==
    ASSUME RegistryInv, UNCHANGED Register!tables, NEW c \in Clients, NEW step \in doing[c].todo, NEW how,
           Register!Ends(c, step, how)
    PROVE  RegistryInv'
  <1>1. ASSUME Shaped, Grown PROVE CallsFit'
    BY <1>1, Ending DEF RegistryInv
  <1> QED BY <1>1, LookingKeeps

LEMMA LooksAndGoes ==
    ASSUME RegistryInv, UNCHANGED Register!tables, NEW c \in Clients, NEW step \in doing[c].todo,
           NEW k, IsCall(k), k.ask = doing[c].ask, NEW next, Register!Goes(c, step, k, next),
           \A s \in next : AskedFit(s, k) /\ Ready(s, k, been),
           (\E s : next \subseteq {s}) \/ (k.ask.kind = "project.update" /\ next \subseteq LegSteps),
           step \in LegSteps /\ k.ask.kind = "project.update" => next \subseteq LegSteps /\ k.id = doing[c].id
    PROVE  RegistryInv'
  <1>1. been' = been
    BY DEF Register!tables
  <1>2. ASSUME Shaped, Grown PROVE CallsFit'
    BY <1>1, <1>2, Proceeds DEF RegistryInv
  <1> QED BY <1>2, LookingKeeps

\* What is at hand at a step.
LEMMA HandAt ==
    ASSUME RegistryInv, NEW c \in Clients, NEW step, Register!At(c, step)
    PROVE  /\ step \in doing[c].todo /\ IsCall(doing[c]) /\ AskedFit(step, doing[c]) /\ Ready(step, doing[c], been)
           /\ Lone(doing[c]) /\ doing[c].ask \in Wishes
  BY DEF Register!At, RegistryInv, CallsFit, InHand, AskedFit

LEMMA ProjectKeeps ==
    ASSUME RegistryInv, NEW c \in Clients, Register!FindProject(c)
    PROVE  RegistryInv'
  <1> DEFINE a == doing[c].ask
             routed == a.routing # Same /\ a.metadata # Same
             metadata == IF routed THEN [a.metadata EXCEPT !.routing = a.routing] ELSE a.metadata
             entity == [name |-> Same, type |-> Same, note |-> a.note]
             dossier == [status |-> a.status, metadata |-> metadata]
             next == IF a.routing # Same /\ a.metadata = Same THEN {"readBase"} ELSE Register!Legs(a.note)
  <1>1. Register!At(c, "find") /\ UNCHANGED Register!tables /\ a.kind = "project.update"
    BY DEF Register!FindProject
  <1>2. IsCall(doing[c]) /\ AskedFit("find", doing[c]) /\ "find" \in doing[c].todo /\ a \in Wishes
    BY <1>1, HandAt
  <1>3. PICK seen \in {Register!Wanted(a), None} :
          \/ Register!Ends(c, "find", "refused")
          \/ /\ seen # None /\ entities[seen].type = "project"
             /\ Register!Goes(c, "find", ProjectAs(doing[c], seen, entity, dossier), next)
    BY DEF Register!FindProject, ProjectAs
  <1> DEFINE k == ProjectAs(doing[c], seen, entity, dossier)
  <1>4. IsCall(k) /\ k.ask = a /\ k.id = seen
    BY <1>2, ProjectSet
  <1>5. next \subseteq {"readBase"} \/ next \subseteq LegSteps
    BY DEF Register!Legs, LegSteps
  <1>6. next \subseteq {"readBase", "readDossier", "readEntity"}
    BY DEF Register!Legs
  <1> HIDE DEF k, next
  <1>7. CASE Register!Ends(c, "find", "refused")
    BY <1>1, <1>2, <1>7, LooksAndEnds
  <1>8. CASE seen # None /\ entities[seen].type = "project" /\ Register!Goes(c, "find", k, next)
    <2>1. seen \in EntityIds /\ entities[seen] # None
      BY <1>2, <1>8, WantedThere, RegisterAssumed DEF Register!RegistryAssumption
    <2>2. "project" \in been[seen]
      BY <1>8, <2>1 DEF RegistryInv, TypeHad
    <2>3. \A s \in next : AskedFit(s, k) /\ Ready(s, k, been)
      BY <1>1, <1>2, <1>4, <1>6, <2>1, <2>2 DEF AskedFit, Ready, Identified, OfProject, OfAgent
    <2>4. "find" \notin LegSteps
      BY DEF LegSteps
    <2> QED BY <1>1, <1>2, <1>4, <1>5, <1>8, <2>3, <2>4, LooksAndGoes
  <1> QED BY <1>3, <1>7, <1>8 DEF k

LEMMA AgentKeeps ==
    ASSUME RegistryInv, NEW c \in Clients, Register!FindAgent(c)
    PROVE  RegistryInv'
  <1> DEFINE a == doing[c].ask
  <1>1. Register!At(c, "find") /\ UNCHANGED Register!tables /\ a.kind \in {"agent.create", "agent.update"}
    BY DEF Register!FindAgent
  <1>2. IsCall(doing[c]) /\ AskedFit("find", doing[c]) /\ "find" \in doing[c].todo /\ a \in Wishes
    BY <1>1, HandAt
  <1>3. PICK seen \in {Register!Wanted(a), None} :
          \/ Register!Ends(c, "find", "refused")
          \/ /\ seen # None /\ Register!Goes(c, "find", [doing[c] EXCEPT !.id = seen], {"readManifest"})
             /\ a.kind = "agent.create" => Register!WellRouted(a.mode, a.router)
    BY DEF Register!FindAgent
  <1> DEFINE k == [doing[c] EXCEPT !.id = seen]
  <1>4. IsCall(k) /\ k.ask = a /\ k.id = seen
    BY <1>2 DEF IsCall
  <1> HIDE DEF k
  <1>7. CASE Register!Ends(c, "find", "refused")
    BY <1>1, <1>2, <1>7, LooksAndEnds
  <1>8. CASE /\ seen # None /\ Register!Goes(c, "find", k, {"readManifest"})
             /\ a.kind = "agent.create" => Register!WellRouted(a.mode, a.router)
    <2>1. seen \in EntityIds
      BY <1>2, <1>8, WantedThere, RegisterAssumed DEF Register!RegistryAssumption
    <2>3. \A s \in {"readManifest"} : AskedFit(s, k) /\ Ready(s, k, been)
      BY <1>1, <1>2, <1>4, <1>8, <2>1 DEF AskedFit, Ready, Identified, OfProject, OfAgent
    <2>4. "find" \notin LegSteps /\ {"readManifest"} \subseteq {"readManifest"}
      BY DEF LegSteps
    <2> QED BY <1>1, <1>2, <1>4, <1>8, <2>3, <2>4, LooksAndGoes
  <1> QED BY <1>3, <1>7, <1>8 DEF k

LEMMA RosterKeeps ==
    ASSUME RegistryInv, NEW c \in Clients, Register!RefuseRoster(c)
    PROVE  RegistryInv'
  <1>1. Register!At(c, "find") /\ UNCHANGED Register!tables /\ Register!Ends(c, "find", "refused")
    BY DEF Register!RefuseRoster, Register!tables
  <1> QED BY <1>1, HandAt, LooksAndEnds

LEMMA ResidentKeeps ==
    ASSUME RegistryInv, NEW c \in Clients, NEW step \in {"find", "findAlias"}, Register!FindResident(c, step)
    PROVE  RegistryInv'
  <1> DEFINE a == doing[c].ask
             title == IF step = "find" THEN a.name ELSE a.alias
             row == [name |-> a.name, type |-> "agent", note |-> Register!Given(a.note, None)]
             fresh == [doing[c] EXCEPT !.entity = row]
  <1>1. Register!At(c, step) /\ UNCHANGED Register!tables /\ a.kind = "agent.normalize" /\ Register!WellRouted(a.mode, a.router)
    BY DEF Register!FindResident
  <1>2. IsCall(doing[c]) /\ AskedFit(step, doing[c]) /\ step \in doing[c].todo /\ a \in Wishes
    BY <1>1, HandAt
  <1>3. PICK seen \in {Register!Named(title), None} :
          \/ /\ seen # None
             /\ \E next \in {"readManifest", "readEntity"} :
                  Register!Goes(c, step, FoundAs(doing[c], seen, Register!Repairs(a, entities[seen])), {next})
          \/ Register!Goes(c, step, doing[c], {"findAlias"})
          \/ Register!Goes(c, step, fresh, {"insertEntity"})
          \/ Register!Goes(c, step, fresh, {})
    BY DEF Register!FindResident, FoundAs
  <1>4. step \notin LegSteps
    BY DEF LegSteps
  <1> DEFINE k == FoundAs(doing[c], seen, Register!Repairs(a, entities[seen]))
  <1>5. IsCall(k) /\ k.ask = a /\ k.id = seen
    BY <1>2, FoundSet
  <1>6. IsCall(fresh) /\ fresh.ask = a
    BY <1>2 DEF IsCall
  <1> HIDE DEF k, fresh, row
  <1>7. ASSUME seen # None, NEW next \in {"readManifest", "readEntity"}, Register!Goes(c, step, k, {next})
        PROVE  RegistryInv'
    <2>1. seen \in EntityIds
      BY <1>7, NamedThere
    <2>2. \A s \in {next} : AskedFit(s, k) /\ Ready(s, k, been)
      BY <1>1, <1>2, <1>5, <2>1 DEF AskedFit, Ready, Identified, OfProject, OfAgent
    <2>3. \E s : {next} \subseteq {s}
      OBVIOUS
    <2>4. step \in doing[c].todo /\ k.ask = doing[c].ask
      BY <1>2, <1>5
    <2> QED BY <1>1, <1>4, <1>5, <1>7, <2>2, <2>3, <2>4, LooksAndGoes
  <1>8. CASE Register!Goes(c, step, doing[c], {"findAlias"})
    <2>1. \A s \in {"findAlias"} : AskedFit(s, doing[c]) /\ Ready(s, doing[c], been)
      BY <1>1, <1>2 DEF AskedFit, Ready, Identified, OfProject, OfAgent
    <2>2. \E s : {"findAlias"} \subseteq {s}
      OBVIOUS
    <2> QED BY <1>1, <1>2, <1>4, <1>8, <2>1, <2>2, LooksAndGoes
  <1>9. ASSUME NEW next \in {{"insertEntity"}, {}}, Register!Goes(c, step, fresh, next)
        PROVE  RegistryInv'
    <2>1. \A s \in next : AskedFit(s, fresh) /\ Ready(s, fresh, been)
      BY <1>1, <1>2, <1>6, <1>9 DEF AskedFit, Ready, Identified, OfProject, OfAgent
    <2>2. next \subseteq {"insertEntity"}
      BY <1>9
    <2> QED BY <1>1, <1>2, <1>4, <1>6, <1>9, <2>1, <2>2, LooksAndGoes
  <1> QED BY <1>3, <1>7, <1>8, <1>9 DEF k

\* assertProjectEntity and assertAgentEntity: past them, the entity has had the type.
LEMMA Asserting ==
    ASSUME RegistryInv, UNCHANGED Register!tables, NEW c \in Clients, NEW step \in doing[c].todo, step \notin LegSteps,
           NEW id \in EntityIds, NEW type, NEW next, Register!Asserts(c, step, id, type, {next}),
           type \in been[id] => AskedFit(next, doing[c]) /\ Ready(next, doing[c], been)
    PROVE  RegistryInv'
  <1>1. PICK seen \in {entities[id], None} :
          \/ Register!Ends(c, step, "thrown")
          \/ seen # None /\ seen.type = type /\ Register!Goes(c, step, doing[c], {next})
    BY DEF Register!Asserts
  <1>2. CASE Register!Ends(c, step, "thrown")
    BY <1>2, LooksAndEnds
  <1>3. CASE seen # None /\ seen.type = type /\ Register!Goes(c, step, doing[c], {next})
    <2>1. type \in been[id]
      BY <1>1, <1>3 DEF RegistryInv, TypeHad
    <2>2. IsCall(doing[c]) /\ {next} \subseteq {next} /\ \A s \in {next} : AskedFit(s, doing[c]) /\ Ready(s, doing[c], been)
      BY <2>1 DEF RegistryInv, CallsFit
    <2> QED BY <1>3, <2>2, LooksAndGoes
  <1> QED BY <1>1, <1>2, <1>3

LEMMA AssertProjectKeeps ==
    ASSUME RegistryInv, NEW c \in Clients, Register!AssertProject(c)
    PROVE  RegistryInv'
  <1>1. /\ Register!At(c, "assertProject") /\ UNCHANGED Register!tables /\ "assertProject" \notin LegSteps
        /\ Register!Asserts(c, "assertProject", doing[c].id, "project", {"insertDossier"})
    BY DEF Register!AssertProject, LegSteps
  <1>2. "assertProject" \in doing[c].todo /\ AskedFit("assertProject", doing[c]) /\ Ready("assertProject", doing[c], been)
    BY <1>1, HandAt
  <1>3. doing[c].id \in EntityIds
    BY <1>2 DEF Ready, Identified
  <1>4. "project" \in been[doing[c].id] => AskedFit("insertDossier", doing[c]) /\ Ready("insertDossier", doing[c], been)
    BY <1>2, <1>3 DEF AskedFit, Ready, Identified, OfProject, OfAgent
  <1> QED BY <1>1, <1>2, <1>3, <1>4, Asserting

LEMMA AssertAgentKeeps ==
    ASSUME RegistryInv, NEW c \in Clients, Register!AssertAgent(c)
    PROVE  RegistryInv'
  <1> DEFINE k == doing[c]
             next == IF k.card.router # None THEN "assertRouter" ELSE k.then
  <1>1. /\ Register!At(c, "assertAgent") /\ UNCHANGED Register!tables /\ "assertAgent" \notin LegSteps
        /\ Register!Asserts(c, "assertAgent", k.id, "agent", {next})
    BY DEF Register!AssertAgent, Register!ThenRouter, LegSteps
  <1>2. "assertAgent" \in k.todo /\ AskedFit("assertAgent", k) /\ Ready("assertAgent", k, been)
    BY <1>1, HandAt
  <1>3. k.id \in EntityIds /\ CardFit(k.card) /\ k.then = "insertManifest"
    BY <1>2 DEF Ready, Identified
  <1>4. "agent" \in been[k.id] => AskedFit(next, k) /\ Ready(next, k, been)
    BY <1>2, <1>3 DEF AskedFit, Ready, Identified, OfProject, OfAgent
  <1> HIDE DEF next
  <1> QED BY <1>1, <1>2, <1>3, <1>4, Asserting

LEMMA AssertRouterKeeps ==
    ASSUME RegistryInv, NEW c \in Clients, Register!AssertRouter(c)
    PROVE  RegistryInv'
  <1> DEFINE k == doing[c]
  <1>1. /\ Register!At(c, "assertRouter") /\ UNCHANGED Register!tables /\ "assertRouter" \notin LegSteps
        /\ Register!Asserts(c, "assertRouter", k.card.router, "agent", {k.then})
    BY DEF Register!AssertRouter, LegSteps
  <1>2. "assertRouter" \in k.todo /\ AskedFit("assertRouter", k) /\ Ready("assertRouter", k, been)
    BY <1>1, HandAt
  <1>3. /\ k.id \in EntityIds /\ "agent" \in been[k.id] /\ CardFit(k.card) /\ k.card.router \in EntityIds
        /\ k.then \in {"insertManifest", "writeManifest"}
    BY <1>2 DEF Ready, Identified, OfAgent, CardFit
  <1>4. "agent" \in been[k.card.router] => AskedFit(k.then, k) /\ Ready(k.then, k, been)
    BY <1>2, <1>3 DEF AskedFit, Ready, Identified, OfProject, OfAgent
  <1> QED BY <1>1, <1>2, <1>3, <1>4, Asserting

-----------------------------------------------------------------------------
\* An entity is written under a name no other has.
LEMMA StoresKeep ==
    ASSUME RegistryInv, NEW i \in EntityIds, NEW row, Register!Stores(i, row),
           \A j \in EntityIds \ {i} : entities[j] # None => Folded[entities[j].name] # Folded[row.name],
           UNCHANGED <<dossiers, manifests, links, relations>>
    PROVE  Shaped' /\ Grown /\ TypeHad' /\ FiledTrue' /\ row.type \in been'[i]
  <1>1. Shaped /\ TypeHad /\ Register!OneName /\ Register!Routed /\ Register!Rooted
    BY DEF RegistryInv, FiledTrue
  <1>2. /\ entities' = [j \in EntityIds |-> entities'[j]] /\ been' = [j \in EntityIds |-> been'[j]]
        /\ entities'[i] = row /\ been'[i] = been[i] \cup {row.type}
        /\ \A j \in EntityIds \ {i} : entities'[j] = entities[j] /\ been'[j] = been[j]
    BY <1>1 DEF Shaped, Register!Stores
  <1>3. Shaped' /\ Grown
    BY <1>1, <1>2 DEF Shaped, Grown
  <1>4. TypeHad' /\ row.type \in been'[i]
    BY <1>1, <1>2 DEF TypeHad
  <1>5. Register!OneName'
    BY <1>1, <1>2 DEF Register!OneName
  <1>6. Register!Routed'
    BY <1>1, <1>3 DEF Register!Routed, Grown
  <1>7. Register!Rooted'
    BY <1>1, <1>3 DEF Register!Rooted, Grown
  <1> QED BY <1>3, <1>4, <1>5, <1>6, <1>7 DEF FiledTrue

LEMMA CreateKeeps ==
    ASSUME RegistryInv, NEW c \in Clients, Register!createEntity(c)
    PROVE  RegistryInv'
  <1> DEFINE row == doing[c].entity
             next == Register!AfterInsert(doing[c].ask.kind)
  <1>1. Register!At(c, "insertEntity") /\ "insertEntity" \notin LegSteps
    BY DEF Register!createEntity, LegSteps
  <1>2. IsCall(doing[c]) /\ AskedFit("insertEntity", doing[c]) /\ "insertEntity" \in doing[c].todo
    BY <1>1, HandAt
  <1>3. CASE Register!Ends(c, "insertEntity", "thrown") /\ UNCHANGED Register!tables
    BY <1>2, <1>3, LooksAndEnds
  <1>4. ASSUME ~Register!Taken(row.name, None), NEW i \in EntityIds, Register!Fresh(i), Register!Stores(i, row),
               Register!Goes(c, "insertEntity", [doing[c] EXCEPT !.id = i], next),
               UNCHANGED <<dossiers, manifests, links, relations>>
        PROVE  RegistryInv'
    <2> DEFINE k == [doing[c] EXCEPT !.id = i]
    <2>1. IsCall(k) /\ k.ask = doing[c].ask /\ k.id = i
      BY <1>2 DEF IsCall
    <2> HIDE DEF k
    <2>2. None \notin EntityIds
      BY RegisterAssumed DEF Register!RegistryAssumption
    <2>3. Shaped' /\ Grown /\ TypeHad' /\ FiledTrue'
      BY <1>4, <2>2, StoresKeep DEF Register!Taken
    <2>4. next \in {{}, {"assertProject"}, {"readManifest"}} /\ ("readManifest" \in next => k.ask.kind = "agent.normalize")
      BY <1>2, <2>1 DEF AskedFit, Register!AfterInsert
    <2> HIDE DEF next
    <2>5. \A s \in next : AskedFit(s, k) /\ Ready(s, k, been')
      BY <1>2, <2>1, <2>4 DEF AskedFit, Ready, Identified, OfProject, OfAgent
    <2>6. \E s : next \subseteq {s}
      BY <2>4
    <2>7. CallsFit'
      BY <1>1, <1>2, <1>4, <2>1, <2>3, <2>5, <2>6, Proceeds DEF RegistryInv, k
    <2> QED BY <2>3, <2>7 DEF RegistryInv
  <1> QED BY <1>3, <1>4 DEF Register!createEntity, Register!tables

LEMMA ReadEntityKeeps ==
    ASSUME RegistryInv, NEW c \in Clients, Register!ReadEntity(c)
    PROVE  RegistryInv'
  <1>1. Register!At(c, "readEntity") /\ UNCHANGED Register!tables
    BY DEF Register!ReadEntity
  <1>2. /\ IsCall(doing[c]) /\ AskedFit("readEntity", doing[c]) /\ "readEntity" \in doing[c].todo
        /\ Ready("readEntity", doing[c], been)
    BY <1>1, HandAt
  <1>3. PICK seen \in {entities[doing[c].id], None} :
          \/ Register!Ends(c, "readEntity", "thrown")
          \/ Register!Goes(c, "readEntity", [doing[c] EXCEPT !.entity = Register!EntityOf(seen, doing[c].entity)], {"writeEntity"})
    BY DEF Register!ReadEntity
  <1> DEFINE k == [doing[c] EXCEPT !.entity = Register!EntityOf(seen, doing[c].entity)]
  <1>4. IsCall(k) /\ k.ask = doing[c].ask /\ k.id = doing[c].id
    BY <1>2 DEF IsCall
  <1> HIDE DEF k
  <1>5. CASE Register!Ends(c, "readEntity", "thrown")
    BY <1>1, <1>2, <1>5, LooksAndEnds
  <1>6. CASE Register!Goes(c, "readEntity", k, {"writeEntity"})
    <2>1. \A s \in {"writeEntity"} : AskedFit(s, k) /\ Ready(s, k, been)
      BY <1>2, <1>4 DEF AskedFit, Ready, Identified, OfProject, OfAgent
    <2>2. (\E s : {"writeEntity"} \subseteq {s}) /\ {"writeEntity"} \subseteq LegSteps
      BY DEF LegSteps
    <2> QED BY <1>1, <1>2, <1>4, <1>6, <2>1, <2>2, LooksAndGoes
  <1> QED BY <1>3, <1>5, <1>6 DEF k

LEMMA UpdateKeeps ==
    ASSUME RegistryInv, NEW c \in Clients, Register!updateEntity(c)
    PROVE  RegistryInv'
  <1> DEFINE k == doing[c]
             next == IF k.ask.kind = "agent.normalize" THEN {"readManifest"} ELSE {}
  <1>1. Register!At(c, "writeEntity")
    BY DEF Register!updateEntity
  <1>2. IsCall(k) /\ AskedFit("writeEntity", k) /\ "writeEntity" \in k.todo /\ Ready("writeEntity", k, been)
    BY <1>1, HandAt
  <1>3. k.id \in EntityIds
    BY <1>2 DEF Ready, Identified
  <1>4. CASE Register!Ends(c, "writeEntity", "thrown") /\ UNCHANGED Register!tables
    BY <1>2, <1>4, LooksAndEnds
  <1>5. ASSUME ~Register!Taken(k.entity.name, k.id), Register!Stores(k.id, k.entity), Register!Goes(c, "writeEntity", k, next),
               UNCHANGED <<dossiers, manifests, links, relations>>
        PROVE  RegistryInv'
    <2>1. Shaped' /\ Grown /\ TypeHad' /\ FiledTrue'
      BY <1>3, <1>5, StoresKeep DEF Register!Taken
    <2>2. \A s \in next : AskedFit(s, k) /\ Ready(s, k, been')
      BY <1>2, <1>3 DEF AskedFit, Ready, Identified, OfProject, OfAgent
    <2>3. (\E s : next \subseteq {s}) /\ (k.ask.kind = "project.update" => next \subseteq LegSteps)
      <3>1. next \subseteq {"readManifest"}
        OBVIOUS
      <3> QED BY <3>1
    <2> HIDE DEF next
    <2>4. CallsFit'
      BY <1>2, <1>5, <2>1, <2>2, <2>3, Proceeds DEF RegistryInv
    <2> QED BY <2>1, <2>4 DEF RegistryInv
  <1> QED BY <1>4, <1>5 DEF Register!updateEntity

-----------------------------------------------------------------------------
\* A dossier is written on an entity that was a project.
LEMMA DossierWritten ==
    ASSUME RegistryInv, NEW i \in EntityIds, "project" \in been[i], NEW dossier,
           dossiers' = [dossiers EXCEPT ![i] = dossier], UNCHANGED <<entities, manifests, links, relations, been>>
    PROVE  Shaped' /\ Grown /\ TypeHad' /\ FiledTrue'
  <1>1. Shaped /\ TypeHad /\ Register!OneName /\ Register!Routed /\ Register!Rooted
    BY DEF RegistryInv, FiledTrue
  <1>2. dossiers' = [j \in EntityIds |-> dossiers'[j]] /\ \A j \in EntityIds \ {i} : dossiers'[j] = dossiers[j]
    BY <1>1 DEF Shaped
  <1>3. Shaped' /\ Grown /\ TypeHad'
    BY <1>1, <1>2 DEF Shaped, Grown, TypeHad
  <1>4. Register!OneName' /\ Register!Routed'
    BY <1>1 DEF Register!OneName, Register!Routed
  <1>5. Register!Rooted'
    BY <1>1, <1>2 DEF Register!Rooted
  <1> QED BY <1>3, <1>4, <1>5 DEF FiledTrue

\* A step that writes a table and has no step after it.
LEMMA WritesAndIsDone ==
    ASSUME RegistryInv, NEW c \in Clients, NEW step \in doing[c].todo, Register!Goes(c, step, doing[c], {}),
           Shaped' /\ Grown /\ TypeHad' /\ FiledTrue'
    PROVE  RegistryInv'
  <1> DEFINE next == {}
  <1>1. IsCall(doing[c]) /\ Register!Goes(c, step, doing[c], next)
    BY DEF RegistryInv, CallsFit
  <1>2. (\E s : next \subseteq {s}) /\ next \subseteq LegSteps /\ \A s \in next : AskedFit(s, doing[c]) /\ Ready(s, doing[c], been')
    OBVIOUS
  <1> HIDE DEF next
  <1>3. CallsFit'
    BY <1>1, <1>2, Proceeds DEF RegistryInv
  <1> QED BY <1>3 DEF RegistryInv

LEMMA DossierMade ==
    ASSUME RegistryInv, NEW c \in Clients, Register!createProjectDossier(c) \/ Register!updateProjectDossier(c)
    PROVE  RegistryInv'
  <1>1. PICK step \in {"insertDossier", "writeDossier"} :
          /\ Register!At(c, step) /\ Register!Goes(c, step, doing[c], {})
          /\ UNCHANGED <<entities, manifests, links, relations, been>>
          /\ \E dossier : dossiers' = [dossiers EXCEPT ![doing[c].id] = dossier]
    BY DEF Register!createProjectDossier, Register!updateProjectDossier
  <1>2. step \in doing[c].todo /\ Ready(step, doing[c], been)
    BY <1>1, HandAt
  <1>3. doing[c].id \in EntityIds /\ "project" \in been[doing[c].id]
    BY <1>2 DEF Ready, Identified, OfProject
  <1> QED BY <1>1, <1>2, <1>3, DossierWritten, WritesAndIsDone

LEMMA BaseKeeps ==
    ASSUME RegistryInv, NEW c \in Clients, Register!ReadBase(c)
    PROVE  RegistryInv'
  <1> DEFINE next == Register!Legs(doing[c].ask.note)
  <1>1. Register!At(c, "readBase") /\ UNCHANGED Register!tables /\ "readBase" \notin LegSteps
    BY DEF Register!ReadBase, LegSteps
  <1>2. /\ IsCall(doing[c]) /\ AskedFit("readBase", doing[c]) /\ "readBase" \in doing[c].todo
        /\ Ready("readBase", doing[c], been)
    BY <1>1, HandAt
  <1>3. PICK metadata : Register!Goes(c, "readBase", [doing[c] EXCEPT !.dossier.metadata = metadata], next)
    BY DEF Register!ReadBase
  <1> DEFINE k == [doing[c] EXCEPT !.dossier.metadata = metadata]
  <1>4. IsCall(k) /\ k.ask = doing[c].ask /\ k.id = doing[c].id
    <2> DEFINE dossier == [doing[c].dossier EXCEPT !.metadata = metadata]
    <2>1. k = [doing[c] EXCEPT !.dossier = dossier]
      OBVIOUS
    <2> HIDE DEF dossier, k
    <2> QED BY <1>2, <2>1 DEF IsCall
  <1> HIDE DEF k
  <1>5. next \subseteq {"readDossier", "readEntity"} /\ next \subseteq LegSteps
    BY DEF Register!Legs, LegSteps
  <1>6. k.ask.kind = "project.update"
    BY <1>2, <1>4 DEF AskedFit
  <1> HIDE DEF next
  <1>7. \A s \in next : AskedFit(s, k) /\ Ready(s, k, been)
    BY <1>2, <1>4, <1>5, <1>6 DEF AskedFit, Ready, Identified, OfProject, OfAgent
  <1> QED BY <1>1, <1>2, <1>3, <1>4, <1>5, <1>6, <1>7, LooksAndGoes DEF k

LEMMA ReadDossierKeeps ==
    ASSUME RegistryInv, NEW c \in Clients, Register!ReadDossier(c)
    PROVE  RegistryInv'
  <1>1. Register!At(c, "readDossier") /\ UNCHANGED Register!tables
    BY DEF Register!ReadDossier
  <1>2. /\ IsCall(doing[c]) /\ AskedFit("readDossier", doing[c]) /\ "readDossier" \in doing[c].todo
        /\ Ready("readDossier", doing[c], been)
    BY <1>1, HandAt
  <1>3. PICK seen \in {dossiers[doing[c].id], None} :
          \/ Register!Ends(c, "readDossier", "thrown")
          \/ Register!Goes(c, "readDossier", [doing[c] EXCEPT !.dossier = Register!DossierOf(seen, doing[c].dossier)],
                           {"writeDossier"})
    BY DEF Register!ReadDossier
  <1> DEFINE k == [doing[c] EXCEPT !.dossier = Register!DossierOf(seen, doing[c].dossier)]
  <1>4. IsCall(k) /\ k.ask = doing[c].ask /\ k.id = doing[c].id
    BY <1>2 DEF IsCall
  <1> HIDE DEF k
  <1>5. CASE Register!Ends(c, "readDossier", "thrown")
    BY <1>1, <1>2, <1>5, LooksAndEnds
  <1>6. CASE Register!Goes(c, "readDossier", k, {"writeDossier"})
    <2>1. \A s \in {"writeDossier"} : AskedFit(s, k) /\ Ready(s, k, been)
      BY <1>2, <1>4 DEF AskedFit, Ready, Identified, OfProject, OfAgent
    <2>2. (\E s : {"writeDossier"} \subseteq {s}) /\ {"writeDossier"} \subseteq LegSteps
      BY DEF LegSteps
    <2> QED BY <1>1, <1>2, <1>4, <1>6, <2>1, <2>2, LooksAndGoes
  <1> QED BY <1>3, <1>5, <1>6 DEF k

-----------------------------------------------------------------------------
\* What a create, a roster entry and an update plan fits, given the manifest that was read.
LEMMA NewCardFits ==
    ASSUME NEW a \in Wishes, a.kind # "agent.update", Register!WellRouted(a.mode, a.router)
    PROVE  CardFit(Register!NewCard(a)) /\ UpdateFit(Register!RosterCard(a))
  <1> DEFINE new == Register!NewCard(a)
             roster == Register!RosterCard(a)
  <1>1. a.router \in EntityIds \cup {Same} /\ None \notin EntityIds /\ Same \notin EntityIds /\ Same # "router" /\ Same # None
    BY RegisterAssumed DEF Register!RegistryAssumption
  <1>2. /\ new.mode = IF a.mode = Same THEN "explicit" ELSE a.mode
        /\ new.router = IF a.router = Same THEN None ELSE a.router
        /\ roster.mode = new.mode /\ roster.router = a.router
    BY DEF Register!NewCard, Register!RosterCard, Register!Given
  <1>3. new.mode = "router" => a.router # Same
    BY <1>1, <1>2 DEF Register!WellRouted
  <1> HIDE DEF new, roster
  <1> QED BY <1>1, <1>2, <1>3 DEF CardFit, UpdateFit, new, roster

LEMMA UpdatesFit ==
    ASSUME NEW a \in Wishes, NEW held, CardFit(held), ~Register!Unroutable(a, held)
    PROVE  UpdateFit(Register!Updates(a, held))
  <1> DEFINE card == Register!Updates(a, held)
             mode == IF a.mode = Same THEN held.mode ELSE a.mode
             router == IF a.router # Same THEN a.router ELSE IF mode = "router" THEN held.router ELSE Same
  <1>1. a.router \in EntityIds \cup {Same, None} /\ None \notin EntityIds /\ Same \notin EntityIds /\ Same # "router" /\ Same # None
    BY RegisterAssumed DEF Register!RegistryAssumption
  <1>2. /\ card.mode = a.mode
        /\ card.router = IF mode = "router" THEN router ELSE IF a.mode # Same THEN None ELSE Same
    BY DEF Register!Updates, Register!Mode, Register!Router, Register!Given
  <1>3. mode = "router" => router \in EntityIds
    <2>1. router \in EntityIds \cup {Same, None}
      BY <1>1 DEF CardFit
    <2> QED BY <2>1 DEF Register!Unroutable, Register!Mode, Register!Router, Register!Given
  <1> HIDE DEF card, router
  <1> QED BY <1>1, <1>2, <1>3 DEF UpdateFit, card

LEMMA MergedFits ==
    ASSUME NEW held, CardFit(held), NEW new, UpdateFit(new)
    PROVE  CardFit(Register!CardOf(held, new))
  <1> DEFINE card == Register!CardOf(held, new)
  <1>1. None \notin EntityIds /\ Same \notin EntityIds /\ Same # "router" /\ Same # None
    BY RegisterAssumed DEF Register!RegistryAssumption
  <1>2. /\ card.mode = IF new.mode = Same THEN held.mode ELSE new.mode
        /\ card.router = IF new.router = Same THEN held.router ELSE new.router
    BY DEF Register!CardOf, Register!Given
  <1> HIDE DEF card
  <1> QED BY <1>1, <1>2 DEF CardFit, UpdateFit, card

\* A stored manifest fits.
LEMMA StoredFits ==
    ASSUME RegistryInv, NEW i \in EntityIds, manifests[i] # None
    PROVE  CardFit(manifests[i]) /\ "agent" \in been[i] /\ (manifests[i].router # None => "agent" \in been[manifests[i].router])
  BY DEF RegistryInv, FiledTrue, Register!Routed, Register!Rooted, CardFit

LEMMA ManifestKeeps ==
    ASSUME RegistryInv, NEW c \in Clients, Register!ReadManifest(c)
    PROVE  RegistryInv'
  <1> DEFINE k == doing[c]
             a == k.ask
  <1>1. Register!At(c, "readManifest") /\ UNCHANGED Register!tables /\ "readManifest" \notin LegSteps
    BY DEF Register!ReadManifest, LegSteps
  <1>2. /\ IsCall(k) /\ AskedFit("readManifest", k) /\ "readManifest" \in k.todo /\ Ready("readManifest", k, been) /\ a \in Wishes
    BY <1>1, HandAt
  <1>3. k.id \in EntityIds
    BY <1>2 DEF Ready, Identified
  <1>4. /\ a.kind \in {"agent.create", "agent.update", "agent.normalize"}
        /\ a.kind # "agent.update" => Register!WellRouted(a.mode, a.router)
    BY <1>2 DEF AskedFit
  <1>5. PICK seen \in {manifests[k.id], None} :
          \/ Register!Ends(c, "readManifest", "refused")
          \/ Register!Goes(c, "readManifest", k, {})
          \/ /\ a.kind # "agent.update"
             /\ Register!Goes(c, "readManifest", PlannedAs(k, Register!NewCard(a), "insertManifest"), {"assertAgent"})
          \/ /\ seen # None
             /\ \/ a.kind = "agent.update" /\ ~Register!Unroutable(a, seen)
                   /\ Register!Goes(c, "readManifest", PlannedAs(k, Register!Updates(a, seen), "writeManifest"), {"reread"})
                \/ a.kind # "agent.update"
                   /\ Register!Goes(c, "readManifest", PlannedAs(k, Register!RosterCard(a), "writeManifest"), {"reread"})
    BY DEF Register!ReadManifest, Register!Creates, Register!Changes, PlannedAs
  <1>6. CASE Register!Ends(c, "readManifest", "refused")
    BY <1>1, <1>2, <1>6, LooksAndEnds
  <1>7. CASE Register!Goes(c, "readManifest", k, {})
    <2> DEFINE next == {}
    <2>1. (\E s : next \subseteq {s}) /\ \A s \in next : AskedFit(s, k) /\ Ready(s, k, been)
      OBVIOUS
    <2>2. Register!Goes(c, "readManifest", k, next)
      BY <1>7
    <2> HIDE DEF next
    <2> QED BY <1>1, <1>2, <2>1, <2>2, LooksAndGoes
  <1>8. ASSUME a.kind # "agent.update",
               Register!Goes(c, "readManifest", PlannedAs(k, Register!NewCard(a), "insertManifest"), {"assertAgent"})
        PROVE  RegistryInv'
    <2> DEFINE m == PlannedAs(k, Register!NewCard(a), "insertManifest")
    <2>1. IsCall(m) /\ m.ask = a /\ m.id = k.id /\ m.card = Register!NewCard(a) /\ m.then = "insertManifest"
      BY <1>2, PlanSet
    <2>2. CardFit(m.card)
      BY <1>2, <1>4, <1>8, <2>1, NewCardFits
    <2> HIDE DEF m
    <2>3. \A s \in {"assertAgent"} : AskedFit(s, m) /\ Ready(s, m, been)
      BY <1>2, <1>3, <2>1, <2>2 DEF AskedFit, Ready, Identified, OfProject, OfAgent
    <2>4. \E s : {"assertAgent"} \subseteq {s}
      OBVIOUS
    <2> QED BY <1>1, <1>2, <1>8, <2>1, <2>3, <2>4, LooksAndGoes DEF m
  <1>9. ASSUME seen # None, NEW card, UpdateFit(card),
               Register!Goes(c, "readManifest", PlannedAs(k, card, "writeManifest"), {"reread"})
        PROVE  RegistryInv'
    <2> DEFINE m == PlannedAs(k, card, "writeManifest")
    <2>1. IsCall(m) /\ m.ask = a /\ m.id = k.id /\ m.card = card /\ m.then = "writeManifest"
      BY <1>2, PlanSet
    <2> HIDE DEF m
    <2>2. "agent" \in been[k.id]
      BY <1>3, <1>9, StoredFits
    <2>3. \A s \in {"reread"} : AskedFit(s, m) /\ Ready(s, m, been)
      BY <1>2, <1>3, <1>9, <2>1, <2>2 DEF AskedFit, Ready, Identified, OfProject, OfAgent
    <2>4. \E s : {"reread"} \subseteq {s}
      OBVIOUS
    <2> QED BY <1>1, <1>2, <1>9, <2>1, <2>3, <2>4, LooksAndGoes DEF m
  <1>10. ASSUME seen # None, a.kind = "agent.update", ~Register!Unroutable(a, seen)
         PROVE  UpdateFit(Register!Updates(a, seen))
    BY <1>2, <1>3, <1>10, StoredFits, UpdatesFit
  <1>11. ASSUME a.kind # "agent.update"
         PROVE  UpdateFit(Register!RosterCard(a))
    BY <1>2, <1>4, <1>11, NewCardFits
  <1> QED BY <1>5, <1>6, <1>7, <1>8, <1>9, <1>10, <1>11

LEMMA RereadKeeps ==
    ASSUME RegistryInv, NEW c \in Clients, Register!RereadManifest(c)
    PROVE  RegistryInv'
  <1>1. Register!At(c, "reread") /\ UNCHANGED Register!tables /\ "reread" \notin LegSteps
    BY DEF Register!RereadManifest, LegSteps
  <1>2. /\ IsCall(doing[c]) /\ AskedFit("reread", doing[c]) /\ "reread" \in doing[c].todo /\ Ready("reread", doing[c], been)
    BY <1>1, HandAt
  <1>3. PICK seen \in {manifests[doing[c].id], None} :
          \/ Register!Ends(c, "reread", "thrown")
          \/ /\ seen # None
             /\ Register!Goes(c, "reread", [doing[c] EXCEPT !.card = Register!CardOf(seen, doing[c].card)],
                              Register!ThenRouter(doing[c], Register!CardOf(seen, doing[c].card)))
    BY DEF Register!RereadManifest
  <1>4. CASE Register!Ends(c, "reread", "thrown")
    BY <1>1, <1>2, <1>4, LooksAndEnds
  <1>5. ASSUME seen # None, NEW card, card = Register!CardOf(seen, doing[c].card), NEW next, next = Register!ThenRouter(doing[c], card),
               Register!Goes(c, "reread", [doing[c] EXCEPT !.card = card], next)
        PROVE  RegistryInv'
    <2> DEFINE k == [doing[c] EXCEPT !.card = card]
    <2>1. IsCall(k) /\ k.ask = doing[c].ask /\ k.id = doing[c].id /\ k.card = card /\ k.then = doing[c].then
      BY <1>2 DEF IsCall
    <2> HIDE DEF k
    <2>2. doing[c].id \in EntityIds /\ UpdateFit(doing[c].card) /\ doing[c].then = "writeManifest" /\ "agent" \in been[doing[c].id]
      BY <1>2 DEF Ready, Identified, OfAgent
    <2>3. CardFit(card)
      BY <1>5, <2>2, StoredFits, MergedFits
    <2>4. next = {IF card.router # None THEN "assertRouter" ELSE "writeManifest"}
      BY <1>5, <2>2 DEF Register!ThenRouter
    <2>5. \A s \in next : AskedFit(s, k) /\ Ready(s, k, been)
      BY <1>2, <2>1, <2>2, <2>3, <2>4 DEF AskedFit, Ready, Identified, OfProject, OfAgent
    <2>6. \E s : next \subseteq {s}
      BY <2>4
    <2> QED BY <1>1, <1>2, <1>5, <2>1, <2>5, <2>6, LooksAndGoes DEF k
  <1> QED BY <1>3, <1>4, <1>5

\* A manifest that fits is written on an entity that was an agent.
LEMMA ManifestWritten ==
    ASSUME RegistryInv, NEW i \in EntityIds, "agent" \in been[i], NEW card, CardFit(card),
           card.router # None => "agent" \in been[card.router],
           manifests' = [manifests EXCEPT ![i] = card], UNCHANGED <<entities, dossiers, links, relations, been>>
    PROVE  Shaped' /\ Grown /\ TypeHad' /\ FiledTrue'
  <1>1. Shaped /\ TypeHad /\ Register!OneName /\ Register!Routed /\ Register!Rooted
    BY DEF RegistryInv, FiledTrue
  <1>2. /\ manifests' = [j \in EntityIds |-> manifests'[j]] /\ manifests'[i] = card
        /\ \A j \in EntityIds \ {i} : manifests'[j] = manifests[j]
    BY <1>1 DEF Shaped
  <1>3. Shaped' /\ Grown /\ TypeHad'
    BY <1>1, <1>2 DEF Shaped, Grown, TypeHad
  <1>4. Register!OneName'
    BY <1>1 DEF Register!OneName
  <1>5. Register!Routed'
    BY <1>1, <1>2 DEF Register!Routed, CardFit
  <1>6. Register!Rooted'
    BY <1>1, <1>2 DEF Register!Rooted
  <1> QED BY <1>3, <1>4, <1>5, <1>6 DEF FiledTrue

LEMMA ManifestMade ==
    ASSUME RegistryInv, NEW c \in Clients,
           Register!createAgentCapabilityManifest(c) \/ Register!updateAgentCapabilityManifest(c)
    PROVE  RegistryInv'
  <1> DEFINE k == doing[c]
  <1>1. CASE Register!At(c, "insertManifest") /\ Register!Ends(c, "insertManifest", "thrown") /\ UNCHANGED Register!tables
    BY <1>1, HandAt, LooksAndEnds
  <1>2. ASSUME NEW step \in {"insertManifest", "writeManifest"}, Register!At(c, step), Register!Goes(c, step, k, {}),
               manifests' = [manifests EXCEPT ![k.id] = k.card], UNCHANGED <<entities, dossiers, links, relations, been>>
        PROVE  RegistryInv'
    <2>1. step \in k.todo /\ Ready(step, k, been)
      BY <1>2, HandAt
    <2>2. k.id \in EntityIds /\ "agent" \in been[k.id] /\ CardFit(k.card) /\ (k.card.router # None => "agent" \in been[k.card.router])
      BY <2>1 DEF Ready, Identified, OfAgent
    <2> QED BY <1>2, <2>1, <2>2, ManifestWritten, WritesAndIsDone
  <1>3. \/ Register!At(c, "insertManifest") /\ Register!Ends(c, "insertManifest", "thrown") /\ UNCHANGED Register!tables
        \/ \E step \in {"insertManifest", "writeManifest"} :
             /\ Register!At(c, step) /\ Register!Goes(c, step, k, {})
             /\ manifests' = [manifests EXCEPT ![k.id] = k.card] /\ UNCHANGED <<entities, dossiers, links, relations, been>>
    BY DEF Register!createAgentCapabilityManifest, Register!updateAgentCapabilityManifest, Register!tables
  <1> QED BY <1>1, <1>2, <1>3

-----------------------------------------------------------------------------
\* An entity that is there has had a type.
LEMMA HereOnce ==
    ASSUME RegistryInv, NEW i \in EntityIds, entities[i] # None
    PROVE  been[i] # {}
  BY DEF RegistryInv, TypeHad

LEMMA RelateKeeps ==
    ASSUME RegistryInv, NEW c \in Clients, Register!createRelation(c)
    PROVE  RegistryInv'
  <1> DEFINE k == doing[c]
             next == {"writeRelation"}
  <1>1. Register!At(c, "relate") /\ UNCHANGED Register!tables /\ "relate" \notin LegSteps
    BY DEF Register!createRelation, LegSteps
  <1>2. IsCall(k) /\ AskedFit("relate", k) /\ "relate" \in k.todo /\ k.ask \in Wishes
    BY <1>1, HandAt
  <1>3. k.ask.kind = "relate" /\ k.ask.id \in EntityIds /\ k.ask.to \in EntityIds
    BY <1>2, RegisterAssumed DEF AskedFit, Register!RegistryAssumption
  <1>4. \/ Register!Ends(c, "relate", "refused")
        \/ entities[k.ask.id] # None /\ entities[k.ask.to] # None /\ Register!Goes(c, "relate", k, next)
    BY DEF Register!createRelation
  <1>5. CASE Register!Ends(c, "relate", "refused")
    BY <1>1, <1>2, <1>5, LooksAndEnds
  <1>6. CASE entities[k.ask.id] # None /\ entities[k.ask.to] # None /\ Register!Goes(c, "relate", k, next)
    <2>1. been[k.ask.id] # {} /\ been[k.ask.to] # {}
      BY <1>3, <1>6, HereOnce
    <2>2. \A s \in next : AskedFit(s, k) /\ Ready(s, k, been)
      BY <1>2, <1>3, <2>1 DEF AskedFit, Ready, Identified, OfProject, OfAgent
    <2>3. \E s : next \subseteq {s}
      OBVIOUS
    <2> HIDE DEF next
    <2> QED BY <1>1, <1>2, <1>6, <2>2, <2>3, LooksAndGoes
  <1> QED BY <1>4, <1>5, <1>6

\* A relation is written between entities that are there, a link to one that is.
LEMMA RelationWritten ==
    ASSUME RegistryInv, NEW c \in Clients, Register!WriteRelation(c)
    PROVE  RegistryInv'
  <1> DEFINE k == doing[c]
  <1>1. Register!At(c, "writeRelation") /\ Register!Goes(c, "writeRelation", k, {})
    BY DEF Register!WriteRelation
  <1>2. /\ AskedFit("writeRelation", k) /\ "writeRelation" \in k.todo /\ k.ask \in Wishes
        /\ Ready("writeRelation", k, been)
    BY <1>1, HandAt
  <1>3. /\ k.ask.id \in EntityIds /\ k.ask.to \in EntityIds /\ been[k.ask.id] # {} /\ been[k.ask.to] # {}
    BY <1>2, RegisterAssumed DEF AskedFit, Ready, Register!RegistryAssumption
  <1>4. /\ relations' = relations \cup {[from |-> k.ask.id, to |-> k.ask.to]}
        /\ UNCHANGED <<entities, dossiers, manifests, links, been>>
    BY DEF Register!WriteRelation
  <1>5. Shaped /\ TypeHad /\ Register!OneName /\ Register!Routed /\ Register!Rooted
    BY DEF RegistryInv, FiledTrue
  <1>6. Shaped' /\ Grown /\ TypeHad'
    BY <1>4, <1>5 DEF Shaped, Grown, TypeHad
  <1>7. Register!OneName' /\ Register!Routed'
    BY <1>4, <1>5 DEF Register!OneName, Register!Routed
  <1>8. Register!Rooted'
    BY <1>3, <1>4, <1>5 DEF Register!Rooted
  <1> QED BY <1>1, <1>2, <1>6, <1>7, <1>8, WritesAndIsDone DEF FiledTrue

LEMMA LinkWritten ==
    ASSUME RegistryInv, NEW o \in Obs, NEW i \in EntityIds, been[i] # {},
           links' = [links EXCEPT ![o] = i], UNCHANGED <<entities, dossiers, manifests, relations, been>>
    PROVE  Shaped' /\ Grown /\ TypeHad' /\ FiledTrue'
  <1>1. Shaped /\ TypeHad /\ Register!OneName /\ Register!Routed /\ Register!Rooted
    BY DEF RegistryInv, FiledTrue
  <1>2. links' = [p \in Obs |-> links'[p]] /\ links'[o] = i /\ \A p \in Obs \ {o} : links'[p] = links[p]
    BY <1>1 DEF Shaped
  <1>3. Shaped' /\ Grown /\ TypeHad'
    BY <1>1, <1>2 DEF Shaped, Grown, TypeHad
  <1>4. Register!OneName' /\ Register!Routed'
    BY <1>1 DEF Register!OneName, Register!Routed
  <1>5. Register!Rooted'
    BY <1>1, <1>2 DEF Register!Rooted
  <1> QED BY <1>3, <1>4, <1>5 DEF FiledTrue

LEMMA FindBothKeeps ==
    ASSUME RegistryInv, NEW c \in Clients, Register!FindBoth(c)
    PROVE  RegistryInv'
  <1>1. Register!At(c, "link") /\ UNCHANGED Register!tables /\ "link" \notin LegSteps
    BY DEF Register!FindBoth, LegSteps
  <1>2. IsCall(doing[c]) /\ AskedFit("link", doing[c]) /\ "link" \in doing[c].todo /\ doing[c].ask \in Wishes
    BY <1>1, HandAt
  <1>3. doing[c].ask.kind = "link" /\ doing[c].ask.id \in EntityIds
    BY <1>2, RegisterAssumed DEF AskedFit, Register!RegistryAssumption
  <1> DEFINE k == [doing[c] EXCEPT !.id = doing[c].ask.id]
             next == {"writeLink"}
  <1>4. IsCall(k) /\ k.ask = doing[c].ask /\ k.id = doing[c].ask.id
    BY <1>2 DEF IsCall
  <1>5. \/ Register!Ends(c, "link", "refused")
        \/ entities[doing[c].ask.id] # None /\ Register!Goes(c, "link", k, next)
    BY DEF Register!FindBoth
  <1> HIDE DEF k
  <1>6. CASE Register!Ends(c, "link", "refused")
    BY <1>1, <1>2, <1>6, LooksAndEnds
  <1>7. CASE entities[doing[c].ask.id] # None /\ Register!Goes(c, "link", k, next)
    <2>1. been[k.id] # {}
      BY <1>3, <1>4, <1>7, HereOnce
    <2>2. \A s \in next : AskedFit(s, k) /\ Ready(s, k, been)
      BY <1>2, <1>3, <1>4, <2>1 DEF AskedFit, Ready, Identified, OfProject, OfAgent
    <2>3. \E s : next \subseteq {s}
      OBVIOUS
    <2> HIDE DEF next
    <2> QED BY <1>1, <1>2, <1>4, <1>7, <2>2, <2>3, LooksAndGoes
  <1> QED BY <1>5, <1>6, <1>7

LEMMA LinkKeeps ==
    ASSUME RegistryInv, NEW c \in Clients, Register!linkObservationToEntity(c)
    PROVE  RegistryInv'
  <1> DEFINE k == doing[c]
  <1>1. /\ Register!At(c, "writeLink") /\ Register!Goes(c, "writeLink", k, {})
        /\ links' = [links EXCEPT ![k.ask.obs] = k.id] /\ UNCHANGED <<entities, dossiers, manifests, relations, been>>
    BY DEF Register!linkObservationToEntity
  <1>2. AskedFit("writeLink", k) /\ "writeLink" \in k.todo /\ k.ask \in Wishes /\ Ready("writeLink", k, been)
    BY <1>1, HandAt
  <1>3. k.id \in EntityIds /\ been[k.id] # {} /\ k.ask.obs \in Obs
    BY <1>2, RegisterAssumed DEF AskedFit, Ready, Identified, Register!RegistryAssumption
  <1> QED BY <1>1, <1>2, <1>3, LinkWritten, WritesAndIsDone

-----------------------------------------------------------------------------
(* The backfill. *)

TagsKnown(k, b) ==
  /\ k.rows \subseteq {o \in Obs : Tags[o] # <<>>}
  /\ \A t \in DOMAIN k.of : k.of[t] \in EntityIds /\ b[k.of[t]] # {}

\* The first tag of a row is one of its tags.
LEMMA FirstTag ==
    ASSUME NEW o \in Obs, Tags[o] # <<>>
    PROVE  Tags[o][1] \in Register!ToSet(Tags[o])
  <1>1. Tags[o] \in Seq(Titles)
    BY RegisterAssumed DEF Register!RegistryAssumption
  <1>2. 1 \in DOMAIN Tags[o]
    BY <1>1
  <1> QED BY <1>2 DEF Register!ToSet

LEMMA TagsKeep ==
    ASSUME RegistryInv, NEW c \in Clients, Register!queryEntityTagsForBackfill(c)
    PROVE  RegistryInv'
  <1>1. Register!At(c, "readTags") /\ UNCHANGED Register!tables /\ "readTags" \notin LegSteps
    BY DEF Register!queryEntityTagsForBackfill, LegSteps
  <1>2. IsCall(doing[c]) /\ AskedFit("readTags", doing[c]) /\ "readTags" \in doing[c].todo /\ Ready("readTags", doing[c], been)
    BY <1>1, HandAt
  <1>3. PICK listed \in SUBSET Register!Unlinked :
          \/ Register!Ends(c, "readTags", "refused")
          \/ Register!Goes(c, "readTags", [doing[c] EXCEPT !.rows = listed], IF listed = {} THEN {} ELSE {"resolve"})
    BY DEF Register!queryEntityTagsForBackfill
  <1> DEFINE k == [doing[c] EXCEPT !.rows = listed]
             next == IF listed = {} THEN {} ELSE {"resolve"}
  <1>4. IsCall(k) /\ k.ask = doing[c].ask /\ k.rows = listed /\ k.of = doing[c].of
    BY <1>2 DEF IsCall
  <1> HIDE DEF k
  <1>5. CASE Register!Ends(c, "readTags", "refused")
    BY <1>1, <1>2, <1>5, LooksAndEnds
  <1>6. CASE Register!Goes(c, "readTags", k, next)
    <2>1. listed \subseteq {o \in Obs : Tags[o] # <<>>} /\ DOMAIN k.of = {}
      BY <1>2, <1>4 DEF Register!Unlinked, Ready
    <2>2. next \subseteq {"resolve"}
      OBVIOUS
    <2> HIDE DEF next
    <2>3. \A s \in next : AskedFit(s, k) /\ Ready(s, k, been)
      BY <1>2, <1>4, <2>1, <2>2 DEF AskedFit, Ready, Identified, OfProject, OfAgent
    <2> QED BY <1>1, <1>2, <1>4, <1>6, <2>2, <2>3, LooksAndGoes
  <1> QED BY <1>3, <1>5, <1>6 DEF k

\* A tag that has its entity: when it was the last one, the rows are linked.
LEMMA TagResolved ==
    ASSUME NEW k, IsCall(k), NEW b, TagsKnown(k, b), AskedFit("resolve", k) \/ AskedFit("insertTag", k),
           NEW tag, NEW i \in EntityIds, b[i] # {}
    PROVE  LET m == Register!Resolves(k, tag, i)
           IN  /\ IsCall(m) /\ m.ask = k.ask
               /\ \E s : Register!AfterTag(m) \subseteq {s}
               /\ \A s \in Register!AfterTag(m) : AskedFit(s, m) /\ Ready(s, m, b)
  <1> DEFINE of == [t \in DOMAIN k.of \cup {tag} |-> IF t = tag THEN i ELSE k.of[t]]
             m == [k EXCEPT !.of = of]
             next == Register!AfterTag(m)
  <1>1. Register!Resolves(k, tag, i) = m
    BY DEF Register!Resolves
  <1>2. /\ DOMAIN of = DOMAIN k.of \cup {tag}
        /\ \A t \in DOMAIN of : of[t] = IF t = tag THEN i ELSE k.of[t]
    OBVIOUS
  <1> HIDE DEF of
  <1>3. IsCall(m) /\ m.ask = k.ask /\ m.of = of /\ m.rows = k.rows
    BY DEF IsCall
  <1> HIDE DEF m
  <1>4. TagsKnown(m, b)
    BY <1>2, <1>3 DEF TagsKnown
  <1>5. next = {IF Register!Unresolved(m) = {} THEN "linkRows" ELSE "resolve"}
    BY DEF Register!AfterTag
  <1>6. Register!Unresolved(m) = {} => \A o \in m.rows : Tags[o][1] \in DOMAIN m.of
    <2> SUFFICES ASSUME Register!Unresolved(m) = {}, NEW o \in m.rows PROVE Tags[o][1] \in DOMAIN m.of
      OBVIOUS
    <2>1. Tags[o][1] \in Register!ToSet(Tags[o])
      BY <1>4, FirstTag DEF TagsKnown
    <2>2. Register!ToSet(Tags[o]) \in {Register!ToSet(Tags[p]) : p \in m.rows}
      OBVIOUS
    <2>3. Tags[o][1] \in UNION {Register!ToSet(Tags[p]) : p \in m.rows}
      BY <2>1, <2>2
    <2> QED BY <2>3 DEF Register!Unresolved
  <1> HIDE DEF next
  <1>7. \A s \in next : AskedFit(s, m) /\ Ready(s, m, b)
    BY <1>3, <1>4, <1>5, <1>6 DEF AskedFit, Ready, TagsKnown, Identified, OfProject, OfAgent
  <1>8. \E s : next \subseteq {s}
    BY <1>5
  <1> QED BY <1>1, <1>3, <1>7, <1>8 DEF next

LEMMA ResolveKeeps ==
    ASSUME RegistryInv, NEW c \in Clients, Register!ResolveTag(c)
    PROVE  RegistryInv'
  <1>1. Register!At(c, "resolve") /\ UNCHANGED Register!tables /\ "resolve" \notin LegSteps
    BY DEF Register!ResolveTag, LegSteps
  <1>2. /\ IsCall(doing[c]) /\ AskedFit("resolve", doing[c]) /\ "resolve" \in doing[c].todo
        /\ Ready("resolve", doing[c], been)
    BY <1>1, HandAt
  <1>3. TagsKnown(doing[c], been)
    BY <1>2 DEF Ready, TagsKnown
  <1>4. PICK tag :
          \/ /\ Register!Named(tag) # None
             /\ Register!Goes(c, "resolve", Register!Resolves(doing[c], tag, Register!Named(tag)),
                              Register!AfterTag(Register!Resolves(doing[c], tag, Register!Named(tag))))
          \/ Register!Goes(c, "resolve", [doing[c] EXCEPT !.tag = tag], {"insertTag"})
    <2>1. PICK tag \in Register!Unresolved(doing[c]) : \E seen \in {Register!Named(tag), None} :
            IF seen # None THEN Register!Goes(c, "resolve", Register!Resolves(doing[c], tag, seen),
                                              Register!AfterTag(Register!Resolves(doing[c], tag, seen)))
            ELSE Register!Goes(c, "resolve", [doing[c] EXCEPT !.tag = tag], {"insertTag"})
      BY DEF Register!ResolveTag
    <2> QED BY <2>1
  <1>5. ASSUME Register!Named(tag) # None, NEW m, m = Register!Resolves(doing[c], tag, Register!Named(tag)),
               NEW next, next = Register!AfterTag(m), Register!Goes(c, "resolve", m, next)
        PROVE  RegistryInv'
    <2>1. Register!Named(tag) \in EntityIds /\ been[Register!Named(tag)] # {}
      BY <1>5, NamedThere, HereOnce
    <2>2. /\ IsCall(m) /\ m.ask = doing[c].ask
          /\ \E s : next \subseteq {s}
          /\ \A s \in next : AskedFit(s, m) /\ Ready(s, m, been)
      BY <1>2, <1>3, <1>5, <2>1, TagResolved
    <2> QED BY <1>1, <1>2, <1>5, <2>2, LooksAndGoes
  <1>6. CASE Register!Goes(c, "resolve", [doing[c] EXCEPT !.tag = tag], {"insertTag"})
    <2> DEFINE m == [doing[c] EXCEPT !.tag = tag]
               next == {"insertTag"}
    <2>1. IsCall(m) /\ m.ask = doing[c].ask /\ m.rows = doing[c].rows /\ m.of = doing[c].of
      BY <1>2 DEF IsCall
    <2>2. Register!Goes(c, "resolve", m, next) /\ \E s : next \subseteq {s}
      BY <1>6
    <2> HIDE DEF m
    <2>3. \A s \in next : AskedFit(s, m) /\ Ready(s, m, been)
      BY <1>2, <1>3, <2>1 DEF AskedFit, Ready, TagsKnown, Identified, OfProject, OfAgent
    <2> HIDE DEF next
    <2> QED BY <1>1, <1>2, <2>1, <2>2, <2>3, LooksAndGoes
  <1> QED BY <1>4, <1>5, <1>6

LEMMA InsertTagKeeps ==
    ASSUME RegistryInv, NEW c \in Clients, Register!InsertTag(c)
    PROVE  RegistryInv'
  <1> DEFINE k == doing[c]
             row == [name |-> k.tag, type |-> "concept", note |-> None]
  <1>1. Register!At(c, "insertTag") /\ "insertTag" \notin LegSteps
    BY DEF Register!InsertTag, LegSteps
  <1>2. IsCall(k) /\ AskedFit("insertTag", k) /\ "insertTag" \in k.todo /\ Ready("insertTag", k, been)
    BY <1>1, HandAt
  <1>3. CASE Register!Ends(c, "insertTag", "thrown") /\ UNCHANGED Register!tables
    BY <1>2, <1>3, LooksAndEnds
  <1>4. ASSUME ~Register!Taken(k.tag, None), NEW i \in EntityIds, Register!Stores(i, row),
               NEW m, m = Register!Resolves(k, k.tag, i), NEW next, next = Register!AfterTag(m),
               Register!Goes(c, "insertTag", m, next), UNCHANGED <<dossiers, manifests, links, relations>>
        PROVE  RegistryInv'
    <2>1. None \notin EntityIds /\ row.name = k.tag /\ row.type = "concept"
      BY RegisterAssumed DEF Register!RegistryAssumption
    <2>2. Shaped' /\ Grown /\ TypeHad' /\ FiledTrue' /\ "concept" \in been'[i]
      BY <1>4, <2>1, StoresKeep DEF Register!Taken
    <2>3. TagsKnown(k, been')
      BY <1>2, <2>2 DEF Ready, TagsKnown, Grown
    <2>4. /\ IsCall(m) /\ m.ask = k.ask
          /\ \E s : next \subseteq {s}
          /\ \A s \in next : AskedFit(s, m) /\ Ready(s, m, been')
      BY <1>2, <1>4, <2>2, <2>3, TagResolved
    <2>5. CallsFit'
      BY <1>1, <1>2, <1>4, <2>2, <2>4, Proceeds DEF RegistryInv
    <2> QED BY <2>2, <2>5 DEF RegistryInv
  <1> QED BY <1>3, <1>4 DEF Register!InsertTag, Register!tables

LEMMA LinkRowKeeps ==
    ASSUME RegistryInv, NEW c \in Clients, Register!LinkRow(c)
    PROVE  RegistryInv'
  <1>1. Register!At(c, "linkRows") /\ "linkRows" \notin LegSteps
    BY DEF Register!LinkRow, LegSteps
  <1>2. /\ IsCall(doing[c]) /\ AskedFit("linkRows", doing[c]) /\ "linkRows" \in doing[c].todo
        /\ Ready("linkRows", doing[c], been)
    BY <1>1, HandAt
  <1>3. PICK o \in doing[c].rows :
          /\ links' = [links EXCEPT ![o] = doing[c].of[Tags[o][1]]]
          /\ Register!Goes(c, "linkRows", [doing[c] EXCEPT !.rows = @ \ {o}], IF doing[c].rows = {o} THEN {} ELSE {"linkRows"})
          /\ UNCHANGED <<entities, dossiers, manifests, relations, been>>
    BY DEF Register!LinkRow
  <1> DEFINE rest == doing[c].rows \ {o}
             k == [doing[c] EXCEPT !.rows = rest]
             next == IF doing[c].rows = {o} THEN {} ELSE {"linkRows"}
  <1>4. Register!Goes(c, "linkRows", k, next)
    BY <1>3
  <1>5. rest \subseteq doing[c].rows
    OBVIOUS
  <1> HIDE DEF rest
  <1>6. IsCall(k) /\ k.ask = doing[c].ask /\ k.rows = rest /\ k.of = doing[c].of
    BY <1>2 DEF IsCall
  <1> HIDE DEF k
  <1>7. /\ doing[c].rows \subseteq Obs /\ Tags[o][1] \in DOMAIN doing[c].of
        /\ \A t \in DOMAIN doing[c].of : doing[c].of[t] \in EntityIds /\ been[doing[c].of[t]] # {}
    BY <1>2, <1>3 DEF Ready
  <1>8. Shaped' /\ Grown /\ TypeHad' /\ FiledTrue'
    BY <1>3, <1>7, LinkWritten
  <1>9. next \subseteq {"linkRows"} /\ been' = been
    BY <1>3
  <1> HIDE DEF next
  <1>10. Ready("linkRows", k, been)
    BY <1>2, <1>5, <1>6 DEF Ready, Identified, OfProject, OfAgent
  <1>11. \A s \in next : AskedFit(s, k) /\ Ready(s, k, been')
    BY <1>2, <1>6, <1>9, <1>10 DEF AskedFit
  <1>12. CallsFit'
    BY <1>1, <1>2, <1>4, <1>6, <1>8, <1>9, <1>11, Proceeds DEF RegistryInv
  <1> QED BY <1>8, <1>12 DEF RegistryInv

-----------------------------------------------------------------------------
LEMMA RegistryBegins ==
    ASSUME Register!Init
    PROVE  RegistryInv
  <1>1. /\ entities \in Founders /\ dossiers = Register!Empty /\ manifests = Register!Empty
        /\ links = [o \in Obs |-> None] /\ relations = {} /\ doing = [c \in Clients |-> Register!NoCall]
        /\ been = [i \in EntityIds |-> IF entities[i] = None THEN {} ELSE {entities[i].type}]
    BY DEF Register!Init
  <1>2. entities \in [EntityIds -> Register!EntityRow \cup {None}] /\ Register!OneName
    BY <1>1, RegisterAssumed DEF Register!RegistryAssumption, Register!OneName
  <1>3. Shaped /\ TypeHad
    BY <1>1, <1>2 DEF Shaped, TypeHad, Register!Empty
  <1>4. Register!Routed /\ Register!Rooted
    BY <1>1 DEF Register!Routed, Register!Rooted, Register!Empty
  <1>5. IsCall(Register!NoCall) /\ Register!NoCall.todo = {}
    BY DEF IsCall, Register!NoCall
  <1>6. CallsFit
    BY <1>1, <1>5 DEF CallsFit, InHand, Lone
  <1> QED BY <1>2, <1>3, <1>4, <1>6 DEF RegistryInv, FiledTrue

LEMMA RegistrySteps ==
    ASSUME RegistryInv, Register!Next \/ UNCHANGED Files
    PROVE  RegistryInv'
  <1>1. CASE UNCHANGED Files
    <2>1. doing' = doing /\ UNCHANGED Register!tables
      BY <1>1 DEF Files, Register!tables
    <2>2. been' = been
      BY <2>1 DEF Register!tables
    <2>3. CallsFit'
      BY <2>1, <2>2 DEF RegistryInv, CallsFit
    <2> QED BY <2>1, <2>3, LookingKeeps
  <1>2. ASSUME NEW c \in Clients, NEW step, Register!StatementFails(c, step) PROVE RegistryInv'
    <2>1. Register!At(c, step) /\ Register!Ends(c, step, "thrown") /\ UNCHANGED Register!tables
      BY <1>2 DEF Register!StatementFails, Register!tables
    <2> QED BY <2>1, HandAt, LooksAndEnds
  <1>3. CASE Register!Next
    <2>1. PICK c \in Clients :
            \/ \E a \in Wishes : Register!Ask(c, a)
            \/ Register!FindFree(c) \/ Register!FindEntity(c) \/ Register!FindProject(c) \/ Register!FindAgent(c)
            \/ Register!RefuseRoster(c) \/ Register!FindResident(c, "find") \/ Register!FindResident(c, "findAlias")
            \/ Register!createEntity(c) \/ Register!ReadEntity(c) \/ Register!updateEntity(c)
            \/ Register!AssertProject(c) \/ Register!createProjectDossier(c) \/ Register!ReadBase(c)
            \/ Register!ReadDossier(c) \/ Register!updateProjectDossier(c)
            \/ Register!ReadManifest(c) \/ Register!RereadManifest(c) \/ Register!AssertAgent(c) \/ Register!AssertRouter(c)
            \/ Register!createAgentCapabilityManifest(c) \/ Register!updateAgentCapabilityManifest(c)
            \/ Register!createRelation(c) \/ Register!WriteRelation(c) \/ Register!FindBoth(c)
            \/ Register!linkObservationToEntity(c)
            \/ Register!queryEntityTagsForBackfill(c) \/ Register!ResolveTag(c) \/ Register!InsertTag(c) \/ Register!LinkRow(c)
            \/ \E step \in Register!Throwing : Register!StatementFails(c, step)
      BY <1>3 DEF Register!Next
    <2>2. ASSUME \/ \E a \in Wishes : Register!Ask(c, a)
                 \/ Register!FindFree(c) \/ Register!FindEntity(c) \/ Register!FindProject(c) \/ Register!FindAgent(c)
                 \/ Register!RefuseRoster(c) \/ Register!FindResident(c, "find") \/ Register!FindResident(c, "findAlias")
          PROVE  RegistryInv'
      BY <2>2, AskKeeps, FreeKeeps, FoundKeeps, ProjectKeeps, AgentKeeps, RosterKeeps, ResidentKeeps
    <2>3. ASSUME \/ Register!createEntity(c) \/ Register!ReadEntity(c) \/ Register!updateEntity(c)
                 \/ Register!AssertProject(c) \/ Register!createProjectDossier(c) \/ Register!ReadBase(c)
                 \/ Register!ReadDossier(c) \/ Register!updateProjectDossier(c)
          PROVE  RegistryInv'
      BY <2>3, CreateKeeps, ReadEntityKeeps, UpdateKeeps, AssertProjectKeeps, DossierMade, BaseKeeps, ReadDossierKeeps
    <2>4. ASSUME \/ Register!ReadManifest(c) \/ Register!RereadManifest(c) \/ Register!AssertAgent(c) \/ Register!AssertRouter(c)
                 \/ Register!createAgentCapabilityManifest(c) \/ Register!updateAgentCapabilityManifest(c)
          PROVE  RegistryInv'
      BY <2>4, ManifestKeeps, RereadKeeps, AssertAgentKeeps, AssertRouterKeeps, ManifestMade
    <2>5. ASSUME \/ Register!createRelation(c) \/ Register!WriteRelation(c) \/ Register!FindBoth(c)
                 \/ Register!linkObservationToEntity(c)
                 \/ Register!queryEntityTagsForBackfill(c) \/ Register!ResolveTag(c) \/ Register!InsertTag(c) \/ Register!LinkRow(c)
          PROVE  RegistryInv'
      BY <2>5, RelateKeeps, RelationWritten, FindBothKeeps, LinkKeeps, TagsKeep, ResolveKeeps, InsertTagKeeps, LinkRowKeeps
    <2> QED BY <1>2, <2>1, <2>2, <2>3, <2>4, <2>5
  <1> QED BY <1>1, <1>3

\* For any founders, titles and calls, however many overlap and whatever queries fail: what a
\* search shows was asked for and is counted once, no two entities share a name, and every
\* dossier, manifest, router, link and relation hangs on what was an entity of its type.
THEOREM FindsAndFiles == AllSpec => []FoundAndFiled
  <1>1. AllInit => SearchInv /\ RegistryInv
    BY SearchStarts, RegistryBegins DEF AllInit
  <1>2. SearchInv /\ RegistryInv /\ [AllNext]_all => (SearchInv /\ RegistryInv)'
    <2>1. [AllNext]_all => Register!Next \/ UNCHANGED Files
      BY DEF AllNext, all
    <2> QED BY <2>1, SearchSteps, RegistrySteps
  <1>3. SearchInv /\ RegistryInv => FoundAndFiled
    BY NotedWhenShown DEF RegistryInv, FoundAndFiled
  <1> QED BY <1>1, <1>2, <1>3, PTL DEF AllSpec

-----------------------------------------------------------------------------
(* What a search ranks.  A lane's share of the relevance is at most its weight, and what a mind
   makes of a row moves its score by no more than the band of the cap. *)

LEMMA SearchAssumed == Search!RetrievalAssumption
  BY ToolsAssumption

\* The numbers of the profile.
LEMMA ProfileNumbers ==
    /\ Unit \in Nat /\ K \in Nat \ {0} /\ LaneWeight \in [Search!Lanes -> 0..100]
    /\ LaneWeight["vector"] + LaneWeight["keyword"] + LaneWeight["hint"] + LaneWeight["entity"] = 100
  BY SearchAssumed, Zenon DEF Search!RetrievalAssumption

\* What the lanes of the search under way hold: rows of observations.
LanesTyped ==
  /\ scene \in Scenes
  /\ \A l \in Search!Lanes : lanes[l] # None =>
       /\ DOMAIN lanes[l] \subseteq Obs
       /\ \A o \in DOMAIN lanes[l] : lanes[l][o].grip \in Grips /\ lanes[l][o].novelty \in Int

LEMMA LargerOfTwo == \A x, y \in Int : Search!Max({x, y}) = IF x >= y THEN x ELSE y
  <1> SUFFICES ASSUME NEW x \in Int, NEW y \in Int PROVE Search!Max({x, y}) = IF x >= y THEN x ELSE y
    OBVIOUS
  <1> DEFINE m == IF x >= y THEN x ELSE y
  <1>1. \A z \in {x, y} : (\A w \in {x, y} : z >= w) <=> z = m
    OBVIOUS
  <1>2. m \in {x, y}
    OBVIOUS
  <1>3. Search!Max({x, y}) = CHOOSE z \in {x, y} : \A w \in {x, y} : z >= w
    BY DEF Search!Max
  <1> HIDE DEF m
  <1>4. Search!Max({x, y}) = m
    BY <1>1, <1>2, <1>3
  <1> QED BY <1>4 DEF m

LEMMA SmallerOfTwo == \A x, y \in Int : Search!Min({x, y}) = IF x <= y THEN x ELSE y
  <1> SUFFICES ASSUME NEW x \in Int, NEW y \in Int PROVE Search!Min({x, y}) = IF x <= y THEN x ELSE y
    OBVIOUS
  <1> DEFINE m == IF x <= y THEN x ELSE y
  <1>1. \A z \in {x, y} : (\A w \in {x, y} : z <= w) <=> z = m
    OBVIOUS
  <1>2. m \in {x, y}
    OBVIOUS
  <1>3. Search!Min({x, y}) = CHOOSE z \in {x, y} : \A w \in {x, y} : z <= w
    BY DEF Search!Min
  <1> HIDE DEF m
  <1>4. Search!Min({x, y}) = m
    BY <1>1, <1>2, <1>3
  <1> QED BY <1>4 DEF m

\* Products: a share of a whole, a sum of shares, and two scores in a band.
LEMMA ScalesUp == \A x, y, z \in Nat : x <= y => z * x <= z * y /\ z * x \in Nat
  OBVIOUS

LEMMA Divides ==
    ASSUME NEW d \in Nat \ {0}, NEW u \in Nat
    PROVE  u \div d \in Nat /\ (u % d = 0 => d * (u \div d) = u)
  OBVIOUS

LEMMA WholeShare ==
    ASSUME NEW k \in Nat \ {0}, NEW p \in Nat \ {0}, NEW u \in Nat, u % (k + p) = 0
    PROVE  (k + 1) * (u \div (k + p)) \in 0..u
  <1> DEFINE d == k + p
             q == u \div d
  <1>1. d \in Nat \ {0} /\ k + 1 <= d /\ k + 1 \in Nat
    OBVIOUS
  <1>2. q \in Nat /\ d * q = u
    <2>1. u % d = 0
      OBVIOUS
    <2> HIDE DEF d
    <2> QED BY <1>1, <2>1, Divides DEF q
  <1> HIDE DEF d, q
  <1>3. (k + 1) * q <= d * q /\ (k + 1) * q \in Nat
    BY <1>1, <1>2
  <1>4. (k + 1) * q \in 0..u
    BY <1>2, <1>3
  <1> QED BY <1>4 DEF d, q

LEMMA SharesAdd ==
    \A v, k, h, e, u \in Nat : v + k + h + e = 100 => v * u + k * u + h * u + e * u = 100 * u
  <1> SUFFICES ASSUME NEW v \in Nat, NEW k \in Nat, NEW h \in Nat, NEW e \in Nat, v + k + h + e = 100, NEW u \in Nat
               PROVE  v * u + k * u + h * u + e * u = 100 * u
    OBVIOUS
  <1>1. v * u + k * u + h * u + e * u = (v + k + h + e) * u
    OBVIOUS
  <1> QED BY <1>1

LEMMA InTheBand ==
    ASSUME NEW x \in Int, NEW y \in Int, NEW v \in 117..135, NEW w \in 117..135,
           x * v > 0, y * w > 0, x * 117 > y * 135
    PROVE  x * v > y * w
  <1>1. x > 0 /\ y > 0
    OBVIOUS
  <1>2. x * v >= x * 117
    BY <1>1
  <1>3. y * w <= y * 135
    BY <1>1
  <1>4. x * v \in Int /\ y * w \in Int /\ x * 117 \in Int /\ y * 135 \in Int
    OBVIOUS
  <1> QED BY <1>2, <1>3, <1>4

\* A place among the observations a lane brought.
LEMMA PlaceIs ==
    ASSUME LanesTyped, NEW l \in Search!Lanes, lanes[l] # None, NEW o \in DOMAIN lanes[l]
    PROVE  Search!Place(l, o) \in 1..Cardinality(Obs) /\ Cardinality(Obs) \in Nat
  <1> DEFINE before == {p \in DOMAIN lanes[l] : scene[l][p] > scene[l][o]}
  <1>1. IsFiniteSet(Obs) /\ scene[l] \in [Obs -> 0..100]
    <2>1. \A S : Search!IsFiniteSet(S) <=> IsFiniteSet(S)
      BY DEF Search!IsFiniteSet, IsFiniteSet
    <2>2. scene \in [Search!Lanes -> [Obs -> 0..100]]
      BY SearchAssumed DEF LanesTyped, Search!RetrievalAssumption
    <2> QED BY <2>1, <2>2, SearchAssumed DEF Search!RetrievalAssumption
  <1>2. o \in Obs /\ before \subseteq Obs \ {o}
    BY <1>1 DEF LanesTyped
  <1>3. /\ Cardinality(Obs) \in Nat /\ Cardinality(Obs \ {o}) = Cardinality(Obs) - 1 /\ IsFiniteSet(Obs \ {o})
    BY <1>1, <1>2, FS_CardinalityType, FS_RemoveElement
  <1>4. Cardinality(before) \in Nat /\ Cardinality(before) <= Cardinality(Obs) - 1
    BY <1>2, <1>3, FS_Subset, FS_CardinalityType
  <1>5. Search!Place(l, o) = 1 + Cardinality(before)
    <2>1. \A S : Search!Cardinality(S) = Cardinality(S)
      BY DEF Search!Cardinality, Cardinality
    <2> QED BY <2>1 DEF Search!Place
  <1> QED BY <1>3, <1>4, <1>5

\* A lane's share is no more than its weight.
LEMMA ShareWithin ==
    ASSUME LanesTyped, \A l \in Search!Lanes : lanes[l] # None, NEW l \in Search!Lanes, NEW o
    PROVE  Search!Share(l, o) \in 0..(LaneWeight[l] * Unit) /\ LaneWeight[l] * Unit \in Nat
  <1>1. LaneWeight[l] \in Nat /\ Unit \in Nat /\ K \in Nat \ {0}
    BY ProfileNumbers
  <1>2. LaneWeight[l] * Unit \in Nat
    BY <1>1
  <1>3. CASE o \in DOMAIN lanes[l]
    <2> DEFINE p == Search!Place(l, o)
               piece == (K + 1) * (Unit \div (K + p))
    <2>1. p \in 1..Cardinality(Obs) /\ Cardinality(Obs) \in Nat
      BY <1>3, PlaceIs
    <2>2. Unit % (K + p) = 0
      <3>1. \A S : Search!Cardinality(S) = Cardinality(S)
        BY DEF Search!Cardinality, Cardinality
      <3> QED BY <2>1, <3>1, SearchAssumed DEF Search!RetrievalAssumption
    <2>3. piece \in 0..Unit
      <3> HIDE DEF p
      <3>1. p \in Nat \ {0}
        BY <2>1
      <3> QED BY <1>1, <3>1, <2>2, WholeShare
    <2>4. Search!Share(l, o) = LaneWeight[l] * piece
      BY <1>3 DEF Search!Share, Search!By
    <2> HIDE DEF piece
    <2>5. piece \in Nat /\ piece <= Unit
      BY <1>1, <2>3
    <2>6. LaneWeight[l] * piece <= LaneWeight[l] * Unit /\ LaneWeight[l] * piece \in Nat
      BY <1>1, <2>5, ScalesUp
    <2> QED BY <1>2, <2>4, <2>6
  <1>4. CASE o \notin DOMAIN lanes[l]
    BY <1>2, <1>4 DEF Search!Share, Search!By
  <1> QED BY <1>3, <1>4

LEMMA RelevanceWithin ==
    ASSUME LanesTyped, \A l \in Search!Lanes : lanes[l] # None, NEW o
    PROVE  Search!Relevance(o) \in 0..100 * Unit
  <1> DEFINE s(l) == Search!Share(l, o)
             w(l) == LaneWeight[l] * Unit
  <1>1. \A l \in {"vector", "keyword", "hint", "entity"} : s(l) \in 0..w(l) /\ w(l) \in Nat /\ LaneWeight[l] \in Nat
    <2>1. \A l \in {"vector", "keyword", "hint", "entity"} : l \in Search!Lanes
      BY DEF Search!Lanes
    <2>2. \A l \in Search!Lanes : LaneWeight[l] \in Nat
      BY ProfileNumbers
    <2> QED BY <2>1, <2>2, ShareWithin
  <1>2. w("vector") + w("keyword") + w("hint") + w("entity") = 100 * Unit
    <2>1. /\ LaneWeight["vector"] \in Nat /\ LaneWeight["keyword"] \in Nat
          /\ LaneWeight["hint"] \in Nat /\ LaneWeight["entity"] \in Nat
      BY <1>1
    <2> DEFINE v == LaneWeight["vector"]
               k == LaneWeight["keyword"]
               h == LaneWeight["hint"]
               e == LaneWeight["entity"]
    <2>2. v \in Nat /\ k \in Nat /\ h \in Nat /\ e \in Nat /\ v + k + h + e = 100 /\ Unit \in Nat
      BY <2>1, ProfileNumbers
    <2> HIDE DEF v, k, h, e
    <2>3. v * Unit + k * Unit + h * Unit + e * Unit = 100 * Unit
      BY <2>2, SharesAdd
    <2> QED BY <2>3 DEF v, k, h, e
  <1>3. Search!Relevance(o) = s("vector") + s("keyword") + s("hint") + s("entity")
    BY DEF Search!Relevance
  <1> HIDE DEF s, w
  <1> QED BY <1>1, <1>2, <1>3

\* What cues add is a number.
LEMMA BoostIsNumber ==
    ASSUME LanesTyped, \A l \in Search!Lanes : lanes[l] # None, NEW o \in Search!Found
    PROVE  Search!Boost(o) \in Int
  <1> DEFINE worth == [s \in Search!Signals |->
               Ceiling["fused"][s] * (Unit - (Search!Frequency[s] * (Unit \div Search!Cardinality(Search!Found))))]
             Cues(s) == IF s \in Cued[o] THEN worth[s] ELSE 0
  <1>1. IsFiniteSet(Search!Found) /\ Cardinality(Search!Found) \in Nat \ {0}
    <2>1. Search!Found \subseteq Obs
      BY DEF Search!Found, LanesTyped
    <2>2. IsFiniteSet(Obs)
      <3>1. \A S : Search!IsFiniteSet(S) <=> IsFiniteSet(S)
        BY DEF Search!IsFiniteSet, IsFiniteSet
      <3> QED BY <3>1, SearchAssumed DEF Search!RetrievalAssumption
    <2> QED BY <2>1, <2>2, FS_Subset, FS_EmptySet, FS_CardinalityType
  <1>2. \A S : Search!Cardinality(S) = Cardinality(S)
    BY DEF Search!Cardinality, Cardinality
  <1>3. Unit \div Cardinality(Search!Found) \in Nat /\ Unit \in Nat /\ MaxBoost["fused"] * Unit \in Int
    BY <1>1, Divides, SearchAssumed DEF Search!RetrievalAssumption
  <1>4. \A s \in Search!Signals : Search!Frequency[s] \in Nat /\ Ceiling["fused"][s] \in Nat
    <2> SUFFICES ASSUME NEW s \in Search!Signals
                 PROVE  Search!Frequency[s] \in Nat /\ Ceiling["fused"][s] \in Nat
      OBVIOUS
    <2>1. Cardinality({p \in Search!Found : s \in Cued[p]}) \in Nat
      BY <1>1, FS_Subset, FS_CardinalityType
    <2>2. Search!Frequency[s] = Cardinality({p \in Search!Found : s \in Cued[p]})
      BY <1>2 DEF Search!Frequency
    <2> QED BY <2>1, <2>2, SearchAssumed DEF Search!RetrievalAssumption
  <1>5. \A s \in Search!Signals : worth[s] \in Int
    BY <1>2, <1>3, <1>4
  <1> HIDE DEF worth
  <1>6. \A s \in Search!Signals : Cues(s) \in Int
    BY <1>5
  <1>7. Search!Total(o, worth) \in Int
    <2>1. \A s \in {"phrase", "name", "time", "assistant"} : Cues(s) \in Int
      BY <1>6 DEF Search!Signals
    <2>2. Search!Total(o, worth) = Cues("phrase") + Cues("name") + Cues("time") + Cues("assistant")
      BY DEF Search!Total
    <2> HIDE DEF Cues
    <2> QED BY <2>1, <2>2
  <1>8. Search!Boost(o) = Search!Min({Search!Max({Search!Total(o, worth), 0}), MaxBoost["fused"] * Unit})
    BY DEF Search!Boost, worth
  <1>9. Search!Max({Search!Total(o, worth), 0}) \in Int
    BY <1>7, MaxWithZero
  <1> QED BY <1>3, <1>8, <1>9, SmallerOfTwo

\* The part of the band a row is in.
LEMMA WeightWithin ==
    ASSUME LanesTyped, NEW l \in Search!Lanes, lanes[l] # None, NEW o \in DOMAIN lanes[l]
    PROVE  Search!Weighted(lanes[l][o]) \in 117..135
  <1> DEFINE row == lanes[l][o]
  <1>1. row.grip \in Grips /\ row.novelty \in Int
    BY DEF LanesTyped
  <1>2. Held[row.grip] \in Nat
    <2>1. Held \in [Grips -> Nat]
      BY SearchAssumed, Zenon DEF Search!RetrievalAssumption
    <2> QED BY <1>1, <2>1
  <1> HIDE DEF row
  <1>3. Search!Novel(row) \in Int
    BY <1>1 DEF Search!Novel
  <1>4. Search!Lift(row) \in Int
    BY <1>2, <1>3 DEF Search!Lift
  <1>5. Search!Min({110, Search!Lift(row)}) \in Int /\ Search!Min({110, Search!Lift(row)}) <= 110
    BY <1>4, SmallerOfTwo
  <1>6. Search!Capped(row) \in 92..110
    BY <1>5, LargerOfTwo DEF Search!Capped
  <1>7. Search!Weighted(row) \in 117..135
    BY <1>6 DEF Search!Weighted
  <1> QED BY <1>7 DEF row

\* A fused candidate: its score is its relevance with the boost, times its part of the band.
FusedIs(c) ==
  /\ c.cued \in Int /\ c.score > 0 /\ c.final = c.score /\ c.score \in Int
  /\ \E w \in 117..135 : c.score = c.cued * w

LEMMA FusedCandidate ==
    ASSUME LanesTyped, \A l \in Search!Lanes : lanes[l] # None, NEW a, a.profile = "fused",
           NEW c \in Search!Scored(a)
    PROVE  FusedIs(c)
  <1>1. PICK o \in Search!Found : c = Search!Candidate(a, o)
    BY DEF Search!Scored
  <1> DEFINE l == Search!Source(o)
             w == Search!Weighted(lanes[l][o])
             cued == Search!Relevance(o) + Search!Boost(o)
  <1>2. l \in Search!Lanes /\ o \in DOMAIN lanes[l]
    BY FirstLane DEF Search!By
  <1>3. w \in 117..135
    BY <1>2, WeightWithin
  <1>4. cued \in Int
    <2>1. Search!Relevance(o) \in Int
      BY RelevanceWithin, ProfileNumbers
    <2> QED BY <2>1, BoostIsNumber
  <1>5. c.cued = cued /\ c.score = cued * w /\ c.final = c.score
    BY <1>1 DEF Search!Candidate
  <1>6. c.score > 0
    BY DEF Search!Scored
  <1> HIDE DEF w, cued
  <1> QED BY <1>3, <1>4, <1>5, <1>6 DEF FusedIs

\* A candidate ahead of one among the first is among them.
LEMMA FirstAhead ==
    ASSUME NEW C, IsFiniteSet(C), \A c \in C : c.final \in Int, NEW n \in Nat,
           NEW c \in C, NEW d \in Search!First(C, n), c.final > d.final
    PROVE  c \in Search!First(C, n)
  <1> DEFINE Before(x) == {e \in C : Search!Leads(e, x)}
  <1>1. \A x \in C : x \in Search!First(C, n) <=> Cardinality(Before(x)) < n
    <2>1. \A S : Search!Cardinality(S) = Cardinality(S)
      BY DEF Search!Cardinality, Cardinality
    <2> QED BY <2>1 DEF Search!First
  <1>2. d \in C
    BY DEF Search!First
  <1>3. Before(c) \subseteq Before(d)
    <2> SUFFICES ASSUME NEW e \in C, Search!Leads(e, c) PROVE Search!Leads(e, d)
      OBVIOUS
    <2>1. e.final >= c.final
      BY DEF Search!Leads
    <2> QED BY <1>2, <2>1 DEF Search!Leads
  <1>4. IsFiniteSet(Before(d)) /\ Before(d) \subseteq C
    BY FS_Subset
  <1>5. /\ Cardinality(Before(c)) <= Cardinality(Before(d))
        /\ Cardinality(Before(c)) \in Nat /\ Cardinality(Before(d)) \in Nat
    BY <1>3, <1>4, FS_Subset, FS_CardinalityType
  <1>6. Cardinality(Before(d)) < n
    BY <1>1, <1>2
  <1> HIDE DEF Before
  <1> QED BY <1>1, <1>5, <1>6

\* Without a threshold every confidence is enough.
LEMMA SureWithout ==
    ASSUME NEW a, a.threshold = 0, a.profile = "fused", NEW c, c.final \in Int
    PROVE  Search!Confidence(a, c) >= a.threshold * (Search!One(a.profile) \div 100)
  <1>1. Search!One(a.profile) \in Int
    BY ProfileNumbers DEF Search!One
  <1>2. a.threshold * (Search!One(a.profile) \div 100) = 0
    BY <1>1
  <1>3. RecencyBoost \in Nat
    BY SearchAssumed, Zenon DEF Search!RetrievalAssumption
  <1> DEFINE boosted == c.final + (IF c.id \in Recent THEN RecencyBoost * (Search!One(a.profile) \div 100) ELSE 0)
  <1>4. boosted \in Int
    BY <1>1, <1>3
  <1>5. Search!Confidence(a, c) = Search!Max({0, Search!Min({Search!One(a.profile), boosted})})
    BY DEF Search!Confidence
  <1> HIDE DEF boosted
  <1>6. Search!Min({Search!One(a.profile), boosted}) \in Int
    BY <1>1, <1>4, SmallerOfTwo
  <1>7. Search!Confidence(a, c) >= 0
    BY <1>5, <1>6, LargerOfTwo
  <1> QED BY <1>2, <1>7

\* Scores two apart in relevance keep their order: what the band can do is less.
LEMMA AnswerKeepsGap ==
    ASSUME LanesTyped, ask \in Asks, Search!Answer
    PROVE  Search!GapKept'
  <1>1. \A l \in Search!Lanes : lanes[l] # None
    BY DEF Search!Answer, Search!Unread
  <1> DEFINE scored == Search!Scored(ask)
             timely == Search!First(scored, ask.limit)
  <1>2. /\ answer'.ask = ask /\ answer'.scored = scored
        /\ answer'.shown = Search!Shown(ask, Search!applyRetrievalRerank(ask, scored))
    BY DEF Search!Answer
  <1> SUFFICES ASSUME Search!Plain(ask), NEW c \in scored, NEW d \in answer'.shown, c.cued * 117 > d.cued * 135
               PROVE  c.id \in Search!Ids(answer'.shown)
    BY <1>2 DEF Search!GapKept, Search!Plain, Search!Ids
  <1>3. \A e \in scored : FusedIs(e)
    BY <1>1, FusedCandidate DEF Search!Plain
  <1>4. IsFiniteSet(scored) /\ \A e \in scored : e.final \in Int
    <2>1. IsFiniteSet(Search!Found)
      <3>1. \A S : Search!IsFiniteSet(S) <=> IsFiniteSet(S)
        BY DEF Search!IsFiniteSet, IsFiniteSet
      <3>2. IsFiniteSet(Obs) /\ Search!Found \subseteq Obs
        BY <1>1, <3>1, SearchAssumed DEF Search!RetrievalAssumption, Search!Found, LanesTyped
      <3> QED BY <3>2, FS_Subset
    <2>2. IsFiniteSet({Search!Candidate(ask, o) : o \in Search!Found})
      <3> DEFINE image == {Search!Candidate(ask, o) : o \in Search!Found}
                 made1 == [o \in Search!Found |-> Search!Candidate(ask, o)]
      <3>1. made1 \in Surjection(Search!Found, image)
        BY DEF Surjection
      <3> QED BY <2>1, <3>1, FS_Surjection DEF ExistsSurjection
    <2>3. scored \subseteq {Search!Candidate(ask, o) : o \in Search!Found}
      BY DEF Search!Scored
    <2> QED BY <1>3, <2>2, <2>3, FS_Subset DEF FusedIs
  <1>5. ask.limit \in Nat /\ ask.items \in Nat
    BY SearchAssumed, Zenon DEF Search!RetrievalAssumption
  <1>6. answer'.shown = Search!First(timely, ask.items)
    <2>1. Search!applyRetrievalRerank(ask, scored) = scored
      BY DEF Search!applyRetrievalRerank, Search!Plain
    <2>2. \A e \in timely : Search!Confidence(ask, e) >= ask.threshold * (Search!One(ask.profile) \div 100)
      BY <1>4, SureWithout DEF Search!First, Search!Plain
    <2>3. ~ask.window
      BY DEF Search!Plain
    <2> HIDE DEF scored
    <2>4. Search!Shown(ask, scored) = Search!First(timely, ask.items)
      <3> DEFINE all1 == {e \in timely : ask.window => e.id \in Recent}
                 sure == {e \in all1 : ask.shadow \/ Search!Confidence(ask, e) >= ask.threshold * (Search!One(ask.profile) \div 100)}
      <3>1. all1 = timely /\ sure = timely
        BY <2>2, <2>3
      <3>2. Search!Shown(ask, scored) = Search!First(sure, ask.items)
        BY DEF Search!Shown
      <3> QED BY <3>1, <3>2
    <2> QED BY <1>2, <2>1, <2>4
  <1>7. d \in timely /\ timely \subseteq scored
    BY <1>6 DEF Search!First
  <1>8. c.final > d.final
    <2>1. FusedIs(c) /\ FusedIs(d)
      BY <1>3, <1>7
    <2>2. PICK v \in 117..135 : c.score = c.cued * v
      BY <2>1 DEF FusedIs
    <2>3. PICK w \in 117..135 : d.score = d.cued * w
      BY <2>1 DEF FusedIs
    <2>4. c.cued * v > 0 /\ d.cued * w > 0 /\ c.cued \in Int /\ d.cued \in Int
      BY <2>1, <2>2, <2>3 DEF FusedIs
    <2>5. c.cued * v > d.cued * w
      BY <2>2, <2>3, <2>4, InTheBand
    <2> QED BY <2>1, <2>2, <2>3, <2>5 DEF FusedIs
  <1> HIDE DEF scored
  <1>9. c \in timely
    BY <1>4, <1>5, <1>7, <1>8, FirstAhead
  <1>10. IsFiniteSet(timely) /\ \A e \in timely : e.final \in Int
    BY <1>4, <1>7, FS_Subset
  <1>11. c \in Search!First(timely, ask.items)
    BY <1>5, <1>6, <1>8, <1>9, <1>10, FirstAhead
  <1> QED BY <1>6, <1>11 DEF Search!Ids

LEMMA AnswerInBand ==
    ASSUME LanesTyped, Search!Answer
    PROVE  Search!InBand'
  <1>1. \A l \in Search!Lanes : lanes[l] # None
    BY DEF Search!Answer, Search!Unread
  <1>2. answer'.scored = Search!Scored(ask)
    BY DEF Search!Answer
  <1>3. \A c \in Search!Scored(ask) : \E o \in Search!Found : c.relevance = Search!Relevance(o)
    BY DEF Search!Scored, Search!Candidate
  <1> QED BY <1>1, <1>2, <1>3, RelevanceWithin DEF Search!InBand

\* What a search ranks, it ranks as it says.
RankInv == LanesTyped /\ SearchInv /\ Search!GapKept /\ Search!InBand

LEMMA EffectsLook ==
    ASSUME NEW e, Search!updateSurfacingEffects(e) \/ Search!recordMemoryCascade(e) \/ Search!EffectFails(e)
    PROVE  scene' = scene /\ lanes' = lanes
  <1>1. CASE Search!updateSurfacingEffects(e)
    <2>1. UNCHANGED <<scene, ask, lanes, answer, due, lost, cascade, searches, edits, failed>>
      BY <1>1, Zenon DEF Search!updateSurfacingEffects
    <2> QED BY <2>1
  <1>2. CASE Search!recordMemoryCascade(e)
    BY <1>2 DEF Search!recordMemoryCascade
  <1>3. CASE Search!EffectFails(e)
    BY <1>3 DEF Search!EffectFails
  <1> QED BY <1>1, <1>2, <1>3

LEMMA LanesTypedStep ==
    ASSUME LanesTyped, CountsTyped, LanesWithin, Search!Next
    PROVE  LanesTyped'
  <1>1. scene' = scene
    <2>1. (\E a \in Asks : Search!Ask(a)) \/ (\E l \in Search!Lanes : Search!ReadLane(l) \/ Search!LaneFails(l)) => scene' = scene
      BY DEF Search!Ask, Search!ReadLane, Search!LaneFails
    <2>2. Search!ReadCollection \/ Search!Answer => scene' = scene
      BY DEF Search!ReadCollection, Search!Answer
    <2>3. ASSUME NEW e \in pending, Search!updateSurfacingEffects(e) \/ Search!recordMemoryCascade(e) \/ Search!EffectFails(e)
          PROVE  scene' = scene
      BY <2>3, EffectsLook
    <2>4. ASSUME NEW o, NEW row, Search!Edit(o, row) PROVE scene' = scene
      BY <2>4 DEF Search!Edit
    <2> QED BY <2>1, <2>2, <2>3, <2>4 DEF Search!Next
  <1> DEFINE Typed(lane) == lane # None => /\ DOMAIN lane \subseteq Obs
                                           /\ \A o \in DOMAIN lane : lane[o].grip \in Grips /\ lane[o].novelty \in Int
  <1>2. \A l \in Search!Lanes : Typed(Search!Pooled(ask, l))
    <2> SUFFICES ASSUME NEW l \in Search!Lanes PROVE Typed(Search!Pooled(ask, l))
      OBVIOUS
    <2>1. /\ DOMAIN Search!Pooled(ask, l) \subseteq Search!Hits(ask, l)
          /\ \A o \in DOMAIN Search!Pooled(ask, l) : Search!Pooled(ask, l)[o] = rows[o]
      BY DEF Search!Pooled
    <2>2. \A o \in Search!Hits(ask, l) : o \in Obs /\ rows[o] # None
      BY DEF Search!Hits, Search!Gone
    <2> QED BY <2>1, <2>2 DEF CountsTyped
  <1>3. \A l \in Search!Lanes : lanes'[l] \in {lanes[l], None, <<>>, Search!Pooled(ask, l)}
    <2> DEFINE Goal == \A l \in Search!Lanes : lanes'[l] \in {lanes[l], None, <<>>, Search!Pooled(ask, l)}
    <2>1. ASSUME NEW a \in Asks, Search!Ask(a) PROVE Goal
      BY <2>1 DEF Search!Ask, Search!Unread
    <2>2. ASSUME NEW m \in Search!Lanes, Search!ReadLane(m) \/ Search!LaneFails(m) PROVE Goal
      <3>1. DOMAIN lanes = Search!Lanes
        BY DEF LanesWithin
      <3>2. lanes' = [lanes EXCEPT ![m] = Search!Pooled(ask, m)] \/ lanes' = [lanes EXCEPT ![m] = <<>>]
        BY <2>2 DEF Search!ReadLane, Search!LaneFails
      <3> QED BY <3>1, <3>2
    <2>3. Search!ReadCollection => Goal
      BY DEF Search!ReadCollection
    <2>4. ASSUME NEW e \in pending, Search!updateSurfacingEffects(e) \/ Search!recordMemoryCascade(e) \/ Search!EffectFails(e)
          PROVE  lanes' = lanes
      BY <2>4, EffectsLook
    <2>5. ASSUME NEW o, NEW row, Search!Edit(o, row) PROVE lanes' = lanes
      BY <2>5 DEF Search!Edit
    <2>6. Search!Answer => lanes' = lanes
      BY DEF Search!Answer
    <2>7. lanes' = lanes => Goal
      OBVIOUS
    <2> HIDE DEF Goal
    <2>8. Goal
      BY <2>1, <2>2, <2>3, <2>4, <2>5, <2>6, <2>7 DEF Search!Next
    <2> QED BY <2>8 DEF Goal
  <1>4. \A l \in Search!Lanes : Typed(lanes[l]) /\ Typed(None) /\ Typed(<<>>)
    BY DEF LanesTyped
  <1>5. \A l \in Search!Lanes : Typed(lanes'[l])
    <2> HIDE DEF Typed
    <2> QED BY <1>2, <1>3, <1>4
  <1> QED BY <1>1, <1>5 DEF LanesTyped

LEMMA RankStarts ==
    ASSUME AllInit
    PROVE  RankInv
  <1>1. Search!Init
    BY DEF AllInit
  <1>2. scene \in Scenes /\ lanes = [l \in Search!Lanes |-> None] /\ answer = [ask |-> None, shown |-> {}, scored |-> {}]
    BY <1>1 DEF Search!Init, Search!Unread, Search!NoAsk
  <1> QED BY <1>1, <1>2, SearchStarts DEF RankInv, LanesTyped, Search!GapKept, Search!InBand, Search!NoAsk

LEMMA RankStep ==
    ASSUME RankInv, [AllNext]_all
    PROVE  RankInv'
  <1>1. SearchInv'
    BY SearchSteps DEF RankInv
  <1>2. ASSUME answer' = answer PROVE Search!GapKept' /\ Search!InBand'
    BY <1>2 DEF RankInv, Search!GapKept, Search!InBand, Search!Plain, Search!Ids
  <1>3. CASE Search!Next
    <2>1. LanesTyped'
      BY <1>3, LanesTypedStep DEF RankInv, SearchInv, CountsKept
    <2>2. CASE Search!Answer
      <3>1. ask \in Asks
        BY <2>2 DEF RankInv, SearchInv, LanesWithin, Search!Answer, Search!NoAsk
      <3> QED BY <1>1, <2>1, <2>2, <3>1, AnswerKeepsGap, AnswerInBand DEF RankInv
    <2>3. Search!Answer \/ answer' = answer
      BY <1>3 DEF Search!Next, Search!Ask, Search!ReadLane, Search!LaneFails, Search!ReadCollection,
           Search!updateSurfacingEffects, Search!recordMemoryCascade, Search!EffectFails, Search!Edit
    <2> QED BY <1>1, <1>2, <2>1, <2>2, <2>3 DEF RankInv
  <1>4. CASE UNCHANGED Finds
    <2>1. UNCHANGED <<scene, lanes, answer>>
      BY <1>4 DEF Finds
    <2>2. LanesTyped'
      BY <2>1 DEF RankInv, LanesTyped
    <2> QED BY <1>1, <1>2, <2>1, <2>2 DEF RankInv
  <1> QED BY <1>3, <1>4 DEF AllNext, all

-----------------------------------------------------------------------------
(* The tables of identity.  Every table, stored or about to be written, holds cores whose history
   leads to what they say, at most one of them canonical. *)

CoreIds == 1..MaxCores
Past == Seq([from : Contents, to : Contents])

\* A history that leads without a gap to what a core says.
Leading(h, content) ==
  /\ \A n \in 1..(Len(h) - 1) : h[n].to = h[n + 1].from
  /\ h # <<>> => h[Len(h)].to = content

IsCore(r) ==
  /\ r = [here |-> TRUE, weight |-> r.weight, content |-> r.content, visual |-> r.visual,
          reinforced |-> r.reinforced, challenged |-> r.challenged, history |-> r.history]
  /\ r.content \in Contents /\ r.visual \in BOOLEAN /\ r.reinforced \in Nat /\ r.challenged \in Nat
  /\ r.history \in Past /\ Leading(r.history, r.content)

\* What a call of a kind makes of a core: one more of what it counts.
Later(r, s, kind) ==
  /\ IsCore(s) /\ s.visual = r.visual
  /\ s.reinforced = r.reinforced + (IF kind = "reinforce" THEN 1 ELSE 0)
  /\ s.challenged = r.challenged + (IF kind = "challenge" THEN 1 ELSE 0)
  /\ Len(s.history) = Len(r.history) + (IF kind = "evolve" THEN 1 ELSE 0)

CoreTable(t) ==
  /\ DOMAIN t = CoreIds
  /\ \A i \in CoreIds : t[i] = [here |-> FALSE] \/ IsCore(t[i])
  /\ \A i, j \in CoreIds : t[i].here /\ t[i].visual /\ t[j].here /\ t[j].visual => i = j

LEMMA EvolvedLeads ==
    ASSUME NEW h \in Past, NEW from \in Contents, NEW to \in Contents, Leading(h, from)
    PROVE  LET g == Append(h, [from |-> from, to |-> to])
           IN  g \in Past /\ Leading(g, to) /\ Len(g) = Len(h) + 1
  <1> DEFINE e == [from |-> from, to |-> to]
             g == Append(h, e)
  <1>1. e \in [from : Contents, to : Contents] /\ e.from = from /\ e.to = to
    OBVIOUS
  <1> HIDE DEF e
  <1>2. /\ g \in Past /\ Len(g) = Len(h) + 1 /\ Len(h) \in Nat
        /\ \A n \in 1..Len(h) : g[n] = h[n]
        /\ g[Len(h) + 1] = e
    BY <1>1 DEF Past
  <1> HIDE DEF g
  <1>3. ASSUME NEW n \in 1..(Len(g) - 1) PROVE g[n].to = g[n + 1].from
    <2>1. n \in 1..Len(h) /\ g[n] = h[n]
      BY <1>2
    <2>2. CASE n < Len(h)
      <3>1. n + 1 \in 1..Len(h) /\ n \in 1..(Len(h) - 1)
        BY <1>2, <2>1, <2>2
      <3>2. g[n + 1] = h[n + 1]
        BY <1>2, <3>1
      <3> QED BY <2>1, <3>1, <3>2 DEF Leading
    <2>3. CASE n = Len(h)
      <3>1. h # <<>>
        BY <2>1, <2>3
      <3> QED BY <1>1, <1>2, <2>1, <2>3, <3>1 DEF Leading
    <2> QED BY <1>2, <2>1, <2>2, <2>3
  <1>4. g[Len(g)].to = to
    BY <1>1, <1>2
  <1>5. g \in Past /\ Leading(g, to) /\ Len(g) = Len(h) + 1
    BY <1>2, <1>3, <1>4 DEF Leading
  <1> QED BY <1>5 DEF g, e

\* The two instances change a core alike.
LEMMA ChangedAlike == \A kind, r, text : Two!Changed(kind, r, text) = One!Changed(kind, r, text)
  <1>1. \A x : Two!Max(x) = One!Max(x)
    BY DEF Two!Max, One!Max
  <1> QED BY <1>1 DEF One!Changed, One!reinforce, One!challenge, One!evolve, One!Weight,
                      Two!Changed, Two!reinforce, Two!challenge, Two!evolve, Two!Weight

\* The fields of a record changed one after the other.
LEMMA TwoChanged ==
    ASSUME NEW h, NEW w, NEW c, NEW v, NEW n, NEW m, NEW p, NEW x, NEW y
    PROVE  /\ [[here |-> h, weight |-> w, content |-> c, visual |-> v, reinforced |-> n, challenged |-> m, history |-> p]
                 EXCEPT !.weight = x, !.reinforced = y]
               = [here |-> h, weight |-> x, content |-> c, visual |-> v, reinforced |-> y, challenged |-> m, history |-> p]
           /\ [[here |-> h, weight |-> w, content |-> c, visual |-> v, reinforced |-> n, challenged |-> m, history |-> p]
                 EXCEPT !.weight = x, !.challenged = y]
               = [here |-> h, weight |-> x, content |-> c, visual |-> v, reinforced |-> n, challenged |-> y, history |-> p]
  <1> DEFINE r == [here |-> h, weight |-> w, content |-> c, visual |-> v, reinforced |-> n, challenged |-> m, history |-> p]
             q == [r EXCEPT !.weight = x]
  <1>1. q = [here |-> h, weight |-> x, content |-> c, visual |-> v, reinforced |-> n, challenged |-> m, history |-> p]
    OBVIOUS
  <1> HIDE DEF q
  <1>2. [q EXCEPT !.reinforced = y]
          = [here |-> h, weight |-> x, content |-> c, visual |-> v, reinforced |-> y, challenged |-> m, history |-> p]
    BY <1>1
  <1>3. [q EXCEPT !.challenged = y]
          = [here |-> h, weight |-> x, content |-> c, visual |-> v, reinforced |-> n, challenged |-> y, history |-> p]
    BY <1>1
  <1> QED BY <1>2, <1>3, Zenon DEF q

LEMMA ThreeChanged ==
    ASSUME NEW h, NEW w, NEW c, NEW v, NEW n, NEW m, NEW p, NEW x, NEW y, NEW z
    PROVE  [[here |-> h, weight |-> w, content |-> c, visual |-> v, reinforced |-> n, challenged |-> m, history |-> p]
              EXCEPT !.history = x, !.content = y, !.weight = z]
             = [here |-> h, weight |-> z, content |-> y, visual |-> v, reinforced |-> n, challenged |-> m, history |-> x]
  <1> DEFINE r == [here |-> h, weight |-> w, content |-> c, visual |-> v, reinforced |-> n, challenged |-> m, history |-> p]
             q == [r EXCEPT !.history = x]
             u == [q EXCEPT !.content = y]
  <1>1. q = [here |-> h, weight |-> w, content |-> c, visual |-> v, reinforced |-> n, challenged |-> m, history |-> x]
    OBVIOUS
  <1> HIDE DEF q
  <1>2. u = [here |-> h, weight |-> w, content |-> y, visual |-> v, reinforced |-> n, challenged |-> m, history |-> x]
    BY <1>1
  <1> HIDE DEF u
  <1>3. [u EXCEPT !.weight = z]
          = [here |-> h, weight |-> z, content |-> y, visual |-> v, reinforced |-> n, challenged |-> m, history |-> x]
    BY <1>2
  <1> QED BY <1>3, Zenon DEF q, u

LEMMA ChangedIsLater ==
    ASSUME NEW r, IsCore(r), NEW kind \in {"reinforce", "challenge", "evolve"}, NEW text, kind = "evolve" => text \in Contents
    PROVE  Later(r, One!Changed(kind, r, text), kind)
  <1> DEFINE s == One!Changed(kind, r, text)
  <1>0. PICK w, c, v, n, m, h : r = [here |-> TRUE, weight |-> w, content |-> c, visual |-> v,
                                     reinforced |-> n, challenged |-> m, history |-> h]
    BY Zenon DEF IsCore
  <1>4. /\ c \in Contents /\ v \in BOOLEAN /\ n \in Nat /\ m \in Nat /\ h \in Past /\ Leading(h, c) /\ Len(h) \in Nat
        /\ r.visual = v /\ r.reinforced = n /\ r.challenged = m /\ r.history = h /\ r.content = c
    BY <1>0 DEF IsCore, Past
  <1>5. \A x, y, z, d, e, g :
          /\ d \in Contents /\ y \in Nat /\ z \in Nat /\ g \in Past /\ Leading(g, d)
          => IsCore([here |-> TRUE, weight |-> x, content |-> d, visual |-> v, reinforced |-> y, challenged |-> z, history |-> g])
    BY <1>4 DEF IsCore
  <1>1. CASE kind = "reinforce"
    <2>1. s = [r EXCEPT !.weight = One!Weight(r) + 2, !.reinforced = n + 1]
      BY <1>1, <1>4 DEF One!Changed, One!reinforce
    <2> DEFINE x == One!Weight(r) + 2
    <2> HIDE DEF s, x
    <2>2. s = [here |-> TRUE, weight |-> x, content |-> c, visual |-> v,
               reinforced |-> n + 1, challenged |-> m, history |-> h]
      <3>1. s = [[here |-> TRUE, weight |-> w, content |-> c, visual |-> v, reinforced |-> n, challenged |-> m, history |-> h]
                  EXCEPT !.weight = x, !.reinforced = n + 1]
        BY <2>1, <1>0, Zenon DEF x
      <3> QED BY <3>1, TwoChanged, Zenon
    <2>3. IsCore(s)
      BY <1>4, <1>5, <2>2
    <2> QED BY <1>1, <1>4, <2>2, <2>3 DEF Later, s
  <1>2. CASE kind = "challenge"
    <2> DEFINE x == One!Max({2, One!Weight(r) - 1})
    <2>1. s = [r EXCEPT !.weight = x, !.challenged = m + 1]
      BY <1>2, <1>4 DEF One!Changed, One!challenge
    <2> HIDE DEF s, x
    <2>2. s = [here |-> TRUE, weight |-> x, content |-> c, visual |-> v,
               reinforced |-> n, challenged |-> m + 1, history |-> h]
      <3>1. s = [[here |-> TRUE, weight |-> w, content |-> c, visual |-> v, reinforced |-> n, challenged |-> m, history |-> h]
                  EXCEPT !.weight = x, !.challenged = m + 1]
        BY <2>1, <1>0, Zenon
      <3> QED BY <3>1, TwoChanged, Zenon
    <2>3. IsCore(s)
      BY <1>4, <1>5, <2>2
    <2> QED BY <1>2, <1>4, <2>2, <2>3 DEF Later, s
  <1>3. CASE kind = "evolve"
    <2> DEFINE g == Append(h, [from |-> c, to |-> text])
               x == 20 + 4 * (Len(h) + 1)
    <2>1. s = [r EXCEPT !.history = g, !.content = text, !.weight = x]
      BY <1>3, <1>4 DEF One!Changed, One!evolve
    <2>2. g \in Past /\ Leading(g, text) /\ Len(g) = Len(h) + 1
      BY <1>3, <1>4, EvolvedLeads
    <2> HIDE DEF s, g, x
    <2>3. s = [here |-> TRUE, weight |-> x, content |-> text, visual |-> v,
               reinforced |-> n, challenged |-> m, history |-> g]
      <3>1. s = [[here |-> TRUE, weight |-> w, content |-> c, visual |-> v, reinforced |-> n, challenged |-> m, history |-> h]
                  EXCEPT !.history = g, !.content = text, !.weight = x]
        BY <2>1, <1>0, Zenon
      <3> QED BY <3>1, ThreeChanged, Zenon
    <2>4. IsCore(s)
      BY <1>3, <1>4, <1>5, <2>2, <2>3
    <2> QED BY <1>3, <1>4, <2>2, <2>3, <2>4 DEF Later, s
  <1> QED BY <1>1, <1>2, <1>3

\* A new core.
LEMMA NewIsCore ==
    ASSUME NEW w, NEW text \in Contents, NEW v \in BOOLEAN
    PROVE  /\ IsCore(One!Core(w, text, v)) /\ Two!Core(w, text, v) = One!Core(w, text, v)
           /\ One!Core(w, text, v).visual = v /\ One!Core(w, text, v).reinforced = 0
           /\ One!Core(w, text, v).challenged = 0 /\ One!Core(w, text, v).history = <<>>
  <1>1. <<>> \in Past /\ Len(<<>>) = 0 /\ Leading(<<>>, text)
    BY DEF Past, Leading
  <1> QED BY <1>1 DEF IsCore, One!Core, Two!Core

\* A row written into a table: one changed, or a new one, canonical only where none is.
LEMMA TableWritten ==
    ASSUME NEW t, CoreTable(t), NEW i \in CoreIds, NEW s, IsCore(s),
           s.visual => \A j \in CoreIds : t[j].here /\ t[j].visual => j = i
    PROVE  CoreTable([t EXCEPT ![i] = s])
  <1> DEFINE u == [t EXCEPT ![i] = s]
  <1>1. DOMAIN u = CoreIds /\ \A j \in CoreIds : u[j] = IF j = i THEN s ELSE t[j]
    BY DEF CoreTable
  <1> HIDE DEF u
  <1>2. CoreTable(u)
    BY <1>1 DEF CoreTable
  <1> QED BY <1>2 DEF u

NewKinds == {"seed", "wake"}
ChangeKinds == {"reinforce", "challenge", "evolve"}
CoreKinds == NewKinds \cup ChangeKinds
NoBody == [i \in CoreIds |-> [here |-> FALSE]]

LEMMA NobodyIsTable == CoreTable(NoBody) /\ One!NoCores = NoBody /\ Two!NoCores = NoBody
  <1>1. CoreTable(NoBody)
    BY DEF CoreTable, NoBody
  <1> QED BY <1>1 DEF NoBody, CoreIds, One!NoCores, One!Ids, One!NoRow, Two!NoCores, Two!Ids, Two!NoRow

\* What a call makes of a table it read is a table: with a new core under an id, or one changed.
LEMMA NewTable ==
    ASSUME NEW t, CoreTable(t), NEW i \in CoreIds, NEW w, NEW text \in Contents, NEW v \in BOOLEAN,
           v => \A j \in CoreIds : ~(t[j].here /\ t[j].visual)
    PROVE  CoreTable([t EXCEPT ![i] = One!Core(w, text, v)])
  <1>1. IsCore(One!Core(w, text, v)) /\ One!Core(w, text, v).visual = v
    BY NewIsCore
  <1> QED BY <1>1, TableWritten

LEMMA ChangedTable ==
    ASSUME NEW t, CoreTable(t), NEW i \in CoreIds, t[i].here, NEW kind \in ChangeKinds, NEW text,
           kind = "evolve" => text \in Contents
    PROVE  /\ CoreTable([t EXCEPT ![i] = One!Changed(kind, @, text)])
           /\ Later(t[i], One!Changed(kind, t[i], text), kind)
  <1> DEFINE s == One!Changed(kind, t[i], text)
  <1>1. IsCore(t[i])
    <2>1. t[i] = [here |-> FALSE] => ~t[i].here
      OBVIOUS
    <2> QED BY <2>1 DEF CoreTable
  <1>2. Later(t[i], s, kind)
    BY <1>1, ChangedIsLater DEF ChangeKinds
  <1> HIDE DEF s
  <1>3. CoreTable([t EXCEPT ![i] = s])
    <2>1. s.visual => \A j \in CoreIds : t[j].here /\ t[j].visual => j = i
      BY <1>2 DEF CoreTable, Later
    <2> QED BY <1>2, <2>1, TableWritten DEF Later
  <1> QED BY <1>2, <1>3, Zenon DEF s

\* With two callers and a fault: whatever is stored or about to be is a table.
TwoInv ==
  /\ CoreTable(cores) /\ DOMAIN call = Callers
  /\ made = [core |-> made.core, anchor |-> made.anchor] /\ made.core \in Nat
  /\ \A c \in Callers : call[c] # [busy |-> FALSE] /\ call[c].kind \in CoreKinds => CoreTable(call[c].cores)

LEMMA TablesHold == CoreTable(cores) => Two!HistoryLeads /\ Two!OneVisual /\ One!HistoryLeads
  <1> SUFFICES ASSUME CoreTable(cores) PROVE Two!HistoryLeads /\ Two!OneVisual /\ One!HistoryLeads
    OBVIOUS
  <1>1. ASSUME NEW i \in CoreIds, cores[i].here PROVE Leading(cores[i].history, cores[i].content)
    <2>1. cores[i] = [here |-> FALSE] => ~cores[i].here
      OBVIOUS
    <2> QED BY <1>1, <2>1 DEF CoreTable, IsCore
  <1>2. Two!HistoryLeads /\ One!HistoryLeads
    BY <1>1 DEF Two!HistoryLeads, One!HistoryLeads, One!Ids, Two!Ids, CoreIds, Leading
  <1>3. Two!OneVisual
    <2> DEFINE S == {i \in CoreIds : cores[i].here /\ cores[i].visual}
    <2>1. S = {} \/ \E x : S = {x}
      <3>1. \A i, j \in S : i = j
        BY DEF CoreTable
      <3> QED BY <3>1
    <2> HIDE DEF S
    <2>2. Cardinality(S) \in {0, 1}
      <3>1. CASE S = {}
        BY <3>1, FS_EmptySet
      <3>2. ASSUME NEW x, S = {x} PROVE Cardinality(S) = 1
        BY <3>2, FS_Singleton
      <3> QED BY <2>1, <3>1, <3>2
    <2>3. Two!Cardinality(S) = Cardinality(S)
      BY DEF Two!Cardinality, Cardinality
    <2> QED BY <2>2, <2>3 DEF Two!OneVisual, Two!Ids, CoreIds, S
  <1> QED BY <1>2, <1>3

LEMMA TwoBegins == Two!Init => TwoInv
  <1> SUFFICES ASSUME Two!Init PROVE TwoInv
    OBVIOUS
  <1>1. CoreTable(cores)
    BY NobodyIsTable DEF Two!Init
  <1>2. DOMAIN call = Callers /\ \A c \in Callers : call[c] = [busy |-> FALSE]
    BY DEF Two!Init, Two!Idle
  <1>3. made = [core |-> 0, anchor |-> 0]
    BY DEF Two!Init
  <1> QED BY <1>1, <1>2, <1>3 DEF TwoInv

\* A call that reads a table, or no rows where the query fails, has one before it.
LEMMA TwoStep ==
    ASSUME TwoInv, NEW c \in Callers,
           \/ \E w \in Weights, t \in Contents : Two!Seed(c, w, t)
           \/ \E i \in CoreIds : \/ Two!Change(c, "reinforce", i, "none") \/ Two!Change(c, "challenge", i, "none")
                                 \/ \E t \in Contents : Two!Change(c, "evolve", i, t)
           \/ \E t \in Contents : Two!ensureRainerEmbodimentCore(c, t)
    PROVE  TwoInv'
  <1> DEFINE Writes(k) == CoreTable(k.cores)
             Plan == \E k : Writes(k) /\ call' = [call EXCEPT ![c] = k]
  <1>1. Plan /\ cores' = cores /\ made' = [core |-> made'.core, anchor |-> made'.anchor] /\ made'.core \in Nat => TwoInv'
    BY DEF TwoInv
  <1>2. call' = call /\ cores' = cores /\ made' = [core |-> made'.core, anchor |-> made'.anchor] /\ made'.core \in Nat => TwoInv'
    BY DEF TwoInv
  <1>3. /\ CoreTable(cores) /\ CoreTable(Two!NoCores) /\ made.core \in Nat /\ MaxCores \in Nat
        /\ made = [core |-> made.core, anchor |-> made.anchor]
    BY NobodyIsTable, ToolsAssumption DEF TwoInv, Two!IdentityAssumption
  <1>4. made.core < MaxCores => made.core + 1 \in CoreIds
    BY <1>3 DEF CoreIds
  <1>5. made' = [made EXCEPT !.core = @ + 1] => made' = [core |-> made'.core, anchor |-> made'.anchor] /\ made'.core \in Nat
    BY <1>3
  <1>6. ASSUME NEW w \in Weights, NEW t \in Contents, Two!Seed(c, w, t) PROVE TwoInv'
    <2> PICK held \in {cores, Two!NoCores} :
          /\ made.core < MaxCores /\ made' = [made EXCEPT !.core = @ + 1]
          /\ Two!WillWrite(c, "seed", made.core + 1, [held EXCEPT ![made.core + 1] = Two!Core(w, t, FALSE)])
          /\ cores' = cores
      BY <1>6 DEF Two!Seed
    <2>1. CoreTable([held EXCEPT ![made.core + 1] = Two!Core(w, t, FALSE)])
      <3>1. CoreTable([held EXCEPT ![made.core + 1] = One!Core(w, t, FALSE)])
        BY <1>3, <1>4, NewTable
      <3> QED BY <3>1 DEF One!Core, Two!Core
    <2>2. Plan
      BY <2>1 DEF Two!WillWrite
    <2> QED BY <1>1, <1>5, <2>2
  <1>7. ASSUME NEW kind \in ChangeKinds, NEW i \in CoreIds, NEW t, kind = "evolve" => t \in Contents, Two!Change(c, kind, i, t)
        PROVE  TwoInv'
    <2> PICK held \in {cores, Two!NoCores} :
          /\ IF held[i].here THEN Two!WillWrite(c, kind, i, [held EXCEPT ![i] = Two!Changed(kind, @, t)]) ELSE UNCHANGED call
          /\ cores' = cores /\ made' = made
      BY <1>7 DEF Two!Change
    <2>1. CASE held[i].here
      <3>1. CoreTable([held EXCEPT ![i] = One!Changed(kind, @, t)])
        BY <1>3, <1>7, <2>1, ChangedTable
      <3>2. CoreTable([held EXCEPT ![i] = Two!Changed(kind, @, t)])
        BY <3>1, ChangedAlike
      <3>3. Plan
        BY <2>1, <3>2 DEF Two!WillWrite
      <3> QED BY <1>1, <1>3, <3>3
    <2>2. CASE ~held[i].here
      BY <1>2, <1>3, <2>2
    <2> QED BY <2>1, <2>2
  <1>8. ASSUME NEW t \in Contents, Two!ensureRainerEmbodimentCore(c, t) PROVE TwoInv'
    <2> PICK held \in {cores, Two!NoCores} :
          /\ made.core < MaxCores
          /\ IF Two!hasVisualCore(held) THEN UNCHANGED <<call, made>>
             ELSE /\ made' = [made EXCEPT !.core = @ + 1]
                  /\ Two!WillWrite(c, "wake", made.core + 1, [held EXCEPT ![made.core + 1] = Two!Core(20, t, TRUE)])
          /\ cores' = cores
      BY <1>8 DEF Two!ensureRainerEmbodimentCore
    <2>1. CASE Two!hasVisualCore(held)
      BY <1>2, <1>3, <2>1
    <2>2. CASE ~Two!hasVisualCore(held)
      <3>1. \A j \in CoreIds : ~(held[j].here /\ held[j].visual)
        BY <2>2 DEF Two!hasVisualCore, Two!Ids, CoreIds
      <3>2. CoreTable([held EXCEPT ![made.core + 1] = Two!Core(20, t, TRUE)])
        <4>1. CoreTable([held EXCEPT ![made.core + 1] = One!Core(20, t, TRUE)])
          BY <1>3, <1>4, <3>1, NewTable
        <4> QED BY <4>1 DEF One!Core, Two!Core
      <3>3. Plan
        BY <2>2, <3>2 DEF Two!WillWrite
      <3> QED BY <1>1, <1>5, <2>2, <3>3
    <2> QED BY <2>1, <2>2
  <1> QED BY <1>6, <1>7, <1>8 DEF ChangeKinds

LEMMA TwoSteps == ASSUME TwoInv, [Two!Next]_Self PROVE TwoInv'
  <1>1. ASSUME NEW c \in Callers, Two!writeIdentityCores(c) PROVE TwoInv'
    BY <1>1 DEF TwoInv, Two!writeIdentityCores, Two!Replace, Two!Idle, CoreKinds, NewKinds, ChangeKinds
  <1>2. ASSUME NEW c \in Callers, Two!CreateAnchor(c) PROVE TwoInv'
    <2>1. cores' = cores /\ made' = [made EXCEPT !.anchor = @ + 1]
      BY <1>2 DEF Two!CreateAnchor
    <2>2. \E k : k.kind = "anchor" /\ call' = [call EXCEPT ![c] = k]
      BY <1>2 DEF Two!CreateAnchor, Two!WillWriteAnchors
    <2> QED BY <2>1, <2>2 DEF TwoInv, CoreKinds, NewKinds, ChangeKinds
  <1>3. ASSUME NEW c \in Callers, NEW hits, Two!CheckAnchors(c, hits) PROVE TwoInv'
    <2>1. cores' = cores /\ made' = made
      BY <1>3 DEF Two!CheckAnchors
    <2>2. call' = call \/ \E k : k.kind = "resonate" /\ call' = [call EXCEPT ![c] = k]
      BY <1>3 DEF Two!CheckAnchors, Two!WillWriteAnchors
    <2> QED BY <2>1, <2>2 DEF TwoInv, CoreKinds, NewKinds, ChangeKinds
  <1>4. ASSUME NEW c \in Callers, NEW hits, Two!touchAnchors(c, hits) PROVE TwoInv'
    BY <1>4 DEF TwoInv, Two!touchAnchors
  <1>5. ASSUME NEW c \in Callers, Two!writeAnchors(c) \/ Two!WriteFails(c) PROVE TwoInv'
    BY <1>5 DEF TwoInv, Two!writeAnchors, Two!WriteFails, Two!Idle
  <1>6. CASE UNCHANGED Self
    BY <1>6 DEF TwoInv, Self
  <1> QED BY <1>1, <1>2, <1>3, <1>4, <1>5, <1>6, TwoStep DEF Two!Next, Two!Ids, CoreIds, Two!AnchorIds

(* One caller after the other: what the rows say is what the calls did.                            *)

AnchorRows == 1..MaxAnchors
EveryRow == CoreIds \cup AnchorRows
AnchorOf(n) == [here |-> TRUE, activations |-> n]
AnchorTable(t) ==
  /\ DOMAIN t = AnchorRows
  /\ \A i \in AnchorRows : t[i] = [here |-> FALSE] \/ \E n \in Nat : t[i] = AnchorOf(n)

Counts == [One!Kinds -> [EveryRow -> Nat]]
CoreCounted(i) ==
  IF cores[i].here
  THEN /\ i <= made.core
       /\ cores[i].reinforced = done["reinforce"][i] /\ cores[i].challenged = done["challenge"][i]
       /\ Len(cores[i].history) = done["evolve"][i]
  ELSE \A kind \in CoreKinds : done[kind][i] = 0
AnchorCounted(i) ==
  IF anchors[i].here
  THEN i <= made.anchor /\ anchors[i].activations = done["resonate"][i] + done["touch"][i]
  ELSE \A kind \in {"anchor", "resonate", "touch"} : done[kind][i] = 0

\* A call that is about to write: the table it makes of the one there is.
WillAdd(k) ==
  /\ k.kind \in NewKinds /\ k.id \in CoreIds /\ k.id <= made.core /\ ~cores[k.id].here /\ CoreTable(k.cores)
  /\ k.cores[k.id].here /\ k.cores[k.id].reinforced = 0 /\ k.cores[k.id].challenged = 0 /\ k.cores[k.id].history = <<>>
  /\ \A j \in CoreIds : j # k.id => k.cores[j] = cores[j]
WillChange(k) ==
  /\ k.kind \in ChangeKinds /\ k.id \in CoreIds /\ cores[k.id].here /\ CoreTable(k.cores)
  /\ Later(cores[k.id], k.cores[k.id], k.kind)
  /\ \A j \in CoreIds : j # k.id => k.cores[j] = cores[j]
WillAnchor(k) ==
  /\ k.kind = "anchor"
  /\ \E i \in AnchorRows : /\ k.hits = {i} /\ i <= made.anchor /\ ~anchors[i].here
                           /\ k.anchors = [anchors EXCEPT ![i] = AnchorOf(0)]
WillActivate(k) ==
  /\ k.kind = "resonate"
  /\ \A i \in k.hits : i \in AnchorRows /\ anchors[i].here
  /\ k.anchors = One!Resonant(anchors, k.hits)
Planned(k) == WillAdd(k) \/ WillChange(k) \/ WillAnchor(k) \/ WillActivate(k)

OneInv ==
  /\ faults = 0 /\ CoreTable(cores) /\ AnchorTable(anchors) /\ done \in Counts
  /\ made = [core |-> made.core, anchor |-> made.anchor] /\ made.core \in Nat /\ made.anchor \in Nat
  /\ DOMAIN call = {"c1"} /\ (call["c1"] = [busy |-> FALSE] \/ Planned(call["c1"]))
  /\ (\A i \in CoreIds : CoreCounted(i)) /\ (\A i \in AnchorRows : AnchorCounted(i))

LEMMA OneIsTrue ==
    ASSUME OneInv
    PROVE  One!CoresKept /\ One!AnchorsKept /\ One!LifeCounted /\ One!ActivationsCounted /\ One!HistoryLeads
  <1>1. One!HistoryLeads
    BY TablesHold DEF OneInv
  <1>2. One!CoresKept
    <2>1. ASSUME NEW i \in CoreIds, ~cores[i].here PROVE done["seed"][i] + done["wake"][i] = 0
      BY <2>1 DEF OneInv, CoreCounted, CoreKinds, NewKinds
    <2> QED BY <2>1 DEF One!CoresKept, One!Times, One!Ids, CoreIds
  <1>3. One!AnchorsKept
    <2>1. ASSUME NEW i \in AnchorRows, ~anchors[i].here PROVE done["anchor"][i] = 0
      BY <2>1 DEF OneInv, AnchorCounted
    <2> QED BY <2>1 DEF One!AnchorsKept, One!Times, One!AnchorIds, AnchorRows
  <1>4. One!LifeCounted
    BY DEF OneInv, CoreCounted, One!LifeCounted, One!Times, One!Ids, CoreIds
  <1>5. One!ActivationsCounted
    BY DEF OneInv, AnchorCounted, One!ActivationsCounted, One!Times, One!AnchorIds, AnchorRows
  <1> QED BY <1>1, <1>2, <1>3, <1>4, <1>5

LEMMA OneBegins == One!Init => OneInv
  <1> SUFFICES ASSUME One!Init PROVE OneInv
    OBVIOUS
  <1>1. CoreTable(cores) /\ \A i \in CoreIds : ~cores[i].here
    BY NobodyIsTable DEF One!Init, NoBody
  <1>2. AnchorTable(anchors) /\ \A i \in AnchorRows : ~anchors[i].here
    BY DEF One!Init, One!NoAnchors, One!NoRow, One!AnchorIds, AnchorTable, AnchorRows
  <1>3. done = [kind \in One!Kinds |-> [i \in EveryRow |-> 0]]
    BY DEF One!Init, One!Ids, One!AnchorIds, EveryRow, CoreIds, AnchorRows
  <1>4. done \in Counts
    BY <1>3 DEF Counts
  <1>5. made = [core |-> 0, anchor |-> 0] /\ faults = 0 /\ call = [c \in {"c1"} |-> [busy |-> FALSE]]
    BY DEF One!Init, One!Idle
  <1>6. \A i \in CoreIds : CoreCounted(i)
    BY <1>1, <1>3 DEF CoreCounted, CoreKinds, NewKinds, ChangeKinds, EveryRow, One!Kinds
  <1>7. \A i \in AnchorRows : AnchorCounted(i)
    BY <1>2, <1>3 DEF AnchorCounted, EveryRow, One!Kinds
  <1> QED BY <1>1, <1>2, <1>4, <1>5, <1>6, <1>7 DEF OneInv

LEMMA CountsAnswered ==
    ASSUME done \in Counts, NEW kind \in One!Kinds, NEW ids, One!Answered(kind, ids)
    PROVE  /\ done' \in Counts
           /\ \A q \in One!Kinds : q # kind => done'[q] = done[q]
           /\ \A i \in EveryRow : done'[kind][i] = done[kind][i] + (IF i \in ids THEN 1 ELSE 0)
  <1> DEFINE f == [i \in EveryRow |-> done[kind][i] + IF i \in ids THEN 1 ELSE 0]
  <1>1. done' = [done EXCEPT ![kind] = f]
    BY DEF One!Answered, One!Ids, One!AnchorIds, EveryRow, CoreIds, AnchorRows
  <1>2. f \in [EveryRow -> Nat]
    BY DEF Counts
  <1>3. \A i \in EveryRow : f[i] = done[kind][i] + IF i \in ids THEN 1 ELSE 0
    OBVIOUS
  <1> HIDE DEF f
  <1> QED BY <1>1, <1>2, <1>3 DEF Counts

\* A call that only reads: what is stored stays, and what it is about to write is planned.
LEMMA OnePlans ==
    ASSUME OneInv, call["c1"] = [busy |-> FALSE], UNCHANGED <<cores, anchors, done, faults>>,
           \/ made' = made \/ made' = [made EXCEPT !.core = @ + 1] \/ made' = [made EXCEPT !.anchor = @ + 1],
           \/ call' = call
           \/ \E k : call' = [call EXCEPT !["c1"] = k] /\ Planned(k)'
    PROVE  OneInv'
  <1>1. /\ made' = [core |-> made'.core, anchor |-> made'.anchor] /\ made'.core \in Nat /\ made'.anchor \in Nat
        /\ made.core <= made'.core /\ made.anchor <= made'.anchor /\ made.core \in Nat /\ made.anchor \in Nat
    BY DEF OneInv
  <1>2. CoreTable(cores)' /\ AnchorTable(anchors)' /\ (done \in Counts)' /\ faults' = 0
    BY DEF OneInv, CoreTable, AnchorTable, Counts
  <1>3. DOMAIN call' = {"c1"} /\ (call'["c1"] = [busy |-> FALSE] \/ Planned(call["c1"])')
    BY DEF OneInv
  <1>4. ASSUME NEW i \in CoreIds PROVE CoreCounted(i)'
    <2>1. CoreCounted(i) /\ i \in Int
      BY DEF OneInv, CoreIds
    <2> QED BY <1>1, <2>1 DEF CoreCounted
  <1>5. ASSUME NEW i \in AnchorRows PROVE AnchorCounted(i)'
    <2>1. AnchorCounted(i) /\ i \in Int
      BY DEF OneInv, AnchorRows
    <2> QED BY <1>1, <2>1 DEF AnchorCounted
  <1> QED BY <1>1, <1>2, <1>3, <1>4, <1>5 DEF OneInv

\* The new rows and the changed ones, and what they are counted from.
LEMMA OneReads ==
    ASSUME OneInv, NEW c \in {"c1"}, NEW kind, NEW held, NEW table, NEW empty,
           One!Starts(c, kind), One!Read(held, table, empty)
    PROVE  held = table /\ faults' = faults /\ c = "c1" /\ call["c1"] = [busy |-> FALSE]
  BY DEF OneInv, One!Read, One!Starts, One!Idle

LEMMA OneAdds ==
    ASSUME OneInv, call["c1"] = [busy |-> FALSE], NEW kind \in NewKinds, NEW w, NEW t \in Contents, NEW v \in BOOLEAN,
           v => \A j \in CoreIds : ~(cores[j].here /\ cores[j].visual),
           made.core < MaxCores, made' = [made EXCEPT !.core = @ + 1], UNCHANGED <<cores, anchors, done, faults>>,
           One!WillWrite("c1", kind, made.core + 1, [cores EXCEPT ![made.core + 1] = One!Core(w, t, v)])
    PROVE  OneInv'
  <1> DEFINE new == made.core + 1
             row == One!Core(w, t, v)
             rest == [cores EXCEPT ![new] = row]
  <1>1. made.core \in Nat /\ new \in CoreIds /\ new = made'.core
    <2>1. MaxCores \in Nat
      BY ToolsAssumption DEF One!IdentityAssumption
    <2> QED BY <2>1 DEF OneInv, CoreIds
  <1>2. ~cores[new].here
    BY <1>1 DEF OneInv, CoreCounted
  <1>3. row.here /\ row.reinforced = 0 /\ row.challenged = 0 /\ row.history = <<>>
    BY DEF One!Core
  <1>4. CoreTable(rest)
    BY <1>1, NewTable DEF OneInv
  <1>5. rest[new] = row /\ \A j \in CoreIds : j # new => rest[j] = cores[j]
    BY <1>1 DEF OneInv, CoreTable
  <1> PICK k : k = [busy |-> TRUE, kind |-> kind, id |-> new, cores |-> rest, hits |-> {}] /\ call' = [call EXCEPT !["c1"] = k]
    BY DEF One!WillWrite
  <1> HIDE DEF row, rest, new
  <1>7. k.kind = kind /\ k.id = new /\ k.cores = rest
    OBVIOUS
  <1>8. WillAdd(k)'
    BY <1>1, <1>2, <1>3, <1>4, <1>5, <1>7 DEF WillAdd, CoreTable
  <1> QED BY <1>8, OnePlans DEF Planned

LEMMA OneSeeds ==
    ASSUME OneInv, NEW c \in {"c1"}, NEW w \in Weights, NEW t \in Contents, One!Seed(c, w, t)
    PROVE  OneInv'
  <1> PICK held \in {cores, One!NoCores} :
        /\ One!Starts(c, "seed") /\ One!Read(held, cores, One!NoCores)
        /\ made.core < MaxCores /\ made' = [made EXCEPT !.core = @ + 1]
        /\ One!WillWrite(c, "seed", made.core + 1, [held EXCEPT ![made.core + 1] = One!Core(w, t, FALSE)])
        /\ UNCHANGED <<cores, anchors, done>>
    BY DEF One!Seed
  <1>1. held = cores /\ faults' = faults /\ c = "c1" /\ call["c1"] = [busy |-> FALSE]
    BY OneReads
  <1> QED BY <1>1, OneAdds DEF NewKinds

LEMMA OneWakes ==
    ASSUME OneInv, NEW c \in {"c1"}, NEW t \in Contents, One!ensureRainerEmbodimentCore(c, t)
    PROVE  OneInv'
  <1> PICK held \in {cores, One!NoCores} :
        /\ One!Starts(c, "wake") /\ One!Read(held, cores, One!NoCores) /\ made.core < MaxCores
        /\ IF One!hasVisualCore(held) THEN UNCHANGED <<call, made>>
           ELSE /\ made' = [made EXCEPT !.core = @ + 1]
                /\ One!WillWrite(c, "wake", made.core + 1, [held EXCEPT ![made.core + 1] = One!Core(20, t, TRUE)])
        /\ UNCHANGED <<cores, anchors, done>>
    BY DEF One!ensureRainerEmbodimentCore
  <1>1. held = cores /\ faults' = faults /\ c = "c1" /\ call["c1"] = [busy |-> FALSE]
    BY OneReads
  <1>2. CASE One!hasVisualCore(cores)
    BY <1>1, <1>2, OnePlans
  <1>3. CASE ~One!hasVisualCore(cores)
    <2>1. \A j \in CoreIds : ~(cores[j].here /\ cores[j].visual)
      BY <1>3 DEF One!hasVisualCore, One!Ids, CoreIds
    <2> QED BY <1>1, <1>3, <2>1, OneAdds DEF NewKinds
  <1> QED BY <1>2, <1>3

LEMMA OneChanges ==
    ASSUME OneInv, NEW c \in {"c1"}, NEW kind \in ChangeKinds, NEW i \in CoreIds, NEW t, kind = "evolve" => t \in Contents,
           One!Change(c, kind, i, t)
    PROVE  OneInv'
  <1> PICK held \in {cores, One!NoCores} :
        /\ One!Starts(c, kind) /\ One!Read(held, cores, One!NoCores)
        /\ IF held[i].here THEN One!WillWrite(c, kind, i, [held EXCEPT ![i] = One!Changed(kind, @, t)]) ELSE UNCHANGED call
        /\ UNCHANGED <<cores, anchors, done, made>>
    BY DEF One!Change
  <1>1. held = cores /\ faults' = faults /\ c = "c1" /\ call["c1"] = [busy |-> FALSE]
    BY OneReads
  <1>2. CASE ~cores[i].here
    BY <1>1, <1>2, OnePlans
  <1>3. CASE cores[i].here
    <2> DEFINE row == One!Changed(kind, cores[i], t)
               rest == [cores EXCEPT ![i] = One!Changed(kind, @, t)]
    <2>1. CoreTable(rest) /\ Later(cores[i], row, kind)
      BY <1>3, ChangedTable DEF OneInv
    <2>2. rest[i] = row /\ \A j \in CoreIds : j # i => rest[j] = cores[j]
      BY DEF OneInv, CoreTable
    <2> PICK k : k = [busy |-> TRUE, kind |-> kind, id |-> i, cores |-> rest, hits |-> {}] /\ call' = [call EXCEPT !["c1"] = k]
      BY <1>1, <1>3 DEF One!WillWrite
    <2> HIDE DEF row, rest
    <2>4. k.kind = kind /\ k.id = i /\ k.cores = rest
      OBVIOUS
    <2>5. WillChange(k)'
      BY <1>3, <2>1, <2>2, <2>4 DEF WillChange, CoreTable, Later
    <2> QED BY <1>1, <2>5, OnePlans DEF Planned
  <1> QED BY <1>2, <1>3

LEMMA OneAnchors ==
    ASSUME OneInv, NEW c \in {"c1"}, One!CreateAnchor(c)
    PROVE  OneInv'
  <1> PICK held \in {anchors, One!NoAnchors} :
        /\ One!Starts(c, "anchor") /\ One!Read(held, anchors, One!NoAnchors) /\ made.anchor < MaxAnchors
        /\ made' = [made EXCEPT !.anchor = @ + 1]
        /\ One!WillWriteAnchors(c, "anchor", {made.anchor + 1}, [held EXCEPT ![made.anchor + 1] = One!Anchor])
        /\ UNCHANGED <<cores, anchors, done>>
    BY DEF One!CreateAnchor
  <1>1. held = anchors /\ faults' = faults /\ c = "c1" /\ call["c1"] = [busy |-> FALSE]
    BY OneReads
  <1> PICK new : new = made.anchor + 1
    OBVIOUS
  <1>2. made.anchor \in Nat /\ new \in AnchorRows /\ new = made'.anchor /\ One!Anchor = AnchorOf(0)
    <2>1. MaxAnchors \in Nat
      BY ToolsAssumption DEF One!IdentityAssumption
    <2> QED BY <2>1 DEF OneInv, AnchorRows, One!Anchor, AnchorOf
  <1>3. ~anchors[new].here
    BY <1>2 DEF OneInv, AnchorCounted
  <1> PICK k : /\ k = [busy |-> TRUE, kind |-> "anchor", id |-> 0, anchors |-> [anchors EXCEPT ![new] = AnchorOf(0)], hits |-> {new}]
               /\ call' = [call EXCEPT !["c1"] = k]
    BY <1>1, <1>2 DEF One!WillWriteAnchors
  <1>4. k.kind = "anchor" /\ k.hits = {new} /\ k.anchors = [anchors EXCEPT ![new] = AnchorOf(0)]
    OBVIOUS
  <1>5. WillAnchor(k)'
    <2>1. anchors' = anchors
      OBVIOUS
    <2>2. new <= made'.anchor
      BY <1>2 DEF AnchorRows
    <2>3. k.anchors = [anchors' EXCEPT ![new] = AnchorOf(0)] /\ ~anchors'[new].here
      BY <1>3, <1>4, <2>1
    <2> QED BY <1>2, <1>4, <2>2, <2>3 DEF WillAnchor
  <1> QED BY <1>1, <1>5, OnePlans DEF Planned

LEMMA OneChecks ==
    ASSUME OneInv, NEW c \in {"c1"}, NEW hits \in SUBSET AnchorRows, One!CheckAnchors(c, hits)
    PROVE  OneInv'
  <1> DEFINE found(t) == {i \in hits : t[i].here}
  <1> PICK held \in {anchors, One!NoAnchors} :
        /\ One!Starts(c, "resonate") /\ One!Read(held, anchors, One!NoAnchors)
        /\ IF found(held) = {} THEN UNCHANGED call
           ELSE One!WillWriteAnchors(c, "resonate", found(held), One!Resonant(held, found(held)))
        /\ UNCHANGED <<cores, anchors, done, made>>
    BY DEF One!CheckAnchors
  <1>1. held = anchors /\ faults' = faults /\ c = "c1" /\ call["c1"] = [busy |-> FALSE]
    BY OneReads
  <1>2. CASE found(anchors) = {}
    BY <1>1, <1>2, OnePlans
  <1>3. CASE found(anchors) # {}
    <2> PICK k : /\ k = [busy |-> TRUE, kind |-> "resonate", id |-> 0, anchors |-> One!Resonant(anchors, found(anchors)),
                         hits |-> found(anchors)]
                 /\ call' = [call EXCEPT !["c1"] = k]
      BY <1>1, <1>3 DEF One!WillWriteAnchors
    <2>1. k.kind = "resonate" /\ k.hits = found(anchors) /\ k.anchors = One!Resonant(anchors, found(anchors))
      OBVIOUS
    <2>2. WillActivate(k)'
      <3>1. anchors' = anchors
        OBVIOUS
      <3>2. \A i \in k.hits : i \in AnchorRows /\ anchors'[i].here
        BY <2>1, <3>1
      <3>3. k.anchors = One!Resonant(anchors, k.hits)'
        BY <2>1, <3>1 DEF One!Resonant
      <3> QED BY <2>1, <3>2, <3>3 DEF WillActivate
    <2> QED BY <1>1, <2>2, OnePlans DEF Planned
  <1> QED BY <1>2, <1>3

\* Anchors that resonate or surface: those that are there are counted once more.
LEMMA Resounds ==
    ASSUME AnchorTable(anchors), NEW hits, \A i \in hits : i \in AnchorRows /\ anchors[i].here,
           anchors' = One!Resonant(anchors, hits)
    PROVE  /\ AnchorTable(anchors)'
           /\ \A i \in AnchorRows : /\ anchors'[i].here <=> anchors[i].here
                                    /\ anchors[i].here => /\ anchors[i].activations \in Nat
                                                          /\ anchors'[i].activations = anchors[i].activations + (IF i \in hits THEN 1 ELSE 0)
  <1>0. /\ \A n : [AnchorOf(n) EXCEPT !.activations = @ + 1] = AnchorOf(n + 1)
        /\ \A n : AnchorOf(n).here = TRUE /\ AnchorOf(n).activations = n
        /\ \A n \in Nat : n + 1 \in Nat /\ n + 0 = n
    <2>1. \A n : AnchorOf(n).activations = n
      BY DEF AnchorOf
    <2>2. ASSUME NEW n PROVE [AnchorOf(n) EXCEPT !.activations = n + 1] = AnchorOf(n + 1)
      <3>1. \A h, m : [[here |-> h, activations |-> n] EXCEPT !.activations = m] = [here |-> h, activations |-> m]
        OBVIOUS
      <3> QED BY <3>1, Zenon DEF AnchorOf
    <2> QED BY <2>1, <2>2 DEF AnchorOf
  <1>1. anchors' = [i \in AnchorRows |-> IF i \in hits THEN [anchors[i] EXCEPT !.activations = @ + 1] ELSE anchors[i]]
    BY DEF One!Resonant, One!Activated, One!AnchorIds, AnchorRows
  <1>2. ASSUME NEW i \in AnchorRows
        PROVE  /\ anchors'[i].here <=> anchors[i].here
               /\ anchors[i].here => /\ anchors[i].activations \in Nat
                                     /\ anchors'[i].activations = anchors[i].activations + (IF i \in hits THEN 1 ELSE 0)
               /\ anchors'[i] = [here |-> FALSE] \/ \E n \in Nat : anchors'[i] = AnchorOf(n)
    <2>1. CASE anchors[i] = [here |-> FALSE]
      <3>1. ~anchors[i].here
        BY <2>1
      <3>2. i \notin hits /\ anchors'[i] = anchors[i]
        BY <1>1, <3>1
      <3> QED BY <2>1, <3>1, <3>2
    <2>2. ASSUME NEW n \in Nat, anchors[i] = AnchorOf(n)
          PROVE  /\ anchors'[i].here <=> anchors[i].here
                 /\ anchors[i].activations \in Nat
                 /\ anchors'[i].activations = anchors[i].activations + (IF i \in hits THEN 1 ELSE 0)
                 /\ \E m \in Nat : anchors'[i] = AnchorOf(m)
      <3>1. CASE i \in hits
        <4>1. anchors'[i] = [anchors[i] EXCEPT !.activations = @ + 1]
          BY <1>1, <3>1
        <4>2. anchors'[i] = AnchorOf(n + 1)
          BY <1>0, <2>2, <4>1, Zenon
        <4> QED BY <1>0, <2>2, <3>1, <4>2
      <3>2. CASE i \notin hits
        <4>1. anchors'[i] = AnchorOf(n)
          BY <1>1, <2>2, <3>2
        <4> QED BY <1>0, <2>2, <3>2, <4>1
      <3> QED BY <3>1, <3>2
    <2> QED BY <2>1, <2>2 DEF AnchorTable
  <1>3. DOMAIN anchors' = AnchorRows
    BY <1>1
  <1> QED BY <1>2, <1>3 DEF AnchorTable

\* One answered call counts for its own rows, of cores or of anchors.
LEMMA CoresUncounted ==
    ASSUME OneInv, NEW kind \in {"anchor", "resonate", "touch"}, NEW ids, One!Answered(kind, ids), UNCHANGED <<cores, made>>
    PROVE  (\A i \in CoreIds : CoreCounted(i)') /\ done' \in Counts /\ CoreTable(cores)'
  <1>1. kind \in One!Kinds /\ done \in Counts /\ CoreKinds \subseteq One!Kinds /\ kind \notin CoreKinds
    BY DEF OneInv, One!Kinds, CoreKinds, NewKinds, ChangeKinds
  <1>2. done' \in Counts /\ \A q \in CoreKinds : done'[q] = done[q]
    BY <1>1, CountsAnswered
  <1>3. done'["reinforce"] = done["reinforce"] /\ done'["challenge"] = done["challenge"] /\ done'["evolve"] = done["evolve"]
    BY <1>2 DEF CoreKinds, ChangeKinds
  <1>4. ASSUME NEW i \in CoreIds PROVE CoreCounted(i)'
    <2>1. CoreCounted(i)
      BY DEF OneInv
    <2> QED BY <2>1, <1>2, <1>3 DEF CoreCounted
  <1> QED BY <1>2, <1>4 DEF OneInv, CoreTable

LEMMA AnchorsUncounted ==
    ASSUME OneInv, NEW kind \in CoreKinds, NEW ids, One!Answered(kind, ids), UNCHANGED <<anchors, made>>
    PROVE  (\A i \in AnchorRows : AnchorCounted(i)') /\ done' \in Counts /\ AnchorTable(anchors)'
  <1>1. kind \in One!Kinds /\ done \in Counts /\ {"anchor", "resonate", "touch"} \subseteq One!Kinds
        /\ kind \notin {"anchor", "resonate", "touch"}
    BY DEF OneInv, One!Kinds, CoreKinds, NewKinds, ChangeKinds
  <1>2. done' \in Counts /\ \A q \in {"anchor", "resonate", "touch"} : done'[q] = done[q]
    BY <1>1, CountsAnswered
  <1>3. ASSUME NEW i \in AnchorRows PROVE AnchorCounted(i)'
    <2>1. AnchorCounted(i)
      BY DEF OneInv
    <2> QED BY <2>1, <1>2 DEF AnchorCounted
  <1> QED BY <1>2, <1>3 DEF OneInv, AnchorTable

LEMMA OneTouches ==
    ASSUME OneInv, NEW c \in {"c1"}, NEW hits \in SUBSET AnchorRows, One!touchAnchors(c, hits)
    PROVE  OneInv'
  <1>1. /\ \A i \in hits : i \in AnchorRows /\ anchors[i].here
        /\ faults = 0 /\ ~(faults < 0)
        /\ UNCHANGED <<cores, call, made>> /\ call["c1"] = [busy |-> FALSE]
    BY DEF OneInv, One!touchAnchors, One!Starts, One!Idle
  <1>2. anchors' = One!Resonant(anchors, hits) /\ One!Answered("touch", hits) /\ faults' = faults
    BY <1>1 DEF One!touchAnchors
  <1>3. /\ AnchorTable(anchors)'
        /\ \A i \in AnchorRows : /\ anchors'[i].here <=> anchors[i].here
                                 /\ anchors[i].here => /\ anchors[i].activations \in Nat
                                                       /\ anchors'[i].activations = anchors[i].activations + (IF i \in hits THEN 1 ELSE 0)
    BY <1>1, <1>2, Resounds DEF OneInv
  <1>4. (\A i \in CoreIds : CoreCounted(i)') /\ done' \in Counts /\ CoreTable(cores)'
    BY <1>1, <1>2, CoresUncounted
  <1>5. /\ \A q \in {"anchor", "resonate"} : done'[q] = done[q]
        /\ \A i \in EveryRow : done'["touch"][i] = done["touch"][i] + (IF i \in hits THEN 1 ELSE 0)
        /\ \A i \in EveryRow : done["touch"][i] \in Nat /\ done["resonate"][i] \in Nat
    <2>1. "touch" \in One!Kinds /\ "anchor" \in One!Kinds /\ "resonate" \in One!Kinds /\ done \in Counts
      BY DEF OneInv, One!Kinds
    <2> QED BY <1>2, <2>1, CountsAnswered DEF Counts
  <1>6. ASSUME NEW i \in AnchorRows PROVE AnchorCounted(i)'
    <2>1. AnchorCounted(i) /\ i \in EveryRow
      BY DEF OneInv, EveryRow
    <2>2. CASE anchors[i].here
      <3>1. anchors'[i].activations = done'["resonate"][i] + done'["touch"][i]
        BY <1>3, <1>5, <2>1, <2>2 DEF AnchorCounted
      <3> QED BY <1>1, <1>3, <2>1, <2>2, <3>1 DEF AnchorCounted
    <2>3. CASE ~anchors[i].here
      <3>1. i \notin hits
        BY <1>1, <2>3
      <3> QED BY <1>3, <1>5, <2>1, <2>3, <3>1 DEF AnchorCounted
    <2> QED BY <2>2, <2>3
  <1> QED BY <1>1, <1>2, <1>3, <1>4, <1>6 DEF OneInv

LEMMA OneWritesAnchors ==
    ASSUME OneInv, NEW c \in {"c1"}, One!writeAnchors(c)
    PROVE  OneInv'
  <1> DEFINE k == call["c1"]
  <1>1. /\ k # [busy |-> FALSE] /\ k.kind \in {"anchor", "resonate"} /\ anchors' = k.anchors
        /\ One!Answered(k.kind, k.hits) /\ call' = [call EXCEPT !["c1"] = [busy |-> FALSE]]
        /\ UNCHANGED <<cores, made, faults>>
    BY DEF One!writeAnchors, One!Idle
  <1>2. Planned(k)
    BY <1>1 DEF OneInv
  <1>3. (\A i \in CoreIds : CoreCounted(i)') /\ done' \in Counts /\ CoreTable(cores)'
    BY <1>1, CoresUncounted
  <1>4. /\ \A q \in {"anchor", "resonate", "touch"} : q # k.kind => done'[q] = done[q]
        /\ \A i \in EveryRow : done'[k.kind][i] = done[k.kind][i] + (IF i \in k.hits THEN 1 ELSE 0)
        /\ \A q \in {"anchor", "resonate", "touch"}, i \in EveryRow : done[q][i] \in Nat
    <2>1. {"anchor", "resonate", "touch"} \subseteq One!Kinds /\ k.kind \in One!Kinds /\ done \in Counts
      BY <1>1 DEF OneInv, One!Kinds
    <2> QED BY <1>1, <2>1, CountsAnswered DEF Counts
  <1> HIDE DEF k
  <1>5. AnchorTable(anchors)' /\ \A i \in AnchorRows : AnchorCounted(i)'
    <2>1. CASE WillAnchor(k)
      <3> PICK new \in AnchorRows : k.kind = "anchor" /\ k.hits = {new} /\ new <= made.anchor /\ ~anchors[new].here
                                    /\ k.anchors = [anchors EXCEPT ![new] = AnchorOf(0)]
        BY <2>1 DEF WillAnchor
      <3>1. DOMAIN anchors' = AnchorRows /\ \A i \in AnchorRows : anchors'[i] = IF i = new THEN AnchorOf(0) ELSE anchors[i]
        BY <1>1 DEF OneInv, AnchorTable
      <3>2. AnchorTable(anchors)'
        BY <3>1 DEF OneInv, AnchorTable
      <3>3. ASSUME NEW i \in AnchorRows PROVE AnchorCounted(i)'
        <4>1. AnchorCounted(i) /\ i \in EveryRow /\ done'["resonate"] = done["resonate"] /\ done'["touch"] = done["touch"]
          BY <1>4 DEF OneInv, EveryRow
        <4>2. CASE i = new
          <5>1. done["resonate"][i] = 0 /\ done["touch"][i] = 0
            BY <4>1, <4>2 DEF AnchorCounted
          <5>2. anchors'[i].here /\ anchors'[i].activations = 0
            BY <3>1, <4>2 DEF AnchorOf
          <5> QED BY <1>1, <4>1, <4>2, <5>1, <5>2 DEF AnchorCounted
        <4>3. CASE i # new
          <5>1. anchors'[i] = anchors[i] /\ done'["anchor"][i] = done["anchor"][i]
            BY <1>4, <3>1, <4>1, <4>3
          <5> QED BY <1>1, <4>1, <5>1 DEF AnchorCounted
        <4> QED BY <4>2, <4>3
      <3> QED BY <3>2, <3>3
    <2>2. CASE WillActivate(k)
      <3>1. k.kind = "resonate" /\ (\A i \in k.hits : i \in AnchorRows /\ anchors[i].here) /\ anchors' = One!Resonant(anchors, k.hits)
        BY <1>1, <2>2 DEF WillActivate
      <3>2. /\ AnchorTable(anchors)'
            /\ \A i \in AnchorRows : /\ anchors'[i].here <=> anchors[i].here
                                     /\ anchors[i].here => /\ anchors[i].activations \in Nat
                                                           /\ anchors'[i].activations = anchors[i].activations + (IF i \in k.hits THEN 1 ELSE 0)
        BY <3>1, Resounds DEF OneInv
      <3>3. ASSUME NEW i \in AnchorRows PROVE AnchorCounted(i)'
        <4>1. AnchorCounted(i) /\ i \in EveryRow /\ done'["anchor"] = done["anchor"] /\ done'["touch"] = done["touch"]
          BY <1>4, <3>1 DEF OneInv, EveryRow
        <4>2. CASE anchors[i].here
          <5>1. anchors'[i].activations = done'["resonate"][i] + done'["touch"][i]
            BY <1>4, <3>1, <3>2, <4>1, <4>2 DEF AnchorCounted
          <5> QED BY <1>1, <3>2, <4>1, <4>2, <5>1 DEF AnchorCounted
        <4>3. CASE ~anchors[i].here
          <5>1. done'["resonate"][i] = done["resonate"][i]
            BY <1>4, <3>1, <4>1, <4>3
          <5> QED BY <3>2, <4>1, <4>3, <5>1 DEF AnchorCounted
        <4> QED BY <4>2, <4>3
      <3> QED BY <3>2, <3>3
    <2> QED BY <1>1, <1>2, <2>1, <2>2 DEF Planned, WillAdd, WillChange, NewKinds, ChangeKinds
  <1> QED BY <1>1, <1>3, <1>5 DEF OneInv

LEMMA OneWrites ==
    ASSUME OneInv, NEW c \in {"c1"}, One!writeIdentityCores(c)
    PROVE  OneInv'
  <1> PICK k : k = call["c1"]
    OBVIOUS
  <1>1. /\ k # [busy |-> FALSE] /\ k.kind \in CoreKinds /\ cores' = k.cores
        /\ One!Answered(k.kind, {k.id}) /\ call' = [call EXCEPT !["c1"] = [busy |-> FALSE]]
        /\ UNCHANGED <<anchors, made, faults>>
    BY DEF One!writeIdentityCores, One!Replace, One!Idle, CoreKinds, NewKinds, ChangeKinds
  <1>2. Planned(k)
    BY <1>1 DEF OneInv
  <1>3. (\A i \in AnchorRows : AnchorCounted(i)') /\ done' \in Counts /\ AnchorTable(anchors)'
    BY <1>1, AnchorsUncounted
  <1>4. /\ \A q \in CoreKinds : q # k.kind => done'[q] = done[q]
        /\ \A i \in EveryRow : done'[k.kind][i] = done[k.kind][i] + (IF i \in {k.id} THEN 1 ELSE 0)
        /\ \A q \in CoreKinds, i \in EveryRow : done[q][i] \in Nat
    <2>1. CoreKinds \subseteq One!Kinds /\ done \in Counts
      BY DEF OneInv, One!Kinds, CoreKinds, NewKinds, ChangeKinds
    <2> QED BY <1>1, <2>1, CountsAnswered DEF Counts
  <1>5. "reinforce" \in CoreKinds /\ "challenge" \in CoreKinds /\ "evolve" \in CoreKinds
    BY DEF CoreKinds, ChangeKinds
  <1>6. WillAdd(k) \/ WillChange(k)
    BY <1>1, <1>2 DEF Planned, WillAnchor, WillActivate, CoreKinds, NewKinds, ChangeKinds
  <1>7. k.id \in CoreIds /\ CoreTable(k.cores) /\ \A j \in CoreIds : j # k.id => cores'[j] = cores[j]
    BY <1>1, <1>6 DEF WillAdd, WillChange
  <1>8. CoreTable(cores)'
    BY <1>1, <1>7 DEF CoreTable
  <1>9. ASSUME NEW i \in CoreIds, i # k.id PROVE CoreCounted(i)'
    <2>1. CoreCounted(i) /\ i \in EveryRow /\ cores'[i] = cores[i]
      BY <1>7, <1>9 DEF OneInv, EveryRow
    <2>2. \A q \in CoreKinds : done'[q][i] = done[q][i]
      <3>1. done'[k.kind][i] = done[k.kind][i] + 0
        BY <1>4, <1>9, <2>1
      <3>2. done'[k.kind][i] = done[k.kind][i]
        BY <1>1, <1>4, <2>1, <3>1
      <3> QED BY <1>4, <3>2
    <2> QED BY <1>1, <1>5, <2>1, <2>2 DEF CoreCounted
  <1>10. CoreCounted(k.id)'
    <2> PICK i : i = k.id
      OBVIOUS
    <2>0. CoreCounted(i) /\ i \in EveryRow /\ i \in CoreIds
      BY <1>7 DEF OneInv, EveryRow
    <2>1. CASE WillAdd(k)
      <3>1. /\ \A q \in CoreKinds : done[q][i] = 0
            /\ k.kind \notin ChangeKinds /\ i <= made.core
            /\ cores'[i].here /\ cores'[i].reinforced = 0 /\ cores'[i].challenged = 0 /\ cores'[i].history = <<>>
        BY <1>1, <2>0, <2>1 DEF CoreCounted, WillAdd, NewKinds, ChangeKinds
      <3>2. done'["reinforce"][i] = 0 /\ done'["challenge"][i] = 0 /\ done'["evolve"][i] = 0
        BY <1>4, <1>5, <3>1 DEF ChangeKinds
      <3>3. Len(cores'[i].history) = 0
        BY <3>1
      <3> QED BY <1>1, <3>1, <3>2, <3>3 DEF CoreCounted
    <2>2. CASE WillChange(k)
      <3>1. /\ i <= made.core /\ cores[i].here /\ Later(cores[i], cores'[i], k.kind) /\ k.kind \in ChangeKinds
            /\ cores[i].reinforced = done["reinforce"][i] /\ cores[i].challenged = done["challenge"][i]
            /\ Len(cores[i].history) = done["evolve"][i]
        BY <1>1, <2>0, <2>2 DEF CoreCounted, WillChange
      <3>2. cores'[i].here
        BY <3>1 DEF Later, IsCore
      <3>3. /\ cores'[i].reinforced = done["reinforce"][i] + (IF k.kind = "reinforce" THEN 1 ELSE 0)
            /\ cores'[i].challenged = done["challenge"][i] + (IF k.kind = "challenge" THEN 1 ELSE 0)
            /\ Len(cores'[i].history) = done["evolve"][i] + (IF k.kind = "evolve" THEN 1 ELSE 0)
        BY <3>1 DEF Later
      <3>4. \A q \in CoreKinds : done'[q][i] = done[q][i] + (IF k.kind = q THEN 1 ELSE 0)
        <4>1. done'[k.kind][i] = done[k.kind][i] + 1
          BY <1>4, <2>0
        <4>2. ASSUME NEW q \in CoreKinds, q # k.kind PROVE done'[q][i] = done[q][i] + 0
          BY <1>4, <2>0, <4>2
        <4> QED BY <4>1, <4>2
      <3> QED BY <1>1, <1>5, <3>1, <3>2, <3>3, <3>4 DEF CoreCounted
    <2> QED BY <1>6, <2>1, <2>2
  <1> QED BY <1>1, <1>3, <1>8, <1>9, <1>10 DEF OneInv

LEMMA OneSteps == ASSUME OneInv, [One!Next]_Self PROVE OneInv'
  <1>1. ASSUME NEW c, ~One!WriteFails(c) => OneInv' PROVE OneInv'
    <2>1. faults = 0
      BY DEF OneInv
    <2>2. ~One!WriteFails(c)
      BY <2>1 DEF One!WriteFails
    <2> QED BY <1>1, <2>2
  <1>2. CASE UNCHANGED Self
    <2>1. cores' = cores /\ anchors' = anchors /\ call' = call /\ done' = done /\ made' = made /\ faults' = faults
      BY <1>2 DEF Self
    <2>2. (\A i \in CoreIds : CoreCounted(i)') /\ (\A i \in AnchorRows : AnchorCounted(i)')
      BY <2>1 DEF OneInv, CoreCounted, AnchorCounted
    <2>3. CoreTable(cores)' /\ AnchorTable(anchors)'
      BY <2>1 DEF OneInv, CoreTable, AnchorTable
    <2>4. Planned(call["c1"]) => Planned(call["c1"])'
      BY <2>1, Zenon DEF Planned, WillAdd, WillChange, WillAnchor, WillActivate, One!Resonant, One!Activated, One!AnchorIds
    <2> QED BY <2>1, <2>2, <2>3, <2>4 DEF OneInv, Counts
  <1>3. ASSUME NEW c \in {"c1"}, NEW i \in CoreIds,
               \/ One!Change(c, "reinforce", i, "none") \/ One!Change(c, "challenge", i, "none")
               \/ \E t \in Contents : One!Change(c, "evolve", i, t)
        PROVE  OneInv'
    BY <1>3, OneChanges DEF ChangeKinds
  <1>4. ASSUME NEW c \in {"c1"}, NEW hits \in SUBSET AnchorRows, One!CheckAnchors(c, hits) \/ One!touchAnchors(c, hits)
        PROVE  OneInv'
    BY <1>4, OneChecks, OneTouches
  <1> QED BY <1>1, <1>2, <1>3, <1>4, OneSeeds, OneWakes, OneWrites, OneAnchors, OneWritesAnchors
          DEF One!Next, One!Ids, CoreIds, One!AnchorIds, AnchorRows

\* Every part but the two of identity leaves its tables alone.
IdentityInv == (part = "one" => OneInv) /\ (part = "two" => TwoInv)

LEMMA IdentityBegins == AllInit => IdentityInv
  BY OneBegins, TwoBegins DEF AllInit, IdentityInv

LEMMA IdentitySteps == ASSUME IdentityInv, [AllNext]_all PROVE IdentityInv'
  <1>1. part' = part
    BY DEF AllNext, all
  <1>2. part = "one" => [One!Next]_Self
    BY DEF AllNext, all
  <1>3. part = "two" => [Two!Next]_Self
    BY DEF AllNext, all
  <1> QED BY <1>1, <1>2, <1>3, OneSteps, TwoSteps DEF IdentityInv

-----------------------------------------------------------------------------
(* The registry, one call after the other.  Between two of its queries a call is somewhere on the
   route of what was asked; until it writes, the tables are as it found them, and after it what it
   wrote is in its own row.  First is the caller, and no query fails.                             *)

EntityLeg   == {"readEntity", "writeEntity"}
Early       == {"find", "findAlias", "insertEntity", "readBase", "relate", "link", "readTags"}
OfManifests == {"reread", "assertAgent", "assertRouter", "insertManifest", "writeManifest"}
OfBackfill  == {"readTags", "resolve", "insertTag", "linkRows"}

\* The calls that come past a step.
OnRoute(s, a) ==
  /\ s = "findAlias" => a.kind = "agent.normalize"
  /\ s = "insertEntity" => a.kind \in {"entity.create", "project.create", "agent.normalize"}
  /\ s \in EntityLeg => a.kind \in {"entity.update", "project.update", "agent.normalize"}
  /\ s \in {"assertProject", "insertDossier"} => a.kind = "project.create"
  /\ s \in {"readBase", "readDossier", "writeDossier"} => a.kind = "project.update"
  /\ s = "readManifest" \/ s \in OfManifests => a.kind \in {"agent.create", "agent.update", "agent.normalize"}
  /\ s \in {"relate", "writeRelation"} => a.kind = "relate"
  /\ s \in {"link", "writeLink"} => a.kind = "link"
  /\ s \in OfBackfill => a.kind = "backfill"
  /\ a.dry => s \in {"find", "findAlias", "readManifest"}

Filed == [entities |-> entities, dossiers |-> dossiers, manifests |-> manifests, links |-> links, relations |-> relations]

\* A call that has written nothing.
Quiet(k) ==
  \/ k.todo \cap Early # {} \/ k.ask.dry \/ k.end = "refused"
  \/ k.ask.kind \in {"agent.create", "agent.update"} /\ k.todo # {}

\* Of each half of a project one step is in hand.
OneEach(todo) == ~({"readDossier", "writeDossier"} \subseteq todo) /\ ~(EntityLeg \subseteq todo)

\* A call that has ended with steps in hand lost the dossier of a project and goes on with the rest.
Running(k) ==
  k.todo # {} => \/ k.end = "none"
                 \/ k.end = "thrown" /\ k.ask.kind = "project.update" /\ k.todo \subseteq EntityLeg

Kept(k) ==
  /\ (\A s \in k.todo : OnRoute(s, k.ask)) /\ OneEach(k.todo) /\ Running(k)
  /\ Quiet(k) => k.before = Filed
  /\ \A i \in EntityIds : i # k.id =>
       /\ dossiers[i] = k.before.dossiers[i] /\ manifests[i] = k.before.manifests[i]
       /\ k.before.entities[i] # None => entities[i] = k.before.entities[i]
  /\ manifests = k.before.manifests \/ (k.todo = {} /\ k.end = "none")
  /\ \/ dossiers = k.before.dossiers
     \/ k.end = "none" /\ k.todo \subseteq EntityLeg /\ (k.ask.kind = "project.update" \/ k.todo = {})
  /\ links = k.before.links \/ (k.end = "none" /\ k.todo \subseteq {"linkRows"})

\* A project keeps its name, so that its update cannot find it taken, and what an update of the
\* routing alone leaves of the metadata.
RestOf(k) == k.before.dossiers[k.id].metadata.rest
ProjectKept(k) ==
  k.ask.kind = "project.update" =>
    /\ k.todo \cap (EntityLeg \cup {"readBase"}) # {} => k.id \in EntityIds /\ entities[k.id] # None
    /\ k.todo \cap {"readBase", "readEntity"} # {} => k.entity.name = Same
    /\ "writeEntity" \in k.todo => k.entity.name = entities[k.id].name
    /\ "readBase" \in k.todo => k.dossier = [status |-> k.dossier.status, metadata |-> k.dossier.metadata]
    /\ k.ask.metadata = Same /\ k.end = "none" =>
         /\ "readDossier" \in k.todo /\ dossiers[k.id] # None =>
              k.dossier.metadata = Same \/ k.dossier.metadata.rest = dossiers[k.id].metadata.rest
         /\ "writeDossier" \in k.todo => k.dossier.metadata.rest = RestOf(k)
         /\ k.todo \subseteq EntityLeg => dossiers[k.id].metadata.rest = RestOf(k)

\* A manifest about to be written, or written, has the mode asked for.
ModeAsked(a, card) == card.mode = a.mode /\ (a.mode # "router" => card.router = None)
CardKept(k) ==
  k.ask.kind \in {"agent.create", "agent.update"} /\ k.ask.mode # Same /\ k.end = "none" =>
    /\ k.todo \cap OfManifests # {} => ModeAsked(k.ask, k.card)
    /\ k.todo = {} => ModeAsked(k.ask, manifests[k.id])

\* A backfill: the rows it listed are linked or about to be, each to the entity of its first tag.
OpenTo(k) == {o \in Obs : Tags[o] # <<>> /\ k.before.links[o] = None}
LinkedBy(k) == {o \in OpenTo(k) : links[o] # None}
NamedBy(i, tag) == i \in EntityIds /\ entities[i] # None /\ Folded[entities[i].name] = Folded[tag]
RowsKept(k) ==
  /\ k.ask.kind # "link" => \A o \in Obs : links[o] = k.before.links[o] \/ o \in OpenTo(k)
  /\ k.ask.kind = "backfill" /\ k.end = "none" /\ "readTags" \notin k.todo =>
       /\ k.rows \subseteq OpenTo(k) /\ (k.todo = {} => k.rows = {})
       /\ Register!Cardinality(LinkedBy(k) \cup k.rows) = Register!Min({Batch, Register!Cardinality(OpenTo(k))})
       /\ \A o \in LinkedBy(k) : NamedBy(links[o], Tags[o][1])
       /\ \A t \in DOMAIN k.of : NamedBy(k.of[t], t)
       /\ "insertTag" \in k.todo => k.tag \in Titles

AsFar(k) == Kept(k) /\ ProjectKept(k) /\ CardKept(k) /\ RowsKept(k)

AloneInv ==
  part = "alone" =>
    /\ mishaps = 0
    /\ \A c \in Clients : c # First => doing[c].ask = None
    /\ \A c \in Clients : doing[c].ask # None => AsFar(doing[c])

\* Every field of the call a step leaves.
LEMMA GoingOn ==
    ASSUME CallsFit, NEW c \in Clients, NEW k, IsCall(k), NEW step, NEW next, Register!Goes(c, step, k, next)
    PROVE  /\ IsCall(doing'[c]) /\ doing'[c].todo = (doing[c].todo \ {step}) \cup next
           /\ doing'[c].ask = k.ask /\ doing'[c].id = k.id /\ doing'[c].card = k.card /\ doing'[c].then = k.then
           /\ doing'[c].rows = k.rows /\ doing'[c].of = k.of /\ doing'[c].entity = k.entity /\ doing'[c].dossier = k.dossier
           /\ doing'[c].tag = k.tag /\ doing'[c].end = k.end /\ doing'[c].before = k.before
  <1> DEFINE todo == (doing[c].todo \ {step}) \cup next
             new == [k EXCEPT !.todo = todo]
  <1>1. doing' = [doing EXCEPT ![c] = new]
    BY DEF Register!Goes
  <1>2. doing = [d \in Clients |-> doing[d]]
    BY DEF CallsFit
  <1> HIDE DEF new
  <1>3. doing'[c] = new
    BY <1>1, <1>2
  <1>4. new = [ask |-> k.ask, todo |-> todo, id |-> k.id, entity |-> k.entity, dossier |-> k.dossier, card |-> k.card,
               then |-> k.then, rows |-> k.rows, of |-> k.of, tag |-> k.tag, end |-> k.end, before |-> k.before]
    BY DEF new, IsCall
  <1>5. IsCall(new)
    BY <1>4 DEF IsCall
  <1> QED BY <1>3, <1>4, <1>5

\* An error or an exception leaves all but the steps in hand and how it ended.
LEMMA EndingSo ==
    ASSUME CallsFit, NEW c \in Clients, NEW step, NEW how, Register!Ends(c, step, how)
    PROVE  /\ doing'[c].todo = doing[c].todo \ {step} /\ doing'[c].end = how
           /\ doing'[c].ask = doing[c].ask /\ doing'[c].id = doing[c].id /\ doing'[c].before = doing[c].before
           /\ doing'[c].entity = doing[c].entity /\ doing'[c].dossier = doing[c].dossier
  <1> DEFINE k == [doing[c] EXCEPT !.end = how]
  <1>1. IsCall(doing[c])
    BY DEF CallsFit
  <1>2. /\ IsCall(k) /\ k.ask = doing[c].ask /\ k.id = doing[c].id /\ k.before = doing[c].before /\ k.end = how
        /\ k.entity = doing[c].entity /\ k.dossier = doing[c].dossier
    BY <1>1 DEF IsCall
  <1>3. Register!Goes(c, step, k, {})
    BY DEF Register!Ends
  <1> HIDE DEF k
  <1> QED BY <1>2, <1>3, GoingOn

\* The steps that may come next, and how a call may end at one.
Follows(step, next, a) ==
  \/ next = {}
  \/ step = "readDossier" /\ next = {"writeDossier"}
  \/ step = "readEntity" /\ next = {"writeEntity"}
  \/ (step \notin LegSteps \/ a.kind # "project.update") /\ OneEach(next)
EndsFit(step, next, k, m) ==
  \/ m.end = k.end
  \/ /\ next = {} /\ m.end \in {"refused", "thrown"}
     /\ step \in EntityLeg \cup {"writeDossier"} => k.ask.kind # "project.update"
     /\ m.end = "refused" => step \notin LegSteps /\ (step \in Early \/ k.ask.kind \in {"agent.create", "agent.update"})

\* A step keeps what the tables have of the call, where it writes only its own row and only when
\* it may end with it.
LEMMA GoesFar ==
    ASSUME NEW k, Kept(k), Lone(k), NEW m, NEW step \in k.todo, NEW next,
           m.ask = k.ask, m.before = k.before, m.todo = (k.todo \ {step}) \cup next,
           \A s \in next : OnRoute(s, k.ask),
           Follows(step, next, k.ask), EndsFit(step, next, k, m),
           next \cap Early # {} => step \in Early,
           m.id = k.id \/ step \in Early,
           \A i \in EntityIds : i # m.id => /\ dossiers'[i] = dossiers[i] /\ manifests'[i] = manifests[i]
                                            /\ entities[i] # None => entities'[i] = entities[i],
           Filed' = Filed \/ ~Quiet(m),
           manifests' = manifests \/ (m.todo = {} /\ m.end = "none"),
           \/ dossiers' = dossiers
           \/ m.end = "none" /\ m.todo \subseteq EntityLeg /\ (m.ask.kind = "project.update" \/ m.todo = {}),
           (links' = links /\ step # "linkRows") \/ (m.end = "none" /\ m.todo \subseteq {"linkRows"})
    PROVE  Kept(m)'
  <1>1. k.todo # {} /\ k.todo \ {step} \subseteq k.todo
    OBVIOUS
  <1>2. step \notin LegSteps \/ k.ask.kind # "project.update" => k.todo = {step}
    BY DEF Lone
  <1>3. k.ask.kind = "project.update" /\ step \in EntityLeg => next \subseteq EntityLeg /\ m.end = k.end
    BY DEF Follows, EndsFit, EntityLeg, LegSteps
  <1>4. \A s \in m.todo : OnRoute(s, m.ask)
    BY DEF Kept
  <1>5. OneEach(m.todo)
    <2>1. CASE next = {}
      BY <2>1 DEF Kept, OneEach
    <2>2. CASE step = "readDossier" /\ next = {"writeDossier"}
      BY <2>2 DEF Kept, OneEach, EntityLeg
    <2>3. CASE step = "readEntity" /\ next = {"writeEntity"}
      BY <2>3 DEF Kept, OneEach, EntityLeg
    <2>4. CASE (step \notin LegSteps \/ k.ask.kind # "project.update") /\ OneEach(next)
      <3>1. m.todo = next
        BY <1>2, <2>4
      <3> QED BY <2>4, <3>1
    <2> QED BY <2>1, <2>2, <2>3, <2>4 DEF Follows
  <1>6. k.end = "none" \/ (k.end = "thrown" /\ k.ask.kind = "project.update" /\ k.todo \subseteq EntityLeg)
    BY DEF Kept, Running
  <1>7. Running(m)
    <2>1. CASE m.end = k.end
      BY <1>3, <1>6, <2>1 DEF Running
    <2>2. CASE m.end # k.end
      <3>1. /\ next = {} /\ m.end \in {"refused", "thrown"} /\ m.todo = k.todo \ {step}
            /\ step \in EntityLeg \cup {"writeDossier"} => k.ask.kind # "project.update"
            /\ m.end = "refused" => step \notin LegSteps
        BY <2>2 DEF EndsFit
      <3>2. CASE step \notin LegSteps \/ k.ask.kind # "project.update"
        BY <1>2, <3>1, <3>2 DEF Running
      <3>3. CASE step \in LegSteps /\ k.ask.kind = "project.update"
        <4>1. step = "readDossier" /\ m.end = "thrown"
          BY <3>1, <3>3 DEF LegSteps, EntityLeg
        <4>2. k.todo \subseteq LegSteps
          BY <1>1, <3>3 DEF Lone
        <4>3. "writeDossier" \notin k.todo
          BY <4>1 DEF Kept, OneEach
        <4>4. m.todo \subseteq EntityLeg
          BY <3>1, <4>1, <4>2, <4>3 DEF LegSteps, EntityLeg
        <4> QED BY <3>3, <4>1, <4>4 DEF Running
      <3> QED BY <3>2, <3>3
    <2> QED BY <2>1, <2>2
  <1>8. Quiet(m) => Quiet(k)
    <2>1. m.todo \cap Early # {} => k.todo \cap Early # {}
      OBVIOUS
    <2>2. m.end = "refused" => Quiet(k)
      BY <1>1, <1>6 DEF EndsFit, Quiet
    <2> QED BY <1>1, <2>1, <2>2 DEF Quiet
  <1>9. Quiet(m) => m.before = Filed'
    BY <1>8 DEF Kept
  <1>10. \A i \in EntityIds : i # m.id =>
           /\ dossiers'[i] = m.before.dossiers[i] /\ manifests'[i] = m.before.manifests[i]
           /\ m.before.entities[i] # None => entities'[i] = m.before.entities[i]
    <2>1. CASE m.id = k.id
      BY <2>1 DEF Kept
    <2>2. CASE step \in Early
      <3>1. k.before = Filed
        BY <2>2 DEF Kept, Quiet
      <3>2. k.before.dossiers = dossiers /\ k.before.manifests = manifests /\ k.before.entities = entities
        BY <3>1 DEF Filed
      <3> QED BY <3>2
    <2> QED BY <2>1, <2>2
  <1>11. manifests' = m.before.manifests \/ (m.todo = {} /\ m.end = "none")
    BY <1>1 DEF Kept
  <1>12. \/ dossiers' = m.before.dossiers
         \/ m.end = "none" /\ m.todo \subseteq EntityLeg /\ (m.ask.kind = "project.update" \/ m.todo = {})
    <2>1. CASE dossiers' = dossiers /\ dossiers # k.before.dossiers
      <3>1. k.end = "none" /\ k.todo \subseteq EntityLeg /\ k.ask.kind = "project.update"
        BY <1>1, <2>1 DEF Kept
      <3> QED BY <1>3, <3>1
    <2> QED BY <2>1
  <1>13. links' = m.before.links \/ (m.end = "none" /\ m.todo \subseteq {"linkRows"})
    <2>1. CASE links' = links /\ step # "linkRows"
      BY <2>1 DEF Kept
    <2> QED BY <2>1
  <1>14. Quiet(m)' = Quiet(m) /\ Running(m)' = Running(m) /\ OneEach(m.todo)' = OneEach(m.todo)
    BY DEF Quiet, Running, OneEach
  <1> QED BY <1>4, <1>5, <1>7, <1>9, <1>10, <1>11, <1>12, <1>13, <1>14, Zenon DEF Kept

Far(c) == AsFar(doing[c])

LEMMA FarAt ==
    ASSUME RegistryInv, NEW c \in Clients, Far(c), NEW step \in doing[c].todo
    PROVE  /\ IsCall(doing[c]) /\ AskedFit(step, doing[c]) /\ Ready(step, doing[c], been) /\ Lone(doing[c])
           /\ doing[c].ask \in Wishes /\ OnRoute(step, doing[c].ask) /\ CallsFit
           /\ Kept(doing[c]) /\ ProjectKept(doing[c]) /\ CardKept(doing[c]) /\ RowsKept(doing[c])
           /\ doing[c].ask.dry => doing[c].ask.kind = "agent.normalize"
  <1>1. IsCall(doing[c]) /\ AskedFit(step, doing[c]) /\ Ready(step, doing[c], been) /\ Lone(doing[c])
    BY DEF RegistryInv, CallsFit, InHand
  <1>2. doing[c].ask \in Wishes
    BY <1>1 DEF AskedFit
  <1>3. doing[c].ask.dry => doing[c].ask.kind = "agent.normalize"
    BY <1>2, RegisterAssumed DEF Register!RegistryAssumption
  <1>4. OnRoute(step, doing[c].ask)
    BY Zenon DEF Far, AsFar, Kept
  <1> QED BY <1>1, <1>2, <1>3, <1>4 DEF Far, AsFar, RegistryInv

LEMMA RowsStay ==
    ASSUME NEW k, RowsKept(k), NEW m, m.ask = k.ask, m.before = k.before, links' = links,
           m.ask.kind # "backfill" \/ m.end # "none"
    PROVE  RowsKept(m)'
  BY DEF RowsKept, OpenTo

\* A step that only looks.
LEMMA LooksOn ==
    ASSUME RegistryInv, NEW c \in Clients, Far(c), NEW step \in doing[c].todo, step # "linkRows", UNCHANGED Register!tables,
           NEW x, IsCall(x), x.ask = doing[c].ask, x.before = doing[c].before, x.end = doing[c].end,
           x.id = doing[c].id \/ step \in Early,
           NEW next, Register!Goes(c, step, x, next),
           \A s \in next : OnRoute(s, x.ask),
           Follows(step, next, x.ask), next \cap Early # {} => step \in Early
    PROVE  /\ Kept(doing[c])'
           /\ x.ask.kind # "backfill" => RowsKept(doing[c])'
           /\ x.ask.kind # "project.update" => ProjectKept(doing[c])'
           /\ x.ask.kind \notin {"agent.create", "agent.update"} => CardKept(doing[c])'
  <1> PICK k : k = doing[c]
    OBVIOUS
  <1> PICK m : m = doing'[c]
    OBVIOUS
  <1>1. Kept(k) /\ Lone(k) /\ RowsKept(k) /\ CallsFit
    BY FarAt
  <1>2. /\ m.todo = (k.todo \ {step}) \cup next /\ m.ask = k.ask /\ m.before = k.before /\ m.end = k.end
        /\ m.id = k.id \/ step \in Early
    BY <1>1, GoingOn
  <1>3. /\ UNCHANGED <<entities, dossiers, manifests, links, relations>> /\ Filed' = Filed
    BY DEF Register!tables, Filed
  <1>4. EndsFit(step, next, k, m)
    BY <1>2 DEF EndsFit
  <1>5. Kept(m)'
    BY <1>1, <1>2, <1>3, <1>4, GoesFar
  <1>6. m.ask.kind # "backfill" => RowsKept(m)'
    BY <1>1, <1>2, <1>3, RowsStay
  <1>7. m.ask.kind # "project.update" => ProjectKept(m)'
    BY DEF ProjectKept
  <1>8. m.ask.kind \notin {"agent.create", "agent.update"} => CardKept(m)'
    BY DEF CardKept
  <1> QED BY <1>2, <1>5, <1>6, <1>7, <1>8

\* A call that ends.
LEMMA EndsFar ==
    ASSUME RegistryInv, NEW c \in Clients, Far(c), NEW step \in doing[c].todo, step # "linkRows", UNCHANGED Register!tables,
           NEW how \in {"refused", "thrown"}, Register!Ends(c, step, how),
           step \in EntityLeg \cup {"writeDossier"} => doing[c].ask.kind # "project.update",
           how = "refused" => step \notin LegSteps /\ (step \in Early \/ doing[c].ask.kind \in {"agent.create", "agent.update"})
    PROVE  Far(c)'
  <1> PICK k : k = doing[c]
    OBVIOUS
  <1> PICK m : m = doing'[c]
    OBVIOUS
  <1>1. Kept(k) /\ Lone(k) /\ RowsKept(k) /\ ProjectKept(k) /\ CallsFit
    BY FarAt
  <1>2. /\ m.todo = (k.todo \ {step}) \cup {} /\ m.ask = k.ask /\ m.before = k.before /\ m.end = how /\ m.id = k.id
        /\ m.entity = k.entity /\ m.dossier = k.dossier
    BY <1>1, EndingSo
  <1>3. /\ UNCHANGED <<entities, dossiers, manifests, links, relations>> /\ Filed' = Filed
    BY DEF Register!tables, Filed
  <1>4. EndsFit(step, {}, k, m) /\ Follows(step, {}, k.ask)
    BY <1>2 DEF EndsFit, Follows
  <1>5. Kept(m)'
    BY <1>1, <1>2, <1>3, <1>4, GoesFar
  <1>6. RowsKept(m)'
    BY <1>1, <1>2, <1>3, RowsStay
  <1>7. ProjectKept(m)'
    BY <1>1, <1>2, <1>3 DEF ProjectKept
  <1>8. CardKept(m)'
    BY <1>2 DEF CardKept
  <1> QED BY <1>5, <1>6, <1>7, <1>8 DEF Far, AsFar

LEMMA AskFar ==
    ASSUME RegistryInv, NEW c \in Clients, NEW a \in Wishes, Register!Ask(c, a)
    PROVE  Far(c)'
  <1> DEFINE first == CASE a.kind = "relate" -> "relate" [] a.kind = "link" -> "link"
                        [] a.kind = "backfill" -> "readTags" [] OTHER -> "find"
             new == [Register!NoCall EXCEPT !.ask = a, !.before = Filed, !.todo = {first}]
  <1>1. doing' = [doing EXCEPT ![c] = new] /\ UNCHANGED Register!tables
    BY DEF Register!Ask, Filed
  <1>2. new.todo = {first} /\ new.ask = a /\ new.before = Filed /\ new.end = "none"
    <2> DEFINE one == [Register!NoCall EXCEPT !.ask = a]
               two == [one EXCEPT !.before = Filed]
    <2>1. new = [two EXCEPT !.todo = {first}]
      OBVIOUS
    <2>2. IsCall(Register!NoCall) /\ Register!NoCall.end = "none"
      BY DEF Register!NoCall, IsCall
    <2>3. IsCall(one) /\ one.ask = a /\ one.end = "none"
      BY <2>2 DEF IsCall
    <2> HIDE DEF one
    <2>4. IsCall(two) /\ two.ask = a /\ two.before = Filed /\ two.end = "none"
      BY <2>3 DEF IsCall
    <2> HIDE DEF two, first, new
    <2> QED BY <2>1, <2>4 DEF IsCall
  <1>3. doing'[c] = new
    <2>1. doing = [d \in Clients |-> doing[d]]
      BY DEF RegistryInv, CallsFit
    <2> HIDE DEF new
    <2> QED BY <1>1, <2>1
  <1>4. /\ first = "relate" => a.kind = "relate"
        /\ first = "link" => a.kind = "link"
        /\ first = "readTags" <=> a.kind = "backfill"
        /\ first \in {"relate", "link", "readTags", "find"}
    OBVIOUS
  <1>5. a.dry => a.kind = "agent.normalize"
    BY RegisterAssumed DEF Register!RegistryAssumption
  <1> HIDE DEF first, new
  <1>6. a.dry => first = "find"
    BY <1>4, <1>5
  <1> PICK m : m = doing'[c]
    OBVIOUS
  <1>7. UNCHANGED <<entities, dossiers, manifests, links, relations>> /\ Filed' = Filed
    BY <1>1 DEF Register!tables, Filed
  <1>8. m.todo = {first} /\ m.ask = a /\ m.before = Filed /\ m.end = "none"
    BY <1>2, <1>3
  <1>9. /\ m.before.dossiers = dossiers /\ m.before.manifests = manifests /\ m.before.entities = entities
        /\ m.before.links = links
    BY <1>8 DEF Filed
  <1>10. Kept(m)'
    <2>1. (\A s \in m.todo : OnRoute(s, m.ask)) /\ OneEach(m.todo)
      BY <1>4, <1>6, <1>8 DEF OnRoute, OneEach, EntityLeg, OfManifests, OfBackfill
    <2>2. Running(m)
      BY <1>8 DEF Running
    <2>3. Running(m)' = Running(m) /\ OneEach(m.todo)' = OneEach(m.todo) /\ Quiet(m)' = Quiet(m)
      BY DEF Running, OneEach, Quiet
    <2> QED BY <1>7, <1>8, <1>9, <2>1, <2>2, <2>3 DEF Kept
  <1>11. ProjectKept(m)'
    BY <1>4, <1>8 DEF ProjectKept, EntityLeg
  <1>12. CardKept(m)'
    BY <1>4, <1>8 DEF CardKept, OfManifests
  <1>13. RowsKept(m)'
    BY <1>4, <1>7, <1>8, <1>9 DEF RowsKept
  <1> QED BY <1>10, <1>11, <1>12, <1>13 DEF Far, AsFar

LEMMA FoundMore ==
    ASSUME NEW k, IsCall(k), NEW x, NEW y
    PROVE  /\ FoundAs(k, x, y).before = k.before /\ FoundAs(k, x, y).end = k.end
           /\ FoundAs(k, x, y).entity = y /\ FoundAs(k, x, y).dossier = k.dossier
  <1> DEFINE m == [k EXCEPT !.id = x]
  <1>1. FoundAs(k, x, y) = [m EXCEPT !.entity = y]
    BY DEF FoundAs
  <1>2. IsCall(m) /\ m.before = k.before /\ m.end = k.end /\ m.dossier = k.dossier
    BY DEF IsCall
  <1> HIDE DEF m
  <1> QED BY <1>1, <1>2 DEF IsCall

LEMMA FreeFar ==
    ASSUME RegistryInv, NEW c \in Clients, Far(c), Register!FindFree(c)
    PROVE  Far(c)'
  <1> DEFINE row == [name |-> doing[c].ask.name, note |-> Register!Given(doing[c].ask.note, None),
                     type |-> IF doing[c].ask.kind = "project.create" THEN "project" ELSE doing[c].ask.type]
             x == [doing[c] EXCEPT !.entity = row]
             next == {"insertEntity"}
  <1>1. /\ "find" \in doing[c].todo /\ UNCHANGED Register!tables
        /\ doing[c].ask.kind \in {"entity.create", "project.create"}
        /\ Register!Ends(c, "find", "refused") \/ Register!Goes(c, "find", x, next)
    BY DEF Register!FindFree, Register!At
  <1>2. IsCall(doing[c]) /\ (doing[c].ask.dry => doing[c].ask.kind = "agent.normalize")
    BY <1>1, FarAt
  <1>3. IsCall(x) /\ x.ask = doing[c].ask /\ x.before = doing[c].before /\ x.end = doing[c].end /\ x.id = doing[c].id
    BY <1>2 DEF IsCall
  <1>4. "find" \notin LegSteps /\ "find" \notin EntityLeg /\ "find" \in Early
    BY DEF LegSteps, EntityLeg, Early
  <1>5. CASE Register!Ends(c, "find", "refused")
    BY <1>1, <1>4, <1>5, EndsFar
  <1>6. CASE Register!Goes(c, "find", x, next)
    <2> HIDE DEF x
    <2>1. (\A s \in next : OnRoute(s, x.ask)) /\ OneEach(next)
      BY <1>1, <1>2, <1>3 DEF OnRoute, OneEach, EntityLeg, OfManifests, OfBackfill
    <2> HIDE DEF next
    <2>2. Follows("find", next, x.ask)
      BY <1>4, <2>1 DEF Follows
    <2> QED BY <1>1, <1>3, <1>4, <1>6, <2>1, <2>2, LooksOn DEF Far, AsFar
  <1> QED BY <1>1, <1>5, <1>6

LEMMA FoundFar ==
    ASSUME RegistryInv, NEW c \in Clients, Far(c), Register!FindEntity(c)
    PROVE  Far(c)'
  <1> DEFINE updates == [name |-> doing[c].ask.name, type |-> doing[c].ask.type, note |-> doing[c].ask.note]
             next == {"readEntity"}
  <1>1. /\ "find" \in doing[c].todo /\ UNCHANGED Register!tables /\ doing[c].ask.kind = "entity.update"
    BY DEF Register!FindEntity, Register!At
  <1>2. IsCall(doing[c]) /\ (doing[c].ask.dry => doing[c].ask.kind = "agent.normalize")
    BY <1>1, FarAt
  <1>3. PICK seen \in {Register!Wanted(doing[c].ask), None} :
          Register!Ends(c, "find", "refused") \/ Register!Goes(c, "find", FoundAs(doing[c], seen, updates), next)
    BY DEF Register!FindEntity, FoundAs
  <1> DEFINE x == FoundAs(doing[c], seen, updates)
  <1>4. IsCall(x) /\ x.ask = doing[c].ask /\ x.before = doing[c].before /\ x.end = doing[c].end
    BY <1>2, FoundSet, FoundMore
  <1>5. "find" \notin LegSteps /\ "find" \notin EntityLeg /\ "find" \in Early
    BY DEF LegSteps, EntityLeg, Early
  <1>6. CASE Register!Ends(c, "find", "refused")
    BY <1>1, <1>5, <1>6, EndsFar
  <1>7. CASE Register!Goes(c, "find", x, next)
    <2> HIDE DEF x
    <2>1. (\A s \in next : OnRoute(s, x.ask)) /\ OneEach(next)
      BY <1>1, <1>2, <1>4 DEF OnRoute, OneEach, EntityLeg, OfManifests, OfBackfill
    <2> HIDE DEF next
    <2>2. Follows("find", next, x.ask)
      BY <1>5, <2>1 DEF Follows
    <2> QED BY <1>1, <1>4, <1>5, <1>7, <2>1, <2>2, LooksOn DEF Far, AsFar
  <1> QED BY <1>3, <1>6, <1>7

LEMMA RosterFar ==
    ASSUME RegistryInv, NEW c \in Clients, Far(c), Register!RefuseRoster(c)
    PROVE  Far(c)'
  <1>1. "find" \in doing[c].todo /\ UNCHANGED Register!tables /\ Register!Ends(c, "find", "refused")
    BY DEF Register!RefuseRoster, Register!At, Register!tables
  <1>2. "find" \notin LegSteps /\ "find" \notin EntityLeg /\ "find" \in Early
    BY DEF LegSteps, EntityLeg, Early
  <1> QED BY <1>1, <1>2, EndsFar

LEMMA AgentFar ==
    ASSUME RegistryInv, NEW c \in Clients, Far(c), Register!FindAgent(c)
    PROVE  Far(c)'
  <1> DEFINE next == {"readManifest"}
  <1>1. /\ "find" \in doing[c].todo /\ UNCHANGED Register!tables /\ doing[c].ask.kind \in {"agent.create", "agent.update"}
    BY DEF Register!FindAgent, Register!At
  <1>2. IsCall(doing[c]) /\ (doing[c].ask.dry => doing[c].ask.kind = "agent.normalize") /\ Lone(doing[c]) /\ CallsFit
    BY <1>1, FarAt
  <1>3. PICK seen : Register!Ends(c, "find", "refused") \/ Register!Goes(c, "find", [doing[c] EXCEPT !.id = seen], next)
    BY DEF Register!FindAgent
  <1> DEFINE x == [doing[c] EXCEPT !.id = seen]
  <1>4. IsCall(x) /\ x.ask = doing[c].ask /\ x.before = doing[c].before /\ x.end = doing[c].end
    BY <1>2 DEF IsCall
  <1>5. "find" \notin LegSteps /\ "find" \notin EntityLeg /\ "find" \in Early
    BY DEF LegSteps, EntityLeg, Early
  <1>6. CASE Register!Ends(c, "find", "refused")
    BY <1>1, <1>5, <1>6, EndsFar
  <1>7. CASE Register!Goes(c, "find", x, next)
    <2> HIDE DEF x
    <2>1. (\A s \in next : OnRoute(s, x.ask)) /\ OneEach(next)
      BY <1>1, <1>2, <1>4 DEF OnRoute, OneEach, EntityLeg, OfManifests, OfBackfill
    <2>2. Follows("find", next, x.ask)
      BY <1>5, <2>1 DEF Follows
    <2>3. Kept(doing[c])' /\ ProjectKept(doing[c])' /\ RowsKept(doing[c])'
      BY <1>1, <1>4, <1>5, <1>7, <2>1, <2>2, LooksOn
    <2>4. CardKept(doing[c])'
      <3>1. doing'[c].todo = {"readManifest"}
        BY <1>1, <1>2, <1>4, <1>5, <1>7, GoingOn DEF Lone
      <3> QED BY <3>1 DEF CardKept, OfManifests
    <2> QED BY <2>3, <2>4 DEF Far, AsFar
  <1> QED BY <1>3, <1>6, <1>7

LEMMA ResidentFar ==
    ASSUME RegistryInv, NEW c \in Clients, Far(c), NEW step \in {"find", "findAlias"}, Register!FindResident(c, step)
    PROVE  Far(c)'
  <1> DEFINE a == doing[c].ask
             title == IF step = "find" THEN a.name ELSE a.alias
             row == [name |-> a.name, type |-> "agent", note |-> Register!Given(a.note, None)]
             fresh == [doing[c] EXCEPT !.entity = row]
  <1>1. step \in doing[c].todo /\ UNCHANGED Register!tables /\ a.kind = "agent.normalize"
    BY DEF Register!FindResident, Register!At
  <1>2. IsCall(doing[c])
    BY <1>1, FarAt
  <1>3. PICK seen \in {Register!Named(title), None} :
          \/ \E next \in {"readManifest", "readEntity"} :
               /\ a.dry => next = "readManifest"
               /\ Register!Goes(c, step, FoundAs(doing[c], seen, Register!Repairs(a, entities[seen])), {next})
          \/ Register!Goes(c, step, doing[c], {"findAlias"})
          \/ ~a.dry /\ Register!Goes(c, step, fresh, {"insertEntity"})
          \/ Register!Goes(c, step, fresh, {})
    BY DEF Register!FindResident, FoundAs
  <1>4. step \notin LegSteps /\ step \in Early /\ step # "linkRows"
    BY DEF LegSteps, Early
  <1>5. ASSUME NEW x, IsCall(x), x.ask = a, x.before = doing[c].before, x.end = doing[c].end,
               NEW next \in {{"readManifest"}, {"readEntity"}, {"findAlias"}, {"insertEntity"}, {}},
               a.dry => next \in {{"readManifest"}, {"findAlias"}, {}}, Register!Goes(c, step, x, next)
        PROVE  Far(c)'
    <2>1. (\A s \in next : OnRoute(s, x.ask)) /\ OneEach(next)
      BY <1>1, <1>5 DEF OnRoute, OneEach, EntityLeg, OfManifests, OfBackfill
    <2>2. Follows(step, next, x.ask)
      BY <1>4, <2>1 DEF Follows
    <2> QED BY <1>1, <1>4, <1>5, <2>1, <2>2, LooksOn DEF Far, AsFar
  <1>6. IsCall(fresh) /\ fresh.ask = a /\ fresh.before = doing[c].before /\ fresh.end = doing[c].end
    BY <1>2 DEF IsCall
  <1> DEFINE x == FoundAs(doing[c], seen, Register!Repairs(a, entities[seen]))
  <1>7. IsCall(x) /\ x.ask = a /\ x.before = doing[c].before /\ x.end = doing[c].end
    BY <1>2, FoundSet, FoundMore
  <1> HIDE DEF fresh, x
  <1>8. ASSUME NEW next \in {"readManifest", "readEntity"}, a.dry => next = "readManifest", Register!Goes(c, step, x, {next})
        PROVE  Far(c)'
    BY <1>5, <1>7, <1>8
  <1>9. CASE Register!Goes(c, step, doing[c], {"findAlias"})
    BY <1>2, <1>5, <1>9
  <1>10. CASE ~a.dry /\ Register!Goes(c, step, fresh, {"insertEntity"})
    BY <1>5, <1>6, <1>10
  <1>11. CASE Register!Goes(c, step, fresh, {})
    BY <1>5, <1>6, <1>11
  <1> QED BY <1>3, <1>8, <1>9, <1>10, <1>11 DEF x

LEMMA ProjectMore ==
    ASSUME NEW k, IsCall(k), NEW x, NEW y, NEW z
    PROVE  /\ ProjectAs(k, x, y, z).before = k.before /\ ProjectAs(k, x, y, z).end = k.end
           /\ ProjectAs(k, x, y, z).entity = y /\ ProjectAs(k, x, y, z).dossier = z
  <1> DEFINE m == FoundAs(k, x, y)
  <1>1. ProjectAs(k, x, y, z) = [m EXCEPT !.dossier = z]
    BY DEF ProjectAs, FoundAs
  <1>2. IsCall(m) /\ m.before = k.before /\ m.end = k.end /\ m.entity = y
    BY FoundSet, FoundMore
  <1> HIDE DEF m
  <1> QED BY <1>1, <1>2 DEF IsCall

LEMMA ProjectFar ==
    ASSUME RegistryInv, NEW c \in Clients, Far(c), Register!FindProject(c)
    PROVE  Far(c)'
  <1> DEFINE a == doing[c].ask
             routed == a.routing # Same /\ a.metadata # Same
             metadata == IF routed THEN [a.metadata EXCEPT !.routing = a.routing] ELSE a.metadata
             entity == [name |-> Same, type |-> Same, note |-> a.note]
             dossier == [status |-> a.status, metadata |-> metadata]
             next == IF a.routing # Same /\ a.metadata = Same THEN {"readBase"} ELSE Register!Legs(a.note)
  <1>1. "find" \in doing[c].todo /\ UNCHANGED Register!tables /\ a.kind = "project.update"
    BY DEF Register!FindProject, Register!At
  <1>2. IsCall(doing[c]) /\ Lone(doing[c]) /\ CallsFit /\ a \in Wishes /\ (a.dry => a.kind = "agent.normalize")
    BY <1>1, FarAt
  <1>3. PICK seen \in {Register!Wanted(a), None} :
          \/ Register!Ends(c, "find", "refused")
          \/ seen # None /\ Register!Goes(c, "find", ProjectAs(doing[c], seen, entity, dossier), next)
    BY DEF Register!FindProject, ProjectAs
  <1> DEFINE x == ProjectAs(doing[c], seen, entity, dossier)
  <1>4. /\ IsCall(x) /\ x.ask = a /\ x.id = seen /\ x.before = doing[c].before /\ x.end = doing[c].end
        /\ x.entity = entity /\ x.dossier = dossier
    BY <1>2, ProjectSet, ProjectMore
  <1>5. next \in {{"readBase"}, {"readDossier"}, {"readDossier", "readEntity"}}
    BY DEF Register!Legs
  <1>6. /\ entity.name = Same /\ dossier = [status |-> dossier.status, metadata |-> dossier.metadata]
        /\ a.metadata = Same => dossier.metadata = Same
    OBVIOUS
  <1>7. "find" \notin LegSteps /\ "find" \notin EntityLeg /\ "find" \in Early
    BY DEF LegSteps, EntityLeg, Early
  <1> HIDE DEF x, next, entity, dossier
  <1>8. CASE Register!Ends(c, "find", "refused")
    BY <1>1, <1>7, <1>8, EndsFar
  <1>9. CASE seen # None /\ Register!Goes(c, "find", x, next)
    <2>1. seen \in EntityIds /\ entities[seen] # None
      BY <1>2, <1>9, WantedThere, RegisterAssumed DEF Register!RegistryAssumption
    <2>2. (\A s \in next : OnRoute(s, x.ask)) /\ OneEach(next)
      BY <1>1, <1>2, <1>4, <1>5 DEF OnRoute, OneEach, EntityLeg, OfManifests, OfBackfill
    <2>3. Follows("find", next, x.ask)
      BY <1>7, <2>2 DEF Follows
    <2>4. Kept(doing[c])' /\ RowsKept(doing[c])' /\ CardKept(doing[c])'
      BY <1>1, <1>4, <1>7, <1>9, <2>2, <2>3, LooksOn
    <2> PICK m : m = doing'[c]
      OBVIOUS
    <2>5. /\ m.todo = (doing[c].todo \ {"find"}) \cup next
          /\ m.ask = a /\ m.id = seen /\ m.entity = entity /\ m.dossier = dossier
      BY <1>2, <1>4, <1>9, GoingOn
    <2>6. m.todo = next
      BY <1>1, <1>2, <1>7, <2>5 DEF Lone
    <2>7. ProjectKept(m)'
      <3>1. entities' = entities
        BY <1>1 DEF Register!tables
      <3>2. m.id \in EntityIds /\ entities'[m.id] # None /\ m.entity.name = Same
        BY <1>6, <2>1, <2>5, <3>1
      <3>3. m.dossier = [status |-> m.dossier.status, metadata |-> m.dossier.metadata] /\ (m.ask.metadata = Same => m.dossier.metadata = Same)
        BY <1>6, <2>5
      <3> QED BY <1>5, <2>6, <3>2, <3>3 DEF ProjectKept, EntityLeg
    <2> QED BY <2>4, <2>7 DEF Far, AsFar
  <1> QED BY <1>3, <1>8, <1>9 DEF x

\* A step that writes, in its own row.
LEMMA WritesOn ==
    ASSUME RegistryInv, NEW c \in Clients, Far(c), NEW step \in doing[c].todo,
           step \notin {"find", "findAlias", "readManifest"},
           NEW x, IsCall(x), x.ask = doing[c].ask, x.before = doing[c].before, x.end = doing[c].end,
           x.id = doing[c].id \/ step \in Early,
           NEW next, Register!Goes(c, step, x, next),
           \A s \in next : OnRoute(s, x.ask),
           Follows(step, next, x.ask), next \cap Early = {},
           x.ask.kind \in {"agent.create", "agent.update"} => next = {},
           \A i \in EntityIds : i # x.id => /\ dossiers'[i] = dossiers[i] /\ manifests'[i] = manifests[i]
                                            /\ entities[i] # None => entities'[i] = entities[i],
           manifests' = manifests \/ (next = {} /\ step \notin LegSteps),
           dossiers' = dossiers \/ (next = {} /\ (step \notin LegSteps \/ step = "writeDossier")),
           (links' = links /\ step # "linkRows") \/ (next \subseteq {"linkRows"} /\ step \notin LegSteps)
    PROVE  /\ Kept(doing[c])'
           /\ x.ask.kind # "backfill" /\ links' = links => RowsKept(doing[c])'
           /\ x.ask.kind # "project.update" => ProjectKept(doing[c])'
           /\ x.ask.kind \notin {"agent.create", "agent.update"} => CardKept(doing[c])'
  <1> PICK k : k = doing[c]
    OBVIOUS
  <1> PICK m : m = doing'[c]
    OBVIOUS
  <1>1. Kept(k) /\ Lone(k) /\ RowsKept(k) /\ CallsFit /\ OnRoute(step, k.ask)
    BY FarAt
  <1>2. /\ m.todo = (k.todo \ {step}) \cup next /\ m.ask = k.ask /\ m.before = k.before /\ m.end = k.end
        /\ m.id = x.id
    BY <1>1, GoingOn
  <1>3. step \notin LegSteps \/ k.ask.kind # "project.update" => k.todo = {step} /\ m.todo = next
    BY <1>1, <1>2 DEF Lone
  <1>4. k.end = "none" \/ (k.end = "thrown" /\ k.ask.kind = "project.update" /\ k.todo \subseteq EntityLeg)
    BY <1>1 DEF Kept, Running
  <1>5. step \notin LegSteps \/ step = "writeDossier" => m.end = "none"
    BY <1>2, <1>4 DEF EntityLeg, LegSteps
  <1>6. step = "writeDossier" /\ next = {} => m.todo \subseteq EntityLeg /\ m.ask.kind = "project.update"
    <2> SUFFICES ASSUME step = "writeDossier", next = {} PROVE m.todo \subseteq EntityLeg /\ m.ask.kind = "project.update"
      OBVIOUS
    <2>1. k.ask.kind = "project.update"
      BY <1>1 DEF OnRoute
    <2>2. k.todo \subseteq LegSteps
      BY <1>1 DEF Lone, LegSteps
    <2>3. "readDossier" \notin k.todo
      BY <1>1 DEF Kept, OneEach
    <2> QED BY <1>2, <2>1, <2>2, <2>3 DEF LegSteps, EntityLeg
  <1>7. ~Quiet(m)
    <2>1. ~k.ask.dry
      BY <1>1 DEF OnRoute
    <2>2. m.end # "refused"
      BY <1>2, <1>4
    <2>3. m.todo \cap Early = {}
      <3>1. CASE step \notin LegSteps \/ k.ask.kind # "project.update"
        BY <1>3, <3>1
      <3>2. CASE step \in LegSteps /\ k.ask.kind = "project.update"
        <4>1. k.todo \subseteq LegSteps
          BY <1>1, <3>2 DEF Lone
        <4> QED BY <1>2, <4>1 DEF LegSteps, Early
      <3> QED BY <3>1, <3>2
    <2>4. m.ask.kind \in {"agent.create", "agent.update"} => m.todo = {}
      BY <1>2, <1>3
    <2> QED BY <1>2, <2>1, <2>2, <2>3, <2>4 DEF Quiet
  <1>8. EndsFit(step, next, k, m)
    BY <1>2 DEF EndsFit
  <1>9. manifests' = manifests \/ (m.todo = {} /\ m.end = "none")
    BY <1>3, <1>5
  <1>10. \/ dossiers' = dossiers
         \/ m.end = "none" /\ m.todo \subseteq EntityLeg /\ (m.ask.kind = "project.update" \/ m.todo = {})
    BY <1>3, <1>5, <1>6
  <1>11. (links' = links /\ step # "linkRows") \/ (m.end = "none" /\ m.todo \subseteq {"linkRows"})
    BY <1>3, <1>5
  <1>12. Kept(m)'
    <2>1. m.id = k.id \/ step \in Early
      BY <1>2
    <2>2. \A i \in EntityIds : i # m.id => /\ dossiers'[i] = dossiers[i] /\ manifests'[i] = manifests[i]
                                          /\ (entities[i] # None => entities'[i] = entities[i])
      BY <1>2
    <2>3. next \cap Early # {} => step \in Early
      OBVIOUS
    <2>4. (\A s \in next : OnRoute(s, k.ask)) /\ Follows(step, next, k.ask)
      OBVIOUS
    <2> QED BY <1>1, <1>2, <1>7, <1>8, <1>9, <1>10, <1>11, <2>1, <2>2, <2>3, <2>4, GoesFar
  <1>13. m.ask.kind # "backfill" /\ links' = links => RowsKept(m)'
    BY <1>1, <1>2, RowsStay
  <1>14. m.ask.kind # "project.update" => ProjectKept(m)'
    BY DEF ProjectKept
  <1>15. m.ask.kind \notin {"agent.create", "agent.update"} => CardKept(m)'
    BY DEF CardKept
  <1> QED BY <1>2, <1>12, <1>13, <1>14, <1>15

\* Where no query fails a call sees what is stored.
LEMMA SeesIt ==
    ASSUME mishaps = 0, mishaps' = 0, NEW seen, NEW stored, Register!Sees(seen, stored)
    PROVE  seen = stored
  BY DEF Register!Sees, Register!Mishap

LEMMA CreateFar ==
    ASSUME RegistryInv, NEW c \in Clients, Far(c), Register!createEntity(c)
    PROVE  Far(c)'
  <1> DEFINE next == Register!AfterInsert(doing[c].ask.kind)
             step == "insertEntity"
  <1>1. step \in doing[c].todo
    BY DEF Register!createEntity, Register!At
  <1>2. IsCall(doing[c]) /\ OnRoute(step, doing[c].ask) /\ Shaped
    BY <1>1, FarAt DEF RegistryInv
  <1>3. doing[c].ask.kind \in {"entity.create", "project.create", "agent.normalize"} /\ ~doing[c].ask.dry
    BY <1>2 DEF OnRoute
  <1>4. step \notin LegSteps /\ step \notin EntityLeg /\ step \in Early /\ step \notin {"find", "findAlias", "readManifest", "linkRows"}
    BY DEF LegSteps, EntityLeg, Early
  <1>5. CASE Register!Ends(c, step, "thrown") /\ UNCHANGED Register!tables
    BY <1>1, <1>4, <1>5, EndsFar
  <1> HIDE DEF step
  <1>6. ASSUME NEW i \in EntityIds, entities' = [entities EXCEPT ![i] = doing[c].entity],
               Register!Goes(c, step, [doing[c] EXCEPT !.id = i], next), UNCHANGED <<dossiers, manifests, links, relations>>
        PROVE  Far(c)'
    <2> DEFINE x == [doing[c] EXCEPT !.id = i]
    <2>1. IsCall(x) /\ x.ask = doing[c].ask /\ x.before = doing[c].before /\ x.end = doing[c].end /\ x.id = i
      BY <1>2 DEF IsCall
    <2> HIDE DEF x
    <2>2. next \in {{}, {"assertProject"}, {"readManifest"}} /\ (\A s \in next : OnRoute(s, x.ask)) /\ OneEach(next)
      BY <1>3, <2>1 DEF Register!AfterInsert, OnRoute, OneEach, EntityLeg, OfManifests, OfBackfill
    <2> HIDE DEF next
    <2>3. Follows(step, next, x.ask) /\ next \cap Early = {}
      BY <1>4, <2>2 DEF Follows, Early
    <2>4. \A j \in EntityIds : j # x.id => /\ dossiers'[j] = dossiers[j] /\ manifests'[j] = manifests[j]
                                          /\ (entities[j] # None => entities'[j] = entities[j])
      BY <1>2, <1>6, <2>1 DEF Shaped
    <2>5. Register!Goes(c, step, x, next) /\ manifests' = manifests /\ dossiers' = dossiers /\ links' = links
      BY <1>6 DEF x
    <2>6. Kept(doing[c])' /\ RowsKept(doing[c])' /\ ProjectKept(doing[c])' /\ CardKept(doing[c])'
      BY <1>1, <1>3, <1>4, <2>1, <2>2, <2>3, <2>4, <2>5, WritesOn
    <2> QED BY <2>6 DEF Far, AsFar
  <1> QED BY <1>5, <1>6 DEF Register!createEntity, Register!tables, Register!Stores, step

LEMMA ReadEntityFar ==
    ASSUME RegistryInv, NEW c \in Clients, Far(c), mishaps = 0, mishaps' = 0, Register!ReadEntity(c)
    PROVE  Far(c)'
  <1> DEFINE next == {"writeEntity"}
             step == "readEntity"
             x == [doing[c] EXCEPT !.entity = Register!EntityOf(entities[doing[c].id], doing[c].entity)]
  <1>1. step \in doing[c].todo /\ UNCHANGED Register!tables
    BY DEF Register!ReadEntity, Register!At
  <1>2. /\ IsCall(doing[c]) /\ OnRoute(step, doing[c].ask) /\ ProjectKept(doing[c]) /\ Lone(doing[c]) /\ CallsFit
        /\ Kept(doing[c])
    BY <1>1, FarAt
  <1>3. doing[c].ask.kind \in {"entity.update", "project.update", "agent.normalize"} /\ ~doing[c].ask.dry
    BY <1>2 DEF OnRoute, EntityLeg
  <1>4. \/ entities[doing[c].id] = None /\ Register!Ends(c, step, "thrown")
        \/ entities[doing[c].id] # None /\ Register!Goes(c, step, x, next)
    <2>1. PICK seen \in {entities[doing[c].id], None} :
            /\ Register!Sees(seen, entities[doing[c].id])
            /\ IF seen = None THEN Register!Ends(c, step, "thrown")
               ELSE Register!Goes(c, step, [doing[c] EXCEPT !.entity = Register!EntityOf(seen, doing[c].entity)], next)
      BY DEF Register!ReadEntity
    <2>2. seen = entities[doing[c].id]
      BY <2>1, SeesIt
    <2> QED BY <2>1, <2>2
  <1>5. doing[c].ask.kind = "project.update" => doing[c].entity.name = Same /\ doing[c].id \in EntityIds /\ entities[doing[c].id] # None
    BY <1>1, <1>2 DEF ProjectKept, EntityLeg
  <1>6. /\ IsCall(x) /\ x.ask = doing[c].ask /\ x.before = doing[c].before /\ x.end = doing[c].end /\ x.id = doing[c].id
        /\ x.dossier = doing[c].dossier /\ x.entity = Register!EntityOf(entities[doing[c].id], doing[c].entity)
    BY <1>2 DEF IsCall
  <1> HIDE DEF x
  <1>7. step \in LegSteps /\ step \in EntityLeg /\ step # "linkRows"
    BY DEF LegSteps, EntityLeg
  <1>8. CASE entities[doing[c].id] = None /\ Register!Ends(c, step, "thrown")
    BY <1>1, <1>5, <1>7, <1>8, EndsFar
  <1>9. CASE entities[doing[c].id] # None /\ Register!Goes(c, step, x, next)
    <2>1. (\A s \in next : OnRoute(s, x.ask)) /\ Follows(step, next, x.ask) /\ next \cap Early = {}
      BY <1>3, <1>6 DEF OnRoute, Follows, EntityLeg, OfManifests, OfBackfill, Early
    <2>2. Kept(doing[c])' /\ RowsKept(doing[c])' /\ CardKept(doing[c])' /\ (x.ask.kind # "project.update" => ProjectKept(doing[c])')
      BY <1>1, <1>3, <1>6, <1>7, <1>9, <2>1, LooksOn
    <2> PICK k : k = doing[c]
      OBVIOUS
    <2> PICK m : m = doing'[c]
      OBVIOUS
    <2>3. /\ m.todo = (k.todo \ {step}) \cup next
          /\ m.ask = k.ask /\ m.id = k.id /\ m.entity = x.entity /\ m.dossier = k.dossier /\ m.before = k.before /\ m.end = k.end
      BY <1>2, <1>6, <1>9, GoingOn
    <2>4. k.ask.kind = "project.update" => ProjectKept(m)'
      <3> SUFFICES ASSUME k.ask.kind = "project.update" PROVE ProjectKept(m)'
        OBVIOUS
      <3>1. m.entity.name = entities[k.id].name
        BY <1>5, <1>6, <2>3 DEF Register!EntityOf, Register!Given
      <3>2. entities' = entities /\ dossiers' = dossiers
        BY <1>1 DEF Register!tables
      <3>3. "readEntity" \notin m.todo /\ "readBase" \notin m.todo
        <4>1. k.todo \subseteq LegSteps
          BY <1>1, <1>2, <1>7 DEF Lone
        <4> QED BY <2>3, <4>1 DEF LegSteps
      <3>4. "readDossier" \in m.todo <=> "readDossier" \in k.todo
        BY <2>3
      <3>5. "writeDossier" \in m.todo <=> "writeDossier" \in k.todo
        BY <2>3
      <3>6. m.todo \subseteq EntityLeg <=> k.todo \subseteq EntityLeg
        BY <2>3, <1>7 DEF EntityLeg
      <3>7. RestOf(m) = RestOf(k)
        BY <2>3 DEF RestOf
      <3>8. ProjectKept(k)
        BY <1>2
      <3>9. m.todo \cap {"readBase", "readEntity"} = {}
        BY <3>3
      <3>10. m.id \in EntityIds /\ entities[m.id] # None
        BY <1>5, <2>3
      <3> HIDE DEF step
      <3> QED BY <2>3, <3>1, <3>2, <3>3, <3>4, <3>5, <3>6, <3>7, <3>8, <3>9, <3>10 DEF ProjectKept, RestOf
    <2> QED BY <1>6, <2>2, <2>4 DEF Far, AsFar
  <1> QED BY <1>4, <1>8, <1>9

LEMMA UpdateFar ==
    ASSUME RegistryInv, NEW c \in Clients, Far(c), Register!updateEntity(c)
    PROVE  Far(c)'
  <1> DEFINE next == IF doing[c].ask.kind = "agent.normalize" THEN {"readManifest"} ELSE {}
             step == "writeEntity"
  <1>1. step \in doing[c].todo
    BY DEF Register!updateEntity, Register!At
  <1>2. /\ IsCall(doing[c]) /\ OnRoute(step, doing[c].ask) /\ ProjectKept(doing[c]) /\ Lone(doing[c]) /\ CallsFit
        /\ Kept(doing[c]) /\ Shaped /\ Register!OneName
    BY <1>1, FarAt DEF RegistryInv, FiledTrue
  <1>3. doing[c].ask.kind \in {"entity.update", "project.update", "agent.normalize"} /\ ~doing[c].ask.dry
    BY <1>2 DEF OnRoute, EntityLeg
  <1>4. doing[c].ask.kind = "project.update" =>
          /\ doing[c].id \in EntityIds /\ entities[doing[c].id] # None
          /\ doing[c].entity.name = entities[doing[c].id].name
    BY <1>1, <1>2 DEF ProjectKept, EntityLeg
  <1>5. doing[c].ask.kind = "project.update" => ~Register!Taken(doing[c].entity.name, doing[c].id)
    BY <1>2, <1>4 DEF Register!Taken, Register!OneName
  <1>6. step \in LegSteps /\ step \in EntityLeg /\ step # "linkRows" /\ step \notin {"find", "findAlias", "readManifest"}
    BY DEF LegSteps, EntityLeg
  <1>7. CASE doing[c].ask.kind # "project.update" /\ Register!Ends(c, step, "thrown") /\ UNCHANGED Register!tables
    BY <1>1, <1>6, <1>7, EndsFar
  <1>8. CASE /\ entities' = [entities EXCEPT ![doing[c].id] = doing[c].entity] /\ Register!Goes(c, step, doing[c], next)
             /\ UNCHANGED <<dossiers, manifests, links, relations>>
    <2>1. /\ next \in {{}, {"readManifest"}} /\ (next # {} => doing[c].ask.kind = "agent.normalize")
          /\ (\A s \in next : OnRoute(s, doing[c].ask)) /\ OneEach(next)
      BY <1>3 DEF OnRoute, OneEach, EntityLeg, OfManifests, OfBackfill
    <2>2. Register!Goes(c, step, doing[c], next) /\ manifests' = manifests /\ dossiers' = dossiers /\ links' = links
      BY <1>8
    <2> HIDE DEF next
    <2>3. Follows(step, next, doing[c].ask) /\ next \cap Early = {}
      BY <2>1 DEF Follows, Early
    <2>4. \A j \in EntityIds : j # doing[c].id => /\ dossiers'[j] = dossiers[j] /\ manifests'[j] = manifests[j]
                                                  /\ (entities[j] # None => entities'[j] = entities[j])
      BY <1>2, <1>8 DEF Shaped
    <2>5. Kept(doing[c])' /\ RowsKept(doing[c])' /\ CardKept(doing[c])' /\ (doing[c].ask.kind # "project.update" => ProjectKept(doing[c])')
      BY <1>1, <1>2, <1>3, <1>6, <2>1, <2>2, <2>3, <2>4, WritesOn
    <2> PICK k : k = doing[c]
      OBVIOUS
    <2> PICK m : m = doing'[c]
      OBVIOUS
    <2>6. /\ m.todo = (k.todo \ {step}) \cup next
          /\ m.ask = k.ask /\ m.id = k.id /\ m.entity = k.entity /\ m.dossier = k.dossier /\ m.before = k.before /\ m.end = k.end
      BY <1>2, <2>2, GoingOn
    <2>7. k.ask.kind = "project.update" => ProjectKept(m)'
      <3> SUFFICES ASSUME k.ask.kind = "project.update" PROVE ProjectKept(m)'
        OBVIOUS
      <3>1. k.todo \subseteq LegSteps /\ "readEntity" \notin k.todo
        BY <1>1, <1>2, <1>6 DEF Lone, Kept, OneEach, EntityLeg
      <3>2. m.todo = k.todo \ {"writeEntity"}
        BY <2>1, <2>6
      <3>3. m.todo \cap {"readBase", "readEntity", "writeEntity"} = {} /\ m.todo \cap EntityLeg = {}
        BY <3>1, <3>2 DEF LegSteps, EntityLeg
      <3>4. "readDossier" \in m.todo <=> "readDossier" \in k.todo
        BY <3>2
      <3>5. "writeDossier" \in m.todo <=> "writeDossier" \in k.todo
        BY <3>2
      <3>6. m.todo \subseteq EntityLeg <=> k.todo \subseteq EntityLeg
        BY <3>2 DEF EntityLeg
      <3>7. RestOf(m)' = RestOf(k) /\ ProjectKept(k)
        BY <1>2, <2>6 DEF RestOf
      <3> HIDE DEF step, next
      <3> QED BY <2>2, <2>6, <3>3, <3>4, <3>5, <3>6, <3>7 DEF ProjectKept, EntityLeg
    <2> QED BY <2>5, <2>7 DEF Far, AsFar
  <1> QED BY <1>3, <1>5, <1>7, <1>8 DEF Register!updateEntity, Register!tables, Register!Stores

LEMMA AssertFar ==
    ASSUME RegistryInv, NEW c \in Clients, Far(c), UNCHANGED Register!tables,
           NEW step \in doing[c].todo, step \in {"assertProject", "assertAgent", "assertRouter"},
           NEW id, NEW type, NEW next, Register!Asserts(c, step, id, type, {next}), next \notin Early, OnRoute(next, doing[c].ask)
    PROVE  Far(c)'
  <1> DEFINE then == {next}
  <1>1. Register!Ends(c, step, "thrown") \/ Register!Goes(c, step, doing[c], then)
    BY DEF Register!Asserts
  <1>2. IsCall(doing[c]) /\ OnRoute(step, doing[c].ask) /\ CardKept(doing[c]) /\ Lone(doing[c]) /\ CallsFit
    BY FarAt
  <1>3. /\ step \notin LegSteps /\ step \notin EntityLeg /\ step # "linkRows" /\ step # "writeDossier"
        /\ OneEach(then) /\ then \cap Early = {} /\ (\A s \in then : OnRoute(s, doing[c].ask)) /\ then # {}
        /\ step # "assertProject" => step \in OfManifests
    BY DEF LegSteps, EntityLeg, OneEach, OfManifests
  <1>4. doing[c].ask.kind \in {"project.create", "agent.create", "agent.update", "agent.normalize"}
        /\ (step = "assertProject" => doing[c].ask.kind = "project.create")
    BY <1>2 DEF OnRoute, OfManifests
  <1> HIDE DEF then
  <1>5. CASE Register!Ends(c, step, "thrown")
    BY <1>3, <1>5, EndsFar
  <1>6. CASE Register!Goes(c, step, doing[c], then)
    <2>1. Follows(step, then, doing[c].ask)
      BY <1>3 DEF Follows
    <2>2. Kept(doing[c])' /\ RowsKept(doing[c])' /\ ProjectKept(doing[c])'
          /\ (doing[c].ask.kind \notin {"agent.create", "agent.update"} => CardKept(doing[c])')
      BY <1>2, <1>3, <1>4, <1>6, <2>1, LooksOn
    <2> PICK k : k = doing[c]
      OBVIOUS
    <2> PICK m : m = doing'[c]
      OBVIOUS
    <2>3. m.todo = (k.todo \ {step}) \cup then /\ m.ask = k.ask /\ m.card = k.card /\ m.end = k.end
      BY <1>2, <1>6, GoingOn
    <2>4. k.ask.kind \in {"agent.create", "agent.update"} => CardKept(m)'
      <3> SUFFICES ASSUME k.ask.kind \in {"agent.create", "agent.update"} PROVE CardKept(m)'
        OBVIOUS
      <3>1. step \in OfManifests /\ k.todo \cap OfManifests # {} /\ m.todo # {}
        BY <1>3, <1>4, <2>3
      <3> QED BY <1>2, <2>3, <3>1 DEF CardKept
    <2> QED BY <2>2, <2>4 DEF Far, AsFar
  <1> QED BY <1>1, <1>5, <1>6

LEMMA AssertProjectFar ==
    ASSUME RegistryInv, NEW c \in Clients, Far(c), Register!AssertProject(c)
    PROVE  Far(c)'
  <1>1. /\ "assertProject" \in doing[c].todo /\ UNCHANGED Register!tables
        /\ Register!Asserts(c, "assertProject", doing[c].id, "project", {"insertDossier"})
    BY DEF Register!AssertProject, Register!At
  <1>2. OnRoute("assertProject", doing[c].ask)
    BY <1>1, FarAt
  <1>3. OnRoute("insertDossier", doing[c].ask) /\ "insertDossier" \notin Early
    BY <1>2 DEF OnRoute, EntityLeg, OfManifests, OfBackfill, Early
  <1> QED BY <1>1, <1>3, AssertFar

LEMMA ThenRouterFar ==
    ASSUME NEW a, OnRoute("assertAgent", a) \/ OnRoute("assertRouter", a) \/ OnRoute("reread", a),
           NEW s \in {"assertRouter", "insertManifest", "writeManifest"}
    PROVE  OnRoute(s, a) /\ s \notin Early
  BY DEF OnRoute, EntityLeg, OfManifests, OfBackfill, Early

LEMMA AssertAgentFar ==
    ASSUME RegistryInv, NEW c \in Clients, Far(c), Register!AssertAgent(c)
    PROVE  Far(c)'
  <1> DEFINE next == IF doing[c].card.router # None THEN "assertRouter" ELSE doing[c].then
  <1>1. /\ "assertAgent" \in doing[c].todo /\ UNCHANGED Register!tables
        /\ Register!Asserts(c, "assertAgent", doing[c].id, "agent", {next})
    BY DEF Register!AssertAgent, Register!At, Register!ThenRouter
  <1>2. OnRoute("assertAgent", doing[c].ask) /\ Ready("assertAgent", doing[c], been)
    BY <1>1, FarAt
  <1>3. next \in {"assertRouter", "insertManifest", "writeManifest"}
    BY <1>2 DEF Ready
  <1> HIDE DEF next
  <1>4. OnRoute(next, doing[c].ask) /\ next \notin Early
    BY <1>2, <1>3, ThenRouterFar
  <1> QED BY <1>1, <1>4, AssertFar

LEMMA AssertRouterFar ==
    ASSUME RegistryInv, NEW c \in Clients, Far(c), Register!AssertRouter(c)
    PROVE  Far(c)'
  <1>1. /\ "assertRouter" \in doing[c].todo /\ UNCHANGED Register!tables
        /\ Register!Asserts(c, "assertRouter", doing[c].card.router, "agent", {doing[c].then})
    BY DEF Register!AssertRouter, Register!At
  <1>2. OnRoute("assertRouter", doing[c].ask) /\ Ready("assertRouter", doing[c], been)
    BY <1>1, FarAt
  <1>3. doing[c].then \in {"assertRouter", "insertManifest", "writeManifest"}
    BY <1>2 DEF Ready
  <1>4. OnRoute(doing[c].then, doing[c].ask) /\ doing[c].then \notin Early
    BY <1>2, <1>3, ThenRouterFar
  <1> QED BY <1>1, <1>4, AssertFar

LEMMA DossierFar ==
    ASSUME RegistryInv, NEW c \in Clients, Far(c), Register!createProjectDossier(c)
    PROVE  Far(c)'
  <1> DEFINE next == {}
             step == "insertDossier"
  <1>1. /\ step \in doing[c].todo /\ Register!Goes(c, step, doing[c], next)
        /\ \E dossier : dossiers' = [dossiers EXCEPT ![doing[c].id] = dossier]
        /\ entities' = entities /\ manifests' = manifests /\ links' = links
    BY DEF Register!createProjectDossier, Register!At
  <1>2. IsCall(doing[c]) /\ OnRoute(step, doing[c].ask) /\ Shaped
    BY <1>1, FarAt DEF RegistryInv
  <1>3. doing[c].ask.kind = "project.create"
    BY <1>2 DEF OnRoute
  <1>4. step \notin LegSteps /\ step # "linkRows" /\ step \notin {"find", "findAlias", "readManifest"}
    BY DEF LegSteps
  <1>5. (\A s \in next : OnRoute(s, doing[c].ask)) /\ Follows(step, next, doing[c].ask) /\ next \cap Early = {} /\ next = {}
    BY DEF Follows
  <1>6. \A j \in EntityIds : j # doing[c].id => /\ dossiers'[j] = dossiers[j] /\ manifests'[j] = manifests[j]
                                                /\ (entities[j] # None => entities'[j] = entities[j])
    BY <1>1, <1>2 DEF Shaped
  <1> HIDE DEF step, next
  <1>7. Kept(doing[c])' /\ RowsKept(doing[c])' /\ ProjectKept(doing[c])' /\ CardKept(doing[c])'
    BY <1>1, <1>2, <1>3, <1>4, <1>5, <1>6, WritesOn
  <1> QED BY <1>7 DEF Far, AsFar

LEMMA BaseFar ==
    ASSUME RegistryInv, NEW c \in Clients, Far(c), mishaps = 0, mishaps' = 0, Register!ReadBase(c)
    PROVE  Far(c)'
  <1> DEFINE next == Register!Legs(doing[c].ask.note)
             step == "readBase"
             seen == dossiers[doing[c].id]
             metadata == [rest |-> IF seen = None THEN None ELSE seen.metadata.rest, routing |-> doing[c].ask.routing]
             x == [doing[c] EXCEPT !.dossier.metadata = metadata]
  <1>1. step \in doing[c].todo /\ UNCHANGED Register!tables
    BY DEF Register!ReadBase, Register!At
  <1>2. IsCall(doing[c]) /\ OnRoute(step, doing[c].ask) /\ ProjectKept(doing[c]) /\ Lone(doing[c]) /\ CallsFit
    BY <1>1, FarAt
  <1>3. doing[c].ask.kind = "project.update" /\ ~doing[c].ask.dry
    BY <1>2 DEF OnRoute
  <1>4. Register!Goes(c, step, x, next)
    <2>1. PICK found \in {seen, None} :
            /\ Register!Sees(found, seen)
            /\ Register!Goes(c, step, [doing[c] EXCEPT !.dossier.metadata =
                  [rest |-> IF found = None THEN None ELSE found.metadata.rest, routing |-> doing[c].ask.routing]], next)
      BY DEF Register!ReadBase
    <2>2. found = seen
      BY <2>1, SeesIt
    <2> QED BY <2>1, <2>2
  <1>5. seen # None => metadata.rest = seen.metadata.rest
    OBVIOUS
  <1>6. /\ doing[c].id \in EntityIds /\ entities[doing[c].id] # None /\ doing[c].entity.name = Same
        /\ doing[c].dossier = [status |-> doing[c].dossier.status, metadata |-> doing[c].dossier.metadata]
    BY <1>1, <1>2, <1>3 DEF ProjectKept
  <1> HIDE DEF metadata
  <1>7. /\ IsCall(x) /\ x.ask = doing[c].ask /\ x.id = doing[c].id /\ x.before = doing[c].before /\ x.end = doing[c].end
        /\ x.entity = doing[c].entity /\ x.dossier.metadata = metadata
    <2> DEFINE dossier == [doing[c].dossier EXCEPT !.metadata = metadata]
    <2>1. x = [doing[c] EXCEPT !.dossier = dossier]
      OBVIOUS
    <2>2. dossier.metadata = metadata
      BY <1>6
    <2> HIDE DEF dossier, x
    <2> QED BY <1>2, <2>1, <2>2 DEF IsCall
  <1> HIDE DEF x
  <1>8. next \subseteq {"readDossier", "readEntity"} /\ "readDossier" \in next
    BY DEF Register!Legs
  <1>9. step \notin LegSteps /\ step \in Early /\ step # "linkRows"
    BY DEF LegSteps, Early
  <1> HIDE DEF next
  <1>10. (\A s \in next : OnRoute(s, x.ask)) /\ OneEach(next) /\ next \cap Early = {}
    BY <1>3, <1>7, <1>8 DEF OnRoute, OneEach, EntityLeg, OfManifests, OfBackfill, Early
  <1>11. Follows(step, next, x.ask)
    BY <1>9, <1>10 DEF Follows
  <1>12. Kept(doing[c])' /\ RowsKept(doing[c])' /\ CardKept(doing[c])'
    BY <1>1, <1>3, <1>4, <1>7, <1>9, <1>10, <1>11, LooksOn
  <1> PICK k : k = doing[c]
    OBVIOUS
  <1> PICK m : m = doing'[c]
    OBVIOUS
  <1>13. /\ m.todo = (k.todo \ {step}) \cup next /\ m.ask = k.ask /\ m.id = k.id /\ m.entity = k.entity
         /\ m.dossier.metadata = metadata
    BY <1>2, <1>4, <1>7, GoingOn
  <1>14. m.todo = next
    BY <1>1, <1>2, <1>9, <1>13 DEF Lone
  <1>15. ProjectKept(m)'
    <2>1. entities' = entities /\ dossiers' = dossiers
      BY <1>1 DEF Register!tables
    <2>2. m.id \in EntityIds /\ entities'[m.id] # None /\ m.entity.name = Same
      BY <1>6, <1>13, <2>1
    <2>3. dossiers'[m.id] # None => m.dossier.metadata.rest = dossiers'[m.id].metadata.rest
      BY <1>5, <1>13, <2>1
    <2>4. ~(m.todo \subseteq EntityLeg) /\ "readBase" \notin m.todo /\ "writeEntity" \notin m.todo /\ "writeDossier" \notin m.todo
      BY <1>8, <1>14 DEF EntityLeg
    <2> QED BY <2>2, <2>3, <2>4 DEF ProjectKept
  <1> QED BY <1>12, <1>15 DEF Far, AsFar

LEMMA ReadDossierFar ==
    ASSUME RegistryInv, NEW c \in Clients, Far(c), mishaps = 0, mishaps' = 0, Register!ReadDossier(c)
    PROVE  Far(c)'
  <1> DEFINE next == {"writeDossier"}
             step == "readDossier"
             seen == dossiers[doing[c].id]
             new  == Register!DossierOf(seen, doing[c].dossier)
             x == [doing[c] EXCEPT !.dossier = new]
  <1>1. step \in doing[c].todo /\ UNCHANGED Register!tables
    BY DEF Register!ReadDossier, Register!At
  <1>2. /\ IsCall(doing[c]) /\ OnRoute(step, doing[c].ask) /\ ProjectKept(doing[c]) /\ Lone(doing[c]) /\ CallsFit
        /\ Kept(doing[c])
    BY <1>1, FarAt
  <1>3. doing[c].ask.kind = "project.update" /\ ~doing[c].ask.dry
    BY <1>2 DEF OnRoute
  <1>4. Register!Ends(c, step, "thrown") \/ (seen # None /\ Register!Goes(c, step, x, next))
    <2>1. PICK found \in {seen, None} :
            /\ Register!Sees(found, seen)
            /\ IF found = None THEN Register!Ends(c, step, "thrown")
               ELSE Register!Goes(c, step, [doing[c] EXCEPT !.dossier = Register!DossierOf(found, doing[c].dossier)], next)
      BY DEF Register!ReadDossier
    <2>2. found = seen
      BY <2>1, SeesIt
    <2> QED BY <2>1, <2>2
  <1>5. step \in LegSteps /\ step \notin EntityLeg /\ step # "linkRows" /\ step # "writeDossier"
    BY DEF LegSteps, EntityLeg
  <1>6. CASE Register!Ends(c, step, "thrown")
    BY <1>1, <1>5, <1>6, EndsFar
  <1>7. CASE seen # None /\ Register!Goes(c, step, x, next)
    <2>1. new.metadata = IF doing[c].dossier.metadata = Same THEN seen.metadata ELSE doing[c].dossier.metadata
      BY DEF Register!DossierOf, Register!Given
    <2> HIDE DEF new
    <2>2. /\ IsCall(x) /\ x.ask = doing[c].ask /\ x.id = doing[c].id /\ x.before = doing[c].before /\ x.end = doing[c].end
          /\ x.entity = doing[c].entity /\ x.dossier = new
      BY <1>2 DEF IsCall
    <2> HIDE DEF x
    <2>3. (\A s \in next : OnRoute(s, x.ask)) /\ Follows(step, next, x.ask) /\ next \cap Early = {}
      BY <1>3, <2>2 DEF OnRoute, Follows, EntityLeg, OfManifests, OfBackfill, Early
    <2>4. Kept(doing[c])' /\ RowsKept(doing[c])' /\ CardKept(doing[c])'
      BY <1>1, <1>3, <1>5, <1>7, <2>2, <2>3, LooksOn
    <2> PICK k : k = doing[c]
      OBVIOUS
    <2> PICK m : m = doing'[c]
      OBVIOUS
    <2>5. /\ m.todo = (k.todo \ {step}) \cup next /\ m.ask = k.ask /\ m.id = k.id /\ m.entity = k.entity
          /\ m.dossier = new /\ m.before = k.before /\ m.end = k.end
      BY <1>2, <1>7, <2>2, GoingOn
    <2>6. ProjectKept(m)'
      <3>1. entities' = entities /\ dossiers' = dossiers /\ ProjectKept(k)
        BY <1>1, <1>2 DEF Register!tables
      <3>2. "readBase" \notin m.todo /\ "readDossier" \notin m.todo /\ ~(m.todo \subseteq EntityLeg)
        <4>1. k.todo \subseteq LegSteps
          BY <1>1, <1>2, <1>5 DEF Lone
        <4> QED BY <2>5, <4>1 DEF LegSteps, EntityLeg
      <3>3. m.todo \cap EntityLeg = k.todo \cap EntityLeg
        BY <2>5 DEF EntityLeg
      <3>4. ("readEntity" \in m.todo <=> "readEntity" \in k.todo) /\ ("writeEntity" \in m.todo <=> "writeEntity" \in k.todo)
        BY <2>5
      <3>5. m.todo \cap (EntityLeg \cup {"readBase"}) # {} => k.todo \cap (EntityLeg \cup {"readBase"}) # {}
        BY <3>2, <3>3
      <3>6. m.todo \cap {"readBase", "readEntity"} # {} => k.todo \cap {"readBase", "readEntity"} # {}
        BY <3>2, <3>4
      <3>7. m.ask.metadata = Same /\ m.end = "none" => m.dossier.metadata.rest = RestOf(m)
        <4> SUFFICES ASSUME m.ask.metadata = Same, m.end = "none" PROVE m.dossier.metadata.rest = RestOf(m)
          OBVIOUS
        <4>1. k.before.dossiers = dossiers
          BY <1>1, <1>2, <1>5 DEF Kept
        <4>2. k.dossier.metadata = Same \/ k.dossier.metadata.rest = seen.metadata.rest
          BY <1>1, <1>3, <1>7, <2>5, <3>1 DEF ProjectKept
        <4>3. RestOf(m) = seen.metadata.rest
          BY <2>5, <4>1 DEF RestOf
        <4> QED BY <2>1, <2>5, <4>2, <4>3
      <3>8. RestOf(m)' = RestOf(m)
        BY DEF RestOf
      <3> HIDE DEF step, next, new, seen
      <3> QED BY <1>3, <2>5, <3>1, <3>2, <3>4, <3>5, <3>6, <3>7, <3>8 DEF ProjectKept
    <2> QED BY <2>4, <2>6 DEF Far, AsFar
  <1> QED BY <1>4, <1>6, <1>7

LEMMA WriteDossierFar ==
    ASSUME RegistryInv, NEW c \in Clients, Far(c), Register!updateProjectDossier(c)
    PROVE  Far(c)'
  <1> DEFINE next == {}
             step == "writeDossier"
  <1>1. /\ step \in doing[c].todo /\ Register!Goes(c, step, doing[c], next)
        /\ dossiers' = [dossiers EXCEPT ![doing[c].id] = doing[c].dossier]
        /\ entities' = entities /\ manifests' = manifests /\ links' = links
    BY DEF Register!updateProjectDossier, Register!At
  <1>2. /\ IsCall(doing[c]) /\ OnRoute(step, doing[c].ask) /\ Shaped /\ Kept(doing[c]) /\ ProjectKept(doing[c])
        /\ Lone(doing[c]) /\ CallsFit /\ Ready(step, doing[c], been)
    BY <1>1, FarAt DEF RegistryInv
  <1>3. doing[c].ask.kind = "project.update" /\ doing[c].id \in EntityIds
    BY <1>2 DEF OnRoute, Ready, Identified, OfProject
  <1>4. step \in LegSteps /\ step # "linkRows" /\ step \notin {"find", "findAlias", "readManifest"} /\ step \notin EntityLeg
    BY DEF LegSteps, EntityLeg
  <1>5. (\A s \in next : OnRoute(s, doing[c].ask)) /\ Follows(step, next, doing[c].ask) /\ next \cap Early = {} /\ next = {}
    BY DEF Follows
  <1>6. /\ dossiers'[doing[c].id] = doing[c].dossier
        /\ \A j \in EntityIds : j # doing[c].id => /\ dossiers'[j] = dossiers[j] /\ manifests'[j] = manifests[j]
                                                   /\ (entities[j] # None => entities'[j] = entities[j])
    BY <1>1, <1>2, <1>3 DEF Shaped
  <1> HIDE DEF next
  <1>7. Kept(doing[c])' /\ RowsKept(doing[c])' /\ CardKept(doing[c])'
    BY <1>1, <1>2, <1>3, <1>4, <1>5, <1>6, WritesOn
  <1> PICK k : k = doing[c]
    OBVIOUS
  <1> PICK m : m = doing'[c]
    OBVIOUS
  <1>8. /\ m.todo = (k.todo \ {step}) \cup next /\ m.ask = k.ask /\ m.id = k.id /\ m.entity = k.entity
        /\ m.dossier = k.dossier /\ m.before = k.before /\ m.end = k.end
    BY <1>1, <1>2, GoingOn
  <1>9. ProjectKept(m)'
    <2>1. m.todo = k.todo \ {"writeDossier"} /\ k.todo \subseteq LegSteps /\ "readDossier" \notin k.todo
      BY <1>1, <1>2, <1>4, <1>5, <1>8 DEF Lone, Kept, OneEach
    <2>2. "readBase" \notin m.todo /\ "readDossier" \notin m.todo /\ "writeDossier" \notin m.todo
      BY <2>1 DEF LegSteps
    <2>3. /\ m.todo \cap (EntityLeg \cup {"readBase"}) # {} => k.todo \cap (EntityLeg \cup {"readBase"}) # {}
          /\ m.todo \cap {"readBase", "readEntity"} # {} => k.todo \cap {"readBase", "readEntity"} # {}
          /\ "writeEntity" \in m.todo => "writeEntity" \in k.todo
      BY <2>1
    <2>4. m.ask.metadata = Same /\ m.end = "none" => dossiers'[m.id].metadata.rest = RestOf(k)
      BY <1>1, <1>2, <1>3, <1>6, <1>8 DEF ProjectKept
    <2>5. RestOf(m)' = RestOf(k) /\ ProjectKept(k) /\ entities' = entities
      BY <1>1, <1>2, <1>8 DEF RestOf
    <2> HIDE DEF step
    <2> QED BY <1>3, <1>8, <2>2, <2>3, <2>4, <2>5 DEF ProjectKept
  <1> QED BY <1>7, <1>9 DEF Far, AsFar

LEMMA PlanMore ==
    ASSUME NEW k, IsCall(k), NEW x, NEW y
    PROVE  PlannedAs(k, x, y).before = k.before /\ PlannedAs(k, x, y).end = k.end
  <1> DEFINE m == [k EXCEPT !.card = x]
  <1>1. PlannedAs(k, x, y) = [m EXCEPT !.then = y]
    BY DEF PlannedAs
  <1>2. IsCall(m) /\ m.before = k.before /\ m.end = k.end
    BY DEF IsCall
  <1> HIDE DEF m
  <1> QED BY <1>1, <1>2 DEF IsCall

\* The mode asked for is in what is planned, and where it is not "router" there is none.
LEMMA PlansAsked ==
    ASSUME NEW a, a.mode # Same
    PROVE  /\ a.kind # "agent.update" /\ Register!WellRouted(a.mode, a.router) => ModeAsked(a, Register!NewCard(a))
           /\ \A held : ModeAsked(a, Register!Updates(a, held))
           /\ \A held, card : ModeAsked(a, card) => ModeAsked(a, Register!CardOf(held, card))
  <1>1. Same # None
    BY RegisterAssumed DEF Register!RegistryAssumption
  <1>2. a.kind # "agent.update" /\ Register!WellRouted(a.mode, a.router) => ModeAsked(a, Register!NewCard(a))
    BY DEF ModeAsked, Register!NewCard, Register!Given, Register!WellRouted
  <1>3. ASSUME NEW held PROVE ModeAsked(a, Register!Updates(a, held))
    BY DEF ModeAsked, Register!Updates, Register!Mode, Register!Given
  <1>4. ASSUME NEW held, NEW card, ModeAsked(a, card) PROVE ModeAsked(a, Register!CardOf(held, card))
    BY <1>1, <1>4 DEF ModeAsked, Register!CardOf, Register!Given
  <1> QED BY <1>2, <1>3, <1>4

LEMMA ManifestFar ==
    ASSUME RegistryInv, NEW c \in Clients, Far(c), Register!ReadManifest(c)
    PROVE  Far(c)'
  <1> DEFINE a == doing[c].ask
             step == "readManifest"
  <1>1. step \in doing[c].todo /\ UNCHANGED Register!tables
    BY DEF Register!ReadManifest, Register!At
  <1>2. /\ IsCall(doing[c]) /\ OnRoute(step, a) /\ Lone(doing[c]) /\ CallsFit /\ AskedFit(step, doing[c])
        /\ (a.dry => a.kind = "agent.normalize")
    BY <1>1, FarAt
  <1>3. a.kind \in {"agent.create", "agent.update", "agent.normalize"}
        /\ (a.kind = "agent.create" => Register!WellRouted(a.mode, a.router))
    BY <1>2 DEF AskedFit
  <1>4. PICK seen \in {manifests[doing[c].id], None} :
          \/ a.kind \in {"agent.create", "agent.update"} /\ Register!Ends(c, step, "refused")
          \/ a.kind = "agent.normalize" /\ Register!Goes(c, step, doing[c], {})
          \/ /\ a.kind = "agent.create" \/ (a.kind = "agent.normalize" /\ ~a.dry)
             /\ Register!Goes(c, step, PlannedAs(doing[c], Register!NewCard(a), "insertManifest"), {"assertAgent"})
          \/ /\ a.kind = "agent.update"
             /\ Register!Goes(c, step, PlannedAs(doing[c], Register!Updates(a, seen), "writeManifest"), {"reread"})
          \/ /\ a.kind = "agent.normalize" /\ ~a.dry
             /\ Register!Goes(c, step, PlannedAs(doing[c], Register!RosterCard(a), "writeManifest"), {"reread"})
    BY <1>3 DEF Register!ReadManifest, Register!Creates, Register!Changes, PlannedAs
  <1>5. step \notin LegSteps /\ step \notin EntityLeg /\ step # "linkRows" /\ step # "writeDossier" /\ step \notin Early
    BY DEF LegSteps, EntityLeg, Early
  <1>6. CASE a.kind \in {"agent.create", "agent.update"} /\ Register!Ends(c, step, "refused")
    BY <1>1, <1>5, <1>6, EndsFar
  <1>7. ASSUME NEW x, IsCall(x), x.ask = a, x.id = doing[c].id, x.before = doing[c].before, x.end = doing[c].end,
               NEW next \in {{}, {"assertAgent"}, {"reread"}}, next = {} => a.kind = "agent.normalize",
               next = {} \/ ~a.dry, a.kind # "agent.normalize" /\ a.mode # Same => ModeAsked(a, x.card),
               Register!Goes(c, step, x, next)
        PROVE  Far(c)'
    <2>1. (\A s \in next : OnRoute(s, x.ask)) /\ OneEach(next) /\ next \cap Early = {}
      BY <1>3, <1>7 DEF OnRoute, OneEach, EntityLeg, OfManifests, OfBackfill, Early
    <2>2. Follows(step, next, x.ask)
      BY <1>5, <2>1 DEF Follows
    <2>3. Kept(doing[c])' /\ RowsKept(doing[c])' /\ ProjectKept(doing[c])' /\ (a.kind = "agent.normalize" => CardKept(doing[c])')
      BY <1>1, <1>3, <1>5, <1>7, <2>1, <2>2, LooksOn
    <2> PICK k : k = doing[c]
      OBVIOUS
    <2> PICK m : m = doing'[c]
      OBVIOUS
    <2>4. m.todo = (k.todo \ {step}) \cup next /\ m.ask = k.ask /\ m.card = x.card /\ m.end = k.end
      BY <1>2, <1>7, GoingOn
    <2>5. a.kind # "agent.normalize" => CardKept(m)'
      BY <1>7, <2>4 DEF CardKept
    <2> QED BY <2>3, <2>5 DEF Far, AsFar
  <1>8. CASE a.kind = "agent.normalize" /\ Register!Goes(c, step, doing[c], {})
    BY <1>2, <1>7, <1>8
  <1>9. ASSUME NEW card, NEW then, NEW next \in {{"assertAgent"}, {"reread"}}, ~a.dry,
               a.kind # "agent.normalize" /\ a.mode # Same => ModeAsked(a, card),
               Register!Goes(c, step, PlannedAs(doing[c], card, then), next)
        PROVE  Far(c)'
    <2> DEFINE x == PlannedAs(doing[c], card, then)
    <2>1. IsCall(x) /\ x.ask = a /\ x.id = doing[c].id /\ x.before = doing[c].before /\ x.end = doing[c].end /\ x.card = card
      BY <1>2, PlanSet, PlanMore
    <2>2. Register!Goes(c, step, x, next) /\ next # {}
      BY <1>9
    <2> HIDE DEF x
    <2> QED BY <1>7, <1>9, <2>1, <2>2
  <1>10. CASE /\ a.kind = "agent.create" \/ (a.kind = "agent.normalize" /\ ~a.dry)
              /\ Register!Goes(c, step, PlannedAs(doing[c], Register!NewCard(a), "insertManifest"), {"assertAgent"})
    <2>1. ~a.dry /\ (a.kind # "agent.normalize" /\ a.mode # Same => ModeAsked(a, Register!NewCard(a)))
      BY <1>2, <1>3, <1>10, PlansAsked
    <2> QED BY <1>9, <1>10, <2>1
  <1>11. CASE /\ a.kind = "agent.update"
              /\ Register!Goes(c, step, PlannedAs(doing[c], Register!Updates(a, seen), "writeManifest"), {"reread"})
    <2>1. ~a.dry /\ (a.mode # Same => ModeAsked(a, Register!Updates(a, seen)))
      BY <1>2, <1>11, PlansAsked
    <2> QED BY <1>9, <1>11, <2>1
  <1>12. CASE /\ a.kind = "agent.normalize" /\ ~a.dry
              /\ Register!Goes(c, step, PlannedAs(doing[c], Register!RosterCard(a), "writeManifest"), {"reread"})
    BY <1>9, <1>12
  <1> HIDE DEF a, step
  <1> QED BY <1>4, <1>6, <1>8, <1>10, <1>11, <1>12

LEMMA RereadFar ==
    ASSUME RegistryInv, NEW c \in Clients, Far(c), Register!RereadManifest(c)
    PROVE  Far(c)'
  <1> DEFINE step == "reread"
  <1>1. step \in doing[c].todo /\ UNCHANGED Register!tables
    BY DEF Register!RereadManifest, Register!At
  <1>2. /\ IsCall(doing[c]) /\ OnRoute(step, doing[c].ask) /\ Lone(doing[c]) /\ CallsFit /\ CardKept(doing[c])
        /\ Ready(step, doing[c], been)
    BY <1>1, FarAt
  <1>3. doing[c].ask.kind \in {"agent.create", "agent.update", "agent.normalize"}
    BY <1>2 DEF OnRoute, OfManifests
  <1>4. PICK held :
          \/ Register!Ends(c, step, "thrown")
          \/ Register!Goes(c, step, [doing[c] EXCEPT !.card = Register!CardOf(held, doing[c].card)],
                           Register!ThenRouter(doing[c], Register!CardOf(held, doing[c].card)))
    BY DEF Register!RereadManifest
  <1> DEFINE card == Register!CardOf(held, doing[c].card)
             next == Register!ThenRouter(doing[c], card)
             x == [doing[c] EXCEPT !.card = card]
  <1>5. step \notin LegSteps /\ step \notin EntityLeg /\ step # "linkRows" /\ step # "writeDossier" /\ step \in OfManifests
    BY DEF LegSteps, EntityLeg, OfManifests
  <1>6. CASE Register!Ends(c, step, "thrown")
    BY <1>1, <1>5, <1>6, EndsFar
  <1>7. CASE Register!Goes(c, step, x, next)
    <2>1. PICK s : s \in {"assertRouter", "writeManifest"} /\ next = {s}
      BY <1>2 DEF Ready, Register!ThenRouter
    <2> HIDE DEF next, card
    <2>2. /\ IsCall(x) /\ x.ask = doing[c].ask /\ x.id = doing[c].id /\ x.before = doing[c].before /\ x.end = doing[c].end
          /\ x.card = card
      BY <1>2 DEF IsCall
    <2> HIDE DEF x
    <2>3. (\A t \in next : OnRoute(t, x.ask)) /\ OneEach(next) /\ next \cap Early = {} /\ next # {}
      BY <1>2, <2>1, <2>2, ThenRouterFar DEF OneEach, EntityLeg
    <2>4. Follows(step, next, x.ask)
      BY <1>5, <2>3 DEF Follows
    <2>5. Kept(doing[c])' /\ RowsKept(doing[c])' /\ ProjectKept(doing[c])'
          /\ (doing[c].ask.kind = "agent.normalize" => CardKept(doing[c])')
      BY <1>1, <1>3, <1>5, <1>7, <2>2, <2>3, <2>4, LooksOn
    <2> PICK k : k = doing[c]
      OBVIOUS
    <2> PICK m : m = doing'[c]
      OBVIOUS
    <2>6. m.todo = (k.todo \ {step}) \cup next /\ m.ask = k.ask /\ m.card = card /\ m.end = k.end
      BY <1>2, <1>7, <2>2, GoingOn
    <2>7. k.ask.kind # "agent.normalize" => CardKept(m)'
      <3> SUFFICES ASSUME k.ask.kind # "agent.normalize", m.ask.mode # Same, m.end = "none"
                   PROVE  ModeAsked(m.ask, m.card)
        BY <2>3, <2>6 DEF CardKept
      <3>1. ModeAsked(k.ask, k.card)
        BY <1>1, <1>2, <1>3, <1>5, <2>6 DEF CardKept
      <3> QED BY <2>6, <3>1, PlansAsked DEF card
    <2> QED BY <2>5, <2>7 DEF Far, AsFar
  <1> QED BY <1>4, <1>6, <1>7

LEMMA WritesManifestFar ==
    ASSUME RegistryInv, NEW c \in Clients, Far(c),
           Register!createAgentCapabilityManifest(c) \/ Register!updateAgentCapabilityManifest(c)
    PROVE  Far(c)'
  <1> DEFINE next == {}
  <1>1. PICK step \in {"insertManifest", "writeManifest"} :
          /\ step \in doing[c].todo /\ entities' = entities /\ dossiers' = dossiers /\ links' = links
          /\ \/ Register!Ends(c, step, "thrown") /\ UNCHANGED Register!tables
             \/ manifests' = [manifests EXCEPT ![doing[c].id] = doing[c].card] /\ Register!Goes(c, step, doing[c], next)
    BY DEF Register!createAgentCapabilityManifest, Register!updateAgentCapabilityManifest, Register!At, Register!tables
  <1>2. /\ IsCall(doing[c]) /\ OnRoute(step, doing[c].ask) /\ Shaped /\ Lone(doing[c]) /\ CallsFit /\ CardKept(doing[c])
        /\ Ready(step, doing[c], been)
    BY <1>1, FarAt DEF RegistryInv
  <1>3. doing[c].ask.kind \in {"agent.create", "agent.update", "agent.normalize"} /\ doing[c].id \in EntityIds
    BY <1>2 DEF OnRoute, OfManifests, Ready, Identified, OfAgent
  <1>4. /\ step \notin LegSteps /\ step \notin EntityLeg /\ step # "linkRows" /\ step # "writeDossier" /\ step \in OfManifests
        /\ step \notin {"find", "findAlias", "readManifest"}
    BY DEF LegSteps, EntityLeg, OfManifests
  <1>5. (\A s \in next : OnRoute(s, doing[c].ask)) /\ Follows(step, next, doing[c].ask) /\ next \cap Early = {} /\ next = {}
    BY DEF Follows
  <1> HIDE DEF next
  <1>6. CASE Register!Ends(c, step, "thrown") /\ UNCHANGED Register!tables
    BY <1>1, <1>4, <1>6, EndsFar
  <1>7. CASE manifests' = [manifests EXCEPT ![doing[c].id] = doing[c].card] /\ Register!Goes(c, step, doing[c], next)
    <2>1. /\ manifests'[doing[c].id] = doing[c].card
          /\ \A j \in EntityIds : j # doing[c].id => /\ dossiers'[j] = dossiers[j] /\ manifests'[j] = manifests[j]
                                                     /\ (entities[j] # None => entities'[j] = entities[j])
      BY <1>1, <1>2, <1>3, <1>7 DEF Shaped
    <2>2. Kept(doing[c])' /\ RowsKept(doing[c])' /\ ProjectKept(doing[c])'
          /\ (doing[c].ask.kind = "agent.normalize" => CardKept(doing[c])')
      BY <1>1, <1>2, <1>3, <1>4, <1>5, <1>7, <2>1, WritesOn
    <2> PICK k : k = doing[c]
      OBVIOUS
    <2> PICK m : m = doing'[c]
      OBVIOUS
    <2>3. m.todo = (k.todo \ {step}) \cup next /\ m.ask = k.ask /\ m.card = k.card /\ m.end = k.end /\ m.id = k.id
      BY <1>2, <1>7, GoingOn
    <2>4. k.ask.kind # "agent.normalize" => CardKept(m)'
      <3> SUFFICES ASSUME k.ask.kind # "agent.normalize", m.ask.mode # Same, m.end = "none"
                   PROVE  ModeAsked(m.ask, m.card) /\ ModeAsked(m.ask, manifests'[m.id])
        BY DEF CardKept
      <3>1. ModeAsked(k.ask, k.card)
        BY <1>1, <1>2, <1>3, <1>4, <2>3 DEF CardKept
      <3> QED BY <2>1, <2>3, <3>1
    <2> QED BY <2>2, <2>4 DEF Far, AsFar
  <1> QED BY <1>1, <1>6, <1>7

LEMMA RelateFar ==
    ASSUME RegistryInv, NEW c \in Clients, Far(c), Register!createRelation(c)
    PROVE  Far(c)'
  <1> DEFINE next == {"writeRelation"}
             step == "relate"
  <1>1. /\ step \in doing[c].todo /\ UNCHANGED Register!tables
        /\ Register!Ends(c, step, "refused") \/ Register!Goes(c, step, doing[c], next)
    BY DEF Register!createRelation, Register!At
  <1>2. IsCall(doing[c]) /\ OnRoute(step, doing[c].ask)
    BY <1>1, FarAt
  <1>3. doing[c].ask.kind = "relate" /\ ~doing[c].ask.dry
    BY <1>2 DEF OnRoute
  <1>4. step \notin LegSteps /\ step \notin EntityLeg /\ step # "linkRows" /\ step # "writeDossier" /\ step \in Early
    BY DEF LegSteps, EntityLeg, Early
  <1>5. (\A s \in next : OnRoute(s, doing[c].ask)) /\ OneEach(next) /\ next \cap Early = {}
    BY <1>3 DEF OnRoute, OneEach, EntityLeg, OfManifests, OfBackfill, Early
  <1>6. Follows(step, next, doing[c].ask)
    BY <1>4, <1>5 DEF Follows
  <1> HIDE DEF next
  <1>7. CASE Register!Ends(c, step, "refused")
    BY <1>1, <1>4, <1>7, EndsFar
  <1>8. CASE Register!Goes(c, step, doing[c], next)
    BY <1>1, <1>2, <1>3, <1>4, <1>5, <1>6, <1>8, LooksOn DEF Far, AsFar
  <1> QED BY <1>1, <1>7, <1>8

LEMMA WritesRelationFar ==
    ASSUME RegistryInv, NEW c \in Clients, Far(c), Register!WriteRelation(c)
    PROVE  Far(c)'
  <1> DEFINE next == {}
             step == "writeRelation"
  <1>1. /\ step \in doing[c].todo /\ Register!Goes(c, step, doing[c], next)
        /\ entities' = entities /\ dossiers' = dossiers /\ manifests' = manifests /\ links' = links
    BY DEF Register!WriteRelation, Register!At
  <1>2. IsCall(doing[c]) /\ OnRoute(step, doing[c].ask)
    BY <1>1, FarAt
  <1>3. doing[c].ask.kind = "relate"
    BY <1>2 DEF OnRoute
  <1>4. step \notin LegSteps /\ step # "linkRows" /\ step \notin {"find", "findAlias", "readManifest"}
    BY DEF LegSteps
  <1>5. (\A s \in next : OnRoute(s, doing[c].ask)) /\ Follows(step, next, doing[c].ask) /\ next \cap Early = {} /\ next = {}
    BY DEF Follows
  <1>6. \A j \in EntityIds : j # doing[c].id => /\ dossiers'[j] = dossiers[j] /\ manifests'[j] = manifests[j]
                                                /\ (entities[j] # None => entities'[j] = entities[j])
    BY <1>1
  <1> HIDE DEF step, next
  <1>7. Kept(doing[c])' /\ RowsKept(doing[c])' /\ ProjectKept(doing[c])' /\ CardKept(doing[c])'
    BY <1>1, <1>2, <1>3, <1>4, <1>5, <1>6, WritesOn
  <1> QED BY <1>7 DEF Far, AsFar

LEMMA FindBothFar ==
    ASSUME RegistryInv, NEW c \in Clients, Far(c), Register!FindBoth(c)
    PROVE  Far(c)'
  <1> DEFINE next == {"writeLink"}
             step == "link"
             x == [doing[c] EXCEPT !.id = doing[c].ask.id]
  <1>1. /\ step \in doing[c].todo /\ UNCHANGED Register!tables
        /\ Register!Ends(c, step, "refused") \/ Register!Goes(c, step, x, next)
    BY DEF Register!FindBoth, Register!At
  <1>2. IsCall(doing[c]) /\ OnRoute(step, doing[c].ask)
    BY <1>1, FarAt
  <1>3. doing[c].ask.kind = "link" /\ ~doing[c].ask.dry
    BY <1>2 DEF OnRoute
  <1>4. IsCall(x) /\ x.ask = doing[c].ask /\ x.before = doing[c].before /\ x.end = doing[c].end
    BY <1>2 DEF IsCall
  <1> HIDE DEF x
  <1>5. step \notin LegSteps /\ step \notin EntityLeg /\ step # "linkRows" /\ step # "writeDossier" /\ step \in Early
    BY DEF LegSteps, EntityLeg, Early
  <1>6. (\A s \in next : OnRoute(s, x.ask)) /\ OneEach(next) /\ next \cap Early = {}
    BY <1>3, <1>4 DEF OnRoute, OneEach, EntityLeg, OfManifests, OfBackfill, Early
  <1>7. Follows(step, next, x.ask)
    BY <1>5, <1>6 DEF Follows
  <1> HIDE DEF next
  <1>8. CASE Register!Ends(c, step, "refused")
    BY <1>1, <1>5, <1>8, EndsFar
  <1>9. CASE Register!Goes(c, step, x, next)
    BY <1>1, <1>3, <1>4, <1>5, <1>6, <1>7, <1>9, LooksOn DEF Far, AsFar
  <1> QED BY <1>1, <1>8, <1>9

LEMMA LinkFar ==
    ASSUME RegistryInv, NEW c \in Clients, Far(c), Register!linkObservationToEntity(c)
    PROVE  Far(c)'
  <1> DEFINE next == {}
             step == "writeLink"
  <1>1. /\ step \in doing[c].todo /\ Register!Goes(c, step, doing[c], next)
        /\ entities' = entities /\ dossiers' = dossiers /\ manifests' = manifests
    BY DEF Register!linkObservationToEntity, Register!At
  <1>2. IsCall(doing[c]) /\ OnRoute(step, doing[c].ask) /\ CallsFit
    BY <1>1, FarAt
  <1>3. doing[c].ask.kind = "link"
    BY <1>2 DEF OnRoute
  <1>4. step \notin LegSteps /\ step # "linkRows" /\ step \notin {"find", "findAlias", "readManifest"}
    BY DEF LegSteps
  <1>5. (\A s \in next : OnRoute(s, doing[c].ask)) /\ Follows(step, next, doing[c].ask) /\ next \cap Early = {} /\ next = {}
    BY DEF Follows
  <1>6. \A j \in EntityIds : j # doing[c].id => /\ dossiers'[j] = dossiers[j] /\ manifests'[j] = manifests[j]
                                                /\ (entities[j] # None => entities'[j] = entities[j])
    BY <1>1
  <1> HIDE DEF step, next
  <1>7. Kept(doing[c])' /\ ProjectKept(doing[c])' /\ CardKept(doing[c])'
    BY <1>1, <1>2, <1>3, <1>4, <1>5, <1>6, WritesOn
  <1> PICK m : m = doing'[c]
    OBVIOUS
  <1>8. m.ask.kind = "link"
    BY <1>1, <1>2, <1>3, GoingOn
  <1>9. RowsKept(m)'
    BY <1>8 DEF RowsKept
  <1> QED BY <1>7, <1>9 DEF Far, AsFar

-----------------------------------------------------------------------------
LEMMA TagsFar ==
    ASSUME RegistryInv, NEW c \in Clients, Far(c), Register!queryEntityTagsForBackfill(c)
    PROVE  Far(c)'
  <1> DEFINE step == "readTags"
  <1>1. step \in doing[c].todo /\ UNCHANGED Register!tables
    BY DEF Register!queryEntityTagsForBackfill, Register!At
  <1>2. /\ IsCall(doing[c]) /\ OnRoute(step, doing[c].ask) /\ Lone(doing[c]) /\ CallsFit /\ Kept(doing[c])
        /\ Ready(step, doing[c], been)
    BY <1>1, FarAt
  <1>3. doing[c].ask.kind = "backfill" /\ ~doing[c].ask.dry /\ DOMAIN doing[c].of = {}
    BY <1>2 DEF OnRoute, OfBackfill, Ready
  <1>4. PICK listed \in SUBSET Register!Unlinked :
          /\ Register!Cardinality(listed) = Register!Min({Batch, Register!Cardinality(Register!Unlinked)})
          /\ \/ Register!Ends(c, step, "refused")
             \/ Register!Goes(c, step, [doing[c] EXCEPT !.rows = listed], IF listed = {} THEN {} ELSE {"resolve"})
    BY DEF Register!queryEntityTagsForBackfill
  <1> DEFINE next == IF listed = {} THEN {} ELSE {"resolve"}
             x == [doing[c] EXCEPT !.rows = listed]
  <1>5. step \notin LegSteps /\ step \notin EntityLeg /\ step # "linkRows" /\ step # "writeDossier" /\ step \in Early
    BY DEF LegSteps, EntityLeg, Early
  <1>6. CASE Register!Ends(c, step, "refused")
    BY <1>1, <1>5, <1>6, EndsFar
  <1>7. CASE Register!Goes(c, step, x, next)
    <2>1. next \in {{}, {"resolve"}} /\ (next = {} => listed = {})
      OBVIOUS
    <2> HIDE DEF next
    <2>2. /\ IsCall(x) /\ x.ask = doing[c].ask /\ x.before = doing[c].before /\ x.end = doing[c].end /\ x.id = doing[c].id
          /\ x.rows = listed /\ x.of = doing[c].of
      BY <1>2 DEF IsCall
    <2> HIDE DEF x
    <2>3. (\A s \in next : OnRoute(s, x.ask)) /\ OneEach(next) /\ next \cap Early = {}
      BY <1>3, <2>1, <2>2 DEF OnRoute, OneEach, EntityLeg, OfManifests, OfBackfill, Early
    <2>4. Follows(step, next, x.ask)
      BY <1>5, <2>3 DEF Follows
    <2>5. Kept(doing[c])' /\ ProjectKept(doing[c])' /\ CardKept(doing[c])'
      BY <1>1, <1>3, <1>5, <1>7, <2>2, <2>3, <2>4, LooksOn
    <2> PICK k : k = doing[c]
      OBVIOUS
    <2> PICK m : m = doing'[c]
      OBVIOUS
    <2>6. /\ m.todo = (k.todo \ {step}) \cup next /\ m.ask = k.ask /\ m.before = k.before /\ m.rows = listed /\ m.of = k.of
      BY <1>2, <1>7, <2>2, GoingOn
    <2>7. m.todo = next
      BY <1>1, <1>2, <1>5, <2>6 DEF Lone
    <2>8. m.before.links = links /\ links' = links
      <3>1. k.before = Filed
        BY <1>1, <1>2, <1>5 DEF Kept, Quiet
      <3> QED BY <1>1, <2>6, <3>1 DEF Filed, Register!tables
    <2>9. OpenTo(m) = Register!Unlinked /\ OpenTo(m)' = OpenTo(m)
      BY <2>8 DEF OpenTo, Register!Unlinked
    <2>10. LinkedBy(m)' = {}
      BY <2>8, <2>9 DEF LinkedBy, OpenTo
    <2>11. LinkedBy(m)' \cup m.rows = listed
      BY <2>6, <2>10
    <2>12. Register!Cardinality(LinkedBy(m)' \cup m.rows) = Register!Min({Batch, Register!Cardinality(OpenTo(m)')})
      BY <1>4, <2>9, <2>11
    <2>13. m.rows \subseteq OpenTo(m)' /\ (m.todo = {} => m.rows = {}) /\ DOMAIN m.of = {} /\ "insertTag" \notin m.todo
      BY <1>3, <2>1, <2>6, <2>7, <2>9
    <2>14. \A o \in Obs : links'[o] = m.before.links[o]
      BY <2>8
    <2>15. RowsKept(m)'
      BY <2>10, <2>12, <2>13, <2>14 DEF RowsKept
    <2> QED BY <2>5, <2>15 DEF Far, AsFar
  <1> QED BY <1>4, <1>6, <1>7

\* A tag resolved adds to what a backfill knows, and the rows or the next tag come after it.
LEMMA ResolvesSo ==
    ASSUME NEW k, IsCall(k), NEW tag, NEW i, NEW m, m = Register!Resolves(k, tag, i)
    PROVE  /\ IsCall(m) /\ m.ask = k.ask /\ m.before = k.before /\ m.end = k.end /\ m.id = k.id /\ m.rows = k.rows
           /\ DOMAIN m.of = DOMAIN k.of \cup {tag}
           /\ \A t \in DOMAIN m.of : m.of[t] = IF t = tag THEN i ELSE k.of[t]
           /\ Register!AfterTag(m) \in {{"linkRows"}, {"resolve"}}
  <1> DEFINE of == [t \in DOMAIN k.of \cup {tag} |-> IF t = tag THEN i ELSE k.of[t]]
  <1>1. m = [k EXCEPT !.of = of]
    BY DEF Register!Resolves
  <1>2. DOMAIN of = DOMAIN k.of \cup {tag} /\ \A t \in DOMAIN of : of[t] = IF t = tag THEN i ELSE k.of[t]
    OBVIOUS
  <1> HIDE DEF of
  <1>3. /\ IsCall(m) /\ m.ask = k.ask /\ m.before = k.before /\ m.end = k.end /\ m.id = k.id /\ m.rows = k.rows /\ m.of = of
    BY <1>1 DEF IsCall
  <1>4. Register!AfterTag(m) \in {{"linkRows"}, {"resolve"}}
    BY DEF Register!AfterTag
  <1> QED BY <1>2, <1>3, <1>4

\* A backfill under way.
LEMMA BackfillAt ==
    ASSUME RegistryInv, NEW c \in Clients, Far(c), NEW step \in {"resolve", "insertTag", "linkRows"}, step \in doing[c].todo
    PROVE  /\ IsCall(doing[c]) /\ CallsFit /\ doing[c].todo = {step}
           /\ doing[c].ask.kind = "backfill" /\ ~doing[c].ask.dry /\ doing[c].end = "none"
           /\ Ready(step, doing[c], been) /\ RowsKept(doing[c])
           /\ doing[c].rows \subseteq OpenTo(doing[c])
           /\ step \notin LegSteps /\ step \notin EntityLeg /\ step # "writeDossier" /\ step \notin {"find", "findAlias", "readManifest"}
           /\ step \notin Early
  <1>1. /\ IsCall(doing[c]) /\ OnRoute(step, doing[c].ask) /\ Lone(doing[c]) /\ CallsFit /\ Kept(doing[c])
        /\ Ready(step, doing[c], been) /\ RowsKept(doing[c])
    BY FarAt
  <1>2. doing[c].ask.kind = "backfill" /\ ~doing[c].ask.dry
    BY <1>1 DEF OnRoute, OfBackfill
  <1>3. /\ step \notin LegSteps /\ step \notin EntityLeg /\ step # "writeDossier" /\ step \notin {"find", "findAlias", "readManifest"}
        /\ step \notin Early /\ step # "readTags"
    BY DEF LegSteps, EntityLeg, Early
  <1>4. doing[c].todo = {step}
    BY <1>1, <1>2 DEF Lone
  <1>5. doing[c].end = "none"
    BY <1>1, <1>2 DEF Kept, Running
  <1>6. doing[c].rows \subseteq OpenTo(doing[c])
    BY <1>1, <1>2, <1>3, <1>4, <1>5 DEF RowsKept
  <1> QED BY <1>1, <1>2, <1>3, <1>4, <1>5, <1>6

\* An entity that is there keeps its name while others are written.
LEMMA NamesStay ==
    ASSUME NEW k, IsCall(k), k.ask.kind = "backfill", k.end = "none", "readTags" \notin k.todo, k.todo # {}, RowsKept(k),
           NEW m, m.ask = k.ask, m.before = k.before, m.rows = k.rows, m.todo # {}, links' = links,
           \A i \in EntityIds : entities[i] # None => entities'[i] = entities[i],
           \A t \in DOMAIN m.of : NamedBy(m.of[t], t)',
           "insertTag" \in m.todo => m.tag \in Titles
    PROVE  RowsKept(m)'
  <1>1. OpenTo(m)' = OpenTo(k) /\ LinkedBy(m)' = LinkedBy(k)
    BY DEF OpenTo, LinkedBy
  <1>2. /\ k.rows \subseteq OpenTo(k)
        /\ Register!Cardinality(LinkedBy(k) \cup k.rows) = Register!Min({Batch, Register!Cardinality(OpenTo(k))})
        /\ \A o \in LinkedBy(k) : NamedBy(links[o], Tags[o][1])
        /\ \A o \in Obs : links[o] = k.before.links[o] \/ o \in OpenTo(k)
    BY DEF RowsKept
  <1>3. \A o \in LinkedBy(m)' : NamedBy(links[o], Tags[o][1])'
    BY <1>1, <1>2 DEF NamedBy
  <1>4. \A o \in Obs : links'[o] = m.before.links[o] \/ o \in OpenTo(m)'
    BY <1>1, <1>2
  <1>5. m.rows \subseteq OpenTo(m)'
    BY <1>1, <1>2
  <1>6. Register!Cardinality(LinkedBy(m)' \cup m.rows) = Register!Min({Batch, Register!Cardinality(OpenTo(m)')})
    BY <1>1, <1>2
  <1> QED BY <1>3, <1>4, <1>5, <1>6 DEF RowsKept

\* A title whose entity is there is that entity's.
LEMMA NamedSo ==
    ASSUME NEW title, Register!Named(title) # None
    PROVE  NamedBy(Register!Named(title), title)
  <1>1. None \notin EntityIds
    BY RegisterAssumed DEF Register!RegistryAssumption
  <1>2. Register!Taken(title, None)
    BY DEF Register!Named
  <1>3. \E i \in EntityIds : entities[i] # None /\ Folded[entities[i].name] = Folded[title]
    BY <1>2 DEF Register!Taken
  <1>4. Register!Named(title) = CHOOSE i \in EntityIds : entities[i] # None /\ Folded[entities[i].name] = Folded[title]
    BY <1>2 DEF Register!Named
  <1> QED BY <1>3, <1>4 DEF NamedBy

LEMMA ResolveFar ==
    ASSUME RegistryInv, NEW c \in Clients, Far(c), mishaps = 0, mishaps' = 0, Register!ResolveTag(c)
    PROVE  Far(c)'
  <1> DEFINE step == "resolve"
  <1>1. step \in doing[c].todo /\ UNCHANGED Register!tables
    BY DEF Register!ResolveTag, Register!At
  <1>2. /\ IsCall(doing[c]) /\ CallsFit /\ doing[c].todo = {step}
        /\ doing[c].ask.kind = "backfill" /\ ~doing[c].ask.dry /\ doing[c].end = "none"
        /\ RowsKept(doing[c]) /\ doing[c].rows \subseteq OpenTo(doing[c])
        /\ step \notin LegSteps /\ step \notin Early /\ step # "linkRows"
    BY <1>1, BackfillAt
  <1>3. PICK tag \in Register!Unresolved(doing[c]) :
          \/ /\ Register!Named(tag) # None
             /\ Register!Goes(c, step, Register!Resolves(doing[c], tag, Register!Named(tag)),
                              Register!AfterTag(Register!Resolves(doing[c], tag, Register!Named(tag))))
          \/ Register!Goes(c, step, [doing[c] EXCEPT !.tag = tag], {"insertTag"})
    <2>1. PICK tag \in Register!Unresolved(doing[c]) : \E seen \in {Register!Named(tag), None} :
            IF seen # None THEN Register!Goes(c, step, Register!Resolves(doing[c], tag, seen),
                                              Register!AfterTag(Register!Resolves(doing[c], tag, seen)))
            ELSE Register!Goes(c, step, [doing[c] EXCEPT !.tag = tag], {"insertTag"})
      BY DEF Register!ResolveTag
    <2> QED BY <2>1
  <1>4. tag \in Titles
    <2>1. PICK o \in doing[c].rows : tag \in Register!ToSet(Tags[o])
      BY DEF Register!Unresolved
    <2>2. Tags[o] \in Seq(Titles)
      BY <1>2, <2>1, RegisterAssumed DEF Register!RegistryAssumption, OpenTo
    <2> QED BY <2>1, <2>2 DEF Register!ToSet
  <1>5. ASSUME NEW x, IsCall(x), x.ask = doing[c].ask, x.id = doing[c].id, x.before = doing[c].before, x.end = doing[c].end,
               x.rows = doing[c].rows, \A t \in DOMAIN x.of : NamedBy(x.of[t], t),
               NEW next \in {{"linkRows"}, {"resolve"}, {"insertTag"}}, "insertTag" \in next => x.tag \in Titles,
               Register!Goes(c, step, x, next)
        PROVE  Far(c)'
    <2>1. (\A s \in next : OnRoute(s, x.ask)) /\ OneEach(next) /\ next \cap Early = {}
      BY <1>2, <1>5 DEF OnRoute, OneEach, EntityLeg, OfManifests, OfBackfill, Early
    <2>2. Follows(step, next, x.ask)
      BY <1>2, <2>1 DEF Follows
    <2>3. Kept(doing[c])' /\ ProjectKept(doing[c])' /\ CardKept(doing[c])'
      BY <1>1, <1>2, <1>5, <2>1, <2>2, LooksOn
    <2> PICK k : k = doing[c]
      OBVIOUS
    <2> PICK m : m = doing'[c]
      OBVIOUS
    <2>4. /\ m.todo = (k.todo \ {step}) \cup next /\ m.ask = k.ask /\ m.before = k.before /\ m.rows = k.rows /\ m.of = x.of
          /\ m.tag = x.tag
      BY <1>2, <1>5, GoingOn
    <2>5. m.todo = next /\ m.todo # {}
      BY <1>2, <1>5, <2>4
    <2>6. entities' = entities /\ links' = links
      BY <1>1 DEF Register!tables
    <2>7. \A t \in DOMAIN m.of : NamedBy(m.of[t], t)'
      BY <1>5, <2>4, <2>6 DEF NamedBy
    <2>8. "insertTag" \in m.todo => m.tag \in Titles
      BY <1>5, <2>4, <2>5
    <2>9. k.ask.kind = "backfill" /\ k.end = "none" /\ "readTags" \notin k.todo /\ k.todo # {} /\ RowsKept(k) /\ IsCall(k)
      BY <1>2
    <2>10. RowsKept(m)'
      BY <2>4, <2>5, <2>6, <2>7, <2>8, <2>9, NamesStay
    <2> QED BY <2>3, <2>10 DEF Far, AsFar
  <1>6. \A t \in DOMAIN doing[c].of : NamedBy(doing[c].of[t], t)
    BY <1>2 DEF RowsKept
  <1>7. ASSUME Register!Named(tag) # None, NEW x, x = Register!Resolves(doing[c], tag, Register!Named(tag)),
               Register!Goes(c, step, x, Register!AfterTag(x))
        PROVE  Far(c)'
    <2>1. /\ IsCall(x) /\ x.ask = doing[c].ask /\ x.id = doing[c].id /\ x.before = doing[c].before /\ x.end = doing[c].end
          /\ x.rows = doing[c].rows /\ DOMAIN x.of = DOMAIN doing[c].of \cup {tag}
          /\ \A t \in DOMAIN x.of : x.of[t] = IF t = tag THEN Register!Named(tag) ELSE doing[c].of[t]
          /\ Register!AfterTag(x) \in {{"linkRows"}, {"resolve"}}
      BY <1>2, <1>7, ResolvesSo
    <2>2. \A t \in DOMAIN x.of : NamedBy(x.of[t], t)
      BY <1>6, <1>7, <2>1, NamedSo
    <2>3. "insertTag" \notin Register!AfterTag(x)
      BY <2>1
    <2> QED BY <1>5, <1>7, <2>1, <2>2, <2>3
  <1>8. CASE Register!Goes(c, step, [doing[c] EXCEPT !.tag = tag], {"insertTag"})
    <2> DEFINE x == [doing[c] EXCEPT !.tag = tag]
    <2>1. /\ IsCall(x) /\ x.ask = doing[c].ask /\ x.id = doing[c].id /\ x.before = doing[c].before /\ x.end = doing[c].end
          /\ x.rows = doing[c].rows /\ x.of = doing[c].of /\ x.tag = tag
      BY <1>2 DEF IsCall
    <2>2. Register!Goes(c, step, x, {"insertTag"})
      BY <1>8
    <2> HIDE DEF x
    <2> QED BY <1>4, <1>5, <1>6, <2>1, <2>2
  <1> QED BY <1>3, <1>7, <1>8

LEMMA InsertTagFar ==
    ASSUME RegistryInv, NEW c \in Clients, Far(c), Register!InsertTag(c)
    PROVE  Far(c)'
  <1> DEFINE step == "insertTag"
             row == [name |-> doing[c].tag, type |-> "concept", note |-> None]
  <1>1. step \in doing[c].todo
    BY DEF Register!InsertTag, Register!At
  <1>2. /\ IsCall(doing[c]) /\ CallsFit /\ doing[c].todo = {step}
        /\ doing[c].ask.kind = "backfill" /\ ~doing[c].ask.dry /\ doing[c].end = "none"
        /\ RowsKept(doing[c])
        /\ step \notin LegSteps /\ step \notin EntityLeg /\ step # "writeDossier" /\ step \notin {"find", "findAlias", "readManifest"}
        /\ step # "linkRows"
    BY <1>1, BackfillAt
  <1>3. doing[c].tag \in Titles /\ Shaped /\ (\A t \in DOMAIN doing[c].of : NamedBy(doing[c].of[t], t))
    BY <1>2 DEF RowsKept, RegistryInv
  <1>4. row # None /\ row.name = doing[c].tag
    <2>1. row \in Register!EntityRow /\ None \notin Register!EntityRow
      BY <1>3, RegisterAssumed DEF Register!RegistryAssumption, Register!EntityRow
    <2> QED BY <2>1
  <1> HIDE DEF row
  <1>5. CASE Register!Ends(c, step, "thrown") /\ UNCHANGED Register!tables
    BY <1>1, <1>2, <1>5, EndsFar
  <1>6. ASSUME NEW i \in EntityIds, Register!Fresh(i), entities' = [entities EXCEPT ![i] = row],
               NEW x, x = Register!Resolves(doing[c], doing[c].tag, i),
               Register!Goes(c, step, x, Register!AfterTag(x)), UNCHANGED <<dossiers, manifests, links, relations>>
        PROVE  Far(c)'
    <2> DEFINE next == Register!AfterTag(x)
    <2>1. /\ IsCall(x) /\ x.ask = doing[c].ask /\ x.id = doing[c].id /\ x.before = doing[c].before /\ x.end = doing[c].end
          /\ x.rows = doing[c].rows /\ DOMAIN x.of = DOMAIN doing[c].of \cup {doing[c].tag}
          /\ \A t \in DOMAIN x.of : x.of[t] = IF t = doing[c].tag THEN i ELSE doing[c].of[t]
          /\ next \in {{"linkRows"}, {"resolve"}}
      BY <1>2, <1>6, ResolvesSo
    <2>2. Register!Goes(c, step, x, next) /\ manifests' = manifests /\ dossiers' = dossiers /\ links' = links
      BY <1>6
    <2> HIDE DEF next
    <2>3. (\A s \in next : OnRoute(s, x.ask)) /\ OneEach(next) /\ next \cap Early = {} /\ "insertTag" \notin next
      BY <1>2, <2>1 DEF OnRoute, OneEach, EntityLeg, OfManifests, OfBackfill, Early
    <2>4. Follows(step, next, x.ask)
      BY <1>2, <2>3 DEF Follows
    <2>5. entities'[i] = row /\ \A j \in EntityIds : entities[j] # None => entities'[j] = entities[j]
      BY <1>3, <1>6 DEF Register!Fresh, Shaped
    <2>6. \A j \in EntityIds : j # x.id => /\ dossiers'[j] = dossiers[j] /\ manifests'[j] = manifests[j]
                                          /\ (entities[j] # None => entities'[j] = entities[j])
      BY <2>2, <2>5
    <2>7. Kept(doing[c])' /\ ProjectKept(doing[c])' /\ CardKept(doing[c])'
      BY <1>1, <1>2, <2>1, <2>2, <2>3, <2>4, <2>6, WritesOn
    <2> PICK k : k = doing[c]
      OBVIOUS
    <2> PICK m : m = doing'[c]
      OBVIOUS
    <2>8. /\ m.todo = (k.todo \ {step}) \cup next /\ m.ask = k.ask /\ m.before = k.before /\ m.rows = k.rows /\ m.of = x.of
      BY <1>2, <2>1, <2>2, GoingOn
    <2>9. m.todo # {} /\ "insertTag" \notin m.todo
      BY <1>2, <2>1, <2>3, <2>8
    <2>10. \A t \in DOMAIN m.of : NamedBy(m.of[t], t)'
      BY <1>3, <1>4, <2>1, <2>5, <2>8 DEF NamedBy
    <2>11. k.ask.kind = "backfill" /\ k.end = "none" /\ "readTags" \notin k.todo /\ k.todo # {} /\ RowsKept(k) /\ IsCall(k)
      BY <1>2
    <2>12. RowsKept(m)'
      BY <2>2, <2>5, <2>8, <2>9, <2>10, <2>11, NamesStay
    <2> QED BY <2>7, <2>12 DEF Far, AsFar
  <1> QED BY <1>5, <1>6 DEF Register!InsertTag, Register!tables, Register!Stores, row

LEMMA LinkRowFar ==
    ASSUME RegistryInv, NEW c \in Clients, Far(c), Register!LinkRow(c)
    PROVE  Far(c)'
  <1> DEFINE step == "linkRows"
  <1>1. step \in doing[c].todo
    BY DEF Register!LinkRow, Register!At
  <1>2. /\ IsCall(doing[c]) /\ CallsFit /\ doing[c].todo = {step}
        /\ doing[c].ask.kind = "backfill" /\ ~doing[c].ask.dry /\ doing[c].end = "none"
        /\ RowsKept(doing[c]) /\ doing[c].rows \subseteq OpenTo(doing[c]) /\ Ready(step, doing[c], been)
        /\ step \notin LegSteps /\ step \notin {"find", "findAlias", "readManifest"} /\ step \notin Early
    BY <1>1, BackfillAt
  <1>3. PICK o \in doing[c].rows :
          /\ links' = [links EXCEPT ![o] = doing[c].of[Tags[o][1]]]
          /\ Register!Goes(c, step, [doing[c] EXCEPT !.rows = @ \ {o}], IF doing[c].rows = {o} THEN {} ELSE {"linkRows"})
          /\ entities' = entities /\ dossiers' = dossiers /\ manifests' = manifests
    BY DEF Register!LinkRow
  <1> DEFINE rest == doing[c].rows \ {o}
             x == [doing[c] EXCEPT !.rows = rest]
             next == IF doing[c].rows = {o} THEN {} ELSE {"linkRows"}
  <1>4. Register!Goes(c, step, x, next)
    BY <1>3
  <1>5. next \in {{}, {"linkRows"}} /\ (next = {} => rest = {})
    OBVIOUS
  <1> HIDE DEF rest, next
  <1>6. /\ IsCall(x) /\ x.ask = doing[c].ask /\ x.id = doing[c].id /\ x.before = doing[c].before /\ x.end = doing[c].end
        /\ x.rows = rest /\ x.of = doing[c].of
    BY <1>2 DEF IsCall
  <1> HIDE DEF x
  <1>7. (\A s \in next : OnRoute(s, x.ask)) /\ OneEach(next) /\ next \cap Early = {}
    BY <1>2, <1>5, <1>6 DEF OnRoute, OneEach, EntityLeg, OfManifests, OfBackfill, Early
  <1>8. Follows(step, next, x.ask)
    BY <1>2, <1>7 DEF Follows
  <1>9. \A j \in EntityIds : j # x.id => /\ dossiers'[j] = dossiers[j] /\ manifests'[j] = manifests[j]
                                        /\ (entities[j] # None => entities'[j] = entities[j])
    BY <1>3
  <1>10. Kept(doing[c])' /\ ProjectKept(doing[c])' /\ CardKept(doing[c])'
    <2>1. next \subseteq {"linkRows"}
      BY <1>5
    <2> QED BY <1>1, <1>2, <1>3, <1>4, <1>6, <1>7, <1>8, <1>9, <2>1, WritesOn
  <1> PICK k : k = doing[c]
    OBVIOUS
  <1> PICK m : m = doing'[c]
    OBVIOUS
  <1>11. /\ m.todo = (k.todo \ {step}) \cup next /\ m.ask = k.ask /\ m.before = k.before /\ m.rows = rest /\ m.of = k.of
    BY <1>2, <1>4, <1>6, GoingOn
  <1>12. m.todo = next
    BY <1>2, <1>11
  <1>13. o \in OpenTo(k) /\ o \in Obs /\ NamedBy(k.of[Tags[o][1]], Tags[o][1])
    <2>1. o \in OpenTo(k) /\ Tags[o][1] \in DOMAIN k.of
      BY <1>2, <1>3 DEF Ready
    <2>2. \A t \in DOMAIN k.of : NamedBy(k.of[t], t)
      BY <1>2 DEF RowsKept
    <2> QED BY <2>1, <2>2 DEF OpenTo
  <1>14. /\ links'[o] = k.of[Tags[o][1]] /\ links'[o] # None
         /\ \A p \in Obs : p # o => links'[p] = links[p]
    <2>1. None \notin EntityIds /\ links = [p \in Obs |-> links[p]]
      BY RegisterAssumed DEF Register!RegistryAssumption, RegistryInv, Shaped
    <2> QED BY <1>3, <1>13, <2>1 DEF NamedBy
  <1>15. OpenTo(m)' = OpenTo(k)
    BY <1>11 DEF OpenTo
  <1>16. LinkedBy(m)' = LinkedBy(k) \cup {o}
    BY <1>13, <1>14, <1>15 DEF LinkedBy, OpenTo
  <1>17. LinkedBy(m)' \cup m.rows = LinkedBy(k) \cup k.rows
    BY <1>3, <1>11, <1>16 DEF rest
  <1>18. /\ Register!Cardinality(LinkedBy(k) \cup k.rows) = Register!Min({Batch, Register!Cardinality(OpenTo(k))})
         /\ \A p \in LinkedBy(k) : NamedBy(links[p], Tags[p][1])
         /\ \A p \in Obs : links[p] = k.before.links[p] \/ p \in OpenTo(k)
         /\ \A t \in DOMAIN k.of : NamedBy(k.of[t], t)
    BY <1>2 DEF RowsKept
  <1>19. \A p \in LinkedBy(m)' : NamedBy(links[p], Tags[p][1])'
    <2> SUFFICES ASSUME NEW p \in LinkedBy(k) \cup {o} PROVE NamedBy(links[p], Tags[p][1])'
      BY <1>16
    <2>1. p \in Obs
      BY <1>13 DEF LinkedBy, OpenTo
    <2>2. CASE p = o
      BY <1>3, <1>13, <1>14, <2>2 DEF NamedBy
    <2>3. CASE p # o
      BY <1>3, <1>14, <1>18, <2>1, <2>3 DEF NamedBy
    <2> QED BY <2>2, <2>3
  <1>20. RowsKept(m)'
    <2>1. \A p \in Obs : links'[p] = m.before.links[p] \/ p \in OpenTo(m)'
      BY <1>11, <1>13, <1>14, <1>15, <1>18
    <2>2. m.rows \subseteq OpenTo(m)' /\ (m.todo = {} => m.rows = {}) /\ "insertTag" \notin m.todo
      BY <1>2, <1>5, <1>11, <1>12, <1>15 DEF rest
    <2>3. Register!Cardinality(LinkedBy(m)' \cup m.rows) = Register!Min({Batch, Register!Cardinality(OpenTo(m)')})
      BY <1>15, <1>17, <1>18
    <2>4. \A t \in DOMAIN m.of : NamedBy(m.of[t], t)'
      BY <1>3, <1>11, <1>18 DEF NamedBy
    <2> QED BY <1>19, <2>1, <2>2, <2>3, <2>4 DEF RowsKept
  <1> QED BY <1>10, <1>20 DEF Far, AsFar

-----------------------------------------------------------------------------
\* The steps of a call that has been asked.
Works(c) ==
  \/ Register!FindFree(c) \/ Register!FindEntity(c) \/ Register!FindProject(c) \/ Register!FindAgent(c)
  \/ Register!RefuseRoster(c) \/ Register!FindResident(c, "find") \/ Register!FindResident(c, "findAlias")
  \/ Register!createEntity(c) \/ Register!ReadEntity(c) \/ Register!updateEntity(c)
  \/ Register!AssertProject(c) \/ Register!createProjectDossier(c) \/ Register!ReadBase(c)
  \/ Register!ReadDossier(c) \/ Register!updateProjectDossier(c)
  \/ Register!ReadManifest(c) \/ Register!RereadManifest(c) \/ Register!AssertAgent(c) \/ Register!AssertRouter(c)
  \/ Register!createAgentCapabilityManifest(c) \/ Register!updateAgentCapabilityManifest(c)
  \/ Register!createRelation(c) \/ Register!WriteRelation(c) \/ Register!FindBoth(c)
  \/ Register!linkObservationToEntity(c)
  \/ Register!queryEntityTagsForBackfill(c) \/ Register!ResolveTag(c) \/ Register!InsertTag(c) \/ Register!LinkRow(c)
  \/ \E step \in Register!Throwing : Register!StatementFails(c, step)

LEMMA WorksFar ==
    ASSUME RegistryInv, NEW c \in Clients, Far(c), mishaps = 0, mishaps' = 0, Works(c)
    PROVE  Far(c)'
  <1>1. ASSUME \/ Register!FindFree(c) \/ Register!FindEntity(c) \/ Register!FindProject(c) \/ Register!FindAgent(c)
               \/ Register!RefuseRoster(c) \/ Register!FindResident(c, "find") \/ Register!FindResident(c, "findAlias")
        PROVE  Far(c)'
    BY <1>1, FreeFar, FoundFar, ProjectFar, AgentFar, RosterFar, ResidentFar
  <1>2. ASSUME \/ Register!createEntity(c) \/ Register!ReadEntity(c) \/ Register!updateEntity(c)
               \/ Register!AssertProject(c) \/ Register!createProjectDossier(c) \/ Register!ReadBase(c)
               \/ Register!ReadDossier(c) \/ Register!updateProjectDossier(c)
        PROVE  Far(c)'
    BY <1>2, CreateFar, ReadEntityFar, UpdateFar, AssertProjectFar, DossierFar, BaseFar, ReadDossierFar, WriteDossierFar
  <1>3. ASSUME \/ Register!ReadManifest(c) \/ Register!RereadManifest(c) \/ Register!AssertAgent(c) \/ Register!AssertRouter(c)
               \/ Register!createAgentCapabilityManifest(c) \/ Register!updateAgentCapabilityManifest(c)
        PROVE  Far(c)'
    BY <1>3, ManifestFar, RereadFar, AssertAgentFar, AssertRouterFar, WritesManifestFar
  <1>4. ASSUME \/ Register!createRelation(c) \/ Register!WriteRelation(c) \/ Register!FindBoth(c)
               \/ Register!linkObservationToEntity(c)
               \/ Register!queryEntityTagsForBackfill(c) \/ Register!ResolveTag(c) \/ Register!InsertTag(c) \/ Register!LinkRow(c)
        PROVE  Far(c)'
    BY <1>4, RelateFar, WritesRelationFar, FindBothFar, LinkFar, TagsFar, ResolveFar, InsertTagFar, LinkRowFar
  <1>5. ASSUME NEW step, Register!StatementFails(c, step) PROVE FALSE
    BY <1>5 DEF Register!StatementFails, Register!Mishap
  <1> QED BY <1>1, <1>2, <1>3, <1>4, <1>5 DEF Works

LEMMA WorksAsked ==
    ASSUME RegistryInv, NEW c \in Clients, Works(c)
    PROVE  doing[c].ask # None
  <1>1. ASSUME \/ Register!FindFree(c) \/ Register!FindEntity(c) \/ Register!FindProject(c) \/ Register!FindAgent(c)
               \/ Register!RefuseRoster(c) \/ Register!FindResident(c, "find") \/ Register!FindResident(c, "findAlias")
        PROVE  doing[c].todo # {}
    <2>1. Register!FindFree(c) \/ Register!FindEntity(c) \/ Register!RefuseRoster(c) => doing[c].todo # {}
      BY DEF Register!At, Register!FindFree, Register!FindEntity, Register!RefuseRoster
    <2>2. Register!FindProject(c) => doing[c].todo # {}
      BY DEF Register!At, Register!FindProject
    <2>3. Register!FindAgent(c) => doing[c].todo # {}
      BY DEF Register!At, Register!FindAgent
    <2>4. ASSUME NEW step, Register!FindResident(c, step) PROVE doing[c].todo # {}
      BY <2>4 DEF Register!At, Register!FindResident
    <2> QED BY <1>1, <2>1, <2>2, <2>3, <2>4
  <1>2. ASSUME \/ Register!createEntity(c) \/ Register!ReadEntity(c) \/ Register!updateEntity(c)
               \/ Register!AssertProject(c) \/ Register!createProjectDossier(c) \/ Register!ReadBase(c)
               \/ Register!ReadDossier(c) \/ Register!updateProjectDossier(c)
        PROVE  doing[c].todo # {}
    BY <1>2 DEF Register!At, Register!createEntity, Register!ReadEntity, Register!updateEntity, Register!AssertProject,
                Register!createProjectDossier, Register!ReadBase, Register!ReadDossier, Register!updateProjectDossier
  <1>3. ASSUME \/ Register!ReadManifest(c) \/ Register!RereadManifest(c) \/ Register!AssertAgent(c) \/ Register!AssertRouter(c)
               \/ Register!createAgentCapabilityManifest(c) \/ Register!updateAgentCapabilityManifest(c)
        PROVE  doing[c].todo # {}
    BY <1>3 DEF Register!At, Register!ReadManifest, Register!RereadManifest, Register!AssertAgent, Register!AssertRouter,
                Register!createAgentCapabilityManifest, Register!updateAgentCapabilityManifest
  <1>4. ASSUME \/ Register!createRelation(c) \/ Register!WriteRelation(c) \/ Register!FindBoth(c)
               \/ Register!linkObservationToEntity(c)
               \/ Register!queryEntityTagsForBackfill(c) \/ Register!ResolveTag(c) \/ Register!InsertTag(c) \/ Register!LinkRow(c)
        PROVE  doing[c].todo # {}
    BY <1>4 DEF Register!At, Register!createRelation, Register!WriteRelation, Register!FindBoth, Register!linkObservationToEntity,
                Register!queryEntityTagsForBackfill, Register!ResolveTag, Register!InsertTag, Register!LinkRow
  <1>5. ASSUME NEW step, Register!StatementFails(c, step) PROVE doing[c].todo # {}
    BY <1>5 DEF Register!StatementFails, Register!At
  <1>6. doing[c].todo # {}
    BY <1>1, <1>2, <1>3, <1>4, <1>5 DEF Works
  <1>7. doing[c].ask \in Wishes
    BY <1>6 DEF RegistryInv, CallsFit, InHand, AskedFit
  <1> QED BY <1>7, RegisterAssumed DEF Register!RegistryAssumption

LEMMA AskedSo ==
    ASSUME RegistryInv, NEW c \in Clients, NEW a \in Wishes, Register!Ask(c, a)
    PROVE  doing'[c].ask # None
  <1> DEFINE first == CASE a.kind = "relate" -> "relate" [] a.kind = "link" -> "link"
                        [] a.kind = "backfill" -> "readTags" [] OTHER -> "find"
             one == [Register!NoCall EXCEPT !.ask = a]
             two == [one EXCEPT !.before = Filed]
             new == [two EXCEPT !.todo = {first}]
  <1>1. doing' = [doing EXCEPT ![c] = [Register!NoCall EXCEPT !.ask = a, !.before = Filed, !.todo = {first}]]
    BY DEF Register!Ask, Filed
  <1> HIDE DEF first
  <1>2. IsCall(Register!NoCall)
    BY DEF Register!NoCall, IsCall
  <1>3. IsCall(one) /\ one.ask = a
    BY <1>2 DEF IsCall
  <1> HIDE DEF one
  <1>4. IsCall(two) /\ two.ask = a
    BY <1>3 DEF IsCall
  <1> HIDE DEF two
  <1>5. new.ask = a
    BY <1>4 DEF IsCall
  <1>6. doing' = [doing EXCEPT ![c] = new] /\ doing = [d \in Clients |-> doing[d]]
    BY <1>1 DEF RegistryInv, CallsFit, one, two
  <1> HIDE DEF new
  <1> QED BY <1>5, <1>6, RegisterAssumed DEF Register!RegistryAssumption

LEMMA AloneBegins == AllInit => AloneInv
  BY DEF AllInit, AloneInv, Register!Init, Register!NoCall

LEMMA AloneSteps ==
    ASSUME RegistryInv, AloneInv, [AllNext]_all
    PROVE  AloneInv'
  <1> SUFFICES ASSUME part' = "alone" PROVE AloneInv'
    BY DEF AloneInv
  <1>1. part' = part
    BY DEF AllNext, all
  <1>2. CASE UNCHANGED Files
    <2>1. mishaps' = mishaps /\ doing' = doing /\ UNCHANGED <<entities, dossiers, manifests, links, relations>>
      BY <1>2 DEF Files
    <2>2. ASSUME NEW c \in Clients, doing'[c].ask # None PROVE AsFar(doing[c])'
      <3>1. AsFar(doing[c])
        BY <1>1, <2>1, <2>2 DEF AloneInv
      <3> PICK k : k = doing[c]
        OBVIOUS
      <3>2. Filed' = Filed /\ Quiet(k)' = Quiet(k) /\ OneEach(k.todo)' = OneEach(k.todo) /\ Running(k)' = Running(k)
        BY <2>1 DEF Filed, Quiet, OneEach, Running
      <3>3. Kept(k)'
        BY <2>1, <3>1, <3>2 DEF AsFar, Kept
      <3>4. ProjectKept(k)'
        BY <2>1, <3>1 DEF AsFar, ProjectKept, RestOf
      <3>5. CardKept(k)'
        BY <2>1, <3>1 DEF AsFar, CardKept
      <3>6. RowsKept(k)'
        BY <2>1, <3>1 DEF AsFar, RowsKept, OpenTo, LinkedBy, NamedBy
      <3> QED BY <2>1, <3>3, <3>4, <3>5, <3>6 DEF AsFar
    <2> QED BY <1>1, <2>1, <2>2 DEF AloneInv
  <1>3. CASE Register!Next /\ mishaps' = 0 /\ \A c \in Clients : c # First => doing'[c].ask = None
    <2>1. PICK c \in Clients : (\E a \in Wishes : Register!Ask(c, a)) \/ Works(c)
      BY <1>3 DEF Register!Next, Works
    <2>2. /\ mishaps = 0 /\ mishaps' = 0
          /\ \A d \in Clients : d # First => doing[d].ask = None /\ doing'[d].ask = None
          /\ \A d \in Clients : doing[d].ask # None => Far(d)
      BY <1>1, <1>3 DEF AloneInv, Far
    <2>3. c = First /\ Far(c)'
      <3>1. CASE \E a \in Wishes : Register!Ask(c, a)
        BY <2>2, <3>1, AskedSo, AskFar
      <3>2. CASE Works(c)
        BY <2>2, <3>2, WorksAsked, WorksFar
      <3> QED BY <2>1, <3>1, <3>2
    <2> QED BY <2>2, <2>3 DEF AloneInv, Far
  <1> QED BY <1>1, <1>2, <1>3 DEF AllNext, all

LEMMA AloneIsTrue ==
    ASSUME RegistryInv, AloneInv, part = "alone"
    PROVE  Register!AsAsked
  <1> SUFFICES ASSUME NEW c \in Clients, doing[c].ask # None, doing[c].todo = {}
               PROVE  LET k == doing[c]
                          a == k.ask
                          was == k.before
                          open == {o \in Obs : Tags[o] # <<>> /\ was.links[o] = None}
                      IN /\ k.end = "refused" \/ a.dry => was = Filed
                         /\ k.end = "thrown" => <<dossiers, manifests, links>> = <<was.dossiers, was.manifests, was.links>>
                         /\ \A i \in EntityIds \ {k.id} :
                              /\ dossiers[i] = was.dossiers[i] /\ manifests[i] = was.manifests[i]
                              /\ was.entities[i] # None => entities[i] = was.entities[i]
                         /\ a.kind = "project.update" /\ a.metadata = Same /\ k.end = "none" =>
                              dossiers[k.id].metadata.rest = was.dossiers[k.id].metadata.rest
                         /\ a.kind \in {"agent.create", "agent.update"} /\ a.mode # Same /\ k.end = "none" =>
                              /\ manifests[k.id].mode = a.mode
                              /\ a.mode # "router" => manifests[k.id].router = None
                         /\ a.kind # "link" => \A o \in Obs : was.links[o] # None => links[o] = was.links[o]
                         /\ a.kind = "backfill" /\ k.end = "none" =>
                              /\ Register!Cardinality({o \in open : links[o] # None}) = Register!Min({Batch, Register!Cardinality(open)})
                              /\ \A o \in open : links[o] # None => Folded[entities[links[o]].name] = Folded[Tags[o][1]]
    BY DEF Register!AsAsked, Filed
  <1> PICK k : k = doing[c]
    OBVIOUS
  <1>1. Kept(k) /\ ProjectKept(k) /\ CardKept(k) /\ RowsKept(k) /\ k.todo = {}
    BY DEF AloneInv, AsFar
  <1>2. k.end = "refused" \/ k.ask.dry => k.before = Filed
    BY <1>1 DEF Kept, Quiet
  <1>3. k.end = "thrown" => dossiers = k.before.dossiers /\ manifests = k.before.manifests /\ links = k.before.links
    BY <1>1 DEF Kept
  <1>4. \A i \in EntityIds \ {k.id} :
          /\ dossiers[i] = k.before.dossiers[i] /\ manifests[i] = k.before.manifests[i]
          /\ k.before.entities[i] # None => entities[i] = k.before.entities[i]
    BY <1>1 DEF Kept
  <1>5. k.ask.kind = "project.update" /\ k.ask.metadata = Same /\ k.end = "none" =>
          dossiers[k.id].metadata.rest = k.before.dossiers[k.id].metadata.rest
    BY <1>1 DEF ProjectKept, RestOf
  <1>6. k.ask.kind \in {"agent.create", "agent.update"} /\ k.ask.mode # Same /\ k.end = "none" =>
          manifests[k.id].mode = k.ask.mode /\ (k.ask.mode # "router" => manifests[k.id].router = None)
    BY <1>1 DEF CardKept, ModeAsked
  <1>7. k.ask.kind # "link" => \A o \in Obs : k.before.links[o] # None => links[o] = k.before.links[o]
    BY <1>1 DEF RowsKept, OpenTo
  <1>8. k.ask.kind = "backfill" /\ k.end = "none" =>
          /\ Register!Cardinality({o \in OpenTo(k) : links[o] # None}) = Register!Min({Batch, Register!Cardinality(OpenTo(k))})
          /\ \A o \in OpenTo(k) : links[o] # None => Folded[entities[links[o]].name] = Folded[Tags[o][1]]
    <2> SUFFICES ASSUME k.ask.kind = "backfill", k.end = "none"
                 PROVE  /\ Register!Cardinality(LinkedBy(k)) = Register!Min({Batch, Register!Cardinality(OpenTo(k))})
                        /\ \A o \in LinkedBy(k) : NamedBy(links[o], Tags[o][1])
      BY DEF LinkedBy, NamedBy
    <2>1. LinkedBy(k) \cup k.rows = LinkedBy(k)
      BY <1>1 DEF RowsKept
    <2> QED BY <1>1, <2>1 DEF RowsKept
  <1> QED BY <1>2, <1>3, <1>4, <1>5, <1>6, <1>7, <1>8 DEF OpenTo

\* For any rows, numbers, titles and calls: the tables of identity are what the answered calls
\* did, one caller or two with a fault; no row outranks another across the band of the cap; and
\* one call of the registry after the other does what was asked of it and nothing else.
THEOREM ToolsAreTrue == AllSpec => []ToolsTrue
  <1> DEFINE Inv == RankInv /\ IdentityInv /\ RegistryInv /\ AloneInv
  <1>1. AllInit => Inv
    BY RankStarts, IdentityBegins, RegistryBegins, AloneBegins DEF AllInit
  <1>2. Inv /\ [AllNext]_all => Inv'
    <2>1. [AllNext]_all => Register!Next \/ UNCHANGED Files
      BY DEF AllNext, all
    <2> QED BY <2>1, RankStep, IdentitySteps, RegistrySteps, AloneSteps
  <1>3. Inv => ToolsTrue
    <2> SUFFICES ASSUME Inv PROVE ToolsTrue
      OBVIOUS
    <2>1. part = "one" => One!CoresKept /\ One!AnchorsKept /\ One!LifeCounted /\ One!ActivationsCounted /\ One!HistoryLeads
      BY OneIsTrue DEF IdentityInv
    <2>2. part = "two" => Two!HistoryLeads /\ Two!OneVisual
      BY TablesHold DEF IdentityInv, TwoInv
    <2>3. Search!GapKept /\ Search!InBand
      BY DEF RankInv
    <2>4. part = "alone" => Register!AsAsked
      BY AloneIsTrue
    <2> QED BY <2>1, <2>2, <2>3, <2>4 DEF ToolsTrue
  <1> QED BY <1>1, <1>2, <1>3, PTL DEF AllSpec
=============================================================================
