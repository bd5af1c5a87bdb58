-------------------------------- MODULE Consent --------------------------------
(***************************************************************************)
(* The consent record of a tenant, one JSON row: what the user granted per *)
(* domain, the relationship level, an audit log of the last entries.       *)
(* Every call of mind_consent, and mind_relate's set_level, reads the row, *)
(* decides on what it read, appends a log entry and replaces the row, a    *)
(* check included.  Between the read and the replacement other calls run.  *)
(***************************************************************************)
EXTENDS Integers, FiniteSets, Sequences

CONSTANTS
  Callers,      \* calls that may overlap
  UserDomains,  \* USER_CONSENT_DOMAINS
  Gates,        \* RELATIONSHIP_GATES: a function from its domains to levels
  HardDomains,  \* HARD_BOUNDARIES
  TopLevel,     \* the last of RELATIONSHIP_LEVELS, the first being 0
  Requests,     \* levels callers ask for in a grant; "omitted" is a call without one
  Documented,   \* the minimum level the documentation gives a user domain
  SessionTime,  \* the 24 hours of a session grant
  LogCap,       \* trimLog keeps so many entries
  MaxNow,       \* bound on the clock
  MaxCalls,     \* bound on calls
  MaxFaults     \* bound on queries that fail

ConsentAssumption ==
  /\ TopLevel \in Nat /\ Gates \in [DOMAIN Gates -> 0..TopLevel]
  /\ UserDomains \cap (DOMAIN Gates \cup HardDomains) = {} /\ DOMAIN Gates \cap HardDomains = {}
  /\ Requests \subseteq {"standing", "session", "ask_each_time", "omitted"}
  /\ Documented \in [UserDomains -> 0..TopLevel]
  /\ SessionTime \in Nat /\ LogCap \in Nat \ {0} /\ MaxNow \in Nat /\ MaxCalls \in Nat /\ MaxFaults \in Nat

VARIABLES
  now,
  consent,   \* the stored row
  call,      \* what each caller has read and is about to write
  answer,    \* the last check that was decided, and the level it found
  word,      \* what the user last had recorded for a domain, by completed calls
  reached,   \* the level last set by a completed call
  history,   \* the entries of all completed calls
  calls, faults

vars == <<now, consent, call, answer, word, reached, history, calls, faults>>

Never == -1
Time == 0..MaxNow
NoEntry == [level |-> "none", until |-> Never]
Entries == [level : {"none", "standing", "session", "ask_each_time"}, until : {Never} \cup 0..(MaxNow + SessionTime)]
Words == [given : BOOLEAN, until : {Never} \cup 0..(MaxNow + SessionTime)]
Levels == 0..TopLevel
Domains == UserDomains \cup DOMAIN Gates \cup HardDomains

Op(kind, domains, requests, levels) == [kind : {kind}, domain : domains, level : requests, to : levels]
Ops == Op("check", Domains, {"omitted"}, {0}) \cup Op("grant", UserDomains, Requests, {0})
  \cup Op("revoke", UserDomains, {"omitted"}, {0}) \cup Op("level", {"relationship_level"}, {"omitted"}, Levels)

\* The answer to a tenant without a row, and to a failed query.
defaultConsent == [grants |-> [d \in UserDomains |-> NoEntry], level |-> 0, log |-> <<>>]
Idle == [busy |-> FALSE]

TypeOK ==
  /\ now \in Time /\ calls \in 0..MaxCalls /\ faults \in 0..MaxFaults
  /\ consent.grants \in [UserDomains -> Entries] /\ consent.level \in Levels
  /\ consent.log \in Seq(Ops) /\ Len(consent.log) <= LogCap
  /\ \A c \in Callers : call[c] = Idle \/ (call[c].busy /\ call[c].op \in Ops /\ call[c].at \in Time)
  /\ word \in [UserDomains -> Words] /\ reached \in Levels

Init ==
  /\ now = 0 /\ consent = defaultConsent /\ call = [c \in Callers |-> Idle]
  /\ answer = [domain |-> "none", permitted |-> FALSE, level |-> 0]
  /\ word = [d \in UserDomains |-> [given |-> FALSE, until |-> Never]] /\ reached = 0
  /\ history = <<>> /\ calls = 0 /\ faults = 0

Tick == now < MaxNow /\ now' = now + 1 /\ UNCHANGED <<consent, call, answer, word, reached, history, calls, faults>>

-----------------------------------------------------------------------------
(* action=check, on the row that was read. *)

HardBoundary(d) == d \in HardDomains
Gated(c, d) == d \in DOMAIN Gates /\ c.level < Gates[d]
Granted(c, d) == d \in UserDomains /\ c.grants[d].level # "none"

\* (Slip: a session's end is never looked at.)
Expired_Never(entry) == FALSE
Expired(entry) == entry.level = "session" /\ entry.until # Never /\ now > entry.until

Permitted(c, d) == ~HardBoundary(d) /\ ~Gated(c, d) /\ Granted(c, d) /\ ~Expired(c.grants[d])

-----------------------------------------------------------------------------
(* The rows the calls write. *)

trimLog(log) == SubSeq(log, IF Len(log) > LogCap THEN Len(log) - LogCap + 1 ELSE 1, Len(log))

\* The end of a session is set only where the caller names the level.
EntryFor(level, at) ==
  [level |-> IF level = "omitted" THEN "session" ELSE level,
   until |-> IF level = "session" THEN at + SessionTime ELSE Never]

grant(c, d, level, at) == [c EXCEPT !.grants[d] = EntryFor(level, at)]

revoke(c, d) == [c EXCEPT !.grants[d] = NoEntry]
updateRelationshipLevel(c, level) == [c EXCEPT !.level = level]

Row(op, held, at) ==
  LET changed == CASE op.kind = "grant"  -> grant(held, op.domain, op.level, at)
                   [] op.kind = "revoke" -> revoke(held, op.domain)
                   [] op.kind = "level"  -> updateRelationshipLevel(held, op.to)
                   [] OTHER -> held
  IN [changed EXCEPT !.log = trimLog(Append(held.log, op))]

-----------------------------------------------------------------------------
(* The steps of a call. *)

\* readConsent answers a failed query with the default.  A check is decided on it.
Begin(c, op) ==
  \E held \in {consent, defaultConsent} :
    /\ call[c] = Idle /\ calls < MaxCalls /\ calls' = calls + 1
    /\ \/ held = consent /\ UNCHANGED faults
       \/ held # consent /\ faults < MaxFaults /\ faults' = faults + 1
    /\ call' = [call EXCEPT ![c] = [busy |-> TRUE, op |-> op, held |-> held, at |-> now]]
    /\ answer' = IF op.kind = "check" THEN [domain |-> op.domain, permitted |-> Permitted(held, op.domain), level |-> held.level]
                                      ELSE answer
    /\ UNCHANGED <<now, consent, word, reached, history>>

\* What the user asked for, whatever becomes of the row.
Said(op, at) ==
  /\ word' = CASE op.kind = "grant" ->
                    [word EXCEPT ![op.domain] =
                       [given |-> TRUE, until |-> IF op.level \in {"session", "omitted"} THEN at + SessionTime ELSE Never]]
               [] op.kind = "revoke" -> [word EXCEPT ![op.domain] = [given |-> FALSE, until |-> Never]]
               [] OTHER -> word
  /\ reached' = IF op.kind = "level" THEN op.to ELSE reached
  /\ history' = Append(history, op)

writeConsent(c) ==
  /\ call[c] # Idle /\ call' = [call EXCEPT ![c] = Idle]
  /\ consent' = Row(call[c].op, call[c].held, call[c].at)
  /\ Said(call[c].op, call[c].at)
  /\ UNCHANGED <<now, answer, calls, faults>>

\* A failed write throws: the caller gets an error and nothing is recorded.
WriteFails(c) ==
  /\ call[c] # Idle /\ faults < MaxFaults /\ faults' = faults + 1
  /\ call' = [call EXCEPT ![c] = Idle]
  /\ UNCHANGED <<now, consent, answer, word, reached, history, calls>>

Next ==
  \/ Tick
  \/ \E c \in Callers : (\E op \in Ops : Begin(c, op)) \/ writeConsent(c) \/ WriteFails(c)

Spec == Init /\ [][Next]_vars

-----------------------------------------------------------------------------
\* A check that says yes follows a grant the user has not revoked since and whose
\* session, if it is one, has not ended.
Honouring ==
  calls' # calls /\ answer'.permitted /\ (\E c \in Callers : call[c] = Idle /\ call'[c] # Idle /\ call'[c].op.kind = "check")
    => LET w == word[answer'.domain] IN w.given /\ (w.until # Never => now <= w.until)
Honoured == [][Honouring]_vars

\* A call changes nothing of the record but what it was about: a revocation one domain, a
\* level the level, a check neither.
OnlyAsked ==
  [][\A c \in Callers : call[c] # Idle /\ call'[c] = Idle /\ consent' # consent =>
       LET op == call[c].op
       IN /\ \A d \in UserDomains : consent'.grants[d] # consent.grants[d] => op.kind \in {"grant", "revoke"} /\ op.domain = d
          /\ consent'.level # consent.level => op.kind = "level"]_vars

\* The log holds the last entries of all that was recorded, in order.
LogIsTail ==
  consent.log = SubSeq(history, IF Len(history) > LogCap THEN Len(history) - LogCap + 1 ELSE 1, Len(history))

\* The record is what the completed calls said: per domain and for the level.
RecordIsSaid ==
  /\ \A d \in UserDomains : (consent.grants[d].level # "none") <=> word[d].given
  /\ consent.level = reached

\* A domain is permitted only at the level the documentation gives it.
DocumentedGate == answer.permitted => answer.level >= Documented[answer.domain]

=============================================================================
