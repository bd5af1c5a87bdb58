------------------------------ MODULE MCGateway ------------------------------
(***************************************************************************)
(* The front door, and what is behind it: the tables of identity cores and *)
(* anchors, the search, the registry of entities, projects and agents.     *)
(* They share no row, so a behaviour drives one of them and leaves the     *)
(* others as they were: whose key a call has, how many calls an address    *)
(* makes, one caller of the identity tools, two of them with a storage     *)
(* fault, one search of every kind with an edit and a failure, two         *)
(* searches whose countings overlap, one caller of the registry, two that  *)
(* overlap with a failed query.                                            *)
(***************************************************************************)
EXTENDS Gateway

\* "rook" is a tenant and a default alias; "moss" only an alias; "Rainer" is
\* "rainer" in capitals; "stray" is nobody.
MCNames   == {"rook", "companion", "rainer", "moss", "Rainer", "stray"}
MCAllowed == {"rook", "companion", "rainer"}
MCLower   == [n \in MCNames |-> IF n = "Rainer" THEN "rainer" ELSE n]
MCAliases == [a \in {"rook", "moss"} |-> IF a = "rook" THEN "companion" ELSE "rainer"]
MCSecretName  == [t \in MCAllowed |-> t]

CONSTANTS k1, k2, k3, i1, i2
Req(i, k, h, r, n, p) == [ip |-> i, key |-> k, header |-> h, route |-> r, size |-> n, parses |-> p]
KeyRequests == {Req(i1, k1, "rook", "rpc", 1, TRUE), Req(i1, k2, "Rainer", "rpc", 1, TRUE), Req(i1, k2, "rook", "rpc", 2, TRUE),
                Req(i1, k3, Blank, "trigger", 1, FALSE), Req(i1, k3, "stray", "sse", 1, TRUE), Req(i1, k1, Absent, "health", 1, TRUE),
                Req(i1, k1, Absent, "root", 1, TRUE), Req(i1, k1, Malformed, "other", 1, TRUE)}
RateRequests == {Req(i, k1, Absent, "sse", 1, TRUE) : i \in {i1, i2}}
MCRequests == KeyRequests \cup RateRequests

\* The identity tools: one caller, and two that overlap with a fault of the storage.
CONSTANTS Callers, Actions, Weights, Contents, MaxCores, MaxAnchors, CallsOfOne, CallsOfTwo, MaxFaults
VARIABLES part, cores, anchors, call, done, made, calls, faults

One == INSTANCE Identity WITH
         Callers <- {"c1"}, MaxCalls <- CallsOfOne, MaxFaults <- 0
Two == INSTANCE Identity WITH MaxCalls <- CallsOfTwo

CONSTANTS
  Obs, Territories, Grips, Recent, Cued, StartRows, Scenes, Asks, Pool, K, Unit, LaneWeight, Ceiling, MaxBoost,
  Held, MinScore, HintFloor, Gain, MinHead, RecencyBoost, CascadeTop, Wear, MaxSearches, MaxEdits, MaxFailed
VARIABLES rows, scene, ask, lanes, answer, pending, due, lost, cascade, searches, edits, failed

Search == INSTANCE Retrieval

CONSTANTS Clients, EntityIds, Titles, Types, Folded, Tags, Founders, Wishes, Batch, TagCap, MaxAsked, MaxMishaps, Same
VARIABLES entities, dossiers, manifests, links, relations, been, doing, asked, mishaps

Register == INSTANCE Registry

ASSUME ToolsAssumption ==
  One!IdentityAssumption /\ Two!IdentityAssumption /\ Search!RetrievalAssumption /\ Register!RegistryAssumption

\* Three observations in two territories; the first has the name the query has in it, the third
\* the name and the time.  The numbers of the fused profile, and of the one before it.
ByLane(v, k, h, e) ==
  [l \in {"vector", "keyword", "hint", "entity"} |->
     CASE l = "vector" -> v [] l = "keyword" -> k [] l = "hint" -> h [] l = "entity" -> e]
Of(x, y, z) == [o \in {"o1", "o2", "o3"} |-> CASE o = "o1" -> x [] o = "o2" -> y [] o = "o3" -> z]
MCCued   == Of({"name"}, {}, {"name", "time"})
MCStartRows ==
  {Of([territory |-> t,      grip |-> "iron", linked |-> TRUE,  novelty |-> 72, surfaced |-> 0],
      [territory |-> "self", grip |-> "iron", linked |-> FALSE, novelty |-> 72, surfaced |-> 0],
      [territory |-> "self", grip |-> g,      linked |-> TRUE,  novelty |-> 72, surfaced |-> 0]) :
     t \in {"self", "craft"}, g \in {"iron", "dormant"}}
MCScenes ==
  {ByLane(Of(90, 80, 20), Of(0, 50, 40),  Of(0, 0, 60),  Of(1, 2, 3)),
   ByLane(Of(60, 0, 30),  Of(10, 70, 90), Of(57, 30, 0), Of(3, 2, 1))}
Plain == [profile |-> "fused", backend |-> "postgres", territory |-> "any", grips |-> {"iron", "dormant"},
          entity |-> FALSE, embedded |-> TRUE, rerank |-> FALSE, top |-> 1, cue |-> "any", limit |-> 2, items |-> 2,
          threshold |-> 0, shadow |-> FALSE, window |-> FALSE, effects |-> TRUE]
MCAsks ==
  {Plain,
   [Plain EXCEPT !.territory = "self", !.grips = {"iron"}, !.entity = TRUE],
   [Plain EXCEPT !.backend = "sqlite", !.grips = {"iron"}, !.entity = TRUE, !.effects = FALSE],
   [Plain EXCEPT !.profile = "legacy", !.grips = {"iron"}, !.entity = TRUE, !.limit = 1],
   [Plain EXCEPT !.rerank = TRUE, !.cue = "self", !.window = TRUE],
   [Plain EXCEPT !.threshold = 50, !.limit = 3, !.items = 1, !.embedded = FALSE],
   [Plain EXCEPT !.threshold = 50, !.shadow = TRUE, !.effects = FALSE, !.limit = 1]}
MCPool      == ByLane(2, 2, 2, 2)
MCLaneWeight == ByLane(68, 20, 5, 7)
BySignal(p, n, t, a) == [phrase |-> p, name |-> n, time |-> t, assistant |-> a]
MCCeiling   == [fused |-> BySignal(5, 3, 4, 2), legacy |-> BySignal(16, 10, 10, 9)]
MCMaxBoost  == [fused |-> 8, legacy |-> 42]
MCHeld      == [iron |-> 130, dormant |-> 70]
MCMinScore  == [fused |-> 2, legacy |-> 30]
MCHintFloor == [postgres |-> 55, sqlite |-> 8]
MCGain      == BySignal(90, 70, 60, 55)

\* Two agents in the registry, and what callers that overlap ask of it, and one alone.
Wish(kind, id, name) ==
  [kind |-> kind, id |-> id, name |-> name, alias |-> None, type |-> Same, note |-> Same, status |-> Same, metadata |-> Same,
   routing |-> Same, mode |-> Same, router |-> Same, skills |-> Same, force |-> FALSE, dry |-> FALSE, to |-> None, obs |-> None]
By(kind, id)    == Wish(kind, id, Same)
For(kind, name) == Wish(kind, None, name)
Overlapping ==
  {[By("agent.create", "e1") EXCEPT !.mode = "router", !.router = "e2"],
   [By("agent.update", "e1") EXCEPT !.mode = "explicit", !.skills = "new"],
   [By("agent.update", "e1") EXCEPT !.router = None],
   [For("agent.normalize", "Kit") EXCEPT !.alias = "ann", !.force = TRUE],
   [By("entity.update", "e2") EXCEPT !.type = "project", !.name = "sol"],
   [For("project.update", "sol") EXCEPT !.routing = "r2", !.note = "b"],
   For("project.create", "sol"), For("backfill", Same)}
MCWishes ==
  Overlapping \cup
  {For("agent.create", "Ann"), [For("agent.update", "ann") EXCEPT !.router = "e2"],
   [For("agent.normalize", "kit") EXCEPT !.alias = "sol", !.dry = TRUE],
   [For("agent.normalize", "Sol") EXCEPT !.mode = "router", !.router = "e4"],
   [For("agent.normalize", "Sol") EXCEPT !.mode = "router"],
   [For("agent.normalize", "Sol") EXCEPT !.mode = "explicit", !.force = TRUE],
   [For("entity.create", "sol") EXCEPT !.type = "person", !.note = "a"], [For("entity.create", "ann") EXCEPT !.type = "person"],
   [By("entity.update", "e2") EXCEPT !.name = "Ann"],
   [For("project.create", "sol") EXCEPT !.metadata = [rest |-> "x", routing |-> "r1"], !.status = "paused"],
   [By("project.update", "e3") EXCEPT !.metadata = [rest |-> "y", routing |-> None], !.routing = "r1"],
   [By("relate", "e1") EXCEPT !.to = "e3"], [By("link", "e2") EXCEPT !.obs = "o1"]}
MCTitles   == {"Ann", "ann", "kit", "Kit", "sol", "Sol"}
MCFolded   == [t \in MCTitles |-> CASE t \in {"Ann", "ann"} -> "ann" [] t \in {"kit", "Kit"} -> "kit" [] OTHER -> "sol"]
MCTags     == Of(<<"sol", "ann">>, <<"kit">>, <<"Ann">>)
MCFounders ==
  {[i \in EntityIds |-> CASE i = "e1" -> [name |-> "Ann", type |-> "agent", note |-> "a"]
                           [] i = "e2" -> [name |-> "kit", type |-> "agent", note |-> None] [] OTHER -> None]}

Self == <<cores, anchors, call, done, made, calls, faults>>
Door == <<secrets, rateLimitMap, now, passed, last>>
Finds == <<rows, scene, ask, lanes, answer, pending, due, lost, cascade, searches, edits, failed>>
Files == <<entities, dossiers, manifests, links, relations, been, doing, asked, mishaps>>
all  == <<part, Door, Self, Finds, Files>>

\* Where the keys are not the question, the shared one is bound and stays.
AllInit ==
  /\ part \in {"keys", "rates", "one", "two", "search", "shown", "alone", "pair"}
  /\ Init /\ (part # "keys" => secrets[LegacyVar] = k1)
  /\ IF part = "two" THEN Two!Init ELSE One!Init
  /\ Search!Init /\ Register!Init
  /\ part # "search" => rows = CHOOSE r \in MCStartRows : TRUE
  /\ part \notin {"search", "shown"} => scene = CHOOSE s \in MCScenes : TRUE

\* The caller of the registry where there is but one.
First == CHOOSE c \in Clients : TRUE

Next_keys ==
  \/ \E req \in KeyRequests : Unauthenticated(req) \/ Denied(req) \/ Limited(req) \/ Admitted(req) \/ TooLarge(req)
  \/ \E t \in Allowed, k \in Keys : BindSecret(t, k)
  \/ DropLegacy
Next_rates ==
  \/ \E req \in RateRequests : Unauthenticated(req) \/ Denied(req) \/ Limited(req) \/ Admitted(req) \/ TooLarge(req)
  \/ Tick

AllNext ==
  \/ part = "keys"   /\ Next_keys  /\ UNCHANGED <<part, Self, Finds, Files>>
  \/ part = "rates"  /\ Next_rates /\ UNCHANGED <<part, Self, Finds, Files>>
  \/ part = "one"    /\ One!Next   /\ UNCHANGED <<part, Door, Finds, Files>>
  \/ part = "two"    /\ Two!Next   /\ UNCHANGED <<part, Door, Finds, Files>>
  \/ part = "search" /\ Search!Next /\ searches' <= 1 /\ UNCHANGED <<part, Door, Self, Files>>
  \/ part = "shown"  /\ Search!Next /\ ask' \in {None, Plain} /\ edits' = 0 /\ UNCHANGED <<part, Door, Self, Files>>

  \/ part = "alone"  /\ Register!Next /\ mishaps' = 0 /\ (\A c \in Clients : c # First => doing'[c].ask = None)
                     /\ UNCHANGED <<part, Door, Self, Finds>>
  \/ part = "pair"   /\ Register!Next /\ (\A c \in Clients : doing'[c].ask \in Overlapping \cup {None})
                     /\ UNCHANGED <<part, Door, Self, Finds>>

AllSpec == AllInit /\ [][AllNext]_all

-----------------------------------------------------------------------------
\* What the tables of identity say is what the answered calls did: rows a caller was told of
\* are there, a core's reinforcements, challenges and evolutions and an anchor's activations are
\* counted once each, and a core's history leads without a gap to what it says now.  What a
\* search ranks is as far apart as it says: no relevance above one, and no row of the answer is
\* there in place of one far above it.  One call of the registry after the other does what was
\* asked of it and leaves the rest.
ToolsTrue ==
  /\ part = "one" => One!CoresKept /\ One!AnchorsKept /\ One!LifeCounted /\ One!ActivationsCounted
  /\ part = "one" => One!HistoryLeads
  /\ part = "two" => Two!HistoryLeads /\ Two!OneVisual
  /\ Search!GapKept /\ Search!InBand
  /\ part = "alone" => Register!AsAsked

\* A search shows what it was asked for and counts what it showed: rows that were within the
\* territory and the grips when read, each shown row counted once per answer, and no pair noted
\* together more often than both were shown.
SearchTrue == Search!FilterKept /\ Search!SurfacedOnce /\ Search!CascadeBacked

\* However calls of the registry overlap and whatever query fails, no two entities of a tenant
\* have one name, a routed manifest has a router that was an agent, and dossiers, manifests,
\* relations and links hang on entities that were what they say.
FiledTrue == Register!OneName /\ Register!Routed /\ Register!Rooted

\* What is found is true, and what is filed.
FoundAndFiled == SearchTrue /\ FiledTrue
=============================================================================
