------------------------------- MODULE Registry -------------------------------
(***************************************************************************)
(* The entities of a tenant and what hangs on them: the dossiers of        *)
(* projects, the capability manifests of agents, relations, and the        *)
(* observations linked to one.  mind_entity, mind_project and mind_agent   *)
(* check what they read, then write; the Postgres store reads again and    *)
(* merges, and every query of it is one step.  Calls overlap between       *)
(* queries, and a query fails: a read then answers nothing, a write (or    *)
(* the check before it) throws.  A row is never deleted.  Of an entity's   *)
(* tags, salience and context one note is kept, of a dossier the status    *)
(* and the metadata, of a manifest the mode, the router and the skills.    *)
(***************************************************************************)
EXTENDS Integers, FiniteSets, Sequences, SequencesExt

CONSTANTS
  Clients,     \* calls that may overlap
  EntityIds, Titles, Types,
  Folded,      \* a title in lower case
  Obs, Tags,   \* the entity tags of each observation
  Founders,    \* the entities a behaviour may begin with
  Wishes,      \* the calls made
  Batch, TagCap, \* rows and tags of one backfill
  MaxAsked, MaxMishaps, \* bounds
  Same,        \* a field that is not given
  None

VARIABLES
  entities, dossiers, manifests, links, relations,  \* the tables
  been,      \* the types each entity has had
  doing,     \* what each call has done
  asked, mishaps

tables == <<entities, dossiers, manifests, links, relations, been>>
vars == <<tables, doing, asked, mishaps>>

EntityRow == [name : Titles, type : Types, note : {"a", "b", None}]
Empty == [i \in EntityIds |-> None]

RegistryAssumption ==
  /\ None \notin EntityIds /\ Same \notin EntityIds /\ Same \notin {None, "router"}
  /\ {"project", "agent", "concept"} \subseteq Types /\ None \notin EntityRow /\ None \notin Wishes
  /\ Founders \subseteq [EntityIds -> EntityRow \cup {None}]
  /\ \A f \in Founders, i, j \in EntityIds :
       f[i] # None /\ f[j] # None /\ Folded[f[i].name] = Folded[f[j].name] => i = j
  /\ \A o \in Obs : Tags[o] \in Seq(Titles)
  /\ \A a \in Wishes :
       /\ a.id \in EntityIds \cup {None} /\ (a.kind \in {"relate", "link"} => a.id # None)
       /\ a.kind = "relate" => a.to \in EntityIds
       /\ a.kind = "link" => a.obs \in Obs
       /\ a.dry => a.kind = "agent.normalize"
       \* A blank router is none given, but to an update, which takes it for null.
       /\ a.router \in EntityIds \cup {Same, None}
       /\ a.kind # "agent.update" => a.router # None

\* A call: what it was asked, the steps in hand, what it holds in memory, how it ended, and the
\* tables as it found them.
NoCall ==
  [ask |-> None, todo |-> {}, id |-> None, entity |-> None, dossier |-> None, card |-> None,
   then |-> "none", rows |-> {}, of |-> [t \in {} |-> None], tag |-> None, end |-> "none", before |-> None]

Init ==
  /\ entities \in Founders /\ dossiers = Empty /\ manifests = Empty
  /\ links = [o \in Obs |-> None] /\ relations = {}
  /\ been = [i \in EntityIds |-> IF entities[i] = None THEN {} ELSE {entities[i].type}]
  /\ doing = [c \in Clients |-> NoCall] /\ asked = 0 /\ mishaps = 0

-----------------------------------------------------------------------------
(* Steps of a call. *)

At(c, step) == step \in doing[c].todo

\* The step is done, the call holds k, and these are next.
Goes(c, step, k, next) == doing' = [doing EXCEPT ![c] = [k EXCEPT !.todo = (doing[c].todo \ {step}) \cup next]]
\* An error or an exception: of two updates under way at once the other goes on.
Ends(c, step, how) == Goes(c, step, [doing[c] EXCEPT !.end = how], {})

Mishap == mishaps < MaxMishaps /\ mishaps' = mishaps + 1
\* The getters answer null when their query fails.
Sees(seen, stored) == (seen = stored /\ UNCHANGED mishaps) \/ (seen = None /\ stored # None /\ Mishap)

\* What is given replaces what is there.
Given(new, old) == IF new = Same THEN old ELSE new
EntityOf(old, new) ==
  [name |-> Given(new.name, old.name), type |-> Given(new.type, old.type), note |-> Given(new.note, old.note)]
DossierOf(old, new) == [status |-> Given(new.status, old.status), metadata |-> Given(new.metadata, old.metadata)]
CardOf(old, new) ==
  [mode |-> Given(new.mode, old.mode), router |-> Given(new.router, old.router), skills |-> Given(new.skills, old.skills)]

\* The unique index on the lower-case name of a tenant's entities.
Taken(title, but) ==
  \E i \in EntityIds \ {but} : entities[i] # None /\ Folded[entities[i].name] = Folded[title]
Named(title) ==
  IF Taken(title, None) THEN CHOOSE i \in EntityIds : entities[i] # None /\ Folded[entities[i].name] = Folded[title]
                        ELSE None

Ask(c, a) ==
  /\ doing[c].todo = {} /\ asked < MaxAsked /\ asked' = asked + 1
  /\ doing' = [doing EXCEPT ![c] =
       [NoCall EXCEPT !.ask = a, !.before = [entities |-> entities, dossiers |-> dossiers, manifests |-> manifests,
                                             links |-> links, relations |-> relations],
                      !.todo = {CASE a.kind = "relate" -> "relate" [] a.kind = "link" -> "link"
                                  [] a.kind = "backfill" -> "readTags" [] OTHER -> "find"}]]
  /\ UNCHANGED <<tables, mishaps>>

\* The id a call is about, by id or by name.
Wanted(a) == IF a.id # None THEN (IF entities[a.id] = None THEN None ELSE a.id) ELSE Named(a.name)

-----------------------------------------------------------------------------
(* Finding the entity. *)

\* mind_entity and mind_project create: a name that is there is refused.
FindFree(c) ==
  LET k == doing[c]
  IN /\ At(c, "find") /\ k.ask.kind \in {"entity.create", "project.create"}
     /\ \E seen \in {Named(k.ask.name), None} :
          /\ Sees(seen, Named(k.ask.name))
          /\ IF seen # None THEN Ends(c, "find", "refused")
             ELSE Goes(c, "find", [k EXCEPT !.entity = [name |-> k.ask.name, note |-> Given(k.ask.note, None),
                         type |-> IF k.ask.kind = "project.create" THEN "project" ELSE k.ask.type]], {"insertEntity"})
     /\ UNCHANGED <<tables, asked>>

FindEntity(c) ==
  LET k == doing[c]
      updates == [name |-> k.ask.name, type |-> k.ask.type, note |-> k.ask.note]
  IN /\ At(c, "find") /\ k.ask.kind = "entity.update"
     /\ \E seen \in {Wanted(k.ask), None} :
          /\ Sees(seen, Wanted(k.ask))
          /\ IF seen = None \/ (k.ask.name = Same /\ k.ask.type = Same /\ k.ask.note = Same)
             THEN Ends(c, "find", "refused")
             ELSE Goes(c, "find", [k EXCEPT !.id = seen, !.entity = updates], {"readEntity"})
     /\ UNCHANGED <<tables, asked>>

\* Both halves of a project are updated at once; the dossier always.
Legs(note) == {"readDossier"} \cup (IF note = Same THEN {} ELSE {"readEntity"})

\* A routing that comes alone goes into the metadata that is there.
FindProject(c) ==
  LET k == doing[c]
      a == k.ask
      routed == a.routing # Same /\ a.metadata # Same
      metadata == IF routed THEN [a.metadata EXCEPT !.routing = a.routing] ELSE a.metadata
      alone == a.routing # Same /\ a.metadata = Same
  IN /\ At(c, "find") /\ a.kind = "project.update"
     /\ \E seen \in {Wanted(a), None} :
          /\ Sees(seen, Wanted(a))
          /\ IF \/ seen = None \/ entities[seen].type # "project"
                \/ a.note = Same /\ a.status = Same /\ a.metadata = Same /\ a.routing = Same
             THEN Ends(c, "find", "refused")
             ELSE Goes(c, "find", [k EXCEPT !.id = seen, !.entity = [name |-> Same, type |-> Same, note |-> a.note],
                                            !.dossier = [status |-> a.status, metadata |-> metadata]],
                       IF alone THEN {"readBase"} ELSE Legs(a.note))
     /\ UNCHANGED <<tables, asked>>

\* A router is named where the mode is "router", and nowhere else.
WellRouted(mode, router) == (mode = "router") = (router # Same)

FindAgent(c) ==
  LET k == doing[c]
  IN /\ At(c, "find") /\ k.ask.kind \in {"agent.create", "agent.update"}
     /\ \E seen \in {Wanted(k.ask), None} :
          /\ Sees(seen, Wanted(k.ask))
          /\ IF \/ seen = None \/ entities[seen].type # "agent"
                \/ k.ask.kind = "agent.create" /\ ~WellRouted(k.ask.mode, k.ask.router)
             THEN Ends(c, "find", "refused")
             ELSE Goes(c, "find", [k EXCEPT !.id = seen], {"readManifest"})
     /\ UNCHANGED <<tables, asked>>

\* normalize looks for the name of a roster entry, then for its alias; one found is repaired.
Repairs(a, row) ==
  [name |-> IF row.name = a.name THEN Same ELSE a.name,
   type |-> IF row.type = "agent" THEN Same ELSE "agent",
   note |-> IF a.force THEN a.note ELSE Same]

RefuseRoster(c) ==
  /\ At(c, "find") /\ doing[c].ask.kind = "agent.normalize" /\ ~WellRouted(doing[c].ask.mode, doing[c].ask.router)
  /\ Ends(c, "find", "refused") /\ UNCHANGED <<tables, asked, mishaps>>

FindResident(c, step) ==
  LET k == doing[c]
      a == k.ask
      title == IF step = "find" THEN a.name ELSE a.alias
  IN /\ At(c, step) /\ a.kind = "agent.normalize" /\ WellRouted(a.mode, a.router)
     /\ \E seen \in {Named(title), None} :
          /\ Sees(seen, Named(title))
          /\ CASE seen # None ->
                    LET repairs == Repairs(a, entities[seen])
                        clean == repairs.name = Same /\ repairs.type = Same /\ repairs.note = Same
                    IN Goes(c, step, [k EXCEPT !.id = seen, !.entity = repairs],
                            {IF clean \/ a.dry THEN "readManifest" ELSE "readEntity"})
               [] seen = None /\ step = "find" /\ a.alias # None -> Goes(c, step, k, {"findAlias"})
               [] OTHER -> Goes(c, step, [k EXCEPT !.entity = [name |-> a.name, type |-> "agent", note |-> Given(a.note, None)]],
                                IF a.dry THEN {} ELSE {"insertEntity"})
     /\ UNCHANGED <<tables, asked>>

-----------------------------------------------------------------------------
(* Entities: createEntity and updateEntity. *)

\* The type asserted of an entity, and what is written under its id.
Stores(i, row) == entities' = [entities EXCEPT ![i] = row] /\ been' = [been EXCEPT ![i] = @ \cup {row.type}]
Fresh(i) == entities[i] = None /\ \A j \in EntityIds : entities[j] = None => i = CHOOSE f \in EntityIds : entities[f] = None

AfterInsert(kind) ==
  CASE kind = "entity.create" -> {} [] kind = "project.create" -> {"assertProject"} [] OTHER -> {"readManifest"}

createEntity(c) ==
  LET k == doing[c]
  IN /\ At(c, "insertEntity")
     /\ \/ /\ Taken(k.entity.name, None) /\ Ends(c, "insertEntity", "thrown") /\ UNCHANGED tables
        \/ /\ ~Taken(k.entity.name, None)
           /\ \E i \in EntityIds :
                /\ Fresh(i) /\ Stores(i, k.entity)
                /\ Goes(c, "insertEntity", [k EXCEPT !.id = i], AfterInsert(k.ask.kind))
           /\ UNCHANGED <<dossiers, manifests, links, relations>>
     /\ UNCHANGED <<asked, mishaps>>

\* A read before a write, and the assertions: what is not found throws.
ReadEntity(c) ==
  LET k == doing[c]
  IN /\ At(c, "readEntity")
     /\ \E seen \in {entities[k.id], None} :
          /\ Sees(seen, entities[k.id])
          /\ IF seen = None THEN Ends(c, "readEntity", "thrown")
             ELSE Goes(c, "readEntity", [k EXCEPT !.entity = EntityOf(seen, k.entity)], {"writeEntity"})
     /\ UNCHANGED <<tables, asked>>

updateEntity(c) ==
  LET k == doing[c]
  IN /\ At(c, "writeEntity")
     /\ IF Taken(k.entity.name, k.id) THEN Ends(c, "writeEntity", "thrown") /\ UNCHANGED tables
        ELSE /\ Stores(k.id, k.entity)
             /\ Goes(c, "writeEntity", k, IF k.ask.kind = "agent.normalize" THEN {"readManifest"} ELSE {})
             /\ UNCHANGED <<dossiers, manifests, links, relations>>
     /\ UNCHANGED <<asked, mishaps>>

\* assertProjectEntity and assertAgentEntity.
Asserts(c, step, id, type, next) ==
  \E seen \in {entities[id], None} :
    /\ Sees(seen, entities[id])
    /\ IF seen = None THEN Ends(c, step, "thrown")
       ELSE IF seen.type # type THEN Ends(c, step, "thrown") ELSE Goes(c, step, doing[c], next)

-----------------------------------------------------------------------------
(* Dossiers. *)

AssertProject(c) ==
  /\ At(c, "assertProject") /\ Asserts(c, "assertProject", doing[c].id, "project", {"insertDossier"})
  /\ UNCHANGED <<tables, asked>>

createProjectDossier(c) ==
  LET k == doing[c]
      a == k.ask
      embedded == Given(a.metadata, [rest |-> None, routing |-> None])
      metadata == [embedded EXCEPT !.routing = Given(a.routing, @)]
  IN /\ At(c, "insertDossier")
     /\ dossiers' = [dossiers EXCEPT ![k.id] = [status |-> Given(a.status, "active"), metadata |-> metadata]]
     /\ Goes(c, "insertDossier", k, {})
     /\ UNCHANGED <<entities, manifests, links, relations, been, asked, mishaps>>

\* Of a dossier that is not found the metadata is taken for empty.
ReadBase(c) ==
  LET k == doing[c]
  IN /\ At(c, "readBase")
     /\ \E seen \in {dossiers[k.id], None} :
          /\ Sees(seen, dossiers[k.id])
          /\ Goes(c, "readBase",
                  [k EXCEPT !.dossier.metadata = [rest |-> IF seen = None THEN None ELSE seen.metadata.rest,
                                                  routing |-> k.ask.routing]], Legs(k.ask.note))
     /\ UNCHANGED <<tables, asked>>

ReadDossier(c) ==
  LET k == doing[c]
  IN /\ At(c, "readDossier")
     /\ \E seen \in {dossiers[k.id], None} :
          /\ Sees(seen, dossiers[k.id])
          /\ IF seen = None THEN Ends(c, "readDossier", "thrown")
             ELSE Goes(c, "readDossier", [k EXCEPT !.dossier = DossierOf(seen, k.dossier)], {"writeDossier"})
     /\ UNCHANGED <<tables, asked>>

updateProjectDossier(c) ==
  LET k == doing[c]
  IN /\ At(c, "writeDossier")
     /\ dossiers' = [dossiers EXCEPT ![k.id] = k.dossier] /\ Goes(c, "writeDossier", k, {})
     /\ UNCHANGED <<entities, manifests, links, relations, been, asked, mishaps>>

-----------------------------------------------------------------------------
(* Manifests. *)

\* The manifest a create or a roster entry asks for, and a roster entry as an update: a router
\* it does not name is left as it is.
NewCard(a) == [mode |-> Given(a.mode, "explicit"), router |-> Given(a.router, None), skills |-> Given(a.skills, "none")]
RosterCard(a) == [NewCard(a) EXCEPT !.router = a.router]

\* What an update makes of the mode and the router, from the manifest it read.
Mode(a, held) == Given(a.mode, held.mode)
Router(a, held) == IF a.router # Same THEN a.router ELSE IF Mode(a, held) = "router" THEN held.router ELSE Same
\* (Slip: the mode asked for decides, not the mode there will be.)
Unroutable_Asked(a, held) ==
  \/ a.mode = "router" /\ Router(a, held) \in {Same, None}
  \/ Mode(a, held) # "router" /\ a.router \notin {Same, None}
Unroutable(a, held) ==
  \/ Mode(a, held) = "router" /\ Router(a, held) \in {Same, None}
  \/ Mode(a, held) # "router" /\ a.router \notin {Same, None}
Updates(a, held) ==
  [mode |-> a.mode, skills |-> a.skills,
   router |-> IF Mode(a, held) = "router" THEN Router(a, held) ELSE IF a.mode # Same THEN None ELSE Same]
Nothing(card) == card.mode = Same /\ card.router = Same /\ card.skills = Same

Creates(c, card) == Goes(c, "readManifest", [doing[c] EXCEPT !.card = card, !.then = "insertManifest"], {"assertAgent"})
Changes(c, card) == Goes(c, "readManifest", [doing[c] EXCEPT !.card = card, !.then = "writeManifest"], {"reread"})

\* The tools' own reading of the manifest.
ReadManifest(c) ==
  LET k == doing[c]
      a == k.ask
  IN /\ At(c, "readManifest")
     /\ \E seen \in {manifests[k.id], None} :
          /\ Sees(seen, manifests[k.id])
          /\ CASE a.kind = "agent.create" ->
                    IF seen # None THEN Ends(c, "readManifest", "refused") ELSE Creates(c, NewCard(a))
               [] a.kind = "agent.update" ->
                    IF seen = None THEN Ends(c, "readManifest", "refused")
                    ELSE IF Unroutable(a, seen) \/ Nothing(Updates(a, seen)) THEN Ends(c, "readManifest", "refused")
                    ELSE Changes(c, Updates(a, seen))
               [] OTHER ->
                    IF a.dry \/ (seen # None /\ ~a.force) THEN Goes(c, "readManifest", k, {})
                    ELSE IF seen = None THEN Creates(c, NewCard(a)) ELSE Changes(c, RosterCard(a))
     /\ UNCHANGED <<tables, asked>>

\* The store's: a router that will be there is asserted, given or not.
ThenRouter(k, card) == {IF card.router # None THEN "assertRouter" ELSE k.then}
RereadManifest(c) ==
  LET k == doing[c]
  IN /\ At(c, "reread")
     /\ \E seen \in {manifests[k.id], None} :
          /\ Sees(seen, manifests[k.id])
          /\ IF seen = None THEN Ends(c, "reread", "thrown")
             ELSE Goes(c, "reread", [k EXCEPT !.card = CardOf(seen, k.card)], ThenRouter(k, CardOf(seen, k.card)))
     /\ UNCHANGED <<tables, asked>>

AssertAgent(c) ==
  /\ At(c, "assertAgent") /\ Asserts(c, "assertAgent", doing[c].id, "agent", ThenRouter(doing[c], doing[c].card))
  /\ UNCHANGED <<tables, asked>>
AssertRouter(c) ==
  /\ At(c, "assertRouter") /\ Asserts(c, "assertRouter", doing[c].card.router, "agent", {doing[c].then})
  /\ UNCHANGED <<tables, asked>>

\* One manifest to an agent: the index refuses a second.
createAgentCapabilityManifest(c) ==
  LET k == doing[c]
  IN /\ At(c, "insertManifest")
     /\ IF manifests[k.id] # None THEN Ends(c, "insertManifest", "thrown") /\ UNCHANGED manifests
        ELSE manifests' = [manifests EXCEPT ![k.id] = k.card] /\ Goes(c, "insertManifest", k, {})
     /\ UNCHANGED <<entities, dossiers, links, relations, been, asked, mishaps>>

updateAgentCapabilityManifest(c) ==
  LET k == doing[c]
  IN /\ At(c, "writeManifest")
     /\ manifests' = [manifests EXCEPT ![k.id] = k.card] /\ Goes(c, "writeManifest", k, {})
     /\ UNCHANGED <<entities, dossiers, links, relations, been, asked, mishaps>>

-----------------------------------------------------------------------------
(* Relations and links. *)

\* Both entities are looked for, then the relation is written over one of its kind.
createRelation(c) ==
  LET k == doing[c]
      there == entities[k.ask.id] # None /\ entities[k.ask.to] # None
  IN /\ At(c, "relate")
     /\ \E seen \in {there, FALSE} :
          /\ (seen = there /\ UNCHANGED mishaps) \/ (seen # there /\ Mishap)
          /\ IF seen THEN Goes(c, "relate", k, {"writeRelation"}) ELSE Ends(c, "relate", "refused")
     /\ UNCHANGED <<tables, asked>>

WriteRelation(c) ==
  LET k == doing[c]
  IN /\ At(c, "writeRelation")
     /\ relations' = relations \cup {[from |-> k.ask.id, to |-> k.ask.to]} /\ Goes(c, "writeRelation", k, {})
     /\ UNCHANGED <<entities, dossiers, manifests, links, been, asked, mishaps>>

FindBoth(c) ==
  LET k == doing[c]
  IN /\ At(c, "link")
     /\ \E seen \in {entities[k.ask.id], None} :
          /\ Sees(seen, entities[k.ask.id])
          /\ IF seen = None THEN Ends(c, "link", "refused")
             ELSE Goes(c, "link", [k EXCEPT !.id = k.ask.id], {"writeLink"})
     /\ UNCHANGED <<tables, asked>>

linkObservationToEntity(c) ==
  LET k == doing[c]
  IN /\ At(c, "writeLink")
     /\ links' = [links EXCEPT ![k.ask.obs] = k.id] /\ Goes(c, "writeLink", k, {})
     /\ UNCHANGED <<entities, dossiers, manifests, relations, been, asked, mishaps>>

\* Observations with tags and no entity, some of them when there are more than a batch.
Unlinked == {o \in Obs : Tags[o] # <<>> /\ links[o] = None}
queryEntityTagsForBackfill(c) ==
  LET k == doing[c]
  IN /\ At(c, "readTags")
     /\ \E rows \in SUBSET Unlinked :
          /\ Cardinality(rows) = Min({Batch, Cardinality(Unlinked)})
          /\ IF Cardinality(UNION {ToSet(Tags[o]) : o \in rows}) > TagCap THEN Ends(c, "readTags", "refused")
             ELSE Goes(c, "readTags", [k EXCEPT !.rows = rows], IF rows = {} THEN {} ELSE {"resolve"})
     /\ UNCHANGED <<tables, asked, mishaps>>

\* Every tag of theirs finds its entity or gets one, then each is linked to that of its first.
Unresolved(k) == (UNION {ToSet(Tags[o]) : o \in k.rows}) \ DOMAIN k.of
Resolves(k, tag, id) == [k EXCEPT !.of = [t \in DOMAIN k.of \cup {tag} |-> IF t = tag THEN id ELSE k.of[t]]]
AfterTag(k) == {IF Unresolved(k) = {} THEN "linkRows" ELSE "resolve"}

ResolveTag(c) ==
  LET k == doing[c]
  IN /\ At(c, "resolve")
     /\ \E tag \in Unresolved(k) : \E seen \in {Named(tag), None} :
          /\ Sees(seen, Named(tag))
          /\ IF seen # None THEN Goes(c, "resolve", Resolves(k, tag, seen), AfterTag(Resolves(k, tag, seen)))
             ELSE Goes(c, "resolve", [k EXCEPT !.tag = tag], {"insertTag"})
     /\ UNCHANGED <<tables, asked>>

InsertTag(c) ==
  LET k == doing[c]
      row == [name |-> k.tag, type |-> "concept", note |-> None]
  IN /\ At(c, "insertTag")
     /\ \/ Taken(k.tag, None) /\ Ends(c, "insertTag", "thrown") /\ UNCHANGED tables
        \/ /\ ~Taken(k.tag, None)
           /\ \E i \in EntityIds :
                /\ Fresh(i) /\ Stores(i, row)
                /\ Goes(c, "insertTag", Resolves(k, k.tag, i), AfterTag(Resolves(k, k.tag, i)))
           /\ UNCHANGED <<dossiers, manifests, links, relations>>
     /\ UNCHANGED <<asked, mishaps>>

\* (Slip: a row is linked to the entity of its last tag.)
LinkRow_Last(c) ==
  LET k == doing[c]
  IN /\ At(c, "linkRows")
     /\ \E o \in k.rows :
          /\ links' = [links EXCEPT ![o] = k.of[Last(Tags[o])]]
          /\ Goes(c, "linkRows", [k EXCEPT !.rows = @ \ {o}], IF k.rows = {o} THEN {} ELSE {"linkRows"})
     /\ UNCHANGED <<entities, dossiers, manifests, relations, been, asked, mishaps>>
LinkRow(c) ==
  LET k == doing[c]
  IN /\ At(c, "linkRows")
     /\ \E o \in k.rows :
          /\ links' = [links EXCEPT ![o] = k.of[Tags[o][1]]]
          /\ Goes(c, "linkRows", [k EXCEPT !.rows = @ \ {o}], IF k.rows = {o} THEN {} ELSE {"linkRows"})
     /\ UNCHANGED <<entities, dossiers, manifests, relations, been, asked, mishaps>>

\* Any statement that writes throws when its query fails, and so does the one that reads the tags.
Throwing == {"insertEntity", "writeEntity", "insertDossier", "writeDossier", "insertManifest", "writeManifest",
             "writeRelation", "writeLink", "readTags", "insertTag", "linkRows"}
StatementFails(c, step) ==
  /\ At(c, step) /\ Mishap /\ Ends(c, step, "thrown") /\ UNCHANGED <<tables, asked>>

Next ==
  \E c \in Clients :
    \/ \E a \in Wishes : Ask(c, a)
    \/ FindFree(c) \/ FindEntity(c) \/ FindProject(c) \/ FindAgent(c)
    \/ RefuseRoster(c) \/ FindResident(c, "find") \/ FindResident(c, "findAlias")
    \/ createEntity(c) \/ ReadEntity(c) \/ updateEntity(c)
    \/ AssertProject(c) \/ createProjectDossier(c) \/ ReadBase(c) \/ ReadDossier(c) \/ updateProjectDossier(c)
    \/ ReadManifest(c) \/ RereadManifest(c) \/ AssertAgent(c) \/ AssertRouter(c)
    \/ createAgentCapabilityManifest(c) \/ updateAgentCapabilityManifest(c)
    \/ createRelation(c) \/ WriteRelation(c) \/ FindBoth(c) \/ linkObservationToEntity(c)
    \/ queryEntityTagsForBackfill(c) \/ ResolveTag(c) \/ InsertTag(c) \/ LinkRow(c)
    \/ \E step \in Throwing : StatementFails(c, step)

Spec == Init /\ [][Next]_vars

-----------------------------------------------------------------------------
\* However calls of the tools overlap and whatever query fails, a manifest that is routed has
\* its router, and that is an entity that was an agent.
Routed ==
  \A i \in EntityIds : manifests[i] # None =>
    /\ manifests[i].mode = "router" => manifests[i].router # None
    /\ manifests[i].router # None => manifests[i].router \in EntityIds /\ "agent" \in been[manifests[i].router]

\* A dossier hangs on an entity that was a project, a manifest on one that was an agent, and
\* what relations and observations point at is there.
Rooted ==
  /\ \A i \in EntityIds : dossiers[i] # None => "project" \in been[i]
  /\ \A i \in EntityIds : manifests[i] # None => "agent" \in been[i]
  /\ \A o \in Obs : links[o] # None => links[o] \in EntityIds /\ been[links[o]] # {}
  /\ \A r \in relations : r.from \in EntityIds /\ been[r.from] # {} /\ r.to \in EntityIds /\ been[r.to] # {}

\* Entities of a tenant have different names, in any case of letters.
OneName ==
  \A i, j \in EntityIds :
    entities[i] # None /\ entities[j] # None /\ Folded[entities[i].name] = Folded[entities[j].name] => i = j

\* What one call after the other does is what was asked.  A refused call and a dry run change
\* nothing, and an exception leaves dossiers, manifests and links as they were; rows that are
\* not the call's own stay; routing that comes alone leaves the rest of the metadata; a manifest
\* gets the mode asked for, and loses its router with it; a backfill links what had no entity to
\* the one its first tag names, a batch at most, and leaves what is linked.
AsAsked ==
  \A c \in Clients : doing[c].ask # None /\ doing[c].todo = {} =>
    LET k == doing[c]
        a == k.ask
        was == k.before
        open == {o \in Obs : Tags[o] # <<>> /\ was.links[o] = None}
    IN /\ k.end = "refused" \/ a.dry =>
            was = [entities |-> entities, dossiers |-> dossiers, manifests |-> manifests, links |-> links, relations |-> relations]
       /\ k.end = "thrown" => <<dossiers, manifests, links>> = <<was.dossiers, was.manifests, was.links>>
       /\ \A i \in EntityIds \ {k.id} :
            /\ dossiers[i] = was.dossiers[i] /\ manifests[i] = was.manifests[i]
            /\ was.entities[i] # None => entities[i] = was.entities[i]
       /\ a.kind = "project.update" /\ a.metadata = Same /\ k.end = "none" =>
            dossiers[k.id].metadata.rest = was.dossiers[k.id].metadata.rest
       /\ a.kind \in {"agent.create", "agent.update"} /\ a.mode # Same /\ k.end = "none" =>
            /\ manifests[k.id].mode = a.mode
            /\ a.mode # "router" => manifests[k.id].router = None
       /\ a.kind # "link" => \A o \in Obs : was.links[o] # None => links[o] = was.links[o]
       /\ a.kind = "backfill" /\ k.end = "none" =>
            /\ Cardinality({o \in open : links[o] # None}) = Min({Batch, Cardinality(open)})
            /\ \A o \in open : links[o] # None => Folded[entities[links[o]].name] = Folded[Tags[o][1]]
=============================================================================
