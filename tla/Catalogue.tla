----------------------------- MODULE Catalogue -----------------------------
(***************************************************************************)
(* The catalogue: roles, methodologies and tools in the control plane, and *)
(* the agent templates of one tenant, each a template with a chain of      *)
(* numbered, hash-linked revisions.                                        *)
(*                                                                         *)
(* Operators call the use cases concurrently.  A creation is one session.  *)
(* An update reads the latest revision in one session and inserts its      *)
(* successor in another; a clone resolves a methodology or role first and  *)
(* inserts the agent afterwards.  The tables keep the names of active      *)
(* templates unique, and the version numbers of a template.                *)
(*                                                                         *)
(* A hash is the sequence of the contents it binds, so two hashes are      *)
(* equal just when everything they bind is.  Templates are numbered in the *)
(* order of their creation and a number is never used again: the rows of a *)
(* deleted template are gone, its number stays.                            *)
(***************************************************************************)
EXTENDS Composition, ToolCompatibility

CONSTANTS Operators,     \* concurrent calls of operators
          TemplateNames, \* names given to templates by operators
          Scores,        \* values of min_score
          MaxCalls,      \* bound: calls made
          MaxEarlyCalls  \* bound: calls made before both databases are at their heads

ASSUME CatalogueAssumption ==
    MaxCalls \in Nat /\ MaxEarlyCalls \in Nat /\ Scores \subseteq Nat

VARIABLES db,     \* per kind: its templates with their revisions
          schema, \* data migration the control plane is at
          tenant, \* migration the tenant's database is at
          call,   \* per operator: the row its call is about to insert
          calls   \* number of calls made

vars == <<db, schema, tenant, call, calls>>

Kinds == {"role", "methodology", "tool", "agent"}

(* ------------------------------- rows ------------------------------- *)

GENESIS == <<>>
Hash(previous, name, body) == Append(previous, [name |-> name, body |-> body])

NewRow(name, body, previous, by, bc) ==
    [body |-> body, prev |-> previous, hash |-> Hash(previous, name, body),
     by |-> by, bc |-> bc]

Pin(id, version) == [id |-> id, version |-> version]
NoPin == Pin(0, 0)
NoLineage == [methodology |-> NoPin, role |-> NoPin]

NewTemplate(name, by, row, lineage) ==
    [name |-> name, by |-> by, status |-> "active", lineage |-> lineage,
     revs |-> <<row>>]

Exists(k, id) == id \in DOMAIN db[k] /\ db[k][id].status # "deleted"
Live(k) == {id \in DOMAIN db[k] : Exists(k, id)}
Version(k, id) == Len(db[k][id].revs)
HasRevision(k, pin) == Exists(k, pin.id) /\ pin.version \in 1..Version(k, pin.id)
Revision(k, pin) == db[k][pin.id].revs[pin.version]
Latest(k, id) == Revision(k, Pin(id, Version(k, id)))

\* The partial unique index on name: archived templates are outside it.
NameTaken(k, name) == \E id \in Live(k) : db[k][id].status = "active" /\ db[k][id].name = name

(* verify_chain_integrity of one template. *)
ChainVerifies(k, id) ==
    LET revs == db[k][id].revs
    IN \A v \in DOMAIN revs :
        /\ revs[v].prev = IF v = 1 THEN GENESIS ELSE revs[v - 1].hash
        /\ revs[v].hash = Hash(revs[v].prev, db[k][id].name, revs[v].body)

(* ------------------------------ contents ------------------------------ *)

\* An allowlist entry pins a tool to a revision; revision 0 is an entry that
\* gives the tool by its name, as entries did before they were pinned.
Entry(tool, revision) == [tool |-> tool, revision |-> revision]
RetrievalTool == 1
RetrievalEntry == Entry(RetrievalTool, 1)
RetrievalName == Entry(RetrievalTool, 0)

\* The fields of a bundle that differ between the bundles operators write;
\* the others are the same in all of them.
Bundle(allowlist, score) == [tool_allowlist |-> allowlist, min_score |-> score]

WholeBundle(body) ==
    [system_prompt |-> <<"role">>, tool_allowlist |-> body.tool_allowlist,
     retrieval_strategy |-> "parallel_rrf", filter_tree |-> {"tagged"},
     top_k |-> 5, min_score |-> body.min_score, model_selection |-> "default"]

RoleRef(role, version, overrides) ==
    [role |-> role, version |-> version, overrides |-> overrides]
RoleRefs(refs) == [role_refs |-> refs]

ToolContent(classification, parameters, returns) ==
    [classification |-> classification, parameters |-> parameters, returns |-> returns]

Property(types, required) == [types |-> types, required |-> required]

(* What an operator can write: the pins are those of existing revisions,   *)
(* whose identifiers are generated; a version of a role may not exist yet. *)
Allowlists ==
    {{}} \union UNION {{{Entry(t, v)} : v \in 1..Version("tool", t)} : t \in Live("tool")}

Bundles == {Bundle(a, s) : a \in Allowlists, s \in Scores}

Overridden(field, mode, value) == [f \in {field} |-> [mode |-> mode, value |-> value]]

RawOverrides ==
    {<<>>,
     [min_score |-> [mode |-> "bare", value |-> 2],
      tool_allowlist |-> [mode |-> "tighten", value |-> {Entry(RetrievalTool, 2)}]],
     Overridden("tool_allowlist", "replace", {RetrievalEntry}),
     Overridden("tool_allowlist", "augment", {RetrievalEntry})}

RawRoleRefs ==
    {<<RoleRef(r, v, raw)>> : r \in Live("role"), v \in 1..2, raw \in RawOverrides}

\* _to_role_refs: at least one entry, and only admissible overrides.
ToRoleRefs(raws) ==
    {[i \in DOMAIN raw |->
        [raw[i] EXCEPT !.overrides = ProjectOverrides(@)]] :
     raw \in {rs \in raws : rs # <<>> /\ \A i \in DOMAIN rs : ValidOverrides(rs[i].overrides)}}

(* What the results of a tool may be declared as: a text, or an object. *)
Text == [types |-> {"string"}, properties |-> <<>>]
Listing == [types |-> {"object"}, properties |-> [chunks |-> Property({"string"}, TRUE)]]

ToolSchemas ==
    {[parameters |-> [query |-> Property({"string"}, TRUE)], returns |-> Text],
     [parameters |-> [query |-> Property({"string", "number"}, TRUE)], returns |-> Text],
     [parameters |-> [query |-> Property({}, TRUE)], returns |-> Text],
     [parameters |-> [query |-> Property({"string"}, TRUE), limit |-> Property({"number"}, TRUE)],
      returns |-> Text],
     [parameters |-> [query |-> Property({"string"}, TRUE)], returns |-> Listing]}

-----------------------------------------------------------------------------
(* What an agent is invoked with *)

\* Variant: the version is looked up again at the invocation.
RoleLookup_Latest(pin) == Latest("role", pin.id).body

\* The role at the version asked for, not at its latest.
RoleLookup(pin) == Revision("role", pin).body

\* _resolve_role_view: the pinned role, or the agent's own latest revision.
ResolveRoleView(a) ==
    LET agent == db["agent"][a]
    IN IF agent.lineage.role # NoPin THEN RoleLookup(agent.lineage.role)
       ELSE Latest("agent", a).body

\* The overrides the pinned methodology states for the agent's role: those of
\* the first reference to it.
MethodologyOverridesLookup(lineage) ==
    LET refs == Revision("methodology", lineage.methodology).body.role_refs
        mine == {i \in DOMAIN refs : refs[i].role = lineage.role.id}
    IN IF mine = {} THEN <<>>
       ELSE refs[CHOOSE i \in mine : \A j \in mine : i <= j].overrides

OverridesOf(a) ==
    LET lineage == db["agent"][a].lineage
    IN IF lineage.methodology # NoPin /\ lineage.role # NoPin
       THEN MethodologyOverridesLookup(lineage) ELSE <<>>

EffectiveBundle(a) ==
    ComposeEffectiveConstraintBundle(WholeBundle(ResolveRoleView(a)), OverridesOf(a))

\* list_visible_definitions: entries that resolve to no revision are skipped.
VisibleDefinitions(allowlist) ==
    {[tool |-> e.tool, parameters |-> Revision("tool", Pin(e.tool, e.revision)).body.parameters] :
        e \in {f \in allowlist : HasRevision("tool", Pin(f.tool, f.revision))}}

InvokedWith(a) ==
    LET bundle == EffectiveBundle(a)
    IN [bundle |-> bundle, tools |-> VisibleDefinitions(bundle.tool_allowlist)]

\* Otherwise the invocation ends in a LookupError.
Resolves(a) ==
    LET lineage == db["agent"][a].lineage
    IN /\ lineage.role # NoPin => HasRevision("role", lineage.role)
       /\ lineage.role # NoPin /\ lineage.methodology # NoPin =>
            HasRevision("methodology", lineage.methodology)

-----------------------------------------------------------------------------
(* Calls *)

NoCall == [kind |-> "none"]
Serving == schema >= 10
ServingTenant == Serving /\ tenant = 10
InControlPlane == UNCHANGED <<schema, tenant>>

Begins(o) ==
    /\ call[o] = NoCall
    /\ calls < IF schema = 13 /\ tenant = 10 THEN MaxCalls ELSE MaxEarlyCalls
    /\ calls' = calls + 1

\* create_template: the template and its revision 1, in one commit.
CreateTemplate(k, name, body, lineage) ==
    /\ ~NameTaken(k, name)
    /\ db' = [db EXCEPT ![k] =
                Append(@, NewTemplate(name, "operator",
                                      NewRow(name, body, GENESIS, "operator", "none"), lineage))]

CreateRole(o) ==
    /\ Serving /\ Begins(o)
    /\ \E name \in TemplateNames, b \in Bundles : CreateTemplate("role", name, b, NoLineage)
    /\ UNCHANGED call /\ InControlPlane

CreateMethodology(o) ==
    /\ Serving /\ Begins(o)
    /\ \E name \in TemplateNames, refs \in ToRoleRefs(RawRoleRefs) :
        CreateTemplate("methodology", name, RoleRefs(refs), NoLineage)
    /\ UNCHANGED call /\ InControlPlane

\* Tools of a prohibited classification are refused.
CreateTool(o) ==
    /\ Serving /\ Begins(o)
    /\ \E name \in TemplateNames, c \in {"read-only", "legal"},
          schemas \in ToolSchemas :
        /\ c # "legal"
        /\ CreateTemplate("tool", name, ToolContent(c, schemas.parameters, schemas.returns), NoLineage)
    /\ UNCHANGED call /\ InControlPlane

CreateBlankAgent(o) ==
    /\ ServingTenant /\ Begins(o)
    /\ \E name \in TemplateNames, b \in Bundles : CreateTemplate("agent", name, b, NoLineage)
    /\ UNCHANGED call /\ InControlPlane

Holds(o, c) == call' = [call EXCEPT ![o] = c]

\* The successor of the latest revision, as computed from what was read.
ReadsLatest(o, k, id, body, bc) ==
    /\ Holds(o, [kind |-> k, id |-> id, version |-> Version(k, id) + 1, straddled |-> FALSE,
                 row |-> NewRow(db[k][id].name, body, Latest(k, id).hash, "operator", bc)])
    /\ UNCHANGED db /\ InControlPlane

\* An archived template is updated like any other.
UpdateRole(o) ==
    /\ Serving /\ Begins(o)
    /\ \E id \in Live("role"), b \in Bundles : ReadsLatest(o, "role", id, b, "none")

UpdateMethodology(o) ==
    /\ Serving /\ Begins(o)
    /\ \E id \in Live("methodology"), refs \in ToRoleRefs(RawRoleRefs) :
        ReadsLatest(o, "methodology", id, RoleRefs(refs), "none")

\* create_tool_revision: compared with the revision it is to succeed.
UpdateTool(o) ==
    /\ Serving /\ Begins(o)
    /\ \E id \in Live("tool"), schemas \in ToolSchemas :
        LET old == Latest("tool", id).body
            new == ToolContent(old.classification, schemas.parameters, schemas.returns)
        IN ReadsLatest(o, "tool", id, new, CheckRevisionCompatibility(old, new))

\* Only the tenant's own allowlist and score change; the lineage is kept.
UpdateAgent(o) ==
    /\ ServingTenant /\ Begins(o)
    /\ \E id \in Live("agent"), b \in Bundles : ReadsLatest(o, "agent", id, b, "none")

\* add_revision: the version must be free, and the template still there.
AddRevision(o) ==
    LET c == call[o]
    IN /\ Exists(c.kind, c.id)
       /\ c.version \notin 1..Version(c.kind, c.id)
       /\ db' = [db EXCEPT ![c.kind][c.id].revs = Append(@, c.row)]

CommitsUpdate(o, k) ==
    /\ call[o].kind = k /\ call[o].version > 1
    /\ AddRevision(o)
    /\ Holds(o, NoCall)
    /\ UNCHANGED calls /\ InControlPlane

CommitRoleUpdate(o) == CommitsUpdate(o, "role")
CommitMethodologyUpdate(o) == CommitsUpdate(o, "methodology")
CommitToolUpdate(o) == CommitsUpdate(o, "tool")
CommitAgentUpdate(o) == CommitsUpdate(o, "agent")

\* archive_template sets archived_at whatever it was.
Archives(o, k) ==
    /\ Begins(o)
    /\ \E id \in Live(k) : db' = [db EXCEPT ![k][id].status = "archived"]
    /\ UNCHANGED call /\ InControlPlane

ArchiveRole(o) == Serving /\ Archives(o, "role")
ArchiveMethodology(o) == Serving /\ Archives(o, "methodology")
ArchiveTool(o) == Serving /\ Archives(o, "tool")
ArchiveAgent(o) == ServingTenant /\ Archives(o, "agent")

(* clones *)

\* The agent to insert, its revision 1 cloned from the role it is pinned to.
ResolvesClone(o, lineage) ==
    \E name \in TemplateNames :
        /\ Holds(o, [kind |-> "agent", id |-> 0, version |-> 1, straddled |-> FALSE,
                     name |-> name, lineage |-> lineage,
                     row |-> NewRow(name, RoleLookup(lineage.role), GENESIS, "operator", "none")])
        /\ UNCHANGED db /\ InControlPlane

\* MethodologyLookup: the first role reference, at the version it names;
\* LookupError when there is none.
CreateAgentFromMethodology(o) ==
    /\ ServingTenant /\ Begins(o)
    /\ \E m \in Live("methodology") : \E v \in 1..Version("methodology", m) :
        LET refs == Revision("methodology", Pin(m, v)).body.role_refs
            role == Pin(refs[1].role, refs[1].version)
        IN /\ HasRevision("role", role)
           /\ ResolvesClone(o, [methodology |-> Pin(m, v), role |-> role])

CreateAgentFromRole(o) ==
    /\ ServingTenant /\ Begins(o)
    /\ \E r \in Live("role") : \E v \in 1..Version("role", r) :
        ResolvesClone(o, [methodology |-> NoPin, role |-> Pin(r, v)])

InsertClone(o) ==
    LET c == call[o]
    IN /\ c.kind = "agent" /\ c.version = 1
       /\ ~NameTaken("agent", c.name)
       /\ db' = [db EXCEPT !["agent"] = Append(@, NewTemplate(c.name, "operator", c.row, c.lineage))]
       /\ Holds(o, NoCall)
       /\ UNCHANGED calls /\ InControlPlane

\* IntegrityError: the version or the name was taken, or the template deleted.
InsertFails(o) ==
    /\ call[o] # NoCall
    /\ IF call[o].version = 1 THEN NameTaken("agent", call[o].name)
       ELSE ~Exists(call[o].kind, call[o].id) \/ call[o].version \in 1..Version(call[o].kind, call[o].id)
    /\ Holds(o, NoCall)
    /\ UNCHANGED <<db, calls>> /\ InControlPlane

CallStep ==
    \E o \in Operators :
        \/ CreateRole(o) \/ CreateMethodology(o) \/ CreateTool(o) \/ CreateBlankAgent(o)
        \/ UpdateRole(o) \/ UpdateMethodology(o) \/ UpdateTool(o) \/ UpdateAgent(o)
        \/ CommitRoleUpdate(o) \/ CommitMethodologyUpdate(o)
        \/ CommitToolUpdate(o) \/ CommitAgentUpdate(o)
        \/ ArchiveRole(o) \/ ArchiveMethodology(o) \/ ArchiveTool(o) \/ ArchiveAgent(o)
        \/ CreateAgentFromMethodology(o) \/ CreateAgentFromRole(o) \/ InsertClone(o)
        \/ InsertFails(o)

-----------------------------------------------------------------------------
(* list_roles_using_tool *)

RoleRows == UNION {{db["role"][r].revs[v] : v \in 1..Version("role", r)} : r \in Live("role")}

\* _extract_pinned_revision_id, of every revision of every role.
PinnedRevisions(t) ==
    {e.revision : e \in {f \in UNION {row.body.tool_allowlist : row \in RoleRows} : f.tool = t}}

\* Variant: only the latest outcome is looked at.
CanAutoAdopt_LatestOnly(t, pinned) ==
    /\ pinned \in 1..Version("tool", t)
    /\ pinned # Version("tool", t) => Latest("tool", t).bc # "failed"

\* Every revision after the pinned one passed; the first has no outcome.
CanAutoAdopt(t, pinned) ==
    /\ pinned \in 1..Version("tool", t)
    /\ \A v \in pinned + 1..Version("tool", t) : Revision("tool", Pin(t, v)).bc # "failed"

-----------------------------------------------------------------------------
(* Properties *)

Statuses == {"active", "archived", "deleted"}

\* Type invariant: the shape of the rows, and of what a call holds.
TypeOK ==
    /\ DOMAIN db = Kinds
    /\ \A k \in Kinds : \A id \in DOMAIN db[k] :
        /\ db[k][id].status \in Statuses
        /\ (db[k][id].status = "deleted") = (db[k][id].revs = <<>>)
        /\ \A v \in DOMAIN db[k][id].revs :
            /\ db[k][id].revs[v].bc \in {"none", "passed", "failed"}
            /\ db[k][id].revs[v].bc = "none" <=> (k # "tool" \/ v = 1)
            /\ Len(db[k][id].revs[v].hash) >= 1
    /\ \A o \in Operators : call[o].kind \in Kinds \union {"none"}
    /\ calls \in 0..MaxCalls

\* A methodology can only narrow the role it assigns, field by field, unless
\* its override says "replace": an agent cloned from it is never given a tool,
\* a pin of a tool, a lower score or a wider filter than its role.  (Before
\* 0006 a methodology has no overrides.)
NeverLooserThanItsRole ==
    schema >= 6 => \A a \in Live("agent") :
        db["agent"][a].lineage.role # NoPin /\ Resolves(a) =>
            LET role == WholeBundle(ResolveRoleView(a))
                bundle == EffectiveBundle(a)
                replaced == {f \in DOMAIN OverridesOf(a) : OverridesOf(a)[f].mode = "replace"}
            IN /\ "tool_allowlist" \in replaced \/ bundle.tool_allowlist \subseteq role.tool_allowlist
               /\ "min_score" \in replaced \/ bundle.min_score >= role.min_score
               /\ "top_k" \in replaced \/ bundle.top_k <= role.top_k
               /\ "filter_tree" \in replaced \/ role.filter_tree \subseteq bundle.filter_tree

\* Pins are pins: whatever operators do to its role, its methodology, its
\* tools or to itself, a cloned agent is invoked with the bundle and the tool
\* definitions it was invoked with before.  Only a migration changes them, and
\* only an entry that resolved to nothing can come to resolve.
PinnedIsFixed ==
    [][db' # db /\ schema' = schema /\ tenant' = tenant /\ schema >= 6 =>
        \A a \in Live("agent") :
            db["agent"][a].lineage.role # NoPin /\ Resolves(a) =>
                /\ Resolves(a)'
                /\ EffectiveBundle(a)' = EffectiveBundle(a)
                /\ InvokedWith(a).tools \subseteq InvokedWith(a)'.tools]_vars
=============================================================================
