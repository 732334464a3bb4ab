------------------------ MODULE CatalogueMigrations ------------------------
(***************************************************************************)
(* The data migrations of the catalogue, between the calls of Catalogue.   *)
(*                                                                         *)
(* The control plane goes from 0005 to 0013 and the tenant's database from *)
(* 0008 to 0010, a migration at a time; 0011 touches no row of the         *)
(* catalogue.  A migration is a function from the catalogue to the         *)
(* catalogue, applied in one transaction or, when a constraint refuses it, *)
(* not at all.  A deployment begins at 0005 with the methodology of an     *)
(* earlier release and an agent cloned from it, or at 0009 with a role of  *)
(* an earlier release.                                                     *)
(***************************************************************************)
EXTENDS Catalogue, TLC

CONSTANTS LegacyNames,   \* names of the methodologies of an earlier release
          MaxDowngrades  \* bound: downgrades of either database

ASSUME MigrationsAssumption == LegacyNames \subseteq {"LVT", "Other"} /\ MaxDowngrades \in Nat

VARIABLES downgrades, \* number of downgrades made
          disturbed   \* history: chains a listed event has been at, with the event

allVars == <<db, schema, tenant, call, calls, downgrades, disturbed>>

IdsUpTo(d, k, n) == {i \in 1..n : d[k][i].status # "deleted"}
LiveIn(d, k) == IdsUpTo(d, k, Len(d[k]))
Ordinal(d, k, id) == Cardinality(IdsUpTo(d, k, id))
ActiveNames(d, k) == {d[k][i].name : i \in {j \in LiveIn(d, k) : d[k][j].status = "active"}}
NamedIn(d, k, name) == {i \in LiveIn(d, k) : d[k][i].name = name}
RowIds(d, k) == UNION {{<<i, v>> : v \in DOMAIN d[k][i].revs} : i \in LiveIn(d, k)}

\* Templates whose rows a DELETE removes: the number stays.
Deleted(t) == [t EXCEPT !.status = "deleted", !.revs = <<>>]
DeleteBy(d, k, by) ==
    [i \in DOMAIN d[k] |-> IF d[k][i].by = by THEN Deleted(d[k][i]) ELSE d[k][i]]

\* The foreign key of revisions: rows left behind refuse the DELETE.
OnlyRowsBy(d, k, by) ==
    \A i \in LiveIn(d, k) : d[k][i].by = by =>
        \A v \in DOMAIN d[k][i].revs : d[k][i].revs[v].by = by

Allowlist(t, v) == t.revs[v].body.tool_allowlist

\* A chain written at once, from its contents and their authors.
Chain(name, bodies, by) ==
    LET row[v \in DOMAIN bodies] ==
            NewRow(name, bodies[v], IF v = 1 THEN GENESIS ELSE row[v - 1].hash, by[v], "none")
    IN row

(* Walking a chain forward: rows to skip stay as they are, the others get  *)
(* their new allowlist and the new hash of the row before them.  A skipped *)
(* row is either remembered as the row before, with the hash it has, or    *)
(* forgotten.                                                              *)
Rewalk(t, skipped, allowlists, remembers) ==
    LET revs == t.revs
        body(v) == [revs[v].body EXCEPT !.tool_allowlist = allowlists[v]]
        new[v \in DOMAIN revs] ==
            LET before == {u \in 1..v - 1 : remembers \/ u \notin skipped}
                previous == IF before = {} THEN revs[v].prev
                            ELSE new[CHOOSE u \in before : \A w \in before : w <= u].hash
            IN IF v \in skipped THEN revs[v]
               ELSE [revs[v] EXCEPT !.body = body(v), !.prev = previous,
                                    !.hash = Hash(previous, t.name, body(v))]
    IN [t EXCEPT !.revs = new]

-----------------------------------------------------------------------------
(* 0006_methodology_role_refs *)

RoleNameOf == [LVT |-> "LVTRole", LVTGuide |-> "LVTGuideRole", Other |-> "OtherRole"]
By0006 == "migration:0006"

\* One role per methodology, from the bundle of its first revision.
AutoRole(t) ==
    NewTemplate(RoleNameOf[t.name], By0006,
                NewRow(RoleNameOf[t.name], t.revs[1].body, GENESIS, By0006, "none"), NoLineage)

\* Variant: a revision refers to the version of the role of its own number.
WithRoleRef_OwnVersion(t, role) ==
    [t EXCEPT !.revs = Chain(t.name, [v \in DOMAIN t.revs |-> RoleRefs(<<RoleRef(role, v, <<>>)>>)],
                             [v \in DOMAIN t.revs |-> t.revs[v].by])]

\* Every revision refers to that role's version 1, chained from the genesis.
WithRoleRef(t, role) ==
    [t EXCEPT !.revs = Chain(t.name, [v \in DOMAIN t.revs |-> RoleRefs(<<RoleRef(role, 1, <<>>)>>)],
                             [v \in DOMAIN t.revs |-> t.revs[v].by])]

Up0006(d) ==
    LET role(m) == Len(d["role"]) + Ordinal(d, "methodology", m)
        of(i) == CHOOSE m \in LiveIn(d, "methodology") : role(m) = i
    IN [d EXCEPT
          !["role"] = [i \in 1..Len(@) + Cardinality(LiveIn(d, "methodology")) |->
                        IF i <= Len(@) THEN @[i] ELSE AutoRole(d["methodology"][of(i)])],
          !["methodology"] = [m \in DOMAIN @ |->
                        IF m \in LiveIn(d, "methodology") THEN WithRoleRef(@[m], role(m)) ELSE @[m]]]

\* Two methodologies of one name, or a role that has the name, refuse it.
Can0006(d) ==
    LET names(m) == RoleNameOf[d["methodology"][m].name]
    IN \A m \in LiveIn(d, "methodology") :
        /\ names(m) \notin ActiveNames(d, "role")
        /\ \A n \in LiveIn(d, "methodology") \ {m} : names(n) # names(m)

\* The bundle of the first reference comes back; the hashes stay.
RestoredBody(d, body) ==
    LET ref == body.role_refs[1]
    IN d["role"][ref.role].revs[ref.version].body

WithBundle(d, t) ==
    [t EXCEPT !.revs = [v \in DOMAIN t.revs |->
        [t.revs[v] EXCEPT !.body = RestoredBody(d, t.revs[v].body)]]]

Down0006(d) ==
    [d EXCEPT !["methodology"] = [m \in DOMAIN @ |-> WithBundle(d, @[m])],
              !["role"] = DeleteBy(d, "role", By0006)]

CanDown0006(d) ==
    /\ \A r \in RowIds(d, "methodology") :
        LET ref == d["methodology"][r[1]].revs[r[2]].body.role_refs[1]
        IN ref.role \in LiveIn(d, "role") /\ ref.version \in DOMAIN d["role"][ref.role].revs
    /\ OnlyRowsBy(d, "role", By0006)

(* 0007_lvt_split *)

ToRename(d, old) == {i \in NamedIn(d, "role", old) : d["role"][i].by = By0006}

\* _rename_role: the name of the template, and the hash of version 1 only.
Renamed(t, new) ==
    [t EXCEPT !.name = new, !.revs[1].hash = Hash(t.revs[1].prev, new, t.revs[1].body)]

RenameRole(d, old, new) ==
    [d EXCEPT !["role"] = [i \in DOMAIN @ |->
        IF i \in ToRename(d, old) THEN Renamed(@[i], new) ELSE @[i]]]

CanRename(d, old, new) == ToRename(d, old) = {} \/ new \notin ActiveNames(d, "role")

(* 0008_create_mckinsey_7_step, with SeededRoles for its seven roles *)

SeededRoles == <<"ProblemFramer">>
McKinsey == "McKinsey7Step"
By0008 == "migration:0008"

SeededRole(name) ==
    NewTemplate(name, By0008, NewRow(name, Bundle({}, 1), GENESIS, By0008, "none"), NoLineage)

SeededMethodology(first) ==
    NewTemplate(McKinsey, By0008,
        NewRow(McKinsey,
               RoleRefs([i \in DOMAIN SeededRoles |->
                    RoleRef(first + i, 1, Overridden("system_prompt", "augment", <<SeededRoles[i]>>))]),
               GENESIS, By0008, "none"),
        NoLineage)

Up0008(d) ==
    IF NamedIn(d, "methodology", McKinsey) # {} THEN d
    ELSE [d EXCEPT !["role"] = @ \o [i \in DOMAIN SeededRoles |-> SeededRole(SeededRoles[i])],
                   !["methodology"] = Append(@, SeededMethodology(Len(d["role"])))]

Can0008(d) ==
    \/ NamedIn(d, "methodology", McKinsey) # {}
    \/ \A i \in DOMAIN SeededRoles : SeededRoles[i] \notin ActiveNames(d, "role")

Down0008(d) ==
    [d EXCEPT !["role"] = DeleteBy(d, "role", By0008),
              !["methodology"] = DeleteBy(d, "methodology", By0008)]

CanDown0008(d) == OnlyRowsBy(d, "role", By0008) /\ OnlyRowsBy(d, "methodology", By0008)

(* 0009_create_tools_tables *)

By0009 == "migration:0009"
RetrievalContent ==
    ToolContent("read-only", [query |-> Property({"string"}, TRUE)], Text)

\* The retrieval tool has a fixed identifier.
SeededTool ==
    NewTemplate("retrieval", By0009,
                NewRow("retrieval", RetrievalContent, GENESIS, By0009, "none"), NoLineage)

Up0009(d) ==
    [d EXCEPT !["tool"] = [t \in {RetrievalTool} \union DOMAIN @ |->
                            IF t = RetrievalTool THEN SeededTool ELSE @[t]]]

Down0009(d) == [d EXCEPT !["tool"] = [t \in DOMAIN @ |-> Deleted(@[t])]]

(* 0010_role_tool_allowlist_pin, and the tenants' 0010_agent_tool_allowlist_pin *)

IsName(e) == e.revision = 0
Pinned(t) ==
    [v \in DOMAIN t.revs |-> {IF IsName(e) THEN RetrievalEntry ELSE e : e \in Allowlist(t, v)}]
Unpinned(t) == [v \in DOMAIN t.revs |-> {Entry(e.tool, 0) : e \in Allowlist(t, v)}]

\* Rows that have pins already are passed over.
RowsWithPins(t) == {v \in DOMAIN t.revs : \E e \in Allowlist(t, v) : ~IsName(e)}
RowsWithNames(t) == {v \in DOMAIN t.revs : \E e \in Allowlist(t, v) : IsName(e)}

\* Variant: only the rows with a name in their allowlist are walked.
PinAllowlists_NamesOnly(d, k) ==
    [d EXCEPT ![k] = [i \in DOMAIN @ |->
        Rewalk(@[i], (DOMAIN @[i].revs) \ RowsWithNames(@[i]), Pinned(@[i]), FALSE)]]

PinAllowlists(d, k) ==
    [d EXCEPT ![k] = [i \in DOMAIN @ |-> Rewalk(@[i], RowsWithPins(@[i]), Pinned(@[i]), FALSE)]]
UnpinAllowlists(d, k) ==
    [d EXCEPT ![k] = [i \in DOMAIN @ |-> Rewalk(@[i], RowsWithNames(@[i]), Unpinned(@[i]), FALSE)]]

EntriesOf(d, k) == UNION {d[k][r[1]].revs[r[2]].body.tool_allowlist : r \in RowIds(d, k)}

\* Only "retrieval" is known by name; a pin must name a tool that is there.
CanPin(d, k) == \A e \in EntriesOf(d, k) : IsName(e) => e = RetrievalName
CanUnpin(d, k) ==
    \A e \in EntriesOf(d, k) : e.tool = RetrievalTool \/ e.tool \in LiveIn(d, "tool")

(* 0012_role_allowlist_retrieval_closure *)

NamedRoles == {"LVTGuide"} \union {SeededRoles[i] : i \in DOMAIN SeededRoles}
OfNamedRoles(d) == {i \in LiveIn(d, "role") : d["role"][i].name \in NamedRoles}

WithRetrieval(t) == [v \in DOMAIN t.revs |-> {RetrievalEntry}]
WithoutRetrieval(t) == [v \in DOMAIN t.revs |-> Allowlist(t, v) \ {RetrievalEntry}]

\* Rows with an allowlist are skipped, their hash taken for the row before;
\* on the way down the rows without the retrieval entry are.
RowsWithAllowlist(t) == {v \in DOMAIN t.revs : Allowlist(t, v) # {}}
RowsLackingRetrieval(t) == {v \in DOMAIN t.revs : RetrievalEntry \notin Allowlist(t, v)}

Up0012(d) ==
    [d EXCEPT !["role"] = [i \in DOMAIN @ |->
        IF i \notin OfNamedRoles(d) THEN @[i]
        ELSE Rewalk(@[i], RowsWithAllowlist(@[i]), WithRetrieval(@[i]), TRUE)]]
Down0012(d) ==
    [d EXCEPT !["role"] = [i \in DOMAIN @ |->
        IF i \notin OfNamedRoles(d) THEN @[i]
        ELSE Rewalk(@[i], RowsLackingRetrieval(@[i]), WithoutRetrieval(@[i]), TRUE)]]

\* A row is skipped after one that is rewritten.
SkipsAfterRewrite(t, skipped) ==
    \E u \in (DOMAIN t.revs) \ skipped, v \in skipped : u < v

(* 0013_lvtguide_reseed *)

By0013 == "migration:0013"

\* A template of the name, archived or not, is enough to leave it.
Up0013(d) ==
    IF NamedIn(d, "role", "LVTGuide") # {} THEN d
    ELSE [d EXCEPT !["role"] = Append(@, NewTemplate("LVTGuide", By0013,
            NewRow("LVTGuide", Bundle({RetrievalEntry}, 1), GENESIS, By0013, "none"), NoLineage))]

Down0013(d) == [d EXCEPT !["role"] = DeleteBy(d, "role", By0013)]

(* the tenants' 0009_agent_role_lineage *)

WithRole(t, pin) == [t EXCEPT !.lineage.role = pin]

\* _backfill_role_lineage: the first reference of the methodology revision.
Backfilled(d, t) ==
    LET m == t.lineage.methodology
        ref == d["methodology"][m.id].revs[m.version].body.role_refs[1]
    IN IF m # NoPin /\ m.id \in LiveIn(d, "methodology")
          /\ m.version \in DOMAIN d["methodology"][m.id].revs
       THEN WithRole(t, Pin(ref.role, ref.version)) ELSE t

BackfillRoleLineage(d) ==
    [d EXCEPT !["agent"] = [a \in DOMAIN @ |-> Backfilled(d, @[a])]]

DropRoleLineage(d) ==
    [d EXCEPT !["agent"] = [a \in DOMAIN @ |-> WithRole(@[a], NoPin)]]

-----------------------------------------------------------------------------
(* Steps *)

Straddle ==
    call' = [o \in Operators |->
        IF call[o] = NoCall THEN NoCall ELSE [call[o] EXCEPT !.straddled = TRUE]]

Disturb(k, ids, event) == disturbed' = disturbed \union {<<k, i, event>> : i \in ids}

Up(from, to) == schema = from /\ schema' = to /\ UNCHANGED <<tenant, downgrades>>
Down(from, to) ==
    /\ schema = from /\ schema' = to
    /\ downgrades < MaxDowngrades /\ downgrades' = downgrades + 1
    /\ UNCHANGED tenant

Rewrites(d) == db' = d /\ Straddle /\ UNCHANGED calls

UpgradeMethodologyRoleRefs ==
    /\ Up(5, 6) /\ Can0006(db)
    /\ Rewrites(Up0006(db))
    \* the whole chain is anchored again
    /\ disturbed' = {x \in disturbed : x[1] # "methodology"}

DowngradeMethodologyRoleRefs ==
    /\ Down(6, 5) /\ CanDown0006(db)
    /\ Rewrites(Down0006(db))
    /\ Disturb("methodology", LiveIn(db, "methodology"), "not rehashed")

Longer(ids) == {i \in ids : Len(db["role"][i].revs) > 1}

UpgradeLvtSplit ==
    /\ Up(6, 7) /\ CanRename(db, "LVTRole", "LVTGuide")
    /\ Rewrites(RenameRole(db, "LVTRole", "LVTGuide"))
    /\ Disturb("role", Longer(ToRename(db, "LVTRole")), "renamed")

DowngradeLvtSplit ==
    /\ Down(7, 6) /\ CanRename(db, "LVTGuide", "LVTRole")
    /\ Rewrites(RenameRole(db, "LVTGuide", "LVTRole"))
    /\ Disturb("role", Longer(ToRename(db, "LVTGuide")), "renamed")

UpgradeMcKinsey ==
    /\ Up(7, 8) /\ Can0008(db)
    /\ Rewrites(Up0008(db))
    /\ UNCHANGED disturbed

DowngradeMcKinsey ==
    /\ Down(8, 7) /\ CanDown0008(db)
    /\ Rewrites(Down0008(db))
    /\ UNCHANGED disturbed

UpgradeTools == Up(8, 9) /\ Rewrites(Up0009(db)) /\ UNCHANGED disturbed
DowngradeTools == Down(9, 8) /\ Rewrites(Down0009(db)) /\ UNCHANGED disturbed

UpgradeAllowlistPin ==
    /\ Up(9, 10) /\ CanPin(db, "role")
    /\ Rewrites(PinAllowlists(db, "role"))
    /\ UNCHANGED disturbed

DowngradeAllowlistPin ==
    /\ Down(10, 9) /\ CanUnpin(db, "role")
    /\ Rewrites(UnpinAllowlists(db, "role"))
    /\ UNCHANGED disturbed

UpgradeRetrievalClosure ==
    /\ Up(10, 12)
    /\ Rewrites(Up0012(db))
    /\ Disturb("role", {i \in OfNamedRoles(db) :
            SkipsAfterRewrite(db["role"][i], RowsWithAllowlist(db["role"][i]))}, "skipped")

DowngradeRetrievalClosure ==
    /\ Down(12, 10)
    /\ Rewrites(Down0012(db))
    /\ Disturb("role", {i \in OfNamedRoles(db) :
            SkipsAfterRewrite(db["role"][i], RowsLackingRetrieval(db["role"][i]))}, "skipped")

UpgradeLvtGuideReseed == Up(12, 13) /\ Rewrites(Up0013(db)) /\ UNCHANGED disturbed
DowngradeLvtGuideReseed == Down(13, 12) /\ Rewrites(Down0013(db)) /\ UNCHANGED disturbed

\* Tenants are upgraded when the control plane is at its head (ops/migrate.py).
TenantUp(from, to) ==
    /\ schema = 13 /\ tenant = from /\ tenant' = to
    /\ UNCHANGED <<schema, downgrades, disturbed>>
TenantDown(from, to) ==
    /\ tenant = from /\ tenant' = to
    /\ downgrades < MaxDowngrades /\ downgrades' = downgrades + 1
    /\ UNCHANGED <<schema, disturbed>>

UpgradeRoleLineage == TenantUp(8, 9) /\ Rewrites(BackfillRoleLineage(db))
DowngradeRoleLineage == TenantDown(9, 8) /\ Rewrites(DropRoleLineage(db))
UpgradeAgentAllowlistPin ==
    TenantUp(9, 10) /\ CanPin(db, "agent") /\ Rewrites(PinAllowlists(db, "agent"))
DowngradeAgentAllowlistPin ==
    TenantDown(10, 9) /\ CanUnpin(db, "agent") /\ Rewrites(UnpinAllowlists(db, "agent"))

MigrationStep ==
    \/ UpgradeMethodologyRoleRefs \/ DowngradeMethodologyRoleRefs
    \/ UpgradeLvtSplit \/ DowngradeLvtSplit
    \/ UpgradeMcKinsey \/ DowngradeMcKinsey
    \/ UpgradeTools \/ DowngradeTools
    \/ UpgradeAllowlistPin \/ DowngradeAllowlistPin
    \/ UpgradeRetrievalClosure \/ DowngradeRetrievalClosure
    \/ UpgradeLvtGuideReseed \/ DowngradeLvtGuideReseed
    \/ UpgradeRoleLineage \/ DowngradeRoleLineage
    \/ UpgradeAgentAllowlistPin \/ DowngradeAgentAllowlistPin

\* A call that a migration came across leaves its mark on the chain it extends.
Straddlers ==
    {<<call[o].kind, call[o].id, "straddled">> :
        o \in {p \in Operators : call[p] # NoCall /\ call'[p] = NoCall /\ call[p].straddled}}

Call == CallStep /\ disturbed' = disturbed \union Straddlers /\ UNCHANGED downgrades

Next == Call \/ MigrationStep

-----------------------------------------------------------------------------
Empty == [k \in Kinds |-> <<>>]

Legacy(name, bodies) ==
    [name |-> name, by |-> "operator", status |-> "active", lineage |-> NoLineage,
     revs |-> Chain(name, bodies, [v \in DOMAIN bodies |-> "operator"])]

LegacyBundle(allowlist) == Bundle(allowlist, 1)
LegacyChains ==
    {<<LegacyBundle({RetrievalName})>>,
     <<LegacyBundle({}), LegacyBundle({RetrievalName})>>,
     <<LegacyBundle({RetrievalName}), LegacyBundle({})>>}

\* A methodology with its bundle, and an agent cloned from one revision of it.
LegacyMethodology(name, chain, v) ==
    [Empty EXCEPT
        !["methodology"] = <<Legacy(name, chain)>>,
        !["agent"] = <<[Legacy("agent", <<chain[v]>>) EXCEPT
                            !.lineage.methodology = Pin(1, v)]>>]

\* A role authored after 0008, with tools by name.
LegacyRole(chain) == Up0009(Up0008([Empty EXCEPT !["role"] = <<Legacy("Other", chain)>>]))

Init ==
    /\ \/ /\ schema = 5
          /\ \E name \in LegacyNames, chain \in LegacyChains : \E v \in DOMAIN chain :
                db = LegacyMethodology(name, chain, v)
       \/ /\ schema = 9
          /\ \E chain \in LegacyChains :
                /\ Len(chain) > 1
                /\ db = LegacyRole(chain)
    /\ tenant = 8
    /\ call = [o \in Operators |-> NoCall]
    /\ calls = 0
    /\ downgrades = 0
    /\ disturbed = {}

Symmetry == Permutations(Operators)

Spec == Init /\ [][Next]_allVars

-----------------------------------------------------------------------------
(* Properties *)

\* Every chain verifies, for calls racing each other and for every migration
\* that walks a chain, except the chains of which the history says otherwise:
\* extended by a call that read before a migration and inserted after it,
\* renamed with more than one revision by 0007, brought back by 0006's
\* downgrade, or walked by 0012 over a row it skips.
IntactUnlessDisturbed ==
    \A k \in Kinds : \A i \in Live(k) :
        ChainVerifies(k, i) \/ \E x \in disturbed : x[1] = k /\ x[2] = i

\* A role revision that list_roles_using_tool says can adopt the latest
\* revision of a tool automatically may do so: every call written against the
\* parameters it pins is accepted by the latest, and every property of the
\* results it reads is still there.  Except that the check takes a property
\* without a "type" as compatible with any type, so that one in between
\* hides a narrowing; and that an update read before a migration deletes and
\* seeds the tool again is compared with a revision that is gone.
AdoptionIsSafe ==
    \A t \in Live("tool") : \A pinned \in PinnedRevisions(t) :
        LET content(v) == Revision("tool", Pin(t, v)).body
            latest == content(Version("tool", t))
            typed == \A v \in pinned..Version("tool", t) - 1 :
                        \A p \in DOMAIN content(v).parameters : ~Untyped(content(v).parameters[p])
        IN pinned # 0 /\ CanAutoAdopt(t, pinned) /\ typed
           /\ <<"tool", t, "straddled">> \notin disturbed =>
            /\ ServesCallsOf(latest.parameters, content(pinned).parameters)
            /\ DOMAIN content(pinned).returns.properties \subseteq DOMAIN latest.returns.properties

\* A cloned agent can be invoked: what it was cloned from is there for ever,
\* archived or not, although no foreign key reaches from the tenant's database
\* to the control plane.  Only the downgrades that delete templates break it.
AgentsResolve ==
    \A a \in Live("agent") :
        LET lineage == db["agent"][a].lineage
            gone(k, pin) == pin.id \in DOMAIN db[k] /\ db[k][pin.id].status = "deleted"
        IN \/ Resolves(a)
           \/ gone("role", lineage.role) \/ gone("methodology", lineage.methodology)
=============================================================================
