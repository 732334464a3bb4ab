---------------------------- MODULE CliCommands ----------------------------
(***************************************************************************)
(* The command line as data: a command opens engines of its own, makes its *)
(* calls inside a try, and disposes the engines in a finally, one after    *)
(* the other.  A command is a record:                                      *)
(*   rejects  exit codes given before anything is opened                   *)
(*   opens    the engines, in the order they are disposed                  *)
(*   plans    the sequences of calls it may make                           *)
(*   exits    the codes of the errors it catches; any other ends with 1    *)
(*   cleanup  as of a route                                                *)
(*                                                                         *)
(* The engines of a command are used by nobody else, and a command does    *)
(* not look at the registry: the tenants are two labels of the settings.   *)
(***************************************************************************)
EXTENDS ApiRoutes

Tenant == <<"tenant">>
ControlPlane == <<"control">>

(* build_tenant_wiring: a label it does not know is a ValueError. *)
TenantCommand(plans) ==
    [rejects |-> {1}, opens |-> Tenant, plans |-> plans, exits |-> <<>>, cleanup |-> <<>>]
(* _build_repository of the catalogue's commands. *)
CatalogueCommand(plans) == [TenantCommand(plans) EXCEPT !.rejects = {}, !.opens = ControlPlane]
(* _load_config and _validate_required come before the engines: BadParameter. *)
Configured(command) == [command EXCEPT !.rejects = @ \union {2}]
(* The audit adapter has an engine of the control plane, disposed first. *)
Audited(command) == [command EXCEPT !.opens = ControlPlane \o @]
Exiting(command, exits) == [command EXCEPT !.exits = exits]

ControlRead == CallIn("control")
ControlWrite == [ControlRead EXCEPT !.writes = TRUE]
Graph == CallIn("graph")

(* An update reads the latest revision and inserts its successor in another
   session; what it refuses, nobody catches. *)
UpdatePlans(read, write) == {<<Raising(read, {"LookupError"}), Decide({"ValueError"}), write>>}

-----------------------------------------------------------------------------
(* -------------------- roles, methodologies, tools -------------------- *)

CreateRole == {<<Decide({"ValueError"}), ControlWrite>>}
GetRole == Found(ControlRead, "LookupError")
ListRoles == {<<ControlRead>>}
UpdateRole == UpdatePlans(ControlRead, ControlWrite)
ArchiveRole == {<<Raising(ControlWrite, {"LookupError"})>>}

RoleCreate == Configured(CatalogueCommand(CreateRole))
RoleGet == CatalogueCommand(GetRole)
RoleList == CatalogueCommand(ListRoles)
RoleUpdate == Configured(CatalogueCommand(UpdateRole))
RoleArchive == CatalogueCommand(ArchiveRole)

CreateMethodology == CreateRole
GetMethodology == GetRole
ListMethodologies == ListRoles
UpdateMethodology == UpdateRole
RetireMethodology == ArchiveRole

MethodologyCreate == Configured(CatalogueCommand(CreateMethodology))
MethodologyGet == CatalogueCommand(GetMethodology)
MethodologyList == CatalogueCommand(ListMethodologies)
MethodologyUpdate == Configured(CatalogueCommand(UpdateMethodology))
MethodologyRetire == CatalogueCommand(RetireMethodology)

CreateTool == {<<Decide({"ClassificationProhibited"}), ControlWrite>>}
GetTool == Found(ControlRead, "ToolNotFound")
ListTools == {<<ControlRead>>}

ToolCreate == Exiting(Configured(CatalogueCommand(CreateTool)), [ClassificationProhibited |-> 2])
ToolGet == Exiting(CatalogueCommand(GetTool), [ToolNotFound |-> 1])
ToolList == CatalogueCommand(ListTools)

-----------------------------------------------------------------------------
(* ------------------------------- agents ------------------------------ *)

CreateAgent == {<<Decide({"ValueError"}), Write>>}
GetAgent == Found(Read, "LookupError")
ListAgents == {<<Read>>}
UpdateAgent == UpdatePlans(Read, Write)
ArchiveAgent == {<<Raising(Write, {"LookupError"})>>}

AgentCreate == Configured(TenantCommand(CreateAgent))
AgentGet == TenantCommand(GetAgent)
AgentList == TenantCommand(ListAgents)
AgentUpdate == Configured(TenantCommand(UpdateAgent))
AgentArchive == TenantCommand(ArchiveAgent)

(* The role is resolved, and the sources looked up, before the agent is written. *)
CreateFrom(resolved) == {resolved \o <<SourceLookup.assert_sources_exist, Write>>}
Lookup == Raising(ControlRead, {"LookupError"})
CreateFromMethodology == CreateFrom(<<Lookup, Lookup>>)
CreateFromRole == CreateFrom(<<Lookup>>)

AgentCreateFromMethodology ==
    [Configured(TenantCommand(CreateFromMethodology))
     EXCEPT !.opens = ControlPlane \o ControlPlane \o Tenant]
AgentCreateFromRole == Audited(Configured(TenantCommand(CreateFromRole)))

(* run_invocation is a client of the API: its code is the terminal event's. *)
StreamRenderer == [InvocationFailed |-> 1, InvariantBlocked |-> 2]
RunInvocation == {<<Raising(Provider, DOMAIN StreamRenderer)>>}
AgentRunCommand ==
    [Exiting(TenantCommand(RunInvocation), StreamRenderer) EXCEPT !.opens = <<>>]

-----------------------------------------------------------------------------
(* ------------------------ retrieval evaluation ----------------------- *)

GoldSetCreate == TenantCommand(CreatePlans)
(* The candidates are shown, and the right ones chosen, before anything is read. *)
GoldSetAppend ==
    Exiting(TenantCommand({<<RetrievalClient.search_vector, Decide({"NoCandidates", "BadParameter"})>> \o p
                           : p \in AppendPlans}),
            [NoCandidates |-> 1, BadParameter |-> 2, GoldSetNotFound |-> 2])
GoldSetList == TenantCommand(Listed(RetrievalEvaluationCursor, GoldSetReader.list_gold_sets))
GoldSetGet ==
    Exiting(TenantCommand(Found(GoldSetReader.get_gold_set_with_current_revision, "GoldSetNotFound")),
            [GoldSetNotFound |-> 2])
GoldSetFinalize == Exiting(TenantCommand(FinalizePlans), [NoDraftToFinalize |-> 2, EmptyDraft |-> 3])

EvaluationRunStart ==
    [Exiting(Audited(TenantCommand(EvaluationPlans)),
             [GoldSetNotFound |-> 2, GoldSetMissingFinalizedRevision |-> 3])
     EXCEPT !.cleanup = EvaluationCleanup]
EvaluationRunGet ==
    Exiting(Audited(TenantCommand(Found(EvaluationRunReader.get_run_with_results_and_aggregates,
                                        "EvaluationRunNotFound"))),
            [EvaluationRunNotFound |-> 2])
EvaluationRunList ==
    Audited(TenantCommand(Listed(RetrievalEvaluationCursor, EvaluationRunReader.list_runs)))

-----------------------------------------------------------------------------
(* ---------------------------- optimization --------------------------- *)

OptimizationRun ==
    [Audited(TenantCommand(OptimizationPlans)) EXCEPT !.cleanup = OptimizationCleanup]
OptimizationGet ==
    Exiting(Audited(TenantCommand(Found(RecommendationReader.get_recommendation,
                                        "RecommendationNotFound"))),
            [RecommendationNotFound |-> 2])
OptimizationList ==
    Audited(TenantCommand(Listed(OptimizationCursor, RecommendationReader.list_recommendations)))
OptimizationLifecycle ==
    Exiting(Audited(TenantCommand(TransitionPlans)),
            [RecommendationNotFound |-> 2, TransitionNotPermitted |-> 3])
OptimizationRunGet ==
    Exiting(Audited(TenantCommand(Found(OptimizationRunReader.get_optimization_run,
                                        "OptimizationRunNotFound"))),
            [OptimizationRunNotFound |-> 2])
OptimizationRunList ==
    Audited(TenantCommand(Listed(OptimizationCursor, OptimizationRunReader.list_optimization_runs)))

-----------------------------------------------------------------------------
(* -------------------- ingestion and scoring sheets ------------------- *)

RunIngest == {<<Raising(SourceRepository.register, {"UnsupportedFileType"})>>}

(* One iteration: a stage is claimed, works in its own service, and is written;
   or nothing is pending. *)
RunWorker == {<<Write>>, <<Write, Provider, Write>>, <<Write, Provider, Graph, Write>>}
RunSearch == {<<RetrievalClient.search_vector>>}
RunTraverse == {<<RetrievalClient.traverse_graph, Graph>>}

(* CLIIngestError: the file, before the engine; its type, in the try. *)
IngestRun ==
    [Exiting(TenantCommand(RunIngest), [UnsupportedFileType |-> 2]) EXCEPT !.rejects = {1, 2}]
(* The driver of the graph is closed first. *)
IngestWorker ==
    [TenantCommand(RunWorker) EXCEPT !.rejects = {1, 2}, !.opens = <<"graph">> \o Tenant]
IngestSearch == [TenantCommand(RunSearch) EXCEPT !.rejects = {1, 2}]
IngestTraverse ==
    [TenantCommand(RunTraverse) EXCEPT !.rejects = {1, 2}, !.opens = <<"graph">> \o Tenant]

(* replay_and_score per revision, the traces awaited, and the comparison. *)
RunEval == {<<Read, Provider, Write, Provider, Read>>}
RunReport == {<<Read, Provider>>}
EvalRun == [TenantCommand(RunEval) EXCEPT !.rejects = {1, 2}, !.opens = <<"provider">> \o Tenant]
EvalReport == [TenantCommand(RunReport) EXCEPT !.rejects = {1, 2}, !.opens = <<"provider">> \o Tenant]

Commands ==
    {RoleCreate, RoleGet, RoleList, RoleUpdate, RoleArchive,
     MethodologyCreate, MethodologyGet, MethodologyList, MethodologyUpdate, MethodologyRetire,
     ToolCreate, ToolGet, ToolList,
     AgentCreate, AgentGet, AgentList, AgentUpdate, AgentArchive,
     AgentCreateFromMethodology, AgentCreateFromRole, AgentRunCommand,
     GoldSetCreate, GoldSetAppend, GoldSetList, GoldSetGet, GoldSetFinalize,
     EvaluationRunStart, EvaluationRunGet, EvaluationRunList,
     OptimizationRun, OptimizationGet, OptimizationList, OptimizationLifecycle,
     OptimizationRunGet, OptimizationRunList,
     IngestRun, IngestWorker, IngestSearch, IngestTraverse, EvalRun, EvalReport}
=============================================================================
