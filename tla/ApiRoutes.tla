----------------------------- MODULE ApiRoutes -----------------------------
(***************************************************************************)
(* The HTTP surface as data: what a route asks of a request before it does *)
(* anything, the calls it then makes, and the status each error becomes.   *)
(*                                                                         *)
(* A route is a record:                                                    *)
(*   query    errors of parsing its query, when that comes first           *)
(*   scope    "tenant": get_tenant_context; "operator": the platform       *)
(*            operator's principal; "role": any principal with the role of *)
(*            an operator, looked at once the ports are there              *)
(*   needs    the ports it depends on, each a 503 when not configured      *)
(*   plans    the sequences of calls it may make, over what they find      *)
(*   errors   statuses the handler gives errors itself                     *)
(*   cleanup  the calls of its except clause, once a call has committed    *)
(*   streams  whether it answers 200 before its first call                 *)
(* Any route may refuse what pydantic refuses: 422, after its dependencies *)
(***************************************************************************)
EXTENDS Ports, Sequences

GET(needs, plans) ==
    [query |-> {}, scope |-> "tenant", needs |-> needs, plans |-> plans,
     errors |-> <<>>, cleanup |-> <<>>, streams |-> FALSE]
POST(needs, plans) == GET(needs, plans)
QueryFirst(route, errors) == [route EXCEPT !.query = errors]
ForOperator(route) == [route EXCEPT !.scope = "operator"]

-----------------------------------------------------------------------------
(* ------------------------- parsing of queries ------------------------ *)

(* Two datetimes of which one has no zone cannot be compared. *)
MixedZones == "TypeError of mixed datetimes"

(* What decoding a cursor raises, in each context's own class. *)
RunHistoryCursor == {"run_history_MalformedCursor"}
AuditCursor == {"audit_MalformedCursor"}
IngestionCursor == {"ingestion_MalformedCursor"}
RetrievalEvaluationCursor == {"retrieval_evaluation_MalformedCursor"}
OptimizationCursor == {"optimization_MalformedCursor"}

(* RunListFilters rejects an unknown reason by itself. *)
RunListQuery ==
    RunHistoryCursor \union {"InvalidFilterRange", MixedZones, "ValueError of termination_reason"}

(* What the audit filters reject becomes InvalidAuditFilter. *)
AuditListQuery == AuditCursor \union {"InvalidAuditFilter", MixedZones}

SourceListQuery == IngestionCursor

(* The other lists decode their cursor in the use case, after the dependencies. *)
RecommendationListQuery == OptimizationCursor \union {"InvalidOptimizationFilter"}

-----------------------------------------------------------------------------
(* ------------------------------- plans ------------------------------- *)

Found(read, error) == {<<Raising(read, {error})>>}
Listed(errors, read) == {<<Decide(errors), read>>}

(* create_gold_set: the domain refuses a name of blanks, which the DTO lets in. *)
CreatePlans == {<<Decide({"ValueError of blanks"}), GoldSetRepository.persist_new_gold_set>>}

(* append_entry_to_revision: a draft is opened when there is none. *)
AppendPlans ==
    LET entry == <<GoldSetReader.get_revision_with_entries,
                   Decide({"ValueError of blanks"}), GoldSetRepository.append_entry>>
    IN  {<<GoldSetReader.find_current_draft_revision>> \o entry,
         <<GoldSetReader.find_current_draft_revision,
           Raising(GoldSetReader.get_gold_set_with_current_revision, {"GoldSetNotFound"}),
           GoldSetRepository.open_new_draft_revision>> \o entry}

FinalizePlans ==
    {<<Raising(GoldSetReader.find_current_draft_revision, {"NoDraftToFinalize"}),
       Raising(GoldSetReader.get_revision_with_entries, {"EmptyDraft"}),
       GoldSetReader.get_gold_set_with_current_revision,
       GoldSetRepository.finalize_revision>>}

(* run_retrieval_evaluation, over one entry: a run is persisted once the gold
   set is known to have entries, and every step is audited. *)
EvaluationPlans ==
    {<<Raising(GoldSetReader.get_gold_set_with_current_revision,
               {"GoldSetNotFound", "GoldSetMissingFinalizedRevision"}),
       EvaluationRunRepository.persist_run, AuditPort("tenant").emit, RetrievalRunner.run,
       EvaluationRunRepository.persist_result, AuditPort("tenant").emit,
       EvaluationRunRepository.persist_aggregate, AuditPort("tenant").emit,
       EvaluationRunRepository.mark_completed, AuditPort("tenant").emit>>}
EvaluationCleanup == <<EvaluationRunRepository.mark_failed, AuditPort("tenant").emit>>

(* run_optimization, of rules that gather evidence and recommend, or not. *)
OptimizationPlans ==
    LET gathered == <<OptimizationRunRepository.persist_run, AuditPort("tenant").emit,
                      EvaluationRunReader.list_runs>>
        recommended == <<RecommendationRepository.persist_recommendation, AuditPort("tenant").emit>>
        completed == <<OptimizationRunRepository.mark_completed, AuditPort("tenant").emit>>
    IN  {gathered \o completed, gathered \o recommended \o completed}
OptimizationCleanup == <<OptimizationRunRepository.mark_failed, AuditPort("tenant").emit>>

(* perform_transition: the recommendation, what its status permits, one commit. *)
TransitionPlans ==
    {<<Raising(RecommendationReader.get_recommendation,
               {"RecommendationNotFound", "TransitionNotPermitted"}),
       RecommendationRepository.persist_status_transition, AuditPort("tenant").emit>>}

(* invoke_agent: the agent and its role, the audited start, the loop, the
   audited end, and the record once the terminal event is out. *)
InvokePlans ==
    LET begin == <<Read, CallIn("control"), AuditPort("tenant").emit>>
        finish == <<Provider, AuditPort("tenant").emit, RunHistoryWriter.record_run>>
    IN  {begin \o finish, begin \o <<RetrievalClient.search_vector>> \o finish}

-----------------------------------------------------------------------------
(* ------------------------------- routes ------------------------------ *)

GetRun == GET(<<"run_history_reader", "security_events">>,
              Found(RunHistoryReader.get_run, "RunNotFound"))
ListRuns == QueryFirst(GET(<<"run_history_reader">>, {<<RunHistoryReader.list_runs_with_filters>>}),
                       RunListQuery)

GetTenantAuditEvent ==
    GET(<<"audit_event_reader">>, Found(AuditEventReader("tenant").get_audit_event, "AuditEventNotFound"))
ListTenantAuditEvents ==
    QueryFirst(GET(<<"audit_event_reader">>, {<<AuditEventReader("tenant").list_audit_events_with_filters>>}),
               AuditListQuery)
GetPlatformAuditEvent ==
    ForOperator(GET(<<"audit_event_reader">>,
                    Found(AuditEventReader("control").get_audit_event, "AuditEventNotFound")))
ListPlatformAuditEvents ==
    ForOperator(QueryFirst(GET(<<"audit_event_reader">>,
                               {<<AuditEventReader("control").list_audit_events_with_filters>>}),
                           AuditListQuery))

GetSource == GET(<<"source_repository">>, Found(SourceRepository.get, "IngestionSourceNotFound"))
GetSourceStatus == GetSource
ListSources == QueryFirst(GET(<<"source_repository">>, {<<SourceRepository.list_sources_for_tenant>>}),
                          SourceListQuery)

CreateGoldSet == POST(<<"gold_set_repository">>, CreatePlans)
ListGoldSets == GET(<<"gold_set_reader">>,
                    Listed(RetrievalEvaluationCursor, GoldSetReader.list_gold_sets))
GetGoldSet == GET(<<"gold_set_reader">>,
                  Found(GoldSetReader.get_gold_set_with_current_revision, "GoldSetNotFound"))
AppendGoldSetEntry == POST(<<"gold_set_reader", "gold_set_repository">>, AppendPlans)
FinalizeGoldSetRevision == POST(<<"gold_set_reader", "gold_set_repository">>, FinalizePlans)
ListRetrievalCandidates == GET(<<"retrieval_client">>, {<<RetrievalClient.search_vector>>})
StartEvaluationRun ==
    [POST(<<"gold_set_reader", "evaluation_run_repository", "retrieval_runner_port", "audit_port">>,
          EvaluationPlans) EXCEPT !.cleanup = EvaluationCleanup]
ListEvaluationRuns == GET(<<"evaluation_run_reader">>,
                          Listed(RetrievalEvaluationCursor, EvaluationRunReader.list_runs))
GetEvaluationRun ==
    GET(<<"evaluation_run_reader">>,
        Found(EvaluationRunReader.get_run_with_results_and_aggregates, "EvaluationRunNotFound"))

StartOptimizationRun ==
    [POST(<<"optimization_run_repository", "recommendation_repository", "audit_port",
            "evaluation_run_reader", "gold_set_reader", "run_history_reader", "audit_event_reader">>,
          OptimizationPlans) EXCEPT !.cleanup = OptimizationCleanup]
ListOptimizationRuns ==
    GET(<<"optimization_run_reader">>,
        Listed(OptimizationCursor, OptimizationRunReader.list_optimization_runs))
GetOptimizationRun == GET(<<"optimization_run_reader">>,
    Found(OptimizationRunReader.get_optimization_run, "OptimizationRunNotFound"))
ListRecommendations ==
    GET(<<"recommendation_reader">>,
        Listed(RecommendationListQuery, RecommendationReader.list_recommendations))
GetRecommendation == GET(<<"recommendation_reader">>,
    Found(RecommendationReader.get_recommendation, "RecommendationNotFound"))
Transition == POST(<<"recommendation_reader", "recommendation_repository", "audit_port">>, TransitionPlans)
AcknowledgeRecommendation == Transition
ApplyRecommendation == Transition
RejectRecommendation == Transition

(* completions: one call to the provider, whose errors the handler names. *)
Completions ==
    [POST(<<>>, {<<Raising(Provider, {"InferenceConfigurationError", "InferenceTimeout",
                                      "InferenceUnavailable"})>>})
     EXCEPT !.errors = [InferenceConfigurationError |-> 400, InferenceTimeout |-> 504,
                        InferenceUnavailable |-> 503]]

(* The stream begins before the agent's first step: what fails then ends it. *)
InvokeAgent == [POST(<<"agent_runtime">>, InvokePlans) EXCEPT !.streams = TRUE]

(* write_test_audit_event, for the tenant of the path. *)
WriteTestAuditEvent ==
    [POST(<<"audit_port", "tenant_registry">>, {<<AuditPort("tenant").emit>>}) EXCEPT !.scope = "role"]

Routes ==
    {GetRun, ListRuns, GetTenantAuditEvent, ListTenantAuditEvents, GetPlatformAuditEvent,
     ListPlatformAuditEvents, GetSource, GetSourceStatus, ListSources, CreateGoldSet, ListGoldSets,
     GetGoldSet, AppendGoldSetEntry, FinalizeGoldSetRevision, ListRetrievalCandidates,
     StartEvaluationRun, ListEvaluationRuns, GetEvaluationRun, StartOptimizationRun,
     ListOptimizationRuns, GetOptimizationRun, ListRecommendations, GetRecommendation,
     AcknowledgeRecommendation, ApplyRecommendation, RejectRecommendation, Completions,
     InvokeAgent, WriteTestAuditEvent}

-----------------------------------------------------------------------------
(* --------------------- the handlers of exceptions -------------------- *)

(* The status each handler answers with. *)
AuthHandlers == [PrincipalTypeMismatch |-> 403]
RunHistoryHandlers ==
    [run_history_MalformedCursor |-> 400, InvalidFilterRange |-> 400, RunNotFound |-> 404,
     BoundTenantIdMismatch |-> 500]
AuditHandlers ==
    [AuditEventNotFound |-> 404, InvalidAuditFilter |-> 400, audit_MalformedCursor |-> 400]
IngestionHandlers == [IngestionSourceNotFound |-> 404, ingestion_MalformedCursor |-> 400]
RetrievalEvaluationHandlers ==
    [GoldSetNotFound |-> 404, NoDraftToFinalize |-> 409, EmptyDraft |-> 400,
     GoldSetMissingFinalizedRevision |-> 400, EvaluationRunNotFound |-> 404,
     retrieval_evaluation_MalformedCursor |-> 400]
OptimizationHandlers ==
    [RecommendationNotFound |-> 404, TransitionNotPermitted |-> 409, OptimizationRunNotFound |-> 404,
     optimization_MalformedCursor |-> 400, InvalidOptimizationFilter |-> 400]
SharedHandlers == [AuditQueryRouting |-> 400, RequestValidation |-> 422]

HandlerStatus(error) ==
    CASE error \in DOMAIN AuthHandlers -> AuthHandlers[error]
      [] error \in DOMAIN RunHistoryHandlers -> RunHistoryHandlers[error]
      [] error \in DOMAIN AuditHandlers -> AuditHandlers[error]
      [] error \in DOMAIN IngestionHandlers -> IngestionHandlers[error]
      [] error \in DOMAIN RetrievalEvaluationHandlers -> RetrievalEvaluationHandlers[error]
      [] error \in DOMAIN OptimizationHandlers -> OptimizationHandlers[error]
      [] error \in DOMAIN SharedHandlers -> SharedHandlers[error]

(* The exceptions each registration names; five contexts have a MalformedCursorError. *)
RegisterRunHistory == {"run_history_MalformedCursor", "InvalidFilterRange", "RunNotFound",
                       "BoundTenantIdMismatch", "RequestValidation"}
RegisterAudit == {"AuditEventNotFound", "InvalidAuditFilter", "audit_MalformedCursor",
                  "AuditQueryRouting"}
RegisterIngestion == {"IngestionSourceNotFound", "ingestion_MalformedCursor"}

\* Variant: the cursor error imported is the one of another context.
RegisterRetrievalEvaluation_OtherCursor ==
    {"GoldSetNotFound", "NoDraftToFinalize", "EmptyDraft", "GoldSetMissingFinalizedRevision",
     "EvaluationRunNotFound", "optimization_MalformedCursor"}

RegisterRetrievalEvaluation ==
    {"GoldSetNotFound", "NoDraftToFinalize", "EmptyDraft", "GoldSetMissingFinalizedRevision",
     "EvaluationRunNotFound", "retrieval_evaluation_MalformedCursor"}
RegisterOptimization ==
    {"RecommendationNotFound", "TransitionNotPermitted", "OptimizationRunNotFound",
     "optimization_MalformedCursor", "InvalidOptimizationFilter"}

(* Starlette answers 500 to an exception no handler is registered for. *)
RegisteredErrors ==
    {"PrincipalTypeMismatch"} \union RegisterRunHistory \union RegisterAudit \union RegisterIngestion
    \union RegisterRetrievalEvaluation \union RegisterOptimization
StatusOf(route, error) ==
    IF error \in DOMAIN route.errors THEN route.errors[error]
    ELSE IF error \in RegisteredErrors THEN HandlerStatus(error) ELSE 500

-----------------------------------------------------------------------------
(* ------------------------- compositions ------------------------------ *)

(* The ports the builders of the wiring make, all over one cache and registry. *)
RunHistoryPorts == {"run_history_reader"}
SourcePorts == {"source_repository"}
AuditReaderPorts == {"audit_event_reader"}
GoldSetPorts == {"gold_set_repository", "gold_set_reader"}
EvaluationRunPorts == {"evaluation_run_repository", "evaluation_run_reader"}
OptimizationRunPorts == {"optimization_run_repository", "optimization_run_reader"}
RecommendationPorts == {"recommendation_repository", "recommendation_reader"}
RetrievalPorts == {"retrieval_client", "retrieval_runner_port"}
AgentRuntimePorts == {"agent_runtime"}

(* _build_default_compositions configures everything; a narrow composition has
   the inference port alone, or audit and tenancy beside it. *)
RoutingPorts == {"audit_port", "tenant_registry"}
DefaultComposition ==
    RoutingPorts \union {"security_events"} \union AgentRuntimePorts \union RunHistoryPorts
    \union AuditReaderPorts \union SourcePorts \union GoldSetPorts \union EvaluationRunPorts
    \union RetrievalPorts \union OptimizationRunPorts \union RecommendationPorts
Compositions == {{}, RoutingPorts, DefaultComposition}
=============================================================================
