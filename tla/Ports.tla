------------------------------- MODULE Ports -------------------------------
(***************************************************************************)
(* The operations behind the API's routes and the commands of the CLI.     *)
(*                                                                         *)
(* A call is one operation of a port.  What the callers' properties tell   *)
(* apart is the store it works in ("tenant": the database of one tenant,   *)
(* "control": the control plane, "provider": another service, "memory":    *)
(* none), whether it commits, whether it embeds a query before it opens    *)
(* its session, and the errors it raises that its callers name.  Any call  *)
(* but one in memory may fail for another reason as well.                  *)
(*                                                                         *)
(* Every operation of a tenant's adapter resolves the session factory      *)
(* anew, from the tenant context it is given.                              *)
(***************************************************************************)

CallIn(store) == [store |-> store, writes |-> FALSE, embeds |-> FALSE, raises |-> {}]
Read == CallIn("tenant")
Write == [Read EXCEPT !.writes = TRUE]
Embedded == [Read EXCEPT !.embeds = TRUE]
Provider == CallIn("provider")
Raising(call, errors) == [call EXCEPT !.raises = errors]
Decide(errors) == Raising(CallIn("memory"), errors)

(* ------------------------ run history and audit ---------------------- *)

RunHistoryWriter == [record_run |-> Write]
RunHistoryReader == [get_run |-> Read, list_runs_with_filters |-> Read]

(* Its destination chooses the database. *)
AuditEventReader(destination) ==
    [get_audit_event |-> CallIn(destination), list_audit_events_with_filters |-> CallIn(destination)]
AuditPort(destination) == [emit |-> [CallIn(destination) EXCEPT !.writes = TRUE]]

(* ---------------------------- ingestion ------------------------------ *)

SourceRepository == [get |-> Read, list_sources_for_tenant |-> Read, register |-> Write]
SourceLookup == [assert_sources_exist |-> Raising(Read, {"SourceNotFoundError"})]

(* search_vector embeds with the sessionmaker already resolved; traverse_graph
   reads the indexed chunks first and the graph then. *)
RetrievalClient == [search_vector |-> Embedded, traverse_graph |-> Read]

(* ----------------------- retrieval evaluation ------------------------ *)

GoldSetRepository ==
    [persist_new_gold_set |-> Write, open_new_draft_revision |-> Write,
     append_entry |-> Write, finalize_revision |-> Write]
GoldSetReader ==
    [list_gold_sets |-> Read, get_gold_set_with_current_revision |-> Read,
     get_revision_with_entries |-> Read, find_current_draft_revision |-> Read]
EvaluationRunRepository ==
    [persist_run |-> Write, persist_result |-> Write, persist_aggregate |-> Write,
     mark_completed |-> Write, mark_failed |-> Write]
EvaluationRunReader == [list_runs |-> Read, get_run_with_results_and_aggregates |-> Read]
RetrievalRunner == [run |-> RetrievalClient.search_vector]

(* ---------------------------- optimization --------------------------- *)

OptimizationRunRepository ==
    [persist_run |-> Write, mark_completed |-> Write, mark_failed |-> Write]
OptimizationRunReader == [get_optimization_run |-> Read, list_optimization_runs |-> Read]
RecommendationRepository ==
    [persist_recommendation |-> Write, persist_status_transition |-> Write]
RecommendationReader == [get_recommendation |-> Read, list_recommendations |-> Read]
=============================================================================
