--------------------------- MODULE EvaluationRuns ---------------------------
(***************************************************************************)
(* run_retrieval_evaluation: every entry of a gold-set revision is tried   *)
(* with every strategy, each result is written and audited, then the       *)
(* aggregates, then the end of the run.  Every awaited call is a step of   *)
(* its own and may raise, before or after it took effect.  Of a result the *)
(* recall at 3 is kept, in percent; it is what the optimization rule reads.*)
(***************************************************************************)
EXTENDS Integers, Sequences
LOCAL INSTANCE FiniteSetsExt

CONSTANTS NumRuns,    \* evaluation runs, numbered in order of (invoked_at, id)
          MaxEntries, \* bound: entries of the revision a run reads
          Recalls     \* recall at 3 of a result, in percent

ASSUME EvaluationAssumption == /\ NumRuns \in Nat
                               /\ MaxEntries \in Nat \ {0}
                               /\ Recalls \subseteq Nat

Runs == 1..NumRuns

VARIABLES evalPc,    \* per run: the call it awaits
          entries,   \* per run: entries of the snapshot it evaluates
          evalRow,   \* per run: its row, results and aggregates
          evalAudit, \* per run: its events in the audit chain
          faults     \* calls that raised, processes that died

evalVars == <<evalPc, entries, evalRow, evalAudit>>

Strategies == <<"vector_only", "graph_only">>

\* The call after the one that has just returned.
NextCall(r) ==
    LET row == evalRow[r]
    IN  CASE evalPc[r] = "emitStart" -> "persistResult"
          [] evalPc[r] = "persistResult" -> "emitResult"
          [] evalPc[r] = "emitResult" ->
                IF Len(row.results) < entries[r] * Len(Strategies)
                THEN "persistResult" ELSE "persistAggregate"
          [] evalPc[r] = "persistAggregate" -> "emitAggregate"
          [] evalPc[r] = "emitAggregate" ->
                IF Len(row.aggregates) < Len(Strategies)
                THEN "persistAggregate" ELSE "markCompleted"
          [] evalPc[r] = "markCompleted" -> "emitCompleted"
          [] evalPc[r] = "emitCompleted" -> "returned"
          [] evalPc[r] = "markFailed" -> "emitFailed"
          [] evalPc[r] = "emitFailed" -> "raised"

\* Variant: the aggregates are written behind the try.
Handler_Shorter(pc) ==
    IF pc \in {"emitStart", "persistAggregate", "emitAggregate", "markFailed",
              "emitFailed"}
    THEN "raised" ELSE "markFailed"

\* The first event is emitted outside the try, the handler's calls are too.
Handler(pc) == IF pc \in {"emitStart", "markFailed", "emitFailed"}
               THEN "raised" ELSE "markFailed"

EvalInit ==
    /\ evalPc = [r \in Runs |-> "idle"]
    /\ entries = [r \in Runs |-> 0]
    /\ evalRow = [r \in Runs |-> [status |-> "none", results |-> <<>>,
                                  aggregates |-> <<>>]]
    /\ evalAudit = [r \in Runs |-> [start |-> 0, results |-> 0,
                                    aggregates |-> 0, ended |-> <<>>]]

-----------------------------------------------------------------------------
(* What the awaited calls do. *)

\* A row whose INSERT commits and loses its answer stays running.
PersistRun(r) ==
    /\ evalPc[r] = "idle"
    /\ \E n \in 1..MaxEntries : entries' = [entries EXCEPT ![r] = n]
    /\ evalRow' = [evalRow EXCEPT ![r].status = "running"]
    /\ \/ evalPc' = [evalPc EXCEPT ![r] = "emitStart"] /\ UNCHANGED faults
       \/ evalPc' = [evalPc EXCEPT ![r] = "raised"] /\ faults' = faults + 1
    /\ UNCHANGED evalAudit

EmitStart(r) == /\ evalPc[r] = "emitStart"
                /\ evalAudit' = [evalAudit EXCEPT ![r].start = 1]
                /\ UNCHANGED evalRow

\* The entries in order, each with the strategies in order.
PersistResult(r) ==
    LET done == Len(evalRow[r].results)
    IN  /\ evalPc[r] = "persistResult"
        /\ \E v \in Recalls :
              evalRow' = [evalRow EXCEPT ![r].results = Append(@,
                 [entry |-> (done \div Len(Strategies)) + 1,
                  strategy |-> Strategies[(done % Len(Strategies)) + 1],
                  recall |-> v])]
        /\ UNCHANGED evalAudit

EmitResult(r) == /\ evalPc[r] = "emitResult"
                 /\ evalAudit' = [evalAudit EXCEPT ![r].results = @ + 1]
                 /\ UNCHANGED evalRow

\* The sum of a strategy's recalls; the mean is over the entries.
Total(results, s) ==
    MapThenSumSet(LAMBDA i : results[i].recall,
                  {i \in DOMAIN results : results[i].strategy = s})

PersistAggregate(r) ==
    LET s == Strategies[Len(evalRow[r].aggregates) + 1]
    IN  /\ evalPc[r] = "persistAggregate"
        /\ evalRow' = [evalRow EXCEPT ![r].aggregates = Append(@,
              [strategy |-> s, recall |-> Total(evalRow[r].results, s)])]
        /\ UNCHANGED evalAudit

EmitAggregate(r) == /\ evalPc[r] = "emitAggregate"
                    /\ evalAudit' = [evalAudit EXCEPT ![r].aggregates = @ + 1]
                    /\ UNCHANGED evalRow

\* Variant: the UPDATE does not ask for the running status.
MarkFailed_NotPinned(r) ==
    /\ evalPc[r] = "markFailed"
    /\ evalRow' = [evalRow EXCEPT ![r].status = "failed"]
    /\ UNCHANGED evalAudit

\* UPDATE .. WHERE status = 'running'.
MarkCompleted(r) == /\ evalPc[r] = "markCompleted"
                    /\ evalRow[r].status = "running"
                    /\ evalRow' = [evalRow EXCEPT ![r].status = "completed"]
                    /\ UNCHANGED evalAudit

MarkFailed(r) == /\ evalPc[r] = "markFailed" /\ evalRow[r].status = "running"
                 /\ evalRow' = [evalRow EXCEPT ![r].status = "failed"]
                 /\ UNCHANGED evalAudit

EmitEnd(r) ==
    /\ evalPc[r] \in {"emitCompleted", "emitFailed"}
    /\ evalAudit' = [evalAudit EXCEPT ![r].ended = Append(@,
          IF evalPc[r] = "emitCompleted" THEN "completed" ELSE "failed")]
    /\ UNCHANGED evalRow

Call(r) == \/ EmitStart(r) \/ PersistResult(r) \/ EmitResult(r)
           \/ PersistAggregate(r) \/ EmitAggregate(r)
           \/ MarkCompleted(r) \/ MarkFailed(r) \/ EmitEnd(r)

-----------------------------------------------------------------------------
(* How the calls go. *)

Returns(r) == /\ Call(r)
              /\ evalPc' = [evalPc EXCEPT ![r] = NextCall(r)]
              /\ UNCHANGED <<entries, faults>>

\* A call raises, with its effect or without, or the retrieval before it does.
Raises(r) == /\ faults' = faults + 1
             /\ evalPc[r] \notin {"idle", "returned", "raised", "dead"}
             /\ Call(r) \/ UNCHANGED <<evalRow, evalAudit>>
             /\ evalPc' = [evalPc EXCEPT ![r] = Handler(evalPc[r])]
             /\ UNCHANGED entries

\* mark_failed finds the row completed: ValueError.
MarkRefused(r) == /\ evalPc[r] = "markFailed" /\ evalRow[r].status # "running"
                  /\ evalPc' = [evalPc EXCEPT ![r] = "raised"]
                  /\ UNCHANGED <<entries, evalRow, evalAudit, faults>>

\* The CLI process is killed; CancelledError is no Exception.
Dies(r) == /\ evalPc[r] \notin {"idle", "returned", "raised", "dead"}
           /\ faults' = faults + 1
           /\ evalPc' = [evalPc EXCEPT ![r] = "dead"]
           /\ UNCHANGED <<entries, evalRow, evalAudit>>

EvalNext == \E r \in Runs : \/ PersistRun(r) \/ Returns(r) \/ Raises(r)
                            \/ MarkRefused(r) \/ Dies(r)

-----------------------------------------------------------------------------
(* The properties of the runs by themselves. *)

Result == [entry: 1..MaxEntries, strategy: {"vector_only", "graph_only"},
           recall: Recalls]
Aggregate == [strategy: {"vector_only", "graph_only"}, recall: Nat]
Statuses == {"none", "running", "completed", "failed"}

EvalTypeOK ==
    /\ evalPc \in [Runs -> {"idle", "emitStart", "persistResult", "emitResult",
          "persistAggregate", "emitAggregate", "markCompleted",
          "emitCompleted", "markFailed", "emitFailed", "returned", "raised",
          "dead"}]
    /\ entries \in [Runs -> 0..MaxEntries]
    /\ evalRow \in [Runs -> [status: Statuses, results: Seq(Result),
                             aggregates: Seq(Aggregate)]]
    /\ evalAudit \in [Runs -> [start: 0..1, results: Nat, aggregates: Nat,
                               ended: Seq({"completed", "failed"})]]
    /\ faults \in Nat

\* Records of a run that have no event in the audit chain.
Unaudited(r) == (Len(evalRow[r].results) - evalAudit[r].results)
                + (Len(evalRow[r].aggregates) - evalAudit[r].aggregates)

(* Wherever a run stops, the chain misses at most the event of the record
   written last; and a run that returned has them all. *)
EvalAuditAccounts ==
    \A r \in Runs :
        /\ Unaudited(r) \in 0..1
        /\ evalPc[r] = "returned" =>
              Unaudited(r) = 0 /\ evalAudit[r].ended = <<"completed">>
=============================================================================
