---------------------------- MODULE Optimization ----------------------------
(***************************************************************************)
(* The optimization engine, the recommendations it writes from completed   *)
(* evaluation runs, and the users who acknowledge, apply or reject them.   *)
(* The retrieval-strategy rule pages through the evaluation runs while     *)
(* runs go on; the cost rule's arithmetic over the run history is left     *)
(* out: it flags some agent templates.  The other two rules report a gap.  *)
(***************************************************************************)
EXTENDS EvaluationRuns, FiniteSets

CONSTANTS Engines,    \* engine runs
          PageSize,   \* page size of list_runs
          Threshold,  \* recall_at_k_delta_threshold, in percent
          Templates,  \* agent templates the cost rule can flag
          Users,      \* users with a transition request under way
          MaxActivity \* bound: evaluation runs, transition requests, faults

ASSUME OptimizationAssumption == /\ PageSize \in Nat \ {0}
                                 /\ Threshold \in Nat
                                 /\ MaxActivity \in Nat
                                 /\ IsFiniteSet(Templates)
                                 /\ IsFiniteSet(Users)
                                 /\ Engines \intersect Runs = {}

VARIABLES engine,      \* per engine run: its memory and the call it awaits
          engineRow,   \* per engine run: its row
          engineAudit, \* per engine run: its events in the audit chain
          recs,        \* recommendation rows, in the order of their insertion
          moves,       \* per recommendation: its transition rows
          moveAudit,   \* per recommendation: the transitions in the chain
          user,        \* per user: the request under way
          requests,    \* requests made so far
          known        \* history: runs that were complete when an engine began

engineVars == <<engine, engineRow, engineAudit, known>>
userVars == <<moves, moveAudit, user, requests>>
vars == <<evalVars, faults, engineVars, recs, userVars>>

Gaps == {"model_choice", "prompt_revision"}
NoCursor == NumRuns + 1

Init ==
    /\ EvalInit /\ faults = 0
    /\ engine = [e \in Engines |->
          [pc |-> "idle", rule |-> 1, list |-> NoCursor, runs |-> <<>>,
           candidates |-> <<>>]]
    /\ engineRow = [e \in Engines |-> [status |-> "none", skipped |-> {}]]
    /\ engineAudit = [e \in Engines |-> [start |-> 0, recs |-> 0,
                                         ended |-> <<>>]]
    /\ known = [e \in Engines |-> {}]
    /\ recs = <<>> /\ moves = <<>> /\ moveAudit = <<>>
    /\ user = [u \in Users |->
          [pc |-> "idle", rec |-> 0, from |-> "", to |-> ""]]
    /\ requests = 0

-----------------------------------------------------------------------------
(* Evidence. *)

Completed(r) == evalRow[r].status = "completed"
Distance(a, b) == IF a < b THEN b - a ELSE a - b

\* The difference of the two means, times the number of entries.
Delta(r) == LET a == evalRow[r].aggregates
            IN  Distance(a[1].recall, a[2].recall)

\* _emit_for_run; fewer than two aggregates give no pair to compare.
Candidates(r) ==
    IF /\ Len(evalRow[r].aggregates) = 2
       /\ Delta(r) > Threshold * entries[r]
    THEN <<[category |-> "retrieval_strategy", subject |-> r,
            delta |-> Delta(r)]>>
    ELSE <<>>

\* The next page of list_runs, latest first.
After(cursor) == {r \in Runs : evalRow[r].status # "none" /\ r < cursor}
Page(cursor) == {r \in After(cursor) :
                    Cardinality({q \in After(cursor) : q > r}) < PageSize}
Descending(S) ==
    CHOOSE s \in [1..Cardinality(S) -> S] :
        \A i, j \in 1..Cardinality(S) : i < j => s[i] > s[j]

\* Variant: the runs of a page are not filtered by their status.
Selected_Any(S) == Descending(S)

Selected(S) == Descending({r \in S : Completed(r)})

\* Variant: the cursor is the extra row that was read to see if there is more.
NextCursor_Beyond(cursor) ==
    LET rest == After(cursor) \ Page(cursor)
    IN  IF rest = {} THEN 0 ELSE CHOOSE r \in rest : \A q \in rest : r >= q

\* 0 stands for None: there is no further page.
NextCursor(cursor) ==
    IF Page(cursor) = After(cursor) THEN 0
    ELSE CHOOSE r \in Page(cursor) : \A q \in Page(cursor) : r <= q

-----------------------------------------------------------------------------
(* The engine. *)

\* Variant: the rules are counted on behind the last one.
EndOfRule_Counts(m) == [m EXCEPT !.rule = @ + 1, !.pc = "evaluate"]

\* A rule has been worked off: the next one, and behind the last one the gaps.
EndOfRule(m) == IF m.rule = 1
                THEN [m EXCEPT !.rule = 2, !.pc = "evaluate"]
                ELSE [m EXCEPT !.pc = "markCompleted"]
EndOfEvaluate(m) == IF m.candidates = <<>> THEN EndOfRule(m)
                    ELSE [m EXCEPT !.pc = "persistRec"]

StartEngine(e) ==
    /\ engine[e].pc = "idle"
    /\ \/ engine' = [engine EXCEPT ![e].pc = "emitStart"] /\ UNCHANGED faults
       \/ engine' = [engine EXCEPT ![e].pc = "raised"] /\ faults' = faults + 1
    /\ engineRow' = [engineRow EXCEPT ![e].status = "running"]
    /\ known' = [known EXCEPT ![e] = {r \in Runs : Completed(r)}]
    /\ UNCHANGED <<evalVars, engineAudit, recs, userVars>>

\* evaluate of the retrieval-strategy rule: a page, or the snapshot of a run.
ListRuns(e) ==
    LET m == engine[e]
        next == [m EXCEPT !.runs = Selected(Page(m.list)),
                          !.list = NextCursor(m.list)]
    IN  /\ m.pc = "evaluate" /\ m.rule = 1 /\ m.runs = <<>>
        /\ engine' = [engine EXCEPT ![e] =
              IF next.runs = <<>> /\ next.list = 0 THEN EndOfEvaluate(next)
              ELSE next]
        /\ UNCHANGED <<evalVars, faults, engineRow, engineAudit, known, recs,
                       userVars>>

InspectRun(e) ==
    LET m == engine[e]
        next == [m EXCEPT !.candidates = @ \o Candidates(Head(m.runs)),
                          !.runs = Tail(@)]
    IN  /\ m.pc = "evaluate" /\ m.rule = 1 /\ m.runs # <<>>
        /\ engine' = [engine EXCEPT ![e] =
              IF next.runs = <<>> /\ next.list = 0 THEN EndOfEvaluate(next)
              ELSE next]
        /\ UNCHANGED <<evalVars, faults, engineRow, engineAudit, known, recs,
                       userVars>>

\* evaluate of the cost rule.
EvaluateCost(e) ==
    LET m == engine[e]
    IN  /\ m.pc = "evaluate" /\ m.rule = 2
        /\ \E T \in SUBSET Templates :
              \E s \in [1..Cardinality(T) -> T] :
                 /\ \A i, j \in DOMAIN s : s[i] = s[j] => i = j
                 /\ engine' = [engine EXCEPT ![e] = EndOfEvaluate(
                       [m EXCEPT !.candidates = [i \in DOMAIN s |->
                          [category |-> "cost_optimization",
                           subject |-> s[i], delta |-> 0]]])]
        /\ UNCHANGED <<evalVars, faults, engineRow, engineAudit, known, recs,
                       userVars>>

EmitEngineStart(e) ==
    /\ engine[e].pc = "emitStart"
    /\ engineAudit' = [engineAudit EXCEPT ![e].start = 1]
    /\ UNCHANGED <<engineRow, recs, moves, moveAudit>>

PersistRec(e) ==
    LET c == Head(engine[e].candidates)
    IN  /\ engine[e].pc = "persistRec"
        /\ recs' = Append(recs, [engine |-> e, category |-> c.category,
              subject |-> c.subject, delta |-> c.delta,
              status |-> "generated"])
        /\ moves' = Append(moves, <<>>)
        /\ moveAudit' = Append(moveAudit, {})
        /\ UNCHANGED <<engineRow, engineAudit>>

EmitRec(e) ==
    /\ engine[e].pc = "emitRec"
    /\ engineAudit' = [engineAudit EXCEPT ![e].recs = @ + 1]
    /\ UNCHANGED <<engineRow, recs, moves, moveAudit>>

\* Variant: a failed run is written with the gaps as well.
MarkEngine_Gaps(e) ==
    /\ engine[e].pc \in {"markCompleted", "markFailed"}
    /\ engineRow[e].status = "running"
    /\ engineRow' = [engineRow EXCEPT ![e] =
          [status |-> IF engine[e].pc = "markCompleted" THEN "completed"
                      ELSE "failed", skipped |-> Gaps]]
    /\ UNCHANGED <<engineAudit, recs, moves, moveAudit>>

\* UPDATE .. WHERE status = 'running'; a failed run keeps its empty gaps.
MarkEngine(e) ==
    /\ engine[e].pc \in {"markCompleted", "markFailed"}
    /\ engineRow[e].status = "running"
    /\ engineRow' = [engineRow EXCEPT ![e] =
          IF engine[e].pc = "markCompleted"
          THEN [status |-> "completed", skipped |-> Gaps]
          ELSE [@ EXCEPT !.status = "failed"]]
    /\ UNCHANGED <<engineAudit, recs, moves, moveAudit>>

EmitEngineEnd(e) ==
    /\ engine[e].pc \in {"emitCompleted", "emitFailed"}
    /\ engineAudit' = [engineAudit EXCEPT ![e].ended = Append(@,
          IF engine[e].pc = "emitCompleted" THEN "completed" ELSE "failed")]
    /\ UNCHANGED <<engineRow, recs, moves, moveAudit>>

EngineCall(e) == \/ EmitEngineStart(e) \/ PersistRec(e) \/ EmitRec(e)
                 \/ MarkEngine(e) \/ EmitEngineEnd(e)

\* What the engine does when the awaited call returns.
NextEngineState(m) ==
    CASE m.pc = "emitStart" -> [m EXCEPT !.pc = "evaluate"]
      [] m.pc = "persistRec" -> [m EXCEPT !.pc = "emitRec"]
      [] m.pc = "emitRec" ->
            EndOfEvaluate([m EXCEPT !.candidates = Tail(@)])
      [] m.pc = "markCompleted" -> [m EXCEPT !.pc = "emitCompleted"]
      [] m.pc = "markFailed" -> [m EXCEPT !.pc = "emitFailed"]
      [] m.pc = "emitCompleted" -> [m EXCEPT !.pc = "returned"]
      [] m.pc = "emitFailed" -> [m EXCEPT !.pc = "raised"]

EngineReturns(e) == /\ EngineCall(e)
                    /\ engine' = [engine EXCEPT ![e] = NextEngineState(@)]
                    /\ UNCHANGED <<evalVars, faults, known, user, requests>>

EngineStops == {"idle", "returned", "raised", "dead"}

EngineRaises(e) ==
    /\ faults' = faults + 1
    /\ engine[e].pc \notin EngineStops
    /\ \/ EngineCall(e)
       \/ UNCHANGED <<engineRow, engineAudit, recs, moves, moveAudit>>
    /\ engine' = [engine EXCEPT ![e].pc = Handler(@)]
    /\ UNCHANGED <<evalVars, known, user, requests>>

EngineRefused(e) ==
    /\ engine[e].pc = "markFailed" /\ engineRow[e].status # "running"
    /\ engine' = [engine EXCEPT ![e].pc = "raised"]
    /\ UNCHANGED <<evalVars, faults, engineRow, engineAudit, known, recs,
                   userVars>>

EngineDies(e) ==
    /\ engine[e].pc \notin EngineStops
    /\ faults' = faults + 1
    /\ engine' = [engine EXCEPT ![e].pc = "dead"]
    /\ UNCHANGED <<evalVars, engineRow, engineAudit, known, recs, userVars>>

EngineProgress(e) == \/ ListRuns(e) \/ InspectRun(e) \/ EvaluateCost(e)
                     \/ EngineReturns(e) \/ EngineRefused(e)

-----------------------------------------------------------------------------
(* The users. *)

CanTransition(from, to) ==
    \/ from = "generated" /\ to \in {"acknowledged", "applied", "rejected"}
    \/ from = "acknowledged" /\ to \in {"applied", "rejected"}

\* The recommendation is read and the transition is checked.
Request(u, i, to) ==
    /\ user[u].pc = "idle"
    /\ requests' = requests + 1
    /\ CanTransition(recs[i].status, to)
    /\ user' = [user EXCEPT ![u] =
          [pc |-> "persist", rec |-> i, from |-> recs[i].status, to |-> to]]
    /\ UNCHANGED <<evalVars, faults, engineVars, recs, moves, moveAudit>>

\* Variant: the UPDATE does not ask for the status that was read.
Pinned_Not(i, from) == TRUE

Pinned(i, from) == recs[i].status = from

\* The row and the transition, in one transaction.
PersistTransition(u) ==
    LET q == user[u]
    IN  /\ q.pc = "persist" /\ Pinned(q.rec, q.from)
        /\ recs' = [recs EXCEPT ![q.rec].status = q.to]
        /\ moves' = [moves EXCEPT ![q.rec] = Append(@, <<q.from, q.to>>)]
        /\ UNCHANGED moveAudit

\* Variant: the event names the transition that came last.
EmitTransition_Last(u) ==
    LET q == user[u]
    IN  /\ q.pc = "emit"
        /\ moveAudit' = [moveAudit EXCEPT ![q.rec] =
              @ \union {moves[q.rec][Len(moves[q.rec])]}]
        /\ UNCHANGED <<recs, moves>>

EmitTransition(u) ==
    LET q == user[u]
    IN  /\ q.pc = "emit"
        /\ moveAudit' = [moveAudit EXCEPT ![q.rec] =
              @ \union {<<q.from, q.to>>}]
        /\ UNCHANGED <<recs, moves>>

UserCall(u) == PersistTransition(u) \/ EmitTransition(u)

UserReturns(u) ==
    /\ UserCall(u)
    /\ user' = [user EXCEPT ![u].pc = IF @ = "persist" THEN "emit" ELSE "idle"]
    /\ UNCHANGED <<evalVars, faults, engineVars, requests>>

UserRaises(u) ==
    /\ faults' = faults + 1
    /\ user[u].pc # "idle"
    /\ UserCall(u) \/ UNCHANGED <<recs, moves, moveAudit>>
    /\ user' = [user EXCEPT ![u].pc = "idle"]
    /\ UNCHANGED <<evalVars, engineVars, requests>>

\* The status has changed since it was read: ValueError.
UserRefused(u) ==
    /\ user[u].pc = "persist" /\ ~Pinned(user[u].rec, user[u].from)
    /\ user' = [user EXCEPT ![u].pc = "idle"]
    /\ UNCHANGED <<evalVars, faults, engineVars, recs, moves, moveAudit,
                   requests>>

UserProgress(u) == UserReturns(u) \/ UserRefused(u)

UserStatuses == {"acknowledged", "applied", "rejected"}

-----------------------------------------------------------------------------
Activity == Cardinality({r \in Runs : evalPc[r] # "idle"}) + requests + faults

Next ==
    /\ \/ EvalNext /\ UNCHANGED <<engineVars, recs, userVars>>
       \/ \E e \in Engines : \/ StartEngine(e) \/ EngineProgress(e)
                             \/ EngineRaises(e) \/ EngineDies(e)
       \/ \E u \in Users : \/ \E i \in DOMAIN recs, to \in UserStatuses :
                                 Request(u, i, to)
                           \/ UserProgress(u) \/ UserRaises(u)
    /\ Activity' <= MaxActivity

Spec == Init /\ [][Next]_vars

-----------------------------------------------------------------------------
(* Properties. *)

RecsOf(e) == {i \in DOMAIN recs : recs[i].engine = e}

\* The variables keep their types.
TypeOK ==
    /\ EvalTypeOK
    /\ \A e \in Engines :
          /\ engine[e].pc \in EngineStops \union {"emitStart", "evaluate",
                "persistRec", "emitRec", "markCompleted", "emitCompleted",
                "markFailed", "emitFailed"}
          /\ engine[e].rule \in 1..2
          /\ engine[e].list \in 0..NoCursor
          /\ engine[e].runs \in Seq(Runs)
          /\ engine[e].pc = "persistRec" => engine[e].candidates # <<>>
          /\ engineRow[e].status \in Statuses
          /\ engineRow[e].skipped \in {{}, Gaps}
          /\ engineAudit[e].start \in 0..1 /\ engineAudit[e].recs \in Nat
          /\ engineAudit[e].ended \in Seq({"completed", "failed"})
          /\ known[e] \subseteq Runs
    /\ \A i \in DOMAIN recs : /\ recs[i].engine \in Engines
                              /\ recs[i].subject \in Runs \union Templates
                              /\ recs[i].delta \in Nat
                              /\ recs[i].status \in
                                    {"generated"} \union UserStatuses
    /\ DOMAIN moves = DOMAIN recs /\ DOMAIN moveAudit = DOMAIN recs
    /\ \A u \in Users : /\ user[u].pc \in {"idle", "persist", "emit"}
                        /\ user[u].pc # "idle" => user[u].rec \in DOMAIN recs
    /\ requests \in Nat /\ Activity <= MaxActivity

(* The audit chain accounts for what the runs wrote: wherever one stops, at
   most the event of its last record is missing; and one that returned has all
   of them and, when it is an engine run, names its gaps. *)
AuditAccountsForRecords ==
    /\ EvalAuditAccounts
    /\ \A e \in Engines :
          /\ Cardinality(RecsOf(e)) - engineAudit[e].recs \in 0..1
          /\ engine[e].pc = "returned" =>
                /\ Cardinality(RecsOf(e)) = engineAudit[e].recs
                /\ engineAudit[e].ended = <<"completed">>
          /\ engineRow[e].status = "completed" <=> engineRow[e].skipped = Gaps

(* A retrieval-strategy recommendation cites a completed run, and its delta is
   what the results of that run, all of them, come to. *)
EvidenceIsSound ==
    \A i \in DOMAIN recs :
        LET r == recs[i].subject
            sums == [s \in {"vector_only", "graph_only"} |->
                        Total(evalRow[r].results, s)]
        IN  recs[i].category = "retrieval_strategy" =>
               /\ Completed(r)
               /\ Len(evalRow[r].results) = entries[r] * Len(Strategies)
               /\ recs[i].delta =
                     Distance(sums["vector_only"], sums["graph_only"])
               /\ recs[i].delta > Threshold * entries[r]

CitationsOf(e, r) ==
    {i \in RecsOf(e) : /\ recs[i].category = "retrieval_strategy"
                       /\ recs[i].subject = r}

(* Though runs start and end while it pages through them, an engine run
   recommends from no run twice, and a completed one has missed no run that was
   complete when it began. *)
ConsidersEvidenceOnce ==
    \A e \in Engines, r \in Runs :
        /\ Cardinality(CitationsOf(e, r)) <= 1
        /\ /\ engineRow[e].status = "completed" /\ r \in known[e]
           /\ Delta(r) > Threshold * entries[r]
           => CitationsOf(e, r) # {}

(* The transition rows of a recommendation lead from generated to its status,
   and none of them leaves a status that is final. *)
TransitionsLead ==
    \A i \in DOMAIN recs :
        LET path == moves[i]
        IN  /\ path = <<>> => recs[i].status = "generated"
            /\ path # <<>> => /\ path[1][1] = "generated"
                              /\ path[Len(path)][2] = recs[i].status
            /\ \A k \in DOMAIN path : CanTransition(path[k][1], path[k][2])
            /\ \A k \in 1..(Len(path) - 1) : path[k][2] = path[k + 1][1]

UnauditedMoves ==
    {p \in (DOMAIN moves) \X (1..2) :
        /\ p[2] \in DOMAIN moves[p[1]]
        /\ moves[p[1]][p[2]] \notin moveAudit[p[1]]}

(* The chain has only transitions that took place, and lacks one only while its
   request is under way or because a call raised. *)
TransitionsAudited ==
    /\ \A i \in DOMAIN recs :
          moveAudit[i] \subseteq {moves[i][k] : k \in DOMAIN moves[i]}
    /\ Cardinality(UnauditedMoves)
          <= Cardinality({u \in Users : user[u].pc = "emit"}) + faults

\* However users race, a recommendation's rows and its audit events tell one history.
TransitionHistory == TransitionsLead /\ TransitionsAudited

\* An evaluation run writes results and aggregates, an engine recommendations.
Tracked == INSTANCE TrackedRuns
    WITH Ids <- Runs \union Engines,
         status <- [i \in Runs \union Engines |->
            IF i \in Runs THEN evalRow[i].status ELSE engineRow[i].status],
         records <- [i \in Runs \union Engines |->
            IF i \in Runs THEN <<evalRow[i].results, evalRow[i].aggregates>>
            ELSE {<<k, recs[k].category, recs[k].subject>> : k \in RecsOf(i)}],
         ended <- [i \in Runs \union Engines |->
            IF i \in Runs THEN evalAudit[i].ended ELSE engineAudit[i].ended]

\* Evaluation runs and engine runs implement TrackedRuns.
ImplementTrackedRuns == Tracked!Spec

(* A run that has written something does not stay running for one call that
   raises: only a killed process or a second failure, in the handler, leaves a
   row running for ever. *)
StoppedRunsHaveEnded ==
    /\ \A r \in Runs : evalPc[r] = "raised" /\ evalRow[r].results # <<>> =>
          evalRow[r].status \in {"completed", "failed"} \/ faults > 1
    /\ \A e \in Engines : engine[e].pc = "raised" /\ RecsOf(e) # {} =>
          engineRow[e].status \in {"completed", "failed"} \/ faults > 1
=============================================================================
