------------------------- MODULE OptimizationProofs -------------------------
(***************************************************************************)
(* What is proved of the evaluation runs, the optimization engine and the  *)
(* users, for every number of each, every page size and every threshold.   *)
(* CoreInv relates the label a run is at to its row, its records and its   *)
(* audit trail, and every transition to its recommendation; EvidInv says   *)
(* that what an engine run has at hand is evidence from completed runs;    *)
(* OnceInv, that each run it must not miss is still to be read, or at      *)
(* hand, or cited.  The three are inductive one upon the other.            *)
(***************************************************************************)
EXTENDS Optimization, TLAPS, FiniteSetTheorems, WellFoundedInduction

(* Types.  A total of recalls is left opaque: what it comes to is computed by
   a fold, whatever its value the arguments below hold. *)
EvalLabels == {"idle", "emitStart", "persistResult", "emitResult",
               "persistAggregate", "emitAggregate", "markCompleted",
               "emitCompleted", "markFailed", "emitFailed", "returned",
               "raised", "dead"}
StrategyNames == {"vector_only", "graph_only"}
Results == [entry: Nat, strategy: StrategyNames, recall: Recalls]
Totals == {Total(q, s) : q \in Seq(Results), s \in StrategyNames}
Aggregates == [strategy: StrategyNames, recall: Totals]
Rows == [status: Statuses, results: Seq(Results), aggregates: Seq(Aggregates)]
Trails == [start: 0..1, results: Nat, aggregates: Nat,
           ended: Seq({"completed", "failed"})]

EvalTypes == /\ evalPc \in [Runs -> EvalLabels]
             /\ entries \in [Runs -> Nat]
             /\ evalRow \in [Runs -> Rows]
             /\ evalAudit \in [Runs -> Trails]
             /\ faults \in Nat

(* Every entry is tried with two strategies. *)
LEMMA TwoStrategies ==
    /\ Len(Strategies) = 2 /\ \A k \in 1..2 : Strategies[k] \in StrategyNames
    /\ Strategies[1] = "vector_only" /\ Strategies[2] = "graph_only"
BY DEF Strategies, StrategyNames

-----------------------------------------------------------------------------
(* What the label of a run, its row and the end of its audit trail have to do
   with each other; of evaluation runs and of engine runs alike. *)
Trying == {"emitStart", "persistResult", "emitResult", "persistAggregate",
           "emitAggregate", "evaluate", "persistRec", "emitRec", "markCompleted"}
Failing == {"markFailed", "emitFailed", "raised", "dead"}

Fits(label, status, ended) ==
    /\ status = "none" <=> label = "idle"
    /\ label \in Trying => status = "running"
    /\ label \in {"emitCompleted", "returned"} => status = "completed"
    /\ label = "markFailed" => status \in {"running", "completed"}
    /\ label = "emitFailed" => status = "failed"
    /\ status \in {"none", "running"} => ended = <<>>
    /\ ended \in {<<>>, <<status>>}
    /\ label \in {"emitCompleted", "emitFailed"} => ended = <<>>
    /\ label = "returned" => ended = <<"completed">>

\* How many calls f have failed by then; wrote says whether there are records.
Handled(f, label, status, wrote) ==
    /\ label \in {"markFailed", "emitFailed"} => f > 0
    /\ label = "raised" /\ wrote =>
          status \in {"completed", "failed"} \/ f > 1

\* How many records there are at a label, and how many of them have their event:
\* n of the results are due, nr and na are written, ar and aa audited.
Counts(label, status, n, nr, na, ar, aa) ==
    /\ label # "idle" => n > 0
    /\ label = "emitResult" => nr = ar + 1 /\ na = aa
    /\ label = "emitAggregate" => nr = ar /\ na = aa + 1
    /\ label \in Failing => ar <= nr /\ aa <= na /\ nr + na <= ar + aa + 1
    /\ label \notin Failing \union {"emitResult", "emitAggregate"} =>
          nr = ar /\ na = aa
    /\ label \in {"idle", "emitStart"} => nr = 0
    /\ label \in {"idle", "emitStart", "persistResult", "emitResult"} => na = 0
    /\ label = "persistResult" => nr < n * 2
    /\ label = "emitResult" => nr <= n * 2
    /\ label = "persistAggregate" => na < 2
    /\ label = "emitAggregate" => na <= 2
    /\ label = "markCompleted" \/ status = "completed" => na = 2
    /\ \/ label \in {"persistAggregate", "emitAggregate", "markCompleted"}
       \/ status = "completed" \/ na > 0
       => nr = n * 2

\* An aggregate is the total over the results.
Summed(r) == \A k \in 1..Len(evalRow[r].aggregates) :
    evalRow[r].aggregates[k].recall = Total(evalRow[r].results, Strategies[k])

RunInv(r) ==
    /\ Fits(evalPc[r], evalRow[r].status, evalAudit[r].ended)
    /\ Handled(faults, evalPc[r], evalRow[r].status, Len(evalRow[r].results) > 0)
    /\ Counts(evalPc[r], evalRow[r].status, entries[r], Len(evalRow[r].results),
              Len(evalRow[r].aggregates), evalAudit[r].results,
              evalAudit[r].aggregates)
    /\ Summed(r)

EvalInv == EvalTypes /\ \A r \in Runs : RunInv(r)

\* A step of run r leaves the others alone.
OtherRunsStay(r) == \A q \in Runs \ {r} :
    /\ evalPc'[q] = evalPc[q] /\ entries'[q] = entries[q]
    /\ evalRow'[q] = evalRow[q] /\ evalAudit'[q] = evalAudit[q]

(* A run that a step leaves alone keeps its invariant. *)
LEMMA RunStays ==
    ASSUME NEW r \in Runs, EvalTypes, RunInv(r), faults' \in Nat, faults' >= faults,
           evalPc'[r] = evalPc[r], entries'[r] = entries[r],
           evalRow'[r] = evalRow[r], evalAudit'[r] = evalAudit[r]
    PROVE  RunInv(r)'
<1>1. Fits(evalPc[r], evalRow[r].status, evalAudit[r].ended)'
  BY DEF RunInv
<1>2. Handled(faults, evalPc[r], evalRow[r].status, Len(evalRow[r].results) > 0)'
  BY DEF EvalTypes, RunInv, Handled
<1>3. Counts(evalPc[r], evalRow[r].status, entries[r], Len(evalRow[r].results),
              Len(evalRow[r].aggregates), evalAudit[r].results,
              evalAudit[r].aggregates)'
  BY DEF RunInv
<1>4. Summed(r)'
  BY DEF RunInv, Summed
<1>. QED BY <1>1, <1>2, <1>3, <1>4 DEF RunInv

-----------------------------------------------------------------------------
(* How the labels go on.  Whatever holds at the label behind a call holds, for
   these parts of the invariant, also where the handler goes on. *)
LEMMA FitsFailing ==
    ASSUME NEW status, NEW ended, NEW label, label # "idle", Fits(label, status, ended)
    PROVE  /\ Fits("raised", status, ended) /\ Fits("dead", status, ended)
           /\ label \in Trying \union {"emitCompleted", "returned"} =>
                 Fits("markFailed", status, ended)
BY DEF Fits, Trying

(* A call that fails stops counting where it is. *)
LEMMA CountsFailing ==
    ASSUME NEW status, NEW n \in Nat, NEW nr \in Nat, NEW na \in Nat, NEW ar \in Nat,
           NEW aa \in Nat, NEW label, label # "idle",
           Counts(label, status, n, nr, na, ar, aa), NEW end \in Failing
    PROVE  Counts(end, status, n, nr, na, ar, aa)
BY DEF Counts, Failing

(* The counts at the label behind a call. *)
LEMMA CountsResult ==
    ASSUME NEW n \in Nat, NEW nr \in Nat, NEW na \in Nat, NEW ar \in Nat, NEW aa \in Nat,
           Counts("persistResult", "running", n, nr, na, ar, aa)
    PROVE  na = 0 /\ Counts("emitResult", "running", n, nr + 1, na, ar, aa)
BY DEF Counts, Failing

(* The event of a result makes the counts even again. *)
LEMMA CountsResultEvent ==
    ASSUME NEW n \in Nat, NEW nr \in Nat, NEW na \in Nat, NEW ar \in Nat, NEW aa \in Nat,
           Counts("emitResult", "running", n, nr, na, ar, aa)
    PROVE  /\ nr < n * 2 => Counts("persistResult", "running", n, nr, na, ar + 1, aa)
           /\ ~(nr < n * 2) =>
                 Counts("persistAggregate", "running", n, nr, na, ar + 1, aa)
<1>1. ASSUME nr < n * 2
      PROVE  Counts("persistResult", "running", n, nr, na, ar + 1, aa)
  BY <1>1 DEF Counts, Failing
<1>2. ASSUME ~(nr < n * 2)
      PROVE  Counts("persistAggregate", "running", n, nr, na, ar + 1, aa)
  BY <1>2 DEF Counts, Failing
<1>. QED BY <1>1, <1>2

(* An aggregate is one ahead of its event. *)
LEMMA CountsAggregate ==
    ASSUME NEW n \in Nat, NEW nr \in Nat, NEW na \in Nat, NEW ar \in Nat, NEW aa \in Nat,
           Counts("persistAggregate", "running", n, nr, na, ar, aa)
    PROVE  na \in 0..1 /\ Counts("emitAggregate", "running", n, nr, na + 1, ar, aa)
BY DEF Counts, Failing

(* The event of an aggregate makes the counts even again. *)
LEMMA CountsAggregateEvent ==
    ASSUME NEW n \in Nat, NEW nr \in Nat, NEW na \in Nat, NEW ar \in Nat, NEW aa \in Nat,
           Counts("emitAggregate", "running", n, nr, na, ar, aa)
    PROVE  /\ na < 2 => Counts("persistAggregate", "running", n, nr, na, ar, aa + 1)
           /\ ~(na < 2) => Counts("markCompleted", "running", n, nr, na, ar, aa + 1)
<1>1. ASSUME na < 2
      PROVE  Counts("persistAggregate", "running", n, nr, na, ar, aa + 1)
  BY <1>1 DEF Counts, Failing
<1>2. ASSUME ~(na < 2)
      PROVE  Counts("markCompleted", "running", n, nr, na, ar, aa + 1)
  BY <1>2 DEF Counts, Failing
<1>. QED BY <1>1, <1>2

(* Where nothing is counted, the label may go on. *)
LEMMA CountsStay ==
    ASSUME NEW n \in Nat, NEW nr \in Nat, NEW na \in Nat, NEW ar \in Nat, NEW aa \in Nat
    PROVE  /\ Counts("emitStart", "running", n, nr, na, ar, aa) =>
                 nr = 0 /\ Counts("persistResult", "running", n, nr, na, ar, aa)
           /\ Counts("markCompleted", "running", n, nr, na, ar, aa) =>
                 Counts("emitCompleted", "completed", n, nr, na, ar, aa)
           /\ Counts("emitCompleted", "completed", n, nr, na, ar, aa) =>
                 Counts("returned", "completed", n, nr, na, ar, aa)
           /\ Counts("markFailed", "running", n, nr, na, ar, aa) =>
                 Counts("emitFailed", "failed", n, nr, na, ar, aa)
           /\ Counts("emitFailed", "failed", n, nr, na, ar, aa) =>
                 Counts("raised", "failed", n, nr, na, ar, aa)
<1>1. Counts("emitStart", "running", n, nr, na, ar, aa) =>
        nr = 0 /\ Counts("persistResult", "running", n, nr, na, ar, aa)
  BY DEF Counts, Failing
<1>2. Counts("markCompleted", "running", n, nr, na, ar, aa) =>
        Counts("emitCompleted", "completed", n, nr, na, ar, aa)
  BY DEF Counts, Failing
<1>3. Counts("emitCompleted", "completed", n, nr, na, ar, aa) =>
        Counts("returned", "completed", n, nr, na, ar, aa)
  BY DEF Counts, Failing
<1>4. Counts("markFailed", "running", n, nr, na, ar, aa) =>
        Counts("emitFailed", "failed", n, nr, na, ar, aa)
  BY DEF Counts, Failing
<1>5. Counts("emitFailed", "failed", n, nr, na, ar, aa) =>
        Counts("raised", "failed", n, nr, na, ar, aa)
  BY DEF Counts, Failing
<1>. QED BY <1>1, <1>2, <1>3, <1>4, <1>5

(* The result that is written is the one the counts call for. *)
LEMMA ResultIsTyped ==
    ASSUME NEW i \in Nat, NEW v \in Recalls
    PROVE  [entry |-> (i \div Len(Strategies)) + 1,
            strategy |-> Strategies[(i % Len(Strategies)) + 1],
            recall |-> v] \in Results
<1>1. i \div 2 \in Nat /\ i % 2 \in 0..1
  OBVIOUS
<1>2. (i % 2) + 1 \in 1..2 /\ (i \div 2) + 1 \in Nat
  BY <1>1
<1>3. Strategies[(i % 2) + 1] \in StrategyNames
  BY <1>2, TwoStrategies
<1>. QED BY <1>2, <1>3, TwoStrategies DEF Results

(* What a run's invariant says, field by field. *)
RunFields(r, label, row, trail, n) ==
    /\ row \in Rows /\ trail \in Trails /\ label \in EvalLabels /\ n \in Nat
    /\ Fits(label, row.status, trail.ended)
    /\ Counts(label, row.status, n, Len(row.results), Len(row.aggregates),
              trail.results, trail.aggregates)
    /\ \A k \in 1..Len(row.aggregates) :
          row.aggregates[k].recall = Total(row.results, Strategies[k])

(* The invariant of a run, over its fields. *)
LEMMA RunParts ==
    ASSUME NEW r \in Runs, EvalTypes, RunInv(r)
    PROVE  /\ RunFields(r, evalPc[r], evalRow[r], evalAudit[r], entries[r])
           /\ faults \in Nat
           /\ Handled(faults, evalPc[r], evalRow[r].status, Len(evalRow[r].results) > 0)
BY DEF EvalTypes, RunInv, RunFields, Handled, Summed

(* The types of the fields of a run. *)
LEMMA FieldTypes ==
    ASSUME NEW row \in Rows, NEW trail \in Trails
    PROVE  /\ row.results \in Seq(Results) /\ row.status \in Statuses
           /\ row.aggregates \in Seq(Aggregates)
           /\ Len(row.results) \in Nat /\ Len(row.aggregates) \in Nat
           /\ trail.results \in Nat /\ trail.aggregates \in Nat
           /\ trail.ended \in Seq({"completed", "failed"})
BY DEF Rows, Trails

(* A call leaves the fields as the label behind it wants them. *)
LEMMA CallGoesOn ==
    ASSUME NEW r \in Runs, EvalTypes, RunInv(r), Call(r)
    PROVE  /\ RunFields(r, NextCall(r), evalRow'[r], evalAudit'[r], entries[r])
           /\ evalPc[r] \notin {"idle", "returned", "raised", "dead"}
           /\ evalPc[r] = "emitStart" => Len(evalRow'[r].results) = 0
<1>. DEFINE row == evalRow[r]
            trail == evalAudit[r]
            n == entries[r]
            nr == Len(row.results)
            na == Len(row.aggregates)
<1>1. RunFields(r, evalPc[r], row, trail, n)
  BY RunParts
<1>2. row \in Rows /\ trail \in Trails /\ n \in Nat
  BY <1>1 DEF RunFields
<1>3. /\ nr \in Nat /\ na \in Nat /\ trail.results \in Nat /\ trail.aggregates \in Nat
      /\ row.results \in Seq(Results) /\ row.aggregates \in Seq(Aggregates)
  BY <1>2, FieldTypes
<1>4. /\ Fits(evalPc[r], row.status, trail.ended)
      /\ Counts(evalPc[r], row.status, n, nr, na, trail.results, trail.aggregates)
      /\ \A k \in 1..na : row.aggregates[k].recall = Total(row.results, Strategies[k])
  BY <1>1 DEF RunFields
<1>5. evalRow \in [Runs -> Rows] /\ evalAudit \in [Runs -> Trails]
  BY DEF EvalTypes
<1>6. CASE EmitStart(r)
  <2>. DEFINE trail1 == [trail EXCEPT !.start = 1]
  <2>1. evalPc[r] = "emitStart" /\ evalRow'[r] = row /\ evalAudit'[r] = trail1
    BY <1>5, <1>6 DEF EmitStart
  <2>2. /\ trail1 \in Trails /\ trail1.results = trail.results
        /\ trail1.aggregates = trail.aggregates /\ trail1.ended = trail.ended
    BY <1>2 DEF Trails
  <2>. HIDE DEF trail1
  <2>3. /\ Fits("persistResult", "running", trail1.ended) /\ row.status = "running"
        /\ Counts("emitStart", "running", n, nr, na, trail.results, trail.aggregates)
    BY <1>4, <2>1, <2>2 DEF Fits, Trying
  <2>4. nr = 0 /\ Counts("persistResult", "running", n, nr, na, trail.results,
                         trail.aggregates)
    BY <1>2, <1>3, <2>3, CountsStay
  <2>5. RunFields(r, "persistResult", row, trail1, n)
    BY <1>2, <1>4, <2>2, <2>3, <2>4 DEF RunFields, EvalLabels
  <2>6. NextCall(r) = "persistResult"
    BY <2>1 DEF NextCall
  <2>7. RunFields(r, NextCall(r), evalRow'[r], evalAudit'[r], entries[r])
    BY <2>1, <2>5, <2>6
  <2>8. evalPc[r] \notin {"idle", "returned", "raised", "dead"}
    BY <2>1
  <2>9. Len(evalRow'[r].results) = 0
    BY <2>1, <2>4
  <2>. QED BY <2>7, <2>8, <2>9
<1>7. CASE PersistResult(r)
  <2>1. PICK v \in Recalls :
          evalRow' = [evalRow EXCEPT ![r].results = Append(@,
             [entry |-> (nr \div Len(Strategies)) + 1,
              strategy |-> Strategies[(nr % Len(Strategies)) + 1],
              recall |-> v])]
    BY <1>7 DEF PersistResult
  <2>. DEFINE x == [entry |-> (nr \div Len(Strategies)) + 1,
                    strategy |-> Strategies[(nr % Len(Strategies)) + 1],
                    recall |-> v]
              row1 == [row EXCEPT !.results = Append(@, x)]
  <2>2. evalPc[r] = "persistResult" /\ evalRow'[r] = row1 /\ evalAudit'[r] = trail
    BY <1>5, <1>7, <2>1 DEF PersistResult
  <2>3. x \in Results
    BY <1>3, ResultIsTyped
  <2>. HIDE DEF x
  <2>4. Append(row.results, x) \in Seq(Results) /\ Len(Append(row.results, x)) = nr + 1
    BY <1>3, <2>3
  <2>5. /\ row1 \in Rows /\ Len(row1.results) = nr + 1 /\ row1.status = row.status
        /\ row1.aggregates = row.aggregates
    BY <1>2, <2>4 DEF Rows
  <2>. HIDE DEF row1
  <2>6. /\ Fits("emitResult", "running", trail.ended) /\ row.status = "running"
        /\ Counts("persistResult", "running", n, nr, na, trail.results, trail.aggregates)
    BY <1>4, <2>2 DEF Fits, Trying
  <2>7. na = 0 /\ Counts("emitResult", "running", n, nr + 1, na, trail.results,
                         trail.aggregates)
    BY <1>2, <1>3, <2>6, CountsResult
  <2>8. RunFields(r, "emitResult", row1, trail, n)
    BY <1>2, <2>5, <2>6, <2>7 DEF RunFields, EvalLabels
  <2>9. NextCall(r) = "emitResult"
    BY <2>2 DEF NextCall
  <2>. QED BY <2>2, <2>8, <2>9
<1>8. CASE EmitResult(r)
  <2>. DEFINE trail1 == [trail EXCEPT !.results = @ + 1]
  <2>1. evalPc[r] = "emitResult" /\ evalRow'[r] = row /\ evalAudit'[r] = trail1
    BY <1>5, <1>8 DEF EmitResult
  <2>2. /\ trail1 \in Trails /\ trail1.results = trail.results + 1
        /\ trail1.aggregates = trail.aggregates /\ trail1.ended = trail.ended
    BY <1>2 DEF Trails
  <2>. HIDE DEF trail1
  <2>. DEFINE label == IF nr < n * 2 THEN "persistResult" ELSE "persistAggregate"
  <2>3. /\ Fits("persistResult", "running", trail1.ended) /\ row.status = "running"
        /\ Fits("persistAggregate", "running", trail1.ended)
        /\ Counts("emitResult", "running", n, nr, na, trail.results, trail.aggregates)
    BY <1>4, <2>1, <2>2 DEF Fits, Trying
  <2>4. Counts(label, "running", n, nr, na, trail1.results, trail1.aggregates)
    <3>1. CASE nr < n * 2
      BY <1>2, <1>3, <2>2, <2>3, <3>1, CountsResultEvent
    <3>2. CASE ~(nr < n * 2)
      BY <1>2, <1>3, <2>2, <2>3, <3>2, CountsResultEvent
    <3>. QED BY <3>1, <3>2
  <2>5. RunFields(r, label, row, trail1, n)
    BY <1>2, <1>4, <2>2, <2>3, <2>4 DEF RunFields, EvalLabels
  <2>6. NextCall(r) = label
    BY <2>1, TwoStrategies DEF NextCall
  <2>. HIDE DEF label
  <2>. QED BY <2>1, <2>5, <2>6
<1>9. CASE PersistAggregate(r)
  <2>. DEFINE k1 == na + 1
              x == [strategy |-> Strategies[k1],
                    recall |-> Total(row.results, Strategies[k1])]
              row1 == [row EXCEPT !.aggregates = Append(@, x)]
  <2>1. /\ evalPc[r] = "persistAggregate" /\ evalRow'[r] = row1
        /\ evalAudit'[r] = trail
    BY <1>5, <1>9 DEF PersistAggregate
  <2>2. /\ Fits("emitAggregate", "running", trail.ended) /\ row.status = "running"
        /\ Counts("persistAggregate", "running", n, nr, na, trail.results,
                  trail.aggregates)
    BY <1>4, <2>1 DEF Fits, Trying
  <2>3. na \in 0..1 /\ Counts("emitAggregate", "running", n, nr, na + 1,
                              trail.results, trail.aggregates)
    BY <1>2, <1>3, <2>2, CountsAggregate
  <2>4. x \in Aggregates /\ x.recall = Total(row.results, Strategies[k1])
    <3>0. na = 0 \/ na = 1
      BY <2>3
    <3>1. Strategies[k1] \in StrategyNames
      <4>1. CASE na = 0
        BY <4>1, TwoStrategies
      <4>2. CASE na = 1
        BY <4>2, TwoStrategies
      <4>. QED BY <3>0, <4>1, <4>2
    <3>. QED BY <1>3, <3>1 DEF Aggregates, Totals
  <2>. HIDE DEF x
  <2>. DEFINE more == Append(row.aggregates, x)
  <2>5. /\ more \in Seq(Aggregates) /\ Len(more) = na + 1 /\ more[na + 1] = x
        /\ \A k \in 1..na : more[k] = row.aggregates[k]
    BY <1>3, <2>4
  <2>6. /\ row1 \in Rows /\ row1.aggregates = more /\ row1.status = row.status
        /\ row1.results = row.results
    BY <1>2, <2>5 DEF Rows
  <2>. HIDE DEF row1, more
  <2>7. ASSUME NEW k \in 1..Len(more)
        PROVE  more[k].recall = Total(row.results, Strategies[k])
    <3>1. CASE k = k1
      BY <2>4, <2>5, <3>1
    <3>2. CASE k \in 1..na
      BY <1>4, <2>5, <3>2
    <3>. QED BY <1>3, <2>5, <3>1, <3>2
  <2>8. RunFields(r, "emitAggregate", row1, trail, n)
    BY <1>2, <2>2, <2>3, <2>5, <2>6, <2>7 DEF RunFields, EvalLabels
  <2>9. NextCall(r) = "emitAggregate"
    BY <2>1 DEF NextCall
  <2>. QED BY <2>1, <2>8, <2>9
<1>10. CASE EmitAggregate(r)
  <2>. DEFINE trail1 == [trail EXCEPT !.aggregates = @ + 1]
  <2>1. evalPc[r] = "emitAggregate" /\ evalRow'[r] = row /\ evalAudit'[r] = trail1
    BY <1>5, <1>10 DEF EmitAggregate
  <2>2. /\ trail1 \in Trails /\ trail1.aggregates = trail.aggregates + 1
        /\ trail1.results = trail.results /\ trail1.ended = trail.ended
    BY <1>2 DEF Trails
  <2>. HIDE DEF trail1
  <2>. DEFINE label == IF na < 2 THEN "persistAggregate" ELSE "markCompleted"
  <2>3. /\ Fits("persistAggregate", "running", trail1.ended) /\ row.status = "running"
        /\ Fits("markCompleted", "running", trail1.ended)
        /\ Counts("emitAggregate", "running", n, nr, na, trail.results, trail.aggregates)
    BY <1>4, <2>1, <2>2 DEF Fits, Trying
  <2>4. Counts(label, "running", n, nr, na, trail1.results, trail1.aggregates)
    <3>1. CASE na < 2
      BY <1>2, <1>3, <2>2, <2>3, <3>1, CountsAggregateEvent
    <3>2. CASE ~(na < 2)
      BY <1>2, <1>3, <2>2, <2>3, <3>2, CountsAggregateEvent
    <3>. QED BY <3>1, <3>2
  <2>5. RunFields(r, label, row, trail1, n)
    BY <1>2, <1>4, <2>2, <2>3, <2>4 DEF RunFields, EvalLabels
  <2>6. NextCall(r) = label
    BY <2>1, TwoStrategies DEF NextCall
  <2>. HIDE DEF label
  <2>. QED BY <2>1, <2>5, <2>6
<1>11. ASSUME NEW status \in {"completed", "failed"}, NEW label \in EvalLabels,
              evalRow' = [evalRow EXCEPT ![r].status = status],
              UNCHANGED evalAudit, NextCall(r) = label,
              Fits(label, status, trail.ended),
              Counts(label, status, n, nr, na, trail.results, trail.aggregates)
       PROVE  RunFields(r, NextCall(r), evalRow'[r], evalAudit'[r], entries[r])
  <2>. DEFINE row1 == [row EXCEPT !.status = status]
  <2>1. evalRow'[r] = row1 /\ evalAudit'[r] = trail
    BY <1>5, <1>11
  <2>2. /\ row1 \in Rows /\ row1.aggregates = row.aggregates /\ row1.status = status
        /\ row1.results = row.results
    BY <1>2, <1>11 DEF Rows, Statuses
  <2>. HIDE DEF row1
  <2>3. RunFields(r, label, row1, trail, n)
    BY <1>2, <1>4, <1>11, <2>2 DEF RunFields
  <2>. QED BY <1>11, <2>1, <2>3
<1>12. CASE MarkCompleted(r)
  <2>1. /\ evalPc[r] = "markCompleted" /\ UNCHANGED evalAudit
        /\ evalRow' = [evalRow EXCEPT ![r].status = "completed"]
    BY <1>12 DEF MarkCompleted
  <2>2. /\ Fits("emitCompleted", "completed", trail.ended)
        /\ Counts("markCompleted", "running", n, nr, na, trail.results, trail.aggregates)
    BY <1>4, <2>1 DEF Fits, Trying
  <2>3. Counts("emitCompleted", "completed", n, nr, na, trail.results, trail.aggregates)
    BY <1>2, <1>3, <2>2, CountsStay
  <2>4. NextCall(r) = "emitCompleted" /\ "emitCompleted" \in EvalLabels
    BY <2>1 DEF NextCall, EvalLabels
  <2>. QED BY <1>11, <2>1, <2>2, <2>3, <2>4
<1>13. CASE MarkFailed(r)
  <2>1. /\ evalPc[r] = "markFailed" /\ UNCHANGED evalAudit /\ row.status = "running"
        /\ evalRow' = [evalRow EXCEPT ![r].status = "failed"]
    BY <1>13 DEF MarkFailed
  <2>2. /\ Fits("emitFailed", "failed", trail.ended)
        /\ Counts("markFailed", "running", n, nr, na, trail.results, trail.aggregates)
    BY <1>4, <2>1 DEF Fits, Trying
  <2>3. Counts("emitFailed", "failed", n, nr, na, trail.results, trail.aggregates)
    BY <1>2, <1>3, <2>2, CountsStay
  <2>4. NextCall(r) = "emitFailed" /\ "emitFailed" \in EvalLabels
    BY <2>1 DEF NextCall, EvalLabels
  <2>. QED BY <1>11, <2>1, <2>2, <2>3, <2>4
<1>14. CASE EmitEnd(r)
  <2>. DEFINE status == IF evalPc[r] = "emitCompleted" THEN "completed" ELSE "failed"
              label == IF evalPc[r] = "emitCompleted" THEN "returned" ELSE "raised"
              trail1 == [trail EXCEPT !.ended = Append(@, status)]
  <2>1. /\ evalPc[r] \in {"emitCompleted", "emitFailed"} /\ evalRow'[r] = row
        /\ evalAudit'[r] = trail1
    BY <1>5, <1>14 DEF EmitEnd
  <2>2. trail.ended = <<>> /\ row.status = status
    BY <1>4, <2>1 DEF Fits
  <2>3. Append(<<>>, status) = <<status>> /\ <<status>> \in Seq({"completed", "failed"})
    OBVIOUS
  <2>4. /\ trail1 \in Trails /\ trail1.ended = <<status>>
        /\ trail1.aggregates = trail.aggregates /\ trail1.results = trail.results
    BY <1>2, <2>2, <2>3 DEF Trails
  <2>. HIDE DEF trail1
  <2>5. Fits(label, row.status, <<status>>)
    BY <2>1, <2>2 DEF Fits, Trying
  <2>6. Counts(label, status, n, nr, na, trail.results, trail.aggregates)
    <3>1. CASE evalPc[r] = "emitCompleted"
      <4>1. Counts("emitCompleted", "completed", n, nr, na, trail.results, trail.aggregates)
        BY <1>4, <2>2, <3>1
      <4>. QED BY <1>2, <1>3, <3>1, <4>1, CountsStay
    <3>2. CASE evalPc[r] = "emitFailed"
      <4>1. Counts("emitFailed", "failed", n, nr, na, trail.results, trail.aggregates)
        BY <1>4, <2>2, <3>2
      <4>. QED BY <1>2, <1>3, <3>2, <4>1, CountsStay
    <3>. QED BY <2>1, <3>1, <3>2
  <2>7. label \in EvalLabels /\ NextCall(r) = label
    BY <2>1 DEF NextCall, EvalLabels
  <2>. HIDE DEF label
  <2>8. /\ Fits(label, row.status, trail1.ended)
        /\ Counts(label, row.status, n, nr, na, trail1.results, trail1.aggregates)
    BY <2>2, <2>4, <2>5, <2>6
  <2>9. RunFields(r, label, row, trail1, n)
    BY <1>2, <1>4, <2>4, <2>7, <2>8 DEF RunFields
  <2>. QED BY <2>1, <2>7, <2>9
<1>. QED BY <1>6, <1>7, <1>8, <1>9, <1>10, <1>12, <1>13, <1>14
         DEF Call, MarkCompleted, MarkFailed

(* The fields make up the invariant of the run after a step that stores them. *)
LEMMA RunRebuilt ==
    ASSUME NEW r \in Runs, EvalTypes, NEW label, NEW row, NEW trail, NEW n,
           RunFields(r, label, row, trail, n),
           evalPc' = [evalPc EXCEPT ![r] = label], entries' = [entries EXCEPT ![r] = n],
           evalRow' = [evalRow EXCEPT ![r] = row],
           evalAudit' = [evalAudit EXCEPT ![r] = trail],
           faults' \in Nat, Handled(faults', label, row.status, Len(row.results) > 0)
    PROVE  EvalTypes' /\ RunInv(r)' /\ OtherRunsStay(r)
<1>1. /\ evalPc \in [Runs -> EvalLabels] /\ entries \in [Runs -> Nat]
      /\ evalRow \in [Runs -> Rows] /\ evalAudit \in [Runs -> Trails]
  BY DEF EvalTypes
<1>2. /\ row \in Rows /\ trail \in Trails /\ label \in EvalLabels /\ n \in Nat
      /\ Fits(label, row.status, trail.ended)
      /\ Counts(label, row.status, n, Len(row.results), Len(row.aggregates),
                trail.results, trail.aggregates)
      /\ \A k \in 1..Len(row.aggregates) :
            row.aggregates[k].recall = Total(row.results, Strategies[k])
  BY DEF RunFields
<1>3. evalPc'[r] = label /\ entries'[r] = n /\ evalRow'[r] = row /\ evalAudit'[r] = trail
  BY <1>1
<1>4. EvalTypes'
  BY <1>1, <1>2 DEF EvalTypes
<1>5. RunInv(r)'
  BY <1>2, <1>3 DEF RunInv, Summed
<1>6. OtherRunsStay(r)
  BY <1>1 DEF OtherRunsStay
<1>. QED BY <1>4, <1>5, <1>6

(* A call, or nothing, stores a row and a trail. *)
LEMMA CallStores ==
    ASSUME NEW r \in Runs, EvalTypes, Call(r) \/ UNCHANGED <<evalRow, evalAudit>>
    PROVE  /\ evalRow' = [evalRow EXCEPT ![r] = evalRow'[r]]
           /\ evalAudit' = [evalAudit EXCEPT ![r] = evalAudit'[r]]
<1>1. evalRow \in [Runs -> Rows] /\ evalAudit \in [Runs -> Trails]
  BY DEF EvalTypes
<1>2. \/ evalRow' = evalRow \/ \E x : evalRow' = [evalRow EXCEPT ![r] = x]
  BY DEF Call, EmitStart, PersistResult, EmitResult, PersistAggregate, EmitAggregate,
         MarkCompleted, MarkFailed, EmitEnd
<1>3. \/ evalAudit' = evalAudit \/ \E x : evalAudit' = [evalAudit EXCEPT ![r] = x]
  BY DEF Call, EmitStart, PersistResult, EmitResult, PersistAggregate, EmitAggregate,
         MarkCompleted, MarkFailed, EmitEnd
<1>. QED BY <1>1, <1>2, <1>3

(* A step of an evaluation run keeps its invariant and leaves the others alone. *)
LEMMA RunsMove ==
    ASSUME NEW r \in Runs, EvalInv,
           PersistRun(r) \/ Returns(r) \/ Raises(r) \/ MarkRefused(r) \/ Dies(r)
    PROVE  EvalTypes' /\ RunInv(r)' /\ OtherRunsStay(r) /\ faults' \in Nat /\ faults' >= faults
<1>1. EvalTypes /\ RunInv(r)
  BY DEF EvalInv
<1>2. /\ evalPc \in [Runs -> EvalLabels] /\ entries \in [Runs -> Nat]
      /\ evalRow \in [Runs -> Rows] /\ evalAudit \in [Runs -> Trails] /\ faults \in Nat
  BY <1>1 DEF EvalTypes
<1>3. RunFields(r, evalPc[r], evalRow[r], evalAudit[r], entries[r])
  BY <1>1, RunParts
<1>4. /\ entries[r] \in Nat /\ entries = [entries EXCEPT ![r] = entries[r]]
      /\ evalRow = [evalRow EXCEPT ![r] = evalRow[r]]
      /\ evalAudit = [evalAudit EXCEPT ![r] = evalAudit[r]]
  BY <1>2
<1>5. faults' \in Nat /\ faults' >= faults
  BY <1>2 DEF PersistRun, Returns, Raises, MarkRefused, Dies
<1>6. CASE PersistRun(r)
  <2>1. PICK n \in 1..MaxEntries : entries' = [entries EXCEPT ![r] = n]
    BY <1>6 DEF PersistRun
  <2>. DEFINE row == [evalRow[r] EXCEPT !.status = "running"]
              label == evalPc'[r]
              nr == Len(evalRow[r].results)
              na == Len(evalRow[r].aggregates)
  <2>2. /\ label \in {"emitStart", "raised"} /\ evalPc' = [evalPc EXCEPT ![r] = label]
        /\ evalRow' = [evalRow EXCEPT ![r] = row] /\ evalPc[r] = "idle"
        /\ evalAudit' = [evalAudit EXCEPT ![r] = evalAudit[r]]
    BY <1>2, <1>6 DEF PersistRun
  <2>3. evalRow[r] \in Rows /\ evalAudit[r] \in Trails
    BY <1>2
  <2>4. /\ row \in Rows /\ row.status = "running" /\ row.results = evalRow[r].results
        /\ row.aggregates = evalRow[r].aggregates
    BY <2>3 DEF Rows, Statuses
  <2>5. /\ nr \in Nat /\ na \in Nat /\ evalAudit[r].results \in Nat
        /\ evalAudit[r].aggregates \in Nat
    BY <2>3, FieldTypes
  <2>6. /\ Fits("idle", evalRow[r].status, evalAudit[r].ended)
        /\ Counts("idle", evalRow[r].status, entries[r], nr, na,
                  evalAudit[r].results, evalAudit[r].aggregates)
        /\ \A k \in 1..na : evalRow[r].aggregates[k].recall =
                               Total(evalRow[r].results, Strategies[k])
    BY <1>3, <2>2 DEF RunFields
  <2>. HIDE DEF row, nr, na, label
  <2>7. n \in Nat /\ n > 0
    BY EvaluationAssumption
  <2>8. /\ nr = 0 /\ na = 0 /\ evalAudit[r].results = 0 /\ evalAudit[r].aggregates = 0
        /\ evalAudit[r].ended = <<>>
    BY <2>5, <2>6 DEF Counts, Fits, Failing
  <2>9. Counts(label, "running", n, nr, na, evalAudit[r].results, evalAudit[r].aggregates)
    BY <2>2, <2>7, <2>8 DEF Counts, Failing
  <2>10. Fits(label, "running", evalAudit[r].ended) /\ label \in EvalLabels
    BY <2>2, <2>8 DEF Fits, Trying, EvalLabels
  <2>11. RunFields(r, label, row, evalAudit[r], n)
    BY <2>3, <2>4, <2>6, <2>7, <2>9, <2>10 DEF RunFields, nr, na
  <2>12. Handled(faults', label, row.status, Len(row.results) > 0)
    BY <2>2, <2>4, <2>8 DEF Handled, nr
  <2>. QED BY <1>1, <1>5, <2>1, <2>2, <2>11, <2>12, RunRebuilt
<1>7. ASSUME NEW label \in EvalLabels, Call(r) \/ UNCHANGED <<evalRow, evalAudit>>,
             evalPc' = [evalPc EXCEPT ![r] = label], UNCHANGED entries,
             RunFields(r, label, evalRow'[r], evalAudit'[r], entries[r]),
             Handled(faults', label, evalRow'[r].status, Len(evalRow'[r].results) > 0)
      PROVE  EvalTypes' /\ RunInv(r)' /\ OtherRunsStay(r)
  <2>1. /\ evalRow' = [evalRow EXCEPT ![r] = evalRow'[r]]
        /\ evalAudit' = [evalAudit EXCEPT ![r] = evalAudit'[r]]
    BY <1>1, <1>7, CallStores
  <2>. QED BY <1>1, <1>4, <1>5, <1>7, <2>1, RunRebuilt
<1>8. CASE Returns(r)
  <2>1. /\ RunFields(r, NextCall(r), evalRow'[r], evalAudit'[r], entries[r])
        /\ evalPc[r] \notin {"idle", "returned", "raised", "dead"}
    BY <1>1, <1>8, CallGoesOn DEF Returns
  <2>2. NextCall(r) \in EvalLabels
    BY <2>1 DEF RunFields
  <2>3. Handled(faults, evalPc[r], evalRow[r].status, Len(evalRow[r].results) > 0)
    BY <1>1, RunParts
  <2>4. evalPc[r] \in EvalLabels /\ faults' = faults
    BY <1>2, <1>8 DEF Returns
  <2>5. /\ NextCall(r) = "markFailed" => FALSE
        /\ NextCall(r) = "emitFailed" => evalPc[r] = "markFailed"
        /\ NextCall(r) = "raised" => evalPc[r] = "emitFailed"
    BY <2>1, <2>4 DEF NextCall, EvalLabels
  <2>6. NextCall(r) = "raised" => evalRow'[r].status \in {"completed", "failed"}
    BY <1>3, <1>8, <2>1, <2>5, <1>2 DEF RunFields, Fits, Returns, Call, EmitStart, PersistResult,
       EmitResult, PersistAggregate, EmitAggregate, MarkCompleted, MarkFailed, EmitEnd
  <2>7. Handled(faults', NextCall(r), evalRow'[r].status, Len(evalRow'[r].results) > 0)
    BY <2>3, <2>4, <2>5, <2>6 DEF Handled
  <2>. QED BY <1>5, <1>7, <1>8, <2>1, <2>2, <2>7 DEF Returns
<1>9. ASSUME NEW label \in EvalLabels, evalPc[r] \notin {"idle", "returned", "raised", "dead"},
             label \in {Handler(evalPc[r]), "dead"},
             Call(r) \/ UNCHANGED <<evalRow, evalAudit>>
      PROVE  RunFields(r, label, evalRow'[r], evalAudit'[r], entries[r])
  <2>. DEFINE row == evalRow'[r]
              trail == evalAudit'[r]
              behind == IF Call(r) THEN NextCall(r) ELSE evalPc[r]
  <2>1. RunFields(r, behind, row, trail, entries[r])
    BY <1>1, <1>3, <1>9, CallGoesOn
  <2>2. /\ behind # "idle"
        /\ label \in Failing
        /\ label = "markFailed" => behind \in Trying \union {"emitCompleted", "returned"}
    BY <1>2, <1>9 DEF NextCall, EvalLabels, Handler, Trying, Failing
  <2>. HIDE DEF row, trail, behind
  <2>3. /\ row \in Rows /\ trail \in Trails /\ entries[r] \in Nat
        /\ Fits(behind, row.status, trail.ended)
        /\ Counts(behind, row.status, entries[r], Len(row.results), Len(row.aggregates),
                  trail.results, trail.aggregates)
        /\ \A k \in 1..Len(row.aggregates) :
              row.aggregates[k].recall = Total(row.results, Strategies[k])
    BY <2>1 DEF RunFields
  <2>4. Fits(label, row.status, trail.ended)
    BY <2>2, <2>3, <1>9, FitsFailing DEF Handler
  <2>5. Counts(label, row.status, entries[r], Len(row.results), Len(row.aggregates),
               trail.results, trail.aggregates)
    BY <2>2, <2>3, FieldTypes, CountsFailing
  <2>6. RunFields(r, label, row, trail, entries[r])
    BY <1>9, <2>3, <2>4, <2>5 DEF RunFields
  <2>. QED BY <2>6 DEF row, trail
<1>10. CASE Raises(r)
  <2>. DEFINE label == Handler(evalPc[r])
  <2>1. /\ evalPc[r] \notin {"idle", "returned", "raised", "dead"}
        /\ Call(r) \/ UNCHANGED <<evalRow, evalAudit>>
        /\ evalPc' = [evalPc EXCEPT ![r] = label]
        /\ UNCHANGED entries /\ faults' = faults + 1
    BY <1>10 DEF Raises
  <2>2. label \in {"markFailed", "raised"} /\ label \in EvalLabels
    BY DEF Handler, EvalLabels
  <2>3. RunFields(r, label, evalRow'[r], evalAudit'[r], entries[r])
    BY <1>9, <2>1, <2>2
  <2>4. Handled(faults, evalPc[r], evalRow[r].status, Len(evalRow[r].results) > 0)
    BY <1>1, RunParts
  <2>5. evalPc[r] = "emitStart" => Len(evalRow'[r].results) = 0
    <3>1. CASE Call(r)
      BY <1>1, <3>1, CallGoesOn
    <3>2. CASE evalRow' = evalRow
      BY <1>3, <3>2 DEF RunFields, Counts
    <3>. QED BY <2>1, <3>1, <3>2
  <2>6. label = "raised" => evalPc[r] \in {"emitStart", "markFailed", "emitFailed"}
    BY DEF Handler
  <2>7. Handled(faults', label, evalRow'[r].status, Len(evalRow'[r].results) > 0)
    BY <1>2, <2>1, <2>2, <2>4, <2>5, <2>6 DEF Handled
  <2>. HIDE DEF label
  <2>. QED BY <1>5, <1>7, <2>1, <2>2, <2>3, <2>7
<1>11. CASE MarkRefused(r)
  <2>1. /\ evalPc[r] = "markFailed" /\ evalRow[r].status # "running"
        /\ UNCHANGED <<entries, evalRow, evalAudit, faults>>
        /\ evalPc' = [evalPc EXCEPT ![r] = "raised"] /\ "raised" \in EvalLabels
    BY <1>11 DEF MarkRefused, EvalLabels
  <2>2. /\ evalRow[r] \in Rows /\ evalAudit[r] \in Trails /\ entries[r] \in Nat
        /\ Fits("markFailed", evalRow[r].status, evalAudit[r].ended)
        /\ Counts("markFailed", evalRow[r].status, entries[r], Len(evalRow[r].results),
                  Len(evalRow[r].aggregates), evalAudit[r].results, evalAudit[r].aggregates)
        /\ \A k \in 1..Len(evalRow[r].aggregates) :
              evalRow[r].aggregates[k].recall = Total(evalRow[r].results, Strategies[k])
    BY <1>3, <2>1 DEF RunFields
  <2>3. Fits("raised", evalRow[r].status, evalAudit[r].ended)
    BY <2>2, FitsFailing
  <2>4. Counts("raised", evalRow[r].status, entries[r], Len(evalRow[r].results),
               Len(evalRow[r].aggregates), evalAudit[r].results, evalAudit[r].aggregates)
    BY <2>2, FieldTypes, CountsFailing DEF Failing
  <2>5. RunFields(r, "raised", evalRow[r], evalAudit[r], entries[r])
    BY <2>1, <2>2, <2>3, <2>4 DEF RunFields
  <2>6. Handled(faults', "raised", evalRow[r].status, Len(evalRow[r].results) > 0)
    BY <2>1, <2>2 DEF Handled, Fits
  <2>. QED BY <1>5, <1>7, <2>1, <2>5, <2>6
<1>12. CASE Dies(r)
  <2>1. /\ evalPc[r] \notin {"idle", "returned", "raised", "dead"}
        /\ UNCHANGED <<entries, evalRow, evalAudit>>
        /\ evalPc' = [evalPc EXCEPT ![r] = "dead"] /\ "dead" \in EvalLabels
    BY <1>12 DEF Dies, EvalLabels
  <2>2. RunFields(r, "dead", evalRow'[r], evalAudit'[r], entries[r])
    BY <1>9, <2>1
  <2>3. Handled(faults', "dead", evalRow'[r].status, Len(evalRow'[r].results) > 0)
    BY DEF Handled
  <2>. QED BY <1>5, <1>7, <2>1, <2>2, <2>3
<1>. QED BY <1>5, <1>6, <1>8, <1>10, <1>11, <1>12

(* So does a step of the evaluation runs. *)
LEMMA EvalStep == ASSUME EvalInv, EvalNext PROVE EvalInv' /\ faults' >= faults
<1>1. PICK r \in Runs :
          PersistRun(r) \/ Returns(r) \/ Raises(r) \/ MarkRefused(r) \/ Dies(r)
  BY DEF EvalNext
<1>2. EvalTypes' /\ RunInv(r)' /\ OtherRunsStay(r) /\ faults' \in Nat /\ faults' >= faults
  BY <1>1, RunsMove
<1>3. ASSUME NEW q \in Runs \ {r} PROVE RunInv(q)'
  <2>1. /\ evalPc'[q] = evalPc[q] /\ entries'[q] = entries[q]
        /\ evalRow'[q] = evalRow[q] /\ evalAudit'[q] = evalAudit[q]
    BY <1>2 DEF OtherRunsStay
  <2>. QED BY <1>2, <2>1, RunStays DEF EvalInv
<1>. QED BY <1>2, <1>3 DEF EvalInv

(* A step of somebody else only adds failures. *)
LEMMA EvalStays ==
    ASSUME EvalInv, UNCHANGED evalVars, faults' \in Nat, faults' >= faults PROVE EvalInv'
<1>1. EvalTypes'
  BY DEF EvalInv, EvalTypes, evalVars
<1>2. ASSUME NEW r \in Runs PROVE RunInv(r)'
  BY RunStays DEF EvalInv, evalVars
<1>. QED BY <1>1, <1>2 DEF EvalInv

(* The evaluation runs begin idle. *)
LEMMA EvalStarts == EvalInit /\ faults = 0 => EvalInv
<1>. SUFFICES ASSUME EvalInit, faults = 0 PROVE EvalInv
  OBVIOUS
<1>1. /\ <<>> \in Seq(Results) /\ <<>> \in Seq(Aggregates)
      /\ <<>> \in Seq({"completed", "failed"}) /\ Len(<<>>) = 0
  OBVIOUS
<1>2. EvalTypes
  BY <1>1 DEF EvalInit, EvalTypes, EvalLabels, Rows, Trails, Statuses
<1>3. ASSUME NEW r \in Runs PROVE RunInv(r)
  <2>1. /\ evalPc[r] = "idle" /\ entries[r] = 0 /\ evalRow[r].status = "none"
        /\ evalRow[r].results = <<>> /\ evalRow[r].aggregates = <<>>
        /\ evalAudit[r].results = 0 /\ evalAudit[r].aggregates = 0
        /\ evalAudit[r].ended = <<>>
    BY DEF EvalInit
  <2>2. Fits("idle", "none", <<>>)
    BY DEF Fits, Trying
  <2>3. Handled(faults, "idle", "none", Len(evalRow[r].results) > 0)
    BY DEF Handled
  <2>4. Counts("idle", "none", 0, 0, 0, 0, 0)
    BY DEF Counts, Failing
  <2>5. Summed(r)
    BY <1>1, <2>1 DEF Summed
  <2>. QED BY <1>1, <2>1, <2>2, <2>3, <2>4, <2>5 DEF RunInv
<1>. QED BY <1>2, <1>3 DEF EvalInv

-----------------------------------------------------------------------------
(* Sets of runs, their least and greatest members, and their enumeration. *)
LEMMA LeastNatural ==
    ASSUME NEW S \in SUBSET Nat, S # {}
    PROVE  \E m \in S : \A k \in S : m <= k
<1>. DEFINE R == OpToRel(<, Nat)
<1>1. IsWellFoundedOn(R, Nat)
  BY NatLessThanWellFounded
<1>2. \A x, y \in Nat : x < y => <<x, y>> \in R
  BY DEF OpToRel
<1>. HIDE DEF R
<1>3. PICK m \in S : \A k \in S : ~(<<k, m>> \in R)
  BY <1>1, WFMin
<1>4. ASSUME NEW k \in S PROVE m <= k
  <2>1. k \in Nat /\ m \in Nat /\ ~(k < m)
    BY <1>2, <1>3
  <2>. QED BY <2>1
<1>. QED BY <1>4

(* Sets of runs are finite. *)
LEMMA FiniteRuns ==
    ASSUME NEW S \in SUBSET Runs
    PROVE  IsFiniteSet(S) /\ Cardinality(S) \in Nat /\ S \subseteq Nat
<1>1. IsFiniteSet(Runs)
  BY EvaluationAssumption, FS_Interval DEF Runs
<1>2. IsFiniteSet(S)
  BY <1>1, FS_Subset
<1>. QED BY <1>2, FS_CardinalityType DEF Runs

(* A set of runs has a latest one. *)
LEMMA GreatestRun ==
    ASSUME NEW S \in SUBSET Runs, S # {}
    PROVE  \E m \in S : \A k \in S : k <= m
<1>. DEFINE T == {NumRuns - k : k \in S}
<1>1. S \subseteq 1..NumRuns /\ NumRuns \in Nat
  BY EvaluationAssumption DEF Runs
<1>2. T \in SUBSET Nat /\ T # {}
  <2>1. \A k \in 1..NumRuns : NumRuns - k \in Nat
    BY <1>1
  <2>. QED BY <1>1, <2>1
<1>. HIDE DEF T
<1>3. PICK t \in T : \A u \in T : t <= u
  BY <1>2, LeastNatural
<1>4. PICK m \in S : t = NumRuns - m
  BY DEF T
<1>5. ASSUME NEW k \in S PROVE k <= m
  <2>1. NumRuns - m <= NumRuns - k
    BY <1>3, <1>4 DEF T
  <2>2. k \in Nat /\ m \in Nat
    BY <1>1
  <2>. QED BY <1>1, <2>1, <2>2
<1>. QED BY <1>5

Enumerates(s, S) == /\ s \in [1..Cardinality(S) -> S]
                    /\ \A i, j \in 1..Cardinality(S) : i < j => s[i] > s[j]

(* Every set of runs can be listed, latest first; by induction on its size, as
   the least set that cannot be. *)
LEMMA EnumerationExists == \A S \in SUBSET Runs : \E s : Enumerates(s, S)
<1>. DEFINE Bad == {n \in Nat : \E S \in SUBSET Runs :
                       Cardinality(S) = n /\ ~\E s : Enumerates(s, S)}
<1>1. SUFFICES ASSUME Bad # {} PROVE FALSE
  BY FiniteRuns
<1>2. PICK n \in Bad : \A k \in Bad : n <= k
  BY <1>1, LeastNatural
<1>3. PICK S \in SUBSET Runs : Cardinality(S) = n /\ ~\E s : Enumerates(s, S)
  BY <1>2
<1>4. IsFiniteSet(S) /\ n \in Nat /\ S \subseteq Nat
  BY <1>2, <1>3, FiniteRuns
<1>5. n # 0
  <2>1. ASSUME n = 0 PROVE FALSE
    <3>. DEFINE s == [i \in 1..Cardinality(S) |-> 0]
    <3>1. Cardinality(S) = 0 /\ 1..0 = {}
      BY <1>3, <2>1
    <3>2. Enumerates(s, S)
      BY <3>1 DEF Enumerates
    <3>. QED BY <3>2, <1>3
  <2>. QED BY <2>1
<1>6. S # {}
  BY <1>3, <1>5, FS_EmptySet
<1>7. PICK m \in S : \A k \in S : m <= k
  BY <1>4, <1>6, LeastNatural
<1>. DEFINE T == S \ {m}
<1>8. Cardinality(T) = n - 1 /\ T \in SUBSET Runs
  BY <1>3, <1>4, FS_RemoveElement
<1>9. n - 1 \in Nat /\ ~(n <= n - 1)
  BY <1>4, <1>5
<1>10. PICK t : Enumerates(t, T)
  BY <1>2, <1>8, <1>9
<1>. DEFINE s == [i \in 1..n |-> IF i = n THEN m ELSE t[i]]
<1>11. \A i \in 1..n : i # n => i \in 1..(n - 1)
  BY <1>4
<1>12. t \in [1..(n - 1) -> T] /\ \A i, j \in 1..(n - 1) : i < j => t[i] > t[j]
  BY <1>8, <1>10 DEF Enumerates
<1>13. s \in [1..n -> S]
  BY <1>7, <1>11, <1>12
<1>14. ASSUME NEW i \in 1..n, NEW j \in 1..n, i < j PROVE s[i] > s[j]
  <2>1. i # n /\ i \in 1..(n - 1) /\ s[i] = t[i] /\ t[i] \in T
    BY <1>4, <1>11, <1>12, <1>14
  <2>2. CASE j = n
    <3>1. m <= t[i] /\ t[i] # m /\ m \in Nat /\ t[i] \in Nat
      BY <1>4, <1>7, <2>1
    <3>. QED BY <2>1, <2>2, <3>1
  <2>3. CASE j # n
    BY <1>11, <1>12, <1>14, <2>1, <2>3
  <2>. QED BY <2>2, <2>3
<1>15. Enumerates(s, S)
  BY <1>3, <1>13, <1>14 DEF Enumerates
<1>. QED BY <1>3, <1>15

(* Descending lists the runs of a set, latest first. *)
LEMMA DescendingEnumerates ==
    ASSUME NEW S \in SUBSET Runs
    PROVE  /\ Descending(S) \in Seq(Runs)
           /\ \A i, j \in DOMAIN Descending(S) : i < j => Descending(S)[i] > Descending(S)[j]
           /\ \A i \in DOMAIN Descending(S) : Descending(S)[i] \in S
           /\ \A r \in S : \E i \in DOMAIN Descending(S) : Descending(S)[i] = r
<1>. DEFINE n == Cardinality(S)
            s == Descending(S)
<1>1. \E x \in [1..n -> S] : \A i, j \in 1..n : i < j => x[i] > x[j]
  BY EnumerationExists DEF Enumerates
<1>2. s \in [1..n -> S] /\ \A i, j \in 1..n : i < j => s[i] > s[j]
  BY <1>1 DEF Descending
<1>3. n \in Nat /\ IsFiniteSet(S) /\ S \subseteq Nat
  BY FiniteRuns
<1>. HIDE DEF s, n
<1>4. s \in Seq(Runs) /\ DOMAIN s = 1..n
  <2>1. s \in [1..n -> Runs]
    BY <1>2
  <2>. QED BY <1>3, <2>1
<1>5. \A i, j \in 1..n : s[i] = s[j] => i = j
  <2>1. SUFFICES ASSUME NEW i \in 1..n, NEW j \in 1..n, s[i] = s[j], i # j PROVE FALSE
    OBVIOUS
  <2>2. s[i] \in Nat /\ s[j] \in Nat /\ ~(s[i] > s[j]) /\ ~(s[j] > s[i])
    <3>1. s[i] \in S /\ s[j] \in S
      BY <1>2
    <3>2. s[i] \in Nat /\ s[j] \in Nat
      BY <1>3, <3>1
    <3>. QED BY <2>1, <3>2
  <2>3. i < j \/ j < i
    BY <1>3, <2>1
  <2>. QED BY <1>2, <2>2, <2>3
<1>6. s \in Injection(1..n, S)
  BY <1>2, <1>5 DEF Injection, IsInjective
<1>7. IsFiniteSet(1..n) /\ Cardinality(1..n) = n
  BY <1>3, FS_Interval
<1>8. s \in Surjection(1..n, S)
  BY <1>3, <1>6, <1>7, FS_Injection DEF n
<1>9. \A r \in S : \E i \in 1..n : s[i] = r
  BY <1>8 DEF Surjection
<1>. QED BY <1>2, <1>4, <1>9 DEF s

-----------------------------------------------------------------------------
(* The engine runs and the recommendations. *)
EngineLabels == EngineStops \union {"emitStart", "evaluate", "persistRec", "emitRec",
                   "markCompleted", "emitCompleted", "markFailed", "emitFailed"}
Categories == {"retrieval_strategy", "cost_optimization"}
Differences == {Distance(a, b) : a \in Totals, b \in Totals} \union {0}
Found == [category: Categories, subject: Runs \union Templates, delta: Differences]
Memories == [pc: EngineLabels, rule: 1..2, list: 0..NoCursor, runs: Seq(Runs),
             candidates: Seq(Found)]
EngineRows == [status: Statuses, skipped: {{}, Gaps}]
EngineTrails == [start: 0..1, recs: Nat, ended: Seq({"completed", "failed"})]
RecStatuses == {"generated"} \union UserStatuses
Recommendations == [engine: Engines, category: Categories, subject: Runs \union Templates,
                    delta: Differences, status: RecStatuses]

EngineTypes == /\ engine \in [Engines -> Memories]
               /\ engineRow \in [Engines -> EngineRows]
               /\ engineAudit \in [Engines -> EngineTrails]
               /\ known \in [Engines -> SUBSET Runs]
               /\ recs \in Seq(Recommendations)

(* The types of the fields of an engine run. *)
LEMMA MemoryTypes ==
    ASSUME NEW m \in Memories
    PROVE  /\ m.pc \in EngineLabels /\ m.rule \in 1..2 /\ m.list \in 0..NoCursor
           /\ m.runs \in Seq(Runs) /\ m.candidates \in Seq(Found)
BY DEF Memories

(* How the rules go on, field by field. *)
LEMMA EvaluateEnds ==
    ASSUME NEW m \in Memories
    PROVE  LET m1 == EndOfEvaluate(m)
           IN  /\ m1 \in Memories /\ m1.runs = m.runs /\ m1.list = m.list
               /\ m1.candidates = m.candidates
               /\ \/ m.candidates # <<>> /\ m1.pc = "persistRec" /\ m1.rule = m.rule
                  \/ /\ m.candidates = <<>> /\ m.rule = 1
                     /\ m1.pc = "evaluate" /\ m1.rule = 2
                  \/ /\ m.candidates = <<>> /\ m.rule = 2
                     /\ m1.pc = "markCompleted" /\ m1.rule = 2
<1>1. CASE m.candidates # <<>>
  BY <1>1 DEF EndOfEvaluate, Memories, EngineLabels
<1>2. CASE m.candidates = <<>> /\ m.rule = 1
  <2>. DEFINE m1 == [m EXCEPT !.rule = 2, !.pc = "evaluate"]
  <2>1. EndOfEvaluate(m) = m1
    BY <1>2 DEF EndOfEvaluate, EndOfRule
  <2>2. m1.pc = "evaluate" /\ m1.rule = 2 /\ m1.list = m.list /\ m1.runs = m.runs
        /\ m1.candidates = m.candidates
    BY DEF Memories
  <2>3. m1 \in Memories
    <3>1. "evaluate" \in EngineLabels /\ 2 \in 1..2
      BY DEF EngineLabels
    <3>2. [m EXCEPT !.rule = 2] \in Memories
      BY <3>1 DEF Memories
    <3>3. m1 = [[m EXCEPT !.rule = 2] EXCEPT !.pc = "evaluate"]
      BY DEF Memories
    <3>. QED BY <3>1, <3>2, <3>3 DEF Memories
  <2>. QED BY <1>2, <2>1, <2>2, <2>3
<1>3. CASE m.candidates = <<>> /\ m.rule = 2
  BY <1>3 DEF EndOfEvaluate, EndOfRule, Memories, EngineLabels
<1>. QED BY <1>1, <1>2, <1>3 DEF Memories

(* Only the label goes on. *)
LEMMA RelabelledMemory ==
    ASSUME NEW m \in Memories, NEW label \in EngineLabels
    PROVE  LET m1 == [m EXCEPT !.pc = label]
           IN  /\ m1 \in Memories /\ m1.pc = label /\ m1.rule = m.rule
               /\ m1.list = m.list /\ m1.runs = m.runs /\ m1.candidates = m.candidates
BY DEF Memories

-----------------------------------------------------------------------------
(* Pages. *)
LEMMA Paging ==
    ASSUME EvalTypes, NEW c \in 0..NoCursor
    PROVE  /\ Page(c) \subseteq After(c) /\ After(c) \in SUBSET Runs
           /\ NextCursor(c) \in 0..NoCursor
           /\ \A r \in After(c) : r \in Page(c) \/ r < NextCursor(c)
           /\ \A r \in Page(c) : r >= NextCursor(c) /\ r < c
           /\ NextCursor(c) <= c
<1>1. Page(c) \subseteq After(c) /\ After(c) \in SUBSET Runs
  BY DEF Page, After
<1>2. NumRuns \in Nat /\ Runs \subseteq Nat /\ 0 <= c /\ c \in Nat
  BY EvaluationAssumption DEF Runs, NoCursor
<1>3. \A r \in After(c) : r < c /\ r \in Nat /\ r > 0 /\ r < NoCursor
  BY <1>2 DEF After, Runs, NoCursor
<1>4. CASE Page(c) = After(c)
  <2>1. NextCursor(c) = 0 /\ 0 \in 0..NoCursor
    BY <1>2, <1>4 DEF NextCursor, NoCursor
  <2>. QED BY <1>1, <1>2, <1>3, <1>4, <2>1
<1>5. CASE Page(c) # After(c)
  <2>. DEFINE More(r) == {q \in After(c) : q > r}
  <2>1. PICK top \in After(c) : \A k \in After(c) : k <= top
    BY <1>1, <1>5, GreatestRun
  <2>2. top \in Page(c)
    <3>1. More(top) = {}
      BY <1>3, <2>1
    <3>. QED BY <3>1, <2>1, OptimizationAssumption, FS_EmptySet DEF Page
  <2>3. PICK low \in Page(c) : \A k \in Page(c) : low <= k
    BY <1>1, <1>2, <2>2, LeastNatural
  <2>4. NextCursor(c) \in Page(c) /\ \A q \in Page(c) : NextCursor(c) <= q
    <3>1. \E r \in Page(c) : \A q \in Page(c) : r <= q
      BY <2>3
    <3>. QED BY <1>5, <3>1 DEF NextCursor
  <2>5. ASSUME NEW r \in After(c), r \notin Page(c) PROVE r < NextCursor(c)
    <3>. DEFINE p == NextCursor(c)
    <3>0. p \in Page(c)
      BY <2>4
    <3>. HIDE DEF p
    <3>1. SUFFICES ASSUME ~(r < p) PROVE FALSE
      BY DEF p
    <3>2. r \in Nat /\ p \in Nat /\ p <= r
      BY <1>1, <1>3, <3>0, <3>1
    <3>3. More(r) \in SUBSET More(p) /\ More(p) \in SUBSET Runs
      <4>1. \A q \in After(c) : q > r => q > p
        BY <1>3, <3>2
      <4>. QED BY <1>1, <4>1
    <3>4. Cardinality(More(r)) <= Cardinality(More(p))
      BY <3>3, FiniteRuns, FS_Subset
    <3>5. /\ Cardinality(More(r)) \in Nat /\ Cardinality(More(p)) \in Nat
          /\ Cardinality(More(p)) < PageSize /\ ~(Cardinality(More(r)) < PageSize)
      <4>1. More(r) \in SUBSET Runs
        BY <1>1
      <4>. QED BY <2>5, <3>0, <3>3, <4>1, FiniteRuns DEF Page
    <3>. QED BY <3>4, <3>5, OptimizationAssumption
  <2>6. NextCursor(c) \in Nat /\ NextCursor(c) < c /\ NextCursor(c) < NoCursor
    BY <1>1, <1>3, <2>4
  <2>7. NextCursor(c) \in 0..NoCursor /\ NextCursor(c) <= c
    BY <1>2, <2>6 DEF NoCursor
  <2>. QED BY <1>1, <1>3, <2>4, <2>5, <2>7
<1>. QED BY <1>4, <1>5

(* An engine run has finitely many recommendations. *)
LEMMA RecsFinite ==
    ASSUME NEW e, recs \in Seq(Recommendations)
    PROVE  IsFiniteSet(RecsOf(e)) /\ Cardinality(RecsOf(e)) \in Nat
<1>1. RecsOf(e) \in SUBSET (1..Len(recs)) /\ Len(recs) \in Nat
  BY DEF RecsOf
<1>2. IsFiniteSet(1..Len(recs))
  BY <1>1, FS_Interval
<1>. QED BY <1>1, <1>2, FS_Subset, FS_CardinalityType

(* A recommendation keeps its engine run. *)
LEMMA RecsStay ==
    ASSUME NEW e, DOMAIN recs' = DOMAIN recs,
           \A i \in DOMAIN recs : recs'[i].engine = recs[i].engine
    PROVE  RecsOf(e)' = RecsOf(e)
BY DEF RecsOf

(* A new recommendation belongs to one engine run. *)
LEMMA RecsGrow ==
    ASSUME NEW e \in Engines, recs \in Seq(Recommendations),
           NEW x \in Recommendations, x.engine = e, recs' = Append(recs, x)
    PROVE  /\ recs' \in Seq(Recommendations) /\ Len(recs') = Len(recs) + 1
           /\ recs'[Len(recs) + 1] = x
           /\ \A i \in 1..Len(recs) : recs'[i] = recs[i]
           /\ RecsOf(e)' = RecsOf(e) \union {Len(recs) + 1}
           /\ Len(recs) + 1 \notin DOMAIN recs
           /\ Cardinality(RecsOf(e)') = Cardinality(RecsOf(e)) + 1
           /\ \A f \in Engines \ {e} : RecsOf(f)' = RecsOf(f)
<1>. DEFINE n == Len(recs)
<1>1. /\ n \in Nat /\ recs' \in Seq(Recommendations) /\ Len(recs') = n + 1
      /\ recs'[n + 1] = x /\ DOMAIN recs = 1..n /\ DOMAIN recs' = 1..(n + 1)
      /\ \A i \in 1..n : recs'[i] = recs[i]
  OBVIOUS
<1>. HIDE DEF n
<1>2. n + 1 \notin 1..n /\ 1..(n + 1) = (1..n) \union {n + 1}
  BY <1>1
<1>3. RecsOf(e)' = RecsOf(e) \union {n + 1}
  BY <1>1, <1>2 DEF RecsOf
<1>4. n + 1 \notin RecsOf(e)
  BY <1>1, <1>2 DEF RecsOf
<1>5. Cardinality(RecsOf(e) \union {n + 1}) = Cardinality(RecsOf(e)) + 1
  BY <1>4, RecsFinite, FS_AddElement
<1>6. ASSUME NEW f \in Engines \ {e} PROVE RecsOf(f)' = RecsOf(f)
  BY <1>1, <1>2, <1>6 DEF RecsOf
<1>. QED BY <1>1, <1>2, <1>3, <1>5, <1>6 DEF n

-----------------------------------------------------------------------------
(* At a label nr recommendations are written, ar of them audited. *)
EngCounts(label, nr, ar) ==
    /\ label = "emitRec" => nr = ar + 1
    /\ label \in Failing => ar <= nr /\ nr <= ar + 1
    /\ label \notin Failing \union {"emitRec"} => nr = ar
    /\ label \in {"idle", "emitStart"} => nr = 0

EngFields(label, row, trail, nr) ==
    /\ row \in EngineRows /\ trail \in EngineTrails /\ nr \in Nat
    /\ Fits(label, row.status, trail.ended)
    /\ EngCounts(label, nr, trail.recs)
    /\ row.skipped = IF row.status = "completed" THEN Gaps ELSE {}

NumRecs(e) == Cardinality(RecsOf(e))

EngInv(e) ==
    /\ EngFields(engine[e].pc, engineRow[e], engineAudit[e], NumRecs(e))
    /\ Handled(faults, engine[e].pc, engineRow[e].status, NumRecs(e) > 0)
    /\ engine[e].pc \in {"persistRec", "emitRec"} => engine[e].candidates # <<>>

(* A call that fails stops counting where it is. *)
LEMMA EngCountsFailing ==
    ASSUME NEW nr \in Nat, NEW ar \in Nat, NEW label, NEW end \in Failing,
           EngCounts(label, nr, ar)
    PROVE  EngCounts(end, nr, ar)
BY DEF EngCounts, Failing

\* A step of engine run e leaves the others alone.
OtherEnginesStay(e) == \A f \in Engines \ {e} :
    /\ engine'[f] = engine[f] /\ engineRow'[f] = engineRow[f]
    /\ engineAudit'[f] = engineAudit[f] /\ RecsOf(f)' = RecsOf(f)

(* An engine run that a step leaves alone keeps its invariant. *)
LEMMA EngineStays ==
    ASSUME NEW e \in Engines, EngInv(e), faults \in Nat, faults' \in Nat, faults' >= faults,
           engine'[e] = engine[e], engineRow'[e] = engineRow[e],
           engineAudit'[e] = engineAudit[e], RecsOf(e)' = RecsOf(e)
    PROVE  EngInv(e)'
<1>1. EngFields(engine[e].pc, engineRow[e], engineAudit[e], NumRecs(e))'
  BY DEF EngInv, NumRecs
<1>2. Handled(faults, engine[e].pc, engineRow[e].status, NumRecs(e) > 0)'
  BY DEF EngInv, NumRecs, Handled
<1>. QED BY <1>1, <1>2 DEF EngInv

(* The types of the row and of the events of an engine run. *)
LEMMA EngineRowTypes ==
    ASSUME NEW row \in EngineRows, NEW trail \in EngineTrails
    PROVE  /\ row.status \in Statuses /\ row.skipped \in {{}, Gaps}
           /\ trail.recs \in Nat /\ trail.ended \in Seq({"completed", "failed"})
BY DEF EngineRows, EngineTrails

(* What an event adds to the trail of an engine run. *)
LEMMA TrailEvents ==
    ASSUME NEW t \in EngineTrails
    PROVE  /\ [t EXCEPT !.start = 1] \in EngineTrails
           /\ [t EXCEPT !.start = 1].recs = t.recs /\ [t EXCEPT !.start = 1].ended = t.ended
           /\ [t EXCEPT !.recs = @ + 1] \in EngineTrails
           /\ [t EXCEPT !.recs = @ + 1].recs = t.recs + 1
           /\ [t EXCEPT !.recs = @ + 1].ended = t.ended
BY DEF EngineTrails

(* The recommendation an engine run writes. *)
Written(e) == LET c == Head(engine[e].candidates)
              IN  [engine |-> e, category |-> c.category, subject |-> c.subject,
                   delta |-> c.delta, status |-> "generated"]

(* The recommendation written is the first candidate. *)
LEMMA WrittenTyped ==
    ASSUME NEW e \in Engines, EngineTypes, engine[e].candidates # <<>>
    PROVE  /\ Written(e) \in Recommendations /\ Head(engine[e].candidates) \in Found
           /\ Written(e).engine = e
           /\ Written(e).category = engine[e].candidates[1].category
           /\ Written(e).subject = engine[e].candidates[1].subject
           /\ Written(e).delta = engine[e].candidates[1].delta
<1>1. engine[e].candidates \in Seq(Found)
  BY MemoryTypes DEF EngineTypes
<1>2. Head(engine[e].candidates) \in Found /\ Head(engine[e].candidates) = engine[e].candidates[1]
  BY <1>1
<1>. QED BY <1>2 DEF Written, Found, Recommendations, RecStatuses

(* A call leaves the fields as the label behind it wants them. *)
LEMMA EngineCallGoesOn ==
    ASSUME NEW e \in Engines, EngineTypes, EngInv(e), EngineCall(e)
    PROVE  /\ NextEngineState(engine[e]) \in Memories
           /\ EngFields(NextEngineState(engine[e]).pc, engineRow'[e], engineAudit'[e], NumRecs(e)')
           /\ engine[e].pc \notin EngineStops
           /\ engine[e].pc = "emitStart" => NumRecs(e)' = 0
           /\ NextEngineState(engine[e]).pc \in {"persistRec", "emitRec"} =>
                 NextEngineState(engine[e]).candidates # <<>>
           /\ recs' \in Seq(Recommendations)
           /\ engineRow' = [engineRow EXCEPT ![e] = engineRow'[e]]
           /\ engineAudit' = [engineAudit EXCEPT ![e] = engineAudit'[e]]
           /\ \A f \in Engines \ {e} : RecsOf(f)' = RecsOf(f)
<1>. DEFINE m == engine[e]
            m1 == NextEngineState(m)
            row == engineRow[e]
            trail == engineAudit[e]
            nr == NumRecs(e)
<1>1. /\ m \in Memories /\ row \in EngineRows /\ trail \in EngineTrails /\ nr \in Nat
      /\ recs \in Seq(Recommendations)
      /\ engineRow \in [Engines -> EngineRows] /\ engineAudit \in [Engines -> EngineTrails]
  BY RecsFinite DEF EngineTypes, NumRecs
<1>2. /\ Fits(m.pc, row.status, trail.ended) /\ EngCounts(m.pc, nr, trail.recs)
      /\ row.skipped = (IF row.status = "completed" THEN Gaps ELSE {})
      /\ m.pc \in {"persistRec", "emitRec"} => m.candidates # <<>>
      /\ trail.recs \in Nat
  BY <1>1, EngineRowTypes DEF EngInv, EngFields
<1>3. /\ engineRow = [engineRow EXCEPT ![e] = row]
      /\ engineAudit = [engineAudit EXCEPT ![e] = trail]
  BY <1>1
<1>4. ASSUME recs' = recs
      PROVE  NumRecs(e)' = nr /\ recs' \in Seq(Recommendations)
             /\ \A f \in Engines \ {e} : RecsOf(f)' = RecsOf(f)
  BY <1>1, <1>4 DEF NumRecs, RecsOf
<1>5. CASE EmitEngineStart(e)
  <2>. DEFINE trail1 == [trail EXCEPT !.start = 1]
  <2>1. /\ m.pc = "emitStart" /\ UNCHANGED <<engineRow, recs>>
        /\ engineAudit' = [engineAudit EXCEPT ![e] = trail1]
    BY <1>5 DEF EmitEngineStart
  <2>2. trail1 \in EngineTrails /\ trail1.recs = trail.recs /\ trail1.ended = trail.ended
    BY <1>1, TrailEvents
  <2>3. engineRow'[e] = row /\ engineAudit'[e] = trail1
    BY <1>1, <2>1
  <2>. HIDE DEF trail1
  <2>4. m1 = [m EXCEPT !.pc = "evaluate"] /\ "evaluate" \in EngineLabels
    BY <2>1 DEF NextEngineState, EngineLabels
  <2>5. m1 \in Memories /\ m1.pc = "evaluate"
    BY <1>1, <2>4, RelabelledMemory
  <2>6. Fits("evaluate", row.status, trail1.ended) /\ EngCounts("evaluate", nr, trail1.recs)
        /\ nr = 0
    BY <1>2, <2>1, <2>2 DEF Fits, Trying, EngCounts, Failing
  <2>7. EngFields(m1.pc, row, trail1, nr)
    BY <1>1, <1>2, <2>2, <2>5, <2>6 DEF EngFields
  <2>8. m.pc \notin EngineStops
    BY <2>1 DEF EngineStops
  <2>. HIDE DEF m1
  <2>. QED BY <1>3, <1>4, <2>1, <2>3, <2>5, <2>6, <2>7, <2>8 DEF m1
<1>6. CASE PersistRec(e)
  <2>1. /\ m.pc = "persistRec" /\ UNCHANGED <<engineRow, engineAudit>>
        /\ recs' = Append(recs, Written(e))
    BY <1>6 DEF PersistRec, Written
  <2>2. Written(e) \in Recommendations /\ Written(e).engine = e
    BY <1>2, <2>1, WrittenTyped
  <2>3. /\ recs' \in Seq(Recommendations) /\ NumRecs(e)' = nr + 1
        /\ \A f \in Engines \ {e} : RecsOf(f)' = RecsOf(f)
    BY <1>1, <2>1, <2>2, RecsGrow DEF NumRecs
  <2>4. m1 = [m EXCEPT !.pc = "emitRec"] /\ "emitRec" \in EngineLabels
    BY <2>1 DEF NextEngineState, EngineLabels
  <2>5. m1 \in Memories /\ m1.pc = "emitRec" /\ m1.candidates = m.candidates
    BY <1>1, <2>4, RelabelledMemory
  <2>6. Fits("emitRec", row.status, trail.ended) /\ EngCounts("emitRec", nr + 1, trail.recs)
    BY <1>1, <1>2, <2>1 DEF Fits, Trying, EngCounts, Failing
  <2>7. EngFields(m1.pc, row, trail, nr + 1)
    BY <1>1, <1>2, <2>5, <2>6 DEF EngFields
  <2>8. m.pc \notin EngineStops /\ engineRow'[e] = row /\ engineAudit'[e] = trail
    BY <2>1 DEF EngineStops
  <2>. HIDE DEF m1
  <2>. QED BY <1>2, <1>3, <2>1, <2>3, <2>5, <2>7, <2>8 DEF m1
<1>7. CASE EmitRec(e)
  <2>. DEFINE trail1 == [trail EXCEPT !.recs = @ + 1]
              m0 == [m EXCEPT !.candidates = Tail(@)]
  <2>1. /\ m.pc = "emitRec" /\ UNCHANGED <<engineRow, recs>>
        /\ engineAudit' = [engineAudit EXCEPT ![e] = trail1]
    BY <1>7 DEF EmitRec
  <2>2. trail1 \in EngineTrails /\ trail1.recs = trail.recs + 1 /\ trail1.ended = trail.ended
    BY <1>1, TrailEvents
  <2>3. engineRow'[e] = row /\ engineAudit'[e] = trail1
    BY <1>1, <2>1
  <2>. HIDE DEF trail1
  <2>4. m0 \in Memories
    <3>1. Tail(m.candidates) \in Seq(Found)
      BY <1>1, <1>2, <2>1, MemoryTypes
    <3>. QED BY <1>1, <3>1 DEF Memories
  <2>5. m1 = EndOfEvaluate(m0)
    BY <2>1 DEF NextEngineState
  <2>. HIDE DEF m0
  <2>6. /\ m1 \in Memories /\ m1.pc \in {"persistRec", "evaluate", "markCompleted"}
        /\ m1.pc = "persistRec" => m1.candidates # <<>>
    BY <2>4, <2>5, EvaluateEnds
  <2>. HIDE DEF m1
  <2>7. Fits(m1.pc, row.status, trail1.ended) /\ EngCounts(m1.pc, nr, trail1.recs)
    BY <1>2, <2>1, <2>2, <2>6 DEF Fits, Trying, EngCounts, Failing
  <2>8. EngFields(m1.pc, row, trail1, nr)
    BY <1>1, <1>2, <2>2, <2>7 DEF EngFields
  <2>9. m.pc \notin EngineStops
    BY <2>1 DEF EngineStops
  <2>. QED BY <1>3, <1>4, <2>1, <2>3, <2>6, <2>8, <2>9 DEF m1
<1>8. CASE MarkEngine(e)
  <2>. DEFINE row1 == IF m.pc = "markCompleted"
                      THEN [status |-> "completed", skipped |-> Gaps]
                      ELSE [row EXCEPT !.status = "failed"]
              label == IF m.pc = "markCompleted" THEN "emitCompleted" ELSE "emitFailed"
              status == IF m.pc = "markCompleted" THEN "completed" ELSE "failed"
  <2>1. /\ m.pc \in {"markCompleted", "markFailed"} /\ UNCHANGED <<engineAudit, recs>>
        /\ row.status = "running" /\ engineRow' = [engineRow EXCEPT ![e] = row1]
    BY <1>8 DEF MarkEngine
  <2>2. /\ row1 \in EngineRows /\ row1.status = status
        /\ row1.skipped = (IF status = "completed" THEN Gaps ELSE {})
    <3>1. CASE m.pc = "markCompleted"
      BY <3>1 DEF EngineRows, Statuses
    <3>2. CASE m.pc = "markFailed"
      <4>1. row1 = [row EXCEPT !.status = "failed"] /\ row.skipped = {}
        BY <1>2, <2>1, <3>2
      <4>2. row1 \in EngineRows /\ row1.status = "failed" /\ row1.skipped = {}
        BY <1>1, <4>1 DEF EngineRows, Statuses
      <4>. QED BY <3>2, <4>2
    <3>. QED BY <2>1, <3>1, <3>2
  <2>3. engineRow'[e] = row1 /\ engineAudit'[e] = trail
    BY <1>1, <2>1
  <2>. HIDE DEF row1
  <2>4. m1 = [m EXCEPT !.pc = label] /\ label \in EngineLabels
    BY <2>1 DEF NextEngineState, EngineLabels
  <2>5. m1 \in Memories /\ m1.pc = label
    BY <1>1, <2>4, RelabelledMemory
  <2>6. Fits(label, status, trail.ended) /\ EngCounts(label, nr, trail.recs)
    BY <1>1, <1>2, <2>1 DEF Fits, Trying, EngCounts, Failing
  <2>. HIDE DEF m1
  <2>7. EngFields(m1.pc, row1, trail, nr)
    BY <1>1, <1>2, <2>2, <2>5, <2>6 DEF EngFields
  <2>8. m.pc \notin EngineStops /\ m.pc # "emitStart" /\ label \notin {"persistRec", "emitRec"}
    BY <2>1 DEF EngineStops
  <2>. QED BY <1>3, <1>4, <2>1, <2>3, <2>5, <2>7, <2>8 DEF m1
<1>9. CASE EmitEngineEnd(e)
  <2>. DEFINE label == IF m.pc = "emitCompleted" THEN "returned" ELSE "raised"
              status == IF m.pc = "emitCompleted" THEN "completed" ELSE "failed"
              trail1 == [trail EXCEPT !.ended = Append(@, status)]
  <2>1. /\ m.pc \in {"emitCompleted", "emitFailed"} /\ UNCHANGED <<engineRow, recs>>
        /\ engineAudit' = [engineAudit EXCEPT ![e] = trail1]
    BY <1>9 DEF EmitEngineEnd
  <2>2. trail.ended = <<>> /\ row.status = status
    BY <1>2, <2>1 DEF Fits
  <2>3. Append(<<>>, status) = <<status>> /\ <<status>> \in Seq({"completed", "failed"})
    OBVIOUS
  <2>4. trail1 \in EngineTrails /\ trail1.ended = <<status>> /\ trail1.recs = trail.recs
    BY <1>1, <2>2, <2>3 DEF EngineTrails
  <2>5. engineRow'[e] = row /\ engineAudit'[e] = trail1
    BY <1>1, <2>1
  <2>. HIDE DEF trail1
  <2>6. m1 = [m EXCEPT !.pc = label] /\ label \in EngineLabels
    BY <2>1 DEF NextEngineState, EngineLabels, EngineStops
  <2>7. m1 \in Memories /\ m1.pc = label
    BY <1>1, <2>6, RelabelledMemory
  <2>8. Fits(label, row.status, <<status>>) /\ EngCounts(label, nr, trail.recs)
    BY <1>1, <1>2, <2>1, <2>2 DEF Fits, Trying, EngCounts, Failing
  <2>. HIDE DEF m1
  <2>9. EngFields(m1.pc, row, trail1, nr)
    BY <1>1, <1>2, <2>4, <2>7, <2>8 DEF EngFields
  <2>10. m.pc \notin EngineStops /\ m.pc # "emitStart" /\ label \notin {"persistRec", "emitRec"}
    BY <2>1 DEF EngineStops
  <2>. QED BY <1>3, <1>4, <2>1, <2>5, <2>7, <2>9, <2>10 DEF m1
<1>. QED BY <1>5, <1>6, <1>7, <1>8, <1>9 DEF EngineCall

(* What the first rule has at hand when it has read a page or a run. *)
Evaluated(m1, runs, list, candidates) ==
    /\ m1.runs = runs /\ m1.list = list /\ m1.candidates = candidates
    /\ \/ m1.pc = "evaluate" /\ m1.rule = 1
       \/ runs = <<>> /\ list = 0 /\ candidates # <<>> /\ m1.pc = "persistRec" /\ m1.rule = 1
       \/ runs = <<>> /\ list = 0 /\ candidates = <<>> /\ m1.pc = "evaluate" /\ m1.rule = 2

(* Behind a page or a run the first rule goes on or ends. *)
LEMMA FirstRuleGoesOn ==
    ASSUME NEW m \in Memories, m.pc = "evaluate", m.rule = 1
    PROVE  LET m1 == IF m.runs = <<>> /\ m.list = 0 THEN EndOfEvaluate(m) ELSE m
           IN  m1 \in Memories /\ Evaluated(m1, m.runs, m.list, m.candidates)
<1>1. CASE m.runs = <<>> /\ m.list = 0
  <2>. DEFINE m1 == EndOfEvaluate(m)
  <2>1. /\ m1 \in Memories /\ m1.runs = m.runs /\ m1.list = m.list
        /\ m1.candidates = m.candidates
        /\ \/ m.candidates # <<>> /\ m1.pc = "persistRec" /\ m1.rule = m.rule
           \/ m.candidates = <<>> /\ m.rule = 1 /\ m1.pc = "evaluate" /\ m1.rule = 2
           \/ m.candidates = <<>> /\ m.rule = 2 /\ m1.pc = "markCompleted" /\ m1.rule = 2
    BY EvaluateEnds
  <2>. HIDE DEF m1
  <2>2. m1 \in Memories /\ Evaluated(m1, m.runs, m.list, m.candidates)
    BY <1>1, <2>1 DEF Evaluated
  <2>. QED BY <1>1, <2>2 DEF m1
<1>2. CASE ~(m.runs = <<>> /\ m.list = 0)
  <2>1. Evaluated(m, m.runs, m.list, m.candidates)
    BY DEF Evaluated
  <2>. QED BY <1>2, <2>1
<1>. QED BY <1>1, <1>2

(* Of a page the completed runs are taken, latest first. *)
LEMMA SelectedRuns ==
    ASSUME EvalTypes, NEW c \in 0..NoCursor
    PROVE  /\ Selected(Page(c)) \in Seq(Runs)
           /\ \A i, j \in DOMAIN Selected(Page(c)) :
                 i < j => Selected(Page(c))[i] > Selected(Page(c))[j]
           /\ \A i \in DOMAIN Selected(Page(c)) :
                 Selected(Page(c))[i] \in Page(c) /\ Completed(Selected(Page(c))[i])
           /\ \A r \in Page(c) : Completed(r) =>
                 \E i \in DOMAIN Selected(Page(c)) : Selected(Page(c))[i] = r
<1>. DEFINE S == {r \in Page(c) : Completed(r)}
<1>1. S \in SUBSET Runs
  BY Paging
<1>2. Selected(Page(c)) = Descending(S)
  BY DEF Selected
<1>3. \A r \in S : r \in Page(c) /\ Completed(r)
  OBVIOUS
<1>4. \A r \in Page(c) : Completed(r) => r \in S
  OBVIOUS
<1>. HIDE DEF S
<1>. QED BY <1>1, <1>2, <1>3, <1>4, DescendingEnumerates

(* A page read: its runs, and the cursor behind it. *)
LEMMA RunsListed ==
    ASSUME NEW e \in Engines, EvalTypes, EngineTypes, ListRuns(e)
    PROVE  LET m == engine[e]
           IN  /\ m.pc = "evaluate" /\ m.rule = 1 /\ m.runs = <<>>
               /\ engine' = [engine EXCEPT ![e] = engine'[e]]
               /\ engine'[e] \in Memories
               /\ Evaluated(engine'[e], Selected(Page(m.list)), NextCursor(m.list),
                            m.candidates)
<1>. DEFINE m == engine[e]
            next == [m EXCEPT !.runs = Selected(Page(m.list)), !.list = NextCursor(m.list)]
            m1 == IF next.runs = <<>> /\ next.list = 0 THEN EndOfEvaluate(next) ELSE next
<1>1. /\ m \in Memories /\ m.list \in 0..NoCursor /\ m.pc = "evaluate" /\ m.rule = 1
      /\ engine' = [engine EXCEPT ![e] = m1] /\ engine \in [Engines -> Memories]
      /\ m.runs = <<>>
  BY MemoryTypes DEF ListRuns, EngineTypes
<1>2. Selected(Page(m.list)) \in Seq(Runs) /\ NextCursor(m.list) \in 0..NoCursor
  BY <1>1, SelectedRuns, Paging
<1>3. /\ next \in Memories /\ next.runs = Selected(Page(m.list))
      /\ next.list = NextCursor(m.list) /\ next.candidates = m.candidates
      /\ next.pc = "evaluate" /\ next.rule = 1
  <2>. DEFINE x == Selected(Page(m.list))
              y == NextCursor(m.list)
  <2>. HIDE DEF x, y
  <2>1. x \in Seq(Runs) /\ y \in 0..NoCursor
    BY <1>2 DEF x, y
  <2>2. next = [[m EXCEPT !.runs = x] EXCEPT !.list = y]
    BY <1>1 DEF x, y, Memories
  <2>3. [m EXCEPT !.runs = x] \in Memories
    BY <1>1, <2>1 DEF Memories
  <2>4. /\ next \in Memories /\ next.runs = x /\ next.list = y /\ next.candidates = m.candidates
        /\ next.pc = m.pc /\ next.rule = m.rule
    BY <1>1, <2>1, <2>2, <2>3 DEF Memories
  <2>. HIDE DEF next
  <2>. QED BY <1>1, <2>4 DEF x, y
<1>. HIDE DEF next
<1>4. m1 \in Memories /\ Evaluated(m1, Selected(Page(m.list)), NextCursor(m.list), m.candidates)
  BY <1>3, FirstRuleGoesOn
<1>. HIDE DEF m1
<1>5. engine'[e] = m1 /\ engine' = [engine EXCEPT ![e] = engine'[e]]
  BY <1>1
<1>. QED BY <1>1, <1>4, <1>5

(* A run gives one candidate, or none. *)
LEMMA CandidatesTyped ==
    ASSUME NEW r \in Runs, EvalTypes
    PROVE  /\ Candidates(r) \in Seq(Found)
           /\ Candidates(r) # <<>> <=> /\ Len(evalRow[r].aggregates) = 2
                                       /\ Delta(r) > Threshold * entries[r]
           /\ Candidates(r) # <<>> => /\ Len(Candidates(r)) = 1
                                      /\ Candidates(r)[1].category = "retrieval_strategy"
                                      /\ Candidates(r)[1].subject = r
                                      /\ Candidates(r)[1].delta = Delta(r)
<1>1. CASE Len(evalRow[r].aggregates) = 2 /\ Delta(r) > Threshold * entries[r]
  <2>. DEFINE c == [category |-> "retrieval_strategy", subject |-> r, delta |-> Delta(r)]
  <2>1. evalRow[r].aggregates \in Seq(Aggregates)
    BY FieldTypes DEF EvalTypes
  <2>2. evalRow[r].aggregates[1] \in Aggregates /\ evalRow[r].aggregates[2] \in Aggregates
    BY <1>1, <2>1
  <2>3. Delta(r) \in Differences
    BY <2>2 DEF Delta, Differences, Aggregates
  <2>4. c \in Found /\ c.category = "retrieval_strategy" /\ c.subject = r /\ c.delta = Delta(r)
    BY <2>3 DEF Found, Categories
  <2>5. Candidates(r) = <<c>>
    BY <1>1 DEF Candidates
  <2>. HIDE DEF c
  <2>6. <<c>> \in Seq(Found) /\ Len(<<c>>) = 1 /\ <<c>>[1] = c /\ <<c>> # <<>>
    BY <2>4
  <2>. QED BY <1>1, <2>4, <2>5, <2>6
<1>2. CASE ~(Len(evalRow[r].aggregates) = 2 /\ Delta(r) > Threshold * entries[r])
  <2>1. Candidates(r) = <<>>
    BY <1>2 DEF Candidates
  <2>. QED BY <1>2, <2>1
<1>. QED BY <1>1, <1>2

(* A run read: its candidate is behind those found before. *)
LEMMA RunInspected ==
    ASSUME NEW e \in Engines, EvalTypes, EngineTypes, InspectRun(e)
    PROVE  LET m == engine[e]
           IN  /\ m.pc = "evaluate" /\ m.rule = 1 /\ m.runs # <<>>
               /\ engine' = [engine EXCEPT ![e] = engine'[e]]
               /\ engine'[e] \in Memories
               /\ Evaluated(engine'[e], Tail(m.runs), m.list,
                            m.candidates \o Candidates(Head(m.runs)))
<1>. DEFINE m == engine[e]
            x == m.candidates \o Candidates(Head(m.runs))
            y == Tail(m.runs)
            next == [m EXCEPT !.candidates = @ \o Candidates(Head(m.runs)), !.runs = Tail(@)]
            m1 == IF next.runs = <<>> /\ next.list = 0 THEN EndOfEvaluate(next) ELSE next
<1>1. /\ m \in Memories /\ m.pc = "evaluate" /\ m.rule = 1 /\ m.runs # <<>>
      /\ engine' = [engine EXCEPT ![e] = m1] /\ engine \in [Engines -> Memories]
      /\ m.runs \in Seq(Runs) /\ m.candidates \in Seq(Found)
  BY MemoryTypes DEF InspectRun, EngineTypes
<1>2. Head(m.runs) \in Runs /\ y \in Seq(Runs)
  BY <1>1
<1>3. x \in Seq(Found)
  <2>1. Candidates(Head(m.runs)) \in Seq(Found)
    BY <1>2, CandidatesTyped
  <2>. QED BY <1>1, <2>1
<1>4. /\ next \in Memories /\ next.runs = y /\ next.list = m.list /\ next.candidates = x
      /\ next.pc = "evaluate" /\ next.rule = 1
  <2>2. next = [[m EXCEPT !.candidates = x] EXCEPT !.runs = y]
    BY <1>1 DEF Memories
  <2>. HIDE DEF x, y
  <2>3. [m EXCEPT !.candidates = x] \in Memories
    BY <1>1, <1>3 DEF Memories
  <2>4. /\ next \in Memories /\ next.runs = y /\ next.list = m.list /\ next.candidates = x
        /\ next.pc = m.pc /\ next.rule = m.rule
    BY <1>1, <1>2, <2>2, <2>3 DEF Memories
  <2>. HIDE DEF next
  <2>. QED BY <1>1, <2>4
<1>. HIDE DEF next
<1>5. m1 \in Memories /\ Evaluated(m1, y, m.list, x)
  BY <1>4, FirstRuleGoesOn
<1>. HIDE DEF m1
<1>6. engine'[e] = m1 /\ engine' = [engine EXCEPT ![e] = engine'[e]]
  BY <1>1
<1>. QED BY <1>1, <1>5, <1>6

(* The second rule evaluated: candidates for costs only. *)
LEMMA CostEvaluated ==
    ASSUME NEW e \in Engines, EngineTypes, EvaluateCost(e)
    PROVE  LET m == engine[e]
               m1 == engine'[e]
           IN  /\ m.pc = "evaluate" /\ m.rule = 2
               /\ engine' = [engine EXCEPT ![e] = m1]
               /\ m1 \in Memories /\ m1.runs = m.runs /\ m1.list = m.list /\ m1.rule = 2
               /\ m1.pc = (IF m1.candidates = <<>> THEN "markCompleted" ELSE "persistRec")
               /\ \A k \in DOMAIN m1.candidates :
                     m1.candidates[k].category = "cost_optimization"
<1>. DEFINE m == engine[e]
<1>1. PICK T \in SUBSET Templates : \E s \in [1..Cardinality(T) -> T] :
         engine' = [engine EXCEPT ![e] = EndOfEvaluate(
            [m EXCEPT !.candidates = [i \in DOMAIN s |->
               [category |-> "cost_optimization", subject |-> s[i], delta |-> 0]]])]
  BY DEF EvaluateCost
<1>2. PICK s \in [1..Cardinality(T) -> T] :
         engine' = [engine EXCEPT ![e] = EndOfEvaluate(
            [m EXCEPT !.candidates = [i \in DOMAIN s |->
               [category |-> "cost_optimization", subject |-> s[i], delta |-> 0]]])]
  BY <1>1
<1>. DEFINE x == [i \in DOMAIN s |->
                    [category |-> "cost_optimization", subject |-> s[i], delta |-> 0]]
            next == [m EXCEPT !.candidates = x]
            m1 == EndOfEvaluate(next)
<1>3. /\ m \in Memories /\ m.pc = "evaluate" /\ m.rule = 2
      /\ engine' = [engine EXCEPT ![e] = m1] /\ engine \in [Engines -> Memories]
  BY <1>2 DEF EvaluateCost, EngineTypes
<1>4. x \in Seq(Found) /\ \A k \in DOMAIN x : x[k].category = "cost_optimization"
  <2>1. IsFiniteSet(T) /\ Cardinality(T) \in Nat
    BY OptimizationAssumption, FS_Subset, FS_CardinalityType
  <2>2. ASSUME NEW i \in 1..Cardinality(T)
        PROVE  [category |-> "cost_optimization", subject |-> s[i], delta |-> 0] \in Found
    BY DEF Found, Categories, Differences
  <2>3. x \in [1..Cardinality(T) -> Found]
    BY <2>2
  <2>4. \A k \in DOMAIN x : x[k].category = "cost_optimization"
    OBVIOUS
  <2>. HIDE DEF x
  <2>. QED BY <2>1, <2>3, <2>4
<1>. HIDE DEF x
<1>5. /\ next \in Memories /\ next.runs = m.runs /\ next.list = m.list /\ next.candidates = x
      /\ next.rule = 2
  BY <1>3, <1>4 DEF Memories
<1>. HIDE DEF next
<1>6. /\ m1 \in Memories /\ m1.runs = next.runs /\ m1.list = next.list
      /\ m1.candidates = next.candidates
      /\ \/ next.candidates # <<>> /\ m1.pc = "persistRec" /\ m1.rule = next.rule
         \/ next.candidates = <<>> /\ next.rule = 1 /\ m1.pc = "evaluate" /\ m1.rule = 2
         \/ next.candidates = <<>> /\ next.rule = 2 /\ m1.pc = "markCompleted" /\ m1.rule = 2
  BY <1>5, EvaluateEnds
<1>. HIDE DEF m1
<1>7. engine'[e] = m1 /\ engine' = [engine EXCEPT ![e] = engine'[e]]
  BY <1>3
<1>. QED BY <1>3, <1>4, <1>5, <1>6, <1>7

EngineInv == EngineTypes /\ \A e \in Engines : EngInv(e)

(* The fields make up the invariant of the engine run after a step that stores them. *)
LEMMA EngineRebuilt ==
    ASSUME NEW e \in Engines, EngineTypes, NEW m1 \in Memories,
           EngFields(m1.pc, engineRow'[e], engineAudit'[e], NumRecs(e)'),
           m1.pc \in {"persistRec", "emitRec"} => m1.candidates # <<>>,
           engine' = [engine EXCEPT ![e] = m1],
           engineRow' = [engineRow EXCEPT ![e] = engineRow'[e]],
           engineAudit' = [engineAudit EXCEPT ![e] = engineAudit'[e]],
           recs' \in Seq(Recommendations), known' \in [Engines -> SUBSET Runs],
           \A f \in Engines \ {e} : RecsOf(f)' = RecsOf(f),
           faults' \in Nat, Handled(faults', m1.pc, engineRow'[e].status, NumRecs(e)' > 0)
    PROVE  EngineTypes' /\ EngInv(e)' /\ OtherEnginesStay(e)
<1>1. /\ engine \in [Engines -> Memories] /\ engineRow \in [Engines -> EngineRows]
      /\ engineAudit \in [Engines -> EngineTrails]
  BY DEF EngineTypes
<1>2. engineRow'[e] \in EngineRows /\ engineAudit'[e] \in EngineTrails
  BY DEF EngFields
<1>3. EngineTypes'
  BY <1>1, <1>2 DEF EngineTypes
<1>4. engine'[e] = m1
  BY <1>1
<1>5. EngInv(e)'
  BY <1>4 DEF EngInv
<1>6. OtherEnginesStay(e)
  BY <1>1 DEF OtherEnginesStay
<1>. QED BY <1>3, <1>5, <1>6

(* Where no recommendation is written, none is counted. *)
LEMMA RecsUnchanged ==
    ASSUME EngineTypes, UNCHANGED recs
    PROVE  /\ recs' \in Seq(Recommendations)
           /\ \A f \in Engines : RecsOf(f)' = RecsOf(f) /\ NumRecs(f)' = NumRecs(f)
BY DEF EngineTypes, RecsOf, NumRecs

(* What an engine run may do with its row, its events and its recommendations
   untouched: the label fits as the old one did. *)
LEMMA EngineThinks ==
    ASSUME NEW e \in Engines, EngineTypes, EngInv(e), UNCHANGED <<engineRow, engineAudit, recs>>,
           engine[e].pc = "evaluate",
           engine' = [engine EXCEPT ![e] = engine'[e]], engine'[e] \in Memories,
           engine'[e].pc \in {"evaluate", "persistRec", "markCompleted"},
           engine'[e].pc = "persistRec" => engine'[e].candidates # <<>>,
           UNCHANGED known, UNCHANGED faults, faults \in Nat
    PROVE  EngineTypes' /\ EngInv(e)' /\ OtherEnginesStay(e)
<1>. DEFINE label == engine'[e].pc
<1>1. /\ engineRow \in [Engines -> EngineRows] /\ engineAudit \in [Engines -> EngineTrails]
      /\ known \in [Engines -> SUBSET Runs]
  BY DEF EngineTypes
<1>2. /\ recs' \in Seq(Recommendations) /\ NumRecs(e)' = NumRecs(e)
      /\ \A f \in Engines \ {e} : RecsOf(f)' = RecsOf(f)
  BY RecsUnchanged
<1>3. EngFields(engine[e].pc, engineRow[e], engineAudit[e], NumRecs(e))
  BY DEF EngInv
<1>4. label \notin Failing \union {"idle", "emitStart", "emitRec", "emitCompleted",
                                   "returned"} /\ label \in Trying
  BY DEF Failing, Trying
<1>5. /\ engineRow'[e] = engineRow[e] /\ engineAudit'[e] = engineAudit[e]
      /\ engineRow' = [engineRow EXCEPT ![e] = engineRow'[e]]
      /\ engineAudit' = [engineAudit EXCEPT ![e] = engineAudit'[e]]
      /\ known' \in [Engines -> SUBSET Runs]
  BY <1>1
<1>. HIDE DEF label
<1>6. Fits(label, engineRow[e].status, engineAudit[e].ended)
  BY <1>3, <1>4 DEF EngFields, Fits, Trying, Failing
<1>7. EngCounts(label, NumRecs(e), engineAudit[e].recs)
  BY <1>3, <1>4 DEF EngFields, EngCounts, Failing
<1>8. EngFields(label, engineRow'[e], engineAudit'[e], NumRecs(e)')
  BY <1>2, <1>3, <1>5, <1>6, <1>7 DEF EngFields
<1>9. Handled(faults', label, engineRow'[e].status, NumRecs(e)' > 0)
  BY <1>4 DEF Handled, Failing
<1>10. label \in {"persistRec", "emitRec"} => engine'[e].candidates # <<>>
  BY <1>4 DEF label
<1>. QED BY <1>2, <1>5, <1>8, <1>9, <1>10, EngineRebuilt DEF label

EngineSteps(e) == StartEngine(e) \/ EngineProgress(e) \/ EngineRaises(e) \/ EngineDies(e)

(* A step of an engine run keeps its invariant and leaves the others alone. *)
LEMMA EngineMoves ==
    ASSUME NEW e \in Engines, EvalTypes, EngineInv, EngineSteps(e)
    PROVE  /\ EngineTypes' /\ EngInv(e)' /\ OtherEnginesStay(e)
           /\ faults' \in Nat /\ faults' >= faults
<1>. DEFINE m == engine[e]
            row == engineRow[e]
            trail == engineAudit[e]
            nr == NumRecs(e)
<1>1. EngineTypes /\ EngInv(e) /\ faults \in Nat
  BY DEF EngineInv, EvalTypes
<1>2. /\ engine \in [Engines -> Memories] /\ engineRow \in [Engines -> EngineRows]
      /\ engineAudit \in [Engines -> EngineTrails] /\ known \in [Engines -> SUBSET Runs]
      /\ m \in Memories /\ row \in EngineRows /\ trail \in EngineTrails
      /\ m.pc \in EngineLabels
  BY <1>1, MemoryTypes DEF EngineTypes
<1>3. /\ EngFields(m.pc, row, trail, nr) /\ Handled(faults, m.pc, row.status, nr > 0)
      /\ nr \in Nat /\ Fits(m.pc, row.status, trail.ended) /\ EngCounts(m.pc, nr, trail.recs)
      /\ row.skipped = (IF row.status = "completed" THEN Gaps ELSE {})
      /\ trail.recs \in Nat
  BY <1>1, <1>2, EngineRowTypes DEF EngInv, EngFields
<1>4. faults' \in Nat /\ faults' >= faults
  BY <1>1 DEF EngineSteps, StartEngine, EngineProgress, ListRuns, InspectRun, EvaluateCost,
     EngineReturns, EngineRefused, EngineRaises, EngineDies
<1>5. ASSUME UNCHANGED <<engineRow, engineAudit, recs>>
      PROVE  /\ engineRow' = [engineRow EXCEPT ![e] = engineRow'[e]]
             /\ engineAudit' = [engineAudit EXCEPT ![e] = engineAudit'[e]]
             /\ engineRow'[e] = row /\ engineAudit'[e] = trail
             /\ recs' \in Seq(Recommendations) /\ NumRecs(e)' = nr
             /\ \A f \in Engines \ {e} : RecsOf(f)' = RecsOf(f)
  BY <1>1, <1>2, <1>5, RecsUnchanged
<1>6. CASE StartEngine(e)
  <2>. DEFINE label == engine'[e].pc
              row1 == [row EXCEPT !.status = "running"]
  <2>1. /\ m.pc = "idle" /\ UNCHANGED <<engineAudit, recs>>
        /\ engineRow' = [engineRow EXCEPT ![e] = row1]
        /\ known' \in [Engines -> SUBSET Runs]
    BY <1>2, <1>6 DEF StartEngine
  <2>2. PICK new \in {"emitStart", "raised"} : engine' = [engine EXCEPT ![e].pc = new]
    BY <1>6 DEF StartEngine
  <2>. DEFINE m1 == [m EXCEPT !.pc = new]
  <2>3. new \in EngineLabels
    BY DEF EngineLabels, EngineStops
  <2>4. m1 \in Memories /\ m1.pc = new /\ engine' = [engine EXCEPT ![e] = m1]
    BY <1>2, <2>2, <2>3, RelabelledMemory
  <2>. HIDE DEF m1
  <2>5. row1 \in EngineRows /\ row1.status = "running" /\ row1.skipped = row.skipped
    BY <1>2 DEF EngineRows, Statuses
  <2>. HIDE DEF row1
  <2>6. row.status = "none" /\ trail.ended = <<>> /\ nr = 0 /\ trail.recs = 0
    BY <1>3, <2>1 DEF Fits, EngCounts, Failing
  <2>7. Fits(new, "running", <<>>) /\ EngCounts(new, 0, 0)
    BY DEF Fits, EngCounts, Failing, Trying
  <2>8. EngFields(new, row1, trail, 0)
    BY <1>2, <1>3, <2>5, <2>6, <2>7 DEF EngFields
  <2>9. Handled(faults', new, "running", FALSE) /\ ~(0 > 0)
    BY DEF Handled
  <2>10. /\ engineRow' = [engineRow EXCEPT ![e] = engineRow'[e]] /\ engineRow'[e] = row1
         /\ engineAudit' = [engineAudit EXCEPT ![e] = engineAudit'[e]]
         /\ engineAudit'[e] = trail
    BY <1>2, <2>1
  <2>11. /\ recs' \in Seq(Recommendations) /\ NumRecs(e)' = 0
         /\ \A f \in Engines \ {e} : RecsOf(f)' = RecsOf(f)
    BY <1>1, <2>1, <2>6, RecsUnchanged
  <2>12. Handled(faults', m1.pc, engineRow'[e].status, NumRecs(e)' > 0)
    BY <2>4, <2>5, <2>9, <2>10, <2>11 DEF Handled
  <2>13. /\ EngFields(m1.pc, engineRow'[e], engineAudit'[e], NumRecs(e)')
         /\ m1.pc \notin {"persistRec", "emitRec"}
    BY <2>4, <2>8, <2>10, <2>11
  <2>. QED BY <1>1, <1>4, <2>1, <2>4, <2>10, <2>11, <2>12, <2>13, EngineRebuilt
<1>7. CASE ListRuns(e)
  <2>1. /\ UNCHANGED <<engineRow, engineAudit, recs, known, faults>>
    BY <1>7 DEF ListRuns
  <2>2. /\ engine[e].pc = "evaluate" /\ engine' = [engine EXCEPT ![e] = engine'[e]]
        /\ engine'[e] \in Memories
        /\ Evaluated(engine'[e], Selected(Page(m.list)), NextCursor(m.list), m.candidates)
    BY <1>1, <1>7, RunsListed
  <2>3. /\ engine'[e].pc \in {"evaluate", "persistRec", "markCompleted"}
        /\ engine'[e].pc = "persistRec" => engine'[e].candidates # <<>>
    BY <2>2 DEF Evaluated
  <2>. QED BY <1>1, <1>4, <2>1, <2>2, <2>3, EngineThinks
<1>8. CASE InspectRun(e)
  <2>1. /\ UNCHANGED <<engineRow, engineAudit, recs, known, faults>>
    BY <1>8 DEF InspectRun
  <2>2. /\ engine[e].pc = "evaluate" /\ engine' = [engine EXCEPT ![e] = engine'[e]]
        /\ engine'[e] \in Memories
        /\ Evaluated(engine'[e], Tail(m.runs), m.list,
                     m.candidates \o Candidates(Head(m.runs)))
    BY <1>1, <1>8, RunInspected
  <2>3. /\ engine'[e].pc \in {"evaluate", "persistRec", "markCompleted"}
        /\ engine'[e].pc = "persistRec" => engine'[e].candidates # <<>>
    BY <2>2 DEF Evaluated
  <2>. QED BY <1>1, <1>4, <2>1, <2>2, <2>3, EngineThinks
<1>9. CASE EvaluateCost(e)
  <2>1. /\ UNCHANGED <<engineRow, engineAudit, recs, known, faults>>
    BY <1>9 DEF EvaluateCost
  <2>2. /\ engine[e].pc = "evaluate" /\ engine' = [engine EXCEPT ![e] = engine'[e]]
        /\ engine'[e] \in Memories
        /\ engine'[e].pc = (IF engine'[e].candidates = <<>> THEN "markCompleted"
                            ELSE "persistRec")
    BY <1>1, <1>9, CostEvaluated
  <2>3. /\ engine'[e].pc \in {"evaluate", "persistRec", "markCompleted"}
        /\ engine'[e].pc = "persistRec" => engine'[e].candidates # <<>>
    BY <2>2
  <2>. QED BY <1>1, <1>4, <2>1, <2>2, <2>3, EngineThinks
<1>10. CASE EngineReturns(e)
  <2>. DEFINE m1 == NextEngineState(m)
  <2>1. EngineCall(e) /\ engine' = [engine EXCEPT ![e] = m1] /\ UNCHANGED <<faults, known>>
    BY <1>10 DEF EngineReturns
  <2>2. /\ m1 \in Memories
        /\ EngFields(m1.pc, engineRow'[e], engineAudit'[e], NumRecs(e)')
        /\ m.pc \notin EngineStops
        /\ m1.pc \in {"persistRec", "emitRec"} => m1.candidates # <<>>
        /\ recs' \in Seq(Recommendations)
        /\ engineRow' = [engineRow EXCEPT ![e] = engineRow'[e]]
        /\ engineAudit' = [engineAudit EXCEPT ![e] = engineAudit'[e]]
        /\ \A f \in Engines \ {e} : RecsOf(f)' = RecsOf(f)
    BY <1>1, <2>1, EngineCallGoesOn
  <2>3. /\ m1.pc # "markFailed"
        /\ m1.pc = "emitFailed" => m.pc = "markFailed"
        /\ m1.pc = "raised" => m.pc = "emitFailed"
    <3>1. CASE m.pc = "emitRec"
      <4>1. Tail(m.candidates) \in Seq(Found)
        BY <1>1, <1>2, <3>1, MemoryTypes DEF EngInv
      <4>2. [m EXCEPT !.candidates = Tail(@)] \in Memories
        BY <1>2, <4>1 DEF Memories
      <4>3. m1 = EndOfEvaluate([m EXCEPT !.candidates = Tail(@)])
        BY <3>1 DEF NextEngineState
      <4>. HIDE DEF m1
      <4>4. m1.pc \in {"persistRec", "evaluate", "markCompleted"}
        BY <4>2, <4>3, EvaluateEnds
      <4>. QED BY <4>4
    <3>2. CASE m.pc # "emitRec"
      <4>1. PICK label \in {"evaluate", "emitRec", "emitCompleted", "emitFailed", "returned",
                            "raised"} :
              /\ m1 = [m EXCEPT !.pc = label]
              /\ label = "emitFailed" => m.pc = "markFailed"
              /\ label = "raised" => m.pc = "emitFailed"
        BY <2>1, <3>2 DEF NextEngineState, EngineCall, EmitEngineStart, PersistRec, EmitRec,
           MarkEngine, EmitEngineEnd
      <4>. HIDE DEF m1
      <4>2. m1.pc = label
        BY <1>2, <4>1 DEF Memories
      <4>. QED BY <4>1, <4>2
    <3>. QED BY <3>1, <3>2
  <2>. HIDE DEF m1
  <2>4. m.pc = "emitFailed" => engineRow'[e].status = "failed"
    BY <1>2, <1>3, <2>1 DEF EngineCall, EmitEngineStart, PersistRec, EmitRec, MarkEngine,
       EmitEngineEnd, Fits
  <2>5. Handled(faults', m1.pc, engineRow'[e].status, NumRecs(e)' > 0)
    BY <1>3, <2>1, <2>3, <2>4 DEF Handled
  <2>6. known' \in [Engines -> SUBSET Runs]
    BY <1>2, <2>1
  <2>. QED BY <1>1, <1>4, <2>1, <2>2, <2>5, <2>6, EngineRebuilt
<1>11. ASSUME NEW label \in Failing \cap EngineLabels, m.pc \notin EngineStops,
              EngineCall(e) \/ UNCHANGED <<engineRow, engineAudit, recs>>,
              label \in {Handler(m.pc), "dead"},
              engine' = [engine EXCEPT ![e].pc = label], UNCHANGED known,
              Handled(faults', label, engineRow'[e].status, NumRecs(e)' > 0)
       PROVE  EngineTypes' /\ EngInv(e)' /\ OtherEnginesStay(e)
  <2>. DEFINE behind == IF EngineCall(e) THEN NextEngineState(m).pc ELSE m.pc
              m1 == [m EXCEPT !.pc = label]
  <2>1. /\ EngFields(behind, engineRow'[e], engineAudit'[e], NumRecs(e)')
        /\ recs' \in Seq(Recommendations)
        /\ engineRow' = [engineRow EXCEPT ![e] = engineRow'[e]]
        /\ engineAudit' = [engineAudit EXCEPT ![e] = engineAudit'[e]]
        /\ \A f \in Engines \ {e} : RecsOf(f)' = RecsOf(f)
    BY <1>1, <1>3, <1>5, <1>11, EngineCallGoesOn
  <2>2. m1 \in Memories /\ m1.pc = label /\ engine' = [engine EXCEPT ![e] = m1]
    BY <1>2, <1>11, RelabelledMemory
  <2>3. /\ behind # "idle"
        /\ label = "markFailed" => engineRow'[e].status \in {"running", "completed"}
    <3>1. CASE EngineCall(e)
      <4>1. behind # "idle"
        <5>1. row.status # "none"
          BY <1>3, <1>11 DEF Fits, EngineStops
        <5>2. engineRow'[e] = row \/ MarkEngine(e)
          BY <3>1 DEF EngineCall, EmitEngineStart, PersistRec, EmitRec, EmitEngineEnd
        <5>3. MarkEngine(e) => engineRow'[e].status \in {"completed", "failed"}
          BY <1>2 DEF MarkEngine, EngineRows
        <5>4. engineRow'[e].status # "none"
          BY <5>1, <5>2, <5>3
        <5>5. Fits(behind, engineRow'[e].status, engineAudit'[e].ended)
          BY <2>1 DEF EngFields
        <5>. HIDE DEF behind
        <5>. QED BY <5>4, <5>5 DEF Fits
      <4>2. ASSUME label = "markFailed" PROVE engineRow'[e].status \in {"running", "completed"}
        <5>1. m.pc \notin {"emitStart", "markFailed", "emitFailed"}
          BY <1>11, <4>2 DEF Handler
        <5>2. m.pc \in Trying \union {"emitCompleted"}
          BY <1>2, <1>11, <5>1 DEF EngineLabels, EngineStops, Trying
        <5>3. row.status \in {"running", "completed"}
          BY <1>3, <5>2 DEF Fits
        <5>. QED BY <1>2, <3>1, <5>1, <5>3 DEF EngineCall, EmitEngineStart, PersistRec,
                EmitRec, MarkEngine, EmitEngineEnd
      <4>. QED BY <4>1, <4>2
    <3>2. CASE ~EngineCall(e)
      <4>1. behind = m.pc /\ engineRow'[e] = row
        BY <1>11, <3>2
      <4>2. behind # "idle"
        BY <1>11, <4>1 DEF EngineStops
      <4>3. ASSUME label = "markFailed" PROVE row.status \in {"running", "completed"}
        <5>1. m.pc \notin {"emitStart", "markFailed", "emitFailed"}
          BY <1>11, <4>3 DEF Handler
        <5>2. m.pc \in Trying \union {"emitCompleted"}
          BY <1>2, <1>11, <5>1 DEF EngineLabels, EngineStops, Trying
        <5>. QED BY <1>3, <5>2 DEF Fits
      <4>. QED BY <4>1, <4>2, <4>3
    <3>. QED BY <3>1, <3>2
  <2>. HIDE DEF behind
  <2>4. /\ engineRow'[e] \in EngineRows /\ engineAudit'[e] \in EngineTrails
        /\ NumRecs(e)' \in Nat /\ Fits(behind, engineRow'[e].status, engineAudit'[e].ended)
        /\ EngCounts(behind, NumRecs(e)', engineAudit'[e].recs)
        /\ engineRow'[e].skipped = (IF engineRow'[e].status = "completed" THEN Gaps ELSE {})
    BY <2>1 DEF EngFields
  <2>5. Fits(label, engineRow'[e].status, engineAudit'[e].ended)
    BY <1>11, <2>3, <2>4 DEF Fits, Handler, Trying
  <2>6. EngCounts(label, NumRecs(e)', engineAudit'[e].recs)
    BY <2>4, EngineRowTypes, EngCountsFailing
  <2>7. EngFields(label, engineRow'[e], engineAudit'[e], NumRecs(e)')
    BY <2>4, <2>5, <2>6 DEF EngFields
  <2>8. known' \in [Engines -> SUBSET Runs] /\ label \notin {"persistRec", "emitRec"}
    BY <1>2, <1>11 DEF Failing
  <2>. HIDE DEF m1
  <2>. QED BY <1>1, <1>4, <1>11, <2>1, <2>2, <2>7, <2>8, EngineRebuilt
<1>12. CASE EngineRaises(e)
  <2>. DEFINE label == Handler(m.pc)
  <2>1. /\ m.pc \notin EngineStops /\ UNCHANGED known /\ faults' = faults + 1
        /\ EngineCall(e) \/ UNCHANGED <<engineRow, engineAudit, recs>>
        /\ engine' = [engine EXCEPT ![e].pc = label]
    BY <1>12 DEF EngineRaises
  <2>2. /\ label \in {"raised", "markFailed"} /\ label \in Failing \cap EngineLabels
        /\ label = "raised" => m.pc \in {"emitStart", "markFailed", "emitFailed"}
    BY DEF Handler, Failing, EngineLabels, EngineStops
  <2>3. m.pc = "emitStart" => NumRecs(e)' = 0
    <3>1. CASE EngineCall(e)
      BY <1>1, <3>1, EngineCallGoesOn
    <3>2. CASE UNCHANGED <<engineRow, engineAudit, recs>>
      BY <1>3, <1>5, <3>2 DEF EngCounts
    <3>. QED BY <2>1, <3>1, <3>2
  <2>4. Handled(faults', label, engineRow'[e].status, NumRecs(e)' > 0)
    BY <1>1, <1>3, <2>1, <2>2, <2>3 DEF Handled
  <2>. HIDE DEF label
  <2>. QED BY <1>4, <1>11, <2>1, <2>2, <2>4 DEF label
<1>13. CASE EngineDies(e)
  <2>1. /\ m.pc \notin EngineStops /\ UNCHANGED <<engineRow, engineAudit, recs, known>>
        /\ engine' = [engine EXCEPT ![e].pc = "dead"]
    BY <1>13 DEF EngineDies
  <2>2. "dead" \in Failing \cap EngineLabels
    BY DEF Failing, EngineLabels, EngineStops
  <2>3. Handled(faults', "dead", engineRow'[e].status, NumRecs(e)' > 0)
    BY DEF Handled
  <2>. QED BY <1>4, <1>11, <2>1, <2>2, <2>3
<1>14. CASE EngineRefused(e)
  <2>1. /\ m.pc = "markFailed" /\ row.status # "running" /\ UNCHANGED known
        /\ UNCHANGED <<engineRow, engineAudit, recs>>
        /\ engine' = [engine EXCEPT ![e].pc = "raised"]
    BY <1>14 DEF EngineRefused
  <2>2. "raised" \in Failing \cap EngineLabels /\ m.pc \notin EngineStops
        /\ Handler(m.pc) = "raised"
    BY <2>1 DEF Failing, EngineLabels, EngineStops, Handler
  <2>3. row.status = "completed"
    BY <1>3, <2>1 DEF Fits
  <2>4. Handled(faults', "raised", engineRow'[e].status, NumRecs(e)' > 0)
    BY <1>5, <2>1, <2>3 DEF Handled
  <2>. QED BY <1>4, <1>11, <2>1, <2>2, <2>4
<1>. QED BY <1>4, <1>6, <1>7, <1>8, <1>9, <1>10, <1>12, <1>13, <1>14
         DEF EngineSteps, EngineProgress

-----------------------------------------------------------------------------
(* The users and the transitions. *)
Moves == RecStatuses \X RecStatuses
Requesting == [pc: {"idle", "persist", "emit"}, rec: Nat, from: RecStatuses \union {""},
               to: RecStatuses \union {""}]

UserTypes == /\ user \in [Users -> Requesting]
             /\ moves \in Seq(Seq(Moves)) /\ moveAudit \in Seq(SUBSET Moves)
             /\ Len(moves) = Len(recs) /\ Len(moveAudit) = Len(recs)
             /\ \A u \in Users : user[u].pc # "idle" =>
                   /\ user[u].rec \in 1..Len(recs)
                   /\ CanTransition(user[u].from, user[u].to)
             /\ requests \in Nat

\* The transitions of path lead from generated to status.
Leads(path, status) ==
    /\ path = <<>> => status = "generated"
    /\ path # <<>> => path[1][1] = "generated" /\ path[Len(path)][2] = status
    /\ \A k \in DOMAIN path : CanTransition(path[k][1], path[k][2])
    /\ \A k \in 1..(Len(path) - 1) : path[k][2] = path[k + 1][1]

(* A recommendation changes its status at most twice, and never leaves the one
   it has now twice. *)
LEMMA PathsAreShort ==
    ASSUME NEW path \in Seq(Moves), NEW status, Leads(path, status)
    PROVE  Len(path) <= 2 /\ \A k \in DOMAIN path : path[k][1] # status
<1>1. Len(path) \in Nat /\ DOMAIN path = 1..Len(path)
  OBVIOUS
<1>2. Len(path) <= 2
  <2>1. SUFFICES ASSUME 3 <= Len(path) PROVE FALSE
    BY <1>1
  <2>2. 1 \in DOMAIN path /\ 2 \in DOMAIN path /\ 3 \in DOMAIN path
    BY <1>1, <2>1
  <2>3. path # <<>> /\ 1 \in 1..(Len(path) - 1) /\ 2 \in 1..(Len(path) - 1)
    BY <1>1, <2>1
  <2>4. path[1][1] = "generated" /\ path[1][2] = path[2][1] /\ path[2][2] = path[3][1]
    BY <2>3 DEF Leads
  <2>5. /\ CanTransition(path[1][1], path[1][2]) /\ CanTransition(path[2][1], path[2][2])
        /\ CanTransition(path[3][1], path[3][2])
    BY <2>2 DEF Leads
  <2>. QED BY <2>4, <2>5 DEF CanTransition
<1>3. ASSUME NEW k \in DOMAIN path PROVE path[k][1] # status
  <2>1. path # <<>> /\ 1 \in DOMAIN path /\ path[1][1] = "generated"
    BY <1>1 DEF Leads
  <2>2. path[Len(path)][2] = status /\ CanTransition(path[1][1], path[1][2])
    BY <2>1 DEF Leads
  <2>3. CASE Len(path) = 1
    BY <1>1, <2>1, <2>2, <2>3 DEF CanTransition
  <2>4. CASE Len(path) = 2
    <3>1. 2 \in DOMAIN path /\ 1 \in 1..(Len(path) - 1) /\ k \in {1, 2}
      BY <1>1, <2>4
    <3>2. CanTransition(path[2][1], path[2][2]) /\ path[1][2] = path[2][1]
      BY <3>1 DEF Leads
    <3>. QED BY <2>1, <2>2, <2>4, <3>1, <3>2 DEF CanTransition
  <2>. QED BY <1>1, <1>2, <2>3, <2>4
<1>. QED BY <1>2, <1>3

(* A transition that leaves the status a path leads to makes the path longer. *)
LEMMA PathsGoOn ==
    ASSUME NEW path \in Seq(Moves), NEW from, NEW to, Leads(path, from),
           CanTransition(from, to), <<from, to>> \in Moves
    PROVE  Leads(Append(path, <<from, to>>), to)
<1>. DEFINE n == Len(path)
            more == Append(path, <<from, to>>)
<1>1. /\ n \in Nat /\ Len(more) = n + 1 /\ DOMAIN more = 1..(n + 1) /\ more # <<>>
      /\ more[n + 1] = <<from, to>> /\ \A k \in 1..n : more[k] = path[k]
      /\ DOMAIN path = 1..n
  OBVIOUS
<1>. HIDE DEF more, n
<1>2. more[Len(more)][2] = to
  BY <1>1
<1>3. more[1][1] = "generated"
  <2>1. CASE n = 0
    BY <1>1, <2>1 DEF Leads
  <2>2. CASE n # 0
    <3>1. path # <<>> /\ 1 \in 1..n
      BY <1>1, <2>2
    <3>. QED BY <1>1, <3>1 DEF Leads
  <2>. QED BY <2>1, <2>2
<1>4. \A k \in DOMAIN more : CanTransition(more[k][1], more[k][2])
  BY <1>1 DEF Leads
<1>5. ASSUME NEW k \in 1..(Len(more) - 1) PROVE more[k][2] = more[k + 1][1]
  <2>1. CASE k = n
    <3>1. path # <<>> /\ k \in 1..n
      BY <1>1, <2>1
    <3>2. path[n][2] = from
      BY <3>1 DEF Leads, n
    <3>. QED BY <1>1, <2>1, <3>1, <3>2
  <2>2. CASE k # n
    <3>0. k \in 1..n
      BY <1>1
    <3>1. k \in 1..(n - 1) /\ k \in 1..n /\ k + 1 \in 1..n
      BY <1>1, <2>2, <3>0
    <3>2. path[k][2] = path[k + 1][1]
      BY <3>1 DEF Leads, n
    <3>. QED BY <1>1, <3>1, <3>2
  <2>. QED BY <2>1, <2>2
<1>. QED BY <1>1, <1>2, <1>3, <1>4, <1>5 DEF Leads

Emitting == {u \in Users : user[u].pc = "emit"}

(* The transition a user is about to audit is stored, not audited yet, and
   nobody else's. *)
EmittersInv ==
    /\ \A u \in Emitting :
          /\ \E k \in DOMAIN moves[user[u].rec] :
                moves[user[u].rec][k] = <<user[u].from, user[u].to>>
          /\ <<user[u].from, user[u].to>> \notin moveAudit[user[u].rec]
    /\ \A u, v \in Emitting : u # v =>
          user[u].rec # user[v].rec \/ user[u].from # user[v].from

PathsInv == \A i \in 1..Len(recs) :
    /\ Leads(moves[i], recs[i].status)
    /\ moveAudit[i] \subseteq {moves[i][k] : k \in DOMAIN moves[i]}

UserInv == /\ UserTypes /\ PathsInv /\ EmittersInv
           /\ Cardinality(UnauditedMoves) <= Cardinality(Emitting) + faults

(* Finitely many transitions wait for their event. *)
LEMMA FiniteMoves ==
    ASSUME UserTypes, recs \in Seq(Recommendations)
    PROVE  /\ IsFiniteSet(UnauditedMoves) /\ Cardinality(UnauditedMoves) \in Nat
           /\ IsFiniteSet(Emitting) /\ Cardinality(Emitting) \in Nat
<1>1. IsFiniteSet(1..Len(moves)) /\ IsFiniteSet(1..2)
  <2>1. Len(moves) \in Int /\ 1 \in Int /\ 2 \in Int
    BY DEF UserTypes
  <2>. QED BY <2>1, FS_Interval
<1>2. IsFiniteSet((1..Len(moves)) \X (1..2))
  BY <1>1, FS_Product
<1>3. UnauditedMoves \in SUBSET ((1..Len(moves)) \X (1..2))
  BY DEF UnauditedMoves, UserTypes
<1>4. Emitting \in SUBSET Users
  BY DEF Emitting
<1>. QED BY <1>2, <1>3, <1>4, OptimizationAssumption, FS_Subset, FS_CardinalityType

(* The types of the fields of a user. *)
LEMMA UserFields ==
    ASSUME UserTypes, NEW u \in Users
    PROVE  /\ user[u] \in Requesting /\ user[u].pc \in {"idle", "persist", "emit"}
           /\ user[u].pc # "idle" => /\ user[u].rec \in 1..Len(recs)
                                     /\ CanTransition(user[u].from, user[u].to)
                                     /\ <<user[u].from, user[u].to>> \in Moves
                                     /\ user[u].to \in RecStatuses
BY DEF UserTypes, Requesting, CanTransition, Moves, RecStatuses, UserStatuses

(* What the transaction of a transition does. *)
LEMMA TransitionPersisted ==
    ASSUME UserTypes, recs \in Seq(Recommendations), NEW u \in Users, PersistTransition(u)
    PROVE  LET q == user[u]
           IN  /\ q.pc = "persist" /\ recs[q.rec].status = q.from /\ moveAudit' = moveAudit
               /\ recs' \in Seq(Recommendations) /\ Len(recs') = Len(recs)
               /\ \A i \in 1..Len(recs) :
                     /\ recs'[i].engine = recs[i].engine
                     /\ recs'[i].category = recs[i].category
                     /\ recs'[i].subject = recs[i].subject
                     /\ recs'[i].delta = recs[i].delta
                     /\ recs'[i].status = IF i = q.rec THEN q.to ELSE recs[i].status
               /\ moves' \in Seq(Seq(Moves)) /\ Len(moves') = Len(moves)
               /\ moves'[q.rec] = Append(moves[q.rec], <<q.from, q.to>>)
               /\ \A i \in 1..Len(recs) : i # q.rec => moves'[i] = moves[i]
<1>. DEFINE q == user[u]
            i == q.rec
            n == Len(recs)
            rec1 == [recs[i] EXCEPT !.status = q.to]
            path1 == Append(moves[i], <<q.from, q.to>>)
<1>1. /\ q.pc = "persist" /\ recs[i].status = q.from /\ moveAudit' = moveAudit
      /\ recs' = [recs EXCEPT ![i] = rec1] /\ moves' = [moves EXCEPT ![i] = path1]
  BY DEF PersistTransition, Pinned
<1>2. /\ i \in 1..n /\ <<q.from, q.to>> \in Moves /\ q.to \in RecStatuses
      /\ n \in Nat /\ Len(moves) = n /\ moves \in Seq(Seq(Moves))
  BY <1>1, UserFields DEF UserTypes
<1>3. recs[i] \in Recommendations /\ moves[i] \in Seq(Moves)
  BY <1>2
<1>4. /\ rec1 \in Recommendations /\ rec1.engine = recs[i].engine
      /\ rec1.category = recs[i].category /\ rec1.subject = recs[i].subject
      /\ rec1.delta = recs[i].delta /\ rec1.status = q.to
  BY <1>2, <1>3 DEF Recommendations
<1>5. path1 \in Seq(Moves)
  BY <1>2, <1>3
<1>. HIDE DEF rec1, path1
<1>6. recs' \in Seq(Recommendations) /\ Len(recs') = n /\ recs'[i] = rec1
      /\ \A j \in 1..n : j # i => recs'[j] = recs[j]
  BY <1>1, <1>2, <1>4
<1>7. moves' \in Seq(Seq(Moves)) /\ Len(moves') = Len(moves) /\ moves'[i] = path1
      /\ \A j \in 1..n : j # i => moves'[j] = moves[j]
  BY <1>1, <1>2, <1>5
<1>8. ASSUME NEW j \in 1..n
      PROVE  /\ recs'[j].engine = recs[j].engine /\ recs'[j].category = recs[j].category
             /\ recs'[j].subject = recs[j].subject /\ recs'[j].delta = recs[j].delta
             /\ recs'[j].status = IF j = i THEN q.to ELSE recs[j].status
  <2>1. CASE j = i
    BY <1>4, <1>6, <2>1
  <2>2. CASE j # i
    BY <1>6, <2>2
  <2>. QED BY <2>1, <2>2
<1>. QED BY <1>1, <1>6, <1>7, <1>8 DEF path1

(* Users who stay where they are keep what holds of them. *)
LEMMA EmittersKept ==
    ASSUME EmittersInv, Emitting' \subseteq Emitting,
           \A v \in Emitting' :
              /\ user'[v] = user[v]
              /\ \E k \in DOMAIN moves'[user[v].rec] :
                    moves'[user[v].rec][k] = <<user[v].from, user[v].to>>
              /\ <<user[v].from, user[v].to>> \notin moveAudit'[user[v].rec]
    PROVE  EmittersInv'
<1>1. ASSUME NEW v \in Emitting'
      PROVE  /\ \E k \in DOMAIN moves'[user'[v].rec] :
                   moves'[user'[v].rec][k] = <<user'[v].from, user'[v].to>>
             /\ <<user'[v].from, user'[v].to>> \notin moveAudit'[user'[v].rec]
  OBVIOUS
<1>2. ASSUME NEW v \in Emitting', NEW w \in Emitting', v # w
      PROVE  user'[v].rec # user'[w].rec \/ user'[v].from # user'[w].from
  BY <1>2 DEF EmittersInv
<1>. QED BY <1>1, <1>2 DEF EmittersInv

(* What Append does, entry by entry. *)
LEMMA Appended ==
    ASSUME NEW S, NEW s \in Seq(S), NEW x \in S
    PROVE  /\ Append(s, x) \in Seq(S) /\ Len(s) \in Nat /\ Len(Append(s, x)) = Len(s) + 1
           /\ DOMAIN s = 1..Len(s) /\ DOMAIN Append(s, x) = 1..(Len(s) + 1)
           /\ Append(s, x)[Len(s) + 1] = x
           /\ \A k \in 1..Len(s) : Append(s, x)[k] = s[k]
OBVIOUS

(* A step of somebody else leaves the users and the transitions alone. *)
LEMMA UsersStay ==
    ASSUME UserInv, recs \in Seq(Recommendations), UNCHANGED <<recs, moves, moveAudit, user, requests>>,
           faults \in Nat, faults' \in Nat, faults' >= faults
    PROVE  UserInv'
<1>1. /\ UserTypes' /\ PathsInv' /\ EmittersInv' /\ UnauditedMoves' = UnauditedMoves
      /\ Emitting' = Emitting
  <2>1. UnauditedMoves' = UnauditedMoves /\ Emitting' = Emitting
    BY DEF UnauditedMoves, Emitting
  <2>2. UserTypes' /\ PathsInv'
    BY DEF UserInv, UserTypes, PathsInv
  <2>3. EmittersInv'
    BY <2>1, EmittersKept DEF UserInv, EmittersInv
  <2>. QED BY <2>1, <2>2, <2>3
<1>2. Cardinality(UnauditedMoves) \in Nat /\ Cardinality(Emitting) \in Nat
  BY FiniteMoves DEF UserInv
<1>3. Cardinality(UnauditedMoves)' <= Cardinality(Emitting)' + faults'
  BY <1>1, <1>2 DEF UserInv
<1>. QED BY <1>1, <1>3 DEF UserInv

(* A new recommendation has no transitions. *)
LEMMA UsersGrow ==
    ASSUME UserInv, recs \in Seq(Recommendations), UNCHANGED <<user, requests>>,
           NEW x \in Recommendations, x.status = "generated", recs' = Append(recs, x),
           moves' = Append(moves, <<>>), moveAudit' = Append(moveAudit, {}),
           faults \in Nat, faults' \in Nat, faults' >= faults
    PROVE  UserInv'
<1>. DEFINE n == Len(recs)
<1>1. /\ n \in Nat /\ Len(recs') = n + 1 /\ recs'[n + 1] = x
      /\ \A i \in 1..n : recs'[i] = recs[i]
  OBVIOUS
<1>2. /\ moves \in Seq(Seq(Moves)) /\ moveAudit \in Seq(SUBSET Moves)
      /\ Len(moves) = n /\ Len(moveAudit) = n
  BY DEF UserInv, UserTypes
<1>. HIDE DEF n
<1>3. <<>> \in Seq(Moves) /\ {} \in SUBSET Moves
  OBVIOUS
<1>4. /\ moves' \in Seq(Seq(Moves)) /\ Len(moves') = n + 1 /\ moves'[n + 1] = <<>>
      /\ \A i \in 1..n : moves'[i] = moves[i]
  BY <1>2, <1>3
<1>5. /\ moveAudit' \in Seq(SUBSET Moves) /\ Len(moveAudit') = n + 1
      /\ moveAudit'[n + 1] = {} /\ \A i \in 1..n : moveAudit'[i] = moveAudit[i]
  BY <1>2, <1>3
<1>6. \A i \in 1..(n + 1) : i \in 1..n \/ i = n + 1
  BY <1>1
<1>7. \A u \in Users : user[u].pc # "idle" => user[u].rec \in 1..n /\ user[u].rec \in 1..(n + 1)
  BY <1>1 DEF UserInv, UserTypes, n
<1>8. UserTypes'
  BY <1>1, <1>4, <1>5, <1>7 DEF UserInv, UserTypes
<1>9. PathsInv'
  <2>1. SUFFICES ASSUME NEW i \in 1..(n + 1)
                 PROVE  /\ Leads(moves'[i], recs'[i].status)
                        /\ moveAudit'[i] \subseteq {moves'[i][k] : k \in DOMAIN moves'[i]}
    BY <1>1 DEF PathsInv
  <2>2. CASE i = n + 1
    <3>1. Leads(<<>>, "generated")
      BY DEF Leads
    <3>. QED BY <1>1, <1>4, <1>5, <2>2, <3>1
  <2>3. CASE i \in 1..n
    BY <1>1, <1>4, <1>5, <2>3 DEF UserInv, PathsInv, n
  <2>. QED BY <1>6, <2>2, <2>3
<1>10. EmittersInv' /\ Emitting' = Emitting
  <2>1. Emitting' = Emitting /\ \A u \in Emitting : user[u].rec \in 1..n
    BY <1>7 DEF Emitting
  <2>2. ASSUME NEW v \in Emitting
        PROVE  /\ \E k \in DOMAIN moves'[user[v].rec] :
                     moves'[user[v].rec][k] = <<user[v].from, user[v].to>>
               /\ <<user[v].from, user[v].to>> \notin moveAudit'[user[v].rec]
    <3>1. moves'[user[v].rec] = moves[user[v].rec] /\ moveAudit'[user[v].rec] = moveAudit[user[v].rec]
      BY <1>4, <1>5, <2>1
    <3>2. /\ \E k \in DOMAIN moves[user[v].rec] :
                moves[user[v].rec][k] = <<user[v].from, user[v].to>>
          /\ <<user[v].from, user[v].to>> \notin moveAudit[user[v].rec]
      BY DEF UserInv, EmittersInv
    <3>. QED BY <3>1, <3>2
  <2>. QED BY <2>1, <2>2, EmittersKept DEF UserInv
<1>11. UnauditedMoves' = UnauditedMoves
  <2>1. ASSUME NEW p PROVE p \in UnauditedMoves' <=> p \in UnauditedMoves
    <3>1. DOMAIN moves = 1..n /\ DOMAIN moves' = 1..(n + 1)
      BY <1>2, <1>4
    <3>2. \A a, b : <<a, b>> \in UnauditedMoves' <=> <<a, b>> \in UnauditedMoves
      <4>1. SUFFICES ASSUME NEW a, NEW b
                     PROVE  <<a, b>> \in UnauditedMoves' <=> <<a, b>> \in UnauditedMoves
        OBVIOUS
      <4>2. <<a, b>> \in UnauditedMoves' <=>
               /\ a \in 1..(n + 1) /\ b \in 1..2 /\ b \in DOMAIN moves'[a]
               /\ moves'[a][b] \notin moveAudit'[a]
        BY <3>1 DEF UnauditedMoves
      <4>3. <<a, b>> \in UnauditedMoves <=>
               /\ a \in 1..n /\ b \in 1..2 /\ b \in DOMAIN moves[a]
               /\ moves[a][b] \notin moveAudit[a]
        BY <3>1 DEF UnauditedMoves
      <4>4. CASE a = n + 1
        <5>1. ~(b \in DOMAIN moves'[a])
          BY <1>4, <4>4
        <5>2. a \notin 1..n
          BY <1>1, <4>4
        <5>. QED BY <4>2, <4>3, <5>1, <5>2
      <4>5. CASE a \in 1..n
        <5>1. a \in 1..(n + 1) /\ moves'[a] = moves[a] /\ moveAudit'[a] = moveAudit[a]
          BY <1>1, <1>4, <1>5, <4>5
        <5>. QED BY <4>2, <4>3, <4>5, <5>1
      <4>6. CASE a \notin 1..(n + 1)
        <5>1. a \notin 1..n
          BY <1>1, <4>6
        <5>. QED BY <4>2, <4>3, <4>6, <5>1
      <4>. QED BY <1>6, <4>4, <4>5, <4>6
    <3>3. p \in UnauditedMoves' => p = <<p[1], p[2]>>
      BY DEF UnauditedMoves
    <3>4. p \in UnauditedMoves => p = <<p[1], p[2]>>
      BY DEF UnauditedMoves
    <3>. QED BY <3>2, <3>3, <3>4
  <2>. QED BY <2>1
<1>12. Cardinality(UnauditedMoves) \in Nat /\ Cardinality(Emitting) \in Nat
  BY FiniteMoves DEF UserInv
<1>13. Cardinality(UnauditedMoves)' <= Cardinality(Emitting)' + faults'
  BY <1>10, <1>11, <1>12 DEF UserInv
<1>. QED BY <1>8, <1>9, <1>10, <1>13 DEF UserInv

\* What PersistTransition and EmitTransition leave to be shown.
Accounted == Cardinality(UnauditedMoves) <= Cardinality(Emitting) + faults

(* A user gives up a request, or has it refused. *)
LEMMA RequestEnds ==
    ASSUME UserInv, recs \in Seq(Recommendations), UNCHANGED <<recs, moves, moveAudit, requests>>,
           NEW u \in Users, user[u].pc # "idle", user' = [user EXCEPT ![u].pc = "idle"],
           faults \in Nat, faults' \in Nat, faults' >= faults,
           user[u].pc = "emit" => faults' = faults + 1
    PROVE  UserInv'
<1>1. user \in [Users -> Requesting]
  BY DEF UserInv, UserTypes
<1>2. /\ user' \in [Users -> Requesting] /\ user'[u].pc = "idle"
      /\ \A v \in Users : v # u => user'[v] = user[v]
  BY <1>1 DEF Requesting
<1>3. UserTypes' /\ PathsInv' /\ UnauditedMoves' = UnauditedMoves
  BY <1>2 DEF UserInv, UserTypes, PathsInv, UnauditedMoves
<1>4. Emitting' = Emitting \ {u}
  BY <1>2 DEF Emitting
<1>5. EmittersInv'
  <2>1. \A v \in Emitting' : user'[v] = user[v] /\ v \in Emitting
    BY <1>2, <1>4 DEF Emitting
  <2>2. ASSUME NEW v \in Emitting
        PROVE  /\ \E k \in DOMAIN moves'[user[v].rec] :
                     moves'[user[v].rec][k] = <<user[v].from, user[v].to>>
               /\ <<user[v].from, user[v].to>> \notin moveAudit'[user[v].rec]
    BY DEF UserInv, EmittersInv
  <2>. QED BY <2>1, <2>2, EmittersKept DEF UserInv
<1>6. /\ Cardinality(UnauditedMoves) \in Nat /\ Cardinality(Emitting) \in Nat
      /\ IsFiniteSet(Emitting)
  BY FiniteMoves DEF UserInv
<1>7. Cardinality(Emitting') = IF u \in Emitting THEN Cardinality(Emitting) - 1
                               ELSE Cardinality(Emitting)
  BY <1>4, <1>6, FS_RemoveElement
<1>8. u \in Emitting => faults' = faults + 1
  BY DEF Emitting
<1>9. Accounted'
  BY <1>3, <1>6, <1>7, <1>8 DEF UserInv, Accounted
<1>. QED BY <1>3, <1>5, <1>9 DEF UserInv, Accounted

(* A request reads the status and checks the transition. *)
LEMMA RequestBegins ==
    ASSUME UserInv, recs \in Seq(Recommendations), faults \in Nat,
           NEW u \in Users, NEW i \in DOMAIN recs, NEW to \in UserStatuses, Request(u, i, to)
    PROVE  UserInv'
<1>. DEFINE q1 == [pc |-> "persist", rec |-> i, from |-> recs[i].status, to |-> to]
<1>1. /\ user \in [Users -> Requesting] /\ user[u].pc = "idle"
      /\ user' = [user EXCEPT ![u] = q1] /\ CanTransition(recs[i].status, to)
      /\ UNCHANGED <<recs, moves, moveAudit, faults>> /\ requests' = requests + 1
  BY DEF UserInv, UserTypes, Request
<1>2. i \in 1..Len(recs) /\ Len(recs) \in Nat /\ recs[i] \in Recommendations
  OBVIOUS
<1>3. q1 \in Requesting
  <2>1. recs[i].status \in RecStatuses /\ to \in RecStatuses /\ i \in Nat
    BY <1>2 DEF Recommendations, RecStatuses
  <2>. QED BY <2>1 DEF Requesting
<1>4. /\ user' \in [Users -> Requesting] /\ user'[u] = q1
      /\ \A v \in Users : v # u => user'[v] = user[v]
  BY <1>1, <1>3
<1>5. UserTypes'
  BY <1>1, <1>2, <1>4 DEF UserInv, UserTypes
<1>6. PathsInv' /\ UnauditedMoves' = UnauditedMoves
  BY <1>1 DEF UserInv, PathsInv, UnauditedMoves
<1>7. Emitting' = Emitting
  BY <1>1, <1>4 DEF Emitting
<1>8. EmittersInv'
  <2>1. \A v \in Emitting : user'[v] = user[v]
    BY <1>1, <1>4 DEF Emitting
  <2>2. ASSUME NEW v \in Emitting
        PROVE  /\ \E k \in DOMAIN moves'[user[v].rec] :
                     moves'[user[v].rec][k] = <<user[v].from, user[v].to>>
               /\ <<user[v].from, user[v].to>> \notin moveAudit'[user[v].rec]
    BY <1>1 DEF UserInv, EmittersInv
  <2>. QED BY <1>7, <2>1, <2>2, EmittersKept DEF UserInv
<1>. QED BY <1>1, <1>5, <1>6, <1>7, <1>8 DEF UserInv

(* The transaction of a transition, whether or not its user hears of it. *)
LEMMA TransitionGoesOn ==
    ASSUME UserInv, recs \in Seq(Recommendations), NEW u \in Users, PersistTransition(u),
           NEW label \in {"emit", "idle"}, user' = [user EXCEPT ![u].pc = label],
           faults \in Nat, faults' \in Nat, UNCHANGED requests,
           faults' = IF label = "emit" THEN faults ELSE faults + 1
    PROVE  UserInv'
<1>. DEFINE q == user[u]
            i == q.rec
            move == <<q.from, q.to>>
            n == Len(moves[i])
<1>1. /\ q.pc = "persist" /\ recs[i].status = q.from /\ moveAudit' = moveAudit
      /\ recs' \in Seq(Recommendations) /\ Len(recs') = Len(recs)
      /\ \A j \in 1..Len(recs) :
            recs'[j].status = IF j = i THEN q.to ELSE recs[j].status
      /\ moves' \in Seq(Seq(Moves)) /\ Len(moves') = Len(moves)
      /\ moves'[i] = Append(moves[i], move)
      /\ \A j \in 1..Len(recs) : j # i => moves'[j] = moves[j]
  BY TransitionPersisted DEF UserInv
<1>2. /\ i \in 1..Len(recs) /\ CanTransition(q.from, q.to) /\ move \in Moves
      /\ Len(recs) \in Nat
  BY <1>1, UserFields DEF UserInv
<1>3. /\ user \in [Users -> Requesting] /\ moves \in Seq(Seq(Moves))
      /\ moveAudit \in Seq(SUBSET Moves) /\ Len(moves) = Len(recs)
      /\ Len(moveAudit) = Len(recs) /\ requests \in Nat
  BY DEF UserInv, UserTypes
<1>4. /\ user' \in [Users -> Requesting] /\ user'[u].pc = label /\ user'[u].rec = i
      /\ user'[u].from = q.from /\ user'[u].to = q.to
      /\ \A v \in Users : v # u => user'[v] = user[v]
  BY <1>3 DEF Requesting
<1>5. moves[i] \in Seq(Moves) /\ n \in Nat /\ DOMAIN moves[i] = 1..n
  BY <1>2, <1>3
<1>6. /\ DOMAIN moves'[i] = 1..(n + 1) /\ moves'[i][n + 1] = move
      /\ \A k \in 1..n : moves'[i][k] = moves[i][k]
  <2>. DEFINE path == moves[i]
  <2>1. path \in Seq(Moves) /\ move \in Moves /\ moves'[i] = Append(path, move)
    BY <1>1, <1>2, <1>5
  <2>. HIDE DEF path, move
  <2>2. /\ DOMAIN Append(path, move) = 1..(Len(path) + 1)
        /\ Append(path, move)[Len(path) + 1] = move
        /\ \A k \in 1..Len(path) : Append(path, move)[k] = path[k]
    BY <2>1, Appended
  <2>. QED BY <2>1, <2>2 DEF path
<1>7. /\ Leads(moves[i], q.from) /\ Leads(moves'[i], q.to)
      /\ \A k \in 1..n : moves[i][k][1] # q.from
      /\ moveAudit[i] \subseteq {moves[i][k] : k \in 1..n}
  <2>1. Leads(moves[i], q.from) /\ moveAudit[i] \subseteq {moves[i][k] : k \in DOMAIN moves[i]}
    BY <1>1, <1>2 DEF UserInv, PathsInv
  <2>2. Leads(moves'[i], q.to)
    BY <1>1, <1>2, <1>5, <2>1, PathsGoOn
  <2>. QED BY <1>5, <2>1, <2>2, PathsAreShort
<1>. HIDE DEF n, move
<1>8. UserTypes'
  <2>1. \A v \in Users : user'[v].pc # "idle" =>
           user'[v].rec \in 1..Len(recs) /\ CanTransition(user'[v].from, user'[v].to)
    <3>1. SUFFICES ASSUME NEW v \in Users, user'[v].pc # "idle"
                   PROVE  /\ user'[v].rec \in 1..Len(recs)
                          /\ CanTransition(user'[v].from, user'[v].to)
      OBVIOUS
    <3>2. CASE v = u
      BY <1>2, <1>4, <3>2
    <3>3. CASE v # u
      BY <1>4, <3>1, <3>3 DEF UserInv, UserTypes
    <3>. QED BY <3>2, <3>3
  <2>. QED BY <1>1, <1>3, <1>4, <2>1 DEF UserTypes
<1>9. PathsInv'
  <2>1. SUFFICES ASSUME NEW j \in 1..Len(recs)
                 PROVE  /\ Leads(moves'[j], recs'[j].status)
                        /\ moveAudit'[j] \subseteq {moves'[j][k] : k \in DOMAIN moves'[j]}
    BY <1>1 DEF PathsInv
  <2>2. CASE j = i
    <3>1. {moves[i][k] : k \in 1..n} \subseteq {moves'[i][k] : k \in 1..(n + 1)}
      <4>1. \A k \in 1..n : k \in 1..(n + 1)
        BY <1>5
      <4>. QED BY <1>6, <4>1
    <3>2. moveAudit'[i] \subseteq {moves'[i][k] : k \in DOMAIN moves'[i]}
      <4>1. moveAudit'[i] \subseteq {moves'[i][k] : k \in 1..(n + 1)}
        BY <1>1, <1>7, <3>1
      <4>. QED BY <1>6, <4>1
    <3>3. Leads(moves'[i], recs'[i].status)
      BY <1>1, <1>2, <1>7
    <3>. QED BY <2>2, <3>2, <3>3
  <2>3. CASE j # i
    BY <1>1, <2>3 DEF UserInv, PathsInv
  <2>. QED BY <2>2, <2>3
<1>10. move \notin moveAudit[i]
  <2>1. move[1] = q.from
    BY DEF move
  <2>. QED BY <1>7, <2>1
<1>11. Emitting' = IF label = "emit" THEN Emitting \union {u} ELSE Emitting
  BY <1>1, <1>4 DEF Emitting
<1>12. u \notin Emitting /\ Emitting \subseteq Users
  BY <1>1 DEF Emitting
<1>13. EmittersInv'
  <2>1. ASSUME NEW v \in Emitting
        PROVE  /\ user'[v] = user[v] /\ v # u
               /\ \E k \in DOMAIN moves'[user[v].rec] :
                     moves'[user[v].rec][k] = <<user[v].from, user[v].to>>
               /\ <<user[v].from, user[v].to>> \notin moveAudit'[user[v].rec]
               /\ user[v].rec # i \/ user[v].from # q.from
    <3>1. user'[v] = user[v] /\ v # u /\ user[v].rec \in 1..Len(recs)
      BY <1>4, <1>12, UserFields DEF Emitting, UserInv
    <3>2. /\ <<user[v].from, user[v].to>> \notin moveAudit[user[v].rec]
          /\ \E k \in DOMAIN moves[user[v].rec] :
                moves[user[v].rec][k] = <<user[v].from, user[v].to>>
      BY DEF UserInv, EmittersInv
    <3>3. CASE user[v].rec = i
      <4>1. PICK k \in 1..n : moves[i][k] = <<user[v].from, user[v].to>>
        BY <1>5, <3>2, <3>3
      <4>2. k \in 1..(n + 1) /\ moves'[i][k] = <<user[v].from, user[v].to>>
        BY <1>5, <1>6, <4>1
      <4>3. user[v].from # q.from
        BY <1>7, <4>1
      <4>. QED BY <1>1, <1>6, <3>1, <3>2, <3>3, <4>2, <4>3
    <3>4. CASE user[v].rec # i
      BY <1>1, <3>1, <3>2, <3>4
    <3>. QED BY <3>3, <3>4
  <2>2. CASE label = "idle"
    <3>1. Emitting' = Emitting
      BY <1>11, <2>2
    <3>. QED BY <2>1, <3>1, EmittersKept DEF UserInv
  <2>3. CASE label = "emit"
    <3>1. Emitting' = Emitting \union {u}
      BY <1>11, <2>3
    <3>2. /\ \E k \in DOMAIN moves'[i] : moves'[i][k] = <<q.from, q.to>>
          /\ <<q.from, q.to>> \notin moveAudit'[i]
      <4>1. n + 1 \in 1..(n + 1)
        BY <1>5
      <4>. QED BY <1>1, <1>6, <1>10, <4>1 DEF move
    <3>3. ASSUME NEW v \in Emitting'
          PROVE  /\ \E k \in DOMAIN moves'[user'[v].rec] :
                       moves'[user'[v].rec][k] = <<user'[v].from, user'[v].to>>
                 /\ <<user'[v].from, user'[v].to>> \notin moveAudit'[user'[v].rec]
      <4>1. CASE v = u
        BY <1>4, <3>2, <4>1
      <4>2. CASE v \in Emitting
        BY <2>1, <4>2
      <4>. QED BY <3>1, <4>1, <4>2
    <3>4. ASSUME NEW v \in Emitting', NEW w \in Emitting', v # w
          PROVE  user'[v].rec # user'[w].rec \/ user'[v].from # user'[w].from
      <4>1. CASE v = u
        <5>1. w \in Emitting
          BY <3>1, <3>4, <4>1
        <5>. QED BY <1>4, <2>1, <4>1, <5>1
      <4>2. CASE w = u
        <5>1. v \in Emitting
          BY <3>1, <3>4, <4>2
        <5>. QED BY <1>4, <2>1, <4>2, <5>1
      <4>3. CASE v # u /\ w # u
        <5>1. v \in Emitting /\ w \in Emitting
          BY <3>1, <4>3
        <5>2. user'[v] = user[v] /\ user'[w] = user[w]
          BY <2>1, <5>1
        <5>. QED BY <3>4, <5>1, <5>2 DEF UserInv, EmittersInv
      <4>. QED BY <4>1, <4>2, <4>3
    <3>. QED BY <3>3, <3>4 DEF EmittersInv
  <2>. QED BY <2>2, <2>3
<1>14. UnauditedMoves' \subseteq UnauditedMoves \union {<<i, n + 1>>}
  <2>1. DOMAIN moves = 1..Len(recs) /\ DOMAIN moves' = 1..Len(recs)
    BY <1>1, <1>3
  <2>2. ASSUME NEW p \in UnauditedMoves' PROVE p \in UnauditedMoves \union {<<i, n + 1>>}
    <3>1. PICK a \in 1..Len(recs), b \in 1..2 : p = <<a, b>>
      BY <2>1 DEF UnauditedMoves
    <3>2. b \in DOMAIN moves'[a] /\ moves'[a][b] \notin moveAudit'[a]
      BY <3>1 DEF UnauditedMoves
    <3>3. CASE a = i /\ b = n + 1
      BY <3>1, <3>3
    <3>4. CASE a = i /\ b # n + 1
      <4>1. b \in 1..n
        BY <1>5, <1>6, <3>2, <3>4
      <4>2. b \in DOMAIN moves[a] /\ moves[a][b] \notin moveAudit[a]
        BY <1>1, <1>5, <1>6, <3>2, <3>4, <4>1
      <4>. QED BY <2>1, <3>1, <4>2 DEF UnauditedMoves
    <3>5. CASE a # i
      <4>1. b \in DOMAIN moves[a] /\ moves[a][b] \notin moveAudit[a]
        BY <1>1, <3>2, <3>5
      <4>. QED BY <2>1, <3>1, <4>1 DEF UnauditedMoves
    <3>. QED BY <3>3, <3>4, <3>5
  <2>. QED BY <2>2
<1>15. /\ IsFiniteSet(UnauditedMoves) /\ Cardinality(UnauditedMoves) \in Nat
       /\ IsFiniteSet(Emitting) /\ Cardinality(Emitting) \in Nat
  BY FiniteMoves DEF UserInv
<1>16. /\ IsFiniteSet(UnauditedMoves') /\ Cardinality(UnauditedMoves') \in Nat
       /\ Cardinality(UnauditedMoves') <= Cardinality(UnauditedMoves) + 1
  <2>. DEFINE S == UnauditedMoves \union {<<i, n + 1>>}
  <2>1. IsFiniteSet(S) /\ Cardinality(S) <= Cardinality(UnauditedMoves) + 1
    <3>1. /\ IsFiniteSet(S)
          /\ Cardinality(S) = IF <<i, n + 1>> \in UnauditedMoves THEN Cardinality(UnauditedMoves)
                              ELSE Cardinality(UnauditedMoves) + 1
      BY <1>15, FS_AddElement
    <3>. HIDE DEF S
    <3>. QED BY <1>15, <3>1
  <2>2. Cardinality(S) \in Nat
    BY <2>1, FS_CardinalityType
  <2>3. UnauditedMoves' \in SUBSET S
    BY <1>14
  <2>. HIDE DEF S
  <2>4. IsFiniteSet(UnauditedMoves') /\ Cardinality(UnauditedMoves') <= Cardinality(S)
    BY <2>1, <2>3, FS_Subset
  <2>5. Cardinality(UnauditedMoves') \in Nat
    BY <2>4, FS_CardinalityType
  <2>. QED BY <1>15, <2>1, <2>2, <2>4, <2>5
<1>17. Cardinality(Emitting') = IF label = "emit" THEN Cardinality(Emitting) + 1
                                ELSE Cardinality(Emitting)
  BY <1>11, <1>12, <1>15, FS_AddElement
<1>18. Accounted'
  BY <1>15, <1>16, <1>17 DEF UserInv, Accounted
<1>. QED BY <1>8, <1>9, <1>13, <1>18 DEF UserInv, Accounted

(* The event of a transition, whether or not its user hears of it. *)
LEMMA TransitionAudited ==
    ASSUME UserInv, recs \in Seq(Recommendations), NEW u \in Users, EmitTransition(u),
           user' = [user EXCEPT ![u].pc = "idle"], UNCHANGED requests,
           faults \in Nat, faults' \in Nat, faults' >= faults
    PROVE  UserInv'
<1>. DEFINE q == user[u]
            i == q.rec
            move == <<q.from, q.to>>
<1>1. /\ q.pc = "emit" /\ moveAudit' = [moveAudit EXCEPT ![i] = @ \union {move}]
      /\ UNCHANGED <<recs, moves>>
  BY DEF EmitTransition
<1>2. i \in 1..Len(recs) /\ move \in Moves /\ u \in Emitting /\ Len(recs) \in Nat
  BY <1>1, UserFields DEF UserInv, Emitting
<1>3. /\ user \in [Users -> Requesting] /\ moves \in Seq(Seq(Moves))
      /\ moveAudit \in Seq(SUBSET Moves) /\ Len(moves) = Len(recs)
      /\ Len(moveAudit) = Len(recs) /\ requests \in Nat
  BY DEF UserInv, UserTypes
<1>4. /\ user' \in [Users -> Requesting] /\ user'[u].pc = "idle"
      /\ \A v \in Users : v # u => user'[v] = user[v]
  BY <1>3 DEF Requesting
<1>5. /\ moveAudit' \in Seq(SUBSET Moves) /\ Len(moveAudit') = Len(moveAudit)
      /\ moveAudit'[i] = moveAudit[i] \union {move}
      /\ \A j \in 1..Len(recs) : j # i => moveAudit'[j] = moveAudit[j]
  <2>. DEFINE more == moveAudit[i] \union {move}
  <2>1. more \in SUBSET Moves /\ moveAudit' = [moveAudit EXCEPT ![i] = more]
    <3>1. moveAudit[i] \in SUBSET Moves
      BY <1>2, <1>3
    <3>2. more \in SUBSET Moves
      BY <1>2, <3>1
    <3>. QED BY <1>1, <3>2
  <2>. HIDE DEF more
  <2>2. /\ moveAudit' \in Seq(SUBSET Moves) /\ Len(moveAudit') = Len(moveAudit)
        /\ moveAudit'[i] = more
        /\ \A j \in 1..Len(recs) : j # i => moveAudit'[j] = moveAudit[j]
    BY <1>2, <1>3, <2>1
  <2>. QED BY <2>2 DEF more
<1>6. PICK k0 \in DOMAIN moves[i] : moves[i][k0] = move
  BY <1>2 DEF UserInv, EmittersInv
<1>7. move \notin moveAudit[i]
  BY <1>2 DEF UserInv, EmittersInv
<1>. HIDE DEF move
<1>8. UserTypes'
  BY <1>1, <1>3, <1>4, <1>5 DEF UserInv, UserTypes
<1>9. PathsInv'
  <2>1. SUFFICES ASSUME NEW j \in 1..Len(recs)
                 PROVE  /\ Leads(moves[j], recs[j].status)
                        /\ moveAudit'[j] \subseteq {moves[j][k] : k \in DOMAIN moves[j]}
    BY <1>1 DEF PathsInv
  <2>2. CASE j = i
    BY <1>5, <1>6, <2>2 DEF UserInv, PathsInv
  <2>3. CASE j # i
    BY <1>5, <2>3 DEF UserInv, PathsInv
  <2>. QED BY <2>2, <2>3
<1>10. Emitting' = Emitting \ {u}
  BY <1>4 DEF Emitting
<1>11. EmittersInv'
  <2>1. ASSUME NEW v \in Emitting'
        PROVE  /\ user'[v] = user[v] /\ v \in Emitting
               /\ \E k \in DOMAIN moves'[user[v].rec] :
                     moves'[user[v].rec][k] = <<user[v].from, user[v].to>>
               /\ <<user[v].from, user[v].to>> \notin moveAudit'[user[v].rec]
    <3>1. v \in Emitting /\ v # u /\ user'[v] = user[v] /\ user[v].rec \in 1..Len(recs)
      BY <1>4, <1>10, UserFields DEF Emitting, UserInv
    <3>2. /\ <<user[v].from, user[v].to>> \notin moveAudit[user[v].rec]
          /\ \E k \in DOMAIN moves[user[v].rec] :
                moves[user[v].rec][k] = <<user[v].from, user[v].to>>
          /\ user[v].rec # i \/ user[v].from # q.from
      BY <1>2, <3>1 DEF UserInv, EmittersInv
    <3>3. <<user[v].from, user[v].to>> \notin moveAudit'[user[v].rec]
      <4>1. CASE user[v].rec = i
        <5>1. <<user[v].from, user[v].to>> # move
          BY <3>2, <4>1 DEF move
        <5>. QED BY <1>5, <3>2, <4>1, <5>1
      <4>2. CASE user[v].rec # i
        BY <1>5, <3>1, <3>2, <4>2
      <4>. QED BY <4>1, <4>2
    <3>. QED BY <1>1, <3>1, <3>2, <3>3
  <2>. QED BY <1>10, <2>1, EmittersKept DEF UserInv
<1>12. <<i, k0>> \in UnauditedMoves
  <2>1. Leads(moves[i], recs[i].status) /\ moves[i] \in Seq(Moves)
    BY <1>2, <1>3 DEF UserInv, PathsInv
  <2>2. Len(moves[i]) <= 2
    BY <2>1, PathsAreShort
  <2>3. k0 \in 1..2 /\ i \in DOMAIN moves
    BY <1>2, <1>3, <1>6, <2>1, <2>2
  <2>. QED BY <1>6, <1>7, <2>3 DEF UnauditedMoves
<1>13. UnauditedMoves' \subseteq UnauditedMoves \ {<<i, k0>>}
  <2>1. ASSUME NEW p \in UnauditedMoves' PROVE p \in UnauditedMoves \ {<<i, k0>>}
    <3>1. PICK a \in 1..Len(recs), b \in 1..2 : p = <<a, b>>
      <4>1. DOMAIN moves' = 1..Len(recs)
        BY <1>1, <1>3
      <4>. QED BY <4>1 DEF UnauditedMoves
    <3>2. b \in DOMAIN moves[a] /\ moves[a][b] \notin moveAudit'[a] /\ a \in DOMAIN moves
      BY <1>1, <1>3, <3>1 DEF UnauditedMoves
    <3>3. moves[a][b] \notin moveAudit[a] /\ ~(a = i /\ b = k0)
      <4>1. CASE a = i
        BY <1>5, <1>6, <3>2, <4>1
      <4>2. CASE a # i
        BY <1>5, <3>2, <4>2
      <4>. QED BY <4>1, <4>2
    <3>4. p # <<i, k0>>
      BY <3>1, <3>3
    <3>. QED BY <3>1, <3>2, <3>3, <3>4 DEF UnauditedMoves
  <2>. QED BY <2>1
<1>14. /\ IsFiniteSet(UnauditedMoves) /\ Cardinality(UnauditedMoves) \in Nat
       /\ IsFiniteSet(Emitting) /\ Cardinality(Emitting) \in Nat
  BY FiniteMoves DEF UserInv
<1>15. /\ Cardinality(UnauditedMoves') \in Nat
       /\ Cardinality(UnauditedMoves') <= Cardinality(UnauditedMoves) - 1
  <2>. DEFINE S == UnauditedMoves \ {<<i, k0>>}
  <2>1. IsFiniteSet(S) /\ Cardinality(S) = Cardinality(UnauditedMoves) - 1
    BY <1>12, <1>14, FS_RemoveElement
  <2>2. UnauditedMoves' \in SUBSET S
    BY <1>13
  <2>. HIDE DEF S
  <2>3. IsFiniteSet(UnauditedMoves') /\ Cardinality(UnauditedMoves') <= Cardinality(S)
    BY <2>1, <2>2, FS_Subset
  <2>. QED BY <2>1, <2>3, FS_CardinalityType
<1>16. Cardinality(Emitting') = Cardinality(Emitting) - 1
  BY <1>2, <1>10, <1>14, FS_RemoveElement
<1>17. Accounted'
  BY <1>14, <1>15, <1>16 DEF UserInv, Accounted
<1>. QED BY <1>8, <1>9, <1>11, <1>17 DEF UserInv, Accounted

CoreInv == EvalInv /\ EngineInv /\ UserInv

(* A step of somebody else leaves the engine runs alone. *)
LEMMA EnginesStay ==
    ASSUME EngineInv, UNCHANGED engineVars, recs' \in Seq(Recommendations),
           \A e \in Engines : RecsOf(e)' = RecsOf(e),
           faults \in Nat, faults' \in Nat, faults' >= faults
    PROVE  EngineInv'
<1>1. EngineTypes'
  BY DEF EngineInv, EngineTypes, engineVars
<1>2. ASSUME NEW e \in Engines PROVE EngInv(e)'
  BY EngineStays DEF EngineInv, engineVars
<1>. QED BY <1>1, <1>2 DEF EngineInv

(* A step of an engine run leaves the users alone. *)
LEMMA EngineKeepsUsers ==
    ASSUME NEW e \in Engines, EngineInv, UserInv, EngineSteps(e), UNCHANGED <<user, requests>>,
           faults \in Nat, faults' \in Nat, faults' >= faults
    PROVE  UserInv'
<1>1. recs \in Seq(Recommendations) /\ EngineTypes
  BY DEF EngineInv, EngineTypes
<1>2. CASE UNCHANGED <<recs, moves, moveAudit>>
  BY <1>1, <1>2, UsersStay
<1>3. CASE PersistRec(e)
  <2>1. /\ recs' = Append(recs, Written(e)) /\ moves' = Append(moves, <<>>)
        /\ moveAudit' = Append(moveAudit, {}) /\ engine[e].candidates # <<>>
    BY <1>3 DEF PersistRec, Written, EngineInv, EngInv
  <2>2. Written(e) \in Recommendations
    BY <1>1, <2>1, WrittenTyped
  <2>3. Written(e).status = "generated"
    BY DEF Written
  <2>. QED BY <1>1, <2>1, <2>2, <2>3, UsersGrow
<1>. QED BY <1>2, <1>3 DEF EngineSteps, StartEngine, EngineProgress, ListRuns, InspectRun,
         EvaluateCost, EngineReturns, EngineRefused, EngineRaises, EngineDies, EngineCall,
         EmitEngineStart, EmitRec, MarkEngine, EmitEngineEnd, userVars

UserSteps(u) == \/ \E i \in DOMAIN recs, to \in UserStatuses : Request(u, i, to)
                \/ UserProgress(u) \/ UserRaises(u)

(* A step of a user keeps the invariant; of a recommendation it changes the
   status only. *)
LEMMA UserMoves ==
    ASSUME NEW u \in Users, EngineInv, UserInv, UserSteps(u), faults \in Nat
    PROVE  /\ UserInv' /\ recs' \in Seq(Recommendations)
           /\ \A e \in Engines : RecsOf(e)' = RecsOf(e)
           /\ faults' \in Nat /\ faults' >= faults
           /\ UNCHANGED <<evalVars, engineVars>>
           /\ Len(recs') = Len(recs)
           /\ \A i \in 1..Len(recs) : /\ recs'[i].engine = recs[i].engine
                                      /\ recs'[i].category = recs[i].category
                                      /\ recs'[i].subject = recs[i].subject
                                      /\ recs'[i].delta = recs[i].delta
<1>1. recs \in Seq(Recommendations) /\ EngineTypes
  BY DEF EngineInv, EngineTypes
<1>2. faults' \in Nat /\ faults' >= faults /\ UNCHANGED <<evalVars, engineVars>>
  BY DEF UserSteps, Request, UserProgress, UserReturns, UserRefused, UserRaises
<1>3. /\ recs' \in Seq(Recommendations) /\ Len(recs') = Len(recs)
      /\ \A i \in 1..Len(recs) : /\ recs'[i].engine = recs[i].engine
                                 /\ recs'[i].category = recs[i].category
                                 /\ recs'[i].subject = recs[i].subject
                                 /\ recs'[i].delta = recs[i].delta
  <2>1. CASE recs' = recs
    BY <1>1, <2>1
  <2>2. CASE PersistTransition(u)
    BY <1>1, <2>2, TransitionPersisted DEF UserInv
  <2>. QED BY <2>1, <2>2 DEF UserSteps, Request, UserProgress, UserReturns, UserRefused,
           UserRaises, UserCall, EmitTransition
<1>4. \A e \in Engines : RecsOf(e)' = RecsOf(e)
  <2>1. DOMAIN recs' = DOMAIN recs /\ \A i \in DOMAIN recs : recs'[i].engine = recs[i].engine
    BY <1>1, <1>3
  <2>. QED BY <2>1, RecsStay
<1>5. UserInv'
  <2>1. user \in [Users -> Requesting]
    BY DEF UserInv, UserTypes
  <2>2. CASE \E i \in DOMAIN recs, to \in UserStatuses : Request(u, i, to)
    BY <1>1, <2>2, RequestBegins
  <2>3. CASE UserReturns(u) /\ PersistTransition(u)
    <3>1. user[u].pc = "persist"
      BY <2>3 DEF PersistTransition
    <3>2. user' = [user EXCEPT ![u].pc = "emit"] /\ UNCHANGED <<faults, requests>>
      BY <2>3, <3>1 DEF UserReturns
    <3>. QED BY <1>1, <1>2, <2>3, <3>2, TransitionGoesOn
  <2>4. CASE UserReturns(u) /\ EmitTransition(u)
    <3>1. user[u].pc = "emit"
      BY <2>4 DEF EmitTransition
    <3>2. user' = [user EXCEPT ![u].pc = "idle"] /\ UNCHANGED <<faults, requests>>
      BY <2>4, <3>1 DEF UserReturns
    <3>. QED BY <1>1, <1>2, <2>4, <3>2, TransitionAudited
  <2>5. CASE UserRefused(u)
    <3>1. /\ user[u].pc = "persist" /\ user' = [user EXCEPT ![u].pc = "idle"]
          /\ UNCHANGED <<recs, moves, moveAudit, requests>>
      BY <2>5 DEF UserRefused
    <3>. QED BY <1>1, <1>2, <3>1, RequestEnds
  <2>6. CASE UserRaises(u)
    <3>1. /\ user[u].pc # "idle" /\ user' = [user EXCEPT ![u].pc = "idle"]
          /\ faults' = faults + 1 /\ UNCHANGED requests
          /\ UserCall(u) \/ UNCHANGED <<recs, moves, moveAudit>>
      BY <2>6 DEF UserRaises
    <3>2. CASE PersistTransition(u)
      BY <1>1, <1>2, <3>1, <3>2, TransitionGoesOn
    <3>3. CASE EmitTransition(u)
      BY <1>1, <1>2, <3>1, <3>3, TransitionAudited
    <3>4. CASE UNCHANGED <<recs, moves, moveAudit>>
      BY <1>1, <1>2, <3>1, <3>4, RequestEnds
    <3>. QED BY <3>1, <3>2, <3>3, <3>4 DEF UserCall
  <2>. QED BY <2>2, <2>3, <2>4, <2>5, <2>6 DEF UserSteps, UserProgress, UserReturns, UserCall
<1>. QED BY <1>2, <1>3, <1>4, <1>5

(* Every step keeps the invariant. *)
LEMMA CoreStep == CoreInv /\ [Next]_vars => CoreInv'
<1>. SUFFICES ASSUME CoreInv, [Next]_vars PROVE CoreInv'
  OBVIOUS
<1>. USE DEF CoreInv
<1>1. faults \in Nat /\ EvalTypes /\ recs \in Seq(Recommendations)
  BY DEF EvalInv, EvalTypes, EngineInv, EngineTypes
<1>2. CASE EvalNext /\ UNCHANGED <<engineVars, recs, userVars>>
  <2>1. EvalInv' /\ faults' >= faults
    BY <1>2, EvalStep
  <2>2. faults' \in Nat
    BY <2>1 DEF EvalInv, EvalTypes
  <2>3. \A e \in Engines : RecsOf(e)' = RecsOf(e)
    BY <1>2 DEF RecsOf
  <2>4. EngineInv'
    BY <1>1, <1>2, <2>1, <2>2, <2>3, EnginesStay
  <2>5. UserInv'
    BY <1>1, <1>2, <2>1, <2>2, UsersStay DEF userVars
  <2>. QED BY <2>1, <2>4, <2>5
<1>3. ASSUME NEW e \in Engines, EngineSteps(e) PROVE CoreInv'
  <2>1. UNCHANGED <<evalVars, user, requests>>
    BY <1>3 DEF EngineSteps, StartEngine, EngineProgress, ListRuns, InspectRun, EvaluateCost,
       EngineReturns, EngineRefused, EngineRaises, EngineDies, userVars
  <2>2. EngineTypes' /\ EngInv(e)' /\ OtherEnginesStay(e) /\ faults' \in Nat /\ faults' >= faults
    BY <1>1, <1>3, EngineMoves
  <2>3. ASSUME NEW f \in Engines \ {e} PROVE EngInv(f)'
    <3>1. /\ engine'[f] = engine[f] /\ engineRow'[f] = engineRow[f]
          /\ engineAudit'[f] = engineAudit[f] /\ RecsOf(f)' = RecsOf(f)
      BY <2>2 DEF OtherEnginesStay
    <3>. QED BY <1>1, <2>2, <3>1, EngineStays DEF EngineInv
  <2>4. EngineInv'
    BY <2>2, <2>3 DEF EngineInv
  <2>5. EvalInv'
    BY <1>1, <2>1, <2>2, EvalStays
  <2>6. UserInv'
    BY <1>1, <1>3, <2>1, <2>2, EngineKeepsUsers
  <2>. QED BY <2>4, <2>5, <2>6
<1>4. ASSUME NEW u \in Users, UserSteps(u) PROVE CoreInv'
  <2>1. /\ UserInv' /\ recs' \in Seq(Recommendations)
        /\ \A e \in Engines : RecsOf(e)' = RecsOf(e)
        /\ faults' \in Nat /\ faults' >= faults
        /\ UNCHANGED <<evalVars, engineVars>>
    BY <1>1, <1>4, UserMoves
  <2>. QED BY <1>1, <2>1, EvalStays, EnginesStay
<1>5. CASE UNCHANGED vars
  <2>1. UNCHANGED <<evalVars, faults, engineVars, recs, userVars>>
    BY <1>5 DEF vars
  <2>2. \A e \in Engines : RecsOf(e)' = RecsOf(e)
    BY <2>1 DEF RecsOf
  <2>3. faults' \in Nat /\ faults' >= faults /\ recs' \in Seq(Recommendations)
    BY <1>1, <2>1
  <2>4. UserInv'
    BY <1>1, <2>1, <2>3, UsersStay DEF userVars
  <2>. QED BY <1>1, <2>1, <2>2, <2>3, <2>4, EvalStays, EnginesStay
<1>6. CASE Next
  BY <1>2, <1>3, <1>4, <1>6 DEF Next, EngineSteps, UserSteps
<1>. QED BY <1>5, <1>6

(* The initial states have it. *)
LEMMA CoreStarts == Init => CoreInv
<1>. SUFFICES ASSUME Init PROVE CoreInv
  OBVIOUS
<1>1. EvalInv /\ faults = 0
  BY EvalStarts DEF Init
<1>2. recs = <<>> /\ moves = <<>> /\ moveAudit = <<>> /\ requests = 0 /\ Len(<<>>) = 0
  BY DEF Init
<1>3. <<>> \in Seq(Runs) /\ <<>> \in Seq(Found) /\ <<>> \in Seq({"completed", "failed"})
  OBVIOUS
<1>4. EngineTypes
  <2>1. NoCursor \in 0..NoCursor
    BY EvaluationAssumption DEF NoCursor
  <2>2. engine \in [Engines -> Memories]
    <3>1. "idle" \in EngineLabels /\ 1 \in 1..2
      BY DEF EngineLabels, EngineStops
    <3>2. [pc |-> "idle", rule |-> 1, list |-> NoCursor, runs |-> <<>>, candidates |-> <<>>]
             \in Memories
      BY <1>3, <2>1, <3>1 DEF Memories
    <3>. QED BY <3>2 DEF Init
  <2>3. engineRow \in [Engines -> EngineRows] /\ engineAudit \in [Engines -> EngineTrails]
    <3>1. [status |-> "none", skipped |-> {}] \in EngineRows
      BY DEF EngineRows, Statuses
    <3>2. [start |-> 0, recs |-> 0, ended |-> <<>>] \in EngineTrails
      BY <1>3 DEF EngineTrails
    <3>. QED BY <3>1, <3>2 DEF Init
  <2>4. known \in [Engines -> SUBSET Runs]
    BY DEF Init
  <2>. QED BY <1>2, <2>2, <2>3, <2>4 DEF EngineTypes
<1>5. ASSUME NEW e \in Engines PROVE EngInv(e)
  <2>1. RecsOf(e) = {}
    BY <1>2 DEF RecsOf
  <2>2. NumRecs(e) = 0
    BY <2>1, FS_EmptySet DEF NumRecs
  <2>3. /\ engine[e].pc = "idle" /\ engineRow[e].status = "none" /\ engineRow[e].skipped = {}
        /\ engineAudit[e].recs = 0 /\ engineAudit[e].ended = <<>>
    BY DEF Init
  <2>4. Fits("idle", "none", <<>>) /\ EngCounts("idle", 0, 0)
    BY DEF Fits, EngCounts, Trying, Failing
  <2>5. engineRow[e] \in EngineRows /\ engineAudit[e] \in EngineTrails
    BY <1>4 DEF EngineTypes
  <2>6. EngFields(engine[e].pc, engineRow[e], engineAudit[e], NumRecs(e))
    BY <2>2, <2>3, <2>4, <2>5 DEF EngFields
  <2>. QED BY <2>3, <2>6 DEF EngInv, Handled
<1>6. UserTypes
  <2>1. user \in [Users -> Requesting] /\ \A u \in Users : user[u].pc = "idle"
    BY DEF Init, Requesting
  <2>2. <<>> \in Seq(Seq(Moves)) /\ <<>> \in Seq(SUBSET Moves)
    OBVIOUS
  <2>. QED BY <1>2, <2>1, <2>2 DEF UserTypes
<1>7. Emitting = {} /\ UnauditedMoves = {}
  <2>1. Emitting = {}
    BY DEF Init, Emitting
  <2>2. UnauditedMoves = {}
    BY <1>2 DEF UnauditedMoves
  <2>. QED BY <2>1, <2>2
<1>8. PathsInv /\ EmittersInv
  BY <1>2, <1>7 DEF PathsInv, EmittersInv
<1>9. Cardinality(UnauditedMoves) <= Cardinality(Emitting) + faults
  BY <1>1, <1>7, FS_EmptySet
<1>. QED BY <1>1, <1>4, <1>5, <1>6, <1>8, <1>9 DEF CoreInv, EngineInv, UserInv

(* In every reachable state the label of each run, its row, its records and its
   audit trail fit each other, and the transitions of every recommendation lead
   to its status. *)
THEOREM Invariance == Spec => []CoreInv
BY CoreStarts, CoreStep, PTL DEF Spec

-----------------------------------------------------------------------------
(* Wherever an evaluation run or an engine run stops, whatever call raised, the
   audit chain misses at most the event of the record it wrote last; and a run
   that returned has all its events. *)
THEOREM AuditAccounts == Spec => []AuditAccountsForRecords
<1>1. CoreInv => AuditAccountsForRecords
  <2>. SUFFICES ASSUME CoreInv PROVE AuditAccountsForRecords
    OBVIOUS
  <2>1. EvalAuditAccounts
    <3>1. SUFFICES ASSUME NEW r \in Runs
                   PROVE  /\ Unaudited(r) \in 0..1
                          /\ evalPc[r] = "returned" =>
                                Unaudited(r) = 0 /\ evalAudit[r].ended = <<"completed">>
      BY DEF EvalAuditAccounts
    <3>. DEFINE nr == Len(evalRow[r].results)
                na == Len(evalRow[r].aggregates)
                ar == evalAudit[r].results
                aa == evalAudit[r].aggregates
    <3>2. RunFields(r, evalPc[r], evalRow[r], evalAudit[r], entries[r])
      BY RunParts DEF CoreInv, EvalInv
    <3>3. /\ Fits(evalPc[r], evalRow[r].status, evalAudit[r].ended)
          /\ Counts(evalPc[r], evalRow[r].status, entries[r], nr, na, ar, aa)
          /\ nr \in Nat /\ na \in Nat /\ ar \in Nat /\ aa \in Nat
          /\ evalPc[r] \in EvalLabels
      BY <3>2, FieldTypes DEF RunFields
    <3>4. Unaudited(r) = (nr - ar) + (na - aa)
      BY DEF Unaudited
    <3>. HIDE DEF nr, na, ar, aa
    <3>5. (nr - ar) + (na - aa) \in 0..1 /\ (evalPc[r] = "returned" => nr = ar /\ na = aa)
      BY <3>3 DEF Counts, Failing
    <3>. QED BY <3>3, <3>4, <3>5 DEF Fits
  <2>2. ASSUME NEW e \in Engines
        PROVE  /\ Cardinality(RecsOf(e)) - engineAudit[e].recs \in 0..1
               /\ engine[e].pc = "returned" =>
                     /\ Cardinality(RecsOf(e)) = engineAudit[e].recs
                     /\ engineAudit[e].ended = <<"completed">>
               /\ engineRow[e].status = "completed" <=> engineRow[e].skipped = Gaps
    <3>1. EngFields(engine[e].pc, engineRow[e], engineAudit[e], NumRecs(e))
      BY DEF CoreInv, EngineInv, EngInv
    <3>2. /\ Fits(engine[e].pc, engineRow[e].status, engineAudit[e].ended)
          /\ EngCounts(engine[e].pc, NumRecs(e), engineAudit[e].recs)
          /\ NumRecs(e) \in Nat /\ engineAudit[e].recs \in Nat
          /\ engineRow[e].skipped = IF engineRow[e].status = "completed" THEN Gaps ELSE {}
      BY <3>1, EngineRowTypes DEF EngFields
    <3>3. /\ NumRecs(e) - engineAudit[e].recs \in 0..1
          /\ engine[e].pc = "returned" => NumRecs(e) = engineAudit[e].recs
      BY <3>2 DEF EngCounts, Failing
    <3>4. Gaps # {}
      BY DEF Gaps
    <3>. QED BY <3>2, <3>3, <3>4 DEF Fits, NumRecs
  <2>. QED BY <2>1, <2>2 DEF AuditAccountsForRecords
<1>. QED BY <1>1, Invariance, PTL

(* One call that raises leaves no run running for ever that has written
   something: the handler has marked it failed. *)
THEOREM StoppedRunsEnd == Spec => []StoppedRunsHaveEnded
<1>1. CoreInv => StoppedRunsHaveEnded
  <2>. SUFFICES ASSUME CoreInv PROVE StoppedRunsHaveEnded
    OBVIOUS
  <2>1. ASSUME NEW r \in Runs, evalPc[r] = "raised", evalRow[r].results # <<>>
        PROVE  evalRow[r].status \in {"completed", "failed"} \/ faults > 1
    <3>1. evalRow[r].results \in Seq(Results)
      BY FieldTypes DEF CoreInv, EvalInv, EvalTypes
    <3>2. Len(evalRow[r].results) > 0
      BY <2>1, <3>1
    <3>. QED BY <2>1, <3>2 DEF CoreInv, EvalInv, RunInv, Handled
  <2>2. ASSUME NEW e \in Engines, engine[e].pc = "raised", RecsOf(e) # {}
        PROVE  engineRow[e].status \in {"completed", "failed"} \/ faults > 1
    <3>1. IsFiniteSet(RecsOf(e)) /\ NumRecs(e) \in Nat
      BY RecsFinite DEF CoreInv, EngineInv, EngineTypes, NumRecs
    <3>2. NumRecs(e) > 0
      BY <2>2, <3>1, FS_EmptySet DEF NumRecs
    <3>. QED BY <2>2, <3>2 DEF CoreInv, EngineInv, EngInv, Handled
  <2>. QED BY <2>1, <2>2 DEF StoppedRunsHaveEnded
<1>. QED BY <1>1, Invariance, PTL

(* However many users race for a recommendation, its transition rows lead from
   generated to its status, and the chain lacks one only for a request under way
   or a call that raised. *)
THEOREM TransitionsTellOneHistory == Spec => []TransitionHistory
<1>1. CoreInv => TransitionHistory
  <2>. SUFFICES ASSUME CoreInv PROVE TransitionHistory
    OBVIOUS
  <2>1. DOMAIN recs = 1..Len(recs)
    BY DEF CoreInv, EngineInv, EngineTypes
  <2>2. TransitionsLead
    BY <2>1 DEF CoreInv, UserInv, PathsInv, Leads, TransitionsLead
  <2>3. TransitionsAudited
    BY <2>1 DEF CoreInv, UserInv, PathsInv, Emitting, TransitionsAudited
  <2>. QED BY <2>2, <2>3 DEF TransitionHistory
<1>. QED BY <1>1, Invariance, PTL

-----------------------------------------------------------------------------
(* Nothing is written to a run that is completed. *)
CompletedStay == \A r \in Runs : Completed(r) =>
    evalRow'[r] = evalRow[r] /\ entries'[r] = entries[r]

(* No step of the evaluation runs touches a completed one. *)
LEMMA CompletedRunsStay == ASSUME EvalInv, EvalNext PROVE CompletedStay
<1>1. PICK r \in Runs :
          PersistRun(r) \/ Returns(r) \/ Raises(r) \/ MarkRefused(r) \/ Dies(r)
  BY DEF EvalNext
<1>2. OtherRunsStay(r)
  BY <1>1, RunsMove
<1>3. ASSUME Completed(r) PROVE evalRow'[r] = evalRow[r] /\ entries'[r] = entries[r]
  <2>1. Fits(evalPc[r], "completed", evalAudit[r].ended)
    BY <1>3 DEF EvalInv, RunInv, Completed
  <2>2. evalPc[r] \notin Trying /\ evalPc[r] # "idle" /\ evalRow[r].status # "running"
    BY <1>3, <2>1 DEF Fits, Completed
  <2>3. ~PersistRun(r)
    BY <2>2 DEF PersistRun
  <2>4. ASSUME Call(r) PROVE evalRow' = evalRow
    BY <2>2, <2>4 DEF Call, EmitStart, PersistResult, EmitResult, PersistAggregate,
       EmitAggregate, MarkCompleted, MarkFailed, EmitEnd, Trying
  <2>5. evalRow' = evalRow /\ entries' = entries
    BY <1>1, <2>3, <2>4 DEF Returns, Raises, MarkRefused, Dies
  <2>. QED BY <2>5
<1>. QED BY <1>2, <1>3 DEF OtherRunsStay, CompletedStay

(* What a completed run comes to. *)
LEMMA CompletedRuns ==
    ASSUME EvalInv, NEW r \in Runs, Completed(r)
    PROVE  /\ Len(evalRow[r].aggregates) = 2
           /\ Len(evalRow[r].results) = entries[r] * Len(Strategies)
           /\ Delta(r) = Distance(Total(evalRow[r].results, "vector_only"),
                                  Total(evalRow[r].results, "graph_only"))
<1>1. RunFields(r, evalPc[r], evalRow[r], evalAudit[r], entries[r])
  BY RunParts DEF EvalInv
<1>2. /\ Counts(evalPc[r], "completed", entries[r], Len(evalRow[r].results),
                Len(evalRow[r].aggregates), evalAudit[r].results, evalAudit[r].aggregates)
      /\ \A k \in 1..Len(evalRow[r].aggregates) :
            evalRow[r].aggregates[k].recall = Total(evalRow[r].results, Strategies[k])
  BY <1>1 DEF RunFields, Completed
<1>3. Len(evalRow[r].aggregates) = 2 /\ Len(evalRow[r].results) = entries[r] * 2
  BY <1>2 DEF Counts
<1>4. /\ evalRow[r].aggregates[1].recall = Total(evalRow[r].results, "vector_only")
      /\ evalRow[r].aggregates[2].recall = Total(evalRow[r].results, "graph_only")
  BY <1>2, <1>3, TwoStrategies
<1>. QED BY <1>3, <1>4, TwoStrategies DEF Delta

-----------------------------------------------------------------------------
(* What a step of an engine run does to its memory.  Either one of the rules
   evaluates, or the last recommendation has its event, or only the label goes on. *)
Relabels(e) ==
    LET m == engine[e]
        m1 == engine'[e]
    IN  /\ m1.rule = m.rule /\ m1.list = m.list /\ m1.runs = m.runs
        /\ m1.candidates = m.candidates
        /\ \/ m.pc = "idle" /\ m1.pc = "emitStart"
           \/ m.pc = "emitStart" /\ m1.pc = "evaluate"
           \/ m.pc = "persistRec" /\ m1.pc = "emitRec" /\ PersistRec(e)
           \/ m1.pc \in Failing \union {"emitCompleted", "returned"}
        /\ recs' = recs \/ PersistRec(e)
        /\ known' = known \/ StartEngine(e)

EmitsRec(e) ==
    LET m == engine[e]
        m1 == engine'[e]
    IN  /\ m.pc = "emitRec" /\ m.candidates # <<>>
        /\ m1.list = m.list /\ m1.runs = m.runs /\ m1.candidates = Tail(m.candidates)
        /\ \/ m1.candidates # <<>> /\ m1.pc = "persistRec" /\ m1.rule = m.rule
           \/ m1.candidates = <<>> /\ m.rule = 1 /\ m1.pc = "evaluate" /\ m1.rule = 2
           \/ m1.candidates = <<>> /\ m.rule = 2 /\ m1.pc = "markCompleted" /\ m1.rule = 2
        /\ UNCHANGED <<recs, known>>

(* The steps of an engine run, by what they do to its memory. *)
LEMMA MemoryMoves ==
    ASSUME NEW e \in Engines, EvalTypes, EngineInv, EngineSteps(e)
    PROVE  /\ ListRuns(e) \/ InspectRun(e) \/ EvaluateCost(e) \/ Relabels(e) \/ EmitsRec(e)
           /\ \A f \in Engines \ {e} : engine'[f] = engine[f] /\ known'[f] = known[f]
<1>. DEFINE m == engine[e]
<1>1. /\ engine \in [Engines -> Memories] /\ m \in Memories /\ m.pc \in EngineLabels
      /\ known \in [Engines -> SUBSET Runs] /\ m.candidates \in Seq(Found)
      /\ m.pc \in {"persistRec", "emitRec"} => m.candidates # <<>>
  BY MemoryTypes DEF EngineInv, EngineTypes, EngInv
<1>2. \A f \in Engines \ {e} : engine'[f] = engine[f] /\ known'[f] = known[f]
  BY <1>1 DEF EngineSteps, StartEngine, EngineProgress, ListRuns, InspectRun, EvaluateCost,
     EngineReturns, EngineRefused, EngineRaises, EngineDies
<1>3. ASSUME NEW label, engine' = [engine EXCEPT ![e].pc = label]
      PROVE  /\ engine'[e].rule = m.rule /\ engine'[e].list = m.list
             /\ engine'[e].runs = m.runs /\ engine'[e].candidates = m.candidates
             /\ engine'[e].pc = label
  BY <1>1, <1>3 DEF Memories
<1>4. CASE StartEngine(e)
  <2>1. PICK label \in {"emitStart", "raised"} : engine' = [engine EXCEPT ![e].pc = label]
    BY <1>4 DEF StartEngine
  <2>2. m.pc = "idle" /\ recs' = recs
    BY <1>4 DEF StartEngine
  <2>. QED BY <1>2, <1>3, <1>4, <2>1, <2>2 DEF Relabels, Failing
<1>5. CASE EngineRaises(e)
  <2>1. /\ engine' = [engine EXCEPT ![e].pc = Handler(m.pc)] /\ known' = known
        /\ EngineCall(e) \/ UNCHANGED recs
    BY <1>5 DEF EngineRaises
  <2>2. recs' = recs \/ PersistRec(e)
    BY <2>1 DEF EngineCall, EmitEngineStart, EmitRec, MarkEngine, EmitEngineEnd
  <2>3. Handler(m.pc) \in Failing
    BY DEF Handler, Failing
  <2>. QED BY <1>2, <1>3, <2>1, <2>2, <2>3 DEF Relabels
<1>6. CASE EngineDies(e)
  <2>1. engine' = [engine EXCEPT ![e].pc = "dead"] /\ known' = known /\ recs' = recs
    BY <1>6 DEF EngineDies
  <2>2. "dead" \in Failing
    BY DEF Failing
  <2>. QED BY <1>2, <1>3, <2>1, <2>2 DEF Relabels
<1>7. CASE EngineRefused(e)
  <2>1. engine' = [engine EXCEPT ![e].pc = "raised"] /\ known' = known /\ recs' = recs
    BY <1>7 DEF EngineRefused
  <2>2. "raised" \in Failing
    BY DEF Failing
  <2>. QED BY <1>2, <1>3, <2>1, <2>2 DEF Relabels
<1>8. CASE EngineReturns(e)
  <2>1. EngineCall(e) /\ engine' = [engine EXCEPT ![e] = NextEngineState(m)] /\ known' = known
    BY <1>8 DEF EngineReturns
  <2>2. CASE EmitRec(e)
    <3>. DEFINE m0 == [m EXCEPT !.candidates = Tail(@)]
                m1 == EndOfEvaluate(m0)
    <3>1. m.pc = "emitRec" /\ recs' = recs
      BY <2>2 DEF EmitRec
    <3>2. NextEngineState(m) = m1
      BY <3>1 DEF NextEngineState
    <3>3. Tail(m.candidates) \in Seq(Found) /\ m.candidates # <<>>
      BY <1>1, <3>1
    <3>4. /\ m0 \in Memories /\ m0.rule = m.rule /\ m0.list = m.list /\ m0.runs = m.runs
          /\ m0.candidates = Tail(m.candidates)
      BY <1>1, <3>3 DEF Memories
    <3>. HIDE DEF m0
    <3>5. /\ m1.runs = m0.runs /\ m1.list = m0.list /\ m1.candidates = m0.candidates
          /\ \/ m0.candidates # <<>> /\ m1.pc = "persistRec" /\ m1.rule = m0.rule
             \/ m0.candidates = <<>> /\ m0.rule = 1 /\ m1.pc = "evaluate" /\ m1.rule = 2
             \/ m0.candidates = <<>> /\ m0.rule = 2 /\ m1.pc = "markCompleted" /\ m1.rule = 2
      BY <3>4, EvaluateEnds
    <3>. HIDE DEF m1
    <3>6. engine'[e] = m1
      BY <1>1, <2>1, <3>2
    <3>. QED BY <1>2, <2>1, <3>1, <3>3, <3>4, <3>5, <3>6 DEF EmitsRec
  <2>3. CASE ~EmitRec(e)
    <3>1. PICK label \in {"evaluate", "emitRec", "emitCompleted", "emitFailed", "returned",
                          "raised"} :
            /\ NextEngineState(m) = [m EXCEPT !.pc = label]
            /\ label = "evaluate" => m.pc = "emitStart"
            /\ label = "emitRec" => m.pc = "persistRec" /\ PersistRec(e)
      BY <2>1, <2>3 DEF NextEngineState, EngineCall, EmitEngineStart, PersistRec, MarkEngine,
         EmitEngineEnd
    <3>2. recs' = recs \/ PersistRec(e)
      BY <2>1, <2>3 DEF EngineCall, EmitEngineStart, MarkEngine, EmitEngineEnd
    <3>3. engine' = [engine EXCEPT ![e].pc = label]
      BY <1>1, <2>1, <3>1
    <3>4. label \in {"evaluate", "emitRec"} \union Failing \union {"emitCompleted", "returned"}
      BY DEF Failing
    <3>. QED BY <1>2, <1>3, <2>1, <3>1, <3>2, <3>3, <3>4 DEF Relabels
  <2>. QED BY <2>2, <2>3
<1>. QED BY <1>2, <1>4, <1>5, <1>6, <1>7, <1>8 DEF EngineSteps, EngineProgress

-----------------------------------------------------------------------------
(* Evidence, over the rows and the numbers of entries of the evaluation runs. *)
Done(rows, r) == r \in Runs /\ rows[r].status = "completed"

Evidence(c, rows, n) == c.category = "retrieval_strategy" =>
    /\ Done(rows, c.subject)
    /\ c.delta = Distance(rows[c.subject].aggregates[1].recall,
                          rows[c.subject].aggregates[2].recall)
    /\ c.delta > Threshold * n[c.subject]

\* Whatever an engine run has at hand is sound evidence.
Informed(m, K, rows, n) ==
    /\ \A k \in DOMAIN m.candidates : Evidence(m.candidates[k], rows, n)
    /\ \A k \in DOMAIN m.runs : Done(rows, m.runs[k])
    /\ \A r \in K : Done(rows, r)

EvidInv == /\ \A i \in 1..Len(recs) : Evidence(recs[i], evalRow, entries)
           /\ \A e \in Engines : Informed(engine[e], known[e], evalRow, entries)

Frozen(rows, rows1, n, n1) == \A r \in Runs : rows[r].status = "completed" =>
    rows1[r] = rows[r] /\ n1[r] = n[r]

(* Evidence from a completed run stays evidence. *)
LEMMA EvidenceStays ==
    ASSUME NEW rows, NEW rows1, NEW n, NEW n1, Frozen(rows, rows1, n, n1),
           NEW c, NEW d, Evidence(c, rows, n), d.category = c.category,
           d.subject = c.subject, d.delta = c.delta
    PROVE  Evidence(d, rows1, n1)
BY DEF Frozen, Evidence, Done

(* So does all an engine run has at hand. *)
LEMMA InformedStays ==
    ASSUME NEW rows, NEW rows1, NEW n, NEW n1, Frozen(rows, rows1, n, n1),
           NEW m, NEW m1, NEW K, Informed(m, K, rows, n),
           m1.candidates = m.candidates, m1.runs = m.runs
    PROVE  Informed(m1, K, rows1, n1)
<1>1. \A k \in DOMAIN m.candidates : Evidence(m.candidates[k], rows1, n1)
  BY EvidenceStays DEF Informed
<1>2. \A r : Done(rows, r) => Done(rows1, r)
  BY DEF Frozen, Done
<1>. QED BY <1>1, <1>2 DEF Informed

(* What Tail does, entry by entry. *)
LEMMA TailEntries ==
    ASSUME NEW S, NEW s \in Seq(S), s # <<>>
    PROVE  \A k \in DOMAIN Tail(s) : k + 1 \in DOMAIN s /\ Tail(s)[k] = s[k + 1]
OBVIOUS

(* Every step keeps the evidence sound. *)
LEMMA EvidStep == CoreInv /\ EvidInv /\ [Next]_vars => EvidInv'
<1>. SUFFICES ASSUME CoreInv, EvidInv, [Next]_vars PROVE EvidInv'
  OBVIOUS
<1>1. /\ EvalInv /\ EvalTypes /\ EngineInv /\ EngineTypes /\ recs \in Seq(Recommendations)
      /\ faults \in Nat
  BY DEF CoreInv, EvalInv, EvalTypes, EngineInv, EngineTypes
<1>2. CASE EvalNext /\ UNCHANGED <<engineVars, recs, userVars>>
  <2>1. Frozen(evalRow, evalRow', entries, entries')
    BY <1>1, <1>2, CompletedRunsStay DEF Frozen, CompletedStay, Completed
  <2>2. engine' = engine /\ known' = known /\ recs' = recs
    BY <1>2 DEF engineVars
  <2>3. \A i \in 1..Len(recs) : Evidence(recs[i], evalRow', entries')
    BY <2>1, EvidenceStays DEF EvidInv
  <2>4. \A e \in Engines : Informed(engine[e], known[e], evalRow', entries')
    BY <2>1, InformedStays DEF EvidInv
  <2>. QED BY <2>2, <2>3, <2>4 DEF EvidInv
<1>3. ASSUME NEW e \in Engines, EngineSteps(e) PROVE EvidInv'
  <2>. DEFINE m == engine[e]
              m1 == engine'[e]
  <2>1. evalRow' = evalRow /\ entries' = entries
    BY <1>3 DEF EngineSteps, StartEngine, EngineProgress, ListRuns, InspectRun, EvaluateCost,
       EngineReturns, EngineRefused, EngineRaises, EngineDies, evalVars
  <2>2. /\ ListRuns(e) \/ InspectRun(e) \/ EvaluateCost(e) \/ Relabels(e) \/ EmitsRec(e)
        /\ \A f \in Engines \ {e} : engine'[f] = engine[f] /\ known'[f] = known[f]
    BY <1>1, <1>3, MemoryMoves
  <2>3. /\ Informed(m, known[e], evalRow, entries) /\ m \in Memories
        /\ m.runs \in Seq(Runs) /\ m.candidates \in Seq(Found) /\ m.list \in 0..NoCursor
    BY <1>1, MemoryTypes DEF EvidInv, EngineTypes
  <2>4. SUFFICES /\ \A i \in 1..Len(recs') : Evidence(recs'[i], evalRow, entries)
                 /\ Informed(m1, known'[e], evalRow, entries)
    BY <2>1, <2>2, <2>4 DEF EvidInv
  <2>5. CASE ListRuns(e)
    <3>1. /\ known' = known /\ recs' = recs
          /\ m1.runs = Selected(Page(m.list)) /\ m1.candidates = m.candidates
      BY <1>1, <2>5, RunsListed DEF ListRuns, Evaluated
    <3>2. \A k \in DOMAIN m1.runs : Done(evalRow, m1.runs[k])
      BY <1>1, <2>3, <3>1, SelectedRuns DEF Done, Completed
    <3>. QED BY <2>3, <3>1, <3>2 DEF EvidInv, Informed
  <2>6. CASE InspectRun(e)
    <3>. DEFINE r == Head(m.runs)
                s == Candidates(r)
    <3>1. /\ known' = known /\ recs' = recs /\ m.runs # <<>>
          /\ m1.runs = Tail(m.runs) /\ m1.candidates = m.candidates \o s
      BY <1>1, <2>6, RunInspected DEF InspectRun, Evaluated
    <3>2. r = m.runs[1] /\ r \in Runs /\ 1 \in DOMAIN m.runs
      BY <2>3, <3>1
    <3>. HIDE DEF r
    <3>3. Done(evalRow, r)
      BY <2>3, <3>2 DEF Informed
    <3>4. /\ s \in Seq(Found)
          /\ s # <<>> => /\ Len(s) = 1 /\ s[1].category = "retrieval_strategy"
                         /\ s[1].subject = r /\ s[1].delta = Delta(r)
                         /\ Delta(r) > Threshold * entries[r]
      BY <1>1, <3>2, CandidatesTyped
    <3>. HIDE DEF s
    <3>5. ASSUME NEW k \in DOMAIN s PROVE Evidence(s[k], evalRow, entries)
      <4>1. s # <<>> /\ k = 1
        BY <3>4
      <4>. QED BY <3>3, <3>4, <4>1 DEF Evidence, Delta
    <3>6. ASSUME NEW k \in DOMAIN (m.candidates \o s)
          PROVE  Evidence((m.candidates \o s)[k], evalRow, entries)
      <4>1. \/ k \in DOMAIN m.candidates /\ (m.candidates \o s)[k] = m.candidates[k]
            \/ /\ k - Len(m.candidates) \in DOMAIN s
               /\ (m.candidates \o s)[k] = s[k - Len(m.candidates)]
        BY <2>3, <3>4
      <4>. QED BY <2>3, <3>5, <4>1 DEF Informed
    <3>7. \A k \in DOMAIN Tail(m.runs) : Done(evalRow, Tail(m.runs)[k])
      BY <2>3, <3>1, TailEntries DEF Informed
    <3>. QED BY <2>3, <3>1, <3>6, <3>7 DEF EvidInv, Informed
  <2>7. CASE EvaluateCost(e)
    <3>1. /\ known' = known /\ recs' = recs /\ m1.runs = m.runs
          /\ \A k \in DOMAIN m1.candidates : m1.candidates[k].category = "cost_optimization"
      BY <1>1, <2>7, CostEvaluated DEF EvaluateCost
    <3>. QED BY <2>3, <3>1 DEF EvidInv, Informed, Evidence
  <2>8. CASE EmitsRec(e)
    <3>1. /\ known' = known /\ recs' = recs /\ m1.runs = m.runs /\ m.candidates # <<>>
          /\ m1.candidates = Tail(m.candidates)
      BY <2>8 DEF EmitsRec
    <3>. QED BY <2>3, <3>1, TailEntries DEF EvidInv, Informed
  <2>9. CASE Relabels(e)
    <3>1. m1.runs = m.runs /\ m1.candidates = m.candidates
      BY <2>9 DEF Relabels
    <3>2. \A r \in known'[e] : Done(evalRow, r)
      <4>1. CASE known' = known
        BY <2>3, <4>1 DEF Informed
      <4>2. CASE StartEngine(e)
        <5>1. known'[e] = {r \in Runs : Completed(r)}
          BY <1>1, <4>2 DEF StartEngine, EngineTypes
        <5>. QED BY <5>1 DEF Done, Completed
      <4>. QED BY <2>9, <4>1, <4>2 DEF Relabels
    <3>3. \A i \in 1..Len(recs') : Evidence(recs'[i], evalRow, entries)
      <4>1. CASE recs' = recs
        BY <4>1 DEF EvidInv
      <4>2. CASE PersistRec(e)
        <5>1. recs' = Append(recs, Written(e)) /\ m.candidates # <<>>
          BY <1>1, <4>2 DEF PersistRec, Written, EngineInv, EngInv
        <5>2. /\ Written(e) \in Recommendations
              /\ Written(e).category = m.candidates[1].category
              /\ Written(e).subject = m.candidates[1].subject
              /\ Written(e).delta = m.candidates[1].delta
          BY <1>1, <5>1, WrittenTyped
        <5>3. 1 \in DOMAIN m.candidates
          BY <2>3, <5>1
        <5>4. Evidence(m.candidates[1], evalRow, entries)
          BY <2>3, <5>3 DEF Informed
        <5>5. Frozen(evalRow, evalRow, entries, entries)
          BY DEF Frozen
        <5>6. Evidence(Written(e), evalRow, entries)
          BY <5>2, <5>4, <5>5, EvidenceStays
        <5>7. \A i \in 1..Len(recs') : (i \in 1..Len(recs) /\ recs'[i] = recs[i])
                                       \/ recs'[i] = Written(e)
          BY <1>1, <5>1, <5>2, Appended
        <5>. QED BY <5>6, <5>7 DEF EvidInv
      <4>. QED BY <2>9, <4>1, <4>2 DEF Relabels
    <3>. QED BY <2>3, <3>1, <3>2, <3>3 DEF Informed
  <2>. QED BY <2>2, <2>5, <2>6, <2>7, <2>8, <2>9
<1>4. ASSUME NEW u \in Users, UserSteps(u) PROVE EvidInv'
  <2>1. /\ UNCHANGED <<evalVars, engineVars>> /\ Len(recs') = Len(recs)
        /\ \A i \in 1..Len(recs) : /\ recs'[i].category = recs[i].category
                                   /\ recs'[i].subject = recs[i].subject
                                   /\ recs'[i].delta = recs[i].delta
    BY <1>1, <1>4, UserMoves DEF CoreInv
  <2>2. evalRow' = evalRow /\ entries' = entries /\ engine' = engine /\ known' = known
    BY <2>1 DEF evalVars, engineVars
  <2>3. Frozen(evalRow, evalRow, entries, entries)
    BY DEF Frozen
  <2>4. \A i \in 1..Len(recs) : Evidence(recs'[i], evalRow, entries)
    BY <2>1, <2>3, EvidenceStays DEF EvidInv
  <2>. QED BY <2>1, <2>2, <2>4 DEF EvidInv
<1>5. CASE UNCHANGED vars
  BY <1>5 DEF vars, evalVars, engineVars, EvidInv
<1>6. CASE Next
  BY <1>2, <1>3, <1>4, <1>6 DEF Next, EngineSteps, UserSteps
<1>. QED BY <1>5, <1>6

(* At the beginning there is none. *)
LEMMA EvidStarts == Init => EvidInv
<1>. SUFFICES ASSUME Init PROVE EvidInv
  OBVIOUS
<1>1. recs = <<>> /\ Len(recs) = 0
  BY DEF Init
<1>2. \A e \in Engines : /\ engine[e].candidates = <<>> /\ engine[e].runs = <<>>
                         /\ known[e] = {}
  BY DEF Init
<1>. QED BY <1>1, <1>2 DEF EvidInv, Informed

(* Candidates and recommendations cite completed runs, with the difference that
   the results of those runs come to. *)
THEOREM EvidenceIsKept == Spec => []EvidInv
BY EvidStarts, EvidStep, Invariance, PTL DEF Spec

(* A retrieval-strategy recommendation cites a completed run that has all its
   results, and its delta is what they come to. *)
THEOREM RecommendationsAreSound == Spec => []EvidenceIsSound
<1>1. CoreInv /\ EvidInv => EvidenceIsSound
  <2>. SUFFICES ASSUME CoreInv, EvidInv PROVE EvidenceIsSound
    OBVIOUS
  <2>1. EvalInv /\ recs \in Seq(Recommendations)
    BY DEF CoreInv, EngineInv, EngineTypes
  <2>2. ASSUME NEW i \in DOMAIN recs, recs[i].category = "retrieval_strategy"
        PROVE  LET r == recs[i].subject
               IN  /\ Completed(r)
                   /\ Len(evalRow[r].results) = entries[r] * Len(Strategies)
                   /\ recs[i].delta = Distance(Total(evalRow[r].results, "vector_only"),
                                               Total(evalRow[r].results, "graph_only"))
                   /\ recs[i].delta > Threshold * entries[r]
    <3>. DEFINE r == recs[i].subject
    <3>1. Evidence(recs[i], evalRow, entries)
      BY <2>1 DEF EvidInv
    <3>2. /\ r \in Runs /\ Completed(r) /\ recs[i].delta = Delta(r)
          /\ recs[i].delta > Threshold * entries[r]
      BY <2>2, <3>1 DEF Evidence, Done, Completed, Delta
    <3>. HIDE DEF r
    <3>3. /\ Len(evalRow[r].results) = entries[r] * Len(Strategies)
          /\ Delta(r) = Distance(Total(evalRow[r].results, "vector_only"),
                                 Total(evalRow[r].results, "graph_only"))
      BY <2>1, <3>2, CompletedRuns
    <3>. QED BY <3>2, <3>3 DEF r
  <2>. QED BY <2>2 DEF EvidenceIsSound
<1>. QED BY <1>1, Invariance, EvidenceIsKept, PTL

-----------------------------------------------------------------------------
(* How far an engine run is with the evidence.  C has for every run the
   recommendations that cite it, K the runs that must not be missed, and d
   tells that the row is completed. *)
Cites(c, r) == c.category = "retrieval_strategy" /\ c.subject = r

\* No two candidates cite the same run.
Differ(cands) == \A j, k \in DOMAIN cands : \A r \in Runs :
    Cites(cands[j], r) /\ Cites(cands[k], r) => j = k

\* The first rule has the runs of a page and the candidates of what came before
\* at hand, and a run that must not be missed is there or still to come.
Reading(runs, list, cands, C, K) ==
    /\ \A r \in Runs : C[r] = {}
    /\ \A i, j \in DOMAIN runs : i < j => runs[i] > runs[j]
    /\ \A j \in DOMAIN runs : runs[j] >= list
    /\ \A k \in DOMAIN cands : /\ cands[k].category = "retrieval_strategy"
                               /\ cands[k].subject \in Runs
                               /\ cands[k].subject >= list
                               /\ \A j \in DOMAIN runs : cands[k].subject > runs[j]
    /\ \A r \in K : \/ r < list
                    \/ \E j \in DOMAIN runs : runs[j] = r
                    \/ \E k \in DOMAIN cands : cands[k].subject = r

PageInv(m, C, K, d) ==
    /\ \A r \in Runs : \A i, j \in C[r] : i = j
    /\ m.pc \in {"idle", "emitStart"} =>
          /\ m.runs = <<>> /\ m.list = NoCursor /\ m.candidates = <<>> /\ m.rule = 1
          /\ \A r \in Runs : C[r] = {}
    /\ m.pc = "evaluate" /\ m.rule = 1 => Reading(m.runs, m.list, m.candidates, C, K)
    /\ m.pc \in {"evaluate", "persistRec", "emitRec"} => Differ(m.candidates)
    /\ m.pc = "evaluate" /\ m.rule = 2 => \A r \in K : C[r] # {}
    /\ m.pc = "persistRec" =>
          /\ \A k \in DOMAIN m.candidates : \A r \in Runs :
                Cites(m.candidates[k], r) => C[r] = {}
          /\ \A r \in K : \/ C[r] # {}
                          \/ \E k \in DOMAIN m.candidates : Cites(m.candidates[k], r)
    /\ m.pc = "emitRec" =>
          /\ \A k \in DOMAIN m.candidates : \A r \in Runs :
                k > 1 /\ Cites(m.candidates[k], r) => C[r] = {}
          /\ \A r \in K : \/ C[r] # {}
                          \/ \E k \in DOMAIN m.candidates :
                                k > 1 /\ Cites(m.candidates[k], r)
    /\ m.pc = "markCompleted" \/ d => \A r \in K : C[r] # {}

Closed(label) == label \notin {"idle", "emitStart", "evaluate", "persistRec", "emitRec",
                               "markCompleted"}

(* Runs are numbers below the cursor an engine run begins with. *)
LEMMA RunsAreNumbers == Runs \subseteq Nat /\ NoCursor \in Nat /\ \A r \in Runs : r < NoCursor
BY EvaluationAssumption DEF Runs, NoCursor

(* Behind a page or a run: still reading, or nothing is missed. *)
LEMMA ReadingGoesOn ==
    ASSUME NEW m1 \in Memories, NEW runs \in Seq(Runs), NEW list \in Nat,
           NEW cands \in Seq(Found), NEW C, NEW K \in SUBSET Runs, NEW d,
           Reading(runs, list, cands, C, K), Differ(cands),
           Evaluated(m1, runs, list, cands), d => \A r \in K : C[r] # {}
    PROVE  PageInv(m1, C, K, d)
<1>1. \A r \in Runs : C[r] = {}
  BY DEF Reading
<1>2. CASE m1.pc = "evaluate" /\ m1.rule = 1
  BY <1>1, <1>2 DEF PageInv, Evaluated
<1>3. ASSUME runs = <<>>, list = 0 PROVE \A r \in K : \E k \in DOMAIN cands : Cites(cands[k], r)
  <2>1. SUFFICES ASSUME NEW r \in K PROVE \E k \in DOMAIN cands : Cites(cands[k], r)
    OBVIOUS
  <2>2. ~(r < list) /\ DOMAIN runs = {}
    BY <1>3, RunsAreNumbers
  <2>. QED BY <2>2 DEF Reading, Cites
<1>4. CASE runs = <<>> /\ list = 0 /\ cands # <<>> /\ m1.pc = "persistRec" /\ m1.rule = 1
  BY <1>1, <1>3, <1>4 DEF PageInv, Evaluated
<1>5. CASE runs = <<>> /\ list = 0 /\ cands = <<>> /\ m1.pc = "evaluate" /\ m1.rule = 2
  <2>1. K = {}
    BY <1>3, <1>5
  <2>. QED BY <1>1, <1>5, <2>1 DEF PageInv, Evaluated
<1>. QED BY <1>2, <1>4, <1>5 DEF Evaluated

(* The next page follows on what was read. *)
LEMMA NextPageIsRead ==
    ASSUME EvalTypes, NEW c \in 0..NoCursor, NEW cands \in Seq(Found), NEW C,
           NEW K \in SUBSET Runs, \A r \in K : Completed(r),
           Reading(<<>>, c, cands, C, K)
    PROVE  Reading(Selected(Page(c)), NextCursor(c), cands, C, K)
<1>. DEFINE runs == Selected(Page(c))
            list == NextCursor(c)
<1>1. c \in Nat /\ list \in Nat /\ list <= c /\ runs \in Seq(Runs)
  <2>1. NextCursor(c) \in 0..NoCursor /\ NextCursor(c) <= c
    BY Paging
  <2>. QED BY <2>1, RunsAreNumbers, SelectedRuns
<1>2. /\ \A i, j \in DOMAIN runs : i < j => runs[i] > runs[j]
      /\ \A j \in DOMAIN runs : runs[j] \in Page(c)
      /\ \A r \in Page(c) : Completed(r) => \E j \in DOMAIN runs : runs[j] = r
  BY SelectedRuns
<1>3. /\ \A r \in Page(c) : r >= list /\ r < c
      /\ \A r \in After(c) : r \in Page(c) \/ r < list
  BY Paging
<1>. HIDE DEF runs, list
<1>4. \A j \in DOMAIN runs : runs[j] >= list /\ runs[j] < c /\ runs[j] \in Nat
  <2>1. Page(c) \subseteq Nat
    BY Paging, RunsAreNumbers
  <2>. QED BY <1>2, <1>3, <2>1
<1>5. ASSUME NEW k \in DOMAIN cands
      PROVE  /\ cands[k].category = "retrieval_strategy"
             /\ cands[k].subject \in Runs /\ cands[k].subject >= list
             /\ \A j \in DOMAIN runs : cands[k].subject > runs[j]
  <2>1. /\ cands[k].category = "retrieval_strategy"
        /\ cands[k].subject \in Runs /\ cands[k].subject >= c
    BY DEF Reading
  <2>2. cands[k].subject \in Nat
    BY <2>1, RunsAreNumbers
  <2>. QED BY <1>1, <1>4, <2>1, <2>2
<1>6. ASSUME NEW r \in K
      PROVE  \/ r < list
             \/ \E j \in DOMAIN runs : runs[j] = r
             \/ \E k \in DOMAIN cands : cands[k].subject = r
  <2>1. CASE r < c
    <3>1. r \in After(c)
      BY <2>1 DEF After, Completed
    <3>. QED BY <1>2, <1>3, <3>1
  <2>2. CASE \E k \in DOMAIN cands : cands[k].subject = r
    BY <2>2
  <2>. QED BY <2>1, <2>2 DEF Reading
<1>7. \A r \in Runs : C[r] = {}
  BY DEF Reading
<1>8. Reading(runs, list, cands, C, K)
  BY <1>2, <1>4, <1>5, <1>6, <1>7 DEF Reading
<1>. QED BY <1>8 DEF runs, list

(* The run read next makes its candidate, if it has one. *)
LEMMA NextRunIsRead ==
    ASSUME NEW runs \in Seq(Runs), runs # <<>>, NEW list \in Nat, NEW cands \in Seq(Found),
           NEW C, NEW K \in SUBSET Runs, Reading(runs, list, cands, C, K), Differ(cands),
           NEW s \in Seq(Found), runs[1] \in K => s # <<>>,
           s # <<>> => /\ Len(s) = 1 /\ s[1].category = "retrieval_strategy"
                       /\ s[1].subject = runs[1]
    PROVE  Reading(Tail(runs), list, cands \o s, C, K) /\ Differ(cands \o s)
<1>. DEFINE more == cands \o s
            n == Len(cands)
            rest == Tail(runs)
<1>1. /\ 1 \in DOMAIN runs /\ runs[1] \in Runs /\ n \in Nat
      /\ \A j \in DOMAIN rest : /\ j + 1 \in DOMAIN runs /\ rest[j] = runs[j + 1]
                                /\ 1 < j + 1 /\ j \in Nat
      /\ \A j \in DOMAIN runs : j # 1 => j - 1 \in DOMAIN rest /\ rest[j - 1] = runs[j]
  <2>1. /\ 1 \in DOMAIN runs /\ runs[1] \in Runs /\ n \in Nat
        /\ \A j \in DOMAIN rest : /\ j + 1 \in DOMAIN runs /\ rest[j] = runs[j + 1]
                                  /\ 1 < j + 1 /\ j \in Nat
    OBVIOUS
  <2>2. /\ DOMAIN runs = 1..Len(runs) /\ DOMAIN rest = 1..(Len(runs) - 1)
        /\ Len(runs) \in Nat /\ \A j \in 1..(Len(runs) - 1) : rest[j] = runs[j + 1]
    OBVIOUS
  <2>. HIDE DEF rest
  <2>3. ASSUME NEW j \in DOMAIN runs, j # 1
        PROVE  j - 1 \in DOMAIN rest /\ rest[j - 1] = runs[j]
    <3>1. j - 1 \in 1..(Len(runs) - 1) /\ (j - 1) + 1 = j
      BY <2>2, <2>3
    <3>. QED BY <2>2, <3>1
  <2>4. \A j \in DOMAIN runs : j # 1 => j - 1 \in DOMAIN rest /\ rest[j - 1] = runs[j]
    BY <2>3
  <2>. QED BY <2>1, <2>4 DEF rest
<1>2. /\ \A k \in DOMAIN cands : k \in DOMAIN more /\ more[k] = cands[k] /\ k <= n /\ k \in Nat
      /\ \A k \in DOMAIN more : \/ k \in DOMAIN cands
                                \/ k = n + 1 /\ s # <<>> /\ more[k] = s[1]
      /\ s # <<>> => n + 1 \in DOMAIN more /\ more[n + 1] = s[1]
  <2>1. /\ \A k \in DOMAIN cands : k \in DOMAIN more /\ more[k] = cands[k] /\ k <= n /\ k \in Nat
    OBVIOUS
  <2>2. CASE s = <<>>
    BY <2>1, <2>2
  <2>3. CASE s # <<>>
    <3>1. Len(s) = 1
      BY <2>3
    <3>2. DOMAIN more = 1..(n + 1) /\ more[n + 1] = s[1] /\ DOMAIN cands = 1..n
      <4>1. Len(more) = n + 1 /\ more \in Seq(Found)
        <5>1. Len(more) = n + Len(s) /\ more \in Seq(Found)
          OBVIOUS
        <5>. QED BY <3>1, <5>1
      <4>2. more[n + 1] = s[(n + 1) - n] /\ (n + 1) - n = 1
        BY <3>1, <4>1
      <4>. QED BY <1>1, <4>1, <4>2
    <3>. QED BY <1>1, <2>1, <2>3, <3>2
  <2>. QED BY <2>2, <2>3
<1>. HIDE DEF more, n, rest
<1>3. ASSUME NEW j \in DOMAIN rest PROVE rest[j] >= list /\ runs[1] > rest[j]
  BY <1>1 DEF Reading
<1>4. \A i, j \in DOMAIN rest : i < j => rest[i] > rest[j]
  <2>1. SUFFICES ASSUME NEW i \in DOMAIN rest, NEW j \in DOMAIN rest, i < j
                 PROVE  rest[i] > rest[j]
    OBVIOUS
  <2>2. i + 1 < j + 1
    BY <1>1, <2>1
  <2>. QED BY <1>1, <2>2 DEF Reading
<1>5. ASSUME NEW k \in DOMAIN more
      PROVE  /\ more[k].category = "retrieval_strategy"
             /\ more[k].subject \in Runs /\ more[k].subject >= list
             /\ \A j \in DOMAIN rest : more[k].subject > rest[j]
  <2>1. CASE k \in DOMAIN cands
    BY <1>1, <1>2, <2>1 DEF Reading
  <2>2. CASE s # <<>> /\ more[k] = s[1]
    <3>1. /\ more[k].category = "retrieval_strategy" /\ more[k].subject = runs[1]
      BY <2>2
    <3>. QED BY <1>1, <1>3, <3>1 DEF Reading
  <2>. QED BY <1>2, <2>1, <2>2
<1>6. ASSUME NEW r \in K
      PROVE  \/ r < list
             \/ \E j \in DOMAIN rest : rest[j] = r
             \/ \E k \in DOMAIN more : more[k].subject = r
  <2>1. CASE \E j \in DOMAIN runs : runs[j] = r
    <3>1. PICK j \in DOMAIN runs : runs[j] = r
      BY <2>1
    <3>2. CASE j = 1
      <4>1. s # <<>> /\ s[1].subject = r
        BY <3>1, <3>2
      <4>. QED BY <1>2, <4>1
    <3>. QED BY <1>1, <3>1, <3>2
  <2>2. CASE \E k \in DOMAIN cands : cands[k].subject = r
    BY <1>2, <2>2
  <2>. QED BY <2>1, <2>2 DEF Reading
<1>7. Differ(more)
  <2>1. SUFFICES ASSUME NEW j \in DOMAIN more, NEW k \in DOMAIN more, NEW r \in Runs,
                        Cites(more[j], r), Cites(more[k], r)
                 PROVE  j = k
    BY DEF Differ
  <2>2. \A i \in DOMAIN cands : s # <<>> => cands[i].subject # s[1].subject
    <3>1. \A i \in DOMAIN cands : cands[i].subject > runs[1] /\ cands[i].subject \in Runs
      BY <1>1 DEF Reading
    <3>2. runs[1] \in Nat /\ \A i \in DOMAIN cands : cands[i].subject \in Nat
      BY <1>1, <3>1, RunsAreNumbers
    <3>. QED BY <3>1, <3>2
  <2>3. CASE j \in DOMAIN cands /\ k \in DOMAIN cands
    BY <1>2, <2>1, <2>3 DEF Differ
  <2>. QED BY <1>2, <2>1, <2>2, <2>3 DEF Cites
<1>8. \A r \in Runs : C[r] = {}
  BY DEF Reading
<1>9. Reading(rest, list, more, C, K)
  BY <1>3, <1>4, <1>5, <1>6, <1>8 DEF Reading
<1>. QED BY <1>7, <1>9 DEF more, rest

\* The recommendation x cites the run that c cites, and no other.
Gains(C1, C, c, x) ==
    \A r \in Runs : C1[r] = IF Cites(c, r) THEN C[r] \union {x} ELSE C[r]

(* The first candidate is written. *)
LEMMA CitationWritten ==
    ASSUME NEW m \in Memories, NEW m1 \in Memories, NEW C, NEW C1, NEW K \in SUBSET Runs,
           NEW d, NEW d1, NEW x, PageInv(m, C, K, d), m.pc = "persistRec",
           m.candidates # <<>>, m1.candidates = m.candidates,
           m1.pc = "emitRec" \/ Closed(m1.pc), d1 => d,
           Gains(C1, C, m.candidates[1], x)
    PROVE  PageInv(m1, C1, K, d1)
<1>1. m.candidates \in Seq(Found)
  BY MemoryTypes
<1>2. 1 \in DOMAIN m.candidates /\ \A k \in DOMAIN m.candidates : k \in Nat /\ (k > 1 \/ k = 1)
  BY <1>1
<1>3. ASSUME NEW r \in Runs
      PROVE  /\ \A i, j \in C1[r] : i = j
             /\ C[r] # {} => C1[r] # {}
             /\ Cites(m.candidates[1], r) => C1[r] # {}
  <2>1. Cites(m.candidates[1], r) => C[r] = {}
    BY <1>2 DEF PageInv
  <2>2. \A i, j \in C[r] : i = j
    BY DEF PageInv
  <2>. QED BY <2>1, <2>2 DEF Gains
<1>4. Differ(m.candidates)
  BY DEF PageInv
<1>5. ASSUME NEW k \in DOMAIN m.candidates, NEW r \in Runs, k > 1, Cites(m.candidates[k], r)
      PROVE  C1[r] = {}
  <2>1. ~Cites(m.candidates[1], r)
    BY <1>2, <1>4, <1>5 DEF Differ
  <2>2. C[r] = {}
    BY <1>5 DEF PageInv
  <2>. QED BY <2>1, <2>2 DEF Gains
<1>6. ASSUME NEW r \in K
      PROVE  \/ C1[r] # {}
             \/ \E k \in DOMAIN m.candidates : k > 1 /\ Cites(m.candidates[k], r)
  <2>1. C[r] # {} \/ \E k \in DOMAIN m.candidates : Cites(m.candidates[k], r)
    BY DEF PageInv
  <2>. QED BY <1>2, <1>3, <2>1
<1>7. d1 => \A r \in K : C1[r] # {}
  BY <1>3 DEF PageInv
<1>. QED BY <1>3, <1>4, <1>5, <1>6, <1>7 DEF PageInv, Closed

(* The last recommendation has its event. *)
LEMMA CandidateDone ==
    ASSUME NEW m \in Memories, NEW m1 \in Memories, NEW C, NEW K \in SUBSET Runs, NEW d,
           PageInv(m, C, K, d), m.pc = "emitRec", m.candidates # <<>>,
           m1.candidates = Tail(m.candidates),
           \/ m1.pc = "persistRec"
           \/ m1.candidates = <<>> /\ m1.pc = "evaluate" /\ m1.rule = 2
           \/ m1.candidates = <<>> /\ m1.pc = "markCompleted"
    PROVE  PageInv(m1, C, K, d)
<1>. DEFINE cands == m.candidates
            rest == Tail(cands)
<1>1. cands \in Seq(Found)
  BY MemoryTypes
<1>2. /\ \A k \in DOMAIN rest : /\ k + 1 \in DOMAIN cands /\ rest[k] = cands[k + 1]
                                /\ k + 1 > 1 /\ k \in Nat
      /\ \A k \in DOMAIN cands : k > 1 => k - 1 \in DOMAIN rest /\ rest[k - 1] = cands[k]
  BY <1>1
<1>. HIDE DEF rest
<1>3. Differ(rest)
  <2>1. SUFFICES ASSUME NEW j \in DOMAIN rest, NEW k \in DOMAIN rest, NEW r \in Runs,
                        Cites(rest[j], r), Cites(rest[k], r)
                 PROVE  j = k
    BY DEF Differ
  <2>2. Differ(cands)
    BY DEF PageInv
  <2>3. j + 1 = k + 1
    BY <1>2, <2>1, <2>2 DEF Differ
  <2>. QED BY <1>2, <2>3
<1>4. \A k \in DOMAIN rest : \A r \in Runs : Cites(rest[k], r) => C[r] = {}
  BY <1>2 DEF PageInv
<1>5. \A r \in K : C[r] # {} \/ \E k \in DOMAIN rest : Cites(rest[k], r)
  BY <1>2 DEF PageInv
<1>6. rest = <<>> => \A r \in K : C[r] # {}
  BY <1>5
<1>7. /\ \A r \in Runs : \A i, j \in C[r] : i = j
      /\ d => \A r \in K : C[r] # {}
  BY DEF PageInv
<1>. QED BY <1>3, <1>4, <1>5, <1>6, <1>7 DEF PageInv, rest

-----------------------------------------------------------------------------
CitedBy(rows, e) ==
    [r \in Runs |-> {i \in 1..Len(rows) : rows[i].engine = e /\ Cites(rows[i], r)}]

\* The runs among K an engine run must recommend from.
Strong(K, rows, n) ==
    {r \in K : Distance(rows[r].aggregates[1].recall, rows[r].aggregates[2].recall)
                  > Threshold * n[r]}

OnceInv == \A e \in Engines :
    PageInv(engine[e], CitedBy(recs, e), Strong(known[e], evalRow, entries),
            engineRow[e].status = "completed")

(* Recommendations that keep their engine run and their subject cite as before. *)
LEMMA CitedStay ==
    ASSUME NEW e \in Engines, NEW rows, NEW rows1, Len(rows1) = Len(rows),
           \A i \in 1..Len(rows) : /\ rows1[i].engine = rows[i].engine
                                   /\ rows1[i].category = rows[i].category
                                   /\ rows1[i].subject = rows[i].subject
    PROVE  CitedBy(rows1, e) = CitedBy(rows, e)
<1>1. \A r \in Runs : {i \in 1..Len(rows1) : rows1[i].engine = e /\ Cites(rows1[i], r)}
                    = {i \in 1..Len(rows) : rows[i].engine = e /\ Cites(rows[i], r)}
  BY DEF Cites
<1>. QED BY <1>1 DEF CitedBy

(* A new recommendation cites one run. *)
LEMMA CitedGrow ==
    ASSUME NEW rows \in Seq(Recommendations), NEW x \in Recommendations, NEW e \in Engines,
           NEW r \in Runs
    PROVE  CitedBy(Append(rows, x), e)[r] = IF x.engine = e /\ Cites(x, r)
                                            THEN CitedBy(rows, e)[r] \union {Len(rows) + 1}
                                            ELSE CitedBy(rows, e)[r]
<1>. DEFINE more == Append(rows, x)
            n == Len(rows)
<1>1. /\ n \in Nat /\ Len(more) = n + 1 /\ more[n + 1] = x
      /\ \A i \in 1..n : more[i] = rows[i]
  BY Appended
<1>. HIDE DEF more, n
<1>2. \A i : i \in 1..(n + 1) <=> i \in 1..n \/ i = n + 1
  BY <1>1
<1>3. n + 1 \notin 1..n
  BY <1>1
<1>4. CitedBy(more, e)[r] = {i \in 1..(n + 1) : more[i].engine = e /\ Cites(more[i], r)}
  BY <1>1 DEF CitedBy
<1>5. CitedBy(rows, e)[r] = {i \in 1..n : rows[i].engine = e /\ Cites(rows[i], r)}
  BY DEF CitedBy, n
<1>6. CitedBy(more, e)[r] = IF x.engine = e /\ Cites(x, r)
                            THEN CitedBy(rows, e)[r] \union {n + 1} ELSE CitedBy(rows, e)[r]
  BY <1>1, <1>2, <1>3, <1>4, <1>5
<1>. QED BY <1>6 DEF more, n

(* Of completed runs the same stay strong. *)
LEMMA StrongStays ==
    ASSUME NEW rows, NEW rows1, NEW n, NEW n1, Frozen(rows, rows1, n, n1),
           NEW K, \A r \in K : Done(rows, r)
    PROVE  Strong(K, rows1, n1) = Strong(K, rows, n)
BY DEF Strong, Frozen, Done

\* A row becomes completed only where all rules are worked off.
LEMMA RowCompletes ==
    ASSUME NEW e \in Engines, EngineTypes, EngineSteps(e), engineRow'[e].status = "completed"
    PROVE  /\ known' = known
           /\ engineRow[e].status = "completed" \/ engine[e].pc = "markCompleted"
<1>1. engineRow \in [Engines -> EngineRows]
  BY DEF EngineTypes
<1>2. ~StartEngine(e)
  BY <1>1 DEF StartEngine, EngineRows
<1>3. known' = known
  BY <1>2 DEF EngineSteps, EngineProgress, ListRuns, InspectRun, EvaluateCost,
     EngineReturns, EngineRefused, EngineRaises, EngineDies
<1>4. engineRow' = engineRow \/ MarkEngine(e)
  BY <1>2 DEF EngineSteps, EngineProgress, ListRuns, InspectRun, EvaluateCost,
     EngineReturns, EngineRefused, EngineRaises, EngineDies, EngineCall, EmitEngineStart,
     PersistRec, EmitRec, EmitEngineEnd
<1>5. ASSUME MarkEngine(e), engine[e].pc # "markCompleted" PROVE FALSE
  <2>1. engineRow' = [engineRow EXCEPT ![e] = [@ EXCEPT !.status = "failed"]]
    BY <1>5 DEF MarkEngine
  <2>. QED BY <1>1, <2>1 DEF EngineRows
<1>. QED BY <1>3, <1>4, <1>5

(* A step of an engine run keeps how far it is with the evidence. *)
LEMMA OnceEngine ==
    ASSUME NEW e \in Engines, CoreInv, EvidInv, EngineSteps(e),
           PageInv(engine[e], CitedBy(recs, e), Strong(known[e], evalRow, entries),
                   engineRow[e].status = "completed")
    PROVE  PageInv(engine'[e], CitedBy(recs', e), Strong(known'[e], evalRow, entries),
                   engineRow'[e].status = "completed")
<1>. DEFINE m == engine[e]
            m1 == engine'[e]
            C == CitedBy(recs, e)
            K == Strong(known[e], evalRow, entries)
            d == engineRow[e].status = "completed"
            d1 == engineRow'[e].status = "completed"
<1>1. /\ EvalTypes /\ EngineInv /\ EngineTypes /\ recs \in Seq(Recommendations)
      /\ m \in Memories /\ m.runs \in Seq(Runs) /\ m.candidates \in Seq(Found)
      /\ m.list \in 0..NoCursor /\ m.list \in Nat
  BY RunsAreNumbers, MemoryTypes DEF CoreInv, EvalInv, EngineInv, EngineTypes
<1>2. m1 \in Memories
  BY <1>1, EngineMoves, <1>1 DEF EngineTypes
<1>3. K \in SUBSET Runs /\ \A r \in K : Completed(r) /\ Delta(r) > Threshold * entries[r]
  BY DEF EvidInv, Informed, Done, Strong, Completed, Delta
<1>4. d1 => known' = known /\ (d \/ m.pc = "markCompleted")
  BY <1>1, RowCompletes
<1>5. PageInv(m, C, K, d)
  OBVIOUS
<1>6. d1 => known' = known /\ \A r \in K : C[r] # {}
  BY <1>4, <1>5 DEF PageInv
<1>7. /\ ListRuns(e) \/ InspectRun(e) \/ EvaluateCost(e) \/ Relabels(e) \/ EmitsRec(e)
  BY <1>1, MemoryMoves
<1>. HIDE DEF C, d, d1
<1>8. CASE ListRuns(e)
  <2>1. /\ m.pc = "evaluate" /\ m.rule = 1 /\ m.runs = <<>> /\ recs' = recs /\ known' = known
        /\ Evaluated(m1, Selected(Page(m.list)), NextCursor(m.list), m.candidates)
    BY <1>1, <1>8, RunsListed DEF ListRuns
  <2>2. Reading(<<>>, m.list, m.candidates, C, K) /\ Differ(m.candidates)
    BY <1>5, <2>1 DEF PageInv
  <2>. HIDE DEF K
  <2>3. Reading(Selected(Page(m.list)), NextCursor(m.list), m.candidates, C, K)
    BY <1>1, <1>3, <2>2, NextPageIsRead
  <2>4. Selected(Page(m.list)) \in Seq(Runs) /\ NextCursor(m.list) \in Nat
    <3>1. NextCursor(m.list) \in 0..NoCursor
      BY <1>1, Paging
    <3>. QED BY <1>1, <3>1, SelectedRuns, RunsAreNumbers
  <2>5. PageInv(m1, C, K, d1)
    BY <1>1, <1>2, <1>3, <1>6, <2>1, <2>2, <2>3, <2>4, ReadingGoesOn
  <2>. QED BY <2>1, <2>5 DEF C, K, d1
<1>9. CASE InspectRun(e)
  <2>. DEFINE r == Head(m.runs)
  <2>1. /\ m.pc = "evaluate" /\ m.rule = 1 /\ m.runs # <<>> /\ recs' = recs /\ known' = known
        /\ Evaluated(m1, Tail(m.runs), m.list, m.candidates \o Candidates(r))
    BY <1>1, <1>9, RunInspected DEF InspectRun
  <2>2. Reading(m.runs, m.list, m.candidates, C, K) /\ Differ(m.candidates)
    BY <1>5, <2>1 DEF PageInv
  <2>3. r = m.runs[1] /\ r \in Runs /\ Tail(m.runs) \in Seq(Runs)
    BY <1>1, <2>1
  <2>. HIDE DEF r, K
  <2>. DEFINE s == Candidates(r)
  <2>4. /\ s \in Seq(Found)
        /\ s # <<>> => /\ Len(s) = 1 /\ s[1].category = "retrieval_strategy"
                       /\ s[1].subject = r
        /\ s # <<>> <=> /\ Len(evalRow[r].aggregates) = 2
                        /\ Delta(r) > Threshold * entries[r]
    BY <1>1, <2>3, CandidatesTyped
  <2>5. r \in K => s # <<>>
    BY <1>3, <2>3, <2>4, CompletedRuns DEF CoreInv
  <2>. HIDE DEF s
  <2>6. Reading(Tail(m.runs), m.list, m.candidates \o s, C, K) /\ Differ(m.candidates \o s)
    BY <1>1, <1>3, <2>1, <2>2, <2>3, <2>4, <2>5, NextRunIsRead
  <2>7. m.candidates \o s \in Seq(Found)
    BY <1>1, <2>4
  <2>8. PageInv(m1, C, K, d1)
    BY <1>1, <1>2, <1>3, <1>6, <2>1, <2>3, <2>6, <2>7, ReadingGoesOn DEF s
  <2>. QED BY <2>1, <2>8 DEF C, K, d1
<1>10. CASE EvaluateCost(e)
  <2>1. /\ m.pc = "evaluate" /\ m.rule = 2 /\ recs' = recs /\ known' = known
        /\ m1.pc = (IF m1.candidates = <<>> THEN "markCompleted" ELSE "persistRec")
        /\ \A k \in DOMAIN m1.candidates : m1.candidates[k].category = "cost_optimization"
    BY <1>1, <1>10, CostEvaluated DEF EvaluateCost
  <2>. HIDE DEF K
  <2>2. /\ \A r \in K : C[r] # {}
        /\ \A r \in Runs : \A i, j \in C[r] : i = j
    BY <1>5, <2>1 DEF PageInv
  <2>3. PageInv(m1, C, K, d1)
    BY <2>1, <2>2 DEF PageInv, Differ, Cites
  <2>. QED BY <2>1, <2>3 DEF C, K, d1
<1>11. CASE EmitsRec(e)
  <2>1. /\ m.pc = "emitRec" /\ m.candidates # <<>> /\ recs' = recs /\ known' = known
        /\ m1.candidates = Tail(m.candidates)
        /\ \/ m1.pc = "persistRec"
           \/ m1.candidates = <<>> /\ m1.pc = "evaluate" /\ m1.rule = 2
           \/ m1.candidates = <<>> /\ m1.pc = "markCompleted"
    BY <1>11 DEF EmitsRec
  <2>. HIDE DEF K
  <2>2. PageInv(m1, C, K, d)
    BY <1>1, <1>2, <1>3, <1>5, <2>1, CandidateDone
  <2>3. PageInv(m1, C, K, d1)
    BY <1>6, <2>2 DEF PageInv
  <2>. QED BY <2>1, <2>3 DEF C, K, d1
<1>12. CASE Relabels(e)
  <2>1. /\ m1.rule = m.rule /\ m1.list = m.list /\ m1.runs = m.runs
        /\ m1.candidates = m.candidates
        /\ \/ m.pc = "idle" /\ m1.pc = "emitStart"
           \/ m.pc = "emitStart" /\ m1.pc = "evaluate"
           \/ m.pc = "persistRec" /\ m1.pc = "emitRec" /\ PersistRec(e)
           \/ Closed(m1.pc)
        /\ recs' = recs \/ PersistRec(e)
        /\ known' = known \/ StartEngine(e)
    BY <1>12 DEF Relabels, Failing, Closed
  <2>2. CASE PersistRec(e)
    <3>1. /\ m.pc = "persistRec" /\ m.candidates # <<>> /\ recs' = Append(recs, Written(e))
      BY <1>1, <2>2 DEF PersistRec, Written, EngineInv, EngInv
    <3>2. /\ Written(e) \in Recommendations /\ Written(e).engine = e
          /\ Written(e).category = m.candidates[1].category
          /\ Written(e).subject = m.candidates[1].subject
      BY <1>1, <3>1, WrittenTyped
    <3>. DEFINE C1 == CitedBy(recs', e)
    <3>3. \A r \in Runs : C1[r] = IF Cites(m.candidates[1], r)
                                  THEN C[r] \union {Len(recs) + 1} ELSE C[r]
      <4>1. SUFFICES ASSUME NEW r \in Runs
                     PROVE  C1[r] = IF Cites(m.candidates[1], r)
                                    THEN C[r] \union {Len(recs) + 1} ELSE C[r]
        OBVIOUS
      <4>2. C1[r] = IF Written(e).engine = e /\ Cites(Written(e), r)
                    THEN C[r] \union {Len(recs) + 1} ELSE C[r]
        BY <1>1, <3>1, <3>2, CitedGrow DEF C
      <4>3. Cites(Written(e), r) <=> Cites(m.candidates[1], r)
        BY <3>2 DEF Cites
      <4>. HIDE DEF C1
      <4>. QED BY <3>2, <4>2, <4>3
    <3>4. known' = known
      BY <2>1, <3>1 DEF StartEngine
    <3>5. d1 => d
      BY <1>4, <3>1 DEF d, d1
    <3>. HIDE DEF C1, K
    <3>6. m1.pc = "emitRec" \/ Closed(m1.pc)
      BY <2>1, <3>1
    <3>7. PageInv(m1, C1, K, d1)
      <4>. DEFINE x == Len(recs) + 1
      <4>1. Gains(C1, C, m.candidates[1], x)
        BY <3>3 DEF Gains
      <4>2. m \in Memories /\ K \in SUBSET Runs
        BY <1>1, <1>3
      <4>. HIDE DEF x, m, m1
      <4>. QED BY <1>2, <1>5, <2>1, <3>1, <3>5, <3>6, <4>1, <4>2, CitationWritten
    <3>. QED BY <3>4, <3>7 DEF C1, K, d1
  <2>3. CASE recs' = recs /\ m.pc # "persistRec"
    <3>. DEFINE K1 == Strong(known'[e], evalRow, entries)
    <3>1. d1 => \A r \in K1 : C[r] # {}
      BY <1>6
    <3>2. K1 \in SUBSET Runs
      BY EngineMoves, <1>1 DEF Strong, EngineTypes
    <3>. HIDE DEF K1
    <3>. SUFFICES PageInv(m1, C, K1, d1)
      BY <2>3 DEF C, K1, d1
    <3>3. \A r \in Runs : \A i, j \in C[r] : i = j
      BY <1>5 DEF PageInv
    <3>4. CASE m.pc = "idle" /\ m1.pc = "emitStart"
      BY <1>5, <2>1, <3>1, <3>3, <3>4 DEF PageInv
    <3>5. CASE m.pc = "emitStart" /\ m1.pc = "evaluate"
      <4>1. /\ m.runs = <<>> /\ m.list = NoCursor /\ m.candidates = <<>> /\ m.rule = 1
            /\ \A r \in Runs : C[r] = {}
        BY <1>5, <3>5 DEF PageInv
      <4>2. \A r \in K1 : r < NoCursor
        BY <3>2, RunsAreNumbers
      <4>3. Reading(<<>>, NoCursor, <<>>, C, K1) /\ Differ(<<>>)
        BY <4>1, <4>2 DEF Reading, Differ
      <4>. QED BY <2>1, <3>1, <3>3, <3>5, <4>1, <4>3 DEF PageInv
    <3>6. CASE Closed(m1.pc)
      BY <3>1, <3>3, <3>6 DEF PageInv, Closed
    <3>. QED BY <2>1, <2>3, <3>4, <3>5, <3>6
  <2>4. CASE recs' = recs /\ m.pc = "persistRec" /\ ~PersistRec(e)
    <3>1. Closed(m1.pc) /\ known' = known
      BY <2>1, <2>4 DEF StartEngine
    <3>2. /\ \A r \in Runs : \A i, j \in C[r] : i = j
      BY <1>5 DEF PageInv
    <3>. HIDE DEF K
    <3>3. PageInv(m1, C, K, d1)
      BY <1>6, <3>1, <3>2 DEF PageInv, Closed
    <3>. QED BY <2>4, <3>1, <3>3 DEF C, K, d1
  <2>. QED BY <2>1, <2>2, <2>3, <2>4
<1>. QED BY <1>7, <1>8, <1>9, <1>10, <1>11, <1>12

(* So does every step. *)
LEMMA OnceStep == CoreInv /\ EvidInv /\ OnceInv /\ [Next]_vars => OnceInv'
<1>. SUFFICES ASSUME CoreInv, EvidInv, OnceInv, [Next]_vars PROVE OnceInv'
  OBVIOUS
<1>1. /\ EvalInv /\ EvalTypes /\ EngineInv /\ EngineTypes /\ recs \in Seq(Recommendations)
      /\ faults \in Nat
  BY DEF CoreInv, EvalInv, EvalTypes, EngineInv, EngineTypes
<1>2. CASE EvalNext /\ UNCHANGED <<engineVars, recs, userVars>>
  <2>1. Frozen(evalRow, evalRow', entries, entries')
    BY <1>1, <1>2, CompletedRunsStay DEF Frozen, CompletedStay, Completed
  <2>2. UNCHANGED <<engine, engineRow, known, recs>>
    BY <1>2 DEF engineVars
  <2>3. \A e \in Engines : Strong(known[e], evalRow', entries')
                         = Strong(known[e], evalRow, entries)
    BY <2>1, StrongStays DEF EvidInv, Informed
  <2>. QED BY <2>2, <2>3 DEF OnceInv
<1>3. ASSUME NEW e \in Engines, EngineSteps(e) PROVE OnceInv'
  <2>1. evalRow' = evalRow /\ entries' = entries
    BY <1>3 DEF EngineSteps, StartEngine, EngineProgress, ListRuns, InspectRun, EvaluateCost,
       EngineReturns, EngineRefused, EngineRaises, EngineDies, evalVars
  <2>2. /\ \A f \in Engines \ {e} : engine'[f] = engine[f] /\ known'[f] = known[f]
        /\ \A f \in Engines \ {e} : engineRow'[f] = engineRow[f]
    BY <1>1, <1>3, MemoryMoves, EngineMoves DEF OtherEnginesStay
  <2>3. ASSUME NEW f \in Engines \ {e} PROVE CitedBy(recs', f) = CitedBy(recs, f)
    <3>1. CASE PersistRec(e)
      <4>1. recs' = Append(recs, Written(e)) /\ engine[e].candidates # <<>>
        BY <1>1, <3>1 DEF PersistRec, Written, EngineInv, EngInv
      <4>2. Written(e) \in Recommendations /\ Written(e).engine # f
        BY <1>1, <4>1, WrittenTyped
      <4>3. \A r \in Runs : CitedBy(recs', f)[r] = CitedBy(recs, f)[r]
        BY <1>1, <4>1, <4>2, CitedGrow
      <4>. QED BY <4>3 DEF CitedBy
    <3>2. CASE recs' = recs
      BY <3>2
    <3>3. recs' = recs \/ PersistRec(e)
      BY <1>3 DEF EngineSteps, StartEngine, EngineProgress, ListRuns, InspectRun,
         EvaluateCost, EngineReturns, EngineRefused, EngineRaises, EngineDies, EngineCall,
         EmitEngineStart, EmitRec, MarkEngine, EmitEngineEnd
    <3>. QED BY <3>1, <3>2, <3>3
  <2>4. PageInv(engine'[e], CitedBy(recs', e), Strong(known'[e], evalRow, entries),
                engineRow'[e].status = "completed")
    BY <1>3, OnceEngine DEF OnceInv
  <2>. QED BY <2>1, <2>2, <2>3, <2>4 DEF OnceInv
<1>4. ASSUME NEW u \in Users, UserSteps(u) PROVE OnceInv'
  <2>1. /\ UNCHANGED <<evalVars, engineVars>> /\ Len(recs') = Len(recs)
        /\ \A i \in 1..Len(recs) : /\ recs'[i].engine = recs[i].engine
                                   /\ recs'[i].category = recs[i].category
                                   /\ recs'[i].subject = recs[i].subject
    BY <1>1, <1>4, UserMoves DEF CoreInv
  <2>2. UNCHANGED <<evalRow, entries, engine, engineRow, known>>
    BY <2>1 DEF evalVars, engineVars
  <2>3. \A e \in Engines : CitedBy(recs', e) = CitedBy(recs, e)
    BY <2>1, CitedStay
  <2>. QED BY <2>2, <2>3 DEF OnceInv
<1>5. CASE UNCHANGED vars
  BY <1>5 DEF vars, evalVars, engineVars, OnceInv
<1>6. CASE Next
  BY <1>2, <1>3, <1>4, <1>6 DEF Next, EngineSteps, UserSteps
<1>. QED BY <1>5, <1>6

(* At the beginning nothing is read. *)
LEMMA OnceStarts == Init => OnceInv
<1>. SUFFICES ASSUME Init, NEW e \in Engines
              PROVE  PageInv(engine[e], CitedBy(recs, e), Strong(known[e], evalRow, entries),
                             engineRow[e].status = "completed")
  BY DEF OnceInv
<1>1. /\ engine[e].pc = "idle" /\ engine[e].runs = <<>> /\ engine[e].list = NoCursor
      /\ engine[e].candidates = <<>> /\ engine[e].rule = 1 /\ engineRow[e].status = "none"
  BY DEF Init
<1>2. recs = <<>> /\ Len(recs) = 0
  BY DEF Init
<1>3. \A r \in Runs : CitedBy(recs, e)[r] = {}
  BY <1>2 DEF CitedBy
<1>. QED BY <1>1, <1>3 DEF PageInv

(* At every label an engine run knows of each run it must not miss: it is still
   to be read, or a candidate, or cited, and cited once. *)
THEOREM PagesAreRead == Spec => []OnceInv
BY OnceStarts, OnceStep, Invariance, EvidenceIsKept, PTL DEF Spec

(* A set without two elements has at most one. *)
LEMMA AtMostOne ==
    ASSUME NEW S, \A i, j \in S : i = j
    PROVE  Cardinality(S) <= 1
<1>1. CASE S = {}
  BY <1>1, FS_EmptySet
<1>2. ASSUME NEW x \in S PROVE Cardinality(S) = 1
  <2>1. S = {x}
    BY <1>2
  <2>. QED BY <2>1, FS_Singleton
<1>. QED BY <1>1, <1>2

(* Whatever the page size, and though runs start and end while it pages through
   them, an engine run recommends from no run twice and misses none that was
   complete when it began. *)
THEOREM EvidenceIsConsidered == Spec => []ConsidersEvidenceOnce
<1>1. CoreInv /\ OnceInv => ConsidersEvidenceOnce
  <2>. SUFFICES ASSUME CoreInv, OnceInv, NEW e \in Engines, NEW r \in Runs
                PROVE  /\ Cardinality(CitationsOf(e, r)) <= 1
                       /\ /\ engineRow[e].status = "completed" /\ r \in known[e]
                          /\ Delta(r) > Threshold * entries[r]
                          => CitationsOf(e, r) # {}
    BY DEF ConsidersEvidenceOnce
  <2>1. CitationsOf(e, r) = CitedBy(recs, e)[r]
    BY DEF CoreInv, EngineInv, EngineTypes, CitationsOf, RecsOf, CitedBy, Cites
  <2>2. \A i, j \in CitationsOf(e, r) : i = j
    BY <2>1 DEF OnceInv, PageInv
  <2>3. r \in known[e] /\ Delta(r) > Threshold * entries[r]
           => r \in Strong(known[e], evalRow, entries)
    BY DEF Strong, Delta
  <2>4. engineRow[e].status = "completed" =>
           \A q \in Strong(known[e], evalRow, entries) : CitedBy(recs, e)[q] # {}
    BY DEF OnceInv, PageInv
  <2>. QED BY <2>1, <2>2, <2>3, <2>4, AtMostOne
<1>. QED BY <1>1, Invariance, PagesAreRead, PTL

-----------------------------------------------------------------------------
(* Evaluation runs and engine runs as TrackedRuns sees them. *)
Ids == Runs \union Engines
TrackedStatus == [i \in Ids |-> IF i \in Runs THEN evalRow[i].status ELSE engineRow[i].status]
TrackedRecords ==
    [i \in Ids |-> IF i \in Runs THEN <<evalRow[i].results, evalRow[i].aggregates>>
                   ELSE {<<k, recs[k].category, recs[k].subject>> : k \in RecsOf(i)}]
TrackedEnded == [i \in Ids |-> IF i \in Runs THEN evalAudit[i].ended ELSE engineAudit[i].ended]

\* What may happen to the status, the records and the terminal events of a run.
GoesOn(s, s1, r, r1, a, a1) ==
    \/ s1 = s /\ r1 = r /\ a1 = a
    \/ s = "none" /\ s1 = "running" /\ r1 = r /\ a1 = a
    \/ s = "running" /\ s1 = s /\ a1 = a
    \/ s = "running" /\ s1 \in {"completed", "failed"} /\ r1 = r /\ a1 = a
    \/ s \in {"completed", "failed"} /\ a = <<>> /\ a1 = <<s>> /\ s1 = s /\ r1 = r

(* What goes on with one run is a step of TrackedRuns. *)
LEMMA TrackedStep ==
    ASSUME NEW i \in Ids,
           GoesOn(TrackedStatus[i], TrackedStatus'[i], TrackedRecords[i], TrackedRecords'[i],
                  TrackedEnded[i], TrackedEnded'[i]),
           \A j \in Ids \ {i} : /\ TrackedStatus'[j] = TrackedStatus[j]
                                /\ TrackedRecords'[j] = TrackedRecords[j]
                                /\ TrackedEnded'[j] = TrackedEnded[j]
    PROVE  [Tracked!Next]_(Tracked!vars)
<1>. DEFINE s == TrackedStatus
            r == TrackedRecords
            a == TrackedEnded
<1>1. /\ DOMAIN s = Ids /\ DOMAIN s' = Ids /\ DOMAIN r = Ids /\ DOMAIN r' = Ids
      /\ DOMAIN a = Ids /\ DOMAIN a' = Ids
      /\ s = [j \in Ids |-> s[j]] /\ s' = [j \in Ids |-> s'[j]]
      /\ r = [j \in Ids |-> r[j]] /\ r' = [j \in Ids |-> r'[j]]
      /\ a = [j \in Ids |-> a[j]] /\ a' = [j \in Ids |-> a'[j]]
  BY DEF TrackedStatus, TrackedRecords, TrackedEnded
<1>2. /\ Tracked!Start(i) <=> /\ s[i] = "none" /\ s' = [s EXCEPT ![i] = "running"]
                              /\ r' = r /\ a' = a
      /\ Tracked!Write(i) <=> /\ s[i] = "running" /\ \A j \in Ids \ {i} : r'[j] = r[j]
                              /\ s' = s /\ a' = a
      /\ Tracked!Finish(i) <=> /\ s[i] = "running"
                               /\ \E t \in {"completed", "failed"} : s' = [s EXCEPT ![i] = t]
                               /\ r' = r /\ a' = a
      /\ Tracked!AuditEnd(i) <=> /\ s[i] \in {"completed", "failed"} /\ a[i] = <<>>
                                 /\ a' = [a EXCEPT ![i] = <<s[i]>>] /\ s' = s /\ r' = r
  BY DEF Tracked!Start, Tracked!Write, Tracked!Finish, Tracked!AuditEnd, Ids, TrackedStatus,
     TrackedRecords, TrackedEnded
<1>3. Tracked!Start(i) \/ Tracked!Write(i) \/ Tracked!Finish(i) \/ Tracked!AuditEnd(i)
         => Tracked!Next
  BY DEF Tracked!Next, Ids
<1>4. s' = s /\ r' = r /\ a' = a => UNCHANGED Tracked!vars
  BY DEF Tracked!vars, Ids, TrackedStatus, TrackedRecords, TrackedEnded
<1>. HIDE DEF s, r, a
<1>5. /\ s'[i] = s[i] => s' = s
      /\ r'[i] = r[i] => r' = r
      /\ a'[i] = a[i] => a' = a
      /\ \A t : s'[i] = t => s' = [s EXCEPT ![i] = t]
      /\ \A t : a'[i] = t => a' = [a EXCEPT ![i] = t]
  BY <1>1 DEF s, r, a
<1>6. GoesOn(s[i], s'[i], r[i], r'[i], a[i], a'[i]) /\ \A j \in Ids \ {i} : r'[j] = r[j]
  BY DEF s, r, a
<1>7. \/ s' = s /\ r' = r /\ a' = a
      \/ Tracked!Start(i) \/ Tracked!Write(i) \/ Tracked!Finish(i) \/ Tracked!AuditEnd(i)
  BY <1>2, <1>5, <1>6 DEF GoesOn
<1>. QED BY <1>3, <1>4, <1>7

(* What TrackedRuns sees of a run of either kind. *)
LEMMA TrackedFields ==
    /\ \A r \in Runs : /\ TrackedStatus[r] = evalRow[r].status
                       /\ TrackedRecords[r] = <<evalRow[r].results, evalRow[r].aggregates>>
                       /\ TrackedEnded[r] = evalAudit[r].ended
    /\ \A e \in Engines : /\ TrackedStatus[e] = engineRow[e].status
                          /\ TrackedRecords[e] =
                                {<<k, recs[k].category, recs[k].subject>> : k \in RecsOf(e)}
                          /\ TrackedEnded[e] = engineAudit[e].ended
    /\ Runs \subseteq Ids /\ Engines \subseteq Ids
BY OptimizationAssumption DEF Ids, TrackedStatus, TrackedRecords, TrackedEnded

(* The same, after a step. *)
LEMMA TrackedFieldsNext ==
    /\ \A r \in Runs : /\ TrackedStatus'[r] = evalRow'[r].status
                       /\ TrackedRecords'[r] = <<evalRow'[r].results, evalRow'[r].aggregates>>
                       /\ TrackedEnded'[r] = evalAudit'[r].ended
    /\ \A e \in Engines : /\ TrackedStatus'[e] = engineRow'[e].status
                          /\ TrackedRecords'[e] =
                                {<<k, recs'[k].category, recs'[k].subject>> : k \in RecsOf(e)'}
                          /\ TrackedEnded'[e] = engineAudit'[e].ended
BY OptimizationAssumption DEF Ids, TrackedStatus, TrackedRecords, TrackedEnded

\* An evaluation run goes on as a tracked run does.
LEMMA EvaluationGoesOn ==
    ASSUME EvalInv, NEW r \in Runs,
           PersistRun(r) \/ Returns(r) \/ Raises(r) \/ MarkRefused(r) \/ Dies(r)
    PROVE  LET row == evalRow[r]
               row1 == evalRow'[r]
           IN  GoesOn(row.status, row1.status, <<row.results, row.aggregates>>,
                      <<row1.results, row1.aggregates>>, evalAudit[r].ended,
                      evalAudit'[r].ended)
<1>. DEFINE row == evalRow[r]
            row1 == evalRow'[r]
            a == evalAudit[r]
            a1 == evalAudit'[r]
            Goal == GoesOn(row.status, row1.status, <<row.results, row.aggregates>>,
                           <<row1.results, row1.aggregates>>, a.ended, a1.ended)
<1>1. /\ evalRow \in [Runs -> Rows] /\ evalAudit \in [Runs -> Trails]
      /\ row \in Rows /\ a \in Trails /\ a.ended \in Seq({"completed", "failed"})
      /\ Fits(evalPc[r], row.status, a.ended)
  BY FieldTypes DEF EvalInv, EvalTypes, RunInv
<1>2. CASE PersistRun(r)
  <2>1. /\ evalRow' = [evalRow EXCEPT ![r].status = "running"] /\ evalAudit' = evalAudit
        /\ row.status = "none"
    BY <1>1, <1>2 DEF PersistRun, Fits
  <2>2. row1.status = "running" /\ row1.results = row.results /\ row1.aggregates = row.aggregates
    BY <1>1, <2>1 DEF Rows
  <2>. QED BY <2>1, <2>2 DEF GoesOn
<1>3. CASE row1 = row /\ a1 = a
  BY <1>3 DEF GoesOn
<1>4. CASE EmitStart(r) \/ EmitResult(r) \/ EmitAggregate(r)
  <2>1. evalRow' = evalRow
    BY <1>4 DEF EmitStart, EmitResult, EmitAggregate
  <2>2. a1.ended = a.ended
    BY <1>1, <1>4 DEF EmitStart, EmitResult, EmitAggregate, Trails
  <2>. QED BY <2>1, <2>2 DEF GoesOn
<1>5. CASE PersistResult(r) \/ PersistAggregate(r)
  <2>1. row.status = "running" /\ evalAudit' = evalAudit
    BY <1>1, <1>5 DEF PersistResult, PersistAggregate, Fits, Trying
  <2>2. row1.status = row.status
    BY <1>1, <1>5 DEF PersistResult, PersistAggregate, Rows
  <2>. QED BY <2>1, <2>2 DEF GoesOn
<1>6. CASE MarkCompleted(r) \/ MarkFailed(r)
  <2>1. PICK t \in {"completed", "failed"} :
           evalRow' = [evalRow EXCEPT ![r].status = t]
    BY <1>6 DEF MarkCompleted, MarkFailed
  <2>2. evalAudit' = evalAudit /\ row.status = "running"
    BY <1>6 DEF MarkCompleted, MarkFailed
  <2>3. row1.status = t /\ row1.results = row.results /\ row1.aggregates = row.aggregates
    BY <1>1, <2>1 DEF Rows
  <2>. QED BY <2>2, <2>3 DEF GoesOn
<1>7. CASE EmitEnd(r)
  <2>1. /\ evalRow' = evalRow /\ row.status \in {"completed", "failed"} /\ a.ended = <<>>
        /\ evalAudit' = [evalAudit EXCEPT ![r].ended = Append(@, row.status)]
    BY <1>1, <1>7 DEF EmitEnd, Fits
  <2>2. a1.ended = Append(a.ended, row.status)
    BY <1>1, <2>1 DEF Trails
  <2>3. a1.ended = <<row.status>>
    BY <2>1, <2>2
  <2>. QED BY <2>1, <2>3 DEF GoesOn
<1>8. Call(r) \/ PersistRun(r) \/ (evalRow' = evalRow /\ evalAudit' = evalAudit)
  BY DEF Returns, Raises, MarkRefused, Dies
<1>. QED BY <1>2, <1>3, <1>4, <1>5, <1>6, <1>7, <1>8 DEF Call

\* So does an engine run.
LEMMA EngineGoesOn ==
    ASSUME EngineInv, NEW e \in Engines, EngineSteps(e),
           NEW r, NEW r1, r1 = r \/ PersistRec(e)
    PROVE  GoesOn(engineRow[e].status, engineRow'[e].status, r, r1, engineAudit[e].ended,
                  engineAudit'[e].ended)
<1>. DEFINE row == engineRow[e]
            row1 == engineRow'[e]
            a == engineAudit[e]
            a1 == engineAudit'[e]
<1>1. /\ engineRow \in [Engines -> EngineRows] /\ engineAudit \in [Engines -> EngineTrails]
      /\ row \in EngineRows /\ a \in EngineTrails /\ a.ended \in Seq({"completed", "failed"})
      /\ Fits(engine[e].pc, row.status, a.ended)
  BY EngineRowTypes DEF EngineInv, EngineTypes, EngInv, EngFields
<1>2. CASE StartEngine(e)
  <2>1. /\ engineRow' = [engineRow EXCEPT ![e].status = "running"] /\ engineAudit' = engineAudit
        /\ row.status = "none" /\ ~PersistRec(e)
    BY <1>1, <1>2 DEF StartEngine, Fits, PersistRec
  <2>2. row1.status = "running"
    BY <1>1, <2>1 DEF EngineRows
  <2>. QED BY <2>1, <2>2 DEF GoesOn
<1>3. CASE PersistRec(e)
  <2>1. engineRow' = engineRow /\ engineAudit' = engineAudit /\ row.status = "running"
    BY <1>1, <1>3 DEF PersistRec, Fits, Trying
  <2>. QED BY <2>1 DEF GoesOn
<1>4. CASE r1 = r /\ engineRow' = engineRow /\ engineAudit' = engineAudit
  BY <1>4 DEF GoesOn
<1>5. CASE r1 = r /\ (EmitEngineStart(e) \/ EmitRec(e))
  <2>1. engineRow' = engineRow
    BY <1>5 DEF EmitEngineStart, EmitRec
  <2>2. a1.ended = a.ended
    BY <1>1, <1>5 DEF EmitEngineStart, EmitRec, EngineTrails
  <2>. QED BY <1>5, <2>1, <2>2 DEF GoesOn
<1>6. CASE r1 = r /\ MarkEngine(e)
  <2>1. row.status = "running" /\ engineAudit' = engineAudit
    BY <1>6 DEF MarkEngine
  <2>2. row1.status \in {"completed", "failed"}
    BY <1>1, <1>6 DEF MarkEngine, EngineRows
  <2>. QED BY <1>6, <2>1, <2>2 DEF GoesOn
<1>7. CASE r1 = r /\ EmitEngineEnd(e)
  <2>1. /\ engineRow' = engineRow /\ row.status \in {"completed", "failed"} /\ a.ended = <<>>
        /\ engineAudit' = [engineAudit EXCEPT ![e].ended = Append(@, row.status)]
    BY <1>1, <1>7 DEF EmitEngineEnd, Fits
  <2>2. a1.ended = Append(a.ended, row.status)
    BY <1>1, <2>1 DEF EngineTrails
  <2>3. a1.ended = <<row.status>>
    BY <2>1, <2>2
  <2>. QED BY <1>7, <2>1, <2>3 DEF GoesOn
<1>8. \/ StartEngine(e) \/ PersistRec(e) \/ EmitEngineStart(e) \/ EmitRec(e) \/ MarkEngine(e)
      \/ EmitEngineEnd(e) \/ (engineRow' = engineRow /\ engineAudit' = engineAudit)
  BY DEF EngineSteps, EngineProgress, ListRuns, InspectRun, EvaluateCost, EngineReturns,
     EngineRefused, EngineRaises, EngineDies, EngineCall
<1>. QED BY <1>2, <1>3, <1>4, <1>5, <1>6, <1>7, <1>8

\* The records of an engine run that writes no recommendation.
LEMMA RecordsStay ==
    ASSUME NEW e \in Engines, RecsOf(e)' = RecsOf(e),
           \A k \in RecsOf(e) : /\ recs'[k].category = recs[k].category
                                /\ recs'[k].subject = recs[k].subject
    PROVE  TrackedRecords'[e] = TrackedRecords[e]
<1>1. {<<k, recs'[k].category, recs'[k].subject>> : k \in RecsOf(e)'}
      = {<<k, recs[k].category, recs[k].subject>> : k \in RecsOf(e)}
  OBVIOUS
<1>. QED BY <1>1, TrackedFields, TrackedFieldsNext

(* Every step is a step of TrackedRuns, or none. *)
LEMMA TrackedNext == CoreInv /\ [Next]_vars => [Tracked!Next]_(Tracked!vars)
<1>. SUFFICES ASSUME CoreInv, [Next]_vars PROVE [Tracked!Next]_(Tracked!vars)
  OBVIOUS
<1>1. /\ EvalInv /\ EvalTypes /\ EngineInv /\ EngineTypes /\ recs \in Seq(Recommendations)
      /\ faults \in Nat /\ UserInv
  BY DEF CoreInv, EvalInv, EvalTypes, EngineInv, EngineTypes
<1>2. ASSUME UNCHANGED <<evalRow, evalAudit, engineRow, engineAudit, recs>>
      PROVE  [Tracked!Next]_(Tracked!vars)
  <2>1. UNCHANGED Tracked!vars
    BY <1>2 DEF Tracked!vars, RecsOf
  <2>. QED BY <2>1
<1>3. CASE EvalNext /\ UNCHANGED <<engineVars, recs, userVars>>
  <2>1. PICK r \in Runs : PersistRun(r) \/ Returns(r) \/ Raises(r) \/ MarkRefused(r) \/ Dies(r)
    BY <1>3 DEF EvalNext
  <2>2. OtherRunsStay(r)
    BY <1>1, <2>1, RunsMove
  <2>3. UNCHANGED <<engineRow, engineAudit, recs>>
    BY <1>3 DEF engineVars
  <2>4. \A e \in Engines : RecsOf(e)' = RecsOf(e)
    BY <2>3 DEF RecsOf
  <2>5. ASSUME NEW j \in Ids \ {r}
        PROVE  /\ TrackedStatus'[j] = TrackedStatus[j]
               /\ TrackedRecords'[j] = TrackedRecords[j] /\ TrackedEnded'[j] = TrackedEnded[j]
    <3>1. CASE j \in Runs
      BY <2>2, <3>1, TrackedFields, TrackedFieldsNext DEF OtherRunsStay
    <3>2. CASE j \in Engines
      BY <2>3, <2>4, <3>2, RecordsStay, TrackedFields, TrackedFieldsNext
    <3>. QED BY <3>1, <3>2 DEF Ids
  <2>6. GoesOn(TrackedStatus[r], TrackedStatus'[r], TrackedRecords[r], TrackedRecords'[r],
               TrackedEnded[r], TrackedEnded'[r])
    BY <1>1, <2>1, EvaluationGoesOn, TrackedFields, TrackedFieldsNext
  <2>. QED BY <2>5, <2>6, TrackedFields, TrackedStep
<1>4. ASSUME NEW e \in Engines, EngineSteps(e) PROVE [Tracked!Next]_(Tracked!vars)
  <2>1. UNCHANGED <<evalRow, evalAudit>> /\ (recs' = recs \/ PersistRec(e))
    BY <1>4 DEF EngineSteps, StartEngine, EngineProgress, ListRuns, InspectRun, EvaluateCost,
       EngineReturns, EngineRefused, EngineRaises, EngineDies, EngineCall, EmitEngineStart,
       EmitRec, MarkEngine, EmitEngineEnd, evalVars
  <2>2. OtherEnginesStay(e) /\ (recs' = recs => RecsOf(e)' = RecsOf(e))
    BY <1>1, <1>4, EngineMoves DEF RecsOf
  <2>3. \A k \in 1..Len(recs) : recs'[k] = recs[k]
    <3>1. ASSUME PersistRec(e) PROVE \A k \in 1..Len(recs) : recs'[k] = recs[k]
      <4>1. recs' = Append(recs, Written(e)) /\ engine[e].candidates # <<>>
        BY <1>1, <3>1 DEF PersistRec, Written, EngineInv, EngInv
      <4>2. Written(e) \in Recommendations
        BY <1>1, <4>1, WrittenTyped
      <4>. QED BY <1>1, <4>1, <4>2, Appended
    <3>. QED BY <2>1, <3>1
  <2>4. \A f \in Engines : RecsOf(f) \subseteq 1..Len(recs)
    BY <1>1 DEF RecsOf
  <2>5. ASSUME NEW j \in Ids \ {e}
        PROVE  /\ TrackedStatus'[j] = TrackedStatus[j]
               /\ TrackedRecords'[j] = TrackedRecords[j] /\ TrackedEnded'[j] = TrackedEnded[j]
    <3>1. CASE j \in Runs
      BY <2>1, <3>1, TrackedFields, TrackedFieldsNext
    <3>2. CASE j \in Engines
      <4>1. TrackedRecords'[j] = TrackedRecords[j]
        BY <2>2, <2>3, <2>4, <3>2, RecordsStay DEF OtherEnginesStay
      <4>. QED BY <2>2, <3>2, <4>1, TrackedFields, TrackedFieldsNext DEF OtherEnginesStay
    <3>. QED BY <3>1, <3>2 DEF Ids
  <2>6. TrackedRecords'[e] = TrackedRecords[e] \/ PersistRec(e)
    BY <2>1, <2>2, <2>3, <2>4, RecordsStay
  <2>7. GoesOn(TrackedStatus[e], TrackedStatus'[e], TrackedRecords[e], TrackedRecords'[e],
               TrackedEnded[e], TrackedEnded'[e])
    BY <1>1, <1>4, <2>6, EngineGoesOn, TrackedFields, TrackedFieldsNext
  <2>. QED BY <2>5, <2>7, TrackedFields, TrackedStep
<1>5. ASSUME NEW u \in Users, UserSteps(u) PROVE [Tracked!Next]_(Tracked!vars)
  <2>1. /\ UNCHANGED <<evalVars, engineVars>> /\ Len(recs') = Len(recs)
        /\ \A e \in Engines : RecsOf(e)' = RecsOf(e)
        /\ \A i \in 1..Len(recs) : /\ recs'[i].category = recs[i].category
                                   /\ recs'[i].subject = recs[i].subject
    BY <1>1, <1>5, UserMoves
  <2>2. UNCHANGED <<evalRow, evalAudit, engineRow, engineAudit>>
    BY <2>1 DEF evalVars, engineVars
  <2>3. \A e \in Engines : TrackedRecords'[e] = TrackedRecords[e]
    BY <1>1, <2>1, RecordsStay DEF RecsOf
  <2>4. \A j \in Ids : /\ TrackedStatus'[j] = TrackedStatus[j]
                       /\ TrackedRecords'[j] = TrackedRecords[j]
                       /\ TrackedEnded'[j] = TrackedEnded[j]
    BY <2>2, <2>3, TrackedFields, TrackedFieldsNext DEF Ids
  <2>5. UNCHANGED <<TrackedStatus, TrackedRecords, TrackedEnded>>
    BY <2>4 DEF TrackedStatus, TrackedRecords, TrackedEnded
  <2>6. UNCHANGED Tracked!vars
    BY <2>5 DEF Tracked!vars, TrackedStatus, TrackedRecords, TrackedEnded, Ids
  <2>. QED BY <2>6
<1>6. CASE UNCHANGED vars
  BY <1>2, <1>6 DEF vars, evalVars, engineVars
<1>7. CASE Next
  BY <1>3, <1>4, <1>5, <1>7 DEF Next, EngineSteps, UserSteps
<1>. QED BY <1>6, <1>7

(* Evaluation runs and engine runs keep the promise of TrackedRuns: they end
   once, write nothing after that, and the event that ends the trail agrees with
   the row. *)
THEOREM RunsAreTracked == Spec => ImplementTrackedRuns
<1>1. Init => Tracked!Init
  <2>. SUFFICES ASSUME Init PROVE Tracked!Init
    OBVIOUS
  <2>1. ASSUME NEW e \in Engines
        PROVE  engineRow[e].status = "none" /\ engineAudit[e].ended = <<>>
    <3>1. /\ engineRow[e] = [status |-> "none", skipped |-> {}]
          /\ engineAudit[e] = [start |-> 0, recs |-> 0, ended |-> <<>>]
      BY DEF Init
    <3>. QED BY <3>1
  <2>2. ASSUME NEW r \in Runs PROVE evalRow[r].status = "none" /\ evalAudit[r].ended = <<>>
    <3>1. /\ evalRow[r] = [status |-> "none", results |-> <<>>, aggregates |-> <<>>]
          /\ evalAudit[r] = [start |-> 0, results |-> 0, aggregates |-> 0, ended |-> <<>>]
      BY DEF Init, EvalInit
    <3>. QED BY <3>1
  <2>. QED BY <2>1, <2>2 DEF Tracked!Init
<1>. QED BY <1>1, TrackedNext, Invariance, PTL DEF Spec, ImplementTrackedRuns, Tracked!Spec
=============================================================================
