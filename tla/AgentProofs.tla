----------------------------- MODULE AgentProofs -----------------------------
(***************************************************************************)
(* Theorems about AgentRun for every cap on the iterations, every set of   *)
(* costs and citations and any number of tool calls: what the two          *)
(* generators tally separately agrees, and the run row is a projection of  *)
(* the audit chain.  And about AgentConversation, for streams of any       *)
(* length: the tool calls dispatched are those sent, and every request the *)
(* provider gets has its earlier calls answered.                           *)
(***************************************************************************)
EXTENDS AgentConversation, TLAPS, FiniteSetTheorems

Before == {"resolve", "auditStart"}
InLoop == {"loop", "iterate", "stream", "propose", "invoke", "executing"}
Inside == InLoop \union {"iterationEnd", "auditEnd"}
Ended == {"done", "raised"}

(* Where the generators are says which rows exist and why the loop is left. *)
Control ==
    /\ pc \in Before => starts = 0
    /\ pc \in Inside => starts = 1
    /\ pc \in Before \union Inside => ends = {}
    /\ pc \notin Ended => runs = {} /\ results = {}
    /\ pc \in Before \union InLoop => reason = NoReason
    /\ pc = "auditEnd" => reason \in Reasons
    /\ pc \in Inside \ {"loop"} => iteration > 0
    /\ pc \in {"invoke", "executing"} => calls > 0

(* The terminal event carries the hashes of rows that exist. *)
Answer ==
    pc = "terminal" =>
        /\ event.hashes > 0 => starts = 1
        /\ event.hashes = 2 => /\ event.kind # "InvocationFailed"
                               /\ ends = {EndRow} /\ reason \in Reasons
        /\ event.hashes # 2 => /\ event.kind = "InvocationFailed"

(* invoke_agent counts what the executor counts. *)
Tallies == acc.iterations = iteration /\ acc.cost = costTotal

(* The cost of a chunk enters the total when its iteration ends. *)
Charged ==
    /\ pc \in {"propose", "invoke", "executing", "iterationEnd"}
           => spent = costTotal + chunkCost
    /\ pc \in Before \union {"loop", "iterate", "stream", "auditEnd"}
           => spent = costTotal
    /\ pc = "terminal"
           => \/ spent = costTotal
              \/ event.kind = "InvocationFailed" /\ spent = costTotal + chunkCost

Cited == \A c \in Citations : acc.cites[c] = IF c \in retrieved THEN 1 ELSE 0

IInv == /\ TypeOK /\ Control /\ Answer /\ Tallies /\ Charged /\ Cited
        /\ ProjectsTheAudit /\ ReportsItsCost /\ CitesWhatWasRetrieved

-----------------------------------------------------------------------------
LEMMA InitIInv == Init => IInv
<1>. SUFFICES ASSUME Init PROVE IInv
  OBVIOUS
<1>1. TypeOK
  BY AgentAssumption DEF Init, TypeOK, Tally, NoCitations, Terminal, NoReason
<1>2. Control /\ Answer /\ Tallies /\ Charged
  BY DEF Init, Control, Answer, Tallies, Charged, Before, InLoop, Inside,
         Ended, NoReason
<1>3. Cited
  BY DEF Init, Cited, NoCitations
<1>4. ProjectsTheAudit /\ ReportsItsCost /\ CitesWhatWasRetrieved
  BY DEF Init, ProjectsTheAudit, ReportsItsCost, CitesWhatWasRetrieved
<1>. QED BY <1>1, <1>2, <1>3, <1>4 DEF IInv

(* Absorbing candidates keeps the tally typed and its other fields. *)
LEMMA AbsorbKeeps ==
    ASSUME NEW C, acc \in Tally
    PROVE  /\ Absorb(C) \in Tally
           /\ Absorb(C).iterations = acc.iterations
           /\ Absorb(C).cost = acc.cost
           /\ \A c \in Citations : Absorb(C).cites[c] =
                 IF c \in C /\ acc.cites[c] = 0 THEN 1 ELSE acc.cites[c]
<1>. DEFINE f == [c \in Citations |->
                    IF c \in C /\ acc.cites[c] = 0 THEN 1 ELSE acc.cites[c]]
<1>1. acc.cites \in [Citations -> Nat]
  BY DEF Tally
<1>2. f \in [Citations -> Nat]
  BY <1>1
<1>3. Absorb(C) = [acc EXCEPT !.cites = f]
  BY DEF Absorb
<1>4. \A c \in Citations :
         f[c] = IF c \in C /\ acc.cites[c] = 0 THEN 1 ELSE acc.cites[c]
  OBVIOUS
<1>. HIDE DEF f
<1>. QED BY <1>2, <1>3, <1>4 DEF Tally

(* A run row made of a typed state is typed. *)
LEMMA RunRowTyped ==
    ASSUME IInv, pc = "terminal"
    PROVE  RunRow \in Run /\ [RunRow EXCEPT !.cites = NoCitations] \in Run
<1>1. acc.cites \in [Citations -> Nat] /\ NoCitations \in [Citations -> Nat]
  BY DEF IInv, TypeOK, Tally, NoCitations
<1>2. acc.iterations \in 0..MaxIterations /\ acc.cost \in Nat
  BY DEF IInv, TypeOK, Tally
<1>3. event.kind # "InvocationFailed" => reason \in Reasons
  BY DEF IInv, Answer
<1>. DEFINE why == IF event.kind = "InvocationFailed" THEN "failed" ELSE reason
<1>. DEFINE cost == IF event.kind = "InvocationCompleted" THEN costTotal
                    ELSE acc.cost
<1>. DEFINE hasEnd == IF event.hashes = 2 THEN 1 ELSE 0
<1>4. why \in Reasons \union {"failed"} /\ cost \in Nat /\ hasEnd \in 0..1
  BY <1>2, <1>3 DEF IInv, TypeOK
<1>5. RunRow = [reason |-> why, iterations |-> acc.iterations, cost |-> cost,
                hasEnd |-> hasEnd, cites |-> acc.cites]
  BY DEF RunRow
<1>. HIDE DEF why, cost, hasEnd
<1>. QED BY <1>1, <1>2, <1>4, <1>5 DEF Run

-----------------------------------------------------------------------------
(* One step of the generators keeps the types. *)
LEMMA StepTypes == IInv /\ [Next]_vars => TypeOK'
<1>. SUFFICES ASSUME IInv, [Next]_vars PROVE TypeOK'
  OBVIOUS
<1>. USE AgentAssumption DEF IInv, tallies, audit, output, Goto, Yield,
         YieldTerminal
<1>. USE DEF TypeOK, Terminal
<1>1. CASE Resolve \/ Refuse \/ SkipRecord \/ RecordFails \/ Leave
  BY <1>1 DEF Resolve, Refuse, SkipRecord, RecordFails, Leave
<1>2. CASE EmitStart \/ EmitStartFails
  BY <1>2 DEF EmitStart, EmitStartFails, LoseAck, Control, Before
<1>3. CASE EmitEnd \/ EmitEndFails
  <2>1. EndRow \in Row
    BY <1>3 DEF EmitEnd, EmitEndFails, Control, Inside, EndRow, Row
  <2>. QED BY <1>3, <2>1 DEF EmitEnd, EmitEndFails, LoseAck
<1>4. CASE StartIteration
  BY <1>4 DEF StartIteration, Tally
<1>5. CASE CapReached \/ CallLLM \/ Delta \/ LLMFails
  BY <1>5 DEF CapReached, CallLLM, Delta, LLMFails, Reasons
<1>6. CASE FinalChunk
  <2>1. CASE \E c \in Costs : FinalChunkContent(c)
    BY <2>1 DEF FinalChunkContent, AddCost, Tally, Reasons
  <2>2. CASE \E c \in Costs : \E n \in 1..MaxCalls : FinalChunkTools(c, n)
    BY <2>2 DEF FinalChunkTools
  <2>. QED BY <1>6, <2>1, <2>2 DEF FinalChunk
<1>7. CASE Propose \/ ToolAnswers
  BY <1>7 DEF Propose, ToolAnswers, InvokeTool, RefuseTool, ToolRaises, Reasons
<1>8. CASE CompleteTool
  <2>1. acc' \in Tally
    BY <1>8, AbsorbKeeps DEF CompleteTool
  <2>. QED BY <1>8, <2>1 DEF CompleteTool, Control
<1>9. CASE CompleteIteration
  BY <1>9 DEF CompleteIteration, AddCost, Tally
<1>10. CASE RecordRun \/ Collect
  BY <1>10, RunRowTyped DEF RecordRun, Collect
<1>11. CASE Finished \/ UNCHANGED vars
  BY <1>11 DEF Finished, vars
<1>. QED BY <1>1, <1>2, <1>3, <1>4, <1>5, <1>6, <1>7, <1>8, <1>9, <1>10,
            <1>11 DEF Next, Progress

(* It keeps the control part, the answer and both pairs of totals. *)
LEMMA StepControl ==
    IInv /\ [Next]_vars => Control' /\ Answer' /\ Tallies' /\ Charged'
<1>. SUFFICES ASSUME IInv, [Next]_vars
              PROVE  Control' /\ Answer' /\ Tallies' /\ Charged'
  OBVIOUS
<1>. USE AgentAssumption DEF IInv, tallies, audit, output, Goto, Yield,
         YieldTerminal, Control, Answer, Tallies, Charged, Before, InLoop,
         Inside, Ended, EndRow
<1>1. CASE Resolve \/ Refuse \/ SkipRecord \/ RecordFails \/ Leave
  BY <1>1 DEF Resolve, Refuse, SkipRecord, RecordFails, Leave
<1>2. CASE EmitStart \/ EmitStartFails
  BY <1>2 DEF EmitStart, EmitStartFails, LoseAck, TypeOK
<1>3. CASE EmitEnd \/ EmitEndFails
  BY <1>3 DEF EmitEnd, EmitEndFails, LoseAck, TypeOK
<1>4. CASE StartIteration
  BY <1>4 DEF StartIteration, TypeOK, Tally
<1>5. CASE CapReached \/ CallLLM \/ Delta \/ LLMFails
  BY <1>5 DEF CapReached, CallLLM, Delta, LLMFails, TypeOK, Reasons
<1>6. CASE FinalChunk
  <2>1. CASE \E c \in Costs : FinalChunkContent(c)
    BY <2>1 DEF FinalChunkContent, AddCost, TypeOK, Tally, Reasons
  <2>2. CASE \E c \in Costs : \E n \in 1..MaxCalls : FinalChunkTools(c, n)
    BY <2>2 DEF FinalChunkTools
  <2>. QED BY <1>6, <2>1, <2>2 DEF FinalChunk
<1>7. CASE Propose \/ ToolAnswers
  BY <1>7 DEF Propose, ToolAnswers, InvokeTool, RefuseTool, ToolRaises, Reasons,
              TypeOK
<1>8. CASE CompleteTool
  <2>1. acc'.iterations = acc.iterations /\ acc'.cost = acc.cost
    BY <1>8, AbsorbKeeps DEF CompleteTool, TypeOK
  <2>. QED BY <1>8, <2>1 DEF CompleteTool, TypeOK
<1>9. CASE CompleteIteration
  BY <1>9 DEF CompleteIteration, AddCost, TypeOK, Tally
<1>10. CASE RecordRun \/ Collect
  BY <1>10 DEF RecordRun, Collect
<1>11. CASE Finished \/ UNCHANGED vars
  BY <1>11 DEF Finished, vars
<1>. QED BY <1>1, <1>2, <1>3, <1>4, <1>5, <1>6, <1>7, <1>8, <1>9, <1>10,
            <1>11 DEF Next, Progress

(* Only a reported tool call changes what is cited, and what was retrieved. *)
LEMMA StepCited == IInv /\ [Next]_vars => Cited'
<1>. SUFFICES ASSUME IInv, [Next]_vars PROVE Cited'
  OBVIOUS
<1>1. CASE CompleteTool
  <2>1. acc' = Absorb(found) /\ retrieved' = retrieved \union found
    BY <1>1 DEF CompleteTool
  <2>2. acc \in Tally
    BY DEF IInv, TypeOK
  <2>. QED BY <2>1, <2>2, AbsorbKeeps DEF IInv, Cited
<1>2. CASE StartIteration \/ FinalChunk \/ CompleteIteration
  <2>1. acc'.cites = acc.cites /\ retrieved' = retrieved
    BY <1>2 DEF StartIteration, FinalChunk, FinalChunkContent,
                FinalChunkTools, CompleteIteration, AddCost, IInv, TypeOK, Tally
  <2>. QED BY <2>1 DEF IInv, Cited
<1>3. CASE UNCHANGED <<acc, retrieved>>
  BY <1>3 DEF IInv, Cited
<1>. QED BY <1>1, <1>2, <1>3
         DEF Next, Progress, Resolve, Refuse, EmitStart, EmitStartFails,
             CapReached, CallLLM, LLMFails, Propose, ToolAnswers, InvokeTool,
             RefuseTool, ToolRaises, EmitEnd, EmitEndFails, SkipRecord,
             RecordRun, RecordFails, Collect, Delta, Leave, Finished, vars

(* Nothing is written before the terminal event is read, and what is written
   then projects the end row, the cost and the citations. *)
LEMMA StepOutput ==
    IInv /\ [Next]_vars
        => ProjectsTheAudit' /\ ReportsItsCost' /\ CitesWhatWasRetrieved'
<1>. SUFFICES ASSUME IInv, [Next]_vars
              PROVE  /\ ProjectsTheAudit' /\ ReportsItsCost'
                     /\ CitesWhatWasRetrieved'
  OBVIOUS
<1>. USE DEF output
<1>1. CASE RecordRun \/ Collect
  <2>. DEFINE r == RunRow
              s == [RunRow EXCEPT !.cites = NoCitations]
  <2>1. /\ runs = {} /\ results = {} /\ pc = "terminal" /\ event.hashes \in 0..2
        /\ UNCHANGED <<ends, spent, chunkCost, retrieved>>
        /\ \/ runs' = {r} /\ results' = {}
           \/ runs' = {} /\ results' = {s}
    BY <1>1 DEF RecordRun, Collect, IInv, TypeOK, Control, Ended, audit
  <2>2. /\ s.reason = r.reason /\ s.iterations = r.iterations
        /\ s.cost = r.cost /\ s.hasEnd = r.hasEnd
    BY DEF RunRow
  <2>a. /\ r.iterations = iteration /\ r.cost = costTotal
        /\ r.reason = IF event.kind = "InvocationFailed" THEN "failed" ELSE reason
        /\ r.hasEnd = IF event.hashes = 2 THEN 1 ELSE 0
    BY DEF RunRow, IInv, Tallies
  <2>b. /\ EndRow.iterations = iteration /\ EndRow.cost = costTotal
        /\ EndRow.reason = reason
    BY DEF EndRow
  <2>3. r.hasEnd = 1 => \E e \in ends : /\ e.reason = r.reason
                                        /\ e.iterations = r.iterations
                                        /\ e.cost = r.cost
    <3>1. SUFFICES ASSUME r.hasEnd = 1
                   PROVE  EndRow \in ends /\ EndRow.reason = r.reason
      BY <2>a, <2>b
    <3>. HIDE DEF r
    <3>. QED BY <2>1, <2>a, <2>b, <3>1 DEF IInv, Answer
  <2>4. r.hasEnd \in 0..1 /\ (r.hasEnd = 0 => r.reason = "failed")
    BY <2>1 DEF RunRow, IInv, Answer
  <2>5. \/ r.cost = spent
        \/ r.reason = "failed" /\ r.cost + chunkCost = spent
    <3>1. \/ spent = costTotal
          \/ event.kind = "InvocationFailed" /\ spent = costTotal + chunkCost
      BY <2>1 DEF IInv, Charged
    <3>. HIDE DEF r
    <3>2. event.kind = "InvocationFailed" => r.reason = "failed"
      BY <2>a
    <3>. QED BY <2>a, <3>1, <3>2
  <2>6. \A c \in Citations : r.cites[c] = IF c \in retrieved THEN 1 ELSE 0
    BY DEF RunRow, IInv, Cited
  <2>. HIDE DEF r, s
  <2>7. ProjectsTheAudit'
    BY <2>1, <2>2, <2>3, <2>4 DEF ProjectsTheAudit
  <2>8. ReportsItsCost'
    BY <2>1, <2>2, <2>5 DEF ReportsItsCost
  <2>9. CitesWhatWasRetrieved'
    BY <2>1, <2>6 DEF CitesWhatWasRetrieved
  <2>. QED BY <2>7, <2>8, <2>9
<1>2. CASE pc \notin Ended /\ UNCHANGED output
  BY <1>2 DEF IInv, Control, ProjectsTheAudit, ReportsItsCost,
              CitesWhatWasRetrieved
<1>3. CASE UNCHANGED vars
  BY <1>3 DEF vars, IInv, ProjectsTheAudit, ReportsItsCost,
              CitesWhatWasRetrieved
<1>. QED BY <1>1, <1>2, <1>3
         DEF Next, Progress, Ended, Resolve, Refuse, EmitStart, EmitStartFails,
             StartIteration, FinalChunk, FinalChunkContent, FinalChunkTools,
             CompleteTool, CompleteIteration, CapReached, CallLLM, LLMFails,
             Propose, ToolAnswers, InvokeTool, RefuseTool, ToolRaises, EmitEnd,
             EmitEndFails, SkipRecord, RecordFails, Delta, Leave, Finished

-----------------------------------------------------------------------------
(* The inductive invariant holds in every reachable state, whatever fairness
   the generators have. *)
Steps == Init /\ [][Next]_vars

LEMMA StepsKeepIInv == Steps => []IInv
<1>1. IInv /\ [Next]_vars => IInv'
  BY StepTypes, StepControl, StepCited, StepOutput DEF IInv
<1>. QED BY InitIInv, <1>1, PTL DEF Steps

LEMMA SpecSteps == Spec => Steps
BY PTL DEF Spec, Steps

THEOREM Invariance == Spec => []IInv
BY StepsKeepIInv, SpecSteps, PTL

(* Type correctness: the loop's cap, one start row,
   for every cap and every set of costs and citations. *)
THEOREM TypeCorrect == Spec => []TypeOK
BY Invariance, PTL DEF IInv

(* Run rows and collected results are projections of the audit chain. *)
THEOREM RunProjectsTheAudit == Spec => []ProjectsTheAudit
BY Invariance, PTL DEF IInv

(* Run rows and results report what the provider charged, less at most the
   iteration a failure cut short. *)
THEOREM CostIsReported == Spec => []ReportsItsCost
BY Invariance, PTL DEF IInv

(* A run row cites what the reported tool calls returned, each item once. *)
THEOREM CitationsAreRetrieved == Spec => []CitesWhatWasRetrieved
BY Invariance, PTL DEF IInv

(* After a refused tool call the provider and the tools are left alone. *)
LEMMA StepsStop == Steps => StopsWorking
<1>1. IInv /\ [Next]_vars =>
        [reason # NoReason =>
           /\ pc' \notin {"iterate", "stream", "invoke", "executing"}
           /\ UNCHANGED <<reason, spent, iteration>>]_vars
  <2>. SUFFICES ASSUME IInv, Next, reason # NoReason
                PROVE  /\ pc' \notin {"iterate", "stream", "invoke", "executing"}
                       /\ UNCHANGED <<reason, spent, iteration>>
    OBVIOUS
  <2>1. pc \notin Before \union InLoop
    BY DEF IInv, Control
  <2>. QED BY <2>1
       DEF Next, Progress, Before, InLoop, tallies, Goto, YieldTerminal,
           Resolve, Refuse, EmitStart, EmitStartFails, StartIteration,
           FinalChunk, FinalChunkContent, FinalChunkTools, CompleteTool,
           CompleteIteration, CapReached, CallLLM, LLMFails, Propose,
           ToolAnswers, InvokeTool, RefuseTool, ToolRaises, EmitEnd,
           EmitEndFails, SkipRecord, RecordRun, RecordFails, Collect, Delta,
           Leave, Finished, vars
<1>. QED BY StepsKeepIInv, <1>1, PTL DEF Steps, StopsWorking

THEOREM RefusalIsFinal == Spec => StopsWorking
BY StepsStop, SpecSteps, PTL

-----------------------------------------------------------------------------
(* Whatever fails, and whenever the consumer leaves, the invocation leaves
   behind what RunLedger promises. *)
LEMMA StepsKeepLedger == Steps => ImplementsLedger
<1>1. Init => Ledger!Init
  BY DEF Init, Ledger!Init
<1>2. ASSUME IInv, [Next]_vars
      PROVE  [Ledger!Start \/ Ledger!End \/ Ledger!Record]_(Ledger!vars)
  <2>1. CASE EmitStart \/ (EmitStartFails /\ starts' # starts)
    <3>1. starts = 0 /\ runs = {}
      BY <1>2, <2>1 DEF EmitStart, EmitStartFails, IInv, Control, Before, Ended
    <3>. QED BY <2>1, <3>1 DEF EmitStart, EmitStartFails, Ledger!Start, output
  <2>2. CASE EmitEnd \/ (EmitEndFails /\ ends' # ends)
    <3>1. /\ starts = 1 /\ ends = {} /\ runs = {} /\ reason \in Reasons
      BY <1>2, <2>2 DEF EmitEnd, EmitEndFails, IInv, Control, Inside, Ended
    <3>2. ends' = {EndRow} /\ EndRow.reason # "failed"
      BY <2>2, <3>1 DEF EmitEnd, EmitEndFails, EndRow, Reasons
    <3>. QED BY <2>2, <3>1, <3>2 DEF EmitEnd, EmitEndFails, Ledger!End, output
  <2>3. CASE RecordRun
    <3>1. starts = 1 /\ runs = {} /\ runs' = {RunRow}
      BY <1>2, <2>3 DEF RecordRun, IInv, Control, Answer, Ended
    <3>2. CASE event.hashes = 2
      <4>1. EndRow \in ends /\ event.kind # "InvocationFailed"
        BY <1>2, <2>3, <3>2 DEF RecordRun, IInv, Answer
      <4>2. Ledger!Repeats(RunRow, EndRow)
        BY <1>2, <3>2, <4>1 DEF IInv, EndRow, RunRow, Tallies, Ledger!Repeats
      <4>. QED BY <2>3, <3>1, <4>1, <4>2 DEF RecordRun, Ledger!Record, audit
    <3>3. CASE event.hashes # 2
      <4>1. RunRow.hasEnd = 0 /\ RunRow.reason = "failed"
        BY <1>2, <2>3, <3>3 DEF RecordRun, IInv, Answer, RunRow
      <4>. QED BY <2>3, <3>1, <4>1 DEF RecordRun, Ledger!Record, audit
    <3>. QED BY <3>2, <3>3
  <2>4. CASE UNCHANGED <<starts, ends, runs>>
    BY <2>4 DEF Ledger!vars
  <2>5. CASE EmitStartFails
    <3>1. UNCHANGED <<ends, runs>>
      BY <2>5 DEF EmitStartFails, output
    <3>. QED BY <2>1, <2>4, <2>5, <3>1
  <2>6. CASE EmitEndFails
    <3>1. UNCHANGED <<starts, runs>>
      BY <2>6 DEF EmitEndFails, output
    <3>. QED BY <2>2, <2>4, <2>6, <3>1
  <2>7. \/ EmitStart \/ EmitStartFails \/ EmitEnd \/ EmitEndFails \/ RecordRun
        \/ UNCHANGED <<starts, ends, runs>>
    BY <1>2
       DEF Next, Progress, audit, output, vars, Resolve, Refuse,
           StartIteration, FinalChunk, FinalChunkContent, FinalChunkTools,
           CompleteTool, CompleteIteration, CapReached, CallLLM, LLMFails,
           Propose, ToolAnswers, InvokeTool, RefuseTool, ToolRaises,
           SkipRecord, RecordFails, Collect, Delta, Leave, Finished
  <2>. QED BY <2>1, <2>2, <2>3, <2>4, <2>5, <2>6, <2>7
<1>3. IInv /\ [Next]_vars
        => [Ledger!Start \/ Ledger!End \/ Ledger!Record]_(Ledger!vars)
  BY <1>2
<1>. QED BY StepsKeepIInv, <1>1, <1>3, PTL DEF Steps, ImplementsLedger, Ledger!Spec

THEOREM InvocationKeepsLedger == Spec => ImplementsLedger
BY StepsKeepLedger, SpecSteps, PTL
-----------------------------------------------------------------------------
(* ------------------------- the conversation ----------------------------- *)

(* A finite set of numbers has an order, and InOrder is one: increasing, and
   with every element of the set. *)
LEMMA OrderExists ==
    ASSUME NEW S \in SUBSET Nat, IsFiniteSet(S)
    PROVE  /\ Cardinality(S) \in Nat
           /\ \E order \in [1..Cardinality(S) -> S] :
                 \A j, k \in 1..Cardinality(S) : j < k => order[j] < order[k]
<1>. DEFINE n == Cardinality(S)
            Upto(i) == {k \in S : k <= i}
            f == [i \in S |-> Cardinality(Upto(i))]
<1>1. n \in Nat
  BY FS_CardinalityType
<1>2. \A i \in S : Upto(i) \in SUBSET S /\ i \in Upto(i)
  OBVIOUS
<1>3. \A i \in S : IsFiniteSet(Upto(i)) /\ Cardinality(Upto(i)) \in 1..n
  <2>. TAKE i \in S
  <2>. HIDE DEF Upto
  <2>1. IsFiniteSet(Upto(i)) /\ Cardinality(Upto(i)) <= n
    BY <1>2, FS_Subset
  <2>2. Cardinality(Upto(i)) \in Nat /\ Cardinality(Upto(i)) # 0
    BY <1>2, <2>1, FS_CardinalityType, FS_EmptySet
  <2>. QED BY <1>1, <2>1, <2>2
<1>4. ASSUME NEW i \in S, NEW l \in S, i < l PROVE f[i] < f[l]
  <2>1. Upto(i) \in SUBSET Upto(l) /\ l \in Upto(l) /\ l \notin Upto(i)
    <3>1. i \in Nat /\ l \in Nat /\ i < l /\ \A k \in S : k \in Nat
      BY <1>4
    <3>2. \A k \in S : k <= i => k <= l
      BY <3>1
    <3>3. ~(l <= i) /\ l <= l
      BY <3>1
    <3>. QED BY <3>2, <3>3
  <2>2. Cardinality(Upto(i)) < Cardinality(Upto(l))
    <3>. HIDE DEF Upto
    <3>1. Upto(i) # Upto(l)
      BY <2>1
    <3>2. /\ Cardinality(Upto(i)) <= Cardinality(Upto(l))
          /\ Cardinality(Upto(i)) # Cardinality(Upto(l))
      BY <1>3, <2>1, <3>1, FS_Subset
    <3>. QED BY <1>3, <3>2
  <2>. QED BY <2>2
<1>5. f \in [S -> 1..n]
  BY <1>3
<1>. HIDE DEF f, Upto, n
<1>6. \A i, l \in S : f[i] = f[l] => i = l
  <2>. SUFFICES ASSUME NEW i \in S, NEW l \in S, f[i] = f[l], i # l PROVE FALSE
    OBVIOUS
  <2>1. f[i] \in 1..n /\ f[l] \in 1..n
    BY <1>5
  <2>2. i < l \/ l < i
    OBVIOUS
  <2>. QED BY <1>1, <1>4, <2>1, <2>2
<1>7. f \in Injection(S, 1..n)
  BY <1>5, <1>6 DEF Injection, IsInjective
<1>8. IsFiniteSet(1..n) /\ Cardinality(1..n) = n
  BY <1>1, FS_Interval
<1>9. f \in Surjection(S, 1..n)
  BY <1>7, <1>8, FS_Injection DEF n
<1>10. \A j \in 1..n : \E i \in S : f[i] = j
  BY <1>9 DEF Surjection
<1>. DEFINE g == [j \in 1..n |-> CHOOSE i \in S : f[i] = j]
<1>11. g \in [1..n -> S] /\ \A j \in 1..n : f[g[j]] = j
  BY <1>10
<1>. HIDE DEF g
<1>12. ASSUME NEW j \in 1..n, NEW k \in 1..n, j < k PROVE g[j] < g[k]
  <2>1. g[j] \in S /\ g[k] \in S /\ f[g[j]] = j /\ f[g[k]] = k
    BY <1>11
  <2>2. ~(g[k] < g[j])
    <3>1. g[k] < g[j] => k < j
      BY <1>4, <2>1
    <3>. QED BY <1>1, <1>12, <3>1
  <2>3. g[j] # g[k]
    <3>1. j # k
      BY <1>1, <1>12
    <3>. QED BY <2>1, <3>1
  <2>4. g[j] \in Nat /\ g[k] \in Nat
    BY <2>1
  <2>. QED BY <2>2, <2>3, <2>4
<1>. QED BY <1>1, <1>11, <1>12 DEF n

LEMMA InOrderSorts ==
    ASSUME NEW S \in SUBSET Nat, IsFiniteSet(S)
    PROVE  /\ Cardinality(S) \in Nat
           /\ InOrder(S) \in [1..Cardinality(S) -> S]
           /\ \A j, k \in 1..Cardinality(S) : j < k => InOrder(S)[j] < InOrder(S)[k]
           /\ \A i \in S : \E j \in 1..Cardinality(S) : InOrder(S)[j] = i
<1>. DEFINE n == Cardinality(S)
            o == InOrder(S)
<1>1. /\ n \in Nat
      /\ o \in [1..n -> S]
      /\ \A j, k \in 1..n : j < k => o[j] < o[k]
  BY OrderExists DEF InOrder
<1>. HIDE DEF n, o
<1>2. \A j, k \in 1..n : o[j] = o[k] => j = k
  <2>. SUFFICES ASSUME NEW j \in 1..n, NEW k \in 1..n, o[j] = o[k], j # k PROVE FALSE
    OBVIOUS
  <2>1. o[j] \in Nat /\ o[k] \in Nat
    BY <1>1
  <2>2. j < k \/ k < j
    BY <1>1
  <2>. QED BY <1>1, <2>1, <2>2
<1>3. o \in Injection(1..n, S)
  BY <1>1, <1>2 DEF Injection, IsInjective
<1>4. IsFiniteSet(1..n) /\ Cardinality(1..n) = n
  BY <1>1, FS_Interval
<1>5. o \in Surjection(1..n, S)
  BY <1>3, <1>4, FS_Injection DEF n
<1>. QED BY <1>1, <1>5 DEF Surjection, n, o

-----------------------------------------------------------------------------
(* The stream: the adapter's buckets are what the provider sent, each the
   fragments of its own call in their order. *)
FragmentsFit(f, i) == /\ f \in Seq([call: Indexes, part: Nat]) /\ f # <<>>
                      /\ \A k \in DOMAIN f : f[k].call = i /\ f[k].part = k

StreamInv == /\ accumulator = sent
             /\ DOMAIN sent \subseteq Indexes
             /\ \A i \in DOMAIN sent : FragmentsFit(sent[i], i)

LEMMA ExtendedFits ==
    ASSUME StreamInv, NEW S \in SUBSET Indexes
    PROVE  /\ DOMAIN Extended(sent, Fragments(S)) \subseteq Indexes
           /\ \A i \in DOMAIN Extended(sent, Fragments(S)) :
                 FragmentsFit(Extended(sent, Fragments(S))[i], i)
<1>. DEFINE parts == Fragments(S)
            new == Extended(sent, parts)
<1>1. DOMAIN parts = S
  BY DEF Fragments
<1>2. \A i \in S : parts[i] = [call |-> i, part |-> Len(FragmentsOf(sent, i)) + 1]
  BY DEF Fragments
<1>. HIDE DEF parts
<1>3. /\ DOMAIN new = DOMAIN sent \union S
      /\ \A i \in S : new[i] = Append(FragmentsOf(sent, i), parts[i])
      /\ \A i \in DOMAIN sent \ S : new[i] = sent[i]
  BY <1>1 DEF Extended
<1>. HIDE DEF new
<1>4. ASSUME NEW i \in S PROVE FragmentsFit(new[i], i)
  <2>. DEFINE old == FragmentsOf(sent, i)
              e == [call |-> i, part |-> Len(old) + 1]
  <2>1. /\ old \in Seq([call: Indexes, part: Nat])
        /\ \A k \in DOMAIN old : old[k].call = i /\ old[k].part = k
    <3>1. CASE i \in DOMAIN sent
      BY <3>1 DEF StreamInv, FragmentsFit, FragmentsOf
    <3>2. CASE i \notin DOMAIN sent
      <4>1. old = <<>>
        BY <3>2 DEF FragmentsOf
      <4>2. DOMAIN <<>> = {} /\ <<>> \in Seq([call: Indexes, part: Nat])
        OBVIOUS
      <4>. QED BY <4>1, <4>2
    <3>. QED BY <3>1, <3>2
  <2>. HIDE DEF old
  <2>2. Len(old) \in Nat /\ DOMAIN old = 1..Len(old)
    BY <2>1
  <2>3. e \in [call: Indexes, part: Nat] /\ e.call = i /\ e.part = Len(old) + 1
    BY <2>2
  <2>4. new[i] = Append(old, e)
    BY <1>2, <1>3 DEF old
  <2>. HIDE DEF e
  <2>5. /\ Append(old, e) \in Seq([call: Indexes, part: Nat])
        /\ Len(Append(old, e)) = Len(old) + 1
        /\ DOMAIN Append(old, e) = 1..Len(old) + 1
        /\ \A k \in 1..Len(old) : Append(old, e)[k] = old[k]
        /\ Append(old, e)[Len(old) + 1] = e
    BY <2>1, <2>2, <2>3
  <2>6. Append(old, e) # <<>>
    <3>1. Len(<<>>) = 0
      OBVIOUS
    <3>. QED BY <2>2, <2>5, <3>1
  <2>7. ASSUME NEW k \in 1..Len(old) + 1
        PROVE  Append(old, e)[k].call = i /\ Append(old, e)[k].part = k
    <3>1. CASE k \in 1..Len(old)
      BY <2>1, <2>2, <2>5, <3>1
    <3>2. CASE k = Len(old) + 1
      BY <2>3, <2>5, <3>2
    <3>. QED BY <2>2, <3>1, <3>2
  <2>. QED BY <2>4, <2>5, <2>6, <2>7 DEF FragmentsFit
<1>5. \A i \in DOMAIN new : FragmentsFit(new[i], i)
  BY <1>3, <1>4 DEF StreamInv
<1>6. DOMAIN new \subseteq Indexes
  BY <1>3 DEF StreamInv
<1>. QED BY <1>5, <1>6 DEF new, parts

(* The tool calls of a final chunk against what was sent. *)
AsSent(tc) ==
    /\ {c.arguments : c \in ToSet(tc)} = {sent[i] : i \in DOMAIN sent}
    /\ \A j, k \in DOMAIN tc : j < k => tc[j].arguments[1].call < tc[k].arguments[1].call
    /\ \A c \in ToSet(tc) : \A k \in DOMAIN c.arguments : c.arguments[k].part = k

Ids == Nat \X Nat
IdsOf(tc) == [j \in DOMAIN tc |-> tc[j].id]
CallsShaped(tc) == /\ Len(tc) \in 0..MaxCalls /\ DOMAIN tc = 1..Len(tc)
                   /\ tc # <<>> => Len(tc) > 0
                   /\ \A j \in DOMAIN tc : tc[j].id \in Ids

LEMMA FinalizedFits ==
    ASSUME StreamInv, iteration \in Nat
    PROVE  AsSent(FinalizeToolCalls(accumulator)) /\ CallsShaped(FinalizeToolCalls(accumulator))
<1>. DEFINE D == DOMAIN sent
            n == Cardinality(D)
            o == InOrder(D)
            tc == FinalizeToolCalls(accumulator)
<1>1. D \in SUBSET Nat /\ IsFiniteSet(D) /\ n <= MaxCalls
  <2>1. D \in SUBSET (1..MaxCalls) /\ MaxCalls \in Nat
    BY AgentAssumption DEF StreamInv, Indexes
  <2>2. IsFiniteSet(1..MaxCalls) /\ Cardinality(1..MaxCalls) = MaxCalls
    BY <2>1, FS_Interval
  <2>3. D \in SUBSET Nat
    BY <2>1
  <2>. HIDE DEF D
  <2>4. IsFiniteSet(D) /\ Cardinality(D) <= Cardinality(1..MaxCalls)
    BY <2>1, <2>2, FS_Subset
  <2>. QED BY <2>2, <2>3, <2>4
<1>2. /\ n \in Nat /\ o \in [1..n -> D]
      /\ \A j, k \in 1..n : j < k => o[j] < o[k]
      /\ \A i \in D : \E j \in 1..n : o[j] = i
  <2>. HIDE DEF D
  <2>. QED BY <1>1, InOrderSorts
<1>3. tc = [j \in DOMAIN o |-> [id |-> <<iteration, o[j]>>, arguments |-> sent[o[j]]]]
  BY DEF FinalizeToolCalls, StreamInv
<1>4. DOMAIN o = 1..n
  BY <1>2
<1>. HIDE DEF o, n, tc
<1>5. /\ DOMAIN tc = 1..n /\ Len(tc) = n
      /\ \A j \in 1..n : tc[j].id = <<iteration, o[j]>> /\ tc[j].arguments = sent[o[j]]
  BY <1>2, <1>3, <1>4
<1>6. \A j \in 1..n : o[j] \in D /\ o[j] \in Nat
  BY <1>1, <1>2
<1>7. \A i \in D : /\ DOMAIN sent[i] = 1..Len(sent[i]) /\ 1 \in DOMAIN sent[i]
                   /\ \A k \in DOMAIN sent[i] : sent[i][k].call = i /\ sent[i][k].part = k
  BY DEF StreamInv, FragmentsFit
<1>8. ToSet(tc) = {tc[j] : j \in 1..n}
  BY <1>5 DEF ToSet
<1>9. {c.arguments : c \in ToSet(tc)} = {sent[i] : i \in D}
  BY <1>2, <1>5, <1>6, <1>8
<1>10. ASSUME NEW j \in 1..n, NEW k \in 1..n, j < k
       PROVE  tc[j].arguments[1].call < tc[k].arguments[1].call
  <2>1. tc[j].arguments[1].call = o[j] /\ tc[k].arguments[1].call = o[k]
    BY <1>5, <1>6, <1>7
  <2>. QED BY <1>2, <1>10, <2>1
<1>11. ASSUME NEW c \in ToSet(tc), NEW k \in DOMAIN c.arguments
       PROVE  c.arguments[k].part = k
  <2>1. PICK j \in 1..n : c = tc[j]
    BY <1>8, <1>11
  <2>. QED BY <1>5, <1>6, <1>7, <1>11, <2>1
<1>12. CallsShaped(tc)
  <2>1. tc # <<>> => n > 0
    <3>1. n = 0 => tc = <<>>
      BY <1>3, <1>4
    <3>. QED BY <1>2, <3>1
  <2>2. n \in 0..MaxCalls
    BY <1>1, <1>2, AgentAssumption
  <2>3. \A j \in 1..n : tc[j].id \in Ids
    <3>. SUFFICES ASSUME NEW j \in 1..n PROVE tc[j].id \in Ids
      OBVIOUS
    <3>1. tc[j].id = <<iteration, o[j]>> /\ o[j] \in Nat
      BY <1>5, <1>6
    <3>2. <<iteration, o[j]>> \in Ids
      BY <3>1 DEF Ids
    <3>. QED BY <3>1, <3>2
  <2>. QED BY <1>5, <2>1, <2>2, <2>3 DEF CallsShaped
<1>. QED BY <1>5, <1>9, <1>10, <1>11, <1>12 DEF AsSent, tc

-----------------------------------------------------------------------------
(* The messages: each message with tool calls has its answers behind it, but
   for the last one while its calls are being dispatched. *)
Dispatching == {"propose", "invoke", "executing"}
Asking == Before \union {"loop", "iterate", "stream"}

Messages == [role: {"assistant", "tool"}, ids: Seq(Ids)]

\* Every call of the messages ms is answered, but those of the message at p
\* from the done-th on; and every answer belongs to a call.
AnsweredBut(ms, p, done) ==
    /\ \A k \in DOMAIN ms : ms[k].role = "assistant" =>
          \A j \in DOMAIN ms[k].ids :
              \/ k = p /\ j > done
              \/ k + j \in DOMAIN ms /\ ms[k + j] = Message("tool", <<ms[k].ids[j]>>)
    /\ \A k \in DOMAIN ms : ms[k].role = "tool" =>
          \E i \in 1..k - 1 : ms[i].role = "assistant" /\ k - i \in DOMAIN ms[i].ids

\* The message at p asked the tool calls tc, of which done are answered.
Open(ms, tc, p, done) ==
    /\ p \in DOMAIN ms /\ p + done = Len(ms)
    /\ ms[p].role = "assistant"
    /\ ms[p].ids = IdsOf(tc)
    /\ AnsweredBut(ms, p, done)

ConversationInv ==
    /\ StreamInv
    /\ messages \in Seq(Messages)
    /\ (pc \in Asking \/ (pc = "iterationEnd" /\ reason = NoReason))
          => AnsweredBut(messages, 0, 0)
    /\ pc \in Dispatching =>
          /\ AsSent(toolCalls) /\ CallsShaped(toolCalls)
          /\ calls \in 1..Len(toolCalls)
          /\ Open(messages, toolCalls, Len(messages) - (Len(toolCalls) - calls),
                  Len(toolCalls) - calls)

LEMMA AppendFacts ==
    ASSUME NEW T, NEW s \in Seq(T), NEW e \in T
    PROVE  /\ Append(s, e) \in Seq(T)
           /\ Len(s) \in Nat /\ Len(Append(s, e)) = Len(s) + 1
           /\ DOMAIN s = 1..Len(s) /\ DOMAIN Append(s, e) = 1..Len(s) + 1
           /\ \A k \in 1..Len(s) : Append(s, e)[k] = s[k]
           /\ Append(s, e)[Len(s) + 1] = e
OBVIOUS

LEMMA IdsShaped ==
    ASSUME NEW tc, CallsShaped(tc)
    PROVE  /\ IdsOf(tc) \in Seq(Ids) /\ Len(IdsOf(tc)) = Len(tc)
           /\ DOMAIN IdsOf(tc) = 1..Len(tc)
           /\ \A j \in 1..Len(tc) : IdsOf(tc)[j] = tc[j].id
<1>. DEFINE ids == IdsOf(tc)
<1>1. ids = [j \in 1..Len(tc) |-> tc[j].id]
  BY DEF IdsOf, CallsShaped
<1>2. Len(tc) \in Nat /\ \A j \in 1..Len(tc) : tc[j].id \in Ids
  BY DEF CallsShaped
<1>. HIDE DEF ids
<1>3. ids \in Seq(Ids)
  BY <1>1, <1>2
<1>4. DOMAIN ids = 1..Len(tc) /\ \A j \in 1..Len(tc) : ids[j] = tc[j].id
  BY <1>1
<1>5. Len(ids) = Len(tc)
  BY <1>2, <1>3, <1>4
<1>. QED BY <1>3, <1>4, <1>5 DEF ids

(* A reply with tool calls opens them. *)
LEMMA ReplyOpens ==
    ASSUME NEW ms \in Seq(Messages), AnsweredBut(ms, 0, 0), NEW tc, CallsShaped(tc)
    PROVE  LET new == Append(ms, Message("assistant", IdsOf(tc)))
           IN  new \in Seq(Messages) /\ Open(new, tc, Len(new), 0)
<1>. DEFINE m == Message("assistant", IdsOf(tc))
            new == Append(ms, m)
            L == Len(ms)
<1>1. m \in Messages /\ m.role = "assistant" /\ m.ids = IdsOf(tc)
  BY IdsShaped DEF Message, Messages
<1>. HIDE DEF m
<1>2. /\ new \in Seq(Messages) /\ L \in Nat /\ Len(new) = L + 1
      /\ DOMAIN ms = 1..L /\ DOMAIN new = 1..L + 1
      /\ \A k \in 1..L : new[k] = ms[k]
      /\ new[L + 1] = m
  BY <1>1, AppendFacts
<1>3. \A k \in 1..L : ms[k].ids \in Seq(Ids)
  <2>1. \A k \in 1..L : ms[k] \in Messages
    BY <1>2
  <2>. HIDE DEF L
  <2>. QED BY <2>1 DEF Messages
<1>4. DOMAIN m.ids = 1..Len(tc) /\ Len(tc) \in Nat
  BY <1>1, IdsShaped DEF CallsShaped
<1>. HIDE DEF new, L
<1>5. ASSUME NEW k \in DOMAIN new, new[k].role = "assistant", NEW j \in DOMAIN new[k].ids
      PROVE  \/ k = L + 1 /\ j > 0
             \/ k + j \in DOMAIN new /\ new[k + j] = Message("tool", <<new[k].ids[j]>>)
  <2>1. CASE k \in 1..L
    <3>1. k + j \in 1..L /\ ms[k + j] = Message("tool", <<ms[k].ids[j]>>)
      <4>1. new[k] = ms[k] /\ k # 0
        BY <1>2, <2>1
      <4>. QED BY <1>2, <1>5, <2>1, <4>1 DEF AnsweredBut
    <3>. QED BY <1>2, <2>1, <3>1
  <2>2. CASE k = L + 1
    BY <1>2, <1>4, <1>5, <2>2
  <2>. QED BY <1>2, <2>1, <2>2
<1>6. ASSUME NEW k \in DOMAIN new, new[k].role = "tool"
      PROVE  \E i \in 1..k - 1 : new[i].role = "assistant" /\ k - i \in DOMAIN new[i].ids
  <2>1. k \in 1..L /\ ms[k].role = "tool"
    <3>1. k # L + 1
      BY <1>1, <1>2, <1>6
    <3>. QED BY <1>2, <1>6, <3>1
  <2>2. PICK i \in 1..k - 1 : ms[i].role = "assistant" /\ k - i \in DOMAIN ms[i].ids
    BY <1>2, <2>1 DEF AnsweredBut
  <2>3. i \in 1..L
    BY <1>2, <2>1
  <2>. QED BY <1>2, <2>2, <2>3
<1>7. AnsweredBut(new, L + 1, 0)
  BY <1>5, <1>6 DEF AnsweredBut
<1>. QED BY <1>1, <1>2, <1>7 DEF Open, new, m

(* An answer to the next call brings the message one answer further. *)
LEMMA AnswerAdvances ==
    ASSUME NEW ms \in Seq(Messages), NEW tc, CallsShaped(tc),
           NEW p \in Nat, NEW done \in Nat, done < Len(tc), Open(ms, tc, p, done)
    PROVE  LET new == Append(ms, Message("tool", <<tc[done + 1].id>>))
           IN  /\ new \in Seq(Messages) /\ Len(new) = Len(ms) + 1
               /\ Open(new, tc, p, done + 1)
<1>. DEFINE m == Message("tool", <<tc[done + 1].id>>)
            new == Append(ms, m)
            L == Len(ms)
<1>0. Len(tc) \in Nat /\ done + 1 \in 1..Len(tc)
  BY DEF CallsShaped
<1>1. m \in Messages /\ m.role = "tool"
  <2>1. tc[done + 1].id \in Ids
    BY <1>0 DEF CallsShaped
  <2>2. <<tc[done + 1].id>> \in Seq(Ids)
    BY <2>1
  <2>. QED BY <2>2 DEF Message, Messages
<1>2. ms[p].ids[done + 1] = tc[done + 1].id /\ DOMAIN ms[p].ids = 1..Len(tc)
  BY <1>0, IdsShaped DEF Open
<1>3. m = Message("tool", <<ms[p].ids[done + 1]>>)
  BY <1>2
<1>. HIDE DEF m
<1>4. /\ new \in Seq(Messages) /\ L \in Nat /\ Len(new) = L + 1
      /\ DOMAIN ms = 1..L /\ DOMAIN new = 1..L + 1
      /\ \A k \in 1..L : new[k] = ms[k]
      /\ new[L + 1] = m
  BY <1>1, AppendFacts
<1>5. \A k \in 1..L : ms[k].ids \in Seq(Ids)
  <2>1. \A k \in 1..L : ms[k] \in Messages
    BY <1>4
  <2>. HIDE DEF L
  <2>. QED BY <2>1 DEF Messages
<1>6. p \in 1..L /\ p + done = L /\ AnsweredBut(ms, p, done) /\ ms[p].role = "assistant"
      /\ ms[p].ids = IdsOf(tc)
  BY <1>4 DEF Open
<1>. HIDE DEF new, L
<1>7. ASSUME NEW k \in DOMAIN new, new[k].role = "assistant", NEW j \in DOMAIN new[k].ids
      PROVE  \/ k = p /\ j > done + 1
             \/ k + j \in DOMAIN new /\ new[k + j] = Message("tool", <<new[k].ids[j]>>)
  <2>1. k \in 1..L /\ new[k] = ms[k]
    <3>1. k # L + 1
      BY <1>1, <1>4, <1>7
    <3>. QED BY <1>4, <3>1
  <2>2. j \in Nat
    BY <1>5, <1>7, <2>1
  <2>3. CASE k = p /\ j = done + 1
    <3>1. k + j = L + 1
      BY <1>4, <1>6, <2>3
    <3>. QED BY <1>3, <1>4, <2>1, <2>3, <3>1
  <2>4. CASE k = p /\ j > done + 1
    BY <2>4
  <2>5. CASE ~(k = p /\ j > done)
    <3>1. k + j \in 1..L /\ ms[k + j] = Message("tool", <<ms[k].ids[j]>>)
      BY <1>4, <1>6, <1>7, <2>1, <2>5 DEF AnsweredBut
    <3>. QED BY <1>4, <2>1, <3>1
  <2>. QED BY <2>2, <2>3, <2>4, <2>5
<1>8. ASSUME NEW k \in DOMAIN new, new[k].role = "tool"
      PROVE  \E i \in 1..k - 1 : new[i].role = "assistant" /\ k - i \in DOMAIN new[i].ids
  <2>1. CASE k \in 1..L
    <3>1. PICK i \in 1..k - 1 : ms[i].role = "assistant" /\ k - i \in DOMAIN ms[i].ids
      BY <1>4, <1>6, <1>8, <2>1 DEF AnsweredBut
    <3>2. i \in 1..L
      BY <1>4, <2>1
    <3>. QED BY <1>4, <3>1, <3>2
  <2>2. CASE k = L + 1
    <3>1. p \in 1..k - 1 /\ k - p = done + 1
      BY <1>4, <1>6, <2>2
    <3>2. new[p].role = "assistant" /\ k - p \in DOMAIN new[p].ids
      BY <1>0, <1>2, <1>4, <1>6, <3>1
    <3>. QED BY <3>1, <3>2
  <2>. QED BY <1>4, <2>1, <2>2
<1>9. AnsweredBut(new, p, done + 1)
  BY <1>7, <1>8 DEF AnsweredBut
<1>10. new[p] = ms[p] /\ p \in DOMAIN new /\ p + (done + 1) = Len(new)
  BY <1>4, <1>6
<1>. QED BY <1>4, <1>6, <1>9, <1>10 DEF Open, new, m, L

(* With the last answer nothing is open. *)
LEMMA AllAnswered ==
    ASSUME NEW ms \in Seq(Messages), NEW tc, CallsShaped(tc), NEW p \in Nat,
           Open(ms, tc, p, Len(tc))
    PROVE  AnsweredBut(ms, 0, 0)
<1>1. DOMAIN ms[p].ids = 1..Len(tc) /\ Len(tc) \in Nat
  BY IdsShaped DEF Open, CallsShaped
<1>2. ASSUME NEW k \in DOMAIN ms, ms[k].role = "assistant", NEW j \in DOMAIN ms[k].ids
      PROVE  k + j \in DOMAIN ms /\ ms[k + j] = Message("tool", <<ms[k].ids[j]>>)
  <2>1. ~(k = p /\ j > Len(tc))
    BY <1>1, <1>2
  <2>. QED BY <1>2, <2>1 DEF Open, AnsweredBut
<1>. QED BY <1>2 DEF Open, AnsweredBut

LEMMA InitConversationInv == ConversationInit => ConversationInv
<1>. SUFFICES ASSUME ConversationInit PROVE ConversationInv
  OBVIOUS
<1>1. DOMAIN <<>> = {} /\ <<>> \in Seq(Messages)
  OBVIOUS
<1>2. StreamInv
  BY <1>1 DEF ConversationInit, StreamInv, NoCalls
<1>3. pc = "resolve" /\ messages = <<>>
  BY DEF ConversationInit, Init
<1>4. AnsweredBut(messages, 0, 0)
  BY <1>1, <1>3 DEF AnsweredBut
<1>. QED BY <1>1, <1>2, <1>3, <1>4 DEF ConversationInv, Dispatching

(* Every step of the conversation is one of the invocation: the final chunk has
   a cost and a number of calls that AgentRun lets it have. *)
LEMMA StepIsRun == ConversationInv /\ IInv /\ [ConversationNext]_allVars => [Next]_vars
<1>. SUFFICES ASSUME ConversationInv, IInv, [ConversationNext]_allVars PROVE [Next]_vars
  OBVIOUS
<1>1. CASE EndStream
  <2>. DEFINE tc == FinalizeToolCalls(accumulator)
  <2>1. iteration \in Nat
    BY AgentAssumption DEF IInv, TypeOK
  <2>2. toolCalls' = tc /\ CallsShaped(tc)
    BY <1>1, <2>1, FinalizedFits DEF EndStream, ConversationInv
  <2>. HIDE DEF tc
  <2>3. PICK usage \in Costs, priced \in BOOLEAN :
           \/ FinalChunkContent(CostUsd(usage, priced))
           \/ tc # <<>> /\ FinalChunkTools(CostUsd(usage, priced), Len(tc))
    BY <1>1, <2>2 DEF EndStream
  <2>4. CostUsd(usage, priced) \in Costs
    BY AgentAssumption DEF CostUsd
  <2>5. tc # <<>> => Len(tc) \in 1..MaxCalls
    BY <2>2, AgentAssumption DEF CallsShaped
  <2>6. FinalChunk
    BY <2>3, <2>4, <2>5 DEF FinalChunk
  <2>. QED BY <2>6 DEF Next, Progress
<1>2. CASE OpenStream \/ StreamFails \/ AnswerCall \/ Dispatch \/ Elsewhere
  BY <1>2 DEF OpenStream, StreamFails, AnswerCall, Dispatch, Elsewhere, Next, Progress
<1>3. CASE SendText \/ Leaves \/ Stays
  BY <1>3 DEF SendText, Leaves, Stays, Next
<1>4. CASE SendFinish \/ \E S \in SUBSET Indexes \ {{}} : SendToolCalls(S)
  BY <1>4 DEF SendFinish, SendToolCalls
<1>5. CASE UNCHANGED allVars
  BY <1>5 DEF allVars
<1>. QED BY <1>1, <1>2, <1>3, <1>4, <1>5 DEF ConversationNext, Goes

(* Steps that leave the stream and the messages alone, and begin no dispatch. *)
LEMMA Quiet ==
    ASSUME ConversationInv, UNCHANGED <<sent, accumulator, toolCalls, messages>>,
           pc' \in Dispatching => pc \in Dispatching /\ calls' = calls,
           (pc' \in Asking \/ (pc' = "iterationEnd" /\ reason' = NoReason))
               => (pc \in Asking \/ (pc = "iterationEnd" /\ reason = NoReason))
    PROVE  ConversationInv'
<1>1. StreamInv'
  BY DEF ConversationInv, StreamInv
<1>2. AsSent(toolCalls) => AsSent(toolCalls)'
  BY DEF AsSent
<1>. QED BY <1>1, <1>2 DEF ConversationInv

LEMMA QuietSteps ==
    ASSUME IInv, ConversationInv,
           SendText \/ SendFinish \/ StreamFails \/ Dispatch \/ Elsewhere \/ Leaves \/ Stays
              \/ UNCHANGED allVars
    PROVE  ConversationInv'
<1>. USE DEF Dispatching, Asking, Before, Goto, YieldTerminal, tallies, NoReason
<1>1. CASE SendText \/ SendFinish
  BY <1>1, Quiet DEF SendText, SendFinish, Delta, conversation, stream, vars
<1>2. CASE StreamFails
  BY <1>2, Quiet DEF StreamFails, LLMFails, conversation, stream
<1>3. CASE Dispatch
  BY <1>3, Quiet DEF Dispatch, Propose, ToolAnswers, InvokeTool, RefuseTool, ToolRaises,
                     conversation, stream
<1>4. CASE Elsewhere
  <2>1. UNCHANGED <<sent, accumulator, toolCalls, messages>>
    BY <1>4 DEF Elsewhere, conversation, stream
  <2>2. CASE Resolve \/ Refuse \/ EmitStart \/ EmitStartFails
    BY <2>1, <2>2, Quiet DEF Resolve, Refuse, EmitStart, EmitStartFails
  <2>3. CASE StartIteration \/ CapReached \/ CompleteIteration
    BY <2>1, <2>3, Quiet DEF StartIteration, CapReached, CompleteIteration
  <2>4. CASE EmitEnd \/ EmitEndFails \/ SkipRecord \/ RecordRun \/ RecordFails \/ Collect
    BY <2>1, <2>4, Quiet
       DEF EmitEnd, EmitEndFails, SkipRecord, RecordRun, RecordFails, Collect
  <2>. QED BY <1>4, <2>2, <2>3, <2>4 DEF Elsewhere
<1>5. CASE Leaves \/ Stays \/ UNCHANGED allVars
  BY <1>5, Quiet DEF Leaves, Stays, Leave, Finished, allVars, vars, conversation, stream
<1>. QED BY <1>1, <1>2, <1>3, <1>4, <1>5

LEMMA StepConversation ==
    IInv /\ ConversationInv /\ [ConversationNext]_allVars => ConversationInv'
<1>. SUFFICES ASSUME IInv, ConversationInv, [ConversationNext]_allVars
              PROVE  ConversationInv'
  OBVIOUS
<1>1. CASE OpenStream
  <2>1. /\ pc = "iterate" /\ pc' = "stream" /\ messages' = messages
        /\ sent' = <<>> /\ accumulator' = <<>>
    BY <1>1 DEF OpenStream, CallLLM, Goto, NoCalls
  <2>2. DOMAIN <<>> = {}
    OBVIOUS
  <2>3. StreamInv'
    BY <2>1, <2>2 DEF StreamInv
  <2>4. AnsweredBut(messages, 0, 0) /\ messages \in Seq(Messages)
    BY <2>1 DEF ConversationInv, Asking
  <2>. QED BY <2>1, <2>3, <2>4 DEF ConversationInv, Dispatching
<1>2. ASSUME NEW S \in SUBSET Indexes, SendToolCalls(S) PROVE ConversationInv'
  <2>1. /\ pc = "stream" /\ pc' = "stream" /\ messages' = messages
        /\ sent' = Extended(sent, Fragments(S))
        /\ accumulator' = Extended(sent, Fragments(S))
    BY <1>2 DEF SendToolCalls, AccumulateToolCallDeltas, ConversationInv, StreamInv, vars
  <2>. DEFINE new == Extended(sent, Fragments(S))
  <2>2. DOMAIN new \subseteq Indexes /\ \A i \in DOMAIN new : FragmentsFit(new[i], i)
    BY ExtendedFits DEF ConversationInv
  <2>3. sent' = new /\ accumulator' = new
    BY <2>1
  <2>. HIDE DEF new
  <2>4. StreamInv'
    BY <2>2, <2>3 DEF StreamInv
  <2>5. AnsweredBut(messages, 0, 0) /\ messages \in Seq(Messages)
    BY <2>1 DEF ConversationInv, Asking
  <2>. QED BY <2>1, <2>4, <2>5 DEF ConversationInv, Dispatching
<1>3. CASE EndStream
  <2>. DEFINE tc == FinalizeToolCalls(accumulator)
              ms == Append(messages, Message("assistant", IdsOf(tc)))
  <2>1. iteration \in Nat
    BY AgentAssumption DEF IInv, TypeOK
  <2>2. toolCalls' = tc /\ AsSent(tc) /\ CallsShaped(tc)
    BY <1>3, <2>1, FinalizedFits DEF EndStream, ConversationInv
  <2>3. /\ messages \in Seq(Messages) /\ AnsweredBut(messages, 0, 0)
    BY <1>3 DEF EndStream, ConversationInv, Asking
  <2>4. StreamInv' /\ sent' = sent
    BY <1>3 DEF EndStream, stream, ConversationInv, StreamInv
  <2>. HIDE DEF tc
  <2>5. \/ pc' = "auditEnd" /\ messages' = messages
        \/ pc' = "propose" /\ calls' = Len(tc) /\ tc # <<>> /\ messages' = ms
    BY <1>3, <2>2 DEF EndStream, FinalChunkContent, FinalChunkTools, Goto, IdsOf
  <2>6. CASE pc' = "auditEnd" /\ messages' = messages
    BY <2>3, <2>4, <2>6 DEF ConversationInv, Asking, Before, Dispatching
  <2>7. CASE pc' = "propose" /\ calls' = Len(tc) /\ tc # <<>> /\ messages' = ms
    <3>1. ms \in Seq(Messages) /\ Open(ms, tc, Len(ms), 0)
      BY <2>2, <2>3, ReplyOpens
    <3>2. Len(tc) \in Nat \ {0} /\ Len(ms) \in Nat
      BY <2>2, <2>7, <3>1 DEF CallsShaped
    <3>. HIDE DEF ms
    <3>3. Len(tc) - Len(tc) = 0 /\ Len(ms) - 0 = Len(ms) /\ Len(tc) \in 1..Len(tc)
      BY <3>2
    <3>4. AsSent(toolCalls)' /\ CallsShaped(toolCalls)'
      BY <2>2, <2>4 DEF AsSent, CallsShaped
    <3>5. (calls \in 1..Len(toolCalls))'
      BY <2>2, <2>7, <3>3
    <3>6. Open(messages, toolCalls, Len(messages) - (Len(toolCalls) - calls),
               Len(toolCalls) - calls)'
      BY <2>2, <2>7, <3>1, <3>3
    <3>7. pc' \notin Asking /\ pc' # "iterationEnd"
      BY <2>7 DEF Asking, Before
    <3>8. (messages \in Seq(Messages))'
      BY <2>7, <3>1
    <3>. QED BY <2>4, <3>4, <3>5, <3>6, <3>7, <3>8 DEF ConversationInv
  <2>. QED BY <2>5, <2>6, <2>7
<1>4. CASE AnswerCall
  <2>. DEFINE n == Len(toolCalls)
              done == n - calls
              p == Len(messages) - done
              ms == Append(messages, Message("tool", <<toolCalls[done + 1].id>>))
  <2>1. /\ pc = "executing" /\ calls' = calls - 1 /\ reason' = reason
        /\ pc' = IF calls = 1 THEN "iterationEnd" ELSE "propose"
        /\ UNCHANGED <<sent, accumulator, toolCalls>>
        /\ messages' = ms
    BY <1>4 DEF AnswerCall, CompleteTool, Goto, tallies, stream, CurrentCall
  <2>2. /\ AsSent(toolCalls) /\ CallsShaped(toolCalls) /\ calls \in 1..n
        /\ Open(messages, toolCalls, p, done)
        /\ messages \in Seq(Messages)
    BY <2>1 DEF ConversationInv, Dispatching
  <2>3. n \in Nat /\ calls \in Nat /\ done \in Nat /\ done < n /\ done + 1 = n - (calls - 1)
    BY <2>2 DEF CallsShaped
  <2>4. p \in Nat /\ Len(messages) \in Nat
    <3>1. p \in DOMAIN messages /\ DOMAIN messages = 1..Len(messages)
          /\ Len(messages) \in Nat
      BY <2>2 DEF Open
    <3>. HIDE DEF p
    <3>. QED BY <3>1
  <2>5. ms \in Seq(Messages) /\ Len(ms) = Len(messages) + 1
        /\ Open(ms, toolCalls, p, done + 1)
    <3>. HIDE DEF p, done, n
    <3>1. done < Len(toolCalls)
      BY <2>3 DEF n
    <3>. QED BY <2>2, <2>3, <2>4, <3>1, AnswerAdvances
  <2>6. Len(ms) - (done + 1) = p
    <3>. HIDE DEF ms, done, n
    <3>. QED BY <2>3, <2>4, <2>5
  <2>. HIDE DEF ms, p, done
  <2>7. StreamInv' /\ (AsSent(toolCalls) /\ CallsShaped(toolCalls))'
    BY <2>1, <2>2 DEF ConversationInv, StreamInv, AsSent, CallsShaped
  <2>8. CASE calls = 1
    <3>1. done + 1 = n
      BY <2>3, <2>8
    <3>2. AnsweredBut(ms, 0, 0)
      BY <2>2, <2>4, <2>5, <3>1, AllAnswered DEF n
    <3>. QED BY <2>1, <2>5, <2>7, <2>8, <3>2 DEF ConversationInv, Dispatching
  <2>9. CASE calls # 1
    <3>1. calls - 1 \in 1..n
      BY <2>2, <2>3, <2>9
    <3>2. pc' = "propose"
      BY <2>1, <2>9
    <3>3. Open(ms, toolCalls, Len(ms) - (n - (calls - 1)), n - (calls - 1))
      BY <2>3, <2>5, <2>6
    <3>4. Open(messages, toolCalls, Len(messages) - (Len(toolCalls) - calls),
               Len(toolCalls) - calls)'
      BY <2>1, <3>3 DEF n
    <3>5. (calls \in 1..Len(toolCalls))' /\ (messages \in Seq(Messages))'
      BY <2>1, <2>5, <3>1 DEF n
    <3>6. pc' \notin Asking /\ pc' # "iterationEnd"
      BY <3>2 DEF Asking, Before
    <3>. QED BY <2>7, <3>4, <3>5, <3>6 DEF ConversationInv
  <2>. QED BY <2>8, <2>9
<1>. QED BY <1>1, <1>2, <1>3, <1>4, QuietSteps DEF ConversationNext, Goes

-----------------------------------------------------------------------------
LEMMA ConversationInvariance == ConversationSpec => [](IInv /\ ConversationInv) /\ Steps
<1>1. ConversationInit => IInv /\ ConversationInv
  BY InitIInv, InitConversationInv DEF ConversationInit
<1>2. IInv /\ ConversationInv /\ [ConversationNext]_allVars => IInv' /\ ConversationInv'
  <2>1. IInv /\ [Next]_vars => IInv'
    BY StepTypes, StepControl, StepCited, StepOutput DEF IInv
  <2>. QED BY <2>1, StepIsRun, StepConversation
<1>3. ConversationInit => Init
  BY DEF ConversationInit
<1>. QED BY <1>1, <1>2, <1>3, StepIsRun, PTL DEF ConversationSpec, Steps

(* However the fragments of several tool calls interleave, and wherever the
   stream is cut, the dispatched calls are those that were sent. *)
THEOREM CallsAreAsSent == ConversationSpec => []CallsAsSent
<1>1. ConversationInv => CallsAsSent
  BY DEF ConversationInv, Dispatching, AsSent, CallsAsSent
<1>. QED BY <1>1, ConversationInvariance, PTL

(* The provider is never sent a conversation with a call left open, or with an
   answer to no call. *)
THEOREM RequestsAdmitted == ConversationSpec => []RequestsAreAnswered
<1>1. ConversationInv => RequestsAreAnswered
  <2>. SUFFICES ASSUME ConversationInv, pc = "stream" PROVE RequestsAreAnswered
    BY DEF RequestsAreAnswered
  <2>1. AnsweredBut(messages, 0, 0) /\ messages \in Seq(Messages)
    BY DEF ConversationInv, Asking
  <2>2. \A k \in DOMAIN messages : k # 0
    <3>1. DOMAIN messages = 1..Len(messages)
      BY <2>1
    <3>. QED BY <3>1
  <2>. QED BY <2>1, <2>2 DEF AnsweredBut, RequestsAreAnswered
<1>. QED BY <1>1, ConversationInvariance, PTL

(* With the conversation spelled out the invocation is still one of AgentRun:
   its run rows project the audit chain, report the cost and the citations. *)
THEOREM ConversationKeepsTheRun ==
    ConversationSpec => /\ [](ProjectsTheAudit /\ ReportsItsCost /\ CitesWhatWasRetrieved)
                        /\ StopsWorking /\ ImplementsLedger
<1>1. IInv => ProjectsTheAudit /\ ReportsItsCost /\ CitesWhatWasRetrieved
  BY DEF IInv
<1>. QED BY <1>1, ConversationInvariance, StepsStop, StepsKeepLedger, PTL
=============================================================================
