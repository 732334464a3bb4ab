------------------------------ MODULE AgentRun ------------------------------
(***************************************************************************)
(* One agent invocation: the executor's generator yields events to         *)
(* invoke_agent, which keeps its own tallies, passes each event on to the  *)
(* consumer, and writes the run row after the terminal event.  The         *)
(* generators only run while the consumer asks for the next event: a       *)
(* consumer that goes away, or a process that dies, ends the invocation    *)
(* where it is.  Text, messages and hashes are left out; a hash stands for *)
(* the audit row it names.                                                 *)
(***************************************************************************)
EXTENDS Naturals

CONSTANTS MaxIterations, \* MAX_ITERATIONS of the executor
          MaxCalls,      \* bound: tool calls in one final chunk
          Costs,         \* cost_usd of a final chunk, zero among them: no usage came
                         \* with it, or the model has no price
          Citations,     \* chunks and entities a tool can cite
          Consumers,     \* "stream": reads on until the generator returns;
                         \* "collect": collect_to_result
          MaxLostAcks    \* bound: audit commits whose answer is lost

ASSUME AgentAssumption == /\ MaxIterations \in Nat \ {0}
                          /\ MaxCalls \in Nat \ {0}
                          /\ Costs \subseteq Nat /\ 0 \in Costs
                          /\ Consumers \subseteq {"stream", "collect"}
                          /\ MaxLostAcks \in Nat

VARIABLES pc,        \* where the generators are suspended
          consumer,  \* who reads the events, "gone" once it stopped
          event,     \* the event yielded last; hashes it carries
          iteration, costTotal, reason, \* the executor's tallies
          calls,     \* tool calls of the chunk still to be dispatched
          chunkCost, \* cost_usd of the last final chunk
          found,     \* candidates of the tool call being reported
          acc,       \* invoke_agent's tallies
          starts, ends, \* audit rows agent.invoke.start and .end
          runs,      \* run rows, with their citation rows
          results,   \* what collect_to_result returned
          spent,     \* history: what the final chunks cost
          retrieved, \* history: what reported tool calls cited
          lost       \* audit commits whose answer was lost

tallies == <<iteration, costTotal, reason>>
audit == <<starts, ends, lost>>
output == <<runs, results>>
vars == <<pc, consumer, event, iteration, costTotal, reason, calls, chunkCost,
          found, acc, starts, ends, runs, results, spent, retrieved, lost>>

NoReason == "none"
Reasons == {"content", "max_iterations", "tool_not_registered",
            "invariant_blocked"}
Terminal == {"InvocationCompleted", "InvariantBlocked", "InvocationFailed"}

NoCitations == [c \in Citations |-> 0]

Init == /\ pc = "resolve" /\ consumer \in Consumers
        /\ event = [kind |-> "none", hashes |-> 0]
        /\ iteration = 0 /\ costTotal = 0 /\ reason = NoReason
        /\ calls = 0 /\ chunkCost = 0 /\ found = {}
        /\ acc = [iterations |-> 0, cost |-> 0, cites |-> NoCitations]
        /\ starts = 0 /\ ends = {} /\ runs = {} /\ results = {}
        /\ spent = 0 /\ retrieved = {} /\ lost = 0

Goto(label) == pc' = label
Yield(k) == event' = [kind |-> k, hashes |-> 0]
YieldTerminal(k, n) == event' = [kind |-> k, hashes |-> n] /\ Goto("terminal")

-----------------------------------------------------------------------------
(* invoke_agent before the executor starts. *)

Resolve == /\ pc = "resolve"
           /\ Goto("auditStart")
           /\ UNCHANGED <<consumer, event, tallies, calls, chunkCost, found,
                          acc, audit, output, spent, retrieved>>

\* Authorization, a lookup or the composition raises.
Refuse == /\ pc = "resolve"
          /\ Goto("raised")
          /\ UNCHANGED <<consumer, event, tallies, calls, chunkCost, found,
                         acc, audit, output, spent, retrieved>>

-----------------------------------------------------------------------------
(* The audit rows.  An emit that raises has rolled back, or has committed
   and lost the answer. *)

LoseAck == lost < MaxLostAcks /\ lost' = lost + 1

EmitStart == /\ pc = "auditStart"
             /\ starts' = starts + 1
             /\ Yield("InvocationStarted")
             /\ Goto("loop")
             /\ UNCHANGED <<consumer, tallies, calls, chunkCost, found, acc,
                            ends, lost, output, spent, retrieved>>

EmitStartFails ==
    /\ pc = "auditStart"
    /\ \/ UNCHANGED <<starts, lost>>
       \/ LoseAck /\ starts' = starts + 1
    /\ YieldTerminal("InvocationFailed", 0)
    /\ UNCHANGED <<consumer, tallies, calls, chunkCost, found, acc, ends,
                   output, spent, retrieved>>

EndRow == [reason |-> reason, iterations |-> iteration, cost |-> costTotal]

EmitEnd ==
    /\ pc = "auditEnd"
    /\ ends' = ends \union {EndRow}
    /\ YieldTerminal(IF reason = "invariant_blocked" THEN "InvariantBlocked"
                     ELSE "InvocationCompleted", 2)
    /\ UNCHANGED <<consumer, tallies, calls, chunkCost, found, acc, starts,
                   lost, output, spent, retrieved>>

EmitEndFails ==
    /\ pc = "auditEnd"
    /\ \/ UNCHANGED <<ends, lost>>
       \/ LoseAck /\ ends' = ends \union {EndRow}
    /\ YieldTerminal("InvocationFailed", 1)
    /\ UNCHANGED <<consumer, tallies, calls, chunkCost, found, acc, starts,
                   output, spent, retrieved>>

-----------------------------------------------------------------------------
(* The loop. *)

\* Variant: iterations are announced with an index that starts at 0.
StartIteration_ZeroBased ==
    /\ pc = "loop" /\ iteration < MaxIterations
    /\ iteration' = iteration + 1
    /\ acc' = [acc EXCEPT !.iterations = iteration]
    /\ Yield("IterationStarted")
    /\ Goto("iterate")
    /\ UNCHANGED <<consumer, costTotal, reason, calls, chunkCost, found, audit,
                   output, spent, retrieved>>

StartIteration ==
    /\ pc = "loop" /\ iteration < MaxIterations
    /\ iteration' = iteration + 1
    /\ acc' = [acc EXCEPT !.iterations = iteration + 1]
    /\ Yield("IterationStarted")
    /\ Goto("iterate")
    /\ UNCHANGED <<consumer, costTotal, reason, calls, chunkCost, found, audit,
                   output, spent, retrieved>>

\* Variant: the cap is tested one iteration too late.
CapReached_OffByOne ==
    /\ pc = "loop" /\ iteration > MaxIterations
    /\ reason' = "max_iterations"
    /\ Goto("auditEnd")
    /\ UNCHANGED <<consumer, event, iteration, costTotal, calls, chunkCost,
                   found, acc, audit, output, spent, retrieved>>

\* The else of the while.
CapReached ==
    /\ pc = "loop" /\ iteration >= MaxIterations
    /\ reason' = "max_iterations"
    /\ Goto("auditEnd")
    /\ UNCHANGED <<consumer, event, iteration, costTotal, calls, chunkCost,
                   found, acc, audit, output, spent, retrieved>>

CallLLM == /\ pc = "iterate"
           /\ Yield("LLMCallStarted")
           /\ Goto("stream")
           /\ UNCHANGED <<consumer, tallies, calls, chunkCost, found, acc,
                          audit, output, spent, retrieved>>

Delta == /\ pc = "stream"
         /\ Yield("ContentDelta")
         /\ UNCHANGED <<pc, consumer, tallies, calls, chunkCost, found, acc,
                        audit, output, spent, retrieved>>

\* The provider raises, or its stream ends without a final chunk.
LLMFails == /\ pc = "stream"
            /\ YieldTerminal("InvocationFailed", 1)
            /\ UNCHANGED <<consumer, tallies, calls, chunkCost, found, acc,
                           audit, output, spent, retrieved>>

\* The end of an iteration: its cost enters both totals.
AddCost(c) == /\ costTotal' = costTotal + c
              /\ acc' = [acc EXCEPT !.cost = acc.cost + c]
              /\ Yield("IterationCompleted")

FinalChunkContent(c) ==
    /\ pc = "stream"
    /\ spent' = spent + c
    /\ chunkCost' = c
    /\ reason' = "content"
    /\ AddCost(c)
    /\ Goto("auditEnd")
    /\ UNCHANGED <<consumer, iteration, calls, found, audit, output, retrieved>>

FinalChunkTools(c, n) ==
    /\ pc = "stream"
    /\ spent' = spent + c
    /\ chunkCost' = c
    /\ calls' = n
    /\ Goto("propose")
    /\ UNCHANGED <<consumer, event, tallies, found, acc, audit, output,
                   retrieved>>

Propose == /\ pc = "propose" /\ calls > 0
           /\ Yield("ToolCallProposed")
           /\ Goto("invoke")
           /\ UNCHANGED <<consumer, tallies, calls, chunkCost, found, acc,
                          audit, output, spent, retrieved>>

\* OK with candidates, or ERROR without: the loop goes on.
InvokeTool(C) == /\ pc = "invoke"
                 /\ found' = C
                 /\ Yield("ToolCallExecuting")
                 /\ Goto("executing")
                 /\ UNCHANGED <<consumer, tallies, calls, chunkCost, acc,
                                audit, output, spent, retrieved>>

\* Variant: the refusal does not leave the loop over the calls.
RefuseTool_NoBreak(why) ==
    /\ pc = "invoke"
    /\ reason' = why
    /\ calls' = calls - 1
    /\ Goto(IF calls = 1 THEN "iterationEnd" ELSE "propose")
    /\ UNCHANGED <<consumer, event, iteration, costTotal, chunkCost, found, acc,
                   audit, output, spent, retrieved>>

\* INVARIANT_BLOCKED or TOOL_NOT_REGISTERED: the remaining calls are dropped.
RefuseTool(why) ==
    /\ pc = "invoke"
    /\ reason' = why
    /\ calls' = 0
    /\ Goto("iterationEnd")
    /\ UNCHANGED <<consumer, event, iteration, costTotal, chunkCost, found, acc,
                   audit, output, spent, retrieved>>

ToolRaises == /\ pc = "invoke"
              /\ YieldTerminal("InvocationFailed", 1)
              /\ UNCHANGED <<consumer, tallies, calls, chunkCost, found, acc,
                             audit, output, spent, retrieved>>

\* Variant: a candidate is kept again for every call that returns it.
Absorb_Repeats(C) ==
    [acc EXCEPT !.cites = [c \in Citations |->
        IF c \in C THEN acc.cites[c] + 1 ELSE acc.cites[c]]]

\* The first candidate for a chunk or entity is kept, later ones are dropped.
Absorb(C) ==
    [acc EXCEPT !.cites = [c \in Citations |->
        IF c \in C /\ acc.cites[c] = 0 THEN 1 ELSE acc.cites[c]]]

CompleteTool ==
    /\ pc = "executing"
    /\ acc' = Absorb(found)
    /\ retrieved' = retrieved \union found
    /\ calls' = calls - 1
    /\ Yield("ToolCallCompleted")
    /\ Goto(IF calls = 1 THEN "iterationEnd" ELSE "propose")
    /\ UNCHANGED <<consumer, tallies, chunkCost, found, audit, output, spent>>

\* Variant: the cost of an iteration that was cut short is not added.
CompleteIteration_DropsCost ==
    /\ pc = "iterationEnd"
    /\ AddCost(IF reason = NoReason THEN chunkCost ELSE 0)
    /\ Goto(IF reason = NoReason THEN "loop" ELSE "auditEnd")
    /\ UNCHANGED <<consumer, iteration, reason, calls, chunkCost, found, audit,
                   output, spent, retrieved>>

CompleteIteration ==
    /\ pc = "iterationEnd"
    /\ AddCost(chunkCost)
    /\ Goto(IF reason = NoReason THEN "loop" ELSE "auditEnd")
    /\ UNCHANGED <<consumer, iteration, reason, calls, chunkCost, found, audit,
                   output, spent, retrieved>>

-----------------------------------------------------------------------------
(* After the terminal event. *)

\* _assemble_agent_run_record: the reason is the event's, the iterations are
\* invoke_agent's own, and so is the cost unless the event carries one.
RunRow ==
    [reason |-> IF event.kind = "InvocationFailed" THEN "failed" ELSE reason,
     iterations |-> acc.iterations,
     cost |-> IF event.kind = "InvocationCompleted" THEN costTotal ELSE acc.cost,
     hasEnd |-> IF event.hashes = 2 THEN 1 ELSE 0,
     cites |-> acc.cites]

\* Variant: the run row is written although there is no start row.
SkipRecord_Records ==
    /\ pc = "terminal" /\ consumer = "stream" /\ event.hashes = 0
    /\ runs' = runs \union {RunRow}
    /\ Goto("done")
    /\ UNCHANGED <<consumer, event, tallies, calls, chunkCost, found, acc,
                   audit, results, spent, retrieved>>

\* An invocation without a start row leaves no run row.
SkipRecord == /\ pc = "terminal" /\ consumer = "stream" /\ event.hashes = 0
              /\ Goto("done")
              /\ UNCHANGED <<consumer, event, tallies, calls, chunkCost, found,
                             acc, audit, output, spent, retrieved>>

\* Variant: a run whose chain is incomplete is skipped too.
RecordRun_OnlyComplete ==
    /\ pc = "terminal" /\ consumer = "stream" /\ event.hashes > 0
    /\ runs' = IF event.hashes = 2 THEN {RunRow} ELSE runs
    /\ Goto("done")
    /\ UNCHANGED <<consumer, event, tallies, calls, chunkCost, found, acc,
                   audit, results, spent, retrieved>>

RecordRun == /\ pc = "terminal" /\ consumer = "stream" /\ event.hashes > 0
             /\ runs' = runs \union {RunRow}
             /\ Goto("done")
             /\ UNCHANGED <<consumer, event, tallies, calls, chunkCost, found,
                            acc, audit, results, spent, retrieved>>

\* record_run raises, and the generator with it.
RecordFails == /\ pc = "terminal" /\ consumer = "stream" /\ event.hashes > 0
               /\ Goto("raised")
               /\ UNCHANGED <<consumer, event, tallies, calls, chunkCost, found,
                              acc, audit, output, spent, retrieved>>

\* collect_to_result returns at the terminal event and drops the generator; its
\* own tallies are made of the same events.  It says "error" for "failed".
Collect == /\ pc = "terminal" /\ consumer = "collect"
           /\ results' = results \union {[RunRow EXCEPT !.cites = NoCitations]}
           /\ Goto("done")
           /\ UNCHANGED <<consumer, event, tallies, calls, chunkCost, found,
                          acc, audit, runs, spent, retrieved>>

\* The client disconnects or the process dies: GeneratorExit and
\* CancelledError are no Exception, so nothing is written.
Leave == /\ pc \notin {"done", "raised"}
         /\ consumer' = "gone"
         /\ Goto("done")
         /\ UNCHANGED <<event, tallies, calls, chunkCost, found, acc, audit,
                        output, spent, retrieved>>

Finished == pc \in {"done", "raised"} /\ UNCHANGED vars

FinalChunk == \E c \in Costs : \/ FinalChunkContent(c)
                               \/ \E n \in 1..MaxCalls : FinalChunkTools(c, n)
ToolAnswers == \/ \E C \in SUBSET Citations : InvokeTool(C)
               \/ \E why \in {"invariant_blocked", "tool_not_registered"} :
                     RefuseTool(why)
               \/ ToolRaises

Progress == \/ Resolve \/ Refuse \/ EmitStart \/ EmitStartFails
            \/ StartIteration \/ CapReached \/ CallLLM \/ LLMFails \/ FinalChunk
            \/ Propose \/ ToolAnswers \/ CompleteTool \/ CompleteIteration
            \/ EmitEnd \/ EmitEndFails
            \/ SkipRecord \/ RecordRun \/ RecordFails \/ Collect

Next == Progress \/ Delta \/ Leave \/ Finished

\* The generators run as long as they are asked for events, and calls to the
\* provider, the tools and the databases return or raise.  Nothing makes a
\* consumer stay.
Spec == Init /\ [][Next]_vars /\ WF_vars(Progress)

-----------------------------------------------------------------------------
(* Properties. *)

Tally == [iterations: 0..MaxIterations, cost: Nat, cites: [Citations -> Nat]]
Row == [reason: Reasons, iterations: 1..MaxIterations, cost: Nat]
Run == [reason: Reasons \union {"failed"}, iterations: 0..MaxIterations,
        cost: Nat, hasEnd: 0..1, cites: [Citations -> Nat]]

\* The variables keep their types.  Among them: the loop stays under its cap,
\* and one start row is written.
TypeOK ==
    /\ pc \in {"resolve", "auditStart", "loop", "iterate", "stream", "propose",
               "invoke", "executing", "iterationEnd", "auditEnd", "terminal",
               "done", "raised"}
    /\ consumer \in {"stream", "collect", "gone"}
    /\ event.kind \in Terminal \union
          {"none", "InvocationStarted", "IterationStarted", "LLMCallStarted",
           "ContentDelta", "ToolCallProposed", "ToolCallExecuting",
           "ToolCallCompleted", "IterationCompleted"}
    /\ event.hashes \in 0..2
    /\ iteration \in 0..MaxIterations /\ costTotal \in Nat
    /\ reason \in Reasons \union {NoReason}
    /\ calls \in 0..MaxCalls /\ chunkCost \in Nat
    /\ found \subseteq Citations
    /\ acc \in Tally
    /\ starts \in 0..1 /\ ends \subseteq Row
    /\ runs \subseteq Run /\ results \subseteq Run
    /\ spent \in Nat /\ retrieved \subseteq Citations
    /\ lost \in 0..MaxLostAcks

\* The run row and the collected result are projections of the audit chain,
\* though their tallies are kept by another generator: with an end hash they
\* repeat the end row, and without one they say failed.
ProjectsTheAudit ==
    \A r \in runs \union results :
        /\ r.hasEnd = 1 => \E e \in ends : /\ e.reason = r.reason
                                           /\ e.iterations = r.iterations
                                           /\ e.cost = r.cost
        /\ r.hasEnd = 0 => r.reason = "failed"

\* Runs report what the provider charged: all of it when they terminated
\* cleanly, all but the iteration that was cut short when they failed.
ReportsItsCost ==
    \A r \in runs \union results :
        \/ r.cost = spent
        \/ r.reason = "failed" /\ r.cost + chunkCost = spent

\* A run row cites every chunk and entity a reported tool call returned, once.
CitesWhatWasRetrieved ==
    \A r \in runs : \A c \in Citations :
        r.cites[c] = IF c \in retrieved THEN 1 ELSE 0

\* Once a tool call is refused, or the loop has another reason to stop, the
\* invocation calls neither the provider nor a tool again.
StopsWorking ==
    [][reason # NoReason =>
         /\ pc' \notin {"iterate", "stream", "invoke", "executing"}
         /\ UNCHANGED <<reason, spent, iteration>>]_vars

\* A consumer that stays gets a terminal event, unless the invocation was
\* refused before it started.
Answered == <>(event.kind \in Terminal \/ pc = "raised" \/ consumer = "gone")

\* A run that has a start row and whose answer was read.
Reported(c) == event.kind \in Terminal /\ event.hashes > 0 /\ consumer = c

\* When a consumer reads its stream to the end, the run is recorded, unless the
\* writer raised or the consumer left before it was called.
AnswerIsRecorded ==
    Reported("stream") ~> (runs # {} \/ pc = "raised" \/ consumer = "gone")

\* invoke_agent's docstring (use_cases.py:744) says so of every consumer: it
\* "calls ``writer.record_run`` AFTER yielding the terminal event".
CollectedIsRecorded ==
    Reported("collect") ~> (runs # {} \/ pc = "raised" \/ consumer = "gone")

Ledger == INSTANCE RunLedger

\* Whatever fails, the invocation implements the ledger of D26 and D95.
ImplementsLedger == Ledger!Spec
=============================================================================
