-------------------------- MODULE AgentConversation --------------------------
(***************************************************************************)
(* The conversation an invocation has with the provider: LiteLLMAdapter    *)
(* turns the provider's stream into text and a final chunk, and the        *)
(* executor answers the tool calls of that chunk in the messages of its    *)
(* next request.                                                           *)
(*                                                                         *)
(* The provider sends the tool calls of a reply in fragments, several at a *)
(* time and in any order among the calls; a fragment is told by its number *)
(* within its call.  It says when it has finished, but a stream can end    *)
(* before that without an error, and the adapter builds its final chunk    *)
(* all the same.  Indexes are the provider's, and an entry without one,    *)
(* which the protocol does not have, is passed over.                       *)
(***************************************************************************)
EXTENDS AgentRun, SequencesExt

CONSTANT MaxFragments \* bound: fragments of one tool call

ASSUME ConversationAssumption == MaxFragments \in Nat \ {0}

VARIABLES sent,        \* per index: the fragments the provider sent in this stream
          finished,    \* the provider has given its finish_reason
          accumulator, \* the adapter's buckets, by index
          toolCalls,   \* the tool calls of the last final chunk
          messages     \* the conversation since the user's message

stream == <<sent, finished, accumulator>>
conversation == <<stream, toolCalls, messages>>
allVars == <<vars, conversation>>

NoCalls == <<>>
Indexes == 1..MaxCalls

ConversationInit == /\ Init
                    /\ sent = NoCalls /\ finished = FALSE /\ accumulator = NoCalls
                    /\ toolCalls = <<>> /\ messages = <<>>

Message(role, ids) == [role |-> role, ids |-> ids]

-----------------------------------------------------------------------------
(* ---------------------------- the provider ---------------------------- *)

FragmentsOf(buckets, i) == IF i \in DOMAIN buckets THEN buckets[i] ELSE <<>>

\* The next fragment of each of these calls.
Fragments(S) == [i \in S |-> [call |-> i, part |-> Len(FragmentsOf(sent, i)) + 1]]

Extended(buckets, parts) ==
    [i \in DOMAIN buckets \union DOMAIN parts |->
        IF i \in DOMAIN parts THEN Append(FragmentsOf(buckets, i), parts[i])
                              ELSE buckets[i]]

\* sorted(): a set of indexes in their order.
InOrder(S) == CHOOSE order \in [1..Cardinality(S) -> S] :
                  \A j, k \in 1..Cardinality(S) : j < k => order[j] < order[k]

\* Variant: an entry goes by its place in the chunk, not by its index.
AccumulateToolCallDeltas_ByPlace(buckets, parts) ==
    Extended(buckets, [j \in 1..Cardinality(DOMAIN parts) |-> parts[InOrder(DOMAIN parts)[j]]])

\* _accumulate_tool_call_deltas
AccumulateToolCallDeltas(buckets, parts) == Extended(buckets, parts)

\* _finalize_tool_calls: in the order of the indexes.
FinalizeToolCalls(buckets) ==
    LET order == InOrder(DOMAIN buckets)
    IN  [j \in DOMAIN order |-> [id |-> <<iteration, order[j]>>, arguments |-> buckets[order[j]]]]

\* Zero when no usage came with the stream, or the model has no price.
CostUsd(usage, priced) == IF priced THEN usage ELSE 0

-----------------------------------------------------------------------------
(* ------------------------ a request and its stream -------------------- *)

\* stream_complete is given all messages.
OpenStream == /\ CallLLM
              /\ sent' = NoCalls /\ finished' = FALSE /\ accumulator' = NoCalls
              /\ toolCalls' = <<>>
              /\ UNCHANGED messages

SendText == ~finished /\ Delta /\ UNCHANGED conversation

SendToolCalls(S) ==
    /\ pc = "stream" /\ ~finished
    /\ \A i \in S : Len(FragmentsOf(sent, i)) < MaxFragments
    /\ sent' = Extended(sent, Fragments(S))
    /\ accumulator' = AccumulateToolCallDeltas(accumulator, Fragments(S))
    /\ UNCHANGED <<vars, finished, toolCalls, messages>>

SendFinish == /\ pc = "stream" /\ ~finished
              /\ finished' = TRUE
              /\ UNCHANGED <<vars, sent, accumulator, toolCalls, messages>>

\* The stream ends, finished or cut: the final chunk is made of what came.
EndStream ==
    /\ pc = "stream"
    /\ toolCalls' = FinalizeToolCalls(accumulator)
    /\ \E usage \in Costs, priced \in BOOLEAN :
          LET cost == CostUsd(usage, priced)
          IN  \/ toolCalls' = <<>> /\ FinalChunkContent(cost) /\ UNCHANGED messages
              \/ /\ toolCalls' # <<>>
                 /\ FinalChunkTools(cost, Len(toolCalls'))
                 /\ messages' = Append(messages,
                       Message("assistant", [j \in DOMAIN toolCalls' |-> toolCalls'[j].id]))
    /\ UNCHANGED stream

\* The request is refused, or the stream raises.
StreamFails == LLMFails /\ UNCHANGED conversation

-----------------------------------------------------------------------------
(* --------------------------- the tool calls --------------------------- *)

CurrentCall == toolCalls[Len(toolCalls) - calls + 1]

\* Variant: a tool's answer names the first call of the chunk.
AnswerCall_First ==
    /\ CompleteTool
    /\ messages' = Append(messages, Message("tool", <<toolCalls[1].id>>))
    /\ UNCHANGED <<stream, toolCalls>>

AnswerCall ==
    /\ CompleteTool
    /\ messages' = Append(messages, Message("tool", <<CurrentCall.id>>))
    /\ UNCHANGED <<stream, toolCalls>>

Dispatch == (Propose \/ ToolAnswers) /\ UNCHANGED conversation

\* The rest of the invocation, around the conversation.
Elsewhere ==
    /\ \/ Resolve \/ Refuse \/ EmitStart \/ EmitStartFails
       \/ StartIteration \/ CapReached \/ CompleteIteration
       \/ EmitEnd \/ EmitEndFails
       \/ SkipRecord \/ RecordRun \/ RecordFails \/ Collect
    /\ UNCHANGED conversation

Goes == OpenStream \/ EndStream \/ StreamFails \/ Dispatch \/ AnswerCall \/ Elsewhere

Leaves == Leave /\ UNCHANGED conversation
Stays == Finished /\ UNCHANGED conversation

ConversationNext ==
    \/ Goes
    \/ SendText \/ SendFinish
    \/ \E S \in SUBSET Indexes \ {{}} : SendToolCalls(S)
    \/ Leaves \/ Stays

\* What a stream brings is up to the provider; that it ends or raises is not.
ConversationSpec ==
    ConversationInit /\ [][ConversationNext]_allVars /\ WF_allVars(Goes)

-----------------------------------------------------------------------------
(* Whatever the order in which the fragments of several tool calls came, the
   calls that are dispatched are those that were sent, in the order of their
   indexes, each with all its fragments in their order and no other's. *)
CallsAsSent ==
    pc \in {"propose", "invoke", "executing"} =>
        /\ {c.arguments : c \in ToSet(toolCalls)} = {sent[i] : i \in DOMAIN sent}
        /\ \A j, k \in DOMAIN toolCalls :
              j < k => toolCalls[j].arguments[1].call < toolCalls[k].arguments[1].call
        /\ \A c \in ToSet(toolCalls) : \A k \in DOMAIN c.arguments : c.arguments[k].part = k

(* Every request is one the protocol admits: each message with tool calls is
   followed by one answer to each of them, in their order, and nothing else
   answers.  Providers refuse a conversation with a call left open. *)
RequestsAreAnswered ==
    pc = "stream" =>
        /\ \A k \in DOMAIN messages : messages[k].role = "assistant" =>
              \A j \in DOMAIN messages[k].ids :
                  /\ k + j \in DOMAIN messages
                  /\ messages[k + j] = Message("tool", <<messages[k].ids[j]>>)
        /\ \A k \in DOMAIN messages : messages[k].role = "tool" =>
              \E i \in 1..k - 1 : /\ messages[i].role = "assistant"
                                  /\ k - i \in DOMAIN messages[i].ids
=============================================================================
