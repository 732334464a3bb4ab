------------------------- MODULE IngestionPipeline -------------------------
(***************************************************************************)
(* The ingestion pipeline of one tenant: sources are registered, and       *)
(* worker processes claim them for parsing, embedding and extraction.      *)
(*                                                                         *)
(* Every committed database statement and every graph statement of a       *)
(* worker is a step; a worker may die between any two of them.  The chunks *)
(* of a source are written, and given their vectors, in one transaction    *)
(* each, so they are counted per source; graph statements commit one by    *)
(* one.  What a chunk says is abstracted to the names the extractor finds  *)
(* in the source, which differ from one attempt to the next.               *)
(***************************************************************************)
EXTENDS Integers, FiniteSets

CONSTANTS MaxSources,  \* bound: sources, numbered by created_at
          Workers,     \* worker processes
          Names,       \* entity names
          MaxCrashes,  \* bound: worker deaths
          MaxFlips,    \* bound: operator retries of a failed stage
          MaxRequeues  \* bound: operator resets of an in-flight source

ASSUME PipelineAssumption == /\ MaxSources \in Nat /\ MaxCrashes \in Nat
                             /\ MaxFlips \in Nat /\ MaxRequeues \in Nat

VARIABLES state,     \* sources.state, "absent" before register_source
          content,   \* what the raw bytes of a source parse to
          batches,   \* chunks table: how often the source's chunks are in it
          vectors,   \* sources whose chunks carry an embedding
          nodes,     \* graph: <<name, source>>, a chunk tag on an entity
          edges,     \* graph: <<from, to, source>>
          locked,    \* sources whose row a claim in progress has locked
          pc, stage, \* per worker: where in run_ingest_worker it is
          job,       \* per worker: the claimed source and what it found there
          crashes, flips, requeues

graph == <<nodes, edges>>
bounds == <<crashes, flips, requeues>>
vars == <<state, content, batches, vectors, nodes, edges, locked, pc, stage,
          job, crashes, flips, requeues>>

Sources == 1..MaxSources
Contents == {"malformed", "empty", "text"}
Links == Names \X Names
Stages == {"parse", "embed", "extract"}

\* The state a stage claims from, and the states it leaves on claim, success
\* and failure.
Pending == [parse |-> "received", embed |-> "parsed", extract |-> "embedded"]
InFlight == [parse |-> "parsing", embed |-> "embedding",
             extract |-> "extracting"]
Done == [parse |-> "parsed", embed |-> "embedded", extract |-> "indexed"]
Failed == [parse |-> "failed", embed |-> "embedding_failed",
           extract |-> "extraction_failed"]
After == [parse |-> "embed", embed |-> "extract", extract |-> "parse"]

NoJob == [src |-> 0, entities |-> {}, links |-> {}, todo |-> {}]

Init == /\ state = [s \in Sources |-> "absent"]
        /\ content \in [Sources -> Contents]
        /\ batches = [s \in Sources |-> 0]
        /\ vectors = {} /\ nodes = {} /\ edges = {} /\ locked = {}
        /\ pc = [w \in Workers |-> "poll"]
        /\ stage = [w \in Workers |-> "parse"]
        /\ job = [w \in Workers |-> NoJob]
        /\ crashes = 0 /\ flips = 0 /\ requeues = 0

Goto(w, label) == pc' = [pc EXCEPT ![w] = label]
SetStage(w, g) == stage' = [stage EXCEPT ![w] = g]
Keep(w, j) == job' = [job EXCEPT ![w] = j]
Src(w) == job[w].src

\* update_source_state: no guard on the state the row is in.
UpdateState(s, new) == state' = [state EXCEPT ![s] = new]

\* `continue`: the next iteration starts with the parse stage again.
Continue(w) == Goto(w, "poll") /\ SetStage(w, "parse") /\ Keep(w, NoJob)

-----------------------------------------------------------------------------
(* register_source; rows become visible in any order of their created_at. *)
Register(s) == /\ state[s] = "absent"
               /\ UpdateState(s, "received")
               /\ UNCHANGED <<content, batches, vectors, graph, locked, pc,
                              stage, job, bounds>>

-----------------------------------------------------------------------------
(* claim_pending_for_*: SELECT .. FOR UPDATE SKIP LOCKED, then UPDATE. *)

Claimable(g) == {s \in Sources : state[s] = Pending[g] /\ s \notin locked}
Oldest(S) == {s \in S : \A t \in S : s <= t}

\* Variant: SELECT without FOR UPDATE.
LockPending_Unlocked(w) ==
    /\ pc[w] = "poll"
    /\ \E s \in Oldest(Claimable(stage[w])) : Keep(w, [NoJob EXCEPT !.src = s])
    /\ Goto(w, "claim")
    /\ UNCHANGED <<state, content, batches, vectors, graph, locked, stage,
                   bounds>>

LockPending(w) ==
    /\ pc[w] = "poll"
    /\ \E s \in Oldest(Claimable(stage[w])) :
          /\ locked' = locked \union {s}
          /\ Keep(w, [NoJob EXCEPT !.src = s])
    /\ Goto(w, "claim")
    /\ UNCHANGED <<state, content, batches, vectors, graph, stage, bounds>>

\* Variant: an empty queue ends the iteration.
ClaimNone_Sleeps(w) ==
    /\ pc[w] = "poll"
    /\ Claimable(stage[w]) = {}
    /\ Goto(w, "sleep")
    /\ SetStage(w, "parse")
    /\ UNCHANGED <<state, content, batches, vectors, graph, locked, job,
                   bounds>>

\* None: nothing to claim; after the last stage the worker sleeps.
ClaimNone(w) ==
    /\ pc[w] = "poll"
    /\ Claimable(stage[w]) = {}
    /\ Goto(w, IF stage[w] = "extract" THEN "sleep" ELSE "poll")
    /\ SetStage(w, After[stage[w]])
    /\ UNCHANGED <<state, content, batches, vectors, graph, locked, job,
                   bounds>>

Claim(w) ==
    /\ pc[w] = "claim"
    /\ UpdateState(Src(w), InFlight[stage[w]])
    /\ locked' = locked \ {Src(w)}
    /\ Goto(w, "read")
    /\ UNCHANGED <<content, batches, vectors, graph, stage, job, bounds>>

\* The poll interval elapses.
Wake(w) ==
    /\ pc[w] = "sleep"
    /\ Goto(w, "poll")
    /\ UNCHANGED <<state, content, batches, vectors, graph, locked, stage, job,
                   bounds>>

-----------------------------------------------------------------------------
(* The end of a stage: one unguarded UPDATE, which waits for a claim that has
   locked the row, and back to the loop. *)

\* Variant: a failed stage puts the source back into its queue.
Fail_Requeue(w) ==
    /\ Src(w) \notin locked
    /\ UpdateState(Src(w), Pending[stage[w]])
    /\ Continue(w)
    /\ UNCHANGED <<content, batches, vectors, graph, locked, bounds>>

Fail(w) == /\ Src(w) \notin locked
           /\ UpdateState(Src(w), Failed[stage[w]])
           /\ Continue(w)
           /\ UNCHANGED <<content, batches, vectors, graph, locked, bounds>>

Finish(w) == /\ pc[w] = "finish"
             /\ Src(w) \notin locked
             /\ UpdateState(Src(w), Done[stage[w]])
             /\ Continue(w)
             /\ UNCHANGED <<content, batches, vectors, graph, locked, bounds>>

\* Variant: the source is marked parsed before its chunks are saved.
Parse_StateFirst(w) ==
    /\ pc[w] = "read" /\ stage[w] = "parse"
    /\ \/ content[Src(w)] = "malformed" /\ Fail(w)
       \/ /\ content[Src(w)] # "malformed"
          /\ Goto(w, IF content[Src(w)] = "text" THEN "write" ELSE "finish")
          /\ UpdateState(Src(w), "parsed")
          /\ UNCHANGED <<content, batches, vectors, graph, locked, stage, job,
                         bounds>>

\* parse_source: ParserError; no chunks to save; chunks to save.
Parse(w) ==
    /\ pc[w] = "read" /\ stage[w] = "parse"
    /\ \/ content[Src(w)] = "malformed" /\ Fail(w)
       \/ /\ content[Src(w)] # "malformed"
          /\ Goto(w, IF content[Src(w)] = "text" THEN "write" ELSE "finish")
          /\ UNCHANGED <<state, content, batches, vectors, graph, locked,
                         stage, job, bounds>>

\* Variant: no UNIQUE (source_id, chunk_index).
SaveChunks_NotUnique(w) ==
    /\ pc[w] = "write" /\ stage[w] = "parse"
    /\ batches' = [batches EXCEPT ![Src(w)] = @ + 1]
    /\ Goto(w, "finish")
    /\ UNCHANGED <<state, content, vectors, graph, locked, stage, job, bounds>>

\* A second batch of the same chunk indexes is an IntegrityError, which no
\* handler of the worker catches.
SaveChunks(w) ==
    LET s == Src(w)
    IN  /\ pc[w] = "write" /\ stage[w] = "parse"
        /\ \/ /\ batches[s] = 0
              /\ batches' = [batches EXCEPT ![s] = 1]
              /\ Goto(w, "finish") /\ UNCHANGED <<stage, job>>
           \/ /\ batches[s] # 0
              /\ Goto(w, "dead") /\ SetStage(w, "parse") /\ Keep(w, NoJob)
              /\ UNCHANGED batches
        /\ UNCHANGED <<state, content, vectors, graph, locked, bounds>>

-----------------------------------------------------------------------------
(* embed_source and extract_source begin alike: without chunks the stage is
   done, else the model gateway is called; a gateway error fails the stage. *)

ReadChunks(w) ==
    /\ pc[w] = "read" /\ stage[w] # "parse"
    /\ Goto(w, IF batches[Src(w)] = 0 THEN "finish" ELSE "call")
    /\ UNCHANGED <<state, content, batches, vectors, graph, locked, stage, job,
                   bounds>>

GatewayError(w) == /\ pc[w] = "call"
                   /\ Fail(w)

Embed(w) ==
    /\ pc[w] = "call" /\ stage[w] = "embed"
    /\ Goto(w, "write")
    /\ UNCHANGED <<state, content, batches, vectors, graph, locked, stage, job,
                   bounds>>

UpsertEmbeddings(w) ==
    /\ pc[w] = "write" /\ stage[w] = "embed"
    /\ vectors' = vectors \union {Src(w)}
    /\ Goto(w, "finish")
    /\ UNCHANGED <<state, content, batches, graph, locked, stage, job, bounds>>

\* Variant: relationships whose endpoints were not extracted are kept.
Extract_Dangling(w) ==
    /\ pc[w] = "call" /\ stage[w] = "extract"
    /\ \E es \in SUBSET Names, ls \in SUBSET Links :
          Keep(w, [src |-> Src(w), entities |-> es, links |-> ls, todo |-> es])
    /\ Goto(w, "merge")
    /\ UNCHANGED <<state, content, batches, vectors, graph, locked, stage,
                   bounds>>

\* The extractor drops relationships whose endpoints it did not extract.
Extract(w) ==
    /\ pc[w] = "call" /\ stage[w] = "extract"
    /\ \E es \in SUBSET Names : \E ls \in SUBSET (es \X es) :
          Keep(w, [src |-> Src(w), entities |-> es, links |-> ls, todo |-> es])
    /\ Goto(w, "merge")
    /\ UNCHANGED <<state, content, batches, vectors, graph, locked, stage,
                   bounds>>

-----------------------------------------------------------------------------
(* merge_entities, then merge_relationships: one MERGE per step. *)

MergeEntity(w) ==
    /\ pc[w] = "merge"
    /\ \E n \in job[w].todo :
          /\ nodes' = nodes \union {<<n, Src(w)>>}
          /\ Keep(w, [job[w] EXCEPT !.todo = @ \ {n}])
    /\ UNCHANGED <<state, content, batches, vectors, edges, locked, pc, stage,
                   bounds>>

EntitiesMerged(w) ==
    /\ pc[w] = "merge" /\ job[w].todo = {}
    /\ Keep(w, [job[w] EXCEPT !.todo = job[w].links])
    /\ Goto(w, "link")
    /\ UNCHANGED <<state, content, batches, vectors, graph, locked, stage,
                   bounds>>

\* An entity is one node however many sources mention it.
InGraph(n) == \E s \in Sources : <<n, s>> \in nodes

\* MATCH both ends, MERGE the edge: without both ends nothing is written.
MergeLink(w) ==
    /\ pc[w] = "link"
    /\ \E l \in job[w].todo :
          /\ edges' = IF InGraph(l[1]) /\ InGraph(l[2])
                      THEN edges \union {<<l[1], l[2], Src(w)>>} ELSE edges
          /\ Keep(w, [job[w] EXCEPT !.todo = @ \ {l}])
    /\ UNCHANGED <<state, content, batches, vectors, nodes, locked, pc, stage,
                   bounds>>

LinksMerged(w) ==
    /\ pc[w] = "link" /\ job[w].todo = {}
    /\ Goto(w, "finish")
    /\ UNCHANGED <<state, content, batches, vectors, graph, locked, stage, job,
                   bounds>>

\* GraphRepositoryError: what was merged stays.
GraphError(w) == /\ pc[w] \in {"merge", "link"}
                 /\ Fail(w)

-----------------------------------------------------------------------------
(* The environment of the workers. *)

\* SIGKILL, a lost connection, an exception no handler catches: locks go,
\* commits stay.  A shutdown by signal is a death while polling.
Die(w) ==
    /\ pc[w] # "dead" /\ crashes < MaxCrashes
    /\ crashes' = crashes + 1
    /\ locked' = IF pc[w] = "claim" THEN locked \ {Src(w)} ELSE locked
    /\ Goto(w, "dead") /\ SetStage(w, "parse") /\ Keep(w, NoJob)
    /\ UNCHANGED <<state, content, batches, vectors, graph, flips, requeues>>

Restart(w) ==
    /\ pc[w] = "dead"
    /\ Goto(w, "poll")
    /\ UNCHANGED <<state, content, batches, vectors, graph, locked, stage, job,
                   bounds>>

\* The operator's documented retry of a failed parse or embedding.
FlipBack(s) ==
    /\ flips < MaxFlips
    /\ \E g \in {"parse", "embed"} : /\ state[s] = Failed[g]
                                     /\ UpdateState(s, Pending[g])
    /\ flips' = flips + 1
    /\ UNCHANGED <<content, batches, vectors, graph, locked, pc, stage, job,
                   crashes, requeues>>

\* The operator's reset of a row that has been in flight for long.  The rows
\* do not tell whether their worker is dead or slow.
Requeue(s) ==
    /\ requeues < MaxRequeues
    /\ \E g \in Stages : /\ state[s] = InFlight[g]
                         /\ UpdateState(s, Pending[g])
    /\ requeues' = requeues + 1
    /\ UNCHANGED <<content, batches, vectors, graph, locked, pc, stage, job,
                   crashes, flips>>

-----------------------------------------------------------------------------
Work(w) == \/ LockPending(w) \/ ClaimNone(w) \/ Claim(w) \/ Wake(w)
           \/ Parse(w) \/ SaveChunks(w)
           \/ ReadChunks(w) \/ GatewayError(w)
           \/ Embed(w) \/ UpsertEmbeddings(w)
           \/ Extract(w) \/ MergeEntity(w) \/ EntitiesMerged(w)
           \/ MergeLink(w) \/ LinksMerged(w) \/ GraphError(w)
           \/ Finish(w)

Next == \/ \E w \in Workers : Work(w) \/ Die(w) \/ Restart(w)
        \/ \E s \in Sources : Register(s) \/ FlipBack(s) \/ Requeue(s)

\* A live worker goes on and a dead one is started again.
Spec == Init /\ [][Next]_vars
             /\ \A w \in Workers : WF_vars(Work(w)) /\ WF_vars(Restart(w))

-----------------------------------------------------------------------------
States == {"absent", "received", "parsing", "parsed", "failed", "embedding",
           "embedded", "embedding_failed", "extracting", "indexed",
           "extraction_failed"}
Labels == {"poll", "claim", "read", "call", "write", "merge", "link", "finish",
           "sleep", "dead"}
Job == [src: 0..MaxSources, entities: SUBSET Names, links: SUBSET Links,
        todo: SUBSET (Names \union Links)]
Holding(w) == pc[w] \in Labels \ {"poll", "sleep", "dead"}

(* Type invariant: rows, graph and workers have their shapes, and a worker in
   the middle of a stage has a source, and statements left only while merging. *)
TypeOK ==
    /\ state \in [Sources -> States]
    /\ content \in [Sources -> Contents]
    /\ batches \in [Sources -> 0..1]
    /\ vectors \subseteq Sources /\ locked \subseteq Sources
    /\ nodes \subseteq Names \X Sources
    /\ edges \subseteq Names \X Names \X Sources
    /\ pc \in [Workers -> Labels] /\ stage \in [Workers -> Stages]
    /\ job \in [Workers -> Job]
    /\ \A w \in Workers : /\ Holding(w) => Src(w) \in Sources
                          /\ pc[w] = "merge" => job[w].todo \subseteq Names
                          /\ pc[w] = "link" => job[w].todo \subseteq Links
    /\ crashes \in 0..MaxCrashes /\ flips \in 0..MaxFlips
    /\ requeues \in 0..MaxRequeues

(* As long as no operator resets an in-flight row, a worker is the only one on
   its source, and the source's state is the one its stage claimed: the state
   updates need no guard because nobody else writes the row. *)
OwnsItsSource ==
    requeues = 0 =>
      \A w \in Workers : Holding(w) =>
        /\ state[Src(w)] = IF pc[w] = "claim" THEN Pending[stage[w]]
                                              ELSE InFlight[stage[w]]
        /\ \A v \in Workers \ {w} : Holding(v) => Src(v) # Src(w)

(* What a source's state promises about its data: no chunks are left behind by
   a failed parse, which is why it can be retried at all; from parsed on the
   chunks are there, from embedded on the vectors too.  Deaths, retries and
   resets included. *)
StateTellsData ==
    \A s \in Sources :
      LET reached(S) == state[s] \in S
      IN  /\ reached({"absent", "failed"}) => batches[s] = 0
          /\ reached({"received"}) /\ requeues = 0 => batches[s] = 0
          /\ reached({"parsed", "embedding", "embedding_failed", "embedded",
                      "extracting", "extraction_failed", "indexed"})
               => (batches[s] = 1 <=> content[s] = "text")
          /\ reached({"embedded", "extracting", "extraction_failed", "indexed"})
               => (s \in vectors <=> content[s] = "text")

(* A source becomes indexed only when everything the extractor found in this
   attempt is in the graph: no relationship was dropped for a missing end, and
   partial merges of earlier attempts do no harm. *)
IndexedIsInGraph ==
    [][\A s \in Sources : state[s] # "indexed" /\ state'[s] = "indexed" =>
         \E w \in Workers :
           /\ Src(w) = s
           /\ \A n \in job[w].entities : <<n, s>> \in nodes
           /\ \A l \in job[w].links : <<l[1], l[2], s>> \in edges]_vars

\* Without resets the state column follows the diagram of domain/state.py.
Lifecycle == INSTANCE SourceLifecycle
ImplementsLifecycle == Lifecycle!Spec

Settled == {"failed", "embedding_failed", "extraction_failed", "indexed"}

(* Every registered source is indexed or reported as failed in the end; with
   finitely many sources no stage starves the later ones. *)
Settles == \A s \in Sources : state[s] = "received" ~> state[s] \in Settled

(* The S21 brief's claim: a worker that dies while a source is extracting
   completes it after a restart. *)
ExtractionCompletes ==
    \A s \in Sources : state[s] = "extracting" ~> state[s] \in Settled

=============================================================================
