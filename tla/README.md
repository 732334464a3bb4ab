# Verification of Padhanam

Padhanam is a multi-tenant platform on which users ingest documents, run agents
over them, curate gold sets, evaluate retrieval against these and get
recommendations from the results. Every state change is recorded in a
hash-chained audit log. This directory holds TLA+ models of its core, the
TLC configurations that check them on small instances, and TLAPS proofs that
hold for every value of the constants.

The paths below are relative to `src/` of the repository.

## 1. The system

| Part | State | Operations | Hard behaviour |
|---|---|---|---|
| Audit chain writer, `contexts/audit` | a `tenant_audit` table per destination (control plane, each tenant): rows ordered by (timestamp, id), each with the hash of its predecessor | `emit`, `verify_chain` | emitters of many processes share the tail row under READ COMMITTED; the timestamp is drawn before the transaction |
| Audit reader, `contexts/audit` | none | filtered pages, verification of a page | pages and chain have different orders |
| Gold sets, `contexts/retrieval_evaluation` | gold set, its revisions (draft, finalized), entries | create, append an entry, finalize | every use case is a series of sessions; no row locks |
| Evaluation runs, same context | run row, results, aggregates, audit events | `run_retrieval_evaluation` | dozens of awaited calls, any of which can fail; a handler that itself calls |
| Optimization, `contexts/optimization` | engine runs, recommendations, transition rows | `run_optimization`, acknowledge, apply, reject | rules page through runs that go on; users race on a recommendation |
| Ingestion, `contexts/ingestion` | source state, chunks, vectors (Postgres), entities and relationships (Neo4j) | register, parse, embed, extract; worker loop; operator retries | worker processes, `SKIP LOCKED` claims, death between two commits, graph statements that commit one by one |
| Agent invocation, `contexts/agent` | two nested generators, each with tallies; audit rows; run row | `execute`, `invoke_agent`, `collect_to_result` | failing calls, tool refusals, lost answers of commits, consumers that leave |
| Run history, `contexts/run_history` | run rows with citations | record, list, get | one transaction per run, keyset pages |
| Agents, roles, methodologies, tools | templates with numbered, hash-linked revisions; roles, methodologies and tools in the control plane, agents in each tenant's database | create, add revision, archive, clone; data migrations up and down | read and insert in different sessions; migrations that rewrite and rehash rows between calls; pins without foreign keys |
| Tenancy, `contexts/tenancy` | registry; process-local cache of engines and session factories | register, change status, cache get, invalidate | awaits between the miss and the store, between the change and its audit |
| Inference, `contexts/inference` | the accumulator of one stream | a streamed completion, a plain one | tool calls in interleaved fragments, streams cut short |
| Retrieval adapters, `contexts/ingestion` | none | vector search, graph traversal | two databases read one after the other while the pipeline writes |
| API, CLI, `apps/` | requests and commands | authentication, tenant context, ports, calls, errors, cleanup | any call fails; what is answered, what is committed, what is closed |
| Scoring-sheet evaluation, observability | none | replay, compare, cost queries | none that is concurrent |
| `padhanam/`, schema migrations, ops | none of their own | cryptography, schema | none |

How they interact: use cases call repositories (Postgres through the tenant's
session factory, each call with a session and a transaction of its own) and then
`audit_port.emit`, another transaction; no state change and its audit event
commit together. Ingestion workers share nothing but the database. The agent
consumes retrieval through tool calls and writes through run history; evaluation
runs read gold-set revisions; the optimization engine reads evaluation runs and
run history.

What makes each part correct:

- *audit chain*: no link to a row that is not there, detectable forks, tables
  that verify when emits do not overlap;
- *gold sets*: one linear chain of sealed revisions, gapless entries, a seal that
  nothing changes;
- *ingestion*: one worker per source and stage, a state column that never
  promises data that is not there, and an end for every source;
- *agent*: the run row and the collected result are projections of the audit
  chain; cost and citations are neither lost nor doubled; the loop ends;
- *evaluation and optimization*: runs end once and then stay as they are,
  recommendations rest on complete evidence, transition histories are unbroken,
  and the audit chain accounts for all of it up to the call that failed;
- *catalogue*: chains that verify whatever calls race and whatever migration
  runs, agents that resolve, tools whose new revisions serve old calls, and
  overrides that never loosen what a role allows;
- *tenancy, API and CLI*: every engine is somebody's to close, a change of
  status reaches the cache and the audit chain, and an answer says what happened.

`PROJECT.json` lists every component with its status and every hazard at the line
where it bites, with the properties that cover it.

## 2. The modules

| Module | Role |
|---|---|
| `AuditChain` | the audit writer |
| `AuditPages` | extends `AuditChain` with consumers that page through a table; `AuditChainProofs` |
| `GoldSet` | gold-set authoring; `GoldSetProofs` |
| `RevisionLog` | abstract: a line of sealed revisions; `GoldSet` implements it |
| `IngestionPipeline` | sources, workers, graph |
| `SourceLifecycle` | abstract: the diagram of `domain/state.py`; `IngestionPipeline` implements it |
| `GraphTraversal` | extends `IngestionPipeline` with a retrieval that runs meanwhile; `IngestionProofs` |
| `AgentRun` | executor, `invoke_agent`, consumers |
| `AgentConversation` | extends `AgentRun` with the provider's stream, the adapter that assembles it and the messages of the requests; `AgentProofs` |
| `RunLedger` | abstract: a start row, at most one end row, a run row that repeats it; `AgentRun` implements it |
| `EvaluationRuns` | `run_retrieval_evaluation`, several runs |
| `Optimization` | extends `EvaluationRuns` with the engine, its rules and the users; the composition of the two contexts; `OptimizationProofs` |
| `TrackedRuns` | abstract: runs that end once and are written only before; `Optimization` implements it for both kinds of runs |
| `Composition` | operators: an agent's constraint bundle, of a role and a methodology's overrides |
| `ToolCompatibility` | operators: the compatibility check of tool revisions, and its reference, the calls a schema accepts |
| `Catalogue` | roles, methodologies, tools and agents under concurrent calls; uses the two above |
| `CatalogueMigrations` | extends `Catalogue` with the data migrations; `MigrationProofs` (the migrations' steps), `CatalogueProofs` (the calls and the theorems) |
| `TenantRouting` | the registry of tenants and the cache of engines |
| `Ports`, `ApiRoutes`, `CliCommands` | data: the operations behind the API and the CLI, each route and each command |
| `Platform` | composes `TenantRouting` with the requests and commands; `PlatformProofs` |

Each cfg instantiates a module directly; the constants are small sets, so the
modules need no MC module. Operators whose names contain `_` and that are
introduced as a *Variant* are plausible bugs of the code, used only to show
that a property can fail; `PROJECT.json` says which property each one breaks.

### AuditChain

An emitter drafts an event, which draws its timestamp (`DraftEvent`), reads the
tail of the destination's table (`ReadTail`), waits for the tail's row lock
(`LockTail`), inserts and commits (`InsertRow`), or rolls back at any point
(`Rollback`). A hash is the number of the event it covers: payloads differ, so
hashes do. Postgres is external: a statement sees what was committed when it
started, and a `FOR UPDATE` that waited goes on with the row it found if that row
was not modified. Two assumptions are about time: a commit takes longer than the
microsecond the timestamps resolve (`InsertRow` advances the clock), and the
clocks of the processes agree. `overlapped` is a history variable: tables to
which two emits were under way at once.

### AuditPages

A page is one SELECT (`ListFirst`, `ListNext`): the rows beyond the cursor that
match the filters, newest first, with the verdict of `_verify_segment` on the
rows of the page. Rows are never updated, so the verdict `broken_at_row` does not
occur. Beside it the model keeps what was committed when the walk began, what it
was given, and what `verify_chain` would say of the whole table. The reader's doc
(`domain/chain_integrity.py`) reserves `partial` for fewer than two rows and
filtered pages; the code also gives it to an unfiltered page of a forked or
out-of-order chain.

### GoldSet

Every read, check and committed write of `append_entry_to_revision` and
`finalize_revision` is a step of its own, and an actor's `call` is what it has
read. The UNIQUE constraints of the tables are guards, and a violated one ends
the call. A revision's hash is what it binds: number, entries read, predecessor.

### IngestionPipeline

A worker is a process in the loop of `run_ingest_worker`: claim (`LockPending`,
`Claim`), then the stage's statements, then `Finish`. Chunks and vectors are
written in one transaction each; `MergeEntity` and `MergeLink` are single graph
statements. `Die` can happen at any of them and `Restart` starts a process
afresh. `FlipBack` is an operator's retry of a failed stage, `Requeue` a reset of
an in-flight row by hand (`charter/deferred-decisions.md:484`), when the rows do
not tell whether the worker is dead or slow. An attempt of the
extractor may find other names than the one before.

### GraphTraversal

A vector search is one statement. A traversal is two, in two databases:
`ReadIndexedChunkIds` in Postgres, `TraverseFromSeed` in Neo4j, and the workers
go on between them. The second is one query of committed data and one step here;
all it is required to find was committed before the first. Relationships carry
their source, and the walk may cross those of other sources: `Within` is the
entities that a path of at most `Depth` relationships reaches. The adapter gives
the graph's hits the first chunk id as `source_id`; identifiers are not
modelled beyond the source a chunk belongs to. The pipeline's actions appear as
`Works`, `Dies`, `Restarts`, `Registers`, `FlipsBack` and `Requeued`, which leave
the retrieval alone.

### AgentRun

The two generators are suspended at one point, `pc`, since the outer one runs
only between two events of the inner one. `tallies` are the executor's, `acc` is
`invoke_agent`'s. Every awaited call has an action for its failure, and the two
audit calls have one for a commit whose answer is lost (`LoseAck`). `Leave` is a
consumer that stops reading: a disconnect (`CancelledError`, `GeneratorExit`) is
not an `Exception`, so no handler runs. `Collect` is `collect_to_result`.

### AgentConversation

`AgentRun` lets a final chunk carry any number of tool calls. Here they come from
a stream: the provider sends fragments of several calls in any order
(`SendToolCalls`), `AccumulateToolCallDeltas` collects them by index, and
`EndStream` builds the final chunk of what came. The adapter does not look at the
finish reason, so a stream that ends early without an error is a complete reply:
`EndStream` is enabled whether the provider has `finished` or not. Then
arguments are cut and the reply of an invocation may be, which ends with the reason
`content`; arguments that are no JSON become an empty query
(`_parse_retrieval_query`). `InOrder` is the adapter's `sorted()`. `AnswerCall` appends the tool's message, and
`OpenStream` sends all of them. A cost is zero without usage or without a price
for the model (`CostUsd`).

### Catalogue and CatalogueMigrations

Creations are one session. An update reads the latest revision in one session and
inserts its successor in another, so that a `call` is what it is about to insert;
a clone resolves its source first. The UNIQUE constraints are guards. A hash is
the sequence of all contents it binds. Allowlists, scores, role references,
overrides and schemas are chosen from small sets that hold each mode of an
override, an override that must be refused, and each way a schema can be
compatible or not; the other fields of a bundle are one value each.

`CatalogueMigrations` has each data migration as an action, up and down, of the
control plane (`schema`, 5 to 13) and of the tenant's database (`tenant`, 8 to
10); 0011 touches no row of the catalogue. A migration is one transaction that
rewrites rows and may rehash chains (`Rewalk`); calls go on between migrations,
and one that read before and inserts after is `straddled`. `disturbed` is a
history variable: the chains with what happened to them that the code does not
repair. It records what the sources do:

- 0007 renames a template and rehashes only its first revision, though names are
  in every hash;
- 0012 leaves a row whose allowlist is not empty as it is, chained to the old hash
  of a row before it that was rewritten, although its docstring (lines 28-30)
  says that each subsequent revision re-anchors;
- the downgrade of 0006 brings bundles back under the hashes of the references;
  on the way up, 0006 gives each revision of a methodology the role built from
  its first, and two methodologies of one name make it abort;
- 0013 says "no downgrade path" and has one.

### TenantRouting and Platform

`TenantRouting` has the awaits of the cache (`Miss`, `StoreEngine`,
`OpenSession`) and of a change of status (`ReadBefore`, `CommitStatus`,
`EmitAudit`, `Invalidate`, `Dispose`) as steps of their own; there is no lock, and
what is between two awaits runs alone. Credentials are those at the start of
their await. `excused` is a history variable: tenants with what happened that
the cache cannot repair: two misses that overlapped, a search that holds a
sessionmaker across an invalidation, a miss that stores after one, a change whose
audit failed.

`Ports`, `ApiRoutes` and `CliCommands` are tables: a route or command is a record
of what it checks first, the calls it may make, the error each can raise and the
status or exit code that becomes. `Platform` interprets them: one action per
phase of a request (`Arrive`, `ResolveTenant`, `StartCall`, `FinishCall`,
`FailCall`, `Finish`) or of a command (`Invoke`, `CloseEngine`, `Exit`). What the
tables show by themselves:

- some errors have no handler and are a 500: an unknown `termination_reason` in
  the run list's query, blanks as the name of a gold set or the query of an entry
  (an append may have opened a draft by then), datetimes of which one has no zone
  in the audit and run lists, and a path of the operator's test event that is no
  UUID (`Unanswered`);
- a suspended tenant is served like an active one, as nothing that resolves
  credentials looks at the status;
- the registry's operations have no caller in the applications beyond seeding;
  nothing disposes the engines of the API when it stops; other processes are
  never told of a change;
- the CLI gives both tenants one jurisdiction, where the seed gives them two, and
  its evaluation never has results of the graph, where the API's has.

### EvaluationRuns and Optimization

A run is at the call it awaits (`evalPc`). `Returns` performs the call and goes
on, `Raises` does the same with or without the call's effect and goes to the
handler, `Dies` is a killed process. Of an entry's result the recall at 3 is kept,
in percent, and of an aggregate the sum; means are compared by multiplying the
threshold by the number of entries, so the arithmetic is exact. Runs are numbered
in the order of (invoked_at, id), in which `list_runs` pages, and are inserted in
any order.

`Optimization` adds the engine in the same style (`EngineReturns`,
`EngineRaises`, `EngineDies`). Its retrieval-strategy rule reads a page
(`ListRuns`) and then one snapshot at a time (`InspectRun`) while evaluation runs
go on. The cost rule flags any set of templates: its sums over the run history
are left out, as are the recommendations' texts and caveats. The other two rules
always report a gap. A user reads and checks a recommendation (`Request`),
updates it where it still has the status that was read (`PersistTransition`), and
emits the event. `known` is a history variable: runs that were complete when an
engine run began.

## 3. The runs

| Run | Checks | Distinct states |
|---|---|---|
| `audit_two_writers` | `ForkDetected`, `SequentialIntact`, `WalkCoversSnapshot`, `VerdictsAgree`, `EmitEnds` | 784,478 |
| `audit_divergence` | violates `NoDivergence` | |
| `goldset_authors` | `TypeOK`, `LinearChain`, `IndexesContiguous`, `ImplementsLog` | 852,825 |
| `goldset_late_entry` | violates `FinalizedEntriesFixed` | |
| `ingestion_workers` | `OwnsItsSource`, `ImplementsLifecycle`, `Settles` | 122,331 |
| `ingestion_recovery` | `TypeOK`, `StateTellsData`, `IndexedIsInGraph`, `SurfacesWholeSources` | 725,430 |
| `ingestion_restart` | violates `ExtractionCompletes` | |
| `agent` | `ProjectsTheAudit`, `ReportsItsCost`, `CitesWhatWasRetrieved`, `CallsAsSent`, `RequestsAreAnswered`, `StopsWorking`, `Answered`, `AnswerIsRecorded`, `ImplementsLedger` | 420,431 |
| `agent_collect` | violates `CollectedIsRecorded` | |
| `optimization_loop` | `AuditAccountsForRecords`, `EvidenceIsSound`, `ConsidersEvidenceOnce`, `TransitionHistory`, `StoppedRunsHaveEnded`, `ImplementTrackedRuns` | 911,540 |
| `catalogue` | `IntactUnlessDisturbed`, `AdoptionIsSafe`, `AgentsResolve`, `NeverLooserThanItsRole`, `PinnedIsFixed` | 629,880 |
| `platform` | `EnginesAccounted`, `FlushedByTransition`, `AuditTellsStatus`, `AnswersAreHonest` | 1,421,987 |

### What they show

- Two emitters that wait for the same tail row both link to it: the lock does
  not keep the chain from forking (`audit_divergence`), though the adapter's
  header says so. A fork never verifies, however (`ForkDetected`). Timestamps
  drawn early make `verify_chain` walk an unforked chain in another order than
  its links and report a break; without overlap, a table verifies
  (`SequentialIntact`). A walk by pages misses and repeats nothing that was there
  when it began, though emits commit before and behind its cursor
  (`WalkCoversSnapshot`); a verified page holds no fork, but nobody verifies the
  link between two pages (`VerdictsAgree`).
- Concurrent calls on a gold set keep its chain linear and its entries gapless,
  by the UNIQUE constraints and by comparing the status in the finalizing
  UPDATE. But an append that saw the draft can insert after the finalization
  (`goldset_late_entry`), and an entry that arrives between finalize's read and
  its write is in the revision and not in its hash.
- Claims are exclusive, so that a stage's unguarded final UPDATE never overwrites
  another worker's; that ends where an operator resets a row under a live worker.
  The state column's promises about chunks and vectors survive deaths, retries
  and resets. A source whose worker dies stays in flight: the brief's claim that
  a restart completes an interrupted extraction does not hold
  (`ingestion_restart`). A retrieval meanwhile surfaces sources whole or not at
  all, unless an operator resets a live worker's source
  (`SurfacesWholeSources`).
- Whatever fails and whoever leaves, a run row repeats the end row of the audit
  chain or says failed. A consumer that collects never gets a run row
  (`agent_collect`): `collect_to_result` returns at the terminal event and so
  drops the generator before it writes. The tool calls that are dispatched are
  those the provider sent, however their fragments interleave (`CallsAsSent`), and
  each request answers all calls of the replies before it
  (`RequestsAreAnswered`).
- Keyset pages neither repeat nor miss evidence while runs start and end;
  recommendations rest on all results of a completed run; of two users one is
  refused; and wherever a run stops, the audit chain misses at most the event of
  the last record. `StoppedRunsHaveEnded` has the limits of the handler in its
  statement: a start event that fails (it is emitted outside the `try`), a second
  failure inside the handler, and a killed process leave a row running for ever.

- Racing updates of one template keep its chain intact by UNIQUE on the version;
  what breaks chains is migrations, in the ways listed above and no others
  (`IntactUnlessDisturbed`). Agents resolve for ever, but for downgrades that
  delete templates (`AgentsResolve`). Where `list_roles_using_tool` says that a role
  can adopt a tool's latest revision, that revision serves every call written
  against the pinned one, unless a property without a type in between hid a
  narrowing, or an update read the tool before a migration deleted and seeded it
  again (`AdoptionIsSafe`). From 0006 on, when methodologies have overrides, one
  that does not replace a field never admits what the role does not
  (`NeverLooserThanItsRole`), and what a cloned agent is invoked with is changed
  by migrations only, except that a tool it names by a pin that resolved to
  nothing can appear (`PinnedIsFixed`).
- The cache loses an engine when two misses overlap, revives one when a search
  embeds its query across an invalidation, and keeps a stale one when a miss
  awaits across it or the change could not be audited: these, and nothing else
  (`EnginesAccounted`, `FlushedByTransition`). The registry's audit events tell its
  history unless two changes overlap or one is lost (`AuditTellsStatus`).
- A request that is refused has committed nothing, and a 500 is a failure or one
  of the errors listed above (`AnswersAreHonest`).

### Bounds, and why they are enough

- `AuditChain`: three events, two emitters, two tables (one in the violating
  run). A fork needs two rows besides the one they share; a third
  emitter would repeat the second. `MaxTicks = 1` lets timestamps be equal or
  different.
- `AuditPages`: one consumer of the tenant's table, one walk, pages of one to
  three rows, with and without a filter that leaves out the middle event. Emits
  can commit before, between and after the pages of the walk.
- `GoldSet`: three calls at once, two queries, two revisions of up to two
  entries: two appends and a finalize can meet at every statement, before and
  after the second revision was opened.
- `IngestionPipeline`: the workers' run has two sources and two workers, so both
  can want the same row or pass each other; the recovery run has one source with
  one death, one retry and one reset, so that each can hit a source that another
  worker holds, and two names, so that a second attempt may find others. Both
  have one retrieval, with a traversal of one hop. Only with two sources does a
  walk cross relationships of another source; the properties of the recovery run
  also hold there (two sources, one worker, 3,129,600 states), which takes too
  long for the regular runs.
- `AgentConversation`: three iterations of up to two tool calls of up to two
  fragments, so that fragments of two calls interleave and a request follows two
  answered replies; a cost of 0 or 1, one citation (each chunk or entity is
  treated alone), two lost answers (one per audit call). `AgentRun` by itself was
  also run with three costs and two citations.
- `Optimization_loop`: two evaluation runs over one entry with both strategies,
  pages of one run, one engine run, one template, two users. `MaxActivity = 3`
  bounds evaluation runs started, requests and failures together: two runs and a
  failure or a request, or a run and two requests, are the combinations in which
  something can meet. The recalls 0 and 20 lie on both sides of the threshold
  of 15.
- `CatalogueMigrations`: two operators with two calls between them, of which one
  before both databases are at their heads (`MaxEarlyCalls`), and one downgrade of
  one step. Two calls are enough to race on a template, to straddle a migration
  and to revise what the other has pinned. It starts before 0006 with a
  methodology of one or two revisions and an agent cloned from it, or at 0009
  with a role of two revisions; allowlists are empty or name a tool before or
  after the pins. Operators give one name, `LVTGuide`, which the migrations give
  too, and one role stands for the seven that 0008 seeds. Whether a clone's
  source exists is taken for granted.
- `Platform`: one tenant, which is not registered at first; two operators with
  one change of status between them; one caller that makes any request of any
  route with any token, or runs any command, and one that searches in the
  background; three engines, so that an overlap and an invalidation can each lose
  one. A caller makes one request: what a request leaves behind is in the cache
  and the registry. Evaluation and optimization have one entry each.

In `optimization_loop`, `catalogue` and `platform` everything ends and the bounds
are used up, so deadlock is not checked there; it is in all others.

### Fairness

- `AuditChain`: a started emit goes on (weak fairness; the event loop and the
  database drive it), and an emitter that waits for a row lock gets it if it
  becomes free again and again (strong fairness; Postgres queues waiters).
- `GoldSet`: a started call goes on, so that the counterexamples do not rest on a
  call that was abandoned. No liveness is checked.
- `IngestionPipeline`: a live worker goes on and a dead one is started again
  (the container's restart policy). Uploads, deaths, operators and retrievals are
  not fair.
- `AgentRun` and `AgentConversation`: the generators go on while they are asked
  for events, their calls return or raise, and a stream ends or raises. What a
  stream brings is not fair, and text can come for ever in the model; nothing
  makes a consumer stay, so the properties exempt one that left.
- The pages' consumer, `Optimization`, `CatalogueMigrations` and `Platform`: none;
  only safety is checked.

## 4. The proofs

| Theorem | Says, for all constants |
|---|---|
| `AuditChainProofs`: `TypeCorrect`, `LinksAreCommitted`, `ForksAreDetected`, `SequentialChainIntact` | types; links reach committed rows of the same table; a fork never verifies; a table without overlapping emits verifies |
| `WalksCover`, `VerdictsMean`, `ReadersDisturbNothing` | of `AuditPages`: walks miss and repeat nothing that was there when they began; what a page's verdict is worth; readers leave the chain's properties alone |
| `GoldSetProofs`: `TypeCorrect`, `ChainIsLinear`, `IndexesAreContiguous`, `RevisionsSealedOnce`, `GoldSetImplementsLog` | types; the linear chain; gapless indexes; seals are final; the refinement of `RevisionLog` |
| `IngestionProofs`: `TypeCorrect`, `ClaimIsExclusive`, `StatesTellData`, `IndexedSourcesAreInGraph`, `PipelineImplementsLifecycle` | types; exclusive claims; states that promise only data that is there; what is indexed is in the graph; the refinement of `SourceLifecycle` as long as no row is reset by hand (`NoResets`) |
| `WholeSourcesSurface`, `RetrievalDisturbsNothing` | of `GraphTraversal`: a retrieval, of any depth, sees sources whole or not at all; the pipeline's properties beside it |
| `AgentProofs`: `TypeCorrect`, `RunProjectsTheAudit`, `CostIsReported`, `CitationsAreRetrieved`, `RefusalIsFinal`, `InvocationKeepsLedger` | types; the projections; cost; citations; a refusal is final; the refinement of `RunLedger` |
| `CallsAreAsSent`, `RequestsAdmitted`, `ConversationKeepsTheRun` | of `AgentConversation`: dispatched calls are those sent; every request has its calls answered; all of the above, with streams and messages spelled out |
| `OptimizationProofs`: `Invariance`, `AuditAccounts`, `StoppedRunsEnd`, `TransitionsTellOneHistory`, `RecommendationsAreSound`, `EvidenceIsConsidered`, `RunsAreTracked` | labels fit rows and audit; the chain misses at most the last record's event; a stopped run ends; one history per recommendation; sound evidence; no run cited twice or missed; the refinement of `TrackedRuns` |
| `CatalogueProofs`: `CatalogueInv`, `ChainsVerify`, `AgentsAreRooted`, `MethodologiesNarrow`, `AdoptionIsSound`, `PinsHold`; `MigrationProofs`: `MigrationStepKeeps` | the inductive invariant, under calls and under every migration up and down; chains verify but for listed events; clones resolve; overrides do not loosen; automatic adoption serves old calls; pins hold |
| `PlatformProofs`: `Answers`, `TrailTellsHistory`, `ChangesFlush`, `EnginesAreClosed` | answers are honest, for every route and command; audit events tell the registry's history; changes reach the cache; every engine is somebody's to close |

Every safety and action property of the passing runs, and each of the four
refinements, is stated by a theorem. They rest on the ASSUMEs of the modules and on
nothing else: bounds, costs, scores and recalls are naturals; a page has a row; a
run has an entry; templates and users are finitely many; evaluation runs and engine
runs have different ids; zero is among the costs, as a chunk without usage or
price costs that; a traversal has at most eight hops, the bound the session
enforces.

The arguments, by their inductive invariants:

- *Audit chain*. `IInv` adds to the types that ids and event numbers are unique,
  that events under way have not been inserted, and that a tail which was read
  names a committed row of its table. Forks are detected because the order by
  (timestamp, id) is total and two successors of one row cannot both come right
  after it. `SInv` says of a table without overlap that it verifies and that the
  single emit under way, if any, has read its last row and is later than it.
- *Audit pages*. `ChainInv`: rows are finitely many, and links are never in a
  circle, as a row is committed after the one it links to. `WalkFits`: whatever
  matched when the walk began and does not lie beyond its cursor has been listed,
  and nothing listed lies beyond it, so a next page repeats none of it.
  `PageAgrees` relates the verdict to the page: an unfiltered page is a stretch of
  its table, so the links that `verify_chain` checked are those the page has.
- *Gold sets*. `IInv` is `TypeOK`, `LinearChain` and what a call knows between
  its statements (`Knows`): `current` only grows, and a draft that another call
  finalized is one no more, so a finalization that still finds a draft has read
  the predecessor that is still current. `IdxInv` adds that every index below a
  call's count is taken; UNIQUE keeps one of two equal indexes out.
- *Ingestion*. `OwnInv`: while no row has been reset, no two workers hold a
  source, the state of a held source is the one its stage claimed, and a worker
  in the middle of a claim has the row locked. The last part makes it inductive:
  without it two workers could both be about to claim a pending source. Every
  UPDATE then leaves the state along an edge of the diagram. `DataInv` adds what
  a worker at each label of a stage knows of its source's chunks and vectors. It
  holds even where resets put two workers on one source, as none of what one may
  have seen is undone by another (`DataStays`).
  `GraphInv`: what a worker has merged so far is in the graph.
- *Retrieval*. `SearchInv`: the sources whose ids a traversal read stay indexed,
  and no worker holds them, so nothing of theirs in the graph changes under it.
  `EdgeEnds`: both ends of a relationship are in the graph, so a seed that enters
  it later than the traversal looked has none with what was there.
- *Agent*. `IInv` relates the two sets of tallies at each `pc` (`Tallies`), the
  history of charges to both (`Charged`), citations to reported calls (`Cited`)
  and the rows to them (`Answer`). `ProjectsTheAudit` alone is not inductive:
  the end row is written before the run row, from other variables.
  `ConversationInv`: the adapter's buckets are what the provider sent
  (`StreamInv`); outside a dispatch every call of every message is answered at
  its place, and within one the last message with tool calls has exactly the
  answers that `calls` says (`Open`). That `InOrder` sorts needs that a finite
  set of numbers can be sorted, which is proved by counting what is below.
- *Evaluation and optimization*. `CoreInv` says at each label of a run which
  statuses, counts of records and counts of audit events are possible (`RunInv`,
  `EngInv`), and of users that the transition somebody is about to audit is
  stored and nobody else's (`EmittersInv`), so that a recommendation's rows lead
  from its first status to its current one (`Leads`). `EvidInv`: whatever an
  engine run holds came from a completed run, and completed runs stay as they are.
  `OnceInv`: what lies before the cursor of an engine run is what it has seen, each
  run once. The refinement maps each step of a run to `TrackedRuns` or a stutter.
- *Catalogue*. `IInv` says that rows are shaped for the migration their database
  is at, that each chain verifies and compares or is marked `disturbed`, that
  lineages name what exists or was deleted, and that what a call holds is a
  revision or was straddled by a migration. `MigrationProofs` shows that each
  migration keeps it, `CatalogueProofs` that each call does. Composition needs
  one lemma per mode of an override; adoption follows from the check between
  neighbouring revisions by induction on the length of the chain: a schema that
  serves the calls of the next one serves those of the one before, where
  no property between is untyped.
- *Platform*. `RegistryInv` says which status a change under way has read or
  written and which one its trail ends at. `CacheInv` has, per process, whose
  each open engine is: the cache's, a transition's that is disposing of it, a
  command's, or one of the `excused`. `RequestInv` is that a request is one of
  the states its row of the tables allows (`RequestOK`); that each of the routes
  and commands fits (`RoutesFit`, `CommandsFit`) is proved by expanding the
  tables.

`IngestionProofs`, `AgentProofs` and `AuditChainProofs` prove the properties of a
module once for its steps without fairness and again for the module that extends
it, whose every step is a step of the first or leaves its variables alone.
`LinksAreCommitted`, `RevisionsSealedOnce`, `CatalogueInv` and some of the types
are proved and not among the runs' properties. Inductions over a length or a
cardinality (chains of a tool's revisions, paths in the graph, pages of a table)
take the least counterexample, as no library theorem with an operator for a
parameter can be instantiated.

Model-checked only: liveness (`EmitEnds`, `Settles`, `Answered`,
`AnswerIsRecorded`), which the prover cannot do, as it has no rule for fairness
and ENABLED. The types that the proofs of `Optimization` need are part of
`CoreInv`, but not that a total of recalls is a natural: that is about a fold over
a sequence, which the proofs leave opaque. The violating runs need no proof: each
is a counterexample.

## 5. Not modelled

- The contents of events, prompts, documents, messages, recommendations and
  responses; the hash function, cryptography and policies. Of authentication,
  only what the routes do with its outcome.
- The cost rule's arithmetic, the prices of models and floating point in the
  metrics.
- Ranks and scores of retrievals: a search returns some of the chunks that
  qualify.
- `dispose_all` of the cache and the registry's own dispose, which have no caller
  in the applications; other processes of the API.
- Retrieval metrics and scoring sheets: pure arithmetic over lists, whose
  reference definition would repeat the code's.
- The run history's reader: keyset pages over rows that never change, as in
  `Optimization`. Observability: queries of an external service.
- `padhanam/` (cryptography, tracing, an event bus that dispatches on the caller's
  thread to nobody), schema migrations and the scripts in `ops/`: their
  constraints are guards in the models.

## 6. The plan

Done, in order of importance:

1. `AuditChain`, on which every other component depends, and `AuditPages`.
2. `GoldSet` over `RevisionLog`.
3. `IngestionPipeline` over `SourceLifecycle`, and `GraphTraversal`.
4. `AgentRun` over `RunLedger`, and `AgentConversation`.
5. `EvaluationRuns` and `Optimization` over `TrackedRuns`.
6. `Catalogue` and `CatalogueMigrations` over `Composition` and
   `ToolCompatibility`.
7. `TenantRouting` and `Platform`.

Proved: all safety and action properties of these runs, and the refinements
(section 4).

Left, in this order:

1. Liveness has only TLC's word, on the bounds of section 3.
2. What a mean of recalls comes to (`Total`), an induction over a fold.
3. Parts that are not modelled (section 5), of which the run history's pages
   would be an instance of `AuditPages`' argument.

Parameters are CONSTANTS with assumptions, and no module uses a RECURSIVE
operator.
