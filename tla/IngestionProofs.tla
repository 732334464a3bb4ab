-------------------------- MODULE IngestionProofs --------------------------
(***************************************************************************)
(* Theorems about IngestionPipeline for any number of sources, workers and *)
(* names: type correctness, the exclusive ownership of a claimed source,   *)
(* from which follows that the state column obeys the lifecycle, what the  *)
(* states tell about the data and the graph; and about GraphTraversal, for *)
(* a retrieval of any depth: what surfaces is whole.                       *)
(***************************************************************************)
EXTENDS GraphTraversal, TLAPS, WellFoundedInduction

\* The specification without its fairness, which safety does not need.
Steps == Init /\ [][Next]_vars

(* What a step of a worker does to that worker alone. *)
WorkerMoves(w, label, g, j) ==
    /\ pc' = [pc EXCEPT ![w] = label]
    /\ stage' = [stage EXCEPT ![w] = g]
    /\ job' = [job EXCEPT ![w] = j]

WorkerOK(label, j) == /\ label \in Labels /\ j \in Job
                      /\ label \notin {"poll", "sleep", "dead"} => j.src \in Sources
                      /\ label = "merge" => j.todo \subseteq Names
                      /\ label = "link" => j.todo \subseteq Links

WorkersOK == /\ pc \in [Workers -> Labels] /\ stage \in [Workers -> Stages]
             /\ job \in [Workers -> Job]
             /\ \A w \in Workers : WorkerOK(pc[w], job[w])

RowsOK == /\ state \in [Sources -> States]
          /\ content \in [Sources -> Contents]
          /\ batches \in [Sources -> 0..1]
          /\ vectors \subseteq Sources /\ locked \subseteq Sources
          /\ nodes \subseteq Names \X Sources
          /\ edges \subseteq Names \X Names \X Sources
          /\ crashes \in 0..MaxCrashes /\ flips \in 0..MaxFlips
          /\ requeues \in 0..MaxRequeues

(* TypeOK in the shape the steps preserve it. *)
LEMMA TypeParts == TypeOK <=> RowsOK /\ WorkersOK
BY DEF TypeOK, RowsOK, WorkersOK, WorkerOK, Holding, Src

(* A worker's move keeps the workers' types when its new values are typed. *)
LEMMA MoveKeepsTypes ==
    ASSUME NEW w \in Workers, NEW label, NEW g, NEW j, WorkersOK,
           WorkerMoves(w, label, g, j), WorkerOK(label, j), g \in Stages
    PROVE  WorkersOK'
BY DEF WorkersOK, WorkerMoves, WorkerOK

(* The stages' tables are typed. *)
LEMMA Tables ==
    ASSUME NEW g \in Stages
    PROVE  /\ Pending[g] \in States /\ InFlight[g] \in States
           /\ Done[g] \in States /\ Failed[g] \in States
           /\ After[g] \in Stages
BY DEF Stages, States, Pending, InFlight, Done, Failed, After

LEMMA NoJobOK == NoJob \in Job
BY PipelineAssumption DEF NoJob, Job

LEMMA SourcesAreNumbers == \A s \in Sources : s \in 0..MaxSources /\ s # 0
BY PipelineAssumption DEF Sources

(* A change of one row's state keeps the rows typed. *)
LEMMA StateKeepsTypes ==
    ASSUME NEW s, NEW new \in States, RowsOK, UpdateState(s, new)
    PROVE  state' \in [Sources -> States]
BY DEF RowsOK, UpdateState

-----------------------------------------------------------------------------
(* The effect of a step on the rows of the database and the graph. *)
RowsUnchanged == UNCHANGED <<state, content, batches, vectors, graph, locked,
                             bounds>>

(* Every step of a worker is a move of that worker to typed values. *)
LEMMA WorkMoves ==
    ASSUME NEW w \in Workers, RowsOK, WorkersOK, Work(w)
    PROVE  WorkersOK'
<1>1. /\ pc[w] \in Labels /\ stage[w] \in Stages /\ job[w] \in Job
      /\ WorkerOK(pc[w], job[w])
  BY DEF WorkersOK
<1>a. WorkerOK("poll", NoJob) /\ "parse" \in Stages
  BY NoJobOK DEF WorkerOK, Labels, Stages
<1>2. CASE LockPending(w)
  <2>1. PICK s \in Sources : job' = [job EXCEPT ![w] = [NoJob EXCEPT !.src = s]]
    BY <1>2 DEF LockPending, Keep, Oldest, Claimable
  <2>2. [NoJob EXCEPT !.src = s] \in Job /\ [NoJob EXCEPT !.src = s].src = s
    BY SourcesAreNumbers DEF NoJob, Job
  <2>3. WorkerOK("claim", [NoJob EXCEPT !.src = s])
    BY <2>2 DEF WorkerOK, Labels
  <2>4. stage' = [stage EXCEPT ![w] = stage[w]]
    BY <1>2 DEF LockPending, WorkersOK
  <2>5. WorkerMoves(w, "claim", stage[w], [NoJob EXCEPT !.src = s])
    BY <1>2, <2>1, <2>4 DEF LockPending, WorkerMoves, Goto
  <2>. QED BY <1>1, <2>3, <2>5, MoveKeepsTypes
<1>3. CASE ClaimNone(w)
  <2>. DEFINE label == IF stage[w] = "extract" THEN "sleep" ELSE "poll"
  <2>1. WorkerOK(label, job[w])
    BY <1>1 DEF WorkerOK, Labels
  <2>2. WorkerMoves(w, label, After[stage[w]], job[w])
    BY <1>1, <1>3 DEF ClaimNone, WorkerMoves, Goto, SetStage, WorkersOK
  <2>. HIDE DEF label
  <2>. QED BY <1>1, <2>1, <2>2, MoveKeepsTypes, Tables
<1>4. ASSUME NEW label \in Labels \ {"merge", "link"}, Holding(w),
             Goto(w, label), UNCHANGED <<stage, job>>
      PROVE  WorkersOK'
  <2>1. WorkerOK(label, job[w])
    BY <1>1, <1>4 DEF WorkerOK, Holding
  <2>2. WorkerMoves(w, label, stage[w], job[w])
    BY <1>1, <1>4 DEF WorkerMoves, Goto, WorkersOK
  <2>. QED BY <1>1, <2>1, <2>2, MoveKeepsTypes
<1>5. ASSUME NEW label \in {"poll", "dead"}, Goto(w, label),
             SetStage(w, "parse"), Keep(w, NoJob)
      PROVE  WorkersOK'
  <2>1. WorkerOK(label, NoJob)
    BY <1>5, NoJobOK DEF WorkerOK, Labels
  <2>2. WorkerMoves(w, label, "parse", NoJob)
    BY <1>5 DEF WorkerMoves, Goto, SetStage, Keep
  <2>. QED BY <1>a, <2>1, <2>2, MoveKeepsTypes
<1>6. CASE Claim(w)
  BY <1>4, <1>6, "read" \in Labels DEF Claim, Holding, Labels
<1>7. CASE Wake(w)
  <2>1. WorkerOK("poll", job[w])
    BY <1>1 DEF WorkerOK, Labels
  <2>2. WorkerMoves(w, "poll", stage[w], job[w])
    BY <1>1, <1>7 DEF Wake, WorkerMoves, Goto, WorkersOK
  <2>. QED BY <1>1, <2>1, <2>2, MoveKeepsTypes
<1>8. ASSUME Fail(w) PROVE WorkersOK'
  BY <1>5, <1>8 DEF Fail, Continue
<1>9. CASE Parse(w)
  BY <1>4, <1>8, <1>9 DEF Parse, Holding, Labels
<1>10. CASE SaveChunks(w)
  BY <1>4, <1>5, <1>10 DEF SaveChunks, Holding, Labels
<1>11. CASE ReadChunks(w)
  BY <1>4, <1>11 DEF ReadChunks, Holding, Labels
<1>12. CASE GatewayError(w) \/ GraphError(w)
  BY <1>8, <1>12 DEF GatewayError, GraphError
<1>13. CASE Embed(w)
  BY <1>4, <1>13 DEF Embed, Holding, Labels
<1>14. CASE UpsertEmbeddings(w)
  BY <1>4, <1>14 DEF UpsertEmbeddings, Holding, Labels
<1>15. CASE Extract(w)
  <2>1. PICK es \in SUBSET Names : \E ls \in SUBSET (es \X es) :
          job' = [job EXCEPT ![w] = [src |-> Src(w), entities |-> es,
                                     links |-> ls, todo |-> es]]
    BY <1>15 DEF Extract, Keep
  <2>2. PICK ls \in SUBSET (es \X es) :
          job' = [job EXCEPT ![w] = [src |-> Src(w), entities |-> es,
                                     links |-> ls, todo |-> es]]
    BY <2>1
  <2>. DEFINE j == [src |-> Src(w), entities |-> es, links |-> ls, todo |-> es]
  <2>3. Src(w) \in Sources /\ Src(w) \in 0..MaxSources
    BY <1>1, <1>15, SourcesAreNumbers DEF Extract, WorkerOK, Src
  <2>4. ls \in SUBSET Links
    BY DEF Links
  <2>5. WorkerOK("merge", j)
    BY <2>3, <2>4 DEF WorkerOK, Job, Labels
  <2>6. WorkerMoves(w, "merge", stage[w], j)
    BY <1>1, <1>15, <2>2 DEF Extract, WorkerMoves, Goto, WorkersOK
  <2>. HIDE DEF j
  <2>. QED BY <1>1, <2>5, <2>6, MoveKeepsTypes
<1>16. ASSUME NEW todo \in SUBSET (Names \union Links),
              pc[w] \in {"merge", "link"},
              pc'[w] \in {"merge", "link"},
              pc' = [pc EXCEPT ![w] = pc'[w]], UNCHANGED stage,
              job' = [job EXCEPT ![w] = [job[w] EXCEPT !.todo = todo]],
              pc'[w] = "merge" => todo \subseteq Names,
              pc'[w] = "link" => todo \subseteq Links
       PROVE  WorkersOK'
  <2>. DEFINE j == [job[w] EXCEPT !.todo = todo]
  <2>1. j \in Job /\ j.src = job[w].src /\ j.todo = todo
    BY <1>1 DEF Job
  <2>2. job[w].src \in Sources
    BY <1>1, <1>16 DEF WorkerOK
  <2>. HIDE DEF j
  <2>3. WorkerOK(pc'[w], j)
    BY <1>16, <2>1, <2>2 DEF WorkerOK, Labels
  <2>4. WorkerMoves(w, pc'[w], stage[w], j)
    BY <1>1, <1>16 DEF WorkerMoves, WorkersOK, j
  <2>. QED BY <1>1, <2>3, <2>4, MoveKeepsTypes
<1>17. CASE MergeEntity(w)
  <2>1. PICK n \in job[w].todo :
          job' = [job EXCEPT ![w] = [job[w] EXCEPT !.todo = @ \ {n}]]
    BY <1>17 DEF MergeEntity, Keep
  <2>2. job[w].todo \subseteq Names /\ pc[w] = "merge" /\ pc'[w] = "merge"
    BY <1>1, <1>17 DEF MergeEntity, WorkerOK, WorkersOK
  <2>3. pc' = [pc EXCEPT ![w] = pc'[w]] /\ UNCHANGED stage
    BY <1>17, <2>2 DEF MergeEntity, WorkersOK
  <2>. DEFINE rest == job[w].todo \ {n}
  <2>4. rest \subseteq Names /\ rest \in SUBSET (Names \union Links)
    BY <2>2
  <2>5. job' = [job EXCEPT ![w] = [job[w] EXCEPT !.todo = rest]]
    BY <2>1
  <2>. HIDE DEF rest
  <2>. QED BY <1>16, <2>2, <2>3, <2>4, <2>5
<1>18. CASE EntitiesMerged(w)
  <2>1. job[w].links \in SUBSET Links
    BY <1>1 DEF Job
  <2>2. pc'[w] = "link" /\ pc' = [pc EXCEPT ![w] = pc'[w]]
    BY <1>1, <1>18 DEF EntitiesMerged, Goto, WorkersOK
  <2>. QED BY <1>16, <1>18, <2>1, <2>2 DEF EntitiesMerged, Keep
<1>19. CASE MergeLink(w)
  <2>1. PICK l \in job[w].todo :
          job' = [job EXCEPT ![w] = [job[w] EXCEPT !.todo = @ \ {l}]]
    BY <1>19 DEF MergeLink, Keep
  <2>2. job[w].todo \subseteq Links /\ pc[w] = "link" /\ pc'[w] = "link"
    BY <1>1, <1>19 DEF MergeLink, WorkerOK, WorkersOK
  <2>3. pc' = [pc EXCEPT ![w] = pc'[w]] /\ UNCHANGED stage
    BY <1>19, <2>2 DEF MergeLink, WorkersOK
  <2>. DEFINE rest == job[w].todo \ {l}
  <2>4. rest \subseteq Links /\ rest \in SUBSET (Names \union Links)
    BY <2>2
  <2>5. job' = [job EXCEPT ![w] = [job[w] EXCEPT !.todo = rest]]
    BY <2>1
  <2>. HIDE DEF rest
  <2>. QED BY <1>16, <2>2, <2>3, <2>4, <2>5
<1>20. CASE LinksMerged(w)
  BY <1>4, <1>20 DEF LinksMerged, Holding, Labels
<1>21. CASE Finish(w)
  BY <1>5, <1>21 DEF Finish, Continue
<1>. QED BY <1>2, <1>3, <1>6, <1>7, <1>9, <1>10, <1>11, <1>12, <1>13, <1>14,
            <1>15, <1>17, <1>18, <1>19, <1>20, <1>21 DEF Work

-----------------------------------------------------------------------------
(* And every step of a worker keeps the rows and the graph typed. *)
LEMMA WorkKeepsRows ==
    ASSUME NEW w \in Workers, RowsOK, WorkersOK, Work(w)
    PROVE  RowsOK'
<1>1. stage[w] \in Stages /\ job[w] \in Job /\ WorkerOK(pc[w], job[w])
  BY DEF WorkersOK
<1>2. Holding(w) => Src(w) \in Sources
  BY <1>1 DEF WorkerOK, Holding, Src
<1>. USE DEF RowsOK, graph, bounds
<1>3. CASE RowsUnchanged
  BY <1>3 DEF RowsUnchanged
<1>4. ASSUME Fail(w) PROVE RowsOK'
  BY <1>1, <1>4, Tables, StateKeepsTypes DEF Fail
<1>5. CASE LockPending(w)
  BY <1>5 DEF LockPending, Oldest, Claimable
<1>6. CASE ClaimNone(w) \/ Wake(w) \/ ReadChunks(w) \/ Embed(w) \/ Extract(w)
           \/ EntitiesMerged(w) \/ LinksMerged(w)
  BY <1>3, <1>6 DEF RowsUnchanged, ClaimNone, Wake, ReadChunks, Embed, Extract,
                    EntitiesMerged, LinksMerged
<1>7. CASE Claim(w)
  <2>1. state' \in [Sources -> States]
    BY <1>1, <1>7, Tables, StateKeepsTypes DEF Claim
  <2>. QED BY <1>7, <2>1 DEF Claim
<1>8. CASE Parse(w)
  BY <1>3, <1>4, <1>8 DEF Parse, RowsUnchanged
<1>9. CASE SaveChunks(w)
  BY <1>9 DEF SaveChunks
<1>10. CASE GatewayError(w) \/ GraphError(w)
  BY <1>4, <1>10 DEF GatewayError, GraphError
<1>11. CASE UpsertEmbeddings(w)
  BY <1>2, <1>11 DEF UpsertEmbeddings, Holding, Labels
<1>12. CASE MergeEntity(w)
  <2>1. PICK n \in job[w].todo : nodes' = nodes \union {<<n, Src(w)>>}
    BY <1>12 DEF MergeEntity
  <2>2. n \in Names /\ Src(w) \in Sources
    BY <1>1, <1>2, <1>12 DEF MergeEntity, WorkerOK, Holding, Labels
  <2>3. nodes' \subseteq Names \X Sources
    BY <2>1, <2>2
  <2>. QED BY <1>12, <2>3 DEF MergeEntity
<1>13. CASE MergeLink(w)
  <2>1. PICK l \in job[w].todo :
          edges' = IF InGraph(l[1]) /\ InGraph(l[2])
                   THEN edges \union {<<l[1], l[2], Src(w)>>} ELSE edges
    BY <1>13 DEF MergeLink
  <2>2. l \in Links /\ Src(w) \in Sources
    BY <1>1, <1>2, <1>13 DEF MergeLink, WorkerOK, Holding, Labels
  <2>3. l[1] \in Names /\ l[2] \in Names
    BY <2>2 DEF Links
  <2>4. edges' \subseteq Names \X Names \X Sources
    BY <2>1, <2>2, <2>3
  <2>. QED BY <1>13, <2>4 DEF MergeLink
<1>14. CASE Finish(w)
  BY <1>1, <1>14, Tables, StateKeepsTypes DEF Finish
<1>. QED BY <1>5, <1>6, <1>7, <1>8, <1>9, <1>10, <1>11, <1>12, <1>13, <1>14
         DEF Work

(* The environment: deaths, restarts, registration and the operator. *)
LEMMA EnvironmentKeepsTypes ==
    ASSUME RowsOK, WorkersOK,
           \/ \E w \in Workers : Die(w) \/ Restart(w)
           \/ \E s \in Sources : Register(s) \/ FlipBack(s) \/ Requeue(s)
    PROVE  RowsOK' /\ WorkersOK'
<1>1. ASSUME NEW w \in Workers, Die(w) PROVE RowsOK' /\ WorkersOK'
  <2>1. crashes' \in 0..MaxCrashes
    BY <1>1, PipelineAssumption DEF Die, RowsOK
  <2>2. RowsOK'
    BY <1>1, <2>1 DEF Die, RowsOK, graph
  <2>3. WorkerOK("dead", NoJob) /\ "parse" \in Stages
    BY NoJobOK DEF WorkerOK, Labels, Stages
  <2>4. WorkerMoves(w, "dead", "parse", NoJob)
    BY <1>1 DEF Die, WorkerMoves, Goto, SetStage, Keep
  <2>. QED BY <2>2, <2>3, <2>4, MoveKeepsTypes
<1>2. ASSUME NEW w \in Workers, Restart(w) PROVE RowsOK' /\ WorkersOK'
  <2>1. WorkerOK("poll", job[w]) /\ stage[w] \in Stages
    BY DEF WorkersOK, WorkerOK, Labels
  <2>2. WorkerMoves(w, "poll", stage[w], job[w])
    BY <1>2 DEF Restart, WorkerMoves, Goto, WorkersOK
  <2>3. RowsOK'
    BY <1>2 DEF Restart, RowsOK, graph, bounds
  <2>. QED BY <2>1, <2>2, <2>3, MoveKeepsTypes
<1>3. ASSUME NEW s \in Sources, Register(s) \/ FlipBack(s) \/ Requeue(s)
      PROVE  RowsOK' /\ WorkersOK'
  <2>1. WorkersOK'
    BY <1>3 DEF WorkersOK, Register, FlipBack, Requeue
  <2>2. CASE Register(s)
    <3>1. state' \in [Sources -> States]
      BY <2>2, StateKeepsTypes, "received" \in States DEF Register, States
    <3>. QED BY <2>1, <2>2, <3>1 DEF Register, RowsOK, graph, bounds
  <2>3. CASE FlipBack(s)
    <3>1. PICK g \in {"parse", "embed"} : UpdateState(s, Pending[g])
      BY <2>3 DEF FlipBack
    <3>2. state' \in [Sources -> States]
      BY <3>1, StateKeepsTypes, Tables DEF Stages
    <3>3. flips' \in 0..MaxFlips
      BY <2>3, PipelineAssumption DEF FlipBack, RowsOK
    <3>. QED BY <2>1, <2>3, <3>2, <3>3 DEF FlipBack, RowsOK, graph
  <2>4. CASE Requeue(s)
    <3>1. PICK g \in Stages : UpdateState(s, Pending[g])
      BY <2>4 DEF Requeue
    <3>2. state' \in [Sources -> States]
      BY <3>1, StateKeepsTypes, Tables
    <3>3. requeues' \in 0..MaxRequeues
      BY <2>4, PipelineAssumption DEF Requeue, RowsOK
    <3>. QED BY <2>1, <2>4, <3>2, <3>3 DEF Requeue, RowsOK, graph
  <2>. QED BY <1>3, <2>2, <2>3, <2>4
<1>. QED BY <1>1, <1>2, <1>3

LEMMA InitTyped == Init => RowsOK /\ WorkersOK
<1>1. ASSUME Init PROVE RowsOK
  BY <1>1, PipelineAssumption DEF Init, RowsOK, States
<1>2. ASSUME Init PROVE WorkersOK
  <2>1. WorkerOK("poll", NoJob)
    BY NoJobOK DEF WorkerOK, Labels
  <2>. QED BY <1>2, <2>1, NoJobOK DEF Init, WorkersOK, Labels, Stages
<1>. QED BY <1>1, <1>2

LEMMA StepKeepsTypes ==
    ASSUME RowsOK, WorkersOK, [Next]_vars
    PROVE  RowsOK' /\ WorkersOK'
<1>1. CASE UNCHANGED vars
  BY <1>1 DEF vars, graph, bounds, RowsOK, WorkersOK
<1>. QED BY <1>1, WorkMoves, WorkKeepsRows, EnvironmentKeepsTypes DEF Next

(* For any number of sources, workers and names, and any number of deaths,
   retries and resets, the variables keep their types. *)
THEOREM TypeCorrect == Spec => []TypeOK
<1>1. RowsOK /\ WorkersOK /\ [Next]_vars => RowsOK' /\ WorkersOK'
  BY StepKeepsTypes
<1>2. Spec => [](RowsOK /\ WorkersOK)
  BY <1>1, InitTyped, PTL DEF Spec
<1>. QED BY <1>2, TypeParts, PTL

-----------------------------------------------------------------------------
(* Ownership of claimed sources, as long as no in-flight row was reset.  The
   lock of a claim is what makes the invariant inductive: without it two
   workers could both be about to claim a source that is still pending. *)
Exclusive == \A v, w \in Workers :
                v # w /\ Holding(v) /\ Holding(w) => Src(v) # Src(w)
AllOwn == \A w \in Workers : Holding(w) =>
             state[Src(w)] = IF pc[w] = "claim" THEN Pending[stage[w]]
                                                ELSE InFlight[stage[w]]
ClaimsLock == \A w \in Workers : pc[w] = "claim" => Src(w) \in locked

Owning == Exclusive /\ AllOwn /\ ClaimsLock
OwnInv == RowsOK /\ WorkersOK /\ (requeues = 0 => Owning)

Others(w) == \A v \in Workers \ {w} : /\ pc'[v] = pc[v] /\ stage'[v] = stage[v]
                                     /\ job'[v] = job[v]

LEMMA MovesLeaveOthers ==
    ASSUME NEW w \in Workers, WorkersOK, NEW label, NEW g, NEW j,
           WorkerMoves(w, label, g, j)
    PROVE  /\ Others(w)
           /\ pc'[w] = label /\ stage'[w] = g /\ job'[w] = j
BY DEF WorkerMoves, Others, WorkersOK

LEMMA HeldIsTyped ==
    ASSUME WorkersOK, NEW w \in Workers, Holding(w)
    PROVE  Src(w) \in Sources /\ stage[w] \in Stages
BY DEF WorkersOK, WorkerOK, Holding, Src

(* A step within a stage: the worker keeps its source, no row state changes. *)
LEMMA StepWithin ==
    ASSUME Owning, NEW w \in Workers, Others(w), Holding(w), pc[w] # "claim",
           pc'[w] # "claim", stage'[w] = stage[w], job'[w].src = job[w].src,
           UNCHANGED <<state, locked>>
    PROVE  Owning'
BY DEF Owning, Exclusive, AllOwn, ClaimsLock, Others, Holding, Src

(* A worker without a source stays so. *)
LEMMA StepIdle ==
    ASSUME Owning, NEW w \in Workers, Others(w), pc'[w] \in {"poll", "sleep"},
           UNCHANGED <<state, locked>>
    PROVE  Owning'
<1>1. ~Holding(w)'
  BY DEF Holding
<1>. QED BY <1>1 DEF Owning, Exclusive, AllOwn, ClaimsLock, Others, Holding, Src

(* A worker lets go of its source, and may set its state in doing so. *)
LEMMA StepRelease ==
    ASSUME RowsOK, WorkersOK, Owning, NEW w \in Workers, Others(w),
           pc'[w] \in {"poll", "dead"},
           locked \ {Src(w)} \subseteq locked',
           Holding(w) \/ UNCHANGED <<state, locked>>,
           \A s \in Sources \ {Src(w)} : state'[s] = state[s]
    PROVE  Owning'
<1>1. ~Holding(w)' /\ pc'[w] # "claim"
  BY DEF Holding
<1>2. ASSUME NEW v \in Workers \ {w}
      PROVE  pc'[v] = pc[v] /\ stage'[v] = stage[v] /\ job'[v] = job[v]
  BY DEF Others
<1>3. Exclusive'
  BY <1>1, <1>2 DEF Owning, Exclusive, Holding, Src
<1>4. ASSUME NEW v \in Workers, Holding(v)'
      PROVE  /\ v # w /\ Holding(v) /\ Src(v)' = Src(v)
             /\ state'[Src(v)] = state[Src(v)]
             /\ Src(v) \in locked => Src(v) \in locked'
  <2>1. v # w /\ Holding(v) /\ Src(v)' = Src(v)
    BY <1>1, <1>2, <1>4 DEF Holding, Src
  <2>2. Src(v) \in Sources
    BY <2>1, HeldIsTyped
  <2>3. CASE Holding(w)
    <3>1. Src(v) # Src(w)
      BY <2>1, <2>3 DEF Owning, Exclusive
    <3>. QED BY <2>1, <2>2, <3>1
  <2>. QED BY <2>1, <2>3
<1>5. AllOwn'
  BY <1>2, <1>4 DEF Owning, AllOwn
<1>6. ClaimsLock'
  BY <1>2, <1>4 DEF Owning, ClaimsLock, Holding, Labels, WorkersOK
<1>. QED BY <1>3, <1>5, <1>6 DEF Owning

(* A row nobody holds changes its state. *)
LEMMA StepElsewhere ==
    ASSUME RowsOK, WorkersOK, Owning, NEW s \in Sources, NEW new,
           state[s] \notin {Pending[g] : g \in Stages}
                           \union {InFlight[g] : g \in Stages},
           UpdateState(s, new), UNCHANGED <<locked, pc, stage, job>>
    PROVE  Owning'
<1>1. ASSUME NEW w \in Workers, Holding(w) PROVE Src(w) # s
  BY <1>1, HeldIsTyped DEF Owning, AllOwn
<1>2. ASSUME NEW w \in Workers, Holding(w)
      PROVE  state'[Src(w)] = state[Src(w)]
  BY <1>1, <1>2, HeldIsTyped DEF UpdateState, RowsOK
<1>. QED BY <1>2 DEF Owning, Exclusive, AllOwn, ClaimsLock, Holding, Src

(* Every step preserves ownership. *)
LEMMA WorkOwns ==
    ASSUME RowsOK, WorkersOK, Owning, NEW w \in Workers, Work(w)
    PROVE  Owning'
<1>. USE DEF graph, bounds
<1>1. Holding(w) => Src(w) \in Sources /\ stage[w] \in Stages
  BY HeldIsTyped
<1>2. ASSUME NEW label \in Labels \ {"claim"}, Goto(w, label), Holding(w),
             pc[w] # "claim", UNCHANGED stage,
             \/ UNCHANGED job
             \/ \E j : Keep(w, j) /\ j.src = Src(w),
             UNCHANGED <<state, locked>>
      PROVE  Owning'
  <2>1. /\ Others(w) /\ pc'[w] = label /\ stage'[w] = stage[w]
        /\ job'[w].src = job[w].src
    BY <1>2 DEF Others, Goto, Keep, WorkersOK, Src
  <2>. QED BY <1>2, <2>1, StepWithin
<1>3. ASSUME NEW label \in {"poll", "dead"}, Goto(w, label),
             SetStage(w, "parse"), Keep(w, NoJob), Holding(w),
             locked' = locked,
             state' = state \/ \E new : UpdateState(Src(w), new)
      PROVE  Owning'
  <2>1. Others(w) /\ pc'[w] = label
    BY <1>3 DEF Others, Goto, SetStage, Keep, WorkersOK
  <2>2. \A s \in Sources \ {Src(w)} : state'[s] = state[s]
    BY <1>1, <1>3 DEF UpdateState, RowsOK
  <2>. QED BY <1>3, <2>1, <2>2, StepRelease
<1>4. ASSUME Fail(w), Holding(w) PROVE Owning'
  BY <1>3, <1>4 DEF Fail, Continue
<1>5. CASE LockPending(w)
  <2>1. PICK s \in Oldest(Claimable(stage[w])) :
          locked' = locked \union {s} /\ Keep(w, [NoJob EXCEPT !.src = s])
    BY <1>5 DEF LockPending
  <2>2. s \in Sources /\ state[s] = Pending[stage[w]] /\ s \notin locked
    BY <2>1 DEF Oldest, Claimable
  <2>3. /\ Others(w) /\ pc'[w] = "claim" /\ job'[w].src = s
        /\ UNCHANGED <<state, stage>>
    BY <1>5, <2>1 DEF LockPending, Others, Goto, Keep, WorkersOK, NoJob
  <2>4. ASSUME NEW v \in Workers \ {w}, Holding(v) PROVE Src(v) # s
    <3>1. CASE pc[v] = "claim"
      BY <2>2, <3>1 DEF Owning, ClaimsLock
    <3>2. CASE pc[v] # "claim"
      <4>1. state[Src(v)] = InFlight[stage[v]] /\ stage[v] \in Stages
        BY <2>4, <3>2, HeldIsTyped DEF Owning, AllOwn
      <4>2. stage[w] \in Stages
        BY DEF WorkersOK
      <4>. QED BY <2>2, <4>1, <4>2 DEF Pending, InFlight, Stages
    <3>. QED BY <3>1, <3>2
  <2>5. ASSUME NEW v \in Workers \ {w}
        PROVE  pc'[v] = pc[v] /\ stage'[v] = stage[v] /\ job'[v] = job[v]
    BY <2>3 DEF Others
  <2>6. Exclusive'
    BY <2>3, <2>4, <2>5 DEF Owning, Exclusive, Holding, Src
  <2>7. AllOwn'
    BY <2>2, <2>3, <2>5 DEF Owning, AllOwn, Holding, Src
  <2>8. ClaimsLock'
    BY <2>1, <2>3, <2>5 DEF Owning, ClaimsLock, Src
  <2>. QED BY <2>6, <2>7, <2>8 DEF Owning
<1>6. CASE Claim(w)
  <2>1. Holding(w) /\ Src(w) \in Sources
    BY <1>1, <1>6 DEF Claim, Holding, Labels
  <2>2. /\ Others(w) /\ pc'[w] = "read" /\ UNCHANGED <<stage, job>>
        /\ state'[Src(w)] = InFlight[stage[w]]
        /\ \A s \in Sources \ {Src(w)} : state'[s] = state[s]
        /\ locked' = locked \ {Src(w)}
    BY <1>6, <2>1 DEF Claim, Others, Goto, UpdateState, RowsOK, WorkersOK
  <2>3. ASSUME NEW v \in Workers \ {w}
        PROVE  pc'[v] = pc[v] /\ (Holding(v) => Src(v) # Src(w))
    BY <2>1, <2>2 DEF Others, Owning, Exclusive
  <2>4. Exclusive'
    BY <2>1, <2>2, <2>3 DEF Owning, Exclusive, Holding, Src
  <2>5. AllOwn'
    <3>1. ASSUME NEW v \in Workers \ {w}, Holding(v)'
          PROVE  Holding(v) /\ state'[Src(v)] = state[Src(v)]
      BY <2>2, <2>3, <3>1, HeldIsTyped DEF Holding
    <3>. QED BY <2>2, <2>3, <3>1 DEF Owning, AllOwn, Src
  <2>6. ClaimsLock'
    BY <2>2, <2>3 DEF Owning, ClaimsLock, Holding, Labels, Src
  <2>. QED BY <2>4, <2>5, <2>6 DEF Owning
<1>7. CASE ClaimNone(w) \/ Wake(w)
  <2>1. Others(w) /\ pc'[w] \in {"poll", "sleep"} /\ UNCHANGED <<state, locked>>
    BY <1>7 DEF ClaimNone, Wake, Others, Goto, SetStage, WorkersOK
  <2>. QED BY <2>1, StepIdle
<1>8. CASE Parse(w)
  BY <1>2, <1>4, <1>8 DEF Parse, Holding, Labels
<1>9. CASE SaveChunks(w)
  BY <1>2, <1>3, <1>9 DEF SaveChunks, Holding, Labels
<1>10. CASE ReadChunks(w) \/ Embed(w) \/ UpsertEmbeddings(w) \/ LinksMerged(w)
  BY <1>2, <1>10 DEF ReadChunks, Embed, UpsertEmbeddings, LinksMerged, Holding,
                     Labels
<1>11. CASE GatewayError(w) \/ GraphError(w)
  BY <1>4, <1>11 DEF GatewayError, GraphError, Holding, Labels
<1>12. CASE Extract(w)
  BY <1>2, <1>12 DEF Extract, Holding, Labels
<1>13. ASSUME UNCHANGED <<pc, stage, state, locked>>, Holding(w), pc[w] # "claim",
              \E j : Keep(w, j) /\ j.src = Src(w)
       PROVE  Owning'
  <2>1. Others(w) /\ job'[w].src = job[w].src
    BY <1>13 DEF Others, Keep, WorkersOK, Src
  <2>. QED BY <1>13, <2>1, StepWithin
<1>14. CASE MergeEntity(w) \/ MergeLink(w)
  <2>1. \E todo : Keep(w, [job[w] EXCEPT !.todo = todo])
    BY <1>14 DEF MergeEntity, MergeLink
  <2>2. \A todo : [job[w] EXCEPT !.todo = todo].src = Src(w)
    BY DEF WorkersOK, Job, Src
  <2>. QED BY <1>13, <1>14, <2>1, <2>2 DEF MergeEntity, MergeLink, Holding, Labels
<1>15. CASE EntitiesMerged(w)
  <2>1. [job[w] EXCEPT !.todo = job[w].links].src = Src(w)
    BY DEF WorkersOK, Job, Src
  <2>. QED BY <1>2, <1>15, <2>1 DEF EntitiesMerged, Holding, Labels
<1>16. CASE Finish(w)
  BY <1>3, <1>16 DEF Finish, Continue, Holding, Labels
<1>. QED BY <1>5, <1>6, <1>7, <1>8, <1>9, <1>10, <1>11, <1>12, <1>14, <1>15,
            <1>16 DEF Work

LEMMA EnvironmentOwns ==
    ASSUME RowsOK, WorkersOK, Owning,
           \/ \E w \in Workers : Die(w) \/ Restart(w)
           \/ \E s \in Sources : Register(s) \/ FlipBack(s)
    PROVE  Owning'
<1>1. ASSUME NEW w \in Workers, Die(w) PROVE Owning'
  <2>1. Others(w) /\ pc'[w] = "dead" /\ UNCHANGED state
    BY <1>1 DEF Die, Others, Goto, SetStage, Keep, WorkersOK
  <2>2. locked \ {Src(w)} \subseteq locked'
    BY <1>1 DEF Die
  <2>3. Holding(w) \/ UNCHANGED <<state, locked>>
    BY <1>1 DEF Die, Holding, Labels
  <2>. QED BY <2>1, <2>2, <2>3, StepRelease
<1>2. ASSUME NEW w \in Workers, Restart(w) PROVE Owning'
  <2>1. Others(w) /\ pc'[w] = "poll" /\ UNCHANGED <<state, locked>>
    BY <1>2 DEF Restart, Others, Goto, WorkersOK
  <2>. QED BY <2>1, StepIdle
<1>3. ASSUME NEW s \in Sources, Register(s) PROVE Owning'
  BY <1>3, StepElsewhere DEF Register, Pending, InFlight, Stages
<1>4. ASSUME NEW s \in Sources, FlipBack(s) PROVE Owning'
  <2>1. PICK g \in {"parse", "embed"} :
          state[s] = Failed[g] /\ UpdateState(s, Pending[g])
    BY <1>4 DEF FlipBack
  <2>2. Failed[g] \notin {Pending[h] : h \in Stages}
                          \union {InFlight[h] : h \in Stages}
    BY DEF Failed, Pending, InFlight, Stages
  <2>. QED BY <1>4, <2>1, <2>2, StepElsewhere DEF FlipBack
<1>. QED BY <1>1, <1>2, <1>3, <1>4

LEMMA RequeuesGrow ==
    ASSUME RowsOK, Next, requeues' = 0
    PROVE  requeues = 0 /\ ~\E s \in Sources : Requeue(s)
<1>1. requeues \in Nat
  BY PipelineAssumption DEF RowsOK
<1>2. ASSUME NEW s \in Sources, Requeue(s) PROVE FALSE
  BY <1>1, <1>2 DEF Requeue
<1>3. ASSUME NEW w \in Workers, Work(w) PROVE requeues' = requeues
  BY <1>3 DEF Work, LockPending, ClaimNone, Claim, Wake, Parse, SaveChunks,
     ReadChunks, GatewayError, Embed, UpsertEmbeddings, Extract, MergeEntity,
     EntitiesMerged, MergeLink, LinksMerged, GraphError, Finish, Fail, bounds
<1>. QED BY <1>2, <1>3 DEF Next, Die, Restart, Register, FlipBack, bounds

LEMMA InitOwns == Init => OwnInv
<1>1. ASSUME Init PROVE Owning
  BY <1>1 DEF Init, Owning, Exclusive, AllOwn, ClaimsLock, Holding
<1>. QED BY <1>1, InitTyped DEF OwnInv

LEMMA StepOwns ==
    ASSUME OwnInv, [Next]_vars
    PROVE  OwnInv'
<1>1. RowsOK' /\ WorkersOK'
  BY StepKeepsTypes DEF OwnInv
<1>2. CASE UNCHANGED vars
  BY <1>1, <1>2 DEF vars, OwnInv, Owning, Exclusive, AllOwn, ClaimsLock, Holding,
                    Src
<1>3. CASE Next
  <2>1. ASSUME requeues' = 0 PROVE Owning'
    <3>1. Owning /\ ~\E s \in Sources : Requeue(s)
      BY <1>3, <2>1, RequeuesGrow DEF OwnInv
    <3>. QED BY <1>3, <3>1, WorkOwns, EnvironmentOwns DEF Next, OwnInv
  <2>. QED BY <1>1, <2>1 DEF OwnInv
<1>. QED BY <1>2, <1>3

LEMMA AlwaysOwnInv == Steps => []OwnInv
BY InitOwns, StepOwns, PTL DEF Steps

(* However many workers claim at the same time and die at any point, a worker
   that has claimed a source is alone with it, and the source is in the state
   the claim gave it, until an operator resets an in-flight row. *)
THEOREM ClaimIsExclusive == Spec => []OwnsItsSource
<1>1. OwnInv => OwnsItsSource
  BY DEF OwnInv, Owning, Exclusive, AllOwn, OwnsItsSource
<1>. QED BY <1>1, AlwaysOwnInv, PTL DEF Spec, Steps

-----------------------------------------------------------------------------
(* The lifecycle.  Without resets every change of a state is an edge of the
   diagram: the unguarded UPDATE of a stage's end finds the state its claim
   left, because the worker owns the source. *)
NoResets == MaxRequeues = 0

LEMMA EdgeMoves ==
    ASSUME NEW s \in Sources, NEW old, NEW new, state[s] = old,
           <<old, new>> \in Lifecycle!Edges, UpdateState(s, new)
    PROVE  \E t \in Sources : Lifecycle!Move(t)
<1>1. \E e \in Lifecycle!Edges : /\ state[s] = e[1]
                                /\ state' = [state EXCEPT ![s] = e[2]]
  BY DEF UpdateState
<1>. QED BY <1>1 DEF Lifecycle!Move

LEMMA StageEdges ==
    ASSUME NEW g \in Stages
    PROVE  /\ <<Pending[g], InFlight[g]>> \in Lifecycle!Edges
           /\ <<InFlight[g], Done[g]>> \in Lifecycle!Edges
           /\ <<InFlight[g], Failed[g]>> \in Lifecycle!Edges
           /\ g # "extract" => <<Failed[g], Pending[g]>> \in Lifecycle!Edges
<1>. USE DEF Stages, Pending, InFlight, Done, Failed, Lifecycle!Edges,
             Lifecycle!Claims, Lifecycle!Outcomes, Lifecycle!Retries
<1>1. CASE g = "parse"
  BY <1>1
<1>2. CASE g = "embed"
  BY <1>2
<1>3. CASE g = "extract"
  BY <1>3
<1>. QED BY <1>1, <1>2, <1>3

LEMMA WorkFollowsEdges ==
    ASSUME OwnInv, requeues = 0, NEW w \in Workers, Work(w), state' # state
    PROVE  \E t \in Sources : Lifecycle!Move(t)
<1>1. Holding(w) => /\ Src(w) \in Sources /\ stage[w] \in Stages
                    /\ state[Src(w)] = IF pc[w] = "claim" THEN Pending[stage[w]]
                                                        ELSE InFlight[stage[w]]
  BY HeldIsTyped DEF OwnInv, Owning, AllOwn
<1>2. CASE Claim(w)
  <2>1. pc[w] = "claim" /\ UpdateState(Src(w), InFlight[stage[w]]) /\ Holding(w)
    BY <1>2 DEF Claim, Holding, Labels
  <2>. QED BY <1>1, <2>1, EdgeMoves, StageEdges
<1>3. CASE Finish(w)
  <2>1. pc[w] = "finish" /\ UpdateState(Src(w), Done[stage[w]]) /\ Holding(w)
    BY <1>3 DEF Finish, Holding, Labels
  <2>. QED BY <1>1, <2>1, EdgeMoves, StageEdges
<1>4. CASE Fail(w) /\ pc[w] \in {"read", "call", "merge", "link"}
  <2>1. pc[w] # "claim" /\ UpdateState(Src(w), Failed[stage[w]]) /\ Holding(w)
    BY <1>4 DEF Fail, Holding, Labels
  <2>. QED BY <1>1, <2>1, EdgeMoves, StageEdges
<1>5. CASE Parse(w) \/ GatewayError(w) \/ GraphError(w)
  <2>1. Parse(w) => Fail(w) /\ pc[w] = "read"
    BY DEF Parse
  <2>2. GatewayError(w) => Fail(w) /\ pc[w] = "call"
    BY DEF GatewayError
  <2>3. GraphError(w) => Fail(w) /\ pc[w] \in {"merge", "link"}
    BY DEF GraphError
  <2>. QED BY <1>4, <1>5, <2>1, <2>2, <2>3
<1>6. ~(LockPending(w) \/ ClaimNone(w) \/ Wake(w) \/ SaveChunks(w)
          \/ ReadChunks(w) \/ Embed(w) \/ UpsertEmbeddings(w) \/ Extract(w))
  BY DEF LockPending, ClaimNone, Wake, SaveChunks, ReadChunks, Embed,
         UpsertEmbeddings, Extract
<1>7. ~(MergeEntity(w) \/ EntitiesMerged(w) \/ MergeLink(w) \/ LinksMerged(w))
  BY DEF MergeEntity, EntitiesMerged, MergeLink, LinksMerged
<1>. QED BY <1>2, <1>3, <1>5, <1>6, <1>7 DEF Work

LEMMA StepFollowsEdges ==
    ASSUME NoResets, OwnInv, [Next]_vars
    PROVE  [\E s \in Sources : Lifecycle!Move(s)]_state
<1>. SUFFICES ASSUME Next, state' # state
              PROVE  \E s \in Sources : Lifecycle!Move(s)
  BY DEF vars
<1>1. requeues = 0
  BY DEF NoResets, OwnInv, RowsOK
<1>2. ASSUME NEW w \in Workers, Work(w)
      PROVE  \E s \in Sources : Lifecycle!Move(s)
  BY <1>1, <1>2, WorkFollowsEdges
<1>3. ASSUME NEW s \in Sources, Register(s)
      PROVE  \E t \in Sources : Lifecycle!Move(t)
  <2>1. <<"absent", "received">> \in Lifecycle!Edges
    BY DEF Lifecycle!Edges
  <2>. QED BY <1>3, <2>1, EdgeMoves DEF Register
<1>4. ASSUME NEW s \in Sources, FlipBack(s)
      PROVE  \E t \in Sources : Lifecycle!Move(t)
  <2>1. PICK g \in {"parse", "embed"} :
          state[s] = Failed[g] /\ UpdateState(s, Pending[g])
    BY <1>4 DEF FlipBack
  <2>2. g \in Stages /\ g # "extract"
    BY DEF Stages
  <2>. QED BY <2>1, <2>2, EdgeMoves, StageEdges
<1>5. ~\E s \in Sources : Requeue(s)
  BY <1>1 DEF Requeue, NoResets
<1>6. ~\E w \in Workers : Die(w) \/ Restart(w)
  BY DEF Die, Restart
<1>. QED BY <1>2, <1>3, <1>4, <1>5, <1>6 DEF Next

(* With no operator resets, the pipeline implements the state machine that
   domain/state.py draws, deaths and restarts included. *)
THEOREM PipelineImplementsLifecycle ==
    ASSUME NoResets
    PROVE  Spec => ImplementsLifecycle
<1>1. Init => Lifecycle!Init
  BY DEF Init, Lifecycle!Init
<1>2. OwnInv /\ [Next]_vars => [\E s \in Sources : Lifecycle!Move(s)]_state
  BY StepFollowsEdges
<1>. QED BY <1>1, <1>2, AlwaysOwnInv, PTL DEF Spec, Steps, ImplementsLifecycle,
            Lifecycle!Spec

-----------------------------------------------------------------------------
(* What the states tell about the data.  Chunks and vectors are never taken
   away, so what a worker has seen of its source stays true, also when an
   operator's reset has given that source to a second worker. *)
HasChunks(s) == content[s] = "text" => batches[s] = 1
HasVectors(s) == content[s] = "text" => s \in vectors

RowData(s) ==
    /\ batches[s] = 1 => content[s] = "text"
    /\ s \in vectors => batches[s] = 1
    /\ state[s] = "absent" => batches[s] = 0
    /\ state[s] = "failed" => content[s] = "malformed"
    /\ state[s] \in {"parsed", "embedding", "embedding_failed"} => HasChunks(s)
    /\ state[s] \in {"embedded", "extracting", "extraction_failed", "indexed"}
         => HasChunks(s) /\ HasVectors(s)

\* What a worker that is at a label of a stage knows about its source.
HasSeen(s, g, label) ==
    /\ state[s] # "absent"
    /\ g = "parse" => /\ label \in {"claim", "read", "write", "finish"}
                      /\ label = "write" => content[s] = "text"
                      /\ label = "finish" => HasChunks(s)
    /\ g # "parse" => /\ HasChunks(s)
                      /\ label \in {"call", "write"} => batches[s] = 1
    /\ g = "embed" => /\ label \notin {"merge", "link"}
                      /\ label = "finish" => HasVectors(s)
    /\ g = "extract" => HasVectors(s)

ReceivedIsFresh == \A s \in Sources : state[s] = "received" => batches[s] = 0

DataInv == /\ \A s \in Sources : RowData(s)
           /\ \A w \in Workers : Holding(w) => HasSeen(Src(w), stage[w], pc[w])
           /\ requeues = 0 => ReceivedIsFresh

\* Nothing a worker may have seen is undone.
DataStays == /\ content' = content
             /\ \A s \in Sources : /\ batches[s] = 1 => batches'[s] = 1
                                   /\ s \in vectors => s \in vectors'
                                   /\ state[s] # "absent" => state'[s] # "absent"

(* A worker that does not move keeps what it has seen. *)
LEMMA SeenStays ==
    ASSUME WorkersOK, DataInv, DataStays, NEW w \in Workers, Holding(w)',
           pc'[w] = pc[w], stage'[w] = stage[w], job'[w] = job[w]
    PROVE  HasSeen(Src(w), stage[w], pc[w])'
<1>1. Holding(w) /\ Src(w)' = Src(w)
  BY DEF Holding, Src
<1>2. Src(w) \in Sources /\ HasSeen(Src(w), stage[w], pc[w])
  BY <1>1, HeldIsTyped DEF DataInv
<1>. QED BY <1>1, <1>2 DEF DataStays, HasSeen, HasChunks, HasVectors

(* A step of one worker preserves DataInv when the rows agree with it and the
   worker knows enough where it goes. *)
LEMMA DataStep ==
    ASSUME WorkersOK, DataInv, DataStays, NEW w \in Workers, Others(w),
           \A s \in Sources : RowData(s)',
           Holding(w)' => HasSeen(Src(w), stage[w], pc[w])',
           requeues' = 0 => ReceivedIsFresh'
    PROVE  DataInv'
<1>1. ASSUME NEW v \in Workers, Holding(v)'
      PROVE  HasSeen(Src(v), stage[v], pc[v])'
  BY <1>1, SeenStays DEF Others
<1>. QED BY <1>1 DEF DataInv

\* The rows a step of the data does not concern.
DataSame == UNCHANGED <<state, content, batches, vectors, requeues>>

LEMMA DataSameStep ==
    ASSUME WorkersOK, DataInv, DataSame, NEW w \in Workers, Others(w),
           Holding(w)' => HasSeen(Src(w), stage[w], pc[w])'
    PROVE  DataInv'
<1>1. DataStays /\ (\A s \in Sources : RowData(s)')
                /\ (requeues' = 0 => ReceivedIsFresh')
  BY DEF DataSame, DataStays, DataInv, RowData, HasChunks, HasVectors,
         ReceivedIsFresh
<1>. QED BY <1>1, DataStep

(* One row gets a new state. *)
LEMMA RowStep ==
    ASSUME RowsOK, DataInv, NEW s \in Sources, NEW new \in States \ {"absent"},
           UpdateState(s, new), UNCHANGED <<content, batches, vectors>>,
           new = "failed" => content[s] = "malformed",
           new \in {"parsed", "embedding", "embedding_failed"} => HasChunks(s),
           new \in {"embedded", "extracting", "extraction_failed", "indexed"}
             => HasChunks(s) /\ HasVectors(s)
    PROVE  /\ DataStays /\ \A t \in Sources : RowData(t)'
           /\ new # "received" /\ ReceivedIsFresh => ReceivedIsFresh'
<1>1. state'[s] = new /\ \A t \in Sources \ {s} : state'[t] = state[t]
  BY DEF UpdateState, RowsOK
<1>2. DataStays
  BY <1>1 DEF DataStays
<1>3. RowData(s)'
  BY <1>1 DEF DataInv, RowData, HasChunks, HasVectors
<1>4. \A t \in Sources \ {s} : RowData(t)'
  BY <1>1 DEF DataInv, RowData, HasChunks, HasVectors
<1>5. new # "received" /\ ReceivedIsFresh => ReceivedIsFresh'
  BY <1>1 DEF ReceivedIsFresh
<1>. QED BY <1>2, <1>3, <1>4, <1>5

(* The state a stage leaves its source in: it needs only what the worker has
   seen by then. *)
LEMMA LeaveStep ==
    ASSUME RowsOK, WorkersOK, DataInv, NEW w \in Workers, Holding(w), Others(w),
           UNCHANGED <<content, batches, vectors, requeues>>,
           NEW new, UpdateState(Src(w), new),
           \/ new = InFlight[stage[w]]
           \/ new = Done[stage[w]] /\ pc[w] = "finish"
           \/ /\ new = Failed[stage[w]]
              /\ stage[w] = "parse" => content[Src(w)] = "malformed",
           Holding(w)' => HasSeen(Src(w), stage[w], pc[w])'
    PROVE  DataInv'
<1>1. Src(w) \in Sources /\ stage[w] \in Stages
      /\ HasSeen(Src(w), stage[w], pc[w])
  BY HeldIsTyped DEF DataInv
<1>2. /\ new \in States \ {"absent", "received"}
      /\ new = "failed" => content[Src(w)] = "malformed"
      /\ new \in {"parsed", "embedding", "embedding_failed"} => HasChunks(Src(w))
      /\ new \in {"embedded", "extracting", "extraction_failed", "indexed"}
           => HasChunks(Src(w)) /\ HasVectors(Src(w))
  <2>1. CASE stage[w] = "parse"
    BY <1>1, <2>1 DEF HasSeen, InFlight, Done, Failed, States
  <2>2. CASE stage[w] = "embed"
    BY <1>1, <2>2 DEF HasSeen, InFlight, Done, Failed, States
  <2>3. CASE stage[w] = "extract"
    BY <1>1, <2>3 DEF HasSeen, InFlight, Done, Failed, States
  <2>. QED BY <1>1, <2>1, <2>2, <2>3 DEF Stages
<1>3. /\ DataStays /\ \A t \in Sources : RowData(t)'
      /\ ReceivedIsFresh => ReceivedIsFresh'
  BY <1>1, <1>2, RowStep
<1>4. requeues' = 0 => ReceivedIsFresh'
  BY <1>3 DEF DataInv
<1>. QED BY <1>3, <1>4, DataStep

LEMMA WorkKeepsData ==
    ASSUME OwnInv, DataInv, NEW w \in Workers, Work(w)
    PROVE  DataInv'
<1>. USE DEF graph, bounds
<1>0. RowsOK /\ WorkersOK
  BY DEF OwnInv
<1>1. Holding(w) => /\ Src(w) \in Sources /\ stage[w] \in Stages
                    /\ HasSeen(Src(w), stage[w], pc[w])
  BY <1>0, HeldIsTyped DEF DataInv
<1>2. ASSUME NEW label, Goto(w, label), Holding(w), stage' = stage, DataSame,
             \/ UNCHANGED job
             \/ \E j : Keep(w, j) /\ j.src = Src(w),
             HasSeen(Src(w), stage[w], label)
      PROVE  DataInv'
  <2>1. /\ Others(w) /\ pc'[w] = label /\ stage'[w] = stage[w]
        /\ Src(w)' = Src(w)
    BY <1>0, <1>2 DEF Others, Goto, Keep, WorkersOK, Src
  <2>2. HasSeen(Src(w), stage[w], pc[w])'
    BY <1>2, <2>1 DEF HasSeen, HasChunks, HasVectors, DataSame
  <2>. QED BY <1>0, <1>2, <2>1, <2>2, DataSameStep
<1>3. ASSUME NEW label \in {"poll", "dead"}, Goto(w, label),
             SetStage(w, "parse"), Keep(w, NoJob)
      PROVE  Others(w) /\ ~Holding(w)'
  BY <1>0, <1>3 DEF Others, Goto, SetStage, Keep, WorkersOK, Holding
<1>4. ASSUME Fail(w), Holding(w),
             stage[w] = "parse" => content[Src(w)] = "malformed"
      PROVE  DataInv'
  BY <1>0, <1>3, <1>4, LeaveStep DEF Fail, Continue
<1>5. CASE LockPending(w)
  <2>1. PICK s \in Oldest(Claimable(stage[w])) : Keep(w, [NoJob EXCEPT !.src = s])
    BY <1>5 DEF LockPending
  <2>2. s \in Sources /\ state[s] = Pending[stage[w]] /\ stage[w] \in Stages
    BY <1>0, <2>1 DEF Oldest, Claimable, WorkersOK
  <2>3. /\ Others(w) /\ pc'[w] = "claim" /\ job'[w].src = s
        /\ UNCHANGED stage /\ DataSame
    BY <1>0, <1>5, <2>1 DEF LockPending, Others, Goto, Keep, WorkersOK, NoJob,
                            DataSame
  <2>4. RowData(s)
    BY <2>2 DEF DataInv
  <2>5. HasSeen(s, stage[w], "claim")
    BY <2>2, <2>4 DEF HasSeen, RowData, Pending, Stages
  <2>6. HasSeen(Src(w), stage[w], pc[w])'
    BY <2>3, <2>5 DEF HasSeen, HasChunks, HasVectors, DataSame, Src
  <2>. QED BY <1>0, <2>3, <2>6, DataSameStep
<1>6. CASE ClaimNone(w) \/ Wake(w)
  <2>1. Others(w) /\ ~Holding(w)' /\ DataSame
    BY <1>0, <1>6 DEF ClaimNone, Wake, Others, Goto, SetStage, WorkersOK,
                      Holding, DataSame
  <2>. QED BY <1>0, <2>1, DataSameStep
<1>7. CASE Claim(w)
  <2>1. Holding(w)
    BY <1>7 DEF Claim, Holding, Labels
  <2>2. Others(w) /\ pc'[w] = "read" /\ UNCHANGED <<stage, job, content, batches,
                                                    vectors, requeues>>
    BY <1>0, <1>7 DEF Claim, Others, Goto, WorkersOK
  <2>3. state'[Src(w)] = InFlight[stage[w]] /\ InFlight[stage[w]] # "absent"
    BY <1>0, <1>1, <1>7, <2>1 DEF Claim, UpdateState, RowsOK, InFlight, Stages
  <2>4. HasSeen(Src(w), stage[w], pc[w])'
    BY <1>1, <1>7, <2>1, <2>2, <2>3 DEF Claim, HasSeen, HasChunks, HasVectors, Src
  <2>. QED BY <1>0, <1>7, <2>1, <2>2, <2>4, LeaveStep DEF Claim
<1>8. CASE Parse(w)
  <2>1. Holding(w)
    BY <1>8 DEF Parse, Holding, Labels
  <2>2. CASE content[Src(w)] = "malformed" /\ Fail(w)
    BY <1>4, <2>1, <2>2
  <2>3. CASE content[Src(w)] # "malformed"
    <3>1. ASSUME NEW label, label = IF content[Src(w)] = "text" THEN "write" ELSE "finish"
          PROVE  HasSeen(Src(w), stage[w], label)
      BY <1>1, <1>8, <2>1, <3>1 DEF Parse, HasSeen, HasChunks
    <3>. QED BY <1>2, <1>8, <2>1, <2>3, <3>1 DEF Parse, DataSame
  <2>. QED BY <1>8, <2>2, <2>3 DEF Parse
<1>9. CASE SaveChunks(w)
  <2>1. Holding(w) /\ content[Src(w)] = "text" /\ stage[w] = "parse"
    BY <1>1, <1>9 DEF SaveChunks, Holding, Labels, HasSeen
  <2>2. CASE batches[Src(w)] = 0 /\ batches' = [batches EXCEPT ![Src(w)] = 1]
             /\ Goto(w, "finish") /\ UNCHANGED <<stage, job>>
    <3>1. /\ Others(w) /\ pc'[w] = "finish" /\ Src(w)' = Src(w)
          /\ UNCHANGED <<state, content, vectors, requeues>>
      BY <1>0, <1>9, <2>2 DEF SaveChunks, Others, Goto, WorkersOK, Src
    <3>2. /\ batches'[Src(w)] = 1
          /\ \A s \in Sources \ {Src(w)} : batches'[s] = batches[s]
      BY <1>0, <1>1, <2>1, <2>2 DEF RowsOK
    <3>3. DataStays
      BY <3>1, <3>2 DEF DataStays
    <3>4. state[Src(w)] \notin {"absent", "failed"}
      BY <1>1, <2>1 DEF HasSeen, DataInv, RowData
    <3>5. RowData(Src(w))'
      BY <1>1, <2>1, <3>1, <3>2, <3>4 DEF DataInv, RowData, HasChunks, HasVectors
    <3>6. \A s \in Sources \ {Src(w)} : RowData(s)'
      BY <3>1, <3>2 DEF DataInv, RowData, HasChunks, HasVectors
    <3>7. HasSeen(Src(w), stage[w], pc[w])'
      BY <1>1, <2>1, <2>2, <3>1, <3>2 DEF HasSeen, HasChunks
    <3>8. requeues' = 0 => ReceivedIsFresh'
      <4>1. requeues = 0 => state[Src(w)] = "parsing"
        BY <1>9, <2>1 DEF OwnInv, Owning, AllOwn, SaveChunks, InFlight
      <4>. QED BY <3>1, <3>2, <4>1 DEF DataInv, ReceivedIsFresh
    <3>. QED BY <1>0, <3>1, <3>3, <3>5, <3>6, <3>7, <3>8, DataStep
  <2>3. CASE Goto(w, "dead") /\ SetStage(w, "parse") /\ Keep(w, NoJob)
             /\ UNCHANGED batches
    <3>1. DataSame
      BY <1>9, <2>3 DEF SaveChunks, DataSame
    <3>. QED BY <1>0, <1>3, <2>3, <3>1, DataSameStep
  <2>. QED BY <1>9, <2>2, <2>3 DEF SaveChunks
<1>10. CASE ReadChunks(w)
  <2>1. Holding(w) /\ stage[w] # "parse"
    BY <1>10 DEF ReadChunks, Holding, Labels
  <2>2. ASSUME NEW label, label = IF batches[Src(w)] = 0 THEN "finish" ELSE "call"
        PROVE  HasSeen(Src(w), stage[w], label)
    <3>1. batches[Src(w)] \in 0..1
      BY <1>0, <1>1, <2>1 DEF RowsOK
    <3>. QED BY <1>1, <2>1, <2>2, <3>1 DEF HasSeen, HasChunks, HasVectors
  <2>. QED BY <1>2, <1>10, <2>1, <2>2 DEF ReadChunks, DataSame
<1>11. CASE GatewayError(w)
  <2>1. Holding(w) /\ stage[w] # "parse"
    BY <1>1, <1>11 DEF GatewayError, Holding, Labels, HasSeen
  <2>. QED BY <1>4, <1>11, <2>1 DEF GatewayError
<1>12. CASE GraphError(w)
  <2>1. Holding(w) /\ stage[w] # "parse"
    BY <1>1, <1>12 DEF GraphError, Holding, Labels, HasSeen
  <2>. QED BY <1>4, <1>12, <2>1 DEF GraphError
<1>13. CASE Embed(w)
  <2>1. Holding(w)
    BY <1>13 DEF Embed, Holding, Labels
  <2>2. HasSeen(Src(w), stage[w], "write")
    BY <1>1, <1>13, <2>1 DEF Embed, HasSeen
  <2>. QED BY <1>2, <1>13, <2>1, <2>2 DEF Embed, DataSame
<1>14. CASE UpsertEmbeddings(w)
  <2>1. Holding(w) /\ stage[w] = "embed" /\ batches[Src(w)] = 1
    BY <1>1, <1>14 DEF UpsertEmbeddings, Holding, Labels, HasSeen
  <2>2. /\ Others(w) /\ pc'[w] = "finish" /\ Src(w)' = Src(w)
        /\ UNCHANGED <<state, content, batches, stage, requeues>>
        /\ vectors' = vectors \union {Src(w)}
    BY <1>0, <1>14 DEF UpsertEmbeddings, Others, Goto, WorkersOK, Src
  <2>3. DataStays
    BY <2>2 DEF DataStays
  <2>4. \A s \in Sources : RowData(s)'
    BY <2>1, <2>2 DEF DataInv, RowData, HasChunks, HasVectors
  <2>5. HasSeen(Src(w), stage[w], pc[w])'
    BY <1>1, <2>1, <2>2 DEF HasSeen, HasChunks, HasVectors
  <2>6. requeues' = 0 => ReceivedIsFresh'
    BY <2>2 DEF DataInv, ReceivedIsFresh
  <2>. QED BY <1>0, <2>2, <2>3, <2>4, <2>5, <2>6, DataStep
<1>15. CASE Extract(w)
  <2>1. Holding(w) /\ stage[w] = "extract"
    BY <1>15 DEF Extract, Holding, Labels
  <2>2. HasSeen(Src(w), stage[w], "merge")
    BY <1>1, <2>1 DEF HasSeen
  <2>3. \E j : Keep(w, j) /\ j.src = Src(w)
    BY <1>15 DEF Extract
  <2>. QED BY <1>2, <1>15, <2>1, <2>2, <2>3 DEF Extract, DataSame
<1>16. CASE MergeEntity(w) \/ MergeLink(w)
  <2>1. \E todo : Keep(w, [job[w] EXCEPT !.todo = todo])
    BY <1>16 DEF MergeEntity, MergeLink
  <2>2. \A todo : [job[w] EXCEPT !.todo = todo].src = Src(w)
    BY <1>0 DEF WorkersOK, Job, Src
  <2>3. Holding(w) /\ Goto(w, pc[w]) /\ stage' = stage /\ DataSame
    BY <1>0, <1>16 DEF MergeEntity, MergeLink, Holding, Labels, Goto, WorkersOK,
                       DataSame
  <2>. QED BY <1>1, <1>2, <2>1, <2>2, <2>3
<1>17. CASE EntitiesMerged(w)
  <2>1. [job[w] EXCEPT !.todo = job[w].links].src = Src(w)
    BY <1>0 DEF WorkersOK, Job, Src
  <2>2. Holding(w)
    BY <1>17 DEF EntitiesMerged, Holding, Labels
  <2>3. HasSeen(Src(w), stage[w], "link")
    BY <1>1, <1>17, <2>2 DEF EntitiesMerged, HasSeen
  <2>. QED BY <1>2, <1>17, <2>1, <2>2, <2>3 DEF EntitiesMerged, DataSame
<1>18. CASE LinksMerged(w)
  <2>1. Holding(w)
    BY <1>18 DEF LinksMerged, Holding, Labels
  <2>2. HasSeen(Src(w), stage[w], "finish")
    BY <1>1, <1>18, <2>1 DEF LinksMerged, HasSeen
  <2>. QED BY <1>2, <1>18, <2>1, <2>2 DEF LinksMerged, DataSame
<1>19. CASE Finish(w)
  <2>1. Holding(w) /\ pc[w] = "finish"
    BY <1>19 DEF Finish, Holding, Labels
  <2>. QED BY <1>0, <1>3, <1>19, <2>1, LeaveStep DEF Finish, Continue
<1>. QED BY <1>5, <1>6, <1>7, <1>8, <1>9, <1>10, <1>11, <1>12, <1>13, <1>14,
            <1>15, <1>16, <1>17, <1>18, <1>19 DEF Work

(* Without a worker: the rows change their state, or a worker lets go. *)
LEMMA EnvironmentKeepsData ==
    ASSUME OwnInv, DataInv,
           \/ \E w \in Workers : Die(w) \/ Restart(w)
           \/ \E s \in Sources : Register(s) \/ FlipBack(s) \/ Requeue(s)
    PROVE  DataInv'
<1>. USE DEF graph, bounds
<1>0. RowsOK /\ WorkersOK
  BY DEF OwnInv
<1>1. ASSUME NEW w \in Workers, Die(w) \/ Restart(w) PROVE DataInv'
  <2>1. Others(w) /\ ~Holding(w)' /\ DataSame
    BY <1>0, <1>1 DEF Die, Restart, Others, Goto, SetStage, Keep, WorkersOK,
                      Holding, DataSame
  <2>. QED BY <1>0, <2>1, DataSameStep
<1>2. ASSUME DataStays, \A s \in Sources : RowData(s)',
             UNCHANGED <<pc, stage, job>>, requeues' = 0 => ReceivedIsFresh'
      PROVE  DataInv'
  <2>1. ASSUME NEW w \in Workers, Holding(w)'
        PROVE  HasSeen(Src(w), stage[w], pc[w])'
    BY <1>0, <1>2, <2>1, SeenStays
  <2>. QED BY <1>2, <2>1 DEF DataInv
<1>3. ASSUME NEW s \in Sources, Register(s) PROVE DataInv'
  <2>1. batches[s] = 0
    BY <1>3 DEF Register, DataInv, RowData
  <2>2. DataStays /\ \A t \in Sources : RowData(t)'
    BY <1>0, <1>3, RowStep DEF Register, States
  <2>3. requeues' = 0 => ReceivedIsFresh'
    BY <1>0, <1>3, <2>1 DEF Register, UpdateState, RowsOK, DataInv, ReceivedIsFresh
  <2>. QED BY <1>2, <1>3, <2>2, <2>3 DEF Register
<1>4. ASSUME NEW s \in Sources, FlipBack(s) PROVE DataInv'
  <2>1. PICK g \in {"parse", "embed"} :
          state[s] = Failed[g] /\ UpdateState(s, Pending[g])
    BY <1>4 DEF FlipBack
  <2>2. RowData(s) /\ batches[s] \in 0..1
    BY <1>0 DEF DataInv, RowsOK
  <2>3. DataStays /\ \A t \in Sources : RowData(t)'
    BY <1>0, <1>4, <2>1, <2>2, RowStep DEF FlipBack, States, Pending, Failed, RowData
  <2>4. Pending[g] = "received" => batches[s] = 0
    BY <2>1, <2>2 DEF RowData, Pending, Failed
  <2>5. requeues' = 0 => ReceivedIsFresh'
    BY <1>0, <1>4, <2>1, <2>4 DEF FlipBack, UpdateState, RowsOK, DataInv,
                                  ReceivedIsFresh
  <2>. QED BY <1>2, <1>4, <2>3, <2>5 DEF FlipBack
<1>5. ASSUME NEW s \in Sources, Requeue(s) PROVE DataInv'
  <2>1. PICK g \in Stages : state[s] = InFlight[g] /\ UpdateState(s, Pending[g])
    BY <1>5 DEF Requeue
  <2>2. RowData(s)
    BY DEF DataInv
  <2>3. DataStays /\ \A t \in Sources : RowData(t)'
    BY <1>0, <1>5, <2>1, <2>2, RowStep
       DEF Requeue, States, Stages, Pending, InFlight, RowData
  <2>4. requeues' # 0
    BY <1>0, <1>5, PipelineAssumption DEF Requeue, RowsOK
  <2>. QED BY <1>2, <1>5, <2>3, <2>4 DEF Requeue
<1>. QED BY <1>1, <1>3, <1>4, <1>5

LEMMA AlwaysData == Steps => [](OwnInv /\ DataInv)
<1>1. Init => DataInv
  <2>1. ASSUME Init PROVE \A s \in Sources : RowData(s) /\ batches[s] = 0
    BY <2>1 DEF Init, RowData
  <2>2. ASSUME Init PROVE \A w \in Workers : ~Holding(w)
    BY <2>2 DEF Init, Holding
  <2>. QED BY <2>1, <2>2 DEF DataInv, ReceivedIsFresh
<1>2. ASSUME OwnInv, DataInv, [Next]_vars PROVE DataInv'
  <2>1. CASE UNCHANGED vars
    BY <1>2, <2>1 DEF vars, DataInv, RowData, HasSeen, HasChunks, HasVectors,
                      ReceivedIsFresh, Holding, Src
  <2>. QED BY <1>2, <2>1, WorkKeepsData, EnvironmentKeepsData DEF Next
<1>. QED BY <1>1, <1>2, AlwaysOwnInv, PTL DEF Steps

(* The data invariant is what StateTellsData asks. *)
LEMMA DataTells == OwnInv /\ DataInv => StateTellsData
<1>. SUFFICES ASSUME RowsOK, DataInv, NEW s \in Sources
              PROVE  /\ state[s] \in {"absent", "failed"} => batches[s] = 0
                     /\ state[s] = "received" /\ requeues = 0 => batches[s] = 0
                     /\ state[s] \in {"parsed", "embedding", "embedding_failed",
                           "embedded", "extracting", "extraction_failed", "indexed"}
                          => (batches[s] = 1 <=> content[s] = "text")
                     /\ state[s] \in {"embedded", "extracting",
                           "extraction_failed", "indexed"}
                          => (s \in vectors <=> content[s] = "text")
  BY DEF OwnInv, StateTellsData
<1>1. RowData(s) /\ batches[s] \in 0..1
  BY DEF DataInv, RowsOK
<1>2. state[s] = "received" /\ requeues = 0 => batches[s] = 0
  BY DEF DataInv, ReceivedIsFresh
<1>. QED BY <1>1, <1>2 DEF RowData, HasChunks, HasVectors

(* A source that a parse failed for has no chunks and can be retried; from
   parsed on the chunks of a source are there, from embedded on their vectors:
   after any deaths, retries and resets, with any number of slow workers still
   on the source. *)
THEOREM StatesTellData == Spec => []StateTellsData
BY DataTells, AlwaysData, PTL DEF Spec, Steps

-----------------------------------------------------------------------------
(* What the graph holds of an extraction.  Nodes and edges are never taken
   away, so of what the extractor found, everything that is no longer to do is
   in the graph, whoever else works on the source; and as the ends of every
   relationship are merged first, no MERGE of a relationship is a no-op. *)
InNodes(E, s) == \A n \in E : <<n, s>> \in nodes
InEdges(L, s) == \A l \in L : <<l[1], l[2], s>> \in edges

\* What is in the graph of a job whose worker is at a label.
Merged(j, label) ==
    /\ j.links \subseteq j.entities \X j.entities
    /\ label \in {"claim", "read", "call", "write"} => j.entities = {}
    /\ label = "merge" => InNodes(j.entities \ j.todo, j.src)
    /\ label \in {"link", "finish"} => InNodes(j.entities, j.src)
    /\ label = "link" => InEdges(j.links \ j.todo, j.src)
    /\ label = "finish" => InEdges(j.links, j.src)

GraphInv == \A w \in Workers : Holding(w) => Merged(job[w], pc[w])

LEMMA MergedStays ==
    ASSUME NEW j, NEW label, Merged(j, label), nodes \subseteq nodes',
           edges \subseteq edges'
    PROVE  /\ j.links \subseteq j.entities \X j.entities
           /\ label \in {"claim", "read", "call", "write"} => j.entities = {}
           /\ label = "merge" => \A n \in j.entities \ j.todo : <<n, j.src>> \in nodes'
           /\ label \in {"link", "finish"} =>
                 \A n \in j.entities : <<n, j.src>> \in nodes'
           /\ label = "link" =>
                 \A l \in j.links \ j.todo : <<l[1], l[2], j.src>> \in edges'
           /\ label = "finish" => \A l \in j.links : <<l[1], l[2], j.src>> \in edges'
BY DEF Merged, InNodes, InEdges

(* A step of one worker preserves GraphInv when the graph only grows and holds
   what that worker says it does. *)
LEMMA GraphStep ==
    ASSUME GraphInv, NEW w \in Workers, Others(w), nodes \subseteq nodes',
           edges \subseteq edges', Holding(w)' => Merged(job[w], pc[w])'
    PROVE  GraphInv'
<1>1. ASSUME NEW v \in Workers \ {w}, Holding(v)' PROVE Merged(job[v], pc[v])'
  <2>1. pc'[v] = pc[v] /\ job'[v] = job[v] /\ Holding(v)
    BY <1>1 DEF Others, Holding
  <2>2. Merged(job[v], pc[v])
    BY <2>1 DEF GraphInv
  <2>. QED BY <2>1, <2>2, MergedStays DEF Merged, InNodes, InEdges
<1>. QED BY <1>1 DEF GraphInv

LEMMA WorkKeepsGraph ==
    ASSUME RowsOK, WorkersOK, DataInv, GraphInv, NEW w \in Workers, Work(w)
    PROVE  GraphInv'
<1>. USE DEF graph, bounds
<1>1. Holding(w) => /\ Src(w) \in Sources /\ Merged(job[w], pc[w])
                    /\ HasSeen(Src(w), stage[w], pc[w])
  BY HeldIsTyped DEF GraphInv, DataInv
<1>2. job[w] \in Job
  BY DEF WorkersOK
<1>3. ASSUME NEW label, Goto(w, label), UNCHANGED <<stage, job, nodes, edges>>,
             Merged(job[w], label)
      PROVE  GraphInv'
  <2>1. Others(w) /\ pc'[w] = label
    BY <1>3 DEF Others, Goto, WorkersOK
  <2>2. Merged(job[w], pc[w])'
    BY <1>3, <2>1 DEF Merged, InNodes, InEdges
  <2>. QED BY <1>3, <2>1, <2>2, GraphStep
<1>4. ASSUME NEW label \in {"poll", "dead"}, Goto(w, label),
             SetStage(w, "parse"), Keep(w, NoJob), UNCHANGED graph
      PROVE  GraphInv'
  <2>1. Others(w) /\ ~Holding(w)'
    BY <1>4 DEF Others, Goto, SetStage, Keep, WorkersOK, Holding
  <2>. QED BY <1>4, <2>1, GraphStep
<1>5. ASSUME NEW label, Merged(job[w], pc[w]), job[w].entities = {},
             label \notin {"poll", "sleep", "dead"}
      PROVE  Merged(job[w], label)
  BY <1>5 DEF Merged, InNodes, InEdges
<1>6. CASE LockPending(w)
  <2>1. PICK s : Keep(w, [NoJob EXCEPT !.src = s])
    BY <1>6 DEF LockPending
  <2>. DEFINE j == [NoJob EXCEPT !.src = s]
  <2>2. /\ Others(w) /\ pc'[w] = "claim" /\ job'[w] = j
        /\ UNCHANGED <<nodes, edges>>
    BY <1>6, <2>1 DEF LockPending, Others, Goto, Keep, WorkersOK
  <2>3. j.entities = {} /\ j.links = {}
    BY DEF NoJob
  <2>. HIDE DEF j
  <2>4. Merged(job[w], pc[w])'
    BY <2>2, <2>3 DEF Merged
  <2>. QED BY <2>2, <2>4, GraphStep
<1>7. CASE ClaimNone(w) \/ Wake(w)
  <2>1. Others(w) /\ ~Holding(w)' /\ UNCHANGED <<nodes, edges>>
    BY <1>7 DEF ClaimNone, Wake, Others, Goto, SetStage, WorkersOK, Holding
  <2>. QED BY <2>1, GraphStep
<1>8. CASE Claim(w) \/ ReadChunks(w) \/ Embed(w) \/ UpsertEmbeddings(w)
  <2>1. /\ Holding(w) /\ pc[w] \in {"claim", "read", "call", "write"}
        /\ UNCHANGED <<stage, job, nodes, edges>>
    BY <1>8 DEF Claim, ReadChunks, Embed, UpsertEmbeddings, Holding, Labels
  <2>2. job[w].entities = {}
    BY <1>1, <2>1 DEF Merged
  <2>3. \E label \in {"read", "call", "write", "finish"} : Goto(w, label)
    BY <1>8 DEF Claim, ReadChunks, Embed, UpsertEmbeddings
  <2>. QED BY <1>1, <1>3, <1>5, <2>1, <2>2, <2>3
<1>9. CASE Parse(w) \/ SaveChunks(w)
  <2>1. /\ Holding(w) /\ pc[w] \in {"read", "write"}
        /\ UNCHANGED <<nodes, edges>>
    BY <1>9 DEF Parse, SaveChunks, Fail, Holding, Labels
  <2>2. job[w].entities = {}
    BY <1>1, <2>1 DEF Merged
  <2>3. \/ /\ UNCHANGED <<stage, job>>
           /\ \E label \in {"write", "finish"} : Goto(w, label)
        \/ /\ SetStage(w, "parse") /\ Keep(w, NoJob)
           /\ \E label \in {"poll", "dead"} : Goto(w, label)
    BY <1>9 DEF Parse, SaveChunks, Fail, Continue
  <2>. QED BY <1>1, <1>3, <1>4, <1>5, <2>1, <2>2, <2>3
<1>10. CASE GatewayError(w) \/ GraphError(w)
  BY <1>4, <1>10 DEF GatewayError, GraphError, Fail, Continue
<1>11. CASE Extract(w)
  <2>1. PICK es \in SUBSET Names : \E ls \in SUBSET (es \X es) :
          Keep(w, [src |-> Src(w), entities |-> es, links |-> ls, todo |-> es])
    BY <1>11 DEF Extract
  <2>2. PICK ls \in SUBSET (es \X es) :
          Keep(w, [src |-> Src(w), entities |-> es, links |-> ls, todo |-> es])
    BY <2>1
  <2>3. /\ Others(w) /\ pc'[w] = "merge" /\ UNCHANGED <<nodes, edges>>
        /\ job'[w] = [src |-> Src(w), entities |-> es, links |-> ls, todo |-> es]
    BY <1>11, <2>2 DEF Extract, Others, Goto, Keep, WorkersOK
  <2>4. Merged(job[w], pc[w])'
    BY <2>3 DEF Merged, InNodes
  <2>. QED BY <2>3, <2>4, GraphStep
<1>12. CASE MergeEntity(w)
  <2>1. PICK n \in job[w].todo : /\ nodes' = nodes \union {<<n, Src(w)>>}
                                 /\ Keep(w, [job[w] EXCEPT !.todo = @ \ {n}])
    BY <1>12 DEF MergeEntity
  <2>. DEFINE j == [job[w] EXCEPT !.todo = @ \ {n}]
  <2>2. /\ Others(w) /\ pc'[w] = "merge" /\ pc[w] = "merge" /\ job'[w] = j
        /\ edges' = edges /\ Holding(w)
    BY <1>12, <2>1 DEF MergeEntity, Others, Keep, WorkersOK, Holding, Labels
  <2>3. /\ j.src = Src(w) /\ j.links = job[w].links /\ j.entities = job[w].entities
        /\ j.todo = job[w].todo \ {n}
    BY <1>2 DEF Job, Src
  <2>. HIDE DEF j
  <2>4. Merged(job[w], pc[w])'
    BY <1>1, <2>1, <2>2, <2>3 DEF Merged, InNodes, Src
  <2>. QED BY <2>1, <2>2, <2>4, GraphStep
<1>13. CASE EntitiesMerged(w)
  <2>. DEFINE j == [job[w] EXCEPT !.todo = job[w].links]
  <2>1. /\ Others(w) /\ pc'[w] = "link" /\ pc[w] = "merge" /\ job'[w] = j
        /\ UNCHANGED <<nodes, edges>> /\ Holding(w) /\ job[w].todo = {}
    BY <1>13 DEF EntitiesMerged, Others, Goto, Keep, WorkersOK, Holding, Labels
  <2>2. /\ j.src = Src(w) /\ j.links = job[w].links /\ j.entities = job[w].entities
        /\ j.todo = job[w].links
    BY <1>2 DEF Job, Src
  <2>. HIDE DEF j
  <2>3. Merged(job[w], pc[w])'
    BY <1>1, <2>1, <2>2 DEF Merged, InNodes, InEdges, Src
  <2>. QED BY <2>1, <2>3, GraphStep
<1>14. CASE MergeLink(w)
  <2>1. PICK l \in job[w].todo :
          /\ edges' = IF InGraph(l[1]) /\ InGraph(l[2])
                      THEN edges \union {<<l[1], l[2], Src(w)>>} ELSE edges
          /\ Keep(w, [job[w] EXCEPT !.todo = @ \ {l}])
    BY <1>14 DEF MergeLink
  <2>. DEFINE j == [job[w] EXCEPT !.todo = @ \ {l}]
  <2>2. /\ Others(w) /\ pc'[w] = "link" /\ pc[w] = "link" /\ job'[w] = j
        /\ nodes' = nodes /\ Holding(w)
    BY <1>14, <2>1 DEF MergeLink, Others, Keep, WorkersOK, Holding, Labels
  <2>3. /\ j.src = Src(w) /\ j.links = job[w].links /\ j.entities = job[w].entities
        /\ j.todo = job[w].todo \ {l}
    BY <1>2 DEF Job, Src
  <2>. HIDE DEF j
  <2>4. l \in job[w].links => InGraph(l[1]) /\ InGraph(l[2])
    BY <1>1, <2>2 DEF Merged, InNodes, InGraph, Src
  <2>5. edges \subseteq edges'
    BY <2>1
  <2>6. ASSUME NEW k \in job[w].links \ (job[w].todo \ {l})
        PROVE  <<k[1], k[2], Src(w)>> \in edges'
    <3>1. CASE k = l
      BY <2>1, <2>4, <2>6, <3>1
    <3>2. CASE k # l
      BY <1>1, <2>2, <2>5, <2>6, <3>2 DEF Merged, InEdges, Src
    <3>. QED BY <3>1, <3>2
  <2>7. Merged(job[w], pc[w])'
    BY <1>1, <2>2, <2>3, <2>6 DEF Merged, InNodes, InEdges, Src
  <2>. QED BY <2>2, <2>5, <2>7, GraphStep
<1>15. CASE LinksMerged(w)
  <2>1. Holding(w) /\ pc[w] = "link" /\ job[w].todo = {}
    BY <1>15 DEF LinksMerged, Holding, Labels
  <2>2. Merged(job[w], "finish")
    BY <1>1, <2>1 DEF Merged, InEdges
  <2>. QED BY <1>3, <1>15, <2>2 DEF LinksMerged
<1>16. CASE Finish(w)
  BY <1>4, <1>16 DEF Finish, Continue
<1>. QED BY <1>6, <1>7, <1>8, <1>9, <1>10, <1>11, <1>12, <1>13, <1>14, <1>15,
            <1>16 DEF Work

LEMMA AlwaysMerged == Steps => [](OwnInv /\ DataInv /\ GraphInv)
<1>1. Init => GraphInv
  BY DEF Init, GraphInv, Holding
<1>2. ASSUME OwnInv, DataInv, GraphInv, [Next]_vars PROVE GraphInv'
  <2>1. RowsOK /\ WorkersOK
    BY <1>2 DEF OwnInv
  <2>2. CASE UNCHANGED vars
    BY <1>2, <2>2 DEF vars, graph, GraphInv, Merged, InNodes, InEdges, Holding
  <2>3. ASSUME NEW w \in Workers, Work(w) PROVE GraphInv'
    BY <1>2, <2>1, <2>3, WorkKeepsGraph
  <2>4. ASSUME NEW w \in Workers, Die(w) \/ Restart(w) PROVE GraphInv'
    <3>1. Others(w) /\ ~Holding(w)' /\ UNCHANGED graph
      BY <2>1, <2>4 DEF Die, Restart, Others, Goto, SetStage, Keep, WorkersOK,
                        Holding
    <3>. QED BY <1>2, <2>4, <3>1, GraphStep DEF graph
  <2>5. ASSUME NEW s \in Sources, Register(s) \/ FlipBack(s) \/ Requeue(s)
        PROVE  GraphInv'
    BY <1>2, <2>5 DEF Register, FlipBack, Requeue, graph, GraphInv, Merged,
                      InNodes, InEdges, Holding
  <2>. QED BY <1>2, <2>2, <2>3, <2>4, <2>5 DEF Next
<1>. QED BY <1>1, <1>2, AlwaysData, PTL DEF Steps

(* The step that makes a source indexed is the end of some worker's extraction. *)
LEMMA OnlyFinishIndexes ==
    ASSUME RowsOK, WorkersOK, DataInv, Next, NEW s \in Sources,
           state[s] # "indexed", state'[s] = "indexed"
    PROVE  \E w \in Workers : Src(w) = s /\ pc[w] = "finish"
<1>1. ASSUME NEW t, NEW new, UpdateState(t, new) PROVE t = s /\ new = "indexed"
  BY <1>1 DEF UpdateState, RowsOK
<1>2. ASSUME NEW w \in Workers, Fail(w), Holding(w) PROVE FALSE
  <2>1. stage[w] \in Stages /\ UpdateState(Src(w), Failed[stage[w]])
    BY <1>2, HeldIsTyped DEF Fail
  <2>. QED BY <1>1, <2>1 DEF Failed, Stages
<1>3. ASSUME NEW w \in Workers, Work(w) PROVE Src(w) = s /\ pc[w] = "finish"
  <2>1. ~(Parse(w) /\ Fail(w)) /\ ~GatewayError(w) /\ ~GraphError(w)
    BY <1>2 DEF Parse, GatewayError, GraphError, Holding, Labels
  <2>2. ~Claim(w)
    <3>1. Claim(w) => stage[w] \in Stages /\ UpdateState(Src(w), InFlight[stage[w]])
      BY DEF Claim, WorkersOK
    <3>. QED BY <1>1, <3>1 DEF InFlight, Stages
  <2>3. ~(LockPending(w) \/ ClaimNone(w) \/ Wake(w) \/ Parse(w) \/ SaveChunks(w)
          \/ ReadChunks(w) \/ Embed(w) \/ UpsertEmbeddings(w) \/ Extract(w))
    BY <2>1 DEF LockPending, ClaimNone, Wake, Parse, SaveChunks, ReadChunks, Embed,
                UpsertEmbeddings, Extract
  <2>4. ~(MergeEntity(w) \/ EntitiesMerged(w) \/ MergeLink(w) \/ LinksMerged(w))
    BY DEF MergeEntity, EntitiesMerged, MergeLink, LinksMerged
  <2>5. Finish(w)
    BY <1>3, <2>1, <2>2, <2>3, <2>4 DEF Work
  <2>. QED BY <1>1, <2>5 DEF Finish
<1>4. ASSUME NEW w \in Workers, Die(w) \/ Restart(w) PROVE FALSE
  BY <1>4 DEF Die, Restart
<1>5. ASSUME NEW t \in Sources, Register(t) \/ FlipBack(t) \/ Requeue(t) PROVE FALSE
  BY <1>1, <1>5 DEF Register, FlipBack, Requeue, Pending, Stages
<1>. QED BY <1>3, <1>4, <1>5 DEF Next

(* Indexing finds everything of the extraction in the graph. *)
LEMMA IndexedSteps ==
    OwnInv /\ DataInv /\ GraphInv /\ [Next]_vars =>
        [\A s \in Sources : state[s] # "indexed" /\ state'[s] = "indexed" =>
           \E w \in Workers :
             /\ Src(w) = s
             /\ \A n \in job[w].entities : <<n, s>> \in nodes
             /\ \A l \in job[w].links : <<l[1], l[2], s>> \in edges]_vars
<1>1. ASSUME OwnInv, DataInv, GraphInv, Next, NEW s \in Sources,
             state[s] # "indexed", state'[s] = "indexed"
      PROVE  \E w \in Workers :
               /\ Src(w) = s
               /\ \A n \in job[w].entities : <<n, s>> \in nodes
               /\ \A l \in job[w].links : <<l[1], l[2], s>> \in edges
  <2>1. PICK w \in Workers : Src(w) = s /\ pc[w] = "finish"
    BY <1>1, OnlyFinishIndexes DEF OwnInv
  <2>2. Merged(job[w], "finish")
    BY <1>1, <2>1 DEF GraphInv, Holding, Labels
  <2>. QED BY <2>1, <2>2 DEF Merged, InNodes, InEdges, Src
<1>. QED BY <1>1

(* Whenever a source becomes indexed, every entity and every relationship of the
   extraction that ends is in the graph under that source, however many other
   workers merge at the same time and however often extractions broke off. *)
THEOREM IndexedSourcesAreInGraph == Spec => IndexedIsInGraph
BY IndexedSteps, AlwaysMerged, PTL DEF Spec, Steps, IndexedIsInGraph

-----------------------------------------------------------------------------
(* A retrieval beside the pipeline.  Nothing of an indexed source changes any
   more, as no worker holds it; and a relationship has both its ends in the
   graph, so a seed that entered it later than the traversal looked has none
   with what was there. *)
EdgeEnds == \A e \in edges : InGraph(e[1]) /\ InGraph(e[2])

Retrieval == [phase: {"none", "read", "answered"}, seed: SUBSET Names,
              ids: SUBSET Sources, found: SUBSET Names]

\* Of a source the traversal has all that its own relationships connect.
Whole(s) == \A n \in Within(search.seed, Depth, LinksOf({s})) :
                <<n, s>> \in nodes => n \in search.found

SearchInv ==
    /\ search \in Retrieval
    /\ search.phase = "none" => search = NoSearch
    /\ search.phase = "answered" =>
          \A n \in search.found : \E s \in search.ids : <<n, s>> \in nodes
    /\ requeues = 0 =>
          \A s \in search.ids : /\ state[s] = "indexed" /\ s \in vectors
                                /\ search.phase = "answered" => Whole(s)

DeepInv == OwnInv /\ DataInv /\ GraphInv /\ EdgeEnds /\ SearchInv

\* What a step of the pipeline leaves of an indexed source.
Kept(s) == /\ state'[s] = "indexed"
           /\ \A n \in Names : <<n, s>> \in nodes' => <<n, s>> \in nodes
           /\ \A e \in edges' : e[3] = s => e \in edges

Grows == nodes \subseteq nodes' /\ edges \subseteq edges' /\ vectors \subseteq vectors'

LEMMA WorkLeavesIndexed ==
    ASSUME OwnInv, Owning, NEW w \in Workers, Work(w),
           NEW s \in Sources, state[s] = "indexed"
    PROVE  Kept(s)
<1>1. RowsOK /\ WorkersOK
  BY DEF OwnInv
<1>2. Holding(w) => Src(w) \in Sources /\ Src(w) # s /\ stage[w] \in Stages
  <2>1. ASSUME Holding(w) PROVE Src(w) # s
    <3>1. stage[w] \in Stages
      BY <1>1, <2>1, HeldIsTyped
    <3>2. Pending[stage[w]] # "indexed" /\ InFlight[stage[w]] # "indexed"
      BY <3>1 DEF Pending, InFlight, Stages
    <3>. QED BY <2>1, <3>2 DEF Owning, AllOwn
  <2>. QED BY <1>1, <2>1, HeldIsTyped
<1>3. CASE UNCHANGED <<state, nodes, edges>>
  BY <1>3 DEF Kept
<1>4. ASSUME NEW new, Holding(w), UpdateState(Src(w), new), UNCHANGED <<nodes, edges>>
      PROVE  Kept(s)
  BY <1>1, <1>2, <1>4 DEF UpdateState, Kept, RowsOK
<1>5. ASSUME Fail(w), Holding(w) PROVE Kept(s)
  BY <1>4, <1>5 DEF Fail, graph
<1>6. CASE Claim(w) \/ Finish(w)
  BY <1>4, <1>6 DEF Claim, Finish, graph, Holding, Labels
<1>7. CASE Parse(w) \/ GatewayError(w) \/ GraphError(w)
  BY <1>3, <1>5, <1>7 DEF Parse, GatewayError, GraphError, graph, Holding, Labels
<1>8. CASE MergeEntity(w)
  <2>1. Holding(w) /\ state' = state /\ edges' = edges
    BY <1>8 DEF MergeEntity, Holding, Labels
  <2>2. PICK n : nodes' = nodes \union {<<n, Src(w)>>}
    BY <1>8 DEF MergeEntity
  <2>. QED BY <1>2, <2>1, <2>2 DEF Kept
<1>9. CASE MergeLink(w)
  <2>1. Holding(w) /\ state' = state /\ nodes' = nodes
    BY <1>9 DEF MergeLink, Holding, Labels
  <2>2. PICK l : edges' = IF InGraph(l[1]) /\ InGraph(l[2])
                          THEN edges \union {<<l[1], l[2], Src(w)>>} ELSE edges
    BY <1>9 DEF MergeLink
  <2>3. \A e \in edges' : e \in edges \/ e = <<l[1], l[2], Src(w)>>
    BY <2>2
  <2>. QED BY <1>2, <2>1, <2>3 DEF Kept
<1>10. CASE LockPending(w) \/ ClaimNone(w) \/ Wake(w) \/ SaveChunks(w) \/ ReadChunks(w)
            \/ Embed(w) \/ UpsertEmbeddings(w) \/ Extract(w) \/ EntitiesMerged(w)
            \/ LinksMerged(w)
  BY <1>3, <1>10 DEF LockPending, ClaimNone, Wake, SaveChunks, ReadChunks, Embed,
                     UpsertEmbeddings, Extract, EntitiesMerged, LinksMerged, graph
<1>. QED BY <1>6, <1>7, <1>8, <1>9, <1>10 DEF Work

LEMMA StepLeavesIndexed ==
    ASSUME OwnInv, [Next]_vars, requeues' = 0, NEW s \in Sources, state[s] = "indexed"
    PROVE  Kept(s)
<1>1. CASE UNCHANGED vars
  BY <1>1 DEF vars, graph, Kept
<1>2. CASE Next
  <2>1. Owning /\ ~\E t \in Sources : Requeue(t)
    BY <1>2, RequeuesGrow DEF OwnInv
  <2>2. ASSUME NEW w \in Workers, Die(w) \/ Restart(w) PROVE Kept(s)
    BY <2>2 DEF Die, Restart, graph, Kept
  <2>3. ASSUME NEW t \in Sources, Register(t) \/ FlipBack(t) PROVE Kept(s)
    <3>1. t # s
      BY <2>3 DEF Register, FlipBack, Failed
    <3>2. UNCHANGED graph /\ state'[s] = state[s]
      BY <2>3, <3>1 DEF Register, FlipBack, UpdateState, OwnInv, RowsOK
    <3>. QED BY <3>2 DEF Kept, graph
  <2>. QED BY <1>2, <2>1, <2>2, <2>3, WorkLeavesIndexed DEF Next
<1>. QED BY <1>1, <1>2

LEMMA StepGrows ==
    ASSUME [Next]_vars
    PROVE  Grows
<1>1. ASSUME NEW w \in Workers, Work(w) PROVE Grows
  <2>1. CASE LockPending(w) \/ ClaimNone(w) \/ Claim(w) \/ Wake(w) \/ Parse(w)
             \/ SaveChunks(w) \/ ReadChunks(w) \/ GatewayError(w) \/ GraphError(w)
    BY <2>1 DEF LockPending, ClaimNone, Claim, Wake, Parse, SaveChunks, ReadChunks,
                GatewayError, GraphError, Fail, Grows, graph
  <2>2. CASE Embed(w) \/ UpsertEmbeddings(w) \/ Extract(w) \/ MergeEntity(w)
             \/ EntitiesMerged(w) \/ MergeLink(w) \/ LinksMerged(w) \/ Finish(w)
    BY <2>2 DEF Embed, UpsertEmbeddings, Extract, MergeEntity, EntitiesMerged,
                MergeLink, LinksMerged, Finish, Grows, graph
  <2>. QED BY <1>1, <2>1, <2>2 DEF Work
<1>2. ASSUME NEW w \in Workers, Die(w) \/ Restart(w) PROVE Grows
  BY <1>2 DEF Die, Restart, Grows, graph
<1>3. ASSUME NEW s \in Sources, Register(s) \/ FlipBack(s) \/ Requeue(s) PROVE Grows
  BY <1>3 DEF Register, FlipBack, Requeue, Grows, graph
<1>4. CASE UNCHANGED vars
  BY <1>4 DEF vars, graph, Grows
<1>. QED BY <1>1, <1>2, <1>3, <1>4 DEF Next

LEMMA StepKeepsEnds ==
    ASSUME EdgeEnds, [Next]_vars
    PROVE  EdgeEnds'
<1>1. \A n : InGraph(n) => InGraph(n)'
  BY StepGrows DEF Grows, InGraph
<1>2. CASE edges' = edges
  BY <1>1, <1>2 DEF EdgeEnds
<1>3. ASSUME NEW w \in Workers, MergeLink(w) PROVE EdgeEnds'
  <2>1. PICK l : edges' = IF InGraph(l[1]) /\ InGraph(l[2])
                          THEN edges \union {<<l[1], l[2], Src(w)>>} ELSE edges
    BY <1>3 DEF MergeLink
  <2>2. ASSUME NEW e \in edges' PROVE InGraph(e[1])' /\ InGraph(e[2])'
    <3>1. CASE e \in edges
      BY <1>1, <3>1 DEF EdgeEnds
    <3>2. CASE e \notin edges
      <4>1. e = <<l[1], l[2], Src(w)>> /\ InGraph(l[1]) /\ InGraph(l[2])
        BY <2>1, <3>2
      <4>2. e[1] = l[1] /\ e[2] = l[2]
        BY <4>1
      <4>. QED BY <1>1, <4>1, <4>2
    <3>. QED BY <3>1, <3>2
  <2>. QED BY <2>2 DEF EdgeEnds
<1>4. ASSUME NEW w \in Workers, Work(w), ~MergeLink(w) PROVE edges' = edges
  <2>1. CASE LockPending(w) \/ ClaimNone(w) \/ Claim(w) \/ Wake(w) \/ Parse(w)
             \/ SaveChunks(w) \/ ReadChunks(w) \/ GatewayError(w) \/ GraphError(w)
    BY <2>1 DEF LockPending, ClaimNone, Claim, Wake, Parse, SaveChunks, ReadChunks,
                GatewayError, GraphError, Fail, graph
  <2>2. CASE Embed(w) \/ UpsertEmbeddings(w) \/ Extract(w) \/ MergeEntity(w)
             \/ EntitiesMerged(w) \/ LinksMerged(w) \/ Finish(w)
    BY <2>2 DEF Embed, UpsertEmbeddings, Extract, MergeEntity, EntitiesMerged,
                LinksMerged, Finish, graph
  <2>. QED BY <1>4, <2>1, <2>2 DEF Work
<1>5. ASSUME NEW w \in Workers, Die(w) \/ Restart(w) PROVE edges' = edges
  BY <1>5 DEF Die, Restart, graph
<1>6. ASSUME NEW s \in Sources, Register(s) \/ FlipBack(s) \/ Requeue(s)
      PROVE  edges' = edges
  BY <1>6 DEF Register, FlipBack, Requeue, graph
<1>7. UNCHANGED vars => edges' = edges
  BY DEF vars, graph
<1>. QED BY <1>2, <1>3, <1>4, <1>5, <1>6, <1>7 DEF Next

-----------------------------------------------------------------------------
(* Paths. *)

\* What Within asks of a path from an entity of the graph.
Path(path, seed, hops, links, n) ==
    /\ path \in [0..hops -> Names]
    /\ path[0] \in seed
    /\ path[hops] = n
    /\ \A d \in 1..hops : \/ path[d] = path[d - 1]
                          \/ <<path[d - 1], path[d]>> \in links
                          \/ <<path[d], path[d - 1]>> \in links

LEMMA WithinIsPath ==
    ASSUME NEW seed, NEW hops, NEW links, NEW n
    PROVE  n \in Within(seed, hops, links) <=>
             n \in Names /\ \E path : Path(path, seed, hops, links, n) /\ InGraph(path[0])
BY DEF Within, Path

(* More links, longer ways. *)
LEMMA MoreLinks ==
    ASSUME NEW seed, NEW hops, NEW links, NEW more, links \subseteq more
    PROVE  Within(seed, hops, links) \subseteq Within(seed, hops, more)
<1>1. ASSUME NEW n \in Within(seed, hops, links) PROVE n \in Within(seed, hops, more)
  <2>1. n \in Names
    BY <1>1, WithinIsPath
  <2>2. PICK path : Path(path, seed, hops, links, n) /\ InGraph(path[0])
    BY <1>1, WithinIsPath
  <2>3. Path(path, seed, hops, more, n)
    BY <2>2 DEF Path
  <2>. QED BY <2>1, <2>2, <2>3, WithinIsPath
<1>. QED BY <1>1

(* A set of naturals has a least element. *)
LEMMA LeastNatural ==
    ASSUME NEW S \in SUBSET Nat, S # {}
    PROVE  \E m \in S : \A k \in S : m <= k
<1>. DEFINE R == OpToRel(<, Nat)
<1>1. IsWellFoundedOn(R, Nat)
  BY NatLessThanWellFounded
<1>2. \A x, y \in Nat : x < y => <<x, y>> \in R
  BY DEF OpToRel
<1>. HIDE DEF R
<1>3. PICK m \in S : \A k \in S : ~(<<k, m>> \in R)
  BY <1>1, WFMin
<1>4. ASSUME NEW k \in S PROVE m <= k
  <2>1. k \in Nat /\ m \in Nat /\ ~(k < m)
    BY <1>2, <1>3
  <2>. QED BY <2>1
<1>. QED BY <1>4

(* A path that goes anywhere leaves its first entity along a link. *)
LEMMA PathLeaves ==
    ASSUME NEW hops \in Nat, NEW path, NEW seed, NEW links, NEW n,
           Path(path, seed, hops, links, n), n # path[0]
    PROVE  \E k : <<path[0], k>> \in links \/ <<k, path[0]>> \in links
<1>. DEFINE Away == {d \in 0..hops : path[d] # path[0]}
<1>1. hops \in Away /\ Away \in SUBSET Nat
  BY DEF Path
<1>2. PICK d \in Away : \A e \in Away : d <= e
  <2>. HIDE DEF Away
  <2>. QED BY <1>1, LeastNatural
<1>3. d \in 1..hops /\ d - 1 \in 0..hops
  OBVIOUS
<1>4. path[d - 1] = path[0]
  BY <1>2, <1>3
<1>5. path[d] # path[d - 1]
  BY <1>4
<1>. QED BY <1>3, <1>4, <1>5 DEF Path

(* What surfaced of a source stays whole when nothing of the source changes,
   whatever else enters the graph. *)
LEMMA WholeStays ==
    ASSUME DeepInv, EdgeEnds, Grows, UNCHANGED search,
           NEW s \in Sources, Kept(s), Whole(s)
    PROVE  Whole(s)'
<1>1. LinksOf({s})' = LinksOf({s})
  BY DEF LinksOf, Kept, Grows
<1>2. SUFFICES ASSUME NEW n \in Names, NEW path,
                      Path(path, search.seed, Depth, LinksOf({s}), n), InGraph(path[0])',
                      <<n, s>> \in nodes'
               PROVE  n \in search.found
  <2>1. SUFFICES ASSUME NEW n \in Within(search.seed, Depth, LinksOf({s}))',
                        <<n, s>> \in nodes'
                 PROVE  n \in search.found
    BY DEF Whole
  <2>2. /\ n \in Names
        /\ \E path : Path(path, search.seed, Depth, LinksOf({s}), n) /\ InGraph(path[0])'
    BY <1>1, <2>1 DEF Within, Path
  <2>. QED BY <1>2, <2>1, <2>2
<1>3. <<n, s>> \in nodes
  BY <1>2 DEF Kept
<1>4. CASE InGraph(path[0])
  <2>1. n \in Within(search.seed, Depth, LinksOf({s}))
    BY <1>2, <1>4, WithinIsPath
  <2>. QED BY <1>3, <2>1 DEF Whole
<1>5. CASE ~InGraph(path[0])
  <2>1. n # path[0]
    BY <1>3, <1>5 DEF InGraph
  <2>2. Depth \in Nat
    BY TraversalAssumption
  <2>3. PICK k : <<path[0], k>> \in LinksOf({s}) \/ <<k, path[0]>> \in LinksOf({s})
    BY <1>2, <2>1, <2>2, PathLeaves
  <2>4. PICK e \in edges : <<e[1], e[2]>> = <<path[0], k>> \/ <<e[1], e[2]>> = <<k, path[0]>>
    BY <2>3 DEF LinksOf
  <2>5. e[1] = path[0] \/ e[2] = path[0]
    BY <2>4
  <2>. QED BY <1>5, <2>5 DEF EdgeEnds
<1>. QED BY <1>4, <1>5

LEMMA PipelineKeepsSearch ==
    ASSUME DeepInv, [Next]_vars, UNCHANGED search
    PROVE  SearchInv'
<1>1. Grows
  BY StepGrows
<1>2. ASSUME requeues' = 0, NEW s \in search.ids
      PROVE  /\ state'[s] = "indexed" /\ s \in vectors'
             /\ search.phase = "answered" => Whole(s)'
  <2>1. s \in Sources
    BY DEF DeepInv, SearchInv, Retrieval
  <2>2. requeues = 0
    <3>1. CASE Next
      BY <1>2, <3>1, RequeuesGrow DEF DeepInv, OwnInv
    <3>2. CASE UNCHANGED vars
      BY <1>2, <3>2 DEF vars, bounds
    <3>. QED BY <3>1, <3>2
  <2>3. state[s] = "indexed" /\ s \in vectors /\ (search.phase = "answered" => Whole(s))
    BY <1>2, <2>2 DEF DeepInv, SearchInv
  <2>4. Kept(s)
    BY <1>2, <2>1, <2>3, StepLeavesIndexed DEF DeepInv
  <2>5. search.phase = "answered" => Whole(s)'
    BY <1>1, <2>1, <2>3, <2>4, WholeStays DEF DeepInv
  <2>. QED BY <1>1, <2>3, <2>4, <2>5 DEF Kept, Grows
<1>3. search.phase = "answered" =>
          \A n \in search.found : \E s \in search.ids : <<n, s>> \in nodes'
  BY <1>1 DEF Grows, DeepInv, SearchInv
<1>. QED BY <1>2, <1>3 DEF DeepInv, SearchInv

-----------------------------------------------------------------------------
(* The retrieval's own steps. *)
LEMMA RetrieveKeepsSearch ==
    ASSUME DeepInv, Retrieve
    PROVE  SearchInv'
<1>0. UNCHANGED vars
  BY DEF Retrieve, SearchVector, ReadIndexedChunkIds, TraverseFromSeed
<1>1. CASE SearchVector
  <2>1. PICK nearest \in SUBSET {s \in vectors : state[s] = "indexed"} :
          search' = [NoSearch EXCEPT !.phase = "answered", !.ids = nearest]
    BY <1>1 DEF SearchVector
  <2>2. /\ search'.phase = "answered" /\ search'.seed = {} /\ search'.found = {}
        /\ search'.ids = nearest /\ search' \in Retrieval
    BY <2>1 DEF NoSearch, Retrieval, DeepInv, OwnInv, RowsOK
  <2>3. \A s : Whole(s)'
    BY <2>2 DEF Whole, Within
  <2>. QED BY <1>0, <2>1, <2>2, <2>3 DEF SearchInv, vars
<1>2. CASE ReadIndexedChunkIds
  <2>1. PICK n \in Names :
          search' = [NoSearch EXCEPT !.phase = IF IndexedSources = {} THEN "answered" ELSE "read",
                                     !.seed = {n}, !.ids = IndexedSources]
    BY <1>2 DEF ReadIndexedChunkIds
  <2>2. IndexedSources \subseteq Sources
    BY DEF IndexedSources
  <2>3. /\ search'.phase = IF IndexedSources = {} THEN "answered" ELSE "read"
        /\ search'.seed = {n} /\ search'.found = {}
        /\ search'.ids = IndexedSources /\ search' \in Retrieval
    BY <2>1, <2>2 DEF NoSearch, Retrieval
  <2>4. ASSUME NEW s \in IndexedSources PROVE state[s] = "indexed" /\ s \in vectors
    <3>1. s \in Sources /\ state[s] = "indexed" /\ batches[s] # 0
      BY DEF IndexedSources
    <3>2. RowData(s) /\ batches[s] \in 0..1
      BY <3>1 DEF DeepInv, DataInv, OwnInv, RowsOK
    <3>. QED BY <3>1, <3>2 DEF RowData, HasVectors
  <2>. QED BY <1>0, <2>3, <2>4 DEF SearchInv, vars
<1>3. CASE TraverseFromSeed
  <2>. DEFINE F == {n \in Within(search.seed, Depth, LinksOf(Sources)) :
                       \E s \in search.ids : <<n, s>> \in nodes}
  <2>1. search.phase = "read" /\ search \in Retrieval
        /\ search' = [search EXCEPT !.phase = "answered", !.found = F]
    BY <1>3 DEF TraverseFromSeed, DeepInv, SearchInv
  <2>2. F \subseteq Names
    BY DEF Within
  <2>3. \A n \in F : \E s \in search.ids : <<n, s>> \in nodes
    OBVIOUS
  <2>4. ASSUME NEW s \in Sources, s \in search.ids,
               NEW n \in Within(search.seed, Depth, LinksOf({s})), <<n, s>> \in nodes
        PROVE  n \in F
    <3>1. LinksOf({s}) \subseteq LinksOf(Sources)
      BY DEF LinksOf
    <3>2. n \in Within(search.seed, Depth, LinksOf(Sources))
      BY <2>4, <3>1, MoreLinks
    <3>. QED BY <2>4, <3>2
  <2>. HIDE DEF F
  <2>5. /\ search'.phase = "answered" /\ search'.seed = search.seed
        /\ search'.ids = search.ids /\ search'.found = F /\ search' \in Retrieval
    BY <2>1, <2>2 DEF Retrieval
  <2>6. search.ids \subseteq Sources
    BY <2>1 DEF Retrieval
  <2>7. \A s \in search.ids : Whole(s)'
    BY <1>0, <2>4, <2>5, <2>6 DEF Whole, Within, LinksOf, InGraph, vars, graph
  <2>8. requeues = 0 => \A s \in search.ids : state[s] = "indexed" /\ s \in vectors
    BY DEF DeepInv, SearchInv
  <2>. QED BY <1>0, <2>3, <2>5, <2>7, <2>8 DEF SearchInv, vars, graph, bounds
<1>. QED BY <1>1, <1>2, <1>3 DEF Retrieve

(* A retrieval changes nothing the pipeline sees: its steps are the pipeline's. *)
LEMMA SearchSteps ==
    ASSUME [SearchNext]_searchVars
    PROVE  [Next]_vars /\ (Retrieve \/ UNCHANGED search)
<1>1. CASE UNCHANGED searchVars
  BY <1>1 DEF searchVars
<1>2. CASE Retrieve
  BY <1>2 DEF Retrieve, SearchVector, ReadIndexedChunkIds, TraverseFromSeed
<1>3. ASSUME NEW w \in Workers, Works(w) \/ Dies(w) \/ Restarts(w)
      PROVE  Next /\ UNCHANGED search
  BY <1>3 DEF Works, Dies, Restarts, Next
<1>4. ASSUME NEW s \in Sources, Registers(s) \/ FlipsBack(s) \/ Requeued(s)
      PROVE  Next /\ UNCHANGED search
  BY <1>4 DEF Registers, FlipsBack, Requeued, Next
<1>. QED BY <1>1, <1>2, <1>3, <1>4 DEF SearchNext

LEMMA SearchIsPipeline == SearchSpec => Steps
<1>1. SearchInit => Init
  BY DEF SearchInit
<1>2. [SearchNext]_searchVars => [Next]_vars
  BY SearchSteps
<1>. QED BY <1>1, <1>2, PTL DEF SearchSpec, Steps

LEMMA AlwaysDeep == SearchSpec => []DeepInv
<1>1. SearchInit => EdgeEnds /\ SearchInv
  BY DEF SearchInit, Init, EdgeEnds, SearchInv, NoSearch, Retrieval
<1>2. DeepInv /\ [SearchNext]_searchVars => (EdgeEnds /\ SearchInv)'
  <2>. SUFFICES ASSUME DeepInv, [SearchNext]_searchVars PROVE (EdgeEnds /\ SearchInv)'
    OBVIOUS
  <2>1. [Next]_vars /\ (Retrieve \/ UNCHANGED search)
    BY SearchSteps
  <2>2. EdgeEnds'
    BY <2>1, StepKeepsEnds DEF DeepInv
  <2>. QED BY <2>1, <2>2, PipelineKeepsSearch, RetrieveKeepsSearch
<1>3. DeepInv <=> (OwnInv /\ DataInv /\ GraphInv) /\ (EdgeEnds /\ SearchInv)
  BY DEF DeepInv
<1>. QED BY <1>1, <1>2, <1>3, SearchIsPipeline, AlwaysMerged, PTL DEF SearchSpec

(* A vector search and a traversal give only sources that are indexed and have
   their vectors; a traversal gives of each such source everything that its own
   relationships connect to the seed, and nothing that no such source mentions:
   for any depth, and whatever the workers claim, merge or fail meanwhile and
   however often they die. *)
THEOREM WholeSourcesSurface == SearchSpec => []SurfacesWholeSources
<1>1. DeepInv => SurfacesWholeSources
  BY DEF DeepInv, SearchInv, Whole, SurfacesWholeSources
<1>. QED BY <1>1, AlwaysDeep, PTL

(* What is proved of the pipeline holds beside a retrieval. *)
THEOREM RetrievalDisturbsNothing ==
    SearchSpec => [](TypeOK /\ OwnsItsSource /\ StateTellsData) /\ IndexedIsInGraph
<1>1. OwnInv => TypeOK /\ OwnsItsSource
  BY TypeParts DEF OwnInv, Owning, Exclusive, AllOwn, OwnsItsSource
<1>2. Steps => IndexedIsInGraph
  BY IndexedSteps, AlwaysMerged, PTL DEF Steps, IndexedIsInGraph
<1>. QED BY <1>1, <1>2, DataTells, SearchIsPipeline, AlwaysData, PTL
=============================================================================
