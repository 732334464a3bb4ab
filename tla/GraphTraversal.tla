--------------------------- MODULE GraphTraversal ---------------------------
(***************************************************************************)
(* A retrieval while the pipeline ingests.  A vector search is one         *)
(* statement over chunks and sources.  A traversal reads the chunks of     *)
(* indexed sources in Postgres, and then walks the graph in Neo4j, over    *)
(* whatever the workers have merged by then: an entity surfaces when one   *)
(* of its chunks is among those read, and the relationships on the way to  *)
(* it are not asked whose they are.                                        *)
(*                                                                         *)
(* Chunks are told apart by their source.  One retrieval is followed; it   *)
(* changes nothing the workers see.                                        *)
(***************************************************************************)
EXTENDS IngestionPipeline, TLC

CONSTANT Depth  \* hops asked for

ASSUME TraversalAssumption == Depth \in 0..8

VARIABLE search  \* the retrieval: where it is, its seed, the sources and entities it has

searchVars == <<vars, search>>

NoSearch == [phase |-> "none", seed |-> {}, ids |-> {}, found |-> {}]

SearchInit == Init /\ search = NoSearch

-----------------------------------------------------------------------------
(* The entities within so many hops of a seed: a path of hops from the entity of
   that name, each along a relationship either way, and shorter paths wait. *)
Within(seed, hops, links) ==
    {n \in Names : \E path \in [0..hops -> Names] :
        /\ path[0] \in seed /\ InGraph(path[0])
        /\ path[hops] = n
        /\ \A d \in 1..hops :
              LET k == path[d - 1]
              IN  path[d] = k \/ <<k, path[d]>> \in links \/ <<path[d], k>> \in links}

LinksOf(S) == {<<e[1], e[2]>> : e \in {x \in edges : x[3] \in S}}

-----------------------------------------------------------------------------
(* search_vector, the query embedded: the nearest of the chunks that qualify. *)
SearchVector ==
    /\ search = NoSearch
    /\ \E nearest \in SUBSET {s \in vectors : state[s] = "indexed"} :
          search' = [NoSearch EXCEPT !.phase = "answered", !.ids = nearest]
    /\ UNCHANGED vars

\* Variant: a source counts as soon as its chunks have their vectors.
IndexedSources_Embedded ==
    {s \in Sources : state[s] \in {"embedded", "extracting", "indexed"} /\ batches[s] # 0}

(* _read_indexed_chunk_ids *)
IndexedSources == {s \in Sources : state[s] = "indexed" /\ batches[s] # 0}

(* traverse_graph begins: without indexed chunks the graph is not asked. *)
ReadIndexedChunkIds ==
    /\ search = NoSearch
    /\ \E n \in Names :
          search' = [NoSearch EXCEPT !.phase = IF IndexedSources = {} THEN "answered" ELSE "read",
                                     !.seed = {n}, !.ids = IndexedSources]
    /\ UNCHANGED vars

(* traverse_from_seed: one query, which reads what is committed. *)
TraverseFromSeed ==
    /\ search.phase = "read"
    /\ search' = [search EXCEPT !.phase = "answered",
           !.found = {n \in Within(search.seed, Depth, LinksOf(Sources)) :
                         \E s \in search.ids : <<n, s>> \in nodes}]
    /\ UNCHANGED vars

Retrieve == SearchVector \/ ReadIndexedChunkIds \/ TraverseFromSeed

-----------------------------------------------------------------------------
(* Beside the pipeline. *)
Works(w) == Work(w) /\ UNCHANGED search
Dies(w) == Die(w) /\ UNCHANGED search
Restarts(w) == Restart(w) /\ UNCHANGED search
Registers(s) == Register(s) /\ UNCHANGED search
FlipsBack(s) == FlipBack(s) /\ UNCHANGED search
Requeued(s) == Requeue(s) /\ UNCHANGED search

SearchNext == \/ \E w \in Workers : Works(w) \/ Dies(w) \/ Restarts(w)
              \/ \E s \in Sources : Registers(s) \/ FlipsBack(s) \/ Requeued(s)
              \/ Retrieve

\* Nothing obliges anyone to search.
SearchSpec == SearchInit /\ [][SearchNext]_searchVars
                         /\ \A w \in Workers : WF_searchVars(Works(w)) /\ WF_searchVars(Restarts(w))

Symmetry == Permutations(Names) \union Permutations(Workers)
-----------------------------------------------------------------------------
(* The two tracks agree whatever the workers do meanwhile.  What surfaces is of
   sources whose chunks have their vectors and whose extraction is over; every
   entity found is of one of them; and of each of them the traversal has all
   that its own relationships connect to the seed: no source is seen half
   extracted.  An operator's reset of a live worker's source is excluded. *)
SurfacesWholeSources ==
    search.phase = "answered" /\ requeues = 0 =>
        /\ \A s \in search.ids :
              /\ state[s] = "indexed" /\ s \in vectors
              /\ \A n \in Within(search.seed, Depth, LinksOf({s})) :
                    <<n, s>> \in nodes => n \in search.found
        /\ \A n \in search.found : \E s \in search.ids : <<n, s>> \in nodes
=============================================================================
