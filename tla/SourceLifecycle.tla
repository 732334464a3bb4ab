-------------------------- MODULE SourceLifecycle --------------------------
(***************************************************************************)
(* The promise of the ingestion state machine, as the diagram of           *)
(* domain/state.py draws it: what an observer of the sources' state column *)
(* may see, whatever the workers do.                                       *)
(***************************************************************************)
CONSTANT Sources

VARIABLE state

(* The claim of a stage, its two outcomes, and the operator's way back. *)
Claims == {<<"received", "parsing">>, <<"parsed", "embedding">>,
           <<"embedded", "extracting">>}
Outcomes == {<<"parsing", "parsed">>, <<"parsing", "failed">>,
             <<"embedding", "embedded">>, <<"embedding", "embedding_failed">>,
             <<"extracting", "indexed">>, <<"extracting", "extraction_failed">>}
Retries == {<<"failed", "received">>, <<"embedding_failed", "parsed">>}

Edges == {<<"absent", "received">>} \union Claims \union Outcomes \union Retries

Init == state = [s \in Sources |-> "absent"]

\* One source at a time moves, along an edge of the diagram.
Move(s) == \E e \in Edges : /\ state[s] = e[1]
                            /\ state' = [state EXCEPT ![s] = e[2]]

Spec == Init /\ [][\E s \in Sources : Move(s)]_state
=============================================================================
