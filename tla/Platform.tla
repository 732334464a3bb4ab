------------------------------ MODULE Platform ------------------------------
(***************************************************************************)
(* A process of the platform: an instance of the API, with its requests    *)
(* and the session-factory cache they share, or one command of the CLI,    *)
(* with engines of its own.                                                *)
(*                                                                         *)
(* A request is authenticated, resolved to a tenant by an await on the     *)
(* registry, given its ports, and then makes the calls of one of its       *)
(* plans.  A call succeeds, raises an error its caller may name, or fails  *)
(* for another reason; the latter two end the request, after the cleanup   *)
(* of its except clause when it has one.                                   *)
(*                                                                         *)
(* Of a request only what is still to come is kept, so that requests which *)
(* have the same future share their states.                                *)
(***************************************************************************)
EXTENDS TenantRouting, CliCommands, SequencesExt

CONSTANT Background  \* callers that only search

ASSUME PlatformAssumption == Background \subseteq Callers

VARIABLES process,  \* "api" or "cli"
          ports,    \* the ports configured
          req       \* per caller: its one request, or the command

vars == <<routingVars, process, ports, req>>

Idle == [state |-> "idle"]

Init ==
    /\ RoutingInit
    /\ process \in {"api", "cli"}
    /\ ports \in IF process = "api" THEN Compositions ELSE {{}}
    /\ req = [c \in Callers |-> Idle]

-----------------------------------------------------------------------------
(* --------------------------- credentials ---------------------------- *)

(* What verify_credential makes of a bearer token. *)
NoToken == [type |-> "none"]
InvalidToken == [type |-> "invalid"]
TenantToken(t, role) == [type |-> "tenant", tenant |-> t, role |-> role]
OperatorToken(role) == [type |-> "platform_operator", role |-> role]
NotUUID == "not a UUID"

Tokens == {NoToken, InvalidToken} \union {OperatorToken(r) : r \in BOOLEAN}
          \union {TenantToken(t, r) : t \in Tenants \union {NotUUID}, r \in BOOLEAN}

(* ------------------------- what is to come --------------------------- *)

(* Errors of a request that no handler answers, all of the request's own
   making: blanks and an unknown reason pass the DTO or the query and are
   refused by the domain, mixed datetimes by Python. *)
Unanswered == {"ValueError of blanks", "ValueError of termination_reason", MixedZones}

Answer(code, known) == [answer |-> code, known |-> known]
RouteAnswer(route, error) == Answer(StatusOf(route, error), error \in Unanswered)
Answering(plan, route) ==
    [i \in DOMAIN plan |->
        [plan[i] EXCEPT !.raises = {RouteAnswer(route, e) : e \in plan[i].raises}]]
Exits(plan, command) ==
    [i \in DOMAIN plan |->
        [plan[i] EXCEPT !.raises =
            {Answer(IF e \in DOMAIN command.exits THEN command.exits[e] ELSE 1, FALSE)
             : e \in plan[i].raises}]]

Ended(answer, wrote, fault) ==
    [state |-> "ended", answer |-> answer.answer, known |-> answer.known,
     wrote |-> wrote, fault |-> fault, left |-> {}]
Refused(code) == Ended(Answer(code, FALSE), FALSE, FALSE)

Calling(t, plan, cleanup, streams, own) ==
    [state |-> "calls", tenant |-> t, plan |-> plan, cleanup |-> cleanup,
     streams |-> streams, own |-> own, wrote |-> FALSE, fault |-> FALSE]

Unconfigured(route) == \E i \in DOMAIN route.needs : route.needs[i] \notin ports

Planned(route, t) ==
    {Calling(t, Answering(p, route), route.cleanup, route.streams, <<>>) : p \in route.plans}

(* After the context: a port that is missing, what pydantic refuses, or a plan. *)
Proceeding(route, t) ==
    IF Unconfigured(route) THEN {Refused(503)} ELSE {Refused(422)} \union Planned(route, t)

Awaiting(t, next) == [state |-> "context", tenant |-> t, next |-> next]

(* get_tenant_context, up to its await. *)
TenantContext(route, token) ==
    IF token.type # "tenant" THEN {Refused(StatusOf(route, "PrincipalTypeMismatch"))}
    ELSE IF "tenant_registry" \notin ports THEN {Refused(503)}
    ELSE IF token.tenant = NotUUID THEN {Refused(400)}
    ELSE {Awaiting(token.tenant, Proceeding(route, token.tenant))}

(* get_platform_operator_principal *)
PlatformOperator(route, token) ==
    IF token.type # "platform_operator" THEN {Refused(StatusOf(route, "PrincipalTypeMismatch"))}
    ELSE Proceeding(route, "control")

(* write_test_audit_event, up to its await on the tenant of its path: a path
   that is no UUID is a ValueError nobody names. *)
TestEvent(route, token) ==
    IF Unconfigured(route) THEN {Refused(503)}
    ELSE IF ~token.role THEN {Refused(403)}
    ELSE {Ended(Answer(500, TRUE), FALSE, FALSE)}
         \union {Awaiting(t, Planned(route, t)) : t \in Tenants}

(* What a request is before its first await. *)
Arriving(route, token) ==
    IF token.type \in {"none", "invalid"} THEN {Refused(401)}
    ELSE {Ended(RouteAnswer(route, e), FALSE, FALSE) : e \in route.query}
         \union CASE route.scope = "tenant" -> TenantContext(route, token)
                  [] route.scope = "operator" -> PlatformOperator(route, token)
                  [] route.scope = "role" -> TestEvent(route, token)

-----------------------------------------------------------------------------
(* ----------------------------- requests ------------------------------ *)

Arrive(c) ==
    /\ process = "api" /\ req[c] = Idle
    /\ \E route \in IF c \in Background THEN {ListRetrievalCandidates} ELSE Routes,
          token \in IF c \in Background THEN {TenantToken(t, FALSE) : t \in Tenants} ELSE Tokens :
          \E next \in Arriving(route, token) : req' = [req EXCEPT ![c] = next]
    /\ UNCHANGED <<routingVars, process, ports>>

(* registry.get_tenant has answered. *)
ResolveTenant(c) ==
    /\ req[c].state = "context"
    /\ \E next \in IF Exists(req[c].tenant) THEN req[c].next ELSE {Refused(404)} :
          req' = [req EXCEPT ![c] = next]
    /\ UNCHANGED <<routingVars, process, ports>>

ContextFails(c) ==
    /\ req[c].state = "context"
    /\ req' = [req EXCEPT ![c] = Ended(Answer(500, FALSE), FALSE, TRUE)]
    /\ UNCHANGED <<routingVars, process, ports>>

(* ------------------------------- calls ------------------------------- *)

Pending(c) == req[c].state = "calls" /\ req[c].plan # <<>>
Current(c) == Head(req[c].plan)
ThroughCache(c) == process = "api" /\ Current(c).store = "tenant"

(* An operation of a tenant's adapter begins with the cache. *)
StartCall(c) ==
    /\ Pending(c) /\ ThroughCache(c) /\ lookup[c].phase = "none"
    /\ \/ Hit(c, req[c].tenant, Current(c).embeds)
       \/ Miss(c, req[c].tenant, Current(c).embeds)
    /\ UNCHANGED <<registry, trail, change, epoch, process, ports, req>>

(* The engines of a command are its own, and its calls connect them. *)
Connect(c) ==
    LET target == IF Current(c).store = "tenant" THEN req[c].tenant ELSE Current(c).store
    IN  made' = IF process = "api" THEN made
                ELSE [e \in DOMAIN made |->
                         IF e \in ToSet(req[c].own) /\ made[e].tenant = target
                         THEN [made[e] EXCEPT !.pool = "open"] ELSE made[e]]

Release(c) == lookup' = [lookup EXCEPT ![c] = NoLookup]

(* An error: the except clause first, when something is committed; a stream
   has answered already, and a command goes on to its finally. *)
Erring(r, answer, fault) ==
    LET given == IF r.streams THEN Answer(200, FALSE) ELSE answer
    IN  IF r.cleanup # <<>> /\ r.wrote
        THEN [r EXCEPT !.plan = r.cleanup, !.cleanup = <<>>, !.fault = TRUE]
        ELSE IF process = "api" THEN Ended(given, r.wrote, r.fault \/ fault)
        ELSE [state |-> "closing", own |-> r.own, answer |-> answer, wrote |-> r.wrote,
              fault |-> r.fault \/ fault]

FinishCall(c) ==
    /\ Pending(c)
    /\ ThroughCache(c) => lookup[c].phase = "session"
    /\ Connect(c) /\ Release(c)
    /\ \/ req' = [req EXCEPT ![c] =
               [req[c] EXCEPT !.plan = Tail(@), !.wrote = @ \/ Current(c).writes]]
       \/ \E answer \in Current(c).raises :
              req' = [req EXCEPT ![c] = Erring(@, answer, FALSE)]
    /\ UNCHANGED <<registry, trail, sessionmakers, engines, change, epoch, excused,
                   process, ports>>

Fault == IF process = "api" THEN Answer(500, FALSE) ELSE Answer(1, FALSE)

(* It fails wherever it awaits: the credentials, the embedder, the statement. *)
FailCall(c) ==
    /\ Pending(c) /\ Current(c).store # "memory"
    /\ ThroughCache(c) => lookup[c].phase \in {"reveal", "held", "session"}
    /\ Connect(c) /\ Release(c)
    /\ req' = [req EXCEPT ![c] = Erring(@, Fault, TRUE)]
    /\ UNCHANGED <<registry, trail, sessionmakers, engines, change, epoch, excused,
                   process, ports>>

(* The last call has been made; what a cleanup ends with is the failure. *)
Finish(c) ==
    /\ req[c].state = "calls" /\ req[c].plan = <<>>
    /\ req' = [req EXCEPT ![c] =
           IF @.fault THEN Erring(@, Fault, TRUE)
           ELSE IF process = "api" THEN Ended(Answer(200, FALSE), @.wrote, FALSE)
           ELSE [state |-> "closing", own |-> @.own, answer |-> Answer(0, FALSE),
                 wrote |-> @.wrote, fault |-> FALSE]]
    /\ UNCHANGED <<routingVars, process, ports>>

-----------------------------------------------------------------------------
(* ----------------------------- commands ------------------------------ *)

Opened(command, t) ==
    [i \in DOMAIN command.opens |->
        [tenant |-> IF command.opens[i] = "tenant" THEN t ELSE command.opens[i],
         since |-> 0, pool |-> "unused"]]

(* One process runs one command. *)
Invoke(c) ==
    /\ process = "cli" /\ made = <<>> /\ \A d \in Callers : req[d] = Idle
    /\ \E command \in Commands, t \in Tenants :
          \/ /\ \E code \in command.rejects : req' = [req EXCEPT ![c] = Refused(code)]
             /\ UNCHANGED made
          \/ \E p \in command.plans :
                /\ made' = Opened(command, t)
                /\ req' = [req EXCEPT ![c] =
                       Calling(t, Exits(p, command), command.cleanup, FALSE,
                               [i \in DOMAIN command.opens |-> i])]
    /\ UNCHANGED <<registry, trail, sessionmakers, engines, lookup, change, epoch, excused,
                   process, ports>>

CloseEngine(c) ==
    /\ req[c].state = "closing" /\ req[c].own # <<>>
    /\ made' = [made EXCEPT ![Head(req[c].own)].pool = "closed"]
    /\ req' = [req EXCEPT ![c].own = Tail(@)]
    /\ UNCHANGED <<registry, trail, sessionmakers, engines, lookup, change, epoch, excused,
                   process, ports>>

(* A dispose raises: those after it are skipped and the error replaces the code. *)
CloseFails(c) ==
    /\ req[c].state = "closing" /\ req[c].own # <<>>
    /\ req' = [req EXCEPT ![c] =
           [Ended(Fault, @.wrote, TRUE) EXCEPT !.left = ToSet(req[c].own)]]
    /\ UNCHANGED <<routingVars, process, ports>>

Exit(c) ==
    /\ req[c].state = "closing" /\ req[c].own = <<>>
    /\ req' = [req EXCEPT ![c] = Ended(@.answer, @.wrote, @.fault)]
    /\ UNCHANGED <<routingVars, process, ports>>

-----------------------------------------------------------------------------
Request(c) ==
    \/ Arrive(c) \/ ResolveTenant(c) \/ ContextFails(c)
    \/ StartCall(c)
    \/ /\ StoreEngine(c) \/ OpenSession(c)
       /\ UNCHANGED <<process, ports, req>>
    \/ FinishCall(c) \/ FailCall(c) \/ Finish(c)
    \/ Invoke(c) \/ CloseEngine(c) \/ CloseFails(c) \/ Exit(c)

(* The registry's operations run in the process of the API, which has the cache. *)
Administer(o) ==
    /\ process = "api"
    /\ \/ \E t \in Tenants : RegisterTenant(o, t)
       \/ \E t \in Tenants, status \in TenantStatus :
             /\ Begun < MaxTransitions
             /\ ReadBefore(o, t, status)
       \/ CommitStatus(o) \/ UpdateFails(o) \/ EmitAudit(o) \/ EmitFails(o)
       \/ Invalidate(o) \/ Dispose(o)
    /\ UNCHANGED <<process, ports, req>>

Next ==
    \/ \E c \in Callers : Request(c)
    \/ \E o \in Operators : Administer(o)

Spec == Init /\ [][Next]_vars

Symmetry == Permutations(Operators)
-----------------------------------------------------------------------------
(* --------------------------- properties ------------------------------ *)

\* Where the maps, the registry and the requests can be.
TypeOK ==
    /\ \A t \in Tenants : engines[t] \in 0..Len(made) /\ sessionmakers[t] \in 0..Len(made)
    /\ \A t \in Tenants : registry[t] \in TenantStatus \union {"absent"}
    /\ \A c \in Callers : req[c].state \in {"idle", "context", "calls", "closing", "ended"}
    /\ \A c \in Callers : lookup[c].phase # "none" => req[c].state = "calls"

(* Engines are closed by whoever takes them out of use.  In the API every engine
   with connections is its tenant's cached one or is being disposed, unless two
   misses of the tenant overlapped (the engine stored first is lost) or the
   tenant was invalidated between a search's lookup and its session (the engine
   reconnects after its dispose).  A command leaves none behind unless a
   dispose raises. *)
EnginesAccounted ==
    \A e \in DOMAIN made : made[e].pool = "open" =>
        IF process = "cli"
        THEN \A c \in Callers : req[c].state = "ended" => e \in req[c].left
        ELSE \/ engines[made[e].tenant] = e
             \/ \E o \in Operators : change[o].phase = "dispose" /\ change[o].engine = e
             \/ \E why \in {"overlap", "held"} : <<made[e].tenant, why>> \in excused

(* A change of status flushes the tenant's entry: between changes the cached
   engine was made from credentials read after the last one, unless a miss was
   awaiting them when the entry was popped or the change could not be audited;
   and the two maps name the same engine. *)
FlushedByTransition ==
    process = "api" => \A t \in Tenants :
        /\ sessionmakers[t] = engines[t]
        /\ \/ engines[t] = NoEngine \/ Flushing(t) # {}
           \/ \E why \in {"late", "unflushed"} : <<t, why>> \in excused
           \/ made[engines[t]].since = epoch[t]

(* The control plane's audit events of a tenant's row tell its history: each
   begins at the status the one before left, and the last one left the row's,
   once nothing is pending, no event was lost and no two changes overlapped. *)
AuditTellsStatus ==
    \A t \in Tenants :
        (/\ Recording(t) = {}
         /\ \A why \in {"unaudited", "concurrent"} : <<t, why>> \notin excused) =>
        LET events == trail[t]
            Before(i) == IF i > 1 THEN events[i - 1].after
                         ELSE IF t \in Registered THEN "active" ELSE "absent"
        IN  /\ \A i \in DOMAIN events : events[i].before = Before(i)
            /\ registry[t] = Before(Len(events) + 1)

(* The answers are honest.  A request that is answered 500 met a failure, or one
   of the errors known to have no handler; and one that was refused, by a status
   of 400 to 499 or an exit code of 2 or 3, committed nothing. *)
AnswersAreHonest ==
    \A c \in Callers : req[c].state = "ended" =>
        /\ req[c].answer = 500 => req[c].fault \/ req[c].known
        /\ req[c].answer \in (400..499) \union {2, 3} => ~req[c].wrote
=============================================================================
