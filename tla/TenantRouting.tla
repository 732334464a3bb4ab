--------------------------- MODULE TenantRouting ---------------------------
(***************************************************************************)
(* The registry of tenants and the cache of session factories.             *)
(*                                                                         *)
(* The registry is a table of the control plane: operators register a      *)
(* tenant and change its status, each change audited in the control        *)
(* plane's chain.  Nothing changes the credentials of a tenant, and no row *)
(* is deleted.                                                             *)
(*                                                                         *)
(* TenantSessionFactoryCache keeps, per tenant, an engine and its          *)
(* sessionmaker in two maps of one process.  A call that misses awaits the *)
(* credentials and stores what it builds; a change of status pops both     *)
(* entries and awaits engine.dispose().  There is no lock: whatever is     *)
(* between two awaits runs alone.  An engine opens connections when it is  *)
(* first used, and again when it is used after a dispose.                  *)
(*                                                                         *)
(* Engines are numbered in the order they are made.  The epoch of a tenant *)
(* counts the changes of its status that were committed.                   *)
(***************************************************************************)
EXTENDS Integers, Sequences, FiniteSets, Functions

CONSTANTS Tenants,        \* ids of tenants
          Registered,     \* those registered when the process starts
          Operators,      \* concurrent calls on the registry
          Callers,        \* concurrent calls that need a tenant's database
          MaxEngines,     \* bound: engines ever made
          MaxTransitions  \* bound: changes of status ever begun

ASSUME RoutingAssumption ==
    Registered \subseteq Tenants /\ MaxEngines \in Nat /\ MaxTransitions \in Nat

VARIABLES registry,      \* status of each tenant's row, or "absent"
          trail,         \* per tenant: the audited changes of its row
          sessionmakers, \* the cache: per tenant the engine of its sessionmaker, or 0
          engines,       \* the cache: per tenant its engine, or 0
          made,          \* the engines made: tenant, epoch of its credentials, pool
          lookup,        \* per caller: the call of cache.get it is in
          change,        \* per operator: the change it is making
          epoch,         \* per tenant: changes of its status committed
          excused        \* tenants with what happened to them that the cache cannot repair

routingVars == <<registry, trail, sessionmakers, engines, made, lookup, change, epoch, excused>>

TenantStatus == {"active", "suspended"}
NoEngine == 0
NoLookup == [phase |-> "none"]
NoChange == [phase |-> "none"]

RoutingInit ==
    /\ registry = [t \in Tenants |-> IF t \in Registered THEN "active" ELSE "absent"]
    /\ trail = [t \in Tenants |-> <<>>]
    /\ sessionmakers = [t \in Tenants |-> NoEngine]
    /\ engines = [t \in Tenants |-> NoEngine]
    /\ made = <<>>
    /\ lookup = [c \in Callers |-> NoLookup]
    /\ change = [o \in Operators |-> NoChange]
    /\ epoch = [t \in Tenants |-> 0]
    /\ excused = {}

Begun == Cardinality({o \in Operators : change[o].phase = "commit"})
         + SumFunction(epoch)
Exists(t) == t \in Tenants /\ registry[t] # "absent"
Missing(t) == {c \in Callers : lookup[c].phase = "reveal" /\ lookup[c].tenant = t}
Holding(t) == {c \in Callers : lookup[c].phase = "held" /\ lookup[c].tenant = t}
Recording(t) == {o \in Operators : change[o].phase \in {"commit", "audit"} /\ change[o].tenant = t}
Flushing(t) == {o \in Operators : change[o].phase \in {"audit", "invalidate"} /\ change[o].tenant = t}

-----------------------------------------------------------------------------
(* ----------------------------- the cache ---------------------------- *)

(* create_engine_and_sessionmaker: nothing is connected yet. *)
CreateEngine(t, since) == Append(made, [tenant |-> t, since |-> since, pool |-> "unused"])

(* What a caller does with its sessionmaker before it awaits anything else: it
   opens a session, whose first statement connects the engine, and connects it
   anew if it was disposed; a search embeds the query first. *)
Holds(t, e, embeds) ==
    [phase |-> IF embeds THEN "held" ELSE "session", tenant |-> t, engine |-> e]
Connected(pools, e, embeds) == IF embeds THEN pools ELSE [pools EXCEPT ![e].pool = "open"]

(* get, with the sessionmaker cached. *)
Hit(c, t, embeds) ==
    /\ sessionmakers[t] # NoEngine
    /\ lookup' = [lookup EXCEPT ![c] = Holds(t, sessionmakers[t], embeds)]
    /\ made' = Connected(made, sessionmakers[t], embeds)
    /\ UNCHANGED <<sessionmakers, engines, excused>>

(* get, without: it awaits the credentials, which are read as the await begins. *)
Miss(c, t, embeds) ==
    /\ sessionmakers[t] = NoEngine
    /\ Len(made) + Cardinality({d \in Callers : lookup[d].phase = "reveal"}) < MaxEngines
    /\ lookup' = [lookup EXCEPT ![c] =
           [phase |-> "reveal", tenant |-> t, since |-> epoch[t], embeds |-> embeds]]
    /\ excused' = IF Missing(t) = {} THEN excused ELSE excused \union {<<t, "overlap">>}
    /\ UNCHANGED <<sessionmakers, engines, made>>

(* The credentials have come: both maps are assigned, whatever they hold. *)
StoreEngine(c) ==
    /\ lookup[c].phase = "reveal"
    /\ LET t == lookup[c].tenant
           e == Len(made) + 1
       IN  /\ Exists(t)
           /\ made' = Connected(CreateEngine(t, lookup[c].since), e, lookup[c].embeds)
           /\ engines' = [engines EXCEPT ![t] = e]
           /\ sessionmakers' = [sessionmakers EXCEPT ![t] = e]
           /\ lookup' = [lookup EXCEPT ![c] = Holds(t, e, lookup[c].embeds)]
    /\ UNCHANGED <<registry, trail, change, epoch, excused>>

(* The query is embedded: the session of the search. *)
OpenSession(c) ==
    /\ lookup[c].phase = "held"
    /\ made' = Connected(made, lookup[c].engine, FALSE)
    /\ lookup' = [lookup EXCEPT ![c].phase = "session"]
    /\ UNCHANGED <<registry, trail, sessionmakers, engines, change, epoch, excused>>

(* invalidate, up to its await. *)
PopEngine(t) ==
    /\ engines' = [engines EXCEPT ![t] = NoEngine]
    /\ sessionmakers' = [sessionmakers EXCEPT ![t] = NoEngine]

-----------------------------------------------------------------------------
(* ------------------------- the registry ------------------------------ *)

(* register_tenant: the row is committed before the event is emitted.  A row
   that exists is an IntegrityError, and a caller that is not an operator is
   denied: neither changes anything. *)
RegisterTenant(o, t) ==
    /\ change[o].phase = "none" /\ registry[t] = "absent"
    /\ registry' = [registry EXCEPT ![t] = "active"]
    /\ change' = [change EXCEPT ![o] =
           [phase |-> "audit", tenant |-> t, before |-> "absent", status |-> "active"]]
    /\ UNCHANGED <<trail, sessionmakers, engines, made, lookup, epoch, excused>>

(* update_tenant_status: before_row, read without a lock. *)
ReadBefore(o, t, status) ==
    /\ change[o].phase = "none" /\ Exists(t)
    /\ change' = [change EXCEPT ![o] =
           [phase |-> "commit", tenant |-> t, before |-> registry[t], status |-> status]]
    /\ excused' = IF Recording(t) = {} THEN excused ELSE excused \union {<<t, "concurrent">>}
    /\ UNCHANGED <<registry, trail, sessionmakers, engines, made, lookup, epoch>>

CommitStatus(o) ==
    /\ change[o].phase = "commit"
    /\ registry' = [registry EXCEPT ![change[o].tenant] = change[o].status]
    /\ epoch' = [epoch EXCEPT ![change[o].tenant] = @ + 1]
    /\ change' = [change EXCEPT ![o].phase = "audit"]
    /\ UNCHANGED <<trail, sessionmakers, engines, made, lookup, excused>>

(* Nothing is committed. *)
UpdateFails(o) ==
    /\ change[o].phase = "commit"
    /\ change' = [change EXCEPT ![o] = NoChange]
    /\ UNCHANGED <<registry, trail, sessionmakers, engines, made, lookup, epoch, excused>>

\* Variant: the state before the change is read again when it is audited.
EmitAudit_ReadAgain(o) ==
    /\ change[o].phase = "audit"
    /\ trail' = [trail EXCEPT ![change[o].tenant] =
           Append(@, [before |-> registry[change[o].tenant], after |-> change[o].status])]
    /\ change' = [change EXCEPT ![o] =
           IF change[o].before = "absent" THEN NoChange ELSE [@ EXCEPT !.phase = "invalidate"]]
    /\ UNCHANGED <<registry, sessionmakers, engines, made, lookup, epoch, excused>>

\* Variant: the status is changed by the registry's method, not by the use case.
EmitAudit_RegistryOnly(o) ==
    /\ change[o].phase = "audit"
    /\ trail' = [trail EXCEPT ![change[o].tenant] =
           Append(@, [before |-> change[o].before, after |-> change[o].status])]
    /\ change' = [change EXCEPT ![o] = NoChange]
    /\ UNCHANGED <<registry, sessionmakers, engines, made, lookup, epoch, excused>>

(* _emit_audit; a registration is over with it. *)
EmitAudit(o) ==
    /\ change[o].phase = "audit"
    /\ trail' = [trail EXCEPT ![change[o].tenant] =
           Append(@, [before |-> change[o].before, after |-> change[o].status])]
    /\ change' = [change EXCEPT ![o] =
           IF change[o].before = "absent" THEN NoChange ELSE [@ EXCEPT !.phase = "invalidate"]]
    /\ UNCHANGED <<registry, sessionmakers, engines, made, lookup, epoch, excused>>

(* The emit raises: the row stays changed, nothing is audited and the cache is
   never told. *)
EmitFails(o) ==
    /\ change[o].phase = "audit"
    /\ change' = [change EXCEPT ![o] = NoChange]
    /\ LET t == change[o].tenant
       IN  excused' = excused \union {<<t, "unaudited">>}
                  \union (IF change[o].before = "absent" THEN {} ELSE {<<t, "unflushed">>})
    /\ UNCHANGED <<registry, trail, sessionmakers, engines, made, lookup, epoch>>

\* Variant: the entry is popped and its engine left to the garbage collector.
Invalidate_NoDispose(o) ==
    /\ change[o].phase = "invalidate"
    /\ PopEngine(change[o].tenant)
    /\ change' = [change EXCEPT ![o] = NoChange]
    /\ UNCHANGED <<registry, trail, made, lookup, epoch, excused>>

(* update_tenant_status of the use cases: cache.invalidate once the registry is
   updated.  A miss under way stores what it read before; a caller that holds
   the sessionmaker still opens its session. *)
Invalidate(o) ==
    /\ change[o].phase = "invalidate"
    /\ LET t == change[o].tenant
       IN  /\ PopEngine(t)
           /\ change' = [change EXCEPT ![o] =
                  IF engines[t] = NoEngine THEN NoChange
                  ELSE [phase |-> "dispose", tenant |-> t, engine |-> engines[t]]]
           /\ excused' = (excused \ {<<t, "unflushed">>, <<t, "late">>})
                  \union {<<t, "held">> : c \in Holding(t)}
                  \union {<<t, "late">> : c \in {d \in Missing(t) : lookup[d].since < epoch[t]}}
    /\ UNCHANGED <<registry, trail, made, lookup, epoch>>

(* The engine is disposed: its connections are closed and its pool is new. *)
Dispose(o) ==
    /\ change[o].phase = "dispose"
    /\ made' = [made EXCEPT ![change[o].engine].pool = "closed"]
    /\ change' = [change EXCEPT ![o] = NoChange]
    /\ UNCHANGED <<registry, trail, sessionmakers, engines, lookup, epoch, excused>>
=============================================================================
