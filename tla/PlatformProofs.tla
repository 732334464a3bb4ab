--------------------------- MODULE PlatformProofs ---------------------------
(***************************************************************************)
(* What is proved of a process of the platform, for every number of        *)
(* tenants, operators and callers and for every route and command.         *)
(*                                                                         *)
(* RegistryInv tells the history of each tenant's row by its audit events  *)
(* and the changes under way.  RequestInv says of each request that what   *)
(* it may still be answered is honest; it rests on lemmas on the tables of *)
(* the routes and the commands, whose plans name no error after a commit.  *)
(* CacheInv relates the cached engines to those that were made, to the     *)
(* callers that are between two awaits and to the engines being disposed;  *)
(* for a command, it says which engines it still owns.                     *)
(***************************************************************************)
EXTENDS Platform, TLAPS

-----------------------------------------------------------------------------
(* ----------------- the registry and its audit trail ------------------ *)

RowStatus == TenantStatus \union {"absent"}
Moving == [phase : {"commit", "audit", "invalidate"}, tenant : Tenants, before : RowStatus,
           status : TenantStatus]
Disposing == [phase : {"dispose"}, tenant : Tenants, engine : Nat]
Changes == {NoChange} \union Moving \union Disposing
Event == [before : RowStatus, after : TenantStatus]

(* A change is of a row that existed when it was read; only a registration has
   no status before it, and it begins with its row committed. *)
RegistryTypes ==
    /\ registry \in [Tenants -> RowStatus]
    /\ trail \in [Tenants -> Seq(Event)]
    /\ change \in [Operators -> Changes]
    /\ \A o \in Operators :
           change[o].phase \in {"commit", "invalidate"} => change[o].before \in TenantStatus

(* Whether a change x has still to be recorded in the trail of t. *)
Records(x, t) == x.phase \in {"commit", "audit"} /\ x.tenant = t

StatusLeft(t, events, i) ==
    IF i > 0 THEN events[i].after ELSE IF t \in Registered THEN "active" ELSE "absent"

(* The history of one row, over its status, its events and the changes ch. *)
Told(t, status, events, ch) ==
    /\ \A i \in DOMAIN events : events[i].before = StatusLeft(t, events, i - 1)
    /\ \A o, p \in Operators : Records(ch[o], t) /\ Records(ch[p], t) => o = p
    /\ \A o \in Operators : Records(ch[o], t) =>
           /\ ch[o].before = StatusLeft(t, events, Len(events))
           /\ ch[o].phase = "commit" => status = ch[o].before
           /\ ch[o].phase = "audit" => status = ch[o].status
    /\ (\A o \in Operators : ~Records(ch[o], t)) => status = StatusLeft(t, events, Len(events))

Forgiven(t, why) == <<t, "unaudited">> \in why \/ <<t, "concurrent">> \in why

RegistryInv ==
    /\ RegistryTypes
    /\ \A t \in Tenants : Forgiven(t, excused) \/ Told(t, registry[t], trail[t], change)

(* A change that moves on keeps its row and what it found there. *)
LEMMA MovesOn ==
    ASSUME NEW x \in Changes, x.phase \in {"commit", "audit"}, NEW p \in {"audit", "invalidate"}
    PROVE  LET y == [x EXCEPT !.phase = p]
           IN  /\ y \in Moving /\ y.phase = p /\ y.tenant = x.tenant /\ y.before = x.before
               /\ y.status = x.status /\ x \in Moving
<1>1. x \in Moving
  BY DEF Changes, Moving, Disposing, NoChange
<1> QED BY <1>1 DEF Moving

(* What a change is has the fields of its phase. *)
LEMMA ChangeFields ==
    ASSUME NEW x \in Changes
    PROVE  /\ x.phase \in {"none", "commit", "audit", "invalidate", "dispose"}
           /\ x.phase \in {"commit", "audit", "invalidate"} => x \in Moving
           /\ x.phase = "dispose" => x \in Disposing
  BY DEF Changes, Moving, Disposing, NoChange

(* Changes that are recorded in a trail are the same ones as before. *)
SameRecords(ch, ch1, t) ==
    \A o \in Operators :
        /\ Records(ch1[o], t) <=> Records(ch[o], t)
        /\ Records(ch[o], t) => ch1[o].phase = ch[o].phase /\ ch1[o].before = ch[o].before
                                /\ ch1[o].status = ch[o].status

(* A history is told by the changes that are recorded in it. *)
LEMMA ToldStill ==
    ASSUME NEW t, NEW status, NEW events, NEW ch, NEW ch1,
           Told(t, status, events, ch), SameRecords(ch, ch1, t)
    PROVE  Told(t, status, events, ch1)
  BY DEF Told, SameRecords

(* Nothing has changed yet: the status of a row is the one it began with. *)
LEMMA RegistryInit == ASSUME Init PROVE RegistryInv
<1> USE DEF Init, RoutingInit
<1>1. RegistryTypes
  BY RoutingAssumption DEF RegistryTypes, RowStatus, TenantStatus, Changes, NoChange, Moving
<1>2. ASSUME NEW t \in Tenants PROVE Told(t, registry[t], trail[t], change)
  BY RoutingAssumption DEF Told, Records, StatusLeft, NoChange
<1> QED BY <1>1, <1>2 DEF RegistryInv

(* One more event: what it left is the status of the row. *)
LEMMA ToldOnce ==
    ASSUME NEW t, NEW events \in Seq(Event), NEW e \in Event, NEW status,
           \A i \in DOMAIN events : events[i].before = StatusLeft(t, events, i - 1),
           e.before = StatusLeft(t, events, Len(events)), e.after = status
    PROVE  LET longer == Append(events, e)
           IN  /\ \A i \in DOMAIN longer : longer[i].before = StatusLeft(t, longer, i - 1)
               /\ status = StatusLeft(t, longer, Len(longer))
<1> DEFINE longer == Append(events, e)
<1>1. /\ Len(longer) = Len(events) + 1 /\ longer[Len(events) + 1] = e
      /\ DOMAIN longer = 1..(Len(events) + 1) /\ DOMAIN events = 1..Len(events)
      /\ \A i \in 1..Len(events) : longer[i] = events[i]
      /\ Len(events) \in Nat
  OBVIOUS
<1>2. ASSUME NEW i \in DOMAIN longer PROVE longer[i].before = StatusLeft(t, longer, i - 1)
  <2>1. i \in 1..(Len(events) + 1)
    BY <1>1
  <2>2. StatusLeft(t, longer, i - 1) = StatusLeft(t, events, i - 1)
    <3>1. i - 1 > 0 => i - 1 \in 1..Len(events)
      BY <2>1, <1>1
    <3> HIDE DEF longer
    <3> QED BY <3>1, <1>1 DEF StatusLeft
  <2> HIDE DEF longer
  <2>3. CASE i = Len(events) + 1
    BY <2>2, <2>3, <1>1
  <2>4. CASE i # Len(events) + 1
    <3>1. i \in 1..Len(events)
      BY <2>1, <2>4, <1>1
    <3> QED BY <2>2, <3>1, <1>1
  <2> QED BY <2>3, <2>4
<1>3. status = StatusLeft(t, longer, Len(longer))
  <2> HIDE DEF longer
  <2> QED BY <1>1 DEF StatusLeft
<1> HIDE DEF longer
<1> QED BY <1>2, <1>3 DEF longer

(* A step is about one row: the others keep their status, their events, and the
   changes that are recorded in them. *)
LEMMA OneRow ==
    ASSUME RegistryInv, RegistryTypes', NEW u \in Tenants,
           \A t \in Tenants : Forgiven(t, excused) => Forgiven(t, excused'),
           \A t \in Tenants \ {u} : /\ registry'[t] = registry[t] /\ trail'[t] = trail[t]
                                    /\ SameRecords(change, change', t),
           Forgiven(u, excused) \/ Forgiven(u, excused')
               \/ Told(u, registry'[u], trail'[u], change')
    PROVE  RegistryInv'
<1> SUFFICES ASSUME NEW t \in Tenants
             PROVE  Forgiven(t, excused') \/ Told(t, registry'[t], trail'[t], change')
  BY DEF RegistryInv
<1>1. CASE t = u
  BY <1>1
<1>2. CASE t # u
  <2>1. Forgiven(t, excused) \/ Told(t, registry[t], trail[t], change)
    BY DEF RegistryInv
  <2> QED BY <2>1, <1>2, ToldStill
<1> QED BY <1>1, <1>2

(* What one operator does to its change leaves those of the others alone. *)
LEMMA OneChange ==
    ASSUME change \in [Operators -> Changes], NEW o \in Operators, NEW x \in Changes,
           change' = [change EXCEPT ![o] = x]
    PROVE  /\ change' \in [Operators -> Changes] /\ change'[o] = x
           /\ \A p \in Operators \ {o} : change'[p] = change[p]
  OBVIOUS

(* A registration commits its row, and is then to be recorded. *)
LEMMA RegisterStep ==
    ASSUME RegistryInv, NEW o \in Operators, NEW u \in Tenants, RegisterTenant(o, u)
    PROVE  RegistryInv'
<1> DEFINE x == [phase |-> "audit", tenant |-> u, before |-> "absent", status |-> "active"]
<1>1. /\ change[o].phase = "none" /\ registry[u] = "absent" /\ trail' = trail
      /\ excused' = excused /\ registry' = [registry EXCEPT ![u] = "active"]
      /\ change' = [change EXCEPT ![o] = x] /\ RegistryTypes
      /\ registry \in [Tenants -> RowStatus]
  BY DEF RegisterTenant, RegistryInv, RegistryTypes
<1>2. x \in Moving /\ x.phase = "audit" /\ x.tenant = u /\ x.before = "absent" /\ x.status = "active"
  BY DEF Moving, RowStatus, TenantStatus
<1> HIDE DEF x
<1>3. /\ change' \in [Operators -> Changes] /\ change'[o] = x
      /\ \A p \in Operators \ {o} : change'[p] = change[p]
  BY <1>1, <1>2, OneChange DEF RegistryTypes, Changes
<1>4. registry' \in [Tenants -> RowStatus] /\ registry'[u] = "active"
      /\ \A t \in Tenants \ {u} : registry'[t] = registry[t]
  BY <1>1 DEF RowStatus, TenantStatus
<1>5. RegistryTypes'
  BY <1>1, <1>2, <1>3, <1>4 DEF RegistryTypes
<1>6. ASSUME NEW t \in Tenants \ {u} PROVE SameRecords(change, change', t)
  BY <1>1, <1>2, <1>3 DEF SameRecords, Records
<1>7. ASSUME Told(u, registry[u], trail[u], change) PROVE Told(u, registry'[u], trail'[u], change')
  <2>1. ASSUME NEW p \in Operators PROVE ~Records(change[p], u)
    <3> SUFFICES ASSUME Records(change[p], u) PROVE FALSE
      OBVIOUS
    <3>1. change[p].phase = "commit" => change[p].before \in TenantStatus
      BY <1>1 DEF RegistryTypes
    <3>2. change[p] \in Moving
      BY <1>1, ChangeFields DEF RegistryTypes, Records
    <3> QED BY <1>1, <1>7, <3>1, <3>2 DEF Told, Records, Moving, TenantStatus
  <2>2. registry[u] = StatusLeft(u, trail[u], Len(trail[u]))
    BY <2>1, <1>7 DEF Told
  <2> QED BY <1>1, <1>2, <1>3, <1>4, <1>7, <2>1, <2>2 DEF Told, Records
<1> QED BY <1>1, <1>4, <1>5, <1>6, <1>7, OneRow DEF RegistryInv

(* A change reads the row it is about; another that is under way is on record. *)
LEMMA ReadBeforeStep ==
    ASSUME RegistryInv, NEW o \in Operators, NEW u \in Tenants, NEW status \in TenantStatus,
           ReadBefore(o, u, status)
    PROVE  RegistryInv'
<1> DEFINE x == [phase |-> "commit", tenant |-> u, before |-> registry[u], status |-> status]
<1>1. /\ change[o].phase = "none" /\ registry[u] # "absent" /\ trail' = trail
      /\ registry' = registry /\ change' = [change EXCEPT ![o] = x] /\ RegistryTypes
      /\ excused' = IF Recording(u) = {} THEN excused ELSE excused \union {<<u, "concurrent">>}
      /\ registry[u] \in RowStatus
  BY DEF ReadBefore, RegistryInv, RegistryTypes, Exists
<1>2. x \in Moving /\ x.phase = "commit" /\ x.tenant = u /\ x.before = registry[u]
      /\ x.status = status /\ x.before \in TenantStatus
  BY <1>1 DEF Moving, RowStatus
<1> HIDE DEF x
<1>3. /\ change' \in [Operators -> Changes] /\ change'[o] = x
      /\ \A p \in Operators \ {o} : change'[p] = change[p]
  BY <1>1, <1>2, OneChange DEF RegistryTypes, Changes
<1>5. RegistryTypes'
  BY <1>1, <1>2, <1>3 DEF RegistryTypes
<1>6. ASSUME NEW t \in Tenants \ {u} PROVE SameRecords(change, change', t)
  BY <1>1, <1>2, <1>3 DEF SameRecords, Records
<1>7. CASE Recording(u) = {}
  <2>1. ASSUME NEW p \in Operators PROVE ~Records(change[p], u)
    BY <1>7 DEF Recording, Records
  <2>2. ASSUME Told(u, registry[u], trail[u], change) PROVE Told(u, registry'[u], trail'[u], change')
    <3>1. registry[u] = StatusLeft(u, trail[u], Len(trail[u]))
      BY <2>1, <2>2 DEF Told
    <3> QED BY <1>1, <1>2, <1>3, <2>1, <2>2, <3>1 DEF Told, Records
  <2> QED BY <1>1, <1>5, <1>6, <1>7, <2>2, OneRow DEF RegistryInv
<1>8. CASE Recording(u) # {}
  <2>1. excused' = excused \union {<<u, "concurrent">>}
    BY <1>1, <1>8
  <2> QED BY <1>1, <1>5, <1>6, <2>1, OneRow DEF Forgiven
<1> QED BY <1>7, <1>8

(* A change that commits leaves the row at its status, and is to be recorded. *)
LEMMA CommitStep ==
    ASSUME RegistryInv, NEW o \in Operators, CommitStatus(o)
    PROVE  RegistryInv'
<1> DEFINE u == change[o].tenant
           x == [change[o] EXCEPT !.phase = "audit"]
<1>1. /\ change[o].phase = "commit" /\ trail' = trail /\ excused' = excused
      /\ registry' = [registry EXCEPT ![u] = change[o].status]
      /\ change' = [change EXCEPT ![o] = x] /\ RegistryTypes /\ change[o] \in Changes
      /\ registry \in [Tenants -> RowStatus]
  BY DEF CommitStatus, RegistryInv, RegistryTypes
<1>2. /\ x \in Moving /\ x.phase = "audit" /\ x.tenant = u /\ x.before = change[o].before
      /\ x.status = change[o].status /\ u \in Tenants /\ change[o].status \in TenantStatus
  BY <1>1, MovesOn DEF Moving
<1> HIDE DEF x
<1>3. /\ change' \in [Operators -> Changes] /\ change'[o] = x
      /\ \A p \in Operators \ {o} : change'[p] = change[p]
  BY <1>1, <1>2, OneChange DEF RegistryTypes, Changes
<1>4. registry' \in [Tenants -> RowStatus] /\ registry'[u] = change[o].status
      /\ \A t \in Tenants \ {u} : registry'[t] = registry[t]
  BY <1>1, <1>2 DEF RowStatus
<1>5. RegistryTypes'
  BY <1>1, <1>2, <1>3, <1>4 DEF RegistryTypes
<1>6. ASSUME NEW t \in Tenants \ {u} PROVE SameRecords(change, change', t)
  BY <1>1, <1>2, <1>3 DEF SameRecords, Records
<1>7. ASSUME Told(u, registry[u], trail[u], change) PROVE Told(u, registry'[u], trail'[u], change')
  <2>1. Records(change[o], u) /\ \A p \in Operators : Records(change[p], u) => p = o
    BY <1>1, <1>7 DEF Told, Records
  <2> QED BY <1>1, <1>2, <1>3, <1>4, <1>7, <2>1 DEF Told, Records
<1> HIDE DEF u
<1> QED BY <1>1, <1>2, <1>4, <1>5, <1>6, <1>7, OneRow DEF RegistryInv

(* A change that fails leaves the row as it found it. *)
LEMMA UpdateFailsStep ==
    ASSUME RegistryInv, NEW o \in Operators, UpdateFails(o)
    PROVE  RegistryInv'
<1> DEFINE u == change[o].tenant
<1>1. /\ change[o].phase = "commit" /\ trail' = trail /\ excused' = excused /\ registry' = registry
      /\ change' = [change EXCEPT ![o] = NoChange] /\ RegistryTypes /\ change[o] \in Changes
  BY DEF UpdateFails, RegistryInv, RegistryTypes
<1>2. u \in Tenants /\ NoChange \in Changes /\ NoChange.phase = "none"
  BY <1>1, ChangeFields DEF Moving, Changes, NoChange
<1>3. /\ change' \in [Operators -> Changes] /\ change'[o] = NoChange
      /\ \A p \in Operators \ {o} : change'[p] = change[p]
  BY <1>1, <1>2, OneChange DEF RegistryTypes
<1>5. RegistryTypes'
  BY <1>1, <1>2, <1>3 DEF RegistryTypes
<1>6. ASSUME NEW t \in Tenants \ {u} PROVE SameRecords(change, change', t)
  BY <1>1, <1>2, <1>3 DEF SameRecords, Records
<1>7. ASSUME Told(u, registry[u], trail[u], change) PROVE Told(u, registry'[u], trail'[u], change')
  <2>1. Records(change[o], u) /\ \A p \in Operators : Records(change[p], u) => p = o
    BY <1>1, <1>7 DEF Told, Records
  <2>2. registry[u] = StatusLeft(u, trail[u], Len(trail[u]))
    BY <1>1, <1>7, <2>1 DEF Told
  <2> QED BY <1>1, <1>2, <1>3, <1>7, <2>1, <2>2 DEF Told, Records
<1> HIDE DEF u
<1> QED BY <1>1, <1>2, <1>5, <1>6, <1>7, OneRow DEF RegistryInv

(* What an audited change becomes: nothing after a registration. *)
LEMMA EmitStep ==
    ASSUME RegistryInv, NEW o \in Operators, EmitAudit(o)
    PROVE  RegistryInv'
<1> DEFINE u == change[o].tenant
           x == IF change[o].before = "absent" THEN NoChange
                ELSE [change[o] EXCEPT !.phase = "invalidate"]
           e == [before |-> change[o].before, after |-> change[o].status]
<1>1. /\ change[o].phase = "audit" /\ excused' = excused /\ registry' = registry
      /\ trail' = [trail EXCEPT ![u] = Append(trail[u], e)]
      /\ change' = [change EXCEPT ![o] = x] /\ RegistryTypes /\ change[o] \in Changes
      /\ trail \in [Tenants -> Seq(Event)]
  BY DEF EmitAudit, RegistryInv, RegistryTypes
<1>2. change[o] \in Moving /\ u \in Tenants
  BY <1>1, ChangeFields DEF Moving
<1>3. x \in Changes /\ x.phase \in {"none", "invalidate"}
      /\ (x.phase = "invalidate" => x.before \in TenantStatus)
  <2>1. CASE change[o].before = "absent"
    BY <2>1 DEF Changes, NoChange
  <2>2. CASE change[o].before # "absent"
    <3>1. /\ x \in Moving /\ x.phase = "invalidate" /\ x.before = change[o].before
      BY <1>1, <2>2, MovesOn
    <3>2. change[o].before \in TenantStatus
      BY <1>2, <2>2 DEF Moving, RowStatus
    <3> HIDE DEF x
    <3> QED BY <3>1, <3>2 DEF Changes
  <2> QED BY <2>1, <2>2
<1>4. e \in Event /\ e.before = change[o].before /\ e.after = change[o].status
  BY <1>2 DEF Event, Moving
<1> HIDE DEF x, e
<1>5. /\ change' \in [Operators -> Changes] /\ change'[o] = x
      /\ \A p \in Operators \ {o} : change'[p] = change[p]
  BY <1>1, <1>3, OneChange DEF RegistryTypes
<1>6. trail' \in [Tenants -> Seq(Event)] /\ trail'[u] = Append(trail[u], e)
      /\ \A t \in Tenants \ {u} : trail'[t] = trail[t]
  BY <1>1, <1>2, <1>4
<1>7. RegistryTypes'
  BY <1>1, <1>3, <1>5, <1>6 DEF RegistryTypes
<1>8. ASSUME NEW t \in Tenants \ {u} PROVE SameRecords(change, change', t)
  BY <1>1, <1>3, <1>5 DEF SameRecords, Records
<1>9. ASSUME Told(u, registry[u], trail[u], change) PROVE Told(u, registry'[u], trail'[u], change')
  <2>1. Records(change[o], u) /\ \A p \in Operators : Records(change[p], u) => p = o
    BY <1>1, <1>9 DEF Told, Records
  <2>2. ASSUME NEW p \in Operators PROVE ~Records(change'[p], u)
    BY <2>1, <1>3, <1>5 DEF Records
  <2>3. /\ e.before = StatusLeft(u, trail[u], Len(trail[u])) /\ e.after = registry[u]
        /\ \A i \in DOMAIN trail[u] : trail[u][i].before = StatusLeft(u, trail[u], i - 1)
    BY <2>1, <1>1, <1>4, <1>9 DEF Told
  <2>4. trail[u] \in Seq(Event)
    BY <1>1, <1>2
  <2>5. /\ \A i \in DOMAIN trail'[u] : trail'[u][i].before = StatusLeft(u, trail'[u], i - 1)
        /\ registry[u] = StatusLeft(u, trail'[u], Len(trail'[u]))
    <3> HIDE DEF u
    <3>1. LET longer == Append(trail[u], e)
          IN  /\ \A i \in DOMAIN longer : longer[i].before = StatusLeft(u, longer, i - 1)
              /\ registry[u] = StatusLeft(u, longer, Len(longer))
      BY <2>3, <2>4, <1>4, ToldOnce
    <3> QED BY <3>1, <1>6
  <2> QED BY <2>2, <2>5, <1>1 DEF Told
<1> HIDE DEF u
<1> QED BY <1>1, <1>2, <1>6, <1>7, <1>8, <1>9, OneRow DEF RegistryInv

(* A change whose event is lost is on record. *)
LEMMA EmitFailsStep ==
    ASSUME RegistryInv, NEW o \in Operators, EmitFails(o)
    PROVE  RegistryInv'
<1> DEFINE u == change[o].tenant
<1>1. /\ change[o].phase = "audit" /\ trail' = trail /\ registry' = registry
      /\ excused \subseteq excused' /\ <<u, "unaudited">> \in excused'
      /\ change' = [change EXCEPT ![o] = NoChange] /\ RegistryTypes /\ change[o] \in Changes
  BY DEF EmitFails, RegistryInv, RegistryTypes
<1>2. u \in Tenants /\ NoChange \in Changes /\ NoChange.phase = "none"
  BY <1>1, ChangeFields DEF Moving, Changes, NoChange
<1>3. /\ change' \in [Operators -> Changes] /\ change'[o] = NoChange
      /\ \A p \in Operators \ {o} : change'[p] = change[p]
  BY <1>1, <1>2, OneChange DEF RegistryTypes
<1>5. RegistryTypes'
  BY <1>1, <1>2, <1>3 DEF RegistryTypes
<1>6. ASSUME NEW t \in Tenants \ {u} PROVE SameRecords(change, change', t)
  BY <1>1, <1>2, <1>3 DEF SameRecords, Records
<1> HIDE DEF u
<1> QED BY <1>1, <1>2, <1>5, <1>6, OneRow DEF Forgiven

(* Once it is audited a change is in no history, whatever becomes of it. *)
LEMMA AuditedStep ==
    ASSUME RegistryInv, NEW o \in Operators, NEW x \in Changes, x.phase \in {"none", "dispose"},
           change[o].phase \in {"invalidate", "dispose"}, change' = [change EXCEPT ![o] = x],
           registry' = registry, trail' = trail,
           \A t \in Tenants : Forgiven(t, excused) => Forgiven(t, excused')
    PROVE  RegistryInv'
<1>1. RegistryTypes /\ change[o] \in Changes
  BY DEF RegistryInv, RegistryTypes
<1>2. /\ change' \in [Operators -> Changes] /\ change'[o] = x
      /\ \A p \in Operators \ {o} : change'[p] = change[p]
  BY <1>1, OneChange DEF RegistryTypes
<1>3. RegistryTypes'
  BY <1>1, <1>2 DEF RegistryTypes
<1>4. ASSUME NEW t \in Tenants PROVE SameRecords(change, change', t)
  BY <1>2 DEF SameRecords, Records
<1> SUFFICES ASSUME NEW t \in Tenants
             PROVE  Forgiven(t, excused') \/ Told(t, registry'[t], trail'[t], change')
  BY <1>3 DEF RegistryInv
<1> QED BY <1>4, ToldStill DEF RegistryInv

(* A caller adds to the excuses at most. *)
LEMMA RegistryAlone ==
    ASSUME RegistryInv, UNCHANGED <<registry, trail, change>>, excused \subseteq excused'
    PROVE  RegistryInv'
<1>1. RegistryTypes'
  BY DEF RegistryInv, RegistryTypes
<1>2. ASSUME NEW t \in Tenants
      PROVE  Forgiven(t, excused') \/ Told(t, registry'[t], trail'[t], change')
  BY DEF RegistryInv, Forgiven
<1> QED BY <1>1, <1>2 DEF RegistryInv

-----------------------------------------------------------------------------
(* ------------------- the tables of routes and commands --------------- *)

Sequence(p) == \E S : p \in Seq(S)

(* No call of a plan raises a named error once an earlier one has committed. *)
Careful(p, named) ==
    \A i \in DOMAIN p :
        p[i].raises \intersect named = {} \/ \A j \in 1..(i - 1) : ~p[j].writes
IsCall(c) == "store" \in DOMAIN c /\ "writes" \in DOMAIN c /\ "raises" \in DOMAIN c
RaisesAmong(p, errors) == \A i \in DOMAIN p : IsCall(p[i]) /\ p[i].raises \subseteq errors

Blanks == "ValueError of blanks"
Stores == {"tenant", "control", "graph", "provider"}
Answered(route) == (RegisteredErrors \ {"BoundTenantIdMismatch"}) \union DOMAIN route.errors

(* What a route's requests can be told by: an error has a status of its own or
   is one nobody answers, those with a status come before anything is committed,
   the cleanup raises nothing a handler names, and an operator's route calls no
   tenant's database. *)
RouteFits(route) ==
    /\ Sequence(route.cleanup) /\ RaisesAmong(route.cleanup, {})
    /\ route.query \subseteq Answered(route) \union Unanswered
    /\ \A p \in route.plans :
           /\ Sequence(p) /\ Careful(p, Answered(route))
           /\ RaisesAmong(p, Answered(route) \union Unanswered)
    /\ \A e \in DOMAIN route.errors : route.errors[e] \in {400, 503, 504}
    /\ route.scope \in {"tenant", "operator", "role"}
    /\ route.scope = "operator" =>
           /\ \A p \in route.plans : \A i \in DOMAIN p : p[i].store # "tenant"
           /\ route.cleanup = <<>>

CommandFits(command) ==
    /\ Sequence(command.cleanup) /\ RaisesAmong(command.cleanup, {})
    /\ \A p \in command.plans : 
           /\ Sequence(p) /\ Careful(p, DOMAIN command.exits)
           /\ \A i \in DOMAIN p : IsCall(p[i])
    /\ \A e \in DOMAIN command.exits : command.exits[e] \in {1, 2, 3}
    /\ command.opens \in Seq(Stores)
    /\ command.rejects \subseteq {1, 2}

(* Plans of so many calls, told call by call. *)
LEMMA Plan1 ==
    ASSUME NEW a, NEW E
    PROVE  /\ Sequence(<<a>>) /\ Careful(<<a>>, E)
           /\ \A A : a.raises \subseteq A /\ IsCall(a)
                  => RaisesAmong(<<a>>, A)
<1>1. <<a>> \in Seq({a})
  OBVIOUS
<1>2. Careful(<<a>>, E)
  BY DEF Careful
<1>3. ASSUME NEW A, a.raises \subseteq A /\ IsCall(a)
      PROVE  RaisesAmong(<<a>>, A)
  BY <1>3 DEF RaisesAmong
<1> QED BY <1>1, <1>2, <1>3 DEF Sequence

(* Two calls. *)
LEMMA Plan2 ==
    ASSUME NEW a, NEW b, NEW E,
           b.raises \intersect E = {} \/ (~a.writes)
    PROVE  /\ Sequence(<<a, b>>) /\ Careful(<<a, b>>, E)
           /\ \A A : a.raises \subseteq A /\ IsCall(a) /\ b.raises \subseteq A /\ IsCall(b)
                  => RaisesAmong(<<a, b>>, A)
<1>1. <<a, b>> \in Seq({a, b})
  OBVIOUS
<1>2. Careful(<<a, b>>, E)
  BY DEF Careful
<1>3. ASSUME NEW A, a.raises \subseteq A /\ IsCall(a) /\ b.raises \subseteq A /\ IsCall(b)
      PROVE  RaisesAmong(<<a, b>>, A)
  BY <1>3 DEF RaisesAmong
<1> QED BY <1>1, <1>2, <1>3 DEF Sequence

(* Three calls. *)
LEMMA Plan3 ==
    ASSUME NEW a, NEW b, NEW c, NEW E,
           b.raises \intersect E = {} \/ (~a.writes),
           c.raises \intersect E = {} \/ (~a.writes /\ ~b.writes)
    PROVE  /\ Sequence(<<a, b, c>>) /\ Careful(<<a, b, c>>, E)
           /\ \A A : a.raises \subseteq A /\ IsCall(a) /\ b.raises \subseteq A /\ IsCall(b)
                /\ c.raises \subseteq A /\ IsCall(c)
                  => RaisesAmong(<<a, b, c>>, A)
<1>1. <<a, b, c>> \in Seq({a, b, c})
  OBVIOUS
<1>2. Careful(<<a, b, c>>, E)
  BY DEF Careful
<1>3. ASSUME NEW A, a.raises \subseteq A /\ IsCall(a) /\ b.raises \subseteq A /\ IsCall(b)
                /\ c.raises \subseteq A /\ IsCall(c)
      PROVE  RaisesAmong(<<a, b, c>>, A)
  BY <1>3 DEF RaisesAmong
<1> QED BY <1>1, <1>2, <1>3 DEF Sequence

(* Four calls. *)
LEMMA Plan4 ==
    ASSUME NEW a, NEW b, NEW c, NEW d, NEW E,
           b.raises \intersect E = {} \/ (~a.writes),
           c.raises \intersect E = {} \/ (~a.writes /\ ~b.writes),
           d.raises \intersect E = {} \/ (~a.writes /\ ~b.writes /\ ~c.writes)
    PROVE  /\ Sequence(<<a, b, c, d>>) /\ Careful(<<a, b, c, d>>, E)
           /\ \A A : a.raises \subseteq A /\ IsCall(a) /\ b.raises \subseteq A /\ IsCall(b)
                /\ c.raises \subseteq A /\ IsCall(c) /\ d.raises \subseteq A /\ IsCall(d)
                  => RaisesAmong(<<a, b, c, d>>, A)
<1>1. <<a, b, c, d>> \in Seq({a, b, c, d})
  OBVIOUS
<1>2. Careful(<<a, b, c, d>>, E)
  BY DEF Careful
<1>3. ASSUME NEW A, a.raises \subseteq A /\ IsCall(a) /\ b.raises \subseteq A /\ IsCall(b)
                /\ c.raises \subseteq A /\ IsCall(c) /\ d.raises \subseteq A /\ IsCall(d)
      PROVE  RaisesAmong(<<a, b, c, d>>, A)
  BY <1>3 DEF RaisesAmong
<1> QED BY <1>1, <1>2, <1>3 DEF Sequence

(* Five calls. *)
LEMMA Plan5 ==
    ASSUME NEW a, NEW b, NEW c, NEW d, NEW e, NEW E,
           b.raises \intersect E = {} \/ (~a.writes),
           c.raises \intersect E = {} \/ (~a.writes /\ ~b.writes),
           d.raises \intersect E = {} \/ (~a.writes /\ ~b.writes /\ ~c.writes),
           e.raises \intersect E = {} \/ (~a.writes /\ ~b.writes /\ ~c.writes /\ ~d.writes)
    PROVE  /\ Sequence(<<a, b, c, d, e>>) /\ Careful(<<a, b, c, d, e>>, E)
           /\ \A A : a.raises \subseteq A /\ IsCall(a) /\ b.raises \subseteq A /\ IsCall(b)
                /\ c.raises \subseteq A /\ IsCall(c) /\ d.raises \subseteq A /\ IsCall(d)
                /\ e.raises \subseteq A /\ IsCall(e)
                  => RaisesAmong(<<a, b, c, d, e>>, A)
<1>1. <<a, b, c, d, e>> \in Seq({a, b, c, d, e})
  OBVIOUS
<1>2. Careful(<<a, b, c, d, e>>, E)
  BY DEF Careful
<1>3. ASSUME NEW A, a.raises \subseteq A /\ IsCall(a) /\ b.raises \subseteq A /\ IsCall(b)
                /\ c.raises \subseteq A /\ IsCall(c) /\ d.raises \subseteq A /\ IsCall(d)
                /\ e.raises \subseteq A /\ IsCall(e)
      PROVE  RaisesAmong(<<a, b, c, d, e>>, A)
  BY <1>3 DEF RaisesAmong
<1> QED BY <1>1, <1>2, <1>3 DEF Sequence

(* Six calls. *)
LEMMA Plan6 ==
    ASSUME NEW a, NEW b, NEW c, NEW d, NEW e, NEW f, NEW E,
           b.raises \intersect E = {} \/ (~a.writes),
           c.raises \intersect E = {} \/ (~a.writes /\ ~b.writes),
           d.raises \intersect E = {} \/ (~a.writes /\ ~b.writes /\ ~c.writes),
           e.raises \intersect E = {} \/ (~a.writes /\ ~b.writes /\ ~c.writes /\ ~d.writes),
           f.raises \intersect E = {} \/ (~a.writes /\ ~b.writes /\ ~c.writes /\ ~d.writes
                /\ ~e.writes)
    PROVE  /\ Sequence(<<a, b, c, d, e, f>>) /\ Careful(<<a, b, c, d, e, f>>, E)
           /\ \A A : a.raises \subseteq A /\ IsCall(a) /\ b.raises \subseteq A /\ IsCall(b)
                /\ c.raises \subseteq A /\ IsCall(c) /\ d.raises \subseteq A /\ IsCall(d)
                /\ e.raises \subseteq A /\ IsCall(e) /\ f.raises \subseteq A /\ IsCall(f)
                  => RaisesAmong(<<a, b, c, d, e, f>>, A)
<1>1. <<a, b, c, d, e, f>> \in Seq({a, b, c, d, e, f})
  OBVIOUS
<1>2. Careful(<<a, b, c, d, e, f>>, E)
  BY DEF Careful
<1>3. ASSUME NEW A, a.raises \subseteq A /\ IsCall(a) /\ b.raises \subseteq A /\ IsCall(b)
                /\ c.raises \subseteq A /\ IsCall(c) /\ d.raises \subseteq A /\ IsCall(d)
                /\ e.raises \subseteq A /\ IsCall(e) /\ f.raises \subseteq A /\ IsCall(f)
      PROVE  RaisesAmong(<<a, b, c, d, e, f>>, A)
  BY <1>3 DEF RaisesAmong
<1> QED BY <1>1, <1>2, <1>3 DEF Sequence

(* Seven calls. *)
LEMMA Plan7 ==
    ASSUME NEW a, NEW b, NEW c, NEW d, NEW e, NEW f, NEW g, NEW E,
           b.raises \intersect E = {} \/ (~a.writes),
           c.raises \intersect E = {} \/ (~a.writes /\ ~b.writes),
           d.raises \intersect E = {} \/ (~a.writes /\ ~b.writes /\ ~c.writes),
           e.raises \intersect E = {} \/ (~a.writes /\ ~b.writes /\ ~c.writes /\ ~d.writes),
           f.raises \intersect E = {} \/ (~a.writes /\ ~b.writes /\ ~c.writes /\ ~d.writes
                /\ ~e.writes),
           g.raises \intersect E = {} \/ (~a.writes /\ ~b.writes /\ ~c.writes /\ ~d.writes
                /\ ~e.writes /\ ~f.writes)
    PROVE  /\ Sequence(<<a, b, c, d, e, f, g>>) /\ Careful(<<a, b, c, d, e, f, g>>, E)
           /\ \A A : a.raises \subseteq A /\ IsCall(a) /\ b.raises \subseteq A /\ IsCall(b)
                /\ c.raises \subseteq A /\ IsCall(c) /\ d.raises \subseteq A /\ IsCall(d)
                /\ e.raises \subseteq A /\ IsCall(e) /\ f.raises \subseteq A /\ IsCall(f)
                /\ g.raises \subseteq A /\ IsCall(g)
                  => RaisesAmong(<<a, b, c, d, e, f, g>>, A)
<1>1. <<a, b, c, d, e, f, g>> \in Seq({a, b, c, d, e, f, g})
  OBVIOUS
<1>2. Careful(<<a, b, c, d, e, f, g>>, E)
  BY DEF Careful
<1>3. ASSUME NEW A, a.raises \subseteq A /\ IsCall(a) /\ b.raises \subseteq A /\ IsCall(b)
                /\ c.raises \subseteq A /\ IsCall(c) /\ d.raises \subseteq A /\ IsCall(d)
                /\ e.raises \subseteq A /\ IsCall(e) /\ f.raises \subseteq A /\ IsCall(f)
                /\ g.raises \subseteq A /\ IsCall(g)
      PROVE  RaisesAmong(<<a, b, c, d, e, f, g>>, A)
  BY <1>3 DEF RaisesAmong
<1> QED BY <1>1, <1>2, <1>3 DEF Sequence

(* Eight calls. *)
LEMMA Plan8 ==
    ASSUME NEW a, NEW b, NEW c, NEW d, NEW e, NEW f, NEW g, NEW h, NEW E,
           b.raises \intersect E = {} \/ (~a.writes),
           c.raises \intersect E = {} \/ (~a.writes /\ ~b.writes),
           d.raises \intersect E = {} \/ (~a.writes /\ ~b.writes /\ ~c.writes),
           e.raises \intersect E = {} \/ (~a.writes /\ ~b.writes /\ ~c.writes /\ ~d.writes),
           f.raises \intersect E = {} \/ (~a.writes /\ ~b.writes /\ ~c.writes /\ ~d.writes
                /\ ~e.writes),
           g.raises \intersect E = {} \/ (~a.writes /\ ~b.writes /\ ~c.writes /\ ~d.writes
                /\ ~e.writes /\ ~f.writes),
           h.raises \intersect E = {} \/ (~a.writes /\ ~b.writes /\ ~c.writes /\ ~d.writes
                /\ ~e.writes /\ ~f.writes /\ ~g.writes)
    PROVE  /\ Sequence(<<a, b, c, d, e, f, g, h>>) /\ Careful(<<a, b, c, d, e, f, g, h>>, E)
           /\ \A A : a.raises \subseteq A /\ IsCall(a) /\ b.raises \subseteq A /\ IsCall(b)
                /\ c.raises \subseteq A /\ IsCall(c) /\ d.raises \subseteq A /\ IsCall(d)
                /\ e.raises \subseteq A /\ IsCall(e) /\ f.raises \subseteq A /\ IsCall(f)
                /\ g.raises \subseteq A /\ IsCall(g) /\ h.raises \subseteq A /\ IsCall(h)
                  => RaisesAmong(<<a, b, c, d, e, f, g, h>>, A)
<1>1. <<a, b, c, d, e, f, g, h>> \in Seq({a, b, c, d, e, f, g, h})
  OBVIOUS
<1>2. Careful(<<a, b, c, d, e, f, g, h>>, E)
  BY DEF Careful
<1>3. ASSUME NEW A, a.raises \subseteq A /\ IsCall(a) /\ b.raises \subseteq A /\ IsCall(b)
                /\ c.raises \subseteq A /\ IsCall(c) /\ d.raises \subseteq A /\ IsCall(d)
                /\ e.raises \subseteq A /\ IsCall(e) /\ f.raises \subseteq A /\ IsCall(f)
                /\ g.raises \subseteq A /\ IsCall(g) /\ h.raises \subseteq A /\ IsCall(h)
      PROVE  RaisesAmong(<<a, b, c, d, e, f, g, h>>, A)
  BY <1>3 DEF RaisesAmong
<1> QED BY <1>1, <1>2, <1>3 DEF Sequence

(* Ten calls. *)
LEMMA Plan10 ==
    ASSUME NEW a, NEW b, NEW c, NEW d, NEW e, NEW f, NEW g, NEW h, NEW i, NEW j, NEW E,
           b.raises \intersect E = {} \/ (~a.writes),
           c.raises \intersect E = {} \/ (~a.writes /\ ~b.writes),
           d.raises \intersect E = {} \/ (~a.writes /\ ~b.writes /\ ~c.writes),
           e.raises \intersect E = {} \/ (~a.writes /\ ~b.writes /\ ~c.writes /\ ~d.writes),
           f.raises \intersect E = {} \/ (~a.writes /\ ~b.writes /\ ~c.writes /\ ~d.writes
                /\ ~e.writes),
           g.raises \intersect E = {} \/ (~a.writes /\ ~b.writes /\ ~c.writes /\ ~d.writes
                /\ ~e.writes /\ ~f.writes),
           h.raises \intersect E = {} \/ (~a.writes /\ ~b.writes /\ ~c.writes /\ ~d.writes
                /\ ~e.writes /\ ~f.writes /\ ~g.writes),
           i.raises \intersect E = {} \/ (~a.writes /\ ~b.writes /\ ~c.writes /\ ~d.writes
                /\ ~e.writes /\ ~f.writes /\ ~g.writes /\ ~h.writes),
           j.raises \intersect E = {} \/ (~a.writes /\ ~b.writes /\ ~c.writes /\ ~d.writes
                /\ ~e.writes /\ ~f.writes /\ ~g.writes /\ ~h.writes /\ ~i.writes)
    PROVE  /\ Sequence(<<a, b, c, d, e, f, g, h, i, j>>) /\ Careful(<<a, b, c, d, e, f, g, h, i, j>>, E)
           /\ \A A : a.raises \subseteq A /\ IsCall(a) /\ b.raises \subseteq A /\ IsCall(b)
                /\ c.raises \subseteq A /\ IsCall(c) /\ d.raises \subseteq A /\ IsCall(d)
                /\ e.raises \subseteq A /\ IsCall(e) /\ f.raises \subseteq A /\ IsCall(f)
                /\ g.raises \subseteq A /\ IsCall(g) /\ h.raises \subseteq A /\ IsCall(h)
                /\ i.raises \subseteq A /\ IsCall(i) /\ j.raises \subseteq A /\ IsCall(j)
                  => RaisesAmong(<<a, b, c, d, e, f, g, h, i, j>>, A)
<1>1. <<a, b, c, d, e, f, g, h, i, j>> \in Seq({a, b, c, d, e, f, g, h, i, j})
  OBVIOUS
<1>2. Careful(<<a, b, c, d, e, f, g, h, i, j>>, E)
  BY DEF Careful
<1>3. ASSUME NEW A, a.raises \subseteq A /\ IsCall(a) /\ b.raises \subseteq A /\ IsCall(b)
                /\ c.raises \subseteq A /\ IsCall(c) /\ d.raises \subseteq A /\ IsCall(d)
                /\ e.raises \subseteq A /\ IsCall(e) /\ f.raises \subseteq A /\ IsCall(f)
                /\ g.raises \subseteq A /\ IsCall(g) /\ h.raises \subseteq A /\ IsCall(h)
                /\ i.raises \subseteq A /\ IsCall(i) /\ j.raises \subseteq A /\ IsCall(j)
      PROVE  RaisesAmong(<<a, b, c, d, e, f, g, h, i, j>>, A)
  BY <1>3 DEF RaisesAmong
<1> QED BY <1>1, <1>2, <1>3 DEF Sequence

(* No calls at all. *)
LEMMA NoCalls ==
    /\ Sequence(<<>>) /\ DOMAIN <<>> = {} /\ <<>> \in Seq(Stores)
    /\ \A A : RaisesAmong(<<>>, A)
<1>1. <<>> \in Seq(Stores) /\ DOMAIN <<>> = {}
  OBVIOUS
<1> QED BY <1>1 DEF Sequence, RaisesAmong

(* The calls. *)
CallIs(c, store, writes, raises) ==
    IsCall(c) /\ c.store = store /\ c.writes = writes /\ c.raises = raises

(* The calls on the ports. *)
LEMMA CallsAre ==
    /\ CallIs(Read, "tenant", FALSE, {}) /\ CallIs(Write, "tenant", TRUE, {})
    /\ CallIs(Embedded, "tenant", FALSE, {}) /\ CallIs(Provider, "provider", FALSE, {})
    /\ CallIs(ControlRead, "control", FALSE, {}) /\ CallIs(ControlWrite, "control", TRUE, {})
    /\ CallIs(Graph, "graph", FALSE, {})
<1>1. CallIs(Read, "tenant", FALSE, {}) /\ CallIs(Provider, "provider", FALSE, {})
      /\ CallIs(ControlRead, "control", FALSE, {}) /\ CallIs(Graph, "graph", FALSE, {})
  BY DEF CallIs, IsCall, Read, Provider, ControlRead, Graph, CallIn
<1>2. CallIs(Write, "tenant", TRUE, {})
  BY DEF CallIs, IsCall, Write, Read, CallIn
<1>3. CallIs(Embedded, "tenant", FALSE, {})
  BY DEF CallIs, IsCall, Embedded, Read, CallIn
<1>4. CallIs(ControlWrite, "control", TRUE, {})
  BY DEF CallIs, IsCall, ControlWrite, ControlRead, CallIn
<1> QED BY <1>1, <1>2, <1>3, <1>4

(* The calls that raise an error their caller names. *)
LEMMA RaisingCalls ==
    ASSUME NEW E
    PROVE  /\ CallIs(Decide(E), "memory", FALSE, E) /\ CallIs(Raising(Provider, E), "provider", FALSE, E)
           /\ CallIs(Raising(Read, E), "tenant", FALSE, E) /\ CallIs(Raising(Write, E), "tenant", TRUE, E)
           /\ CallIs(Raising(ControlRead, E), "control", FALSE, E)
           /\ CallIs(Raising(ControlWrite, E), "control", TRUE, E)
           /\ CallIs(Raising(CallIn("control"), E), "control", FALSE, E)
<1>1. CallIs(Decide(E), "memory", FALSE, E) /\ CallIs(Raising(Provider, E), "provider", FALSE, E)
  BY DEF CallIs, IsCall, Decide, Provider, Raising, CallIn
<1>2. CallIs(Raising(Read, E), "tenant", FALSE, E) /\ CallIs(Raising(ControlRead, E), "control", FALSE, E)
      /\ CallIs(Raising(CallIn("control"), E), "control", FALSE, E)
  BY DEF CallIs, IsCall, Read, ControlRead, Raising, CallIn
<1>3. CallIs(Raising(Write, E), "tenant", TRUE, E)
  BY DEF CallIs, IsCall, Write, Read, Raising, CallIn
<1>4. CallIs(Raising(ControlWrite, E), "control", TRUE, E)
  BY DEF CallIs, IsCall, ControlWrite, ControlRead, Raising, CallIn
<1> QED BY <1>1, <1>2, <1>3, <1>4

(* What the two adapters that choose their database make of a tenant's. *)
LEMMA ChosenStores ==
    /\ AuditEventReader("tenant").get_audit_event = Read
    /\ AuditEventReader("tenant").list_audit_events_with_filters = Read
    /\ AuditEventReader("control").get_audit_event = CallIn("control")
    /\ AuditEventReader("control").list_audit_events_with_filters = CallIn("control")
    /\ CallIs(AuditPort("tenant").emit, "tenant", TRUE, {})
    /\ CallIs(CallIn("control"), "control", FALSE, {})
  BY DEF AuditEventReader, AuditPort, Read, CallIn, CallIs, IsCall

(* What a set of plans raises, and that it is careful about any set of named
   errors, but for those that come late. *)
PlansFit(plans, errors, late) ==
    \A p \in plans :
        /\ Sequence(p) /\ RaisesAmong(p, errors)
        /\ \A named : named \intersect late = {} => Careful(p, named)

(* What is read by its id is found or is an error with a status. *)
LEMMA FoundFits ==
    ASSUME NEW read, NEW error, NEW store, NEW writes,
           CallIs(Raising(read, {error}), store, writes, {error})
    PROVE  PlansFit(Found(read, error), {error}, {})
<1> DEFINE a == Raising(read, {error})
<1>1. Found(read, error) = {<<a>>} /\ a.raises = {error} /\ IsCall(a)
  BY DEF Found, CallIs
<1> HIDE DEF a
<1> QED BY <1>1, Plan1 DEF PlansFit

(* A list is read without an error. *)
LEMMA ListedFits ==
    ASSUME NEW errors, NEW read, read.raises = {} /\ IsCall(read)
    PROVE  PlansFit(Listed(errors, read), errors, {})
<1> DEFINE a == Decide(errors)
<1>1. Listed(errors, read) = {<<a, read>>} /\ a.raises = errors /\ IsCall(a) /\ ~a.writes
  BY RaisingCalls DEF Listed, CallIs
<1> HIDE DEF a
<1> QED BY <1>1, Plan2 DEF PlansFit

(* Gold sets are refused before anything is written. *)
LEMMA CreateFits == PlansFit(CreatePlans, {Blanks}, {})
<1> DEFINE a == Decide({Blanks})
<1>1. CreatePlans = {<<a, Write>>} /\ a.raises = {Blanks} /\ IsCall(a)
                /\ ~a.writes /\ Write.raises = {} /\ IsCall(Write)
  BY RaisingCalls, CallsAre DEF CreatePlans, CallIs, Blanks, GoldSetRepository
<1> HIDE DEF a
<1> QED BY <1>1, Plan2 DEF PlansFit

(* One plan after another. *)
LEMMA PlansJoined ==
    ASSUME NEW p, NEW q, Sequence(p), Sequence(q)
    PROVE  /\ Sequence(p \o q)
           /\ \A A : RaisesAmong(p, A) /\ RaisesAmong(q, A) => RaisesAmong(p \o q, A)
           /\ \A named : Careful(p, named) /\ Careful(q, named) /\ (\A i \in DOMAIN p : ~p[i].writes)
                  => Careful(p \o q, named)
           /\ \A named : Careful(p, named) /\ (\A i \in DOMAIN q : q[i].raises \intersect named = {})
                  => Careful(p \o q, named)
<1>1. PICK S : p \in Seq(S)
  BY DEF Sequence
<1>2. PICK T : q \in Seq(T)
  BY DEF Sequence
<1>3. p \in Seq(S \union T) /\ q \in Seq(S \union T)
  BY <1>1, <1>2
<1>4. /\ p \o q \in Seq(S \union T) /\ Len(p \o q) = Len(p) + Len(q)
      /\ Len(p) \in Nat /\ Len(q) \in Nat
      /\ DOMAIN p = 1..Len(p) /\ DOMAIN q = 1..Len(q) /\ DOMAIN (p \o q) = 1..(Len(p) + Len(q))
      /\ \A i \in 1..(Len(p) + Len(q)) :
             (p \o q)[i] = IF i <= Len(p) THEN p[i] ELSE q[i - Len(p)]
  BY <1>3
<1> DEFINE pq == p \o q
<1> HIDE DEF pq
<1>5. \A i \in 1..(Len(p) + Len(q)) :
          \/ i \in 1..Len(p) /\ pq[i] = p[i]
          \/ i - Len(p) \in 1..Len(q) /\ pq[i] = q[i - Len(p)]
  BY <1>4 DEF pq
<1>6. Sequence(pq) /\ DOMAIN pq = 1..(Len(p) + Len(q))
  BY <1>4 DEF Sequence, pq
<1>7. ASSUME NEW A, RaisesAmong(p, A), RaisesAmong(q, A)
      PROVE  RaisesAmong(pq, A)
  BY <1>4, <1>5, <1>6, <1>7 DEF RaisesAmong
<1>8. ASSUME NEW named, Careful(p, named), Careful(q, named), \A i \in DOMAIN p : ~p[i].writes
      PROVE  Careful(pq, named)
  <2> SUFFICES ASSUME NEW i \in 1..(Len(p) + Len(q)), ~(pq[i].raises \intersect named = {}),
                      NEW j \in 1..(i - 1)
               PROVE  ~pq[j].writes
    BY <1>6 DEF Careful
  <2>1. j \in 1..(Len(p) + Len(q))
    BY <1>4
  <2>2. CASE j \in 1..Len(p) /\ pq[j] = p[j]
    BY <2>2, <1>4, <1>8
  <2>3. CASE j - Len(p) \in 1..Len(q) /\ pq[j] = q[j - Len(p)]
    <3>1. i - Len(p) \in 1..Len(q) /\ pq[i] = q[i - Len(p)] /\ j - Len(p) \in 1..(i - Len(p) - 1)
      BY <2>3, <1>4, <1>5
    <3> QED BY <2>3, <3>1, <1>4, <1>8 DEF Careful
  <2> QED BY <2>1, <2>2, <2>3, <1>5
<1>9. ASSUME NEW named, Careful(p, named), \A i \in DOMAIN q : q[i].raises \intersect named = {}
      PROVE  Careful(pq, named)
  <2> SUFFICES ASSUME NEW i \in 1..(Len(p) + Len(q)), ~(pq[i].raises \intersect named = {}),
                      NEW j \in 1..(i - 1)
               PROVE  ~pq[j].writes
    BY <1>6 DEF Careful
  <2>1. i \in 1..Len(p) /\ pq[i] = p[i]
    BY <1>4, <1>5, <1>9
  <2>2. j \in 1..Len(p) /\ pq[j] = p[j]
    BY <2>1, <1>4 DEF pq
  <2> QED BY <2>1, <2>2, <1>4, <1>9 DEF Careful
<1> QED BY <1>6, <1>7, <1>8, <1>9 DEF pq

(* So are entries. *)
LEMMA AppendFits == PlansFit(AppendPlans, {Blanks, "GoldSetNotFound"}, {Blanks})
<1> DEFINE a == Decide({Blanks})
           b == Raising(Read, {"GoldSetNotFound"})
           r == Read
           w == Write
<1>1. /\ a.raises = {Blanks} /\ IsCall(a) /\ ~a.writes /\ w.raises = {}
                /\ IsCall(w) /\ r.raises = {} /\ IsCall(r)
      /\ ~r.writes /\ b.raises = {"GoldSetNotFound"} /\ IsCall(b) /\ ~b.writes
  BY RaisingCalls, CallsAre DEF CallIs
<1>2. AppendPlans = {<<r>> \o <<r, a, w>>, <<r, b, w>> \o <<r, a, w>>}
  BY DEF AppendPlans, Blanks, GoldSetRepository, GoldSetReader
<1> HIDE DEF a, b, r, w
<1>3. /\ Sequence(<<r, a, w>>) /\ RaisesAmong(<<r, a, w>>, {Blanks, "GoldSetNotFound"})
      /\ \A named : Careful(<<r, a, w>>, named)
  BY <1>1, Plan3
<1>4. /\ Sequence(<<r>>) /\ RaisesAmong(<<r>>, {Blanks, "GoldSetNotFound"})
      /\ \A named : Careful(<<r>>, named)
  BY <1>1, Plan1
<1>5. /\ Sequence(<<r, b, w>>) /\ RaisesAmong(<<r, b, w>>, {Blanks, "GoldSetNotFound"})
      /\ \A named : Careful(<<r, b, w>>, named)
  BY <1>1, Plan3
<1>6. \A i \in DOMAIN <<r>> : ~<<r>>[i].writes
  BY <1>1
<1>7. ASSUME NEW named, named \intersect {Blanks} = {}, NEW i \in DOMAIN <<r, a, w>>
      PROVE  <<r, a, w>>[i].raises \intersect named = {}
  BY <1>1, <1>7
<1>8. /\ Sequence(<<r>> \o <<r, a, w>>)
      /\ RaisesAmong(<<r>> \o <<r, a, w>>, {Blanks, "GoldSetNotFound"})
      /\ \A named : Careful(<<r>> \o <<r, a, w>>, named)
  BY <1>3, <1>4, <1>6, PlansJoined
<1>9. /\ Sequence(<<r, b, w>> \o <<r, a, w>>)
      /\ RaisesAmong(<<r, b, w>> \o <<r, a, w>>, {Blanks, "GoldSetNotFound"})
      /\ \A named : named \intersect {Blanks} = {} => Careful(<<r, b, w>> \o <<r, a, w>>, named)
  BY <1>3, <1>5, <1>7, PlansJoined
<1> QED BY <1>2, <1>8, <1>9 DEF PlansFit

(* And revisions. *)
LEMMA FinalizeFits == PlansFit(FinalizePlans, {"NoDraftToFinalize", "EmptyDraft"}, {})
<1> DEFINE a == Raising(Read, {"NoDraftToFinalize"})
           b == Raising(Read, {"EmptyDraft"})
<1>1. /\ FinalizePlans = {<<a, b, Read, Write>>}
      /\ a.raises = {"NoDraftToFinalize"} /\ IsCall(a) /\ ~a.writes
                /\ b.raises = {"EmptyDraft"} /\ IsCall(b) /\ ~b.writes
      /\ Write.raises = {} /\ IsCall(Write) /\ Read.raises = {} /\ IsCall(Read) /\ ~Read.writes
  BY RaisingCalls, CallsAre DEF FinalizePlans, CallIs, GoldSetRepository, GoldSetReader
<1> HIDE DEF a, b
<1> QED BY <1>1, Plan4 DEF PlansFit

(* Evaluation runs name no error once their row is written. *)
LEMMA EvaluationFits ==
    PlansFit(EvaluationPlans, {"GoldSetNotFound", "GoldSetMissingFinalizedRevision"}, {})
<1> DEFINE a == Raising(Read, {"GoldSetNotFound", "GoldSetMissingFinalizedRevision"})
           e == AuditPort("tenant").emit
<1>1. /\ EvaluationPlans = {<<a, Write, e, Embedded, Write, e, Write, e, Write, e>>}
      /\ a.raises = {"GoldSetNotFound", "GoldSetMissingFinalizedRevision"} /\ IsCall(a)
      /\ e.raises = {} /\ IsCall(e) /\ Embedded.raises = {}
                /\ IsCall(Embedded) /\ Write.raises = {} /\ IsCall(Write)
  BY RaisingCalls, CallsAre, ChosenStores
     DEF EvaluationPlans, CallIs, GoldSetReader, EvaluationRunRepository, RetrievalRunner, RetrievalClient
<1> HIDE DEF a, e
<1> QED BY <1>1, Plan10 DEF PlansFit

(* What an except clause does raises nothing of its own. *)
LEMMA CleanupsFit ==
    /\ Sequence(EvaluationCleanup) /\ RaisesAmong(EvaluationCleanup, {})
    /\ Sequence(OptimizationCleanup) /\ RaisesAmong(OptimizationCleanup, {})
<1> DEFINE e == AuditPort("tenant").emit
<1>1. /\ EvaluationCleanup = <<Write, e>> /\ OptimizationCleanup = <<Write, e>>
      /\ e.raises = {} /\ IsCall(e) /\ Write.raises = {} /\ IsCall(Write)
  BY CallsAre, ChosenStores
     DEF EvaluationCleanup, OptimizationCleanup, CallIs, EvaluationRunRepository, OptimizationRunRepository
<1> HIDE DEF e
<1> QED BY <1>1, Plan2

(* Optimization runs name no error once their row is written. *)
LEMMA OptimizationFits == PlansFit(OptimizationPlans, {}, {})
<1> DEFINE e == AuditPort("tenant").emit
<1>1. /\ OptimizationPlans = {<<Write, e, Read, Write, e>>, <<Write, e, Read, Write, e, Write, e>>}
      /\ e.raises = {} /\ IsCall(e) /\ Write.raises = {} /\ IsCall(Write) /\ Read.raises = {}
                /\ IsCall(Read)
  BY CallsAre, ChosenStores
     DEF OptimizationPlans, CallIs, OptimizationRunRepository, EvaluationRunReader, RecommendationRepository
<1> HIDE DEF e
<1> QED BY <1>1, Plan5, Plan7 DEF PlansFit

(* A recommendation is refused before it is changed. *)
LEMMA TransitionFits ==
    PlansFit(TransitionPlans, {"RecommendationNotFound", "TransitionNotPermitted"}, {})
<1> DEFINE a == Raising(Read, {"RecommendationNotFound", "TransitionNotPermitted"})
           e == AuditPort("tenant").emit
<1>1. /\ TransitionPlans = {<<a, Write, e>>}
      /\ a.raises = {"RecommendationNotFound", "TransitionNotPermitted"} /\ IsCall(a)
      /\ e.raises = {} /\ IsCall(e) /\ Write.raises = {} /\ IsCall(Write)
  BY RaisingCalls, CallsAre, ChosenStores
     DEF TransitionPlans, CallIs, RecommendationReader, RecommendationRepository
<1> HIDE DEF a, e
<1> QED BY <1>1, Plan3 DEF PlansFit

(* An agent is found before its run is recorded. *)
LEMMA InvokeFits == PlansFit(InvokePlans, {}, {})
<1> DEFINE c == CallIn("control")
           e == AuditPort("tenant").emit
<1>1. /\ InvokePlans = {<<Read, c, e, Provider, e, Write>>, <<Read, c, e, Embedded, Provider, e, Write>>}
      /\ c.raises = {} /\ IsCall(c) /\ e.raises = {} /\ IsCall(e) /\ Write.raises = {}
                /\ IsCall(Write) /\ Read.raises = {} /\ IsCall(Read)
      /\ Provider.raises = {} /\ IsCall(Provider) /\ Embedded.raises = {} /\ IsCall(Embedded)
  BY CallsAre, ChosenStores
     DEF InvokePlans, CallIs, RunHistoryWriter, RetrievalClient
<1> HIDE DEF c, e
<1> QED BY <1>1, Plan6, Plan7 DEF PlansFit

Named == RegisteredErrors \ {"BoundTenantIdMismatch"}

(* The errors with a handler are not those nobody answers. *)
LEMMA NamedErrors ==
    /\ RunHistoryCursor \union AuditCursor \union IngestionCursor \union RetrievalEvaluationCursor
       \union OptimizationCursor \subseteq Named
    /\ RunListQuery \subseteq Named \union Unanswered
    /\ AuditListQuery \subseteq Named \union Unanswered
    /\ RecommendationListQuery \subseteq Named
    /\ {"RunNotFound", "AuditEventNotFound", "IngestionSourceNotFound", "GoldSetNotFound",
        "NoDraftToFinalize", "EmptyDraft", "GoldSetMissingFinalizedRevision",
        "EvaluationRunNotFound", "RecommendationNotFound", "TransitionNotPermitted",
        "OptimizationRunNotFound", "PrincipalTypeMismatch"} \subseteq Named
    /\ Blanks \in Unanswered /\ Named \intersect Unanswered = {}
  BY DEF RunHistoryCursor, AuditCursor, IngestionCursor, RetrievalEvaluationCursor,
         OptimizationCursor, RunListQuery, AuditListQuery, RecommendationListQuery, Named, Blanks,
         Unanswered, MixedZones, RegisteredErrors, RegisterRunHistory, RegisterAudit,
         RegisterIngestion, RegisterRetrievalEvaluation, RegisterOptimization

(* What fits as plans fits as a route of a tenant, whatever its query, its
   cleanup and its way of answering. *)
LEMMA TenantRouteFits ==
    ASSUME NEW route, NEW errors, NEW late, PlansFit(route.plans, errors, late),
           errors \subseteq Named \union Unanswered, late \subseteq {Blanks},
           route.query \subseteq Named \union Unanswered, route.errors = <<>>,
           route.cleanup \in {<<>>, EvaluationCleanup, OptimizationCleanup},
           route.scope \in {"tenant", "role"}
    PROVE  RouteFits(route)
<1>1. Answered(route) = Named
  BY NoCalls DEF Answered, Named
<1>2. Sequence(route.cleanup) /\ RaisesAmong(route.cleanup, {})
  BY NoCalls, CleanupsFit
<1>3. ASSUME NEW p \in route.plans
      PROVE  Sequence(p) /\ Careful(p, Named) /\ RaisesAmong(p, Named \union Unanswered)
  <2>1. Sequence(p) /\ RaisesAmong(p, errors) /\ \A named : named \intersect late = {} => Careful(p, named)
    BY <1>3 DEF PlansFit
  <2>2. Named \intersect late = {}
    BY NamedErrors
  <2> QED BY <2>1, <2>2 DEF RaisesAmong
<1>4. DOMAIN route.errors = {}
  BY NoCalls
<1> QED BY <1>1, <1>2, <1>3, <1>4 DEF RouteFits

(* Routes that only read. *)
LEMMA GetFits ==
    ASSUME NEW needs, NEW plans, NEW errors, NEW late, PlansFit(plans, errors, late),
           errors \subseteq Named \union Unanswered, late \subseteq {Blanks}
    PROVE  /\ RouteFits(GET(needs, plans))
           /\ \A query : query \subseteq Named \union Unanswered
                         => RouteFits(QueryFirst(GET(needs, plans), query))
<1>1. RouteFits(GET(needs, plans))
  <2> DEFINE route == GET(needs, plans)
  <2>1. /\ route.plans = plans /\ route.query = {} /\ route.errors = <<>> /\ route.cleanup = <<>>
        /\ route.scope = "tenant"
    BY DEF GET
  <2> HIDE DEF route
  <2>2. RouteFits(route)
    BY <2>1, TenantRouteFits
  <2> QED BY <2>2 DEF route
<1>2. ASSUME NEW query, query \subseteq Named \union Unanswered
      PROVE  RouteFits(QueryFirst(GET(needs, plans), query))
  <2> DEFINE route == QueryFirst(GET(needs, plans), query)
  <2>1. /\ route.plans = plans /\ route.query = query /\ route.errors = <<>> /\ route.cleanup = <<>>
        /\ route.scope = "tenant"
    BY DEF GET, QueryFirst
  <2> HIDE DEF route
  <2>2. RouteFits(route)
    BY <2>1, <1>2, TenantRouteFits
  <2> QED BY <2>2 DEF route
<1> QED BY <1>1, <1>2

(* An operator's route reads one thing of the control plane. *)
LEMMA OperatorRouteFits ==
    ASSUME NEW route, NEW read, NEW errors, route.plans = {<<read>>}, read.raises = errors
                /\ IsCall(read),
           read.store = "control", errors \subseteq Named,
           route.query \subseteq Named \union Unanswered, route.errors = <<>>, route.cleanup = <<>>,
           route.scope = "operator"
    PROVE  RouteFits(route)
<1>1. Answered(route) = Named /\ DOMAIN route.errors = {}
  BY NoCalls DEF Answered, Named
<1>2. Sequence(<<read>>) /\ Careful(<<read>>, Named) /\ RaisesAmong(<<read>>, Named \union Unanswered)
  BY Plan1
<1>3. \A i \in DOMAIN <<read>> : <<read>>[i].store # "tenant"
  OBVIOUS
<1> QED BY <1>1, <1>2, <1>3, NoCalls DEF RouteFits

(* The routes of the control plane's audit. *)
LEMMA PlatformAuditFits == RouteFits(GetPlatformAuditEvent) /\ RouteFits(ListPlatformAuditEvents)
<1>1. RouteFits(GetPlatformAuditEvent)
  <2> DEFINE route == GetPlatformAuditEvent
             read == Raising(CallIn("control"), {"AuditEventNotFound"})
  <2>1. /\ route.scope = "operator" /\ route.plans = {<<read>>} /\ route.query = {} /\ route.errors = <<>> /\ route.cleanup = <<>>
    BY ChosenStores DEF GetPlatformAuditEvent, ForOperator, GET, Found
  <2>2. read.raises = {"AuditEventNotFound"} /\ IsCall(read) /\ read.store = "control"
    BY RaisingCalls DEF CallIs
  <2> HIDE DEF route, read
  <2>3. RouteFits(route)
    BY <2>1, <2>2, OperatorRouteFits, NamedErrors
  <2> QED BY <2>3 DEF route
<1>2. RouteFits(ListPlatformAuditEvents)
  <2> DEFINE route == ListPlatformAuditEvents
             read == CallIn("control")
  <2>1. /\ route.plans = {<<read>>} /\ route.query = AuditListQuery /\ route.errors = <<>>
        /\ route.cleanup = <<>> /\ route.scope = "operator"
    BY ChosenStores DEF ListPlatformAuditEvents, ForOperator, QueryFirst, GET
  <2>2. read.raises = {} /\ IsCall(read) /\ read.store = "control"
    BY ChosenStores DEF CallIs
  <2> HIDE DEF route, read
  <2>3. RouteFits(route)
    BY <2>1, <2>2, OperatorRouteFits, NamedErrors
  <2> QED BY <2>3 DEF route
<1> QED BY <1>1, <1>2

(* A tenant's read that is found or not, and one that lists. *)
LEMMA ReadRoutesFit ==
    ASSUME NEW needs, NEW error \in Named, NEW errors, errors \subseteq Named
    PROVE  /\ RouteFits(GET(needs, Found(Read, error)))
           /\ RouteFits(GET(needs, Listed(errors, Read)))
           /\ RouteFits(GET(needs, {<<Read>>})) /\ RouteFits(GET(needs, {<<Embedded>>}))
           /\ \A query : query \subseteq Named \union Unanswered
                         => RouteFits(QueryFirst(GET(needs, {<<Read>>}), query))
<1>1. PlansFit(Found(Read, error), {error}, {})
  BY FoundFits, RaisingCalls
<1>2. PlansFit(Listed(errors, Read), errors, {})
  BY ListedFits, CallsAre DEF CallIs
<1>3. PlansFit({<<Read>>}, {}, {}) /\ PlansFit({<<Embedded>>}, {}, {})
  <2> DEFINE r == Read
             m == Embedded
  <2>1. r.raises = {} /\ IsCall(r) /\ m.raises = {} /\ IsCall(m)
    BY CallsAre DEF CallIs
  <2> HIDE DEF r, m
  <2>2. PlansFit({<<r>>}, {}, {}) /\ PlansFit({<<m>>}, {}, {})
    BY <2>1, Plan1 DEF PlansFit
  <2> QED BY <2>2 DEF r, m
<1> QED BY <1>1, <1>2, <1>3, GetFits

(* The routes that write. *)
LEMMA WriteRoutesFit ==
    ASSUME NEW needs
    PROVE  /\ RouteFits(GET(needs, CreatePlans)) /\ RouteFits(GET(needs, AppendPlans))
           /\ RouteFits(GET(needs, FinalizePlans)) /\ RouteFits(GET(needs, TransitionPlans))
  BY CreateFits, AppendFits, FinalizeFits, TransitionFits, GetFits, NamedErrors

(* The routes that start runs. *)
LEMMA StartedRunsFit == RouteFits(StartEvaluationRun) /\ RouteFits(StartOptimizationRun)
<1>1. RouteFits(StartEvaluationRun)
  <2> DEFINE route == StartEvaluationRun
  <2>1. /\ route.plans = EvaluationPlans /\ route.query = {} /\ route.errors = <<>>
        /\ route.cleanup = EvaluationCleanup /\ route.scope = "tenant"
    BY DEF StartEvaluationRun, POST, GET
  <2> HIDE DEF route
  <2>2. RouteFits(route)
    <3> DEFINE errors == {"GoldSetNotFound", "GoldSetMissingFinalizedRevision"}
    <3>1. PlansFit(route.plans, errors, {}) /\ errors \subseteq Named \union Unanswered
      BY <2>1, EvaluationFits, NamedErrors
    <3> HIDE DEF errors
    <3> QED BY <2>1, <3>1, TenantRouteFits
  <2> QED BY <2>2 DEF route
<1>2. RouteFits(StartOptimizationRun)
  <2> DEFINE route == StartOptimizationRun
  <2>1. /\ route.plans = OptimizationPlans /\ route.query = {} /\ route.errors = <<>>
        /\ route.cleanup = OptimizationCleanup /\ route.scope = "tenant"
    BY DEF StartOptimizationRun, POST, GET
  <2> HIDE DEF route
  <2>2. RouteFits(route)
    BY <2>1, OptimizationFits, TenantRouteFits
  <2> QED BY <2>2 DEF route
<1> QED BY <1>1, <1>2

(* The route that invokes an agent. *)
LEMMA InvokeAgentFits == RouteFits(InvokeAgent)
<1> DEFINE route == InvokeAgent
<1>1. /\ route.plans = InvokePlans /\ route.query = {} /\ route.errors = <<>>
      /\ route.cleanup = <<>> /\ route.scope = "tenant"
  BY DEF InvokeAgent, POST, GET
<1> HIDE DEF route
<1>2. RouteFits(route)
  BY <1>1, InvokeFits, TenantRouteFits
<1> QED BY <1>2 DEF route

(* The route that writes an audit event on demand. *)
LEMMA TestEventFits == RouteFits(WriteTestAuditEvent)
<1> DEFINE route == WriteTestAuditEvent
           e == AuditPort("tenant").emit
<1>1. /\ route.plans = {<<e>>} /\ route.query = {} /\ route.errors = <<>>
      /\ route.cleanup = <<>> /\ route.scope = "role"
  BY DEF WriteTestAuditEvent, POST, GET
<1>2. e.raises = {} /\ IsCall(e)
  BY ChosenStores DEF CallIs
<1> HIDE DEF route, e
<1>3. PlansFit(route.plans, {}, {})
  BY <1>1, <1>2, Plan1 DEF PlansFit
<1>4. RouteFits(route)
  BY <1>1, <1>3, TenantRouteFits
<1> QED BY <1>4 DEF route

(* The one route whose handler answers its errors itself. *)
LEMMA CompletionsFits == RouteFits(Completions)
<1> DEFINE route == Completions
           errors == {"InferenceConfigurationError", "InferenceTimeout", "InferenceUnavailable"}
           a == Raising(Provider, errors)
<1>1. /\ route.plans = {<<a>>} /\ route.query = {} /\ route.cleanup = <<>> /\ route.scope = "tenant"
      /\ DOMAIN route.errors = errors
      /\ \A e \in errors : route.errors[e] \in {400, 503, 504}
  BY DEF Completions, POST, GET
<1>2. a.raises = errors /\ IsCall(a)
  BY RaisingCalls DEF CallIs
<1>3. errors \subseteq Answered(route)
  BY <1>1 DEF Answered
<1> HIDE DEF route, a, errors
<1>4. Sequence(<<a>>) /\ Careful(<<a>>, Answered(route))
      /\ RaisesAmong(<<a>>, Answered(route) \union Unanswered)
  BY <1>2, <1>3, Plan1
<1>5. RouteFits(route)
  BY <1>1, <1>4, NoCalls DEF RouteFits
<1> QED BY <1>5 DEF route

(* Every route of the API fits. *)
LEMMA RoutesFit == ASSUME NEW route \in Routes PROVE RouteFits(route)
<1> DEFINE needs == route.needs
<1>1. RouteFits(GetRun) /\ RouteFits(ListRuns)
  BY ReadRoutesFit, NamedErrors DEF GetRun, ListRuns, RunHistoryReader
<1>2. RouteFits(GetTenantAuditEvent) /\ RouteFits(ListTenantAuditEvents)
  BY ReadRoutesFit, NamedErrors, ChosenStores DEF GetTenantAuditEvent, ListTenantAuditEvents
<1>3. RouteFits(GetSource) /\ RouteFits(GetSourceStatus) /\ RouteFits(ListSources)
  BY ReadRoutesFit, NamedErrors DEF GetSource, GetSourceStatus, ListSources, SourceListQuery, SourceRepository
<1>4. /\ RouteFits(CreateGoldSet) /\ RouteFits(AppendGoldSetEntry) /\ RouteFits(FinalizeGoldSetRevision)
      /\ RouteFits(Transition)
  BY WriteRoutesFit DEF CreateGoldSet, AppendGoldSetEntry, FinalizeGoldSetRevision, Transition, POST
<1>5. /\ RouteFits(ListGoldSets) /\ RouteFits(GetGoldSet) /\ RouteFits(ListRetrievalCandidates)
  BY ReadRoutesFit, NamedErrors DEF ListGoldSets, GetGoldSet, ListRetrievalCandidates, GoldSetReader, RetrievalClient
<1>6. /\ RouteFits(ListEvaluationRuns) /\ RouteFits(GetEvaluationRun)
  BY ReadRoutesFit, NamedErrors DEF ListEvaluationRuns, GetEvaluationRun, EvaluationRunReader
<1>7. /\ RouteFits(ListOptimizationRuns) /\ RouteFits(GetOptimizationRun)
  BY ReadRoutesFit, NamedErrors DEF ListOptimizationRuns, GetOptimizationRun, OptimizationRunReader
<1>8. /\ RouteFits(ListRecommendations) /\ RouteFits(GetRecommendation)
  BY ReadRoutesFit, NamedErrors DEF ListRecommendations, GetRecommendation, RecommendationReader
<1> QED BY <1>1, <1>2, <1>3, <1>4, <1>5, <1>6, <1>7, <1>8, PlatformAuditFits, StartedRunsFit,
          InvokeAgentFits, TestEventFits, CompletionsFits
       DEF Routes, GetSourceStatus, AcknowledgeRecommendation, ApplyRecommendation, RejectRecommendation

(* What an error of a route becomes. *)
LEMMA Statuses ==
    ASSUME NEW route \in Routes, NEW e
    PROVE  /\ e \in Answered(route) => StatusOf(route, e) \in (400..499) \union {503, 504}
           /\ e \in Unanswered \ Answered(route) => StatusOf(route, e) = 500
<1>1. ASSUME NEW d \in Named PROVE HandlerStatus(d) \in {400, 403, 404, 409, 422}
  BY <1>1 DEF Named, HandlerStatus, AuthHandlers, RunHistoryHandlers, AuditHandlers, IngestionHandlers,
         RetrievalEvaluationHandlers, OptimizationHandlers, SharedHandlers, RegisteredErrors,
         RegisterRunHistory, RegisterAudit, RegisterIngestion, RegisterRetrievalEvaluation,
         RegisterOptimization
<1>2. RouteFits(route)
  BY RoutesFit
<1>3. "BoundTenantIdMismatch" \notin Unanswered
  BY DEF Unanswered, MixedZones
<1>4. \A d \in DOMAIN route.errors : route.errors[d] \in {400, 503, 504}
  BY <1>2 DEF RouteFits
<1>5. CASE e \in DOMAIN route.errors
  BY <1>4, <1>5 DEF StatusOf, Answered
<1>6. CASE e \notin DOMAIN route.errors
  <2>1. e \in Answered(route) => e \in Named /\ e \in RegisteredErrors
    BY <1>6 DEF Answered, Named
  <2>2. e \in Unanswered \ Answered(route) => e \notin RegisteredErrors
    BY <1>3 DEF Answered
  <2> QED BY <1>1, <1>6, <2>1, <2>2 DEF StatusOf
<1> QED BY <1>5, <1>6

(* A command fits when its plans, its cleanup and its engines do. *)
LEMMA CommandFrom ==
    ASSUME NEW command, NEW errors, NEW late, PlansFit(command.plans, errors, late),
           DOMAIN command.exits \intersect late = {},
           \A e \in DOMAIN command.exits : command.exits[e] \in {1, 2, 3},
           command.opens \in Seq(Stores), command.rejects \subseteq {1, 2},
           command.cleanup \in {<<>>, EvaluationCleanup, OptimizationCleanup}
    PROVE  CommandFits(command)
  BY NoCalls, CleanupsFit DEF CommandFits, PlansFit, RaisesAmong

(* The engines a command opens. *)
LEMMA Openings ==
    /\ Tenant \in Seq(Stores) /\ ControlPlane \in Seq(Stores) /\ ControlPlane \o Tenant \in Seq(Stores)
    /\ ControlPlane \o ControlPlane \o Tenant \in Seq(Stores)
    /\ <<"graph">> \o Tenant \in Seq(Stores) /\ <<"provider">> \o Tenant \in Seq(Stores)
<1>0. ASSUME NEW s \in Stores PROVE <<s>> \in Seq(Stores)
  OBVIOUS
<1>2. "graph" \in Stores /\ "provider" \in Stores /\ "tenant" \in Stores /\ "control" \in Stores
  BY DEF Stores
<1>1. <<"graph">> \in Seq(Stores) /\ <<"provider">> \in Seq(Stores) /\ Tenant \in Seq(Stores)
      /\ ControlPlane \in Seq(Stores)
  BY <1>0, <1>2 DEF Tenant, ControlPlane
<1> QED BY <1>1

(* The commands that catch nothing. *)
LEMMA PlainCommandsFit ==
    ASSUME NEW plans, NEW errors, PlansFit(plans, errors, {})
    PROVE  /\ CommandFits(TenantCommand(plans)) /\ CommandFits(Configured(TenantCommand(plans)))
           /\ CommandFits(CatalogueCommand(plans))
           /\ CommandFits(Configured(CatalogueCommand(plans)))
           /\ CommandFits(Audited(TenantCommand(plans)))
           /\ CommandFits(Audited(Configured(TenantCommand(plans))))
           /\ CommandFits([TenantCommand(plans) EXCEPT !.rejects = {1, 2}])
           /\ CommandFits([TenantCommand(plans) EXCEPT !.rejects = {1, 2}, !.opens = <<"graph">> \o Tenant])
           /\ CommandFits([TenantCommand(plans) EXCEPT !.rejects = {1, 2},
                                                       !.opens = <<"provider">> \o Tenant])
<1> DEFINE Plain(c, opens) ==
        /\ c.plans = plans /\ c.exits = <<>> /\ c.opens = opens /\ c.rejects \subseteq {1, 2}
        /\ c.cleanup = <<>>
<1>1. ASSUME NEW c, NEW opens \in Seq(Stores), Plain(c, opens) PROVE CommandFits(c)
  BY <1>1, CommandFrom, NoCalls
<1>2. Plain(TenantCommand(plans), Tenant) /\ Plain(Configured(TenantCommand(plans)), Tenant)
  BY DEF TenantCommand, Configured
<1>3. /\ Plain(CatalogueCommand(plans), ControlPlane)
      /\ Plain(Configured(CatalogueCommand(plans)), ControlPlane)
  BY DEF TenantCommand, CatalogueCommand, Configured
<1>4. /\ Plain(Audited(TenantCommand(plans)), ControlPlane \o Tenant)
      /\ Plain(Audited(Configured(TenantCommand(plans))), ControlPlane \o Tenant)
  BY DEF TenantCommand, Configured, Audited
<1>5. /\ Plain([TenantCommand(plans) EXCEPT !.rejects = {1, 2}], Tenant)
      /\ Plain([TenantCommand(plans) EXCEPT !.rejects = {1, 2}, !.opens = <<"graph">> \o Tenant],
               <<"graph">> \o Tenant)
      /\ Plain([TenantCommand(plans) EXCEPT !.rejects = {1, 2}, !.opens = <<"provider">> \o Tenant],
               <<"provider">> \o Tenant)
  BY DEF TenantCommand
<1> HIDE DEF Plain
<1> QED BY <1>1, <1>2, <1>3, <1>4, <1>5, Openings

(* Those that give some errors a code of their own. *)
LEMMA ExitingCommandsFit ==
    ASSUME NEW plans, NEW errors, NEW late, PlansFit(plans, errors, late),
           NEW exits, DOMAIN exits \intersect late = {},
           \A e \in DOMAIN exits : exits[e] \in {1, 2, 3}
    PROVE  /\ CommandFits(Exiting(TenantCommand(plans), exits))
           /\ CommandFits(Exiting(CatalogueCommand(plans), exits))
           /\ CommandFits(Exiting(Configured(CatalogueCommand(plans)), exits))
           /\ CommandFits(Exiting(Audited(TenantCommand(plans)), exits))
           /\ CommandFits([Exiting(TenantCommand(plans), exits) EXCEPT !.rejects = {1, 2}])
           /\ CommandFits([Exiting(TenantCommand(plans), exits) EXCEPT !.opens = <<>>])
           /\ CommandFits([Exiting(Audited(TenantCommand(plans)), exits)
                           EXCEPT !.cleanup = EvaluationCleanup])
<1> DEFINE Caught(c, opens, cleanup) ==
        /\ c.plans = plans /\ c.exits = exits /\ c.opens = opens /\ c.rejects \subseteq {1, 2}
        /\ c.cleanup = cleanup
<1>1. ASSUME NEW c, NEW opens \in Seq(Stores), NEW cleanup \in {<<>>, EvaluationCleanup},
             Caught(c, opens, cleanup)
      PROVE  CommandFits(c)
  BY <1>1, CommandFrom
<1>2. Caught(Exiting(TenantCommand(plans), exits), Tenant, <<>>)
  BY DEF TenantCommand, Exiting
<1>3. /\ Caught(Exiting(CatalogueCommand(plans), exits), ControlPlane, <<>>)
      /\ Caught(Exiting(Configured(CatalogueCommand(plans)), exits), ControlPlane, <<>>)
  BY DEF TenantCommand, CatalogueCommand, Configured, Exiting
<1>4. /\ Caught(Exiting(Audited(TenantCommand(plans)), exits), ControlPlane \o Tenant, <<>>)
      /\ Caught([Exiting(Audited(TenantCommand(plans)), exits) EXCEPT !.cleanup = EvaluationCleanup],
                ControlPlane \o Tenant, EvaluationCleanup)
  BY DEF TenantCommand, Audited, Exiting
<1>5. /\ Caught([Exiting(TenantCommand(plans), exits) EXCEPT !.rejects = {1, 2}], Tenant, <<>>)
      /\ Caught([Exiting(TenantCommand(plans), exits) EXCEPT !.opens = <<>>], <<>>, <<>>)
  BY DEF TenantCommand, Exiting
<1> HIDE DEF Caught
<1> QED BY <1>1, <1>2, <1>3, <1>4, <1>5, Openings, NoCalls

(* An update, of the control plane or of a tenant, and what a command without a
   name for its errors does otherwise. *)
LEMMA UpdatesFit ==
    /\ PlansFit(UpdatePlans(ControlRead, ControlWrite), {"LookupError", "ValueError"}, {})
    /\ PlansFit(UpdatePlans(Read, Write), {"LookupError", "ValueError"}, {})
<1>1. ASSUME NEW a, NEW d, NEW w, a.raises = {"LookupError"}
                /\ IsCall(a), ~a.writes, d.raises = {"ValueError"} /\ IsCall(d),
             ~d.writes, w.raises = {} /\ IsCall(w)
      PROVE  PlansFit({<<a, d, w>>}, {"LookupError", "ValueError"}, {})
  BY <1>1, Plan3 DEF PlansFit
<1> DEFINE a == Raising(ControlRead, {"LookupError"})
           b == Raising(Read, {"LookupError"})
           d == Decide({"ValueError"})
<1>2. /\ a.raises = {"LookupError"} /\ IsCall(a) /\ ~a.writes /\ d.raises = {"ValueError"}
                /\ IsCall(d) /\ ~d.writes
      /\ b.raises = {"LookupError"} /\ IsCall(b) /\ ~b.writes /\ ControlWrite.raises = {}
                /\ IsCall(ControlWrite) /\ Write.raises = {} /\ IsCall(Write)
  BY RaisingCalls, CallsAre DEF CallIs
<1>3. /\ UpdatePlans(ControlRead, ControlWrite) = {<<a, d, ControlWrite>>}
      /\ UpdatePlans(Read, Write) = {<<b, d, Write>>}
  BY DEF UpdatePlans
<1> HIDE DEF a, b, d
<1> QED BY <1>1, <1>2, <1>3

(* Commands that check before they write. *)
LEMMA DecidedWritesFit ==
    ASSUME NEW errors
    PROVE  /\ PlansFit({<<Decide(errors), ControlWrite>>}, errors, {})
           /\ PlansFit({<<Decide(errors), Write>>}, errors, {})
           /\ PlansFit({<<Raising(ControlWrite, errors)>>}, errors, {})
           /\ PlansFit({<<Raising(Write, errors)>>}, errors, {})
           /\ PlansFit({<<Raising(Provider, errors)>>}, errors, {})
<1>1. ASSUME NEW a, NEW w, a.raises = errors /\ IsCall(a), ~a.writes, w.raises = {} /\ IsCall(w)
      PROVE  PlansFit({<<a, w>>}, errors, {})
  BY <1>1, Plan2 DEF PlansFit
<1>2. ASSUME NEW a, a.raises = errors /\ IsCall(a) PROVE PlansFit({<<a>>}, errors, {})
  BY <1>2, Plan1 DEF PlansFit
<1>3. /\ Decide(errors).raises = errors
                /\ IsCall(Decide(errors)) /\ ~Decide(errors).writes /\ ControlWrite.raises = {}
                /\ IsCall(ControlWrite)
      /\ Write.raises = {} /\ IsCall(Write) /\ Raising(ControlWrite, errors).raises = errors
                /\ IsCall(Raising(ControlWrite, errors))
      /\ Raising(Write, errors).raises = errors
                /\ IsCall(Raising(Write, errors)) /\ Raising(Provider, errors).raises = errors
                /\ IsCall(Raising(Provider, errors))
  BY RaisingCalls, CallsAre DEF CallIs
<1> QED BY <1>1, <1>2, <1>3

(* Plans of which no call raises anything. *)
LEMMA SilentPlansFit ==
    /\ PlansFit({<<ControlRead>>}, {}, {}) /\ PlansFit({<<Read>>}, {}, {})
    /\ PlansFit(RunWorker, {}, {}) /\ PlansFit(RunSearch, {}, {}) /\ PlansFit(RunTraverse, {}, {})
    /\ PlansFit(RunEval, {}, {}) /\ PlansFit(RunReport, {}, {})
<1>0. ASSUME NEW a, NEW b, NEW c, NEW d, NEW e, a.raises = {} /\ IsCall(a), b.raises = {}
                /\ IsCall(b), c.raises = {} /\ IsCall(c),
             d.raises = {} /\ IsCall(d), e.raises = {} /\ IsCall(e)
      PROVE  /\ PlansFit({<<a>>}, {}, {}) /\ PlansFit({<<a, b>>}, {}, {})
             /\ PlansFit({<<a>>, <<a, b, a>>, <<a, b, c, a>>}, {}, {})
             /\ PlansFit({<<a, b, c, d, e>>}, {}, {})
  BY <1>0, Plan1, Plan2, Plan3, Plan4, Plan5 DEF PlansFit
<1>1. /\ ControlRead.raises = {} /\ IsCall(ControlRead) /\ Read.raises = {}
                /\ IsCall(Read) /\ Write.raises = {} /\ IsCall(Write) /\ Provider.raises = {}
                /\ IsCall(Provider)
      /\ Graph.raises = {} /\ IsCall(Graph) /\ Embedded.raises = {} /\ IsCall(Embedded)
  BY CallsAre DEF CallIs
<1>2. /\ RunWorker = {<<Write>>, <<Write, Provider, Write>>, <<Write, Provider, Graph, Write>>}
      /\ RunSearch = {<<Embedded>>} /\ RunTraverse = {<<Read, Graph>>}
      /\ RunEval = {<<Read, Provider, Write, Provider, Read>>} /\ RunReport = {<<Read, Provider>>}
  BY DEF RunWorker, RunSearch, RunTraverse, RunEval, RunReport, RetrievalClient
<1>3. PlansFit({<<ControlRead>>}, {}, {}) /\ PlansFit({<<Read>>}, {}, {}) /\ PlansFit({<<Embedded>>}, {}, {})
  BY <1>0, <1>1
<1>4. PlansFit({<<Read, Graph>>}, {}, {}) /\ PlansFit({<<Read, Provider>>}, {}, {})
  BY <1>0, <1>1
<1>5. PlansFit({<<Write>>, <<Write, Provider, Write>>, <<Write, Provider, Graph, Write>>}, {}, {})
  BY <1>0, <1>1
<1>6. PlansFit({<<Read, Provider, Write, Provider, Read>>}, {}, {})
  BY <1>0, <1>1
<1> QED BY <1>2, <1>3, <1>4, <1>5, <1>6

(* Commands that create. *)
LEMMA CreationsFit ==
    /\ PlansFit(CreateFromRole, {"LookupError", "SourceNotFoundError"}, {})
    /\ PlansFit(CreateFromMethodology, {"LookupError", "SourceNotFoundError"}, {})
<1> DEFINE a == Raising(Read, {"SourceNotFoundError"})
           k == Lookup
           w == Write
<1>1. /\ a.raises = {"SourceNotFoundError"} /\ IsCall(a) /\ ~a.writes
                /\ k.raises = {"LookupError"} /\ IsCall(k) /\ ~k.writes
      /\ w.raises = {} /\ IsCall(w)
  BY RaisingCalls, CallsAre DEF CallIs, Lookup
<1>2. /\ CreateFromRole = {<<k>> \o <<a, w>>} /\ CreateFromMethodology = {<<k, k>> \o <<a, w>>}
  BY DEF CreateFromRole, CreateFromMethodology, CreateFrom, SourceLookup
<1> HIDE DEF a, k, w
<1> DEFINE errors == {"LookupError", "SourceNotFoundError"}
<1>3. /\ Sequence(<<k>>) /\ RaisesAmong(<<k>>, errors) /\ \A named : Careful(<<k>>, named)
      /\ Sequence(<<k, k>>) /\ RaisesAmong(<<k, k>>, errors) /\ \A named : Careful(<<k, k>>, named)
      /\ Sequence(<<a, w>>) /\ RaisesAmong(<<a, w>>, errors) /\ \A named : Careful(<<a, w>>, named)
  BY <1>1, Plan1, Plan2
<1>4. /\ \A i \in DOMAIN <<k>> : ~<<k>>[i].writes
      /\ \A i \in DOMAIN <<k, k>> : ~<<k, k>>[i].writes
  BY <1>1
<1>5. /\ Sequence(<<k>> \o <<a, w>>) /\ RaisesAmong(<<k>> \o <<a, w>>, errors)
      /\ \A named : Careful(<<k>> \o <<a, w>>, named)
  BY <1>3, <1>4, PlansJoined
<1>6. /\ Sequence(<<k, k>> \o <<a, w>>) /\ RaisesAmong(<<k, k>> \o <<a, w>>, errors)
      /\ \A named : Careful(<<k, k>> \o <<a, w>>, named)
  BY <1>3, <1>4, PlansJoined
<1> QED BY <1>2, <1>5, <1>6 DEF PlansFit

(* Before it appends, the command searches and lets its user choose. *)
LEMMA ChosenAppendFits ==
    PlansFit({<<RetrievalClient.search_vector, Decide({"NoCandidates", "BadParameter"})>> \o p
              : p \in AppendPlans},
             {"NoCandidates", "BadParameter", Blanks, "GoldSetNotFound"}, {Blanks})
<1> DEFINE a == RetrievalClient.search_vector
           d == Decide({"NoCandidates", "BadParameter"})
           errors == {"NoCandidates", "BadParameter", Blanks, "GoldSetNotFound"}
<1>1. a.raises = {} /\ IsCall(a) /\ ~a.writes /\ d.raises = {"NoCandidates", "BadParameter"}
                /\ IsCall(d) /\ ~d.writes
  BY RaisingCalls, CallsAre DEF CallIs, RetrievalClient
<1> HIDE DEF a, d
<1>2. /\ Sequence(<<a, d>>) /\ RaisesAmong(<<a, d>>, errors) /\ \A named : Careful(<<a, d>>, named)
  BY <1>1, Plan2
<1>3. \A i \in DOMAIN <<a, d>> : ~<<a, d>>[i].writes
  BY <1>1
<1> SUFFICES ASSUME NEW p \in AppendPlans
             PROVE  /\ Sequence(<<a, d>> \o p) /\ RaisesAmong(<<a, d>> \o p, errors)
                    /\ \A named : named \intersect {Blanks} = {} => Careful(<<a, d>> \o p, named)
  BY DEF PlansFit, a, d
<1>4. /\ Sequence(p) /\ RaisesAmong(p, errors)
      /\ \A named : named \intersect {Blanks} = {} => Careful(p, named)
  BY AppendFits DEF PlansFit, RaisesAmong
<1> QED BY <1>2, <1>3, <1>4, PlansJoined

(* The commands of the catalogue. *)
LEMMA CatalogueCommandsFit ==
    /\ CommandFits(RoleCreate) /\ CommandFits(RoleGet) /\ CommandFits(RoleList)
    /\ CommandFits(RoleUpdate) /\ CommandFits(RoleArchive)
    /\ CommandFits(MethodologyCreate) /\ CommandFits(MethodologyGet) /\ CommandFits(MethodologyList)
    /\ CommandFits(MethodologyUpdate) /\ CommandFits(MethodologyRetire)
    /\ CommandFits(ToolCreate) /\ CommandFits(ToolGet) /\ CommandFits(ToolList)
<1>1. /\ PlansFit(CreateRole, {"ValueError"}, {}) /\ PlansFit(GetRole, {"LookupError"}, {})
      /\ PlansFit(ListRoles, {}, {}) /\ PlansFit(UpdateRole, {"LookupError", "ValueError"}, {})
      /\ PlansFit(ArchiveRole, {"LookupError"}, {})
  BY DecidedWritesFit, FoundFits, RaisingCalls, SilentPlansFit, UpdatesFit
     DEF CreateRole, GetRole, ListRoles, UpdateRole, ArchiveRole
<1>2. /\ PlansFit(CreateTool, {"ClassificationProhibited"}, {}) /\ PlansFit(GetTool, {"ToolNotFound"}, {})
      /\ PlansFit(ListTools, {}, {})
  BY DecidedWritesFit, FoundFits, RaisingCalls, SilentPlansFit DEF CreateTool, GetTool, ListTools
<1>3. CommandFits(ToolCreate)
  <2> DEFINE exits == [ClassificationProhibited |-> 2]
  <2>1. DOMAIN exits \intersect {} = {} /\ \A e \in DOMAIN exits : exits[e] \in {1, 2, 3}
    OBVIOUS
  <2> HIDE DEF exits
  <2>2. CommandFits(Exiting(Configured(CatalogueCommand(CreateTool)), exits))
    BY <1>2, <2>1, ExitingCommandsFit
  <2> QED BY <2>2 DEF ToolCreate, exits
<1>4. CommandFits(ToolGet)
  <2> DEFINE exits == [ToolNotFound |-> 1]
  <2>1. DOMAIN exits \intersect {} = {} /\ \A e \in DOMAIN exits : exits[e] \in {1, 2, 3}
    OBVIOUS
  <2> HIDE DEF exits
  <2>2. CommandFits(Exiting(CatalogueCommand(GetTool), exits))
    BY <1>2, <2>1, ExitingCommandsFit
  <2> QED BY <2>2 DEF ToolGet, exits
<1>5. CommandFits(ToolList)
  BY <1>2, PlainCommandsFit DEF ToolList
<1>6. /\ CommandFits(RoleCreate) /\ CommandFits(RoleGet) /\ CommandFits(RoleList)
      /\ CommandFits(RoleUpdate) /\ CommandFits(RoleArchive)
  BY <1>1, PlainCommandsFit DEF RoleCreate, RoleGet, RoleList, RoleUpdate, RoleArchive
<1>7. /\ CommandFits(MethodologyCreate) /\ CommandFits(MethodologyGet) /\ CommandFits(MethodologyList)
      /\ CommandFits(MethodologyUpdate) /\ CommandFits(MethodologyRetire)
  BY <1>1, PlainCommandsFit
     DEF MethodologyCreate, MethodologyGet, MethodologyList, MethodologyUpdate, MethodologyRetire,
         CreateMethodology, GetMethodology, ListMethodologies, UpdateMethodology, RetireMethodology
<1> QED BY <1>3, <1>4, <1>5, <1>6, <1>7

(* The commands about agents. *)
LEMMA AgentCommandsFit ==
    /\ CommandFits(AgentCreate) /\ CommandFits(AgentGet) /\ CommandFits(AgentList)
    /\ CommandFits(AgentUpdate) /\ CommandFits(AgentArchive)
    /\ CommandFits(AgentCreateFromMethodology) /\ CommandFits(AgentCreateFromRole)
    /\ CommandFits(AgentRunCommand)
<1>1. /\ PlansFit(CreateAgent, {"ValueError"}, {}) /\ PlansFit(GetAgent, {"LookupError"}, {})
      /\ PlansFit(ListAgents, {}, {}) /\ PlansFit(UpdateAgent, {"LookupError", "ValueError"}, {})
      /\ PlansFit(ArchiveAgent, {"LookupError"}, {})
  BY DecidedWritesFit, FoundFits, RaisingCalls, SilentPlansFit, UpdatesFit
     DEF CreateAgent, GetAgent, ListAgents, UpdateAgent, ArchiveAgent
<1>2. /\ CommandFits(AgentCreate) /\ CommandFits(AgentGet) /\ CommandFits(AgentList)
      /\ CommandFits(AgentUpdate) /\ CommandFits(AgentArchive)
  BY <1>1, PlainCommandsFit DEF AgentCreate, AgentGet, AgentList, AgentUpdate, AgentArchive
<1>3. CommandFits(AgentCreateFromRole)
  BY CreationsFit, PlainCommandsFit DEF AgentCreateFromRole
<1>4. CommandFits(AgentCreateFromMethodology)
  <2> DEFINE c == AgentCreateFromMethodology
  <2>1. /\ c.plans = CreateFromMethodology /\ c.exits = <<>> /\ c.rejects = {1} \union {2}
        /\ c.opens = ControlPlane \o ControlPlane \o Tenant /\ c.cleanup = <<>>
    BY DEF AgentCreateFromMethodology, Configured, TenantCommand
  <2> HIDE DEF c
  <2>2. CommandFits(c)
    BY <2>1, CreationsFit, Openings, CommandFrom, NoCalls
  <2> QED BY <2>2 DEF c
<1>5. CommandFits(AgentRunCommand)
  <2> DEFINE exits == StreamRenderer
  <2>1. DOMAIN exits \intersect {} = {} /\ \A e \in DOMAIN exits : exits[e] \in {1, 2, 3}
    BY DEF StreamRenderer
  <2>2. PlansFit(RunInvocation, DOMAIN exits, {})
    BY DecidedWritesFit DEF RunInvocation
  <2> HIDE DEF exits
  <2>3. CommandFits([Exiting(TenantCommand(RunInvocation), exits) EXCEPT !.opens = <<>>])
    BY <2>1, <2>2, ExitingCommandsFit
  <2> QED BY <2>3 DEF AgentRunCommand, exits
<1> QED BY <1>2, <1>3, <1>4, <1>5

(* The commands about evaluations. *)
LEMMA EvaluationCommandsFit ==
    /\ CommandFits(GoldSetCreate) /\ CommandFits(GoldSetAppend) /\ CommandFits(GoldSetList)
    /\ CommandFits(GoldSetGet) /\ CommandFits(GoldSetFinalize)
    /\ CommandFits(EvaluationRunStart) /\ CommandFits(EvaluationRunGet)
    /\ CommandFits(EvaluationRunList)
<1>1. CommandFits(GoldSetCreate)
  BY CreateFits, PlainCommandsFit DEF GoldSetCreate
<1>2. CommandFits(GoldSetList) /\ CommandFits(EvaluationRunList)
  BY ListedFits, CallsAre, PlainCommandsFit
     DEF GoldSetList, EvaluationRunList, GoldSetReader, EvaluationRunReader, CallIs
<1>3. CommandFits(GoldSetAppend)
  <2> DEFINE exits == [NoCandidates |-> 1, BadParameter |-> 2, GoldSetNotFound |-> 2]
  <2>1. DOMAIN exits \intersect {Blanks} = {} /\ \A e \in DOMAIN exits : exits[e] \in {1, 2, 3}
    BY DEF Blanks
  <2> HIDE DEF exits
  <2> QED BY <2>1, ChosenAppendFits, ExitingCommandsFit DEF GoldSetAppend, exits
<1>4. CommandFits(GoldSetGet)
  <2> DEFINE exits == [GoldSetNotFound |-> 2]
  <2>1. DOMAIN exits \intersect {} = {} /\ \A e \in DOMAIN exits : exits[e] \in {1, 2, 3}
    OBVIOUS
  <2> HIDE DEF exits
  <2>2. PlansFit(Found(GoldSetReader.get_gold_set_with_current_revision, "GoldSetNotFound"),
                 {"GoldSetNotFound"}, {})
    BY FoundFits, RaisingCalls DEF GoldSetReader
  <2> QED BY <2>1, <2>2, ExitingCommandsFit DEF GoldSetGet, exits
<1>5. CommandFits(GoldSetFinalize)
  <2> DEFINE exits == [NoDraftToFinalize |-> 2, EmptyDraft |-> 3]
  <2>1. DOMAIN exits \intersect {} = {} /\ \A e \in DOMAIN exits : exits[e] \in {1, 2, 3}
    OBVIOUS
  <2> HIDE DEF exits
  <2> QED BY <2>1, FinalizeFits, ExitingCommandsFit DEF GoldSetFinalize, exits
<1>6. CommandFits(EvaluationRunStart)
  <2> DEFINE exits == [GoldSetNotFound |-> 2, GoldSetMissingFinalizedRevision |-> 3]
  <2>1. DOMAIN exits \intersect {} = {} /\ \A e \in DOMAIN exits : exits[e] \in {1, 2, 3}
    OBVIOUS
  <2> HIDE DEF exits
  <2> QED BY <2>1, EvaluationFits, ExitingCommandsFit DEF EvaluationRunStart, exits
<1>7. CommandFits(EvaluationRunGet)
  <2> DEFINE exits == [EvaluationRunNotFound |-> 2]
  <2>1. DOMAIN exits \intersect {} = {} /\ \A e \in DOMAIN exits : exits[e] \in {1, 2, 3}
    OBVIOUS
  <2> HIDE DEF exits
  <2>2. PlansFit(Found(EvaluationRunReader.get_run_with_results_and_aggregates, "EvaluationRunNotFound"),
                 {"EvaluationRunNotFound"}, {})
    BY FoundFits, RaisingCalls DEF EvaluationRunReader
  <2> QED BY <2>1, <2>2, ExitingCommandsFit DEF EvaluationRunGet, exits
<1> QED BY <1>1, <1>2, <1>3, <1>4, <1>5, <1>6, <1>7

(* The commands about optimization. *)
LEMMA OptimizationCommandsFit ==
    /\ CommandFits(OptimizationRun) /\ CommandFits(OptimizationGet) /\ CommandFits(OptimizationList)
    /\ CommandFits(OptimizationLifecycle) /\ CommandFits(OptimizationRunGet)
    /\ CommandFits(OptimizationRunList)
<1>1. CommandFits(OptimizationRun)
  <2> DEFINE c == OptimizationRun
  <2>1. /\ c.plans = OptimizationPlans /\ c.exits = <<>> /\ c.rejects = {1}
        /\ c.opens = ControlPlane \o Tenant /\ c.cleanup = OptimizationCleanup
    BY DEF OptimizationRun, Audited, TenantCommand
  <2> HIDE DEF c
  <2>2. CommandFits(c)
    BY <2>1, OptimizationFits, Openings, CommandFrom, NoCalls
  <2> QED BY <2>2 DEF c
<1>2. CommandFits(OptimizationGet)
  <2> DEFINE exits == [RecommendationNotFound |-> 2]
  <2>1. DOMAIN exits \intersect {} = {} /\ \A e \in DOMAIN exits : exits[e] \in {1, 2, 3}
    OBVIOUS
  <2> HIDE DEF exits
  <2>2. PlansFit(Found(RecommendationReader.get_recommendation, "RecommendationNotFound"),
                 {"RecommendationNotFound"}, {})
    BY FoundFits, RaisingCalls DEF RecommendationReader
  <2> QED BY <2>1, <2>2, ExitingCommandsFit DEF OptimizationGet, exits
<1>3. CommandFits(OptimizationRunGet)
  <2> DEFINE exits == [OptimizationRunNotFound |-> 2]
  <2>1. DOMAIN exits \intersect {} = {} /\ \A e \in DOMAIN exits : exits[e] \in {1, 2, 3}
    OBVIOUS
  <2> HIDE DEF exits
  <2>2. PlansFit(Found(OptimizationRunReader.get_optimization_run, "OptimizationRunNotFound"),
                 {"OptimizationRunNotFound"}, {})
    BY FoundFits, RaisingCalls DEF OptimizationRunReader
  <2> QED BY <2>1, <2>2, ExitingCommandsFit DEF OptimizationRunGet, exits
<1>4. CommandFits(OptimizationLifecycle)
  <2> DEFINE exits == [RecommendationNotFound |-> 2, TransitionNotPermitted |-> 3]
  <2>1. DOMAIN exits \intersect {} = {} /\ \A e \in DOMAIN exits : exits[e] \in {1, 2, 3}
    OBVIOUS
  <2> HIDE DEF exits
  <2> QED BY <2>1, TransitionFits, ExitingCommandsFit DEF OptimizationLifecycle, exits
<1>5. CommandFits(OptimizationList) /\ CommandFits(OptimizationRunList)
  BY ListedFits, CallsAre, PlainCommandsFit
     DEF OptimizationList, OptimizationRunList, RecommendationReader, OptimizationRunReader, CallIs
<1> QED BY <1>1, <1>2, <1>3, <1>4, <1>5

(* The commands that ingest. *)
LEMMA IngestCommandsFit ==
    /\ CommandFits(IngestRun) /\ CommandFits(IngestWorker) /\ CommandFits(IngestSearch)
    /\ CommandFits(IngestTraverse) /\ CommandFits(EvalRun) /\ CommandFits(EvalReport)
<1>1. CommandFits(IngestRun)
  <2> DEFINE exits == [UnsupportedFileType |-> 2]
  <2>1. DOMAIN exits \intersect {} = {} /\ \A e \in DOMAIN exits : exits[e] \in {1, 2, 3}
    OBVIOUS
  <2> HIDE DEF exits
  <2>2. PlansFit(RunIngest, {"UnsupportedFileType"}, {})
    BY DecidedWritesFit DEF RunIngest, SourceRepository
  <2> QED BY <2>1, <2>2, ExitingCommandsFit DEF IngestRun, exits
<1>2. CommandFits(IngestWorker) /\ CommandFits(IngestSearch) /\ CommandFits(IngestTraverse)
  BY SilentPlansFit, PlainCommandsFit DEF IngestWorker, IngestSearch, IngestTraverse
<1>3. CommandFits(EvalRun) /\ CommandFits(EvalReport)
  BY SilentPlansFit, PlainCommandsFit DEF EvalRun, EvalReport
<1> QED BY <1>1, <1>2, <1>3

(* Every command of the CLI fits. *)
LEMMA CommandsFit == ASSUME NEW command \in Commands PROVE CommandFits(command)
  BY CatalogueCommandsFit, AgentCommandsFit, EvaluationCommandsFit, OptimizationCommandsFit,
     IngestCommandsFit DEF Commands

-----------------------------------------------------------------------------
(* --------------------------- requests -------------------------------- *)

Refusals == (400..499) \union {2, 3}

(* The answers a plan can still lead to: a 500 is one of the known ones, and
   nothing is refused that has committed, before or on the way. *)
AnswersCareful(plan, wrote) ==
    \A i \in DOMAIN plan : IsCall(plan[i]) /\ \A a \in plan[i].raises :
        /\ a.answer = 500 => a.known
        /\ a.answer \in Refusals => ~wrote /\ \A j \in 1..(i - 1) : ~plan[j].writes

TenantCalls(plan, t) == t \in Tenants \/ \A i \in DOMAIN plan : plan[i].store # "tenant"

CallingOK(r) ==
    /\ r.state = "calls"
    /\ {"state", "tenant", "plan", "cleanup", "streams", "own", "wrote", "fault"} \subseteq DOMAIN r
    /\ Sequence(r.plan) /\ AnswersCareful(r.plan, r.wrote) /\ TenantCalls(r.plan, r.tenant)
    /\ Sequence(r.cleanup) /\ RaisesAmong(r.cleanup, {}) /\ TenantCalls(r.cleanup, r.tenant)

Honest(answer, wrote, fault) ==
    /\ answer.answer = 500 => fault \/ answer.known
    /\ answer.answer \in Refusals => ~wrote
EndedOK(r) == r.state = "ended" /\ Honest(r, r.wrote, r.fault)
ClosingOK(r) ==
    /\ r.state = "closing" /\ {"state", "own", "answer", "wrote", "fault"} \subseteq DOMAIN r
    /\ Honest(r.answer, r.wrote, r.fault)
ContextOK(r) == r.state = "context" /\ \A n \in r.next : CallingOK(n) \/ EndedOK(n)

RequestOK(r) == r = Idle \/ ContextOK(r) \/ CallingOK(r) \/ ClosingOK(r) \/ EndedOK(r)

RequestInv == req = [c \in Callers |-> req[c]] /\ \A c \in Callers : RequestOK(req[c])

(* A function over the first n numbers is a sequence. *)
LEMMA FunctionsAreSequences ==
    ASSUME NEW n \in Nat, NEW q, q = [i \in 1..n |-> q[i]]
    PROVE  Sequence(q) /\ DOMAIN q = 1..n /\ Len(q) = n
<1> DEFINE S == {q[i] : i \in 1..n}
<1>1. q \in [1..n -> S]
  OBVIOUS
<1> HIDE DEF S
<1>2. q \in Seq(S) /\ DOMAIN q = 1..n /\ Len(q) = n
  BY <1>1
<1> QED BY <1>2 DEF Sequence

(* What a sequence is: its first element and the rest. *)
LEMMA SequenceFacts ==
    ASSUME NEW p, Sequence(p)
    PROVE  /\ Len(p) \in Nat /\ DOMAIN p = 1..Len(p) /\ p = [i \in 1..Len(p) |-> p[i]]
           /\ p # <<>> => /\ Len(p) \in Nat \ {0} /\ Head(p) = p[1] /\ Sequence(Tail(p))
                          /\ DOMAIN Tail(p) = 1..(Len(p) - 1) /\ Len(Tail(p)) = Len(p) - 1
                          /\ \A i \in 1..(Len(p) - 1) : Tail(p)[i] = p[i + 1] /\ i + 1 \in 1..Len(p)
<1>1. PICK S : p \in Seq(S)
  BY DEF Sequence
<1>2. Len(p) \in Nat /\ DOMAIN p = 1..Len(p) /\ p = [i \in 1..Len(p) |-> p[i]]
  BY <1>1
<1>3. ASSUME p # <<>>
      PROVE  /\ Len(p) \in Nat \ {0} /\ Head(p) = p[1] /\ Tail(p) \in Seq(S)
             /\ DOMAIN Tail(p) = 1..(Len(p) - 1) /\ Len(Tail(p)) = Len(p) - 1
             /\ \A i \in 1..(Len(p) - 1) : Tail(p)[i] = p[i + 1] /\ i + 1 \in 1..Len(p)
  BY <1>1, <1>3
<1> QED BY <1>2, <1>3 DEF Sequence

(* The plans of a route, with the answers for its errors, are careful ones. *)
LEMMA AnsweredPlans ==
    ASSUME NEW route \in Routes, NEW p \in route.plans
    PROVE  LET q == Answering(p, route)
           IN  /\ Sequence(q) /\ AnswersCareful(q, FALSE) /\ DOMAIN q = DOMAIN p
               /\ \A i \in DOMAIN q : q[i].store = p[i].store
<1> DEFINE Answers(i) == {RouteAnswer(route, e) : e \in p[i].raises}
           q == Answering(p, route)
<1>1. /\ Sequence(p) /\ Careful(p, Answered(route))
      /\ RaisesAmong(p, Answered(route) \union Unanswered)
  BY RoutesFit DEF RouteFits
<1>2. Len(p) \in Nat /\ DOMAIN p = 1..Len(p)
  BY <1>1, SequenceFacts
<1>3. ASSUME NEW i \in DOMAIN p PROVE IsCall(p[i])
  BY <1>1, <1>3 DEF RaisesAmong
<1>4. q = [i \in DOMAIN p |-> [p[i] EXCEPT !.raises = Answers(i)]]
  BY DEF Answering
<1>5. ASSUME NEW i \in DOMAIN p
      PROVE  /\ IsCall(q[i]) /\ q[i].store = p[i].store /\ q[i].writes = p[i].writes
             /\ q[i].raises = Answers(i)
  <2> HIDE DEF q, Answers
  <2>1. q[i] = [p[i] EXCEPT !.raises = Answers(i)]
    BY <1>4
  <2> QED BY <1>3, <2>1 DEF IsCall
<1>6. q = [i \in 1..Len(p) |-> q[i]]
  BY <1>2, <1>4
<1>7. Sequence(q) /\ DOMAIN q = DOMAIN p
  <2> HIDE DEF q
  <2> QED BY <1>2, <1>6, FunctionsAreSequences
<1>8. ASSUME NEW i \in DOMAIN p, NEW a \in Answers(i)
      PROVE  /\ a.answer = 500 => a.known
             /\ a.answer \in Refusals => \A j \in 1..(i - 1) : ~q[j].writes
  <2>1. PICK e \in p[i].raises : a = RouteAnswer(route, e)
    BY <1>8
  <2>2. a.answer = StatusOf(route, e) /\ a.known = (e \in Unanswered)
    BY <2>1 DEF RouteAnswer, Answer
  <2>3. e \in Answered(route) \/ e \in Unanswered \ Answered(route)
    BY <1>1, <2>1 DEF RaisesAmong
  <2>4. /\ e \in Answered(route) => a.answer \in (400..499) \union {503, 504}
        /\ e \in Unanswered \ Answered(route) => a.answer = 500
    BY <2>2, Statuses
  <2>5. a.answer = 500 => a.known
    <3>1. a.answer = 500 => e \in Unanswered
      BY <2>3, <2>4
    <3>2. a.known = (e \in Unanswered)
      BY <2>2
    <3> QED BY <3>1, <3>2, Zenon
  <2>6. ASSUME a.answer \in Refusals, NEW j \in 1..(i - 1) PROVE ~q[j].writes
    <3>1. e \in Answered(route)
      BY <2>3, <2>4, <2>6 DEF Refusals
    <3>2. ~p[j].writes /\ j \in DOMAIN p
      BY <1>1, <1>2, <2>1, <3>1, <2>6 DEF Careful
    <3> QED BY <1>5, <3>2
  <2> QED BY <2>5, <2>6
<1> HIDE DEF q, Answers
<1>9. AnswersCareful(q, FALSE)
  BY <1>5, <1>7, <1>8 DEF AnswersCareful
<1> QED BY <1>5, <1>7, <1>9 DEF q

(* So are those of a command, with its exit codes. *)
LEMMA ExitingPlans ==
    ASSUME NEW command \in Commands, NEW p \in command.plans
    PROVE  LET q == Exits(p, command)
           IN  Sequence(q) /\ AnswersCareful(q, FALSE)
<1> DEFINE Code(e) == Answer(IF e \in DOMAIN command.exits THEN command.exits[e] ELSE 1, FALSE)
           Answers(i) == {Code(e) : e \in p[i].raises}
           q == Exits(p, command)
<1>1. /\ Sequence(p) /\ Careful(p, DOMAIN command.exits) /\ \A i \in DOMAIN p : IsCall(p[i])
      /\ \A e \in DOMAIN command.exits : command.exits[e] \in {1, 2, 3}
  BY CommandsFit DEF CommandFits
<1>2. Len(p) \in Nat /\ DOMAIN p = 1..Len(p)
  BY <1>1, SequenceFacts
<1>4. q = [i \in DOMAIN p |-> [p[i] EXCEPT !.raises = Answers(i)]]
  BY DEF Exits
<1>5. ASSUME NEW i \in DOMAIN p
      PROVE  IsCall(q[i]) /\ q[i].writes = p[i].writes /\ q[i].raises = Answers(i)
  <2> HIDE DEF q, Answers
  <2>1. q[i] = [p[i] EXCEPT !.raises = Answers(i)]
    BY <1>4
  <2> QED BY <1>1, <2>1 DEF IsCall
<1>6. q = [i \in 1..Len(p) |-> q[i]]
  BY <1>2, <1>4
<1>7. Sequence(q) /\ DOMAIN q = DOMAIN p
  <2> HIDE DEF q
  <2> QED BY <1>2, <1>6, FunctionsAreSequences
<1>8. ASSUME NEW i \in DOMAIN p, NEW a \in Answers(i)
      PROVE  /\ a.answer # 500
             /\ a.answer \in Refusals => \A j \in 1..(i - 1) : ~q[j].writes
  <2>1. PICK e \in p[i].raises : a = Code(e)
    BY <1>8
  <2>2. a.answer = IF e \in DOMAIN command.exits THEN command.exits[e] ELSE 1
    BY <2>1 DEF Answer
  <2>6. ASSUME a.answer \in Refusals, NEW j \in 1..(i - 1) PROVE ~q[j].writes
    <3>1. e \in DOMAIN command.exits
      BY <2>2, <2>6 DEF Refusals
    <3>2. ~p[j].writes /\ j \in DOMAIN p
      BY <1>1, <1>2, <2>1, <3>1, <2>6 DEF Careful
    <3> QED BY <1>5, <3>2
  <2> QED BY <1>1, <2>2, <2>6
<1> HIDE DEF q, Answers
<1>9. AnswersCareful(q, FALSE)
  BY <1>5, <1>7, <1>8 DEF AnswersCareful
<1> QED BY <1>7, <1>9 DEF q

(* A request that begins its calls. *)
LEMMA PlannedOK ==
    ASSUME NEW route \in Routes, NEW t, t \in Tenants \/ route.scope = "operator",
           NEW r \in Planned(route, t)
    PROVE  CallingOK(r)
<1>1. PICK p \in route.plans : r = Calling(t, Answering(p, route), route.cleanup, route.streams, <<>>)
  BY DEF Planned
<1> DEFINE q == Answering(p, route)
<1>2. /\ Sequence(q) /\ AnswersCareful(q, FALSE) /\ DOMAIN q = DOMAIN p
      /\ \A i \in DOMAIN q : q[i].store = p[i].store
  BY AnsweredPlans
<1>3. /\ Sequence(route.cleanup) /\ RaisesAmong(route.cleanup, {})
      /\ route.scope = "operator" => /\ \A i \in DOMAIN p : p[i].store # "tenant"
                                     /\ route.cleanup = <<>>
  <2>1. RouteFits(route)
    BY RoutesFit
  <2> QED BY <2>1 DEF RouteFits
<1>4. TenantCalls(q, t)
  <2> HIDE DEF q
  <2> QED BY <1>2, <1>3 DEF TenantCalls
<1>5. TenantCalls(route.cleanup, t)
  BY <1>3, NoCalls DEF TenantCalls
<1>6. r = Calling(t, q, route.cleanup, route.streams, <<>>)
  BY <1>1
<1> HIDE DEF q
<1>7. /\ r.plan = q /\ r.cleanup = route.cleanup /\ r.tenant = t /\ r.wrote = FALSE
      /\ r.state = "calls"
      /\ {"state", "tenant", "plan", "cleanup", "streams", "own", "wrote", "fault"} \subseteq DOMAIN r
  BY <1>6 DEF Calling
<1> QED BY <1>2, <1>3, <1>4, <1>5, <1>7 DEF CallingOK

(* An honest answer ends a request honestly. *)
LEMMA EndedIsOK ==
    ASSUME NEW answer, NEW wrote, NEW fault, Honest(answer, wrote, fault)
    PROVE  EndedOK(Ended(answer, wrote, fault))
<1> DEFINE r == Ended(answer, wrote, fault)
<1>1. /\ r.state = "ended" /\ r.answer = answer.answer /\ r.known = answer.known
      /\ r.wrote = wrote /\ r.fault = fault
  BY DEF Ended
<1> HIDE DEF r
<1>2. EndedOK(r)
  BY <1>1 DEF EndedOK, Honest
<1> QED BY <1>2 DEF r

(* A refusal has nothing to hide. *)
LEMMA RefusedOK == ASSUME NEW code, code # 500 PROVE EndedOK(Refused(code))
<1>1. Answer(code, FALSE).answer = code
  BY DEF Answer
<1>2. Honest(Answer(code, FALSE), FALSE, FALSE)
  BY <1>1 DEF Honest
<1> QED BY <1>2, EndedIsOK DEF Refused

(* What a route can answer without a call. *)
LEMMA MismatchOK == ASSUME NEW route \in Routes
                    PROVE  EndedOK(Refused(StatusOf(route, "PrincipalTypeMismatch")))
<1>1. "PrincipalTypeMismatch" \in Answered(route)
  BY NamedErrors DEF Answered, Named
<1>2. StatusOf(route, "PrincipalTypeMismatch") # 500
  BY <1>1, Statuses
<1> QED BY <1>2, RefusedOK

(* A request whose context is resolved. *)
LEMMA ProceedingOK ==
    ASSUME NEW route \in Routes, NEW t, t \in Tenants \/ route.scope = "operator",
           NEW r \in Proceeding(route, t)
    PROVE  CallingOK(r) \/ EndedOK(r)
  BY PlannedOK, RefusedOK DEF Proceeding

(* A request that awaits its tenant. *)
LEMMA AwaitingOK ==
    ASSUME NEW t, NEW next, \A n \in next : CallingOK(n) \/ EndedOK(n)
    PROVE  ContextOK(Awaiting(t, next))
  BY DEF ContextOK, Awaiting

(* A tenant's token names a tenant, or what is no id at all. *)
LEMMA TokensOK ==
    ASSUME NEW token \in Tokens, token.type = "tenant", token.tenant # NotUUID
    PROVE  token.tenant \in Tenants
  BY DEF Tokens, NoToken, InvalidToken, TenantToken, OperatorToken

(* Whatever a request arrives with, it begins well. *)
LEMMA ArrivingOK ==
    ASSUME NEW route \in Routes, NEW token \in Tokens, NEW r \in Arriving(route, token)
    PROVE  RequestOK(r)
<1>1. CASE token.type \in {"none", "invalid"}
  <2>1. r = Refused(401)
    BY <1>1 DEF Arriving
  <2> QED BY <2>1, RefusedOK DEF RequestOK
<1>2. CASE \E e \in route.query : r = Ended(RouteAnswer(route, e), FALSE, FALSE)
  <2>1. PICK e \in route.query : r = Ended(RouteAnswer(route, e), FALSE, FALSE)
    BY <1>2
  <2>2. e \in Answered(route) \/ e \in Unanswered \ Answered(route)
    <3>1. RouteFits(route)
      BY RoutesFit
    <3> QED BY <3>1, <2>1 DEF RouteFits
  <2>3. StatusOf(route, e) = 500 => e \in Unanswered
    BY <2>2, Statuses
  <2>4. RouteAnswer(route, e).answer = StatusOf(route, e)
    BY DEF RouteAnswer, Answer
  <2>5. RouteAnswer(route, e).known = (e \in Unanswered)
    BY DEF RouteAnswer, Answer
  <2>6. Honest(RouteAnswer(route, e), FALSE, FALSE)
    <3>1. RouteAnswer(route, e).answer = 500 => e \in Unanswered
      BY <2>3, <2>4
    <3>2. RouteAnswer(route, e).answer = 500 => RouteAnswer(route, e).known
      BY <2>5, <3>1, Zenon
    <3> QED BY <3>2 DEF Honest
  <2> QED BY <2>1, <2>6, EndedIsOK DEF RequestOK
<1>3. CASE route.scope = "tenant" /\ r \in TenantContext(route, token)
  <2>1. CASE token.type # "tenant"
    BY <1>3, <2>1, MismatchOK DEF TenantContext, RequestOK
  <2>2. CASE token.type = "tenant" /\ token.tenant # NotUUID
    <3>1. \/ r = Refused(503)
          \/ r = Awaiting(token.tenant, Proceeding(route, token.tenant))
      BY <1>3, <2>2 DEF TenantContext
    <3>2. \A n \in Proceeding(route, token.tenant) : CallingOK(n) \/ EndedOK(n)
      BY <2>2, TokensOK, ProceedingOK
    <3>3. ContextOK(Awaiting(token.tenant, Proceeding(route, token.tenant)))
      BY <3>2, AwaitingOK
    <3> QED BY <3>1, <3>3, RefusedOK DEF RequestOK
  <2>3. CASE token.type = "tenant" /\ token.tenant = NotUUID
    <3>1. r = Refused(503) \/ r = Refused(400)
      BY <1>3, <2>3 DEF TenantContext
    <3> QED BY <3>1, RefusedOK DEF RequestOK
  <2> QED BY <2>1, <2>2, <2>3
<1>4. CASE route.scope = "operator" /\ r \in PlatformOperator(route, token)
  BY <1>4, MismatchOK, ProceedingOK DEF PlatformOperator, RequestOK
<1>5. CASE route.scope = "role" /\ r \in TestEvent(route, token)
  <2>1. \/ r = Refused(503) \/ r = Refused(403) \/ r = Ended(Answer(500, TRUE), FALSE, FALSE)
        \/ \E t \in Tenants : r = Awaiting(t, Planned(route, t))
    BY <1>5 DEF TestEvent
  <2>2. ASSUME NEW t \in Tenants PROVE ContextOK(Awaiting(t, Planned(route, t)))
    BY PlannedOK, AwaitingOK
  <2>3. Honest(Answer(500, TRUE), FALSE, FALSE)
    BY DEF Honest, Answer
  <2>4. EndedOK(Ended(Answer(500, TRUE), FALSE, FALSE))
    BY <2>3, EndedIsOK
  <2>5. EndedOK(Refused(503)) /\ EndedOK(Refused(403))
    BY RefusedOK
  <2>6. CASE \E t \in Tenants : r = Awaiting(t, Planned(route, t))
    <3>1. ContextOK(r)
      BY <2>2, <2>6
    <3> QED BY <3>1 DEF RequestOK
  <2>7. CASE r = Refused(503) \/ r = Refused(403)
    BY <2>5, <2>7 DEF RequestOK
  <2>8. CASE r = Ended(Answer(500, TRUE), FALSE, FALSE)
    BY <2>4, <2>8, Zenon DEF RequestOK
  <2> QED BY <2>1, <2>6, <2>7, <2>8, Zenon
<1>6. route.scope \in {"tenant", "operator", "role"}
  BY RoutesFit DEF RouteFits
<1>7. ASSUME token.type \notin {"none", "invalid"}
      PROVE  \/ \E e \in route.query : r = Ended(RouteAnswer(route, e), FALSE, FALSE)
             \/ route.scope = "tenant" /\ r \in TenantContext(route, token)
             \/ route.scope = "operator" /\ r \in PlatformOperator(route, token)
             \/ route.scope = "role" /\ r \in TestEvent(route, token)
  <2>1. CASE route.scope = "tenant"
    BY <1>7, <2>1 DEF Arriving
  <2>2. CASE route.scope = "operator"
    BY <1>7, <2>2 DEF Arriving
  <2>3. CASE route.scope = "role"
    BY <1>7, <2>3 DEF Arriving
  <2> QED BY <1>6, <2>1, <2>2, <2>3
<1> QED BY <1>1, <1>2, <1>3, <1>4, <1>5, <1>7

(* The state of a request tells which of its invariants holds. *)
LEMMA StateTells ==
    ASSUME NEW r, RequestOK(r)
    PROVE  /\ r.state = "calls" => CallingOK(r)
           /\ r.state = "context" => ContextOK(r)
           /\ r.state = "closing" => ClosingOK(r)
           /\ r.state = "ended" => EndedOK(r)
           /\ r.state \in {"idle", "context", "calls", "closing", "ended"}
<1>1. CASE r = Idle
  BY <1>1 DEF Idle
<1>2. CASE ContextOK(r)
  BY <1>2 DEF ContextOK
<1>3. CASE CallingOK(r)
  <2>1. r.state = "calls"
    BY <1>3 DEF CallingOK
  <2> QED BY <1>3, <2>1
<1>4. CASE ClosingOK(r)
  <2>1. r.state = "closing"
    BY <1>4 DEF ClosingOK
  <2> QED BY <1>4, <2>1
<1>5. CASE EndedOK(r)
  BY <1>5 DEF EndedOK
<1> QED BY <1>1, <1>2, <1>3, <1>4, <1>5 DEF RequestOK

(* A step of one request leaves the others alone. *)
LEMMA OneRequest ==
    ASSUME RequestInv, NEW c \in Callers, NEW r, RequestOK(r), req' = [req EXCEPT ![c] = r]
    PROVE  RequestInv'
<1>1. req = [d \in Callers |-> req[d]] /\ \A d \in Callers : RequestOK(req[d])
  BY DEF RequestInv
<1>2. req' = [d \in Callers |-> req'[d]] /\ req'[c] = r /\ \A d \in Callers \ {c} : req'[d] = req[d]
  BY <1>1
<1>3. ASSUME NEW d \in Callers PROVE RequestOK(req'[d])
  BY <1>1, <1>2
<1> QED BY <1>2, <1>3 DEF RequestInv

(* A cleanup raises nothing. *)
LEMMA SilentIsCareful ==
    ASSUME NEW plan, NEW wrote, RaisesAmong(plan, {})
    PROVE  AnswersCareful(plan, wrote)
  BY DEF RaisesAmong, AnswersCareful

(* An error ends the request, or turns it to its cleanup. *)
LEMMA ErringOK ==
    ASSUME NEW r, CallingOK(r), NEW answer, NEW fault,
           answer.answer = 500 => fault \/ answer.known,
           answer.answer \in Refusals => ~r.wrote
    PROVE  RequestOK(Erring(r, answer, fault))
<1>1. CASE r.cleanup # <<>> /\ r.wrote
  <2> DEFINE s == [r EXCEPT !.plan = r.cleanup, !.cleanup = <<>>, !.fault = TRUE]
  <2>1. Erring(r, answer, fault) = s
    BY <1>1 DEF Erring
  <2>2. /\ s.state = "calls"
        /\ {"state", "tenant", "plan", "cleanup", "streams", "own", "wrote", "fault"} \subseteq DOMAIN s
        /\ s.plan = r.cleanup /\ s.cleanup = <<>> /\ s.tenant = r.tenant /\ s.wrote = r.wrote
    BY DEF CallingOK
  <2> HIDE DEF s
  <2>3. /\ Sequence(r.cleanup) /\ RaisesAmong(r.cleanup, {}) /\ TenantCalls(r.cleanup, r.tenant)
    BY DEF CallingOK
  <2>4. AnswersCareful(s.plan, s.wrote) /\ TenantCalls(s.cleanup, s.tenant)
    BY <2>2, <2>3, SilentIsCareful, NoCalls DEF TenantCalls
  <2>5. CallingOK(s)
    BY <2>2, <2>3, <2>4, NoCalls DEF CallingOK
  <2> QED BY <2>1, <2>5 DEF RequestOK
<1>2. CASE ~(r.cleanup # <<>> /\ r.wrote) /\ process = "api"
  <2> DEFINE given == IF r.streams THEN Answer(200, FALSE) ELSE answer
  <2>1. Erring(r, answer, fault) = Ended(given, r.wrote, r.fault \/ fault)
    BY <1>2 DEF Erring
  <2>2. Honest(given, r.wrote, r.fault \/ fault)
    BY DEF Honest, Answer, Refusals
  <2> HIDE DEF given
  <2>3. EndedOK(Ended(given, r.wrote, r.fault \/ fault))
    BY <2>2, EndedIsOK
  <2> QED BY <2>1, <2>3, Zenon DEF RequestOK
<1>3. CASE ~(r.cleanup # <<>> /\ r.wrote) /\ process # "api"
  <2> DEFINE s == [state |-> "closing", own |-> r.own, answer |-> answer, wrote |-> r.wrote,
                   fault |-> r.fault \/ fault]
  <2>1. Erring(r, answer, fault) = s
    BY <1>3 DEF Erring
  <2>2. /\ s.state = "closing" /\ {"state", "own", "answer", "wrote", "fault"} \subseteq DOMAIN s
        /\ s.answer = answer /\ s.wrote = r.wrote /\ s.fault = (r.fault \/ fault)
    OBVIOUS
  <2> HIDE DEF s
  <2>4. Honest(s.answer, s.wrote, s.fault)
    BY <2>2 DEF Honest
  <2>3. ClosingOK(s)
    BY <2>2, <2>4 DEF ClosingOK
  <2> QED BY <2>1, <2>3 DEF RequestOK
<1> QED BY <1>1, <1>2, <1>3

(* A call that went well leaves the rest of the plan. *)
LEMMA RestOK ==
    ASSUME NEW r, CallingOK(r), r.plan # <<>>
    PROVE  CallingOK([r EXCEPT !.plan = Tail(r.plan), !.wrote = r.wrote \/ Head(r.plan).writes])
<1> DEFINE w == r.wrote \/ Head(r.plan).writes
           rest == Tail(r.plan)
           s == [r EXCEPT !.plan = rest, !.wrote = w]
<1>1. /\ s.state = "calls"
      /\ {"state", "tenant", "plan", "cleanup", "streams", "own", "wrote", "fault"} \subseteq DOMAIN s
      /\ s.plan = rest /\ s.cleanup = r.cleanup /\ s.tenant = r.tenant /\ s.wrote = w
  BY DEF CallingOK
<1>2. /\ Sequence(r.plan) /\ AnswersCareful(r.plan, r.wrote) /\ TenantCalls(r.plan, r.tenant)
      /\ Sequence(r.cleanup) /\ RaisesAmong(r.cleanup, {}) /\ TenantCalls(r.cleanup, r.tenant)
  BY DEF CallingOK
<1>3. /\ Len(r.plan) \in Nat \ {0} /\ Head(r.plan) = r.plan[1] /\ Sequence(rest)
      /\ DOMAIN r.plan = 1..Len(r.plan) /\ DOMAIN rest = 1..(Len(r.plan) - 1)
      /\ \A i \in 1..(Len(r.plan) - 1) : rest[i] = r.plan[i + 1] /\ i + 1 \in 1..Len(r.plan)
  BY <1>2, SequenceFacts
<1> HIDE DEF rest, s
<1>4. AnswersCareful(rest, w)
  <2> SUFFICES ASSUME NEW i \in 1..(Len(r.plan) - 1)
               PROVE  /\ IsCall(rest[i])
                      /\ \A a \in rest[i].raises :
                             /\ a.answer = 500 => a.known
                             /\ a.answer \in Refusals => ~w /\ \A j \in 1..(i - 1) : ~rest[j].writes
    BY <1>3 DEF AnswersCareful
  <2>1. rest[i] = r.plan[i + 1] /\ i + 1 \in DOMAIN r.plan /\ IsCall(rest[i])
    BY <1>2, <1>3 DEF AnswersCareful
  <2> SUFFICES ASSUME NEW a \in r.plan[i + 1].raises
               PROVE  /\ a.answer = 500 => a.known
                      /\ a.answer \in Refusals => ~w /\ \A j \in 1..(i - 1) : ~rest[j].writes
    BY <2>1
  <2>2. /\ a.answer = 500 => a.known
        /\ a.answer \in Refusals => ~r.wrote /\ \A j \in 1..(i + 1 - 1) : ~r.plan[j].writes
    BY <1>2, <2>1 DEF AnswersCareful
  <2>3. ASSUME a.answer \in Refusals PROVE ~w
    BY <1>3, <2>2, <2>3
  <2>4. ASSUME a.answer \in Refusals, NEW j \in 1..(i - 1) PROVE ~rest[j].writes
    <3>1. rest[j] = r.plan[j + 1] /\ j + 1 \in 1..(i + 1 - 1)
      BY <1>3
    <3> QED BY <2>2, <2>4, <3>1
  <2> QED BY <2>2, <2>3, <2>4
<1>5. TenantCalls(rest, r.tenant)
  BY <1>2, <1>3 DEF TenantCalls
<1> HIDE DEF w
<1>6. CallingOK(s)
  BY <1>1, <1>2, <1>3, <1>4, <1>5 DEF CallingOK
<1> QED BY <1>6 DEF s, rest, w

(* A request arrives. *)
LEMMA ArriveStep ==
    ASSUME RequestInv, NEW c \in Callers, Arrive(c)
    PROVE  RequestInv'
<1>1. ListRetrievalCandidates \in Routes
  BY Zenon DEF Routes
<1>2. ASSUME NEW t \in Tenants PROVE TenantToken(t, FALSE) \in Tokens
  <2> DEFINE right == FALSE
  <2>1. right \in BOOLEAN /\ t \in Tenants \union {NotUUID}
    OBVIOUS
  <2>2. TenantToken(t, right) \in Tokens
    <3> HIDE DEF right
    <3> QED BY <2>1 DEF Tokens
  <2> QED BY <2>2
<1>3. PICK route \in Routes, token \in Tokens :
          \E next \in Arriving(route, token) : req' = [req EXCEPT ![c] = next]
  <2>1. CASE c \in Background
    <3>1. \E token \in {TenantToken(t, FALSE) : t \in Tenants} :
              \E next \in Arriving(ListRetrievalCandidates, token) : req' = [req EXCEPT ![c] = next]
      BY <2>1 DEF Arrive
    <3> QED BY <1>1, <1>2, <3>1
  <2>2. CASE c \notin Background
    BY <2>2 DEF Arrive
  <2> QED BY <2>1, <2>2
<1> QED BY <1>3, ArrivingOK, OneRequest

(* A request's tenant is resolved, or is not. *)
LEMMA ContextStep ==
    ASSUME RequestInv, NEW c \in Callers, ResolveTenant(c) \/ ContextFails(c)
    PROVE  RequestInv'
<1>1. ContextOK(req[c])
  BY StateTells DEF RequestInv, ResolveTenant, ContextFails
<1>2. CASE ResolveTenant(c)
  <2>1. PICK next : /\ req' = [req EXCEPT ![c] = next]
                    /\ next \in req[c].next \/ next = Refused(404)
    BY <1>2 DEF ResolveTenant
  <2>2. RequestOK(next)
    BY <1>1, <2>1, RefusedOK DEF ContextOK, RequestOK
  <2> QED BY <2>1, <2>2, OneRequest
<1>3. CASE ContextFails(c)
  <2>1. req' = [req EXCEPT ![c] = Ended(Answer(500, FALSE), FALSE, TRUE)]
    BY <1>3 DEF ContextFails
  <2>2. Honest(Answer(500, FALSE), FALSE, TRUE)
    BY DEF Honest, Answer
  <2>3. RequestOK(Ended(Answer(500, FALSE), FALSE, TRUE))
    BY <2>2, EndedIsOK DEF RequestOK
  <2> QED BY <2>1, <2>3, OneRequest
<1> QED BY <1>2, <1>3

(* A failure is answered 500, or exits with 1: it refuses nothing. *)
LEMMA FaultAnswers == Fault.answer \in {1, 500} /\ Fault.answer \notin Refusals
  BY DEF Fault, Answer, Refusals

(* A call succeeds, or raises an error. *)
LEMMA FinishCallStep ==
    ASSUME RequestInv, NEW c \in Callers, FinishCall(c)
    PROVE  RequestInv'
<1> DEFINE r == req[c]
<1>1. CallingOK(r) /\ r.plan # <<>> /\ Current(c) = Head(r.plan)
  BY StateTells DEF RequestInv, FinishCall, Pending, Current
<1>2. CASE req' = [req EXCEPT ![c] = [r EXCEPT !.plan = Tail(r.plan),
                                              !.wrote = r.wrote \/ Current(c).writes]]
  <2>1. CallingOK([r EXCEPT !.plan = Tail(r.plan), !.wrote = r.wrote \/ Head(r.plan).writes])
    <3> HIDE DEF r
    <3> QED BY <1>1, RestOK
  <2>2. RequestOK([r EXCEPT !.plan = Tail(r.plan), !.wrote = r.wrote \/ Current(c).writes])
    BY <1>1, <2>1 DEF RequestOK
  <2> HIDE DEF r
  <2> QED BY <1>2, <2>2, OneRequest
<1>3. CASE \E answer \in Current(c).raises : req' = [req EXCEPT ![c] = Erring(r, answer, FALSE)]
  <2>1. PICK answer \in Current(c).raises : req' = [req EXCEPT ![c] = Erring(r, answer, FALSE)]
    BY <1>3
  <2>2. /\ Sequence(r.plan) /\ AnswersCareful(r.plan, r.wrote)
    BY <1>1 DEF CallingOK
  <2>3. 1 \in DOMAIN r.plan /\ Head(r.plan) = r.plan[1]
    <3> HIDE DEF r
    <3>1. DOMAIN r.plan = 1..Len(r.plan) /\ Len(r.plan) \in Nat \ {0} /\ Head(r.plan) = r.plan[1]
      BY <1>1, <2>2, SequenceFacts
    <3> QED BY <3>1
  <2>4. /\ answer.answer = 500 => answer.known
        /\ answer.answer \in Refusals => ~r.wrote
    BY <1>1, <2>1, <2>2, <2>3 DEF AnswersCareful
  <2>5. RequestOK(Erring(r, answer, FALSE))
    <3> HIDE DEF r
    <3> QED BY <1>1, <2>4, ErringOK
  <2> QED BY <2>1, <2>5, OneRequest
<1>4. \/ req' = [req EXCEPT ![c] = [r EXCEPT !.plan = Tail(r.plan),
                                            !.wrote = r.wrote \/ Current(c).writes]]
      \/ \E answer \in Current(c).raises : req' = [req EXCEPT ![c] = Erring(r, answer, FALSE)]
  BY DEF FinishCall
<1> HIDE DEF r
<1> QED BY <1>2, <1>3, <1>4

(* A fault is known to be one, and refuses nothing. *)
LEMMA FaultOK == ASSUME NEW r, CallingOK(r) PROVE RequestOK(Erring(r, Fault, TRUE))
<1> DEFINE answer == Fault
           fault == TRUE
<1>1. /\ answer.answer = 500 => fault \/ answer.known
      /\ answer.answer \in Refusals => ~r.wrote
  BY FaultAnswers
<1>2. RequestOK(Erring(r, answer, fault))
  <2> HIDE DEF answer, fault
  <2> QED BY <1>1, ErringOK
<1> QED BY <1>2

(* A call fails. *)
LEMMA FailCallStep ==
    ASSUME RequestInv, NEW c \in Callers, FailCall(c)
    PROVE  RequestInv'
<1>1. CallingOK(req[c]) /\ req' = [req EXCEPT ![c] = Erring(req[c], Fault, TRUE)]
  BY StateTells DEF RequestInv, FailCall, Pending
<1>2. RequestOK(Erring(req[c], Fault, TRUE))
  BY <1>1, FaultOK
<1> QED BY <1>1, <1>2, OneRequest

(* The last call has been made. *)
LEMMA FinishStep ==
    ASSUME RequestInv, NEW c \in Callers, Finish(c)
    PROVE  RequestInv'
<1> DEFINE r == req[c]
           closing == [state |-> "closing", own |-> r.own, answer |-> Answer(0, FALSE),
                       wrote |-> r.wrote, fault |-> FALSE]
<1>1. CallingOK(r)
  BY StateTells DEF RequestInv, Finish
<1>2. \/ req' = [req EXCEPT ![c] = Erring(r, Fault, TRUE)]
      \/ req' = [req EXCEPT ![c] = Ended(Answer(200, FALSE), r.wrote, FALSE)]
      \/ req' = [req EXCEPT ![c] = closing]
  BY DEF Finish
<1>3. RequestOK(Erring(r, Fault, TRUE))
  BY <1>1, FaultOK
<1>4. RequestOK(Ended(Answer(200, FALSE), r.wrote, FALSE))
  <2>1. Honest(Answer(200, FALSE), r.wrote, FALSE)
    BY DEF Honest, Answer, Refusals
  <2>2. EndedOK(Ended(Answer(200, FALSE), r.wrote, FALSE))
    BY <2>1, EndedIsOK
  <2> QED BY <2>2, Zenon DEF RequestOK
<1>5. RequestOK(closing)
  <2>1. ClosingOK(closing)
    BY DEF ClosingOK, Honest, Answer, Refusals
  <2> HIDE DEF closing
  <2> QED BY <2>1 DEF RequestOK
<1> HIDE DEF closing, r
<1>6. CASE req' = [req EXCEPT ![c] = Erring(r, Fault, TRUE)]
  BY <1>3, <1>6, OneRequest
<1>7. CASE req' = [req EXCEPT ![c] = Ended(Answer(200, FALSE), r.wrote, FALSE)]
  <2> DEFINE s == Ended(Answer(200, FALSE), r.wrote, FALSE)
  <2>1. RequestOK(s) /\ req' = [req EXCEPT ![c] = s]
    BY <1>4, <1>7
  <2> HIDE DEF s
  <2> QED BY <2>1, OneRequest
<1>8. CASE req' = [req EXCEPT ![c] = closing]
  BY <1>5, <1>8, OneRequest
<1> QED BY <1>2, <1>6, <1>7, <1>8

(* A command is invoked. *)
LEMMA InvokeStep ==
    ASSUME RequestInv, NEW c \in Callers, Invoke(c)
    PROVE  RequestInv'
<1>1. PICK command \in Commands, t \in Tenants :
          \/ \E code \in command.rejects : req' = [req EXCEPT ![c] = Refused(code)]
          \/ \E p \in command.plans :
                 req' = [req EXCEPT ![c] =
                            Calling(t, Exits(p, command), command.cleanup, FALSE,
                                    [i \in DOMAIN command.opens |-> i])]
  BY DEF Invoke
<1>0. CommandFits(command)
  BY CommandsFit
<1>2. CASE \E code \in command.rejects : req' = [req EXCEPT ![c] = Refused(code)]
  <2>1. PICK code \in command.rejects : req' = [req EXCEPT ![c] = Refused(code)]
    BY <1>2
  <2>2. code # 500
    BY <1>0 DEF CommandFits
  <2>3. RequestOK(Refused(code))
    BY <2>2, RefusedOK DEF RequestOK
  <2> QED BY <2>1, <2>3, OneRequest
<1>3. ASSUME NEW p \in command.plans,
             req' = [req EXCEPT ![c] =
                         Calling(t, Exits(p, command), command.cleanup, FALSE,
                                 [i \in DOMAIN command.opens |-> i])]
      PROVE  RequestInv'
  <2> DEFINE own == [i \in DOMAIN command.opens |-> i]
             q == Exits(p, command)
             r == Calling(t, q, command.cleanup, FALSE, own)
  <2>1. Sequence(q) /\ AnswersCareful(q, FALSE)
    BY ExitingPlans
  <2>2. Sequence(command.cleanup) /\ RaisesAmong(command.cleanup, {})
    BY <1>0 DEF CommandFits
  <2>3. req' = [req EXCEPT ![c] = r]
    BY <1>3
  <2> HIDE DEF own, q
  <2>4. /\ r.state = "calls" /\ r.tenant = t /\ r.plan = q /\ r.cleanup = command.cleanup
        /\ r.wrote = FALSE
        /\ {"state", "tenant", "plan", "cleanup", "streams", "own", "wrote", "fault"} \subseteq DOMAIN r
    BY DEF Calling
  <2> HIDE DEF r
  <2>5. CallingOK(r)
    BY <2>1, <2>2, <2>4 DEF CallingOK, TenantCalls
  <2>6. RequestOK(r)
    BY <2>5 DEF RequestOK
  <2> QED BY <2>3, <2>6, OneRequest
<1> QED BY <1>1, <1>2, <1>3

(* A command closes its engines and exits. *)
LEMMA CloseStep ==
    ASSUME RequestInv, NEW c \in Callers, CloseEngine(c) \/ CloseFails(c) \/ Exit(c)
    PROVE  RequestInv'
<1> DEFINE r == req[c]
<1>1. ClosingOK(r)
  BY StateTells DEF RequestInv, CloseEngine, CloseFails, Exit
<1>2. CASE CloseEngine(c)
  <2> DEFINE s == [r EXCEPT !.own = Tail(r.own)]
  <2>1. req' = [req EXCEPT ![c] = s]
    BY <1>2 DEF CloseEngine
  <2>2. /\ s.state = "closing" /\ {"state", "own", "answer", "wrote", "fault"} \subseteq DOMAIN s
        /\ s.answer = r.answer /\ s.wrote = r.wrote /\ s.fault = r.fault
    <3> HIDE DEF r
    <3> QED BY <1>1 DEF ClosingOK
  <2> HIDE DEF s
  <2>3. RequestOK(s)
    BY <1>1, <2>2 DEF ClosingOK, RequestOK
  <2> QED BY <2>1, <2>3, OneRequest
<1>3. CASE CloseFails(c)
  <2> DEFINE e == Ended(Fault, r.wrote, TRUE)
             s == [e EXCEPT !.left = ToSet(r.own)]
  <2>1. req' = [req EXCEPT ![c] = s]
    BY <1>3 DEF CloseFails
  <2>2. /\ s.state = "ended" /\ s.answer = Fault.answer /\ s.wrote = r.wrote /\ s.fault = TRUE
    BY DEF Ended
  <2> HIDE DEF s, r
  <2>3. EndedOK(s)
    BY <2>2, FaultAnswers DEF EndedOK, Honest
  <2>4. RequestOK(s)
    BY <2>3 DEF RequestOK
  <2> QED BY <2>1, <2>4, OneRequest
<1>4. CASE Exit(c)
  <2> DEFINE s == Ended(r.answer, r.wrote, r.fault)
  <2>1. req' = [req EXCEPT ![c] = s]
    BY <1>4 DEF Exit
  <2>2. EndedOK(s)
    BY <1>1, EndedIsOK DEF ClosingOK
  <2> HIDE DEF s
  <2>3. RequestOK(s)
    BY <2>2 DEF RequestOK
  <2> QED BY <2>1, <2>3, OneRequest
<1> QED BY <1>2, <1>3, <1>4

(* A step that is not of a request. *)
LEMMA RequestSame == ASSUME RequestInv, req' = req PROVE RequestInv'
  BY DEF RequestInv

(* Requests and commands stay honest. *)
LEMMA RequestsNext == RequestInv /\ [Next]_vars => RequestInv'
<1> SUFFICES ASSUME RequestInv, [Next]_vars PROVE RequestInv'
  OBVIOUS
<1>1. CASE UNCHANGED vars
  BY <1>1, RequestSame DEF vars
<1>2. ASSUME NEW c \in Callers, Request(c) PROVE RequestInv'
  <2>1. CASE req' = req
    BY <2>1, RequestSame
  <2>2. CASE Arrive(c)
    BY <2>2, ArriveStep
  <2>3. CASE ResolveTenant(c) \/ ContextFails(c)
    BY <2>3, ContextStep
  <2>4. CASE FinishCall(c)
    BY <2>4, FinishCallStep
  <2>5. CASE FailCall(c)
    BY <2>5, FailCallStep
  <2>6. CASE Finish(c)
    BY <2>6, FinishStep
  <2>7. CASE Invoke(c)
    BY <2>7, InvokeStep
  <2>8. CASE CloseEngine(c) \/ CloseFails(c) \/ Exit(c)
    BY <2>8, CloseStep
  <2> QED BY <1>2, <2>1, <2>2, <2>3, <2>4, <2>5, <2>6, <2>7, <2>8 DEF Request, StartCall
<1>3. ASSUME NEW o \in Operators, Administer(o) PROVE RequestInv'
  BY <1>3, RequestSame DEF Administer
<1> QED BY <1>1, <1>2, <1>3 DEF Next

(* The answers are honest. *)
THEOREM Answers == Spec => []AnswersAreHonest
<1>1. Init => RequestInv
  BY DEF Init, RequestInv, RequestOK
<1>2. RequestInv => AnswersAreHonest
  <2> SUFFICES ASSUME RequestInv, NEW c \in Callers, req[c].state = "ended"
               PROVE  /\ req[c].answer = 500 => req[c].fault \/ req[c].known
                      /\ req[c].answer \in (400..499) \union {2, 3} => ~req[c].wrote
    BY DEF AnswersAreHonest
  <2>1. EndedOK(req[c])
    BY StateTells DEF RequestInv
  <2> QED BY <2>1 DEF EndedOK, Honest, Refusals
<1> QED BY <1>1, <1>2, RequestsNext, PTL DEF Spec

-----------------------------------------------------------------------------
(* ----------------- the cache of session factories -------------------- *)

Pool == {"unused", "open", "closed"}
CacheRow == [tenant : Tenants, since : Nat, pool : Pool]

(* A change that is committed and has yet to reach the cache. *)
FlushDue(t, ch) ==
    \E o \in Operators : /\ ch[o].phase \in {"audit", "invalidate"} /\ ch[o].tenant = t
                         /\ ch[o].before # "absent"
Stale(t, why) == <<t, "late">> \in why \/ <<t, "unflushed">> \in why
Loose(t, why) == <<t, "overlap">> \in why \/ <<t, "held">> \in why

(* The cached engine of a tenant is its own, from credentials that are current. *)
CachedOK(t, e, rows, ep, ch, why) ==
    /\ e <= Len(rows)
    /\ e # NoEngine => /\ rows[e].tenant = t
                       /\ rows[e].since = ep \/ FlushDue(t, ch) \/ Stale(t, why)

(* So are the credentials a miss awaits; and who misses while an engine is
   cached has overlapped with the miss that made it. *)
RevealOK(l, eng, ep, ch, why) ==
    l.phase = "reveal" =>
        /\ l.tenant \in Tenants /\ l.since \in Nat /\ l.since <= ep[l.tenant]
        /\ l.since = ep[l.tenant] \/ FlushDue(l.tenant, ch) \/ Stale(l.tenant, why)
        /\ eng[l.tenant] # NoEngine => <<l.tenant, "overlap">> \in why

(* The engine a search holds is the cached one, or is known to be loose. *)
HeldOK(l, rows, eng, why) ==
    l.phase = "held" =>
        /\ "phase" \in DOMAIN l /\ l.tenant \in Tenants /\ l.engine \in DOMAIN rows
        /\ rows[l.engine].tenant = l.tenant
        /\ eng[l.tenant] = l.engine \/ Loose(l.tenant, why)

Overlapping(lk, why) ==
    \A c, d \in Callers : /\ c # d /\ lk[c].phase = "reveal" /\ lk[d].phase = "reveal"
                          /\ lk[c].tenant = lk[d].tenant
                          => <<lk[c].tenant, "overlap">> \in why

PoolOK(e, row, eng, ch, why) ==
    row.pool = "open" => \/ eng[row.tenant] = e
                         \/ \E o \in Operators : ch[o].phase = "dispose" /\ ch[o].engine = e
                         \/ Loose(row.tenant, why)

CacheTypes ==
    /\ made \in Seq(CacheRow) /\ engines \in [Tenants -> Nat] /\ sessionmakers = engines
    /\ epoch \in [Tenants -> Nat] /\ lookup = [c \in Callers |-> lookup[c]]

ApiInv ==
    /\ CacheTypes
    /\ \A t \in Tenants : CachedOK(t, engines[t], made, epoch[t], change, excused)
    /\ \A c \in Callers : RevealOK(lookup[c], engines, epoch, change, excused)
    /\ \A c \in Callers : HeldOK(lookup[c], made, engines, excused)
    /\ Overlapping(lookup, excused)
    /\ \A e \in DOMAIN made : PoolOK(e, made[e], engines, change, excused)

(* Steps of the registry that leave the cache alone: a status that changes is
   still to be flushed. *)
LEMMA RegistryMoves ==
    ASSUME ApiInv, UNCHANGED <<sessionmakers, engines, made, lookup>>,
           excused \subseteq excused', epoch' \in [Tenants -> Nat],
           \A t \in Tenants : \/ epoch'[t] = epoch[t]
                              \/ epoch[t] <= epoch'[t] /\ FlushDue(t, change'),
           \A t \in Tenants : FlushDue(t, change) => FlushDue(t, change') \/ Stale(t, excused'),
           \A o \in Operators : change[o].phase = "dispose" => change'[o] = change[o]
    PROVE  ApiInv'
<1>1. CacheTypes'
  BY DEF ApiInv, CacheTypes
<1>2. ASSUME NEW t \in Tenants PROVE CachedOK(t, engines'[t], made', epoch'[t], change', excused')
  BY DEF ApiInv, CachedOK, Stale
<1>3. ASSUME NEW c \in Callers PROVE RevealOK(lookup'[c], engines', epoch', change', excused')
  <2>1. RevealOK(lookup[c], engines, epoch, change, excused)
    BY DEF ApiInv
  <2> SUFFICES ASSUME lookup[c].phase = "reveal"
               PROVE  RevealOK(lookup[c], engines, epoch', change', excused')
    BY DEF RevealOK
  <2> DEFINE t == lookup[c].tenant
             s == lookup[c].since
  <2>2. /\ t \in Tenants /\ s \in Nat /\ s <= epoch[t]
        /\ s = epoch[t] \/ FlushDue(t, change) \/ Stale(t, excused)
        /\ engines[t] # NoEngine => <<t, "overlap">> \in excused
    BY <2>1 DEF RevealOK
  <2>3. epoch[t] \in Nat /\ epoch'[t] \in Nat
    BY <2>2 DEF ApiInv, CacheTypes
  <2>4. /\ s <= epoch'[t]
        /\ s = epoch'[t] \/ FlushDue(t, change') \/ Stale(t, excused')
        /\ engines[t] # NoEngine => <<t, "overlap">> \in excused'
    <3> HIDE DEF t, s
    <3> QED BY <2>2, <2>3 DEF Stale
  <2> QED BY <2>2, <2>4 DEF RevealOK
<1>4. ASSUME NEW c \in Callers PROVE HeldOK(lookup'[c], made', engines', excused')
  BY DEF ApiInv, HeldOK, Loose
<1>5. Overlapping(lookup', excused')
  BY DEF ApiInv, Overlapping
<1>6. ASSUME NEW e \in DOMAIN made' PROVE PoolOK(e, made'[e], engines', change', excused')
  BY DEF ApiInv, PoolOK, Loose
<1> QED BY <1>1, <1>2, <1>3, <1>4, <1>5, <1>6 DEF ApiInv

(* What one operator's change does to the flushes that are due. *)
LEMMA DueAfter ==
    ASSUME change \in [Operators -> Changes], NEW o \in Operators, NEW x \in Changes,
           change' = [change EXCEPT ![o] = x], change[o].phase # "dispose"
    PROVE  /\ change'[o] = x
           /\ \A p \in Operators : change[p].phase = "dispose" => change'[p] = change[p]
           /\ \A t : FlushDue(t, change) =>
                  \/ FlushDue(t, change')
                  \/ /\ change[o].phase \in {"audit", "invalidate"}
                     /\ change[o].tenant = t /\ change[o].before # "absent"
<1>1. /\ change' \in [Operators -> Changes] /\ change'[o] = x
      /\ \A p \in Operators \ {o} : change'[p] = change[p]
  BY OneChange
<1> QED BY <1>1 DEF FlushDue

(* A registration has nothing cached to flush. *)
LEMMA CacheOnRegister ==
    ASSUME ApiInv, RegistryInv, NEW o \in Operators, NEW u \in Tenants, RegisterTenant(o, u)
    PROVE  ApiInv'
<1> DEFINE x == [phase |-> "audit", tenant |-> u, before |-> "absent", status |-> "active"]
<1>1. /\ change[o].phase = "none" /\ change' = [change EXCEPT ![o] = x]
      /\ UNCHANGED <<sessionmakers, engines, made, lookup, epoch, excused>>
      /\ change \in [Operators -> Changes]
  BY DEF RegisterTenant, RegistryInv, RegistryTypes
<1>2. x \in Changes
  BY DEF Changes, Moving, RowStatus, TenantStatus
<1> HIDE DEF x
<1>3. /\ \A p \in Operators : change[p].phase = "dispose" => change'[p] = change[p]
      /\ \A t : FlushDue(t, change) => FlushDue(t, change')
  BY <1>1, <1>2, DueAfter
<1> QED BY <1>1, <1>3, RegistryMoves DEF ApiInv, CacheTypes

(* A change that is only begun. *)
LEMMA CacheOnRead ==
    ASSUME ApiInv, RegistryInv, NEW o \in Operators, NEW u \in Tenants,
           NEW status \in TenantStatus, ReadBefore(o, u, status)
    PROVE  ApiInv'
<1> DEFINE x == [phase |-> "commit", tenant |-> u, before |-> registry[u], status |-> status]
<1>1. /\ change[o].phase = "none" /\ change' = [change EXCEPT ![o] = x]
      /\ UNCHANGED <<sessionmakers, engines, made, lookup, epoch>> /\ excused \subseteq excused'
      /\ change \in [Operators -> Changes] /\ registry[u] \in RowStatus
  BY DEF ReadBefore, RegistryInv, RegistryTypes
<1>2. x \in Changes
  BY <1>1 DEF Changes, Moving
<1> HIDE DEF x
<1>3. /\ \A p \in Operators : change[p].phase = "dispose" => change'[p] = change[p]
      /\ \A t : FlushDue(t, change) => FlushDue(t, change')
  BY <1>1, <1>2, DueAfter
<1> QED BY <1>1, <1>3, RegistryMoves DEF ApiInv, CacheTypes

(* A change that commits is due to be flushed. *)
LEMMA CacheOnCommit ==
    ASSUME ApiInv, RegistryInv, NEW o \in Operators, CommitStatus(o)
    PROVE  ApiInv'
<1> DEFINE x == [change[o] EXCEPT !.phase = "audit"]
           u == change[o].tenant
<1>1. /\ change[o].phase = "commit" /\ change' = [change EXCEPT ![o] = x]
      /\ UNCHANGED <<sessionmakers, engines, made, lookup, excused>>
      /\ epoch' = [epoch EXCEPT ![u] = epoch[u] + 1]
      /\ change \in [Operators -> Changes] /\ change[o] \in Changes
      /\ change[o].before \in TenantStatus /\ epoch \in [Tenants -> Nat]
  BY DEF CommitStatus, RegistryInv, RegistryTypes, ApiInv, CacheTypes
<1>2. x \in Changes /\ x.phase = "audit" /\ x.tenant = u /\ x.before \in TenantStatus /\ u \in Tenants
  BY <1>1, MovesOn DEF Changes, Moving
<1> HIDE DEF x
<1>3. /\ \A p \in Operators : change[p].phase = "dispose" => change'[p] = change[p]
      /\ \A t : FlushDue(t, change) => FlushDue(t, change')
      /\ change'[o] = x
  BY <1>1, <1>2, DueAfter
<1>4. FlushDue(u, change')
  BY <1>2, <1>3 DEF FlushDue, TenantStatus
<1>5. /\ epoch' \in [Tenants -> Nat]
      /\ \A t \in Tenants : epoch'[t] = epoch[t] \/ (epoch[t] <= epoch'[t] /\ t = u)
  <2> HIDE DEF u
  <2> QED BY <1>1, <1>2
<1> HIDE DEF u
<1> QED BY <1>1, <1>3, <1>4, <1>5, RegistryMoves

(* A change that fails changes no status. *)
LEMMA CacheOnUpdateFails ==
    ASSUME ApiInv, RegistryInv, NEW o \in Operators, UpdateFails(o)
    PROVE  ApiInv'
<1>1. /\ change[o].phase = "commit" /\ change' = [change EXCEPT ![o] = NoChange]
      /\ UNCHANGED <<sessionmakers, engines, made, lookup, epoch, excused>>
      /\ change \in [Operators -> Changes] /\ NoChange \in Changes
  BY DEF UpdateFails, RegistryInv, RegistryTypes, Changes
<1>3. /\ \A p \in Operators : change[p].phase = "dispose" => change'[p] = change[p]
      /\ \A t : FlushDue(t, change) => FlushDue(t, change')
  BY <1>1, DueAfter
<1> QED BY <1>1, <1>3, RegistryMoves DEF ApiInv, CacheTypes

(* A change that is audited is still due. *)
LEMMA CacheOnEmit ==
    ASSUME ApiInv, RegistryInv, NEW o \in Operators, EmitAudit(o)
    PROVE  ApiInv'
<1> DEFINE x == IF change[o].before = "absent" THEN NoChange
                ELSE [change[o] EXCEPT !.phase = "invalidate"]
<1>1. /\ change[o].phase = "audit" /\ change' = [change EXCEPT ![o] = x]
      /\ UNCHANGED <<sessionmakers, engines, made, lookup, epoch, excused>>
      /\ change \in [Operators -> Changes] /\ change[o] \in Changes
  BY DEF EmitAudit, RegistryInv, RegistryTypes
<1>2. /\ x \in Changes
      /\ change[o].before # "absent" => /\ x.phase = "invalidate" /\ x.tenant = change[o].tenant
                                        /\ x.before = change[o].before
  <2>1. CASE change[o].before = "absent"
    BY <2>1 DEF Changes
  <2>2. CASE change[o].before # "absent"
    <3> DEFINE y == [change[o] EXCEPT !.phase = "invalidate"]
    <3>1. x = y
      BY <2>2
    <3>2. /\ y \in Moving /\ y.phase = "invalidate" /\ y.tenant = change[o].tenant
          /\ y.before = change[o].before
      BY <1>1, MovesOn
    <3> HIDE DEF x, y
    <3> QED BY <3>1, <3>2 DEF Changes
  <2> QED BY <2>1, <2>2
<1> HIDE DEF x
<1>3. /\ change'[o] = x
      /\ \A p \in Operators : change[p].phase = "dispose" => change'[p] = change[p]
      /\ \A t : FlushDue(t, change) =>
             FlushDue(t, change') \/ (change[o].tenant = t /\ change[o].before # "absent")
  BY <1>1, <1>2, DueAfter
<1>4. change[o].before # "absent" => FlushDue(change[o].tenant, change')
  BY <1>2, <1>3 DEF FlushDue
<1>5. \A t \in Tenants : FlushDue(t, change) => FlushDue(t, change')
  BY <1>3, <1>4
<1> QED BY <1>1, <1>3, <1>5, RegistryMoves DEF ApiInv, CacheTypes

(* A change that is not audited is never flushed, and on record. *)
LEMMA CacheOnEmitFails ==
    ASSUME ApiInv, RegistryInv, NEW o \in Operators, EmitFails(o)
    PROVE  ApiInv'
<1>1. /\ change[o].phase = "audit" /\ change' = [change EXCEPT ![o] = NoChange]
      /\ UNCHANGED <<sessionmakers, engines, made, lookup, epoch>>
      /\ change \in [Operators -> Changes] /\ NoChange \in Changes
      /\ excused \subseteq excused'
      /\ change[o].before # "absent" => <<change[o].tenant, "unflushed">> \in excused'
  BY DEF EmitFails, RegistryInv, RegistryTypes, Changes
<1>3. /\ \A p \in Operators : change[p].phase = "dispose" => change'[p] = change[p]
      /\ \A t : FlushDue(t, change) =>
             FlushDue(t, change') \/ (change[o].tenant = t /\ change[o].before # "absent")
  BY <1>1, DueAfter
<1>4. \A t \in Tenants : FlushDue(t, change) => FlushDue(t, change') \/ Stale(t, excused')
  BY <1>1, <1>3 DEF Stale
<1> QED BY <1>1, <1>3, <1>4, RegistryMoves DEF ApiInv, CacheTypes

(* Setting the pool of one engine changes nothing else of the engines. *)
Pooled(rows, k, v) == [rows EXCEPT ![k].pool = v]

(* The engines with one pool set are the same engines. *)
LEMMA PoolSet ==
    ASSUME NEW rows \in Seq(CacheRow), NEW k, NEW v \in Pool
    PROVE  LET r == Pooled(rows, k, v)
           IN  /\ r \in Seq(CacheRow) /\ Len(r) = Len(rows)
               /\ \A e \in 1..Len(rows) : /\ r[e].tenant = rows[e].tenant /\ r[e].since = rows[e].since
                                          /\ e # k => r[e] = rows[e]
                                          /\ e = k => r[e].pool = v
<1> DEFINE r == Pooled(rows, k, v)
           n == Len(rows)
           x == [rows[k] EXCEPT !.pool = v]
<1>1. n \in Nat /\ rows \in [1..n -> CacheRow]
  OBVIOUS
<1>2. r = [rows EXCEPT ![k] = x]
  BY DEF Pooled
<1>3. ASSUME k \in 1..n
      PROVE  x \in CacheRow /\ x.tenant = rows[k].tenant /\ x.since = rows[k].since /\ x.pool = v
  <2>1. rows[k] \in CacheRow
    BY <1>1, <1>3
  <2> DEFINE y == rows[k]
  <2> HIDE DEF y
  <2>2. [y EXCEPT !.pool = v] \in CacheRow /\ [y EXCEPT !.pool = v].tenant = y.tenant
        /\ [y EXCEPT !.pool = v].since = y.since /\ [y EXCEPT !.pool = v].pool = v
    <3>1. y \in CacheRow
      BY <2>1 DEF y
    <3> QED BY <3>1 DEF CacheRow
  <2> QED BY <2>2 DEF y
<1> HIDE DEF x, n
<1>4. r \in [1..n -> CacheRow]
  BY <1>1, <1>2, <1>3
<1>5. ASSUME NEW e \in 1..n
      PROVE  (e # k => r[e] = rows[e]) /\ (e = k => r[e] = x)
  BY <1>1, <1>2
<1> HIDE DEF r
<1>6. r \in Seq(CacheRow) /\ Len(r) = n
  BY <1>1, <1>4
<1>7. ASSUME NEW e \in 1..n
      PROVE  /\ r[e].tenant = rows[e].tenant /\ r[e].since = rows[e].since
             /\ e # k => r[e] = rows[e]
             /\ e = k => r[e].pool = v
  BY <1>3, <1>5
<1> QED BY <1>6, <1>7 DEF r, n

(* What invalidating a tenant forgives: nothing that the cache cannot repair. *)
LEMMA ExcusesAfterFlush ==
    ASSUME NEW o, NEW u, Invalidate(o), u = change[o].tenant
    PROVE  /\ \A t : /\ <<t, "overlap">> \in excused => <<t, "overlap">> \in excused'
                     /\ <<t, "held">> \in excused => <<t, "held">> \in excused'
                     /\ <<t, "unaudited">> \in excused => <<t, "unaudited">> \in excused'
                     /\ <<t, "concurrent">> \in excused => <<t, "concurrent">> \in excused'
                     /\ t # u /\ Stale(t, excused) => Stale(t, excused')
           /\ \A c \in Callers : lookup[c].phase = "held" /\ lookup[c].tenant = u
                                 => <<u, "held">> \in excused'
           /\ \A c \in Callers : lookup[c].phase = "reveal" /\ lookup[c].tenant = u
                                 /\ lookup[c].since < epoch[u] => <<u, "late">> \in excused'
<1> DEFINE kept == excused \ {<<u, "unflushed">>, <<u, "late">>}
           held == {<<u, "held">> : c \in Holding(u)}
           late == {<<u, "late">> : c \in {d \in Missing(u) : lookup[d].since < epoch[u]}}
<1>1. excused' = kept \union held \union late
  BY DEF Invalidate
<1>2. ASSUME NEW c \in Callers, lookup[c].phase = "held", lookup[c].tenant = u
      PROVE  <<u, "held">> \in held
  BY <1>2 DEF Holding
<1>3. ASSUME NEW c \in Callers, lookup[c].phase = "reveal", lookup[c].tenant = u,
             lookup[c].since < epoch[u]
      PROVE  <<u, "late">> \in late
  BY <1>3 DEF Missing
<1>4. ASSUME NEW t
      PROVE  /\ <<t, "overlap">> \in excused => <<t, "overlap">> \in kept
             /\ <<t, "held">> \in excused => <<t, "held">> \in kept
             /\ <<t, "unaudited">> \in excused => <<t, "unaudited">> \in kept
             /\ <<t, "concurrent">> \in excused => <<t, "concurrent">> \in kept
             /\ t # u /\ Stale(t, excused) => Stale(t, kept)
  BY DEF Stale
<1> HIDE DEF kept, held, late
<1> QED BY <1>1, <1>2, <1>3, <1>4 DEF Stale

(* The change of a flush: the engine that was cached is to be disposed. *)
LEMMA Flushed ==
    ASSUME ApiInv, RegistryInv, NEW o \in Operators, Invalidate(o)
    PROVE  LET u == change[o].tenant
           IN  /\ u \in Tenants /\ change[o].phase = "invalidate"
               /\ engines' = [engines EXCEPT ![u] = NoEngine] /\ sessionmakers' = engines'
               /\ change \in [Operators -> Changes]
               /\ \E x \in Changes : /\ change' = [change EXCEPT ![o] = x]
                                     /\ x.phase \in {"none", "dispose"}
                                     /\ engines[u] # NoEngine => x.phase = "dispose" /\ x.engine = engines[u]
<1> DEFINE u == change[o].tenant
           d == [phase |-> "dispose", tenant |-> u, engine |-> engines[u]]
           x == IF engines[u] = NoEngine THEN NoChange ELSE d
<1>1. /\ change[o].phase = "invalidate" /\ change' = [change EXCEPT ![o] = x]
      /\ engines' = [engines EXCEPT ![u] = NoEngine]
      /\ sessionmakers' = [sessionmakers EXCEPT ![u] = NoEngine] /\ sessionmakers = engines
      /\ change \in [Operators -> Changes] /\ change[o] \in Changes /\ engines \in [Tenants -> Nat]
  BY DEF Invalidate, PopEngine, RegistryInv, RegistryTypes, ApiInv, CacheTypes
<1>2. u \in Tenants
  BY <1>1, ChangeFields DEF Moving
<1>3. d \in Disposing /\ d.phase = "dispose" /\ d.engine = engines[u]
  BY <1>1, <1>2 DEF Disposing
<1> HIDE DEF d
<1>4. /\ x \in Changes /\ x.phase \in {"none", "dispose"}
      /\ engines[u] # NoEngine => x.phase = "dispose" /\ x.engine = engines[u]
  BY <1>3 DEF Changes, NoChange
<1> HIDE DEF x
<1> QED BY <1>1, <1>2, <1>4

(* The history of a row has nothing to do with the cache that is popped. *)
LEMMA InvalidateStep ==
    ASSUME ApiInv, RegistryInv, NEW o \in Operators, Invalidate(o)
    PROVE  RegistryInv'
<1>1. PICK x \in Changes : change' = [change EXCEPT ![o] = x] /\ x.phase \in {"none", "dispose"}
  BY Flushed
<1>2. change[o].phase = "invalidate" /\ registry' = registry /\ trail' = trail
  BY DEF Invalidate
<1>3. ASSUME NEW t \in Tenants PROVE Forgiven(t, excused) => Forgiven(t, excused')
  BY ExcusesAfterFlush DEF Forgiven
<1> QED BY <1>1, <1>2, <1>3, AuditedStep

(* Nor with the engine that is disposed. *)
LEMMA DisposeStep ==
    ASSUME RegistryInv, NEW o \in Operators, Dispose(o)
    PROVE  RegistryInv'
<1>1. /\ change[o].phase = "dispose" /\ registry' = registry /\ trail' = trail
      /\ excused' = excused /\ change' = [change EXCEPT ![o] = NoChange]
  BY DEF Dispose
<1>2. NoChange \in Changes /\ NoChange.phase = "none"
  BY DEF Changes, NoChange
<1> QED BY <1>1, <1>2, AuditedStep

(* A flush pops the engine, which is then to be disposed; whoever is between
   two awaits with what it popped is on record. *)
LEMMA CacheOnInvalidate ==
    ASSUME ApiInv, RegistryInv, NEW o \in Operators, Invalidate(o)
    PROVE  ApiInv'
<1> DEFINE u == change[o].tenant
<1>1. /\ u \in Tenants /\ change[o].phase = "invalidate"
      /\ engines' = [engines EXCEPT ![u] = NoEngine] /\ sessionmakers' = engines'
      /\ change \in [Operators -> Changes]
  BY Flushed
<1>2. PICK x \in Changes : /\ change' = [change EXCEPT ![o] = x]
                           /\ engines[u] # NoEngine => x.phase = "dispose" /\ x.engine = engines[u]
  BY Flushed
<1>3. /\ change'[o] = x
      /\ \A p \in Operators : change[p].phase = "dispose" => change'[p] = change[p]
      /\ \A t : t # u /\ FlushDue(t, change) => FlushDue(t, change')
  BY <1>1, <1>2, DueAfter
<1>4. /\ \A t : /\ <<t, "overlap">> \in excused => <<t, "overlap">> \in excused'
                /\ <<t, "held">> \in excused => <<t, "held">> \in excused'
                /\ t # u /\ Stale(t, excused) => Stale(t, excused')
      /\ \A c \in Callers : lookup[c].phase = "held" /\ lookup[c].tenant = u
                            => <<u, "held">> \in excused'
      /\ \A c \in Callers : lookup[c].phase = "reveal" /\ lookup[c].tenant = u
                            /\ lookup[c].since < epoch[u] => <<u, "late">> \in excused'
  BY ExcusesAfterFlush
<1>5. /\ UNCHANGED <<made, lookup, epoch>> /\ engines \in [Tenants -> Nat]
      /\ epoch \in [Tenants -> Nat] /\ made \in Seq(CacheRow)
  BY DEF Invalidate, ApiInv, CacheTypes
<1> HIDE DEF u
<1>6. /\ engines' \in [Tenants -> Nat] /\ engines'[u] = NoEngine
      /\ \A t \in Tenants \ {u} : engines'[t] = engines[t]
  BY <1>1, <1>5 DEF NoEngine
<1>7. CacheTypes'
  BY <1>1, <1>5, <1>6 DEF ApiInv, CacheTypes
<1>8. ASSUME NEW t \in Tenants PROVE CachedOK(t, engines'[t], made', epoch'[t], change', excused')
  <2>1. CachedOK(t, engines[t], made, epoch[t], change, excused)
    BY DEF ApiInv
  <2>2. CASE t = u
    BY <1>5, <1>6, <2>2 DEF CachedOK, NoEngine
  <2>3. CASE t # u
    BY <1>3, <1>4, <1>5, <1>6, <2>1, <2>3 DEF CachedOK
  <2> QED BY <2>2, <2>3
<1>9. ASSUME NEW c \in Callers PROVE RevealOK(lookup'[c], engines', epoch', change', excused')
  <2>1. RevealOK(lookup[c], engines, epoch, change, excused)
    BY DEF ApiInv
  <2> SUFFICES ASSUME lookup[c].phase = "reveal"
               PROVE  RevealOK(lookup[c], engines', epoch, change', excused')
    BY <1>5 DEF RevealOK
  <2>2. CASE lookup[c].tenant = u
    <3>1. lookup[c].since \in Nat /\ epoch[u] \in Nat /\ lookup[c].since <= epoch[u]
      BY <1>1, <1>5, <2>1, <2>2 DEF RevealOK
    <3>2. lookup[c].since = epoch[u] \/ <<u, "late">> \in excused'
      BY <1>4, <2>2, <3>1
    <3> QED BY <1>1, <1>6, <2>2, <3>1, <3>2 DEF RevealOK, Stale
  <2>3. CASE lookup[c].tenant # u
    BY <1>3, <1>4, <1>6, <2>1, <2>3 DEF RevealOK
  <2> QED BY <2>2, <2>3
<1>10. ASSUME NEW c \in Callers PROVE HeldOK(lookup'[c], made', engines', excused')
  <2>1. HeldOK(lookup[c], made, engines, excused)
    BY DEF ApiInv
  <2>2. CASE lookup[c].tenant = u
    BY <1>4, <1>5, <2>1, <2>2 DEF HeldOK, Loose
  <2>3. CASE lookup[c].tenant # u
    BY <1>4, <1>5, <1>6, <2>1, <2>3 DEF HeldOK, Loose
  <2> QED BY <2>2, <2>3
<1>11. Overlapping(lookup', excused')
  BY <1>4, <1>5 DEF ApiInv, Overlapping
<1>12. ASSUME NEW e \in DOMAIN made' PROVE PoolOK(e, made'[e], engines', change', excused')
  <2>1. PoolOK(e, made[e], engines, change, excused) /\ e # NoEngine /\ made[e].tenant \in Tenants
    <3>1. e \in 1..Len(made) /\ Len(made) \in Nat /\ made[e] \in CacheRow
      BY <1>5
    <3>2. PoolOK(e, made[e], engines, change, excused)
      BY <1>5 DEF ApiInv
    <3> QED BY <3>1, <3>2 DEF CacheRow, NoEngine
  <2> SUFFICES ASSUME made[e].pool = "open" PROVE PoolOK(e, made[e], engines', change', excused')
    BY <1>5 DEF PoolOK
  <2>2. CASE engines[made[e].tenant] = e /\ made[e].tenant = u
    BY <1>2, <1>3, <2>1, <2>2 DEF PoolOK
  <2>3. CASE engines[made[e].tenant] = e /\ made[e].tenant # u
    BY <1>6, <2>1, <2>3 DEF PoolOK
  <2>4. CASE \E p \in Operators : change[p].phase = "dispose" /\ change[p].engine = e
    BY <1>3, <2>4 DEF PoolOK
  <2>5. CASE Loose(made[e].tenant, excused)
    BY <1>4, <2>5 DEF PoolOK, Loose
  <2> QED BY <2>1, <2>2, <2>3, <2>4, <2>5 DEF PoolOK
<1> QED BY <1>7, <1>8, <1>9, <1>10, <1>11, <1>12 DEF ApiInv

(* An engine is closed, by its dispose or otherwise. *)
LEMMA EngineCloses ==
    ASSUME ApiInv, NEW k, NEW v \in Pool, v # "open", made' = Pooled(made, k, v),
           UNCHANGED <<sessionmakers, engines, lookup, epoch, excused>>,
           \A t : FlushDue(t, change) => FlushDue(t, change'),
           \A p \in Operators : change[p].phase = "dispose" /\ change[p].engine # k
                               => change'[p] = change[p]
    PROVE  ApiInv'
<1>1. made \in Seq(CacheRow)
  BY DEF ApiInv, CacheTypes
<1>2. /\ made' \in Seq(CacheRow) /\ Len(made') = Len(made)
      /\ \A e \in 1..Len(made) :
             /\ made'[e].tenant = made[e].tenant /\ made'[e].since = made[e].since
             /\ e # k => made'[e] = made[e]
             /\ e = k => made'[e].pool = v
  <2>1. LET r == Pooled(made, k, v)
        IN  /\ r \in Seq(CacheRow) /\ Len(r) = Len(made)
            /\ \A e \in 1..Len(made) : /\ r[e].tenant = made[e].tenant /\ r[e].since = made[e].since
                                       /\ e # k => r[e] = made[e]
                                       /\ e = k => r[e].pool = v
    BY <1>1, PoolSet
  <2> QED BY <2>1
<1>3. Len(made) \in Nat /\ DOMAIN made = 1..Len(made) /\ DOMAIN made' = 1..Len(made)
  BY <1>1, <1>2
<1>6. CacheTypes'
  BY <1>2 DEF ApiInv, CacheTypes
<1>7. ASSUME NEW t \in Tenants PROVE CachedOK(t, engines'[t], made', epoch'[t], change', excused')
  <2>1. CachedOK(t, engines[t], made, epoch[t], change, excused) /\ engines[t] \in Nat
    BY DEF ApiInv, CacheTypes
  <2>2. engines[t] # NoEngine => engines[t] \in 1..Len(made)
    BY <1>3, <2>1 DEF CachedOK, NoEngine
  <2> QED BY <1>2, <2>1, <2>2 DEF CachedOK
<1>8. ASSUME NEW c \in Callers PROVE RevealOK(lookup'[c], engines', epoch', change', excused')
  BY DEF ApiInv, RevealOK
<1>9. ASSUME NEW c \in Callers PROVE HeldOK(lookup'[c], made', engines', excused')
  BY <1>2, <1>3 DEF ApiInv, HeldOK
<1>10. ASSUME NEW e \in DOMAIN made' PROVE PoolOK(e, made'[e], engines', change', excused')
  <2>1. PoolOK(e, made[e], engines, change, excused)
    BY <1>3 DEF ApiInv
  <2>2. CASE e = k
    BY <1>2, <1>3, <2>2 DEF PoolOK
  <2>3. CASE e # k
    BY <1>2, <1>3, <2>1, <2>3 DEF PoolOK
  <2> QED BY <2>2, <2>3
<1>11. Overlapping(lookup', excused')
  BY DEF ApiInv, Overlapping
<1> QED BY <1>6, <1>7, <1>8, <1>9, <1>10, <1>11 DEF ApiInv

(* The engine that was popped is closed. *)
LEMMA CacheOnDispose ==
    ASSUME ApiInv, RegistryInv, NEW o \in Operators, Dispose(o)
    PROVE  ApiInv'
<1> DEFINE k == change[o].engine
           v == "closed"
<1>1. /\ change[o].phase = "dispose" /\ change' = [change EXCEPT ![o] = NoChange]
      /\ made' = Pooled(made, k, v) /\ v \in Pool /\ v # "open"
      /\ UNCHANGED <<sessionmakers, engines, lookup, epoch, excused>>
      /\ change \in [Operators -> Changes] /\ NoChange \in Changes
  BY DEF Dispose, RegistryInv, RegistryTypes, Changes, Pooled, Pool
<1>2. \A p \in Operators \ {o} : change'[p] = change[p]
  BY <1>1, OneChange
<1>3. \A t : FlushDue(t, change) => FlushDue(t, change')
  BY <1>1, <1>2 DEF FlushDue
<1>4. ASSUME NEW p \in Operators, change[p].phase = "dispose", change[p].engine # k
      PROVE  change'[p] = change[p]
  BY <1>2, <1>4
<1> HIDE DEF k, v
<1> QED BY <1>1, <1>3, <1>4, EngineCloses

(* The engines as they are, or with one of them connected. *)
SameEngines(rows, rows1) ==
    /\ rows1 \in Seq(CacheRow) /\ Len(rows1) = Len(rows)
    /\ \A e \in 1..Len(rows) : rows1[e].tenant = rows[e].tenant /\ rows1[e].since = rows[e].since

(* A caller moves on with an engine that is accounted for, or gives up its own. *)
LEMMA CallerMoves ==
    ASSUME ApiInv, NEW c \in Callers, NEW l, lookup' = [lookup EXCEPT ![c] = l],
           UNCHANGED <<sessionmakers, engines, change, epoch, excused>>,
           SameEngines(made, made'),
           \A e \in 1..Len(made) : \/ made'[e].pool = made[e].pool
                                   \/ engines[made[e].tenant] = e
                                   \/ Loose(made[e].tenant, excused),
           l.phase # "reveal", HeldOK(l, made, engines, excused)
    PROVE  ApiInv'
<1>1. /\ made \in Seq(CacheRow) /\ Len(made) \in Nat /\ DOMAIN made = 1..Len(made)
      /\ made' \in Seq(CacheRow) /\ DOMAIN made' = 1..Len(made) /\ Len(made') = Len(made)
      /\ \A e \in 1..Len(made) : made'[e].tenant = made[e].tenant /\ made'[e].since = made[e].since
      /\ lookup = [d \in Callers |-> lookup[d]]
  BY DEF ApiInv, CacheTypes, SameEngines
<1>2. lookup' = [d \in Callers |-> lookup'[d]] /\ lookup'[c] = l
      /\ \A d \in Callers \ {c} : lookup'[d] = lookup[d]
  BY <1>1
<1>3. CacheTypes'
  BY <1>1, <1>2 DEF ApiInv, CacheTypes
<1>4. ASSUME NEW t \in Tenants PROVE CachedOK(t, engines'[t], made', epoch'[t], change', excused')
  <2>1. CachedOK(t, engines[t], made, epoch[t], change, excused) /\ engines[t] \in Nat
    BY DEF ApiInv, CacheTypes
  <2>2. engines[t] # NoEngine => engines[t] \in 1..Len(made)
    BY <1>1, <2>1 DEF CachedOK, NoEngine
  <2> QED BY <1>1, <2>1, <2>2 DEF CachedOK
<1>5. ASSUME NEW d \in Callers PROVE RevealOK(lookup'[d], engines', epoch', change', excused')
  <2>1. CASE d = c
    BY <1>2, <2>1 DEF RevealOK
  <2>2. CASE d # c
    BY <1>2, <2>2 DEF ApiInv
  <2> QED BY <2>1, <2>2
<1>6. ASSUME NEW d \in Callers PROVE HeldOK(lookup'[d], made', engines', excused')
  <2>1. HeldOK(lookup'[d], made, engines, excused)
    BY <1>2 DEF ApiInv
  <2> QED BY <2>1, <1>1 DEF HeldOK
<1>7. Overlapping(lookup', excused')
  <2>1. ASSUME NEW d \in Callers, lookup'[d].phase = "reveal" PROVE lookup'[d] = lookup[d]
    BY <1>2, <2>1
  <2>2. Overlapping(lookup, excused)
    BY DEF ApiInv
  <2> QED BY <2>1, <2>2 DEF Overlapping
<1>8. ASSUME NEW e \in DOMAIN made' PROVE PoolOK(e, made'[e], engines', change', excused')
  <2>1. PoolOK(e, made[e], engines, change, excused)
    BY <1>1 DEF ApiInv
  <2> QED BY <1>1, <2>1 DEF PoolOK
<1> QED BY <1>3, <1>4, <1>5, <1>6, <1>7, <1>8 DEF ApiInv

(* Nothing connected. *)
LEMMA EnginesAsTheyAre == ASSUME ApiInv, made' = made PROVE SameEngines(made, made')
  BY DEF ApiInv, CacheTypes, SameEngines

(* One engine connected. *)
LEMMA OneConnected ==
    ASSUME ApiInv, NEW k, NEW embeds, made' = Connected(made, k, embeds)
    PROVE  /\ SameEngines(made, made')
           /\ \A e \in 1..Len(made) : e # k => made'[e].pool = made[e].pool
<1> DEFINE v == "open"
<1>0. v \in Pool /\ made \in Seq(CacheRow)
  BY DEF Pool, ApiInv, CacheTypes
<1>1. made' = made \/ made' = Pooled(made, k, v)
  BY DEF Connected, Pooled
<1> HIDE DEF v
<1>2. LET r == Pooled(made, k, v)
      IN  /\ r \in Seq(CacheRow) /\ Len(r) = Len(made)
          /\ \A e \in 1..Len(made) : /\ r[e].tenant = made[e].tenant /\ r[e].since = made[e].since
                                     /\ e # k => r[e] = made[e]
                                     /\ e = k => r[e].pool = v
  BY <1>0, PoolSet
<1> QED BY <1>0, <1>1, <1>2 DEF SameEngines

(* A call that is over holds no engine. *)
LEMMA CacheOnRelease ==
    ASSUME ApiInv, NEW c \in Callers, Release(c),
           UNCHANGED <<sessionmakers, engines, made, change, epoch, excused>>
    PROVE  ApiInv'
<1>1. lookup' = [lookup EXCEPT ![c] = NoLookup] /\ NoLookup.phase = "none"
  BY DEF Release, NoLookup
<1>2. HeldOK(NoLookup, made, engines, excused)
  BY <1>1 DEF HeldOK
<1> QED BY <1>1, <1>2, EnginesAsTheyAre, CallerMoves

(* A call that finds its engine cached. *)
LEMMA CacheOnHit ==
    ASSUME ApiInv, NEW c \in Callers, NEW t \in Tenants, NEW embeds, Hit(c, t, embeds),
           UNCHANGED <<change, epoch>>
    PROVE  ApiInv'
<1> DEFINE k == engines[t]
           l == Holds(t, k, embeds)
<1>1. /\ k # NoEngine /\ lookup' = [lookup EXCEPT ![c] = l]
      /\ made' = Connected(made, k, embeds)
      /\ UNCHANGED <<sessionmakers, engines, excused>>
  BY DEF Hit, ApiInv, CacheTypes
<1>2. CachedOK(t, k, made, epoch[t], change, excused) /\ k \in Nat /\ made \in Seq(CacheRow)
  BY DEF ApiInv, CacheTypes
<1>3. k \in 1..Len(made) /\ k \in DOMAIN made /\ made[k].tenant = t
  BY <1>1, <1>2 DEF CachedOK, NoEngine
<1>4. l.phase \in {"held", "session"} /\ l.tenant = t /\ l.engine = k /\ "phase" \in DOMAIN l
  BY DEF Holds
<1> HIDE DEF l
<1>5. HeldOK(l, made, engines, excused)
  BY <1>3, <1>4 DEF HeldOK
<1> HIDE DEF k
<1>6. /\ SameEngines(made, made')
      /\ \A e \in 1..Len(made) : e # k => made'[e].pool = made[e].pool
  BY <1>1, OneConnected
<1>7. engines[made[k].tenant] = k
  BY <1>3 DEF k
<1> QED BY <1>1, <1>4, <1>5, <1>6, <1>7, CallerMoves

(* A search whose query is embedded opens its session. *)
LEMMA CacheOnOpen ==
    ASSUME ApiInv, NEW c \in Callers, OpenSession(c)
    PROVE  ApiInv'
<1> DEFINE k == lookup[c].engine
           l == [lookup[c] EXCEPT !.phase = "session"]
           now == FALSE
<1>1. /\ lookup[c].phase = "held" /\ lookup' = [lookup EXCEPT ![c] = l]
      /\ made' = Connected(made, k, now)
      /\ UNCHANGED <<sessionmakers, engines, change, epoch, excused>>
  BY DEF OpenSession
<1>2. HeldOK(lookup[c], made, engines, excused)
  BY DEF ApiInv
<1>3. /\ l.phase = "session" /\ made[k].tenant = lookup[c].tenant
      /\ engines[made[k].tenant] = k \/ Loose(made[k].tenant, excused)
  BY <1>1, <1>2 DEF HeldOK
<1> HIDE DEF l, k, now
<1>4. HeldOK(l, made, engines, excused)
  BY <1>3 DEF HeldOK
<1>5. /\ SameEngines(made, made')
      /\ \A e \in 1..Len(made) : e # k => made'[e].pool = made[e].pool
  BY <1>1, OneConnected
<1> QED BY <1>1, <1>3, <1>4, <1>5, CallerMoves

(* A call that misses: the second one of a tenant is on record. *)
LEMMA CacheOnMiss ==
    ASSUME ApiInv, NEW c \in Callers, NEW t \in Tenants, NEW embeds, Miss(c, t, embeds),
           UNCHANGED <<change, epoch>>
    PROVE  ApiInv'
<1> DEFINE l == [phase |-> "reveal", tenant |-> t, since |-> epoch[t], embeds |-> embeds]
<1>1. /\ engines[t] = NoEngine /\ lookup' = [lookup EXCEPT ![c] = l]
      /\ excused' = IF Missing(t) = {} THEN excused ELSE excused \union {<<t, "overlap">>}
      /\ UNCHANGED <<sessionmakers, engines, made>>
      /\ lookup = [d \in Callers |-> lookup[d]] /\ epoch[t] \in Nat
  BY DEF Miss, ApiInv, CacheTypes
<1>2. l.phase = "reveal" /\ l.tenant = t /\ l.since = epoch[t]
  OBVIOUS
<1> HIDE DEF l
<1>3. lookup' = [d \in Callers |-> lookup'[d]] /\ lookup'[c] = l
      /\ \A d \in Callers \ {c} : lookup'[d] = lookup[d]
  BY <1>1
<1>4. excused \subseteq excused'
  BY <1>1
<1>5. CacheTypes'
  BY <1>1, <1>3 DEF ApiInv, CacheTypes
<1>6. ASSUME NEW u \in Tenants PROVE CachedOK(u, engines'[u], made', epoch'[u], change', excused')
  BY <1>1, <1>4 DEF ApiInv, CachedOK, Stale
<1>7. ASSUME NEW d \in Callers PROVE RevealOK(lookup'[d], engines', epoch', change', excused')
  <2>1. CASE d = c
    BY <1>1, <1>2, <1>3, <2>1 DEF RevealOK
  <2>2. CASE d # c
    BY <1>1, <1>3, <1>4, <2>2 DEF ApiInv, RevealOK, Stale
  <2> QED BY <2>1, <2>2
<1>8. ASSUME NEW d \in Callers PROVE HeldOK(lookup'[d], made', engines', excused')
  <2>1. CASE d = c
    BY <1>2, <1>3, <2>1 DEF HeldOK
  <2>2. CASE d # c
    BY <1>1, <1>3, <1>4, <2>2 DEF ApiInv, HeldOK, Loose
  <2> QED BY <2>1, <2>2
<1>9. Overlapping(lookup', excused')
  <2>1. ASSUME NEW d \in Callers \ {c}, lookup[d].phase = "reveal", lookup[d].tenant = t
        PROVE  <<t, "overlap">> \in excused'
    <3>1. d \in Missing(t)
      BY <2>1 DEF Missing
    <3> QED BY <1>1, <3>1
  <2>2. Overlapping(lookup, excused)
    BY DEF ApiInv
  <2> SUFFICES ASSUME NEW d \in Callers, NEW e \in Callers, d # e,
                      lookup'[d].phase = "reveal", lookup'[e].phase = "reveal",
                      lookup'[d].tenant = lookup'[e].tenant
               PROVE  <<lookup'[d].tenant, "overlap">> \in excused'
    BY DEF Overlapping
  <2>3. CASE d # c /\ e # c
    BY <1>3, <1>4, <2>2, <2>3 DEF Overlapping
  <2>4. CASE d = c
    BY <1>2, <1>3, <2>1, <2>4
  <2>5. CASE e = c
    BY <1>2, <1>3, <2>1, <2>5
  <2> QED BY <2>3, <2>4, <2>5
<1>10. ASSUME NEW e \in DOMAIN made' PROVE PoolOK(e, made'[e], engines', change', excused')
  BY <1>1, <1>4 DEF ApiInv, PoolOK, Loose
<1> QED BY <1>5, <1>6, <1>7, <1>8, <1>9, <1>10 DEF ApiInv

(* The engines with one more, which may be connected already. *)
LEMMA OneMore ==
    ASSUME NEW rows \in Seq(CacheRow), NEW x \in CacheRow, NEW embeds
    PROVE  LET r == Connected(Append(rows, x), Len(rows) + 1, embeds)
           IN  /\ r \in Seq(CacheRow) /\ Len(r) = Len(rows) + 1
               /\ \A e \in 1..Len(rows) : /\ r[e].tenant = rows[e].tenant
                                          /\ r[e].since = rows[e].since
                                          /\ r[e].pool = rows[e].pool
               /\ r[Len(rows) + 1].tenant = x.tenant /\ r[Len(rows) + 1].since = x.since
<1> DEFINE more == Append(rows, x)
           k == Len(rows) + 1
           v == "open"
           open == Pooled(more, k, v)
           r == Connected(more, k, embeds)
<1>2. /\ more \in Seq(CacheRow) /\ Len(more) = k /\ more[k] = x /\ k \in 1..k
      /\ \A e \in 1..Len(rows) : more[e] = rows[e] /\ e # k /\ e \in 1..k
      /\ k = Len(rows) + 1
  OBVIOUS
<1>3. v \in Pool
  BY DEF Pool
<1> HIDE DEF more, k, v
<1>4. /\ open \in Seq(CacheRow) /\ Len(open) = Len(more)
      /\ \A e \in 1..Len(more) : /\ open[e].tenant = more[e].tenant /\ open[e].since = more[e].since
                                 /\ e # k => open[e] = more[e]
  BY <1>2, <1>3, PoolSet
<1>5. r = more \/ r = open
  BY DEF Connected, Pooled, v
<1> HIDE DEF r, open
<1>6. /\ r \in Seq(CacheRow) /\ Len(r) = k
      /\ \A e \in 1..Len(rows) : /\ r[e].tenant = rows[e].tenant
                                 /\ r[e].since = rows[e].since
                                 /\ r[e].pool = rows[e].pool
      /\ r[k].tenant = x.tenant /\ r[k].since = x.since
  BY <1>2, <1>4, <1>5
<1> QED BY <1>2, <1>6 DEF r, more, k

(* The credentials have come: an engine that is replaced is on record. *)
LEMMA CacheOnStore ==
    ASSUME ApiInv, NEW c \in Callers, StoreEngine(c)
    PROVE  ApiInv'
<1> DEFINE t == lookup[c].tenant
           k == Len(made) + 1
           b == lookup[c].embeds
           l == Holds(t, k, b)
           x == [tenant |-> t, since |-> lookup[c].since, pool |-> "unused"]
<1>1. /\ lookup[c].phase = "reveal"
      /\ made' = Connected(Append(made, x), k, b)
      /\ engines' = [engines EXCEPT ![t] = k] /\ sessionmakers' = [sessionmakers EXCEPT ![t] = k]
      /\ lookup' = [lookup EXCEPT ![c] = l]
      /\ UNCHANGED <<change, epoch, excused>>
  BY DEF StoreEngine, CreateEngine
<1>2. /\ made \in Seq(CacheRow) /\ engines \in [Tenants -> Nat] /\ sessionmakers = engines
      /\ epoch \in [Tenants -> Nat] /\ lookup = [d \in Callers |-> lookup[d]]
      /\ DOMAIN made = 1..Len(made) /\ Len(made) \in Nat
  BY DEF ApiInv, CacheTypes
<1>3. RevealOK(lookup[c], engines, epoch, change, excused)
  BY DEF ApiInv
<1>4. /\ t \in Tenants /\ lookup[c].since \in Nat
      /\ lookup[c].since = epoch[t] \/ FlushDue(t, change) \/ Stale(t, excused)
      /\ engines[t] # NoEngine => <<t, "overlap">> \in excused
  BY <1>1, <1>3 DEF RevealOK
<1>5. l.phase \in {"held", "session"} /\ l.tenant = t /\ l.engine = k /\ "phase" \in DOMAIN l
  BY DEF Holds
<1>6. /\ made' \in Seq(CacheRow) /\ Len(made') = Len(made) + 1
      /\ \A e \in 1..Len(made) : /\ made'[e].tenant = made[e].tenant
                                 /\ made'[e].since = made[e].since
                                 /\ made'[e].pool = made[e].pool
      /\ made'[k].tenant = t /\ made'[k].since = lookup[c].since
  <2>1. x \in CacheRow /\ x.tenant = t /\ x.since = lookup[c].since
    BY <1>4 DEF CacheRow, Pool
  <2> HIDE DEF t, b, l, x
  <2>2. LET r == Connected(Append(made, x), Len(made) + 1, b)
        IN  /\ r \in Seq(CacheRow) /\ Len(r) = Len(made) + 1
            /\ \A e \in 1..Len(made) : /\ r[e].tenant = made[e].tenant
                                       /\ r[e].since = made[e].since
                                       /\ r[e].pool = made[e].pool
            /\ r[Len(made) + 1].tenant = x.tenant /\ r[Len(made) + 1].since = x.since
    BY <1>2, <2>1, OneMore
  <2> QED BY <1>1, <2>1, <2>2
<1> HIDE DEF t, b, l, x
<1>7. k = Len(made) + 1 /\ k \in Nat /\ k # NoEngine /\ DOMAIN made' = 1..k /\ k \notin 1..Len(made)
      /\ Len(made') = k
  BY <1>2, <1>6 DEF NoEngine
<1> HIDE DEF k
<1>8. /\ engines' \in [Tenants -> Nat] /\ engines'[t] = k /\ sessionmakers' = engines'
      /\ \A u \in Tenants \ {t} : engines'[u] = engines[u]
      /\ lookup' = [d \in Callers |-> lookup'[d]] /\ lookup'[c] = l
      /\ \A d \in Callers \ {c} : lookup'[d] = lookup[d]
  BY <1>1, <1>2, <1>4, <1>7
<1>9. CacheTypes'
  BY <1>1, <1>2, <1>6, <1>8 DEF CacheTypes
<1>10. ASSUME NEW u \in Tenants PROVE CachedOK(u, engines'[u], made', epoch'[u], change', excused')
  <2>1. CASE u = t
    BY <1>1, <1>4, <1>6, <1>7, <1>8, <2>1 DEF CachedOK
  <2>2. CASE u # t
    <3>1. CachedOK(u, engines[u], made, epoch[u], change, excused) /\ engines[u] \in Nat
      BY <1>2 DEF ApiInv
    <3>2. engines[u] # NoEngine => engines[u] \in 1..Len(made)
      BY <1>2, <3>1 DEF CachedOK, NoEngine
    <3> QED BY <1>1, <1>2, <1>6, <1>7, <1>8, <2>2, <3>1, <3>2 DEF CachedOK
  <2> QED BY <2>1, <2>2
<1>11. ASSUME NEW d \in Callers PROVE RevealOK(lookup'[d], engines', epoch', change', excused')
  <2>1. CASE d = c
    BY <1>5, <1>8, <2>1 DEF RevealOK
  <2>2. CASE d # c
    <3>1. RevealOK(lookup[d], engines, epoch, change, excused)
      BY DEF ApiInv
    <3>2. CASE lookup[d].phase = "reveal" /\ lookup[d].tenant = t
      <4>1. Overlapping(lookup, excused) /\ lookup[c].phase = "reveal" /\ lookup[c].tenant = t
        BY <1>1 DEF ApiInv, t
      <4>2. <<t, "overlap">> \in excused
        BY <2>2, <3>2, <4>1 DEF Overlapping
      <4> QED BY <1>1, <1>8, <2>2, <3>1, <3>2, <4>2 DEF RevealOK
    <3>3. CASE ~(lookup[d].phase = "reveal" /\ lookup[d].tenant = t)
      BY <1>1, <1>8, <2>2, <3>1, <3>3 DEF RevealOK
    <3> QED BY <3>2, <3>3
  <2> QED BY <2>1, <2>2
<1>12. ASSUME NEW d \in Callers PROVE HeldOK(lookup'[d], made', engines', excused')
  <2>1. CASE d = c
    BY <1>4, <1>5, <1>6, <1>7, <1>8, <2>1 DEF HeldOK
  <2>2. CASE d # c
    <3>1. HeldOK(lookup[d], made, engines, excused)
      BY DEF ApiInv
    <3> SUFFICES ASSUME lookup[d].phase = "held" PROVE HeldOK(lookup[d], made', engines', excused)
      BY <1>1, <1>8, <2>2 DEF HeldOK
    <3> DEFINE q == lookup[d].engine
               u == lookup[d].tenant
    <3>2. /\ "phase" \in DOMAIN lookup[d] /\ u \in Tenants /\ q \in 1..Len(made)
          /\ made[q].tenant = u
          /\ engines[u] = q \/ Loose(u, excused)
      BY <1>2, <3>1 DEF HeldOK
    <3> HIDE DEF q, u
    <3>3. q \in DOMAIN made' /\ made'[q].tenant = u /\ q # NoEngine
      <4>1. q \in 1..k /\ q # NoEngine
        BY <1>2, <1>7, <3>2 DEF NoEngine
      <4> QED BY <1>6, <1>7, <3>2, <4>1
    <3>4. engines'[u] = q \/ Loose(u, excused)
      BY <1>4, <1>8, <3>2, <3>3 DEF Loose
    <3> QED BY <3>2, <3>3, <3>4 DEF HeldOK, q, u
  <2> QED BY <2>1, <2>2
<1>13. Overlapping(lookup', excused')
  <2>1. ASSUME NEW d \in Callers, lookup'[d].phase = "reveal" PROVE lookup'[d] = lookup[d]
    BY <1>5, <1>8, <2>1
  <2>2. Overlapping(lookup, excused)
    BY DEF ApiInv
  <2> QED BY <1>1, <2>1, <2>2 DEF Overlapping
<1>14. ASSUME NEW e \in DOMAIN made' PROVE PoolOK(e, made'[e], engines', change', excused')
  <2>1. CASE e = k
    BY <1>6, <1>8, <2>1 DEF PoolOK
  <2>2. CASE e # k
    <3>1. e \in 1..Len(made)
      BY <1>2, <1>7, <2>2
    <3>2. /\ PoolOK(e, made[e], engines, change, excused) /\ made'[e].tenant = made[e].tenant
          /\ made'[e].pool = made[e].pool /\ e # NoEngine /\ made[e].tenant \in Tenants
      <4>1. PoolOK(e, made[e], engines, change, excused)
        BY <1>2, <3>1 DEF ApiInv
      <4>2. made[e] \in CacheRow
        BY <1>2, <3>1
      <4>3. e # NoEngine
        BY <1>2, <3>1 DEF NoEngine
      <4>4. made[e].tenant \in Tenants
        BY <4>2 DEF CacheRow
      <4> QED BY <1>6, <3>1, <4>1, <4>3, <4>4
    <3>3. CASE engines[made[e].tenant] = e
      BY <1>1, <1>4, <1>8, <3>2, <3>3 DEF PoolOK, Loose
    <3>4. CASE engines[made[e].tenant] # e
      BY <1>1, <3>2, <3>4 DEF PoolOK
    <3> QED BY <3>3, <3>4
  <2> QED BY <2>1, <2>2
<1> QED BY <1>9, <1>10, <1>11, <1>12, <1>13, <1>14 DEF ApiInv

(* ------------------------- a command's engines ----------------------- *)

(* The engines of a command: it knows them all while it makes calls, and
   afterwards those that are still open. *)
Owns(r, rows) ==
    /\ r.state \in {"idle", "calls", "closing", "ended"}
    /\ r.state = "calls" => Sequence(r.own) /\ \A e \in DOMAIN rows : e \in ToSet(r.own)
    /\ r.state = "closing" =>
           Sequence(r.own) /\ \A e \in DOMAIN rows : rows[e].pool = "open" => e \in ToSet(r.own)
    /\ r.state = "ended" => \A e \in DOMAIN rows : rows[e].pool = "open" => e \in r.left

CommandInv ==
    /\ lookup = [c \in Callers |-> NoLookup]
    /\ \A c, d \in Callers : req[c] # Idle /\ req[d] # Idle => c = d
    /\ \A e \in DOMAIN made : "pool" \in DOMAIN made[e]
    /\ \A c \in Callers : Owns(req[c], made)

CacheInv ==
    /\ process \in {"api", "cli"}
    /\ process = "api" => ApiInv
    /\ process = "cli" => CommandInv

(* The one command moves on. *)
LEMMA CommandMoves ==
    ASSUME CommandInv, RequestInv, NEW c \in Callers, NEW r, req' = [req EXCEPT ![c] = r],
           req[c] # Idle \/ \A d \in Callers : req[d] = Idle,
           lookup' = lookup, \A e \in DOMAIN made' : "pool" \in DOMAIN made'[e], Owns(r, made')
    PROVE  CommandInv'
<1>1. req = [d \in Callers |-> req[d]]
  BY DEF RequestInv
<1>2. req'[c] = r /\ \A d \in Callers \ {c} : req'[d] = req[d]
  BY <1>1
<1>3. \A d \in Callers \ {c} : req[d] = Idle
  BY DEF CommandInv
<1>4. Owns(Idle, made')
  BY DEF Owns, Idle
<1>5. ASSUME NEW d \in Callers PROVE Owns(req'[d], made')
  BY <1>2, <1>3, <1>4
<1>6. \A d, e \in Callers : req'[d] # Idle /\ req'[e] # Idle => d = e
  BY <1>2, <1>3
<1> QED BY <1>5, <1>6 DEF CommandInv

(* An error leaves a command the engines it owns. *)
LEMMA ErringOwns ==
    ASSUME process = "cli", NEW r, CallingOK(r), NEW answer, NEW fault, NEW rows,
           Sequence(r.own), \A e \in DOMAIN rows : e \in ToSet(r.own)
    PROVE  Owns(Erring(r, answer, fault), rows)
<1>1. CASE r.cleanup # <<>> /\ r.wrote
  <2> DEFINE s == [r EXCEPT !.plan = r.cleanup, !.cleanup = <<>>, !.fault = TRUE]
  <2>1. Erring(r, answer, fault) = s
    BY <1>1 DEF Erring
  <2>2. s.state = "calls" /\ s.own = r.own
    BY DEF CallingOK
  <2> HIDE DEF s
  <2> QED BY <2>1, <2>2 DEF Owns
<1>2. CASE ~(r.cleanup # <<>> /\ r.wrote)
  <2> DEFINE s == [state |-> "closing", own |-> r.own, answer |-> answer, wrote |-> r.wrote,
                   fault |-> r.fault \/ fault]
  <2>1. Erring(r, answer, fault) = s
    BY <1>2 DEF Erring
  <2>2. s.state = "closing" /\ s.own = r.own
    OBVIOUS
  <2> HIDE DEF s
  <2> QED BY <2>1, <2>2 DEF Owns
<1> QED BY <1>1, <1>2

(* A call of the command connects engines of its own. *)
LEMMA CommandConnects ==
    ASSUME CommandInv, process = "cli", NEW c \in Callers, Connect(c), Release(c)
    PROVE  /\ lookup' = lookup /\ DOMAIN made' = DOMAIN made
           /\ \A e \in DOMAIN made' : "pool" \in DOMAIN made'[e]
<1> DEFINE target == IF Current(c).store = "tenant" THEN req[c].tenant ELSE Current(c).store
           opened(e) == [made[e] EXCEPT !.pool = "open"]
           hit(e) == e \in ToSet(req[c].own) /\ made[e].tenant = target
<1>1. made' = [e \in DOMAIN made |-> IF hit(e) THEN opened(e) ELSE made[e]]
  BY DEF Connect
<1>2. lookup' = [lookup EXCEPT ![c] = NoLookup] /\ lookup = [d \in Callers |-> NoLookup]
  BY DEF Release, CommandInv
<1>3. lookup' = lookup
  BY <1>2
<1>4. ASSUME NEW e \in DOMAIN made PROVE "pool" \in DOMAIN made[e] /\ "pool" \in DOMAIN opened(e)
  BY <1>4 DEF CommandInv
<1> HIDE DEF hit, opened
<1>5. DOMAIN made' = DOMAIN made
  BY <1>1
<1>6. ASSUME NEW e \in DOMAIN made PROVE made'[e] = opened(e) \/ made'[e] = made[e]
  BY <1>1, <1>6
<1> QED BY <1>3, <1>4, <1>5, <1>6

(* While it makes calls a command owns every engine. *)
LEMMA CallingOwns ==
    ASSUME CommandInv, NEW c \in Callers, req[c].state = "calls"
    PROVE  req[c] # Idle /\ Sequence(req[c].own) /\ \A e \in DOMAIN made : e \in ToSet(req[c].own)
  BY DEF CommandInv, Owns, Idle

(* A command's call succeeds, or raises an error. *)
LEMMA CommandOnFinishCall ==
    ASSUME CommandInv, RequestInv, process = "cli", NEW c \in Callers, FinishCall(c)
    PROVE  CommandInv'
<1> DEFINE r == req[c]
           s == [r EXCEPT !.plan = Tail(r.plan), !.wrote = r.wrote \/ Current(c).writes]
<1>1. r.state = "calls" /\ CallingOK(r) /\ Connect(c) /\ Release(c)
  BY StateTells DEF RequestInv, FinishCall, Pending
<1>2. /\ lookup' = lookup /\ DOMAIN made' = DOMAIN made
      /\ \A e \in DOMAIN made' : "pool" \in DOMAIN made'[e]
  BY <1>1, CommandConnects
<1>3. r # Idle /\ Sequence(r.own) /\ \A e \in DOMAIN made' : e \in ToSet(r.own)
  BY <1>1, <1>2, CallingOwns
<1>4. \/ req' = [req EXCEPT ![c] = s]
      \/ \E answer \in Current(c).raises : req' = [req EXCEPT ![c] = Erring(r, answer, FALSE)]
  BY DEF FinishCall
<1>5. s.state = "calls" /\ s.own = r.own
  <2> HIDE DEF r
  <2> QED BY <1>1 DEF CallingOK
<1> HIDE DEF s
<1>6. Owns(s, made')
  BY <1>3, <1>5 DEF Owns
<1>7. CASE req' = [req EXCEPT ![c] = s]
  BY <1>2, <1>3, <1>6, <1>7, CommandMoves
<1>8. CASE \E answer \in Current(c).raises : req' = [req EXCEPT ![c] = Erring(r, answer, FALSE)]
  <2> DEFINE fault == FALSE
  <2>1. PICK answer \in Current(c).raises : req' = [req EXCEPT ![c] = Erring(r, answer, fault)]
    BY <1>8
  <2> HIDE DEF fault
  <2> DEFINE q == Erring(r, answer, fault)
  <2>2. Owns(q, made')
    <3> HIDE DEF r
    <3> QED BY <1>1, <1>3, ErringOwns
  <2>3. req' = [req EXCEPT ![c] = q]
    BY <2>1
  <2> HIDE DEF q
  <2> QED BY <1>2, <1>3, <2>2, <2>3, CommandMoves
<1> HIDE DEF r
<1> QED BY <1>4, <1>7, <1>8

(* A command's call fails. *)
LEMMA CommandOnFailCall ==
    ASSUME CommandInv, RequestInv, process = "cli", NEW c \in Callers, FailCall(c)
    PROVE  CommandInv'
<1> DEFINE r == req[c]
           fault == TRUE
           q == Erring(r, Fault, fault)
<1>1. /\ r.state = "calls" /\ CallingOK(r) /\ Connect(c) /\ Release(c)
      /\ req' = [req EXCEPT ![c] = q]
  BY StateTells DEF RequestInv, FailCall, Pending
<1>2. /\ lookup' = lookup /\ DOMAIN made' = DOMAIN made
      /\ \A e \in DOMAIN made' : "pool" \in DOMAIN made'[e]
  BY <1>1, CommandConnects
<1>3. r # Idle /\ Sequence(r.own) /\ \A e \in DOMAIN made' : e \in ToSet(r.own)
  BY <1>1, <1>2, CallingOwns
<1> HIDE DEF fault
<1>4. Owns(q, made')
  <2> HIDE DEF r
  <2> QED BY <1>1, <1>3, ErringOwns
<1> HIDE DEF q
<1> QED BY <1>1, <1>2, <1>3, <1>4, CommandMoves

(* A command's calls are made. *)
LEMMA CommandOnFinish ==
    ASSUME CommandInv, RequestInv, process = "cli", NEW c \in Callers, Finish(c)
    PROVE  CommandInv'
<1> DEFINE r == req[c]
           fault == TRUE
           q == Erring(r, Fault, fault)
           closing == [state |-> "closing", own |-> r.own, answer |-> Answer(0, FALSE),
                       wrote |-> r.wrote, fault |-> FALSE]
<1>1. /\ r.state = "calls" /\ CallingOK(r) /\ UNCHANGED <<lookup, made>>
      /\ req' = [req EXCEPT ![c] = q] \/ req' = [req EXCEPT ![c] = closing]
  BY StateTells DEF RequestInv, Finish, routingVars
<1>2. r # Idle /\ Sequence(r.own) /\ \A e \in DOMAIN made' : e \in ToSet(r.own)
  BY <1>1, CallingOwns
<1>3. \A e \in DOMAIN made' : "pool" \in DOMAIN made'[e]
  BY <1>1 DEF CommandInv
<1> HIDE DEF fault
<1>4. Owns(q, made')
  <2> HIDE DEF r
  <2> QED BY <1>1, <1>2, ErringOwns
<1>5. closing.state = "closing" /\ closing.own = r.own
  OBVIOUS
<1> HIDE DEF q, closing
<1>6. Owns(closing, made')
  BY <1>2, <1>5 DEF Owns
<1> QED BY <1>1, <1>2, <1>3, <1>4, <1>6, CommandMoves

(* A command opens its engines. *)
LEMMA CommandOnInvoke ==
    ASSUME CommandInv, RequestInv, NEW c \in Callers, Invoke(c)
    PROVE  CommandInv'
<1>1. /\ lookup' = lookup /\ made = <<>> /\ \A d \in Callers : req[d] = Idle
  BY DEF Invoke
<1>2. PICK command \in Commands, t \in Tenants :
          \/ made' = made /\ \E code \in command.rejects : req' = [req EXCEPT ![c] = Refused(code)]
          \/ \E p \in command.plans :
                /\ made' = Opened(command, t)
                /\ req' = [req EXCEPT ![c] =
                            Calling(t, Exits(p, command), command.cleanup, FALSE,
                                    [i \in DOMAIN command.opens |-> i])]
  BY DEF Invoke
<1>3. CASE made' = made /\ \E code \in command.rejects : req' = [req EXCEPT ![c] = Refused(code)]
  <2>1. PICK code \in command.rejects : req' = [req EXCEPT ![c] = Refused(code)]
    BY <1>3
  <2> DEFINE s == Refused(code)
  <2>2. s.state = "ended"
    BY DEF Refused, Ended
  <2>3. req' = [req EXCEPT ![c] = s] /\ made' = <<>>
    BY <1>1, <1>3, <2>1
  <2>4. DOMAIN made' = {}
    <3>1. DOMAIN <<>> = {}
      OBVIOUS
    <3> QED BY <2>3, <3>1
  <2> HIDE DEF s
  <2>5. Owns(s, made')
    BY <2>2, <2>4 DEF Owns
  <2> QED BY <1>1, <2>3, <2>4, <2>5, CommandMoves
<1>4. ASSUME NEW p \in command.plans, made' = Opened(command, t),
             req' = [req EXCEPT ![c] =
                         Calling(t, Exits(p, command), command.cleanup, FALSE,
                                 [i \in DOMAIN command.opens |-> i])]
      PROVE  CommandInv'
  <2> DEFINE own == [i \in DOMAIN command.opens |-> i]
             s == Calling(t, Exits(p, command), command.cleanup, FALSE, own)
             n == Len(command.opens)
             row(i) == [tenant |-> IF command.opens[i] = "tenant" THEN t ELSE command.opens[i],
                        since |-> 0, pool |-> "unused"]
  <2>1. CommandFits(command)
    BY CommandsFit
  <2>2. n \in Nat /\ DOMAIN command.opens = 1..n
    BY <2>1 DEF CommandFits
  <2>3. made' = [i \in 1..n |-> row(i)]
    BY <1>4, <2>2 DEF Opened
  <2>4. own = [i \in 1..n |-> own[i]] /\ \A i \in 1..n : own[i] = i
    BY <2>2
  <2>5. s.state = "calls" /\ s.own = own /\ req' = [req EXCEPT ![c] = s]
    BY <1>4 DEF Calling
  <2>6. ASSUME NEW i PROVE "pool" \in DOMAIN row(i)
    OBVIOUS
  <2> HIDE DEF own, s, n, row
  <2>7. Sequence(own) /\ DOMAIN own = 1..n
    BY <2>2, <2>4, FunctionsAreSequences
  <2>8. DOMAIN made' = 1..n /\ \A i \in 1..n : made'[i] = row(i)
    BY <2>3
  <2>9. ASSUME NEW e \in DOMAIN made' PROVE e \in ToSet(own) /\ "pool" \in DOMAIN made'[e]
    BY <2>4, <2>6, <2>7, <2>8 DEF ToSet
  <2>10. Owns(s, made')
    BY <2>5, <2>7, <2>9 DEF Owns
  <2> QED BY <1>1, <2>5, <2>9, <2>10, CommandMoves
<1> QED BY <1>2, <1>3, <1>4

(* A command closes the first of those it has left. *)
LEMMA CommandOnClose ==
    ASSUME CommandInv, RequestInv, NEW c \in Callers, CloseEngine(c)
    PROVE  CommandInv'
<1> DEFINE r == req[c]
           h == Head(r.own)
           s == [r EXCEPT !.own = Tail(r.own)]
           shut == [made[h] EXCEPT !.pool = "closed"]
<1>1. /\ r.state = "closing" /\ r.own # <<>> /\ lookup' = lookup
      /\ made' = [made EXCEPT ![h] = shut] /\ req' = [req EXCEPT ![c] = s] /\ ClosingOK(r)
  BY StateTells DEF CloseEngine, RequestInv
<1>2. Owns(r, made) /\ \A e \in DOMAIN made : "pool" \in DOMAIN made[e]
  BY DEF CommandInv
<1>3. Sequence(r.own) /\ \A e \in DOMAIN made : made[e].pool = "open" => e \in ToSet(r.own)
  BY <1>1, <1>2 DEF Owns
<1>4. s.state = "closing" /\ s.own = Tail(r.own) /\ r # Idle
  <2> HIDE DEF r
  <2> QED BY <1>1 DEF ClosingOK, Idle
<1>5. h \in DOMAIN made => shut.pool = "closed" /\ "pool" \in DOMAIN shut
  BY <1>2
<1> DEFINE own == r.own
<1>6. /\ h = own[1] /\ Sequence(Tail(own)) /\ Len(own) \in Nat
      /\ DOMAIN own = 1..Len(own) /\ DOMAIN Tail(own) = 1..(Len(own) - 1)
      /\ \A i \in 1..(Len(own) - 1) : Tail(own)[i] = own[i + 1]
  <2> HIDE DEF r
  <2> QED BY <1>1, <1>3, SequenceFacts
<1> HIDE DEF s, shut, h
<1>7. /\ DOMAIN made' = DOMAIN made
      /\ \A e \in DOMAIN made : (e # h => made'[e] = made[e]) /\ (e = h => made'[e] = shut)
  BY <1>1
<1>8. ASSUME NEW e \in DOMAIN made' PROVE "pool" \in DOMAIN made'[e]
  BY <1>2, <1>5, <1>7, <1>8
<1>9. ASSUME NEW e \in DOMAIN made', made'[e].pool = "open" PROVE e \in ToSet(Tail(own))
  <2>1. e # h /\ e \in ToSet(own)
    BY <1>3, <1>5, <1>7, <1>9
  <2> HIDE DEF own
  <2>2. PICK i \in DOMAIN own : e = own[i]
    BY <2>1 DEF ToSet
  <2>3. i # 1
    BY <1>6, <2>1, <2>2
  <2>4. i - 1 \in 1..(Len(own) - 1) /\ i = (i - 1) + 1
    BY <1>6, <2>2, <2>3
  <2>5. i - 1 \in DOMAIN Tail(own) /\ Tail(own)[i - 1] = e
    BY <1>6, <2>2, <2>4
  <2> QED BY <2>5 DEF ToSet
<1>10. Owns(s, made')
  BY <1>4, <1>6, <1>9 DEF Owns
<1> HIDE DEF r
<1> QED BY <1>1, <1>4, <1>8, <1>10, CommandMoves DEF r

(* A dispose raises, or none is left. *)
LEMMA CommandOnCloseFails ==
    ASSUME CommandInv, RequestInv, NEW c \in Callers, CloseFails(c) \/ Exit(c)
    PROVE  CommandInv'
<1> DEFINE r == req[c]
<1>1. r.state = "closing" /\ UNCHANGED <<lookup, made>>
  BY DEF CloseFails, Exit, routingVars
<1>2. Owns(r, made) /\ \A e \in DOMAIN made' : "pool" \in DOMAIN made'[e]
  BY <1>1 DEF CommandInv
<1>3. r # Idle /\ \A e \in DOMAIN made' : made'[e].pool = "open" => e \in ToSet(r.own)
  BY <1>1, <1>2 DEF Owns, Idle
<1>4. CASE CloseFails(c)
  <2> DEFINE fault == TRUE
             e == Ended(Fault, r.wrote, fault)
             s == [e EXCEPT !.left = ToSet(r.own)]
  <2>1. req' = [req EXCEPT ![c] = s]
    BY <1>4 DEF CloseFails
  <2>2. s.state = "ended" /\ s.left = ToSet(r.own)
    BY DEF Ended
  <2> HIDE DEF s, r
  <2>3. Owns(s, made')
    BY <1>3, <2>2 DEF Owns
  <2> QED BY <1>1, <1>2, <1>3, <2>1, <2>3, CommandMoves DEF r
<1>5. CASE Exit(c)
  <2> DEFINE s == Ended(r.answer, r.wrote, r.fault)
  <2>1. req' = [req EXCEPT ![c] = s] /\ r.own = <<>>
    BY <1>5 DEF Exit
  <2>2. s.state = "ended"
    BY DEF Ended
  <2>3. ToSet(r.own) = {}
    <3>1. DOMAIN <<>> = {}
      OBVIOUS
    <3> QED BY <2>1, <3>1 DEF ToSet
  <2> HIDE DEF s, r
  <2>4. Owns(s, made')
    BY <1>3, <2>2, <2>3 DEF Owns
  <2> QED BY <1>1, <1>2, <1>3, <2>1, <2>4, CommandMoves DEF r
<1> QED BY <1>4, <1>5

-----------------------------------------------------------------------------
(* --------------------------- the steps ------------------------------- *)

(* A process stays what it is, and only the API's process administers. *)
LEMMA ProcessStays == ASSUME [Next]_vars PROVE process' = process
<1>1. ASSUME NEW c \in Callers, Request(c) PROVE process' = process
  BY <1>1 DEF Request, Arrive, ResolveTenant, ContextFails, StartCall, FinishCall, FailCall, Finish,
              Invoke, CloseEngine, CloseFails, Exit
<1>2. ASSUME NEW o \in Operators, Administer(o) PROVE process' = process
  BY <1>2 DEF Administer
<1> QED BY <1>1, <1>2 DEF Next, vars

(* Requests and commands leave the registry alone, and forgive more at most. *)
LEMMA RequestsKeepRegistry ==
    ASSUME NEW c \in Callers, Request(c)
    PROVE  UNCHANGED <<registry, trail, change, epoch>> /\ excused \subseteq excused'
<1>1. CASE Arrive(c) \/ ResolveTenant(c) \/ ContextFails(c) \/ Finish(c) \/ CloseFails(c) \/ Exit(c)
  BY <1>1 DEF Arrive, ResolveTenant, ContextFails, Finish, CloseFails, Exit, routingVars
<1>2. CASE StartCall(c)
  <2>1. ASSUME NEW t, NEW embeds, Hit(c, t, embeds) \/ Miss(c, t, embeds)
        PROVE  excused \subseteq excused'
    BY <2>1 DEF Hit, Miss
  <2> QED BY <1>2, <2>1 DEF StartCall
<1>3. CASE StoreEngine(c) \/ OpenSession(c)
  BY <1>3 DEF StoreEngine, OpenSession
<1>4. CASE FinishCall(c) \/ FailCall(c) \/ Invoke(c) \/ CloseEngine(c)
  BY <1>4 DEF FinishCall, FailCall, Invoke, CloseEngine
<1> QED BY <1>1, <1>2, <1>3, <1>4 DEF Request

(* Every step keeps the registry's history told. *)
LEMMA RegistryNext == RegistryInv /\ CacheInv /\ [Next]_vars => RegistryInv'
<1> SUFFICES ASSUME RegistryInv, CacheInv, [Next]_vars PROVE RegistryInv'
  OBVIOUS
<1>1. CASE UNCHANGED vars
  BY <1>1, RegistryAlone DEF vars, routingVars
<1>2. ASSUME NEW c \in Callers, Request(c) PROVE RegistryInv'
  BY <1>2, RequestsKeepRegistry, RegistryAlone
<1>3. ASSUME NEW o \in Operators, Administer(o) PROVE RegistryInv'
  <2>1. ApiInv
    BY <1>3 DEF Administer, CacheInv
  <2>2. ASSUME NEW t \in Tenants, RegisterTenant(o, t) PROVE RegistryInv'
    BY <2>2, RegisterStep
  <2>3. ASSUME NEW t \in Tenants, NEW status \in TenantStatus, ReadBefore(o, t, status)
        PROVE  RegistryInv'
    BY <2>3, ReadBeforeStep
  <2>4. CASE CommitStatus(o)
    BY <2>4, CommitStep
  <2>5. CASE UpdateFails(o)
    BY <2>5, UpdateFailsStep
  <2>6. CASE EmitAudit(o)
    BY <2>6, EmitStep
  <2>7. CASE EmitFails(o)
    BY <2>7, EmitFailsStep
  <2>8. CASE Invalidate(o)
    BY <2>1, <2>8, InvalidateStep
  <2>9. CASE Dispose(o)
    BY <2>9, DisposeStep
  <2> QED BY <1>3, <2>2, <2>3, <2>4, <2>5, <2>6, <2>7, <2>8, <2>9 DEF Administer
<1> QED BY <1>1, <1>2, <1>3 DEF Next

(* A step that leaves the routing alone. *)
LEMMA ApiSame == ASSUME ApiInv, UNCHANGED routingVars PROVE ApiInv'
<1>1. /\ UNCHANGED <<sessionmakers, engines, made, lookup, change, epoch, excused>>
      /\ epoch' \in [Tenants -> Nat]
  BY DEF routingVars, ApiInv, CacheTypes
<1> QED BY <1>1, RegistryMoves

(* A call that goes through the cache is of a tenant. *)
LEMMA CallsOfTenants ==
    ASSUME RequestInv, NEW c \in Callers, Pending(c), ThroughCache(c)
    PROVE  req[c].tenant \in Tenants
<1> DEFINE r == req[c]
<1>1. CallingOK(r) /\ r.plan # <<>> /\ Head(r.plan).store = "tenant"
  BY StateTells DEF RequestInv, Pending, ThroughCache, Current
<1>2. Sequence(r.plan) /\ TenantCalls(r.plan, r.tenant)
  BY <1>1 DEF CallingOK
<1> HIDE DEF r
<1>3. Len(r.plan) \in Nat \ {0} /\ DOMAIN r.plan = 1..Len(r.plan) /\ Head(r.plan) = r.plan[1]
  BY <1>1, <1>2, SequenceFacts
<1>4. 1 \in DOMAIN r.plan
  BY <1>3
<1>5. r.tenant \in Tenants
  BY <1>1, <1>2, <1>3, <1>4 DEF TenantCalls
<1> QED BY <1>5 DEF r

(* The API's requests keep the cache accounted for. *)
LEMMA ApiOnRequest ==
    ASSUME ApiInv, RequestInv, process = "api", NEW c \in Callers, Request(c)
    PROVE  ApiInv'
<1>1. CASE Arrive(c) \/ ResolveTenant(c) \/ ContextFails(c) \/ Finish(c) \/ CloseFails(c) \/ Exit(c)
  BY <1>1, ApiSame DEF Arrive, ResolveTenant, ContextFails, Finish, CloseFails, Exit
<1>2. CASE StartCall(c)
  <2> DEFINE t == req[c].tenant
             embeds == Current(c).embeds
  <2>1. /\ t \in Tenants /\ UNCHANGED <<change, epoch>>
        /\ Hit(c, t, embeds) \/ Miss(c, t, embeds)
    BY <1>2, CallsOfTenants DEF StartCall
  <2> HIDE DEF t, embeds
  <2> QED BY <2>1, CacheOnHit, CacheOnMiss
<1>3. CASE StoreEngine(c)
  BY <1>3, CacheOnStore
<1>4. CASE OpenSession(c)
  BY <1>4, CacheOnOpen
<1>5. CASE FinishCall(c) \/ FailCall(c)
  <2>1. /\ Release(c) /\ UNCHANGED <<sessionmakers, engines, made, change, epoch, excused>>
    BY <1>5 DEF FinishCall, FailCall, Connect
  <2> QED BY <2>1, CacheOnRelease
<1>6. CASE CloseEngine(c)
  <2> DEFINE k == Head(req[c].own)
             v == "closed"
  <2>1. /\ made' = Pooled(made, k, v) /\ v \in Pool /\ v # "open"
        /\ UNCHANGED <<sessionmakers, engines, lookup, epoch, excused, change>>
    BY <1>6 DEF CloseEngine, Pooled, Pool
  <2> HIDE DEF k, v
  <2> QED BY <2>1, EngineCloses
<1>7. ~Invoke(c)
  BY DEF Invoke
<1> QED BY <1>1, <1>2, <1>3, <1>4, <1>5, <1>6, <1>7 DEF Request

(* So do the operations of the registry. *)
LEMMA ApiOnAdminister ==
    ASSUME ApiInv, RegistryInv, NEW o \in Operators, Administer(o)
    PROVE  ApiInv'
<1>1. ASSUME NEW t \in Tenants, RegisterTenant(o, t) PROVE ApiInv'
  BY <1>1, CacheOnRegister
<1>2. ASSUME NEW t \in Tenants, NEW status \in TenantStatus, ReadBefore(o, t, status)
      PROVE  ApiInv'
  BY <1>2, CacheOnRead
<1>3. CASE CommitStatus(o)
  BY <1>3, CacheOnCommit
<1>4. CASE UpdateFails(o)
  BY <1>4, CacheOnUpdateFails
<1>5. CASE EmitAudit(o)
  BY <1>5, CacheOnEmit
<1>6. CASE EmitFails(o)
  BY <1>6, CacheOnEmitFails
<1>7. CASE Invalidate(o)
  BY <1>7, CacheOnInvalidate
<1>8. CASE Dispose(o)
  BY <1>8, CacheOnDispose
<1> QED BY <1>1, <1>2, <1>3, <1>4, <1>5, <1>6, <1>7, <1>8 DEF Administer

(* A step that leaves a command alone. *)
LEMMA CommandSame == ASSUME CommandInv, UNCHANGED <<lookup, made, req>> PROVE CommandInv'
  BY DEF CommandInv

(* A command's steps keep its engines accounted for. *)
LEMMA CommandOnRequest ==
    ASSUME CommandInv, RequestInv, process = "cli", NEW c \in Callers, Request(c)
    PROVE  CommandInv'
<1>1. lookup[c].phase = "none" /\ req[c].state \in {"idle", "calls", "closing", "ended"}
  BY DEF CommandInv, NoLookup, Owns
<1>2. ~Arrive(c) /\ ~ResolveTenant(c) /\ ~ContextFails(c) /\ ~StartCall(c) /\ ~StoreEngine(c)
      /\ ~OpenSession(c)
  BY <1>1 DEF Arrive, ResolveTenant, ContextFails, StartCall, ThroughCache, StoreEngine, OpenSession
<1>3. CASE FinishCall(c)
  BY <1>3, CommandOnFinishCall
<1>4. CASE FailCall(c)
  BY <1>4, CommandOnFailCall
<1>5. CASE Finish(c)
  BY <1>5, CommandOnFinish
<1>6. CASE Invoke(c)
  BY <1>6, CommandOnInvoke
<1>7. CASE CloseEngine(c)
  BY <1>7, CommandOnClose
<1>8. CASE CloseFails(c) \/ Exit(c)
  BY <1>8, CommandOnCloseFails
<1> QED BY <1>2, <1>3, <1>4, <1>5, <1>6, <1>7, <1>8 DEF Request

(* Every step keeps the engines accounted for. *)
LEMMA CacheNext == RegistryInv /\ RequestInv /\ CacheInv /\ [Next]_vars => CacheInv'
<1> SUFFICES ASSUME RegistryInv, RequestInv, CacheInv, [Next]_vars PROVE CacheInv'
  OBVIOUS
<1>1. process' = process
  BY ProcessStays
<1>2. ASSUME process = "api" PROVE ApiInv'
  <2>1. ApiInv
    BY <1>2 DEF CacheInv
  <2>2. CASE UNCHANGED vars
    BY <2>1, <2>2, ApiSame DEF vars
  <2> QED BY <1>2, <2>1, <2>2, ApiOnRequest, ApiOnAdminister DEF Next
<1>3. ASSUME process = "cli" PROVE CommandInv'
  <2>1. CommandInv
    BY <1>3 DEF CacheInv
  <2>2. CASE UNCHANGED vars
    BY <2>1, <2>2, CommandSame DEF vars, routingVars
  <2>3. ASSUME NEW o \in Operators PROVE ~Administer(o)
    BY <1>3 DEF Administer
  <2> QED BY <1>3, <2>1, <2>2, <2>3, CommandOnRequest DEF Next
<1> QED BY <1>1, <1>2, <1>3 DEF CacheInv

(* No engine is made yet. *)
LEMMA CacheInit == ASSUME Init PROVE CacheInv
<1> USE DEF Init, RoutingInit, NoEngine
<1>1. DOMAIN <<>> = {} /\ <<>> \in Seq(CacheRow) /\ Len(<<>>) = 0
  OBVIOUS
<1>2. CacheTypes
  BY <1>1 DEF CacheTypes
<1>3. ASSUME NEW t \in Tenants PROVE CachedOK(t, engines[t], made, epoch[t], change, excused)
  BY <1>1 DEF CachedOK
<1>4. ASSUME NEW c \in Callers
      PROVE  /\ lookup[c].phase = "none" /\ req[c] = Idle
             /\ RevealOK(lookup[c], engines, epoch, change, excused)
             /\ HeldOK(lookup[c], made, engines, excused)
             /\ Owns(req[c], made)
  BY DEF NoLookup, RevealOK, HeldOK, Owns, Idle
<1>5. Overlapping(lookup, excused)
  BY <1>4 DEF Overlapping
<1>6. ApiInv
  BY <1>1, <1>2, <1>3, <1>4, <1>5 DEF ApiInv
<1>7. CommandInv
  BY <1>1, <1>4 DEF CommandInv
<1> QED BY <1>6, <1>7 DEF CacheInv

(* No request has arrived. *)
LEMMA RequestInit == ASSUME Init PROVE RequestInv
  BY DEF Init, RequestInv, RequestOK

Inv == RegistryInv /\ RequestInv /\ CacheInv

(* The three invariants together are inductive. *)
LEMMA Invariance == Spec => []Inv
<1>1. Init => Inv
  BY RegistryInit, RequestInit, CacheInit DEF Inv
<1>2. Inv /\ [Next]_vars => Inv'
  BY RegistryNext, RequestsNext, CacheNext DEF Inv
<1> QED BY <1>1, <1>2, PTL DEF Spec

(* The audit events the registry's use cases emit tell the history of every row,
   whatever changes overlap, fail or are never audited elsewhere. *)
THEOREM TrailTellsHistory == Spec => []AuditTellsStatus
<1>1. Inv => AuditTellsStatus
  <2> SUFFICES ASSUME RegistryInv, NEW t \in Tenants, Recording(t) = {},
                      \A why \in {"unaudited", "concurrent"} : <<t, why>> \notin excused
               PROVE  LET events == trail[t]
                          Before(i) == IF i > 1 THEN events[i - 1].after
                                       ELSE IF t \in Registered THEN "active" ELSE "absent"
                      IN  /\ \A i \in DOMAIN events : events[i].before = Before(i)
                          /\ registry[t] = Before(Len(events) + 1)
    BY DEF Inv, AuditTellsStatus
  <2> DEFINE events == trail[t]
             Before(i) == IF i > 1 THEN events[i - 1].after
                          ELSE IF t \in Registered THEN "active" ELSE "absent"
  <2>1. Told(t, registry[t], events, change)
    BY DEF RegistryInv, Forgiven
  <2>2. \A o \in Operators : ~Records(change[o], t)
    BY DEF Recording, Records
  <2>3. events \in Seq(Event)
    BY DEF RegistryInv, RegistryTypes
  <2>4. Len(events) \in Nat /\ DOMAIN events = 1..Len(events)
    BY <2>3
  <2>5. ASSUME NEW i \in 1..(Len(events) + 1) PROVE Before(i) = StatusLeft(t, events, i - 1)
    <3>1. i \in Nat /\ (i > 1 <=> i - 1 > 0)
      BY <2>4
    <3> HIDE DEF events
    <3> QED BY <3>1 DEF StatusLeft
  <2> HIDE DEF events, Before
  <2>6. ASSUME NEW i \in DOMAIN events PROVE events[i].before = Before(i)
    <3>1. i \in 1..(Len(events) + 1)
      BY <2>4
    <3> QED BY <2>1, <2>5, <3>1 DEF Told
  <2>7. registry[t] = Before(Len(events) + 1)
    <3>1. Len(events) + 1 \in 1..(Len(events) + 1) /\ (Len(events) + 1) - 1 = Len(events)
      BY <2>4
    <3> QED BY <2>1, <2>2, <2>5, <3>1 DEF Told
  <2> QED BY <2>6, <2>7 DEF events, Before
<1> QED BY <1>1, Invariance, PTL

(* A change of status flushes the cached engine of its tenant, but for the
   races on record: TenantSessionFactoryCache has no lock. *)
THEOREM ChangesFlush == Spec => []FlushedByTransition
<1>1. Inv => FlushedByTransition
  <2> SUFFICES ASSUME ApiInv, NEW t \in Tenants
               PROVE  /\ sessionmakers[t] = engines[t]
                      /\ \/ engines[t] = NoEngine \/ Flushing(t) # {}
                         \/ \E why \in {"late", "unflushed"} : <<t, why>> \in excused
                         \/ made[engines[t]].since = epoch[t]
    BY DEF Inv, CacheInv, FlushedByTransition
  <2>1. CachedOK(t, engines[t], made, epoch[t], change, excused) /\ sessionmakers = engines
    BY DEF ApiInv, CacheTypes
  <2>2. FlushDue(t, change) => Flushing(t) # {}
    BY DEF FlushDue, Flushing
  <2> QED BY <2>1, <2>2 DEF CachedOK, Stale
<1> QED BY <1>1, Invariance, PTL

(* No engine with connections is forgotten, in the API's process but for the
   races on record, in a command's unless a dispose raises. *)
THEOREM EnginesAreClosed == Spec => []EnginesAccounted
<1>1. Inv => EnginesAccounted
  <2> SUFFICES ASSUME Inv, NEW e \in DOMAIN made, made[e].pool = "open"
               PROVE  IF process = "cli"
                      THEN \A c \in Callers : req[c].state = "ended" => e \in req[c].left
                      ELSE \/ engines[made[e].tenant] = e
                           \/ \E o \in Operators : change[o].phase = "dispose" /\ change[o].engine = e
                           \/ \E why \in {"overlap", "held"} : <<made[e].tenant, why>> \in excused
    BY DEF EnginesAccounted
  <2>1. CASE process = "cli"
    BY <2>1 DEF Inv, CacheInv, CommandInv, Owns
  <2>2. CASE process # "cli"
    <3>1. PoolOK(e, made[e], engines, change, excused)
      BY <2>2 DEF Inv, CacheInv, ApiInv
    <3> QED BY <2>2, <3>1 DEF PoolOK, Loose
  <2> QED BY <2>1, <2>2
<1> QED BY <1>1, Invariance, PTL
=============================================================================
