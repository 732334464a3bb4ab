--------------------------- MODULE CatalogueProofs ---------------------------
(***************************************************************************)
(* What is proved of the catalogue, for every number of operators and of   *)
(* their calls, and every order of calls and migrations.                   *)
(*                                                                         *)
(* A step of a call only lets the catalogue grow (Extends): templates are  *)
(* added or archived, and revisions are appended.  With the migrations'    *)
(* part, in MigrationProofs, that makes IInv inductive; the properties     *)
(* follow from it, those about adoption by going along the chain from the  *)
(* pinned revision to the latest.                                          *)
(***************************************************************************)
EXTENDS MigrationProofs

(* What a call leaves *)

\* A template may get revisions and be archived; nothing it has changes.
GrowsInto(t, u) ==
    /\ u.name = t.name /\ u.lineage = t.lineage
    /\ u.status = "deleted" <=> t.status = "deleted"
    /\ Len(t.revs) \in Nat /\ Len(u.revs) \in Nat /\ Len(t.revs) <= Len(u.revs)
    /\ \A v \in 1..Len(t.revs) : u.revs[v] = t.revs[v]

KindExtends(ts, us) ==
    /\ Len(ts) \in Nat /\ Len(us) \in Nat /\ Len(ts) <= Len(us)
    /\ \A i \in 1..Len(ts) : GrowsInto(ts[i], us[i])

Extends(d, e) == \A k \in Kinds : KindExtends(d[k], e[k])

(* A kind that does not change. *)
LEMMA KindExtendsItself ==
    ASSUME NEW k, NEW ts, NEW r, NEW p, NEW marks, KindFits(k, ts, r, p, marks)
    PROVE  KindExtends(ts, ts)
<1>1. Len(ts) \in Nat /\ Len(ts) <= Len(ts)
  BY ListDomain DEF KindFits
<1>2. \A i \in 1..Len(ts) : Len(ts[i].revs) \in Nat
  BY FitsAreListed, ListDomain
<1>3. \A i \in 1..Len(ts) : GrowsInto(ts[i], ts[i])
  BY <1>2 DEF GrowsInto
<1>. QED BY <1>1, <1>3 DEF KindExtends

(* Every kind of the catalogue fits, in some era. *)
LEMMA CatalogueKinds ==
    ASSUME NEW d, NEW r, NEW pr, NEW pa, NEW marks, CatalogueFits(d, r, pr, pa, marks), NEW k \in Kinds
    PROVE  \E p : KindFits(k, d[k], r, p, marks)
BY DEF CatalogueFits, Kinds

(* A catalogue that does not change. *)
LEMMA ExtendsItself ==
    ASSUME NEW d, NEW r, NEW pr, NEW pa, NEW marks, CatalogueFits(d, r, pr, pa, marks)
    PROVE  Extends(d, d)
BY CatalogueKinds, KindExtendsItself DEF Extends

(* Growing keeps what lineages need. *)
LEMMA ExtendedKept ==
    ASSUME NEW ts, NEW us, KindExtends(ts, us)
    PROVE  Keeps(ts, us) /\ SameRefs(ts, us)
<1>1. Keeps(ts, us)
  BY DEF KindExtends, Keeps, GrowsInto
<1>2. SameRefs(ts, us)
  BY DEF KindExtends, SameRefs, GrowsInto
<1>. QED BY <1>1, <1>2

(* A lineage stays rooted. *)
LEMMA LineageExtends ==
    ASSUME NEW d, NEW e, Extends(d, e), NEW r, NEW l, LineageIn(d, r, l)
    PROVE  LineageIn(e, r, l)
<1>1. KindExtends(d["role"], e["role"]) /\ KindExtends(d["methodology"], e["methodology"])
  BY DEF Extends, Kinds
<1>. QED BY <1>1, ExtendedKept, LineageInKept

(* And so do those of all agents. *)
LEMMA LineagesExtend ==
    ASSUME NEW d, NEW e, Extends(d, e), NEW r, Lineages(d, r),
           \A a \in 1..Len(e["agent"]) :
             a \in 1..Len(d["agent"]) \/ LineageIn(d, r, e["agent"][a].lineage)
    PROVE  Lineages(e, r)
<1>1. ASSUME NEW a \in 1..Len(e["agent"]) PROVE LineageIn(d, r, e["agent"][a].lineage)
  <2>1. CASE a \in 1..Len(d["agent"])
    <3>1. e["agent"][a].lineage = d["agent"][a].lineage
      BY <2>1 DEF Extends, KindExtends, GrowsInto, Kinds
    <3>. QED BY <2>1, <3>1 DEF Lineages
  <2>. QED BY <2>1
<1>. QED BY <1>1, LineageExtends DEF Lineages

(* An index of the shorter list is one of the longer. *)
LEMMA InLonger == ASSUME NEW m \in Nat, NEW n \in Nat, m <= n, NEW x \in 1..m PROVE x \in 1..n
OBVIOUS

(* A held call stays fit while others extend the catalogue. *)
LEMMA CallExtends ==
    ASSUME NEW d, NEW e, Extends(d, e), NEW r, NEW pr, NEW pa, NEW c, CallFits(d, r, pr, pa, c)
    PROVE  CallFits(e, r, pr, pa, c)
<1>1. CASE c = NoCall
  BY <1>1 DEF CallFits
<1>2. CASE c # NoCall
  <2>1. c.kind \in Kinds
    BY <1>2 DEF CallFits
  <2>2. KindExtends(d[c.kind], e[c.kind])
    BY <2>1 DEF Extends
  <2>3. ASSUME c.version = 1 PROVE CloneFits(e, r, c)
    <3>1. CloneFits(d, r, c)
      BY <1>2, <2>3 DEF CallFits
    <3>2. LineageIn(e, r, c.lineage)
      BY <3>1, LineageExtends DEF CloneFits
    <3>. QED BY <3>1, <3>2 DEF CloneFits
  <2>4. ASSUME c.version # 1 PROVE UpdateFits(e, c)
    <3>1. UpdateFits(d, c)
      BY <1>2, <2>4 DEF CallFits
    <3>2. c.id \in 1..Len(d[c.kind]) /\ c.id \in 1..Len(e[c.kind])
      BY <2>2, <3>1 DEF UpdateFits, KindExtends
    <3>3. GrowsInto(d[c.kind][c.id], e[c.kind][c.id])
      BY <2>2, <3>2 DEF KindExtends
    <3>4. ASSUME ~c.straddled PROVE Succeeds(e[c.kind][c.id], c)
      <4>1. Succeeds(d[c.kind][c.id], c)
        BY <3>1, <3>4 DEF UpdateFits
      <4>2. c.version - 1 \in 1..Len(e[c.kind][c.id].revs)
        <5>1. c.version - 1 \in 1..Len(d[c.kind][c.id].revs)
          BY <4>1 DEF Succeeds
        <5>2. /\ Len(d[c.kind][c.id].revs) \in Nat /\ Len(e[c.kind][c.id].revs) \in Nat
              /\ Len(d[c.kind][c.id].revs) <= Len(e[c.kind][c.id].revs)
          BY <3>3 DEF GrowsInto
        <5>. DEFINE x == c.version - 1
                    m == Len(d[c.kind][c.id].revs)
                    n == Len(e[c.kind][c.id].revs)
        <5>3. x \in 1..m /\ m \in Nat /\ n \in Nat /\ m <= n
          BY <5>1, <5>2
        <5>. HIDE DEF x, m, n
        <5>4. x \in 1..n
          BY <5>3, InLonger
        <5>. QED BY <5>4 DEF x, n
      <4>3. e[c.kind][c.id].revs[c.version - 1] = d[c.kind][c.id].revs[c.version - 1]
        BY <3>3, <4>1 DEF Succeeds, GrowsInto
      <4>4. e[c.kind][c.id].status # "deleted" /\ e[c.kind][c.id].name = d[c.kind][c.id].name
        BY <3>3, <4>1 DEF Succeeds, GrowsInto
      <4>. QED BY <4>1, <4>2, <4>3, <4>4 DEF Succeeds
    <3>. QED BY <3>1, <3>2, <3>4 DEF UpdateFits
  <2>. QED BY <1>2, <2>3, <2>4 DEF CallFits
<1>. QED BY <1>1, <1>2

\* A call that leaves the catalogue fit, and itself, leaves the invariant.
LEMMA CalledInv ==
    ASSUME IInv, schema' = schema, tenant' = tenant, Extends(db, db'),
           CatalogueFits(db', HasRefs, Serving, TenantPins, disturbed'),
           \A a \in 1..Len(db'["agent"]) :
             a \in 1..Len(db["agent"]) \/ LineageIn(db, HasRefs, db'["agent"][a].lineage),
           NEW o \in Operators, NEW c, call' = [call EXCEPT ![o] = c],
           CallFits(db', HasRefs, Serving, TenantPins, c)
    PROVE  IInv'
<1>1. HasRefs' = HasRefs /\ Serving' = Serving /\ TenantPins' = TenantPins
  BY DEF HasRefs, Serving, TenantPins
<1>2. Lineages(db', HasRefs')
  BY <1>1, InvOfCatalogue, LineagesExtend
<1>3. call = [p \in Operators |-> call[p]]
  BY DEF IInv
<1>4. call' = [p \in Operators |-> call'[p]] /\ \A p \in Operators : p # o => call'[p] = call[p]
  BY <1>3
<1>5. call'[o] = c
  BY <1>3
<1>6. ASSUME NEW p \in Operators
      PROVE  CallFits(db', HasRefs', Serving', TenantPins', call'[p])
  <2>1. CallFits(db, HasRefs, Serving, TenantPins, call[p])
    BY DEF IInv
  <2>2. CallFits(db', HasRefs, Serving, TenantPins, call[p])
    BY <2>1, CallExtends
  <2>. QED BY <1>1, <1>4, <1>5, <2>2
<1>7. CatalogueFits(db', HasRefs', Serving', TenantPins', disturbed')
  BY <1>1
<1>8. schema' \in 5..13 /\ tenant' \in 8..10
  BY InvOfCatalogue
<1>. QED BY <1>2, <1>4, <1>6, <1>7, <1>8 DEF IInv

\* A call step that touches no call that is held.
LEMMA NotCalledInv ==
    ASSUME IInv, schema' = schema, tenant' = tenant, Extends(db, db'),
           CatalogueFits(db', HasRefs, Serving, TenantPins, disturbed'),
           \A a \in 1..Len(db'["agent"]) :
             a \in 1..Len(db["agent"]) \/ LineageIn(db, HasRefs, db'["agent"][a].lineage),
           call' = call
    PROVE  IInv'
<1>1. HasRefs' = HasRefs /\ Serving' = Serving /\ TenantPins' = TenantPins
  BY DEF HasRefs, Serving, TenantPins
<1>2. Lineages(db', HasRefs')
  BY <1>1, InvOfCatalogue, LineagesExtend
<1>3. call = [p \in Operators |-> call[p]]
  BY DEF IInv
<1>6. ASSUME NEW p \in Operators
      PROVE  CallFits(db', HasRefs', Serving', TenantPins', call'[p])
  <2>1. CallFits(db, HasRefs, Serving, TenantPins, call[p])
    BY DEF IInv
  <2>2. CallFits(db', HasRefs, Serving, TenantPins, call[p])
    BY <2>1, CallExtends
  <2>. QED BY <1>1, <2>2
<1>7. CatalogueFits(db', HasRefs', Serving', TenantPins', disturbed')
  BY <1>1
<1>8. schema' \in 5..13 /\ tenant' \in 8..10
  BY InvOfCatalogue
<1>. QED BY <1>2, <1>3, <1>6, <1>7, <1>8 DEF IInv

-----------------------------------------------------------------------------
(* One kind changes *)

(* Marks added to a catalogue. *)
LEMMA MarksOn ==
    ASSUME NEW d, NEW r, NEW pr, NEW pa, NEW marks, NEW marks2,
           CatalogueFits(d, r, pr, pa, marks), marks \subseteq marks2
    PROVE  CatalogueFits(d, r, pr, pa, marks2)
<1>1. \A k : MarksGrow(k, marks, marks2)
  BY MoreMarks
<1>2. /\ KindFits("role", d["role"], r, pr, marks2)
      /\ KindFits("methodology", d["methodology"], r, pr, marks2)
      /\ KindFits("tool", d["tool"], r, pr, marks2)
      /\ KindFits("agent", d["agent"], r, pa, marks2)
  BY <1>1, KindFitsOn DEF CatalogueFits
<1>. QED BY <1>2 DEF CatalogueFits

\* One kind is replaced.
Changed(d, e, k, us) == e = [d EXCEPT ![k] = us]

KindOf(k, us, r, pr, pa, marks) ==
    /\ k # "agent" => KindFits(k, us, r, pr, marks)
    /\ k = "agent" => KindFits(k, us, r, pa, marks)

Replaces(d, e, k, us) ==
    Extends(d, e) /\ e[k] = us /\ \A j \in Kinds : j # k => e[j] = d[j]

(* A step that changes one kind. *)
LEMMA OneKind ==
    ASSUME NEW d, NEW e, NEW k \in Kinds, NEW us, NEW r, NEW pr, NEW pa, NEW marks,
           CatalogueFits(d, r, pr, pa, marks), Changed(d, e, k, us),
           KindExtends(d[k], us), KindOf(k, us, r, pr, pa, marks)
    PROVE  CatalogueFits(e, r, pr, pa, marks) /\ Replaces(d, e, k, us)
<1>1. DOMAIN d = Kinds
  BY DEF CatalogueFits
<1>2. DOMAIN e = Kinds /\ e[k] = us /\ \A j \in Kinds : j # k => e[j] = d[j]
  BY <1>1 DEF Changed
<1>3. Extends(d, e)
  <2>1. ASSUME NEW j \in Kinds PROVE KindExtends(d[j], e[j])
    BY <1>2, CatalogueKinds, KindExtendsItself
  <2>. QED BY <2>1 DEF Extends
<1>4. CatalogueFits(e, r, pr, pa, marks)
  <2>1. KindFits("role", e["role"], r, pr, marks)
    BY <1>2 DEF CatalogueFits, Kinds, KindOf
  <2>2. KindFits("methodology", e["methodology"], r, pr, marks)
    BY <1>2 DEF CatalogueFits, Kinds, KindOf
  <2>3. KindFits("tool", e["tool"], r, pr, marks)
    BY <1>2 DEF CatalogueFits, Kinds, KindOf
  <2>4. KindFits("agent", e["agent"], r, pa, marks)
    BY <1>2 DEF CatalogueFits, Kinds, KindOf
  <2>. QED BY <1>2, <2>1, <2>2, <2>3, <2>4 DEF CatalogueFits
<1>. QED BY <1>2, <1>3, <1>4 DEF Replaces

\* One template of a kind changes.
LEMMA OneTemplate ==
    ASSUME NEW k, NEW ts, NEW id \in 1..Len(ts), NEW u, NEW r, NEW p, NEW marks, NEW marks2,
           KindFits(k, ts, r, p, marks), MarksGrow(k, marks, marks2), GrowsInto(ts[id], u),
           Fits(k, u, r, p, Marked(marks2, k, id), Extended(marks2, k, id))
    PROVE  LET us == [ts EXCEPT ![id] = u]
           IN  KindFits(k, us, r, p, marks2) /\ KindExtends(ts, us) /\ Len(us) = Len(ts)
<1>. DEFINE us == [ts EXCEPT ![id] = u]
<1>1. Listed(ts) /\ DOMAIN ts = 1..Len(ts) /\ Len(ts) \in Nat
  BY ListDomain DEF KindFits
<1>2. /\ us = [i \in DOMAIN ts |-> us[i]] /\ us[id] = u
      /\ \A i \in 1..Len(ts) : i # id => us[i] = ts[i]
  BY <1>1
<1>. HIDE DEF us
<1>3. Listed(us) /\ Len(us) = Len(ts)
  BY <1>1, <1>2, Mapped
<1>4. KindFits(k, ts, r, p, marks2)
  BY KindFitsOn
<1>5. KindFits(k, us, r, p, marks2)
  <2>1. ASSUME NEW i \in 1..Len(ts)
        PROVE  Fits(k, us[i], r, p, Marked(marks2, k, i), Extended(marks2, k, i))
    <3>1. CASE i = id
      BY <1>2, <3>1
    <3>2. CASE i # id
      <4>1. Fits(k, ts[i], r, p, Marked(marks2, k, i), Extended(marks2, k, i))
        BY <1>4 DEF KindFits
      <4>. QED BY <1>2, <3>2, <4>1
    <3>. QED BY <3>1, <3>2
  <2>. QED BY <1>3, <2>1 DEF KindFits
<1>6. KindExtends(ts, us)
  <2>1. KindExtends(ts, ts)
    BY KindExtendsItself
  <2>2. \A i \in 1..Len(ts) : GrowsInto(ts[i], us[i])
    BY <1>2, <2>1 DEF KindExtends
  <2>3. Len(us) \in Nat /\ Len(ts) <= Len(us)
    BY <1>1, <1>3
  <2>. QED BY <1>1, <2>2, <2>3 DEF KindExtends
<1>. QED BY <1>3, <1>5, <1>6 DEF us

(* A template is added. *)
LEMMA AppendExtends ==
    ASSUME NEW k, NEW ts, NEW t, NEW r, NEW p, NEW marks, KindFits(k, ts, r, p, marks),
           \A m, s \in BOOLEAN : Fits(k, t, r, p, m, s)
    PROVE  LET us == Append(ts, t)
           IN  /\ KindFits(k, us, r, p, marks) /\ KindExtends(ts, us)
               /\ Len(us) = Len(ts) + 1 /\ us[Len(ts) + 1] = t
<1>. DEFINE us == Append(ts, t)
<1>1. /\ KindFits(k, us, r, p, marks) /\ Len(us) = Len(ts) + 1 /\ us[Len(ts) + 1] = t
      /\ \A i \in 1..Len(ts) : us[i] = ts[i]
  BY AppendFits
<1>. HIDE DEF us
<1>2. KindExtends(ts, ts)
  BY KindExtendsItself
<1>3. KindExtends(ts, us)
  BY <1>1, <1>2 DEF KindExtends
<1>. QED BY <1>1, <1>3 DEF us

(* The steps of calls *)

(* Each kind of the catalogue, with its era. *)
LEMMA KindsAre ==
    ASSUME NEW d, NEW r, NEW pr, NEW pa, NEW marks, CatalogueFits(d, r, pr, pa, marks), NEW k \in Kinds
    PROVE  KindOf(k, d[k], r, pr, pa, marks)
BY DEF CatalogueFits, Kinds, KindOf

\* A template inserted.
LEMMA InsertedFits ==
    ASSUME IInv, disturbed \subseteq disturbed', NEW k \in Kinds, NEW name, NEW by, NEW row, NEW lineage,
           db' = [db EXCEPT ![k] = Append(db[k], NewTemplate(name, by, row, lineage))],
           LineageFields \subseteq DOMAIN lineage, RowFields \subseteq DOMAIN row,
           row.prev = GENESIS, row.hash = Hash(GENESIS, name, row.body),
           k \in BundleKinds => BundleShaped(row.body) /\ ~HasNames(row.body),
           k = "methodology" => HasRefs /\ RefsShaped(row.body.role_refs),
           k = "agent" => LineageIn(db, HasRefs, lineage)
    PROVE  /\ CatalogueFits(db', HasRefs, Serving, TenantPins, disturbed') /\ Extends(db, db')
           /\ \A a \in 1..Len(db'["agent"]) :
                a \in 1..Len(db["agent"]) \/ LineageIn(db, HasRefs, db'["agent"][a].lineage)
<1>. DEFINE t == NewTemplate(name, by, row, lineage)
            us == Append(db[k], t)
<1>1. CatalogueFits(db, HasRefs, Serving, TenantPins, disturbed')
  BY InvOfCatalogue, MarksOn
<1>2. ASSUME NEW p, NEW m, NEW s PROVE Fits(k, t, HasRefs, p, m, s)
  BY NewTemplateFits
<1>3. t.lineage = lineage
  BY NewTemplateFields
<1>. HIDE DEF t
<1>4. PICK q : KindFits(k, db[k], HasRefs, q, disturbed')
  BY <1>1, CatalogueKinds
<1>5. KindExtends(db[k], us) /\ Len(us) = Len(db[k]) + 1 /\ us[Len(db[k]) + 1] = t
  BY <1>2, <1>4, AppendExtends
<1>6. KindOf(k, us, HasRefs, Serving, TenantPins, disturbed')
  BY <1>1, <1>2, KindsAre, AppendExtends DEF KindOf
<1>7. Changed(db, db', k, us)
  BY DEF t, Changed
<1>. HIDE DEF us
<1>8a. CatalogueFits(db', HasRefs, Serving, TenantPins, disturbed') /\ Replaces(db, db', k, us)
  BY <1>1, <1>5, <1>6, <1>7, OneKind
<1>8. /\ CatalogueFits(db', HasRefs, Serving, TenantPins, disturbed') /\ Extends(db, db')
      /\ db'[k] = us /\ \A j \in Kinds : j # k => db'[j] = db[j]
  BY <1>8a DEF Replaces
<1>9. ASSUME NEW a \in 1..Len(db'["agent"])
      PROVE  a \in 1..Len(db["agent"]) \/ LineageIn(db, HasRefs, db'["agent"][a].lineage)
  <2>1. CASE k # "agent"
    BY <1>8, <2>1 DEF Kinds
  <2>2. CASE k = "agent"
    <3>1. Len(db[k]) \in Nat
      BY <1>1, KindsListed
    <3>2. a \in 1..Len(db[k]) + 1
      BY <1>5, <1>8, <2>2
    <3>3. a \in 1..Len(db[k]) \/ a = Len(db[k]) + 1
      BY <3>1, <3>2
    <3>4. a = Len(db[k]) + 1 => db'["agent"][a] = t
      BY <1>5, <1>8, <2>2
    <3>. QED BY <1>3, <2>2, <3>3, <3>4
  <2>. QED BY <2>1, <2>2
<1>. QED BY <1>8, <1>9

(* create_template. *)
LEMMA CreatedKeeps ==
    ASSUME IInv, disturbed \subseteq disturbed', schema' = schema, tenant' = tenant, call' = call,
           NEW k \in Kinds, NEW name, NEW body, CreateTemplate(k, name, body, NoLineage),
           k \in BundleKinds => BundleShaped(body) /\ ~HasNames(body),
           k = "methodology" => HasRefs /\ RefsShaped(body.role_refs)
    PROVE  IInv' /\ Extends(db, db')
<1>. DEFINE row == NewRow(name, body, GENESIS, "operator", "none")
<1>1. /\ RowFields \subseteq DOMAIN row /\ row.body = body /\ row.prev = GENESIS
      /\ row.hash = Hash(GENESIS, name, body)
  BY NewRowFields
<1>2. db' = [db EXCEPT ![k] = Append(db[k], NewTemplate(name, "operator", row, NoLineage))]
  BY DEF CreateTemplate
<1>. HIDE DEF row
<1>3. LineageFields \subseteq DOMAIN NoLineage /\ LineageIn(db, HasRefs, NoLineage)
  BY NoLineageFields DEF LineageIn, RootedLineage
<1>4. /\ CatalogueFits(db', HasRefs, Serving, TenantPins, disturbed') /\ Extends(db, db')
      /\ \A a \in 1..Len(db'["agent"]) :
           a \in 1..Len(db["agent"]) \/ LineageIn(db, HasRefs, db'["agent"][a].lineage)
  BY <1>1, <1>2, <1>3, InsertedFits
<1>. QED BY <1>4, NotCalledInv

\* The catalogue stays, a call is held or let go.
LEMMA HeldKeeps ==
    ASSUME IInv, disturbed \subseteq disturbed', schema' = schema, tenant' = tenant, db' = db,
           NEW o \in Operators, NEW c, Holds(o, c),
           CallFits(db, HasRefs, Serving, TenantPins, c)
    PROVE  IInv' /\ Extends(db, db')
<1>1. CatalogueFits(db', HasRefs, Serving, TenantPins, disturbed')
  BY InvOfCatalogue, MarksOn
<1>2. Extends(db, db')
  BY InvOfCatalogue, ExtendsItself
<1>3. call' = [call EXCEPT ![o] = c]
  BY DEF Holds
<1>. QED BY <1>1, <1>2, <1>3, CalledInv

\* A live template of a kind.
LEMMA LiveTemplate ==
    ASSUME IInv, NEW k \in Kinds, NEW id \in Live(k)
    PROVE  /\ id \in 1..Len(db[k]) /\ db[k][id].status # "deleted" /\ Shaped(db[k][id])
           /\ Version(k, id) \in Nat /\ Version(k, id) > 0
<1>1. DOMAIN db[k] = 1..Len(db[k])
  BY InvOfCatalogue, KindsListed
<1>2. id \in 1..Len(db[k]) /\ db[k][id].status # "deleted"
  BY <1>1 DEF Live, Exists
<1>3. Shaped(db[k][id])
  BY <1>2, InvOfCatalogue, CatalogueKinds, FitsAreListed
<1>4. Version(k, id) \in Nat /\ Version(k, id) > 0
  BY <1>2, <1>3, ListDomain DEF Shaped, Version
<1>. QED BY <1>2, <1>3, <1>4

(* An update that has read the latest revision. *)
LEMMA ReadsKeeps ==
    ASSUME IInv, disturbed \subseteq disturbed', schema' = schema, tenant' = tenant,
           NEW o \in Operators, NEW k \in Kinds, NEW id \in Live(k), NEW body, NEW bc,
           ReadsLatest(o, k, id, body, bc), Serving, k = "agent" => TenantPins,
           k \in BundleKinds => BundleShaped(body) /\ ~HasNames(body),
           k = "methodology" => RefsShaped(body.role_refs),
           k = "tool" => bc = CheckRevisionCompatibility(Latest("tool", id).body, body)
    PROVE  IInv' /\ Extends(db, db')
<1>. DEFINE n == Version(k, id)
            row == NewRow(db[k][id].name, body, Latest(k, id).hash, "operator", bc)
            c == [kind |-> k, id |-> id, version |-> n + 1, straddled |-> FALSE, row |-> row]
<1>1. /\ RowFields \subseteq DOMAIN row /\ row.body = body /\ row.prev = Latest(k, id).hash
      /\ row.hash = Hash(row.prev, db[k][id].name, body) /\ row.bc = bc
  BY NewRowFields
<1>2. Holds(o, c) /\ db' = db
  BY DEF ReadsLatest
<1>3. /\ c.kind = k /\ c.id = id /\ c.version = n + 1 /\ c.straddled = FALSE /\ c.row = row
      /\ CallFields \subseteq DOMAIN c
  BY DEF CallFields
<1>4. n \in Nat /\ n > 0 /\ id \in 1..Len(db[k]) /\ db[k][id].status # "deleted"
  BY LiveTemplate
<1>5. Latest(k, id) = db[k][id].revs[n] /\ n = Len(db[k][id].revs)
  BY DEF Latest, Revision, Version, Pin
<1>. HIDE DEF c, row, n
<1>6. RowFits(k, row)
  BY <1>1 DEF RowFits
<1>7. (n + 1) - 1 = n /\ n \in 1..n /\ n + 1 > 1 /\ n + 1 \in Nat /\ n + 1 # 1
  BY <1>4
<1>8. Succeeds(db[k][id], c)
  BY <1>1, <1>3, <1>4, <1>5, <1>7 DEF Succeeds
<1>9. UpdateFits(db, c)
  BY <1>3, <1>4, <1>7, <1>8 DEF UpdateFits
<1>10. CallFits(db, HasRefs, Serving, TenantPins, c)
  BY <1>3, <1>6, <1>7, <1>9 DEF CallFits
<1>. QED BY <1>2, <1>10, HeldKeeps

(* A clone that has resolved its role. *)
LEMMA ResolvesKeeps ==
    ASSUME IInv, disturbed \subseteq disturbed', schema' = schema, tenant' = tenant,
           NEW o \in Operators, NEW lineage, ResolvesClone(o, lineage), Serving, TenantPins,
           LineageFields \subseteq DOMAIN lineage, LineageIn(db, HasRefs, lineage),
           HasRevision("role", lineage.role)
    PROVE  IInv' /\ Extends(db, db')
<1>1. PICK name \in TemplateNames :
        /\ Holds(o, [kind |-> "agent", id |-> 0, version |-> 1, straddled |-> FALSE,
                     name |-> name, lineage |-> lineage,
                     row |-> NewRow(name, RoleLookup(lineage.role), GENESIS, "operator", "none")])
        /\ db' = db
  BY DEF ResolvesClone
<1>. DEFINE body == RoleLookup(lineage.role)
            row == NewRow(name, body, GENESIS, "operator", "none")
            c == [kind |-> "agent", id |-> 0, version |-> 1, straddled |-> FALSE,
                  name |-> name, lineage |-> lineage, row |-> row]
<1>2. /\ RowFields \subseteq DOMAIN row /\ row.body = body /\ row.prev = GENESIS
      /\ row.hash = Hash(GENESIS, name, row.body)
  BY NewRowFields
<1>3. /\ c.kind = "agent" /\ c.version = 1 /\ c.name = name /\ c.lineage = lineage /\ c.row = row
      /\ c.straddled = FALSE /\ CallFields \subseteq DOMAIN c /\ {"name", "lineage"} \subseteq DOMAIN c
  BY DEF CallFields
<1>4. BundleShaped(body) /\ ~HasNames(body)
  <2>. DEFINE id == lineage.role.id
              v == lineage.role.version
              t == db["role"][id]
  <2>1. id \in Live("role") /\ v \in 1..Len(t.revs)
    BY DEF HasRevision, Live, Exists, Version
  <2>2. id \in 1..Len(db["role"])
    BY <2>1, LiveTemplate DEF Kinds
  <2>3. \E m : Bundled(t) /\ OfItsEra(t, Serving, m)
    BY <2>2, InvOfCatalogue DEF CatalogueFits, KindFits, Fits, BundleKinds
  <2>4. body = t.revs[v].body
    BY DEF RoleLookup, Revision
  <2>. HIDE DEF body, t, v
  <2>. QED BY <2>1, <2>3, <2>4 DEF Bundled, OfItsEra
<1>. HIDE DEF c, row, body
<1>5. RowFits("agent", row)
  BY <1>2, <1>4 DEF RowFits
<1>6. CloneFits(db, HasRefs, c)
  BY <1>2, <1>3 DEF CloneFits
<1>7. CallFits(db, HasRefs, Serving, TenantPins, c)
  BY <1>3, <1>5, <1>6 DEF CallFits, Kinds
<1>8. Holds(o, c) /\ db' = db
  BY <1>1 DEF c, row, body
<1>. QED BY <1>7, <1>8, HeldKeeps

\* What a pin names is there.
LEMMA HasRevisionRooted ==
    ASSUME IInv, NEW k \in Kinds, NEW pin, HasRevision(k, pin)
    PROVE  Rooted(db[k], pin)
<1>1. pin.id \in Live(k) /\ pin.version \in 1..Len(db[k][pin.id].revs)
  BY DEF HasRevision, Live, Exists, Version
<1>2. pin.id \in 1..Len(db[k])
  BY <1>1, LiveTemplate
<1>. QED BY <1>1, <1>2 DEF Rooted

ArchivesOne(k, id) == db' = [db EXCEPT ![k][id].status = "archived"]

(* archive_template. *)
LEMMA ArchivesKeeps ==
    ASSUME IInv, disturbed \subseteq disturbed', schema' = schema, tenant' = tenant, call' = call,
           NEW k \in Kinds, NEW id \in Live(k), ArchivesOne(k, id)
    PROVE  IInv' /\ Extends(db, db')
<1>. DEFINE t == db[k][id]
            u == [t EXCEPT !.status = "archived"]
            us == [db[k] EXCEPT ![id] = u]
<1>1. CatalogueFits(db, HasRefs, Serving, TenantPins, disturbed')
  BY InvOfCatalogue, MarksOn
<1>2. id \in 1..Len(db[k]) /\ t.status # "deleted" /\ Shaped(t)
  BY LiveTemplate
<1>3. /\ u.name = t.name /\ u.status = "archived" /\ u.lineage = t.lineage /\ u.revs = t.revs
  BY <1>2, StatusReplaced DEF Shaped
<1>4. GrowsInto(t, u)
  BY <1>2, <1>3, ListDomain DEF GrowsInto, Shaped
<1>5. ASSUME NEW p, KindFits(k, db[k], HasRefs, p, disturbed')
      PROVE  KindFits(k, us, HasRefs, p, disturbed') /\ KindExtends(db[k], us) /\ Len(us) = Len(db[k])
  <2>1. Fits(k, t, HasRefs, p, Marked(disturbed', k, id), Extended(disturbed', k, id))
    BY <1>2, <1>5 DEF KindFits
  <2>2. Fits(k, u, HasRefs, p, Marked(disturbed', k, id), Extended(disturbed', k, id))
    BY <1>2, <2>1, ArchivedFits
  <2>. HIDE DEF u
  <2>. QED BY <1>2, <1>4, <1>5, <2>2, SameMarks, OneTemplate
<1>6. Changed(db, db', k, us)
  BY DEF ArchivesOne, Changed
<1>. HIDE DEF us, u, t
<1>7. KindExtends(db[k], us) /\ Len(us) = Len(db[k])
  BY <1>1, <1>5, CatalogueKinds
<1>8. KindOf(k, us, HasRefs, Serving, TenantPins, disturbed')
  BY <1>1, <1>5, KindsAre DEF KindOf
<1>9a. CatalogueFits(db', HasRefs, Serving, TenantPins, disturbed') /\ Replaces(db, db', k, us)
  BY <1>1, <1>6, <1>7, <1>8, OneKind
<1>9. /\ CatalogueFits(db', HasRefs, Serving, TenantPins, disturbed') /\ Extends(db, db')
      /\ db'[k] = us /\ \A j \in Kinds : j # k => db'[j] = db[j]
  BY <1>9a DEF Replaces
<1>10. Len(db'["agent"]) = Len(db["agent"])
  BY <1>7, <1>9 DEF Kinds
<1>. QED BY <1>9, <1>10, NotCalledInv

\* The steps of calls add the marks of calls that came across a migration.
LEMMA StraddlersMarked ==
    ASSUME NEW o \in Operators, call[o] # NoCall, call'[o] = NoCall, call[o].straddled,
           disturbed' = disturbed \union Straddlers
    PROVE  /\ Marked(disturbed', call[o].kind, call[o].id)
           /\ Extended(disturbed', call[o].kind, call[o].id)
<1>. DEFINE x == <<call[o].kind, call[o].id, "straddled">>
<1>1. x \in disturbed'
  BY DEF Straddlers
<1>2. x[1] = call[o].kind /\ x[2] = call[o].id
  OBVIOUS
<1>3. Extended(disturbed', call[o].kind, call[o].id)
  BY <1>1 DEF Extended
<1>. HIDE DEF x
<1>4. Marked(disturbed', call[o].kind, call[o].id)
  BY <1>1, <1>2 DEF Marked
<1>. QED BY <1>3, <1>4

(* What is held is fit. *)
LEMMA HeldCall ==
    ASSUME IInv, NEW o \in Operators, call[o] # NoCall
    PROVE  /\ CallFits(db, HasRefs, Serving, TenantPins, call[o])
           /\ call[o].kind \in Kinds /\ RowFits(call[o].kind, call[o].row)
<1>1. CallFits(db, HasRefs, Serving, TenantPins, call[o])
  BY DEF IInv
<1>. QED BY <1>1 DEF CallFits

(* The call is over. *)
LEMMA LetGo ==
    ASSUME IInv, NEW o \in Operators, Holds(o, NoCall)
    PROVE  /\ call' = [call EXCEPT ![o] = NoCall] /\ call'[o] = NoCall
           /\ CallFits(db', HasRefs, Serving, TenantPins, NoCall)
<1>1. call = [p \in Operators |-> call[p]]
  BY DEF IInv
<1>2. call' = [call EXCEPT ![o] = NoCall] /\ call'[o] = NoCall
  BY <1>1 DEF Holds
<1>. QED BY <1>2 DEF CallFits

WithRevision(t, row) == [t EXCEPT !.revs = Append(t.revs, row)]

(* A template with one revision more has grown. *)
LEMMA GrowsByRevision ==
    ASSUME NEW t, Shaped(t), t.status # "deleted", NEW row
    PROVE  GrowsInto(t, WithRevision(t, row))
<1>. DEFINE u == WithRevision(t, row)
<1>1. /\ u.name = t.name /\ u.status = t.status /\ u.lineage = t.lineage
      /\ u.revs = Append(t.revs, row)
  BY RevsReplaced DEF WithRevision, Shaped
<1>2. /\ Len(t.revs) \in Nat /\ Len(u.revs) = Len(t.revs) + 1
      /\ \A v \in 1..Len(t.revs) : u.revs[v] = t.revs[v]
  BY <1>1, ListAppend, ListDomain DEF Shaped
<1>. HIDE DEF u
<1>3. Len(u.revs) \in Nat /\ Len(t.revs) <= Len(u.revs)
  BY <1>2
<1>4. GrowsInto(t, u)
  BY <1>1, <1>2, <1>3 DEF GrowsInto
<1>. QED BY <1>4 DEF u

\* add_revision of a row that is still the successor, or of a marked chain.
LEMMA RevisionFits ==
    ASSUME NEW k \in Kinds, NEW t, NEW c, NEW r, NEW p, NEW m, NEW s, Fits(k, t, r, p, m, s),
           t.status # "deleted", RowFits(k, c.row), c.kind = k, c.version \in Nat,
           c.version \notin 1..Len(t.revs),
           \/ m /\ s
           \/ Succeeds(t, c) /\ (k \in BundleKinds => On(p))
    PROVE  Fits(k, WithRevision(t, c.row), r, p, m, s)
<1>1. Len(t.revs) \in Nat
  BY ListDomain DEF Fits, Shaped
<1>2. ASSUME Succeeds(t, c) PROVE c.version - 1 = Len(t.revs)
  <2>1. c.version - 1 \in 1..Len(t.revs)
    BY <1>2 DEF Succeeds
  <2>. DEFINE n == Len(t.revs)
              w == c.version
  <2>2. n \in Nat /\ w \in Nat /\ w - 1 \in 1..n /\ w \notin 1..n
    BY <1>1, <2>1
  <2>. HIDE DEF n, w
  <2>3. w - 1 = n
    BY <2>2
  <2>. QED BY <2>3 DEF n, w
<1>3. \/ m
      \/ /\ c.row.prev = t.revs[Len(t.revs)].hash
         /\ c.row.hash = Hash(c.row.prev, t.name, c.row.body)
  BY <1>2 DEF Succeeds
<1>4. k = "tool" => \/ s
                    \/ c.row.bc = CheckRevisionCompatibility(t.revs[Len(t.revs)].body, c.row.body)
  BY <1>2 DEF Succeeds
<1>5. k \in BundleKinds => BundleShaped(c.row.body) /\ ~HasNames(c.row.body) /\ (m \/ On(p))
  BY DEF RowFits
<1>6. k = "methodology" => RefsShaped(c.row.body.role_refs)
  BY DEF RowFits
<1>7. RowFields \subseteq DOMAIN c.row
  BY DEF RowFits
<1>8. k \in BundleKinds => /\ BundleShaped(c.row.body)
                           /\ p => ~HasNames(c.row.body)
                           /\ ~p => m
  BY <1>5 DEF On
<1>9. Appendable(k, t, c.row, p, m, s)
  BY <1>3, <1>4, <1>6, <1>7, <1>8 DEF Appendable
<1>10. ASSUME NEW row, Appendable(k, t, row, p, m, s)
       PROVE  Fits(k, [t EXCEPT !.revs = Append(t.revs, row)], r, p, m, s)
  BY <1>10, AppendedFits
<1>. QED BY <1>9, <1>10 DEF WithRevision

(* add_revision: the row that is inserted is the successor of the latest, or the
   call came across a migration and marks the chain. *)
LEMMA CommitsKeeps ==
    ASSUME IInv, disturbed' = disturbed \union Straddlers, schema' = schema, tenant' = tenant,
           NEW o \in Operators, NEW k \in Kinds, CommitsUpdate(o, k)
    PROVE  IInv' /\ Extends(db, db')
<1>. DEFINE c == call[o]
            id == c.id
            t == db[k][id]
            u == WithRevision(t, c.row)
            us == [db[k] EXCEPT ![id] = u]
<1>1. /\ c.kind = k /\ c.version > 1 /\ Exists(k, id) /\ c.version \notin 1..Version(k, id)
      /\ Holds(o, NoCall)
  BY DEF CommitsUpdate, AddRevision
<1>2. Changed(db, db', k, us)
  BY DEF CommitsUpdate, AddRevision, Changed, WithRevision
<1>3. c # NoCall
  BY <1>1 DEF NoCall, Kinds
<1>4. /\ CallFits(db, HasRefs, Serving, TenantPins, c) /\ c.kind \in Kinds /\ RowFits(k, c.row)
  BY <1>1, <1>3, HeldCall
<1>5. UpdateFits(db, c) /\ (~c.straddled => Serving /\ (k = "agent" => TenantPins))
  <2>1. c.version # 1
    BY <1>1, <1>4 DEF CallFits, CloneFits, UpdateFits
  <2>. QED BY <1>1, <1>3, <1>4, <2>1 DEF CallFits
<1>6. /\ id \in Live(k) /\ id \in 1..Len(db[k]) /\ t.status # "deleted" /\ Shaped(t)
      /\ Version(k, id) = Len(t.revs)
  BY <1>1, LiveTemplate DEF Exists, Live, Version
<1>7. call' = [call EXCEPT ![o] = NoCall] /\ call'[o] = NoCall
      /\ CallFits(db', HasRefs, Serving, TenantPins, NoCall)
  BY <1>1, LetGo
<1>8. c.straddled => Marked(disturbed', k, id) /\ Extended(disturbed', k, id)
  BY <1>1, <1>3, <1>7, StraddlersMarked
<1>9. CatalogueFits(db, HasRefs, Serving, TenantPins, disturbed')
  BY InvOfCatalogue, MarksOn
<1>10. ~c.straddled => Succeeds(t, c)
  BY <1>1, <1>5 DEF UpdateFits
<1>11. c.version \in Nat
  BY <1>5 DEF UpdateFits
<1>. HIDE DEF u, us
<1>12. ASSUME NEW p, KindFits(k, db[k], HasRefs, p, disturbed'),
              ~c.straddled => (k \in BundleKinds => On(p))
       PROVE  KindFits(k, us, HasRefs, p, disturbed') /\ KindExtends(db[k], us) /\ Len(us) = Len(db[k])
  <2>1. Fits(k, t, HasRefs, p, Marked(disturbed', k, id), Extended(disturbed', k, id))
    BY <1>6, <1>12 DEF KindFits
  <2>2. Fits(k, u, HasRefs, p, Marked(disturbed', k, id), Extended(disturbed', k, id))
    <3>1. \/ Marked(disturbed', k, id) /\ Extended(disturbed', k, id)
          \/ Succeeds(t, c) /\ (k \in BundleKinds => On(p))
      BY <1>8, <1>10, <1>12
    <3>2. c.version \notin 1..Len(t.revs)
      BY <1>1, <1>6
    <3>3. ASSUME NEW r, NEW m, NEW s, Fits(k, t, r, p, m, s),
                 \/ m /\ s
                 \/ Succeeds(t, c) /\ (k \in BundleKinds => On(p))
          PROVE  Fits(k, WithRevision(t, c.row), r, p, m, s)
      BY <1>1, <1>4, <1>6, <1>11, <3>2, <3>3, RevisionFits
    <3>. QED BY <2>1, <3>1, <3>3 DEF u
  <2>3. GrowsInto(t, u)
    BY <1>6, GrowsByRevision DEF u
  <2>4. us = [db[k] EXCEPT ![id] = u]
    BY DEF us
  <2>. QED BY <1>6, <1>12, <2>2, <2>3, <2>4, SameMarks, OneTemplate
<1>13. ~c.straddled => On(Serving) /\ (k = "agent" => On(TenantPins))
  BY <1>5 DEF On, Serving, TenantPins
<1>14. KindOf(k, db[k], HasRefs, Serving, TenantPins, disturbed')
  BY <1>9, KindsAre
<1>15. KindExtends(db[k], us) /\ Len(us) = Len(db[k])
  BY <1>12, <1>13, <1>14 DEF KindOf
<1>16. KindOf(k, us, HasRefs, Serving, TenantPins, disturbed')
  BY <1>12, <1>13, <1>14 DEF KindOf
<1>17. CatalogueFits(db', HasRefs, Serving, TenantPins, disturbed') /\ Replaces(db, db', k, us)
  BY <1>2, <1>9, <1>15, <1>16, OneKind
<1>18. Extends(db, db') /\ Len(db'["agent"]) = Len(db["agent"])
  BY <1>15, <1>17 DEF Replaces, Kinds
<1>. QED BY <1>7, <1>17, <1>18, CalledInv

(* A clone is inserted. *)
LEMMA InsertKeeps ==
    ASSUME IInv, disturbed' = disturbed \union Straddlers, schema' = schema, tenant' = tenant,
           NEW o \in Operators, InsertClone(o)
    PROVE  IInv' /\ Extends(db, db')
<1>. DEFINE c == call[o]
<1>1. /\ c.kind = "agent" /\ c.version = 1 /\ Holds(o, NoCall)
      /\ db' = [db EXCEPT !["agent"] =
                 Append(db["agent"], NewTemplate(c.name, "operator", c.row, c.lineage))]
  BY DEF InsertClone
<1>2. c # NoCall
  BY <1>1 DEF NoCall
<1>3. RowFits("agent", c.row) /\ CallFits(db, HasRefs, Serving, TenantPins, c)
  BY <1>1, <1>2, HeldCall
<1>4. CloneFits(db, HasRefs, c)
  BY <1>1, <1>2, <1>3 DEF CallFits
<1>5. /\ LineageFields \subseteq DOMAIN c.lineage /\ RowFields \subseteq DOMAIN c.row
      /\ c.row.prev = GENESIS /\ c.row.hash = Hash(GENESIS, c.name, c.row.body)
      /\ BundleShaped(c.row.body) /\ ~HasNames(c.row.body) /\ LineageIn(db, HasRefs, c.lineage)
  BY <1>3, <1>4 DEF RowFits, CloneFits, BundleKinds
<1>6. "agent" \in Kinds /\ "agent" # "methodology"
  BY DEF Kinds
<1>7. /\ CatalogueFits(db', HasRefs, Serving, TenantPins, disturbed') /\ Extends(db, db')
      /\ \A a \in 1..Len(db'["agent"]) :
           a \in 1..Len(db["agent"]) \/ LineageIn(db, HasRefs, db'["agent"][a].lineage)
  BY <1>1, <1>5, <1>6, InsertedFits
<1>8. call' = [call EXCEPT ![o] = NoCall] /\ CallFits(db', HasRefs, Serving, TenantPins, NoCall)
  BY <1>1, LetGo
<1>. QED BY <1>7, <1>8, CalledInv

(* An insertion is refused. *)
LEMMA FailsKeeps ==
    ASSUME IInv, disturbed' = disturbed \union Straddlers, schema' = schema, tenant' = tenant,
           NEW o \in Operators, InsertFails(o)
    PROVE  IInv' /\ Extends(db, db')
<1>1. Holds(o, NoCall) /\ db' = db
  BY DEF InsertFails
<1>2. CallFits(db, HasRefs, Serving, TenantPins, NoCall)
  BY DEF CallFits
<1>. QED BY <1>1, <1>2, HeldKeeps

(* Tools have versions. *)
LEMMA ToolVersions == ASSUME IInv PROVE \A t \in Live("tool") : Version("tool", t) \in Nat
BY LiveTemplate DEF Kinds

(* The creations. *)
LEMMA CreationsKeep ==
    ASSUME IInv, disturbed \subseteq disturbed', NEW o \in Operators,
           CreateRole(o) \/ CreateMethodology(o) \/ CreateTool(o) \/ CreateBlankAgent(o)
    PROVE  IInv' /\ Extends(db, db')
<1>0. schema' = schema /\ tenant' = tenant /\ call' = call
  BY DEF CreateRole, CreateMethodology, CreateTool, CreateBlankAgent, InControlPlane
<1>1. CASE CreateRole(o)
  <2>1. PICK name \in TemplateNames, b \in Bundles : CreateTemplate("role", name, b, NoLineage)
    BY <1>1 DEF CreateRole
  <2>2. BundleShaped(b) /\ ~HasNames(b)
    BY ToolVersions, BundlesShaped
  <2>. QED BY <1>0, <2>1, <2>2, CreatedKeeps DEF Kinds
<1>2. CASE CreateMethodology(o)
  <2>1. PICK name \in TemplateNames, refs \in ToRoleRefs(RawRoleRefs) :
            CreateTemplate("methodology", name, RoleRefs(refs), NoLineage)
    BY <1>2 DEF CreateMethodology
  <2>2. RefsShaped(refs)
    BY RoleRefsShaped
  <2>3. RoleRefs(refs).role_refs = refs
    BY DEF RoleRefs
  <2>4. HasRefs
    BY <1>2, InvOfCatalogue DEF CreateMethodology, Serving, HasRefs
  <2>5. RefsShaped(RoleRefs(refs).role_refs)
    BY <2>2, <2>3
  <2>. QED BY <1>0, <2>1, <2>4, <2>5, CreatedKeeps DEF Kinds, BundleKinds
<1>3. CASE CreateTool(o)
  <2>1. PICK name \in TemplateNames : \E body : CreateTemplate("tool", name, body, NoLineage)
    BY <1>3 DEF CreateTool
  <2>2. PICK body : CreateTemplate("tool", name, body, NoLineage)
    BY <2>1
  <2>. QED BY <1>0, <2>2, CreatedKeeps DEF Kinds, BundleKinds
<1>4. CASE CreateBlankAgent(o)
  <2>1. PICK name \in TemplateNames, b \in Bundles : CreateTemplate("agent", name, b, NoLineage)
    BY <1>4 DEF CreateBlankAgent
  <2>2. BundleShaped(b) /\ ~HasNames(b)
    BY ToolVersions, BundlesShaped
  <2>. QED BY <1>0, <2>1, <2>2, CreatedKeeps DEF Kinds
<1>. QED BY <1>1, <1>2, <1>3, <1>4

(* The updates. *)
LEMMA UpdatesKeep ==
    ASSUME IInv, disturbed \subseteq disturbed', NEW o \in Operators,
           UpdateRole(o) \/ UpdateMethodology(o) \/ UpdateTool(o) \/ UpdateAgent(o)
    PROVE  IInv' /\ Extends(db, db')
<1>0. schema' = schema /\ tenant' = tenant
  BY DEF UpdateRole, UpdateMethodology, UpdateTool, UpdateAgent, ReadsLatest, InControlPlane
<1>1. CASE UpdateRole(o)
  <2>1. PICK id \in Live("role"), b \in Bundles : ReadsLatest(o, "role", id, b, "none")
    BY <1>1 DEF UpdateRole
  <2>2. BundleShaped(b) /\ ~HasNames(b)
    BY ToolVersions, BundlesShaped
  <2>3. Serving /\ "role" \in Kinds
    BY <1>1 DEF UpdateRole, Kinds
  <2>. QED BY <1>0, <2>1, <2>2, <2>3, ReadsKeeps
<1>2. CASE UpdateMethodology(o)
  <2>1. PICK id \in Live("methodology"), refs \in ToRoleRefs(RawRoleRefs) :
            ReadsLatest(o, "methodology", id, RoleRefs(refs), "none")
    BY <1>2 DEF UpdateMethodology
  <2>2. RefsShaped(refs)
    BY RoleRefsShaped
  <2>3. RoleRefs(refs).role_refs = refs
    BY DEF RoleRefs
  <2>4. Serving /\ "methodology" \in Kinds /\ "methodology" \notin BundleKinds
    BY <1>2 DEF UpdateMethodology, Kinds, BundleKinds
  <2>5. RefsShaped(RoleRefs(refs).role_refs)
    BY <2>2, <2>3
  <2>. QED BY <1>0, <2>1, <2>4, <2>5, ReadsKeeps
<1>3. CASE UpdateTool(o)
  <2>1. PICK id \in Live("tool"), schemas \in ToolSchemas :
          LET old == Latest("tool", id).body
              new == ToolContent(old.classification, schemas.parameters, schemas.returns)
          IN ReadsLatest(o, "tool", id, new, CheckRevisionCompatibility(old, new))
    BY <1>3 DEF UpdateTool
  <2>. DEFINE old == Latest("tool", id).body
              new == ToolContent(old.classification, schemas.parameters, schemas.returns)
  <2>2. ReadsLatest(o, "tool", id, new, CheckRevisionCompatibility(old, new))
    BY <2>1
  <2>3. Serving /\ "tool" \in Kinds /\ "tool" \notin BundleKinds
    BY <1>3 DEF UpdateTool, Kinds, BundleKinds
  <2>. HIDE DEF new
  <2>. QED BY <1>0, <2>2, <2>3, ReadsKeeps
<1>4. CASE UpdateAgent(o)
  <2>1. PICK id \in Live("agent"), b \in Bundles : ReadsLatest(o, "agent", id, b, "none")
    BY <1>4 DEF UpdateAgent
  <2>2. BundleShaped(b) /\ ~HasNames(b)
    BY ToolVersions, BundlesShaped
  <2>3. Serving /\ TenantPins /\ "agent" \in Kinds
    BY <1>4 DEF UpdateAgent, ServingTenant, TenantPins, Kinds
  <2>. QED BY <1>0, <2>1, <2>2, <2>3, ReadsKeeps
<1>. QED BY <1>1, <1>2, <1>3, <1>4

(* The archivals. *)
LEMMA ArchivalsKeep ==
    ASSUME IInv, disturbed \subseteq disturbed', NEW o \in Operators,
           ArchiveRole(o) \/ ArchiveMethodology(o) \/ ArchiveTool(o) \/ ArchiveAgent(o)
    PROVE  IInv' /\ Extends(db, db')
<1>1. PICK k \in Kinds : Archives(o, k)
  BY DEF ArchiveRole, ArchiveMethodology, ArchiveTool, ArchiveAgent, Kinds
<1>2. schema' = schema /\ tenant' = tenant /\ call' = call
  BY <1>1 DEF Archives, InControlPlane
<1>3. PICK id \in Live(k) : ArchivesOne(k, id)
  BY <1>1 DEF Archives, ArchivesOne
<1>. QED BY <1>2, <1>3, ArchivesKeeps

(* The clones. *)
LEMMA ClonesKeep ==
    ASSUME IInv, disturbed \subseteq disturbed', NEW o \in Operators,
           CreateAgentFromMethodology(o) \/ CreateAgentFromRole(o)
    PROVE  IInv' /\ Extends(db, db')
<1>0. schema' = schema /\ tenant' = tenant /\ Serving /\ TenantPins
  BY DEF CreateAgentFromMethodology, CreateAgentFromRole, ResolvesClone, InControlPlane,
         ServingTenant, TenantPins
<1>1. CASE CreateAgentFromMethodology(o)
  <2>1. PICK m \in Live("methodology") : \E v \in 1..Version("methodology", m) :
          LET refs == Revision("methodology", Pin(m, v)).body.role_refs
              role == Pin(refs[1].role, refs[1].version)
          IN /\ HasRevision("role", role)
             /\ ResolvesClone(o, [methodology |-> Pin(m, v), role |-> role])
    BY <1>1 DEF CreateAgentFromMethodology
  <2>2. PICK v \in 1..Version("methodology", m) :
          LET refs == Revision("methodology", Pin(m, v)).body.role_refs
              role == Pin(refs[1].role, refs[1].version)
          IN /\ HasRevision("role", role)
             /\ ResolvesClone(o, [methodology |-> Pin(m, v), role |-> role])
    BY <2>1
  <2>. DEFINE refs == Revision("methodology", Pin(m, v)).body.role_refs
              role == Pin(refs[1].role, refs[1].version)
              lineage == [methodology |-> Pin(m, v), role |-> role]
  <2>3. HasRevision("role", role) /\ ResolvesClone(o, lineage)
    BY <2>2
  <2>4. HasRevision("methodology", Pin(m, v))
    BY DEF HasRevision, Live, Pin
  <2>5. FirstRef(db["methodology"], Pin(m, v)) = refs[1] /\ RefPin(refs[1]) = role
    BY DEF FirstRef, Revision, RefPin
  <2>6. /\ lineage.methodology = Pin(m, v) /\ lineage.role = role
        /\ LineageFields \subseteq DOMAIN lineage
    BY DEF LineageFields
  <2>. HIDE DEF lineage, role, refs
  <2>7. Rooted(db["role"], role) /\ Rooted(db["methodology"], Pin(m, v))
    BY <2>3, <2>4, HasRevisionRooted DEF Kinds
  <2>8. LineageIn(db, HasRefs, lineage)
    BY <2>5, <2>6, <2>7 DEF LineageIn, RootedLineage
  <2>. QED BY <1>0, <2>3, <2>6, <2>8, ResolvesKeeps
<1>2. CASE CreateAgentFromRole(o)
  <2>1. PICK r \in Live("role") : \E v \in 1..Version("role", r) :
          ResolvesClone(o, [methodology |-> NoPin, role |-> Pin(r, v)])
    BY <1>2 DEF CreateAgentFromRole
  <2>2. PICK v \in 1..Version("role", r) :
          ResolvesClone(o, [methodology |-> NoPin, role |-> Pin(r, v)])
    BY <2>1
  <2>. DEFINE lineage == [methodology |-> NoPin, role |-> Pin(r, v)]
  <2>3. HasRevision("role", Pin(r, v))
    BY DEF HasRevision, Live, Pin
  <2>4. Rooted(db["role"], Pin(r, v))
    BY <2>3, HasRevisionRooted DEF Kinds
  <2>5. /\ lineage.methodology = NoPin /\ lineage.role = Pin(r, v)
        /\ LineageFields \subseteq DOMAIN lineage /\ ResolvesClone(o, lineage)
    BY <2>2 DEF LineageFields
  <2>. HIDE DEF lineage
  <2>6. LineageIn(db, HasRefs, lineage)
    BY <2>4, <2>5 DEF LineageIn, RootedLineage
  <2>. QED BY <1>0, <2>3, <2>5, <2>6, ResolvesKeeps
<1>. QED BY <1>1, <1>2

(* Every step of a call keeps the invariant and only lets the catalogue grow. *)
LEMMA CallKeeps == ASSUME IInv, Call PROVE IInv' /\ Extends(db, db')
<1>1. CallStep /\ disturbed' = disturbed \union Straddlers /\ disturbed \subseteq disturbed'
  BY DEF Call
<1>2. PICK o \in Operators :
        \/ CreateRole(o) \/ CreateMethodology(o) \/ CreateTool(o) \/ CreateBlankAgent(o)
        \/ UpdateRole(o) \/ UpdateMethodology(o) \/ UpdateTool(o) \/ UpdateAgent(o)
        \/ CommitRoleUpdate(o) \/ CommitMethodologyUpdate(o)
        \/ CommitToolUpdate(o) \/ CommitAgentUpdate(o)
        \/ ArchiveRole(o) \/ ArchiveMethodology(o) \/ ArchiveTool(o) \/ ArchiveAgent(o)
        \/ CreateAgentFromMethodology(o) \/ CreateAgentFromRole(o) \/ InsertClone(o)
        \/ InsertFails(o)
  BY <1>1 DEF CallStep
<1>3. CASE CreateRole(o) \/ CreateMethodology(o) \/ CreateTool(o) \/ CreateBlankAgent(o)
  BY <1>1, <1>3, CreationsKeep
<1>4. CASE UpdateRole(o) \/ UpdateMethodology(o) \/ UpdateTool(o) \/ UpdateAgent(o)
  BY <1>1, <1>4, UpdatesKeep
<1>5. CASE CommitRoleUpdate(o) \/ CommitMethodologyUpdate(o) \/ CommitToolUpdate(o) \/ CommitAgentUpdate(o)
  <2>1. PICK k \in Kinds : CommitsUpdate(o, k)
    BY <1>5 DEF CommitRoleUpdate, CommitMethodologyUpdate, CommitToolUpdate, CommitAgentUpdate, Kinds
  <2>2. schema' = schema /\ tenant' = tenant
    BY <2>1 DEF CommitsUpdate, InControlPlane
  <2>. QED BY <1>1, <2>1, <2>2, CommitsKeeps
<1>6. CASE ArchiveRole(o) \/ ArchiveMethodology(o) \/ ArchiveTool(o) \/ ArchiveAgent(o)
  BY <1>1, <1>6, ArchivalsKeep
<1>7. CASE CreateAgentFromMethodology(o) \/ CreateAgentFromRole(o)
  BY <1>1, <1>7, ClonesKeep
<1>8. CASE InsertClone(o)
  <2>1. schema' = schema /\ tenant' = tenant
    BY <1>8 DEF InsertClone, InControlPlane
  <2>. QED BY <1>1, <1>8, <2>1, InsertKeeps
<1>9. CASE InsertFails(o)
  <2>1. schema' = schema /\ tenant' = tenant
    BY <1>9 DEF InsertFails, InControlPlane
  <2>. QED BY <1>1, <1>9, <2>1, FailsKeeps
<1>. QED BY <1>2, <1>3, <1>4, <1>5, <1>6, <1>7, <1>8, <1>9

-----------------------------------------------------------------------------
(* The databases of an earlier release *)

(* The chains of an earlier release. *)
LEMMA LegacyChainsFit ==
    ASSUME NEW chain \in LegacyChains
    PROVE  /\ Listed(chain) /\ Len(chain) > 0 /\ DOMAIN chain = 1..Len(chain)
           /\ \A v \in 1..Len(chain) : BundleShaped(chain[v]) /\ ~HasPins(chain[v])
<1>. DEFINE a == LegacyBundle({RetrievalName})
            b == LegacyBundle({})
            S == {a, b}
<1>1. chain \in {<<a>>, <<b, a>>, <<a, b>>}
  BY DEF LegacyChains
<1>2. BundleShaped(a) /\ ~HasPins(a) /\ BundleShaped(b) /\ ~HasPins(b)
  <2>1. IsName(RetrievalName)
    BY EntryKinds
  <2>. HIDE DEF RetrievalName
  <2>. QED BY <2>1 DEF LegacyBundle, Bundle, BundleShaped, HasNames, HasPins
<1>. HIDE DEF a, b
<1>3. chain \in Seq(S) /\ Len(chain) > 0
  <2>1. /\ <<a>> \in Seq(S) /\ Len(<<a>>) > 0 /\ <<b, a>> \in Seq(S) /\ Len(<<b, a>>) > 0
        /\ <<a, b>> \in Seq(S) /\ Len(<<a, b>>) > 0
    OBVIOUS
  <2>. HIDE DEF S
  <2>2. CASE chain = <<a>>
    BY <2>1, <2>2
  <2>3. CASE chain = <<b, a>>
    BY <2>1, <2>3
  <2>4. CASE chain = <<a, b>>
    BY <2>1, <2>4
  <2>. QED BY <1>1, <2>2, <2>3, <2>4
<1>4. Listed(chain) /\ DOMAIN chain = 1..Len(chain)
  <2>. HIDE DEF S
  <2>. QED BY <1>3, SeqListed
<1>5. \A v \in 1..Len(chain) : chain[v] \in S
  BY <1>3
<1>6. \A v \in 1..Len(chain) : BundleShaped(chain[v]) /\ ~HasPins(chain[v])
  BY <1>2, <1>5
<1>. QED BY <1>3, <1>4, <1>6

(* A kind of one template. *)
LEMMA OneTemplateFits ==
    ASSUME NEW k, NEW t, NEW r, NEW p, NEW marks, \A m, s \in BOOLEAN : Fits(k, t, r, p, m, s)
    PROVE  KindFits(k, <<t>>, r, p, marks)
<1>1. <<t>> \in Seq({t}) /\ Len(<<t>>) = 1 /\ <<t>>[1] = t
  OBVIOUS
<1>2. Listed(<<t>>)
  BY <1>1, SeqListed
<1>3. \A i \in 1..1 : i = 1
  OBVIOUS
<1>. DEFINE ts == <<t>>
<1>. HIDE DEF ts
<1>4. Listed(ts) /\ Len(ts) = 1 /\ ts[1] = t
  BY <1>1, <1>2 DEF ts
<1>5. KindFits(k, ts, r, p, marks)
  BY <1>3, <1>4, MarksAreBoolean DEF KindFits
<1>. QED BY <1>5 DEF ts

(* A kind of none. *)
LEMMA NoTemplateFits ==
    ASSUME NEW k, NEW r, NEW p, NEW marks
    PROVE  KindFits(k, <<>>, r, p, marks) /\ Len(<<>>) = 0
<1>1. <<>> \in Seq({}) /\ Len(<<>>) = 0
  OBVIOUS
<1>2. Listed(<<>>)
  BY <1>1, SeqListed
<1>. QED BY <1>1, <1>2 DEF KindFits

(* A methodology of an earlier release, with an agent cloned from it. *)
LEMMA LegacyMethodologyFits ==
    ASSUME NEW name, NEW chain \in LegacyChains, NEW v \in DOMAIN chain, NEW r, NEW p, NEW q,
           NEW marks, Off(r), Off(p), Off(q)
    PROVE  LET d == LegacyMethodology(name, chain, v)
           IN  CatalogueFits(d, r, p, q, marks) /\ Lineages(d, r)
<1>. DEFINE d == LegacyMethodology(name, chain, v)
            t == Legacy(name, chain)
            clone == Legacy("agent", <<chain[v]>>)
            a == [clone EXCEPT !.lineage.methodology = Pin(1, v)]
<1>1. /\ Listed(chain) /\ Len(chain) > 0 /\ DOMAIN chain = 1..Len(chain)
      /\ \A w \in 1..Len(chain) : BundleShaped(chain[w]) /\ ~HasPins(chain[w])
  BY LegacyChainsFit
<1>2. \A m, s \in BOOLEAN : Fits("methodology", t, r, p, m, s)
  <2>1. ASSUME NEW m, NEW s PROVE Fits("methodology", t, r, p, m, s)
    BY <1>1, LegacyFits
  <2>. QED BY <2>1
<1>3. t.status = "active" /\ Len(t.revs) = Len(chain)
  <2>1. ASSUME NEW m, NEW s
        PROVE  Fits("methodology", t, r, p, m, s) /\ t.status = "active" /\ Len(t.revs) = Len(chain)
    BY <1>1, LegacyFits
  <2>. QED BY <2>1
<1>. DEFINE bodies == <<chain[v]>>
<1>4. Listed(bodies) /\ Len(bodies) = 1 /\ bodies[1] = chain[v]
  <2>1. bodies \in Seq({chain[v]}) /\ Len(bodies) = 1 /\ bodies[1] = chain[v]
    OBVIOUS
  <2>. HIDE DEF bodies
  <2>. QED BY <2>1, SeqListed
<1>. HIDE DEF bodies
<1>5. \A w \in 1..Len(bodies) : BundleShaped(bodies[w]) /\ ~HasPins(bodies[w])
  BY <1>1, <1>4
<1>6. ASSUME NEW m, NEW s
      PROVE  Fits("agent", clone, r, q, m, s) /\ clone.lineage = NoLineage
  <2>1. Fits("agent", Legacy("agent", bodies), r, q, m, s) /\ Legacy("agent", bodies).lineage = NoLineage
    BY <1>4, <1>5, LegacyFits
  <2>. QED BY <2>1 DEF bodies
<1>7. /\ TemplateFields \subseteq DOMAIN a /\ LineageFields \subseteq DOMAIN a.lineage
      /\ a.name = clone.name /\ a.revs = clone.revs /\ a.status = clone.status
      /\ a.lineage.role = NoPin /\ a.lineage.methodology = Pin(1, v)
  <2>1. TemplateFields \subseteq DOMAIN clone /\ clone.lineage = NoLineage
    BY <1>6 DEF Fits, Shaped
  <2>. HIDE DEF clone
  <2>. QED BY <2>1, NoLineageFields DEF TemplateFields, LineageFields
<1>. HIDE DEF a, t, clone
<1>8. \A m, s \in BOOLEAN : Fits("agent", a, r, q, m, s)
  <2>1. ASSUME NEW m, NEW s PROVE Fits("agent", a, r, q, m, s)
    BY <1>6, <1>7, SameRowsFit
  <2>. QED BY <2>1
<1>9. /\ DOMAIN d = Kinds /\ d["role"] = <<>> /\ d["tool"] = <<>>
      /\ d["methodology"] = <<t>> /\ d["agent"] = <<a>>
  BY DEF LegacyMethodology, Empty, Kinds, t, a, clone
<1>. HIDE DEF d
<1>10. CatalogueFits(d, r, p, q, marks)
  BY <1>2, <1>8, <1>9, OneTemplateFits, NoTemplateFits DEF CatalogueFits
<1>11. Lineages(d, r)
  <2>1. /\ Len(<<t>>) = 1 /\ <<t>>[1] = t /\ Len(<<a>>) = 1 /\ <<a>>[1] = a
        /\ \A i \in 1..1 : i = 1 /\ 1 \in 1..1
    OBVIOUS
  <2>2. Pin(1, v).id = 1 /\ Pin(1, v).version = v
    BY DEF Pin
  <2>3. Rooted(d["methodology"], Pin(1, v))
    BY <1>1, <1>3, <1>9, <2>1, <2>2 DEF Rooted
  <2>4. LineageIn(d, r, a.lineage)
    BY <1>7, <2>3 DEF LineageIn, RootedLineage, Off
  <2>. QED BY <1>9, <2>1, <2>4 DEF Lineages
<1>. QED BY <1>10, <1>11 DEF d

(* A role of an earlier release. *)
LEMMA LegacyRoleFits ==
    ASSUME NEW chain \in LegacyChains, NEW r, NEW p, NEW q, NEW marks, On(r), Off(p)
    PROVE  LET d == LegacyRole(chain)
           IN  CatalogueFits(d, r, p, q, marks) /\ Lineages(d, r)
<1>. DEFINE t == Legacy("Other", chain)
            d == [Empty EXCEPT !["role"] = <<t>>]
<1>1. /\ Listed(chain) /\ Len(chain) > 0
      /\ \A w \in 1..Len(chain) : BundleShaped(chain[w]) /\ ~HasPins(chain[w])
  BY LegacyChainsFit
<1>2. \A m, s \in BOOLEAN : Fits("role", t, r, p, m, s)
  <2>1. ASSUME NEW m, NEW s PROVE Fits("role", t, FALSE, p, m, s)
    BY <1>1, LegacyFits DEF Off
  <2>2. ASSUME NEW m, NEW s, NEW r1, Fits("role", t, r1, p, m, s) PROVE Fits("role", t, r, p, m, s)
    BY <2>2, FitsOn
  <2>. QED BY <2>1, <2>2
<1>. HIDE DEF t
<1>3. DOMAIN d = Kinds /\ d["role"] = <<t>> /\ d["tool"] = <<>> /\ d["methodology"] = <<>> /\ d["agent"] = <<>>
  BY DEF Empty, Kinds
<1>. HIDE DEF d
<1>4. CatalogueFits(d, r, p, q, marks)
  BY <1>2, <1>3, OneTemplateFits, NoTemplateFits DEF CatalogueFits
<1>5. Lineages(d, r)
  BY <1>3, NoTemplateFits DEF Lineages
<1>6. CatalogueFits(Up0008(d), r, p, q, marks) /\ Lineages(Up0008(d), r)
  BY <1>4, <1>5, Up0008Fits DEF Migrates
<1>7. CatalogueFits(Up0009(Up0008(d)), r, p, q, marks) /\ Lineages(Up0009(Up0008(d)), r)
  BY <1>6, Up0009Fits DEF Migrates
<1>. QED BY <1>7 DEF LegacyRole, d, t

(* The invariant holds at the start. *)
LEMMA InitInv == Init => IInv
<1>. SUFFICES ASSUME Init PROVE IInv
  OBVIOUS
<1>1. tenant = 8 /\ call = [o \in Operators |-> NoCall] /\ disturbed = {}
  BY DEF Init
<1>2. schema \in 5..13 /\ tenant \in 8..10
  BY DEF Init
<1>3. CatalogueFits(db, HasRefs, Serving, TenantPins, disturbed) /\ Lineages(db, HasRefs)
  <2>0. Off(TenantPins)
    BY <1>1 DEF Off, TenantPins
  <2>1. CASE schema = 5
    <3>1. Off(HasRefs) /\ Off(Serving)
      BY <2>1 DEF Off, HasRefs, Serving
    <3>2. PICK name \in LegacyNames, chain \in LegacyChains : \E v \in DOMAIN chain :
            db = LegacyMethodology(name, chain, v)
      BY <2>1 DEF Init
    <3>3. PICK v \in DOMAIN chain : db = LegacyMethodology(name, chain, v)
      BY <3>2
    <3>. QED BY <2>0, <3>1, <3>3, LegacyMethodologyFits
  <2>2. CASE schema = 9
    <3>1. On(HasRefs) /\ Off(Serving)
      BY <2>2 DEF On, Off, HasRefs, Serving
    <3>2. PICK chain \in LegacyChains : db = LegacyRole(chain)
      BY <2>2 DEF Init
    <3>. QED BY <3>1, <3>2, LegacyRoleFits
  <2>. QED BY <2>1, <2>2 DEF Init
<1>4. call = [o \in Operators |-> call[o]] /\ \A o \in Operators : call[o] = NoCall
  BY <1>1
<1>5. \A o \in Operators : CallFits(db, HasRefs, Serving, TenantPins, call[o])
  BY <1>4 DEF CallFits
<1>. QED BY <1>2, <1>3, <1>4, <1>5 DEF IInv

(* And every step keeps it. *)
LEMMA StepInv == IInv /\ [Next]_allVars => IInv'
<1>. SUFFICES ASSUME IInv, [Next]_allVars PROVE IInv'
  OBVIOUS
<1>1. CASE Call
  BY <1>1, CallKeeps
<1>2. CASE MigrationStep
  BY <1>2, MigrationStepKeeps
<1>3. CASE UNCHANGED allVars
  BY <1>3 DEF allVars, IInv, HasRefs, Serving, TenantPins
<1>. QED BY <1>1, <1>2, <1>3 DEF Next

(* The inductive invariant: rows shaped for the migration their database is at,
   chains intact and compared but for the marks, lineages rooted, held calls fit. *)
THEOREM CatalogueInv == Spec => []IInv
BY InitInv, StepInv, PTL DEF Spec

(* What the invariant says *)

\* What holds of a live template.
LEMMA LiveFits ==
    ASSUME IInv, NEW k \in Kinds, NEW id \in Live(k)
    PROVE  /\ k \in BundleKinds => Bundled(db[k][id])
           /\ k = "methodology" => Referring(db[k][id], HasRefs)
           /\ Marked(disturbed, k, id) \/ Verifies(db[k][id])
           /\ k = "tool" => Extended(disturbed, k, id) \/ Compared(db[k][id])
           /\ DOMAIN db[k][id].revs = 1..Len(db[k][id].revs)
<1>. DEFINE t == db[k][id]
<1>1. id \in 1..Len(db[k]) /\ Shaped(t)
  BY LiveTemplate
<1>2. \E p : KindFits(k, db[k], HasRefs, p, disturbed)
  BY InvOfCatalogue, CatalogueKinds
<1>3. \E p : Fits(k, t, HasRefs, p, Marked(disturbed, k, id), Extended(disturbed, k, id))
  BY <1>1, <1>2 DEF KindFits
<1>4. DOMAIN t.revs = 1..Len(t.revs)
  BY <1>1, ListDomain DEF Shaped
<1>. QED BY <1>3, <1>4 DEF Fits

\* A chain verifies unless it is marked as disturbed.
LEMMA ChainsIntact == IInv => IntactUnlessDisturbed
<1>. SUFFICES ASSUME IInv, NEW k \in Kinds, NEW i \in Live(k)
              PROVE  ChainVerifies(k, i) \/ \E x \in disturbed : x[1] = k /\ x[2] = i
  BY DEF IntactUnlessDisturbed
<1>1. DOMAIN db[k][i].revs = 1..Len(db[k][i].revs)
  BY LiveFits
<1>2. Marked(disturbed, k, i) \/ Verifies(db[k][i])
  BY LiveFits
<1>. QED BY <1>1, <1>2 DEF Marked, Verifies, ChainVerifies

\* What an agent is pinned to is there, or deleted.
LEMMA AgentsRooted == IInv => AgentsResolve
<1>. SUFFICES ASSUME IInv, NEW a \in Live("agent")
              PROVE  LET lineage == db["agent"][a].lineage
                         gone(k, pin) == pin.id \in DOMAIN db[k] /\ db[k][pin.id].status = "deleted"
                     IN \/ Resolves(a)
                        \/ gone("role", lineage.role) \/ gone("methodology", lineage.methodology)
  BY DEF AgentsResolve
<1>. DEFINE l == db["agent"][a].lineage
            gone(k, pin) == pin.id \in DOMAIN db[k] /\ db[k][pin.id].status = "deleted"
<1>1. a \in 1..Len(db["agent"])
  BY LiveTemplate DEF Kinds
<1>2. RootedLineage(db["role"], db["methodology"], HasRefs, l)
  BY <1>1 DEF IInv, Lineages, LineageIn
<1>3. ASSUME NEW k \in Kinds, NEW pin, Rooted(db[k], pin)
      PROVE  gone(k, pin) \/ HasRevision(k, pin)
  <2>1. DOMAIN db[k] = 1..Len(db[k])
    BY InvOfCatalogue, KindsListed
  <2>. QED BY <1>3, <2>1 DEF Rooted, HasRevision, Exists, Version
<1>. HIDE DEF gone
<1>4. l.role # NoPin => gone("role", l.role) \/ HasRevision("role", l.role)
  BY <1>2, <1>3 DEF RootedLineage, Kinds
<1>5. l.methodology # NoPin =>
        gone("methodology", l.methodology) \/ HasRevision("methodology", l.methodology)
  BY <1>2, <1>3 DEF RootedLineage, Kinds
<1>6. Resolves(a) \/ gone("role", l.role) \/ gone("methodology", l.methodology)
  BY <1>4, <1>5 DEF Resolves
<1>. QED BY <1>6 DEF gone

-----------------------------------------------------------------------------
(* Composition: what is not replaced is tightened *)

Narrows(role, bundle, o) ==
    LET replaced == {f \in DOMAIN o : o[f].mode = "replace"}
    IN /\ "tool_allowlist" \in replaced \/ bundle.tool_allowlist \subseteq role.tool_allowlist
       /\ "min_score" \in replaced \/ bundle.min_score >= role.min_score
       /\ "top_k" \in replaced \/ bundle.top_k <= role.top_k
       /\ "filter_tree" \in replaced \/ role.filter_tree \subseteq bundle.filter_tree

(* compose_effective_constraint_bundle: what is not replaced is tightened. *)
LEMMA ComposedNarrows ==
    ASSUME NEW role, role.min_score \in Nat, role.top_k \in Nat, NEW o, OverridesShaped(o)
    PROVE  Narrows(role, ComposeEffectiveConstraintBundle(role, o), o)
<1>. DEFINE b == ComposeEffectiveConstraintBundle(role, o)
<1>1. /\ b.tool_allowlist = ResolveToolAllowlist(o, role.tool_allowlist)
      /\ b.min_score = ResolveNumericTighten(o, "min_score", role.min_score)
      /\ b.top_k = ResolveNumericTighten(o, "top_k", role.top_k)
      /\ b.filter_tree = ResolveFilterTree(o, role.filter_tree)
  BY DEF ComposeEffectiveConstraintBundle
<1>. HIDE DEF b
<1>. DEFINE replaced == {f \in DOMAIN o : o[f].mode = "replace"}
<1>2. "tool_allowlist" \in replaced \/ b.tool_allowlist \subseteq role.tool_allowlist
  BY <1>1 DEF ResolveToolAllowlist, Resolve
<1>3. "min_score" \in replaced \/ b.min_score >= role.min_score
  <2>. DEFINE x == role.min_score
              y == o["min_score"].value
  <2>1. x \in Nat /\ ("min_score" \in DOMAIN o => y \in Nat)
    BY DEF OverridesShaped
  <2>2. b.min_score = IF "min_score" \notin DOMAIN o THEN x
                      ELSE IF o["min_score"].mode = "replace" THEN y ELSE Greatest(x, y)
    BY <1>1 DEF ResolveNumericTighten, Resolve
  <2>. DEFINE z == b.min_score
  <2>. HIDE DEF x, y, z
  <2>3. ASSUME "min_score" \notin replaced PROVE z = x \/ (y \in Nat /\ z = Greatest(x, y))
    BY <2>1, <2>2, <2>3 DEF z
  <2>4. ASSUME "min_score" \notin replaced PROVE z >= x
    BY <2>1, <2>3, <2>4 DEF Greatest
  <2>. QED BY <2>4 DEF x, z
<1>4. b.top_k <= role.top_k
  <2>1. b.top_k = role.top_k
    BY <1>1 DEF ResolveNumericTighten, Resolve, OverridesShaped
  <2>. DEFINE x == role.top_k
  <2>2. x \in Nat => x <= x
    OBVIOUS
  <2>. QED BY <2>1, <2>2
<1>5. "filter_tree" \in replaced \/ role.filter_tree \subseteq b.filter_tree
  BY <1>1 DEF ResolveFilterTree, Resolve
<1>6. Narrows(role, b, o)
  BY <1>2, <1>3, <1>4, <1>5 DEF Narrows
<1>. QED BY <1>6 DEF b

(* The overrides of the first matching reference are of the shape written. *)
LEMMA OverridesAreShaped ==
    ASSUME IInv, HasRefs, NEW a \in Live("agent"), db["agent"][a].lineage.role # NoPin, Resolves(a)
    PROVE  OverridesShaped(OverridesOf(a))
<1>. DEFINE l == db["agent"][a].lineage
            refs == Revision("methodology", l.methodology).body.role_refs
            mine == {i \in DOMAIN refs : refs[i].role = l.role.id}
<1>1. DOMAIN <<>> = {}
  OBVIOUS
<1>2. OverridesShaped(<<>>)
  BY <1>1 DEF OverridesShaped
<1>3. CASE l.methodology = NoPin
  BY <1>2, <1>3 DEF OverridesOf
<1>4. CASE l.methodology # NoPin
  <2>1. HasRevision("methodology", l.methodology)
    BY <1>4 DEF Resolves
  <2>. DEFINE m == l.methodology.id
              v == l.methodology.version
              t == db["methodology"][m]
  <2>2. m \in Live("methodology") /\ v \in 1..Len(t.revs)
    BY <2>1 DEF HasRevision, Live, Exists, Version
  <2>3. Referring(t, HasRefs)
    BY <2>2, LiveFits DEF Kinds
  <2>4. RefsShaped(t.revs[v].body.role_refs)
    BY <2>2, <2>3 DEF Referring
  <2>5. refs = t.revs[v].body.role_refs
    BY DEF Revision
  <2>6. RefsShaped(refs)
    BY <2>4, <2>5
  <2>7. OverridesOf(a) = IF mine = {} THEN <<>>
                         ELSE refs[CHOOSE i \in mine : \A j \in mine : i <= j].overrides
    BY <1>4 DEF OverridesOf, MethodologyOverridesLookup
  <2>. HIDE DEF refs
  <2>8. mine \subseteq Nat /\ mine \subseteq DOMAIN refs
    BY <2>6 DEF RefsShaped
  <2>. HIDE DEF mine
  <2>9. ASSUME mine # {} PROVE (CHOOSE i \in mine : \A j \in mine : i <= j) \in mine
    <3>1. \E i \in mine : \A j \in mine : i <= j
      BY <2>8, <2>9, LeastNatural
    <3>. QED BY <3>1
  <2>. QED BY <1>2, <2>6, <2>7, <2>8, <2>9 DEF RefsShaped
<1>. QED BY <1>3, <1>4

(* The invariant gives a role its score and a reference its overrides. *)
LEMMA OnlyNarrows == IInv => NeverLooserThanItsRole
<1>. SUFFICES ASSUME IInv, schema >= 6, NEW a \in Live("agent"),
                     db["agent"][a].lineage.role # NoPin, Resolves(a)
              PROVE  Narrows(WholeBundle(ResolveRoleView(a)), EffectiveBundle(a), OverridesOf(a))
  BY DEF NeverLooserThanItsRole, Narrows
<1>. DEFINE pin == db["agent"][a].lineage.role
            body == ResolveRoleView(a)
            role == WholeBundle(body)
<1>1. HasRevision("role", pin)
  BY DEF Resolves
<1>2. body.min_score \in Nat
  <2>1. pin.id \in Live("role") /\ pin.version \in 1..Len(db["role"][pin.id].revs)
    BY <1>1 DEF HasRevision, Live, Exists, Version
  <2>2. Bundled(db["role"][pin.id])
    BY <2>1, LiveFits DEF Kinds, BundleKinds
  <2>3. body = db["role"][pin.id].revs[pin.version].body
    BY DEF ResolveRoleView, RoleLookup, Revision
  <2>. HIDE DEF body
  <2>. QED BY <2>1, <2>2, <2>3 DEF Bundled, BundleShaped
<1>3. role.min_score = body.min_score /\ role.top_k = 5
  BY DEF WholeBundle
<1>4. EffectiveBundle(a) = ComposeEffectiveConstraintBundle(role, OverridesOf(a))
  BY DEF EffectiveBundle
<1>5. OverridesShaped(OverridesOf(a))
  BY OverridesAreShaped DEF HasRefs
<1>. HIDE DEF role, body
<1>6. role.min_score \in Nat /\ role.top_k \in Nat
  BY <1>2, <1>3
<1>. QED BY <1>4, <1>5, <1>6, ComposedNarrows DEF role, body

(* Tools: what is said to be compatible is *)

\* What content b of a tool keeps of content a: its properties, no more of
\* them required, and every type a call may use, unless b gives none.
Serves(a, b) ==
    /\ DOMAIN a.parameters \subseteq DOMAIN b.parameters
    /\ RequiredIn(b.parameters) \subseteq RequiredIn(a.parameters)
    /\ \A p \in DOMAIN a.parameters :
        \/ Untyped(b.parameters[p])
        \/ ~Untyped(a.parameters[p]) /\ a.parameters[p].types \subseteq b.parameters[p].types
    /\ DOMAIN a.returns.properties \subseteq DOMAIN b.returns.properties

Typed(a) == \A p \in DOMAIN a.parameters : ~Untyped(a.parameters[p])

(* A content serves its own calls. *)
LEMMA ServesItself == ASSUME NEW a PROVE Serves(a, a)
BY DEF Serves

\* The check passing, from typed parameters: one more revision serves.
LEMMA ServesNext ==
    ASSUME NEW a, NEW b, NEW c, Serves(a, b), Typed(b), CheckRevisionCompatibility(b, c) # "failed"
    PROVE  Serves(a, c)
<1>1. DiffParameters(b.parameters, c.parameters) /\ DiffReturns(b.returns, c.returns)
  BY DEF CheckRevisionCompatibility
<1>2. /\ DOMAIN b.parameters \subseteq DOMAIN c.parameters
      /\ RequiredIn(c.parameters) \subseteq RequiredIn(b.parameters)
      /\ KeepsTypes(b.parameters, c.parameters)
  BY <1>1 DEF DiffParameters
<1>3. DOMAIN b.returns.properties \subseteq DOMAIN c.returns.properties
  BY <1>1 DEF DiffReturns
<1>4. ASSUME NEW p \in DOMAIN a.parameters
      PROVE  \/ Untyped(c.parameters[p])
             \/ ~Untyped(a.parameters[p]) /\ a.parameters[p].types \subseteq c.parameters[p].types
  <2>1. p \in DOMAIN b.parameters /\ p \in DOMAIN c.parameters /\ ~Untyped(b.parameters[p])
    BY <1>2 DEF Serves, Typed
  <2>2. ~Untyped(a.parameters[p]) /\ a.parameters[p].types \subseteq b.parameters[p].types
    BY <2>1 DEF Serves
  <2>3. \/ Untyped(c.parameters[p]) \/ b.parameters[p].types = c.parameters[p].types
        \/ b.parameters[p].types \subseteq c.parameters[p].types
    BY <1>2, <2>1 DEF KeepsTypes, IsTypeWidening
  <2>. QED BY <2>2, <2>3
<1>. QED BY <1>2, <1>3, <1>4 DEF Serves

(* What serves a content accepts the calls written against it. *)
LEMMA ServedCalls ==
    ASSUME NEW a, NEW b, Serves(a, b)
    PROVE  ServesCallsOf(b.parameters, a.parameters)
<1>. SUFFICES ASSUME NEW x, Accepts(a.parameters, x) PROVE Accepts(b.parameters, x)
  BY DEF ServesCallsOf, CallsOf
<1>1. RequiredIn(b.parameters) \subseteq DOMAIN x
  BY DEF Serves, Accepts
<1>2. ASSUME NEW p \in DOMAIN x
      PROVE  p \in DOMAIN b.parameters /\ Admits(b.parameters[p], x[p])
  BY DEF Serves, Accepts, Admits
<1>. QED BY <1>1, <1>2 DEF Accepts

\* Along a chain whose outcomes are those of the check.
LEMMA ServesAlong ==
    ASSUME NEW c, NEW n \in Nat, NEW m \in 1..n,
           \A v \in m..n - 1 : Typed(c[v]),
           \A v \in m + 1..n : CheckRevisionCompatibility(c[v - 1], c[v]) # "failed"
    PROVE  Serves(c[m], c[n])
<1>. DEFINE Bad == {v \in m..n : ~Serves(c[m], c[v])}
<1>1. SUFFICES ASSUME Bad # {} PROVE FALSE
  BY n \in m..n
<1>2. Bad \subseteq Nat
  OBVIOUS
<1>3. PICK w \in Bad : \A v \in Bad : w <= v
  <2>. HIDE DEF Bad
  <2>. QED BY <1>1, <1>2, LeastNatural
<1>4. w # m
  BY ServesItself
<1>5. w - 1 \in m..n /\ w - 1 \in m..n - 1 /\ w \in m + 1..n
  BY <1>4
<1>6. w - 1 \notin Bad
  BY <1>2, <1>3
<1>7. Serves(c[m], c[w - 1])
  BY <1>5, <1>6
<1>8. Typed(c[w - 1]) /\ CheckRevisionCompatibility(c[w - 1], c[w]) # "failed"
  BY <1>5
<1>9. Serves(c[m], c[w])
  BY <1>7, <1>8, ServesNext
<1>. QED BY <1>9

(* From the pinned revision to the latest, one passed comparison at a time. *)
LEMMA AdoptionSafe == IInv => AdoptionIsSafe
<1>. SUFFICES ASSUME IInv, NEW t \in Live("tool"), NEW pinned \in PinnedRevisions(t),
                     CanAutoAdopt(t, pinned),
                     \A v \in pinned..Version("tool", t) - 1 :
                        \A p \in DOMAIN Revision("tool", Pin(t, v)).body.parameters :
                            ~Untyped(Revision("tool", Pin(t, v)).body.parameters[p]),
                     <<"tool", t, "straddled">> \notin disturbed
              PROVE  LET content(v) == Revision("tool", Pin(t, v)).body
                         latest == content(Version("tool", t))
                     IN /\ ServesCallsOf(latest.parameters, content(pinned).parameters)
                        /\ DOMAIN content(pinned).returns.properties
                             \subseteq DOMAIN latest.returns.properties
  BY DEF AdoptionIsSafe
<1>. DEFINE revs == db["tool"][t].revs
            n == Version("tool", t)
            c == [v \in 1..n |-> revs[v].body]
<1>1. n = Len(revs) /\ n \in Nat
  BY LiveTemplate DEF Version, Kinds
<1>2. Compared(db["tool"][t])
  BY LiveFits DEF Extended, Kinds
<1>3. \A v : Revision("tool", Pin(t, v)) = revs[v]
  BY DEF Revision, Pin
<1>4. pinned \in 1..n /\ \A v \in pinned + 1..n : revs[v].bc # "failed"
  BY <1>3 DEF CanAutoAdopt
<1>5. \A v \in 1..n : v > 1 => revs[v].bc = CheckRevisionCompatibility(revs[v - 1].body, revs[v].body)
  BY <1>1, <1>2 DEF Compared
<1>6. \A v \in pinned..n - 1 : \A p \in DOMAIN revs[v].body.parameters : ~Untyped(revs[v].body.parameters[p])
  BY <1>3
<1>. HIDE DEF revs, n
<1>7. ASSUME NEW v \in pinned..n - 1 PROVE Typed(c[v])
  <2>1. v \in 1..n
    BY <1>1, <1>4
  <2>2. c[v] = revs[v].body
    BY <2>1
  <2>. HIDE DEF c
  <2>. QED BY <1>6, <2>2 DEF Typed
<1>8. ASSUME NEW v \in pinned + 1..n PROVE CheckRevisionCompatibility(c[v - 1], c[v]) # "failed"
  <2>1. v \in 1..n /\ v - 1 \in 1..n /\ v > 1
    BY <1>1, <1>4
  <2>2. c[v] = revs[v].body /\ c[v - 1] = revs[v - 1].body
    BY <2>1
  <2>. HIDE DEF c
  <2>. QED BY <1>4, <1>5, <2>1, <2>2
<1>9. n \in 1..n
  BY <1>1, <1>4
<1>10. c[n] = revs[n].body /\ c[pinned] = revs[pinned].body
  BY <1>4, <1>9
<1>. HIDE DEF c
<1>11. Serves(c[pinned], c[n])
  BY <1>1, <1>4, <1>7, <1>8, ServesAlong
<1>12. Serves(revs[pinned].body, revs[n].body)
  BY <1>10, <1>11
<1>13. /\ ServesCallsOf(revs[n].body.parameters, revs[pinned].body.parameters)
       /\ DOMAIN revs[pinned].body.returns.properties \subseteq DOMAIN revs[n].body.returns.properties
  BY <1>12, ServedCalls DEF Serves
<1>. QED BY <1>3, <1>13 DEF n

-----------------------------------------------------------------------------
(* Pins *)

\* What a pin names stays as it is, whatever calls do.
LEMMA PinStays ==
    ASSUME IInv, IInv', Extends(db, db'), NEW k \in Kinds, NEW pin, HasRevision(k, pin)
    PROVE  HasRevision(k, pin)' /\ Revision(k, pin)' = Revision(k, pin)
<1>. DEFINE t == db[k][pin.id]
            u == db'[k][pin.id]
<1>1. pin.id \in Live(k) /\ pin.version \in 1..Len(t.revs) /\ t.status # "deleted"
  BY DEF HasRevision, Live, Exists, Version
<1>2. pin.id \in 1..Len(db[k])
  BY <1>1, LiveTemplate
<1>3. KindExtends(db[k], db'[k])
  BY DEF Extends
<1>4. GrowsInto(t, u) /\ pin.id \in 1..Len(db'[k])
  BY <1>2, <1>3 DEF KindExtends
<1>5. CatalogueFits(db', HasRefs', Serving', TenantPins', disturbed')
  BY DEF IInv
<1>6. pin.id \in DOMAIN db'[k]
  BY <1>4, <1>5, KindsListed
<1>7. pin.version \in 1..Len(u.revs) /\ u.revs[pin.version] = t.revs[pin.version] /\ u.status # "deleted"
  <2>. DEFINE x == pin.version
              m == Len(t.revs)
              n == Len(u.revs)
  <2>1. x \in 1..m /\ m \in Nat /\ n \in Nat /\ m <= n
    BY <1>1, <1>4 DEF GrowsInto
  <2>. HIDE DEF x, m, n
  <2>2. x \in 1..n
    BY <2>1, InLonger
  <2>. QED BY <1>1, <1>4, <2>2 DEF GrowsInto, x, n
<1>. QED BY <1>6, <1>7 DEF HasRevision, Exists, Version, Revision

(* A call changes no agent's lineage. *)
LEMMA LineageStays ==
    ASSUME IInv, Extends(db, db'), NEW a \in Live("agent")
    PROVE  db'["agent"][a].lineage = db["agent"][a].lineage
<1>1. a \in 1..Len(db["agent"])
  BY LiveTemplate DEF Kinds
<1>. QED BY <1>1 DEF Extends, KindExtends, GrowsInto, Kinds

(* Neither role, methodology nor tool definition of an agent changes. *)
LEMMA PinsAreFixed ==
    ASSUME IInv, IInv', Extends(db, db'), NEW a \in Live("agent"),
           db["agent"][a].lineage.role # NoPin, Resolves(a)
    PROVE  /\ Resolves(a)'
           /\ EffectiveBundle(a)' = EffectiveBundle(a)
           /\ InvokedWith(a).tools \subseteq InvokedWith(a)'.tools
<1>. DEFINE l == db["agent"][a].lineage
<1>1. l' = l
  BY LineageStays
<1>2. HasRevision("role", l.role) /\ (l.methodology # NoPin => HasRevision("methodology", l.methodology))
  BY DEF Resolves
<1>3. ASSUME NEW k \in Kinds, NEW pin, HasRevision(k, pin)
      PROVE  HasRevision(k, pin)' /\ Revision(k, pin)' = Revision(k, pin)
  BY <1>3, PinStays
<1>4. /\ Revision("role", l.role)' = Revision("role", l.role)
      /\ HasRevision("role", l.role)'
  BY <1>1, <1>2, <1>3 DEF Kinds
<1>5. l.methodology # NoPin =>
        /\ Revision("methodology", l.methodology)' = Revision("methodology", l.methodology)
        /\ HasRevision("methodology", l.methodology)'
  BY <1>1, <1>2, <1>3 DEF Kinds
<1>6. Resolves(a)'
  BY <1>1, <1>4, <1>5 DEF Resolves
<1>7. ResolveRoleView(a)' = ResolveRoleView(a)
  BY <1>1, <1>4 DEF ResolveRoleView, RoleLookup
<1>8. OverridesOf(a)' = OverridesOf(a)
  <2>. DEFINE R == Revision("methodology", l.methodology)
              First(refs, id) ==
                LET mine == {i \in DOMAIN refs : refs[i].role = id}
                IN IF mine = {} THEN <<>>
                   ELSE refs[CHOOSE i \in mine : \A j \in mine : i <= j].overrides
  <2>1. OverridesOf(a) = IF l.methodology # NoPin /\ l.role # NoPin
                         THEN First(R.body.role_refs, l.role.id) ELSE <<>>
    BY DEF OverridesOf, MethodologyOverridesLookup
  <2>2. OverridesOf(a)' = IF l'.methodology # NoPin /\ l'.role # NoPin
                          THEN First(R'.body.role_refs, l'.role.id) ELSE <<>>
    BY DEF OverridesOf, MethodologyOverridesLookup
  <2>3. l.methodology # NoPin => R' = R
    BY <1>5
  <2>. HIDE DEF First, R, l
  <2>. QED BY <1>1, <2>1, <2>2, <2>3
<1>9. EffectiveBundle(a)' = EffectiveBundle(a)
  BY <1>7, <1>8 DEF EffectiveBundle
<1>10. InvokedWith(a).tools \subseteq InvokedWith(a)'.tools
  <2>. DEFINE A == EffectiveBundle(a).tool_allowlist
  <2>1. InvokedWith(a).tools = VisibleDefinitions(A) /\ InvokedWith(a)'.tools = VisibleDefinitions(A)'
    BY DEF InvokedWith
  <2>2. A' = A
    BY <1>9
  <2>. HIDE DEF A
  <2>3. ASSUME NEW e \in A, HasRevision("tool", Pin(e.tool, e.revision))
        PROVE  /\ HasRevision("tool", Pin(e.tool, e.revision))'
               /\ Revision("tool", Pin(e.tool, e.revision))' = Revision("tool", Pin(e.tool, e.revision))
    BY <1>3, <2>3 DEF Kinds
  <2>4. VisibleDefinitions(A) \subseteq VisibleDefinitions(A)'
    BY <2>2, <2>3 DEF VisibleDefinitions
  <2>. QED BY <2>1, <2>4
<1>. QED BY <1>6, <1>9, <1>10

\* A migration changes the version of one of the databases.
LEMMA MigrationsMove ==
    ASSUME IInv, MigrationStep
    PROVE  schema' # schema \/ tenant' # tenant
<1>0. \A x, y : (Up(x, y) \/ Down(x, y)) /\ x # y => schema' # schema
  BY DEF Up, Down
<1>1. \A x, y : (TenantUp(x, y) \/ TenantDown(x, y)) /\ x # y => tenant' # tenant
  BY DEF TenantUp, TenantDown
<1>2. CASE UpgradeMethodologyRoleRefs \/ DowngradeMethodologyRoleRefs
  <2>1. Up(5, 6) \/ Down(6, 5)
    BY <1>2 DEF UpgradeMethodologyRoleRefs, DowngradeMethodologyRoleRefs
  <2>. QED BY <1>0, <2>1
<1>3. CASE UpgradeLvtSplit \/ DowngradeLvtSplit
  BY <1>0, <1>3 DEF UpgradeLvtSplit, DowngradeLvtSplit
<1>4. CASE UpgradeMcKinsey \/ DowngradeMcKinsey
  BY <1>0, <1>4 DEF UpgradeMcKinsey, DowngradeMcKinsey
<1>5. CASE UpgradeTools \/ DowngradeTools
  BY <1>0, <1>5 DEF UpgradeTools, DowngradeTools
<1>6. CASE UpgradeAllowlistPin \/ DowngradeAllowlistPin
  BY <1>0, <1>6 DEF UpgradeAllowlistPin, DowngradeAllowlistPin
<1>7. CASE UpgradeRetrievalClosure \/ DowngradeRetrievalClosure
  BY <1>0, <1>7 DEF UpgradeRetrievalClosure, DowngradeRetrievalClosure
<1>8. CASE UpgradeLvtGuideReseed \/ DowngradeLvtGuideReseed
  BY <1>0, <1>8 DEF UpgradeLvtGuideReseed, DowngradeLvtGuideReseed
<1>9. CASE UpgradeRoleLineage \/ DowngradeRoleLineage
  BY <1>1, <1>9 DEF UpgradeRoleLineage, DowngradeRoleLineage
<1>10. CASE UpgradeAgentAllowlistPin \/ DowngradeAgentAllowlistPin
  BY <1>1, <1>10 DEF UpgradeAgentAllowlistPin, DowngradeAgentAllowlistPin
<1>. QED BY <1>2, <1>3, <1>4, <1>5, <1>6, <1>7, <1>8, <1>9, <1>10 DEF MigrationStep

PinnedStep ==
    db' # db /\ schema' = schema /\ tenant' = tenant /\ schema >= 6 =>
        \A a \in Live("agent") :
            db["agent"][a].lineage.role # NoPin /\ Resolves(a) =>
                /\ Resolves(a)'
                /\ EffectiveBundle(a)' = EffectiveBundle(a)
                /\ InvokedWith(a).tools \subseteq InvokedWith(a)'.tools

(* Only migrations move what is pinned. *)
LEMMA StepKeepsPins == IInv /\ [Next]_allVars => [PinnedStep]_vars
<1>. SUFFICES ASSUME IInv, [Next]_allVars PROVE [PinnedStep]_vars
  OBVIOUS
<1>1. CASE Call
  <2>1. IInv' /\ Extends(db, db')
    BY <1>1, CallKeeps
  <2>2. ASSUME NEW a \in Live("agent"), db["agent"][a].lineage.role # NoPin, Resolves(a)
        PROVE  /\ Resolves(a)'
               /\ EffectiveBundle(a)' = EffectiveBundle(a)
               /\ InvokedWith(a).tools \subseteq InvokedWith(a)'.tools
    BY <2>1, <2>2, PinsAreFixed
  <2>. QED BY <2>2 DEF PinnedStep
<1>2. CASE MigrationStep
  BY <1>2, MigrationsMove DEF PinnedStep
<1>3. CASE UNCHANGED allVars
  BY <1>3 DEF allVars, vars
<1>. QED BY <1>1, <1>2, <1>3 DEF Next

-----------------------------------------------------------------------------
(* The theorems *)

\* Whatever operators and migrations do, in whatever order, a chain of
\* revisions verifies unless one of the listed events has been at it
\* (verify_chain_integrity).
THEOREM ChainsVerify == Spec => []IntactUnlessDisturbed
BY CatalogueInv, ChainsIntact, PTL

\* A cloned agent finds what it is pinned to, unless a downgrade has deleted
\* it (the lookups of invocation, without a foreign key to rely on).
THEOREM AgentsAreRooted == Spec => []AgentsResolve
BY CatalogueInv, AgentsRooted, PTL

\* A methodology that does not replace a field never loosens it
\* (compose_effective_constraint_bundle).
THEOREM MethodologiesNarrow == Spec => []NeverLooserThanItsRole
BY CatalogueInv, OnlyNarrows, PTL

\* What list_roles_using_tool offers to adopt automatically accepts every
\* call written against what is pinned now.
THEOREM AdoptionIsSound == Spec => []AdoptionIsSafe
BY CatalogueInv, AdoptionSafe, PTL

\* No call of an operator changes what a cloned agent is invoked with.
THEOREM PinsHold == Spec => PinnedIsFixed
<1>1. IInv /\ [Next]_allVars => [PinnedStep]_vars
  BY StepKeepsPins
<1>2. Spec => [][PinnedStep]_vars
  BY <1>1, CatalogueInv, PTL DEF Spec
<1>. QED BY <1>2 DEF PinnedIsFixed, PinnedStep
=============================================================================
