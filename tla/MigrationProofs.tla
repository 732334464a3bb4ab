--------------------------- MODULE MigrationProofs ---------------------------
(***************************************************************************)
(* What is proved of the data migrations, for every content of the rows    *)
(* they rewrite: each keeps the catalogue's invariant IInv.                *)
(*                                                                         *)
(* Fits says what holds of one template, given the era of its database and *)
(* whether its chain is marked as disturbed; KindFits and CatalogueFits of *)
(* all of them.  Rooted and Lineages say that what an agent is pinned to   *)
(* was there and can only have been deleted.  A migration is shown to      *)
(* carry every template into the next era, template by template, and       *)
(* Migrates says what it leaves to the lineages and to the calls it comes  *)
(* across.  On and Off stand for the eras, as conditions on arguments.     *)
(***************************************************************************)
EXTENDS CatalogueMigrations, TLAPS, FiniteSetTheorems, WellFoundedInduction

(* ------------------------------- lists ------------------------------- *)

\* s is a finite sequence.
Listed(s) == Len(s) \in Nat /\ s = [i \in 1..Len(s) |-> s[i]]

(* The domain of a finite sequence. *)
LEMMA ListDomain ==
    ASSUME NEW s, Listed(s)
    PROVE  DOMAIN s = 1..Len(s) /\ Len(s) \in Nat
BY DEF Listed

(* What is in Seq(S) is a finite sequence. *)
LEMMA SeqListed ==
    ASSUME NEW S, NEW q \in Seq(S)
    PROVE  Listed(q) /\ DOMAIN q = 1..Len(q)
<1>1. Len(q) \in Nat /\ DOMAIN q = 1..Len(q) /\ q \in [1..Len(q) -> S]
  OBVIOUS
<1>2. q = [i \in 1..Len(q) |-> q[i]]
  BY <1>1
<1>. QED BY <1>1, <1>2 DEF Listed

(* And the other way round, with one element more to spare. *)
LEMMA ListedSeq ==
    ASSUME NEW s, Listed(s), NEW x
    PROVE  s \in Seq({s[i] : i \in 1..Len(s)} \union {x})
BY DEF Listed

(* What Append makes of a finite sequence. *)
LEMMA ListAppend ==
    ASSUME NEW s, Listed(s), NEW x
    PROVE  /\ Listed(Append(s, x)) /\ Len(Append(s, x)) = Len(s) + 1
           /\ DOMAIN Append(s, x) = 1..Len(s) + 1
           /\ \A i \in 1..Len(s) : Append(s, x)[i] = s[i]
           /\ Append(s, x)[Len(s) + 1] = x
<1>. DEFINE S == {s[i] : i \in 1..Len(s)} \union {x}
<1>1. s \in Seq(S) /\ x \in S
  BY ListedSeq
<1>. HIDE DEF S
<1>2. Append(s, x) \in Seq(S) /\ Len(Append(s, x)) = Len(s) + 1
  BY <1>1
<1>3. \A i \in 1..Len(s) : Append(s, x)[i] = s[i]
  BY <1>1
<1>4. Append(s, x)[Len(s) + 1] = x
  BY <1>1
<1>5. Listed(Append(s, x)) /\ DOMAIN Append(s, x) = 1..Len(s) + 1
  BY <1>1, <1>2, SeqListed
<1>. QED BY <1>2, <1>3, <1>4, <1>5

\* A function on 1..n is a sequence of length n.
LEMMA ListMade ==
    ASSUME NEW n \in Nat, NEW s, s = [i \in 1..n |-> s[i]]
    PROVE  Listed(s) /\ Len(s) = n
<1>1. s \in Seq({s[i] : i \in 1..n})
  OBVIOUS
<1>2. Len(s) = n
  BY <1>1
<1>. QED BY <1>2 DEF Listed

(* A set of naturals has a least element. *)
LEMMA LeastNatural ==
    ASSUME NEW S \in SUBSET Nat, S # {}
    PROVE  \E m \in S : \A k \in S : m <= k
<1>. DEFINE R == OpToRel(<, Nat)
<1>1. IsWellFoundedOn(R, Nat)
  BY NatLessThanWellFounded
<1>2. \A x, y \in Nat : x < y => <<x, y>> \in R
  BY DEF OpToRel
<1>. HIDE DEF R
<1>3. PICK m \in S : \A k \in S : ~(<<k, m>> \in R)
  BY <1>1, WFMin
<1>4. ASSUME NEW k \in S PROVE m <= k
  <2>1. k \in Nat /\ m \in Nat /\ ~(k < m)
    BY <1>2, <1>3
  <2>. QED BY <2>1
<1>. QED BY <1>4

(* A set of naturals up to n has a greatest element. *)
LEMMA GreatestBelow ==
    ASSUME NEW n \in Nat, NEW S \in SUBSET (1..n), S # {}
    PROVE  \E m \in S : \A k \in S : k <= m
<1>. DEFINE T == {n - k : k \in S}
<1>0. \A k \in S : n - k \in Nat
  OBVIOUS
<1>1. T \subseteq Nat /\ T # {}
  BY <1>0
<1>2. PICK m \in T : \A k \in T : m <= k
  <2>. HIDE DEF T
  <2>. QED BY <1>1, LeastNatural
<1>3. PICK i \in S : m = n - i
  BY <1>2
<1>4. ASSUME NEW k \in S PROVE k <= i
  <2>1. n - i <= n - k
    BY <1>2, <1>3
  <2>. QED BY <2>1
<1>. QED BY <1>4

(* --------------------------- a chain at once --------------------------- *)

(* A chain written at once is what its recursive definition says. *)
LEMMA ChainExists ==
    ASSUME NEW name, NEW bodies, NEW by, Listed(bodies)
    PROVE  Chain(name, bodies, by) =
             [v \in 1..Len(bodies) |->
                NewRow(name, bodies[v],
                       IF v = 1 THEN GENESIS ELSE Chain(name, bodies, by)[v - 1].hash, by[v], "none")]
<1>. DEFINE Row(f, v) == NewRow(name, bodies[v], IF v = 1 THEN GENESIS ELSE f[v - 1].hash, by[v], "none")
            n == Len(bodies)
            P(m) == \E f : f = [v \in 1..m |-> Row(f, v)]
            Bad == {m \in 0..n : ~P(m)}
<1>0. n \in Nat /\ DOMAIN bodies = 1..n
  BY ListDomain
<1>1. ASSUME NEW f, NEW g, NEW v \in Nat, v = 1 \/ f[v - 1] = g[v - 1]
      PROVE  Row(f, v) = Row(g, v)
  BY <1>1
<1>. HIDE DEF Row
<1>2. P(0)
  <2>. DEFINE f == [v \in 1..0 |-> 0]
  <2>1. f = [v \in 1..0 |-> Row(f, v)]
    OBVIOUS
  <2>. QED BY <2>1
<1>3. ASSUME NEW m \in 1..n, P(m - 1) PROVE P(m)
  <2>1. PICK f : f = [v \in 1..m - 1 |-> Row(f, v)]
    BY <1>3
  <2>. DEFINE g == [v \in 1..m |-> IF v < m THEN f[v] ELSE Row(f, m)]
  <2>2. ASSUME NEW v \in 1..m PROVE g[v] = Row(g, v)
    <3>1. g[v] = Row(f, v)
      <4>1. CASE v < m
        BY <2>1, <4>1, <1>0
      <4>2. CASE v = m
        BY <4>2, <1>0
      <4>. QED BY <4>1, <4>2, <1>0
    <3>2. v = 1 \/ f[v - 1] = g[v - 1]
      BY <1>0
    <3>3. Row(f, v) = Row(g, v)
      <4>. HIDE DEF g
      <4>. QED BY <1>1, <3>2
    <3>. QED BY <3>1, <3>3
  <2>3. g = [v \in 1..m |-> g[v]]
    OBVIOUS
  <2>. HIDE DEF g
  <2>4. g = [v \in 1..m |-> Row(g, v)]
    BY <2>2, <2>3
  <2>. QED BY <2>4
<1>4. P(n)
  <2>. HIDE DEF P
  <2>1. SUFFICES ASSUME Bad # {} PROVE FALSE
    BY <1>0
  <2>a. Bad \subseteq Nat
    BY <1>0
  <2>2. PICK m \in Bad : \A k \in Bad : m <= k
    <3>. HIDE DEF Bad
    <3>. QED BY <2>1, <2>a, LeastNatural
  <2>3. m # 0 /\ m \in 0..n /\ ~P(m)
    BY <2>2, <1>2
  <2>4. P(m - 1)
    <3>1. m - 1 \in 0..n /\ m - 1 \notin Bad
      BY <2>2, <2>3, <1>0
    <3>. QED BY <3>1
  <2>. QED BY <1>3, <2>3, <2>4, <1>0
<1>5. Chain(name, bodies, by) = CHOOSE f : f = [v \in 1..n |-> Row(f, v)]
  BY <1>0 DEF Chain, Row
<1>6. Chain(name, bodies, by) = [v \in 1..n |-> Row(Chain(name, bodies, by), v)]
  BY <1>4, <1>5
<1>. QED BY <1>6 DEF Row

\* A condition that holds, and one that does not, as arguments of an operator.
On(condition) == condition = TRUE
Off(condition) == condition = FALSE

(* ------------------------- what a template is ------------------------- *)

RowFields == {"body", "prev", "hash", "by", "bc"}
TemplateFields == {"name", "by", "status", "lineage", "revs"}
LineageFields == {"methodology", "role"}

\* The rows of a template are those of its revisions; a deleted one has none.
Shaped(t) ==
    /\ TemplateFields \subseteq DOMAIN t
    /\ LineageFields \subseteq DOMAIN t.lineage
    /\ Listed(t.revs)
    /\ t.status = "deleted" <=> Len(t.revs) = 0
    /\ \A v \in 1..Len(t.revs) : RowFields \subseteq DOMAIN t.revs[v]

HasNames(b) == \E e \in b.tool_allowlist : IsName(e)
HasPins(b) == \E e \in b.tool_allowlist : ~IsName(e)

\* An allowlist has names or pins, never both.
BundleShaped(b) ==
    /\ {"tool_allowlist", "min_score"} \subseteq DOMAIN b /\ b.min_score \in Nat
    /\ ~(HasNames(b) /\ HasPins(b))

OverridesShaped(o) ==
    /\ "min_score" \in DOMAIN o => o["min_score"].value \in Nat
    /\ "top_k" \notin DOMAIN o

RefsShaped(refs) ==
    /\ DOMAIN refs \subseteq Nat /\ 1 \in DOMAIN refs
    /\ \A i \in DOMAIN refs : OverridesShaped(refs[i].overrides)

Bundled(t) == \A v \in 1..Len(t.revs) : BundleShaped(t.revs[v].body)

\* A methodology has a bundle of its own before 0006, and role references after.
Referring(t, referring) ==
    IF referring THEN \A v \in 1..Len(t.revs) : RefsShaped(t.revs[v].body.role_refs)
    ELSE Len(t.revs) > 0 => BundleShaped(t.revs[1].body)

Verifies(t) ==
    \A v \in 1..Len(t.revs) :
        /\ t.revs[v].prev = IF v = 1 THEN GENESIS ELSE t.revs[v - 1].hash
        /\ t.revs[v].hash = Hash(t.revs[v].prev, t.name, t.revs[v].body)

\* Allowlists pin after 0010 and name before it, except in a chain that a call
\* extended across the migration and in the first row of an inserted clone.
OfItsEra(t, pinned, marked) ==
    IF pinned THEN \A v \in 1..Len(t.revs) : ~HasNames(t.revs[v].body)
    ELSE marked \/ Len(t.revs) <= 1 \/ \A v \in 1..Len(t.revs) : ~HasPins(t.revs[v].body)

Compared(t) ==
    \A v \in 1..Len(t.revs) :
        v > 1 => t.revs[v].bc = CheckRevisionCompatibility(t.revs[v - 1].body, t.revs[v].body)

BundleKinds == {"role", "agent"}

\* What holds of a template of kind k: whether the control plane is past 0006,
\* the kind past 0010, the chain disturbed, and extended across a migration.
Fits(k, t, referring, pinned, marked, straddled) ==
    /\ Shaped(t)
    /\ k \in BundleKinds => Bundled(t) /\ OfItsEra(t, pinned, marked)
    /\ k = "methodology" => Referring(t, referring)
    /\ marked \/ Verifies(t)
    /\ k = "tool" => straddled \/ Compared(t)

-----------------------------------------------------------------------------
(* A new row, a new template *)

(* The fields of a new row. *)
LEMMA NewRowFields ==
    ASSUME NEW name, NEW body, NEW prev, NEW by, NEW bc
    PROVE  /\ RowFields \subseteq DOMAIN NewRow(name, body, prev, by, bc)
           /\ NewRow(name, body, prev, by, bc).body = body
           /\ NewRow(name, body, prev, by, bc).prev = prev
           /\ NewRow(name, body, prev, by, bc).hash = Hash(prev, name, body)
           /\ NewRow(name, body, prev, by, bc).by = by
           /\ NewRow(name, body, prev, by, bc).bc = bc
BY DEF NewRow, RowFields

(* The fields of a new template. *)
LEMMA NewTemplateFields ==
    ASSUME NEW name, NEW by, NEW row, NEW lineage
    PROVE  LET t == NewTemplate(name, by, row, lineage)
           IN  /\ TemplateFields \subseteq DOMAIN t
               /\ t.name = name /\ t.by = by /\ t.status = "active" /\ t.lineage = lineage
               /\ Len(t.revs) = 1 /\ Listed(t.revs) /\ t.revs[1] = row
<1>. DEFINE t == NewTemplate(name, by, row, lineage)
<1>1. /\ TemplateFields \subseteq DOMAIN t
      /\ t.name = name /\ t.by = by /\ t.status = "active" /\ t.lineage = lineage
      /\ t.revs = <<row>>
  BY DEF NewTemplate, TemplateFields
<1>2. <<row>> \in Seq({row}) /\ Len(<<row>>) = 1 /\ <<row>>[1] = row
  OBVIOUS
<1>3. Listed(<<row>>)
  BY <1>2, SeqListed
<1>. HIDE DEF t
<1>. QED BY <1>1, <1>2, <1>3 DEF t

\* A template with one row that is its genesis.
LEMMA NewTemplateFits ==
    ASSUME NEW k, NEW name, NEW by, NEW lineage, LineageFields \subseteq DOMAIN lineage,
           NEW row, RowFields \subseteq DOMAIN row,
           row.prev = GENESIS, row.hash = Hash(GENESIS, name, row.body),
           NEW referring, NEW pinned, NEW marked,
           NEW straddled,
           k \in BundleKinds => BundleShaped(row.body) /\ (pinned => ~HasNames(row.body)),
           k = "methodology" => referring /\ RefsShaped(row.body.role_refs)
    PROVE  Fits(k, NewTemplate(name, by, row, lineage), referring, pinned, marked, straddled)
<1>. DEFINE t == NewTemplate(name, by, row, lineage)
<1>1. /\ TemplateFields \subseteq DOMAIN t
      /\ t.name = name /\ t.status = "active" /\ t.lineage = lineage
      /\ Len(t.revs) = 1 /\ Listed(t.revs) /\ t.revs[1] = row
  BY NewTemplateFields
<1>. HIDE DEF t
<1>2. Shaped(t)
  BY <1>1 DEF Shaped
<1>3. k \in BundleKinds => Bundled(t)
  BY <1>1 DEF Bundled
<1>4. k \in BundleKinds => OfItsEra(t, pinned, marked)
  BY <1>1 DEF OfItsEra
<1>5. k = "methodology" => Referring(t, referring)
  BY <1>1 DEF Referring
<1>6. Verifies(t)
  BY <1>1 DEF Verifies
<1>7. Compared(t)
  BY <1>1 DEF Compared
<1>8. Fits(k, t, referring, pinned, marked, straddled)
  BY <1>2, <1>3, <1>4, <1>5, <1>6, <1>7 DEF Fits
<1>. QED BY <1>8 DEF t

-----------------------------------------------------------------------------
(* One template changed *)

\* t with other revisions, or another status.
LEMMA RevsReplaced ==
    ASSUME NEW t, TemplateFields \subseteq DOMAIN t, NEW revs
    PROVE  LET u == [t EXCEPT !.revs = revs]
           IN  /\ TemplateFields \subseteq DOMAIN u
               /\ u.name = t.name /\ u.by = t.by /\ u.status = t.status /\ u.lineage = t.lineage
               /\ u.revs = revs
BY DEF TemplateFields

(* t with another status. *)
LEMMA StatusReplaced ==
    ASSUME NEW t, TemplateFields \subseteq DOMAIN t, NEW status
    PROVE  LET u == [t EXCEPT !.status = status]
           IN  /\ TemplateFields \subseteq DOMAIN u
               /\ u.name = t.name /\ u.by = t.by /\ u.status = status /\ u.lineage = t.lineage
               /\ u.revs = t.revs
BY DEF TemplateFields

\* What fits depends on the name, the lineage, whether it is deleted, and rows.
LEMMA SameRowsFit ==
    ASSUME NEW k, NEW t, NEW u, NEW referring, NEW pinned, NEW marked, NEW straddled,
           Fits(k, t, referring, pinned, marked, straddled),
           TemplateFields \subseteq DOMAIN u, LineageFields \subseteq DOMAIN u.lineage,
           u.name = t.name, u.revs = t.revs,
           u.status = "deleted" <=> t.status = "deleted"
    PROVE  Fits(k, u, referring, pinned, marked, straddled)
<1>1. Shaped(u)
  BY DEF Fits, Shaped
<1>2. k \in BundleKinds => Bundled(u) /\ OfItsEra(u, pinned, marked)
  BY DEF Fits, Bundled, OfItsEra
<1>3. k = "methodology" => Referring(u, referring)
  BY DEF Fits, Referring
<1>4. marked \/ Verifies(u)
  BY DEF Fits, Verifies
<1>5. k = "tool" => straddled \/ Compared(u)
  BY DEF Fits, Compared
<1>. QED BY <1>1, <1>2, <1>3, <1>4, <1>5 DEF Fits

\* More marks excuse more, and an era matters to its kind only.
LEMMA FitsOn ==
    ASSUME NEW k, NEW t, NEW r1, NEW p1, NEW m1, NEW s1,
           NEW r2, NEW p2, NEW m2, NEW s2,
           Fits(k, t, r1, p1, m1, s1), m1 => m2, s1 => s2,
           k = "methodology" => r1 = r2, k \in BundleKinds => p1 = p2
    PROVE  Fits(k, t, r2, p2, m2, s2)
<1>1. k \in BundleKinds => Bundled(t) /\ OfItsEra(t, p2, m2)
  BY DEF Fits, OfItsEra
<1>2. k = "methodology" => Referring(t, r2)
  BY DEF Fits
<1>. QED BY <1>1, <1>2 DEF Fits

\* Deleting a template leaves none of its rows.
LEMMA DeletedFits ==
    ASSUME NEW k, NEW t, Shaped(t), NEW referring, NEW pinned,
           NEW marked, NEW straddled
    PROVE  Fits(k, Deleted(t), referring, pinned, marked, straddled)
           /\ Deleted(t).status = "deleted" /\ Deleted(t).lineage = t.lineage
<1>. DEFINE u == Deleted(t)
<1>1. /\ TemplateFields \subseteq DOMAIN u /\ u.status = "deleted" /\ u.revs = <<>>
      /\ u.lineage = t.lineage
  BY DEF Deleted, TemplateFields, Shaped
<1>2. Len(<<>>) = 0 /\ <<>> = [i \in 1..0 |-> <<>>[i]]
  OBVIOUS
<1>3. Listed(u.revs) /\ Len(u.revs) = 0
  BY <1>1, <1>2 DEF Listed
<1>. HIDE DEF u
<1>4. Shaped(u)
  BY <1>1, <1>3 DEF Shaped
<1>5. Bundled(u) /\ OfItsEra(u, pinned, marked) /\ Referring(u, referring) /\ Verifies(u) /\ Compared(u)
  BY <1>3 DEF Bundled, OfItsEra, Referring, Verifies, Compared
<1>6. Fits(k, u, referring, pinned, marked, straddled)
  BY <1>4, <1>5 DEF Fits
<1>. QED BY <1>1, <1>6 DEF u

\* What a row needs to come after the last one of t.
Appendable(k, t, row, pinned, marked, straddled) ==
    /\ RowFields \subseteq DOMAIN row
    /\ k \in BundleKinds => /\ BundleShaped(row.body)
                            /\ pinned => ~HasNames(row.body)
                            /\ ~pinned => marked
    /\ k = "methodology" => RefsShaped(row.body.role_refs)
    /\ \/ marked
       \/ /\ row.prev = t.revs[Len(t.revs)].hash
          /\ row.hash = Hash(row.prev, t.name, row.body)
    /\ k = "tool" => \/ straddled
                     \/ row.bc = CheckRevisionCompatibility(t.revs[Len(t.revs)].body, row.body)

\* A row after the last: linked to it, unless the chain is marked.
LEMMA AppendedFits ==
    ASSUME NEW k, NEW t, NEW row, NEW r, NEW p, NEW m,
           NEW s, NEW m2, NEW s2,
           Fits(k, t, r, p, m, s), m => m2, s => s2, t.status # "deleted",
           Appendable(k, t, row, p, m2, s2)
    PROVE  Fits(k, [t EXCEPT !.revs = Append(t.revs, row)], r, p, m2, s2)
<1>. DEFINE u == [t EXCEPT !.revs = Append(t.revs, row)]
            n == Len(t.revs)
<1>1. TemplateFields \subseteq DOMAIN t /\ LineageFields \subseteq DOMAIN t.lineage /\ Listed(t.revs)
      /\ n \in Nat /\ n > 0
  BY ListDomain DEF Fits, Shaped
<1>2. /\ TemplateFields \subseteq DOMAIN u
      /\ u.name = t.name /\ u.status = t.status /\ u.lineage = t.lineage
      /\ u.revs = Append(t.revs, row)
  BY <1>1, RevsReplaced
<1>3. /\ Listed(u.revs) /\ Len(u.revs) = n + 1
      /\ \A v \in 1..n : u.revs[v] = t.revs[v]
      /\ u.revs[n + 1] = row
  BY <1>1, <1>2, ListAppend
<1>. HIDE DEF u
<1>4. \A v \in 1..Len(u.revs) : v \in 1..n \/ v = n + 1
  BY <1>1, <1>3
<1>. HIDE DEF n
<1>0. /\ RowFields \subseteq DOMAIN row
      /\ k \in BundleKinds => /\ BundleShaped(row.body)
                              /\ p => ~HasNames(row.body)
                              /\ ~p => m2
      /\ k = "methodology" => RefsShaped(row.body.role_refs)
  BY DEF Appendable
<1>5. Shaped(u)
  BY <1>0, <1>1, <1>2, <1>3, <1>4 DEF Shaped, Fits, n
<1>6. ASSUME k \in BundleKinds PROVE Bundled(u) /\ OfItsEra(u, p, m2)
  <2>1. Bundled(u)
    BY <1>0, <1>3, <1>4, <1>6 DEF Fits, Bundled, n
  <2>2. OfItsEra(u, p, m2)
    BY <1>0, <1>3, <1>4, <1>6 DEF Fits, OfItsEra, n
  <2>. QED BY <2>1, <2>2
<1>7. ASSUME k = "methodology" PROVE Referring(u, r)
  <2>1. CASE r
    BY <1>0, <1>3, <1>4, <1>7, <2>1 DEF Fits, Referring, n
  <2>2. CASE ~r
    <3>1. BundleShaped(t.revs[1].body)
      BY <1>1, <1>7, <2>2 DEF Fits, Referring, n
    <3>2. u.revs[1] = t.revs[1]
      BY <1>1, <1>3
    <3>. QED BY <2>2, <3>1, <3>2 DEF Referring
  <2>. QED BY <2>1, <2>2
<1>8. ASSUME ~m2 PROVE Verifies(u)
  <2>1. Verifies(t)
    BY <1>8 DEF Fits
  <2>2. ASSUME NEW v \in 1..n
        PROVE  /\ u.revs[v].prev = IF v = 1 THEN GENESIS ELSE u.revs[v - 1].hash
               /\ u.revs[v].hash = Hash(u.revs[v].prev, u.name, u.revs[v].body)
    <3>1. v = 1 \/ v - 1 \in 1..n
      BY <1>1
    <3>2. v = 1 \/ u.revs[v - 1] = t.revs[v - 1]
      BY <1>3, <3>1
    <3>3. u.revs[v] = t.revs[v]
      BY <1>3
    <3>. QED BY <1>2, <2>1, <3>2, <3>3 DEF Verifies, n
  <2>3. /\ u.revs[n + 1].prev = u.revs[n].hash
        /\ u.revs[n + 1].hash = Hash(u.revs[n + 1].prev, u.name, u.revs[n + 1].body)
    <3>1. u.revs[n] = t.revs[n]
      BY <1>1, <1>3
    <3>. QED BY <1>2, <1>3, <1>8, <3>1 DEF n, Appendable
  <2>4. n + 1 # 1 /\ (n + 1) - 1 = n
    BY <1>1
  <2>. QED BY <1>4, <2>2, <2>3, <2>4 DEF Verifies
<1>9. ASSUME k = "tool", ~s2 PROVE Compared(u)
  <2>1. Compared(t)
    BY <1>9 DEF Fits
  <2>2. ASSUME NEW v \in 1..n, v > 1
        PROVE  u.revs[v].bc = CheckRevisionCompatibility(u.revs[v - 1].body, u.revs[v].body)
    <3>1. v - 1 \in 1..n
      BY <1>1, <2>2
    <3>2. u.revs[v - 1] = t.revs[v - 1] /\ u.revs[v] = t.revs[v]
      BY <1>3, <3>1
    <3>. QED BY <2>1, <2>2, <3>2 DEF Compared, n
  <2>3. u.revs[n + 1].bc = CheckRevisionCompatibility(u.revs[n].body, u.revs[n + 1].body)
    <3>1. u.revs[n] = t.revs[n]
      BY <1>1, <1>3
    <3>. QED BY <1>3, <1>9, <3>1 DEF n, Appendable
  <2>4. (n + 1) - 1 = n
    BY <1>1
  <2>. QED BY <1>4, <2>2, <2>3, <2>4 DEF Compared
<1>10. Fits(k, u, r, p, m2, s2)
  BY <1>5, <1>6, <1>7, <1>8, <1>9 DEF Fits
<1>. QED BY <1>10 DEF u

\* archive_template: a live template keeps everything but its status.
LEMMA ArchivedFits ==
    ASSUME NEW k, NEW t, NEW r, NEW p, NEW m, NEW s,
           Fits(k, t, r, p, m, s), t.status # "deleted"
    PROVE  Fits(k, [t EXCEPT !.status = "archived"], r, p, m, s)
<1>. DEFINE u == [t EXCEPT !.status = "archived"]
<1>1. TemplateFields \subseteq DOMAIN t /\ LineageFields \subseteq DOMAIN t.lineage
  BY DEF Fits, Shaped
<1>2. /\ TemplateFields \subseteq DOMAIN u /\ u.name = t.name /\ u.status = "archived"
      /\ u.lineage = t.lineage /\ u.revs = t.revs
  BY <1>1, StatusReplaced
<1>. HIDE DEF u
<1>3. u.status = "deleted" <=> t.status = "deleted"
  BY <1>2
<1>4. Fits(k, u, r, p, m, s)
  BY <1>1, <1>2, <1>3, SameRowsFit
<1>. QED BY <1>4 DEF u

\* Another role in the lineage of an agent: its rows stay.
LEMMA WithRoleFits ==
    ASSUME NEW k, NEW t, NEW pin, NEW r, NEW p, NEW m, NEW s, Fits(k, t, r, p, m, s)
    PROVE  /\ Fits(k, WithRole(t, pin), r, p, m, s)
           /\ WithRole(t, pin).lineage.role = pin
           /\ WithRole(t, pin).lineage.methodology = t.lineage.methodology
           /\ WithRole(t, pin).status = t.status
<1>. DEFINE u == WithRole(t, pin)
<1>1. TemplateFields \subseteq DOMAIN t /\ LineageFields \subseteq DOMAIN t.lineage
  BY DEF Fits, Shaped
<1>2. /\ TemplateFields \subseteq DOMAIN u /\ u.name = t.name /\ u.status = t.status
      /\ u.revs = t.revs /\ LineageFields \subseteq DOMAIN u.lineage
      /\ u.lineage.role = pin /\ u.lineage.methodology = t.lineage.methodology
  BY <1>1 DEF WithRole, TemplateFields, LineageFields
<1>. HIDE DEF u
<1>3. Fits(k, u, r, p, m, s)
  BY <1>1, <1>2, SameRowsFit
<1>. QED BY <1>2, <1>3 DEF u

(* 0006: a chain of references, the role made of a bundle, and back *)

(* 0006: a methodology whose chain is anchored again. *)
LEMMA WithRoleRefFits ==
    ASSUME NEW t, Shaped(t), NEW role, NEW r, On(r), NEW p, NEW m, NEW s
    PROVE  LET u == WithRoleRef(t, role)
           IN  /\ Fits("methodology", u, r, p, m, s)
               /\ u.status = t.status /\ u.lineage = t.lineage /\ Len(u.revs) = Len(t.revs)
               /\ \A v \in 1..Len(u.revs) : u.revs[v].body.role_refs[1] = RoleRef(role, 1, <<>>)
<1>. DEFINE n == Len(t.revs)
            bodies == [v \in DOMAIN t.revs |-> RoleRefs(<<RoleRef(role, 1, <<>>)>>)]
            by == [v \in DOMAIN t.revs |-> t.revs[v].by]
            rows == Chain(t.name, bodies, by)
            u == WithRoleRef(t, role)
<1>1. TemplateFields \subseteq DOMAIN t /\ LineageFields \subseteq DOMAIN t.lineage
      /\ n \in Nat /\ DOMAIN t.revs = 1..n
  BY ListDomain DEF Shaped
<1>2. Listed(bodies) /\ Len(bodies) = n
  <2>1. bodies = [v \in 1..n |-> bodies[v]]
    BY <1>1
  <2>. HIDE DEF bodies
  <2>. QED BY <1>1, <2>1, ListMade
<1>3. \A v \in 1..n : bodies[v] = RoleRefs(<<RoleRef(role, 1, <<>>)>>)
  BY <1>1
<1>4. u = [t EXCEPT !.revs = rows]
  BY DEF WithRoleRef
<1>. HIDE DEF bodies, by, u
<1>5. rows = [v \in 1..n |->
                NewRow(t.name, bodies[v], IF v = 1 THEN GENESIS ELSE rows[v - 1].hash, by[v], "none")]
  BY <1>2, ChainExists
<1>6. /\ TemplateFields \subseteq DOMAIN u
      /\ u.name = t.name /\ u.status = t.status /\ u.lineage = t.lineage /\ u.revs = rows
  BY <1>1, <1>4, RevsReplaced
<1>. HIDE DEF rows
<1>7. Listed(rows) /\ Len(rows) = n
  <2>1. rows = [v \in 1..n |-> rows[v]]
    BY <1>5
  <2>. QED BY <1>1, <2>1, ListMade
<1>8. ASSUME NEW v \in 1..n
      PROVE  /\ RowFields \subseteq DOMAIN rows[v]
             /\ rows[v].body = RoleRefs(<<RoleRef(role, 1, <<>>)>>)
             /\ rows[v].prev = IF v = 1 THEN GENESIS ELSE rows[v - 1].hash
             /\ rows[v].hash = Hash(rows[v].prev, t.name, rows[v].body)
  <2>1. rows[v] = NewRow(t.name, bodies[v], IF v = 1 THEN GENESIS ELSE rows[v - 1].hash, by[v], "none")
    BY <1>5
  <2>. QED BY <1>3, <2>1, NewRowFields
<1>9. RefsShaped(<<RoleRef(role, 1, <<>>)>>)
  <2>1. DOMAIN <<>> = {}
    OBVIOUS
  <2>2. RoleRef(role, 1, <<>>).overrides = <<>>
    BY DEF RoleRef
  <2>3. OverridesShaped(<<>>)
    BY <2>1 DEF OverridesShaped
  <2>. QED BY <2>2, <2>3 DEF RefsShaped
<1>10. /\ RoleRefs(<<RoleRef(role, 1, <<>>)>>).role_refs = <<RoleRef(role, 1, <<>>)>>
       /\ <<RoleRef(role, 1, <<>>)>>[1] = RoleRef(role, 1, <<>>)
  BY DEF RoleRefs
<1>11. Shaped(u)
  BY <1>1, <1>6, <1>7, <1>8 DEF Shaped
<1>12. Verifies(u)
  BY <1>6, <1>7, <1>8 DEF Verifies
<1>13. Referring(u, r)
  <2>1. \A v \in 1..Len(u.revs) : RefsShaped(u.revs[v].body.role_refs)
    <3>. DEFINE refs == <<RoleRef(role, 1, <<>>)>>
    <3>1. RefsShaped(refs) /\ RoleRefs(refs).role_refs = refs
      BY <1>9, <1>10
    <3>2. \A v \in 1..n : rows[v].body = RoleRefs(refs)
      BY <1>8
    <3>3. Len(u.revs) = n /\ u.revs = rows
      BY <1>6, <1>7
    <3>. HIDE DEF refs
    <3>. QED BY <3>1, <3>2, <3>3
  <2>. QED BY <2>1 DEF Referring, On
<1>14. Fits("methodology", u, r, p, m, s)
  BY <1>11, <1>12, <1>13 DEF Fits, BundleKinds
<1>15. \A v \in 1..Len(u.revs) : u.revs[v].body.role_refs[1] = RoleRef(role, 1, <<>>)
  BY <1>6, <1>7, <1>8, <1>10
<1>. QED BY <1>6, <1>7, <1>14, <1>15 DEF u

(* The lineage of a template that is no clone. *)
LEMMA NoLineageFields ==
    /\ LineageFields \subseteq DOMAIN NoLineage /\ NoLineage.role = NoPin /\ NoLineage.methodology = NoPin
BY DEF NoLineage, LineageFields

(* 0006: the role made of a methodology. *)
LEMMA AutoRoleFits ==
    ASSUME NEW t, BundleShaped(t.revs[1].body), NEW r, NEW p, Off(p), NEW m, NEW s
    PROVE  Fits("role", AutoRole(t), r, p, m, s)
<1>. DEFINE row == NewRow(RoleNameOf[t.name], t.revs[1].body, GENESIS, By0006, "none")
<1>1. /\ RowFields \subseteq DOMAIN row /\ row.body = t.revs[1].body
      /\ row.prev = GENESIS /\ row.hash = Hash(GENESIS, RoleNameOf[t.name], row.body)
  BY NewRowFields
<1>2. AutoRole(t) = NewTemplate(RoleNameOf[t.name], By0006, row, NoLineage)
  BY DEF AutoRole
<1>. HIDE DEF row
<1>3. ~p
  BY DEF Off
<1>4. Fits("role", NewTemplate(RoleNameOf[t.name], By0006, row, NoLineage), r, p, m, s)
  BY <1>1, <1>3, NewTemplateFits, NoLineageFields
<1>. QED BY <1>2, <1>4

(* 0006, downgraded: a methodology with its bundle again. *)
LEMMA WithBundleFits ==
    ASSUME NEW d, NEW t, Shaped(t), NEW r, Off(r), NEW p, NEW m, NEW s,
           Len(t.revs) > 0 => m /\ BundleShaped(RestoredBody(d, t.revs[1].body))
    PROVE  LET u == WithBundle(d, t)
           IN  /\ Fits("methodology", u, r, p, m, s)
               /\ u.status = t.status /\ u.lineage = t.lineage /\ Len(u.revs) = Len(t.revs)
<1>. DEFINE n == Len(t.revs)
            u == WithBundle(d, t)
            rows == [v \in DOMAIN t.revs |-> [t.revs[v] EXCEPT !.body = RestoredBody(d, t.revs[v].body)]]
<1>1. TemplateFields \subseteq DOMAIN t /\ LineageFields \subseteq DOMAIN t.lineage
      /\ n \in Nat /\ DOMAIN t.revs = 1..n
  BY ListDomain DEF Shaped
<1>2. u = [t EXCEPT !.revs = rows]
  BY DEF WithBundle
<1>3. rows = [v \in 1..n |-> rows[v]]
  BY <1>1
<1>4. ASSUME NEW v \in 1..n
      PROVE  RowFields \subseteq DOMAIN rows[v] /\ rows[v].body = RestoredBody(d, t.revs[v].body)
  <2>1. rows[v] = [t.revs[v] EXCEPT !.body = RestoredBody(d, t.revs[v].body)]
    BY <1>1
  <2>2. RowFields \subseteq DOMAIN t.revs[v]
    BY DEF Shaped
  <2>. HIDE DEF rows
  <2>. QED BY <2>1, <2>2 DEF RowFields
<1>. HIDE DEF rows, u
<1>5. /\ TemplateFields \subseteq DOMAIN u
      /\ u.name = t.name /\ u.status = t.status /\ u.lineage = t.lineage /\ u.revs = rows
  BY <1>1, <1>2, RevsReplaced
<1>6. Listed(rows) /\ Len(rows) = n
  BY <1>1, <1>3, ListMade
<1>7. Shaped(u)
  BY <1>1, <1>4, <1>5, <1>6 DEF Shaped
<1>8. m \/ Verifies(u)
  BY <1>5, <1>6, <1>1 DEF Verifies
<1>9. Referring(u, r)
  BY <1>1, <1>4, <1>5, <1>6 DEF Referring, Off
<1>10. Fits("methodology", u, r, p, m, s)
  BY <1>7, <1>8, <1>9 DEF Fits, BundleKinds
<1>. QED BY <1>5, <1>6, <1>10 DEF u

(* 0007: another name, and the hash of version 1 *)

(* 0007: a renamed role; more than one revision and its chain is disturbed. *)
LEMMA RenamedFits ==
    ASSUME NEW t, NEW new, NEW r, NEW p, NEW m, NEW s,
           NEW m2, Fits("role", t, r, p, m, s), t.status # "deleted",
           m => m2, Len(t.revs) > 1 => m2
    PROVE  LET u == Renamed(t, new)
           IN  /\ Fits("role", u, r, p, m2, s)
               /\ u.status = t.status /\ u.lineage = t.lineage /\ Len(u.revs) = Len(t.revs)
<1>. DEFINE n == Len(t.revs)
            hash == Hash(t.revs[1].prev, new, t.revs[1].body)
            rows == [t.revs EXCEPT ![1] = [@ EXCEPT !.hash = hash]]
            u == Renamed(t, new)
<1>1. /\ TemplateFields \subseteq DOMAIN t /\ LineageFields \subseteq DOMAIN t.lineage
      /\ n \in Nat /\ n > 0 /\ DOMAIN t.revs = 1..n /\ Listed(t.revs)
      /\ \A v \in 1..n : RowFields \subseteq DOMAIN t.revs[v]
  BY ListDomain DEF Fits, Shaped
<1>2. /\ TemplateFields \subseteq DOMAIN u
      /\ u.name = new /\ u.status = t.status /\ u.lineage = t.lineage /\ u.revs = rows
  BY <1>1 DEF Renamed, TemplateFields
<1>3. rows = [v \in 1..n |-> rows[v]]
  BY <1>1
<1>4. /\ rows[1] = [t.revs[1] EXCEPT !.hash = hash]
      /\ \A v \in 1..n : v # 1 => rows[v] = t.revs[v]
  BY <1>1
<1>. HIDE DEF rows, u
<1>5. RowFields \subseteq DOMAIN t.revs[1]
  BY <1>1
<1>6. /\ RowFields \subseteq DOMAIN rows[1] /\ rows[1].body = t.revs[1].body
      /\ rows[1].prev = t.revs[1].prev /\ rows[1].hash = hash
  BY <1>4, <1>5 DEF RowFields
<1>7. Listed(rows) /\ Len(rows) = n
  BY <1>1, <1>3, ListMade
<1>8. \A v \in 1..n : RowFields \subseteq DOMAIN rows[v] /\ rows[v].body = t.revs[v].body
  BY <1>1, <1>4, <1>6
<1>9. Shaped(u)
  BY <1>1, <1>2, <1>7, <1>8 DEF Fits, Shaped
<1>10. Bundled(u) /\ OfItsEra(u, p, m2)
  <2>1. Bundled(t) /\ OfItsEra(t, p, m)
    BY DEF Fits, BundleKinds
  <2>2. Bundled(u)
    BY <1>2, <1>7, <1>8, <2>1 DEF Bundled
  <2>. QED BY <1>2, <1>7, <1>8, <2>1, <2>2 DEF OfItsEra
<1>11. ASSUME ~m2 PROVE Verifies(u)
  <2>a. ~(n > 1)
    BY <1>11, Zenon
  <2>b. n \in Nat /\ n > 0
    BY <1>1
  <2>1. n = 1
    <3>. HIDE DEF n
    <3>. QED BY <2>a, <2>b
  <2>2. t.revs[1].prev = GENESIS
    BY <1>1, <1>11 DEF Fits, Verifies
  <2>3. rows[1].prev = GENESIS /\ rows[1].hash = Hash(rows[1].prev, new, rows[1].body)
    BY <1>6, <2>2
  <2>. HIDE DEF hash
  <2>. QED BY <1>2, <1>7, <2>1, <2>3 DEF Verifies
<1>12. Fits("role", u, r, p, m2, s)
  BY <1>9, <1>10, <1>11 DEF Fits
<1>. QED BY <1>2, <1>7, <1>12 DEF u

(* A chain walked forward *)

Rewritten(t, allowlists, v) == [t.revs[v].body EXCEPT !.tool_allowlist = allowlists[v]]

\* The hash a rewritten row links to.
LinkedHash(t, rows, skipped, remembers, v) ==
    LET before == {u \in 1..v - 1 : remembers \/ u \notin skipped}
    IN IF before = {} THEN t.revs[v].prev
       ELSE rows[CHOOSE u \in before : \A w \in before : w <= u].hash

WalkedRow(t, rows, skipped, allowlists, remembers, v) ==
    LET previous == LinkedHash(t, rows, skipped, remembers, v)
    IN IF v \in skipped THEN t.revs[v]
       ELSE [t.revs[v] EXCEPT !.body = Rewritten(t, allowlists, v), !.prev = previous,
                              !.hash = Hash(previous, t.name, Rewritten(t, allowlists, v))]

\* The row linked to is an earlier one.
LEMMA LinkedBefore ==
    ASSUME NEW t, NEW f, NEW g, NEW skipped, NEW remembers, NEW v \in Nat,
           \A u \in 1..v - 1 : f[u] = g[u]
    PROVE  LinkedHash(t, f, skipped, remembers, v) = LinkedHash(t, g, skipped, remembers, v)
<1>. DEFINE before == {u \in 1..v - 1 : remembers \/ u \notin skipped}
            last == CHOOSE u \in before : \A w \in before : w <= u
<1>1. before # {} => last \in 1..v - 1
  <2>1. ASSUME before # {} PROVE last \in before
    <3>1. before \in SUBSET (1..v - 1) /\ (v = 0 \/ v - 1 \in Nat)
      OBVIOUS
    <3>2. v # 0
      BY <2>1
    <3>. HIDE DEF before
    <3>3. \E u \in before : \A w \in before : w <= u
      BY <2>1, <3>1, <3>2, GreatestBelow
    <3>. QED BY <3>3
  <2>. QED BY <2>1
<1>2. LinkedHash(t, f, skipped, remembers, v) = IF before = {} THEN t.revs[v].prev ELSE f[last].hash
  BY Zenon DEF LinkedHash
<1>3. LinkedHash(t, g, skipped, remembers, v) = IF before = {} THEN t.revs[v].prev ELSE g[last].hash
  BY Zenon DEF LinkedHash
<1>. HIDE DEF before, last
<1>. QED BY <1>1, <1>2, <1>3

(* The rows a walk leaves, as equations on their own earlier rows. *)
LEMMA WalkExists ==
    ASSUME NEW t, Listed(t.revs), NEW skipped, NEW allowlists, NEW remembers
    PROVE  \E rows :
             /\ rows = [v \in 1..Len(t.revs) |-> WalkedRow(t, rows, skipped, allowlists, remembers, v)]
             /\ Rewalk(t, skipped, allowlists, remembers) = [t EXCEPT !.revs = rows]
<1>. DEFINE Row(f, v) == WalkedRow(t, f, skipped, allowlists, remembers, v)
            n == Len(t.revs)
            P(m) == \E f : f = [v \in 1..m |-> Row(f, v)]
            Bad == {m \in 0..n : ~P(m)}
            rows == CHOOSE f : f = [v \in 1..n |-> Row(f, v)]
<1>0. n \in Nat /\ DOMAIN t.revs = 1..n
  BY ListDomain
<1>1. ASSUME NEW f, NEW g, NEW v \in Nat, \A u \in 1..v - 1 : f[u] = g[u]
      PROVE  Row(f, v) = Row(g, v)
  <2>1. LinkedHash(t, f, skipped, remembers, v) = LinkedHash(t, g, skipped, remembers, v)
    BY <1>1, LinkedBefore
  <2>. QED BY <2>1, Zenon DEF WalkedRow
<1>a. Rewalk(t, skipped, allowlists, remembers) = [t EXCEPT !.revs = CHOOSE f : f = [v \in DOMAIN t.revs |-> Row(f, v)]]
  BY Zenon DEF Rewalk, WalkedRow, LinkedHash, Rewritten
<1>b. Rewalk(t, skipped, allowlists, remembers) = [t EXCEPT !.revs = rows]
  BY <1>0, <1>a
<1>. HIDE DEF Row
<1>2. P(0)
  <2>. DEFINE f == [v \in 1..0 |-> 0]
  <2>1. f = [v \in 1..0 |-> Row(f, v)]
    OBVIOUS
  <2>. QED BY <2>1
<1>3. ASSUME NEW m \in 1..n, P(m - 1) PROVE P(m)
  <2>1. PICK f : f = [v \in 1..m - 1 |-> Row(f, v)]
    BY <1>3
  <2>. DEFINE g == [v \in 1..m |-> IF v < m THEN f[v] ELSE Row(f, m)]
  <2>2. ASSUME NEW v \in 1..m PROVE g[v] = Row(g, v)
    <3>1. g[v] = Row(f, v)
      <4>1. CASE v < m
        BY <2>1, <4>1, <1>0
      <4>2. CASE v = m
        BY <4>2, <1>0
      <4>. QED BY <4>1, <4>2, <1>0
    <3>2. \A u \in 1..v - 1 : f[u] = g[u]
      BY <1>0
    <3>3. Row(f, v) = Row(g, v)
      <4>. HIDE DEF g
      <4>. QED BY <1>1, <3>2
    <3>. QED BY <3>1, <3>3
  <2>3. g = [v \in 1..m |-> g[v]]
    OBVIOUS
  <2>. HIDE DEF g
  <2>4. g = [v \in 1..m |-> Row(g, v)]
    BY <2>2, <2>3
  <2>. QED BY <2>4
<1>4. P(n)
  <2>. HIDE DEF P
  <2>1. SUFFICES ASSUME Bad # {} PROVE FALSE
    BY <1>0
  <2>a. Bad \subseteq Nat
    BY <1>0
  <2>2. PICK m \in Bad : \A k \in Bad : m <= k
    <3>. HIDE DEF Bad
    <3>. QED BY <2>1, <2>a, LeastNatural
  <2>3. m # 0 /\ m \in 0..n /\ ~P(m)
    BY <2>2, <1>2
  <2>4. P(m - 1)
    <3>1. m - 1 \in 0..n /\ m - 1 \notin Bad
      BY <2>2, <2>3, <1>0
    <3>. QED BY <3>1
  <2>. QED BY <1>3, <2>3, <2>4, <1>0
<1>5. rows = [v \in 1..n |-> Row(rows, v)]
  BY <1>4
<1>. HIDE DEF rows
<1>. QED BY <1>b, <1>5 DEF Row

\* No row is skipped, or every one, or the rows skipped come first.
OrderlyWalk(n, skipped, remembers) ==
    \/ \A v \in 1..n : v \notin skipped
    \/ \A v \in 1..n : v \in skipped
    \/ remembers /\ \A u, v \in 1..n : u \notin skipped /\ v \in skipped => v < u

(* An orderly walk links a row it rewrites to the row before it. *)
LEMMA LinkedToLast ==
    ASSUME NEW t, NEW rows, NEW skipped, NEW remembers, NEW n \in Nat, NEW v \in 1..n,
           v \notin skipped, OrderlyWalk(n, skipped, remembers), v # 1
    PROVE  LinkedHash(t, rows, skipped, remembers, v) = rows[v - 1].hash
<1>. DEFINE before == {u \in 1..v - 1 : remembers \/ u \notin skipped}
            last == CHOOSE u \in before : \A w \in before : w <= u
<1>1. v - 1 \in 1..v - 1 /\ v - 1 \in 1..n
  OBVIOUS
<1>2. v - 1 \in before
  BY <1>1 DEF OrderlyWalk
<1>3. \A w \in before : w <= v - 1
  OBVIOUS
<1>4. \A u \in before : u \in Nat
  OBVIOUS
<1>5. LinkedHash(t, rows, skipped, remembers, v) = IF before = {} THEN t.revs[v].prev ELSE rows[last].hash
  BY Zenon DEF LinkedHash
<1>6. last = v - 1
  <2>. HIDE DEF before
  <2>1. last \in before /\ \A w \in before : w <= last
    BY <1>2, <1>3
  <2>. HIDE DEF last
  <2>2. last <= v - 1 /\ v - 1 <= last /\ last \in Nat
    BY <1>2, <1>3, <1>4, <2>1
  <2>. QED BY <2>2
<1>. HIDE DEF before, last
<1>. QED BY <1>2, <1>5, <1>6

(* The first row of a walk keeps what it is linked to. *)
LEMMA LinkedFirst ==
    ASSUME NEW t, NEW rows, NEW skipped, NEW remembers
    PROVE  LinkedHash(t, rows, skipped, remembers, 1) = t.revs[1].prev
<1>1. {u \in 1..1 - 1 : remembers \/ u \notin skipped} = {}
  OBVIOUS
<1>. QED BY <1>1, Zenon DEF LinkedHash

(* What a walk keeps and what it changes; an orderly one keeps a chain intact. *)
LEMMA RewalkFits ==
    ASSUME NEW t, Shaped(t), NEW skipped, NEW allowlists, NEW remembers
    PROVE  LET u == Rewalk(t, skipped, allowlists, remembers)
           IN  /\ Shaped(u)
               /\ u.status = t.status /\ u.lineage = t.lineage /\ Len(u.revs) = Len(t.revs)
               /\ \A v \in 1..Len(t.revs) : v \in skipped => u.revs[v] = t.revs[v]
               /\ \A v \in 1..Len(t.revs) : v \notin skipped => u.revs[v].body = Rewritten(t, allowlists, v)
               /\ Verifies(t) /\ OrderlyWalk(Len(t.revs), skipped, remembers) => Verifies(u)
<1>. DEFINE n == Len(t.revs)
            u == Rewalk(t, skipped, allowlists, remembers)
            Link(f, v) == LinkedHash(t, f, skipped, remembers, v)
            Body(v) == Rewritten(t, allowlists, v)
<1>1. /\ TemplateFields \subseteq DOMAIN t /\ LineageFields \subseteq DOMAIN t.lineage
      /\ n \in Nat /\ DOMAIN t.revs = 1..n /\ Listed(t.revs)
      /\ \A v \in 1..n : RowFields \subseteq DOMAIN t.revs[v]
  BY ListDomain DEF Shaped
<1>2. PICK rows :
        /\ rows = [v \in 1..n |-> WalkedRow(t, rows, skipped, allowlists, remembers, v)]
        /\ u = [t EXCEPT !.revs = rows]
  BY <1>1, WalkExists
<1>. HIDE DEF u
<1>3. /\ TemplateFields \subseteq DOMAIN u
      /\ u.name = t.name /\ u.status = t.status /\ u.lineage = t.lineage /\ u.revs = rows
  BY <1>1, <1>2, RevsReplaced
<1>4. Listed(rows) /\ Len(rows) = n
  <2>1. rows = [v \in 1..n |-> rows[v]]
    BY <1>2
  <2>. QED BY <1>1, <2>1, ListMade
<1>5. ASSUME NEW v \in 1..n, v \in skipped PROVE rows[v] = t.revs[v]
  <2>1. rows[v] = WalkedRow(t, rows, skipped, allowlists, remembers, v)
    BY <1>2
  <2>. QED BY <1>5, <2>1, Zenon DEF WalkedRow
<1>6. ASSUME NEW v \in 1..n, v \notin skipped
      PROVE  /\ RowFields \subseteq DOMAIN rows[v]
             /\ rows[v].body = Body(v) /\ rows[v].prev = Link(rows, v)
             /\ rows[v].hash = Hash(Link(rows, v), t.name, Body(v))
  <2>1. rows[v] = WalkedRow(t, rows, skipped, allowlists, remembers, v)
    BY <1>2
  <2>2. rows[v] = [t.revs[v] EXCEPT !.body = Body(v), !.prev = Link(rows, v),
                                    !.hash = Hash(Link(rows, v), t.name, Body(v))]
    BY <1>6, <2>1, Zenon DEF WalkedRow
  <2>3. RowFields \subseteq DOMAIN t.revs[v]
    BY <1>1
  <2>. HIDE DEF Body, Link
  <2>. QED BY <2>2, <2>3 DEF RowFields
<1>7. Shaped(u)
  <2>1. \A v \in 1..n : RowFields \subseteq DOMAIN rows[v]
    BY <1>1, <1>5, <1>6
  <2>. QED BY <1>1, <1>3, <1>4, <2>1 DEF Shaped
<1>8. ASSUME Verifies(t), OrderlyWalk(n, skipped, remembers) PROVE Verifies(u)
  <2>1. ASSUME NEW v \in 1..n, v \notin skipped
        PROVE  /\ rows[v].prev = IF v = 1 THEN GENESIS ELSE rows[v - 1].hash
               /\ rows[v].hash = Hash(rows[v].prev, t.name, rows[v].body)
    <3>1. rows[v].prev = Link(rows, v) /\ rows[v].body = Body(v)
          /\ rows[v].hash = Hash(Link(rows, v), t.name, Body(v))
      BY <1>6, <2>1
    <3>2. CASE v = 1
      <4>1. Link(rows, v) = t.revs[1].prev
        BY <3>2, LinkedFirst
      <4>2. t.revs[1].prev = GENESIS
        BY <1>8, <3>2 DEF Verifies
      <4>. QED BY <3>1, <3>2, <4>1, <4>2
    <3>3. CASE v # 1
      <4>1. Link(rows, v) = rows[v - 1].hash
        BY <1>1, <1>8, <2>1, <3>3, LinkedToLast
      <4>. QED BY <3>1, <3>3, <4>1
    <3>. QED BY <3>2, <3>3
  <2>2. ASSUME NEW v \in 1..n, v \in skipped
        PROVE  /\ rows[v].prev = IF v = 1 THEN GENESIS ELSE rows[v - 1].hash
               /\ rows[v].hash = Hash(rows[v].prev, t.name, rows[v].body)
    <3>1. rows[v] = t.revs[v]
      BY <1>5, <2>2
    <3>2. v = 1 \/ (v - 1 \in 1..n /\ v - 1 < v)
      BY <1>1
    <3>3. v = 1 \/ v - 1 \in skipped
      BY <1>8, <2>2, <3>2 DEF OrderlyWalk
    <3>4. v = 1 \/ rows[v - 1] = t.revs[v - 1]
      BY <1>5, <3>2, <3>3
    <3>5. /\ t.revs[v].prev = IF v = 1 THEN GENESIS ELSE t.revs[v - 1].hash
          /\ t.revs[v].hash = Hash(t.revs[v].prev, t.name, t.revs[v].body)
      BY <1>8 DEF Verifies
    <3>. QED BY <3>1, <3>4, <3>5
  <2>. QED BY <1>3, <1>4, <2>1, <2>2 DEF Verifies
<1>9. Len(u.revs) = n
  BY <1>3, <1>4
<1>10. \A v \in 1..n : v \in skipped => u.revs[v] = t.revs[v]
  BY <1>3, <1>5
<1>11. \A v \in 1..n : v \notin skipped => u.revs[v].body = Body(v)
  BY <1>3, <1>6
<1>. QED BY <1>3, <1>7, <1>8, <1>9, <1>10, <1>11 DEF u

\* A bundle with another allowlist.
LEMMA WithAllowlist ==
    ASSUME NEW b, NEW A, BundleShaped(b),
           (\A e \in A : IsName(e)) \/ (\A e \in A : ~IsName(e))
    PROVE  LET c == [b EXCEPT !.tool_allowlist = A]
           IN  BundleShaped(c) /\ (HasNames(c) <=> \E e \in A : IsName(e))
                               /\ (HasPins(c) <=> \E e \in A : ~IsName(e))
<1>. DEFINE c == [b EXCEPT !.tool_allowlist = A]
<1>1. {"tool_allowlist", "min_score"} \subseteq DOMAIN b /\ b.min_score \in Nat
  BY DEF BundleShaped
<1>2. /\ {"tool_allowlist", "min_score"} \subseteq DOMAIN c
      /\ c.min_score = b.min_score /\ c.tool_allowlist = A
  BY <1>1
<1>. HIDE DEF c
<1>3. (HasNames(c) <=> \E e \in A : IsName(e)) /\ (HasPins(c) <=> \E e \in A : ~IsName(e))
  BY <1>2 DEF HasNames, HasPins
<1>4. BundleShaped(c)
  BY <1>1, <1>2, <1>3 DEF BundleShaped
<1>. QED BY <1>3, <1>4 DEF c

-----------------------------------------------------------------------------
(* 0010: every row with a name is pinned, and back *)

(* Entries that name a tool, and entries that pin one. *)
LEMMA EntryKinds == IsName(RetrievalName) /\ ~IsName(RetrievalEntry) /\ \A t : IsName(Entry(t, 0))
BY DEF IsName, RetrievalName, RetrievalEntry, Entry

\* No allowlist written has both names and pins.
OfOneKind(t, skipped, allowlists) ==
    \A v \in 1..Len(t.revs) : v \notin skipped =>
        \/ \A e \in allowlists[v] : IsName(e)
        \/ \A e \in allowlists[v] : ~IsName(e)

\* Whatever is walked so is of that era.
LeadsToEra(t, skipped, allowlists, pinned, marked) ==
    \A u :
        /\ Len(u.revs) = Len(t.revs)
        /\ \A v \in 1..Len(t.revs) : v \in skipped => u.revs[v] = t.revs[v]
        /\ \A v \in 1..Len(t.revs) : v \notin skipped =>
             /\ HasNames(u.revs[v].body) <=> \E e \in allowlists[v] : IsName(e)
             /\ HasPins(u.revs[v].body) <=> \E e \in allowlists[v] : ~IsName(e)
        => OfItsEra(u, pinned, marked)

\* The walk of a bundle chain: what is left to show is about allowlists.
LEMMA WalkFits ==
    ASSUME NEW k \in BundleKinds, NEW t, NEW skipped, NEW allowlists, NEW remembers,
           NEW r, NEW p, NEW m, NEW s,
           NEW p2, NEW m2,
           Fits(k, t, r, p, m, s), m => m2,
           OfOneKind(t, skipped, allowlists),
           m2 \/ OrderlyWalk(Len(t.revs), skipped, remembers),
           LeadsToEra(t, skipped, allowlists, p2, m2)
    PROVE  LET u == Rewalk(t, skipped, allowlists, remembers)
           IN  /\ Fits(k, u, r, p2, m2, s)
               /\ u.status = t.status /\ u.lineage = t.lineage /\ Len(u.revs) = Len(t.revs)
<1>. DEFINE u == Rewalk(t, skipped, allowlists, remembers)
            n == Len(t.revs)
<1>1. Shaped(t) /\ Bundled(t) /\ (m \/ Verifies(t))
  BY DEF Fits
<1>2. /\ Shaped(u)
      /\ u.status = t.status /\ u.lineage = t.lineage /\ Len(u.revs) = n
      /\ \A v \in 1..n : v \in skipped => u.revs[v] = t.revs[v]
      /\ \A v \in 1..n : v \notin skipped => u.revs[v].body = Rewritten(t, allowlists, v)
      /\ Verifies(t) /\ OrderlyWalk(n, skipped, remembers) => Verifies(u)
  BY <1>1, RewalkFits
<1>. HIDE DEF u
<1>3. ASSUME NEW v \in 1..n, v \notin skipped
      PROVE  /\ BundleShaped(u.revs[v].body)
             /\ HasNames(u.revs[v].body) <=> \E e \in allowlists[v] : IsName(e)
             /\ HasPins(u.revs[v].body) <=> \E e \in allowlists[v] : ~IsName(e)
  <2>1. u.revs[v].body = [t.revs[v].body EXCEPT !.tool_allowlist = allowlists[v]]
    BY <1>2, <1>3 DEF Rewritten
  <2>2. BundleShaped(t.revs[v].body)
    BY <1>1 DEF Bundled
  <2>3. \/ \A e \in allowlists[v] : IsName(e)
        \/ \A e \in allowlists[v] : ~IsName(e)
    BY <1>3 DEF OfOneKind
  <2>. QED BY <2>1, <2>2, <2>3, WithAllowlist
<1>4. Bundled(u)
  <2>1. ASSUME NEW v \in 1..n PROVE BundleShaped(u.revs[v].body)
    <3>1. CASE v \in skipped
      BY <1>1, <1>2, <3>1 DEF Bundled
    <3>2. CASE v \notin skipped
      BY <1>3, <3>2
    <3>. QED BY <3>1, <3>2
  <2>. QED BY <1>2, <2>1 DEF Bundled
<1>5. OfItsEra(u, p2, m2)
  BY <1>2, <1>3 DEF LeadsToEra
<1>6. m2 \/ Verifies(u)
  BY <1>1, <1>2
<1>7. Fits(k, u, r, p2, m2, s)
  BY <1>2, <1>4, <1>5, <1>6 DEF Fits, BundleKinds
<1>. QED BY <1>2, <1>7 DEF u

\* The template t rewritten as u, its status, lineage and versions as before.
Carries(k, t, u, referring, pinned, marked, straddled) ==
    /\ Fits(k, u, referring, pinned, marked, straddled)
    /\ u.status = t.status /\ u.lineage = t.lineage /\ Len(u.revs) = Len(t.revs)

PinnedTemplate(t) == Rewalk(t, RowsWithPins(t), Pinned(t), FALSE)
UnpinnedTemplate(t) == Rewalk(t, RowsWithNames(t), Unpinned(t), FALSE)
ClosedTemplate(t, skipped, lists) == Rewalk(t, skipped, lists, TRUE)

(* 0010 up: names become pins. *)
LEMMA PinFits ==
    ASSUME NEW k \in BundleKinds, NEW t, NEW r, NEW p, NEW q,
           NEW m, NEW s, Fits(k, t, r, p, m, s), Off(p), On(q)
    PROVE  Carries(k, t, PinnedTemplate(t), r, q, m, s)
<1>. DEFINE n == Len(t.revs)
            remembers == FALSE
<1>1. Bundled(t) /\ OfItsEra(t, p, m) /\ n \in Nat /\ DOMAIN t.revs = 1..n
  BY ListDomain DEF Fits, Shaped
<1>2. \A v \in 1..n : v \in RowsWithPins(t) <=> HasPins(t.revs[v].body)
  BY <1>1 DEF RowsWithPins, HasPins, Allowlist
<1>3. \A v \in 1..n : \A e \in Pinned(t)[v] : ~IsName(e)
  <2>1. \A v \in 1..n : Pinned(t)[v] = {IF IsName(e) THEN RetrievalEntry ELSE e : e \in Allowlist(t, v)}
    BY <1>1 DEF Pinned
  <2>. QED BY <2>1, EntryKinds
<1>4. m \/ OrderlyWalk(n, RowsWithPins(t), remembers)
  <2>1. CASE m
    BY <2>1
  <2>2. CASE n <= 1
    <3>1. \A u1, v1 \in 1..n : u1 = v1
      BY <1>1, <2>2
    <3>. QED BY <3>1 DEF OrderlyWalk
  <2>3. CASE \A v \in 1..n : ~HasPins(t.revs[v].body)
    BY <1>2, <2>3 DEF OrderlyWalk
  <2>. QED BY <1>1, <2>1, <2>2, <2>3 DEF On, Off, OfItsEra
<1>5. ASSUME NEW x, Len(x.revs) = n,
             \A v \in 1..n : v \in RowsWithPins(t) => x.revs[v] = t.revs[v],
             \A v \in 1..n : v \notin RowsWithPins(t) =>
                 (HasNames(x.revs[v].body) <=> \E e \in Pinned(t)[v] : IsName(e))
      PROVE  OfItsEra(x, q, m)
  <2>1. ASSUME NEW v \in 1..n PROVE ~HasNames(x.revs[v].body)
    <3>1. CASE v \in RowsWithPins(t)
      BY <1>1, <1>2, <1>5, <3>1 DEF Bundled, BundleShaped
    <3>2. CASE v \notin RowsWithPins(t)
      BY <1>3, <1>5, <3>2
    <3>. QED BY <3>1, <3>2
  <2>. QED BY <1>5, <2>1 DEF On, Off, OfItsEra
<1>6. remembers \in BOOLEAN
  OBVIOUS
<1>. HIDE DEF remembers
<1>. DEFINE rows == RowsWithPins(t)
            lists == Pinned(t)
<1>. HIDE DEF rows, lists
<1>7. /\ Fits(k, Rewalk(t, rows, lists, remembers), r, q, m, s)
      /\ Rewalk(t, rows, lists, remembers).status = t.status
      /\ Rewalk(t, rows, lists, remembers).lineage = t.lineage
      /\ Len(Rewalk(t, rows, lists, remembers).revs) = Len(t.revs)
  <2>1. OfOneKind(t, rows, lists)
    BY <1>3 DEF OfOneKind, lists
  <2>2. m \/ OrderlyWalk(Len(t.revs), rows, remembers)
    BY <1>4 DEF rows
  <2>3. LeadsToEra(t, rows, lists, q, m)
    BY <1>5 DEF rows, lists, LeadsToEra
  <2>4. ASSUME NEW P1, NEW Q1, Fits(k, t, r, P1, m, s),
               LeadsToEra(t, rows, lists, Q1, m)
        PROVE  Fits(k, Rewalk(t, rows, lists, remembers), r, Q1, m, s)
    BY <1>6, <2>1, <2>2, <2>4, WalkFits
  <2>6. Fits(k, Rewalk(t, rows, lists, remembers), r, q, m, s)
    BY <2>3, <2>4
  <2>5. Shaped(t)
    BY DEF Fits
  <2>. QED BY <1>6, <2>6, <2>5, RewalkFits
<1>. QED BY <1>7 DEF rows, lists, remembers, Carries, PinnedTemplate

(* 0010 down: pins become names. *)
LEMMA UnpinFits ==
    ASSUME NEW k \in BundleKinds, NEW t, NEW r, NEW p, NEW q,
           NEW m, NEW s, Fits(k, t, r, p, m, s), On(p), Off(q)
    PROVE  Carries(k, t, UnpinnedTemplate(t), r, q, m, s)
<1>. DEFINE n == Len(t.revs)
            remembers == FALSE
<1>1. OfItsEra(t, p, m) /\ n \in Nat /\ DOMAIN t.revs = 1..n
  BY ListDomain DEF Fits, Shaped
<1>2. \A v \in 1..n : v \notin RowsWithNames(t)
  BY <1>1 DEF On, Off, RowsWithNames, HasNames, Allowlist, OfItsEra
<1>3. \A v \in 1..n : \A e \in Unpinned(t)[v] : IsName(e)
  <2>1. \A v \in 1..n : Unpinned(t)[v] = {Entry(e.tool, 0) : e \in Allowlist(t, v)}
    BY <1>1 DEF Unpinned
  <2>. QED BY <2>1, EntryKinds
<1>4. OrderlyWalk(n, RowsWithNames(t), remembers)
  BY <1>2 DEF OrderlyWalk
<1>5. ASSUME NEW x, Len(x.revs) = n,
             \A v \in 1..n : v \notin RowsWithNames(t) =>
                 (HasPins(x.revs[v].body) <=> \E e \in Unpinned(t)[v] : ~IsName(e))
      PROVE  OfItsEra(x, q, m)
  <2>1. ASSUME NEW v \in 1..n PROVE ~HasPins(x.revs[v].body)
    BY <1>2, <1>3, <1>5
  <2>. QED BY <1>5, <2>1 DEF On, Off, OfItsEra
<1>6. remembers \in BOOLEAN
  OBVIOUS
<1>. HIDE DEF remembers
<1>. DEFINE rows == RowsWithNames(t)
            lists == Unpinned(t)
<1>. HIDE DEF rows, lists
<1>7. /\ Fits(k, Rewalk(t, rows, lists, remembers), r, q, m, s)
      /\ Rewalk(t, rows, lists, remembers).status = t.status
      /\ Rewalk(t, rows, lists, remembers).lineage = t.lineage
      /\ Len(Rewalk(t, rows, lists, remembers).revs) = Len(t.revs)
  <2>1. OfOneKind(t, rows, lists)
    BY <1>3 DEF OfOneKind, lists
  <2>2. m \/ OrderlyWalk(Len(t.revs), rows, remembers)
    BY <1>4 DEF rows
  <2>3. LeadsToEra(t, rows, lists, q, m)
    BY <1>5 DEF rows, lists, LeadsToEra
  <2>4. ASSUME NEW P1, NEW Q1, Fits(k, t, r, P1, m, s),
               LeadsToEra(t, rows, lists, Q1, m)
        PROVE  Fits(k, Rewalk(t, rows, lists, remembers), r, Q1, m, s)
    BY <1>6, <2>1, <2>2, <2>4, WalkFits
  <2>6. Fits(k, Rewalk(t, rows, lists, remembers), r, q, m, s)
    BY <2>3, <2>4
  <2>5. Shaped(t)
    BY DEF Fits
  <2>. QED BY <1>6, <2>6, <2>5, RewalkFits
<1>. QED BY <1>7 DEF rows, lists, remembers, Carries, UnpinnedTemplate

(* 0012: a walk that remembers the rows it skips, of allowlists with pins *)

(* 0012: rows closed or opened, the others skipped. *)
LEMMA ClosureFits ==
    ASSUME NEW t, NEW rows, NEW lists, NEW r, NEW p,
           NEW m, NEW s, NEW m2,
           Fits("role", t, r, p, m, s), On(p), m => m2, rows \subseteq DOMAIN t.revs,
           SkipsAfterRewrite(t, rows) => m2,
           \A v \in 1..Len(t.revs) : \A e \in lists[v] : ~IsName(e)
    PROVE  Carries("role", t, ClosedTemplate(t, rows, lists), r, p, m2, s)
<1>. DEFINE n == Len(t.revs)
            remembers == TRUE
            k == "role"
<1>1. OfItsEra(t, p, m) /\ n \in Nat /\ DOMAIN t.revs = 1..n
  BY ListDomain DEF Fits, Shaped, BundleKinds
<1>4. m2 \/ OrderlyWalk(n, rows, remembers)
  <2>1. ASSUME ~m2, NEW u \in 1..n, NEW v \in 1..n, u \notin rows, v \in rows PROVE v < u
    <3>1. ~(u < v) /\ u # v
      BY <1>1, <2>1 DEF SkipsAfterRewrite
    <3>. QED BY <1>1, <3>1
  <2>. QED BY <2>1 DEF OrderlyWalk
<1>5. ASSUME NEW x, Len(x.revs) = n,
             \A v \in 1..n : v \in rows => x.revs[v] = t.revs[v],
             \A v \in 1..n : v \notin rows =>
                 (HasNames(x.revs[v].body) <=> \E e \in lists[v] : IsName(e))
      PROVE  OfItsEra(x, p, m2)
  <2>1. ASSUME NEW v \in 1..n PROVE ~HasNames(x.revs[v].body)
    <3>1. CASE v \in rows
      BY <1>1, <1>5, <3>1 DEF On, Off, OfItsEra
    <3>2. CASE v \notin rows
      BY <1>5, <3>2
    <3>. QED BY <3>1, <3>2
  <2>. QED BY <1>5, <2>1 DEF On, Off, OfItsEra
<1>6. remembers \in BOOLEAN /\ k \in BundleKinds
  BY DEF BundleKinds
<1>. HIDE DEF remembers, k
<1>7. /\ Fits(k, Rewalk(t, rows, lists, remembers), r, p, m2, s)
      /\ Rewalk(t, rows, lists, remembers).status = t.status
      /\ Rewalk(t, rows, lists, remembers).lineage = t.lineage
      /\ Len(Rewalk(t, rows, lists, remembers).revs) = Len(t.revs)
  <2>0. Fits(k, t, r, p, m, s)
    BY DEF k
  <2>1. OfOneKind(t, rows, lists)
    BY DEF OfOneKind
  <2>2. m2 \/ OrderlyWalk(Len(t.revs), rows, remembers)
    BY <1>4
  <2>3. LeadsToEra(t, rows, lists, p, m2)
    BY <1>5 DEF LeadsToEra
  <2>4. ASSUME NEW P1, Fits(k, t, r, P1, m, s), LeadsToEra(t, rows, lists, P1, m2)
        PROVE  Fits(k, Rewalk(t, rows, lists, remembers), r, P1, m2, s)
    BY <1>6, <2>1, <2>2, <2>4, WalkFits
  <2>6. Fits(k, Rewalk(t, rows, lists, remembers), r, p, m2, s)
    BY <2>0, <2>3, <2>4
  <2>5. Shaped(t)
    BY DEF Fits
  <2>. QED BY <1>6, <2>6, <2>5, RewalkFits
<1>. QED BY <1>7 DEF remembers, k, Carries, ClosedTemplate

(* What migrations seed and what operators write *)

(* An empty allowlist. *)
LEMMA NoEntries ==
    ASSUME NEW n \in Nat
    PROVE  BundleShaped(Bundle({}, n)) /\ ~HasNames(Bundle({}, n))
BY DEF Bundle, BundleShaped, HasNames, HasPins

(* The allowlist of the seeds. *)
LEMMA RetrievalBundle ==
    BundleShaped(Bundle({RetrievalEntry}, 1)) /\ ~HasNames(Bundle({RetrievalEntry}, 1))
<1>1. ~IsName(RetrievalEntry)
  BY EntryKinds
<1>. HIDE DEF RetrievalEntry
<1>. QED BY <1>1 DEF Bundle, BundleShaped, HasNames, HasPins

\* A bundle of an operator pins whatever it allows.
LEMMA BundlesShaped ==
    ASSUME \A t \in Live("tool") : Version("tool", t) \in Nat, NEW b \in Bundles
    PROVE  BundleShaped(b) /\ ~HasNames(b)
<1>1. PICK A \in Allowlists, n \in Scores : b = Bundle(A, n)
  BY DEF Bundles
<1>2. n \in Nat
  BY CatalogueAssumption
<1>3. ASSUME NEW e \in A PROVE ~IsName(e)
  <2>1. PICK t \in Live("tool") : A \in {{Entry(t, v)} : v \in 1..Version("tool", t)}
    BY <1>3 DEF Allowlists
  <2>2. PICK v \in 1..Version("tool", t) : A = {Entry(t, v)}
    BY <2>1
  <2>3. e = Entry(t, v) /\ v # 0
    BY <1>3, <2>2
  <2>. QED BY <2>3 DEF Entry, IsName
<1>4. {"tool_allowlist", "min_score"} \subseteq DOMAIN b /\ b.tool_allowlist = A /\ b.min_score = n
  BY <1>1 DEF Bundle
<1>. QED BY <1>2, <1>3, <1>4 DEF BundleShaped, HasNames

\* The references of an operator override no top_k, and a score by a score.
LEMMA RawShaped ==
    ASSUME NEW raw \in RawOverrides
    PROVE  OverridesShaped(ProjectOverrides(raw))
<1>1. DOMAIN <<>> = {}
  OBVIOUS
<1>2. CASE raw = <<>>
  <2>1. DOMAIN ProjectOverrides(raw) = {}
    BY <1>1, <1>2 DEF ProjectOverrides
  <2>. QED BY <2>1 DEF OverridesShaped
<1>3. CASE raw = [min_score |-> [mode |-> "bare", value |-> 2],
                  tool_allowlist |-> [mode |-> "tighten", value |-> {Entry(RetrievalTool, 2)}]]
  <2>1. DOMAIN raw = {"min_score", "tool_allowlist"} /\ raw["min_score"].value = 2
    BY <1>3
  <2>2. DOMAIN ProjectOverrides(raw) = DOMAIN raw /\ ProjectOverrides(raw)["min_score"].value = 2
    BY <2>1 DEF ProjectOverrides
  <2>. QED BY <2>1, <2>2 DEF OverridesShaped
<1>4. CASE \E mode : raw = Overridden("tool_allowlist", mode, {RetrievalEntry})
  <2>1. DOMAIN raw = {"tool_allowlist"}
    BY <1>4 DEF Overridden
  <2>2. DOMAIN ProjectOverrides(raw) = {"tool_allowlist"}
    BY <2>1 DEF ProjectOverrides
  <2>. QED BY <2>2 DEF OverridesShaped
<1>. QED BY <1>2, <1>3, <1>4 DEF RawOverrides

(* The role references an operator can write. *)
LEMMA RoleRefsShaped ==
    ASSUME NEW refs \in ToRoleRefs(RawRoleRefs)
    PROVE  RefsShaped(refs)
<1>1. PICK raws \in RawRoleRefs :
        refs = [i \in DOMAIN raws |-> [raws[i] EXCEPT !.overrides = ProjectOverrides(@)]]
  BY DEF ToRoleRefs
<1>2. PICK r \in Live("role"), v \in 1..2, raw \in RawOverrides : raws = <<RoleRef(r, v, raw)>>
  BY DEF RawRoleRefs
<1>3. DOMAIN raws = {1} /\ raws[1] = RoleRef(r, v, raw)
  BY <1>2
<1>4. DOMAIN refs = {1} /\ refs[1] = [RoleRef(r, v, raw) EXCEPT !.overrides = ProjectOverrides(@)]
  BY <1>1, <1>3
<1>5. refs[1].overrides = ProjectOverrides(raw)
  BY <1>4 DEF RoleRef
<1>6. OverridesShaped(ProjectOverrides(raw))
  BY RawShaped
<1>. HIDE DEF ProjectOverrides
<1>7. \A i \in DOMAIN refs : OverridesShaped(refs[i].overrides)
  BY <1>4, <1>5, <1>6
<1>8. DOMAIN refs \subseteq Nat /\ 1 \in DOMAIN refs
  BY <1>4
<1>. QED BY <1>7, <1>8 DEF RefsShaped

-----------------------------------------------------------------------------
(* The seeds *)

(* A seeded role. *)
LEMMA SeededRoleFits ==
    ASSUME NEW name, NEW r, NEW p, NEW m, NEW s
    PROVE  Fits("role", SeededRole(name), r, p, m, s)
<1>. DEFINE row == NewRow(name, Bundle({}, 1), GENESIS, By0008, "none")
<1>1. /\ RowFields \subseteq DOMAIN row /\ row.body = Bundle({}, 1)
      /\ row.prev = GENESIS /\ row.hash = Hash(GENESIS, name, row.body)
  BY NewRowFields
<1>2. BundleShaped(row.body) /\ ~HasNames(row.body)
  BY <1>1, NoEntries
<1>3. SeededRole(name) = NewTemplate(name, By0008, row, NoLineage)
  BY DEF SeededRole
<1>. HIDE DEF row
<1>4. Fits("role", NewTemplate(name, By0008, row, NoLineage), r, p, m, s)
  BY <1>1, <1>2, NewTemplateFits, NoLineageFields
<1>. QED BY <1>3, <1>4

(* A seeded methodology. *)
LEMMA SeededMethodologyFits ==
    ASSUME NEW first, NEW r, On(r), NEW p, NEW m,
           NEW s
    PROVE  Fits("methodology", SeededMethodology(first), r, p, m, s)
<1>. DEFINE refs == [i \in DOMAIN SeededRoles |->
                RoleRef(first + i, 1, Overridden("system_prompt", "augment", <<SeededRoles[i]>>))]
            row == NewRow(McKinsey, RoleRefs(refs), GENESIS, By0008, "none")
<1>1. DOMAIN SeededRoles = {1}
  BY DEF SeededRoles
<1>2. RefsShaped(refs)
  <2>1. DOMAIN refs = {1}
    BY <1>1
  <2>2. ASSUME NEW i \in DOMAIN refs PROVE OverridesShaped(refs[i].overrides)
    <3>1. refs[i].overrides = Overridden("system_prompt", "augment", <<SeededRoles[i]>>)
      BY DEF RoleRef
    <3>2. DOMAIN Overridden("system_prompt", "augment", <<SeededRoles[i]>>) = {"system_prompt"}
      BY DEF Overridden
    <3>3. \A o : DOMAIN o = {"system_prompt"} => OverridesShaped(o)
      BY DEF OverridesShaped
    <3>. HIDE DEF refs
    <3>. QED BY <3>1, <3>2, <3>3
  <2>. HIDE DEF refs
  <2>. QED BY <2>1, <2>2 DEF RefsShaped
<1>3. /\ RowFields \subseteq DOMAIN row /\ row.body = RoleRefs(refs)
      /\ row.prev = GENESIS /\ row.hash = Hash(GENESIS, McKinsey, row.body)
  BY NewRowFields
<1>4. RoleRefs(refs).role_refs = refs
  BY DEF RoleRefs
<1>5. SeededMethodology(first) = NewTemplate(McKinsey, By0008, row, NoLineage)
  BY DEF SeededMethodology
<1>. HIDE DEF row, refs
<1>6. RefsShaped(row.body.role_refs)
  BY <1>2, <1>3, <1>4
<1>7. Fits("methodology", NewTemplate(McKinsey, By0008, row, NoLineage), r, p, m, s)
  BY <1>3, <1>6, NewTemplateFits, NoLineageFields DEF On, Off, BundleKinds
<1>. QED BY <1>5, <1>7

(* The seeded tool. *)
LEMMA SeededToolFits ==
    ASSUME NEW r, NEW p, NEW m, NEW s
    PROVE  Fits("tool", SeededTool, r, p, m, s)
<1>. DEFINE row == NewRow("retrieval", RetrievalContent, GENESIS, By0009, "none")
<1>1. /\ RowFields \subseteq DOMAIN row
      /\ row.prev = GENESIS /\ row.hash = Hash(GENESIS, "retrieval", row.body)
  BY NewRowFields
<1>2. SeededTool = NewTemplate("retrieval", By0009, row, NoLineage)
  BY DEF SeededTool
<1>. HIDE DEF row
<1>3. Fits("tool", NewTemplate("retrieval", By0009, row, NoLineage), r, p, m, s)
  BY <1>1, NewTemplateFits, NoLineageFields DEF BundleKinds
<1>. QED BY <1>2, <1>3

GuideTemplate ==
    NewTemplate("LVTGuide", By0013,
        NewRow("LVTGuide", Bundle({RetrievalEntry}, 1), GENESIS, By0013, "none"), NoLineage)

(* The role 0013 seeds. *)
LEMMA GuideFits ==
    ASSUME NEW r, NEW p, NEW m, NEW s
    PROVE  Fits("role", GuideTemplate, r, p, m, s)
<1>. DEFINE row == NewRow("LVTGuide", Bundle({RetrievalEntry}, 1), GENESIS, By0013, "none")
<1>1. /\ RowFields \subseteq DOMAIN row /\ row.body = Bundle({RetrievalEntry}, 1)
      /\ row.prev = GENESIS /\ row.hash = Hash(GENESIS, "LVTGuide", row.body)
  BY NewRowFields
<1>2. BundleShaped(row.body) /\ ~HasNames(row.body)
  BY <1>1, RetrievalBundle
<1>3. GuideTemplate = NewTemplate("LVTGuide", By0013, row, NoLineage)
  BY DEF GuideTemplate
<1>. HIDE DEF row
<1>4. Fits("role", NewTemplate("LVTGuide", By0013, row, NoLineage), r, p, m, s)
  BY <1>1, <1>2, NewTemplateFits, NoLineageFields
<1>. QED BY <1>3, <1>4

\* A template of an earlier release.
LEMMA LegacyFits ==
    ASSUME NEW k, NEW name, NEW bodies, Listed(bodies), Len(bodies) > 0,
           NEW r, NEW p, NEW m, NEW s,
           k # "tool", Off(r), Off(p),
           \A v \in 1..Len(bodies) : BundleShaped(bodies[v]) /\ ~HasPins(bodies[v])
    PROVE  LET t == Legacy(name, bodies)
           IN  /\ Fits(k, t, r, p, m, s)
               /\ t.status = "active" /\ t.lineage = NoLineage /\ Len(t.revs) = Len(bodies)
<1>. DEFINE n == Len(bodies)
            by == [v \in DOMAIN bodies |-> "operator"]
            rows == Chain(name, bodies, by)
            t == Legacy(name, bodies)
<1>1. n \in Nat /\ DOMAIN bodies = 1..n
  BY ListDomain
<1>2. /\ TemplateFields \subseteq DOMAIN t
      /\ t.name = name /\ t.status = "active" /\ t.lineage = NoLineage /\ t.revs = rows
  BY DEF Legacy, TemplateFields
<1>. HIDE DEF t, by
<1>3. rows = [v \in 1..n |->
                NewRow(name, bodies[v], IF v = 1 THEN GENESIS ELSE rows[v - 1].hash, by[v], "none")]
  BY ChainExists
<1>. HIDE DEF rows
<1>4. Listed(rows) /\ Len(rows) = n
  <2>1. rows = [v \in 1..n |-> rows[v]]
    BY <1>3
  <2>. QED BY <1>1, <2>1, ListMade
<1>5. ASSUME NEW v \in 1..n
      PROVE  /\ RowFields \subseteq DOMAIN rows[v] /\ rows[v].body = bodies[v]
             /\ rows[v].prev = IF v = 1 THEN GENESIS ELSE rows[v - 1].hash
             /\ rows[v].hash = Hash(rows[v].prev, name, rows[v].body)
  <2>1. rows[v] = NewRow(name, bodies[v], IF v = 1 THEN GENESIS ELSE rows[v - 1].hash, by[v], "none")
    BY <1>3
  <2>. QED BY <2>1, NewRowFields
<1>6. Shaped(t)
  BY <1>1, <1>2, <1>4, <1>5, NoLineageFields DEF Shaped
<1>7. Bundled(t) /\ OfItsEra(t, p, m)
  BY <1>2, <1>4, <1>5 DEF On, Off, Bundled, OfItsEra
<1>8. Referring(t, r)
  BY <1>1, <1>2, <1>4, <1>5 DEF On, Off, Referring
<1>9. Verifies(t)
  BY <1>2, <1>4, <1>5 DEF Verifies
<1>10. Fits(k, t, r, p, m, s)
  BY <1>6, <1>7, <1>8, <1>9 DEF Fits
<1>. QED BY <1>2, <1>4, <1>10 DEF t

(* The templates of one kind *)

Marked(marks, k, i) == \E x \in marks : x[1] = k /\ x[2] = i
Extended(marks, k, i) == <<k, i, "straddled">> \in marks

KindFits(k, ts, referring, pinned, marks) ==
    /\ Listed(ts)
    /\ \A i \in 1..Len(ts) :
        Fits(k, ts[i], referring, pinned, Marked(marks, k, i), Extended(marks, k, i))

(* A mark is there or it is not. *)
LEMMA MarksAreBoolean ==
    \A marks, k, i : Marked(marks, k, i) \in BOOLEAN /\ Extended(marks, k, i) \in BOOLEAN
BY DEF Marked, Extended

MarksGrow(k, marks, marks2) ==
    \A i : /\ Marked(marks, k, i) => Marked(marks2, k, i)
           /\ Extended(marks, k, i) => Extended(marks2, k, i)

(* Adding marks. *)
LEMMA MoreMarks ==
    ASSUME NEW marks, NEW marks2, marks \subseteq marks2
    PROVE  \A k : MarksGrow(k, marks, marks2)
BY DEF MarksGrow, Marked, Extended

(* More marks excuse more, for every template of a kind. *)
LEMMA KindFitsOn ==
    ASSUME NEW k, NEW ts, NEW r, NEW p, NEW r2, NEW p2,
           NEW marks, NEW marks2, KindFits(k, ts, r, p, marks), MarksGrow(k, marks, marks2),
           k = "methodology" => r = r2, k \in BundleKinds => p = p2
    PROVE  KindFits(k, ts, r2, p2, marks2)
<1>1. ASSUME NEW i \in 1..Len(ts), NEW m, NEW s, NEW m2,
             NEW s2, Fits(k, ts[i], r, p, m, s), m => m2, s => s2
      PROVE  Fits(k, ts[i], r2, p2, m2, s2)
  BY <1>1, FitsOn
<1>2. ASSUME NEW i \in 1..Len(ts)
      PROVE  Fits(k, ts[i], r2, p2, Marked(marks2, k, i), Extended(marks2, k, i))
  <2>1. Fits(k, ts[i], r, p, Marked(marks, k, i), Extended(marks, k, i))
    BY DEF KindFits
  <2>2. /\ Marked(marks, k, i) => Marked(marks2, k, i)
        /\ Extended(marks, k, i) => Extended(marks2, k, i)
    BY DEF MarksGrow
  <2>. QED BY <1>1, <2>1, <2>2, MarksAreBoolean
<1>. QED BY <1>2 DEF KindFits

\* A catalogue that is rewritten template by template.
LEMMA Mapped ==
    ASSUME NEW ts, Listed(ts), NEW us, us = [i \in DOMAIN ts |-> us[i]]
    PROVE  Listed(us) /\ Len(us) = Len(ts) /\ DOMAIN ts = 1..Len(ts) /\ Len(ts) \in Nat
<1>1. DOMAIN ts = 1..Len(ts) /\ Len(ts) \in Nat
  BY ListDomain
<1>2. us = [i \in 1..Len(ts) |-> us[i]]
  BY <1>1
<1>. QED BY <1>1, <1>2, ListMade

-----------------------------------------------------------------------------
(* Lineages *)

\* What a pin names was there: it is there still, or deleted.
Rooted(ts, pin) ==
    /\ pin.id \in 1..Len(ts)
    /\ ts[pin.id].status = "deleted" \/ pin.version \in 1..Len(ts[pin.id].revs)

FirstRef(ms, pin) == ms[pin.id].revs[pin.version].body.role_refs[1]
RefPin(ref) == Pin(ref.role, ref.version)

RootedLineage(roles, ms, referring, l) ==
    /\ l.role # NoPin => Rooted(roles, l.role)
    /\ l.methodology # NoPin =>
        /\ Rooted(ms, l.methodology)
        /\ referring /\ ms[l.methodology.id].status # "deleted" =>
             Rooted(roles, RefPin(FirstRef(ms, l.methodology)))

\* No template goes, and no revision of one that is not deleted.
Keeps(ts, us) ==
    /\ Len(ts) \in Nat /\ Len(us) \in Nat /\ Len(ts) <= Len(us)
    /\ \A i \in 1..Len(ts) :
        \/ us[i].status = "deleted"
        \/ /\ ts[i].status # "deleted"
           /\ Len(ts[i].revs) \in Nat /\ Len(us[i].revs) \in Nat
           /\ Len(ts[i].revs) <= Len(us[i].revs)

SameRefs(ms, ns) ==
    \A i \in 1..Len(ms) :
        \/ ns[i].status = "deleted"
        \/ \A v \in 1..Len(ms[i].revs) :
            ns[i].revs[v].body.role_refs[1] = ms[i].revs[v].body.role_refs[1]

(* A pin stays rooted in what keeps its templates. *)
LEMMA RootedKept ==
    ASSUME NEW ts, NEW us, Keeps(ts, us), NEW pin, Rooted(ts, pin)
    PROVE  Rooted(us, pin)
<1>1. pin.id \in 1..Len(us)
  BY DEF Keeps, Rooted
<1>2. CASE us[pin.id].status = "deleted"
  BY <1>1, <1>2 DEF Rooted
<1>3. CASE us[pin.id].status # "deleted"
  <2>1. /\ ts[pin.id].status # "deleted"
        /\ Len(ts[pin.id].revs) \in Nat /\ Len(us[pin.id].revs) \in Nat
        /\ Len(ts[pin.id].revs) <= Len(us[pin.id].revs)
    BY <1>3 DEF Keeps, Rooted
  <2>. QED BY <1>1, <2>1 DEF Rooted
<1>. QED BY <1>2, <1>3

(* And so does a lineage. *)
LEMMA LineageKept ==
    ASSUME NEW roles, NEW ms, NEW roles2, NEW ms2, NEW r, NEW r2,
           Keeps(roles, roles2), Keeps(ms, ms2), r2 => r /\ SameRefs(ms, ms2),
           NEW l, RootedLineage(roles, ms, r, l)
    PROVE  RootedLineage(roles2, ms2, r2, l)
<1>1. l.role # NoPin => Rooted(roles2, l.role)
  BY RootedKept DEF RootedLineage
<1>2. ASSUME l.methodology # NoPin PROVE Rooted(ms2, l.methodology)
  BY <1>2, RootedKept DEF RootedLineage
<1>3. ASSUME l.methodology # NoPin, r2, ms2[l.methodology.id].status # "deleted"
      PROVE  Rooted(roles2, RefPin(FirstRef(ms2, l.methodology)))
  <2>1. /\ l.methodology.id \in 1..Len(ms)
        /\ ms[l.methodology.id].status # "deleted"
        /\ l.methodology.version \in 1..Len(ms[l.methodology.id].revs)
    BY <1>3 DEF Keeps, RootedLineage, Rooted
  <2>2. FirstRef(ms2, l.methodology) = FirstRef(ms, l.methodology)
    BY <1>3, <2>1 DEF SameRefs, FirstRef
  <2>3. Rooted(roles, RefPin(FirstRef(ms, l.methodology)))
    BY <1>3, <2>1 DEF RootedLineage
  <2>. QED BY <2>2, <2>3, RootedKept
<1>. QED BY <1>1, <1>2, <1>3 DEF RootedLineage

\* A kind nothing happens to.
LEMMA KindKept ==
    ASSUME NEW k, NEW ts, NEW r, NEW p, NEW marks, KindFits(k, ts, r, p, marks)
    PROVE  Keeps(ts, ts) /\ SameRefs(ts, ts)
<1>1. Len(ts) \in Nat /\ Len(ts) <= Len(ts)
  BY ListDomain DEF KindFits
<1>2. \A i \in 1..Len(ts) : Len(ts[i].revs) \in Nat
  BY ListDomain DEF KindFits, Fits, Shaped
<1>3. \A i \in 1..Len(ts) : Len(ts[i].revs) <= Len(ts[i].revs)
  BY <1>2
<1>. QED BY <1>1, <1>2, <1>3 DEF Keeps, SameRefs

\* A kind whose templates keep their status and the number of their revisions.
LEMMA PointwiseKept ==
    ASSUME NEW ts, NEW us, Listed(ts), Len(us) = Len(ts),
           \A i \in 1..Len(ts) :
             \/ us[i].status = "deleted"
             \/ /\ Listed(ts[i].revs)
                /\ us[i].status = ts[i].status /\ Len(us[i].revs) = Len(ts[i].revs)
    PROVE  Keeps(ts, us)
<1>1. Len(ts) \in Nat
  BY ListDomain
<1>2. \A i \in 1..Len(ts) : us[i].status = "deleted" \/ Len(ts[i].revs) \in Nat
  BY ListDomain
<1>. QED BY <1>1, <1>2 DEF Keeps

(* The revisions of a template are a finite sequence. *)
LEMMA FitsAreListed ==
    ASSUME NEW k, NEW ts, NEW r, NEW p, NEW marks, KindFits(k, ts, r, p, marks), NEW i \in 1..Len(ts)
    PROVE  Shaped(ts[i]) /\ Listed(ts[i].revs)
BY DEF KindFits, Fits, Shaped

\* The DELETE of a migration's own templates.
LEMMA DeleteByFits ==
    ASSUME NEW d, NEW k, NEW by, NEW r, NEW p, NEW marks,
           KindFits(k, d[k], r, p, marks)
    PROVE  LET us == DeleteBy(d, k, by)
           IN  KindFits(k, us, r, p, marks) /\ Keeps(d[k], us) /\ SameRefs(d[k], us)
<1>. DEFINE ts == d[k]
            us == DeleteBy(d, k, by)
<1>1. us = [i \in DOMAIN ts |-> us[i]]
  BY DEF DeleteBy
<1>2. \A i \in DOMAIN ts : us[i] = IF ts[i].by = by THEN Deleted(ts[i]) ELSE ts[i]
  BY DEF DeleteBy
<1>. HIDE DEF us, ts
<1>a. KindFits(k, ts, r, p, marks)
  BY DEF ts
<1>3. Listed(us) /\ Len(us) = Len(ts) /\ DOMAIN ts = 1..Len(ts) /\ Len(ts) \in Nat /\ Listed(ts)
  BY <1>a, <1>1, Mapped DEF KindFits
<1>4. ASSUME NEW i \in 1..Len(ts), NEW m, NEW s, Fits(k, ts[i], r, p, m, s)
      PROVE  Fits(k, us[i], r, p, m, s)
  <2>1. CASE ts[i].by = by
    <3>1. us[i] = Deleted(ts[i]) /\ Shaped(ts[i])
      BY <1>2, <1>3, <1>4, <2>1 DEF Fits
    <3>. QED BY <3>1, DeletedFits
  <2>2. CASE ts[i].by # by
    BY <1>2, <1>3, <1>4, <2>2
  <2>. QED BY <2>1, <2>2
<1>5. KindFits(k, us, r, p, marks)
  BY <1>a, <1>3, <1>4, MarksAreBoolean DEF KindFits
<1>6. \A i \in 1..Len(ts) : us[i].status = "deleted" \/ us[i] = ts[i]
  <2>1. \A i \in 1..Len(ts) : Shaped(ts[i])
    BY <1>a, FitsAreListed
  <2>2. \A t : Shaped(t) => Deleted(t).status = "deleted"
    BY DEF Deleted, Shaped, TemplateFields
  <2>. QED BY <1>2, <1>3, <2>1, <2>2
<1>7. Keeps(ts, us)
  <2>1. \A i \in 1..Len(ts) : Listed(ts[i].revs)
    BY <1>a, FitsAreListed
  <2>. QED BY <1>3, <1>6, <2>1, PointwiseKept
<1>8. SameRefs(ts, us)
  BY <1>6 DEF SameRefs
<1>. QED BY <1>5, <1>7, <1>8 DEF us, ts

\* The tables of 0009 are dropped.
LEMMA DroppedFits ==
    ASSUME NEW k, NEW ts, NEW r, NEW p, NEW marks,
           KindFits(k, ts, r, p, marks)
    PROVE  LET us == [t \in DOMAIN ts |-> Deleted(ts[t])]
           IN  KindFits(k, us, r, p, marks) /\ Len(us) = Len(ts)
<1>. DEFINE us == [t \in DOMAIN ts |-> Deleted(ts[t])]
<1>1. us = [i \in DOMAIN ts |-> us[i]]
  OBVIOUS
<1>2. \A i \in DOMAIN ts : us[i] = Deleted(ts[i])
  OBVIOUS
<1>. HIDE DEF us
<1>3. Listed(us) /\ Len(us) = Len(ts) /\ DOMAIN ts = 1..Len(ts)
  BY <1>1, Mapped DEF KindFits
<1>4. ASSUME NEW i \in 1..Len(ts), NEW m, NEW s
      PROVE  Fits(k, us[i], r, p, m, s)
  BY <1>2, <1>3, DeletedFits, FitsAreListed
<1>5. KindFits(k, us, r, p, marks)
  BY <1>3, <1>4, MarksAreBoolean DEF KindFits
<1>. QED BY <1>3, <1>5 DEF us

\* A template inserted after the others.
LEMMA AppendFits ==
    ASSUME NEW k, NEW ts, NEW t, NEW r, NEW p, NEW marks,
           KindFits(k, ts, r, p, marks),
           \A m, s \in BOOLEAN : Fits(k, t, r, p, m, s)
    PROVE  LET us == Append(ts, t)
           IN  /\ KindFits(k, us, r, p, marks) /\ Keeps(ts, us) /\ SameRefs(ts, us)
               /\ Len(us) = Len(ts) + 1 /\ us[Len(ts) + 1] = t
               /\ \A i \in 1..Len(ts) : us[i] = ts[i]
<1>. DEFINE us == Append(ts, t)
<1>1. Listed(ts) /\ Len(ts) \in Nat
  BY ListDomain DEF KindFits
<1>2. /\ Listed(us) /\ Len(us) = Len(ts) + 1
      /\ \A i \in 1..Len(ts) : us[i] = ts[i]
      /\ us[Len(ts) + 1] = t
  BY <1>1, ListAppend
<1>. HIDE DEF us
<1>3. \A i \in 1..Len(us) : i \in 1..Len(ts) \/ i = Len(ts) + 1
  BY <1>1, <1>2
<1>4. \A i \in 1..Len(ts) : Fits(k, us[i], r, p, Marked(marks, k, i), Extended(marks, k, i))
  BY <1>2 DEF KindFits
<1>5. \A i : Fits(k, t, r, p, Marked(marks, k, i), Extended(marks, k, i))
  BY MarksAreBoolean
<1>6. KindFits(k, us, r, p, marks)
  BY <1>2, <1>3, <1>4, <1>5 DEF KindFits
<1>7. Keeps(ts, us) /\ SameRefs(ts, us)
  <2>1. Keeps(ts, ts)
    BY KindKept
  <2>2. Len(us) \in Nat /\ Len(ts) <= Len(us)
    BY <1>1, <1>2
  <2>. QED BY <1>1, <1>2, <2>1, <2>2 DEF Keeps, SameRefs
<1>. QED BY <1>2, <1>6, <1>7 DEF us

\* 0009 seeds the retrieval tool under its fixed identifier.
LEMMA SeedToolFits ==
    ASSUME NEW ts, NEW r, NEW p, NEW marks, KindFits("tool", ts, r, p, marks)
    PROVE  LET us == [t \in {RetrievalTool} \union DOMAIN ts |->
                        IF t = RetrievalTool THEN SeededTool ELSE ts[t]]
           IN  KindFits("tool", us, r, p, marks) /\ Len(us) \in Nat /\ Len(ts) <= Len(us)
<1>. DEFINE us == [t \in {RetrievalTool} \union DOMAIN ts |->
                        IF t = RetrievalTool THEN SeededTool ELSE ts[t]]
            n == IF Len(ts) = 0 THEN 1 ELSE Len(ts)
<1>1. DOMAIN ts = 1..Len(ts) /\ Len(ts) \in Nat
  BY ListDomain DEF KindFits
<1>2. {RetrievalTool} \union DOMAIN ts = 1..n
  BY <1>1 DEF RetrievalTool
<1>3. us = [i \in 1..n |-> us[i]]
  BY <1>2
<1>4. \A i \in 1..n : us[i] = SeededTool \/ (us[i] = ts[i] /\ i \in 1..Len(ts))
  BY <1>1, <1>2 DEF RetrievalTool
<1>. HIDE DEF us
<1>5. Listed(us) /\ Len(us) = n
  BY <1>1, <1>3, ListMade
<1>6. \A i : Fits("tool", SeededTool, r, p, Marked(marks, "tool", i), Extended(marks, "tool", i))
  BY SeededToolFits, MarksAreBoolean
<1>7. KindFits("tool", us, r, p, marks)
  <2>1. ASSUME NEW i \in 1..n
        PROVE  Fits("tool", us[i], r, p, Marked(marks, "tool", i), Extended(marks, "tool", i))
    <3>1. CASE us[i] = SeededTool
      BY <1>6, <3>1, Zenon
    <3>2. CASE us[i] = ts[i] /\ i \in 1..Len(ts)
      BY <3>2, Zenon DEF KindFits
    <3>. QED BY <1>4, <3>1, <3>2
  <2>. HIDE DEF n
  <2>. QED BY <1>5, <2>1 DEF KindFits
<1>8. Len(us) \in Nat /\ Len(ts) <= Len(us)
  BY <1>1, <1>5
<1>. QED BY <1>7, <1>8 DEF us

-----------------------------------------------------------------------------
(* The kinds that are rewritten template by template *)

CarriesAll(k, ts, us, referring, pinned, marks) ==
    /\ us = [i \in DOMAIN ts |-> us[i]]
    /\ \A i \in 1..Len(ts) :
        Carries(k, ts[i], us[i], referring, pinned, Marked(marks, k, i), Extended(marks, k, i))

(* A rewriting that carries every template carries the kind. *)
LEMMA CarriedKindFits ==
    ASSUME NEW k, NEW ts, NEW us, NEW r, NEW p, NEW marks, NEW r2, NEW p2, NEW marks2,
           KindFits(k, ts, r, p, marks), CarriesAll(k, ts, us, r2, p2, marks2)
    PROVE  /\ KindFits(k, us, r2, p2, marks2) /\ Keeps(ts, us) /\ Len(us) = Len(ts)
           /\ \A i \in 1..Len(us) : us[i].lineage = ts[i].lineage
<1>0. Listed(ts) /\ us = [i \in DOMAIN ts |-> us[i]]
  BY DEF KindFits, CarriesAll
<1>1. Listed(us) /\ Len(us) = Len(ts) /\ Listed(ts)
  BY <1>0, Mapped
<1>2. \A i \in 1..Len(ts) :
        /\ Fits(k, us[i], r2, p2, Marked(marks2, k, i), Extended(marks2, k, i))
        /\ us[i].status = ts[i].status /\ us[i].lineage = ts[i].lineage
        /\ Len(us[i].revs) = Len(ts[i].revs)
  BY DEF CarriesAll, Carries
<1>3. KindFits(k, us, r2, p2, marks2)
  BY <1>1, <1>2 DEF KindFits
<1>4. Keeps(ts, us)
  <2>1. \A i \in 1..Len(ts) : Listed(ts[i].revs)
    BY FitsAreListed
  <2>. QED BY <1>1, <1>2, <2>1, PointwiseKept
<1>. QED BY <1>1, <1>2, <1>3, <1>4

(* 0010 up, on a kind. *)
LEMMA PinnedKindFits ==
    ASSUME NEW d, NEW k \in BundleKinds, NEW r, NEW p, NEW q,
           Off(p), On(q), NEW marks, KindFits(k, d[k], r, p, marks), k \in DOMAIN d
    PROVE  LET us == PinAllowlists(d, k)[k]
           IN  /\ KindFits(k, us, r, q, marks) /\ Keeps(d[k], us) /\ Len(us) = Len(d[k])
               /\ \A i \in 1..Len(us) : us[i].lineage = d[k][i].lineage
<1>. DEFINE ts == d[k]
            us == PinAllowlists(d, k)[k]
<1>1. us = [i \in DOMAIN ts |-> PinnedTemplate(ts[i])]
  BY DEF PinAllowlists, PinnedTemplate
<1>a. KindFits(k, ts, r, p, marks) /\ DOMAIN ts = 1..Len(ts)
  BY ListDomain DEF KindFits
<1>. HIDE DEF us, ts
<1>2. us = [i \in DOMAIN ts |-> us[i]] /\ \A i \in 1..Len(ts) : us[i] = PinnedTemplate(ts[i])
  BY <1>1, <1>a
<1>3. ASSUME NEW t, NEW m, NEW s, Fits(k, t, r, p, m, s)
      PROVE  Carries(k, t, PinnedTemplate(t), r, q, m, s)
  BY <1>3, PinFits
<1>4. \A i \in 1..Len(ts) :
        Carries(k, ts[i], us[i], r, q, Marked(marks, k, i), Extended(marks, k, i))
  <2>. TAKE i \in 1..Len(ts)
  <2>1. Fits(k, ts[i], r, p, Marked(marks, k, i), Extended(marks, k, i))
    BY <1>a DEF KindFits
  <2>2. Carries(k, ts[i], PinnedTemplate(ts[i]), r, q, Marked(marks, k, i), Extended(marks, k, i))
    BY <1>3, <2>1, MarksAreBoolean
  <2>. QED BY <1>2, <2>2
<1>5. /\ KindFits(k, us, r, q, marks) /\ Keeps(ts, us) /\ Len(us) = Len(ts)
      /\ \A i \in 1..Len(us) : us[i].lineage = ts[i].lineage
  <2>1. CarriesAll(k, ts, us, r, q, marks)
    BY <1>2, <1>4 DEF CarriesAll
  <2>2. ASSUME NEW P1, NEW Q1, KindFits(k, ts, r, P1, marks), CarriesAll(k, ts, us, r, Q1, marks)
        PROVE  /\ KindFits(k, us, r, Q1, marks) /\ Keeps(ts, us) /\ Len(us) = Len(ts)
               /\ \A i \in 1..Len(us) : us[i].lineage = ts[i].lineage
    BY <2>2, CarriedKindFits
  <2>. QED BY <1>a, <2>1, <2>2
<1>. QED BY <1>5 DEF us, ts

(* 0010 down, on a kind. *)
LEMMA UnpinnedKindFits ==
    ASSUME NEW d, NEW k \in BundleKinds, NEW r, NEW p, NEW q,
           On(p), Off(q), NEW marks, KindFits(k, d[k], r, p, marks), k \in DOMAIN d
    PROVE  LET us == UnpinAllowlists(d, k)[k]
           IN  /\ KindFits(k, us, r, q, marks) /\ Keeps(d[k], us) /\ Len(us) = Len(d[k])
               /\ \A i \in 1..Len(us) : us[i].lineage = d[k][i].lineage
<1>. DEFINE ts == d[k]
            us == UnpinAllowlists(d, k)[k]
<1>1. us = [i \in DOMAIN ts |-> UnpinnedTemplate(ts[i])]
  BY DEF UnpinAllowlists, UnpinnedTemplate
<1>a. KindFits(k, ts, r, p, marks) /\ DOMAIN ts = 1..Len(ts)
  BY ListDomain DEF KindFits
<1>. HIDE DEF us, ts
<1>2. us = [i \in DOMAIN ts |-> us[i]] /\ \A i \in 1..Len(ts) : us[i] = UnpinnedTemplate(ts[i])
  BY <1>1, <1>a
<1>3. ASSUME NEW t, NEW m, NEW s, Fits(k, t, r, p, m, s)
      PROVE  Carries(k, t, UnpinnedTemplate(t), r, q, m, s)
  BY <1>3, UnpinFits
<1>4. \A i \in 1..Len(ts) :
        Carries(k, ts[i], us[i], r, q, Marked(marks, k, i), Extended(marks, k, i))
  <2>. TAKE i \in 1..Len(ts)
  <2>1. Fits(k, ts[i], r, p, Marked(marks, k, i), Extended(marks, k, i))
    BY <1>a DEF KindFits
  <2>2. Carries(k, ts[i], UnpinnedTemplate(ts[i]), r, q, Marked(marks, k, i), Extended(marks, k, i))
    BY <1>3, <2>1, MarksAreBoolean
  <2>. QED BY <1>2, <2>2
<1>5. /\ KindFits(k, us, r, q, marks) /\ Keeps(ts, us) /\ Len(us) = Len(ts)
      /\ \A i \in 1..Len(us) : us[i].lineage = ts[i].lineage
  <2>1. CarriesAll(k, ts, us, r, q, marks)
    BY <1>2, <1>4 DEF CarriesAll
  <2>2. ASSUME NEW P1, NEW Q1, KindFits(k, ts, r, P1, marks), CarriesAll(k, ts, us, r, Q1, marks)
        PROVE  /\ KindFits(k, us, r, Q1, marks) /\ Keeps(ts, us) /\ Len(us) = Len(ts)
               /\ \A i \in 1..Len(us) : us[i].lineage = ts[i].lineage
    BY <2>2, CarriedKindFits
  <2>. QED BY <1>a, <2>1, <2>2
<1>. QED BY <1>5 DEF us, ts

(* A deleted template fits anywhere. *)
LEMMA EmptyFits ==
    ASSUME NEW k, NEW t, Shaped(t), t.status = "deleted", NEW r, NEW p,
           NEW m, NEW s
    PROVE  Fits(k, t, r, p, m, s)
<1>1. Len(t.revs) = 0
  BY DEF Shaped
<1>2. Bundled(t) /\ OfItsEra(t, p, m) /\ Referring(t, r) /\ Verifies(t) /\ Compared(t)
  BY <1>1 DEF Bundled, OfItsEra, Referring, Verifies, Compared
<1>. QED BY <1>2 DEF Fits

\* More marks excuse more.
LEMMA MarkedFits ==
    ASSUME NEW k, NEW t, NEW r, NEW p, NEW m, NEW s, NEW m2, NEW s2,
           Fits(k, t, r, p, m, s), m => m2, s => s2
    PROVE  Fits(k, t, r, p, m2, s2)
BY DEF Fits, OfItsEra

(* A template left alone. *)
LEMMA SameCarries ==
    ASSUME NEW k, NEW t, NEW r, NEW p, NEW m, NEW s, NEW m2, NEW s2,
           Fits(k, t, r, p, m, s), m => m2, s => s2
    PROVE  Carries(k, t, t, r, p, m2, s2)
BY MarkedFits DEF Carries

(* 0007, on the roles. *)
LEMMA RenamedKindFits ==
    ASSUME NEW d, NEW old, NEW new, NEW r, NEW p, NEW marks, NEW marks2,
           KindFits("role", d["role"], r, p, marks), "role" \in DOMAIN d,
           MarksGrow("role", marks, marks2),
           \A i \in ToRename(d, old) : Len(d["role"][i].revs) > 1 => Marked(marks2, "role", i)
    PROVE  LET us == RenameRole(d, old, new)["role"]
           IN  KindFits("role", us, r, p, marks2) /\ Keeps(d["role"], us)
<1>. DEFINE ts == d["role"]
            us == RenameRole(d, old, new)["role"]
            ids == ToRename(d, old)
            k == "role"
<1>1. us = [i \in DOMAIN ts |-> IF i \in ids THEN Renamed(ts[i], new) ELSE ts[i]]
  BY DEF RenameRole
<1>2. KindFits(k, ts, r, p, marks) /\ DOMAIN ts = 1..Len(ts)
  BY ListDomain DEF KindFits
<1>3. \A i \in ids : ts[i].status # "deleted" /\ (Len(ts[i].revs) > 1 => Marked(marks2, k, i))
  BY DEF ToRename, NamedIn, LiveIn, IdsUpTo
<1>4. MarksGrow(k, marks, marks2)
  OBVIOUS
<1>5. ASSUME NEW t, NEW m, NEW s, NEW m2, NEW s2,
             Fits(k, t, r, p, m, s), t.status # "deleted", m => m2, s => s2, Len(t.revs) > 1 => m2
      PROVE  Carries(k, t, Renamed(t, new), r, p, m2, s2)
  <2>1. Fits(k, t, r, p, m, s2)
    BY <1>5, FitsOn
  <2>. QED BY <1>5, <2>1, RenamedFits DEF Carries
<1>. HIDE DEF us, ts, ids, k
<1>6. us = [i \in DOMAIN ts |-> us[i]]
      /\ \A i \in 1..Len(ts) : us[i] = IF i \in ids THEN Renamed(ts[i], new) ELSE ts[i]
  BY <1>1, <1>2
<1>7. ASSUME NEW i \in 1..Len(ts)
      PROVE  Carries(k, ts[i], us[i], r, p, Marked(marks2, k, i), Extended(marks2, k, i))
  <2>1. Fits(k, ts[i], r, p, Marked(marks, k, i), Extended(marks, k, i))
    BY <1>2 DEF KindFits
  <2>2. /\ Marked(marks, k, i) => Marked(marks2, k, i)
        /\ Extended(marks, k, i) => Extended(marks2, k, i)
    BY <1>4 DEF MarksGrow
  <2>3. CASE i \in ids
    <3>1. Carries(k, ts[i], Renamed(ts[i], new), r, p, Marked(marks2, k, i), Extended(marks2, k, i))
      BY <1>3, <1>5, <2>1, <2>2, <2>3, MarksAreBoolean
    <3>. QED BY <1>6, <2>3, <3>1
  <2>4. CASE i \notin ids
    <3>1. Carries(k, ts[i], ts[i], r, p, Marked(marks2, k, i), Extended(marks2, k, i))
      BY <2>1, <2>2, SameCarries, MarksAreBoolean
    <3>. QED BY <1>6, <2>4, <3>1
  <2>. QED BY <2>3, <2>4
<1>8. CarriesAll(k, ts, us, r, p, marks2)
  BY <1>6, <1>7 DEF CarriesAll
<1>9. KindFits(k, us, r, p, marks2) /\ Keeps(ts, us)
  BY <1>2, <1>8, CarriedKindFits
<1>. QED BY <1>9 DEF us, ts, k

(* 0012, on one role. *)
LEMMA ClosureCarries ==
    ASSUME NEW t, NEW r, NEW p, On(p), NEW m, NEW s,
           NEW m2, NEW s2, NEW skipped, NEW allowlists,
           Fits("role", t, r, p, m, s), m => m2, s => s2, skipped \subseteq DOMAIN t.revs,
           SkipsAfterRewrite(t, skipped) => m2,
           \A v \in 1..Len(t.revs) : \A e \in allowlists[v] : ~IsName(e)
    PROVE  Carries("role", t, ClosedTemplate(t, skipped, allowlists), r, p, m2, s2)
<1>1. Fits("role", t, r, p, m, s2)
  BY MarkedFits
<1>. QED BY <1>1, ClosureFits

\* 0012 either way: the roles of some names, each walked with its rows to skip.
LEMMA ClosedKindFits ==
    ASSUME NEW ts, NEW us, NEW ids, NEW rows, NEW lists,
           us = [i \in DOMAIN ts |->
                    IF i \in ids THEN ClosedTemplate(ts[i], rows[i], lists[i]) ELSE ts[i]],
           NEW r, NEW p, On(p), NEW marks, NEW marks2,
           KindFits("role", ts, r, p, marks), MarksGrow("role", marks, marks2),
           \A i \in 1..Len(ts) : rows[i] \subseteq DOMAIN ts[i].revs,
           \A i \in 1..Len(ts) : \A v \in 1..Len(ts[i].revs) : \A e \in lists[i][v] : ~IsName(e),
           \A i \in ids : SkipsAfterRewrite(ts[i], rows[i]) => Marked(marks2, "role", i)
    PROVE  KindFits("role", us, r, p, marks2) /\ Keeps(ts, us)
<1>. DEFINE k == "role"
<1>2. KindFits(k, ts, r, p, marks) /\ DOMAIN ts = 1..Len(ts)
  BY ListDomain DEF KindFits
<1>3. \A i \in ids : SkipsAfterRewrite(ts[i], rows[i]) => Marked(marks2, k, i)
  OBVIOUS
<1>4. MarksGrow(k, marks, marks2)
  OBVIOUS
<1>5. ASSUME NEW t, NEW m, NEW s, NEW m2, NEW s2,
             NEW skipped, NEW allowlists,
             Fits(k, t, r, p, m, s), m => m2, s => s2, skipped \subseteq DOMAIN t.revs,
             SkipsAfterRewrite(t, skipped) => m2,
             \A v \in 1..Len(t.revs) : \A e \in allowlists[v] : ~IsName(e)
      PROVE  Carries(k, t, ClosedTemplate(t, skipped, allowlists), r, p, m2, s2)
  BY <1>5, ClosureCarries
<1>. HIDE DEF k
<1>6. us = [i \in DOMAIN ts |-> us[i]]
      /\ \A i \in 1..Len(ts) :
           us[i] = IF i \in ids THEN ClosedTemplate(ts[i], rows[i], lists[i]) ELSE ts[i]
  BY <1>2
<1>7. ASSUME NEW i \in 1..Len(ts)
      PROVE  Carries(k, ts[i], us[i], r, p, Marked(marks2, k, i), Extended(marks2, k, i))
  <2>1. Fits(k, ts[i], r, p, Marked(marks, k, i), Extended(marks, k, i))
    BY <1>2 DEF KindFits
  <2>2. /\ Marked(marks, k, i) => Marked(marks2, k, i)
        /\ Extended(marks, k, i) => Extended(marks2, k, i)
    BY <1>4 DEF MarksGrow
  <2>3. CASE i \in ids
    <3>1. Carries(k, ts[i], ClosedTemplate(ts[i], rows[i], lists[i]), r, p,
                  Marked(marks2, k, i), Extended(marks2, k, i))
      <4>1. SkipsAfterRewrite(ts[i], rows[i]) => Marked(marks2, k, i)
        BY <1>3, <2>3
      <4>. QED BY <1>5, <2>1, <2>2, <4>1, MarksAreBoolean
    <3>. QED BY <1>6, <2>3, <3>1
  <2>4. CASE i \notin ids
    <3>1. Carries(k, ts[i], ts[i], r, p, Marked(marks2, k, i), Extended(marks2, k, i))
      BY <2>1, <2>2, SameCarries, MarksAreBoolean
    <3>. QED BY <1>6, <2>4, <3>1
  <2>. QED BY <2>3, <2>4
<1>8. CarriesAll(k, ts, us, r, p, marks2)
  BY <1>6, <1>7 DEF CarriesAll
<1>9. KindFits(k, us, r, p, marks2) /\ Keeps(ts, us)
  BY <1>2, <1>8, CarriedKindFits
<1>. QED BY <1>9 DEF k

(* 0006: one role per methodology *)

\* The live templates of a kind, numbered in order.
LEMMA Ordinals ==
    ASSUME NEW d, NEW k, Len(d[k]) \in Nat
    PROVE  LET live == LiveIn(d, k)
           IN  /\ Cardinality(live) \in Nat
               /\ \A m \in live : Ordinal(d, k, m) \in 1..Cardinality(live)
               /\ \A i \in 1..Cardinality(live) : \E m \in live : Ordinal(d, k, m) = i
<1>. DEFINE n == Len(d[k])
            Upto(m) == IdsUpTo(d, k, m)
            card(m) == Cardinality(Upto(m))
            live == LiveIn(d, k)
<1>1. \A m \in 0..n : Upto(m) \subseteq 1..n
  BY DEF IdsUpTo
<1>2. \A m \in 0..n : IsFiniteSet(Upto(m)) /\ card(m) \in Nat
  <2>1. IsFiniteSet(1..n)
    BY FS_Interval
  <2>. HIDE DEF Upto
  <2>. QED BY <1>1, <2>1, FS_Subset, FS_CardinalityType
<1>3. Upto(0) = {} /\ live = Upto(n)
  BY DEF IdsUpTo, LiveIn
<1>4. ASSUME NEW m \in 1..n
      PROVE  Upto(m) = IF m \in live THEN Upto(m - 1) \union {m} ELSE Upto(m - 1)
  BY DEF IdsUpTo, LiveIn
<1>5. \A m \in 1..n : m \notin Upto(m - 1)
  BY DEF IdsUpTo
<1>6. \A m \in live : m \in 1..n /\ m \in Upto(m) /\ Upto(m) \subseteq live
  BY DEF IdsUpTo, LiveIn
<1>7. \A m : Ordinal(d, k, m) = card(m)
  BY DEF Ordinal
<1>. HIDE DEF Upto, live, n
<1>8. card(0) = 0 /\ card(n) = Cardinality(live)
  BY <1>3, FS_EmptySet
<1>a. n \in Nat
  BY DEF n
<1>9. ASSUME NEW m \in 1..n
      PROVE  card(m) = IF m \in live THEN card(m - 1) + 1 ELSE card(m - 1)
  <2>1. m - 1 \in 0..n
    BY <1>a
  <2>2. IsFiniteSet(Upto(m - 1)) /\ m \notin Upto(m - 1)
    BY <1>2, <1>5, <2>1
  <2>3. CASE m \in live
    <3>1. Cardinality(Upto(m - 1) \union {m}) = Cardinality(Upto(m - 1)) + 1
      BY <2>2, FS_AddElement
    <3>. QED BY <1>4, <2>3, <3>1
  <2>4. CASE m \notin live
    BY <1>4, <2>4
  <2>. QED BY <2>3, <2>4
<1>10. IsFiniteSet(live) /\ Cardinality(live) \in Nat
  <2>1. n \in 0..n
    BY <1>a
  <2>. QED BY <1>2, <1>3, <2>1
<1>11. ASSUME NEW m \in live PROVE card(m) \in 1..Cardinality(live)
  <2>1. m \in 1..n /\ m \in 0..n /\ m - 1 \in 0..n
    BY <1>6, <1>a
  <2>2. card(m) <= Cardinality(live)
    BY <1>6, <1>10, FS_Subset
  <2>3. card(m) = card(m - 1) + 1
    BY <1>9, <2>1
  <2>. HIDE DEF card
  <2>4. card(m - 1) \in Nat /\ card(m) \in Nat
    BY <1>2, <2>1
  <2>. QED BY <1>10, <2>2, <2>3, <2>4
<1>. HIDE DEF card
<1>12. ASSUME NEW i \in 1..Cardinality(live) PROVE \E m \in live : card(m) = i
  <2>. DEFINE S == {m \in 0..n : card(m) >= i}
  <2>1. S \in SUBSET Nat /\ S # {}
    <3>1. n \in S
      BY <1>8, <1>10, <1>a
    <3>. QED BY <3>1, <1>a
  <2>2. PICK m \in S : \A j \in S : m <= j
    <3>. HIDE DEF S
    <3>. QED BY <2>1, LeastNatural
  <2>3. m \in 0..n /\ card(m) >= i /\ card(m) \in Nat
    BY <2>2, <1>2
  <2>4. m # 0
    BY <1>8, <1>10, <2>3
  <2>5. m \in 1..n /\ m - 1 \in 0..n /\ ~(m <= m - 1)
    BY <1>a, <2>3, <2>4
  <2>6. m - 1 \notin S
    BY <2>2, <2>5
  <2>7. card(m - 1) \in Nat /\ ~(card(m - 1) >= i)
    BY <1>2, <2>5, <2>6
  <2>8. m \in live /\ card(m) = i
    BY <1>9, <1>10, <2>3, <2>5, <2>7
  <2>. QED BY <2>8
<1>. QED BY <1>7, <1>10, <1>11, <1>12 DEF live

(* 0006, on the roles and methodologies: every reference is to a role it made. *)
LEMMA AutoRolesFit ==
    ASSUME NEW d, DOMAIN d = Kinds, NEW r, NEW r2, NEW p, Off(r), On(r2), Off(p), NEW marks, NEW marks2,
           KindFits("role", d["role"], r, p, marks), MarksGrow("role", marks, marks2),
           KindFits("methodology", d["methodology"], r, p, marks)
    PROVE  LET e == Up0006(d)
           IN  /\ KindFits("role", e["role"], r2, p, marks2)
               /\ KindFits("methodology", e["methodology"], r2, p, marks2)
               /\ Keeps(d["role"], e["role"]) /\ Keeps(d["methodology"], e["methodology"])
               /\ \A m \in 1..Len(e["methodology"]) : e["methodology"][m].status # "deleted" =>
                    \A v \in 1..Len(e["methodology"][m].revs) :
                      Rooted(e["role"], RefPin(e["methodology"][m].revs[v].body.role_refs[1]))
<1>. DEFINE roles == d["role"]
            ms == d["methodology"]
            live == LiveIn(d, "methodology")
            role(m) == Len(roles) + Ordinal(d, "methodology", m)
            of(i) == CHOOSE m \in live : role(m) = i
            n == Len(roles) + Cardinality(live)
            roles2 == [i \in 1..n |-> IF i <= Len(roles) THEN roles[i] ELSE AutoRole(ms[of(i)])]
            ms2 == [m \in DOMAIN ms |-> IF m \in live THEN WithRoleRef(ms[m], role(m)) ELSE ms[m]]
            k == "methodology"
<1>1. Up0006(d)["role"] = roles2 /\ Up0006(d)["methodology"] = ms2
  BY DEF Up0006, Kinds
<1>2. /\ Len(roles) \in Nat /\ Len(ms) \in Nat /\ DOMAIN ms = 1..Len(ms)
      /\ KindFits("role", roles, r, p, marks) /\ KindFits(k, ms, r, p, marks)
  BY ListDomain DEF KindFits
<1>3. /\ Cardinality(live) \in Nat
      /\ \A m \in live : Ordinal(d, k, m) \in 1..Cardinality(live)
      /\ \A i \in 1..Cardinality(live) : \E m \in live : Ordinal(d, k, m) = i
  BY <1>2, Ordinals
<1>4. n \in Nat /\ Len(roles) <= n /\ \A m \in live : role(m) \in Len(roles) + 1..n
  BY <1>2, <1>3
<1>5. ASSUME NEW i \in Len(roles) + 1..n PROVE of(i) \in live
  <2>1. i - Len(roles) \in 1..Cardinality(live)
    BY <1>2, <1>3
  <2>2. PICK m \in live : Ordinal(d, k, m) = i - Len(roles)
    BY <1>3, <2>1
  <2>3. role(m) = i
    BY <1>2, <2>2
  <2>. QED BY <2>3
<1>6. \A m \in live : m \in 1..Len(ms) /\ ms[m].status # "deleted"
  BY DEF LiveIn, IdsUpTo
<1>7. \A m \in 1..Len(ms) : ms[m].status # "deleted" => m \in live
  BY DEF LiveIn, IdsUpTo
<1>8. ASSUME NEW i \in Len(roles) + 1..n, NEW m, NEW s
      PROVE  /\ Fits("role", roles2[i], r2, p, m, s)
             /\ roles2[i].status = "active" /\ Len(roles2[i].revs) = 1
  <2>. DEFINE t == ms[of(i)]
  <2>1. i \in 1..n /\ ~(i <= Len(roles))
    BY <1>2, <1>4
  <2>2. roles2[i] = AutoRole(t)
    BY <2>1
  <2>. HIDE DEF of
  <2>3. BundleShaped(t.revs[1].body)
    <3>1. of(i) \in 1..Len(ms) /\ t.status # "deleted"
      BY <1>5, <1>6
    <3>. HIDE DEF t
    <3>2. Shaped(t) /\ Referring(t, r)
      BY <1>2, <3>1 DEF KindFits, Fits, t
    <3>3. Len(t.revs) > 0
      BY <3>1, <3>2, ListDomain DEF Shaped
    <3>. QED BY <3>2, <3>3 DEF Referring, Off
  <2>. HIDE DEF t, roles2
  <2>4. Fits("role", AutoRole(t), r2, p, m, s)
    BY <2>3, AutoRoleFits
  <2>5. AutoRole(t).status = "active" /\ Len(AutoRole(t).revs) = 1
    BY NewTemplateFields DEF AutoRole
  <2>. QED BY <2>2, <2>4, <2>5
<1>9. \A i \in 1..Len(roles) : i \in 1..n /\ roles2[i] = roles[i]
  BY <1>2, <1>4
<1>10. Listed(roles2) /\ Len(roles2) = n
  <2>1. roles2 = [i \in 1..n |-> roles2[i]]
    OBVIOUS
  <2>. HIDE DEF roles2
  <2>. QED BY <1>4, <2>1, ListMade
<1>11. \A i \in 1..n : i \in 1..Len(roles) \/ i \in Len(roles) + 1..n
  BY <1>2, <1>4
<1>12. ms2 = [m \in DOMAIN ms |-> ms2[m]]
       /\ \A m \in 1..Len(ms) : ms2[m] = IF m \in live THEN WithRoleRef(ms[m], role(m)) ELSE ms[m]
  BY <1>2
<1>. HIDE DEF roles2, ms2, live, n, role
<1>13. KindFits("role", roles2, r2, p, marks2)
  <2>1. KindFits("role", roles, r2, p, marks2)
    BY <1>2, KindFitsOn DEF BundleKinds
  <2>. QED BY <1>8, <1>9, <1>10, <1>11, <2>1 DEF KindFits
<1>14. Keeps(roles, roles2)
  <2>1. Keeps(roles, roles)
    BY <1>2, KindKept
  <2>. QED BY <1>2, <1>4, <1>9, <1>10, <2>1 DEF Keeps
<1>15. ASSUME NEW m \in 1..Len(ms), m \in live, NEW mm, NEW s
       PROVE  /\ Carries(k, ms[m], ms2[m], r2, p, mm, s)
              /\ \A v \in 1..Len(ms2[m].revs) : ms2[m].revs[v].body.role_refs[1] = RoleRef(role(m), 1, <<>>)
  <2>1. ms2[m] = WithRoleRef(ms[m], role(m))
    BY <1>12, <1>15
  <2>2. Shaped(ms[m])
    BY <1>2 DEF KindFits, Fits
  <2>. QED BY <2>1, <2>2, WithRoleRefFits DEF Carries
<1>16. ASSUME NEW m \in 1..Len(ms), m \notin live, NEW mm, NEW s
       PROVE  Carries(k, ms[m], ms2[m], r2, p, mm, s) /\ ms2[m].status = "deleted"
  <2>1. ms2[m] = ms[m] /\ ms[m].status = "deleted"
    BY <1>7, <1>12, <1>16
  <2>2. Shaped(ms[m])
    BY <1>2 DEF KindFits, Fits
  <2>. QED BY <2>1, <2>2, EmptyFits DEF Carries
<1>17. CarriesAll(k, ms, ms2, r2, p, marks2)
  BY <1>12, <1>15, <1>16 DEF CarriesAll
<1>18. KindFits(k, ms2, r2, p, marks2) /\ Keeps(ms, ms2) /\ Len(ms2) = Len(ms)
  BY <1>2, <1>17, CarriedKindFits
<1>19. ASSUME NEW m \in 1..Len(ms2), ms2[m].status # "deleted", NEW v \in 1..Len(ms2[m].revs)
       PROVE  Rooted(roles2, RefPin(ms2[m].revs[v].body.role_refs[1]))
  <2>1. m \in 1..Len(ms) /\ m \in live
    BY <1>16, <1>18, <1>19
  <2>2. ms2[m].revs[v].body.role_refs[1] = RoleRef(role(m), 1, <<>>)
    BY <1>15, <1>19, <2>1
  <2>3. RefPin(RoleRef(role(m), 1, <<>>)) = Pin(role(m), 1)
    BY DEF RefPin, RoleRef
  <2>4. Pin(role(m), 1).id = role(m) /\ Pin(role(m), 1).version = 1
    BY DEF Pin
  <2>5. role(m) \in Len(roles) + 1..n /\ Len(roles2) = n /\ role(m) \in 1..n
    BY <1>2, <1>4, <1>10, <2>1
  <2>6. Len(roles2[role(m)].revs) = 1
    BY <1>8, <2>5
  <2>7. Rooted(roles2, Pin(role(m), 1))
    <3>. DEFINE pin == Pin(role(m), 1)
    <3>1. pin.id \in 1..Len(roles2) /\ pin.version \in 1..Len(roles2[pin.id].revs)
      <4>1. pin.id = role(m) /\ pin.version = 1
        BY <2>4
      <4>2. 1 \in 1..1
        OBVIOUS
      <4>. HIDE DEF pin
      <4>. QED BY <2>5, <2>6, <4>1, <4>2
    <3>. HIDE DEF pin
    <3>2. Rooted(roles2, pin)
      BY <3>1 DEF Rooted
    <3>. QED BY <3>2 DEF pin
  <2>. QED BY <2>2, <2>3, <2>7
<1>. QED BY <1>1, <1>13, <1>14, <1>18, <1>19 DEF k

(* 0006 undone *)

(* 0006, downgraded, on the methodologies. *)
LEMMA RestoredFits ==
    ASSUME NEW d, DOMAIN d = Kinds, NEW r, NEW r2, NEW p, Off(r2), NEW marks, NEW marks2,
           KindFits("role", d["role"], r, p, marks),
           KindFits("methodology", d["methodology"], r, p, marks), CanDown0006(d),
           \A m \in LiveIn(d, "methodology") : Marked(marks2, "methodology", m)
    PROVE  LET ns == Down0006(d)["methodology"]
           IN  KindFits("methodology", ns, r2, p, marks2) /\ Keeps(d["methodology"], ns)
<1>. DEFINE roles == d["role"]
            ms == d["methodology"]
            ns == Down0006(d)["methodology"]
            k == "methodology"
<1>1. ns = [m \in DOMAIN ms |-> WithBundle(d, ms[m])]
  BY DEF Down0006, Kinds
<1>2. KindFits(k, ms, r, p, marks) /\ DOMAIN ms = 1..Len(ms)
  BY ListDomain DEF KindFits
<1>3. ASSUME NEW m \in 1..Len(ms), NEW s
      PROVE  Carries(k, ms[m], WithBundle(d, ms[m]), r2, p, Marked(marks2, k, m), s)
  <2>. DEFINE t == ms[m]
  <2>1. Shaped(t)
    BY <1>2 DEF KindFits, Fits
  <2>2. ASSUME Len(t.revs) > 0
        PROVE  Marked(marks2, k, m) /\ BundleShaped(RestoredBody(d, t.revs[1].body))
    <3>1. DOMAIN t.revs = 1..Len(t.revs) /\ Len(t.revs) \in Nat
      BY <2>1, ListDomain DEF Shaped
    <3>2. t.status # "deleted" /\ 1 \in DOMAIN t.revs
      BY <2>1, <2>2, <3>1 DEF Shaped
    <3>3. m \in LiveIn(d, k)
      BY <3>2 DEF LiveIn, IdsUpTo
    <3>4. <<m, 1>> \in RowIds(d, k)
      BY <3>2, <3>3 DEF RowIds
    <3>. DEFINE ref == t.revs[1].body.role_refs[1]
    <3>5. ref.role \in LiveIn(d, "role") /\ ref.version \in DOMAIN roles[ref.role].revs
      BY <3>4 DEF CanDown0006
    <3>6. ref.role \in 1..Len(roles)
      BY <3>5 DEF LiveIn, IdsUpTo
    <3>. DEFINE u == roles[ref.role]
    <3>7. Shaped(u) /\ Bundled(u)
      BY <3>6 DEF KindFits, Fits, BundleKinds
    <3>8. DOMAIN u.revs = 1..Len(u.revs)
      BY <3>7, ListDomain DEF Shaped
    <3>9. BundleShaped(u.revs[ref.version].body)
      BY <3>5, <3>7, <3>8 DEF Bundled
    <3>10. RestoredBody(d, t.revs[1].body) = u.revs[ref.version].body
      BY DEF RestoredBody
    <3>. QED BY <3>3, <3>9, <3>10
  <2>. HIDE DEF t
  <2>3. Carries(k, t, WithBundle(d, t), r2, p, Marked(marks2, k, m), s)
    BY <2>1, <2>2, WithBundleFits DEF Carries
  <2>. QED BY <2>3 DEF t
<1>. HIDE DEF ns, ms, k
<1>4. ns = [m \in DOMAIN ms |-> ns[m]] /\ \A m \in 1..Len(ms) : ns[m] = WithBundle(d, ms[m])
  BY <1>1, <1>2
<1>5. CarriesAll(k, ms, ns, r2, p, marks2)
  BY <1>3, <1>4 DEF CarriesAll
<1>6. KindFits(k, ns, r2, p, marks2) /\ Keeps(ms, ns)
  BY <1>2, <1>5, CarriedKindFits
<1>. QED BY <1>6 DEF ns, ms, k

-----------------------------------------------------------------------------
(* The lineage of agents *)

(* The lineage of an agent that gets another role. *)
LEMMA WithRoleLineage ==
    ASSUME NEW t, NEW pin, Shaped(t)
    PROVE  /\ WithRole(t, pin).lineage.role = pin
           /\ WithRole(t, pin).lineage.methodology = t.lineage.methodology
BY DEF WithRole, Shaped, TemplateFields, LineageFields

(* Agents that get another role fit. *)
LEMMA RelinedKindFits ==
    ASSUME NEW k, NEW ts, NEW us, NEW r, NEW p, NEW marks, KindFits(k, ts, r, p, marks),
           us = [i \in DOMAIN ts |-> us[i]],
           \A i \in 1..Len(ts) : us[i] = ts[i] \/ \E pin : us[i] = WithRole(ts[i], pin)
    PROVE  KindFits(k, us, r, p, marks) /\ Len(us) = Len(ts)
<1>0. Listed(ts)
  BY DEF KindFits
<1>1. Listed(us) /\ Len(us) = Len(ts)
  BY <1>0, Mapped
<1>2. ASSUME NEW i \in 1..Len(ts)
      PROVE  Fits(k, us[i], r, p, Marked(marks, k, i), Extended(marks, k, i))
  <2>1. Fits(k, ts[i], r, p, Marked(marks, k, i), Extended(marks, k, i))
    BY DEF KindFits
  <2>2. CASE us[i] = ts[i]
    BY <2>1, <2>2
  <2>3. CASE \E pin : us[i] = WithRole(ts[i], pin)
    BY <2>1, <2>3, WithRoleFits
  <2>. QED BY <2>2, <2>3
<1>. QED BY <1>1, <1>2 DEF KindFits

(* The tenants' 0009: the roles come from the methodologies' references. *)
LEMMA BackfilledFits ==
    ASSUME NEW d, DOMAIN d = Kinds, NEW r, On(r), NEW p, NEW marks,
           KindFits("agent", d["agent"], r, p, marks),
           \A a \in 1..Len(d["agent"]) :
             RootedLineage(d["role"], d["methodology"], r, d["agent"][a].lineage)
    PROVE  LET us == BackfillRoleLineage(d)["agent"]
           IN  /\ KindFits("agent", us, r, p, marks) /\ Len(us) = Len(d["agent"])
               /\ \A a \in 1..Len(us) : RootedLineage(d["role"], d["methodology"], r, us[a].lineage)
<1>. DEFINE ts == d["agent"]
            us == BackfillRoleLineage(d)["agent"]
            Lines(t) == RootedLineage(d["role"], d["methodology"], r, t.lineage)
<1>1. us = [a \in DOMAIN ts |-> Backfilled(d, ts[a])]
  BY DEF BackfillRoleLineage, Kinds
<1>2. DOMAIN ts = 1..Len(ts) /\ KindFits("agent", ts, r, p, marks)
  BY ListDomain DEF KindFits
<1>3. \A a \in 1..Len(ts) : Lines(ts[a])
  OBVIOUS
<1>. HIDE DEF us, ts
<1>4. us = [a \in DOMAIN ts |-> us[a]] /\ \A a \in 1..Len(ts) : us[a] = Backfilled(d, ts[a])
  BY <1>1, <1>2
<1>5. \A t : Backfilled(d, t) = t \/ \E pin : Backfilled(d, t) = WithRole(t, pin)
  BY DEF Backfilled
<1>6. KindFits("agent", us, r, p, marks) /\ Len(us) = Len(ts)
  BY <1>2, <1>4, <1>5, RelinedKindFits
<1>7. ASSUME NEW a \in 1..Len(ts) PROVE Lines(us[a])
  <2>. DEFINE t == ts[a]
              m == t.lineage.methodology
              ref == d["methodology"][m.id].revs[m.version].body.role_refs[1]
              there == /\ m # NoPin /\ m.id \in LiveIn(d, "methodology")
                       /\ m.version \in DOMAIN d["methodology"][m.id].revs
              u == WithRole(t, Pin(ref.role, ref.version))
  <2>1. us[a] = IF there THEN u ELSE t
    BY <1>4 DEF Backfilled
  <2>2. CASE ~there
    <3>. HIDE DEF there
    <3>. QED BY <1>3, <2>1, <2>2
  <2>3. CASE there
    <3>1. /\ u.lineage.role = Pin(ref.role, ref.version)
          /\ u.lineage.methodology = m
      <4>1. Shaped(t)
        BY <1>2, FitsAreListed
      <4>. HIDE DEF t, ref
      <4>. QED BY <4>1, WithRoleLineage
    <3>2. d["methodology"][m.id].status # "deleted"
      BY <2>3 DEF LiveIn, IdsUpTo
    <3>3. m # NoPin /\ Lines(t)
      BY <1>3, <2>3
    <3>4. Rooted(d["methodology"], m) /\ Rooted(d["role"], RefPin(FirstRef(d["methodology"], m)))
      BY <3>2, <3>3 DEF RootedLineage, On
    <3>5. RefPin(FirstRef(d["methodology"], m)) = Pin(ref.role, ref.version)
      BY DEF RefPin, FirstRef
    <3>. HIDE DEF u, m, ref
    <3>6. Lines(u)
      BY <3>1, <3>4, <3>5 DEF RootedLineage
    <3>7. us[a] = u
      <4>. HIDE DEF there
      <4>. QED BY <2>1, <2>3
    <3>. QED BY <3>6, <3>7
  <2>. QED BY <2>2, <2>3
<1>8. \A a \in 1..Len(us) : Lines(us[a])
  BY <1>6, <1>7
<1>. QED BY <1>6, <1>8 DEF us, ts

(* The tenants' 0009, downgraded. *)
LEMMA DroppedLineageFits ==
    ASSUME NEW d, DOMAIN d = Kinds, NEW r, NEW p, NEW marks,
           KindFits("agent", d["agent"], r, p, marks),
           \A a \in 1..Len(d["agent"]) :
             RootedLineage(d["role"], d["methodology"], r, d["agent"][a].lineage)
    PROVE  LET us == DropRoleLineage(d)["agent"]
           IN  /\ KindFits("agent", us, r, p, marks) /\ Len(us) = Len(d["agent"])
               /\ \A a \in 1..Len(us) : RootedLineage(d["role"], d["methodology"], r, us[a].lineage)
<1>. DEFINE ts == d["agent"]
            us == DropRoleLineage(d)["agent"]
            Lines(t) == RootedLineage(d["role"], d["methodology"], r, t.lineage)
<1>1. us = [a \in DOMAIN ts |-> WithRole(ts[a], NoPin)]
  BY DEF DropRoleLineage, Kinds
<1>2. DOMAIN ts = 1..Len(ts) /\ KindFits("agent", ts, r, p, marks)
  BY ListDomain DEF KindFits
<1>3. \A a \in 1..Len(ts) : Lines(ts[a])
  OBVIOUS
<1>. HIDE DEF us, ts
<1>4. us = [a \in DOMAIN ts |-> us[a]] /\ \A a \in 1..Len(ts) : us[a] = WithRole(ts[a], NoPin)
  BY <1>1, <1>2
<1>5. KindFits("agent", us, r, p, marks) /\ Len(us) = Len(ts)
  BY <1>2, <1>4, RelinedKindFits
<1>6. ASSUME NEW a \in 1..Len(ts) PROVE Lines(us[a])
  <2>1. Shaped(ts[a])
    BY <1>2, FitsAreListed
  <2>2. us[a].lineage.role = NoPin /\ us[a].lineage.methodology = ts[a].lineage.methodology
    <3>1. us[a] = WithRole(ts[a], NoPin)
      BY <1>4
    <3>. QED BY <2>1, <3>1, WithRoleLineage
  <2>3. Lines(ts[a])
    BY <1>3
  <2>. QED BY <2>2, <2>3 DEF RootedLineage
<1>7. \A a \in 1..Len(us) : Lines(us[a])
  BY <1>5, <1>6
<1>. QED BY <1>5, <1>7 DEF us, ts

(* The whole catalogue *)

CatalogueFits(d, referring, rolesPinned, agentsPinned, marks) ==
    /\ DOMAIN d = Kinds
    /\ KindFits("role", d["role"], referring, rolesPinned, marks)
    /\ KindFits("methodology", d["methodology"], referring, rolesPinned, marks)
    /\ KindFits("tool", d["tool"], referring, rolesPinned, marks)
    /\ KindFits("agent", d["agent"], referring, agentsPinned, marks)

LineageIn(d, referring, l) == RootedLineage(d["role"], d["methodology"], referring, l)
Lineages(d, referring) ==
    \A a \in 1..Len(d["agent"]) : LineageIn(d, referring, d["agent"][a].lineage)

(* What a call holds *)

RowFits(k, row) ==
    /\ RowFields \subseteq DOMAIN row
    /\ k \in BundleKinds => BundleShaped(row.body) /\ ~HasNames(row.body)
    /\ k = "methodology" => RefsShaped(row.body.role_refs)

CloneFits(d, referring, c) ==
    /\ c.kind = "agent" /\ {"name", "lineage"} \subseteq DOMAIN c
    /\ LineageFields \subseteq DOMAIN c.lineage
    /\ c.row.prev = GENESIS /\ c.row.hash = Hash(GENESIS, c.name, c.row.body)
    /\ LineageIn(d, referring, c.lineage)

\* The row succeeds the one before it, unless a migration has come between.
Succeeds(t, c) ==
    /\ t.status # "deleted" /\ c.version - 1 \in 1..Len(t.revs)
    /\ c.row.prev = t.revs[c.version - 1].hash
    /\ c.row.hash = Hash(c.row.prev, t.name, c.row.body)
    /\ c.kind = "tool" =>
         c.row.bc = CheckRevisionCompatibility(t.revs[c.version - 1].body, c.row.body)

UpdateFits(d, c) ==
    /\ c.version \in Nat /\ c.version > 1 /\ c.id \in 1..Len(d[c.kind])
    /\ ~c.straddled => Succeeds(d[c.kind][c.id], c)

CallFields == {"kind", "id", "version", "straddled", "row"}

CallFits(d, referring, rolesPinned, agentsPinned, c) ==
    \/ c = NoCall
    \/ /\ c.kind \in Kinds /\ CallFields \subseteq DOMAIN c
       /\ RowFits(c.kind, c.row)
       /\ c.version = 1 => CloneFits(d, referring, c)
       /\ c.version # 1 => UpdateFits(d, c)
       /\ ~c.straddled => rolesPinned /\ (c.kind = "agent" => agentsPinned)

-----------------------------------------------------------------------------
(* The inductive invariant *)

HasRefs == schema >= 6
TenantPins == tenant = 10

IInv ==
    /\ schema \in 5..13 /\ tenant \in 8..10
    /\ CatalogueFits(db, HasRefs, Serving, TenantPins, disturbed)
    /\ Lineages(db, HasRefs)
    /\ call = [o \in Operators |-> call[o]]
    /\ \A o \in Operators : CallFits(db, HasRefs, Serving, TenantPins, call[o])

-----------------------------------------------------------------------------
(* What a migration leaves *)

Migrates(d, e, r, r2) ==
    /\ \A k \in Kinds : Len(d[k]) \in Nat /\ Len(e[k]) \in Nat /\ Len(d[k]) <= Len(e[k])
    /\ \A l : LineageIn(d, r, l) => LineageIn(e, r2, l)
    /\ Lineages(e, r2)

(* The templates of a kind are a finite sequence. *)
LEMMA KindsListed ==
    ASSUME NEW d, NEW r, NEW pr, NEW pa, NEW marks, CatalogueFits(d, r, pr, pa, marks), NEW k \in Kinds
    PROVE  Listed(d[k]) /\ Len(d[k]) \in Nat /\ DOMAIN d[k] = 1..Len(d[k])
<1>1. Listed(d[k])
  BY DEF CatalogueFits, KindFits, Kinds
<1>. QED BY <1>1, ListDomain

(* A lineage stays rooted in a catalogue that keeps its roles and methodologies. *)
LEMMA LineageInKept ==
    ASSUME NEW d, NEW e, NEW r, NEW r2, Keeps(d["role"], e["role"]),
           Keeps(d["methodology"], e["methodology"]),
           r2 => r /\ SameRefs(d["methodology"], e["methodology"]),
           NEW l, LineageIn(d, r, l)
    PROVE  LineageIn(e, r2, l)
BY LineageKept DEF LineageIn

\* The migrations that leave the agents and their lineages.
LEMMA MigratesKept ==
    ASSUME NEW d, NEW e, NEW r, NEW r2, Keeps(d["role"], e["role"]),
           Keeps(d["methodology"], e["methodology"]),
           r2 => r /\ SameRefs(d["methodology"], e["methodology"]),
           Len(d["tool"]) \in Nat, Len(e["tool"]) \in Nat, Len(d["tool"]) <= Len(e["tool"]),
           Len(d["agent"]) \in Nat, Len(e["agent"]) = Len(d["agent"]),
           \A a \in 1..Len(d["agent"]) : e["agent"][a].lineage = d["agent"][a].lineage,
           Lineages(d, r)
    PROVE  Migrates(d, e, r, r2)
<1>1. \A l : LineageIn(d, r, l) => LineageIn(e, r2, l)
  BY LineageInKept
<1>2. Lineages(e, r2)
  BY <1>1 DEF Lineages
<1>3. \A k \in Kinds : Len(d[k]) \in Nat /\ Len(e[k]) \in Nat /\ Len(d[k]) <= Len(e[k])
  BY DEF Kinds, Keeps
<1>. QED BY <1>1, <1>2, <1>3 DEF Migrates

(* A call that a migration comes across is still fit, as a straddler. *)
LEMMA StraddledFits ==
    ASSUME NEW d, NEW e, NEW r, NEW r2, NEW pr, NEW pr2, NEW pa, NEW pa2, Migrates(d, e, r, r2),
           NEW c, c # NoCall, CallFits(d, r, pr, pa, c)
    PROVE  CallFits(e, r2, pr2, pa2, [c EXCEPT !.straddled = TRUE])
<1>. DEFINE f == [c EXCEPT !.straddled = TRUE]
<1>1. c.kind \in Kinds /\ CallFields \subseteq DOMAIN c /\ RowFits(c.kind, c.row)
  BY DEF CallFits
<1>2. /\ DOMAIN f = DOMAIN c /\ f.straddled /\ f.kind = c.kind /\ f.id = c.id
      /\ f.version = c.version /\ f.row = c.row
      /\ "name" \in DOMAIN c => f.name = c.name
      /\ "lineage" \in DOMAIN c => f.lineage = c.lineage
  BY <1>1 DEF CallFields
<1>. HIDE DEF f
<1>3. ASSUME c.version = 1 PROVE CloneFits(e, r2, f)
  <2>1. CloneFits(d, r, c)
    BY <1>3 DEF CallFits
  <2>2. LineageIn(e, r2, c.lineage)
    BY <2>1 DEF CloneFits, Migrates
  <2>. QED BY <1>2, <2>1, <2>2 DEF CloneFits
<1>4. ASSUME c.version # 1 PROVE UpdateFits(e, f)
  <2>1. c.version \in Nat /\ c.version > 1 /\ c.id \in 1..Len(d[c.kind])
    BY <1>4 DEF CallFits, UpdateFits
  <2>2. c.id \in 1..Len(e[c.kind])
    BY <1>1, <2>1 DEF Migrates
  <2>. QED BY <1>2, <2>1, <2>2 DEF UpdateFits
<1>5. CallFits(e, r2, pr2, pa2, f)
  BY <1>1, <1>2, <1>3, <1>4 DEF CallFits
<1>. QED BY <1>5 DEF f

\* A migration that leaves the catalogue fit leaves the invariant.
LEMMA MigrationKeepsInv ==
    ASSUME IInv, Straddle, schema' \in 5..13, tenant' \in 8..10,
           CatalogueFits(db, HasRefs, Serving, TenantPins, disturbed)',
           Migrates(db, db', HasRefs, HasRefs')
    PROVE  IInv'
<1>1. call' = [o \in Operators |->
                IF call[o] = NoCall THEN NoCall ELSE [call[o] EXCEPT !.straddled = TRUE]]
  BY DEF Straddle
<1>2. call' = [o \in Operators |-> call'[o]]
  BY <1>1
<1>3. ASSUME NEW o \in Operators
      PROVE  CallFits(db', HasRefs', Serving', TenantPins', call'[o])
  <2>1. CASE call[o] = NoCall
    <3>1. call'[o] = NoCall
      BY <1>1, <2>1
    <3>. QED BY <3>1 DEF CallFits
  <2>2. CASE call[o] # NoCall
    <3>1. call'[o] = [call[o] EXCEPT !.straddled = TRUE]
      BY <1>1, <2>2
    <3>2. CallFits(db, HasRefs, Serving, TenantPins, call[o])
      BY DEF IInv
    <3>3. CallFits(db', HasRefs', Serving', TenantPins', [call[o] EXCEPT !.straddled = TRUE])
      BY <2>2, <3>2, StraddledFits
    <3>. QED BY <3>1, <3>3
  <2>. QED BY <2>1, <2>2
<1>4. Lineages(db', HasRefs')
  BY DEF Migrates
<1>. QED BY <1>2, <1>3, <1>4 DEF IInv

(* The migrations of the control plane, one by one *)

(* 0006 on the catalogue. *)
LEMMA Up0006Fits ==
    ASSUME NEW d, NEW r, NEW r2, NEW pr, NEW pa, Off(r), On(r2), Off(pr), NEW marks, NEW marks2,
           CatalogueFits(d, r, pr, pa, marks), Lineages(d, r),
           \A k \in Kinds \ {"methodology"} : MarksGrow(k, marks, marks2)
    PROVE  CatalogueFits(Up0006(d), r2, pr, pa, marks2) /\ Migrates(d, Up0006(d), r, r2)
<1>. DEFINE e == Up0006(d)
<1>1. /\ DOMAIN d = Kinds /\ KindFits("role", d["role"], r, pr, marks)
      /\ KindFits("methodology", d["methodology"], r, pr, marks)
  BY DEF CatalogueFits
<1>2. DOMAIN e = Kinds /\ e["tool"] = d["tool"] /\ e["agent"] = d["agent"]
  BY <1>1 DEF Up0006, Kinds
<1>3. MarksGrow("role", marks, marks2) /\ MarksGrow("tool", marks, marks2) /\ MarksGrow("agent", marks, marks2)
  BY DEF Kinds
<1>4. /\ KindFits("role", e["role"], r2, pr, marks2)
      /\ KindFits("methodology", e["methodology"], r2, pr, marks2)
      /\ Keeps(d["role"], e["role"]) /\ Keeps(d["methodology"], e["methodology"])
      /\ \A m \in 1..Len(e["methodology"]) : e["methodology"][m].status # "deleted" =>
           \A v \in 1..Len(e["methodology"][m].revs) :
             Rooted(e["role"], RefPin(e["methodology"][m].revs[v].body.role_refs[1]))
  BY <1>1, <1>3, AutoRolesFit
<1>. HIDE DEF e
<1>5. KindFits("tool", d["tool"], r2, pr, marks2) /\ KindFits("agent", d["agent"], r2, pa, marks2)
  <2>1. KindFits("tool", d["tool"], r, pr, marks) /\ KindFits("agent", d["agent"], r, pa, marks)
    BY DEF CatalogueFits
  <2>. QED BY <1>3, <2>1, KindFitsOn
<1>6. CatalogueFits(e, r2, pr, pa, marks2)
  BY <1>2, <1>4, <1>5 DEF CatalogueFits
<1>7. ASSUME NEW l, LineageIn(d, r, l) PROVE LineageIn(e, r2, l)
  <2>1. l.role # NoPin => Rooted(e["role"], l.role)
    BY <1>4, <1>7, RootedKept DEF LineageIn, RootedLineage
  <2>2. ASSUME l.methodology # NoPin
        PROVE  Rooted(e["methodology"], l.methodology)
    BY <1>4, <1>7, <2>2, RootedKept DEF LineageIn, RootedLineage
  <2>3. ASSUME l.methodology # NoPin, e["methodology"][l.methodology.id].status # "deleted"
        PROVE  Rooted(e["role"], RefPin(FirstRef(e["methodology"], l.methodology)))
    BY <1>4, <2>2, <2>3 DEF Rooted, FirstRef
  <2>. QED BY <2>1, <2>2, <2>3 DEF LineageIn, RootedLineage
<1>8. Lineages(e, r2)
  BY <1>2, <1>7 DEF Lineages
<1>9. \A k \in Kinds : Len(d[k]) \in Nat /\ Len(e[k]) \in Nat /\ Len(d[k]) <= Len(e[k])
  <2>1. Len(d["tool"]) \in Nat /\ Len(d["agent"]) \in Nat
    BY KindsListed DEF Kinds
  <2>. QED BY <1>2, <1>4, <2>1 DEF Kinds, Keeps
<1>10. Migrates(d, e, r, r2)
  BY <1>7, <1>8, <1>9 DEF Migrates
<1>. QED BY <1>6, <1>10 DEF e

\* The kinds a migration leaves as they are.
LEMMA KindsOn ==
    ASSUME NEW d, NEW r, NEW r2, NEW pr, NEW pa, NEW marks, NEW marks2,
           CatalogueFits(d, r, pr, pa, marks), \A k \in Kinds : MarksGrow(k, marks, marks2)
    PROVE  /\ r = r2 => KindFits("role", d["role"], r2, pr, marks2)
           /\ r = r2 => KindFits("methodology", d["methodology"], r2, pr, marks2)
           /\ KindFits("tool", d["tool"], r2, pr, marks2)
           /\ KindFits("agent", d["agent"], r2, pa, marks2)
           /\ Keeps(d["role"], d["role"]) /\ Keeps(d["methodology"], d["methodology"])
           /\ SameRefs(d["methodology"], d["methodology"])
           /\ \A k \in Kinds : Len(d[k]) \in Nat
<1>1. /\ KindFits("role", d["role"], r, pr, marks)
      /\ KindFits("methodology", d["methodology"], r, pr, marks)
      /\ KindFits("tool", d["tool"], r, pr, marks) /\ KindFits("agent", d["agent"], r, pa, marks)
  BY DEF CatalogueFits
<1>2. /\ MarksGrow("role", marks, marks2) /\ MarksGrow("methodology", marks, marks2)
      /\ MarksGrow("tool", marks, marks2) /\ MarksGrow("agent", marks, marks2)
  BY DEF Kinds
<1>3. KindFits("tool", d["tool"], r2, pr, marks2) /\ KindFits("agent", d["agent"], r2, pa, marks2)
  BY <1>1, <1>2, KindFitsOn
<1>4. r = r2 => /\ KindFits("role", d["role"], r2, pr, marks2)
                /\ KindFits("methodology", d["methodology"], r2, pr, marks2)
  BY <1>1, <1>2, KindFitsOn
<1>5. /\ Keeps(d["role"], d["role"]) /\ Keeps(d["methodology"], d["methodology"])
      /\ SameRefs(d["methodology"], d["methodology"])
  BY <1>1, KindKept
<1>6. \A k \in Kinds : Len(d[k]) \in Nat
  BY KindsListed
<1>. QED BY <1>3, <1>4, <1>5, <1>6

(* No mark more. *)
LEMMA SameMarks == \A marks, k : MarksGrow(k, marks, marks)
BY DEF MarksGrow

(* 0006, downgraded, on the catalogue. *)
LEMMA Down0006Fits ==
    ASSUME NEW d, NEW r, NEW r2, NEW pr, NEW pa, On(r), Off(r2), NEW marks, NEW marks2,
           CatalogueFits(d, r, pr, pa, marks), Lineages(d, r), CanDown0006(d),
           \A k \in Kinds : MarksGrow(k, marks, marks2),
           \A m \in LiveIn(d, "methodology") : Marked(marks2, "methodology", m)
    PROVE  CatalogueFits(Down0006(d), r2, pr, pa, marks2) /\ Migrates(d, Down0006(d), r, r2)
<1>. DEFINE e == Down0006(d)
<1>1. /\ DOMAIN d = Kinds /\ KindFits("role", d["role"], r, pr, marks)
      /\ KindFits("methodology", d["methodology"], r, pr, marks)
  BY DEF CatalogueFits
<1>2. /\ DOMAIN e = Kinds /\ e["tool"] = d["tool"] /\ e["agent"] = d["agent"]
      /\ e["role"] = DeleteBy(d, "role", By0006)
  BY <1>1 DEF Down0006, Kinds
<1>3. KindFits("methodology", e["methodology"], r2, pr, marks2) /\ Keeps(d["methodology"], e["methodology"])
  BY <1>1, RestoredFits
<1>. HIDE DEF e
<1>4. KindFits("role", e["role"], r, pr, marks) /\ Keeps(d["role"], e["role"])
  BY <1>1, <1>2, DeleteByFits
<1>5. MarksGrow("role", marks, marks2)
  BY DEF Kinds
<1>6. KindFits("role", e["role"], r2, pr, marks2)
  BY <1>4, <1>5, KindFitsOn
<1>7. /\ KindFits("tool", d["tool"], r2, pr, marks2) /\ KindFits("agent", d["agent"], r2, pa, marks2)
      /\ \A k \in Kinds : Len(d[k]) \in Nat
  BY KindsOn
<1>8. CatalogueFits(e, r2, pr, pa, marks2)
  BY <1>2, <1>3, <1>6, <1>7 DEF CatalogueFits
<1>9. Migrates(d, e, r, r2)
  <2>1. ~r2 /\ Len(d["tool"]) \in Nat /\ Len(d["agent"]) \in Nat
    BY <1>7 DEF Kinds, Off
  <2>2. Len(d["tool"]) <= Len(d["tool"])
    BY <2>1
  <2>. QED BY <1>2, <1>3, <1>4, <2>1, <2>2, MigratesKept
<1>. QED BY <1>8, <1>9 DEF e

\* A migration that changes no kind but the roles and the methodologies.
LEMMA RolesChanged ==
    ASSUME NEW d, NEW e, NEW r, NEW pr, NEW pr2, NEW pa, NEW marks, NEW marks2,
           CatalogueFits(d, r, pr, pa, marks), Lineages(d, r),
           \A k \in Kinds : MarksGrow(k, marks, marks2),
           DOMAIN e = Kinds, e["tool"] = d["tool"], e["agent"] = d["agent"],
           KindFits("role", e["role"], r, pr2, marks2), Keeps(d["role"], e["role"]),
           KindFits("methodology", e["methodology"], r, pr2, marks2),
           Keeps(d["methodology"], e["methodology"]), SameRefs(d["methodology"], e["methodology"])
    PROVE  CatalogueFits(e, r, pr2, pa, marks2) /\ Migrates(d, e, r, r)
<1>1. /\ KindFits("tool", d["tool"], r, pr, marks2) /\ KindFits("agent", d["agent"], r, pa, marks2)
      /\ \A k \in Kinds : Len(d[k]) \in Nat
  BY KindsOn
<1>2. KindFits("tool", d["tool"], r, pr2, marks2)
  BY <1>1, SameMarks, KindFitsOn DEF BundleKinds
<1>3. CatalogueFits(e, r, pr2, pa, marks2)
  BY <1>1, <1>2 DEF CatalogueFits
<1>4. Migrates(d, e, r, r)
  <2>1. Len(d["tool"]) \in Nat /\ Len(d["agent"]) \in Nat
    BY <1>1 DEF Kinds
  <2>2. Len(d["tool"]) <= Len(d["tool"])
    BY <2>1
  <2>. QED BY <2>1, <2>2, MigratesKept
<1>. QED BY <1>3, <1>4

(* 0007 on the catalogue, either way. *)
LEMMA RenameFits ==
    ASSUME NEW d, NEW old, NEW new, NEW r, NEW pr, NEW pa, NEW marks, NEW marks2,
           CatalogueFits(d, r, pr, pa, marks), Lineages(d, r),
           \A k \in Kinds : MarksGrow(k, marks, marks2),
           \A i \in ToRename(d, old) : Len(d["role"][i].revs) > 1 => Marked(marks2, "role", i)
    PROVE  LET e == RenameRole(d, old, new)
           IN  CatalogueFits(e, r, pr, pa, marks2) /\ Migrates(d, e, r, r)
<1>. DEFINE e == RenameRole(d, old, new)
<1>1. DOMAIN d = Kinds /\ KindFits("role", d["role"], r, pr, marks) /\ MarksGrow("role", marks, marks2)
  BY DEF CatalogueFits, Kinds
<1>2. /\ DOMAIN e = Kinds /\ e["tool"] = d["tool"] /\ e["agent"] = d["agent"]
      /\ e["methodology"] = d["methodology"]
  BY <1>1 DEF RenameRole, Kinds
<1>3. KindFits("role", e["role"], r, pr, marks2) /\ Keeps(d["role"], e["role"])
  <2>1. "role" \in DOMAIN d
    BY <1>1 DEF Kinds
  <2>. QED BY <1>1, <2>1, RenamedKindFits
<1>. HIDE DEF e
<1>4. /\ KindFits("methodology", d["methodology"], r, pr, marks2)
      /\ Keeps(d["methodology"], d["methodology"]) /\ SameRefs(d["methodology"], d["methodology"])
  BY KindsOn
<1>5. CatalogueFits(e, r, pr, pa, marks2) /\ Migrates(d, e, r, r)
  BY <1>2, <1>3, <1>4, RolesChanged
<1>. QED BY <1>5 DEF e

\* The roles 0008 seeds are one.
LEMMA SeededRolesAppended ==
    ASSUME NEW ts, Listed(ts)
    PROVE  ts \o [i \in DOMAIN SeededRoles |-> SeededRole(SeededRoles[i])]
             = Append(ts, SeededRole("ProblemFramer"))
<1>. DEFINE x == SeededRole("ProblemFramer")
            S == {ts[i] : i \in 1..Len(ts)} \union {x}
            more == [i \in DOMAIN SeededRoles |-> SeededRole(SeededRoles[i])]
<1>1. more = <<x>>
  <2>1. DOMAIN SeededRoles = {1} /\ SeededRoles[1] = "ProblemFramer"
    BY DEF SeededRoles
  <2>2. more = [i \in 1..1 |-> x]
    BY <2>1
  <2>. HIDE DEF x
  <2>. QED BY <2>2
<1>2. ts \in Seq(S) /\ x \in S
  BY ListedSeq
<1>. HIDE DEF S, x, more
<1>3. ts \o <<x>> = Append(ts, x)
  BY <1>2
<1>. QED BY <1>1, <1>3 DEF x, more

(* 0008 on the catalogue. *)
LEMMA Up0008Fits ==
    ASSUME NEW d, NEW r, NEW pr, NEW pa, On(r), NEW marks,
           CatalogueFits(d, r, pr, pa, marks), Lineages(d, r)
    PROVE  LET e == Up0008(d)
           IN  CatalogueFits(e, r, pr, pa, marks) /\ Migrates(d, e, r, r)
<1>. DEFINE e == Up0008(d)
<1>1. /\ DOMAIN d = Kinds /\ KindFits("role", d["role"], r, pr, marks)
      /\ KindFits("methodology", d["methodology"], r, pr, marks)
      /\ \A k : MarksGrow(k, marks, marks)
  BY SameMarks DEF CatalogueFits
<1>2. CASE NamedIn(d, "methodology", McKinsey) # {}
  <2>1. e = d
    BY <1>2 DEF Up0008
  <2>2. /\ Keeps(d["role"], d["role"]) /\ Keeps(d["methodology"], d["methodology"])
        /\ SameRefs(d["methodology"], d["methodology"])
    BY <1>1, KindsOn
  <2>3. CatalogueFits(d, r, pr, pa, marks) /\ Migrates(d, d, r, r)
    BY <1>1, <2>2, RolesChanged
  <2>. QED BY <2>1, <2>3
<1>3. CASE NamedIn(d, "methodology", McKinsey) = {}
  <2>. DEFINE first == Len(d["role"])
              more == [i \in DOMAIN SeededRoles |-> SeededRole(SeededRoles[i])]
  <2>1. e = [d EXCEPT !["role"] = d["role"] \o more,
                      !["methodology"] = Append(d["methodology"], SeededMethodology(first))]
    BY <1>3 DEF Up0008
  <2>2. d["role"] \o more = Append(d["role"], SeededRole("ProblemFramer"))
    BY <1>1, SeededRolesAppended DEF KindFits
  <2>3. /\ DOMAIN e = Kinds /\ e["tool"] = d["tool"] /\ e["agent"] = d["agent"]
        /\ e["role"] = Append(d["role"], SeededRole("ProblemFramer"))
        /\ e["methodology"] = Append(d["methodology"], SeededMethodology(first))
    <3>. HIDE DEF more, first, e
    <3>. QED BY <1>1, <2>1, <2>2 DEF Kinds
  <2>. HIDE DEF e, first
  <2>4. KindFits("role", e["role"], r, pr, marks) /\ Keeps(d["role"], e["role"])
    <3>1. \A m, s \in BOOLEAN : Fits("role", SeededRole("ProblemFramer"), r, pr, m, s)
      BY SeededRoleFits
    <3>. QED BY <1>1, <2>3, <3>1, AppendFits
  <2>5. /\ KindFits("methodology", e["methodology"], r, pr, marks)
        /\ Keeps(d["methodology"], e["methodology"]) /\ SameRefs(d["methodology"], e["methodology"])
    <3>1. \A m, s \in BOOLEAN : Fits("methodology", SeededMethodology(first), r, pr, m, s)
      BY SeededMethodologyFits
    <3>. QED BY <1>1, <2>3, <3>1, AppendFits
  <2>6. CatalogueFits(e, r, pr, pa, marks) /\ Migrates(d, e, r, r)
    BY <1>1, <2>3, <2>4, <2>5, RolesChanged
  <2>. QED BY <2>6 DEF e
<1>. QED BY <1>2, <1>3

(* 0008, downgraded. *)
LEMMA Down0008Fits ==
    ASSUME NEW d, NEW r, NEW pr, NEW pa, NEW marks,
           CatalogueFits(d, r, pr, pa, marks), Lineages(d, r)
    PROVE  LET e == Down0008(d)
           IN  CatalogueFits(e, r, pr, pa, marks) /\ Migrates(d, e, r, r)
<1>. DEFINE e == Down0008(d)
<1>1. /\ DOMAIN d = Kinds /\ KindFits("role", d["role"], r, pr, marks)
      /\ KindFits("methodology", d["methodology"], r, pr, marks)
      /\ \A k : MarksGrow(k, marks, marks)
  BY SameMarks DEF CatalogueFits
<1>2. /\ DOMAIN e = Kinds /\ e["tool"] = d["tool"] /\ e["agent"] = d["agent"]
      /\ e["role"] = DeleteBy(d, "role", By0008)
      /\ e["methodology"] = DeleteBy(d, "methodology", By0008)
  BY <1>1 DEF Down0008, Kinds
<1>. HIDE DEF e
<1>3. /\ KindFits("role", e["role"], r, pr, marks) /\ Keeps(d["role"], e["role"])
      /\ KindFits("methodology", e["methodology"], r, pr, marks)
      /\ Keeps(d["methodology"], e["methodology"]) /\ SameRefs(d["methodology"], e["methodology"])
  BY <1>1, <1>2, DeleteByFits
<1>4. CatalogueFits(e, r, pr, pa, marks) /\ Migrates(d, e, r, r)
  BY <1>1, <1>2, <1>3, RolesChanged
<1>. QED BY <1>4 DEF e

\* A migration that changes no kind but the tools.
LEMMA ToolsChanged ==
    ASSUME NEW d, NEW e, NEW r, NEW pr, NEW pa, NEW marks,
           CatalogueFits(d, r, pr, pa, marks), Lineages(d, r), DOMAIN e = Kinds,
           \A k \in Kinds \ {"tool"} : e[k] = d[k],
           KindFits("tool", e["tool"], r, pr, marks), Len(e["tool"]) \in Nat,
           Len(d["tool"]) <= Len(e["tool"])
    PROVE  CatalogueFits(e, r, pr, pa, marks) /\ Migrates(d, e, r, r)
<1>1. e["role"] = d["role"] /\ e["methodology"] = d["methodology"] /\ e["agent"] = d["agent"]
  BY DEF Kinds
<1>2. /\ Keeps(d["role"], d["role"]) /\ Keeps(d["methodology"], d["methodology"])
      /\ SameRefs(d["methodology"], d["methodology"]) /\ \A k \in Kinds : Len(d[k]) \in Nat
  BY SameMarks, KindsOn
<1>3. CatalogueFits(e, r, pr, pa, marks)
  BY <1>1 DEF CatalogueFits
<1>4. Len(d["tool"]) \in Nat /\ Len(d["agent"]) \in Nat
  BY <1>2 DEF Kinds
<1>5. Migrates(d, e, r, r)
  BY <1>1, <1>2, <1>4, MigratesKept
<1>. QED BY <1>3, <1>5

(* 0009 on the catalogue. *)
LEMMA Up0009Fits ==
    ASSUME NEW d, NEW r, NEW pr, NEW pa, NEW marks,
           CatalogueFits(d, r, pr, pa, marks), Lineages(d, r)
    PROVE  LET e == Up0009(d)
           IN  CatalogueFits(e, r, pr, pa, marks) /\ Migrates(d, e, r, r)
<1>. DEFINE e == Up0009(d)
            ts == d["tool"]
            us == [t \in {RetrievalTool} \union DOMAIN ts |->
                        IF t = RetrievalTool THEN SeededTool ELSE ts[t]]
<1>1. DOMAIN d = Kinds /\ KindFits("tool", ts, r, pr, marks)
  BY DEF CatalogueFits
<1>2. e = [d EXCEPT !["tool"] = us]
  BY DEF Up0009
<1>3. KindFits("tool", us, r, pr, marks) /\ Len(us) \in Nat /\ Len(ts) <= Len(us)
  BY <1>1, SeedToolFits
<1>. HIDE DEF e, us
<1>4. DOMAIN e = Kinds /\ e["tool"] = us /\ \A k \in Kinds \ {"tool"} : e[k] = d[k]
  BY <1>1, <1>2 DEF Kinds
<1>5. CatalogueFits(e, r, pr, pa, marks) /\ Migrates(d, e, r, r)
  BY <1>3, <1>4, ToolsChanged
<1>. QED BY <1>5 DEF e

(* 0009, downgraded. *)
LEMMA Down0009Fits ==
    ASSUME NEW d, NEW r, NEW pr, NEW pa, NEW marks,
           CatalogueFits(d, r, pr, pa, marks), Lineages(d, r)
    PROVE  LET e == Down0009(d)
           IN  CatalogueFits(e, r, pr, pa, marks) /\ Migrates(d, e, r, r)
<1>. DEFINE e == Down0009(d)
            ts == d["tool"]
            us == [t \in DOMAIN ts |-> Deleted(ts[t])]
<1>1. DOMAIN d = Kinds /\ KindFits("tool", ts, r, pr, marks)
  BY DEF CatalogueFits
<1>2. e = [d EXCEPT !["tool"] = us]
  BY DEF Down0009
<1>3. KindFits("tool", us, r, pr, marks) /\ Len(us) = Len(ts)
  BY <1>1, DroppedFits
<1>. HIDE DEF e, us
<1>4. DOMAIN e = Kinds /\ e["tool"] = us /\ \A k \in Kinds \ {"tool"} : e[k] = d[k]
  BY <1>1, <1>2 DEF Kinds
<1>5. Len(ts) \in Nat /\ Len(ts) <= Len(ts)
  BY <1>1, ListDomain DEF KindFits
<1>6. CatalogueFits(e, r, pr, pa, marks) /\ Migrates(d, e, r, r)
  BY <1>3, <1>4, <1>5, ToolsChanged
<1>. QED BY <1>6 DEF e

\* A migration that changes no kind but the roles.
LEMMA RolesOnlyChanged ==
    ASSUME NEW d, NEW e, NEW r, NEW pr, NEW pr2, NEW pa, NEW marks, NEW marks2,
           CatalogueFits(d, r, pr, pa, marks), Lineages(d, r),
           \A k \in Kinds : MarksGrow(k, marks, marks2),
           DOMAIN e = Kinds, \A k \in Kinds \ {"role"} : e[k] = d[k],
           KindFits("role", e["role"], r, pr2, marks2), Keeps(d["role"], e["role"])
    PROVE  CatalogueFits(e, r, pr2, pa, marks2) /\ Migrates(d, e, r, r)
<1>1. e["tool"] = d["tool"] /\ e["methodology"] = d["methodology"] /\ e["agent"] = d["agent"]
  BY DEF Kinds
<1>2. /\ KindFits("methodology", d["methodology"], r, pr, marks2)
      /\ Keeps(d["methodology"], d["methodology"]) /\ SameRefs(d["methodology"], d["methodology"])
  BY KindsOn
<1>3. KindFits("methodology", d["methodology"], r, pr2, marks2)
  BY <1>2, SameMarks, KindFitsOn DEF BundleKinds
<1>. QED BY <1>1, <1>2, <1>3, RolesChanged

(* 0010 on the catalogue. *)
LEMMA PinRolesFits ==
    ASSUME NEW d, NEW r, NEW pr, NEW pr2, NEW pa, Off(pr), On(pr2), NEW marks,
           CatalogueFits(d, r, pr, pa, marks), Lineages(d, r)
    PROVE  LET e == PinAllowlists(d, "role")
           IN  CatalogueFits(e, r, pr2, pa, marks) /\ Migrates(d, e, r, r)
<1>. DEFINE e == PinAllowlists(d, "role")
<1>1. DOMAIN d = Kinds /\ KindFits("role", d["role"], r, pr, marks)
  BY DEF CatalogueFits
<1>2. DOMAIN e = Kinds /\ \A k \in Kinds \ {"role"} : e[k] = d[k]
  BY <1>1 DEF PinAllowlists, Kinds
<1>3. KindFits("role", e["role"], r, pr2, marks) /\ Keeps(d["role"], e["role"])
  BY <1>1, PinnedKindFits DEF BundleKinds, Kinds
<1>. HIDE DEF e
<1>4. CatalogueFits(e, r, pr2, pa, marks) /\ Migrates(d, e, r, r)
  BY <1>2, <1>3, SameMarks, RolesOnlyChanged
<1>. QED BY <1>4 DEF e

(* 0010, downgraded. *)
LEMMA UnpinRolesFits ==
    ASSUME NEW d, NEW r, NEW pr, NEW pr2, NEW pa, On(pr), Off(pr2), NEW marks,
           CatalogueFits(d, r, pr, pa, marks), Lineages(d, r)
    PROVE  LET e == UnpinAllowlists(d, "role")
           IN  CatalogueFits(e, r, pr2, pa, marks) /\ Migrates(d, e, r, r)
<1>. DEFINE e == UnpinAllowlists(d, "role")
<1>1. DOMAIN d = Kinds /\ KindFits("role", d["role"], r, pr, marks)
  BY DEF CatalogueFits
<1>2. DOMAIN e = Kinds /\ \A k \in Kinds \ {"role"} : e[k] = d[k]
  BY <1>1 DEF UnpinAllowlists, Kinds
<1>3. KindFits("role", e["role"], r, pr2, marks) /\ Keeps(d["role"], e["role"])
  BY <1>1, UnpinnedKindFits DEF BundleKinds, Kinds
<1>. HIDE DEF e
<1>4. CatalogueFits(e, r, pr2, pa, marks) /\ Migrates(d, e, r, r)
  BY <1>2, <1>3, SameMarks, RolesOnlyChanged
<1>. QED BY <1>4 DEF e

(* 0013 on the catalogue. *)
LEMMA Up0013Fits ==
    ASSUME NEW d, NEW r, NEW pr, NEW pa, NEW marks,
           CatalogueFits(d, r, pr, pa, marks), Lineages(d, r)
    PROVE  LET e == Up0013(d)
           IN  CatalogueFits(e, r, pr, pa, marks) /\ Migrates(d, e, r, r)
<1>. DEFINE e == Up0013(d)
<1>1. /\ DOMAIN d = Kinds /\ KindFits("role", d["role"], r, pr, marks)
      /\ \A k : MarksGrow(k, marks, marks)
  BY SameMarks DEF CatalogueFits
<1>2. e = d \/ e = [d EXCEPT !["role"] = Append(d["role"], GuideTemplate)]
  BY DEF Up0013, GuideTemplate
<1>. HIDE DEF e
<1>3. DOMAIN e = Kinds /\ \A k \in Kinds \ {"role"} : e[k] = d[k]
  BY <1>1, <1>2 DEF Kinds
<1>4. KindFits("role", e["role"], r, pr, marks) /\ Keeps(d["role"], e["role"])
  <2>1. CASE e = d
    BY <1>1, <2>1, KindKept
  <2>2. CASE e = [d EXCEPT !["role"] = Append(d["role"], GuideTemplate)]
    <3>1. e["role"] = Append(d["role"], GuideTemplate)
      BY <1>1, <2>2 DEF Kinds
    <3>2. \A m, s \in BOOLEAN : Fits("role", GuideTemplate, r, pr, m, s)
      BY GuideFits
    <3>. QED BY <1>1, <3>1, <3>2, AppendFits
  <2>. QED BY <1>2, <2>1, <2>2
<1>5. CatalogueFits(e, r, pr, pa, marks) /\ Migrates(d, e, r, r)
  BY <1>1, <1>3, <1>4, RolesOnlyChanged
<1>. QED BY <1>5 DEF e

(* 0013, downgraded. *)
LEMMA Down0013Fits ==
    ASSUME NEW d, NEW r, NEW pr, NEW pa, NEW marks,
           CatalogueFits(d, r, pr, pa, marks), Lineages(d, r)
    PROVE  LET e == Down0013(d)
           IN  CatalogueFits(e, r, pr, pa, marks) /\ Migrates(d, e, r, r)
<1>. DEFINE e == Down0013(d)
<1>1. DOMAIN d = Kinds /\ KindFits("role", d["role"], r, pr, marks)
  BY DEF CatalogueFits
<1>2. /\ DOMAIN e = Kinds /\ \A k \in Kinds \ {"role"} : e[k] = d[k]
      /\ e["role"] = DeleteBy(d, "role", By0013)
  BY <1>1 DEF Down0013, Kinds
<1>. HIDE DEF e
<1>3. KindFits("role", e["role"], r, pr, marks) /\ Keeps(d["role"], e["role"])
  BY <1>1, <1>2, DeleteByFits
<1>4. CatalogueFits(e, r, pr, pa, marks) /\ Migrates(d, e, r, r)
  BY <1>2, <1>3, SameMarks, RolesOnlyChanged
<1>. QED BY <1>4 DEF e

\* 0012 either way.
LEMMA ClosedCatalogueFits ==
    ASSUME NEW d, NEW e, NEW rows, NEW lists, NEW r, NEW pr, NEW pa, On(pr), NEW marks, NEW marks2,
           CatalogueFits(d, r, pr, pa, marks), Lineages(d, r),
           \A k \in Kinds : MarksGrow(k, marks, marks2),
           e = [d EXCEPT !["role"] = [i \in DOMAIN d["role"] |->
                    IF i \in OfNamedRoles(d) THEN ClosedTemplate(d["role"][i], rows[i], lists[i])
                    ELSE d["role"][i]]],
           \A i \in 1..Len(d["role"]) : rows[i] \subseteq DOMAIN d["role"][i].revs,
           \A i \in 1..Len(d["role"]) : \A v \in 1..Len(d["role"][i].revs) :
                \A x \in lists[i][v] : ~IsName(x),
           \A i \in OfNamedRoles(d) :
                SkipsAfterRewrite(d["role"][i], rows[i]) => Marked(marks2, "role", i)
    PROVE  CatalogueFits(e, r, pr, pa, marks2) /\ Migrates(d, e, r, r)
<1>. DEFINE ids == OfNamedRoles(d)
            ts == d["role"]
            us == [i \in DOMAIN ts |->
                    IF i \in ids THEN ClosedTemplate(ts[i], rows[i], lists[i]) ELSE ts[i]]
<1>1. DOMAIN d = Kinds /\ KindFits("role", ts, r, pr, marks) /\ MarksGrow("role", marks, marks2)
  BY DEF CatalogueFits, Kinds
<1>2. KindFits("role", us, r, pr, marks2) /\ Keeps(ts, us)
  <2>1. us = [i \in DOMAIN ts |->
                    IF i \in ids THEN ClosedTemplate(ts[i], rows[i], lists[i]) ELSE ts[i]]
    OBVIOUS
  <2>. HIDE DEF us, ids, ts
  <2>2. /\ \A i \in 1..Len(ts) : rows[i] \subseteq DOMAIN ts[i].revs
        /\ \A i \in 1..Len(ts) : \A v \in 1..Len(ts[i].revs) : \A x \in lists[i][v] : ~IsName(x)
        /\ \A i \in ids : SkipsAfterRewrite(ts[i], rows[i]) => Marked(marks2, "role", i)
    BY DEF ids, ts
  <2>. QED BY <1>1, <2>1, <2>2, ClosedKindFits
<1>3. e = [d EXCEPT !["role"] = us]
  OBVIOUS
<1>. HIDE DEF us
<1>4. DOMAIN e = Kinds /\ e["role"] = us /\ \A k \in Kinds \ {"role"} : e[k] = d[k]
  BY <1>1, <1>3 DEF Kinds
<1>. QED BY <1>2, <1>4, RolesOnlyChanged

(* 0012 on the catalogue. *)
LEMMA Up0012Fits ==
    ASSUME NEW d, NEW r, NEW pr, NEW pa, On(pr), NEW marks, NEW marks2,
           CatalogueFits(d, r, pr, pa, marks), Lineages(d, r),
           \A k \in Kinds : MarksGrow(k, marks, marks2),
           \A i \in OfNamedRoles(d) :
                SkipsAfterRewrite(d["role"][i], RowsWithAllowlist(d["role"][i]))
                  => Marked(marks2, "role", i)
    PROVE  CatalogueFits(Up0012(d), r, pr, pa, marks2) /\ Migrates(d, Up0012(d), r, r)
<1>. DEFINE ids == OfNamedRoles(d)
            ts == d["role"]
            rows == [i \in DOMAIN ts |-> RowsWithAllowlist(ts[i])]
            lists == [i \in DOMAIN ts |-> WithRetrieval(ts[i])]
            e == Up0012(d)
<1>1. KindFits("role", ts, r, pr, marks) /\ DOMAIN ts = 1..Len(ts)
  BY ListDomain DEF CatalogueFits, KindFits
<1>2. \A i \in 1..Len(ts) : rows[i] = RowsWithAllowlist(ts[i]) /\ lists[i] = WithRetrieval(ts[i])
  BY <1>1
<1>3. ids \subseteq 1..Len(ts)
  BY DEF OfNamedRoles, LiveIn, IdsUpTo
<1>4. [i \in DOMAIN ts |-> IF i \notin ids THEN ts[i]
                           ELSE ClosedTemplate(ts[i], RowsWithAllowlist(ts[i]), WithRetrieval(ts[i]))]
      = [i \in DOMAIN ts |-> IF i \in ids THEN ClosedTemplate(ts[i], rows[i], lists[i]) ELSE ts[i]]
  <2>. HIDE DEF ids
  <2>. QED OBVIOUS
<1>5. e = [d EXCEPT !["role"] =
            [i \in DOMAIN ts |-> IF i \in ids THEN ClosedTemplate(ts[i], rows[i], lists[i]) ELSE ts[i]]]
  <2>1. e = [d EXCEPT !["role"] =
              [i \in DOMAIN ts |-> IF i \notin ids THEN ts[i]
                  ELSE ClosedTemplate(ts[i], RowsWithAllowlist(ts[i]), WithRetrieval(ts[i]))]]
    BY DEF Up0012, ClosedTemplate
  <2>. HIDE DEF ids, rows, lists, e
  <2>. QED BY <1>4, <2>1
<1>6. \A i \in 1..Len(ts) : rows[i] \subseteq DOMAIN ts[i].revs
  BY <1>2 DEF RowsWithAllowlist
<1>7. \A i \in 1..Len(ts) : \A v \in 1..Len(ts[i].revs) : \A x \in lists[i][v] : ~IsName(x)
  <2>. TAKE i \in 1..Len(ts)
  <2>1. DOMAIN ts[i].revs = 1..Len(ts[i].revs)
    BY <1>1, FitsAreListed, ListDomain
  <2>2. \A v \in 1..Len(ts[i].revs) : lists[i][v] = {RetrievalEntry}
    BY <1>2, <2>1 DEF WithRetrieval
  <2>3. ~IsName(RetrievalEntry)
    BY DEF IsName, RetrievalEntry, Entry
  <2>. HIDE DEF lists
  <2>. QED BY <2>2, <2>3
<1>8. \A i \in ids : SkipsAfterRewrite(ts[i], rows[i]) => Marked(marks2, "role", i)
  BY <1>2, <1>3
<1>. HIDE DEF rows, lists, e
<1>9. CatalogueFits(e, r, pr, pa, marks2) /\ Migrates(d, e, r, r)
  BY <1>5, <1>6, <1>7, <1>8, ClosedCatalogueFits
<1>. QED BY <1>9 DEF e

(* 0012, downgraded. *)
LEMMA Down0012Fits ==
    ASSUME NEW d, NEW r, NEW pr, NEW pa, On(pr), NEW marks, NEW marks2,
           CatalogueFits(d, r, pr, pa, marks), Lineages(d, r),
           \A k \in Kinds : MarksGrow(k, marks, marks2),
           \A i \in OfNamedRoles(d) :
                SkipsAfterRewrite(d["role"][i], RowsLackingRetrieval(d["role"][i]))
                  => Marked(marks2, "role", i)
    PROVE  CatalogueFits(Down0012(d), r, pr, pa, marks2) /\ Migrates(d, Down0012(d), r, r)
<1>. DEFINE ids == OfNamedRoles(d)
            ts == d["role"]
            rows == [i \in DOMAIN ts |-> RowsLackingRetrieval(ts[i])]
            lists == [i \in DOMAIN ts |-> WithoutRetrieval(ts[i])]
            e == Down0012(d)
<1>1. KindFits("role", ts, r, pr, marks) /\ DOMAIN ts = 1..Len(ts)
  BY ListDomain DEF CatalogueFits, KindFits
<1>2. \A i \in 1..Len(ts) :
        rows[i] = RowsLackingRetrieval(ts[i]) /\ lists[i] = WithoutRetrieval(ts[i])
  BY <1>1
<1>3. ids \subseteq 1..Len(ts)
  BY DEF OfNamedRoles, LiveIn, IdsUpTo
<1>4. [i \in DOMAIN ts |-> IF i \notin ids THEN ts[i]
                           ELSE ClosedTemplate(ts[i], RowsLackingRetrieval(ts[i]), WithoutRetrieval(ts[i]))]
      = [i \in DOMAIN ts |-> IF i \in ids THEN ClosedTemplate(ts[i], rows[i], lists[i]) ELSE ts[i]]
  <2>. HIDE DEF ids
  <2>. QED OBVIOUS
<1>5. e = [d EXCEPT !["role"] =
            [i \in DOMAIN ts |-> IF i \in ids THEN ClosedTemplate(ts[i], rows[i], lists[i]) ELSE ts[i]]]
  <2>1. e = [d EXCEPT !["role"] =
              [i \in DOMAIN ts |-> IF i \notin ids THEN ts[i]
                  ELSE ClosedTemplate(ts[i], RowsLackingRetrieval(ts[i]), WithoutRetrieval(ts[i]))]]
    BY DEF Down0012, ClosedTemplate
  <2>. HIDE DEF ids, rows, lists, e
  <2>. QED BY <1>4, <2>1
<1>6. \A i \in 1..Len(ts) : rows[i] \subseteq DOMAIN ts[i].revs
  BY <1>2 DEF RowsLackingRetrieval
<1>7. \A i \in 1..Len(ts) : \A v \in 1..Len(ts[i].revs) : \A x \in lists[i][v] : ~IsName(x)
  <2>. TAKE i \in 1..Len(ts)
  <2>1. DOMAIN ts[i].revs = 1..Len(ts[i].revs)
    BY <1>1, FitsAreListed, ListDomain
  <2>2. \A v \in 1..Len(ts[i].revs) : lists[i][v] = Allowlist(ts[i], v) \ {RetrievalEntry}
    BY <1>2, <2>1 DEF WithoutRetrieval
  <2>3. \A v \in 1..Len(ts[i].revs) : ~HasNames(ts[i].revs[v].body)
    <3>1. \E m : OfItsEra(ts[i], pr, m)
      BY <1>1 DEF KindFits, Fits, BundleKinds
    <3>. QED BY <3>1 DEF OfItsEra, On
  <2>. HIDE DEF lists
  <2>. QED BY <2>2, <2>3 DEF HasNames, Allowlist
<1>8. \A i \in ids : SkipsAfterRewrite(ts[i], rows[i]) => Marked(marks2, "role", i)
  BY <1>2, <1>3
<1>. HIDE DEF rows, lists, e
<1>9. CatalogueFits(e, r, pr, pa, marks2) /\ Migrates(d, e, r, r)
  BY <1>5, <1>6, <1>7, <1>8, ClosedCatalogueFits
<1>. QED BY <1>9 DEF e

-----------------------------------------------------------------------------
(* The migrations of the tenants *)

(* A migration of the tenant's agents alone. *)
LEMMA AgentsChanged ==
    ASSUME NEW d, NEW e, NEW r, NEW pr, NEW pa, NEW pa2, NEW marks,
           CatalogueFits(d, r, pr, pa, marks), DOMAIN e = Kinds,
           \A k \in Kinds \ {"agent"} : e[k] = d[k],
           KindFits("agent", e["agent"], r, pa2, marks), Len(e["agent"]) = Len(d["agent"]),
           \A a \in 1..Len(e["agent"]) : LineageIn(d, r, e["agent"][a].lineage)
    PROVE  CatalogueFits(e, r, pr, pa2, marks) /\ Migrates(d, e, r, r)
<1>1. e["role"] = d["role"] /\ e["methodology"] = d["methodology"] /\ e["tool"] = d["tool"]
  BY DEF Kinds
<1>2. CatalogueFits(e, r, pr, pa2, marks)
  BY <1>1 DEF CatalogueFits
<1>3. \A l : LineageIn(d, r, l) => LineageIn(e, r, l)
  BY <1>1 DEF LineageIn
<1>4. \A k \in Kinds : Len(d[k]) \in Nat /\ Len(e[k]) \in Nat /\ Len(d[k]) <= Len(e[k])
  <2>1. \A k \in Kinds : Len(d[k]) \in Nat
    BY KindsListed
  <2>2. \A k \in Kinds : Len(e[k]) = Len(d[k])
    BY <1>1 DEF Kinds
  <2>. QED BY <2>1, <2>2
<1>. QED BY <1>2, <1>3, <1>4 DEF Migrates, Lineages

(* The tenants' 0009 on the catalogue. *)
LEMMA BackfillFits ==
    ASSUME NEW d, NEW r, NEW pr, NEW pa, On(r), NEW marks,
           CatalogueFits(d, r, pr, pa, marks), Lineages(d, r)
    PROVE  LET e == BackfillRoleLineage(d)
           IN  CatalogueFits(e, r, pr, pa, marks) /\ Migrates(d, e, r, r)
<1>. DEFINE e == BackfillRoleLineage(d)
<1>1. /\ DOMAIN d = Kinds /\ KindFits("agent", d["agent"], r, pa, marks)
      /\ \A a \in 1..Len(d["agent"]) :
           RootedLineage(d["role"], d["methodology"], r, d["agent"][a].lineage)
  BY DEF CatalogueFits, Lineages, LineageIn
<1>2. DOMAIN e = Kinds /\ \A k \in Kinds \ {"agent"} : e[k] = d[k]
  BY <1>1 DEF BackfillRoleLineage, Kinds
<1>3. /\ KindFits("agent", e["agent"], r, pa, marks) /\ Len(e["agent"]) = Len(d["agent"])
      /\ \A a \in 1..Len(e["agent"]) :
           RootedLineage(d["role"], d["methodology"], r, e["agent"][a].lineage)
  BY <1>1, BackfilledFits
<1>. HIDE DEF e
<1>4. CatalogueFits(e, r, pr, pa, marks) /\ Migrates(d, e, r, r)
  BY <1>2, <1>3, AgentsChanged DEF LineageIn
<1>. QED BY <1>4 DEF e

(* The same, downgraded. *)
LEMMA DropLineageFits ==
    ASSUME NEW d, NEW r, NEW pr, NEW pa, NEW marks,
           CatalogueFits(d, r, pr, pa, marks), Lineages(d, r)
    PROVE  LET e == DropRoleLineage(d)
           IN  CatalogueFits(e, r, pr, pa, marks) /\ Migrates(d, e, r, r)
<1>. DEFINE e == DropRoleLineage(d)
<1>1. /\ DOMAIN d = Kinds /\ KindFits("agent", d["agent"], r, pa, marks)
      /\ \A a \in 1..Len(d["agent"]) :
           RootedLineage(d["role"], d["methodology"], r, d["agent"][a].lineage)
  BY DEF CatalogueFits, Lineages, LineageIn
<1>2. DOMAIN e = Kinds /\ \A k \in Kinds \ {"agent"} : e[k] = d[k]
  BY <1>1 DEF DropRoleLineage, Kinds
<1>3. /\ KindFits("agent", e["agent"], r, pa, marks) /\ Len(e["agent"]) = Len(d["agent"])
      /\ \A a \in 1..Len(e["agent"]) :
           RootedLineage(d["role"], d["methodology"], r, e["agent"][a].lineage)
  BY <1>1, DroppedLineageFits
<1>. HIDE DEF e
<1>4. CatalogueFits(e, r, pr, pa, marks) /\ Migrates(d, e, r, r)
  BY <1>2, <1>3, AgentsChanged DEF LineageIn
<1>. QED BY <1>4 DEF e

(* The tenants' 0010 on the catalogue. *)
LEMMA PinAgentsFits ==
    ASSUME NEW d, NEW r, NEW pr, NEW pa, NEW pa2, Off(pa), On(pa2), NEW marks,
           CatalogueFits(d, r, pr, pa, marks), Lineages(d, r)
    PROVE  LET e == PinAllowlists(d, "agent")
           IN  CatalogueFits(e, r, pr, pa2, marks) /\ Migrates(d, e, r, r)
<1>. DEFINE e == PinAllowlists(d, "agent")
<1>1. DOMAIN d = Kinds /\ KindFits("agent", d["agent"], r, pa, marks)
  BY DEF CatalogueFits
<1>2. DOMAIN e = Kinds /\ \A k \in Kinds \ {"agent"} : e[k] = d[k]
  BY <1>1 DEF PinAllowlists, Kinds
<1>3. /\ KindFits("agent", e["agent"], r, pa2, marks) /\ Len(e["agent"]) = Len(d["agent"])
      /\ \A i \in 1..Len(e["agent"]) : e["agent"][i].lineage = d["agent"][i].lineage
  BY <1>1, PinnedKindFits DEF BundleKinds, Kinds
<1>. HIDE DEF e
<1>4. \A a \in 1..Len(e["agent"]) : LineageIn(d, r, e["agent"][a].lineage)
  BY <1>3 DEF Lineages
<1>5. CatalogueFits(e, r, pr, pa2, marks) /\ Migrates(d, e, r, r)
  BY <1>2, <1>3, <1>4, AgentsChanged
<1>. QED BY <1>5 DEF e

(* The same, downgraded. *)
LEMMA UnpinAgentsFits ==
    ASSUME NEW d, NEW r, NEW pr, NEW pa, NEW pa2, On(pa), Off(pa2), NEW marks,
           CatalogueFits(d, r, pr, pa, marks), Lineages(d, r)
    PROVE  LET e == UnpinAllowlists(d, "agent")
           IN  CatalogueFits(e, r, pr, pa2, marks) /\ Migrates(d, e, r, r)
<1>. DEFINE e == UnpinAllowlists(d, "agent")
<1>1. DOMAIN d = Kinds /\ KindFits("agent", d["agent"], r, pa, marks)
  BY DEF CatalogueFits
<1>2. DOMAIN e = Kinds /\ \A k \in Kinds \ {"agent"} : e[k] = d[k]
  BY <1>1 DEF UnpinAllowlists, Kinds
<1>3. /\ KindFits("agent", e["agent"], r, pa2, marks) /\ Len(e["agent"]) = Len(d["agent"])
      /\ \A i \in 1..Len(e["agent"]) : e["agent"][i].lineage = d["agent"][i].lineage
  BY <1>1, UnpinnedKindFits DEF BundleKinds, Kinds
<1>. HIDE DEF e
<1>4. \A a \in 1..Len(e["agent"]) : LineageIn(d, r, e["agent"][a].lineage)
  BY <1>3 DEF Lineages
<1>5. CatalogueFits(e, r, pr, pa2, marks) /\ Migrates(d, e, r, r)
  BY <1>2, <1>3, <1>4, AgentsChanged
<1>. QED BY <1>5 DEF e

(* The steps of the migrations *)

\* A migration, when its eras and what it makes of the catalogue are known.
LEMMA MigratedInv ==
    ASSUME IInv, Straddle, schema' \in 5..13, tenant' \in 8..10,
           NEW e, db' = e, NEW r2, NEW pr2, NEW pa2,
           HasRefs' = r2, Serving' = pr2, TenantPins' = pa2,
           CatalogueFits(e, r2, pr2, pa2, disturbed'), Migrates(db, e, HasRefs, r2)
    PROVE  IInv'
<1>1. CatalogueFits(db, HasRefs, Serving, TenantPins, disturbed)'
  OBVIOUS
<1>2. Migrates(db, db', HasRefs, HasRefs')
  OBVIOUS
<1>. QED BY <1>1, <1>2, MigrationKeepsInv

(* The parts of the invariant about the catalogue. *)
LEMMA InvOfCatalogue ==
    ASSUME IInv
    PROVE  /\ CatalogueFits(db, HasRefs, Serving, TenantPins, disturbed)
           /\ Lineages(db, HasRefs) /\ schema \in 5..13 /\ tenant \in 8..10
BY DEF IInv

\* Marks are added.
LEMMA DisturbedMore ==
    ASSUME NEW k, NEW ids, NEW event, Disturb(k, ids, event)
    PROVE  /\ \A j : MarksGrow(j, disturbed, disturbed')
           /\ \A i \in ids : Marked(disturbed', k, i)
<1>1. disturbed' = disturbed \union {<<k, i, event>> : i \in ids}
  BY DEF Disturb
<1>2. \A j : MarksGrow(j, disturbed, disturbed')
  BY <1>1, MoreMarks
<1>3. \A i \in ids : Marked(disturbed', k, i)
  <2>. TAKE i \in ids
  <2>1. <<k, i, event>> \in disturbed'
    BY <1>1
  <2>2. <<k, i, event>>[1] = k /\ <<k, i, event>>[2] = i
    OBVIOUS
  <2>. QED BY <2>1, <2>2 DEF Marked
<1>. QED BY <1>2, <1>3

\* All marks but those of methodologies stay.
LEMMA DisturbedLess ==
    ASSUME disturbed' = {x \in disturbed : x[1] # "methodology"}
    PROVE  \A k \in Kinds \ {"methodology"} : MarksGrow(k, disturbed, disturbed')
<1>1. ASSUME NEW k \in Kinds \ {"methodology"} PROVE MarksGrow(k, disturbed, disturbed')
  <2>1. \A i : Marked(disturbed, k, i) => Marked(disturbed', k, i)
    BY DEF Marked
  <2>2. \A i : Extended(disturbed, k, i) => Extended(disturbed', k, i)
    BY DEF Extended
  <2>. QED BY <2>1, <2>2 DEF MarksGrow
<1>. QED BY <1>1

(* 0006, up. *)
LEMMA UpgradeMethodologyRoleRefsKeeps == ASSUME IInv, UpgradeMethodologyRoleRefs PROVE IInv'
<1>1. schema = 5 /\ schema' = 6 /\ tenant' = tenant
  BY DEF UpgradeMethodologyRoleRefs, Up
<1>a. /\ db' = Up0006(db) /\ Straddle
      /\ disturbed' = {x \in disturbed : x[1] # "methodology"}
  BY DEF UpgradeMethodologyRoleRefs, Up, Rewrites
<1>2. CatalogueFits(db, HasRefs, Serving, TenantPins, disturbed) /\ Lineages(db, HasRefs)
  BY InvOfCatalogue
<1>3. Serving' = Serving /\ TenantPins' = TenantPins
  BY <1>1 DEF Serving, TenantPins
<1>4. Off(HasRefs) /\ Off(Serving) /\ On(HasRefs')
  BY <1>1 DEF On, Off, HasRefs, Serving
<1>5. schema' \in 5..13 /\ tenant' \in 8..10
  BY <1>1, InvOfCatalogue
<1>6. \A k \in Kinds \ {"methodology"} : MarksGrow(k, disturbed, disturbed')
  BY <1>a, DisturbedLess
<1>8. /\ CatalogueFits(Up0006(db), HasRefs', Serving, TenantPins, disturbed')
      /\ Migrates(db, Up0006(db), HasRefs, HasRefs')
  BY <1>2, <1>4, <1>6, Up0006Fits
<1>. QED BY <1>a, <1>3, <1>5, <1>8, MigratedInv

(* 0006, down. *)
LEMMA DowngradeMethodologyRoleRefsKeeps == ASSUME IInv, DowngradeMethodologyRoleRefs PROVE IInv'
<1>1. schema = 6 /\ schema' = 5 /\ tenant' = tenant
  BY DEF DowngradeMethodologyRoleRefs, Down
<1>a. /\ db' = Down0006(db) /\ Straddle
      /\ CanDown0006(db)
      /\ Disturb("methodology", LiveIn(db, "methodology"), "not rehashed")
  BY DEF DowngradeMethodologyRoleRefs, Down, Rewrites
<1>2. CatalogueFits(db, HasRefs, Serving, TenantPins, disturbed) /\ Lineages(db, HasRefs)
  BY InvOfCatalogue
<1>3. Serving' = Serving /\ TenantPins' = TenantPins
  BY <1>1 DEF Serving, TenantPins
<1>4. On(HasRefs) /\ Off(HasRefs')
  BY <1>1 DEF On, Off, HasRefs
<1>5. schema' \in 5..13 /\ tenant' \in 8..10
  BY <1>1, InvOfCatalogue
<1>6. /\ \A k \in Kinds : MarksGrow(k, disturbed, disturbed')
      /\ \A i \in LiveIn(db, "methodology") : Marked(disturbed', "methodology", i)
  BY <1>a, DisturbedMore
<1>8. /\ CatalogueFits(Down0006(db), HasRefs', Serving, TenantPins, disturbed')
      /\ Migrates(db, Down0006(db), HasRefs, HasRefs')
  BY <1>2, <1>4, <1>6, <1>a, Down0006Fits
<1>. QED BY <1>a, <1>3, <1>5, <1>8, MigratedInv

(* 0007, up. *)
LEMMA UpgradeLvtSplitKeeps == ASSUME IInv, UpgradeLvtSplit PROVE IInv'
<1>1. schema = 6 /\ schema' = 7 /\ tenant' = tenant
  BY DEF UpgradeLvtSplit, Up
<1>a. /\ db' = RenameRole(db, "LVTRole", "LVTGuide") /\ Straddle
      /\ Disturb("role", Longer(ToRename(db, "LVTRole")), "renamed")
  BY DEF UpgradeLvtSplit, Up, Rewrites
<1>2. CatalogueFits(db, HasRefs, Serving, TenantPins, disturbed) /\ Lineages(db, HasRefs)
  BY InvOfCatalogue
<1>3. HasRefs' = HasRefs /\ Serving' = Serving /\ TenantPins' = TenantPins
  BY <1>1 DEF HasRefs, Serving, TenantPins
<1>5. schema' \in 5..13 /\ tenant' \in 8..10
  BY <1>1, InvOfCatalogue
<1>6. /\ \A k \in Kinds : MarksGrow(k, disturbed, disturbed')
      /\ \A i \in Longer(ToRename(db, "LVTRole")) : Marked(disturbed', "role", i)
  BY <1>a, DisturbedMore
<1>7. \A i \in ToRename(db, "LVTRole") : Len(db["role"][i].revs) > 1 => Marked(disturbed', "role", i)
  BY <1>6 DEF Longer
<1>8. /\ CatalogueFits(RenameRole(db, "LVTRole", "LVTGuide"), HasRefs, Serving, TenantPins, disturbed')
      /\ Migrates(db, RenameRole(db, "LVTRole", "LVTGuide"), HasRefs, HasRefs)
  BY <1>2, <1>6, <1>7, RenameFits
<1>. QED BY <1>a, <1>3, <1>5, <1>8, MigratedInv

(* 0007, down. *)
LEMMA DowngradeLvtSplitKeeps == ASSUME IInv, DowngradeLvtSplit PROVE IInv'
<1>1. schema = 7 /\ schema' = 6 /\ tenant' = tenant
  BY DEF DowngradeLvtSplit, Down
<1>a. /\ db' = RenameRole(db, "LVTGuide", "LVTRole") /\ Straddle
      /\ Disturb("role", Longer(ToRename(db, "LVTGuide")), "renamed")
  BY DEF DowngradeLvtSplit, Down, Rewrites
<1>2. CatalogueFits(db, HasRefs, Serving, TenantPins, disturbed) /\ Lineages(db, HasRefs)
  BY InvOfCatalogue
<1>3. HasRefs' = HasRefs /\ Serving' = Serving /\ TenantPins' = TenantPins
  BY <1>1 DEF HasRefs, Serving, TenantPins
<1>5. schema' \in 5..13 /\ tenant' \in 8..10
  BY <1>1, InvOfCatalogue
<1>6. /\ \A k \in Kinds : MarksGrow(k, disturbed, disturbed')
      /\ \A i \in Longer(ToRename(db, "LVTGuide")) : Marked(disturbed', "role", i)
  BY <1>a, DisturbedMore
<1>7. \A i \in ToRename(db, "LVTGuide") : Len(db["role"][i].revs) > 1 => Marked(disturbed', "role", i)
  BY <1>6 DEF Longer
<1>8. /\ CatalogueFits(RenameRole(db, "LVTGuide", "LVTRole"), HasRefs, Serving, TenantPins, disturbed')
      /\ Migrates(db, RenameRole(db, "LVTGuide", "LVTRole"), HasRefs, HasRefs)
  BY <1>2, <1>6, <1>7, RenameFits
<1>. QED BY <1>a, <1>3, <1>5, <1>8, MigratedInv

(* 0008, up. *)
LEMMA UpgradeMcKinseyKeeps == ASSUME IInv, UpgradeMcKinsey PROVE IInv'
<1>1. schema = 7 /\ schema' = 8 /\ tenant' = tenant
  BY DEF UpgradeMcKinsey, Up
<1>a. /\ db' = Up0008(db) /\ Straddle
      /\ disturbed' = disturbed
  BY DEF UpgradeMcKinsey, Up, Rewrites
<1>2. CatalogueFits(db, HasRefs, Serving, TenantPins, disturbed) /\ Lineages(db, HasRefs)
  BY InvOfCatalogue
<1>3. HasRefs' = HasRefs /\ Serving' = Serving /\ TenantPins' = TenantPins
  BY <1>1 DEF HasRefs, Serving, TenantPins
<1>4. On(HasRefs)
  BY <1>1 DEF On, Off, HasRefs
<1>5. schema' \in 5..13 /\ tenant' \in 8..10
  BY <1>1, InvOfCatalogue
<1>8. /\ CatalogueFits(Up0008(db), HasRefs, Serving, TenantPins, disturbed)
      /\ Migrates(db, Up0008(db), HasRefs, HasRefs)
  BY <1>2, <1>4, Up0008Fits
<1>. QED BY <1>a, <1>3, <1>5, <1>8, MigratedInv

(* 0008, down. *)
LEMMA DowngradeMcKinseyKeeps == ASSUME IInv, DowngradeMcKinsey PROVE IInv'
<1>1. schema = 8 /\ schema' = 7 /\ tenant' = tenant
  BY DEF DowngradeMcKinsey, Down
<1>a. /\ db' = Down0008(db) /\ Straddle
      /\ disturbed' = disturbed
  BY DEF DowngradeMcKinsey, Down, Rewrites
<1>2. CatalogueFits(db, HasRefs, Serving, TenantPins, disturbed) /\ Lineages(db, HasRefs)
  BY InvOfCatalogue
<1>3. HasRefs' = HasRefs /\ Serving' = Serving /\ TenantPins' = TenantPins
  BY <1>1 DEF HasRefs, Serving, TenantPins
<1>5. schema' \in 5..13 /\ tenant' \in 8..10
  BY <1>1, InvOfCatalogue
<1>8. /\ CatalogueFits(Down0008(db), HasRefs, Serving, TenantPins, disturbed)
      /\ Migrates(db, Down0008(db), HasRefs, HasRefs)
  BY <1>2, Down0008Fits
<1>. QED BY <1>a, <1>3, <1>5, <1>8, MigratedInv

(* 0009, up. *)
LEMMA UpgradeToolsKeeps == ASSUME IInv, UpgradeTools PROVE IInv'
<1>1. schema = 8 /\ schema' = 9 /\ tenant' = tenant
  BY DEF UpgradeTools, Up
<1>a. /\ db' = Up0009(db) /\ Straddle
      /\ disturbed' = disturbed
  BY DEF UpgradeTools, Up, Rewrites
<1>2. CatalogueFits(db, HasRefs, Serving, TenantPins, disturbed) /\ Lineages(db, HasRefs)
  BY InvOfCatalogue
<1>3. HasRefs' = HasRefs /\ Serving' = Serving /\ TenantPins' = TenantPins
  BY <1>1 DEF HasRefs, Serving, TenantPins
<1>5. schema' \in 5..13 /\ tenant' \in 8..10
  BY <1>1, InvOfCatalogue
<1>8. /\ CatalogueFits(Up0009(db), HasRefs, Serving, TenantPins, disturbed)
      /\ Migrates(db, Up0009(db), HasRefs, HasRefs)
  BY <1>2, Up0009Fits
<1>. QED BY <1>a, <1>3, <1>5, <1>8, MigratedInv

(* 0009, down. *)
LEMMA DowngradeToolsKeeps == ASSUME IInv, DowngradeTools PROVE IInv'
<1>1. schema = 9 /\ schema' = 8 /\ tenant' = tenant
  BY DEF DowngradeTools, Down
<1>a. /\ db' = Down0009(db) /\ Straddle
      /\ disturbed' = disturbed
  BY DEF DowngradeTools, Down, Rewrites
<1>2. CatalogueFits(db, HasRefs, Serving, TenantPins, disturbed) /\ Lineages(db, HasRefs)
  BY InvOfCatalogue
<1>3. HasRefs' = HasRefs /\ Serving' = Serving /\ TenantPins' = TenantPins
  BY <1>1 DEF HasRefs, Serving, TenantPins
<1>5. schema' \in 5..13 /\ tenant' \in 8..10
  BY <1>1, InvOfCatalogue
<1>8. /\ CatalogueFits(Down0009(db), HasRefs, Serving, TenantPins, disturbed)
      /\ Migrates(db, Down0009(db), HasRefs, HasRefs)
  BY <1>2, Down0009Fits
<1>. QED BY <1>a, <1>3, <1>5, <1>8, MigratedInv

(* 0010, up. *)
LEMMA UpgradeAllowlistPinKeeps == ASSUME IInv, UpgradeAllowlistPin PROVE IInv'
<1>1. schema = 9 /\ schema' = 10 /\ tenant' = tenant
  BY DEF UpgradeAllowlistPin, Up
<1>a. /\ db' = PinAllowlists(db, "role") /\ Straddle
      /\ disturbed' = disturbed
  BY DEF UpgradeAllowlistPin, Up, Rewrites
<1>2. CatalogueFits(db, HasRefs, Serving, TenantPins, disturbed) /\ Lineages(db, HasRefs)
  BY InvOfCatalogue
<1>3. HasRefs' = HasRefs /\ TenantPins' = TenantPins
  BY <1>1 DEF HasRefs, TenantPins
<1>4. Off(Serving) /\ On(Serving')
  BY <1>1 DEF On, Off, Serving
<1>5. schema' \in 5..13 /\ tenant' \in 8..10
  BY <1>1, InvOfCatalogue
<1>8. /\ CatalogueFits(PinAllowlists(db, "role"), HasRefs, Serving', TenantPins, disturbed)
      /\ Migrates(db, PinAllowlists(db, "role"), HasRefs, HasRefs)
  BY <1>2, <1>4, PinRolesFits
<1>. QED BY <1>a, <1>3, <1>5, <1>8, MigratedInv

(* 0010, down. *)
LEMMA DowngradeAllowlistPinKeeps == ASSUME IInv, DowngradeAllowlistPin PROVE IInv'
<1>1. schema = 10 /\ schema' = 9 /\ tenant' = tenant
  BY DEF DowngradeAllowlistPin, Down
<1>a. /\ db' = UnpinAllowlists(db, "role") /\ Straddle
      /\ disturbed' = disturbed
  BY DEF DowngradeAllowlistPin, Down, Rewrites
<1>2. CatalogueFits(db, HasRefs, Serving, TenantPins, disturbed) /\ Lineages(db, HasRefs)
  BY InvOfCatalogue
<1>3. HasRefs' = HasRefs /\ TenantPins' = TenantPins
  BY <1>1 DEF HasRefs, TenantPins
<1>4. On(Serving) /\ Off(Serving')
  BY <1>1 DEF On, Off, Serving
<1>5. schema' \in 5..13 /\ tenant' \in 8..10
  BY <1>1, InvOfCatalogue
<1>8. /\ CatalogueFits(UnpinAllowlists(db, "role"), HasRefs, Serving', TenantPins, disturbed)
      /\ Migrates(db, UnpinAllowlists(db, "role"), HasRefs, HasRefs)
  BY <1>2, <1>4, UnpinRolesFits
<1>. QED BY <1>a, <1>3, <1>5, <1>8, MigratedInv

(* 0012, up. *)
LEMMA UpgradeRetrievalClosureKeeps == ASSUME IInv, UpgradeRetrievalClosure PROVE IInv'
<1>1. schema = 10 /\ schema' = 12 /\ tenant' = tenant
  BY DEF UpgradeRetrievalClosure, Up
<1>a. /\ db' = Up0012(db) /\ Straddle
      /\ Disturb("role", {i \in OfNamedRoles(db) :
            SkipsAfterRewrite(db["role"][i], RowsWithAllowlist(db["role"][i]))}, "skipped")
  BY DEF UpgradeRetrievalClosure, Up, Rewrites
<1>2. CatalogueFits(db, HasRefs, Serving, TenantPins, disturbed) /\ Lineages(db, HasRefs)
  BY InvOfCatalogue
<1>3. HasRefs' = HasRefs /\ Serving' = Serving /\ TenantPins' = TenantPins
  BY <1>1 DEF HasRefs, Serving, TenantPins
<1>4. On(Serving)
  BY <1>1 DEF On, Off, Serving
<1>5. schema' \in 5..13 /\ tenant' \in 8..10
  BY <1>1, InvOfCatalogue
<1>6. /\ \A k \in Kinds : MarksGrow(k, disturbed, disturbed')
      /\ \A i \in OfNamedRoles(db) :
           SkipsAfterRewrite(db["role"][i], RowsWithAllowlist(db["role"][i])) => Marked(disturbed', "role", i)
  BY <1>a, DisturbedMore
<1>8. /\ CatalogueFits(Up0012(db), HasRefs, Serving, TenantPins, disturbed')
      /\ Migrates(db, Up0012(db), HasRefs, HasRefs)
  BY <1>2, <1>4, <1>6, Up0012Fits
<1>. QED BY <1>a, <1>3, <1>5, <1>8, MigratedInv

(* 0012, down. *)
LEMMA DowngradeRetrievalClosureKeeps == ASSUME IInv, DowngradeRetrievalClosure PROVE IInv'
<1>1. schema = 12 /\ schema' = 10 /\ tenant' = tenant
  BY DEF DowngradeRetrievalClosure, Down
<1>a. /\ db' = Down0012(db) /\ Straddle
      /\ Disturb("role", {i \in OfNamedRoles(db) :
            SkipsAfterRewrite(db["role"][i], RowsLackingRetrieval(db["role"][i]))}, "skipped")
  BY DEF DowngradeRetrievalClosure, Down, Rewrites
<1>2. CatalogueFits(db, HasRefs, Serving, TenantPins, disturbed) /\ Lineages(db, HasRefs)
  BY InvOfCatalogue
<1>3. HasRefs' = HasRefs /\ Serving' = Serving /\ TenantPins' = TenantPins
  BY <1>1 DEF HasRefs, Serving, TenantPins
<1>4. On(Serving)
  BY <1>1 DEF On, Off, Serving
<1>5. schema' \in 5..13 /\ tenant' \in 8..10
  BY <1>1, InvOfCatalogue
<1>6. /\ \A k \in Kinds : MarksGrow(k, disturbed, disturbed')
      /\ \A i \in OfNamedRoles(db) :
           SkipsAfterRewrite(db["role"][i], RowsLackingRetrieval(db["role"][i])) => Marked(disturbed', "role", i)
  BY <1>a, DisturbedMore
<1>8. /\ CatalogueFits(Down0012(db), HasRefs, Serving, TenantPins, disturbed')
      /\ Migrates(db, Down0012(db), HasRefs, HasRefs)
  BY <1>2, <1>4, <1>6, Down0012Fits
<1>. QED BY <1>a, <1>3, <1>5, <1>8, MigratedInv

(* 0013, up. *)
LEMMA UpgradeLvtGuideReseedKeeps == ASSUME IInv, UpgradeLvtGuideReseed PROVE IInv'
<1>1. schema = 12 /\ schema' = 13 /\ tenant' = tenant
  BY DEF UpgradeLvtGuideReseed, Up
<1>a. /\ db' = Up0013(db) /\ Straddle
      /\ disturbed' = disturbed
  BY DEF UpgradeLvtGuideReseed, Up, Rewrites
<1>2. CatalogueFits(db, HasRefs, Serving, TenantPins, disturbed) /\ Lineages(db, HasRefs)
  BY InvOfCatalogue
<1>3. HasRefs' = HasRefs /\ Serving' = Serving /\ TenantPins' = TenantPins
  BY <1>1 DEF HasRefs, Serving, TenantPins
<1>5. schema' \in 5..13 /\ tenant' \in 8..10
  BY <1>1, InvOfCatalogue
<1>8. /\ CatalogueFits(Up0013(db), HasRefs, Serving, TenantPins, disturbed)
      /\ Migrates(db, Up0013(db), HasRefs, HasRefs)
  BY <1>2, Up0013Fits
<1>. QED BY <1>a, <1>3, <1>5, <1>8, MigratedInv

(* 0013, down. *)
LEMMA DowngradeLvtGuideReseedKeeps == ASSUME IInv, DowngradeLvtGuideReseed PROVE IInv'
<1>1. schema = 13 /\ schema' = 12 /\ tenant' = tenant
  BY DEF DowngradeLvtGuideReseed, Down
<1>a. /\ db' = Down0013(db) /\ Straddle
      /\ disturbed' = disturbed
  BY DEF DowngradeLvtGuideReseed, Down, Rewrites
<1>2. CatalogueFits(db, HasRefs, Serving, TenantPins, disturbed) /\ Lineages(db, HasRefs)
  BY InvOfCatalogue
<1>3. HasRefs' = HasRefs /\ Serving' = Serving /\ TenantPins' = TenantPins
  BY <1>1 DEF HasRefs, Serving, TenantPins
<1>5. schema' \in 5..13 /\ tenant' \in 8..10
  BY <1>1, InvOfCatalogue
<1>8. /\ CatalogueFits(Down0013(db), HasRefs, Serving, TenantPins, disturbed)
      /\ Migrates(db, Down0013(db), HasRefs, HasRefs)
  BY <1>2, Down0013Fits
<1>. QED BY <1>a, <1>3, <1>5, <1>8, MigratedInv

(* The tenants' 0009, up. *)
LEMMA UpgradeRoleLineageKeeps == ASSUME IInv, UpgradeRoleLineage PROVE IInv'
<1>1. schema = 13 /\ schema' = schema /\ tenant = 8 /\ tenant' = 9
  BY DEF UpgradeRoleLineage, TenantUp
<1>a. /\ db' = BackfillRoleLineage(db) /\ Straddle
      /\ disturbed' = disturbed
  BY DEF UpgradeRoleLineage, TenantUp, Rewrites
<1>2. CatalogueFits(db, HasRefs, Serving, TenantPins, disturbed) /\ Lineages(db, HasRefs)
  BY InvOfCatalogue
<1>3. HasRefs' = HasRefs /\ Serving' = Serving /\ TenantPins' = TenantPins
  BY <1>1 DEF HasRefs, Serving, TenantPins
<1>4. On(HasRefs)
  BY <1>1 DEF On, Off, HasRefs
<1>5. schema' \in 5..13 /\ tenant' \in 8..10
  BY <1>1, InvOfCatalogue
<1>8. /\ CatalogueFits(BackfillRoleLineage(db), HasRefs, Serving, TenantPins, disturbed)
      /\ Migrates(db, BackfillRoleLineage(db), HasRefs, HasRefs)
  BY <1>2, <1>4, BackfillFits
<1>. QED BY <1>a, <1>3, <1>5, <1>8, MigratedInv

(* The tenants' 0009, down. *)
LEMMA DowngradeRoleLineageKeeps == ASSUME IInv, DowngradeRoleLineage PROVE IInv'
<1>1. schema' = schema /\ tenant = 9 /\ tenant' = 8
  BY DEF DowngradeRoleLineage, TenantDown
<1>a. /\ db' = DropRoleLineage(db) /\ Straddle
      /\ disturbed' = disturbed
  BY DEF DowngradeRoleLineage, TenantDown, Rewrites
<1>2. CatalogueFits(db, HasRefs, Serving, TenantPins, disturbed) /\ Lineages(db, HasRefs)
  BY InvOfCatalogue
<1>3. HasRefs' = HasRefs /\ Serving' = Serving /\ TenantPins' = TenantPins
  BY <1>1 DEF HasRefs, Serving, TenantPins
<1>5. schema' \in 5..13 /\ tenant' \in 8..10
  BY <1>1, InvOfCatalogue
<1>8. /\ CatalogueFits(DropRoleLineage(db), HasRefs, Serving, TenantPins, disturbed)
      /\ Migrates(db, DropRoleLineage(db), HasRefs, HasRefs)
  BY <1>2, DropLineageFits
<1>. QED BY <1>a, <1>3, <1>5, <1>8, MigratedInv

(* The tenants' 0010, up. *)
LEMMA UpgradeAgentAllowlistPinKeeps == ASSUME IInv, UpgradeAgentAllowlistPin PROVE IInv'
<1>1. schema = 13 /\ schema' = schema /\ tenant = 9 /\ tenant' = 10
  BY DEF UpgradeAgentAllowlistPin, TenantUp
<1>a. /\ db' = PinAllowlists(db, "agent") /\ Straddle
      /\ disturbed' = disturbed
  BY DEF UpgradeAgentAllowlistPin, TenantUp, Rewrites
<1>2. CatalogueFits(db, HasRefs, Serving, TenantPins, disturbed) /\ Lineages(db, HasRefs)
  BY InvOfCatalogue
<1>3. HasRefs' = HasRefs /\ Serving' = Serving
  BY <1>1 DEF HasRefs, Serving
<1>4. Off(TenantPins) /\ On(TenantPins')
  BY <1>1 DEF On, Off, TenantPins
<1>5. schema' \in 5..13 /\ tenant' \in 8..10
  BY <1>1, InvOfCatalogue
<1>8. /\ CatalogueFits(PinAllowlists(db, "agent"), HasRefs, Serving, TenantPins', disturbed)
      /\ Migrates(db, PinAllowlists(db, "agent"), HasRefs, HasRefs)
  BY <1>2, <1>4, PinAgentsFits
<1>. QED BY <1>a, <1>3, <1>5, <1>8, MigratedInv

(* The tenants' 0010, down. *)
LEMMA DowngradeAgentAllowlistPinKeeps == ASSUME IInv, DowngradeAgentAllowlistPin PROVE IInv'
<1>1. schema' = schema /\ tenant = 10 /\ tenant' = 9
  BY DEF DowngradeAgentAllowlistPin, TenantDown
<1>a. /\ db' = UnpinAllowlists(db, "agent") /\ Straddle
      /\ disturbed' = disturbed
  BY DEF DowngradeAgentAllowlistPin, TenantDown, Rewrites
<1>2. CatalogueFits(db, HasRefs, Serving, TenantPins, disturbed) /\ Lineages(db, HasRefs)
  BY InvOfCatalogue
<1>3. HasRefs' = HasRefs /\ Serving' = Serving
  BY <1>1 DEF HasRefs, Serving
<1>4. On(TenantPins) /\ Off(TenantPins')
  BY <1>1 DEF On, Off, TenantPins
<1>5. schema' \in 5..13 /\ tenant' \in 8..10
  BY <1>1, InvOfCatalogue
<1>8. /\ CatalogueFits(UnpinAllowlists(db, "agent"), HasRefs, Serving, TenantPins', disturbed)
      /\ Migrates(db, UnpinAllowlists(db, "agent"), HasRefs, HasRefs)
  BY <1>2, <1>4, UnpinAgentsFits
<1>. QED BY <1>a, <1>3, <1>5, <1>8, MigratedInv

(* Every data migration, up or down, keeps the invariant: it leaves the rows
   shaped for its era, the chains that no mark excuses intact and the lineages
   rooted (the versions of both databases, migrated one step at a time). *)
THEOREM MigrationStepKeeps == ASSUME IInv, MigrationStep PROVE IInv'
BY UpgradeMethodologyRoleRefsKeeps,
   DowngradeMethodologyRoleRefsKeeps,
   UpgradeLvtSplitKeeps,
   DowngradeLvtSplitKeeps,
   UpgradeMcKinseyKeeps,
   DowngradeMcKinseyKeeps,
   UpgradeToolsKeeps,
   DowngradeToolsKeeps,
   UpgradeAllowlistPinKeeps,
   DowngradeAllowlistPinKeeps,
   UpgradeRetrievalClosureKeeps,
   DowngradeRetrievalClosureKeeps,
   UpgradeLvtGuideReseedKeeps,
   DowngradeLvtGuideReseedKeeps,
   UpgradeRoleLineageKeeps,
   DowngradeRoleLineageKeeps,
   UpgradeAgentAllowlistPinKeeps,
   DowngradeAgentAllowlistPinKeeps
   DEF MigrationStep
=============================================================================
