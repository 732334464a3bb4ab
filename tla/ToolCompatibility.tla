------------------------- MODULE ToolCompatibility -------------------------
(***************************************************************************)
(* The backward-compatibility check of tool revisions, and what a caller   *)
(* of a tool relies on.                                                    *)
(*                                                                         *)
(* A schema maps each property to its types and whether it is required;    *)
(* an empty set of types is a property without a "type".  A scalar type is *)
(* a set of one.  The results have types of their own, besides those of    *)
(* their properties.                                                       *)
(***************************************************************************)
EXTENDS Integers, FiniteSets

Untyped(property) == property.types = {}
RequiredIn(schema) == {p \in DOMAIN schema : schema[p].required}

\* A type may become a list that still admits it; a list may grow.
IsTypeWidening(old, new) == old \subseteq new /\ Cardinality(new) > 1

KeepsTypes(old, new) ==
    \A p \in DOMAIN old \intersect DOMAIN new :
        \/ Untyped(old[p]) \/ Untyped(new[p])
        \/ old[p].types = new[p].types
        \/ IsTypeWidening(old[p].types, new[p].types)

\* Nothing removed, nothing newly required, no type narrowed.
DiffParameters(old, new) ==
    /\ DOMAIN old \subseteq DOMAIN new
    /\ RequiredIn(new) \subseteq RequiredIn(old)
    /\ KeepsTypes(old, new)

\* Nothing removed, and neither the type of the results nor one of a
\* property narrowed.
DiffReturns(old, new) ==
    /\ KeepsTypes([result |-> old], [result |-> new])
    /\ DOMAIN old.properties \subseteq DOMAIN new.properties
    /\ KeepsTypes(old.properties, new.properties)

CheckRevisionCompatibility(old, new) ==
    IF DiffParameters(old.parameters, new.parameters) /\ DiffReturns(old.returns, new.returns)
    THEN "passed" ELSE "failed"

-----------------------------------------------------------------------------
(* What the check is for: a call written against one revision is a set of  *)
(* arguments its schema accepts.                                           *)

TypeNames == {"string", "number"}
Admits(property, t) == Untyped(property) \/ t \in property.types

Accepts(schema, arguments) ==
    /\ RequiredIn(schema) \subseteq DOMAIN arguments
    /\ \A p \in DOMAIN arguments :
        p \in DOMAIN schema /\ Admits(schema[p], arguments[p])

CallsOf(schema) ==
    {arguments \in UNION {[P -> TypeNames] : P \in SUBSET DOMAIN schema} :
        Accepts(schema, arguments)}

ServesCallsOf(new, old) == \A arguments \in CallsOf(old) : Accepts(new, arguments)
=============================================================================
