---------------------------- MODULE Composition ----------------------------
(***************************************************************************)
(* How the constraint bundle an invocation runs under is composed from the *)
(* bundle of the agent's role and the overrides its methodology states for *)
(* that role.                                                              *)
(*                                                                         *)
(* A prompt is the sequence of texts joined into it, a filter tree the set *)
(* of conditions it joins with "and", a score an integer.  The allowlist   *)
(* is the set of its entries, each a tool and the revision it is pinned to.*)
(***************************************************************************)
EXTENDS Integers, Sequences

Least(a, b) == IF a <= b THEN a ELSE b
Greatest(a, b) == IF a >= b THEN a ELSE b

(* ------------------------------ overrides ------------------------------ *)

\* DEFAULT_MODE_BY_FIELD: the mode of an override written as a bare value.
DefaultMode ==
    [system_prompt |-> "augment", tool_allowlist |-> "tighten",
     retrieval_strategy |-> "replace", filter_tree |-> "tighten",
     top_k |-> "tighten", min_score |-> "tighten", model_selection |-> "replace"]

BundleFields == DOMAIN DefaultMode

\* Every field can be replaced, and changed in its own default mode.
Admissible(field, mode) ==
    /\ field \in BundleFields
    /\ mode \in {"replace", DefaultMode[field]}

ModeOf(field, entry) ==
    IF entry.mode = "bare" THEN DefaultMode[field] ELSE entry.mode

\* The fields an authored map may override; otherwise OverrideValidationError.
ValidOverrides(raw) ==
    \A field \in DOMAIN raw :
        field \in BundleFields /\ Admissible(field, ModeOf(field, raw[field]))

ProjectOverrides(raw) ==
    [field \in DOMAIN raw |->
        [mode |-> ModeOf(field, raw[field]), value |-> raw[field].value]]

(* ----------------------------- composition ----------------------------- *)

\* An override replaces the role's value or is combined with it.
Resolve(overrides, field, base, combined) ==
    IF field \notin DOMAIN overrides THEN base
    ELSE IF overrides[field].mode = "replace" THEN overrides[field].value
    ELSE combined

ResolveTextField(overrides, field, base) ==
    Resolve(overrides, field, base, base \o overrides[field].value)

\* Variant: the entries of the override are kept, with their own pins.
ResolveToolAllowlist_KeepsIncoming(overrides, base) ==
    Resolve(overrides, "tool_allowlist", base,
        {e \in overrides["tool_allowlist"].value : \E f \in base : f.tool = e.tool})

\* Tightening goes by tool: the entries left keep the role's pins.
ResolveToolAllowlist(overrides, base) ==
    Resolve(overrides, "tool_allowlist", base,
        {e \in base : \E f \in overrides["tool_allowlist"].value : f.tool = e.tool})

ResolveFilterTree(overrides, base) ==
    Resolve(overrides, "filter_tree", base, base \union overrides["filter_tree"].value)

ResolveNumericTighten(overrides, field, base) ==
    Resolve(overrides, field, base,
        IF field = "top_k" THEN Least(base, overrides[field].value)
                           ELSE Greatest(base, overrides[field].value))

\* No other mode than "replace" reaches these two.
ResolveReplaceOnly(overrides, field, base) ==
    IF field \in DOMAIN overrides THEN overrides[field].value ELSE base

ComposeEffectiveConstraintBundle(role, overrides) ==
    [system_prompt |-> ResolveTextField(overrides, "system_prompt", role.system_prompt),
     tool_allowlist |-> ResolveToolAllowlist(overrides, role.tool_allowlist),
     retrieval_strategy |->
        ResolveReplaceOnly(overrides, "retrieval_strategy", role.retrieval_strategy),
     filter_tree |-> ResolveFilterTree(overrides, role.filter_tree),
     top_k |-> ResolveNumericTighten(overrides, "top_k", role.top_k),
     min_score |-> ResolveNumericTighten(overrides, "min_score", role.min_score),
     model_selection |->
        ResolveReplaceOnly(overrides, "model_selection", role.model_selection)]
=============================================================================
