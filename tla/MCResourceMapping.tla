-------------------------- MODULE MCResourceMapping --------------------------
(***************************************************************************)
(* Instances of ResourceMapping for TLC: two pages that are mapped to one  *)
(* type and a teaser that is mapped to another, with every way in which    *)
(* they can ask for each other in a family of contents.                    *)
(***************************************************************************)
EXTENDS ResourceMapping, TLC

CONSTANTS page, home, teaser, Page, Teaser

MCMappings == {page, home, teaser}
MCTypeOf == page :> Page @@ home :> Page @@ teaser :> Teaser

(* The teaser can be asked for under two keys: by its type and by a name.  *)
MCAdaptations == {"page", "home", "teaser", "byName", "none", "several"}
MCMappingOf ==
    "page" :> page @@ "home" :> home @@ "teaser" :> teaser @@ "byName" :> teaser
    @@ "none" :> NoModel @@ "several" :> Ambiguous

Silent == [p \in Phases |-> <<>>]
Fields(f) == [Silent EXCEPT !["fields"] = f]

(* A model with fields, whose code asks for one thing in any phase. *)
Lively(fields, others) ==
    {[Fields(f) EXCEPT ![p] = g] :
        f \in fields, p \in ModelPhases, g \in {<<>>} \cup {<<a>> : a \in others}}

MCContents ==
    {page :> x @@ teaser :> y @@ home :> Silent :
        x \in Lively({<<"teaser">>}, {"teaser", "several"}),
        y \in Lively({<<>>, <<"page">>}, {"page"})}
    \cup
    {page :> Fields(f) @@ teaser :> Fields(g) @@ home :> Fields(h) :
        f \in {<<"home", "teaser">>, <<"teaser", "home">>},
        g \in {<<"home">>, <<"page">>, <<"byName">>}, h \in {<<>>, <<"teaser">>}}
==============================================================================
