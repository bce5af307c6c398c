--------------------------- MODULE MCModelRegistry ---------------------------
(***************************************************************************)
(* Instances of ModelRegistry for TLC.  A page of type "app/page" whose    *)
(* super type "app/base" can be taken away and put back, on a node of type *)
(* "nt:base"; one model for the page, one for the base and the node type,  *)
(* each from a bundle of its own.                                          *)
(***************************************************************************)
EXTENDS ModelRegistry, TLC

CONSTANTS b1, b2, s1, s2, page, target

MCTypes == {"app/page", "app/base", "nt:base"}
MCBundleOf == s1 :> b1 @@ s2 :> b2
MCTypesOf == s1 :> <<"app/page">> @@ s2 :> <<"app/base", "nt:base">>
MCNameOf == s1 :> "teaser" @@ s2 :> "item"
MCAssignableTo == s1 :> {target} @@ s2 :> {target}

MCSignature == page :> <<"app/page", "nt:base">>
MCResourceType == page :> "app/page"
MCFurtherTypes == page :> <<"nt:base">>

NoSuper == [y \in MCTypes |-> NoType]
WithBase == [NoSuper EXCEPT !["app/page"] = "app/base"]
MCHierarchies == {NoSuper, WithBase}

Ask(r, kind, arg) == [resource |-> r, kind |-> kind, arg |-> arg]

AnyOfPage == {Ask(page, "any", "")}
NamedOfPage == {Ask(page, "name", "item")}

(* Why KeysSeparate has to be assumed: lookupAllModels and a lookup by the *)
(* name allModels share a key, so that one gets the answer of the other    *)
(* (ModelRegistry.java 158, 204).                                          *)
ASSUME KeysCollide == Key(Ask(page, "all", "")) = Key(Ask(page, "name", "allModels"))
==============================================================================
