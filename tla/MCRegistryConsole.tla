-------------------------- MODULE MCRegistryConsole --------------------------
(***************************************************************************)
(* Four rows: a resolvable and an unresolvable one for each of two models. *)
(***************************************************************************)
EXTENDS RegistryConsole, TLC

CONSTANTS r1, r2, r3, r4, Page, Teaser

MCModelTypeOf == r1 :> Page @@ r2 :> Page @@ r3 :> Teaser @@ r4 :> Teaser
MCAnswers == {{}, {Page}, {Teaser}, {Page, Teaser}}
==============================================================================
