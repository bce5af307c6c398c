------------------------- MODULE MCModelRegistration -------------------------
(***************************************************************************)
(* Instances of ModelRegistration for TLC: a factory with two models and   *)
(* one with a third, which has an interface in common with the first.      *)
(***************************************************************************)
EXTENDS ModelRegistration, TLC

CONSTANTS pages, teasers

MCModels == {"page", "home", "teaser"}
MCClasses == {"Page", "Home", "Teaser"}
MCNames == MCClasses \cup {"HasTitle"}
MCNamesOf == "Page" :> {"Page", "HasTitle"} @@ "Home" :> {"Home"}
             @@ "Teaser" :> {"Teaser", "HasTitle"}

MCDefinitionsOf == pages :> <<"page", "home">> @@ teasers :> <<"teaser">>

OwnClass == "page" :> "Page" @@ "home" :> "Home" @@ "teaser" :> "Teaser"

OwnBundle == pages :> "site" @@ teasers :> "library"
==============================================================================
