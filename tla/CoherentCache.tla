---------------------------- MODULE CoherentCache ----------------------------
(***************************************************************************)
(* What a cache that is emptied after every change of what it caches       *)
(* promises, whatever it holds.  truth[k] is what the entry for k should   *)
(* be, cached[k] what it is, and untrusted the keys whose entries may be   *)
(* wrong because an invalidation is still on its way.  A change of the     *)
(* truth makes every key untrusted; a key becomes trusted again only by    *)
(* losing its entry; and the entry of a trusted key is filled with the     *)
(* truth.                                                                  *)
(***************************************************************************)
CONSTANTS
    Keys,
    Values,
    Absent      \* no entry

VARIABLES truth, cached, untrusted

vars == <<truth, cached, untrusted>>

Init ==
    /\ truth \in [Keys -> Values]
    /\ cached = [k \in Keys |-> Absent]
    /\ untrusted \in SUBSET Keys

(* Something the entries depend on changes, or is about to. *)
Change ==
    /\ untrusted' = Keys
    /\ UNCHANGED cached
    /\ truth' \in [Keys -> Values]

(* The entry of one key goes; the key may be trusted from now on. *)
Invalidate(k) ==
    /\ cached' = [cached EXCEPT ![k] = Absent]
    /\ untrusted' \in {untrusted, untrusted \ {k}}
    /\ UNCHANGED truth

(* An absent entry is computed; a trusted one is right. *)
Fill(k) ==
    /\ cached[k] = Absent
    /\ cached'[k] # Absent
    /\ cached'[k] \in Values
    /\ cached' = [cached EXCEPT ![k] = cached'[k]]
    /\ k \notin untrusted => cached'[k] = truth[k]
    /\ UNCHANGED <<truth, untrusted>>

Next ==
    \/ Change
    \/ \E k \in Keys : Invalidate(k) \/ Fill(k)

Spec == Init /\ [][Next]_vars

(* The entry of a trusted key is right. *)
Coherent ==
    \A k \in Keys \ untrusted : cached[k] # Absent => cached[k] = truth[k]
==============================================================================
