----------------------------- MODULE AtMostOnce -----------------------------
(***************************************************************************)
(* What a POST with an Idempotency-Key promises its callers (05-api.md     *)
(* 88-90, api/v1.md 1040), without handlers, stores or scopes: an effect   *)
(* happens under its key, callers are told of effects that did happen, and *)
(* as long as the key's promise stands there is one of them at most.  The  *)
(* promise lapses where nobody gives it: POSTs that overlap, an entry that *)
(* expired, a restart.                                                     *)
(***************************************************************************)
CONSTANTS Keys, Effects

VARIABLES
    effects,   \* per key: what was done at the broker
    told,      \* per key: the effects that replies named
    lapsed     \* keys whose promise no longer stands

keyVars == <<effects, told, lapsed>>

-----------------------------------------------------------------------------
\* The one effect of a key whose promise stands; it is new, and the caller is told.
Perform(k, e) ==
    /\ effects[k] = {} \/ k \in lapsed
    /\ \A other \in Keys : e \notin effects[other]
    /\ effects' = [effects EXCEPT ![k] = @ \cup {e}]
    /\ told' = [told EXCEPT ![k] = @ \cup {e}]
    /\ UNCHANGED lapsed

\* A retry is answered with an effect of its own key.
Repeat(k) ==
    /\ \E e \in effects[k] : told' = [told EXCEPT ![k] = @ \cup {e}]
    /\ UNCHANGED <<effects, lapsed>>

Lapse == \E gone \in SUBSET Keys : /\ lapsed' = lapsed \cup gone
                                   /\ UNCHANGED <<effects, told>>

KeysInit ==
    /\ effects = [k \in Keys |-> {}]
    /\ told = [k \in Keys |-> {}]
    /\ lapsed = {}

KeysNext ==
    \/ \E k \in Keys, e \in Effects : Perform(k, e)
    \/ \E k \in Keys : Repeat(k)
    \/ Lapse

KeysSpec == KeysInit /\ [][KeysNext]_keyVars
=============================================================================
