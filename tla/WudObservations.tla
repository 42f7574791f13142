--------------------------- MODULE WudObservations ---------------------------
(* The payload of WUD's API and what WUDup makes of it                        *)
(* (web_wud_observations.py): which containers have an update, which keep the *)
(* result of an earlier check because the last one failed, and of which       *)
(* nothing is known.                                                          *)
(*                                                                            *)
(* All containers run one repository.  An image is 0 or 1, and 1 is the       *)
(* newest: an update is available exactly for a container with 0.             *)
EXTENDS FiniteSets

CONSTANTS Containers, None

Checks == {"ok", "degraded", "unsupported"}

(* One container of a payload: the result of WUD's last check, the local      *)
(* image, and whether its digest is told (_parse_container_observation).      *)
Item == [check : Checks, image : {0, 1}, digest : BOOLEAN]
Payload == [Containers -> Item]

(* An entry of _pending_observation_cache.  on is the image the container had *)
(* in the payload that the entry was last made from.                          *)
Observation == [c : Containers, image : {0, 1}, digest : BOOLEAN, on : {0, 1},
                status : {"fresh", "retained"}]

(* Mutant: a status that nobody knows. *)
ObservedTypo(c, item) ==
    [c |-> c, image |-> item.image, digest |-> item.digest, on |-> item.image,
     status |-> "new"]

Observed(c, item) ==
    [c |-> c, image |-> item.image, digest |-> item.digest, on |-> item.image,
     status |-> "fresh"]

(* Mutant: the container's id is enough. *)
PreviousById(pending, c, item) == {p \in pending : p.c = c}

(* _previous_observation_for_container: the identity has the image and its    *)
(* digest; one image id makes up for a digest that is not told now.           *)
Previous(pending, c, item) ==
    LET alike == {p \in pending : p.c = c /\ p.image = item.image}
        exact == {p \in alike : p.digest = item.digest}
    IN  IF exact # {} \/ item.digest THEN exact
        ELSE IF Cardinality(alike) = 1 THEN alike ELSE {}

(* Mutant: what is retained is shown, but not remembered. *)
RememberedOnce(kept) == {}

(* _retain_previous_observation writes the entry back for the next refresh.   *)
Remembered(kept) == kept

(* _reconcile_degraded_observation *)
KeptFrom(pending, payload) ==
    {[p EXCEPT !.status = "retained", !.on = payload[p.c].image]
        : p \in UNION {Previous(pending, c, payload[c])
                           : c \in {c \in Containers : payload[c].check # "ok"}}}

(* _reconcile_container_observations *)
Reconcile(pending, payload) ==
    LET healthy == {Observed(c, payload[c])
                        : c \in {c \in Containers : payload[c].check = "ok" /\ payload[c].image = 0}}
        kept == KeptFrom(pending, payload)
        degraded == {c \in Containers : payload[c].check = "degraded"}
    IN  [updates |-> healthy \cup kept,
         degraded |-> degraded,
         unresolved |-> {<<c, payload[c].image>> : c \in degraded \ {p.c : p \in kept}},
         pending |-> healthy \cup Remembered(kept)]
=============================================================================
