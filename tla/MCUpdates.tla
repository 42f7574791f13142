------------------------------ MODULE MCUpdates ------------------------------
(* Updates for TLC.                                                           *)
EXTENDS Updates, MCUpdaterRun

CONSTANTS c1, c2, u1, u2

(* Two lines and three services for PlanApply.                               *)
PlanSlots == {<<"s1", "a">>, <<"s1", "b">>, <<"s2", "a">>}
PlanTarget(f, t) == [from |-> f, to |-> t]
PlanTargets == {PlanTarget("v1a", "v2a"), PlanTarget("v1a", "v2b"), PlanTarget("v1a", "dig")}
FirstList == 1 :> PlanTarget("v1a", "v2a") @@ 2 :> PlanTarget("v1a", "v3a")
PlanLists ==
    {FirstList,
     (1 :> PlanTarget("v1a", "v2b") @@ 2 :> PlanTarget("v1a", "")),
     (1 :> PlanTarget("v1a", "dig") @@ 2 :> PlanTarget("v0a", "v2a"))}
PlanFile(x, y, z) == <<"s1", "a">> :> x @@ <<"s1", "b">> :> y @@ <<"s2", "a">> :> z
PlanFiles == {PlanFile("v1a", "off", "v1a"), PlanFile("pin", "v0a", "pin")}
PlanOption(allow, v, d) ==
    [allow |-> allow, over |-> (1 :> v @@ 2 :> ""), dec |-> (1 :> d @@ 2 :> "")]
PlanOptions ==
    {PlanOption(FALSE, "", ""), PlanOption(TRUE, "", ""), PlanOption(TRUE, "v3a", ""),
     PlanOption(TRUE, "", "preserve"), PlanOption(TRUE, "", "switch")}

PlanImages == {"v1a", "v0a", "pin", "off"}
PlanLines == {1, 2}

(* PartsInit, where a component that does not run starts in one state.      *)
MCInit ==
    /\ part \in {"run", "pending", "plan"}
    /\ Init
    /\ part = "run" \/ (file = <<a, b>>)
    /\ PO!Init
    /\ part = "pending" \/ (po_config = [source |-> u1, auth |-> FALSE])
    /\ PA!Init
    /\ part = "plan" \/ (pa_list.text = FirstList /\ ~pa_cfg.pin
        /\ pa_compose = PlanFile("v1a", "off", "v1a"))

MCSpec == MCInit /\ [][PartsNext]_partsVars
==============================================================================
