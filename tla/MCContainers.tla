---------------------------- MODULE MCContainers -----------------------------
(* Containers for TLC.                                                        *)
EXTENDS Containers, MCStackLifecycle

(* Networks for SelfScope: one stack with two services, a leftover container *)
(* of its project and a container elsewhere.                                 *)
ScopeNet(a, b, o, w) == [a |-> a, b |-> b, o |-> o, w |-> w]
ScopeNetworks ==
    {ScopeNet("none", "none", "none", "none"), ScopeNet("b", "none", "none", "none"),
     ScopeNet("none", "a", "b", "none"), ScopeNet("none", "none", "a", "none"),
     ScopeNet("o", "none", "w", "none"), ScopeNet("b", "a", "none", "none"),
     ScopeNet("w", "none", "none", "none"), ScopeNet("none", "none", "none", "a"),
     ScopeNet("none", "a", "b", "o")}

(* Images for DigestVerification: two indexes of two platforms, and an image *)
(* without an index.                                                         *)
DigestImages ==
    [m \in {"amd1", "arm1", "amd2", "arm2", "single"} |->
        CASE m = "amd1" -> [platform |-> "amd", config |-> "c1"]
          [] m = "arm1" -> [platform |-> "arm", config |-> "c2"]
          [] m = "amd2" -> [platform |-> "amd", config |-> "c3"]
          [] m = "arm2" -> [platform |-> "arm", config |-> "c4"]
          [] m = "single" -> [platform |-> "amd", config |-> "c5"]]
DigestIndexes == [i \in {"index1", "index2"} |->
                    IF i = "index1" THEN {"amd1", "arm1"} ELSE {"amd2", "arm2"}]

MCThreads == {1, 2}
MCDefined == {"a", "b"}
MCOrphans == {"o"}
MCOthers == {"w"}
MCMayStop == {"a"}
MCMayLabel == {"b"}
MCDigestTags == {"index1", "index2", "single"}

(* PartsInit, where a component that does not run starts in one state.      *)
MCInit ==
    /\ part \in {"stack", "self_update", "self_scope", "command", "digest"}
    /\ Init
    /\ part = "stack" \/ (mode = "live" /\ \A s \in Services : con[s].state = "running")
    /\ SU!Init
    /\ part = "self_update" \/ (~su_floating /\ ~su_pinning)
    /\ SC!Init
    /\ part = "self_scope" \/ (sc_net = ScopeNet("none", "none", "none", "none") /\ sc_mode = "cli"
        /\ sc_server = "none" /\ sc_selected = {} /\ sc_labelled = {}
        /\ sc_running = {"a", "b", "o", "w"})
    /\ CP!Init
    /\ part = "command" \/ (cp_call = [mode |-> "pty", isolated |-> TRUE, stubborn |-> {}])
    /\ DV!Init
    /\ part = "digest" \/ (dv_tag = "single")

MCSpec == MCInit /\ [][PartsNext]_partsVars
==============================================================================
