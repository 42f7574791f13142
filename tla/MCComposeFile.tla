---------------------------- MODULE MCComposeFile ----------------------------
(* ComposeFile for TLC.                                                       *)
EXTENDS ComposeFile, MCStackLifecycle

(* Files for ComposeLabels: labels of their own, shared or inherited.        *)
Filter(k, t) == [k |-> k, t |-> t]
NoFilter == Filter("none", "none")
Labels(inc, second, transform, exclude) ==
    [include |-> inc, second |-> second, transform |-> transform, exclude |-> exclude]
Plain == Labels(NoFilter, NoFilter, "none", {})
OwnLabels == Labels(Filter("own", "none"), NoFilter, "none", {"own"})
LabelFile(lab, merged, anchored, first, base) ==
    [img |-> [s \in {"web", "db"} |-> s], lab |-> lab, merged |-> merged,
     anchored |-> anchored,
     images |-> [n \in {"web", "db", "base"} |-> [form |-> "tag", of |-> "1.2.3.4"]],
     labels |-> [n \in {"web", "db", "base"} |->
                   CASE n = "web" -> first [] n = "base" -> base [] OTHER -> Plain],
     notes |-> [s \in {"web", "db"} |-> {}]]
Alone(first) == LabelFile([s \in {"web", "db"} |-> s], {}, {}, first, Plain)
StartFiles ==
    {Alone(OwnLabels),
     Alone(Labels(Filter("plain", "latest"), NoFilter, "blank", {"var"})),
     Alone(Labels(Filter("exact", "latest"), Filter("own", "none"), "none", {})),
     \* both services take their labels from a common mapping
     LabelFile([s \in {"web", "db"} |-> "base"],
                 {<<"web", "labels">>, <<"db", "labels">>}, {}, Plain,
                 Labels(Filter("exact", "1.2.3.4"), NoFilter, "none", {"own"})),
     \* the labels of one are an alias of the other's
     LabelFile([s \in {"web", "db"} |-> "web"], {}, {}, OwnLabels, Plain),
     \* one merges the other, which has an anchor
     LabelFile([s \in {"web", "db"} |-> "web"], {<<"db", "labels">>}, {"web"}, Plain, Plain),
     \* both images are one anchored scalar
     [Alone(Plain) EXCEPT !.img["db"] = "web"],
     \* one takes its image from a common mapping
     [Alone(Plain) EXCEPT !.img["db"] = "base", !.merged = {<<"db", "image">>}]}
EditedLabels ==
    {OwnLabels, Labels(Filter("exact", "latest"), NoFilter, "own", {}),
     Labels(Filter("var", "none"), NoFilter, "none", {})}
LabelTargets == {<<"web">>, <<"web", "db">>, <<"web", "web">>}
LabelServices == {"web", "db"}
LabelTags == {"1.2.3.4", "latest"}
LabelFourPart == {"1.2.3.4"}
LabelExtends == {"db"}
LabelEdited == {"web"}

(* RetagApply has a stack with two services and one with one.               *)
RetagStacks == <<"s1", "s2">>
RetagServices == [s1 |-> {"a", "b"}, s2 |-> {"c"}]
RetagConsent == {"a"}
RetagAmbiguous == {"b"}
RetagOwn == {"c"}

(* In TagExclusions v lends its network to w, v and x run one repository,   *)
(* and the label of w uses a variable, so that y is excluded without it.    *)
ExcludeStacks == {"s1", "s2"}
ExcludeServices == [s1 |-> {"v", "w"}, s2 |-> {"x", "y"}]
ExcludeRepo == [v |-> "p", w |-> "q", x |-> "p", y |-> "q"]
ExcludeProvider == [w |-> "v"]
ExcludeTagOf == <<"t1", "t2", "t2">>
ExcludeMatches == <<{"v"}, {"x"}, {"y"}>>
ExcludeWritable == {"v", "x", "y"}
ExcludeAuthored == {"v"}
ExcludeMayStop == {"v", "w"}
ExcludeOverridden == {"s2"}

(* PartsInit, where a component that does not run starts in one state.      *)
MCInit ==
    /\ part \in {"stack", "retag", "exclude", "repair", "labels"}
    /\ Init
    /\ part = "stack" \/ (\A s \in Services : con[s].state = "running")
    /\ RA!Init
    /\ part = "retag" \/ (ra_own = None /\ ra_mode = "restart" /\ ra_idle = {})
    /\ TE!Init
    /\ part = "exclude" \/ (te_label["v"] = <<>> /\ te_up = {"v", "w", "x", "y"})
    /\ TR!Init
    /\ CL!Init
    /\ part = "labels" \/ (cl_file = Alone(OwnLabels))

MCSpec == MCInit /\ [][PartsNext]_partsVars
==============================================================================
