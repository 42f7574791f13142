--------------------------- MODULE ComposeLabels ---------------------------
(***************************************************************************)
(* Rewriting of one Compose file: compose_rewrite.py, which decides what   *)
(* to change, and compose_source.py, which finds the place to change.      *)
(* A request is previewed against the file, may be approved by the         *)
(* operator, is rendered from the file as it is then, and replaces the     *)
(* file unless somebody changed it meanwhile; the operator edits at any    *)
(* moment.                                                                 *)
(*                                                                         *)
(* The file is a YAML graph.  A service refers to a node for its image and *)
(* to a node for its labels; services share a node through an alias, and   *)
(* get one from another mapping through a merge key.  The wording of       *)
(* labels, quoting, indentation and block or flow style are abstracted; a  *)
(* digest is named by the tag it was resolved from.                        *)
(***************************************************************************)
EXTENDS Naturals, FiniteSets, SequencesExt

CONSTANTS
  Services,      \* the services of the file
  Tags,          \* image tags
  Versioned,     \* the tags with a number in them
  FourPart,      \* the tags that need a managed wud.tag.transform
  Extends,       \* services that get an own transform from another file
  StartFiles,    \* the files the operator may have written
  Edited,        \* the services that the operator edits
  EditedLabels,  \* what the operator may write as a service's labels
  Targets,       \* sequences of services a request names
  MaxEdits, MaxApprovals, MaxPreviews

VARIABLES
  file,       \* the Compose file
  stage,      \* "idle", "shown", "rendered"
  plan,       \* the request and what its preview saw
  approvals,  \* label rewrites that the operator approved
  text,       \* the rendered file
  source,     \* the file the rendering started from
  edits,      \* edits made so far
  previews    \* previews made so far

vars == <<file, stage, plan, approvals, text, source, edits, previews>>

NoTag == "none"
Nodes == Services \cup {"base"}
Include(k, t) == [k |-> k, t |-> t]
NoInclude == Include("none", NoTag)
Includes ==
  {NoInclude, Include("line", NoTag), Include("own", NoTag), Include("var", NoTag)}
    \cup {Include(k, t) : k \in {"plain", "exact"}, t \in Tags}
Image(form, t) == [form |-> form, of |-> t]
Garbled == Image("garbled", NoTag)
Images == {Image(form, t) : form \in {"tag", "digest"}, t \in Tags}
            \cup {Garbled, Image("var", NoTag)}
Labels == [include : Includes, second : Includes,
           transform : {"none", "blank", "own", "managed"},
           exclude : SUBSET {"own", "var", "managed"}]
Parts == {"image", "labels"}
Files == [img : [Services -> Nodes], lab : [Services -> Nodes],
          merged : SUBSET (Services \X Parts), anchored : SUBSET Services,
          images : [Nodes -> Images], labels : [Nodes -> Labels],
          notes : [Services -> SUBSET Tags]]
Ops == {"tag", "stream", "pin", "pinStream", "retag", "unpin", "track", "exclude"}
StreamOps == {"stream", "pinStream"}
ReadsLabel == StreamOps \cup {"pin", "track"}
TransformOps == {"retag", "unpin", "track"}

(* What Docker Compose, and so WUD, makes of a service.                    *)
ImageOf(f, s) == f.images[f.img[s]]
LabelsOf(f, s) == f.labels[f.lab[s]]
SeenInclude(f, s) ==
  IF LabelsOf(f, s).second # NoInclude THEN LabelsOf(f, s).second
  ELSE LabelsOf(f, s).include
SeenTransform(f, s) ==
  CASE LabelsOf(f, s).transform \in {"own", "managed"} -> LabelsOf(f, s).transform
    [] LabelsOf(f, s).transform = "blank" -> "none"
    [] OTHER -> IF s \in Extends THEN "own" ELSE "none"
Seen(f, s) == <<ImageOf(f, s), SeenInclude(f, s), SeenTransform(f, s),
                LabelsOf(f, s).exclude, f.notes[s]>>

NoFile == CHOOSE f \in StartFiles : TRUE
NoPlan == [op |-> "none", targets |-> <<>>, tag |-> NoTag,
           old |-> Garbled, labels |-> [s \in Services |-> NoInclude],
           transforms |-> [s \in Services |-> "none"],
           source |-> NoFile]

(* The file, the request and the approvals have their types.               *)
TypeOK ==
  /\ file \in Files /\ text \in Files /\ source \in Files
  /\ stage \in {"idle", "shown", "rendered"}
  /\ plan.op \in Ops \cup {"none"} /\ plan.labels \in [Services -> Includes]
  /\ approvals \subseteq [op : {"pin", "stream"}, s : Services, current : Includes, tag : Tags]
  /\ edits \in 0..MaxEdits /\ previews \in 0..MaxPreviews

Init ==
  /\ file \in StartFiles
  /\ stage = "idle" /\ plan = NoPlan /\ approvals = {}
  /\ text = NoFile /\ source = NoFile /\ edits = 0 /\ previews = 0

-----------------------------------------------------------------------------
(* Label values: exact_tags_regex, retag_tag_include_regex.                *)
Exact(t) == Include("exact", t)
Line(t) == IF t \in Versioned THEN Include("line", NoTag) ELSE Exact(t)
Accepts(inc, t) ==
  \/ inc.k \in {"plain", "exact"} /\ inc.t = t
  \/ inc.k = "line" /\ t \in Versioned

(* The include label that the request writes.                              *)
Proposed(op, t) == IF op = "pin" THEN Exact(t) ELSE Line(t)

(* _reject_yaml_anchor_or_alias_service_config                             *)
OwnConfig(f, s) == s \notin f.anchored

(* Mutant: an image that is an alias is taken for the service's own.       *)
OwnImageUnchecked(f, s) == TRUE

(* _reject_yaml_anchor_or_alias_image_value                                *)
OwnImage(f, s) == \A o \in Services \ {s} : f.img[o] # f.img[s]

(* _rewrite_service_config: the service and its image are its own.         *)
Rewritable(f, s) ==
  OwnConfig(f, s) /\ <<s, "image">> \notin f.merged /\ OwnImage(f, s)

(* _materialize_inherited_service_labels                                   *)
Materialize(f, s) ==
  IF <<s, "labels">> \notin f.merged THEN f
  ELSE [f EXCEPT !.merged = @ \ {<<s, "labels">>}, !.lab[s] = s,
                 !.labels[s] = LabelsOf(f, s)]

(* _reject_yaml_anchor_or_alias_labels                                     *)
OwnLabels(f, s) == \A o \in Services \ {s} : f.lab[o] # f.lab[s]

(* Mutant: only the first entry of a label listed twice is looked at.      *)
ListedOnceUnchecked(f, s) == TRUE

(* _sequence_label_index: a label listed twice is not changed.             *)
ListedOnce(f, s) == LabelsOf(f, s).second = NoInclude

(* _service_image_scalar_rewrite: the image is the expected literal.       *)
ImageIs(f, s, old) == ImageOf(f, s) = old /\ old.form # "var"

(* _service_resolved_tag_marker: two different markers are a conflict.     *)
MarkersReadable(f, s) == Cardinality(f.notes[s]) <= 1

Labelled(f, s) == OwnLabels(f, s) /\ ListedOnce(f, s)

(* _set_service_label_value                                                *)
SetInclude(f, s, inc) == [f EXCEPT !.labels[f.lab[s]].include = inc]

(* _service_label_source_rewrite: the labels have a place in the text.     *)
LabelsInText(f, s) == <<s, "labels">> \notin f.merged

(* _mapping_label_source_rewrites, _sequence_label_source_rewrites and
   _new_service_labels_rewrite: the values are replaced where they stand,
   else an entry, or the labels, are added.                                *)
SetIncludeInText(f, T, inc) ==
  [f EXCEPT !.labels = [n \in Nodes |->
     IF \E s \in T : f.lab[s] = n THEN [f.labels[n] EXCEPT !.include = inc]
     ELSE f.labels[n]]]

-----------------------------------------------------------------------------
(* Which include labels may be replaced.                                   *)

(* Mutant: an approval of another value of the label is accepted.          *)
ApprovedAnyValue(op, s, current, t) ==
  \E a \in approvals : a.op = op /\ a.s = s /\ a.tag = t

(* _digest_pin_label_rewrite_approval_matches and
   _tag_stream_label_rewrite_approval_matches                              *)
Approved(op, s, current, t) ==
  [op |-> op, s |-> s, current |-> current, tag |-> t] \in approvals

(* _is_simple_exact_tag_include                                            *)
IsExactTag(inc) == inc.k = "exact"

(* _digest_pin_label_rewrite                                               *)
PinMayReplace(op, s, current, image, t) ==
  \/ current = NoInclude \/ current = Proposed(op, t)
  \/ IsExactTag(current)
  \/ current.k = "plain" /\ (current.t = t \/ image = Image("tag", current.t))
  \/ op = "pin" /\ Approved("pin", s, current, t)

(* plan_compose_tag_stream_update: whether the stream label is approved.   *)
StreamApproved(s, current, image, t) ==
  \/ current = NoInclude \/ current = Proposed("stream", t)
  \/ current.k \in {"exact", "plain"} /\ image = Image("tag", current.t)
  \/ Approved("stream", s, current, t)

(* _validate_digest_unpin_include                                          *)
UnpinMayReplace(current, t) ==
  current = NoInclude \/ (current.k \in {"exact", "plain"} /\ current.t = t)

(* _rewrite_tag_stream_label                                               *)
StreamUnchanged(s, current) == current = plan.labels[s]

(* _tag_stream_updates_by_service: every stream change was approved.       *)
StreamsApproved ==
  \A s \in Range(plan.targets) : StreamApproved(s, plan.labels[s], plan.old, plan.tag)

-----------------------------------------------------------------------------
(* The managed transform.                                                  *)

(* Mutant: the service's own YAML decides, not the resolved config.        *)
TransformNeededByText(f, s, t, inc) ==
  t \in FourPart /\ inc # Exact(t) /\ LabelsOf(f, s).transform = "none"

(* planned_wud_tag_transform                                               *)
TransformNeeded(f, s, t, inc) ==
  t \in FourPart /\ inc # Exact(t) /\ plan.transforms[s] = "none"

(* _add_managed_wud_tag_transform refuses a label that is present.         *)
TransformRefused(f, s, t, inc) ==
  TransformNeeded(f, s, t, inc) /\ LabelsOf(f, s).transform # "none"

AddTransform(f, s, t, inc) ==
  IF plan.op \in TransformOps /\ TransformNeeded(f, s, t, inc)
  THEN [f EXCEPT !.labels[f.lab[s]].transform = "managed"] ELSE f

-----------------------------------------------------------------------------
(* One service of a request: whether it is refused, and what it becomes.   *)

(* _digest_pin_expected_image                                              *)
ImageExpected(f, s) == ImageIs(f, s, plan.old) \/ ImageIs(f, s, Image("tag", plan.tag))

(* _retag_label_rewrite                                                    *)
RetagLabelAllowed(f, s) ==
  LET current == LabelsOf(f, s).include IN
  IF plan.op = "pinStream"
  THEN /\ plan.old.form = "tag"
       /\ StreamUnchanged(s, current) \/ current = Proposed(plan.op, plan.tag)
  ELSE PinMayReplace(plan.op, s, current, ImageOf(f, s), plan.tag)

TransformAllowed(f, s) ==
  plan.op \in TransformOps =>
    ~TransformRefused(f, s, plan.tag, Proposed(plan.op, plan.tag))

(* _clear_service_resolved_tag_markers, wherever the comments hang; the
   other comments stay.                                                    *)
Unmarked(f, s) == [f EXCEPT !.notes[s] = {}]

(* _update_service_resolved_tag_marker: only a pin writes a marker.        *)
Marked(f, s) ==
  [Unmarked(f, s) EXCEPT !.notes[s] =
     IF plan.op \in {"pin", "pinStream"} THEN {plan.tag} ELSE {}]

(* _digest_pin_update_from_tag_update                                      *)
FinalImage == Image(IF plan.op \in {"pin", "pinStream"} THEN "digest" ELSE "tag", plan.tag)

(* _render_compose_retag_updates changes the parsed file and writes it out
   again.                                                                  *)
RetagRewritten(g, s) ==
  LET f == Materialize(g, s)
      inc == Proposed(plan.op, plan.tag)
      labelled == AddTransform(SetInclude(f, s, inc), s, plan.tag, inc)
  IN IF Rewritable(g, s) /\ ImageExpected(g, s) /\ MarkersReadable(g, s)
        /\ Labelled(f, s) /\ RetagLabelAllowed(f, s) /\ TransformAllowed(f, s)
     THEN {Marked([labelled EXCEPT !.images[f.img[s]] = FinalImage], s)} ELSE {}

(* _validate_service_resolved_tag_marker                                   *)
MarkerAgrees(f, s) == MarkersReadable(f, s) /\ f.notes[s] \subseteq {plan.tag}

(* render_compose_digest_unpins                                            *)
UnpinRewritten(g, s) ==
  LET f == Materialize(g, s)
      inc == Proposed(plan.op, plan.tag)
      labelled == AddTransform(SetInclude(f, s, inc), s, plan.tag, inc)
  IN IF Rewritable(g, s) /\ ImageIs(g, s, plan.old) /\ MarkerAgrees(g, s)
        /\ Labelled(f, s) /\ UnpinMayReplace(LabelsOf(f, s).include, plan.tag)
        /\ TransformAllowed(f, s)
     THEN {[Unmarked(labelled, s) EXCEPT !.images[f.img[s]] = Image("tag", plan.tag)]} ELSE {}

(* render_compose_tracking_label: the label only.                          *)
TrackingRewritten(g, s) ==
  LET f == Materialize(g, s)
      inc == Proposed(plan.op, plan.tag)
  IN IF g = plan.source /\ Rewritable(g, s) /\ ImageOf(g, s) = plan.old
        /\ Labelled(f, s) /\ LabelsOf(f, s).include = plan.labels[s]
        /\ TransformAllowed(f, s)
     THEN {AddTransform(SetInclude(f, s, inc), s, plan.tag, inc)} ELSE {}

(* render_compose_tag_exclusions: a label with a variable is refused.      *)
ExclusionRewritten(g, s) ==
  LET f == Materialize(g, s) IN
  IF OwnConfig(g, s) /\ ImageIs(g, s, plan.old) /\ OwnLabels(f, s)
       /\ "var" \notin LabelsOf(f, s).exclude
  THEN {[f EXCEPT !.labels[f.lab[s]].exclude = @ \cup {"managed"}]} ELSE {}

(* Mutant: a service may be selected twice.                                *)
SpansUniqueUnchecked(targets) == TRUE

(* _reject_duplicate_image_span                                            *)
SpansUnique(targets) == IsInjective(targets)

(* apply_compose_tag_updates replaces images in the text, each at the place
   that the parsed file gives.                                             *)
TagsRewritten(g) ==
  LET T == Range(plan.targets)
      Once(s) == Cardinality({i \in DOMAIN plan.targets : plan.targets[i] = s}) = 1
      touched(n) == \E s \in T : g.img[s] = n
  IN IF SpansUnique(plan.targets) /\ \A s \in T : Rewritable(g, s) /\ ImageIs(g, s, plan.old)
     THEN {[g EXCEPT !.images = [n \in Nodes |->
              IF ~touched(n) THEN g.images[n]
              ELSE IF \A s \in T : g.img[s] = n => Once(s) THEN Image("tag", plan.tag)
              ELSE Garbled]]}
     ELSE {}

(* render_compose_tag_stream_updates replaces the labels in the text too;
   inherited labels have no place.                                         *)
StreamsRewritten(g) ==
  LET T == Range(plan.targets) IN
  IF StreamsApproved /\ \A s \in T : /\ LabelsInText(g, s) /\ Labelled(g, s)
                                    /\ StreamUnchanged(s, LabelsOf(g, s).include)
  THEN {SetIncludeInText(t, T, Proposed("stream", plan.tag)) : t \in TagsRewritten(g)}
  ELSE {}

(* The function that rewrites a service for the request.                   *)
ServiceRewritten(f, s) ==
  CASE plan.op = "track" -> TrackingRewritten(f, s)
    [] plan.op = "exclude" -> ExclusionRewritten(f, s)
    [] plan.op = "unpin" -> UnpinRewritten(f, s)
    [] OTHER -> RetagRewritten(f, s)

(* One service after the other: the results after the first k of them.     *)
InTurn(g) ==
  LET after[k \in 0..Len(plan.targets)] ==
        IF k = 0 THEN {g}
        ELSE UNION {ServiceRewritten(f, plan.targets[k]) : f \in after[k - 1]}
  IN after[Len(plan.targets)]

(* The render functions: at most one result; none when a service refuses.  *)
Rendered(g) ==
  CASE plan.op = "tag" -> TagsRewritten(g)
    [] plan.op = "stream" -> StreamsRewritten(g)
    [] plan.op = "pinStream" /\ ~StreamsApproved -> {}
    [] OTHER -> InTurn(g)

-----------------------------------------------------------------------------
(* The preview of a request: what it sees is what it will expect later.    *)
Preview(op, targets, t) ==
  /\ stage = "idle"
  /\ LET old == ImageOf(file, Head(targets)) IN
     /\ old.form \in {"tag", "digest"}
     /\ op = "unpin" => old = Image("digest", t)
     /\ op = "track" => Len(targets) = 1 /\ old = Image("tag", t)
     /\ plan' = [op |-> op, targets |-> targets, tag |-> t, old |-> old,
                 labels |-> [s \in Services |->
                   IF s \in Range(targets) /\ op \in ReadsLabel
                   THEN LabelsOf(file, s).include ELSE NoInclude],
                 transforms |-> [s \in Services |->
                   IF op \in TransformOps THEN SeenTransform(file, s) ELSE "none"],
                 source |-> IF op = "track" THEN file ELSE NoFile]
  /\ stage' = "shown"
  /\ previews < MaxPreviews /\ previews' = previews + 1
  /\ UNCHANGED <<file, approvals, text, source, edits>>

(* The preview reports a label whose replacement needs an approval.        *)
NeedsApproval(s) ==
  IF plan.op = "pin" THEN ~PinMayReplace("pin", s, plan.labels[s], plan.old, plan.tag)
  ELSE ~StreamApproved(s, plan.labels[s], plan.old, plan.tag)

(* The operator approves the replacement of a label the preview showed.    *)
Approve(s) ==
  /\ stage = "shown" /\ s \in Range(plan.targets)
  /\ plan.op \in {"pin"} \cup StreamOps
  /\ Cardinality(approvals) < MaxApprovals
  /\ NeedsApproval(s)
  /\ approvals' = approvals \cup {[op |-> IF plan.op = "pin" THEN "pin" ELSE "stream",
                                   s |-> s, current |-> plan.labels[s], tag |-> plan.tag]}
  /\ stage' = "idle" /\ plan' = NoPlan
  /\ UNCHANGED <<file, text, source, edits, previews>>

(* apply_compose_...: read the file, render it.                            *)
Render ==
  /\ stage = "shown"
  /\ IF Rendered(file) = {}
     THEN stage' = "idle" /\ plan' = NoPlan /\ UNCHANGED <<text, source>>
     ELSE text' \in Rendered(file) /\ source' = file /\ stage' = "rendered" /\ plan' = plan
  /\ UNCHANGED <<file, approvals, edits, previews>>

(* _atomic_replace_compose refuses a file that changed since it was read.  *)
SourceUnchanged == file = source

Replace ==
  /\ stage = "rendered"
  /\ file' = IF SourceUnchanged THEN text ELSE file
  /\ stage' = "idle" /\ plan' = NoPlan /\ text' = NoFile /\ source' = NoFile
  /\ UNCHANGED <<approvals, edits, previews>>

(* The operator edits the labels, the image or the comments of a service.  *)
Edit(s) ==
  /\ edits < MaxEdits /\ edits' = edits + 1
  /\ \/ \E l \in EditedLabels : file' = [file EXCEPT !.labels[file.lab[s]] = l]
     \/ \E t \in Tags, form \in {"tag", "digest"} :
          file' = [file EXCEPT !.images[file.img[s]] = Image(form, t)]
     \/ \E t \in Tags : file' = [file EXCEPT !.notes[s] = @ \cup {t}]
  /\ file' # file
  /\ UNCHANGED <<stage, plan, approvals, text, source, previews>>

Next ==
  \/ \E op \in Ops, targets \in Targets, t \in Tags : Preview(op, targets, t)
  \/ \E s \in Services : Approve(s)
  \/ \E s \in Edited : Edit(s)
  \/ Render \/ Replace

Spec == Init /\ [][Next]_vars

-----------------------------------------------------------------------------
Wrote == stage = "rendered" /\ stage' = "idle" /\ file' # file

(* A rewrite of one service leaves every other service of the file as it
   was, also when they share mappings through anchors, aliases or merge
   keys.                                                                   *)
OthersUntouched ==
  [][Wrote => \A o \in Services \ Range(plan.targets) : Seen(file', o) = Seen(file, o)]_vars

(* An include label that is neither empty, nor an exact expression, nor the
   tag the request starts from or goes to.                                 *)
Foreign(inc) ==
  \/ inc.k \in {"own", "var", "line"}
  \/ inc.k = "plain" /\ inc.t # plan.tag /\ plan.old # Image("tag", inc.t)

(* A label of the operator that is more than a tag is replaced only when the
   operator approved, or previewed, the replacement of exactly that value;
   an exclusion label only grows, and one with a variable stays.           *)
OwnFilterKept ==
  [][Wrote => \A s \in Services :
       /\ \/ ~Foreign(SeenInclude(file, s))
          \/ SeenInclude(file', s) = SeenInclude(file, s)
          \/ plan.op = "track" /\ plan.labels[s] = SeenInclude(file, s)
          \/ \E a \in approvals : /\ a.s = s /\ a.tag = plan.tag
                                  /\ a.current = SeenInclude(file, s)
       /\ LabelsOf(file, s).exclude \subseteq LabelsOf(file', s).exclude
       /\ "var" \in LabelsOf(file, s).exclude =>
            LabelsOf(file', s).exclude = LabelsOf(file, s).exclude]_vars

(* After a pin, an unpin, a retag or a stream change the label that WUD
   reads accepts the tag that the image stands for, and the marker beside a
   pinned image names that tag, whatever was edited before.                *)
WatchesWhatRuns ==
  [][Wrote /\ plan.op \in Ops \ {"tag", "track", "exclude"} =>
       \A s \in Range(plan.targets) :
         /\ Accepts(SeenInclude(file', s), plan.tag)
         /\ ImageOf(file', s).of = plan.tag
         /\ plan.op \in {"pin", "pinStream"} => file'.notes[s] = {plan.tag}
         /\ plan.op \in {"retag", "unpin"} => file'.notes[s] = {}]_vars

(* A transform that WUD sees, written in this file or inherited from
   another one, is never replaced by a managed transform.                  *)
TransformKept ==
  [][Wrote => \A s \in Services :
       SeenTransform(file, s) # "none" => SeenTransform(file', s) = SeenTransform(file, s)]_vars

(* No two replacements overlap: every image in the file is one that the
   operator or a request wrote.                                            *)
NothingGarbled == \A n \in Nodes : file.images[n] # Garbled
=============================================================================
