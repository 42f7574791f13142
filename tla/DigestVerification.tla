------------------------- MODULE DigestVerification -------------------------
(* What a digest check may conclude.  A tag names an image or an index of   *)
(* images, one per platform, and may be moved while the check runs.  The    *)
(* verifier asks the registry over HTTP, which gives the digest of what it  *)
(* returns, and Docker if that fails, which does not; it asks once or       *)
(* twice, and then for the documents that digests name.  The local image is *)
(* known by its image id: the digest of its configuration in Docker's       *)
(* classic store, the digest it was pulled by in the containerd store.      *)
EXTENDS Naturals, FiniteSets

CONSTANTS
    Images,    \* image manifest digest -> [platform, config]
    Indexes,   \* index digest -> the image manifests it lists
    Tags,      \* what the tag may name
    MaxMoves   \* bound on how often the tag moves

VARIABLES
    tag,     \* what the tag names now
    local,   \* the local image: [store, under, child], or none
    call,    \* the check in progress: [op, digest, platform]
    pc,
    doc,     \* the tag's document: [content, digest], or none
    found,   \* the digest found for the tag, "" if unknown
    todo,    \* children still to be fetched
    result,  \* [status, manifest]
    named,   \* ghost: what the tag named during the check
    failed,  \* ghost: a request failed during the check
    moves

vars == <<tag, local, call, pc, doc, found, todo, result, named, failed, moves>>

Digests == DOMAIN Images \cup DOMAIN Indexes
Platforms == {Images[m].platform : m \in DOMAIN Images}

Children(d) == IF d \in DOMAIN Indexes THEN Indexes[d] ELSE {}
ConfigOf(d) == IF d \in DOMAIN Images THEN Images[d].config ELSE ""
IsIndex(d) == d.content \in DOMAIN Indexes

NoCall == [op |-> "none", digest |-> "", platform |-> ""]
NoDoc == [content |-> "", digest |-> ""]
Pending == [status |-> "pending", manifest |-> ""]
Verdict(status, manifest) == [status |-> status, manifest |-> manifest]

-----------------------------------------------------------------------------
(* Requests                                                                 *)

(* Mutant: the body is not compared with the digest that was asked for.     *)
IntactUnchecked(reference, body) == TRUE

(* The registry may answer a digest with other bytes; they are refused.     *)
Intact(reference, body) == reference \in {"tag", body}

Named(reference) == IF reference = "tag" THEN tag ELSE reference

Bodies(reference) ==
    {Named(reference)} \cup IF reference = "tag" THEN {} ELSE {m \in DOMAIN Images : m # reference}

LookupError == [content |-> "lookup", digest |-> ""]
IntegrityError == [content |-> "integrity", digest |-> ""]
IsError(d) == d \in {LookupError, IntegrityError}

HttpFetch(reference) ==
    {LookupError} \cup
    {IF Intact(reference, b)
     THEN [content |-> b, digest |-> IF reference = "tag" THEN b ELSE reference]
     ELSE IntegrityError : b \in Bodies(reference)}

DockerFetch(reference) == {LookupError, [content |-> Named(reference), digest |-> ""]}

(* HTTP first, Docker after a failed lookup, not after a wrong body.        *)
Fetch(reference) == (HttpFetch(reference) \ {LookupError}) \cup DockerFetch(reference)

-----------------------------------------------------------------------------
(* The local image                                                          *)
NoImage == [store |-> "classic", under |-> "", child |-> ""]

ImageId == IF local = NoImage THEN ""
           ELSE IF local.store = "classic" THEN ConfigOf(local.child) ELSE local.under

ImageIdMatches(config, digest) == ImageId # "" /\ ImageId \in {config, digest}

(* Mutant: the image id is always taken for the digest of a configuration.  *)
LocalIndexSelectsNone(d, e) == FALSE

(* Mutant: a pulled index is taken for any of its children.                 *)
LocalIndexSelectsAny(d, e) == d.digest # "" /\ ImageId = d.digest

(* A pulled index runs its child for the local platform.                    *)
LocalIndexSelects(d, e) ==
    /\ d.digest # "" /\ ImageId = d.digest
    /\ Images[e].platform = Images[local.child].platform

-----------------------------------------------------------------------------
Init ==
    /\ tag \in Tags /\ local = NoImage
    /\ call = NoCall /\ pc = "idle" /\ doc = NoDoc /\ found = "" /\ todo = {}
    /\ result = Pending /\ named = {} /\ failed = FALSE /\ moves = 0

MoveTag ==
    /\ moves < MaxMoves /\ moves' = moves + 1
    /\ tag' \in Tags \ {tag}
    /\ named' = IF pc = "idle" THEN {} ELSE named \cup {tag'}
    /\ UNCHANGED <<local, call, pc, doc, found, todo, result, failed>>

(* docker pull, of an index the child for some platform.                    *)
Pull ==
    /\ pc = "idle" /\ local = NoImage
    /\ \E store \in {"classic", "containerd"},
          child \in IF tag \in DOMAIN Indexes THEN Indexes[tag] ELSE {tag} :
        local' = [store |-> store, under |-> tag, child |-> child]
    /\ UNCHANGED <<tag, call, pc, doc, found, todo, result, named, failed, moves>>

Reach(where) == pc' = where /\ result' = result
Conclude(status, manifest) == pc' = "done" /\ result' = Verdict(status, manifest)

(* verify, verify_tag_digest, resolve_tag_digest, resolve_subject and       *)
(* resolve_digest_subject are asked about a digest.                         *)
Start(op, d, p) ==
    /\ pc = "idle" /\ call' = [op |-> op, digest |-> d, platform |-> p]
    /\ named' = {tag} /\ failed' = FALSE
    /\ IF op = "verify" /\ d = local.under THEN Conclude("verified", "")
       ELSE IF op = "verify" /\ ImageId = "" THEN Conclude("failed", "")
       ELSE Reach("tag")
    /\ UNCHANGED <<tag, local, doc, found, todo, moves>>

E == call.digest

(* verify: the document of the expected digest was found to be the tag's.   *)
VerifyImageDocument(d, digest) ==
    /\ todo' = {}
    /\ IF ImageIdMatches(ConfigOf(d.content), digest) THEN Conclude("verified", "") ELSE Conclude("failed", "")

VerifyIndexDocument(d, digest) ==
    IF ImageIdMatches("", digest) THEN todo' = {} /\ Conclude("verified", "")
    ELSE todo' = Children(d.content) /\ Reach("children")

VerifyTagDocument(d) ==
    LET digest == IF d.digest = "" THEN E ELSE d.digest
    IN  IF IsIndex(d) THEN VerifyIndexDocument(d, digest) ELSE VerifyImageDocument(d, digest)

Verify(d) ==
    IF d.digest = E THEN VerifyTagDocument(d)
    ELSE /\ todo' = {}
         /\ IF IsIndex(d) /\ E \in Children(d.content)
            THEN IF LocalIndexSelects(d, E) THEN Conclude("verified", "") ELSE Reach("expected")
            ELSE IF d.digest = "" THEN Reach("same")
            ELSE Conclude("stale", "")

(* verify_tag_digest: f is the digest found for the tag.                    *)
VerifyTagDigest(d, f) ==
    /\ todo' = {}
    /\ IF f = E \/ (IsIndex(d) /\ E \in Children(d.content)) THEN Conclude("current", E)
       ELSE IF f = "" THEN Reach("same")
       ELSE Conclude("stale", f)

(* Mutant: the platform of a child is not looked at.                        *)
MatchingChildAny(d, p) == IF Children(d) = {} THEN {} ELSE {CHOOSE m \in Children(d) : TRUE}

MatchingChild(d, p) == {m \in Children(d) : Images[m].platform = p}

(* The child of an index for a platform, if there is exactly one.           *)
ReportedIndex(d) ==
    IF \E m \in MatchingChild(d.content, call.platform) : MatchingChild(d.content, call.platform) = {m}
    THEN Conclude("exact", CHOOSE m \in MatchingChild(d.content, call.platform) : TRUE)
    ELSE Conclude("mismatch", "")

(* Mutant: an index whose digest is not known counts as another one.        *)
UnknownIndexStale == Conclude("stale", "")
UnknownIndex == Conclude("error", "")

ReportedChild == IF Images[E].platform = call.platform THEN Conclude("exact", E) ELSE Conclude("mismatch", "")

ResolveIndexSubject(d, f) ==
    IF f # "" /\ E = f THEN ReportedIndex(d)
    ELSE IF E \in Children(d.content) THEN ReportedChild
    ELSE IF f = "" THEN UnknownIndex ELSE Conclude("stale", "")

ResolveImageSubject(f) == IF E = f THEN Conclude("exact", E) ELSE Conclude("stale image", "")

ResolveSubject(d, f) ==
    todo' = {} /\ IF IsIndex(d) THEN ResolveIndexSubject(d, f) ELSE ResolveImageSubject(f)

ResolveDigestSubject(d) ==
    /\ todo' = {}
    /\ IF IsIndex(d) THEN ReportedIndex(d) ELSE Conclude("exact", E)

ResolveTagDigest(f) ==
    todo' = {} /\ IF f = "" THEN Conclude("failed", "") ELSE Conclude("resolved", f)

WithTag(d, f) ==
    CASE call.op = "verify" -> Verify(d)
      [] call.op = "current" -> VerifyTagDigest(d, f)
      [] call.op = "resolve" -> ResolveTagDigest(f)
      [] call.op = "subject" -> ResolveSubject(d, f)
      [] call.op = "pinned" -> ResolveDigestSubject(d)

(* The first request: the tag, or the digest of an installed image.  An     *)
(* index without a digest is looked up once more.                           *)
FetchTag ==
    /\ pc = "tag"
    /\ \E d \in Fetch(IF call.op = "pinned" THEN E ELSE "tag") :
        /\ failed' = (failed \/ IsError(d))
        /\ IF IsError(d)
           THEN /\ Conclude(IF d = IntegrityError /\ call.op \in {"subject", "pinned"}
                            THEN "mismatch" ELSE "failed", "")
                /\ UNCHANGED <<doc, found, todo>>
           ELSE /\ doc' = d /\ found' = d.digest
                /\ IF d.digest = "" /\ IsIndex(d) /\ call.op \in {"current", "resolve", "subject"}
                   THEN Reach("index") /\ todo' = {}
                   ELSE WithTag(d, d.digest)
    /\ UNCHANGED <<tag, local, call, named, moves>>

(* _resolve_index_digest asks the registry for the tag again; by now it may *)
(* name something else.                                                     *)
FetchIndexDigest ==
    /\ pc = "index"
    /\ \E d \in HttpFetch("tag") :
        /\ found' = IF IsError(d) \/ ~IsIndex(d) THEN "" ELSE d.digest
        /\ failed' = (failed \/ IsError(d))
        /\ WithTag(doc, found')
    /\ UNCHANGED <<tag, local, call, doc, named, moves>>

(* verify: the manifest of the expected child.                              *)
FetchExpected ==
    /\ pc = "expected"
    /\ \E d \in Fetch(E) :
        /\ failed' = (failed \/ IsError(d))
        /\ IF ~IsError(d) /\ ImageIdMatches(ConfigOf(d.content), E)
           THEN Conclude("verified", "") ELSE Conclude("failed", "")
    /\ UNCHANGED <<tag, local, call, doc, found, todo, named, moves>>

(* Mutant: a digest the registry serves is taken for the tag's.             *)
SameManifestServed(d) == d.content # ""

SameManifest(d) == d.content = doc.content

(* The tag's digest is not known: its document is compared with the one the *)
(* expected digest names.                                                   *)
FetchSame ==
    /\ pc = "same"
    /\ \E d \in Fetch(E) :
        /\ failed' = (failed \/ IsError(d))
        /\ IF d = IntegrityError \/ (d = LookupError /\ call.op = "current")
           THEN Conclude("failed", "") /\ UNCHANGED todo
           ELSE IF SameManifest(d)
           THEN IF call.op = "verify" THEN VerifyTagDocument(doc)
                ELSE Conclude("current", E) /\ UNCHANGED todo
           ELSE Conclude("stale", "") /\ UNCHANGED todo
    /\ UNCHANGED <<tag, local, call, doc, found, named, moves>>

(* verify: one child of the index after the other.                          *)
FetchChild ==
    /\ pc = "children"
    /\ \/ /\ todo = {} /\ Conclude("failed", "") /\ UNCHANGED <<todo, failed>>
       \/ \E m \in todo : \E d \in Fetch(m) :
            /\ todo' = todo \ {m} /\ failed' = (failed \/ IsError(d))
            /\ IF d = IntegrityError THEN Conclude("failed", "")
               ELSE IF d # LookupError /\ ImageIdMatches(ConfigOf(d.content), m)
               THEN Conclude("verified", "")
               ELSE Reach("children")
    /\ UNCHANGED <<tag, local, call, doc, found, named, moves>>

Done ==
    /\ pc = "done" /\ pc' = "idle"
    /\ call' = NoCall /\ doc' = NoDoc /\ found' = "" /\ todo' = {}
    /\ result' = Pending /\ named' = {} /\ failed' = FALSE
    /\ UNCHANGED <<tag, local, moves>>

Next ==
    \/ MoveTag \/ Pull
    \/ \E op \in {"verify", "current", "resolve"}, d \in Digests : Start(op, d, "")
    \/ \E op \in {"subject", "pinned"}, d \in Digests, p \in Platforms : Start(op, d, p)
    \/ FetchTag \/ FetchIndexDigest \/ FetchExpected \/ FetchSame \/ FetchChild \/ Done

Spec == Init /\ [][Next]_vars

-----------------------------------------------------------------------------
TypeOK ==
    /\ tag \in Tags /\ found \in Digests \cup {""} /\ todo \subseteq DOMAIN Images
    /\ pc \in {"idle", "tag", "index", "expected", "same", "children", "done"}
    /\ result.status \in {"pending", "verified", "failed", "stale", "stale image", "current",
                          "resolved", "exact", "mismatch", "error"}

Is(op, status) == call.op = op /\ result.status = status
Runs(d) == d \in {local.under, local.child} \/ local.child \in Children(d)

(* An image that verify accepts is the one the expected digest names, or    *)
(* the one its index lists, whatever the registry answers, however the tag  *)
(* moves and whichever store keeps the image.                               *)
VerifiedMeansExpected == Is("verify", "verified") => Runs(E)

(* The right image is accepted: if the tag has not moved since the pull and *)
(* no request fails, verify accepts the digest of the tag and of the child  *)
(* that was pulled.  An image of the containerd store is known by the       *)
(* digest of the tag only, which Docker's answer does not give.             *)
RightImageAccepted ==
    call.op = "verify" /\ pc = "done" /\ ~failed /\ named = {local.under}
      /\ (doc.digest # "" \/ local.store = "classic")
      /\ E \in {local.under, local.child} => result.status = "verified"

(* A digest that is called current, or that a tag is resolved to, was the   *)
(* tag's, or that of an image in its index, at some moment of the check.    *)
CurrentWasCurrent ==
    result.status \in {"current", "resolved"} =>
        \E t \in named : result.manifest \in {t} \cup Children(t)

(* A scan subject is the reported image, or the reported index's image for  *)
(* the platform, as long as the tag did not move between the two requests   *)
(* of one check (resolve_subject, resolve_digest_subject).                  *)
ExactIsOfReported ==
    result.status = "exact" /\ (call.op = "pinned" \/ Cardinality(named) = 1) =>
        \/ result.manifest = E
        \/ result.manifest \in Children(E) /\ Images[result.manifest].platform = call.platform

(* A digest is called stale only if there was a moment when the tag did not *)
(* name it; an index digest that could not be found proves nothing.  Left   *)
(* out: verify says stale as well when the request for the expected digest  *)
(* fails.                                                                   *)
StaleIsTrue ==
    result.status = "stale" /\ ~(call.op = "verify" /\ failed) => \E t \in named : E \notin {t} \cup Children(t)
=============================================================================
