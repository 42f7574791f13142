------------------------------ MODULE SelfScope ------------------------------
(* An update must not stop WUDup itself, nor the container through which      *)
(* WUDup reaches Docker (updater_self_scope.py, container_identity.py,        *)
(* updater_preflight.py, updater_lifecycle_scope.py).  The preflight computes *)
(* the services that the update of one stack would recreate, compares their   *)
(* containers with WUDup's own and with the endpoint, and fixes the scope     *)
(* that it has verified; the update runs later, when containers and labels    *)
(* may have changed.                                                          *)
(*                                                                            *)
(* A container is named by its service.  Which container really answers       *)
(* DOCKER_HOST, and how, is part of the initial state; the code sees only     *)
(* addresses, names and published ports.                                      *)
EXTENDS Naturals, FiniteSets

CONSTANTS
    Defined,        \* services of the Compose file of the stack
    Orphans,        \* containers of its project that the file defines no more
    Others,         \* containers of other projects
    Networks,       \* possible network modes: functions to a container or "none"
    MayStop,        \* services that may be stopped
    MayLabel,       \* services that may carry the label of the whole stack
    HopLimit        \* _NETWORK_MODE_HOP_LIMIT

Containers == Defined \cup Orphans \cup Others

VARIABLES
    net,            \* network_mode of each container
    mode,           \* "cli", or a WebUI that names its container, or does not
    own,            \* the container that is WUDup
    server, path,   \* the container that answers DOCKER_HOST, and how it is reached
    selected,       \* matched services, {} when one of them could not be mapped
    running, labelled,
    pc,
    protectedId,    \* the container id of WUDup if known, or "none"
    scope,          \* the scope of the update
    keepOrphans,    \* stacks_keeping_orphans
    touched         \* containers that the update has stopped, recreated or removed

choice == <<net, mode, own, server, path, selected>>
vars == <<choice, running, labelled, pc, protectedId, scope, keepOrphans, touched>>

Names == Containers \cup {"none"}

TypeOK ==
    /\ net \in Networks /\ mode \in {"cli", "named", "image"}
    /\ own \in Containers /\ server \in Names
    /\ path \in {"socket", "address", "name", "port"}
    /\ selected \subseteq Defined
    /\ running \subseteq Containers /\ labelled \subseteq Defined
    /\ pc \in {"identity", "scope", "check", "orphans", "ready", "done", "blocked"}
    /\ protectedId \in Names /\ scope \subseteq Defined
    /\ keepOrphans \in BOOLEAN /\ touched \subseteq Containers

(* A path of the network exists when the chain of network modes ends. *)
HopsFrom(c) ==
    LET hop[n \in Nat] ==
            IF n = 0 THEN c
            ELSE IF hop[n - 1] = "none" \/ net[hop[n - 1]] = "none" THEN hop[n - 1]
            ELSE net[hop[n - 1]]
    IN  hop
TrueOwner(c) == HopsFrom(c)[Cardinality(Containers)]

(* The containers without which WUDup does not work *)
InUse == {own} \cup (IF server = "none" THEN {} ELSE {server, TrueOwner(server)})

(* WUDup and the endpoint run; the endpoint is not WUDup.  A WebUI that does  *)
(* not name its container runs the official image; for the command line it    *)
(* does not matter where it runs.                                             *)
Init ==
    /\ net \in Networks /\ mode \in {"cli", "named", "image"}
    /\ own \in IF mode = "cli" THEN Others ELSE Containers
    /\ \/ server = "none" /\ path = "socket"
       \/ /\ server \in Containers \ {own} /\ net[TrueOwner(server)] = "none"
          /\ path \in {"address", "name", "port"}
    /\ selected \in SUBSET Defined
    /\ \E stopped \in SUBSET MayStop :
           stopped \cap InUse = {} /\ running = Containers \ stopped
    /\ labelled \in SUBSET MayLabel
    /\ pc = "identity" /\ protectedId = "none" /\ scope = {}
    /\ keepOrphans = FALSE /\ touched = {}

-----------------------------------------------------------------------------
(* _update_scope *)

(* A network mode "service:x" names a service of the same file. *)
Providers == [s \in {x \in Defined : net[x] \in Defined} |-> net[s]]

Consumers(S) == {s \in DOMAIN Providers : Providers[s] \in S}

(* _expand_network_mode_services, for chains of length two at most *)
Expand(S) == S \cup Consumers(S) \cup Consumers(Consumers(S))

(* _missing_network_mode_providers *)
Missing(S) == {Providers[s] : s \in S \cap DOMAIN Providers} \ (S \cup running)

(* The label that asks for the whole stack, on a running container in scope *)
WholeStack(S) == \E s \in S : s \in labelled \cap running

UpdateScope ==
    LET S == Expand(selected) \cup Missing(selected)
    IN  IF selected = {} \/ WholeStack(S) THEN Defined ELSE S

-----------------------------------------------------------------------------
(* container_serves_docker_endpoint *)

(* Mutant: the container itself is looked at, not the owner of its network. *)
NetworkOwnerSelf(c) == c

(* _network_owner_details: "none" when the chain does not end in time *)
NetworkOwner(c) ==
    IF net[HopsFrom(c)[HopLimit]] = "none" THEN HopsFrom(c)[HopLimit] ELSE "none"

(* What WUDup knows of the endpoint: the container whose address the name      *)
(* resolves to, or whose name it is, or the publisher of the port.             *)
ByAddress(o) == path = "address" /\ o = TrueOwner(server)
ByName(o) == path = "name" /\ o = TrueOwner(server)
ByPort(o) == path = "port" /\ o = TrueOwner(server)
Serves(o) == ByAddress(o) \/ ByName(o) \/ ByPort(o)

(* _docker_endpoint_services; an endless chain raises, and blocks *)
EndpointHit(C) == \E c \in C : NetworkOwner(c) = "none" \/ Serves(NetworkOwner(c))

-----------------------------------------------------------------------------
ProtectSelf == mode # "cli"
HasEndpoint == path # "socket"

(* self_scope_identity; the container may not be found *)
Identify ==
    /\ pc = "identity"
    /\ \/ ~ProtectSelf /\ ~HasEndpoint /\ pc' = "ready" /\ UNCHANGED protectedId
       \/ /\ ProtectSelf \/ HasEndpoint
          /\ \/ mode = "named" /\ protectedId' = own /\ pc' = "scope"
             \/ mode = "named" /\ UNCHANGED protectedId /\ pc' = "blocked"
             \/ mode # "named" /\ UNCHANGED protectedId /\ pc' = "scope"
    /\ UNCHANGED <<choice, running, labelled, scope, keepOrphans, touched>>

(* The scope is computed strictly: a lookup that fails blocks. *)
ComputeScope ==
    /\ pc = "scope"
    /\ \/ scope' = UpdateScope /\ pc' = "check"
       \/ pc' = "blocked" /\ UNCHANGED scope
    /\ UNCHANGED <<choice, running, labelled, protectedId, keepOrphans, touched>>

(* Mutant: only the container that is named is WUDup. *)
SelfHitById(S) == protectedId \in S \cap running

(* WUDup's image in the file, or its container among those of the scope *)
SelfHit(S) ==
    \/ ProtectSelf /\ mode = "image" /\ own \in S
    \/ protectedId \in S \cap running

(* Mutant: the containers of the whole project are listed. *)
LookedAll(S) == Containers \ Others

(* compose ps with the services of the scope *)
Looked(S) == S \cap running

(* _scoped_block *)
Check ==
    /\ pc = "check"
    /\ pc' = IF SelfHit(scope) \/ (HasEndpoint /\ EndpointHit(Looked(scope)))
             THEN "blocked" ELSE "orphans"
    /\ UNCHANGED <<choice, running, labelled, protectedId, scope, keepOrphans, touched>>

(* A lookup of the containers may fail. *)
CheckFails ==
    /\ pc = "check" /\ (protectedId # "none" \/ HasEndpoint)
    /\ pc' = "blocked"
    /\ UNCHANGED <<choice, running, labelled, protectedId, scope, keepOrphans, touched>>

(* Mutant: leftover containers are not looked at. *)
KeepOrphansNever(C) == FALSE

KeepOrphans(C) ==
    protectedId \in C \/ (HasEndpoint /\ EndpointHit(C \ {protectedId}))

(* _keep_protected_orphans; they are kept as well when the check fails *)
CheckOrphans ==
    /\ pc = "orphans" /\ pc' = "ready"
    /\ IF protectedId # "none" \/ HasEndpoint
       THEN keepOrphans' \in {KeepOrphans(Orphans), TRUE}
       ELSE UNCHANGED keepOrphans
    /\ UNCHANGED <<choice, running, labelled, protectedId, scope, touched>>

-----------------------------------------------------------------------------
(* A container gets the label of the whole stack, or a service is stopped. *)
Change ==
    /\ pc \in {"check", "orphans", "ready"}
    /\ \/ labelled' = MayLabel /\ UNCHANGED running
       \/ running' = running \ (MayStop \ InUse) /\ UNCHANGED labelled
    /\ UNCHANGED <<choice, pc, protectedId, scope, keepOrphans, touched>>

(* Mutant: the scope is computed afresh. *)
RunScopeFresh == UpdateScope

(* The verified scope; without a guard there is none, and it is computed now. *)
RunScope == IF ProtectSelf \/ HasEndpoint THEN scope ELSE UpdateScope

(* Stop, pull and up of the scope, with --remove-orphans unless they are kept *)
Run ==
    /\ pc = "ready" /\ pc' = "done"
    /\ touched' = RunScope \cup (IF keepOrphans THEN {} ELSE Orphans)
    /\ UNCHANGED <<choice, running, labelled, protectedId, scope, keepOrphans>>

Next == Identify \/ ComputeScope \/ Check \/ CheckFails \/ CheckOrphans \/ Change \/ Run

Spec == Init /\ [][Next]_vars

-----------------------------------------------------------------------------
(* The WebUI never stops, recreates or removes its own container, whether it   *)
(* is selected, drawn in by a network or a label, or left over in the project. *)
(* Without a name only the service with WUDup's image is known.                *)
OwnSurvives == mode = "named" \/ (mode = "image" /\ own \in Defined) => own \notin touched

(* No update touches the container that answers DOCKER_HOST, nor the one whose *)
(* network it uses.                                                            *)
EndpointSurvives ==
    path # "socket" =>
        server \notin touched /\ TrueOwner(server) \notin touched

(* A stack that has nothing to do with WUDup and the endpoint is not blocked   *)
(* by what its lookups found.                                                  *)
NotBlockedInVain ==
    [][Check /\ pc' = "blocked" =>
           \/ own \in scope
           \/ \E c \in scope : NetworkOwner(c) \in {"none", TrueOwner(server)}]_vars
=============================================================================
