----------------------------- MODULE SingleMutation -----------------------------
(***************************************************************************)
(* What the mutation gate of the WebUI promises, with no lock, thread or    *)
(* job in sight: the permission to change Compose files and containers is   *)
(* one token.  Somebody takes it when nobody has it, and gives it back      *)
(* before anybody else can take it.                                         *)
(***************************************************************************)

CONSTANT Owners    \* whatever may hold the permission

VARIABLE holders   \* {} when the permission is free, {o} when o has it

Init == holders = {}

Acquire == \E o \in Owners : holders = {} /\ holders' = {o}

Release == \E o \in Owners : holders = {o} /\ holders' = {}

Next == Acquire \/ Release

Spec == Init /\ [][Next]_holders
=============================================================================
