---------------------------- MODULE MCStackLifecycle ----------------------------
(* StackLifecycle for TLC. *)
EXTENDS StackLifecycle

CONSTANTS s1, s2

(* s1 is updated, s2 is recreated with it. *)
MCOneService == {s1}
MCTwoServices == {s1, s2}

MCLive == {"live"}
MCAllModes == {"live", "pause", "stop"}

(* No rewrite, the one before the pull, both of them, and one on each side   *)
(* of the pull                                                               *)
MCAllPlans == {{}, {"tag"}, {"unpin"}, {"tag", "unpin"}, {"tag", "pin"}}
MCTagPlans == {{}, {"tag"}}
=============================================================================
