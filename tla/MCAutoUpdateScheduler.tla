------------------------ MODULE MCAutoUpdateScheduler ------------------------
(* AutoUpdateScheduler for TLC.  A day has four units, the grace window one,  *)
(* the late limit two; a policy at time 3 is late across midnight.            *)
EXTENDS AutoUpdateScheduler, TLC

CONSTANTS p1, p2, s1, s2

MCOneProcess == {p1}
MCTwoProcesses == {p1, p2}
ProcessSymmetry == Permutations(MCTwoProcesses)

MCOneService == {s1}
MCTwoServices == {s1, s2}

(* Two services with different modes *)
MCModes == [s \in {s1, s2} |-> IF s = s1 THEN 1 ELSE 2]
MCOneMode == [s \in {s1} |-> 1]

MCSharedLines == {{s1}, {s1, s2}}
MCOneLine == {{s1}}

MCOneTime == {[time |-> 1, days |-> {0}]}
MCTwoTimes == {[time |-> 1, days |-> {0}], [time |-> 3, days |-> {0, 1}]}
=============================================================================
