----------------------------- MODULE MCUpdaterRun -----------------------------
(* UpdaterRun for TLC. *)
EXTENDS UpdaterRun

CONSTANTS r1, r2, a, b

MCOneRun == {r1}
MCTwoRuns == {r1, r2}

MCEntries == {a, b}
MCOneStack == {1}
MCTwoStacks == {1, 2}

(* Each entry is in stack 1; or b is in two stacks. *)
MCSimple == [e \in {a, b} |-> {1}]
MCShared == [e \in {a, b} |-> IF e = a THEN {1} ELSE {1, 2}]

MCNone == {}
MCOnlyA == {a}
MCOnlyB == {b}

(* The file at first; <<b, b>> has two lines with the same text. *)
MCFirst == {<<a>>}
MCBoth == {<<a, b>>}
MCFiles == {<<a, b>>, <<b, b>>}
=============================================================================
