-------------------------- MODULE CommandProcesses --------------------------
(* One docker command run by the updater or the web server: a child process *)
(* and a helper it starts (a Compose plugin, say) that keeps the output     *)
(* open.  Output goes through a terminal, through two threads, or is        *)
(* captured with a deadline.  An interrupt may arrive at any moment, again  *)
(* while the first one is being handled, and processes may ignore SIGTERM.  *)
EXTENDS Naturals, Sequences, FiniteSets, SequencesExt

CONSTANTS
    MaxLines,       \* lines kept of the output (200 in the code)
    MaxPartial,     \* longest unfinished line (8192 in the code)
    MaxOutput,      \* bound on the characters a command writes
    MaxInterrupts   \* bound on interrupts

VARIABLES
    call,        \* [mode, isolated, stubborn]: how it runs, who ignores SIGTERM
    pc,          \* where the caller is
    proc,        \* process -> "none", "running", "dead" or "reaped"
    output,      \* everything written; ghost but for the part not read yet
    read,        \* how much of it has been read
    tail,        \* [lines, partial, count]
    interrupts,
    gap,         \* ghost: an interrupt met code that does not catch it
    early        \* ghost: the child had ended before it could be signalled

vars == <<call, pc, proc, output, read, tail, interrupts, gap, early>>

Processes == {"child", "helper"}
Chars(mode) == IF mode = "pty" THEN {"x", "r", "n"} ELSE {"x", "n"}

-----------------------------------------------------------------------------
(* The tail of the output                                                   *)
Ends(c) == c \in {"r", "n"}

(* str.splitlines: a line ends with \n, \r or \r\n.                         *)
LineEnd(s, i) == s[i] = "n" \/ (s[i] = "r" /\ (i = Len(s) \/ s[i + 1] # "n"))

(* Where the last complete line of a text ends.                             *)
Complete(s) == LET E == {i \in 1..Len(s) : LineEnd(s, i)} IN IF E = {} THEN 0 ELSE Max(E)

SplitLines(s) ==
    LET E == {i \in 1..Complete(s) : LineEnd(s, i)}
        ends == CHOOSE e \in [1..Cardinality(E) -> E] : \A k, l \in DOMAIN e : k < l => e[k] < e[l]
    IN  [k \in 1..Cardinality(E) |-> SubSeq(s, IF k = 1 THEN 1 ELSE ends[k - 1] + 1, ends[k])]

(* Mutant: one line more than the limit is kept.                            *)
AppendedOneMore(t, lines) ==
    LET all == t.lines \o lines
    IN  [t EXCEPT !.count = @ + Len(lines),
                  !.lines = SubSeq(all, IF Len(all) > MaxLines THEN Len(all) - MaxLines ELSE 1, Len(all))]

Appended(t, lines) ==
    LET all == t.lines \o lines
    IN  [t EXCEPT !.count = @ + Len(lines),
                  !.lines = SubSeq(all, IF Len(all) > MaxLines THEN Len(all) - MaxLines + 1 ELSE 1, Len(all))]

(* Pieces of an unfinished line that is too long are kept as lines.         *)
FlushLongPartial(t) ==
    LET n == IF Len(t.partial) = 0 THEN 0 ELSE (Len(t.partial) - 1) \div MaxPartial
        pieces == [k \in 1..n |-> SubSeq(t.partial, (k - 1) * MaxPartial + 1, k * MaxPartial)]
    IN  [Appended(t, pieces) EXCEPT !.partial = SubSeq(@, n * MaxPartial + 1, Len(@))]

(* Mutant: the unfinished line before a chunk is dropped.                   *)
FeedDropsPartial(t, chunk) ==
    FlushLongPartial([Appended(t, SplitLines(chunk)) EXCEPT
                        !.partial = SubSeq(chunk, Complete(chunk) + 1, Len(chunk))])

Feed(t, chunk) ==
    LET text == t.partial \o chunk
    IN  FlushLongPartial([Appended(t, SplitLines(text)) EXCEPT
                            !.partial = SubSeq(text, Complete(text) + 1, Len(text))])

Close(t) == IF t.partial = <<>> THEN t ELSE [Appended(t, <<t.partial>>) EXCEPT !.partial = <<>>]

-----------------------------------------------------------------------------
Init ==
    /\ call \in [mode : {"pty", "streaming", "capture"}, isolated : BOOLEAN, stubborn : SUBSET Processes]
    /\ pc = "spawn" /\ proc = [p \in Processes |-> "none"]
    /\ output = <<>> /\ read = 0 /\ tail = [lines |-> <<>>, partial |-> <<>>, count |-> 0]
    /\ interrupts = 0 /\ gap = FALSE /\ early = FALSE

caller == <<call, output, read, tail, interrupts, gap, early>>

(* Popen; the child may start a helper at once.                             *)
Spawn ==
    /\ pc = "spawn"
    /\ \/ /\ pc' = "spawned"
          /\ \E helper \in {"none", "running"} : proc' = [child |-> "running", helper |-> helper]
       \/ pc' = "returned" /\ UNCHANGED proc
    /\ UNCHANGED caller

(* The handler that stops the child is in force from here on.               *)
EnterTry ==
    /\ pc = "spawned" /\ pc' = IF call.mode = "pty" THEN "read" ELSE "wait"
    /\ UNCHANGED <<proc, caller>>

-----------------------------------------------------------------------------
(* The processes                                                            *)
Running(p) == proc[p] = "running"
Killed(S) == [p \in Processes |-> IF p \in S /\ Running(p) THEN "dead" ELSE proc[p]]

Write(p, c) ==
    /\ Running(p) /\ Len(output) < MaxOutput /\ output' = Append(output, c)
    /\ UNCHANGED <<call, pc, proc, read, tail, interrupts, gap, early>>

Exit(p) ==
    /\ Running(p) /\ proc' = Killed({p})
    /\ UNCHANGED <<pc, caller>>

-----------------------------------------------------------------------------
(* Output                                                                   *)
AllClosed == \A p \in Processes : ~Running(p)
AllRead == read = Len(output)

(* A chunk of the terminal's output, cut anywhere, or lines a thread reads. *)
ReadChunk ==
    /\ \/ call.mode = "pty" /\ pc = "read"
       \/ call.mode = "streaming" /\ pc \notin {"spawn", "spawned", "returned", "raised"}
    /\ \E n \in (read + 1)..Len(output) :
        /\ read' = n /\ tail' = Feed(tail, SubSeq(output, read + 1, n))
    /\ UNCHANGED <<call, pc, proc, output, interrupts, gap, early>>

(* The terminal reports the end once nobody has it open.                    *)
EndOfOutput ==
    /\ call.mode = "pty" /\ pc = "read" /\ AllClosed /\ AllRead /\ pc' = "wait"
    /\ UNCHANGED <<proc, caller>>

Reap == proc' = [proc EXCEPT !["child"] = "reaped"]

(* process.wait returns; the threads have to reach the end of the output.   *)
Wait ==
    /\ pc = "wait" /\ proc["child"] = "dead" /\ Reap
    /\ pc' = IF call.mode = "streaming" THEN "join" ELSE "finish"
    /\ UNCHANGED caller

Join ==
    /\ pc = "join" /\ AllClosed /\ AllRead /\ pc' = "finish"
    /\ UNCHANGED <<proc, caller>>

Finish ==
    /\ pc = "finish" /\ pc' = "returned" /\ tail' = Close(tail)
    /\ UNCHANGED <<call, proc, output, read, interrupts, gap, early>>

(* A captured command runs out of time: it is killed and waited for.        *)
Deadline ==
    /\ call.mode = "capture" /\ pc = "wait" /\ Running("child")
    /\ proc' = [proc EXCEPT !["child"] = "reaped"] /\ pc' = "returned"
    /\ UNCHANGED caller

-----------------------------------------------------------------------------
(* Interrupts                                                               *)

(* Mutant: a second interrupt ends the wait for the child.                  *)
IgnoredNever == {}

(* _wait_ignoring_keyboard_interrupt.                                       *)
Ignored == {"grace", "killed"}

(* Inside the try, the child is stopped first; while it is being waited for *)
(* interrupts are ignored; anywhere else the interrupt goes through.  A     *)
(* child of the same process group gets the terminal's interrupt as well.   *)
Interrupt ==
    /\ interrupts < MaxInterrupts /\ interrupts' = interrupts + 1
    /\ call.mode # "capture" /\ pc \notin {"spawn", "returned", "raised"}
    /\ CASE pc \in {"read", "wait", "join", "finish"} -> pc' = "poll" /\ gap' = gap
         [] pc \in Ignored -> pc' = pc /\ gap' = gap
         [] OTHER -> pc' = "raised" /\ gap' = (gap \/ pc \in {"spawned", "poll", "signal", "kill"})
    /\ proc' = IF call.isolated THEN proc ELSE Killed(Processes \ call.stubborn)
    /\ UNCHANGED <<call, output, read, tail, early>>

Poll ==
    /\ pc = "poll"
    /\ IF proc["child"] \in {"dead", "reaped"}
       THEN Reap /\ pc' = "cleaned" /\ early' = TRUE
       ELSE pc' = "signal" /\ UNCHANGED <<proc, early>>
    /\ UNCHANGED <<call, output, read, tail, interrupts, gap>>

(* Mutant: only the child is signalled.                                     *)
GroupChildOnly == {"child"}

Group == IF call.isolated THEN Processes ELSE {"child"}

Terminate ==
    /\ pc = "signal" /\ pc' = "grace" /\ proc' = Killed(Group \ call.stubborn)
    /\ UNCHANGED caller

GraceEnds ==
    /\ pc = "grace"
    /\ IF Running("child") THEN pc' = "kill" /\ UNCHANGED proc ELSE Reap /\ pc' = "cleaned"
    /\ UNCHANGED caller

(* Mutant: a child that ignores SIGTERM gets it once more.                  *)
KillTermAgain(S) == S \ call.stubborn

KillSignal(S) == S

Kill ==
    /\ pc = "kill" /\ pc' = "killed" /\ proc' = Killed(KillSignal(Group))
    /\ UNCHANGED caller

KillWait ==
    /\ pc = "killed" /\ proc["child"] = "dead" /\ Reap /\ pc' = "cleaned"
    /\ UNCHANGED caller

(* The threads are given a moment, the terminal is closed.                  *)
Raise ==
    /\ pc = "cleaned" /\ pc' = "raised" /\ UNCHANGED <<proc, caller>>

Cleanup == Poll \/ Terminate \/ GraceEnds \/ Kill \/ KillWait \/ Raise

Next ==
    \/ Spawn \/ EnterTry \/ ReadChunk \/ EndOfOutput \/ Wait \/ Join \/ Finish \/ Deadline
    \/ Interrupt \/ Cleanup
    \/ \E p \in Processes : Exit(p) \/ \E c \in Chars(call.mode) : Write(p, c)

Spec == Init /\ [][Next]_vars
FairSpec == Spec /\ WF_vars(Cleanup)

-----------------------------------------------------------------------------
TypeOK ==
    /\ proc \in [Processes -> {"none", "running", "dead", "reaped"}]
    /\ read \in 0..Len(output) /\ Len(tail.lines) <= MaxLines

(* A call never ends with its child running or a zombie, however often it   *)
(* is interrupted, unless an interrupt meets one of the few instructions    *)
(* outside the try or between the steps of the cleanup.                     *)
ChildReaped == pc \in {"returned", "raised"} /\ ~gap => proc["child"] \in {"none", "reaped"}

(* An interrupted command in a group of its own leaves no helper behind     *)
(* that heeds SIGTERM, unless the child had ended by itself.                *)
NoHelperLeft ==
    pc = "raised" /\ ~gap /\ ~early /\ call.isolated /\ "helper" \notin call.stubborn => ~Running("helper")

Text == FlattenSeq(tail.lines)

(* The text that a call returns is the end of the output, all of it if the  *)
(* result does not say truncated, wherever the chunks were cut.             *)
TailIsEndOfOutput ==
    pc = "returned" /\ call.mode # "capture" =>
        /\ IsSuffix(Text, output)
        /\ tail.count <= MaxLines => Text = output

Stopping == pc = "poll"
Stopped == pc = "raised"

(* An interrupted call comes to an end, also if the child ignores SIGTERM.  *)
InterruptEnds == Stopping ~> Stopped
=============================================================================
