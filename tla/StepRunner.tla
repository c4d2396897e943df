----------------------------- MODULE StepRunner -----------------------------
(***************************************************************************)
(* run_step_bounded: a step runs in a process group of its own, is polled  *)
(* until it ends or its budget is spent, and is then killed with its whole *)
(* group.  The step's processes end, hang or handle signals as they like.  *)
(***************************************************************************)
EXTENDS Naturals

CONSTANTS Budget,    \* polls before the budget is spent
          Workers    \* the processes the step spawns

ASSUME StepConstants == Budget \in Nat

\* 1 is a failure of the step itself, 143 and 137 a TERM and a KILL.
Statuses == {0, 1, 137, 143}
Running == 999

VARIABLE step

NoStep == [pc |-> "idle", leader |-> Running, workers |-> Workers, ticks |-> 0,
           signalled |-> FALSE, checked |-> TRUE, ungated |-> {}, result |-> Running]

StepInit == step = NoStep

\* The group exists while one of its processes does.
GroupExists == step.leader = Running \/ step.workers # {}

-----------------------------------------------------------------------------
(* The step's own processes.                                                *)

\* The leader ends by itself, or by its TERM handler, with workers left or not.
LeaderEnds ==
    /\ step.pc \notin {"idle", "done"} /\ step.leader = Running
    /\ \E s \in Statuses \ {137}, left \in SUBSET step.workers, c \in BOOLEAN :
        step' = [step EXCEPT !.leader = s, !.workers = left, !.checked = c]

-----------------------------------------------------------------------------
(* The runner.                                                              *)

\* Without setsid and without job control the step is refused unrun.
StartStep ==
    /\ step.pc = "idle"
    /\ \/ step' = [step EXCEPT !.pc = "poll"]
       \/ step' = [step EXCEPT !.pc = "done", !.result = 1, !.leader = 1, !.workers = {}]

\* kill -0 sees the leader: one more tick, or the budget is spent.
Poll ==
    /\ step.pc = "poll" /\ step.leader = Running
    /\ step' = IF step.ticks >= Budget THEN [step EXCEPT !.pc = "term"]
               ELSE [step EXCEPT !.ticks = @ + 1]

\* The leader is gone: its status is the step's, and a run that checked
\* nothing is noted.
CollectStatus ==
    /\ step.pc = "poll" /\ step.leader # Running
    /\ step' = [step EXCEPT !.pc = "done", !.result = step.leader,
                    !.ungated = IF step.leader = 0 /\ ~step.checked
                                THEN {"nothing checked"} ELSE {}]

\* TERM to the group: it counts as sent when there was a group to send it to;
\* a leader that ended but was not waited for yet still makes one.
TermGroup ==
    /\ step.pc = "term"
    /\ \E dies \in BOOLEAN, left \in SUBSET step.workers, sent \in {GroupExists, TRUE} :
        step' = [step EXCEPT !.pc = "kill", !.signalled = sent,
                     !.leader = IF @ = Running /\ dies THEN 143 ELSE @,
                     !.workers = left]

KillGroup ==
    /\ step.pc = "kill"
    /\ step' = [step EXCEPT !.pc = "verdict",
                    !.leader = IF @ = Running THEN 137 ELSE @,
                    !.workers = {}]

\* The verdict takes any death after the timeout for the runner's own.
VerdictBySignalAlone ==
    /\ step.pc = "verdict"
    /\ step' = IF step.signalled \/ step.leader = 0
               THEN [step EXCEPT !.pc = "done", !.result = 0, !.ungated = {"hung"}]
               ELSE [step EXCEPT !.pc = "done", !.result = step.leader]

\* A status of its own blocks even now; only a success or a death by the
\* runner's signals is a skip.
TimeoutVerdict ==
    /\ step.pc = "verdict"
    /\ step' = IF step.leader = 0 \/ (step.leader \in {137, 143} /\ step.signalled)
               THEN [step EXCEPT !.pc = "done", !.result = 0, !.ungated = {"hung"}]
               ELSE [step EXCEPT !.pc = "done", !.result = step.leader]

StepNext ==
    \/ LeaderEnds \/ StartStep \/ Poll \/ CollectStatus
    \/ TermGroup \/ KillGroup \/ TimeoutVerdict

StepSpec == StepInit /\ [][StepNext]_step

-----------------------------------------------------------------------------
(* Properties.                                                              *)

\* A step that ended with a failure of its own never reads as passed or as
\* skipped, whichever of the step and the budget came first; one that passed
\* without a note checked something; and a skip leaves no process behind.
StepFailureBlocks ==
    step.pc = "done" =>
        /\ step.leader = 1 => step.result # 0
        /\ step.result = 0 /\ step.ungated = {} => step.leader = 0 /\ step.checked
        /\ "hung" \in step.ungated => ~GroupExists


=============================================================================
