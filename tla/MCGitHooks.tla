----------------------------- MODULE MCGitHooks -----------------------------
(* One source file, clean or with a token, a commit and two pushes; or one   *)
(* bounded step, which runs while no hook does and leaves the repository be;  *)
(* or a copy of a canonical file and the commits that change it.              *)
EXTENDS GitHooks, StepRunner, CanonicalFork

McPath == {"source", "typescript"}
McTexts == {{[kind |-> "plain", marks |-> {}]},
            {[kind |-> "githubToken", marks |-> {}]}}
McMessages == {{}, {"attribution"}}
McRefSets == {{"main"}, {"main", "wip"}, {"wip"}, {"tag"}}

\* Receipts of one step over each layer, of two steps, and one twice over.
McStep(c, l, h, u) == [commit |-> c, layer |-> l, hunks |-> h, unique |-> u]
McSteps ==
    {<<McStep(c, l, {}, u)>> : c \in {2, 3}, l \in Range(Layers), u \in BOOLEAN}
    \cup {<<McStep(c, "universal", {2}, FALSE)>> : c \in {2, 3}}
    \cup {<<McStep(2, "universal", {}, u), McStep(3, "universal", {}, u)>> : u \in BOOLEAN}
    \cup {<<McStep(2, "universal", {}, TRUE), McStep(2, "universal", {}, TRUE)>>}
McRecipes == {[root |-> "producer", steps |-> s] : s \in McSteps}
             \cup {[root |-> "elsewhere", steps |-> <<McStep(2, "universal", {}, TRUE)>>]}

McInit == Init /\ StepInit /\ ForkInit
McNext ==
    \/ step.pc = "idle" /\ ForkInit /\ member.copy = FirstCopy /\ Next /\ UNCHANGED <<step, forkVars>>
    \/ Init /\ ForkInit /\ member.copy = FirstCopy /\ StepNext /\ UNCHANGED <<vars, forkVars>>
    \/ Init /\ tracking = NoCommit /\ step.pc = "idle" /\ ForkNext /\ UNCHANGED <<vars, step>>
McSpec == McInit /\ [][McNext]_<<vars, step, forkVars>>
=============================================================================
