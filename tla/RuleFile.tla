------------------------------ MODULE RuleFile ------------------------------
(***************************************************************************)
(* The engineering rules of a member repository move from CLAUDE.md to     *)
(* AGENTS.md, and CLAUDE.md becomes a generated pointer.  The move is      *)
(* attempted at the head of every stage of a hydration: by the doctor      *)
(* before it fetches, by the install, by the segment merge and by the      *)
(* adapter projection.  The doctor's attempt is outside the hydration lock *)
(* and looks at no tracked path.                                           *)
(***************************************************************************)
EXTENDS Naturals, Sequences, FiniteSets

CONSTANTS Hydrations,  \* processes hydrating this checkout
          Rules,       \* authored rule texts
          Reach,       \* how many commits of HEAD's history are searched
          Histories,   \* what CLAUDE.md was in HEAD and its first parents
          MaxCrashes   \* bound on the kills of a behaviour

ASSUME ReachAssumption == Reach \in Nat \ {0}
ASSUME RulesAssumption ==
  Rules \cap {"blank", "generated", "seed", "absent", "link", "strange", "none"} = {}

Bodies == Rules \cup {"blank", "generated", "seed"}  \* "seed": the fleet block alone
Forms == Bodies \cup {"absent", "link", "strange"}   \* "strange": a directory, another link
Authored == Rules \cup {"seed"}
Stages == <<"prepare", "install", "segments", "adapters">>

VARIABLES claude,    \* CLAUDE.md in the working tree
          agents,    \* AGENTS.md in the working tree
          history,   \* CLAUDE.md in HEAD and its first parents
          tracked,   \* which of the two files git tracks
          stage,     \* per hydration: its stage, 0 when idle
          step,      \* per hydration: where it is in that stage
          temporary, \* per hydration: the recovered body it has written aside
          deferred,  \* per hydration: the seed of AGENTS.md waits for the member
          lock, crashes

ruleVars == <<claude, agents, history, tracked, stage, step, temporary, deferred,
              lock, crashes>>

(* isGeneratedRuleBody: a pointer, alone or around one complete fleet block. *)
IsGenerated(body) == body = "generated"

(* The newest authored CLAUDE.md within reach; HEAD's must be a regular file. *)
Recovered ==
  LET found == {i \in DOMAIN history : i <= Reach /\ history[i] \in Authored}
  IN IF history = <<>> \/ history[1] = "absent" \/ found = {} THEN "none"
     ELSE history[CHOOSE i \in found : \A j \in found : i <= j]

(* AGENTS.md has rules of its own. *)
Ruled == agents \in Bodies /\ ~IsGenerated(agents)

(* A mutant of Verdict: an authored CLAUDE.md is renamed over an authored AGENTS.md. *)
VerdictOverAgents ==
  IF agents = "strange" THEN "refuse"
  ELSE IF agents = "absent" /\ claude = "absent" THEN "keep"
  ELSE IF claude \in {"absent", "link", "strange", "blank"} THEN "refuse"
  ELSE IF ~IsGenerated(claude) THEN "rename"
  ELSE IF Recovered = "none" THEN "refuse" ELSE "recover"

(* What migrateUnpreservedRuleFile is going to do with the two files. *)
Verdict ==
  IF agents = "strange" THEN "refuse"
  ELSE IF Ruled \/ (agents = "absent" /\ claude = "absent") THEN "keep"
  ELSE IF claude \in {"absent", "link", "strange", "blank"} THEN "refuse"
  ELSE IF ~IsGenerated(claude) THEN "rename"
  ELSE IF Recovered = "none" THEN "refuse" ELSE "recover"

(* The doctor passes no preserved path, the stages of the install do. *)
Preserved(h) == IF stage[h] = 1 THEN {} ELSE tracked

DeferSeed ==
  /\ "CLAUDE.md" \in tracked /\ "AGENTS.md" \notin tracked
  /\ agents = "absent" /\ claude \in Authored

RuleInit ==
  /\ claude \in Forms \ {"seed"} /\ agents \in Forms \ {"seed"}
  /\ claude # "link" /\ history \in Histories
  /\ tracked \in SUBSET {"CLAUDE.md", "AGENTS.md"}
  /\ "CLAUDE.md" \in tracked <=> history # <<>> /\ history[1] # "absent"
  /\ claude \in Rules => "CLAUDE.md" \in tracked   \* as in every member before the move
  /\ stage = [h \in Hydrations |-> 0] /\ step = [h \in Hydrations |-> "idle"]
  /\ temporary = [h \in Hydrations |-> "absent"] /\ deferred = [h \in Hydrations |-> FALSE]
  /\ lock = {} /\ crashes = 0

At(h, s) == step[h] = s
Goto(h, s) == step' = [step EXCEPT ![h] = s]

(* A run of the doctor (stage 1) or of fleet.mjs itself (stage 2, under the lock). *)
StartRun(h) ==
  /\ At(h, "idle")
  /\ \E first \in {1, 2} :
       /\ first = 2 => lock = {}
       /\ lock' = IF first = 2 THEN {h} ELSE lock
       /\ stage' = [stage EXCEPT ![h] = first]
  /\ Goto(h, "judge") /\ deferred' = [deferred EXCEPT ![h] = FALSE]
  /\ UNCHANGED <<claude, agents, history, tracked, temporary, crashes>>

(* The two files are read and the way of the migration is settled. *)
Judge(h) ==
  /\ At(h, "judge")
  /\ LET verdict == IF Preserved(h) # {} THEN "keep" ELSE Verdict
     IN Goto(h, IF verdict = "keep" THEN "effect" ELSE verdict)
  /\ UNCHANGED <<claude, agents, history, tracked, stage, temporary, deferred, lock, crashes>>

(* An error anywhere ends the run. *)
EndRun(h) ==
  /\ stage' = [stage EXCEPT ![h] = 0] /\ Goto(h, "idle") /\ lock' = lock \ {h}

Refuse(h) ==
  /\ At(h, "refuse") /\ EndRun(h)
  /\ UNCHANGED <<claude, agents, history, tracked, temporary, deferred, crashes>>

(* renameSync(legacy, current): whatever CLAUDE.md is by now. *)
RenameLegacy(h) ==
  /\ At(h, "rename")
  /\ IF claude = "absent"
       THEN EndRun(h) /\ UNCHANGED <<claude, agents>>
       ELSE /\ agents' = claude /\ claude' = "absent"
            /\ Goto(h, "effect") /\ UNCHANGED <<stage, lock>>
  /\ UNCHANGED <<history, tracked, temporary, deferred, crashes>>

WriteRecovered(h) ==
  /\ At(h, "recover")
  /\ temporary' = [temporary EXCEPT ![h] = Recovered] /\ Goto(h, "swap")
  /\ UNCHANGED <<claude, agents, history, tracked, stage, deferred, lock, crashes>>

RenameRecovered(h) ==
  /\ At(h, "swap")
  /\ agents' = temporary[h] /\ temporary' = [temporary EXCEPT ![h] = "absent"]
  /\ Goto(h, "effect")
  /\ UNCHANGED <<claude, history, tracked, stage, deferred, lock, crashes>>

(* What the stage does after its migration, and the stage that follows.  The *)
(* doctor starts fleet.mjs, which takes the lock.                            *)
StageEffect(h) ==
  /\ At(h, "effect")
  /\ stage[h] = 1 => lock = {}
  /\ lock' = IF stage[h] = 1 THEN {h} ELSE IF stage[h] = 4 THEN lock \ {h} ELSE lock
  /\ deferred' = [deferred EXCEPT ![h] = IF stage[h] = 2 THEN DeferSeed ELSE @]
  /\ agents' = IF /\ stage[h] = 3 /\ agents = "absent" /\ ~deferred[h]
                  /\ "AGENTS.md" \notin tracked
               THEN "seed" ELSE agents
  /\ claude' = IF stage[h] = 4 /\ ~deferred[h] /\ claude # "strange" /\ "CLAUDE.md" \notin tracked
               THEN "generated" ELSE claude
  /\ stage' = [stage EXCEPT ![h] = IF @ = 4 THEN 0 ELSE @ + 1]
  /\ Goto(h, IF stage[h] = 4 THEN "idle"
             ELSE IF stage[h] = 3 /\ deferred[h] THEN "skip" ELSE "judge")
  /\ UNCHANGED <<history, tracked, temporary, crashes>>

(* A deferred seed leaves the adapters alone. *)
SkipAdapters(h) ==
  /\ At(h, "skip") /\ EndRun(h)
  /\ UNCHANGED <<claude, agents, history, tracked, temporary, deferred, crashes>>

CrashRun(h) ==
  /\ ~At(h, "idle") /\ crashes < MaxCrashes /\ crashes' = crashes + 1
  /\ EndRun(h)
  /\ temporary' = [temporary EXCEPT ![h] = "absent"]  \* its name is never used again
  /\ UNCHANGED <<claude, agents, history, tracked, deferred>>

RuleNext == \E h \in Hydrations :
  \/ StartRun(h) \/ Judge(h) \/ Refuse(h) \/ RenameLegacy(h) \/ WriteRecovered(h)
  \/ RenameRecovered(h) \/ StageEffect(h) \/ SkipAdapters(h) \/ CrashRun(h)

RuleSpec == RuleInit /\ [][RuleNext]_ruleVars

(***************************************************************************)
(* The text that rules the repository: AGENTS.md once it is authored, then *)
(* an authored CLAUDE.md, then what the history gives back.                *)
(***************************************************************************)
Authority ==
  IF Ruled THEN agents
  ELSE IF agents # "strange" /\ claude \in Rules THEN claude
  ELSE IF agents # "strange" /\ IsGenerated(claude) THEN Recovered
  ELSE "none"

(* The CLAUDE.md this run has judged was replaced by a pointer before its rename. *)
Overtaken(h) == At(h, "rename") /\ IsGenerated(claude)

(* A tracked pointer hides from an install what only the history still has. *)
Hidden(h) == stage[h] = 3 /\ At(h, "effect") /\ agents = "absent" /\ "CLAUDE.md" \in tracked

(* No step of any hydration, and no kill between two, changes the text that *)
(* rules the repository: recoverRuleAuthority, the rename and the projected *)
(* pointer never leave a checkout with other rules than it had.  Two steps  *)
(* are told apart because the code does not guard them.                     *)
RulesSurvive ==
  [][\/ Authority' = Authority \/ Authority \notin Rules
     \/ \E h \in Hydrations : Overtaken(h) \/ Hidden(h)]_ruleVars
=============================================================================
