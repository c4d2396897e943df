----------------------------- MODULE FileMoves -----------------------------
(***************************************************************************)
(* Repo-owned files follow the manifest's movedPaths.  Every move of the   *)
(* list is judged before any file is touched; then the sources are renamed *)
(* (or removed, where the destination holds the same bytes) one by one, and*)
(* last the workflow metadata and references are rewritten file by file.   *)
(* A file is a record: its text, and for a workflow the name it goes by    *)
(* and the workflows it calls or waits for.                                *)
(***************************************************************************)
EXTENDS Naturals, Sequences, FiniteSets, SequencesExt

CONSTANTS Paths,      \* file paths
          Workflows,  \* those under .github/workflows
          FileTexts,  \* the texts of files, but for names and calls
          Titles,     \* the names workflows go by
          MoveLists,  \* movedPaths of a manifest: sequences of [from, to, job]
          Trees,      \* checkouts the moves start from
          MaxKills    \* bound on the kills of a behaviour

Kinds == {"absent", "file", "link", "directory"}
Files == [kind : Kinds, text : FileTexts, name : Titles, calls : SUBSET Paths]
Moves == [from : Paths, to : Paths, job : BOOLEAN]

(* A moved workflow is named after its destination. *)
ASSUME PathsAssumption ==
  Workflows \subseteq Paths /\ Paths \cup {""} \subseteq Titles /\ {"", "repair"} \subseteq FileTexts
ASSUME TreesAssumption == Trees \subseteq [Paths -> Files]
ASSUME MovesAssumption == MoveLists \subseteq Seq(Moves)

Absent == [kind |-> "absent", text |-> "", name |-> "", calls |-> {}]
IsFile(file) == file.kind = "file"
Exists(file) == file.kind # "absent"

VARIABLES tree,      \* path -> file
          moves,     \* the manifest's movedPaths
          shipped,   \* paths the manifest places files at
          kept,      \* paths the install must not touch
          plans,     \* moves still to be applied
          updates,   \* path -> content still to be written
          told,      \* sources already moved in this run
          phase, kills, before

moveVars == <<tree, moves, shipped, kept, plans, updates, told, phase, kills, before>>

IsWorkflowMove(move) == move.from \in Workflows /\ move.to \in Workflows

(* replaceWorkflowJob: the known retired job is replaced, a customised one that *)
(* still calls what was retired is refused.                                     *)
Repaired(file, move) ==
  IF move.job /\ file.text = "retired" THEN [file EXCEPT !.text = "repair"] ELSE file
Customised(file, move) == move.job /\ file.text = "customised"

(* rewriteMovedWorkflow: one plain name is wanted, and becomes the destination's. *)
Renameable(file) == file.name # ""
Renamed(file, to) == [file EXCEPT !.name = to]

(* rewriteWorkflowMoveReferences *)
Following(file, names) ==
  [file EXCEPT !.calls = {IF c \in DOMAIN names THEN names[c] ELSE c : c \in @}]

(* One move judged against the moves planned before it (the first loop of   *)
(* applyMovedPaths): a skipped move leaves the plans alone, a bad one       *)
(* refuses the whole list.                                                  *)
Skipped(move) == move.from \in shipped \/ {move.from, move.to} \cap kept # {}
Overlaps(move, planned) ==
  \E p \in planned :
    \/ move.from \in {p.from, p.to}
    \/ move.to = p.from
    \/ move.to = p.to /\ ~(p.workflow /\ IsWorkflowMove(move))
Unfit(move) ==
  \/ \E path \in {move.from, move.to} : tree[path].kind = "link"
  \/ ~IsFile(tree[move.from])
  \/ IsWorkflowMove(move) /\ (Customised(tree[move.from], move) \/ ~Renameable(tree[move.from]))
  \/ Exists(tree[move.to]) /\ ~IsFile(tree[move.to])
Planned(move) ==
  [from |-> move.from, to |-> move.to, workflow |-> IsWorkflowMove(move),
   content |-> IF IsWorkflowMove(move)
               THEN Renamed(Repaired(tree[move.from], move), move.to) ELSE tree[move.from]]
Judged(acc, move) ==
  IF acc.refused \/ Skipped(move) THEN acc
  ELSE IF move.from = move.to \/ Overlaps(move, Range(acc.plans))
    THEN [acc EXCEPT !.refused = TRUE]
  ELSE IF ~Exists(tree[move.from]) THEN acc
  ELSE IF Unfit(move) THEN [acc EXCEPT !.refused = TRUE]
  ELSE [acc EXCEPT !.plans = Append(@, Planned(move))]
Judgement ==
  LET after[n \in 0 .. Len(moves)] ==
        IF n = 0 THEN [plans |-> <<>>, refused |-> FALSE] ELSE Judged(after[n - 1], moves[n])
  IN after[Len(moves)]

NewNames(list) == [from \in {p.from : p \in {q \in Range(list) : q.workflow}} |->
                  (CHOOSE p \in Range(list) : p.from = from).to]

(* A mutant of Conflicts: only what is at the destination is compared. *)
ConflictsWithTarget(list) ==
  \E p \in Range(list) : ~p.workflow /\ Exists(tree[p.to]) /\ tree[p.to] # tree[p.from]

(* Two files would share a path with different contents (the second loop). *)
Conflicts(list) ==
  \E p \in Range(list) :
    IF ~p.workflow THEN Exists(tree[p.to]) /\ tree[p.to] # tree[p.from]
    ELSE LET content == Following(p.content, NewNames(list))
         IN \/ \E q \in Range(list) :
                 q.workflow /\ q.to = p.to /\ Following(q.content, NewNames(list)) # content
            \/ /\ Exists(tree[p.to])
               /\ ~Renameable(tree[p.to]) \/ Following(Renamed(tree[p.to], p.to), NewNames(list)) # content

(* What every workflow of the directory is to hold afterwards. *)
Updates(list) ==
  LET names         == NewNames(list)
      movedTo(path) == {p.to : p \in {q \in Range(list) : q.from = path}}
      landing(path) == IF movedTo(path) = {} THEN path ELSE CHOOSE to \in movedTo(path) : TRUE
      moved    == {p \in Range(list) : p.workflow}
      follows  == {path \in Workflows :
                     /\ IsFile(tree[path]) /\ Following(tree[path], names) # tree[path]
                     /\ movedTo(path) = {} => \A p \in Range(list) : p.to # path
                     /\ \A p \in moved : p.from # path}
  IN [path \in {p.to : p \in moved} \cup {landing(path) : path \in follows} |->
        IF \E p \in moved : p.to = path
          THEN Following((CHOOSE p \in moved : p.to = path).content, names)
          ELSE Following(tree[CHOOSE from \in follows : landing(from) = path], names)]

Texts == {tree[p].text : p \in {q \in Paths : IsFile(tree[q])}}

MovesInit ==
  /\ tree \in Trees /\ moves \in MoveLists
  /\ shipped \in SUBSET {m.from : m \in Range(moves)} /\ Cardinality(shipped) <= 1
  /\ kept \in {{}} \cup {{m.to} : m \in Range(moves)}
  /\ plans = <<>> /\ updates = <<>> /\ told = {} /\ phase = "idle" /\ kills = 0
  /\ before = Texts

PlanMoves ==
  /\ phase = "idle"
  /\ IF Judgement.refused \/ Conflicts(Judgement.plans)
       THEN phase' = "refused" /\ UNCHANGED <<plans, updates, told>>
       ELSE /\ phase' = "moving" /\ plans' = Judgement.plans /\ told' = {}
            /\ updates' = Updates(Judgement.plans)
  /\ UNCHANGED <<tree, moves, shipped, kept, kills, before>>

(* A destination that is there by now has the same content: the source goes. *)
MoveOne ==
  /\ phase = "moving" /\ plans # <<>>
  /\ LET p == Head(plans)
     IN /\ tree' = IF Exists(tree[p.to]) THEN [tree EXCEPT ![p.from] = Absent]
                   ELSE [tree EXCEPT ![p.from] = Absent, ![p.to] = tree[p.from]]
        /\ told' = IF p.workflow THEN told \cup {p.from} ELSE told
  /\ plans' = Tail(plans)
  /\ UNCHANGED <<moves, shipped, kept, updates, phase, kills, before>>

UpdateOne ==
  /\ phase = "moving" /\ plans = <<>>
  /\ \E path \in DOMAIN updates :
       /\ tree' = [tree EXCEPT ![path] = updates[path]]
       /\ updates' = [p \in DOMAIN updates \ {path} |-> updates[p]]
  /\ UNCHANGED <<moves, shipped, kept, plans, told, phase, kills, before>>

MovesDone ==
  /\ phase = "moving" /\ plans = <<>> /\ DOMAIN updates = {} /\ phase' = "moved"
  /\ UNCHANGED <<tree, moves, shipped, kept, plans, updates, told, kills, before>>

(* The install is killed and run again from the start. *)
KillMoves ==
  /\ phase = "moving" /\ kills < MaxKills /\ kills' = kills + 1
  /\ phase' = "idle" /\ plans' = <<>> /\ updates' = <<>> /\ told' = {}
  /\ UNCHANGED <<tree, moves, shipped, kept, before>>

MovesNext == PlanMoves \/ MoveOne \/ UpdateOne \/ MovesDone \/ KillMoves

MovesSpec == MovesInit /\ [][MovesNext]_moveVars

(* The retired job and the one that replaces it are the manifest's. *)
Jobs == {"retired", "repair"}

(* However the list overlaps, collides or is cut short by a kill, no text of  *)
(* the member leaves its tree: applyMovedPaths removes a source only when the *)
(* same text is at its destination.  Where a workflow with the retired job    *)
(* and one with its repair meet, one of the two stays, and without a kill     *)
(* between the moves and the rewriting it is the repair.                      *)
MovesLoseNothing ==
  /\ \A text \in before : text \in Texts \/ (text \in Jobs /\ Texts \cap Jobs # {})
  /\ phase = "moved" /\ kills = 0 /\ "repair" \in before => "repair" \in Texts

(* A list applied without a kill leaves no workflow that calls or waits for   *)
(* one of the moved ones under its old name.  A file that the list brings in  *)
(* from outside the workflows is not read for references: nothing is said of  *)
(* a destination of such a move.                                              *)
Within(path) == \A m \in Range(moves) : m.to = path => m.from \in Workflows
ReferencesFollow ==
  phase = "moved" =>
    \A path \in Workflows :
      IsFile(tree[path]) /\ Within(path) => tree[path].calls \cap told = {}
=============================================================================
