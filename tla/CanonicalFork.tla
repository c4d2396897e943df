---------------------------- MODULE CanonicalFork ----------------------------
(***************************************************************************)
(* A member repository holds a copy of a file the fleet's producer owns.   *)
(* The pre-commit hook lets a changed copy through when it can show where  *)
(* its bytes come from: a signed commit of the producer, the pack that was *)
(* applied last, a recipe of signed patches over the committed copy, the   *)
(* other parent of a merge, or no change within the fleet's own regions.   *)
(*                                                                         *)
(* A copy is two places of a fleet region, what is around them, and        *)
(* whether the region is marked as one.  Its mode is 100644 throughout,    *)
(* and the member is on the fleet's roster.                                *)
(***************************************************************************)
EXTENDS Naturals, SequencesExt

CONSTANTS FleetTexts,   \* texts the producer puts into a place
          OwnTexts,     \* texts only the member has
          Marked,       \* the fleet marks its region of this file
          Recipes,      \* what receipts say: the producer's root and the steps
          MaxCanonical, \* bound on the producer's commits
          MaxCopies     \* bound on the member's commits

Places == {1, 2}
Layers == <<"capability", "universal">>  \* of the member's layers, in their order

ASSUME CanonicalConstants ==
    /\ FleetTexts # {} /\ FleetTexts \cap OwnTexts = {} /\ Marked \in BOOLEAN
    /\ MaxCanonical \in Nat \ {0} /\ MaxCopies \in Nat
    /\ \A r \in Recipes : r.steps \in Seq([commit : Nat, layer : Range(Layers), hunks : SUBSET Nat,
                                          unique : BOOLEAN])

Missing == [texts |-> <<>>, around |-> "nothing", marked |-> FALSE]

Fleet(texts) == [texts |-> texts, around |-> "fleet", marked |-> Marked]
FleetCopies == {Fleet(t) : t \in [Places -> FleetTexts]}
Copies == [texts : [Places -> FleetTexts \cup OwnTexts], around : {"fleet", "own"},
           marked : BOOLEAN]

FirstCopy == CHOOSE c \in FleetCopies : TRUE

\* Copies that other branches, or times before the hook, have left.
Drifted == {[FirstCopy EXCEPT !.texts[1] = t, !.around = "own"] : t \in OwnTexts}

VARIABLES
    producer, \* its history: each commit's kind and the file in each layer
    member,   \* the head's number, its copy, its capability, the merge under way
    applied   \* the producer commit of the pack applied last, 0 for none

forkVars == <<producer, member, applied>>

ForkInit ==
    /\ producer = <<[kind |-> "signed",
                     tree |-> [l \in Range(Layers) |->
                         IF l = "universal" THEN FirstCopy ELSE Missing]]>>
    /\ \E copy \in {FirstCopy} \cup Drifted :
        member = [head |-> 0, copy |-> copy, capable |-> FALSE, merging |-> Missing]
    /\ applied = 0

-----------------------------------------------------------------------------
(* Where the bytes of a copy may come from.                                 *)

\* Signed, and with exactly one parent.
SignedParent(c) == c > 1 /\ producer[c].kind = "signed"

\* The layers of the member that have the file, by their rank.
Having(c) == {i \in DOMAIN Layers : /\ Layers[i] = "capability" => member.capable
                                    /\ producer[c].tree[Layers[i]] # Missing}

\* A mutant: every layer of the member may be the source.
SourceAllowedAnyLayer(c, layer) == \E i \in Having(c) : layer = Layers[i]

\* The first layer of the member that has the file is its only source.
SourceAllowed(c, layer) == \E i \in Having(c) : layer = Layers[i] /\ \A j \in Having(c) : i <= j

ProducerHeadMatches(staged) ==
    LET head == Len(producer)
    IN  /\ SignedParent(head)
        /\ \E l \in Range(Layers) : SourceAllowed(head, l) /\ producer[head].tree[l] = staged

\* The manifest of the pack lists the file, and no capability has one of its own.
BundleMatches(staged) ==
    /\ applied # 0 /\ producer[applied].tree["capability"] = Missing
    /\ producer[applied].tree["universal"] = staged

MergeParentMatches(staged) == member.merging # Missing /\ staged = member.merging

\* The fleet's regions are as many and the same as in the committed copy.
RegionsKept(staged) ==
    /\ member.copy # Missing /\ member.copy.marked /\ staged.marked
    /\ staged.texts = member.copy.texts

-----------------------------------------------------------------------------
(* Recipes.  A step names a commit, a layer, which hunks of its patch (none *)
(* for all of them) and whether a hunk may be placed by its text alone.     *)
(* Results are sets of at most one copy: no copy is a refusal.              *)

\* What a step's commit has for its member, and what it changed that from.
After(s)  == producer[s.commit].tree[s.layer]
Before(s) == producer[s.commit - 1].tree[s.layer]

\* The places its patch changes: one hunk each, numbered from the top.
Hunks(s) == {i \in Places : Before(s).texts[i] # After(s).texts[i]}
Number(i, hunks) == Cardinality({j \in hunks : j <= i})

SourcePatch(s) ==
    IF /\ s.commit \in DOMAIN producer /\ SignedParent(s.commit) /\ SourceAllowed(s.commit, s.layer)
       /\ Before(s) # Missing
    THEN IF s.hunks = {} THEN Hunks(s)
         ELSE IF \E n \in s.hunks : n > Cardinality(Hunks(s)) THEN {}
         ELSE {i \in Hunks(s) : Number(i, Hunks(s)) \in s.hunks}
    ELSE {}

\* git apply: every hunk where it stands, with its context, or nothing.
ApplyStrict(copy, s, places) ==
    IF copy.around = "fleet" /\ \A i \in places : copy.texts[i] = Before(s).texts[i]
    THEN {[copy EXCEPT !.texts = [p \in Places |-> IF p \in places THEN After(s).texts[p] ELSE @[p]]]}
    ELSE {}

\* replaceUniqueRun: the replaced text must occur once, wherever that is.
ReplaceUnique(copy, s, i) ==
    {[copy EXCEPT !.texts[place] = After(s).texts[i]] : place \in
        {p \in Places : {q \in Places : copy.texts[q] = Before(s).texts[i]} = {p}}}

\* One hunk after the other, each where it stands or else by its text alone.
ApplyHunk(found, s, i, places) ==
    IF i \notin places THEN found
    ELSE UNION {IF ApplyStrict(c, s, {i}) # {} THEN ApplyStrict(c, s, {i})
                ELSE ReplaceUnique(c, s, i) : c \in found}
ApplyIndividually(copy, s, places) == ApplyHunk(ApplyHunk({copy}, s, 1, places), s, 2, places)

ApplyStep(copy, s) ==
    LET places == SourcePatch(s)
    IN  IF places = {} THEN {}
        ELSE IF ApplyStrict(copy, s, places) # {} THEN ApplyStrict(copy, s, places)
        ELSE IF s.unique THEN ApplyIndividually(copy, s, places) ELSE {}

Replayed(copy, steps) ==
    LET after[n \in 0 .. Len(steps)] ==
            IF n = 0 THEN {copy} ELSE UNION {ApplyStep(c, steps[n]) : c \in after[n - 1]}
    IN  after[Len(steps)]

\* A commit may be replayed once, and only over a committed copy.
ApplyProofSteps(copy, steps) ==
    IF copy = Missing \/ Cardinality({s.commit : s \in Range(steps)}) < Len(steps) THEN {}
    ELSE Replayed(copy, steps)

\* The receipt was written for this head, and from the producer's checkout.
RecipeHolds(recipe, head) == recipe.root = "producer" /\ head = member.head

RecipeCopies(recipe) ==
    {After(s) : s \in
        {t \in Range(recipe.steps) : /\ t.commit \in DOMAIN producer /\ SignedParent(t.commit)
                                    /\ SourceAllowed(t.commit, t.layer)}}

-----------------------------------------------------------------------------
(* Steps of the producer, of the member's checkout, and its commits.        *)

\* The producer changes or drops the file in one layer.
ProducerCommits ==
    /\ Len(producer) <= MaxCanonical
    /\ \E kind \in {"signed", "unsigned", "merge"}, l \in Range(Layers), c \in FleetCopies \cup {Missing} :
        /\ c # Last(producer).tree[l]
        /\ producer' = Append(producer, [kind |-> kind,
                                         tree |-> [Last(producer).tree EXCEPT ![l] = c]])
    /\ UNCHANGED <<member, applied>>

ApplyPack ==
    /\ applied' \in DOMAIN producer /\ UNCHANGED <<producer, member>>

\* A merge brings the copy the other branch has.
StartMerge ==
    /\ member.merging = Missing
    /\ \E c \in Drifted : member' = [member EXCEPT !.merging = c]
    /\ UNCHANGED <<producer, applied>>

\* A commit of other files: the receipt of the head before is stale.
OtherCommit ==
    /\ member.head < MaxCopies
    /\ \E c \in BOOLEAN : member' = [member EXCEPT !.head = @ + 1, !.capable = c, !.merging = Missing]
    /\ UNCHANGED <<producer, applied>>

\* A deletion is not among the scanned files.
DeleteCopy ==
    /\ member.head < MaxCopies /\ member.copy # Missing
    /\ member' = [member EXCEPT !.head = @ + 1, !.copy = Missing, !.merging = Missing]
    /\ UNCHANGED <<producer, applied>>

CommitCopy(staged) ==
    /\ member.head < MaxCopies /\ staged # member.copy
    /\ member' = [member EXCEPT !.head = @ + 1, !.copy = staged, !.merging = Missing]
    /\ UNCHANGED <<producer, applied>>

\* scanCanonicalForkPaths over the staged copy; a receipt is whatever was
\* written for some head so far.
CommitChangedCopy ==
    \/ \E staged \in Copies :
        /\ \/ MergeParentMatches(staged) \/ RegionsKept(staged)
           \/ ProducerHeadMatches(staged) \/ BundleMatches(staged)
        /\ CommitCopy(staged)
    \/ \E recipe \in Recipes, head \in 0 .. member.head :
        /\ RecipeHolds(recipe, head)
        /\ \E staged \in RecipeCopies(recipe) \cup ApplyProofSteps(member.copy, recipe.steps) :
            CommitCopy(staged)

ForkNext ==
    \/ ProducerCommits \/ ApplyPack \/ StartMerge \/ OtherCommit \/ DeleteCopy \/ CommitChangedCopy

ForkSpec == ForkInit /\ [][ForkNext]_forkVars

-----------------------------------------------------------------------------
(* What the producer means for this member.                                 *)

\* The layer whose file this member is to have.
MeantLayer(c) == IF member.capable /\ producer[c].tree["capability"] # Missing
                 THEN "capability" ELSE "universal"

\* The signed commits with one parent that have the file, each with that layer.
Meant == {<<c, MeantLayer(c)>> : c \in {d \in 2 .. Len(producer) :
             producer[d].kind = "signed" /\ producer[d].tree[MeantLayer(d)] # Missing}}

VouchedCopies ==
    {producer[m[1]].tree[m[2]] : m \in Meant}
    \cup (IF applied = 0 THEN {} ELSE {producer[applied].tree["universal"]})

\* Texts that such commits replace by texts among them only.
Closed(texts) ==
    \A m \in Meant, i \in Places :
        LET before == producer[m[1] - 1].tree[m[2]]
        IN  before # Missing /\ before.texts[i] \in texts => producer[m[1]].tree[m[2]].texts[i] \in texts

\* What a text may have become through any number of such replacements.
Becomes(old, new) ==
    \A texts \in SUBSET (FleetTexts \cup OwnTexts) : old \in texts /\ Closed(texts) => new \in texts

\* Through any number of commits, whichever proof let a copy through: a text
\* of the fleet region that is new stands where a signed commit of the
\* producer has it, in the layer that is this member's, or the applied pack,
\* or it replaced what such commits replace by it; only a merge brings others.
\* The marks of the region never go but with the fleet's own copy.
ForkedTextIsVouched ==
    [][member'.copy \notin {member.copy, member.merging, Missing} =>
        /\ \A i \in Places :
            \/ \E c \in VouchedCopies \ {Missing} : member'.copy.texts[i] = c.texts[i]
            \/ member.copy # Missing /\ Becomes(member.copy.texts[i], member'.copy.texts[i])
        /\ \/ member'.copy.marked = Marked
           \/ member.copy # Missing /\ member'.copy.marked = member.copy.marked]_forkVars
=============================================================================
