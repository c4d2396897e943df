---------------------------- MODULE Hooks_proofs ----------------------------
(***************************************************************************)
(* The git hooks of a shared checkout and the runner of their steps, for   *)
(* any texts, messages, keys, identities, refs and bounds.                 *)
(*                                                                         *)
(* Each of the three promises of the hooks has an invariant of its own on  *)
(* top of the types: VouchInv for what main holds, ReadInv for the tips of *)
(* branches, CleanInv for the commits recorded behind the gate.  What they *)
(* share is how far a push has come (PushProgress) and that the published  *)
(* tag is the local one, which nobody moves (TagInv).  The canonical fork  *)
(* has none but its types: what a commit may bring is a matter of one step *)
(* and of every hunk a recipe replays.                                     *)
(***************************************************************************)
EXTENDS GitHooks, StepRunner, CanonicalFork, FiniteSetTheorems, SequenceTheorems, NaturalsInduction,
        WellFoundedInduction, TLAPS

(***************************************************************************)
(* Types.  The histories a merge brings in hold no merge themselves.       *)
(***************************************************************************)
Content == [text : Texts, gone : Nat, benign : BOOLEAN]
Sealed(seconds) ==
    [text : Texts, gone : Nat, benign : BOOLEAN, msg : SUBSET MessageFlaws,
     sig : {"listed", "unlisted", "none"}, second : seconds, via : {"open", "gate"}]
Linear == Seq(Sealed({NoCommit}))
Commits == Sealed(Linear)
History == Seq(Commits)

TreeTypes ==
    /\ work \in Texts /\ index \in Content
    /\ local \in History /\ local # NoCommit
    /\ tag \in History /\ tracking \in History /\ remote \in [Refs -> History]
CommitTypes ==
    /\ commit \in [pc : {"idle", "pre", "freeze", "msg", "record"},
                   key : {"listed", "unlisted", "none"}, msg : SUBSET MessageFlaws,
                   who : {"allowed", "denied", "foreign", "unknown"}, bypass : Bypasses,
                   ix : [text : Texts \cup {{}}, gone : Nat, benign : BOOLEAN],
                   seen : Texts \cup {{}}]
    /\ commit.pc \in {"msg", "record"} => commit.ix \in Content
PushTypes ==
    /\ push \in [pc : {"idle", "submodules", "refs", "land"}, refs : SUBSET Refs,
                 todo : SUBSET Refs, tip : History, old : [Refs -> History],
                 errors : BOOLEAN, ungated : SUBSET Refs, unread : BOOLEAN]
HookTypes == TreeTypes /\ CommitTypes /\ PushTypes

(* The root commit, the clone that holds it alone and the history another    *)
(* machine pushes are well-formed.                                           *)
LEMMA RootTyped ==
    /\ Root \in Commits /\ <<Root>> \in History /\ Root.text \in Texts
    /\ <<Root, [Root EXCEPT !.sig = "none"]>> \in History
    /\ [Root EXCEPT !.sig = "none"].text = Root.text
  <1>1. PICK quiet \in Texts : \A l \in quiet : l.kind = "plain"
    BY HookConstants
  <1>2. (CHOOSE t \in Texts : \A l \in t : l.kind = "plain") \in Texts
    BY <1>1
  <1>3. NoCommit \in Linear
    BY DEF NoCommit, Linear
  <1>4. Root \in Commits /\ Root.text \in Texts
    BY <1>2, <1>3 DEF Root, Commits, Sealed, NoCommit
  <1>5. [Root EXCEPT !.sig = "none"] \in Commits /\ [Root EXCEPT !.sig = "none"].text = Root.text
    BY <1>4 DEF Commits, Sealed
  <1>6. QED
    BY <1>4, <1>5 DEF History

(* The fields of a commit, whatever its second parents.                      *)
LEMMA SealedRecords ==
    ASSUME NEW seconds, NEW c \in Sealed(seconds)
    PROVE  /\ c.text \in Texts /\ c.gone \in Nat /\ c.benign \in BOOLEAN
           /\ c.msg \in SUBSET MessageFlaws
  BY DEF Sealed

(* A history is a function over its positions, and one that is not empty     *)
(* has a last commit.                                                        *)
LEMMA HistoryEntries ==
    ASSUME NEW h \in History
    PROVE  /\ Len(h) \in Nat /\ DOMAIN h = 1..Len(h)
           /\ \A i \in 1..Len(h) : h[i] \in Commits
           /\ h # NoCommit => Len(h) \in 1..Len(h) /\ Last(h) \in Commits
  BY ElementOfSeq, LenProperties, EmptySeq DEF History, NoCommit, Last

(* A fresh clone is well-typed.                                              *)
LEMMA TypesInit == Init => HookTypes
  <1> SUFFICES ASSUME Init PROVE HookTypes
    OBVIOUS
  <1>1. TreeTypes
    <2>1. NoCommit \in History /\ <<Root>> # NoCommit
      BY DEF NoCommit, History
    <2>2. QED
      BY <2>1, RootTyped DEF Init, TreeTypes, Content
  <1>2. CommitTypes
    BY DEF Init, CommitTypes, NoCommitting, Bypasses
  <1>3. PushTypes
    BY DEF Init, PushTypes, NoPush, NoCommit, History
  <1>4. QED
    BY <1>1, <1>2, <1>3 DEF HookTypes

(* So is having no push and no commit.                                       *)
LEMMA NoneTyped ==
    /\ NoPush \in [pc : {"idle", "submodules", "refs", "land"}, refs : SUBSET Refs,
                 todo : SUBSET Refs, tip : History, old : [Refs -> History],
                 errors : BOOLEAN, ungated : SUBSET Refs, unread : BOOLEAN]
    /\ NoCommit \in History
  BY DEF NoPush, NoCommit, History

(* A step of a session or of a commit.                                     *)
LEMMA SessionTypes ==
    ASSUME HookTypes,
           \/ Edit \/ Stage \/ Tag \/ Fetch
           \/ CommitBegin \/ PreCommit \/ FreezeTree \/ CommitMsg
    PROVE  HookTypes'
  <1> USE DEF HookTypes
  <1>1. CASE Edit
    BY <1>1 DEF Edit, TreeTypes, CommitTypes, PushTypes, Content
  <1>2. CASE Stage
    <2>1. index' \in Content
      <3>1. CASE index' = [index EXCEPT !.text = work]
        BY <3>1 DEF TreeTypes, Content
      <3>2. CASE \E n \in (Tip.gone + 1)..Others, b \in BOOLEAN :
                   index' = [index EXCEPT !.gone = n, !.benign = b]
        <4>1. Tip.gone \in Nat
          BY HistoryEntries, SealedRecords DEF TreeTypes, Tip, Commits
        <4>2. PICK n \in (Tip.gone + 1)..Others, b \in BOOLEAN :
                index' = [index EXCEPT !.gone = n, !.benign = b]
          BY <3>2
        <4>3. n \in Nat
          BY <4>1, HookConstants
        <4>4. QED
          BY <4>2, <4>3 DEF TreeTypes, Content
      <3>3. QED
        BY <1>2, <3>1, <3>2 DEF Stage
    <2>2. UNCHANGED <<work, local, tag, tracking, remote, commit, push>>
      BY <1>2 DEF Stage
    <2>3. QED
      BY <2>1, <2>2 DEF TreeTypes, CommitTypes, PushTypes
  <1>3. CASE Tag \/ Fetch
    BY <1>3 DEF Tag, Fetch, TreeTypes, CommitTypes, PushTypes, Refs, Branches
  <1>4. CASE CommitBegin
    <2>1. PICK key \in Keys, msg \in Messages, who \in Identities, b \in Bypasses :
            commit' = [NoCommitting EXCEPT !.pc = IF b = "noVerify" THEN "freeze" ELSE "pre",
                         !.key = key, !.msg = msg, !.who = who, !.bypass = b]
      BY <1>4 DEF CommitBegin
    <2>2. /\ key \in {"listed", "unlisted", "none"} /\ msg \in SUBSET MessageFlaws
          /\ who \in {"allowed", "denied", "foreign", "unknown"}
      BY HookConstants
    <2>3. commit' = [pc |-> IF b = "noVerify" THEN "freeze" ELSE "pre", key |-> key,
                     msg |-> msg, who |-> who, bypass |-> b,
                     ix |-> [text |-> {}, gone |-> 0, benign |-> FALSE], seen |-> {}]
      BY <2>1 DEF NoCommitting
    <2>4. CommitTypes'
      BY <2>2, <2>3 DEF CommitTypes
    <2>5. QED
      BY <1>4, <2>4 DEF CommitBegin, TreeTypes, PushTypes
  <1>5. CASE PreCommit
    <2>1. CommitTypes'
      <3>1. CASE commit' = NoCommitting
        BY <3>1 DEF CommitTypes, NoCommitting, Bypasses
      <3>2. CASE commit' = [commit EXCEPT !.pc = "freeze", !.ix = index, !.seen = work]
        BY <3>2 DEF CommitTypes, TreeTypes, Content
      <3>3. QED
        BY <1>5, <3>1, <3>2 DEF PreCommit
    <2>2. QED
      BY <1>5, <2>1 DEF PreCommit, TreeTypes, PushTypes
  <1>6. CASE FreezeTree
    <2>1. CommitTypes'
      BY <1>6 DEF FreezeTree, CommitTypes, TreeTypes, Content
    <2>2. QED
      BY <1>6, <2>1 DEF FreezeTree, TreeTypes, PushTypes
  <1>7. CASE CommitMsg
    <2>1. CommitTypes'
      <3>1. CASE commit' = NoCommitting
        BY <3>1 DEF CommitTypes, NoCommitting, Bypasses
      <3>2. CASE commit' = [commit EXCEPT !.pc = "record", !.msg = scrubCommitMessage(@)]
        BY ZenonT(30), <1>7, <3>2 DEF CommitMsg, CommitTypes, scrubCommitMessage
      <3>3. QED
        BY <1>7, <3>1, <3>2 DEF CommitMsg
    <2>2. QED
      BY <1>7, <2>1 DEF CommitMsg, TreeTypes, PushTypes
  <1>8. QED
    BY <1>1, <1>2, <1>3, <1>4, <1>5, <1>6, <1>7

(* The commits of a linear history share fewer than all its commits with     *)
(* any other: a finite number, in any case.                                  *)
LEMMA SharedCount ==
    ASSUME NEW h \in History, NEW other, \A i \in DOMAIN h : h[i].second = <<>>
    PROVE  Cardinality(Ancestors(h) \cap Ancestors(other)) \in Nat
  <1> DEFINE cut == [l \in 0..Len(h) |-> SubSeq(h, 1, l)]
  <1>1. Len(h) \in Nat
    BY HistoryEntries
  <1>2. IsFiniteSet(0..Len(h))
    BY <1>1, FS_Interval
  <1>3. cut \in Surjection(0..Len(h), Prefixes(h))
    BY DEF Surjection, Prefixes
  <1>4. IsFiniteSet(Prefixes(h))
    BY <1>2, <1>3, FS_Surjection
  <1>5. Ancestors(h) \subseteq Prefixes(h)
    <2>1. Prefixes(<<>>) = {<<>>}
      <3>1. Len(<<>>) = 0 /\ SubSeq(<<>>, 1, 0) = <<>>
        BY SubSeqEmpty, EmptySeq
      <3>2. 0..0 = {0}
        OBVIOUS
      <3>3. QED
        BY <3>1, <3>2 DEF Prefixes
    <2>2. UNION {Prefixes(h[i].second) : i \in DOMAIN h} \subseteq {<<>>}
      BY <2>1
    <2>3. QED
      BY <2>2 DEF Ancestors, NoCommit
  <1>6. IsFiniteSet(Ancestors(h) \cap Ancestors(other))
    BY <1>4, <1>5, FS_Subset
  <1>7. QED
    BY <1>6, FS_CardinalityType

(* git writes a commit of the index it froze.                                *)
LEMMA Recording ==
    ASSUME HookTypes, RecordCommit
    PROVE  HookTypes'
  <1> USE DEF HookTypes
  <1>1. [text |-> commit.ix.text, gone |-> commit.ix.gone, benign |-> commit.ix.benign,
         msg |-> commit.msg, sig |-> commit.key, second |-> <<>>,
         via |-> IF commit.bypass # "noVerify" /\ commit.seen = commit.ix.text
                 THEN "gate" ELSE "open"] \in Commits
    <2>1. commit.ix \in Content /\ commit.msg \in SUBSET MessageFlaws
          /\ commit.key \in {"listed", "unlisted", "none"}
      BY DEF RecordCommit, CommitTypes
    <2>2. <<>> \in Linear
      BY DEF Linear
    <2>3. QED
      BY <2>1, <2>2 DEF Commits, Sealed, Content
  <1>2. local' \in History /\ local' # NoCommit
    BY <1>1, AppendProperties DEF RecordCommit, TreeTypes, History, NoCommit
  <1>3. CommitTypes'
    BY DEF RecordCommit, CommitTypes, NoCommitting, Bypasses
  <1>4. QED
    BY <1>2, <1>3 DEF RecordCommit, TreeTypes, PushTypes

(* What Merge and Rebase make of the local history.                          *)
LEMMA MergedLocal ==
    ASSUME HookTypes, Merge
    PROVE  \E c \in Commits : c.via = "open" /\ local' = Append(local, c)
  <1> USE DEF HookTypes
  <1>1. PICK key \in Keys, msg \in Messages, who \in Identities :
          local' = Append(local, [text |-> Tip.text, gone |-> Tip.gone, benign |-> FALSE,
                                  msg |-> msg, sig |-> key, second |-> tracking,
                                  via |-> "open"])
    BY DEF Merge
  <1>2. key \in {"listed", "unlisted", "none"} /\ msg \in SUBSET MessageFlaws
    BY HookConstants
  <1>3. Tip.text \in Texts /\ Tip.gone \in Nat
    BY HistoryEntries, SealedRecords DEF TreeTypes, Tip, Commits
  <1>4. tracking \in Linear
    <2>1. tracking \in Seq(Commits) /\ Len(tracking) \in Nat
          /\ \A i \in 1..Len(tracking) : tracking[i] \in Commits
          /\ DOMAIN tracking = 1..Len(tracking)
      BY HistoryEntries DEF TreeTypes, History
    <2>2. \A i \in 1..Len(tracking) : tracking[i] \in Sealed({NoCommit})
      BY <2>1 DEF Merge, Commits, Sealed, NoCommit
    <2>3. tracking = [i \in 1..Len(tracking) |-> tracking[i]]
      BY <2>1
    <2>4. tracking \in [1..Len(tracking) -> Sealed({NoCommit})]
      BY <2>2, <2>3
    <2>5. QED
      BY ZenonT(30), <2>1, <2>4, SeqDef DEF Linear
  <1>5. QED
    BY <1>1, <1>2, <1>3, <1>4 DEF Commits, Sealed

(* A rebase puts replayed commits, none of them judged, over origin/main.     *)
LEMMA RebasedLocal ==
    ASSUME HookTypes, Rebase
    PROVE  \E t \in History : /\ local' = tracking \o t
                              /\ \A i \in 1..Len(t) : t[i].via = "open"
  <1> USE DEF HookTypes
  <1> DEFINE shared == Cardinality(Ancestors(local) \cap Ancestors(tracking))
  <1>1. PICK key \in Keys :
          local' = tracking \o [i \in 1..(Len(local) - shared) |->
                     [local[i + shared] EXCEPT !.sig = key, !.via = "open"]]
    BY DEF Rebase
  <1>2. key \in {"listed", "unlisted", "none"}
    BY HookConstants
  <1>3. shared \in Nat
    BY SharedCount DEF Rebase, TreeTypes
  <1>4. Len(local) \in Nat /\ \A i \in 1..Len(local) : local[i] \in Commits
    BY HistoryEntries DEF TreeTypes
  <1> HIDE DEF shared
  <1> DEFINE entry(i) == [local[i + shared] EXCEPT !.sig = key, !.via = "open"]
             t == [i \in 1..(Len(local) - shared) |-> entry(i)]
  <1>5. \A i \in 1..(Len(local) - shared) : entry(i) \in Commits /\ entry(i).via = "open"
    <2> SUFFICES ASSUME NEW i \in 1..(Len(local) - shared)
                 PROVE  entry(i) \in Commits /\ entry(i).via = "open"
      OBVIOUS
    <2>1. i + shared \in 1..Len(local)
      BY <1>3, <1>4
    <2>2. local[i + shared] \in Commits
      BY <1>4, <2>1
    <2>3. QED
      BY <1>2, <2>2 DEF Commits, Sealed
  <1> HIDE DEF entry
  <1>6. t \in History /\ \A i \in 1..Len(t) : t[i].via = "open"
    <2>1. CASE Len(local) - shared \in Nat
      <3>1. t \in Seq(Commits)
        <4>1. t \in [1..(Len(local) - shared) -> Commits]
          BY <1>5
        <4>2. QED
          BY <2>1, <4>1, SeqDef
      <3>2. Len(t) = Len(local) - shared
        BY <2>1, <3>1, LenProperties
      <3>3. QED
        BY <1>5, <3>1, <3>2 DEF History
    <2>2. CASE Len(local) - shared \notin Nat
      <3>1. 1..(Len(local) - shared) = {}
        BY <1>3, <1>4, <2>2
      <3>2. t = <<>>
        BY <3>1
      <3> HIDE DEF t
      <3>3. Len(t) = 0 /\ t \in Seq(Commits)
        BY <3>2
      <3>4. QED
        BY <3>3 DEF History
    <2>3. QED
      BY <2>1, <2>2
  <1>7. QED
    BY <1>1, <1>6 DEF entry

(* Merges and rebases keep the types, and never empty the branch.            *)
LEMMA JoinTypes ==
    ASSUME HookTypes, Merge \/ Rebase
    PROVE  HookTypes'
  <1> USE DEF HookTypes
  <1>1. local' \in History /\ local' # NoCommit
    <2>1. CASE Merge
      <3>1. PICK c \in Commits : local' = Append(local, c)
        BY <2>1, MergedLocal
      <3>2. local \in Seq(Commits)
        BY DEF TreeTypes, History
      <3>3. QED
        BY <3>1, <3>2, AppendProperties DEF History, NoCommit
    <2>2. CASE Rebase
      <3>1. PICK t \in History : local' = tracking \o t
        BY <2>2, RebasedLocal
      <3>2. tracking \in History /\ tracking # NoCommit
        BY <2>2 DEF Rebase, TreeTypes
      <3>3. Len(tracking) # 0
        BY <3>2, EmptySeq DEF History, NoCommit
      <3>4. local' \in History /\ Len(local') = Len(tracking) + Len(t)
        BY <3>1, <3>2, ConcatProperties DEF History
      <3>5. Len(local') # 0
        BY <3>2, <3>3, <3>4, HistoryEntries
      <3>6. QED
        BY <3>4, <3>5, EmptySeq DEF NoCommit
    <2>3. QED
      BY <2>1, <2>2
  <1>2. UNCHANGED <<work, index, tag, tracking, remote, commit, push>>
    BY DEF Merge, Rebase
  <1>3. QED
    BY <1>1, <1>2 DEF TreeTypes, CommitTypes, PushTypes

(* A step of a push, and one of another machine.                             *)
LEMMA PushStepTypes ==
    ASSUME HookTypes,
           \/ PushBegin \/ checkSubmodules \/ ScanRef \/ PushVerdict \/ Land
           \/ PeerPush
    PROVE  HookTypes'
  <1> USE DEF HookTypes
  <1>1. CASE PushBegin
    <2>1. PICK refs \in RefSets, verify \in BOOLEAN, tip \in {local, tag, NoCommit} :
            push' = [NoPush EXCEPT !.pc = IF verify THEN "submodules" ELSE "land",
                        !.refs = refs, !.todo = refs, !.tip = tip, !.old = remote,
                        !.ungated = IF verify THEN {} ELSE refs]
      BY ZenonT(30), <1>1 DEF PushBegin
    <2>2. refs \in SUBSET Refs /\ tip \in History /\ remote \in [Refs -> History]
      BY HookConstants, NoneTyped DEF TreeTypes
    <2>3. push' = [pc |-> IF verify THEN "submodules" ELSE "land", refs |-> refs,
                   todo |-> refs, tip |-> tip, old |-> remote, errors |-> FALSE,
                   ungated |-> IF verify THEN {} ELSE refs, unread |-> FALSE]
      BY <2>1 DEF NoPush
    <2>4. PushTypes'
      BY <2>2, <2>3 DEF PushTypes
    <2>5. QED
      BY <1>1, <2>4 DEF PushBegin, TreeTypes, CommitTypes
  <1>2. CASE checkSubmodules
    BY <1>2, NoneTyped DEF checkSubmodules, TreeTypes, CommitTypes, PushTypes
  <1>3. CASE ScanRef
    <2>1. PICK r \in push.todo, e \in BOOLEAN, u \in BOOLEAN, skipped \in BOOLEAN :
            push' = [push EXCEPT !.todo = @ \ {r}, !.errors = e,
                       !.ungated = IF skipped THEN @ \cup {r} ELSE @, !.unread = u]
      BY <1>3, Zenon DEF ScanRef
    <2>2. r \in Refs
      BY DEF PushTypes
    <2>3. PushTypes'
      BY <2>1, <2>2 DEF PushTypes
    <2>4. QED
      BY <1>3, <2>3 DEF ScanRef, TreeTypes, CommitTypes
  <1>4. CASE PushVerdict
    <2>1. push' = NoPush \/ push' = [push EXCEPT !.pc = "land"]
      BY <1>4 DEF PushVerdict
    <2>2. PushTypes'
      BY <2>1, NoneTyped DEF PushTypes
    <2>3. QED
      BY <1>4, <2>2 DEF PushVerdict, TreeTypes, CommitTypes
  <1>5. CASE Land
    <2>1. push' = NoPush /\ UNCHANGED <<work, index, local, tag, commit>>
      BY <1>5 DEF Land
    <2>2. push.tip \in History
      BY DEF PushTypes
    <2>3. remote' \in [Refs -> History] /\ tracking' \in History
      BY <1>5, <2>2 DEF Land, TreeTypes
    <2>4. QED
      BY <2>1, <2>3, NoneTyped DEF TreeTypes, CommitTypes, PushTypes
  <1>6. CASE PeerPush
    <2>1. remote' \in [Refs -> History]
      BY <1>6, RootTyped DEF PeerPush, TreeTypes, Refs, Branches
    <2>2. QED
      BY <1>6, <2>1 DEF PeerPush, TreeTypes, CommitTypes, PushTypes
  <1>7. QED
    BY <1>1, <1>2, <1>3, <1>4, <1>5, <1>6

(* Every step keeps the types.                                               *)
LEMMA TypesStep ==
    ASSUME HookTypes, [Next]_vars
    PROVE  HookTypes'
  <1>1. CASE UNCHANGED vars
    BY <1>1 DEF vars, HookTypes, TreeTypes, CommitTypes, PushTypes
  <1>2. QED
    BY <1>1, SessionTypes, Recording, JoinTypes, PushStepTypes DEF Next

(***************************************************************************)
(* Pushes.  A push is gated for a ref once a scan of that ref with a base   *)
(* found nothing wrong.                                                     *)
(***************************************************************************)
\* What a landing push has behind it, and where its tip is from.
PushProgress ==
    /\ push.todo \subseteq push.refs
    /\ push.pc = "submodules" => push.todo = push.refs
    /\ push.pc = "land" => push.ungated = push.refs \/ (push.todo = {} /\ ~push.errors)
    /\ push.pc # "idle" => /\ "tag" \in push.refs => /\ push.refs = {"tag"}
                                                   /\ push.tip = tag /\ tag # NoCommit
                           /\ "main" \in push.refs => push.tip # NoCommit

\* The tag of the remote is the local one, which is never moved.
TagInv == remote["tag"] # NoCommit => remote["tag"] = tag

\* A history every commit of which was judged, or came another way.
Vouched(h, others, frozen) ==
    \A c \in Ancestors(h) \ others :
        /\ ~classifyCommitSignatures(c)
        /\ "attribution" \in Last(c).msg => c \in frozen

VouchInv ==
    /\ Vouched(remote["main"], entered, pinned)
    /\ Vouched(tracking, entered, pinned)
    /\ Vouched(push.old["main"], entered, pinned)
    /\ Ancestors(remote["tag"]) \subseteq pinned
    /\ push.pc \in {"refs", "land"} /\ ~push.errors
         /\ "main" \in push.refs \ push.todo /\ "main" \notin push.ungated
       => Vouched(push.tip, entered, pinned)

(* More entries and more pins never unvouch a history.                       *)
LEMMA VouchedStays ==
    ASSUME NEW h, NEW others, NEW frozen, NEW more, NEW pins,
           Vouched(h, others, frozen), others \subseteq more, frozen \subseteq pins
    PROVE  Vouched(h, more, pins)
  BY DEF Vouched

(* A history that came another way needs no judgement.                       *)
LEMMA VouchedWhole ==
    ASSUME NEW h, NEW others, NEW frozen, Ancestors(h) \subseteq others
    PROVE  Vouched(h, others, frozen)
  BY DEF Vouched

(* No commit reaches nothing.                                                *)
LEMMA NoAncestors == Ancestors(NoCommit) = {}
  <1>1. Len(<<>>) = 0 /\ SubSeq(<<>>, 1, 0) = <<>> /\ DOMAIN <<>> = {}
    BY SubSeqEmpty, EmptySeq
  <1>2. 0..0 = {0}
    OBVIOUS
  <1>3. Prefixes(<<>>) = {<<>>}
    BY <1>1, <1>2 DEF Prefixes
  <1>4. QED
    BY <1>1, <1>3 DEF Ancestors, NoCommit

(* No push has started and no tag is published.                              *)
LEMMA ProgressInit == Init => PushProgress /\ TagInv
  BY DEF Init, PushProgress, TagInv, NoPush, NoCommit, Refs, Branches

(* A push only lands a ref it scanned or had no base for, and only the       *)
(* local tag is ever published.                                              *)
LEMMA ProgressStep ==
    ASSUME HookTypes, PushProgress, TagInv, [Next]_vars
    PROVE  PushProgress' /\ TagInv'
  <1> USE DEF HookTypes
  <1>0. tag # NoCommit => UNCHANGED tag
    BY DEF Next, vars, Edit, Stage, Tag, Fetch, CommitBegin, PreCommit, FreezeTree,
           CommitMsg, RecordCommit, Merge, Rebase, PushBegin, checkSubmodules, ScanRef,
           PushVerdict, Land, PeerPush
  <1>1. CASE PushBegin
    <2>1. PICK refs \in RefSets, verify \in BOOLEAN, tip \in {local, tag, NoCommit} :
            /\ "tag" \in refs <=> refs = {"tag"}
            /\ (refs = {"tag"} => tip = tag /\ tag # NoCommit)
            /\ (tip = NoCommit => refs = {"wip"})
            /\ push' = [NoPush EXCEPT !.pc = IF verify THEN "submodules" ELSE "land",
                          !.refs = refs, !.todo = refs, !.tip = tip, !.old = remote,
                          !.ungated = IF verify THEN {} ELSE refs]
      BY ZenonT(30), <1>1 DEF PushBegin
    <2>2. push' = [pc |-> IF verify THEN "submodules" ELSE "land", refs |-> refs,
                   todo |-> refs, tip |-> tip, old |-> remote, errors |-> FALSE,
                   ungated |-> IF verify THEN {} ELSE refs, unread |-> FALSE]
      BY <2>1 DEF NoPush
    <2>3. UNCHANGED <<tag, remote>>
      BY <1>1 DEF PushBegin
    <2>4. PushProgress'
      BY <2>1, <2>2, <2>3 DEF PushProgress
    <2>5. QED
      BY <2>3, <2>4 DEF TagInv
  <1>2. ASSUME push' = NoPush PROVE PushProgress'
    BY <1>2 DEF PushProgress, NoPush
  <1>3. CASE checkSubmodules \/ PushVerdict
    <2>1. UNCHANGED <<tag, remote>>
      BY <1>3 DEF checkSubmodules, PushVerdict
    <2>2. CASE push' = NoPush
      BY <1>2, <2>1, <2>2 DEF TagInv
    <2>3. CASE checkSubmodules /\ push' = [push EXCEPT !.pc = "refs"]
      <3>1. /\ push'.pc = "refs" /\ push.pc = "submodules" /\ push'.todo = push.todo
            /\ push'.refs = push.refs /\ push'.tip = push.tip
        BY <2>3 DEF checkSubmodules, PushTypes
      <3>2. QED
        BY <2>1, <3>1 DEF PushProgress, TagInv
    <2>4. CASE PushVerdict /\ push' = [push EXCEPT !.pc = "land"] /\ push' # NoPush
      <3>1. /\ push'.pc = "land" /\ push.pc = "refs" /\ push.todo = {}
            /\ push'.todo = push.todo /\ push'.errors = push.errors
            /\ push'.refs = push.refs /\ push'.tip = push.tip
        BY <2>4 DEF PushVerdict, PushTypes
      <3>2. ~push.errors
        BY <2>4 DEF PushVerdict
      <3>3. QED
        BY <2>1, <3>1, <3>2 DEF PushProgress, TagInv
    <2>5. QED
      BY <1>3, <2>2, <2>3, <2>4 DEF checkSubmodules, PushVerdict
  <1>4. CASE ScanRef
    <2>1. PICK r \in push.todo, e \in BOOLEAN, u \in BOOLEAN, skipped \in BOOLEAN :
            push' = [push EXCEPT !.todo = @ \ {r}, !.errors = e,
                       !.ungated = IF skipped THEN @ \cup {r} ELSE @, !.unread = u]
      BY <1>4, Zenon DEF ScanRef
    <2>2. /\ push'.pc = "refs" /\ push.pc = "refs" /\ push'.todo = push.todo \ {r}
          /\ push'.refs = push.refs /\ push'.tip = push.tip
      BY <1>4, <2>1 DEF ScanRef, PushTypes
    <2>3. UNCHANGED <<tag, remote>>
      BY <1>4 DEF ScanRef
    <2>4. QED
      BY <2>2, <2>3 DEF PushProgress, TagInv
  <1>5. CASE Land
    <2>1. push' = NoPush /\ UNCHANGED tag /\ push.pc = "land"
      BY <1>5 DEF Land
    <2>2. remote'["tag"] = remote["tag"] \/ ("tag" \in push.refs /\ remote'["tag"] = push.tip)
      BY <1>5 DEF Land, TreeTypes, Refs
    <2>3. TagInv'
      BY <2>1, <2>2 DEF TagInv, PushProgress
    <2>4. QED
      BY <1>2, <2>1, <2>3
  <1>6. CASE PeerPush
    <2>1. remote'["tag"] = remote["tag"] /\ UNCHANGED <<push, tag>>
      BY <1>6 DEF PeerPush, TreeTypes, Refs, Branches
    <2>2. QED
      BY <2>1 DEF PushProgress, TagInv
  <1>7. CASE Tag
    <2>1. tag = NoCommit /\ UNCHANGED <<push, remote>>
      BY <1>7 DEF Tag
    <2>2. QED
      BY <2>1 DEF PushProgress, TagInv
  <1>8. CASE UNCHANGED <<push, remote, tag>>
    BY <1>8 DEF PushProgress, TagInv
  <1>9. QED
    BY <1>1, <1>3, <1>4, <1>5, <1>6, <1>7, <1>8
    DEF Next, vars, Edit, Stage, Fetch, CommitBegin, PreCommit, FreezeTree,
        CommitMsg, RecordCommit, Merge, Rebase

(* A ref scanned with a base and found right: what is new above the base is  *)
(* vouched for, and so was the base.                                         *)
LEMMA ScanVouches ==
    ASSUME HookTypes, TagInv, VouchInv, NEW base,
           base = push.old["main"] \/ base = tracking,
           NEW published \in {NoCommit, remote["tag"]},
           ~RefFindings("main", base, push.tip, published)
    PROVE  Vouched(push.tip, entered, pinned)
  <1> DEFINE range == RevList(base, push.tip)
  <1>1. Vouched(base, entered, pinned)
    BY DEF VouchInv
  <1>2. \A c \in range : ~classifyCommitSignatures(c)
    BY DEF RefFindings, scanSignedCommits
  <1>3. \A c \in range : "attribution" \in Last(c).msg => c \in pinned
    <2> SUFFICES ASSUME NEW c \in range, "attribution" \in Last(c).msg
                 PROVE  c \in pinned
      OBVIOUS
    <2>1. c \notin resolveRewritableCommits(range, base, published)
      BY DEF RefFindings, scanCommitMessages
    <2>2. tag # NoCommit /\ published = tag /\ c \in Ancestors(tag)
      BY <2>1 DEF resolveRewritableCommits
    <2>3. published = remote["tag"]
      BY <2>2
    <2>4. QED
      BY <2>2, <2>3 DEF VouchInv
  <1>4. \A c \in Ancestors(push.tip) : c \in range \/ c \in Ancestors(base)
    BY DEF RevList
  <1>5. QED
    BY <1>1, <1>2, <1>3, <1>4 DEF Vouched

(* The only commit of a fresh clone entered before the gate.                 *)
LEMMA VouchInit == Init => VouchInv
  <1> SUFFICES ASSUME Init PROVE VouchInv
    OBVIOUS
  <1>1. Ancestors(<<Root>>) \subseteq {<<Root>>}
    <2>1. Len(<<Root>>) = 1 /\ DOMAIN <<Root>> = {1} /\ <<Root>>[1] = Root
      OBVIOUS
    <2>2. Prefixes(<<Root>>) \subseteq {<<>>, <<Root>>}
      <3>1. 0..1 = {0, 1}
        OBVIOUS
      <3>2. SubSeq(<<Root>>, 1, 0) = <<>> /\ SubSeq(<<Root>>, 1, 1) = <<Root>>
        <4> DEFINE one == <<Root>>
        <4>1. one \in Seq({Root}) /\ Len(one) = 1
          OBVIOUS
        <4> HIDE DEF one
        <4>2. SubSeq(one, 1, 0) = <<>>
          BY SubSeqEmpty
        <4>3. SubSeq(one, 1, Len(one)) = one
          BY <4>1, SubSeqFull
        <4>4. QED
          BY <4>1, <4>2, <4>3 DEF one
      <3>3. QED
        BY <2>1, <3>1, <3>2 DEF Prefixes
    <2>3. Root.second = <<>>
      BY DEF Root
    <2>4. Prefixes(<<>>) = {<<>>}
      <3>1. Len(<<>>) = 0 /\ SubSeq(<<>>, 1, 0) = <<>> /\ 0..0 = {0}
        BY SubSeqEmpty, EmptySeq
      <3>2. QED
        BY <3>1 DEF Prefixes
    <2>5. QED
      BY <2>1, <2>2, <2>3, <2>4 DEF Ancestors, NoCommit
  <1>2. Vouched(<<Root>>, entered, pinned) /\ Vouched(NoCommit, entered, pinned)
    BY <1>1, NoAncestors, VouchedWhole DEF Init
  <1>3. push = NoPush /\ push.old["main"] = NoCommit /\ remote["tag"] = NoCommit
    BY DEF Init, NoPush, Refs, Branches
  <1>4. /\ remote["main"] \in {NoCommit, <<Root>>} /\ tracking \in {NoCommit, <<Root>>}
    BY DEF Init, Refs, Branches
  <1>5. push.pc = "idle"
    BY <1>3 DEF NoPush
  <1>6. QED
    BY <1>2, <1>3, <1>4, <1>5, NoAncestors DEF VouchInv

(* Only a push and another machine change main; a push that passed brings    *)
(* what its scan judged above a base that was judged before.                 *)
LEMMA VouchStep ==
    ASSUME HookTypes, PushProgress, TagInv, VouchInv, [Next]_vars
    PROVE  VouchInv'
  <1> USE DEF HookTypes
  <1>1. entered \subseteq entered' /\ pinned \subseteq pinned'
    BY DEF Next, vars, Edit, Stage, Tag, Fetch, CommitBegin, PreCommit, FreezeTree,
           CommitMsg, RecordCommit, Merge, Rebase, PushBegin, checkSubmodules, ScanRef,
           PushVerdict, Land, PeerPush
  <1>2. \A h : Vouched(h, entered, pinned) => Vouched(h, entered', pinned')
    BY <1>1, VouchedStays
  <1>3. Vouched(NoCommit, entered', pinned')
    BY NoAncestors, VouchedWhole
  <1>4. NoPush.old["main"] = NoCommit /\ NoPush.pc = "idle"
    BY DEF NoPush, Refs, Branches
  <1>5. CASE UNCHANGED <<push, remote, tracking>>
    BY <1>1, <1>2, <1>5 DEF VouchInv
  <1>6. CASE Fetch
    <2>1. tracking' = remote["main"] /\ UNCHANGED <<push, remote>>
      BY <1>6 DEF Fetch
    <2>2. QED
      BY <1>1, <1>2, <2>1 DEF VouchInv
  <1>7. CASE PushBegin
    <2>1. PICK refs \in RefSets, verify \in BOOLEAN, tip \in {local, tag, NoCommit} :
            push' = [NoPush EXCEPT !.pc = IF verify THEN "submodules" ELSE "land",
                          !.refs = refs, !.todo = refs, !.tip = tip, !.old = remote,
                          !.ungated = IF verify THEN {} ELSE refs]
      BY ZenonT(30), <1>7 DEF PushBegin
    <2>2. push'.old = remote /\ push'.todo = push'.refs
      BY <2>1 DEF NoPush
    <2>3. UNCHANGED <<remote, tracking>>
      BY <1>7 DEF PushBegin
    <2>4. QED
      BY <1>1, <1>2, <2>2, <2>3 DEF VouchInv
  <1>8. CASE checkSubmodules \/ PushVerdict
    <2>1. UNCHANGED <<remote, tracking>>
      BY <1>8 DEF checkSubmodules, PushVerdict
    <2>2. CASE push' = NoPush
      BY <1>1, <1>2, <1>3, <1>4, <2>1, <2>2 DEF VouchInv
    <2>3. CASE push' # NoPush
      <3>1. /\ push'.todo = push.todo /\ push'.refs = push.refs /\ push'.tip = push.tip
            /\ push'.old = push.old /\ push'.ungated = push.ungated
            /\ push'.errors = push.errors
            /\ push.pc = "refs" \/ push.pc = "submodules"
        BY <1>8, <2>3 DEF checkSubmodules, PushVerdict, PushTypes
      <3>2. QED
        BY <1>1, <1>2, <2>1, <3>1 DEF VouchInv, PushProgress
    <2>4. QED
      BY <2>2, <2>3
  <1>9. CASE ScanRef
    <2>1. PICK r \in push.todo, published \in {NoCommit, remote["tag"]},
               listsPr \in BOOLEAN :
        LET base == computeRange(r, push.tip, push.old[r])
            prError == listsPr /\ r = "wip" /\ push.tip # NoCommit
                       /\ checkPrCommitCount(push.tip)
        IN  push' = [push EXCEPT
                !.todo = @ \ {r},
                !.errors = @ \/ prError
                             \/ (base # "skip" /\ RefFindings(r, base, push.tip, published)),
                !.ungated = IF base = "skip" THEN @ \cup {r} ELSE @,
                !.unread = @ \/ (base # "skip" /\ work # Last(push.tip).text)]
      BY <1>9 DEF ScanRef
    <2> DEFINE base == computeRange(r, push.tip, push.old[r])
    <2>2. /\ push.pc = "refs" /\ push'.todo = push.todo \ {r} /\ push'.refs = push.refs
          /\ push'.tip = push.tip /\ push'.old = push.old
          /\ push'.ungated = IF base = "skip" THEN push.ungated \cup {r} ELSE push.ungated
      BY <1>9, <2>1 DEF ScanRef, PushTypes
    <2>3. ~push'.errors => /\ ~push.errors
                           /\ base # "skip" => ~RefFindings(r, base, push.tip, published)
      BY <2>1 DEF PushTypes
    <2>4. UNCHANGED <<remote, tracking, entered, pinned>>
      BY <1>9 DEF ScanRef
    <2>5. ASSUME ~push'.errors, "main" \in push'.refs \ push'.todo, "main" \notin push'.ungated
          PROVE  Vouched(push.tip, entered, pinned)
      <3>1. CASE r = "main"
        <4>1. base # "skip"
          BY <2>2, <2>5, <3>1
        <4>2. base = push.old["main"] \/ base = tracking
          BY <3>1, <4>1 DEF computeRange
        <4>3. ~RefFindings("main", base, push.tip, published)
          BY <2>3, <2>5, <3>1, <4>1
        <4>4. QED
          BY <4>2, <4>3, ScanVouches
      <3>2. CASE r # "main"
        BY <2>2, <2>3, <2>5, <3>2 DEF VouchInv
      <3>3. QED
        BY <3>1, <3>2
    <2> HIDE DEF base
    <2>6. QED
      BY <2>2, <2>4, <2>5 DEF VouchInv
  <1>10. CASE Land
    <2>1. push' = NoPush /\ push.pc = "land"
      BY <1>10 DEF Land
    <2>2. CASE UNCHANGED <<remote, tracking>>
      BY <1>1, <1>2, <1>3, <1>4, <2>1, <2>2 DEF VouchInv
    <2>3. CASE /\ remote' = [r \in Refs |-> IF r \in push.refs THEN push.tip ELSE remote[r]]
               /\ tracking' = IF "main" \in push.refs THEN push.tip ELSE tracking
               /\ entered' = IF "main" \in push.ungated
                             THEN entered \cup Ancestors(push.tip) ELSE entered
               /\ pinned' = IF "tag" \in push.refs THEN pinned \cup Ancestors(push.tip) ELSE pinned
      <3>1. "main" \in push.refs => Vouched(push.tip, entered', pinned')
        <4>1. CASE "main" \in push.ungated
          BY <2>3, <4>1, VouchedWhole
        <4>2. CASE "main" \in push.refs /\ "main" \notin push.ungated
          BY <1>2, <2>1, <4>2 DEF VouchInv, PushProgress
        <4>3. QED
          BY <4>1, <4>2
      <3>2. Ancestors(remote'["tag"]) \subseteq pinned'
        <4>1. CASE "tag" \in push.refs
          BY <2>3, <4>1 DEF Refs
        <4>2. CASE "tag" \notin push.refs
          BY <1>1, <2>3, <4>2 DEF Refs, VouchInv
        <4>3. QED
          BY <4>1, <4>2
      <3>3. Vouched(remote["main"], entered', pinned') /\ Vouched(tracking, entered', pinned')
        BY <1>2 DEF VouchInv
      <3>4. /\ remote'["main"] = IF "main" \in push.refs THEN push.tip ELSE remote["main"]
        BY <2>3 DEF Refs, Branches
      <3>5. QED
        BY <1>3, <1>4, <2>1, <2>3, <3>1, <3>2, <3>3, <3>4 DEF VouchInv
    <2>4. QED
      BY <1>10, <2>2, <2>3 DEF Land
  <1>11. CASE PeerPush
    <2> DEFINE theirs == <<Root, [Root EXCEPT !.sig = "none"]>>
    <2>1. /\ remote'["main"] = theirs /\ remote'["tag"] = remote["tag"]
          /\ entered' = entered \cup Ancestors(theirs) /\ UNCHANGED <<push, tracking, pinned>>
      BY <1>11 DEF PeerPush, TreeTypes, Refs, Branches
    <2> HIDE DEF theirs
    <2>2. Vouched(theirs, entered', pinned')
      BY <2>1, VouchedWhole
    <2>3. QED
      BY <1>1, <1>2, <2>1, <2>2 DEF VouchInv
  <1>12. QED
    BY <1>5, <1>6, <1>7, <1>8, <1>9, <1>10, <1>11
    DEF Next, vars, Edit, Stage, Tag, CommitBegin, PreCommit, FreezeTree,
        CommitMsg, RecordCommit, Merge, Rebase

(* What main holds was judged when it got there, for any refs, keys, messages *)
(* and tags, however pushes, fetches, peers and sessions interleave.          *)
THEOREM MainAlwaysVouched == Spec => []MainIsVouched
  <1>1. VouchInv => MainIsVouched
    BY DEF VouchInv, Vouched, MainIsVouched
  <1>2. QED
    BY <1>1, TypesInit, TypesStep, ProgressInit, ProgressStep, VouchInit, VouchStep, PTL DEF Spec

\* What the scanners make of a text a push would carry.
TipClean(text) ==
    /\ ~scanForbiddenFilenames(Path)
    /\ shouldSkipFile(Path) \/ ~scanFileContent(Path, text)

\* A tip the scanners would let through, or that reached a branch unread.
TipRead(h, unread) ==
    h # NoCommit => Last(h).text \in unread \/ TipClean(Last(h).text)

ReadInv ==
    /\ Root.text \in torn
    /\ TipRead(tracking, torn)
    /\ \A r \in Branches : TipRead(remote[r], torn) /\ TipRead(push.old[r], torn)
    /\ /\ push.pc \in {"refs", "land"} /\ ~push.errors /\ ~push.unread
       /\ push.ungated = {} /\ (push.refs \ push.todo) \cap Branches # {}
       => TipRead(push.tip, torn)

(* A ref that is gone has no tip to read.                                    *)
LEMMA NoTipRead == \A unread : TipRead(NoCommit, unread)
  BY DEF TipRead

(* The root commit, alone or under another machine's.                        *)
LEMMA RootTips ==
    /\ Last(<<Root>>).text = Root.text
    /\ Last(<<Root, [Root EXCEPT !.sig = "none"]>>).text = Root.text
  <1> DEFINE other == [Root EXCEPT !.sig = "none"]
  <1>1. other.text = Root.text
    BY RootTyped
  <1> HIDE DEF other
  <1>2. Last(<<Root>>) = Root /\ Last(<<Root, other>>) = other
    BY DEF Last
  <1>3. QED
    BY <1>1, <1>2 DEF other

(* A branch scanned with a base and the text it carries, and found right.    *)
LEMMA ScanReads ==
    ASSUME HookTypes, ReadInv, NEW r \in Branches, NEW base,
           base = computeRange(r, push.tip, push.old[r]), base # "skip",
           work = Last(push.tip).text, NEW published,
           ~RefFindings(r, base, push.tip, published)
    PROVE  TipRead(push.tip, torn)
  <1>1. CASE Last(base).text = Last(push.tip).text
    <2>1. base # NoCommit /\ (base = push.old[r] \/ base = tracking)
      BY DEF computeRange
    <2>2. TipRead(base, torn)
      BY <2>1 DEF ReadInv
    <2>3. QED
      BY <1>1, <2>1, <2>2 DEF TipRead
  <1>2. CASE Last(base).text # Last(push.tip).text
    BY <1>2 DEF RefFindings, scanFilesInRange, TipRead, TipClean
  <1>3. QED
    BY <1>1, <1>2

(* The root text counts as unread: it was on main before the hooks.          *)
LEMMA ReadInit == Init => ReadInv
  <1> SUFFICES ASSUME Init PROVE ReadInv
    OBVIOUS
  <1>1. push = NoPush /\ \A r \in Branches : push.old[r] = NoCommit
    BY DEF Init, NoPush, Refs, Branches
  <1>2. push.pc = "idle"
    BY <1>1 DEF NoPush
  <1>3. /\ tracking \in {NoCommit, <<Root>>}
        /\ \A r \in Branches : remote[r] \in {NoCommit, <<Root>>}
    BY DEF Init, Refs, Branches
  <1>4. Root.text \in torn
    BY DEF Init
  <1>5. TipRead(<<Root>>, torn)
    BY <1>4, RootTips DEF TipRead
  <1>6. QED
    BY <1>1, <1>2, <1>3, <1>4, <1>5, NoTipRead DEF ReadInv

(* A push whose every scanned text is the text it carries leaves the tip of  *)
(* a branch read; any other push leaves its text among the unread.           *)
LEMMA ReadStep ==
    ASSUME HookTypes, PushProgress, ReadInv, [Next]_vars
    PROVE  ReadInv'
  <1> USE DEF HookTypes
  <1>1. torn \subseteq torn'
    BY DEF Next, vars, Edit, Stage, Tag, Fetch, CommitBegin, PreCommit, FreezeTree,
           CommitMsg, RecordCommit, Merge, Rebase, PushBegin, checkSubmodules, ScanRef,
           PushVerdict, Land, PeerPush
  <1>2. /\ \A h : TipRead(h, torn) => TipRead(h, torn')
        /\ Root.text \in torn'
    BY <1>1 DEF TipRead, ReadInv
  <1>3. TipRead(NoCommit, torn')
    BY NoTipRead
  <1>4. NoPush.pc = "idle" /\ \A r \in Branches : NoPush.old[r] = NoCommit
    BY DEF NoPush, Refs, Branches
  <1>5. CASE UNCHANGED <<push, remote, tracking>>
    BY <1>2, <1>5 DEF ReadInv
  <1>6. CASE Fetch
    <2>1. tracking' = remote["main"] /\ UNCHANGED <<push, remote>>
      BY <1>6 DEF Fetch
    <2>2. TipRead(remote["main"], torn)
      BY DEF ReadInv, Branches
    <2>3. QED
      BY <1>2, <2>1, <2>2 DEF ReadInv
  <1>7. CASE PushBegin
    <2>1. PICK refs \in RefSets, verify \in BOOLEAN, tip \in {local, tag, NoCommit} :
            push' = [NoPush EXCEPT !.pc = IF verify THEN "submodules" ELSE "land",
                          !.refs = refs, !.todo = refs, !.tip = tip, !.old = remote,
                          !.ungated = IF verify THEN {} ELSE refs]
      BY ZenonT(30), <1>7 DEF PushBegin
    <2>2. push'.old = remote /\ push'.refs \ push'.todo = {}
      BY <2>1 DEF NoPush
    <2>3. UNCHANGED <<remote, tracking>>
      BY <1>7 DEF PushBegin
    <2>4. QED
      BY <1>2, <2>2, <2>3 DEF ReadInv
  <1>8. CASE checkSubmodules \/ PushVerdict
    <2>1. UNCHANGED <<remote, tracking>>
      BY <1>8 DEF checkSubmodules, PushVerdict
    <2>2. CASE push' = NoPush
      BY <1>2, <1>3, <1>4, <2>1, <2>2 DEF ReadInv
    <2>3. CASE push' # NoPush
      <3>1. /\ push'.todo = push.todo /\ push'.refs = push.refs /\ push'.tip = push.tip
            /\ push'.old = push.old /\ push'.ungated = push.ungated
            /\ push'.errors = push.errors /\ push'.unread = push.unread
            /\ push.pc = "refs" \/ push.pc = "submodules"
        BY <1>8, <2>3 DEF checkSubmodules, PushVerdict, PushTypes
      <3>2. push.pc = "submodules" => push'.refs \ push'.todo = {}
        BY <3>1 DEF PushProgress
      <3>3. /\ push.pc = "refs" /\ ~push'.errors /\ ~push'.unread
            /\ push'.ungated = {} /\ (push'.refs \ push'.todo) \cap Branches # {}
            => TipRead(push'.tip, torn')
        BY <1>2, <3>1 DEF ReadInv
      <3>4. \A r \in Branches : TipRead(push'.old[r], torn') /\ TipRead(remote'[r], torn')
        BY <1>2, <2>1, <3>1 DEF ReadInv
      <3>5. TipRead(tracking', torn')
        BY <1>2, <2>1 DEF ReadInv
      <3>6. QED
        BY <1>2, <3>1, <3>2, <3>3, <3>4, <3>5 DEF ReadInv
    <2>4. QED
      BY <2>2, <2>3
  <1>9. CASE ScanRef
    <2>1. PICK r \in push.todo, published \in {NoCommit, remote["tag"]},
               listsPr \in BOOLEAN :
        LET base == computeRange(r, push.tip, push.old[r])
            prError == listsPr /\ r = "wip" /\ push.tip # NoCommit
                       /\ checkPrCommitCount(push.tip)
        IN  push' = [push EXCEPT
                !.todo = @ \ {r},
                !.errors = @ \/ prError
                             \/ (base # "skip" /\ RefFindings(r, base, push.tip, published)),
                !.ungated = IF base = "skip" THEN @ \cup {r} ELSE @,
                !.unread = @ \/ (base # "skip" /\ work # Last(push.tip).text)]
      BY <1>9 DEF ScanRef
    <2> DEFINE base == computeRange(r, push.tip, push.old[r])
    <2>2. /\ push.pc = "refs" /\ push'.todo = push.todo \ {r} /\ push'.refs = push.refs
          /\ push'.tip = push.tip /\ push'.old = push.old /\ push'.pc = push.pc
          /\ push'.ungated = IF base = "skip" THEN push.ungated \cup {r} ELSE push.ungated
      BY <1>9, <2>1 DEF ScanRef, PushTypes
    <2>3. ~push'.errors => /\ ~push.errors
                           /\ base # "skip" => ~RefFindings(r, base, push.tip, published)
      BY <2>1 DEF PushTypes
    <2>4. ~push'.unread => ~push.unread /\ (base # "skip" => work = Last(push.tip).text)
      BY <2>1 DEF PushTypes
    <2>5. UNCHANGED <<remote, tracking, torn>>
      BY <1>9 DEF ScanRef
    <2>6. ASSUME ~push'.errors, ~push'.unread, push'.ungated = {},
                 (push'.refs \ push'.todo) \cap Branches # {}
          PROVE  TipRead(push.tip, torn)
      <3>1. base # "skip" /\ push.ungated = {}
        BY <2>2, <2>6
      <3>2. CASE r \in Branches
        BY <2>3, <2>4, <2>6, <3>1, <3>2, ScanReads
      <3>3. CASE r \notin Branches
        <4>1. (push.refs \ push.todo) \cap Branches # {}
          BY <2>2, <2>6, <3>3
        <4>2. QED
          BY <2>2, <2>3, <2>4, <2>6, <3>1, <4>1 DEF ReadInv
      <3>4. QED
        BY <3>2, <3>3
    <2> HIDE DEF base
    <2>7. QED
      BY <2>2, <2>5, <2>6 DEF ReadInv
  <1>10. CASE Land
    <2>1. push' = NoPush /\ push.pc = "land"
      BY <1>10 DEF Land
    <2>2. CASE UNCHANGED <<remote, tracking>>
      BY <1>2, <1>3, <1>4, <2>1, <2>2 DEF ReadInv
    <2>3. CASE /\ remote' = [r \in Refs |-> IF r \in push.refs THEN push.tip ELSE remote[r]]
               /\ tracking' = IF "main" \in push.refs THEN push.tip ELSE tracking
               /\ torn' = IF push.tip = NoCommit \/ push.refs = {"tag"} THEN torn
                          ELSE IF push.unread \/ push.ungated # {}
                          THEN torn \cup {Last(push.tip).text} ELSE torn
      <3>1. push.refs \cap Branches # {} => TipRead(push.tip, torn')
        <4> SUFFICES ASSUME push.refs \cap Branches # {} PROVE TipRead(push.tip, torn')
          OBVIOUS
        <4>1. push.refs # {"tag"}
          BY DEF Branches
        <4>2. CASE push.tip = NoCommit
          BY <1>3, <4>2
        <4>3. CASE push.tip # NoCommit /\ (push.unread \/ push.ungated # {})
          BY <2>3, <4>1, <4>3 DEF TipRead
        <4>4. CASE ~push.unread /\ push.ungated = {}
          <5>1. push.todo = {} /\ ~push.errors
            BY <2>1, <4>4 DEF PushProgress
          <5>2. QED
            BY <1>2, <2>1, <4>4, <5>1 DEF ReadInv
        <4>5. QED
          BY <4>2, <4>3, <4>4
      <3>2. \A r \in Branches : TipRead(remote'[r], torn')
        <4> SUFFICES ASSUME NEW r \in Branches PROVE TipRead(remote'[r], torn')
          OBVIOUS
        <4>1. remote'[r] = IF r \in push.refs THEN push.tip ELSE remote[r]
          BY <2>3 DEF Refs
        <4>2. TipRead(remote[r], torn')
          BY <1>2 DEF ReadInv
        <4>3. QED
          BY <3>1, <4>1, <4>2
      <3>3. TipRead(tracking', torn')
        <4>1. TipRead(tracking, torn')
          BY <1>2 DEF ReadInv
        <4>2. QED
          BY <2>3, <3>1, <4>1 DEF Branches
      <3>4. QED
        BY <1>2, <1>3, <1>4, <2>1, <3>2, <3>3 DEF ReadInv
    <2>4. QED
      BY <1>10, <2>2, <2>3 DEF Land
  <1>11. CASE PeerPush
    <2> DEFINE theirs == <<Root, [Root EXCEPT !.sig = "none"]>>
    <2>1. /\ remote'["main"] = theirs /\ remote'["wip"] = remote["wip"]
          /\ UNCHANGED <<push, tracking, torn>>
      BY <1>11 DEF PeerPush, TreeTypes, Refs, Branches
    <2>2. Last(theirs).text = Root.text
      BY RootTips
    <2> HIDE DEF theirs
    <2>3. TipRead(theirs, torn')
      BY <1>2, <2>2 DEF TipRead
    <2>4. \A r \in Branches : TipRead(remote'[r], torn')
      BY <1>2, <2>1, <2>3 DEF ReadInv, Branches
    <2>5. QED
      BY <1>2, <2>1, <2>4 DEF ReadInv
  <1>12. QED
    BY <1>5, <1>6, <1>7, <1>8, <1>9, <1>10, <1>11
    DEF Next, vars, Edit, Stage, Tag, CommitBegin, PreCommit, FreezeTree,
        CommitMsg, RecordCommit, Merge, Rebase

(* A branch of the remote whose tip the content scanners would refuse got it *)
(* from a push that read another text or none (scanFilesInRange), for any    *)
(* interleaving of edits, pushes, fetches and other machines.                *)
THEOREM PushedTipsWereRead == Spec => []PushedTipWasRead
  <1>1. ReadInv => PushedTipWasRead
    BY DEF ReadInv, TipRead, TipClean, PushedTipWasRead
  <1>2. QED
    BY <1>1, TypesInit, TypesStep, ProgressInit, ProgressStep, ReadInit, ReadStep, PTL DEF Spec

\* What pre-commit vouches for of a file and an index over a parent commit.
Judged(parent, ix, text) ==
    /\ ix.text # parent.text => ~SecurityFindings(Path, text)
    /\ ix.gone - parent.gone < DeleteFloor \/ ix.benign

\* What a commit recorded behind the gate is, over its parent.
CleanOver(parent, c) ==
    /\ "attribution" \notin c.msg
    /\ c.text # parent.text => ~SecurityFindings(Path, c.text)
    /\ c.gone - parent.gone < DeleteFloor \/ c.benign

CleanHistory(h) == \A i \in 2..Len(h) : h[i].via = "gate" => CleanOver(h[i - 1], h[i])

\* How far the commit being made has been judged.
CommitJudged ==
    /\ commit.pc = "freeze" /\ commit.bypass # "noVerify"
       => Judged(Tip, commit.ix, commit.seen)
    /\ commit.pc \in {"msg", "record"} /\ commit.bypass # "noVerify" /\ commit.seen # {}
       => Judged(Tip, commit.ix, commit.seen)
    /\ commit.pc = "record" /\ commit.bypass # "noVerify"
       => "attribution" \notin commit.msg

CleanInv ==
    /\ CleanHistory(local) /\ CleanHistory(tag) /\ CleanHistory(tracking)
    /\ \A r \in Refs : CleanHistory(remote[r])
    /\ CleanHistory(push.tip)

(* What it means that pre-commit let an index and a text go on.              *)
LEMMA PassedIsJudged ==
    ASSUME HookTypes, NEW text, NEW key, NEW bypass, NEW merging,
           ~PreCommitRefuses(index, text, key, bypass, merging)
    PROVE  Judged(Tip, index, text)
  <1>1. index.text # Tip.text => ~SecurityFindings(Path, text)
    BY DEF PreCommitRefuses, StagedFiles
  <1>2. CASE index.benign
    BY <1>1, <1>2 DEF Judged
  <1>3. CASE ~index.benign
    <2>1. index.gone \in Nat /\ Tip.gone \in Nat /\ DeleteFloor \in Nat \ {0}
      BY HistoryEntries, SealedRecords, HookConstants
      DEF HookTypes, TreeTypes, Content, Tip, Commits
    <2>2. ~catastrophicDeletion(index)
      BY DEF PreCommitRefuses
    <2>3. index.gone - Tip.gone < DeleteFloor
      BY <1>3, <2>1, <2>2 DEF catastrophicDeletion
    <2>4. QED
      BY <1>1, <2>3 DEF Judged
  <1>4. QED
    BY <1>2, <1>3

(* Histories of the root and of another machine hold no gated commit.        *)
LEMMA ShortIsClean ==
    /\ CleanHistory(NoCommit) /\ CleanHistory(<<Root>>)
    /\ CleanHistory(<<Root, [Root EXCEPT !.sig = "none"]>>)
  <1>1. Len(NoCommit) = 0 /\ Len(<<Root>>) = 1
    BY DEF NoCommit
  <1>2. 2..0 = {} /\ 2..1 = {} /\ 2..2 = {2}
    OBVIOUS
  <1> DEFINE other == [Root EXCEPT !.sig = "none"]
  <1>3. other.via = "open"
    BY DEF Root
  <1> HIDE DEF other
  <1>4. Len(<<Root, other>>) = 2 /\ <<Root, other>>[2] = other
    OBVIOUS
  <1>5. CleanHistory(<<Root, other>>)
    BY <1>2, <1>3, <1>4 DEF CleanHistory
  <1>6. QED
    BY <1>1, <1>2, <1>5 DEF CleanHistory, other

(* One more commit keeps a history clean, if it is clean over its parent.    *)
LEMMA AppendedIsClean ==
    ASSUME NEW h \in History, h # NoCommit, CleanHistory(h), NEW c \in Commits,
           c.via = "gate" => CleanOver(Last(h), c)
    PROVE  CleanHistory(Append(h, c))
  <1>1. Len(h) \in Nat /\ Len(h) # 0
    BY HistoryEntries
  <1>2. /\ Len(Append(h, c)) = Len(h) + 1 /\ Append(h, c)[Len(h) + 1] = c
        /\ \A i \in 1..Len(h) : Append(h, c)[i] = h[i]
    BY AppendProperties DEF History
  <1> SUFFICES ASSUME NEW i \in 2..Len(Append(h, c)), Append(h, c)[i].via = "gate"
               PROVE  CleanOver(Append(h, c)[i - 1], Append(h, c)[i])
    BY DEF CleanHistory
  <1>3. CASE i \in 2..Len(h)
    <2>1. i \in 1..Len(h) /\ i - 1 \in 1..Len(h)
      BY <1>1, <1>3
    <2>2. Append(h, c)[i] = h[i] /\ Append(h, c)[i - 1] = h[i - 1]
      BY <1>2, <2>1
    <2>3. QED
      BY <1>3, <2>2 DEF CleanHistory
  <1>4. CASE i = Len(h) + 1
    <2>1. i - 1 \in 1..Len(h) /\ i - 1 = Len(h)
      BY <1>1, <1>4
    <2>2. Append(h, c)[i] = c /\ Append(h, c)[i - 1] = Last(h)
      BY <1>2, <1>4, <2>1 DEF Last
    <2>3. QED
      BY <2>2
  <1>5. QED
    BY <1>1, <1>2, <1>3, <1>4

(* Ungated commits over a clean history keep it clean: that is a rebase.     *)
LEMMA ReplayedIsClean ==
    ASSUME NEW h \in History, CleanHistory(h), NEW t \in History,
           \A i \in 1..Len(t) : t[i].via = "open"
    PROVE  CleanHistory(h \o t)
  <1>1. Len(h) \in Nat /\ Len(t) \in Nat
    BY HistoryEntries
  <1>2. /\ Len(h \o t) = Len(h) + Len(t)
        /\ \A i \in 1..Len(h) + Len(t) :
             (h \o t)[i] = IF i <= Len(h) THEN h[i] ELSE t[i - Len(h)]
    BY ConcatProperties DEF History
  <1> SUFFICES ASSUME NEW i \in 2..Len(h \o t), (h \o t)[i].via = "gate"
               PROVE  CleanOver((h \o t)[i - 1], (h \o t)[i])
    BY DEF CleanHistory
  <1>3. i \in 1..Len(h) + Len(t) /\ i - 1 \in 1..Len(h) + Len(t)
    BY <1>1, <1>2
  <1>4. i <= Len(h)
    <2> SUFFICES ASSUME ~(i <= Len(h)) PROVE FALSE
      OBVIOUS
    <2>1. i - Len(h) \in 1..Len(t)
      BY <1>1, <1>3
    <2>2. (h \o t)[i] = t[i - Len(h)]
      BY <1>2, <1>3
    <2>3. t[i - Len(h)].via = "open"
      BY <2>1
    <2>4. QED
      BY <2>2, <2>3
  <1>5. i - 1 <= Len(h) /\ i \in 2..Len(h)
    BY <1>1, <1>2, <1>4
  <1>6. (h \o t)[i] = h[i] /\ (h \o t)[i - 1] = h[i - 1]
    BY <1>2, <1>3, <1>4, <1>5
  <1>7. QED
    BY <1>5, <1>6 DEF CleanHistory

(* A fresh clone holds no gated commit.                                      *)
LEMMA CleanInit == Init => CommitJudged /\ CleanInv
  <1> SUFFICES ASSUME Init PROVE CommitJudged /\ CleanInv
    OBVIOUS
  <1>1. commit.pc = "idle" /\ push.tip = NoCommit
    BY DEF Init, NoCommitting, NoPush
  <1>2. /\ local = <<Root>> /\ tag = NoCommit /\ tracking \in {NoCommit, <<Root>>}
        /\ \A r \in Refs : remote[r] \in {NoCommit, <<Root>>}
    BY DEF Init
  <1>3. QED
    BY <1>1, <1>2, ShortIsClean DEF CommitJudged, CleanInv

(* While a commit is being made nothing else moves the branch.               *)
LEMMA JudgedStep ==
    ASSUME HookTypes, CommitJudged, [Next]_vars
    PROVE  CommitJudged'
  <1> USE DEF HookTypes
  <1>1. NoCommitting.pc = "idle"
    BY DEF NoCommitting
  <1>2. CASE UNCHANGED <<commit, local>>
    BY <1>2 DEF CommitJudged, Tip
  <1>3. CASE CommitBegin
    <2>1. PICK key \in Keys, msg \in Messages, who \in Identities, b \in Bypasses :
            commit' = [NoCommitting EXCEPT !.pc = IF b = "noVerify" THEN "freeze" ELSE "pre",
                         !.key = key, !.msg = msg, !.who = who, !.bypass = b]
      BY <1>3 DEF CommitBegin
    <2>2. /\ commit'.pc = IF b = "noVerify" THEN "freeze" ELSE "pre"
          /\ commit'.bypass = b
      BY <2>1 DEF NoCommitting
    <2>3. QED
      BY <2>2 DEF CommitJudged
  <1>4. CASE PreCommit
    <2>1. CASE commit' = NoCommitting
      BY <1>1, <2>1 DEF CommitJudged
    <2>2. CASE commit' # NoCommitting
      <3>1. /\ \E merging \in BOOLEAN :
                 ~PreCommitRefuses(index, work, commit.key, commit.bypass, merging)
            /\ commit'.pc = "freeze" /\ commit'.ix = index /\ commit'.seen = work
        BY <1>4, <2>2 DEF PreCommit, CommitTypes
      <3>2. Judged(Tip, index, work)
        BY <3>1, PassedIsJudged
      <3>3. local' = local
        BY <1>4 DEF PreCommit
      <3>4. Judged(Tip', commit'.ix, commit'.seen)
        BY <3>1, <3>2, <3>3 DEF Tip
      <3>5. QED
        BY <3>1, <3>4 DEF CommitJudged
    <2>3. QED
      BY <2>1, <2>2
  <1>5. CASE FreezeTree
    <2>1. /\ commit.pc = "freeze" /\ commit'.bypass = commit.bypass /\ commit'.ix = index
          /\ commit'.pc = IF commit.bypass = "noVerify" THEN "record" ELSE "msg"
          /\ commit'.seen = IF commit.ix = index THEN commit.seen ELSE {}
          /\ local' = local
      BY <1>5 DEF FreezeTree, CommitTypes
    <2>2. ASSUME commit'.bypass # "noVerify", commit'.seen # {}
          PROVE  Judged(Tip', commit'.ix, commit'.seen)
      <3>1. commit'.ix = commit.ix /\ commit'.seen = commit.seen /\ Tip' = Tip
        BY <2>1, <2>2 DEF Tip
      <3>2. QED
        BY <2>1, <2>2, <3>1 DEF CommitJudged
    <2>3. QED
      BY <2>1, <2>2 DEF CommitJudged
  <1>6. CASE CommitMsg
    <2>1. CASE commit' = NoCommitting
      BY <1>1, <2>1 DEF CommitJudged
    <2>2. CASE commit' # NoCommitting
      <3>1. /\ commit.pc = "msg" /\ commit'.pc = "record"
            /\ commit'.ix = commit.ix /\ commit'.seen = commit.seen
            /\ commit'.bypass = commit.bypass
            /\ commit'.msg = scrubCommitMessage(commit.msg)
        BY <1>6, <2>2 DEF CommitMsg, CommitTypes
      <3>2. "attribution" \notin commit'.msg
        BY <3>1 DEF scrubCommitMessage
      <3>3. Tip' = Tip
        BY <1>6 DEF CommitMsg, Tip
      <3>4. QED
        BY <3>1, <3>2, <3>3 DEF CommitJudged
    <2>3. QED
      BY <2>1, <2>2
  <1>7. CASE RecordCommit
    BY <1>1, <1>7 DEF RecordCommit, CommitJudged
  <1>8. CASE Merge \/ Rebase
    <2>1. commit.pc = "idle" /\ commit' = commit
      BY <1>8 DEF Merge, Rebase
    <2>2. QED
      BY <2>1 DEF CommitJudged
  <1>9. QED
    BY <1>2, <1>3, <1>4, <1>5, <1>6, <1>7, <1>8
    DEF Next, vars, Edit, Stage, Tag, Fetch, PushBegin, checkSubmodules, ScanRef,
        PushVerdict, Land, PeerPush

(* Commits move between the branch, the tag and the remote unchanged, and    *)
(* the one that is recorded was judged over the very tip it is put on.       *)
LEMMA CleanStep ==
    ASSUME HookTypes, CommitJudged, CleanInv, [Next]_vars
    PROVE  CleanInv'
  <1> USE DEF HookTypes
  <1>1. CleanHistory(NoPush.tip)
    BY ShortIsClean DEF NoPush
  <1>2. CASE UNCHANGED <<local, tag, tracking, remote, push>>
    BY <1>2 DEF CleanInv
  <1>3. CASE Tag \/ Fetch
    <2>1. /\ tag' \in {tag, local} /\ tracking' \in {tracking, remote["main"]}
          /\ UNCHANGED <<local, remote, push>>
      BY <1>3 DEF Tag, Fetch
    <2>2. QED
      BY <2>1 DEF CleanInv, Refs, Branches
  <1>4. CASE RecordCommit
    <2> DEFINE c == [text |-> commit.ix.text, gone |-> commit.ix.gone,
             benign |-> commit.ix.benign, msg |-> commit.msg, sig |-> commit.key,
             second |-> <<>>,
             via |-> IF commit.bypass # "noVerify" /\ commit.seen = commit.ix.text
                     THEN "gate" ELSE "open"]
    <2>1. local' = Append(local, c) /\ UNCHANGED <<tag, tracking, remote, push>>
      BY <1>4 DEF RecordCommit
    <2>2. commit.pc = "record" /\ commit.ix \in Content
      BY <1>4 DEF RecordCommit, CommitTypes
    <2>3. c \in Commits
      <3>1. commit.msg \in SUBSET MessageFlaws /\ commit.key \in {"listed", "unlisted", "none"}
        BY DEF CommitTypes
      <3>2. <<>> \in Linear
        BY DEF Linear
      <3>3. QED
        BY <2>2, <3>1, <3>2 DEF Commits, Sealed, Content
    <2>4. ASSUME c.via = "gate" PROVE CleanOver(Last(local), c)
      <3>1. commit.bypass # "noVerify" /\ commit.seen = commit.ix.text
        BY <2>4
      <3>2. commit.seen # {}
        BY <2>2, <3>1, HookConstants DEF Content
      <3>3. Judged(Tip, commit.ix, commit.seen) /\ "attribution" \notin commit.msg
        BY <2>2, <3>1, <3>2 DEF CommitJudged
      <3>4. c.text = commit.ix.text /\ c.gone = commit.ix.gone
            /\ c.benign = commit.ix.benign /\ c.msg = commit.msg
        OBVIOUS
      <3> HIDE DEF c
      <3>5. QED
        BY <3>1, <3>3, <3>4 DEF Judged, CleanOver, Tip
    <2> HIDE DEF c
    <2>5. CleanHistory(local')
      BY <2>1, <2>3, <2>4, AppendedIsClean DEF CleanInv, TreeTypes
    <2>6. QED
      BY <2>1, <2>5 DEF CleanInv
  <1>5. CASE Merge
    <2>1. PICK c \in Commits : c.via = "open" /\ local' = Append(local, c)
      BY <1>5, MergedLocal
    <2>2. CleanHistory(local')
      BY <2>1, AppendedIsClean DEF CleanInv, TreeTypes
    <2>3. QED
      BY <1>5, <2>2 DEF Merge, CleanInv
  <1>6. CASE Rebase
    <2>1. PICK t \in History : /\ local' = tracking \o t
                               /\ \A i \in 1..Len(t) : t[i].via = "open"
      BY <1>6, RebasedLocal
    <2>2. CleanHistory(local')
      BY <2>1, ReplayedIsClean DEF CleanInv, TreeTypes
    <2>3. QED
      BY <1>6, <2>2 DEF Rebase, CleanInv
  <1>7. CASE PushBegin
    <2>1. PICK refs \in RefSets, verify \in BOOLEAN, tip \in {local, tag, NoCommit} :
            push' = [NoPush EXCEPT !.pc = IF verify THEN "submodules" ELSE "land",
                          !.refs = refs, !.todo = refs, !.tip = tip, !.old = remote,
                          !.ungated = IF verify THEN {} ELSE refs]
      BY ZenonT(30), <1>7 DEF PushBegin
    <2>2. push'.tip = tip
      BY <2>1 DEF NoPush
    <2>3. QED
      BY <1>7, <2>2, ShortIsClean DEF PushBegin, CleanInv
  <1>8. CASE checkSubmodules \/ ScanRef \/ PushVerdict
    <2>1. push'.tip \in {push.tip, NoPush.tip}
      BY <1>8 DEF checkSubmodules, ScanRef, PushVerdict, PushTypes
    <2>2. UNCHANGED <<local, tag, tracking, remote>>
      BY <1>8 DEF checkSubmodules, ScanRef, PushVerdict
    <2>3. QED
      BY <1>1, <2>1, <2>2 DEF CleanInv
  <1>9. CASE Land
    <2>1. push' = NoPush /\ UNCHANGED <<local, tag>>
      BY <1>9 DEF Land
    <2>2. tracking' \in {tracking, push.tip} /\ \A r \in Refs : remote'[r] \in {remote[r], push.tip}
      BY <1>9 DEF Land
    <2>3. QED
      BY <1>1, <2>1, <2>2 DEF CleanInv
  <1>10. CASE PeerPush
    <2>1. /\ remote' = [remote EXCEPT !["main"] = <<Root, [Root EXCEPT !.sig = "none"]>>]
          /\ UNCHANGED <<local, tag, tracking, push>>
      BY <1>10 DEF PeerPush
    <2>2. \A r \in Refs : CleanHistory(remote'[r])
      BY <2>1, ShortIsClean DEF CleanInv, TreeTypes
    <2>3. QED
      BY <2>1, <2>2 DEF CleanInv
  <1>11. QED
    BY <1>2, <1>3, <1>4, <1>5, <1>6, <1>7, <1>8, <1>9, <1>10
    DEF Next, vars, Edit, Stage, CommitBegin, PreCommit, FreezeTree, CommitMsg

(* A commit recorded from exactly what the hooks read carries no attribution *)
(* and no blocking finding and is no wipe (pre-commit, commit-msg), whatever *)
(* the other sessions of the checkout stage and edit in between.             *)
THEOREM HookedCommitsAreClean == Spec => []HookedCommitIsClean
  <1>1. CleanInv => HookedCommitIsClean
    BY DEF CleanInv, CleanHistory, CleanOver, HookedCommitIsClean
  <1>2. Init => HookTypes /\ CommitJudged /\ CleanInv
    BY TypesInit, CleanInit
  <1>3. (HookTypes /\ CommitJudged /\ CleanInv) /\ [Next]_vars
        => (HookTypes /\ CommitJudged /\ CleanInv)'
    BY TypesStep, JudgedStep, CleanStep
  <1>4. QED
    BY <1>1, <1>2, <1>3, PTL DEF Spec

-----------------------------------------------------------------------------
(* The runner of a step: whoever comes first, the verdict is taken of a      *)
(* leader that has ended (its status no longer changes) and, after a         *)
(* timeout, of a group that is gone.                                         *)

Phases == {"idle", "poll", "term", "kill", "verdict", "done"}
Codes == Statuses \cup {Running}
Notes == {"nothing checked", "hung"}

StepTypeOK ==
    step \in [pc : Phases, leader : Codes, workers : SUBSET Workers, ticks : Nat,
              signalled : BOOLEAN, checked : BOOLEAN, ungated : SUBSET Notes, result : Codes]

(* The three ways a step ends, and what is settled before its verdict. *)
Endings ==
    /\ step.pc # "done" => step.ungated = {}
    /\ step.pc = "verdict" => step.leader # Running /\ step.workers = {}
    /\ step.pc = "done" =>
         \/ step.result = step.leader /\ step.ungated = {} /\ (step.leader = 0 => step.checked = TRUE)
         \/ step.result = 0 /\ step.leader = 0 /\ step.ungated = {"nothing checked"}
         \/ /\ step.result = 0 /\ step.leader # 1 /\ step.leader # Running /\ step.ungated = {"hung"}
            /\ step.workers = {}

StepInv == StepTypeOK /\ Endings

(* The statuses are distinct from each other and from a leader that runs.    *)
LEMMA KnownCodes ==
    /\ 0 \in Codes /\ 1 \in Codes /\ 137 \in Codes /\ 143 \in Codes /\ Running \in Codes
    /\ Running # 0 /\ Running # 1 /\ Running # 137 /\ Running # 143
  BY DEF Codes, Statuses, Running

-----------------------------------------------------------------------------
(* Every action keeps the types. *)
LEMMA StepTypes == ASSUME StepTypeOK, StepNext PROVE StepTypeOK'
  <1>1. CASE LeaderEnds
    <2>1. PICK s \in Codes, left \in SUBSET Workers, c \in BOOLEAN :
            step' = [step EXCEPT !.leader = s, !.workers = left, !.checked = c]
      BY <1>1 DEF LeaderEnds, StepTypeOK, Codes
    <2> QED
      BY <2>1 DEF StepTypeOK
  <1>2. CASE StartStep
    <2>1. CASE step' = [step EXCEPT !.pc = "poll"]
      BY <2>1 DEF StepTypeOK, Phases
    <2>2. CASE step' = [step EXCEPT !.pc = "done", !.result = 1, !.leader = 1, !.workers = {}]
      BY <2>2, KnownCodes DEF StepTypeOK, Phases
    <2> QED
      BY <1>2, <2>1, <2>2 DEF StartStep
  <1>3. CASE Poll
    <2>1. CASE step' = [step EXCEPT !.pc = "term"]
      BY <2>1 DEF StepTypeOK, Phases
    <2>2. CASE step' = [step EXCEPT !.ticks = @ + 1]
      <3>1. step.ticks + 1 \in Nat
        BY DEF StepTypeOK
      <3> QED
        BY <3>1, <2>2 DEF StepTypeOK
    <2> QED
      BY <1>3, <2>1, <2>2 DEF Poll
  <1>4. CASE CollectStatus
    <2>1. (IF step.leader = 0 /\ ~step.checked THEN {"nothing checked"} ELSE {}) \in SUBSET Notes
      BY DEF Notes
    <2> QED
      BY <1>4, <2>1 DEF StepTypeOK, Phases, CollectStatus
  <1>5. CASE TermGroup
    <2>1. PICK dies \in BOOLEAN, left \in SUBSET step.workers, sent \in {GroupExists, TRUE} :
            step' = [step EXCEPT !.pc = "kill", !.signalled = sent,
                         !.leader = IF @ = Running /\ dies THEN 143 ELSE @,
                         !.workers = left]
      BY <1>5 DEF TermGroup
    <2>2. (IF step.leader = Running /\ dies THEN 143 ELSE step.leader) \in Codes
      BY KnownCodes DEF StepTypeOK
    <2>3. left \in SUBSET Workers
      BY DEF StepTypeOK
    <2>4. sent \in BOOLEAN
      BY DEF GroupExists
    <2>5. PICK l \in Codes : step' = [step EXCEPT !.pc = "kill", !.signalled = sent,
                                       !.leader = l, !.workers = left]
      BY <2>1, <2>2
    <2> QED
      BY <2>3, <2>4, <2>5 DEF StepTypeOK, Phases
  <1>6. CASE KillGroup
    <2>1. (IF step.leader = Running THEN 137 ELSE step.leader) \in Codes
      BY KnownCodes DEF StepTypeOK
    <2> QED
      BY ZenonT(30), <1>6, <2>1 DEF KillGroup, StepTypeOK, Phases
  <1>7. CASE TimeoutVerdict
    <2>1. CASE step' = [step EXCEPT !.pc = "done", !.result = 0, !.ungated = {"hung"}]
      BY <2>1, KnownCodes DEF StepTypeOK, Phases, Notes
    <2>2. CASE step' = [step EXCEPT !.pc = "done", !.result = step.leader]
      BY <2>2 DEF StepTypeOK, Phases
    <2> QED
      BY <1>7, <2>1, <2>2 DEF TimeoutVerdict
  <1> QED
    BY <1>1, <1>2, <1>3, <1>4, <1>5, <1>6, <1>7 DEF StepNext

(* Every action leads to one of the endings only when that one is due. *)
LEMMA StepEndings == ASSUME StepTypeOK, Endings, StepNext PROVE Endings'
  <1>1. CASE LeaderEnds
    BY ZenonT(30), <1>1 DEF LeaderEnds, StepTypeOK, Endings
  <1>2. CASE StartStep
    <2>1. CASE step' = [step EXCEPT !.pc = "poll"]
      BY <1>2, <2>1 DEF StepTypeOK, Endings, StartStep
    <2>2. CASE step' = [step EXCEPT !.pc = "done", !.result = 1, !.leader = 1, !.workers = {}]
      BY <1>2, <2>2 DEF StepTypeOK, Endings, StartStep
    <2> QED
      BY <1>2, <2>1, <2>2 DEF StartStep
  <1>3. CASE Poll
    BY <1>3 DEF Poll, StepTypeOK, Endings
  <1>4. CASE CollectStatus
    <2>1. CASE step.leader = 0 /\ ~step.checked
      BY <1>4, <2>1 DEF CollectStatus, StepTypeOK, Endings
    <2>2. CASE ~(step.leader = 0 /\ ~step.checked)
      <3>1. step' = [step EXCEPT !.pc = "done", !.result = step.leader, !.ungated = {}]
        BY <1>4, <2>2 DEF CollectStatus
      <3>2. step.leader = 0 => step.checked = TRUE
        BY <2>2 DEF StepTypeOK
      <3> QED
        BY <3>1, <3>2 DEF StepTypeOK, Endings
    <2> QED
      BY <2>1, <2>2
  <1>5. CASE TermGroup
    BY <1>5 DEF TermGroup, StepTypeOK, Endings
  <1>6. CASE KillGroup
    BY <1>6, KnownCodes DEF KillGroup, StepTypeOK, Endings
  <1>7. CASE TimeoutVerdict
    <2>1. CASE step.leader = 0 \/ (step.leader \in {137, 143} /\ step.signalled)
      <3>1. step.leader # 1 /\ step.leader # Running
        BY <2>1, KnownCodes
      <3> QED
        BY <1>7, <2>1, <3>1 DEF TimeoutVerdict, StepTypeOK, Endings
    <2>2. CASE ~(step.leader = 0 \/ (step.leader \in {137, 143} /\ step.signalled))
      <3>1. step' = [step EXCEPT !.pc = "done", !.result = step.leader] /\ step.leader # 0
        BY <1>7, <2>2 DEF TimeoutVerdict
      <3> QED
        BY <1>7, <3>1 DEF StepTypeOK, Endings, TimeoutVerdict
    <2> QED
      BY <2>1, <2>2
  <1> QED
    BY <1>1, <1>2, <1>3, <1>4, <1>5, <1>6, <1>7 DEF StepNext

(* The types and the endings hold from the start on.                         *)
LEMMA StepInvariant == StepSpec => []StepInv
  <1>1. StepInit => StepInv
    BY KnownCodes DEF StepInit, NoStep, StepInv, StepTypeOK, Endings, Phases
  <1>2. StepInv /\ [StepNext]_step => StepInv'
    <2>1. CASE StepInv /\ StepNext
      BY <2>1, StepTypes, StepEndings DEF StepInv
    <2>2. CASE StepInv /\ UNCHANGED step
      BY <2>2 DEF StepInv, StepTypeOK, Endings
    <2> QED
      BY <2>1, <2>2
  <1> QED
    BY <1>1, <1>2, PTL DEF StepSpec

(* A step that failed by itself never reads as passed or skipped, one that     *)
(* passed without a note has checked something, and a skip leaves no process   *)
(* behind (run_step_bounded), however many polls its budget has.               *)
THEOREM StepFailureIsSeen == StepSpec => []StepFailureBlocks
  <1>1. ASSUME StepInv, step.pc = "done" PROVE StepFailureBlocks
    <2>1. ASSUME step.leader = 1 PROVE step.result # 0
      BY <1>1, <2>1 DEF StepInv, Endings
    <2>2. ASSUME step.result = 0, step.ungated = {} PROVE step.leader = 0 /\ step.checked
      BY <1>1, <2>2 DEF StepInv, Endings
    <2>3. ASSUME "hung" \in step.ungated PROVE ~GroupExists
      BY ZenonT(30), <1>1, <2>3 DEF StepInv, Endings, GroupExists
    <2> QED
      BY <2>1, <2>2, <2>3 DEF StepFailureBlocks
  <1>2. StepInv => StepFailureBlocks
    BY <1>1 DEF StepFailureBlocks
  <1> QED
    BY <1>2, StepInvariant, PTL

------------------------------------------------------------------------------
(* Induction over the natural numbers, for a set in place of a predicate. *)
LEMMA SetInduction ==
  ASSUME NEW S \in SUBSET Nat, 0 \in S, \A n \in S : n + 1 \in S
  PROVE  S = Nat
  <1> DEFINE R == OpToRel(<, Nat)
             T == Nat \ S
  <1>1. IsWellFoundedOn(R, Nat)
    BY NatLessThanWellFounded
  <1>2. SUFFICES ASSUME T # {} PROVE FALSE
    OBVIOUS
  <1>3. PICK x \in T : \A y \in T : ~(<<y, x>> \in R)
    <2>1. T \subseteq Nat
      OBVIOUS
    <2> HIDE DEF R, T
    <2> QED
      BY <1>1, <1>2, <2>1, WFMin
  <1>4. x # 0 /\ x - 1 \in Nat /\ x - 1 < x
    OBVIOUS
  <1>5. x - 1 \in T
    BY <1>4
  <1>6. <<x - 1, x>> \in R
    BY <1>4 DEF OpToRel
  <1> QED
    BY <1>3, <1>5, <1>6

(***************************************************************************)
(* Copies of the producer's files.                                         *)
(***************************************************************************)
ForkCommits == [kind : {"signed", "unsigned", "merge"},
                tree : [Range(Layers) -> FleetCopies \cup {Missing}]]
Members == [head : Nat, copy : Copies \cup {Missing}, capable : BOOLEAN,
            merging : Copies \cup {Missing}]
ForkTypes ==
    /\ producer \in Seq(ForkCommits) /\ producer # <<>>
    /\ member \in Members
    /\ applied \in 0 .. Len(producer)

(* The layers of the fleet, by rank. *)
LEMMA LayerNames ==
  /\ DOMAIN Layers = {1, 2} /\ Layers[1] = "capability" /\ Layers[2] = "universal"
  /\ Range(Layers) = {"capability", "universal"}
  BY DEF Layers, Range

(* The producer's copies are copies, marked as the fleet marks them. *)
LEMMA CopyKinds ==
  /\ \A c \in FleetCopies : /\ c \in Copies /\ c.texts \in [Places -> FleetTexts] /\ c.marked = Marked
                            /\ c.around = "fleet"
  /\ FirstCopy \in FleetCopies /\ Drifted \subseteq Copies /\ Missing \notin Copies
  <1>1. ASSUME NEW c \in FleetCopies
        PROVE  /\ c \in Copies /\ c.texts \in [Places -> FleetTexts] /\ c.marked = Marked
               /\ c.around = "fleet"
    BY CanonicalConstants DEF FleetCopies, Copies, Fleet
  <1>2. FirstCopy \in FleetCopies
    <2>1. PICK t : t \in FleetTexts
      BY CanonicalConstants
    <2>2. Fleet([p \in Places |-> t]) \in FleetCopies
      BY <2>1 DEF FleetCopies
    <2> QED BY <2>2 DEF FirstCopy
  <1>3. Drifted \subseteq Copies
    <2> SUFFICES ASSUME NEW t \in OwnTexts
                 PROVE  [FirstCopy EXCEPT !.texts[1] = t, !.around = "own"] \in Copies
      BY DEF Drifted
    <2>1. FirstCopy \in Copies
      BY <1>1, <1>2
    <2>2. [FirstCopy.texts EXCEPT ![1] = t] \in [Places -> FleetTexts \cup OwnTexts]
      BY <2>1 DEF Copies, Places
    <2>3. [FirstCopy EXCEPT !.texts = [FirstCopy.texts EXCEPT ![1] = t]] \in Copies
      BY <2>1, <2>2 DEF Copies
    <2>4. [[FirstCopy EXCEPT !.texts = [FirstCopy.texts EXCEPT ![1] = t]] EXCEPT !.around = "own"] \in Copies
      BY <2>3 DEF Copies
    <2> QED BY <2>4
  <1>4. Missing \notin Copies
    BY DEF Missing, Copies
  <1> QED BY <1>1, <1>2, <1>3, <1>4

(* One signed commit, and a member that may have drifted from it. *)
LEMMA ForkInitial == ForkInit => ForkTypes
  <1> SUFFICES ASSUME ForkInit PROVE ForkTypes
    OBVIOUS
  <1> DEFINE first == [kind |-> "signed",
                       tree |-> [l \in Range(Layers) |->
                           IF l = "universal" THEN FirstCopy ELSE Missing]]
  <1>1. first \in ForkCommits
    BY CopyKinds DEF ForkCommits
  <1>2. producer = <<first>> /\ applied = 0
    BY DEF ForkInit
  <1>3. producer \in Seq(ForkCommits) /\ producer # <<>> /\ Len(producer) = 1
    <2> HIDE DEF first
    <2> QED BY <1>1, <1>2
  <1>4. member \in Members
    BY CopyKinds DEF ForkInit, Members
  <1> QED BY <1>2, <1>3, <1>4 DEF ForkTypes

(* A source the proof allows is a layer meant for the member. *)
LEMMA AllowedIsMeant ==
  ASSUME ForkTypes, NEW c \in DOMAIN producer, SignedParent(c), NEW layer, SourceAllowed(c, layer)
  PROVE  /\ <<c, layer>> \in Meant /\ layer \in Range(Layers)
         /\ producer[c].tree[layer] \in FleetCopies
  <1>1. /\ producer[c].kind = "signed" /\ c > 1 /\ c \in 2 .. Len(producer)
        /\ producer[c].tree \in [Range(Layers) -> FleetCopies \cup {Missing}]
    <2>1. producer \in Seq(ForkCommits) /\ Len(producer) \in Nat /\ DOMAIN producer = 1 .. Len(producer)
      BY DEF ForkTypes
    <2>2. producer[c] \in ForkCommits
      BY <2>1
    <2> QED BY <2>1, <2>2 DEF SignedParent, ForkCommits
  <1>2. layer = MeantLayer(c) /\ producer[c].tree[layer] # Missing /\ layer \in Range(Layers)
    <2>1. PICK i \in Having(c) : layer = Layers[i] /\ \A j \in Having(c) : i <= j
      BY DEF SourceAllowed
    <2>2. CASE i = 1
      BY <2>1, <2>2, LayerNames DEF Having, MeantLayer
    <2>3. CASE i = 2
      <3>1. 1 \notin Having(c)
        BY <2>1, <2>3
      <3> QED BY <2>1, <2>3, <3>1, LayerNames DEF Having, MeantLayer
    <2> QED BY <2>1, <2>2, <2>3, LayerNames DEF Having
  <1> QED BY <1>1, <1>2 DEF Meant

(* Alike: what a copy has of a set of texts stays within it. *)
Alike(c, d, texts) ==
    d \in Copies /\ d.marked = c.marked /\ \A p \in Places : c.texts[p] \in texts => d.texts[p] \in texts

(* And so for what is made of it. *)
LEMMA AlikeOnward ==
  ASSUME NEW c, NEW d, NEW e, NEW texts, Alike(c, d, texts), Alike(d, e, texts)
  PROVE  Alike(c, e, texts)
  BY DEF Alike

(* The patch of a step is of a commit meant for the member. *)
LEMMA PatchIsMeant ==
  ASSUME ForkTypes, NEW s, NEW texts, Closed(texts), SourcePatch(s) # {}
  PROVE  /\ SourcePatch(s) \subseteq Places
         /\ \A i \in Places : After(s).texts[i] \in FleetTexts
         /\ \A i \in Places : Before(s).texts[i] \in texts => After(s).texts[i] \in texts
  <1>1. /\ s.commit \in DOMAIN producer /\ SignedParent(s.commit) /\ SourceAllowed(s.commit, s.layer)
        /\ Before(s) # Missing
    BY DEF SourcePatch
  <1>2. SourcePatch(s) \subseteq Places
    BY DEF SourcePatch, Hunks
  <1>3. <<s.commit, s.layer>> \in Meant /\ After(s) \in FleetCopies
    BY <1>1, AllowedIsMeant DEF After
  <1>4. \A i \in Places : Before(s).texts[i] \in texts => After(s).texts[i] \in texts
    BY <1>1, <1>3 DEF Closed, Before, After
  <1> QED BY <1>2, <1>3, <1>4, CopyKinds

(* A hunk in its place keeps within a set the commits are closed under, *)
LEMMA StrictKeeps ==
  ASSUME ForkTypes, NEW s, NEW texts, Closed(texts), SourcePatch(s) # {},
         NEW c \in Copies, NEW places \in SUBSET Places, NEW d \in ApplyStrict(c, s, places)
  PROVE  Alike(c, d, texts)
  <1>0. /\ c.texts \in [Places -> FleetTexts \cup OwnTexts]
        /\ \A j \in Places : After(s).texts[j] \in FleetTexts
        /\ \A j \in Places : Before(s).texts[j] \in texts => After(s).texts[j] \in texts
    <2>1. c.texts \in [Places -> FleetTexts \cup OwnTexts]
      BY DEF Copies
    <2> QED BY <2>1, PatchIsMeant
  <1> DEFINE put == [p \in Places |-> IF p \in places THEN After(s).texts[p] ELSE c.texts[p]]
  <1>1. /\ \A i \in places : c.texts[i] = Before(s).texts[i]
        /\ d = [c EXCEPT !.texts = put]
    BY DEF ApplyStrict
  <1>2. put \in [Places -> FleetTexts \cup OwnTexts]
    BY <1>0
  <1>3. \A p \in Places : c.texts[p] \in texts => put[p] \in texts
    BY <1>0, <1>1
  <1> HIDE DEF put
  <1>4. d \in Copies /\ d.texts = put /\ d.marked = c.marked
    BY <1>1, <1>2 DEF Copies
  <1> QED BY <1>3, <1>4 DEF Alike

(* so does one placed by its text, *)
LEMMA UniqueKeeps ==
  ASSUME ForkTypes, NEW s, NEW texts, Closed(texts), SourcePatch(s) # {},
         NEW c \in Copies, NEW i \in Places, NEW d \in ReplaceUnique(c, s, i)
  PROVE  Alike(c, d, texts)
  <1>0. /\ c.texts \in [Places -> FleetTexts \cup OwnTexts]
        /\ \A j \in Places : After(s).texts[j] \in FleetTexts
        /\ \A j \in Places : Before(s).texts[j] \in texts => After(s).texts[j] \in texts
    <2>1. c.texts \in [Places -> FleetTexts \cup OwnTexts]
      BY DEF Copies
    <2> QED BY <2>1, PatchIsMeant
  <1>1. PICK place \in Places : /\ {q \in Places : c.texts[q] = Before(s).texts[i]} = {place}
                                /\ d = [c EXCEPT !.texts[place] = After(s).texts[i]]
    BY DEF ReplaceUnique
  <1>2. c.texts[place] = Before(s).texts[i]
    BY <1>1
  <1> DEFINE put == [c.texts EXCEPT ![place] = After(s).texts[i]]
  <1>3. put \in [Places -> FleetTexts \cup OwnTexts]
    BY <1>0
  <1>4. \A p \in Places : c.texts[p] \in texts => put[p] \in texts
    BY <1>0, <1>2
  <1>5. d = [c EXCEPT !.texts = put]
    BY <1>1
  <1> HIDE DEF put
  <1>6. d \in Copies /\ d.texts = put /\ d.marked = c.marked
    BY <1>3, <1>5 DEF Copies
  <1> QED BY <1>4, <1>6 DEF Alike

(* one after the other, *)
LEMMA HunkKeeps ==
  ASSUME ForkTypes, NEW s, NEW texts, Closed(texts), SourcePatch(s) # {},
         NEW c \in Copies, NEW found, \A e \in found : Alike(c, e, texts),
         NEW i \in Places, NEW places, NEW d \in ApplyHunk(found, s, i, places)
  PROVE  Alike(c, d, texts)
  <1>1. CASE i \notin places
    BY <1>1 DEF ApplyHunk
  <1>2. CASE i \in places
    <2>1. PICK e \in found : d \in (IF ApplyStrict(e, s, {i}) # {} THEN ApplyStrict(e, s, {i})
                                    ELSE ReplaceUnique(e, s, i))
      BY <1>2 DEF ApplyHunk
    <2>2. e \in Copies /\ Alike(c, e, texts) /\ {i} \in SUBSET Places
      BY <2>1 DEF Alike
    <2>3. Alike(e, d, texts)
      BY <2>1, <2>2, StrictKeeps, UniqueKeeps
    <2> QED BY <2>2, <2>3, AlikeOnward
  <1> QED BY <1>1, <1>2

(* a whole step, *)
LEMMA StepKeeps ==
  ASSUME ForkTypes, NEW s, NEW texts, Closed(texts), NEW c \in Copies, NEW d \in ApplyStep(c, s)
  PROVE  Alike(c, d, texts)
  <1> DEFINE places == SourcePatch(s)
  <1>1. places # {} /\ places \in SUBSET Places
    BY PatchIsMeant DEF ApplyStep
  <1>2. CASE d \in ApplyStrict(c, s, places)
    BY <1>1, <1>2, StrictKeeps
  <1>3. CASE d \in ApplyIndividually(c, s, places)
    <2>1. \A e \in {c} : Alike(c, e, texts)
      BY DEF Alike
    <2>2. 1 \in Places /\ 2 \in Places
      BY DEF Places
    <2>3. \A e \in ApplyHunk({c}, s, 1, places) : Alike(c, e, texts)
      BY <1>1, <2>1, <2>2, HunkKeeps
    <2> QED BY <1>1, <1>3, <2>2, <2>3, HunkKeeps DEF ApplyIndividually
  <1> QED BY <1>2, <1>3 DEF ApplyStep

(* The copies between the steps of a recipe exist. *)
LEMMA ReplaySteps ==
  ASSUME NEW c, NEW steps, Len(steps) \in Nat
  PROVE  \E after : /\ after[0] = {c}
                    /\ \A n \in 1 .. Len(steps) :
                         after[n] = UNION {ApplyStep(e, steps[n]) : e \in after[n - 1]}
                    /\ Replayed(c, steps) = after[Len(steps)]
  <1> DEFINE Next1(found, n) == UNION {ApplyStep(e, steps[n]) : e \in found}
             Steps(g, m) == g = [n \in 0 .. m |-> IF n = 0 THEN {c} ELSE Next1(g[n - 1], n)]
             S == {m \in Nat : \E g : Steps(g, m)}
  <1>1. Replayed(c, steps) = (CHOOSE g : Steps(g, Len(steps)))[Len(steps)]
    BY DEF Replayed
  <1> HIDE DEF Next1
  <1>2. 0 \in S
    <2> DEFINE g == [n \in 0 .. 0 |-> {c}]
    <2>1. Steps(g, 0)
      OBVIOUS
    <2> QED BY <2>1
  <1>3. ASSUME NEW m \in S PROVE m + 1 \in S
    <2>1. PICK g : Steps(g, m)
      OBVIOUS
    <2> DEFINE h == [n \in 0 .. (m + 1) |-> IF n = m + 1 THEN Next1(g[m], m + 1) ELSE g[n]]
    <2>2. Steps(h, m + 1)
      <3>1. ASSUME NEW n \in 0 .. (m + 1)
            PROVE  h[n] = IF n = 0 THEN {c} ELSE Next1(h[n - 1], n)
        <4>1. CASE n = 0
          BY <4>1, <2>1
        <4>2. CASE n \in 1 .. m
          <5>1. h[n] = g[n] /\ h[n - 1] = g[n - 1] /\ n \in 0 .. m /\ n # 0
            BY <4>2
          <5>2. g[n] = Next1(g[n - 1], n)
            <6>1. \A i \in 0 .. m : g[i] = IF i = 0 THEN {c} ELSE Next1(g[i - 1], i)
              BY <2>1
            <6> QED BY <5>1, <6>1
          <5> QED BY <5>1, <5>2, <4>2
        <4>3. CASE n = m + 1
          <5>1. h[n] = Next1(g[m], n) /\ h[n - 1] = g[m] /\ n # 0
            BY <4>3
          <5> QED BY <5>1
        <4> QED BY <4>1, <4>2, <4>3
      <3>2. h = [n \in 0 .. (m + 1) |-> h[n]]
        OBVIOUS
      <3> HIDE DEF h
      <3> QED BY <3>1, <3>2
    <2> HIDE DEF Steps, h
    <2> QED BY <2>2
  <1>4. Len(steps) \in S
    <2> HIDE DEF S
    <2>1. S \in SUBSET Nat
      BY DEF S
    <2> QED BY <1>2, <1>3, <2>1, SetInduction
  <1> DEFINE after == CHOOSE g : Steps(g, Len(steps))
  <1>5. Steps(after, Len(steps))
    <2>1. \E g : Steps(g, Len(steps))
      BY <1>4
    <2> HIDE DEF Steps
    <2> QED BY <2>1
  <1>6. Replayed(c, steps) = after[Len(steps)]
    BY <1>1
  <1> HIDE DEF after
  <1>7. after[0] = {c} /\ \A n \in 1 .. Len(steps) : after[n] = Next1(after[n - 1], n)
    <2>1. \A n \in 0 .. Len(steps) : after[n] = IF n = 0 THEN {c} ELSE Next1(after[n - 1], n)
      BY <1>5
    <2> QED BY <2>1
  <1> QED BY <1>6, <1>7 DEF Next1

(* and all the steps of a recipe. *)
LEMMA ReplayKeeps ==
  ASSUME ForkTypes, NEW steps, Len(steps) \in Nat, NEW texts, Closed(texts),
         NEW c \in Copies, NEW d \in Replayed(c, steps)
  PROVE  Alike(c, d, texts)
  <1>1. PICK after : /\ after[0] = {c}
                     /\ \A n \in 1 .. Len(steps) :
                          after[n] = UNION {ApplyStep(e, steps[n]) : e \in after[n - 1]}
                     /\ Replayed(c, steps) = after[Len(steps)]
    BY ReplaySteps
  <1> DEFINE S == {n \in Nat : n <= Len(steps) => \A e \in after[n] : Alike(c, e, texts)}
  <1>2. 0 \in S
    BY <1>1 DEF Alike
  <1>3. ASSUME NEW n \in S PROVE n + 1 \in S
    <2> SUFFICES ASSUME n + 1 <= Len(steps), NEW e \in after[n + 1] PROVE Alike(c, e, texts)
      OBVIOUS
    <2>1. n + 1 \in 1 .. Len(steps) /\ (n + 1) - 1 = n
      OBVIOUS
    <2>2. PICK b \in after[n] : e \in ApplyStep(b, steps[n + 1])
      BY <1>1, <2>1
    <2>3. Alike(c, b, texts)
      <3>1. n \in Nat /\ n <= Len(steps)
        OBVIOUS
      <3> QED BY <2>2, <3>1
    <2>4. Alike(b, e, texts)
      <3>1. b \in Copies /\ e \in ApplyStep(b, steps[n + 1])
        BY <2>2, <2>3 DEF Alike
      <3> QED BY <3>1, StepKeeps
    <2> QED BY <2>3, <2>4, AlikeOnward
  <1>4. S = Nat
    <2> HIDE DEF S
    <2>1. S \in SUBSET Nat
      BY DEF S
    <2> QED BY <1>2, <1>3, <2>1, SetInduction
  <1> QED BY <1>1, <1>4

(* Which copies the hook lets through: one of the merge, one with the committed *)
(* copy's regions, one the producer has, or one a recipe makes of the committed. *)
LEMMA CommittedCopies ==
  ASSUME ForkTypes, CommitChangedCopy
  PROVE  \E staged \in Copies :
           /\ CommitCopy(staged)
           /\ \/ MergeParentMatches(staged) \/ RegionsKept(staged)
              \/ staged \in VouchedCopies /\ staged \in FleetCopies
              \/ /\ member.copy \in Copies
                 /\ \A texts \in SUBSET (FleetTexts \cup OwnTexts) :
                       Closed(texts) => Alike(member.copy, staged, texts)
  <1>0. /\ producer \in Seq(ForkCommits) /\ Len(producer) \in Nat /\ DOMAIN producer = 1 .. Len(producer)
        /\ member.copy \in Copies \cup {Missing} /\ applied \in 0 .. Len(producer)
    BY DEF ForkTypes, Members
  <1>a. ASSUME NEW c \in DOMAIN producer, SignedParent(c), NEW l, SourceAllowed(c, l)
        PROVE  producer[c].tree[l] \in VouchedCopies /\ producer[c].tree[l] \in FleetCopies
    <2>1. <<c, l>> \in Meant /\ producer[c].tree[l] \in FleetCopies
      BY <1>a, AllowedIsMeant
    <2> QED BY <2>1 DEF VouchedCopies
  <1>1. ASSUME NEW staged \in Copies, CommitCopy(staged),
               ProducerHeadMatches(staged) \/ BundleMatches(staged)
        PROVE  staged \in VouchedCopies /\ staged \in FleetCopies
    <2>1. CASE ProducerHeadMatches(staged)
      <3>1. PICK l \in Range(Layers) : /\ SourceAllowed(Len(producer), l) /\ SignedParent(Len(producer))
                                       /\ producer[Len(producer)].tree[l] = staged
        BY <2>1 DEF ProducerHeadMatches
      <3>2. Len(producer) \in DOMAIN producer
        BY <1>0, <3>1 DEF SignedParent
      <3> QED BY <1>a, <3>1, <3>2
    <2>2. CASE BundleMatches(staged)
      <3>1. applied # 0 /\ staged = producer[applied].tree["universal"]
        BY <2>2 DEF BundleMatches
      <3>2. producer[applied] \in ForkCommits
        BY <1>0, <3>1
      <3>3. staged \in FleetCopies \cup {Missing}
        BY <3>1, <3>2, LayerNames DEF ForkCommits
      <3> QED BY <1>1, <3>1, <3>3, CopyKinds DEF VouchedCopies
    <2> QED BY <1>1, <2>1, <2>2
  <1>2. ASSUME NEW recipe \in Recipes, NEW staged \in RecipeCopies(recipe)
        PROVE  staged \in VouchedCopies /\ staged \in FleetCopies
    <2>1. PICK s : /\ s.commit \in DOMAIN producer /\ SignedParent(s.commit)
                   /\ SourceAllowed(s.commit, s.layer) /\ staged = After(s)
      BY DEF RecipeCopies
    <2> QED BY <1>a, <2>1 DEF After
  <1>3. ASSUME NEW recipe \in Recipes, NEW staged \in ApplyProofSteps(member.copy, recipe.steps)
        PROVE  /\ member.copy \in Copies /\ staged \in Copies
               /\ \A texts \in SUBSET (FleetTexts \cup OwnTexts) :
                     Closed(texts) => Alike(member.copy, staged, texts)
    <2>1. member.copy \in Copies /\ staged \in Replayed(member.copy, recipe.steps)
      BY <1>0 DEF ApplyProofSteps
    <2>2. Len(recipe.steps) \in Nat
      <3>1. recipe.steps \in Seq([commit : Nat, layer : Range(Layers), hunks : SUBSET Nat, unique : BOOLEAN])
        BY CanonicalConstants
      <3> HIDE DEF Layers
      <3> QED BY <3>1, LenProperties
    <2>3. \A texts : Closed(texts) => Alike(member.copy, staged, texts)
      BY <2>1, <2>2, ReplayKeeps
    <2>4. Closed({})
      BY DEF Closed
    <2> QED BY <2>1, <2>3, <2>4 DEF Alike
  <1>4. CASE \E staged \in Copies :
               /\ \/ MergeParentMatches(staged) \/ RegionsKept(staged)
                  \/ ProducerHeadMatches(staged) \/ BundleMatches(staged)
               /\ CommitCopy(staged)
    BY <1>1, <1>4
  <1>5. CASE \E recipe \in Recipes :
               \E staged \in RecipeCopies(recipe) \cup ApplyProofSteps(member.copy, recipe.steps) :
                 CommitCopy(staged)
    <2>0. PICK recipe \in Recipes :
            \E staged \in RecipeCopies(recipe) \cup ApplyProofSteps(member.copy, recipe.steps) :
              CommitCopy(staged)
      BY <1>5
    <2>1. PICK staged \in RecipeCopies(recipe) \cup ApplyProofSteps(member.copy, recipe.steps) :
            CommitCopy(staged)
      BY <2>0
    <2>2. CASE staged \in RecipeCopies(recipe)
      BY <1>2, <2>1, <2>2, CopyKinds
    <2>3. CASE staged \in ApplyProofSteps(member.copy, recipe.steps)
      BY <1>3, <2>1, <2>3
    <2> QED BY <2>1, <2>2, <2>3
  <1> QED BY <1>4, <1>5 DEF CommitChangedCopy

(* What a commit leaves of the member's checkout. *)
LEMMA MemberSteps ==
  ASSUME NEW m \in Members, NEW c \in BOOLEAN, NEW copy \in Copies \cup {Missing}
  PROVE  /\ [m EXCEPT !.head = @ + 1, !.capable = c, !.merging = Missing] \in Members
         /\ [m EXCEPT !.head = @ + 1, !.copy = copy, !.merging = Missing] \in Members
  <1> DEFINE one == [m EXCEPT !.head = @ + 1]
             two == [one EXCEPT !.capable = c]
             other == [one EXCEPT !.copy = copy]
  <1>1. one \in Members
    BY DEF Members
  <1>2. two \in Members /\ other \in Members
    <2> HIDE DEF one
    <2> QED BY <1>1 DEF Members
  <1>3. [two EXCEPT !.merging = Missing] \in Members /\ [other EXCEPT !.merging = Missing] \in Members
    <2> HIDE DEF two, other
    <2> QED BY <1>2 DEF Members
  <1> QED BY <1>3

(* Every step keeps the types. *)
LEMMA ForkNextTypes == ForkTypes /\ [ForkNext]_forkVars => ForkTypes'
  <1> SUFFICES ASSUME ForkTypes, [ForkNext]_forkVars PROVE ForkTypes'
    OBVIOUS
  <1>0. producer \in Seq(ForkCommits) /\ producer # <<>> /\ Len(producer) \in Nat
    BY DEF ForkTypes
  <1>m. member \in Members
    BY DEF ForkTypes
  <1>1. CASE ProducerCommits
    <2>1. PICK kind \in {"signed", "unsigned", "merge"}, l \in Range(Layers),
               c \in FleetCopies \cup {Missing} :
            producer' = Append(producer, [kind |-> kind, tree |-> [Last(producer).tree EXCEPT ![l] = c]])
      BY <1>1 DEF ProducerCommits
    <2>2. Last(producer) \in ForkCommits
      <3>1. Len(producer) \in DOMAIN producer
        BY <1>0
      <3> QED BY <1>0, <3>1 DEF Last
    <2> DEFINE next == [kind |-> kind, tree |-> [Last(producer).tree EXCEPT ![l] = c]]
    <2>3. next \in ForkCommits
      BY <2>2 DEF ForkCommits
    <2>4. producer' \in Seq(ForkCommits) /\ producer' # <<>> /\ Len(producer') = Len(producer) + 1
      <3>1. producer' = Append(producer, next)
        BY <2>1
      <3> HIDE DEF next
      <3> QED BY <1>0, <2>3, <3>1
    <2> QED BY <1>0, <1>1, <2>4 DEF ProducerCommits, ForkTypes
  <1>2. CASE ApplyPack
    BY <1>0, <1>2 DEF ApplyPack, ForkTypes
  <1>3. CASE StartMerge
    <2>1. PICK c \in Drifted : member' = [member EXCEPT !.merging = c]
      BY <1>3 DEF StartMerge
    <2>2. c \in Copies
      BY <2>1, CopyKinds
    <2>3. member' \in Members
      BY <1>m, <2>1, <2>2 DEF Members
    <2> QED BY <1>3, <2>3 DEF StartMerge, ForkTypes
  <1>4. CASE OtherCommit
    <2>1. PICK c \in BOOLEAN :
            member' = [member EXCEPT !.head = @ + 1, !.capable = c, !.merging = Missing]
      BY <1>4 DEF OtherCommit
    <2>3. member' \in Members
      BY <1>m, <2>1, MemberSteps
    <2> QED BY <1>4, <2>3 DEF OtherCommit, ForkTypes
  <1>5. ASSUME NEW copy \in Copies \cup {Missing}, UNCHANGED <<producer, applied>>,
               member' = [member EXCEPT !.head = @ + 1, !.copy = copy, !.merging = Missing]
        PROVE  ForkTypes'
    <2>2. member' \in Members
      BY <1>m, <1>5, MemberSteps
    <2> QED BY <1>5, <2>2 DEF ForkTypes
  <1>6. CASE DeleteCopy \/ CommitChangedCopy
    <2>1. CASE DeleteCopy
      BY <1>5, <2>1 DEF DeleteCopy
    <2>2. CASE CommitChangedCopy
      <3>1. PICK staged : staged \in Copies \cup {Missing} /\ CommitCopy(staged)
        BY <2>2, CommittedCopies
      <3> QED BY <1>5, <3>1 DEF CommitCopy
    <2> QED BY <1>6, <2>1, <2>2
  <1>7. CASE UNCHANGED forkVars
    BY <1>7 DEF forkVars, ForkTypes
  <1> QED BY <1>1, <1>2, <1>3, <1>4, <1>6, <1>7 DEF ForkNext

(* What the hook lets through, however it came to be, the producer vouches   *)
(* for: each place of a new copy holds what a signed commit of the producer  *)
(* has for this member, or the applied pack, or what the committed text may  *)
(* have become through such commits; only the other parent of a merge may    *)
(* bring anything else.  The marks of the region stay with it.               *)
THEOREM ForkAlwaysVouched == ForkSpec => ForkedTextIsVouched
  <1> DEFINE Vouch ==
        member'.copy \notin {member.copy, member.merging, Missing} =>
          /\ \A i \in Places :
                \/ \E c \in VouchedCopies \ {Missing} : member'.copy.texts[i] = c.texts[i]
                \/ member.copy # Missing /\ Becomes(member.copy.texts[i], member'.copy.texts[i])
          /\ \/ member'.copy.marked = Marked
             \/ member.copy # Missing /\ member'.copy.marked = member.copy.marked
  <1>1. ASSUME ForkTypes, [ForkNext]_forkVars PROVE Vouch
    <2> SUFFICES ASSUME member'.copy \notin {member.copy, member.merging, Missing} PROVE Vouch
      OBVIOUS
    <2>1. member \in Members
      BY <1>1 DEF ForkTypes
    <2>2. CommitChangedCopy
      <3>1. ASSUME ProducerCommits \/ ApplyPack \/ UNCHANGED forkVars PROVE member' = member
        BY <3>1 DEF ProducerCommits, ApplyPack, forkVars
      <3>2. ASSUME StartMerge \/ OtherCommit PROVE member'.copy = member.copy
        BY <2>1, <3>2 DEF StartMerge, OtherCommit, Members
      <3>3. ASSUME DeleteCopy PROVE member'.copy = Missing
        BY <2>1, <3>3 DEF DeleteCopy, Members
      <3> QED BY <1>1, <3>1, <3>2, <3>3 DEF ForkNext
    <2>3. PICK staged \in Copies :
            /\ CommitCopy(staged)
            /\ \/ MergeParentMatches(staged) \/ RegionsKept(staged)
               \/ staged \in VouchedCopies /\ staged \in FleetCopies
               \/ /\ member.copy \in Copies
                  /\ \A texts \in SUBSET (FleetTexts \cup OwnTexts) :
                        Closed(texts) => Alike(member.copy, staged, texts)
      BY <1>1, <2>2, CommittedCopies
    <2>4. member'.copy = staged
      BY <2>1, <2>3 DEF CommitCopy, Members
    <2>5. CASE MergeParentMatches(staged)
      BY <2>4, <2>5 DEF MergeParentMatches
    <2>6. CASE RegionsKept(staged)
      BY <2>4, <2>6 DEF RegionsKept, Becomes
    <2>7. CASE staged \in VouchedCopies /\ staged \in FleetCopies
      BY <2>4, <2>7, CopyKinds
    <2>8. CASE /\ member.copy \in Copies
               /\ \A texts \in SUBSET (FleetTexts \cup OwnTexts) :
                     Closed(texts) => Alike(member.copy, staged, texts)
      <3>1. member.copy # Missing
        BY <2>8, CopyKinds
      <3>2. \A i \in Places : Becomes(member.copy.texts[i], staged.texts[i])
        BY <2>8 DEF Becomes, Alike
      <3>3. staged.marked = member.copy.marked
        <4>1. Closed({}) /\ {} \in SUBSET (FleetTexts \cup OwnTexts)
          BY DEF Closed
        <4> QED BY <2>8, <4>1 DEF Alike
      <3> QED BY <2>4, <3>1, <3>2, <3>3
    <2> QED BY <2>3, <2>5, <2>6, <2>7, <2>8
  <1>2. ForkTypes /\ [ForkNext]_forkVars => [Vouch]_forkVars
    BY <1>1
  <1>3. ForkSpec => [][Vouch]_forkVars
    <2> HIDE DEF Vouch
    <2> QED BY <1>2, ForkInitial, ForkNextTypes, PTL DEF ForkSpec
  <1> QED BY <1>3 DEF ForkedTextIsVouched
=============================================================================
