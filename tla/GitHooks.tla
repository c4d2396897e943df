------------------------------- MODULE GitHooks -------------------------------
(***************************************************************************)
(* The git hooks of a fleet repository around one checkout that several    *)
(* sessions share: pre-commit, commit-msg, pre-merge-commit and pre-push,  *)
(* over git's index, history and remote as the hooks use them.             *)
(*                                                                         *)
(* A history is the sequence of its commits, and a commit is named by the  *)
(* history that ends in it.  The tree of a commit is the text of one       *)
(* tracked file, of path Path, and the number of other files it has lost.  *)
(***************************************************************************)
EXTENDS HookScans, Sequences, SequencesExt

CONSTANTS Path, Texts, Messages, Keys, Identities, Checkout,
          Others, DeleteFloor, HasAllowedSigners,
          RefSets, MaxCommits, MaxPushes, MaxPeer

Branches == {"main", "wip"}
Refs == Branches \cup {"tag"}
Bypasses == {"none", "noVerify", "allowUnsigned"}
MessageFlaws == {"attribution", "scanLabel", "linearRef", "foreignRef",
                 "badSubject", "token", "placeholder"}

ASSUME HookConstants ==
    /\ Path \subseteq PathTags
    /\ \E t \in Texts : \A l \in t : l.kind = "plain"
    /\ \A t \in Texts : t # {} /\ \A l \in t : l.kind \in LineKinds /\ l.marks \subseteq Marks
    /\ Messages \subseteq SUBSET MessageFlaws
    /\ Keys \subseteq {"listed", "unlisted", "none"}
    /\ Identities \subseteq {"allowed", "denied", "foreign", "unknown"}
    /\ Checkout \in {"own", "inScope", "outOfScope", "unregistered"}
    /\ Others \in Nat /\ DeleteFloor \in Nat \ {0}
    /\ HasAllowedSigners \in BOOLEAN
    /\ RefSets \subseteq SUBSET Refs
    /\ MaxCommits \in Nat /\ MaxPushes \in Nat /\ MaxPeer \in Nat

VARIABLES
    work,      \* the text of the file in the working tree
    index,     \* what is staged: the text, how many other files are staged away
    local,     \* the checked-out branch
    tag,       \* the local release tag, <<>> when there is none
    tracking,  \* origin/main as this clone last saw it
    remote,    \* the remote's refs
    commit,    \* the commit being made
    push,      \* the push being made
    used,      \* commits, pushes and peer pushes so far (bounds)
    entered,   \* commits that reached main other than through the gate
    pinned,    \* commits a published release tag has ever held
    torn       \* texts that reached a branch without being the text read, the
               \* root's among them: main held it before there were hooks

vars == <<work, index, local, tag, tracking, remote, commit, push, used,
          entered, pinned, torn>>

NoCommit == <<>>
\* The root commit every clone shares.
Root == [text |-> CHOOSE t \in Texts : \A l \in t : l.kind = "plain",
         gone |-> 0, benign |-> FALSE, msg |-> {}, sig |-> "listed",
         second |-> <<>>, via |-> "open"]

\* The commits a tip reaches, through the second parent of a merge too.
Ancestors(h) ==
    (Prefixes(h) \cup UNION {Prefixes(h[i].second) : i \in DOMAIN h}) \ {NoCommit}

isAncestor(a, h) == a \in Ancestors(h)

\* git rev-list base..tip; an empty base excludes nothing.
RevList(base, tip) == Ancestors(tip) \ Ancestors(base)

-----------------------------------------------------------------------------
(* pre-commit                                                               *)

Tip == Last(local)

\* Files staged for deletion against what is still tracked; untracking an
\* ignored file that is still on disk is no deletion.
catastrophicDeletion(ix) ==
    LET deleted == IF ix.benign THEN 0 ELSE ix.gone - Tip.gone
        tracked == 1 + Others - ix.gone
    IN  deleted > 0 /\ (deleted >= DeleteFloor \/ deleted * 4 > tracked * 3)

stagedIndexIsEmpty(ix) == ix.text = Tip.text /\ ix.gone = Tip.gone

\* Added, changed or modified files: the deletions are not among them.
StagedFiles(ix) == ix.text # Tip.text

refuseOutOfScopeStagedPaths == Checkout \in {"outOfScope", "unregistered"}

checkSigningConfig(key, bypass) == bypass # "allowUnsigned" /\ key = "none"

checkPersonalPaths(path, text) == ~shouldSkipSourceScan(path) /\ scanPersonalPaths(text) # {}

checkOtherSecrets(path, text) ==
    /\ ~shouldSkipFile(path)
    /\ scanAwsKeys(text) \cup scanGitHubTokens(text) \cup scanPrivateKeys(text) # {}

checkPackageJsonOverrides(path, text) ==
    "manifest" \in path /\ ~shouldSkipFile(path) /\ scanPackageJsonPnpmOverrides(text) # {}

checkSoakExcludeDates(path, text) ==
    "workspaceYaml" \in path /\ scanSoakExcludeDateAnnotations(text) # {}

checkNpxDlxUsage(path, text) ==
    ~shouldSkipFile(path) /\ ~isNpxScanExempt(path) /\ scanNpxDlx(text) # {}

checkLoggerLeaks(path, text) ==
    ~shouldSkipFile(path) /\ isLoggerScanTarget(path) /\ scanLoggerLeaks(text) # {}

checkCrossRepoPaths(path, text) ==
    ~shouldSkipFile(path) /\ isCrossRepoScanTarget(path) /\ scanCrossRepoPaths(text) # {}

checkPrProcessComments(path, text) ==
    ~shouldSkipSourceScan(path) /\ scanPrProcessComments(text) # {}

\* Every blocking content check of one staged file. API keys and docs that do
\* not lead with pnpm are warnings here.
SecurityFindings(path, text) ==
    \/ scanForbiddenFilenames(path)
    \/ checkPersonalPaths(path, text)
    \/ checkOtherSecrets(path, text)
    \/ checkPackageJsonOverrides(path, text)
    \/ checkSoakExcludeDates(path, text)
    \/ checkNpxDlxUsage(path, text)
    \/ checkLoggerLeaks(path, text)
    \/ checkCrossRepoPaths(path, text)
    \/ checkPrProcessComments(path, text)

\* The verdict of the whole hook: a wipe, or an empty index outside a merge,
\* cherry-pick or revert, refuses first; with nothing added or changed it ends
\* there, before the signing configuration is looked at; what is scanned is the
\* working tree's text of the staged file.
PreCommitRefuses(ix, text, key, bypass, merging) ==
    \/ catastrophicDeletion(ix)
    \/ stagedIndexIsEmpty(ix) /\ ~merging
    \/ refuseOutOfScopeStagedPaths
    \/ /\ StagedFiles(ix)
       /\ checkSigningConfig(key, bypass) \/ SecurityFindings(Path, text)

-----------------------------------------------------------------------------
(* commit-msg and pre-merge-commit                                          *)

\* Socket keys and .env files of the staged paths, read from the working tree.
scanStagedFilesForLeaks(ix, text) ==
    /\ StagedFiles(ix) /\ ~shouldSkipFile(Path)
    /\ scanSocketApiKeys(text) # {} \/ EnvFile(Path)

scrubCommitMessage(msg) == msg \ {"attribution", "scanLabel"}

scanCommitMessageFile(msg) ==
    \/ msg \cap {"linearRef", "foreignRef", "badSubject", "token"} # {}
    \/ "placeholder" \in scrubCommitMessage(msg)

\* An identity git cannot name is let through.
scanCommitIdentities(who) == who \in {"denied", "foreign"}

CommitMsgRefuses(ix, text, msg, who) ==
    \/ scanStagedFilesForLeaks(ix, text)
    \/ scanCommitMessageFile(msg)
    \/ scanCommitIdentities(who)

\* pre-merge-commit cannot rewrite a merge message, so it refuses.
findMergeCommitBlockers(msg, who) == "attribution" \in msg \/ scanCommitIdentities(who)

-----------------------------------------------------------------------------
(* pre-push                                                                 *)

\* The base of the range to scan, or "skip": tags and deletions, and a new or
\* rewritten branch when the clone has no remote default branch.
computeRange(ref, tip, old) ==
    IF ref = "tag" \/ tip = NoCommit THEN "skip"
    ELSE IF old # NoCommit /\ isAncestor(old, tip) THEN old
    ELSE IF tracking # NoCommit THEN tracking ELSE "skip"

\* The message gate takes any local tag for a published one.
ExemptByLocalTag(range, base, published) ==
    IF tag # NoCommit /\ tag \in range THEN range \ Ancestors(tag) ELSE range

\* What a published tag of the same commit freezes is not the message gate's
\* to judge.
resolveRewritableCommits(range, base, published) ==
    IF tag # NoCommit /\ tag \in range /\ published = tag
    THEN range \ Ancestors(tag) ELSE range

scanCommitMessages(range, base, published) ==
    \E c \in resolveRewritableCommits(range, base, published) :
        "attribution" \in Last(c).msg

\* Unsigned commits, and with a list of signers those of any other key.
classifyCommitSignatures(c) ==
    \/ Last(c).sig = "none"
    \/ HasAllowedSigners /\ Last(c).sig = "unlisted"

scanSignedCommits(range, ref) == ref = "main" /\ \E c \in range : classifyCommitSignatures(c)

reportPrivateKeys(path, text) == "conformance" \notin path /\ scanPrivateKeys(text) # {}

\* Every content scan of a changed file that blocks a push.
scanFileContent(path, text) ==
    \/ scanPersonalPaths(text) # {}
    \/ scanSocketApiKeys(text) \cup scanAwsKeys(text) \cup scanGitHubTokens(text) # {}
    \/ reportPrivateKeys(path, text)
    \/ isLoggerScanTarget(path) /\ scanLoggerLeaks(text) # {}
    \/ isCrossRepoScanTarget(path) /\ scanCrossRepoPaths(text) # {}
    \/ isClaudeLockdownScanTarget(path) /\ scanProgrammaticClaudeLockdown(text) # {}

\* Only a clean working tree is worth a scan of the changed files.
ScanUnlessUnchanged(base, tip, text) ==
    /\ Last(base).text # Last(tip).text /\ Last(tip).text # text
    /\ scanForbiddenFilenames(Path) \/ (~shouldSkipFile(Path) /\ scanFileContent(Path, text))

\* The paths are those that differ between the ends of the range, the text is
\* that of the working tree.
scanFilesInRange(base, tip, text) ==
    /\ Last(base).text # Last(tip).text
    /\ scanForbiddenFilenames(Path) \/ (~shouldSkipFile(Path) /\ scanFileContent(Path, text))

scanSoakAnnotations(text) == checkSoakExcludeDates(Path, text)

\* Safety findings of one pushed ref.
RefFindings(ref, base, tip, published) ==
    LET range == RevList(base, tip)
    IN  \/ scanCommitMessages(range, base, published)
        \/ scanSignedCommits(range, ref)
        \/ scanFilesInRange(base, tip, work)

\* A pull request's branch needs a commit above its base, and each of several
\* commits a verifiable signature; a listing that fails lets the push through.
checkPrCommitCount(tip) ==
    LET above == RevList(tracking, tip)
    IN  \/ tracking = NoCommit
        \/ above = {}
        \/ Cardinality(above) > 1 /\ \E c \in above : Last(c).sig = "none"

isDurableBackupPush(refs) == refs # {} /\ refs \subseteq {"wip"}

-----------------------------------------------------------------------------
(* The initial state: a clone of a remote that may have no main yet.        *)

NoPush == [pc |-> "idle", refs |-> {}, todo |-> {}, tip |-> NoCommit,
           old |-> [r \in Refs |-> NoCommit], errors |-> FALSE,
           ungated |-> {}, unread |-> FALSE]
NoCommitting == [pc |-> "idle", key |-> "none", msg |-> {}, who |-> "unknown",
                 bypass |-> "none", ix |-> [text |-> {}, gone |-> 0, benign |-> FALSE],
                 seen |-> {}]

Init ==
    /\ work = Root.text
    /\ index = [text |-> Root.text, gone |-> 0, benign |-> FALSE]
    /\ local = <<Root>>
    /\ tag = NoCommit
    /\ \E old \in {NoCommit, <<Root>>} :
        /\ tracking = old
        /\ remote = [r \in Refs |-> IF r = "main" THEN old ELSE NoCommit]
    /\ commit = NoCommitting
    /\ push = NoPush
    /\ used = [commits |-> 0, pushes |-> 0, peer |-> 0]
    /\ entered = {<<Root>>} /\ pinned = {} /\ torn = {Root.text}

-----------------------------------------------------------------------------
(* The sessions that share the checkout.  Bound: once the last commit or    *)
(* push is made they stop, as nothing reads what they leave.                *)

MayCommit == used.commits < MaxCommits /\ used.pushes = 0

\* A session edits the file.
Edit ==
    /\ commit.pc # "idle" \/ push.pc # "idle" \/ MayCommit
    /\ \E t \in Texts : work' = t
    /\ UNCHANGED <<index, local, tag, tracking, remote, commit, push, used,
                   entered, pinned, torn>>

\* A session stages the file, or the removal of other files.
Stage ==
    /\ commit.pc # "idle" \/ MayCommit
    /\ \/ index' = [index EXCEPT !.text = work]
       \/ \E n \in (Tip.gone + 1)..Others, b \in BOOLEAN :
            index' = [index EXCEPT !.gone = n, !.benign = b]
    /\ UNCHANGED <<work, local, tag, tracking, remote, commit, push, used,
                   entered, pinned, torn>>

\* The release tag is made once and never moved.
Tag ==
    /\ tag = NoCommit /\ used.pushes < MaxPushes
    /\ tag' = local
    /\ UNCHANGED <<work, index, local, tracking, remote, commit, push, used,
                   entered, pinned, torn>>

Fetch ==
    /\ tracking # remote["main"] /\ used.pushes < MaxPushes
    /\ tracking' = remote["main"]
    /\ UNCHANGED <<work, index, local, tag, remote, commit, push, used,
                   entered, pinned, torn>>

-----------------------------------------------------------------------------
(* git commit and the hooks it runs.                                        *)

CommitBegin ==
    /\ commit.pc = "idle" /\ MayCommit
    /\ \E key \in Keys, msg \in Messages, who \in Identities, b \in Bypasses :
        commit' = [NoCommitting EXCEPT !.pc = IF b = "noVerify" THEN "freeze" ELSE "pre",
                       !.key = key, !.msg = msg, !.who = who, !.bypass = b]
    /\ UNCHANGED <<work, index, local, tag, tracking, remote, push, used,
                   entered, pinned, torn>>

\* The entry point drops the hook's exit status.
PreCommitStatusDropped ==
    /\ commit.pc = "pre"
    /\ commit' = [commit EXCEPT !.pc = "freeze", !.ix = index, !.seen = work]
    /\ UNCHANGED <<work, index, local, tag, tracking, remote, push, used,
                   entered, pinned, torn>>

\* The hook reads the index and the working tree, and refuses or lets go on.
\* A cherry-pick or revert may be in progress in the checkout.
PreCommit ==
    /\ commit.pc = "pre"
    /\ \E merging \in BOOLEAN :
        commit' = IF PreCommitRefuses(index, work, commit.key, commit.bypass, merging)
                  THEN NoCommitting
                  ELSE [commit EXCEPT !.pc = "freeze", !.ix = index, !.seen = work]
    /\ UNCHANGED <<work, index, local, tag, tracking, remote, push, used,
                   entered, pinned, torn>>

\* git reads the index again after the hook and writes the tree from it.
FreezeTree ==
    /\ commit.pc = "freeze"
    /\ commit' = [commit EXCEPT !.pc = IF @ = "freeze" /\ commit.bypass = "noVerify"
                                       THEN "record" ELSE "msg",
                      !.ix = index,
                      !.seen = IF commit.ix = index THEN @ ELSE {}]
    /\ UNCHANGED <<work, index, local, tag, tracking, remote, push, used,
                   entered, pinned, torn>>

CommitMsg ==
    /\ commit.pc = "msg"
    /\ commit' = IF CommitMsgRefuses(index, work, commit.msg, commit.who)
                 THEN NoCommitting
                 ELSE [commit EXCEPT !.pc = "record", !.msg = scrubCommitMessage(@)]
    /\ UNCHANGED <<work, index, local, tag, tracking, remote, push, used,
                   entered, pinned, torn>>

\* "gate": the hooks ran on exactly the file and index that are recorded.
RecordCommit ==
    /\ commit.pc = "record"
    /\ local' = Append(local,
            [text |-> commit.ix.text, gone |-> commit.ix.gone, benign |-> commit.ix.benign,
             msg |-> commit.msg, sig |-> commit.key, second |-> <<>>,
             via |-> IF commit.bypass # "noVerify" /\ commit.seen = commit.ix.text
                     THEN "gate" ELSE "open"])
    /\ commit' = NoCommitting
    /\ used' = [used EXCEPT !.commits = @ + 1]
    /\ UNCHANGED <<work, index, tag, tracking, remote, push, entered, pinned, torn>>

\* A clean merge of origin/main: pre-merge-commit judges it.
Merge ==
    /\ commit.pc = "idle" /\ push.pc = "idle" /\ used.commits < MaxCommits
    /\ tracking # NoCommit /\ ~isAncestor(tracking, local)
    /\ \A i \in DOMAIN tracking : tracking[i].second = <<>>
    /\ \E key \in Keys, msg \in Messages, who \in Identities :
        /\ ~findMergeCommitBlockers(msg, who)
        /\ local' = Append(local, [text |-> Tip.text, gone |-> Tip.gone, benign |-> FALSE,
                                   msg |-> msg, sig |-> key, second |-> tracking,
                                   via |-> "open"])
    /\ used' = [used EXCEPT !.commits = @ + 1]
    /\ UNCHANGED <<work, index, tag, tracking, remote, commit, push, entered, pinned, torn>>

\* A rebase replays the commits: the hook stands down, git signs with the key.
Rebase ==
    /\ commit.pc = "idle" /\ push.pc = "idle"
    /\ tracking # NoCommit /\ ~isAncestor(tracking, local)
    /\ \A i \in DOMAIN local : local[i].second = <<>>
    /\ \E key \in Keys :
        LET shared == Cardinality(Ancestors(local) \cap Ancestors(tracking))
        IN  local' = tracking \o [i \in 1..(Len(local) - shared) |->
                         [local[i + shared] EXCEPT !.sig = key, !.via = "open"]]
    /\ UNCHANGED <<work, index, tag, tracking, remote, commit, push, used,
                   entered, pinned, torn>>

-----------------------------------------------------------------------------
(* git push and pre-push.                                                   *)

\* git lists the refs it will update with the values the remote reported.
PushBegin ==
    /\ push.pc = "idle" /\ commit.pc = "idle" /\ used.pushes < MaxPushes
    /\ \E refs \in RefSets, force \in BOOLEAN, verify \in BOOLEAN,
          tip \in {local, tag, NoCommit} :
        /\ "tag" \in refs <=> refs = {"tag"}
        /\ (refs = {"tag"} => tip = tag /\ tag # NoCommit)
        /\ (refs # {"tag"} /\ tip # NoCommit => tip = local)
        /\ (tip = NoCommit => refs = {"wip"} /\ remote["wip"] # NoCommit)
        /\ \A r \in refs : force \/ remote[r] = NoCommit \/ isAncestor(remote[r], tip)
                           \/ tip = NoCommit
        /\ push' = [NoPush EXCEPT !.pc = IF verify THEN "submodules" ELSE "land",
                        !.refs = refs, !.todo = refs, !.tip = tip, !.old = remote,
                        !.ungated = IF verify THEN {} ELSE refs]
    /\ used' = [used EXCEPT !.pushes = @ + 1]
    /\ UNCHANGED <<work, index, local, tag, tracking, remote, commit,
                   entered, pinned, torn>>

\* Submodules at another commit refuse the push at once.
checkSubmodules ==
    /\ push.pc = "submodules"
    /\ push' \in {NoPush, [push EXCEPT !.pc = "refs"]}
    /\ UNCHANGED <<work, index, local, tag, tracking, remote, commit, used,
                   entered, pinned, torn>>

\* One ref line of git's input: its range, then the three safety scans. The
\* remote may be out of reach, then no tag counts as published.
ScanRef ==
    /\ push.pc = "refs"
    /\ \E r \in push.todo, published \in {NoCommit, remote["tag"]},
          listsPr \in BOOLEAN :
        LET base == computeRange(r, push.tip, push.old[r])
            prError == listsPr /\ r = "wip" /\ push.tip # NoCommit
                       /\ checkPrCommitCount(push.tip)
        IN  push' = [push EXCEPT
                !.todo = @ \ {r},
                !.errors = @ \/ prError
                             \/ (base # "skip" /\ RefFindings(r, base, push.tip, published)),
                !.ungated = IF base = "skip" THEN @ \cup {r} ELSE @,
                !.unread = @ \/ (base # "skip" /\ work # Last(push.tip).text)]
    /\ UNCHANGED <<work, index, local, tag, tracking, remote, commit, used,
                   entered, pinned, torn>>

\* Soak dates, then the verdict: a durable backup stops at the safety scans,
\* any other push must also pass lint, dispatch drift and types.
PushVerdict ==
    /\ push.pc = "refs" /\ push.todo = {}
    /\ \E quality \in BOOLEAN :
        LET errors == push.errors \/ scanSoakAnnotations(work)
        IN  push' = IF errors \/ (~isDurableBackupPush(push.refs) /\ ~quality)
                    THEN NoPush ELSE [push EXCEPT !.pc = "land"]
    /\ UNCHANGED <<work, index, local, tag, tracking, remote, commit, used,
                   entered, pinned, torn>>

\* The remote takes the update only from the values git listed.
Land ==
    /\ push.pc = "land"
    /\ IF \A r \in push.refs : remote[r] = push.old[r]
       THEN /\ remote' = [r \in Refs |-> IF r \in push.refs THEN push.tip ELSE remote[r]]
            /\ tracking' = IF "main" \in push.refs THEN push.tip ELSE tracking
            /\ entered' = IF "main" \in push.ungated
                          THEN entered \cup Ancestors(push.tip) ELSE entered
            /\ pinned' = IF "tag" \in push.refs THEN pinned \cup Ancestors(push.tip) ELSE pinned
            /\ torn' = IF push.tip = NoCommit \/ push.refs = {"tag"} THEN torn
                       ELSE IF push.unread \/ push.ungated # {}
                       THEN torn \cup {Last(push.tip).text} ELSE torn
       ELSE UNCHANGED <<remote, tracking, entered, pinned, torn>>
    /\ push' = NoPush
    /\ UNCHANGED <<work, index, local, tag, commit, used>>

\* Another machine rewrites main with an unsigned commit of its own.
PeerPush ==
    /\ used.peer < MaxPeer /\ remote["main"] # NoCommit /\ commit.pc = "idle"
    /\ LET theirs == <<Root, [Root EXCEPT !.sig = "none"]>>
       IN  /\ remote' = [remote EXCEPT !["main"] = theirs]
           /\ entered' = entered \cup Ancestors(theirs)
    /\ used' = [used EXCEPT !.peer = @ + 1]
    /\ UNCHANGED <<work, index, local, tag, tracking, commit, push, pinned, torn>>

Next ==
    \/ Edit \/ Stage \/ Tag \/ Fetch
    \/ CommitBegin \/ PreCommit \/ FreezeTree \/ CommitMsg \/ RecordCommit
    \/ Merge \/ Rebase
    \/ PushBegin \/ checkSubmodules \/ ScanRef \/ PushVerdict \/ Land
    \/ PeerPush

Spec == Init /\ [][Next]_vars

-----------------------------------------------------------------------------
(* Properties.                                                              *)

\* A commit the hooks let through, recorded from the very index and text they
\* read, carries no blocking finding and no attribution, and is no wipe: the
\* working tree the scanners read and the index git writes are two places.
HookedCommitIsClean ==
    \A i \in 2..Len(local) : local[i].via = "gate" =>
        /\ "attribution" \notin local[i].msg
        /\ local[i].text # local[i - 1].text => ~SecurityFindings(Path, local[i].text)
        /\ local[i].gone - local[i - 1].gone < DeleteFloor \/ local[i].benign

\* What main holds was judged when it got there: every commit of it is signed
\* by an accepted key and free of attribution unless a published tag froze it,
\* or it came with a bypass, without a baseline or from another machine.
MainIsVouched ==
    \A c \in Ancestors(remote["main"]) \ entered :
        /\ ~classifyCommitSignatures(c)
        /\ "attribution" \in Last(c).msg => c \in pinned

\* A branch whose tip the scanners would refuse got it from a push that read
\* another text than it carried, or none.
PushedTipWasRead ==
    \A r \in Branches : remote[r] # NoCommit =>
        \/ Last(remote[r]).text \in torn
        \/ /\ ~scanForbiddenFilenames(Path)
           /\ shouldSkipFile(Path) \/ ~scanFileContent(Path, Last(remote[r]).text)

=============================================================================
