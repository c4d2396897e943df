------------------------------ MODULE HookScans ------------------------------
(***************************************************************************)
(* The content scanners of the git hooks: which lines of a text a scanner  *)
(* reports, and which paths each gate leaves out.                          *)
(*                                                                         *)
(* A text is a set of lines, a line the kind of thing its pattern matches  *)
(* and the marks around it that the filters look at; what a regular        *)
(* expression spells is abstracted to that kind.  A path is the set of     *)
(* features the path predicates test.  An empty text is a file that could  *)
(* not be read (readFileForScan returns '').                               *)
(***************************************************************************)
EXTENDS Naturals, FiniteSets

\* What the patterns of the scanners match.
LineKinds == {"plain", "personalPath", "socketKey", "awsKey", "githubToken",
              "privateKey", "npx", "loggerCall", "crossRepo", "processRef",
              "overrides", "undatedPin", "badMode", "bypassMode", "driverCall",
              "lockdownKeys", "poison", "npmInstall", "pnpmInstall"}

\* placeholder: nothing real is left once placeholders are removed;
\* public: the shipped public key, a fake-token marker, a token variable name;
\* ownLine, lineAbove: an opt-out on the line, or one line above it;
\* comment, block, jsdoc, backticks: the documentation contexts;
\* quoted: only exact-quoted bare tokens; header: a license header;
\* upstream: the line cites an upstream release line.
Marks == {"placeholder", "public", "ownLine", "lineAbove", "comment", "block",
          "jsdoc", "backticks", "quoted", "header", "upstream"}

PathTags == {"test", "gitHooks", "claudeHooks", "scripts", "bootstrap",
             "templateHooks", "vendored", "loggerSource", "source", "typescript",
             "markdown", "manifest", "workspaceYaml", "lockfile", "changelog",
             "packBundle", "conformance", "aiConfig", "env", "envTemplate",
             "dsStore", "log", "testLog"}

-----------------------------------------------------------------------------
(* The scanning kernel.                                                     *)

lineIsSuppressed(l) == "ownLine" \in l.marks

suppressionCoversLine(l) == lineIsSuppressed(l) \/ "lineAbove" \in l.marks

looksLikeDocumentation(l) ==
    lineIsSuppressed(l) \/ l.marks \cap {"comment", "jsdoc", "backticks"} # {}

blockCommentLines(text) == {l \in text : "block" \in l.marks}

\* Lines of one kind, less the ones the scanner's filter drops; with skipDocs
\* also less those in documentation or under an opt-out.
scanLines(text, kind, filter, skipDocs) ==
    {l \in text :
        /\ l.kind = kind
        /\ l.marks \cap filter = {}
        /\ skipDocs => /\ l \notin blockCommentLines(text)
                       /\ ~looksLikeDocumentation(l)
                       /\ ~suppressionCoversLine(l)}

-----------------------------------------------------------------------------
(* The scanners.                                                            *)

\* A line with only placeholders or service-account homes is not personal.
isPurePlaceholder == {"placeholder"}

isAllowedApiKey == {"public", "ownLine"}

scanPersonalPaths(text) == scanLines(text, "personalPath", isPurePlaceholder, TRUE)
scanSocketApiKeys(text) ==
    scanLines(text, "socketKey", isAllowedApiKey \cup {"placeholder"}, FALSE)
scanAwsKeys(text) == scanLines(text, "awsKey", {"placeholder"}, FALSE)
scanGitHubTokens(text) == scanLines(text, "githubToken", {"placeholder"}, FALSE)
scanPrivateKeys(text) == scanLines(text, "privateKey", {}, FALSE)
scanNpxDlx(text) == scanLines(text, "npx", {"quoted"}, TRUE)

\* Calls are found in the parsed source, so a comment or a string is none.
scanLoggerLeaks(text) ==
    {l \in text : l.kind = "loggerCall" /\ l.marks \cap {"comment", "block"} = {}
                  /\ ~suppressionCoversLine(l)}

scanCrossRepoPaths(text) == {l \in text : l.kind = "crossRepo" /\ "comment" \notin l.marks}

\* Only comment text is read; a lone reference of an upstream release is a
\* citation, and a license header is left alone.
scanPrProcessComments(text) ==
    {l \in text : /\ l.kind = "processRef"
                  /\ l.marks \cap {"comment", "block"} # {}
                  /\ ~lineIsSuppressed(l)
                  /\ l.marks \cap {"header", "upstream"} = {}}

scanPackageJsonPnpmOverrides(text) == {l \in text : l.kind = "overrides"}

scanSoakExcludeDateAnnotations(text) ==
    {l \in text : l.kind = "undatedPin" /\ "lineAbove" \notin l.marks}

\* A forbidden mode is reported first, a bypass next; otherwise a driver call
\* of a file that leaves one of the lockdown keys out.
scanProgrammaticClaudeLockdown(text) ==
    LET mode == scanLines(text, "badMode", {}, FALSE)
        bypass == scanLines(text, "bypassMode", {}, FALSE)
        driver == scanLines(text, "driverCall", {"quoted"}, FALSE)
        locked == \E l \in text : l.kind = "lockdownKeys"
    IN  IF driver = {} THEN {}
        ELSE IF mode # {} THEN mode
        ELSE IF bypass # {} THEN bypass
        ELSE IF locked THEN {} ELSE driver

scanAiConfigPoison(text) == {l \in text : l.kind = "poison"}

\* A fenced block with an npm or yarn install and no pnpm one.
scanDocsPnpmFirst(text) ==
    IF \E l \in text : l.kind = "pnpmInstall" THEN {}
    ELSE {l \in text : l.kind = "npmInstall" /\ ~suppressionCoversLine(l)}

-----------------------------------------------------------------------------
(* The path predicates.                                                     *)

shouldSkipFile(path) == path \cap {"test", "gitHooks", "lockfile"} # {}
shouldSkipSourceScan(path) == shouldSkipFile(path) \/ "source" \notin path
isVendoredPath(path) == "vendored" \in path

isLoggerExemptPath(path) ==
    path \cap {"claudeHooks", "gitHooks", "scripts", "bootstrap", "templateHooks",
               "vendored", "loggerSource"} # {}

isLoggerScanTarget(path) == ~isLoggerExemptPath(path) /\ "typescript" \in path

isCrossRepoScanTarget(path) ==
    path \cap {"gitHooks", "claudeHooks", "markdown", "vendored", "lockfile",
               "workspaceYaml"} = {}

isClaudeLockdownScanTarget(path) ==
    /\ "typescript" \in path
    /\ path \cap {"claudeHooks", "gitHooks", "templateHooks", "vendored"} = {}

isNpxScanExempt(path) == path \cap {"lockfile", "changelog", "packBundle"} # {}

isAiConfigSurface(path) ==
    "aiConfig" \in path /\ path \cap {"claudeHooks", "gitHooks", "markdown"} = {}

\* .env files, .DS_Store and stray logs are refused by name.
EnvFile(path) == "env" \in path /\ "envTemplate" \notin path
scanForbiddenFilenames(path) ==
    EnvFile(path) \/ "dsStore" \in path \/ ("log" \in path /\ "testLog" \notin path)

=============================================================================
