------------------------------ MODULE AgentSetup ------------------------------
(***************************************************************************)
(* ova setup, init and bootstrap: one command after the other writes the   *)
(* address of the MCP server, with a key in it, into the configurations of *)
(* the editors, and rules for agents into a repository.  The files belong  *)
(* to others: editors and people write them before, after and between the  *)
(* reading and the writing of a command.  The races of commands about the  *)
(* profile are CliProfiles'.                                               *)
(***************************************************************************)
EXTENDS Naturals, FiniteSets, SequencesExt, Arrangements

CONSTANTS
    FirstKeys,            \* what the profile may begin with
    EditorLists,          \* values of --editor
    MaxSetups, MaxTouches, MaxKills  \* bounds: commands, writes of others, kills

VARIABLES
    profileKeys,       \* the profile
    json, toml, prompt,   \* the files
    repo,       \* the rest of a repository: skills, and whether there is a catalogue
    setup,      \* the command that runs, or ran last
    mine,       \* what others have put into each file and should find there
    tornFiles,       \* repository files in which somebody took away a marker
    keysMade, setups, touches, setupKills

setupVars == <<profileKeys, json, toml, prompt, repo, setup, mine, tornFiles, keysMade, setups, touches, setupKills>>

JsonEditors == {"claude", "cursor"}
Prompts == {"AGENTS.md", "CLAUDE.md"}
FilesWritten == JsonEditors \cup {"codex"} \cup Prompts
KeyKinds == {"api", "session"}
MaxKeys == 2 * MaxSetups

ASSUME AgentSetupAssumption ==
    /\ FirstKeys \subseteq [api : {0}, session : {0}, live : BOOLEAN, jwt : BOOLEAN, url : BOOLEAN]
    /\ EditorLists \subseteq Seq({"claude", "cursor", "codex"}) \ {<<>>}
    /\ MaxSetups \in Nat /\ MaxTouches \in Nat /\ MaxKills \in Nat

(***************************************************************************)
(* Files.  What others write has a number; 0 is the entry that versions of *)
(* the client before ova_mcp have left.                                    *)
(***************************************************************************)
Legacy == 0
EmptyJson == [form |-> "object", servers |-> {}, settings |-> {}, own |-> 0]
OldJson == [EmptyJson EXCEPT !.servers = {Legacy}]

\* upsertJsonMcpConfig, with a file that is not there read as {}.
UpsertJson(file, key) == [file EXCEPT !.servers = @ \ {Legacy}, !.own = key]

\* Lines of config.toml: headers of tables, and what stands under them.
Line(is, of, id) == [is |-> is, of |-> of, id |-> id]
OldToml == <<Line("head", "legacy", 0), Line("line", "legacy", 0), Line("head", "sub", 0), Line("line", "sub", 0)>>

\* "near" is a table whose name only begins like ours; a mutant takes it for ours.
IsOpenVikingSectionPrefix(line) == line.of \in {"own", "legacy", "sub", "near"}
IsOpenVikingSection(line) == line.of \in {"own", "legacy", "sub"}
Skipped(lines, i) ==
    \E h \in 1 .. i : /\ lines[h].is = "head" /\ IsOpenVikingSection(lines[h])
                      /\ \A between \in h + 1 .. i : lines[between].is # "head"
RemoveSections(lines) == Filtered(lines, {i \in DOMAIN lines : ~Skipped(lines, i)})
UpsertToml(lines, key) ==
    RemoveSections(lines) \o <<Line("head", "own", key), Line("line", "own", key)>>

\* Pieces of AGENTS.md and CLAUDE.md: the markers, the rules and other text.
Piece(is, id) == [is |-> is, id |-> id]
Section(rules) == <<Piece("start", 0), Piece(rules, 0), Piece("end", 0)>>
PlaceOf(pieces, is) ==
    LET at == {i \in DOMAIN pieces : pieces[i].is = is} IN IF at = {} THEN 0 ELSE Min(at)
UpsertSection(pieces, rules) ==
    LET start == PlaceOf(pieces, "start")
        end == PlaceOf(pieces, "end")
    IN IF start # 0 /\ end > start
       THEN SubSeq(pieces, 1, start - 1) \o Section(rules) \o SubSeq(pieces, end + 1, Len(pieces))
       ELSE pieces \o Section(rules)

OthersIds(lines) == {line.id : line \in {l \in Range(lines) : l.of \in {"user", "near"}}}
TextIds(pieces) == {piece.id : piece \in {q \in Range(pieces) : q.is = "text"}}
IdsOf(file) ==
    CASE file \in JsonEditors -> (json[file].servers \cup json[file].settings) \ {Legacy}
      [] file = "codex" -> OthersIds(toml)
      [] OTHER -> TextIds(prompt[file])

(***************************************************************************)
(* A command: what it was asked for, where it is, and what it has read.    *)
(***************************************************************************)
NoSetup == [pc |-> "off", does |-> {}, skillsToo |-> FALSE, prefers |-> "api", given |-> "none",
            browser |-> FALSE, editors |-> <<>>, at |-> 1, key |-> 0, rules |-> "hint",
            object |-> EmptyJson, copy |-> <<>>, read |-> {}, wrote |-> {}]
SetupAt(pc) == setup.pc = pc
Stopped == {"off", "done", "failed", "killed"}
SetupFails == setup' = [setup EXCEPT !.pc = "failed"]
KeepsKeys == UNCHANGED <<profileKeys, keysMade>>
KeepsFiles == UNCHANGED <<json, toml, prompt, repo, mine, tornFiles>>
InProgress == UNCHANGED <<setups, touches, setupKills>>

AfterConfigure(does) ==
    IF "setup" \in does THEN "resolve" ELSE IF "init" \in does THEN "skills" ELSE "done"

\* ova setup [--credential] [--api-key | --session-key] [--editor] [--open-browser],
\* ova init, ova bootstrap [--skip-setup] [--skip-init].
BeginSetup(does, bootstrap) ==
    /\ setup.pc \in Stopped /\ setups < MaxSetups /\ setups' = setups + 1
    /\ ~bootstrap => Cardinality(does) = 1
    /\ LET begun == [NoSetup EXCEPT
              !.pc = IF bootstrap /\ profileKeys.api = 0 /\ profileKeys.session = 0 /\ ~profileKeys.jwt THEN "configure"
                     ELSE AfterConfigure(does),
              !.does = does, !.skillsToo = bootstrap]
       IN IF "setup" \in does
          THEN \E given \in {"none"} \cup KeyKinds, prefers \in KeyKinds, browser \in BOOLEAN, list \in EditorLists :
                  setup' = [begun EXCEPT !.prefers = prefers, !.given = given, !.browser = browser,
                                         !.editors = list]
          ELSE setup' = begun
    /\ KeepsKeys /\ KeepsFiles /\ UNCHANGED <<touches, setupKills>>

\* handleConfigure, for a profile without a credential: a key, a sign-in, or neither.
Configure ==
    /\ SetupAt("configure")
    /\ \/ /\ profileKeys' \in {profileKeys, [profileKeys EXCEPT !.api = keysMade + 1], [profileKeys EXCEPT !.jwt = TRUE]}
          /\ keysMade' = keysMade + 1
          /\ setup' = [setup EXCEPT !.pc = AfterConfigure(setup.does)]
       \/ SetupFails /\ KeepsKeys
    /\ KeepsFiles /\ InProgress

(***************************************************************************)
(* resolveMcpCredential, after persistSetupOptions has stored what was     *)
(* given: that; a key of the kind wanted; a new one, if the profile is     *)
(* signed in; a key of the other kind; a sign-in with the browser.         *)
(***************************************************************************)
\* A session key that is given keeps the expiry of the one before it.
Persisted == IF setup.given = "none" THEN profileKeys ELSE [profileKeys EXCEPT ![setup.given] = keysMade + 1]
UsableKey(profile, kind) == IF kind = "api" THEN profile.api ELSE IF profile.live THEN profile.session ELSE 0
OtherKind == [api |-> "session", session |-> "api"]
WithKey(key) ==
    [setup EXCEPT !.pc = "read", !.key = key, !.prefers = "api", !.given = "none", !.browser = FALSE]

Resolve ==
    /\ SetupAt("resolve")
    /\ profileKeys' = Persisted
    /\ keysMade' = IF setup.given = "none" THEN keysMade ELSE keysMade + 1
    /\ LET wanted == UsableKey(Persisted, setup.prefers)
           other == UsableKey(Persisted, OtherKind[setup.prefers])
       IN CASE setup.given # "none" -> setup' = WithKey(keysMade + 1)
            [] setup.given = "none" /\ wanted # 0 -> setup' = WithKey(wanted)
            [] setup.given = "none" /\ wanted = 0 /\ profileKeys.jwt -> setup' = [setup EXCEPT !.pc = "issue"]
            [] setup.given = "none" /\ wanted = 0 /\ ~profileKeys.jwt /\ other # 0 -> setup' = WithKey(other)
            [] OTHER -> IF setup.browser /\ profileKeys.url THEN setup' = [setup EXCEPT !.pc = "browser"]
                        ELSE SetupFails
    /\ KeepsFiles /\ InProgress

\* issueApiKey, issueSessionKey: made by the server, then stored.
IssueKey ==
    /\ SetupAt("issue")
    /\ \/ /\ keysMade' = keysMade + 1
          /\ profileKeys' = [profileKeys EXCEPT ![setup.prefers] = keysMade + 1,
                                  !.live = @ \/ setup.prefers = "session"]
          /\ setup' = WithKey(keysMade + 1)
       \/ SetupFails /\ KeepsKeys
    /\ KeepsFiles /\ InProgress
BrowserLogin ==
    /\ SetupAt("browser") /\ UNCHANGED keysMade
    /\ \/ profileKeys' = [profileKeys EXCEPT !.jwt = TRUE] /\ setup' = [setup EXCEPT !.pc = "resolve"]
       \/ SetupFails /\ UNCHANGED profileKeys
    /\ KeepsFiles /\ InProgress

(***************************************************************************)
(* Editors one after the other: read, then written from what was read.     *)
(***************************************************************************)
Editor == setup.editors[setup.at]
ReadEditor ==
    /\ SetupAt("read")
    /\ IF Editor \in JsonEditors /\ json[Editor].form # "object" THEN SetupFails
       ELSE setup' = [setup EXCEPT !.pc = "write", !.read = IdsOf(Editor),
                         !.object = IF Editor \in JsonEditors THEN json[Editor] ELSE EmptyJson,
                         !.copy = IF Editor = "codex" THEN toml ELSE <<>>]
    /\ KeepsKeys /\ KeepsFiles /\ InProgress

NewJson == UpsertJson(setup.object, setup.key)
NewToml == UpsertToml(setup.copy, setup.key)
SkillDir == [claude |-> ".claude", cursor |-> ".cursor", codex |-> ".agents"]
\* What came while the command had read and not written goes: nobody can claim it.
Forgets(file) == mine' = [mine EXCEPT ![file] = @ \cap setup.read]

WriteEditor ==
    /\ SetupAt("write")
    /\ json' = IF Editor \in JsonEditors THEN [json EXCEPT ![Editor] = NewJson] ELSE json
    /\ toml' = IF Editor = "codex" THEN NewToml ELSE toml
    /\ repo' = IF setup.skillsToo THEN [repo EXCEPT !.skills = @ \cup {SkillDir[Editor]}] ELSE repo
    /\ setup' = [setup EXCEPT !.wrote = @ \cup {Editor}, !.read = {}, !.object = EmptyJson, !.copy = <<>>,
                    !.at = IF setup.at < Len(setup.editors) THEN @ + 1 ELSE 1,
                    !.pc = IF setup.at < Len(setup.editors) THEN "read"
                           ELSE IF "init" \in setup.does THEN "skills" ELSE "done"]
    /\ Forgets(Editor)
    /\ KeepsKeys /\ UNCHANGED <<prompt, tornFiles>> /\ InProgress

(***************************************************************************)
(* A repository: skills, the catalogue if the server answers, the rules.   *)
(***************************************************************************)
PromptAt == <<"AGENTS.md", "CLAUDE.md">>[setup.at]
WriteSkills ==
    /\ SetupAt("skills")
    /\ repo' = [repo EXCEPT !.skills = @ \cup {".claude", ".agents"}]
    /\ setup' = [setup EXCEPT !.pc = "fetch"]
    /\ KeepsKeys /\ UNCHANGED <<json, toml, prompt, mine, tornFiles>> /\ InProgress
FetchCatalogue ==
    /\ SetupAt("fetch")
    /\ \E rules \in {"hint", "list"} :
          /\ setup' = [setup EXCEPT !.pc = "readPrompt", !.rules = rules, !.at = 1]
          /\ repo' = IF rules = "list" THEN [repo EXCEPT !.catalogue = TRUE] ELSE repo
    /\ KeepsKeys /\ UNCHANGED <<json, toml, prompt, mine, tornFiles>> /\ InProgress

ReadPrompt ==
    /\ SetupAt("readPrompt")
    /\ setup' = [setup EXCEPT !.pc = "writePrompt", !.copy = prompt[PromptAt], !.read = IdsOf(PromptAt)]
    /\ KeepsKeys /\ KeepsFiles /\ InProgress
NewPrompt == UpsertSection(setup.copy, setup.rules)
WritePrompt ==
    /\ SetupAt("writePrompt")
    /\ prompt' = [prompt EXCEPT ![PromptAt] = NewPrompt]
    /\ setup' = [setup EXCEPT !.copy = <<>>, !.read = {}, !.at = 2,
                    !.pc = IF setup.at = 1 THEN "readPrompt" ELSE "done"]
    /\ Forgets(PromptAt)
    /\ KeepsKeys /\ UNCHANGED <<json, toml, repo, tornFiles>> /\ InProgress

\* writeFileSync empties the file first: what a kill leaves begins like the new text.
SetupKilled ==
    /\ setup.pc \notin Stopped /\ setupKills < MaxKills /\ setupKills' = setupKills + 1
    /\ setup' = [NoSetup EXCEPT !.pc = "killed"]
    /\ \/ UNCHANGED <<json, toml, prompt, mine, tornFiles>>
       \/ /\ SetupAt("write") /\ Editor \in JsonEditors
          /\ \E form \in {"object", "refused"} :
                json' = [json EXCEPT ![Editor] = [EmptyJson EXCEPT !.form = form]]
          /\ mine' = [mine EXCEPT ![Editor] = {}] /\ UNCHANGED <<toml, prompt, tornFiles>>
       \/ /\ SetupAt("write") /\ Editor = "codex"
          /\ \E n \in 0 .. Len(NewToml) : toml' = SubSeq(NewToml, 1, n)
          /\ mine' = [mine EXCEPT ![Editor] = {}] /\ UNCHANGED <<json, prompt, tornFiles>>
       \/ /\ SetupAt("writePrompt")
          /\ \E n \in 0 .. Len(NewPrompt) : prompt' = [prompt EXCEPT ![PromptAt] = SubSeq(NewPrompt, 1, n)]
          /\ mine' = [mine EXCEPT ![PromptAt] = {}] /\ tornFiles' = tornFiles \cup {PromptAt}
          /\ UNCHANGED <<json, toml>>
    /\ KeepsKeys /\ UNCHANGED <<repo, setups, touches>>

(***************************************************************************)
(* Others: the editors write their settings, people edit files, time ends  *)
(* the life of a session key.                                              *)
(***************************************************************************)
Touched == touches < MaxTouches /\ touches' = touches + 1
OthersOnly == KeepsKeys /\ UNCHANGED <<setup, repo, setups, setupKills>>
Number == touches + 1
PutsIn(file) == mine' = [mine EXCEPT ![file] = @ \cup {Number}]

TouchJson(e) ==
    /\ Touched
    /\ \/ /\ json[e].form = "object"
          /\ json' \in {[json EXCEPT ![e].servers = @ \cup {Number}], [json EXCEPT ![e].settings = @ \cup {Number}]}
          /\ PutsIn(e)
       \/ /\ json' = [json EXCEPT ![e].form = IF @ = "object" THEN "refused" ELSE "object"]
          /\ UNCHANGED mine
    /\ UNCHANGED <<toml, prompt, tornFiles>> /\ OthersOnly

\* A table at the end, a line at the top, or a line under the last table,
\* which may be ours.
TouchToml ==
    /\ Touched
    /\ \/ /\ \E of \in {"user", "near"} :
                toml' = toml \o <<Line("head", of, Number), Line("line", of, Number)>>
          /\ PutsIn("codex")
       \/ toml' = <<Line("line", "user", Number)>> \o toml /\ PutsIn("codex")
       \/ toml' = Append(toml, Line("line", "user", Number)) /\ UNCHANGED mine
    /\ UNCHANGED <<json, prompt, tornFiles>> /\ OthersOnly

TouchPrompt(file) ==
    /\ Touched
    /\ \/ /\ prompt' = [prompt EXCEPT ![file] = <<Piece("text", Number)>> \o @]
          /\ PutsIn(file) /\ UNCHANGED tornFiles
       \/ /\ prompt' = [prompt EXCEPT ![file] = Append(@, Piece("text", Number))]
          /\ IF file \in tornFiles THEN UNCHANGED mine ELSE PutsIn(file)
          /\ UNCHANGED tornFiles
       \/ \E is \in {"start", "end"} :
             /\ PlaceOf(prompt[file], is) # 0
             /\ prompt' = [prompt EXCEPT ![file] = RemoveAt(@, PlaceOf(@, is))]
             /\ tornFiles' = tornFiles \cup {file}
             /\ mine' = [mine EXCEPT ![file] =
                    @ \cap TextIds(SubSeq(prompt[file], 1, PlaceOf(prompt[file], is)))]
    /\ UNCHANGED <<json, toml>> /\ OthersOnly

SessionKeyEnds ==
    /\ profileKeys.live /\ profileKeys' = [profileKeys EXCEPT !.live = FALSE]
    /\ UNCHANGED <<keysMade, setup>> /\ KeepsFiles /\ InProgress

SetupInit ==
    /\ profileKeys \in FirstKeys /\ keysMade = 0 /\ setups = 0 /\ touches = 0 /\ setupKills = 0
    /\ \/ json = [e \in JsonEditors |-> EmptyJson] /\ toml = <<>>
       \/ json = [e \in JsonEditors |-> OldJson] /\ toml = OldToml
    /\ prompt = [file \in Prompts |-> <<>>]
    /\ repo = [skills |-> {}, catalogue |-> FALSE]
    /\ setup = NoSetup /\ tornFiles = {}
    /\ mine = [file \in FilesWritten |-> {}]

SetupNext ==
    \/ \E does \in SUBSET {"setup", "init"}, bootstrap \in BOOLEAN : BeginSetup(does, bootstrap)
    \/ Configure \/ Resolve \/ IssueKey \/ BrowserLogin
    \/ ReadEditor \/ WriteEditor \/ WriteSkills \/ FetchCatalogue \/ ReadPrompt \/ WritePrompt
    \/ SetupKilled \/ SessionKeyEnds
    \/ \E e \in JsonEditors : TouchJson(e)
    \/ TouchToml
    \/ \E file \in Prompts : TouchPrompt(file)

SetupSpec == SetupInit /\ [][SetupNext]_setupVars

(***************************************************************************)
(* Properties.                                                             *)
(***************************************************************************)
SetupTypeOK ==
    /\ profileKeys \in [api : 0 .. keysMade, session : 0 .. keysMade, live : BOOLEAN, jwt : BOOLEAN, url : BOOLEAN]
    /\ keysMade \in 0 .. MaxKeys /\ setup.key \in 0 .. keysMade
    /\ \A e \in JsonEditors :
          /\ json[e].servers \cup json[e].settings \subseteq 0 .. touches
          /\ json[e].form \in {"object", "refused"} /\ json[e].own \in 0 .. keysMade
    /\ mine \in [FilesWritten -> SUBSET (1 .. touches)]
    /\ setup.wrote \subseteq Range(setup.editors) /\ tornFiles \subseteq Prompts

\* README.md of the client: whoever runs the commands again loses no server, no
\* setting and no table of others; and no text around the rules, as long as
\* nobody takes a marker away and no command is killed while it writes.
OthersKeepTheirs ==
    /\ \A file \in FilesWritten : mine[file] \subseteq IdsOf(file)
    \* and a table keeps what is under it
    /\ \A i \in DOMAIN toml :
          toml[i].is = "head" /\ toml[i].id \in mine["codex"] /\ toml[i].of \in {"user", "near"} =>
             i < Len(toml) /\ toml[i + 1] = [toml[i] EXCEPT !.is = "line"]

\* Every editor a command has written has one entry of ours, with the key of that
\* command, which the profile holds too, and none from older clients.
EditorsAgree ==
    \A e \in setup.wrote :
        /\ setup.key # 0 /\ setup.key \in {profileKeys.api, profileKeys.session}
        /\ IF e \in JsonEditors THEN json[e].own = setup.key /\ Legacy \notin json[e].servers
           ELSE /\ \A line \in Range(toml) : line.of \notin {"legacy", "sub"}
                /\ {i \in DOMAIN toml : toml[i].of = "own"} # {}
                /\ \A i \in DOMAIN toml : toml[i].of = "own" => toml[i].id = setup.key
                /\ Cardinality({i \in DOMAIN toml : toml[i].of = "own"}) = 2

\* A repository has the rules once, those of the last command, in files whose
\* markers are as the commands wrote them.
OneSection ==
    \A file \in Prompts \ tornFiles :
        LET places(is) == {i \in DOMAIN prompt[file] : prompt[file][i].is = is} IN
        /\ Cardinality(places("start")) <= 1 /\ Cardinality(places("start")) = Cardinality(places("end"))
        /\ SetupAt("done") /\ "init" \in setup.does =>
              \E i \in DOMAIN prompt[file] : i + 2 <= Len(prompt[file]) /\ SubSeq(prompt[file], i, i + 2) = Section(setup.rules)

SetupHolds == OthersKeepTheirs /\ EditorsAgree /\ OneSection
=============================================================================
