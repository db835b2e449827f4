----------------------------- MODULE ConsolePages -----------------------------
(***************************************************************************)
(* The pages of the web application that list something and change it.     *)
(* Each page is a table: how it loads what it shows, and for every button  *)
(* or form the steps of its handler in the order of the code.  One         *)
(* interpreter runs the handlers: the steps up to the next await belong    *)
(* together, and what arrives in between is whatever the network brings.   *)
(*                                                                         *)
(* What a page shows is known by what was chosen on it (a search, a        *)
(* knowledge base, a page of a list) and by the number of changes the      *)
(* server had made when it read the answer.  A change another user makes   *)
(* is not in the model: the pages promise nothing about those.             *)
(***************************************************************************)
EXTENDS Naturals, Sequences, FiniteSets

CONSTANTS
    Clicks,       \* the presses of a button, each once
    LoadIds,      \* the loads a page may start
    MaxChoices,   \* bound on the changes of what is chosen
    MaxFillings   \* bound on the times a form is filled

VARIABLES
    pageName,     \* the page of this behaviour
    navigated,    \* here, leaving (router.push is under way), gone
    onServer,     \* changes the server has made to what the page lists
    chosen,       \* what is chosen on the page
    listShown,        \* the list shown: what was asked, and the changes it has
    listing,      \* the loads
    running,      \* the handlers under way
    busy,         \* the presses whose flag is on
    spinning,     \* the loading flag
    form,         \* the handler whose form is open
    contents,     \* what each form was filled with, counted; 0: empty
    fillings,
    accepted,     \* the contents a creation was accepted with
    told,         \* the last failure was told and nothing newer was shown
    hushed,       \* a failure was told to nobody
    overtaken,    \* an answer came after the answer to a later question
    twice         \* contents that had been accepted were accepted again

consoleVars == <<pageName, navigated, onServer, chosen, listShown, listing, running, busy, spinning,
                 form, contents, fillings, accepted, told, hushed, overtaken, twice>>

(***************************************************************************)
(* Handlers.  confirm: the question is asked and may be answered no; busy, *)
(* idle: the flag; pause: a timer; write: a change of what is listed;      *)
(* create: the same from the contents of a form; post: a call that changes *)
(* nothing listed; close: the form is closed and emptied; reload: the list *)
(* is asked for and awaited; refresh: asked for and not awaited; leave:    *)
(* another page is asked for.  A failure ends the handler; catch says      *)
(* whether someone is told (or told and the list asked for again), finally *)
(* whether the flag goes off however the handler ends, guard whether the   *)
(* button is off while the flag is on.  A form is its handler's: closing   *)
(* it may keep its contents, or be refused while the flag is on; a page    *)
(* may itself be the form.                                                 *)
(***************************************************************************)
Handler(steps, catch, finally, guard, opens) ==
    [steps |-> steps, catch |-> catch, finally |-> finally, guard |-> guard, form |-> opens]
Row(steps, catch) == Handler(steps, catch, "none", "any", "none")
BusyRow(steps, catch) == Handler(steps, catch, "idle", "any", "none")
Button(steps, catch) == Handler(steps, catch, "idle", "idle", "none")
Form(steps) == Handler(steps, "tell", "idle", "idle", "emptied")
KeptForm(steps) == Handler(steps, "tell", "idle", "idle", "kept")
HeldForm(steps) == Handler(steps, "tell", "idle", "idle", "held")
PageForm(steps) == Handler(steps, "tell", "idle", "idle", "page")

\* Loads.  fails: what a failed load does (keeps what is shown or empties the
\* list, and tells; hides it; or throws); effect: what the page's own call does
\* with what was thrown; again: when the page offers to load again; picks:
\* something may be chosen, which loads; drops: an answer to an earlier choice
\* is not shown; first: the page loads when it opens.
Loading(fails, effect, again) ==
    [fails |-> fails, effect |-> effect, again |-> again, picks |-> FALSE, drops |-> FALSE,
     first |-> TRUE]
Picking(load) == [load EXCEPT !.picks = TRUE]
Dropping(load) == [load EXCEPT !.drops = TRUE]
OnDemand(load) == [load EXCEPT !.first = FALSE]

\* platform/tenants.
TenantsLoad == Loading("keeps", "none", "never")
TenantsSubmit == Form(<<"busy", "create", "close", "reload">>)
TenantsRemove == BusyRow(<<"confirm", "busy", "pause", "write", "reload">>, "none")
TenantsStatus == BusyRow(<<"confirm", "busy", "write", "reload">>, "none")
TenantsSwitch == Row(<<"post">>, "tell")

\* console/integrations.
IntegrationsLoad == Loading("keeps", "none", "never")
IntegrationsCreate == Form(<<"busy", "create", "close", "reload">>)
IntegrationsUpdate == Form(<<"busy", "write", "close", "reload">>)
IntegrationsToggle == Row(<<"write", "reload">>, "tell")
IntegrationsDelete == Row(<<"confirm", "write", "reload">>, "tell")

\* console/users: the members of a tenant.
MembersLoad == Loading("keeps", "none", "never")
MembersCreate == KeptForm(<<"busy", "create", "close", "reload">>)
MembersToggle == Row(<<"write", "reload">>, "none")
MembersDeleteUnseen == Row(<<"confirm", "write">>, "none")  \* mutant: not listed again
MembersDelete == Row(<<"confirm", "write", "reload">>, "none")
MembersEdit == Form(<<"busy", "write", "close", "refresh">>)
MembersPassword == Form(<<"busy", "post", "close">>)

\* platform/users.
UsersLoad == Loading("keeps", "none", "never")
UsersCreate == KeptForm(<<"busy", "create", "close", "refresh">>)
UsersToggle == Row(<<"write", "refresh">>, "none")
UsersDelete == BusyRow(<<"confirm", "busy", "pause", "write", "refresh">>, "none")
UsersEdit == Form(<<"busy", "write", "close", "refresh">>)
UsersPassword == Form(<<"busy", "post", "close">>)

\* console/knowledge-bases: the search and the page of the list are chosen; the
\* cleanup of the effect keeps only the flag from an answer that is late.
BasesLoad == Picking(Loading("throws", "hides", "any"))
BasesArchive == BusyRow(<<"confirm", "busy", "write", "reload">>, "tell")
BasesRename == HeldForm(<<"busy", "write", "reload", "close">>)
BasesNew == PageForm(<<"busy", "create", "leave">>)

\* console/capability.
KeysLoad == Loading("empties", "none", "never")
KeysCreate == KeptForm(<<"busy", "create", "close", "reload">>)
KeysDelete == Row(<<"confirm", "write", "reload">>, "tell")
KeysTest == Row(<<"post">>, "tell")

\* Pages that only show: the workbench, the overviews, the analyses, the audit.
WorkbenchLoad == Loading("keeps", "none", "idle")
OverviewLoad == Loading("keeps", "none", "idle")
SystemLoad == Loading("keeps", "none", "idle")
EngineLoad == Loading("keeps", "none", "idle")
AnalyticsLoad == Loading("keeps", "none", "any")
AnalysisLoad == Dropping(Loading("empties", "none", "never"))
AuditLoad == Picking(Loading("empties", "none", "any"))
LogLoad == Picking(Loading("empties", "none", "any"))
\* The graph of a knowledge base: try and finally, and nobody awaits it.
GraphLoad == Picking(Loading("hides", "none", "never"))
\* The address of a tenant's WebDAV directory; the one built in until it is known.
AddressLoad == Dropping(Picking(Loading("hides", "none", "never")))
AddressCheck == Row(<<"post">>, "tell")
\* A search, a question: asked by a button that is off meanwhile.
SearchLoad == OnDemand(Loading("empties", "none", "idle"))
SearchFeedback == Button(<<"busy", "post">>, "tell")
QuestionLoad == OnDemand(Loading("keeps", "none", "idle"))

\* platform/database-migrations: a precheck that passed is what a task is made of.
MigrationsLoad == Loading("throws", "hides", "timer")
MigrationsCreate == Form(<<"busy", "create", "close", "reload">>)

\* console/documents.  What toast.promise returns is not the promise: the flag
\* goes off at once and the call, the reload and the message follow.
TasksLoad == Loading("empties", "none", "timer")
TasksAction == Row(<<"busy", "idle", "write", "reload">>, "tell")
TasksAsked == Row(<<"confirm", "busy", "idle", "write", "reload">>, "tell")
TasksBulk == BusyRow(<<"confirm", "busy", "write", "reload">>, "tell")
\* console/documents/import: the nodes of the base that is chosen.
TargetsLoad == OnDemand(Picking(Loading("hides", "none", "never")))
ImportSubmit == PageForm(<<"busy", "create", "leave">>)
ReindexLoad == Loading("hides", "none", "never")
ReindexRun == Button(<<"busy", "post">>, "tell")

\* platform/settings: what is saved is what the form shows.
SettingsLoad == Loading("keeps", "none", "never")
SettingsSave == Button(<<"busy", "post">>, "none")
SettingsTest == Button(<<"busy", "post">>, "tell")

\* site: the knowledge bases of a tenant.
SiteLoad == Loading("throws", "empties", "never")
SiteCreate == HeldForm(<<"busy", "create", "reload", "close">>)
SiteRename == HeldForm(<<"busy", "write", "reload", "close">>)
SiteArchive == BusyRow(<<"confirm", "busy", "write", "reload">>, "tell")

\* The shell round a knowledge base, and its dialogs.
ShellLoad == Picking(Loading("throws", "empties", "never"))
ShellRename == Form(<<"busy", "write", "reload", "close">>)
ShellPermission == Form(<<"busy", "write", "reload", "close">>)
ShellCreate == Form(<<"busy", "create", "reload", "close">>)
ShellDelete == Row(<<"confirm", "write", "reload">>, "tell")

\* A document: its title is changed in place, and what it says about itself is
\* loaded again whenever the tree of the shell round it is.
DocumentLoad == Loading("empties", "none", "timer")
DocumentRename == Button(<<"busy", "write", "reload">>, "none")

\* console/knowledge-tree.
TreeLoad == Picking(Loading("keeps", "none", "any"))
TreeCreate == Form(<<"busy", "create", "close", "refresh">>)
TreeRename == Row(<<"write", "refresh">>, "tell")
TreeSave == Button(<<"busy", "write", "refresh">>, "tell")
TreeDelete == Row(<<"confirm", "write", "refresh">>, "tell")
TreeRebuild == Button(<<"busy", "write", "refresh">>, "refresh")
TreeMove == Row(<<"confirm", "write", "refresh">>, "tell")

Page(load, handlers) == [load |-> load, does |-> handlers]
Pages == [
    tenants |-> Page(TenantsLoad, [submit |-> TenantsSubmit, remove |-> TenantsRemove,
                    status |-> TenantsStatus, switch |-> TenantsSwitch]),
    integrations |-> Page(IntegrationsLoad, [create |-> IntegrationsCreate,
                    update |-> IntegrationsUpdate, toggle |-> IntegrationsToggle,
                    delete |-> IntegrationsDelete]),
    members |-> Page(MembersLoad, [create |-> MembersCreate, toggle |-> MembersToggle,
                    delete |-> MembersDelete, edit |-> MembersEdit, password |-> MembersPassword]),
    users |-> Page(UsersLoad, [create |-> UsersCreate, toggle |-> UsersToggle,
                    delete |-> UsersDelete, edit |-> UsersEdit, password |-> UsersPassword]),
    bases |-> Page(BasesLoad, [archive |-> BasesArchive, rename |-> BasesRename]),
    newBase |-> Page(OnDemand(Loading("hides", "none", "never")), [create |-> BasesNew]),
    keys |-> Page(KeysLoad, [create |-> KeysCreate, delete |-> KeysDelete, test |-> KeysTest]),
    workbench |-> Page(WorkbenchLoad, <<>>),
    overview |-> Page(OverviewLoad, <<>>),
    system |-> Page(SystemLoad, <<>>),
    engine |-> Page(EngineLoad, <<>>),
    analytics |-> Page(AnalyticsLoad, <<>>),
    analysis |-> Page(AnalysisLoad, <<>>),
    audit |-> Page(AuditLoad, <<>>),
    log |-> Page(LogLoad, <<>>),
    graph |-> Page(GraphLoad, <<>>),
    address |-> Page(AddressLoad, [check |-> AddressCheck]),
    search |-> Page(SearchLoad, [feedback |-> SearchFeedback]),
    question |-> Page(QuestionLoad, <<>>),
    migrations |-> Page(MigrationsLoad, [create |-> MigrationsCreate]),
    tasks |-> Page(TasksLoad, [action |-> TasksAction, asked |-> TasksAsked, bulk |-> TasksBulk]),
    import |-> Page(TargetsLoad, [create |-> ImportSubmit]),
    reindex |-> Page(ReindexLoad, [run |-> ReindexRun]),
    settings |-> Page(SettingsLoad, [save |-> SettingsSave, test |-> SettingsTest]),
    site |-> Page(SiteLoad, [create |-> SiteCreate, rename |-> SiteRename,
                    archive |-> SiteArchive]),
    shell |-> Page(ShellLoad, [rename |-> ShellRename, permission |-> ShellPermission,
                    create |-> ShellCreate, delete |-> ShellDelete]),
    document |-> Page(DocumentLoad, [rename |-> DocumentRename]),
    tree |-> Page(TreeLoad, [create |-> TreeCreate, rename |-> TreeRename, save |-> TreeSave,
                    delete |-> TreeDelete, rebuild |-> TreeRebuild, move |-> TreeMove])]

(***************************************************************************)
(* The interpreter.                                                        *)
(***************************************************************************)
Load == Pages[pageName].load
Does == Pages[pageName].does
NoAnswer == [of |-> 0, has |-> 0, any |-> FALSE]
NoListing == [pc |-> "none", for |-> 0, of |-> 0, has |-> 0, dropped |-> FALSE]
NotRunning == [does |-> "none", at |-> 0, waits |-> "none", of |-> 0, from |-> 0]

Going == {c \in Clicks : running[c].waits = "go"}
Unused == {i \in LoadIds : listing[i].pc = "none"}
LoadsUnderWay == {i \in LoadIds : listing[i].pc \in {"asked", "read"}}
Active == {c \in Clicks : running[c].waits \notin {"none", "ended"}}
HandlerOf(c) == Does[running[c].does]
Question == \E c \in Clicks : running[c].waits = "confirm"
\* A form or a question lies over the page.
Covered == Question \/ (form # "none" /\ Does[form].form # "page")
BusyWith(h) == \E c \in busy : running[c].does = h
\* Between two awaits of a handler nothing else runs.
Free == Going = {} /\ navigated # "gone"
\* One load is kept for each handler under way.
Spare == Cardinality(Unused) > Cardinality(Active)
NextUnused == CHOOSE i \in Unused : \A j \in Unused : i <= j

AskedFor(list, who, what) ==
    [list EXCEPT ![NextUnused] = [NoListing EXCEPT !.pc = "asked", !.for = who, !.of = what]]
GoesOn(c) == [running EXCEPT ![c].at = @ + 1, ![c].waits = "go"]
Waits(c, for) == [running EXCEPT ![c].waits = for]
Ended(c) == [running EXCEPT ![c] = [NotRunning EXCEPT !.waits = "ended"]]
FlagAfter(c) == IF HandlerOf(c).finally = "idle" THEN busy \ {c} ELSE busy
\* The catch and the finally of a handler.
Fails(c) ==
    /\ running' = Ended(c) /\ busy' = FlagAfter(c)
    /\ IF HandlerOf(c).catch = "none" THEN hushed' = TRUE /\ UNCHANGED told
       ELSE told' = TRUE /\ UNCHANGED hushed

choice == <<pageName, chosen>>
formVars == <<form, contents, fillings>>
listVars == <<listShown, listing, spinning, overtaken>>
wordVars == <<told, hushed>>
sentVars == <<accepted, twice>>

Press(c, h) ==
    /\ Free /\ Spare
    /\ running[c].waits = "none" /\ \A d \in Clicks : d < c => running[d].waits # "none"
    /\ ~Question
    /\ IF Does[h].form = "none" THEN listShown.any /\ ~Covered ELSE form = h
    /\ Does[h].guard = "idle" => ~BusyWith(h) /\ (Does[h].form = "held" => busy = {})
    /\ running' = [running EXCEPT ![c] =
          [does |-> h, at |-> 1, waits |-> "go", of |-> chosen,
           from |-> IF h \in DOMAIN contents THEN contents[h] ELSE 0]]
    /\ UNCHANGED <<choice, navigated, onServer, listVars, busy, formVars, wordVars, sentVars>>

\* One step of a handler, up to its next await.
Step(c) ==
    /\ c \in Going /\ navigated # "gone"
    /\ UNCHANGED <<choice, onServer, listShown, overtaken, fillings, wordVars, sentVars>>
    /\ LET h == HandlerOf(c)
           step == h.steps[running[c].at]
       IN \/ /\ running[c].at > Len(h.steps)
             /\ running' = Ended(c) /\ busy' = FlagAfter(c)
             /\ UNCHANGED <<navigated, listing, spinning, form, contents>>
          \/ /\ running[c].at <= Len(h.steps)
             /\ step \in {"confirm", "pause", "write", "create", "post"}
             /\ running' = Waits(c, step)
             /\ UNCHANGED <<navigated, busy, listing, spinning, form, contents>>
          \/ /\ running[c].at <= Len(h.steps) /\ step \in {"busy", "idle"}
             /\ busy' = IF step = "busy" THEN busy \union {c} ELSE busy \ {c}
             /\ running' = GoesOn(c)
             /\ UNCHANGED <<navigated, listing, spinning, form, contents>>
          \/ /\ running[c].at <= Len(h.steps) /\ step = "close"
             /\ form' = IF form = running[c].does THEN "none" ELSE form
             /\ contents' = [contents EXCEPT ![running[c].does] = 0]
             /\ running' = GoesOn(c)
             /\ UNCHANGED <<navigated, busy, listing, spinning>>
          \/ /\ running[c].at <= Len(h.steps) /\ step \in {"reload", "refresh"}
             /\ listing' = AskedFor(listing, IF step = "reload" THEN c ELSE 0, running[c].of)
             /\ spinning' = TRUE
             /\ running' = IF step = "reload" THEN Waits(c, "list") ELSE GoesOn(c)
             /\ UNCHANGED <<navigated, busy, form, contents>>
          \/ /\ running[c].at <= Len(h.steps) /\ step = "leave"
             /\ navigated' = "leaving"
             /\ running' = GoesOn(c)
             /\ UNCHANGED <<busy, listing, spinning, form, contents>>

\* The question is answered, the timer fires.
Answer(c) ==
    /\ Free /\ running[c].waits = "confirm"
    /\ running' \in {GoesOn(c), Ended(c)}
    /\ UNCHANGED <<choice, navigated, onServer, listVars, busy, formVars, wordVars, sentVars>>
Fire(c) ==
    /\ Free /\ running[c].waits = "pause"
    /\ running' = GoesOn(c)
    /\ UNCHANGED <<choice, navigated, onServer, listVars, busy, formVars, wordVars, sentVars>>

\* The server makes the change; its answer arrives, or is lost; or it refuses.
Apply(c) ==
    /\ Free /\ running[c].waits \in {"write", "create"}
    /\ running' = Waits(c, "made")
    /\ onServer' = onServer + 1
    /\ UNCHANGED <<choice, navigated, listVars, busy, formVars, wordVars, sentVars>>
Succeed(c) ==
    /\ Free /\ running[c].waits \in {"made", "post"}
    /\ running' = GoesOn(c)
    /\ IF HandlerOf(c).steps[running[c].at] = "create"
       THEN /\ accepted' = accepted \union {running[c].from}
            /\ twice' = (twice \/ running[c].from \in accepted)
       ELSE UNCHANGED sentVars
    /\ UNCHANGED <<choice, navigated, onServer, listVars, busy, formVars, wordVars>>
Refuse(c) ==
    /\ Free /\ running[c].waits \in {"write", "create", "post", "made"}
    /\ Fails(c)
    /\ IF HandlerOf(c).catch = "refresh"
       THEN listing' = AskedFor(listing, 0, running[c].of) /\ spinning' = TRUE
       ELSE UNCHANGED <<listing, spinning>>
    /\ UNCHANGED <<choice, navigated, onServer, listShown, overtaken, formVars, sentVars>>

\* The load function of a page.
ReadList(i) ==
    /\ Free /\ listing[i].pc = "asked"
    /\ listing' = [listing EXCEPT ![i].pc = "read", ![i].has = onServer]
    /\ UNCHANGED <<choice, navigated, onServer, running, listShown, spinning, overtaken,
                   busy, formVars, wordVars,
                   sentVars>>
LandList(i) ==
    /\ Free /\ listing[i].pc = "read"
    /\ listing' = [listing EXCEPT ![i] = [NoListing EXCEPT !.pc = "done"]]
    /\ IF listing[i].dropped THEN UNCHANGED <<listShown, spinning, overtaken, told>>
       ELSE /\ listShown' = [of |-> listing[i].of, has |-> listing[i].has, any |-> TRUE]
            /\ spinning' = FALSE
            /\ overtaken' = (overtaken \/ listing[i].of # chosen
                                       \/ (listShown.any /\ listing[i].has < listShown.has))
            /\ told' = (told /\ (listing[i].of # chosen \/ listing[i].has # onServer))
    /\ IF listing[i].for # 0 THEN running' = GoesOn(listing[i].for) ELSE UNCHANGED running
    /\ UNCHANGED <<choice, navigated, onServer, busy, formVars, hushed, sentVars>>
MissList(i) ==
    /\ Free /\ i \in LoadsUnderWay
    /\ listing' = [listing EXCEPT ![i] = [NoListing EXCEPT !.pc = "done"]]
    /\ spinning' = (listing[i].dropped /\ spinning)
    /\ LET c == listing[i].for
           end == IF Load.fails = "throws" /\ c = 0 THEN Load.effect ELSE Load.fails
       IN \/ listing[i].dropped /\ UNCHANGED <<running, busy, listShown, wordVars>>
          \/ ~listing[i].dropped /\ end = "throws" /\ Fails(c) /\ UNCHANGED listShown
          \/ /\ ~listing[i].dropped /\ end # "throws"
             /\ listShown' = IF end = "empties" THEN NoAnswer ELSE listShown
             /\ IF end = "hides" THEN hushed' = TRUE /\ UNCHANGED told
                ELSE told' = TRUE /\ UNCHANGED hushed
             /\ IF c # 0 THEN running' = GoesOn(c) ELSE UNCHANGED running
             /\ UNCHANGED busy
    /\ UNCHANGED <<choice, navigated, onServer, overtaken, formVars, sentVars>>

\* Another choice, which loads; the refresh button, a page of the list, a timer.
ChoicesLeft == IF Load.first THEN MaxChoices ELSE MaxChoices + 1
Choose ==
    /\ Free /\ navigated = "here" /\ ~Covered
    /\ Load.picks /\ chosen < ChoicesLeft /\ Spare
    /\ chosen' = chosen + 1
    /\ LET late == IF Load.drops THEN LoadsUnderWay ELSE {}
       IN listing' = AskedFor([i \in LoadIds |->
                                  [listing[i] EXCEPT !.dropped = @ \/ i \in late]], 0, chosen')
    /\ listShown' = IF Load.drops THEN NoAnswer ELSE listShown
    /\ spinning' = TRUE
    /\ UNCHANGED <<pageName, navigated, onServer, running, overtaken, busy, formVars,
                   wordVars, sentVars>>
Again ==
    /\ Free /\ navigated = "here" /\ Spare
    /\ \/ Load.again = "timer" \/ (Load.again = "any" /\ ~Covered)
       \/ Load.again = "idle" /\ ~spinning /\ ~Covered
    /\ listing' = AskedFor(listing, 0, chosen)
    /\ spinning' = TRUE
    /\ UNCHANGED <<choice, navigated, onServer, running, listShown, overtaken, busy,
                   formVars, wordVars, sentVars>>

\* FormModal: opened by a button; closed by Escape, its cross or its backdrop.
Open(h) ==
    /\ Free /\ navigated = "here" /\ ~Covered
    /\ Does[h].form \in {"emptied", "kept", "held"} /\ fillings < MaxFillings
    /\ form' = h
    /\ IF contents[h] = 0
       THEN fillings' = fillings + 1 /\ contents' = [contents EXCEPT ![h] = fillings']
       ELSE UNCHANGED <<fillings, contents>>
    /\ UNCHANGED <<choice, navigated, onServer, running, listVars, busy, wordVars, sentVars>>
Escape ==
    /\ Free /\ ~Question /\ form # "none"
    /\ Does[form].form \in {"emptied", "kept"} \/ (Does[form].form = "held" /\ busy = {})
    /\ form' = "none"
    /\ contents' = IF Does[form].form = "kept" THEN contents ELSE [contents EXCEPT ![form] = 0]
    /\ UNCHANGED <<choice, navigated, onServer, running, listVars, busy, fillings, wordVars,
                   sentVars>>
\* The other page has been fetched.
Leave ==
    /\ Free /\ navigated = "leaving"
    /\ navigated' = "gone"
    /\ UNCHANGED <<choice, onServer, running, listVars, busy, formVars, wordVars, sentVars>>

ConsoleInit ==
    /\ pageName \in DOMAIN Pages
    /\ navigated = "here" /\ onServer = 0 /\ chosen = 0
    /\ listShown = NoAnswer
    /\ listing = [i \in LoadIds |-> IF Load.first /\ i = 1 THEN [NoListing EXCEPT !.pc = "asked"]
                                    ELSE NoListing]
    /\ spinning = Load.first
    /\ running = [c \in Clicks |-> NotRunning]
    /\ busy = {}
    /\ LET own == {h \in DOMAIN Does : Does[h].form = "page"}
       IN /\ form = IF own = {} THEN "none" ELSE CHOOSE h \in own : TRUE
          /\ contents = [h \in {g \in DOMAIN Does : Does[g].form # "none"} |->
                            IF h \in own THEN 1 ELSE 0]
    /\ fillings = IF form = "none" THEN 0 ELSE 1
    /\ accepted = {} /\ told = FALSE /\ hushed = FALSE /\ overtaken = FALSE /\ twice = FALSE

ConsoleNext ==
    \/ \E c \in Clicks : \/ \E h \in DOMAIN Does : Press(c, h)
                         \/ Step(c) \/ Answer(c) \/ Fire(c) \/ Apply(c) \/ Succeed(c) \/ Refuse(c)
    \/ \E i \in LoadIds : ReadList(i) \/ LandList(i) \/ MissList(i)
    \/ \E h \in DOMAIN contents : Open(h)
    \/ Choose \/ Again \/ Escape \/ Leave

ConsoleSpec == ConsoleInit /\ [][ConsoleNext]_consoleVars

(***************************************************************************)
(* Properties.                                                             *)
(***************************************************************************)
ConsoleTypeOK ==
    /\ pageName \in DOMAIN Pages /\ navigated \in {"here", "leaving", "gone"}
    /\ onServer \in 0..Cardinality(Clicks) /\ chosen \in 0..ChoicesLeft
    /\ fillings \in 0..MaxFillings
    /\ busy \subseteq Clicks /\ form \in DOMAIN contents \union {"none"}
    /\ {spinning, told, hushed, overtaken, twice} \subseteq BOOLEAN
    /\ \A i \in LoadIds : listing[i].has <= onServer

Quiet == Active = {} /\ LoadsUnderWay = {} /\ navigated = "here"
\* Once nothing is under way no flag is left on, and the page shows what is
\* chosen as the server has it, or has told that something failed, or nothing
\* was asked yet.
Settled == Quiet => busy = {} /\ ~spinning
Current ==
    Quiet => \/ listShown.any /\ listShown.of = chosen /\ listShown.has = onServer
             \/ told \/ hushed \/ overtaken
             \/ LoadsUnderWay = {} /\ Cardinality(Unused) = Cardinality(LoadIds)
\* Who fails in silence, who may show the answer to an earlier question, and
\* who may send the same form twice: only the pages that are known to.
Hushes == {"tenants", "members", "users", "bases", "graph", "address", "migrations", "import",
           "reindex", "settings", "document"}
ShowsLate == {"tenants", "integrations", "members", "users", "bases", "keys", "audit", "log",
              "graph", "tasks", "import", "site", "shell", "tree", "migrations",
              "document"}
SendsTwice == {"import", "newBase", "site", "shell"}
Known ==
    /\ hushed => pageName \in Hushes
    /\ overtaken => pageName \in ShowsLate
    /\ twice => pageName \in SendsTwice
ConsoleHolds == Settled /\ Current /\ Known
=============================================================================
