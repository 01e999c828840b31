--------------------------- MODULE LanguageServer ---------------------------
(***************************************************************************)
(* The state of ic10-lsp under concurrently handled notifications: the     *)
(* open documents, the analysis options, the index of simulation scenarios *)
(* that use a program, and the context a user selected.                    *)
(*                                                                         *)
(* A handler gives way to the others only while it waits for a message to  *)
(* the client to be written: no lock is held across such a wait, and the   *)
(* handlers share one task, so what a handler does between two waits is    *)
(* one step.  Messages arrive in order and start their handler in order;   *)
(* at most one handler per slot is under way.                              *)
(*                                                                         *)
(* A text is the number of the edit that made it, 0 for none.  What the    *)
(* diagnostics published for a document depend on is kept with it: text,   *)
(* options and context.                                                    *)
(***************************************************************************)
EXTENDS Naturals, FiniteSets

CONSTANTS
    Uris,         \* programs
    Scenarios,    \* scenario files
    Ics,          \* stable ids of IC housings
    Contents,     \* contents of a valid scenario: the program of each housing
    Levels,       \* values of ic10.diagnostics.unused
    Slots,        \* handlers that may be under way at once
    NoProgram,    \* a housing without a program
    NoContext,    \* no environment is active
    NoChoice,     \* no context is selected
    NoLevel,      \* the options of a document that is not open
    MaxEdits,     \* bound: texts sent
    MaxVersion    \* bound: scenario changes sent

ASSUME ServerAssumption ==
    /\ NoProgram \notin Uris
    /\ Contents \subseteq [Ics -> Uris \cup {NoProgram}]
    /\ MaxEdits \in Nat /\ MaxVersion \in Nat
    /\ NoContext \notin [scenario : Scenarios, ic : Ics, version : Nat]
    /\ NoChoice \notin [scenario : Scenarios, ic : Ics]
    /\ NoLevel \notin Levels

VARIABLES
    text,         \* the text last received for each document, 0 when closed
    edits,        \* texts received so far
    version,      \* scenario changes received so far
    documents,    \* Backend::documents, with what their diagnostics rest on
    options,      \* Backend::analysis_options
    scenarios,    \* ScenarioIndex::scenarios: version and program of each housing
    programs,     \* ScenarioIndex::programs: the contexts of each program
    selections,   \* Backend::context_selections
    status,       \* the context status last sent for each program
    tasks,        \* the handlers under way
    raced         \* history: the document changed while a refresh held a copy

vars == <<text, edits, version, documents, options, scenarios, programs,
          selections, status, tasks, raced>>

Context == [scenario : Scenarios, ic : Ics, version : 1 .. MaxVersion]
Choice == [scenario : Scenarios, ic : Ics]

\* Scenario not in the index.
Unindexed == [version |-> 0, programs |-> [i \in Ics |-> NoProgram]]

\* Document not open.
Absent == [text |-> 0, options |-> NoLevel, context |-> NoContext]

\* A handler: waiting after its diagnostics ("report"), before the next
\* document of its refresh ("next"), or before its refresh ("log").
Idle == [stage |-> "idle", uri |-> NoProgram, rest |-> {}]
Task(stage, u, rest) == [stage |-> stage, uri |-> u, rest |-> rest]
Copy(u, x) == [uri |-> u, text |-> x]

-----------------------------------------------------------------------------
(* Contexts.                                                               *)

\* active_context: the only context, or the selected one of several.
ActiveOf(contexts, choice) ==
    IF Cardinality(contexts) = 1 THEN CHOOSE c \in contexts : TRUE
    ELSE IF choice # NoChoice
            /\ \E c \in contexts : c.scenario = choice.scenario /\ c.ic = choice.ic
         THEN CHOOSE c \in contexts : c.scenario = choice.scenario /\ c.ic = choice.ic
    ELSE NoContext

StatusOf(contexts, choice) ==
    [contexts  |-> contexts,
     active    |-> ActiveOf(contexts, choice),
     ambiguous |-> Cardinality(contexts) > 1 /\ ActiveOf(contexts, choice) = NoContext]

NoStatus == [contexts |-> {}, active |-> NoContext, ambiguous |-> FALSE]

\* build_contexts.
ContextsOf(s, v, content, u) ==
    {[scenario |-> s, ic |-> i, version |-> v] : i \in {j \in Ics : content[j] = u}}

\* ScenarioIndex::remove: the old contexts leave the programs they were under.
\* Mutant: the contexts of the scenario stay under its programs.
ProgramsWithout_Kept(s) == programs

ProgramsWithout(s) ==
    [u \in Uris |->
        {c \in programs[u] :
            ~ \E i \in Ics : /\ scenarios[s].programs[i] = u
                             /\ c.scenario = s /\ c.ic = i}]

\* ScenarioIndex::update: a version not newer than the indexed one is ignored.
Update(s, v, content) ==
    IF scenarios[s].version >= v THEN UNCHANGED <<scenarios, programs>>
    ELSE /\ scenarios' = [scenarios EXCEPT ![s] = [version |-> v, programs |-> content]]
         /\ programs' = [u \in Uris |-> ProgramsWithout(s)[u] \cup ContextsOf(s, v, content, u)]

Remove(s) ==
    /\ scenarios' = [scenarios EXCEPT ![s] = Unindexed]
    /\ programs' = ProgramsWithout(s)

-----------------------------------------------------------------------------
(* update_document and refresh_open_documents, up to their first wait.     *)

Free(t) == tasks[t].stage = "idle"

\* The document as analysed now: options, contexts and selections as they are
\* after the step.
Analysed(u, x) ==
    [text |-> x, options |-> options', context |-> ActiveOf(programs'[u], selections'[u])]

UpdateDocument(t, u, x, rest) ==
    /\ documents' = [documents EXCEPT ![u] = Analysed(u, x)]
    /\ tasks' = [tasks EXCEPT ![t] = Task("report", u, rest)]

OpenDocuments == {Copy(u, documents[u].text) : u \in {v \in Uris : documents[v].text # 0}}

\* The text of every document is copied; the copies are analysed one by one.
\* Mutant: only the first document is refreshed.
Refresh_FirstOnly(t) ==
    \/ OpenDocuments = {} /\ tasks' = [tasks EXCEPT ![t] = Idle] /\ UNCHANGED documents
    \/ \E x \in OpenDocuments : UpdateDocument(t, x.uri, x.text, {})

Refresh(t) ==
    \/ OpenDocuments = {} /\ tasks' = [tasks EXCEPT ![t] = Idle] /\ UNCHANGED documents
    \/ \E x \in OpenDocuments : UpdateDocument(t, x.uri, x.text, OpenDocuments \ {x})

\* A refresh under way still holds a copy of the document.
CopyHeld(u) == \E t \in Slots : \E x \in tasks[t].rest : x.uri = u

-----------------------------------------------------------------------------
(* Notifications.                                                          *)

Init ==
    /\ text = [u \in Uris |-> 0]
    /\ edits = 0
    /\ version = 0
    /\ documents = [u \in Uris |-> Absent]
    /\ options \in Levels
    /\ scenarios = [s \in Scenarios |-> Unindexed]
    /\ programs = [u \in Uris |-> {}]
    /\ selections = [u \in Uris |-> NoChoice]
    /\ status = [u \in Uris |-> NoStatus]
    /\ tasks = [t \in Slots |-> Idle]
    /\ raced = [u \in Uris |-> FALSE]

\* did_open and did_change: the whole text is sent.
Edit(t, u) ==
    /\ Free(t) /\ edits < MaxEdits
    /\ edits' = edits + 1
    /\ text' = [text EXCEPT ![u] = edits']
    /\ raced' = [raced EXCEPT ![u] = CopyHeld(u)]
    /\ UNCHANGED <<version, options, scenarios, programs, selections, status>>
    /\ UpdateDocument(t, u, edits', {})

\* Mutant: the diagnostics are cleared but the document stays.
Close_Kept(t, u) ==
    /\ Free(t) /\ text[u] # 0
    /\ text' = [text EXCEPT ![u] = 0]
    /\ raced' = [raced EXCEPT ![u] = CopyHeld(u)]
    /\ UNCHANGED <<edits, version, documents, options, scenarios, programs, selections, status,
                   tasks>>

\* did_close: the document is removed and its diagnostics cleared.
Close(t, u) ==
    /\ Free(t) /\ text[u] # 0
    /\ text' = [text EXCEPT ![u] = 0]
    /\ documents' = [documents EXCEPT ![u] = Absent]
    /\ raced' = [raced EXCEPT ![u] = CopyHeld(u)]
    /\ UNCHANGED <<edits, version, options, scenarios, programs, selections, status, tasks>>

\* did_change_configuration.
ChangeConfiguration(t, level) ==
    /\ Free(t)
    /\ options' = level
    /\ UNCHANGED <<text, edits, version, scenarios, programs, selections, status, raced>>
    /\ Refresh(t)

\* scenario_changed with a scenario that parses.
ScenarioChanged(t, s, content) ==
    /\ Free(t) /\ version < MaxVersion
    /\ version' = version + 1
    /\ Update(s, version', content)
    /\ UNCHANGED <<text, edits, options, selections, status, raced>>
    /\ Refresh(t)

\* scenario_changed without a source: the file was deleted.
ScenarioDeleted(t, s) ==
    /\ Free(t) /\ version < MaxVersion
    /\ version' = version + 1
    /\ Remove(s)
    /\ UNCHANGED <<text, edits, options, selections, status, raced>>
    /\ Refresh(t)

\* scenario_changed with a source that does not parse: a message is logged,
\* and awaited, before the refresh.
ScenarioInvalid(t, s) ==
    /\ Free(t) /\ version < MaxVersion
    /\ version' = version + 1
    /\ Remove(s)
    /\ tasks' = [tasks EXCEPT ![t] = Task("log", NoProgram, {})]
    /\ UNCHANGED <<text, edits, documents, options, selections, status, raced>>

Logged(t) ==
    /\ tasks[t].stage = "log"
    /\ UNCHANGED <<text, edits, version, options, scenarios, programs, selections, status, raced>>
    /\ Refresh(t)

\* select_context: a context, or none.
SelectContext(t, u, choice) ==
    /\ Free(t)
    /\ selections' = [selections EXCEPT ![u] = choice]
    /\ UNCHANGED <<text, edits, version, options, scenarios, programs, status, raced>>
    /\ IF documents[u].text # 0 THEN UpdateDocument(t, u, documents[u].text, {})
       ELSE UNCHANGED <<documents, tasks>>

-----------------------------------------------------------------------------
(* The rest of update_document, and the next document of a refresh.        *)

\* The budget and the context status are sent; the status is read now.
Report(t) ==
    /\ tasks[t].stage = "report"
    /\ LET u == tasks[t].uri
       IN  status' = [status EXCEPT ![u] = StatusOf(programs[u], selections[u])]
    /\ tasks' = [tasks EXCEPT ![t] =
                    IF tasks[t].rest = {} THEN Idle ELSE Task("next", NoProgram, tasks[t].rest)]
    /\ UNCHANGED <<text, edits, version, documents, options, scenarios, programs, selections, raced>>

\* Mutant: the copy is analysed and kept.
RefreshNext_Kept(t) ==
    /\ tasks[t].stage = "next"
    /\ UNCHANGED <<text, edits, version, options, scenarios, programs, selections, status, raced>>
    /\ \E x \in tasks[t].rest : UpdateDocument(t, x.uri, x.text, tasks[t].rest)

\* The copy is analysed, whatever became of the document since.
RefreshNext(t) ==
    /\ tasks[t].stage = "next"
    /\ UNCHANGED <<text, edits, version, options, scenarios, programs, selections, status, raced>>
    /\ \E x \in tasks[t].rest : UpdateDocument(t, x.uri, x.text, tasks[t].rest \ {x})

Continue(t) == Logged(t) \/ Report(t) \/ RefreshNext(t)

Next ==
    \/ \E t \in Slots, u \in Uris : Edit(t, u)
    \/ \E t \in Slots, u \in Uris : Close(t, u)
    \/ \E t \in Slots, level \in Levels : ChangeConfiguration(t, level)
    \/ \E t \in Slots, s \in Scenarios, c \in Contents : ScenarioChanged(t, s, c)
    \/ \E t \in Slots, s \in Scenarios : ScenarioDeleted(t, s)
    \/ \E t \in Slots, s \in Scenarios : ScenarioInvalid(t, s)
    \/ \E t \in Slots, u \in Uris, c \in Choice \cup {NoChoice} : SelectContext(t, u, c)
    \/ \E t \in Slots : Continue(t)

Spec == Init /\ [][Next]_vars

\* Every handler under way is resumed: the client reads what it is sent.
FairSpec == Spec /\ \A t \in Slots : WF_vars(Continue(t))

-----------------------------------------------------------------------------
(* Properties.                                                             *)

TypeOK ==
    /\ text \in [Uris -> 0 .. MaxEdits]
    /\ edits \in 0 .. MaxEdits
    /\ version \in 0 .. MaxVersion
    /\ documents \in [Uris -> [text : 0 .. MaxEdits, options : Levels \cup {NoLevel},
                               context : Context \cup {NoContext}]]
    /\ options \in Levels
    /\ scenarios \in [Scenarios -> [version : 0 .. MaxVersion,
                                    programs : [Ics -> Uris \cup {NoProgram}]]]
    /\ programs \in [Uris -> SUBSET Context]
    /\ selections \in [Uris -> Choice \cup {NoChoice}]
    /\ status \in [Uris -> [contexts : SUBSET Context, active : Context \cup {NoContext},
                            ambiguous : BOOLEAN]]
    /\ tasks \in [Slots -> [stage : {"idle", "log", "report", "next"}, uri : Uris \cup {NoProgram},
                            rest : SUBSET [uri : Uris, text : 1 .. MaxEdits]]]
    /\ \A t \in Slots : tasks[t].stage = "report" => tasks[t].uri \in Uris
    /\ raced \in [Uris -> BOOLEAN]

(***************************************************************************)
(* The two maps of the index agree: a program has exactly the contexts of  *)
(* the housings that run it in the scenarios now indexed, with their       *)
(* versions (ScenarioIndex::update and remove).                            *)
(***************************************************************************)
IndexAgrees ==
    \A u \in Uris :
        programs[u] = {c \in Context : /\ scenarios[c.scenario].programs[c.ic] = u
                                      /\ scenarios[c.scenario].version = c.version}

Quiet == \A t \in Slots : tasks[t].stage = "idle"

(***************************************************************************)
(* Once no handler is under way, what is shown for a document was found    *)
(* with the options, the scenarios and the selection in force, and the     *)
(* status bar names its contexts: "stale context results disappear without *)
(* a server restart" (docs/architecture.md), however notifications cross.  *)
(***************************************************************************)
ContextIsCurrent(u) ==
    /\ documents[u].options = options
    /\ documents[u].context = ActiveOf(programs[u], selections[u])

SettledContext == Quiet => \A u \in Uris : documents[u].text # 0 => ContextIsCurrent(u)

SettledStatus ==
    Quiet => \A u \in Uris : documents[u].text # 0 =>
                 status[u] = StatusOf(programs[u], selections[u])

\* Both of what the user sees of a context: the diagnostics and the status bar.
SettledView == SettledContext /\ SettledStatus

(***************************************************************************)
(* Once no handler is under way, the server holds the text last received,  *)
(* unless the document changed while a refresh held a copy of it.          *)
(***************************************************************************)
SettledTextUnlessRaced == Quiet => \A u \in Uris : ~ raced[u] => documents[u].text = text[u]

\* A handler that has begun ends: the server comes to rest between two
\* notifications of the user.
EveryHandlerEnds == \A t \in Slots : [](tasks[t].stage # "idle" => <>(tasks[t].stage = "idle"))
=============================================================================
