------------------------ MODULE LanguageServerProofs ------------------------
(***************************************************************************)
(* What the language server holds and shows once it comes to rest, proved  *)
(* for any number of programs, scenarios, housings and handlers.           *)
(***************************************************************************)
EXTENDS LanguageServer, FiniteSetTheorems, TLAPS

-----------------------------------------------------------------------------
(* The inductive invariant.  While handlers are under way, what is not yet *)
(* true of a document is promised by a handler that will still reach it.   *)

\* A handler that has nothing to refresh holds no copies.
TaskShape == \A t \in Slots : tasks[t].stage \in {"idle", "log"} => tasks[t].rest = {}

\* A handler will still analyse the document.
Pending(u) == \E t \in Slots : tasks[t].stage = "log" \/ \E x \in tasks[t].rest : x.uri = u

\* A handler will still send the status of the document.
Reporting(u) == \E t \in Slots : tasks[t].stage = "report" /\ tasks[t].uri = u

ContextPromised == \A u \in Uris : documents[u].text # 0 => ContextIsCurrent(u) \/ Pending(u)

StatusPromised ==
    \A u \in Uris : documents[u].text # 0 =>
        status[u] = StatusOf(programs[u], selections[u]) \/ Pending(u) \/ Reporting(u)

\* The document, and every copy of it, has the text last received.
TextPromised ==
    \A u \in Uris : ~ raced[u] =>
        /\ documents[u].text = text[u]
        /\ \A t \in Slots : \A x \in tasks[t].rest : x.uri = u => x.text = text[u]

Inv == TypeOK /\ IndexAgrees /\ TaskShape /\ ContextPromised /\ StatusPromised /\ TextPromised

-----------------------------------------------------------------------------
(* Contexts.                                                               *)

\* active_context yields one of the contexts it was given, or none.
LEMMA ActiveIsContext ==
    ASSUME NEW contexts \in SUBSET Context, NEW choice
    PROVE  ActiveOf(contexts, choice) \in Context \cup {NoContext}
<1>1. CASE Cardinality(contexts) = 1
    <2>1. contexts # {}
        BY <1>1, FS_EmptySet
    <2> QED
        BY <1>1, <2>1 DEF ActiveOf
<1>2. CASE Cardinality(contexts) # 1
    BY <1>2 DEF ActiveOf
<1> QED
    BY <1>1, <1>2

\* publish_context_status sends a status of the right type.
LEMMA StatusType ==
    ASSUME NEW contexts \in SUBSET Context, NEW choice
    PROVE  StatusOf(contexts, choice) \in [contexts : SUBSET Context, active : Context \cup {NoContext},
                                           ambiguous : BOOLEAN]
BY ActiveIsContext DEF StatusOf


\* What ScenarioIndex::remove leaves under a program: the contexts of the
\* other scenarios.
LEMMA WithoutScenario ==
    ASSUME TypeOK, IndexAgrees, NEW s \in Scenarios, NEW u \in Uris
    PROVE  ProgramsWithout(s)[u] = {c \in programs[u] : c.scenario # s}
<1>1. \A c \in programs[u] : c \in Context /\ scenarios[c.scenario].programs[c.ic] = u
    BY DEF IndexAgrees
<1>2. \A c \in Context : c.ic \in Ics
    BY DEF Context
<1> QED
    BY <1>1, <1>2 DEF ProgramsWithout

\* ScenarioIndex::remove keeps the two maps of the index in agreement.
LEMMA RemoveAgrees ==
    ASSUME ServerAssumption, TypeOK, IndexAgrees, NEW s \in Scenarios, Remove(s)
    PROVE  IndexAgrees'
<1> SUFFICES ASSUME NEW u \in Uris, NEW c
             PROVE  c \in programs'[u] <=>
                       /\ c \in Context
                       /\ scenarios'[c.scenario].programs[c.ic] = u
                       /\ scenarios'[c.scenario].version = c.version
    BY DEF IndexAgrees
<1>1. c \in programs'[u] <=> c \in programs[u] /\ c.scenario # s
    BY WithoutScenario DEF Remove
<1>2. c \in programs[u] <=> /\ c \in Context
                           /\ scenarios[c.scenario].programs[c.ic] = u
                           /\ scenarios[c.scenario].version = c.version
    BY DEF IndexAgrees
<1>3. c \in Context => c.scenario \in Scenarios /\ c.ic \in Ics /\ c.version # 0
    BY DEF Context
<1>4. scenarios'[s].version = 0
    BY DEF Remove, TypeOK, Unindexed
<1>5. \A r \in Scenarios \ {s} : scenarios'[r] = scenarios[r]
    BY DEF Remove, TypeOK
<1> QED
    BY <1>1, <1>2, <1>3, <1>4, <1>5

\* So does ScenarioIndex::update.
LEMMA UpdateAgrees ==
    ASSUME TypeOK, IndexAgrees, NEW s \in Scenarios, NEW content \in Contents,
           version' \in 1 .. MaxVersion, Update(s, version', content)
    PROVE  IndexAgrees'
<1>1. CASE scenarios[s].version >= version'
    BY <1>1 DEF Update, IndexAgrees
<1>2. CASE ~ (scenarios[s].version >= version')
    <2> SUFFICES ASSUME NEW u \in Uris, NEW c
                 PROVE  c \in programs'[u] <=>
                           /\ c \in Context
                           /\ scenarios'[c.scenario].programs[c.ic] = u
                           /\ scenarios'[c.scenario].version = c.version
        BY DEF IndexAgrees
    <2>1. c \in programs'[u] <=>
              (c \in programs[u] /\ c.scenario # s) \/ c \in ContextsOf(s, version', content, u)
        BY <1>2, WithoutScenario DEF Update
    <2>2. c \in programs[u] <=> /\ c \in Context
                               /\ scenarios[c.scenario].programs[c.ic] = u
                               /\ scenarios[c.scenario].version = c.version
        BY DEF IndexAgrees
    <2>3. c \in ContextsOf(s, version', content, u) <=>
              c \in Context /\ c.scenario = s /\ content[c.ic] = u /\ c.version = version'
        BY DEF ContextsOf, Context
    <2>4. c \in Context => c.scenario \in Scenarios
        BY DEF Context
    <2>5. scenarios'[s].version = version' /\ scenarios'[s].programs = content
        BY <1>2 DEF Update, TypeOK
    <2>6. \A r \in Scenarios \ {s} : scenarios'[r] = scenarios[r]
        BY <1>2 DEF Update, TypeOK
    <2> QED
        BY <2>1, <2>2, <2>3, <2>4, <2>5, <2>6
<1> QED
    BY <1>1, <1>2

-----------------------------------------------------------------------------
(* Types.                                                                  *)

CopyType == [uri : Uris, text : 1 .. MaxEdits]
TaskType == [stage : {"idle", "log", "report", "next"}, uri : Uris \cup {NoProgram},
             rest : SUBSET CopyType]
DocumentType == [text : 0 .. MaxEdits, options : Levels \cup {NoLevel},
                 context : Context \cup {NoContext}]
TasksTyped == /\ tasks \in [Slots -> TaskType]
              /\ \A t \in Slots : tasks[t].stage = "report" => tasks[t].uri \in Uris
IndexTyped == /\ scenarios \in [Scenarios -> [version : 0 .. MaxVersion,
                                              programs : [Ics -> Uris \cup {NoProgram}]]]
              /\ programs \in [Uris -> SUBSET Context]

\* The steps of update_document up to its first wait keep the types.
LEMMA UpdateDocumentType ==
    ASSUME TypeOK, NEW t \in Slots, NEW u \in Uris, NEW x \in 1 .. MaxEdits,
           NEW rest \in SUBSET CopyType,
           options' \in Levels, programs' \in [Uris -> SUBSET Context],
           UpdateDocument(t, u, x, rest)
    PROVE  documents' \in [Uris -> DocumentType] /\ TasksTyped'
<1>1. ActiveOf(programs'[u], selections'[u]) \in Context \cup {NoContext}
    BY ActiveIsContext
<1>2. Analysed(u, x) \in DocumentType
    BY <1>1, ServerAssumption DEF Analysed, DocumentType
<1>3. documents' \in [Uris -> DocumentType]
    BY <1>2 DEF UpdateDocument, TypeOK, DocumentType
<1>4. Task("report", u, rest) \in TaskType
    BY DEF Task, TaskType
<1>5. tasks \in [Slots -> TaskType] /\ tasks' = [tasks EXCEPT ![t] = Task("report", u, rest)]
    BY DEF TypeOK, UpdateDocument, TaskType, CopyType
<1>6. \A r \in Slots : tasks'[r] = IF r = t THEN Task("report", u, rest) ELSE tasks[r]
    BY <1>5
<1>7. TasksTyped'
    BY <1>4, <1>5, <1>6 DEF TasksTyped, TypeOK, Task
<1> QED
    BY <1>3, <1>7

\* What refresh_open_documents copies.
LEMMA CopiesTyped ==
    ASSUME TypeOK
    PROVE  OpenDocuments \in SUBSET CopyType
BY ServerAssumption DEF OpenDocuments, Copy, CopyType, TypeOK

LEMMA RefreshType ==
    ASSUME TypeOK, NEW t \in Slots, options' \in Levels, programs' \in [Uris -> SUBSET Context],
           Refresh(t)
    PROVE  documents' \in [Uris -> DocumentType] /\ TasksTyped'
<1>1. CASE tasks' = [tasks EXCEPT ![t] = Idle] /\ UNCHANGED documents
    <2>1. \A r \in Slots : tasks'[r] = IF r = t THEN Idle ELSE tasks[r]
        BY <1>1 DEF TypeOK
    <2>2. Idle \in TaskType /\ Idle.stage = "idle"
        BY DEF Idle, TaskType
    <2> QED
        BY <1>1, <2>1, <2>2 DEF TasksTyped, TypeOK, TaskType, CopyType, DocumentType
<1>2. ASSUME NEW x \in OpenDocuments, UpdateDocument(t, x.uri, x.text, OpenDocuments \ {x})
      PROVE  documents' \in [Uris -> DocumentType] /\ TasksTyped'
    <2>1. x.uri \in Uris /\ x.text \in 1 .. MaxEdits /\ OpenDocuments \ {x} \in SUBSET CopyType
        BY CopiesTyped DEF CopyType
    <2> QED
        BY <1>2, <2>1, UpdateDocumentType
<1> QED
    BY <1>1, <1>2 DEF Refresh

\* ScenarioIndex::update and remove keep the types.
LEMMA RemoveType ==
    ASSUME TypeOK, NEW s \in Scenarios, Remove(s)
    PROVE  IndexTyped'
<1>1. Unindexed \in [version : 0 .. MaxVersion, programs : [Ics -> Uris \cup {NoProgram}]]
    BY ServerAssumption DEF Unindexed
<1>2. ProgramsWithout(s) \in [Uris -> SUBSET Context]
    BY DEF ProgramsWithout, TypeOK
<1> QED
    BY <1>1, <1>2 DEF Remove, IndexTyped, TypeOK

LEMMA UpdateType ==
    ASSUME TypeOK, NEW s \in Scenarios, NEW content \in Contents,
           version' \in 1 .. MaxVersion, Update(s, version', content)
    PROVE  IndexTyped'
<1>1. CASE scenarios[s].version >= version'
    BY <1>1 DEF Update, IndexTyped, TypeOK
<1>2. CASE ~ (scenarios[s].version >= version')
    <2>1. [version |-> version', programs |-> content]
              \in [version : 0 .. MaxVersion, programs : [Ics -> Uris \cup {NoProgram}]]
        BY ServerAssumption
    <2>2. ProgramsWithout(s) \in [Uris -> SUBSET Context]
        BY DEF ProgramsWithout, TypeOK
    <2>3. \A u \in Uris : ContextsOf(s, version', content, u) \in SUBSET Context
        BY DEF ContextsOf, Context
    <2>4. \A u \in Uris : programs'[u] \in SUBSET Context
        BY <1>2, <2>2, <2>3 DEF Update
    <2>5. programs' \in [Uris -> SUBSET Context]
        BY <1>2, <2>4 DEF Update
    <2>6. scenarios' \in [Scenarios -> [version : 0 .. MaxVersion,
                                       programs : [Ics -> Uris \cup {NoProgram}]]]
        BY <1>2, <2>1 DEF Update, TypeOK
    <2> QED
        BY <2>5, <2>6 DEF IndexTyped
<1> QED
    BY <1>1, <1>2

\* The counter of scenario changes stays within its bound.
LEMMA NextVersion ==
    ASSUME TypeOK, version < MaxVersion, version' = version + 1
    PROVE  version' \in 1 .. MaxVersion /\ version' \in 0 .. MaxVersion
BY ServerAssumption DEF TypeOK

LEMMA TypeStep ==
    ASSUME TypeOK, [Next]_vars
    PROVE  TypeOK'
<1> USE DEF DocumentType, TaskType, CopyType, TasksTyped, IndexTyped
<1>1. ASSUME NEW t \in Slots, NEW u \in Uris, Edit(t, u) PROVE TypeOK'
    <2>1. edits' \in 1 .. MaxEdits /\ edits' \in 0 .. MaxEdits
        BY <1>1, ServerAssumption DEF Edit, TypeOK
    <2>2. documents' \in [Uris -> DocumentType] /\ TasksTyped'
        BY <1>1, <2>1, UpdateDocumentType DEF Edit, TypeOK
    <2>3. CopyHeld(u) \in BOOLEAN
        BY DEF CopyHeld
    <2> QED
        BY <1>1, <2>1, <2>2, <2>3 DEF Edit, TypeOK
<1>2. ASSUME NEW t \in Slots, NEW u \in Uris, Close(t, u) PROVE TypeOK'
    <2>1. Absent \in DocumentType
        BY ServerAssumption DEF Absent
    <2>2. CopyHeld(u) \in BOOLEAN
        BY DEF CopyHeld
    <2> QED
        BY <1>2, <2>1, <2>2, ServerAssumption DEF Close, TypeOK
<1>3. ASSUME NEW t \in Slots, NEW level \in Levels, ChangeConfiguration(t, level) PROVE TypeOK'
    BY <1>3, RefreshType DEF ChangeConfiguration, TypeOK
<1>4. ASSUME NEW t \in Slots, NEW s \in Scenarios, NEW c \in Contents, ScenarioChanged(t, s, c)
      PROVE  TypeOK'
    <2>1. version' \in 1 .. MaxVersion /\ version' \in 0 .. MaxVersion
        BY <1>4, NextVersion DEF ScenarioChanged
    <2>2. IndexTyped'
        BY <1>4, <2>1, UpdateType DEF ScenarioChanged
    <2> QED
        BY <1>4, <2>1, <2>2, RefreshType DEF ScenarioChanged, TypeOK
<1>5. ASSUME NEW t \in Slots, NEW s \in Scenarios, ScenarioDeleted(t, s) PROVE TypeOK'
    <2>1. version' \in 1 .. MaxVersion /\ version' \in 0 .. MaxVersion
        BY <1>5, NextVersion DEF ScenarioDeleted
    <2>2. IndexTyped'
        BY <1>5, RemoveType DEF ScenarioDeleted
    <2> QED
        BY <1>5, <2>1, <2>2, RefreshType DEF ScenarioDeleted, TypeOK
<1>6. ASSUME NEW t \in Slots, NEW s \in Scenarios, ScenarioInvalid(t, s) PROVE TypeOK'
    <2>1. version' \in 1 .. MaxVersion /\ version' \in 0 .. MaxVersion
        BY <1>6, NextVersion DEF ScenarioInvalid
    <2>2. IndexTyped'
        BY <1>6, RemoveType DEF ScenarioInvalid
    <2>3. TasksTyped'
        BY <1>6 DEF ScenarioInvalid, TypeOK, Task
    <2> QED
        BY <1>6, <2>1, <2>2, <2>3 DEF ScenarioInvalid, TypeOK
<1>7. ASSUME NEW t \in Slots, NEW u \in Uris, NEW c \in Choice \cup {NoChoice}, SelectContext(t, u, c)
      PROVE  TypeOK'
    <2>1. selections' \in [Uris -> Choice \cup {NoChoice}]
        BY <1>7 DEF SelectContext, TypeOK
    <2>2. CASE documents[u].text # 0
        <3>1. documents[u].text \in 1 .. MaxEdits /\ {} \in SUBSET CopyType
            BY <2>2, ServerAssumption DEF TypeOK
        <3>2. documents' \in [Uris -> DocumentType] /\ TasksTyped'
            BY <1>7, <2>2, <3>1, UpdateDocumentType DEF SelectContext, TypeOK
        <3> QED
            BY <1>7, <2>1, <3>2 DEF SelectContext, TypeOK
    <2>3. CASE documents[u].text = 0
        BY <1>7, <2>1, <2>3 DEF SelectContext, TypeOK
    <2> QED
        BY <2>2, <2>3
<1>8. ASSUME NEW t \in Slots, Continue(t) PROVE TypeOK'
    <2>1. CASE Logged(t)
        BY <2>1, RefreshType DEF Logged, TypeOK
    <2>2. CASE Report(t)
        <3>1. tasks[t].uri \in Uris
            BY <2>2 DEF Report, TypeOK
        <3>2. StatusOf(programs[tasks[t].uri], selections[tasks[t].uri])
                  \in [contexts : SUBSET Context, active : Context \cup {NoContext}, ambiguous : BOOLEAN]
            BY <3>1, StatusType DEF TypeOK
        <3>3. status' \in [Uris -> [contexts : SUBSET Context, active : Context \cup {NoContext},
                                   ambiguous : BOOLEAN]]
            BY <2>2, <3>1, <3>2 DEF Report, TypeOK
        <3>4. TasksTyped'
            BY <2>2 DEF Report, TypeOK, Idle, Task
        <3> QED
            BY <2>2, <3>3, <3>4 DEF Report, TypeOK
    <2>3. CASE RefreshNext(t)
        <3>1. PICK x \in tasks[t].rest : UpdateDocument(t, x.uri, x.text, tasks[t].rest \ {x})
            BY <2>3 DEF RefreshNext
        <3>2. x.uri \in Uris /\ x.text \in 1 .. MaxEdits /\ tasks[t].rest \ {x} \in SUBSET CopyType
            BY DEF TypeOK
        <3>3. documents' \in [Uris -> DocumentType] /\ TasksTyped'
            BY <2>3, <3>1, <3>2, UpdateDocumentType DEF RefreshNext, TypeOK
        <3> QED
            BY <2>3, <3>3 DEF RefreshNext, TypeOK
    <2> QED
        BY <1>8, <2>1, <2>2, <2>3 DEF Continue
<1>9. CASE UNCHANGED vars
    BY <1>9 DEF vars, TypeOK
<1> QED
    BY <1>1, <1>2, <1>3, <1>4, <1>5, <1>6, <1>7, <1>8, <1>9 DEF Next

-----------------------------------------------------------------------------
(* A handler is free, or it keeps its promises.                            *)

\* After update_document has analysed a document, the document is current.
LEMMA AnalysedIsCurrent ==
    ASSUME TypeOK, NEW t \in Slots, NEW u \in Uris, NEW x, NEW rest, UpdateDocument(t, u, x, rest)
    PROVE  /\ ContextIsCurrent(u)'
           /\ documents'[u].text = x
           /\ \A v \in Uris \ {u} : documents'[v] = documents[v]
           /\ tasks'[t] = Task("report", u, rest)
           /\ \A r \in Slots \ {t} : tasks'[r] = tasks[r]
BY DEF UpdateDocument, Analysed, ContextIsCurrent, TypeOK

\* A refresh: every document is current or promised, and no other handler
\* is disturbed.
LEMMA RefreshPromises ==
    ASSUME TypeOK, NEW t \in Slots, Refresh(t)
    PROVE  /\ \A r \in Slots \ {t} : tasks'[r] = tasks[r]
           /\ tasks'[t].stage \in {"idle", "log"} => tasks'[t].rest = {}
           /\ \A u \in Uris : documents'[u].text = documents[u].text
           /\ \A x \in tasks'[t].rest : x.text = documents[x.uri].text /\ x.uri \in Uris
           /\ \A u \in Uris : documents'[u].text # 0 =>
                 \/ ContextIsCurrent(u)' /\ Reporting(u)'
                 \/ Pending(u)'
<1>1. CASE OpenDocuments = {} /\ tasks' = [tasks EXCEPT ![t] = Idle] /\ UNCHANGED documents
    <2>1. \A u \in Uris : documents[u].text = 0
        BY <1>1 DEF OpenDocuments
    <2> QED
        BY <1>1, <2>1 DEF Idle, TypeOK
<1>2. ASSUME NEW x \in OpenDocuments, UpdateDocument(t, x.uri, x.text, OpenDocuments \ {x})
      PROVE  /\ \A r \in Slots \ {t} : tasks'[r] = tasks[r]
             /\ tasks'[t].stage \in {"idle", "log"} => tasks'[t].rest = {}
             /\ \A u \in Uris : documents'[u].text = documents[u].text
             /\ \A y \in tasks'[t].rest : y.text = documents[y.uri].text /\ y.uri \in Uris
             /\ \A u \in Uris : documents'[u].text # 0 =>
                   \/ ContextIsCurrent(u)' /\ Reporting(u)'
                   \/ Pending(u)'
    <2>1. \A y \in OpenDocuments : y.uri \in Uris /\ y.text = documents[y.uri].text
        BY DEF OpenDocuments, Copy
    <2>2. /\ ContextIsCurrent(x.uri)'
          /\ documents'[x.uri].text = x.text
          /\ \A v \in Uris \ {x.uri} : documents'[v] = documents[v]
          /\ tasks'[t] = Task("report", x.uri, OpenDocuments \ {x})
          /\ \A r \in Slots \ {t} : tasks'[r] = tasks[r]
        BY <1>2, <2>1, AnalysedIsCurrent
    <2>3. tasks'[t].stage = "report" /\ tasks'[t].uri = x.uri /\ tasks'[t].rest = OpenDocuments \ {x}
        BY <2>2 DEF Task
    <2>4. ASSUME NEW u \in Uris, documents'[u].text # 0
          PROVE  (ContextIsCurrent(u)' /\ Reporting(u)') \/ Pending(u)'
        <3>1. CASE u = x.uri
            BY <2>2, <2>3, <3>1 DEF Reporting
        <3>2. CASE u # x.uri
            <4>1. Copy(u, documents[u].text) \in OpenDocuments
                BY <2>2, <2>4, <3>2 DEF OpenDocuments
            <4>2. Copy(u, documents[u].text).uri = u
                BY DEF Copy
            <4>3. Copy(u, documents[u].text) \in tasks'[t].rest
                BY <2>3, <3>2, <4>1, <4>2
            <4> QED
                BY <4>2, <4>3 DEF Pending
        <3> QED
            BY <3>1, <3>2
    <2> QED
        BY <2>1, <2>2, <2>3, <2>4
<1> QED
    BY <1>1, <1>2 DEF Refresh

\* So a handler that only refreshes, whatever it changed before, keeps the
\* promises of the invariant.
LEMMA RefreshStep ==
    ASSUME TypeOK, TaskShape, TextPromised, NEW t \in Slots, Refresh(t), UNCHANGED <<text, raced>>
    PROVE  TaskShape' /\ ContextPromised' /\ StatusPromised' /\ TextPromised'
<1>1. TaskShape'
    BY RefreshPromises DEF TaskShape
<1>2. ContextPromised' /\ StatusPromised'
    BY RefreshPromises DEF ContextPromised, StatusPromised
<1>3. TextPromised'
    BY RefreshPromises DEF TextPromised
<1> QED
    BY <1>1, <1>2, <1>3

\* update_document for one document, by a handler that held no copy of any
\* other: what was promised for the others still is.
LEMMA UpdateStep ==
    ASSUME TypeOK, TaskShape, ContextPromised, StatusPromised, NEW t \in Slots, NEW u \in Uris, NEW x,
           NEW rest, UpdateDocument(t, u, x, rest),
           tasks[t].stage # "log",
           rest \subseteq tasks[t].rest,
           \A y \in tasks[t].rest \ rest : y.uri = u,
           tasks[t].stage # "report",
           UNCHANGED <<options, programs, status>>,
           \A v \in Uris \ {u} : selections'[v] = selections[v]
    PROVE  TaskShape' /\ ContextPromised' /\ StatusPromised'
<1>1. /\ ContextIsCurrent(u)'
      /\ \A v \in Uris \ {u} : documents'[v] = documents[v]
      /\ tasks'[t] = Task("report", u, rest)
      /\ \A r \in Slots \ {t} : tasks'[r] = tasks[r]
    BY AnalysedIsCurrent
<1>2. tasks'[t].stage = "report" /\ tasks'[t].uri = u /\ tasks'[t].rest = rest
    BY <1>1 DEF Task
<1>3. TaskShape'
    BY <1>1, <1>2 DEF TaskShape
<1>4. ASSUME NEW v \in Uris \ {u}
      PROVE  /\ Pending(v) => Pending(v)'
             /\ Reporting(v) => Reporting(v)'
             /\ ContextIsCurrent(v) => ContextIsCurrent(v)'
             /\ StatusOf(programs[v], selections[v])' = StatusOf(programs[v], selections[v])
    <2>1. Pending(v) => Pending(v)'
        BY <1>1, <1>2 DEF Pending
    <2>2. Reporting(v) => Reporting(v)'
        BY <1>1 DEF Reporting
    <2>3. ContextIsCurrent(v) => ContextIsCurrent(v)'
        BY <1>1 DEF ContextIsCurrent
    <2> QED
        BY <2>1, <2>2, <2>3
<1>5. Reporting(u)'
    BY <1>2 DEF Reporting
<1>6. ContextPromised'
    BY <1>1, <1>4 DEF ContextPromised
<1>7. StatusPromised'
    BY <1>1, <1>4, <1>5 DEF StatusPromised
<1> QED
    BY <1>3, <1>6, <1>7

-----------------------------------------------------------------------------
(* One step of each action.                                                *)

LEMMA IndexStep ==
    ASSUME Inv, [Next]_vars
    PROVE  IndexAgrees'
<1>1. ASSUME NEW t \in Slots, NEW s \in Scenarios, NEW c \in Contents, ScenarioChanged(t, s, c)
      PROVE  IndexAgrees'
    <2>1. version' \in 1 .. MaxVersion
        BY <1>1, NextVersion DEF ScenarioChanged, Inv
    <2> QED
        BY <1>1, <2>1, UpdateAgrees DEF ScenarioChanged, Inv
<1>2. ASSUME NEW t \in Slots, NEW s \in Scenarios, ScenarioDeleted(t, s) \/ ScenarioInvalid(t, s)
      PROVE  IndexAgrees'
    BY <1>2, RemoveAgrees, ServerAssumption DEF ScenarioDeleted, ScenarioInvalid, Inv
<1>3. CASE UNCHANGED <<scenarios, programs>>
    BY <1>3 DEF Inv, IndexAgrees
<1>4. ASSUME NEW t \in Slots, NEW u \in Uris, Edit(t, u) \/ Close(t, u) PROVE IndexAgrees'
    BY <1>3, <1>4 DEF Edit, Close
<1>5. ASSUME NEW t \in Slots, NEW level \in Levels, ChangeConfiguration(t, level) PROVE IndexAgrees'
    BY <1>3, <1>5 DEF ChangeConfiguration
<1>6. ASSUME NEW t \in Slots, NEW u \in Uris, NEW c \in Choice \cup {NoChoice}, SelectContext(t, u, c)
      PROVE  IndexAgrees'
    BY <1>3, <1>6 DEF SelectContext
<1>7. ASSUME NEW t \in Slots, Continue(t) PROVE IndexAgrees'
    BY <1>3, <1>7 DEF Continue, Logged, Report, RefreshNext
<1>8. CASE UNCHANGED vars
    BY <1>3, <1>8 DEF vars
<1> QED
    BY <1>1, <1>2, <1>4, <1>5, <1>6, <1>7, <1>8 DEF Next

Promises == TaskShape /\ ContextPromised /\ StatusPromised /\ TextPromised

LEMMA PromiseStep ==
    ASSUME Inv, [Next]_vars
    PROVE  Promises'
<1> USE DEF Inv
<1>1. ASSUME NEW t \in Slots, NEW u \in Uris, Edit(t, u) PROVE Promises'
    <2>1. tasks[t].stage = "idle" /\ tasks[t].rest = {}
        BY <1>1 DEF Edit, Free, TaskShape
    <2>2. TaskShape' /\ ContextPromised' /\ StatusPromised'
        BY <1>1, <2>1, UpdateStep DEF Edit
    <2>3. TextPromised'
        <3>1. /\ documents'[u].text = edits'
              /\ \A v \in Uris \ {u} : documents'[v] = documents[v]
              /\ tasks'[t] = Task("report", u, {})
              /\ \A r \in Slots \ {t} : tasks'[r] = tasks[r]
            BY <1>1, AnalysedIsCurrent DEF Edit
        <3>2. tasks'[t].rest = {}
            BY <3>1 DEF Task
        <3>3. text'[u] = edits' /\ raced'[u] = CopyHeld(u)
            BY <1>1 DEF Edit, TypeOK
        <3>4. \A v \in Uris \ {u} : text'[v] = text[v] /\ raced'[v] = raced[v]
            BY <1>1 DEF Edit, TypeOK
        <3>5. \A r \in Slots : tasks'[r].rest \subseteq tasks[r].rest
            BY <3>1, <3>2
        <3>6. ASSUME NEW v \in Uris, ~ raced'[v]
              PROVE  documents'[v].text = text'[v]
            BY <3>1, <3>3, <3>4, <3>6 DEF TextPromised
        <3>7. ASSUME NEW v \in Uris, ~ raced'[v], NEW r \in Slots,
                     NEW x \in tasks'[r].rest, x.uri = v
              PROVE  x.text = text'[v]
            <4>1. x \in tasks[r].rest
                BY <3>5
            <4>2. v # u
                BY <3>3, <3>7, <4>1 DEF CopyHeld
            <4> QED
                BY <3>4, <3>7, <4>1, <4>2 DEF TextPromised
        <3> QED
            BY <3>6, <3>7 DEF TextPromised
    <2> QED
        BY <2>2, <2>3 DEF Promises
<1>2. ASSUME NEW t \in Slots, NEW u \in Uris, Close(t, u) PROVE Promises'
    <2>1. documents'[u].text = 0 /\ \A v \in Uris \ {u} : documents'[v] = documents[v]
        BY <1>2 DEF Close, TypeOK, Absent
    <2>2. UNCHANGED <<options, programs, selections, status, tasks>>
        BY <1>2 DEF Close
    <2>3. TaskShape' /\ ContextPromised' /\ StatusPromised'
        <3>1. \A v \in Uris : (Pending(v) <=> Pending(v)') /\ (Reporting(v) <=> Reporting(v)')
            BY <2>2 DEF Pending, Reporting
        <3>2. \A v \in Uris \ {u} : ContextIsCurrent(v) => ContextIsCurrent(v)'
            BY <2>1, <2>2 DEF ContextIsCurrent
        <3>3. \A v \in Uris : StatusOf(programs[v], selections[v])' = StatusOf(programs[v], selections[v])
            BY <2>2
        <3>4. TaskShape'
            BY <2>2 DEF TaskShape
        <3>5. ContextPromised'
            BY <2>1, <3>1, <3>2 DEF ContextPromised
        <3>6. StatusPromised'
            BY <2>1, <2>2, <3>1, <3>3 DEF StatusPromised
        <3> QED
            BY <3>4, <3>5, <3>6
    <2>4. TextPromised'
        <3>1. text'[u] = 0 /\ raced'[u] = CopyHeld(u)
            BY <1>2 DEF Close, TypeOK
        <3>2. \A v \in Uris \ {u} : text'[v] = text[v] /\ raced'[v] = raced[v]
            BY <1>2 DEF Close, TypeOK
        <3> QED
            BY <2>1, <2>2, <3>1, <3>2 DEF TextPromised, CopyHeld
    <2> QED
        BY <2>3, <2>4 DEF Promises
<1>3. ASSUME NEW t \in Slots, Refresh(t), UNCHANGED <<text, raced>> PROVE Promises'
    BY <1>3, RefreshStep DEF Promises
<1>4. ASSUME NEW t \in Slots, NEW s \in Scenarios, ScenarioInvalid(t, s) PROVE Promises'
    <2>1. tasks'[t].stage = "log" /\ tasks'[t].rest = {} /\ \A r \in Slots \ {t} : tasks'[r] = tasks[r]
        BY <1>4 DEF ScenarioInvalid, Task, TypeOK
    <2>2. \A u \in Uris : Pending(u)'
        BY <2>1 DEF Pending
    <2>3. TaskShape' /\ ContextPromised' /\ StatusPromised'
        BY <2>1, <2>2 DEF TaskShape, ContextPromised, StatusPromised
    <2>4. UNCHANGED <<documents, text, raced>>
        BY <1>4 DEF ScenarioInvalid
    <2>5. TextPromised'
        BY <2>1, <2>4 DEF TextPromised
    <2> QED
        BY <2>3, <2>5 DEF Promises
<1>5. ASSUME NEW t \in Slots, NEW u \in Uris, NEW c \in Choice \cup {NoChoice}, SelectContext(t, u, c)
      PROVE  Promises'
    <2>1. tasks[t].stage = "idle" /\ tasks[t].rest = {}
        BY <1>5 DEF SelectContext, Free, TaskShape
    <2>2. \A v \in Uris \ {u} : selections'[v] = selections[v]
        BY <1>5 DEF SelectContext, TypeOK
    <2>3. UNCHANGED <<options, programs, status, text, raced>>
        BY <1>5 DEF SelectContext
    <2>4. CASE documents[u].text # 0
        <3>1. UpdateDocument(t, u, documents[u].text, {})
            BY <1>5, <2>4 DEF SelectContext
        <3>2. TaskShape' /\ ContextPromised' /\ StatusPromised'
            BY <2>1, <2>2, <2>3, <3>1, UpdateStep
        <3>3. /\ documents'[u].text = documents[u].text
              /\ \A v \in Uris \ {u} : documents'[v] = documents[v]
              /\ tasks'[t] = Task("report", u, {})
              /\ \A r \in Slots \ {t} : tasks'[r] = tasks[r]
            BY <3>1, AnalysedIsCurrent
        <3>4. tasks'[t].rest = {}
            BY <3>3 DEF Task
        <3>5. TextPromised'
            BY <2>3, <3>3, <3>4 DEF TextPromised
        <3> QED
            BY <3>2, <3>5 DEF Promises
    <2>5. CASE documents[u].text = 0
        <3>1. UNCHANGED <<documents, tasks>>
            BY <1>5, <2>5 DEF SelectContext
        <3>2. \A v \in Uris : (Pending(v) <=> Pending(v)') /\ (Reporting(v) <=> Reporting(v)')
            BY <3>1 DEF Pending, Reporting
        <3>3. \A v \in Uris \ {u} : /\ ContextIsCurrent(v) => ContextIsCurrent(v)'
                                  /\ StatusOf(programs[v], selections[v])' =
                                        StatusOf(programs[v], selections[v])
            BY <2>2, <2>3, <3>1 DEF ContextIsCurrent
        <3>4. ContextPromised' /\ StatusPromised'
            BY <2>3, <2>5, <3>1, <3>2, <3>3 DEF ContextPromised, StatusPromised
        <3>5. TaskShape' /\ TextPromised'
            BY <2>3, <3>1 DEF TaskShape, TextPromised
        <3> QED
            BY <3>4, <3>5 DEF Promises
    <2> QED
        BY <2>4, <2>5
<1>6. ASSUME NEW t \in Slots, Report(t) PROVE Promises'
    <2> DEFINE u == tasks[t].uri
    <2>1. u \in Uris /\ tasks[t].stage = "report"
        BY <1>6 DEF Report, TypeOK
    <2>2. /\ tasks'[t].rest = tasks[t].rest
          /\ tasks'[t].stage \in {"idle", "next"}
          /\ tasks'[t].stage = "idle" => tasks[t].rest = {}
          /\ \A r \in Slots \ {t} : tasks'[r] = tasks[r]
        BY <1>6 DEF Report, Idle, Task, TypeOK
    <2>3. /\ status'[u] = StatusOf(programs[u], selections[u])
          /\ \A v \in Uris \ {u} : status'[v] = status[v]
        BY <1>6, <2>1 DEF Report, TypeOK
    <2>4. UNCHANGED <<text, documents, options, programs, selections, raced>>
        BY <1>6 DEF Report
    <2>5. ASSUME NEW v \in Uris
          PROVE  /\ Pending(v) => Pending(v)'
                 /\ ContextIsCurrent(v) => ContextIsCurrent(v)'
                 /\ StatusOf(programs[v], selections[v])' = StatusOf(programs[v], selections[v])
        <3>1. Pending(v) => Pending(v)'
            BY <2>1, <2>2 DEF Pending
        <3>2. ContextIsCurrent(v) => ContextIsCurrent(v)'
            BY <2>4 DEF ContextIsCurrent
        <3> QED
            BY <2>4, <3>1, <3>2
    <2>6. \A v \in Uris \ {u} : Reporting(v) => Reporting(v)'
        BY <2>2 DEF Reporting
    <2>7. TaskShape'
        BY <2>2 DEF TaskShape
    <2>8. ContextPromised'
        <3> SUFFICES ASSUME NEW v \in Uris, documents'[v].text # 0
                     PROVE  ContextIsCurrent(v)' \/ Pending(v)'
            BY DEF ContextPromised
        <3>1. ContextIsCurrent(v) \/ Pending(v)
            BY <2>4 DEF ContextPromised
        <3> QED
            BY <2>5, <3>1
    <2>9. StatusPromised'
        <3> SUFFICES ASSUME NEW v \in Uris, documents'[v].text # 0
                     PROVE  \/ status'[v] = StatusOf(programs[v], selections[v])'
                            \/ Pending(v)' \/ Reporting(v)'
            BY DEF StatusPromised
        <3>1. status[v] = StatusOf(programs[v], selections[v]) \/ Pending(v) \/ Reporting(v)
            BY <2>4 DEF StatusPromised
        <3>2. StatusOf(programs[v], selections[v])' = StatusOf(programs[v], selections[v])
            BY <2>5
        <3>3. CASE v = u
            BY <2>3, <3>2, <3>3
        <3>4. CASE v # u
            BY <2>3, <2>5, <2>6, <3>1, <3>2, <3>4
        <3> QED
            BY <3>3, <3>4
    <2>10. TextPromised'
        BY <2>2, <2>4 DEF TextPromised
    <2> QED
        BY <2>7, <2>8, <2>9, <2>10 DEF Promises
<1>7. ASSUME NEW t \in Slots, RefreshNext(t) PROVE Promises'
    <2>1. PICK x \in tasks[t].rest : UpdateDocument(t, x.uri, x.text, tasks[t].rest \ {x})
        BY <1>7 DEF RefreshNext
    <2>2. x.uri \in Uris /\ tasks[t].stage = "next"
        BY <1>7 DEF RefreshNext, TypeOK
    <2>3. UNCHANGED <<text, options, programs, selections, status, raced>>
        BY <1>7 DEF RefreshNext
    <2>4. TaskShape' /\ ContextPromised' /\ StatusPromised'
        BY <2>1, <2>2, <2>3, UpdateStep
    <2>5. /\ documents'[x.uri].text = x.text
          /\ \A v \in Uris \ {x.uri} : documents'[v] = documents[v]
          /\ tasks'[t] = Task("report", x.uri, tasks[t].rest \ {x})
          /\ \A r \in Slots \ {t} : tasks'[r] = tasks[r]
        BY <2>1, <2>2, AnalysedIsCurrent
    <2>6. tasks'[t].rest = tasks[t].rest \ {x}
        BY <2>5 DEF Task
    <2>7. TextPromised'
        <3> SUFFICES ASSUME NEW v \in Uris, ~ raced'[v]
                     PROVE  /\ documents'[v].text = text'[v]
                            /\ \A r \in Slots : \A y \in tasks'[r].rest : y.uri = v => y.text = text'[v]
            BY DEF TextPromised
        <3>1. /\ documents[v].text = text[v]
              /\ \A r \in Slots : \A y \in tasks[r].rest : y.uri = v => y.text = text[v]
            BY <2>3 DEF TextPromised
        <3>2. documents'[v].text = text'[v]
            BY <2>1, <2>3, <2>5, <3>1
        <3>3. \A r \in Slots : \A y \in tasks'[r].rest : y.uri = v => y.text = text'[v]
            BY <2>3, <2>5, <2>6, <3>1
        <3> QED
            BY <3>2, <3>3
    <2> QED
        BY <2>4, <2>7 DEF Promises
<1>8. CASE UNCHANGED vars
    <2>1. ASSUME NEW v \in Uris
          PROVE  /\ (Pending(v) <=> Pending(v)') /\ (Reporting(v) <=> Reporting(v)')
                 /\ ContextIsCurrent(v) => ContextIsCurrent(v)'
        BY <1>8 DEF vars, Pending, Reporting, ContextIsCurrent
    <2>2. ASSUME NEW v \in Uris
          PROVE  StatusOf(programs[v], selections[v])' = StatusOf(programs[v], selections[v])
        BY <1>8 DEF vars
    <2>3. UNCHANGED <<text, documents, status, tasks, raced>>
        BY <1>8 DEF vars
    <2>4. TaskShape' /\ TextPromised'
        BY <2>3 DEF TaskShape, TextPromised
    <2>5. ContextPromised'
        BY <2>1, <2>3 DEF ContextPromised
    <2>6. StatusPromised'
        BY <2>1, <2>2, <2>3 DEF StatusPromised
    <2> QED
        BY <2>4, <2>5, <2>6 DEF Promises
<1>9. ASSUME NEW t \in Slots, NEW level \in Levels, ChangeConfiguration(t, level) PROVE Promises'
    BY <1>3, <1>9 DEF ChangeConfiguration
<1>10. ASSUME NEW t \in Slots, NEW s \in Scenarios, NEW c \in Contents, ScenarioChanged(t, s, c)
       PROVE  Promises'
    BY <1>3, <1>10 DEF ScenarioChanged
<1>11. ASSUME NEW t \in Slots, NEW s \in Scenarios, ScenarioDeleted(t, s) PROVE Promises'
    BY <1>3, <1>11 DEF ScenarioDeleted
<1>12. ASSUME NEW t \in Slots, Logged(t) PROVE Promises'
    BY <1>3, <1>12 DEF Logged
<1> QED
    BY <1>1, <1>2, <1>4, <1>5, <1>6, <1>7, <1>8, <1>9, <1>10, <1>11, <1>12 DEF Next, Continue

-----------------------------------------------------------------------------
(* The theorems.                                                           *)

LEMMA InitInv == Init => Inv
<1> SUFFICES ASSUME Init PROVE Inv
    OBVIOUS
<1>1. TypeOK
    <2>1. Absent \in DocumentType /\ Idle \in TaskType
        BY ServerAssumption DEF Absent, DocumentType, Idle, TaskType
    <2>2. NoStatus \in [contexts : SUBSET Context, active : Context \cup {NoContext}, ambiguous : BOOLEAN]
        BY DEF NoStatus
    <2>3. Unindexed \in [version : 0 .. MaxVersion, programs : [Ics -> Uris \cup {NoProgram}]]
        BY ServerAssumption DEF Unindexed
    <2> QED
        BY <2>1, <2>2, <2>3, ServerAssumption DEF Init, TypeOK, DocumentType, TaskType, CopyType, Idle
<1>2. IndexAgrees
    <2>1. \A c \in Context : c.scenario \in Scenarios /\ c.version # 0
        BY DEF Context
    <2>2. \A s \in Scenarios : scenarios[s].version = 0
        BY DEF Init, Unindexed
    <2> QED
        BY <2>1, <2>2 DEF Init, IndexAgrees
<1>3. TaskShape /\ TextPromised
    BY DEF Init, TaskShape, TextPromised, Idle, Absent
<1>4. ContextPromised /\ StatusPromised
    BY DEF Init, ContextPromised, StatusPromised, Absent
<1> QED
    BY <1>1, <1>2, <1>3, <1>4 DEF Inv

\* The inductive invariant holds in every reachable state.
THEOREM InvariantHolds == Spec => []Inv
<1>1. Inv /\ [Next]_vars => Inv'
    BY TypeStep, IndexStep, PromiseStep DEF Inv, Promises
<1> QED
    BY InitInv, <1>1, PTL DEF Spec

\* Type correctness of the server's state.
THEOREM TypeCorrect == Spec => []TypeOK
<1>1. Inv => TypeOK
    BY DEF Inv
<1> QED
    BY InvariantHolds, <1>1, PTL

\* The contexts under a program are those of the scenarios indexed, after any
\* sequence of updates and removals.
THEOREM IndexCorrect == Spec => []IndexAgrees
<1>1. Inv => IndexAgrees
    BY DEF Inv
<1> QED
    BY InvariantHolds, <1>1, PTL

\* A server at rest shows diagnostics found with the options, scenarios and
\* selection in force, and has sent the status in force of every open document,
\* however the handlers crossed.
THEOREM ViewSettles == Spec => []SettledView
<1>1. Inv => SettledContext
    BY DEF Inv, TaskShape, ContextPromised, SettledContext, Quiet, Pending
<1>2. Inv => SettledStatus
    BY DEF Inv, TaskShape, StatusPromised, SettledStatus, Quiet, Pending, Reporting
<1> QED
    BY InvariantHolds, <1>1, <1>2, PTL DEF SettledView

\* A server at rest holds the text last received, unless a refresh held a copy
\* when the document changed.
THEOREM TextSettles == Spec => []SettledTextUnlessRaced
<1>1. Inv => SettledTextUnlessRaced
    BY DEF Inv, TextPromised, SettledTextUnlessRaced
<1> QED
    BY InvariantHolds, <1>1, PTL
=============================================================================
