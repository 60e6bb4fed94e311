-------------------------------- MODULE Notes --------------------------------
(***************************************************************************)
(* What people keep beside the catalog: folders, comments, documents, chat *)
(* sessions, timeline events, the organisation's own diagram components    *)
(* and the sessions of agents.                                             *)
(*                                                                         *)
(* A document's file is the id of its asset: one of its own, named by the  *)
(* request that uploaded it, or Asset, which others may name as well.  The *)
(* link of a chat session is the message its updated_at shows.  Timeline   *)
(* events and components are deleted for good.  All components have one    *)
(* name, so that slug n stands for the name with the suffix n + 1.         *)
(***************************************************************************)
EXTENDS Rows

VARIABLES
    messages,   \* the messages of each chat session, in order
    comps,      \* components: [id -> [slug, by]], by whom it was written last
    fields,     \* component_fields: by which request each component's were written, or Null
    agents,     \* agent_sessions: the status of each, Null if there is none
    agentSteps  \* agent_session_steps: [session, seq, id]

noteVars == <<messages, comps, fields, agents, agentSteps>>

NoteTables == {"folder", "comment", "doc", "chat", "event"}
AgentStatus == {"running", "completed", "failed"}

ASSUME NotesAssumption == Null \notin AgentStatus

NumberMemory == [id : RowIds, number : Nat, status : AgentStatus]

CreateFolderSteps == <<<<"insert", "folder">>>>
UpdateFolderSteps == <<<<"get", "folder">>, <<"save", "folder">>>>
DeleteFolderSteps == <<<<"remove", "folder">>>>
CreateCommentSteps == <<<<"insert", "comment">>>>
UpdateCommentSteps == <<<<"get", "comment">>, <<"save", "comment">>>>
DeleteCommentSteps == <<<<"remove", "comment">>>>

CreateDocSteps == <<<<"store", "doc">>, <<"insert", "doc">>>>

\* The file that is replaced goes before the row is saved.
UpdateDocSteps == <<<<"get", "doc">>, <<"store", "doc">>, <<"dropOld", "doc">>, <<"save", "doc">>>>
DeleteDocSteps == <<<<"get", "doc">>, <<"remove", "doc">>>>
CreateSessionSteps == <<<<"insert", "chat">>>>
UpdateSessionSteps == <<<<"get", "chat">>, <<"save", "chat">>>>
DeleteSessionSteps == <<<<"get", "chat">>, <<"remove", "chat">>>>

\* Mutant: the session does not show that it was written to.
MessageWithoutTouch == <<<<"get", "chat">>, <<"message", "chat">>>>

CreateMessageSteps == <<<<"get", "chat">>, <<"message", "chat">>, <<"touch", "chat">>>>
CreateEventSteps == <<<<"insert", "event">>>>
UpdateEventSteps == <<<<"saveEvent", "event">>>>
DeleteEventSteps == <<<<"erase", "event">>>>
SyncEventSteps == <<<<"syncEvent", "event">>>>
CreateComponentSteps == <<<<"slug", "component">>, <<"save", "component">>,
                          <<"clearFields", "component">>, <<"insertFields", "component">>>>

\* Mutant: the fields are cleared last.
UpdateFieldsFirst == <<<<"getComponent", "component">>, <<"slug", "component">>,
                       <<"insertFields", "component">>, <<"save", "component">>,
                       <<"clearFields", "component">>>>

UpdateComponentSteps == <<<<"getComponent", "component">>>> \o CreateComponentSteps
DeleteComponentSteps == <<<<"clearFields", "component">>, <<"delete", "component">>>>
CreateAgentSessionSteps == <<<<"create", "agent">>>>
FinishSteps == <<<<"load", "agent">>, <<"finish", "agent">>>>
CreateStepSteps == <<<<"load", "agent">>, <<"number", "agent">>, <<"insertStep", "agent">>>>

NoteSteps ==
    [createFolder |-> CreateFolderSteps, updateFolder |-> UpdateFolderSteps,
     deleteFolder |-> DeleteFolderSteps, createComment |-> CreateCommentSteps,
     updateComment |-> UpdateCommentSteps, deleteComment |-> DeleteCommentSteps,
     createDoc |-> CreateDocSteps, updateDoc |-> UpdateDocSteps, deleteDoc |-> DeleteDocSteps,
     createSession |-> CreateSessionSteps, updateSession |-> UpdateSessionSteps,
     deleteSession |-> DeleteSessionSteps, createMessage |-> CreateMessageSteps,
     createEvent |-> CreateEventSteps, updateEvent |-> UpdateEventSteps,
     deleteEvent |-> DeleteEventSteps]

ComponentSteps ==
    [createComponent |-> CreateComponentSteps, updateComponent |-> UpdateComponentSteps,
     deleteComponent |-> DeleteComponentSteps]

AgentOps == {"createAgentSession", "finish", "createStep"}
NoteOps == DOMAIN NoteSteps \cup DOMAIN ComponentSteps \cup AgentOps \cup {"syncEvent"}
NoteVerbs == {"store", "dropOld", "message", "touch", "saveEvent", "erase", "syncEvent", "slug",
              "clearFields", "insertFields", "getComponent", "delete", "create", "load", "finish",
              "number", "insertStep"}

NoteStart(q, op) ==
    /\ \/ /\ op \in DOMAIN NoteSteps
          /\ RowStart(q, op, NoteSteps[op],
                      IF op = "createDoc" THEN {q, Asset}
                      ELSE IF op = "updateDoc" THEN {q, Asset, Null} ELSE {Null})
       \/ /\ op = "syncEvent"
          /\ \E r \in Refs :
               Arrives(q, op, SyncEventSteps,
                       [id |-> q, parent |-> Null, link |-> Null, gives |-> Columns, ref |-> r,
                        file |-> Null, held |-> Null])
       \/ /\ op \in DOMAIN ComponentSteps
          /\ \E i \in IF op = "createComponent" THEN {q} ELSE DOMAIN comps :
               Arrives(q, op, ComponentSteps[op], [id |-> i, number |-> 0, status |-> "running"])
       \/ /\ op = "createAgentSession"
          /\ Arrives(q, op, CreateAgentSessionSteps, [id |-> q, number |-> 0, status |-> "running"])
       \/ /\ op = "finish"
          /\ \E i \in RowIds, s \in AgentStatus \ {"running"} :
               /\ agents[i] # Null
               /\ Arrives(q, op, FinishSteps, [id |-> i, number |-> 0, status |-> s])
       \/ /\ op = "createStep"
          /\ \E i \in RowIds :
               /\ agents[i] # Null
               /\ Arrives(q, op, CreateStepSteps, [id |-> i, number |-> 0, status |-> "running"])
    /\ UNCHANGED <<rowVars, noteVars>>

(***************************************************************************)
(* Folders, comments and documents.                                        *)
(***************************************************************************)
CreateFolder(q) == Inserts(q, "folder")
GetFolder(q) == Gets(q, "folder")
UpdateFolder(q) == Saves(q, "folder")
DeleteFolder(q) == Removes(q, "folder")
CreateComment(q) == Inserts(q, "comment")
GetComment(q) == Gets(q, "comment")
UpdateComment(q) == Saves(q, "comment")
SoftDeleteComment(q) == Removes(q, "comment")

\* A file in the body is stored as a new asset, one that is named is there.
ResolveDocContent(q) ==
    /\ At(q, <<"store", "doc">>)
    /\ files' = IF Mem(q).file = q THEN With(files, <<"doc", q>>, q) ELSE files
    /\ Proceeds(q)
    /\ UNCHANGED rows

\* Mutant: the asset that was read goes in any case.
DropsAlways(m) == m.held.file # Null

\* Update removes the asset that it replaces, before the row is saved.
DropsOld(m) == m.file # Null /\ m.held.file \notin {Null, m.file}

DropOldAsset(q) ==
    /\ At(q, <<"dropOld", "doc">>)
    /\ files' = IF DropsOld(Mem(q)) THEN Without(files, <<"doc", Mem(q).held.file>>) ELSE files
    /\ Proceeds(q)
    /\ UNCHANGED rows

CreateDoc(q) == Inserts(q, "doc")
GetDoc(q) == Gets(q, "doc")
UpdateDoc(q) == Saves(q, "doc")
SoftDeleteDoc(q) == Removes(q, "doc")

(***************************************************************************)
(* Chat.                                                                   *)
(***************************************************************************)
CreateChatSession(q) == Inserts(q, "chat")
OwnedSession(q) == Gets(q, "chat")
UpdateChatSession(q) == Saves(q, "chat")
SoftDeleteChatSession(q) == Removes(q, "chat")

\* CreateChatMessage, its two statements.
CreateChatMessage(q) ==
    /\ At(q, <<"message", "chat">>)
    /\ messages' = [messages EXCEPT ![Mem(q).id] = Append(@, q)]
    /\ Proceeds(q)
    /\ UNCHANGED <<rowVars, comps, fields, agents, agentSteps>>

TouchChatSession(q) ==
    /\ At(q, <<"touch", "chat">>)
    /\ LET k == <<"chat", Mem(q).id>> IN
       rows' = IF Live("chat", Mem(q).id) THEN With(rows, k, [rows[k] EXCEPT !.link = q]) ELSE rows
    /\ Proceeds(q)
    /\ UNCHANGED files

(***************************************************************************)
(* The timeline: one statement each.                                       *)
(***************************************************************************)
CreateEvent(q) == Inserts(q, "event")

\* All columns are the body's.
UpdateEvent(q) ==
    /\ At(q, <<"saveEvent", "event">>)
    /\ LET k == <<"event", Mem(q).id>> IN
       rows' = IF k \in DOMAIN rows THEN With(rows, k, [rows[k] EXCEPT !.name = q, !.note = q])
               ELSE rows
    /\ Proceeds(q)
    /\ UNCHANGED files

DeleteEvent(q) ==
    /\ At(q, <<"erase", "event">>)
    /\ rows' = Without(rows, <<"event", Mem(q).id>>)
    /\ Proceeds(q)
    /\ UNCHANGED files

\* Mutant: an INSERT without ON CONFLICT.
InsertEvent(q) ==
    /\ At(q, <<"syncEvent", "event">>)
    /\ rows' = With(rows, <<"event", q>>, NewRow(Mem(q), q))
    /\ Proceeds(q)
    /\ UNCHANGED files

UpsertEventBySourceRef(q) ==
    /\ At(q, <<"syncEvent", "event">>)
    /\ Upserts(q, "event", Null)
    /\ Proceeds(q)
    /\ UNCHANGED files

(***************************************************************************)
(* Components.                                                             *)
(***************************************************************************)
SlugsOfOthers(i) == {comps[j].slug : j \in DOMAIN comps \ {i}}

\* uniqueComponentSlug tries one suffix after the other.
UniqueComponentSlug(q) ==
    /\ At(q, <<"slug", "component">>)
    /\ LET free == (0..Cardinality(DOMAIN comps)) \ SlugsOfOthers(Mem(q).id) IN
       Keeps(q, [Mem(q) EXCEPT !.number = CHOOSE n \in free : \A m \in free : n <= m])
    /\ UNCHANGED <<rowVars, noteVars>>

\* Mutant: there is no unique index.
SlugNeverTaken(m) == FALSE

\* components_org_slug.
SlugTaken(m) == m.number \in SlugsOfOthers(m.id)

\* INSERT ... ON CONFLICT (id) DO UPDATE: a component deleted meanwhile is back.
SaveCustomComponent(q) ==
    /\ At(q, <<"save", "component">>)
    /\ IF SlugTaken(Mem(q)) THEN Ends(q) /\ UNCHANGED comps
       ELSE /\ comps' = With(comps, Mem(q).id, [slug |-> Mem(q).number, by |-> q])
            /\ Proceeds(q)
    /\ UNCHANGED <<rowVars, messages, fields, agents, agentSteps>>

GetComponent(q) ==
    /\ At(q, <<"getComponent", "component">>)
    /\ IF Mem(q).id \in DOMAIN comps THEN Proceeds(q) ELSE Ends(q)
    /\ UNCHANGED <<rowVars, noteVars>>

\* replaceComponentFields: all are deleted, then those of the body inserted,
\* which needs the component to be there.
ClearComponentFields(q) ==
    /\ At(q, <<"clearFields", "component">>)
    /\ fields' = [fields EXCEPT ![Mem(q).id] = Null]
    /\ Proceeds(q)
    /\ UNCHANGED <<rowVars, messages, comps, agents, agentSteps>>

InsertComponentFields(q) ==
    /\ At(q, <<"insertFields", "component">>)
    /\ IF Mem(q).id \in DOMAIN comps
       THEN fields' = [fields EXCEPT ![Mem(q).id] = q] /\ Proceeds(q)
       ELSE Ends(q) /\ UNCHANGED fields
    /\ UNCHANGED <<rowVars, messages, comps, agents, agentSteps>>

\* The fields that are left go with their component.
DeleteComponent(q) ==
    /\ At(q, <<"delete", "component">>)
    /\ comps' = Without(comps, Mem(q).id)
    /\ fields' = [fields EXCEPT ![Mem(q).id] = Null]
    /\ Proceeds(q)
    /\ UNCHANGED <<rowVars, messages, agents, agentSteps>>

(***************************************************************************)
(* Agent sessions.                                                         *)
(***************************************************************************)
CreateAgentSession(q) ==
    /\ At(q, <<"create", "agent">>)
    /\ agents' = [agents EXCEPT ![q] = "running"]
    /\ Proceeds(q)
    /\ UNCHANGED <<rowVars, messages, comps, fields, agentSteps>>

LoadSession(q) ==
    /\ At(q, <<"load", "agent">>)
    /\ Proceeds(q)
    /\ UNCHANGED <<rowVars, noteVars>>

\* Mutant: a session may be finished again.
Finishable(i) == agents[i] # Null

\* WHERE status = 'running'; else the answer is a conflict.
StillRunning(i) == agents[i] = "running"

FinishAgentSession(q) ==
    /\ At(q, <<"finish", "agent">>)
    /\ agents' = IF StillRunning(Mem(q).id) THEN [agents EXCEPT ![Mem(q).id] = Mem(q).status]
                 ELSE agents
    /\ Proceeds(q)
    /\ UNCHANGED <<rowVars, messages, comps, fields, agentSteps>>

StepsOf(i) == {s.seq : s \in {t \in agentSteps : t.session = i}}
LastStep(i) == CHOOSE n \in StepsOf(i) \cup {0} : \A k \in StepsOf(i) : k <= n

\* The subquery and the INSERT of CreateAgentSessionStep: two statements at
\* once may find the same number, of which UNIQUE (session_id, seq) lets one
\* through.
NumberAgentStep(q) ==
    /\ At(q, <<"number", "agent">>)
    /\ Keeps(q, [Mem(q) EXCEPT !.number = LastStep(Mem(q).id) + 1])
    /\ UNCHANGED <<rowVars, noteVars>>

\* Mutant: there is no such constraint.
SeqNeverTaken(m) == FALSE

SeqTaken(m) == m.number \in StepsOf(m.id)

CreateAgentSessionStep(q) ==
    /\ At(q, <<"insertStep", "agent">>)
    /\ agentSteps' = IF SeqTaken(Mem(q)) THEN agentSteps
                     ELSE agentSteps \cup {[session |-> Mem(q).id, seq |-> Mem(q).number, id |-> q]}
    /\ Proceeds(q)
    /\ UNCHANGED <<rowVars, messages, comps, fields, agents>>

NoteStep(q) ==
    \/ /\ \/ CreateFolder(q) \/ GetFolder(q) \/ UpdateFolder(q) \/ DeleteFolder(q)
          \/ CreateComment(q) \/ GetComment(q) \/ UpdateComment(q) \/ SoftDeleteComment(q)
          \/ ResolveDocContent(q) \/ DropOldAsset(q) \/ CreateDoc(q) \/ GetDoc(q)
          \/ UpdateDoc(q) \/ SoftDeleteDoc(q) \/ CreateChatSession(q) \/ OwnedSession(q)
          \/ UpdateChatSession(q) \/ SoftDeleteChatSession(q) \/ TouchChatSession(q)
          \/ CreateEvent(q) \/ UpdateEvent(q) \/ DeleteEvent(q) \/ UpsertEventBySourceRef(q)
       /\ UNCHANGED noteVars
    \/ CreateChatMessage(q) \/ UniqueComponentSlug(q) \/ SaveCustomComponent(q)
    \/ GetComponent(q) \/ ClearComponentFields(q) \/ InsertComponentFields(q)
    \/ DeleteComponent(q) \/ CreateAgentSession(q) \/ LoadSession(q) \/ FinishAgentSession(q)
    \/ NumberAgentStep(q) \/ CreateAgentSessionStep(q)

(***************************************************************************)
(* Properties.                                                             *)
(***************************************************************************)
\* As long as requests neither overlap nor fail, a document has its file: the
\* new one is stored before the old one goes.  A file that documents share is
\* left out: the first of them to replace it takes it from the others.
DocFileStored ==
    clean /\ Quiet => \A i \in LiveIds("doc") :
        rows[<<"doc", i>>].file \notin {Null, Asset} => <<"doc", rows[<<"doc", i>>].file>> \in DOMAIN files

\* A chat session that nothing overlapped shows its last message in the list,
\* which is ordered by updated_at.
ChatShowsLatest ==
    clean /\ Quiet => \A i \in LiveIds("chat") :
        messages[i] # <<>> => rows[<<"chat", i>>].link = messages[i][Len(messages[i])]

\* However CI runs overlap, an event has one place in the timeline.
OneEventPerRef == \A r \in Refs : Cardinality(RefOwners("event", r)) <= 1

\* The slugs of the organisation's components differ, although they are looked
\* up and used in separate statements.
SlugsDiffer == \A i, j \in DOMAIN comps : i # j => comps[i].slug # comps[j].slug

\* A component and its fields come from one request, unless requests overlap or
\* fail between the three statements.
ComponentWhole == clean /\ Quiet => \A i \in DOMAIN comps : fields[i] = comps[i].by

\* An agent session is finished once: a late or repeated report changes nothing.
FinishedForGood ==
    [][\A i \in RowIds : agents[i] \in {"completed", "failed"} => agents'[i] = agents[i]]_agents

\* The steps of an agent session are numbered 1, 2, 3, ..., whoever reports
\* them at once.
StepsNumbered ==
    \A i \in RowIds : LET steps == {s \in agentSteps : s.session = i} IN
        StepsOf(i) = 1..Cardinality(steps)

\* Messages, components and agent sessions have the types of their columns.
NotesTypeOK ==
    /\ messages \in [RowIds -> Seq(Requests)]
    /\ \A i \in DOMAIN comps : i \in RowIds /\ comps[i] \in [slug : Nat, by : RowIds]
    /\ fields \in [RowIds -> RowIds \cup {Null}]
    /\ agents \in [RowIds -> AgentStatus \cup {Null}]
    /\ agentSteps \subseteq [session : RowIds, seq : Nat, id : Requests]
==============================================================================
