-------------------------- MODULE KnowledgeReader --------------------------
(***************************************************************************)
(* Readers of a document and its media (readDocument and readAsset of      *)
(* knowledge/store.ts) while the source is switched on and off, paused and *)
(* resumed, and the document is published, taken off line and published    *)
(* again.  A reader makes one query after another; between any two the     *)
(* database may change.  One document, whose revisions are numbered; each  *)
(* transaction of the synchronisation is one step (KnowledgeLease has its  *)
(* inside).  The source names the Agent that answers from the document:    *)
(* the server may be started with another one, and Agents may be deleted   *)
(* by their authors.                                                       *)
(***************************************************************************)
EXTENDS Integers

CONSTANTS
  Readers,
  Agents,
  Configured,    \* the Agent at first
  MaxRevision,   \* bound on the revisions of the document
  MaxEpoch,      \* bound on the pauses of the source
  MaxSwitches,   \* bound on the starts with another configuration
  Deletable      \* the Agents that may be deleted

ReaderAssumption ==
  /\ Configured \in Agents
  /\ MaxRevision \in Nat \ {0} /\ MaxEpoch \in Nat /\ MaxSwitches \in Nat
  /\ Deletable \subseteq Agents

VARIABLES
  source,    \* agentId, enabled, health and accessEpoch
  doc,       \* the document: its access epoch, whether it is gone, its active revision
  stored,    \* the newest revision that is stored
  published, \* the revisions with status published; the others are drafts
  agents,    \* the Agents that exist
  files,     \* the revisions whose files each Agent lists
  listed,    \* the Agent whose list the last transaction wrote, if there was one
  denied,    \* Feishu refuses the space
  switches,
  pc,        \* where each reader is
  read       \* what it asked for, what it knows, and the moments it may speak of

dbVars == <<source, doc, stored, published, agents, files, listed, denied, switches>>
vars == <<dbVars, pc, read>>

Revisions == 1..MaxRevision
\* source, document: the two queries of activeDocument, first and second time
Steps == {"idle", "asset", "source1", "document1", "revision", "blob", "assets",
          "source2", "document2", "returned", "refused"}
\* want: the revision asked for, 0 for the active one; epoch: of the source as it was read;
\* got: the revision found; readable: whether the document was readable since the blob was
\* read, or the last check began.
Knowledge == [want : 0..MaxRevision, epoch : 0..MaxEpoch, got : 0..MaxRevision,
              readable : BOOLEAN]
NoRead == [want |-> 0, epoch |-> 0, got |-> 0, readable |-> FALSE]

TypeOK ==
  /\ source \in [agent : Agents, enabled : BOOLEAN,
                 health : {"pending", "healthy", "paused"}, epoch : 0..MaxEpoch]
  /\ doc \in [epoch : -1..MaxEpoch, gone : BOOLEAN, active : 0..MaxRevision]
  /\ stored \in 0..MaxRevision /\ published \subseteq 1..stored
  /\ agents \subseteq Agents /\ files \in [Agents -> SUBSET Revisions] /\ listed \subseteq Agents
  /\ denied \in BOOLEAN
  /\ switches \in 0..MaxSwitches
  /\ pc \in [Readers -> Steps]
  /\ read \in [Readers -> Knowledge]
  /\ doc.active \in published \cup {0}

Init ==
  /\ source = [agent |-> Configured, enabled |-> TRUE, health |-> "pending", epoch |-> 0]
  /\ doc = [epoch |-> 0, gone |-> FALSE, active |-> 0]
  /\ stored = 0 /\ published = {} /\ denied = FALSE /\ switches = 0
  /\ agents = Agents /\ files = [g \in Agents |-> {}] /\ listed = {}
  /\ pc = [r \in Readers |-> "idle"]
  /\ read = [r \in Readers |-> NoRead]

-----------------------------------------------------------------------------

Available(s) == s.enabled /\ s.health = "healthy"
\* What activeDocument finds, given the epoch of the source.
InService(e, d) == d.epoch = e /\ ~d.gone /\ d.active # 0
Readable(s, d) == Available(s) /\ InService(s.epoch, d)
Served(s, d) == IF Readable(s, d) THEN {d.active} ELSE {}

Resting == {"idle", "returned", "refused"}

\* Every reader under way takes note of what is so now.
Witness ==
  read' = [r \in Readers |->
             IF pc[r] \in Resting THEN read[r]
             ELSE [read[r] EXCEPT !.readable = @ \/ Readable(source', doc')]]

\* A slip: the lease filter without enabled.
GuardWithoutSwitch == TRUE

\* acquire and the guards of mutate want an enabled source.
Guarded == source.enabled

\* A transaction of the synchronisation that ends in refreshAgentFiles, for the Agent that
\* the source names: it fails as a whole if that one does not exist.
Transaction(s, d) ==
  /\ Guarded /\ source.agent \in agents
  /\ source' = s /\ doc' = d
  /\ files' = [files EXCEPT ![s.agent] = Served(s, d)] /\ listed' = {s.agent}
  /\ Witness
  /\ UNCHANGED <<agents, denied, switches, pc>>

\* The validate phase: the space answers.
Resume ==
  /\ ~denied
  /\ Transaction([source EXCEPT !.health = "healthy"], doc)
  /\ UNCHANGED <<stored, published>>

\* A failure of the space ends a run: the source is paused.
Pause ==
  /\ denied
  /\ source.health # "paused" /\ source.epoch < MaxEpoch
  /\ Transaction([source EXCEPT !.health = "paused", !.epoch = @ + 1], doc)
  /\ UNCHANGED <<stored, published>>

\* A draft and its media are stored.
Store ==
  /\ Guarded /\ stored < MaxRevision
  /\ stored' = stored + 1
  /\ UNCHANGED <<source, doc, published, agents, files, listed, denied, switches, pc, read>>

BecomesPublished == published \cup {stored}

\* The newest revision is published, or found unchanged.
Publish ==
  /\ source.health = "healthy" /\ stored # 0
  /\ Transaction(source, [epoch |-> source.epoch, gone |-> FALSE, active |-> stored])
  /\ published' = BecomesPublished
  /\ UNCHANGED stored

\* The document is removed, denied or moved out of the space.
TakeOffline ==
  /\ ~doc.gone
  /\ Transaction(source, [doc EXCEPT !.epoch = -1, !.gone = TRUE])
  /\ UNCHANGED <<stored, published>>

\* ensureSource, when the server is started with another Agent or another value of
\* sync.enabled: no list is written.  The server as it is wired (Knowledge.js) starts the
\* service with an Agent it has found, and with sync on only; off comes by another program
\* or by hand.
EnsureSource ==
  /\ switches < MaxSwitches /\ switches' = switches + 1
  /\ \E g \in Agents, on \in BOOLEAN :
       source' = [source EXCEPT !.agent = g, !.enabled = on] /\ source' # source
  /\ UNCHANGED doc
  /\ Witness
  /\ UNCHANGED <<stored, published, agents, files, listed, denied, pc>>

Deny ==
  /\ denied' = ~denied
  /\ UNCHANGED <<source, doc, stored, published, agents, files, listed, switches, pc, read>>

DeleteAgent ==
  /\ \E g \in agents \cap Deletable : agents' = agents \ {g}
  /\ UNCHANGED <<source, doc, stored, published, files, listed, denied, switches, pc, read>>

Database ==
  \/ Resume \/ Pause \/ Store \/ Publish \/ TakeOffline
  \/ EnsureSource \/ Deny \/ DeleteAgent

-----------------------------------------------------------------------------

To(r, step, known) ==
  /\ pc' = [pc EXCEPT ![r] = step]
  /\ read' = [read EXCEPT ![r] = IF step \in Resting THEN NoRead ELSE known]
  /\ UNCHANGED dbVars

\* A read begins: of a revision, or of an asset of a stored one.
Begin(r, w) ==
  /\ pc[r] \in Resting
  /\ LET call == [NoRead EXCEPT !.want = w]
     IN  \/ To(r, "source1", call)
         \/ w # 0 /\ To(r, "asset", call)

\* readAsset asks for the source and the asset before anything else.
FindAsset(r) ==
  /\ pc[r] = "asset"
  /\ To(r, IF Available(source) /\ read[r].want <= stored THEN "source1" ELSE "refused", read[r])

\* activeDocument reads the source ...
ReadSource(r, from, to) ==
  /\ pc[r] = from
  /\ IF Available(source)
     THEN To(r, to, [read[r] EXCEPT !.epoch = source.epoch, !.readable = Readable(source, doc)])
     ELSE To(r, "refused", read[r])

\* ... and the document of that epoch.
InServiceNow(r) == InService(read[r].epoch, doc)

ReadDocument1(r) ==
  /\ pc[r] = "document1"
  /\ To(r, IF InServiceNow(r) THEN "revision" ELSE "refused",
        IF read[r].want = 0 THEN [read[r] EXCEPT !.got = doc.active]
        ELSE [read[r] EXCEPT !.got = read[r].want])

\* readDocument and readAsset take published revisions only.
Published(n) == n \in published

ReadRevision(r) ==
  /\ pc[r] = "revision"
  /\ To(r, IF Published(read[r].got) THEN "blob" ELSE "refused", read[r])

\* A slip: no second check.
ReturnAtOnce == "returned"

\* activeDocument, once more.
CheckAgain == "source2"

\* The snapshot (or the bytes of the asset), then the list of assets.
ReadBlob(r) ==
  /\ pc[r] = "blob"
  /\ To(r, "assets", [read[r] EXCEPT !.readable = Readable(source, doc)])

ReadAssets(r) == pc[r] = "assets" /\ To(r, CheckAgain, read[r])

ReadDocument2(r) ==
  /\ pc[r] = "document2"
  /\ To(r, IF InServiceNow(r) THEN "returned" ELSE "refused", read[r])

Reads(r) ==
  \/ FindAsset(r) \/ ReadSource(r, "source1", "document1") \/ ReadDocument1(r)
  \/ ReadRevision(r) \/ ReadBlob(r) \/ ReadAssets(r)
  \/ ReadSource(r, "source2", "document2") \/ ReadDocument2(r)

Next == Database \/ \E r \in Readers : (\E w \in 0..MaxRevision : Begin(r, w)) \/ Reads(r)

Spec == Init /\ [][Next]_vars
\* A worker that meets a failure of the space tries to record it, again and again.
FairSpec == Spec /\ WF_vars(Pause)

-----------------------------------------------------------------------------
(***************************************************************************)
(* Properties                                                              *)
(***************************************************************************)

\* The revision has been active at some time, and is the one that was asked for by name.
WasServed(r) ==
  read[r].got \in published /\ read[r].want \in {0, read[r].got}

\* What is returned was served, never a draft, and it was allowed at some moment after all
\* its parts had been read: a document taken off line while it is read is not handed out,
\* though source and document are read by two queries, twice.
ReturnedWasReadable ==
  [][\A r \in Readers : pc[r] # "returned" /\ pc'[r] = "returned" =>
       WasServed(r) /\ (read[r].readable \/ Readable(source, doc))]_vars

\* Whenever the source is on and names the Agent whose list was written last, that list is
\* the files of the documents in service, though switching it off and on, or to another
\* Agent and back, does not refresh the list.  An Agent the source has come to name since
\* has the list it had, and the searches it makes fail (search.ts:254), until the next
\* transaction; the one it named before keeps its list.
EnabledFilesExact ==
  source.enabled /\ source.agent \in listed /\ source.agent \in agents =>
    files[source.agent] = Served(source, doc)

\* docs/boyankb/sync.md:52: a refusal of the space ends the service of the source, if it
\* lasts and runs go on.  Not so once its Agent is deleted: the pause is rolled back.
RefusalEndsService == [](denied /\ source.epoch < MaxEpoch /\ source.enabled ~>
                           ~denied \/ ~source.enabled \/ ~Readable(source, doc))
=============================================================================
