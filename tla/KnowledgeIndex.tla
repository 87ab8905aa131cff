--------------------------- MODULE KnowledgeIndex ---------------------------
(***************************************************************************)
(* The knowledge base: document rows and chunks in SQLite, one vector      *)
(* collection per embedding model in Chroma, and the version row that says *)
(* which collection is active (knowledge/service.py, rag/v2/indexer.py,    *)
(* document_repository.py, dense_index.py).  The endpoints run one job at  *)
(* a time on the event loop; a question reads the stores from a worker     *)
(* thread between any two writes of a job, and the process may die there.  *)
(***************************************************************************)
EXTENDS Naturals, FiniteSets

CONSTANTS Docs, Files,      \* documents; those load_all_documents builds
          Contents, NoContent, Models, NoModel,
          Restarts, Faults  \* bounds: restarts, failing embeddings or upserts

ASSUME IndexAssumption ==
  /\ Files \subseteq Docs /\ Models # {} /\ NoModel \notin Models
  /\ Restarts \in Nat /\ Faults \in Nat

VARIABLES documents, \* rag_documents
          chunks,    \* rag_chunks: the content a document's chunks were cut from
          vectors,   \* per collection, the content embedded for a document
          active,    \* the model of the active index version
          model,     \* the embedding provider of this process, NoModel if degraded
          job,       \* the running create, reindex or rebuild
          hurt,      \* history: documents of a failed embedding or an abandoned job
          budget
indexVars == <<documents, chunks, vectors, active, model, job, hurt, budget>>
stores == <<documents, chunks, vectors, active>>

Statuses == {"none", "processing", "active", "failed", "deleted"}
DocRow == [status : Statuses, content : Contents \cup {NoContent}]
Indexed == Contents \cup {NoContent}
Given == [Docs -> DocRow]
Job == [op : {"create", "reindex", "rebuild"}, doc : Docs, given : Given,
        todo : SUBSET Docs, cur : Docs, force : BOOLEAN, coll : Models,
        pc : {"next", "purge", "fill", "embed", "stale", "mark"}]
NoJob == [op |-> "idle"]
NoRow == [status |-> "none", content |-> NoContent]

IndexTypeOK ==
  /\ documents \in Given /\ chunks \in [Docs -> Indexed]
  /\ vectors \in [Models -> [Docs -> Indexed]]
  /\ active \in Models \cup {NoModel} /\ model \in Models \cup {NoModel}
  /\ job \in Job \cup {NoJob}
  /\ hurt \subseteq Docs
  /\ budget \in [restarts : 0..Restarts, faults : 0..Faults]

IndexInit ==
  /\ documents = [d \in Docs |-> NoRow] /\ chunks = [d \in Docs |-> NoContent]
  /\ vectors = [m \in Models |-> [d \in Docs |-> NoContent]]
  /\ active = NoModel /\ model = CHOOSE m \in Models : TRUE
  /\ job = NoJob /\ hurt = {}
  /\ budget = [restarts |-> 0, faults |-> 0]

JobFree == job = NoJob /\ UNCHANGED <<model, budget>>
ActiveDocs == {d \in Docs : documents[d].status = "active"}
Compatible == model # NoModel /\ active = model

Start_AsGivenOnly(op, d, given) ==
  job' = [op |-> op, doc |-> d, todo |-> {e \in Docs : given[e].status # "none"},
          force |-> ~Compatible, pc |-> "next", cur |-> d,
          coll |-> model, given |-> given]

\* index_documents up to the loop: a change of model re-indexes every active
\* document into the collection of the new one, the given documents first.
Start(op, d, given) ==
  LET force == ~Compatible
      old   == IF active # NoModel /\ force THEN ActiveDocs ELSE {}
      asked == {e \in Docs : given[e].status # "none"} IN
  job' = [op |-> op, doc |-> d, todo |-> asked \cup old, force |-> force, pc |-> "next",
          cur |-> d, coll |-> model,
          given |-> [e \in Docs |-> IF e \in old \ asked THEN documents[e] ELSE given[e]]]

Only(d, row) == [e \in Docs |-> IF e = d THEN row ELSE NoRow]

\* create_document: the same content of a document that is not deleted is
\* answered from the row, whatever its status.
CreateDocument(d, c) ==
  /\ JobFree
  /\ ~(documents[d].status \notin {"none", "deleted"} /\ documents[d].content = c)
  /\ LET row == [status |-> IF model = NoModel THEN "failed" ELSE "processing", content |-> c] IN
       /\ documents' = [documents EXCEPT ![d] = row]
       /\ IF model = NoModel THEN UNCHANGED job ELSE Start("create", d, Only(d, row))
  /\ UNCHANGED <<chunks, vectors, active, hurt>>

\* reindex_document: the row as it is, never marked active at the end.
Reindex(d) ==
  /\ JobFree /\ documents[d].status \notin {"none", "deleted"} /\ model # NoModel
  /\ Start("reindex", d, Only(d, documents[d]))
  /\ UNCHANGED <<stores, hurt>>

\* POST /rag/v2/index: everything load_all_documents builds now.
Rebuild ==
  /\ JobFree /\ model # NoModel
  /\ \E present \in (SUBSET Files) \ {{}} : \E text \in [present -> Contents] :
       Start("rebuild", CHOOSE d \in present : TRUE,
             [d \in Docs |-> IF d \in present THEN [status |-> "active", content |-> text[d]]
                                              ELSE NoRow])
  /\ UNCHANGED <<stores, hurt>>

\* _process_one_document up to upsert_document: unchanged active rows are skipped.
Unchanged_AsUnforced(d) ==
  documents[d].status = "active" /\ documents[d].content = job.given[d].content
Unchanged(d) ==
  ~job.force /\ documents[d].status = "active" /\ documents[d].content = job.given[d].content
Store(d) ==
  /\ job # NoJob /\ job.pc = "next" /\ d \in job.todo
  /\ IF Unchanged(d)
       THEN job' = [job EXCEPT !.todo = @ \ {d}] /\ UNCHANGED documents
       ELSE /\ job' = [job EXCEPT !.todo = @ \ {d}, !.cur = d, !.pc = "purge"]
            /\ documents' = [documents EXCEPT ![d] = job.given[d]]
  /\ UNCHANGED <<chunks, vectors, active, model, hurt, budget>>

Step(pc, next) == job # NoJob /\ job.pc = pc /\ job' = [job EXCEPT !.pc = next]
Purge ==
  /\ Step("purge", "fill")
  /\ chunks' = [chunks EXCEPT ![job.cur] = NoContent]
  /\ vectors' = [vectors EXCEPT ![job.coll][job.cur] = NoContent]
  /\ UNCHANGED <<documents, active, model, hurt, budget>>
Fill ==
  /\ Step("fill", "embed")
  /\ chunks' = [chunks EXCEPT ![job.cur] = job.given[job.cur].content]
  /\ UNCHANGED <<documents, vectors, active, model, hurt, budget>>
\* embed_texts and the dense upsert.  Either failure ends this document only: the
\* first is one of the job's errors and leaves the provider degraded until the
\* next restart, the second is logged and not looked at.
Embed ==
  /\ Step("embed", "next")
  /\ vectors' = [vectors EXCEPT ![job.coll][job.cur] = job.given[job.cur].content]
  /\ hurt' = hurt \ {job.cur}
  /\ UNCHANGED <<documents, chunks, active, model, budget>>
EmbedFails ==
  /\ Step("embed", "next") /\ budget.faults < Faults
  /\ budget' = [budget EXCEPT !.faults = @ + 1] /\ hurt' = hurt \cup {job.cur}
  /\ model' \in {model, NoModel}
  /\ UNCHANGED stores

\* commit_index_version: this version active and every other superseded, at once.
CommitVersion ==
  /\ job # NoJob /\ job.todo = {} /\ Step("next", IF job.op = "rebuild" THEN "stale" ELSE "mark")
  /\ active' = job.coll
  /\ UNCHANGED <<documents, chunks, vectors, model, hurt, budget>>

\* _cleanup_stale: active documents of the first document's type that this job
\* did not see, uploaded ones with them; the row only, not chunks or vectors.
Stale(d) == d \in ActiveDocs /\ job.given[d].status = "none"
CleanUp ==
  /\ Step("stale", "mark")
  /\ \E type \in SUBSET Docs :
       /\ job.doc \in type
       /\ documents' = [d \in Docs |-> IF d \in type /\ Stale(d)
                              THEN [documents[d] EXCEPT !.status = "deleted"]
                              ELSE documents[d]]
  /\ UNCHANGED <<chunks, vectors, active, model, hurt, budget>>

\* _index_single_document's check for chunks, then _mark_active or _mark_failed.
MarkIndexed ==
  /\ job # NoJob /\ job.pc = "mark" /\ job' = NoJob
  /\ documents' = IF job.op = "create"
               THEN [documents EXCEPT ![job.doc].status =
                       IF chunks[job.doc] = NoContent THEN "failed" ELSE "active"]
               ELSE documents
  /\ UNCHANGED <<chunks, vectors, active, model, hurt, budget>>

\* delete_document: row, chunks, then the vectors of the collection that answers now
\* (an unversioned, unused one when the provider does not match the active version).
Purged(m) == m = active /\ Compatible
Delete(d) ==
  /\ JobFree /\ documents[d].status \notin {"none", "deleted"}
  /\ documents' = [documents EXCEPT ![d].status = "deleted"]
  /\ chunks' = [chunks EXCEPT ![d] = NoContent]
  /\ vectors' = [m \in Models |-> IF Purged(m) THEN [vectors[m] EXCEPT ![d] = NoContent]
                                               ELSE vectors[m]]
  /\ UNCHANGED <<active, job, hurt>>

\* The process dies; its successor may be configured for another model, or fail
\* to load one.  A job is not resumed.
Restart(m) ==
  /\ budget.restarts < Restarts
  /\ budget' = [budget EXCEPT !.restarts = @ + 1]
  /\ model' = m /\ job' = NoJob
  /\ hurt' = hurt \cup (IF job = NoJob THEN {} ELSE {d \in Docs : job.given[d].status # "none"})
  /\ UNCHANGED stores

\* What a question asked now is answered from.  HybridRetriever.retrieve and
\* EvidencePolicy.apply: the dense channel answers
\* from the active collection of a matching provider and its metadata holds no
\* status; the sparse one from the chunks of active documents.
Dense == IF Compatible THEN {d \in Docs : vectors[model][d] # NoContent} ELSE {}
Sparse == {d \in ActiveDocs : chunks[d] # NoContent}
StatusSeen(d) == IF d \in Sparse THEN documents[d].status ELSE "active"
Evidence == {d \in Dense \cup Sparse : StatusSeen(d) \notin {"deleted"}}

IndexNext ==
  \/ \E d \in Docs :
       (\E c \in Contents : CreateDocument(d, c)) \/ Reindex(d) \/ Store(d) \/ Delete(d)
  \/ Rebuild \/ Purge \/ Fill \/ Embed \/ EmbedFails \/ CommitVersion \/ CleanUp \/ MarkIndexed
  \/ \E m \in Models \cup {NoModel} : Restart(m)
IndexSpec == IndexInit /\ [][IndexNext]_indexVars

(***************************************************************************)
(* Properties                                                              *)
(***************************************************************************)

\* Between jobs, an active document is searchable through both channels with
\* the text its row holds, unless its last embedding failed or the process died in
\* the job that was at it: neither an update, nor a deletion and new
\* upload, nor the move of every document to the collection of another model
\* loses one.
ActiveIsSearchable ==
  job = NoJob => \A d \in ActiveDocs \ hurt :
    /\ chunks[d] = documents[d].content
    /\ Compatible => vectors[active][d] = documents[d].content

\* The switch to another model's collection comes after the job has been at
\* every active document: none is left out but those whose embedding failed.
\* One that failed does not hold the switch back, although indexer.py:92 says
\* the previous collection then stays active.
OnlyFailuresAreLeftOut ==
  [][active' # active =>
       \A d \in ActiveDocs \ hurt : vectors[active'][d] = documents[d].content]_indexVars
=============================================================================
