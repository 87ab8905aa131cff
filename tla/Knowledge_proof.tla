--------------------------- MODULE Knowledge_proof ----------------------------
(* Theorems about KnowledgeIndex, Memory and Regional: what the index      *)
(* answers from, what is remembered of a conversation, and what a name of  *)
(* the knowledge packages stands for; for any documents, models, threads,  *)
(* regions, places and packages, and any number of failures.               *)
EXTENDS KnowledgeIndex, Memory, Regional, FiniteSetTheorems, TLAPS

USE IndexAssumption

-----------------------------------------------------------------------------
(* KnowledgeIndex                                                          *)

Asked(d) == job.given[d].status # "none"
Under(d) == job.pc \in {"purge", "fill", "embed"} /\ job.cur = d
Embedded(d, m) == chunks[d] = documents[d].content /\ vectors[m][d] = documents[d].content

(* Between jobs: what ActiveIsSearchable asks for, whatever the provider. *)
AtRest == job = NoJob => \A d \in ActiveDocs \ hurt : active # NoModel /\ Embedded(d, active)

(* During a job: documents it leaves alone, or has yet to see and need not *)
(* embed again, are in its collection, which then is the active one; those *)
(* it is done with are in its collection.                                  *)
AtWork ==
  job # NoJob =>
    /\ \A d \in job.todo : Asked(d)
    /\ ~job.force => active = job.coll
    /\ \A d \in ActiveDocs \ hurt :
         ~Asked(d) \/ (d \in job.todo /\ ~job.force) => active = job.coll /\ Embedded(d, job.coll)
    /\ \A d \in Docs \ hurt :
         Asked(d) /\ d \notin job.todo /\ ~Under(d) => Embedded(d, job.coll)
    /\ job.pc \in {"purge", "fill", "embed"} =>
         Asked(job.cur) /\ job.cur \notin job.todo /\ documents[job.cur] = job.given[job.cur]
    /\ job.pc = "embed" => chunks[job.cur] = job.given[job.cur].content
    /\ job.pc \in {"stale", "mark"} => active = job.coll /\ job.todo = {}
    /\ job.op = "create" => Asked(job.doc)

IndexInv == AtRest /\ AtWork

-----------------------------------------------------------------------------
(* Types *)

LEMMA IndexTypeInit == IndexInit => IndexTypeOK
<1> SUFFICES ASSUME IndexInit PROVE IndexTypeOK
  OBVIOUS
<1>1. model \in Models
  BY DEF IndexInit
<1>2. documents \in Given /\ chunks \in [Docs -> Indexed] /\ vectors \in [Models -> [Docs -> Indexed]]
  BY DEF IndexInit, NoRow, Given, DocRow, Statuses, Indexed
<1>3. QED
  BY <1>1, <1>2 DEF IndexInit, IndexTypeOK

(* The job that index_documents starts. *)
LEMMA StartType ==
  ASSUME IndexTypeOK, NEW op \in {"create", "reindex", "rebuild"}, NEW d \in Docs, NEW given \in Given,
         model \in Models, Start(op, d, given)
  PROVE  /\ job' \in Job /\ job' # NoJob /\ job'.op = op /\ job'.doc = d /\ job'.pc = "next"
         /\ job'.coll = model /\ job'.force = ~Compatible
         /\ job'.todo = {e \in Docs : job'.given[e].status # "none"}
         /\ \A e \in Docs : given[e].status # "none" => e \in job'.todo
         /\ active # NoModel /\ ~Compatible => ActiveDocs \subseteq job'.todo
<1> DEFINE force == ~Compatible
           old == IF active # NoModel /\ force THEN ActiveDocs ELSE {}
           asked == {e \in Docs : given[e].status # "none"}
           all == [e \in Docs |-> IF e \in old \ asked THEN documents[e] ELSE given[e]]
           todo == asked \cup old
<1>1. job' = [op |-> op, doc |-> d, todo |-> todo, force |-> force, pc |-> "next",
              cur |-> d, coll |-> model, given |-> all]
  BY DEF Start
<1>2. all \in Given /\ todo \subseteq Docs /\ force \in BOOLEAN
  BY DEF IndexTypeOK, Given, ActiveDocs, Compatible
<1>3. todo = {e \in Docs : all[e].status # "none"}
  BY DEF IndexTypeOK, Given, ActiveDocs
<1>4. (\A e \in Docs : given[e].status # "none" => e \in todo)
      /\ (active # NoModel /\ ~Compatible => ActiveDocs \subseteq todo)
  OBVIOUS
<1> HIDE DEF all, todo, force
<1>5. job' \in Job
  BY <1>1, <1>2 DEF Job
<1>6. job'.given = all /\ job'.todo = todo /\ job'.force = force /\ job'.op = op /\ job'.doc = d
      /\ job'.pc = "next" /\ job'.coll = model /\ job' # NoJob
  BY <1>1 DEF NoJob
<1>7. QED
  BY <1>3, <1>4, <1>5, <1>6 DEF force

LEMMA OnlyType ==
  ASSUME NEW d \in Docs, NEW row \in DocRow PROVE Only(d, row) \in Given /\ Only(d, row)[d] = row
BY DEF Only, Given, DocRow, NoRow, Statuses

(* Steps of a job change only the fields they name. *)
LEMMA JobFields ==
  ASSUME job \in Job
  PROVE  /\ job # NoJob
         /\ \A x \in {"next", "purge", "fill", "embed", "stale", "mark"} :
              LET j == [job EXCEPT !.pc = x] IN
              /\ j \in Job /\ j.pc = x /\ j.op = job.op /\ j.doc = job.doc /\ j.given = job.given
              /\ j.todo = job.todo /\ j.cur = job.cur /\ j.force = job.force /\ j.coll = job.coll
         /\ \A d \in Docs :
              LET j == [job EXCEPT !.todo = @ \ {d}] IN
              /\ j \in Job /\ j.pc = job.pc /\ j.op = job.op /\ j.doc = job.doc
              /\ j.given = job.given /\ j.todo = job.todo \ {d} /\ j.cur = job.cur
              /\ j.force = job.force /\ j.coll = job.coll
         /\ \A d \in Docs :
              LET j == [job EXCEPT !.todo = @ \ {d}, !.cur = d, !.pc = "purge"] IN
              /\ j \in Job /\ j.pc = "purge" /\ j.op = job.op /\ j.doc = job.doc
              /\ j.given = job.given /\ j.todo = job.todo \ {d} /\ j.cur = d
              /\ j.force = job.force /\ j.coll = job.coll
<1>1. job # NoJob
  BY DEF Job, NoJob
<1>2. ASSUME NEW x \in {"next", "purge", "fill", "embed", "stale", "mark"}
      PROVE  LET j == [job EXCEPT !.pc = x] IN
              /\ j \in Job /\ j.pc = x /\ j.op = job.op /\ j.doc = job.doc /\ j.given = job.given
              /\ j.todo = job.todo /\ j.cur = job.cur /\ j.force = job.force /\ j.coll = job.coll
  BY DEF Job
<1>3. ASSUME NEW d \in Docs
      PROVE  LET j == [job EXCEPT !.todo = @ \ {d}] IN
              /\ j \in Job /\ j.pc = job.pc /\ j.op = job.op /\ j.doc = job.doc
              /\ j.given = job.given /\ j.todo = job.todo \ {d} /\ j.cur = job.cur
              /\ j.force = job.force /\ j.coll = job.coll
  BY DEF Job
<1>4. ASSUME NEW d \in Docs
      PROVE  LET j == [job EXCEPT !.todo = @ \ {d}, !.cur = d, !.pc = "purge"] IN
              /\ j \in Job /\ j.pc = "purge" /\ j.op = job.op /\ j.doc = job.doc
              /\ j.given = job.given /\ j.todo = job.todo \ {d} /\ j.cur = d
              /\ j.force = job.force /\ j.coll = job.coll
  BY DEF Job
<1>5. QED
  BY <1>1, <1>2, <1>3, <1>4

LEMMA Working == ASSUME IndexTypeOK, job # NoJob PROVE job \in Job
BY DEF IndexTypeOK

(* A job starts, or a creation without a provider ends at once. *)
StartsJob(op, d, given) ==
  /\ op \in {"create", "reindex", "rebuild"} /\ d \in Docs /\ given \in Given
  /\ given[d].status # "none" /\ model \in Models /\ job = NoJob
  /\ Start(op, d, given)

LEMMA CreateStarts ==
  ASSUME IndexTypeOK, NEW d \in Docs, NEW c \in Contents, CreateDocument(d, c)
  PROVE  \E row \in DocRow :
           /\ row.status \in {"processing", "failed"} /\ documents' = [documents EXCEPT ![d] = row]
           /\ UNCHANGED <<chunks, vectors, active, hurt, model, budget>> /\ job = NoJob
           /\ job' = job \/ StartsJob("create", d, Only(d, row))
<1> DEFINE status == IF model = NoModel THEN "failed" ELSE "processing"
           row == [status |-> status, content |-> c]
<1>1. status \in {"processing", "failed"}
  OBVIOUS
<1> HIDE DEF status
<1>2. row \in DocRow /\ row.status \in {"processing", "failed"}
  BY <1>1 DEF DocRow, Statuses
<1>3. documents' = [documents EXCEPT ![d] = row]
  BY DEF CreateDocument, status
<1>4. job' = job \/ (model # NoModel /\ Start("create", d, Only(d, row)))
  BY DEF CreateDocument, status
<1> HIDE DEF row
<1>5. Only(d, row) \in Given /\ Only(d, row)[d].status # "none"
  BY <1>2, OnlyType
<1>6. QED
  BY <1>2, <1>3, <1>4, <1>5 DEF CreateDocument, JobFree, IndexTypeOK, StartsJob

LEMMA ReindexStarts ==
  ASSUME IndexTypeOK, NEW d \in Docs, Reindex(d)
  PROVE  /\ StartsJob("reindex", d, Only(d, documents[d]))
         /\ UNCHANGED <<documents, chunks, vectors, active, hurt, model, budget>>
<1>1. documents[d] \in DocRow /\ documents[d].status # "none"
  BY DEF IndexTypeOK, Given, Reindex
<1>2. Only(d, documents[d]) \in Given /\ Only(d, documents[d])[d].status # "none"
  BY <1>1, OnlyType
<1>3. QED
  BY <1>2 DEF Reindex, JobFree, IndexTypeOK, StartsJob, stores

LEMMA RebuildStarts ==
  ASSUME IndexTypeOK, Rebuild
  PROVE  /\ \E d \in Docs, given \in Given : StartsJob("rebuild", d, given)
         /\ UNCHANGED <<documents, chunks, vectors, active, hurt, model, budget>>
<1>0. PICK present \in (SUBSET Files) \ {{}} : \E text \in [present -> Contents] :
        Start("rebuild", CHOOSE d \in present : TRUE,
              [d \in Docs |-> IF d \in present THEN [status |-> "active", content |-> text[d]]
                                               ELSE NoRow])
  BY DEF Rebuild
<1>1. PICK text \in [present -> Contents] :
        Start("rebuild", CHOOSE d \in present : TRUE,
              [d \in Docs |-> IF d \in present THEN [status |-> "active", content |-> text[d]]
                                               ELSE NoRow])
  BY <1>0
<1> DEFINE d == CHOOSE x \in present : TRUE
           given == [x \in Docs |-> IF x \in present
                                      THEN [status |-> "active", content |-> text[x]] ELSE NoRow]
<1>2. d \in present /\ present \subseteq Docs
  <2>1. \E x : x \in present
    OBVIOUS
  <2>2. d \in present
    BY <2>1
  <2>3. QED
    BY <2>2
<1>3. given \in Given
  BY DEF Given, DocRow, NoRow, Statuses
<1>4. given[d].status = "active"
  BY <1>2
<1>5. Start("rebuild", d, given)
  BY <1>1
<1> HIDE DEF d, given
<1>6. StartsJob("rebuild", d, given)
  BY <1>2, <1>3, <1>4, <1>5 DEF Rebuild, JobFree, IndexTypeOK, StartsJob
<1>7. QED
  BY <1>2, <1>3, <1>6 DEF Rebuild, JobFree, stores

LEMMA IndexTypeStep == ASSUME IndexTypeOK, [IndexNext]_indexVars PROVE IndexTypeOK'
<1>1. CASE UNCHANGED indexVars
  BY <1>1 DEF indexVars, IndexTypeOK
<1>2. ASSUME NEW d \in Docs, NEW c \in Contents, CreateDocument(d, c) PROVE IndexTypeOK'
  <2>1. PICK row \in DocRow :
          /\ documents' = [documents EXCEPT ![d] = row]
          /\ UNCHANGED <<chunks, vectors, active, hurt, model, budget>> /\ job = NoJob
          /\ job' = job \/ StartsJob("create", d, Only(d, row))
    BY <1>2, CreateStarts
  <2>2. job' \in Job \cup {NoJob}
    BY <2>1, StartType DEF StartsJob
  <2>3. documents' \in Given
    BY <2>1 DEF IndexTypeOK, Given
  <2>4. QED
    BY <2>1, <2>2, <2>3 DEF IndexTypeOK
<1>3. ASSUME NEW d \in Docs, Reindex(d) PROVE IndexTypeOK'
  <2>1. job' \in Job \cup {NoJob}
    BY <1>3, ReindexStarts, StartType DEF StartsJob
  <2>2. QED
    BY <1>3, <2>1, ReindexStarts DEF IndexTypeOK
<1>4. CASE Rebuild
  <2>1. job' \in Job \cup {NoJob}
    BY <1>4, RebuildStarts, StartType DEF StartsJob
  <2>2. QED
    BY <1>4, <2>1, RebuildStarts DEF IndexTypeOK
<1>5. ASSUME NEW d \in Docs, Store(d) PROVE IndexTypeOK'
  <2>1. job \in Job /\ job.given[d] \in DocRow
    BY <1>5, Working DEF Store, Job, Given
  <2>2. job' \in Job
    <3>1. /\ [job EXCEPT !.todo = @ \ {d}] \in Job
          /\ [job EXCEPT !.todo = @ \ {d}, !.cur = d, !.pc = "purge"] \in Job
      BY <2>1, JobFields
    <3>2. QED
      BY <1>5, <3>1 DEF Store
  <2>3. documents' \in Given
    BY <1>5, <2>1 DEF Store, IndexTypeOK, Given
  <2>4. QED
    BY <1>5, <2>2, <2>3 DEF Store, IndexTypeOK
<1>6. CASE Purge \/ Fill \/ Embed \/ EmbedFails \/ CommitVersion
  <2>1. job \in Job /\ job.cur \in Docs /\ job.coll \in Models /\ job.given[job.cur].content \in Indexed
    BY <1>6, Working DEF Purge, Fill, Embed, EmbedFails, CommitVersion, Step, Job, Given, DocRow, Indexed
  <2>2. job' \in Job
    <3>1. PICK x \in {"next", "purge", "fill", "embed", "stale", "mark"} : job' = [job EXCEPT !.pc = x]
      BY <1>6 DEF Purge, Fill, Embed, EmbedFails, CommitVersion, Step
    <3>2. [job EXCEPT !.pc = x] \in Job
      BY <2>1, JobFields
    <3>3. QED
      BY <3>1, <3>2
  <2>3. CASE Purge
    BY <2>1, <2>2, <2>3 DEF Purge, IndexTypeOK, Indexed
  <2>4. CASE Fill
    BY <2>1, <2>2, <2>4 DEF Fill, IndexTypeOK
  <2>5. CASE Embed
    BY <2>1, <2>2, <2>5 DEF Embed, IndexTypeOK
  <2>6. CASE EmbedFails
    <3>1. budget' \in [restarts : 0..Restarts, faults : 0..Faults]
      BY <2>6 DEF EmbedFails, IndexTypeOK
    <3>2. QED
      BY <2>1, <2>2, <2>6, <3>1 DEF EmbedFails, IndexTypeOK, stores
  <2>7. CASE CommitVersion
    BY <2>1, <2>2, <2>7 DEF CommitVersion, IndexTypeOK
  <2>8. QED
    BY <1>6, <2>3, <2>4, <2>5, <2>6, <2>7
<1>7. CASE CleanUp \/ MarkIndexed
  <2>1. job \in Job
    BY <1>7, Working DEF CleanUp, MarkIndexed, Step
  <2>2. job' \in Job \cup {NoJob}
    BY <1>7, <2>1, JobFields DEF CleanUp, MarkIndexed, Step
  <2>3. \A e \in Docs : documents[e] \in DocRow
    BY DEF IndexTypeOK, Given
  <2>4. \A e \in Docs, x \in Statuses : [documents[e] EXCEPT !.status = x] \in DocRow
    BY <2>3 DEF DocRow
  <2>5. CASE CleanUp
    <3>1. PICK type \in SUBSET Docs :
            documents' = [d \in Docs |-> IF d \in type /\ Stale(d)
                                      THEN [documents[d] EXCEPT !.status = "deleted"] ELSE documents[d]]
      BY <2>5 DEF CleanUp
    <3>2. documents' \in Given
      BY <2>3, <2>4, <3>1 DEF Given, Statuses
    <3>3. QED
      BY <2>2, <2>5, <3>2 DEF CleanUp, IndexTypeOK
  <2>6. CASE MarkIndexed
    <3>1. PICK x \in Statuses : documents' = documents \/ documents' = [documents EXCEPT ![job.doc] = [documents[job.doc] EXCEPT !.status = x]]
      BY <2>1, <2>6 DEF MarkIndexed, IndexTypeOK, Given, Statuses, Job
    <3>2. documents' \in Given
      BY <2>1, <2>4, <3>1 DEF IndexTypeOK, Given, Job
    <3>3. QED
      BY <2>2, <2>6, <3>2 DEF MarkIndexed, IndexTypeOK
  <2>7. QED
    BY <1>7, <2>5, <2>6
<1>8. ASSUME NEW d \in Docs, Delete(d) PROVE IndexTypeOK'
  <2>1. [documents[d] EXCEPT !.status = "deleted"] \in DocRow
    BY DEF IndexTypeOK, Given, DocRow, Statuses
  <2>2. documents' \in Given
    BY <1>8, <2>1 DEF Delete, IndexTypeOK, Given
  <2>3. chunks' \in [Docs -> Indexed] /\ vectors' \in [Models -> [Docs -> Indexed]]
    BY <1>8 DEF Delete, IndexTypeOK, Indexed
  <2>4. QED
    BY <1>8, <2>2, <2>3 DEF Delete, JobFree, IndexTypeOK
<1>9. ASSUME NEW m \in Models \cup {NoModel}, Restart(m) PROVE IndexTypeOK'
  <2>1. budget' \in [restarts : 0..Restarts, faults : 0..Faults]
    BY <1>9 DEF Restart, IndexTypeOK
  <2>2. hurt' \subseteq Docs
    BY <1>9 DEF Restart, IndexTypeOK
  <2>3. QED
    BY <1>9, <2>1, <2>2 DEF Restart, IndexTypeOK, stores
<1>10. QED
  BY <1>1, <1>2, <1>3, <1>4, <1>5, <1>6, <1>7, <1>8, <1>9 DEF IndexNext

-----------------------------------------------------------------------------
(* The index *)

(* A job that starts asks for every active document, or the collection     *)
(* it fills is the active one.                                             *)
LEMMA StartIndex ==
  ASSUME IndexTypeOK, IndexInv, NEW op, NEW d, NEW given, StartsJob(op, d, given),
         UNCHANGED <<chunks, vectors, active, hurt>>,
         \A e \in ActiveDocs' : documents'[e] = documents[e] /\ e \in ActiveDocs
  PROVE  IndexInv'
<1>1. /\ job' \in Job /\ job' # NoJob /\ job'.op = op /\ job'.doc = d /\ job'.pc = "next"
      /\ job'.coll = model /\ job'.force = ~Compatible
      /\ job'.todo = {e \in Docs : job'.given[e].status # "none"}
      /\ d \in job'.todo
      /\ active # NoModel /\ ~Compatible => ActiveDocs \subseteq job'.todo
  BY StartType DEF StartsJob
<1>2. ~job'.force => active = job'.coll
  BY <1>1 DEF Compatible
<1>3. ASSUME NEW e \in ActiveDocs' \ hurt,
             job'.given[e].status = "none" \/ (e \in job'.todo /\ ~job'.force)
      PROVE  active = job'.coll /\ chunks[e] = documents'[e].content
             /\ vectors[job'.coll][e] = documents'[e].content
  <2>1. e \in ActiveDocs \ hurt /\ documents'[e] = documents[e]
    BY <1>3
  <2>2. active # NoModel /\ Embedded(e, active)
    BY <2>1 DEF IndexInv, AtRest, StartsJob
  <2>3. ~job'.force
    BY <1>1, <1>3, <2>1, <2>2
  <2>4. QED
    BY <1>2, <2>1, <2>2, <2>3 DEF Embedded
<1>4. \A e \in Docs : job'.given[e].status # "none" => e \in job'.todo
  BY <1>1
<1>5. d \in Docs
  BY DEF StartsJob
<1>6. AtWork'
  BY <1>1, <1>2, <1>3, <1>4, <1>5 DEF AtWork, Asked, Embedded
<1>7. QED
  BY <1>1, <1>6 DEF IndexInv, AtRest

LEMMA CreateIndex ==
  ASSUME IndexTypeOK, IndexInv, NEW d \in Docs, NEW c \in Contents, CreateDocument(d, c)
  PROVE  IndexInv'
<1>1. PICK row \in DocRow :
        /\ row.status \in {"processing", "failed"} /\ documents' = [documents EXCEPT ![d] = row]
        /\ UNCHANGED <<chunks, vectors, active, hurt, model, budget>> /\ job = NoJob
        /\ job' = job \/ StartsJob("create", d, Only(d, row))
  BY CreateStarts
<1>2. \A e \in ActiveDocs' : documents'[e] = documents[e] /\ e \in ActiveDocs
  BY <1>1 DEF ActiveDocs, IndexTypeOK, Given
<1>3. CASE job' = job
  BY <1>1, <1>2, <1>3 DEF IndexInv, AtRest, AtWork, Embedded
<1>4. CASE StartsJob("create", d, Only(d, row))
  BY <1>1, <1>2, <1>4, StartIndex
<1>5. QED
  BY <1>1, <1>3, <1>4

LEMMA StoreIndex ==
  ASSUME IndexTypeOK, IndexInv, NEW d \in Docs, Store(d) PROVE IndexInv'
<1>1. job \in Job /\ job # NoJob /\ job.pc = "next" /\ d \in job.todo
      /\ UNCHANGED <<chunks, vectors, active, hurt>>
  BY Working DEF Store
<1>2. documents \in [Docs -> DocRow]
  BY DEF IndexTypeOK, Given
<1>3. CASE Unchanged(d)
  <2> DEFINE j == [job EXCEPT !.todo = @ \ {d}]
  <2>1. job' = j /\ documents' = documents
    BY <1>3 DEF Store
  <2>2. /\ j \in Job /\ j.pc = job.pc /\ j.op = job.op /\ j.doc = job.doc
        /\ j.given = job.given /\ j.todo = job.todo \ {d} /\ j.cur = job.cur
        /\ j.force = job.force /\ j.coll = job.coll
    BY <1>1, JobFields
  <2> HIDE DEF j
  <2>3. d \notin hurt => Embedded(d, job.coll)
    BY <1>1, <1>3 DEF Unchanged, IndexInv, AtWork, ActiveDocs
  <2>4. job' # NoJob
    BY <2>1, <2>2 DEF Job, NoJob
  <2>5. AtWork'
    <3>1. \A e \in ActiveDocs' \ hurt' :
            ~Asked(e)' \/ (e \in job'.todo /\ ~job'.force) => active' = job'.coll /\ Embedded(e, job.coll)
      BY <1>1, <2>1, <2>2 DEF IndexInv, AtWork, Asked, ActiveDocs
    <3>2. \A e \in Docs \ hurt : Asked(e) /\ e \notin job'.todo => Embedded(e, job.coll)
      BY <1>1, <2>1, <2>2, <2>3 DEF IndexInv, AtWork, Under
    <3>3. QED
      BY <1>1, <2>1, <2>2, <3>1, <3>2 DEF IndexInv, AtWork, Asked, Embedded
  <2>6. QED
    BY <2>4, <2>5 DEF IndexInv, AtRest
<1>4. CASE ~Unchanged(d)
  <2> DEFINE j == [job EXCEPT !.todo = @ \ {d}, !.cur = d, !.pc = "purge"]
  <2>1. job' = j /\ documents' = [documents EXCEPT ![d] = job.given[d]]
    BY <1>4 DEF Store
  <2>2. /\ j \in Job /\ j.pc = "purge" /\ j.op = job.op /\ j.doc = job.doc
        /\ j.given = job.given /\ j.todo = job.todo \ {d} /\ j.cur = d
        /\ j.force = job.force /\ j.coll = job.coll
    BY <1>1, JobFields
  <2> HIDE DEF j
  <2>3. Asked(d) /\ documents'[d] = job.given[d] /\ \A e \in Docs \ {d} : documents'[e] = documents[e]
    BY <1>1, <1>2, <2>1 DEF IndexInv, AtWork
  <2>4. job' # NoJob
    BY <2>1, <2>2 DEF Job, NoJob
  <2>5. AtWork'
    <3>1. \A e \in ActiveDocs' \ hurt :
            ~Asked(e) \/ (e \in job'.todo /\ ~job'.force)
              => active = job.coll /\ chunks[e] = documents'[e].content
                 /\ vectors[job.coll][e] = documents'[e].content
      BY <1>1, <2>1, <2>2, <2>3 DEF IndexInv, AtWork, ActiveDocs, Embedded
    <3>2. \A e \in Docs \ hurt : Asked(e) /\ e \notin job'.todo /\ e # d =>
            chunks[e] = documents'[e].content /\ vectors[job.coll][e] = documents'[e].content
      BY <1>1, <2>1, <2>2, <2>3 DEF IndexInv, AtWork, Under, Embedded
    <3>3. QED
      BY <1>1, <2>1, <2>2, <2>3, <3>1, <3>2 DEF IndexInv, AtWork, Asked, Embedded, Under
  <2>6. QED
    BY <2>4, <2>5 DEF IndexInv, AtRest
<1>5. QED
  BY <1>3, <1>4

(* A step of the job at the document it has in hand. *)
LEMMA HandIndex ==
  ASSUME IndexTypeOK, IndexInv, Purge \/ Fill \/ Embed \/ EmbedFails PROVE IndexInv'
<1>1. job \in Job /\ job # NoJob /\ job.pc \in {"purge", "fill", "embed"}
  BY Working DEF Purge, Fill, Embed, EmbedFails, Step
<1>2. PICK x \in {"fill", "embed", "next"} : job' = [job EXCEPT !.pc = x]
  BY DEF Purge, Fill, Embed, EmbedFails, Step
<1>3. /\ job' \in Job /\ job'.pc = x /\ job'.op = job.op /\ job'.doc = job.doc
      /\ job'.given = job.given /\ job'.todo = job.todo /\ job'.cur = job.cur
      /\ job'.force = job.force /\ job'.coll = job.coll
  <2> DEFINE j == [job EXCEPT !.pc = x]
  <2>1. /\ j \in Job /\ j.pc = x /\ j.op = job.op /\ j.doc = job.doc /\ j.given = job.given
        /\ j.todo = job.todo /\ j.cur = job.cur /\ j.force = job.force /\ j.coll = job.coll
    <3>1. x \in {"next", "purge", "fill", "embed", "stale", "mark"}
      OBVIOUS
    <3>2. QED
      BY <1>1, <3>1, JobFields
  <2>2. QED
    BY <1>2, <2>1
<1>4. job' # NoJob /\ job.cur \in Docs /\ job.coll \in Models
  BY <1>1, <1>3 DEF Job, NoJob
<1>5. Asked(job.cur) /\ job.cur \notin job.todo /\ documents[job.cur] = job.given[job.cur]
      /\ UNCHANGED <<documents, active>>
  BY <1>1 DEF IndexInv, AtWork, Purge, Fill, Embed, EmbedFails, stores
<1>6. \A e \in Docs \ {job.cur} :
        /\ chunks'[e] = chunks[e] /\ vectors'[job.coll][e] = vectors[job.coll][e]
        /\ e \in hurt' <=> e \in hurt
  <2>1. CASE Purge
    BY <1>4, <2>1 DEF Purge, IndexTypeOK
  <2>2. CASE Fill
    BY <1>4, <2>2 DEF Fill, IndexTypeOK
  <2>3. CASE Embed
    BY <1>4, <2>3 DEF Embed, IndexTypeOK
  <2>4. CASE EmbedFails
    BY <2>4 DEF EmbedFails, stores
  <2>5. QED
    BY <2>1, <2>2, <2>3, <2>4
<1>7. x = "embed" => chunks'[job.cur] = job.given[job.cur].content
  <2> HAVE x = "embed"
  <2>1. Fill
    BY <1>1, <1>2, <1>3 DEF Purge, Fill, Embed, EmbedFails, Step, Job
  <2>2. QED
    BY <1>4, <2>1 DEF Fill, IndexTypeOK
<1>8. x = "next" /\ job.cur \notin hurt' =>
        chunks'[job.cur] = documents[job.cur].content /\ vectors'[job.coll][job.cur] = documents[job.cur].content
  <2> HAVE x = "next" /\ job.cur \notin hurt'
  <2>1. Embed /\ job.pc = "embed"
    BY <1>1, <1>2, <1>3 DEF Purge, Fill, Embed, EmbedFails, Step, Job
  <2>2. vectors'[job.coll][job.cur] = job.given[job.cur].content /\ chunks' = chunks
    BY <1>4, <2>1 DEF Embed, IndexTypeOK
  <2>3. chunks[job.cur] = job.given[job.cur].content
    BY <1>1, <2>1 DEF IndexInv, AtWork
  <2>4. QED
    BY <1>5, <2>2, <2>3
<1>9. AtWork'
  <2>1. \A e \in ActiveDocs \ hurt' : ~Asked(e) \/ (e \in job.todo /\ ~job.force) =>
          active = job.coll /\ chunks'[e] = documents[e].content
          /\ vectors'[job.coll][e] = documents[e].content
    BY <1>1, <1>5, <1>6 DEF IndexInv, AtWork, Embedded, ActiveDocs
  <2>2. \A e \in Docs \ hurt' : Asked(e) /\ e \notin job.todo /\ (x = "next" \/ e # job.cur) =>
          chunks'[e] = documents[e].content /\ vectors'[job.coll][e] = documents[e].content
    BY <1>1, <1>6, <1>8 DEF IndexInv, AtWork, Embedded, Under
  <2>3. /\ \A e \in job.todo : Asked(e)
        /\ ~job.force => active = job.coll
        /\ job.op = "create" => Asked(job.doc)
    BY <1>1 DEF IndexInv, AtWork
  <2>4. QED
    BY <1>2, <1>3, <1>5, <1>7, <2>1, <2>2, <2>3 DEF AtWork, Asked, Under, Embedded, ActiveDocs
<1>10. QED
  BY <1>4, <1>9 DEF IndexInv, AtRest

(* When the job is through, its collection holds every active document. *)
LEMMA ThroughMeansThere ==
  ASSUME IndexTypeOK, IndexInv, job # NoJob, job.todo = {}, job.pc \in {"next", "stale", "mark"}
  PROVE  /\ \A e \in ActiveDocs \ hurt : Embedded(e, job.coll)
         /\ \A e \in Docs \ hurt : Asked(e) => Embedded(e, job.coll)
BY DEF IndexInv, AtWork, Under, ActiveDocs

LEMMA CommitIndex ==
  ASSUME IndexTypeOK, IndexInv, CommitVersion PROVE IndexInv'
<1>1. job \in Job /\ job # NoJob /\ job.pc = "next" /\ job.todo = {} /\ active' = job.coll
      /\ UNCHANGED <<documents, chunks, vectors, hurt>>
  BY Working DEF CommitVersion, Step
<1>2. PICK x \in {"stale", "mark"} : job' = [job EXCEPT !.pc = x]
  BY DEF CommitVersion, Step
<1>3. /\ job' \in Job /\ job'.pc = x /\ job'.op = job.op /\ job'.doc = job.doc
      /\ job'.given = job.given /\ job'.todo = job.todo /\ job'.cur = job.cur
      /\ job'.force = job.force /\ job'.coll = job.coll
  <2> DEFINE j == [job EXCEPT !.pc = x]
  <2>1. /\ j \in Job /\ j.pc = x /\ j.op = job.op /\ j.doc = job.doc /\ j.given = job.given
        /\ j.todo = job.todo /\ j.cur = job.cur /\ j.force = job.force /\ j.coll = job.coll
    <3>1. x \in {"next", "purge", "fill", "embed", "stale", "mark"}
      OBVIOUS
    <3>2. QED
      BY <1>1, <3>1, JobFields
  <2>2. QED
    BY <1>2, <2>1
<1>4. job' # NoJob
  BY <1>3 DEF Job, NoJob
<1>5. /\ \A e \in ActiveDocs \ hurt : Embedded(e, job.coll)
      /\ \A e \in Docs \ hurt : Asked(e) => Embedded(e, job.coll)
  BY <1>1, ThroughMeansThere
<1>6. job.op = "create" => Asked(job.doc)
  BY <1>1 DEF IndexInv, AtWork
<1>7. AtWork'
  BY <1>1, <1>2, <1>3, <1>5, <1>6 DEF AtWork, Asked, Under, Embedded, ActiveDocs
<1>8. QED
  BY <1>4, <1>7 DEF IndexInv, AtRest

LEMMA CleanUpIndex ==
  ASSUME IndexTypeOK, IndexInv, CleanUp PROVE IndexInv'
<1>1. job \in Job /\ job # NoJob /\ job.pc = "stale" /\ job' = [job EXCEPT !.pc = "mark"]
      /\ UNCHANGED <<chunks, vectors, active, hurt>>
  BY Working DEF CleanUp, Step
<1>2. /\ job' \in Job /\ job'.pc = "mark" /\ job'.op = job.op /\ job'.doc = job.doc
      /\ job'.given = job.given /\ job'.todo = job.todo /\ job'.cur = job.cur
      /\ job'.force = job.force /\ job'.coll = job.coll
  BY <1>1, JobFields
<1>3. job' # NoJob
  BY <1>2 DEF Job, NoJob
<1>4. job.todo = {} /\ active = job.coll /\ (job.op = "create" => Asked(job.doc))
  BY <1>1 DEF IndexInv, AtWork
<1>5. /\ \A e \in ActiveDocs \ hurt : Embedded(e, job.coll)
      /\ \A e \in Docs \ hurt : Asked(e) => Embedded(e, job.coll)
  BY <1>1, <1>4, ThroughMeansThere
<1>6. \A e \in Docs : documents'[e].content = documents[e].content /\ (e \in ActiveDocs' => e \in ActiveDocs)
  <2>1. PICK type \in SUBSET Docs :
          documents' = [d \in Docs |-> IF d \in type /\ Stale(d)
                                    THEN [documents[d] EXCEPT !.status = "deleted"] ELSE documents[d]]
    BY DEF CleanUp
  <2>2. \A e \in Docs : documents[e] \in DocRow
    BY DEF IndexTypeOK, Given
  <2>3. \A e \in Docs : documents'[e] = documents[e] \/ documents'[e] = [documents[e] EXCEPT !.status = "deleted"]
    BY <2>1
  <2>4. QED
    BY <2>2, <2>3 DEF DocRow, ActiveDocs
<1>7. AtWork'
  BY <1>1, <1>2, <1>4, <1>5, <1>6 DEF AtWork, Asked, Under, Embedded, ActiveDocs
<1>8. QED
  BY <1>3, <1>7 DEF IndexInv, AtRest

LEMMA MarkIndex ==
  ASSUME IndexTypeOK, IndexInv, MarkIndexed PROVE IndexInv'
<1>1. job \in Job /\ job # NoJob /\ job.pc = "mark" /\ job' = NoJob
      /\ UNCHANGED <<chunks, vectors, active, hurt>> /\ job.doc \in Docs /\ job.coll \in Models
  BY Working DEF MarkIndexed, Job
<1>2. job.todo = {} /\ active = job.coll /\ (job.op = "create" => Asked(job.doc))
  BY <1>1 DEF IndexInv, AtWork
<1>3. /\ \A e \in ActiveDocs \ hurt : Embedded(e, job.coll)
      /\ \A e \in Docs \ hurt : Asked(e) => Embedded(e, job.coll)
  BY <1>1, <1>2, ThroughMeansThere
<1>4. active # NoModel
  BY <1>1, <1>2
<1>5. documents' = documents \/ (job.op = "create" /\
        \E s \in {"active", "failed"} : documents' = [documents EXCEPT ![job.doc] = [documents[job.doc] EXCEPT !.status = s]])
  BY <1>1 DEF MarkIndexed, IndexTypeOK, Given
<1>6. \A e \in Docs : /\ documents'[e].content = documents[e].content
                      /\ e \in ActiveDocs' => e \in ActiveDocs \/ (job.op = "create" /\ e = job.doc)
  BY <1>1, <1>5 DEF IndexTypeOK, Given, DocRow, ActiveDocs
<1>7. \A e \in ActiveDocs' \ hurt : chunks[e] = documents'[e].content /\ vectors[active][e] = documents'[e].content
  BY <1>1, <1>2, <1>3, <1>6 DEF Embedded, ActiveDocs
<1>8. QED
  BY <1>1, <1>4, <1>7 DEF IndexInv, AtRest, AtWork, Embedded

LEMMA DeleteIndex ==
  ASSUME IndexTypeOK, IndexInv, NEW d \in Docs, Delete(d) PROVE IndexInv'
<1>1. job = NoJob /\ job' = NoJob /\ UNCHANGED <<active, hurt>>
  BY DEF Delete, JobFree
<1>2. \A e \in ActiveDocs' : e \in ActiveDocs /\ e # d /\ documents'[e] = documents[e] /\ chunks'[e] = chunks[e]
  BY DEF Delete, IndexTypeOK, Given, DocRow, ActiveDocs
<1>3. \A m \in Models, e \in Docs \ {d} : vectors'[m][e] = vectors[m][e]
  BY DEF Delete, IndexTypeOK
<1>4. \A e \in ActiveDocs \ hurt : active # NoModel /\ Embedded(e, active)
  BY <1>1 DEF IndexInv, AtRest
<1>5. \A e \in ActiveDocs' \ hurt' : active' # NoModel /\ Embedded(e, active)'
  <2> TAKE e \in ActiveDocs' \ hurt'
  <2>1. active \in Models /\ active # NoModel /\ Embedded(e, active) /\ e \in Docs \ {d}
    BY <1>1, <1>2, <1>4 DEF IndexTypeOK, ActiveDocs
  <2>2. QED
    BY <1>1, <1>2, <1>3, <2>1 DEF Embedded
<1>6. QED
  BY <1>1, <1>5 DEF IndexInv, AtRest, AtWork

LEMMA RestartIndex ==
  ASSUME IndexTypeOK, IndexInv, NEW m \in Models \cup {NoModel}, Restart(m)
  PROVE  IndexInv'
<1>1. job' = NoJob /\ UNCHANGED <<documents, chunks, vectors, active>>
  BY DEF Restart, stores
<1>2. \A e \in ActiveDocs \ hurt' : active # NoModel /\ Embedded(e, active)
  <2>1. CASE job = NoJob
    BY <2>1 DEF Restart, IndexInv, AtRest
  <2>2. CASE job # NoJob
    <3>1. \A e \in ActiveDocs \ hurt' : e \in ActiveDocs \ hurt /\ ~Asked(e)
      BY <2>2 DEF Restart, Asked, ActiveDocs
    <3>2. job.coll \in Models
      BY <2>2, Working DEF Job
    <3>3. QED
      BY <2>2, <3>1, <3>2 DEF IndexInv, AtWork
  <2>3. QED
    BY <2>1, <2>2
<1>3. QED
  BY <1>1, <1>2 DEF IndexInv, AtRest, AtWork, Embedded, ActiveDocs

LEMMA IndexStep ==
  ASSUME IndexTypeOK, IndexInv, [IndexNext]_indexVars PROVE IndexInv'
<1>1. CASE UNCHANGED indexVars
  BY <1>1 DEF indexVars, IndexInv, AtRest, AtWork, Asked, Under, Embedded, ActiveDocs
<1>2. CASE \E d \in Docs, c \in Contents : CreateDocument(d, c)
  BY <1>2, CreateIndex
<1>3. CASE Rebuild \/ \E d \in Docs : Reindex(d)
  <2>1. \E op, d, given : StartsJob(op, d, given)
    BY <1>3, ReindexStarts, RebuildStarts
  <2>2. UNCHANGED <<documents, chunks, vectors, active, hurt>>
    BY <1>3 DEF Rebuild, Reindex, stores
  <2>3. QED
    BY <2>1, <2>2, StartIndex DEF ActiveDocs
<1>4. CASE \E d \in Docs : Store(d) \/ Delete(d)
  BY <1>4, StoreIndex, DeleteIndex
<1>5. CASE Purge \/ Fill \/ Embed \/ EmbedFails
  BY <1>5, HandIndex
<1>6. CASE CommitVersion \/ CleanUp \/ MarkIndexed
  BY <1>6, CommitIndex, CleanUpIndex, MarkIndex
<1>7. CASE \E m \in Models \cup {NoModel} : Restart(m)
  BY <1>7, RestartIndex
<1>8. QED
  BY <1>1, <1>2, <1>3, <1>4, <1>5, <1>6, <1>7 DEF IndexNext

LEMMA IndexAlways == IndexSpec => [](IndexTypeOK /\ IndexInv)
<1>1. IndexInit => IndexInv
  BY DEF IndexInit, IndexInv, AtRest, AtWork, ActiveDocs, NoRow
<1>2. IndexTypeOK /\ IndexInv /\ [IndexNext]_indexVars => (IndexTypeOK /\ IndexInv)'
  BY IndexTypeStep, IndexStep
<1>3. QED
  BY <1>1, <1>2, IndexTypeInit, PTL DEF IndexSpec

(* However often the process dies and the embedding model changes, an      *)
(* active document that no failure touched is in the chunks and, when the  *)
(* provider can answer, in the collection it answers from, with the text   *)
(* of its row.                                                             *)
THEOREM IndexIsComplete == IndexSpec => []ActiveIsSearchable
<1>1. IndexInv => ActiveIsSearchable
  BY DEF IndexInv, AtRest, Embedded, ActiveIsSearchable
<1>2. QED
  BY <1>1, IndexAlways, PTL

(* When the version row names another collection, every active document is *)
(* in it but those whose embedding failed: a job for another model has     *)
(* asked for all of them.                                                  *)
THEOREM SwitchLeavesOnlyFailures == IndexSpec => OnlyFailuresAreLeftOut
<1>1. IndexTypeOK /\ IndexInv /\ [IndexNext]_indexVars =>
        [active' # active => \A d \in ActiveDocs \ hurt : vectors[active'][d] = documents[d].content]_indexVars
  <2> SUFFICES ASSUME IndexTypeOK, IndexInv, IndexNext, active' # active
               PROVE  \A d \in ActiveDocs \ hurt : vectors[active'][d] = documents[d].content
    BY DEF indexVars
  <2>1. CommitVersion
    BY DEF IndexNext, CreateDocument, Reindex, Rebuild, JobFree, Store, Delete, Purge, Fill, Embed, EmbedFails,
           CleanUp, MarkIndexed, Restart, stores
  <2>2. QED
    BY <2>1, ThroughMeansThere DEF CommitVersion, Step, Embedded
<1>2. QED
  BY <1>1, IndexAlways, PTL DEF IndexSpec, OnlyFailuresAreLeftOut

HIDE IndexAssumption

-----------------------------------------------------------------------------
(* Memory: types                                                           *)

(* What the extractor makes of a message of run r that names road. *)
CandidateOf(c, r, road, source) ==
  /\ c \in Item /\ c.status = "live"
  /\ c.from = r /\ c.thread = memoryRun[r].thread
  /\ c.type = "goal" => c.source = "user"
  /\ c.type = "fact" /\ PolicyAllows(c) => c = Candidate(r, "fact", road, source)

LEMMA ExtractedType ==
  ASSUME MemoryTypeOK, NEW r \in Runs, NEW road \in Values \cup {NoRoad},
         NEW corrects \in {{}} \cup {{v} : v \in Values},
         NEW goal \in BOOLEAN, NEW source \in {"user", "parser"},
         NEW c \in Extracted(r, road, corrects, goal, source)
  PROVE  CandidateOf(c, r, road, source)
<1>1. memoryRun[r].thread \in Threads
  BY DEF MemoryTypeOK, MemoryRun
<1>2. corrects \subseteq Values
  OBVIOUS
<1>3. ASSUME NEW type \in Types, NEW val \in Values \cup Runs, NEW s \in DOMAIN Source
      PROVE  LET k == Candidate(r, type, val, s) IN
               /\ k \in Item /\ k.status = "live"
               /\ k.from = r /\ k.thread = memoryRun[r].thread
               /\ k.type = type /\ k.source = s
  BY <1>1, <1>3 DEF Candidate, Item, Scope
<1>4. CASE c = Candidate(r, "summary", r, "fusion")
  BY <1>3, <1>4 DEF CandidateOf, Types, Source
<1>5. CASE c = Candidate(r, "goal", r, "user")
  BY <1>3, <1>5 DEF CandidateOf, Types, Source
<1>6. ASSUME NEW type \in {"correction", "fact"}, NEW v \in corrects,
             c = Candidate(r, type, v, "correction")
      PROVE  CandidateOf(c, r, road, source)
  BY <1>2, <1>3, <1>6 DEF CandidateOf, Types, Source, PolicyAllows
<1>7. ASSUME NEW v \in {road} \ {NoRoad}, c = Candidate(r, "fact", v, source)
      PROVE  CandidateOf(c, r, road, source)
  BY <1>3, <1>7 DEF CandidateOf, Types, Source
<1>8. \/ c = Candidate(r, "summary", r, "fusion")
      \/ c = Candidate(r, "goal", r, "user")
      \/ \E type \in {"correction", "fact"}, v \in corrects : c = Candidate(r, type, v, "correction")
      \/ \E v \in {road} \ {NoRoad} : c = Candidate(r, "fact", v, source)
  BY DEF Extracted
<1>9. QED
  BY <1>4, <1>5, <1>6, <1>7, <1>8

(* What the items are after a write. *)
LEMMA WrittenItems ==
  ASSUME NEW cs, NEW x \in Written(cs)
  PROVE  \/ x \in items /\ ~(x.status = "live" /\ \E c \in cs : Supersedes(c, x))
         \/ \E i \in Live, c \in cs :
              Supersedes(c, i) /\ x = [i EXCEPT !.status = "superseded"]
         \/ \E i \in Live, c \in cs :
              Supersedes(c, i) /\ x = [c EXCEPT !.thread = NoThread]
         \/ x \in cs /\ Creates(x)
<1> DEFINE gone == {i \in Live : \E c \in cs : Supersedes(c, i)}
<1>1. \/ x \in items \ gone
      \/ \E i \in gone : x = [i EXCEPT !.status = "superseded"]
      \/ \E c \in cs : (\E i \in gone : Supersedes(c, i)) /\ x = [c EXCEPT !.thread = NoThread]
      \/ x \in cs /\ Creates(x)
  BY Zenon DEF Written
<1>2. QED
  BY <1>1 DEF Live

LEMMA ItemChanged ==
  ASSUME NEW i \in Item
  PROVE  /\ [i EXCEPT !.status = "superseded"] \in Item
         /\ [i EXCEPT !.thread = NoThread] \in Item
         /\ [i EXCEPT !.status = "superseded"].status = "superseded"
         /\ [i EXCEPT !.status = "superseded"].type = i.type
         /\ [i EXCEPT !.status = "superseded"].source = i.source
         /\ [i EXCEPT !.status = "superseded"].from = i.from
         /\ [i EXCEPT !.status = "superseded"].thread = i.thread
         /\ [i EXCEPT !.thread = NoThread].status = i.status
         /\ [i EXCEPT !.thread = NoThread].type = i.type
         /\ [i EXCEPT !.thread = NoThread].source = i.source
         /\ [i EXCEPT !.thread = NoThread].from = i.from
         /\ [i EXCEPT !.thread = NoThread].thread = NoThread
BY DEF Item, Threads

LEMMA MemoryTypeStep ==
  ASSUME MemoryTypeOK, [MemoryNext]_memoryVars
  PROVE  MemoryTypeOK'
<1>1. ASSUME NEW r \in Runs,
             Continue(r) \/ Leave(r) \/ CreateThread(r) \/ RecallFails(r) \/ Abandon(r)
      PROVE  MemoryTypeOK'
  <2>1. CASE Continue(r) \/ RecallFails(r)
    BY <2>1 DEF Continue, RecallFails, Opened, MemoryTypeOK, MemoryRun, Threads
  <2>2. CASE Leave(r)
    BY <2>2 DEF Leave, MemoryTypeOK, MemoryRun
  <2>3. CASE CreateThread(r)
    BY <2>3 DEF CreateThread, Opened, Closed, MemoryTypeOK, MemoryRun, Threads
  <2>4. CASE Abandon(r)
    BY <2>4 DEF Abandon, MemoryTypeOK, MemoryRun
  <2>5. QED
    BY <1>1, <2>1, <2>2, <2>3, <2>4
<1>2. ASSUME NEW r \in Runs, NEW road \in Values \cup {NoRoad},
             NEW corrects \in {{}} \cup {{v} : v \in Values},
             NEW goal \in BOOLEAN, NEW source \in {"user", "parser"},
             WriteMemories(r, road, corrects, goal, source)
      PROVE  MemoryTypeOK'
  <2> DEFINE cs == Extracted(r, road, corrects, goal, source)
  <2>1. ASSUME NEW x \in Written(cs) PROVE x \in Item
    <3>1. \A c \in cs : c \in Item
      BY ExtractedType DEF CandidateOf
    <3>2. \A i \in items : i \in Item
      BY DEF MemoryTypeOK
    <3> HIDE DEF cs
    <3>3. \A i \in Item : [i EXCEPT !.status = "superseded"] \in Item
                          /\ [i EXCEPT !.thread = NoThread] \in Item
      BY ItemChanged
    <3>4. \/ x \in items \/ x \in cs
          \/ \E i \in Live : x = [i EXCEPT !.status = "superseded"]
          \/ \E c \in cs : x = [c EXCEPT !.thread = NoThread]
      BY <2>1, WrittenItems
    <3>5. QED
      BY <3>1, <3>2, <3>3, <3>4 DEF Live
  <2>2. items' = Written(cs)
    BY <1>2 DEF WriteMemories
  <2>3. memoryRun' \in [Runs -> MemoryRun] /\ UNCHANGED <<thread, current>>
    BY <1>2 DEF WriteMemories, MemoryTypeOK, MemoryRun
  <2>4. QED
    BY <2>1, <2>2, <2>3 DEF MemoryTypeOK
<1>3. CASE MemoryCrash
  BY <1>3 DEF MemoryCrash, MemoryTypeOK, MemoryRun
<1>4. CASE UNCHANGED memoryVars
  BY <1>4 DEF memoryVars, MemoryTypeOK
<1>5. QED
  BY <1>1, <1>2, <1>3, <1>4 DEF MemoryNext

(* The memory keeps its types, for any runs of a session and any values. *)
THEOREM MemoryTypes == MemorySpec => []MemoryTypeOK
<1>1. MemoryInit => MemoryTypeOK
  BY DEF MemoryInit, MemoryTypeOK, MemoryRun, Threads
<1>2. QED
  BY <1>1, MemoryTypeStep, PTL DEF MemorySpec

-----------------------------------------------------------------------------
(* Memory: threads, and what a session knows                               *)

(* An item comes from a run that is over, and belongs to the thread of     *)
(* that run or to none; a goal is never replaced, so it keeps its thread.  *)
ItemOfRun(i) ==
  /\ memoryRun[i.from].pc = "done"
  /\ i.thread = memoryRun[i.from].thread \/ (i.thread = NoThread /\ i.type # "goal")
  /\ i.type = "goal" => i.source = "user"

(* One fact lives, and where one was superseded a better one lives. *)
Facts == {i \in items : i.type = "fact"}
OneFact == \A i, j \in Facts : i.status = "live" /\ j.status = "live" => i = j
BetterFact ==
  \A j \in Facts : j.status = "superseded" =>
    \E i \in Facts : i.status = "live" /\ Source[i.source] >= Source[j.source]

MemoryInv ==
  OneActiveThread /\ (\A i \in items : ItemOfRun(i)) /\ OneFact /\ BetterFact

LEMMA MemoryInvIdle ==
  ASSUME MemoryTypeOK, MemoryInv, items' = items, OneActiveThread',
         \A r \in Runs : memoryRun[r].pc = "done" => memoryRun'[r] = memoryRun[r]
  PROVE  MemoryInv'
<1>1. \A i \in items : i.from \in Runs
  BY DEF MemoryTypeOK, Item
<1>2. QED
  BY <1>1 DEF MemoryInv, ItemOfRun, OneFact, BetterFact, Facts

LEMMA WriteKeepsThreads ==
  ASSUME MemoryTypeOK, MemoryInv,
         NEW r \in Runs, NEW road \in Values \cup {NoRoad},
         NEW corrects \in {{}} \cup {{v} : v \in Values},
         NEW goal \in BOOLEAN, NEW source \in {"user", "parser"},
         WriteMemories(r, road, corrects, goal, source),
         NEW x \in items'
  PROVE  ItemOfRun(x)'
<1> DEFINE cs == Extracted(r, road, corrects, goal, source)
<1>1. x \in Written(cs) /\ memoryRun[r].pc = "open"
      /\ memoryRun' = [memoryRun EXCEPT ![r].pc = "done"]
  BY DEF WriteMemories
<1>2. /\ memoryRun'[r].pc = "done" /\ memoryRun'[r].thread = memoryRun[r].thread
      /\ \A s \in Runs : memoryRun[s].pc = "done" => memoryRun'[s] = memoryRun[s]
  BY <1>1 DEF MemoryTypeOK, MemoryRun
<1>3. \A c \in cs : CandidateOf(c, r, road, source)
  BY ExtractedType
<1>4. \A i \in items : i \in Item /\ i.from \in Runs /\ ItemOfRun(i) /\ i.source \in DOMAIN Source
  BY DEF MemoryTypeOK, Item, MemoryInv
<1> HIDE DEF cs
<1>5. CASE x \in items
  BY <1>2, <1>4, <1>5 DEF ItemOfRun
<1>6. ASSUME NEW i \in Live, x = [i EXCEPT !.status = "superseded"] PROVE ItemOfRun(x)'
  BY <1>2, <1>4, <1>6, ItemChanged DEF ItemOfRun, Live
<1>7. ASSUME NEW i \in Live, NEW c \in cs, Supersedes(c, i), x = [c EXCEPT !.thread = NoThread]
      PROVE  ItemOfRun(x)'
  <2>1. x.from = r /\ x.thread = NoThread /\ x.type = c.type
    BY <1>3, <1>7, ItemChanged DEF CandidateOf
  <2>2. c.type # "goal"
    <3> SUFFICES ASSUME c.type = "goal" PROVE FALSE
      OBVIOUS
    <3>1. i.type = "goal" /\ c.source = "user" /\ i \in items
      BY <1>3, <1>7 DEF Supersedes, Same, Live, CandidateOf
    <3>2. i.source = "user"
      BY <1>4, <3>1 DEF ItemOfRun
    <3>3. QED
      BY <1>7, <3>1, <3>2 DEF Supersedes, Higher, Source
  <2>3. QED
    BY <1>2, <2>1, <2>2 DEF ItemOfRun
<1>8. CASE x \in cs
  BY <1>2, <1>3, <1>8 DEF ItemOfRun, CandidateOf
<1>9. QED
  BY <1>1, <1>5, <1>6, <1>7, <1>8, WrittenItems

(* The write gate: no more than one candidate of a message is a fact the   *)
(* policy allows, and it either finds no fact, or meets the one there is.  *)
LEMMA WriteKeepsFacts ==
  ASSUME MemoryTypeOK, MemoryInv,
         NEW r \in Runs, NEW road \in Values \cup {NoRoad},
         NEW corrects \in {{}} \cup {{v} : v \in Values},
         NEW goal \in BOOLEAN, NEW source \in {"user", "parser"},
         WriteMemories(r, road, corrects, goal, source)
  PROVE  OneFact' /\ BetterFact'
<1> DEFINE cs == Extracted(r, road, corrects, goal, source)
           fact == Candidate(r, "fact", road, source)
           gone == {i \in Live : \E c \in cs : Supersedes(c, i)}
           met == \E i \in Live : i.type = "fact"
<1>1. items' = Written(cs)
  BY DEF WriteMemories
<1>2. \A c \in cs : CandidateOf(c, r, road, source)
  BY ExtractedType
<1>3. \A i \in items : i \in Item /\ i.status \in {"live", "superseded"} /\ i.source \in DOMAIN Source
  BY DEF MemoryTypeOK, Item
<1>4. /\ fact.type = "fact" /\ fact.status = "live" /\ fact.source = source
      /\ [fact EXCEPT !.thread = NoThread].type = "fact"
      /\ [fact EXCEPT !.thread = NoThread].status = "live"
      /\ [fact EXCEPT !.thread = NoThread].source = source
  BY DEF Candidate
<1>5. \A a \in DOMAIN Source : Source[a] \in Nat
  BY DEF Source
<1> HIDE DEF cs, fact
(* What the facts are afterwards. *)
<1>6. ASSUME NEW x \in items', x.type = "fact"
      PROVE  \/ x \in items /\ ~(x.status = "live" /\ \E c \in cs : Supersedes(c, x))
             \/ \E i \in Live : /\ i.type = "fact" /\ fact \in cs /\ Supersedes(fact, i)
                               /\ x.status = "superseded" /\ x.source = i.source
             \/ /\ \E i \in Live : i.type = "fact" /\ fact \in cs /\ Supersedes(fact, i)
                /\ x = [fact EXCEPT !.thread = NoThread]
             \/ x = fact /\ fact \in cs /\ Creates(fact)
  <2>1. CASE \E i \in Live, c \in cs : Supersedes(c, i) /\ x = [i EXCEPT !.status = "superseded"]
    <3>1. PICK i \in Live, c \in cs : Supersedes(c, i) /\ x = [i EXCEPT !.status = "superseded"]
      BY <2>1
    <3>2. i \in Item /\ i.type = x.type /\ x.status = "superseded" /\ x.source = i.source
      BY <1>3, <3>1, ItemChanged DEF Live
    <3>3. c.type = "fact" /\ PolicyAllows(c)
      BY <1>6, <3>1, <3>2 DEF Supersedes, Same
    <3>4. c = fact
      BY <1>2, <3>3 DEF CandidateOf, fact
    <3>5. QED
      BY <1>6, <3>1, <3>2, <3>4
  <2>2. CASE \E i \in Live, c \in cs : Supersedes(c, i) /\ x = [c EXCEPT !.thread = NoThread]
    <3>1. PICK i \in Live, c \in cs : Supersedes(c, i) /\ x = [c EXCEPT !.thread = NoThread]
      BY <2>2
    <3>2. c \in Item /\ c.type = x.type
      BY <1>2, <3>1, ItemChanged DEF CandidateOf
    <3>3. c.type = "fact" /\ PolicyAllows(c) /\ i.type = "fact"
      BY <1>6, <3>1, <3>2 DEF Supersedes, Same
    <3>4. c = fact
      BY <1>2, <3>3 DEF CandidateOf, fact
    <3>5. QED
      BY <3>1, <3>3, <3>4
  <2>3. CASE x \in cs /\ Creates(x)
    <3>1. x = fact
      BY <1>2, <1>6, <2>3 DEF CandidateOf, fact, Creates
    <3>2. QED
      BY <2>3, <3>1
  <2>4. QED
    BY <1>1, <1>6, <2>1, <2>2, <2>3, WrittenItems
<1>7. CASE \E i \in Live : i.type = "fact" /\ fact \in cs /\ Supersedes(fact, i)
  <2>1. PICK i \in Live : i.type = "fact" /\ fact \in cs /\ Supersedes(fact, i)
    BY <1>7
  <2>2. \A j \in Live : j.type = "fact" => j = i
    BY <2>1 DEF MemoryInv, OneFact, Facts, Live
  <2>3. Source[fact.source] > Source[i.source]
    <3>1. fact.source # "correction"
      BY <1>4
    <3>2. QED
      BY <2>1, <3>1 DEF Supersedes, Higher
  <2>4. ~Creates(fact)
    BY <1>4, <2>1, <2>2 DEF Creates, Same, Supersedes
  <2>5. [fact EXCEPT !.thread = NoThread] \in items'
    <3>1. gone \subseteq Live /\ i \in gone
      BY <2>1
    <3>2. fact \in {c \in cs : \E k \in gone : Supersedes(c, k)}
      BY <2>1, <3>1
    <3>3. QED
      BY <1>1, <3>2 DEF Written
  <2>6. ASSUME NEW x \in items', x.type = "fact"
        PROVE  \/ x.status = "superseded" /\ (x \in items \/ x.source = i.source)
               \/ x = [fact EXCEPT !.thread = NoThread]
    <3>1. CASE x \in items /\ ~(x.status = "live" /\ \E c \in cs : Supersedes(c, x))
      <4>1. x.status = "live" => x = i
        BY <2>2, <2>6, <3>1 DEF Live
      <4>2. QED
        BY <1>3, <2>1, <3>1, <4>1
    <3>2. QED
      BY <1>6, <2>2, <2>4, <2>6, <3>1
  <2>7. OneFact'
    BY <1>4, <2>6 DEF OneFact, Facts
  <2>8. BetterFact'
    <3>1. ASSUME NEW j \in items, j.type = "fact", j.status = "superseded"
          PROVE  Source[i.source] >= Source[j.source]
      <4>1. PICK k \in Facts : k.status = "live" /\ Source[k.source] >= Source[j.source]
        BY <3>1 DEF MemoryInv, BetterFact, Facts
      <4>2. k = i
        BY <2>2, <4>1 DEF Facts, Live
      <4>3. QED
        BY <4>1, <4>2
    <3>2. i \in items /\ Source[i.source] \in Nat /\ source \in DOMAIN Source /\ Source[source] \in Nat
      BY <1>3, <1>5, <2>1 DEF Live, Source
    <3>3. ASSUME NEW j \in items', j.type = "fact", j.status = "superseded"
          PROVE  Source[source] >= Source[j.source]
      <4>1. j.source = i.source \/ j \in items
        BY <1>4, <2>6, <3>3
      <4>2. j \in items => Source[j.source] \in Nat
        BY <1>3, <1>5
      <4>3. QED
        BY <1>4, <2>3, <3>1, <3>2, <3>3, <4>1, <4>2
    <3>4. QED
      BY <1>4, <2>5, <3>3 DEF BetterFact, Facts
  <2>9. QED
    BY <2>7, <2>8
<1>8. CASE ~\E i \in Live : i.type = "fact" /\ fact \in cs /\ Supersedes(fact, i)
  <2>1. ASSUME NEW x \in items', x.type = "fact"
        PROVE  x \in items \/ (x = fact /\ fact \in cs /\ Creates(fact))
    BY <1>6, <1>8, <2>1
  <2>2. Creates(fact) => \A i \in items : i.type = "fact" => i.status = "superseded"
    BY <1>3, <1>4 DEF Creates, Same, Live
  <2>3. ASSUME NEW i \in items, i.type = "fact" PROVE i \in items'
    <3>1. i \notin gone
      <4>1. SUFFICES ASSUME NEW c \in cs, i \in Live, Supersedes(c, i) PROVE FALSE
        OBVIOUS
      <4>2. c.type = "fact" /\ PolicyAllows(c)
        BY <2>3, <4>1 DEF Supersedes, Same
      <4>3. c = fact
        BY <1>2, <4>2 DEF CandidateOf, fact
      <4>4. QED
        BY <1>8, <2>3, <4>1, <4>3
    <3>2. QED
      BY <1>1, <3>1 DEF Written
  <2>4. Creates(fact) => ~\E i \in items : i.type = "fact"
    BY <2>2 DEF MemoryInv, BetterFact, Facts
  <2>5. OneFact'
    BY <2>1, <2>4 DEF MemoryInv, OneFact, Facts
  <2>6. BetterFact'
    <3>1. CASE \E i \in items : i.type = "fact"
      BY <2>1, <2>3, <2>4, <3>1 DEF MemoryInv, BetterFact, Facts
    <3>2. CASE ~\E i \in items : i.type = "fact"
      BY <1>4, <2>1, <3>2 DEF BetterFact, Facts
    <3>3. QED
      BY <3>1, <3>2
  <2>7. QED
    BY <2>5, <2>6
<1>9. QED
  BY <1>7, <1>8

LEMMA MemoryInvStep ==
  ASSUME MemoryTypeOK, MemoryInv, [MemoryNext]_memoryVars
  PROVE  MemoryInv'
<1>1. ASSUME NEW r \in Runs, Continue(r) \/ RecallFails(r) \/ Abandon(r) \/ MemoryCrash
             \/ UNCHANGED memoryVars
      PROVE  MemoryInv'
  <2>1. /\ items' = items
        /\ \A s \in Runs : memoryRun[s].pc = "done" => memoryRun'[s] = memoryRun[s]
    BY <1>1 DEF Continue, RecallFails, Abandon, MemoryCrash, memoryVars, Opened, MemoryTypeOK
  <2>2. OneActiveThread'
    BY <1>1 DEF Continue, RecallFails, Abandon, MemoryCrash, memoryVars, MemoryInv, OneActiveThread
  <2>3. QED
    BY <2>1, <2>2, MemoryInvIdle
<1>2. ASSUME NEW r \in Runs, Leave(r) PROVE MemoryInv'
  <2>1. items' = items /\ current' = current
        /\ \A s \in Runs : memoryRun[s].pc = "done" => memoryRun'[s] = memoryRun[s]
    BY <1>2 DEF Leave, MemoryTypeOK
  <2>2. \A s \in Runs : thread'[s] = "active" => thread[s] = "active"
    BY <1>2 DEF Leave, MemoryTypeOK
  <2>3. OneActiveThread'
    BY <2>1, <2>2 DEF MemoryInv, OneActiveThread
  <2>4. QED
    BY <2>1, <2>3, MemoryInvIdle
<1>3. ASSUME NEW r \in Runs, CreateThread(r) PROVE MemoryInv'
  <2>1. items' = items
        /\ \A s \in Runs : memoryRun[s].pc = "done" => memoryRun'[s] = memoryRun[s]
    BY <1>3 DEF CreateThread, Opened, MemoryTypeOK
  <2>2. \A s \in Runs : thread'[s] = "active" => s = r
    BY <1>3 DEF CreateThread, Closed, MemoryTypeOK
  <2>3. OneActiveThread'
    BY <1>3, <2>2 DEF OneActiveThread, CreateThread
  <2>4. QED
    BY <2>1, <2>3, MemoryInvIdle
<1>4. ASSUME NEW r \in Runs, NEW road \in Values \cup {NoRoad},
             NEW corrects \in {{}} \cup {{v} : v \in Values},
             NEW goal \in BOOLEAN, NEW source \in {"user", "parser"},
             WriteMemories(r, road, corrects, goal, source)
      PROVE  MemoryInv'
  <2>1. OneActiveThread'
    BY <1>4 DEF WriteMemories, MemoryInv, OneActiveThread
  <2>2. QED
    BY <1>4, <2>1, WriteKeepsThreads, WriteKeepsFacts DEF MemoryInv
<1>5. CASE Runs = {} /\ (MemoryCrash \/ UNCHANGED memoryVars)
  BY <1>5, MemoryInvIdle DEF MemoryCrash, memoryVars, MemoryInv, OneActiveThread
<1>6. QED
  BY <1>1, <1>2, <1>3, <1>4, <1>5 DEF MemoryNext

LEMMA MemoryInvConsistent ==
  ASSUME MemoryTypeOK, MemoryInv
  PROVE  MemoryIsConsistent
<1>1. OwnThreadOnly
  <2>1. SUFFICES ASSUME NEW t \in Runs, NEW road \in Values \cup {NoRoad},
                        NEW intent \in Intents \ {"query"}, NEW i \in Recalled(intent, road, t),
                        i.type = "correction" => i.thread # NoThread
                 PROVE  memoryRun[i.from].thread \in {t, NoThread}
    BY DEF OwnThreadOnly
  <2>2. /\ i \in items /\ i.type \in {"goal", "fact", "correction"} /\ i.thread \in {NoThread, t}
        /\ i.type = "fact" => i.thread # NoThread
    BY <2>1 DEF Recalled, Requested, Intents, Live
  <2>3. QED
    BY <2>1, <2>2 DEF MemoryInv, ItemOfRun
<1>2. BestFactLives
  <2> DEFINE F == {i \in items : i.type = "fact"}
  <2>1. Cardinality(F \cap Live) <= 1
    <3>1. CASE F \cap Live = {}
      BY <3>1, FS_EmptySet
    <3>2. CASE F \cap Live # {}
      <4>1. PICK i \in F \cap Live : TRUE
        BY <3>2
      <4>2. F \cap Live = {i}
        BY <4>1 DEF MemoryInv, OneFact, Facts, Live
      <4>3. Cardinality({i}) = 1
        BY FS_Singleton
      <4>4. QED
        BY <4>2, <4>3
    <3>3. QED
      BY <3>1, <3>2
  <2>2. ASSUME NEW i \in F \cap Live, NEW j \in F \ Live
        PROVE  Source[i.source] >= Source[j.source]
    <3>1. j.status = "superseded"
      BY DEF MemoryTypeOK, Item, Live
    <3>2. PICK k \in Facts : k.status = "live" /\ Source[k.source] >= Source[j.source]
      BY <3>1 DEF MemoryInv, BetterFact, Facts
    <3>3. k = i
      BY <3>2 DEF MemoryInv, OneFact, Facts, Live
    <3>4. QED
      BY <3>2, <3>3
  <2>3. QED
    BY <2>1, <2>2 DEF BestFactLives
<1>3. QED
  BY <1>1, <1>2 DEF MemoryIsConsistent, MemoryInv

(* The inductive invariant of the memory: an item belongs to the thread of *)
(* the run it comes from or to none, and the best fact lives, alone.       *)
THEOREM MemoryInvariant == MemorySpec => []MemoryInv
<1>1. MemoryInit => MemoryInv
  BY DEF MemoryInit, MemoryInv, OneActiveThread, OneFact, BetterFact, Facts
<1>2. QED
  BY <1>1, MemoryInvStep, MemoryTypes, PTL DEF MemorySpec

(* A session has one active thread at most, a message is told what its own *)
(* thread knows (and corrections that replaced another), and of the facts  *)
(* written the one of the best source stays, in whichever order the runs   *)
(* of the session recall and write and wherever the process dies.          *)
THEOREM MemoryConsistent == MemorySpec => []MemoryIsConsistent
BY MemoryTypes, MemoryInvariant, MemoryInvConsistent, PTL

-----------------------------------------------------------------------------
(* Regional                                                                *)

USE RegionalAssumption

-----------------------------------------------------------------------------
(* Types                                                                   *)

LEMMA NoneIsApart == None \notin Package /\ None \notin Resolution
BY DEF None, Package, Resolution

(* Whatever an attempt finds is a place of a region. *)
LEMMA MatchesType ==
  ASSUME RegionalTypeOK, NEW kind, NEW name, NEW scope, NEW n
  PROVE  Matches(kind, name, scope, n) \subseteq Resolution
BY DEF Matches, RegionalTypeOK, Alias, Resolution

LEMMA FirstOfFour ==
  ASSUME NEW S, S \subseteq 1..4, S # {}
  PROVE  \E k \in S : \A j \in S : k <= j
<1>1. CASE 1 \in S
  BY <1>1
<1>2. CASE 1 \notin S /\ 2 \in S
  BY <1>2
<1>3. CASE 1 \notin S /\ 2 \notin S /\ 3 \in S
  BY <1>3
<1>4. CASE 1 \notin S /\ 2 \notin S /\ 3 \notin S
  <2>1. \A k \in S : k = 4
    BY <1>4
  <2>2. PICK k \in S : TRUE
    OBVIOUS
  <2>3. QED
    BY <2>1, <2>2
<1>5. QED
  BY <1>1, <1>2, <1>3, <1>4

(* The candidates are those of one of the four attempts. *)
LEMMA CandidatesOfAnAttempt ==
  ASSUME NEW name, NEW scope
  PROVE  \/ Candidates(name, scope) = {}
         \/ \E kind \in {Roads, Crossings}, n \in BOOLEAN :
              Candidates(name, scope) = Matches(kind, name, scope, n)
<1> DEFINE attempt == <<Matches(Crossings, name, scope, FALSE), Matches(Crossings, name, scope, TRUE),
                        Matches(Roads, name, scope, FALSE), Matches(Roads, name, scope, TRUE)>>
           found == {k \in 1..4 : attempt[k] # {}}
           best == CHOOSE k \in found : \A j \in found : k <= j
<1>1. Candidates(name, scope) = IF found = {} THEN {} ELSE attempt[best]
  BY DEF Candidates
<1>2. ASSUME found # {} PROVE best \in found
  <2>0. found \subseteq 1..4
    OBVIOUS
  <2> HIDE DEF found
  <2>1. \E k \in found : \A j \in found : k <= j
    BY <1>2, <2>0, FirstOfFour
  <2>2. QED
    BY <2>1
<1>3. ASSUME NEW k \in 1..4
      PROVE  \E kind \in {Roads, Crossings}, n \in BOOLEAN :
               attempt[k] = Matches(kind, name, scope, n)
  <2>1. attempt[1] = Matches(Crossings, name, scope, FALSE)
    OBVIOUS
  <2>2. attempt[2] = Matches(Crossings, name, scope, TRUE)
    OBVIOUS
  <2>3. attempt[3] = Matches(Roads, name, scope, FALSE)
    OBVIOUS
  <2>4. attempt[4] = Matches(Roads, name, scope, TRUE)
    OBVIOUS
  <2>5. k = 1 \/ k = 2 \/ k = 3 \/ k = 4
    BY <1>3
  <2> HIDE DEF attempt
  <2>6. QED
    BY <2>1, <2>2, <2>3, <2>4, <2>5
<1>4. found \subseteq 1..4
  OBVIOUS
<1> HIDE DEF attempt, found, best
<1>5. QED
  BY <1>1, <1>2, <1>3, <1>4

LEMMA CandidatesType ==
  ASSUME RegionalTypeOK, NEW name, NEW scope
  PROVE  Candidates(name, scope) \subseteq Resolution
BY MatchesType, CandidatesOfAnAttempt

LEMMA RegionalTypeInit == RegionalInit => RegionalTypeOK
BY DEF RegionalInit, RegionalTypeOK, None

(* What a package names becomes names of its region. *)
LEMMA CommitType ==
  ASSUME RegionalTypeOK, NEW i \in Importers, Commit(i)
  PROVE  RegionalTypeOK'
<1>1. pack[i] \in Package
  BY DEF RegionalTypeOK, Commit, Homes, Named, Linked
<1>2. /\ pack[i].region \in Regions /\ pack[i].names \subseteq Place \X Text
      /\ pack[i].ends \subseteq Place
  BY <1>1 DEF Package
<1>3. \A n \in pack[i].names : n[1] \in Place /\ n[2] \in Text
  BY <1>2
<1>4. pack' \in [Importers -> Package \cup {None}]
  BY DEF RegionalTypeOK, Commit, Homes, Named, Linked
<1>5. home' \in [Place -> Regions \cup {NoRegion}]
  BY <1>2 DEF RegionalTypeOK, Commit, Homes, Named, Linked
<1>6. aliases' \subseteq Alias
  BY <1>2, <1>3 DEF RegionalTypeOK, Commit, Homes, Named, Linked, Alias
<1>7. links' \subseteq Link
  BY <1>2 DEF RegionalTypeOK, Commit, Homes, Named, Linked, Link
<1>8. QED
  BY <1>4, <1>5, <1>6, <1>7 DEF RegionalTypeOK, Commit, Homes, Named, Linked

LEMMA RegionalTypeStep == RegionalTypeOK /\ [RegionalNext]_regionalVars => RegionalTypeOK'
<1> SUFFICES ASSUME RegionalTypeOK, [RegionalNext]_regionalVars PROVE RegionalTypeOK'
  OBVIOUS
<1>1. ASSUME NEW i \in Importers, NEW p \in Packs, Validate(i, p) PROVE RegionalTypeOK'
  <2>1. p \in Package
    OBVIOUS
  <2>2. QED
    BY <1>1, <2>1 DEF Validate, RegionalTypeOK
<1>2. ASSUME NEW i \in Importers, Commit(i) PROVE RegionalTypeOK'
  BY <1>2, CommitType
<1>3. ASSUME NEW i \in Importers, Drop(i) PROVE RegionalTypeOK'
  BY <1>3 DEF Drop, RegionalTypeOK
<1>4. ASSUME NEW name, NEW scope, Preview(name, scope) PROVE RegionalTypeOK'
  <2>1. event' \in Resolution
    BY <1>4, CandidatesType DEF Preview
  <2>2. QED
    BY <1>4, <2>1 DEF Preview, RegionalTypeOK
<1>5. ASSUME NEW r \in BOOLEAN, Save(r) PROVE RegionalTypeOK'
  BY <1>5 DEF Save, RegionalTypeOK
<1>6. CASE UNCHANGED regionalVars
  BY <1>6 DEF regionalVars, RegionalTypeOK
<1>7. QED
  BY <1>1, <1>2, <1>3, <1>4, <1>5, <1>6 DEF RegionalNext

(* Every reachable state of the regional store is of the declared types.   *)
THEOREM RegionalTypes == RegionalSpec => []RegionalTypeOK
BY RegionalTypeInit, RegionalTypeStep, PTL DEF RegionalSpec

-----------------------------------------------------------------------------
(* Names                                                                   *)

(* A normalized name has one owner per region and kind, and no package     *)
(* that was validated gives one name to two places.                        *)
OneOwner ==
  \A p, q \in aliases :
    p.region = q.region /\ p.text.norm = q.text.norm /\ Kind(p.place) = Kind(q.place)
      => p.place = q.place
Consistent(p) ==
  \A m, n \in p.names :
    m[2].norm = n[2].norm /\ Kind(m[1]) = Kind(n[1]) => m[1] = n[1]
PacksConsistent == \A i \in Importers : pack[i] # None => Consistent(pack[i])

LEMMA CommitKeepsOwners ==
  ASSUME OneOwner, PacksConsistent, NEW i \in Importers, Commit(i)
  PROVE  OneOwner'
<1>1. CASE ~Accepted(pack[i])
  BY <1>1 DEF Commit, Homes, Named, Linked, OneOwner
<1>2. CASE Accepted(pack[i])
  <2> DEFINE P == pack[i]
             New == {[region |-> P.region, place |-> n[1], text |-> n[2]] : n \in P.names}
  <2>1. aliases' = aliases \cup New
    BY <1>2 DEF Commit, Homes, Named, Linked
  <2>2. Consistent(P) /\ Owned(P)
    BY <1>2 DEF Commit, Homes, Named, Linked, PacksConsistent, Accepted
  <2>3. ASSUME NEW p \in aliases, NEW q \in New,
               p.region = q.region, p.text.norm = q.text.norm, Kind(p.place) = Kind(q.place)
        PROVE  p.place = q.place
    <3>1. PICK n \in P.names : q = [region |-> P.region, place |-> n[1], text |-> n[2]]
      OBVIOUS
    <3>2. ~Taken(P.region, n)
      BY <2>2 DEF Owned
    <3>3. p.region = P.region /\ p.text.norm = n[2].norm /\ Kind(p.place) = Kind(n[1])
      BY <2>3, <3>1
    <3>4. QED
      BY <3>1, <3>2, <3>3 DEF Taken
  <2>4. ASSUME NEW p \in New, NEW q \in New,
               p.text.norm = q.text.norm, Kind(p.place) = Kind(q.place)
        PROVE  p.place = q.place
    <3>1. PICK m \in P.names : p = [region |-> P.region, place |-> m[1], text |-> m[2]]
      OBVIOUS
    <3>2. PICK n \in P.names : q = [region |-> P.region, place |-> n[1], text |-> n[2]]
      OBVIOUS
    <3>3. m[2].norm = n[2].norm /\ Kind(m[1]) = Kind(n[1])
      BY <2>4, <3>1, <3>2
    <3>4. m[1] = n[1]
      BY <2>2, <3>3 DEF Consistent
    <3>5. QED
      BY <3>1, <3>2, <3>4
  <2> HIDE DEF New
  <2>5. QED
    BY <2>1, <2>3, <2>4 DEF OneOwner, Kind
<1>3. QED
  BY <1>1, <1>2

LEMMA NamesStep ==
  ASSUME RegionalTypeOK, OneOwner, PacksConsistent, [RegionalNext]_regionalVars
  PROVE  OneOwner' /\ PacksConsistent'
<1>1. ASSUME NEW i \in Importers, NEW p \in Packs, Validate(i, p)
      PROVE  OneOwner' /\ PacksConsistent'
  <2>1. Consistent(p)
    BY <1>1 DEF Validate, Valid, Consistent
  <2>2. \A j \in Importers : pack'[j] = IF j = i THEN p ELSE pack[j]
    BY <1>1 DEF Validate, RegionalTypeOK
  <2>3. PacksConsistent'
    BY <2>1, <2>2 DEF PacksConsistent, Consistent
  <2>4. QED
    BY <1>1, <2>3 DEF Validate, OneOwner
<1>2. ASSUME NEW i \in Importers, Commit(i) \/ Drop(i)
      PROVE  PacksConsistent'
  <2>1. \A j \in Importers : pack'[j] = IF j = i THEN None ELSE pack[j]
    BY <1>2 DEF Commit, Homes, Named, Linked, Drop, RegionalTypeOK
  <2>2. QED
    BY <2>1 DEF PacksConsistent, Consistent
<1>3. ASSUME NEW i \in Importers, Drop(i) PROVE OneOwner'
  BY <1>3 DEF Drop, OneOwner
<1>4. ASSUME UNCHANGED <<aliases, pack>> PROVE OneOwner' /\ PacksConsistent'
  BY <1>4 DEF OneOwner, PacksConsistent, Consistent
<1>5. QED
  BY <1>1, <1>2, <1>3, <1>4, CommitKeepsOwners DEF RegionalNext, Preview, Save, regionalVars

(* One owner per name makes every attempt within a region find one place   *)
(* at most.                                                                *)
LEMMA OneCandidate ==
  ASSUME RegionalTypeOK, OneOwner, NEW name, NEW region \in Regions
  PROVE  Cardinality(Candidates(name, region)) <= 1
<1>1. ASSUME NEW kind \in {Roads, Crossings}, NEW n \in BOOLEAN,
             NEW p \in Matches(kind, name, region, n), NEW q \in Matches(kind, name, region, n)
      PROVE  p = q
  <2>1. PICK c \in aliases :
          /\ c.place \in kind /\ c.region = region /\ c.text.norm = name.norm
          /\ p = [region |-> c.region, place |-> c.place]
    BY <1>1 DEF Matches
  <2>2. PICK d \in aliases :
          /\ d.place \in kind /\ d.region = region /\ d.text.norm = name.norm
          /\ q = [region |-> d.region, place |-> d.place]
    BY <1>1 DEF Matches
  <2>3. Kind(c.place) = Kind(d.place)
    BY <2>1, <2>2 DEF Kind
  <2>4. QED
    BY <2>1, <2>2, <2>3 DEF OneOwner
<1> DEFINE C == Candidates(name, region)
<1>2. \A p, q \in C : p = q
  BY <1>1, CandidatesOfAnAttempt
<1> HIDE DEF C
<1>3. CASE C = {}
  BY <1>3, FS_EmptySet DEF C
<1>4. CASE C # {}
  <2>1. PICK p \in C : TRUE
    BY <1>4
  <2>2. C = {p}
    BY <1>2, <2>1
  <2>3. Cardinality({p}) = 1
    BY FS_Singleton
  <2>4. QED
    BY <2>2, <2>3 DEF C
<1>5. QED
  BY <1>3, <1>4

(* The inductive invariant of the names: one owner per region, kind and    *)
(* normalized name, also among the packages waiting for their transaction. *)
THEOREM NamesInvariant == RegionalSpec => [](OneOwner /\ PacksConsistent)
<1>1. RegionalInit => OneOwner /\ PacksConsistent
  BY DEF RegionalInit, OneOwner, PacksConsistent
<1>2. RegionalTypeOK /\ OneOwner /\ PacksConsistent /\ [RegionalNext]_regionalVars => OneOwner' /\ PacksConsistent'
  BY NamesStep
<1>3. QED
  BY <1>1, <1>2, RegionalTypes, PTL DEF RegionalSpec

(* Whatever packs are imported at the same time, a name within a region    *)
(* resolves to one place or to none.                                       *)
THEOREM NamesResolve == RegionalSpec => []NameIsUnambiguous
<1>1. RegionalTypeOK /\ OneOwner => NameIsUnambiguous
  BY OneCandidate DEF NameIsUnambiguous
<1>2. QED
  BY <1>1, RegionalTypes, NamesInvariant, PTL

-----------------------------------------------------------------------------
(* Bindings                                                                *)

LEMMA BindingStep ==
  ASSUME RegionalTypeOK, BindingInRegion, [RegionalNext]_regionalVars
  PROVE  BindingInRegion'
<1>1. ASSUME NEW i \in Importers, Commit(i) PROVE BindingInRegion'
  <2>1. \A e \in Place : home[e] # NoRegion => home'[e] = home[e]
    BY <1>1 DEF Commit, Homes, Named, Linked, RegionalTypeOK
  <2>2. bindings' = bindings
    BY <1>1 DEF Commit, Homes, Named, Linked
  <2>3. ASSUME bindings # None PROVE home'[bindings.place] = bindings.region
    <3>1. bindings.place \in Place /\ bindings.region \in Regions
      BY <2>3 DEF RegionalTypeOK, Resolution
    <3>2. home[bindings.place] = bindings.region
      BY <2>3 DEF BindingInRegion
    <3>3. QED
      BY <2>1, <3>1, <3>2
  <2>4. QED
    BY <2>2, <2>3 DEF BindingInRegion, None
<1>2. ASSUME NEW r \in BOOLEAN, Save(r) PROVE BindingInRegion'
  BY <1>2 DEF Save, BindingAllowed, BindingInRegion, None
<1>3. ASSUME UNCHANGED <<home, bindings>> PROVE BindingInRegion'
  BY <1>3 DEF BindingInRegion, None
<1>4. QED
  BY <1>1, <1>2, <1>3 DEF RegionalNext, Validate, Drop, Preview, regionalVars

(* The place an event is bound to lies in the region it is bound in,       *)
(* whatever imports raced before.                                          *)
THEOREM BindingsHold == RegionalSpec => []BindingInRegion
<1>1. RegionalInit => BindingInRegion
  BY DEF RegionalInit, BindingInRegion
<1>2. RegionalTypeOK /\ BindingInRegion /\ [RegionalNext]_regionalVars => BindingInRegion'
  BY BindingStep
<1>3. QED
  BY <1>1, <1>2, RegionalTypes, PTL DEF RegionalSpec
================================================================================
