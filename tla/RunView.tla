-------------------------------- MODULE RunView --------------------------------
(***************************************************************************)
(* The page that follows an analysis (CollaborationWorkspace.tsx): the     *)
(* stream of events of the run it started, read in chunks of bytes, the    *)
(* reducer that turns events into the run shown, and the requests for the  *)
(* stored detail of the run selected, whose answers may come late.         *)
(*                                                                         *)
(* Of the run on the server the model keeps its row's status and the       *)
(* events it sends; Collaboration models how they come about.  A session   *)
(* is named by the run whose stream created it.                            *)
(***************************************************************************)
EXTENDS Naturals, Sequences, FiniteSets, SequencesExt

CONSTANTS Started,  \* the runs of the page, numbered in the order of their start
          MaxWire   \* bound on the events under way to the client

NoRun == 0

ASSUME ViewAssumption ==
  MaxWire \in Nat /\ IsFiniteSet(Started) /\ Started = 1 .. Cardinality(Started)

RunStatus == {"none", "created", "running", "completed", "failed"}

(* The events of a run that change the view, without conflict_check_done   *)
(* and fusion_start, which only say how far it is; the ones that name no   *)
(* run are dropped by it.                                                  *)
Script == <<"session_created", "memory_recall_started", "run_created",
            "task_graph_created", "fusion_done">>
NamedEvents == {"memory_recall_started", "run_created", "fusion_done", "run_completed", "run_rejected"}
Event == {Script[i] : i \in DOMAIN Script}
         \cup {"run_completed", "run_failed", "run_rejected", "fallback_started"}

VARIABLES
  row,       \* collaboration_runs: the status of each run
  sent,      \* what each run has sent: a prefix of Script, 6 its end, 7 closed
  sessionOf, \* the session of each run
  wire,      \* events under way on the open stream
  session,   \* activeSessionId
  stream,    \* the run whose stream is read (loading)
  streaming, \* streamingRunRef
  wanted,    \* requestedRunId, of the address
  default,   \* the run shown when none is requested
  list,      \* the runs listed
  listing,   \* the list of the session has been asked for
  shown,     \* runsById: the status of the runs the page has
  requests,  \* requests for a detail under way, the last one the latest
  live,      \* whether the latest one still counts
  error,     \* detailError of the selected run
  followed   \* the runs whose stream was read to its end (history)

pageVars == <<session, stream, streaming, wanted, default, list, listing, shown,
              requests, live, error, followed>>
viewVars == <<row, sent, sessionOf, wire, pageVars>>

Maybe == Started \cup {NoRun}

ViewTypeOK ==
  /\ row \in [Started -> RunStatus] /\ sent \in [Started -> 0 .. 7]
  /\ sessionOf \in [Started -> Maybe]
  /\ wire \in Seq(Event) /\ Len(wire) <= MaxWire
  /\ {session, stream, streaming, wanted, default} \subseteq Maybe
  /\ list \subseteq Started /\ followed \subseteq Started
  /\ shown \in [Started -> RunStatus]
  /\ {listing, live, error} \subseteq BOOLEAN
  /\ requests \in Seq([run : Started, answer : RunStatus \cup {"wait"}]) /\ Len(requests) <= 2

ViewInit ==
  /\ row = [r \in Started |-> "none"] /\ sent = [r \in Started |-> 7]
  /\ sessionOf = [r \in Started |-> NoRun]
  /\ wire = <<>>
  /\ session = NoRun /\ stream = NoRun /\ streaming = NoRun /\ wanted = NoRun /\ default = NoRun
  /\ list = {} /\ listing = FALSE /\ shown = [r \in Started |-> "none"]
  /\ requests = <<>> /\ live = FALSE /\ error = FALSE /\ followed = {}

Selected == IF wanted # NoRun THEN wanted ELSE default

-----------------------------------------------------------------------------
(* The detail of the selected run.                                         *)

(* The effect runs when the selection, the revision or loading changes:    *)
(* what was asked for before no longer counts; the run that is streamed    *)
(* needs no detail.                                                        *)
Effect_AsSelectionOnly ==
  IF Selected' # NoRun /\ ~(stream' # NoRun /\ Selected' = streaming') /\ Selected' # Selected
  THEN /\ requests' = Append(IF requests = <<>> THEN <<>> ELSE <<Last(requests)>>,
                             [run |-> Selected', answer |-> "wait"])
       /\ live' = TRUE /\ error' = FALSE
  ELSE UNCHANGED <<requests, live, error>>

Effect ==
  /\ IF Selected' = NoRun \/ (stream' # NoRun /\ Selected' = streaming')
     THEN live' = FALSE /\ UNCHANGED requests
     ELSE /\ requests' = Append(IF requests = <<>> THEN <<>> ELSE <<Last(requests)>>,
                                [run |-> Selected', answer |-> "wait"])
          /\ live' = TRUE
  /\ error' = FALSE

Answer(i) ==
  /\ requests[i].answer = "wait"
  /\ requests' = [requests EXCEPT ![i].answer = row[requests[i].run]]
  /\ UNCHANGED <<row, sent, sessionOf, wire, session, stream, streaming, wanted, default, list,
                 listing, shown, live, error, followed>>

Accepts_AsAny(i) == requests[i].run = Selected

(* loadJudgmentSelection: an answer to a request that no longer counts is  *)
(* dropped.                                                                *)
Accepts(i) == live /\ i = Len(requests)

(* The answer arrives: the run, an error because there is none yet, or     *)
(* that of a failed request.                                               *)
Arrive(i, fails) ==
  /\ fails \/ requests[i].answer # "wait"
  /\ requests' = RemoveAt(requests, i)
  /\ LET found == ~fails /\ requests[i].answer # "none" IN
       IF Accepts(i)
       THEN /\ live' = FALSE /\ error' = ~found
            /\ shown' = IF found THEN [shown EXCEPT ![requests[i].run] = requests[i].answer]
                        ELSE shown
       ELSE UNCHANGED <<live, error, shown>>
  /\ UNCHANGED <<row, sent, sessionOf, wire, session, stream, streaming, wanted, default, list,
                 listing, followed>>

-----------------------------------------------------------------------------
(* The user.                                                               *)

(* handleAnalyze *)
Submit(r) ==
  /\ stream = NoRun
  /\ sessionOf[r] = NoRun /\ \A q \in Started : q < r => sessionOf[q] # NoRun
  /\ sessionOf' = [sessionOf EXCEPT ![r] = IF session = NoRun THEN r ELSE session]
  /\ sent' = [sent EXCEPT ![r] = IF session = NoRun THEN 0 ELSE 1]
  /\ stream' = r /\ streaming' = NoRun /\ wire' = <<>>
  /\ UNCHANGED <<wanted, default>> /\ Effect
  /\ UNCHANGED <<row, session, list, listing, shown, followed>>

(* handleSelectRun *)
Select(r) ==
  /\ r \in list /\ r # Selected
  /\ wanted' = r
  /\ UNCHANGED <<default, stream, streaming>> /\ Effect
  /\ UNCHANGED <<row, sent, sessionOf, wire, session, list, listing, shown, followed>>

(* Another session, or a new one: the stream is aborted, the page emptied  *)
(* and the session's list asked for.                                       *)
Switch(s) ==
  /\ s # session
  /\ s \in {NoRun} \cup {r \in Started : sessionOf[r] = r /\ sent[r] > 0}
  /\ session' = s /\ wanted' = NoRun /\ default' = NoRun
  /\ stream' = NoRun /\ wire' = <<>>
  /\ list' = {} /\ listing' = (s # NoRun)
  /\ shown' = [r \in Started |-> "none"]
  /\ UNCHANGED streaming /\ Effect
  /\ UNCHANGED <<row, sent, sessionOf, followed>>

(* listSessionRuns answers; the latest run is the default. *)
RunsListed ==
  /\ listing
  /\ LET runs == {r \in Started : sessionOf[r] = session /\ row[r] # "none"} IN
       /\ list' = runs
       /\ default' = IF runs = {} THEN NoRun ELSE CHOOSE r \in runs : \A q \in runs : q <= r
  /\ listing' = FALSE
  /\ UNCHANGED <<wanted, stream, streaming>>
  /\ IF Selected' = Selected THEN UNCHANGED <<requests, live, error>> ELSE Effect
  /\ UNCHANGED <<row, sent, sessionOf, wire, session, shown, followed>>

-----------------------------------------------------------------------------
(* The server.                                                             *)

Send(r, e) == r = stream /\ Len(wire) < MaxWire /\ wire' = Append(wire, e)

(* agent_stream and execute; the row is saved before run_created. *)
Emit(r) ==
  /\ sent[r] < Len(Script)
  /\ Send(r, Script[sent[r] + 1])
  /\ sent' = [sent EXCEPT ![r] = @ + 1]
  /\ row' = IF Script[sent[r] + 1] = "run_created" THEN [row EXCEPT ![r] = "created"] ELSE row
  /\ UNCHANGED <<sessionOf, pageVars>>

(* The end of execute: the result is saved, then sent.  When tasks failed  *)
(* there is no fusion.                                                     *)
EndRun(r, outcome) ==
  /\ sent[r] = 4 \/ (sent[r] = 5 /\ outcome = "completed")
  /\ row' = [row EXCEPT ![r] = outcome]
  /\ Send(r, IF outcome = "completed" THEN "run_completed" ELSE "run_failed")
  /\ sent' = [sent EXCEPT ![r] = 6]
  /\ UNCHANGED <<sessionOf, pageVars>>

(* An exception of execute: refused for good, with the row left as it is,  *)
(* or the legacy analysis instead, after which the row is marked failed.   *)
Raise(r) ==
  /\ sent[r] \in 3 .. 5
  /\ \/ Send(r, "run_rejected") /\ UNCHANGED row
     \/ Send(r, "fallback_started") /\ row' = [row EXCEPT ![r] = "failed"]
  /\ sent' = [sent EXCEPT ![r] = 6]
  /\ UNCHANGED <<sessionOf, pageVars>>

Close(r) ==
  /\ r = stream /\ sent[r] = 6
  /\ sent' = [sent EXCEPT ![r] = 7]
  /\ UNCHANGED <<row, sessionOf, wire, pageVars>>

(* A run whose client is gone is stopped where it stands, or when it has   *)
(* already ended.                                                          *)
Guard(r) ==
  /\ r # stream /\ sent[r] < 7
  /\ sent' = [sent EXCEPT ![r] = 7]
  /\ \/ sent[r] = 6 /\ UNCHANGED row
     \/ sent[r] < 6 /\ row[r] = "none" /\ UNCHANGED row
     \/ /\ sent[r] < 6
        /\ \E outcome \in {"completed", "failed"} : row' = [row EXCEPT ![r] = outcome]
  /\ UNCHANGED <<sessionOf, wire, pageVars>>

-----------------------------------------------------------------------------
(* The stream.                                                             *)

(* reduceCollaborationEvent *)
EndedAs(status, e) ==
  CASE e \in {"fusion_done", "run_completed"} -> "completed"
    [] e \in {"run_failed", "run_rejected"}   -> "failed"
    [] OTHER                                 -> status

Reduced(status, e) ==
  CASE e = "run_created"        -> "created"
    [] e = "task_graph_created" -> "running"
    [] OTHER                    -> EndedAs(status, e)

(* onEvent.  A split event, whose data came in a later chunk than its type,*)
(* has lost its type.                                                      *)
Deliver(split) ==
  /\ wire # <<>>
  /\ wire' = Tail(wire)
  /\ LET e == Head(wire)
         typed == ~split
         base == IF shown[stream] = "none" THEN "created" ELSE shown[stream]
     IN
       /\ session' = IF \/ typed /\ e = "session_created"
                        \/ e \in {"memory_recall_started", "run_created"}
                     THEN sessionOf[stream] ELSE session
       /\ shown' = IF e \in NamedEvents
                   THEN [shown EXCEPT ![stream] = IF typed THEN Reduced(base, e) ELSE base]
                   ELSE shown
       /\ IF typed /\ e = "run_created"
          THEN /\ streaming' = stream /\ wanted' = stream /\ default' = stream
               /\ list' = list \cup {stream}
          ELSE UNCHANGED <<streaming, wanted, default, list>>
       /\ UNCHANGED stream
       /\ IF session' # session \/ Selected' # Selected \/ (typed /\ e = "run_completed")
          THEN Effect ELSE UNCHANGED <<requests, live, error>>
  /\ UNCHANGED <<row, sent, sessionOf, listing, followed>>

(* The stream has been read to its end. *)
Ends ==
  /\ stream # NoRun /\ wire = <<>> /\ sent[stream] = 7
  /\ followed' = followed \cup {stream}
  /\ stream' = NoRun
  /\ UNCHANGED <<streaming, wanted, default>> /\ Effect
  /\ UNCHANGED <<row, sent, sessionOf, wire, session, list, listing, shown>>

(* The connection breaks, or the server's process dies and the row stays   *)
(* as it is.                                                               *)
Breaks(dies) ==
  /\ stream # NoRun
  /\ sent' = IF dies THEN [r \in Started |-> 7] ELSE sent
  /\ stream' = NoRun /\ wire' = <<>>
  /\ UNCHANGED <<streaming, wanted, default>> /\ Effect
  /\ UNCHANGED <<row, sessionOf, session, list, listing, shown, followed>>

ViewNext ==
  \/ \E r \in Started :
       \/ Submit(r) \/ Select(r) \/ Emit(r) \/ Raise(r) \/ Close(r) \/ Guard(r)
       \/ \E outcome \in {"completed", "failed"} : EndRun(r, outcome)
  \/ \E s \in Maybe : Switch(s)
  \/ \E i \in DOMAIN requests : Answer(i) \/ \E fails \in BOOLEAN : Arrive(i, fails)
  \/ RunsListed \/ Ends
  \/ \E split \in BOOLEAN : Deliver(split)
  \/ \E dies \in BOOLEAN : Breaks(dies)

ViewSpec == ViewInit /\ [][ViewNext]_viewVars

-----------------------------------------------------------------------------
(* Properties.                                                             *)

(* Whatever is lost on the way (events without a run id, events cut in     *)
(* two), once the stream of a run has been read to its end and no request  *)
(* is under way, the page shows the run as it is stored; and it is a run   *)
(* of the session selected, whatever answers late.                         *)
ViewAtRest ==
  /\ Selected # NoRun => sessionOf[Selected] = session
  /\ stream = NoRun /\ ~live /\ ~error /\ Selected \in followed =>
       shown[Selected] = row[Selected]
=============================================================================
