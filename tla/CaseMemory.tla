------------------------------ MODULE CaseMemory ------------------------------
(***************************************************************************)
(* Traffic case memory (case_memory/): cases built on request from ended   *)
(* workflow runs, by builders that read the run, the event and the facts   *)
(* one after another while runs, events and bindings change, and the cases *)
(* offered to the analysis of a later event.                               *)
(***************************************************************************)
EXTENDS Naturals, FiniteSets

CONSTANTS Events, WfRuns, Builders,
          Places, NoPlace, RegionOf(_),  \* canonical locations and their regions
          MaxTime,                       \* bound on the clock, in hours
          Offset,                        \* local time of the server minus UTC
          Changes                        \* bound on events saved again and bindings changed

VARIABLES now,      \* UTC
          event,    \* event_records: the local time of createdAt, and whether eventType is there
          binding,  \* the active row of event_location_bindings
          wfRun,    \* workflow_runs with what hangs on them
          cases,    \* traffic_case_memories, by source_workflow_run_id
          builder,  \* the requests that build a case
          changes
caseVars == <<now, event, binding, wfRun, cases, builder, changes>>

Time == 0..MaxTime
Never == MaxTime + Offset + 1  \* no timestamp
Status == {"running", "completed", "failed", "rejected", "cancelled"}
Ended == Status \ {"running"}
Quality == {"validated", "partial", "low_evidence"}

Event == [created : Offset..Never, typed : BOOLEAN]
NoEvent == [created |-> Never, typed |-> FALSE]
WfRun == [event : Events, managed : BOOLEAN, status : Status, completed : Time \cup {Never},
        stream : BOOLEAN, call : {"none", "executing", "succeeded"},
        overrun : BOOLEAN]  \* see Overruns
NoWfRun == [status |-> "none"]
Case == [event : Events, place : Places, status : Status, completed : Time \cup {Never},
         call : {"none", "executing", "succeeded"}, quality : Quality]
NoCase == [status |-> "none"]
IdleBuilder == [pc |-> "idle"]

ASSUME CaseAssumption ==
  /\ MaxTime \in Nat /\ Offset \in Nat /\ Changes \in Nat /\ NoPlace \notin Places

CaseTypeOK ==
  /\ now \in Time /\ changes \in 0..Changes
  /\ event \in [Events -> Event] /\ binding \in [Events -> Places \cup {NoPlace}]
  /\ \A r \in WfRuns : wfRun[r] \in WfRun \cup {NoWfRun} /\ cases[r] \in Case \cup {NoCase}
  /\ \A b \in Builders : 
       builder[b] = IdleBuilder \/ builder[b].pc \in {"run", "place", "facts", "write"}

CaseInit ==
  /\ now = 0 /\ changes = 0
  /\ event = [e \in Events |-> NoEvent]
  /\ binding = [e \in Events |-> NoPlace]
  /\ wfRun = [r \in WfRuns |-> NoWfRun] /\ cases = [r \in WfRuns |-> NoCase]
  /\ builder = [b \in Builders |-> IdleBuilder]

Tick ==
  /\ now < MaxTime /\ now' = now + 1
  /\ UNCHANGED <<event, binding, wfRun, cases, builder, changes>>

-----------------------------------------------------------------------------
(* What the rest of the program does to the sources of a case              *)

(* save_event_analysis: INSERT OR REPLACE, dated when it was analysed.     *)
Saved(e, typed) == event' = [event EXCEPT ![e] = [created |-> now + Offset, typed |-> typed]]

Import(e) ==
  /\ event[e] = NoEvent /\ Saved(e, TRUE)
  /\ UNCHANGED <<now, binding, wfRun, cases, builder, changes>>

Changed == changes < Changes /\ changes' = changes + 1

Analyse(e) ==
  /\ event[e] # NoEvent /\ Changed /\ Saved(e, TRUE)
  /\ UNCHANGED <<now, binding, wfRun, cases, builder>>

Bind(e, p) ==
  /\ event[e] # NoEvent /\ binding[e] # p
  /\ IF binding[e] = NoPlace THEN UNCHANGED changes ELSE Changed
  /\ binding' = [binding EXCEPT ![e] = p]
  /\ UNCHANGED <<now, event, wfRun, cases, builder>>

StartRun(r, e, managed) ==
  /\ wfRun[r] = NoWfRun /\ event[e] # NoEvent
  /\ wfRun' = [wfRun EXCEPT ![r] = [event |-> e, managed |-> managed, status |-> "running",
                                completed |-> Never, stream |-> ~managed, call |-> "none",
                                overrun |-> FALSE]]
  /\ UNCHANGED <<now, event, binding, cases, builder, changes>>

(* resume does not ask who executes the run: beside the driver's task or   *)
(* after it there may be a stream, whose writes are not fenced.            *)
Resume(r) ==
  /\ wfRun[r] # NoWfRun /\ wfRun[r].status = "running" /\ ~wfRun[r].stream
  /\ wfRun' = [wfRun EXCEPT ![r].stream = TRUE]
  /\ UNCHANGED <<now, event, binding, cases, builder, changes>>

Executing(r) == wfRun[r] # NoWfRun /\ (wfRun[r].status = "running" \/ wfRun[r].stream)

(* What comes to a run after its end from where it ends is on record for   *)
(* the properties: a write of its row, a call of one that has completed.   *)
Overruns(r, ends) == wfRun[r].overrun \/ wfRun[r].status \in ends

Call(r) ==
  /\ Executing(r) /\ wfRun[r].call = "none"
  /\ wfRun' = [wfRun EXCEPT ![r].call = "executing", ![r].overrun = Overruns(r, {"completed"})]
  /\ UNCHANGED <<now, event, binding, cases, builder, changes>>

(* The tool save_result passes neither standardEvent nor analyzedAt, and   *)
(* the row it replaces loses what they hold.                               *)
CallReturns(r, saves) ==
  /\ wfRun[r] # NoWfRun /\ wfRun[r].call = "executing"
  /\ wfRun' = [wfRun EXCEPT ![r].call = "succeeded", ![r].overrun = Overruns(r, {"completed"})]
  /\ IF saves THEN Changed /\ Saved(wfRun[r].event, FALSE) ELSE UNCHANGED <<event, changes>>
  /\ UNCHANGED <<now, binding, cases, builder>>

(* _persist_run sets completed_at in the object; the fenced write of a     *)
(* driver task leaves it out, save_run of a stream or a handler stores it. *)
Dated(r, fenced) == IF fenced THEN wfRun[r].completed ELSE now

(* A driver task ends a run that no one has ended, a stream any.  Where    *)
(* both execute, the call that is out may be the other's.                  *)
Complete(r, status, fenced) ==
  /\ wfRun[r] # NoWfRun
  /\ IF fenced THEN wfRun[r].managed /\ wfRun[r].status = "running" ELSE wfRun[r].stream
  /\ wfRun[r].call # "executing" \/ (wfRun[r].managed /\ wfRun[r].stream)
  /\ wfRun' = [wfRun EXCEPT ![r].status = status, ![r].stream = fenced /\ @,
                        ![r].completed = Dated(r, fenced), ![r].overrun = Overruns(r, Ended)]
  /\ UNCHANGED <<now, event, binding, cases, builder, changes>>

(* Rejection and cancellation are handlers; the execution of a stream goes *)
(* on after them, a call that is out comes back after a cancellation.      *)
EndByHand(r, status) ==
  /\ wfRun[r] # NoWfRun /\ wfRun[r].status = "running"
  /\ wfRun[r].call # "executing" \/ wfRun[r].stream \/ status = "cancelled"
  /\ wfRun' = [wfRun EXCEPT ![r].status = status, ![r].completed = Dated(r, FALSE)]
  /\ UNCHANGED <<now, event, binding, cases, builder, changes>>

(* retry_node takes a run that has ended too: its status stays, and        *)
(* save_run dates what the driver's fenced write left undated.             *)
RetryNode(r) ==
  /\ wfRun[r] # NoWfRun /\ wfRun[r].status \in Ended /\ wfRun[r].completed = Never
  /\ wfRun' = [wfRun EXCEPT ![r].completed = now]
  /\ UNCHANGED <<now, event, binding, cases, builder, changes>>

(* explicit_replan does not ask whether the run has ended; the cutover     *)
(* makes the parent failed, unless rejected, and leaves completed_at.      *)
Replanned(r) ==
  /\ wfRun[r] # NoWfRun /\ wfRun[r].managed /\ wfRun[r].status \notin {"rejected", "failed"}
  /\ wfRun' = [wfRun EXCEPT ![r].status = "failed", ![r].overrun = Overruns(r, Ended)]
  /\ UNCHANGED <<now, event, binding, cases, builder, changes>>

(* A handler or a reservation of another process writes back the whole row *)
(* of a run that has ended since it read it (see RunLease).                *)
WriteOver(r, status, completed) ==
  /\ wfRun[r] # NoWfRun /\ wfRun[r].managed /\ wfRun[r].status \in Ended /\ Changed
  /\ wfRun' = [wfRun EXCEPT ![r].status = status, ![r].completed = completed,
                        ![r].overrun = TRUE]
  /\ UNCHANGED <<now, event, binding, cases, builder>>

-----------------------------------------------------------------------------
(* build_from_workflow_run                                                 *)

(* What was read before, with the fields of new. *)
With(old, new) ==
  [x \in DOMAIN old \cup DOMAIN new |-> IF x \in DOMAIN new THEN new[x] ELSE old[x]]

BuilderGoes(b, next) ==
  /\ builder' = [builder EXCEPT ![b] = next]
  /\ UNCHANGED <<now, event, binding, wfRun, changes>>

(* A case that is there is returned as it is, unless rebuild was asked.    *)
Ask(b, r, rebuild) ==
  /\ builder[b] = IdleBuilder /\ wfRun[r] # NoWfRun
  /\ cases[r] = NoCase \/ rebuild
  /\ BuilderGoes(b, [pc |-> "run", id |-> r, fresh |-> cases[r] = NoCase])
  /\ UNCHANGED cases

Buildable_AsStarted(w) == TRUE
Buildable(w) == w.status \in Ended

ReadRun(b) ==
  LET w == wfRun[builder[b].id] IN
    /\ builder[b].pc = "run"
    /\ BuilderGoes(b, IF Buildable(w) THEN With(builder[b], [pc |-> "place", run |-> w])
                      ELSE IdleBuilder)
    /\ UNCHANGED cases

(* An event without a type or a location makes no case.                    *)
ReadPlace(b) ==
  /\ builder[b].pc = "place"
  /\ LET e == builder[b].run.event IN
       IF event[e].typed /\ binding[e] # NoPlace
         THEN BuilderGoes(b, With(builder[b], [pc |-> "facts", place |-> binding[e]]))
         ELSE BuilderGoes(b, IdleBuilder)
  /\ UNCHANGED cases

(* Approvals and action records, after the run's row.                      *)
ReadFacts(b) ==
  /\ builder[b].pc = "facts"
  /\ LET w == wfRun[builder[b].id] IN
       BuilderGoes(b, With(builder[b], [pc |-> "write", call |-> w.call]))
  /\ UNCHANGED cases

(* The facts of a plan make validated what is dated and decided.           *)
QualityOf(x) ==
  IF x.run.completed = Never THEN "low_evidence"
  ELSE IF x.run.managed /\ (x.run.status = "rejected" \/ x.call # "none")
    THEN "validated" ELSE "partial"

Built(x) ==
  [event |-> x.run.event, place |-> x.place, status |-> x.run.status,
   completed |-> x.run.completed, call |-> x.call,
   quality |-> QualityOf(x)]

(* An insert that finds the run's case there leaves it; a rebuild replaces *)
(* all but the identity, whatever was written since it looked.             *)
Write(b) ==
  LET x == builder[b] IN
    /\ x.pc = "write"
    /\ cases' = IF x.fresh /\ cases[x.id] # NoCase THEN cases
                ELSE [cases EXCEPT ![x.id] = Built(x)]
    /\ BuilderGoes(b, IdleBuilder)

CaseNext ==
  \/ Tick
  \/ \E e \in Events : Import(e) \/ Analyse(e) \/ \E p \in Places : Bind(e, p)
  \/ \E r \in WfRuns :
       \/ \E e \in Events, managed \in BOOLEAN : StartRun(r, e, managed)
       \/ Resume(r) \/ Call(r) \/ \E saves \in BOOLEAN : CallReturns(r, saves)
       \/ \E s \in {"completed", "failed"}, fenced \in BOOLEAN : Complete(r, s, fenced)
       \/ \E s \in {"rejected", "cancelled"} : EndByHand(r, s)
       \/ RetryNode(r) \/ Replanned(r)
       \/ \E s \in Status, t \in {Never, now} : WriteOver(r, s, t)
  \/ \E b \in Builders :
       \/ \E r \in WfRuns, rebuild \in BOOLEAN : Ask(b, r, rebuild)
       \/ ReadRun(b) \/ ReadPlace(b) \/ ReadFacts(b) \/ Write(b)

-----------------------------------------------------------------------------
(* The cases offered to an event                                           *)

(* find_context_candidates: same region, validated or partial, and dated   *)
(* before the event.  createdAt is local time and completed_at UTC, and    *)
(* datetime() compares them as they are.                                   *)
Eligible_AsAnyRegion(c, place, asOf) ==
  c # NoCase /\ c.quality # "low_evidence" /\ c.completed < asOf
Eligible(c, place, asOf) ==
  /\ c # NoCase /\ RegionOf(c.place) = RegionOf(place)
  /\ c.quality # "low_evidence" /\ c.completed < asOf

(* The place itself comes before its region, then the last to end.         *)
BetterCase(c, d, place) ==
  \/ c.place = place /\ d.place # place
  \/ (c.place = place <=> d.place = place) /\ c.completed > d.completed
Offered(place, asOf, limit) ==
  LET fit == {r \in WfRuns : Eligible(cases[r], place, asOf)} IN
    {T \in SUBSET fit :
       /\ Cardinality(T) <= limit /\ (Cardinality(T) < limit => T = fit)
       /\ \A r \in T, s \in fit \ T : ~BetterCase(cases[s], cases[r], place)}

-----------------------------------------------------------------------------
(* Properties                                                              *)

(* A case, once its run has ended, tells how it ended: its event, and for  *)
(* a run of the driver its status, its calls if it completed and the time  *)
(* of its end if it had one, although two builders may overtake each other *)
(* and the facts are read after the run's row.  A run may be dated later   *)
(* than the case was built (retry_node).  Left out are runs whose row or   *)
(* calls were changed after their end (overrun), by the stream of a        *)
(* resume, a replan or another process: their cases do keep what the run   *)
(* no longer says.                                                         *)
CaseIsHowItEnded ==
  \A r \in WfRuns :
    cases[r] # NoCase =>
      /\ cases[r].event = wfRun[r].event
      /\ wfRun[r].managed /\ ~wfRun[r].overrun =>
           /\ cases[r].status = wfRun[r].status
           /\ cases[r].completed \in {Never, wfRun[r].completed}
           /\ wfRun[r].status = "completed" => cases[r].call = wfRun[r].call
=============================================================================
