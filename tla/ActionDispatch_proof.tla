-------------------------- MODULE ActionDispatch_proof --------------------------
(* Theorems about ActionDispatch, for every set of processes, every number *)
(* of generations and every budget.                                        *)
EXTENDS ActionDispatch, TLAPS

USE EpochAssumption, BudgetAssumption

LEMMA TypeInit == Init => TypeOK
<1> SUFFICES ASSUME Init PROVE TypeOK
  OBVIOUS
<1>1. holder \in SUBSET Worker /\ epoch \in 0 .. MaxEpoch /\ health \in {"live", "late", "lapsed"}
  BY DEF Init, Lease!Init
<1>2. status \in Status /\ record \in Record
  BY DEF Init, Status, Record
<1>3. toolCalls \in 0 .. MaxToolCalls /\ retries \in 0 .. MaxRetries
  BY DEF Init
<1>4. NoCopy \in Copy
  BY DEF NoCopy, Copy, Status, Place, Then
<1>5. /\ place \in [Worker -> Place] /\ attempt \in [Worker -> 1 .. MaxAttempts]
      /\ outcome \in [Worker -> {"none", "succeeded", "failed"}]
      /\ copy \in [Worker -> Copy]
  BY <1>4 DEF Init, Place
<1>6. issued \in Nat /\ open \in Int
  BY DEF Init
<1>7. oneProcess \in BOOLEAN /\ highRisk \in BOOLEAN /\ cancelled \in BOOLEAN
  BY DEF Init
<1>8. QED
  BY <1>1, <1>2, <1>3, <1>5, <1>6, <1>7 DEF TypeOK

(* A lease that is granted, renewed, dropped or ages stays well typed. *)
LEMMA LeaseType ==
  ASSUME TypeOK,
         (\E o \in Owner : Lease!Grant(o)) \/ Lease!Renew \/ Lease!Drop \/ Lease!Age
  PROVE  holder' \in SUBSET Worker /\ epoch' \in 0 .. MaxEpoch
         /\ health' \in {"live", "late", "lapsed"}
<1>1. ASSUME NEW o \in Owner, Lease!Grant(o)
      PROVE  holder' \in SUBSET Worker /\ epoch' \in 0 .. MaxEpoch /\ health' = "live"
  BY <1>1 DEF Lease!Grant, TypeOK, Worker
<1>2. QED
  BY <1>1 DEF Lease!Renew, Lease!Drop, Lease!Age, TypeOK

(* A reservation of t calls and r retries leaves well typed variables. *)
LEMMA ReservedType ==
  ASSUME TypeOK, NEW w \in Worker, NEW p \in Then,
         NEW t \in 0 .. MaxToolCalls, NEW r \in 0 .. MaxRetries, Reserved(w, p, t, r)
  PROVE  /\ toolCalls' \in 0 .. MaxToolCalls /\ retries' \in 0 .. MaxRetries
         /\ place' \in [Worker -> Place] /\ copy' \in [Worker -> Copy]
<1>1. [status |-> status, toolCalls |-> t, retries |-> r, then |-> p] \in Copy
  BY DEF TypeOK, Copy
<1>2. "store" \in Place /\ p \in Place
  BY DEF Place, Then
<1>3. QED
  BY <1>1, <1>2 DEF TypeOK, Reserved, Goto

(* Every step preserves the type invariant. *)
LEMMA TypeStep == TypeOK /\ [Next]_vars => TypeOK'
<1> SUFFICES ASSUME TypeOK, [Next]_vars PROVE TypeOK'
  OBVIOUS
<1>1. ASSUME NEW o \in Owner, Claim(o) PROVE TypeOK'
  <2>1. epoch + 1 \in 1 .. MaxEpoch
    BY <1>1 DEF Claim, Lease!Grant, TypeOK
  <2>2. place' \in [Worker -> Place]
    BY <1>1, <2>1 DEF Claim, Goto, TypeOK, Place, Worker
  <2>3. QED
    BY <1>1, <2>2, LeaseType DEF Claim, TypeOK, row, deployment, Local, calls
<1>2. ASSUME NEW o \in Owner, Crash(o) PROVE TypeOK'
  <2>1. NoCopy \in Copy /\ "idle" \in Place /\ 1 \in 1 .. MaxAttempts
    BY DEF NoCopy, Copy, Status, Place, Then
  <2>2. QED
    BY <1>2, <2>1 DEF Crash, TypeOK, lease, row, deployment, calls
<1>3. ASSUME NEW w \in Worker,
             BeginPending(w) \/ BeginReplay(w) \/ BeginNothing(w)
      PROVE  TypeOK'
  BY <1>3 DEF BeginPending, BeginReplay, BeginNothing, Goto, TypeOK, Place, Status,
     lease, row, deployment, Local, calls
<1>4. ASSUME NEW w \in Worker,
             CheckIdempotency(w) \/ GateC1(w) \/ SaveMarker(w) \/ GateC2(w)
      PROVE  TypeOK'
  BY <1>4 DEF CheckIdempotency, GateC1, SaveMarker, GateC2, Goto, TypeOK, Place, Record,
     lease, row, deployment, Local, calls
<1>5. ASSUME NEW w \in Worker, Reserve(w) PROVE TypeOK'
  <2>1. CASE toolCalls < MaxToolCalls /\ Reserved(w, "marker", toolCalls + 1, retries)
    <3>1. toolCalls + 1 \in 0 .. MaxToolCalls /\ retries \in 0 .. MaxRetries /\ "marker" \in Then
      BY <2>1 DEF TypeOK, Then
    <3>2. QED
      BY <1>5, <2>1, <3>1, ReservedType DEF Reserve, TypeOK, lease, deployment, calls
  <2>2. CASE Goto(w, "ok") /\ UNCHANGED <<toolCalls, retries, copy>>
    BY <1>5, <2>2 DEF Reserve, Goto, TypeOK, Place, lease, deployment, calls
  <2>3. QED
    BY <1>5, <2>1, <2>2 DEF Reserve
<1>6. ASSUME NEW w \in Worker, WriteBack(w) PROVE TypeOK'
  <2>1. copy[w] \in Copy /\ NoCopy \in Copy
    BY DEF TypeOK, NoCopy, Copy, Status, Place, Then
  <2>2. /\ copy[w].status \in Status /\ copy[w].then \in Place
        /\ copy[w].toolCalls \in 0 .. MaxToolCalls /\ copy[w].retries \in 0 .. MaxRetries
    BY <2>1 DEF Copy, Then, Place
  <2>3. QED
    BY <1>6, <2>1, <2>2 DEF WriteBack, Goto, TypeOK, lease, deployment, calls
<1>7. ASSUME NEW w \in Worker,
             Dispatch(w) \/ CallReturns(w) \/ CallTimesOut(w) \/ SaveResult(w)
      PROVE  TypeOK'
  BY <1>7 DEF Dispatch, CallReturns, CallTimesOut, SaveResult, Goto, TypeOK, Place, Record,
     lease, row, deployment, Local, calls
<1>8. ASSUME NEW w \in Worker, Retry(w) PROVE TypeOK'
  <2>1. /\ toolCalls \in 0 .. MaxToolCalls /\ retries + 1 \in 0 .. MaxRetries /\ "check" \in Then
        /\ attempt' \in [Worker -> 1 .. MaxAttempts]
    BY <1>8 DEF Retry, TypeOK, Then
  <2>2. Reserved(w, "check", toolCalls, retries + 1)
    BY <1>8 DEF Retry
  <2>3. QED
    BY <1>8, <2>1, <2>2, ReservedType DEF Retry, TypeOK, lease, deployment, calls
<1>9. ASSUME NEW w \in Worker, NodeOver(w) PROVE TypeOK'
  <2>1. toolCalls \in 0 .. MaxToolCalls /\ retries \in 0 .. MaxRetries
    BY DEF TypeOK
  <2>2. CASE Reserved(w, IF At(w, "ok") THEN "okRow" ELSE "errorRow", toolCalls, retries)
    <3>1. (IF At(w, "ok") THEN "okRow" ELSE "errorRow") \in Then
      BY DEF Then
    <3>2. QED
      BY <1>9, <2>1, <2>2, <3>1, ReservedType DEF NodeOver, TypeOK, lease, deployment, calls
  <2>3. CASE Goto(w, "quit") /\ UNCHANGED <<toolCalls, retries, copy>>
    BY <1>9, <2>3 DEF NodeOver, Goto, TypeOK, Place, lease, deployment, calls
  <2>4. QED
    BY <1>9, <2>2, <2>3 DEF NodeOver
<1>10. ASSUME NEW w \in Worker, PersistNode(w) PROVE TypeOK'
  BY <1>10 DEF PersistNode, Goto, TypeOK, Place, Status, lease, deployment, Local, calls
<1>11. ASSUME NEW w \in Worker, Quit(w) PROVE TypeOK'
  <2>1. place' \in [Worker -> Place] /\ attempt' \in [Worker -> 1 .. MaxAttempts]
    BY <1>11 DEF Quit, Goto, TypeOK, Place
  <2>2. holder' \in SUBSET Worker /\ epoch' \in 0 .. MaxEpoch
        /\ health' \in {"live", "late", "lapsed"}
    BY <1>11, LeaseType DEF Quit, TypeOK, lease
  <2>3. QED
    BY <1>11, <2>1, <2>2 DEF Quit, TypeOK, row, deployment, calls
<1>12. CASE Heartbeat \/ TimePasses
  BY <1>12, LeaseType DEF Heartbeat, TimePasses, TypeOK, row, deployment, tasks, calls
<1>13. CASE Cancel
  BY <1>13 DEF Cancel, TypeOK, Status, lease, deployment, tasks, calls
<1>14. CASE Approve
  <2>1. holder' \in SUBSET Worker /\ epoch' \in 0 .. MaxEpoch
        /\ health' \in {"live", "late", "lapsed"}
    BY <1>14, LeaseType DEF Approve, TypeOK, lease
  <2>2. QED
    BY <1>14, <2>1 DEF Approve, TypeOK, Status, deployment, tasks, calls
<1>15. CASE UNCHANGED vars
  BY <1>15 DEF vars, TypeOK
<1>16. QED
  BY <1>1, <1>2, <1>3, <1>4, <1>5, <1>6, <1>7, <1>8, <1>9, <1>10, <1>11, <1>12,
     <1>13, <1>14, <1>15 DEF Next

(* Every reachable state of the dispatch protocol of nodes/action.py is of *)
(* the declared types; no row counts more tool calls than the budget has. *)
THEOREM TypeCorrect == Spec => []TypeOK
BY TypeInit, TypeStep, PTL DEF Spec

-----------------------------------------------------------------------------
(* The actions of a task that leave the lease alone.                       *)
Works(w) ==
  \/ BeginPending(w) \/ BeginReplay(w) \/ BeginNothing(w)
  \/ CheckIdempotency(w) \/ GateC1(w)
  \/ Reserve(w) \/ WriteBack(w)
  \/ SaveMarker(w) \/ GateC2(w) \/ Dispatch(w)
  \/ CallReturns(w) \/ CallTimesOut(w) \/ SaveResult(w)
  \/ Retry(w) \/ NodeOver(w) \/ PersistNode(w)

(* A working task was not idle, and only its own place changes. *)
LEMMA WorkIsLocal ==
  ASSUME TypeOK, NEW w \in Worker, Works(w)
  PROVE  /\ place[w] # "idle"
         /\ place' = [place EXCEPT ![w] = place'[w]]
         /\ UNCHANGED <<holder, epoch, oneProcess, cancelled>>
<1> USE DEF TypeOK, At, Goto, lease, deployment
<1>1. CASE \/ BeginPending(w) \/ BeginReplay(w) \/ BeginNothing(w)
           \/ CheckIdempotency(w) \/ GateC1(w) \/ WriteBack(w)
  BY <1>1 DEF BeginPending, BeginReplay, BeginNothing, CheckIdempotency, GateC1, WriteBack
<1>2. CASE Reserve(w) \/ Retry(w) \/ NodeOver(w)
  BY <1>2 DEF Reserve, Retry, NodeOver, Reserved
<1>3. CASE \/ SaveMarker(w) \/ GateC2(w) \/ Dispatch(w)
           \/ CallReturns(w) \/ CallTimesOut(w) \/ SaveResult(w) \/ PersistNode(w)
  BY <1>3 DEF SaveMarker, GateC2, Dispatch, CallReturns, CallTimesOut, SaveResult, PersistNode
<1>4. QED
  BY <1>1, <1>2, <1>3 DEF Works

(* Next, by what happens to the lease. *)
LEMMA NextCases ==
  ASSUME [Next]_vars
  PROVE  \/ \E o \in Owner : Claim(o)
         \/ \E o \in Owner : Crash(o)
         \/ \E w \in Worker : Works(w)
         \/ \E w \in Worker : Quit(w)
         \/ Heartbeat \/ TimePasses \/ Cancel \/ Approve
         \/ UNCHANGED vars
  BY DEF Next, Works

LEMMA OldInit == Init => TasksAreOld
  BY DEF Init, TasksAreOld, Lease!Init

LEMMA OldStep == TypeOK /\ TasksAreOld /\ [Next]_vars => TasksAreOld'
<1> SUFFICES ASSUME TypeOK, TasksAreOld, [Next]_vars PROVE TasksAreOld'
  OBVIOUS
<1>1. ASSUME NEW o \in Owner, Claim(o) PROVE TasksAreOld'
  BY <1>1 DEF Claim, Lease!Grant, Goto, TypeOK, TasksAreOld, Worker
<1>2. ASSUME NEW o \in Owner, Crash(o) PROVE TasksAreOld'
  BY <1>2 DEF Crash, TypeOK, TasksAreOld, lease
<1>3. ASSUME NEW w \in Worker, Works(w) PROVE TasksAreOld'
  BY <1>3, WorkIsLocal DEF TypeOK, TasksAreOld
<1>4. ASSUME NEW w \in Worker, Quit(w) PROVE TasksAreOld'
  BY <1>4 DEF Quit, Lease!Drop, At, Goto, TypeOK, TasksAreOld, lease
<1>5. CASE Heartbeat \/ TimePasses \/ Cancel \/ Approve \/ UNCHANGED vars
  BY <1>5 DEF Heartbeat, TimePasses, Cancel, Approve, Lease!Renew, Lease!Drop, Lease!Age,
     TasksAreOld, lease, tasks, vars
<1>6. QED
  BY <1>1, <1>2, <1>3, <1>4, <1>5, NextCases

LEMMA CancelledInit == Init => CancelledStays
  BY DEF Init, CancelledStays, NoCopy

LEMMA CancelledStep ==
  TypeOK /\ CancelledStays /\ [Next]_vars => CancelledStays'
<1> SUFFICES ASSUME TypeOK, CancelledStays, [Next]_vars PROVE CancelledStays'
  OBVIOUS
<1> USE DEF CancelledStays
<1>1. ASSUME NEW o \in Owner, Claim(o) PROVE CancelledStays'
  BY <1>1 DEF Claim, Goto, TypeOK, row, deployment, Local
<1>2. ASSUME NEW o \in Owner, Crash(o) PROVE CancelledStays'
  BY <1>2 DEF Crash, TypeOK, row, deployment, NoCopy
<1>3. ASSUME NEW w \in Worker, Reserve(w) \/ Retry(w) \/ NodeOver(w)
      PROVE  CancelledStays'
  BY <1>3 DEF Reserve, Retry, NodeOver, Reserved, Goto, TypeOK, deployment
<1>4. ASSUME NEW w \in Worker, WriteBack(w)
      PROVE  CancelledStays'
  BY <1>4 DEF WriteBack, At, Goto, TypeOK, deployment, NoCopy
<1>5. ASSUME NEW w \in Worker, BeginPending(w) \/ PersistNode(w)
      PROVE  CancelledStays'
  BY <1>5 DEF BeginPending, PersistNode, SeenValid, Holds, Goto, TypeOK, deployment, Local
<1>6. ASSUME NEW w \in Worker,
             \/ BeginReplay(w) \/ BeginNothing(w) \/ CheckIdempotency(w) \/ GateC1(w)
             \/ SaveMarker(w) \/ GateC2(w) \/ Dispatch(w)
             \/ CallReturns(w) \/ CallTimesOut(w) \/ SaveResult(w)
      PROVE  CancelledStays'
  BY <1>6 DEF BeginReplay, BeginNothing, CheckIdempotency, GateC1, SaveMarker, GateC2, Dispatch,
     CallReturns, CallTimesOut, SaveResult, Goto, TypeOK, row, deployment, Local
<1>7. ASSUME NEW w \in Worker, Quit(w) PROVE CancelledStays'
  BY <1>7 DEF Quit, Goto, TypeOK, row, deployment
<1>8. CASE Heartbeat \/ TimePasses \/ Cancel \/ Approve \/ UNCHANGED vars
  BY <1>8 DEF Heartbeat, TimePasses, Cancel, Approve, deployment, row, tasks, vars
<1>9. QED
  BY <1>1, <1>2, <1>3, <1>4, <1>5, <1>6, <1>7, <1>8, NextCases DEF Works

-----------------------------------------------------------------------------
(* One call at a time.                                                     *)

Safe == OneCaller /\ CallIsKnown

LEMMA SafeInit == Init => Safe
  BY DEF Init, Safe, OneCaller, CallIsKnown, Calling, Checked, At

LEMMA SafeStep ==
  ASSUME TypeOK, TasksAreOld, CancelledStays, Safe, [Next]_vars, ~CancelMayBeUndone'
  PROVE  Safe'
<1> USE DEF TypeOK, Safe, OneCaller, CallIsKnown, Calling, Checked, Claimed, At, Goto
<1>1. ASSUME NEW o \in Owner, Claim(o) PROVE Safe'
  BY <1>1 DEF TasksAreOld, Claim, Lease!Grant, row, deployment, Local, calls, Worker
<1>2. ASSUME NEW o \in Owner, Crash(o) PROVE Safe'
  BY <1>2 DEF Crash, lease, row, deployment, calls
<1>3. ASSUME NEW w \in Worker,
             BeginPending(w) \/ BeginReplay(w) \/ BeginNothing(w) \/ PersistNode(w)
      PROVE  Safe'
  BY <1>3 DEF BeginPending, BeginReplay, BeginNothing, PersistNode,
     lease, row, deployment, Local, calls
<1>4. ASSUME NEW w \in Worker, CheckIdempotency(w) PROVE Safe'
  BY <1>4 DEF CheckIdempotency, lease, row, deployment, Local, calls
<1>5. ASSUME NEW w \in Worker, GateC1(w) \/ SaveMarker(w) PROVE Safe'
  BY <1>5 DEF GateC1, SaveMarker, lease, row, deployment, Local, calls
<1>6. ASSUME NEW w \in Worker, Reserve(w) \/ Retry(w) \/ NodeOver(w) PROVE Safe'
  BY <1>6 DEF Reserve, Retry, NodeOver, Reserved, lease, deployment, calls
<1>7. ASSUME NEW w \in Worker, WriteBack(w) PROVE Safe'
  BY <1>7 DEF WriteBack, Copy, Then, lease, deployment, calls
<1>8. ASSUME NEW w \in Worker, GateC2(w) PROVE Safe'
  BY <1>8 DEF GateC2, CancelledStays, SeenValid, Holds, CancelMayBeUndone,
     lease, row, deployment, Local, calls
<1>9. ASSUME NEW w \in Worker, Dispatch(w) PROVE Safe'
  BY <1>9 DEF Dispatch, lease, row, deployment, Local
<1>10. ASSUME NEW w \in Worker, CallReturns(w) \/ CallTimesOut(w) PROVE Safe'
  BY <1>10 DEF CallReturns, CallTimesOut, lease, row, deployment, Local, calls
<1>11. ASSUME NEW w \in Worker, SaveResult(w) PROVE Safe'
  BY <1>11 DEF SaveResult, lease, row, deployment, calls
<1>12. ASSUME NEW w \in Worker, Quit(w) PROVE Safe'
  BY <1>12 DEF Quit, Lease!Drop, row, deployment, calls, lease
<1>13. CASE Heartbeat \/ TimePasses \/ Cancel \/ Approve \/ UNCHANGED vars
  BY <1>13 DEF Heartbeat, TimePasses, Cancel, Approve, Lease!Renew, Lease!Drop, Lease!Age,
     lease, row, deployment, tasks, calls, vars
<1>14. QED
  BY <1>1, <1>2, <1>3, <1>4, <1>5, <1>6, <1>7, <1>8, <1>9, <1>10, <1>11, <1>12, <1>13,
     NextCases DEF Works

-----------------------------------------------------------------------------
(* The budget.                                                             *)

LEMMA PaidInit == Init => CallIsPaid
  BY DEF Init, CallIsPaid, At, Paid

(* A task that is about to dispatch has paid, and so has the holder on its *)
(* way to the gate; by CallIsKnown there is no other caller meanwhile.     *)
LEMMA PaidStep ==
  ASSUME TypeOK, TasksAreOld, CancelledStays, CancelMayBeUndone \/ Safe, CallIsPaid, [Next]_vars
  PROVE  CallIsPaid'
<1> SUFFICES ASSUME oneProcess' PROVE CallIsPaid'
  BY DEF CallIsPaid
<1> USE DEF TypeOK, CallIsPaid, Paid, Claimed, At, Goto
<1>0. oneProcess
  <2>1. UNCHANGED oneProcess
    BY NextCases, WorkIsLocal DEF Claim, Crash, Quit, Heartbeat, TimePasses, Cancel, Approve,
       deployment, vars
  <2>2. QED
    BY <2>1
<1>s. Safe
  BY <1>0 DEF CancelMayBeUndone
<1>1. ASSUME NEW o \in Owner, Claim(o) PROVE CallIsPaid'
  BY <1>0, <1>1 DEF TasksAreOld, Claim, Lease!Grant, row, deployment, calls, Worker
<1>2. ASSUME NEW o \in Owner, Crash(o) PROVE CallIsPaid'
  BY <1>0, <1>2 DEF Crash, lease, row, deployment, calls
<1>3. ASSUME NEW w \in Worker, Reserve(w) \/ Retry(w) \/ NodeOver(w) PROVE CallIsPaid'
  BY <1>0, <1>s, <1>3 DEF Safe, CallIsKnown, Checked, Calling, Reserve, Retry, NodeOver, Reserved,
     lease, deployment, calls
<1>4. ASSUME NEW w \in Worker, WriteBack(w) PROVE CallIsPaid'
  BY <1>0, <1>4 DEF WriteBack, CancelledStays
<1>5. ASSUME NEW w \in Worker, GateC2(w) PROVE CallIsPaid'
  BY <1>0, <1>5 DEF GateC2, CancelledStays, SeenValid, Holds, lease, row, deployment, Local, calls
<1>6. ASSUME NEW w \in Worker, Dispatch(w) PROVE CallIsPaid'
  BY <1>0, <1>s, <1>6 DEF Safe, OneCaller, CallIsKnown, Checked, Calling, Dispatch,
     lease, row, deployment
<1>7. ASSUME NEW w \in Worker,
             \/ BeginPending(w) \/ BeginReplay(w) \/ BeginNothing(w)
             \/ CheckIdempotency(w) \/ GateC1(w) \/ SaveMarker(w)
             \/ CallReturns(w) \/ CallTimesOut(w) \/ SaveResult(w) \/ PersistNode(w)
      PROVE  CallIsPaid'
  BY <1>0, <1>7 DEF BeginPending, BeginReplay, BeginNothing, CheckIdempotency, GateC1, SaveMarker,
     CallReturns, CallTimesOut, SaveResult, PersistNode, lease, row, deployment, calls
<1>8. ASSUME NEW w \in Worker, Quit(w) PROVE CallIsPaid'
  BY <1>0, <1>8 DEF Quit, Lease!Drop, lease, row, deployment, calls
<1>9. CASE Heartbeat \/ TimePasses \/ Cancel \/ Approve \/ UNCHANGED vars
  BY <1>0, <1>9 DEF Heartbeat, TimePasses, Cancel, Approve, Lease!Renew, Lease!Drop, Lease!Age,
     lease, row, deployment, tasks, calls, vars
<1>10. QED
  BY <1>1, <1>2, <1>3, <1>4, <1>5, <1>6, <1>7, <1>8, <1>9, NextCases DEF Works

-----------------------------------------------------------------------------
LEMMA InvInit == Init => IInv
  BY TypeInit, OldInit, CancelledInit, SafeInit, PaidInit DEF IInv, Safe

LEMMA InvStep == IInv /\ [Next]_vars => IInv'
<1> SUFFICES ASSUME IInv, [Next]_vars PROVE IInv'
  OBVIOUS
<1>1. TypeOK' /\ TasksAreOld' /\ CancelledStays'
  BY TypeStep, OldStep, CancelledStep DEF IInv
<1>2. CallIsPaid'
  BY PaidStep DEF IInv, Safe
<1>3. ASSUME ~CancelMayBeUndone'
      PROVE  Safe'
  <2>1. CancelMayBeUndone => CancelMayBeUndone'
    <3>1. CASE Cancel
      BY <3>1 DEF Cancel, CancelMayBeUndone, deployment
    <3>2. CASE \E w \in Worker : Works(w)
      BY <3>2, WorkIsLocal DEF IInv, CancelMayBeUndone
    <3>3. CASE \/ \E o \in Owner : Claim(o) \/ Crash(o)
               \/ \E w \in Worker : Quit(w)
               \/ Heartbeat \/ TimePasses \/ Approve \/ UNCHANGED vars
      BY <3>3 DEF Claim, Crash, Quit, Heartbeat, TimePasses, Approve, CancelMayBeUndone,
         deployment, vars
    <3>4. QED
      BY <3>1, <3>2, <3>3, NextCases
  <2>2. QED
    BY <1>3, <2>1, SafeStep DEF IInv, Safe
<1>4. QED
  BY <1>1, <1>2, <1>3 DEF IInv, Safe

(* The inductive invariant. *)
THEOREM Invariant == Spec => []IInv
BY InvInit, InvStep, PTL DEF Spec

(* However often the action is retried, restarted, taken over or cut off,  *)
(* at most one of its calls is in flight, succeeded or of unknown outcome. *)
THEOREM OneOpenCall == Spec => []AtMostOneOpenCall
<1>1. IInv => AtMostOneOpenCall
  BY DEF IInv, OneCaller, AtMostOneOpenCall
<1>2. QED
  BY <1>1, Invariant, PTL

(* A call that may have taken effect is on record while the run lives. *)
THEOREM CallRecorded == Spec => []OpenCallOnRecord
<1>1. IInv => OpenCallOnRecord
  BY DEF IInv, OneCaller, CallIsKnown, OpenCallOnRecord, CancelMayBeUndone
<1>2. QED
  BY <1>1, Invariant, PTL

(* Within one process every call is paid for before it is made. *)
THEOREM BudgetHolds == Spec => []CallsWithinBudget
<1>1. IInv => CallsWithinBudget
  BY DEF IInv, CallIsPaid, CallsWithinBudget
<1>2. QED
  BY <1>1, Invariant, PTL

(* Within one process no task passes the last gate of a cancelled run. *)
THEOREM CancelIsHeard == Spec => CancelStopsDispatch
<1>1. ASSUME IInv, [Next]_vars, oneProcess, cancelled, NEW w \in Worker, Passes(w)
      PROVE  FALSE
  <2>1. ~Holds(w)
    BY <1>1 DEF IInv, CancelledStays, Holds
  <2>2. ASSUME NEW v \in Worker, Works(v) PROVE v = w /\ GateC2(w)
    <3>1. v = w
      BY <1>1, <2>2, WorkIsLocal DEF IInv, TypeOK, Passes
    <3>2. Works(w) /\ At(w, "c2")
      BY <1>1, <2>2, <3>1 DEF Passes, At
    <3>3. GateC2(w)
      BY <3>2 DEF Works, At, BeginPending, BeginReplay, BeginNothing, CheckIdempotency, GateC1,
         Reserve, WriteBack, SaveMarker, Dispatch, CallReturns, CallTimesOut, SaveResult,
         Retry, NodeOver, PersistNode
    <3>4. QED
      BY <3>1, <3>3
  <2>3. ~GateC2(w)
    BY <1>1, <2>1 DEF GateC2, SeenValid, Goto, Passes, IInv, TypeOK
  <2>4. ~\E v \in Worker : Works(v)
    BY <2>2, <2>3
  <2>5. place'[w] \in {place[w], "idle", "begin"}
    BY <1>1, <2>4, NextCases DEF Claim, Crash, Quit, Heartbeat, TimePasses, Cancel, Approve,
       Goto, IInv, TypeOK, tasks, vars
  <2>6. QED
    BY <1>1, <2>5 DEF Passes
<1>2. IInv /\ [Next]_vars => [oneProcess /\ cancelled => \A w \in Worker : ~Passes(w)]_vars
  BY <1>1
<1>3. QED
  BY <1>2, Invariant, PTL DEF Spec, CancelStopsDispatch
=============================================================================
