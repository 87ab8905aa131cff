---------------------------- MODULE RunLease_proof ----------------------------
(* Theorems about RunLease, for every set of processes and every bound.    *)
EXTENDS RunLease, TLAPS

USE OwnerAssumption, NoLeaseAssumption, MaxGenAssumption, LeaseAssumption

LEMMA TypeInit == Init => TypeOK
<1> SUFFICES ASSUME Init PROVE TypeOK
  OBVIOUS
<1> USE DEF Init
<1>1. status \in Status /\ mem \in [Worker -> Status]
  BY DEF Status
<1>2. owner \in Owner \cup {NoOwner} /\ gen \in 0 .. MaxGen
  OBVIOUS
<1>3. /\ lease \in ((-(Lag + 1)) .. LeaseTicks) \cup {NoLease}
      /\ (lease = NoLease) <=> (owner = NoOwner)
  OBVIOUS
<1>4. alive \in SUBSET Owner /\ reading \in SUBSET alive
  OBVIOUS
<1>5. phase \in [Worker -> Phase]
  BY DEF Phase
<1>6. /\ nodeRuns \in {"none", "some", "failed"}
      /\ hb \in [Worker -> BOOLEAN] /\ stale \in [Worker -> BOOLEAN]
  OBVIOUS
<1>7. /\ busy \in [Owner -> Business] /\ back \in [Owner -> Status]
      /\ late \in SUBSET Owner /\ torn \in BOOLEAN
  BY DEF Business, Status
<1>8. QED
  BY <1>1, <1>2, <1>3, <1>4, <1>5, <1>6, <1>7 DEF TypeOK

(* What a fenced write leaves behind is well typed. *)
LEMMA FencedWriteType ==
  ASSUME TypeOK, NEW w \in Worker, NEW d \in 0 .. Lag, NEW s \in Status,
         NEW p \in Phase, NEW q \in Phase, FencedWrite(w, d, s, p, q)
  PROVE  /\ status' \in Status
         /\ phase' \in [Worker -> Phase]
         /\ stale' \in [Worker -> BOOLEAN]
         /\ late' \in SUBSET Owner
         /\ UNCHANGED <<busy, back, torn>>
<1> USE DEF TypeOK, FencedWrite, Goto, WrittenBy
<1>1. status' \in Status /\ phase' \in [Worker -> Phase]
  OBVIOUS
<1>2. stale' \in [Worker -> BOOLEAN]
  OBVIOUS
<1>3. late' \in SUBSET Owner
  OBVIOUS
<1>4. QED
  BY <1>1, <1>2, <1>3

(* Every step preserves the type invariant. *)
LEMMA TypeStep == TypeOK /\ [Next]_vars => TypeOK'
<1> SUFFICES ASSUME TypeOK, [Next]_vars PROVE TypeOK'
  OBVIOUS
<1> USE DEF TypeOK, Goto, Remember, WrittenBy, row, tasks, writeBacks
<1>1. ASSUME NEW o \in Owner, NEW d \in 0 .. Lag, ClaimDriverRun(o, d)
      PROVE  TypeOK'
  BY <1>1 DEF ClaimDriverRun
<1>2. ASSUME NEW o \in Owner, ReadGeneration(o)
      PROVE  TypeOK'
  BY <1>2 DEF ReadGeneration, Phase
<1>3. ASSUME NEW o \in Owner, Crash(o)
      PROVE  TypeOK'
<2>1. busy' \in [Owner -> Business] /\ back' \in [Owner -> Status] /\ late' \in SUBSET Owner
  BY <1>3 DEF Crash, Business, Status
<2>2. /\ phase' \in [Worker -> Phase] /\ mem' \in [Worker -> Status]
      /\ hb' \in [Worker -> BOOLEAN] /\ stale' \in [Worker -> BOOLEAN]
  BY <1>3 DEF Crash, Phase, Status
<2>3. QED
  BY <1>3, <2>1, <2>2 DEF Crash
<1>4. ASSUME NEW w \in Worker, Drive(w)
      PROVE  TypeOK'
  BY <1>4 DEF Drive, Phase
<1>5. ASSUME NEW w \in Worker, Load(w)
      PROVE  TypeOK'
  BY <1>5 DEF Load, Phase, Status
<1>6. ASSUME NEW w \in Worker, ReplayResume(w)
      PROVE  TypeOK'
  BY <1>6 DEF ReplayResume, Phase
<1>7. ASSUME NEW w \in Worker, ReleaseDriverLease(w)
      PROVE  TypeOK'
  BY <1>7 DEF ReleaseDriverLease, Phase, Status
<1>8. ASSUME NEW w \in Worker, NEW d \in 0 .. Lag, FirstPersist(w, d)
      PROVE  TypeOK'
<2>1. mem[w] \in Status
  OBVIOUS
<2>2. QED
  BY <1>8, <2>1, FencedWriteType DEF FirstPersist, Phase
<1>9. ASSUME NEW w \in Worker, NEW d \in 0 .. Lag, OpenSegment(w, d)
      PROVE  TypeOK'
<2>1. mem[w] \in Status
  OBVIOUS
<2>2. QED
  BY <1>9, <2>1, FencedWriteType DEF OpenSegment, Phase
<1>10. ASSUME NEW w \in Worker, NEW d \in 0 .. Lag, ReplayPause(w, d)
       PROVE  TypeOK'
<2>1. FencedWrite(w, d, "paused", "reload", "reload")
  BY <1>10 DEF ReplayPause
<2>2. /\ status' \in Status /\ phase' \in [Worker -> Phase]
      /\ stale' \in [Worker -> BOOLEAN] /\ late' \in SUBSET Owner /\ UNCHANGED <<busy, back, torn>>
  BY <2>1, FencedWriteType DEF Phase, Status
<2>3. mem' \in [Worker -> Status]
  BY <1>10 DEF ReplayPause, Status
<2>4. QED
  BY <1>10, <2>2, <2>3 DEF ReplayPause
<1>11. ASSUME NEW w \in Worker, NEW d \in 0 .. Lag, ReplaySegment(w, d)
       PROVE  TypeOK'
<2>1. FencedWrite(w, d, mem[w], "gate", "final") /\ mem[w] \in Status
  BY <1>11 DEF ReplaySegment
<2>2. /\ status' \in Status /\ phase' \in [Worker -> Phase]
      /\ stale' \in [Worker -> BOOLEAN] /\ late' \in SUBSET Owner /\ UNCHANGED <<busy, back, torn>>
  BY <2>1, FencedWriteType DEF Phase
<2>3. mem' \in [Worker -> Status]
  BY <1>11 DEF ReplaySegment, Status
<2>4. QED
  BY <1>11, <2>2, <2>3 DEF ReplaySegment
<1>12. ASSUME NEW w \in Worker, NEW d \in 0 .. Lag, Gate(w, d)
       PROVE  TypeOK'
  BY <1>12 DEF Gate, Phase
<1>13. ASSUME NEW w \in Worker, NEW d \in 0 .. Lag, NodeReturn(w, d)
       PROVE  TypeOK'
  BY <1>13 DEF NodeReturn, Phase, Status
<1>14. ASSUME NEW w \in Worker, NEW d \in 0 .. Lag, Persist(w, d)
       PROVE  TypeOK'
<2>1. \E s \in Status, p \in Phase, q \in Phase : FencedWrite(w, d, s, p, q)
  BY <1>14 DEF Persist, Phase, Status
<2>2. /\ status' \in Status /\ phase' \in [Worker -> Phase]
      /\ stale' \in [Worker -> BOOLEAN] /\ late' \in SUBSET Owner /\ UNCHANGED <<busy, back, torn>>
  BY <2>1, FencedWriteType
<2>3. QED
  BY <1>14, <2>2 DEF Persist
<1>15. ASSUME NEW w \in Worker, NEW d \in 0 .. Lag, CloseSegment(w, d)
       PROVE  TypeOK'
<2>1. mem[w] \in Status
  OBVIOUS
<2>2. QED
  BY <1>15, <2>1, FencedWriteType DEF CloseSegment, Phase
<1>16. ASSUME NEW w \in Worker, NEW d \in 0 .. Lag, Finish(w, d)
       PROVE  TypeOK'
<2>1. mem[w] \in Status
  OBVIOUS
<2>2. QED
  BY <1>16, <2>1, FencedWriteType DEF Finish, Phase
<1>17. ASSUME NEW w \in Worker, NEW d \in 0 .. Lag, Heartbeat(w, d)
       PROVE  TypeOK'
<2>1. hb' \in [Worker -> BOOLEAN]
  BY <1>17 DEF Heartbeat
<2>2. CASE UNCHANGED lease
  BY <1>17, <2>1, <2>2 DEF Heartbeat
<2>3. CASE Renewable(w, d) /\ lease' = LeaseTicks - d
  <3>1. /\ lease' \in (-(Lag + 1)) .. LeaseTicks
        /\ lease' # NoLease /\ lease # NoLease
    BY <2>3 DEF Renewable
  <3>2. QED
    BY <1>17, <2>1, <3>1 DEF Heartbeat
<2>4. QED
  BY <1>17, <2>2, <2>3 DEF Heartbeat
<1>18. ASSUME NEW o \in Owner, Request(o)
       PROVE  TypeOK'
<2>1. CASE Retry(o)
  BY <2>1 DEF Retry, Business
<2>2. CASE \E m \in Status : Means(o, m)
  BY <2>2 DEF Means, Business
<2>3. QED
  BY <1>18, <2>1, <2>2 DEF Request, Cancel, Approve, Reject, Replan, Status
<1>19. ASSUME Tick
       PROVE  TypeOK'
  BY <1>19 DEF Tick
<1>20. ASSUME UNCHANGED vars
       PROVE  TypeOK'
  BY <1>20 DEF vars
<1>21. ASSUME NEW w \in Worker, Reserve(w)
       PROVE  TypeOK'
  BY <1>21 DEF Reserve, Business
<1>22. ASSUME NEW o \in Owner, WriteBack(o)
       PROVE  TypeOK'
<2>1. status' \in Status /\ back' \in [Owner -> Status] /\ busy' \in [Owner -> Business]
  BY <1>22 DEF WriteBack, Status, Business
<2>2. stale' \in [Worker -> BOOLEAN] /\ late' \in SUBSET Owner
  BY <1>22 DEF WriteBack
<2>3. /\ owner' \in Owner \cup {NoOwner}
      /\ lease' \in ((-(Lag + 1)) .. LeaseTicks) \cup {NoLease}
      /\ (lease' = NoLease) <=> (owner' = NoOwner)
  BY <1>22 DEF WriteBack, Queued
<2>4. torn' \in BOOLEAN
  BY <1>22 DEF WriteBack, Clean
<2>5. QED
  BY <1>22, <2>1, <2>2, <2>3, <2>4 DEF WriteBack
<1>23. QED
  BY <1>1, <1>2, <1>3, <1>4, <1>5, <1>6, <1>7, <1>8, <1>9, <1>10, <1>11, <1>12, <1>13,
     <1>14, <1>15, <1>16, <1>17, <1>18, <1>19, <1>20, <1>21, <1>22
     DEF Next, Execution, Task, Poll, Request

(* Type correctness of every reachable state. *)
THEOREM TypeCorrect == Spec => []TypeOK
  BY TypeInit, TypeStep, PTL DEF Spec
-----------------------------------------------------------------------------
(* The lease has one holder. *)
LEMMA OneHolder ==
  ASSUME NEW v \in Worker, NEW w \in Worker, IsOwner(v), IsOwner(w)
  PROVE  v = w
<1>1. v = <<v[1], v[2]>> /\ w = <<w[1], w[2]>>
  BY DEF Worker
<1>2. v[1] = w[1] /\ v[2] = w[2]
  BY DEF IsOwner
<1>3. QED
  BY <1>1, <1>2

(* What a statement of the task v does to the row, to other tasks and to   *)
(* those who are about to write back, as far as the invariant is concerned. *)
TaskStep(v) ==
  /\ gen' = gen /\ alive' = alive /\ reading' = reading
  /\ busy' = busy /\ back' = back /\ torn' = torn
  /\ \/ status' = status /\ late' = late
     \/ late' = {o \in Owner : ~Idle(o)}
  /\ owner' \in {owner, NoOwner}
  /\ status' # status => IsOwner(v) /\ phase[v] # "none" /\ status # "cancelled"
  /\ phase'[v] # "none" => phase[v] # "none"
  /\ \A w \in Worker \ {v} :
       /\ phase'[w] = phase[w]
       /\ mem'[w] = mem[w]
       /\ stale'[w] => stale[w] \/ (IsOwner(v) /\ phase[v] # "none")
  /\ stale'[v] /\ phase'[v] \notin {"none", "drive", "close", "ending"} =>
       stale[v] /\ phase[v] \notin {"none", "drive", "close", "ending"}

(* The statements of a task, and its heartbeat, are task steps. *)
LEMMA TaskSteps ==
  ASSUME TypeOK, NEW v \in Worker,
         Task(v) \/ \E d \in 0 .. Lag : Heartbeat(v, d)
  PROVE  TaskStep(v)
<1> USE DEF TypeOK, TaskStep, Goto, Remember, WrittenBy, row, tasks, writeBacks
<1>1. ASSUME Drive(v)
      PROVE  TaskStep(v)
  BY <1>1 DEF Drive
<1>2. ASSUME Load(v)
      PROVE  TaskStep(v)
  BY <1>2 DEF Load
<1>3. ASSUME ReplayResume(v)
      PROVE  TaskStep(v)
  BY <1>3 DEF ReplayResume
<1>4. ASSUME ReleaseDriverLease(v)
      PROVE  TaskStep(v)
  BY <1>4 DEF ReleaseDriverLease
<1>5. ASSUME NEW d \in 0 .. Lag, FirstPersist(v, d)
      PROVE  TaskStep(v)
  BY <1>5 DEF FirstPersist, FencedWrite, Valid
<1>6. ASSUME NEW d \in 0 .. Lag, OpenSegment(v, d)
      PROVE  TaskStep(v)
  BY <1>6 DEF OpenSegment, FencedWrite, Valid
<1>7. ASSUME NEW d \in 0 .. Lag, ReplayPause(v, d)
      PROVE  TaskStep(v)
  BY <1>7 DEF ReplayPause, FencedWrite, Valid
<1>8. ASSUME NEW d \in 0 .. Lag, ReplaySegment(v, d)
      PROVE  TaskStep(v)
  BY <1>8 DEF ReplaySegment, FencedWrite, Valid
<1>9. ASSUME NEW d \in 0 .. Lag, Gate(v, d)
      PROVE  TaskStep(v)
  BY <1>9 DEF Gate
<1>10. ASSUME NEW d \in 0 .. Lag, NodeReturn(v, d)
      PROVE  TaskStep(v)
  BY <1>10 DEF NodeReturn
<1>11. ASSUME NEW d \in 0 .. Lag, Persist(v, d)
      PROVE  TaskStep(v)
  BY <1>11 DEF Persist, FencedWrite, Valid
<1>12. ASSUME NEW d \in 0 .. Lag, CloseSegment(v, d)
      PROVE  TaskStep(v)
  BY <1>12 DEF CloseSegment, FencedWrite, Valid
<1>13. ASSUME NEW d \in 0 .. Lag, Finish(v, d)
      PROVE  TaskStep(v)
  BY <1>13 DEF Finish, FencedWrite, Valid
<1>14. ASSUME NEW d \in 0 .. Lag, Heartbeat(v, d)
      PROVE  TaskStep(v)
  BY <1>14 DEF Heartbeat
<1>15. QED
  BY <1>1, <1>2, <1>3, <1>4, <1>5, <1>6, <1>7, <1>8, <1>9, <1>10, <1>11, <1>12, <1>13, <1>14 DEF Task

(* What the holder knows survives its own statements. *)
LEMMA HolderStep ==
  ASSUME IInv, RowIsKnown, NEW v \in Worker, IsOwner(v)', status' # "cancelled",
         Task(v) \/ \E d \in 0 .. Lag : Heartbeat(v, d)
  PROVE  HolderKnows(v)'
<1>1. IsOwner(v) /\ status # "cancelled"
  <2>1. TaskStep(v)
    BY TaskSteps DEF IInv
  <2>2. v[1] # NoOwner
    BY DEF Worker
  <2>3. QED
    BY <2>1, <2>2 DEF TaskStep, IsOwner
<1>2. HolderKnows(v)
  BY <1>1 DEF RowIsKnown, HolderKnowsTheRow
<1> USE <1>1, <1>2 DEF HolderKnows, IInv, TypeOK, Goto, Remember, row, tasks, Runnable
<1>3. ASSUME Drive(v)
      PROVE  HolderKnows(v)'
  BY <1>3 DEF Drive
<1>4. ASSUME Load(v)
      PROVE  HolderKnows(v)'
  BY <1>4 DEF Load
<1>5. ASSUME ReplayResume(v)
      PROVE  HolderKnows(v)'
  BY <1>5 DEF ReplayResume
<1>6. ASSUME ReleaseDriverLease(v)
      PROVE  HolderKnows(v)'
  BY <1>6 DEF ReleaseDriverLease
<1>7. ASSUME NEW d \in 0 .. Lag, FirstPersist(v, d)
      PROVE  HolderKnows(v)'
  BY <1>7 DEF FirstPersist, FencedWrite, Valid
<1>8. ASSUME NEW d \in 0 .. Lag, OpenSegment(v, d)
      PROVE  HolderKnows(v)'
  BY <1>8 DEF OpenSegment, FencedWrite, Valid
<1>9. ASSUME NEW d \in 0 .. Lag, ReplayPause(v, d)
      PROVE  HolderKnows(v)'
  BY <1>9 DEF ReplayPause, FencedWrite, Valid
<1>10. ASSUME NEW d \in 0 .. Lag, ReplaySegment(v, d)
      PROVE  HolderKnows(v)'
  BY <1>10 DEF ReplaySegment, FencedWrite, Valid
<1>11. ASSUME NEW d \in 0 .. Lag, Gate(v, d)
      PROVE  HolderKnows(v)'
  BY <1>11 DEF Gate
<1>12. ASSUME NEW d \in 0 .. Lag, NodeReturn(v, d)
      PROVE  HolderKnows(v)'
  BY <1>12 DEF NodeReturn
<1>13. ASSUME NEW d \in 0 .. Lag, Persist(v, d)
      PROVE  HolderKnows(v)'
  BY <1>13 DEF Persist, FencedWrite, Valid
<1>14. ASSUME NEW d \in 0 .. Lag, CloseSegment(v, d)
      PROVE  HolderKnows(v)'
  BY <1>14 DEF CloseSegment, FencedWrite, Valid
<1>15. ASSUME NEW d \in 0 .. Lag, Finish(v, d)
      PROVE  HolderKnows(v)'
  BY <1>15 DEF Finish, FencedWrite, Valid
<1>16. ASSUME NEW d \in 0 .. Lag, Heartbeat(v, d)
      PROVE  HolderKnows(v)'
  BY <1>16 DEF Heartbeat
<1>17. QED
  BY <1>3, <1>4, <1>5, <1>6, <1>7, <1>8, <1>9, <1>10, <1>11, <1>12, <1>13, <1>14, <1>15, <1>16 DEF Task

(* Whoever moves, running tasks are old. *)
LEMMA TasksStayOld ==
  ASSUME IInv, [Next]_vars
  PROVE  TasksAreOld'
<1> USE DEF IInv, TypeOK, TasksAreOld
<1>1. ASSUME NEW v \in Worker, Task(v) \/ \E d \in 0 .. Lag : Heartbeat(v, d)
      PROVE  TasksAreOld'
  BY <1>1, TaskSteps DEF TaskStep
<1>2. ASSUME NEW o \in Owner, NEW d \in 0 .. Lag, ClaimDriverRun(o, d)
      PROVE  TasksAreOld'
  BY <1>2 DEF ClaimDriverRun, tasks, Worker
<1>3. ASSUME NEW o \in Owner, ReadGeneration(o)
      PROVE  TasksAreOld'
  BY <1>3 DEF ReadGeneration, Goto, row
<1>4. ASSUME NEW o \in Owner, Crash(o)
      PROVE  TasksAreOld'
  BY <1>4 DEF Crash, row
<1>5. ASSUME NEW o \in Owner, WriteBack(o)
      PROVE  TasksAreOld'
  BY <1>5 DEF WriteBack
<1>6. ASSUME NEW w \in Worker, Reserve(w)
      PROVE  TasksAreOld'
  BY <1>6 DEF Reserve, tasks, row
<1>7. ASSUME NEW o \in Owner, Request(o)
      PROVE  TasksAreOld'
  BY <1>7 DEF Request, Cancel, Approve, Reject, Replan, Retry, Means, tasks, row
<1>8. CASE Tick \/ UNCHANGED vars
  BY <1>8 DEF Tick, vars, tasks, row
<1>9. QED
  BY <1>1, <1>2, <1>3, <1>4, <1>5, <1>6, <1>7, <1>8 DEF Next, Poll, Execution

(* What is known of the row survives the steps of tasks and heartbeats. *)
LEMMA TaskPreserves ==
  ASSUME IInv, RowIsKnown, TypeOK', NEW v \in Worker,
         Task(v) \/ \E d \in 0 .. Lag : Heartbeat(v, d)
  PROVE  RowIsKnown'
<1>1. TaskStep(v)
  BY TaskSteps DEF IInv
<1>2. \A w \in Worker : IsOwner(w)' => IsOwner(w)
  BY <1>1, OwnerAssumption DEF TaskStep, IsOwner, Worker
<1>3. status' # "cancelled" => status # "cancelled"
  BY <1>1 DEF TaskStep
<1>4. WriteBacksAreKnown'
  <2> SUFFICES ASSUME NEW o \in Owner \ late'
               PROVE  Found(o)'
    BY DEF WriteBacksAreKnown
  <2>1. CASE status' = status /\ late' = late
    BY <1>1, <2>1 DEF TaskStep, RowIsKnown, WriteBacksAreKnown, Found
  <2>2. CASE late' = {p \in Owner : ~Idle(p)}
    BY <1>1, <2>2 DEF TaskStep, Idle, Found
  <2>3. QED
    BY <1>1, <2>1, <2>2 DEF TaskStep
<1>5. ClaimIsFresh'
  <2> SUFFICES ASSUME NEW o \in reading
               PROVE  /\ \A w \in Worker : w[1] = o /\ phase'[w] # "none" => w[2] < gen
                      /\ owner' = o => status' \in Runnable \cup {"cancelled"}
    BY <1>1 DEF ClaimIsFresh, TaskStep
  <2>1. \A w \in Worker : w[1] = o /\ phase'[w] # "none" => w[2] < gen
    BY <1>1 DEF TaskStep, RowIsKnown, ClaimIsFresh
  <2>2. ASSUME owner' = o
        PROVE  status' \in Runnable \cup {"cancelled"}
    <3>1. o \in Owner
      BY DEF IInv, TypeOK
    <3>2. owner = o
      BY <1>1, <2>2, <3>1, OwnerAssumption DEF TaskStep
    <3>3. status' = status
      <4> SUFFICES ASSUME status' # status PROVE FALSE
        OBVIOUS
      <4>1. v[1] = o /\ v[2] = gen /\ phase[v] # "none"
        BY <1>1, <3>2 DEF TaskStep, IsOwner
      <4>2. v[2] < gen
        BY <4>1 DEF RowIsKnown, ClaimIsFresh
      <4>3. QED
        BY <4>1, <4>2 DEF IInv, TypeOK
    <3>4. QED
      BY <3>2, <3>3 DEF RowIsKnown, ClaimIsFresh
  <2>3. QED
    BY <2>1, <2>2
<1>6. HolderKnowsTheRow'
  <2> SUFFICES ASSUME NEW w \in Worker, IsOwner(w)', status' # "cancelled"
               PROVE  HolderKnows(w)'
    BY DEF HolderKnowsTheRow
  <2>1. CASE w = v
    BY <2>1, HolderStep
  <2>2. CASE w # v
    <3>1. HolderKnows(w)
      BY <1>2, <1>3 DEF RowIsKnown, HolderKnowsTheRow
    <3>2. status' = status
      BY <1>1, <1>2, <2>2, OneHolder DEF TaskStep
    <3>3. phase'[w] = phase[w] /\ mem'[w] = mem[w]
      BY <1>1, <2>2 DEF TaskStep
    <3>4. QED
      BY <3>1, <3>2, <3>3 DEF HolderKnows
  <2>3. QED
    BY <2>1, <2>2
<1>7. StaleOnlyIfLost'
  <2> SUFFICES ASSUME NEW w \in Worker, stale'[w],
                      phase'[w] \notin {"none", "drive", "close", "ending"},
                      IsOwner(w)', status' # "cancelled"
               PROVE  FALSE
    BY DEF StaleOnlyIfLost
  <2>1. IsOwner(w) /\ status # "cancelled"
    BY <1>2, <1>3
  <2>2. CASE w = v
    BY <1>1, <2>1, <2>2 DEF TaskStep, RowIsKnown, StaleOnlyIfLost
  <2>3. CASE w # v
    <3>1. stale[w] /\ phase[w] \notin {"none", "drive", "close", "ending"}
      BY <1>1, <2>1, <2>3, OneHolder DEF TaskStep
    <3>2. QED
      BY <2>1, <3>1 DEF RowIsKnown, StaleOnlyIfLost
  <2>4. QED
    BY <2>2, <2>3
<1>8. QED
  BY <1>4, <1>5, <1>6, <1>7 DEF RowIsKnown

(* A claim makes every execution that exists one of an older generation. *)
LEMMA ClaimPreserves ==
  ASSUME IInv, RowIsKnown, TypeOK', NEW o \in Owner, NEW d \in 0 .. Lag, ClaimDriverRun(o, d)
  PROVE  RowIsKnown'
<1> USE DEF IInv, RowIsKnown, TypeOK, ClaimDriverRun, tasks
<1>1. \A w \in Worker : phase[w] # "none" => ~IsOwner(w)'
  BY DEF TasksAreOld, IsOwner
<1>2. WriteBacksAreKnown'
  BY DEF WriteBacksAreKnown, Found, writeBacks
<1>3. ClaimIsFresh'
  BY DEF ClaimIsFresh, TasksAreOld, Claimable, Worker
<1>4. HolderKnowsTheRow'
  BY <1>1 DEF HolderKnowsTheRow, HolderKnows
<1>5. StaleOnlyIfLost'
  BY <1>1 DEF StaleOnlyIfLost
<1>6. QED
  BY <1>2, <1>3, <1>4, <1>5

LEMMA ReadPreserves ==
  ASSUME IInv, RowIsKnown, TypeOK', NEW o \in Owner, ReadGeneration(o)
  PROVE  RowIsKnown'
<1> DEFINE r == <<o, gen>>
<1> USE DEF IInv, RowIsKnown, TypeOK, ReadGeneration, Goto, row
<1>1. \A w \in Worker \ {r} : phase'[w] = phase[w]
  OBVIOUS
<1>2. WriteBacksAreKnown'
  BY DEF WriteBacksAreKnown, Found, writeBacks
<1>3. ClaimIsFresh'
  BY <1>1 DEF ClaimIsFresh
<1>4. HolderKnowsTheRow'
  <2> SUFFICES ASSUME NEW w \in Worker, IsOwner(w), status # "cancelled"
               PROVE  HolderKnows(w)'
    BY DEF HolderKnowsTheRow, IsOwner
  <2>1. CASE w = r
    <3>1. status \in Runnable /\ phase'[w] = "drive"
      BY <2>1 DEF IsOwner, ClaimIsFresh
    <3>2. QED
      BY <3>1 DEF HolderKnows
  <2>2. CASE w # r
    BY <1>1, <2>2 DEF HolderKnowsTheRow, HolderKnows
  <2>3. QED
    BY <2>1, <2>2
<1>5. StaleOnlyIfLost'
  BY <1>1 DEF StaleOnlyIfLost, IsOwner
<1>6. QED
  BY <1>2, <1>3, <1>4, <1>5

LEMMA CrashPreserves ==
  ASSUME IInv, RowIsKnown, TypeOK', NEW o \in Owner, Crash(o)
  PROVE  RowIsKnown'
<1> USE DEF IInv, RowIsKnown, TypeOK, Crash, row
<1>1. WriteBacksAreKnown'
  <2> SUFFICES ASSUME NEW p \in Owner \ late'
               PROVE  Found(p)'
    BY DEF WriteBacksAreKnown
  <2>1. CASE p = o
    BY <2>1 DEF Found
  <2>2. CASE p # o
    BY <2>2 DEF WriteBacksAreKnown, Found
  <2>3. QED
    BY <2>1, <2>2
<1>2. ClaimIsFresh'
  BY DEF ClaimIsFresh
<1>3. HolderKnowsTheRow'
  BY DEF HolderKnowsTheRow, HolderKnows, IsOwner
<1>4. StaleOnlyIfLost'
  BY DEF StaleOnlyIfLost, IsOwner
<1>5. QED
  BY <1>1, <1>2, <1>3, <1>4

(* Neither has a request or a reservation that has only read the row any   *)
(* effect on what is known.                                                *)
LEMMA ReadingPreserves ==
  ASSUME IInv, RowIsKnown, NEW o \in Owner,
         Request(o) \/ \E v \in Worker : v[1] = o /\ Reserve(v)
  PROVE  RowIsKnown'
<1> USE DEF IInv, RowIsKnown, TypeOK
<1>1. /\ UNCHANGED <<row, nodeRuns, alive, reading, tasks, late, torn>>
      /\ \A p \in Owner \ {o} : busy'[p] = busy[p] /\ back'[p] = back[p]
  BY DEF Request, Cancel, Approve, Reject, Replan, Retry, Means, Reserve
<1>2. Found(o)'
  <2>1. CASE Request(o)
    BY <1>1, <2>1 DEF Request, Cancel, Approve, Reject, Replan, Retry, Means, Found, row
  <2>2. CASE \E v \in Worker : v[1] = o /\ Reserve(v)
    BY <1>1, <2>2 DEF Reserve, Found, row
  <2>3. QED
    BY <2>1, <2>2
<1>3. WriteBacksAreKnown'
  BY <1>1, <1>2 DEF WriteBacksAreKnown, Found, row
<1>4. ClaimIsFresh' /\ HolderKnowsTheRow' /\ StaleOnlyIfLost'
  BY <1>1 DEF ClaimIsFresh, HolderKnowsTheRow, HolderKnows, StaleOnlyIfLost, IsOwner, row, tasks
<1>5. QED
  BY <1>3, <1>4

(* What a write-back that replaces nothing does to the row. *)
CleanWrite(o) ==
  /\ gen' = gen /\ reading' = reading /\ phase' = phase /\ mem' = mem
  /\ \A p \in Owner \ {o} : busy'[p] = busy[p] /\ back'[p] = back[p]
  /\ \/ /\ busy[o] = "reservation" /\ busy'[o] = "none"
        /\ UNCHANGED <<status, owner, stale, late>>
     \/ /\ late' = {p \in Owner \ {o} : ~Idle(p)}
        /\ \/ status \notin Terminal /\ status' = "cancelled" /\ owner' = owner
              /\ busy'[o] = "none"
           \/ status = "awaiting" /\ status' = "awaiting" /\ owner' = owner
              /\ busy'[o] = "request" /\ back'[o] = "pending"
           \/ status = "awaiting" /\ status' = "pending" /\ owner' = NoOwner
              /\ busy'[o] = "none"
           \/ status = "awaiting" /\ status' = "rejected" /\ owner' = owner
              /\ busy'[o] = "none"
           \/ status = "failed" /\ status' = "failed" /\ owner' = owner
              /\ busy'[o] = "none"

LEMMA CleanWriteBack ==
  ASSUME IInv, RowIsKnown, NEW o \in Owner, WriteBack(o), ~torn'
  PROVE  CleanWrite(o)
<1> USE DEF IInv, TypeOK, WriteBack
<1>1. o \notin late /\ Found(o)
  BY DEF Clean, RowIsKnown, WriteBacksAreKnown
<1>2. \A p \in Owner \ {o} : busy'[p] = busy[p] /\ back'[p] = back[p]
  OBVIOUS
<1>3. CASE busy[o] = "reservation"
  <2>1. status' = status /\ busy'[o] = "none"
    BY <1>1, <1>3 DEF Found
  <2>2. owner' = owner /\ UNCHANGED <<stale, late>>
    BY <1>1, <1>3 DEF Queued
  <2>3. QED
    BY <1>2, <1>3, <2>1, <2>2 DEF CleanWrite
<1>4. CASE busy[o] = "request"
  <2>1. late' = {p \in Owner \ {o} : ~Idle(p)}
    BY <1>4
  <2>2. owner' = IF back[o] = "pending" THEN NoOwner ELSE owner
    BY <1>4 DEF Queued
  <2>3. /\ back[o] = "awaiting" => busy'[o] = "request" /\ back'[o] = "pending"
        /\ back[o] # "awaiting" => busy'[o] = "none"
    BY <1>4
  <2>4. \/ back[o] = "cancelled" /\ status \notin Terminal
        \/ back[o] \in {"awaiting", "pending", "rejected"} /\ status = "awaiting"
        \/ back[o] = "failed" /\ status = "failed"
    BY <1>1, <1>4 DEF Found, Clean
  <2>5. QED
    BY <1>2, <2>1, <2>2, <2>3, <2>4 DEF CleanWrite
<1>5. QED
  BY <1>3, <1>4 DEF Idle, Business

(* The handlers invalidate the execution they overtake: cancel through the *)
(* status, approve through the owner; reject only meets an execution that  *)
(* has nothing left to write but the awaiting row.                         *)
LEMMA WriteBackPreserves ==
  ASSUME IInv, RowIsKnown, NEW o \in Owner, WriteBack(o), ~torn'
  PROVE  RowIsKnown'
<1> USE DEF IInv, TypeOK
<1>1. CleanWrite(o)
  BY CleanWriteBack
<1>2. status = "awaiting" => \A w \in Worker : IsOwner(w) => phase[w] \in {"none", "close", "ending"}
  BY DEF RowIsKnown, HolderKnowsTheRow, HolderKnows, Phase, Runnable
<1>3. status = "failed" => \A w \in Worker : IsOwner(w) => phase[w] \in {"none", "ending"}
  BY DEF RowIsKnown, HolderKnowsTheRow, HolderKnows, Phase, Runnable
<1>4. \A w \in Worker : IsOwner(w)' => IsOwner(w) /\ owner' = owner
  BY <1>1 DEF CleanWrite, IsOwner, Worker
<1>5. ClaimIsFresh'
  BY <1>1 DEF RowIsKnown, ClaimIsFresh, CleanWrite, Runnable
<1>6. HolderKnowsTheRow'
  <2> SUFFICES ASSUME NEW w \in Worker, IsOwner(w)', status' # "cancelled"
               PROVE  HolderKnows(w)'
    BY DEF HolderKnowsTheRow
  <2>1. CASE UNCHANGED status
    <3>1. HolderKnows(w)
      BY <1>4, <2>1 DEF RowIsKnown, HolderKnowsTheRow
    <3>2. QED
      BY <1>1, <2>1, <3>1 DEF CleanWrite, HolderKnows
  <2>2. CASE status' # status
    <3>1. status = "awaiting" /\ status' = "rejected"
      BY <1>1, <1>4, <2>2, OwnerAssumption DEF CleanWrite, IsOwner, Worker
    <3>2. HolderKnows(w) /\ phase[w] \in {"none", "close", "ending"}
      BY <1>2, <1>4, <3>1 DEF RowIsKnown, HolderKnowsTheRow
    <3>3. QED
      BY <1>1, <3>1, <3>2 DEF CleanWrite, HolderKnows
  <2>3. QED
    BY <2>1, <2>2
<1>7. StaleOnlyIfLost'
  <2>1. CASE UNCHANGED <<status, owner, stale, late>>
    BY <1>1, <2>1 DEF CleanWrite, RowIsKnown, StaleOnlyIfLost, IsOwner
  <2>2. CASE status \in {"awaiting", "failed"} \/ status' = "cancelled"
    BY <1>1, <1>2, <1>3, <1>4, <2>2 DEF StaleOnlyIfLost, CleanWrite
  <2>3. QED
    BY <1>1, <2>1, <2>2 DEF CleanWrite
<1>8. WriteBacksAreKnown'
  <2> SUFFICES ASSUME NEW p \in Owner \ late'
               PROVE  Found(p)'
    BY DEF WriteBacksAreKnown
  <2>1. CASE p = o
    BY <1>1, <2>1 DEF CleanWrite, Found
  <2>2. CASE p # o
    BY <1>1, <2>2 DEF CleanWrite, Found, Idle, RowIsKnown, WriteBacksAreKnown
  <2>3. QED
    BY <2>1, <2>2
<1>9. QED
  BY <1>5, <1>6, <1>7, <1>8 DEF RowIsKnown

LEMMA TickPreserves ==
  ASSUME RowIsKnown, Tick \/ UNCHANGED vars
  PROVE  RowIsKnown'
<1> USE DEF RowIsKnown, Tick, row, tasks, writeBacks, vars
<1>1. ClaimIsFresh'
  BY DEF ClaimIsFresh
<1>2. HolderKnowsTheRow'
  BY DEF HolderKnowsTheRow, HolderKnows, IsOwner
<1>3. StaleOnlyIfLost'
  BY DEF StaleOnlyIfLost, IsOwner
<1>4. WriteBacksAreKnown'
  BY DEF WriteBacksAreKnown, Found
<1>5. QED
  BY <1>1, <1>2, <1>3, <1>4

(* What has been replaced stays replaced. *)
LEMMA TornBefore ==
  ASSUME TypeOK, [Next]_vars, ~torn'
  PROVE  ~torn
<1>1. ASSUME NEW w \in Worker, Task(w) \/ \E d \in 0 .. Lag : Heartbeat(w, d)
      PROVE  torn' = torn
  BY <1>1, TaskSteps DEF TaskStep
<1>2. ASSUME NEW o \in Owner, Poll(o) \/ Request(o) \/ WriteBack(o) \/ Crash(o)
      PROVE  torn => torn'
  BY <1>2 DEF Poll, ClaimDriverRun, ReadGeneration, Crash, WriteBack, Request, Cancel,
     Approve, Reject, Replan, Retry, Means, writeBacks
<1>3. ASSUME NEW w \in Worker, Reserve(w)
      PROVE  torn' = torn
  BY <1>3 DEF Reserve
<1>4. CASE Tick \/ UNCHANGED vars
  BY <1>4 DEF Tick, vars, writeBacks
<1>5. QED
  BY <1>1, <1>2, <1>3, <1>4 DEF Next, Execution

LEMMA IInvInit == Init => IInv
  BY TypeInit DEF Init, IInv, TasksAreOld, RowIsKnown, ClaimIsFresh, HolderKnowsTheRow,
     HolderKnows, StaleOnlyIfLost, WriteBacksAreKnown, Found

LEMMA IInvStep == IInv /\ [Next]_vars => IInv'
<1> SUFFICES ASSUME IInv, [Next]_vars PROVE IInv'
  OBVIOUS
<1>1. TypeOK' /\ TasksAreOld'
  BY TypeStep, TasksStayOld DEF IInv
<1>2. ASSUME ~torn'
      PROVE  RowIsKnown'
  <2>1. RowIsKnown
    BY <1>2, TornBefore DEF IInv
  <2>2. CASE \E w \in Worker : Task(w) \/ \E d \in 0 .. Lag : Heartbeat(w, d)
    BY <1>1, <2>1, <2>2, TaskPreserves
  <2>3. CASE \E o \in Owner : Poll(o) \/ Crash(o)
    BY <1>1, <2>1, <2>3, ClaimPreserves, ReadPreserves, CrashPreserves DEF Poll
  <2>4. CASE \E o \in Owner : WriteBack(o)
    BY <1>2, <2>1, <2>4, WriteBackPreserves
  <2>5. CASE (\E o \in Owner : Request(o)) \/ \E w \in Worker : Reserve(w)
    <3>1. \A w \in Worker : w[1] \in Owner
      BY DEF Worker
    <3>2. QED
      BY <2>1, <2>5, <3>1, ReadingPreserves
  <2>6. CASE Tick \/ UNCHANGED vars
    BY <2>1, <2>6, TickPreserves
  <2>7. QED
    BY <2>2, <2>3, <2>4, <2>5, <2>6 DEF Next, Execution
<1>3. QED
  BY <1>1, <1>2 DEF IInv

(* The invariant holds in every reachable state. *)
THEOREM Invariant == Spec => []IInv
  BY IInvInit, IInvStep, PTL DEF Spec

(* FencedWriterIsCurrent for every number of processes and every bound:    *)
(* no write that passes the fence loses the update of another actor.       *)
THEOREM NoLostUpdate == Spec => []FencedWriterIsCurrent
<1>1. IInv => FencedWriterIsCurrent
  BY DEF IInv, RowIsKnown, StaleOnlyIfLost, FencedWriterIsCurrent, Writing, Valid
<1>2. QED
  BY <1>1, Invariant, PTL

(* HolderKnowsTheRow likewise, until an unfenced write has replaced what   *)
(* it had not read.                                                        *)
THEOREM HolderIsInformed == Spec => [](torn \/ HolderKnowsTheRow)
<1>1. IInv => torn \/ HolderKnowsTheRow
  BY DEF IInv, RowIsKnown
<1>2. QED
  BY <1>1, Invariant, PTL

-----------------------------------------------------------------------------
(* A statement of a task changes the status only from one of these. *)
LEMMA TaskStatus ==
  ASSUME IInv, RowIsKnown, NEW v \in Worker, Task(v), status' # status
  PROVE  \/ status \in {"pending", "running", "paused"}
         \/ status = "rejected"
<1>1. IsOwner(v) /\ phase[v] # "none" /\ status # "cancelled"
  BY TaskSteps DEF TaskStep, IInv
<1>2. HolderKnows(v)
  BY <1>1 DEF RowIsKnown, HolderKnowsTheRow
<1>3. phase[v] # "drive" /\ phase[v] # "ending" /\ phase[v] # "reload"
  BY DEF Task, Drive, Load, ReplayResume, ReleaseDriverLease, FirstPersist,
     OpenSegment, ReplayPause, ReplaySegment, Gate, NodeReturn, Persist,
     CloseSegment, Finish, FencedWrite, row
<1>4. CASE phase[v] = "close"
  <2>1. \A d \in 0 .. Lag : CloseSegment(v, d) => status' = mem[v] \/ status' = status
    BY DEF CloseSegment, FencedWrite
  <2>2. \E d \in 0 .. Lag : CloseSegment(v, d)
    BY <1>4 DEF Task, Drive, Load, ReplayResume, ReleaseDriverLease,
       FirstPersist, OpenSegment, ReplayPause, ReplaySegment, Gate, NodeReturn,
       Persist, Finish
  <2>3. mem[v] = "awaiting" /\ status \in {"awaiting", "rejected"}
    BY <1>2, <1>4 DEF HolderKnows
  <2>4. QED
    BY <2>1, <2>2, <2>3
<1>5. CASE phase[v] # "close"
  BY <1>1, <1>2, <1>3, <1>5 DEF HolderKnows, IInv, TypeOK, Phase, Runnable
<1>6. QED
  BY <1>4, <1>5

(* What no other step does to the status. *)
LEMMA OtherStatus ==
  ASSUME IInv, RowIsKnown, Next, status' # status, ~torn', ~\E v \in Worker : Task(v)
  PROVE  \/ status \notin Terminal /\ status' = "cancelled"
         \/ status = "awaiting" /\ status' \in {"pending", "rejected"}
<1>1. ~\E v \in Worker, d \in 0 .. Lag : Heartbeat(v, d)
  BY DEF Heartbeat
<1>2. ~(\E o \in Owner : Poll(o) \/ Crash(o)) /\ ~Tick
  BY DEF Poll, ClaimDriverRun, ReadGeneration, Crash, Tick, row
<1>3. ~(\E w \in Worker : Reserve(w)) /\ ~\E o \in Owner : Request(o)
  BY DEF Reserve, Request, Cancel, Approve, Reject, Replan, Retry, Means, row
<1>4. PICK o \in Owner : WriteBack(o)
  BY <1>1, <1>2, <1>3 DEF Next, Execution
<1>5. QED
  BY <1>4, CleanWriteBack DEF CleanWrite

(* What a step does to the status while nothing unread has been replaced. *)
LEMMA StatusStep ==
  ASSUME IInv, Next, status' # status, ~torn'
  PROVE  \/ status \in {"pending", "running", "paused", "rejected"}
         \/ status \notin Terminal /\ status' = "cancelled"
         \/ status = "awaiting" /\ status' \in {"pending", "rejected"}
<1>1. RowIsKnown
  BY TornBefore DEF IInv
<1>2. QED
  BY <1>1, TaskStatus, OtherStatus

(* TerminalIsFinal: a run that is completed, failed or cancelled stays so, *)
(* whatever tasks, drivers and handlers are still under way, until an      *)
(* unfenced write replaces what it had not read.                           *)
THEOREM TerminalStays == Spec => TerminalIsFinal
<1>1. ASSUME IInv, [Next]_vars
      PROVE  [(status \in {"completed", "failed", "cancelled"} /\ ~torn') => status' = status]_vars
  BY <1>1, StatusStep DEF vars, row, Terminal
<1>2. QED
  BY <1>1, Invariant, PTL DEF Spec, TerminalIsFinal

(* OnlyAHumanEndsTheWait, for any number of drivers. *)
THEOREM WaitIsForAHuman == Spec => OnlyAHumanEndsTheWait
<1>1. ASSUME IInv, [Next]_vars
      PROVE  [status = "awaiting" /\ ~torn' =>
                status' \in {"awaiting", "pending", "rejected", "cancelled"}]_vars
  BY <1>1, StatusStep DEF vars, row, Terminal
<1>2. QED
  BY <1>1, Invariant, PTL DEF Spec, OnlyAHumanEndsTheWait

(* LeaseDroppedByItsHolder: the CAS of release_driver_lease protects the   *)
(* lease of a later generation, of this process or another.                *)
THEOREM ReleaseIsOwn == Spec => LeaseDroppedByItsHolder
<1> DEFINE P == owner # NoOwner /\ owner' = NoOwner =>
                  \/ /\ status' = "pending"
                     /\ \E o \in Owner : busy[o] = "request" /\ back[o] = "pending"
                  \/ <<owner, gen>> \in Worker /\ phase[<<owner, gen>>] = "ending"
<1>1. ASSUME TypeOK, [Next]_vars
      PROVE  [P]_vars
  <2> SUFFICES ASSUME owner # NoOwner, owner' = NoOwner, Next
               PROVE  P
    BY <1>1 DEF vars
  <2>1. CASE \E o \in Owner : WriteBack(o)
    BY <2>1 DEF WriteBack, Queued
  <2>2. CASE \E v \in Worker : ReleaseDriverLease(v)
    <3>1. PICK v \in Worker : ReleaseDriverLease(v)
      BY <2>2
    <3>2. IsOwner(v) /\ phase[v] = "ending"
      BY <3>1 DEF ReleaseDriverLease
    <3>3. v = <<owner, gen>>
      BY <3>2 DEF IsOwner, Worker
    <3>4. QED
      BY <3>2, <3>3
  <2>3. CASE ~(\E o \in Owner : WriteBack(o)) /\ ~\E v \in Worker : ReleaseDriverLease(v)
    <3>1. ~\E o \in Owner : Poll(o) \/ Crash(o)
      BY OwnerAssumption DEF Poll, ClaimDriverRun, ReadGeneration, Crash, row
    <3>2. ~(\E o \in Owner : Request(o)) /\ ~Tick
      BY DEF Request, Cancel, Approve, Reject, Replan, Retry, Means, Tick, row
    <3>3. ~\E v \in Worker, d \in 0 .. Lag : Heartbeat(v, d)
      BY DEF Heartbeat
    <3>4. ~\E v \in Worker : Execution(v)
      BY <2>3 DEF Execution, Task, Reserve, Drive, Load, ReplayResume, FirstPersist,
         OpenSegment, ReplayPause, ReplaySegment, Gate, NodeReturn, Persist,
         CloseSegment, Finish, row
    <3>5. QED
      BY <2>3, <3>1, <3>2, <3>3, <3>4 DEF Next
  <2>4. QED
    BY <2>1, <2>2, <2>3
<1>2. QED
  BY <1>1, TypeCorrect, PTL DEF Spec, LeaseDroppedByItsHolder

-----------------------------------------------------------------------------
(* The refinement.                                                         *)

LEMMA AbstractClaim ==
  ASSUME TypeOK, NEW o \in Owner, NEW d \in 0 .. Lag, ClaimDriverRun(o, d)
  PROVE  Abstract!Grant(o)
<1> USE DEF TypeOK, ClaimDriverRun, Claimable, AbstractHolder, AbstractHealth
<1>1. gen < MaxGen /\ gen' = gen + 1
  OBVIOUS
<1>2. AbstractHolder = {} \/ AbstractHealth \in {"late", "lapsed"}
  OBVIOUS
<1>3. AbstractHolder' = {<<o, gen + 1>>}
  BY OwnerAssumption
<1>4. AbstractHealth' = "live"
  BY NoLeaseAssumption, LeaseAssumption
<1>5. QED
  BY <1>1, <1>2, <1>3, <1>4 DEF Abstract!Grant

LEMMA AbstractRenewal ==
  ASSUME TypeOK, NEW w \in Worker, NEW d \in 0 .. Lag, Heartbeat(w, d), lease' # lease
  PROVE  Abstract!Renew
<1>1. Renewable(w, d) /\ lease' = LeaseTicks - d
  BY DEF Heartbeat
<1>2. AbstractHolder # {} /\ AbstractHolder' = AbstractHolder /\ gen' = gen
  BY <1>1 DEF Heartbeat, Renewable, TypeOK, AbstractHolder
<1>3. AbstractHealth \in {"live", "late"}
  BY <1>1, LeaseAssumption DEF Renewable, TypeOK, AbstractHealth
<1>4. AbstractHealth' = "live"
  BY <1>1, NoLeaseAssumption, LeaseAssumption DEF AbstractHealth
<1>5. QED
  BY <1>2, <1>3, <1>4 DEF Abstract!Renew

LEMMA AbstractTick ==
  ASSUME TypeOK, Tick
  PROVE  Abstract!Age \/ UNCHANGED Abstract!leaseVars
<1> USE DEF TypeOK, Tick
<1>1. AbstractHolder # {} /\ AbstractHolder' = AbstractHolder /\ gen' = gen
  BY DEF AbstractHolder
<1>2. lease \in Int /\ lease' \in Int /\ lease' = lease - 1
  OBVIOUS
<1>3. \/ AbstractHealth = "live" /\ AbstractHealth' \in {"live", "late", "lapsed"}
      \/ AbstractHealth = "late" /\ AbstractHealth' \in {"late", "lapsed"}
      \/ AbstractHealth = "lapsed" /\ AbstractHealth' = "lapsed"
  BY <1>2, NoLeaseAssumption, LeaseAssumption DEF AbstractHealth
<1>4. QED
  BY <1>1, <1>3 DEF Abstract!Age, Abstract!leaseVars

LEMMA AbstractDrop ==
  ASSUME TypeOK, owner # NoOwner, owner' = NoOwner, lease' = NoLease, gen' = gen
  PROVE  Abstract!Drop
  BY DEF TypeOK, AbstractHolder, AbstractHealth, Abstract!Drop

LEMMA AbstractStutter ==
  ASSUME owner' = owner, gen' = gen, lease' = lease
  PROVE  UNCHANGED Abstract!leaseVars
  BY DEF AbstractHolder, AbstractHealth, Abstract!leaseVars

(* LeaseIsExclusive: the lease columns implement ExclusiveLease. *)
THEOREM LeaseRefines == Spec => LeaseIsExclusive
<1>1. Init => Abstract!Init
  BY DEF Init, AbstractHolder, AbstractHealth, Abstract!Init
<1>2. ASSUME TypeOK, [Next]_vars
      PROVE  [Abstract!Next]_Abstract!leaseVars
  <2>1. CASE \E o \in Owner, d \in 0 .. Lag : ClaimDriverRun(o, d)
    BY <1>2, <2>1, AbstractClaim DEF Abstract!Next
  <2>2. CASE \E w \in Worker, d \in 0 .. Lag : Heartbeat(w, d)
    <3>1. PICK w \in Worker, d \in 0 .. Lag : Heartbeat(w, d)
      BY <2>2
    <3>2. CASE lease' = lease
      BY <3>1, <3>2, AbstractStutter DEF Heartbeat
    <3>3. CASE lease' # lease
      BY <1>2, <3>1, <3>3, AbstractRenewal DEF Abstract!Next
    <3>4. QED
      BY <3>2, <3>3
  <2>3. CASE Tick
    BY <1>2, <2>3, AbstractTick DEF Abstract!Next
  <2>4. CASE \E o \in Owner : WriteBack(o)
    <3>1. gen' = gen
      BY <2>4 DEF WriteBack
    <3>2. \/ owner' = NoOwner /\ lease' = NoLease
          \/ owner' = owner /\ lease' = lease
      BY <2>4 DEF WriteBack, Queued
    <3>3. CASE owner' = owner /\ lease' = lease
      BY <3>1, <3>3, AbstractStutter
    <3>4. CASE owner' = NoOwner /\ lease' = NoLease /\ owner # NoOwner
      BY <1>2, <3>1, <3>4, AbstractDrop DEF Abstract!Next
    <3>5. QED
      BY <1>2, <3>2, <3>3, <3>4 DEF TypeOK
  <2>5. CASE \E w \in Worker : ReleaseDriverLease(w)
    <3>1. PICK w \in Worker : ReleaseDriverLease(w)
      BY <2>5
    <3>2. CASE IsOwner(w)
      <4>1. owner # NoOwner
        BY <3>2, OwnerAssumption DEF IsOwner, Worker
      <4>2. owner' = NoOwner /\ lease' = NoLease /\ gen' = gen
        BY <3>1, <3>2 DEF ReleaseDriverLease
      <4>3. QED
        BY <1>2, <4>1, <4>2, AbstractDrop DEF Abstract!Next
    <3>3. CASE ~IsOwner(w)
      BY <3>1, <3>3, AbstractStutter DEF ReleaseDriverLease
    <3>4. QED
      BY <3>2, <3>3
  <2>6. CASE \/ \E w \in Worker : Execution(w) /\ ~ReleaseDriverLease(w)
             \/ \E o \in Owner : ReadGeneration(o) \/ Crash(o) \/ Request(o)
             \/ UNCHANGED vars
    <3>1. owner' = owner /\ gen' = gen /\ lease' = lease
      BY <2>6 DEF Execution, Task, Reserve, Drive, Load, ReplayResume, FirstPersist,
         OpenSegment, ReplayPause, ReplaySegment, Gate, NodeReturn, Persist,
         CloseSegment, Finish, ReadGeneration, Crash, Request, Cancel, Approve,
         Reject, Replan, Retry, Means, row, vars
    <3>2. QED
      BY <3>1, AbstractStutter
  <2>7. QED
    BY <1>2, <2>1, <2>2, <2>3, <2>4, <2>5, <2>6 DEF Next, Poll
<1>3. QED
  BY <1>1, <1>2, TypeCorrect, PTL DEF Spec, LeaseIsExclusive, Abstract!Spec

=============================================================================
