---------------------------- MODULE Services_proof ----------------------------
(* Theorems about WaitScheduler, Definitions, Collaboration, Simulation    *)
(* and RunView, which share no state, and about the run that composes them *)
(* with the services of Knowledge_proof: its types and its invariants.     *)
EXTENDS MCServices, Knowledge_proof, SequenceTheorems, WellFoundedInduction

(* Induction: a set of numbers has a smallest one.                         *)
LEMMA SmallestExists ==
  ASSUME NEW T, T \subseteq Nat, T # {}
  PROVE  \E x \in T : \A y \in T : x <= y
<1> DEFINE R == {ss \in Nat \X Nat : ss[1] < ss[2]}
<1>1. IsWellFoundedOn(R, Nat)
  BY NatLessThanWellFounded DEF OpToRel
<1>2. \E x \in T : \A y \in T : <<y, x>> \notin R
  <2> HIDE DEF R
  <2>1. QED
    BY <1>1, WFMin
<1>3. PICK x \in T : \A y \in T : <<y, x>> \notin R
  BY <1>2
<1>4. ASSUME NEW y \in T PROVE x <= y
  <2>1. x \in Nat /\ y \in Nat /\ ~(y < x)
    BY <1>3
  <2>2. QED
    BY <2>1
<1>5. QED
  BY <1>4

-----------------------------------------------------------------------------
(* WaitScheduler                                                           *)

(* The paths the properties are about: a timer is the last wait on its path. *)
TimerIsLast ==
  /\ Waits \in Seq({"timer", "event"})
  /\ \A i \in 1 .. Len(Waits) : Waits[i] = "timer" => i = Len(Waits)

AtTimer == node = Len(Waits) /\ Waits[node] = "timer"

(* What the scheduler has in its hands: a claim, a claimed row, a run it   *)
(* is about to resume.                                                     *)
Held == col = "claimed" \/ sync \in {"mark", "wake"} \/ exec["scheduler"] = "wait"

(* A timer is armed only where the path has one, which no execution leaves *)
(* for another wait; the scheduler holds only runs whose timer is due.     *)
WakeInv ==
  /\ node \in 0 .. Len(Waits) /\ exec \in [Who -> {"none", "wait", "body"}]
  /\ sync = "arm" => AtTimer /\ timer = "none"
  /\ timer # "none" => AtTimer
  /\ Held => timer = "due"

LEMMA WakeInit == TimerIsLast /\ WaitInit => WakeInv
<1> SUFFICES ASSUME TimerIsLast, WaitInit PROVE WakeInv
  OBVIOUS
<1>1. Len(Waits) \in Nat
  BY DEF TimerIsLast
<1>2. QED
  BY <1>1 DEF WaitInit, WakeInv, Held, Who

(* A step that arms nothing and takes nothing into the scheduler's hands. *)
LEMMA HandsOff ==
  ASSUME WakeInv, node' = node, timer' = timer, exec' \in [Who -> {"none", "wait", "body"}],
         sync' = "arm" => sync = "arm", Held' => Held
  PROVE  WakeInv'
BY DEF WakeInv, AtTimer

LEMMA ReachWakes ==
  ASSUME TimerIsLast, WakeInv, NEW e \in Who, Reach(e) PROVE WakeInv'
<1>1. Len(Waits) \in Nat /\ node \in 0 .. Len(Waits) /\ timer' = timer /\ col' # "claimed"
  BY DEF TimerIsLast, WakeInv, Reach, Write
<1>2. exec' \in [Who -> {"none", "wait", "body"}]
      /\ (exec'["scheduler"] = "wait" => exec["scheduler"] = "wait")
  BY DEF WakeInv, Reach, Who
<1>3. CASE node = Len(Waits)
  <2>1. node' = node /\ sync' = "free"
    BY <1>1, <1>3 DEF Reach
  <2>2. Held' => Held
    BY <1>1, <1>2, <2>1 DEF Held
  <2>3. QED
    BY <1>1, <1>2, <2>1, <2>2, HandsOff
<1>4. CASE node < Len(Waits)
  <2>1. timer = "none" /\ ~Held
    BY <1>1, <1>4 DEF WakeInv, AtTimer
  <2>2. node' = node + 1 /\ node' \in 1 .. Len(Waits)
        /\ sync' = IF Waits[node'] = "timer" THEN "arm" ELSE "free"
    BY <1>1, <1>4 DEF Reach
  <2>3. sync' = "arm" => AtTimer'
    BY <2>2 DEF TimerIsLast, AtTimer
  <2>4. ~Held'
    BY <1>1, <1>2, <2>1, <2>2 DEF Held
  <2>5. QED
    BY <1>1, <1>2, <2>1, <2>2, <2>3, <2>4 DEF WakeInv
<1>5. QED
  BY <1>1, <1>3, <1>4

LEMMA WakeStep ==
  ASSUME TimerIsLast, WakeInv, [WaitNext]_waitVars PROVE WakeInv'
<1> USE DEF Held
<1>1. CASE UNCHANGED waitVars
  BY <1>1, HandsOff DEF waitVars, WakeInv
<1>2. CASE Scan
  <2>1. timer = "due" /\ UNCHANGED <<node, timer, exec>> /\ sync' = "mark"
    BY <1>2 DEF Scan, Due, WakeInv
  <2>2. QED
    BY <2>1 DEF WakeInv, AtTimer
<1>3. CASE Mark
  BY <1>3, HandsOff DEF Mark, WakeInv, Write
<1>4. CASE Wake
  <2>1. timer = "due" /\ UNCHANGED <<node, timer>> /\ sync' = "free"
    BY <1>4 DEF Wake, WakeInv
  <2>2. exec' \in [Who -> {"none", "wait", "body"}]
    BY <1>4 DEF Wake, WakeInv
  <2>3. QED
    BY <2>1, <2>2 DEF WakeInv, AtTimer
<1>5. CASE Arm
  <2>1. AtTimer /\ ~Held /\ UNCHANGED <<node, col, exec>> /\ timer' = "set" /\ sync' = "free"
    BY <1>5 DEF Arm, WakeInv
  <2>2. QED
    BY <2>1 DEF WakeInv, AtTimer
<1>6. CASE Release \/ UserResume \/ Age
  BY <1>6, HandsOff DEF Release, UserResume, Age, WakeInv, Who
<1>7. CASE Elapse
  BY <1>7 DEF Elapse, WakeInv, AtTimer
<1>8. CASE WaitCrash
  BY <1>8, HandsOff DEF WaitCrash, WakeInv, Who
<1>9. ASSUME NEW e \in Who, Pass(e) PROVE WakeInv'
  BY <1>9, HandsOff DEF Pass, WakeInv, Write, Who
<1>10. ASSUME NEW e \in Who, Reach(e) PROVE WakeInv'
  BY <1>10, ReachWakes
<1>11. QED
  BY <1>1, <1>2, <1>3, <1>4, <1>5, <1>6, <1>7, <1>8, <1>9, <1>10 DEF WaitNext

(* What the scheduler may do, whatever it is promised to do.               *)
WaitSafety == WaitInit /\ [][WaitNext]_waitVars

LEMMA WakesInTime == TimerIsLast /\ WaitSafety => []WokenInTime
<1>1. (TimerIsLast /\ WakeInv) /\ [WaitNext]_waitVars => (TimerIsLast /\ WakeInv)'
  BY WakeStep DEF TimerIsLast
<1>2. WakeInv => WokenInTime
  BY DEF WakeInv, Held, AtTimer, WokenInTime
<1>3. QED
  BY <1>1, <1>2, WakeInit, PTL DEF WaitSafety

(* Wherever a process dies within the statements of a pause and a scan,    *)
(* and although wait_type and wake_at are never cleared and a claim of a   *)
(* dead process is found and used again: the scheduler resumes a run at a  *)
(* timer, and after its time.                                              *)
THEOREM WakesAreTimely == TimerIsLast /\ WaitSpec => []WokenInTime
<1>1. WaitSpec => WaitSafety
  BY DEF WaitSpec, WaitSafety
<1>2. QED
  BY <1>1, WakesInTime

(* A run that waits has reached a wait.                                    *)
AtAWait == col \in {"paused", "claimed"} => node # 0
LEMMA WaitTypeStep ==
  ASSUME WaitTypeOK, AtAWait, [WaitNext]_waitVars
  PROVE  WaitTypeOK' /\ AtAWait'
<1>1. Len(Waits) \in Nat /\ Crashes \in Nat
  BY WaitAssumption
<1> USE DEF WaitTypeOK, AtAWait, Status, Write
<1>2. CASE UNCHANGED waitVars
  BY <1>2 DEF waitVars
<1>3. CASE Scan
  BY <1>3 DEF Scan, Due
<1>4. CASE Mark
  <2>1. UNCHANGED <<node, timer, old, exec, managed, crashes>>
    BY <1>4 DEF Mark
  <2>2. CASE Waiting /\ Write("paused") /\ outputs' = outputs \cup {node} /\ sync' = "wake"
    <3>1. node # 0 /\ node \in 1 .. Len(Waits)
      BY <1>1, <2>2 DEF Waiting
    <3>2. QED
      BY <2>1, <2>2, <3>1
  <2>3. CASE sync' = "free" /\ UNCHANGED <<json, outputs>> /\ col' \in {col, "failed"}
    BY <2>1, <2>3
  <2>4. QED
    BY <1>4, <2>2, <2>3 DEF Mark
<1>5. CASE Wake
  BY <1>5 DEF Wake, Who
<1>6. CASE Arm
  BY <1>6 DEF Arm
<1>7. CASE Release \/ Age \/ Elapse
  BY <1>7 DEF Release, Age, Elapse
<1>8. CASE UserResume
  BY <1>8 DEF UserResume, Who
<1>9. CASE WaitCrash
  BY <1>1, <1>9 DEF WaitCrash, Who
<1>10. ASSUME NEW e \in Who, Pass(e) PROVE WaitTypeOK' /\ AtAWait'
  BY <1>10 DEF Pass, Who
<1>11. ASSUME NEW e \in Who, Reach(e) PROVE WaitTypeOK' /\ AtAWait'
  <2>1. UNCHANGED <<timer, old, managed, crashes>> /\ exec' \in [Who -> {"none", "wait", "body"}]
    BY <1>11 DEF Reach
  <2>2. CASE node < Len(Waits)
    <3>1. /\ col' = "paused" /\ json' = "paused" /\ node' = node + 1
          /\ outputs' = outputs \cup {node + 1} /\ sync' \in {"arm", "free"}
      BY <1>11, <2>2 DEF Reach
    <3>2. node + 1 \in 1 .. Len(Waits)
      BY <1>1, <2>2
    <3>3. node' \in 0 .. Len(Waits) /\ node' # 0 /\ outputs' \subseteq 1 .. Len(Waits)
      BY <1>1, <3>1, <3>2
    <3>4. QED
      BY <2>1, <3>1, <3>3
  <2>3. CASE ~(node < Len(Waits))
    <3>1. col' = "completed" /\ json' = "completed" /\ UNCHANGED <<node, outputs, sync>>
      BY <1>11, <2>3 DEF Reach
    <3>2. QED
      BY <2>1, <3>1
  <2>4. QED
    BY <2>2, <2>3
<1>12. QED
  BY <1>2, <1>3, <1>4, <1>5, <1>6, <1>7, <1>8, <1>9, <1>10, <1>11 DEF WaitNext

(* Whatever waits are on the path: the type of the scheduler's state.      *)
THEOREM WaitTypes == WaitSafety => []WaitTypeOK
<1>1. WaitInit => WaitTypeOK /\ AtAWait
  <2>1. Len(Waits) \in Nat /\ Crashes \in Nat
    BY WaitAssumption
  <2>2. SUFFICES ASSUME WaitInit PROVE WaitTypeOK /\ AtAWait
    OBVIOUS
  <2>3. exec \in [Who -> {"none", "wait", "body"}]
    BY <2>2 DEF WaitInit
  <2>4. node \in 0 .. Len(Waits) /\ outputs \subseteq 1 .. Len(Waits) /\ crashes \in 0 .. Crashes
    BY <2>1, <2>2 DEF WaitInit
  <2>5. QED
    BY <2>2, <2>3, <2>4 DEF WaitInit, WaitTypeOK, AtAWait, Status
<1>2. WaitTypeOK /\ AtAWait /\ [WaitNext]_waitVars => (WaitTypeOK /\ AtAWait)'
  BY WaitTypeStep
<1>3. QED
  BY <1>1, <1>2, PTL DEF WaitSafety

USE DefAssumption

-----------------------------------------------------------------------------
(* Definitions                                                             *)

Definition == [status : {"none", "draft", "active", "deprecated"}, graph : Snapshot]

(* A handler in the middle of its statements. *)
Busy == [kind : {"start", "create", "activate", "deprecate"}, id : Ids, def : Definition,
         n : Nat, input : Inputs, saved : BOOLEAN]
Handles(s) ==
  pc[s] # IdleServer =>
    /\ pc[s] \in Busy /\ pc[s].def.graph \in Graphs /\ pc[s].n < MaxVersion
    /\ pc[s].kind \in {"start", "create"} => ValidGraph(pc[s].def.graph)
    /\ ~pc[s].saved => pc[s].n = Latest(pc[s].id)
    /\ pc[s].saved => snap[pc[s].id][pc[s].n + 1] = pc[s].def.graph

(* The versions of a definition are numbered without a gap. *)
Numbered(i) ==
  \E k \in 0 .. MaxVersion : \A v \in 1 .. MaxVersion : snap[i][v] # NoGraph <=> v <= k
Kept(r) ==
  /\ Frozen(r) = runs[r].of /\ runs[r].mem \in {NoGraph, runs[r].of} /\ ValidGraph(runs[r].of)

DefInv ==
  /\ pc \in [Servers -> {IdleServer} \cup Busy]
  /\ \A s \in Servers : Handles(s)
  /\ \A i \in Ids : defs[i].status # "none" => defs[i].graph \in Graphs
  /\ \A i \in Ids : Numbered(i)
  /\ \A r \in DOMAIN runs : Kept(r)

LEMMA LatestIs ==
  ASSUME NEW i \in Ids, NEW k \in 0 .. MaxVersion,
         \A v \in 1 .. MaxVersion : snap[i][v] # NoGraph <=> v <= k
  PROVE  Latest(i) = k
<1>1. {v \in 1 .. MaxVersion : snap[i][v] # NoGraph} = 1 .. k
  OBVIOUS
<1>2. Cardinality(1 .. k) = k
  BY FS_Interval
<1>3. QED
  BY <1>1, <1>2 DEF Latest

(* The latest number is the last one taken, and the next one is free. *)
LEMMA LatestNumber ==
  ASSUME NEW i \in Ids, Numbered(i)
  PROVE  /\ Latest(i) \in 0 .. MaxVersion
         /\ \A v \in 1 .. MaxVersion : snap[i][v] # NoGraph <=> v <= Latest(i)
<1>1. PICK k \in 0 .. MaxVersion : \A v \in 1 .. MaxVersion : snap[i][v] # NoGraph <=> v <= k
  BY DEF Numbered
<1>2. Latest(i) = k
  BY <1>1, LatestIs
<1>3. QED
  BY <1>1, <1>2

LEMMA NodeFound ==
  ASSUME NEW g, NEW id \in NodeIds(g)
  PROVE  NodeOf(g, id) \in g.nodes
BY DEF NodeIds, NodeOf

(* The next node of a valid graph is one of its nodes, or there is none. *)
LEMMA NextNodeType ==
  ASSUME NEW r \in DOMAIN runs, runs[r].mem \in Graphs, runs[r].node \in NodeIds(runs[r].mem)
  PROVE  NextNode(r) # "" => NextNode(r) \in STRING
<1> DEFINE n == NodeOf(runs[r].mem, runs[r].node)
<1>1. n \in runs[r].mem.nodes
  BY NodeFound
<1>2. n.next \in Seq(STRING)
  BY <1>1
<1>3. n.next # <<>> => n.next[1] \in STRING
  BY <1>2
<1>4. Len(n.next) > 1 => n.next[2] \in STRING
  BY <1>2
<1> HIDE DEF n
<1>5. \/ NextNode(r) = ""
      \/ NextNode(r) = n.next[1] /\ n.next # <<>>
      \/ NextNode(r) = n.next[2] /\ Len(n.next) > 1
  BY DEF NextNode, n
<1>6. QED
  BY <1>3, <1>4, <1>5

(* The two ways a step takes a new version. *)
LEMMA TakesVersion ==
  ASSUME DefTypeOK, DefInv, NEW i \in Ids, NEW g \in Graphs, Latest(i) < MaxVersion,
         snap' = [snap EXCEPT ![i][Latest(i) + 1] = g]
  PROVE  /\ snap' \in [Ids -> [1 .. MaxVersion -> Snapshot]]
         /\ \A j \in Ids : Numbered(j)'
         /\ snap'[i][Latest(i) + 1] = g
         /\ \A j \in Ids, v \in 1 .. MaxVersion :
              snap[j][v] # NoGraph => snap'[j][v] = snap[j][v]
         /\ \A j \in Ids \ {i} : snap'[j] = snap[j]
<1> DEFINE k == Latest(i)
<1>1. /\ k \in 0 .. MaxVersion /\ k + 1 \in 1 .. MaxVersion
      /\ \A v \in 1 .. MaxVersion : snap[i][v] # NoGraph <=> v <= k
  BY LatestNumber DEF DefInv
<1>2. snap \in [Ids -> [1 .. MaxVersion -> Snapshot]]
  BY DEF DefTypeOK
<1> HIDE DEF k
<1>3. snap' = [snap EXCEPT ![i][k + 1] = g]
  BY DEF k
<1>4. /\ snap' \in [Ids -> [1 .. MaxVersion -> Snapshot]] /\ snap'[i][k + 1] = g
      /\ \A v \in 1 .. MaxVersion : v # k + 1 => snap'[i][v] = snap[i][v]
      /\ \A j \in Ids \ {i} : snap'[j] = snap[j]
  BY <1>1, <1>2, <1>3 DEF Snapshot
<1>5. \A v \in 1 .. MaxVersion : snap'[i][v] # NoGraph <=> v <= k + 1
  BY <1>1, <1>4
<1>6. Numbered(i)'
  BY <1>1, <1>5 DEF Numbered
<1>7. \A j \in Ids \ {i} : Numbered(j)'
  BY <1>4 DEF Numbered, DefInv
<1>8. \A j \in Ids, v \in 1 .. MaxVersion : snap[j][v] # NoGraph => snap'[j][v] = snap[j][v]
  BY <1>1, <1>4
<1>9. QED
  BY <1>4, <1>6, <1>7, <1>8 DEF k

(* Runs keep their plan where taken versions stay and runs are not changed *)
(* or added but with a plan of their own.                                  *)
LEMMA KeptStays ==
  ASSUME DefTypeOK, DefInv, NEW r \in DOMAIN runs, r \in DOMAIN runs', runs'[r] = runs[r],
         \A j \in Ids, v \in 1 .. MaxVersion : snap[j][v] # NoGraph => snap'[j][v] = snap[j][v]
  PROVE  Kept(r)'
<1>1. runs[r] \in BoundRun
  BY DEF DefTypeOK
<1>2. Kept(r)
  BY DEF DefInv
<1>3. snap[runs[r].id][runs[r].version] # NoGraph
  BY <1>1, <1>2 DEF Kept, Frozen, BoundRun
<1>4. Frozen(r)' = Frozen(r)
  BY <1>1, <1>3 DEF Frozen, BoundRun
<1>5. QED
  BY <1>2, <1>4 DEF Kept

LEMMA RowType ==
  ASSUME NEW i \in Ids, NEW v \in 1 .. MaxVersion, NEW g \in Graphs, NEW frozen \in {g, NoGraph},
         NEW input \in Inputs
  PROVE  LET new == NewRunRow(i, v, g, frozen, input) IN
           /\ new \in BoundRun /\ new.id = i /\ new.version = v /\ new.of = g /\ new.mem = frozen
BY DEF NewRunRow, BoundRun, Snapshot

LEMMA RunAdded ==
  ASSUME DefTypeOK, DefInv, NEW new \in BoundRun, Len(runs) < MaxRuns, runs' = Append(runs, new),
         \A j \in Ids, v \in 1 .. MaxVersion : snap[j][v] # NoGraph => snap'[j][v] = snap[j][v],
         snap'[new.id][new.version] = new.of, new.mem \in {NoGraph, new.of}, ValidGraph(new.of)
  PROVE  /\ runs' \in Seq(BoundRun) /\ Len(runs') <= MaxRuns
         /\ \A r \in DOMAIN runs' : Kept(r)'
<1>1. runs \in Seq(BoundRun)
  BY DEF DefTypeOK
<1>2. /\ runs' \in Seq(BoundRun) /\ Len(runs') = Len(runs) + 1
      /\ \A r \in 1 .. Len(runs) : runs'[r] = runs[r]
      /\ runs'[Len(runs) + 1] = new
  BY <1>1, AppendProperties
<1>3. Len(runs) \in Nat /\ DOMAIN runs = 1 .. Len(runs) /\ DOMAIN runs' = 1 .. (Len(runs) + 1)
  BY <1>1, <1>2
<1>4. \A r \in DOMAIN runs : Kept(r)'
  BY <1>2, <1>3, KeptStays
<1>5. ASSUME NEW m, m = Len(runs) + 1 PROVE Kept(m)'
  BY <1>2, <1>5 DEF Kept, Frozen
<1>6. \A r \in DOMAIN runs' : Kept(r)'
  BY <1>3, <1>4, <1>5
<1>7. Len(runs') <= MaxRuns
  BY <1>2, <1>3
<1>8. QED
  BY <1>2, <1>6, <1>7

LEMMA RunChanged ==
  ASSUME DefTypeOK, DefInv, NEW r \in DOMAIN runs, NEW new \in BoundRun, runs' = [runs EXCEPT ![r] = new],
         UNCHANGED <<defs, snap, pc>>,
         new.id = runs[r].id, new.version = runs[r].version, new.of = runs[r].of,
         new.mem \in {NoGraph, new.of}
  PROVE  DefTypeOK' /\ DefInv'
<1>1. runs \in Seq(BoundRun) /\ Len(runs) \in Nat /\ DOMAIN runs = 1 .. Len(runs)
  BY DEF DefTypeOK
<1>2. /\ runs' \in Seq(BoundRun) /\ Len(runs') = Len(runs) /\ DOMAIN runs' = DOMAIN runs
      /\ runs'[r] = new /\ \A q \in DOMAIN runs \ {r} : runs'[q] = runs[q]
  BY <1>1, ExceptSeq
<1>3. Kept(r)'
  BY <1>2 DEF Kept, Frozen, DefInv
<1>4. \A q \in DOMAIN runs \ {r} : Kept(q)'
  BY <1>2, KeptStays
<1>5. \A s \in Servers : Handles(s)'
  BY DEF Handles, Latest, DefInv
<1>6. \A i \in Ids : Numbered(i)'
  BY DEF Numbered, DefInv
<1>7. DefInv'
  BY <1>2, <1>3, <1>4, <1>5, <1>6 DEF DefInv
<1>8. QED
  BY <1>2, <1>7 DEF DefTypeOK

-----------------------------------------------------------------------------
(* One server process: what a handler has read is still so at its next     *)
(* statement.                                                              *)
OneServer == \E s : Servers = {s}

LEMMA DefineStep ==
  ASSUME DefTypeOK, DefInv, NEW i \in Ids, NEW g \in Graphs, Define(i, g)
  PROVE  DefTypeOK' /\ DefInv'
<1>1. defs' \in [Ids -> Definition] /\ \A j \in Ids : defs'[j].status # "none" => defs'[j].graph \in Graphs
  BY DEF Define, DefTypeOK, DefInv, Definition, Snapshot
<1>2. UNCHANGED <<snap, runs, pc>>
  BY DEF Define
<1>3. \A s \in Servers : Handles(s)'
  BY <1>2 DEF Handles, Latest, DefInv
<1>4. \A j \in Ids : Numbered(j)'
  BY <1>2 DEF Numbered, DefInv
<1>5. \A r \in DOMAIN runs' : Kept(r)'
  BY <1>2 DEF Kept, Frozen, DefInv
<1>6. QED
  BY <1>1, <1>2, <1>3, <1>4, <1>5 DEF DefTypeOK, DefInv, Definition

(* Where definitions, versions and runs stay. *)
LEMMA HandlerStep ==
  ASSUME DefTypeOK, DefInv, NEW s \in Servers, NEW h \in {IdleServer} \cup Busy,
         pc' = [pc EXCEPT ![s] = h], UNCHANGED <<defs, snap, runs>>,
         h # IdleServer =>
           /\ h.def.graph \in Graphs /\ h.n < MaxVersion
           /\ h.kind \in {"start", "create"} => ValidGraph(h.def.graph)
           /\ ~h.saved /\ h.n = Latest(h.id)
  PROVE  DefTypeOK' /\ DefInv'
<1>1. pc' \in [Servers -> {IdleServer} \cup Busy] /\ pc'[s] = h /\ \A t \in Servers \ {s} : pc'[t] = pc[t]
  BY DEF DefInv
<1>2. Latest(h.id)' = Latest(h.id)
  BY DEF Latest
<1>3. Handles(s)'
  BY <1>1, <1>2 DEF Handles
<1>4. \A t \in Servers \ {s} : Handles(t)'
  BY <1>1 DEF Handles, Latest, DefInv
<1>5. \A j \in Ids : Numbered(j)'
  BY DEF Numbered, DefInv
<1>6. \A r \in DOMAIN runs' : Kept(r)'
  BY DEF Kept, Frozen, DefInv
<1>7. QED
  BY <1>1, <1>3, <1>4, <1>5, <1>6 DEF DefTypeOK, DefInv

LEMMA BeginStep ==
  ASSUME DefTypeOK, DefInv, NEW s \in Servers, NEW i \in Ids, NEW x \in Inputs,
         NEW k \in {"start", "create", "activate", "deprecate"}, BeginHandler(s, i, k, x)
  PROVE  DefTypeOK' /\ DefInv'
<1> DEFINE h == [kind |-> k, id |-> i, def |-> defs[i], n |-> Latest(i), input |-> x, saved |-> FALSE]
<1>1. Numbered(i) /\ Latest(i) \in Nat
  BY LatestNumber DEF DefInv
<1>2. defs[i] \in Definition /\ defs[i].graph \in Graphs
  BY DEF BeginHandler, DefTypeOK, DefInv, Definition
<1>3. h \in Busy
  BY <1>1, <1>2 DEF Busy
<1>4. k \in {"start", "create"} => ValidGraph(defs[i].graph)
  BY DEF BeginHandler
<1>5. Latest(i) < MaxVersion /\ pc' = [pc EXCEPT ![s] = h] /\ UNCHANGED <<defs, snap, runs>>
  BY DEF BeginHandler
<1> DEFINE hh == h
<1>6. /\ h.def.graph \in Graphs /\ h.n < MaxVersion
      /\ h.kind \in {"start", "create"} => ValidGraph(h.def.graph)
      /\ ~h.saved /\ h.n = Latest(h.id)
  BY <1>2, <1>4, <1>5
<1> HIDE DEF h
<1>7. QED
  BY <1>3, <1>5, <1>6, HandlerStep

LEMMA FreezeStep ==
  ASSUME DefTypeOK, DefInv, OneServer, NEW s \in Servers, Freeze(s)
  PROVE  DefTypeOK' /\ DefInv'
<1> DEFINE h == pc[s]
           n == [h EXCEPT !.saved = TRUE]
<1>1. h \in Busy /\ h.def.graph \in Graphs /\ h.n < MaxVersion /\ h.n = Latest(h.id)
      /\ (h.kind \in {"start", "create"} => ValidGraph(h.def.graph))
  <2>1. h # IdleServer
    BY DEF Freeze, IdleServer
  <2>2. QED
    BY <2>1 DEF Freeze, DefInv, Handles
<1>2. h.id \in Ids
  BY <1>1 DEF Busy
<1>3. snap' = [snap EXCEPT ![h.id][Latest(h.id) + 1] = h.def.graph]
  BY <1>1 DEF Freeze
<1>4. UNCHANGED <<defs, runs>> /\ pc' = [pc EXCEPT ![s] = n]
  <2>1. pc' = [pc EXCEPT ![s] = [pc[s] EXCEPT !.saved = TRUE]]
    BY DEF Freeze, DefInv
  <2>2. QED
    BY <2>1 DEF Freeze
<1> HIDE DEF h
<1>5. /\ snap' \in [Ids -> [1 .. MaxVersion -> Snapshot]]
      /\ \A j \in Ids : Numbered(j)'
      /\ snap'[h.id][Latest(h.id) + 1] = h.def.graph
      /\ \A j \in Ids, v \in 1 .. MaxVersion : snap[j][v] # NoGraph => snap'[j][v] = snap[j][v]
  BY <1>1, <1>2, <1>3, TakesVersion
<1>6. /\ n \in Busy /\ n.kind = h.kind /\ n.id = h.id /\ n.def = h.def /\ n.n = h.n /\ n.saved = TRUE
  BY <1>1 DEF Busy
<1> HIDE DEF n
<1>7. pc' \in [Servers -> {IdleServer} \cup Busy] /\ pc'[s] = n
  BY <1>4, <1>6 DEF DefInv
<1>8. Handles(s)'
  BY <1>1, <1>5, <1>6, <1>7 DEF Handles
<1>9. \A t \in Servers : t = s
  BY DEF OneServer
<1>10. \A r \in DOMAIN runs' : Kept(r)'
  BY <1>4, <1>5, KeptStays
<1>11. QED
  BY <1>4, <1>5, <1>7, <1>8, <1>9, <1>10 DEF DefTypeOK, DefInv

LEMMA SaveRunStep ==
  ASSUME DefTypeOK, DefInv, NEW s \in Servers, SaveRun(s)
  PROVE  DefTypeOK' /\ DefInv'
<1> DEFINE h == pc[s]
           g == h.def.graph
           frozen == IF h.kind = "start" THEN g ELSE NoGraph
           new == NewRunRow(h.id, h.n + 1, g, frozen, h.input)
<1>1. /\ h \in Busy /\ g \in Graphs /\ h.n < MaxVersion /\ ValidGraph(g)
      /\ snap[h.id][h.n + 1] = g
  <2>1. h # IdleServer
    BY DEF SaveRun, IdleServer
  <2>2. QED
    BY <2>1 DEF SaveRun, DefInv, Handles
<1>2. h.id \in Ids /\ h.n + 1 \in 1 .. MaxVersion /\ h.input \in Inputs
  BY <1>1 DEF Busy
<1>3. /\ Len(runs) < MaxRuns /\ runs' = Append(runs, new)
      /\ pc' = [pc EXCEPT ![s] = IdleServer] /\ UNCHANGED <<defs, snap>>
  BY DEF SaveRun
<1> HIDE DEF h
<1>4. /\ new \in BoundRun /\ new.id = h.id /\ new.version = h.n + 1 /\ new.of = g
      /\ new.mem \in {NoGraph, g}
  BY <1>1, <1>2, RowType
<1> HIDE DEF new
<1>5. /\ runs' \in Seq(BoundRun) /\ Len(runs') <= MaxRuns
      /\ \A r \in DOMAIN runs' : Kept(r)'
  BY <1>1, <1>3, <1>4, RunAdded
<1>6. pc' \in [Servers -> {IdleServer} \cup Busy] /\ \A t \in Servers : pc'[t] \in {pc[t], IdleServer}
  BY <1>3 DEF DefInv
<1>7. \A t \in Servers : Handles(t)'
  BY <1>3, <1>6 DEF Handles, Latest, DefInv
<1>8. \A j \in Ids : Numbered(j)'
  BY <1>3 DEF Numbered, DefInv
<1>9. QED
  BY <1>3, <1>5, <1>6, <1>7, <1>8 DEF DefTypeOK, DefInv

LEMMA SaveDefinitionStep ==
  ASSUME DefTypeOK, DefInv, NEW s \in Servers, SaveDefinition(s)
  PROVE  DefTypeOK' /\ DefInv'
<1> DEFINE h == pc[s]
           st == IF h.kind = "activate" THEN "active" ELSE "deprecated"
<1>1. h \in Busy /\ h.def.graph \in Graphs
  <2>1. h # IdleServer
    BY DEF SaveDefinition, IdleServer
  <2>2. QED
    BY <2>1 DEF DefInv, Handles
<1>2. defs' = [defs EXCEPT ![h.id] = [h.def EXCEPT !.status = st]]
  BY DEF SaveDefinition
<1>3. pc' = [pc EXCEPT ![s] = IdleServer] /\ UNCHANGED <<snap, runs>>
  BY DEF SaveDefinition
<1> HIDE DEF h
<1>4. [h.def EXCEPT !.status = st] \in Definition /\ [h.def EXCEPT !.status = st].graph \in Graphs
      /\ h.id \in Ids
  BY <1>1 DEF Busy, Definition
<1>5. defs' \in [Ids -> Definition] /\ \A j \in Ids : defs'[j].status # "none" => defs'[j].graph \in Graphs
  <2>1. defs \in [Ids -> Definition]
    BY DEF DefTypeOK, Definition
  <2>2. QED
    BY <1>2, <1>4, <2>1 DEF DefInv
<1>6. pc' \in [Servers -> {IdleServer} \cup Busy] /\ \A t \in Servers : pc'[t] \in {pc[t], IdleServer}
  BY <1>3 DEF DefInv
<1>7. \A t \in Servers : Handles(t)'
  BY <1>3, <1>6 DEF Handles, Latest, DefInv
<1>8. \A j \in Ids : Numbered(j)'
  BY <1>3 DEF Numbered, DefInv
<1>9. \A r \in DOMAIN runs' : Kept(r)'
  BY <1>3 DEF Kept, Frozen, DefInv
<1>10. QED
  BY <1>3, <1>5, <1>6, <1>7, <1>8, <1>9 DEF DefTypeOK, DefInv, Definition

LEMMA ReplanStep ==
  ASSUME DefTypeOK, DefInv, OneServer, NEW r \in DOMAIN runs, NEW g \in Graphs, Replan(r, g)
  PROVE  DefTypeOK' /\ DefInv'
<1> DEFINE i == runs[r].id
           new == NewRunRow(i, Latest(i) + 1, g, NoGraph, runs[r].input)
<1>1. runs[r] \in BoundRun /\ i \in Ids /\ runs[r].input \in Inputs
  <2>1. runs[r] \in BoundRun
    BY DEF DefTypeOK
  <2>2. QED
    BY <2>1 DEF BoundRun
<1>2. Latest(i) \in 0 .. MaxVersion
  BY <1>1, LatestNumber DEF DefInv
<1>3. /\ Latest(i) < MaxVersion /\ snap' = [snap EXCEPT ![i][Latest(i) + 1] = g]
      /\ Len(runs) < MaxRuns /\ runs' = Append(runs, new) /\ UNCHANGED <<defs, pc>> /\ ValidGraph(g)
  BY <1>2 DEF Replan, Successor
<1>4. \A s \in Servers : pc[s] = IdleServer
  BY DEF Replan, ServerFree, OneServer
<1> HIDE DEF i
<1>5. /\ snap' \in [Ids -> [1 .. MaxVersion -> Snapshot]]
      /\ \A j \in Ids : Numbered(j)'
      /\ snap'[i][Latest(i) + 1] = g
      /\ \A j \in Ids, v \in 1 .. MaxVersion : snap[j][v] # NoGraph => snap'[j][v] = snap[j][v]
  BY <1>1, <1>3, TakesVersion
<1>6. /\ new \in BoundRun /\ new.id = i /\ new.version = Latest(i) + 1 /\ new.of = g
      /\ new.mem = NoGraph
  <2>1. Latest(i) + 1 \in 1 .. MaxVersion /\ NoGraph \in {g, NoGraph}
    BY <1>2, <1>3
  <2>2. QED
    BY <1>1, <2>1, RowType
<1> HIDE DEF new
<1>7. /\ runs' \in Seq(BoundRun) /\ Len(runs') <= MaxRuns
      /\ \A q \in DOMAIN runs' : Kept(q)'
  BY <1>3, <1>5, <1>6, RunAdded
<1>8. \A s \in Servers : Handles(s)'
  BY <1>3, <1>4 DEF Handles
<1>9. QED
  BY <1>3, <1>5, <1>7, <1>8 DEF DefTypeOK, DefInv

LEMMA ExecutionStep ==
  ASSUME DefTypeOK, DefInv, NEW r \in DOMAIN runs, TakeUp(r) \/ Walk(r)
  PROVE  DefTypeOK' /\ DefInv'
<1> DEFINE run == runs[r]
<1>1. run \in BoundRun /\ Kept(r)
  BY DEF DefTypeOK, DefInv
<1>2. PICK new : runs' = [runs EXCEPT ![r] = new] /\ UNCHANGED <<defs, snap, pc>>
                 /\ \/ new = [run EXCEPT !.mem = Frozen(r), !.status = "running"]
                    \/ \E st \in {"lost", "ended", "paused"} : new = [run EXCEPT !.status = st, !.mem = NoGraph]
                    \/ run.node \in NodeIds(run.mem) /\ NextNode(r) # "" /\ new = [run EXCEPT !.node = NextNode(r)]
  BY Zenon DEF TakeUp, Walk, Change
<1>3. CASE new = [run EXCEPT !.mem = Frozen(r), !.status = "running"]
  <2>1. new \in BoundRun /\ new.id = run.id /\ new.version = run.version /\ new.of = run.of
        /\ new.mem = run.of
    BY <1>1, <1>3 DEF BoundRun, Kept, Snapshot
  <2>2. QED
    BY <1>2, <2>1, RunChanged
<1>4. CASE \E st \in {"lost", "ended", "paused"} : new = [run EXCEPT !.status = st, !.mem = NoGraph]
  <2>1. new \in BoundRun /\ new.id = run.id /\ new.version = run.version /\ new.of = run.of
        /\ new.mem = NoGraph
    BY <1>1, <1>4 DEF BoundRun, Snapshot
  <2>2. QED
    BY <1>2, <2>1, RunChanged
<1>5. CASE run.node \in NodeIds(run.mem) /\ NextNode(r) # "" /\ new = [run EXCEPT !.node = NextNode(r)]
  <2>1. run.mem \in Graphs
    <3>1. NodeIds(NoGraph) = {}
      BY DEF NodeIds, NoGraph
    <3>2. run.mem \in Snapshot
      BY <1>1 DEF BoundRun
    <3>3. QED
      BY <1>5, <3>1, <3>2 DEF Snapshot
  <2>2. NextNode(r) \in STRING
    BY <1>5, <2>1, NextNodeType
  <2>3. new \in BoundRun /\ new.id = run.id /\ new.version = run.version /\ new.of = run.of
        /\ new.mem \in {NoGraph, run.of}
    BY <1>1, <1>5, <2>2 DEF BoundRun, Kept
  <2>4. QED
    BY <1>2, <2>3, RunChanged
<1>6. QED
  BY <1>2, <1>3, <1>4, <1>5

LEMMA DefStep ==
  ASSUME DefTypeOK, DefInv, OneServer, [DefNext]_defVars
  PROVE  DefTypeOK' /\ DefInv'
<1>1. ASSUME NEW s \in Servers, DefCrash(s) PROVE DefTypeOK' /\ DefInv'
  BY <1>1, HandlerStep DEF DefCrash
<1>2. CASE UNCHANGED defVars
  BY <1>2 DEF defVars, DefTypeOK, DefInv, Handles, Latest, Numbered, Kept, Frozen
<1>3. (CHOOSE x \in Inputs : TRUE) \in Inputs
  OBVIOUS
<1>4. ASSUME NEW s \in Servers, NEW i \in Ids, NEW k \in {"activate", "deprecate"},
             BeginHandler(s, i, k, CHOOSE x \in Inputs : TRUE)
      PROVE  DefTypeOK' /\ DefInv'
  BY <1>3, <1>4, BeginStep
<1>5. QED
  BY <1>1, <1>2, <1>4, BeginStep, DefineStep, FreezeStep, SaveRunStep, SaveDefinitionStep, ReplanStep,
     ExecutionStep DEF DefNext

LEMMA ReadableCondition ==
  ASSUME NEW c, ValidCondition(c), NEW input, NEW ids, Names(c) \cap KnownIds \subseteq ids
  PROVE  Eval(c, input, ids) # "unreadable"
<1>1. ASSUME NEW d, ValidSimple(d), d.field \in KnownIds => d.field \in ids
      PROVE  EvalSimple(d, input, ids) # "unreadable"
  BY <1>1 DEF ValidSimple, EvalSimple, Truth
<1>2. CASE c.op \notin CompoundOp
  BY <1>1, <1>2 DEF ValidCondition, Eval, Names
<1>3. CASE c.op \in CompoundOp
  <2> DEFINE results == {EvalSimple(c.conditions[i], input, ids) : i \in DOMAIN c.conditions}
  <2>1. c.conditions # <<>> /\ \A i \in DOMAIN c.conditions : ValidSimple(c.conditions[i])
    BY <1>3 DEF ValidCondition
  <2>2. \A i \in DOMAIN c.conditions : c.conditions[i].field \in KnownIds => c.conditions[i].field \in ids
    BY <1>3 DEF Names
  <2>3. "unreadable" \notin results
    BY <1>1, <2>1, <2>2
  <2> HIDE DEF results
  <2>4. Eval(c, input, ids) = IF "unreadable" \in results \/ c.conditions = <<>> THEN "unreadable"
       ELSE IF "undefined" \in results THEN "undefined"
       ELSE Truth(IF c.op = "all" THEN results = {"true"} ELSE "true" \in results)
    BY <1>3 DEF Eval, results
  <2>5. QED
    BY <2>1, <2>3, <2>4 DEF Truth
<1>4. QED
  BY <1>2, <1>3

LEMMA DefInitInv == DefInit => DefTypeOK /\ DefInv
<1> SUFFICES ASSUME DefInit PROVE DefTypeOK /\ DefInv
  OBVIOUS
<1>1. DefTypeOK
  BY EmptySeq DEF DefInit, DefTypeOK, Snapshot
<1>2. ASSUME NEW i \in Ids PROVE Numbered(i)
  <2>1. \A v \in 1 .. MaxVersion : snap[i][v] # NoGraph <=> v <= 0
    BY DEF DefInit
  <2>2. 0 \in 0 .. MaxVersion
    OBVIOUS
  <2>3. QED
    BY <2>1, <2>2 DEF Numbered
<1>3. DOMAIN runs = {}
  BY DEF DefInit
<1>4. QED
  BY <1>1, <1>2, <1>3 DEF DefInit, DefInv, Handles

(* The inductive invariant of definitions in one server process: versions  *)
(* are numbered without a gap, the number a handler has read is the latest *)
(* until it has frozen its definition, and a run's version holds its plan. *)
THEOREM DefInvariant == ASSUME OneServer PROVE DefSpec => [](DefTypeOK /\ DefInv)
<1>1. DefTypeOK /\ DefInv /\ [DefNext]_defVars => DefTypeOK' /\ DefInv'
  BY DefStep
<1>2. QED
  BY <1>1, DefInitInv, PTL DEF DefSpec

(* Within one server process a run keeps the plan it was bound to,         *)
(* whatever is started, activated, deprecated or replanned, and a          *)
(* condition that was accepted can be evaluated, for any graphs.           *)
THEOREM DefinitionsAreHeld == ASSUME OneServer PROVE DefSpec => []DefinitionsHold
<1>1. DefTypeOK /\ DefInv => DefinitionsHold
  <2> SUFFICES ASSUME DefTypeOK, DefInv PROVE DefinitionsHold
    OBVIOUS
  <2>1. RunKeepsItsPlan
    BY DEF RunKeepsItsPlan, DefInv, Kept
  <2>2. ASSUME NEW r \in DOMAIN runs, NEW n \in runs[r].of.nodes, n.type = "risk_gate",
               Names(n.condition) \cap KnownIds \subseteq NodeIds(runs[r].of)
        PROVE  Eval(n.condition, runs[r].input, NodeIds(runs[r].of)) # "unreadable"
    <3>1. ValidCondition(n.condition)
      BY <2>2 DEF DefInv, Kept, ValidGraph
    <3>2. QED
      BY <2>2, <3>1, ReadableCondition
  <2>3. QED
    BY <2>1, <2>2 DEF DefinitionsHold, GatesAreReadable
<1>2. QED
  BY <1>1, DefInvariant, PTL

HIDE DefAssumption

USE CollabAssumption

-----------------------------------------------------------------------------
(* Collaboration: where a run stands in its graph of tasks                 *)

(* The edges of the graph; a high conflict has put the arbiter between the *)
(* detector and the fusion.                                                *)
GraphShape(r) ==
  /\ r.after[Dispatch] \subseteq Domain
  /\ \A t \in Domain : r.after[t] = {}
  /\ \A t \in Domain \ r.after[Dispatch] : r.task[t] = "absent"
  /\ r.after[Detect] = {Dispatch}
  /\ r.conflict = "high" => r.after[Arbiter] = {Detect} /\ r.after[Fusion] = {Arbiter}
  /\ r.conflict # "high" => r.after[Fusion] = {Detect}

(* Nothing is known of a conflict yet. *)
Undecided(r) ==
  /\ r.task[Fusion] = "pending" /\ r.task[Arbiter] = "absent"
  /\ r.conflict = "none" /\ r.status = "running" /\ ~r.final
Informed(r) == \A t \in r.after[Dispatch] : r.task[t] = "succeeded"

AtDomain(r) ==
  /\ Undecided(r) /\ r.task[Detect] = "pending" /\ r.task[Dispatch] \in {"pending", "blocked"}
  /\ r.layer <= 1 /\ r.todo \subseteq r.after[Dispatch]
  /\ \A t \in r.after[Dispatch] :
       \/ r.task[t] = "succeeded" /\ t \notin r.todo
       \/ r.task[t] = "failed" /\ r.task[Dispatch] = "blocked" /\ t \notin r.todo
       \/ r.task[t] = "pending" /\ r.layer = 0 /\ t \notin r.todo
       \/ r.task[t] \in {"pending", "running"} /\ r.layer = 1 /\ t \in r.todo
AtDispatch(r) ==
  /\ Undecided(r) /\ r.task[Detect] = "pending" /\ Informed(r)
  /\ r.task[Dispatch] \in {"pending", "running"} /\ r.todo = {Dispatch} /\ r.layer <= 2
DispatchFailed(r) ==
  /\ Undecided(r) /\ r.task[Detect] = "blocked" /\ Informed(r)
  /\ r.task[Dispatch] = "failed" /\ r.todo = {}
AtDetect(r) ==
  /\ Undecided(r) /\ r.task[Detect] = "pending" /\ Informed(r) /\ r.task[Dispatch] = "succeeded"
  /\ \/ r.todo = {} /\ r.layer <= 2
     \/ r.todo = {Detect} /\ r.layer <= 3

Detected(r) == Informed(r) /\ r.task[Dispatch] = "succeeded" /\ r.task[Detect] = "succeeded"
AtArbiter(r) ==
  /\ Detected(r) /\ r.status = "arbitrating" /\ ~r.final /\ r.conflict = "high"
  /\ r.task[Arbiter] = "pending" /\ r.task[Fusion] = "pending"
  /\ \/ r.todo = {} /\ r.layer <= 3
     \/ r.todo = {Arbiter} /\ r.layer <= 4
Arbitrated(r) == r.task[Arbiter] = IF r.conflict = "high" THEN "succeeded" ELSE "absent"
AtFusion(r) ==
  /\ Detected(r) /\ r.status = "arbitrating" /\ ~r.final /\ Arbitrated(r)
  /\ r.task[Fusion] = "pending"
  /\ \/ r.todo = {} /\ r.layer <= 4
     \/ r.todo = {Fusion} /\ r.layer <= 5
Fused(r) ==
  /\ Detected(r) /\ r.status = "fusing" /\ r.final /\ Arbitrated(r)
  /\ r.task[Fusion] = "succeeded" /\ r.todo = {}

OpenInv(r) ==
  /\ GraphShape(r)
  /\ \/ AtDomain(r) \/ AtDispatch(r) \/ DispatchFailed(r) \/ AtDetect(r)
     \/ AtArbiter(r) \/ AtFusion(r) \/ Fused(r)

FusedLast(r) ==
  r.final => /\ \A t \in Tasks : r.task[t] \in {"absent", "succeeded"}
             /\ r.conflict = "high" => r.task[Arbiter] = "succeeded"
GeneratorInv(r) ==
  /\ r.pc = "open" => OpenInv(r)
  /\ r.pc \in {"new", "asked"} => r.layer = 0 /\ r.todo = {} /\ r.conflict = "none" /\ ~r.final
  /\ FusedLast(r)
CollabInv == \A s \in Streams : GeneratorInv(generator[s])

-----------------------------------------------------------------------------

LEMMA TaskNames ==
  /\ Dispatch \notin Domain /\ Detect \notin Domain /\ Arbiter \notin Domain /\ Fusion \notin Domain
  /\ Dispatch # Detect /\ Dispatch # Arbiter /\ Dispatch # Fusion
  /\ Detect # Arbiter /\ Detect # Fusion /\ Arbiter # Fusion
  /\ Domain \subseteq Tasks
  /\ Dispatch \in Tasks /\ Detect \in Tasks /\ Arbiter \in Tasks /\ Fusion \in Tasks
  /\ \A t \in Tasks : t \in Domain \/ t \in {Dispatch, Detect, Arbiter, Fusion}
BY DEF Dispatch, Detect, Arbiter, Fusion, Tasks, System

SameButTasks(r, n) == /\ n.pc = r.pc /\ n.event = r.event /\ n.status = r.status /\ n.after = r.after
              /\ n.layer = r.layer /\ n.conflict = r.conflict /\ n.final = r.final

LEMMA DoneFields ==
  ASSUME NEW r \in Generator, NEW t \in Tasks, NEW n, n = Done(r, t)
  PROVE  n \in Generator /\ SameButTasks(r, n) /\ n.todo = r.todo \ {t}
         /\ n.task = [r.task EXCEPT ![t] = "succeeded"]
<1> DEFINE task == [r.task EXCEPT ![t] = "succeeded"]
<1>1. n = [r EXCEPT !.todo = r.todo \ {t}, !.task = task, !.calls = 0]
  BY DEF Done, Generator
<1>2. task \in [Tasks -> {"absent", "pending", "running", "succeeded", "failed", "blocked"}]
  BY DEF Generator
<1>3. r.todo \ {t} \in SUBSET Tasks /\ 0 \in 0..Calls
  BY DEF Generator
<1> HIDE DEF task
<1>4. n \in Generator
  BY <1>1, <1>2, <1>3 DEF Generator
<1>5. SameButTasks(r, n) /\ n.todo = r.todo \ {t} /\ n.task = task
  BY <1>1 DEF Generator, SameButTasks
<1>6. QED
  BY <1>4, <1>5 DEF task

LEMMA FailedFields ==
  ASSUME NEW r \in Generator, NEW t \in Tasks, NEW n, n = Failed(r, t)
  PROVE  n \in Generator /\ SameButTasks(r, n) /\ n.todo = r.todo \ {t}
         /\ n.task = [u \in Tasks |->
              IF u = t THEN "failed"
              ELSE IF t \in r.after[u] /\ r.task[u] = "pending" THEN "blocked" ELSE r.task[u]]
<1> DEFINE task == [u \in Tasks |->
              IF u = t THEN "failed"
              ELSE IF t \in r.after[u] /\ r.task[u] = "pending" THEN "blocked" ELSE r.task[u]]
<1>1. n = [r EXCEPT !.todo = r.todo \ {t}, !.calls = 0, !.task = task]
  BY DEF Failed, Generator
<1>2. task \in [Tasks -> {"absent", "pending", "running", "succeeded", "failed", "blocked"}]
  BY DEF Generator
<1>3. r.todo \ {t} \in SUBSET Tasks /\ 0 \in 0..Calls
  BY DEF Generator
<1> HIDE DEF task
<1>4. n \in Generator
  BY <1>1, <1>2, <1>3 DEF Generator
<1>5. SameButTasks(r, n) /\ n.todo = r.todo \ {t} /\ n.task = task
  BY <1>1 DEF Generator, SameButTasks
<1>6. QED
  BY <1>4, <1>5 DEF task

LEMMA RetriedFields ==
  ASSUME NEW r \in Generator, NEW t \in Tasks, Affordable(r),
         NEW n, n = [r EXCEPT !.task[t] = "running", !.calls = @ + 1]
  PROVE  n \in Generator /\ SameButTasks(r, n) /\ n.todo = r.todo
         /\ n.task = [r.task EXCEPT ![t] = "running"]
<1>1. r.calls + 1 \in 0..Calls
  BY DEF Affordable, Generator
<1>2. QED
  BY <1>1 DEF Generator, SameButTasks

LEMMA LayerFields ==
  ASSUME NEW r \in Generator, MoreLayers(r),
         NEW n, n = [r EXCEPT !.todo = Ready(r), !.layer = @ + 1]
  PROVE  /\ n \in Generator /\ n.todo = Ready(r) /\ n.layer = r.layer + 1
         /\ n.pc = r.pc /\ n.status = r.status /\ n.after = r.after /\ n.task = r.task
         /\ n.conflict = r.conflict /\ n.final = r.final
<1>1. r.layer + 1 \in 0..Layers
  BY DEF MoreLayers, Generator
<1>2. Ready(r) \subseteq Tasks
  BY DEF Ready
<1>3. QED
  BY <1>1, <1>2 DEF Generator

LEMMA LayerInv ==
  ASSUME NEW r \in Generator, OpenInv(r), r.todo = {}, MoreLayers(r),
         NEW n, n = [r EXCEPT !.todo = Ready(r), !.layer = @ + 1]
  PROVE  OpenInv(n)
<1>1. /\ n.todo = Ready(r) /\ n.layer = r.layer + 1
      /\ n.status = r.status /\ n.after = r.after /\ n.task = r.task
      /\ n.conflict = r.conflict /\ n.final = r.final
  BY LayerFields
<1>2. Ready(r) # {} /\ r.layer \in Nat
  BY DEF MoreLayers, Generator
<1>3. GraphShape(n)
  BY <1>1 DEF GraphShape, OpenInv
<1>4. CASE AtDomain(r)
  <2>1. Ready(r) \subseteq Domain \cup {Dispatch}
    BY <1>4, TaskNames DEF AtDomain, Undecided, Ready, OpenInv, GraphShape
  <2>2. Ready(r) \cap Domain \subseteq r.after[Dispatch]
    BY <1>4, TaskNames DEF Ready, OpenInv, GraphShape
  <2>3. CASE Dispatch \in Ready(r)
    <3>1. Informed(r) /\ r.task[Dispatch] = "pending"
      BY <2>3 DEF Ready, Informed
    <3>2. Ready(r) = {Dispatch}
      BY <2>1, <2>2, <2>3, <3>1 DEF Informed, Ready
    <3>3. AtDispatch(n)
      BY <1>1, <1>2, <1>4, <3>1, <3>2 DEF AtDomain, AtDispatch, Undecided, Informed
    <3>4. QED
      BY <1>3, <3>3 DEF OpenInv
  <2>4. CASE Dispatch \notin Ready(r)
    <3>1. PICK t \in Ready(r) : TRUE
      BY <1>2
    <3>2. r.layer = 0 /\ Ready(r) \subseteq r.after[Dispatch]
      BY <1>4, <2>1, <2>2, <2>4, <3>1 DEF AtDomain, Ready
    <3>3. \A u \in r.after[Dispatch] : r.task[u] = "pending" => u \in Ready(r)
      BY TaskNames DEF Ready, OpenInv, GraphShape
    <3>4. AtDomain(n)
      BY <1>1, <1>4, <3>2, <3>3 DEF AtDomain, Undecided, Ready
    <3>5. QED
      BY <1>3, <3>4 DEF OpenInv
  <2>5. QED
    BY <2>3, <2>4
<1>5. CASE AtDetect(r)
  <2>1. Ready(r) = {Detect}
    BY <1>2, <1>5, TaskNames DEF AtDetect, Undecided, Ready, OpenInv, GraphShape, Informed
  <2>2. AtDetect(n)
    BY <1>1, <1>2, <1>5, <2>1 DEF AtDetect, Undecided, Informed
  <2>3. QED
    BY <1>3, <2>2 DEF OpenInv
<1>6. CASE AtArbiter(r)
  <2>1. Ready(r) = {Arbiter}
    BY <1>2, <1>6, TaskNames DEF AtArbiter, Ready, OpenInv, GraphShape, Informed, Detected
  <2>2. AtArbiter(n)
    BY <1>1, <1>2, <1>6, <2>1 DEF AtArbiter, Detected, Informed
  <2>3. QED
    BY <1>3, <2>2 DEF OpenInv
<1>7. CASE AtFusion(r)
  <2>1. Ready(r) = {Fusion}
    BY <1>2, <1>7, TaskNames DEF AtFusion, Ready, OpenInv, GraphShape, Informed, Detected, Arbitrated
  <2>2. AtFusion(n)
    BY <1>1, <1>2, <1>7, <2>1 DEF AtFusion, Detected, Informed, Arbitrated
  <2>3. QED
    BY <1>3, <2>2 DEF OpenInv
<1>8. CASE Fused(r)
  BY <1>2, <1>8, TaskNames DEF Fused, Ready, OpenInv, GraphShape, Informed, Detected, Arbitrated
<1>9. CASE DispatchFailed(r)
  BY <1>2, <1>9, TaskNames DEF DispatchFailed, Undecided, Ready, OpenInv, GraphShape, Informed
<1>10. CASE AtDispatch(r)
  BY <1>10 DEF AtDispatch
<1>11. QED
  BY <1>4, <1>5, <1>6, <1>7, <1>8, <1>9, <1>10 DEF OpenInv

LEMMA DoneInv ==
  ASSUME NEW r \in Generator, OpenInv(r), NEW t \in r.todo, t \notin System,
         NEW n, n = Done(r, t)
  PROVE  OpenInv(n)
<1>1. t \in Tasks
  BY DEF Generator
<1>2. /\ SameButTasks(r, n) /\ n.todo = r.todo \ {t}
      /\ n.task = [r.task EXCEPT ![t] = "succeeded"]
  BY <1>1, DoneFields
<1>3. r.task \in [Tasks -> {"absent", "pending", "running", "succeeded", "failed", "blocked"}]
  BY DEF Generator
<1>4. CASE AtDomain(r)
  <2>1. t \in r.after[Dispatch] /\ t \in Domain
    BY <1>4 DEF AtDomain, OpenInv, GraphShape
  <2>2. GraphShape(n)
    BY <1>2, <1>3, <2>1 DEF GraphShape, OpenInv, SameButTasks
  <2>3. /\ n.task[t] = "succeeded" /\ t \notin n.todo
        /\ \A u \in Tasks \ {t} : n.task[u] = r.task[u] /\ (u \in n.todo <=> u \in r.todo)
    BY <1>1, <1>2, <1>3
  <2>4. r.after[Dispatch] \subseteq Tasks
    BY TaskNames DEF OpenInv, GraphShape
  <2>5. AtDomain(n)
    BY <1>2, <1>4, <2>1, <2>3, <2>4, TaskNames DEF AtDomain, Undecided, SameButTasks
  <2>6. QED
    BY <2>2, <2>5 DEF OpenInv
<1>5. CASE AtDispatch(r)
  <2>1. t = Dispatch
    BY <1>5 DEF AtDispatch
  <2>2. GraphShape(n)
    BY <1>2, <1>3, <2>1, TaskNames DEF GraphShape, OpenInv, SameButTasks
  <2>3. AtDetect(n)
    BY <1>2, <1>3, <1>5, <2>1, TaskNames
       DEF AtDispatch, AtDetect, Undecided, Informed, SameButTasks, OpenInv, GraphShape
  <2>4. QED
    BY <2>2, <2>3 DEF OpenInv
<1>6. CASE ~AtDomain(r) /\ ~AtDispatch(r)
  BY <1>6 DEF OpenInv, DispatchFailed, AtDetect, AtArbiter, AtFusion, Fused, System
<1>7. QED
  BY <1>4, <1>5, <1>6

LEMMA FailedInv ==
  ASSUME NEW r \in Generator, OpenInv(r), NEW t \in r.todo, t \notin System,
         NEW n, n = Failed(r, t)
  PROVE  OpenInv(n)
<1>1. t \in Tasks
  BY DEF Generator
<1>2. /\ SameButTasks(r, n) /\ n.todo = r.todo \ {t}
      /\ n.task = [u \in Tasks |->
              IF u = t THEN "failed"
              ELSE IF t \in r.after[u] /\ r.task[u] = "pending" THEN "blocked" ELSE r.task[u]]
  BY <1>1, FailedFields
<1>3. r.task \in [Tasks -> {"absent", "pending", "running", "succeeded", "failed", "blocked"}]
  BY DEF Generator
<1>4. CASE AtDomain(r)
  <2>1. t \in r.after[Dispatch] /\ t \in Domain
    BY <1>4 DEF AtDomain, OpenInv, GraphShape
  <2>2. \A u \in Domain \ {t} : n.task[u] = r.task[u]
    BY <1>2, <2>1, TaskNames DEF OpenInv, GraphShape
  <2>3. GraphShape(n)
    BY <1>2, <2>1, <2>2 DEF GraphShape, OpenInv, SameButTasks
  <2>4. n.task[t] = "failed" /\ n.task[Dispatch] = "blocked"
    BY <1>1, <1>2, <1>4, <2>1, TaskNames DEF AtDomain
  <2>5. n.task[Detect] = "pending" /\ n.task[Fusion] = "pending" /\ n.task[Arbiter] = "absent"
    BY <1>2, <1>4, <2>1, TaskNames DEF AtDomain, Undecided, OpenInv, GraphShape
  <2>6. \A u \in r.after[Dispatch] : u \in Domain
    BY DEF OpenInv, GraphShape
  <2>7. AtDomain(n)
    BY <1>2, <1>4, <2>1, <2>2, <2>4, <2>5, <2>6 DEF AtDomain, Undecided, SameButTasks
  <2>8. QED
    BY <2>3, <2>7 DEF OpenInv
<1>5. CASE AtDispatch(r)
  <2>1. t = Dispatch
    BY <1>5 DEF AtDispatch
  <2>2. \A u \in Domain : n.task[u] = r.task[u]
    BY <1>2, <2>1, TaskNames DEF OpenInv, GraphShape
  <2>3. GraphShape(n)
    BY <1>2, <2>1, <2>2 DEF GraphShape, OpenInv, SameButTasks
  <2>4. n.task[Dispatch] = "failed" /\ n.task[Detect] = "blocked"
    BY <1>2, <1>5, <2>1, TaskNames DEF AtDispatch, OpenInv, GraphShape
  <2>5. n.task[Fusion] = "pending" /\ n.task[Arbiter] = "absent"
    BY <1>2, <1>5, <2>1, TaskNames DEF AtDispatch, Undecided, OpenInv, GraphShape
  <2>6. DispatchFailed(n)
    BY <1>2, <1>5, <2>1, <2>2, <2>4, <2>5
       DEF AtDispatch, DispatchFailed, Undecided, Informed, SameButTasks, OpenInv, GraphShape
  <2>7. QED
    BY <2>3, <2>6 DEF OpenInv
<1>6. CASE ~AtDomain(r) /\ ~AtDispatch(r)
  BY <1>6 DEF OpenInv, DispatchFailed, AtDetect, AtArbiter, AtFusion, Fused, System
<1>7. QED
  BY <1>4, <1>5, <1>6

LEMMA RetriedInv ==
  ASSUME NEW r \in Generator, OpenInv(r), NEW t \in r.todo, t \notin System, Affordable(r),
         NEW n, n = [r EXCEPT !.task[t] = "running", !.calls = @ + 1]
  PROVE  OpenInv(n)
<1>1. t \in Tasks
  BY DEF Generator
<1>2. /\ SameButTasks(r, n) /\ n.todo = r.todo
      /\ n.task = [r.task EXCEPT ![t] = "running"]
  BY <1>1, RetriedFields
<1>3. r.task \in [Tasks -> {"absent", "pending", "running", "succeeded", "failed", "blocked"}]
  BY DEF Generator
<1>4. CASE AtDomain(r)
  <2>1. t \in r.after[Dispatch] /\ t \in Domain /\ r.layer = 1
    BY <1>4 DEF AtDomain, OpenInv, GraphShape
  <2>2. GraphShape(n)
    BY <1>2, <1>3, <2>1 DEF GraphShape, OpenInv, SameButTasks
  <2>3. n.task[t] = "running" /\ \A u \in Tasks \ {t} : n.task[u] = r.task[u]
    BY <1>1, <1>2, <1>3
  <2>4. r.after[Dispatch] \subseteq Tasks
    BY TaskNames DEF OpenInv, GraphShape
  <2>5. AtDomain(n)
    BY <1>2, <1>4, <2>1, <2>3, <2>4, TaskNames DEF AtDomain, Undecided, SameButTasks
  <2>6. QED
    BY <2>2, <2>5 DEF OpenInv
<1>5. CASE AtDispatch(r)
  <2>1. t = Dispatch
    BY <1>5 DEF AtDispatch
  <2>2. GraphShape(n)
    BY <1>2, <1>3, <2>1, TaskNames DEF GraphShape, OpenInv, SameButTasks
  <2>3. AtDispatch(n)
    BY <1>2, <1>3, <1>5, <2>1, TaskNames
       DEF AtDispatch, Undecided, Informed, SameButTasks, OpenInv, GraphShape
  <2>4. QED
    BY <2>2, <2>3 DEF OpenInv
<1>6. CASE ~AtDomain(r) /\ ~AtDispatch(r)
  BY <1>6 DEF OpenInv, DispatchFailed, AtDetect, AtArbiter, AtFusion, Fused, System
<1>7. QED
  BY <1>4, <1>5, <1>6

Compared(r, c) == [Done(r, Detect) EXCEPT !.conflict = c, !.status = "arbitrating"]
Decided(r, c) == IF c = "high" THEN WithArbiter(Compared(r, c)) ELSE Compared(r, c)
LEMMA DetectInv ==
  ASSUME NEW r \in Generator, OpenInv(r), Detect \in r.todo, NEW c \in {"none", "medium", "high"},
         NEW m, m = Decided(r, c)
  PROVE  m \in Generator /\ m.pc = r.pc /\ OpenInv(m) /\ ~m.final
<1> DEFINE n == Compared(r, c)
<1> DEFINE d == Done(r, Detect)
<1>1. /\ d \in Generator /\ SameButTasks(r, d) /\ d.todo = r.todo \ {Detect}
      /\ d.task = [r.task EXCEPT ![Detect] = "succeeded"]
  BY DoneFields, TaskNames
<1> HIDE DEF d
<1>2. /\ n \in Generator /\ n.pc = r.pc /\ n.conflict = c /\ n.status = "arbitrating"
      /\ n.todo = r.todo \ {Detect} /\ n.task = [r.task EXCEPT ![Detect] = "succeeded"]
      /\ n.after = r.after /\ n.layer = r.layer /\ n.final = r.final
  <2>1. n = [d EXCEPT !.conflict = c, !.status = "arbitrating"]
    BY DEF d, Compared
  <2>2. n \in Generator
    BY <1>1, <2>1 DEF Generator, Ended
  <2>3. QED
    BY <1>1, <2>1, <2>2 DEF Generator, SameButTasks
<1> HIDE DEF n
<1>3. AtDetect(r) /\ r.todo = {Detect} /\ r.layer <= 3 /\ r.layer \in Nat
  BY TaskNames DEF OpenInv, AtDomain, AtDispatch, DispatchFailed, AtDetect, AtArbiter, AtFusion, Fused,
     GraphShape, Generator
<1>4. r.task \in [Tasks -> {"absent", "pending", "running", "succeeded", "failed", "blocked"}]
      /\ r.after \in [Tasks -> SUBSET Tasks]
  BY DEF Generator
<1>5. Detected(n)
  BY <1>2, <1>3, <1>4, TaskNames DEF Detected, Informed, AtDetect, OpenInv, GraphShape
<1>6. CASE c # "high"
  <2>1. GraphShape(n)
    BY <1>2, <1>3, <1>4, <1>6, TaskNames DEF GraphShape, OpenInv, AtDetect, Undecided
  <2>2. AtFusion(n)
    BY <1>2, <1>3, <1>4, <1>5, <1>6, TaskNames DEF AtFusion, AtDetect, Undecided, Arbitrated
  <2>3. QED
    BY <1>2, <1>3, <1>6, <2>1, <2>2 DEF OpenInv, AtDetect, Undecided, Decided, n
<1>7. CASE c = "high"
  <2> DEFINE task == [n.task EXCEPT ![Arbiter] = "pending"]
             after == [n.after EXCEPT ![Arbiter] = {Detect}, ![Fusion] = {Arbiter}]
  <2>1. m = [n EXCEPT !.task = task, !.after = after]
    BY <1>2, <1>7 DEF WithArbiter, Generator, Decided, n
  <2>2. /\ task \in [Tasks -> {"absent", "pending", "running", "succeeded", "failed", "blocked"}]
        /\ after \in [Tasks -> SUBSET Tasks]
    BY <1>2, <1>4, TaskNames
  <2>3. /\ task[Arbiter] = "pending" /\ after[Arbiter] = {Detect} /\ after[Fusion] = {Arbiter}
        /\ \A u \in Tasks \ {Arbiter} : task[u] = n.task[u]
        /\ \A u \in Tasks \ {Arbiter, Fusion} : after[u] = n.after[u]
    BY <1>2, <1>4, TaskNames
  <2> HIDE DEF task, after
  <2>4. /\ m \in Generator /\ m.pc = r.pc /\ m.conflict = "high" /\ m.status = "arbitrating"
        /\ m.todo = n.todo /\ m.task = task /\ m.after = after /\ m.layer = n.layer /\ m.final = n.final
    <3>1. m \in Generator
      <4>1. [n EXCEPT !.task = task] \in Generator
        BY <1>2, <2>2 DEF Generator
      <4>2. m = [[n EXCEPT !.task = task] EXCEPT !.after = after]
        BY <1>2, <2>1 DEF Generator
      <4>3. QED
        BY <2>2, <4>1, <4>2 DEF Generator
    <3>2. m.task = task /\ m.after = after
      BY <1>2, <2>1 DEF Generator
    <3>3. /\ m.pc = n.pc /\ m.conflict = n.conflict /\ m.status = n.status
          /\ m.todo = n.todo /\ m.layer = n.layer /\ m.final = n.final
      BY <1>2, <2>1 DEF Generator
    <3>4. QED
      BY <1>2, <1>7, <3>1, <3>2, <3>3
  <2>5. GraphShape(m)
    <3>1. after[Dispatch] = r.after[Dispatch] /\ after[Detect] = {Dispatch} /\ \A t \in Domain : after[t] = {}
      BY <1>2, <2>3, TaskNames DEF OpenInv, GraphShape
    <3>2. \A t \in Domain : task[t] = r.task[t]
      BY <1>2, <1>4, <2>3, TaskNames
    <3>3. QED
      BY <2>3, <2>4, <3>1, <3>2 DEF OpenInv, GraphShape
  <2>6. AtArbiter(m)
    <3>1. n.after[Dispatch] = m.after[Dispatch] /\ n.after[Dispatch] \subseteq Tasks \ {Arbiter}
      BY <1>2, <2>3, <2>4, TaskNames DEF OpenInv, GraphShape
    <3>2. Detected(m)
      BY <1>5, <2>3, <2>4, <3>1, TaskNames DEF Detected, Informed
    <3>3. m.task[Fusion] = "pending" /\ m.task[Arbiter] = "pending" /\ ~m.final /\ m.todo = {} /\ m.layer <= 3
      BY <1>2, <1>3, <1>4, <2>3, <2>4, TaskNames DEF AtDetect, Undecided
    <3>4. QED
      BY <2>4, <3>2, <3>3 DEF AtArbiter
  <2>7. QED
    BY <2>4, <2>5, <2>6 DEF OpenInv, AtArbiter
<1>8. QED
  BY <1>6, <1>7

LEMMA ArbitrateInv ==
  ASSUME NEW r \in Generator, OpenInv(r), Arbiter \in r.todo, NEW n, n = Done(r, Arbiter)
  PROVE  OpenInv(n) /\ ~n.final
<1>1. /\ n \in Generator /\ SameButTasks(r, n) /\ n.todo = r.todo \ {Arbiter}
      /\ n.task = [r.task EXCEPT ![Arbiter] = "succeeded"]
  BY DoneFields, TaskNames
<1>2. AtArbiter(r) /\ r.todo = {Arbiter} /\ r.layer <= 4
  BY TaskNames DEF OpenInv, AtDomain, AtDispatch, DispatchFailed, AtDetect, AtArbiter, AtFusion, Fused,
     GraphShape
<1>3. r.task \in [Tasks -> {"absent", "pending", "running", "succeeded", "failed", "blocked"}]
  BY DEF Generator
<1>4. GraphShape(n)
  BY <1>1, <1>3, TaskNames DEF GraphShape, OpenInv, SameButTasks
<1>5. AtFusion(n)
  BY <1>1, <1>2, <1>3, TaskNames
     DEF AtFusion, AtArbiter, Arbitrated, Detected, Informed, SameButTasks, OpenInv, GraphShape
<1>6. QED
  BY <1>4, <1>5 DEF OpenInv, AtFusion

LEMMA FuseInv ==
  ASSUME NEW r \in Generator, OpenInv(r), Fusion \in r.todo,
         NEW n, n = [Done(r, Fusion) EXCEPT !.status = "fusing", !.final = TRUE]
  PROVE  n \in Generator /\ n.pc = r.pc /\ OpenInv(n) /\ FusedLast(n)
<1> DEFINE d == Done(r, Fusion)
<1>1. /\ d \in Generator /\ SameButTasks(r, d) /\ d.todo = r.todo \ {Fusion}
      /\ d.task = [r.task EXCEPT ![Fusion] = "succeeded"]
  BY DoneFields, TaskNames
<1> HIDE DEF d
<1>2. /\ n \in Generator /\ n.pc = r.pc /\ n.conflict = r.conflict /\ n.status = "fusing"
      /\ n.todo = r.todo \ {Fusion} /\ n.task = [r.task EXCEPT ![Fusion] = "succeeded"]
      /\ n.after = r.after /\ n.layer = r.layer /\ n.final = TRUE
  <2>1. n = [d EXCEPT !.status = "fusing", !.final = TRUE]
    BY DEF d
  <2>2. n \in Generator
    BY <1>1, <2>1 DEF Generator, Ended
  <2>3. /\ n.pc = d.pc /\ n.conflict = d.conflict /\ n.status = "fusing" /\ n.todo = d.todo
        /\ n.task = d.task /\ n.after = d.after /\ n.layer = d.layer /\ n.final = TRUE
    BY <1>1, <2>1 DEF Generator
  <2>4. QED
    BY <1>1, <2>2, <2>3 DEF SameButTasks
<1>3. AtFusion(r) /\ r.todo = {Fusion}
  BY TaskNames DEF OpenInv, AtDomain, AtDispatch, DispatchFailed, AtDetect, AtArbiter, AtFusion, Fused,
     GraphShape
<1>4. r.task \in [Tasks -> {"absent", "pending", "running", "succeeded", "failed", "blocked"}]
  BY DEF Generator
<1>5. GraphShape(n)
  BY <1>2, <1>4, TaskNames DEF GraphShape, OpenInv
<1>6. Fused(n)
  BY <1>2, <1>3, <1>4, TaskNames
     DEF AtFusion, Fused, Arbitrated, Detected, Informed, OpenInv, GraphShape
<1>7. FusedLast(n)
  BY <1>5, <1>6, TaskNames DEF FusedLast, Fused, Detected, Informed, Arbitrated, GraphShape
<1>8. QED
  BY <1>2, <1>5, <1>6, <1>7 DEF OpenInv

-----------------------------------------------------------------------------
LEMMA OpenStep ==
  ASSUME CollabTypeOK, CollabInv, NEW s \in Streams, Open(s)
  PROVE  generator'[s] \in Generator /\ GeneratorInv(generator'[s])
<1> DEFINE r == generator[s]
<1>1. r \in Generator /\ GeneratorInv(r) /\ r.pc = "asked"
  BY DEF Open, CollabTypeOK, CollabInv
<1>2. generator \in [Streams -> Generator]
  BY DEF CollabTypeOK
<1>3. CASE generator' = [generator EXCEPT ![s].pc = "closed"]
  BY <1>1, <1>2, <1>3 DEF Generator, GeneratorInv, FusedLast
<1>4. ASSUME NEW agents \in SUBSET Domain,
             generator' = [generator EXCEPT ![s] = [@ EXCEPT
                   !.pc = "open", !.status = "running", !.after = Graph(agents),
                   !.task = [t \in Tasks |-> IF t \in agents \cup {Dispatch, Detect, Fusion}
                                               THEN "pending" ELSE "absent"]]]
      PROVE  generator'[s] \in Generator /\ GeneratorInv(generator'[s])
  <2> DEFINE task == [t \in Tasks |-> IF t \in agents \cup {Dispatch, Detect, Fusion}
                                               THEN "pending" ELSE "absent"]
             after == Graph(agents)
             n == generator'[s]
  <2>1. n = [r EXCEPT !.pc = "open", !.status = "running", !.after = after, !.task = task]
    BY <1>2, <1>4
  <2>2. /\ \A t \in Domain : after[t] = {}
        /\ after[Dispatch] = agents /\ after[Detect] = {Dispatch} /\ after[Arbiter] = {}
        /\ after[Fusion] = {Detect}
    BY TaskNames DEF Graph
  <2>3. after \in [Tasks -> SUBSET Tasks]
    <3>1. \A t \in Tasks : after[t] \in SUBSET Tasks
      BY <2>2, TaskNames
    <3>2. QED
      BY <3>1 DEF Graph
  <2>4. /\ task \in [Tasks -> {"absent", "pending", "running", "succeeded", "failed", "blocked"}]
        /\ \A t \in agents : task[t] = "pending"
        /\ \A t \in Domain \ agents : task[t] = "absent"
        /\ task[Dispatch] = "pending" /\ task[Detect] = "pending" /\ task[Fusion] = "pending"
        /\ task[Arbiter] = "absent"
    BY TaskNames
  <2> HIDE DEF task, after, r, n
  <2>5. n \in Generator
    BY <1>1, <2>1, <2>3, <2>4 DEF Generator, Ended
  <2>6. /\ n.task = task /\ n.after = after /\ n.status = "running" /\ n.pc = "open"
        /\ n.layer = r.layer /\ n.todo = r.todo /\ n.conflict = r.conflict /\ n.final = r.final
    BY <1>1, <2>1 DEF Generator
  <2>7. n.layer = 0 /\ n.todo = {} /\ n.conflict = "none" /\ ~n.final
    BY <1>1, <2>6 DEF GeneratorInv
  <2>8. GraphShape(n)
    BY <2>2, <2>4, <2>6, <2>7 DEF GraphShape
  <2>9. AtDomain(n)
    BY <2>2, <2>4, <2>6, <2>7 DEF AtDomain, Undecided
  <2>10. n \in Generator /\ GeneratorInv(n)
    BY <2>5, <2>6, <2>7, <2>8, <2>9 DEF GeneratorInv, OpenInv, FusedLast
  <2>11. QED
    BY <2>10 DEF n
<1>5. QED
  BY <1>3, <1>4 DEF Open

(* An open run ends in a status that its state machine accepts: where it   *)
(* has detected and not fused, a task is ready and a round is left for it. *)
LEMMA EndOfOpen ==
  ASSUME NEW r \in Generator, OpenInv(r), r.todo = {}, ~MoreLayers(r)
  PROVE  Outcome(r) \in Successors(r.status)
<1>1. r.layer \in Nat
  BY DEF Generator
<1>2. CASE AtArbiter(r)
  <2>1. Arbiter \in Ready(r)
    BY <1>2, TaskNames DEF AtArbiter, Ready, Detected, OpenInv, GraphShape
  <2>2. QED
    BY <1>1, <1>2, <2>1, TaskNames DEF AtArbiter, MoreLayers
<1>3. CASE AtFusion(r)
  <2>1. Fusion \in Ready(r)
    BY <1>3, TaskNames DEF AtFusion, Arbitrated, Ready, Detected, OpenInv, GraphShape
  <2>2. QED
    BY <1>1, <1>3, <2>1, TaskNames DEF AtFusion, MoreLayers
<1>4. CASE r.status \in {"running", "fusing"}
  BY <1>4 DEF Outcome, Successors
<1>5. QED
  BY <1>2, <1>3, <1>4
     DEF OpenInv, AtDomain, AtDispatch, DispatchFailed, AtDetect, Fused, Undecided

LEMMA CollabStep ==
  ASSUME CollabTypeOK, CollabInv, [CollabNext]_collabVars
  PROVE  generator' \in [Streams -> Generator] /\ CollabInv'
<1>0. generator \in [Streams -> Generator] /\ \A s \in Streams : GeneratorInv(generator[s])
  BY DEF CollabTypeOK, CollabInv
<1>1. ASSUME NEW s \in Streams, NEW n, n \in Generator, GeneratorInv(n),
             generator' = [generator EXCEPT ![s] = n]
      PROVE  generator' \in [Streams -> Generator] /\ CollabInv'
  BY <1>0, <1>1 DEF CollabInv
<1>2. ASSUME NEW s \in Streams, NEW e \in Incidents \cup {NoEvent}, AskStream(s, e)
      PROVE  generator' \in [Streams -> Generator] /\ CollabInv'
  <2> DEFINE n == [generator[s] EXCEPT !.pc = "asked", !.event = e]
  <2>1. n \in Generator
    BY <1>0 DEF Generator
  <2>2. generator[s].pc = "new" /\ GeneratorInv(generator[s])
    BY <1>0, <1>2 DEF AskStream
  <2>3. /\ n.pc = "asked" /\ n.layer = generator[s].layer /\ n.todo = generator[s].todo
        /\ n.conflict = generator[s].conflict /\ n.final = generator[s].final
    BY <1>0 DEF Generator
  <2>4. GeneratorInv(n)
    BY <2>2, <2>3 DEF GeneratorInv, FusedLast
  <2>5. generator' = [generator EXCEPT ![s] = n]
    BY <1>0, <1>2 DEF AskStream
  <2>6. QED
    BY <1>1, <2>1, <2>4, <2>5
<1>3. ASSUME NEW s \in Streams, Open(s)
      PROVE  generator' \in [Streams -> Generator] /\ CollabInv'
  <2>1. generator'[s] \in Generator /\ GeneratorInv(generator'[s])
    BY <1>3, OpenStep
  <2>2. generator' = [generator EXCEPT ![s] = generator'[s]]
    BY <1>0, <1>3 DEF Open
  <2>3. QED
    BY <1>1, <2>1, <2>2
<1>4. ASSUME NEW s \in Streams, Layer(s)
      PROVE  generator' \in [Streams -> Generator] /\ CollabInv'
  <2> DEFINE r == generator[s]
             n == [r EXCEPT !.todo = Ready(r), !.layer = @ + 1]
  <2>1. r \in Generator /\ OpenInv(r) /\ r.pc = "open" /\ r.todo = {} /\ MoreLayers(r) /\ FusedLast(r)
    BY <1>0, <1>4 DEF Layer, GeneratorInv
  <2>2. generator' = [generator EXCEPT ![s] = n]
    BY <1>0, <1>4 DEF Layer
  <2> HIDE DEF r
  <2>3. OpenInv(n)
    BY <2>1, LayerInv
  <2>4. /\ n \in Generator /\ n.pc = r.pc /\ n.task = r.task
        /\ n.conflict = r.conflict /\ n.final = r.final
    BY <2>1, LayerFields
  <2> HIDE DEF n
  <2>5. GeneratorInv(n)
    BY <2>1, <2>3, <2>4 DEF GeneratorInv, FusedLast
  <2>6. QED
    BY <1>1, <2>2, <2>4, <2>5
<1>5. ASSUME NEW s \in Streams, NEW t \in Tasks, Attempt(s, t)
      PROVE  generator' \in [Streams -> Generator] /\ CollabInv'
  <2> DEFINE r == generator[s]
  <2>1. r \in Generator /\ OpenInv(r) /\ r.pc = "open" /\ t \in r.todo /\ t \notin System
    BY <1>0, <1>5 DEF Attempt, Turn, GeneratorInv
  <2>2. PICK n : /\ generator' = [generator EXCEPT ![s] = n]
                 /\ \/ n = Done(r, t) \/ n = Failed(r, t)
                    \/ Affordable(r) /\ n = [r EXCEPT !.task[t] = "running", !.calls = @ + 1]
    <3>1. CASE generator' = [generator EXCEPT ![s] = Done(r, t)]
      BY <3>1
    <3>2. CASE generator' = [generator EXCEPT ![s] = Failed(r, t)]
      BY <3>2
    <3>3. CASE Affordable(r) /\ generator' = [generator EXCEPT ![s].task[t] = "running",
                                                               ![s].calls = @ + 1]
      <4>1. generator' = [generator EXCEPT ![s] = [r EXCEPT !.task[t] = "running", !.calls = @ + 1]]
        BY <1>0, <3>3 DEF Generator
      <4>2. QED
        BY <3>3, <4>1
    <3>4. QED
      BY <1>5, <3>1, <3>2, <3>3 DEF Attempt
  <2> HIDE DEF r
  <2>3. n \in Generator /\ SameButTasks(r, n) /\ OpenInv(n)
    BY <2>1, <2>2, DoneFields, DoneInv, FailedFields, FailedInv, RetriedFields, RetriedInv
  <2>4. ~n.final
    BY <2>1, <2>3 DEF SameButTasks, OpenInv, Fused, AtDomain, AtDispatch, DispatchFailed, AtDetect,
       AtArbiter, AtFusion, Undecided, System
  <2>5. GeneratorInv(n)
    BY <2>1, <2>3, <2>4 DEF GeneratorInv, FusedLast, SameButTasks
  <2>6. QED
    BY <1>1, <2>2, <2>3, <2>5
<1>6. ASSUME NEW s \in Streams, DetectConflicts(s)
      PROVE  generator' \in [Streams -> Generator] /\ CollabInv'
  <2> DEFINE r == generator[s]
  <2>1. r \in Generator /\ OpenInv(r) /\ r.pc = "open" /\ Detect \in r.todo
    BY <1>0, <1>6 DEF DetectConflicts, Turn, GeneratorInv
  <2>2. PICK c \in {"none", "medium", "high"} : generator' = [generator EXCEPT ![s] = Decided(r, c)]
    BY <1>6 DEF DetectConflicts, Severity, Decided, Compared
  <2> HIDE DEF r
  <2> DEFINE m == Decided(r, c)
  <2>3. m \in Generator /\ m.pc = "open" /\ OpenInv(m) /\ ~m.final
    BY <2>1, DetectInv
  <2>4. QED
    BY <1>1, <2>2, <2>3 DEF GeneratorInv, FusedLast
<1>7. ASSUME NEW s \in Streams, Arbitrate(s)
      PROVE  generator' \in [Streams -> Generator] /\ CollabInv'
  <2> DEFINE r == generator[s]
             n == Done(r, Arbiter)
  <2>1. r \in Generator /\ OpenInv(r) /\ r.pc = "open" /\ Arbiter \in r.todo
    BY <1>0, <1>7 DEF Arbitrate, Turn, GeneratorInv
  <2>2. generator' = [generator EXCEPT ![s] = n]
    BY <1>7 DEF Arbitrate
  <2> HIDE DEF r
  <2>3. n \in Generator /\ SameButTasks(r, n) /\ OpenInv(n) /\ ~n.final
    BY <2>1, ArbitrateInv, DoneFields, TaskNames
  <2>4. QED
    BY <1>1, <2>1, <2>2, <2>3 DEF GeneratorInv, FusedLast, SameButTasks
<1>8. ASSUME NEW s \in Streams, Fuse(s)
      PROVE  generator' \in [Streams -> Generator] /\ CollabInv'
  <2> DEFINE r == generator[s]
             n == [Done(r, Fusion) EXCEPT !.status = "fusing", !.final = TRUE]
  <2>1. r \in Generator /\ OpenInv(r) /\ r.pc = "open" /\ Fusion \in r.todo
    BY <1>0, <1>8 DEF Fuse, Turn, GeneratorInv
  <2>2. generator' = [generator EXCEPT ![s] = n]
    BY <1>8 DEF Fuse
  <2> HIDE DEF r
  <2>3. n \in Generator /\ n.pc = "open" /\ OpenInv(n) /\ FusedLast(n)
    BY <2>1, FuseInv
  <2>4. QED
    BY <1>1, <2>2, <2>3 DEF GeneratorInv
<1>9. ASSUME NEW s \in Streams, Finish(s) \/ Abort(s)
      PROVE  generator' \in [Streams -> Generator] /\ CollabInv'
  <2> DEFINE r == generator[s]
  <2>1. r \in Generator /\ FusedLast(r)
    BY <1>0 DEF GeneratorInv
  <2>2. PICK st \in Ended \cup {r.status} :
          generator' = [generator EXCEPT ![s] = [r EXCEPT !.pc = "closed", !.status = st]]
    <3>1. CASE Finish(s)
      <4>1. Outcome(r) \in Ended
        BY DEF Outcome, Ended
      <4>2. generator' = [generator EXCEPT ![s] = [r EXCEPT !.pc = "closed", !.status = Outcome(r)]]
        BY <1>0, <3>1 DEF Finish
      <4>3. QED
        BY <4>1, <4>2
    <3>2. CASE Abort(s)
      <4>1. generator' = [generator EXCEPT ![s] = [r EXCEPT !.pc = "closed", !.status = r.status]]
        BY <1>0, <3>2 DEF Abort, Generator
      <4>2. QED
        BY <4>1
    <3>3. QED
      BY <1>9, <3>1, <3>2
  <2> HIDE DEF r
  <2>3. [r EXCEPT !.pc = "closed", !.status = st] \in Generator
    BY <2>1 DEF Generator
  <2>4. GeneratorInv([r EXCEPT !.pc = "closed", !.status = st])
    BY <2>1 DEF Generator, GeneratorInv, FusedLast
  <2>5. QED
    BY <1>1, <2>2, <2>3, <2>4
<1>10. CASE CollabCrash
  <2>1. \A s \in Streams : generator'[s] = generator[s] \/ generator'[s] = [generator[s] EXCEPT !.pc = "closed"]
    BY <1>10 DEF CollabCrash
  <2>2. ASSUME NEW s \in Streams PROVE [generator[s] EXCEPT !.pc = "closed"] \in Generator
    <3> DEFINE g == generator[s]
    <3>1. g \in Generator
      BY <1>0
    <3> HIDE DEF g
    <3>2. [g EXCEPT !.pc = "closed"] \in Generator
      BY <3>1 DEF Generator
    <3>3. QED
      BY <3>2 DEF g
  <2>3. \A s \in Streams : GeneratorInv([generator[s] EXCEPT !.pc = "closed"])
    BY <1>0 DEF Generator, GeneratorInv, FusedLast
  <2>4. QED
    BY <1>0, <1>10, <2>1, <2>2, <2>3 DEF CollabCrash, CollabInv
<1>11. CASE UNCHANGED collabVars
  BY <1>0, <1>11 DEF collabVars, CollabInv
<1>12. QED
  BY <1>2, <1>3, <1>4, <1>5, <1>6, <1>7, <1>8, <1>9, <1>10, <1>11 DEF CollabNext

LEMMA RowsStep ==
  ASSUME CollabTypeOK, [CollabNext]_collabVars
  PROVE  rows' \in [Streams -> Row] /\ last' \in Streams \cup {NoEvent}
<1>0. rows \in [Streams -> Row] /\ last \in Streams \cup {NoEvent}
      /\ \A s \in Streams : generator[s].event \in Incidents \cup {NoEvent}
  BY DEF CollabTypeOK, Generator
<1>1. ASSUME NEW s \in Streams, Open(s)
      PROVE  rows' \in [Streams -> Row] /\ last' \in Streams \cup {NoEvent}
  <2>1. rows' = rows \/ rows' = [rows EXCEPT ![s] = [status |-> "created", event |-> generator[s].event,
                                                      twice |-> FALSE]]
    BY <1>1 DEF Open
  <2>2. [status |-> "created", event |-> generator[s].event, twice |-> FALSE] \in Row
    BY <1>0 DEF Row
  <2>3. last' \in {last, s}
    BY <1>1 DEF Open
  <2>4. QED
    BY <1>0, <2>1, <2>2, <2>3
<1>2. ASSUME NEW s \in Streams, Finish(s)
      PROVE  rows' \in [Streams -> Row] /\ last' \in Streams \cup {NoEvent}
  <2>1. PICK st \in Ended : rows' = [rows EXCEPT ![s].status = st] /\ last' = s
    BY <1>2 DEF Finish, Outcome, Ended
  <2>2. [rows[s] EXCEPT !.status = st] \in Row
    BY <1>0 DEF Row
  <2>3. QED
    BY <1>0, <2>1, <2>2
<1>3. ASSUME NEW s \in Streams, Abort(s)
      PROVE  rows' \in [Streams -> Row] /\ last' \in Streams \cup {NoEvent}
  <2>1. rows' = [rows EXCEPT ![s] = Encoded(rows[s])] /\ last' = s
    BY <1>0, <1>3 DEF Abort
  <2>2. Encoded(rows[s]) \in Row
    BY <1>0 DEF Row, Encoded, Ended
  <2>3. QED
    BY <1>0, <2>1, <2>2
<1>4. CASE UNCHANGED <<rows, last>>
  BY <1>0, <1>4
<1>5. QED
  BY <1>1, <1>2, <1>3, <1>4 DEF CollabNext, collabVars, AskStream, Layer, DetectConflicts, Arbitrate,
     Fuse, Attempt, CollabCrash

LEMMA CollabInit_Inv == CollabInit => CollabTypeOK /\ CollabInv
<1> SUFFICES ASSUME CollabInit PROVE CollabTypeOK /\ CollabInv
  OBVIOUS
<1>1. NewGenerator \in Generator
  BY DEF NewGenerator, Generator, Ended
<1>2. GeneratorInv(NewGenerator)
  BY DEF NewGenerator, GeneratorInv, FusedLast
<1>3. QED
  BY <1>1, <1>2 DEF CollabInit, CollabTypeOK, CollabInv, Row

(* The inductive invariant of a collaboration run: where it stands in its  *)
(* graph determines which tasks may have ended how, which of them the      *)
(* layer holds and how many layers have been spent.                        *)
THEOREM CollabInvariant == CollabSpec => [](CollabTypeOK /\ CollabInv)
<1>1. CollabTypeOK /\ CollabInv /\ [CollabNext]_collabVars => CollabTypeOK' /\ CollabInv'
  BY CollabStep, RowsStep DEF CollabTypeOK
<1>2. QED
  BY <1>1, CollabInit_Inv, PTL DEF CollabSpec

(* A run fuses when every task has succeeded, the arbiter of a high        *)
(* conflict among them, and the status it ends in is one its state machine *)
(* accepts, for any agents, budget and number of streams, whatever is      *)
(* retried, inserted, aborted or lost.                                     *)
THEOREM RunsEndInOrder == CollabSpec => []RunEndsInOrder
<1>1. CollabTypeOK /\ CollabInv => RunEndsInOrder
  BY EndOfOpen DEF RunEndsInOrder, FusionIsLast, EndIsLegal, CollabTypeOK, CollabInv, GeneratorInv, FusedLast
<1>2. QED
  BY <1>1, CollabInvariant, PTL

HIDE CollabAssumption

-----------------------------------------------------------------------------
(* Simulation                                                              *)

USE SimAssumption

(* What memory and rows are before, between and after the commits: memory  *)
(* knows no event without a row, shows none it does not list, and the      *)
(* event whose snapshot is still to come has its row.                      *)
Shown(content, events) ==
  content.changes \cap Injected \subseteq content.listed /\ content.listed \subseteq events

SnapT == [seq : Nat, content : Content]

InMemory(m, events) ==
  /\ m.snaps \in Seq(SnapT)
  /\ m.events \subseteq events
  /\ \A i \in DOMAIN m.snaps : Shown(m.snaps[i].content, m.events)

SimInv ==
  /\ stored = [run |-> stored.run, snaps |-> stored.snaps, events |-> stored.events]
  /\ stored.snaps \in [0..MaxSnaps -> Content \cup {Absent}] /\ stored.events \subseteq Injected
  /\ \A k \in 0..MaxSnaps : stored.snaps[k] # Absent => Shown(stored.snaps[k], stored.events)
  /\ mem # Absent => InMemory(mem, stored.events)
  /\ pending \in Injected => pending \in stored.events
  /\ pending = "save" => InMemory(mem, stored.events) /\ mem.snaps # <<>>

(* A finite set of numbers has an i-th for every i up to its size: the     *)
(* smallest number with i of the set up to it.                             *)
LEMMA IthIn ==
  ASSUME NEW n \in Nat, NEW K, K \subseteq 0..n, NEW i \in 1..Cardinality(K)
  PROVE  Ith(K, i) \in K
<1>1. IsFiniteSet(K) /\ Cardinality(K) \in Nat
  <2>1. IsFiniteSet(0..n)
    BY FS_Interval
  <2>2. QED
    BY <2>1, FS_Subset, FS_CardinalityType
<1>2. \A k \in K : k \in Nat /\ k <= n
  OBVIOUS
<1> DEFINE upTo(m) == {j \in K : j <= m}
           size(m) == Cardinality(upTo(m))
           below(m) == {j \in K : j < m}
           T == {m \in 0..n : size(m) >= i}
<1>3. \A m : IsFiniteSet(upTo(m)) /\ size(m) \in Nat
  <2>1. \A m : upTo(m) \subseteq K
    OBVIOUS
  <2> HIDE DEF upTo
  <2>2. QED
    BY <1>1, <2>1, FS_Subset, FS_CardinalityType
<1>4. upTo(n) = K
  BY <1>2
<1>5. ASSUME NEW m \in Nat, m # 0 PROVE m - 1 \in Nat /\ below(m) = upTo(m - 1)
  <2>1. m - 1 \in Nat /\ \A j \in K : j < m <=> j <= m - 1
    BY <1>2, <1>5
  <2>2. QED
    BY <2>1
<1>6. below(0) = {}
  <2>1. \A j \in K : ~(j < 0)
    BY <1>2
  <2>2. QED
    BY <2>1
<1>7. ASSUME NEW m \in Nat, m \in K PROVE m \in upTo(m) /\ below(m) = upTo(m) \ {m}
  <2>1. m <= m /\ \A j \in K : j < m <=> j <= m /\ j # m
    BY <1>2
  <2>2. QED
    BY <1>7, <2>1
<1>8. ASSUME NEW m \in Nat, m \notin K PROVE below(m) = upTo(m)
  <2>1. \A j \in K : j < m <=> j <= m
    BY <1>2, <1>8
  <2>2. QED
    BY <2>1
<1> HIDE DEF upTo, below
<1>9. Cardinality(below(0)) = 0
  BY <1>6, FS_EmptySet
<1>10. PICK m \in T : \A y \in T : m <= y
  <2>1. n \in T
    BY <1>1, <1>4
  <2>2. T \subseteq Nat /\ T # {}
    BY <2>1
  <2> HIDE DEF T
  <2>3. QED
    BY <2>2, SmallestExists
<1>11. m \in Nat /\ m <= n /\ size(m) >= i
  OBVIOUS
<1>12. Cardinality(below(m)) < i
  <2>1. CASE m = 0
    BY <1>9, <2>1
  <2>2. CASE m # 0
    <3>1. m - 1 \in 0..n /\ m - 1 \notin T /\ below(m) = upTo(m - 1)
      BY <1>5, <1>10, <1>11, <2>2
    <3>2. QED
      BY <1>3, <3>1
  <2>3. QED
    BY <2>1, <2>2
<1>13. m \in K
  BY <1>8, <1>11, <1>12, <1>3
<1>14. Cardinality(below(m)) = size(m) - 1
  BY <1>3, <1>7, <1>11, <1>13, FS_RemoveElement
<1>15. Cardinality(below(m)) = i - 1
  BY <1>3, <1>11, <1>12, <1>14
<1>16. QED
  BY <1>13, <1>15 DEF below, Ith

(* What a restart loads is held. *)
LEMMA LoadedInMemory == ASSUME SimInv PROVE InMemory(Loaded, stored.events)
<1>1. CASE mem # Absent
  BY <1>1 DEF Loaded, SimInv
<1>2. CASE mem = Absent
  <2> DEFINE shot(i) == [seq |-> Ith(Rows, i), content |-> stored.snaps[Ith(Rows, i)]]
  <2>1. Rows \subseteq 0..MaxSnaps /\ IsFiniteSet(Rows) /\ Cardinality(Rows) \in Nat
    <3>1. Rows \subseteq 0..MaxSnaps /\ IsFiniteSet(0..MaxSnaps)
      BY FS_Interval DEF Rows
    <3>2. QED
      BY <3>1, FS_Subset, FS_CardinalityType
  <2>2. ASSUME NEW i \in 1..Cardinality(Rows)
        PROVE  /\ Ith(Rows, i) \in Nat /\ stored.snaps[Ith(Rows, i)] \in Content
               /\ Shown(stored.snaps[Ith(Rows, i)], stored.events)
    <3>1. Ith(Rows, i) \in Rows
      BY <2>1, IthIn
    <3>2. QED
      BY <3>1 DEF Rows, SimInv
  <2>3. Loaded.snaps = [i \in 1..Cardinality(Rows) |-> shot(i)] /\ Loaded.events = stored.events
    BY <1>2 DEF Loaded
  <2>4. \A i \in 1..Cardinality(Rows) :
           shot(i) \in SnapT
    BY <2>2 DEF SnapT
  <2>5. \A i \in 1..Cardinality(Rows) : shot(i).content = stored.snaps[Ith(Rows, i)]
    OBVIOUS
  <2> HIDE DEF shot
  <2>6. Loaded.snaps \in Seq(SnapT)
    BY <2>1, <2>3, <2>4
  <2>7. DOMAIN Loaded.snaps = 1..Cardinality(Rows)
    BY <2>3
  <2>8. ASSUME NEW i \in DOMAIN Loaded.snaps PROVE Shown(Loaded.snaps[i].content, Loaded.events)
    <3>1. i \in 1..Cardinality(Rows) /\ Loaded.snaps[i] = shot(i)
      BY <2>3, <2>7
    <3>2. QED
      BY <2>2, <2>3, <2>5, <3>1
  <2>9. QED
    BY <2>3, <2>6, <2>8 DEF InMemory
<1>3. QED
  BY <1>1, <1>2

(* The last snapshot with one more change, listing every event there is.   *)
LEMMA AppendedInMemory ==
  ASSUME NEW m, NEW S, InMemory(m, S), S \subseteq Injected, m.snaps # <<>>,
         NEW change \in Injected \cup Flows, NEW events \in SUBSET S, m.events \subseteq events,
         change \in Injected => change \in events
  PROVE  /\ InMemory(Appended(m, change, events), S)
         /\ Appended(m, change, events).snaps # <<>>
<1> DEFINE final == m.snaps[Len(m.snaps)]
           content == [changes |-> final.content.changes \cup {change}, listed |-> events]
           shot == [seq |-> Len(m.snaps), content |-> content]
<1>1. m.snaps \in Seq(SnapT) /\ Len(m.snaps) \in DOMAIN m.snaps /\ Len(m.snaps) \in Nat
  BY DEF InMemory
<1>2. final \in SnapT /\ Shown(final.content, m.events)
  <2>1. m.snaps[Len(m.snaps)] \in SnapT
    BY <1>1
  <2>2. QED
    BY <1>1, <2>1 DEF InMemory
<1>3. Appended(m, change, events) = [snaps |-> Append(m.snaps, shot), events |-> events]
  BY DEF Appended, NextSeq, Last
<1>4. shot \in SnapT /\ shot.content.changes = final.content.changes \cup {change}
      /\ shot.content.listed = events
  BY <1>1, <1>2 DEF SnapT, Content
<1>5. Shown(shot.content, events)
  BY <1>2, <1>4 DEF Shown
<1>6. ASSUME NEW i \in DOMAIN m.snaps PROVE Shown(m.snaps[i].content, events)
  BY DEF InMemory, Shown
<1> HIDE DEF shot
<1>7. /\ Append(m.snaps, shot) \in Seq(SnapT)
      /\ \A i \in DOMAIN Append(m.snaps, shot) : Shown(Append(m.snaps, shot)[i].content, events)
  BY <1>1, <1>4, <1>5, <1>6
<1>8. Append(m.snaps, shot) # <<>>
  BY <1>1
<1>9. QED
  BY <1>3, <1>7, <1>8 DEF InMemory

(* The rows with the last snapshot of what is held. *)
LEMMA SavedShown ==
  ASSUME SimInv, NEW m, NEW S, InMemory(m, S), stored.events \subseteq S, m.snaps # <<>>
  PROVE  /\ SavedSnaps(m) \in [0..MaxSnaps -> Content \cup {Absent}]
         /\ \A k \in 0..MaxSnaps : SavedSnaps(m)[k] # Absent => Shown(SavedSnaps(m)[k], S)
<1> DEFINE final == m.snaps[Len(m.snaps)]
<1>1. m.snaps \in Seq(SnapT) /\ Len(m.snaps) \in DOMAIN m.snaps
  BY DEF InMemory
<1>2. final \in SnapT /\ Shown(final.content, m.events)
  <2>1. m.snaps[Len(m.snaps)] \in SnapT
    BY <1>1
  <2>2. QED
    BY <1>1, <2>1 DEF InMemory
<1>3. final.content \in Content /\ Shown(final.content, S)
  BY <1>2 DEF SnapT, Shown, InMemory
<1>4. SavedSnaps(m) = [stored.snaps EXCEPT ![final.seq] = final.content]
  BY DEF SavedSnaps, Last
<1>5. stored.snaps \in [0..MaxSnaps -> Content \cup {Absent}]
      /\ \A k \in 0..MaxSnaps : stored.snaps[k] # Absent => Shown(stored.snaps[k], S)
  BY DEF SimInv, Shown
<1> HIDE DEF final
<1>6. QED
  BY <1>3, <1>4, <1>5

LEMMA RenewStep == ASSUME SimInv, Renew PROVE SimInv'
<1> DEFINE m == [snaps |-> <<Initial>>, events |-> {}]
<1>1. /\ mem' = m /\ stored' = [run |-> TRUE, snaps |-> NoSnaps, events |-> {}]
      /\ pending' = "save"
  BY DEF Renew, Fresh
<1>2. Initial \in SnapT /\ Shown(Initial.content, {})
  BY DEF Initial, SnapT, Content, Shown
<1>3. InMemory(m, {}) /\ m.snaps # <<>>
  BY <1>2 DEF InMemory
<1> HIDE DEF m
<1>4. NoSnaps \in [0..MaxSnaps -> Content \cup {Absent}] /\ \A k \in 0..MaxSnaps : NoSnaps[k] = Absent
  BY DEF NoSnaps
<1>5. QED
  BY <1>1, <1>3, <1>4 DEF SimInv

LEMMA SaveSnapshotStep == ASSUME SimInv, SaveSnapshot PROVE SimInv'
<1>1. /\ InMemory(mem, stored.events) /\ mem.snaps # <<>> /\ pending' = "none" /\ mem' = mem
      /\ stored' = [stored EXCEPT !.snaps = SavedSnaps(mem)]
  BY DEF SaveSnapshot, SimInv
<1>2. stored' = [run |-> stored.run, snaps |-> SavedSnaps(mem), events |-> stored.events]
  BY <1>1 DEF SimInv
<1>3. /\ SavedSnaps(mem) \in [0..MaxSnaps -> Content \cup {Absent}]
      /\ \A k \in 0..MaxSnaps : SavedSnaps(mem)[k] # Absent => Shown(SavedSnaps(mem)[k], stored.events)
  BY <1>1, SavedShown
<1>4. QED
  BY <1>1, <1>2, <1>3 DEF SimInv

LEMMA InjectStep == ASSUME SimInv, NEW e \in Injected, Inject(e) PROVE SimInv'
<1> DEFINE S == stored.events \cup {e}
<1>1. stored' = [run |-> stored.run, snaps |-> stored.snaps, events |-> S] /\ pending' = e /\ mem' = mem
  BY DEF Inject, SimInv
<1>2. S \subseteq Injected /\ stored.events \subseteq S /\ e \in S
  BY DEF SimInv
<1> HIDE DEF S
<1>3. mem # Absent => InMemory(mem, S)
  BY <1>2 DEF SimInv, InMemory
<1>4. \A k \in 0..MaxSnaps : stored.snaps[k] # Absent => Shown(stored.snaps[k], S)
  BY <1>2 DEF SimInv, Shown
<1>5. QED
  BY <1>1, <1>2, <1>3, <1>4 DEF SimInv

LEMMA ApplyStep == ASSUME SimInv, Apply PROVE SimInv'
<1>1. pending \in Injected /\ pending \in stored.events /\ pending' = "none"
  BY DEF Apply, SimInv
<1>2. InMemory(Loaded, stored.events) /\ Loaded.events \subseteq stored.events
  BY LoadedInMemory DEF InMemory
<1>3. CASE Loaded.snaps = <<>>
  BY <1>1, <1>2, <1>3 DEF Apply, SimInv
<1>4. CASE Loaded.snaps # <<>>
  <2> DEFINE m == Appended(Loaded, pending, Loaded.events \cup {pending})
  <2>1. mem' = m /\ stored' = [stored EXCEPT !.snaps = SavedSnaps(m)]
    BY <1>4 DEF Apply
  <2>2. InMemory(m, stored.events) /\ m.snaps # <<>>
    BY <1>1, <1>2, <1>4, AppendedInMemory DEF SimInv
  <2> HIDE DEF m
  <2>3. stored' = [run |-> stored.run, snaps |-> SavedSnaps(m), events |-> stored.events]
    BY <2>1 DEF SimInv
  <2>4. /\ SavedSnaps(m) \in [0..MaxSnaps -> Content \cup {Absent}]
        /\ \A k \in 0..MaxSnaps : SavedSnaps(m)[k] # Absent => Shown(SavedSnaps(m)[k], stored.events)
    BY <2>2, SavedShown
  <2>5. QED
    BY <1>1, <2>1, <2>2, <2>3, <2>4 DEF SimInv
<1>5. QED
  BY <1>3, <1>4

LEMMA ActStep == ASSUME SimInv, NEW w \in Flows, Act(w) PROVE SimInv'
<1>1. InMemory(Loaded, stored.events) /\ Loaded.events \subseteq stored.events
  BY LoadedInMemory DEF InMemory
<1>2. /\ Loaded.snaps # <<>> /\ mem' = Appended(Loaded, w, Loaded.events)
      /\ pending = "none" /\ UNCHANGED <<stored, pending>>
  BY DEF Act, HandlerFree
<1>3. InMemory(mem', stored.events)
  BY <1>1, <1>2, AppendedInMemory DEF SimInv
<1>4. QED
  BY <1>2, <1>3 DEF SimInv

LEMMA SimStep == ASSUME SimInv, [SimNext]_simVars PROVE SimInv'
<1>1. CASE UNCHANGED <<stored, mem, pending>>
  BY <1>1 DEF SimInv
<1>2. CASE SimCrash
  BY <1>2 DEF SimCrash, SimInv
<1>3. ASSUME NEW w \in Flows, NEW e \in Injected, AskWorkflow(w, e) PROVE SimInv'
  BY <1>3, LoadedInMemory DEF AskWorkflow, HandlerFree, SimInv
<1>4. ASSUME NEW w \in Flows, BeginWorkflow(w) \/ EndWorkflow(w) PROVE SimInv'
  BY <1>1, <1>4 DEF BeginWorkflow, EndWorkflow
<1>5. CASE CreateRun \/ Reset
  BY <1>5, RenewStep DEF CreateRun, Reset
<1>6. QED
  BY <1>1, <1>2, <1>3, <1>4, <1>5, SaveSnapshotStep, InjectStep, ApplyStep, ActStep DEF SimNext, simVars

(* A snapshot, in memory or in its row, shows no event that it does not    *)
(* list and lists none without a row.                                      *)
THEOREM SimInvariant == SimSpec => []SimInv
<1>1. SimInit => SimInv
  BY DEF SimInit, SimInv, NoSnaps
<1>2. SimInv /\ [SimNext]_simVars => SimInv'
  BY SimStep
<1>3. QED
  BY <1>1, <1>2, PTL DEF SimSpec

(* Wherever the process dies, between the rows of an event or of a reset,  *)
(* and whatever acts on the run in memory only, the history a restart      *)
(* finds is whole.                                                         *)
THEOREM HistoryStaysWhole == SimSpec => []HistoryIsWhole
<1>1. SimInv => HistoryIsWhole
  BY DEF SimInv, Shown, HistoryIsWhole
<1>2. QED
  BY <1>1, SimInvariant, PTL

(* Every snapshot held has one of the numbers there is room for.           *)
InBounds(m) ==
  Len(m.snaps) <= MaxSnaps /\ \A i \in DOMAIN m.snaps : m.snaps[i].seq < MaxSnaps

(* What is held stays in its bounds: the number after the last one is never*)
(* taken, and a handler that still has to append has the room to.          *)
SimBound ==
  /\ SimInv /\ stored.run \in BOOLEAN /\ stored.snaps[MaxSnaps] = Absent
  /\ mem # Absent \/ pending = "save" => InBounds(mem)
  /\ pending \in {"none", "save"} \cup Injected
  /\ pending \in Injected => Len(Loaded.snaps) < MaxSnaps
  /\ flow \in [Flows -> [pc : {"none", "asked", "active", "ended"}, event : Injected \cup {Absent}]]

LEMMA LoadedInBounds == ASSUME SimBound PROVE InBounds(Loaded)
<1>1. CASE mem # Absent
  BY <1>1 DEF Loaded, SimBound
<1>2. CASE mem = Absent
  <2>1. Rows \subseteq 0 .. (MaxSnaps - 1)
    BY DEF SimBound, Rows
  <2>2. Cardinality(Rows) \in Nat /\ Cardinality(Rows) <= MaxSnaps
    <3>1. IsFiniteSet(0 .. (MaxSnaps - 1)) /\ Cardinality(0 .. (MaxSnaps - 1)) = MaxSnaps
      BY FS_Interval
    <3>2. /\ IsFiniteSet(Rows)
          /\ Cardinality(Rows) <= Cardinality(0 .. (MaxSnaps - 1))
      BY <2>1, <3>1, FS_Subset
    <3>3. Cardinality(Rows) \in Nat
      BY <3>2, FS_CardinalityType
    <3>4. QED
      BY <3>1, <3>2, <3>3
  <2>3. \A i \in 1..Cardinality(Rows) : Ith(Rows, i) \in Rows
    <3>1. MaxSnaps - 1 \in Nat
      OBVIOUS
    <3>2. QED
      BY <2>1, <3>1, IthIn
  <2>4. Loaded.snaps = [i \in 1..Cardinality(Rows) |->
                          [seq |-> Ith(Rows, i), content |-> stored.snaps[Ith(Rows, i)]]]
    BY <1>2 DEF Loaded
  <2>5. Len(Loaded.snaps) = Cardinality(Rows) /\ DOMAIN Loaded.snaps = 1..Cardinality(Rows)
    BY <2>2, <2>4
  <2>6. ASSUME NEW i \in DOMAIN Loaded.snaps PROVE Loaded.snaps[i].seq < MaxSnaps
    <3>1. Loaded.snaps[i].seq = Ith(Rows, i)
      BY <2>4, <2>5
    <3>2. QED
      BY <2>1, <2>3, <2>5, <3>1
  <2>7. QED
    BY <2>2, <2>5, <2>6 DEF InBounds
<1>3. QED
  BY <1>1, <1>2

LEMMA AppendedInBounds ==
  ASSUME NEW m, NEW S, InMemory(m, S), InBounds(m), Len(m.snaps) < MaxSnaps,
         NEW change, NEW events
  PROVE  InBounds(Appended(m, change, events))
<1> DEFINE shot == [seq |-> Len(m.snaps), content |->
             [changes |-> Last(m.snaps).content.changes \cup {change}, listed |-> events]]
<1>1. Appended(m, change, events).snaps = Append(m.snaps, shot) /\ shot.seq = Len(m.snaps)
  BY DEF Appended, NextSeq
<1>2. m.snaps \in Seq(SnapT) /\ Len(m.snaps) \in Nat
  BY DEF InMemory
<1> HIDE DEF shot
<1>3. Len(Append(m.snaps, shot)) = Len(m.snaps) + 1
  BY <1>2
<1>4. ASSUME NEW i \in DOMAIN Append(m.snaps, shot)
      PROVE  Append(m.snaps, shot)[i].seq < MaxSnaps
  <2>1. CASE i \in DOMAIN m.snaps
    <3>1. Append(m.snaps, shot)[i] = m.snaps[i]
      BY <1>2, <2>1
    <3>2. QED
      BY <2>1, <3>1 DEF InBounds
  <2>2. CASE i = Len(m.snaps) + 1
    <3>1. Append(m.snaps, shot)[i] = shot
      BY <1>2, <2>2
    <3>2. QED
      BY <1>1, <3>1
  <2>3. QED
    BY <1>2, <2>1, <2>2
<1>5. QED
  BY <1>1, <1>2, <1>3, <1>4 DEF InBounds

(* The row of the last snapshot has one of the numbers there is room for.  *)
LEMMA SavedInBounds ==
  ASSUME NEW m, NEW S, SimInv, InMemory(m, S), InBounds(m), m.snaps # <<>>, stored.snaps[MaxSnaps] = Absent
  PROVE  SavedSnaps(m)[MaxSnaps] = Absent
<1>1. m.snaps \in Seq(SnapT) /\ Len(m.snaps) \in DOMAIN m.snaps
  BY DEF InMemory
<1>2. m.snaps[Len(m.snaps)].seq < MaxSnaps /\ m.snaps[Len(m.snaps)] \in SnapT
  BY <1>1 DEF InBounds
<1>3. m.snaps[Len(m.snaps)].seq # MaxSnaps
  BY <1>2 DEF SnapT
<1>4. QED
  BY <1>3 DEF SavedSnaps, Last, SimInv

LEMMA SimBoundStep == ASSUME SimBound, [SimNext]_simVars PROVE SimBound'
<1>1. SimInv /\ SimInv'
  BY SimStep DEF SimBound
<1>2. InMemory(Loaded, stored.events) /\ InBounds(Loaded)
  BY <1>1, LoadedInMemory, LoadedInBounds
<1> DEFINE Numbers == mem # Absent \/ pending = "save" => InBounds(mem)
           Room == pending \in Injected => Len(Loaded.snaps) < MaxSnaps
           FlowT == flow \in [Flows -> [pc : {"none", "asked", "active", "ended"}, event : Injected \cup {Absent}]]
<1>3. SUFFICES /\ stored'.run \in BOOLEAN /\ stored'.snaps[MaxSnaps] = Absent /\ Numbers' /\ Room'
               /\ pending' \in {"none", "save"} \cup Injected /\ FlowT'
  BY <1>1 DEF SimBound
<1>4. /\ stored.run \in BOOLEAN /\ stored.snaps[MaxSnaps] = Absent /\ Numbers /\ Room
      /\ pending \in {"none", "save"} \cup Injected /\ FlowT
  BY DEF SimBound
<1> HIDE DEF FlowT
<1>5. CASE UNCHANGED simVars
  BY <1>4, <1>5 DEF simVars, Loaded, Rows, FlowT
<1>6. CASE CreateRun \/ Reset
  <2>1. /\ mem' = [snaps |-> <<Initial>>, events |-> {}] /\ pending' = "save" /\ UNCHANGED flow
        /\ stored' = [run |-> TRUE, snaps |-> NoSnaps, events |-> {}]
    BY <1>6 DEF CreateRun, Reset, Renew, Fresh
  <2>2. InBounds(mem')
    BY <2>1 DEF InBounds, Initial
  <2>3. NoSnaps[MaxSnaps] = Absent
    BY DEF NoSnaps
  <2>4. QED
    BY <1>4, <2>1, <2>2, <2>3 DEF FlowT
<1>7. CASE SaveSnapshot
  <2>1. /\ pending = "save" /\ pending' = "none" /\ UNCHANGED <<mem, flow>>
        /\ stored' = [stored EXCEPT !.snaps = SavedSnaps(mem)]
    BY <1>7 DEF SaveSnapshot
  <2>2. SavedSnaps(mem)[MaxSnaps] = Absent
    BY <1>1, <1>4, <2>1, SavedInBounds DEF SimInv
  <2>3. stored'.run = stored.run /\ stored'.snaps = SavedSnaps(mem)
    BY <1>1, <2>1 DEF SimInv
  <2>4. QED
    BY <1>4, <2>1, <2>2, <2>3 DEF FlowT
<1>8. ASSUME NEW e \in Injected, Inject(e)
      PROVE  /\ stored'.run \in BOOLEAN /\ stored'.snaps[MaxSnaps] = Absent /\ Numbers' /\ Room'
             /\ pending' \in {"none", "save"} \cup Injected /\ FlowT'
  <2>1. /\ Len(Loaded.snaps) < MaxSnaps /\ pending' = e /\ UNCHANGED <<mem, flow>>
        /\ stored' = [stored EXCEPT !.events = @ \cup {e}]
    BY <1>8 DEF Inject
  <2>2. stored'.run = stored.run /\ stored'.snaps = stored.snaps
    BY <1>1, <2>1 DEF SimInv
  <2>3. Rows' = Rows
    BY <2>2 DEF Rows
  <2>4. Loaded'.snaps = Loaded.snaps
    BY <2>1, <2>2, <2>3 DEF Loaded
  <2>5. QED
    BY <1>4, <2>1, <2>2, <2>4 DEF FlowT
<1>9. CASE Apply
  <2>1. pending \in Injected /\ pending' = "none" /\ UNCHANGED flow /\ Len(Loaded.snaps) < MaxSnaps
    BY <1>4, <1>9 DEF Apply
  <2>2. CASE Loaded.snaps = <<>>
    <3>1. mem' = Loaded /\ UNCHANGED stored
      BY <1>9, <2>2 DEF Apply
    <3>2. QED
      BY <1>2, <1>4, <2>1, <3>1 DEF FlowT
  <2>3. CASE Loaded.snaps # <<>>
    <3> DEFINE m == Appended(Loaded, pending, Loaded.events \cup {pending})
    <3>1. mem' = m /\ stored' = [stored EXCEPT !.snaps = SavedSnaps(m)]
      BY <1>9, <2>3 DEF Apply
    <3>2. InBounds(m)
      BY <1>2, <2>1, AppendedInBounds
    <3>3. InMemory(m, stored.events) /\ m.snaps # <<>>
      <4>1. pending \in stored.events /\ stored.events \subseteq Injected
        BY <1>1, <2>1 DEF SimInv
      <4>2. Loaded.events \cup {pending} \in SUBSET stored.events
        BY <1>2, <4>1 DEF InMemory
      <4>3. QED
        BY <1>2, <2>1, <2>3, <4>1, <4>2, AppendedInMemory
    <3> HIDE DEF m
    <3>4. SavedSnaps(m)[MaxSnaps] = Absent
      BY <1>1, <1>4, <3>2, <3>3, SavedInBounds
    <3>5. stored'.run = stored.run /\ stored'.snaps = SavedSnaps(m)
      BY <1>1, <3>1 DEF SimInv
    <3>6. QED
      BY <1>4, <2>1, <3>1, <3>2, <3>4, <3>5 DEF FlowT
  <2>4. QED
    BY <2>2, <2>3
<1>10. ASSUME NEW w \in Flows, NEW e \in Injected, AskWorkflow(w, e)
       PROVE  /\ stored'.run \in BOOLEAN /\ stored'.snaps[MaxSnaps] = Absent /\ Numbers' /\ Room'
              /\ pending' \in {"none", "save"} \cup Injected /\ FlowT'
  <2>1. /\ mem' = Loaded /\ pending = "none" /\ UNCHANGED <<stored, pending>>
        /\ flow' = [flow EXCEPT ![w] = [pc |-> "asked", event |-> e]]
    BY <1>10 DEF AskWorkflow, HandlerFree
  <2>2. FlowT'
    BY <1>4, <2>1 DEF FlowT
  <2>3. QED
    BY <1>2, <1>4, <2>1, <2>2
<1>11. ASSUME NEW w \in Flows, BeginWorkflow(w) \/ EndWorkflow(w)
       PROVE  /\ stored'.run \in BOOLEAN /\ stored'.snaps[MaxSnaps] = Absent /\ Numbers' /\ Room'
              /\ pending' \in {"none", "save"} \cup Injected /\ FlowT'
  <2>1. /\ pending = "none" /\ UNCHANGED <<stored, mem, pending>>
        /\ \E p \in {"active", "ended"} : flow' = [flow EXCEPT ![w].pc = p]
    BY <1>11 DEF BeginWorkflow, EndWorkflow, HandlerFree
  <2>2. FlowT'
    BY <1>4, <2>1 DEF FlowT
  <2>3. QED
    BY <1>4, <2>1, <2>2
<1>12. ASSUME NEW w \in Flows, Act(w)
       PROVE  /\ stored'.run \in BOOLEAN /\ stored'.snaps[MaxSnaps] = Absent /\ Numbers' /\ Room'
              /\ pending' \in {"none", "save"} \cup Injected /\ FlowT'
  <2>1. /\ mem' = Appended(Loaded, w, Loaded.events) /\ Len(Loaded.snaps) < MaxSnaps
        /\ pending = "none" /\ UNCHANGED <<stored, pending, flow>>
    BY <1>12 DEF Act, HandlerFree
  <2>2. InBounds(mem')
    BY <1>2, <2>1, AppendedInBounds
  <2>3. QED
    BY <1>4, <2>1, <2>2 DEF FlowT
<1>13. CASE SimCrash
  <2>1. /\ mem' = Absent /\ pending' = "none" /\ UNCHANGED stored
        /\ flow' = [w \in Flows |-> IF flow[w].pc = "asked" THEN [pc |-> "none", event |-> Absent]
                                                            ELSE flow[w]]
    BY <1>13 DEF SimCrash
  <2>2. FlowT'
    BY <1>4, <2>1 DEF FlowT
  <2>3. QED
    BY <1>4, <2>1, <2>2
<1>14. QED
  BY <1>5, <1>6, <1>7, <1>8, <1>9, <1>10, <1>11, <1>12, <1>13 DEF SimNext

(* The types of the rows, of what is held and of the workflows: a handler  *)
(* that was let in finds room for its snapshot when it comes to append.    *)
THEOREM SimTypes == SimSpec => []SimTypeOK
<1>1. SimInit => SimBound
  <2> SUFFICES ASSUME SimInit PROVE SimBound
    OBVIOUS
  <2>1. SimInv
    BY DEF SimInit, SimInv, NoSnaps
  <2>2. QED
    BY <2>1 DEF SimInit, SimBound, NoSnaps
<1>2. SimBound /\ [SimNext]_simVars => SimBound'
  BY SimBoundStep
<1>3. SimBound => SimTypeOK
  <2> SUFFICES ASSUME SimBound PROVE SimTypeOK
    OBVIOUS
  <2>1. ASSUME mem # Absent
        PROVE  Range(mem.snaps) \subseteq Snap /\ Len(mem.snaps) <= MaxSnaps /\ mem.events \subseteq Injected
    <3>1. InMemory(mem, stored.events) /\ InBounds(mem) /\ stored.events \subseteq Injected
      BY <2>1 DEF SimBound, SimInv
    <3>2. mem.snaps \in Seq(SnapT)
      BY <3>1 DEF InMemory
    <3>3. ASSUME NEW i \in DOMAIN mem.snaps PROVE mem.snaps[i] \in Snap
      <4>1. mem.snaps[i] \in SnapT /\ mem.snaps[i].seq < MaxSnaps
        BY <3>1, <3>2 DEF InBounds
      <4>2. QED
        BY <4>1 DEF SnapT, Snap
    <3>4. QED
      BY <3>1, <3>3 DEF InMemory, InBounds, Range
  <2>2. QED
    BY <2>1 DEF SimBound, SimInv, SimTypeOK
<1>4. QED
  BY <1>1, <1>2, <1>3, PTL DEF SimSpec

HIDE SimAssumption

-----------------------------------------------------------------------------
(* RunView                                                                 *)

USE ViewAssumption

(* A run belongs to the session under which it was submitted, which no     *)
(* later step changes; what the page lists and selects is of its session,  *)
(* and a stream brings events of the session it was started in.            *)
SessionInv ==
  /\ \A r \in Started : row[r] # "none" \/ sent[r] < 7 => sessionOf[r] # NoRun
  /\ \A r \in list : sessionOf[r] = session /\ sessionOf[r] # NoRun
  /\ wanted # NoRun => sessionOf[wanted] = session /\ session # NoRun
  /\ default # NoRun => sessionOf[default] = session /\ session # NoRun
  /\ stream # NoRun => /\ sessionOf[stream] # NoRun
                       /\ session # NoRun => session = sessionOf[stream]
  /\ listing => session # NoRun

(* The latest request counts only for the run that is selected, and its    *)
(* answer is the final row once the stream of that run has ended.          *)
LatestCounts ==
  live => /\ requests # <<>> /\ Last(requests).run = Selected
          /\ Selected \in followed => Last(requests).answer \in {"wait", row[Selected]}

(* A run whose stream has ended is shown as it is stored, unless its       *)
(* detail is being asked for.                                              *)
ShowsFollowed ==
  Selected \in followed /\ ~live /\ ~error => shown[Selected] = row[Selected]

(* A run whose stream has ended stays as it is stored.                     *)
StreamInv ==
  /\ \A r \in followed : sent[r] = 7 /\ sessionOf[r] # NoRun /\ r # stream
  /\ stream # NoRun => streaming \in {NoRun, stream}
  /\ wire # <<>> => stream # NoRun

ViewInv == ViewTypeOK /\ SessionInv /\ StreamInv /\ LatestCounts /\ ShowsFollowed

Request == [run : Started, answer : RunStatus \cup {"wait"}]

-----------------------------------------------------------------------------
(* Numbers and requests *)

LEMMA StartedIsNat == Started \subseteq Nat /\ NoRun \notin Started
<1>1. Cardinality(Started) \in Nat
  BY FS_CardinalityType
<1>2. QED
  BY <1>1 DEF NoRun

(* The latest of some runs. *)
LEMMA LatestExists ==
  ASSUME NEW listed, listed \subseteq Started, listed # {}
  PROVE  (CHOOSE r \in listed : \A q \in listed : q <= r) \in listed
<1> DEFINE n == Cardinality(Started)
           T == {n - r : r \in listed}
<1>1. n \in Nat /\ \A r \in listed : r \in Nat /\ r <= n
  BY FS_CardinalityType
<1> HIDE DEF n
<1>2. T \subseteq Nat /\ T # {}
  BY <1>1
<1>3. PICK r \in listed : \A t \in T : n - r <= t
  <2>1. PICK x \in T : \A y \in T : x <= y
    <3> HIDE DEF T
    <3>1. QED
      BY <1>2, SmallestExists
  <2>2. QED
    BY <2>1
<1>4. ASSUME NEW q \in listed PROVE q <= r
  <2>1. n - r <= n - q
    BY <1>3
  <2>2. QED
    BY <1>1, <2>1
<1>5. QED
  BY <1>4

LEMMA Removed ==
  ASSUME NEW S, NEW s \in Seq(S), NEW i \in DOMAIN s
  PROVE  /\ RemoveAt(s, i) \in Seq(S) /\ Len(RemoveAt(s, i)) <= Len(s)
         /\ i # Len(s) => RemoveAt(s, i) # <<>> /\ Last(RemoveAt(s, i)) = Last(s)
<1> DEFINE a == SubSeq(s, 1, i - 1)
           b == SubSeq(s, i + 1, Len(s))
<1>1. Len(s) \in Nat /\ i \in 1..Len(s)
  OBVIOUS
<1>2. a \in Seq(S) /\ Len(a) = i - 1
  BY <1>1
<1>3. b \in Seq(S) /\ Len(b) = Len(s) - i
  BY <1>1
<1>4. ASSUME i # Len(s) PROVE b[Len(b)] = s[Len(s)]
  <2>1. \A n \in Nat : i \in 1..n /\ i # n => n - i \in 1..(n - i) /\ (i + 1) + (n - i) - 1 = n
    OBVIOUS
  <2>2. \A j \in 1..(Len(s) - i) : b[j] = s[(i + 1) + j - 1]
    BY <1>1
  <2>3. QED
    BY <1>1, <1>3, <1>4, <2>1, <2>2
<1> HIDE DEF a, b
<1>5. /\ a \o b \in Seq(S) /\ Len(a \o b) = Len(s) - 1
      /\ Len(b) # 0 => (a \o b)[Len(a \o b)] = b[Len(b)]
  BY <1>1, <1>2, <1>3
<1>6. a \o b = <<>> => Len(a \o b) = 0
  OBVIOUS
<1>7. RemoveAt(s, i) = a \o b
  BY DEF RemoveAt, a, b
<1>8. QED
  BY <1>1, <1>3, <1>4, <1>5, <1>6, <1>7 DEF Last

LEMMA LatestRequest ==
  ASSUME NEW S, NEW s \in Seq(S), s # <<>>
  PROVE  Last(s) \in S /\ <<Last(s)>> \in Seq(S) /\ Len(s) \in DOMAIN s
BY DEF Last

(* A selection of the page is a run of it or none. *)
LEMMA SelectedIs == ASSUME ViewTypeOK PROVE Selected \in Maybe
BY DEF ViewTypeOK, Selected, Maybe

-----------------------------------------------------------------------------
(* The requests of a step *)

(* With Effect the detail of what is then selected is asked for, unless it *)
(* is the run that is streamed.                                            *)
LEMMA EffectKeeps ==
  ASSUME ViewTypeOK, Effect, Selected' \in Maybe, followed' \subseteq Started,
         stream' # NoRun => streaming' \in {NoRun, stream'}, stream' \notin followed'
  PROVE  /\ LatestCounts' /\ ShowsFollowed'
         /\ live' \in BOOLEAN /\ error' \in BOOLEAN
         /\ requests' \in Seq(Request) /\ Len(requests') <= 2
<1>1. requests \in Seq(Request) /\ Len(requests) <= 2 /\ NoRun \notin followed'
  BY StartedIsNat DEF ViewTypeOK, Request
<1>2. CASE Selected' = NoRun \/ (stream' # NoRun /\ Selected' = streaming')
  <2>1. live' = FALSE /\ error' = FALSE /\ requests' = requests
    BY <1>2 DEF Effect
  <2>2. Selected' \notin followed'
    BY <1>1, <1>2
  <2>3. QED
    BY <1>1, <2>1, <2>2 DEF LatestCounts, ShowsFollowed
<1>3. CASE ~(Selected' = NoRun \/ (stream' # NoRun /\ Selected' = streaming'))
  <2> DEFINE before == IF requests = <<>> THEN <<>> ELSE <<Last(requests)>>
             new == [run |-> Selected', answer |-> "wait"]
  <2>1. requests' = Append(before, new) /\ live' = TRUE /\ error' = FALSE
    BY <1>3 DEF Effect
  <2>2. before \in Seq(Request) /\ Len(before) <= 1
    BY <1>1, LatestRequest
  <2>3. Selected' \in Started
    BY <1>3 DEF Maybe
  <2>4. new \in Request /\ new.run = Selected' /\ new.answer = "wait"
    BY <2>3 DEF Request
  <2> HIDE DEF before, new
  <2>5. /\ Append(before, new) \in Seq(Request) /\ Len(Append(before, new)) <= 2
        /\ Append(before, new) # <<>> /\ Last(Append(before, new)) = new
    BY <2>2, <2>4 DEF Last
  <2>6. QED
    BY <2>1, <2>4, <2>5 DEF LatestCounts, ShowsFollowed
<1>4. QED
  BY <1>2, <1>3

(* Without it nothing that counts may change. *)
LEMMA QuietKeeps ==
  ASSUME LatestCounts, ShowsFollowed, UNCHANGED <<requests, live, error>>, Selected' = Selected,
         followed' = followed,
         \A r \in followed : row'[r] = row[r] /\ shown'[r] = shown[r]
  PROVE  LatestCounts' /\ ShowsFollowed'
BY DEF LatestCounts, ShowsFollowed

LEMMA Together ==
  ASSUME ViewTypeOK', SessionInv', StreamInv', LatestCounts' /\ ShowsFollowed' PROVE ViewInv'
BY DEF ViewInv

-----------------------------------------------------------------------------
(* Requests answered *)

LEMMA AnswerStep ==
  ASSUME ViewInv, NEW i \in DOMAIN requests, Answer(i) PROVE ViewInv'
<1> DEFINE q == requests[i]
           a == [q EXCEPT !.answer = row[q.run]]
<1>1. requests \in Seq(Request) /\ Len(requests) <= 2
  BY DEF ViewInv, ViewTypeOK, Request
<1>2. q \in Request
  BY <1>1
<1>3. a \in Request /\ a.run = q.run /\ a.answer = row[q.run]
  BY <1>2 DEF Request, ViewInv, ViewTypeOK
<1>4. requests' = [requests EXCEPT ![i] = a]
  BY DEF Answer
<1>5. UNCHANGED <<row, sent, sessionOf, wire, session, stream, streaming, wanted, default, list,
                 listing, shown, live, error, followed>>
  BY DEF Answer
<1> HIDE DEF a
<1>6. /\ requests' \in Seq(Request) /\ Len(requests') = Len(requests)
      /\ \A j \in DOMAIN requests : requests'[j] = IF j = i THEN a ELSE requests[j]
  BY <1>1, <1>3, <1>4
<1>7. ViewTypeOK'
  BY <1>1, <1>5, <1>6 DEF ViewInv, ViewTypeOK, Request
<1>8. SessionInv' /\ StreamInv'
  BY <1>5 DEF ViewInv, SessionInv, StreamInv
<1>9. Selected' = Selected
  BY <1>5 DEF Selected
<1>10. LatestCounts'
  <2>1. SUFFICES ASSUME live PROVE LatestCounts'
    BY <1>5 DEF LatestCounts
  <2>2. /\ requests # <<>> /\ Last(requests).run = Selected
        /\ Selected \in followed => Last(requests).answer \in {"wait", row[Selected]}
    BY <2>1 DEF ViewInv, LatestCounts
  <2>3. Len(requests) \in DOMAIN requests /\ requests' # <<>>
    BY <1>1, <1>6, <2>2
  <2>4. Last(requests') = IF Len(requests) = i THEN a ELSE Last(requests)
    BY <1>6, <2>3 DEF Last
  <2>5. Len(requests) = i => q = Last(requests)
    BY DEF Last
  <2>6. QED
    BY <1>3, <1>5, <1>9, <2>2, <2>3, <2>4, <2>5 DEF LatestCounts
<1>11. ShowsFollowed'
  BY <1>5, <1>9 DEF ViewInv, ShowsFollowed
<1>12. QED
  BY <1>7, <1>8, <1>10, <1>11 DEF ViewInv

LEMMA ArriveStep ==
  ASSUME ViewInv, NEW i \in DOMAIN requests, NEW fails \in BOOLEAN, Arrive(i, fails) PROVE ViewInv'
<1> DEFINE q == requests[i]
           found == ~fails /\ q.answer # "none"
<1>1. requests \in Seq(Request) /\ Len(requests) <= 2 /\ shown \in [Started -> RunStatus]
  BY DEF ViewInv, ViewTypeOK, Request
<1>2. q \in Request /\ q.run \in Started
  <2>1. q \in Request
    BY <1>1
  <2>2. QED
    BY <2>1 DEF Request
<1>3. requests' \in Seq(Request) /\ Len(requests') <= 2
      /\ (i # Len(requests) => requests' # <<>> /\ Last(requests') = Last(requests))
  <2>1. requests' = RemoveAt(requests, i)
    BY DEF Arrive
  <2>2. Len(RemoveAt(requests, i)) \in Nat
    BY <1>1, Removed
  <2>3. QED
    BY <1>1, <2>1, <2>2, Removed
<1>4. /\ UNCHANGED <<row, sent, sessionOf, wire, session, stream, streaming, wanted, default, list,
                     listing, followed>>
      /\ Selected' = Selected
  BY DEF Arrive, Selected
<1>5. CASE Accepts(i)
  <2>1. /\ live' = FALSE /\ error' = ~found
        /\ shown' = IF found THEN [shown EXCEPT ![q.run] = q.answer] ELSE shown
    BY <1>5 DEF Arrive
  <2>2. /\ q = Last(requests) /\ q.run = Selected
        /\ Selected \in followed => q.answer \in {"wait", row[Selected]}
    BY <1>5 DEF ViewInv, Accepts, LatestCounts, Last
  <2>3. found => q.answer # "wait" /\ q.answer \in RunStatus
    BY <1>2 DEF Arrive, Request
  <2>4. shown' \in [Started -> RunStatus]
    BY <1>1, <1>2, <2>1, <2>3
  <2>5. ShowsFollowed'
    <3>1. CASE found
      BY <1>1, <1>2, <1>4, <2>1, <2>2, <2>3, <3>1 DEF ShowsFollowed
    <3>2. CASE ~found
      BY <2>1, <3>2 DEF ShowsFollowed
    <3>3. QED
      BY <3>1, <3>2
  <2>6. ViewTypeOK'
    BY <1>3, <1>4, <2>1, <2>4 DEF ViewInv, ViewTypeOK, Request
  <2>7. QED
    BY <1>4, <2>1, <2>5, <2>6 DEF ViewInv, SessionInv, StreamInv, LatestCounts
<1>6. CASE ~Accepts(i)
  <2>1. UNCHANGED <<live, error, shown>>
    BY <1>6 DEF Arrive
  <2>2. ViewTypeOK'
    BY <1>3, <1>4, <2>1 DEF ViewInv, ViewTypeOK, Request
  <2>3. LatestCounts'
    BY <1>3, <1>4, <1>6, <2>1 DEF ViewInv, LatestCounts, Accepts
  <2>4. QED
    BY <1>4, <2>1, <2>2, <2>3 DEF ViewInv, SessionInv, StreamInv, ShowsFollowed
<1>7. QED
  BY <1>5, <1>6

-----------------------------------------------------------------------------
(* The user *)

LEMMA SubmitStep == ASSUME ViewInv, NEW r \in Started, Submit(r) PROVE ViewInv'
<1> DEFINE s == IF session = NoRun THEN r ELSE session
           n == IF session = NoRun THEN 0 ELSE 1
<1>1. /\ sessionOf[r] = NoRun /\ stream = NoRun
      /\ sessionOf' = [sessionOf EXCEPT ![r] = s] /\ sent' = [sent EXCEPT ![r] = n]
      /\ stream' = r /\ streaming' = NoRun /\ wire' = <<>>
      /\ Effect /\ UNCHANGED <<wanted, default, row, session, list, listing, shown, followed>>
  BY DEF Submit
<1>2. s \in Maybe /\ s # NoRun /\ n \in 0..7 /\ r # NoRun
  BY StartedIsNat DEF ViewInv, ViewTypeOK, Maybe
<1>3. Selected' = Selected /\ r \notin followed
  BY <1>1 DEF Selected, ViewInv, StreamInv
<1> HIDE DEF n
<1>4. /\ LatestCounts' /\ ShowsFollowed' /\ live' \in BOOLEAN /\ error' \in BOOLEAN
      /\ requests' \in Seq(Request) /\ Len(requests') <= 2
  BY <1>1, <1>3, EffectKeeps, SelectedIs DEF ViewInv, ViewTypeOK
<1>5. ViewTypeOK'
  BY <1>1, <1>2, <1>4 DEF ViewInv, ViewTypeOK, Request, Maybe
<1>6. /\ sessionOf'[r] = s /\ sent'[r] = n
      /\ \A q \in Started : q # r => sessionOf'[q] = sessionOf[q] /\ sent'[q] = sent[q]
  BY <1>1 DEF ViewInv, ViewTypeOK
<1>7. SessionInv'
  BY <1>1, <1>2, <1>6 DEF ViewInv, ViewTypeOK, SessionInv, Maybe
<1>8. StreamInv'
  BY <1>1, <1>2, <1>3, <1>6 DEF ViewInv, ViewTypeOK, StreamInv
<1>9. QED
  BY <1>4, <1>5, <1>7, <1>8 DEF ViewInv

LEMMA SelectStep == ASSUME ViewInv, NEW r \in Started, Select(r) PROVE ViewInv'
<1>1. /\ r \in list /\ wanted' = r /\ Effect
      /\ UNCHANGED <<default, stream, streaming, row, sent, sessionOf, wire, session, list, listing,
                     shown, followed>>
  BY DEF Select
<1>2. Selected' = r /\ r \in Maybe
  BY <1>1, StartedIsNat DEF Selected, Maybe
<1>3. /\ LatestCounts' /\ ShowsFollowed' /\ live' \in BOOLEAN /\ error' \in BOOLEAN
      /\ requests' \in Seq(Request) /\ Len(requests') <= 2
  BY <1>1, <1>2, EffectKeeps DEF ViewInv, ViewTypeOK, StreamInv
<1>4. ViewTypeOK'
  BY <1>1, <1>2, <1>3 DEF ViewInv, ViewTypeOK, Request
<1>5. SessionInv' /\ StreamInv'
  BY <1>1 DEF ViewInv, SessionInv, StreamInv
<1>6. QED
  BY <1>3, <1>4, <1>5 DEF ViewInv

LEMMA SwitchStep == ASSUME ViewInv, NEW s \in Maybe, Switch(s) PROVE ViewInv'
<1>1. /\ session' = s /\ wanted' = NoRun /\ default' = NoRun /\ stream' = NoRun /\ wire' = <<>>
      /\ list' = {} /\ listing' = (s # NoRun) /\ shown' = [r \in Started |-> "none"] /\ Effect
      /\ UNCHANGED <<streaming, row, sent, sessionOf, followed>>
  BY DEF Switch
<1>2. Selected' = NoRun /\ NoRun \in Maybe /\ NoRun \notin followed
  BY <1>1, StartedIsNat DEF Selected, Maybe, ViewInv, ViewTypeOK
<1>3. /\ LatestCounts' /\ ShowsFollowed' /\ live' \in BOOLEAN /\ error' \in BOOLEAN
      /\ requests' \in Seq(Request) /\ Len(requests') <= 2
  BY <1>1, <1>2, EffectKeeps DEF ViewInv, ViewTypeOK
<1>4. ViewTypeOK'
  BY <1>1, <1>2, <1>3 DEF ViewInv, ViewTypeOK, Request, RunStatus
<1>5. SessionInv' /\ StreamInv'
  BY <1>1, <1>2, StartedIsNat DEF ViewInv, SessionInv, StreamInv, ViewTypeOK
<1>6. QED
  BY <1>3, <1>4, <1>5 DEF ViewInv

LEMMA RunsListedStep == ASSUME ViewInv, RunsListed PROVE ViewInv'
<1> DEFINE listed == {r \in Started : sessionOf[r] = session /\ row[r] # "none"}
           d == IF listed = {} THEN NoRun ELSE CHOOSE r \in listed : \A q \in listed : q <= r
<1>1. /\ listing /\ list' = listed /\ default' = d /\ listing' = FALSE
      /\ UNCHANGED <<wanted, stream, streaming, row, sent, sessionOf, wire, session, shown, followed>>
      /\ IF Selected' = Selected THEN UNCHANGED <<requests, live, error>> ELSE Effect
  BY DEF RunsListed
<1>2. d = NoRun \/ d \in listed
  <2>1. listed \subseteq Started
    OBVIOUS
  <2> HIDE DEF listed
  <2>2. QED
    BY <2>1, LatestExists
<1>3. listed \subseteq Started /\ \A r \in listed : sessionOf[r] = session
  OBVIOUS
<1> HIDE DEF listed, d
<1>4. d \in Maybe /\ session # NoRun
  BY <1>1, <1>2, <1>3 DEF Maybe, ViewInv, SessionInv
<1>5. Selected' \in Maybe
  BY <1>1, <1>4 DEF Selected, ViewInv, ViewTypeOK
<1>6. /\ LatestCounts' /\ ShowsFollowed' /\ live' \in BOOLEAN /\ error' \in BOOLEAN
      /\ requests' \in Seq(Request) /\ Len(requests') <= 2
  <2>1. CASE Selected' = Selected
    <3>1. LatestCounts' /\ ShowsFollowed'
      BY <1>1, <2>1, QuietKeeps DEF ViewInv
    <3>2. QED
      BY <1>1, <2>1, <3>1 DEF ViewInv, ViewTypeOK, Request
  <2>2. CASE Selected' # Selected
    BY <1>1, <1>5, <2>2, EffectKeeps DEF ViewInv, ViewTypeOK, StreamInv
  <2>3. QED
    BY <2>1, <2>2
<1>7. ViewTypeOK'
  BY <1>1, <1>3, <1>4, <1>6 DEF ViewInv, ViewTypeOK, Request
<1>8. SessionInv' /\ StreamInv'
  BY <1>1, <1>2, <1>3, <1>4 DEF ViewInv, SessionInv, StreamInv
<1>9. QED
  BY <1>6, <1>7, <1>8 DEF ViewInv

-----------------------------------------------------------------------------
(* The server *)

(* Steps of the server change the row of a run whose stream has not ended, *)
(* and the page not at all.                                                *)
LEMMA ServerKeeps ==
  ASSUME ViewInv, NEW r \in Started, sent[r] < 7, UNCHANGED <<sessionOf, pageVars>>,
         NEW s \in RunStatus, row' = [row EXCEPT ![r] = s] \/ row' = row,
         NEW n \in 0..7, sent' = [sent EXCEPT ![r] = n],
         wire' \in Seq(Event), Len(wire') <= MaxWire, wire' # <<>> => stream # NoRun
  PROVE  ViewInv'
<1>1. UNCHANGED <<session, stream, streaming, wanted, default, list, listing, shown, requests, live,
                  error, followed>>
  BY DEF pageVars
<1>2. sessionOf[r] # NoRun /\ r \notin followed
  BY DEF ViewInv, SessionInv, StreamInv
<1>3. /\ row' \in [Started -> RunStatus] /\ sent' \in [Started -> 0..7]
      /\ \A q \in Started : q # r => row'[q] = row[q] /\ sent'[q] = sent[q]
  BY DEF ViewInv, ViewTypeOK
<1>4. ViewTypeOK'
  BY <1>1, <1>3 DEF ViewInv, ViewTypeOK
<1>5. SessionInv'
  BY <1>1, <1>2, <1>3 DEF ViewInv, SessionInv
<1>6. StreamInv'
  BY <1>1, <1>2, <1>3 DEF ViewInv, ViewTypeOK, StreamInv
<1>7. Selected' = Selected /\ followed \subseteq Started
  BY <1>1 DEF Selected, ViewInv, ViewTypeOK
<1>8. LatestCounts' /\ ShowsFollowed'
  BY <1>1, <1>2, <1>3, <1>7, QuietKeeps DEF ViewInv
<1>9. QED
  BY <1>4, <1>5, <1>6, <1>8 DEF ViewInv

LEMMA Sends ==
  ASSUME ViewInv, NEW r \in Started, NEW e \in Event, Send(r, e)
  PROVE  wire' \in Seq(Event) /\ Len(wire') <= MaxWire /\ stream # NoRun
<1>1. wire \in Seq(Event) /\ wire' = Append(wire, e) /\ Len(wire) < MaxWire /\ r = stream
  BY DEF Send, ViewInv, ViewTypeOK
<1>2. QED
  BY <1>1, StartedIsNat

LEMMA EventsAre ==
  /\ Len(Script) = 5 /\ \A i \in 1..5 : Script[i] \in Event
  /\ {"run_completed", "run_failed", "run_rejected", "fallback_started"} \subseteq Event
  /\ {"none", "created", "completed", "failed"} \subseteq RunStatus
<1>1. Len(Script) = 5 /\ DOMAIN Script = 1..5
  BY DEF Script
<1>2. QED
  BY <1>1 DEF Event, RunStatus

LEMMA EmitStep == ASSUME ViewInv, NEW r \in Started, Emit(r) PROVE ViewInv'
<1>1. sent[r] \in 0..7 /\ row[r] \in RunStatus
  BY DEF ViewInv, ViewTypeOK
<1>2. sent[r] < 5 /\ Script[sent[r] + 1] \in Event
  BY <1>1, EventsAre DEF Emit
<1>3. wire' \in Seq(Event) /\ Len(wire') <= MaxWire /\ stream # NoRun
  BY <1>2, Sends DEF Emit
<1>4. /\ sent' = [sent EXCEPT ![r] = sent[r] + 1] /\ sent[r] + 1 \in 0..7 /\ sent[r] < 7
      /\ row' = [row EXCEPT ![r] = "created"] \/ row' = row
      /\ UNCHANGED <<sessionOf, pageVars>>
  BY <1>1, <1>2 DEF Emit
<1>5. QED
  BY <1>3, <1>4, EventsAre, ServerKeeps

LEMMA EndRunStep ==
  ASSUME ViewInv, NEW r \in Started, NEW outcome \in {"completed", "failed"}, EndRun(r, outcome)
  PROVE  ViewInv'
<1> DEFINE e == IF outcome = "completed" THEN "run_completed" ELSE "run_failed"
<1>1. e \in Event /\ outcome \in RunStatus
  BY EventsAre
<1>2. /\ Send(r, e) /\ sent' = [sent EXCEPT ![r] = 6] /\ sent[r] < 7 /\ 6 \in 0..7
      /\ row' = [row EXCEPT ![r] = outcome] /\ UNCHANGED <<sessionOf, pageVars>>
  BY DEF EndRun
<1> HIDE DEF e
<1>3. QED
  BY <1>1, <1>2, Sends, ServerKeeps

LEMMA RaiseStep == ASSUME ViewInv, NEW r \in Started, Raise(r) PROVE ViewInv'
<1>1. \/ Send(r, "run_rejected") /\ row' = row
      \/ Send(r, "fallback_started") /\ row' = [row EXCEPT ![r] = "failed"]
  BY DEF Raise
<1>2. wire' \in Seq(Event) /\ Len(wire') <= MaxWire /\ stream # NoRun
  BY <1>1, Sends, EventsAre
<1>3. sent' = [sent EXCEPT ![r] = 6] /\ sent[r] < 7 /\ 6 \in 0..7 /\ UNCHANGED <<sessionOf, pageVars>>
  BY DEF Raise
<1>4. QED
  BY <1>1, <1>2, <1>3, EventsAre, ServerKeeps

LEMMA CloseStep == ASSUME ViewInv, NEW r \in Started, Close(r) PROVE ViewInv'
<1>1. /\ sent[r] < 7 /\ sent' = [sent EXCEPT ![r] = 7] /\ 7 \in 0..7
      /\ UNCHANGED <<row, sessionOf, wire, pageVars>>
  BY DEF Close
<1>2. wire \in Seq(Event) /\ Len(wire) <= MaxWire /\ (wire # <<>> => stream # NoRun)
  BY DEF ViewInv, ViewTypeOK, StreamInv
<1>3. QED
  BY <1>1, <1>2, EventsAre, ServerKeeps

LEMMA GuardStep == ASSUME ViewInv, NEW r \in Started, Guard(r) PROVE ViewInv'
<1>1. /\ sent[r] < 7 /\ sent' = [sent EXCEPT ![r] = 7] /\ 7 \in 0..7
      /\ UNCHANGED <<sessionOf, wire, pageVars>>
      /\ row' = row \/ \E s \in {"completed", "failed"} : row' = [row EXCEPT ![r] = s]
  BY DEF Guard
<1>2. wire \in Seq(Event) /\ Len(wire) <= MaxWire /\ (wire # <<>> => stream # NoRun)
  BY DEF ViewInv, ViewTypeOK, StreamInv
<1>3. QED
  BY <1>1, <1>2, EventsAre, ServerKeeps

-----------------------------------------------------------------------------
(* The stream *)

LEMMA ReducedIs == ASSUME NEW status \in RunStatus, NEW e PROVE Reduced(status, e) \in RunStatus
BY DEF Reduced, EndedAs, RunStatus

(* An event brings the session of its stream, and the run of the stream    *)
(* with it.                                                                *)
LEMMA DeliverStep == ASSUME ViewInv, NEW split \in BOOLEAN, Deliver(split) PROVE ViewInv'
<1> DEFINE e == Head(wire)
           base == IF shown[stream] = "none" THEN "created" ELSE shown[stream]
           status == IF ~split THEN Reduced(base, e) ELSE base
           named == \/ ~split /\ e = "session_created"
                    \/ e \in {"memory_recall_started", "run_created"}
           made == ~split /\ e = "run_created"
<1>1. wire # <<>> /\ wire \in Seq(Event) /\ Len(wire) <= MaxWire /\ stream \in Started
      /\ shown \in [Started -> RunStatus]
  BY DEF Deliver, ViewInv, ViewTypeOK, StreamInv, Maybe
<1>2. status \in RunStatus
  <2>1. base \in RunStatus
    BY <1>1, EventsAre
  <2> HIDE DEF base
  <2>2. QED
    BY <2>1, ReducedIs
<1>3. /\ wire' = Tail(wire) /\ session' = IF named THEN sessionOf[stream] ELSE session
      /\ shown' = IF e \in NamedEvents THEN [shown EXCEPT ![stream] = status] ELSE shown
      /\ IF made THEN /\ streaming' = stream /\ wanted' = stream /\ default' = stream
                      /\ list' = list \cup {stream}
                 ELSE UNCHANGED <<streaming, wanted, default, list>>
      /\ Effect \/ (Selected' = Selected /\ UNCHANGED <<requests, live, error>>)
      /\ UNCHANGED <<stream, row, sent, sessionOf, listing, followed>>
  BY DEF Deliver
<1>4. made => named
  OBVIOUS
<1> HIDE DEF e, status, named, made
<1>5. /\ sessionOf[stream] # NoRun /\ sessionOf[stream] \in Maybe
      /\ session # NoRun => session = sessionOf[stream]
      /\ stream # NoRun /\ stream \in Maybe /\ stream \notin followed
  BY <1>1, StartedIsNat DEF ViewInv, SessionInv, StreamInv, ViewTypeOK, Maybe
<1>6. Tail(wire) \in Seq(Event) /\ Len(Tail(wire)) <= MaxWire
  BY <1>1
<1>7. shown' \in [Started -> RunStatus] /\ \A r \in followed : shown'[r] = shown[r]
  <2>1. followed \subseteq Started
    BY DEF ViewInv, ViewTypeOK
  <2>2. QED
    BY <1>1, <1>2, <1>3, <1>5, <2>1
<1>8. /\ streaming' \in Maybe /\ wanted' \in Maybe /\ default' \in Maybe /\ session' \in Maybe
      /\ list' \subseteq Started /\ streaming' \in {NoRun, stream}
  BY <1>1, <1>3, <1>5 DEF ViewInv, ViewTypeOK, StreamInv
<1>9. Selected' \in Maybe
  BY <1>8 DEF Selected
<1>10. /\ LatestCounts' /\ ShowsFollowed' /\ live' \in BOOLEAN /\ error' \in BOOLEAN
       /\ requests' \in Seq(Request) /\ Len(requests') <= 2
  <2>1. CASE Effect
    BY <1>3, <1>5, <1>8, <1>9, <2>1, EffectKeeps DEF ViewInv, ViewTypeOK
  <2>2. CASE Selected' = Selected /\ UNCHANGED <<requests, live, error>>
    <3>1. LatestCounts' /\ ShowsFollowed'
      BY <1>3, <1>7, <2>2, QuietKeeps DEF ViewInv
    <3>2. QED
      BY <2>2, <3>1 DEF ViewInv, ViewTypeOK, Request
  <2>3. QED
    BY <1>3, <2>1, <2>2
<1>11. ViewTypeOK'
  BY <1>3, <1>6, <1>7, <1>8, <1>10 DEF ViewInv, ViewTypeOK, Request
<1>12. SessionInv'
  <2>1. session # NoRun => session' = session
    BY <1>3, <1>5
  <2>2. made => session' = sessionOf[stream] /\ session' # NoRun
    BY <1>3, <1>4, <1>5
  <2>3. \A r \in list : session # NoRun
    BY DEF ViewInv, SessionInv
  <2>4. \A r \in list' : sessionOf[r] = session' /\ sessionOf[r] # NoRun
    BY <1>3, <1>5, <2>1, <2>2, <2>3 DEF ViewInv, SessionInv
  <2>5. /\ wanted' # NoRun => sessionOf[wanted'] = session' /\ session' # NoRun
        /\ default' # NoRun => sessionOf[default'] = session' /\ session' # NoRun
    BY <1>3, <1>5, <2>1, <2>2 DEF ViewInv, SessionInv
  <2>6. (session' # NoRun => session' = sessionOf[stream]) /\ (listing => session' # NoRun)
    BY <1>3, <1>5 DEF ViewInv, SessionInv
  <2>7. QED
    BY <1>3, <1>5, <2>4, <2>5, <2>6 DEF ViewInv, SessionInv
<1>13. StreamInv'
  BY <1>3, <1>5, <1>8 DEF ViewInv, StreamInv
<1>14. QED
  BY <1>10, <1>11, <1>12, <1>13 DEF ViewInv

LEMMA EndsStep == ASSUME ViewInv, Ends PROVE ViewInv'
<1>1. /\ stream # NoRun /\ wire = <<>> /\ sent[stream] = 7
      /\ followed' = followed \cup {stream} /\ stream' = NoRun /\ Effect
      /\ UNCHANGED <<streaming, wanted, default, row, sent, sessionOf, wire, session, list, listing,
                     shown>>
  BY DEF Ends
<1>2. stream \in Started /\ NoRun \notin Started /\ NoRun \in Maybe
  BY <1>1, StartedIsNat DEF ViewInv, ViewTypeOK, Maybe
<1>3. followed' \subseteq Started /\ Selected' = Selected
  BY <1>1, <1>2 DEF Selected, ViewInv, ViewTypeOK
<1>4. /\ LatestCounts' /\ ShowsFollowed' /\ live' \in BOOLEAN /\ error' \in BOOLEAN
      /\ requests' \in Seq(Request) /\ Len(requests') <= 2
  BY <1>1, <1>2, <1>3, EffectKeeps, SelectedIs DEF ViewInv
<1>5. ViewTypeOK'
  BY <1>1, <1>2, <1>3, <1>4 DEF ViewInv, ViewTypeOK, Request
<1>6. SessionInv' /\ StreamInv'
  BY <1>1, <1>2, <1>3 DEF ViewInv, SessionInv, StreamInv
<1>7. QED
  BY <1>4, <1>5, <1>6 DEF ViewInv

LEMMA BreaksStep == ASSUME ViewInv, NEW dies \in BOOLEAN, Breaks(dies) PROVE ViewInv'
<1>1. /\ sent' = IF dies THEN [r \in Started |-> 7] ELSE sent
      /\ stream' = NoRun /\ wire' = <<>> /\ Effect
      /\ UNCHANGED <<streaming, wanted, default, row, sessionOf, session, list, listing, shown, followed>>
  BY DEF Breaks
<1>2. NoRun \notin followed /\ NoRun \in Maybe /\ Selected' = Selected
  BY <1>1, StartedIsNat DEF Selected, ViewInv, ViewTypeOK, Maybe
<1>3. /\ LatestCounts' /\ ShowsFollowed' /\ live' \in BOOLEAN /\ error' \in BOOLEAN
      /\ requests' \in Seq(Request) /\ Len(requests') <= 2
  BY <1>1, <1>2, EffectKeeps, SelectedIs DEF ViewInv, ViewTypeOK
<1>4. sent' \in [Started -> 0..7] /\ \A r \in Started : sent'[r] = sent[r] \/ sent'[r] = 7
  BY <1>1 DEF ViewInv, ViewTypeOK
<1>5. ViewTypeOK'
  BY <1>1, <1>2, <1>3, <1>4 DEF ViewInv, ViewTypeOK, Request
<1>6. SessionInv'
  BY <1>1, <1>4 DEF ViewInv, SessionInv
<1>7. StreamInv'
  BY <1>1, <1>2, <1>4 DEF ViewInv, ViewTypeOK, StreamInv
<1>8. QED
  BY <1>3, <1>5, <1>6, <1>7 DEF ViewInv

LEMMA ViewStep == ASSUME ViewInv, [ViewNext]_viewVars PROVE ViewInv'
<1>1. CASE UNCHANGED viewVars
  BY <1>1 DEF viewVars, pageVars, ViewInv, ViewTypeOK, SessionInv, StreamInv, LatestCounts,
     ShowsFollowed, Selected
<1>2. CASE ViewNext
  BY <1>2, SubmitStep, SelectStep, SwitchStep, RunsListedStep, EmitStep, EndRunStep, RaiseStep,
     CloseStep, GuardStep, AnswerStep, ArriveStep, DeliverStep, EndsStep, BreaksStep DEF ViewNext
<1>3. QED
  BY <1>1, <1>2

(* What is selected is of the session shown, a request counts only for     *)
(* what is selected, and a run whose stream has ended is shown as stored.  *)
THEOREM ViewInvariant == ViewSpec => []ViewInv
<1>1. ASSUME ViewInit PROVE ViewInv
  <2>1. wire = <<>> /\ wire \in Seq(Event) /\ Len(wire) <= MaxWire
    BY <1>1 DEF ViewInit
  <2>2. requests \in Seq(Request) /\ Len(requests) <= 2
    BY <1>1 DEF ViewInit
  <2>7. /\ row \in [Started -> RunStatus] /\ shown \in [Started -> RunStatus]
        /\ sent \in [Started -> 0..7] /\ sessionOf \in [Started -> Maybe]
    BY <1>1 DEF ViewInit, Maybe, RunStatus
  <2>8. /\ {session, stream, streaming, wanted, default} \subseteq Maybe
        /\ list \subseteq Started /\ followed \subseteq Started
        /\ {listing, live, error} \subseteq BOOLEAN
    BY <1>1 DEF ViewInit, Maybe
  <2>3. ViewTypeOK
    BY <2>1, <2>2, <2>7, <2>8 DEF ViewTypeOK, Request
  <2>4. SessionInv /\ StreamInv
    BY <1>1 DEF ViewInit, SessionInv, StreamInv
  <2>5. LatestCounts /\ ShowsFollowed
    BY <1>1 DEF ViewInit, LatestCounts, ShowsFollowed
  <2>6. QED
    BY <2>3, <2>4, <2>5 DEF ViewInv
<1>2. ViewInv /\ [ViewNext]_viewVars => ViewInv'
  BY ViewStep
<1>3. QED
  BY <1>1, <1>2, PTL DEF ViewSpec

(* Whatever is cut in two, lost or late, at rest the page shows the run of *)
(* the session selected as it is stored.                                   *)
THEOREM ViewIsTrueAtRest == ViewSpec => []ViewAtRest
<1>1. ViewInv => ViewAtRest
  BY DEF ViewInv, SessionInv, ShowsFollowed, ViewAtRest, Selected
<1>2. QED
  BY <1>1, ViewInvariant, PTL

HIDE ViewAssumption

-----------------------------------------------------------------------------
(* The composed run of the services *)

(* A step of the whole is one of a part, and the others stay as they are.  *)
LEMMA ServiceSteps ==
  ASSUME [MCNext]_all
  PROVE  /\ [RegionalNext]_regionalVars /\ [WaitNext]_waitVars /\ [IndexNext]_indexVars
         /\ [CollabNext]_collabVars /\ [MemoryNext]_memoryVars /\ [SimNext]_simVars
         /\ [ViewNext]_viewVars /\ [DefNext]_defVars
<1>1. CASE UNCHANGED all
  BY <1>1 DEF all
<1>2. CASE WaitStep /\ WaitNext
  BY <1>2 DEF WaitStep
<1>3. CASE MCNext /\ ~(WaitStep /\ WaitNext)
  BY <1>3 DEF MCNext
<1>4. QED
  BY <1>1, <1>2, <1>3

(* Every service of the composed run behaves as its own specification      *)
(* says, so what is proved of each holds in the run.                       *)
THEOREM ServicesRunTheirParts ==
  MCSpec => RegionalSpec /\ WaitSafety /\ IndexSpec /\ CollabSpec /\ MemorySpec /\ SimSpec
            /\ ViewSpec /\ DefSpec
<1>1. MCInit => /\ RegionalInit /\ WaitInit /\ IndexInit /\ CollabInit /\ MemoryInit /\ SimInit
                /\ ViewInit /\ DefInit
  BY DEF MCInit
<1>2. [MCNext]_all => /\ [RegionalNext]_regionalVars /\ [WaitNext]_waitVars /\ [IndexNext]_indexVars
                      /\ [CollabNext]_collabVars /\ [MemoryNext]_memoryVars /\ [SimNext]_simVars
                      /\ [ViewNext]_viewVars /\ [DefNext]_defVars
  BY ServiceSteps
<1>3. QED
  BY <1>1, <1>2, PTL DEF MCSpec, RegionalSpec, WaitSafety, IndexSpec, CollabSpec, MemorySpec,
     SimSpec, ViewSpec, DefSpec

(* One server process: the types of all services of the composed run.      *)
THEOREM ServicesTypes == ASSUME OneServer PROVE MCSpec => []TypesOK
<1>1. IndexSpec => []IndexTypeOK
  BY IndexTypeInit, IndexTypeStep, PTL DEF IndexSpec
<1>2. ViewInv => ViewTypeOK
  BY DEF ViewInv
<1>3. /\ RegionalTypeOK /\ WaitTypeOK /\ IndexTypeOK /\ CollabTypeOK /\ MemoryTypeOK /\ SimTypeOK
      /\ ViewTypeOK /\ DefTypeOK
      => TypesOK
  BY DEF TypesOK
<1>4. DefSpec => [](DefTypeOK /\ DefInv)
  BY DefInvariant
<1>5. QED
  BY <1>1, <1>2, <1>3, <1>4, ServicesRunTheirParts, RegionalTypes, WaitTypes, CollabInvariant,
     MemoryTypes, SimTypes, ViewInvariant, PTL

(* One server process, and a timer last on its path: whatever is checked   *)
(* of the composed run in every state holds for every value of the         *)
(* constants.                                                              *)
THEOREM ServicesAreSafe ==
  ASSUME OneServer PROVE
    TimerIsLast /\ MCSpec =>
      [](/\ TypesOK /\ WokenInTime /\ ActiveIsSearchable /\ RunEndsInOrder /\ MemoryIsConsistent
         /\ ViewAtRest /\ DefinitionsHold /\ NameIsUnambiguous /\ BindingInRegion /\ HistoryIsWhole)
<1>1. MCSpec => []TypesOK
  BY ServicesTypes
<1>2. DefSpec => []DefinitionsHold
  BY DefinitionsAreHeld
<1>3. QED
  BY <1>1, <1>2, ServicesRunTheirParts, WakesInTime, IndexIsComplete, RunsEndInOrder,
     MemoryConsistent, ViewIsTrueAtRest, NamesResolve, BindingsHold, HistoryStaysWhole, PTL
================================================================================
