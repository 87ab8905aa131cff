-------------------------------- MODULE Memory --------------------------------
(***************************************************************************)
(* The long-term memory of one chat session (memory/coordinator.py): event *)
(* threads, the recall at the start of a run and the gated write at its    *)
(* end.  Each of them runs without an await, so the runs of a session      *)
(* interleave between the two; the process may die between the two commits *)
(* of a recall that opens a new thread.                                    *)
(***************************************************************************)
EXTENDS Naturals, FiniteSets

CONSTANTS Runs, NoThread,  \* a thread is named by the run that started it
          Values, NoRoad    \* what a message says of road.name

Types == {"fact", "goal", "correction", "summary"}
Source == [parser |-> 20, fusion |-> 60, user |-> 80, correction |-> 100]
Intents == {"fresh", "continue", "query", "ambiguous"}
Threads == Runs \cup {NoThread}

VARIABLES items,     \* memory_items of the session
          thread,    \* status of memory_event_threads
          current,   \* memory_session_states.active_event_thread_id
          memoryRun \* the streams of the session
memoryVars == <<items, thread, current, memoryRun>>

Item == [type : Types, val : Values \cup Runs, source : DOMAIN Source,
         status : {"live", "superseded"}, thread : Threads, from : Runs]
MemoryRun == [pc : {"new", "create", "open", "done", "dead"}, thread : Threads]

MemoryTypeOK ==
  /\ items \subseteq Item
  /\ thread \in [Runs -> {"none", "active", "closed"}]
  /\ current \in Threads
  /\ memoryRun \in [Runs -> MemoryRun]

MemoryInit ==
  /\ items = {} /\ current = NoThread
  /\ thread = [r \in Runs |-> "none"]
  /\ memoryRun = [r \in Runs |-> [pc |-> "new", thread |-> NoThread]]

Live == {i \in items : i.status = "live"}

-----------------------------------------------------------------------------
(* recall_and_inject                                                       *)

Requested(intent) ==
  CASE intent = "continue" -> {"goal", "fact", "correction"}
    [] intent = "query" -> {"summary"}
    [] OTHER -> {}

(* What a message of the thread t that names road is told: another thread's*)
(* items only as history, a fact without a thread never, nor one that the  *)
(* message itself contradicts.                                             *)
Recalled(intent, road, t) ==
  {i \in Live :
     /\ i.type \in Requested(intent)
     /\ i.thread \in {NoThread, t} \/ intent = "query"
     /\ i.type = "fact" => i.thread # NoThread /\ road \in {NoRoad, i.val}}

Synchronous == \A r \in Runs : memoryRun[r].pc # "create"
Opened(r, t) == memoryRun' = [memoryRun EXCEPT ![r] = [pc |-> "open", thread |-> t]]

(* The message goes on in the thread the session state names, closed or not. *)
Continue(r) ==
  /\ memoryRun[r].pc = "new" /\ Synchronous
  /\ current # NoThread
  /\ Opened(r, current)
  /\ UNCHANGED <<items, thread, current>>

(* A fresh event closes that thread first, in a transaction of its own. *)
Leave(r) ==
  /\ memoryRun[r].pc = "new" /\ Synchronous
  /\ thread' = IF current = NoThread THEN thread ELSE [thread EXCEPT ![current] = "closed"]
  /\ memoryRun' = [memoryRun EXCEPT ![r].pc = "create"]
  /\ UNCHANGED <<items, current>>

(* create_event_thread *)
Closed == [r \in Runs |-> IF thread[r] = "active" THEN "closed" ELSE thread[r]]
CreateThread_AsUnnamed(r) ==
  /\ memoryRun[r].pc = "create"
  /\ thread' = [Closed EXCEPT ![r] = "active"]
  /\ Opened(r, r)
  /\ UNCHANGED <<items, current>>
CreateThread(r) ==
  /\ memoryRun[r].pc = "create"
  /\ thread' = [Closed EXCEPT ![r] = "active"]
  /\ current' = r
  /\ Opened(r, r)
  /\ UNCHANGED items

(* An exception before the threads are touched: the run goes on without    *)
(* memory and without a thread.                                            *)
RecallFails(r) ==
  /\ memoryRun[r].pc = "new" /\ Synchronous
  /\ Opened(r, NoThread)
  /\ UNCHANGED <<items, thread, current>>

-----------------------------------------------------------------------------
(* extract_and_write                                                       *)

(* MemoryPolicy.source_type_rules *)
PolicyAllows(c) ==
  CASE c.type = "fact" -> c.source \in {"user", "parser", "fusion"}
    [] c.type = "goal" -> c.source \in {"user", "parser"}
    [] c.type = "correction" -> c.source = "correction"
    [] OTHER -> c.source = "fusion"

Scope_AsCurrent(r) == current
Scope(r) == memoryRun[r].thread
Candidate(r, type, val, source) ==
  [type |-> type, val |-> val, source |-> source, status |-> "live",
   thread |-> Scope(r), from |-> r]

(* MemoryExtractor: a corrected key keeps the parser's fact out, and the   *)
(* corrected fact comes from the correction.  A goal is a first round's or *)
(* a message's that switches it.                                           *)
Extracted(r, road, corrects, goal, source) ==
  {Candidate(r, "summary", r, "fusion")}
  \cup (IF goal THEN {Candidate(r, "goal", r, "user")} ELSE {})
  \cup {Candidate(r, type, v, "correction") : type \in {"correction", "fact"}, v \in corrects}
  \cup {Candidate(r, "fact", v, source) : v \in IF corrects = {} THEN {road} \ {NoRoad} ELSE {}}

(* A summary's key is its run's. *)
Same(c) == {i \in Live : i.type = c.type /\ (c.type = "summary" => i.from = c.from)}

(* MemoryWriteGate *)
Higher_AsNewer(c, i) == c.val # i.val
Higher(c, i) ==
  /\ c.val # i.val
  /\ c.source = "correction" \/ Source[c.source] > Source[i.source]
Creates(c) == PolicyAllows(c) /\ Same(c) = {}
Supersedes(c, i) == PolicyAllows(c) /\ i \in Same(c) /\ Higher(c, i)

(* supersede_item leaves the thread of the new item out. *)
Written(cs) ==
  LET gone == {i \in Live : \E c \in cs : Supersedes(c, i)}
      new  == {c \in cs : \E i \in gone : Supersedes(c, i)} IN
    (items \ gone)
    \cup {[i EXCEPT !.status = "superseded"] : i \in gone}
    \cup {[c EXCEPT !.thread = NoThread] : c \in new}
    \cup {c \in cs : Creates(c)}

WriteMemories(r, road, corrects, goal, source) ==
  /\ memoryRun[r].pc = "open" /\ Synchronous
  /\ items' = Written(Extracted(r, road, corrects, goal, source))
  /\ memoryRun' = [memoryRun EXCEPT ![r].pc = "done"]
  /\ UNCHANGED <<thread, current>>

(* A run that failed, or a stream whose client went away, writes nothing;  *)
(* neither does any when the process dies.                                 *)
Abandon(r) ==
  /\ memoryRun[r].pc = "open" /\ Synchronous
  /\ memoryRun' = [memoryRun EXCEPT ![r].pc = "dead"]
  /\ UNCHANGED <<items, thread, current>>
MemoryCrash ==
  /\ \E r \in Runs : memoryRun[r].pc \in {"create", "open"}
  /\ memoryRun' = [r \in Runs |-> IF memoryRun[r].pc \in {"create", "open"}
                                    THEN [memoryRun[r] EXCEPT !.pc = "dead"] ELSE memoryRun[r]]
  /\ UNCHANGED <<items, thread, current>>

MemoryNext ==
  \/ \E r \in Runs :
       \/ Continue(r) \/ Leave(r) \/ CreateThread(r) \/ RecallFails(r) \/ Abandon(r)
       \/ \E road \in Values \cup {NoRoad}, corrects \in {{}} \cup {{v} : v \in Values},
             goal \in BOOLEAN, source \in {"user", "parser"} :
            WriteMemories(r, road, corrects, goal, source)
  \/ MemoryCrash
MemorySpec == MemoryInit /\ [][MemoryNext]_memoryVars

-----------------------------------------------------------------------------
(* Properties                                                              *)

(* A session has one active thread at most and it is the one the next      *)
(* message goes on in, although the process may die while a thread is left.*)
OneActiveThread ==
  \A r \in Runs : thread[r] = "active" => current = r

(* A session knows one value of a fact, and none that was superseded came  *)
(* from a better source than the one it knows, in whichever order the      *)
(* runs of the session write.  The sources are the parser and the user: a  *)
(* corrected fact never gets in, PolicyAllows has no place for it, so that *)
(* a correction leaves the fact it contradicts live.                       *)
BestFactLives ==
  LET facts == {i \in items : i.type = "fact"} IN
    /\ Cardinality(facts \cap Live) <= 1
    /\ \A i \in facts \cap Live, j \in facts \ Live : Source[i.source] >= Source[j.source]

(* What a message is told of its own event comes from runs of the same     *)
(* thread: a run that ends after the session has turned to another event   *)
(* does not bring its facts and goals along.  A correction that replaced   *)
(* another has lost its thread and is told in all of them.                 *)
OwnThreadOnly ==
  \A t \in Runs, road \in Values \cup {NoRoad}, intent \in Intents \ {"query"} :
    \A i \in Recalled(intent, road, t) :
      (i.type = "correction" => i.thread # NoThread) =>
        memoryRun[i.from].thread \in {t, NoThread}

(* A session has one active thread, a run recalls what runs of its thread  *)
(* wrote and the corrections that replaced another, and of the facts that  *)
(* the policy lets in that of the best source stays (coordinator.py).      *)
MemoryIsConsistent == OneActiveThread /\ OwnThreadOnly /\ BestFactLives
=============================================================================
