------------------------------ MODULE Simulation ------------------------------
(***************************************************************************)
(* One run of the traffic simulation (simulation/api.py): the snapshots    *)
(* and events the provider of the server process holds in memory, the rows *)
(* that outlive it, and the workflows that act on the run.  A handler runs *)
(* without an await, but commits each of its rows on its own and the       *)
(* process may die in between; a workflow's action is kept in memory only. *)
(***************************************************************************)
EXTENDS Integers, Sequences, FiniteSets, SequencesExt

CONSTANTS Injected, Flows,  \* traffic events of the run; workflows started for them
          MaxSnaps,       \* bound on the snapshots in memory
          Absent

ASSUME SimAssumption ==
  /\ MaxSnaps \in Nat \ {0}
  /\ Injected \cap Flows = {} /\ {"none", "save"} \cap Injected = {}

VARIABLES stored,  \* the rows: whether the run is there, its snapshots by id, its events
          mem,     \* what the provider holds of the run, None when it was not loaded
          pending, \* the handler that has a commit left to do
          flow     \* the workflows: the event of each and how far it is
simVars == <<stored, mem, pending, flow>>

(* What a snapshot shows (the events and actions applied to the network)   *)
(* and the event ids it lists.                                             *)
Content == [changes : SUBSET (Injected \cup Flows), listed : SUBSET Injected]
Snap == [seq : 0..MaxSnaps, content : Content]

SimTypeOK ==
  /\ stored.run \in BOOLEAN /\ stored.events \subseteq Injected
  /\ stored.snaps \in [0..MaxSnaps -> Content \cup {Absent}]
  /\ mem # Absent => /\ Range(mem.snaps) \subseteq Snap /\ Len(mem.snaps) <= MaxSnaps
                   /\ mem.events \subseteq Injected
  /\ pending \in {"none", "save"} \cup Injected
  /\ flow \in [Flows -> [pc : {"none", "asked", "active", "ended"}, event : Injected \cup {Absent}]]

NoSnaps == [k \in 0..MaxSnaps |-> Absent]
SimInit ==
  /\ stored = [run |-> FALSE, snaps |-> NoSnaps, events |-> {}]
  /\ mem = Absent /\ pending = "none"
  /\ flow = [w \in Flows |-> [pc |-> "none", event |-> Absent]]

(* _ensure_run_loaded: after a restart, whatever rows there are, in the    *)
(* order of their numbers.                                                 *)
Rows == {k \in 0..MaxSnaps : stored.snaps[k] # Absent}
Ith(K, i) == CHOOSE k \in K : Cardinality({j \in K : j < k}) = i - 1
Loaded ==
  IF mem # Absent THEN mem
  ELSE [snaps |-> [i \in 1..Cardinality(Rows) |->
                     [seq |-> Ith(Rows, i), content |-> stored.snaps[Ith(Rows, i)]]],
        events |-> stored.events]

(* _append_snapshot: the network of the last one with a change applied,    *)
(* numbered by the length of the list, and every event of the run.         *)
NextSeq(snaps) == Len(snaps)
Appended(m, change, events) ==
  [snaps |-> Append(m.snaps, [seq |-> NextSeq(m.snaps), content |->
               [changes |-> Last(m.snaps).content.changes \cup {change}, listed |-> events]]),
   events |-> events]

(* What create_run and reset_run start from.                               *)
Initial == [seq |-> 0, content |-> [changes |-> {}, listed |-> {}]]
Fresh_AsRewound == [snaps |-> <<Initial>>, events |-> Loaded.events]
Fresh == [snaps |-> <<Initial>>, events |-> {}]

(* The run's row, then its first snapshot.  For a reset the row is         *)
(* replaced, which deletes every event and snapshot of the run with it.    *)
HandlerFree == pending = "none"
Renew ==
  /\ mem' = Fresh
  /\ stored' = [run |-> TRUE, snaps |-> NoSnaps, events |-> {}]
  /\ pending' = "save"
  /\ UNCHANGED flow
CreateRun == HandlerFree /\ ~stored.run /\ Renew
Reset == HandlerFree /\ stored.run /\ Renew

SavedSnaps(m) == [stored.snaps EXCEPT ![Last(m.snaps).seq] = Last(m.snaps).content]
SaveSnapshot ==
  /\ pending = "save" /\ pending' = "none"
  /\ stored' = [stored EXCEPT !.snaps = SavedSnaps(mem)]
  /\ UNCHANGED <<mem, flow>>

(* inject_event: the event's row, then the snapshot in memory and its row. *)
(* A run whose first snapshot was not saved has nothing to append to.      *)
Inject(e) ==
  /\ HandlerFree /\ stored.run /\ e \notin stored.events \cup Loaded.events
  /\ Len(Loaded.snaps) < MaxSnaps
  /\ stored' = [stored EXCEPT !.events = @ \cup {e}] /\ pending' = e
  /\ UNCHANGED <<mem, flow>>
Apply ==
  /\ pending \in Injected /\ pending' = "none"
  /\ IF Loaded.snaps = <<>> THEN mem' = Loaded /\ UNCHANGED stored
     ELSE LET m == Appended(Loaded, pending, Loaded.events \cup {pending}) IN
            mem' = m /\ stored' = [stored EXCEPT !.snaps = SavedSnaps(m)]
  /\ UNCHANGED flow

-----------------------------------------------------------------------------
(* Workflows                                                               *)

(* start_workflow_for_simulation looks for an active workflow of the event *)
(* when the request arrives; the row of the new one is written when its    *)
(* stream starts.                                                          *)
AskWorkflow(w, e) ==
  /\ HandlerFree /\ stored.run /\ flow[w].pc = "none"
  /\ e \in Loaded.events /\ Loaded.snaps # <<>>
  /\ \A u \in Flows : flow[u].pc = "active" => flow[u].event # e
  /\ mem' = Loaded
  /\ flow' = [flow EXCEPT ![w] = [pc |-> "asked", event |-> e]]
  /\ UNCHANGED <<stored, pending>>
BeginWorkflow(w) ==
  /\ HandlerFree /\ flow[w].pc = "asked" /\ flow' = [flow EXCEPT ![w].pc = "active"]
  /\ UNCHANGED <<stored, mem, pending>>

(* _execute_simulation_action: apply_action, in memory only.               *)
Act(w) ==
  /\ HandlerFree /\ flow[w].pc = "active"
  /\ Loaded.snaps # <<>> /\ Len(Loaded.snaps) < MaxSnaps
  /\ mem' = Appended(Loaded, w, Loaded.events)
  /\ UNCHANGED <<stored, pending, flow>>
EndWorkflow(w) ==
  /\ HandlerFree /\ flow[w].pc = "active" /\ flow' = [flow EXCEPT ![w].pc = "ended"]
  /\ UNCHANGED <<stored, mem, pending>>

(* The process dies and another starts; a workflow that began is resumed.  *)
SimCrash ==
  /\ mem # Absent \/ ~HandlerFree
  /\ mem' = Absent /\ pending' = "none"
  /\ flow' = [w \in Flows |-> IF flow[w].pc = "asked" THEN [pc |-> "none", event |-> Absent]
                                                      ELSE flow[w]]
  /\ UNCHANGED stored

SimNext ==
  \/ CreateRun \/ Reset \/ SaveSnapshot \/ Apply \/ SimCrash
  \/ \E e \in Injected : Inject(e) \/ \E w \in Flows : AskWorkflow(w, e)
  \/ \E w \in Flows : BeginWorkflow(w) \/ Act(w) \/ EndWorkflow(w)
SimSpec == SimInit /\ [][SimNext]_simVars

-----------------------------------------------------------------------------
(* Properties                                                              *)

(* Whatever a restart finds, the events its snapshots list and show are    *)
(* there: neither a death between the rows of an event nor a reset leaves  *)
(* the history pointing at an event that does not exist.                   *)
HistoryIsWhole ==
  \A k \in 0..MaxSnaps :
    stored.snaps[k] # Absent =>
      /\ stored.snaps[k].listed \subseteq stored.events
      /\ stored.snaps[k].changes \cap Injected \subseteq stored.snaps[k].listed
=============================================================================
