----------------------------- MODULE Continuation -----------------------------
(***************************************************************************)
(* PlanningContinuationCoordinator: what happens to a planning run that    *)
(* ended.  A failed run may be continued, once, by a child run that keeps  *)
(* the completed steps and retries or redesigns the rest; a completed run  *)
(* is assessed.  Both spend calls to the LLM provider from a budget that   *)
(* the runs of one lineage share, through a copy of it in each run's       *)
(* state_json.                                                             *)
(*                                                                         *)
(* The handler of POST /runs/{id}/replan never awaits, so a process runs   *)
(* one at a time and nothing else of that process between its steps; it    *)
(* may die between any two of them.  An action is one transaction or one   *)
(* call to the provider, with the pure Python before the next one.         *)
(* POST /runs/{id}/retry, which makes a run forget its child and its       *)
(* claims, is left out.                                                    *)
(***************************************************************************)
EXTENDS Integers, Sequences, FiniteSets

CONSTANTS Proc,           \* server processes
          Step,           \* the work steps a plan may have, in plan order
          MaxRuns,        \* bound on the number of runs of the lineage
          MaxVersion,     \* bound on the versions of the definition
          MaxReplans,     \* ExecutionBudgetLimits.maxReplans
          MaxLlmCalls,    \* ExecutionBudgetLimits.maxLlmCalls
          MaxCriticCalls, \* ExecutionBudgetLimits.maxCriticCalls
          MaxAssessments  \* ExecutionBudgetLimits.maxAssessments

ASSUME StepAssumption == Step \subseteq Nat /\ IsFiniteSet(Step)
ASSUME BoundAssumption == MaxRuns \in Nat \ {0} /\ MaxVersion \in Nat
ASSUME LimitAssumption ==
  /\ MaxReplans \in Nat /\ MaxLlmCalls \in Nat
  /\ MaxCriticCalls \in Nat /\ MaxAssessments \in Nat

Run == 1 .. MaxRuns
NoRun == 0

(* How a run ends: "tool" is FAILED by an action node that failed or timed  *)
(* out, "other" FAILED by another node, REJECTED or CANCELLED.             *)
Ending == {"completed", "tool", "other"}
Marker == {"none", "STARTED", "COMPLETED"}
Recommendation == {"replan", "abort", "escalate_human"}
Usage == [llm : 0 .. MaxLlmCalls, critic : 0 .. MaxCriticCalls,
          assess : 0 .. MaxAssessments, replans : 0 .. MaxReplans]
NoUse == [llm |-> 0, critic |-> 0, assess |-> 0, replans |-> 0]

VARIABLES
  count,     \* runs of the lineage so far
  version,   \* latest version of the definition of the plan
  others,    \* versions that belong to runs outside the lineage (history)
  run,       \* the rows of workflow_runs, by order of creation
  at,        \* per process: where its replan handler stands, and what it has read
  assessing, \* completed runs whose driver task awaits the provider's assessment
  reviewed,  \* reviews of each run the provider was asked for (history)
  spent      \* all calls made to the provider (history)

vars == <<count, version, others, run, at, assessing, reviewed, spent>>

Row == [status : {"none", "pending"} \cup Ending,
        from : Run \cup {NoRun}, to : Run \cup {NoRun},
        version : Nat, semantic : BOOLEAN, usage : Usage,
        critic : Marker, rec : Recommendation,
        draft : Marker, suffix : SUBSET Step,
        assess : Marker,
        plan : SUBSET Step, carried : SUBSET Step, done : SUBSET Step]

NoRow == [status |-> "none", from |-> NoRun, to |-> NoRun,
          version |-> 0, semantic |-> FALSE, usage |-> NoUse,
          critic |-> "none", rec |-> "replan", draft |-> "none", suffix |-> {},
          assess |-> "none",
          plan |-> {}, carried |-> {}, done |-> {}]

(* Where explicit_replan stands; "reviewing" and "drafting" are calls to   *)
(* the provider under a claim.                                             *)
Point == {"idle", "critic", "reviewing", "decide", "semantic", "drafting",
          "revise", "reload", "cutover"}
Idle == [pt |-> "idle", r |-> NoRun, client |-> FALSE, usage |-> NoUse,
         rec |-> "replan", drafted |-> FALSE, suffix |-> {}, copy |-> NoRow]

TypeOK ==
  /\ count \in 0 .. MaxRuns
  /\ version \in Nat
  /\ others \subseteq 1 .. version
  /\ run \in [Run -> Row]
  /\ at \in [Proc -> [pt : Point, r : Run \cup {NoRun}, client : BOOLEAN,
                      usage : Usage, rec : Recommendation, drafted : BOOLEAN,
                      suffix : SUBSET Step, copy : Row]]
  /\ assessing \in SUBSET Run
  /\ spent \in [llm : Nat, assess : Nat]
  /\ reviewed \in [Run -> Nat]

Init ==
  /\ count = 0 /\ version = 0 /\ others = {}
  /\ run = [r \in Run |-> NoRow]
  /\ at = [p \in Proc |-> Idle]
  /\ assessing = {}
  /\ spent = [llm |-> 0, assess |-> 0]
  /\ reviewed = [r \in Run |-> 0]

(* The process runs no replan handler, so its event loop is free. *)
Free == \E p \in Proc : at[p].pt = "idle"

-----------------------------------------------------------------------------
(* Runs.                                                                   *)

(* _create_planning_run_record: a new version of the definition, then a    *)
(* row with a lineage of its own.  sem is plan.semanticReplanEnabled.      *)
PlanRun(sem) ==
  /\ Free
  /\ count = 0
  /\ count' = 1 /\ version' = version + 1
  /\ run' = [run EXCEPT ![1] =
       [NoRow EXCEPT !.status = "pending", !.version = version',
                     !.semantic = sem, !.plan = Step]]
  /\ UNCHANGED <<others, at, assessing, reviewed, spent>>

(* Another run of the same plan, or its continuation.  A start reads the   *)
(* latest number and writes the next without yielding; what a second       *)
(* server process does in between is modelled in Definitions.              *)
OtherRun ==
  /\ Free
  /\ version < MaxVersion
  /\ version' = version + 1 /\ others' = others \cup {version'}
  /\ UNCHANGED <<count, run, at, assessing, reviewed, spent>>

(* The steps before f succeed and f is where the run ends.                 *)
Before(r, f) == {s \in run[r].plan \ run[r].carried : s < f}

(* The driver executes the child graph, which leaves out the carried steps *)
(* (plan_to_child_definition), to an end.                                  *)
RunEnds(r, e) ==
  /\ Free
  /\ run[r].status = "pending"
  /\ IF e = "completed"
     THEN run' = [run EXCEPT ![r].status = e, ![r].done = run[r].plan \ run[r].carried]
     ELSE \E f \in run[r].plan \ run[r].carried :
            run' = [run EXCEPT ![r].status = e, ![r].done = Before(r, f)]
  /\ UNCHANGED <<count, version, others, at, assessing, reviewed, spent>>

-----------------------------------------------------------------------------
(* explicit_replan, one transaction or provider call at a time.            *)

(* Moves the handler of p on, with the fields of g changed.                *)
Goes(p, g) == at' = [at EXCEPT ![p] = g]
Returns(p) == Goes(p, Idle)

(* _build_observation and classify_observation: only a run whose action    *)
(* failed is put under semantic review; for any other the decision is      *)
(* NO_REPLAN.  A run that has its child is answered with it.  The provider *)
(* may be unconfigured.                                                    *)
Read(p, r, client) ==
  /\ at[p].pt = "idle"
  /\ run[r].status = "tool" /\ run[r].to = NoRun
  /\ Goes(p, [Idle EXCEPT !.pt = IF client THEN "critic" ELSE "semantic",
                          !.r = r, !.client = client, !.usage = run[r].usage])
  /\ UNCHANGED <<count, version, others, run, assessing, reviewed, spent>>

CriticAffordable_AsLlmOnly(u) == u.llm < MaxLlmCalls

(* The budget check of claim_critic_invocation_tx. *)
CriticAffordable(u) == u.llm < MaxLlmCalls /\ u.critic < MaxCriticCalls

CriticClaimable_AsRetry(row) == row.critic # "COMPLETED" /\ CriticAffordable(row.usage)

(* A claim is refused while its marker stands, also after a crash. *)
CriticClaimable(row) == row.critic = "none" /\ CriticAffordable(row.usage)

(* claim_critic_invocation_tx: one transaction reserves both counters and  *)
(* sets the marker; a completed review is used again; an interrupted or    *)
(* unaffordable one leaves the deterministic decision, REPLAN.             *)
ClaimCritic(p) ==
  LET r == at[p].r IN
  /\ at[p].pt = "critic"
  /\ IF CriticClaimable(run[r])
     THEN /\ run' = [run EXCEPT ![r].critic = "STARTED",
                       ![r].usage.llm = @ + 1, ![r].usage.critic = @ + 1]
          /\ Goes(p, [at[p] EXCEPT !.pt = "reviewing"])
     ELSE /\ Goes(p, [at[p] EXCEPT !.pt = "decide",
                        !.rec = IF run[r].critic = "COMPLETED" THEN run[r].rec ELSE "replan"])
          /\ UNCHANGED run
  /\ UNCHANGED <<count, version, others, assessing, reviewed, spent>>

(* The provider's review (invoke_critic_sync), then                        *)
(* complete_critic_invocation_tx; an error leaves the marker STARTED.      *)
Review(p) ==
  LET r == at[p].r IN
  /\ at[p].pt = "reviewing"
  /\ spent' = [spent EXCEPT !.llm = @ + 1]
  /\ reviewed' = [reviewed EXCEPT ![r] = @ + 1]
  /\ \/ \E rec \in Recommendation :
          /\ run' = IF run[r].critic = "STARTED"
                    THEN [run EXCEPT ![r].critic = "COMPLETED", ![r].rec = rec]
                    ELSE run
          /\ Goes(p, [at[p] EXCEPT !.pt = "decide", !.rec = rec])
     \/ /\ Goes(p, [at[p] EXCEPT !.pt = "decide", !.rec = "replan"])
        /\ UNCHANGED run
  /\ UNCHANGED <<count, version, others, assessing>>

(* ReplanDecisionEngine.decide with _apply_critic. *)
Decide(p) ==
  /\ at[p].pt = "decide"
  /\ IF at[p].rec = "replan" THEN Goes(p, [at[p] EXCEPT !.pt = "semantic"]) ELSE Returns(p)
  /\ UNCHANGED <<count, version, others, run, assessing, reviewed, spent>>

(* _try_semantic_replan and claim_semantic_replan_tx. *)
ClaimDraft(p) ==
  LET r == at[p].r IN
  LET open == at[p].client /\ run[r].semantic /\ at[p].usage.replans < MaxReplans IN
  /\ at[p].pt = "semantic"
  /\ IF open /\ run[r].draft = "none" /\ run[r].usage.llm < MaxLlmCalls
     THEN /\ run' = [run EXCEPT ![r].draft = "STARTED", ![r].usage.llm = @ + 1]
          /\ Goes(p, [at[p] EXCEPT !.pt = "drafting"])
     ELSE /\ Goes(p, [at[p] EXCEPT !.pt = "revise",
                        !.drafted = open /\ run[r].draft = "COMPLETED",
                        !.suffix = IF open THEN run[r].suffix ELSE {}])
          /\ UNCHANGED run
  /\ UNCHANGED <<count, version, others, assessing, reviewed, spent>>

(* The provider's redesign of the steps that remain.  Its step ids avoid   *)
(* those the parent completed (_seed_counters).  An answer that does not   *)
(* compile is not recorded.                                                *)
Draft(p) ==
  LET r == at[p].r IN
  /\ at[p].pt = "drafting"
  /\ spent' = [spent EXCEPT !.llm = @ + 1]
  /\ \/ \E S \in (SUBSET (Step \ run[r].done)) \ {{}} :
          /\ run' = IF run[r].draft = "STARTED"
                    THEN [run EXCEPT ![r].draft = "COMPLETED", ![r].suffix = S]
                    ELSE run
          /\ Goes(p, [at[p] EXCEPT !.pt = "revise", !.drafted = TRUE, !.suffix = S])
     \/ /\ Goes(p, [at[p] EXCEPT !.pt = "revise"])
        /\ UNCHANGED run
  /\ UNCHANGED <<count, version, others, assessing, reviewed>>

Lineage_AsReadAtStart(p) == at[p].usage

(* The usage the child inherits: read again after the claims. *)
Lineage(p) == run[at[p].r].usage

(* _perform_replan: refuses when the replans are spent, or when the new    *)
(* plan does not validate, which happens to plans of an LLM.               *)
Revise(p) ==
  /\ at[p].pt = "revise"
  /\ \/ /\ Lineage(p).replans < MaxReplans
        /\ Goes(p, [at[p] EXCEPT !.pt = "reload",
                      !.usage = [Lineage(p) EXCEPT !.replans = @ + 1]])
     \/ /\ Lineage(p).replans >= MaxReplans \/ run[at[p].r].semantic
        /\ Returns(p)
  /\ UNCHANGED <<count, version, others, run, assessing, reviewed, spent>>

(* _create_and_execute_child reads the parent once more. *)
Reload(p) ==
  /\ at[p].pt = "reload"
  /\ Goes(p, [at[p] EXCEPT !.pt = "cutover", !.copy = run[at[p].r]])
  /\ UNCHANGED <<count, version, others, run, assessing, reviewed, spent>>

CarriedBy_AsParentOnly(p) == run[at[p].r].done

(* build_revision keeps what was carried and carries what the parent       *)
(* completed; build_semantic_revision starts from the latter alone.        *)
CarriedBy(p) ==
  LET r == at[p].r IN
  IF at[p].drafted THEN run[r].done ELSE run[r].carried \cup run[r].done

PlanOf(p) ==
  LET r == at[p].r IN IF at[p].drafted THEN run[r].done \cup at[p].suffix ELSE run[r].plan

Child_AsParentVersion(p) ==
  [NoRow EXCEPT !.status = "pending", !.from = at[p].r,
                !.version = run[at[p].r].version + 1,
                !.semantic = run[at[p].r].semantic,
                !.usage = at[p].usage, !.plan = PlanOf(p), !.carried = CarriedBy(p)]

(* plan_to_child_definition and build_child_state: empty registries, the   *)
(* lineage of the parent, a version allocated in the transaction.          *)
Child(p) ==
  [NoRow EXCEPT !.status = "pending", !.from = at[p].r,
                !.version = version + 1, !.semantic = run[at[p].r].semantic,
                !.usage = at[p].usage, !.plan = PlanOf(p), !.carried = CarriedBy(p)]

Parent_AsUnmarked(p, c) == [at[p].copy EXCEPT !.usage = at[p].usage]

(* The parent as written by the cutover: what was read before, with the    *)
(* pointer to the child and the child's lineage.                           *)
Parent(p, c) == [at[p].copy EXCEPT !.to = c, !.usage = at[p].usage]

(* create_child_continuation_tx: version, child and parent in one          *)
(* transaction.                                                            *)
Cutover(p) ==
  /\ at[p].pt = "cutover"
  /\ count < MaxRuns
  /\ count' = count + 1 /\ version' = version + 1
  /\ run' = [run EXCEPT ![count'] = Child(p), ![at[p].r] = Parent(p, count')]
  /\ Returns(p)
  /\ UNCHANGED <<others, assessing, reviewed, spent>>

-----------------------------------------------------------------------------
(* assessment_eligible: ended, and not continued by a child.               *)
Leaf(row) == row.status \in Ending /\ row.to = NoRun

(* _assess_if_terminal, in every driver task that executed the run, the    *)
(* ones whose lease was taken over too.  A run that did not complete is    *)
(* graded without the provider, and so is one with hard facts, without a   *)
(* client or without a claim (fallback); the grade is written over any     *)
(* earlier one.                                                            *)
AssessWithoutProvider(r) ==
  /\ Free
  /\ Leaf(run[r])
  /\ run' = [run EXCEPT ![r].assess = "COMPLETED"]
  /\ UNCHANGED <<count, version, others, at, assessing, reviewed, spent>>

Assessable(u) == u.llm < MaxLlmCalls /\ u.assess < MaxAssessments

(* claim_assessment_tx; without budget the run is graded as a fallback. *)
ClaimAssessment(r) ==
  /\ Free
  /\ Leaf(run[r]) /\ run[r].status = "completed" /\ run[r].assess = "none"
  /\ Assessable(run[r].usage)
  /\ run' = [run EXCEPT ![r].assess = "STARTED",
                        ![r].usage.llm = @ + 1, ![r].usage.assess = @ + 1]
  /\ assessing' = assessing \cup {r}
  /\ UNCHANGED <<count, version, others, at, reviewed, spent>>

(* The provider answers or fails, then complete_assessment_tx, which       *)
(* writes whatever the marker is.                                          *)
CompleteAssessment(r) ==
  /\ Free
  /\ r \in assessing
  /\ spent' = [spent EXCEPT !.llm = @ + 1, !.assess = @ + 1]
  /\ run' = [run EXCEPT ![r].assess = "COMPLETED"]
  /\ assessing' = assessing \ {r}
  /\ UNCHANGED <<count, version, others, at, reviewed>>

-----------------------------------------------------------------------------
(* A process dies in its replan handler; a call to the provider that it    *)
(* waited for may have gone out.                                           *)
Crash(p) ==
  /\ at[p].pt # "idle"
  /\ Returns(p)
  /\ \/ UNCHANGED <<spent, reviewed>>
     \/ /\ at[p].pt \in {"reviewing", "drafting"}
        /\ spent' = [spent EXCEPT !.llm = @ + 1]
        /\ reviewed' = IF at[p].pt = "reviewing"
                       THEN [reviewed EXCEPT ![at[p].r] = @ + 1] ELSE reviewed
  /\ UNCHANGED <<count, version, others, run, assessing>>

(* A process dies while its driver awaits the assessment of r. *)
CrashAssessing(r) ==
  /\ r \in assessing
  /\ assessing' = assessing \ {r}
  /\ \/ UNCHANGED spent
     \/ spent' = [spent EXCEPT !.llm = @ + 1, !.assess = @ + 1]
  /\ UNCHANGED <<count, version, others, run, at, reviewed>>

Replan(p) ==
  \/ \E r \in Run, client \in BOOLEAN : Read(p, r, client)
  \/ ClaimCritic(p) \/ Review(p) \/ Decide(p) \/ ClaimDraft(p) \/ Draft(p)
  \/ Revise(p) \/ Reload(p) \/ Cutover(p)

Next ==
  \/ \E sem \in BOOLEAN : PlanRun(sem)
  \/ OtherRun
  \/ \E r \in Run, e \in Ending : RunEnds(r, e)
  \/ \E p \in Proc : Replan(p) \/ Crash(p)
  \/ \E r \in Run :
       \/ AssessWithoutProvider(r) \/ ClaimAssessment(r) \/ CompleteAssessment(r)
       \/ CrashAssessing(r)

Spec == Init /\ [][Next]_vars

-----------------------------------------------------------------------------
(* Properties.                                                             *)

(* A run is continued by at most one child ("idempotent" replan), and the  *)
(* two know each other: no child without its parent's pointer, and no      *)
(* pointer to a run that continues something else.                         *)
OneChild ==
  \A r, c \in Run :
    run[c].status # "none" => (run[c].from = r <=> run[r].to = c)

(* The provider is never asked more often than the lineage may, over all   *)
(* its runs, whatever was interrupted: the copies of the budget in the     *)
(* states of parents and children, and the claims, account for every call. *)
LineageSpend ==
  /\ spent.llm <= MaxLlmCalls
  /\ spent.assess <= MaxAssessments

(* A decision is put to the provider at most once, also when the process   *)
(* that claimed it died before the answer was saved.                       *)
OneReview == \A r \in Run : reviewed[r] <= 1

(* A run of the planner is continued by one child and each of its          *)
(* decisions is put to the provider once, although a user's request, the   *)
(* driver and a restarted process all handle the same run                  *)
(* (continuation.py).                                                      *)
OncePerRun == OneChild /\ OneReview

(* A version of the definition belongs to one run, also when other runs of *)
(* the plan take versions (each in one step, as within one server process) *)
(* between a parent and its child, and a child's is newer than its         *)
(* parent's.                                                               *)
OwnVersion ==
  \A r, c \in Run :
    /\ run[r].status # "none" => run[r].version \notin others
    /\ run[c].from = r => run[r].version < run[c].version

(* A step that a run of the lineage completed is not executed again by a   *)
(* run that continues it, where no plan is redesigned.                     *)
CompletedStepsStay ==
  \A r, c \in Run :
    run[c].from = r /\ (\A x \in Run : ~run[x].semantic) =>
      (run[r].carried \cup run[r].done) \cap (run[c].plan \ run[c].carried) = {}
=============================================================================
