------------------------------ MODULE Provenance ------------------------------
(***************************************************************************)
(* decision_provenance: what the server says, from the rows alone, about   *)
(* the critic, semantic replan and assessment decisions of a run: whether  *)
(* the provider was claimed and whether it was called.  The rows keep      *)
(* markers and results, never the calls themselves, so a report made after *)
(* a crash has to leave some answers open.                                 *)
(*                                                                         *)
(* Continuation moves the runs; this module adds the grade an assessment   *)
(* leaves in its row and, as history, the calls that really went out.      *)
(***************************************************************************)
EXTENDS Continuation

CONSTANT MaxGraders \* bound on the drivers that assess one run

ASSUME GraderAssumption == MaxGraders \in Nat

VARIABLES
  grade,    \* per run: how the assessment in its row came about
  called,   \* per run: the decisions the provider was called for (history)
  graders   \* per completed run: the drivers that went to assess it (history)

provVars == <<grade, called, graders>>

Decision == {"critic", "semantic_replan", "assessment"}
Grade == {"none", "deterministic", "client_unavailable", "budget_exhausted",
          "already_started", "error", "llm"}

ProvTypeOK ==
  /\ grade \in [Run -> Grade]
  /\ called \in [Run -> SUBSET Decision]
  /\ graders \in [Run -> 0 .. MaxGraders]

ProvInit ==
  /\ grade = [r \in Run |-> "none"]
  /\ called = [r \in Run |-> {}]
  /\ graders = [r \in Run |-> 0]

-----------------------------------------------------------------------------
(* Steps of Continuation, with the call that goes out in them.             *)

(* A call for decision d of run r, if this step spends one. *)
Books(r, d) ==
  called' = IF spent' # spent THEN [called EXCEPT ![r] = @ \cup {d}] ELSE called

(* The calls of the replan handler of p, also those a crash leaves behind. *)
Asks(p) ==
  /\ Review(p) \/ Draft(p) \/ Crash(p)
  /\ Books(at[p].r, IF at[p].pt = "reviewing" THEN "critic" ELSE "semantic_replan")
  /\ UNCHANGED <<grade, graders>>

(* Why assess_terminal_run grades without a provider: no claim is needed,  *)
(* or there is no client, or the claim is refused.                         *)
Reason(r) ==
  IF run[r].status # "completed" THEN {"deterministic"}
  ELSE {"deterministic", "client_unavailable"}
       \cup (IF run[r].assess = "STARTED" THEN {"already_started"} ELSE {})
       \cup (IF run[r].assess = "none" /\ ~Assessable(run[r].usage)
             THEN {"budget_exhausted"} ELSE {})

GradesAlone(r) ==
  /\ graders[r] < MaxGraders
  /\ AssessWithoutProvider(r)
  /\ \E g \in Reason(r) : grade' = [grade EXCEPT ![r] = g]
  /\ graders' = IF run[r].status = "completed" THEN [graders EXCEPT ![r] = @ + 1] ELSE graders
  /\ UNCHANGED called

GoesToAssess(r) ==
  /\ graders[r] < MaxGraders
  /\ ClaimAssessment(r)
  /\ graders' = [graders EXCEPT ![r] = @ + 1]
  /\ UNCHANGED <<grade, called>>

GetsAssessment(r) ==
  /\ CompleteAssessment(r)
  /\ \E g \in {"llm", "error"} : grade' = [grade EXCEPT ![r] = g]
  /\ Books(r, "assessment")
  /\ UNCHANGED graders

LosesAssessment(r) ==
  /\ CrashAssessing(r)
  /\ Books(r, "assessment")
  /\ UNCHANGED <<grade, graders>>

(* Steps that call nobody. *)
Silent ==
  \/ \E sem \in BOOLEAN : PlanRun(sem)
  \/ OtherRun
  \/ \E r \in Run, e \in Ending : RunEnds(r, e)
  \/ \E p \in Proc :
       \/ \E r \in Run, client \in BOOLEAN : Read(p, r, client)
       \/ ClaimCritic(p) \/ Decide(p) \/ ClaimDraft(p)
       \/ Revise(p) \/ Reload(p) \/ Cutover(p)

ProvNext ==
  \/ Silent /\ UNCHANGED provVars
  \/ \E p \in Proc : Asks(p)
  \/ \E r \in Run :
       GradesAlone(r) \/ GoesToAssess(r) \/ GetsAssessment(r) \/ LosesAssessment(r)

ProvSpec == Init /\ ProvInit /\ [][ProvNext]_<<vars, provVars>>

-----------------------------------------------------------------------------
(* The report.  claimed and call answer TRUE, FALSE or that the rows do    *)
(* not tell (None in the code): "yes", "no", "unknown".                    *)

Produced_AsStarted(marker) == IF marker = "none" THEN "unknown" ELSE "yes"

(* Only what a provider produced proves that it was called; a claim alone  *)
(* does not.                                                               *)
Produced(marker) == IF marker = "COMPLETED" THEN "yes" ELSE "unknown"

(* _critic_entries *)
CriticEntries(r) ==
  {[decision |-> "critic", claimed |-> "yes", call |-> Produced(run[r].critic),
    child |-> NoRun, version |-> 0] : x \in {run[r].critic} \ {"none"}}

(* _semantic_replan_entries: with the child the run has, however it came. *)
SemanticEntries(r) ==
  {[decision |-> "semantic_replan", claimed |-> "yes", call |-> Produced(run[r].draft),
    child |-> run[r].to,
    version |-> IF run[r].to = NoRun THEN 0 ELSE run[run[r].to].version] :
      x \in {run[r].draft} \ {"none"}}

(* _fallback_claim_status, and the branches of _assessment_entries. *)
Claimed(r) ==
  IF run[r].assess = "STARTED" \/ grade[r] \in {"already_started", "error", "llm"}
  THEN "yes" ELSE "no"

Called(r) ==
  CASE run[r].assess = "STARTED"                      -> "unknown"
    [] grade[r] \in {"already_started", "error"}      -> "unknown"
    [] grade[r] = "llm"                               -> "yes"
    [] OTHER                                          -> "no"

AssessmentEntries(r) ==
  {[decision |-> "assessment", claimed |-> Claimed(r), call |-> Called(r),
    child |-> NoRun, version |-> 0] : x \in {run[r].assess} \ {"none"}}

(* build_decision_provenance *)
Report(r) == CriticEntries(r) \cup SemanticEntries(r) \cup AssessmentEntries(r)

-----------------------------------------------------------------------------
(* Properties.                                                             *)

(* The report is never made up (the rule of its own header): a call it     *)
(* affirms went out; a call it denies did not, where one driver assessed   *)
(* the run; every call that went out belongs to a claim it affirms; and    *)
(* the child it names continues this run, with a newer version.            *)
ProvenanceIsTrue ==
  \A r \in Run :
    /\ \A e \in Report(r) :
         /\ e.call = "yes" => e.decision \in called[r]
         /\ e.call = "no" /\ graders[r] <= 1 => e.decision \notin called[r]
         /\ e.child # NoRun => run[e.child].from = r /\ run[r].version < e.version
    /\ \A d \in called[r] :
         d # "assessment" \/ graders[r] <= 1 =>
           \E e \in Report(r) : e.decision = d /\ e.claimed = "yes"
=============================================================================
