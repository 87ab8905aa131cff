-------------------------- MODULE Continuation_proof --------------------------
(* Theorems about Continuation, for any plan, bounds and budget limits:    *)
(* versions of a lineage, then what it spends and repeats, its children    *)
(* and reviews when one server process runs, and the steps it carries over *)
(* when any number do.                                                     *)
EXTENDS Continuation, TLAPS

USE StepAssumption, BoundAssumption, LimitAssumption

Handler == [pt : Point, r : Run \cup {NoRun}, client : BOOLEAN,
            usage : Usage, rec : Recommendation, drafted : BOOLEAN,
            suffix : SUBSET Step, copy : Row]

-----------------------------------------------------------------------------
(* Types                                                                   *)

LEMMA NoUseType == NoUse \in Usage
BY DEF NoUse, Usage

LEMMA NoRowType == NoRow \in Row
BY NoUseType DEF NoRow, Row, Marker, Recommendation

LEMMA IdleType == Idle \in Handler
BY NoUseType, NoRowType DEF Idle, Handler, Point, Recommendation

LEMMA TypeInit == Init => TypeOK
<1> SUFFICES ASSUME Init PROVE TypeOK
  OBVIOUS
<1>1. run \in [Run -> Row] /\ at \in [Proc -> Handler]
  BY NoRowType, IdleType DEF Init
<1>2. count \in 0 .. MaxRuns /\ version \in Nat /\ others \subseteq 1 .. version
  BY DEF Init
<1>3. assessing \in SUBSET Run /\ spent \in [llm : Nat, assess : Nat] /\ reviewed \in [Run -> Nat]
  BY DEF Init
<1>4. QED
  BY <1>1, <1>2, <1>3 DEF TypeOK, Handler

(* One call of the provider fewer is left. *)
LEMMA CriticUsage ==
  ASSUME NEW u \in Usage, CriticAffordable(u)
  PROVE  [u EXCEPT !.llm = @ + 1, !.critic = @ + 1] \in Usage
<1>1. u.llm + 1 \in 0 .. MaxLlmCalls /\ u.critic + 1 \in 0 .. MaxCriticCalls
  BY DEF Usage, CriticAffordable
<1>2. QED
  BY <1>1 DEF Usage

LEMMA DraftUsage ==
  ASSUME NEW u \in Usage, u.llm < MaxLlmCalls
  PROVE  [u EXCEPT !.llm = @ + 1] \in Usage
BY DEF Usage

LEMMA AssessUsage ==
  ASSUME NEW u \in Usage, Assessable(u)
  PROVE  [u EXCEPT !.llm = @ + 1, !.assess = @ + 1] \in Usage
<1>1. u.llm + 1 \in 0 .. MaxLlmCalls /\ u.assess + 1 \in 0 .. MaxAssessments
  BY DEF Usage, Assessable
<1>2. QED
  BY <1>1 DEF Usage

LEMMA ReplanUsage ==
  ASSUME NEW u \in Usage, u.replans < MaxReplans
  PROVE  [u EXCEPT !.replans = @ + 1] \in Usage
BY DEF Usage

(* A handler that moves on to h keeps the handlers well typed. *)
LEMMA GoesType ==
  ASSUME TypeOK, NEW p \in Proc, NEW h \in Handler, Goes(p, h)
  PROVE  at' \in [Proc -> Handler]
BY DEF TypeOK, Handler, Goes

LEMMA PlanRunType == ASSUME TypeOK, NEW sem \in BOOLEAN, PlanRun(sem) PROVE TypeOK'
<1> DEFINE row == [NoRow EXCEPT !.status = "pending", !.version = version',
                                !.semantic = sem, !.plan = Step]
<1>1. version' \in Nat /\ count' \in 0 .. MaxRuns
  BY DEF PlanRun, TypeOK
<1>2. row \in Row
  BY <1>1, NoRowType DEF Row
<1>3. run' \in [Run -> Row]
  BY <1>2 DEF PlanRun, TypeOK
<1>4. others' \subseteq 1 .. version'
  BY DEF PlanRun, TypeOK
<1>5. QED
  BY <1>1, <1>3, <1>4 DEF PlanRun, TypeOK

LEMMA RunEndsType ==
  ASSUME TypeOK, NEW r \in Run, NEW e \in Ending, RunEnds(r, e) PROVE TypeOK'
<1>1. ASSUME NEW d \in SUBSET Step
      PROVE  [run[r] EXCEPT !.status = e, !.done = d] \in Row
  <2>1. run[r] \in Row
    BY DEF TypeOK
  <2>2. QED
    BY <2>1 DEF Row
<1>2. run[r].plan \in SUBSET Step
  BY DEF TypeOK, Row
<1>3. run' \in [Run -> Row]
  <2>1. CASE e = "completed"
    <3>1. run' = [run EXCEPT ![r] = [run[r] EXCEPT !.status = e, !.done = run[r].plan \ run[r].carried]]
      BY <2>1 DEF RunEnds, TypeOK
    <3>2. QED
      BY <1>1, <1>2, <3>1 DEF TypeOK
  <2>2. CASE e # "completed"
    <3>1. PICK f \in run[r].plan \ run[r].carried :
            run' = [run EXCEPT ![r] = [run[r] EXCEPT !.status = e, !.done = Before(r, f)]]
      BY <2>2 DEF RunEnds, TypeOK
    <3>2. Before(r, f) \in SUBSET Step
      BY <1>2 DEF Before
    <3>3. QED
      BY <1>1, <3>1, <3>2 DEF TypeOK
  <2>3. QED
    BY <2>1, <2>2
<1>4. QED
  BY <1>3 DEF RunEnds, TypeOK

(* A handler that is not idle works for a run. *)
OnARun == \A p \in Proc : at[p].pt # "idle" => at[p].r \in Run

LEMMA ClaimCriticType ==
  ASSUME TypeOK, OnARun, NEW p \in Proc, ClaimCritic(p) PROVE TypeOK'
<1> DEFINE r == at[p].r
           u == [run[r].usage EXCEPT !.llm = @ + 1, !.critic = @ + 1]
<1>1. at[p] \in Handler /\ r \in Run
  BY DEF TypeOK, Handler, OnARun, ClaimCritic
<1>2. run[r] \in Row /\ run[r].usage \in Usage /\ run[r].rec \in Recommendation
  BY <1>1 DEF TypeOK, Row
<1>3. CASE CriticClaimable(run[r])
  <2>1. u \in Usage
    BY <1>2, <1>3, CriticUsage DEF CriticClaimable
  <2>2. run' = [run EXCEPT ![r] = [run[r] EXCEPT !.critic = "STARTED", !.usage = u]]
    BY <1>1, <1>3 DEF ClaimCritic, TypeOK, Row, Usage
  <2> HIDE DEF u
  <2>3. [run[r] EXCEPT !.critic = "STARTED", !.usage = u] \in Row
    BY <1>2, <2>1 DEF Row, Marker
  <2>4. run' \in [Run -> Row]
    BY <1>1, <2>2, <2>3 DEF TypeOK
  <2>5. [at[p] EXCEPT !.pt = "reviewing"] \in Handler
    BY <1>1 DEF Handler, Point
  <2>6. at' \in [Proc -> Handler]
    BY <1>3, <2>5, GoesType DEF ClaimCritic
  <2>7. QED
    BY <2>4, <2>6 DEF ClaimCritic, TypeOK, Handler
<1>4. CASE ~CriticClaimable(run[r])
  <2> DEFINE rec == IF run[r].critic = "COMPLETED" THEN run[r].rec ELSE "replan"
  <2>1. rec \in Recommendation
    BY <1>2 DEF Recommendation
  <2>2. [at[p] EXCEPT !.pt = "decide", !.rec = rec] \in Handler
    BY <1>1, <2>1 DEF Handler, Point
  <2>3. at' \in [Proc -> Handler]
    BY <1>4, <2>2, GoesType DEF ClaimCritic
  <2>4. QED
    BY <1>4, <2>3 DEF ClaimCritic, TypeOK, Handler
<1>5. QED
  BY <1>3, <1>4

(* A call is counted. *)
LEMMA SpentType ==
  ASSUME TypeOK
  PROVE  /\ [spent EXCEPT !.llm = @ + 1] \in [llm : Nat, assess : Nat]
         /\ [spent EXCEPT !.llm = @ + 1, !.assess = @ + 1] \in [llm : Nat, assess : Nat]
<1>1. spent \in [llm : Nat, assess : Nat]
  BY DEF TypeOK
<1>2. spent.llm + 1 \in Nat /\ spent.assess + 1 \in Nat
  BY <1>1
<1>3. QED
  BY <1>1, <1>2

LEMMA ReviewType ==
  ASSUME TypeOK, OnARun, NEW p \in Proc, Review(p) PROVE TypeOK'
<1> DEFINE r == at[p].r
<1>1. at[p] \in Handler /\ r \in Run
  BY DEF TypeOK, Handler, OnARun, Review
<1>2. run[r] \in Row
  BY <1>1 DEF TypeOK
<1>3. \A rec \in Recommendation :
        /\ [run[r] EXCEPT !.critic = "COMPLETED", !.rec = rec] \in Row
        /\ [at[p] EXCEPT !.pt = "decide", !.rec = rec] \in Handler
  BY <1>1, <1>2 DEF Row, Marker, Handler, Point
<1>4. PICK rec \in Recommendation :
        /\ \/ run' = [run EXCEPT ![r] = [run[r] EXCEPT !.critic = "COMPLETED", !.rec = rec]]
           \/ run' = run
        /\ Goes(p, [at[p] EXCEPT !.pt = "decide", !.rec = rec])
  BY <1>1 DEF Review, TypeOK, Recommendation
<1>5. at' \in [Proc -> Handler]
  BY <1>3, <1>4, GoesType
<1>6. run' \in [Run -> Row]
  BY <1>1, <1>3, <1>4 DEF TypeOK
<1>7. reviewed' \in [Run -> Nat]
  <2>1. reviewed[r] + 1 \in Nat /\ reviewed \in [Run -> Nat]
    BY <1>1 DEF TypeOK
  <2>2. reviewed' = [reviewed EXCEPT ![r] = reviewed[r] + 1]
    BY DEF Review
  <2>3. QED
    BY <2>1, <2>2
<1>8. spent' \in [llm : Nat, assess : Nat]
  BY SpentType DEF Review
<1>9. QED
  BY <1>5, <1>6, <1>7, <1>8 DEF Review, TypeOK, Handler

LEMMA ClaimDraftType ==
  ASSUME TypeOK, OnARun, NEW p \in Proc, ClaimDraft(p) PROVE TypeOK'
<1> DEFINE r == at[p].r
           open == at[p].client /\ run[r].semantic /\ at[p].usage.replans < MaxReplans
           claims == open /\ run[r].draft = "none" /\ run[r].usage.llm < MaxLlmCalls
           u == [run[r].usage EXCEPT !.llm = @ + 1]
<1>1. at[p] \in Handler /\ r \in Run
  BY DEF TypeOK, Handler, OnARun, ClaimDraft
<1>2. run[r] \in Row /\ run[r].usage \in Usage /\ run[r].suffix \in SUBSET Step
  BY <1>1 DEF TypeOK, Row
<1>3. CASE claims
  <2>1. u \in Usage
    BY <1>2, <1>3, DraftUsage
  <2>2. run' = [run EXCEPT ![r] = [run[r] EXCEPT !.draft = "STARTED", !.usage = u]]
    BY <1>1, <1>3 DEF ClaimDraft, TypeOK, Row, Usage
  <2>3. Goes(p, [at[p] EXCEPT !.pt = "drafting"])
    BY <1>3 DEF ClaimDraft
  <2> HIDE DEF u, claims
  <2>4. [run[r] EXCEPT !.draft = "STARTED", !.usage = u] \in Row
    BY <1>2, <2>1 DEF Row, Marker
  <2>5. run' \in [Run -> Row]
    BY <1>1, <2>2, <2>4 DEF TypeOK
  <2>6. [at[p] EXCEPT !.pt = "drafting"] \in Handler
    BY <1>1 DEF Handler, Point
  <2>7. at' \in [Proc -> Handler]
    BY <2>3, <2>6, GoesType
  <2>8. QED
    BY <2>5, <2>7 DEF ClaimDraft, TypeOK, Handler
<1>4. CASE ~claims
  <2> DEFINE drafted == open /\ run[r].draft = "COMPLETED"
             suffix == IF open THEN run[r].suffix ELSE {}
  <2>1. drafted \in BOOLEAN /\ suffix \in SUBSET Step
    BY <1>2
  <2>2. Goes(p, [at[p] EXCEPT !.pt = "revise", !.drafted = drafted, !.suffix = suffix])
        /\ UNCHANGED run
    BY <1>4 DEF ClaimDraft
  <2> HIDE DEF drafted, suffix, claims
  <2>3. [at[p] EXCEPT !.pt = "revise", !.drafted = drafted, !.suffix = suffix] \in Handler
    BY <1>1, <2>1 DEF Handler, Point
  <2>4. at' \in [Proc -> Handler]
    BY <2>2, <2>3, GoesType
  <2>5. QED
    BY <2>2, <2>4 DEF ClaimDraft, TypeOK, Handler
<1> HIDE DEF claims
<1>5. QED
  BY <1>3, <1>4

LEMMA DraftType ==
  ASSUME TypeOK, OnARun, NEW p \in Proc, Draft(p) PROVE TypeOK'
<1> DEFINE r == at[p].r
<1>1. at[p] \in Handler /\ r \in Run
  BY DEF TypeOK, Handler, OnARun, Draft
<1>2. run[r] \in Row
  BY <1>1 DEF TypeOK
<1>3. spent' \in [llm : Nat, assess : Nat]
  BY SpentType DEF Draft
<1>4. run' \in [Run -> Row] /\ at' \in [Proc -> Handler]
  <2>1. ASSUME NEW S \in SUBSET Step,
               run' = [run EXCEPT ![r] = [run[r] EXCEPT !.draft = "COMPLETED", !.suffix = S]] \/ run' = run,
               Goes(p, [at[p] EXCEPT !.pt = "revise", !.drafted = TRUE, !.suffix = S])
        PROVE  run' \in [Run -> Row] /\ at' \in [Proc -> Handler]
    <3>1. [run[r] EXCEPT !.draft = "COMPLETED", !.suffix = S] \in Row
      BY <1>2 DEF Row, Marker
    <3>2. [at[p] EXCEPT !.pt = "revise", !.drafted = TRUE, !.suffix = S] \in Handler
      BY <1>1 DEF Handler, Point
    <3>3. at' \in [Proc -> Handler]
      BY <2>1, <3>2, GoesType
    <3>4. QED
      BY <1>1, <2>1, <3>1, <3>3 DEF TypeOK
  <2>2. ASSUME run' = run, Goes(p, [at[p] EXCEPT !.pt = "revise"])
        PROVE  run' \in [Run -> Row] /\ at' \in [Proc -> Handler]
    <3>1. [at[p] EXCEPT !.pt = "revise"] \in Handler
      BY <1>1 DEF Handler, Point
    <3>2. QED
      BY <2>2, <3>1, GoesType DEF TypeOK
  <2>3. CASE Goes(p, [at[p] EXCEPT !.pt = "revise"]) /\ UNCHANGED run
    BY <2>2, <2>3
  <2>4. CASE \E S \in (SUBSET (Step \ run[r].done)) \ {{}} :
               /\ run' = IF run[r].draft = "STARTED"
                         THEN [run EXCEPT ![r].draft = "COMPLETED", ![r].suffix = S]
                         ELSE run
               /\ Goes(p, [at[p] EXCEPT !.pt = "revise", !.drafted = TRUE, !.suffix = S])
    <3>1. PICK S \in SUBSET Step :
            /\ run' = IF run[r].draft = "STARTED"
                      THEN [run EXCEPT ![r].draft = "COMPLETED", ![r].suffix = S]
                      ELSE run
            /\ Goes(p, [at[p] EXCEPT !.pt = "revise", !.drafted = TRUE, !.suffix = S])
      BY <2>4
    <3>2. \/ run' = [run EXCEPT ![r] = [run[r] EXCEPT !.draft = "COMPLETED", !.suffix = S]]
          \/ run' = run
      BY <1>1, <3>1 DEF TypeOK
    <3>3. QED
      BY <2>1, <3>1, <3>2
  <2>5. QED
    BY <2>3, <2>4 DEF Draft
<1>5. QED
  BY <1>3, <1>4 DEF Draft, TypeOK, Handler

LEMMA ReviseType ==
  ASSUME TypeOK, OnARun, NEW p \in Proc, Revise(p) PROVE TypeOK'
<1> DEFINE u == [Lineage(p) EXCEPT !.replans = @ + 1]
<1>1. at[p] \in Handler /\ at[p].r \in Run
  BY DEF TypeOK, Handler, OnARun, Revise
<1>2. Lineage(p) \in Usage
  BY <1>1 DEF TypeOK, Lineage, Row
<1>3. at' \in [Proc -> Handler]
  <2>1. CASE /\ Lineage(p).replans < MaxReplans
             /\ Goes(p, [at[p] EXCEPT !.pt = "reload", !.usage = u])
    <3>1. u \in Usage
      BY <1>2, <2>1, ReplanUsage
    <3> HIDE DEF u
    <3>2. [at[p] EXCEPT !.pt = "reload", !.usage = u] \in Handler
      BY <1>1, <3>1 DEF Handler, Point
    <3>3. QED
      BY <2>1, <3>2, GoesType
  <2>2. CASE Returns(p)
    BY <2>2, IdleType, GoesType DEF Returns
  <2>3. QED
    BY <2>1, <2>2 DEF Revise
<1>4. QED
  BY <1>3 DEF Revise, TypeOK, Handler

LEMMA ReloadType ==
  ASSUME TypeOK, OnARun, NEW p \in Proc, Reload(p) PROVE TypeOK'
<1>1. at[p] \in Handler /\ at[p].r \in Run
  BY DEF TypeOK, Handler, OnARun, Reload
<1>2. run[at[p].r] \in Row
  BY <1>1 DEF TypeOK
<1>3. [at[p] EXCEPT !.pt = "cutover", !.copy = run[at[p].r]] \in Handler
  BY <1>1, <1>2 DEF Handler, Point
<1>4. at' \in [Proc -> Handler]
  BY <1>3, GoesType DEF Reload
<1>5. QED
  BY <1>4 DEF Reload, TypeOK, Handler

(* The rows a cutover writes. *)
LEMMA CutoverRows ==
  ASSUME TypeOK, NEW p \in Proc, at[p].r \in Run, NEW c \in Run
  PROVE  Child(p) \in Row /\ Parent(p, c) \in Row
<1>1. at[p] \in Handler /\ run[at[p].r] \in Row /\ version \in Nat
  BY DEF TypeOK, Handler
<1>2. at[p].usage \in Usage /\ at[p].copy \in Row /\ at[p].suffix \in SUBSET Step
  BY <1>1 DEF Handler
<1>3. PlanOf(p) \in SUBSET Step /\ CarriedBy(p) \in SUBSET Step /\ run[at[p].r].semantic \in BOOLEAN
  BY <1>1, <1>2 DEF PlanOf, CarriedBy, Row
<1>4. Parent(p, c) \in Row
  BY <1>2 DEF Parent, Row
<1> DEFINE P == PlanOf(p)
           C == CarriedBy(p)
           v == version + 1
           r == at[p].r
           row == [NoRow EXCEPT !.status = "pending", !.from = r, !.version = v,
                                !.semantic = run[r].semantic, !.usage = at[p].usage,
                                !.plan = P, !.carried = C]
<1>5. Child(p) \in Row
  <2>1. Child(p) = row
    BY DEF Child
  <2>2. v \in Nat /\ r \in Run /\ P \in SUBSET Step /\ C \in SUBSET Step
    BY <1>1, <1>3
  <2> HIDE DEF P, C, v
  <2>3. row \in Row
    BY <1>2, <1>3, <2>2, NoRowType DEF Row
  <2>4. QED
    BY <2>1, <2>3
<1>6. QED
  BY <1>4, <1>5

LEMMA CutoverType ==
  ASSUME TypeOK, OnARun, NEW p \in Proc, Cutover(p) PROVE TypeOK'
<1>1. at[p].r \in Run
  BY DEF OnARun, Cutover
<1>2. count' \in 0 .. MaxRuns /\ count' \in Run /\ version' \in Nat
      /\ others' \subseteq 1 .. version'
  BY DEF Cutover, TypeOK, Run
<1>3. Child(p) \in Row /\ Parent(p, count') \in Row
  BY <1>1, <1>2, CutoverRows
<1>4. run' \in [Run -> Row]
  BY <1>1, <1>2, <1>3 DEF Cutover, TypeOK
<1>5. at' \in [Proc -> Handler]
  BY IdleType, GoesType DEF Cutover, Returns
<1>6. QED
  BY <1>2, <1>4, <1>5 DEF Cutover, TypeOK, Handler

LEMMA ReadType ==
  ASSUME TypeOK, NEW p \in Proc, NEW r \in Run, NEW client \in BOOLEAN, Read(p, r, client)
  PROVE  TypeOK'
<1> DEFINE pt == IF client THEN "critic" ELSE "semantic"
<1>1. run[r].usage \in Usage
  BY DEF TypeOK, Row
<1>2. pt \in Point
  BY DEF Point
<1>3. Goes(p, [Idle EXCEPT !.pt = pt, !.r = r, !.client = client, !.usage = run[r].usage])
  BY DEF Read
<1> HIDE DEF pt
<1>4. [Idle EXCEPT !.pt = pt, !.r = r, !.client = client, !.usage = run[r].usage] \in Handler
  BY <1>1, <1>2, IdleType DEF Handler
<1>5. at' \in [Proc -> Handler]
  BY <1>3, <1>4, GoesType
<1>6. QED
  BY <1>5 DEF Read, TypeOK, Handler

LEMMA DecideType ==
  ASSUME TypeOK, OnARun, NEW p \in Proc, Decide(p) PROVE TypeOK'
<1>1. at[p] \in Handler
  BY DEF TypeOK, Handler
<1>2. [at[p] EXCEPT !.pt = "semantic"] \in Handler
  BY <1>1 DEF Handler, Point
<1>3. at' \in [Proc -> Handler]
  BY <1>2, IdleType, GoesType DEF Decide, Returns
<1>4. QED
  BY <1>3 DEF Decide, TypeOK, Handler

LEMMA CrashType ==
  ASSUME TypeOK, OnARun, NEW p \in Proc, Crash(p) PROVE TypeOK'
<1> DEFINE r == at[p].r
<1>1. at' \in [Proc -> Handler]
  BY IdleType, GoesType DEF Crash, Returns
<1>2. spent' \in [llm : Nat, assess : Nat]
  BY SpentType DEF Crash, TypeOK
<1>3. reviewed' \in [Run -> Nat]
  <2>1. r \in Run /\ reviewed[r] + 1 \in Nat /\ reviewed \in [Run -> Nat]
    BY DEF TypeOK, OnARun, Crash
  <2>2. reviewed' \in {reviewed, [reviewed EXCEPT ![r] = reviewed[r] + 1]}
    BY DEF Crash
  <2>3. QED
    BY <2>1, <2>2
<1>4. QED
  BY <1>1, <1>2, <1>3 DEF Crash, TypeOK, Handler

LEMMA AssessType ==
  ASSUME TypeOK, NEW r \in Run,
         \/ AssessWithoutProvider(r) \/ ClaimAssessment(r) \/ CompleteAssessment(r)
         \/ CrashAssessing(r)
  PROVE  TypeOK'
<1> DEFINE u == [run[r].usage EXCEPT !.llm = @ + 1, !.assess = @ + 1]
<1>1. run[r] \in Row /\ run[r].usage \in Usage
  BY DEF TypeOK, Row
<1>2. [run EXCEPT ![r].assess = "COMPLETED"] \in [Run -> Row]
  BY <1>1 DEF TypeOK, Row, Marker
<1>3. CASE AssessWithoutProvider(r)
  BY <1>2, <1>3 DEF AssessWithoutProvider, TypeOK
<1>4. CASE ClaimAssessment(r)
  <2>1. u \in Usage
    BY <1>1, <1>4, AssessUsage DEF ClaimAssessment
  <2>2. run' = [run EXCEPT ![r] = [run[r] EXCEPT !.assess = "STARTED", !.usage = u]]
    BY <1>4 DEF ClaimAssessment, TypeOK, Row, Usage
  <2> HIDE DEF u
  <2>3. run' \in [Run -> Row]
    BY <1>1, <2>1, <2>2 DEF TypeOK, Row, Marker
  <2>4. QED
    BY <1>4, <2>3 DEF ClaimAssessment, TypeOK
<1>5. CASE CompleteAssessment(r)
  <2>1. spent' \in [llm : Nat, assess : Nat]
    BY <1>5, SpentType DEF CompleteAssessment
  <2>2. QED
    BY <1>2, <1>5, <2>1 DEF CompleteAssessment, TypeOK
<1>6. CASE CrashAssessing(r)
  <2>1. spent' \in [llm : Nat, assess : Nat]
    BY <1>6, SpentType DEF CrashAssessing, TypeOK
  <2>2. QED
    BY <1>6, <2>1 DEF CrashAssessing, TypeOK
<1>7. QED
  BY <1>3, <1>4, <1>5, <1>6

(* Every step keeps the handlers at work on a run. *)
LEMMA OnARunStep ==
  ASSUME TypeOK, OnARun, [Next]_vars PROVE OnARun'
<1>1. \A q \in Proc : at[q] \in Handler
  BY DEF TypeOK, Handler
<1>2. ASSUME UNCHANGED at PROVE OnARun'
  BY <1>2 DEF OnARun
<1>3. ASSUME NEW p \in Proc, NEW h \in Handler, Goes(p, h), h.pt # "idle" => h.r \in Run
      PROVE  OnARun'
  BY <1>3 DEF OnARun, Goes, TypeOK, Handler
<1>4. ASSUME NEW p \in Proc, Returns(p) PROVE OnARun'
  BY <1>3, <1>4, IdleType DEF Returns, Idle
<1>5. ASSUME NEW p \in Proc, at[p].pt # "idle", NEW h \in Handler, Goes(p, h), h.r = at[p].r
      PROVE  OnARun'
  BY <1>3, <1>5 DEF OnARun
<1>6. CASE UNCHANGED vars
  BY <1>2, <1>6 DEF vars
<1>7. CASE \/ \E sem \in BOOLEAN : PlanRun(sem)
           \/ OtherRun
           \/ \E r \in Run, e \in Ending : RunEnds(r, e)
  BY <1>2, <1>7 DEF PlanRun, OtherRun, RunEnds
<1>8. CASE \E r \in Run : \/ AssessWithoutProvider(r) \/ ClaimAssessment(r)
                         \/ CompleteAssessment(r) \/ CrashAssessing(r)
  BY <1>2, <1>8 DEF AssessWithoutProvider, ClaimAssessment, CompleteAssessment, CrashAssessing
<1>9. ASSUME NEW p \in Proc, Replan(p) \/ Crash(p) PROVE OnARun'
  <2>1. \A q \in Proc \ {p} : at'[q] = at[q]
    <3>1. \E h : Goes(p, h)
      BY <1>9 DEF Replan, Crash, Returns, Read, ClaimCritic, Review, Decide, ClaimDraft, Draft,
                  Revise, Reload, Cutover
    <3>2. QED
      BY <3>1 DEF Goes, TypeOK
  <2>2. \A q \in Proc \ {p} : at'[q].pt # "idle" => at'[q].r \in Run
    BY <2>1 DEF OnARun
  <2>3. at'[p].pt # "idle" => at'[p].r \in Run
    <3>1. ASSUME NEW r \in Run, NEW client \in BOOLEAN, Read(p, r, client)
          PROVE  at'[p].r \in Run
      BY <3>1, IdleType DEF Read, Goes, TypeOK, Handler
    <3>2. ASSUME Returns(p) PROVE at'[p].pt = "idle"
      BY <3>2, IdleType DEF Returns, Goes, TypeOK, Idle
    <3>3. ASSUME at[p].pt # "idle", NEW h, Goes(p, h), h.r = at[p].r
          PROVE  at'[p].r \in Run
      BY <3>3 DEF Goes, TypeOK, OnARun
    <3>4. /\ \A x : [at[p] EXCEPT !.pt = x].r = at[p].r
          /\ \A x, y : [at[p] EXCEPT !.pt = x, !.rec = y].r = at[p].r
          /\ \A x, y : [at[p] EXCEPT !.pt = x, !.usage = y].r = at[p].r
          /\ \A x, y : [at[p] EXCEPT !.pt = x, !.copy = y].r = at[p].r
          /\ \A x, y, z : [at[p] EXCEPT !.pt = x, !.drafted = y, !.suffix = z].r = at[p].r
      BY <1>1 DEF Handler
    <3>5. CASE ClaimCritic(p) \/ Review(p)
      <4>1. CASE ClaimCritic(p)
        <5>1. \/ Goes(p, [at[p] EXCEPT !.pt = "reviewing"])
              \/ \E y : Goes(p, [at[p] EXCEPT !.pt = "decide", !.rec = y])
          BY <4>1 DEF ClaimCritic
        <5>2. at[p].pt # "idle"
          BY <4>1 DEF ClaimCritic
        <5>3. CASE Goes(p, [at[p] EXCEPT !.pt = "reviewing"])
          BY <3>3, <3>4, <5>2, <5>3
        <5>4. CASE \E y : Goes(p, [at[p] EXCEPT !.pt = "decide", !.rec = y])
          <6>1. PICK y : Goes(p, [at[p] EXCEPT !.pt = "decide", !.rec = y])
            BY <5>4
          <6>2. QED
            BY <3>3, <3>4, <5>2, <6>1
        <5>5. QED
          BY <5>1, <5>3, <5>4
      <4>2. CASE Review(p)
        <5>1. PICK y : Goes(p, [at[p] EXCEPT !.pt = "decide", !.rec = y])
          BY <4>2 DEF Review
        <5>2. QED
          BY <3>3, <3>4, <4>2, <5>1 DEF Review
      <4>3. QED
        BY <3>5, <4>1, <4>2
    <3>6. CASE Decide(p) \/ ClaimDraft(p) \/ Draft(p)
      <4>1. CASE Decide(p)
        BY <3>2, <3>3, <3>4, <4>1 DEF Decide
      <4>2. CASE ClaimDraft(p) \/ Draft(p)
        <5>1. \/ \E x : Goes(p, [at[p] EXCEPT !.pt = x])
              \/ \E x, y, z : Goes(p, [at[p] EXCEPT !.pt = x, !.drafted = y, !.suffix = z])
          BY <4>2 DEF ClaimDraft, Draft
        <5>2. at[p].pt # "idle"
          BY <4>2 DEF ClaimDraft, Draft
        <5>3. CASE \E x : Goes(p, [at[p] EXCEPT !.pt = x])
          <6>1. PICK x : Goes(p, [at[p] EXCEPT !.pt = x])
            BY <5>3
          <6>2. QED
            BY <3>3, <3>4, <5>2, <6>1
        <5>4. CASE \E x, y, z : Goes(p, [at[p] EXCEPT !.pt = x, !.drafted = y, !.suffix = z])
          <6>1. PICK x, y, z : Goes(p, [at[p] EXCEPT !.pt = x, !.drafted = y, !.suffix = z])
            BY <5>4
          <6> DEFINE h == [at[p] EXCEPT !.pt = x, !.drafted = y, !.suffix = z]
          <6>2. h.r = at[p].r
            BY <1>1 DEF Handler
          <6>3. Goes(p, h)
            BY <6>1
          <6> HIDE DEF h
          <6>4. QED
            BY <3>3, <5>2, <6>2, <6>3
        <5>5. QED
          BY <5>1, <5>3, <5>4
      <4>3. QED
        BY <3>6, <4>1, <4>2
    <3>7. CASE Revise(p) \/ Reload(p)
      BY <3>2, <3>3, <3>4, <3>7 DEF Revise, Reload
    <3>8. CASE Cutover(p) \/ Crash(p)
      BY <3>2, <3>8 DEF Cutover, Crash
    <3>9. QED
      BY <1>9, <3>1, <3>5, <3>6, <3>7, <3>8 DEF Replan
  <2>4. QED
    BY <2>2, <2>3 DEF OnARun
<1>10. QED
  BY <1>6, <1>7, <1>8, <1>9 DEF Next

LEMMA TypeStep ==
  ASSUME TypeOK, OnARun, [Next]_vars PROVE TypeOK'
<1>1. CASE UNCHANGED vars
  BY <1>1 DEF vars, TypeOK
<1>2. ASSUME NEW sem \in BOOLEAN, PlanRun(sem) PROVE TypeOK'
  BY <1>2, PlanRunType
<1>3. CASE OtherRun
  BY <1>3 DEF OtherRun, TypeOK
<1>4. ASSUME NEW r \in Run, NEW e \in Ending, RunEnds(r, e) PROVE TypeOK'
  BY <1>4, RunEndsType
<1>5. ASSUME NEW p \in Proc, Replan(p) \/ Crash(p) PROVE TypeOK'
  <2>1. CASE \E r \in Run, client \in BOOLEAN : Read(p, r, client)
    BY <2>1, ReadType
  <2>2. CASE ClaimCritic(p) \/ Review(p) \/ Decide(p) \/ ClaimDraft(p)
    BY <2>2, ClaimCriticType, ReviewType, DecideType, ClaimDraftType
  <2>3. CASE Draft(p) \/ Revise(p) \/ Reload(p) \/ Cutover(p) \/ Crash(p)
    BY <2>3, DraftType, ReviseType, ReloadType, CutoverType, CrashType
  <2>4. QED
    BY <1>5, <2>1, <2>2, <2>3 DEF Replan
<1>6. CASE \E r \in Run : \/ AssessWithoutProvider(r) \/ ClaimAssessment(r)
                         \/ CompleteAssessment(r) \/ CrashAssessing(r)
  BY <1>6, AssessType
<1>7. QED
  BY <1>1, <1>2, <1>3, <1>4, <1>5, <1>6 DEF Next

(* Rows, handlers and counters keep their shape: in particular no run ever *)
(* records more calls of the provider, or more replans, than its budget.   *)
THEOREM TypeCorrect == Spec => []TypeOK
<1>1. Init => TypeOK /\ OnARun
  <2>1. Init => OnARun
    BY DEF Init, OnARun, Idle
  <2>2. QED
    BY <2>1, TypeInit
<1>2. TypeOK /\ OnARun /\ [Next]_vars => (TypeOK /\ OnARun)'
  BY TypeStep, OnARunStep
<1>3. QED
  BY <1>1, <1>2, PTL DEF Spec

-----------------------------------------------------------------------------
(* Versions                                                                *)

(* What a row keeps from its creation. *)
Stamp(row) == <<row.version, row.from, row.status = "none">>

(* The rows that exist are the first count; a handler works for one of     *)
(* them, and the copy it is about to write back has the stamp of that row. *)
VersionInv ==
  /\ \A r \in Run :
       /\ run[r].version <= version /\ run[r].version \notin others
       /\ run[r].from <= count
       /\ r > count => run[r].version = 0 /\ run[r].from = NoRun /\ run[r].status = "none"
  /\ \A r, c \in Run : run[c].from = r => run[r].version < run[c].version
  /\ \A p \in Proc :
       /\ at[p].pt # "idle" => at[p].r \in 1 .. count
       /\ at[p].pt = "cutover" => /\ at[p].copy.version = run[at[p].r].version
                                  /\ at[p].copy.from = run[at[p].r].from

(* A step that creates nothing: rows keep their stamps, handlers what they *)
(* know.                                                                   *)
Quiet ==
  /\ UNCHANGED <<count, version, others>>
  /\ \A r \in Run : /\ run'[r].version = run[r].version /\ run'[r].from = run[r].from
                    /\ run'[r].status = "none" <=> run[r].status = "none"
  /\ \A p \in Proc : at'[p].pt # "idle" => at'[p].r \in 1 .. count
  /\ \A p \in Proc :
       at'[p].pt = "cutover" => /\ at'[p].copy.version = run[at'[p].r].version
                                /\ at'[p].copy.from = run[at'[p].r].from

LEMMA QuietKeeps ==
  ASSUME TypeOK, TypeOK', VersionInv, Quiet PROVE VersionInv'
<1>1. \A r \in Run :
        /\ run'[r].version <= version' /\ run'[r].version \notin others'
        /\ run'[r].from <= count'
        /\ r > count' => run'[r].version = 0 /\ run'[r].from = NoRun /\ run'[r].status = "none"
  BY DEF VersionInv, Quiet
<1>2. \A r, c \in Run : run'[c].from = r => run'[r].version < run'[c].version
  BY DEF VersionInv, Quiet
<1>3. \A p \in Proc :
        /\ at'[p].pt # "idle" => at'[p].r \in 1 .. count'
        /\ at'[p].pt = "cutover" => /\ at'[p].copy.version = run'[at'[p].r].version
                                    /\ at'[p].copy.from = run'[at'[p].r].from
  <2> TAKE p \in Proc
  <2>1. at'[p].pt # "idle" => at'[p].r \in 1 .. count' /\ at'[p].r \in Run
    BY DEF Quiet, TypeOK, Run
  <2>2. QED
    BY <2>1 DEF Quiet
<1>4. QED
  BY <1>1, <1>2, <1>3 DEF VersionInv

(* A step that updates one row without touching its stamp, and may move    *)
(* one handler on to a point that is not the cutover.                      *)
LEMMA RowQuiet ==
  ASSUME TypeOK, VersionInv, UNCHANGED <<count, version, others>>,
         NEW r \in Run, NEW row, Stamp(row) = Stamp(run[r]),
         run' = [run EXCEPT ![r] = row] \/ run' = run,
         \A p \in Proc : \/ at'[p] = at[p] \/ at'[p].pt = "idle"
                         \/ at'[p].pt # "cutover" /\ at'[p].r \in 1 .. count
  PROVE  Quiet
<1>1. \A q \in Run : /\ run'[q].version = run[q].version /\ run'[q].from = run[q].from
                     /\ run'[q].status = "none" <=> run[q].status = "none"
  <2> TAKE q \in Run
  <2>1. run \in [Run -> Row]
    BY DEF TypeOK
  <2>2. run'[q] = run[q] \/ (q = r /\ run'[q] = row)
    BY <2>1
  <2>3. QED
    BY <2>2 DEF Stamp
<1>2. \A p \in Proc : at'[p].pt # "idle" => at'[p].r \in 1 .. count
  BY DEF VersionInv
<1>3. \A p \in Proc :
        at'[p].pt = "cutover" => /\ at'[p].copy.version = run[at'[p].r].version
                                 /\ at'[p].copy.from = run[at'[p].r].from
  BY DEF VersionInv
<1>4. QED
  BY <1>1, <1>2, <1>3 DEF Quiet

(* The handlers, when p moves on to h for the run it works for. *)
LEMMA GoesQuiet ==
  ASSUME TypeOK, VersionInv, NEW p \in Proc, NEW h \in Handler, Goes(p, h),
         h.pt = "idle" \/ (h.pt # "cutover" /\ h.r \in 1 .. count)
  PROVE  \A q \in Proc : \/ at'[q] = at[q] \/ at'[q].pt = "idle"
                         \/ at'[q].pt # "cutover" /\ at'[q].r \in 1 .. count
BY DEF Goes, TypeOK

LEMMA StillQuiet ==
  ASSUME TypeOK, VersionInv, UNCHANGED <<count, version, others, run>>,
         \A p \in Proc : \/ at'[p] = at[p] \/ at'[p].pt = "idle"
                         \/ at'[p].pt # "cutover" /\ at'[p].r \in 1 .. count
  PROVE  Quiet
<1>1. 1 \in Run
  BY DEF Run
<1>2. Stamp(run[1]) = Stamp(run[1])
  OBVIOUS
<1>3. QED
  BY <1>1, <1>2, RowQuiet

LEMMA UnderWay ==
  ASSUME TypeOK, VersionInv, NEW p \in Proc, at[p].pt # "idle"
  PROVE  at[p] \in Handler /\ at[p].r \in Run /\ at[p].r \in 1 .. count /\ run[at[p].r] \in Row
BY DEF VersionInv, TypeOK, Run, Handler

LEMMA ClaimCriticQuiet ==
  ASSUME TypeOK, VersionInv, NEW p \in Proc, ClaimCritic(p) PROVE Quiet
<1> DEFINE r == at[p].r
           u == [run[r].usage EXCEPT !.llm = @ + 1, !.critic = @ + 1]
           row == [run[r] EXCEPT !.critic = "STARTED", !.usage = u]
           rec == IF run[r].critic = "COMPLETED" THEN run[r].rec ELSE "replan"
           g == [at[p] EXCEPT !.pt = "reviewing"]
           h == [at[p] EXCEPT !.pt = "decide", !.rec = rec]
<1>1. at[p].pt # "idle"
  BY DEF ClaimCritic
<1>2. at[p] \in Handler /\ r \in Run /\ r \in 1 .. count /\ run[r] \in Row
  BY <1>1, UnderWay
<1>3. UNCHANGED <<count, version, others>>
  BY DEF ClaimCritic
<1>4. \/ run' = [run EXCEPT ![r] = row] /\ Goes(p, g)
      \/ UNCHANGED run /\ Goes(p, h)
  BY <1>2 DEF ClaimCritic, TypeOK, Row, Usage
<1>5. Stamp(row) = Stamp(run[r])
  BY <1>2 DEF Row, Stamp
<1>6. rec \in Recommendation
  BY <1>2 DEF Row, Recommendation
<1>7. g \in Handler /\ g.pt # "cutover" /\ g.r = r
  BY <1>2 DEF Handler, Point
<1> HIDE DEF rec
<1>8. h \in Handler /\ h.pt # "cutover" /\ h.r = r
  BY <1>2, <1>6 DEF Handler, Point
<1> HIDE DEF u, row, g, h
<1>9. \A q \in Proc : \/ at'[q] = at[q] \/ at'[q].pt = "idle"
                      \/ at'[q].pt # "cutover" /\ at'[q].r \in 1 .. count
  BY <1>2, <1>4, <1>7, <1>8, GoesQuiet
<1>10. QED
  BY <1>2, <1>3, <1>4, <1>5, <1>9, RowQuiet

LEMMA ReviewQuiet ==
  ASSUME TypeOK, VersionInv, NEW p \in Proc, Review(p) PROVE Quiet
<1> DEFINE r == at[p].r
           row(c) == [run[r] EXCEPT !.critic = "COMPLETED", !.rec = c]
           h(c) == [at[p] EXCEPT !.pt = "decide", !.rec = c]
<1>1. at[p].pt # "idle"
  BY DEF Review
<1>2. at[p] \in Handler /\ r \in Run /\ r \in 1 .. count /\ run[r] \in Row
  BY <1>1, UnderWay
<1>3. UNCHANGED <<count, version, others>>
  BY DEF Review
<1>4. PICK rec \in Recommendation :
        /\ run' = [run EXCEPT ![r] = row(rec)] \/ run' = run
        /\ Goes(p, h(rec))
  BY <1>2 DEF Review, TypeOK, Recommendation
<1>5. Stamp(row(rec)) = Stamp(run[r])
  BY <1>2 DEF Row, Stamp
<1>6. h(rec) \in Handler /\ h(rec).pt # "cutover" /\ h(rec).r = r
  BY <1>2 DEF Handler, Point
<1> HIDE DEF row, h
<1>7. \A q \in Proc : \/ at'[q] = at[q] \/ at'[q].pt = "idle"
                      \/ at'[q].pt # "cutover" /\ at'[q].r \in 1 .. count
  BY <1>2, <1>4, <1>6, GoesQuiet
<1>8. QED
  BY <1>2, <1>3, <1>4, <1>5, <1>7, RowQuiet

LEMMA ClaimDraftQuiet ==
  ASSUME TypeOK, VersionInv, NEW p \in Proc, ClaimDraft(p) PROVE Quiet
<1> DEFINE r == at[p].r
           open == at[p].client /\ run[r].semantic /\ at[p].usage.replans < MaxReplans
           row == [run[r] EXCEPT !.draft = "STARTED",
                                 !.usage = [run[r].usage EXCEPT !.llm = @ + 1]]
           drafted == open /\ run[r].draft = "COMPLETED"
           suffix == IF open THEN run[r].suffix ELSE {}
           g == [at[p] EXCEPT !.pt = "drafting"]
           h == [at[p] EXCEPT !.pt = "revise", !.drafted = drafted, !.suffix = suffix]
<1>1. at[p].pt # "idle"
  BY DEF ClaimDraft
<1>2. at[p] \in Handler /\ r \in Run /\ r \in 1 .. count /\ run[r] \in Row
  BY <1>1, UnderWay
<1>3. UNCHANGED <<count, version, others>>
  BY DEF ClaimDraft
<1>4. \/ run' = [run EXCEPT ![r] = row] /\ Goes(p, g)
      \/ UNCHANGED run /\ Goes(p, h)
  BY <1>2 DEF ClaimDraft, TypeOK, Row, Usage
<1>5. Stamp(row) = Stamp(run[r])
  BY <1>2 DEF Row, Stamp
<1>6. drafted \in BOOLEAN /\ suffix \in SUBSET Step
  BY <1>2 DEF Row
<1>7. g \in Handler /\ g.pt # "cutover" /\ g.r = r
  BY <1>2 DEF Handler, Point
<1> HIDE DEF drafted, suffix, open
<1>8. h \in Handler /\ h.pt # "cutover" /\ h.r = r
  BY <1>2, <1>6 DEF Handler, Point
<1> HIDE DEF row, g, h
<1>9. \A q \in Proc : \/ at'[q] = at[q] \/ at'[q].pt = "idle"
                      \/ at'[q].pt # "cutover" /\ at'[q].r \in 1 .. count
  BY <1>2, <1>4, <1>7, <1>8, GoesQuiet
<1>10. QED
  BY <1>2, <1>3, <1>4, <1>5, <1>9, RowQuiet

LEMMA DraftQuiet ==
  ASSUME TypeOK, VersionInv, NEW p \in Proc, Draft(p) PROVE Quiet
<1> DEFINE r == at[p].r
           row(S) == [run[r] EXCEPT !.draft = "COMPLETED", !.suffix = S]
           g == [at[p] EXCEPT !.pt = "revise"]
           h(S) == [at[p] EXCEPT !.pt = "revise", !.drafted = TRUE, !.suffix = S]
<1>1. at[p].pt # "idle"
  BY DEF Draft
<1>2. at[p] \in Handler /\ r \in Run /\ r \in 1 .. count /\ run[r] \in Row
  BY <1>1, UnderWay
<1>3. UNCHANGED <<count, version, others>>
  BY DEF Draft
<1>4. PICK S \in SUBSET Step :
        \/ (run' = [run EXCEPT ![r] = row(S)] \/ run' = run) /\ Goes(p, h(S))
        \/ run' = run /\ Goes(p, g)
  <2>1. CASE Goes(p, g) /\ UNCHANGED run
    BY <2>1
  <2>2. CASE \E S \in (SUBSET (Step \ run[r].done)) \ {{}} :
               /\ run' = IF run[r].draft = "STARTED"
                         THEN [run EXCEPT ![r].draft = "COMPLETED", ![r].suffix = S]
                         ELSE run
               /\ Goes(p, h(S))
    <3>1. PICK S \in SUBSET Step :
            /\ run' = IF run[r].draft = "STARTED"
                      THEN [run EXCEPT ![r].draft = "COMPLETED", ![r].suffix = S]
                      ELSE run
            /\ Goes(p, h(S))
      BY <2>2
    <3>2. run' = [run EXCEPT ![r] = row(S)] \/ run' = run
      BY <1>2, <3>1 DEF TypeOK
    <3>3. QED
      BY <3>1, <3>2
  <2>3. QED
    BY <2>1, <2>2 DEF Draft
<1>5. Stamp(row(S)) = Stamp(run[r])
  BY <1>2 DEF Row, Stamp
<1>6. g \in Handler /\ g.pt # "cutover" /\ g.r = r
  BY <1>2 DEF Handler, Point
<1>7. h(S) \in Handler /\ h(S).pt # "cutover" /\ h(S).r = r
  BY <1>2 DEF Handler, Point
<1> HIDE DEF row, g, h
<1>8. \A q \in Proc : \/ at'[q] = at[q] \/ at'[q].pt = "idle"
                      \/ at'[q].pt # "cutover" /\ at'[q].r \in 1 .. count
  BY <1>2, <1>4, <1>6, <1>7, GoesQuiet
<1>9. QED
  BY <1>2, <1>3, <1>4, <1>5, <1>8, RowQuiet

LEMMA ReadQuiet ==
  ASSUME TypeOK, VersionInv, NEW p \in Proc, NEW r \in Run, NEW client \in BOOLEAN,
         Read(p, r, client)
  PROVE  Quiet
<1> DEFINE pt == IF client THEN "critic" ELSE "semantic"
           h == [Idle EXCEPT !.pt = pt, !.r = r, !.client = client, !.usage = run[r].usage]
<1>1. run[r].usage \in Usage /\ r \in 1 .. count
  <2>1. run[r].status # "none" /\ run[r].usage \in Usage
    BY DEF TypeOK, Row, Read
  <2>2. ~(r > count)
    BY <2>1 DEF VersionInv
  <2>3. QED
    BY <2>1, <2>2 DEF Run, TypeOK
<1>2. pt \in Point /\ pt # "cutover"
  BY DEF Point
<1>3. Goes(p, h) /\ UNCHANGED <<count, version, others, run>>
  BY DEF Read
<1> HIDE DEF pt
<1>4. h \in Handler /\ h.pt # "cutover" /\ h.r = r
  BY <1>1, <1>2, IdleType DEF Handler
<1> HIDE DEF h
<1>5. QED
  BY <1>1, <1>3, <1>4, GoesQuiet, StillQuiet

LEMMA DecideQuiet ==
  ASSUME TypeOK, VersionInv, NEW p \in Proc, Decide(p) PROVE Quiet
<1> DEFINE h == [at[p] EXCEPT !.pt = "semantic"]
<1>1. at[p] \in Handler /\ at[p].r \in 1 .. count
  BY UnderWay DEF Decide
<1>2. h \in Handler /\ h.pt # "cutover" /\ h.r = at[p].r
  BY <1>1 DEF Handler, Point
<1>3. (Goes(p, h) \/ Goes(p, Idle)) /\ UNCHANGED <<count, version, others, run>>
  BY DEF Decide, Returns
<1>4. Idle.pt = "idle"
  BY DEF Idle
<1> HIDE DEF h
<1>5. QED
  BY <1>1, <1>2, <1>3, <1>4, IdleType, GoesQuiet, StillQuiet

LEMMA ReviseQuiet ==
  ASSUME TypeOK, VersionInv, NEW p \in Proc, Revise(p) PROVE Quiet
<1> DEFINE u == [Lineage(p) EXCEPT !.replans = @ + 1]
           h == [at[p] EXCEPT !.pt = "reload", !.usage = u]
<1>1. at[p] \in Handler /\ at[p].r \in 1 .. count /\ at[p].r \in Run
  BY UnderWay DEF Revise
<1>2. Lineage(p) \in Usage
  BY <1>1 DEF TypeOK, Lineage, Row
<1>3. \/ Lineage(p).replans < MaxReplans /\ Goes(p, h)
      \/ Goes(p, Idle)
  BY DEF Revise, Returns
<1>4. Idle.pt = "idle" /\ UNCHANGED <<count, version, others, run>>
  BY DEF Idle, Revise
<1>5. CASE Lineage(p).replans < MaxReplans /\ Goes(p, h)
  <2>1. u \in Usage
    BY <1>2, <1>5, ReplanUsage
  <2> HIDE DEF u
  <2>2. h \in Handler /\ h.pt # "cutover" /\ h.r = at[p].r
    BY <1>1, <2>1 DEF Handler, Point
  <2> HIDE DEF h
  <2>3. QED
    BY <1>1, <1>4, <1>5, <2>2, GoesQuiet, StillQuiet
<1>6. CASE Goes(p, Idle)
  BY <1>4, <1>6, IdleType, GoesQuiet, StillQuiet
<1>7. QED
  BY <1>3, <1>5, <1>6

(* The handler reads the row it will write back. *)
LEMMA ReloadQuiet ==
  ASSUME TypeOK, VersionInv, NEW p \in Proc, Reload(p) PROVE Quiet
<1> DEFINE h == [at[p] EXCEPT !.pt = "cutover", !.copy = run[at[p].r]]
<1>1. at[p] \in Handler /\ at[p].r \in 1 .. count /\ at[p].r \in Run /\ run[at[p].r] \in Row
  BY UnderWay DEF Reload
<1>2. h.pt = "cutover" /\ h.r = at[p].r /\ h.copy = run[at[p].r]
  BY <1>1 DEF Handler
<1>3. at' = [at EXCEPT ![p] = h] /\ UNCHANGED <<count, version, others, run>>
  BY DEF Reload, Goes
<1> HIDE DEF h
<1>5. \A q \in Proc : at'[q] = at[q] \/ (q = p /\ at'[q] = h)
  BY <1>3 DEF TypeOK
<1>6. \A q \in Proc : at'[q].pt # "idle" => at'[q].r \in 1 .. count
  BY <1>1, <1>2, <1>5 DEF VersionInv
<1>7. \A q \in Proc :
        at'[q].pt = "cutover" => /\ at'[q].copy.version = run[at'[q].r].version
                                 /\ at'[q].copy.from = run[at'[q].r].from
  BY <1>1, <1>2, <1>5 DEF VersionInv
<1>8. QED
  BY <1>3, <1>6, <1>7 DEF Quiet

LEMMA CrashQuiet ==
  ASSUME TypeOK, VersionInv, NEW p \in Proc, Crash(p) PROVE Quiet
<1>1. Goes(p, Idle) /\ Idle.pt = "idle" /\ UNCHANGED <<count, version, others, run>>
  BY DEF Crash, Returns, Idle
<1>2. QED
  BY <1>1, IdleType, GoesQuiet, StillQuiet

LEMMA RunEndsQuiet ==
  ASSUME TypeOK, VersionInv, NEW r \in Run, NEW e \in Ending, RunEnds(r, e) PROVE Quiet
<1> DEFINE row(d) == [run[r] EXCEPT !.status = e, !.done = d]
<1>1. \E d : run' = [run EXCEPT ![r] = row(d)]
  <2>1. CASE e = "completed"
    <3>1. run' = [run EXCEPT ![r] = row(run[r].plan \ run[r].carried)]
      BY <2>1 DEF RunEnds, TypeOK
    <3>2. QED
      BY <3>1
  <2>2. CASE e # "completed"
    <3>1. PICK f \in run[r].plan \ run[r].carried : run' = [run EXCEPT ![r] = row(Before(r, f))]
      BY <2>2 DEF RunEnds, TypeOK
    <3>2. QED
      BY <3>1
  <2>3. QED
    BY <2>1, <2>2
<1>2. PICK d : run' = [run EXCEPT ![r] = row(d)]
  BY <1>1
<1>3. Stamp(row(d)) = Stamp(run[r])
  <2>1. run[r] \in Row /\ run[r].status = "pending" /\ e # "none"
    BY DEF RunEnds, TypeOK, Ending
  <2>2. QED
    BY <2>1 DEF Row, Stamp
<1>4. UNCHANGED <<count, version, others, at>>
  BY DEF RunEnds
<1> HIDE DEF row
<1>5. QED
  BY <1>2, <1>3, <1>4, RowQuiet

LEMMA AssessQuiet ==
  ASSUME TypeOK, VersionInv, NEW r \in Run,
         \/ AssessWithoutProvider(r) \/ ClaimAssessment(r) \/ CompleteAssessment(r)
         \/ CrashAssessing(r)
  PROVE  Quiet
<1> DEFINE u == [run[r].usage EXCEPT !.llm = @ + 1, !.assess = @ + 1]
           started == [run[r] EXCEPT !.assess = "STARTED", !.usage = u]
           completed == [run[r] EXCEPT !.assess = "COMPLETED"]
<1>1. run[r] \in Row /\ UNCHANGED <<count, version, others, at>>
  BY DEF TypeOK, AssessWithoutProvider, ClaimAssessment, CompleteAssessment, CrashAssessing
<1>2. Stamp(started) = Stamp(run[r]) /\ Stamp(completed) = Stamp(run[r])
  BY <1>1 DEF Row, Stamp
<1>3. \/ run' = [run EXCEPT ![r] = started]
      \/ run' = [run EXCEPT ![r] = completed]
      \/ run' = run
  BY <1>1 DEF AssessWithoutProvider, ClaimAssessment, CompleteAssessment, CrashAssessing,
              TypeOK, Row, Usage
<1> HIDE DEF started, completed
<1>4. QED
  BY <1>1, <1>2, <1>3, RowQuiet

LEMMA PlanRunVersions ==
  ASSUME TypeOK, VersionInv, NEW sem \in BOOLEAN, PlanRun(sem) PROVE VersionInv'
<1> DEFINE row == [NoRow EXCEPT !.status = "pending", !.version = version',
                                !.semantic = sem, !.plan = Step]
<1>1. count = 0 /\ count' = 1 /\ version \in Nat /\ version' = version + 1 /\ others' = others
      /\ others \subseteq 1 .. version /\ at' = at
  BY DEF PlanRun, TypeOK
<1>2. run' = [run EXCEPT ![1] = row]
  BY DEF PlanRun
<1>3. row.version = version + 1 /\ row.from = NoRun
  BY <1>1 DEF NoRow
<1> HIDE DEF row
<1>4. 1 \in Run /\ run'[1] = row /\ \A r \in Run \ {1} : run'[r] = run[r]
  BY <1>2 DEF TypeOK, Run
<1>5. \A r \in Run : run[r].version = 0 /\ run[r].from = NoRun /\ run[r].status = "none"
  BY <1>1 DEF VersionInv, Run
<1>6. \A r \in Run :
        /\ run'[r].version <= version' /\ run'[r].version \notin others'
        /\ run'[r].from <= count'
        /\ r > count' => run'[r].version = 0 /\ run'[r].from = NoRun /\ run'[r].status = "none"
  BY <1>1, <1>3, <1>4, <1>5 DEF NoRun
<1>7. \A r, c \in Run : run'[c].from # r
  BY <1>3, <1>4, <1>5 DEF NoRun, Run
<1>8. \A p \in Proc : at'[p].pt = "idle"
  BY <1>1 DEF VersionInv
<1>9. QED
  BY <1>6, <1>7, <1>8 DEF VersionInv

LEMMA OtherRunVersions ==
  ASSUME TypeOK, VersionInv, OtherRun PROVE VersionInv'
<1>1. version \in Nat /\ version' = version + 1 /\ others' = others \cup {version + 1}
      /\ UNCHANGED <<count, run, at>>
  BY DEF OtherRun, TypeOK
<1>2. \A r \in Run : run[r].version \in Nat
  BY DEF TypeOK, Row
<1>3. \A r \in Run : run'[r].version <= version' /\ run'[r].version \notin others'
  BY <1>1, <1>2 DEF VersionInv
<1>4. QED
  BY <1>1, <1>3 DEF VersionInv

(* The child takes the next version; the parent is written from a copy     *)
(* that has its stamp.                                                     *)
LEMMA CutoverVersions ==
  ASSUME TypeOK, VersionInv, NEW p \in Proc, Cutover(p) PROVE VersionInv'
<1> DEFINE r == at[p].r
           c == count + 1
           parent == Parent(p, c)
           child == Child(p)
<1>1. at[p] \in Handler /\ r \in Run /\ r \in 1 .. count /\ run[r] \in Row /\ at[p].copy \in Row
  BY UnderWay DEF Cutover, Handler
<1>2. version \in Nat /\ version' = version + 1 /\ others' = others /\ others \subseteq 1 .. version
      /\ count \in Nat /\ count' = c /\ c \in Run /\ r # c
  BY <1>1 DEF Cutover, TypeOK, Run
<1>3. run' = [run EXCEPT ![c] = child, ![r] = parent]
  BY <1>2 DEF Cutover
<1>4. child.version = version + 1 /\ child.from = r
  BY DEF Child, NoRow
<1>5. parent.version = run[r].version /\ parent.from = run[r].from
  <2>1. parent.version = at[p].copy.version /\ parent.from = at[p].copy.from
    BY <1>1 DEF Parent, Row
  <2>2. QED
    BY <2>1 DEF VersionInv, Cutover
<1> HIDE DEF parent, child
<1>6. /\ run'[c] = child /\ run'[r] = parent
      /\ \A x \in Run \ {c, r} : run'[x] = run[x]
  BY <1>1, <1>2, <1>3 DEF TypeOK
<1>7. \A x \in Run \ {c} : run'[x].version = run[x].version /\ run'[x].from = run[x].from
  BY <1>5, <1>6
<1>8. \A x \in Run : run[x].version \in Nat /\ run[x].from \in Nat
  BY DEF TypeOK, Row, Run, NoRun
<1>9. \A x \in Run :
        /\ run'[x].version <= version' /\ run'[x].version \notin others'
        /\ run'[x].from <= count'
        /\ x > count' => run'[x].version = 0 /\ run'[x].from = NoRun /\ run'[x].status = "none"
  <2> TAKE x \in Run
  <2>1. CASE x = c
    BY <1>1, <1>2, <1>4, <1>6, <2>1
  <2>2. CASE x # c
    <3>1. run'[x].version <= version' /\ run'[x].version \notin others' /\ run'[x].from <= count'
      BY <1>2, <1>7, <1>8, <2>2 DEF VersionInv
    <3>2. x > count' => x > count /\ x # r
      BY <1>1, <1>2 DEF Run
    <3>3. QED
      BY <1>6, <2>2, <3>1, <3>2 DEF VersionInv
  <2>3. QED
    BY <2>1, <2>2
<1>10. \A y, x \in Run : run'[x].from = y => run'[y].version < run'[x].version
  <2> SUFFICES ASSUME NEW y \in Run, NEW x \in Run, run'[x].from = y
               PROVE  run'[y].version < run'[x].version
    OBVIOUS
  <2>1. CASE x = c
    <3>1. y = r /\ run'[r].version <= version
      BY <1>1, <1>2, <1>4, <1>5, <1>6, <2>1 DEF VersionInv
    <3>2. QED
      BY <1>1, <1>2, <1>4, <1>6, <1>7, <1>8, <2>1, <3>1
  <2>2. CASE x # c
    <3>1. run[x].from = y /\ y # c
      BY <1>2, <1>7, <2>2 DEF VersionInv
    <3>2. QED
      BY <1>7, <2>2, <3>1 DEF VersionInv
  <2>3. QED
    BY <2>1, <2>2
<1>11. \A q \in Proc :
         /\ at'[q].pt # "idle" => at'[q].r \in 1 .. count'
         /\ at'[q].pt = "cutover" => /\ at'[q].copy.version = run'[at'[q].r].version
                                     /\ at'[q].copy.from = run'[at'[q].r].from
  <2> TAKE q \in Proc
  <2>1. at'[q].pt = "idle" \/ at'[q] = at[q]
    BY DEF Cutover, Returns, Goes, Idle, TypeOK
  <2>2. CASE at'[q] = at[q] /\ at[q].pt # "idle"
    <3>1. at[q].r \in 1 .. count /\ at[q].r \in Run /\ at[q].r # c
      BY <1>2, <2>2 DEF VersionInv, Run, TypeOK
    <3>2. QED
      BY <1>2, <1>7, <2>2, <3>1 DEF VersionInv
  <2>3. QED
    BY <2>1, <2>2
<1>12. QED
  BY <1>9, <1>10, <1>11 DEF VersionInv

LEMMA VersionStep ==
  ASSUME TypeOK, TypeOK', VersionInv, [Next]_vars PROVE VersionInv'
<1>1. CASE UNCHANGED vars
  BY <1>1 DEF vars, VersionInv
<1>2. CASE OtherRun \/ \E sem \in BOOLEAN : PlanRun(sem)
  BY <1>2, OtherRunVersions, PlanRunVersions
<1>3. ASSUME NEW r \in Run, NEW e \in Ending, RunEnds(r, e) PROVE VersionInv'
  BY <1>3, RunEndsQuiet, QuietKeeps
<1>4. ASSUME NEW p \in Proc, Replan(p) \/ Crash(p) PROVE VersionInv'
  <2>1. CASE Cutover(p)
    BY <2>1, CutoverVersions
  <2>2. CASE \E r \in Run, client \in BOOLEAN : Read(p, r, client)
    BY <2>2, ReadQuiet, QuietKeeps
  <2>3. CASE ClaimCritic(p) \/ Review(p) \/ Decide(p) \/ ClaimDraft(p)
    BY <2>3, ClaimCriticQuiet, ReviewQuiet, DecideQuiet, ClaimDraftQuiet, QuietKeeps
  <2>4. CASE Draft(p) \/ Revise(p) \/ Reload(p) \/ Crash(p)
    BY <2>4, DraftQuiet, ReviseQuiet, ReloadQuiet, CrashQuiet, QuietKeeps
  <2>5. QED
    BY <1>4, <2>1, <2>2, <2>3, <2>4 DEF Replan
<1>5. CASE \E r \in Run : \/ AssessWithoutProvider(r) \/ ClaimAssessment(r)
                          \/ CompleteAssessment(r) \/ CrashAssessing(r)
  BY <1>5, AssessQuiet, QuietKeeps
<1>6. QED
  BY <1>1, <1>2, <1>3, <1>4, <1>5 DEF Next

(* However many processes replan, crash and start other runs of the plan,  *)
(* each start taking its number in one step: a run's version is its own,   *)
(* and newer than its parent's, because the cutover allocates it in the    *)
(* transaction that stores the child.                                      *)
THEOREM VersionsAreOwn == Spec => []OwnVersion
<1>1. Init => VersionInv
  BY DEF Init, VersionInv, NoRow, NoRun, Idle, Run
<1>2. TypeOK /\ TypeOK' /\ VersionInv /\ [Next]_vars => VersionInv'
  BY VersionStep
<1>3. VersionInv => OwnVersion
  BY DEF VersionInv, OwnVersion
<1>4. QED
  BY <1>1, <1>2, <1>3, TypeCorrect, PTL DEF Spec

-----------------------------------------------------------------------------
(* What a step of a handler does *)

(* What a row no longer changes once its run has ended. *)
Core(row) == <<row.status, row.from, row.semantic, row.carried, row.done>>

Asking == {"reviewing", "drafting"}

(* The handler of p replaces the row of its run by row and moves on to h. *)
MovesOn(p, row, h) ==
  LET r == at[p].r IN
  /\ run' = [run EXCEPT ![r] = row] /\ Goes(p, h)
  /\ UNCHANGED <<count, version, others, assessing>>
  /\ Core(row) = Core(run[r]) /\ row.to = run[r].to
  /\ row.critic = "none" => run[r].critic = "none"
  /\ row.usage.assess = run[r].usage.assess
  /\ h.pt # "idle" => h.r = r
  /\ h.drafted \/ h.pt = "drafting" =>
       at[p].drafted \/ at[p].pt = "drafting" \/ run[r].semantic
  /\ h.pt = "reload" => /\ h.usage.llm = row.usage.llm /\ h.usage.assess = row.usage.assess
  /\ h.pt = "cutover" => /\ at[p].pt = "reload" /\ h.usage = at[p].usage
                         /\ h.copy = row /\ row = run[r]

(* It asks the provider under a claim, or it is answered, or neither. *)
Accounts(p, row, h) ==
  LET r == at[p].r IN
  \/ /\ UNCHANGED <<spent, reviewed>>
     /\ h.pt \notin Asking /\ row.usage.llm = run[r].usage.llm
  \/ /\ UNCHANGED <<spent, reviewed>>
     /\ h.pt \in Asking /\ row.usage.llm = run[r].usage.llm + 1
     /\ h.pt = "reviewing" => run[r].critic = "none" /\ row.critic # "none"
  \/ /\ at[p].pt \in Asking /\ h.pt \notin Asking /\ row.usage.llm = run[r].usage.llm
     /\ spent'.llm = spent.llm + 1 /\ spent'.assess = spent.assess
     /\ reviewed' = IF at[p].pt = "reviewing"
                    THEN [reviewed EXCEPT ![r] = @ + 1] ELSE reviewed

Effect(p) == \E row \in Row, h \in Handler : MovesOn(p, row, h) /\ Accounts(p, row, h)

Busy(p) == at[p] \in Handler /\ at[p].r \in Run /\ run[at[p].r] \in Row

LEMMA BusyHandler ==
  ASSUME TypeOK, OnARun, NEW p \in Proc, at[p].pt # "idle" PROVE Busy(p)
BY DEF TypeOK, OnARun, Handler, Busy

(* A handler that leaves the rows alone. *)
LEMMA OnlyHandler ==
  ASSUME TypeOK, NEW p \in Proc, Busy(p), UNCHANGED <<run, count, version, others, assessing>>,
         NEW h \in Handler, Goes(p, h), h.pt \notin Asking,
         h.pt # "idle" => h.r = at[p].r,
         h.drafted => at[p].drafted \/ at[p].pt = "drafting" \/ run[at[p].r].semantic,
         h.pt = "reload" => h.usage.llm = run[at[p].r].usage.llm
                            /\ h.usage.assess = run[at[p].r].usage.assess,
         h.pt = "cutover" => /\ at[p].pt = "reload" /\ h.usage = at[p].usage
                             /\ h.copy = run[at[p].r],
         \/ UNCHANGED <<spent, reviewed>>
         \/ /\ at[p].pt \in Asking
            /\ spent'.llm = spent.llm + 1 /\ spent'.assess = spent.assess
            /\ reviewed' = IF at[p].pt = "reviewing"
                           THEN [reviewed EXCEPT ![at[p].r] = @ + 1] ELSE reviewed
  PROVE  Effect(p)
<1> DEFINE row == run[at[p].r]
<1>1. row \in Row /\ run' = [run EXCEPT ![at[p].r] = row]
  BY DEF Busy, TypeOK
<1>2. MovesOn(p, row, h)
  BY <1>1 DEF MovesOn, Asking
<1>3. Accounts(p, row, h)
  BY DEF Accounts
<1>4. QED
  BY <1>1, <1>2, <1>3 DEF Effect

LEMMA ClaimCriticEffect ==
  ASSUME TypeOK, OnARun, NEW p \in Proc, ClaimCritic(p) PROVE Effect(p)
<1> DEFINE r == at[p].r
           u == [run[r].usage EXCEPT !.llm = @ + 1, !.critic = @ + 1]
           row == [run[r] EXCEPT !.critic = "STARTED", !.usage = u]
           rec == IF run[r].critic = "COMPLETED" THEN run[r].rec ELSE "replan"
           g == [at[p] EXCEPT !.pt = "reviewing"]
           h == [at[p] EXCEPT !.pt = "decide", !.rec = rec]
<1>1. Busy(p) /\ at[p].pt = "critic"
  BY BusyHandler DEF ClaimCritic
<1>2. CASE CriticClaimable(run[r])
  <2>1. run[r].usage \in Usage
    BY <1>1 DEF Busy, Row
  <2>2. u \in Usage /\ u.llm = run[r].usage.llm + 1 /\ u.assess = run[r].usage.assess
    BY <1>2, <2>1, CriticUsage DEF CriticClaimable, Usage
  <2>3. run' = [run EXCEPT ![r] = row] /\ Goes(p, g)
    BY <1>1, <1>2 DEF ClaimCritic, TypeOK, Row, Usage, Busy
  <2> HIDE DEF u
  <2>4. row \in Row /\ Core(row) = Core(run[r]) /\ row.to = run[r].to /\ row.usage = u
        /\ row.critic = "STARTED" /\ run[r].critic = "none"
    BY <1>1, <1>2, <2>2 DEF Busy, Row, Marker, Core, CriticClaimable
  <2>5. g \in Handler /\ g.r = r /\ g.pt = "reviewing" /\ g.drafted = at[p].drafted
    BY <1>1 DEF Busy, Handler, Point
  <2> HIDE DEF row, g
  <2>6. MovesOn(p, row, g)
    BY <2>2, <2>3, <2>4, <2>5 DEF MovesOn, ClaimCritic
  <2>7. Accounts(p, row, g)
    BY <2>2, <2>4, <2>5 DEF Accounts, Asking, ClaimCritic
  <2>8. QED
    BY <2>4, <2>5, <2>6, <2>7 DEF Effect
<1>3. CASE ~CriticClaimable(run[r])
  <2>1. rec \in Recommendation
    BY <1>1 DEF Busy, Row, Recommendation
  <2>2. Goes(p, h) /\ UNCHANGED <<run, count, version, others, assessing, spent, reviewed>>
    BY <1>3 DEF ClaimCritic
  <2> HIDE DEF rec
  <2>3. h \in Handler /\ h.r = r /\ h.pt = "decide" /\ h.drafted = at[p].drafted
    BY <1>1, <2>1 DEF Busy, Handler, Point
  <2> HIDE DEF h
  <2>4. QED
    BY <1>1, <2>2, <2>3, OnlyHandler DEF Asking
<1>4. QED
  BY <1>2, <1>3

LEMMA ReviewEffect ==
  ASSUME TypeOK, OnARun, NEW p \in Proc, Review(p) PROVE Effect(p)
<1> DEFINE r == at[p].r
           row(c) == [run[r] EXCEPT !.critic = "COMPLETED", !.rec = c]
           h(c) == [at[p] EXCEPT !.pt = "decide", !.rec = c]
<1>1. Busy(p) /\ at[p].pt = "reviewing"
  BY BusyHandler DEF Review
<1>2. PICK c \in Recommendation :
        /\ \/ run' = [run EXCEPT ![r] = row(c)]
           \/ run' = run
        /\ Goes(p, h(c))
  BY <1>1 DEF Review, TypeOK, Recommendation, Busy
<1>3. h(c) \in Handler /\ h(c).r = r /\ h(c).pt = "decide" /\ h(c).drafted = at[p].drafted
  BY <1>1 DEF Busy, Handler, Point
<1>4. row(c) \in Row /\ Core(row(c)) = Core(run[r]) /\ row(c).to = run[r].to
      /\ row(c).usage = run[r].usage /\ row(c).critic = "COMPLETED"
  BY <1>1 DEF Busy, Row, Marker, Core
<1>5. /\ spent'.llm = spent.llm + 1 /\ spent'.assess = spent.assess
      /\ reviewed' = [reviewed EXCEPT ![r] = @ + 1]
      /\ UNCHANGED <<count, version, others, assessing>>
  BY DEF Review, TypeOK
<1> HIDE DEF row, h
<1>6. CASE run' = run
  BY <1>1, <1>2, <1>3, <1>5, <1>6, OnlyHandler DEF Asking
<1>7. CASE run' = [run EXCEPT ![r] = row(c)]
  <2>1. MovesOn(p, row(c), h(c))
    BY <1>2, <1>3, <1>4, <1>5, <1>7 DEF MovesOn
  <2>2. Accounts(p, row(c), h(c))
    BY <1>1, <1>3, <1>4, <1>5 DEF Accounts, Asking
  <2>3. QED
    BY <1>3, <1>4, <2>1, <2>2 DEF Effect
<1>8. QED
  BY <1>2, <1>6, <1>7

LEMMA DecideEffect ==
  ASSUME TypeOK, OnARun, NEW p \in Proc, Decide(p) PROVE Effect(p)
<1> DEFINE h == [at[p] EXCEPT !.pt = "semantic"]
<1>1. Busy(p)
  BY BusyHandler DEF Decide
<1>2. h \in Handler /\ h.r = at[p].r /\ h.pt = "semantic" /\ h.drafted = at[p].drafted
  BY <1>1 DEF Busy, Handler, Point
<1>3. Goes(p, h) \/ Goes(p, Idle)
  BY DEF Decide, Returns
<1>4. UNCHANGED <<run, count, version, others, assessing, spent, reviewed>>
  BY DEF Decide
<1>5. Idle.pt = "idle" /\ ~Idle.drafted
  BY DEF Idle
<1> HIDE DEF h
<1>6. QED
  BY <1>1, <1>2, <1>3, <1>4, <1>5, IdleType, OnlyHandler DEF Asking

LEMMA ClaimDraftEffect ==
  ASSUME TypeOK, OnARun, NEW p \in Proc, ClaimDraft(p) PROVE Effect(p)
<1> DEFINE r == at[p].r
           open == at[p].client /\ run[r].semantic /\ at[p].usage.replans < MaxReplans
           claims == open /\ run[r].draft = "none" /\ run[r].usage.llm < MaxLlmCalls
           u == [run[r].usage EXCEPT !.llm = @ + 1]
           row == [run[r] EXCEPT !.draft = "STARTED", !.usage = u]
           drafted == open /\ run[r].draft = "COMPLETED"
           suffix == IF open THEN run[r].suffix ELSE {}
           g == [at[p] EXCEPT !.pt = "drafting"]
           h == [at[p] EXCEPT !.pt = "revise", !.drafted = drafted, !.suffix = suffix]
<1>1. Busy(p)
  BY BusyHandler DEF ClaimDraft
<1>2. CASE claims
  <2>1. run[r].usage \in Usage /\ run[r].semantic
    BY <1>1, <1>2 DEF Busy, Row
  <2>2. u \in Usage /\ u.llm = run[r].usage.llm + 1 /\ u.assess = run[r].usage.assess
    BY <1>2, <2>1, DraftUsage DEF Usage
  <2>3. run' = [run EXCEPT ![r] = row] /\ Goes(p, g)
    BY <1>1, <1>2 DEF ClaimDraft, TypeOK, Row, Usage, Busy
  <2> HIDE DEF u, claims
  <2>4. row \in Row /\ Core(row) = Core(run[r]) /\ row.to = run[r].to /\ row.usage = u
        /\ row.critic = run[r].critic
    BY <1>1, <2>2 DEF Busy, Row, Marker, Core
  <2>5. g \in Handler /\ g.r = r /\ g.pt = "drafting"
    BY <1>1 DEF Busy, Handler, Point
  <2> HIDE DEF row, g
  <2>6. MovesOn(p, row, g)
    BY <2>1, <2>2, <2>3, <2>4, <2>5 DEF MovesOn, ClaimDraft
  <2>7. Accounts(p, row, g)
    BY <2>2, <2>4, <2>5 DEF Accounts, Asking, ClaimDraft
  <2>8. QED
    BY <2>4, <2>5, <2>6, <2>7 DEF Effect
<1>3. CASE ~claims
  <2>1. drafted \in BOOLEAN /\ suffix \in SUBSET Step /\ (drafted => run[r].semantic)
    BY <1>1 DEF Busy, Row
  <2>2. Goes(p, h) /\ UNCHANGED <<run, count, version, others, assessing, spent, reviewed>>
    BY <1>3 DEF ClaimDraft
  <2> HIDE DEF drafted, suffix, claims
  <2>3. h \in Handler /\ h.r = r /\ h.pt = "revise" /\ h.drafted = drafted
    BY <1>1, <2>1 DEF Busy, Handler, Point
  <2> HIDE DEF h
  <2>4. QED
    BY <1>1, <2>1, <2>2, <2>3, OnlyHandler DEF Asking
<1> HIDE DEF claims
<1>4. QED
  BY <1>2, <1>3

LEMMA DraftEffect ==
  ASSUME TypeOK, OnARun, NEW p \in Proc, Draft(p) PROVE Effect(p)
<1> DEFINE r == at[p].r
           row(S) == [run[r] EXCEPT !.draft = "COMPLETED", !.suffix = S]
           g == [at[p] EXCEPT !.pt = "revise"]
           h(S) == [at[p] EXCEPT !.pt = "revise", !.drafted = TRUE, !.suffix = S]
<1>1. Busy(p) /\ at[p].pt = "drafting"
  BY BusyHandler DEF Draft
<1>2. /\ spent'.llm = spent.llm + 1 /\ spent'.assess = spent.assess
      /\ UNCHANGED <<count, version, others, assessing, reviewed>>
  BY DEF Draft, TypeOK
<1>3. \/ UNCHANGED run /\ Goes(p, g)
      \/ \E S \in SUBSET Step :
           (run' = [run EXCEPT ![r] = row(S)] \/ run' = run) /\ Goes(p, h(S))
  <2>1. CASE UNCHANGED run /\ Goes(p, [at[p] EXCEPT !.pt = "revise"])
    BY <2>1
  <2>2. CASE \E S \in (SUBSET (Step \ run[r].done)) \ {{}} :
               /\ run' = IF run[r].draft = "STARTED"
                         THEN [run EXCEPT ![r].draft = "COMPLETED", ![r].suffix = S]
                         ELSE run
               /\ Goes(p, [at[p] EXCEPT !.pt = "revise", !.drafted = TRUE, !.suffix = S])
    <3>1. PICK S \in SUBSET Step :
            /\ run' = IF run[r].draft = "STARTED"
                      THEN [run EXCEPT ![r].draft = "COMPLETED", ![r].suffix = S]
                      ELSE run
            /\ Goes(p, h(S))
      BY <2>2
    <3>2. run' = [run EXCEPT ![r] = row(S)] \/ run' = run
      BY <1>1, <3>1 DEF TypeOK, Busy
    <3>3. QED
      BY <3>1, <3>2
  <2>3. QED
    BY <2>1, <2>2 DEF Draft
<1>4. g \in Handler /\ g.r = r /\ g.pt = "revise" /\ g.drafted = at[p].drafted
  BY <1>1 DEF Busy, Handler, Point
<1>5. ASSUME NEW S \in SUBSET Step
      PROVE  /\ h(S) \in Handler /\ h(S).r = r /\ h(S).pt = "revise"
             /\ row(S) \in Row /\ Core(row(S)) = Core(run[r]) /\ row(S).to = run[r].to
             /\ row(S).usage = run[r].usage /\ row(S).critic = run[r].critic
  BY <1>1 DEF Busy, Handler, Point, Row, Marker, Core
<1> HIDE DEF row, g, h
<1>6. CASE UNCHANGED run /\ Goes(p, g)
  BY <1>1, <1>2, <1>4, <1>6, OnlyHandler DEF Asking
<1>7. ASSUME NEW S \in SUBSET Step, Goes(p, h(S)), run' = run PROVE Effect(p)
  BY <1>1, <1>2, <1>5, <1>7, OnlyHandler DEF Asking
<1>8. ASSUME NEW S \in SUBSET Step, Goes(p, h(S)), run' = [run EXCEPT ![r] = row(S)]
      PROVE  Effect(p)
  <2>1. MovesOn(p, row(S), h(S))
    BY <1>1, <1>2, <1>5, <1>8 DEF MovesOn
  <2>2. Accounts(p, row(S), h(S))
    BY <1>1, <1>2, <1>5 DEF Accounts, Asking
  <2>3. QED
    BY <1>5, <2>1, <2>2 DEF Effect
<1>9. QED
  BY <1>3, <1>6, <1>7, <1>8

LEMMA ReviseEffect ==
  ASSUME TypeOK, OnARun, NEW p \in Proc, Revise(p) PROVE Effect(p)
<1> DEFINE u == [run[at[p].r].usage EXCEPT !.replans = @ + 1]
           h == [at[p] EXCEPT !.pt = "reload", !.usage = u]
<1>1. Busy(p)
  BY BusyHandler DEF Revise
<1>2. UNCHANGED <<run, count, version, others, assessing, spent, reviewed>>
  BY DEF Revise
<1>3. CASE Goes(p, h) /\ run[at[p].r].usage.replans < MaxReplans
  <2>1. run[at[p].r].usage \in Usage
    BY <1>1 DEF Busy, Row
  <2>2. u \in Usage /\ u.llm = run[at[p].r].usage.llm /\ u.assess = run[at[p].r].usage.assess
    BY <1>3, <2>1, ReplanUsage DEF Usage
  <2> HIDE DEF u
  <2>3. h \in Handler /\ h.r = at[p].r /\ h.pt = "reload" /\ h.usage = u
        /\ h.drafted = at[p].drafted
    BY <1>1, <2>2 DEF Busy, Handler, Point
  <2> HIDE DEF h
  <2>4. QED
    BY <1>1, <1>2, <1>3, <2>2, <2>3, OnlyHandler DEF Asking
<1>4. CASE Goes(p, Idle)
  <2>1. Idle.pt = "idle" /\ ~Idle.drafted
    BY DEF Idle
  <2>2. QED
    BY <1>1, <1>2, <1>4, <2>1, IdleType, OnlyHandler DEF Asking
<1>5. QED
  BY <1>3, <1>4 DEF Revise, Returns, Lineage

LEMMA ReloadEffect ==
  ASSUME TypeOK, OnARun, NEW p \in Proc, Reload(p) PROVE Effect(p)
<1> DEFINE h == [at[p] EXCEPT !.pt = "cutover", !.copy = run[at[p].r]]
<1>1. Busy(p)
  BY BusyHandler DEF Reload
<1>2. h \in Handler /\ h.r = at[p].r /\ h.pt = "cutover" /\ h.usage = at[p].usage
      /\ h.copy = run[at[p].r] /\ h.drafted = at[p].drafted
  BY <1>1 DEF Busy, Handler, Point
<1>3. Goes(p, h) /\ at[p].pt = "reload"
      /\ UNCHANGED <<run, count, version, others, assessing, spent, reviewed>>
  BY DEF Reload
<1> HIDE DEF h
<1>4. QED
  BY <1>1, <1>2, <1>3, OnlyHandler DEF Asking

LEMMA CrashEffect ==
  ASSUME TypeOK, OnARun, NEW p \in Proc, Crash(p) PROVE Effect(p)
<1>1. Busy(p)
  BY BusyHandler DEF Crash
<1>2. Idle.pt = "idle" /\ ~Idle.drafted /\ Goes(p, Idle)
      /\ UNCHANGED <<run, count, version, others, assessing>>
  BY DEF Idle, Crash, Returns
<1>3. \/ UNCHANGED <<spent, reviewed>>
      \/ /\ at[p].pt \in Asking
         /\ spent'.llm = spent.llm + 1 /\ spent'.assess = spent.assess
         /\ reviewed' = IF at[p].pt = "reviewing"
                        THEN [reviewed EXCEPT ![at[p].r] = @ + 1] ELSE reviewed
  BY DEF Crash, TypeOK, Asking
<1>4. QED
  BY <1>1, <1>2, <1>3, IdleType, OnlyHandler DEF Asking

(* Every step of a handler but its first and its last. *)
LEMMA HandlerEffect ==
  ASSUME TypeOK, OnARun, NEW p \in Proc, Replan(p) \/ Crash(p), ~Cutover(p),
         ~\E r \in Run, client \in BOOLEAN : Read(p, r, client)
  PROVE  Effect(p) /\ Busy(p) /\ at[p].pt # "idle"
<1>1. at[p].pt # "idle"
  BY DEF Replan, ClaimCritic, Review, Decide, ClaimDraft, Draft, Revise, Reload, Crash
<1>2. Effect(p)
  BY ClaimCriticEffect, ReviewEffect, DecideEffect, ClaimDraftEffect, DraftEffect,
     ReviseEffect, ReloadEffect, CrashEffect DEF Replan
<1>3. QED
  BY <1>1, <1>2, BusyHandler

-----------------------------------------------------------------------------
(* The steps that are carried over *)

HasEnded(row) == row.status \notin {"none", "pending"}

(* A run with a child has ended, and the child carries what it completed,  *)
(* unless its plan may be redesigned; a handler works for an ended run,    *)
(* and writes back a copy with the same core.                              *)
CarryInv ==
  /\ \A r, c \in Run :
       run[c].from = r =>
         HasEnded(run[r]) /\ (run[r].semantic \/ run[r].carried \cup run[r].done \subseteq run[c].carried)
  /\ \A p \in Proc : at[p].pt # "idle" =>
       /\ HasEnded(run[at[p].r])
       /\ at[p].drafted \/ at[p].pt = "drafting" => run[at[p].r].semantic
       /\ at[p].pt = "cutover" => Core(at[p].copy) = Core(run[at[p].r])

(* Rows that keep their cores keep their children informed. *)
LEMMA SameCores ==
  ASSUME TypeOK, CarryInv, \A r \in Run : Core(run'[r]) = Core(run[r])
  PROVE  \A r, c \in Run :
           run'[c].from = r =>
             /\ HasEnded(run'[r])
             /\ run'[r].semantic \/ run'[r].carried \cup run'[r].done \subseteq run'[c].carried
BY DEF CarryInv, Core, HasEnded

LEMMA SameHandlers ==
  ASSUME TypeOK, OnARun, CarryInv, NEW P \in SUBSET Proc,
         \A p \in P : at'[p] = at[p],
         \A p \in P : at[p].pt # "idle" => Core(run'[at[p].r]) = Core(run[at[p].r])
  PROVE  \A p \in P : at'[p].pt # "idle" =>
           /\ HasEnded(run'[at'[p].r])
           /\ at'[p].drafted \/ at'[p].pt = "drafting" => run'[at'[p].r].semantic
           /\ at'[p].pt = "cutover" => Core(at'[p].copy) = Core(run'[at'[p].r])
<1> TAKE p \in P
<1> HAVE at'[p].pt # "idle"
<1>1. at'[p] = at[p] /\ at[p].pt # "idle" /\ p \in Proc
  OBVIOUS
<1>2. Core(run'[at[p].r]) = Core(run[at[p].r])
  BY <1>1
<1>3. HasEnded(run'[at[p].r]) /\ (run'[at[p].r].semantic <=> run[at[p].r].semantic)
  BY <1>1, <1>2 DEF CarryInv, Core, HasEnded
<1>4. QED
  BY <1>1, <1>2, <1>3 DEF CarryInv

LEMMA EffectCarries ==
  ASSUME TypeOK, OnARun, CarryInv, NEW p \in Proc, at[p].pt # "idle", Busy(p), Effect(p)
  PROVE  CarryInv'
<1> DEFINE r == at[p].r
<1>1. PICK row \in Row, h \in Handler : MovesOn(p, row, h)
  BY DEF Effect
<1>2. /\ run' = [run EXCEPT ![r] = row] /\ at' = [at EXCEPT ![p] = h]
      /\ Core(row) = Core(run[r])
  BY <1>1 DEF MovesOn, Goes
<1>3. \A x \in Run : Core(run'[x]) = Core(run[x])
  <2> TAKE x \in Run
  <2>1. run'[x] = run[x] \/ (x = r /\ run'[x] = row)
    BY <1>2 DEF TypeOK
  <2>2. QED
    BY <1>2, <2>1
<1>4. run'[r] = row /\ at'[p] = h /\ \A q \in Proc \ {p} : at'[q] = at[q]
  BY <1>2 DEF TypeOK, Busy
<1>5. HasEnded(row) /\ (row.semantic <=> run[r].semantic)
  BY <1>2 DEF CarryInv, Core, HasEnded
<1>6. h.pt # "idle" =>
        /\ HasEnded(run'[h.r])
        /\ h.drafted \/ h.pt = "drafting" => run'[h.r].semantic
        /\ h.pt = "cutover" => Core(h.copy) = Core(run'[h.r])
  BY <1>1, <1>4, <1>5 DEF MovesOn, CarryInv
<1>7. \A q \in Proc \ {p} : at[q].pt # "idle" => Core(run'[at[q].r]) = Core(run[at[q].r])
  BY <1>3 DEF OnARun
<1>8. \A q \in Proc \ {p} : at'[q].pt # "idle" =>
           /\ HasEnded(run'[at'[q].r])
           /\ at'[q].drafted \/ at'[q].pt = "drafting" => run'[at'[q].r].semantic
           /\ at'[q].pt = "cutover" => Core(at'[q].copy) = Core(run'[at'[q].r])
  BY <1>4, <1>7, SameHandlers
<1>9. \A q \in Proc : at'[q].pt # "idle" =>
           /\ HasEnded(run'[at'[q].r])
           /\ at'[q].drafted \/ at'[q].pt = "drafting" => run'[at'[q].r].semantic
           /\ at'[q].pt = "cutover" => Core(at'[q].copy) = Core(run'[at'[q].r])
  BY <1>4, <1>6, <1>8
<1>10. QED
  BY <1>3, <1>9, SameCores DEF CarryInv

LEMMA ReadCarries ==
  ASSUME TypeOK, OnARun, CarryInv, NEW p \in Proc, NEW r \in Run, NEW client \in BOOLEAN,
         Read(p, r, client)
  PROVE  CarryInv'
<1> DEFINE pt == IF client THEN "critic" ELSE "semantic"
           h == [Idle EXCEPT !.pt = pt, !.r = r, !.client = client, !.usage = run[r].usage]
<1>1. at' = [at EXCEPT ![p] = h] /\ run' = run /\ run[r].status = "tool"
  BY DEF Read, Goes
<1>2. h.r = r /\ ~h.drafted /\ h.pt # "drafting" /\ h.pt # "cutover"
  BY DEF Idle
<1> HIDE DEF h
<1>3. at'[p] = h /\ \A q \in Proc \ {p} : at'[q] = at[q]
  BY <1>1 DEF TypeOK
<1>4. \A q \in Proc : at'[q].pt # "idle" =>
           /\ HasEnded(run'[at'[q].r])
           /\ at'[q].drafted \/ at'[q].pt = "drafting" => run'[at'[q].r].semantic
           /\ at'[q].pt = "cutover" => Core(at'[q].copy) = Core(run'[at'[q].r])
  BY <1>1, <1>2, <1>3 DEF CarryInv, HasEnded
<1>5. QED
  BY <1>1, <1>4 DEF CarryInv

(* The end of a run and its assessment: no handler's run, and no parent,   *)
(* changes its core.                                                       *)
LEMMA RunEndsCarries ==
  ASSUME TypeOK, OnARun, CarryInv, NEW r \in Run, NEW e \in Ending, RunEnds(r, e)
  PROVE  CarryInv'
<1>1. run[r].status = "pending" /\ at' = at
  BY DEF RunEnds
<1>2. \E d : run' = [run EXCEPT ![r] = [run[r] EXCEPT !.status = e, !.done = d]]
  <2>1. CASE e = "completed"
    <3>1. run' = [run EXCEPT ![r] = [run[r] EXCEPT !.status = e, !.done = run[r].plan \ run[r].carried]]
      BY <2>1 DEF RunEnds, TypeOK
    <3>2. QED
      BY <3>1
  <2>2. CASE e # "completed"
    <3>1. PICK f \in run[r].plan \ run[r].carried :
            run' = [run EXCEPT ![r] = [run[r] EXCEPT !.status = e, !.done = Before(r, f)]]
      BY <2>2 DEF RunEnds, TypeOK
    <3>2. QED
      BY <3>1
  <2>3. QED
    BY <2>1, <2>2
<1>3. PICK d : run' = [run EXCEPT ![r] = [run[r] EXCEPT !.status = e, !.done = d]]
  BY <1>2
<1>4. \A x \in Run : x # r => run'[x] = run[x]
  BY <1>3 DEF TypeOK
<1>5. run'[r].from = run[r].from /\ run'[r].carried = run[r].carried
  BY <1>3 DEF TypeOK, Row
<1>6. \A x \in Run : run[x].from # r
  BY <1>1 DEF CarryInv, HasEnded
<1>7. \A y, c \in Run :
        run'[c].from = y =>
          /\ HasEnded(run'[y])
          /\ run'[y].semantic \/ run'[y].carried \cup run'[y].done \subseteq run'[c].carried
  <2> SUFFICES ASSUME NEW y \in Run, NEW c \in Run, run'[c].from = y
               PROVE  /\ HasEnded(run'[y])
                      /\ run'[y].semantic \/ run'[y].carried \cup run'[y].done \subseteq run'[c].carried
    OBVIOUS
  <2>1. run[c].from = y /\ run'[c].carried = run[c].carried
    BY <1>4, <1>5
  <2>2. y # r
    BY <1>6, <2>1
  <2>3. run'[y] = run[y]
    BY <1>4, <2>2
  <2>4. QED
    BY <2>1, <2>3 DEF CarryInv
<1>8. \A p \in Proc : at[p].pt # "idle" => Core(run'[at[p].r]) = Core(run[at[p].r])
  BY <1>1, <1>4 DEF CarryInv, HasEnded, OnARun
<1>9. \A q \in Proc : at'[q].pt # "idle" =>
           /\ HasEnded(run'[at'[q].r])
           /\ at'[q].drafted \/ at'[q].pt = "drafting" => run'[at'[q].r].semantic
           /\ at'[q].pt = "cutover" => Core(at'[q].copy) = Core(run'[at'[q].r])
  BY <1>1, <1>8, SameHandlers
<1>10. QED
  BY <1>7, <1>9 DEF CarryInv

(* The rows an assessment writes. *)
LEMMA AssessRows ==
  ASSUME TypeOK, NEW r \in Run,
         \/ AssessWithoutProvider(r) \/ ClaimAssessment(r) \/ CompleteAssessment(r)
         \/ CrashAssessing(r)
  PROVE  \E row \in Row :
           /\ run' = [run EXCEPT ![r] = row]
           /\ Core(row) = Core(run[r]) /\ row.to = run[r].to /\ row.critic = run[r].critic
           /\ IF ClaimAssessment(r)
              THEN row.usage.llm = run[r].usage.llm + 1 /\ row.usage.assess = run[r].usage.assess + 1
              ELSE row.usage = run[r].usage
<1> DEFINE u == [run[r].usage EXCEPT !.llm = @ + 1, !.assess = @ + 1]
           started == [run[r] EXCEPT !.assess = "STARTED", !.usage = u]
           completed == [run[r] EXCEPT !.assess = "COMPLETED"]
<1>1. run[r] \in Row /\ run[r].usage \in Usage
  BY DEF TypeOK, Row
<1>2. CASE ClaimAssessment(r)
  <2>1. u \in Usage /\ u.llm = run[r].usage.llm + 1 /\ u.assess = run[r].usage.assess + 1
    BY <1>1, <1>2, AssessUsage DEF ClaimAssessment, Usage
  <2>2. run' = [run EXCEPT ![r] = started]
    BY <1>1, <1>2 DEF ClaimAssessment, TypeOK, Row, Usage
  <2> HIDE DEF u
  <2>3. started \in Row /\ Core(started) = Core(run[r]) /\ started.to = run[r].to
        /\ started.critic = run[r].critic /\ started.usage = u
    BY <1>1, <2>1 DEF Row, Marker, Core
  <2> HIDE DEF started
  <2>4. QED
    BY <1>2, <2>1, <2>2, <2>3
<1>3. CASE ~ClaimAssessment(r)
  <2>1. completed \in Row /\ Core(completed) = Core(run[r]) /\ completed.to = run[r].to
        /\ completed.critic = run[r].critic /\ completed.usage = run[r].usage
    BY <1>1 DEF Row, Marker, Core
  <2>2. run' = [run EXCEPT ![r] = completed] \/ run' = [run EXCEPT ![r] = run[r]]
    BY <1>1, <1>3 DEF AssessWithoutProvider, CompleteAssessment, CrashAssessing, TypeOK
  <2> HIDE DEF completed
  <2>3. QED
    BY <1>1, <1>3, <2>1, <2>2
<1>4. QED
  BY <1>2, <1>3

LEMMA AssessCarries ==
  ASSUME TypeOK, OnARun, CarryInv, NEW r \in Run,
         \/ AssessWithoutProvider(r) \/ ClaimAssessment(r) \/ CompleteAssessment(r)
         \/ CrashAssessing(r)
  PROVE  CarryInv'
<1>1. PICK row \in Row : run' = [run EXCEPT ![r] = row] /\ Core(row) = Core(run[r])
  BY AssessRows
<1>2. at' = at
  BY DEF AssessWithoutProvider, ClaimAssessment, CompleteAssessment, CrashAssessing
<1>3. \A x \in Run : Core(run'[x]) = Core(run[x])
  <2> TAKE x \in Run
  <2>1. run'[x] = run[x] \/ (x = r /\ run'[x] = row)
    BY <1>1 DEF TypeOK
  <2>2. QED
    BY <1>1, <2>1
<1>4. \A p \in Proc : at[p].pt # "idle" => Core(run'[at[p].r]) = Core(run[at[p].r])
  BY <1>3 DEF OnARun
<1>5. \A q \in Proc : at'[q].pt # "idle" =>
           /\ HasEnded(run'[at'[q].r])
           /\ at'[q].drafted \/ at'[q].pt = "drafting" => run'[at'[q].r].semantic
           /\ at'[q].pt = "cutover" => Core(at'[q].copy) = Core(run'[at'[q].r])
  BY <1>2, <1>4, SameHandlers
<1>6. QED
  BY <1>3, <1>5, SameCores DEF CarryInv

LEMMA PlanRunCarries ==
  ASSUME TypeOK, VersionInv, CarryInv, NEW sem \in BOOLEAN, PlanRun(sem) PROVE CarryInv'
<1> DEFINE row == [NoRow EXCEPT !.status = "pending", !.version = version',
                                !.semantic = sem, !.plan = Step]
<1>1. count = 0 /\ at' = at /\ run' = [run EXCEPT ![1] = row]
  BY DEF PlanRun
<1>2. row.from = NoRun
  BY DEF NoRow
<1> HIDE DEF row
<1>3. \A r \in Run : run'[r].from = NoRun
  <2>1. \A r \in Run : run[r].from = NoRun
    BY <1>1 DEF VersionInv, Run
  <2>2. \A r \in Run : run'[r] = run[r] \/ run'[r] = row
    BY <1>1 DEF TypeOK
  <2>3. QED
    BY <1>2, <2>1, <2>2
<1>4. \A p \in Proc : at'[p].pt = "idle"
  BY <1>1 DEF VersionInv
<1>5. NoRun \notin Run
  BY DEF NoRun, Run
<1>6. QED
  BY <1>3, <1>4, <1>5 DEF CarryInv

(* The child carries what its parent did; the parent keeps its core. *)
LEMMA CutoverCarries ==
  ASSUME TypeOK, OnARun, VersionInv, CarryInv, NEW p \in Proc, Cutover(p) PROVE CarryInv'
<1> DEFINE r == at[p].r
           c == count + 1
           parent == Parent(p, c)
           child == Child(p)
<1>1. at[p] \in Handler /\ r \in Run /\ r \in 1 .. count /\ run[r] \in Row /\ at[p].copy \in Row
  BY UnderWay DEF Cutover, Handler
<1>2. count \in Nat /\ c \in Run /\ r # c /\ run' = [run EXCEPT ![c] = child, ![r] = parent]
  BY <1>1 DEF Cutover, TypeOK, Run
<1>3. Core(parent) = Core(run[r])
  <2>1. Core(parent) = Core(at[p].copy)
    BY <1>1 DEF Parent, Row, Core
  <2>2. QED
    BY <2>1 DEF CarryInv, Cutover
<1>4. child.from = r
  BY DEF Child, NoRow
<1>5. run[r].semantic \/ run[r].carried \cup run[r].done \subseteq child.carried
  <2>1. child.carried = CarriedBy(p)
    BY DEF Child, NoRow
  <2>2. at[p].drafted => run[r].semantic
    BY DEF CarryInv, Cutover
  <2>3. QED
    BY <2>1, <2>2 DEF CarriedBy
<1> HIDE DEF parent, child
<1>6. run'[c] = child /\ run'[r] = parent /\ \A x \in Run \ {c, r} : run'[x] = run[x]
  BY <1>1, <1>2 DEF TypeOK
<1>7. \A x \in Run \ {c} : Core(run'[x]) = Core(run[x])
  BY <1>3, <1>6
<1>8. \A x \in Run : run[x].from # c /\ (run[x].from \in Run => x # c)
  <2>1. \A x \in Run : run[x].from \in Nat /\ run[x].from <= count
    BY DEF VersionInv, TypeOK, Row, Run, NoRun
  <2>2. run[c].from = NoRun /\ NoRun \notin Run
    BY <1>2 DEF VersionInv, NoRun, Run
  <2>3. QED
    BY <1>2, <2>1, <2>2
<1>9. \A y, x \in Run :
        run'[x].from = y =>
          /\ HasEnded(run'[y])
          /\ run'[y].semantic \/ run'[y].carried \cup run'[y].done \subseteq run'[x].carried
  <2> SUFFICES ASSUME NEW y \in Run, NEW x \in Run, run'[x].from = y
               PROVE  /\ HasEnded(run'[y])
                      /\ run'[y].semantic \/ run'[y].carried \cup run'[y].done \subseteq run'[x].carried
    OBVIOUS
  <2>1. CASE x = c
    <3>1. y = r /\ run'[x] = child
      BY <1>4, <1>6, <2>1
    <3>2. HasEnded(run[r])
      BY DEF CarryInv, Cutover
    <3>3. Core(run'[r]) = Core(run[r])
      BY <1>1, <1>2, <1>7
    <3>4. QED
      BY <1>5, <3>1, <3>2, <3>3 DEF Core, HasEnded
  <2>2. CASE x # c
    <3>1. Core(run'[x]) = Core(run[x])
      BY <1>7, <2>2
    <3>2. run[x].from = y /\ run'[x].carried = run[x].carried
      BY <3>1 DEF Core
    <3>3. y # c
      BY <1>8, <3>2
    <3>4. Core(run'[y]) = Core(run[y])
      BY <1>7, <3>3
    <3>5. QED
      BY <3>2, <3>4 DEF CarryInv, Core, HasEnded
  <2>3. QED
    BY <2>1, <2>2
<1>10. at'[p].pt = "idle" /\ \A q \in Proc \ {p} : at'[q] = at[q]
  BY DEF Cutover, Returns, Goes, Idle, TypeOK
<1>11. \A q \in Proc \ {p} : at[q].pt # "idle" => Core(run'[at[q].r]) = Core(run[at[q].r])
  <2> TAKE q \in Proc \ {p}
  <2> HAVE at[q].pt # "idle"
  <2>1. at[q].r \in Run /\ at[q].r \in 1 .. count
    BY DEF OnARun, VersionInv
  <2>2. at[q].r # c
    BY <1>2, <2>1
  <2>3. QED
    BY <1>7, <2>1, <2>2
<1>12. \A q \in Proc \ {p} : at'[q].pt # "idle" =>
           /\ HasEnded(run'[at'[q].r])
           /\ at'[q].drafted \/ at'[q].pt = "drafting" => run'[at'[q].r].semantic
           /\ at'[q].pt = "cutover" => Core(at'[q].copy) = Core(run'[at'[q].r])
  BY <1>10, <1>11, SameHandlers
<1>13. QED
  BY <1>9, <1>10, <1>12 DEF CarryInv

LEMMA CarryStep ==
  ASSUME TypeOK, OnARun, VersionInv, CarryInv, [Next]_vars PROVE CarryInv'
<1>1. CASE UNCHANGED vars
  BY <1>1 DEF vars, CarryInv
<1>2. CASE OtherRun
  BY <1>2 DEF OtherRun, CarryInv
<1>3. CASE \E sem \in BOOLEAN : PlanRun(sem)
  BY <1>3, PlanRunCarries
<1>4. CASE \E r \in Run, e \in Ending : RunEnds(r, e)
  BY <1>4, RunEndsCarries
<1>5. ASSUME NEW p \in Proc, Replan(p) \/ Crash(p) PROVE CarryInv'
  <2>1. CASE Cutover(p)
    BY <2>1, CutoverCarries
  <2>2. CASE \E r \in Run, client \in BOOLEAN : Read(p, r, client)
    BY <2>2, ReadCarries
  <2>3. CASE ~Cutover(p) /\ ~\E r \in Run, client \in BOOLEAN : Read(p, r, client)
    BY <1>5, <2>3, HandlerEffect, EffectCarries
  <2>4. QED
    BY <2>1, <2>2, <2>3
<1>6. CASE \E r \in Run : \/ AssessWithoutProvider(r) \/ ClaimAssessment(r)
                          \/ CompleteAssessment(r) \/ CrashAssessing(r)
  BY <1>6, AssessCarries
<1>7. QED
  BY <1>1, <1>2, <1>3, <1>4, <1>5, <1>6 DEF Next

LEMMA Invariants == Spec => [](TypeOK /\ OnARun /\ VersionInv)
<1>1. Init => TypeOK /\ OnARun /\ VersionInv
  BY TypeInit DEF Init, OnARun, VersionInv, NoRow, NoRun, Idle, Run
<1>2. TypeOK /\ OnARun /\ VersionInv /\ [Next]_vars => (TypeOK /\ OnARun /\ VersionInv)'
  BY TypeStep, OnARunStep, VersionStep
<1>3. QED
  BY <1>1, <1>2, PTL DEF Spec

(* Where no plan is redesigned, a step that a run completed, or carried    *)
(* over itself, is not executed again by a run that continues it: however  *)
(* many processes replan and crash, and although a cutover writes its      *)
(* parent from a copy read earlier, what a run completed is fixed when it  *)
(* ends, and the child takes all of it.                                    *)
THEOREM CompletedStepsAreKept == Spec => []CompletedStepsStay
<1>1. Init => CarryInv
  BY DEF Init, CarryInv, NoRow, NoRun, Idle, Run
<1>2. TypeOK /\ OnARun /\ VersionInv /\ CarryInv /\ [Next]_vars => CarryInv'
  BY CarryStep
<1>3. CarryInv => CompletedStepsStay
  BY DEF CarryInv, CompletedStepsStay
<1>4. QED
  BY <1>1, <1>2, <1>3, Invariants, PTL DEF Spec

-----------------------------------------------------------------------------
(* One process: the chain of runs and the budget *)

(* The chain of one process: a run is continued by the next one. *)
Chain ==
  \A r \in Run :
    /\ r > count => /\ run[r].status = "none" /\ run[r].critic = "none"
                    /\ run[r].from = NoRun /\ run[r].to = NoRun
    /\ r <= count => /\ run[r].status # "none" /\ run[r].from = r - 1
                     /\ run[r].to = IF r = count THEN NoRun ELSE r + 1

(* The handler works for the last run, and what it read is what the row    *)
(* still says.                                                             *)
AtTheEnd ==
  \A p \in Proc : at[p].pt # "idle" =>
    /\ count \in Run /\ at[p].r = count /\ run[count].status = "tool"
    /\ at[p].pt = "reviewing" => run[count].critic # "none" /\ reviewed[count] = 0
    /\ at[p].pt \in {"reload", "cutover"} =>
         /\ at[p].usage.llm = run[count].usage.llm
         /\ at[p].usage.assess = run[count].usage.assess
    /\ at[p].pt = "cutover" => at[p].copy = run[count]

Grading == \A r \in assessing : r = count /\ run[r].status = "completed"

Reviews == \A r \in Run : reviewed[r] <= 1 /\ (run[r].critic = "none" => reviewed[r] = 0)

(* The budget of the lineage as its last run has it. *)
Used == IF count \in Run THEN run[count].usage ELSE NoUse

(* Every call is in it, also the one that is under way. *)
Budget ==
  /\ spent.llm <= Used.llm /\ spent.assess <= Used.assess
  /\ \A p \in Proc : at[p].pt \in Asking => spent.llm + 1 <= Used.llm
  /\ assessing # {} => spent.llm + 1 <= Used.llm /\ spent.assess + 1 <= Used.assess

BudgetInv == Chain /\ AtTheEnd /\ Grading /\ Reviews /\ Budget

OneProcess == \A p, q \in Proc : p = q

LEMMA BudgetInit == Init => BudgetInv
<1> SUFFICES ASSUME Init PROVE BudgetInv
  OBVIOUS
<1>1. Chain /\ AtTheEnd /\ Grading /\ Reviews
  BY DEF Init, Chain, AtTheEnd, Grading, Reviews, NoRow, Idle, Run
<1>2. Budget
  BY DEF Init, Budget, Used, NoUse, NoRow, Idle, Asking, Run
<1>3. QED
  BY <1>1, <1>2 DEF BudgetInv

LEMMA BudgetImplies == TypeOK /\ BudgetInv => LineageSpend /\ OncePerRun
<1> SUFFICES ASSUME TypeOK, BudgetInv PROVE LineageSpend /\ OncePerRun
  OBVIOUS
<1>1. LineageSpend
  <2>1. Used \in Usage
    BY NoUseType DEF Used, TypeOK, Row
  <2>2. QED
    BY <2>1 DEF BudgetInv, Budget, Usage, TypeOK, LineageSpend
<1>2. OneChild
  <2> SUFFICES ASSUME NEW r \in Run, NEW c \in Run, run[c].status # "none"
               PROVE  run[c].from = r <=> run[r].to = c
    BY DEF OneChild
  <2>1. r \in Int /\ c \in Int /\ count \in Int /\ r > 0 /\ c > 0
    BY DEF TypeOK, Run
  <2>2. c <= count /\ run[c].from = c - 1
    BY <2>1 DEF BudgetInv, Chain
  <2>3. CASE r <= count
    BY <2>1, <2>2, <2>3 DEF BudgetInv, Chain, NoRun
  <2>4. CASE r > count
    BY <2>1, <2>2, <2>4 DEF BudgetInv, Chain, NoRun
  <2>5. QED
    BY <2>1, <2>3, <2>4
<1>3. OneReview
  BY DEF BudgetInv, Reviews, OneReview
<1>4. QED
  BY <1>1, <1>2, <1>3 DEF OncePerRun

(* A step of a handler other than its first and last. *)
LEMMA EffectBudget ==
  ASSUME TypeOK, TypeOK', OneProcess, BudgetInv, NEW p \in Proc, at[p].pt # "idle", Busy(p),
         Effect(p)
  PROVE  BudgetInv'
<1>1. count \in Run /\ at[p].r = count /\ run[count].status = "tool"
  BY DEF BudgetInv, AtTheEnd
<1>2. PICK row \in Row, h \in Handler : MovesOn(p, row, h) /\ Accounts(p, row, h)
  BY DEF Effect
<1>3. /\ run' = [run EXCEPT ![count] = row] /\ at' = [at EXCEPT ![p] = h]
      /\ count' = count /\ assessing' = assessing
      /\ row.status = "tool" /\ row.from = run[count].from /\ row.to = run[count].to
      /\ row.critic = "none" => run[count].critic = "none"
      /\ row.usage.assess = run[count].usage.assess
      /\ h.pt # "idle" => h.r = count
      /\ h.pt = "reload" => h.usage.llm = row.usage.llm /\ h.usage.assess = row.usage.assess
      /\ h.pt = "cutover" => /\ at[p].pt = "reload" /\ h.usage = at[p].usage
                             /\ h.copy = row /\ row = run[count]
  BY <1>1, <1>2 DEF MovesOn, Goes, Core
<1>4. at'[p] = h /\ \A q \in Proc : q = p
  BY <1>3 DEF TypeOK, OneProcess
<1>5. run'[count] = row /\ \A x \in Run \ {count} : run'[x] = run[x]
  BY <1>1, <1>3 DEF TypeOK
<1>6. assessing = {}
  BY <1>1 DEF BudgetInv, Grading
<1>7. Used = run[count].usage /\ Used' = row.usage
  BY <1>1, <1>3, <1>5 DEF Used
<1>8. Used \in Usage /\ Used' \in Usage /\ spent.llm \in Nat /\ spent.assess \in Nat
  BY <1>1, <1>7 DEF TypeOK, Row
<1>9. spent.llm <= Used.llm /\ spent.assess <= Used.assess
      /\ (at[p].pt \in Asking => spent.llm + 1 <= Used.llm)
  BY DEF BudgetInv, Budget
<1>10. Chain'
  BY <1>1, <1>3, <1>5 DEF BudgetInv, Chain
<1>11. Budget'
  <2>1. Used'.llm \in Nat /\ Used.llm \in Nat /\ Used'.assess = Used.assess
    BY <1>3, <1>7, <1>8 DEF Usage
  <2>2. spent'.assess = spent.assess
    BY <1>2 DEF Accounts
  <2>3. spent'.llm <= Used'.llm /\ (h.pt \in Asking => spent'.llm + 1 <= Used'.llm)
    BY <1>1, <1>2, <1>7, <1>8, <1>9, <2>1 DEF Accounts
  <2>4. QED
    BY <1>3, <1>4, <1>6, <1>9, <2>1, <2>2, <2>3 DEF Budget
<1>12. Reviews'
  <2>1. reviewed[count] <= 1 /\ reviewed[count] \in Nat /\ reviewed \in [Run -> Nat]
        /\ (run[count].critic = "none" => reviewed[count] = 0)
        /\ (at[p].pt = "reviewing" => run[count].critic # "none" /\ reviewed[count] = 0)
    BY <1>1 DEF BudgetInv, Reviews, AtTheEnd, TypeOK
  <2>2. \A x \in Run \ {count} : reviewed'[x] = reviewed[x]
    BY <1>1, <1>2, <2>1 DEF Accounts
  <2>3. reviewed'[count] <= 1 /\ (row.critic = "none" => reviewed'[count] = 0)
    BY <1>1, <1>2, <1>3, <2>1 DEF Accounts
  <2>4. QED
    BY <1>1, <1>5, <2>2, <2>3 DEF BudgetInv, Reviews
<1>13. AtTheEnd'
  <2>1. h.pt = "reviewing" => row.critic # "none" /\ reviewed'[count] = 0
    <3> HAVE h.pt = "reviewing"
    <3>1. h.pt \in Asking
      BY DEF Asking
    <3>2. run[count].critic = "none" /\ row.critic # "none" /\ reviewed' = reviewed
      BY <1>1, <1>2, <3>1 DEF Accounts
    <3>3. QED
      BY <1>1, <3>2 DEF BudgetInv, Reviews
  <2>2. h.pt \in {"reload", "cutover"} =>
          h.usage.llm = row.usage.llm /\ h.usage.assess = row.usage.assess
    BY <1>3 DEF BudgetInv, AtTheEnd
  <2>3. QED
    BY <1>1, <1>3, <1>4, <1>5, <2>1, <2>2 DEF AtTheEnd
<1>14. Grading'
  BY <1>3, <1>6 DEF Grading
<1>15. QED
  BY <1>10, <1>11, <1>12, <1>13, <1>14 DEF BudgetInv

LEMMA ReadBudget ==
  ASSUME TypeOK, OneProcess, BudgetInv, NEW p \in Proc, NEW r \in Run, NEW client \in BOOLEAN,
         Read(p, r, client)
  PROVE  BudgetInv'
<1> DEFINE pt == IF client THEN "critic" ELSE "semantic"
           h == [Idle EXCEPT !.pt = pt, !.r = r, !.client = client, !.usage = run[r].usage]
<1>1. at' = [at EXCEPT ![p] = h] /\ run[r].status = "tool" /\ run[r].to = NoRun
      /\ UNCHANGED <<count, run, assessing, reviewed, spent>>
  BY DEF Read, Goes
<1>2. h.r = r /\ h.pt \in {"critic", "semantic"}
  BY DEF Idle
<1> HIDE DEF h
<1>3. at'[p] = h /\ \A q \in Proc : q = p
  BY <1>1 DEF TypeOK, OneProcess
<1>4. r = count
  <2>1. r \in Nat /\ count \in Nat
    BY DEF TypeOK, Run
  <2>2. r <= count
    BY <1>1, <2>1 DEF BudgetInv, Chain
  <2>3. QED
    BY <1>1, <2>1, <2>2 DEF BudgetInv, Chain, NoRun
<1>5. AtTheEnd'
  BY <1>1, <1>2, <1>3, <1>4 DEF AtTheEnd
<1>6. Budget'
  BY <1>1, <1>2, <1>3 DEF BudgetInv, Budget, Used, Asking
<1>7. Chain' /\ Grading' /\ Reviews'
  BY <1>1 DEF BudgetInv, Chain, Grading, Reviews
<1>8. QED
  BY <1>5, <1>6, <1>7 DEF BudgetInv

(* When the only process is free, no handler is under way. *)
LEMMA FreeMeansIdle ==
  ASSUME OneProcess, Free PROVE \A p \in Proc : at[p].pt = "idle"
BY DEF OneProcess, Free

(* The child takes over what the lineage used, as the handler read it when *)
(* it revised the plan: nothing was added since.                           *)
LEMMA CutoverBudget ==
  ASSUME TypeOK, TypeOK', OneProcess, BudgetInv, NEW p \in Proc, Cutover(p)
  PROVE  BudgetInv'
<1> DEFINE r == at[p].r
           c == count + 1
           parent == Parent(p, c)
           child == Child(p)
<1>1. count \in Run /\ r = count /\ run[count].status = "tool" /\ at[p].copy = run[count]
      /\ at[p].usage.llm = run[count].usage.llm /\ at[p].usage.assess = run[count].usage.assess
  BY DEF Cutover, BudgetInv, AtTheEnd
<1>2. count \in Nat /\ c \in Run /\ count # c /\ count' = c
      /\ run' = [run EXCEPT ![c] = child, ![count] = parent]
      /\ UNCHANGED <<assessing, reviewed, spent>>
  BY <1>1 DEF Cutover, TypeOK, Run
<1>3. run[count] \in Row
  BY <1>1 DEF TypeOK
<1>4. /\ parent.to = c /\ parent.from = run[count].from /\ parent.status = "tool"
      /\ parent.critic = run[count].critic
  BY <1>1, <1>3 DEF Parent, Row
<1>5. /\ child.to = NoRun /\ child.from = count /\ child.status = "pending"
      /\ child.critic = "none" /\ child.usage = at[p].usage
  BY <1>1 DEF Child, NoRow
<1> HIDE DEF parent, child
<1>6. run'[c] = child /\ run'[count] = parent /\ \A x \in Run \ {c, count} : run'[x] = run[x]
  BY <1>1, <1>2 DEF TypeOK
<1>7. \A q \in Proc : at'[q].pt = "idle"
  <2>1. at'[p].pt = "idle"
    BY DEF Cutover, Returns, Goes, Idle, TypeOK
  <2>2. QED
    BY <2>1 DEF OneProcess
<1>8. assessing = {}
  BY <1>1 DEF BudgetInv, Grading
<1>9. Chain'
  <2> SUFFICES ASSUME NEW x \in Run
               PROVE  /\ x > c => /\ run'[x].status = "none" /\ run'[x].critic = "none"
                                  /\ run'[x].from = NoRun /\ run'[x].to = NoRun
                      /\ x <= c => /\ run'[x].status # "none" /\ run'[x].from = x - 1
                                   /\ run'[x].to = IF x = c THEN NoRun ELSE x + 1
    BY <1>2 DEF Chain
  <2>1. x \in Nat
    BY DEF Run
  <2>2. CASE x = c
    BY <1>2, <1>5, <1>6, <2>1, <2>2
  <2>3. CASE x = count
    BY <1>1, <1>2, <1>4, <1>6, <2>1, <2>3 DEF BudgetInv, Chain
  <2>4. CASE x \notin {c, count}
    <3>1. run'[x] = run[x] /\ x # c /\ x # count
      BY <1>6, <2>4
    <3>2. (x > c => x > count) /\ (x <= c => x <= count)
      BY <1>2, <2>1, <3>1
    <3>3. QED
      BY <3>1, <3>2 DEF BudgetInv, Chain
  <2>5. QED
    BY <2>2, <2>3, <2>4
<1>10. Used' = at[p].usage /\ Used = run[count].usage
  BY <1>1, <1>2, <1>5, <1>6 DEF Used
<1>11. Budget'
  <2>1. spent.llm <= Used'.llm /\ spent.assess <= Used'.assess
    BY <1>1, <1>10 DEF BudgetInv, Budget
  <2>2. QED
    BY <1>2, <1>7, <1>8, <2>1 DEF Budget, Asking
<1>12. Reviews'
  <2>1. reviewed[c] = 0
    BY <1>2 DEF BudgetInv, Reviews, Chain
  <2>2. QED
    BY <1>1, <1>2, <1>4, <1>5, <1>6, <2>1 DEF BudgetInv, Reviews
<1>13. AtTheEnd' /\ Grading'
  BY <1>2, <1>7, <1>8 DEF AtTheEnd, Grading
<1>14. QED
  BY <1>9, <1>11, <1>12, <1>13 DEF BudgetInv

LEMMA PlanRunBudget ==
  ASSUME TypeOK, OneProcess, BudgetInv, NEW sem \in BOOLEAN, PlanRun(sem) PROVE BudgetInv'
<1> DEFINE row == [NoRow EXCEPT !.status = "pending", !.version = version',
                                !.semantic = sem, !.plan = Step]
<1>1. count = 0 /\ count' = 1 /\ run' = [run EXCEPT ![1] = row]
      /\ UNCHANGED <<at, assessing, reviewed, spent>>
  BY DEF PlanRun
<1>2. row.status = "pending" /\ row.from = NoRun /\ row.to = NoRun /\ row.critic = "none"
      /\ row.usage = NoUse
  BY DEF NoRow
<1> HIDE DEF row
<1>3. 1 \in Run /\ run'[1] = row /\ \A x \in Run \ {1} : run'[x] = run[x]
  BY <1>1 DEF TypeOK, Run
<1>4. \A q \in Proc : at'[q].pt = "idle"
  BY <1>1, FreeMeansIdle DEF PlanRun
<1>5. assessing = {}
  BY <1>1 DEF BudgetInv, Grading, TypeOK, Run
<1>6. Used = NoUse /\ Used' = NoUse
  BY <1>1, <1>2, <1>3 DEF Used, Run
<1>7. Chain'
  BY <1>1, <1>2, <1>3 DEF BudgetInv, Chain, NoRun, Run
<1>8. Budget'
  BY <1>1, <1>4, <1>5, <1>6 DEF BudgetInv, Budget, Asking
<1>9. Reviews'
  <2>1. reviewed[1] = 0
    BY <1>1, <1>3 DEF BudgetInv, Reviews, Chain, Run
  <2>2. QED
    BY <1>1, <1>3, <2>1 DEF BudgetInv, Reviews
<1>10. AtTheEnd' /\ Grading'
  BY <1>1, <1>4, <1>5 DEF AtTheEnd, Grading
<1>11. QED
  BY <1>7, <1>8, <1>9, <1>10 DEF BudgetInv

LEMMA RunEndsBudget ==
  ASSUME TypeOK, OneProcess, BudgetInv, NEW r \in Run, NEW e \in Ending, RunEnds(r, e)
  PROVE  BudgetInv'
<1>1. run[r].status = "pending" /\ UNCHANGED <<count, at, assessing, reviewed, spent>>
  BY DEF RunEnds
<1>2. \E d : run' = [run EXCEPT ![r] = [run[r] EXCEPT !.status = e, !.done = d]]
  <2>1. CASE e = "completed"
    <3>1. run' = [run EXCEPT ![r] = [run[r] EXCEPT !.status = e, !.done = run[r].plan \ run[r].carried]]
      BY <2>1 DEF RunEnds, TypeOK
    <3>2. QED
      BY <3>1
  <2>2. CASE e # "completed"
    <3>1. PICK f \in run[r].plan \ run[r].carried :
            run' = [run EXCEPT ![r] = [run[r] EXCEPT !.status = e, !.done = Before(r, f)]]
      BY <2>2 DEF RunEnds, TypeOK
    <3>2. QED
      BY <3>1
  <2>3. QED
    BY <2>1, <2>2
<1>3. PICK d : run' = [run EXCEPT ![r] = [run[r] EXCEPT !.status = e, !.done = d]]
  BY <1>2
<1>4. /\ \A x \in Run \ {r} : run'[x] = run[x]
      /\ run'[r].status # "none" /\ run'[r].from = run[r].from /\ run'[r].to = run[r].to
      /\ run'[r].critic = run[r].critic /\ run'[r].usage = run[r].usage
  BY <1>3 DEF TypeOK, Row, Ending
<1>5. \A q \in Proc : at'[q].pt = "idle"
  BY <1>1, FreeMeansIdle DEF RunEnds
<1>6. Chain'
  BY <1>1, <1>4 DEF BudgetInv, Chain
<1>7. Used' = Used
  BY <1>1, <1>4 DEF Used
<1>8. Budget'
  BY <1>1, <1>7 DEF BudgetInv, Budget
<1>9. Reviews' /\ AtTheEnd'
  BY <1>1, <1>4, <1>5 DEF BudgetInv, Reviews, AtTheEnd
<1>10. Grading'
  BY <1>1, <1>4 DEF BudgetInv, Grading, TypeOK
<1>11. QED
  BY <1>6, <1>8, <1>9, <1>10 DEF BudgetInv

LEMMA AssessBudget ==
  ASSUME TypeOK, TypeOK', OneProcess, BudgetInv, NEW r \in Run,
         \/ AssessWithoutProvider(r) \/ ClaimAssessment(r) \/ CompleteAssessment(r)
         \/ CrashAssessing(r)
  PROVE  BudgetInv'
<1>1. PICK row \in Row :
        /\ run' = [run EXCEPT ![r] = row]
        /\ Core(row) = Core(run[r]) /\ row.to = run[r].to /\ row.critic = run[r].critic
        /\ IF ClaimAssessment(r)
           THEN row.usage.llm = run[r].usage.llm + 1 /\ row.usage.assess = run[r].usage.assess + 1
           ELSE row.usage = run[r].usage
  BY AssessRows
<1>2. /\ run'[r] = row /\ \A x \in Run \ {r} : run'[x] = run[x]
      /\ row.status = run[r].status /\ row.from = run[r].from
  BY <1>1 DEF TypeOK, Core
<1>3. UNCHANGED <<count, at, reviewed>>
  BY DEF AssessWithoutProvider, ClaimAssessment, CompleteAssessment, CrashAssessing
<1>4. Chain'
  BY <1>1, <1>2, <1>3 DEF BudgetInv, Chain
<1>5. Reviews'
  BY <1>1, <1>2, <1>3 DEF BudgetInv, Reviews
<1>6. AtTheEnd' /\ Grading' /\ Budget'
  <2>1. ASSUME NEW x \in assessing PROVE x = count /\ count \in Run /\ run[count].status = "completed"
    BY DEF BudgetInv, Grading, TypeOK
  <2>2. \A q \in Proc : at[q].pt = "idle"
    <3>1. CASE CrashAssessing(r)
      BY <2>1, <3>1 DEF CrashAssessing, BudgetInv, AtTheEnd
    <3>2. CASE ~CrashAssessing(r)
      BY <3>2, FreeMeansIdle DEF AssessWithoutProvider, ClaimAssessment, CompleteAssessment
    <3>3. QED
      BY <3>1, <3>2
  <2>3. AtTheEnd' /\ (\A q \in Proc : at'[q].pt \notin Asking)
    BY <1>3, <2>2 DEF AtTheEnd, Asking
  <2>4. r = count /\ count \in Run
    <3>1. CASE CompleteAssessment(r) \/ CrashAssessing(r)
      BY <2>1, <3>1 DEF CompleteAssessment, CrashAssessing
    <3>2. CASE AssessWithoutProvider(r) \/ ClaimAssessment(r)
      <4>1. run[r].status # "none" /\ run[r].to = NoRun
        BY <3>2 DEF AssessWithoutProvider, ClaimAssessment, Leaf, Ending
      <4>2. r \in Nat /\ count \in Nat
        BY DEF TypeOK, Run
      <4>3. r <= count
        BY <4>1, <4>2 DEF BudgetInv, Chain
      <4>4. QED
        BY <4>1, <4>2, <4>3 DEF BudgetInv, Chain, NoRun
    <3>3. QED
      BY <3>1, <3>2
  <2>5. Used = run[r].usage /\ Used' = row.usage
    BY <1>2, <1>3, <2>4 DEF Used
  <2>6. Used \in Usage /\ Used' \in Usage /\ spent.llm \in Nat /\ spent.assess \in Nat
    BY <2>4, <2>5 DEF TypeOK, Row
  <2>7. /\ Used.llm \in Nat /\ Used.assess \in Nat
        /\ spent.llm <= Used.llm /\ spent.assess <= Used.assess
        /\ assessing # {} => spent.llm + 1 <= Used.llm /\ spent.assess + 1 <= Used.assess
    BY <2>6 DEF BudgetInv, Budget, Usage
  <2>8. Grading'
    <3>1. assessing' \subseteq assessing \/ (assessing' = assessing \cup {r} /\ run[r].status = "completed")
      BY DEF AssessWithoutProvider, ClaimAssessment, CompleteAssessment, CrashAssessing
    <3>2. \A x \in assessing' : x = count /\ run[count].status = "completed"
      BY <2>1, <2>4, <3>1
    <3>3. QED
      BY <1>2, <1>3, <2>4, <3>2 DEF Grading
  <2>9. Budget'
    <3>1. CASE ClaimAssessment(r)
      <4>1. Used'.llm = Used.llm + 1 /\ Used'.assess = Used.assess + 1 /\ spent' = spent
        BY <1>1, <2>5, <3>1 DEF ClaimAssessment
      <4>2. QED
        BY <2>3, <2>6, <2>7, <4>1 DEF Budget
    <3>2. CASE ~ClaimAssessment(r)
      <4>1. Used' = Used
        BY <1>1, <2>5, <3>2
      <4>2. CASE AssessWithoutProvider(r)
        BY <2>3, <2>7, <4>1, <4>2 DEF Budget, AssessWithoutProvider
      <4>3. CASE CompleteAssessment(r) \/ CrashAssessing(r)
        <5>1. assessing' = {} /\ r \in assessing
          BY <2>1, <2>4, <4>3 DEF CompleteAssessment, CrashAssessing
        <5>2. /\ spent'.llm = spent.llm \/ spent'.llm = spent.llm + 1
              /\ spent'.assess = spent.assess \/ spent'.assess = spent.assess + 1
          BY <4>3 DEF CompleteAssessment, CrashAssessing, TypeOK
        <5>3. QED
          BY <2>3, <2>6, <2>7, <4>1, <5>1, <5>2 DEF Budget
      <4>4. QED
        BY <3>2, <4>2, <4>3
    <3>3. QED
      BY <3>1, <3>2
  <2>10. QED
    BY <2>3, <2>8, <2>9
<1>7. QED
  BY <1>4, <1>5, <1>6 DEF BudgetInv

LEMMA BudgetStep ==
  ASSUME OneProcess, TypeOK, TypeOK', OnARun, BudgetInv, [Next]_vars PROVE BudgetInv'
<1>1. CASE UNCHANGED vars
  BY <1>1 DEF vars, BudgetInv, Chain, AtTheEnd, Grading, Reviews, Budget, Used
<1>2. CASE OtherRun
  BY <1>2 DEF OtherRun, BudgetInv, Chain, AtTheEnd, Grading, Reviews, Budget, Used
<1>3. CASE \E sem \in BOOLEAN : PlanRun(sem)
  BY <1>3, PlanRunBudget
<1>4. CASE \E r \in Run, e \in Ending : RunEnds(r, e)
  BY <1>4, RunEndsBudget
<1>5. ASSUME NEW p \in Proc, Replan(p) \/ Crash(p) PROVE BudgetInv'
  <2>1. CASE Cutover(p)
    BY <2>1, CutoverBudget
  <2>2. CASE \E r \in Run, client \in BOOLEAN : Read(p, r, client)
    BY <2>2, ReadBudget
  <2>3. CASE ~Cutover(p) /\ ~\E r \in Run, client \in BOOLEAN : Read(p, r, client)
    BY <1>5, <2>3, HandlerEffect, EffectBudget
  <2>4. QED
    BY <2>1, <2>2, <2>3
<1>6. CASE \E r \in Run : \/ AssessWithoutProvider(r) \/ ClaimAssessment(r)
                          \/ CompleteAssessment(r) \/ CrashAssessing(r)
  BY <1>6, AssessBudget
<1>7. QED
  BY <1>1, <1>2, <1>3, <1>4, <1>5, <1>6 DEF Next

LEMMA BudgetAlways == OneProcess /\ Spec => []BudgetInv
<1>1. TypeOK /\ TypeOK' /\ OnARun /\ (OneProcess /\ BudgetInv) /\ [Next]_vars
        => (OneProcess /\ BudgetInv)'
  BY BudgetStep DEF OneProcess
<1>2. QED
  BY <1>1, BudgetInit, Invariants, PTL DEF Spec

(* One server process, which may die and start again at any point, never   *)
(* asks the provider more often than the budget of the lineage allows: the *)
(* last run of the chain accounts for every call before it is made, and    *)
(* the copies that the cutover writes into parent and child are current.   *)
THEOREM SpendIsBounded == OneProcess /\ Spec => []LineageSpend
<1>1. TypeOK /\ BudgetInv => LineageSpend
  BY BudgetImplies
<1>2. QED
  BY <1>1, BudgetAlways, Invariants, PTL

(* One server process continues a run by one child and puts each of its    *)
(* decisions to the provider at most once, also when it died under a claim *)
(* and handles the run again.                                              *)
THEOREM EachRunOnce == OneProcess /\ Spec => []OncePerRun
<1>1. TypeOK /\ BudgetInv => OncePerRun
  BY BudgetImplies
<1>2. QED
  BY <1>1, BudgetAlways, Invariants, PTL
=============================================================================
