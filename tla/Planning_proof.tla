---------------------------- MODULE Planning_proof ----------------------------
(* Theorems about Provenance, CaseMemory and Grounding: what the report of *)
(* a run says of its decisions, what a case tells of its run, and what the *)
(* context of an event is about; and about the composed run of planning,   *)
(* its types and the invariants of all its parts.                          *)
EXTENDS MCPlanning, Continuation_proof, PlanCompiler_proof

USE StepAssumption, BoundAssumption, LimitAssumption, GraderAssumption, CaseAssumption

-----------------------------------------------------------------------------
(* What the provider was asked for, and what the rows tell of it *)

(* A decision that was produced was asked for, and one that was asked for  *)
(* was claimed.                                                            *)
Marked(marker, asked) ==
  /\ marker = "COMPLETED" => asked
  /\ asked => marker # "none"

(* The assessment of a run that completed, as long as one driver went to   *)
(* assess it.                                                              *)
Graded(r) ==
  /\ r \in assessing \/ "assessment" \in called[r] =>
       run[r].status = "completed" /\ graders[r] > 0
  /\ graders[r] <= 1 /\ r \in assessing => run[r].assess = "STARTED"
  /\ graders[r] <= 1 /\ "assessment" \in called[r] =>
       run[r].assess # "none" /\ (run[r].assess = "STARTED" \/ grade[r] \in {"error", "llm"})
  /\ grade[r] = "llm" => "assessment" \in called[r]

Redesigning(p) == at[p].pt = "drafting" => run[at[p].r].draft # "none"

ProvInv ==
  /\ \A r \in Run :
       /\ Marked(run[r].critic, "critic" \in called[r])
       /\ Marked(run[r].draft, "semantic_replan" \in called[r])
       /\ Graded(r)
       /\ r > count => run[r] = NoRow
  /\ \A p \in Proc : Redesigning(p)

LEMMA ProvInit_Inv == Init /\ ProvInit => ProvTypeOK /\ ProvInv
<1> SUFFICES ASSUME Init, ProvInit PROVE ProvTypeOK /\ ProvInv
  OBVIOUS
<1>1. ProvTypeOK
  BY DEF ProvInit, ProvTypeOK, Grade
<1>2. ASSUME NEW r \in Run
      PROVE  /\ Marked(run[r].critic, "critic" \in called[r])
             /\ Marked(run[r].draft, "semantic_replan" \in called[r])
             /\ Graded(r) /\ run[r] = NoRow
  BY DEF Init, ProvInit, Marked, Graded, NoRow
<1>3. \A p \in Proc : Redesigning(p)
  BY DEF Init, Redesigning, Idle
<1>4. QED
  BY <1>1, <1>2, <1>3 DEF ProvInv

-----------------------------------------------------------------------------
(* Steps that call nobody *)

(* A marker stays, or a claim sets it. *)
MarkerMoves(m, n) == n = m \/ (m = "none" /\ n = "STARTED")

RowMoves(a, b) ==
  /\ MarkerMoves(a.critic, b.critic) /\ MarkerMoves(a.draft, b.draft)
  /\ b.assess = a.assess /\ (a.status = "completed" => b.status = "completed")

(* What a step leaves that calls nobody: the markers, but for new claims,  *)
(* and a handler that redesigns under such a claim.                        *)
Calm ==
  /\ UNCHANGED <<provVars, assessing>>
  /\ \A r \in Run : RowMoves(run[r], run'[r]) /\ (r > count' => run'[r] = NoRow)
  /\ \A p \in Proc : at'[p].pt = "drafting" => run'[at'[p].r].draft # "none"

LEMMA CalmKeeps ==
  ASSUME ProvTypeOK, ProvInv, Calm PROVE ProvTypeOK' /\ ProvInv'
<1>1. ProvTypeOK'
  BY DEF Calm, provVars, ProvTypeOK
<1>2. ASSUME NEW r \in Run PROVE Marked(run'[r].critic, "critic" \in called'[r])
                                 /\ Marked(run'[r].draft, "semantic_replan" \in called'[r])
  BY DEF Calm, provVars, ProvInv, Marked, RowMoves, MarkerMoves
<1>3. ASSUME NEW r \in Run PROVE Graded(r)'
  BY DEF Calm, provVars, ProvInv, Graded, RowMoves
<1>4. QED
  BY <1>1, <1>2, <1>3 DEF Calm, ProvInv, Redesigning

(* One row is written, and at most one handler moves on. *)
LEMMA OneRowCalm ==
  ASSUME TypeOK, OnARun, ProvInv, UNCHANGED <<count, assessing>>, UNCHANGED provVars,
         NEW r \in Run, r <= count, NEW row, run' = [run EXCEPT ![r] = row],
         RowMoves(run[r], row),
         NEW p \in Proc, \A q \in Proc \ {p} : at'[q] = at[q],
         at'[p] = at[p] \/ (at'[p].pt = "drafting" => at'[p].r = r /\ row.draft # "none")
  PROVE  Calm
<1>1. run'[r] = row /\ \A x \in Run \ {r} : run'[x] = run[x]
  BY DEF TypeOK
<1>2. \A x \in Run : RowMoves(run[x], run'[x])
  BY <1>1 DEF RowMoves, MarkerMoves
<1>3. \A x \in Run : x > count' => run'[x] = NoRow
  <2>1. \A x \in Run : x > count => x # r
    BY DEF TypeOK, Run
  <2>2. QED
    BY <1>1, <2>1 DEF ProvInv
<1>4. ASSUME NEW q \in Proc, at'[q].pt = "drafting" PROVE run'[at'[q].r].draft # "none"
  <2>1. CASE at'[q] = at[q]
    <3>1. at[q].r \in Run /\ run[at[q].r].draft # "none"
      BY <1>4, <2>1 DEF OnARun, ProvInv, Redesigning
    <3>2. QED
      BY <1>2, <2>1, <3>1 DEF RowMoves, MarkerMoves
  <2>2. CASE at'[q] # at[q]
    BY <1>1, <1>4, <2>2
  <2>3. QED
    BY <2>1, <2>2
<1>5. QED
  BY <1>2, <1>3, <1>4 DEF Calm

LEMMA PlanRunCalm ==
  ASSUME TypeOK, ProvInv, BudgetInv, UNCHANGED provVars, NEW sem \in BOOLEAN, PlanRun(sem)
  PROVE  Calm
<1>1. /\ count = 0 /\ count' = 1 /\ UNCHANGED <<at, assessing>>
      /\ run' = [run EXCEPT ![1] = [NoRow EXCEPT !.status = "pending", !.version = version',
                                                 !.semantic = sem, !.plan = Step]]
  BY DEF PlanRun
<1>2. \A r \in Run : run[r] = NoRow
  BY <1>1 DEF ProvInv, Run
<1>3. \A r \in Run : RowMoves(run[r], run'[r]) /\ (r > 1 => run'[r] = NoRow)
  <2> DEFINE row == [NoRow EXCEPT !.status = "pending", !.version = version', !.semantic = sem, !.plan = Step]
  <2>1. RowMoves(NoRow, row)
    BY DEF RowMoves, MarkerMoves, NoRow
  <2>2. RowMoves(NoRow, NoRow)
    BY DEF RowMoves, MarkerMoves
  <2> HIDE DEF row
  <2>3. run'[1] = row /\ \A r \in Run \ {1} : run'[r] = run[r]
    BY <1>1 DEF row, TypeOK, Run
  <2>4. \A r \in Run : r > 1 => r # 1
    BY DEF Run
  <2>5. QED
    BY <1>2, <2>1, <2>2, <2>3, <2>4
<1>4. \A p \in Proc : at'[p].pt = "idle"
  BY <1>1 DEF BudgetInv, AtTheEnd, Run
<1>5. QED
  BY <1>1, <1>3, <1>4 DEF Calm

(* A row that exists is one of the first count. *)
LEMMA ExistingRow ==
  ASSUME TypeOK, BudgetInv, NEW r \in Run, run[r].status # "none" PROVE r <= count
BY DEF TypeOK, Run, BudgetInv, Chain

LEMMA RunEndsCalm ==
  ASSUME TypeOK, OnARun, ProvInv, BudgetInv, UNCHANGED provVars, NEW r \in Run, NEW e \in Ending,
         RunEnds(r, e)
  PROVE  Calm
<1>1. run[r].status = "pending" /\ UNCHANGED <<count, at, assessing>>
  BY DEF RunEnds
<1>2. r <= count
  BY <1>1, ExistingRow
<1>3. PICK d : run' = [run EXCEPT ![r] = [run[r] EXCEPT !.status = e, !.done = d]]
  <2>1. CASE e = "completed"
    BY <2>1 DEF RunEnds, TypeOK
  <2>2. CASE e # "completed"
    BY <2>2 DEF RunEnds, TypeOK
  <2>3. QED
    BY <2>1, <2>2
<1> DEFINE row == [run[r] EXCEPT !.status = e, !.done = d]
<1>4. RowMoves(run[r], row)
  BY <1>1 DEF RowMoves, MarkerMoves, TypeOK, Row
<1> HIDE DEF row
<1>5. PICK p \in Proc : at[p].pt = "idle"
  BY DEF RunEnds, Free
<1>6. QED
  BY <1>1, <1>2, <1>3, <1>4, <1>5, OneRowCalm DEF row

(* Where a handler stands after its step. *)
LEMMA PointSet ==
  ASSUME TypeOK, NEW p \in Proc
  PROVE  /\ \A x : Goes(p, [at[p] EXCEPT !.pt = x]) => at'[p].pt = x
         /\ \A x, y : Goes(p, [at[p] EXCEPT !.pt = x, !.usage = y]) => at'[p].pt = x
         /\ \A x, y : Goes(p, [at[p] EXCEPT !.pt = x, !.copy = y]) => at'[p].pt = x
         /\ \A x, y : Goes(p, [at[p] EXCEPT !.pt = x, !.rec = y]) => at'[p].pt = x
         /\ \A x, y, z : Goes(p, [at[p] EXCEPT !.pt = x, !.drafted = y, !.suffix = z]) => at'[p].pt = x
         /\ Goes(p, Idle) => at'[p].pt = "idle"
<1>1. at[p] \in Handler /\ \A h : Goes(p, h) => at'[p] = h
  BY DEF TypeOK, Goes, Handler
<1>2. \A x : Goes(p, [at[p] EXCEPT !.pt = x]) => at'[p].pt = x
  BY <1>1 DEF Handler
<1>3. \A x, y : Goes(p, [at[p] EXCEPT !.pt = x, !.usage = y]) => at'[p].pt = x
  BY <1>1 DEF Handler
<1>4. \A x, y : Goes(p, [at[p] EXCEPT !.pt = x, !.copy = y]) => at'[p].pt = x
  BY <1>1 DEF Handler
<1>5. \A x, y : Goes(p, [at[p] EXCEPT !.pt = x, !.rec = y]) => at'[p].pt = x
  BY <1>1 DEF Handler
<1>6. \A x, y, z : Goes(p, [at[p] EXCEPT !.pt = x, !.drafted = y, !.suffix = z]) => at'[p].pt = x
  BY <1>1 DEF Handler
<1>7. Goes(p, Idle) => at'[p].pt = "idle"
  BY <1>1 DEF Idle
<1>8. QED
  BY <1>2, <1>3, <1>4, <1>5, <1>6, <1>7

LEMMA ReplanCalm ==
  ASSUME TypeOK, OnARun, ProvInv, BudgetInv, UNCHANGED provVars, NEW p \in Proc,
         ClaimCritic(p) \/ Decide(p) \/ ClaimDraft(p) \/ Revise(p) \/ Reload(p)
  PROVE  Calm
<1> DEFINE r == at[p].r
<1>1. /\ at[p] \in Handler /\ r \in Run /\ run[r] \in Row /\ r = count
  BY BusyHandler DEF ClaimCritic, Decide, ClaimDraft, Revise, Reload, Busy, BudgetInv, AtTheEnd
<1>2. UNCHANGED <<count, assessing>> /\ r <= count
  BY <1>1 DEF ClaimCritic, Decide, ClaimDraft, Revise, Reload, TypeOK
<1>3. \A q \in Proc \ {p} : at'[q] = at[q]
  BY DEF ClaimCritic, Decide, ClaimDraft, Revise, Reload, Goes, Returns, TypeOK
<1>4. RowMoves(run[r], run[r])
  BY DEF RowMoves, MarkerMoves
<1>5. run = [run EXCEPT ![r] = run[r]]
  BY <1>1 DEF TypeOK
<1>6. CASE ClaimCritic(p)
  <2> DEFINE u == [run[r].usage EXCEPT !.llm = @ + 1, !.critic = @ + 1]
             row == [run[r] EXCEPT !.critic = "STARTED", !.usage = u]
  <2>1. CASE CriticClaimable(run[r])
    <3>1. run' = [run EXCEPT ![r] = row] /\ Goes(p, [at[p] EXCEPT !.pt = "reviewing"])
      BY <1>1, <1>6, <2>1 DEF ClaimCritic, TypeOK, Row, Usage
    <3> HIDE DEF u
    <3>2. RowMoves(run[r], row)
      BY <1>1, <2>1 DEF RowMoves, MarkerMoves, CriticClaimable, Row
    <3> HIDE DEF row
    <3>3. at'[p].pt # "drafting"
      BY <1>1, <3>1 DEF Goes, TypeOK, Handler
    <3>4. QED
      BY <1>1, <1>2, <1>3, <3>1, <3>2, <3>3, OneRowCalm
  <2>2. CASE ~CriticClaimable(run[r])
    <3> DEFINE rec == IF run[r].critic = "COMPLETED" THEN run[r].rec ELSE "replan"
    <3>1. run' = run /\ Goes(p, [at[p] EXCEPT !.pt = "decide", !.rec = rec])
      BY <1>6, <2>2 DEF ClaimCritic
    <3> HIDE DEF rec
    <3>2. at'[p].pt # "drafting"
      BY <1>1, <3>1 DEF Goes, TypeOK, Handler
    <3>3. QED
      BY <1>1, <1>2, <1>3, <1>4, <1>5, <3>1, <3>2, OneRowCalm
  <2>3. QED
    BY <2>1, <2>2
<1>7. CASE ClaimDraft(p)
  <2> DEFINE u == [run[r].usage EXCEPT !.llm = @ + 1]
             row == [run[r] EXCEPT !.draft = "STARTED", !.usage = u]
             claims == /\ at[p].client /\ run[r].semantic /\ at[p].usage.replans < MaxReplans
                       /\ run[r].draft = "none" /\ run[r].usage.llm < MaxLlmCalls
  <2>1. CASE claims
    <3>1. run' = [run EXCEPT ![r] = row] /\ Goes(p, [at[p] EXCEPT !.pt = "drafting"])
      BY <1>1, <1>7, <2>1 DEF ClaimDraft, TypeOK, Row, Usage
    <3> HIDE DEF u
    <3>2. RowMoves(run[r], row) /\ row.draft = "STARTED"
      BY <1>1, <2>1 DEF RowMoves, MarkerMoves, Row
    <3> HIDE DEF row
    <3>3. at'[p].r = r
      BY <1>1, <3>1 DEF Goes, TypeOK, Handler
    <3>4. QED
      BY <1>1, <1>2, <1>3, <3>1, <3>2, <3>3, OneRowCalm
  <2>2. CASE ~claims
    <3>1. PICK d, s : run' = run /\ Goes(p, [at[p] EXCEPT !.pt = "revise", !.drafted = d, !.suffix = s])
      BY <1>7, <2>2 DEF ClaimDraft
    <3>2. at'[p].pt # "drafting"
      BY <1>1, <3>1 DEF Goes, TypeOK, Handler
    <3>3. QED
      BY <1>1, <1>2, <1>3, <1>4, <1>5, <3>1, <3>2, OneRowCalm
  <2>3. QED
    BY <2>1, <2>2
<1>8. CASE Decide(p) \/ Revise(p) \/ Reload(p)
  <2>1. run' = run
    BY <1>8 DEF Decide, Revise, Reload
  <2>2. /\ \A x : Goes(p, [at[p] EXCEPT !.pt = x]) => at'[p].pt = x
        /\ \A x, y : Goes(p, [at[p] EXCEPT !.pt = x, !.usage = y]) => at'[p].pt = x
        /\ \A x, y : Goes(p, [at[p] EXCEPT !.pt = x, !.copy = y]) => at'[p].pt = x
        /\ Goes(p, Idle) => at'[p].pt = "idle"
    BY PointSet
  <2>4. at'[p].pt # "drafting"
    <3>1. CASE Decide(p)
      BY <2>2, <3>1 DEF Decide, Returns
    <3>2. CASE Revise(p)
      <4>1. \/ \E y : Goes(p, [at[p] EXCEPT !.pt = "reload", !.usage = y])
            \/ Goes(p, Idle)
        BY <3>2 DEF Revise, Returns
      <4>2. QED
        BY <2>2, <4>1
    <3>3. CASE Reload(p)
      <4>1. Goes(p, [at[p] EXCEPT !.pt = "cutover", !.copy = run[at[p].r]])
        BY <3>3 DEF Reload
      <4>2. QED
        BY <2>2, <4>1
    <3>4. QED
      BY <1>8, <3>1, <3>2, <3>3
  <2>5. QED
    BY <1>1, <1>2, <1>3, <1>4, <1>5, <2>1, <2>4, OneRowCalm
<1>9. QED
  BY <1>6, <1>7, <1>8

LEMMA ReadCalm ==
  ASSUME TypeOK, OnARun, ProvInv, BudgetInv, UNCHANGED provVars, NEW p \in Proc, NEW r \in Run,
         NEW client \in BOOLEAN, Read(p, r, client)
  PROVE  Calm
<1> DEFINE pt == IF client THEN "critic" ELSE "semantic"
           h == [Idle EXCEPT !.pt = pt, !.r = r, !.client = client, !.usage = run[r].usage]
<1>1. at' = [at EXCEPT ![p] = h] /\ UNCHANGED <<run, count, assessing>> /\ run[r].status = "tool"
  BY DEF Read, Goes
<1>2. h.pt # "drafting"
  BY DEF Idle
<1> HIDE DEF h
<1>3. at'[p] = h /\ \A q \in Proc \ {p} : at'[q] = at[q]
  BY <1>1 DEF TypeOK
<1>4. r <= count
  BY <1>1, ExistingRow
<1>5. RowMoves(run[r], run[r]) /\ run = [run EXCEPT ![r] = run[r]]
  BY DEF RowMoves, MarkerMoves, TypeOK
<1>6. QED
  BY <1>1, <1>2, <1>3, <1>4, <1>5, OneRowCalm

LEMMA CutoverCalm ==
  ASSUME TypeOK, OneProcess, ProvInv, BudgetInv, UNCHANGED provVars, NEW p \in Proc, Cutover(p)
  PROVE  Calm
<1> DEFINE c == count + 1
           parent == Parent(p, c)
           child == Child(p)
<1>1. count \in Run /\ at[p].r = count /\ at[p].copy = run[count]
  BY DEF Cutover, BudgetInv, AtTheEnd
<1>2. count \in Nat /\ c \in Run /\ count # c /\ count' = c /\ assessing' = assessing
      /\ run' = [run EXCEPT ![c] = child, ![count] = parent]
  <2>1. count \in Nat /\ count < MaxRuns /\ count' = c /\ assessing' = assessing
        /\ run' = [run EXCEPT ![count'] = child, ![at[p].r] = Parent(p, count')]
    BY DEF Cutover, TypeOK
  <2>2. QED
    BY <1>1, <2>1 DEF Run
<1>3. run[count] \in Row /\ run[c] = NoRow
  BY <1>1, <1>2 DEF TypeOK, ProvInv
<1>4. RowMoves(run[count], parent)
  BY <1>1, <1>3 DEF Parent, Row, RowMoves, MarkerMoves
<1>5. RowMoves(run[c], child)
  BY <1>3 DEF Child, NoRow, RowMoves, MarkerMoves
<1> HIDE DEF parent, child
<1>6. run'[c] = child /\ run'[count] = parent /\ \A x \in Run \ {c, count} : run'[x] = run[x]
  BY <1>1, <1>2 DEF TypeOK
<1>7. \A x \in Run : RowMoves(run[x], run'[x])
  BY <1>4, <1>5, <1>6 DEF RowMoves, MarkerMoves
<1>8. \A x \in Run : x > count' => run'[x] = NoRow
  <2>1. \A x \in Run : x > c => x > count /\ x \notin {c, count}
    BY <1>2 DEF Run
  <2>2. QED
    BY <1>2, <1>6, <2>1 DEF ProvInv
<1>9. \A q \in Proc : at'[q].pt = "idle"
  <2>1. at'[p].pt = "idle"
    BY DEF Cutover, Returns, Goes, Idle, TypeOK
  <2>2. QED
    BY <2>1 DEF OneProcess
<1>10. QED
  BY <1>2, <1>7, <1>8, <1>9 DEF Calm

LEMMA SilentCalm ==
  ASSUME TypeOK, OnARun, OneProcess, ProvInv, BudgetInv, Silent, UNCHANGED provVars
  PROVE  Calm
<1>1. CASE OtherRun
  <2>1. UNCHANGED <<count, run, at, assessing>>
    BY <1>1 DEF OtherRun
  <2>2. QED
    BY <2>1 DEF Calm, RowMoves, MarkerMoves, ProvInv, Redesigning
<1>2. QED
  BY <1>1, PlanRunCalm, RunEndsCalm, ReplanCalm, ReadCalm, CutoverCalm DEF Silent

-----------------------------------------------------------------------------
(* Steps that call the provider, or go to assess *)

LEMMA OneMoreCall ==
  ASSUME TypeOK
  PROVE  /\ [spent EXCEPT !.llm = @ + 1] # spent
         /\ [spent EXCEPT !.llm = @ + 1, !.assess = @ + 1] # spent
<1>1. spent \in [llm : Nat, assess : Nat]
  BY DEF TypeOK
<1>2. spent.llm + 1 # spent.llm
  BY <1>1
<1>3. [spent EXCEPT !.llm = @ + 1].llm = spent.llm + 1
      /\ [spent EXCEPT !.llm = @ + 1, !.assess = @ + 1].llm = spent.llm + 1
  BY <1>1
<1>4. QED
  BY <1>2, <1>3

(* A critic's or a redesign's call, by which only markers that are set     *)
(* become completed.                                                       *)
LEMMA AsksKeeps ==
  ASSUME TypeOK, OnARun, OneProcess, ProvTypeOK, ProvInv, BudgetInv, NEW p \in Proc, Asks(p)
  PROVE  ProvTypeOK' /\ ProvInv'
<1> DEFINE r == at[p].r
           d == IF at[p].pt = "reviewing" THEN "critic" ELSE "semantic_replan"
<1>1. at[p] \in Handler /\ r \in Run /\ run[r] \in Row /\ r = count
  BY BusyHandler DEF Asks, Review, Draft, Crash, Busy, BudgetInv, AtTheEnd
<1>2. UNCHANGED <<count, assessing, grade, graders>>
  BY DEF Asks, Review, Draft, Crash
<1>3. called' = called \/ (spent' # spent /\ called' = [called EXCEPT ![r] = called[r] \cup {d}])
  BY DEF Asks, Books
<1>4. /\ ProvTypeOK'
      /\ \A x \in Run \ {r} : called'[x] = called[x]
      /\ called'[r] = called[r] \/ (spent' # spent /\ called'[r] = called[r] \cup {d})
  BY <1>1, <1>2, <1>3 DEF ProvTypeOK, Decision
<1>5. spent' # spent => at[p].pt \in {"reviewing", "drafting"}
  BY DEF Asks, Review, Draft, Crash
<1>6. /\ at[p].pt = "reviewing" => run[r].critic # "none"
      /\ at[p].pt = "drafting" => run[r].draft # "none"
  BY <1>1 DEF BudgetInv, AtTheEnd, ProvInv, Redesigning
<1>7. \A q \in Proc : at'[q].pt # "drafting"
  <2>1. at'[p].pt # "drafting"
    <3>1. /\ \A x : Goes(p, [at[p] EXCEPT !.pt = x]) => at'[p].pt = x
          /\ \A x, y : Goes(p, [at[p] EXCEPT !.pt = x, !.rec = y]) => at'[p].pt = x
          /\ \A x, y, z : Goes(p, [at[p] EXCEPT !.pt = x, !.drafted = y, !.suffix = z]) => at'[p].pt = x
          /\ Goes(p, Idle) => at'[p].pt = "idle"
      BY PointSet
    <3>3. CASE Review(p)
      <4>1. \E y : Goes(p, [at[p] EXCEPT !.pt = "decide", !.rec = y])
        BY <3>3 DEF Review
      <4>2. QED
        BY <3>1, <4>1
    <3>4. CASE Draft(p)
      <4>1. \/ \E y, z : Goes(p, [at[p] EXCEPT !.pt = "revise", !.drafted = y, !.suffix = z])
            \/ Goes(p, [at[p] EXCEPT !.pt = "revise"])
        BY <3>4 DEF Draft
      <4>2. QED
        BY <3>1, <4>1
    <3>5. CASE Crash(p)
      BY <3>1, <3>5 DEF Crash, Returns
    <3>6. QED
      BY <3>3, <3>4, <3>5 DEF Asks
  <2>2. QED
    BY <2>1 DEF OneProcess
<1>8. PICK row :
        /\ run' = [run EXCEPT ![r] = row] /\ row.assess = run[r].assess /\ row.status = run[r].status
        /\ row.critic = run[r].critic
             \/ (spent' # spent /\ d = "critic" /\ run[r].critic = "STARTED" /\ row.critic = "COMPLETED"
                 /\ called'[r] = called[r] \cup {d})
        /\ row.draft = run[r].draft
             \/ (spent' # spent /\ d = "semantic_replan" /\ run[r].draft = "STARTED"
                 /\ row.draft = "COMPLETED" /\ called'[r] = called[r] \cup {d})
  <2>1. spent' # spent => called'[r] = called[r] \cup {d}
    BY <1>1 DEF Asks, Books, ProvTypeOK
  <2>2. CASE UNCHANGED run
    <3>1. run' = [run EXCEPT ![r] = run[r]]
      BY <1>1, <2>2 DEF TypeOK
    <3>2. QED
      BY <3>1
  <2>3. CASE Review(p) /\ ~UNCHANGED run
    <3>1. PICK c : run' = [run EXCEPT ![r] = [run[r] EXCEPT !.critic = "COMPLETED", !.rec = c]]
                   /\ run[r].critic = "STARTED"
      BY <1>1, <2>3 DEF Review, TypeOK
    <3>2. spent' # spent /\ d = "critic"
      BY <2>3, OneMoreCall DEF Review
    <3> DEFINE row == [run[r] EXCEPT !.critic = "COMPLETED", !.rec = c]
    <3>3. /\ row.critic = "COMPLETED" /\ row.draft = run[r].draft /\ row.assess = run[r].assess
          /\ row.status = run[r].status
      BY <1>1 DEF Row
    <3> HIDE DEF row
    <3>4. QED
      BY <2>1, <3>1, <3>2, <3>3 DEF row
  <2>4. CASE Draft(p) /\ ~UNCHANGED run
    <3>1. PICK s : run' = [run EXCEPT ![r] = [run[r] EXCEPT !.draft = "COMPLETED", !.suffix = s]]
                   /\ run[r].draft = "STARTED"
      BY <1>1, <2>4 DEF Draft, TypeOK
    <3>2. spent' # spent /\ d = "semantic_replan"
      BY <2>4, OneMoreCall DEF Draft
    <3> DEFINE row == [run[r] EXCEPT !.draft = "COMPLETED", !.suffix = s]
    <3>3. /\ row.critic = run[r].critic /\ row.draft = "COMPLETED" /\ row.assess = run[r].assess
          /\ row.status = run[r].status
      BY <1>1 DEF Row
    <3> HIDE DEF row
    <3>4. QED
      BY <2>1, <3>1, <3>2, <3>3 DEF row
  <2>5. QED
    BY <2>2, <2>3, <2>4 DEF Asks, Crash
<1>9. run'[r] = row /\ \A x \in Run \ {r} : run'[x] = run[x]
  BY <1>1, <1>8 DEF TypeOK
<1>10. ASSUME NEW x \in Run
       PROVE  /\ Marked(run'[x].critic, "critic" \in called'[x])
              /\ Marked(run'[x].draft, "semantic_replan" \in called'[x])
  <2>1. CASE x # r
    BY <1>4, <1>9, <2>1 DEF ProvInv
  <2>2. CASE x = r
    <3>1. Marked(run[r].critic, "critic" \in called[r]) /\ Marked(run[r].draft, "semantic_replan" \in called[r])
      BY <1>1 DEF ProvInv
    <3>2. Marked(row.critic, "critic" \in called'[r])
      BY <1>4, <1>5, <1>6, <1>8, <3>1 DEF Marked
    <3>3. Marked(row.draft, "semantic_replan" \in called'[r])
      BY <1>4, <1>5, <1>6, <1>8, <3>1 DEF Marked
    <3>4. QED
      BY <1>9, <2>2, <3>2, <3>3
  <2>3. QED
    BY <2>1, <2>2
<1>11. ASSUME NEW x \in Run PROVE Graded(x)'
  <2>1. run'[x].assess = run[x].assess /\ run'[x].status = run[x].status
    BY <1>8, <1>9
  <2>2. "assessment" \in called'[x] <=> "assessment" \in called[x]
    BY <1>4
  <2>3. Graded(x)
    BY DEF ProvInv
  <2>4. QED
    BY <1>2, <2>1, <2>2, <2>3 DEF Graded
<1>12. ASSUME NEW x \in Run, x > count' PROVE run'[x] = NoRow
  <2>1. x # r /\ x > count
    BY <1>1, <1>2, <1>12 DEF Run
  <2>2. QED
    BY <1>9, <2>1 DEF ProvInv
<1>13. QED
  BY <1>4, <1>7, <1>10, <1>11, <1>12 DEF ProvInv, Redesigning

(* A driver that assesses the run, or dies while it does, leaves the other *)
(* markers and other runs alone.                                           *)
LEMMA AssessKeeps ==
  ASSUME TypeOK, OnARun, ProvTypeOK, ProvInv, BudgetInv, NEW r \in Run, run[r].status # "none",
         UNCHANGED <<count, at>>,
         NEW row, run' = [run EXCEPT ![r] = row],
         row.critic = run[r].critic, row.draft = run[r].draft,
         called' = called \/ called' = [called EXCEPT ![r] = called[r] \cup {"assessment"}],
         NEW g \in Grade, grade' = [grade EXCEPT ![r] = g],
         NEW n \in 0 .. MaxGraders, graders' = [graders EXCEPT ![r] = n],
         \A x \in Run \ {r} : x \in assessing' <=> x \in assessing,
         Graded(r)'
  PROVE  ProvTypeOK' /\ ProvInv'
<1>1. run'[r] = row /\ \A x \in Run \ {r} : run'[x] = run[x]
  BY DEF TypeOK
<1>2. /\ ProvTypeOK'
      /\ \A x \in Run \ {r} : called'[x] = called[x] /\ grade'[x] = grade[x] /\ graders'[x] = graders[x]
      /\ \A x \in Run : /\ "critic" \in called'[x] <=> "critic" \in called[x]
                        /\ "semantic_replan" \in called'[x] <=> "semantic_replan" \in called[x]
  BY DEF ProvTypeOK, Decision
<1>3. \A x \in Run : run'[x].critic = run[x].critic /\ run'[x].draft = run[x].draft
  BY <1>1
<1>4. ASSUME NEW x \in Run
      PROVE  /\ Marked(run'[x].critic, "critic" \in called'[x])
             /\ Marked(run'[x].draft, "semantic_replan" \in called'[x])
  BY <1>2, <1>3 DEF ProvInv, Marked
<1>5. ASSUME NEW x \in Run PROVE Graded(x)'
  <2>1. CASE x = r
    BY <2>1
  <2>2. CASE x # r
    BY <1>1, <1>2, <2>2 DEF Graded, ProvInv
  <2>3. QED
    BY <2>1, <2>2
<1>6. ASSUME NEW x \in Run, x > count' PROVE run'[x] = NoRow
  <2>1. r <= count
    BY ExistingRow
  <2>2. x # r
    BY <1>6, <2>1 DEF TypeOK, Run
  <2>3. QED
    BY <1>1, <1>6, <2>2 DEF ProvInv
<1>7. ASSUME NEW p \in Proc PROVE Redesigning(p)'
  BY <1>3 DEF ProvInv, Redesigning, OnARun
<1>8. QED
  BY <1>2, <1>4, <1>5, <1>6, <1>7 DEF ProvInv

LEMMA Completed ==
  ASSUME TypeOK, NEW r \in Run
  PROVE  /\ run[r] \in Row
         /\ \A row : run' = [run EXCEPT ![r] = row] => run'[r] = row
         /\ \A g : grade' = [grade EXCEPT ![r] = g] /\ ProvTypeOK => grade'[r] = g
         /\ \A n : graders' = [graders EXCEPT ![r] = n] /\ ProvTypeOK => graders'[r] = n
         /\ LET row == [run[r] EXCEPT !.assess = "COMPLETED"] IN
              /\ row.critic = run[r].critic /\ row.draft = run[r].draft
              /\ row.status = run[r].status /\ row.assess = "COMPLETED"
              /\ run' = [run EXCEPT ![r].assess = "COMPLETED"] => run' = [run EXCEPT ![r] = row]
BY DEF TypeOK, ProvTypeOK, Row

LEMMA GradesAloneKeeps ==
  ASSUME TypeOK, OnARun, ProvTypeOK, ProvInv, BudgetInv, NEW r \in Run, GradesAlone(r)
  PROVE  ProvTypeOK' /\ ProvInv'
<1> DEFINE row == [run[r] EXCEPT !.assess = "COMPLETED"]
           n == IF run[r].status = "completed" THEN graders[r] + 1 ELSE graders[r]
<1>1. /\ run' = [run EXCEPT ![r] = row] /\ run'[r] = row
      /\ row.critic = run[r].critic /\ row.draft = run[r].draft
      /\ row.status = run[r].status /\ row.assess = "COMPLETED"
  BY Completed DEF GradesAlone, AssessWithoutProvider
<1> HIDE DEF row
<1>2. PICK g \in Reason(r) : grade' = [grade EXCEPT ![r] = g]
  BY DEF GradesAlone
<1>3. g \in Grade
  BY DEF Reason, Grade
<1>4. n \in 0 .. MaxGraders /\ graders' = [graders EXCEPT ![r] = n] /\ graders[r] \in Nat
  <2>1. graders[r] \in 0 .. MaxGraders /\ graders[r] < MaxGraders
        /\ graders = [graders EXCEPT ![r] = graders[r]]
    BY DEF GradesAlone, ProvTypeOK
  <2>2. graders' = IF run[r].status = "completed" THEN [graders EXCEPT ![r] = graders[r] + 1] ELSE graders
    BY DEF GradesAlone
  <2>3. n \in 0 .. MaxGraders
    BY <2>1
  <2>4. CASE run[r].status = "completed"
    BY <2>1, <2>2, <2>3, <2>4
  <2>5. CASE run[r].status # "completed"
    BY <2>1, <2>2, <2>3, <2>5
  <2>6. QED
    BY <2>4, <2>5
<1>5. run[r].status # "none" /\ UNCHANGED <<count, at, called, assessing>>
  BY DEF GradesAlone, AssessWithoutProvider, Leaf, Ending
<1>6. graders'[r] = n /\ grade'[r] = g /\ g # "llm"
  BY <1>2, <1>4, Completed DEF Reason
<1>7. Graded(r)'
  <2>1. Graded(r)
    BY DEF ProvInv
  <2>2. CASE run[r].status = "completed"
    BY <1>1, <1>4, <1>5, <1>6, <2>1, <2>2 DEF Graded
  <2>3. CASE run[r].status # "completed"
    BY <1>1, <1>4, <1>5, <1>6, <2>1, <2>3 DEF Graded
  <2>4. QED
    BY <2>2, <2>3
<1> HIDE DEF n
<1>8. QED
  BY <1>1, <1>2, <1>3, <1>4, <1>5, <1>7, AssessKeeps

LEMMA GoesToAssessKeeps ==
  ASSUME TypeOK, OnARun, ProvTypeOK, ProvInv, BudgetInv, NEW r \in Run, GoesToAssess(r)
  PROVE  ProvTypeOK' /\ ProvInv'
<1> DEFINE u == [run[r].usage EXCEPT !.llm = @ + 1, !.assess = @ + 1]
           row == [run[r] EXCEPT !.assess = "STARTED", !.usage = u]
           n == graders[r] + 1
<1>1. run[r] \in Row
  BY DEF TypeOK
<1>2. run' = [run EXCEPT ![r] = row]
  BY <1>1 DEF GoesToAssess, ClaimAssessment, TypeOK, Row, Usage
<1> HIDE DEF u
<1>3. /\ row.critic = run[r].critic /\ row.draft = run[r].draft
      /\ row.status = run[r].status /\ row.assess = "STARTED"
  BY <1>1 DEF Row
<1> HIDE DEF row
<1>4. /\ run[r].status = "completed" /\ UNCHANGED <<count, at, called, grade>>
      /\ assessing' = assessing \cup {r}
  BY DEF GoesToAssess, ClaimAssessment
<1>5. n \in 0 .. MaxGraders /\ n > 0 /\ graders' = [graders EXCEPT ![r] = n]
  BY DEF GoesToAssess, ProvTypeOK
<1>6. grade[r] \in Grade /\ grade' = [grade EXCEPT ![r] = grade[r]]
  BY <1>4 DEF ProvTypeOK
<1> HIDE DEF n
<1>7. Graded(r)'
  <2>1. run'[r] = row /\ graders'[r] = n
    BY <1>2, <1>5, Completed
  <2>2. grade[r] = "llm" => "assessment" \in called[r]
    BY DEF ProvInv, Graded
  <2>3. QED
    BY <1>3, <1>4, <1>5, <2>1, <2>2 DEF Graded
<1>8. QED
  BY <1>2, <1>3, <1>4, <1>5, <1>6, <1>7, AssessKeeps

(* The run that is being assessed has completed, by one driver at least. *)
LEMMA Assessed ==
  ASSUME TypeOK, ProvTypeOK, ProvInv, NEW r \in Run, r \in assessing
  PROVE  /\ run[r].status = "completed" /\ graders[r] \in 0 .. MaxGraders /\ graders[r] > 0
         /\ graders' = graders => graders' = [graders EXCEPT ![r] = graders[r]]
         /\ spent' = [spent EXCEPT !.llm = @ + 1, !.assess = @ + 1] => spent' # spent
<1>1. run[r].status = "completed" /\ graders[r] > 0
  BY DEF ProvInv, Graded
<1>2. graders[r] \in 0 .. MaxGraders /\ graders = [graders EXCEPT ![r] = graders[r]]
  BY DEF ProvTypeOK
<1>3. QED
  BY <1>1, <1>2, OneMoreCall

LEMMA GetsAssessmentKeeps ==
  ASSUME TypeOK, OnARun, ProvTypeOK, ProvInv, BudgetInv, NEW r \in Run, GetsAssessment(r)
  PROVE  ProvTypeOK' /\ ProvInv'
<1> DEFINE row == [run[r] EXCEPT !.assess = "COMPLETED"]
<1>1. /\ run' = [run EXCEPT ![r] = row] /\ run'[r] = row
      /\ row.critic = run[r].critic /\ row.draft = run[r].draft
      /\ row.status = run[r].status /\ row.assess = "COMPLETED"
  BY Completed DEF GetsAssessment, CompleteAssessment
<1> HIDE DEF row
<1>2. /\ run[r].status = "completed" /\ graders[r] \in 0 .. MaxGraders /\ graders[r] > 0
      /\ graders' = [graders EXCEPT ![r] = graders[r]] /\ spent' # spent
  BY Assessed DEF GetsAssessment, CompleteAssessment
<1>3. PICK g \in {"llm", "error"} : grade' = [grade EXCEPT ![r] = g]
  BY DEF GetsAssessment
<1>4. called' = [called EXCEPT ![r] = called[r] \cup {"assessment"}]
  BY <1>2 DEF GetsAssessment, Books
<1>5. g \in Grade /\ UNCHANGED <<count, at, graders>> /\ assessing' = assessing \ {r}
  BY DEF Grade, GetsAssessment, CompleteAssessment
<1>6. grade'[r] = g /\ "assessment" \in called'[r]
  BY <1>3, <1>4, Completed DEF ProvTypeOK
<1>7. Graded(r)'
  BY <1>1, <1>2, <1>5, <1>6 DEF Graded
<1>8. QED
  BY <1>1, <1>2, <1>3, <1>4, <1>5, <1>7, AssessKeeps

LEMMA LosesAssessmentKeeps ==
  ASSUME TypeOK, OnARun, ProvTypeOK, ProvInv, BudgetInv, NEW r \in Run, LosesAssessment(r)
  PROVE  ProvTypeOK' /\ ProvInv'
<1>1. /\ run[r].status = "completed" /\ graders[r] \in 0 .. MaxGraders /\ graders[r] > 0
      /\ graders' = [graders EXCEPT ![r] = graders[r]]
  BY Assessed DEF LosesAssessment, CrashAssessing
<1>2. UNCHANGED <<count, at, run, grade, graders>> /\ assessing' = assessing \ {r} /\ r \in assessing
  BY DEF LosesAssessment, CrashAssessing
<1>3. /\ run' = [run EXCEPT ![r] = run[r]] /\ run'[r] = run[r]
      /\ grade[r] \in Grade /\ grade' = [grade EXCEPT ![r] = grade[r]]
  BY <1>2 DEF TypeOK, ProvTypeOK
<1>4. called' = called \/ called' = [called EXCEPT ![r] = called[r] \cup {"assessment"}]
  BY DEF LosesAssessment, Books
<1>5. "assessment" \in called[r] => "assessment" \in called'[r]
  BY <1>4 DEF ProvTypeOK
<1>6. Graded(r)'
  <2>1. Graded(r)
    BY DEF ProvInv
  <2>2. QED
    BY <1>1, <1>2, <1>3, <1>5, <2>1 DEF Graded
<1>7. QED
  BY <1>1, <1>2, <1>3, <1>4, <1>6, AssessKeeps

-----------------------------------------------------------------------------
(* The report *)

LEMMA ProvenanceIsANext == ProvNext => Next
BY DEF ProvNext, Next, Silent, Replan, Asks, GradesAlone, GoesToAssess, GetsAssessment,
       LosesAssessment

LEMMA ProvStep ==
  ASSUME TypeOK, OnARun, OneProcess, BudgetInv, ProvTypeOK, ProvInv, [ProvNext]_<<vars, provVars>>
  PROVE  ProvTypeOK' /\ ProvInv'
<1>1. CASE UNCHANGED <<vars, provVars>>
  BY <1>1 DEF vars, provVars, ProvTypeOK, ProvInv, Marked, Graded, Redesigning
<1>2. CASE Silent /\ UNCHANGED provVars
  BY <1>2, SilentCalm, CalmKeeps
<1>3. QED
  BY <1>1, <1>2, AsksKeeps, GradesAloneKeeps, GoesToAssessKeeps, GetsAssessmentKeeps,
     LosesAssessmentKeeps DEF ProvNext

(* The report tells no more than the invariant has. *)
LEMMA ReportIsTrue ==
  ASSUME TypeOK, VersionInv, BudgetInv, ProvTypeOK, ProvInv PROVE ProvenanceIsTrue
<1> SUFFICES ASSUME NEW r \in Run
             PROVE  /\ \A e \in Report(r) :
                         /\ e.call = "yes" => e.decision \in called[r]
                         /\ e.call = "no" /\ graders[r] <= 1 => e.decision \notin called[r]
                         /\ e.child # NoRun => run[e.child].from = r /\ run[r].version < e.version
                    /\ \A d \in called[r] :
                         d # "assessment" \/ graders[r] <= 1 =>
                           \E e \in Report(r) : e.decision = d /\ e.claimed = "yes"
  BY DEF ProvenanceIsTrue
<1>1. /\ Marked(run[r].critic, "critic" \in called[r])
      /\ Marked(run[r].draft, "semantic_replan" \in called[r])
      /\ Graded(r)
  BY DEF ProvInv
<1>2. \A e \in CriticEntries(r) :
        /\ e.decision = "critic" /\ e.claimed = "yes" /\ e.child = NoRun
        /\ e.call = Produced(run[r].critic)
  BY DEF CriticEntries
<1>3. \A e \in SemanticEntries(r) :
        /\ e.decision = "semantic_replan" /\ e.claimed = "yes" /\ e.call = Produced(run[r].draft)
        /\ e.child = run[r].to /\ (e.child # NoRun => e.version = run[e.child].version)
  BY DEF SemanticEntries
<1>4. \A e \in AssessmentEntries(r) :
        /\ e.decision = "assessment" /\ e.claimed = Claimed(r) /\ e.call = Called(r)
        /\ e.child = NoRun /\ run[r].assess # "none"
  BY DEF AssessmentEntries
<1>5. run[r].to # NoRun => run[run[r].to].from = r /\ run[r].version < run[run[r].to].version
  <2> SUFFICES ASSUME run[r].to # NoRun
               PROVE  run[run[r].to].from = r /\ run[r].version < run[run[r].to].version
    OBVIOUS
  <2>1. r \in Nat /\ count \in Nat /\ run[r].to \in Run
    BY DEF TypeOK, Run, Row
  <2>2. r <= count /\ r # count /\ run[r].to = r + 1
    BY <2>1 DEF BudgetInv, Chain
  <2>3. run[r + 1].from = r
    BY <2>1, <2>2 DEF BudgetInv, Chain
  <2>4. QED
    BY <2>1, <2>2, <2>3 DEF VersionInv
<1>6. ASSUME NEW e \in Report(r)
      PROVE  /\ e.call = "yes" => e.decision \in called[r]
             /\ e.call = "no" /\ graders[r] <= 1 => e.decision \notin called[r]
             /\ e.child # NoRun => run[e.child].from = r /\ run[r].version < e.version
  <2>1. CASE e \in CriticEntries(r)
    BY <1>1, <1>2, <2>1 DEF Produced, Marked
  <2>2. CASE e \in SemanticEntries(r)
    BY <1>1, <1>3, <1>5, <2>2 DEF Produced, Marked
  <2>3. CASE e \in AssessmentEntries(r)
    BY <1>1, <1>4, <2>3 DEF Called, Graded
  <2>4. QED
    BY <2>1, <2>2, <2>3 DEF Report
<1>7. ASSUME NEW d \in called[r], d # "assessment" \/ graders[r] <= 1
      PROVE  \E e \in Report(r) : e.decision = d /\ e.claimed = "yes"
  <2>1. d \in Decision
    BY DEF ProvTypeOK
  <2>2. CASE d = "critic"
    <3>1. run[r].critic # "none"
      BY <1>1, <2>2 DEF Marked
    <3>2. \E e : e \in CriticEntries(r)
      BY <3>1 DEF CriticEntries
    <3>3. QED
      BY <1>2, <2>2, <3>2 DEF Report
  <2>3. CASE d = "semantic_replan"
    <3>1. run[r].draft # "none"
      BY <1>1, <2>3 DEF Marked
    <3>2. \E e : e \in SemanticEntries(r)
      <4> DEFINE entry == [decision |-> "semantic_replan", claimed |-> "yes",
                           call |-> Produced(run[r].draft), child |-> run[r].to,
                           version |-> IF run[r].to = NoRun THEN 0 ELSE run[run[r].to].version]
      <4>1. SemanticEntries(r) = {entry : x \in {run[r].draft} \ {"none"}}
        BY DEF SemanticEntries
      <4> HIDE DEF entry
      <4>2. entry \in SemanticEntries(r)
        BY <3>1, <4>1
      <4>3. QED
        BY <4>2
    <3>3. QED
      BY <1>3, <2>3, <3>2 DEF Report
  <2>4. CASE d = "assessment"
    <3>1. run[r].assess # "none" /\ Claimed(r) = "yes"
      BY <1>1, <1>7, <2>4 DEF Graded, Claimed
    <3>2. \E e : e \in AssessmentEntries(r)
      BY <3>1 DEF AssessmentEntries
    <3>3. QED
      BY <1>4, <2>4, <3>1, <3>2 DEF Report
  <2>5. QED
    BY <2>1, <2>2, <2>3, <2>4 DEF Decision
<1>8. QED
  BY <1>6, <1>7

LEMMA ProvenanceRuns == ProvSpec => Spec
<1>1. [ProvNext]_<<vars, provVars>> => [Next]_vars
  BY ProvenanceIsANext DEF provVars
<1>2. QED
  BY <1>1, PTL DEF ProvSpec, Spec

(* One server process: the types of what the provider was asked, and how   *)
(* the rows that mark a call relate to it (ProvInv).                       *)
THEOREM ProvenanceTypes == OneProcess /\ ProvSpec => [](ProvTypeOK /\ ProvInv)
<1>1. TypeOK /\ OnARun /\ BudgetInv /\ (OneProcess /\ ProvTypeOK /\ ProvInv)
      /\ [ProvNext]_<<vars, provVars>> => (OneProcess /\ ProvTypeOK /\ ProvInv)'
  BY ProvStep DEF OneProcess
<1>2. Init /\ ProvInit => ProvTypeOK /\ ProvInv
  BY ProvInit_Inv
<1>3. QED
  BY <1>1, <1>2, ProvenanceRuns, Invariants, BudgetAlways, PTL DEF ProvSpec

(* One server process, whatever calls it loses by a crash: the report      *)
(* affirms no call that was not made, denies none that was where one       *)
(* driver assessed the run, leaves out none, and names the run's child.    *)
THEOREM ReportsAreTrue == OneProcess /\ ProvSpec => []ProvenanceIsTrue
<1>1. TypeOK /\ VersionInv /\ BudgetInv /\ ProvTypeOK /\ ProvInv => ProvenanceIsTrue
  BY ReportIsTrue
<1>2. QED
  BY <1>1, ProvenanceTypes, ProvenanceRuns, Invariants, BudgetAlways, PTL

-----------------------------------------------------------------------------
(* Runs that cases are built of *)

(* What a later row w keeps of an earlier one v, unless it was overrun. *)
Lasts(v, w) ==
  /\ w # NoWfRun /\ w.event = v.event /\ w.managed = v.managed /\ (v.overrun => w.overrun)
  /\ v.managed /\ v.status \in Ended /\ ~w.overrun =>
       /\ w.status = v.status /\ (v.completed # Never => w.completed = v.completed)
       /\ v.status = "completed" => w.call = v.call

(* v, read of a run that had ended, or the case of it, tells how its row w *)
(* ended.                                                                  *)
Tells(v, w) ==
  /\ w # NoWfRun /\ v.event = w.event /\ v.status \in Ended
  /\ w.managed /\ ~w.overrun => v.status = w.status /\ v.completed \in {Never, w.completed}

CallTells(ending, call, w) ==
  w.managed /\ ~w.overrun /\ ending = "completed" => call = w.call

CaseTold(c, w) == c # NoCase => Tells(c, w) /\ CallTells(c.status, c.call, w)

(* A builder at work has read what its place in the sequence says, and the *)
(* run is still as it was read.                                            *)
AtWork(x) ==
  /\ x.pc \in {"run", "place", "facts", "write"}
  /\ {"pc", "id", "fresh"} \subseteq DOMAIN x /\ x.id \in WfRuns /\ wfRun[x.id] # NoWfRun
  /\ x.pc # "run" => "run" \in DOMAIN x /\ x.run \in WfRun /\ Tells(x.run, wfRun[x.id])
  /\ x.pc \in {"facts", "write"} => "place" \in DOMAIN x /\ x.place \in Places
  /\ x.pc = "write" => /\ x.call \in {"none", "executing", "succeeded"}
                       /\ CallTells(x.run.status, x.call, wfRun[x.id])

CaseInv ==
  /\ wfRun \in [WfRuns -> WfRun \cup {NoWfRun}] /\ cases \in [WfRuns -> Case \cup {NoCase}]
  /\ builder = [b \in Builders |-> builder[b]]
  /\ \A r \in WfRuns : CaseTold(cases[r], wfRun[r])
  /\ \A b \in Builders : builder[b] = IdleBuilder \/ AtWork(builder[b])

LEMMA NoWfRunIsNone == NoWfRun \notin WfRun /\ NoCase \notin Case
BY DEF NoWfRun, WfRun, Status, NoCase, Case

LEMMA StillTells ==
  ASSUME NEW v, NEW w, NEW x, Tells(v, w), Lasts(w, x), w.overrun \in BOOLEAN
  PROVE  Tells(v, x) /\ \A call : CallTells(v.status, call, w) => CallTells(v.status, call, x)
BY DEF Tells, Lasts, CallTells

LEMMA StillAtWork ==
  ASSUME NEW x, AtWork(x), wfRun \in [WfRuns -> WfRun \cup {NoWfRun}],
         \A r \in WfRuns : wfRun[r] # NoWfRun => Lasts(wfRun[r], wfRun'[r])
  PROVE  AtWork(x)'
<1>1. x.id \in WfRuns /\ Lasts(wfRun[x.id], wfRun'[x.id]) /\ wfRun'[x.id] # NoWfRun
      /\ wfRun[x.id].overrun \in BOOLEAN
  BY DEF AtWork, Lasts, WfRun
<1>2. x.pc # "run" =>
        /\ Tells(x.run, wfRun'[x.id])
        /\ CallTells(x.run.status, x.call, wfRun[x.id]) => CallTells(x.run.status, x.call, wfRun'[x.id])
  BY <1>1, StillTells DEF AtWork
<1>3. QED
  BY <1>1, <1>2 DEF AtWork

(* Steps that write runs alone. *)
LEMMA RunsLast ==
  ASSUME CaseTypeOK, CaseInv, UNCHANGED <<cases, builder>>,
         now' \in Time, changes' \in 0 .. Changes, event' \in [Events -> Event],
         binding' \in [Events -> Places \cup {NoPlace}],
         wfRun' \in [WfRuns -> WfRun \cup {NoWfRun}],
         \A r \in WfRuns : wfRun[r] # NoWfRun => Lasts(wfRun[r], wfRun'[r])
  PROVE  CaseTypeOK' /\ CaseInv'
<1>1. CaseTypeOK'
  BY DEF CaseTypeOK
<1>2. ASSUME NEW r \in WfRuns PROVE CaseTold(cases'[r], wfRun'[r])
  <2>1. CASE cases[r] = NoCase
    BY <2>1 DEF CaseTold
  <2>2. CASE cases[r] # NoCase
    <3>1. Tells(cases[r], wfRun[r]) /\ CallTells(cases[r].status, cases[r].call, wfRun[r])
      BY <2>2 DEF CaseInv, CaseTold
    <3>2. wfRun[r] # NoWfRun /\ wfRun[r].overrun \in BOOLEAN
      BY <3>1 DEF Tells, CaseInv, WfRun
    <3>3. QED
      BY <3>1, <3>2, StillTells DEF CaseTold
  <2>3. QED
    BY <2>1, <2>2
<1>3. ASSUME NEW b \in Builders PROVE builder'[b] = IdleBuilder \/ AtWork(builder[b])'
  BY StillAtWork DEF CaseInv
<1>4. QED
  BY <1>1, <1>2, <1>3 DEF CaseInv

(* The same, when one row is written. *)
LEMMA RunLasts ==
  ASSUME CaseTypeOK, CaseInv, UNCHANGED <<cases, builder>>,
         now' \in Time, changes' \in 0 .. Changes, event' \in [Events -> Event],
         binding' \in [Events -> Places \cup {NoPlace}],
         NEW r \in WfRuns, NEW w \in WfRun, wfRun' = [wfRun EXCEPT ![r] = w],
         wfRun[r] # NoWfRun => Lasts(wfRun[r], w)
  PROVE  CaseTypeOK' /\ CaseInv'
<1>1. /\ wfRun' \in [WfRuns -> WfRun \cup {NoWfRun}] /\ wfRun'[r] = w
      /\ \A q \in WfRuns \ {r} : wfRun'[q] = wfRun[q]
  BY DEF CaseInv
<1>2. \A q \in WfRuns : wfRun[q] # NoWfRun => Lasts(wfRun[q], wfRun'[q])
  BY <1>1 DEF Lasts
<1>3. QED
  BY <1>1, <1>2, RunsLast

LEMMA ChangedType == ASSUME CaseTypeOK, Changed PROVE changes' \in 0 .. Changes
<1>1. changes \in 0 .. Changes /\ changes < Changes /\ changes' = changes + 1
  BY DEF CaseTypeOK, Changed
<1>2. QED
  BY <1>1

LEMMA SavedType ==
  ASSUME CaseTypeOK, NEW e \in Events, NEW typed \in BOOLEAN, Saved(e, typed)
  PROVE  event' \in [Events -> Event]
<1>1. now + Offset \in Offset .. Never
  BY DEF CaseTypeOK, Time, Never
<1>2. QED
  BY <1>1 DEF Saved, CaseTypeOK, Event

LEMMA SourcesStep ==
  ASSUME CaseTypeOK, CaseInv,
         \/ Tick
         \/ \E e \in Events : Import(e) \/ Analyse(e) \/ \E p \in Places : Bind(e, p)
  PROVE  CaseTypeOK' /\ CaseInv'
<1>1. UNCHANGED <<wfRun, cases, builder>>
  BY DEF Tick, Import, Analyse, Bind
<1>2. now' \in Time
  <2>1. now' = now \/ (now < MaxTime /\ now' = now + 1)
    BY DEF Tick, Import, Analyse, Bind
  <2>2. QED
    BY <2>1 DEF CaseTypeOK, Time
<1>7. changes' \in 0 .. Changes
  <2>1. changes' = changes \/ Changed
    BY DEF Tick, Import, Analyse, Bind
  <2>2. QED
    BY <2>1, ChangedType DEF CaseTypeOK
<1>3. event' \in [Events -> Event]
  BY SavedType DEF Tick, Import, Analyse, Bind, CaseTypeOK
<1>4. binding' \in [Events -> Places \cup {NoPlace}]
  BY DEF Tick, Import, Analyse, Bind, CaseTypeOK
<1>5. \A r \in WfRuns : Lasts(wfRun[r], wfRun'[r]) \/ wfRun[r] = NoWfRun
  BY <1>1 DEF Lasts
<1>6. QED
  BY <1>1, <1>2, <1>3, <1>4, <1>5, <1>7, RunsLast DEF CaseInv

LEMMA StartRunStep ==
  ASSUME CaseTypeOK, CaseInv, NEW r \in WfRuns, NEW e \in Events, NEW managed \in BOOLEAN,
         StartRun(r, e, managed)
  PROVE  CaseTypeOK' /\ CaseInv'
<1> DEFINE w == [event |-> e, managed |-> managed, status |-> "running", completed |-> Never,
                 stream |-> ~managed, call |-> "none", overrun |-> FALSE]
<1>1. w \in WfRun
  BY DEF WfRun, Status
<1>2. wfRun' = [wfRun EXCEPT ![r] = w] /\ wfRun[r] = NoWfRun
      /\ UNCHANGED <<now, event, binding, cases, builder, changes>>
  BY DEF StartRun
<1> HIDE DEF w
<1>3. QED
  BY <1>1, <1>2, RunLasts DEF CaseTypeOK

LEMMA OverrunIsKnown ==
  ASSUME NEW r \in WfRuns, wfRun[r] \in WfRun, NEW ends
  PROVE  /\ Overruns(r, ends) \in BOOLEAN
         /\ wfRun[r].overrun => Overruns(r, ends)
         /\ wfRun[r].status \in ends => Overruns(r, ends)
BY DEF Overruns, WfRun

LEMMA ResumeStep ==
  ASSUME CaseTypeOK, CaseInv, NEW r \in WfRuns, Resume(r)
  PROVE  CaseTypeOK' /\ CaseInv'
<1> DEFINE w == [wfRun[r] EXCEPT !.stream = TRUE]
<1>1. wfRun[r] \in WfRun
  BY DEF Resume, CaseInv
<1>2. wfRun' = [wfRun EXCEPT ![r] = w]
      /\ UNCHANGED <<now, event, binding, cases, builder, changes>>
  BY DEF Resume, CaseInv
<1>3. w \in WfRun /\ Lasts(wfRun[r], w)
  BY <1>1, NoWfRunIsNone DEF WfRun, Lasts
<1> HIDE DEF w
<1>4. QED
  BY <1>2, <1>3, RunLasts DEF CaseTypeOK

(* Call and CallReturns: the call of a run changes, or its end is overrun. *)
LEMMA CallLasts ==
  ASSUME NEW r \in WfRuns, wfRun[r] \in WfRun, NEW call \in {"executing", "succeeded"},
         NEW over \in BOOLEAN, wfRun[r].overrun \/ wfRun[r].status = "completed" => over
  PROVE  LET w == [wfRun[r] EXCEPT !.call = call, !.overrun = over]
         IN  w \in WfRun /\ Lasts(wfRun[r], w)
<1> DEFINE w == [wfRun[r] EXCEPT !.call = call, !.overrun = over]
<1>1. w \in WfRun /\ w.event = wfRun[r].event /\ w.managed = wfRun[r].managed
      /\ w.status = wfRun[r].status /\ w.completed = wfRun[r].completed /\ w.overrun = over
  BY DEF WfRun
<1> HIDE DEF w
<1>2. Lasts(wfRun[r], w)
  BY <1>1, NoWfRunIsNone DEF Lasts
<1>3. QED
  BY <1>1, <1>2 DEF w

LEMMA CallStep ==
  ASSUME CaseTypeOK, CaseInv, NEW r \in WfRuns, Call(r)
  PROVE  CaseTypeOK' /\ CaseInv'
<1> DEFINE over == Overruns(r, {"completed"})
           w == [wfRun[r] EXCEPT !.call = "executing", !.overrun = over]
<1>1. wfRun[r] \in WfRun
  BY DEF Call, Executing, CaseInv
<1>2. wfRun' = [wfRun EXCEPT ![r] = w]
      /\ UNCHANGED <<now, event, binding, cases, builder, changes>>
  BY DEF Call, CaseInv
<1>3. w \in WfRun /\ Lasts(wfRun[r], w)
  BY <1>1, OverrunIsKnown, CallLasts
<1> HIDE DEF w
<1>4. QED
  BY <1>2, <1>3, RunLasts DEF CaseTypeOK

LEMMA CallReturnsStep ==
  ASSUME CaseTypeOK, CaseInv, NEW r \in WfRuns, NEW saves \in BOOLEAN, CallReturns(r, saves)
  PROVE  CaseTypeOK' /\ CaseInv'
<1> DEFINE over == Overruns(r, {"completed"})
           w == [wfRun[r] EXCEPT !.call = "succeeded", !.overrun = over]
<1>1. wfRun[r] \in WfRun /\ wfRun[r].event \in Events
  BY DEF CallReturns, CaseInv, WfRun
<1>2. wfRun' = [wfRun EXCEPT ![r] = w] /\ UNCHANGED <<now, binding, cases, builder>>
  BY DEF CallReturns, CaseInv
<1>3. w \in WfRun /\ Lasts(wfRun[r], w)
  BY <1>1, OverrunIsKnown, CallLasts
<1>4. event' \in [Events -> Event] /\ changes' \in 0 .. Changes
  <2>1. CASE saves
    BY <1>1, <2>1, SavedType, ChangedType DEF CallReturns
  <2>2. CASE ~saves
    BY <2>2 DEF CallReturns, CaseTypeOK
  <2>3. QED
    BY <2>1, <2>2
<1> HIDE DEF w
<1>5. QED
  BY <1>2, <1>3, <1>4, RunLasts DEF CaseTypeOK

(* A write of the row: of one that has not ended, or its end is overrun. *)
LEMMA RowStep ==
  ASSUME CaseTypeOK, CaseInv, UNCHANGED <<now, event, binding, cases, builder>>,
         changes' \in 0 .. Changes, NEW r \in WfRuns, wfRun[r] # NoWfRun, NEW w \in WfRun,
         wfRun' = [wfRun EXCEPT ![r] = w],
         w.event = wfRun[r].event, w.managed = wfRun[r].managed, w.call = wfRun[r].call,
         wfRun[r].overrun => w.overrun,
         \/ w.overrun \/ wfRun[r].status = "running"
         \/ wfRun[r].completed = Never /\ w.status = wfRun[r].status
  PROVE  CaseTypeOK' /\ CaseInv'
<1>1. Lasts(wfRun[r], w)
  BY NoWfRunIsNone DEF Lasts, Ended
<1>2. QED
  BY <1>1, RunLasts DEF CaseTypeOK

LEMMA DatedType ==
  ASSUME CaseTypeOK, NEW r \in WfRuns, wfRun[r] \in WfRun, NEW fenced \in BOOLEAN
  PROVE  Dated(r, fenced) \in Time \cup {Never}
BY DEF Dated, WfRun, CaseTypeOK

LEMMA CompleteStep ==
  ASSUME CaseTypeOK, CaseInv, NEW r \in WfRuns, NEW s \in {"completed", "failed"},
         NEW fenced \in BOOLEAN, Complete(r, s, fenced)
  PROVE  CaseTypeOK' /\ CaseInv'
<1> DEFINE over == Overruns(r, Ended)
           w == [wfRun[r] EXCEPT !.status = s, !.stream = fenced /\ @,
                                 !.completed = Dated(r, fenced), !.overrun = over]
<1>1. wfRun[r] \in WfRun /\ wfRun[r] # NoWfRun
  BY DEF Complete, CaseInv
<1>2. wfRun' = [wfRun EXCEPT ![r] = w]
      /\ UNCHANGED <<now, event, binding, cases, builder, changes>>
  BY DEF Complete, CaseInv
<1>3. Dated(r, fenced) \in Time \cup {Never} /\ over \in BOOLEAN
      /\ (wfRun[r].overrun => over) /\ (over \/ wfRun[r].status = "running")
  BY <1>1, DatedType, OverrunIsKnown DEF WfRun, Ended
<1> HIDE DEF over
<1>4. w \in WfRun /\ w.event = wfRun[r].event /\ w.managed = wfRun[r].managed
      /\ w.call = wfRun[r].call /\ w.overrun = over
  BY <1>1, <1>3 DEF WfRun, Status
<1> HIDE DEF w
<1>5. QED
  BY <1>1, <1>2, <1>3, <1>4, RowStep DEF CaseTypeOK

LEMMA EndByHandStep ==
  ASSUME CaseTypeOK, CaseInv, NEW r \in WfRuns, NEW s \in {"rejected", "cancelled"},
         EndByHand(r, s)
  PROVE  CaseTypeOK' /\ CaseInv'
<1> DEFINE w == [wfRun[r] EXCEPT !.status = s, !.completed = Dated(r, FALSE)]
<1>1. wfRun[r] \in WfRun /\ wfRun[r] # NoWfRun /\ wfRun[r].status = "running"
  BY DEF EndByHand, CaseInv
<1>2. wfRun' = [wfRun EXCEPT ![r] = w]
      /\ UNCHANGED <<now, event, binding, cases, builder, changes>>
  BY DEF EndByHand, CaseInv
<1>3. w \in WfRun /\ w.event = wfRun[r].event /\ w.managed = wfRun[r].managed
      /\ w.call = wfRun[r].call /\ w.overrun = wfRun[r].overrun
  BY <1>1, DatedType DEF WfRun, Status
<1> HIDE DEF w
<1>4. QED
  BY <1>1, <1>2, <1>3, RowStep DEF CaseTypeOK

LEMMA RetryNodeStep ==
  ASSUME CaseTypeOK, CaseInv, NEW r \in WfRuns, RetryNode(r)
  PROVE  CaseTypeOK' /\ CaseInv'
<1> DEFINE w == [wfRun[r] EXCEPT !.completed = now]
<1>1. wfRun[r] \in WfRun /\ wfRun[r] # NoWfRun /\ wfRun[r].completed = Never
  BY DEF RetryNode, CaseInv
<1>2. wfRun' = [wfRun EXCEPT ![r] = w]
      /\ UNCHANGED <<now, event, binding, cases, builder, changes>>
  BY DEF RetryNode, CaseInv
<1>3. w \in WfRun /\ w.event = wfRun[r].event /\ w.managed = wfRun[r].managed
      /\ w.call = wfRun[r].call /\ w.overrun = wfRun[r].overrun /\ w.status = wfRun[r].status
  BY <1>1 DEF WfRun, CaseTypeOK
<1> HIDE DEF w
<1>4. QED
  BY <1>1, <1>2, <1>3, RowStep DEF CaseTypeOK

LEMMA ReplannedStep ==
  ASSUME CaseTypeOK, CaseInv, NEW r \in WfRuns, Replanned(r)
  PROVE  CaseTypeOK' /\ CaseInv'
<1> DEFINE over == Overruns(r, Ended)
           w == [wfRun[r] EXCEPT !.status = "failed", !.overrun = over]
<1>1. wfRun[r] \in WfRun /\ wfRun[r] # NoWfRun
  BY DEF Replanned, CaseInv
<1>2. wfRun' = [wfRun EXCEPT ![r] = w]
      /\ UNCHANGED <<now, event, binding, cases, builder, changes>>
  BY DEF Replanned, CaseInv
<1>3. over \in BOOLEAN /\ (wfRun[r].overrun => over) /\ (over \/ wfRun[r].status = "running")
  BY <1>1, OverrunIsKnown DEF WfRun, Ended
<1> HIDE DEF over
<1>4. w \in WfRun /\ w.event = wfRun[r].event /\ w.managed = wfRun[r].managed
      /\ w.call = wfRun[r].call /\ w.overrun = over
  BY <1>1, <1>3 DEF WfRun, Status
<1> HIDE DEF w
<1>5. QED
  BY <1>1, <1>2, <1>3, <1>4, RowStep DEF CaseTypeOK

LEMMA WriteOverStep ==
  ASSUME CaseTypeOK, CaseInv, NEW r \in WfRuns, NEW s \in Status, NEW t \in {Never, now},
         WriteOver(r, s, t)
  PROVE  CaseTypeOK' /\ CaseInv'
<1> DEFINE w == [wfRun[r] EXCEPT !.status = s, !.completed = t, !.overrun = TRUE]
<1>1. wfRun[r] \in WfRun /\ wfRun[r] # NoWfRun
  BY DEF WriteOver, CaseInv
<1>2. wfRun' = [wfRun EXCEPT ![r] = w] /\ UNCHANGED <<now, event, binding, cases, builder>>
  BY DEF WriteOver, CaseInv
<1>3. t \in Time \cup {Never} /\ changes' \in 0 .. Changes
  BY ChangedType DEF WriteOver, CaseTypeOK
<1>4. w \in WfRun /\ w.event = wfRun[r].event /\ w.managed = wfRun[r].managed
      /\ w.call = wfRun[r].call /\ w.overrun
  BY <1>1, <1>3 DEF WfRun
<1> HIDE DEF w
<1>5. QED
  BY <1>1, <1>2, <1>3, <1>4, RowStep

-----------------------------------------------------------------------------
(* Builders *)

LEMMA WithFields ==
  ASSUME NEW old, NEW new, NEW x \in DOMAIN old \cup DOMAIN new
  PROVE  With(old, new)[x] = IF x \in DOMAIN new THEN new[x] ELSE old[x]
BY DEF With

LEMMA BuilderStep ==
  ASSUME CaseTypeOK, CaseInv, NEW b \in Builders, NEW x, BuilderGoes(b, x),
         x = IdleBuilder \/ AtWork(x),
         cases' \in [WfRuns -> Case \cup {NoCase}], \A r \in WfRuns : CaseTold(cases'[r], wfRun[r])
  PROVE  CaseTypeOK' /\ CaseInv'
<1>1. /\ builder' = [c \in Builders |-> builder'[c]]
      /\ builder'[b] = x /\ \A c \in Builders \ {b} : builder'[c] = builder[c]
  BY DEF BuilderGoes, CaseInv
<1>2. UNCHANGED <<now, event, binding, wfRun, changes>>
  BY DEF BuilderGoes
<1>3. \A c \in Builders : builder'[c] = IdleBuilder \/ AtWork(builder'[c])
  BY <1>1 DEF CaseInv
<1>4. CaseInv'
  BY <1>1, <1>2, <1>3 DEF CaseInv, AtWork
<1>5. CaseTypeOK'
  BY <1>2, <1>3 DEF CaseTypeOK, AtWork
<1>6. QED
  BY <1>4, <1>5

LEMMA AskStep ==
  ASSUME CaseTypeOK, CaseInv, NEW b \in Builders, NEW r \in WfRuns, NEW rebuild \in BOOLEAN,
         Ask(b, r, rebuild)
  PROVE  CaseTypeOK' /\ CaseInv'
<1> DEFINE x == [pc |-> "run", id |-> r, fresh |-> cases[r] = NoCase]
<1>1. AtWork(x)
  BY DEF Ask, AtWork
<1>2. BuilderGoes(b, x) /\ UNCHANGED cases
  BY DEF Ask
<1> HIDE DEF x
<1>3. QED
  BY <1>1, <1>2, BuilderStep DEF CaseInv

(* A builder that reads is at work. *)
LEMMA Working ==
  ASSUME CaseInv, NEW b \in Builders, builder[b].pc \in {"run", "place", "facts", "write"}
  PROVE  AtWork(builder[b])
BY DEF CaseInv, IdleBuilder

LEMMA ReadRunStep ==
  ASSUME CaseTypeOK, CaseInv, NEW b \in Builders, ReadRun(b)
  PROVE  CaseTypeOK' /\ CaseInv'
<1> DEFINE old == builder[b]
           w == wfRun[old.id]
           new == [pc |-> "place", run |-> w]
           x == With(old, new)
<1>1. AtWork(old) /\ old.pc = "run"
  BY Working DEF ReadRun
<1>2. w \in WfRun
  BY <1>1 DEF AtWork, CaseInv
<1>3. CASE Buildable(w)
  <2>1. DOMAIN x = DOMAIN old \cup {"pc", "run"}
    BY DEF With
  <2>2. x.pc = "place" /\ x.run = w /\ x.id = old.id
    BY <1>1 DEF With, AtWork
  <2>3. Tells(w, w)
    BY <1>2, <1>3, NoWfRunIsNone DEF Buildable, Tells
  <2>4. BuilderGoes(b, x) /\ UNCHANGED cases
    BY <1>3 DEF ReadRun
  <2> HIDE DEF x
  <2>5. AtWork(x)
    BY <1>1, <1>2, <2>1, <2>2, <2>3 DEF AtWork
  <2>6. QED
    BY <2>4, <2>5, BuilderStep DEF CaseInv
<1>4. CASE ~Buildable(w)
  BY <1>4, BuilderStep DEF ReadRun, CaseInv
<1>5. QED
  BY <1>3, <1>4

LEMMA ReadPlaceStep ==
  ASSUME CaseTypeOK, CaseInv, NEW b \in Builders, ReadPlace(b)
  PROVE  CaseTypeOK' /\ CaseInv'
<1> DEFINE old == builder[b]
           e == old.run.event
           new == [pc |-> "facts", place |-> binding[e]]
           x == With(old, new)
<1>1. AtWork(old) /\ old.pc = "place"
  BY Working DEF ReadPlace
<1>2. e \in Events /\ binding[e] \in Places \cup {NoPlace}
  BY <1>1 DEF AtWork, WfRun, CaseTypeOK
<1>3. CASE event[e].typed /\ binding[e] # NoPlace
  <2>1. DOMAIN x = DOMAIN old \cup {"pc", "place"}
    BY DEF With
  <2>2. x.pc = "facts" /\ x.place = binding[e] /\ x.run = old.run /\ x.id = old.id
    BY <1>1 DEF With, AtWork
  <2>3. BuilderGoes(b, x) /\ UNCHANGED cases
    BY <1>3 DEF ReadPlace
  <2> HIDE DEF x
  <2>4. AtWork(x)
    BY <1>1, <1>2, <1>3, <2>1, <2>2 DEF AtWork
  <2>5. QED
    BY <2>3, <2>4, BuilderStep DEF CaseInv
<1>4. CASE ~(event[e].typed /\ binding[e] # NoPlace)
  BY <1>4, BuilderStep DEF ReadPlace, CaseInv
<1>5. QED
  BY <1>3, <1>4

LEMMA ReadFactsStep ==
  ASSUME CaseTypeOK, CaseInv, NEW b \in Builders, ReadFacts(b)
  PROVE  CaseTypeOK' /\ CaseInv'
<1> DEFINE old == builder[b]
           w == wfRun[old.id]
           new == [pc |-> "write", call |-> w.call]
           x == With(old, new)
<1>1. AtWork(old) /\ old.pc = "facts"
  BY Working DEF ReadFacts
<1>2. w \in WfRun
  BY <1>1 DEF AtWork, CaseInv
<1>3. DOMAIN x = DOMAIN old \cup {"pc", "call"}
  BY DEF With
<1>4. x.pc = "write" /\ x.call = w.call /\ x.run = old.run /\ x.id = old.id /\ x.place = old.place
  BY <1>1 DEF With, AtWork
<1>5. BuilderGoes(b, x) /\ UNCHANGED cases
  BY DEF ReadFacts
<1> HIDE DEF x
<1>6. CallTells(old.run.status, w.call, w) /\ w.call \in {"none", "executing", "succeeded"}
  BY <1>2 DEF CallTells, WfRun
<1>7. AtWork(x)
  BY <1>1, <1>3, <1>4, <1>6 DEF AtWork
<1>8. QED
  BY <1>5, <1>7, BuilderStep DEF CaseInv

LEMMA WriteStep ==
  ASSUME CaseTypeOK, CaseInv, NEW b \in Builders, Write(b)
  PROVE  CaseTypeOK' /\ CaseInv'
<1> DEFINE x == builder[b]
           w == wfRun[x.id]
           c == Built(x)
<1>1. AtWork(x) /\ x.pc = "write"
  BY Working DEF Write
<1>2. x.id \in WfRuns /\ x.run \in WfRun /\ Tells(x.run, w) /\ CallTells(x.run.status, x.call, w)
      /\ x.place \in Places /\ x.call \in {"none", "executing", "succeeded"}
  BY <1>1 DEF AtWork
<1>3. QualityOf(x) \in Quality
  BY DEF QualityOf, Quality
<1>4. /\ c \in Case /\ c.event = x.run.event /\ c.status = x.run.status
      /\ c.completed = x.run.completed /\ c.call = x.call
  BY <1>2, <1>3 DEF Built, Case, WfRun
<1>5. BuilderGoes(b, IdleBuilder) /\ (cases' = cases \/ cases' = [cases EXCEPT ![x.id] = c])
  BY DEF Write
<1> HIDE DEF c
<1>6. CaseTold(c, w)
  BY <1>2, <1>4 DEF CaseTold, Tells, CallTells
<1>7. cases' \in [WfRuns -> Case \cup {NoCase}] /\ \A r \in WfRuns : CaseTold(cases'[r], wfRun[r])
  BY <1>2, <1>4, <1>5, <1>6 DEF CaseInv
<1>8. QED
  BY <1>5, <1>7, BuilderStep

-----------------------------------------------------------------------------
(* Cases *)

LEMMA CaseInit_Inv == CaseInit => CaseTypeOK /\ CaseInv
<1> SUFFICES ASSUME CaseInit PROVE CaseTypeOK /\ CaseInv
  OBVIOUS
<1>1. NoEvent \in Event
  BY DEF NoEvent, Event, Never
<1>2. CaseTypeOK
  BY <1>1 DEF CaseInit, CaseTypeOK, Time
<1>3. CaseInv
  BY DEF CaseInit, CaseInv, CaseTold
<1>4. QED
  BY <1>2, <1>3

LEMMA CaseStep ==
  ASSUME CaseTypeOK, CaseInv, [CaseNext]_caseVars PROVE CaseTypeOK' /\ CaseInv'
<1>1. CASE UNCHANGED caseVars
  BY <1>1 DEF caseVars, CaseTypeOK, CaseInv, AtWork
<1>3. ASSUME NEW r \in WfRuns, NEW s \in {"completed", "failed"}, NEW fenced \in BOOLEAN,
             Complete(r, s, fenced)
      PROVE  CaseTypeOK' /\ CaseInv'
  BY <1>3, CompleteStep
<1>4. ASSUME NEW r \in WfRuns, NEW s \in {"rejected", "cancelled"}, EndByHand(r, s)
      PROVE  CaseTypeOK' /\ CaseInv'
  BY <1>4, EndByHandStep
<1>5. ASSUME NEW r \in WfRuns, NEW s \in Status, NEW t \in {Never, now}, WriteOver(r, s, t)
      PROVE  CaseTypeOK' /\ CaseInv'
  BY <1>5, WriteOverStep
<1>6. QED
  BY <1>1, <1>3, <1>4, <1>5, SourcesStep, StartRunStep, ResumeStep, CallStep, CallReturnsStep,
     RetryNodeStep, ReplannedStep, AskStep, ReadRunStep, ReadPlaceStep, ReadFactsStep, WriteStep DEF CaseNext

LEMMA CasesTell == CaseInv => CaseIsHowItEnded
BY DEF CaseInv, CaseTold, Tells, CallTells, CaseIsHowItEnded

-----------------------------------------------------------------------------
(* The context of a request *)

SeenPlace(p) == \E s \in seen : s[1] = p
SeenAfter(t) == \E s \in seen : t < s[2]

DocSeen(d) ==
  d.place = Global \/ \E s \in seen : s[1] # NoPlace /\ d.place \in {s[1], RegionOf(s[1])}
CaseSeen(c) ==
  /\ c \in Case /\ SeenAfter(c.completed)
  /\ \E s \in seen : s[1] # NoPlace /\ RegionOf(c.place) = RegionOf(s[1])

(* What each part of a context x is, once it is there. *)
BindingPart(x) ==
  {"place", "failed"} \subseteq DOMAIN x /\ (x.place = NoPlace \/ SeenPlace(x.place))
RegionalPart(x) == "regional" \in DOMAIN x /\ x.regional \in Part
HistoryPart(x) ==
  /\ {"history", "events", "past"} \subseteq DOMAIN x /\ x.history \in {"READY", "UNAVAILABLE"}
  /\ x.history = "READY" => SeenPlace(x.past) /\ x.place # NoPlace
  /\ \A o \in x.events : o.id # x.event /\ SeenAfter(o.created)
KnowledgePart(x) ==
  /\ {"knowledge", "docs"} \subseteq DOMAIN x /\ x.knowledge \in Part
  /\ \A d \in x.docs : DocSeen(d)
CasesPart(x) ==
  /\ {"cases", "offered"} \subseteq DOMAIN x /\ x.cases \in Part
  /\ \A c \in x.offered : CaseSeen(c.case)
Grounded(x) ==
  /\ "grounding" \in DOMAIN x /\ x.grounding \in {"FULL", "PARTIAL", "MINIMAL"}
  /\ x.grounding = "FULL" => x.history = "READY"

Assembled(x) ==
  /\ {"pc", "event", "faults"} \subseteq DOMAIN x /\ x.event \in Events
  /\ x.pc \in {"binding", "regional", "history", "knowledge", "cases", "assemble", "done"}
  /\ x.pc # "binding" => BindingPart(x)
  /\ x.pc \notin {"binding", "regional"} => RegionalPart(x)
  /\ x.pc \in {"knowledge", "cases", "assemble", "done"} => HistoryPart(x)
  /\ x.pc \in {"cases", "assemble", "done"} => KnowledgePart(x)
  /\ x.pc \in {"assemble", "done"} => CasesPart(x)
  /\ x.pc = "done" => Grounded(x)

RequestInv ==
  /\ seen \subseteq (Places \cup {NoPlace}) \X (Offset .. Never)
  /\ request = NoRequest \/ Assembled(request)
  /\ request.pc \notin {"none", "done"} => Now(request.event) \in seen

(* What was seen stays seen. *)
LEMMA StillAssembled ==
  ASSUME NEW x, Assembled(x), seen \subseteq seen' PROVE Assembled(x)'
<1>1. \A p : SeenPlace(p) => SeenPlace(p)'
  BY DEF SeenPlace
<1>2. \A t : SeenAfter(t) => SeenAfter(t)'
  BY DEF SeenAfter
<1>3. \A d : DocSeen(d) => DocSeen(d)'
  BY DEF DocSeen
<1>4. \A c : CaseSeen(c) => CaseSeen(c)'
  BY <1>2 DEF CaseSeen
<1>5. BindingPart(x) => BindingPart(x)'
  BY <1>1 DEF BindingPart
<1>6. HistoryPart(x) => HistoryPart(x)'
  BY <1>1, <1>2 DEF HistoryPart
<1>7. KnowledgePart(x) => KnowledgePart(x)'
  BY <1>3 DEF KnowledgePart
<1>8. CasesPart(x) => CasesPart(x)'
  BY <1>4 DEF CasesPart
<1>9. (RegionalPart(x) => RegionalPart(x)') /\ (Grounded(x) => Grounded(x)')
  BY DEF RegionalPart, Grounded
<1>10. QED
  BY <1>5, <1>6, <1>7, <1>8, <1>9 DEF Assembled

LEMMA OthersStep ==
  ASSUME CaseTypeOK', RequestInv, Others PROVE RequestInv'
<1>1. UNCHANGED request /\ seen \subseteq seen'
  BY DEF Others, Follow
<1>2. request = NoRequest \/ Assembled(request)'
  BY <1>1, StillAssembled DEF RequestInv
<1>3. request' = NoRequest \/ Assembled(request)'
  BY <1>1, <1>2
<1>4. CASE request.pc \in {"none", "done"}
  BY <1>1, <1>3, <1>4 DEF Others, Follow, RequestInv
<1>5. CASE request.pc \notin {"none", "done"}
  <2>1. request.event \in Events
    BY <1>5 DEF RequestInv, NoRequest, Assembled
  <2>2. binding'[request.event] \in Places \cup {NoPlace} /\ event'[request.event] \in Event
    BY <2>1 DEF CaseTypeOK
  <2>3. event'[request.event].created \in Offset .. Never
    BY <2>2 DEF Event
  <2>4. seen' = seen \cup {<<binding'[request.event], event'[request.event].created>>}
    BY <1>5 DEF Others, Follow
  <2>5. QED
    BY <1>1, <1>3, <2>2, <2>3, <2>4 DEF RequestInv, Now
<1>6. QED
  BY <1>4, <1>5

LEMMA HydrateStep ==
  ASSUME CaseTypeOK, RequestInv, NEW e \in Events, Hydrate(e) PROVE RequestInv'
<1>1. request' = [pc |-> "binding", event |-> e, faults |-> 0] /\ seen' = {Now(e)}
      /\ UNCHANGED <<binding, event>>
  BY DEF Hydrate, caseVars
<1>2. Now(e) \in (Places \cup {NoPlace}) \X (Offset .. Never)
  <2>1. binding[e] \in Places \cup {NoPlace} /\ event[e] \in Event
    BY DEF CaseTypeOK
  <2>2. QED
    BY <2>1 DEF Now, Event
<1>3. Assembled(request)'
  BY <1>1 DEF Assembled
<1>4. QED
  BY <1>1, <1>2, <1>3 DEF RequestInv, Now

(* What a part adds to the context, and what it leaves. *)
LEMMA BecomesFields ==
  ASSUME NEW new, NEW fails, Becomes(new, fails)
  PROVE  /\ DOMAIN request' = DOMAIN request \cup DOMAIN new
         /\ \A f \in DOMAIN new : request'[f] = new[f]
         /\ \A f \in DOMAIN request \ DOMAIN new : f # "faults" => request'[f] = request[f]
         /\ UNCHANGED <<seen, binding, event>>
<1> DEFINE old == [request EXCEPT !.faults = @ + IF fails THEN 1 ELSE 0]
<1>1. DOMAIN old = DOMAIN request /\ \A f \in DOMAIN request : f # "faults" => old[f] = request[f]
  OBVIOUS
<1>2. request' = With(old, new) /\ UNCHANGED <<seen, binding, event>>
  BY DEF Becomes, caseVars
<1> HIDE DEF old
<1>3. QED
  BY <1>1, <1>2 DEF With

(* A part is there until the end once it is there: the step of a later one *)
(* adds fields of its own.                                                 *)
LEMMA PartsStay ==
  ASSUME NEW new, NEW fails, Becomes(new, fails), Assembled(request),
         DOMAIN new \cap {"event"} = {}
  PROVE  /\ request'.event = request.event
         /\ {"pc", "event", "faults"} \subseteq DOMAIN request'
         /\ DOMAIN new \cap {"place", "failed"} = {} /\ BindingPart(request) =>
              BindingPart(request)' /\ request'.place = request.place
         /\ "regional" \notin DOMAIN new /\ RegionalPart(request) =>
              RegionalPart(request)' /\ request'.regional = request.regional
         /\ /\ DOMAIN new \cap {"place", "history", "events", "past"} = {}
            /\ BindingPart(request) /\ HistoryPart(request)
            => HistoryPart(request)' /\ request'.history = request.history
         /\ DOMAIN new \cap {"knowledge", "docs"} = {} /\ KnowledgePart(request) =>
              KnowledgePart(request)' /\ request'.knowledge = request.knowledge
         /\ DOMAIN new \cap {"cases", "offered"} = {} /\ CasesPart(request) =>
              CasesPart(request)' /\ request'.cases = request.cases
<1>1. /\ DOMAIN request' = DOMAIN request \cup DOMAIN new
      /\ \A f \in DOMAIN request \ DOMAIN new : f # "faults" => request'[f] = request[f]
      /\ UNCHANGED seen
  BY BecomesFields
<1>2. {"pc", "event", "faults"} \subseteq DOMAIN request
  BY DEF Assembled
<1>3. request'.event = request.event
  BY <1>1, <1>2
<1>4. \A p : SeenPlace(p)' <=> SeenPlace(p)
  BY <1>1 DEF SeenPlace
<1>5. \A t : SeenAfter(t)' <=> SeenAfter(t)
  BY <1>1 DEF SeenAfter
<1>6. \A d : DocSeen(d)' <=> DocSeen(d)
  BY <1>1 DEF DocSeen
<1>7. \A c : CaseSeen(c)' <=> CaseSeen(c)
  BY <1>1, <1>5 DEF CaseSeen
<1>8. ASSUME DOMAIN new \cap {"place", "failed"} = {}, BindingPart(request)
      PROVE  BindingPart(request)' /\ request'.place = request.place
  BY <1>1, <1>4, <1>8 DEF BindingPart
<1>9. ASSUME "regional" \notin DOMAIN new, RegionalPart(request)
      PROVE  RegionalPart(request)' /\ request'.regional = request.regional
  BY <1>1, <1>9 DEF RegionalPart
<1>10. ASSUME DOMAIN new \cap {"place", "history", "events", "past"} = {}, BindingPart(request),
              HistoryPart(request)
       PROVE  HistoryPart(request)' /\ request'.history = request.history
  <2>1. /\ request'.place = request.place /\ request'.history = request.history
        /\ request'.events = request.events /\ request'.past = request.past
        /\ {"history", "events", "past"} \subseteq DOMAIN request'
    BY <1>1, <1>10 DEF BindingPart, HistoryPart
  <2>2. QED
    BY <1>3, <1>4, <1>5, <1>10, <2>1 DEF HistoryPart
<1>11. ASSUME DOMAIN new \cap {"knowledge", "docs"} = {}, KnowledgePart(request)
       PROVE  KnowledgePart(request)' /\ request'.knowledge = request.knowledge
  BY <1>1, <1>6, <1>11 DEF KnowledgePart
<1>12. ASSUME DOMAIN new \cap {"cases", "offered"} = {}, CasesPart(request)
       PROVE  CasesPart(request)' /\ request'.cases = request.cases
  BY <1>1, <1>7, <1>12 DEF CasesPart
<1>13. QED
  BY <1>1, <1>2, <1>3, <1>8, <1>9, <1>10, <1>11, <1>12

(* Steps of the request: seen and the event stay, and the context it       *)
(* becomes is assembled so far.                                            *)
LEMMA RequestGoes ==
  ASSUME RequestInv, NEW new, NEW fails, Becomes(new, fails), Assembled(request)',
         request.pc \notin {"none", "done"}, request'.event = request.event
  PROVE  RequestInv'
<1>1. UNCHANGED <<seen, binding, event>>
  BY BecomesFields
<1>2. QED
  BY <1>1 DEF RequestInv, Now

(* A request with a part to read: what its event is at this moment is seen. *)
LEMMA Reads ==
  ASSUME RequestInv, CaseTypeOK, NEW pc, request.pc = pc, pc # "none", pc # "done"
  PROVE  /\ Assembled(request) /\ request.event \in Events
         /\ binding[request.event] \in Places \cup {NoPlace}
         /\ event[request.event].created \in Offset .. Never
         /\ SeenPlace(binding[request.event])
         /\ \A t : t < event[request.event].created => SeenAfter(t)
         /\ \E s \in seen : s = <<binding[request.event], event[request.event].created>>
<1>1. Assembled(request)
  BY DEF RequestInv, NoRequest
<1>2. request.event \in Events
  BY <1>1 DEF Assembled
<1>3. binding[request.event] \in Places \cup {NoPlace} /\ event[request.event] \in Event
  BY <1>2 DEF CaseTypeOK
<1>4. event[request.event].created \in Offset .. Never
  BY <1>3 DEF Event
<1>5. <<binding[request.event], event[request.event].created>> \in seen
  BY DEF RequestInv, Now
<1>6. QED
  BY <1>1, <1>2, <1>3, <1>4, <1>5 DEF SeenPlace, SeenAfter

LEMMA ReadBindingStep ==
  ASSUME CaseTypeOK, RequestInv, NEW fails \in BOOLEAN, ReadBinding(fails)
  PROVE  RequestInv'
<1> DEFINE p == IF fails THEN NoPlace ELSE binding[request.event]
           new == [pc |-> "regional", failed |-> fails, place |-> p]
<1>1. request.pc = "binding" /\ Becomes(new, fails)
  BY DEF ReadBinding
<1>2. Assembled(request) /\ (p = NoPlace \/ SeenPlace(p))
  BY <1>1, Reads
<1>3. DOMAIN new = {"pc", "failed", "place"} /\ new.pc = "regional" /\ new.place = p
  OBVIOUS
<1> HIDE DEF new, p
<1>4. /\ request'.pc = "regional" /\ request'.place = p /\ {"place", "failed"} \subseteq DOMAIN request'
      /\ UNCHANGED seen
  BY <1>1, <1>3, BecomesFields
<1>5. request'.event = request.event /\ {"pc", "event", "faults"} \subseteq DOMAIN request'
  BY <1>1, <1>2, <1>3, PartsStay
<1>6. Assembled(request)'
  BY <1>2, <1>4, <1>5 DEF Assembled, BindingPart, SeenPlace
<1>7. QED
  BY <1>1, <1>5, <1>6, RequestGoes

LEMMA RegionalStep ==
  ASSUME CaseTypeOK, RequestInv, NEW fails \in BOOLEAN, Regional(fails)
  PROVE  RequestInv'
<1> DEFINE g == IF request.failed THEN "UNAVAILABLE"
                ELSE IF request.place = NoPlace THEN "UNRESOLVED"
                ELSE IF fails THEN "UNAVAILABLE" ELSE "READY"
           new == [pc |-> "history", regional |-> g]
<1>1. request.pc = "regional" /\ Becomes(new, fails)
  BY DEF Regional
<1>2. Assembled(request) /\ BindingPart(request)
  BY <1>1, Reads DEF Assembled
<1>3. DOMAIN new = {"pc", "regional"} /\ new.pc = "history" /\ new.regional \in Part
  BY DEF Part
<1> HIDE DEF new, g
<1>4. /\ request'.pc = "history" /\ request'.regional \in Part /\ "regional" \in DOMAIN request'
  BY <1>1, <1>3, BecomesFields
<1>5. /\ request'.event = request.event /\ {"pc", "event", "faults"} \subseteq DOMAIN request'
      /\ BindingPart(request)'
  BY <1>1, <1>2, <1>3, PartsStay
<1>6. Assembled(request)'
  BY <1>2, <1>4, <1>5 DEF Assembled, RegionalPart
<1>7. QED
  BY <1>1, <1>5, <1>6, RequestGoes

LEMMA HistoryStep ==
  ASSUME CaseTypeOK, RequestInv, NEW fails \in BOOLEAN, History(fails)
  PROVE  RequestInv'
<1> DEFINE e == request.event
           none == [pc |-> "knowledge", history |-> "UNAVAILABLE", events |-> {}, past |-> NoPlace]
           events == {[id |-> o, created |-> event[o].created] : o \in Earlier(e, binding[e])}
           ready == [pc |-> "knowledge", history |-> "READY", events |-> events,
                     past |-> binding[e]]
           new == IF fails \/ NoPlace \in {request.place, binding[e]} THEN none ELSE ready
<1>1. request.pc = "history" /\ Becomes(new, fails)
  BY DEF History
<1>2. Assembled(request) /\ BindingPart(request) /\ RegionalPart(request)
  BY <1>1, Reads DEF Assembled
<1>3. SeenPlace(binding[e]) /\ \A t : t < event[e].created => SeenAfter(t)
  BY <1>1, Reads
<1>4. \A o \in events : o.id # e /\ SeenAfter(o.created)
  BY <1>3 DEF Earlier
<1>5. /\ DOMAIN new = {"pc", "history", "events", "past"} /\ new.pc = "knowledge"
      /\ new.history \in {"READY", "UNAVAILABLE"}
      /\ new.history = "READY" => SeenPlace(new.past) /\ request.place # NoPlace
      /\ \A o \in new.events : o.id # e /\ SeenAfter(o.created)
  <2> HIDE DEF events
  <2>1. CASE fails \/ NoPlace \in {request.place, binding[e]}
    BY <2>1
  <2>2. CASE ~(fails \/ NoPlace \in {request.place, binding[e]})
    BY <1>3, <1>4, <2>2
  <2>3. QED
    BY <2>1, <2>2
<1> HIDE DEF new, none, ready, events
<1>6. /\ request'.pc = "knowledge" /\ {"history", "events", "past"} \subseteq DOMAIN request'
      /\ request'.history = new.history /\ request'.events = new.events
      /\ request'.past = new.past /\ UNCHANGED seen
  BY <1>1, <1>5, BecomesFields
<1>7. /\ request'.event = e /\ {"pc", "event", "faults"} \subseteq DOMAIN request'
      /\ BindingPart(request)' /\ request'.place = request.place /\ RegionalPart(request)'
  BY <1>1, <1>2, <1>5, PartsStay
<1>8. HistoryPart(request)'
  BY <1>5, <1>6, <1>7 DEF HistoryPart, SeenPlace, SeenAfter
<1>9. Assembled(request)'
  BY <1>2, <1>6, <1>7, <1>8 DEF Assembled
<1>10. QED
  BY <1>1, <1>7, <1>9, RequestGoes

LEMMA KnowledgeStep ==
  ASSUME CaseTypeOK, RequestInv, NEW fails \in BOOLEAN, Knowledge(fails)
  PROVE  RequestInv'
<1> DEFINE e == request.event
           fit == {d \in Docs : Applicable(d, binding[e], event[e].created)}
<1>1. PICK found \in SUBSET fit :
        Becomes(IF fails THEN [pc |-> "cases", knowledge |-> "UNAVAILABLE", docs |-> {}]
                ELSE [pc |-> "cases", docs |-> found,
                      knowledge |-> IF found = {} THEN "EMPTY" ELSE "READY"], fails)
  BY DEF Knowledge
<1> DEFINE new == IF fails THEN [pc |-> "cases", knowledge |-> "UNAVAILABLE", docs |-> {}]
                  ELSE [pc |-> "cases", docs |-> found,
                        knowledge |-> IF found = {} THEN "EMPTY" ELSE "READY"]
<1>2. request.pc = "knowledge"
  BY DEF Knowledge
<1>3. Assembled(request) /\ BindingPart(request) /\ RegionalPart(request) /\ HistoryPart(request)
  BY <1>2, Reads DEF Assembled
<1>4. \A d \in found : DocSeen(d)
  <2>1. PICK s \in seen : s = <<binding[e], event[e].created>>
    BY <1>2, Reads
  <2>2. s[1] = binding[e]
    BY <2>1
  <2>3. QED
    BY <2>2 DEF Applicable, DocSeen
<1>5. /\ DOMAIN new = {"pc", "knowledge", "docs"} /\ new.pc = "cases" /\ new.knowledge \in Part
      /\ \A d \in new.docs : DocSeen(d)
  BY <1>4 DEF Part
<1>6. Becomes(new, fails)
  BY <1>1
<1> HIDE DEF new
<1>7. /\ request'.pc = "cases" /\ {"knowledge", "docs"} \subseteq DOMAIN request'
      /\ request'.knowledge = new.knowledge /\ request'.docs = new.docs /\ UNCHANGED seen
  BY <1>5, <1>6, BecomesFields
<1>8. /\ request'.event = e /\ {"pc", "event", "faults"} \subseteq DOMAIN request'
      /\ BindingPart(request)' /\ RegionalPart(request)' /\ HistoryPart(request)'
  BY <1>3, <1>5, <1>6, PartsStay
<1>9. KnowledgePart(request)'
  BY <1>5, <1>7 DEF KnowledgePart, DocSeen
<1>10. Assembled(request)'
  BY <1>3, <1>7, <1>8, <1>9 DEF Assembled
<1>11. QED
  BY <1>2, <1>6, <1>8, <1>10, RequestGoes

(* The three answers of the fourth look. *)
LEMMA CasesBecome ==
  ASSUME CaseTypeOK, RequestInv, request.pc = "cases", NEW answer \in Part, NEW offered, NEW fails,
         \A c \in offered : CaseSeen(c.case),
         Becomes([pc |-> "assemble", cases |-> answer, offered |-> offered], fails)
  PROVE  RequestInv'
<1> DEFINE new == [pc |-> "assemble", cases |-> answer, offered |-> offered]
<1>1. /\ DOMAIN new = {"pc", "cases", "offered"} /\ new.pc = "assemble" /\ new.cases = answer
      /\ new.offered = offered
  OBVIOUS
<1>2. Becomes(new, fails)
  OBVIOUS
<1>3. /\ Assembled(request) /\ BindingPart(request) /\ RegionalPart(request)
      /\ HistoryPart(request) /\ KnowledgePart(request)
  BY Reads DEF Assembled
<1> HIDE DEF new
<1>4. /\ request'.pc = "assemble" /\ {"cases", "offered"} \subseteq DOMAIN request'
      /\ request'.cases = answer /\ request'.offered = offered /\ UNCHANGED seen
  BY <1>1, <1>2, BecomesFields
<1>5. /\ request'.event = request.event /\ {"pc", "event", "faults"} \subseteq DOMAIN request'
      /\ BindingPart(request)' /\ RegionalPart(request)' /\ HistoryPart(request)'
      /\ KnowledgePart(request)'
  BY <1>1, <1>2, <1>3, PartsStay
<1>6. CasesPart(request)'
  BY <1>4 DEF CasesPart, CaseSeen, SeenAfter
<1>7. Assembled(request)'
  BY <1>3, <1>4, <1>5, <1>6 DEF Assembled
<1>8. QED
  BY <1>2, <1>5, <1>7, RequestGoes

LEMMA CasesStep ==
  ASSUME CaseTypeOK, CaseInv, RequestInv, NEW fails \in BOOLEAN, Cases(fails)
  PROVE  RequestInv'
<1> DEFINE e == request.event
<1>1. request.pc = "cases" /\ {"UNRESOLVED", "UNAVAILABLE", "EMPTY", "READY"} \subseteq Part
  BY DEF Cases, Part
<1> DEFINE none(answer) == [pc |-> "assemble", cases |-> answer, offered |-> {}]
<1>6. ASSUME NEW answer \in Part, NEW f, Becomes(none(answer), f) PROVE RequestInv'
  <2>1. \A c \in {} : CaseSeen(c.case)
    OBVIOUS
  <2>2. QED
    BY <1>1, <1>6, <2>1, CasesBecome
<1>2. CASE request.place = NoPlace
  <2>1. Becomes(none("UNRESOLVED"), FALSE)
    BY <1>2 DEF Cases
  <2> HIDE DEF none
  <2>2. QED
    BY <1>1, <1>6, <2>1
<1>3. CASE request.place # NoPlace /\ (fails \/ binding[e] = NoPlace \/ ~event[e].typed)
  <2>1. Becomes(none("UNAVAILABLE"), fails)
    BY <1>3 DEF Cases
  <2> HIDE DEF none
  <2>2. QED
    BY <1>1, <1>6, <2>1
<1>4. CASE request.place # NoPlace /\ ~(fails \/ binding[e] = NoPlace \/ ~event[e].typed)
  <2>1. PICK T \in Offered(binding[e], event[e].created, MaxCases) :
          Becomes([pc |-> "assemble", cases |-> IF T = {} THEN "EMPTY" ELSE "READY",
                   offered |-> {[case |-> cases[r], by |-> binding[e]] : r \in T}], FALSE)
    BY <1>4 DEF Cases
  <2> DEFINE offered == {[case |-> cases[r], by |-> binding[e]] : r \in T}
             answer == IF T = {} THEN "EMPTY" ELSE "READY"
  <2>2. ASSUME NEW r \in T PROVE CaseSeen(cases[r])
    <3>1. r \in WfRuns /\ Eligible(cases[r], binding[e], event[e].created)
      BY <2>1 DEF Offered
    <3>2. /\ cases[r] \in Case /\ RegionOf(cases[r].place) = RegionOf(binding[e])
          /\ cases[r].completed < event[e].created
      BY <3>1 DEF Eligible, CaseInv
    <3>3. SeenAfter(cases[r].completed)
      BY <1>1, <3>2, Reads
    <3>4. PICK s \in seen : s = <<binding[e], event[e].created>>
      BY <1>1, Reads
    <3>5. s[1] = binding[e]
      BY <3>4
    <3>6. QED
      BY <1>4, <3>2, <3>3, <3>5 DEF CaseSeen
  <2>3. \A c \in offered : CaseSeen(c.case)
    BY <2>2
  <2>4. answer \in Part /\ Becomes([pc |-> "assemble", cases |-> answer, offered |-> offered], FALSE)
    BY <1>1, <2>1
  <2> HIDE DEF offered, answer
  <2>5. QED
    BY <1>1, <2>3, <2>4, CasesBecome
<1>5. QED
  BY <1>2, <1>3, <1>4

LEMMA AssembleStep ==
  ASSUME CaseTypeOK, RequestInv, Assemble PROVE RequestInv'
<1> DEFINE g == Overall(request)
           new == [pc |-> "done", grounding |-> g]
<1>1. request.pc = "assemble" /\ Becomes(new, FALSE)
  BY DEF Assemble
<1>2. /\ Assembled(request) /\ BindingPart(request) /\ RegionalPart(request)
      /\ HistoryPart(request) /\ KnowledgePart(request) /\ CasesPart(request)
  BY <1>1, Reads DEF Assembled
<1>3. g \in {"FULL", "PARTIAL", "MINIMAL"} /\ (g = "FULL" => request.history = "READY")
  BY <1>2 DEF Overall, HistoryPart
<1>4. DOMAIN new = {"pc", "grounding"} /\ new.pc = "done" /\ new.grounding = g
  OBVIOUS
<1> HIDE DEF new, g
<1>5. request'.pc = "done" /\ request'.grounding = g /\ "grounding" \in DOMAIN request'
  BY <1>1, <1>4, BecomesFields
<1>6. /\ request'.event = request.event /\ {"pc", "event", "faults"} \subseteq DOMAIN request'
      /\ BindingPart(request)' /\ RegionalPart(request)' /\ HistoryPart(request)'
      /\ request'.history = request.history /\ KnowledgePart(request)' /\ CasesPart(request)'
  BY <1>1, <1>2, <1>4, PartsStay
<1>7. Assembled(request)'
  BY <1>2, <1>3, <1>5, <1>6 DEF Assembled, Grounded
<1>8. QED
  BY <1>1, <1>6, <1>7, RequestGoes

LEMMA GroundStep ==
  ASSUME CaseTypeOK, CaseInv, RequestInv, [GroundNext]_groundVars
  PROVE  CaseTypeOK' /\ CaseInv' /\ RequestInv'
<1>1. [CaseNext]_caseVars
  BY DEF GroundNext, groundVars, Others, Hydrate, ReadBinding, Regional, History, Knowledge,
         Cases, Assemble, Becomes
<1>2. CaseTypeOK' /\ CaseInv'
  BY <1>1, CaseStep
<1>3. CASE UNCHANGED groundVars
  <2>1. UNCHANGED <<request, seen, binding, event>>
    BY <1>3 DEF groundVars, caseVars
  <2>2. Assembled(request) => Assembled(request)'
    BY <2>1, StillAssembled
  <2>3. QED
    BY <1>2, <2>1, <2>2 DEF RequestInv, Now
<1>4. CASE GroundNext
  <2>1. CASE Others
    BY <1>2, <2>1, OthersStep
  <2>2. CASE \E e \in Events : Hydrate(e)
    BY <1>2, <2>2, HydrateStep
  <2>3. ASSUME NEW fails \in BOOLEAN,
               \/ ReadBinding(fails) \/ Regional(fails) \/ History(fails)
               \/ Knowledge(fails) \/ Cases(fails)
        PROVE  RequestInv'
    BY <2>3, ReadBindingStep, RegionalStep, HistoryStep, KnowledgeStep, CasesStep
  <2>4. CASE Assemble
    BY <1>2, <2>4, AssembleStep
  <2>5. QED
    BY <1>2, <1>4, <2>1, <2>2, <2>3, <2>4 DEF GroundNext
<1>5. QED
  BY <1>2, <1>3, <1>4

(* Whatever the clocks: cases are typed and tell how their runs ended,     *)
(* where those were not overrun; a builder at work has read what its place *)
(* in the sequence says, and every part of a context is about what was     *)
(* seen of its event.                                                      *)
THEOREM GroundInvariant == GroundSpec => [](CaseTypeOK /\ CaseInv /\ RequestInv)
<1>1. GroundInit => CaseTypeOK /\ CaseInv /\ RequestInv
  BY CaseInit_Inv DEF GroundInit, RequestInv, NoRequest
<1>2. CaseTypeOK /\ CaseInv /\ RequestInv /\ [GroundNext]_groundVars
        => (CaseTypeOK /\ CaseInv /\ RequestInv)'
  BY GroundStep
<1>3. QED
  BY <1>1, <1>2, PTL DEF GroundSpec

(* The case of a run that has ended under the driver tells how it ended,   *)
(* however builders, retries, bindings and saved events interleave, unless *)
(* a stream, a replan or another process changed the run after its end.    *)
THEOREM CasesTellTheEnd == GroundSpec => []CaseIsHowItEnded
BY GroundInvariant, CasesTell, PTL

LEMMA ContextSeen ==
  ASSUME RequestInv, request.pc = "done" PROVE ContextIsOfTheRequest
<1>1. /\ BindingPart(request) /\ HistoryPart(request) /\ KnowledgePart(request)
      /\ CasesPart(request) /\ Grounded(request)
  BY DEF RequestInv, NoRequest, Assembled
<1> DEFINE places == {s[1] : s \in seen}
           regions == {RegionOf(p) : p \in places \ {NoPlace}}
<1>2. \A p : SeenPlace(p) => p \in places
  BY DEF SeenPlace
<1>3. request.history = "READY" => request.past \in places /\ request.place # NoPlace
  BY <1>1, <1>2 DEF HistoryPart
<1>4. \A o \in request.events : o.id # request.event /\ \E s \in seen : o.created < s[2]
  BY <1>1 DEF HistoryPart, SeenAfter
<1>5. \A d \in request.docs : d.place \in places \cup regions \cup {Global}
  BY <1>1 DEF KnowledgePart, DocSeen
<1>6. ASSUME NEW c \in request.offered
      PROVE  RegionOf(c.case.place) \in regions /\ \E s \in seen : c.case.completed < s[2]
  BY <1>1 DEF CasesPart, CaseSeen, SeenAfter
<1>7. request.grounding = "FULL" => request.history = "READY"
  BY <1>1 DEF Grounded
<1> HIDE DEF places, regions
<1>8. QED
  BY <1>3, <1>4, <1>5, <1>6, <1>7 DEF ContextIsOfTheRequest, places, regions

(* Whatever the offset of local time, every part of an assembled context   *)
(* is about a place its event had during the request and is stamped before *)
(* a date it had in it.                                                    *)
THEOREM ContextsAreOfTheirRequests == GroundSpec => []ContextIsOfTheRequest
<1>1. RequestInv => ContextIsOfTheRequest
  BY ContextSeen DEF ContextIsOfTheRequest
<1>2. QED
  BY <1>1, GroundInvariant, PTL

-----------------------------------------------------------------------------
(* The parts together *)

LEMMA PartInits ==
  ASSUME MCInit PROVE Init /\ ProvInit /\ PlanInit /\ GroundInit /\ ContextInit
BY DEF MCInit

(* A step of the whole is one of a part, and the others stay as they are.  *)
LEMMA PartSteps ==
  ASSUME [MCNext]_all
  PROVE  /\ [ProvNext]_<<vars, provVars>> /\ [PlanNext]_planVars
         /\ [GroundNext]_groundVars /\ [ContextNext]_ctxVars
<1>1. CASE UNCHANGED all
  BY <1>1 DEF all
<1>2. CASE ProvNext /\ UNCHANGED <<planVars, groundVars, ctxVars>>
  BY <1>2
<1>3. CASE PlanNext /\ UNCHANGED <<vars, provVars, groundVars, ctxVars>>
  BY <1>3
<1>4. CASE GroundNext /\ UNCHANGED <<vars, provVars, planVars, ctxVars>>
  BY <1>4
<1>5. CASE ContextNext /\ UNCHANGED <<vars, provVars, planVars, groundVars>>
  BY <1>5
<1>6. Others => GroundNext
  BY DEF GroundNext
<1>7. QED
  BY <1>1, <1>2, <1>3, <1>4, <1>5, <1>6 DEF MCNext

(* Every part of the composed run behaves as its own specification says,   *)
(* so what is proved of the parts holds in the run.                        *)
THEOREM PlanningRunsItsParts == MCSpec => ProvSpec /\ PlanSpec /\ GroundSpec /\ ContextSpec
<1>1. MCInit => Init /\ ProvInit /\ PlanInit /\ GroundInit /\ ContextInit
  BY PartInits
<1>2. [MCNext]_all => /\ [ProvNext]_<<vars, provVars>> /\ [PlanNext]_planVars
                      /\ [GroundNext]_groundVars /\ [ContextNext]_ctxVars
  BY PartSteps
<1>3. QED
  BY <1>1, <1>2, PTL DEF MCSpec, ProvSpec, PlanSpec, GroundSpec, ContextSpec

LEMMA RequestTypes == ASSUME CaseTypeOK, RequestInv PROVE GroundTypeOK
<1>1. ASSUME request # NoRequest PROVE Assembled(request)
  BY <1>1 DEF RequestInv
<1>2. request = NoRequest \/ (request.event \in Events /\
        request.pc \in {"binding", "regional", "history", "knowledge", "cases", "assemble", "done"})
  BY <1>1 DEF Assembled
<1>3. ASSUME request.pc = "done"
      PROVE  /\ {request.regional, request.history, request.knowledge, request.cases} \subseteq Part
             /\ request.grounding \in {"FULL", "PARTIAL", "MINIMAL"}
  <2>1. Assembled(request)
    BY <1>1, <1>3 DEF NoRequest
  <2>2. /\ RegionalPart(request) /\ HistoryPart(request) /\ KnowledgePart(request)
        /\ CasesPart(request) /\ Grounded(request)
    BY <1>3, <2>1 DEF Assembled
  <2>3. QED
    BY <2>2 DEF RegionalPart, HistoryPart, KnowledgePart, CasesPart, Grounded, Part
<1>4. QED
  BY <1>2, <1>3 DEF GroundTypeOK, RequestInv

(* The types of the grounding of a request.                                *)
THEOREM GroundTypes == GroundSpec => []GroundTypeOK
<1>1. CaseTypeOK /\ RequestInv => GroundTypeOK
  BY RequestTypes
<1>2. QED
  BY <1>1, GroundInvariant, PTL

(* One server process: the types of every part of the composed run.        *)
THEOREM PlanningTypes == OneProcess /\ MCSpec => []TypesOK
<1>1. TypeOK /\ ProvTypeOK /\ PlanTypeOK /\ GroundTypeOK /\ ContextTypeOK => TypesOK
  BY DEF TypesOK
<1>2. QED
  BY <1>1, PlanningRunsItsParts, ProvenanceRuns, TypeCorrect, ProvenanceTypes, PlanTypes,
     GroundTypes, ContextTypes, PTL

(* One server process: every invariant checked of the composed run holds   *)
(* in it for every value of the constants.                                 *)
THEOREM PlanningIsSafe ==
  OneProcess /\ MCSpec =>
    [](/\ TypesOK /\ OncePerRun /\ LineageSpend /\ OwnVersion /\ CompletedStepsStay
       /\ ProvenanceIsTrue /\ WalkIsThePlan /\ PlansAreValid /\ CaseIsHowItEnded
       /\ ContextIsOfTheRequest /\ DecisionsAreInformed)
BY PlanningRunsItsParts, ProvenanceRuns, PlanningTypes, EachRunOnce, SpendIsBounded,
   VersionsAreOwn, CompletedStepsAreKept, ReportsAreTrue, WalkFollowsThePlan, PlansStayValid,
   CasesTellTheEnd, ContextsAreOfTheirRequests, DecisionsInformed, PTL
================================================================================
