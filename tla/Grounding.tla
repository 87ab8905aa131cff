------------------------------ MODULE Grounding ------------------------------
(***************************************************************************)
(* Grounding of an event's analysis (grounding/assembler.py,               *)
(* regional/historical.py, knowledge/regional_context.py): one request     *)
(* looks its event up, and then every part of the context looks the event  *)
(* and its location up again, while events are saved and bound and cases   *)
(* are built.                                                              *)
(***************************************************************************)
EXTENDS CaseMemory

CONSTANTS Docs,     \* documents: the place or region they are about or Global, and effective_from
          Global,
          Window,   \* history_window_days, in hours
          MaxCases, \* MAX_CASES
          Faults    \* bound on the parts that fail

VARIABLES request,  \* the request that is being assembled
          seen      \* what the event was bound to, and dated, since it began
groundVars == <<caseVars, request, seen>>

Doc == [place : Places \cup {RegionOf(p) : p \in Places} \cup {Global}, from : Time]
Part == {"READY", "EMPTY", "UNRESOLVED", "UNAVAILABLE"}
NoRequest == [pc |-> "none"]

ASSUME GroundingAssumption == Docs \subseteq Doc /\ Global \notin Places

GroundTypeOK ==
  /\ CaseTypeOK
  /\ seen \subseteq (Places \cup {NoPlace}) \X (Offset..Never)
  /\ request = NoRequest \/ (request.event \in Events /\
       request.pc \in {"binding", "regional", "history", "knowledge", "cases", "assemble", "done"})
  /\ request.pc = "done" =>
       /\ {request.regional, request.history, request.knowledge, request.cases} \subseteq Part
       /\ request.grounding \in {"FULL", "PARTIAL", "MINIMAL"}

GroundInit == CaseInit /\ request = NoRequest /\ seen = {}

Now(e) == <<binding[e], event[e].created>>

(* The request is followed by what happens to its event.                   *)
Follow == seen' = IF request.pc \in {"none", "done"} THEN seen
                  ELSE seen \cup {<<binding'[request.event], event'[request.event].created>>}

Others == CaseNext /\ Follow /\ UNCHANGED request

-----------------------------------------------------------------------------
(* assemble                                                                *)

Becomes(new, fails) ==
  /\ fails => request.faults < Faults
  /\ request' = With([request EXCEPT !.faults = @ + IF fails THEN 1 ELSE 0], new)
  /\ UNCHANGED <<caseVars, seen>>

(* The caller hydrates the event before it assembles.                      *)
Hydrate(e) ==
  /\ request = NoRequest /\ event[e] # NoEvent
  /\ request' = [pc |-> "binding", event |-> e, faults |-> 0]
  /\ seen' = {Now(e)} /\ UNCHANGED caseVars

ReadBinding(fails) ==
  /\ request.pc = "binding"
  /\ Becomes([pc |-> "regional", failed |-> fails,
              place |-> IF fails THEN NoPlace ELSE binding[request.event]], fails)

Regional(fails) ==
  /\ request.pc = "regional"
  /\ Becomes([pc |-> "history",
              regional |-> IF request.failed THEN "UNAVAILABLE"
                           ELSE IF request.place = NoPlace THEN "UNRESOLVED"
                           ELSE IF fails THEN "UNAVAILABLE" ELSE "READY"], fails)

(* get_historical_context_for_event: its own look at the event and at the  *)
(* binding; earlier events of the same place, the event itself left out.   *)
Earlier_AsWithItself(e, place) ==
  {o \in Events : binding[o] = place /\ event[o].created <= event[e].created}
Earlier(e, place) ==
  {o \in Events \ {e} : /\ binding[o] = place /\ event[o].created < event[e].created
                        /\ event[o].created + Window >= event[e].created}

History(fails) ==
  LET e == request.event IN
    /\ request.pc = "history"
    /\ Becomes(IF fails \/ NoPlace \in {request.place, binding[e]}
                 THEN [pc |-> "knowledge", history |-> "UNAVAILABLE", events |-> {}, past |-> NoPlace]
                 ELSE [pc |-> "knowledge", history |-> "READY",
                       events |-> {[id |-> o, created |-> event[o].created] :
                                     o \in Earlier(e, binding[e])},
                       past |-> binding[e]], fails)

(* EventKnowledgeContextService: a third look.  A document of the place or *)
(* of its whole region, or a global one, in effect when the event was      *)
(* dated, the local time taken for UTC.                                    *)
Applicable(d, place, asOf) ==
  /\ d.place = Global \/ (place # NoPlace /\ d.place \in {place, RegionOf(place)})
  /\ d.from <= asOf

Knowledge(fails) ==
  LET e == request.event
      docs == {d \in Docs : Applicable(d, binding[e], event[e].created)} IN
    /\ request.pc = "knowledge"
    /\ \E found \in SUBSET docs :
         Becomes(IF fails THEN [pc |-> "cases", knowledge |-> "UNAVAILABLE", docs |-> {}]
                 ELSE [pc |-> "cases", docs |-> found,
                       knowledge |-> IF found = {} THEN "EMPTY" ELSE "READY"], fails)

(* get_case_context_for_event: a fourth.  Without a type the service       *)
(* raises; without the binding the request began with it is not asked.     *)
Cases(fails) ==
  LET e == request.event
      none(status) == [pc |-> "assemble", cases |-> status, offered |-> {}] IN
    /\ request.pc = "cases"
    /\ IF request.place = NoPlace THEN Becomes(none("UNRESOLVED"), FALSE)
       ELSE IF fails \/ binding[e] = NoPlace \/ ~event[e].typed THEN Becomes(none("UNAVAILABLE"), fails)
       ELSE \E T \in Offered(binding[e], event[e].created, MaxCases) :
              Becomes([pc |-> "assemble", cases |-> IF T = {} THEN "EMPTY" ELSE "READY",
                       offered |-> {[case |-> cases[r], by |-> binding[e]] : r \in T}], FALSE)

Overall(r) ==
  IF r.regional # "READY" THEN "MINIMAL"
  ELSE IF {r.history, r.knowledge, r.cases} \cap {"UNAVAILABLE", "UNRESOLVED"} # {}
    THEN "PARTIAL" ELSE "FULL"
Assemble ==
  /\ request.pc = "assemble"
  /\ Becomes([pc |-> "done", grounding |-> Overall(request)], FALSE)

GroundNext ==
  \/ Others
  \/ \E e \in Events : Hydrate(e)
  \/ \E fails \in BOOLEAN :
       ReadBinding(fails) \/ Regional(fails) \/ History(fails) \/ Knowledge(fails) \/ Cases(fails)
  \/ Assemble
GroundSpec == GroundInit /\ [][GroundNext]_groundVars

-----------------------------------------------------------------------------
(* Properties                                                              *)

(* However often the event is saved and bound again while its context is   *)
(* assembled, every part of the context is about a place the event had     *)
(* during the request, never the event itself, no earlier event is from    *)
(* after a date the event had in it and no case is stamped after one;      *)
(* nothing is offered as full that has a part missing.  The stamp of a     *)
(* case is UTC and the date of the event local time, so that a case may    *)
(* have ended up to Offset hours after the event: less than the            *)
(* strict_past of assembler.py says, and all the comparison can hold.      *)
ContextIsOfTheRequest ==
  request.pc = "done" =>
    LET places == {s[1] : s \in seen}
        regions == {RegionOf(p) : p \in places \ {NoPlace}}
        before(t) == \E s \in seen : t < s[2] IN
      /\ request.history = "READY" => request.past \in places
      /\ \A o \in request.events : o.id # request.event /\ before(o.created)
      /\ \A d \in request.docs : d.place \in places \cup regions \cup {Global}
      /\ \A c \in request.offered : RegionOf(c.case.place) \in regions /\ before(c.case.completed)
      /\ request.grounding = "FULL" => request.history = "READY" /\ request.place # NoPlace
=============================================================================
