------------------------------- MODULE Regional -------------------------------
(***************************************************************************)
(* The regional knowledge (regional/repository.py, resolver.py): context   *)
(* packs imported by the server and by command-line tools, each of which   *)
(* validates against the database before its transaction begins, and the   *)
(* resolution of an event's road name to a place of a region.              *)
(***************************************************************************)
EXTENDS Naturals, FiniteSets

CONSTANTS Importers, Server,  \* the processes that import; the one that also resolves
          Regions, NoRegion,
          Roads, Crossings,   \* canonical ids of roads and intersections
          Text,               \* names: their normalized form and how they are written
          Packs               \* the packages there are, of the form of Package

Place == Roads \cup Crossings
Kind(e) == IF e \in Roads THEN Roads ELSE Crossings
None == [region |-> NoRegion]  \* no package, resolution or binding

VARIABLES home,     \* region_id of roads and intersections
          aliases,  \* road_aliases and intersection_aliases
          links,    \* road_relations and pois: the region and the places they name
          pack,     \* the package an importer has validated
          event,    \* the resolution the server holds for an event
          bindings  \* the active row of event_location_bindings for that event
regionalVars == <<home, aliases, links, pack, event, bindings>>

Alias == [region : Regions, place : Place, text : Text]
Link == [region : Regions, ends : SUBSET Place]
Package == [region : Regions, names : SUBSET (Place \X Text), ends : SUBSET Place]
Resolution == [region : Regions, place : Place]

ASSUME RegionalAssumption ==
  NoRegion \notin Regions /\ Roads \cap Crossings = {} /\ Packs \subseteq Package

RegionalTypeOK ==
  /\ home \in [Place -> Regions \cup {NoRegion}]
  /\ aliases \subseteq Alias /\ links \subseteq Link
  /\ pack \in [Importers -> Package \cup {None}]
  /\ event \in Resolution \cup {None} /\ bindings \in Resolution \cup {None}

RegionalInit ==
  /\ home = [e \in Place |-> NoRegion]
  /\ aliases = {} /\ links = {}
  /\ pack = [i \in Importers |-> None]
  /\ event = None /\ bindings = None

-----------------------------------------------------------------------------
(* import_context_pack                                                     *)

Listed(p) == {n[1] : n \in p.names}

(* The normalized name n of a place belongs to another one of its kind.    *)
Taken(region, n) ==
  \E a \in aliases : /\ a.region = region /\ a.text.norm = n[2].norm
                     /\ a.place # n[1] /\ Kind(a.place) = Kind(n[1])
Owned(p) == \A n \in p.names : ~Taken(p.region, n)

(* _validate_package, on what the database holds at that moment.           *)
Valid(p) ==
  /\ \A e \in Listed(p) : home[e] \in {NoRegion, p.region}
  /\ \A m, n \in p.names :
       m[2].norm = n[2].norm /\ Kind(m[1]) = Kind(n[1]) => m[1] = n[1]
  /\ Owned(p)
  /\ \A e \in p.ends \ Listed(p) : home[e] = p.region

Validate(i, p) ==
  /\ pack[i] = None /\ Valid(p)
  /\ pack' = [pack EXCEPT ![i] = p]
  /\ UNCHANGED <<home, aliases, links, event, bindings>>

(* The transaction looks at the owners of the names again, and at nothing  *)
(* else; a place that is there keeps its region.                           *)
Accepted_AsValidated(p) == TRUE
Accepted(p) == Owned(p)
Homes(p) == [e \in Place |-> IF e \in Listed(p) /\ home[e] = NoRegion THEN p.region ELSE home[e]]
Named(p) == {[region |-> p.region, place |-> n[1], text |-> n[2]] : n \in p.names}
Linked(p) == [region |-> p.region, ends |-> p.ends]
Commit(i) ==
  LET p == pack[i] IN
    /\ p # None
    /\ pack' = [pack EXCEPT ![i] = None]
    /\ IF Accepted(p)
         THEN home' = Homes(p) /\ aliases' = aliases \cup Named(p) /\ links' = links \cup {Linked(p)}
         ELSE UNCHANGED <<home, aliases, links>>
    /\ UNCHANGED <<event, bindings>>

(* The tool that validated it is killed, or its transaction fails.         *)
Drop(i) ==
  /\ pack[i] # None
  /\ pack' = [pack EXCEPT ![i] = None]
  /\ UNCHANGED <<home, aliases, links, event, bindings>>

-----------------------------------------------------------------------------
(* EventLocationBindingService                                             *)

(* The candidates of one attempt, in the region asked for or in any.       *)
Matches(kind, name, scope, normalized) ==
  {[region |-> a.region, place |-> a.place] :
     a \in {b \in aliases : /\ b.place \in kind /\ scope \in {NoRegion, b.region}
                            /\ IF normalized THEN b.text.norm = name.norm ELSE b.text = name}}

(* The first attempt that finds anything decides: intersections before     *)
(* roads, the name as it is written before its normalized form.            *)
Candidates(name, scope) ==
  LET attempt == <<Matches(Crossings, name, scope, FALSE), Matches(Crossings, name, scope, TRUE),
                   Matches(Roads, name, scope, FALSE), Matches(Roads, name, scope, TRUE)>>
      found == {k \in 1..4 : attempt[k] # {}} IN
    IF found = {} THEN {} ELSE attempt[CHOOSE k \in found : \A j \in found : k <= j]

(* preview: one candidate resolves the event, several are ambiguous.       *)
Preview(name, scope) ==
  /\ pack[Server] = None /\ event = None
  /\ Cardinality(Candidates(name, scope)) = 1
  /\ event' \in Candidates(name, scope)
  /\ UNCHANGED <<home, aliases, links, pack, bindings>>

(* save_resolved_event_location_binding: the same place again changes      *)
(* nothing, another one needs re_resolve and supersedes the active row.    *)
BindingAllowed_AsResolved(b) == TRUE
BindingAllowed(b) == home[b.place] = b.region
Save(reResolve) ==
  /\ event # None
  /\ event' = None
  /\ bindings' = IF BindingAllowed(event) /\ (bindings = None \/ reResolve)
                   THEN event ELSE bindings
  /\ UNCHANGED <<home, aliases, links, pack>>

RegionalNext ==
  \/ \E i \in Importers :
       \/ \E p \in Packs : (i = Server => event = None) /\ Validate(i, p)
       \/ Commit(i) \/ Drop(i)
  \/ \E name \in Text, scope \in Regions \cup {NoRegion} : Preview(name, scope)
  \/ \E reResolve \in BOOLEAN : Save(reResolve)
RegionalSpec == RegionalInit /\ [][RegionalNext]_regionalVars

-----------------------------------------------------------------------------
(* Properties                                                              *)

(* Within a region a road name is never ambiguous: two imports that were   *)
(* both valid when they looked do not give one normalized name to two      *)
(* places of a kind.                                                       *)
NameIsUnambiguous ==
  \A name \in Text, region \in Regions : Cardinality(Candidates(name, region)) <= 1

(* The place an event is bound to belongs to the region it is bound in,    *)
(* although two imports of one road into two regions leave names of it in  *)
(* both.                                                                   *)
BindingInRegion == bindings # None => home[bindings.place] = bindings.region
=============================================================================
