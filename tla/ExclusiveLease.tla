---------------------------- MODULE ExclusiveLease ----------------------------
(***************************************************************************)
(* What the lease on a driver-managed run promises, whatever statements    *)
(* implement it: one holder at a time, every grant under a new epoch, and  *)
(* a holder that has not let the lease lapse loses it only by giving it    *)
(* up.  A lapsed lease is never renewed: it is granted again.              *)
(*                                                                         *)
(* "late" is the state in which both outcomes are still open.  The         *)
(* database compares the lease with a clock value that the caller took     *)
(* before its statement ran, so around the expiry instant a slow renewal   *)
(* may still succeed and a prompt claim may already succeed.               *)
(***************************************************************************)
EXTENDS Naturals

CONSTANTS Owner, MaxEpoch

VARIABLES holder,   \* the current grant as {<<owner, epoch>>}, or {}
          epoch,    \* number of grants made so far
          health    \* "live", "late" or "lapsed"; "live" when nobody holds

leaseVars == <<holder, epoch, health>>

Init ==
  /\ holder = {}
  /\ epoch = 0
  /\ health = "live"

Grant(o) ==
  /\ epoch < MaxEpoch
  /\ holder = {} \/ health \in {"late", "lapsed"}
  /\ epoch' = epoch + 1
  /\ holder' = {<<o, epoch + 1>>}
  /\ health' = "live"

Renew ==
  /\ holder # {}
  /\ health \in {"live", "late"}
  /\ health' = "live"
  /\ UNCHANGED <<holder, epoch>>

Drop ==
  /\ holder # {}
  /\ holder' = {}
  /\ health' = "live"
  /\ UNCHANGED epoch

(* The lease runs out, in one step or through "late". *)
Age ==
  /\ holder # {}
  /\ \/ health = "live" /\ health' \in {"late", "lapsed"}
     \/ health = "late" /\ health' = "lapsed"
  /\ UNCHANGED <<holder, epoch>>

Next == (\E o \in Owner : Grant(o)) \/ Renew \/ Drop \/ Age

Spec == Init /\ [][Next]_leaseVars
=============================================================================
