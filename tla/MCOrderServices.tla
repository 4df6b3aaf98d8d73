-------------------------- MODULE MCOrderServices --------------------------
(***************************************************************************)
(* The services around the dispatch of an order, for TLC.  They share no   *)
(* state with each other that the models keep, so one run exercises them   *)
(* side by side: service says which one moves, the others stay as they     *)
(* began.                                                                  *)
(***************************************************************************)
EXTENDS OrderPlacement, Scheduling, TimePreference, VisitCalls

VARIABLE service

OrderServicesVars == <<service, placementVars, schedulingVars, preferenceVars, visitVars>>

OrderServicesInit ==
  /\ service \in {"placement", "scheduling", "preference", "visit"}
  /\ PlacementInit /\ SchedulingInit /\ PreferenceInit /\ VisitInit
  /\ service # "visit" => FollowUpJobs = {}   \* one initial state of what does not move

OrderServicesNext ==
  \/ /\ service = "placement"
     /\ PlacementNext
     /\ UNCHANGED <<service, schedulingVars, preferenceVars, visitVars>>
  \/ /\ service = "scheduling"
     /\ SchedulingNext
     /\ UNCHANGED <<service, placementVars, preferenceVars, visitVars>>
  \/ /\ service = "preference"
     /\ PreferenceNext
     /\ UNCHANGED <<service, placementVars, schedulingVars, visitVars>>
  \/ /\ service = "visit"
     /\ VisitNext
     /\ UNCHANGED <<service, placementVars, schedulingVars, preferenceVars>>

OrderServicesSpec == OrderServicesInit /\ [][OrderServicesNext]_OrderServicesVars

\* Every variable keeps its type: the state of the four services (orders.service.ts,
\* ivr.service.ts, task.service.ts) never leaves the values their code writes.
OrderServicesTypeOK ==
  PlacementTypeOK /\ SchedulingTypeOK /\ PreferenceTypeOK /\ VisitTypeOK
=============================================================================
