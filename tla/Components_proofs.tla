-------------------------- MODULE Components_proofs --------------------------
(***************************************************************************)
(* MCComponents has the components that share no state side by side. Each  *)
(* of them does there what it does by itself, so what is proved of it by   *)
(* itself holds there too.                                                 *)
(***************************************************************************)
EXTENDS MCComponents, ExecutionDispatch_proofs, Access_proofs, SearchIndex_proofs,
        ReminderScan_proofs, TLAPS

(***************************************************************************)
(* In a step of one component the others stutter.                          *)
(***************************************************************************)
THEOREM ComponentsRunAlone ==
  ComponentsSpec => /\ DispatchSafety /\ IdemSpec /\ InviteSpec /\ AccessSpec
                    /\ DeliverySpec /\ SearchSpec /\ ReminderSpec
<1>1. ComponentsInit => /\ DispatchInit /\ IdemInit /\ InviteInit /\ AccessInit
                        /\ DeliveryInit /\ SearchInit /\ ReminderInit
  BY DEF ComponentsInit
<1>2. [ComponentsNext]_componentsVars =>
        /\ [DispatchNext]_dispatchVars /\ [IdemNext]_idemVars /\ [InviteNext]_inviteVars
        /\ [AccessNext]_accessVars /\ [DeliveryNext]_deliveryVars /\ [SearchNext]_searchVars
        /\ [ReminderNext]_reminderVars
  BY DEF ComponentsNext, componentsVars
<1> QED
  BY <1>1, <1>2, PTL
     DEF ComponentsSpec, DispatchSafety, IdemSpec, InviteSpec, AccessSpec, DeliverySpec,
         SearchSpec, ReminderSpec

(***************************************************************************)
(* Processes, requests, accounts, sockets, topics, indexes and reminders   *)
(* keep their types and stay within their limits, whoever acts.            *)
(***************************************************************************)
THEOREM ComponentsTypeCorrect == ComponentsSpec => []ComponentsTypeOK
<1>1. IdemInv => IdemTypeOK
  BY DEF IdemInv
<1>2. InviteInv => InviteTypeOK
  BY DEF InviteInv
<1>3. AccessInv => AccessTypeOK
  BY DEF AccessInv, AccessRecords
<1>4. DispatchTypeOK /\ IdemTypeOK /\ InviteTypeOK /\ AccessTypeOK /\ DeliveryTypeOK
        /\ SearchTypeOK /\ ReminderTypeOK => ComponentsTypeOK
  BY DEF ComponentsTypeOK
<1> QED
  BY <1>1, <1>2, <1>3, <1>4, ComponentsRunAlone, DispatchTypeCorrect, IdemInvAlways,
     InviteInvAlways, AccessInvAlways, DeliveryTypeCorrect, SearchTypeCorrect,
     ReminderTypeCorrect, PTL
=============================================================================
