---------------------------- MODULE MCComponents ----------------------------
(***************************************************************************)
(* The components that share no state, checked side by side: one of them   *)
(* moves in each behaviour while the others stay in their initial states.  *)
(***************************************************************************)
EXTENDS ExecutionDispatch, Idempotency, MCInviteAccess, RealtimeAccess, TopicDelivery,
        SearchIndex, ReminderScan, TLC

VARIABLE focus

ComponentsInit ==
    /\ focus \in {"dispatch", "idempotency", "invite", "access", "delivery", "search",
                  "edited", "reminders", "mail"}
    /\ DispatchInit /\ IdemInit /\ InviteInit /\ AccessInit
    /\ DeliveryInit /\ SearchInit /\ ReminderInit
    \* a component that does not move has one initial state
    /\ focus # "dispatch" => \A p \in Procs : api[p] = Down("local")
    /\ focus # "idempotency" => route = "folded"
    /\ focus # "access" => access.admitted
    /\ reminders[LastReminder].active <=> focus = "reminders"

ComponentsNext ==
    /\ UNCHANGED focus
    /\ \/ /\ focus = "dispatch" /\ DispatchNext
          /\ UNCHANGED <<idemVars, inviteVars, accessVars, deliveryVars,
                         searchVars, reminderVars>>
       \/ /\ focus = "idempotency" /\ IdemNext
          /\ UNCHANGED <<dispatchVars, inviteVars, accessVars, deliveryVars,
                         searchVars, reminderVars>>
       \/ /\ focus = "invite" /\ InviteNext
          /\ UNCHANGED <<dispatchVars, idemVars, accessVars, deliveryVars,
                         searchVars, reminderVars>>
       \/ /\ focus = "access" /\ AccessNext
          /\ UNCHANGED <<dispatchVars, idemVars, inviteVars, deliveryVars,
                         searchVars, reminderVars>>
       \/ /\ focus = "delivery" /\ DeliveryNext
          /\ UNCHANGED <<dispatchVars, idemVars, inviteVars, accessVars,
                         searchVars, reminderVars>>
       \/ /\ focus = "search" /\ SearchNext
          /\ UNCHANGED <<dispatchVars, idemVars, inviteVars, accessVars,
                         deliveryVars, reminderVars>>
       \/ \* one reminder that the owner edits before he reads of it and whose mail is
          \* tried once, two that are left alone while the executor switches, or one for
          \* a minute longer
          /\ focus \in {"edited", "reminders", "mail"} /\ ReminderNext
          /\ \/ /\ focus = "edited" /\ minute' < MaxMinute
                /\ scanExecutor' = scanExecutor /\ ~CloseEntry
                /\ \A r \in Reminders : outbox'[r] # NoRow => outbox'[r].attempts <= 1
             \/ /\ focus = "reminders" /\ minute' < MaxMinute
                /\ <<prefs, edit, reachable>>' = <<prefs, edit, reachable>>
             \/ focus = "mail" /\ <<prefs, edit, scanExecutor>>' = <<prefs, edit, scanExecutor>>
          /\ UNCHANGED <<dispatchVars, idemVars, inviteVars, accessVars,
                         deliveryVars, searchVars>>

componentsVars ==
    <<focus, dispatchVars, idemVars, inviteVars, accessVars, deliveryVars,
      searchVars, reminderVars>>

ComponentsSpec == ComponentsInit /\ [][ComponentsNext]_componentsVars

\* The scanners' jobs are interchangeable.
ScannerSymmetry == Permutations(Scanners)

\* What tells two states apart: only one component moves.
Moving ==
    <<focus, CASE focus = "dispatch" -> dispatchVars
               [] focus = "idempotency" -> idemVars
               [] focus = "invite" -> inviteVars
               [] focus = "access" -> accessVars
               [] focus = "delivery" -> deliveryVars
               [] focus = "search" -> searchVars
               [] focus \in {"edited", "reminders", "mail"} -> reminderVars>>

ComponentsTypeOK ==
    /\ DispatchTypeOK /\ IdemTypeOK /\ InviteTypeOK /\ AccessTypeOK
    /\ DeliveryTypeOK /\ SearchTypeOK /\ ReminderTypeOK
=============================================================================
