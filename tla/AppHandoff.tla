------------------------------ MODULE AppHandoff ------------------------------
(***************************************************************************)
(* The application next to the cloud bootloader of EspAtController.tla:    *)
(* its loop (application/src/app_main.c) runs the same controller, without *)
(* an update engine, and hands a START_OTA over to the bootloader          *)
(* (app_ota_handoff.c) in a mailbox that survives a reset                  *)
(* (common/src/ota_request.c).                                             *)
(***************************************************************************)
EXTENDS EspAtController

VARIABLES
    mailbox,    \* the request: none, for the active version or for another one
    handoff     \* none, accepted, or accepted and the reply is out and half a second over

handoffVars == <<mailbox, handoff>>
deviceVars == <<vars, handoffVars>>

HandoffTypeOK ==
    /\ EspTypeOK
    /\ mailbox \in {"none", "active", "other"}
    /\ handoff \in {"none", "accepted", "due"}

DeviceInit == Init /\ mailbox = "none" /\ handoff = "none"

-----------------------------------------------------------------------------
(* Mutant: the mailbox is left as it was read. *)
ConsumedKept(request) == mailbox' = request

(* ota_request_consume *)
Consumed(request) == mailbox' = "none"

(* bl_main from its start to its loop, where the mailbox holds the         *)
(* request: esp_at_controller_request_ota refuses the active version.      *)
StartsUp(request) ==
    /\ Consumed(request)
    /\ handoff' = "none"
    /\ ctl' = [Fresh EXCEPT !.requested = (request = "other")]
    /\ stream' = [body |-> FALSE, left |-> 0]
    /\ timer' = "first"
    /\ cloud' = ClearedCloud /\ engine' = IdleEngine
    /\ phase' = "top" /\ expired' = FALSE /\ pc' = "loop" /\ starts' = 0
    /\ UNCHANGED env

(* The application starts, with a controller and a hand-off of its own. *)
AppStarts ==
    /\ pc = "jump"
    /\ pc' = "app" /\ phase' = "top"
    /\ ctl' = Fresh /\ timer' = "first"
    /\ cloud' = ClearedCloud /\ engine' = IdleEngine
    /\ stream' = [body |-> FALSE, left |-> 0]
    /\ UNCHANGED <<expired, starts, env, handoffVars>>

(* Mutant: the request is noted, and stored by whoever resets. *)
AppAcceptUnstored(version) ==
    /\ Comes("START_OTA")
    /\ ctl.state = "ONLINE" /\ handoff = "none"
    /\ handoff' = "accepted"
    /\ UNCHANGED <<mailbox, ctl, stream, timer, cloud, engine>>

(* app_ota_handoff_accept for a version that is not the application's: the *)
(* active one is such a version while the application is on trial.  The    *)
(* controller stays online.                                                *)
AppAccept(version) ==
    /\ Comes("START_OTA") /\ (Good => version = "other")
    /\ ctl.state = "ONLINE" /\ handoff = "none"
    /\ mailbox' = version /\ handoff' = "accepted"
    /\ UNCHANGED <<ctl, stream, timer, cloud, engine>>

(* Bytes without effect, a second START_OTA and one for the application's  *)
(* own version among them.                                                 *)
AppNothing ==
    /\ Good => ~ctl.sent /\ (ctl.state = "ONLINE" => handoff # "none")
    /\ UNCHANGED <<ctl, stream, timer, cloud, engine, handoffVars>>

(* The receiving half of the application's loop. *)
AppTop ==
    /\ pc = "app" /\ phase = "top"
    /\ \/ (Trouble \/ SetupOk) /\ UNCHANGED handoffVars
       \/ \E version \in {"active", "other"} : AppAccept(version)
       \/ AppNothing
    /\ phase' = "bottom"
    /\ UNCHANGED <<expired, pc, starts, env>>

(* The other half, which resets when the hand-off is due. *)
AppBottom ==
    /\ pc = "app" /\ phase = "bottom"
    /\ \/ handoff = "due" /\ StartsUp(mailbox)
       \/ /\ handoff # "due"
          /\ Tick
          /\ phase' = "top"
          /\ UNCHANGED <<stream, expired, pc, starts, env, handoffVars>>

(* APP_OTA_RESET_DELAY_MS have passed and the UART is idle. *)
HandoffDue ==
    /\ pc = "app" /\ handoff = "accepted"
    /\ handoff' = "due"
    /\ UNCHANGED <<vars, mailbox>>

(* The reset pin or the supply.  A power cycle does not keep the mailbox.  *)
DeviceReset ==
    /\ pc \in {"loop", "app"}
    /\ \E request \in {mailbox, "none"} : StartsUp(request)

Runs ==
    \/ Next /\ UNCHANGED handoffVars
    \/ AppStarts \/ AppTop \/ AppBottom \/ HandoffDue

DeviceNext == Runs \/ DeviceReset

DeviceSpec == DeviceInit /\ [][DeviceNext]_deviceVars

(* The processor keeps looping, in the bootloader and in the application,  *)
(* and the clock goes on: a timer that is not started anew runs out.       *)
DeviceFairSpec ==
    /\ DeviceSpec
    /\ WF_deviceVars(Top /\ UNCHANGED handoffVars)
    /\ WF_deviceVars(Bottom /\ UNCHANGED handoffVars)
    /\ WF_deviceVars(Expire /\ UNCHANGED handoffVars)
    /\ \A start \in {"first", "second"} :
          WF_deviceVars(Elapse(start) /\ UNCHANGED handoffVars)
    /\ WF_deviceVars(AppStarts)
    /\ WF_deviceVars(AppTop) /\ WF_deviceVars(AppBottom) /\ WF_deviceVars(HandoffDue)

=============================================================================
