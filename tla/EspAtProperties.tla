--------------------------- MODULE EspAtProperties ---------------------------
(* What the cloud branch of the bootloader promises, stated on the model of *)
(* EspAtController.tla and AppHandoff.tla.                                 *)
EXTENDS AppHandoff

(* A session the client has open stands where the client does: the next    *)
(* packet has the number the engine waits for, and every byte past the     *)
(* header page is in the engine or in the client's chunk.  So START and    *)
(* DATA of different attempts never mix (cloud_ota.c, bl_update.c).        *)
SessionFollowsClient ==
    engine.state = "RECEIVING" =>
        /\ cloud.started
        /\ cloud.sequence = engine.next
        /\ engine.got + cloud.chunk =
              IF cloud.got > HeaderPage THEN cloud.got - HeaderPage ELSE 0

(* The engine the client is modelled on is that of UpdateEngine.tla, which *)
(* bl_update.c is shown to be: whatever mixture of attempts, aborts and    *)
(* flash errors, no session begins in the middle or is ready too early.    *)
WhileOpen(x) == IF engine.state = "IDLE" THEN 0 ELSE x

SequenceNumbers == 65536    \* uint16_t

UpdateEngine == INSTANCE UpdateEngine WITH
    SeqMod <- SequenceNumbers,
    state <- engine.state,
    size <- WhileOpen(env.package.size - HeaderPage),
    got <- WhileOpen(engine.got),
    next <- WhileOpen(engine.next % SequenceNumbers)

DrivesUpdateEngine == UpdateEngine!EngineSpec

(* The range the controller asks for starts where the client stopped, in   *)
(* every attempt and however an earlier one ended: late bodies, late       *)
(* answers and repeated sizes never shift the one against the other.       *)
RangeFollowsClient ==
    LET done == IF ctl.chunkDone THEN ctl.chunk
                ELSE IF stream.body THEN ctl.chunk - stream.left ELSE 0
    IN  /\ ctl.state = "OTA_RANGE_HEADER" => cloud.got = ctl.offset
        /\ ctl.state = "OTA_DOWNLOAD" => cloud.got = ctl.offset + done

(* When the controller is past SYNC and before the download of an attempt, *)
(* nothing of an earlier one is left: no binary mode that would swallow    *)
(* the modem's answers, and no session, not even one that a body opened    *)
(* after its request had timed out (http_binary survives enter_retry).     *)
AttemptStartsClean ==
    ctl.state \notin {"SYNC", "RETRY", "OTA_RANGE_HEADER", "OTA_DOWNLOAD"} =>
        ~ctl.binary /\ engine.state # "RECEIVING"

(* PHASE3-CONTRACT: failures use finite retries, so the header of the      *)
(* inactive slot is erased at most OTA_MAX_RETRIES times after a reset.    *)
StartsBounded == starts <= MaxRetries

(* A start-up takes up a request only right after an application that had  *)
(* accepted it: a reset in the middle of the download does not take it up  *)
(* again.  An application that resets itself has left a request behind,    *)
(* which is taken up unless it is for the active version (ota_request.c,   *)
(* app_ota_handoff.c).                                                     *)
HandsOver == AppBottom /\ pc' = "loop"

RequestHandedOver ==
    [][/\ HandsOver => mailbox # "none" /\ ctl'.requested = (mailbox = "other")
       /\ DeviceReset /\ ctl'.requested => handoff # "none"]_deviceVars

ResetsEnd == <>[][~DeviceReset]_deviceVars

(* PHASE3-CONTRACT, boot flow: no network operation prevents the boot of   *)
(* an application for ever, whatever the modem and the server send, and    *)
(* whatever request the application left.                                  *)
LeavesBootloader == env.bootable /\ ResetsEnd => []<>(pc # "loop")

WholePackage ==
    env.package.header /\ env.package.slot /\ env.package.image
        /\ Begin(env.package.size).attached

(* On a good network a whole package is installed, whatever its size and   *)
(* whether the bootloader or the application is asked for it: the request  *)
(* is handed over, the ranges asked for cover the package exactly, and     *)
(* neither the window's end nor the loop's poll gets in the way.           *)
GoodNetworkUpdates ==
    env.network = "good" /\ WholePackage /\ ResetsEnd => <>(pc = "reset")

=============================================================================
