---------------------------- MODULE EspAtController ----------------------------
(***************************************************************************)
(* The cloud branch of bl_main: the controller of the ESP-AT modem         *)
(* (tm4c_uart_esp32_bridge/esp_at_controller.c), the stream of an HTTP     *)
(* body (esp_at_http.c) and the client that feeds the update engine        *)
(* (CloudOta.tla).  An iteration of the loop is two steps: Top polls the   *)
(* session and receives at most one thing from the modem, Bottom ticks the *)
(* controller and then resets, jumps or goes on.                           *)
(*                                                                         *)
(* The modem is external.  On an "any" network it may send anything at any *)
(* time, which takes in answers that are late, lost, repeated or those of  *)
(* an earlier command; a "good" one sends what the controller waits for.   *)
(* A line counts when its last byte comes, a body cell by cell.            *)
(***************************************************************************)
EXTENDS CloudOta, Sequences

CONSTANTS
    Packages,       \* what the server may have to offer
    Sizes,          \* what a +HTTPGETSIZE line may report
    MaxRetries      \* OTA_MAX_RETRIES

ASSUME ControllerAssumption ==
    Packages \subseteq Package /\ Sizes \subseteq Nat /\ MaxRetries \in Nat \ {0}

VARIABLES
    ctl,        \* esp_at_controller_t
    stream,     \* esp_at_http_stream_t: body_mode and remaining
    timer,      \* the time since state_started_ms: "due", or which of two starts it has
    cloud,      \* cloud_ota_t
    engine,     \* bl_update_t
    phase,      \* the half of the loop that is next
    expired,    \* the update window is over
    pc,         \* the bootloader's "loop", its "jump" or "reset", or the "app"
    starts,     \* STARTs the engine has accepted (a history variable)
    env         \* the network, the package and whether a slot is bootable

vars == <<ctl, stream, timer, cloud, engine, phase, expired, pc, starts, env>>

(* The states that send one command each, in order. *)
Setup == <<"SYNC", "ECHO_OFF", "SYSLOG", "WIFI_MODE", "WIFI_JOIN", "MQTT_CLEAN",
           "MQTT_CONFIG", "MQTT_CONNECT", "MQTT_SUBSCRIBE", "MQTT_ANNOUNCE">>

SetupStates == {Setup[i] : i \in DOMAIN Setup}

Active == {"OTA_CLEAR_HEADER", "OTA_SIZE", "OTA_RANGE_HEADER", "OTA_DOWNLOAD"}

(* ota_error_pending only words a telemetry message and is left out. *)
Controller ==
    [state: SetupStates \cup Active \cup {"ONLINE", "RETRY"},
     sent: BOOLEAN, binary: BOOLEAN,
     telemetryPending: BOOLEAN, sizePending: BOOLEAN, bodyPending: BOOLEAN,
     stage: 0 .. 2, chunkDone: BOOLEAN, requested: BOOLEAN,
     retries: 0 .. MaxRetries, offset: Nat, chunk: Nat, remote: Nat]

Environment ==
    [network: {"good", "any"}, package: Packages, bootable: BOOLEAN]

EspTypeOK ==
    /\ ctl \in Controller
    /\ stream \in [body: BOOLEAN, left: Nat]
    /\ timer \in {"first", "second", "due"}
    /\ cloud \in Cloud /\ engine \in Engine
    /\ phase \in {"top", "bottom"} /\ expired \in BOOLEAN
    /\ pc \in {"loop", "jump", "reset", "app"}
    /\ starts \in Nat
    /\ env \in Environment

(* esp_at_controller_init *)
Fresh ==
    [state |-> "SYNC", sent |-> FALSE, binary |-> FALSE,
     telemetryPending |-> FALSE, sizePending |-> FALSE, bodyPending |-> FALSE,
     stage |-> 0, chunkDone |-> FALSE, requested |-> FALSE,
     retries |-> 0, offset |-> 0, chunk |-> 0, remote |-> 0]

(* The bootloader starts, and finds a request it takes up or none; or it   *)
(* is about to jump.                                                       *)
Init ==
    /\ \E requested \in BOOLEAN : ctl = [Fresh EXCEPT !.requested = requested]
    /\ stream = [body |-> FALSE, left |-> 0]
    /\ timer = "first"
    /\ cloud = ClearedCloud /\ engine = IdleEngine
    /\ phase = "top" /\ expired = FALSE /\ starts = 0
    /\ env \in Environment
    /\ pc \in {"loop", "jump"} /\ (pc = "jump" => env.bootable)

-----------------------------------------------------------------------------
(* Mutant: a retry is counted as activity. *)
OtaActiveInRetry == ctl.state \in Active \cup {"RETRY"}

(* esp_at_controller_ota_active *)
OtaActive == ctl.state \in Active

(* state_started_ms = now_ms.  The two starts tell a timer that was started *)
(* anew from one that went on.                                             *)
RestartTimer == timer' = IF timer = "first" THEN "second" ELSE "first"

(* Mutant: failures after the last retry count too. *)
EnterRetryUncapped(c, client, session) ==
    LET aborted == Abort(client, session) IN
    /\ ctl' = [c EXCEPT !.state = "RETRY", !.sent = FALSE, !.retries = @ + 1]
    /\ cloud' = aborted.cloud
    /\ engine' = aborted.engine
    /\ RestartTimer

(* enter_retry: http_binary and the pending flags stay.                    *)
EnterRetry(c, client, session) ==
    LET aborted == Abort(client, session) IN
    /\ ctl' = [c EXCEPT !.state = "RETRY", !.sent = FALSE,
                        !.retries = IF @ < MaxRetries THEN @ + 1 ELSE @]
    /\ cloud' = aborted.cloud
    /\ engine' = aborted.engine
    /\ RestartTimer

(* Mutant: a new attempt is as good as a success. *)
AdvanceForgetsRetries ==
    IF ctl.state # "MQTT_ANNOUNCE"
    THEN [ctl EXCEPT !.state = Setup[1 + CHOOSE i \in DOMAIN Setup : Setup[i] = @],
                     !.sent = TRUE]
    ELSE IF ctl.requested
    THEN [ctl EXCEPT !.state = "OTA_CLEAR_HEADER", !.sent = TRUE, !.retries = 0,
                     !.sizePending = FALSE, !.bodyPending = FALSE]
    ELSE [ctl EXCEPT !.state = "ONLINE", !.sent = FALSE, !.retries = 0]

(* advance_state: the next command of the setup is sent at once; after the *)
(* last, a requested update starts again from byte zero.                   *)
Advanced ==
    IF ctl.state # "MQTT_ANNOUNCE"
    THEN [ctl EXCEPT !.state = Setup[1 + CHOOSE i \in DOMAIN Setup : Setup[i] = @],
                     !.sent = TRUE]
    ELSE IF ctl.requested
    THEN [ctl EXCEPT !.state = "OTA_CLEAR_HEADER", !.sent = TRUE,
                     !.sizePending = FALSE, !.bodyPending = FALSE]
    ELSE [ctl EXCEPT !.state = "ONLINE", !.sent = FALSE, !.retries = 0]

Least(a, b) == IF a < b THEN a ELSE b

(* Mutant: the last request is as long as the others. *)
ChunkLengthUnclipped(offset, remote) ==
    IF offset = 0 THEN HeaderSize
    ELSE IF offset < HeaderPage THEN Least(ChunkSize, HeaderPage - offset)
    ELSE ChunkSize

(* The header structure alone, then chunks that do not cross the end of    *)
(* the header page.                                                        *)
ChunkLength(offset, remote) ==
    LET chunk == Least(IF offset = 0 THEN HeaderSize ELSE ChunkSize, remote - offset)
    IN  IF offset < HeaderPage THEN Least(chunk, HeaderPage - offset) ELSE chunk

(* start_range_request *)
RangeRequested(c) ==
    [c EXCEPT !.chunk = ChunkLength(c.offset, c.remote), !.stage = 0,
              !.chunkDone = FALSE, !.state = "OTA_RANGE_HEADER", !.sent = TRUE]

-----------------------------------------------------------------------------
(* Top.                                                                    *)

(* Mutant: the cloud's sessions do not time out. *)
PolledNever == engine

(* bl_update_poll, which runs when no download does.  Nothing notes the    *)
(* cloud's activity, so a session that is still open then is long silent.  *)
Polled ==
    IF engine.state = "RECEIVING" /\ ~OtaActive
    THEN [engine EXCEPT !.state = "IDLE"]
    ELSE engine

(* What a good network sends next. *)
Awaited ==
    IF ctl.state = "ONLINE" THEN "START_OTA"
    ELSE IF /\ ctl.state = "OTA_SIZE"
            /\ ~ctl.telemetryPending /\ ~ctl.sizePending /\ ~ctl.bodyPending THEN "SIZE"
    ELSE IF ctl.state = "OTA_RANGE_HEADER" /\ ctl.stage = 1 THEN "PROMPT"
    ELSE IF ctl.state # "OTA_DOWNLOAD" \/ ctl.chunkDone THEN "OK"
    ELSE IF ~ctl.binary THEN "PREFIX"
    ELSE IF ~stream.body THEN "FRAME"
    ELSE "CELL"

Good == env.network = "good"

Comes(what) == Good => Awaited = what

(* The result of a call into the client is one of its outcomes.  On a good *)
(* network the flash does not fail either.                                 *)
Results(outcomes) ==
    IF Good /\ \E o \in outcomes : o.ok THEN {o \in outcomes : o.ok} ELSE outcomes

(* Bytes that have no effect: none, other lines, lines in a state that     *)
(* does not heed them, requests for information or the active version.     *)
Nothing ==
    /\ Good => ~ctl.sent /\ ctl.state # "ONLINE"
    /\ engine' = Polled
    /\ UNCHANGED <<ctl, stream, timer, cloud>>

(* The prompt for the Range header. *)
Prompt ==
    /\ Comes("PROMPT")
    /\ ctl.state = "OTA_RANGE_HEADER" /\ ctl.stage = 1
    /\ ctl' = [ctl EXCEPT !.stage = 2]
    /\ RestartTimer
    /\ engine' = Polled
    /\ UNCHANGED <<stream, cloud>>

(* "+HTTPCGET:", the start of a body.  A second one after the body fails.  *)
BodyPrefix ==
    /\ Comes("PREFIX")
    /\ ~ctl.binary /\ ctl.state = "OTA_DOWNLOAD"
    /\ \/ /\ ~stream.body
          /\ ctl' = [ctl EXCEPT !.binary = TRUE]
          /\ engine' = Polled
          /\ UNCHANGED <<timer, cloud>>
       \/ /\ stream.body
          /\ EnterRetry(ctl, cloud, Polled)
    /\ UNCHANGED stream

(* The frame ends, and announces the length of the range asked for or not. *)
BodyFrame(exact) ==
    /\ Comes("FRAME") /\ (Good => exact)
    /\ ctl.binary /\ ~stream.body
    /\ \/ /\ exact
          /\ stream' = [body |-> TRUE, left |-> ctl.chunk]
          /\ engine' = Polled
          /\ UNCHANGED <<ctl, timer, cloud>>
       \/ /\ ~exact
          /\ EnterRetry([ctl EXCEPT !.binary = FALSE], cloud, Polled)
          /\ UNCHANGED stream

(* A byte of the body, which the client may refuse. *)
BodyCell(right) ==
    /\ Comes("CELL") /\ (Good => right)
    /\ ctl.binary /\ stream.body
    /\ \E o \in Results(Write(cloud, Polled, env.package, right)) :
          IF ~o.ok
          THEN /\ EnterRetry([ctl EXCEPT !.binary = FALSE], o.cloud, o.engine)
               /\ UNCHANGED stream
          ELSE /\ cloud' = o.cloud /\ engine' = o.engine
               /\ stream' = [stream EXCEPT !.left = @ - 1]
               /\ IF stream.left = 1
                  THEN /\ ctl' = [ctl EXCEPT !.binary = FALSE, !.chunkDone = TRUE]
                       /\ RestartTimer
                  ELSE UNCHANGED <<ctl, timer>>

(* Mutant: the offset of the last attempt is kept. *)
SizeAcceptedOffsetKept(n) == [ctl EXCEPT !.remote = n, !.bodyPending = TRUE]

SizeAccepted(n) == [ctl EXCEPT !.remote = n, !.offset = 0, !.bodyPending = TRUE]

(* +HTTPGETSIZE, with 0 for a size that does not parse. *)
SizeReported(n) ==
    /\ Comes("SIZE") /\ (Good => n = env.package.size)
    /\ ~ctl.binary /\ ctl.state = "OTA_SIZE"
    /\ UNCHANGED stream
    /\ \/ /\ n > 0 /\ Begin(n).attached
          /\ cloud' = Begin(n)
          /\ ctl' = SizeAccepted(n)
          /\ engine' = Polled
          /\ UNCHANGED timer
       \/ /\ n > 0 /\ ~Begin(n).attached
          /\ EnterRetry(ctl, Begin(n), Polled)
       \/ /\ n = 0
          /\ EnterRetry(ctl, cloud, Polled)

(* handle_rpc for START_OTA of a version that is not the active one. *)
StartOta ==
    /\ Comes("START_OTA")
    /\ ~ctl.binary /\ ctl.state = "ONLINE"
    /\ ctl' = [ctl EXCEPT !.state = "OTA_SIZE", !.sent = TRUE, !.sizePending = TRUE,
                          !.telemetryPending = TRUE, !.requested = TRUE]
    /\ RestartTimer
    /\ engine' = Polled
    /\ UNCHANGED <<stream, cloud>>

(* ERROR, which only MQTTCLEAN may answer; DISCONNECTED when online; and a *)
(* line that is too long.                                                  *)
Trouble ==
    /\ ~Good
    /\ ~ctl.binary
    /\ \/ EnterRetry(ctl, cloud, Polled)
       \/ /\ ctl.state = "MQTT_CLEAN" /\ ctl.sent
          /\ ctl' = Advanced
          /\ RestartTimer
          /\ engine' = Polled
          /\ UNCHANGED cloud
    /\ UNCHANGED stream

Heeds == Comes("OK") /\ ~ctl.binary /\ ctl.sent

(* OK in the setup. *)
SetupOk ==
    /\ Heeds
    /\ ctl.state \in SetupStates
    /\ ctl' = Advanced
    /\ RestartTimer
    /\ engine' = Polled
    /\ UNCHANGED <<stream, cloud>>

(* OK in OTA_SIZE and OTA_CLEAR_HEADER: of the response, of the telemetry, *)
(* of the header that is cleared, and of the size.                         *)
SizeOk ==
    /\ Heeds
    /\ \/ /\ ctl.state = "OTA_SIZE" /\ ctl.telemetryPending
          /\ ctl' = [ctl EXCEPT !.telemetryPending = FALSE]
          /\ UNCHANGED timer
       \/ /\ ctl.state = "OTA_SIZE" /\ ~ctl.telemetryPending /\ ctl.sizePending
          /\ ctl' = [ctl EXCEPT !.sizePending = FALSE, !.state = "OTA_CLEAR_HEADER"]
          /\ RestartTimer
       \/ /\ ctl.state = "OTA_CLEAR_HEADER"
          /\ ctl' = [ctl EXCEPT !.state = "OTA_SIZE"]
          /\ RestartTimer
       \/ /\ ctl.state = "OTA_SIZE" /\ ~ctl.telemetryPending /\ ~ctl.sizePending
          /\ ctl.bodyPending
          /\ ctl' = RangeRequested([ctl EXCEPT !.bodyPending = FALSE])
          /\ RestartTimer
    /\ engine' = Polled
    /\ UNCHANGED <<stream, cloud>>

(* OK in OTA_RANGE_HEADER: of the command, then, after the prompt, of the  *)
(* header; an OK in between fails.                                         *)
RangeOk ==
    /\ Heeds
    /\ ctl.state = "OTA_RANGE_HEADER"
    /\ \/ /\ ctl.stage = 0
          /\ ctl' = [ctl EXCEPT !.stage = 1]
          /\ engine' = Polled
          /\ UNCHANGED <<stream, timer, cloud>>
       \/ /\ ctl.stage = 1
          /\ EnterRetry(ctl, cloud, Polled)
          /\ UNCHANGED stream
       \/ /\ ctl.stage = 2
          /\ stream' = [body |-> FALSE, left |-> 0]
          /\ ctl' = [ctl EXCEPT !.state = "OTA_DOWNLOAD"]
          /\ RestartTimer
          /\ engine' = Polled
          /\ UNCHANGED cloud

(* OK after a whole body: the next range, or the end of the package. *)
DownloadOk ==
    LET next == [ctl EXCEPT !.offset = @ + ctl.chunk] IN
    /\ Heeds
    /\ ctl.state = "OTA_DOWNLOAD" /\ ctl.chunkDone
    /\ UNCHANGED stream
    /\ \/ /\ next.offset < ctl.remote
          /\ ctl' = RangeRequested(next)
          /\ RestartTimer
          /\ engine' = Polled
          /\ UNCHANGED cloud
       \/ /\ next.offset >= ctl.remote
          /\ \E o \in Results(Finish(cloud, Polled, env.package)) :
                IF ~o.ok THEN EnterRetry(next, o.cloud, o.engine)
                ELSE /\ cloud' = o.cloud /\ engine' = o.engine
                     /\ ctl' = [next EXCEPT !.requested = FALSE, !.state = "ONLINE",
                                            !.sent = FALSE]
                     /\ UNCHANGED timer

(* esp_at_controller_receive *)
Receive ==
    \/ Nothing \/ Prompt \/ BodyPrefix \/ StartOta \/ Trouble
    \/ \E exact \in BOOLEAN : BodyFrame(exact)
    \/ \E right \in BOOLEAN : BodyCell(right)
    \/ \E n \in Sizes : SizeReported(n)
    \/ SetupOk \/ SizeOk \/ RangeOk \/ DownloadOk

Top ==
    /\ pc = "loop" /\ phase = "top"
    /\ Receive
    /\ starts' = IF Polled.state = "IDLE" /\ engine'.state = "RECEIVING"
                 THEN starts + 1 ELSE starts
    /\ phase' = "bottom"
    /\ UNCHANGED <<expired, pc, env>>

-----------------------------------------------------------------------------
(* Bottom.                                                                 *)

(* The first command is sent at the start, and after the delay of a retry  *)
(* unless the retries are used up.                                         *)
SyncDue ==
    \/ ctl.state = "SYNC" /\ ~ctl.sent
    \/ ctl.state = "RETRY" /\ ctl.retries < MaxRetries /\ timer = "due"

Overdue == ctl.state # "ONLINE" /\ ctl.sent /\ timer = "due"

(* esp_at_controller_tick *)
Tick ==
    \/ /\ SyncDue
       /\ ctl' = [ctl EXCEPT !.state = "SYNC", !.sent = TRUE]
       /\ RestartTimer
       /\ UNCHANGED <<cloud, engine>>
    \/ /\ Overdue
       /\ EnterRetry(ctl, cloud, engine)
    \/ /\ ~SyncDue /\ ~Overdue
       /\ UNCHANGED <<ctl, timer, cloud, engine>>

(* The tail of the loop. *)
Bottom ==
    LET leave == engine'.state = "IDLE" /\ ctl'.state \notin Active /\ expired IN
    /\ pc = "loop" /\ phase = "bottom"
    /\ Tick
    /\ pc' = IF engine'.state = "READY_TO_BOOT" THEN "reset"
             ELSE IF leave /\ env.bootable THEN "jump" ELSE "loop"
    /\ expired' = (expired /\ ~leave)
    /\ phase' = "top"
    /\ UNCHANGED <<stream, starts, env>>

-----------------------------------------------------------------------------
(* Time.  Each iteration reads the clock once, at its top, and time that   *)
(* passes between Top and Bottom stands for time that passed after them    *)
(* both and an iteration that received nothing.  (The application's loop   *)
(* of AppHandoff.tla has the same timer.)                                  *)

Elapse(start) ==
    /\ pc \in {"loop", "app"} /\ timer = start
    /\ ctl.state # "ONLINE"
    /\ Good => ctl.state = "RETRY"
    /\ timer' = "due"
    /\ UNCHANGED <<ctl, stream, cloud, engine, phase, expired, pc, starts, env>>

(* A minute after start-up, or after the last such minute when there is no *)
(* image to jump to.  On a good network the modem is online by then.       *)
Expire ==
    /\ pc = "loop" /\ ~expired
    /\ Good => OtaActive \/ ctl.state = "RETRY"
    /\ expired' = TRUE
    /\ UNCHANGED <<ctl, stream, timer, cloud, engine, phase, pc, starts, env>>

Next == Top \/ Bottom \/ (\E start \in {"first", "second"} : Elapse(start)) \/ Expire

Spec == Init /\ [][Next]_vars

=============================================================================
