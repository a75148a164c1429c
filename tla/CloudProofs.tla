------------------------------ MODULE CloudProofs ------------------------------
(***************************************************************************)
(* Proofs about the cloud branch, for packages, pages, chunks and retries  *)
(* of any number and size, and for a modem that may send anything.         *)
(***************************************************************************)
EXTENDS EspAtProperties, TLAPS

(* A client's cells, as its counters tell them. *)
ClientData(client) ==
    /\ client.attached => client.size > HeaderPage
    /\ client.got <= HeaderPage => client.chunk = 0

(* SessionFollowsClient of a client and a session, and that the client can *)
(* abort the session.                                                      *)
ClientSession(client, session) ==
    session.state = "RECEIVING" =>
        /\ client.attached /\ client.started /\ client.got >= HeaderSize
        /\ client.sequence = session.next
        /\ session.got + client.chunk =
              IF client.got > HeaderPage THEN client.got - HeaderPage ELSE 0

Abortable(client, session) ==
    session.state = "RECEIVING" => client.attached /\ client.started

(* What the engine makes of a command: nothing, a session from nothing,    *)
(* more bytes, or the end of a complete session.                           *)
Opens(after, pkg) ==
    after.state = "RECEIVING" /\ after.got = 0 /\ pkg.size > HeaderPage

Counted(before, after) == after.got > before.got /\ after.next = before.next + 1

Accepts(before, after) ==
    before.state = "RECEIVING" /\ after.state = "RECEIVING" /\ Counted(before, after)

Finishes(before, after, pkg) ==
    /\ before.state = "RECEIVING" /\ after.state = "READY_TO_BOOT"
    /\ Counted(before, after) \/ (after.got = before.got /\ after.next = before.next)
    /\ after.got = pkg.size - HeaderPage

-----------------------------------------------------------------------------
(* The client.                                                             *)

(* Sending a packet counts it, and nothing else. *)
LEMMA SubmittedClient ==
    ASSUME NEW client \in Cloud
    PROVE  /\ Submitted(client) \in Cloud
           /\ Submitted(client).attached = client.attached
           /\ Submitted(client).size = client.size
           /\ Submitted(client).got = client.got /\ Submitted(client).chunk = client.chunk
           /\ Submitted(client).started = client.started
           /\ Submitted(client).sequence = client.sequence + 1
  <1>1. client.sequence + 1 \in Nat
    BY DEF Cloud
  <1> QED
    BY <1>1 DEF Submitted, Cloud

(* An outcome is the record of its parts. *)
USE DEF Outcome

(* flush_chunk *)
LEMMA FlushOutcome ==
    ASSUME NEW client \in Cloud, NEW session \in Engine, NEW pkg \in Package,
           ClientData(client), ClientSession(client, session),
           NEW o \in FlushChunk(client, session, pkg)
    PROVE  /\ o.cloud \in Cloud /\ o.engine \in Engine /\ o.ok \in BOOLEAN
           /\ ClientData(o.cloud) /\ Abortable(o.cloud, o.engine)
           /\ o.cloud.got = client.got
           /\ o.ok => ClientSession(o.cloud, o.engine)
           /\ o.engine = session \/ (o.ok /\ Accepts(session, o.engine))
  <1>1. CASE o = Outcome(client, session, TRUE)
    BY <1>1 DEF ClientSession, Abortable
  <1>2. CASE o = Outcome(Submitted(client), session, FALSE)
    BY <1>2, SubmittedClient DEF ClientData, ClientSession, Abortable
  <1>3. ASSUME client.chunk # 0, DataInOrder(client, session, pkg),
               o = Outcome([Submitted(client) EXCEPT !.chunk = 0],
                           [session EXCEPT !.got = @ + client.chunk,
                                           !.right = @ /\ client.right,
                                           !.next = @ + 1],
                           TRUE)
        PROVE  /\ o.cloud \in Cloud /\ o.engine \in Engine /\ o.ok \in BOOLEAN
               /\ ClientData(o.cloud) /\ Abortable(o.cloud, o.engine)
               /\ o.cloud.got = client.got
               /\ o.ok => ClientSession(o.cloud, o.engine)
               /\ o.engine = session \/ (o.ok /\ Accepts(session, o.engine))
    <2> DEFINE sent == Submitted(client)
    <2>0. /\ sent \in Cloud
          /\ sent.attached = client.attached /\ sent.size = client.size
          /\ sent.got = client.got /\ sent.started = client.started
          /\ sent.sequence = client.sequence + 1
      BY SubmittedClient
    <2>a. o.cloud = [sent EXCEPT !.chunk = 0]
      BY <1>3
    <2> HIDE DEF sent
    <2>1. /\ o.cloud \in Cloud
          /\ o.cloud.attached = client.attached /\ o.cloud.size = client.size
          /\ o.cloud.got = client.got /\ o.cloud.chunk = 0
          /\ o.cloud.started = client.started /\ o.cloud.sequence = client.sequence + 1
      BY <2>0, <2>a DEF Cloud
    <2>2. (session.right /\ client.right) \in BOOLEAN
      BY DEF Engine, Cloud
    <2>3. /\ session.got + client.chunk \in Nat /\ session.next + 1 \in Nat
          /\ client.chunk > 0 /\ session.state = "RECEIVING"
      BY <1>3 DEF Engine, Cloud, DataInOrder
    <2>4. /\ o.engine \in Engine
          /\ o.engine.state = "RECEIVING" /\ o.engine.got = session.got + client.chunk
          /\ o.engine.next = session.next + 1
      BY <1>3, <2>2, <2>3 DEF Engine
    <2>5. Accepts(session, o.engine)
      BY <2>3, <2>4 DEF Accepts, Counted, Engine, Cloud
    <2>6. o.ok
      BY <1>3
    <2> QED
      BY <2>1, <2>3, <2>4, <2>5, <2>6 DEF ClientData, ClientSession, Abortable, Engine, Cloud
  <1> QED
    BY <1>1, <1>2, <1>3 DEF FlushChunk

(* start_from_header *)
LEMMA StartOutcome ==
    ASSUME NEW client \in Cloud, NEW session \in Engine, NEW pkg \in Package,
           ClientData(client), Abortable(client, session),
           client.attached, client.got = HeaderSize,
           NEW o \in StartFromHeader(client, session, pkg)
    PROVE  /\ o.cloud \in Cloud /\ o.engine \in Engine /\ o.ok \in BOOLEAN
           /\ ClientData(o.cloud) /\ Abortable(o.cloud, o.engine)
           /\ o.cloud.got = client.got
           /\ o.ok => ClientSession(o.cloud, o.engine)
           /\ o.engine = session \/ (o.ok /\ Opens(o.engine, pkg))
  <1>1. CASE o = Outcome(client, session, FALSE)
    BY <1>1
  <1>2. CASE o = Outcome(Submitted(client), session, FALSE)
    BY <1>2, SubmittedClient DEF ClientData, Abortable
  <1>3. CASE /\ o = Outcome([Submitted(client) EXCEPT !.started = TRUE],
                            [state |-> "RECEIVING", got |-> 0, right |-> TRUE,
                             next |-> client.sequence + 1], TRUE)
             /\ client.size = pkg.size
    <2> DEFINE sent == Submitted(client)
    <2>0. /\ sent \in Cloud
          /\ sent.attached = client.attached /\ sent.size = client.size
          /\ sent.got = client.got /\ sent.chunk = client.chunk
          /\ sent.sequence = client.sequence + 1
      BY SubmittedClient
    <2>a. o.cloud = [sent EXCEPT !.started = TRUE]
      BY <1>3
    <2> HIDE DEF sent
    <2>1. /\ o.cloud \in Cloud
          /\ o.cloud.attached = client.attached /\ o.cloud.size = client.size
          /\ o.cloud.got = client.got /\ o.cloud.chunk = client.chunk
          /\ o.cloud.started = TRUE /\ o.cloud.sequence = client.sequence + 1
      BY <2>0, <2>a DEF Cloud
    <2>2. client.sequence + 1 \in Nat
      BY DEF Cloud
    <2>3. /\ o.engine \in Engine
          /\ o.engine.state = "RECEIVING" /\ o.engine.got = 0
          /\ o.engine.next = client.sequence + 1
      BY <1>3, <2>2 DEF Engine
    <2>4. HeaderSize \in Nat /\ HeaderPage \in Nat /\ HeaderSize <= HeaderPage
      BY CloudOtaAssumption
    <2>5. client.chunk = 0 /\ client.size > HeaderPage
      BY <2>4 DEF ClientData
    <2>6. Opens(o.engine, pkg)
      BY <1>3, <2>3, <2>5 DEF Opens
    <2>7. o.ok
      BY <1>3
    <2> QED
      BY <2>1, <2>3, <2>4, <2>5, <2>6, <2>7 DEF ClientData, ClientSession, Abortable
  <1> QED
    BY <1>1, <1>2, <1>3 DEF StartFromHeader, SubmitStart

(* cloud_ota_write *)
LEMMA WriteOutcome ==
    ASSUME NEW client \in Cloud, NEW session \in Engine, NEW pkg \in Package,
           NEW right \in BOOLEAN,
           ClientData(client), ClientSession(client, session),
           NEW o \in Write(client, session, pkg, right)
    PROVE  /\ o.cloud \in Cloud /\ o.engine \in Engine /\ o.ok \in BOOLEAN
           /\ ClientData(o.cloud) /\ Abortable(o.cloud, o.engine)
           /\ o.ok => (ClientSession(o.cloud, o.engine) /\ o.cloud.got = client.got + 1)
           /\ \/ o.engine = session
              \/ o.ok /\ Accepts(session, o.engine)
              \/ /\ o.ok /\ Opens(o.engine, pkg)
                 /\ client.got < HeaderSize /\ o.cloud.got >= HeaderSize
  <1>0. HeaderSize \in Nat /\ HeaderPage \in Nat /\ HeaderSize <= HeaderPage
    BY CloudOtaAssumption
  <1> DEFINE read == [client EXCEPT !.got = @ + 1]
             head == [read EXCEPT !.right = @ /\ right]
             full == [read EXCEPT !.right = @ /\ right, !.chunk = @ + 1]
  <1>1. CASE o = Outcome(client, session, FALSE)
    BY <1>1 DEF ClientSession, Abortable
  <1>2. CASE client.attached /\ client.got < HeaderSize
    <2>1. (client.right /\ right) \in BOOLEAN /\ client.got + 1 \in Nat
      BY DEF Cloud
    <2>2. /\ head \in Cloud /\ head.got = client.got + 1 /\ head.attached
          /\ head.chunk = client.chunk /\ head.size = client.size
          /\ head.started = client.started
      BY <1>2, <2>1 DEF Cloud
    <2>3. session.state # "RECEIVING"
      BY <1>0, <1>2 DEF ClientSession, Cloud
    <2>4. ClientData(head) /\ ClientSession(head, session) /\ Abortable(head, session)
      BY <1>0, <1>2, <2>2, <2>3 DEF ClientData, ClientSession, Abortable, Cloud
    <2>5. o \in Write(client, session, pkg, right) /\ client.got # client.size
      BY <1>0, <1>2 DEF ClientData, Cloud
    <2> HIDE DEF head
    <2>6. CASE head.got = HeaderSize
      <3>1. o \in StartFromHeader(head, session, pkg) \/ o = Outcome(client, session, FALSE)
        BY <1>2, <2>6 DEF Write, head
      <3>2. CASE o \in StartFromHeader(head, session, pkg)
        <4>1. /\ o.cloud \in Cloud /\ o.engine \in Engine /\ o.ok \in BOOLEAN
              /\ ClientData(o.cloud) /\ Abortable(o.cloud, o.engine)
              /\ o.cloud.got = head.got
              /\ o.ok => ClientSession(o.cloud, o.engine)
              /\ o.engine = session \/ (o.ok /\ Opens(o.engine, pkg))
          BY <2>2, <2>4, <2>6, <3>2, StartOutcome
        <4> QED
          BY <1>0, <1>2, <2>2, <2>6, <4>1
      <3> QED
        BY <1>1, <3>1, <3>2
    <2>7. CASE head.got # HeaderSize
      <3>1. o = Outcome(head, session, TRUE) \/ o = Outcome(client, session, FALSE)
        BY <1>2, <2>7 DEF Write, head
      <3>2. CASE o = Outcome(head, session, TRUE)
        BY <2>2, <2>4, <3>2
      <3> QED
        BY <1>1, <3>1, <3>2
    <2> QED
      BY <2>6, <2>7
  <1>3. CASE o = Outcome(read, session, TRUE) /\ client.got >= HeaderSize
             /\ client.got < HeaderPage
    <2>1. /\ read \in Cloud /\ read.got = client.got + 1 /\ read.attached = client.attached
          /\ read.chunk = client.chunk /\ read.size = client.size
          /\ read.started = client.started /\ read.sequence = client.sequence
      BY DEF Cloud
    <2>2. client.chunk = 0 /\ client.got + 1 <= HeaderPage
      BY <1>0, <1>3 DEF ClientData, Cloud
    <2>3. ClientData(read)
      BY <1>0, <2>1, <2>2 DEF ClientData
    <2>4. ClientSession(read, session)
      BY <1>0, <1>3, <2>1, <2>2 DEF ClientSession, Cloud, Engine
    <2> QED
      BY <1>3, <2>1, <2>3, <2>4 DEF ClientSession, Abortable
  <1>4. CASE client.attached /\ client.got >= HeaderPage
             /\ (o \in FlushChunk(full, session, pkg) \/ o = Outcome(full, session, TRUE))
    <2>1. (client.right /\ right) \in BOOLEAN /\ client.got + 1 \in Nat /\ client.chunk + 1 \in Nat
      BY DEF Cloud
    <2>2. /\ full \in Cloud /\ full.got = client.got + 1 /\ full.attached
          /\ full.chunk = client.chunk + 1 /\ full.size = client.size
          /\ full.started = client.started /\ full.sequence = client.sequence
      BY <1>4, <2>1 DEF Cloud
    <2> HIDE DEF full
    <2>3. ClientData(full)
      BY <1>0, <1>4, <2>2 DEF ClientData, Cloud
    <2>4. ClientSession(full, session)
      <3> SUFFICES ASSUME session.state = "RECEIVING"
                   PROVE  ClientSession(full, session)
        BY DEF ClientSession
      <3>1. session.got + client.chunk = client.got - HeaderPage
        BY <1>0, <1>4 DEF ClientSession, ClientData, Cloud, Engine
      <3> QED
        BY <1>0, <1>4, <2>2, <3>1 DEF ClientSession, Cloud, Engine
    <2>5. CASE o \in FlushChunk(full, session, pkg)
      BY <2>2, <2>3, <2>4, <2>5, FlushOutcome
    <2>6. CASE o = Outcome(full, session, TRUE)
      BY <2>2, <2>3, <2>4, <2>6 DEF ClientSession, Abortable
    <2> QED
      BY <1>4, <2>5, <2>6
  <1> QED
    <2>1. client.got \in Nat
      BY DEF Cloud
    <2>2. CASE ~client.attached \/ client.got >= client.size
      BY <1>1, <2>2 DEF Write
    <2>3. CASE client.attached /\ ~(client.got >= client.size) /\ ~(client.got < HeaderSize)
               /\ client.got < HeaderPage
      <3>1. o = Outcome(read, session, TRUE)
        BY <2>3 DEF Write
      <3> QED
        BY <1>0, <1>3, <2>1, <2>3, <3>1
    <2>4. CASE client.attached /\ ~(client.got >= client.size) /\ ~(client.got < HeaderSize)
               /\ ~(client.got < HeaderPage)
      <3>1. o \in FlushChunk(full, session, pkg) \/ o = Outcome(full, session, TRUE)
        BY <2>4 DEF Write
      <3> QED
        BY <1>0, <1>4, <2>1, <2>4, <3>1
    <2> QED
      BY <1>2, <2>2, <2>3, <2>4

(* cloud_ota_finish *)
LEMMA FinishOutcome ==
    ASSUME NEW client \in Cloud, NEW session \in Engine, NEW pkg \in Package,
           ClientData(client), ClientSession(client, session),
           NEW o \in Finish(client, session, pkg)
    PROVE  /\ o.cloud \in Cloud /\ o.engine \in Engine /\ o.ok \in BOOLEAN
           /\ ClientData(o.cloud) /\ Abortable(o.cloud, o.engine)
           /\ o.ok => o.engine.state = "READY_TO_BOOT"
           /\ \/ o.engine = session
              \/ Accepts(session, o.engine)
              \/ Finishes(session, o.engine, pkg)
  <1>1. CASE o = Outcome(client, session, FALSE)
    BY <1>1 DEF ClientSession, Abortable
  <1>2. ASSUME NEW f \in FlushChunk(client, session, pkg), ~f.ok, o = f
        PROVE  /\ o.cloud \in Cloud /\ o.engine \in Engine /\ o.ok \in BOOLEAN
               /\ ClientData(o.cloud) /\ Abortable(o.cloud, o.engine)
               /\ ~o.ok
               /\ o.engine = session \/ Accepts(session, o.engine)
    BY <1>2, FlushOutcome
  <1>3. ASSUME NEW f \in FlushChunk(client, session, pkg), f.ok,
               o \in SubmitEnd(f.cloud, f.engine, pkg)
        PROVE  /\ o.cloud \in Cloud /\ o.engine \in Engine /\ o.ok \in BOOLEAN
               /\ ClientData(o.cloud) /\ Abortable(o.cloud, o.engine)
               /\ o.ok => o.engine.state = "READY_TO_BOOT"
               /\ \/ o.engine = session
                  \/ Accepts(session, o.engine)
                  \/ Finishes(session, o.engine, pkg)
    <2>1. /\ f.cloud \in Cloud /\ f.engine \in Engine
          /\ ClientData(f.cloud) /\ ClientSession(f.cloud, f.engine)
          /\ f.engine = session \/ Accepts(session, f.engine)
      BY <1>3, FlushOutcome
    <2>3. ClientData(Submitted(f.cloud)) /\ Abortable(Submitted(f.cloud), f.engine)
      BY <2>1, SubmittedClient DEF ClientData, ClientSession, Abortable
    <2>4. CASE o = Outcome(Submitted(f.cloud), f.engine, FALSE)
      BY <2>1, <2>3, <2>4, SubmittedClient
    <2>5. CASE /\ f.engine.state = "RECEIVING" /\ f.engine.got = pkg.size - HeaderPage
               /\ o = Outcome(Submitted(f.cloud),
                              [f.engine EXCEPT !.state = "READY_TO_BOOT"], TRUE)
      <3>1. /\ o.engine \in Engine /\ o.engine.state = "READY_TO_BOOT"
            /\ o.engine.got = f.engine.got /\ o.engine.next = f.engine.next
        BY <2>1, <2>5 DEF Engine
      <3>2. Finishes(session, o.engine, pkg)
        BY <2>1, <2>5, <3>1 DEF Finishes, Accepts, Counted
      <3> QED
        BY <2>1, <2>3, <2>5, <3>1, <3>2, SubmittedClient DEF Abortable
    <2> QED
      BY <1>3, <2>4, <2>5 DEF SubmitEnd
  <1> QED
    BY <1>1, <1>2, <1>3 DEF Finish

-----------------------------------------------------------------------------
(* The controller.                                                         *)

Ranging == ctl.state \in {"OTA_RANGE_HEADER", "OTA_DOWNLOAD"}

CoreTypes ==
    /\ ctl \in Controller
    /\ stream \in [body: BOOLEAN, left: Nat]
    /\ timer \in {"first", "second", "due"}
    /\ cloud \in Cloud /\ engine \in Engine

(* Binary mode is that of a body that is not over, of a range of an update *)
(* that was asked for.                                                     *)
BinaryInv ==
    /\ ctl.binary => ctl.chunk # 0 /\ ctl.requested
    /\ ctl.binary /\ stream.body => stream.left # 0
    /\ Ranging => ctl.chunk # 0
    /\ ctl.state = "OTA_RANGE_HEADER" => ~ctl.binary /\ ~ctl.chunkDone
    /\ ctl.state = "OTA_DOWNLOAD" /\ ctl.chunkDone => stream.body /\ ~ctl.binary

(* A body is due only of an update that was asked for, from byte zero.     *)
PendingInv ==
    /\ ctl.bodyPending => ctl.requested
    /\ ctl.state = "ONLINE" \/ Ranging => ~ctl.bodyPending
    /\ OtaActive => ctl.requested
    /\ ctl.bodyPending /\ ctl.state \in {"OTA_SIZE", "OTA_CLEAR_HEADER"} =>
          ctl.offset = 0 /\ ctl.remote > 0 /\ cloud.got = 0

(* What every step of the controller keeps. *)
CoreInv ==
    /\ CoreTypes
    /\ ClientData(cloud) /\ ClientSession(cloud, engine)
    /\ AttemptStartsClean /\ RangeFollowsClient
    /\ BinaryInv /\ PendingInv

(* The poll drops a session or leaves it. *)
LEMMA PolledEngine ==
    ASSUME CoreInv
    PROVE  /\ Polled \in Engine
           /\ ClientSession(cloud, Polled) /\ Abortable(cloud, Polled)
           /\ Polled = engine \/ Polled.state = "IDLE"
           /\ Polled.state = "RECEIVING" => OtaActive
  <1>1. CASE Polled = engine /\ (engine.state = "RECEIVING" => OtaActive)
    BY <1>1 DEF CoreInv, CoreTypes, ClientSession, Abortable
  <1>2. CASE Polled = [engine EXCEPT !.state = "IDLE"]
    <2>1. Polled \in Engine /\ Polled.state = "IDLE"
      BY <1>2 DEF CoreInv, CoreTypes, Engine
    <2> QED
      BY <2>1 DEF ClientSession, Abortable
  <1> QED
    BY <1>1, <1>2 DEF Polled

(* What the client's operations are called with. *)
LEMMA PolledClient ==
    ASSUME CoreInv
    PROVE  /\ cloud \in Cloud /\ Polled \in Engine
           /\ ClientData(cloud) /\ ClientSession(cloud, Polled)
  BY PolledEngine DEF CoreInv, CoreTypes

(* Whatever was going on, enter_retry leaves no session. *)
LEMMA RetryKept ==
    ASSUME CoreTypes,
           NEW c \in Controller, NEW client \in Cloud, NEW session \in Engine,
           ClientData(client), Abortable(client, session),
           c.binary => c.chunk # 0 /\ c.requested,
           c.binary /\ stream.body => stream.left # 0,
           c.bodyPending => c.requested,
           EnterRetry(c, client, session), UNCHANGED stream
    PROVE  /\ CoreInv'
           /\ ctl'.state = "RETRY" /\ ctl'.binary = c.binary /\ ctl'.requested = c.requested
           /\ ctl'.retries = IF c.retries < MaxRetries THEN c.retries + 1 ELSE c.retries
           /\ cloud'.got = client.got
           /\ \/ engine' = session /\ session.state # "RECEIVING"
              \/ session.state = "RECEIVING" /\ engine'.state = "IDLE"
  <1>1. timer' \in {"first", "second", "due"}
    BY DEF EnterRetry, RestartTimer
  <1>2. /\ ctl' \in Controller
        /\ ctl'.state = "RETRY" /\ ctl'.binary = c.binary /\ ctl'.requested = c.requested
        /\ ctl'.chunk = c.chunk /\ ctl'.bodyPending = c.bodyPending
        /\ ctl'.retries = IF c.retries < MaxRetries THEN c.retries + 1 ELSE c.retries
    <2>1. (IF c.retries < MaxRetries THEN c.retries + 1 ELSE c.retries) \in 0 .. MaxRetries
      BY ControllerAssumption DEF Controller
    <2>2. ctl' = [c EXCEPT !.state = "RETRY", !.sent = FALSE,
                           !.retries = IF c.retries < MaxRetries THEN c.retries + 1 ELSE c.retries]
      BY DEF EnterRetry
    <2> QED
      BY <2>1, <2>2 DEF Controller
  <1>3. /\ cloud' \in Cloud /\ engine' \in Engine
        /\ ClientData(cloud') /\ cloud'.got = client.got
        /\ \/ engine' = session /\ session.state # "RECEIVING"
           \/ session.state = "RECEIVING" /\ engine'.state = "IDLE"
    <2>1. CASE session.state = "RECEIVING"
      <3> DEFINE sent == Submitted(client)
      <3>1. /\ sent \in Cloud /\ sent.attached = client.attached
            /\ sent.size = client.size /\ sent.got = client.got
        BY SubmittedClient
      <3>2. /\ cloud' = [sent EXCEPT !.started = FALSE, !.chunk = 0]
            /\ engine' = [session EXCEPT !.state = "IDLE"]
        BY <2>1 DEF EnterRetry, Abort, Abortable
      <3> HIDE DEF sent
      <3>3. /\ cloud' \in Cloud /\ cloud'.attached = client.attached
            /\ cloud'.size = client.size /\ cloud'.got = client.got /\ cloud'.chunk = 0
        BY <3>1, <3>2 DEF Cloud
      <3>4. engine' \in Engine /\ engine'.state = "IDLE"
        BY <3>2 DEF Engine
      <3> QED
        BY <2>1, <3>3, <3>4 DEF ClientData
    <2>2. CASE session.state # "RECEIVING"
      <3>1. cloud' = client /\ engine' = session
        BY <2>2 DEF EnterRetry, Abort
      <3> QED
        BY <2>2, <3>1
    <2> QED
      BY <2>1, <2>2
  <1>4. ClientSession(cloud', engine')
    BY <1>3 DEF ClientSession
  <1>5. AttemptStartsClean' /\ RangeFollowsClient'
    BY <1>2 DEF AttemptStartsClean, RangeFollowsClient
  <1>6. BinaryInv' /\ PendingInv'
    BY <1>2 DEF BinaryInv, PendingInv, Ranging, OtaActive, Active
  <1> QED
    BY <1>1, <1>2, <1>3, <1>4, <1>5, <1>6 DEF CoreInv, CoreTypes

(* The states of the setup. *)
LEMMA SetupFacts ==
    /\ SetupStates = {"SYNC", "ECHO_OFF", "SYSLOG", "WIFI_MODE", "WIFI_JOIN", "MQTT_CLEAN",
                      "MQTT_CONFIG", "MQTT_CONNECT", "MQTT_SUBSCRIBE", "MQTT_ANNOUNCE"}
    /\ \A s \in SetupStates \ {"MQTT_ANNOUNCE"} :
          Setup[1 + CHOOSE i \in DOMAIN Setup : Setup[i] = s] \in SetupStates
  <1>1. DOMAIN Setup = 1 .. 10
    BY DEF Setup
  <1>2. /\ Setup[1] = "SYNC" /\ Setup[2] = "ECHO_OFF" /\ Setup[3] = "SYSLOG"
        /\ Setup[4] = "WIFI_MODE" /\ Setup[5] = "WIFI_JOIN" /\ Setup[6] = "MQTT_CLEAN"
        /\ Setup[7] = "MQTT_CONFIG" /\ Setup[8] = "MQTT_CONNECT"
        /\ Setup[9] = "MQTT_SUBSCRIBE" /\ Setup[10] = "MQTT_ANNOUNCE"
    BY DEF Setup
  <1>3. SetupStates = {"SYNC", "ECHO_OFF", "SYSLOG", "WIFI_MODE", "WIFI_JOIN", "MQTT_CLEAN",
                      "MQTT_CONFIG", "MQTT_CONNECT", "MQTT_SUBSCRIBE", "MQTT_ANNOUNCE"}
    BY <1>1, <1>2 DEF SetupStates
  <1>4. ASSUME NEW s \in SetupStates \ {"MQTT_ANNOUNCE"}
        PROVE  Setup[1 + CHOOSE i \in DOMAIN Setup : Setup[i] = s] \in SetupStates
    <2> DEFINE k == CHOOSE i \in DOMAIN Setup : Setup[i] = s
    <2>1. \E i \in DOMAIN Setup : Setup[i] = s
      BY DEF SetupStates
    <2>2. k \in DOMAIN Setup /\ Setup[k] = s
      BY <2>1
    <2> HIDE DEF k
    <2>3. k # 10
      BY <1>2, <2>2
    <2>4. 1 + k \in DOMAIN Setup
      BY <1>1, <2>2, <2>3
    <2> QED
      BY <2>4 DEF SetupStates, k
  <1> QED
    BY <1>3, <1>4

(* advance_state leaves the setup only for a clean start or none.          *)
LEMMA AdvancedFacts ==
    ASSUME ctl \in Controller, ctl.state \in SetupStates
    PROVE  /\ Advanced \in Controller
           /\ Advanced.binary = ctl.binary /\ Advanced.chunk = ctl.chunk
           /\ Advanced.requested = ctl.requested
           /\ \/ /\ Advanced.state \in SetupStates
                 /\ Advanced.bodyPending = ctl.bodyPending
                 /\ Advanced.retries = ctl.retries
              \/ /\ Advanced.state = "OTA_CLEAR_HEADER"
                 /\ ctl.requested /\ ~Advanced.bodyPending
                 /\ Advanced.retries = ctl.retries
              \/ /\ Advanced.state = "ONLINE"
                 /\ ~ctl.requested /\ Advanced.bodyPending = ctl.bodyPending
                 /\ Advanced.retries = 0
  <1>1. CASE ctl.state # "MQTT_ANNOUNCE"
    <2>1. PICK s \in SetupStates : Advanced = [ctl EXCEPT !.state = s, !.sent = TRUE]
      BY <1>1, SetupFacts DEF Advanced
    <2> QED
      BY <2>1 DEF Controller
  <1>2. CASE ctl.state = "MQTT_ANNOUNCE" /\ ctl.requested
    <2>1. Advanced = [ctl EXCEPT !.state = "OTA_CLEAR_HEADER", !.sent = TRUE,
                                 !.sizePending = FALSE, !.bodyPending = FALSE]
      BY <1>2 DEF Advanced
    <2> QED
      BY <1>2, <2>1 DEF Controller, Active
  <1>3. CASE ctl.state = "MQTT_ANNOUNCE" /\ ~ctl.requested
    <2>1. Advanced = [ctl EXCEPT !.state = "ONLINE", !.sent = FALSE, !.retries = 0]
      BY <1>3 DEF Advanced
    <2>2. 0 \in 0 .. MaxRetries
      BY ControllerAssumption
    <2> QED
      BY <1>3, <2>1, <2>2 DEF Controller
  <1> QED
    BY <1>1, <1>2, <1>3

-----------------------------------------------------------------------------
(* What the controller receives.                                           *)

(* A step that only polls and moves the controller outside a download.     *)
LEMMA PolledKept ==
    ASSUME CoreInv, engine' = Polled, UNCHANGED <<stream, cloud>>
    PROVE  /\ stream' \in [body: BOOLEAN, left: Nat]
           /\ cloud' \in Cloud /\ engine' \in Engine
           /\ ClientData(cloud') /\ ClientSession(cloud', engine')
  BY PolledEngine DEF CoreInv, CoreTypes

(* A byte that means nothing leaves at most a session the poll dropped. *)
LEMMA NothingKept ==
    ASSUME CoreInv, Nothing
    PROVE  CoreInv'
  <1>1. engine' = Polled /\ UNCHANGED <<ctl, stream, timer, cloud>>
    BY DEF Nothing
  <1>2. engine' = engine \/ engine'.state = "IDLE"
    BY <1>1, PolledEngine
  <1> QED
    BY <1>1, <1>2, PolledKept
       DEF CoreInv, CoreTypes, AttemptStartsClean, RangeFollowsClient,
           BinaryInv, PendingInv, Ranging, OtaActive

(* The modem's prompt only moves the stage of the range request. *)
LEMMA PromptKept ==
    ASSUME CoreInv, Prompt
    PROVE  CoreInv'
  <1>1. engine' = Polled /\ UNCHANGED <<stream, cloud>>
    BY DEF Prompt
  <1>2. timer' \in {"first", "second", "due"}
    BY DEF Prompt, RestartTimer
  <1>3. /\ ctl' \in Controller
        /\ ctl'.state = ctl.state /\ ctl.state = "OTA_RANGE_HEADER"
        /\ ctl'.binary = ctl.binary /\ ctl'.chunk = ctl.chunk
        /\ ctl'.chunkDone = ctl.chunkDone /\ ctl'.offset = ctl.offset
        /\ ctl'.bodyPending = ctl.bodyPending /\ ctl'.requested = ctl.requested
    BY DEF Prompt, CoreInv, CoreTypes, Controller
  <1> QED
    BY <1>1, <1>2, <1>3, PolledKept
       DEF CoreInv, CoreTypes, AttemptStartsClean, RangeFollowsClient,
           BinaryInv, PendingInv, Ranging, OtaActive, Active

(* Binary mode begins in DOWNLOAD, between two bodies. *)
LEMMA BodyPrefixKept ==
    ASSUME CoreInv, BodyPrefix
    PROVE  CoreInv'
  <1>1. CASE ~stream.body /\ ctl' = [ctl EXCEPT !.binary = TRUE] /\ engine' = Polled
             /\ UNCHANGED <<timer, cloud>>
    <2>1. /\ ctl' \in Controller
          /\ ctl'.state = ctl.state /\ ctl.state = "OTA_DOWNLOAD"
          /\ ctl'.binary = TRUE /\ ctl'.chunk = ctl.chunk
          /\ ctl'.chunkDone = ctl.chunkDone /\ ctl'.offset = ctl.offset
          /\ ctl'.bodyPending = ctl.bodyPending /\ ctl'.requested = ctl.requested
      BY <1>1 DEF BodyPrefix, CoreInv, CoreTypes, Controller
    <2>2. UNCHANGED <<stream, cloud>> /\ timer' = timer
      BY <1>1 DEF BodyPrefix
    <2> QED
      BY <1>1, <2>1, <2>2, PolledKept
         DEF CoreInv, CoreTypes, AttemptStartsClean, RangeFollowsClient,
             BinaryInv, PendingInv, Ranging, OtaActive, Active
  <1>2. CASE EnterRetry(ctl, cloud, Polled)
    BY <1>2, PolledEngine, RetryKept DEF BodyPrefix, CoreInv, CoreTypes, BinaryInv, PendingInv
  <1> QED
    BY <1>1, <1>2 DEF BodyPrefix

(* The controller out of binary mode, which is how it takes up a body's end. *)
LEMMA TextMode ==
    ASSUME ctl \in Controller
    PROVE  /\ [ctl EXCEPT !.binary = FALSE] \in Controller
           /\ [ctl EXCEPT !.binary = FALSE].binary = FALSE
           /\ [ctl EXCEPT !.binary = FALSE].bodyPending = ctl.bodyPending
           /\ [ctl EXCEPT !.binary = FALSE].requested = ctl.requested
           /\ [ctl EXCEPT !.binary = FALSE].retries = ctl.retries
  BY DEF Controller

(* A body that begins has the length of the range that was asked for. *)
LEMMA BodyFrameKept ==
    ASSUME CoreInv, NEW exact \in BOOLEAN, BodyFrame(exact)
    PROVE  CoreInv'
  <1>1. CASE stream' = [body |-> TRUE, left |-> ctl.chunk] /\ engine' = Polled
             /\ UNCHANGED <<ctl, timer, cloud>>
    <2>1. ctl.binary /\ ~stream.body
      BY DEF BodyFrame
    <2>2. /\ stream' \in [body: BOOLEAN, left: Nat]
          /\ stream'.body = TRUE /\ stream'.left = ctl.chunk
      BY <1>1 DEF CoreInv, CoreTypes, Controller
    <2>3. /\ engine' \in Engine /\ ClientSession(cloud, engine')
          /\ engine' = engine \/ engine'.state = "IDLE"
      BY <1>1, PolledEngine
    <2>4. RangeFollowsClient'
      BY <1>1, <2>1, <2>2 DEF RangeFollowsClient, CoreInv, CoreTypes, BinaryInv, Controller
    <2> QED
      BY <1>1, <2>1, <2>2, <2>3, <2>4
         DEF CoreInv, CoreTypes, AttemptStartsClean, BinaryInv, PendingInv, Ranging, OtaActive
  <1>2. CASE EnterRetry([ctl EXCEPT !.binary = FALSE], cloud, Polled) /\ UNCHANGED stream
    BY <1>2, PolledEngine, RetryKept, TextMode DEF CoreInv, CoreTypes, PendingInv
  <1> QED
    BY <1>1, <1>2 DEF BodyFrame

(* A byte of a body moves client and stream together, or ends the attempt. *)
LEMMA BodyCellKept ==
    ASSUME CoreInv, env \in Environment, NEW right \in BOOLEAN, BodyCell(right)
    PROVE  CoreInv'
  <1>1. ctl.binary /\ stream.body /\ env.package \in Package
    BY ControllerAssumption DEF BodyCell, Environment
  <1>2. PICK o \in Write(cloud, Polled, env.package, right) :
           IF ~o.ok
           THEN /\ EnterRetry([ctl EXCEPT !.binary = FALSE], o.cloud, o.engine)
                /\ UNCHANGED stream
           ELSE /\ cloud' = o.cloud /\ engine' = o.engine
                /\ stream' = [stream EXCEPT !.left = @ - 1]
                /\ IF stream.left = 1
                   THEN /\ ctl' = [ctl EXCEPT !.binary = FALSE, !.chunkDone = TRUE]
                        /\ RestartTimer
                   ELSE UNCHANGED <<ctl, timer>>
    BY DEF BodyCell, Results
  <1>3. /\ o.cloud \in Cloud /\ o.engine \in Engine /\ o.ok \in BOOLEAN
        /\ ClientData(o.cloud) /\ Abortable(o.cloud, o.engine)
        /\ o.ok => (ClientSession(o.cloud, o.engine) /\ o.cloud.got = cloud.got + 1)
    BY <1>1, <1>2, PolledClient, WriteOutcome, Zenon
  <1>4. CASE ~o.ok
    BY <1>2, <1>3, <1>4, RetryKept, TextMode DEF CoreInv, CoreTypes, PendingInv
  <1>5. CASE o.ok
    <2>1. /\ cloud' \in Cloud /\ engine' \in Engine /\ cloud'.got = cloud.got + 1
          /\ ClientData(cloud') /\ ClientSession(cloud', engine')
      BY <1>2, <1>3, <1>5
    <2>2. stream.left \in Nat \ {0}
      BY <1>1 DEF CoreInv, CoreTypes, BinaryInv
    <2>3. /\ stream' \in [body: BOOLEAN, left: Nat]
          /\ stream'.body = stream.body /\ stream'.left = stream.left - 1
      BY <1>2, <1>5, <2>2 DEF CoreInv, CoreTypes
    <2>4. /\ timer' \in {"first", "second", "due"}
          /\ ctl' \in Controller
          /\ ctl'.state = ctl.state /\ ctl'.chunk = ctl.chunk
          /\ ctl'.offset = ctl.offset /\ ctl'.remote = ctl.remote
          /\ ctl'.bodyPending = ctl.bodyPending /\ ctl'.requested = ctl.requested
          /\ IF stream.left = 1
             THEN ctl'.binary = FALSE /\ ctl'.chunkDone = TRUE
             ELSE ctl'.binary = ctl.binary /\ ctl'.chunkDone = ctl.chunkDone
      <3>1. ctl \in Controller /\ timer \in {"first", "second", "due"}
        BY DEF CoreInv, CoreTypes
      <3>2. CASE stream.left = 1
        <4>1. ctl' = [ctl EXCEPT !.binary = FALSE, !.chunkDone = TRUE]
                /\ timer' \in {"first", "second"}
          BY <1>2, <1>5, <3>2 DEF RestartTimer
        <4> QED
          BY <3>1, <3>2, <4>1 DEF Controller
      <3>3. CASE stream.left # 1
        BY <1>2, <1>5, <3>1, <3>3
      <3> QED
        BY <3>2, <3>3
    <2>5. ctl.state \in {"SYNC", "RETRY", "OTA_DOWNLOAD"}
      BY <1>1 DEF CoreInv, AttemptStartsClean, BinaryInv
    <2>6. AttemptStartsClean'
      BY <2>4, <2>5 DEF AttemptStartsClean
    <2>7. RangeFollowsClient'
      <3>1. SUFFICES ASSUME ctl.state = "OTA_DOWNLOAD"
                     PROVE  RangeFollowsClient'
        BY <2>4, <2>5 DEF RangeFollowsClient
      <3>2. cloud.got = ctl.offset + (ctl.chunk - stream.left) /\ ~ctl.chunkDone
        BY <1>1, <3>1 DEF CoreInv, RangeFollowsClient, BinaryInv
      <3>3. /\ ctl.chunk \in Nat /\ ctl.offset \in Nat /\ cloud.got \in Nat
        BY DEF CoreInv, CoreTypes, Controller, Cloud
      <3>4. CASE stream.left = 1
        BY <2>1, <2>4, <3>1, <3>2, <3>3, <3>4 DEF RangeFollowsClient
      <3>5. CASE stream.left # 1
        BY <1>1, <2>1, <2>2, <2>3, <2>4, <3>1, <3>2, <3>3, <3>5 DEF RangeFollowsClient
      <3> QED
        BY <3>4, <3>5
    <2>8. BinaryInv'
      <3>2. ctl.chunk # 0 /\ ctl.requested /\ (ctl.state = "OTA_DOWNLOAD" => ~ctl.chunkDone)
        BY <1>1 DEF CoreInv, BinaryInv
      <3>3. CASE stream.left = 1
        BY <1>1, <2>3, <2>4, <2>5, <3>2, <3>3 DEF BinaryInv, Ranging
      <3>4. CASE stream.left # 1
        <4>1. stream'.left # 0
          BY <2>2, <2>3, <3>4
        <4> QED
          BY <2>3, <2>4, <2>5, <3>2, <3>4, <4>1 DEF BinaryInv, Ranging
      <3> QED
        BY <3>3, <3>4
    <2>9. PendingInv'
      BY <2>4, <2>5 DEF CoreInv, PendingInv, Ranging, OtaActive, Active
    <2> QED
      BY <2>1, <2>3, <2>4, <2>6, <2>7, <2>8, <2>9 DEF CoreInv, CoreTypes
  <1> QED
    BY <1>3, <1>4, <1>5

(* cloud_ota_begin *)
LEMMA BeginFacts ==
    ASSUME NEW n \in Nat
    PROVE  /\ Begin(n) \in Cloud /\ ClientData(Begin(n))
           /\ Begin(n).got = 0
  <1>1. /\ ClearedCloud \in Cloud /\ ClientData(ClearedCloud)
        /\ ClearedCloud.got = 0 /\ ClearedCloud.chunk = 0
    BY DEF ClearedCloud, Cloud, ClientData
  <1>2. CASE Begin(n) = ClearedCloud
    BY <1>1, <1>2
  <1>3. CASE n > HeaderPage /\ Begin(n) = [ClearedCloud EXCEPT !.attached = TRUE, !.size = n]
    BY <1>1, <1>3 DEF Cloud, ClientData
  <1> QED
    BY <1>2, <1>3, CloudOtaAssumption DEF Begin

(* The reported size clears the client, and no session is open then. *)
LEMMA SizeReportedKept ==
    ASSUME CoreInv, NEW n \in Sizes, SizeReported(n)
    PROVE  CoreInv'
  <1>1. n \in Nat /\ ctl.state = "OTA_SIZE" /\ UNCHANGED stream
    BY ControllerAssumption DEF SizeReported
  <1>2. ~ctl.binary /\ engine.state # "RECEIVING"
    BY <1>1 DEF CoreInv, AttemptStartsClean
  <1>3. Polled = engine
    BY <1>2 DEF Polled
  <1>4. CASE n > 0 /\ cloud' = Begin(n) /\ ctl' = SizeAccepted(n) /\ engine' = Polled
             /\ UNCHANGED timer
    <2>1. /\ ctl' \in Controller
          /\ ctl'.state = ctl.state /\ ctl'.binary = ctl.binary /\ ctl'.chunk = ctl.chunk
          /\ ctl'.offset = 0 /\ ctl'.remote = n
          /\ ctl'.bodyPending = TRUE /\ ctl'.requested = ctl.requested
      BY <1>1, <1>4 DEF SizeAccepted, CoreInv, CoreTypes, Controller
    <2>2. cloud' \in Cloud /\ ClientData(cloud') /\ cloud'.got = 0
      BY <1>1, <1>4, BeginFacts
    <2> QED
      BY <1>1, <1>2, <1>3, <1>4, <2>1, <2>2
         DEF CoreInv, CoreTypes, ClientSession, AttemptStartsClean, RangeFollowsClient,
             BinaryInv, PendingInv, Ranging, OtaActive, Active
  <1>5. CASE EnterRetry(ctl, Begin(n), Polled) \/ EnterRetry(ctl, cloud, Polled)
    <2>1. Abortable(Begin(n), Polled) /\ Abortable(cloud, Polled) /\ Polled \in Engine
      BY <1>2, <1>3 DEF Abortable, CoreInv, CoreTypes
    <2> QED
      BY <1>1, <1>5, <2>1, BeginFacts, RetryKept DEF CoreInv, CoreTypes, BinaryInv, PendingInv
  <1> QED
    BY <1>4, <1>5 DEF SizeReported

(* START_OTA is taken up online, so with no attempt under way. *)
LEMMA StartOtaKept ==
    ASSUME CoreInv, StartOta
    PROVE  CoreInv'
  <1>1. engine' = Polled /\ UNCHANGED <<stream, cloud>> /\ ctl.state = "ONLINE"
    BY DEF StartOta
  <1>2. timer' \in {"first", "second", "due"}
    BY DEF StartOta, RestartTimer
  <1>3. /\ ctl' \in Controller
        /\ ctl'.state = "OTA_SIZE" /\ ctl'.binary = ctl.binary /\ ctl'.chunk = ctl.chunk
        /\ ctl'.bodyPending = ctl.bodyPending /\ ctl'.requested = TRUE
    BY DEF StartOta, CoreInv, CoreTypes, Controller, Active
  <1>4. ~ctl.binary /\ engine.state # "RECEIVING" /\ ~ctl.bodyPending
    BY <1>1 DEF CoreInv, AttemptStartsClean, PendingInv
  <1>5. engine' = engine
    BY <1>1, <1>4 DEF Polled
  <1> QED
    BY <1>1, <1>2, <1>3, <1>4, <1>5, PolledKept
       DEF CoreInv, CoreTypes, AttemptStartsClean, RangeFollowsClient,
           BinaryInv, PendingInv, Ranging, OtaActive, Active

(* advance_state *)
LEMMA AdvancedKept ==
    ASSUME CoreInv, ctl.state \in SetupStates, ~ctl.binary, ctl' = Advanced,
           timer' \in {"first", "second", "due"},
           engine' = Polled, UNCHANGED <<stream, cloud>>
    PROVE  CoreInv'
  <1>1. /\ ctl' \in Controller
        /\ ctl'.binary = ctl.binary /\ ctl'.chunk = ctl.chunk
        /\ ctl'.requested = ctl.requested
        /\ \/ ctl'.state \in SetupStates /\ ctl'.bodyPending = ctl.bodyPending
           \/ ctl'.state = "OTA_CLEAR_HEADER" /\ ctl.requested /\ ~ctl'.bodyPending
           \/ ctl'.state = "ONLINE" /\ ~ctl.requested /\ ctl'.bodyPending = ctl.bodyPending
    BY AdvancedFacts DEF CoreInv, CoreTypes
  <1>2. engine'.state # "RECEIVING"
    BY PolledEngine, SetupFacts DEF OtaActive, Active
  <1> QED
    BY <1>1, <1>2, PolledKept, SetupFacts
       DEF CoreInv, CoreTypes, AttemptStartsClean, RangeFollowsClient,
           BinaryInv, PendingInv, Ranging, OtaActive, Active

(* An error ends the attempt, or is ignored while MQTT is cleaned up. *)
LEMMA TroubleKept ==
    ASSUME CoreInv, Trouble
    PROVE  CoreInv'
  <1>1. CASE EnterRetry(ctl, cloud, Polled) /\ UNCHANGED stream
    BY <1>1, PolledEngine, RetryKept DEF CoreInv, CoreTypes, BinaryInv, PendingInv
  <1>2. CASE ctl.state = "MQTT_CLEAN" /\ ctl' = Advanced /\ RestartTimer
             /\ engine' = Polled /\ UNCHANGED <<stream, cloud>>
    <2>1. timer' \in {"first", "second", "due"} /\ ~ctl.binary
      BY <1>2 DEF RestartTimer, Trouble
    <2> QED
      BY <1>2, <2>1, AdvancedKept, SetupFacts
  <1> QED
    BY <1>1, <1>2 DEF Trouble

(* An OK in the set-up goes on to the next of its states. *)
LEMMA SetupOkKept ==
    ASSUME CoreInv, SetupOk
    PROVE  CoreInv'
  <1>1. timer' \in {"first", "second", "due"}
    BY DEF SetupOk, RestartTimer
  <1> QED
    BY <1>1, AdvancedKept DEF SetupOk, Heeds

(* start_range_request asks for something, up to the end of the package.   *)
LEMMA RangeFacts ==
    ASSUME NEW c \in Controller, c.offset < c.remote
    PROVE  /\ RangeRequested(c) \in Controller
           /\ RangeRequested(c).state = "OTA_RANGE_HEADER"
           /\ RangeRequested(c).chunk # 0 /\ ~RangeRequested(c).chunkDone
           /\ RangeRequested(c).binary = c.binary
           /\ RangeRequested(c).bodyPending = c.bodyPending
           /\ RangeRequested(c).requested = c.requested
           /\ RangeRequested(c).offset = c.offset
           /\ RangeRequested(c).retries = c.retries
  <1>1. c.offset \in Nat /\ c.remote \in Nat
    BY DEF Controller
  <1>2. ChunkLength(c.offset, c.remote) \in Nat \ {0}
    BY <1>1, CloudOtaAssumption DEF ChunkLength, Least
  <1> DEFINE n == ChunkLength(c.offset, c.remote)
  <1>3. RangeRequested(c) = [c EXCEPT !.chunk = n, !.stage = 0, !.chunkDone = FALSE,
                                      !.state = "OTA_RANGE_HEADER", !.sent = TRUE]
    BY DEF RangeRequested
  <1>4. n \in Nat \ {0}
    BY <1>2
  <1> DEFINE r == RangeRequested(c)
  <1>5. r = [c EXCEPT !.chunk = n, !.stage = 0, !.chunkDone = FALSE,
                      !.state = "OTA_RANGE_HEADER", !.sent = TRUE]
    BY <1>3
  <1> HIDE DEF n, r
  <1>6. n \in Nat /\ n # 0 /\ 0 \in 0 .. 2
    BY <1>4
  <1>7. r.state = "OTA_RANGE_HEADER" /\ r.chunk = n /\ r.chunkDone = FALSE
    BY <1>5 DEF Controller
  <1>8. /\ r.binary = c.binary /\ r.bodyPending = c.bodyPending
        /\ r.requested = c.requested /\ r.offset = c.offset /\ r.retries = c.retries
    BY <1>5 DEF Controller
  <1>9. r \in Controller
    BY <1>5, <1>6 DEF Controller, Active
  <1> QED
    BY <1>6, <1>7, <1>8, <1>9 DEF r

(* The OKs before the first range leave the client at offset zero. *)
LEMMA SizeOkKept ==
    ASSUME CoreInv, SizeOk
    PROVE  CoreInv'
  <1>1. /\ engine' = Polled /\ UNCHANGED <<stream, cloud>>
        /\ ctl.state \in {"OTA_SIZE", "OTA_CLEAR_HEADER"}
        /\ timer' = timer \/ RestartTimer
    BY DEF SizeOk
  <1>2. timer' \in {"first", "second", "due"}
    BY <1>1 DEF RestartTimer, CoreInv, CoreTypes
  <1>3. ~ctl.binary /\ engine.state # "RECEIVING" /\ ctl.requested
    BY <1>1 DEF CoreInv, AttemptStartsClean, PendingInv, OtaActive, Active
  <1>4. engine' = engine
    BY <1>1, <1>3 DEF Polled
  <1>5. CASE ctl' = RangeRequested([ctl EXCEPT !.bodyPending = FALSE]) /\ ctl.bodyPending
    <2> DEFINE c == [ctl EXCEPT !.bodyPending = FALSE]
    <2>1. /\ c \in Controller /\ c.bodyPending = FALSE
          /\ c.offset = ctl.offset /\ c.remote = ctl.remote
          /\ c.binary = ctl.binary /\ c.requested = ctl.requested
      BY DEF CoreInv, CoreTypes, Controller
    <2>2. ctl' = RangeRequested(c)
      BY <1>5
    <2> HIDE DEF c
    <2>3. ctl.offset = 0 /\ ctl.remote > 0 /\ cloud.got = 0
      BY <1>1, <1>5 DEF CoreInv, PendingInv
    <2>4. c.offset < c.remote
      BY <2>1, <2>3
    <2>5. /\ ctl' \in Controller /\ ctl'.state = "OTA_RANGE_HEADER"
          /\ ctl'.chunk # 0 /\ ~ctl'.chunkDone /\ ~ctl'.binary /\ ~ctl'.bodyPending
          /\ ctl'.requested /\ ctl'.offset = 0
      BY <1>3, <2>1, <2>2, <2>3, <2>4, RangeFacts
    <2> QED
      BY <1>1, <1>2, <1>3, <1>4, <2>3, <2>5, PolledKept
         DEF CoreInv, CoreTypes, AttemptStartsClean, RangeFollowsClient,
             BinaryInv, PendingInv, Ranging, OtaActive, Active
  <1>6. CASE \/ ctl' = [ctl EXCEPT !.telemetryPending = FALSE]
             \/ ctl' = [ctl EXCEPT !.sizePending = FALSE, !.state = "OTA_CLEAR_HEADER"]
             \/ ctl' = [ctl EXCEPT !.state = "OTA_SIZE"]
    <2>1. /\ ctl' \in Controller
          /\ ctl'.state \in {"OTA_SIZE", "OTA_CLEAR_HEADER"}
          /\ ctl'.binary = ctl.binary /\ ctl'.chunk = ctl.chunk
          /\ ctl'.offset = ctl.offset /\ ctl'.remote = ctl.remote
          /\ ctl'.bodyPending = ctl.bodyPending /\ ctl'.requested = ctl.requested
      <3>1. ctl \in Controller /\ ctl.state \in {"OTA_SIZE", "OTA_CLEAR_HEADER"}
        BY <1>1 DEF CoreInv, CoreTypes
      <3>2. CASE ctl' = [ctl EXCEPT !.telemetryPending = FALSE]
        BY <3>1, <3>2 DEF Controller
      <3>3. CASE ctl' = [ctl EXCEPT !.sizePending = FALSE, !.state = "OTA_CLEAR_HEADER"]
        BY <3>1, <3>3 DEF Controller, Active
      <3>4. CASE ctl' = [ctl EXCEPT !.state = "OTA_SIZE"]
        BY <3>1, <3>4 DEF Controller, Active
      <3> QED
        BY <1>6, <3>2, <3>3, <3>4
    <2> QED
      BY <1>1, <1>2, <1>3, <1>4, <2>1, PolledKept
         DEF CoreInv, CoreTypes, AttemptStartsClean, RangeFollowsClient,
             BinaryInv, PendingInv, Ranging, OtaActive, Active
  <1> QED
    BY <1>5, <1>6 DEF SizeOk

(* The OK of the header request begins the download at the client's offset. *)
LEMMA RangeOkKept ==
    ASSUME CoreInv, RangeOk
    PROVE  CoreInv'
  <1>1. ctl.state = "OTA_RANGE_HEADER" /\ ~ctl.binary
    BY DEF RangeOk, Heeds
  <1>2. CASE ctl' = [ctl EXCEPT !.stage = 1] /\ engine' = Polled
             /\ UNCHANGED <<stream, timer, cloud>>
    <2>1. /\ ctl' \in Controller /\ ctl'.state = ctl.state
          /\ ctl'.binary = ctl.binary /\ ctl'.chunk = ctl.chunk
          /\ ctl'.chunkDone = ctl.chunkDone /\ ctl'.offset = ctl.offset
          /\ ctl'.bodyPending = ctl.bodyPending /\ ctl'.requested = ctl.requested
      BY <1>2 DEF CoreInv, CoreTypes, Controller
    <2> QED
      BY <1>1, <1>2, <2>1, PolledKept
         DEF CoreInv, CoreTypes, AttemptStartsClean, RangeFollowsClient,
             BinaryInv, PendingInv, Ranging, OtaActive, Active
  <1>3. CASE EnterRetry(ctl, cloud, Polled) /\ UNCHANGED stream
    BY <1>3, PolledEngine, RetryKept DEF CoreInv, CoreTypes, BinaryInv, PendingInv
  <1>4. CASE stream' = [body |-> FALSE, left |-> 0] /\ ctl' = [ctl EXCEPT !.state = "OTA_DOWNLOAD"]
             /\ RestartTimer /\ engine' = Polled /\ UNCHANGED cloud
    <2>1. /\ ctl' \in Controller /\ ctl'.state = "OTA_DOWNLOAD"
          /\ ctl'.binary = ctl.binary /\ ctl'.chunk = ctl.chunk
          /\ ctl'.chunkDone = ctl.chunkDone /\ ctl'.offset = ctl.offset
          /\ ctl'.bodyPending = ctl.bodyPending /\ ctl'.requested = ctl.requested
      BY <1>4 DEF CoreInv, CoreTypes, Controller, Active
    <2>2. /\ stream' \in [body: BOOLEAN, left: Nat] /\ stream'.body = FALSE
          /\ timer' \in {"first", "second", "due"}
      BY <1>4 DEF RestartTimer
    <2>3. /\ cloud' = cloud /\ engine' \in Engine /\ ClientSession(cloud', engine')
      BY <1>4, PolledEngine
    <2>4. ~ctl.chunkDone /\ cloud.got = ctl.offset /\ ctl.offset \in Nat
      BY <1>1 DEF CoreInv, CoreTypes, BinaryInv, RangeFollowsClient, Controller
    <2>5. RangeFollowsClient'
      BY <2>1, <2>2, <2>3, <2>4 DEF RangeFollowsClient
    <2> QED
      BY <1>1, <2>1, <2>2, <2>3, <2>4, <2>5
         DEF CoreInv, CoreTypes, AttemptStartsClean,
             BinaryInv, PendingInv, Ranging, OtaActive, Active
  <1> QED
    BY <1>2, <1>3, <1>4 DEF RangeOk

(* The OK after a chunk finishes the package or asks for the next range. *)
LEMMA DownloadOkKept ==
    ASSUME CoreInv, env \in Environment, DownloadOk
    PROVE  CoreInv'
  <1> DEFINE c == [ctl EXCEPT !.offset = @ + ctl.chunk]
  <1>1. /\ ctl.state = "OTA_DOWNLOAD" /\ ctl.chunkDone /\ ~ctl.binary
        /\ UNCHANGED stream /\ env.package \in Package
    BY ControllerAssumption DEF DownloadOk, Heeds, Environment
  <1>2. ctl.offset \in Nat /\ ctl.chunk \in Nat
    BY DEF CoreInv, CoreTypes, Controller
  <1>3. /\ c \in Controller /\ c.offset = ctl.offset + ctl.chunk /\ c.remote = ctl.remote
        /\ c.binary = FALSE /\ c.bodyPending = FALSE /\ c.requested = TRUE /\ c.chunk = ctl.chunk
    BY <1>1, <1>2
       DEF CoreInv, CoreTypes, BinaryInv, PendingInv, Ranging, OtaActive, Active, Controller
  <1>4. \/ c.offset < ctl.remote /\ ctl' = RangeRequested(c) /\ RestartTimer
           /\ engine' = Polled /\ UNCHANGED cloud
        \/ \E o \in Finish(cloud, Polled, env.package) :
              IF ~o.ok THEN EnterRetry(c, o.cloud, o.engine)
              ELSE /\ cloud' = o.cloud /\ engine' = o.engine
                   /\ ctl' = [c EXCEPT !.requested = FALSE, !.state = "ONLINE",
                                       !.sent = FALSE]
                   /\ UNCHANGED timer
    BY DEF DownloadOk, Results
  <1> HIDE DEF c
  <1>5. CASE c.offset < ctl.remote /\ ctl' = RangeRequested(c) /\ RestartTimer
             /\ engine' = Polled /\ UNCHANGED cloud
    <2>1. cloud.got = ctl.offset + ctl.chunk
      BY <1>1 DEF CoreInv, RangeFollowsClient
    <2>2. /\ ctl' \in Controller /\ ctl'.state = "OTA_RANGE_HEADER"
          /\ ctl'.chunk # 0 /\ ~ctl'.chunkDone /\ ~ctl'.binary /\ ~ctl'.bodyPending
          /\ ctl'.requested /\ ctl'.offset = cloud.got
      BY <1>3, <1>5, <2>1, RangeFacts
    <2>3. timer' \in {"first", "second", "due"}
      BY <1>5 DEF RestartTimer
    <2> QED
      BY <1>1, <1>5, <2>2, <2>3, PolledKept
         DEF CoreInv, CoreTypes, AttemptStartsClean, RangeFollowsClient,
             BinaryInv, PendingInv, Ranging, OtaActive, Active
  <1>6. ASSUME NEW o \in Finish(cloud, Polled, env.package),
               IF ~o.ok THEN EnterRetry(c, o.cloud, o.engine)
               ELSE /\ cloud' = o.cloud /\ engine' = o.engine
                    /\ ctl' = [c EXCEPT !.requested = FALSE, !.state = "ONLINE",
                                        !.sent = FALSE]
                    /\ UNCHANGED timer
        PROVE  CoreInv'
    <2>1. /\ o.cloud \in Cloud /\ o.engine \in Engine /\ o.ok \in BOOLEAN
          /\ ClientData(o.cloud) /\ Abortable(o.cloud, o.engine)
          /\ o.ok => o.engine.state = "READY_TO_BOOT"
      BY <1>1, <1>6, PolledClient, FinishOutcome, Zenon
    <2>2. CASE ~o.ok
      BY <1>1, <1>3, <1>6, <2>1, <2>2, RetryKept DEF CoreInv
    <2>3. CASE o.ok
      <3>1. /\ ctl' \in Controller /\ ctl'.state = "ONLINE"
            /\ ctl'.binary = FALSE /\ ctl'.bodyPending = FALSE
        <4>1. ctl' = [c EXCEPT !.requested = FALSE, !.state = "ONLINE", !.sent = FALSE]
          BY <1>6, <2>3
        <4> HIDE DEF c
        <4> QED
          BY <1>3, <4>1 DEF Controller
      <3>2. ClientSession(cloud', engine') /\ engine'.state = "READY_TO_BOOT"
        BY <1>6, <2>1, <2>3 DEF ClientSession
      <3> QED
        BY <1>1, <1>6, <2>1, <2>3, <3>1, <3>2
           DEF CoreInv, CoreTypes, AttemptStartsClean, RangeFollowsClient,
               BinaryInv, PendingInv, Ranging, OtaActive, Active
    <2> QED
      BY <2>1, <2>2, <2>3
  <1> QED
    BY <1>4, <1>5, <1>6

(* esp_at_controller_receive *)
LEMMA ReceiveKept ==
    ASSUME CoreInv, env \in Environment, Receive
    PROVE  CoreInv'
  BY NothingKept, PromptKept, BodyPrefixKept, BodyFrameKept, BodyCellKept, SizeReportedKept,
     StartOtaKept, TroubleKept, SetupOkKept, SizeOkKept, RangeOkKept, DownloadOkKept
     DEF Receive

(* esp_at_controller_tick *)
LEMMA TickKept ==
    ASSUME CoreInv, Tick, UNCHANGED stream
    PROVE  CoreInv'
  <1>1. CASE SyncDue /\ ctl' = [ctl EXCEPT !.state = "SYNC", !.sent = TRUE]
             /\ RestartTimer /\ UNCHANGED <<cloud, engine>>
    <2>1. /\ ctl' \in Controller /\ ctl'.state = "SYNC"
          /\ ctl'.binary = ctl.binary /\ ctl'.chunk = ctl.chunk
          /\ ctl'.bodyPending = ctl.bodyPending /\ ctl'.requested = ctl.requested
      BY <1>1, SetupFacts DEF CoreInv, CoreTypes, Controller
    <2>2. timer' \in {"first", "second", "due"}
      BY <1>1 DEF RestartTimer
    <2> QED
      BY <1>1, <2>1, <2>2
         DEF CoreInv, CoreTypes, AttemptStartsClean, RangeFollowsClient,
             BinaryInv, PendingInv, Ranging, OtaActive, Active
  <1>2. CASE EnterRetry(ctl, cloud, engine)
    BY <1>2, RetryKept
       DEF CoreInv, CoreTypes, BinaryInv, PendingInv, ClientSession, Abortable
  <1>3. CASE UNCHANGED <<ctl, timer, cloud, engine>>
    BY <1>3 DEF CoreInv, CoreTypes, AttemptStartsClean, RangeFollowsClient,
                BinaryInv, PendingInv, Ranging, OtaActive
  <1> QED
    BY <1>1, <1>2, <1>3 DEF Tick

-----------------------------------------------------------------------------
(* The attempts.                                                           *)

(* A body that outlives its request may still open one session.            *)
LateStart ==
    IF ctl.binary /\ ctl.state \in {"SYNC", "RETRY"} /\ cloud.got < HeaderSize THEN 1 ELSE 0

(* The session that the download under way has opened. *)
OwnStart == IF Ranging /\ cloud.got >= HeaderSize THEN 1 ELSE 0

(* Every session opened so far is paid for by a retry, but the last one.   *)
StartsCount ==
    /\ starts \in Nat
    /\ ctl.state # "RETRY" => ctl.retries < MaxRetries
    /\ ~ctl.requested => starts = 0
    /\ starts + LateStart <= ctl.retries + OwnStart

(* The retry pays for the start its attempt has made. *)
LEMMA RetryStarts ==
    ASSUME CoreInv, CoreTypes', StartsCount, starts' = starts,
           ctl'.state = "RETRY", ctl'.requested = ctl.requested,
           ctl'.retries = IF ctl.retries < MaxRetries THEN ctl.retries + 1 ELSE ctl.retries,
           ctl'.binary => ctl.binary /\ cloud'.got = cloud.got
    PROVE  StartsCount'
  <1>1. ctl.retries \in 0 .. MaxRetries /\ starts \in Nat
    BY DEF CoreInv, CoreTypes, Controller, StartsCount
  <1>2. starts <= ctl'.retries
    BY <1>1, ControllerAssumption DEF StartsCount, LateStart, OwnStart, Ranging
  <1>3. CASE ctl'.binary /\ cloud'.got < HeaderSize
    <2>1. ctl.binary /\ cloud.got < HeaderSize /\ cloud.got \in Nat
      BY <1>3 DEF CoreInv, CoreTypes, Cloud
    <2>2. ctl.state \in {"SYNC", "RETRY", "OTA_DOWNLOAD"}
      BY <2>1 DEF CoreInv, AttemptStartsClean, BinaryInv
    <2>3. OwnStart = 0
      BY <2>1, CloudOtaAssumption DEF OwnStart
    <2>4. starts + 1 <= ctl'.retries
      <3>1. CASE ctl.state \in {"SYNC", "RETRY"}
        <4>1. LateStart = 1
          BY <2>1, <3>1 DEF LateStart
        <4> QED
          BY <1>1, <2>3, <4>1, ControllerAssumption DEF StartsCount
      <3>2. CASE ctl.state = "OTA_DOWNLOAD"
        <4>1. LateStart = 0
          BY <3>2 DEF LateStart
        <4> QED
          BY <1>1, <2>3, <3>2, <4>1, ControllerAssumption DEF StartsCount
      <3> QED
        BY <2>2, <3>1, <3>2
    <2> QED
      BY <1>1, <2>4 DEF StartsCount, LateStart, OwnStart, Ranging
  <1>4. CASE ~(ctl'.binary /\ cloud'.got < HeaderSize)
    BY <1>1, <1>2, <1>4 DEF StartsCount, LateStart, OwnStart, Ranging
  <1> QED
    BY <1>3, <1>4

(* What starts is in Top. *)
StartsCounted ==
    starts' = IF Polled.state = "IDLE" /\ engine'.state = "RECEIVING" THEN starts + 1 ELSE starts

(* A byte of a body starts a session at most once in an attempt. *)
LEMMA BodyCellStarts ==
    ASSUME CoreInv, CoreInv', env \in Environment, StartsCount, StartsCounted,
           NEW right \in BOOLEAN, BodyCell(right)
    PROVE  StartsCount'
  <1>1. ctl.binary /\ stream.body /\ env.package \in Package
    BY ControllerAssumption DEF BodyCell, Environment
  <1>2. PICK o \in Write(cloud, Polled, env.package, right) :
           IF ~o.ok
           THEN /\ EnterRetry([ctl EXCEPT !.binary = FALSE], o.cloud, o.engine)
                /\ UNCHANGED stream
           ELSE /\ cloud' = o.cloud /\ engine' = o.engine
                /\ stream' = [stream EXCEPT !.left = @ - 1]
                /\ IF stream.left = 1
                   THEN /\ ctl' = [ctl EXCEPT !.binary = FALSE, !.chunkDone = TRUE]
                        /\ RestartTimer
                   ELSE UNCHANGED <<ctl, timer>>
    BY DEF BodyCell, Results
  <1>3. /\ o.cloud \in Cloud /\ o.engine \in Engine /\ o.ok \in BOOLEAN
        /\ ClientData(o.cloud) /\ Abortable(o.cloud, o.engine)
        /\ o.ok => (ClientSession(o.cloud, o.engine) /\ o.cloud.got = cloud.got + 1)
        /\ \/ o.engine = Polled
           \/ o.ok /\ Accepts(Polled, o.engine)
           \/ /\ o.ok /\ Opens(o.engine, env.package)
              /\ cloud.got < HeaderSize /\ o.cloud.got >= HeaderSize
    BY <1>1, <1>2, PolledClient, WriteOutcome, Zenon
  <1>4. CASE ~o.ok
    <2>1. /\ ctl'.state = "RETRY" /\ ctl'.binary = FALSE /\ ctl'.requested = ctl.requested
          /\ ctl'.retries = IF ctl.retries < MaxRetries THEN ctl.retries + 1 ELSE ctl.retries
          /\ engine'.state # "RECEIVING"
      <3> DEFINE text == [ctl EXCEPT !.binary = FALSE]
      <3>1. CoreTypes /\ (ctl.bodyPending => ctl.requested)
        BY DEF CoreInv, PendingInv
      <3>2. /\ text \in Controller /\ text.binary = FALSE
            /\ text.bodyPending = ctl.bodyPending
            /\ text.requested = ctl.requested /\ text.retries = ctl.retries
        BY <3>1, TextMode DEF CoreTypes
      <3>3. EnterRetry(text, o.cloud, o.engine) /\ UNCHANGED stream
        BY <1>2, <1>4
      <3> HIDE DEF text
      <3>4. /\ ctl'.state = "RETRY" /\ ctl'.binary = text.binary
            /\ ctl'.requested = text.requested
            /\ ctl'.retries = IF text.retries < MaxRetries THEN text.retries + 1
                             ELSE text.retries
            /\ \/ engine' = o.engine /\ o.engine.state # "RECEIVING"
               \/ o.engine.state = "RECEIVING" /\ engine'.state = "IDLE"
        BY <1>3, <3>1, <3>2, <3>3, RetryKept
      <3> QED
        BY <3>2, <3>4
    <2>2. starts' = starts
      BY <2>1 DEF StartsCounted
    <2>3. CoreTypes' /\ (ctl'.binary => ctl.binary /\ cloud'.got = cloud.got)
      BY <2>1 DEF CoreInv
    <2> QED
      BY <2>1, <2>2, <2>3, RetryStarts, Zenon
  <1>5. CASE o.ok
    <2>1. /\ ctl'.state = ctl.state /\ ctl'.retries = ctl.retries
          /\ ctl'.requested = ctl.requested
          /\ ctl'.binary => ctl.binary
      <3>1. ctl \in Controller
        BY DEF CoreInv, CoreTypes
      <3>2. CASE ctl' = [ctl EXCEPT !.binary = FALSE, !.chunkDone = TRUE]
        BY <3>1, <3>2 DEF Controller
      <3>3. CASE ctl' = ctl
        BY <3>3
      <3> QED
        BY <1>2, <1>5, <3>2, <3>3
    <2>2. ctl.state \in {"SYNC", "RETRY", "OTA_DOWNLOAD"} /\ ctl.requested
      BY <1>1 DEF CoreInv, AttemptStartsClean, BinaryInv
    <2>3. /\ cloud'.got = cloud.got + 1 /\ cloud.got \in Nat
          /\ HeaderSize \in Nat /\ ctl.retries \in Nat /\ starts \in Nat
      <3>1. cloud'.got = cloud.got + 1
        BY <1>2, <1>3, <1>5
      <3> QED
        BY <3>1, CloudOtaAssumption DEF CoreInv, CoreTypes, Cloud, Controller, StartsCount
    <2>4. CASE starts' = starts
      BY <1>1, <2>1, <2>2, <2>3, <2>4 DEF StartsCount, LateStart, OwnStart, Ranging
    <2>5. CASE /\ starts' = starts + 1
               /\ cloud.got < HeaderSize /\ cloud'.got >= HeaderSize
      <3>1. CASE ctl.state = "OTA_DOWNLOAD"
        BY <2>1, <2>2, <2>3, <2>5, <3>1 DEF StartsCount, LateStart, OwnStart, Ranging
      <3>2. CASE ctl.state \in {"SYNC", "RETRY"}
        BY <1>1, <2>1, <2>2, <2>3, <2>5, <3>2 DEF StartsCount, LateStart, OwnStart, Ranging
      <3> QED
        BY <2>2, <3>1, <3>2
    <2>6. \/ starts' = starts
          \/ starts' = starts + 1 /\ cloud.got < HeaderSize /\ cloud'.got >= HeaderSize
      BY <1>2, <1>3, <1>5 DEF StartsCounted, Accepts
    <2> QED
      BY <2>4, <2>5, <2>6
  <1> QED
    BY <1>3, <1>4, <1>5

(* Finish starts a session only if no byte of the attempt has. *)
LEMMA DownloadOkStarts ==
    ASSUME CoreInv, CoreInv', env \in Environment, StartsCount, StartsCounted, DownloadOk,
           engine'.state # "READY_TO_BOOT"
    PROVE  StartsCount'
  <1> DEFINE c == [ctl EXCEPT !.offset = @ + ctl.chunk]
  <1>1. /\ ctl.state = "OTA_DOWNLOAD" /\ ~ctl.binary
        /\ UNCHANGED stream /\ env.package \in Package
    BY ControllerAssumption DEF DownloadOk, Heeds, Environment
  <1>2. ctl.offset \in Nat /\ ctl.chunk \in Nat
    BY DEF CoreInv, CoreTypes, Controller
  <1>3. /\ c \in Controller /\ c.offset = ctl.offset + ctl.chunk /\ c.remote = ctl.remote
        /\ c.binary = FALSE /\ c.bodyPending = FALSE
        /\ c.requested = ctl.requested /\ c.retries = ctl.retries
    BY <1>1, <1>2 DEF CoreInv, CoreTypes, PendingInv, Ranging, Controller
  <1>4. \/ c.offset < ctl.remote /\ ctl' = RangeRequested(c) /\ RestartTimer
           /\ engine' = Polled /\ UNCHANGED cloud
        \/ \E o \in Finish(cloud, Polled, env.package) :
              IF ~o.ok THEN EnterRetry(c, o.cloud, o.engine)
              ELSE /\ cloud' = o.cloud /\ engine' = o.engine
                   /\ ctl' = [c EXCEPT !.requested = FALSE, !.state = "ONLINE",
                                       !.sent = FALSE]
                   /\ UNCHANGED timer
    BY DEF DownloadOk, Results
  <1> HIDE DEF c
  <1>5. CASE c.offset < ctl.remote /\ ctl' = RangeRequested(c) /\ RestartTimer
             /\ engine' = Polled /\ UNCHANGED cloud
    <2>1. /\ ctl'.state = "OTA_RANGE_HEADER" /\ ctl'.retries = ctl.retries
          /\ ctl'.requested = ctl.requested
      BY <1>3, <1>5, RangeFacts
    <2>2. starts' = starts
      BY <1>5 DEF StartsCounted
    <2> QED
      BY <1>1, <1>5, <2>1, <2>2 DEF StartsCount, LateStart, OwnStart, Ranging
  <1>6. ASSUME NEW o \in Finish(cloud, Polled, env.package),
               IF ~o.ok THEN EnterRetry(c, o.cloud, o.engine)
               ELSE /\ cloud' = o.cloud /\ engine' = o.engine
                    /\ ctl' = [c EXCEPT !.requested = FALSE, !.state = "ONLINE",
                                        !.sent = FALSE]
                    /\ UNCHANGED timer
        PROVE  StartsCount'
    <2>1. /\ o.cloud \in Cloud /\ o.engine \in Engine /\ o.ok \in BOOLEAN
          /\ ClientData(o.cloud) /\ Abortable(o.cloud, o.engine)
          /\ o.ok => o.engine.state = "READY_TO_BOOT"
      BY <1>1, <1>6, PolledClient, FinishOutcome, Zenon
    <2>2. ~o.ok
      BY <1>6, <2>1
    <2>3. /\ ctl'.state = "RETRY" /\ ctl'.binary = FALSE /\ ctl'.requested = ctl.requested
          /\ ctl'.retries = IF ctl.retries < MaxRetries THEN ctl.retries + 1 ELSE ctl.retries
          /\ engine'.state # "RECEIVING"
      BY <1>1, <1>3, <1>6, <2>1, <2>2, RetryKept DEF CoreInv
    <2>4. starts' = starts
      BY <2>3 DEF StartsCounted
    <2> QED
      BY <2>3, <2>4, RetryStarts DEF CoreInv
  <1> QED
    BY <1>4, <1>5, <1>6

(* What is received in text mode, short of the end of a body. *)
LEMMA TextStarts ==
    ASSUME CoreInv, CoreInv', StartsCount, StartsCounted,
           \/ Nothing \/ Prompt \/ BodyPrefix \/ StartOta \/ Trouble
           \/ \E exact \in BOOLEAN : BodyFrame(exact)
           \/ \E n \in Sizes : SizeReported(n)
           \/ SetupOk \/ SizeOk \/ RangeOk
    PROVE  StartsCount'
  <1>1. /\ CoreTypes /\ ctl.retries \in 0 .. MaxRetries /\ starts \in Nat
        /\ HeaderSize \in Nat \ {0} /\ MaxRetries \in Nat \ {0} /\ cloud.got \in Nat
    BY CloudOtaAssumption, ControllerAssumption
       DEF CoreInv, CoreTypes, Controller, StartsCount, Cloud
  <1>2. ASSUME NEW client \in Cloud, NEW c \in {ctl, [ctl EXCEPT !.binary = FALSE]},
               ClientData(client), Abortable(client, Polled),
               client.got = cloud.got \/ ~ctl.binary,
               EnterRetry(c, client, Polled), UNCHANGED stream
        PROVE  StartsCount'
    <2>1. /\ c \in Controller
          /\ c.binary => ctl.binary
          /\ c.requested = ctl.requested /\ c.retries = ctl.retries
          /\ c.chunk = ctl.chunk /\ c.bodyPending = ctl.bodyPending
      <3>1. ctl \in Controller
        BY <1>1 DEF CoreTypes
      <3>2. CASE c = ctl
        BY <3>1, <3>2
      <3>3. CASE c = [ctl EXCEPT !.binary = FALSE]
        BY <3>1, <3>3 DEF Controller
      <3> QED
        BY <3>2, <3>3
    <2>2. /\ ctl'.state = "RETRY" /\ ctl'.requested = ctl.requested
          /\ ctl'.retries = IF ctl.retries < MaxRetries THEN ctl.retries + 1 ELSE ctl.retries
          /\ ctl'.binary = c.binary /\ cloud'.got = client.got
          /\ engine'.state # "RECEIVING"
      BY <1>1, <1>2, <2>1, PolledEngine, RetryKept DEF CoreInv, BinaryInv, PendingInv
    <2>3. starts' = starts
      BY <2>2 DEF StartsCounted
    <2> QED
      BY <1>2, <2>1, <2>2, <2>3, RetryStarts DEF CoreInv
  <1>3. ASSUME engine' = Polled
        PROVE  starts' = starts
    BY <1>3 DEF StartsCounted
  <1>4. CASE Nothing
    BY <1>3, <1>4 DEF Nothing, StartsCount, LateStart, OwnStart, Ranging
  <1>5. CASE Prompt
    <2>1. /\ ctl'.state = ctl.state /\ ctl'.retries = ctl.retries
          /\ ctl'.requested = ctl.requested /\ ctl'.binary = ctl.binary
          /\ cloud' = cloud /\ starts' = starts
      BY <1>1, <1>3, <1>5 DEF Prompt, CoreTypes, Controller
    <2> QED
      BY <2>1 DEF StartsCount, LateStart, OwnStart, Ranging
  <1>6. CASE BodyPrefix
    <2>1. CASE ctl' = [ctl EXCEPT !.binary = TRUE] /\ engine' = Polled /\ UNCHANGED cloud
      <3>1. /\ ctl'.state = ctl.state /\ ctl'.retries = ctl.retries
            /\ ctl'.requested = ctl.requested /\ ctl.state = "OTA_DOWNLOAD"
            /\ starts' = starts
        BY <1>1, <1>3, <1>6, <2>1 DEF BodyPrefix, CoreTypes, Controller
      <3> QED
        BY <2>1, <3>1 DEF StartsCount, LateStart, OwnStart, Ranging
    <2>2. CASE EnterRetry(ctl, cloud, Polled) /\ UNCHANGED stream
      BY <1>1, <1>2, <2>2, PolledEngine DEF CoreInv, CoreTypes
    <2> QED
      BY <1>6, <2>1, <2>2 DEF BodyPrefix
  <1>7. CASE StartOta
    <2>1. /\ ctl'.state = "OTA_SIZE" /\ ctl.state = "ONLINE" /\ ctl'.retries = ctl.retries
          /\ ctl'.requested = TRUE
          /\ cloud' = cloud /\ starts' = starts
      BY <1>1, <1>3, <1>7 DEF StartOta, CoreTypes, Controller
    <2> QED
      BY <2>1 DEF StartsCount, LateStart, OwnStart, Ranging
  <1>8. ASSUME ctl.state \in SetupStates, ctl' = Advanced, ~ctl.binary,
               engine' = Polled, UNCHANGED cloud
        PROVE  StartsCount'
    <2>1. /\ ctl'.binary = ctl.binary /\ ctl'.requested = ctl.requested
          /\ \/ ctl'.state \in SetupStates /\ ctl'.retries = ctl.retries
             \/ ctl'.state = "OTA_CLEAR_HEADER" /\ ctl'.retries = ctl.retries
             \/ ctl'.state = "ONLINE" /\ ~ctl.requested /\ ctl'.retries = 0
      BY <1>1, <1>8, AdvancedFacts DEF CoreTypes
    <2>2. starts' = starts
      BY <1>3, <1>8
    <2>3. LateStart = 0 /\ LateStart' = 0 /\ OwnStart = 0 /\ OwnStart' = 0
      BY <1>8, <2>1, SetupFacts DEF LateStart, OwnStart, Ranging
    <2>4. ctl.retries < MaxRetries
      BY <1>8, SetupFacts DEF StartsCount
    <2>5. ctl'.state # "RETRY"
      BY <2>1, SetupFacts
    <2> QED
      BY <1>1, <2>1, <2>2, <2>3, <2>4, <2>5 DEF StartsCount
  <1>9. CASE Trouble
    <2>1. CASE EnterRetry(ctl, cloud, Polled) /\ UNCHANGED stream
      BY <1>1, <1>2, <2>1, PolledEngine DEF CoreInv, CoreTypes
    <2>2. CASE ctl.state = "MQTT_CLEAN" /\ ctl' = Advanced
               /\ engine' = Polled /\ UNCHANGED cloud
      BY <1>8, <1>9, <2>2, SetupFacts DEF Trouble
    <2> QED
      BY <1>9, <2>1, <2>2 DEF Trouble
  <1>10. ASSUME NEW exact \in BOOLEAN, BodyFrame(exact)
         PROVE  StartsCount'
    <2>1. CASE engine' = Polled /\ UNCHANGED <<ctl, cloud>>
      BY <1>3, <2>1 DEF StartsCount, LateStart, OwnStart, Ranging
    <2>2. CASE EnterRetry([ctl EXCEPT !.binary = FALSE], cloud, Polled) /\ UNCHANGED stream
      BY <1>1, <1>2, <2>2, PolledEngine DEF CoreInv, CoreTypes
    <2> QED
      BY <1>10, <2>1, <2>2 DEF BodyFrame
  <1>11. ASSUME NEW n \in Sizes, SizeReported(n)
         PROVE  StartsCount'
    <2>1. n \in Nat /\ ctl.state = "OTA_SIZE" /\ UNCHANGED stream
      BY <1>11, ControllerAssumption DEF SizeReported
    <2>2. ~ctl.binary /\ Abortable(Begin(n), Polled)
      BY <2>1, PolledEngine DEF CoreInv, AttemptStartsClean, Abortable, Polled
    <2>3. CASE ctl' = SizeAccepted(n) /\ engine' = Polled
      <3>1. /\ ctl'.state = ctl.state /\ ctl'.retries = ctl.retries
            /\ ctl'.requested = ctl.requested /\ starts' = starts
        BY <1>1, <1>3, <2>3 DEF SizeAccepted, CoreTypes, Controller
      <3> QED
        BY <2>1, <3>1 DEF StartsCount, LateStart, OwnStart, Ranging
    <2>4. CASE EnterRetry(ctl, Begin(n), Polled)
      BY <1>2, <2>1, <2>2, <2>4, BeginFacts
    <2>5. CASE EnterRetry(ctl, cloud, Polled)
      BY <1>1, <1>2, <2>1, <2>5, PolledEngine DEF CoreInv, CoreTypes
    <2> QED
      BY <1>11, <2>3, <2>4, <2>5 DEF SizeReported
  <1>12. CASE SetupOk
    BY <1>8, <1>12 DEF SetupOk, Heeds
  <1>13. CASE SizeOk
    <2>1. engine' = Polled /\ cloud' = cloud /\ starts' = starts /\ ctl.requested
          /\ ctl.state \in {"OTA_SIZE", "OTA_CLEAR_HEADER"}
      BY <1>3, <1>13 DEF SizeOk, CoreInv, PendingInv, OtaActive, Active
    <2>2. CASE ctl' = RangeRequested([ctl EXCEPT !.bodyPending = FALSE]) /\ ctl.bodyPending
      <3> DEFINE c == [ctl EXCEPT !.bodyPending = FALSE]
      <3>1. /\ c \in Controller /\ c.offset = ctl.offset /\ c.remote = ctl.remote
            /\ c.requested = ctl.requested /\ c.retries = ctl.retries
        BY <1>1 DEF CoreTypes, Controller
      <3>2. ctl' = RangeRequested(c)
        BY <2>2
      <3> HIDE DEF c
      <3>3. c.offset < c.remote /\ cloud.got = 0
        BY <2>1, <2>2, <3>1 DEF CoreInv, PendingInv
      <3>4. /\ ctl'.state = "OTA_RANGE_HEADER" /\ ctl'.retries = ctl.retries
            /\ ctl'.requested = ctl.requested
        BY <3>1, <3>2, <3>3, RangeFacts
      <3> QED
        BY <1>1, <2>1, <3>3, <3>4 DEF StartsCount, LateStart, OwnStart, Ranging
    <2>3. CASE \/ ctl' = [ctl EXCEPT !.telemetryPending = FALSE]
               \/ ctl' = [ctl EXCEPT !.sizePending = FALSE, !.state = "OTA_CLEAR_HEADER"]
               \/ ctl' = [ctl EXCEPT !.state = "OTA_SIZE"]
      <3>1. /\ ctl'.state \in {"OTA_SIZE", "OTA_CLEAR_HEADER"}
            /\ ctl'.retries = ctl.retries /\ ctl'.requested = ctl.requested
        BY <1>1, <2>1, <2>3 DEF CoreTypes, Controller
      <3> QED
        BY <2>1, <3>1 DEF StartsCount, LateStart, OwnStart, Ranging
    <2> QED
      BY <1>13, <2>2, <2>3 DEF SizeOk
  <1>14. CASE RangeOk
    <2>1. CASE /\ ctl' = [ctl EXCEPT !.stage = 1] \/ ctl' = [ctl EXCEPT !.state = "OTA_DOWNLOAD"]
               /\ engine' = Polled /\ cloud' = cloud
      <3>1. /\ ctl.state = "OTA_RANGE_HEADER" /\ ctl'.state \in {"OTA_RANGE_HEADER", "OTA_DOWNLOAD"}
            /\ ctl'.retries = ctl.retries /\ ctl'.requested = ctl.requested
            /\ starts' = starts
        BY <1>1, <1>3, <1>14, <2>1 DEF RangeOk, CoreTypes, Controller
      <3> QED
        BY <2>1, <3>1 DEF StartsCount, LateStart, OwnStart, Ranging
    <2>2. CASE EnterRetry(ctl, cloud, Polled) /\ UNCHANGED stream
      BY <1>1, <1>2, <2>2, PolledEngine DEF CoreInv, CoreTypes
    <2> QED
      BY <1>14, <2>1, <2>2 DEF RangeOk
  <1> QED
    BY <1>4, <1>5, <1>6, <1>7, <1>9, <1>10, <1>11, <1>12, <1>13, <1>14

(* Whatever comes, the starts stay within the retries. *)
LEMMA ReceiveStarts ==
    ASSUME CoreInv, CoreInv', env \in Environment, StartsCount, StartsCounted, Receive,
           engine'.state # "READY_TO_BOOT"
    PROVE  StartsCount'
  BY BodyCellStarts, DownloadOkStarts, TextStarts DEF Receive

(* So they do when the loop ticks. *)
LEMMA TickStarts ==
    ASSUME CoreInv, CoreInv', StartsCount, Tick, UNCHANGED <<stream, starts>>
    PROVE  StartsCount'
  <1>1. CASE SyncDue /\ ctl' = [ctl EXCEPT !.state = "SYNC", !.sent = TRUE] /\ cloud' = cloud
    <2>1. /\ ctl'.state = "SYNC" /\ ctl'.retries = ctl.retries
          /\ ctl'.requested = ctl.requested /\ ctl'.binary = ctl.binary
      BY <1>1 DEF CoreInv, CoreTypes, Controller
    <2>2. /\ ctl.state \in {"SYNC", "RETRY"} /\ ctl.retries < MaxRetries
      BY <1>1 DEF SyncDue, StartsCount
    <2> QED
      BY <1>1, <2>1, <2>2 DEF StartsCount, LateStart, OwnStart, Ranging
  <1>2. CASE EnterRetry(ctl, cloud, engine)
    <2>1. /\ ctl'.state = "RETRY" /\ ctl'.requested = ctl.requested
          /\ ctl'.retries = IF ctl.retries < MaxRetries THEN ctl.retries + 1 ELSE ctl.retries
          /\ ctl'.binary = ctl.binary /\ cloud'.got = cloud.got
      BY <1>2, RetryKept DEF CoreInv, CoreTypes, BinaryInv, PendingInv, ClientSession, Abortable
    <2> QED
      BY <2>1, RetryStarts DEF CoreInv
  <1>3. CASE UNCHANGED <<ctl, timer, cloud, engine>>
    BY <1>3 DEF StartsCount, LateStart, OwnStart, Ranging
  <1> QED
    BY <1>1, <1>2, <1>3 DEF Tick

-----------------------------------------------------------------------------
(* The device.                                                             *)

(* An engine that is ready is left to the reset at the loop's end. *)
ReadyInv == engine.state = "READY_TO_BOOT" => pc # "loop" \/ phase = "bottom"

StartsInv ==
    /\ starts <= MaxRetries
    /\ pc = "loop" /\ engine.state # "READY_TO_BOOT" => StartsCount

(* The inductive invariant. *)
DeviceInv == HandoffTypeOK /\ CoreInv /\ ReadyInv /\ StartsInv

(* The type invariant, with the part CoreInv holds already apart. *)
LEMMA TypesOfCore ==
    HandoffTypeOK <=>
        /\ CoreTypes
        /\ phase \in {"top", "bottom"} /\ expired \in BOOLEAN
        /\ pc \in {"loop", "jump", "reset", "app"}
        /\ starts \in Nat /\ env \in Environment
        /\ mailbox \in {"none", "active", "other"}
        /\ handoff \in {"none", "accepted", "due"}
  BY DEF HandoffTypeOK, EspTypeOK, CoreTypes

(* A controller that has just been initialised, in either loop.            *)
LEMMA FreshFacts ==
    ASSUME NEW r \in BOOLEAN, NEW c,
           c = [Fresh EXCEPT !.requested = r] \/ c = Fresh
    PROVE  /\ c \in Controller /\ c.state = "SYNC" /\ c.retries = 0
           /\ ~c.binary /\ ~c.bodyPending
  <1>1. "SYNC" \in SetupStates /\ 0 \in 0 .. MaxRetries
    BY SetupFacts, ControllerAssumption
  <1>2. /\ Fresh \in Controller /\ Fresh.state = "SYNC" /\ Fresh.retries = 0
        /\ Fresh.binary = FALSE /\ Fresh.bodyPending = FALSE
    BY <1>1 DEF Fresh, Controller
  <1>3. CASE c = [Fresh EXCEPT !.requested = r]
    BY <1>2, <1>3 DEF Controller
  <1> QED
    BY <1>2, <1>3

(* A client and an engine that have just been cleared. *)
LEMMA ClearedFacts ==
    /\ ClearedCloud \in Cloud /\ ClientData(ClearedCloud)
    /\ IdleEngine \in Engine /\ IdleEngine.state = "IDLE"
  BY DEF ClearedCloud, Cloud, ClientData, IdleEngine, Engine

(* The device starts with the invariant. *)
LEMMA InitInv == DeviceInit => DeviceInv
  <1> SUFFICES ASSUME DeviceInit
               PROVE  DeviceInv
    OBVIOUS
  <1>1. PICK r \in BOOLEAN : ctl = [Fresh EXCEPT !.requested = r]
    BY DEF DeviceInit, Init
  <1>2. /\ ctl \in Controller /\ ctl.state = "SYNC" /\ ctl.retries = 0
        /\ ~ctl.binary /\ ~ctl.bodyPending
    BY <1>1, FreshFacts
  <1>3. /\ cloud \in Cloud /\ ClientData(cloud) /\ engine \in Engine /\ engine.state = "IDLE"
    BY ClearedFacts DEF DeviceInit, Init
  <1>4. CoreTypes
    BY <1>2, <1>3 DEF CoreTypes, DeviceInit, Init
  <1>5. CoreInv
    BY <1>2, <1>3, <1>4
       DEF CoreInv, ClientSession, AttemptStartsClean, RangeFollowsClient,
           BinaryInv, PendingInv, Ranging, OtaActive, Active
  <1>6. HandoffTypeOK
    BY <1>4, TypesOfCore DEF DeviceInit, Init
  <1>7. StartsInv
    <2>1. starts = 0 /\ MaxRetries \in Nat \ {0}
      BY ControllerAssumption DEF DeviceInit, Init
    <2> QED
      BY <1>2, <2>1 DEF StartsInv, StartsCount, LateStart, OwnStart, Ranging
  <1> QED
    BY <1>3, <1>5, <1>6, <1>7 DEF DeviceInv, ReadyInv

(* Steps that leave what the controller works on. *)
LEMMA IdleKept ==
    ASSUME CoreInv, UNCHANGED <<ctl, stream, cloud, engine>>,
           timer' \in {"first", "second", "due"}
    PROVE  CoreInv'
  BY DEF CoreInv, CoreTypes, AttemptStartsClean, RangeFollowsClient,
         BinaryInv, PendingInv, Ranging, OtaActive

(* The receiving half of the bootloader's loop keeps it. *)
LEMMA TopKept ==
    ASSUME DeviceInv, Top, UNCHANGED handoffVars
    PROVE  DeviceInv'
  <1>1. /\ CoreInv /\ env \in Environment /\ pc = "loop" /\ phase = "top" /\ pc' = pc
        /\ starts \in Nat
    BY TypesOfCore DEF DeviceInv, Top
  <1>2. CoreInv'
    BY <1>1, ReceiveKept DEF Top
  <1>3. engine.state # "READY_TO_BOOT"
    BY <1>1 DEF DeviceInv, ReadyInv
  <1>4. StartsCount /\ StartsCounted
    BY <1>1, <1>3 DEF DeviceInv, StartsInv, Top, StartsCounted
  <1>5. StartsInv'
    <2>1. CASE engine'.state # "READY_TO_BOOT"
      <3>1. StartsCount'
        <4>1. Receive
          BY DEF Top
        <4> QED
          BY <1>1, <1>2, <1>4, <2>1, <4>1, ReceiveStarts
      <3>2. ctl'.retries \in 0 .. MaxRetries /\ starts' \in Nat
        BY <1>2, <3>1 DEF CoreInv, CoreTypes, Controller, StartsCount
      <3>3. starts' <= MaxRetries
        BY <3>1, <3>2, ControllerAssumption DEF StartsCount, LateStart, OwnStart, Ranging
      <3> QED
        BY <3>1, <3>3 DEF StartsInv
    <2>2. CASE engine'.state = "READY_TO_BOOT"
      <3>1. starts' = starts
        BY <1>4, <2>2 DEF StartsCounted
      <3> QED
        BY <2>2, <3>1 DEF DeviceInv, StartsInv
    <2> QED
      BY <2>1, <2>2
  <1>6. starts' \in Nat
    BY <1>1, <1>4 DEF StartsCounted
  <1>7. HandoffTypeOK'
    BY <1>2, <1>6, TypesOfCore DEF HandoffTypeOK, EspTypeOK, CoreInv, CoreTypes, DeviceInv, Top,
       handoffVars
  <1>8. ReadyInv'
    BY DEF ReadyInv, Top
  <1> QED
    BY <1>2, <1>5, <1>7, <1>8 DEF DeviceInv

(* The tick opens no session and ends none. *)
LEMMA TickReady ==
    ASSUME CoreInv, Tick
    PROVE  (engine'.state = "READY_TO_BOOT") <=> (engine.state = "READY_TO_BOOT")
  <1>1. CASE engine' = engine
    BY <1>1
  <1>2. CASE EnterRetry(ctl, cloud, engine)
    <2>1. CASE engine.state = "RECEIVING"
      <3>1. engine' = [engine EXCEPT !.state = "IDLE"]
        BY <1>2, <2>1 DEF EnterRetry, Abort, CoreInv, ClientSession
      <3> QED
        BY <2>1, <3>1 DEF CoreInv, CoreTypes, Engine
    <2>2. CASE engine.state # "RECEIVING"
      <3>1. engine' = engine
        BY <1>2, <2>2 DEF EnterRetry, Abort
      <3> QED
        BY <3>1
    <2> QED
      BY <2>1, <2>2
  <1> QED
    BY <1>1, <1>2 DEF Tick

(* So does the other half, with its reset and its jump. *)
LEMMA BottomKept ==
    ASSUME DeviceInv, Bottom, UNCHANGED handoffVars
    PROVE  DeviceInv'
  <1>1. /\ CoreInv /\ Tick /\ UNCHANGED <<stream, starts, env>> /\ pc = "loop"
        /\ starts \in Nat /\ starts <= MaxRetries
    BY TypesOfCore DEF DeviceInv, StartsInv, Bottom
  <1>2. CoreInv'
    BY <1>1, TickKept
  <1>3. (engine'.state = "READY_TO_BOOT") <=> (engine.state = "READY_TO_BOOT")
    BY <1>1, TickReady
  <1>4. /\ pc' \in {"loop", "jump", "reset"} /\ phase' = "top" /\ expired' \in BOOLEAN
        /\ engine'.state = "READY_TO_BOOT" => pc' = "reset"
    BY DEF Bottom
  <1>5. StartsInv'
    <2>1. CASE engine.state = "READY_TO_BOOT"
      BY <1>1, <1>3, <2>1 DEF StartsInv
    <2>2. CASE engine.state # "READY_TO_BOOT"
      <3>1. StartsCount
        BY <1>1, <2>2 DEF DeviceInv, StartsInv
      <3>2. StartsCount'
        BY <1>1, <1>2, <3>1, TickStarts
      <3> QED
        BY <1>1, <3>2 DEF StartsInv
    <2> QED
      BY <2>1, <2>2
  <1>6. HandoffTypeOK'
    BY <1>1, <1>2, <1>4 DEF HandoffTypeOK, EspTypeOK, CoreInv, CoreTypes, DeviceInv, handoffVars
  <1>7. ReadyInv'
    BY <1>4 DEF ReadyInv
  <1> QED
    BY <1>2, <1>5, <1>6, <1>7 DEF DeviceInv

(* So does the clock. *)
LEMMA TimeKept ==
    ASSUME DeviceInv, UNCHANGED handoffVars,
           Expire \/ \E start \in {"first", "second"} : Elapse(start)
    PROVE  DeviceInv'
  <1>1. /\ UNCHANGED <<ctl, stream, cloud, engine, phase, pc, starts, env>>
        /\ timer' \in {timer, "due"} /\ expired' \in {expired, TRUE}
    BY DEF Expire, Elapse
  <1>2. timer' \in {"first", "second", "due"}
    BY <1>1 DEF DeviceInv, CoreInv, CoreTypes
  <1>3. CoreInv'
    BY <1>1, <1>2, IdleKept DEF DeviceInv
  <1>4. ReadyInv' /\ StartsInv'
    BY <1>1 DEF DeviceInv, ReadyInv, StartsInv, StartsCount, LateStart, OwnStart, Ranging
  <1>5. HandoffTypeOK'
    BY <1>1, <1>2 DEF DeviceInv, HandoffTypeOK, EspTypeOK, handoffVars
  <1> QED
    BY <1>3, <1>4, <1>5 DEF DeviceInv

(* Both loops begin with nothing but, in the bootloader, a request.        *)
LEMMA CleanStart ==
    ASSUME NEW r \in BOOLEAN, ctl' = [Fresh EXCEPT !.requested = r] \/ ctl' = Fresh, timer' = "first",
           cloud' = ClearedCloud, engine' = IdleEngine, stream' = [body |-> FALSE, left |-> 0]
    PROVE  /\ CoreInv' /\ engine'.state = "IDLE"
           /\ ctl'.state = "SYNC" /\ ctl'.retries = 0 /\ ~ctl'.binary
  <1>1. /\ ctl' \in Controller /\ ctl'.state = "SYNC" /\ ctl'.retries = 0
        /\ ~ctl'.binary /\ ~ctl'.bodyPending
    BY FreshFacts
  <1>2. /\ cloud' \in Cloud /\ ClientData(cloud') /\ engine' \in Engine /\ engine'.state = "IDLE"
    BY ClearedFacts
  <1> QED
    BY <1>1, <1>2
       DEF CoreInv, CoreTypes, ClientSession, AttemptStartsClean, RangeFollowsClient,
           BinaryInv, PendingInv, Ranging, OtaActive, Active

(* A start-up clears all that the invariant is about. *)
LEMMA StartsUpKept ==
    ASSUME DeviceInv, NEW request \in {"none", "active", "other"}, StartsUp(request)
    PROVE  DeviceInv'
  <1>1. /\ CoreInv' /\ engine'.state = "IDLE"
        /\ ctl'.state = "SYNC" /\ ctl'.retries = 0 /\ ~ctl'.binary
    BY CleanStart DEF StartsUp
  <1>2. /\ starts' = 0 /\ MaxRetries \in Nat \ {0}
        /\ mailbox' = "none" /\ handoff' = "none" /\ pc' = "loop" /\ phase' = "top"
        /\ expired' = FALSE /\ env' = env
    BY ControllerAssumption DEF StartsUp, Consumed
  <1>3. StartsInv'
    BY <1>1, <1>2 DEF StartsInv, StartsCount, LateStart, OwnStart, Ranging
  <1>4. HandoffTypeOK'
    BY <1>1, <1>2 DEF DeviceInv, HandoffTypeOK, EspTypeOK, CoreInv, CoreTypes
  <1> QED
    BY <1>1, <1>3, <1>4 DEF DeviceInv, ReadyInv

(* The application runs the controller without an engine. *)
LEMMA AppKept ==
    ASSUME DeviceInv, AppStarts \/ AppTop \/ AppBottom \/ HandoffDue \/ DeviceReset
    PROVE  DeviceInv'
  <1>1. CASE AppStarts
    <2>1. CoreInv'
      BY <1>1, CleanStart DEF AppStarts
    <2>2. pc' = "app" /\ phase' = "top" /\ UNCHANGED <<expired, starts, env, mailbox, handoff>>
      BY <1>1 DEF AppStarts, handoffVars
    <2> QED
      BY <2>1, <2>2
         DEF DeviceInv, HandoffTypeOK, EspTypeOK, CoreInv, CoreTypes, ReadyInv, StartsInv
  <1>2. CASE AppTop
    <2>1. pc = "app" /\ pc' = pc /\ phase' = "bottom" /\ UNCHANGED <<expired, starts, env>>
      BY <1>2 DEF AppTop
    <2>2. /\ CoreInv'
          /\ mailbox' \in {"none", "active", "other"} /\ handoff' \in {"none", "accepted", "due"}
      <3>1. CASE (Trouble \/ SetupOk) /\ UNCHANGED handoffVars
        BY <3>1, TroubleKept, SetupOkKept DEF handoffVars, DeviceInv, HandoffTypeOK
      <3>2. CASE AppNothing \/ \E version \in {"active", "other"} : AppAccept(version)
        <4>1. /\ UNCHANGED <<ctl, stream, timer, cloud, engine>>
              /\ mailbox' \in {mailbox, "active", "other"} /\ handoff' \in {handoff, "accepted"}
          BY <3>2 DEF AppNothing, AppAccept, handoffVars
        <4> QED
          BY <4>1, IdleKept DEF DeviceInv, HandoffTypeOK, CoreInv, CoreTypes
      <3> QED
        BY <1>2, <3>1, <3>2 DEF AppTop
    <2> QED
      BY <2>1, <2>2
         DEF DeviceInv, HandoffTypeOK, EspTypeOK, CoreInv, CoreTypes, ReadyInv, StartsInv
  <1>3. CASE AppBottom
    <2>1. CASE StartsUp(mailbox)
      BY <2>1, StartsUpKept DEF DeviceInv, HandoffTypeOK
    <2>2. CASE /\ Tick /\ phase' = "top"
               /\ UNCHANGED <<stream, expired, pc, starts, env, handoffVars>>
      <3>1. CoreInv'
        BY <2>2, TickKept DEF DeviceInv
      <3>2. pc = "app" /\ UNCHANGED <<expired, pc, starts, env, mailbox, handoff>>
        BY <1>3, <2>2 DEF AppBottom, handoffVars
      <3> QED
        BY <2>2, <3>1, <3>2
           DEF DeviceInv, HandoffTypeOK, EspTypeOK, CoreInv, CoreTypes, ReadyInv, StartsInv
    <2> QED
      BY <1>3, <2>1, <2>2 DEF AppBottom
  <1>4. CASE HandoffDue
    <2>1. /\ UNCHANGED <<ctl, stream, timer, cloud, engine>>
          /\ UNCHANGED <<phase, expired, pc, starts, env, mailbox>> /\ handoff' = "due"
          /\ pc = "app"
      BY <1>4 DEF HandoffDue, vars
    <2>2. CoreInv'
      BY <2>1, IdleKept DEF DeviceInv, CoreInv, CoreTypes
    <2> QED
      BY <2>1, <2>2
         DEF DeviceInv, HandoffTypeOK, EspTypeOK, ReadyInv, StartsInv
  <1>5. CASE DeviceReset
    BY <1>5, StartsUpKept DEF DeviceReset, DeviceInv, HandoffTypeOK
  <1> QED
    BY <1>1, <1>2, <1>3, <1>4, <1>5

(* The invariant is inductive. *)
LEMMA StepInv == DeviceInv /\ [DeviceNext]_deviceVars => DeviceInv'
  <1> SUFFICES ASSUME DeviceInv, [DeviceNext]_deviceVars
               PROVE  DeviceInv'
    OBVIOUS
  <1>1. CASE UNCHANGED deviceVars
    <2>1. /\ UNCHANGED <<ctl, stream, timer, cloud, engine>>
          /\ UNCHANGED <<phase, expired, pc, starts, env, mailbox, handoff>>
      BY <1>1 DEF deviceVars, vars, handoffVars
    <2>2. CoreInv'
      BY <2>1, IdleKept DEF DeviceInv, CoreInv, CoreTypes
    <2> QED
      BY <2>1, <2>2
         DEF DeviceInv, HandoffTypeOK, EspTypeOK, ReadyInv, StartsInv, StartsCount,
             LateStart, OwnStart, Ranging
  <1> QED
    BY <1>1, TopKept, BottomKept, TimeKept, AppKept DEF DeviceNext, Runs, Next

(* So it holds in every state of the device. *)
LEMMA AlwaysInv == DeviceSpec => []DeviceInv
  BY InitInv, StepInv, PTL DEF DeviceSpec

-----------------------------------------------------------------------------
(* Results.                                                                *)

(* Every value the loops, the client and the engine hold is of its type: no *)
(* length of a range, of a body or of a chunk ever drops below zero        *)
(* (esp_at_controller.c, esp_at_http.c, cloud_ota.c).                      *)
THEOREM TypeCorrect == DeviceSpec => []HandoffTypeOK
  <1>1. DeviceInv => HandoffTypeOK
    BY DEF DeviceInv
  <1> QED
    BY <1>1, AlwaysInv, PTL

(* An attempt starts without binary mode and without a session, however    *)
(* the earlier ones ended (enter_retry, handle_line).                      *)
THEOREM CleanAttempts == DeviceSpec => []AttemptStartsClean
  <1>1. DeviceInv => AttemptStartsClean
    BY DEF DeviceInv, CoreInv
  <1> QED
    BY <1>1, AlwaysInv, PTL

(* The session stands where the client does (cloud_ota.c).                 *)
THEOREM SessionInStep == DeviceSpec => []SessionFollowsClient
  <1>1. DeviceInv => SessionFollowsClient
    BY DEF DeviceInv, CoreInv, ClientSession, SessionFollowsClient
  <1> QED
    BY <1>1, AlwaysInv, PTL

(* The ranges asked for follow the client (start_range_request).           *)
THEOREM RangesInStep == DeviceSpec => []RangeFollowsClient
  <1>1. DeviceInv => RangeFollowsClient
    BY DEF DeviceInv, CoreInv
  <1> QED
    BY <1>1, AlwaysInv, PTL

(* OTA_MAX_RETRIES bounds the times the inactive header is erased between  *)
(* two resets, whatever the modem sends (enter_retry, advance_state).      *)
THEOREM FiniteStarts == DeviceSpec => []StartsBounded
  <1>1. DeviceInv => StartsBounded
    BY DEF DeviceInv, StartsInv, StartsBounded
  <1> QED
    BY <1>1, AlwaysInv, PTL

-----------------------------------------------------------------------------
(* The request that is handed over.                                        *)

(* A request is in the mailbox exactly while the application that has      *)
(* accepted it runs.                                                       *)
RequestIsAccepted ==
    /\ mailbox # "none" <=> handoff # "none"
    /\ handoff # "none" => pc = "app"

(* One step keeps that. *)
LEMMA AcceptedStep == RequestIsAccepted /\ [DeviceNext]_deviceVars => RequestIsAccepted'
  <1> SUFFICES ASSUME RequestIsAccepted, [DeviceNext]_deviceVars
               PROVE  RequestIsAccepted'
    OBVIOUS
  <1>1. CASE Next /\ UNCHANGED handoffVars
    <2>1. pc = "app" => pc' = "app"
      BY <1>1 DEF Next, Top, Bottom, Elapse, Expire
    <2> QED
      BY <1>1, <2>1 DEF RequestIsAccepted, handoffVars
  <1>2. ASSUME NEW request, StartsUp(request)
        PROVE  RequestIsAccepted'
    BY <1>2 DEF StartsUp, Consumed, RequestIsAccepted
  <1>3. CASE AppTop
    <2>1. pc = "app" /\ pc' = "app"
      BY <1>3 DEF AppTop
    <2>2. CASE UNCHANGED handoffVars
      BY <2>1, <2>2 DEF RequestIsAccepted, handoffVars
    <2>3. CASE \E version \in {"active", "other"} : AppAccept(version)
      BY <2>1, <2>3 DEF AppAccept, RequestIsAccepted
    <2> QED
      BY <1>3, <2>2, <2>3 DEF AppTop, AppNothing, handoffVars
  <1>4. CASE AppBottom
    <2>1. CASE StartsUp(mailbox)
      BY <1>2, <2>1
    <2>2. CASE UNCHANGED <<stream, expired, pc, starts, env, handoffVars>>
      BY <2>2 DEF RequestIsAccepted, handoffVars
    <2> QED
      BY <1>4, <2>1, <2>2 DEF AppBottom
  <1>5. CASE AppStarts
    BY <1>5 DEF AppStarts, RequestIsAccepted, handoffVars
  <1>6. CASE HandoffDue
    BY <1>6 DEF HandoffDue, RequestIsAccepted, vars
  <1>7. CASE DeviceReset
    BY <1>2, <1>7 DEF DeviceReset
  <1>8. CASE UNCHANGED deviceVars
    BY <1>8 DEF deviceVars, vars, handoffVars, RequestIsAccepted
  <1> QED
    BY <1>1, <1>3, <1>4, <1>5, <1>6, <1>7, <1>8 DEF DeviceNext, Runs

(* A start-up tells its controller what the mailbox holds. *)
LEMMA StartsRequested ==
    ASSUME NEW request, StartsUp(request)
    PROVE  ctl'.requested = (request = "other")
  BY DEF StartsUp, Fresh

(* A request is taken up by the one start-up after the application that    *)
(* has accepted it, whatever resets come: app_ota_handoff.c stores it      *)
(* before it resets, and ota_request.c erases it as it is read.            *)
THEOREM RequestIsHandedOver == DeviceSpec => RequestHandedOver
  <1> DEFINE step == /\ HandsOver => mailbox # "none" /\ ctl'.requested = (mailbox = "other")
                     /\ DeviceReset /\ ctl'.requested => handoff # "none"
  <1>1. RequestIsAccepted => step
    <2> SUFFICES ASSUME RequestIsAccepted
                 PROVE  step
      OBVIOUS
    <2>1. ASSUME HandsOver
          PROVE  mailbox # "none" /\ ctl'.requested = (mailbox = "other")
      <3>1. handoff = "due" /\ StartsUp(mailbox)
        BY <2>1 DEF HandsOver, AppBottom
      <3> QED
        BY <3>1, StartsRequested DEF RequestIsAccepted
    <2>2. ASSUME DeviceReset, ctl'.requested
          PROVE  handoff # "none"
      <3>1. PICK request \in {mailbox, "none"} : StartsUp(request)
        BY <2>2 DEF DeviceReset
      <3>2. request = "other"
        BY <2>2, <3>1, StartsRequested
      <3> QED
        BY <3>1, <3>2 DEF RequestIsAccepted
    <2> QED
      BY <2>1, <2>2
  <1>2. DeviceInit => RequestIsAccepted
    BY DEF DeviceInit, RequestIsAccepted
  <1>3. RequestIsAccepted => [step]_deviceVars
    BY <1>1
  <1>4. DeviceSpec => [][step]_deviceVars
    BY <1>2, <1>3, AcceptedStep, PTL DEF DeviceSpec
  <1> QED
    BY <1>4 DEF RequestHandedOver

-----------------------------------------------------------------------------
(* The engine the client drives, as that of UpdateEngine.tla.              *)

(* uint16_t wraps: the next number, modulo the sequence numbers. *)
LEMMA ModularNext ==
    ASSUME NEW n \in Nat
    PROVE  /\ n % SequenceNumbers \in 0 .. SequenceNumbers - 1
           /\ (n + 1) % SequenceNumbers = ((n % SequenceNumbers) + 1) % SequenceNumbers
  <1>1. \A m \in Nat \ {0} : n % m \in 0 .. m - 1
    OBVIOUS
  <1>2. SequenceNumbers \in Nat \ {0}
    BY DEF SequenceNumbers
  <1>3. (n + 1) % SequenceNumbers = ((n % SequenceNumbers) + 1) % SequenceNumbers
    BY DEF SequenceNumbers
  <1> QED
    BY <1>1, <1>2, <1>3

EngineMove == [UpdateEngine!EngineNext]_(UpdateEngine!engineVars)

(* An engine left alone makes no step of the abstract one. *)
LEMMA MoveNone ==
    ASSUME engine' = engine, env' = env
    PROVE  EngineMove
  BY DEF EngineMove, UpdateEngine!engineVars, WhileOpen

(* An engine that becomes idle closes. *)
LEMMA MoveCloses ==
    ASSUME engine'.state = "IDLE"
    PROVE  EngineMove
  BY DEF EngineMove, UpdateEngine!EngineNext, UpdateEngine!Close, WhileOpen

(* A session from nothing opens. *)
LEMMA MoveOpens ==
    ASSUME env' = env, env.package \in Package, engine' \in Engine,
           engine.state # "READY_TO_BOOT", Opens(engine', env.package)
    PROVE  EngineMove
  <1>1. env.package.size \in Nat /\ env.package.size > HeaderPage
    BY DEF Opens, Package
  <1>2. env.package.size - HeaderPage \in Nat
    BY <1>1, CloudOtaAssumption
  <1>3. engine'.next % SequenceNumbers \in 0 .. SequenceNumbers - 1
    BY ModularNext DEF Engine
  <1>4. UpdateEngine!Open
    BY <1>2, <1>3 DEF UpdateEngine!Open, Opens, WhileOpen
  <1> QED
    BY <1>4 DEF EngineMove, UpdateEngine!EngineNext

(* More bytes with one more packet are accepted. *)
LEMMA MoveAccepts ==
    ASSUME env' = env, engine \in Engine, engine' \in Engine, Accepts(engine, engine')
    PROVE  EngineMove
  <1>1. /\ engine.got \in Nat /\ engine'.got \in Nat /\ engine'.got > engine.got
        /\ engine.next \in Nat /\ engine'.next = engine.next + 1
        /\ engine.state = "RECEIVING" /\ engine'.state = "RECEIVING"
    BY DEF Engine, Accepts, Counted
  <1>2. engine'.next % SequenceNumbers = ((engine.next % SequenceNumbers) + 1) % SequenceNumbers
    BY <1>1, ModularNext
  <1>3. UpdateEngine!Accept
    BY <1>1, <1>2 DEF UpdateEngine!Accept, UpdateEngine!Counts, WhileOpen
  <1> QED
    BY <1>3 DEF EngineMove, UpdateEngine!EngineNext

(* As many bytes as announced finish a session. *)
LEMMA MoveFinishes ==
    ASSUME env' = env, engine \in Engine, engine' \in Engine,
           Finishes(engine, engine', env.package)
    PROVE  EngineMove
  <1>1. /\ engine.got \in Nat /\ engine'.got \in Nat /\ engine.next \in Nat
        /\ engine.state = "RECEIVING" /\ engine'.state = "READY_TO_BOOT"
        /\ engine'.got = env.package.size - HeaderPage
        /\ \/ engine'.got > engine.got /\ engine'.next = engine.next + 1
           \/ engine'.got = engine.got /\ engine'.next = engine.next
    BY DEF Engine, Finishes, Counted
  <1>2. engine'.next = engine.next + 1 =>
           engine'.next % SequenceNumbers = ((engine.next % SequenceNumbers) + 1) % SequenceNumbers
    BY <1>1, ModularNext
  <1>3. UpdateEngine!Finish
    BY <1>1, <1>2 DEF UpdateEngine!Finish, UpdateEngine!Counts, WhileOpen
  <1> QED
    BY <1>3 DEF EngineMove, UpdateEngine!EngineNext

(* A step that only polls. *)
LEMMA MovePolls ==
    ASSUME CoreInv, env' = env, engine' = Polled
    PROVE  EngineMove
  BY PolledEngine, MoveNone, MoveCloses

(* A step into RETRY that nothing was written before. *)
LEMMA MoveRetries ==
    ASSUME env' = env, NEW c, NEW client, NEW session \in Engine,
           Abortable(client, session), EnterRetry(c, client, session),
           session = engine \/ session.state = "IDLE"
    PROVE  EngineMove
  <1>1. CASE session.state = "RECEIVING"
    <2>1. engine' = [session EXCEPT !.state = "IDLE"]
      BY <1>1 DEF EnterRetry, Abort, Abortable
    <2> QED
      BY <2>1, MoveCloses DEF Engine
  <1>2. CASE session.state # "RECEIVING"
    <2>1. engine' = session
      BY <1>2 DEF EnterRetry, Abort
    <2> QED
      BY <2>1, MoveNone, MoveCloses
  <1> QED
    BY <1>1, <1>2

(* A byte of a body is one of these, through cloud_ota_write. *)
LEMMA MoveBodyCell ==
    ASSUME CoreInv, env \in Environment, env' = env, engine.state # "READY_TO_BOOT",
           NEW right \in BOOLEAN, BodyCell(right)
    PROVE  EngineMove
  <1>1. env.package \in Package
    BY ControllerAssumption DEF Environment
  <1>2. PICK o \in Write(cloud, Polled, env.package, right) :
           IF ~o.ok
           THEN EnterRetry([ctl EXCEPT !.binary = FALSE], o.cloud, o.engine)
           ELSE cloud' = o.cloud /\ engine' = o.engine
    BY DEF BodyCell, Results
  <1>3. /\ o.engine \in Engine /\ Abortable(o.cloud, o.engine)
        /\ \/ o.engine = Polled
           \/ o.ok /\ Accepts(Polled, o.engine)
           \/ o.ok /\ Opens(o.engine, env.package)
    BY <1>1, PolledEngine, WriteOutcome DEF CoreInv, CoreTypes
  <1>4. Polled = engine \/ Polled.state = "IDLE"
    BY PolledEngine
  <1>5. CASE ~o.ok
    BY <1>2, <1>3, <1>4, <1>5, MoveRetries
  <1>6. CASE o.ok
    <2>1. engine' = o.engine /\ engine \in Engine
      BY <1>2, <1>6 DEF CoreInv, CoreTypes
    <2>2. CASE o.engine = Polled
      BY <2>1, <2>2, MovePolls
    <2>3. CASE Accepts(Polled, o.engine)
      <3>1. Polled = engine
        BY <1>4, <2>3 DEF Accepts
      <3> QED
        BY <1>3, <2>1, <2>3, <3>1, MoveAccepts
    <2>4. CASE Opens(o.engine, env.package)
      BY <1>1, <1>3, <2>1, <2>4, MoveOpens
    <2> QED
      BY <1>3, <2>2, <2>3, <2>4
  <1> QED
    BY <1>5, <1>6

(* So is the OK after a chunk, through cloud_ota_finish. *)
LEMMA MoveDownloadOk ==
    ASSUME CoreInv, env \in Environment, env' = env, DownloadOk
    PROVE  EngineMove
  <1> DEFINE c == [ctl EXCEPT !.offset = @ + ctl.chunk]
  <1>1. env.package \in Package
    BY ControllerAssumption DEF Environment
  <1>2. \/ engine' = Polled
        \/ \E o \in Finish(cloud, Polled, env.package) :
              IF ~o.ok THEN EnterRetry(c, o.cloud, o.engine)
              ELSE cloud' = o.cloud /\ engine' = o.engine
    BY DEF DownloadOk, Results
  <1>3. ASSUME NEW o \in Finish(cloud, Polled, env.package),
               IF ~o.ok THEN EnterRetry(c, o.cloud, o.engine)
               ELSE cloud' = o.cloud /\ engine' = o.engine
        PROVE  EngineMove
    <2>1. /\ o.engine \in Engine /\ Abortable(o.cloud, o.engine)
          /\ \/ o.engine = Polled
             \/ Accepts(Polled, o.engine)
             \/ Finishes(Polled, o.engine, env.package)
      BY <1>1, <1>3, PolledClient, FinishOutcome, Zenon
    <2>2. engine \in Engine /\ (Polled = engine \/ Polled.state = "IDLE")
      BY PolledEngine DEF CoreInv, CoreTypes
    <2>3. CASE o.engine = Polled
      BY <1>3, <2>1, <2>2, <2>3, MoveRetries, MovePolls
    <2>4. CASE Accepts(Polled, o.engine) \/ Finishes(Polled, o.engine, env.package)
      <3>1. Polled = engine
        BY <2>2, <2>4 DEF Accepts, Finishes
      <3>2. \/ engine' = o.engine
            \/ engine'.state = "IDLE"
        <4>1. CASE EnterRetry(c, o.cloud, o.engine) /\ o.engine.state = "RECEIVING"
          <5>1. engine' = [o.engine EXCEPT !.state = "IDLE"]
            BY <2>1, <4>1 DEF EnterRetry, Abort, Abortable
          <5> QED
            BY <2>1, <5>1 DEF Engine
        <4>2. CASE EnterRetry(c, o.cloud, o.engine) /\ o.engine.state # "RECEIVING"
          <5>1. engine' = o.engine
            BY <4>2 DEF EnterRetry, Abort
          <5> QED
            BY <5>1
        <4> QED
          BY <1>3, <4>1, <4>2
      <3> QED
        BY <2>1, <2>2, <2>4, <3>1, <3>2, MoveAccepts, MoveFinishes, MoveCloses
    <2> QED
      BY <2>1, <2>3, <2>4
  <1> QED
    BY <1>2, <1>3, MovePolls

(* So is whatever else comes. *)
LEMMA MoveReceive ==
    ASSUME CoreInv, env \in Environment, env' = env, Receive, engine.state # "READY_TO_BOOT"
    PROVE  EngineMove
  <1>1. CASE \/ Nothing \/ Prompt \/ StartOta \/ SetupOk \/ SizeOk
    BY <1>1, MovePolls DEF Nothing, Prompt, StartOta, SetupOk, SizeOk
  <1>2. ASSUME NEW c, EnterRetry(c, cloud, Polled)
        PROVE  EngineMove
    BY <1>2, PolledEngine, MoveRetries
  <1>3. CASE BodyPrefix \/ Trouble \/ RangeOk \/ \E exact \in BOOLEAN : BodyFrame(exact)
    <2>1. engine' = Polled \/ \E c \in {ctl, [ctl EXCEPT !.binary = FALSE]} :
                                 EnterRetry(c, cloud, Polled)
      BY <1>3 DEF BodyPrefix, Trouble, RangeOk, BodyFrame
    <2> QED
      BY <1>2, <2>1, MovePolls
  <1>4. ASSUME NEW n \in Sizes, SizeReported(n)
        PROVE  EngineMove
    <2>1. \/ engine' = Polled
          \/ EnterRetry(ctl, Begin(n), Polled) \/ EnterRetry(ctl, cloud, Polled)
      BY <1>4 DEF SizeReported
    <2>2. Abortable(Begin(n), Polled)
      BY <1>4, PolledEngine DEF SizeReported, CoreInv, AttemptStartsClean, Abortable, Polled
    <2> QED
      BY <1>2, <2>1, <2>2, PolledEngine, MovePolls, MoveRetries
  <1> QED
    BY <1>1, <1>3, <1>4, MoveBodyCell, MoveDownloadOk DEF Receive

(* Every step of the device is a step of the engine. *)
LEMMA DeviceMove ==
    ASSUME DeviceInv, [DeviceNext]_deviceVars
    PROVE  EngineMove
  <1>1. CoreInv /\ env \in Environment
    BY DEF DeviceInv, HandoffTypeOK, EspTypeOK
  <1>2. CASE Top
    <2>1. engine.state # "READY_TO_BOOT" /\ Receive /\ env' = env
      BY <1>2 DEF DeviceInv, ReadyInv, Top
    <2> QED
      BY <1>1, <2>1, MoveReceive
  <1>3. ASSUME Tick, env' = env
        PROVE  EngineMove
    <2>1. engine' = engine \/ EnterRetry(ctl, cloud, engine)
      BY <1>3 DEF Tick
    <2>2. engine \in Engine /\ Abortable(cloud, engine)
      BY <1>1 DEF CoreInv, CoreTypes, ClientSession, Abortable
    <2> QED
      BY <1>3, <2>1, <2>2, MoveNone, MoveRetries
  <1>4. CASE Bottom
    BY <1>3, <1>4 DEF Bottom
  <1>5. CASE Expire \/ (\E start \in {"first", "second"} : Elapse(start)) \/ HandoffDue
             \/ UNCHANGED deviceVars
    BY <1>5, MoveNone DEF Expire, Elapse, HandoffDue, deviceVars, vars
  <1>6. CASE AppStarts \/ DeviceReset \/ (AppBottom /\ StartsUp(mailbox))
    BY <1>6, ClearedFacts, MoveCloses DEF AppStarts, DeviceReset, StartsUp
  <1>7. CASE AppBottom /\ ~StartsUp(mailbox)
    BY <1>3, <1>7 DEF AppBottom
  <1>8. CASE AppTop
    <2>1. env' = env
      BY <1>8 DEF AppTop
    <2>2. CASE Trouble \/ SetupOk
      <3>1. engine' = Polled \/ EnterRetry(ctl, cloud, Polled)
        BY <2>2 DEF Trouble, SetupOk
      <3> QED
        BY <1>1, <2>1, <3>1, PolledEngine, MovePolls, MoveRetries
    <2>3. CASE engine' = engine
      BY <2>1, <2>3, MoveNone
    <2> QED
      BY <1>8, <2>2, <2>3 DEF AppTop, AppAccept, AppNothing
  <1> QED
    BY <1>2, <1>4, <1>5, <1>6, <1>7, <1>8 DEF DeviceNext, Runs, Next

(* The engine the cloud client is modelled on is that of UpdateEngine.tla, *)
(* which the update session of bl_update.c implements: the two ways to     *)
(* drive a session, from the serial line and from the cloud, meet at one   *)
(* specification.                                                          *)
THEOREM CloudDrivesEngine == DeviceSpec => DrivesUpdateEngine
  <1>1. DeviceInit => UpdateEngine!EngineInit
    BY DEF DeviceInit, Init, IdleEngine, UpdateEngine!EngineInit, WhileOpen
  <1>2. DeviceInv /\ [DeviceNext]_deviceVars =>
           [UpdateEngine!EngineNext]_(UpdateEngine!engineVars)
    BY DeviceMove DEF EngineMove
  <1> QED
    BY <1>1, <1>2, AlwaysInv, PTL DEF DeviceSpec, DrivesUpdateEngine, UpdateEngine!EngineSpec

=============================================================================
