------------------------------ MODULE SerialLink ------------------------------
(***************************************************************************)
(* The PC tool at the other end of the bootloader's serial line            *)
(* (pc_tool/src/tm4c_ota): cli.py makes one client per invocation,         *)
(* client.py numbers its requests from zero and transport.py sends each of *)
(* them up to Retries + 1 times, until an answer matches it.  The device   *)
(* is that of Bootloader.tla; here its commands are the frames that come.  *)
(*                                                                         *)
(* A frame is lost (damage makes it so), or comes after those before it.   *)
(* Timers run out in the order their lengths give: the second of a session *)
(* and the second of a request each exceed the time a command, a start-up  *)
(* or a frame takes, and START's ninety exceed the update window's sixty.  *)
(* On a "slow" line, unlike a "prompt" one, any may also run out early.    *)
(***************************************************************************)
EXTENDS Bootloader, Sequences

CONSTANTS
    Script,         \* the invocations: "info", "update" or "reset"
    File,           \* the header of the image the user has
    Chunk,          \* cells of a DATA
    Retries,        \* 3 in the code
    MaxTrouble      \* a bound on the frames lost and the timers that are early

Parts == (File.size + Chunk - 1) \div Chunk

(* The client refuses a file that is damaged, or not for a slot.  A DATA   *)
(* of 256 bytes is a part of a flash page and is whole words, and the size *)
(* of a slot is far from 2^32.                                             *)
ASSUME LinkAssumption ==
    /\ Script \in Seq({"info", "update", "reset"}) /\ Script # <<>>
    /\ Chunk \in Nat \ {0} /\ PageSize % Chunk = 0 /\ Chunk % WordSize = 0
    /\ Retries \in Nat /\ MaxTrouble \in Nat
    /\ File \in Headers /\ HeaderValid(File, File.target)
    /\ LinkSlot[File.payload] = File.target
    /\ Lengths = 1 .. Chunk /\ Contents = {File.payload, Junk}
    /\ Parts + 4 <= SeqMod /\ SlotSize < LenMod

VARIABLES
    host,       \* the invocation, where it stands and what it came to
    toDevice,   \* the frames on their way to the device
    toHost,     \* the frames on their way to the host
    trouble,    \* the frames lost and the timers that were early
    since,      \* what the device has done since the host last sent
    mishap,     \* history: trouble, or the end of the window, in this invocation
    line        \* "prompt" or "slow"

linkVars == <<host, toDevice, toHost, trouble, since, mishap, line>>

(* The requests of an invocation, in order. *)
Requests(cli) ==
    CASE cli = "info" -> <<"GET_INFO">>
      [] cli = "reset" -> <<"RESET">>
      [] cli = "update" -> <<"GET_INFO", "START_UPDATE">> \o [i \in 1 .. Parts |-> "DATA"]
                               \o <<"END_UPDATE", "GET_INFO">>

NewHost(at) == [at |-> at, step |-> 1, sends |-> 0, waiting |-> FALSE, result |-> "going"]

Invocation == Script[host.at]
LastStep == host.step = Len(Requests(Invocation))

(* Packet(command, self._sequence, payload): the sequence tells which part *)
(* of the file a DATA carries.                                             *)
Request == [command |-> Requests(Invocation)[host.step], seq |-> host.step - 1]

(* What GET_INFO reports and update() looks at. *)
Info == [active |-> table.active, state |-> table.slot[File.target].state]

LinkTypeOK ==
    LET seqs == 0 .. Parts + 3
        commands == {"GET_INFO", "START_UPDATE", "DATA", "END_UPDATE", "RESET"}
    IN  /\ host \in [at: DOMAIN Script, step: 1 .. Parts + 4, sends: 0 .. Retries + 1,
                     waiting: BOOLEAN, result: {"going", "done", "failed"}]
        /\ toDevice \in Seq([command: commands, seq: seqs])
        /\ toHost \in Seq([command: commands, seq: seqs, reply: Reply,
                           info: [active: Slots \cup {NONE}, state: State]])
        /\ trouble \in 0 .. MaxTrouble
        /\ since \subseteq {"heard", "jumped"}
        /\ mishap \in BOOLEAN /\ line \in {"prompt", "slow"}

LinkInit ==
    /\ Init
    /\ host = NewHost(1) /\ toDevice = <<>> /\ toHost = <<>>
    /\ trouble = 0 /\ since = {} /\ mishap = FALSE
    /\ line \in {"prompt", "slow"}

Trouble ==
    /\ trouble < MaxTrouble
    /\ trouble' = trouble + 1
    /\ mishap' = TRUE

(* A timer runs out: when it is due, or on a slow line before. *)
RunsOut(due) ==
    \/ due /\ UNCHANGED <<trouble, mishap>>
    \/ ~due /\ line = "slow" /\ Trouble

-----------------------------------------------------------------------------
(* The host.                                                               *)

(* serial.write(packet.encode()) *)
Send ==
    /\ host.result = "going" /\ ~host.waiting
    /\ host' = [host EXCEPT !.sends = @ + 1, !.waiting = TRUE]
    /\ \/ toDevice' = Append(toDevice, Request) /\ UNCHANGED <<trouble, mishap>>
       \/ Trouble /\ UNCHANGED toDevice
    /\ since' = {}
    /\ UNCHANGED <<vars, toHost, line>>

(* Mutants: one send too many, no second send, and sends that start over. *)
UnansweredLate ==
    IF host.sends <= Retries + 1 THEN [host EXCEPT !.waiting = FALSE]
    ELSE [host EXCEPT !.waiting = FALSE, !.result = "failed"]

UnansweredOnce == [host EXCEPT !.waiting = FALSE, !.result = "failed"]

UnansweredRestarts == [host EXCEPT !.waiting = FALSE, !.sends = 0]

(* The loop goes on to the next send, or RetryExhausted is raised. *)
Unanswered ==
    IF host.sends <= Retries THEN [host EXCEPT !.waiting = FALSE]
    ELSE [host EXCEPT !.waiting = FALSE, !.result = "failed"]

Ended(result) == [host EXCEPT !.waiting = FALSE, !.result = result]

(* update() refuses an image for the active slot, and ends with a look at  *)
(* the state of its slot.                                                  *)
Acknowledged(info) ==
    IF Invocation = "update" /\ host.step = 1 /\ info.active = File.target
    THEN Ended("failed")
    ELSE IF Invocation = "update" /\ LastStep
    THEN Ended(IF info.state = "PENDING" THEN "done" ELSE "failed")
    ELSE IF LastStep THEN Ended("done")
    ELSE [host EXCEPT !.step = @ + 1, !.sends = 0, !.waiting = FALSE]

(* Mutant: an answer is not compared with the request. *)
MatchesAny(m) == TRUE

Matches(m) == m.command = Request.command /\ m.seq = Request.seq

(* A frame that is no answer to this request uses up a send. *)
Receive ==
    /\ host.waiting /\ toHost # <<>>
    /\ toHost' = Tail(toHost)
    /\ LET m == Head(toHost) IN
       host' = IF ~Matches(m) THEN Unanswered
               ELSE IF m.reply = "ACK" THEN Acknowledged(m.info)
               ELSE Ended("failed")
    /\ UNCHANGED <<vars, toDevice, trouble, since, mishap, line>>

Silent == toDevice = <<>> /\ toHost = <<>>

(* The device is not in start-up or busy with a command. *)
AtEase == pc \in {"app", "wild"} \/ (pc = "loop" /\ Listening)

(* Mutant: the device waits longer for a packet than the host does. *)
OverdueFirst ==
    /\ toDevice = <<>> /\ toHost = <<>> /\ AtEase

(* A request times out when nothing is under way.  The session of a device *)
(* that has not heard it has then been silent for longer, and the window   *)
(* in which START came is over.                                            *)
Overdue ==
    /\ toDevice = <<>> /\ toHost = <<>> /\ AtEase
    /\ "heard" \in since \/ upd.state # "RECEIVING"
    /\ Request.command = "START_UPDATE" =>
          pc # "loop" \/ "jumped" \in since \/ run = NONE

(* _next_packet returns None. *)
HostTimeout ==
    /\ host.waiting
    /\ RunsOut(Overdue)
    /\ host' = Unanswered
    /\ UNCHANGED <<vars, toDevice, toHost, since, line>>

(* The user's next command: a new client opens the port, which may or may  *)
(* not discard what has come for the last one.                             *)
NextInvocation ==
    /\ host.result # "going" /\ host.at < Len(Script)
    /\ host' = NewHost(host.at + 1)
    /\ toHost' \in {<<>>, toHost}
    /\ mishap' = (pc \in {"app", "wild"})
    /\ UNCHANGED <<vars, toDevice, trouble, since, line>>

-----------------------------------------------------------------------------
(* The device.                                                             *)

FileOffset(f) == (f.seq - 2) * Chunk
FileLength(f) == IF FileOffset(f) + Chunk <= File.size THEN Chunk ELSE File.size - FileOffset(f)

(* The payload a DATA frame carries: the file's, if the frame is for the   *)
(* place the session stands at, or is that of the packet stored last.      *)
Content(f) ==
    LET stored == IF \E p \in upd.last : p.seq = f.seq THEN FileLength(f) ELSE 0
    IN  IF upd.received = FileOffset(f) + stored THEN File.payload ELSE Junk

(* uart_response *)
Answer(r) ==
    LET f == Head(toDevice) IN
    /\ toDevice' = Tail(toDevice)
    /\ \/ /\ toHost' = Append(toHost, [command |-> f.command, seq |-> f.seq, reply |-> r,
                                       info |-> Info])
          /\ UNCHANGED <<trouble, mishap>>
       \/ Trouble /\ UNCHANGED toHost
    /\ since' = since \cup {"heard"}
    /\ UNCHANGED <<host, line>>

(* A frame that bl_update_handle answers at once. *)
Handle ==
    /\ pc = "loop" /\ toDevice # <<>>
    /\ LET f == Head(toDevice) IN
       \E r \in Reply :
          /\ \/ f.command = "GET_INFO" /\ r = "ACK" /\ NoEffect(r)
             \/ f.command = "START_UPDATE" /\ Start(File, f.seq, r)
             \/ f.command = "DATA" /\ Data(f.seq, FileLength(f), Content(f), r)
             \/ f.command = "END_UPDATE" /\ (EndRejected(r) \/ EndUnverified(r) \/ EndHeaderError(r))
          /\ Answer(r)
    /\ UNCHANGED bootVars
    /\ SessionHistory

(* END_UPDATE that goes on to its commit, and its answer after that. *)
HandleEnd ==
    /\ pc = "loop" /\ toDevice # <<>> /\ Head(toDevice).command = "END_UPDATE"
    /\ EndCommit
    /\ UNCHANGED <<bootVars, linkVars>>
    /\ SessionHistory

AnswerEnd ==
    /\ pc = "loop" /\ toDevice # <<>>
    /\ \E r \in Reply : (EndDone(r) \/ EndFailed(r)) /\ Answer(r)
    /\ UNCHANGED <<bootVars, historyVars>>

HandleReset ==
    /\ toDevice # <<>> /\ Head(toDevice).command = "RESET"
    /\ HostReset
    /\ toDevice' = Tail(toDevice)
    /\ since' = since \cup {"heard"}
    /\ UNCHANGED <<host, toHost, trouble, mishap, line>>

(* Bytes that come during start-up or to the application are lost, but the *)
(* receive FIFO may keep some until the loop begins.                       *)
Unheard ==
    /\ pc # "loop" /\ toDevice # <<>>
    /\ toDevice' = Tail(toDevice)
    /\ UNCHANGED <<vars, host, toHost, trouble, since, mishap, line>>

(* What the device does by itself. *)
DeviceRuns ==
    /\ \/ LoadMetadata \/ ReconstructMetadata \/ Commit \/ CommitReturns \/ Decide
       \/ ReadyReset \/ AppConfirm
    /\ UNCHANGED linkVars

(* A session is not silent while a first request or an answer is under way.*)
Exchanging ==
    /\ host.result = "going"
    /\ toHost # <<>> \/ host.sends = 0 \/ (host.sends = 1 /\ toDevice # <<>>)

SessionTimesOut ==
    /\ RunsOut(~Exchanging)
    /\ SessionTimeout
    /\ UNCHANGED <<host, toDevice, toHost, since, line>>

(* The window ends; the one END's reset opens outlasts the last request. *)
WindowEnds ==
    /\ ~(host.result = "going" /\ Invocation = "update" /\ LastStep)
    /\ Jump
    /\ since' = since \cup {"jumped"}
    /\ mishap' = TRUE
    /\ UNCHANGED <<host, toDevice, toHost, trouble, line>>

LinkNext ==
    \/ Send \/ Receive \/ HostTimeout \/ NextInvocation
    \/ Handle \/ HandleEnd \/ AnswerEnd \/ HandleReset \/ Unheard
    \/ DeviceRuns \/ SessionTimesOut \/ WindowEnds

LinkSpec == LinkInit /\ [][LinkNext]_<<vars, linkVars>>

(* Both programs run on, and both clocks.  Nothing in either can go on for *)
(* ever without the other, so that some step is taken is all they need.    *)
LinkFairSpec == LinkSpec /\ WF_<<vars, linkVars>>(LinkNext)

=============================================================================
