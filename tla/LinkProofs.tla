------------------------------ MODULE LinkProofs ------------------------------
(***************************************************************************)
(* Proofs about the PC tool and the bootloader on a serial line, for any   *)
(* script, file, number of retries and trouble.  The device of SerialLink  *)
(* is the bootloader, driven by a host that keeps its sessions sound.      *)
(***************************************************************************)
EXTENDS LinkProperties, BootProofs, SequenceTheorems

-----------------------------------------------------------------------------
(* Requests.                                                               *)

(* The file fits a slot, and its parts cover it. *)
LEMMA FileFacts ==
    /\ File \in Header /\ File.ok /\ File.target \in Slots /\ File.payload \in Payload
    /\ File.size \in 1 .. SlotSize /\ SlotSize \in Nat /\ Addressed(File) = File.target
    /\ Chunk \in Nat \ {0} /\ Parts \in Nat \ {0} /\ SeqMod \in Nat \ {0} /\ Parts + 4 <= SeqMod
    /\ (Parts - 1) * Chunk < File.size /\ File.size <= Parts * Chunk
  <1>1. /\ File \in Headers /\ HeaderValid(File, File.target)
        /\ Chunk \in Nat \ {0} /\ Parts + 4 <= SeqMod
    BY LinkAssumption
  <1>2. File \in Header /\ SlotSize \in Nat /\ SeqMod \in Nat \ {0}
    BY <1>1, BootloaderAssumption, SlotSizeAssumption, BlUpdateAssumption
  <1>3. /\ File.ok /\ File.target \in Slots /\ File.payload \in Payload
        /\ File.size \in 1 .. SlotSize /\ File.size \in Nat
    BY <1>1, <1>2 DEF Header, HeaderValid
  <1>4. Addressed(File) = File.target
    BY <1>3 DEF Addressed, Slots
  <1> DEFINE n == File.size + Chunk - 1
  <1>5. n \in Nat /\ Chunk <= n
    BY <1>1, <1>3
  <1> HIDE DEF n
  <1>6. /\ n \div Chunk \in Int /\ n % Chunk \in 0 .. Chunk - 1
        /\ n = Chunk * (n \div Chunk) + (n % Chunk)
    BY <1>1, <1>5
  <1>7. Parts = n \div Chunk
    BY DEF Parts, n
  <1>8. n = Parts * Chunk + (n % Chunk) /\ Parts \in Int
    BY <1>1, <1>6, <1>7
  <1>9. Parts * Chunk = (Parts - 1) * Chunk + Chunk
    BY <1>1, <1>8
  <1>10. (Parts - 1) * Chunk < File.size /\ File.size <= Parts * Chunk
    <2> DEFINE p == Parts * Chunk
               q == (Parts - 1) * Chunk
               m == n % Chunk
    <2>1. n = File.size + Chunk - 1 /\ p \in Int /\ q \in Int /\ m \in 0 .. Chunk - 1
      BY <1>1, <1>6, <1>8 DEF n
    <2>2. n = p + m /\ p = q + Chunk
      BY <1>8, <1>9
    <2> HIDE DEF p, q, m
    <2>3. q < File.size /\ File.size <= p
      BY <2>1, <2>2, <1>1, <1>3
    <2> QED
      BY <2>3 DEF p, q
  <1>11. Parts \in Nat \ {0}
    <2>1. CASE Parts <= 0
      <3> DEFINE z == Parts
      <3>1. z \in Int /\ z <= 0 /\ Chunk \in Nat
        BY <1>1, <1>8, <2>1
      <3> HIDE DEF z
      <3>2. z * Chunk <= 0 /\ z * Chunk \in Int
        BY <3>1
      <3>3. File.size <= z * Chunk
        BY <1>10 DEF z
      <3> QED
        BY <1>3, <3>2, <3>3
    <2> QED
      BY <1>8, <2>1
  <1> QED
    BY <1>1, <1>2, <1>3, <1>4, <1>10, <1>11

CommandName == {"GET_INFO", "START_UPDATE", "DATA", "END_UPDATE", "RESET"}

(* Two lists of commands, one after the other. *)
LEMMA Joined ==
    ASSUME NEW a \in Seq(CommandName), NEW b \in Seq(CommandName)
    PROVE  LET c == a \o b IN
           /\ c \in Seq(CommandName) /\ Len(c) = Len(a) + Len(b) /\ Len(a) \in Nat /\ Len(b) \in Nat
           /\ \A i \in 1 .. Len(a) : c[i] = a[i]
           /\ \A i \in 1 .. Len(b) : c[Len(a) + i] = b[i]
  BY ConcatProperties, LenProperties

(* What an invocation asks for, in order. *)
LEMMA RequestsFacts ==
    /\ Requests("info") = <<"GET_INFO">> /\ Requests("reset") = <<"RESET">>
    /\ LET r == Requests("update") IN
       /\ Len(r) = Parts + 4 /\ r[1] = "GET_INFO" /\ r[2] = "START_UPDATE"
       /\ \A i \in 3 .. Parts + 2 : r[i] = "DATA"
       /\ r[Parts + 3] = "END_UPDATE" /\ r[Parts + 4] = "GET_INFO"
  <1> DEFINE a == <<"GET_INFO", "START_UPDATE">>
             d == [i \in 1 .. Parts |-> "DATA"]
             e == <<"END_UPDATE", "GET_INFO">>
             r == Requests("update")
  <1>1. Parts \in Nat \ {0}
    BY FileFacts
  <1>2. /\ a \in Seq(CommandName) /\ Len(a) = 2 /\ a[1] = "GET_INFO" /\ a[2] = "START_UPDATE"
        /\ e \in Seq(CommandName) /\ Len(e) = 2 /\ e[1] = "END_UPDATE" /\ e[2] = "GET_INFO"
    BY DEF CommandName
  <1>3. d \in Seq(CommandName) /\ Len(d) = Parts /\ \A i \in 1 .. Parts : d[i] = "DATA"
    <2>1. d \in Seq(CommandName)
      BY <1>1 DEF CommandName
    <2> QED
      BY <1>1, <2>1
  <1> DEFINE w == a \o d
  <1>4. r = w \o e
    BY DEF Requests
  <1> HIDE DEF a, d, e, r, w
  <1>5. /\ w \in Seq(CommandName) /\ Len(w) = 2 + Parts
        /\ \A i \in 1 .. 2 : w[i] = a[i]
        /\ \A i \in 1 .. Parts : w[2 + i] = d[i]
    <2>2. /\ w \in Seq(CommandName) /\ Len(w) = Len(a) + Len(d)
          /\ \A i \in 1 .. Len(a) : w[i] = a[i]
          /\ \A i \in 1 .. Len(d) : w[Len(a) + i] = d[i]
      BY <1>2, <1>3, Joined, Zenon DEF w
    <2> QED
      BY <1>2, <1>3, <2>2, Zenon
  <1>6. /\ Len(r) = (2 + Parts) + 2
        /\ \A i \in 1 .. 2 + Parts : r[i] = w[i]
        /\ \A i \in 1 .. 2 : r[(2 + Parts) + i] = e[i]
    <2>2. /\ Len(r) = Len(w) + Len(e)
          /\ \A i \in 1 .. Len(w) : r[i] = w[i]
          /\ \A i \in 1 .. Len(e) : r[Len(w) + i] = e[i]
      BY <1>2, <1>4, <1>5, Joined, Zenon
    <2> QED
      BY <1>2, <1>5, <2>2, Zenon
  <1>7. r[1] = "GET_INFO" /\ r[2] = "START_UPDATE"
    BY <1>1, <1>2, <1>5, <1>6
  <1>8. \A i \in 3 .. Parts + 2 : r[i] = "DATA"
    <2> SUFFICES ASSUME NEW i \in 3 .. Parts + 2 PROVE r[i] = "DATA"
      OBVIOUS
    <2>1. i - 2 \in 1 .. Parts /\ 2 + (i - 2) = i /\ i \in 1 .. 2 + Parts
      BY <1>1
    <2>2. w[2 + (i - 2)] = d[i - 2] /\ d[i - 2] = "DATA"
      BY <1>3, <1>5, <2>1, Zenon
    <2>3. r[i] = w[i]
      BY <1>6, <2>1, Zenon
    <2> QED
      BY <2>1, <2>2, <2>3
  <1>9. r[Parts + 3] = "END_UPDATE" /\ r[Parts + 4] = "GET_INFO" /\ Len(r) = Parts + 4
    <2>1. (2 + Parts) + 1 = Parts + 3 /\ (2 + Parts) + 2 = Parts + 4 /\ 1 \in 1 .. 2 /\ 2 \in 1 .. 2
      BY <1>1
    <2>2. r[(2 + Parts) + 1] = e[1] /\ r[(2 + Parts) + 2] = e[2]
      BY <1>6, <2>1, Zenon
    <2> QED
      BY <1>2, <1>6, <2>1, <2>2, Zenon
  <1>10. Requests("info") = <<"GET_INFO">> /\ Requests("reset") = <<"RESET">>
    BY DEF Requests
  <1> QED
    BY <1>7, <1>8, <1>9, <1>10 DEF r

(* The frames that the tool sends: the number of a frame tells where in an *)
(* invocation it stands.                                                   *)
Asked ==
    {f \in [command: CommandName, seq: 0 .. Parts + 3] :
        /\ f.command = "START_UPDATE" => f.seq = 1
        /\ f.command = "DATA" => f.seq \in 2 .. Parts + 1
        /\ f.command = "END_UPDATE" => f.seq = Parts + 2
        /\ f.command = "GET_INFO" => f.seq \in {0, Parts + 3}
        /\ f.command = "RESET" => f.seq = 0}

Told == [command: CommandName, seq: 0 .. Parts + 3, reply: Reply,
         info: [active: Slots \cup {NONE}, state: State]]

Host == [at: DOMAIN Script, step: 1 .. Parts + 4, sends: 0 .. Retries + 1,
         waiting: BOOLEAN, result: {"going", "done", "failed"}]

(* What the host keeps of itself: it sends one request of its invocation   *)
(* at a time, and none too often.                                          *)
HostInv ==
    /\ host \in Host
    /\ host.step <= Len(Requests(Invocation))
    /\ host.result = "going" /\ ~host.waiting => host.sends <= Retries
    /\ host.waiting => host.result = "going" /\ host.sends # 0

LineInv ==
    /\ toDevice \in Seq(Asked) /\ toHost \in Seq(Told)
    /\ trouble \in 0 .. MaxTrouble
    /\ since \subseteq {"heard", "jumped"}
    /\ mishap \in BOOLEAN /\ line \in {"prompt", "slow"}

LinkInv == HostInv /\ LineInv

(* The type invariant, with room for what the proofs add to it. *)
LEMMA LinkTypes == LinkInv => LinkTypeOK
  <1>1. Asked \subseteq [command: CommandName, seq: 0 .. Parts + 3]
    BY DEF Asked
  <1>2. toDevice \in Seq(Asked) => toDevice \in Seq([command: CommandName, seq: 0 .. Parts + 3])
    BY <1>1, SeqMonotonic
  <1> QED
    BY <1>2 DEF LinkInv, HostInv, LineInv, LinkTypeOK, Host, Told, CommandName

(* What an invocation can be. *)
LEMMA InvocationFacts ==
    ASSUME host \in Host
    PROVE  /\ Invocation \in {"info", "update", "reset"}
           /\ Invocation = "update" => Len(Requests(Invocation)) = Parts + 4
           /\ Invocation # "update" => Len(Requests(Invocation)) = 1
           /\ host.at \in DOMAIN Script /\ host.at \in 1 .. Len(Script) /\ Len(Script) \in Nat
           /\ \A n \in DOMAIN Script : Script[n] \in {"info", "update", "reset"}
  <1>1. /\ Script \in Seq({"info", "update", "reset"}) /\ DOMAIN Script = 1 .. Len(Script)
        /\ Len(Script) \in Nat
    BY LinkAssumption
  <1>2. \A n \in DOMAIN Script : Script[n] \in {"info", "update", "reset"}
    BY <1>1, ElementOfSeq
  <1>3. host.at \in DOMAIN Script
    BY DEF Host
  <1>4. Invocation \in {"info", "update", "reset"}
    BY <1>2, <1>3 DEF Invocation
  <1>5. Len(Requests("info")) = 1 /\ Len(Requests("reset")) = 1 /\ Len(Requests("update")) = Parts + 4
    BY RequestsFacts
  <1>6. /\ Invocation = "update" => Len(Requests(Invocation)) = Parts + 4
        /\ Invocation # "update" => Len(Requests(Invocation)) = 1
    BY <1>4, <1>5, Zenon
  <1> QED
    BY <1>1, <1>2, <1>3, <1>4, <1>6

(* A request is a frame that the tool sends. *)
LEMMA RequestAsked ==
    ASSUME HostInv
    PROVE  Request \in Asked
  <1>1. host \in Host /\ host.step \in Nat /\ 1 <= host.step /\ Parts \in Nat
    BY FileFacts DEF HostInv, Host
  <1>2. Request.command = Requests(Invocation)[host.step] /\ Request.seq = host.step - 1
        /\ Request = [command |-> Requests(Invocation)[host.step], seq |-> host.step - 1]
    BY DEF Request
  <1>3. CASE Invocation = "update"
    <2>0. HostInv /\ Len(Requests("update")) = Parts + 4
      BY RequestsFacts
    <2>1. host.step <= Parts + 4
      BY <1>3, <2>0 DEF HostInv
    <2> DEFINE k == host.step
               q == Requests("update")[k]
    <2>2. k \in Nat /\ 1 <= k /\ k <= Parts + 4
      BY <1>1, <2>1
    <2>3. Request = [command |-> q, seq |-> k - 1]
      BY <1>2, <1>3
    <2>4. \/ k = 1 /\ q = "GET_INFO"
          \/ k = 2 /\ q = "START_UPDATE"
          \/ k \in 3 .. Parts + 2 /\ q = "DATA"
          \/ k = Parts + 3 /\ q = "END_UPDATE"
          \/ k = Parts + 4 /\ q = "GET_INFO"
      <3>1. k = 1 \/ k = 2 \/ k \in 3 .. Parts + 2 \/ k = Parts + 3 \/ k = Parts + 4
        BY <1>1, <2>2
      <3> HIDE DEF k
      <3> QED
        BY <3>1, RequestsFacts
    <2> HIDE DEF k, q
    <2> QED
      BY <1>1, <2>2, <2>3, <2>4 DEF Asked, CommandName
  <1>4. CASE Invocation # "update"
    <2>1. host.step <= Len(Requests(Invocation)) /\ Len(Requests(Invocation)) = 1
      BY <1>1, <1>4, InvocationFacts DEF HostInv
    <2>2. host.step = 1
      BY <1>1, <2>1
    <2>3. Requests(Invocation)[1] \in {"GET_INFO", "RESET"}
      <3>1. Requests("info")[1] = "GET_INFO" /\ Requests("reset")[1] = "RESET"
        BY RequestsFacts
      <3> QED
        BY <1>1, <1>4, <3>1, InvocationFacts, Zenon
    <2> QED
      BY <1>1, <1>2, <2>2, <2>3 DEF Asked, CommandName
  <1> QED
    BY <1>1, <1>3, <1>4

(* The part of the file a DATA carries: in the file and not empty. *)
LEMMA PartFacts ==
    ASSUME NEW k \in 2 .. Parts + 1
    PROVE  LET f == [seq |-> k] IN
           /\ FileOffset(f) = (k - 2) * Chunk /\ FileOffset(f) \in 0 .. File.size - 1
           /\ FileLength(f) \in 1 .. Chunk /\ FileOffset(f) + FileLength(f) <= File.size
           /\ FileLength(f) # Chunk => FileOffset(f) + FileLength(f) = File.size
  <1> DEFINE f == [seq |-> k]
             at == (k - 2) * Chunk
             end == (Parts - 1) * Chunk
  <1>1. /\ Chunk \in Nat \ {0} /\ Parts \in Nat \ {0} /\ File.size \in Nat
        /\ end < File.size /\ end \in Nat
    BY FileFacts
  <1>2. at \in Nat /\ at <= end
    <2>1. ASSUME NEW i \in Nat, NEW j \in Nat, NEW c \in Nat, i <= j
          PROVE  i * c \in Nat /\ i * c <= j * c
      BY <2>1
    <2>2. k - 2 \in Nat /\ Parts - 1 \in Nat /\ k - 2 <= Parts - 1
      BY <1>1
    <2> QED
      BY <1>1, <2>1, <2>2
  <1>3. FileOffset(f) = at
    BY DEF FileOffset
  <1>4. FileLength(f) = IF at + Chunk <= File.size THEN Chunk ELSE File.size - at
    BY <1>3 DEF FileLength
  <1> HIDE DEF at, end
  <1>5. /\ FileLength(f) \in 1 .. Chunk /\ at + FileLength(f) <= File.size
        /\ FileLength(f) # Chunk => at + FileLength(f) = File.size
        /\ at \in 0 .. File.size - 1
    BY <1>1, <1>2, <1>4
  <1> QED
    BY <1>3, <1>5 DEF at

-----------------------------------------------------------------------------
(* The device is the bootloader.                                           *)

(* What the device needs to know of the frames. *)
RequestInv == HostInv /\ toDevice \in Seq(Asked)

(* The frame the device looks at. *)
LEMMA HeadAsked ==
    ASSUME toDevice \in Seq(Asked), toDevice # <<>>
    PROVE  /\ Head(toDevice) \in Asked /\ Tail(toDevice) \in Seq(Asked)
           /\ Head(toDevice).seq \in 0 .. SeqMod - 1
  <1>1. Head(toDevice) \in Asked /\ Tail(toDevice) \in Seq(Asked)
    BY HeadTailProperties
  <1>2. Head(toDevice).seq \in 0 .. Parts + 3
    BY <1>1 DEF Asked
  <1> QED
    BY <1>1, <1>2, FileFacts

(* Each step of the line is one of the bootloader's, or none of its. *)
LEMMA DeviceStep ==
    ASSUME toDevice \in Seq(Asked), [LinkNext]_<<vars, linkVars>>
    PROVE  [Next]_vars
  <1>1. CASE UNCHANGED vars
    BY <1>1
  <1>2. CASE Send \/ Receive \/ HostTimeout \/ NextInvocation \/ Unheard \/ UNCHANGED <<vars, linkVars>>
    BY <1>2 DEF Send, Receive, HostTimeout, NextInvocation, Unheard
  <1>3. CASE Handle
    <2> DEFINE f == Head(toDevice)
    <2>1. /\ f \in Asked /\ f.seq \in 0 .. SeqMod - 1
          /\ pc = "loop" /\ UNCHANGED bootVars /\ SessionHistory
      BY <1>3, HeadAsked DEF Handle
    <2>2. PICK r \in Reply :
             \/ f.command = "GET_INFO" /\ r = "ACK" /\ NoEffect(r)
             \/ f.command = "START_UPDATE" /\ Start(File, f.seq, r)
             \/ f.command = "DATA" /\ Data(f.seq, FileLength(f), Content(f), r)
             \/ f.command = "END_UPDATE" /\ (EndRejected(r) \/ EndUnverified(r) \/ EndHeaderError(r))
      BY <1>3 DEF Handle
    <2> HIDE DEF f
    <2>3. CASE NoEffect(r) \/ EndRejected(r) \/ EndUnverified(r) \/ EndHeaderError(r)
      BY <2>1, <2>3 DEF Next, Command, End
    <2>4. CASE Start(File, f.seq, r)
      <3>1. File \in Headers
        BY LinkAssumption
      <3> QED
        BY <2>1, <2>4, <3>1 DEF Next, Command
    <2>5. CASE f.command = "DATA" /\ Data(f.seq, FileLength(f), Content(f), r)
      <3>1. f.seq \in 2 .. Parts + 1
        BY <2>1, <2>5 DEF Asked
      <3>2. FileLength(f) \in Lengths
        <4>1. FileLength([seq |-> f.seq]) = FileLength(f)
          BY DEF FileLength, FileOffset
        <4>2. FileLength([seq |-> f.seq]) \in 1 .. Chunk
          BY <3>1, PartFacts
        <4> QED
          BY <4>1, <4>2, LinkAssumption
      <3>3. Content(f) \in Contents
        BY LinkAssumption DEF Content
      <3> QED
        BY <2>1, <2>5, <3>2, <3>3 DEF Next, Command
    <2> QED
      BY <2>2, <2>3, <2>4, <2>5
  <1>4. CASE HandleEnd
    <2>1. "ACK" \in Reply
      BY DEF Reply
    <2> QED
      BY <1>4, <2>1 DEF HandleEnd, Next, Command, End
  <1>5. CASE AnswerEnd
    BY <1>5 DEF AnswerEnd, Next, EndReturns
  <1>6. CASE HandleReset \/ DeviceRuns \/ SessionTimesOut \/ WindowEnds
    BY <1>6 DEF HandleReset, DeviceRuns, SessionTimesOut, WindowEnds, Next
  <1> QED
    BY <1>1, <1>2, <1>3, <1>4, <1>5, <1>6 DEF LinkNext

(* What a step of the host makes of it. *)
LEMMA HostStep ==
    ASSUME HostInv, [LinkNext]_<<vars, linkVars>>
    PROVE  HostInv'
  <1>1. /\ host \in Host /\ Retries \in Nat /\ Parts \in Nat
        /\ host.step <= Len(Requests(Invocation))
        /\ host.result = "going" /\ ~host.waiting => host.sends <= Retries
        /\ host.waiting => host.result = "going" /\ host.sends # 0
    BY FileFacts, LinkAssumption DEF HostInv
  <1> DEFINE n == Len(Requests(Invocation))
  <1>2. n \in 1 .. Parts + 4
    <2>1. n = 1 \/ n = Parts + 4
      BY <1>1, InvocationFacts, Zenon
    <2> HIDE DEF n
    <2> QED
      BY <1>1, <2>1
  <1>k. host'.at = host.at => n' = n
    BY DEF Invocation
  <1>3. CASE host' = host
    BY <1>1, <1>3 DEF HostInv, Invocation
  <1>4. CASE Send
    <2>1. ~host.waiting /\ host' = [host EXCEPT !.sends = @ + 1, !.waiting = TRUE] /\ host.result = "going"
      BY <1>4 DEF Send
    <2>2. /\ host' \in Host /\ host'.at = host.at /\ host'.step = host.step
          /\ host'.waiting /\ host'.result = "going" /\ host'.sends # 0
      <3>1. host.sends + 1 \in 0 .. Retries + 1 /\ host.sends + 1 # 0
        BY <1>1, <2>1 DEF Host
      <3>2. host' = [host EXCEPT !.sends = host.sends + 1, !.waiting = TRUE]
        BY <2>1
      <3> QED
        BY <1>1, <2>1, <3>1, <3>2 DEF Host
    <2> HIDE DEF n
    <2>3. host'.step <= n'
      BY <1>1, <1>k, <2>2 DEF n
    <2> QED
      BY <2>2, <2>3 DEF HostInv, n
  <1>5. ASSUME host.waiting, host' = Unanswered
        PROVE  HostInv'
    BY <1>1, <1>5 DEF HostInv, Host, Invocation, Unanswered
  <1>6. ASSUME NEW result \in {"done", "failed"}, host' = Ended(result)
        PROVE  HostInv'
    BY <1>1, <1>6 DEF HostInv, Host, Invocation, Ended
  <1>7. ASSUME host.waiting, ~LastStep, host' = [host EXCEPT !.step = @ + 1, !.sends = 0, !.waiting = FALSE]
        PROVE  HostInv'
    <2>1. host.step + 1 <= n
      <3>1. host.step # n /\ host.step <= n /\ host.step \in Nat
        BY <1>1, <1>7 DEF LastStep, Host
      <3> HIDE DEF n
      <3> QED
        BY <1>2, <3>1
    <2> HIDE DEF n
    <2>3. host.step + 1 \in 1 .. Parts + 4 /\ 0 \in 0 .. Retries + 1
      BY <1>1, <1>2, <2>1 DEF Host
    <2>2. /\ host'.at = host.at /\ host'.step = host.step + 1 /\ ~host'.waiting
          /\ host'.sends = 0 /\ host' \in Host /\ host'.result = host.result
      <3>2. host' = [host EXCEPT !.step = host.step + 1, !.sends = 0, !.waiting = FALSE]
        BY <1>7
      <3> QED
        BY <1>1, <2>3, <3>2 DEF Host
    <2>5. host'.step <= n'
      BY <1>k, <2>1, <2>2
    <2> QED
      BY <1>1, <1>7, <2>2, <2>5 DEF HostInv, n
  <1>8. CASE Receive
    <2>1. host.waiting
      BY <1>8 DEF Receive
    <2>2. \/ host' = Unanswered
          \/ host' = Acknowledged(Head(toHost).info)
          \/ host' = Ended("failed")
      BY <1>8 DEF Receive
    <2> QED
      BY <1>5, <1>6, <1>7, <2>1, <2>2 DEF Acknowledged
  <1>9. CASE HostTimeout
    BY <1>5, <1>9 DEF HostTimeout
  <1>10. CASE NextInvocation
    <2>1. host' = NewHost(host.at + 1) /\ host.at < Len(Script)
      BY <1>10 DEF NextInvocation
    <2>2. host.at + 1 \in DOMAIN Script
      BY <1>1, <2>1, InvocationFacts, LinkAssumption
    <2>3. host' \in Host /\ host'.step = 1 /\ host'.sends = 0 /\ ~host'.waiting
      BY <1>1, <2>1, <2>2 DEF Host, NewHost
    <2>4. 1 <= Len(Requests(Invocation))'
      <3>1. Invocation' \in {"info", "update", "reset"}
        BY <1>1, <2>1, <2>2, InvocationFacts DEF NewHost, Invocation
      <3>2. /\ Len(Requests("info")) = 1 /\ Len(Requests("reset")) = 1
            /\ Len(Requests("update")) = Parts + 4 /\ 1 <= Parts + 4
        BY <1>1, RequestsFacts
      <3>3. Len(Requests(Invocation')) = 1 \/ Len(Requests(Invocation')) = Parts + 4
        BY <3>1, <3>2, Zenon
      <3> DEFINE m == Len(Requests(Invocation'))
      <3>4. m = 1 \/ m = Parts + 4
        BY <3>3
      <3>5. 1 <= m <=> 1 <= Len(Requests(Invocation))'
        OBVIOUS
      <3> HIDE DEF m
      <3> QED
        BY <1>1, <3>4, <3>5
    <2> QED
      BY <1>1, <2>3, <2>4 DEF HostInv
  <1> QED
    BY <1>3, <1>4, <1>8, <1>9, <1>10
       DEF LinkNext, Handle, HandleEnd, AnswerEnd, Answer, HandleReset, Unheard, DeviceRuns,
           SessionTimesOut, WindowEnds, linkVars

(* The frames on their way to the device are what the host has sent. *)
LEMMA ToDeviceStep ==
    ASSUME RequestInv, [LinkNext]_<<vars, linkVars>>
    PROVE  RequestInv'
  <1>1. toDevice \in Seq(Asked) /\ Request \in Asked
    BY RequestAsked DEF RequestInv
  <1>2. \/ toDevice' = toDevice
        \/ toDevice' = Append(toDevice, Request)
        \/ toDevice # <<>> /\ toDevice' = Tail(toDevice)
    BY DEF LinkNext, Send, Receive, HostTimeout, NextInvocation, Handle, HandleEnd, AnswerEnd,
           Answer, HandleReset, Unheard, DeviceRuns, SessionTimesOut, WindowEnds, linkVars
  <1>3. toDevice' \in Seq(Asked)
    BY <1>1, <1>2, HeadAsked, AppendProperties
  <1> QED
    BY <1>3, HostStep DEF RequestInv

LEMMA RequestInvCorrect == LinkSpec => []RequestInv
  <1>1. LinkInit => RequestInv
    <2> SUFFICES ASSUME LinkInit PROVE RequestInv
      OBVIOUS
    <2>1. host = NewHost(1) /\ toDevice = <<>>
      BY DEF LinkInit
    <2>2. Script \in Seq({"info", "update", "reset"}) /\ Script # <<>> /\ 1 \in DOMAIN Script
      BY LinkAssumption
    <2>3. host \in Host
      BY <2>1, <2>2, FileFacts, LinkAssumption DEF NewHost, Host
    <2>4. 1 <= Len(Requests(Invocation))
      <3> DEFINE n == Len(Requests(Invocation))
      <3>1. n = 1 \/ n = Parts + 4
        BY <2>3, InvocationFacts, Zenon
      <3> HIDE DEF n
      <3>2. 1 <= n
        BY <3>1, FileFacts
      <3> QED
        BY <3>2 DEF n
    <2> QED
      BY <2>1, <2>3, <2>4, LinkAssumption DEF RequestInv, HostInv, NewHost
  <1>2. RequestInv /\ [LinkNext]_<<vars, linkVars>> => RequestInv'
    BY ToDeviceStep
  <1> QED
    BY <1>1, <1>2, PTL DEF LinkSpec

(* Whatever the PC tool sends, loses, repeats or leaves on the line, the   *)
(* device at the other end is the bootloader with an unknown host: every   *)
(* theorem about Bootloader.tla holds of it.                               *)
THEOREM DeviceIsBootloader == LinkSpec => Spec
  <1>1. LinkInit => Init
    BY DEF LinkInit
  <1>2. RequestInv /\ [LinkNext]_<<vars, linkVars>> => [Next]_vars
    BY DeviceStep DEF RequestInv
  <1> QED
    BY <1>1, <1>2, RequestInvCorrect, PTL DEF LinkSpec, Spec

-----------------------------------------------------------------------------
(* Types.                                                                  *)

(* The frames in both directions keep their types. *)
LEMMA LineStep ==
    ASSUME TypeOK, LinkInv, [LinkNext]_<<vars, linkVars>>
    PROVE  LinkInv'
  <1>1. RequestInv'
    BY ToDeviceStep DEF RequestInv, LinkInv, LineInv
  <1>2. Info \in [active: Slots \cup {NONE}, state: State]
    <2>1. table \in SlotTable /\ File.target \in Slots
      BY FileFacts DEF TypeOK, Store!StoreTypeOK, Store!Record, table
    <2> QED
      BY <2>1 DEF Info, SlotTable, SlotRecord
  <1>3. ASSUME NEW r \in Reply, toDevice # <<>>
        PROVE  [command |-> Head(toDevice).command, seq |-> Head(toDevice).seq, reply |-> r,
                info |-> Info] \in Told
    <2>1. Head(toDevice) \in Asked
      BY <1>3, HeadAsked DEF LinkInv, LineInv
    <2> QED
      BY <1>2, <2>1 DEF Asked, Told
  <1>4. toHost \in Seq(Told)
    BY DEF LinkInv, LineInv
  <1>5. \/ toHost' = toHost \/ toHost' = <<>>
        \/ toHost # <<>> /\ toHost' = Tail(toHost)
        \/ \E r \in Reply : /\ toDevice # <<>>
                            /\ toHost' = Append(toHost,
                                   [command |-> Head(toDevice).command, seq |-> Head(toDevice).seq,
                                    reply |-> r, info |-> Info])
    BY DEF LinkNext, Send, Receive, HostTimeout, NextInvocation, Handle, HandleEnd, AnswerEnd,
           Answer, HandleReset, Unheard, DeviceRuns, SessionTimesOut, WindowEnds, linkVars
  <1>6. toHost' \in Seq(Told)
    <2>0. <<>> \in Seq(Told)
      OBVIOUS
    <2>1. CASE toHost' = toHost \/ toHost' = <<>>
      BY <1>4, <2>0, <2>1, Zenon
    <2>2. CASE toHost # <<>> /\ toHost' = Tail(toHost)
      BY <1>4, <2>2, HeadTailProperties
    <2>3. ASSUME NEW m \in Told, toHost' = Append(toHost, m)
          PROVE  toHost' \in Seq(Told)
      BY <1>4, <2>3, AppendProperties
    <2> QED
      BY <1>3, <1>5, <2>1, <2>2, <2>3
  <1>7. trouble' \in 0 .. MaxTrouble /\ mishap' \in BOOLEAN /\ line' = line
    <2>1. /\ trouble \in Nat /\ trouble <= MaxTrouble /\ MaxTrouble \in Nat /\ mishap \in BOOLEAN
          /\ trouble \in 0 .. MaxTrouble
      BY LinkAssumption DEF LinkInv, LineInv
    <2>2. line' = line
      BY DEF LinkNext, Send, Receive, HostTimeout, NextInvocation, Handle, HandleEnd, AnswerEnd,
             Answer, HandleReset, Unheard, DeviceRuns, SessionTimesOut, WindowEnds, linkVars
    <2>3. CASE Trouble
      BY <2>1, <2>2, <2>3 DEF Trouble
    <2>4. Trouble \/ trouble' = trouble
      BY DEF LinkNext, Send, Receive, HostTimeout, NextInvocation, Handle, HandleEnd, AnswerEnd,
             Answer, HandleReset, Unheard, DeviceRuns, SessionTimesOut, WindowEnds, linkVars, RunsOut
    <2>5. \/ Trouble
          \/ mishap' = mishap
          \/ mishap' \in BOOLEAN
      <3>1. NextInvocation => mishap' \in BOOLEAN
        BY DEF NextInvocation
      <3>2. WindowEnds => mishap' \in BOOLEAN
        BY DEF WindowEnds
      <3> QED
        BY <3>1, <3>2
           DEF LinkNext, Send, Receive, HostTimeout, Handle, HandleEnd, AnswerEnd, Answer,
               HandleReset, Unheard, DeviceRuns, SessionTimesOut, linkVars, RunsOut
    <2> QED
      BY <2>1, <2>2, <2>3, <2>4, <2>5
  <1>8. since' \subseteq {"heard", "jumped"}
    BY DEF LinkInv, LineInv, LinkNext, Send, Receive, HostTimeout, NextInvocation, Handle, HandleEnd,
           AnswerEnd, Answer, HandleReset, Unheard, DeviceRuns, SessionTimesOut, WindowEnds, linkVars
  <1> QED
    BY <1>1, <1>6, <1>7, <1>8 DEF RequestInv, LinkInv, LineInv

LEMMA LinkInvCorrect == LinkSpec => []LinkInv
  <1>1. LinkInit /\ RequestInv => LinkInv
    <2>1. <<>> \in Seq(Told) /\ 0 \in 0 .. MaxTrouble
      BY LinkAssumption
    <2> QED
      BY <2>1 DEF LinkInit, RequestInv, LinkInv, LineInv
  <1>2. TypeOK /\ LinkInv /\ [LinkNext]_<<vars, linkVars>> => LinkInv'
    BY LineStep
  <1>3. LinkSpec => []TypeOK
    BY DeviceIsBootloader, TypeCorrect, PTL
  <1> QED
    BY <1>1, <1>2, <1>3, RequestInvCorrect, PTL DEF LinkSpec

(* The host's counters stay in their ranges and the frames of both         *)
(* directions are well formed: no invocation goes past its last request,   *)
(* and none is sent more than Retries + 1 times (transport.py).            *)
THEOREM LinkTypeCorrect == LinkSpec => []LinkTypeOK
  BY LinkInvCorrect, LinkTypes, PTL

-----------------------------------------------------------------------------
(* The transfer.                                                           *)

(* A cell before a page is not in it. *)
LEMMA PageLater ==
    ASSUME NEW i \in Nat, NEW n \in Nat, i < n, n % PageSize = 0
    PROVE  ~SamePage(i, n)
  <1> DEFINE q == n \div PageSize
             k == i \div PageSize
  <1>1. PageSize \in Nat \ {0}
    BY BlUpdateAssumption
  <1>2. q \in Int /\ n = PageSize * q
    BY <1>1
  <1>3. k \in Int /\ PageSize * k <= i
    BY <1>1
  <1>4. SamePage(i, n) => k = q
    BY DEF SamePage
  <1> HIDE DEF q, k
  <1> QED
    BY <1>1, <1>2, <1>3, <1>4

(* A word of a slot that starts at one of its own starts at one of flash. *)
LEMMA WordStart ==
    ASSUME NEW s \in Slots, NEW n \in Nat, NEW j \in Int, j * WordSize = n
    PROVE  LET at == PayloadStart(s) + n IN WordSize * (at \div WordSize) = at
  <1>1. PICK k \in Int : k * WordSize = SlotSize
    BY WordAligned
  <1>2. PICK m \in Int : m * WordSize = PageSize
    BY WordAligned
  <1>3. WordSize \in Nat \ {0}
    BY BlUpdateAssumption
  <1>4. PICK i \in Int : i * WordSize = PayloadStart(s)
    <2>1. CASE s = "A"
      <3>1. 0 * WordSize = PayloadStart(s)
        BY <1>3, <2>1, AddressMap
      <3> QED
        BY <3>1
    <2>2. CASE s = "B"
      <3>1. (k + m) * WordSize = PayloadStart(s) /\ k + m \in Int
        BY <1>1, <1>2, <1>3, <2>2, AddressMap
      <3> QED
        BY <3>1
    <2> QED
      BY <2>1, <2>2 DEF Slots
  <1>5. (i + j) * WordSize = PayloadStart(s) + n /\ i + j \in Int
    BY <1>3, <1>4
  <1> DEFINE at == PayloadStart(s) + n
             l == i + j
  <1>6. l * WordSize = at /\ l \in Int /\ at \in Int
    BY <1>3, <1>4, <1>5
  <1> HIDE DEF at, l
  <1>7. l * WordSize <= WordSize * (at \div WordSize) /\ WordSize * (at \div WordSize) <= at
        /\ WordSize * (at \div WordSize) \in Int
    BY <1>3, <1>6, RoundedDown
  <1>8. WordSize * (at \div WordSize) = at
    BY <1>6, <1>7
  <1> QED
    BY <1>8 DEF at

(* DATA leaves what a session has received alone, and what it stores comes *)
(* after it, whatever goes wrong with the flash.                           *)
LEMMA DataExtends ==
    ASSUME SessionTypes, SessionFits, upd.state = "RECEIVING",
           \E j \in Int : j * WordSize = upd.received,
           NEW seq, NEW len \in Nat, NEW b, NEW r, Data(seq, len, b, r)
    PROVE  LET s == Addressed(upd.header)
               n == upd.received
           IN  /\ \A i \in 0 .. n - 1 : area'[s][i] = area[s][i]
               /\ \/ upd' = upd
                  \/ /\ seq = upd.nextSeq /\ upd' = DataReceived(seq, len, b)
                     /\ \A i \in n .. n + len - 1 : area'[s][i] = b
  <1> DEFINE s == Addressed(upd.header)
             n == upd.received
             kept == \A i \in 0 .. n - 1 : area'[s][i] = area[s][i]
  <1>1. n \in Nat /\ s \in Slots /\ n <= SlotSize /\ SlotSize \in Nat /\ PageSize \in Nat \ {0}
    <2>1. upd.header.size \in Nat /\ upd.header.size <= SlotSize /\ n <= upd.header.size /\ SlotSize \in Nat
      BY AddressMap DEF SessionFits
    <2> QED
      BY <2>1, AddressMap DEF SessionTypes, OpenSession, Session, Addressed, Slots
  <1>2. DOMAIN area = Slots /\ DOMAIN area[s] = 0 .. SlotSize - 1
    BY <1>1 DEF SessionTypes, Cells
  <1>3. \A i \in 0 .. n - 1 : i \in 0 .. SlotSize - 1
    BY <1>1
  <1>4. CASE DataRejected(seq, len, b, r)
    BY <1>4 DEF DataRejected, flashUnchanged
  <1>5. CASE DataAcceptable(seq, len, b)
    <2>1. seq = upd.nextSeq /\ len \in Nat \ {0} /\ len <= Remaining
      BY <1>5 DEF DataAcceptable, InOrder
    <2>2. Remaining \in Nat /\ Remaining # 0 /\ upd.received + Remaining <= SlotSize
      BY <2>1, Room, AddressMap
    <2>3. At \in Int /\ At = PayloadStart(s) + n /\ InArea(s, len) /\ PayloadStart(s) \in Int
      BY <2>1, <2>2, SessionInside, SlotSizeAssumption, BlUpdateAssumption DEF PayloadStart
    <2>4. Offset(s) = n
      BY <1>1, <2>3 DEF Offset
    <2> HIDE DEF s, n
    <2>5. \A t \in Slots : InArea(t, len) => t = s
      BY <1>1, <2>1, <2>3, AddressMap DEF InArea, Within, Slots
    <2>6. ASSUME NEW cells, NEW m, \A i \in 0 .. n - 1 : cells[i] = area[s][i],
                 DOMAIN cells = 0 .. SlotSize - 1,
                 area' = [area EXCEPT ![s] = Write(cells, n, m, Junk)]
          PROVE  kept
      <3>1. area'[s] = [i \in 0 .. SlotSize - 1 |-> IF n <= i /\ i < n + m THEN Junk ELSE cells[i]]
        BY <1>1, <1>2, <2>6 DEF Write
      <3> QED
        BY <1>1, <1>3, <2>6, <3>1
    <2>7. /\ \A i \in 0 .. n - 1 : Prepared(s)[i] = area[s][i]
          /\ DOMAIN Prepared(s) = 0 .. SlotSize - 1
      <3>1. CASE PageStart
        <4>1. n % PageSize = 0
          BY <3>1 DEF PageStart, n
        <4>2. Prepared(s) = [i \in 0 .. SlotSize - 1 |-> IF SamePage(i, n) THEN Erased ELSE area[s][i]]
          BY <1>2, <2>4, <3>1 DEF Prepared, ErasePage
        <4>3. \A i \in 0 .. n - 1 : ~SamePage(i, n)
          BY <1>1, <4>1, PageLater
        <4> QED
          BY <1>3, <4>2, <4>3
      <3>2. CASE ~PageStart
        BY <1>2, <3>2 DEF Prepared
      <3> QED
        BY <3>1, <3>2
    <2>8. CASE DataRefused(seq, len, b, r)
      <3>1. upd' = upd
        BY <2>8 DEF DataRefused
      <3>2. CASE area' = area
        BY <3>1, <3>2
      <3>3. CASE Overwrite(WordSize * (At \div WordSize), len)
        <4>1. WordSize * (At \div WordSize) = At
          BY <1>1, <2>3, WordStart DEF n
        <4>2. area'[s] = Write(area[s], At - PayloadStart(s), len, Junk)
          BY <1>1, <3>3, <4>1 DEF Overwrite
        <4>3. At - PayloadStart(s) = n
          BY <1>1, <2>3
        <4>4. area'[s] = [i \in 0 .. SlotSize - 1 |-> IF n <= i /\ i < n + len THEN Junk ELSE area[s][i]]
          BY <1>2, <4>2, <4>3 DEF Write
        <4>5. kept
          BY <1>1, <1>3, <4>4
        <4> QED
          BY <3>1, <4>5 DEF s, n
      <3> QED
        BY <2>8, <3>2, <3>3 DEF DataRefused, s, n
    <2>9. CASE DataStored(seq, len, b, r)
      <3>1. upd' = DataReceived(seq, len, b)
        BY <2>9 DEF DataStored
      <3>2. PICK t \in Slots :
               InArea(t, len) /\ area' = [area EXCEPT ![t] = Write(Prepared(t), Offset(t), len, b)]
        BY <2>9 DEF DataStored
      <3>3. area' = [area EXCEPT ![s] = Write(Prepared(s), n, len, b)]
        BY <2>4, <2>5, <3>2
      <3>4. n + len <= SlotSize
        BY <1>1, <2>1, <2>2 DEF n
      <3> QED
        <4> DEFINE cells == Prepared(s)
        <4>1. area' = [area EXCEPT ![s] = Write(cells, n, len, b)] /\ len \in Nat
              /\ (\A i \in 0 .. n - 1 : cells[i] = area[s][i]) /\ DOMAIN cells = 0 .. SlotSize - 1
          BY <2>1, <2>7, <3>3
        <4> HIDE DEF cells
        <4>a. area'[s] = [i \in 0 .. SlotSize - 1 |-> IF n <= i /\ i < n + len THEN b ELSE cells[i]]
          BY <1>1, <1>2, <4>1 DEF Write
        <4>2. kept /\ \A i \in n .. n + len - 1 : area'[s][i] = b
          BY <1>1, <1>3, <3>4, <4>1, <4>a
        <4> QED
          BY <2>1, <3>1, <4>2 DEF s, n
    <2>10. CASE DataSpoilt(seq, len, b, r)
      <3>1. upd' = upd
        BY <2>10 DEF DataSpoilt
      <3>2. PICK t \in Slots :
              /\ InArea(t, len)
              /\ \/ area' = area
                 \/ area' = [area EXCEPT ![t] = Write(Prepared(t), Offset(t), len, Junk)]
                 \/ area' = [area EXCEPT ![t] = Write(@, Offset(t), PageSize, Junk)]
        BY <2>10 DEF DataSpoilt
      <3>3. \/ area' = area
            \/ area' = [area EXCEPT ![s] = Write(Prepared(s), n, len, Junk)]
            \/ area' = [area EXCEPT ![s] = Write(area[s], n, PageSize, Junk)]
        BY <2>4, <2>5, <3>2
      <3>4. kept
        <4>1. CASE area' = area
          BY <4>1
        <4>3. CASE area' = [area EXCEPT ![s] = Write(area[s], n, PageSize, Junk)]
          BY <1>2, <2>6, <4>3
        <4>4. CASE area' = [area EXCEPT ![s] = Write(Prepared(s), n, len, Junk)]
          BY <2>6, <2>7, <4>4
        <4> QED
          BY <3>3, <4>1, <4>3, <4>4
      <3> QED
        BY <3>1, <3>4 DEF s, n
    <2>11. ~DataBeyond(seq, len, b, r)
      BY <1>1, <2>3 DEF DataBeyond
    <2> QED
      BY <1>4, <2>8, <2>9, <2>10, <2>11 DEF Data
  <1> QED
    BY <1>4, <1>5 DEF Data, DataRefused, DataStored, DataSpoilt, DataBeyond

(* The cells before the part that number k carries. *)
Upto(k) == IF (k - 2) * Chunk <= File.size THEN (k - 2) * Chunk ELSE File.size

LEMMA UptoFacts ==
    /\ Upto(2) = 0
    /\ \A k \in 2 .. Parts + 2 : Upto(k) \in 0 .. File.size
    /\ \A k \in 2 .. Parts + 1 :
          /\ Upto(k) = FileOffset([seq |-> k])
          /\ Upto(k + 1) = Upto(k) + FileLength([seq |-> k])
          /\ \E j \in Int : j * WordSize = Upto(k)
  <1>1. /\ Chunk \in Nat \ {0} /\ Parts \in Nat \ {0} /\ File.size \in Nat
        /\ WordSize \in Nat \ {0} /\ Chunk % WordSize = 0
    BY FileFacts, LinkAssumption, BlUpdateAssumption
  <1>2. PICK w \in Int : w * WordSize = Chunk
    <2>1. (Chunk \div WordSize) \in Int /\ (Chunk \div WordSize) * WordSize = Chunk
      BY <1>1
    <2> QED
      BY <2>1
  <1>3. Upto(2) = 0
    BY <1>1 DEF Upto
  <1>4. ASSUME NEW k \in 2 .. Parts + 2
        PROVE  Upto(k) \in 0 .. File.size
    <2> DEFINE at == (k - 2) * Chunk
    <2>1. at \in Nat
      BY <1>1
    <2>2. Upto(k) = IF at <= File.size THEN at ELSE File.size
      BY DEF Upto
    <2> HIDE DEF at
    <2> QED
      BY <1>1, <2>1, <2>2
  <1>5. ASSUME NEW k \in 2 .. Parts + 1
        PROVE  /\ Upto(k) = FileOffset([seq |-> k])
               /\ Upto(k + 1) = Upto(k) + FileLength([seq |-> k])
               /\ \E j \in Int : j * WordSize = Upto(k)
    <2> DEFINE at == (k - 2) * Chunk
               next == ((k + 1) - 2) * Chunk
    <2>1. at \in 0 .. File.size - 1 /\ FileOffset([seq |-> k]) = at
      BY PartFacts
    <2>2. next = at + Chunk
      BY <1>1
    <2>3. /\ Upto(k) = IF at <= File.size THEN at ELSE File.size
          /\ Upto(k + 1) = IF next <= File.size THEN next ELSE File.size
          /\ FileLength([seq |-> k]) = IF at + Chunk <= File.size THEN Chunk ELSE File.size - at
      BY <2>1 DEF Upto, FileLength
    <2>4. \E j \in Int : j * WordSize = at
      <3>1. ((k - 2) * w) * WordSize = at /\ (k - 2) * w \in Int
        BY <1>1, <1>2
      <3> QED
        BY <3>1
    <2> HIDE DEF at, next
    <2>5. Upto(k) = at /\ Upto(k + 1) = at + FileLength([seq |-> k])
      BY <1>1, <2>1, <2>2, <2>3
    <2> QED
      BY <2>1, <2>4, <2>5
  <1> QED
    BY <1>3, <1>4, <1>5

(* What an open session knows of the file: the number it waits for tells   *)
(* what it has received and what came last.                                *)
TransferInv ==
    upd.state = "RECEIVING" =>
        /\ upd.header = File
        /\ upd.nextSeq \in 2 .. Parts + 2 /\ upd.received = Upto(upd.nextSeq)
        /\ \A p \in upd.last : p.seq = upd.nextSeq - 1
        /\ \A i \in 0 .. upd.received - 1 : area[File.target][i] = File.payload

LEMMA TransferSound == TransferInv => SessionSound /\ TransferIsPrefix
  <1> SUFFICES ASSUME TransferInv PROVE SessionSound /\ TransferIsPrefix
    OBVIOUS
  <1>1. CASE upd.state = "RECEIVING"
    <2>1. upd.header = File /\ upd.received \in 0 .. File.size
      BY <1>1, UptoFacts DEF TransferInv
    <2>2. File.size \in 1 .. SlotSize /\ File.ok /\ SlotSize \in Nat
      BY FileFacts
    <2> QED
      BY <1>1, <2>1, <2>2 DEF SessionSound, SessionFits, TransferIsPrefix, TransferInv
  <1>2. CASE upd.state # "RECEIVING"
    BY <1>2 DEF SessionSound, SessionFits, TransferIsPrefix
  <1> QED
    BY <1>1, <1>2

(* A DATA of the file keeps it. *)
LEMMA TransferData ==
    ASSUME TypeOK, TransferInv, NEW f \in Asked, f.command = "DATA",
           NEW r, Data(f.seq, FileLength(f), Content(f), r)
    PROVE  TransferInv'
  <1> DEFINE k == f.seq
             len == FileLength(f)
             b == Content(f)
  <1>1. k \in 2 .. Parts + 1 /\ SessionTypes
    BY TypeParts DEF Asked
  <1>2. CASE DataRejected(k, len, b, r)
    BY <1>2 DEF DataRejected, flashUnchanged, TransferInv
  <1>3. CASE DataAcceptable(k, len, b)
    <2>1. /\ upd.state = "RECEIVING" /\ k = upd.nextSeq /\ upd.header = File
          /\ upd.received = Upto(k)
          /\ \A p \in upd.last : p.seq = k - 1
          /\ \A i \in 0 .. upd.received - 1 : area[File.target][i] = File.payload
      BY <1>3 DEF DataAcceptable, InOrder, TransferInv
    <2>2. /\ FileOffset(f) = FileOffset([seq |-> k]) /\ len = FileLength([seq |-> k])
          /\ FileOffset(f) \in Nat /\ len \in Nat /\ Chunk \in Nat
      <3>1. FileOffset(f) = FileOffset([seq |-> k]) /\ len = FileLength([seq |-> k])
        BY DEF FileOffset, FileLength
      <3>2. /\ FileOffset([seq |-> k]) \in 0 .. File.size - 1
            /\ FileLength([seq |-> k]) \in 1 .. Chunk /\ Chunk \in Nat
        BY <1>1, PartFacts, FileFacts
      <3> QED
        BY <3>1, <3>2
    <2>3. /\ upd.received = FileOffset(f) /\ Upto(k + 1) = upd.received + len
          /\ \E j \in Int : j * WordSize = upd.received
          /\ upd.received \in Nat
      BY <1>1, <2>1, <2>2, UptoFacts
    <2>4. b = File.payload
      <3>1. ~\E p \in upd.last : p.seq = f.seq
        BY <1>1, <2>1
      <3> QED
        BY <2>2, <2>3, <3>1 DEF Content
    <2>5. SessionFits /\ Addressed(upd.header) = File.target
      BY <2>1, TransferSound, FileFacts DEF SessionSound
    <2> HIDE DEF k, len, b
    <2>6. /\ \A i \in 0 .. upd.received - 1 : area'[File.target][i] = area[File.target][i]
          /\ \/ upd' = upd
             \/ /\ upd' = DataReceived(k, len, b)
                /\ \A i \in upd.received .. upd.received + len - 1 : area'[File.target][i] = b
      <3>1. len \in Nat /\ Data(k, len, b, r)
        BY <2>2 DEF k, len, b
      <3> QED
        <4> DEFINE t == Addressed(upd.header)
        <4>1. /\ \A i \in 0 .. upd.received - 1 : area'[t][i] = area[t][i]
              /\ \/ upd' = upd
                 \/ /\ upd' = DataReceived(k, len, b)
                    /\ \A i \in upd.received .. upd.received + len - 1 : area'[t][i] = b
          BY <1>1, <2>1, <2>3, <2>5, <3>1, DataExtends, Zenon
        <4>2. t = File.target
          BY <2>5
        <4> HIDE DEF t
        <4> QED
          BY <4>1, <4>2
    <2>7. CASE upd' = upd
      BY <1>1, <2>1, <2>6, <2>7 DEF TransferInv
    <2>8. CASE /\ upd' = DataReceived(k, len, b)
               /\ \A i \in upd.received .. upd.received + len - 1 : area'[File.target][i] = b
      <3>1. (upd.nextSeq + 1) % SeqMod = k + 1 /\ k + 1 \in 2 .. Parts + 2
        BY <1>1, <2>1, FileFacts
      <3>2. upd \in Session
        BY <1>1 DEF SessionTypes, OpenSession
      <3>3. /\ upd'.state = "RECEIVING" /\ upd'.header = File /\ upd'.received = upd.received + len
            /\ upd'.nextSeq = k + 1 /\ upd'.last = {[seq |-> k, len |-> len, bytes |-> b]}
        BY <2>1, <2>8, <3>1, <3>2 DEF DataReceived, Session
      <3>4. \A p \in upd'.last : p.seq = (k + 1) - 1
        BY <1>1, <3>3
      <3>5. \A i \in 0 .. upd'.received - 1 : area'[File.target][i] = File.payload
        BY <2>1, <2>2, <2>3, <2>4, <2>6, <2>8, <3>3 DEF len
      <3> QED
        BY <2>3, <3>1, <3>3, <3>4, <3>5 DEF TransferInv
    <2> QED
      BY <2>6, <2>7, <2>8
  <1> QED
    BY <1>2, <1>3 DEF Data, DataRefused, DataStored, DataSpoilt, DataBeyond

LEMMA TransferStep ==
    ASSUME TypeOK, RequestInv, TransferInv, [LinkNext]_<<vars, linkVars>>
    PROVE  TransferInv'
  <1>1. CASE upd' = upd /\ area' = area
    BY <1>1 DEF TransferInv
  <1>2. CASE upd'.state # "RECEIVING"
    BY <1>2 DEF TransferInv
  <1>3. CASE Handle
    <2> DEFINE f == Head(toDevice)
    <2>1. f \in Asked
      BY <1>3, HeadAsked DEF Handle, RequestInv
    <2>2. PICK r \in Reply :
             \/ f.command = "GET_INFO" /\ r = "ACK" /\ NoEffect(r)
             \/ f.command = "START_UPDATE" /\ Start(File, f.seq, r)
             \/ f.command = "DATA" /\ Data(f.seq, FileLength(f), Content(f), r)
             \/ f.command = "END_UPDATE" /\ (EndRejected(r) \/ EndUnverified(r) \/ EndHeaderError(r))
      BY <1>3 DEF Handle
    <2> HIDE DEF f
    <2>3. CASE NoEffect(r) \/ EndRejected(r) \/ EndUnverified(r) \/ EndHeaderError(r)
      BY <1>1, <2>3 DEF NoEffect, EndRejected, EndUnverified, EndHeaderError, flashUnchanged
    <2>4. CASE f.command = "START_UPDATE" /\ Start(File, f.seq, r)
      <3>1. f.seq = 1
        BY <2>1, <2>4 DEF Asked
      <3>2. CASE StartAccepted(File, 1, r)
        <4>1. (1 + 1) % SeqMod = 2 /\ 2 \in 2 .. Parts + 2
          BY FileFacts
        <4>2. upd' = [state |-> "RECEIVING", header |-> File, received |-> 0, nextSeq |-> 2, last |-> {}]
          BY <3>2, <4>1 DEF StartAccepted, Opened
        <4> QED
          BY <4>1, <4>2, UptoFacts DEF TransferInv
      <3>3. CASE HeaderReceived(File) /\ area' = area
        <4>1. CASE upd.state = "RECEIVING"
          <5>1. upd' = [upd EXCEPT !.header = File] /\ upd.header = File /\ upd \in Session
            BY <3>3, <4>1, TypeParts DEF HeaderReceived, TransferInv, SessionTypes, OpenSession
          <5>2. upd' = upd
            BY <5>1 DEF Session
          <5> QED
            BY <1>1, <3>3, <5>2
        <4>2. CASE upd.state # "RECEIVING"
          BY <1>2, <3>3, <4>2 DEF HeaderReceived
        <4> QED
          BY <4>1, <4>2
      <3> QED
        BY <2>4, <3>1, <3>2, <3>3 DEF Start, StartRejected, StartFlashError, flashUnchanged
    <2>5. CASE f.command = "DATA" /\ Data(f.seq, FileLength(f), Content(f), r)
      BY <2>1, <2>5, TransferData
    <2> QED
      BY <2>2, <2>3, <2>4, <2>5
  <1>4. CASE Send \/ Receive \/ HostTimeout \/ NextInvocation \/ Unheard \/ UNCHANGED <<vars, linkVars>>
    BY <1>1, <1>4 DEF Send, Receive, HostTimeout, NextInvocation, Unheard, vars, sessionVars
  <1>5. CASE HandleEnd \/ AnswerEnd
    BY <1>1, <1>2, <1>5
       DEF HandleEnd, EndCommit, AnswerEnd, EndDone, EndFailed, flashUnchanged, TypeOK,
           SessionTypeOK, Session
  <1>6. CASE HandleReset \/ SessionTimesOut \/ WindowEnds
    BY <1>1, <1>2, <1>6
       DEF HandleReset, HostReset, Reset, Restart, SessionTimesOut, SessionTimeout, Timeout,
           WindowEnds, Jump, FreshSession, sessionVars
  <1>7. CASE DeviceRuns
    BY <1>1, <1>2, <1>7
       DEF DeviceRuns, LoadMetadata, ReconstructMetadata, Commit, CommitStep, CommitReturns, Decide,
           ReadyReset, AppConfirm, Reset, Restart, FreshSession
  <1> QED
    BY <1>3, <1>4, <1>5, <1>6, <1>7 DEF LinkNext

LEMMA TransferInvCorrect == LinkSpec => []TransferInv
  <1>1. LinkInit => TransferInv
    BY DEF LinkInit, Init, FreshSession, TransferInv
  <1>2. TypeOK /\ RequestInv /\ TransferInv /\ [LinkNext]_<<vars, linkVars>> => TransferInv'
    BY TransferStep
  <1>3. LinkSpec => []TypeOK
    BY DeviceIsBootloader, TypeCorrect, PTL
  <1> QED
    BY <1>1, <1>2, <1>3, RequestInvCorrect, PTL DEF LinkSpec

(* What a session has stored is a prefix of the file, for every script,    *)
(* file, number of retries and number of troubles, and whatever flash      *)
(* fails: the numbers of client.py and the rules of bl_update.c for them   *)
(* let no DATA be stored twice, left out or in another's place.            *)
THEOREM TransfersArePrefixes == LinkSpec => []TransferIsPrefix
  BY TransferInvCorrect, TransferSound, PTL

(* The PC tool announces one header and never more parts than it has, so   *)
(* the sessions of the device it drives are sound: nothing that it sends,  *)
(* in any order the line makes of it, overruns an image or puts a damaged  *)
(* header in a session.                                                    *)
THEOREM ToolKeepsSessionsSound == LinkSpec => []SessionSound
  BY TransferInvCorrect, TransferSound, PTL

(* So a device that is driven by the PC tool has, without any assumption   *)
(* on the host, what BootProofs and RecordProofs prove of one whose        *)
(* sessions are sound.                                                     *)
THEOREM ToolDrivesDeviceSafely ==
    LinkSpec =>
        /\ RecordSurvives /\ PromotionEarned /\ []RecordInSync
        /\ [](faults = 0 => EndLeavesValidImage)
        /\ [](faults = 0 => SomeSlotBootable)
        /\ [](faults = 0 => AttemptsBounded)
  <1>1. SessionSound => SessionFits
    BY DEF SessionSound
  <1>2. LinkSpec => Spec /\ []SessionSound /\ []SessionFits
    BY <1>1, DeviceIsBootloader, ToolKeepsSessionsSound, PTL
  <1> QED
    BY <1>2, RecordAlwaysSurvives, PromotionIsEarned, RecordIsInSync, EndIsInstalled,
       SomeSlotStaysBootable, AttemptsAreBounded, PTL

-----------------------------------------------------------------------------
(* A prompt line.                                                          *)

(* A step of the host that goes on with its request. *)
LEMMA SameRequest ==
    ASSUME host'.at = host.at, host'.step = host.step
    PROVE  /\ Request' = Request /\ Invocation' = Invocation /\ (LastStep <=> LastStep')
           /\ \A m : Matches(m)' <=> Matches(m)
  <1>1. Invocation' = Invocation
    BY DEF Invocation
  <1> QED
    BY <1>1 DEF Request, LastStep, Matches

(* What a step does to the host, by the action it is. *)
LEMMA HostMoves ==
    ASSUME host \in Host, [LinkNext]_<<vars, linkVars>>
    PROVE  \/ host' = host
           \/ Send /\ host' = [host EXCEPT !.sends = @ + 1, !.waiting = TRUE]
           \/ HostTimeout /\ host' = Unanswered
           \/ NextInvocation /\ host' = NewHost(host.at + 1)
           \/ /\ Receive
              /\ host' = IF ~Matches(Head(toHost)) THEN Unanswered
                         ELSE IF Head(toHost).reply = "ACK" THEN Acknowledged(Head(toHost).info)
                         ELSE Ended("failed")
  BY DEF LinkNext, Send, Receive, HostTimeout, NextInvocation, Handle, HandleEnd, AnswerEnd,
         Answer, HandleReset, Unheard, DeviceRuns, SessionTimesOut, WindowEnds, linkVars

(* Between the two programs there is at most one frame: the request, or an *)
(* answer to it.                                                           *)
OneAtATime ==
    line = "prompt" =>
        /\ ~host.waiting => toDevice = <<>> /\ toHost = <<>>
        /\ host.waiting =>
              \/ toDevice = <<>> /\ toHost = <<>>
              \/ toDevice = <<Request>> /\ toHost = <<>>
              \/ toDevice = <<>> /\ \E m \in Told : toHost = <<m>> /\ Matches(m)

LEMMA OneFrame ==
    ASSUME NEW x
    PROVE  <<x>> # <<>> /\ Head(<<x>>) = x /\ Tail(<<x>>) = <<>> /\ Append(<<>>, x) = <<x>>
  OBVIOUS

LEMMA OneAtATimeStep ==
    ASSUME LinkInv, LinkInv', OneAtATime, [LinkNext]_<<vars, linkVars>>
    PROVE  OneAtATime'
  <1> SUFFICES ASSUME line = "prompt"
               PROVE  /\ ~host'.waiting => toDevice' = <<>> /\ toHost' = <<>>
                      /\ host'.waiting =>
                            \/ toDevice' = <<>> /\ toHost' = <<>>
                            \/ toDevice' = <<Request'>> /\ toHost' = <<>>
                            \/ toDevice' = <<>> /\ \E m \in Told : toHost' = <<m>> /\ Matches(m)'
    <2>1. line' = line
      BY DEF LinkNext, Send, Receive, HostTimeout, NextInvocation, Handle, HandleEnd, AnswerEnd,
             Answer, HandleReset, Unheard, DeviceRuns, SessionTimesOut, WindowEnds, linkVars
    <2> QED
      BY <2>1 DEF OneAtATime
  <1>1. /\ host \in Host
        /\ host.waiting => host.result = "going" /\ host.sends # 0
        /\ toDevice # <<>> => toDevice = <<Request>> /\ toHost = <<>> /\ host.waiting
        /\ toHost # <<>> => toDevice = <<>> /\ host.waiting
    BY OneFrame DEF LinkInv, HostInv, OneAtATime
  <1>2. CASE host' = host /\ toDevice' = toDevice /\ toHost' = toHost
    BY <1>2, SameRequest DEF OneAtATime
  <1>3. CASE Send
    <2>1. /\ toDevice = <<>> /\ toHost' = <<>> /\ host'.at = host.at /\ host'.step = host.step
          /\ host'.waiting
          /\ toDevice' = Append(toDevice, Request) \/ toDevice' = toDevice
      BY <1>1, <1>3 DEF Send, OneAtATime, Host
    <2> QED
      BY <2>1, SameRequest, OneFrame
  <1>4. CASE Receive
    <2>1. toDevice' = <<>> /\ toHost' = <<>>
      BY <1>1, <1>4, OneFrame DEF Receive, OneAtATime
    <2> QED
      BY <2>1
  <1>5. CASE HostTimeout
    <2>1. toDevice = <<>> /\ toHost = <<>>
      BY <1>5 DEF HostTimeout, RunsOut, Overdue
    <2> QED
      BY <1>5, <2>1 DEF HostTimeout
  <1>6. CASE NextInvocation
    <2>1. ~host.waiting /\ toDevice' = toDevice /\ toHost' \in {<<>>, toHost}
      BY <1>1, <1>6 DEF NextInvocation
    <2> QED
      BY <2>1 DEF OneAtATime
  <1>7. ASSUME NEW r \in Reply, toDevice # <<>>, Answer(r)
        PROVE  /\ host.waiting /\ host' = host /\ toDevice' = <<>>
               /\ toHost' = <<>> \/ \E m \in Told : toHost' = <<m>> /\ Matches(m)'
    <2>1. /\ Head(toDevice) = Request /\ toDevice' = <<>> /\ host' = host
          /\ \/ toHost' = <<>>
             \/ \E m : toHost' = <<m>> /\ m.command = Request.command /\ m.seq = Request.seq
      <3>1. toDevice = <<Request>> /\ toHost = <<>>
        BY <1>1, <1>7
      <3>2. Head(toDevice) = Request /\ Tail(toDevice) = <<>>
        BY <3>1, OneFrame
      <3> DEFINE m == [command |-> Head(toDevice).command, seq |-> Head(toDevice).seq,
                       reply |-> r, info |-> Info]
      <3>3. /\ toDevice' = Tail(toDevice) /\ host' = host
            /\ toHost' = Append(toHost, m) \/ toHost' = toHost
        BY <1>7 DEF Answer
      <3>4. m.command = Request.command /\ m.seq = Request.seq
        BY <3>2
      <3> HIDE DEF m
      <3> QED
        BY <3>1, <3>2, <3>3, <3>4, OneFrame
    <2>2. ASSUME NEW m, toHost' = <<m>>, m.command = Request.command, m.seq = Request.seq
          PROVE  Matches(m)' /\ m \in Told
      <3>1. Matches(m)'
        BY <2>1, <2>2, SameRequest DEF Matches
      <3>2. toHost' \in Seq(Told)
        BY DEF LinkInv, LineInv
      <3>3. m \in Told
        BY <2>2, <3>2, HeadTailProperties, OneFrame
      <3> QED
        BY <3>1, <3>3
    <2> QED
      BY <1>1, <1>7, <2>1, <2>2
  <1>8. CASE Handle \/ AnswerEnd
    <2>1. PICK r \in Reply : toDevice # <<>> /\ Answer(r)
      BY <1>8 DEF Handle, AnswerEnd
    <2> QED
      BY <1>7, <2>1
  <1>9. CASE HandleReset \/ Unheard
    <2>1. toDevice' = <<>> /\ toHost' = <<>>
      BY <1>1, <1>9, OneFrame DEF HandleReset, Unheard
    <2> QED
      BY <2>1
  <1> QED
    BY <1>2, <1>3, <1>4, <1>5, <1>6, <1>8, <1>9
       DEF LinkNext, HandleEnd, DeviceRuns, SessionTimesOut, WindowEnds, linkVars

LEMMA OneAtATimeCorrect == LinkSpec => []OneAtATime
  <1>1. LinkInit => OneAtATime
    BY DEF LinkInit, NewHost, OneAtATime
  <1>2. LinkInv /\ LinkInv' /\ OneAtATime /\ [LinkNext]_<<vars, linkVars>> => OneAtATime'
    BY OneAtATimeStep
  <1> QED
    BY <1>1, <1>2, LinkInvCorrect, PTL DEF LinkSpec

-----------------------------------------------------------------------------
(* What update() waits for.                                                *)

(* Once END commits, the header of its session is the file's, and until a  *)
(* flash operation fails so is that of the slot.                           *)
InstallsFile ==
    Installing => /\ upd.header = File
                  /\ faults = 0 => hdr[File.target] = File

LEMMA InstallsFileStep ==
    ASSUME TypeOK, RecordInv, ErasedUnderSession, TransferInv, InstallsFile, [Next]_vars
    PROVE  InstallsFile'
  <1> SUFFICES ASSUME Installing'
               PROVE  /\ upd'.header = File
                      /\ faults' = 0 => hdr'[File.target] = File
    BY DEF InstallsFile
  <1>1. faults' = 0 => faults = 0
    BY FaultStep
  <1>2. CASE Command /\ EndCommit
    <2>1. upd.header = File /\ upd' = upd
      BY <1>2 DEF EndCommit, HeaderProgrammable, Complete, TransferInv
    <2>2. faults' = 0 => hdr'[upd.header.target] = upd.header
      BY <1>1, <1>2, EndPrograms
    <2> QED
      BY <2>1, <2>2
  <1>3. CASE Installing /\ upd'.header = upd.header /\ UNCHANGED <<table, hdr, area, jumps>>
    BY <1>1, <1>3 DEF InstallsFile
  <1> QED
    BY <1>2, <1>3, InstallingStep

(* What the device of a PC tool keeps to, in any step of the line. *)
DeviceInv == TypeOK /\ RecordInv /\ InSync /\ InstallInv /\ InstallIsWhole /\ TransferInv /\ InstallsFile

LEMMA DeviceInvCorrect == LinkSpec => [](DeviceInv)
  <1>1. Init => InstallsFile
    BY DEF Init, InstallsFile, Installing
  <1>2. TypeOK /\ RecordInv /\ InstallInv /\ TransferInv /\ InstallsFile /\ [Next]_vars => InstallsFile'
    BY InstallsFileStep DEF InstallInv
  <1>3. SessionSound => SessionFits
    BY DEF SessionSound
  <1>4. LinkSpec => Spec /\ []SessionSound /\ []SessionFits
    BY <1>3, DeviceIsBootloader, ToolKeepsSessionsSound, PTL
  <1>5. TypeOK /\ (RecordInv /\ InSync /\ InstallInv) /\ InstallIsWhole /\ TransferInv /\ InstallsFile
           => DeviceInv
    BY DEF DeviceInv
  <1> QED
    BY <1>1, <1>2, <1>4, <1>5, InstallKept, WholeKept, TransferInvCorrect, TypeCorrect, PTL DEF Spec

(* The device has the file, whole. *)
Installed == hdr[File.target] = File /\ Bootable(File.target)

(* The answer that the host waits for acknowledges its request. *)
Acked == toHost # <<>> /\ Head(toHost).reply = "ACK"

(* On a prompt line an acknowledged END has installed the file, and what   *)
(* comes after it in the update does not take that back.                   *)
InstalledAfterEnd ==
    line = "prompt" /\ faults = 0 /\ Invocation = "update" /\ host.result = "going" =>
        (LastStep \/ (Request.command = "END_UPDATE" /\ Acked) => Installed)

(* A request by the step of an update. *)
LEMMA UpdateRequest ==
    ASSUME host \in Host, Invocation = "update"
    PROVE  /\ Len(Requests(Invocation)) = Parts + 4 /\ host.step \in 1 .. Parts + 4
           /\ Request.seq = host.step - 1
           /\ LastStep <=> host.step = Parts + 4
           /\ Request.command = "START_UPDATE" <=> host.step = 2
           /\ Request.command = "DATA" <=> host.step \in 3 .. Parts + 2
           /\ Request.command = "END_UPDATE" <=> host.step = Parts + 3
           /\ Request.command = "GET_INFO" <=> host.step \in {1, Parts + 4}
           /\ Request.command # "RESET"
  <1> DEFINE k == host.step
             q == Requests("update")[k]
  <1>1. /\ Len(Requests(Invocation)) = Parts + 4 /\ k \in 1 .. Parts + 4
        /\ Request.seq = k - 1 /\ Request.command = q /\ Parts \in Nat \ {0}
    BY InvocationFacts, FileFacts DEF Host, Request
  <1>2. LastStep <=> k = Parts + 4
    BY <1>1 DEF LastStep
  <1>3. \/ k = 1 /\ q = "GET_INFO"
        \/ k = 2 /\ q = "START_UPDATE"
        \/ k \in 3 .. Parts + 2 /\ q = "DATA"
        \/ k = Parts + 3 /\ q = "END_UPDATE"
        \/ k = Parts + 4 /\ q = "GET_INFO"
    <2>1. k = 1 \/ k = 2 \/ k \in 3 .. Parts + 2 \/ k = Parts + 3 \/ k = Parts + 4
      BY <1>1
    <2> HIDE DEF k
    <2> QED
      BY <2>1, RequestsFacts
  <1> HIDE DEF k, q
  <1> QED
    BY <1>1, <1>2, <1>3 DEF k

(* The same of the step that comes, as far as it is needed. *)
LEMMA UpdateRequestNext ==
    ASSUME host' \in Host, Invocation' = "update"
    PROVE  /\ LastStep' <=> host'.step = Parts + 4
           /\ Request'.command = "END_UPDATE" <=> host'.step = Parts + 3
  <1> DEFINE k == host'.step
             q == Requests("update")[k]
  <1>1. k \in 1 .. Parts + 4 /\ Parts \in Nat \ {0} /\ Len(Requests("update")) = Parts + 4
    <2>1. Invocation' = Script[host'.at]
      BY DEF Invocation
    <2> QED
      BY <2>1, InvocationFacts, FileFacts, RequestsFacts DEF Host
  <1>2. LastStep' <=> k = Parts + 4
    BY <1>1 DEF LastStep
  <1>3. Request'.command = q
    BY DEF Request
  <1>4. \/ k \in {1, Parts + 4} /\ q = "GET_INFO"
        \/ k = 2 /\ q = "START_UPDATE"
        \/ k \in 3 .. Parts + 2 /\ q = "DATA"
        \/ k = Parts + 3 /\ q = "END_UPDATE"
    <2>1. k \in {1, Parts + 4} \/ k = 2 \/ k \in 3 .. Parts + 2 \/ k = Parts + 3
      BY <1>1
    <2> HIDE DEF k
    <2> QED
      BY <2>1, RequestsFacts
  <1> HIDE DEF k, q
  <1> QED
    BY <1>1, <1>2, <1>3, <1>4 DEF k

(* A frame that the device handles on a prompt line is the request. *)
LEMMA HeadIsRequest ==
    ASSUME OneAtATime, line = "prompt", toDevice # <<>>
    PROVE  Head(toDevice) = Request /\ toHost = <<>> /\ host.waiting
  <1>1. toDevice = <<Request>> /\ toHost = <<>> /\ host.waiting
    BY DEF OneAtATime
  <1> QED
    BY <1>1, OneFrame

(* No slot is written but for a request that says so. *)
LEMMA SlotsKept ==
    ASSUME [LinkNext]_<<vars, linkVars>>,
           toDevice # <<>> => Head(toDevice).command \notin {"START_UPDATE", "DATA", "END_UPDATE"}
    PROVE  hdr' = hdr /\ area' = area
  <1>1. CASE Handle
    BY <1>1 DEF Handle, NoEffect, flashUnchanged
  <1>2. CASE HandleEnd
    BY <1>2 DEF HandleEnd
  <1>3. CASE AnswerEnd
    BY <1>3 DEF AnswerEnd, EndDone, EndFailed, flashUnchanged
  <1>4. CASE Send \/ Receive \/ HostTimeout \/ NextInvocation \/ Unheard \/ UNCHANGED <<vars, linkVars>>
    BY <1>4 DEF Send, Receive, HostTimeout, NextInvocation, Unheard, vars, sessionVars
  <1>5. CASE HandleReset \/ SessionTimesOut \/ WindowEnds \/ DeviceRuns
    BY <1>5
       DEF HandleReset, HostReset, SessionTimesOut, SessionTimeout, Timeout, flashUnchanged,
           WindowEnds, Jump, sessionVars, DeviceRuns, LoadMetadata, ReconstructMetadata, Commit,
           CommitStep, CommitReturns, Decide, ReadyReset, AppConfirm
  <1> QED
    BY <1>1, <1>2, <1>3, <1>4, <1>5 DEF LinkNext

(* The ACK of an END comes from a session that is installed. *)
LEMMA AckInstalls ==
    ASSUME DeviceInv, OneAtATime, line = "prompt", faults = 0, Request.command = "END_UPDATE",
           ~Acked, Acked', [LinkNext]_<<vars, linkVars>>, host' = host
    PROVE  Installed'
  <1>1. toHost' # <<>> /\ Head(toHost').reply = "ACK"
    BY DEF Acked
  <1>2. toHost' # toHost
    BY DEF Acked
  <1>3. ASSUME NEW r \in Reply, toDevice # <<>>, Answer(r)
        PROVE  r = "ACK" /\ Head(toDevice) = Request
    <2>1. toHost = <<>> /\ Head(toDevice) = Request
      BY <1>3, HeadIsRequest
    <2>2. \E m : toHost' = Append(toHost, m) /\ m.reply = r
      BY <1>2, <1>3 DEF Answer
    <2> QED
      BY <1>1, <2>1, <2>2, OneFrame
  <1>4. ~Handle
    BY <1>3 DEF Handle, EndRejected, EndUnverified, EndHeaderError
  <1>5. AnswerEnd
    <2>1. ~Receive
      <3>1. Receive => toHost = <<>> \/ toHost' = <<>>
        BY OneFrame DEF Receive, OneAtATime
      <3> QED
        BY <1>1, <3>1 DEF Receive
    <2>2. ~NextInvocation
      BY <1>1, <1>2 DEF NextInvocation
    <2> QED
      BY <1>2, <1>4, <2>1, <2>2
         DEF LinkNext, Send, HostTimeout, HandleEnd, HandleReset, Unheard, DeviceRuns,
             SessionTimesOut, WindowEnds, linkVars
  <1>6. pc = "loop" /\ stage # "ready" /\ hdr' = hdr /\ area' = area
    BY <1>5 DEF AnswerEnd, EndDone, EndFailed, Store!Return, flashUnchanged
  <1>7. Installing
    BY <1>6 DEF Installing
  <1>8. Installed
    BY <1>7 DEF DeviceInv, InstallsFile, InstallIsWhole, Installed
  <1> QED
    BY <1>6, <1>8 DEF Installed, Bootable

LEMMA InstalledStep ==
    ASSUME DeviceInv, LinkInv, OneAtATime, InstalledAfterEnd, [LinkNext]_<<vars, linkVars>>
    PROVE  InstalledAfterEnd'
  <1> SUFFICES ASSUME line' = "prompt", faults' = 0, Invocation' = "update", host'.result = "going",
                      LastStep' \/ (Request'.command = "END_UPDATE" /\ Acked')
               PROVE  Installed'
    BY DEF InstalledAfterEnd
  <1>1. /\ host \in Host /\ (~host.waiting => toHost = <<>>)
        /\ (toHost # <<>> => toDevice = <<>>)
        /\ host.waiting => host.result = "going"
        /\ line = "prompt" /\ faults = 0
    <2>1. line' = line
      BY DEF LinkNext, Send, Receive, HostTimeout, NextInvocation, Handle, HandleEnd, AnswerEnd,
             Answer, HandleReset, Unheard, DeviceRuns, SessionTimesOut, WindowEnds, linkVars
    <2>2. [Next]_vars /\ TypeOK
      BY DeviceStep DEF LinkInv, LineInv, DeviceInv
    <2>3. faults = 0
      BY <2>2, FaultStep
    <2> QED
      BY <2>1, <2>3, OneFrame DEF LinkInv, HostInv, OneAtATime
  <1> DEFINE promised == /\ Invocation = "update" /\ host.result = "going"
                         /\ LastStep \/ (Request.command = "END_UPDATE" /\ Acked)
  <1>2. ASSUME promised
        PROVE  Installed'
    <2>1. Installed
      BY <1>1, <1>2 DEF InstalledAfterEnd
    <2>2. toDevice # <<>> => Head(toDevice).command \notin {"START_UPDATE", "DATA", "END_UPDATE"}
      <3> SUFFICES ASSUME toDevice # <<>>
                   PROVE  Head(toDevice).command \notin {"START_UPDATE", "DATA", "END_UPDATE"}
        OBVIOUS
      <3>1. Head(toDevice) = Request /\ toHost = <<>>
        BY <1>1, HeadIsRequest
      <3>2. host.step = Parts + 4
        BY <1>1, <1>2, <3>1, UpdateRequest DEF Acked
      <3> QED
        BY <1>1, <1>2, <3>1, <3>2, UpdateRequest, FileFacts
    <2> QED
      BY <2>1, <2>2, SlotsKept DEF Installed, Bootable
  <1>3. ASSUME host'.at = host.at, host'.step = host.step, host'.result = host.result,
               ~Acked' \/ Acked
        PROVE  Installed'
    BY <1>2, <1>3, SameRequest
  <1>4. CASE host' = host
    <2>1. CASE ~Acked' \/ Acked
      BY <1>3, <1>4, <2>1
    <2>2. CASE Acked' /\ ~Acked
      <3>1. Request' = Request /\ Invocation' = Invocation /\ (LastStep <=> LastStep')
        BY <1>4, SameRequest
      <3>2. CASE LastStep
        BY <1>2, <1>4, <3>1, <3>2
      <3>3. CASE ~LastStep
        BY <1>1, <1>4, <2>2, <3>1, <3>3, AckInstalls
      <3> QED
        BY <3>2, <3>3
    <2> QED
      BY <2>1, <2>2
  <1>5. CASE Send /\ host' = [host EXCEPT !.sends = @ + 1, !.waiting = TRUE]
    <2>1. ~Acked'
      BY <1>1, <1>5 DEF Send, Acked
    <2> QED
      BY <1>1, <1>3, <1>5, <2>1 DEF Host
  <1>6. CASE HostTimeout /\ host' = Unanswered
    <2>1. ~Acked'
      BY <1>1, <1>6 DEF HostTimeout, RunsOut, Overdue, Acked
    <2>2. host'.at = host.at /\ host'.step = host.step /\ host'.result = host.result
      BY <1>1, <1>6 DEF Host, Unanswered, HostTimeout
    <2> QED
      BY <1>3, <2>1, <2>2
  <1>7. CASE NextInvocation /\ host' = NewHost(host.at + 1)
    <2>1. host'.step = 1 /\ host' \in Host
      BY <1>7, LineStep DEF NewHost, DeviceInv, LinkInv, HostInv
    <2>2. ~LastStep' /\ Request'.command # "END_UPDATE"
      BY <2>1, UpdateRequestNext, FileFacts
    <2> QED
      BY <2>1, <2>2
  <1>8. CASE /\ Receive
             /\ host' = IF ~Matches(Head(toHost)) THEN Unanswered
                        ELSE IF Head(toHost).reply = "ACK" THEN Acknowledged(Head(toHost).info)
                        ELSE Ended("failed")
    <2>1. /\ host.waiting /\ toHost # <<>> /\ ~Acked' /\ host.result = "going"
          /\ UNCHANGED <<hdr, area>>
      <3>1. \E m \in Told : toHost = <<m>>
        BY <1>1, <1>8 DEF Receive, OneAtATime
      <3>2. toHost' = <<>>
        BY <1>8, <3>1, OneFrame DEF Receive
      <3> QED
        BY <1>1, <1>8, <3>2 DEF Receive, Acked, vars, sessionVars
    <2>2. CASE host' = Unanswered
      <3>1. host'.at = host.at /\ host'.step = host.step /\ host'.result = host.result
        BY <1>1, <2>1, <2>2 DEF Host, Unanswered
      <3> QED
        BY <1>3, <2>1, <3>1
    <2>3. CASE host' = Ended("failed")
      BY <1>1, <2>3 DEF Ended, Host
    <2>4. CASE host' = Acknowledged(Head(toHost).info) /\ Head(toHost).reply = "ACK"
      <3>1. host'.at = host.at /\ host'.step = host.step + 1
        BY <1>1, <2>4 DEF Acknowledged, Ended, Host
      <3>2. Invocation = "update" /\ host' \in Host
        BY <3>1, LineStep DEF Invocation, DeviceInv, LinkInv, HostInv
      <3>3. LastStep' <=> host'.step = Parts + 4
        BY <3>2, UpdateRequestNext
      <3>4. host.step = Parts + 3
        BY <1>1, <2>1, <3>1, <3>2, <3>3, FileFacts DEF Host
      <3>5. Request.command = "END_UPDATE" /\ Acked
        BY <1>1, <2>1, <2>4, <3>2, <3>4, UpdateRequest DEF Acked
      <3> QED
        BY <1>2, <2>1, <3>2, <3>5
    <2> QED
      BY <1>8, <2>2, <2>3, <2>4
  <1> QED
    BY <1>1, <1>4, <1>5, <1>6, <1>7, <1>8, HostMoves

LEMMA InstalledCorrect == LinkSpec => []InstalledAfterEnd
  <1>1. LinkInit /\ LinkInv => InstalledAfterEnd
    <2> SUFFICES ASSUME LinkInit, LinkInv, Invocation = "update"
                 PROVE  ~LastStep /\ ~Acked
      BY DEF InstalledAfterEnd
    <2>1. host.step = 1 /\ toHost = <<>> /\ host \in Host
      BY DEF LinkInit, NewHost, LinkInv, HostInv
    <2> QED
      BY <2>1, UpdateRequest, FileFacts DEF Acked
  <1>2. DeviceInv /\ LinkInv /\ OneAtATime /\ InstalledAfterEnd /\ [LinkNext]_<<vars, linkVars>>
           => InstalledAfterEnd'
    BY InstalledStep
  <1> QED
    BY <1>1, <1>2, DeviceInvCorrect, LinkInvCorrect, OneAtATimeCorrect, PTL DEF LinkSpec

(* On a prompt line whose device has no flash fault update() returns       *)
(* without an error only if the device has the file, whole and under its   *)
(* header: whatever is lost or sent again, an answer is to the request     *)
(* that waits for it, and the ACK of END comes after the commit.           *)
THEOREM PromptUpdateInstalls ==
    LinkSpec /\ [](line = "prompt" /\ faults = 0) => DoneMeansInstalled
  <1> DEFINE done == Invocation = "update" /\ host.result = "going" /\ host'.result = "done" =>
                        Bootable(File.target) /\ hdr[File.target] = File
  <1>1. ASSUME LinkInv, InstalledAfterEnd, line = "prompt", faults = 0,
               [LinkNext]_<<vars, linkVars>>
        PROVE  done
    <2> SUFFICES ASSUME Invocation = "update", host.result = "going", host'.result = "done"
                 PROVE  Installed
      BY DEF Installed
    <2>1. host \in Host
      BY <1>1 DEF LinkInv, HostInv
    <2>2. host' = Acknowledged(Head(toHost).info)
      <3>1. host' # [host EXCEPT !.sends = @ + 1, !.waiting = TRUE] /\ host' # host
        BY <2>1 DEF Host
      <3>2. host' # Unanswered /\ host' # Ended("failed")
        BY <2>1 DEF Host, Unanswered, Ended
      <3>3. host' # NewHost(host.at + 1)
        BY DEF NewHost
      <3> QED
        BY <1>1, <2>1, <3>1, <3>2, <3>3, HostMoves
    <2>3. LastStep
      BY <2>1, <2>2 DEF Acknowledged, Ended, Host
    <2> QED
      BY <1>1, <2>3 DEF InstalledAfterEnd
  <1>2. LinkInv /\ InstalledAfterEnd /\ line = "prompt" /\ faults = 0 /\ [LinkNext]_<<vars, linkVars>>
           => [done]_<<vars, linkVars>>
    BY <1>1
  <1>3. LinkSpec /\ [](line = "prompt" /\ faults = 0) => [][done]_<<vars, linkVars>>
    BY <1>2, LinkInvCorrect, InstalledCorrect, PTL DEF LinkSpec
  <1> QED
    BY <1>3 DEF DoneMeansInstalled

-----------------------------------------------------------------------------
(* Retries.                                                                *)

(* A place is in the page its remainder says. *)
LEMMA PageOf ==
    ASSUME NEW p \in Nat \ {0}, NEW q \in Int, NEW r \in 0 .. p - 1
    PROVE  (p * q + r) \div p = q
  <1> DEFINE n == p * q + r
             d == n \div p
             m == n % p
  <1>1. n \in Int /\ d \in Int /\ m \in 0 .. p - 1 /\ n = p * d + m
    OBVIOUS
  <1>2. p * d + m = p * q + r
    BY <1>1
  <1> HIDE DEF n, d, m
  <1>3. ASSUME d < q PROVE FALSE
    <2>1. p * d + p <= p * q
      <3>1. p * (d + 1) <= p * q
        BY <1>1, <1>3
      <3> QED
        BY <1>1, <3>1
    <2> QED
      BY <1>1, <1>2, <2>1
  <1>4. ASSUME q < d PROVE FALSE
    <2>1. p * q + p <= p * d
      <3>1. p * (q + 1) <= p * d
        BY <1>1, <1>4
      <3> QED
        BY <1>1, <3>1
    <2> QED
      BY <1>1, <1>2, <2>1
  <1> QED
    BY <1>1, <1>3, <1>4 DEF n, d

(* A part begins and ends in one page. *)
LEMMA PartInPage ==
    ASSUME NEW m \in Nat, NEW len \in 1 .. Chunk
    PROVE  LET n == m * Chunk IN
           /\ \A i \in n .. n + len - 1 : SamePage(i, n)
           /\ (n + len) % PageSize # 0 => SamePage(n + len, n)
  <1> DEFINE n == m * Chunk
             q == n \div PageSize
             r == n % PageSize
             c == PageSize \div Chunk
  <1>1. Chunk \in Nat \ {0} /\ PageSize \in Nat \ {0} /\ PageSize % Chunk = 0
    BY LinkAssumption, BlUpdateAssumption
  <1>2. n \in Nat /\ q \in Int /\ r \in 0 .. PageSize - 1 /\ n = PageSize * q + r
    BY <1>1
  <1>3. c \in Int /\ PageSize = c * Chunk
    BY <1>1
  <1>4. r = (m - c * q) * Chunk
    <2>1. PageSize * q = (c * q) * Chunk /\ c * q \in Int
      BY <1>1, <1>2, <1>3
    <2>2. (m - c * q) * Chunk = m * Chunk - (c * q) * Chunk
      BY <1>1, <2>1
    <2> QED
      BY <1>1, <1>2, <2>1, <2>2
  <1>5. r + Chunk <= PageSize
    <2> DEFINE d == m - c * q
    <2>1. d \in Int /\ r = d * Chunk
      BY <1>2, <1>3, <1>4
    <2> HIDE DEF d, c, r, q, n
    <2>2. d < c
      <3>1. CASE c <= d
        <4>1. c * Chunk <= d * Chunk
          BY <1>1, <1>3, <2>1, <3>1
        <4> QED
          BY <1>1, <1>2, <1>3, <2>1, <4>1
      <3> QED
        BY <1>3, <2>1, <3>1
    <2>3. (d + 1) * Chunk <= c * Chunk
      BY <1>1, <1>3, <2>1, <2>2
    <2> QED
      BY <1>1, <1>3, <2>1, <2>3
  <1> HIDE DEF n, q, r, c
  <1>6. ASSUME NEW j \in Nat, r + j < PageSize
        PROVE  (n + j) \div PageSize = q
    <2>1. n + j = PageSize * q + (r + j) /\ r + j \in 0 .. PageSize - 1
      BY <1>1, <1>2, <1>6
    <2>2. (PageSize * q + (r + j)) \div PageSize = q
      BY <1>1, <1>2, <2>1, PageOf
    <2> QED
      BY <2>1, <2>2
  <1>7. ASSUME NEW i \in n .. n + len - 1
        PROVE  SamePage(i, n)
    <2>1. i - n \in Nat /\ i = n + (i - n) /\ r + (i - n) < PageSize
      BY <1>1, <1>2, <1>5
    <2> QED
      BY <1>6, <2>1 DEF SamePage, q
  <1>8. ASSUME (n + len) % PageSize # 0
        PROVE  SamePage(n + len, n)
    <2>1. CASE r + len = PageSize
      <3>1. n + len = PageSize * (q + 1) /\ q + 1 \in Int
        BY <1>1, <1>2, <2>1
      <3>2. (PageSize * (q + 1)) % PageSize = 0
        BY <1>1, <3>1
      <3> QED
        BY <1>8, <3>1, <3>2
    <2>2. CASE r + len < PageSize
      BY <1>6, <2>2 DEF SamePage, q
    <2> QED
      BY <1>1, <1>2, <1>5, <2>1, <2>2
  <1> QED
    BY <1>7, <1>8 DEF n

(* What is left of the page that a session has come to is erased. *)
RestErased ==
    upd.state = "RECEIVING" /\ ~PageStart =>
        \A i \in upd.received .. SlotSize - 1 :
            SamePage(i, upd.received) => area[File.target][i] = Erased

(* A session waits for part f, and may store it. *)
Wanted(f) == upd.state = "RECEIVING" /\ upd.nextSeq = f.seq /\ Writable(File.target)

(* Until a flash operation fails, a part that the session waits for is     *)
(* stored, and any other leaves the session as it is.                      *)
LEMMA PartStored ==
    ASSUME TypeOK, TransferInv, RestErased, NEW f \in Asked, f.command = "DATA",
           \A kind : ~Fault(kind),
           NEW r, Data(f.seq, FileLength(f), Content(f), r)
    PROVE  /\ RestErased' /\ UNCHANGED <<hdr, table>>
           /\ Wanted(f) => r = "ACK" /\ upd' = DataReceived(f.seq, FileLength(f), Content(f))
           /\ ~Wanted(f) => upd' = upd
  <1> DEFINE k == f.seq
             len == FileLength(f)
             b == Content(f)
             s == File.target
             n == upd.received
             c == (k - 2) * Chunk
  <1>1. /\ k \in 2 .. Parts + 1 /\ SessionTypes /\ StoreTypes /\ s \in Slots
        /\ len = FileLength([seq |-> k]) /\ len \in 1 .. Chunk
        /\ c = FileOffset([seq |-> k]) /\ c \in 0 .. File.size - 1
        /\ c + len <= File.size /\ Chunk \in Nat \ {0} /\ Parts \in Nat
    <2>1. k \in 2 .. Parts + 1 /\ SessionTypes /\ StoreTypes /\ s \in Slots /\ Chunk \in Nat \ {0}
          /\ Parts \in Nat
      BY TypeParts, FileFacts DEF Asked
    <2>2. len = FileLength([seq |-> k]) /\ FileOffset(f) = FileOffset([seq |-> k])
      BY DEF FileLength, FileOffset
    <2> QED
      BY <2>1, <2>2, PartFacts
  <1>2. /\ SessionFits
        /\ upd.state = "RECEIVING" => upd.header = File /\ Addressed(upd.header) = s
    BY TransferSound, FileFacts DEF TransferInv, SessionSound
  <1>3. storeUnchanged /\ hdr' = hdr /\ table' = table
    <2>1. len \in Nat
      BY <1>1
    <2> QED
      BY <1>1, <1>2, <2>1, DataConfined DEF storeUnchanged, table
  <1> HIDE DEF k, len, b, s, c
  <1>4. ASSUME upd.state = "RECEIVING", upd.nextSeq = k
        PROVE  /\ n = c /\ n % WordSize = 0 /\ Upto(k + 1) = n + len
               /\ Remaining = File.size - n /\ len <= Remaining
               /\ ~Repeats(k, len, b)
    <2>1. n = c /\ Upto(k + 1) = n + len /\ \E j \in Int : j * WordSize = n
      BY <1>1, <1>4, UptoFacts DEF TransferInv
    <2>2. n % WordSize = 0 /\ n \in Nat /\ len \in Nat
      <3>1. PICK j \in Int : n = WordSize * j
        BY <2>1, BlUpdateAssumption
      <3>2. (WordSize * j) % WordSize = 0
        BY BlUpdateAssumption
      <3> QED
        BY <1>1, <2>1, <3>1, <3>2
    <2>3. File.size - n \in 0 .. LenMod - 1 /\ LenMod \in Nat \ {0} /\ File.size \in Nat
      <3>1. File.size \in 1 .. SlotSize /\ SlotSize \in Nat /\ SlotSize < LenMod /\ LenMod \in Nat \ {0}
        BY FileFacts, LinkAssumption, BlUpdateAssumption
      <3> QED
        BY <1>1, <2>1, <3>1
    <2>4. Remaining = File.size - n
      BY <1>2, <1>4, <2>3 DEF Remaining
    <2>5. ~Repeats(k, len, b)
      <3>1. k # k - 1
        BY <1>1
      <3> QED
        BY <1>4, <3>1 DEF Repeats, TransferInv
    <2> QED
      BY <1>1, <2>1, <2>2, <2>3, <2>4, <2>5
  <1>5. CASE DataRejected(k, len, b, r)
    <2>1. upd' = upd /\ area' = area
      BY <1>5 DEF DataRejected, flashUnchanged
    <2>2. ~Wanted(f)
      BY <1>1, <1>4, <1>5 DEF DataRejected, InOrder, Wanted, k
    <2>3. RestErased'
      BY <2>1 DEF RestErased, PageStart
    <2> QED
      BY <1>3, <2>1, <2>2, <2>3
  <1>6. CASE DataAcceptable(k, len, b)
    <2>1. upd.state = "RECEIVING" /\ upd.nextSeq = k
      BY <1>6 DEF DataAcceptable, InOrder
    <2>2. /\ n = c /\ n % WordSize = 0 /\ Remaining # 0 /\ len <= Remaining
          /\ n \in Nat /\ n + len <= SlotSize /\ len \in Nat \ {0}
      <3>1. File.size <= SlotSize /\ SlotSize \in Nat /\ File.size \in Nat
        BY FileFacts
      <3>2. n = c /\ n % WordSize = 0 /\ Remaining = File.size - n /\ len <= Remaining
        BY <1>4, <2>1
      <3> QED
        BY <1>1, <3>1, <3>2
    <2>3. /\ At \in Int /\ At = PayloadStart(s) + n /\ InArea(s, len)
          /\ PageStart => InArea(s, PageSize)
      <3>1. LET p == PageSize - (n % PageSize)
            IN  At \in Int /\ At = PayloadStart(s) + n /\ InArea(s, len) /\ InArea(s, p)
        BY <1>1, <1>2, <2>1, <2>2, SessionInside
      <3>2. PageStart => PageSize - (n % PageSize) = PageSize
        BY BlUpdateAssumption DEF PageStart
      <3> QED
        BY <3>1, <3>2
    <2>4. Offset(s) = n
      BY <1>1, <2>2, <2>3, AddressMap DEF Offset, Slots
    <2>5. \A t \in Slots : InArea(t, len) => t = s
      BY <1>1, <2>2, <2>3, AddressMap DEF InArea, Within, Slots
    <2>6. RangeAllowed(At, len) => Writable(s)
      BY <1>1, <2>2, <2>3, InAreaWritable
    <2>7. Writable(s) => ProgramAllowed(len)
      <3>1. HeaderStart(s) <= PayloadStart(s) /\ HeaderStart(s) \in Int /\ PayloadStart(s) \in Int
        BY <1>1, AddressMap DEF Slots
      <3>2. ASSUME NEW m, InArea(s, m), Writable(s)
            PROVE  RangeAllowed(At, m)
        BY <1>1, <2>3, <3>1, <3>2 DEF InArea, RangeAllowed, Within
      <3> QED
        BY <2>2, <2>3, <3>2 DEF ProgramAllowed
    <2>8. /\ \A i \in n .. n + len - 1 : SamePage(i, n)
          /\ (n + len) % PageSize # 0 => SamePage(n + len, n)
      <3>1. k - 2 \in Nat /\ n = (k - 2) * Chunk
        BY <1>1, <2>2 DEF c
      <3> QED
        BY <1>1, <3>1, PartInPage
    <2>9. /\ DOMAIN area = Slots /\ DOMAIN Prepared(s) = 0 .. SlotSize - 1
          /\ \A i \in n .. SlotSize - 1 : SamePage(i, n) => Prepared(s)[i] = Erased
      <3>1. DOMAIN area = Slots /\ DOMAIN area[s] = 0 .. SlotSize - 1 /\ SlotSize \in Nat
        BY <1>1, SlotSizeAssumption DEF SessionTypes, Cells
      <3>2. CASE PageStart
        <4>1. Prepared(s) = [i \in 0 .. SlotSize - 1 |-> IF SamePage(i, n) THEN Erased ELSE area[s][i]]
          BY <2>4, <3>1, <3>2 DEF Prepared, ErasePage
        <4> QED
          BY <2>2, <3>1, <4>1
      <3>3. CASE ~PageStart
        BY <2>1, <3>1, <3>3 DEF Prepared, RestErased, s
      <3> QED
        BY <3>2, <3>3
    <2>10. CASE DataRefused(k, len, b, r)
      <3>1. ~Writable(s)
        BY <2>7, <2>10 DEF DataRefused
      <3>2. upd' = upd /\ area' = area
        BY <2>6, <2>10, <3>1 DEF DataRefused
      <3>3. RestErased'
        BY <3>2 DEF RestErased, PageStart
      <3> QED
        BY <1>3, <3>1, <3>2, <3>3 DEF Wanted, s
    <2>11. CASE DataStored(k, len, b, r)
      <3>1. r = "ACK" /\ upd' = DataReceived(k, len, b)
        BY <2>11 DEF DataStored
      <3>2. area' = [area EXCEPT ![s] = Write(Prepared(s), n, len, b)]
        BY <2>4, <2>5, <2>11 DEF DataStored
      <3>3. Wanted(f)
        BY <2>1, <2>6, <2>11 DEF DataStored, ProgramAllowed, Wanted, k, s
      <3>4. upd'.received = n + len
        BY <1>1, <3>1 DEF DataReceived, SessionTypes, OpenSession, Session
      <3>5. \A i \in n + len .. SlotSize - 1 : SamePage(i, n) => area'[s][i] = Erased
        <4>1. area'[s] = [i \in 0 .. SlotSize - 1 |-> IF n <= i /\ i < n + len THEN b ELSE Prepared(s)[i]]
          BY <1>1, <2>9, <3>2 DEF Write
        <4>2. \A i \in n + len .. SlotSize - 1 : i \in n .. SlotSize - 1 /\ ~(i < n + len)
                                                 /\ i \in 0 .. SlotSize - 1
          BY <2>2
        <4> QED
          BY <2>9, <4>1, <4>2
      <3>6. RestErased'
        BY <2>8, <3>4, <3>5 DEF RestErased, PageStart, SamePage, s
      <3> QED
        BY <1>3, <3>1, <3>3, <3>6 DEF k, len, b
    <2>12. ~DataSpoilt(k, len, b, r)
      <3> SUFFICES ASSUME DataSpoilt(k, len, b, r) PROVE FALSE
        OBVIOUS
      <3>1. \E i \in Programmed(s, len) : Prepared(s)[i] # Erased
        BY <2>5 DEF DataSpoilt
      <3>2. \A i \in Programmed(s, len) : i \in n .. n + len - 1 /\ i \in n .. SlotSize - 1
        BY <2>2, <2>4, SlotSizeAssumption DEF Programmed
      <3> QED
        BY <2>8, <2>9, <3>1, <3>2
    <2>13. ~DataBeyond(k, len, b, r)
      BY <1>1, <2>3 DEF DataBeyond
    <2> QED
      BY <1>5, <2>10, <2>11, <2>12, <2>13 DEF Data, k, len, b
  <1> QED
    BY <1>5, <1>6 DEF Data, DataRefused, DataStored, DataSpoilt, DataBeyond, k, len, b

(* Nothing but the handling of a frame changes a session that stays open.  *)
LEMMA SessionStays ==
    ASSUME TypeOK, Phase, InSync, faults = 0, upd'.state = "RECEIVING", ~Handle, ~HandleEnd,
           [LinkNext]_<<vars, linkVars>>
    PROVE  UNCHANGED <<upd, table, hdr, area>>
  <1>1. CASE Send \/ Receive \/ HostTimeout \/ NextInvocation \/ Unheard \/ WindowEnds
             \/ UNCHANGED <<vars, linkVars>>
    BY <1>1 DEF Send, Receive, HostTimeout, NextInvocation, Unheard, WindowEnds, Jump, vars,
                sessionVars, table
  <1>2. ~AnswerEnd
    BY DEF AnswerEnd, EndDone, EndFailed, InSync, TypeOK, SessionTypeOK, Session
  <1>3. ~HandleReset /\ ~SessionTimesOut
    BY DEF HandleReset, HostReset, Reset, Restart, SessionTimesOut, SessionTimeout, Timeout,
           FreshSession
  <1>4. CASE DeviceRuns
    <2>1. pc = "loop" \/ upd' # upd
      BY DEF Phase
    <2>2. Commit
      BY <1>4, <2>1
         DEF DeviceRuns, LoadMetadata, ReconstructMetadata, CommitReturns, Decide, ReadyReset,
             AppConfirm, Reset, Restart, FreshSession
    <2>3. meta \in Store!Record
      BY DEF TypeOK, Store!StoreTypeOK
    <2> QED
      BY <2>2, <2>3
         DEF Commit, CommitStep, Store!Erase, Store!EraseError, Store!Program, Store!ProgramError,
             Store!NextRecord, Store!Record, table
  <1> QED
    BY <1>1, <1>2, <1>3, <1>4 DEF LinkNext

(* A fault is counted. *)
LEMMA Faultless ==
    ASSUME TypeOK, faults = 0, faults' = 0
    PROVE  \A kind : ~Fault(kind)
  BY DEF Fault

LEMMA RestErasedStep ==
    ASSUME DeviceInv, RequestInv, faults = 0 => RestErased, faults' = 0,
           [LinkNext]_<<vars, linkVars>>
    PROVE  RestErased'
  <1>1. /\ TypeOK /\ Phase /\ InSync /\ TransferInv /\ faults = 0 /\ RestErased
        /\ \A kind : ~Fault(kind)
    <2>1. TypeOK /\ [Next]_vars
      BY DeviceStep DEF DeviceInv, RequestInv
    <2>2. faults = 0
      BY <2>1, FaultStep
    <2> QED
      BY <2>2, Faultless DEF DeviceInv, RecordInv
  <1>2. CASE upd' = upd /\ area' = area
    BY <1>1, <1>2 DEF RestErased, PageStart
  <1>3. CASE upd'.state # "RECEIVING"
    BY <1>3 DEF RestErased
  <1>4. CASE Handle
    <2> DEFINE f == Head(toDevice)
    <2>1. f \in Asked
      BY <1>4, HeadAsked DEF Handle, RequestInv
    <2>2. PICK r \in Reply :
             \/ f.command = "GET_INFO" /\ r = "ACK" /\ NoEffect(r)
             \/ f.command = "START_UPDATE" /\ Start(File, f.seq, r)
             \/ f.command = "DATA" /\ Data(f.seq, FileLength(f), Content(f), r)
             \/ f.command = "END_UPDATE" /\ (EndRejected(r) \/ EndUnverified(r) \/ EndHeaderError(r))
      BY <1>4 DEF Handle
    <2> HIDE DEF f
    <2>3. CASE NoEffect(r) \/ EndRejected(r) \/ EndUnverified(r) \/ EndHeaderError(r)
      BY <1>2, <2>3 DEF NoEffect, EndRejected, EndUnverified, EndHeaderError, flashUnchanged
    <2>4. CASE Start(File, f.seq, r)
      <3>1. CASE StartAccepted(File, f.seq, r)
        <4>1. upd'.received = 0 /\ 0 % PageSize = 0
          BY <3>1, BlUpdateAssumption DEF StartAccepted, Opened
        <4> QED
          BY <4>1 DEF RestErased, PageStart
      <3>2. CASE HeaderReceived(File) /\ area' = area
        <4>1. CASE upd.state = "RECEIVING"
          <5>1. upd'.received = upd.received
            BY <1>1, <3>2, <4>1, TypeParts DEF HeaderReceived, SessionTypes, OpenSession, Session
          <5> QED
            BY <1>1, <3>2, <4>1, <5>1 DEF RestErased, PageStart
        <4>2. CASE upd.state # "RECEIVING"
          BY <1>3, <3>2, <4>2 DEF HeaderReceived
        <4> QED
          BY <4>1, <4>2
      <3> QED
        BY <2>4, <3>1, <3>2 DEF Start, StartRejected, StartFlashError, flashUnchanged
    <2>5. CASE f.command = "DATA" /\ Data(f.seq, FileLength(f), Content(f), r)
      BY <1>1, <2>1, <2>5, PartStored
    <2> QED
      BY <2>2, <2>3, <2>4, <2>5
  <1>5. CASE HandleEnd
    BY <1>2, <1>5 DEF HandleEnd, EndCommit
  <1>6. CASE ~Handle /\ ~HandleEnd
    BY <1>1, <1>2, <1>3, <1>6, SessionStays
  <1> QED
    BY <1>4, <1>5, <1>6


LEMMA RestErasedCorrect == LinkSpec => [](faults = 0 => RestErased)
  <1>1. LinkInit => (faults = 0 => RestErased)
    BY DEF LinkInit, Init, FreshSession, RestErased
  <1>2. DeviceInv /\ RequestInv /\ (faults = 0 => RestErased) /\ [LinkNext]_<<vars, linkVars>>
           => (faults = 0 => RestErased)'
    BY RestErasedStep
  <1> QED
    BY <1>1, <1>2, DeviceInvCorrect, RequestInvCorrect, PTL DEF LinkSpec

(* The device has handled a send of this request, or never will. *)
Tried == host.sends >= 2 \/ (host.sends = 1 /\ (~host.waiting \/ "heard" \in since))

(* Once a send of a DATA is spent, no session waits for that part: it was  *)
(* stored, or the session it was meant for has timed out.                  *)
RetryIsIdle ==
    line = "prompt" /\ faults = 0 /\ host.result = "going" /\ Request.command = "DATA" /\ Tried =>
        ~Wanted(Request)

LEMMA RetryIsIdleStep ==
    ASSUME DeviceInv, LinkInv, OneAtATime, faults = 0 => RestErased, RetryIsIdle,
           [LinkNext]_<<vars, linkVars>>
    PROVE  RetryIsIdle'
  <1> SUFFICES ASSUME line' = "prompt", faults' = 0, host'.result = "going",
                      Request'.command = "DATA", Tried', upd'.state = "RECEIVING",
                      upd'.nextSeq = Request'.seq, Writable(File.target)'
               PROVE  FALSE
    BY DEF RetryIsIdle, Wanted
  <1>1. /\ host \in Host /\ RequestInv /\ line = "prompt" /\ faults = 0
        /\ TypeOK /\ Phase /\ InSync /\ TransferInv /\ RestErased /\ \A kind : ~Fault(kind)
        /\ host.waiting => host.result = "going" /\ host.sends # 0
    <2>1. line' = line
      BY DEF LinkNext, Send, Receive, HostTimeout, NextInvocation, Handle, HandleEnd, AnswerEnd,
             Answer, HandleReset, Unheard, DeviceRuns, SessionTimesOut, WindowEnds, linkVars
    <2>2. [Next]_vars /\ TypeOK /\ RequestInv
      BY DeviceStep DEF LinkInv, LineInv, DeviceInv, RequestInv
    <2>3. faults = 0
      BY <2>2, FaultStep
    <2> QED
      BY <2>1, <2>2, <2>3, Faultless DEF LinkInv, HostInv, DeviceInv, RecordInv
  <1>2. ASSUME host'.at = host.at, host'.step = host.step, host.result = "going", Tried,
               upd' = upd, table' = table
        PROVE  FALSE
    <2>1. Request' = Request
      BY <1>2, SameRequest
    <2>2. Writable(File.target)
      BY <1>2 DEF Writable
    <2> QED
      BY <1>1, <1>2, <2>1, <2>2 DEF RetryIsIdle, Wanted
  <1>3. ~Handle /\ ~HandleEnd => upd' = upd /\ table' = table
    BY <1>1, SessionStays
  <1>4. CASE host' = host
    <2>1. Request' = Request
      BY <1>4, SameRequest
    <2>2. toDevice # <<>> => Head(toDevice) = Request
      BY <1>1, HeadIsRequest
    <2>3. CASE Handle
      <3> DEFINE f == Head(toDevice)
      <3>1. f = Request /\ f \in Asked /\ f.command = "DATA" /\ f.seq = Request'.seq
        BY <1>1, <2>1, <2>2, <2>3, HeadAsked DEF Handle, RequestInv
      <3>2. PICK r \in Reply : Data(f.seq, FileLength(f), Content(f), r)
        BY <2>3, <3>1 DEF Handle
      <3> HIDE DEF f
      <3>3. /\ UNCHANGED table
            /\ Wanted(f) => upd' = DataReceived(f.seq, FileLength(f), Content(f))
            /\ ~Wanted(f) => upd' = upd
        BY <1>1, <3>1, <3>2, PartStored
      <3>4. CASE Wanted(f)
        <4>1. upd'.nextSeq = (f.seq + 1) % SeqMod
          <5>1. upd.nextSeq = f.seq /\ SessionTypes
            BY <1>1, <3>4, TypeParts DEF Wanted
          <5> QED
            BY <3>3, <3>4, <5>1 DEF DataReceived, SessionTypes, OpenSession, Session
        <4>2. f.seq \in 2 .. Parts + 1 /\ Parts + 4 <= SeqMod /\ SeqMod \in Nat /\ Parts \in Nat
          BY <3>1, FileFacts DEF Asked
        <4>3. (f.seq + 1) % SeqMod = f.seq + 1
          BY <4>2
        <4> QED
          BY <3>1, <4>1, <4>2, <4>3
      <3>5. CASE ~Wanted(f)
        BY <3>1, <3>3, <3>5 DEF Wanted, Writable
      <3> QED
        BY <3>4, <3>5
    <2>4. ~HandleEnd
      BY <2>1, <2>2 DEF HandleEnd
    <2>5. CASE ~Handle
      <3>1. upd' = upd /\ table' = table
        BY <1>3, <2>4, <2>5
      <3>2. ~AnswerEnd
        BY <1>1 DEF AnswerEnd, EndDone, EndFailed, InSync, TypeOK, SessionTypeOK, Session
      <3>3. ~HandleReset
        BY DEF HandleReset, HostReset, Reset, Restart, FreshSession
      <3>4. "heard" \in since' => "heard" \in since
        BY <2>4, <2>5, <3>2, <3>3
           DEF LinkNext, Send, Receive, HostTimeout, NextInvocation, Unheard, DeviceRuns,
               SessionTimesOut, WindowEnds, linkVars
      <3>5. Tried
        BY <1>4, <3>4 DEF Tried
      <3> QED
        BY <1>2, <1>4, <3>1, <3>5
    <2> QED
      BY <2>3, <2>5
  <1>5. CASE Send /\ host' = [host EXCEPT !.sends = @ + 1, !.waiting = TRUE]
    <2>1. /\ upd' = upd /\ table' = table /\ since' = {} /\ ~host.waiting /\ host.result = "going"
          /\ host'.at = host.at /\ host'.step = host.step
      BY <1>1, <1>5 DEF Send, vars, sessionVars, table, Host
    <2>2. host'.sends = host.sends + 1 /\ host'.waiting /\ host.sends \in Nat
      BY <1>1, <1>5, LinkAssumption DEF Host
    <2>3. host.sends >= 1
      BY <2>1, <2>2 DEF Tried
    <2> QED
      BY <1>2, <2>1, <2>2, <2>3 DEF Tried
  <1>6. CASE HostTimeout /\ host' = Unanswered
    <2>1. /\ upd' = upd /\ table' = table /\ host.waiting
          /\ "heard" \in since \/ upd.state # "RECEIVING"
      BY <1>1, <1>6 DEF HostTimeout, RunsOut, Overdue, vars, sessionVars, table
    <2>2. host'.at = host.at /\ host'.step = host.step
      BY <1>1, <1>6 DEF Host, Unanswered
    <2>3. Tried
      BY <1>1, <2>1, LinkAssumption DEF Tried, Host
    <2> QED
      BY <1>1, <1>2, <2>1, <2>2, <2>3
  <1>7. CASE NextInvocation /\ host' = NewHost(host.at + 1)
    BY <1>7 DEF NewHost, Tried
  <1>8. CASE /\ Receive
             /\ host' = IF ~Matches(Head(toHost)) THEN Unanswered
                        ELSE IF Head(toHost).reply = "ACK" THEN Acknowledged(Head(toHost).info)
                        ELSE Ended("failed")
    <2>1. Matches(Head(toHost))
      BY <1>1, <1>8, OneFrame DEF Receive, OneAtATime
    <2>2. host'.sends = 0
      BY <1>1, <1>8, <2>1 DEF Acknowledged, Ended, Host
    <2> QED
      BY <2>2 DEF Tried
  <1> QED
    BY <1>1, <1>4, <1>5, <1>6, <1>7, <1>8, HostMoves

LEMMA RetryIsIdleCorrect == LinkSpec => []RetryIsIdle
  <1>1. LinkInit => RetryIsIdle
    BY DEF LinkInit, NewHost, RetryIsIdle, Tried
  <1>2. DeviceInv /\ LinkInv /\ OneAtATime /\ (faults = 0 => RestErased) /\ RetryIsIdle
           /\ [LinkNext]_<<vars, linkVars>> => RetryIsIdle'
    BY RetryIsIdleStep
  <1> QED
    BY <1>1, <1>2, DeviceInvCorrect, LinkInvCorrect, OneAtATimeCorrect, RestErasedCorrect, PTL
       DEF LinkSpec

(* On a prompt line whose device has no flash fault only the first send of *)
(* a request stores anything, however many retries there are: a DATA that  *)
(* is sent again finds its part stored or its session over.                *)
THEOREM OnlyFirstSendStores ==
    LinkSpec /\ [](faults = 0) => RetryStoresNothing
  <1> DEFINE first == line = "prompt" /\ upd'.received > upd.received => host.sends = 1
  <1>1. ASSUME DeviceInv, LinkInv, OneAtATime, RestErased, RetryIsIdle, faults = 0, faults' = 0,
               [LinkNext]_<<vars, linkVars>>
        PROVE  first
    <2> SUFFICES ASSUME line = "prompt", upd'.received > upd.received
                 PROVE  host.sends = 1
      OBVIOUS
    <2>1. /\ TypeOK /\ Phase /\ InSync /\ TransferInv /\ \A kind : ~Fault(kind)
          /\ upd.received \in Nat /\ RequestInv /\ host \in Host
          /\ host.waiting => host.result = "going" /\ host.sends # 0
      <3>1. DeviceInv /\ LinkInv /\ faults = 0 /\ faults' = 0
        BY <1>1
      <3>2. TypeOK /\ Phase /\ InSync /\ TransferInv /\ RequestInv
        BY <3>1 DEF DeviceInv, RecordInv, LinkInv, LineInv, RequestInv
      <3>3. upd.received \in Nat
        BY <3>2 DEF TypeOK, SessionTypeOK, Session
      <3> QED
        BY <3>1, <3>2, <3>3, Faultless DEF LinkInv, HostInv
    <2>2. upd'.received # 0 /\ upd'.received # upd.received
      BY <2>1
    <2>3. Handle
      <3>1. AnswerEnd => upd'.received = upd.received
        BY <2>1 DEF AnswerEnd, EndDone, EndFailed, TypeOK, SessionTypeOK, Session
      <3> QED
        BY <1>1, <2>2, <3>1
           DEF LinkNext, Send, Receive, HostTimeout, NextInvocation, HandleEnd, EndCommit,
               HandleReset, HostReset, Reset, Restart, Unheard, DeviceRuns, LoadMetadata,
               ReconstructMetadata, Commit, CommitStep, CommitReturns, Decide, ReadyReset,
               AppConfirm, SessionTimesOut, SessionTimeout, Timeout, WindowEnds, Jump, FreshSession,
               vars, sessionVars
    <2> DEFINE f == Head(toDevice)
    <2>4. f = Request /\ f \in Asked /\ host.waiting
      BY <1>1, <2>1, <2>3, HeadAsked, HeadIsRequest DEF Handle, RequestInv
    <2>5. PICK r \in Reply :
             \/ f.command = "GET_INFO" /\ r = "ACK" /\ NoEffect(r)
             \/ f.command = "START_UPDATE" /\ Start(File, f.seq, r)
             \/ f.command = "DATA" /\ Data(f.seq, FileLength(f), Content(f), r)
             \/ f.command = "END_UPDATE" /\ (EndRejected(r) \/ EndUnverified(r) \/ EndHeaderError(r))
      BY <2>3 DEF Handle
    <2> HIDE DEF f
    <2>6. ~Start(File, f.seq, r)
      BY <2>1, <2>2
         DEF Start, StartRejected, StartAccepted, StartFlashError, HeaderReceived, Opened,
             TypeOK, SessionTypeOK, Session
    <2>7. f.command = "DATA" /\ Data(f.seq, FileLength(f), Content(f), r)
      BY <2>2, <2>5, <2>6 DEF NoEffect, EndRejected, EndUnverified, EndHeaderError
    <2>8. Wanted(f)
      BY <1>1, <2>1, <2>2, <2>4, <2>7, PartStored
    <2>9. ~Tried
      BY <1>1, <2>1, <2>4, <2>7, <2>8 DEF RetryIsIdle
    <2> QED
      BY <2>1, <2>4, <2>9, LinkAssumption DEF Tried, Host
  <1>2. LinkSpec /\ [](faults = 0) => [][first]_<<vars, linkVars>>
    <2>1. DeviceInv /\ LinkInv /\ OneAtATime /\ (faults = 0 => RestErased) /\ RetryIsIdle
             /\ faults = 0 /\ (faults = 0)' /\ [LinkNext]_<<vars, linkVars>>
             => [first]_<<vars, linkVars>>
      BY <1>1
    <2> QED
      BY <2>1, DeviceInvCorrect, LinkInvCorrect, OneAtATimeCorrect, RestErasedCorrect,
         RetryIsIdleCorrect, PTL DEF LinkSpec
  <1> QED
    BY <1>2 DEF RetryStoresNothing

-----------------------------------------------------------------------------
(* An update that nothing disturbs.                                        *)

(* No frame is lost, no flash operation fails, and the window of the       *)
(* update stays open.                                                      *)
Undisturbed == line = "prompt" /\ faults = 0 /\ ~mishap /\ Invocation = "update"

(* The device waits for a command, *)
Idling == pc = "loop" /\ Listening

(* with a session for which it may write the slot. *)
Receptive == Idling /\ upd.state = "RECEIVING" /\ Writable(File.target)

(* The file is pending and has not been tried. *)
OnTrial(tab) ==
    /\ tab.pending = File.target
    /\ tab.slot[File.target].state = "PENDING" /\ tab.slot[File.target].count = 0

(* The device from the commit of END to the window that its reset opens.   *)
Landing ==
    /\ Bootable(File.target)
    /\ \/ Installing /\ OnTrial(table)
       \/ pc = "reset" /\ mailbox = Blank /\ HasDurable /\ OnTrial(Durable.body)
       \/ pc = "decide" /\ mailbox = Blank /\ OnTrial(table)
       \/ (pc = "commit" \/ Idling) /\ table.slot[File.target].state = "PENDING"

(* A device that waits for a command does nothing else. *)
LEMMA IdlingQuiet == Idling => ~DeviceRuns
  BY DEF Idling, Listening, DeviceRuns, LoadMetadata, ReconstructMetadata, Commit, CommitStep,
         CommitReturns, Decide, ReadyReset, AppConfirm, Store!Erase, Store!EraseError,
         Store!Program, Store!ProgramError

(* It waits again when it has answered at once. *)
LEMMA HandleListens ==
    ASSUME TypeOK, Handle
    PROVE  Idling /\ Idling' /\ UNCHANGED <<pc, meta, stage>>
  <1> DEFINE f == Head(toDevice)
  <1>1. pc = "loop" /\ pc' = pc /\ upd \in Session
    BY DEF Handle, bootVars, TypeOK, SessionTypeOK
  <1>2. PICK r \in Reply :
           \/ f.command = "GET_INFO" /\ r = "ACK" /\ NoEffect(r)
           \/ f.command = "START_UPDATE" /\ Start(File, f.seq, r)
           \/ f.command = "DATA" /\ Data(f.seq, FileLength(f), Content(f), r)
           \/ f.command = "END_UPDATE" /\ (EndRejected(r) \/ EndUnverified(r) \/ EndHeaderError(r))
    BY DEF Handle
  <1> HIDE DEF f
  <1>3. CASE NoEffect(r) \/ EndRejected(r) \/ EndUnverified(r) \/ EndHeaderError(r)
    BY <1>1, <1>3 DEF NoEffect, EndRejected, EndUnverified, EndHeaderError, HeaderProgrammable,
                      storeUnchanged, Listening, Idling
  <1>4. CASE Start(File, f.seq, r)
    <2>1. Listening /\ storeUnchanged
      BY <1>4 DEF Start, StartRejected, StartFlashError, StartAccepted, StartAcceptable
    <2>2. upd'.state = upd.state \/ upd'.state = "RECEIVING"
      BY <1>1, <1>4 DEF Start, StartRejected, StartFlashError, StartAccepted, HeaderReceived,
                        Opened, Session
    <2> QED
      BY <1>1, <2>1, <2>2 DEF storeUnchanged, Listening, Idling
  <1>5. CASE Data(f.seq, FileLength(f), Content(f), r)
    <2>1. Listening /\ meta' = meta /\ stage' = stage
      BY <1>5 DEF Data, DataRejected, DataRefused, DataStored, DataSpoilt, DataBeyond,
                  DataAcceptable, storeUnchanged
    <2>2. upd'.state = upd.state
      BY <1>1, <1>5 DEF Data, DataRejected, DataRefused, DataStored, DataSpoilt, DataBeyond,
                        DataReceived, Session
    <2> QED
      BY <1>1, <2>1, <2>2 DEF Listening, Idling
  <1> QED
    BY <1>2, <1>3, <1>4, <1>5

(* While the device commits an END the request is in its hands: nothing    *)
(* comes between EndCommit and the answer.                                 *)
EndBusy ==
    line = "prompt" /\ pc = "loop" /\ stage # "ready" =>
        toDevice # <<>> /\ Head(toDevice).command = "END_UPDATE"

LEMMA EndBusyStep ==
    ASSUME TypeOK, Phase, LinkInv, OneAtATime, EndBusy, [LinkNext]_<<vars, linkVars>>
    PROVE  EndBusy'
  <1> SUFFICES ASSUME line' = "prompt", pc' = "loop", stage' # "ready"
               PROVE  toDevice' # <<>> /\ Head(toDevice').command = "END_UPDATE"
    BY DEF EndBusy
  <1>1. line = "prompt"
    BY DEF LinkNext, Send, Receive, HostTimeout, NextInvocation, Handle, HandleEnd, AnswerEnd,
           Answer, HandleReset, Unheard, DeviceRuns, SessionTimesOut, WindowEnds, linkVars
  <1>2. CASE pc = "loop" /\ stage # "ready" /\ toDevice' = toDevice
    BY <1>1, <1>2 DEF EndBusy
  <1>3. CASE Send
    BY <1>1, <1>3 DEF Send, EndBusy, OneAtATime, vars, sessionVars, bootVars
  <1>4. CASE Receive \/ HostTimeout \/ NextInvocation \/ UNCHANGED <<vars, linkVars>>
    BY <1>2, <1>4 DEF Receive, HostTimeout, NextInvocation, vars, sessionVars, bootVars, linkVars
  <1>5. ~Handle
    BY HandleListens DEF Idling, Listening
  <1>6. CASE HandleEnd
    BY <1>6 DEF HandleEnd, linkVars
  <1>7. ~AnswerEnd /\ ~HandleReset /\ ~Unheard /\ ~SessionTimesOut /\ ~WindowEnds
    BY DEF AnswerEnd, EndDone, EndFailed, Store!Return, HandleReset, HostReset, Reset, Restart,
           Unheard, SessionTimesOut, SessionTimeout, Timeout, Listening, storeUnchanged, WindowEnds,
           Jump, vars, sessionVars, bootVars
  <1>8. CASE DeviceRuns
    <2>1. Commit \/ Decide
      BY <1>8 DEF DeviceRuns, LoadMetadata, ReconstructMetadata, CommitReturns, Store!Return,
                  ReadyReset, AppConfirm, Reset, Restart
    <2>2. ~Decide
      BY DEF Decide, Phase, storeUnchanged
    <2>3. pc = "loop" /\ stage # "ready" /\ toDevice' = toDevice
      BY <1>8, <2>1, <2>2 DEF DeviceRuns, Commit, CommitStep, bootVars, Store!Erase,
                              Store!EraseError, Store!Program, Store!ProgramError, linkVars
    <2> QED
      BY <1>2, <2>3
  <1> QED
    BY <1>3, <1>4, <1>5, <1>6, <1>7, <1>8 DEF LinkNext

LEMMA EndBusyCorrect == LinkSpec => []EndBusy
  <1>1. LinkInit => EndBusy
    BY DEF LinkInit, Init, EndBusy
  <1>2. DeviceInv => TypeOK /\ Phase
    BY DEF DeviceInv, RecordInv
  <1>3. TypeOK /\ Phase /\ LinkInv /\ OneAtATime /\ EndBusy /\ [LinkNext]_<<vars, linkVars>>
           => EndBusy'
    BY EndBusyStep
  <1> QED
    BY <1>1, <1>2, <1>3, DeviceInvCorrect, LinkInvCorrect, OneAtATimeCorrect, PTL DEF LinkSpec

(* From the commit of END the device goes through its reset, the first     *)
(* attempt and its commit, to a window, with the image still pending.      *)
LEMMA LandingRuns ==
    ASSUME TypeOK, Phase, InSync, faults = 0, faults' = 0, Landing, DeviceRuns
    PROVE  Landing' /\ pc' \notin {"app", "wild"}
  <1>1. /\ hdr' = hdr /\ area' = area /\ \A kind : ~Fault(kind)
        /\ pc' \notin {"app", "wild"} /\ pc \notin {"app", "wild", "reconstruct"}
    <2>1. hdr' = hdr /\ area' = area
      BY DEF DeviceRuns, LoadMetadata, ReconstructMetadata, Commit, CommitStep, CommitReturns, Decide,
             ReadyReset, AppConfirm
    <2>2. pc \notin {"app", "wild", "reconstruct"}
      BY DEF Landing, Installing, Idling
    <2>3. pc' \notin {"app", "wild"}
      BY <2>2
         DEF DeviceRuns, LoadMetadata, ReconstructMetadata, Commit, CommitReturns, Decide,
             ReadyReset, AppConfirm, Reset, Restart, bootVars
    <2> QED
      BY <2>1, <2>2, <2>3, Faultless
  <1>2. Bootable(File.target) /\ Bootable(File.target)'
    BY <1>1 DEF Landing, Bootable
  <1>3. CASE Commit
    <2>1. /\ stage \in {"erase", "program"} /\ stage' # "ready" /\ table' = table
          /\ upd' = upd /\ pc' = pc
      <3>1. meta \in Store!Record
        BY DEF TypeOK, Store!StoreTypeOK
      <3> QED
        BY <1>1, <1>3, <3>1
           DEF Commit, CommitStep, bootVars, Store!Erase, Store!EraseError, Store!Program,
               Store!ProgramError, Store!NextRecord, Store!Record, table
    <2>2. pc # "reset" /\ pc # "decide" /\ ~Idling
      BY <2>1 DEF Phase, Idling, Listening
    <2> QED
      BY <1>1, <1>2, <2>1, <2>2 DEF Landing, Installing, OnTrial
  <1>4. CASE CommitReturns
    <2>1. pc = "commit" /\ pc' = "loop" /\ stage' = "ready" /\ table' = table /\ upd' = upd
      BY <1>1, <1>4 DEF CommitReturns, Store!Return, table
    <2>2. Idling'
      BY <2>1 DEF Phase, Idling, Listening
    <2>3. table.slot[File.target].state = "PENDING"
      BY <2>1 DEF Landing, Installing
    <2> QED
      BY <1>1, <1>2, <2>1, <2>2, <2>3 DEF Landing
  <1>5. CASE ReadyReset
    <2>1. pc = "loop" /\ stage = "ready" /\ ~Idling
      BY <1>5 DEF ReadyReset, Idling, Listening
    <2>2. HasDurable /\ Durable.body = table /\ OnTrial(table)
      BY <2>1 DEF InSync, Landing
    <2>3. pc' = "reset" /\ mailbox' = Blank /\ copies' = copies
      BY <1>5, <2>1 DEF ReadyReset, Reset, Restart, Store!Crash
    <2>4. HasDurable' /\ Durable' = Durable
      BY <2>2, <2>3 DEF HasDurable, Durable
    <2> QED
      BY <1>1, <1>2, <2>2, <2>3, <2>4 DEF Landing
  <1>6. CASE LoadMetadata
    <2>1. pc = "reset" /\ pc' = "decide" /\ mailbox' = mailbox /\ table' = Durable.body
      BY <1>6 DEF LoadMetadata, Store!Load, table, Durable
    <2>2. mailbox = Blank /\ OnTrial(Durable.body)
      BY <2>1 DEF Landing, Installing, Idling
    <2> QED
      BY <1>1, <1>2, <2>1, <2>2 DEF Landing
  <1>7. ~ReconstructMetadata
    BY DEF ReconstructMetadata, Store!Reconstruct, Landing, Installing, Idling, HasDurable
  <1>8. CASE Decide
    <2>1. pc = "decide" /\ mailbox = Blank /\ OnTrial(table)
      BY <1>8 DEF Decide, Landing, Installing, Idling
    <2> DEFINE ok == [s \in Slots |-> Bootable(s)]
               d == BootDecide(table, Received, ok)
    <2>2. /\ table.pending = File.target /\ File.target \in Slots
          /\ table \in SlotTable /\ table.slot \in [Slots -> SlotRecord]
      <3>1. table \in SlotTable
        BY DEF TypeOK, Store!StoreTypeOK, Store!Record, table
      <3> QED
        BY <2>1, <3>1, FileFacts DEF OnTrial, SlotTable
    <2>3. Received = {} /\ ok[table.pending]
      BY <1>2, <2>1, <2>2 DEF Received
    <2>4. ~Exhausted(table, ok)
      BY <2>1, <2>2, <2>3, MaxAttemptsAssumption DEF Exhausted, OnTrial
    <2>5. d.table = Attempt(table) /\ d.commit
      BY <2>2, <2>3, <2>4 DEF BootDecide, Confirmed
    <2>6. pc' = "commit" /\ table' = Attempt(table)
      <3>1. \/ d.commit /\ Store!Begin(d.table) /\ pc' = "commit"
            \/ ~d.commit
        BY <1>8, Zenon DEF Decide
      <3>2. Store!Begin(Attempt(table)) /\ pc' = "commit"
        BY <2>5, <3>1, Zenon
      <3> QED
        BY <3>2 DEF Store!Begin, table, TypeOK, Store!StoreTypeOK, Store!Record
    <2>7. table'.slot[File.target].state = "PENDING"
      BY <2>1, <2>2, <2>6 DEF Attempt, OnTrial, SlotTable, SlotRecord
    <2> QED
      BY <1>1, <1>2, <2>6, <2>7 DEF Landing
  <1> QED
    BY <1>1, <1>3, <1>4, <1>5, <1>6, <1>7, <1>8 DEF DeviceRuns, AppConfirm

(* The host misses at most one answer to a request: that of a device which *)
(* was in start-up then and is not any more. *)
OneMiss ==
    /\ host.sends <= 2
    /\ ~host.waiting => host.sends <= 1
    /\ host.sends = 2 => toDevice # <<>> \/ toHost # <<>>
    /\ host.sends = 2 \/ (host.sends = 1 /\ ~host.waiting) => Idling

(* It misses none between START and END. *)
NoneMissed ==
    host.step \in 2 .. Parts + 3 =>
        /\ host.sends <= 1
        /\ ~host.waiting => host.sends = 0
        /\ host.sends = 1 => toDevice # <<>> \/ toHost # <<>>

(* Where the device is by the request that the host has come to, before    *)
(* its answer and after: the first GET_INFO, *)
AtInfo ==
    host.step = 1 /\ toHost # <<>> =>
        Idling /\ Head(toHost).reply = "ACK" /\ Head(toHost).info.active = table.active

(* START, refused only for the slot that may not be written, *)
AtStart ==
    host.step = 2 =>
        /\ Idling
        /\ toHost # <<>> /\ Head(toHost).reply = "ACK" => Receptive /\ upd.nextSeq = 2
        /\ toHost # <<>> /\ Head(toHost).reply # "ACK" => ~Writable(File.target)

(* each DATA, *)
AtData ==
    host.step \in 3 .. Parts + 2 =>
        /\ Receptive
        /\ toHost = <<>> => upd.nextSeq = host.step - 1
        /\ toHost # <<>> => upd.nextSeq = host.step /\ Head(toHost).reply = "ACK"

(* END, *)
AtEnd ==
    host.step = Parts + 3 =>
        /\ toHost = <<>> =>
              \/ Receptive /\ upd.nextSeq = Parts + 2
              \/ pc = "loop" /\ stage # "ready" /\ Landing
        /\ toHost # <<>> => Head(toHost).reply = "ACK" /\ Landing

(* and the GET_INFO that looks for the pending image. *)
AtLook ==
    host.step = Parts + 4 =>
        /\ Landing
        /\ toHost # <<>> =>
              Idling /\ Head(toHost).reply = "ACK" /\ Head(toHost).info.state = "PENDING"

Progress ==
    /\ pc \notin {"app", "wild"}
    /\ OneMiss /\ NoneMissed
    /\ AtInfo /\ AtStart /\ AtData /\ AtEnd /\ AtLook

UpdateProgress == Undisturbed /\ host.result = "going" => Progress

(* Steps of the host leave the device where it is. *)
LEMMA SameDevice ==
    ASSUME UNCHANGED vars
    PROVE  /\ UNCHANGED <<pc, stage, upd, table>>
           /\ Idling' <=> Idling
           /\ Receptive' <=> Receptive
           /\ Landing' <=> Landing
           /\ Writable(File.target)' <=> Writable(File.target)
  <1>1. UNCHANGED <<copies, meta, stage, hdr, area, upd, pc, mailbox, table>>
    BY DEF vars, sessionVars, bootVars, table
  <1>2. Idling' <=> Idling
    BY <1>1 DEF Idling, Listening
  <1>3. Writable(File.target)' <=> Writable(File.target)
    BY <1>1 DEF Writable
  <1>4. Landing' <=> Landing
    BY <1>1, <1>2 DEF Landing, Installing, Bootable, OnTrial, HasDurable, Durable
  <1> QED
    BY <1>1, <1>2, <1>3, <1>4 DEF Receptive

(* The host sends. *)
LEMMA ProgressSend ==
    ASSUME LinkInv, OneAtATime, line = "prompt", Progress, Send, ~Trouble
    PROVE  Progress'
  <1>1. /\ toHost' = <<>> /\ toHost = <<>> /\ toDevice' # <<>>
        /\ host'.step = host.step /\ host'.sends = host.sends + 1 /\ host'.waiting
        /\ ~host.waiting /\ host.sends \in Nat
    <2>1. host \in Host /\ toDevice = <<>> /\ toHost = <<>> /\ toHost' = toHost /\ ~host.waiting
      BY DEF Send, OneAtATime, LinkInv, HostInv
    <2>2. toDevice' = <<Request>>
      BY <2>1, OneFrame DEF Send
    <2> QED
      BY <2>1, <2>2, OneFrame, LinkAssumption DEF Send, Host
  <1>2. UNCHANGED vars
    BY DEF Send
  <1> QED
    BY <1>1, <1>2, SameDevice
       DEF Progress, OneMiss, NoneMissed, AtInfo, AtStart, AtData, AtEnd, AtLook

(* It takes the answer it waits for, and goes on. *)
LEMMA ProgressReceive ==
    ASSUME LinkInv, OneAtATime, line = "prompt", Invocation = "update", Progress, Receive,
           host'.result = "going"
    PROVE  Progress'
  <1>1. /\ host \in Host /\ Parts \in Nat \ {0} /\ host.step \in 1 .. Parts + 4
        /\ Matches(Head(toHost)) /\ toHost # <<>> /\ toHost' = <<>> /\ UNCHANGED vars
    <2>1. /\ host \in Host /\ Parts \in Nat \ {0} /\ toHost # <<>> /\ toHost' = Tail(toHost)
          /\ host.waiting /\ UNCHANGED vars
      BY FileFacts DEF LinkInv, HostInv, Receive
    <2>2. PICK m \in Told : toHost = <<m>> /\ Matches(m)
      BY <2>1 DEF OneAtATime
    <2> QED
      BY <2>1, <2>2, OneFrame DEF Host
  <1>2. host' = Acknowledged(Head(toHost).info) /\ Head(toHost).reply = "ACK"
    BY <1>1 DEF Receive, Ended, Host
  <1>3. /\ host'.step = host.step + 1 /\ host'.sends = 0 /\ ~host'.waiting
        /\ host.step # Parts + 4
    <2>1. LastStep <=> host.step = Parts + 4
      BY <1>1, UpdateRequest
    <2> QED
      BY <1>1, <1>2, <2>1 DEF Acknowledged, Ended, Host
  <1>4. pc' \notin {"app", "wild"} /\ OneMiss' /\ NoneMissed' /\ AtInfo' /\ AtStart'
    BY <1>1, <1>2, <1>3, SameDevice DEF Progress, OneMiss, NoneMissed, AtInfo, AtStart
  <1>5. AtData' /\ AtEnd' /\ AtLook'
    BY <1>1, <1>2, <1>3, SameDevice DEF Progress, AtStart, AtData, AtEnd, AtLook
  <1> QED
    BY <1>4, <1>5 DEF Progress

(* It gives up a first send, for the device has been in start-up. *)
LEMMA ProgressTimeout ==
    ASSUME LinkInv, OneAtATime, line = "prompt", Progress, HostTimeout, host'.result = "going"
    PROVE  Progress'
  <1>1. /\ host \in Host /\ host.waiting /\ host.sends \in Nat \ {0} /\ UNCHANGED vars
        /\ toHost = <<>> /\ toDevice = <<>> /\ toHost' = <<>> /\ toDevice' = <<>> /\ AtEase
        /\ host' = Unanswered /\ host.step \in Nat
    BY FileFacts, LinkAssumption DEF LinkInv, HostInv, HostTimeout, RunsOut, Overdue, Host
  <1>2. host'.step = host.step /\ host'.sends = host.sends /\ ~host'.waiting
    BY <1>1 DEF Unanswered, Host
  <1>3. host.sends = 1 /\ Idling /\ host.step \notin 2 .. Parts + 3
    BY <1>1 DEF Progress, OneMiss, NoneMissed, AtEase, Idling
  <1>4. host.step # 2 /\ host.step \notin 3 .. Parts + 2 /\ host.step # Parts + 3
    BY <1>3, FileFacts
  <1> QED
    BY <1>1, <1>2, <1>3, <1>4, SameDevice
       DEF Progress, OneMiss, NoneMissed, AtInfo, AtStart, AtData, AtEnd, AtLook

(* A new invocation finds the line silent. *)
LEMMA ProgressNew ==
    ASSUME LinkInv, OneAtATime', line' = "prompt", ~mishap', NextInvocation
    PROVE  Progress'
  <1>1. host'.step = 1 /\ host'.sends = 0 /\ ~host'.waiting /\ toHost' = <<>>
    BY DEF NextInvocation, NewHost, OneAtATime
  <1>2. pc' \notin {"app", "wild"}
    BY DEF NextInvocation, vars, bootVars
  <1>3. ~(1 \in 2 .. Parts + 3) /\ ~(1 \in 3 .. Parts + 2) /\ 1 # Parts + 3 /\ 1 # Parts + 4
    BY FileFacts
  <1> QED
    BY <1>1, <1>2, <1>3
       DEF Progress, OneMiss, NoneMissed, AtInfo, AtStart, AtData, AtEnd, AtLook

(* The device answers on a line that loses nothing. *)
LEMMA AnswerHeard ==
    ASSUME OneAtATime, line = "prompt", toDevice # <<>>, ~Trouble, NEW r \in Reply, Answer(r)
    PROVE  /\ Head(toDevice) = Request /\ toHost = <<>> /\ host.waiting /\ host' = host
           /\ toDevice' = <<>> /\ toHost' # <<>>
           /\ Head(toHost').reply = r /\ Head(toHost').info = Info
  <1> DEFINE m == [command |-> Head(toDevice).command, seq |-> Head(toDevice).seq, reply |-> r,
                   info |-> Info]
  <1>1. toDevice = <<Request>> /\ toHost = <<>> /\ host.waiting
    BY DEF OneAtATime
  <1>2. host' = host /\ toDevice' = Tail(toDevice) /\ toHost' = Append(toHost, m)
    BY DEF Answer
  <1>3. m.reply = r /\ m.info = Info
    OBVIOUS
  <1> HIDE DEF m
  <1> QED
    BY <1>1, <1>2, <1>3, OneFrame

(* A session that has the whole file passes every check of END. *)
LEMMA EndAccepted ==
    ASSUME DeviceInv, faults = 0, \A kind : ~Fault(kind), Receptive, upd.nextSeq = Parts + 2, NEW r
    PROVE  ~EndRejected(r) /\ ~EndUnverified(r) /\ ~EndHeaderError(r)
  <1> DEFINE s == File.target
  <1>1. /\ upd.state = "RECEIVING" /\ upd.header = File /\ upd.received = Upto(Parts + 2)
        /\ TransferIsPrefix /\ Writable(s) /\ pc = "loop" /\ stage = "ready"
        /\ Addressed(File) = s /\ s \in Slots /\ File \in Header /\ File.payload \in Payload
        /\ File.size \in 1 .. SlotSize /\ SlotSize \in Nat
    BY TransferSound, FileFacts DEF DeviceInv, Receptive, Idling, Listening, TransferInv
  <1>2. Upto(Parts + 2) = File.size
    <2>1. (Parts + 2) - 2 = Parts /\ File.size <= Parts * Chunk /\ Parts * Chunk \in Int
      BY FileFacts
    <2>2. Upto(Parts + 2) = IF Parts * Chunk <= File.size THEN Parts * Chunk ELSE File.size
      BY <2>1 DEF Upto
    <2> DEFINE n == Parts * Chunk
    <2>3. Upto(Parts + 2) = (IF n <= File.size THEN n ELSE File.size) /\ n \in Int /\ File.size <= n
      BY <2>1, <2>2
    <2> HIDE DEF n
    <2> QED
      BY <1>1, <2>3
  <1>3. \A i \in 0 .. File.size - 1 : area[s][i] = File.payload
    BY <1>1, <1>2 DEF TransferIsPrefix
  <1>4. Complete /\ PayloadCrcMatches(area[s], File)
    BY <1>1, <1>2, <1>3 DEF Complete, PayloadCrcMatches
  <1>5. VectorValid(area[s], s)
    <2>1. 0 \in 0 .. File.size - 1
      BY <1>1
    <2> QED
      BY <1>1, <1>3, <2>1, LinkAssumption DEF VectorValid
  <1>6. Verified /\ Writable(Addressed(upd.header))
    BY <1>1, <1>4, <1>5 DEF Verified
  <1>7. Junk \notin HeaderAfterProgram(hdr[s], File)
    <2>1. hdr[s] = Erased
      BY <1>1 DEF DeviceInv, InstallInv, ErasedUnderSession
    <2> QED
      BY <1>1, <2>1, HeaderContentAssumption DEF HeaderAfterProgram
  <1> QED
    BY <1>1, <1>4, <1>6, <1>7 DEF EndRejected, EndUnverified, EndHeaderError

(* A command that is answered at once. *)
LEMMA ProgressHandle ==
    ASSUME DeviceInv, RestErased, LinkInv, OneAtATime, Undisturbed, Progress, Handle, ~Trouble,
           \A kind : ~Fault(kind)
    PROVE  Progress'
  <1> DEFINE f == Head(toDevice)
             k == host.step
  <1>1. /\ TypeOK /\ TransferInv /\ line = "prompt" /\ faults = 0 /\ Invocation = "update"
        /\ host \in Host /\ toDevice # <<>> /\ f \in Asked
    BY HeadAsked DEF DeviceInv, Undisturbed, LinkInv, HostInv, LineInv, Handle
  <1>2. /\ Idling /\ Idling' /\ pc' = pc /\ table' = table
        /\ Writable(File.target)' <=> Writable(File.target)
    BY <1>1, HandleListens DEF table, Writable
  <1>3. PICK r \in Reply :
          /\ \/ f.command = "GET_INFO" /\ r = "ACK" /\ NoEffect(r)
             \/ f.command = "START_UPDATE" /\ Start(File, f.seq, r)
             \/ f.command = "DATA" /\ Data(f.seq, FileLength(f), Content(f), r)
             \/ f.command = "END_UPDATE" /\ (EndRejected(r) \/ EndUnverified(r) \/ EndHeaderError(r))
          /\ Answer(r)
    BY DEF Handle
  <1>4. /\ f = Request /\ toHost = <<>> /\ host' = host /\ toDevice' = <<>> /\ toHost' # <<>>
        /\ Head(toHost').reply = r /\ Head(toHost').info = Info
    BY <1>1, <1>3, AnswerHeard
  <1>5. /\ k \in 1 .. Parts + 4 /\ f.seq = k - 1 /\ Parts \in Nat \ {0}
        /\ f.command = "START_UPDATE" <=> k = 2
        /\ f.command = "DATA" <=> k \in 3 .. Parts + 2
        /\ f.command = "END_UPDATE" <=> k = Parts + 3
        /\ f.command = "GET_INFO" <=> k \in {1, Parts + 4}
    BY <1>1, <1>4, UpdateRequest, FileFacts
  <1> HIDE DEF f
  <1>6. pc' \notin {"app", "wild"} /\ OneMiss' /\ NoneMissed'
    BY <1>2, <1>4 DEF Progress, OneMiss, NoneMissed
  <1>7. CASE k \in {1, Parts + 4}
    <2>1. r = "ACK" /\ NoEffect(r)
      BY <1>3, <1>5, <1>7
    <2>2. AtInfo'
      BY <1>2, <1>4, <2>1 DEF AtInfo, Info
    <2>3. AtLook'
      <3>1. Landing => Landing' /\ table.slot[File.target].state = "PENDING"
        <4>1. hdr' = hdr /\ area' = area /\ ~Installing
          BY <1>2, <2>1 DEF NoEffect, flashUnchanged, Idling, Listening, Installing
        <4> QED
          BY <1>2, <4>1 DEF Landing, Bootable, Idling
      <3> QED
        BY <1>2, <1>4, <2>1, <3>1 DEF Progress, AtLook, Info
    <2> QED
      BY <1>4, <1>5, <1>6, <1>7, <2>2, <2>3 DEF Progress, AtStart, AtData, AtEnd
  <1>8. CASE k = 2
    <2>1. Start(File, 1, r)
      BY <1>3, <1>5, <1>8
    <2>2. CASE StartRejected(File, r)
      <3>1. r = "SLOT" /\ File.target = table.active /\ File.target \in Slots
        BY <2>2, LinkAssumption, FileFacts DEF StartRejected
      <3> QED
        BY <1>2, <1>4, <1>5, <1>6, <1>8, <3>1
           DEF Progress, AtInfo, AtStart, AtData, AtEnd, AtLook, Writable, Slots
    <2>3. CASE StartFlashError(File, r)
      <3>1. r = "FLASH" /\ ~Writable(File.target)
        BY <1>1, <2>3 DEF StartFlashError
      <3> QED
        BY <1>2, <1>4, <1>5, <1>6, <1>8, <3>1
           DEF Progress, AtInfo, AtStart, AtData, AtEnd, AtLook
    <2>4. CASE StartAccepted(File, 1, r)
      <3>1. r = "ACK" /\ Writable(File.target) /\ upd'.state = "RECEIVING"
            /\ upd'.nextSeq = (1 + 1) % SeqMod
        BY <2>4 DEF StartAccepted, Opened
      <3>2. (1 + 1) % SeqMod = 2
        BY FileFacts
      <3> QED
        BY <1>2, <1>4, <1>5, <1>6, <1>8, <3>1, <3>2
           DEF Progress, AtInfo, AtStart, AtData, AtEnd, AtLook, Receptive
    <2> QED
      BY <2>1, <2>2, <2>3, <2>4 DEF Start
  <1>9. CASE k \in 3 .. Parts + 2
    <2>1. f.command = "DATA" /\ Data(f.seq, FileLength(f), Content(f), r)
      BY <1>3, <1>5, <1>9
    <2>2. Receptive /\ upd.nextSeq = f.seq
      BY <1>4, <1>5, <1>9 DEF Progress, AtData
    <2>3. r = "ACK" /\ upd' = DataReceived(f.seq, FileLength(f), Content(f))
      <3>1. Wanted(f)
        BY <2>2 DEF Wanted, Receptive
      <3> QED
        BY <1>1, <2>1, <3>1, PartStored
    <2>4. upd'.state = "RECEIVING" /\ upd'.nextSeq = (f.seq + 1) % SeqMod
      BY <1>1, <2>2, <2>3, TypeParts DEF DataReceived, SessionTypes, OpenSession, Session, Receptive
    <2>5. (f.seq + 1) % SeqMod = k
      <3>1. k \in 1 .. SeqMod - 1 /\ f.seq + 1 = k /\ SeqMod \in Nat
        BY <1>5, <1>9, FileFacts
      <3> HIDE DEF k
      <3> QED
        BY <3>1
    <2> QED
      BY <1>2, <1>4, <1>5, <1>6, <1>9, <2>2, <2>3, <2>4, <2>5
         DEF Progress, AtInfo, AtStart, AtData, AtEnd, AtLook, Receptive
  <1>10. k # Parts + 3
    <2> SUFFICES ASSUME k = Parts + 3 PROVE FALSE
      OBVIOUS
    <2>1. EndRejected(r) \/ EndUnverified(r) \/ EndHeaderError(r)
      BY <1>3, <1>5
    <2>2. Receptive /\ upd.nextSeq = Parts + 2
      BY <1>2, <1>4 DEF Progress, AtEnd, Idling, Listening
    <2> QED
      BY <1>1, <2>1, <2>2, EndAccepted
  <1> QED
    BY <1>5, <1>7, <1>8, <1>9, <1>10

(* END writes the header and the device begins its commit. *)
LEMMA ProgressEnd ==
    ASSUME DeviceInv, DeviceInv', LinkInv, OneAtATime, Undisturbed, faults' = 0, Progress, HandleEnd
    PROVE  Progress'
  <1>1. /\ TypeOK /\ line = "prompt" /\ Invocation = "update" /\ host \in Host
        /\ pc = "loop" /\ pc' = pc /\ stage' = "erase" /\ upd' = upd
        /\ meta'.body = Install(table, upd.header) /\ Complete
        /\ host' = host /\ toDevice' = toDevice /\ toHost' = toHost
        /\ toDevice # <<>> /\ Head(toDevice).command = "END_UPDATE"
    <2>1. stage' = "erase" /\ meta' = [meta EXCEPT !.body = Install(table, upd.header)]
      BY DEF HandleEnd, EndCommit, Store!Begin
    <2>2. meta'.body = Install(table, upd.header)
      BY <2>1 DEF DeviceInv, TypeOK, Store!StoreTypeOK, Store!Record
    <2> QED
      BY <2>1, <2>2 DEF DeviceInv, Undisturbed, LinkInv, HostInv, HandleEnd, EndCommit,
                        HeaderProgrammable, bootVars, linkVars
  <1>2. host.step = Parts + 3 /\ toHost = <<>>
    BY <1>1, HeadIsRequest, UpdateRequest
  <1>3. upd.header = File
    BY <1>1 DEF DeviceInv, TransferInv, Complete
  <1>4. Installing'
    BY <1>1 DEF Installing
  <1>5. Bootable(File.target)'
    BY <1>1, <1>3, <1>4 DEF DeviceInv, InstallIsWhole
  <1>6. OnTrial(table)'
    <2>1. table' = Install(table, File) /\ table \in SlotTable /\ table.slot \in [Slots -> SlotRecord]
      BY <1>1, <1>3 DEF table, TypeOK, Store!StoreTypeOK, Store!Record, SlotTable
    <2> QED
      BY <2>1, FileFacts DEF OnTrial, Install, SlotTable
  <1>7. Landing'
    BY <1>4, <1>5, <1>6 DEF Landing
  <1>8. pc' \notin {"app", "wild"} /\ NoneMissed'
    BY <1>1 DEF Progress, NoneMissed
  <1>9. OneMiss'
    <2>1. host.sends <= 1 /\ host.sends \in Nat /\ (~host.waiting => host.sends = 0)
      BY <1>1, <1>2, FileFacts, LinkAssumption DEF Progress, NoneMissed, Host
    <2> QED
      BY <1>1, <2>1 DEF OneMiss
  <1>10. Parts + 3 \notin 3 .. Parts + 2 /\ Parts + 3 # 1 /\ Parts + 3 # 2 /\ Parts + 3 # Parts + 4
    BY FileFacts
  <1> QED
    BY <1>1, <1>2, <1>7, <1>8, <1>9, <1>10 DEF Progress, AtInfo, AtStart, AtData, AtEnd, AtLook

(* It answers END when the commit has succeeded. *)
LEMMA ProgressAnswer ==
    ASSUME DeviceInv, LinkInv, OneAtATime, EndBusy, Undisturbed, Progress, AnswerEnd, ~Trouble
    PROVE  Progress'
  <1>1. /\ TypeOK /\ line = "prompt" /\ Invocation = "update" /\ host \in Host
        /\ pc = "loop" /\ pc' = pc /\ toDevice # <<>> /\ upd \in Session /\ stage # "failed"
    BY DEF DeviceInv, InSync, Undisturbed, LinkInv, HostInv, AnswerEnd, bootVars, TypeOK, SessionTypeOK
  <1>2. PICK r \in Reply : (EndDone(r) \/ EndFailed(r)) /\ Answer(r)
    BY DEF AnswerEnd
  <1>3. EndDone(r) /\ r = "ACK" /\ stage = "ok"
    BY <1>1, <1>2 DEF EndDone, EndFailed
  <1>4. /\ Head(toDevice) = Request /\ toHost = <<>> /\ host' = host /\ toDevice' = <<>>
        /\ toHost' # <<>> /\ Head(toHost').reply = "ACK"
    BY <1>1, <1>2, <1>3, AnswerHeard
  <1>5. host.step = Parts + 3
    BY <1>1, <1>3, <1>4, UpdateRequest DEF EndBusy
  <1>6. Landing /\ OnTrial(table)
    BY <1>1, <1>3, <1>4, <1>5 DEF Progress, AtEnd, Receptive, Idling, Listening, Landing
  <1>7. Landing'
    <2>1. hdr' = hdr /\ area' = area /\ table' = table /\ upd'.state = "READY_TO_BOOT"
      BY <1>1, <1>3 DEF EndDone, Store!Return, flashUnchanged, table, Session
    <2> QED
      BY <1>1, <1>6, <2>1 DEF Landing, Bootable, Installing, OnTrial
  <1>8. OneMiss' /\ NoneMissed'
    <2>1. host.sends <= 1 /\ host.sends \in Nat /\ (~host.waiting => host.sends = 0)
      BY <1>1, <1>5, FileFacts, LinkAssumption DEF Progress, NoneMissed, Host
    <2> QED
      BY <1>4, <2>1 DEF OneMiss, NoneMissed
  <1>9. Parts + 3 \notin 3 .. Parts + 2 /\ Parts + 3 # 1 /\ Parts + 3 # 2 /\ Parts + 3 # Parts + 4
    BY FileFacts
  <1> QED
    BY <1>1, <1>4, <1>5, <1>7, <1>8, <1>9 DEF Progress, AtInfo, AtStart, AtData, AtEnd, AtLook

(* A request reaches a device that is in start-up, and is lost. *)
LEMMA ProgressUnheard ==
    ASSUME LinkInv, OneAtATime, line = "prompt", Progress, Unheard
    PROVE  Progress'
  <1>1. /\ host \in Host /\ host.sends \in Nat \ {0} /\ host.waiting /\ host' = host
        /\ toHost = <<>> /\ toHost' = toHost /\ pc # "loop" /\ ~Idling /\ UNCHANGED vars
    <2>1. pc # "loop" /\ toDevice # <<>> /\ host' = host /\ toHost' = toHost /\ UNCHANGED vars
      BY DEF Unheard
    <2> QED
      BY <2>1, HeadIsRequest, LinkAssumption DEF LinkInv, HostInv, Host, Idling
  <1>2. host.sends = 1 /\ host.step # 2 /\ host.step \notin 3 .. Parts + 2 /\ host.step # Parts + 3
    BY <1>1 DEF Progress, OneMiss, AtStart, AtData, AtEnd, Receptive
  <1>3. host.step \notin 2 .. Parts + 3
    BY <1>1, <1>2, FileFacts DEF Host
  <1> QED
    BY <1>1, <1>2, <1>3, SameDevice
       DEF Progress, OneMiss, NoneMissed, AtInfo, AtStart, AtData, AtEnd, AtLook

(* The device runs by itself only while it lands, or before the update. *)
LEMMA ProgressRuns ==
    ASSUME DeviceInv, Undisturbed, faults' = 0, Progress, DeviceRuns
    PROVE  Progress'
  <1>1. /\ TypeOK /\ Phase /\ InSync /\ faults = 0 /\ ~Idling /\ ~Receptive
        /\ host' = host /\ toDevice' = toDevice /\ toHost' = toHost
        /\ \A kind : ~Fault(kind)
    BY IdlingQuiet, Faultless DEF DeviceInv, RecordInv, Undisturbed, Receptive, DeviceRuns, linkVars
  <1>2. Landing => Landing'
    BY <1>1, LandingRuns
  <1>3. pc = "loop" /\ stage # "ready" => pc' = "loop" /\ stage' # "ready"
    BY <1>1
       DEF DeviceRuns, LoadMetadata, ReconstructMetadata, Commit, CommitStep, CommitReturns, Decide,
           ReadyReset, AppConfirm, bootVars, Store!Erase, Store!Program
  <1>4. pc' \notin {"app", "wild"}
    BY DEF Progress, DeviceRuns, LoadMetadata, ReconstructMetadata, Commit, CommitReturns, Decide,
           ReadyReset, AppConfirm, Reset, Restart, bootVars
  <1> QED
    BY <1>1, <1>2, <1>3, <1>4
       DEF Progress, OneMiss, NoneMissed, AtInfo, AtStart, AtData, AtEnd, AtLook

(* A session times out only before the START of this update. *)
LEMMA ProgressTimesOut ==
    ASSUME DeviceInv, LinkInv, line = "prompt", host.result = "going", Progress, SessionTimesOut
    PROVE  Progress'
  <1>1. /\ host' = host /\ toDevice' = toDevice /\ toHost' = toHost
        /\ Idling /\ Idling' /\ upd.state = "RECEIVING"
        /\ UNCHANGED <<pc, table, hdr, area>> /\ ~Exchanging
    BY DEF SessionTimesOut, SessionTimeout, Timeout, RunsOut, bootVars, storeUnchanged,
           flashUnchanged, table, Idling, Listening, FreshSession
  <1>2. /\ toHost = <<>> /\ host.sends \in Nat /\ host.sends # 0
        /\ host.sends = 1 => toDevice = <<>>
    BY <1>1, LinkAssumption DEF Exchanging, LinkInv, HostInv, Host
  <1>3. host.step \notin 2 .. Parts + 3
    BY <1>2 DEF Progress, NoneMissed
  <1>4. host.step # 2 /\ host.step \notin 3 .. Parts + 2 /\ host.step # Parts + 3
    BY <1>3, FileFacts
  <1>5. Landing => Landing'
    BY <1>1 DEF Landing, Installing, Idling, Listening, Bootable
  <1> QED
    BY <1>1, <1>2, <1>3, <1>4, <1>5
       DEF Progress, OneMiss, NoneMissed, AtInfo, AtStart, AtData, AtEnd, AtLook

(* What nothing disturbs now nothing has disturbed in this invocation. *)
LEMMA UndisturbedBefore ==
    ASSUME DeviceInv, LinkInv, Undisturbed', [LinkNext]_<<vars, linkVars>>, ~NextInvocation
    PROVE  Undisturbed /\ ~Trouble /\ ~WindowEnds /\ \A kind : ~Fault(kind)
  <1>1. line' = "prompt" /\ faults' = 0 /\ ~mishap' /\ Invocation' = "update"
    BY DEF Undisturbed
  <1>2. ~Trouble /\ ~WindowEnds
    BY <1>1 DEF Trouble, WindowEnds
  <1>3. line' = line /\ mishap' = mishap
    BY <1>2 DEF LinkNext, Send, Receive, HostTimeout, Handle, HandleEnd, AnswerEnd, Answer, HandleReset,
                Unheard, DeviceRuns, SessionTimesOut, WindowEnds, RunsOut, linkVars
  <1>4. faults = 0 /\ \A kind : ~Fault(kind)
    <2>1. TypeOK /\ [Next]_vars
      BY DeviceStep DEF DeviceInv, LinkInv, LineInv
    <2> QED
      BY <1>1, <2>1, FaultStep, Faultless
  <1>5. Invocation' = Invocation
    <2>1. host \in Host
      BY DEF LinkInv, HostInv
    <2>2. host'.at = host.at
      BY <2>1, HostMoves DEF Host, Unanswered, Acknowledged, Ended
    <2> QED
      BY <2>2 DEF Invocation
  <1> QED
    BY <1>1, <1>2, <1>3, <1>4, <1>5 DEF Undisturbed

LEMMA UpdateProgressStep ==
    ASSUME DeviceInv, DeviceInv', LinkInv, OneAtATime, OneAtATime', EndBusy,
           faults = 0 => RestErased, UpdateProgress, [LinkNext]_<<vars, linkVars>>
    PROVE  UpdateProgress'
  <1> SUFFICES ASSUME Undisturbed', host'.result = "going"
               PROVE  Progress'
    BY DEF UpdateProgress
  <1>1. CASE NextInvocation
    BY <1>1, ProgressNew DEF Undisturbed
  <1>2. CASE ~NextInvocation
    <2>1. /\ Undisturbed /\ ~Trouble /\ ~WindowEnds /\ (\A kind : ~Fault(kind))
          /\ line = "prompt" /\ faults = 0 /\ faults' = 0 /\ Invocation = "update"
      BY <1>2, UndisturbedBefore DEF Undisturbed
    <2>2. host \in Host /\ (host.waiting => host.result = "going")
      BY DEF LinkInv, HostInv
    <2>3. host.result = "going"
      BY <1>2, <2>2, HostMoves DEF Send, HostTimeout, Receive
    <2>4. Progress
      BY <2>1, <2>3 DEF UpdateProgress
    <2>5. CASE Send \/ Receive \/ HostTimeout
      BY <2>1, <2>4, <2>5, ProgressSend, ProgressReceive, ProgressTimeout
    <2>6. CASE Handle
      BY <2>1, <2>4, <2>6, ProgressHandle
    <2>7. CASE HandleEnd
      BY <2>1, <2>4, <2>7, ProgressEnd
    <2>8. CASE AnswerEnd
      BY <2>1, <2>4, <2>8, ProgressAnswer
    <2>9. ~HandleReset
      BY <2>1, <2>2, HeadIsRequest, UpdateRequest DEF HandleReset
    <2>10. CASE Unheard
      BY <2>1, <2>4, <2>10, ProgressUnheard
    <2>11. CASE DeviceRuns
      BY <2>1, <2>4, <2>11, ProgressRuns
    <2>12. CASE SessionTimesOut
      BY <2>1, <2>3, <2>4, <2>12, ProgressTimesOut
    <2>13. CASE UNCHANGED <<vars, linkVars>>
      <3>1. UNCHANGED vars /\ host' = host /\ toDevice' = toDevice /\ toHost' = toHost
        BY <2>13 DEF linkVars
      <3> QED
        BY <2>4, <3>1, SameDevice
           DEF Progress, OneMiss, NoneMissed, AtInfo, AtStart, AtData, AtEnd, AtLook
    <2> QED
      BY <1>2, <2>1, <2>5, <2>6, <2>7, <2>8, <2>9, <2>10, <2>11, <2>12, <2>13 DEF LinkNext
  <1> QED
    BY <1>1, <1>2

LEMMA UpdateProgressCorrect == LinkSpec => []UpdateProgress
  <1>1. LinkInit => UpdateProgress
    <2> SUFFICES ASSUME LinkInit PROVE Progress
      BY DEF UpdateProgress
    <2>1. host.step = 1 /\ host.sends = 0 /\ ~host.waiting /\ toHost = <<>> /\ pc = "reset"
      BY DEF LinkInit, Init, NewHost
    <2>2. ~(1 \in 2 .. Parts + 3) /\ ~(1 \in 3 .. Parts + 2) /\ 1 # Parts + 3 /\ 1 # Parts + 4
      BY FileFacts
    <2> QED
      BY <2>1, <2>2 DEF Progress, OneMiss, NoneMissed, AtInfo, AtStart, AtData, AtEnd, AtLook
  <1>2. /\ DeviceInv /\ DeviceInv' /\ LinkInv /\ OneAtATime /\ OneAtATime' /\ EndBusy
        /\ (faults = 0 => RestErased) /\ UpdateProgress /\ [LinkNext]_<<vars, linkVars>>
        => UpdateProgress'
    BY UpdateProgressStep
  <1> QED
    BY <1>1, <1>2, DeviceInvCorrect, LinkInvCorrect, OneAtATimeCorrect, EndBusyCorrect,
       RestErasedCorrect, PTL DEF LinkSpec

(* An update that fails undisturbed was refused its slot, and leaves the   *)
(* device waiting. *)
RefusedInv ==
    Undisturbed /\ host.result = "failed" => Idling /\ ~Writable(File.target)

LEMMA RefusedStep ==
    ASSUME Retries # 0, DeviceInv, LinkInv, OneAtATime, UpdateProgress, RefusedInv,
           [LinkNext]_<<vars, linkVars>>
    PROVE  RefusedInv'
  <1> SUFFICES ASSUME Undisturbed', host'.result = "failed"
               PROVE  Idling' /\ ~Writable(File.target)'
    BY DEF RefusedInv
  <1>1. ~NextInvocation
    BY DEF NextInvocation, NewHost
  <1>2. /\ Undisturbed /\ ~Trouble /\ ~WindowEnds
        /\ line = "prompt" /\ faults = 0 /\ Invocation = "update"
    BY <1>1, UndisturbedBefore DEF Undisturbed
  <1>3. host \in Host /\ (host.waiting => host.result = "going") /\ Retries \in Nat
        /\ Parts \in Nat \ {0}
    BY FileFacts, LinkAssumption DEF LinkInv, HostInv
  <1>4. CASE host.result = "failed"
    <2>1. Idling /\ ~Writable(File.target) /\ ~host.waiting /\ toDevice = <<>> /\ toHost = <<>>
      BY <1>2, <1>3, <1>4 DEF RefusedInv, OneAtATime
    <2>2. CASE UNCHANGED vars
      BY <2>1, <2>2, SameDevice
    <2>3. CASE SessionTimesOut
      BY <2>1, <2>3 DEF SessionTimesOut, SessionTimeout, Timeout, bootVars, storeUnchanged, Idling,
                        Listening, FreshSession, Writable, table
    <2> QED
      BY <1>1, <1>2, <2>1, <2>2, <2>3, IdlingQuiet
         DEF LinkNext, Send, Receive, HostTimeout, Handle, HandleEnd, AnswerEnd, HandleReset, Unheard
  <1>5. CASE host.result # "failed"
    <2>1. /\ host.waiting /\ host.result = "going" /\ UNCHANGED vars
          /\ \/ HostTimeout /\ host' = Unanswered
             \/ /\ Receive
                /\ host' = IF ~Matches(Head(toHost)) THEN Unanswered
                           ELSE IF Head(toHost).reply = "ACK" THEN Acknowledged(Head(toHost).info)
                           ELSE Ended("failed")
      BY <1>1, <1>3, <1>5, HostMoves DEF Host, HostTimeout, Receive
    <2>2. Progress
      BY <1>2, <2>1 DEF UpdateProgress
    <2>3. CASE HostTimeout /\ host' = Unanswered
      <3>1. host.sends \in Nat /\ host.sends >= 2
        BY <1>3, <1>5, <2>1, <2>3 DEF Host, Unanswered
      <3>2. toDevice = <<>> /\ toHost = <<>>
        BY <1>2, <2>3 DEF HostTimeout, RunsOut, Overdue
      <3> QED
        BY <2>2, <3>1, <3>2 DEF Progress, OneMiss
    <2>4. CASE Receive
      <3>1. toHost # <<>> /\ Matches(Head(toHost))
        <4>1. toHost # <<>>
          BY <2>4 DEF Receive
        <4>2. PICK m \in Told : toHost = <<m>> /\ Matches(m)
          BY <1>2, <2>1, <4>1 DEF OneAtATime
        <4> QED
          BY <4>2, OneFrame
      <3>2. /\ host.step \in 1 .. Parts + 4
            /\ LastStep <=> host.step = Parts + 4
        BY <1>2, <1>3, UpdateRequest
      <3>3. CASE Head(toHost).reply # "ACK"
        <4>1. host.step = 2
          BY <1>3, <2>2, <3>1, <3>2, <3>3 DEF Progress, AtInfo, AtData, AtEnd, AtLook
        <4> QED
          BY <2>1, <2>2, <3>1, <3>3, <4>1, SameDevice DEF Progress, AtStart
      <3>4. CASE Head(toHost).reply = "ACK"
        <4>1. host' = Acknowledged(Head(toHost).info)
          BY <2>4, <3>1, <3>4 DEF Receive
        <4>2. \/ host.step = 1 /\ Head(toHost).info.active = File.target
              \/ LastStep /\ Head(toHost).info.state # "PENDING"
          BY <1>2, <1>3, <2>1, <4>1 DEF Acknowledged, Ended, Host
        <4>3. host.step = 1 /\ Idling /\ table.active = File.target
          BY <2>2, <3>1, <3>2, <4>2 DEF Progress, AtInfo, AtLook
        <4>4. ~Writable(File.target)
          BY <4>3, FileFacts DEF Writable, Slots
        <4> QED
          BY <2>1, <4>3, <4>4, SameDevice
      <3> QED
        BY <3>3, <3>4
    <2> QED
      BY <2>1, <2>3, <2>4
  <1> QED
    BY <1>4, <1>5

(* With at least one retry, and until a flash operation fails, an update   *)
(* on a prompt line fails only for a frame that was lost, the end of the   *)
(* window, or a slot that the device may not write: whatever an earlier    *)
(* invocation has left in the device or on the line, and although the      *)
(* device resets between END and the last request.                         *)
THEOREM FailuresHaveCauses ==
    ASSUME Retries # 0
    PROVE  LinkSpec => [](faults = 0 => FailureHasCause)
  <1>1. LinkInit => RefusedInv
    BY DEF LinkInit, NewHost, RefusedInv
  <1>2. DeviceInv /\ LinkInv /\ OneAtATime /\ UpdateProgress /\ RefusedInv
           /\ [LinkNext]_<<vars, linkVars>> => RefusedInv'
    BY RefusedStep
  <1>3. RefusedInv => (faults = 0 => FailureHasCause)
    BY DEF RefusedInv, Undisturbed, FailureHasCause
  <1> QED
    BY <1>1, <1>2, <1>3, DeviceInvCorrect, LinkInvCorrect, OneAtATimeCorrect,
       UpdateProgressCorrect, PTL DEF LinkSpec

=============================================================================
