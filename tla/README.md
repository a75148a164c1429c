# TM4C123GXL OTA bootloader: TLA+ models and proofs

The repository updates a TM4C123GXL board over the air.  A bootloader keeps two
application slots, A and B, and two copies of a metadata record in flash.  A PC,
over a serial line, or a cloud client, over an ESP-AT modem, sends an image to
the slot that is not active; the bootloader tries it, and the image becomes the
active one when it confirms itself.  If it does not, the bootloader goes back.

The modules here model that from its C and Python sources.  TLC checks them on
small instances; TLAPS proves the central safety properties and four
refinements for every value of the constants.  `PROJECT.json` maps each
definition to the lines it models.  Paths below are relative to `src/`;
`tm4c123gxl/` is written `T/` and `tm4c_uart_esp32_bridge/` is written `E/`.

## 1. The system

| Part | State it keeps | Operations | Talks to |
| --- | --- | --- | --- |
| Metadata store, `T/common/src/ota_metadata.c` | two flash pages, each a record with a generation and a CRC, or junk | load, commit (erase, program, read back), finalize | main loop and update session call it |
| Boot decision and image validation, `ota_boot.c`, `ota_image.c` | none; acts on the slot table in RAM | decide, validate header, vector and payload | main loop; reads both slots |
| Update session, `T/bootloader/src/bl_update.c` over the range guard of `bl_hal_tm4c.c` | IDLE / RECEIVING / READY_TO_BOOT, announced header, bytes received, next and last sequence | GET_INFO, START_UPDATE, DATA, END_UPDATE, ABORT, RESET, poll | serial parser or cloud client calls it; it writes flash and commits |
| Main loop, `bl_main.c` | decision, update window, RAM copy of the record | start-up, polled loop, reset, jump | everything |
| Confirmation mailbox, `boot_confirm.c` | SRAM that survives a reset | confirm, consume, clear | application writes, start-up reads |
| Request mailbox and hand-off, `ota_request.c`, `app_ota_handoff.c`, `app_main.c` | SRAM that survives a reset; an accepted request and its delay | accept, store, reset; consume | application writes, start-up of the cloud build reads |
| Cloud client, `E/cloud_ota.c` | position in the package, chunk, sequence | begin, write, finish, abort | called by the controller; calls the update session |
| ESP-AT controller, `E/esp_at_controller.c`, and HTTP stream, `esp_at_http.c` | one of 16 states, flags of pending answers, offset, retries, binary mode | receive a byte, tick, request | modem; cloud client; hand-off |
| Serial parser and encoder, `ota_protocol.c` | position in a frame | consume a byte, encode | main loop |
| PC tool, `pc_tool/` | the request in hand, its sends, its timer | info, update, reset; each request sent up to four times | serial line |
| RPC parser, CRC, contract checker, UART bridge, HAL, start-up, linker files, scripts | none that matters here | | |

What is hard in it:

* **Crashes.** Power can fail in the middle of an erase, a program, a commit or
  a whole update, and the next start-up must find a record and an image.
* **Stale state.** The loop uses what start-up read: the decision, the copy the
  record came from, its generation.  Both mailboxes outlive resets and images.
* **Sequences of legal commands.** A refused START replaces the header of an
  open session; sizes, addresses and the target slot then no longer agree.
* **Boundaries.** Unsigned subtraction, generations that wrap, pages erased only
  by the DATA that starts them, words that a length does not fill.
* **Answers out of step.** `OK` carries no name, so an answer that is late is
  taken for that of the next command; a body may come after its request.  On the
  serial line a late answer uses up a send of the request after it.
* **Two clocks.** The host waits a second for an answer, the session a second
  for a packet, the parser a second for a byte.
* **Liveness.** An open session and an active download each hold off the jump.

What makes each part correct is stated in section 4, property by property, and
`PROJECT.json` lists the hazards with the line at which each bites.

## 2. The modules

```
DurableRecord        one durable value that a commit replaces (abstract)
MetadataStore        the two-copy store                  refines DurableRecord
  MetadataStoreProofs   MCMetadataStore

UpdateEngine         the update session, as those who drive it know it (abstract)
OtaBoot              images and the boot decision, as operators
BlUpdate             the update session over flash       EXTENDS OtaBoot, INSTANCE MetadataStore
Bootloader           reset to jump, application, mailbox, crashes        EXTENDS BlUpdate
  BootloaderProperties  the properties                   refines UpdateEngine, drives MetadataStore
  BootloaderProofs      types, the active slot, headers
  EngineProofs          the session implements UpdateEngine
  RecordProofs          the metadata, with MetadataStoreProofs carried over
  BootProofs            images, decisions, promotion, installation, attempts
  MCBootloader

SerialLink           PC tool, line and Bootloader        EXTENDS Bootloader
  LinkProperties        the properties
  LinkProofs            the device is a Bootloader; transfers; prompt lines    EXTENDS BootProofs
  MCSerialLink

FrameReader          what a reader of frames gives out (abstract)
ProtocolParser       the parser, state by state          refines FrameReader
  SerialNoise           frames, damage and silences on the line
  ParserProofs   MCSerialNoise

CloudOta             the cloud client, as operators
EspAtController      modem, controller, client and engine in the loop    EXTENDS CloudOta
AppHandoff           with the application, its mailbox and resets        EXTENDS EspAtController
  EspAtProperties       the properties                   drives UpdateEngine
  CloudProofs   MCEspAt
```

A session is driven in two ways, from the serial line and from the cloud, in two
builds of the same loop.  They meet at **UpdateEngine**, an abstract session of
four variables.  `Bootloader` implements it (`IsUpdateEngine`), flash, commits
and faults included; the cloud model, where the engine is what the client can
see of it, takes only its steps (`DrivesUpdateEngine`).  Both are checked and
both are proved.

**MetadataStore** has the pages (`copies`), the record in RAM (`meta`), the copy
it was loaded from (`metaCopy`), the page a commit writes (`dest`) and how far
the commit is (`stage`).  A commit is three actions, `Begin`, `Erase` and
`Program`, each of which may also fail (`EraseError`, `ProgramError`), and
`Crash` may come between any two and may leave a half-done page as junk or as
it was.  The C code's `metadata_copy` is not advanced by a commit: a second
commit after one load writes the same page again, with the same generation.
The model keeps that.

**OtaBoot** has images as records.  Payload bytes are model values, one per
image, so a CRC stands for the bytes it was taken of, and a slot's area is a
function from cells to bytes.

**BlUpdate** has one action per command and outcome.  START and DATA are
atomic (their flash calls are made in one call of `bl_update_handle`); a power
cut in the middle of them is `TornSlot` in Bootloader, which may leave the pages
they were writing in any state.  END is split: `EndCommit` programs the header and
starts the commit, whose flash steps are those of MetadataStore.  Flash is one
address space of cells, laid out as in `ota_config.h`, so that a DATA that runs past
slot B meets the metadata pages, as it does on the device.

**Bootloader** goes from `Init` (the factory image in slot A, both copies blank)
through `LoadMetadata`, `ReconstructMetadata`, `Decide` and its commit, the
update window (`Command`, `SessionTimeout`), to `Jump` or to a reset.  `AppConfirm` is
`boot_confirm`.  `CrashReset` is the reset pin or a power cut: SRAM may survive or
not, and flash being written is torn.  In this model the host may send any
command at any time.

**SerialLink** replaces that host by the PC tool.  An invocation is a list of
requests; `Send`, `Receive` and `HostTimeout` are the loop of
`SerialTransport.request`, and `Handle`, `HandleEnd`, `AnswerEnd` and `HandleReset`
take the frames to the commands of BlUpdate.  Frames are lost in either
direction or come late, to the next request or to the next invocation.  Time is
in the guards: see section 3.

**ProtocolParser** has one action per case of `ota_parser_consume`'s switch.
**FrameReader** has no states: it holds bytes while they may still become a
frame.  **SerialNoise** sends frames of which any byte may be damaged, lost or
late, and noise between them.

**EspAtController** has an iteration of the cloud loop as two steps: `Top` polls
the session and receives at most one thing, `Bottom` ticks and then resets,
jumps or goes on.  The modem is external.  On an "any" network anything may come
at any time, so late, lost, repeated and misattributed answers need no model of
their own; a "good" network sends what the controller waits for, in time.  A line
counts when its last byte comes; a body comes cell by cell, each being the
package's byte at that place or some other.  The engine is the part of BlUpdate
the client can see: state, bytes got, next sequence, and any command may be refused.

**AppHandoff** lets the application run after the jump, with a controller of its
own and no engine.  `AppAccept` is `app_ota_handoff_accept`; `HandoffDue` is its half
second; `StartsUp` is `bl_main` from its start to its loop, which consumes the mailbox;
`DeviceReset` is a reset or a power cut anywhere.

### Abstractions that a reader should know

* DATA that lands outside every payload area, or between two words, leaves
  bytes that are no header, no record and no payload (`Junk`, `Bad`).
* Fields of an idle session mean nothing until START sets them, so an idle
  session is always `FreshSession`.
* In SerialLink a frame is whole or lost; what damage does to the parser is the
  subject of SerialNoise.  The host's own parser of replies (`_next_packet`) is not
  modelled byte by byte: a damaged reply is a lost one.
* In ProtocolParser a field of a frame is one byte (the sequence number goes with the
  command), and a CRC is any function of bytes.
* A reset's window is taken to be long enough for the last GET_INFO of an update,
  which comes at its beginning, and a start-up short enough for the retries of one
  request: see the timing assumptions.
* `ota_error_pending`, telemetry texts, URLs and logs are left out of the controller.
  Buffers are taken to be large enough for the configured names, so a command can
  always be built.  The time of the engine's poll is taken to be past its first
  second: `last_activity_ms` is 0 for cloud sessions, and none opens that early.
* Sequences of the cloud client do not wrap in its own model: a package has fewer than
  2^16 chunks.  UpdateEngine, which it drives, counts them modulo 2^16.

## 3. Runs and bounds

| Run | Instance | Question |
| --- | --- | --- |
| `store` | generations modulo 6, three bodies, any number of commits | Is a commit atomic and durable at every flash step? |
| `boot` | one-cell slots, versions and images for both slots, every power cut, no flash faults | Do updates, trials, confirmations and rollbacks fit together? |
| `session` | slots of several pages, lengths 1 and 2, refused STARTs, one failed erase | Do transfers write only where and when they may, and are they those of the abstract engine? |
| `fault` | one fault of any kind, commits included; fairness | What survives a flash operation that fails or lies, and does the device still come to rest and decide every trial? |
| `link` | a file of five cells in three DATA over two pages, words of two cells, `update`, `reset`, `update`, `update`, three sends per request, three troubles, a prompt line and a slow one | What do the tool and the device conclude from frames that are lost, late or repeated? |
| `frames` | four byte values, payloads of up to two, two CRC bytes | Does damage cost more than the frames it hits? |
| `cloud` | header of one cell in a page of four, chunks of two, packages of 6 and 7 cells, five sorts of package, three retries, resets at any time | Is the download in step, bounded and finite whatever the modem does, and is a request handed over? |
| `stale_jump`, `newest_copy`, `overrun`, `lost_confirmation`, `reset_attempts` | as above | What the documents say and the code does not do (section 6) |

Two slots are what the device has.  Two versions and one image per slot and version are
enough because decisions compare a record only with the image in the same slot.
`SlotSize` is 1 where only the order of commands and commits matters and several
pages where addresses do.  Generations matter modulo their width, and at most
two are compared, so modulo 3 or 6 already wraps.  In the bootloader's runs `SeqMod`
2 suffices because only "the next" and "the last" sequence are compared; in
`link` it must tell the requests of an invocation apart.  `LenMod` 16 exceeds every sum
of lengths in the instance, and wraps below zero as 2^32 does.  One fault per
behaviour, because the properties of `fault` are about a single failure and the
other runs have none, and one attempt instead of three there, which is enough for a
trial to be decided.  Payloads that do and do not fill the last chunk, and a page
that the chunks do not divide, are the boundaries of the range arithmetic.  Three
troubles and three sends are enough for a request to be lost altogether, for the two
sides to get one frame out of step and for that to be carried into the next
invocation.  In `frames` every byte value may occur in a payload and in a CRC,
the two start bytes among them.

`CHECK_DEADLOCK FALSE` is used where there is an end: the bootloader of `cloud`
stops with the reset into the new image, the scripts of `link` and
`reset_attempts` run out.

### Timing assumptions of SerialLink

No clock is modelled; guards order the events whose times the sources fix.

* A frame, a command other than START, and a start-up each take less than the
  second that the host waits (`transport.py`) and the second that the session waits
  (`BL_UPDATE_PACKET_TIMEOUT_MS`).  So on a *prompt* line a host that times out has lost
  a frame, or its device was not in its loop.
* A session that has missed a packet times out before the host sends it again: its
  second began with the packet before.
* The update window, 60 s, is longer than the four sends of a request, 4 s, and
  shorter than the 90 s that START waits.
* On a *slow* line every timer may also run out early.  Each time that it does
  counts as a trouble, like a lost frame, and `MaxTrouble` bounds them.

## 4. Properties

*Store*: `LoadedCopyKept`, `RecordSurvives`, and `DurableSpec`, the refinement:
the abstract value is the body a restart would load, and a caller is told "ok"
exactly when its value has replaced it.  A second commit in one session can take it
back to the value last loaded, and the abstract specification says so.

*Update*: `ActiveSlotUntouched` (no command writes the active slot),
`HeaderProgrammedLast` (a header appears only over the payload it describes),
`ImageLostOnlyWithHeader`, `EndLeavesValidImage`, `SomeSlotBootable`,
`RecordInSync`, `DrivesStore` (the bootloader uses the store only as the store's
model allows, so that its results carry over) and `IsUpdateEngine`.

`SessionSound` is what the parts of the bootloader rely on without checking it: that a
session has received no more than it announced, that this fits a slot, and that its header
is undamaged.  It holds in `boot`, where images are of one size; `session` and `overrun` have a
header that breaks it.

*Boot*: `AttemptsBounded`, `PromotionEarned`, `DecisionHolds`, and under fairness
`ComesToRest` and `TrialEnds`.

*Serial line*: `TransferIsPrefix` (whatever is repeated or late, the device holds a
prefix of the file), `DoneMeansInstalled` (the tool's success is true),
`FailureHasCause` (its failure is not its own doing), `RetryStoresNothing`,
and under fairness `HostFinishes` and `InstalledImageConfirmed`.
`RetryStoresNothing` is no praise: on a prompt line a retried DATA always finds its
session timed out, so the retries of PHASE1-SPEC section 7 never rescue a transfer.

*Parser*: `IsFrameReader`, and `IntactFrameHeard`: an undamaged frame is heard if it
follows a silence or finds the parser between frames.

*Cloud*: `SessionFollowsClient` and `RangeFollowsClient` (engine, client and
controller agree on the position in the package in every attempt),
`AttemptStartsClean`, `StartsBounded`, `DrivesUpdateEngine`,
`RequestHandedOver` (a request is taken up once, and only one that was
accepted), and under fairness `LeavesBootloader` and `GoodNetworkUpdates`.

### Fairness

`FairSpec` of the bootloader is weak fairness of the processor: start-up, the
commits, the timers of the polled loop and the application up to
`boot_confirm`.  A host need not send and power need not fail; `ComesToRest`
assumes that both come to an end (`Quiet`), and `TrialEnds` that a device at rest is
reset again and again (`WF_vars(RestReset)`) while the host is silent, which is
what ends the trial of an image that never confirms itself.

`LinkFairSpec` is weak fairness of the whole next-state relation: both programs
and both clocks go on.  More is not needed, because in a finite script
neither can go on for ever without the other.

`DeviceFairSpec` of the cloud build is weak fairness of both halves of each loop, of
the clock and of the hand-off's delay.  `timer` has two names for a running timer and
a restart changes the name, so weak fairness of `Elapse(start)` says only that a timer
nobody restarts runs out.  The modem owes nothing.  `LeavesBootloader` and
`GoodNetworkUpdates` assume in their statement that resets come to an end.

## 5. Proofs

| Theorem | Module | Establishes |
| --- | --- | --- |
| `StoreInvariant`, `StoreTypeCorrect`, `LoadedCopyIsKept`, `RecordAlwaysSurvives` | MetadataStoreProofs | the store's invariant and what follows from it |
| `StoreImplementsDurableRecord` | MetadataStoreProofs | `StoreSpec => DurableSpec` |
| `TypeCorrect` | BootloaderProofs | `Spec => []TypeOK` |
| `ActiveSlotIsUntouched` | BootloaderProofs | `Spec => ActiveSlotUntouched` |
| `HeaderIsProgrammedLast` | BootloaderProofs | `Spec => HeaderProgrammedLast` |
| `SessionImplementsEngine` | EngineProofs | `Spec => IsUpdateEngine` |
| `SessionsFit`, `SessionsSound` | RecordProofs | `[]SessionFits` for images of one size, `[]SessionSound` if also undamaged |
| `DrivesTheStore`, `RecordAlwaysSurvives` | RecordProofs | (fits) `DrivesStore`, `RecordSurvives` |
| `DeviceHasDurableRecord` | RecordProofs | (fits) the device's metadata implements DurableRecord |
| `RecordIsInSync`, `CommitsBeginFreely` | RecordProofs | (fits) `[]RecordInSync`; no commit is kept from beginning |
| `ImagesOnlyLostWithHeader`, `DecisionAlwaysHolds` | BootProofs | (one size) `ImageLostOnlyWithHeader`, `[]DecisionHolds` |
| `ImagesOnlyLostWithHeaderAnySize`, `DecisionHoldsAnySize` | BootProofs | (END's commits succeed) the same |
| `PromotionIsEarned` | BootProofs | (fits) `PromotionEarned` |
| `AttemptsAreBounded` | BootProofs | (fits) `[](faults = 0 => AttemptsBounded)` |
| `EndIsInstalled` | BootProofs | (sound) `[](faults = 0 => EndLeavesValidImage)` |
| `SomeSlotStaysBootable` | BootProofs | (sound) `[](faults = 0 => SomeSlotBootable)` |
| `TypeCorrect` | CloudProofs | `DeviceSpec => []HandoffTypeOK` |
| `SessionInStep`, `RangesInStep` | CloudProofs | `DeviceSpec => []SessionFollowsClient`, `[]RangeFollowsClient` |
| `CleanAttempts`, `FiniteStarts` | CloudProofs | `DeviceSpec => []AttemptStartsClean`, `[]StartsBounded` |
| `CloudDrivesEngine` | CloudProofs | `DeviceSpec => DrivesUpdateEngine` |
| `RequestIsHandedOver` | CloudProofs | `DeviceSpec => RequestHandedOver` |
| `LinkTypeCorrect`, `DeviceIsBootloader` | LinkProofs | `LinkSpec => []LinkTypeOK`, `LinkSpec => Spec` |
| `TransfersArePrefixes` | LinkProofs | `LinkSpec => []TransferIsPrefix` |
| `ToolKeepsSessionsSound` | LinkProofs | `LinkSpec => []SessionSound` |
| `ToolDrivesDeviceSafely` | LinkProofs | with the PC tool the results marked (fits) and (sound) hold as they are |
| `PromptUpdateInstalls` | LinkProofs | (prompt) `DoneMeansInstalled` |
| `OnlyFirstSendStores` | LinkProofs | (no fault) `RetryStoresNothing` |
| `FailuresHaveCauses` | LinkProofs | (a retry) `[](faults = 0 => FailureHasCause)` |
| `ParserReadsFrames` | ParserProofs | `NoiseSpec => IsFrameReader` |
| `IntactFramesAreHeard`, `ParserTypeCorrect` | ParserProofs | `NoiseSpec => []IntactFrameHeard`, `[]NoiseTypeOK` |

They hold for any images, versions, headers and lengths, any number of attempts,
any generation width of at least 3, any number of faults of any kind, any packages,
chunk size and number of retries; the assumptions on constants are the named
`ASSUME`s (slots are whole pages, pages are whole words, junk is no record, a
header is smaller than its page, a frame's CRC has at least one byte, the
packets sent fit a frame, a full DATA divides a page into whole words, the
requests of an update have different numbers and a slot is smaller than the modulus of
lengths).

Some results of the bootloader have a hypothesis, named in the table:

* *fits*: `[]SessionFits`, no session has received more than it announces.  Without it DATA
  can overwrite the metadata (`overrun`), and little can be said of a record.  It excludes nothing
  but that finding: `SessionsFit` proves it for a host all of whose images have one size,
  whatever it sends and in whatever order, refused STARTs in mid-session included.
* *sound*: `[]SessionSound`, and no refused START has put a damaged header in place of the
  session's.  END would program it (section 6), and the image it vouches for is not valid.
  `SessionsSound` proves it where no announced header is damaged either.
* *one size*: images of one size.  *END's commits succeed*: images of any sizes, and flash
  operations may fail, but not END's commit.  What each
  excludes is that END's commit fails, leaving both a valid header and an open session,
  and a START of a larger size then makes room for more DATA over the image.
* *prompt*: on a prompt line (section 3) on which no flash operation fails.  Frames may be lost,
  any number of them.
* *a retry*: at least one retry (the tool has three).  With none, `FailureHasCause` is false, as
  TLC shows: a GET_INFO that reaches the device in start-up is not answered, and is not sent again.
* `faults = 0`: until a flash operation fails or lies.  An erase or a program that claims
  to have worked and has not leaves nothing of an image to rely on.

*Store.*  `LoadedCopyKept` and `RecordSurvives` are not inductive alone: whether
the old copy is the one a restart selects depends on how far a commit is.  The
invariant `StoreInv` says, stage by stage, that the copy loaded from still holds
what was loaded and that the other is junk, older or exactly one generation newer.
With generations modulo at least 3, "one newer" is newer and never older,
which is why the assumption is there.  Refinement then goes action by action: only the step
that completes a program changes the abstract value.

*Bootloader.*  `TypeOK` needs the clause that an open session has a real header
(`upd.state = "RECEIVING" => upd.header \in Header`): addresses are computed from
its target and size.  `ActiveSlotUntouched` is a matter of addresses.  The range guard
lets through the inactive slot with its header page and the metadata pages; a
DATA may start at any offset, even past its slot, after a refused START.
The proof shows from the address map that no range the guard accepts meets the
active slot's header page or payload, and that rounding an unaligned
address down to its word stays in the page, because pages are whole words.
`HeaderProgrammedLast` holds because END reads back what it vouches for and no
other action puts a header on a page.

*Session and engine.*  END checks the number of bytes, then commits, and only the
step after the commit makes the session ready, so the refinement needs
`EngineInv`: `TypeOK`, and that a commit the loop waits for is that of a
session which has all its bytes (`CommitIsOfSession`).  Every command then is a step
of the abstract engine or a stutter; a refused START is its `Announce`.

*Record.*  A session that fits stays in the payload area of its slot, the erase of the last page
and the rounding of an address to its word included (`SessionInside`, `RoundedInside`:
a slot is whole pages, so the page of a cell below its end is below its end).  No DATA
then reaches a metadata page, and every step of the bootloader is on the metadata a call
of ota_metadata.c (`StoreStep`).  So what MetadataStoreProofs shows of the store holds of the
device: RecordProofs instantiates that module with the device's variables, and carries over
`LoadedCopyKept`, `RecordSurvives` and the refinement of DurableRecord.  `Store!Begin` has a guard: once a
commit has been made, another needs the page that was loaded.  `CommitsBeginFreely` shows that
the guard never holds up the boot decision or END, so that nothing is proved by blocking.
`RecordInSync`
is not inductive, because a commit in progress has changed RAM and not flash; `InSync` adds what
is in flash at each stage.

*Images.*  `ImagesSpared` says that while a session with bytes to come is open, the slot it may
write has no header: START erased it, and END writes it only when the session is full.
With the range guard that is enough even for sessions that overrun.  It is shown in two ways,
because END's commit may fail after the header is written: images of one size leave that
session full whatever START follows (`FullUnderImage`), and where no such commit fails there
is no header at all (`NoImageUnderSession`).  `DecisionHolds` follows, with the image decided
on bootable while the decision is committed (`DecisionStands`).

*Promotion.*  The invariant is `TrialInv`, five conjuncts about what outlives a reset.  Every
record, in RAM or on a page, has pending at most the slot that is not active
(`TrialsAlternate`); the decision is made on what a restart would find again
(`DecidesOnDurable`); what runs as the active slot is linked for it (`ActiveIsLinked`), and what
runs without being active is the only slot that any record a restart can find may have
pending (`OtherOnTrial`); and a confirmation in SRAM is from an image that has earned it, or
names no slot that is pending in that record (`MailEarned`).  The last needs the others: the
mailbox is written by whatever runs, and read after a restart that may load either page.

*Installation and boot.*  Until a flash operation fails, an open session finds its header page erased
(`ErasedUnderSession`), and once END begins its commit the image is pending, has never run and is whole
(`InstallIsPending`, `InstallIsWhole`).  `SomeSlotBootable` needs the active slot's image of
three records at once, the one a restart would load, the one in RAM and, during a commit, the
one loaded (`ActiveIsBootable`), since a power cut may go back to any of them, and that no
decision takes the active slot away (`ActiveStays`).  `AttemptsBounded` compares the jumps
with the counts in the same records (`JumpsCounted`): the count is durable before the jump.

*Cloud.*  The invariant is `DeviceInv`.  `SessionFollowsClient` needs `ClientData` (an
attached client's package is larger than its page, and no chunk is collected before
the page is over) and that an open session can be aborted by its client.
`RangeFollowsClient` needs `BinaryInv`: binary mode, which survives
`enter_retry`, is confined to DOWNLOAD, RETRY and SYNC, belongs to a body
that is not over, and is never on when a chunk counts as done.  `AttemptStartsClean`
follows from the same, because SYNC is left only by a line, and lines are not
read in binary mode.  `PendingInv` says that a body is due only of a range asked for,
so what a late line does to `offset` it does where nothing depends on it.
`StartsBounded` needs an account: every session opened is paid for by a retry, except
the one the download under way has opened (`OwnStart`), less the one a late
body may still open in RETRY or SYNC (`LateStart`).  Without `LateStart` the account
is not inductive: that session opens after its attempt has been paid for.
`RequestHandedOver` rests on one equation: a request is in the mailbox exactly while the application
that accepted it is the last thing that ran (`RequestIsAccepted`).
For the abstract engine, each outcome of the client's operations is a session from
nothing, more bytes with one more packet, the end of a complete session, or nothing.

*Parser.*  `PartsInv` says which parts of a frame each state of the switch has, and
that a length that is too large has been refused.  With it, a parser inside a
frame holds `Frame(header, payload, crc)`, and what the reader asks of those bytes
(may they become a frame, are they whole, are they right) comes down to the guards of
the switch: `HeaderMayBecome`, `LengthDecides` and `FrameJudged`.  `IntactFrameHeard`
then needs that what is held of an intact frame and what is still to come are
together the frame (`IntactHeld`): a proper prefix of a frame may always become one
and is never whole, so the reader keeps it until the last byte.

*Serial line.*  A frame's number says which place of the script it was made for: `RequestInv` has
every frame on its way, and every answer, among those the client makes (`Asked`, `Told`).
With that each step of SerialLink is a step of Bootloader, `Start` announcing the file and nothing
else (`DeviceIsBootloader`), and all that is proved of Spec holds of it.  `TransferInv` says what the
device's own numbers mean: in an open session `nextSeq` is one more than the number of the packet
stored last, and `received` is where that part of the file ends.  So a DATA with the expected number
brings the next part, whichever invocation made it, and one with the last number is not stored
(`TransferStep`); writing it, which may round down to a word or erase a page, leaves
alone what has been received (`DataExtends`), because parts are whole words and divide the page.
That also bounds `received` by what the one header announces, which is `SessionSound`, the
hypothesis that BootProofs and RecordProofs could not do without.

On a prompt line there is at most one frame between the two programs, and it is the request that
waits or an answer to it (`OneAtATime`).  So the ACK that update() takes for its END is END's, and
comes after the commit (`AckInstalls`), and from then on no frame that writes a slot is under way
(`InstalledAfterEnd`).  On a slow line `DoneMeansInstalled` is not true of any number of troubles
(section 6), so this hypothesis is not for want of a proof.

`RetryStoresNothing` turns on what a first send leaves behind.  Without a flash fault a part that the
session waits for is stored: what is left of its page is erased (`RestErased`), the part ends where
its page does or before (`PartInPage`), and so the read-back agrees (`PartStored`); after
that the session waits for the next part.  If the first send was lost, its request times out when the session
already has.  Either way no session waits for the part of a DATA that has been tried (`RetryIsIdle`),
and so a second send changes nothing.

`FailureHasCause` is about an update in which nothing is lost and no window ends (`Undisturbed`).
`UpdateProgress` says where the device is by the request the host has come to, before its answer
and after: at the first GET_INFO it is idle, or soon will be, with any session that an earlier invocation left
(`AtInfo`); then START resets that session and is refused only for the slot (`AtStart`); each DATA finds the
session that waits for it (`AtData`), and END a full one (`AtEnd`).  From END's commit to the window after the
reset the image is pending at every stage, in RAM or in the record that start-up will load
(`Landing`), so the last GET_INFO is answered with what the tool looks for (`AtLook`).  Only a
GET_INFO can go unanswered, because the device starts up, and only once, because by the
time it is sent again the device listens (`OneMiss`, `NoneMissed`): hence one retry is enough.
That the commit of END is the only thing the loop does while a frame waits is `EndBusy`.

*Only model-checked*: liveness under fairness (`ComesToRest`, `TrialEnds`, `HostFinishes`,
`InstalledImageConfirmed`, `LeavesBootloader`, `GoodNetworkUpdates`), which is out of this
prover's reach; and `DoneMeansInstalled` on a slow line, which is true of three troubles and not of seven
(section 6).  Every other property of a passing run is a theorem, under the hypotheses above.

## 6. Where documents and code differ

Each is a run that TLC refutes; `PROJECT.json` quotes the sentence.

* `stale_jump`: the jump trusts a decision that is up to a minute old; a START that
  was abandoned since then has erased the header of the slot.
* `newest_copy`: END's commit, after the boot decision's, erases the newest copy.
* `overrun`: a refused START with a smaller size makes `payload_size - received`
  wrap, and DATA runs past slot B into both metadata pages.
* `lost_confirmation`: a reset between consuming a confirmation and
  committing it; the image then thinks it has been confirmed, and is rolled back.
* `reset_attempts`: RESET is carried out before its ACK could be sent, so the tool sends it
  four times; with the reset END makes by itself, that is five start-ups,
  each of which counts an attempt: `update` and `reset`, the documented order, give up
  an image that never ran.

Seen on the way, and kept in the model without a run of their own:

* `tm4c-ota reset` always ends in `RetryExhausted`, for the same reason.
* When END's ACK is lost, the retry is refused with STATE, or not answered at all, and the
  tool reports an error although the image is installed.
* `docs/PROTOCOL.md:30` has DATA start at sequence zero; in the code it starts one after
  START's, whatever that is (`bl_update.c`).
* `docs/PHASE1-SPEC.md:242` has NACKed packets retried; `transport.py` raises at once.
* A byte the client refuses ends binary mode in mid-body, and the rest of the body
  is parsed as lines (`esp_at_controller.c:690`; `docs/PHASE3-CONTRACT.md:51` has it
  never parsed).
* END uses the header of a refused START if its size and payload fit, so it may
  install a header `ota_header_validate` rejects.
* When the commit of a boot decision fails, the attempt it counted is lost.
* Each invocation of the tool numbers its requests from zero, so on a slow line a frame or an answer of
  an earlier invocation may be taken for one of this.  Three troubles do no harm (`link`); with
  seven, over four invocations, TLC finds an update() that succeeds although the START of an earlier
  one, late, has erased the header it has just installed while the record still says PENDING.
* Once its retries are used up, the controller stays in RETRY until a reset, in the
  bootloader and in the application; the error is not announced.
* A request handed over is lost when the update window ends before the modem is
  online.

## 7. Not modelled

* `esp_at_rpc.c` (the JSON of a request): a pure function of one line.  Its
  results are among the lines the controller may receive.
* CRC-32 as a computation: a CRC identifies bytes, or is any function of them.
* The contract checker of the PC tool, the UART bridge, registers of the HAL, start-up code, linker files and
  scripts: no state whose order matters.  The watchdog is an empty function in this code.
* The contents of GET_INFO, but for what the tool looks at.
* The full composition of the cloud loop with flash and metadata as one state
  machine: its state space is the product of two large ones, and UpdateEngine is what
  they have to agree on.

What could be added: a model of the host's receive buffer.
