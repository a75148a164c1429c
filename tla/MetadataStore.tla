---------------------------- MODULE MetadataStore ----------------------------
(***************************************************************************)
(* The two-copy metadata record of common/src/ota_metadata.c, together     *)
(* with the way bootloader/src/bl_main.c and bl_update.c drive it: load at *)
(* start-up (or reconstruct when no copy is valid) and then commit from    *)
(* the same loaded copy, any number of times, until the next reset.        *)
(*                                                                         *)
(* A commit is three flash operations (erase, program, read back); power   *)
(* can fail before, during and after each, and each can report an error.   *)
(* The contents of a record other than its generation are a member of the  *)
(* constant Body; magic, CRC and reserved fields are the difference        *)
(* between a record and Bad.                                               *)
(***************************************************************************)
EXTENDS Integers

CONSTANTS
    Body,       \* what a record says of the slots
    Bad,        \* a page that ota_metadata_record_valid rejects
    GenMod      \* generations are GenMod-modular (2^32 in the code)

ASSUME GenModAssumption == GenMod \in Nat /\ GenMod >= 3

Record == [gen: 0 .. GenMod - 1, body: Body]

ASSUME BadAssumption == Bad \notin Record /\ Bad \notin Body

VARIABLES
    copies,     \* the two flash pages
    meta,       \* services.metadata, the record in RAM
    metaCopy,   \* services.metadata_copy
    dest,       \* the destination of the commit under way
    stage       \* where the caller of load and commit stands

storeVars == <<copies, meta, metaCopy, dest, stage>>

-----------------------------------------------------------------------------

(* Mutant: generations compared without wrap-around. *)
NewerUnwrapped(left, right) == left > right

(* (int32_t)(left - right) > 0 on unsigned generations. *)
Newer(left, right) ==
    LET d == IF left >= right THEN left - right ELSE left - right + GenMod
    IN  0 < d /\ 2 * d < GenMod

(* Mutant: the generation is not GenMod-modular. *)
NextGenUnwrapped(g) == g + 1

NextGen(g) == IF g = GenMod - 1 THEN 0 ELSE g + 1

Valid(pages, c) == pages[c] # Bad

HasValid(pages) == Valid(pages, 0) \/ Valid(pages, 1)

(* Mutant: the first valid copy is taken. *)
SelectedFirst(pages) == IF Valid(pages, 0) THEN 0 ELSE 1

(* The copy ota_metadata_load selects. *)
Selected(pages) ==
    IF /\ Valid(pages, 1)
       /\ Valid(pages, 0) => Newer(pages[1].gen, pages[0].gen)
    THEN 1
    ELSE 0

(* Mutant: a commit keeps the generation. *)
NextRecordSameGen(m) == m

(* What ota_metadata_commit programs: the RAM record, one generation on. *)
NextRecord(m) == [m EXCEPT !.gen = NextGen(@)]

(* The copy in the destination page is already a verified successor of the *)
(* record in RAM: neither caller of commit reloads or advances the RAM     *)
(* generation after a commit.                                              *)
Committed == Valid(copies, 1 - metaCopy) /\ Newer(copies[1 - metaCopy].gen, meta.gen)

-----------------------------------------------------------------------------

StoreTypeOK ==
    /\ copies \in [0 .. 1 -> Record \cup {Bad}]
    /\ meta \in Record
    /\ metaCopy \in 0 .. 1
    /\ dest \in 0 .. 1
    /\ stage \in {"off", "ready", "erase", "program", "ok", "failed"}

StoreInit ==
    /\ copies \in {[c \in 0 .. 1 |-> Bad]}
                    \cup {[c \in 0 .. 1 |-> IF c = 0 THEN r ELSE Bad] : r \in Record}
    /\ meta \in Record
    /\ metaCopy = 0
    /\ dest = 0
    /\ stage = "off"

(* ota_metadata_load finds a valid copy. *)
Load ==
    /\ stage = "off"
    /\ HasValid(copies)
    /\ meta' = copies[Selected(copies)]
    /\ metaCopy' = Selected(copies)
    /\ stage' = "ready"
    /\ UNCHANGED <<copies, dest>>

(* No copy is valid: reconstruct_metadata builds a record of generation 0  *)
(* and commits it as if copy 1 were current, so to copy 0.                 *)
Reconstruct(fresh) ==
    /\ stage = "off"
    /\ ~HasValid(copies)
    /\ meta' = [gen |-> 0, body |-> fresh]
    /\ metaCopy' = 0
    /\ dest' = 0
    /\ stage' = "erase"
    /\ UNCHANGED copies

(* Mutant: a commit overwrites the copy it started from. *)
BeginInPlace(body) ==
    /\ stage = "ready"
    /\ Committed => Valid(copies, metaCopy)
    /\ meta' = [meta EXCEPT !.body = body]
    /\ dest' = metaCopy
    /\ stage' = "erase"
    /\ UNCHANGED <<copies, metaCopy>>

(* A caller changes the record in RAM and calls ota_metadata_commit.  The  *)
(* one commit that can follow a verified one is END_UPDATE's, after the    *)
(* commit of a boot decision: that needed a pending slot, so a loaded      *)
(* record.                                                                 *)
Begin(body) ==
    /\ stage = "ready"
    /\ Committed => Valid(copies, metaCopy)
    /\ meta' = [meta EXCEPT !.body = body]
    /\ dest' = 1 - metaCopy
    /\ stage' = "erase"
    /\ UNCHANGED <<copies, metaCopy>>

Erase ==
    /\ stage = "erase"
    /\ copies' = [copies EXCEPT ![dest] = Bad]
    /\ stage' = "program"
    /\ UNCHANGED <<meta, metaCopy, dest>>

(* The erase reports an error; the page is as it was, or spoilt. *)
EraseError ==
    /\ stage = "erase"
    /\ copies' \in {copies, [copies EXCEPT ![dest] = Bad]}
    /\ stage' = "failed"
    /\ UNCHANGED <<meta, metaCopy, dest>>

(* Program and read back.  Only reconstruct_metadata writes the copy it    *)
(* then calls current, and only it advances the RAM generation.            *)
Program ==
    /\ stage = "program"
    /\ copies' = [copies EXCEPT ![dest] = NextRecord(meta)]
    /\ meta' = IF dest = metaCopy THEN NextRecord(meta) ELSE meta
    /\ stage' = "ok"
    /\ UNCHANGED <<metaCopy, dest>>

(* The program step reports an error, or the read-back differs. *)
ProgramError ==
    /\ stage = "program"
    /\ copies' = [copies EXCEPT ![dest] = Bad]
    /\ stage' = "failed"
    /\ UNCHANGED <<meta, metaCopy, dest>>

(* The caller takes the result of the commit. *)
Return ==
    /\ stage \in {"ok", "failed"}
    /\ stage' = "ready"
    /\ UNCHANGED <<copies, meta, metaCopy, dest>>

(* Reset or loss of power; a page being erased or programmed is spoilt. *)
Crash ==
    /\ stage' = "off"
    /\ \/ UNCHANGED copies
       \/ /\ stage \in {"erase", "program"}
          /\ copies' = [copies EXCEPT ![dest] = Bad]
    /\ UNCHANGED <<meta, metaCopy, dest>>

StoreNext ==
    \/ Load
    \/ \E body \in Body : Reconstruct(body)
    \/ \E body \in Body : Begin(body)
    \/ Erase
    \/ EraseError
    \/ Program
    \/ ProgramError
    \/ Return
    \/ Crash

StoreSpec == StoreInit /\ [][StoreNext]_storeVars

-----------------------------------------------------------------------------

(* The page a commit starts from is not the page it erases, unless neither *)
(* is valid; the generation in RAM stays that of the page it was loaded    *)
(* from; and the other page is older than it, or its one successor.        *)
LoadedCopyKept ==
    /\ stage # "off" /\ Valid(copies, metaCopy) => copies[metaCopy].gen = meta.gen
    /\ stage \in {"erase", "program"} =>
           \/ ~HasValid(copies)
           \/ Valid(copies, metaCopy) /\ dest = 1 - metaCopy
    /\ stage = "program" => ~Valid(copies, dest)
    /\ stage # "off" /\ Valid(copies, 1 - metaCopy) =>
           \/ copies[1 - metaCopy].gen = NextGen(meta.gen)
           \/ Valid(copies, metaCopy) /\ Selected(copies) = metaCopy

(* Once a restart can find a valid record it always can: no commit, failed *)
(* commit or crash leaves both pages invalid (ota_metadata_commit writes   *)
(* only the page the record was not loaded from).                          *)
RecordSurvives == [][HasValid(copies) => HasValid(copies')]_storeVars

=============================================================================
