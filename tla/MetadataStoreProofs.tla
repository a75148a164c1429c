------------------------- MODULE MetadataStoreProofs -------------------------
(***************************************************************************)
(* Proofs about the metadata store, for any record contents and any number *)
(* of generations from three on: the store never loses its last valid      *)
(* record, and it implements DurableRecord.  Both rest on LoadedCopyKept,  *)
(* which with the types is inductive.                                      *)
(***************************************************************************)
EXTENDS MCMetadataStore, TLAPS

StoreInv == StoreTypeOK /\ LoadedCopyKept

(* The generation a commit writes is newer than the one it started from,   *)
(* and never the other way round, also where it wraps.                     *)
LEMMA NextIsNewer ==
    ASSUME NEW g \in 0 .. GenMod - 1
    PROVE  /\ NextGen(g) \in 0 .. GenMod - 1
           /\ Newer(NextGen(g), g)
           /\ ~Newer(g, NextGen(g))
  <1>1. CASE g = GenMod - 1
    BY <1>1, GenModAssumption DEF NextGen, Newer
  <1>2. CASE g # GenMod - 1
    BY <1>2, GenModAssumption DEF NextGen, Newer
  <1> QED
    BY <1>1, <1>2

(* The successor of a record is a record. *)
LEMMA NextRecordType ==
    ASSUME NEW m \in Record
    PROVE  /\ NextRecord(m) \in Record
           /\ NextRecord(m).gen = NextGen(m.gen)
           /\ NextRecord(m).body = m.body
           /\ NextRecord(m) # Bad
  BY NextIsNewer, BadAssumption DEF Record, NextRecord

(* A step keeps the types. *)
LEMMA StoreTypeStep ==
    ASSUME StoreTypeOK, [StoreNext]_storeVars
    PROVE  StoreTypeOK'
  <1> USE DEF StoreTypeOK
  <1>1. CASE Load
    BY <1>1 DEF Load, HasValid, Valid, Selected
  <1>2. ASSUME NEW body \in Body, Reconstruct(body) PROVE StoreTypeOK'
    BY <1>2, GenModAssumption DEF Reconstruct, Record
  <1>3. ASSUME NEW body \in Body, Begin(body) PROVE StoreTypeOK'
    BY <1>3 DEF Begin, Record
  <1>4. CASE Erase
    BY <1>4 DEF Erase
  <1>5. CASE EraseError
    BY <1>5 DEF EraseError
  <1>6. CASE Program
    BY <1>6, NextRecordType DEF Program
  <1>7. CASE ProgramError
    BY <1>7 DEF ProgramError
  <1>8. CASE Return
    BY <1>8 DEF Return
  <1>9. CASE Crash
    BY <1>9 DEF Crash
  <1>10. CASE UNCHANGED storeVars
    BY <1>10 DEF storeVars
  <1> QED
    BY <1>1, <1>2, <1>3, <1>4, <1>5, <1>6, <1>7, <1>8, <1>9, <1>10 DEF StoreNext

(* A step keeps the loaded page. *)
LEMMA LoadedCopyStep ==
    ASSUME StoreInv, [StoreNext]_storeVars
    PROVE  LoadedCopyKept'
  <1> USE DEF StoreInv, StoreTypeOK, LoadedCopyKept, Valid, HasValid
  <1>1. CASE Load
    BY <1>1 DEF Load, Selected
  <1>2. ASSUME NEW body \in Body, Reconstruct(body) PROVE LoadedCopyKept'
    BY <1>2 DEF Reconstruct
  <1>3. ASSUME NEW body \in Body, Begin(body) PROVE LoadedCopyKept'
    <2>1. Newer(NextGen(meta.gen), meta.gen)
      BY NextIsNewer DEF Record
    <2>2. Valid(copies, metaCopy) \/ ~HasValid(copies)
      BY <1>3, <2>1 DEF Begin, Committed
    <2>3. meta'.gen = meta.gen
      BY <1>3 DEF Begin, Record
    <2> QED
      BY <1>3, <2>2, <2>3 DEF Begin, Selected
  <1>4. CASE Erase
    BY <1>4 DEF Erase, Selected
  <1>5. CASE EraseError
    BY <1>5 DEF EraseError, Selected
  <1>6. CASE Program
    BY <1>6, NextRecordType DEF Program, Selected
  <1>7. CASE ProgramError
    BY <1>7 DEF ProgramError, Selected
  <1>8. CASE Return
    BY <1>8 DEF Return, Selected
  <1>9. CASE Crash
    BY <1>9 DEF Crash
  <1>10. CASE UNCHANGED storeVars
    BY <1>10 DEF storeVars, Selected
  <1> QED
    BY <1>1, <1>2, <1>3, <1>4, <1>5, <1>6, <1>7, <1>8, <1>9, <1>10 DEF StoreNext

(* The types and LoadedCopyKept always hold. *)
THEOREM StoreInvariant == StoreSpec => []StoreInv
  <1>1. StoreInit => StoreInv
    <2> SUFFICES ASSUME StoreInit PROVE StoreInv
      OBVIOUS
    <2>1. StoreTypeOK
      BY GenModAssumption DEF StoreInit, StoreTypeOK
    <2>2. LoadedCopyKept
      BY DEF StoreInit, LoadedCopyKept
    <2> QED
      BY <2>1, <2>2 DEF StoreInv
  <1>2. StoreInv /\ [StoreNext]_storeVars => StoreInv'
    BY StoreTypeStep, LoadedCopyStep DEF StoreInv
  <1> QED
    BY <1>1, <1>2, PTL DEF StoreSpec

(* Types, for the run's invariants. *)
THEOREM StoreTypeCorrect == StoreSpec => []StoreTypeOK
  BY StoreInvariant, PTL DEF StoreInv

(* The page a commit starts from survives it. *)
THEOREM LoadedCopyIsKept == StoreSpec => []LoadedCopyKept
  BY StoreInvariant, PTL DEF StoreInv

(* No step leaves both pages invalid. *)
LEMMA RecordSurvivesStep ==
    ASSUME StoreInv, [StoreNext]_storeVars, HasValid(copies)
    PROVE  HasValid(copies')
  <1> USE DEF StoreInv, StoreTypeOK, LoadedCopyKept, Valid, HasValid
  <1>1. CASE stage \in {"erase", "program"}
    <2>1. copies[metaCopy] # Bad /\ metaCopy \in 0 .. 1 /\ dest = 1 - metaCopy
      BY <1>1
    <2>2. CASE copies' = copies \/ copies' = [copies EXCEPT ![dest] = Bad]
      BY <2>1, <2>2
    <2>3. CASE Program
      BY <2>1, <2>3 DEF Program
    <2>4. copies' = copies \/ copies' = [copies EXCEPT ![dest] = Bad] \/ Program
      BY <1>1 DEF StoreNext, Load, Reconstruct, Begin, Erase, EraseError,
                  ProgramError, Return, Crash, storeVars
    <2> QED
      BY <2>2, <2>3, <2>4
  <1>2. CASE stage \notin {"erase", "program"}
    <2>1. copies' = copies
      BY <1>2 DEF StoreNext, Load, Reconstruct, Begin, Erase, EraseError, Program,
                  ProgramError, Return, Crash, storeVars
    <2> QED
      BY <2>1
  <1> QED
    BY <1>1, <1>2

(* Once a restart can find a valid record, it always can. *)
THEOREM RecordAlwaysSurvives == StoreSpec => RecordSurvives
  <1>1. StoreInv /\ [StoreNext]_storeVars => [HasValid(copies) => HasValid(copies')]_storeVars
    BY RecordSurvivesStep
  <1> QED
    BY <1>1, StoreInvariant, PTL DEF StoreSpec, RecordSurvives

-----------------------------------------------------------------------------
(* The refinement of DurableRecord.                                        *)

(* What a restart loads when a page is valid is a record's body, never Bad.*)
LEMMA ValueType ==
    ASSUME StoreTypeOK
    PROVE  /\ HasValid(copies) => Valid(copies, Selected(copies)) /\ Value \in Body
           /\ ~HasValid(copies) => Value = Bad
  BY BadAssumption DEF StoreTypeOK, Value, HasValid, Valid, Selected, Record

(* After a completed commit a restart loads what it committed. *)
LEMMA ProgramSelects ==
    ASSUME StoreInv, Program
    PROVE  HasValid(copies') /\ Value' = meta.body
  <1> USE DEF StoreInv, StoreTypeOK, LoadedCopyKept, Valid, HasValid
  <1>1. /\ NextRecord(meta) \in Record /\ NextRecord(meta) # Bad
        /\ NextRecord(meta).gen = NextGen(meta.gen)
        /\ NextRecord(meta).body = meta.body
    BY NextRecordType
  <1>2. Newer(NextGen(meta.gen), meta.gen) /\ ~Newer(meta.gen, NextGen(meta.gen))
    BY NextIsNewer DEF Record
  <1>3. copies'[dest] = NextRecord(meta) /\ copies'[1 - dest] = copies[1 - dest]
    BY DEF Program
  <1>4. copies[1 - dest] # Bad => copies[1 - dest].gen = meta.gen
    BY DEF Program
  <1>5. Selected(copies') = dest
    BY <1>1, <1>2, <1>3, <1>4 DEF Selected
  <1> QED
    BY <1>1, <1>3, <1>5 DEF Value

(* Every step of the store is a step of DurableRecord, or stutters. *)
LEMMA DurableStep ==
    ASSUME StoreInv, StoreTypeOK', [StoreNext]_storeVars
    PROVE  [Durable!Next]_<<Value, Loaded, Proposal, Answer>>
  <1> USE DEF StoreInv, StoreTypeOK, LoadedCopyKept, Valid, HasValid
  <1> USE DEF Durable!Next, Durable!Propose, Durable!Apply, Durable!Lose, Durable!Abandon,
              Durable!Report, Durable!Restart, Answer
  <1>0. meta.body \in Body /\ meta.body # Bad
    BY BadAssumption DEF Record
  <1>1. CASE Load
    BY <1>1 DEF Load, Value, Loaded, Proposal, Selected
  <1>2. ASSUME NEW body \in Body, Reconstruct(body)
        PROVE  [Durable!Next]_<<Value, Loaded, Proposal, Answer>>
    BY <1>2, BadAssumption DEF Reconstruct, Value, Loaded, Proposal
  <1>3. ASSUME NEW body \in Body, Begin(body)
        PROVE  [Durable!Next]_<<Value, Loaded, Proposal, Answer>>
    BY <1>3, BadAssumption DEF Begin, Value, Loaded, Proposal, Selected, Record
  <1>4. CASE Erase
    <2>1. Value' \in {Value, Loaded} /\ Loaded' = Loaded
      BY <1>4 DEF Erase, Value, Loaded, Selected
    <2>2. Proposal = meta.body /\ Proposal' = Proposal /\ Answer' = Answer
      BY <1>4 DEF Erase, Proposal
    <2> QED
      BY <1>0, <2>1, <2>2
  <1>5. CASE EraseError
    <2>1. Value' \in {Value, Loaded} /\ Loaded' = Loaded
      BY <1>5 DEF EraseError, Value, Loaded, Selected
    <2>2. Proposal = meta.body /\ Proposal' = Bad /\ Answer' = "failed"
      BY <1>5 DEF EraseError, Proposal
    <2> QED
      BY <1>0, <2>1, <2>2
  <1>6. CASE Program
    <2>1. Value' = meta.body
      BY <1>6, ProgramSelects
    <2>2. Proposal = meta.body /\ Proposal' = Bad /\ Answer' = "ok"
      BY <1>6 DEF Program, Proposal
    <2>3. CASE HasValid(copies)
      <3>1. Loaded' = Loaded
        BY <1>6, <2>3 DEF Program, Loaded
      <3> QED
        BY <1>0, <2>1, <2>2, <3>1
    <2>4. CASE ~HasValid(copies)
      <3>1. Value = Bad /\ Loaded = Bad
        BY <1>6, <2>4 DEF Program, Value, Loaded
      <3>2. NextRecord(meta).body = meta.body
        BY NextRecordType
      <3>3. Loaded' \in {Bad, meta.body}
        BY <1>6, <2>4, <3>2 DEF Program, Loaded
      <3> QED
        BY <1>0, <2>1, <2>2, <3>1, <3>3
    <2> QED
      BY <2>3, <2>4
  <1>7. CASE ProgramError
    BY <1>0, <1>7 DEF ProgramError, Value, Loaded, Proposal, Selected
  <1>8. CASE Return
    BY <1>8 DEF Return, Value, Loaded, Proposal, Selected
  <1>9. CASE Crash
    BY <1>0, <1>9 DEF Crash, Value, Loaded, Proposal, Selected
  <1>10. CASE UNCHANGED storeVars
    BY <1>10 DEF storeVars, Value, Loaded, Proposal, Selected
  <1> QED
    BY <1>1, <1>2, <1>3, <1>4, <1>5, <1>6, <1>7, <1>8, <1>9, <1>10 DEF StoreNext

(* The store implements a single durable value. *)
THEOREM StoreImplementsDurableRecord == StoreSpec => DurableSpec
  <1>1. StoreInit => Durable!Init
    BY BadAssumption DEF StoreInit, Durable!Init, Answer, Value, Loaded, Proposal, HasValid, Valid,
                         Selected, Record
  <1>2. StoreInv /\ StoreInv' /\ [StoreNext]_storeVars => [Durable!Next]_<<Value, Loaded, Proposal, Answer>>
    BY DurableStep DEF StoreInv
  <1> QED
    BY <1>1, <1>2, StoreInvariant, PTL DEF StoreSpec, DurableSpec, Durable!Spec, Durable!durableVars

=============================================================================
