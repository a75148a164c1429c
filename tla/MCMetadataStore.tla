--------------------------- MODULE MCMetadataStore ---------------------------
(* Model checking of the metadata store and of its refinement of           *)
(* DurableRecord.                                                          *)
EXTENDS MetadataStore

(* What the next restart would load, if anything. *)
Value == IF HasValid(copies) THEN copies[Selected(copies)].body ELSE Bad

Loaded ==
    IF stage = "off" THEN Value
    ELSE IF Valid(copies, metaCopy) THEN copies[metaCopy].body ELSE Bad

Proposal == IF stage \in {"erase", "program"} THEN meta.body ELSE Bad

Answer == IF stage \in {"ok", "failed"} THEN stage ELSE "none"

Durable == INSTANCE DurableRecord WITH
    Unset <- Bad, value <- Value, loaded <- Loaded, proposal <- Proposal, answer <- Answer

(* What a restart would load is one durable value: it changes when a       *)
(* commit completes, and then to the value committed, whenever the caller  *)
(* is told so; only a later commit of the same session can take that back, *)
(* to the value last loaded (ota_metadata_commit).                         *)
DurableSpec == Durable!Spec

=============================================================================
