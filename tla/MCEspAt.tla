------------------------------- MODULE MCEspAt -------------------------------
(* An instance of the cloud client for TLC: a header of one cell in a page *)
(* of four, chunks of two.                                                 *)
EXTENDS EspAtProperties

Whole(size) == [size |-> size, header |-> TRUE, slot |-> TRUE, image |-> TRUE]

(* Payloads that do and do not fill their last chunk, and packages whose   *)
(* header, slot or image is refused.                                       *)
MCPackages ==
    {Whole(6), Whole(7), [Whole(7) EXCEPT !.header = FALSE],
     [Whole(7) EXCEPT !.slot = FALSE], [Whole(7) EXCEPT !.image = FALSE]}

=============================================================================
