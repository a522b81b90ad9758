------------------------------- MODULE Transfer -------------------------------
(***************************************************************************)
(* What a file transfer promises whoever started it (bootload/main.c): the *)
(* file arrives in order, a block at a time; the transfer ends at any time *)
(* with an error, and with success only when all of it has arrived.        *)
(***************************************************************************)
EXTENDS Naturals, Sequences

CONSTANT BLOCK_SIZE
VARIABLES file, stored, result

TransferInit == stored = <<>> /\ result = "running"

Arrive ==
    /\ result = "running" /\ Len(stored) < Len(file)
    /\ stored' = SubSeq(file, 1, Len(stored) + BLOCK_SIZE)
    /\ UNCHANGED <<file, result>>

Succeed == /\ result = "running" /\ stored = file
           /\ result' = "received"
           /\ UNCHANGED <<file, stored>>

Fail == /\ result = "running"
        /\ result' = "aborted"
        /\ UNCHANGED <<file, stored>>

TransferNext == Arrive \/ Succeed \/ Fail

===============================================================================
