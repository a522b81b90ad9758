------------------------------- MODULE MCXmodem -------------------------------
(***************************************************************************)
(* Small transfers for TLC: bytes of four bits, blocks of two bytes.  No   *)
(* control byte is a bit flip away from another, as in the code (0x01,     *)
(* 0x04, 0x18), and no block of PlainFile begins with one.                 *)
(***************************************************************************)
EXTENDS XmodemProperties

PlainFile == <<<<7, 4>>, <<2, 1>>, <<15, 10>>>>

\* A file in which the second block begins with EOT.
FileWithEot == <<<<7, 4>>, <<4, 1>>>>

\* More blocks than a byte can number.
LongFile == [n \in 1..18 |-> <<(n * 3) % 16, 15 - (n % 8)>>]

\* Flips anywhere and lost replies, with a cancel and without; lost bytes;
\* and a long file with errors in its data only.
MCScenario ==
    {[file |-> PlainFile, flips |-> Reading, faults |-> {"reply", "repeat", "cancel", "late"}],
     [file |-> PlainFile, flips |-> Reading, faults |-> {"reply", "repeat", "late"}],
     [file |-> PlainFile, flips |-> Reading, faults |-> {"reply", "repeat", "late", "drop"}],
     [file |-> LongFile,  flips |-> {"data", "sum"}, faults |-> {}]}

EotScenario == {[file |-> FileWithEot, flips |-> {"inv"}, faults |-> {}]}

===============================================================================
