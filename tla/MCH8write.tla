------------------------------- MODULE MCH8write -------------------------------
(***************************************************************************)
(* A ROM of four pages of four bytes.                                      *)
(***************************************************************************)
EXTENDS H8writeProperties

Data(a, d) == [type |-> 1, addr |-> a, data |-> d]
Head0      == [type |-> 0, addr |-> 0, data |-> <<104>>]
Start7     == [type |-> 9, addr |-> 0, data |-> <<>>]

\* A record across pages, one over part of it, a page that no record covers, one
\* whose end no record covers, and records in no order.
SFile == <<Head0, Data(12, <<77>>), Data(2, <<11, 22, 33>>), Data(2, <<44>>), Start7>>

MCScenario == [
    cpu : {"3069"}, freq : {2000}, file : {SFile}, readable : {TRUE}, newline : {TRUE},
    flips : {{"tx", "rx"}}, reruns : {1}]
  \cup [
    cpu : {"older"}, freq : {2000}, file : {SFile}, readable : {TRUE}, newline : {TRUE, FALSE},
    flips : {{}, {"rx"}, {"tx"}}, reruns : {1}]
  \cup [  \* the last byte of the ROM, a wrong frequency, no file, no newline
    cpu : {"3069", "older"}, freq : {2000, 2500}, readable : BOOLEAN, newline : BOOLEAN,
    file : {<<Data(8, <<55, 66>>), Data(14, <<77, 88>>)>>, <<>>}, flips : {{}}, reruns : {0, 1}]

===============================================================================
