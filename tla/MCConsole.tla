------------------------------- MODULE MCConsole -------------------------------
(***************************************************************************)
(* The console on the real heap and with the real priorities.              *)
(***************************************************************************)
EXTENDS ConsoleProperties

MCPoolSize == <<16, 32, 64>>
MCPoolNum  == <<8, 8, 4>>
MCSizes    == {}
MCCalls    == {"kmalloc", "kmfree", "send", "recv", "setintr", "run", "chpri"}

\* Short words for the runs in which the user types ahead: with three lines
\* waiting the pool of the console's blocks is empty.
ShortChar    == {"0", "1", "u", "w", ">", "?", "e", "a", "b", LF, CR}
ShortPrompt  == <<">">>
ShortUnknown == <<"?", LF>>
ShortEcho    == <<"e">>
ThreeLines   == <<"e", "a", CR, CR, CR>>

\* The words of command.c, for the runs that look at the size of the buffers.
RealChar    == ShortChar \cup {"c", "o", "m", "n", "d", "h", "k", ".", " "}
RealPrompt  == <<"c", "o", "m", "m", "a", "n", "d", ">", " ">>
RealUnknown == <<"u", "n", "k", "n", "o", "w", "n", ".", LF>>
RealEcho    == <<"e", "c", "h", "o">>
EchoOf(n)   == RealEcho \o <<" ">> \o [i \in 1..n |-> "a"] \o <<CR>>

\* An echo of 12 characters with its line feeds and the prompt is 25, of which
\* the transmitter holds one; the long line fits the receive buffer all the same.
FittingEcho == EchoOf(11)
LongEcho    == EchoOf(16)

===============================================================================
