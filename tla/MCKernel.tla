------------------------------- MODULE MCKernel -------------------------------
(***************************************************************************)
(* Small instances of the kernel for TLC.                                  *)
(***************************************************************************)
EXTENDS KernelProperties

\* Two pools: the payloads of the runs fit the small blocks, a kz_msgbuf (14
\* bytes on the H8, header 6) only the larger ones.
MCPoolSize == <<16, 32>>
MCPoolNum  == <<1, 2>>
MCSizes    == {10}

===============================================================================
