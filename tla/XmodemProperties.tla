--------------------------- MODULE XmodemProperties ---------------------------
(***************************************************************************)
(* What a transfer promises the boot loader.                               *)
(***************************************************************************)
EXTENDS Xmodem, SequencesExt

Content(n) == FlattenSeq(SubSeq(File, 1, n))    \* the first n blocks
Sent == sent - 1                                \* blocks the sender has an ACK for

\* The line loses no byte, whatever it flips.
AllBytesArrive == "drop" \notin Faults

(***************************************************************************)
(* After a bad block the receiver takes the next byte for a header, which  *)
(* may be the complement of a block number or the first byte of a block.   *)
(* A transfer is unmistakable if no byte that its faults can bring there   *)
(* is SOH or EOT: it then ends with an error.  (An EOT after the last      *)
(* block does no harm.)                                                    *)
(***************************************************************************)
Stale == Faults \cap {"late", "reply"} # {}    \* a block may arrive twice
Inverted(n) == Complement(n % 2^BITS)
Unmistakable ==
    \A n \in 1..Len(File) :
        /\ FlipIn \cap {"header", "num", "inv"} # {} => File[n][1] \notin {SOH, EOT}
        /\ Stale \/ "num" \in FlipIn => Inverted(n) \notin {SOH, EOT}
        /\ Stale /\ "header" \in FlipIn =>
              /\ SOH \notin Flips(Inverted(n))
              /\ n # Len(File) => EOT \notin Flips(Inverted(n))

(***************************************************************************)
(* What has been accepted is what was sent, block by block: no flipped     *)
(* bit, repeated block or misread header ever gets a byte into "size".     *)
(***************************************************************************)
AcceptedPrefix == AllBytesArrive => IsPrefix(buf, Content(Len(File)))

(***************************************************************************)
(* xmodem_recv returns a size only when it has the whole file: no byte of  *)
(* a frame it has lost track of is taken for the end of the transfer.      *)
(***************************************************************************)
CompleteOnSuccess ==
    AllBytesArrive /\ pc = "received" => buf = Content(Len(File))

(***************************************************************************)
(* The sender is never ahead of the receiver: a block it has an ACK for is *)
(* in the buffer, whatever replies crossed or were lost, and if it has     *)
(* finished so has the receiver.                                           *)
(***************************************************************************)
AckedIsStored ==
    AllBytesArrive => /\ Sent > 0 => Len(buf) >= Sent * BLOCK_SIZE
                      /\ sender = "finished" => pc = "received"

(***************************************************************************)
(* xmodem_recv is a transfer as the main loop of the boot loader takes it  *)
(* to be: whole blocks arrive in order, and then it ends, once.            *)
(***************************************************************************)
Abstract == INSTANCE Transfer WITH
                file   <- Content(Len(File)),
                stored <- buf,
                result <- IF pc \in Reading THEN "running" ELSE pc
IsTransfer ==
    /\ Abstract!TransferInit
    /\ [][AllBytesArrive => Abstract!TransferNext]_<<buf, pc \in Reading>>

(***************************************************************************)
(* The receiver does not hang: against a sender that repeats what is not   *)
(* answered, every transfer ends, in success or with an error.             *)
(***************************************************************************)
TransferEnds ==
    "repeat" \in Faults /\ "cancel" \notin Faults => <>(pc \in {"received", "aborted"})

(***************************************************************************)
(* Errors in the data and the check sum are recovered from: the block is   *)
(* asked for again and the transfer succeeds.                              *)
(***************************************************************************)
RecoversFromDataErrors ==
    FlipIn \subseteq {"data", "sum"} /\ Faults = {} => <>(pc = "received")

===============================================================================
