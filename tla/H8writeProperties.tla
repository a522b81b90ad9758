--------------------------- MODULE H8writeProperties ---------------------------
(***************************************************************************)
(* What a run of the flash writer promises the user of the board.          *)
(***************************************************************************)
EXTENDS H8write

\* What the S file says of the ROM: a byte is that of the last record that
\* covers it, and blank if none does.
Covering(a) == {i \in 1..Len(scenario.file) :
                    LET r == scenario.file[i]
                    IN  r.type \in 1..3 /\ a - r.addr \in 0..(Len(r.data) - 1)}
Image == [a \in 0..RomEnd |->
            IF Covering(a) = {} THEN Blank
            ELSE LET last == CHOOSE i \in Covering(a) : \A j \in Covering(a) : j <= i
                 IN  scenario.file[last].data[a - scenario.file[last].addr + 1]]

Pages   == 0..(ROMBUF_SIZE \div PAGE_SIZE - 1)
On(f,p) == SubSeq([k \in 1..ROMBUF_SIZE |-> f[k - 1]], p * PAGE_SIZE + 1, (p + 1) * PAGE_SIZE)

\* The loop over the file sees all its data: it never sees a last line that
\* does not end with a newline.
ReadWhole == \/ scenario.newline \/ scenario.file = <<>>
             \/ Last(scenario.file).type \notin 1..3

\* No record was skipped with a warning, and area and page size are the device's.
Told == ~skipped /\ ~misheard

\* An older device takes a page without a check sum, and takes what a run sends
\* first for a part of a page if it has not been reset after the run before.
Protected == scenario.cpu = "3069" \/ ("tx" \notin scenario.flips /\ ~warm)

(***************************************************************************)
(* Every variable keeps its type; only pages that main has cleared are     *)
(* enabled, whatever area the device, or a flipped bit, has told.          *)
(***************************************************************************)
TypeOK ==
    /\ pc \in Asking \cup Ended \cup {"read"} /\ asked \in BOOLEAN
    /\ tries \in 0..TRIES /\ sent \in 0..(Len(TransferBytes) - 1) /\ rate \in {9600, 19200} /\ devcode \in Seq(Byte)
    /\ area \in Int \X Int /\ pagesize \in Nat
    /\ rombuf = <<>> \/ rombuf \in [0..area[2] -> Byte]
    /\ enable \subseteq {PageOf(a) : a \in DOMAIN rombuf} /\ page \in Nat
    /\ tx \in Seq(Seq(Byte)) /\ rx \in Seq(Byte)
    /\ flash \in [0..RomEnd -> Byte] /\ devrate \in {9600, 19200}
    /\ heard \in Seq(Byte) /\ burnt \in 0..(PAGE_SIZE - 1)
    /\ flips \in 0..MAX_FLIPS /\ reruns \in 0..MAX_RERUNS
    /\ {fresh, warm, skipped, misheard} \subseteq BOOLEAN

(***************************************************************************)
(* "EEPROM Writing is successed" without a warning means that the ROM is   *)
(* what the S file says, whatever bits the line has flipped on the way,    *)
(* those of the area aside, and whatever earlier runs left behind, in the  *)
(* ROM or on the line.                                                     *)
(***************************************************************************)
SuccessMeansWritten ==
    pc = "successed" /\ Told /\ ReadWhole /\ Protected => flash = Image

(***************************************************************************)
(* The size of a page is the device's once it is erased: no flipped bit    *)
(* and no answer to an earlier question passes for another size.           *)
(***************************************************************************)
PageSizeHeard ==
    pc \in {"erase", "format", "read", "high", "low", "page", "end", "successed"} =>
        pagesize = PAGE_SIZE

(***************************************************************************)
(* The writer is never ahead of the device: when it goes on to a page, the *)
(* enabled pages before it are in the ROM.                                 *)
(***************************************************************************)
AckedPagesWritten ==
    pc \in {"high", "low", "page", "end", "successed"} /\ Told /\ ReadWhole /\ Protected =>
        \A p \in enable : p < page => On(flash, p) = On(rombuf, p)

(***************************************************************************)
(* Wherever a run is stopped, in the middle of a question or of the        *)
(* programming of a page, and whatever ran before: the ROM is as it was,   *)
(* or each byte of it is blank or what the file says there.                *)
(***************************************************************************)
FlashNeverMixes ==
    Told /\ ReadWhole /\ Protected =>
        flash = OldFlash \/ \A a \in 0..RomEnd : flash[a] \in {Blank, Image[a]}

(***************************************************************************)
(* A run for the right device that begins with a reset, over a line that   *)
(* flips no bit any more, ends with success: no question of it goes        *)
(* unanswered, at either speed.                                            *)
(***************************************************************************)
CleanRunSucceeds ==
    (/\ pc = "rate" /\ ~asked /\ fresh
     /\ scenario.flips = {} \/ flips = MAX_FLIPS
     /\ reruns = scenario.reruns
     /\ scenario.readable /\ scenario.freq = FREQ) ~> pc = "successed"

===============================================================================
