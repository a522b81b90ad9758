-------------------------------- MODULE Xmodem --------------------------------
(***************************************************************************)
(* The XMODEM receiver of the boot loader (bootload/xmodem.c), byte by     *)
(* byte, against a sender at the other end of the serial line.  The        *)
(* receiver polls; every byte it reads is one step, and pc says which      *)
(* serial_recv_byte of the code it is in.  The sender is the protocol's    *)
(* usual one and external to the code: it sends a block on NAK, the next   *)
(* on ACK, and may time out and repeat.                                    *)
(***************************************************************************)
EXTENDS Integers, Sequences

CONSTANTS BITS,                 \* the width of a byte: 8 in the code
          BLOCK_SIZE,           \* XMODEM_BLOCK_SIZE
          SOH, EOT, CAN,        \* the control bytes, as in the code
          Scenario,             \* the transfers to look at, see below
          MAX_ERRORS            \* bound: the faults of one behaviour

ByteMax == 2^BITS - 1
Byte    == 0..ByteMax
Reading == {"header", "num", "inv", "data", "sum"}

\* "reply": a reply is lost on the line.        "drop":   a byte is lost.
\* "repeat": the sender times out and repeats.  "cancel": its user gives up.
\* "late": the receiver times out although its first NAK is being answered.
FaultName == {"reply", "drop", "repeat", "cancel", "late"}

\* A transfer: the blocks the sender has, where in a frame the line may flip a
\* bit, and its other faults.
IsScenario(s) ==
    /\ DOMAIN s = {"file", "flips", "faults"}
    /\ s.file \in Seq([1..BLOCK_SIZE -> Byte])
    /\ s.flips \subseteq Reading /\ s.faults \subseteq FaultName

ASSUME XmodemAssumption ==
    /\ BITS \in Nat \ {0} /\ BLOCK_SIZE \in Nat \ {0}
    /\ \A k \in 0..BITS : 2^k > 0
    /\ {SOH, EOT, CAN} \subseteq Byte /\ SOH # EOT /\ EOT # CAN /\ CAN # SOH
    /\ \A s \in Scenario : IsScenario(s)
    /\ MAX_ERRORS \in Nat

VARIABLES
    pc,             \* the read the receiver is in, or how it has ended
    recieving,      \* whether an SOH has been seen (a counter in the code)
    block_number,   \* the number of the block the receiver expects
    check_sum,      \* of the block being read
    part,           \* the bytes of that block stored so far, past the end of
    buf,            \* what has been accepted, "size" bytes
    line,           \* the bytes on their way to the receiver
    replies,        \* and those on their way to the sender
    sent,           \* the block the sender is at; 0: waiting for the first NAK
    sender,         \* whether the sender is active, has finished or given up
    errors, hit,    \* faults so far; whether the frame on the line has a flip
    scenario        \* the transfer, which does not change

receiver == <<pc, recieving, block_number, check_sum, part, buf>>
vars == <<receiver, line, replies, sent, sender, errors, hit, scenario>>

File   == scenario.file
FlipIn == scenario.flips
Faults == scenario.faults

TypeOK ==
    /\ pc \in Reading \cup {"received", "aborted"}
    /\ recieving \in BOOLEAN
    /\ block_number \in Byte /\ check_sum \in Byte
    /\ part \in Seq(Byte) /\ Len(part) < BLOCK_SIZE + 1
    /\ buf \in Seq(Byte)
    /\ line \in Seq(Byte)
    /\ replies \in Seq({"ACK", "NAK"})
    /\ sent \in 0..(Len(File) + 1)
    /\ sender \in {"active", "finished", "cancelled"}
    /\ errors \in 0..MAX_ERRORS /\ hit \in BOOLEAN
    /\ scenario \in Scenario

Init ==
    /\ pc = "header" /\ recieving = FALSE /\ block_number = 1 /\ check_sum = 0
    /\ part = <<>> /\ buf = <<>>
    /\ line = <<>> /\ replies = <<>>
    /\ sent = 0 /\ sender = "active"
    /\ errors = 0 /\ hit = FALSE
    /\ scenario \in Scenario

-------------------------------------------------------------------------------
\* The receiver.

Complement(c) == ByteMax - c           \* c ^ 0xff
Flips(c) == {IF (c \div 2^k) % 2 = 0 THEN c + 2^k ELSE c - 2^k : k \in 0..(BITS - 1)}

\* What the receiver relies on: SOH is the number of the first block, and no
\* control byte becomes SOH or EOT by a flipped bit (0x01, 0x04, 0x18).
ASSUME ControlAssumption ==
    /\ SOH = 1 /\ Complement(SOH) # SOH
    /\ SOH \notin Flips(EOT) \cup Flips(CAN)
    /\ EOT \notin Flips(SOH) \cup Flips(CAN)

\* serial_recv_byte: the next byte, as the line delivers it.  The line flips
\* at most one bit of a frame: two could cancel out in the check sum.
Receive(c) ==
    /\ pc \in Reading
    /\ line # <<>>
    /\ line' = Tail(line)
    /\ \/ c = Head(line) /\ UNCHANGED <<errors, hit>>
       \/ /\ pc \in FlipIn /\ errors < MAX_ERRORS /\ ~hit
          /\ c \in Flips(Head(line))
          /\ errors' = errors + 1 /\ hit' = TRUE
    /\ UNCHANGED <<sent, sender>>

Reply(r) == replies' = Append(replies, r)

\* xmodem_wait: no byte for a while, before the first SOH only.
Timeout ==
    /\ pc = "header" /\ ~recieving
    /\ \/ line = <<>> /\ replies = <<>> /\ UNCHANGED errors
       \/ /\ "late" \in Faults /\ errors < MAX_ERRORS
          /\ errors' = errors + 1
    /\ Reply("NAK")
    /\ UNCHANGED <<receiver, line, sent, sender, hit>>

\* Mutant of ReadHeader: a byte that starts no frame is skipped.
ReadHeaderSkips ==
    \E c \in Byte :
        /\ pc = "header" /\ Receive(c)
        /\ pc' = CASE c = EOT -> "received"
                   [] c = CAN -> "aborted"
                   [] c = SOH -> "num"
                   [] OTHER   -> "header"
        /\ IF c = EOT THEN Reply("ACK") ELSE UNCHANGED replies
        /\ recieving' = (recieving \/ c = SOH)
        /\ UNCHANGED <<block_number, check_sum, part, buf>>

\* xmodem_recv reads the first byte of a frame.
ReadHeader ==
    \E c \in Byte :
        /\ pc = "header" /\ Receive(c)
        /\ pc' = CASE c = EOT -> "received"
                   [] c = CAN -> "aborted"
                   [] c = SOH -> "num"
                   [] OTHER   -> IF recieving THEN "aborted" ELSE "header"
        /\ IF c = EOT THEN Reply("ACK") ELSE UNCHANGED replies
        /\ recieving' = (recieving \/ c = SOH)
        /\ UNCHANGED <<block_number, check_sum, part, buf>>

\* Mutant of Reject: a bad block is acknowledged.
RejectAcks == /\ pc' = "header" /\ Reply("ACK") /\ part' = <<>>
              /\ UNCHANGED <<recieving, block_number, check_sum, buf>>

\* xmodem_read_block fails: it returns at once, with the rest of the block
\* still to come, and xmodem_recv goes on with the next byte as a header.
Reject == /\ pc' = "header" /\ Reply("NAK") /\ part' = <<>>
          /\ UNCHANGED <<recieving, block_number, check_sum, buf>>

ReadNumber ==
    \E c \in Byte :
        /\ pc = "num" /\ Receive(c)
        /\ IF c # block_number THEN Reject
           ELSE /\ pc' = "inv"
                /\ UNCHANGED <<recieving, block_number, check_sum, part, buf, replies>>

ReadInverse ==
    \E c \in Byte :
        /\ pc = "inv" /\ Receive(c)
        /\ IF c # Complement(block_number) THEN Reject
           ELSE /\ pc' = "data" /\ check_sum' = 0 /\ part' = <<>>
                /\ UNCHANGED <<recieving, block_number, buf, replies>>

\* Mutant of ReadData: the check sum is not kept in a byte.
ReadDataWide ==
    \E c \in Byte :
        /\ pc = "data" /\ Receive(c)
        /\ part' = Append(part, c)
        /\ check_sum' = check_sum + c
        /\ pc' = IF Len(part) + 1 = BLOCK_SIZE THEN "sum" ELSE "data"
        /\ UNCHANGED <<recieving, block_number, buf, replies>>

ReadData ==
    \E c \in Byte :
        /\ pc = "data" /\ Receive(c)
        /\ part' = Append(part, c)
        /\ check_sum' = (check_sum + c) % 2^BITS
        /\ pc' = IF Len(part) + 1 = BLOCK_SIZE THEN "sum" ELSE "data"
        /\ UNCHANGED <<recieving, block_number, buf, replies>>

\* Mutant of ReadSum: the check sum is read and not compared.
ReadSumUnchecked ==
    \E c \in Byte :
        /\ pc = "sum" /\ Receive(c)
        /\ pc' = "header" /\ Reply("ACK")
        /\ buf' = buf \o part /\ part' = <<>>
        /\ block_number' = (block_number + 1) % 2^BITS
        /\ UNCHANGED <<recieving, check_sum>>

\* Mutant of ReadSum: the block number is not kept in a byte.
ReadSumWide ==
    \E c \in Byte :
        /\ pc = "sum" /\ Receive(c)
        /\ IF c # check_sum THEN Reject
           ELSE /\ pc' = "header" /\ Reply("ACK")
                /\ buf' = buf \o part /\ part' = <<>>
                /\ block_number' = block_number + 1
                /\ UNCHANGED <<recieving, check_sum>>

ReadSum ==
    \E c \in Byte :
        /\ pc = "sum" /\ Receive(c)
        /\ IF c # check_sum THEN Reject
           ELSE /\ pc' = "header" /\ Reply("ACK")
                /\ buf' = buf \o part /\ part' = <<>>
                /\ block_number' = (block_number + 1) % 2^BITS
                /\ UNCHANGED <<recieving, check_sum>>

-------------------------------------------------------------------------------
\* The sender and the line.

CheckSum(q) == LET upTo[i \in 0..Len(q)] == IF i = 0 THEN 0 ELSE (upTo[i - 1] + q[i]) % 2^BITS
          IN  upTo[Len(q)]
Frame(n) == IF n > Len(File) THEN <<EOT>>
            ELSE <<SOH, n % 2^BITS, Complement(n % 2^BITS)>> \o File[n] \o <<CheckSum(File[n])>>

\* Nobody reads what is sent after the receiver has ended.
Transmit(n) == /\ sent' = n
               /\ line' = IF pc \in Reading THEN line \o Frame(n) ELSE line
               /\ hit' = (hit /\ line # <<>>)

\* NAK asks for the first block, or for the last one again; ACK for the next.
SenderReply ==
    /\ replies # <<>>
    /\ replies' = Tail(replies)
    /\ \/ sender = "active" /\ Head(replies) = "NAK" /\ UNCHANGED sender
          /\ Transmit(IF sent = 0 THEN 1 ELSE sent)
       \/ sender = "active" /\ Head(replies) = "ACK" /\ sent \in 1..Len(File)
          /\ Transmit(sent + 1) /\ UNCHANGED sender
       \/ sender = "active" /\ Head(replies) = "ACK" /\ sent = Len(File) + 1
          /\ sender' = "finished" /\ UNCHANGED <<sent, line, hit>>
       \/ (sender # "active" \/ (Head(replies) = "ACK" /\ sent = 0))
          /\ UNCHANGED <<sent, line, hit, sender>>
    /\ UNCHANGED <<receiver, errors>>

\* Its timeout is long: everything it has sent has been read by then.
SenderTimeout ==
    /\ "repeat" \in Faults
    /\ sender = "active" /\ sent > 0 /\ line = <<>> /\ replies = <<>>
    /\ pc \in Reading
    /\ Transmit(sent)
    /\ UNCHANGED <<receiver, replies, sender, errors>>

SenderCancel ==
    /\ "cancel" \in Faults
    /\ sender = "active" /\ line = <<>>
    /\ sender' = "cancelled" /\ line' = <<CAN>>
    /\ UNCHANGED <<receiver, replies, sent, errors, hit>>

LoseByte ==
    /\ "drop" \in Faults /\ line # <<>> /\ errors < MAX_ERRORS
    /\ line' = Tail(line) /\ errors' = errors + 1
    /\ UNCHANGED <<receiver, replies, sent, sender, hit>>

LoseReply ==
    /\ "reply" \in Faults /\ replies # <<>> /\ errors < MAX_ERRORS
    /\ replies' = Tail(replies) /\ errors' = errors + 1
    /\ UNCHANGED <<receiver, line, sent, sender, hit>>

Receiver == Timeout \/ ReadHeader \/ ReadNumber \/ ReadInverse \/ ReadData \/ ReadSum
Line == SenderReply \/ SenderTimeout \/ SenderCancel \/ LoseByte \/ LoseReply
Next == (Receiver \/ Line) /\ UNCHANGED scenario

Spec == Init /\ [][Next]_vars

\* Both ends go on running; faults are never owed, the sender's timeout is.
Fairness == /\ WF_vars(Receiver /\ UNCHANGED scenario)
            /\ WF_vars(SenderReply /\ UNCHANGED scenario)
            /\ WF_vars(SenderTimeout /\ UNCHANGED scenario)
FairSpec == Spec /\ Fairness

===============================================================================
