-------------------------------- MODULE H8write --------------------------------
(***************************************************************************)
(* The flash writer (tools/h8write/h8write.c), which puts the boot loader  *)
(* into the ROM of the board, against the boot mode of the H8 at the other *)
(* end of the serial line.  A question is what the writer sends before it  *)
(* blocks in getbyte, without a timeout: sending one is a step, reading    *)
(* its answer another, and pc says which question it is at.  A user may    *)
(* stop the writer between any two bytes of it.                            *)
(* Both sides of "if(cpuid > 0x100)" are here: the boot program of the     *)
(* 3069, and the older H8s, to which the writer first sends a program that *)
(* it carries with it.  The boot modes of the devices are external and     *)
(* modelled from what the writer expects of them; the program is not.      *)
(***************************************************************************)
EXTENDS Integers, Sequences, FiniteSets, SequencesExt

CONSTANTS BIT_RATE_SET_MAX_3069, BIT_RATE_SET_MAX,      \* zeros that give the speed
          TRIES,          \* the attempts of query_device: 64 in the code
          ROMBUF_SIZE,    \* of rombuf: the last address of the ROM is one less
          ENABLE_SIZE,    \* of enable, in pages
          PAGE_SIZE,      \* of the device
          FREQ,           \* the crystal of the board, in 10 kHz
          Scenario,       \* what is written, to what, and what goes wrong
          MAX_FLIPS, MAX_RERUNS   \* bounds: flipped bits, runs after the first

Byte   == 0..255
RomEnd == ROMBUF_SIZE - 1
Blank  == 255

\* A data record of the S file has type 1, 2 or 3; the others are 0 and 7 to 9.
Record == [type : 0..9, addr : Nat, data : Seq(Byte)]

\* "readable": whether the file can be opened.  "newline": whether its last line ends with one.
\* "flips": on which way the line may flip a bit.
IsScenario(s) ==
    /\ DOMAIN s = {"cpu", "freq", "file", "readable", "newline", "flips", "reruns"}
    /\ s.cpu \in {"3069", "older"} /\ s.freq \in {2000, 2500}
    /\ s.file \in Seq(Record) /\ {s.readable, s.newline} \subseteq BOOLEAN
    /\ s.flips \subseteq {"tx", "rx"} /\ s.reruns \in 0..MAX_RERUNS

ASSUME H8writeAssumption ==
    /\ {BIT_RATE_SET_MAX_3069, BIT_RATE_SET_MAX} \subseteq Nat \ {0}
    /\ {TRIES, ROMBUF_SIZE, ENABLE_SIZE} \subseteq Nat \ {0}
    /\ FREQ \in {2000, 2500}
    /\ \A s \in Scenario : IsScenario(s)
    /\ {MAX_FLIPS, MAX_RERUNS} \subseteq Nat

\* In the code ROMBUF_SIZE is 0x80000 and ENABLE_SIZE 0x8000.
ASSUME AddressAssumption == ROMBUF_SIZE \div 16777216 < 128 /\ ENABLE_SIZE <= 65536

\* The ROM is made of pages of a size that is a power of two; the second is what a power is.
ASSUME PageAssumption  == /\ \E k \in 0..15 : PAGE_SIZE = 2^k
                          /\ \E n \in 1..ENABLE_SIZE : ROMBUF_SIZE = n * PAGE_SIZE
ASSUME PowerAssumption == 2^0 = 1 /\ \A k \in 0..15 : 2^(k + 1) = 2 * 2^k

VARIABLES
    pc, asked,      \* the question the writer is at, and whether it is out
    tries,          \* i of query_device
    sent,           \* bytes of the program the device has echoed
    rate,           \* the speed it has opened the line with
    devcode,        \* of the device it has found
    area,           \* <<startrom, endrom>>
    pagesize,
    rombuf, enable, \* the image, and the pages that have some of it
    page,           \* i of the loop that writes them
    tx, rx,         \* questions and bytes of answers on the line
    dev, devrate,   \* the device: what it waits for, and its speed
    heard,          \* the bytes it has of what is not complete yet
    burnt,          \* the bytes of a page it has programmed so far
    flash,          \* its ROM
    flips, reruns,  \* bits flipped and runs so far
    fresh,          \* whether this run began with a reset of the device
    warm,           \* whether a run has begun without one
    skipped,        \* whether a record was skipped for its address, in any run
    misheard,       \* whether a run has taken another area or page size than the device's
    scenario        \* does not change

writer == <<pc, asked, tries, sent, rate, devcode, area, pagesize, rombuf, enable, page>>
device == <<dev, devrate, heard, burnt, flash>>
world  == <<flips, reruns, fresh, warm, skipped, misheard, scenario>>
vars   == <<writer, tx, rx, device, world>>

-------------------------------------------------------------------------------
\* Numbers and frames.

CheckSum(q) == LET s[i \in 0..Len(q)] == IF i = 0 THEN 0 ELSE (s[i - 1] + q[i]) % 256
          IN  s[Len(q)]

WithSum(q) == Append(q, (256 - CheckSum(q)) % 256)      \* sum = 0 - sum

\* Four bytes as an int: negative (any is like -1), or the number.
Long(b) == IF b[1] >= 128 THEN -1
           ELSE b[1] * 16777216 + b[2] * 65536 + b[3] * 256 + b[4]
put_long(n) == <<n \div 16777216, (n \div 65536) % 256, (n \div 256) % 256, n % 256>>

\* The bits of a page number: the least k with pagesize <= 2^k.
PageBit(size) == CHOOSE k \in 0..16 : /\ size <= 2^k \/ k = 16
                                      /\ \A l \in 0..(k - 1) : size > 2^l
PageOf(a) == a \div 2^PageBit(pagesize)
InRom(a)  == IF a \in DOMAIN rombuf THEN rombuf[a] ELSE 0

SelectDeviceFrame == WithSum(<<16, Len(devcode)>> \o devcode)
SelectClockFrame  == WithSum(<<17, 1, 0>>)
SetRateFrame      == WithSum(<<63, 7, 0, 192, scenario.freq \div 256, scenario.freq % 256,
                          1, 1, 0>>)

\* Mutant of PageData: the loop over the bytes begins with 1.
PageDataFromOne == [j \in 1..pagesize |-> InRom(page * pagesize + j)]

PageData     == [j \in 1..pagesize |-> InRom(page * pagesize + j - 1)]
PageFrame    == WithSum(<<80>> \o put_long(page * 2^PageBit(pagesize)) \o PageData)
EndFrame     == WithSum(<<80, 255, 255, 255, 255>>)

\* Two bytes stand for the code of bin3048 to bin7045; what the code does is in
\* ProgramByte and Burn.  Its length goes before it.
Program       == <<122, 7>>
TransferBytes == <<Len(Program) \div 256, Len(Program) % 256>> \o Program

Zeros == [i \in 1..(IF scenario.cpu = "3069" THEN BIT_RATE_SET_MAX_3069
                                             ELSE BIT_RATE_SET_MAX) |-> 0]

\* The page number of an older H8 is two questions, each byte of its program one.
Asking == {"rate", "check", "query_device", "select_device", "query_clock", "select_clock",
           "query_scale", "query_freq", "set_rate", "check_rate", "query_area",
           "query_pagesize", "erase", "format", "transfer", "start", "high", "low",
           "page", "end"}
Question(q) ==
    CASE q = "rate"          -> Zeros                   [] q = "check"         -> <<85>>
      [] q = "query_device"  -> <<32>>                  [] q = "select_device" -> SelectDeviceFrame
      [] q = "query_clock"   -> <<33>>                  [] q = "select_clock"  -> SelectClockFrame
      [] q = "query_scale"   -> <<34>>                  [] q = "query_freq"    -> <<35>>
      [] q = "set_rate"      -> SetRateFrame            [] q = "check_rate"    -> <<6>>
      [] q = "query_area"    -> <<37>>                  [] q = "query_pagesize" -> <<39>>
      [] q = "erase"         -> <<64>>                  [] q = "format"        -> <<67>>
      [] q = "transfer"      -> <<TransferBytes[sent + 1]>>
      [] q = "start"         -> <<1>>
      [] q = "high"          -> <<(page \div 256) % 256>>
      [] q = "low"           -> <<page % 256>>
      [] q = "page"          -> IF scenario.cpu = "3069" THEN PageFrame ELSE PageData
      [] q = "end"           -> EndFrame

Ended  == {"successed", "fatal", "overrun"}        \* endrom past the end of rombuf

-------------------------------------------------------------------------------
\* The device, external.

OldFlash  == [a \in 0..RomEnd |-> 0]
Erased    == [a \in 0..RomEnd |-> Blank]
Code3069  == <<51, 48>>
HD64F3069 == <<105>>                               \* the name strncmp looks for
Devices   == <<2, 3, 57, 57, 48, 3>> \o Code3069 \o HD64F3069
Framed(code, data) == WithSum(<<code, Len(data)>> \o data)

\* It is left in state to and sends an answer, or does nothing but answer.
Becomes(to, answer) == dev' = to /\ rx' = rx \o answer
Stays(answer)       == Becomes(dev, answer) /\ UNCHANGED <<devrate, flash>>

\* Before and after it has found the speed of the line.
Matching(q) ==
    /\ UNCHANGED <<devrate, heard, flash>>
    /\ CASE dev = "rate" /\ q = Question("rate") -> Becomes("check", <<0>>)
         [] dev = "rate" /\ q # Question("rate") -> Becomes("rate", <<>>)
         [] dev = "check" /\ q # Question("check") -> Becomes("rate", <<255>>)
         [] OTHER -> IF scenario.cpu = "3069" THEN Becomes("query", <<230>>)
                                              ELSE Becomes("loader", <<170>>)

\* What the boot program of the 3069 tells of itself.
Info == [c \in {32, 33, 34, 35, 37, 39} |->
            CASE c = 32 -> Framed(48, Devices)
              [] c = 33 -> Framed(49, <<1>>)
              [] c = 34 -> Framed(50, <<2, 1, 8>>)
              [] c = 35 -> Framed(51, <<1, 7, 208>>)
              [] c = 37 -> Framed(53, <<1>> \o put_long(0) \o put_long(RomEnd))
              [] c = 39 -> Framed(55, <<PAGE_SIZE \div 256, PAGE_SIZE % 256>>)]

\* The order in which it takes the others, how long they are, and why it refuses
\* one (0: it does not).
Steps == {<<"query", 16, "device">>, <<"device", 17, "clock">>, <<"clock", 63, "rated">>,
          <<"rated", 6, "ready">>,   <<"ready", 64, "erased">>, <<"erased", 67, "program">>}
SizeOf(code)  == CASE code = 16 -> 5 [] code = 17 -> 4 [] code = 63 -> 10 [] OTHER -> 1
Refusal(q) ==
    IF Len(q) > 1 /\ CheckSum(q) # 0 THEN 17
    ELSE IF q[1] = 16 /\ SubSeq(q, 3, 4) # Code3069 THEN 33
    ELSE IF q[1] = 63 /\ q[5] * 256 + q[6] # FREQ THEN 37
    ELSE 0

\* It waits for the rest of a page in vain: only a run after a reset speaks to it
\* again at its speed.
Program128(q) ==
    LET start == Long(SubSeq(q, 2, 5))
    IN  IF q = WithSum(<<80, 255, 255, 255, 255>>)
        THEN Becomes("done", <<6>>) /\ UNCHANGED <<devrate, flash>>
        ELSE IF Len(q) # 6 + PAGE_SIZE THEN Stays(<<>>)
        ELSE IF CheckSum(q) # 0 THEN Stays(<<17>>)
        ELSE IF start \notin 0..RomEnd \/ start % PAGE_SIZE # 0 THEN Stays(<<40>>)
        ELSE /\ flash' = [a \in 0..RomEnd |-> IF a - start \in 0..(PAGE_SIZE - 1)
                                              THEN q[6 + a - start] ELSE flash[a]]
             /\ Becomes(dev, <<6>>) /\ UNCHANGED devrate

\* It takes as many bytes as the code wants, and answers an error for each byte
\* it does not know or does not expect.
Errors(q) == FlattenSeq([i \in 1..Len(q) |-> <<128, q[i]>>])
Query(q) ==
    LET step == {s \in Steps : s[1] = dev /\ s[2] = q[1]}
        n    == SizeOf(q[1])
        f    == SubSeq(q, 1, n)
        rest == SubSeq(q, n + 1, Len(q))
    IN  /\ heard' = IF step # {} /\ Len(q) < n THEN q ELSE <<>>
        /\ CASE q[1] \in DOMAIN Info -> Stays(Info[q[1]] \o Errors(Tail(q)))
             [] dev = "program" /\ q[1] = 80 -> Program128(q)
             [] step # {} /\ Len(q) < n -> Stays(<<>>)
             [] step # {} /\ Len(q) >= n /\ Refusal(f) # 0 ->
                    Stays(<<q[1] + 128, Refusal(f)>> \o Errors(rest))
             [] step # {} /\ Len(q) >= n /\ Refusal(f) = 0 ->
                    /\ Becomes((CHOOSE s \in step : TRUE)[3], <<6>> \o Errors(rest))
                    /\ devrate' = IF q[1] = 63 THEN 19200 ELSE devrate
                    /\ flash'   = IF q[1] = 64 THEN Erased ELSE flash
             [] OTHER -> Stays(Errors(q))

\* The boot mode of an older H8 echoes the length of a program and the program,
\* and starts it.  One with a wrong byte does not answer.
LoaderByte(b) ==
    LET h == Append(heard, b)
    IN  IF Len(h) >= 2 /\ Len(h) - 2 = h[1] * 256 + h[2]
        THEN /\ Becomes(IF SubSeq(h, 3, Len(h)) = Program THEN "loaded" ELSE "lost", <<b, 170>>)
             /\ heard' = <<>> /\ flash' = Erased /\ UNCHANGED devrate
        ELSE Stays(<<b>>) /\ heard' = h

-------------------------------------------------------------------------------
\* The program for the older H8s.

\* It reads a byte, then for each page the two bytes of its number, which it
\* echoes, and the data, byte by byte as they come.
ProgramByte(b) ==
    /\ Len(heard) < 3 + PAGE_SIZE
    /\ heard' = Append(heard, b) /\ Stays(IF Len(heard) < 3 THEN <<b>> ELSE <<>>)

\* Programming clears bits and sets none.
Common(c, d, k) == IF (c \div 2^k) % 2 = 1 /\ (d \div 2^k) % 2 = 1 THEN 2^k ELSE 0
And(c, d) == Common(c, d, 0) + Common(c, d, 1) + Common(c, d, 2) + Common(c, d, 3)
             + Common(c, d, 4) + Common(c, d, 5) + Common(c, d, 6) + Common(c, d, 7)

\* Then it programs a byte at a time and, if the first byte was 1, shows what the
\* ROM has now; at the end of the page an S, or an F if a byte is not what it
\* should be.
PageAt    == (heard[2] * 256 + heard[3]) * PAGE_SIZE
Shown(a)  == IF a \in 0..RomEnd THEN flash'[a] ELSE Blank
PageOk    == \A j \in 1..PAGE_SIZE : /\ PageAt + j - 1 \in 0..RomEnd
                                     /\ flash'[PageAt + j - 1] = heard[3 + j]
Burn ==
    LET a    == PageAt + burnt
        last == burnt + 1 = PAGE_SIZE
    IN  /\ dev = "loaded" /\ Len(heard) = 3 + PAGE_SIZE
        /\ flash' = [b \in 0..RomEnd |-> IF b = a THEN And(flash[b], heard[4 + burnt])
                                                  ELSE flash[b]]
        /\ Becomes(dev, (IF heard[1] = 1 THEN <<Shown(a)>> ELSE <<>>)
                        \o (IF ~last THEN <<>> ELSE IF PageOk THEN <<83>> ELSE <<70>>))
        /\ burnt' = IF last THEN 0 ELSE burnt + 1
        /\ heard' = IF last THEN <<heard[1]>> ELSE heard
        /\ UNCHANGED <<writer, tx, devrate, world>>

-------------------------------------------------------------------------------
\* The 3069 takes what the writer sends before it waits, an older H8 byte by byte.
\* At the wrong speed nothing that arrives makes sense to it.
ByteTaken == tx' = IF Len(Head(tx)) = 1 THEN Tail(tx) ELSE <<Tail(Head(tx))>> \o Tail(tx)
DeviceAnswers ==
    /\ tx # <<>>
    /\ \/ dev \in {"rate", "check"} /\ Matching(Head(tx)) /\ tx' = Tail(tx)
       \/ dev = "loader" /\ LoaderByte(tx[1][1]) /\ ByteTaken
       \/ dev = "loaded" /\ ProgramByte(tx[1][1]) /\ ByteTaken
       \/ dev = "lost" /\ Stays(<<>>) /\ ByteTaken /\ UNCHANGED heard
       \/ /\ dev \notin {"rate", "check", "loader", "loaded", "lost"} /\ tx' = Tail(tx)
          /\ IF devrate = rate THEN Query(heard \o Head(tx)) ELSE Stays(<<>>) /\ UNCHANGED heard
    /\ UNCHANGED <<writer, burnt, world>>

Device == DeviceAnswers \/ Burn

\* The line flips a bit of what is on it.
Flip(c, k) == IF (c \div 2^k) % 2 = 0 THEN c + 2^k ELSE c - 2^k
Flipped(q) == {[q EXCEPT ![i] = Flip(@, k)] : i \in 1..Len(q), k \in 0..7}
LineFlips ==
    /\ flips < MAX_FLIPS /\ flips' = flips + 1
    /\ \/ "rx" \in scenario.flips /\ rx' \in Flipped(rx) /\ UNCHANGED tx
       \/ /\ "tx" \in scenario.flips /\ tx # <<>>
          /\ \E q \in Flipped(Head(tx)) : tx' = <<q>> \o Tail(tx)
          /\ UNCHANGED rx
    /\ UNCHANGED <<writer, device, reruns, fresh, warm, skipped, misheard, scenario>>

-------------------------------------------------------------------------------
\* The writer.

\* putbyte and writecom, up to the next getbyte.
Ask ==
    /\ pc \in Asking /\ ~asked
    /\ asked' = TRUE /\ tx' = Append(tx, Question(pc))
    /\ UNCHANGED <<pc, tries, sent, rate, devcode, area, pagesize, rombuf, enable, page,
                   rx, device, world>>

\* getbyte returns k bytes; it blocks until they have arrived.
Got(k)   == asked /\ Len(rx) >= k
Took(k)  == rx' = SubSeq(rx, k + 1, Len(rx))
Goto(to) == pc' = to /\ asked' = FALSE
Rest     == UNCHANGED <<tx, device, flips, reruns, fresh, warm, scenario>>

\* bytecheck and the other FATAL errors end the program.
Check(ok, to) == Goto(IF ok THEN to ELSE "fatal")

\* One byte is the whole answer: simple_command, and the check of the speed.
Simple(q, byte, to) ==
    /\ pc = q /\ Got(1) /\ Check(rx[1] = byte, to) /\ Took(1)
    /\ UNCHANGED <<tries, sent, rate, devcode, area, pagesize, rombuf, enable, page, skipped, misheard>>
    /\ Rest

\* A row of zeros is answered with a zero, or with an error by a device that is
\* in query mode already: that is a WARNING.
SetBitRate ==
    /\ pc = "rate" /\ Got(1)
    /\ \/ rx[1] = 0 /\ Goto("check") /\ Took(1)
       \/ rx[1] # 0 /\ (rx[1] # 128 \/ scenario.cpu # "3069") /\ Goto("fatal") /\ Took(1)
       \/ rx[1] = 128 /\ scenario.cpu = "3069" /\ Got(2) /\ Goto("query_device") /\ Took(2)
    /\ UNCHANGED <<tries, sent, rate, devcode, area, pagesize, rombuf, enable, page, skipped, misheard>>
    /\ Rest

CheckBitRate == IF scenario.cpu = "3069" THEN Simple("check", 230, "query_device")
                                         ELSE Simple("check", 170, "transfer")

\* A framed answer: its code, its size, that many bytes and the sum of it all.
\* query_freq reads a number of frequencies even if there is no room for it.
FrameLen == IF pc = "query_freq" /\ rx[2] = 0 THEN 4 ELSE 3 + rx[2]
Frame    == SubSeq(rx, 1, FrameLen)
ReadFrame(q, code, to) ==
    /\ pc = q /\ Got(1)
    /\ IF rx[1] # code THEN Goto("fatal") /\ Took(1)
       ELSE Got(3) /\ Got(FrameLen) /\ Check(CheckSum(Frame) = 0, to) /\ Took(FrameLen)
    /\ Rest

\* The positions of the devices in the list, and the code of the first one with
\* the name of the 3069.
Entries(q) == LET at[k \in 1..q[3]] ==
                    IF k = 1 THEN 4
                    ELSE LET i == at[k - 1]
                         IN  IF i \in 1..Len(q) THEN i + 1 + q[i] ELSE i
              IN  {at[k] : k \in 1..q[3]}
Is3069(q, i) == SubSeq(q, i + 3, i + 2 + Len(HD64F3069)) = HD64F3069
Found(q) == {i \in Entries(q) \cap (1..(Len(q) - 2 - Len(HD64F3069))) : Is3069(q, i)}
CodeIn(q) == LET first == CHOOSE i \in Found(q) : \A j \in Found(q) : i <= j
             IN  SubSeq(q, first + 1, first + 2)

QueryDevice ==
    /\ pc = "query_device" /\ Got(1)
    /\ \/ /\ rx[1] = 48 /\ Got(3) /\ Got(FrameLen) /\ Took(FrameLen)
          /\ IF CheckSum(Frame) = 0 /\ Found(Frame) # {}
             THEN Goto("select_device") /\ devcode' = CodeIn(Frame)
             ELSE Goto("fatal") /\ UNCHANGED devcode
          /\ UNCHANGED tries
       \/ /\ rx[1] = 128 /\ Got(2) /\ Took(2)
          /\ tries' = tries + 1
          /\ Goto(IF tries + 1 = TRIES THEN "fatal" ELSE "query_device")
          /\ UNCHANGED devcode
       \/ /\ rx[1] \notin {48, 128} /\ Took(1) /\ Goto("fatal")
          /\ UNCHANGED <<tries, devcode>>
    /\ UNCHANGED <<sent, rate, area, pagesize, rombuf, enable, page, skipped, misheard>>
    /\ Rest

SelectDevice == Simple("select_device", 6, "query_clock")
SelectClock  == Simple("select_clock", 6, "query_scale")

Query3(q, code, to) ==
    /\ ReadFrame(q, code, to)
    /\ UNCHANGED <<tries, sent, rate, devcode, area, pagesize, rombuf, enable, page, skipped, misheard>>
QueryClock == Query3("query_clock", 49, "select_clock")
QueryScale == Query3("query_scale", 50, "query_freq")
QueryFreq  == Query3("query_freq", 51, "set_rate")

\* Mutant of SetRate: the line is not opened again.
SetRateKeepsLine == Simple("set_rate", 6, "check_rate")

\* Then the line is closed and opened again at the new speed.
SetRate ==
    /\ pc = "set_rate" /\ Got(1) /\ Check(rx[1] = 6, "check_rate") /\ Took(1)
    /\ rate' = IF rx[1] = 6 THEN 19200 ELSE rate
    /\ UNCHANGED <<tries, sent, devcode, area, pagesize, rombuf, enable, page, skipped, misheard>>
    /\ Rest

CheckRate == Simple("check_rate", 6, "query_area")

\* The sum of this answer is read and not looked at.  A short one leaves bytes of
\* the area uninitialised: it may come out as nothing, as the ROM, or too large.
QueryArea ==
    /\ pc = "query_area" /\ Got(1)
    /\ IF rx[1] # 53 THEN Goto("fatal") /\ Took(1) /\ UNCHANGED area
       ELSE /\ Got(3) /\ Got(FrameLen) /\ Took(FrameLen) /\ Goto("query_pagesize")
            /\ IF FrameLen < 12
               THEN area' \in {-1, 0, ROMBUF_SIZE} \X {-1, 0, RomEnd, ROMBUF_SIZE}
               ELSE area' = <<Long(SubSeq(rx, 4, 7)), Long(SubSeq(rx, 8, 11))>>
    /\ misheard' = (misheard \/ (pc' = "query_pagesize" /\ area' # <<0, RomEnd>>))
    /\ UNCHANGED <<tries, sent, rate, devcode, pagesize, rombuf, enable, page, skipped>>
    /\ Rest

\* Mutant of QueryPagesize: the sum of this answer is not looked at either.
QueryPagesizeUnchecked ==
    /\ pc = "query_pagesize" /\ Got(5) /\ Got(FrameLen) /\ Took(FrameLen)
    /\ Check(rx[1] = 55, "erase")
    /\ pagesize' = rx[3] * 256 + rx[4]
    /\ misheard' = (misheard \/ (pc' = "erase" /\ pagesize' # PAGE_SIZE))
    /\ UNCHANGED <<tries, sent, rate, devcode, area, rombuf, enable, page, skipped>>
    /\ Rest

\* A short one leaves the size uninitialised.
QueryPagesize ==
    /\ ReadFrame("query_pagesize", 55, "erase")
    /\ pagesize' \in IF pc' # "erase" THEN {pagesize}
                     ELSE IF rx[2] < 2 THEN {0, PAGE_SIZE, 65535}
                     ELSE {rx[3] * 256 + rx[4]}
    /\ misheard' = (misheard \/ (pc' = "erase" /\ pagesize' # PAGE_SIZE))
    /\ UNCHANGED <<tries, sent, rate, devcode, area, rombuf, enable, page, skipped>>

Erase  == Simple("erase", 6, "format")
Format == Simple("format", 6, "read")

\* The echo of each byte is read and not looked at; after the last the device has
\* more to say.
Transfer ==
    /\ pc = "transfer"
    /\ IF sent + 1 < Len(TransferBytes)
       THEN Got(1) /\ Took(1) /\ Goto("transfer") /\ sent' = sent + 1
       ELSE Got(2) /\ Took(2) /\ Check(rx[2] = 170, "read") /\ UNCHANGED sent
    /\ UNCHANGED <<tries, rate, devcode, area, pagesize, rombuf, enable, page, skipped, misheard>>
    /\ Rest

\* The lines the loop over the S file sees: feof is true already after a last
\* line without a newline.
Lines == IF scenario.newline \/ scenario.file = <<>> THEN scenario.file ELSE Front(scenario.file)

\* The bytes of a record go over what was there.
Over(rom, r) == [a \in DOMAIN rom |-> IF a - r.addr \in 0..(Len(r.data) - 1)
                                      THEN r.data[a - r.addr + 1] ELSE rom[a]]

\* Mutant of Store: the page of a record is that of its first byte.
StoreFirstPage(image, r) ==
    IF r.type \notin 1..3 THEN image
    ELSE IF r.addr < area[1] \/ r.addr + Len(r.data) > area[2]
         THEN [image EXCEPT !.skipped = TRUE]
    ELSE [image EXCEPT
            !.rom   = Over(@, r),
            !.pages = @ \cup {PageOf(r.addr)}]

\* Mutant of Store: nobody looks whether the record ends in the ROM.
StoreUnchecked(image, r) ==
    IF r.type \notin 1..3 THEN image
    ELSE IF r.addr < area[1] THEN [image EXCEPT !.skipped = TRUE]
    ELSE [image EXCEPT
            !.rom   = Over(@, r),
            !.pages = @ \cup {PageOf(r.addr + i) : i \in 0..(Len(r.data) - 1)}]

\* One line of the S file: other records are skipped with a WARNING, and so is
\* one that is taken to be out of range.
Store(image, r) ==
    IF r.type \notin 1..3 THEN image
    ELSE IF r.addr < area[1] \/ r.addr + Len(r.data) > area[2]
         THEN [image EXCEPT !.skipped = TRUE]
    ELSE [image EXCEPT
            !.rom   = Over(@, r),
            !.pages = @ \cup {PageOf(r.addr + i) : i \in 0..(Len(r.data) - 1)}]

\* The next page of the loop; after the last, the 3069 is told so.
LoopFrom(from, pages) ==
    LET rest == {p \in pages : p >= from}
    IN  IF rest # {} THEN /\ Goto(IF scenario.cpu = "3069" THEN "page" ELSE "high")
                          /\ page' = CHOOSE p \in rest : \A q \in rest : p <= q
        ELSE Goto(IF scenario.cpu = "3069" THEN "end" ELSE "successed") /\ page' = from

\* The image after the first n lines.
Cleared == [rom |-> [a \in 0..area[2] |-> Blank], pages |-> {}, skipped |-> skipped]
ImageOf(n) ==
    LET after[i \in 0..n] == IF i = 0 THEN Cleared ELSE Store(after[i - 1], Lines[i])
    IN  after[n]

\* The file is opened only now.  The buffers are static: an endrom past their
\* end makes the loops that fill them run over what follows.
Overruns == area[2] > RomEnd \/ PageOf(area[2]) >= ENABLE_SIZE
ReadFile ==
    LET image == ImageOf(Len(Lines))
    IN  /\ pc = "read"
        /\ IF ~scenario.readable \/ Overruns
           THEN /\ Goto(IF scenario.readable THEN "overrun" ELSE "fatal")
                /\ UNCHANGED <<rombuf, enable, page, skipped>>
           ELSE /\ rombuf' = image.rom /\ enable' = image.pages
                /\ skipped' = image.skipped
                /\ IF scenario.cpu = "3069" THEN LoopFrom(0, enable')
                                            ELSE Goto("start") /\ UNCHANGED page
        /\ UNCHANGED <<tries, sent, rate, devcode, area, pagesize, rx, misheard>>
        /\ Rest

Start ==
    /\ pc = "start" /\ Got(1) /\ Took(1)
    /\ IF rx[1] = 1 THEN LoopFrom(0, enable) ELSE Goto("fatal") /\ UNCHANGED page
    /\ UNCHANGED <<tries, sent, rate, devcode, area, pagesize, rombuf, enable, skipped, misheard>>
    /\ Rest

\* The echoes of the page number are not looked at.
NumberTold(q, to) ==
    /\ pc = q /\ Got(1) /\ Took(1) /\ Goto(to)
    /\ UNCHANGED <<tries, sent, rate, devcode, area, pagesize, rombuf, enable, page, skipped, misheard>>
    /\ Rest
PageHigh == NumberTold("high", "low")
PageLow  == NumberTold("low", "page")

\* Mutant of PageWritten: the answer of the device is not waited for.
PageWrittenEarly ==
    /\ pc = "page" /\ asked
    /\ LoopFrom(page + 1, enable) /\ UNCHANGED rx
    /\ UNCHANGED <<tries, sent, rate, devcode, area, pagesize, rombuf, enable, skipped, misheard>>
    /\ Rest

\* An older H8 shows the page before it answers; what it shows is only displayed.
PageWritten ==
    LET n  == IF scenario.cpu = "3069" THEN 1 ELSE pagesize + 1
        ok == IF scenario.cpu = "3069" THEN 6 ELSE 83
    IN  /\ pc = "page" /\ Got(n) /\ Took(n)
        /\ IF rx[n] = ok THEN LoopFrom(page + 1, enable) ELSE Goto("fatal") /\ UNCHANGED page
        /\ UNCHANGED <<tries, sent, rate, devcode, area, pagesize, rombuf, enable, skipped, misheard>>
        /\ Rest

End == Simple("end", 6, "successed")

-------------------------------------------------------------------------------
\* main up to the first question, with what switch(cpuid) sets: the 3069 has not
\* been asked for its area yet.  The options and the file are in scenario.
StartArea == IF scenario.cpu = "3069" THEN <<0, -1>> ELSE <<0, RomEnd>>
StartSize == IF scenario.cpu = "3069" THEN 256 ELSE PAGE_SIZE

Init ==
    /\ scenario \in Scenario
    /\ pc = "rate" /\ asked = FALSE /\ tries = 0 /\ sent = 0 /\ rate = 9600 /\ devcode = <<>>
    /\ area = StartArea /\ pagesize = StartSize /\ rombuf = <<>> /\ enable = {} /\ page = 0
    /\ tx = <<>> /\ rx = <<>>
    /\ dev = "rate" /\ devrate = 9600 /\ heard = <<>> /\ burnt = 0 /\ flash = OldFlash
    /\ flips = 0 /\ reruns = 0 /\ fresh = TRUE /\ warm = FALSE
    /\ skipped = FALSE /\ misheard = FALSE

\* What is left on the line when the writer is stopped: a question of which all,
\* nothing or only the first bytes have gone out.
LeftOnLine ==
    IF ~asked \/ tx = <<>> THEN {tx}
    ELSE {Front(tx)} \cup {Append(Front(tx), SubSeq(Last(tx), 1, k)) : k \in 1..Len(Last(tx))}

\* The user stops the writer, or sees it end, and runs it again, with or without
\* a reset of the device.
Rerun ==
    /\ reruns < scenario.reruns /\ reruns' = reruns + 1
    /\ Goto("rate") /\ tries' = 0 /\ sent' = 0 /\ rate' = 9600 /\ devcode' = <<>>
    /\ area' = StartArea /\ pagesize' = StartSize /\ rombuf' = <<>> /\ enable' = {} /\ page' = 0
    /\ rx' = <<>>
    /\ \/ /\ fresh' = TRUE /\ dev' = "rate" /\ devrate' = 9600 /\ tx' = <<>>
          /\ heard' = <<>> /\ burnt' = 0 /\ UNCHANGED warm
       \/ /\ fresh' = FALSE /\ warm' = TRUE /\ tx' \in LeftOnLine
          /\ UNCHANGED <<dev, devrate, heard, burnt>>
    /\ UNCHANGED <<flash, flips, skipped, misheard, scenario>>

Answer == \/ SetBitRate \/ CheckBitRate \/ QueryDevice \/ SelectDevice \/ QueryClock
          \/ SelectClock \/ QueryScale \/ QueryFreq \/ SetRate \/ CheckRate \/ QueryArea
          \/ QueryPagesize \/ Erase \/ Format \/ Transfer \/ Start \/ PageHigh
          \/ PageLow \/ PageWritten \/ End
Writer == Ask \/ Answer \/ ReadFile

Next == Writer \/ Device \/ LineFlips \/ Rerun
Spec == Init /\ [][Next]_vars

\* The writer and the device go on; nobody owes a flip or another run.
FairSpec == Spec /\ WF_vars(Writer) /\ WF_vars(Device)

===============================================================================
