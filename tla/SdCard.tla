------------------------------- MODULE SdCard -------------------------------
(***************************************************************************)
(* The SD/MMC driver of fatfs/user_config/sdcard.c: the five MMC_disk_*    *)
(* entry points FatFs calls, the SD_* functions below them, and the two    *)
(* software timers that bound every wait, which disk_timerproc runs down   *)
(* from the task sdTimerSupport of main_ex_sdcard.c.                       *)
(*                                                                         *)
(* One step of the driver is one SPI exchange together with the local code *)
(* up to the next access to a timer; the timer procedure runs in between.  *)
(* A poll that neither succeeds nor finds its timer at zero changes        *)
(* nothing and is no step.  The card on the other side of the bus is       *)
(* hardware: it may be slow, refuse a command, lose an answer or be        *)
(* pulled out, within what the SPI mode of the SD specification allows.    *)
(***************************************************************************)
EXTENDS Naturals, Sequences

CONSTANTS
    Kinds,          \* kinds of card that may be inserted
    MaxCount,       \* bound: sectors in one request
    MaxRemovals,    \* bound: times the card is pulled out
    ReadyTicks, InitTicks, ReadTicks, WriteTicks    \* the armed values: 50, 100, 10, 20

ASSUME SdAssumption ==
    /\ Kinds \subseteq {"MMC", "SDV1", "SDV2_SC", "SDV2_HC"}
    /\ MaxCount \in Nat \ {0}
    /\ MaxRemovals \in Nat
    /\ \A t \in {ReadyTicks, InitTicks, ReadTicks, WriteTicks} : t \in Nat \ {0}

VARIABLES
    noinit,         \* STA_NOINIT of status
    CardType,
    cs,             \* the card is selected
    pc, polling,    \* the call the driver is in, and whether it is past its prologue
    op, req, cnt,   \* the request, its sector count, the sectors left
    res,            \* result of the last request, none while one is on
    data,           \* read: the card's block that reached each sector of buff
    Timer1, Timer2,
    tpc, n,         \* disk_timerproc: program counter and local
    limit1, age1, age2,     \* history: value Timer1 was armed with, calls of
                            \* disk_timerproc each timer has seen since
    hit1, hit2,     \* history: the timer was armed between load and store
    card            \* the hardware

driver == <<noinit, CardType, cs, pc, polling, op, req, cnt, res, data>>
timers == <<Timer1, Timer2, limit1, age1, age2, hit1, hit2>>
vars == <<driver, timers, tpc, n, card>>

\* Results of SD_SendCommand: R1 0x00 and 0x01, 0x01 with a wrong echo of
\* CMD8's argument, R1 with the illegal-command bit, any other R1, and the
\* driver's own codes 0x81 and 0x82.
R1 == {"ok", "idle", "mismatch", "illegal", "error", "notready", "timeout"}

Commands == {"GO_IDLE_STATE", "SEND_IF_COND", "APP_41", "SD_SEND_OP_COND",
             "READ_OCR", "APP_CMD", "SEND_OP_COND", "APP_41_V1", "SD_SEND_OP_COND_V1",
             "SET_BLOCKLEN", "CFG_OCR", "SEND_CID", "SEND_CSD", "APP_13", "SD_STATUS",
             "READ_SINGLE", "READ_MULTIPLE", "STOP_TRANSMISSION",
             "WRITE_SINGLE", "WRITE_MULTIPLE"}
\* The commands of SD_Init: CardType is a guess until they are through.
Guessing == {"GO_IDLE_STATE", "SEND_IF_COND", "APP_41", "SD_SEND_OP_COND", "READ_OCR", "APP_CMD",
             "SEND_OP_COND", "APP_41_V1", "SD_SEND_OP_COND_V1", "SET_BLOCKLEN"}
Receives == {"CID_DATA", "CSD_DATA", "STATUS_DATA", "READ_DATA"}
Sends == {"WRITE_DATA"}
Waits == {"SYNC_WAIT", "READ_WAIT", "WRITE_WAIT"}

\* stored is history: the blocks a card accepted in the request that is on.
NoCard == [kind |-> "none", mode |-> "native", xfer |-> "none", stored |-> <<>>,
           busy |-> FALSE, removals |-> 0]

Init ==
    /\ noinit = TRUE /\ CardType = "UNKNOWN" /\ cs = FALSE
    /\ pc = "idle" /\ polling = FALSE
    /\ op = "none" /\ req = 0 /\ cnt = 0 /\ res = "none" /\ data = <<>>
    /\ Timer1 = 0 /\ Timer2 = 0 /\ limit1 = 0 /\ age1 = 0 /\ age2 = ReadyTicks
    /\ hit1 = FALSE /\ hit2 = FALSE
    /\ tpc = "read1" /\ n = 0
    /\ card \in {[NoCard EXCEPT !.kind = k] : k \in Kinds \cup {"none"}}
-----------------------------------------------------------------------------
(* Timers *)

ArmTimer1(v) ==
    /\ Timer1' = v /\ limit1' = v /\ age1' = 0
    /\ hit1' = (tpc = "write1")
    /\ UNCHANGED <<Timer2, age2, hit2>>

ArmTimer2 ==
    /\ Timer2' = ReadyTicks /\ age2' = 0
    /\ hit2' = (tpc = "write2")
    /\ UNCHANGED <<Timer1, limit1, age1, hit1>>

older(age, limit) == IF age < limit THEN age + 1 ELSE age
pred(k) == IF k = 0 THEN 0 ELSE k - 1

\* disk_timerproc in sdTimerSupport: a load and a store for each timer, with
\* the driver's task running between any two of them.
TimerRead1 ==
    /\ tpc = "read1"
    /\ n' = Timer1 /\ tpc' = "write1"
    /\ age1' = older(age1, limit1)
    /\ UNCHANGED <<driver, Timer1, Timer2, limit1, age2, hit1, hit2, card>>

TimerWrite1 ==
    /\ tpc = "write1"
    /\ Timer1' = IF n = 0 THEN Timer1 ELSE n - 1
    /\ tpc' = "read2"
    /\ UNCHANGED <<driver, n, Timer2, limit1, age1, age2, hit1, hit2, card>>

TimerRead2 ==
    /\ tpc = "read2"
    /\ n' = Timer2 /\ tpc' = "write2"
    /\ age2' = older(age2, ReadyTicks)
    /\ UNCHANGED <<driver, Timer1, Timer2, limit1, age1, hit1, hit2, card>>

\* Mutant: Timer2 is not run down.
TimerWrite2_lost ==
    /\ tpc = "write2"
    /\ tpc' = "read1" /\ n' = 0
    /\ UNCHANGED <<driver, timers, card>>

TimerWrite2 ==
    /\ tpc = "write2"
    /\ Timer2' = IF n = 0 THEN Timer2 ELSE n - 1
    /\ tpc' = "read1" /\ n' = 0
    /\ UNCHANGED <<driver, Timer1, limit1, age1, age2, hit1, hit2, card>>

disk_timerproc == TimerRead1 \/ TimerWrite1 \/ TimerRead2 \/ TimerWrite2
-----------------------------------------------------------------------------
(* The card *)

Present == card.kind /= "none"
Standard == {"MMC", "SDV1", "SDV2_SC"}  \* byte addresses, the others sectors

AppCommands == {"APP_41", "APP_CMD", "APP_41_V1", "APP_13"}
OpConds == {"SD_SEND_OP_COND", "SEND_OP_COND", "SD_SEND_OP_COND_V1"}

\* What a card that hears command m may answer.
Answers(m) ==
    {"timeout"} \cup
    IF ~Present \/ (m /= "GO_IDLE_STATE" /\ card.mode = "native") THEN {}
    ELSE CASE m = "GO_IDLE_STATE" -> {"idle"}
           [] m = "SEND_IF_COND" ->
                IF card.kind \in {"SDV2_SC", "SDV2_HC"} THEN {"idle", "mismatch"} ELSE {"illegal"}
           [] m \in AppCommands ->
                IF card.kind = "MMC" THEN {"illegal"} ELSE IF card.mode = "idle" THEN {"idle"} ELSE {"ok"}
           [] m \in OpConds -> IF card.mode = "idle" THEN {"idle", "ok"} ELSE {"ok"}
           [] OTHER -> IF card.mode = "ready" THEN {"ok", "error"}
                       ELSE IF m \in {"READ_OCR", "CFG_OCR"} THEN {"idle"} ELSE {"illegal"}

\* What the command changes in a card that answers r.
Obeys(m, r) ==
    CASE m = "GO_IDLE_STATE" /\ r = "idle" ->
            [card EXCEPT !.mode = "idle", !.xfer = "none", !.busy = FALSE]
      [] m \in OpConds /\ r = "ok" -> [card EXCEPT !.mode = "ready"]
      [] m \in {"READ_SINGLE", "READ_MULTIPLE"} /\ r = "ok" -> [card EXCEPT !.xfer = "read"]
      [] m \in {"WRITE_SINGLE", "WRITE_MULTIPLE"} /\ r = "ok" ->
            [card EXCEPT !.xfer = "write", !.stored = <<>>]
      [] m = "STOP_TRANSMISSION" /\ r = "ok" -> [card EXCEPT !.xfer = "none"]
      [] OTHER -> card

\* A busy card answers a poll when it has programmed its block.
Settles == card' = [card EXCEPT !.busy = FALSE]
MayBeBusy == Present    \* without a card the line floats high and reads 0xFF

Remove ==
    /\ Present /\ card.removals < MaxRemovals
    /\ card' = [NoCard EXCEPT !.removals = card.removals + 1, !.stored = card.stored]
    /\ UNCHANGED <<driver, timers, tpc, n>>

Insert ==
    /\ ~Present
    /\ \E k \in Kinds : card' = [card EXCEPT !.kind = k]
    /\ UNCHANGED <<driver, timers, tpc, n>>
-----------------------------------------------------------------------------
(* Control flow of the driver *)

Goto(l) == pc' = l /\ polling' = FALSE

\* The request returns to FatFs with the card de-selected.
Return(r) ==
    /\ Goto("idle")
    /\ res' = r
    /\ cs' = FALSE

\* init_end of SD_Init: an unknown card ends the request, a known one is asked
\* for its configuration.  MMC_disk_initialize returns status, of which a
\* failure changes nothing.
InitEnd(type) ==
    /\ CardType' = type
    /\ IF type = "UNKNOWN"
       THEN Return(IF noinit THEN "NOINIT" ELSE "OK")
       ELSE Goto("CFG_OCR") /\ cs' = FALSE /\ UNCHANGED res
    /\ UNCHANGED <<noinit, op, req, cnt, data>>

\* The call goes on to l with the card still selected.
Continue(l) == Goto(l) /\ UNCHANGED <<noinit, CardType, cs, op, req, cnt, res, data>>

\* end of SD_ReadConfiguration.
ConfigEnd(ok) ==
    /\ noinit' = (noinit /\ ~ok)
    /\ Return(IF noinit' THEN "NOINIT" ELSE "OK")
    /\ UNCHANGED <<CardType, op, req, cnt, data>>

\* Mutant: the transfer returns without de-selecting the card.
TransferEnd_selected(flag) ==
    /\ Goto("idle")
    /\ res' = IF flag THEN "OK" ELSE "ERROR"
    /\ UNCHANGED <<noinit, CardType, cs, op, req, cnt, data>>

\* End of SD_ReadSector and SD_WriteSector.
TransferEnd(flag) ==
    /\ Return(IF flag THEN "OK" ELSE "ERROR")
    /\ UNCHANGED <<noinit, CardType, op, req, cnt, data>>

BlockLen(type) == /\ CardType' = type
                  /\ Goto("SET_BLOCKLEN")
                  /\ UNCHANGED <<noinit, cs, op, req, cnt, res, data>>

\* while (Timer1 && ...) of the MMC and SDV1 branches, then the test behind it.
LoopV1(type, l, done) ==
    IF Timer1 = 0 THEN InitEnd("UNKNOWN")
    ELSE IF done THEN BlockLen(type)
    ELSE /\ CardType' = type
         /\ Goto(l)
         /\ UNCHANGED <<noinit, cs, op, req, cnt, res, data>>

\* Steps of SD_Init by the command just answered.  CardType is UNKNOWN until
\* the branch that fixes it.
AfterInitCommand(r) ==
    CASE pc = "GO_IDLE_STATE" -> IF r = "idle" THEN Continue("SEND_IF_COND") ELSE InitEnd(CardType)
      [] pc = "SEND_IF_COND" ->
            IF r \in {"notready", "timeout", "mismatch"} THEN InitEnd(CardType)
            ELSE IF r = "idle" THEN Continue("APP_41") ELSE Continue("APP_CMD")
      [] pc = "APP_41" -> IF r \in {"ok", "idle"} THEN Continue("SD_SEND_OP_COND") ELSE InitEnd(CardType)
      [] pc = "SD_SEND_OP_COND" ->
            IF Timer1 = 0 \/ r \notin {"ok", "idle"} THEN InitEnd(CardType)
            ELSE Continue(IF r = "ok" THEN "READ_OCR" ELSE "APP_41")
      [] pc = "READ_OCR" ->
            IF r /= "ok" THEN InitEnd(CardType)
            ELSE IF card.kind = "SDV2_HC" THEN InitEnd("SDV2_HC") ELSE BlockLen("SDV2_SC")
      [] pc = "APP_CMD" -> IF r = "illegal" THEN LoopV1("MMC", "SEND_OP_COND", FALSE)
                           ELSE LoopV1("SDV1", "APP_41_V1", FALSE)
      [] pc = "SEND_OP_COND" -> LoopV1("MMC", "SEND_OP_COND", r = "ok")
      [] pc = "APP_41_V1" -> IF r \in {"ok", "idle"} THEN Continue("SD_SEND_OP_COND_V1")
                             ELSE LoopV1("SDV1", "APP_41_V1", FALSE)
      [] pc = "SD_SEND_OP_COND_V1" -> LoopV1("SDV1", "APP_41_V1", r = "ok")
      [] pc = "SET_BLOCKLEN" -> InitEnd(IF r = "ok" THEN CardType ELSE "UNKNOWN")

AfterConfigCommand(r) ==
    CASE pc = "CFG_OCR" -> IF r = "ok" THEN Continue("SEND_CID") ELSE ConfigEnd(FALSE)
      [] pc = "SEND_CID" -> IF r = "ok" THEN Continue("CID_DATA") ELSE ConfigEnd(FALSE)
      [] pc = "SEND_CSD" -> IF r = "ok" THEN Continue("CSD_DATA") ELSE ConfigEnd(FALSE)
      [] pc = "APP_13" -> IF r \in {"ok", "idle"} THEN Continue("SD_STATUS") ELSE ConfigEnd(FALSE)
      [] pc = "SD_STATUS" -> IF r = "ok" THEN Continue("STATUS_DATA") ELSE ConfigEnd(FALSE)

AfterTransferCommand(r) ==
    CASE pc \in {"READ_SINGLE", "READ_MULTIPLE"} ->
            IF r = "ok" THEN Continue("READ_DATA") ELSE TransferEnd(FALSE)
      [] pc \in {"WRITE_SINGLE", "WRITE_MULTIPLE"} ->
            IF r = "ok" THEN Continue("WRITE_DATA") ELSE TransferEnd(FALSE)
      [] pc = "STOP_TRANSMISSION" -> Continue("READ_WAIT")    \* its result is not looked at

AfterCommand(r) ==
    IF op /= "initialize" THEN AfterTransferCommand(r)
    ELSE IF pc \in {"CFG_OCR", "SEND_CID", "SEND_CSD", "APP_13", "SD_STATUS"}
    THEN AfterConfigCommand(r) ELSE AfterInitCommand(r)
-----------------------------------------------------------------------------
(* The functions of the driver *)

\* Mutant: the wait starts with what is left in Timer2.
WaitForReady_unarmed ==
    /\ pc \in Commands \cup Waits /\ ~polling
    /\ age2' = 0 /\ UNCHANGED <<Timer1, Timer2, limit1, age1, hit1, hit2>>
    /\ polling' = TRUE
    /\ cs' = TRUE
    /\ UNCHANGED <<noinit, CardType, pc, op, req, cnt, res, data, tpc, n, card>>

\* Prologue of SD_WaitForReady, called by SD_SendCommand (which selects the
\* card first), by CTRL_SYNC (likewise), and by the two multi-sector transfers.
WaitForReady ==
    /\ pc \in Commands \cup Waits /\ ~polling
    /\ ArmTimer2
    /\ polling' = TRUE
    /\ cs' = TRUE
    /\ UNCHANGED <<noinit, CardType, pc, op, req, cnt, res, data, tpc, n, card>>

\* SD_SendCommand: 0xFF was read, the command is sent and answered.  SD_Init
\* arms Timer1 once the answer to CMD8 is not a driver code.
SD_SendCommand ==
    /\ pc \in Commands /\ polling
    /\ \E r \in Answers(pc) :
        /\ card' = [Obeys(pc, r) EXCEPT !.busy = FALSE]
        /\ AfterCommand(r)
        /\ IF pc = "SEND_IF_COND" /\ r /= "timeout" THEN ArmTimer1(InitTicks)
           ELSE UNCHANGED timers
    /\ UNCHANGED <<tpc, n>>

\* SD_SendCommand: the card stayed busy until Timer2 ran out, result 0x81.
SendCommandNotReady ==
    /\ pc \in Commands /\ polling
    /\ MayBeBusy /\ Timer2 = 0
    /\ AfterCommand("notready")
    /\ UNCHANGED <<timers, tpc, n, card>>

\* Mutant: the sectors left are not looked at.
AfterWait_anyCount(ready) == TransferEnd(ready)

\* The callers of SD_WaitForReady.
AfterWait(ready) ==
    IF pc = "SYNC_WAIT" THEN TransferEnd(ready) ELSE TransferEnd(ready /\ cnt = 0)

WaitDone ==
    /\ pc \in Waits /\ polling
    /\ Settles
    /\ AfterWait(TRUE)
    /\ UNCHANGED <<timers, tpc, n>>

WaitTimeout ==
    /\ pc \in Waits /\ polling
    /\ MayBeBusy /\ Timer2 = 0
    /\ AfterWait(FALSE)
    /\ UNCHANGED <<timers, tpc, n, card>>

\* SD_RecvDataBlock
ReceiveStart ==
    /\ pc \in Receives /\ ~polling
    /\ ArmTimer1(ReadTicks)
    /\ polling' = TRUE
    /\ UNCHANGED <<noinit, CardType, cs, pc, op, req, cnt, res, data, tpc, n, card>>

Slot == req - cnt + 1   \* the sector of buff that comes next

ReceiveBlock ==
    /\ pc \in Receives /\ polling
    /\ card.mode = "ready"
    /\ CASE pc = "CID_DATA" -> Continue("SEND_CSD")
         [] pc = "CSD_DATA" -> IF CardType \in {"SDV2_SC", "SDV2_HC"}
                               THEN Continue("APP_13") ELSE ConfigEnd(TRUE)
         [] pc = "STATUS_DATA" -> ConfigEnd(TRUE)
         [] pc = "READ_DATA" ->
              /\ card.xfer = "read"
              /\ cnt' = cnt - 1
              /\ data' = Append(data, Slot)
              /\ IF req = 1 THEN Return("OK")
                 ELSE /\ Goto(IF cnt = 1 THEN "STOP_TRANSMISSION" ELSE "READ_DATA")
                      /\ UNCHANGED <<res, cs>>
              /\ UNCHANGED <<noinit, CardType, op, req>>
    /\ card' = IF pc = "READ_DATA" /\ req = 1 THEN [card EXCEPT !.xfer = "none"] ELSE card
    /\ UNCHANGED <<timers, tpc, n>>

ReceiveTimeout ==
    /\ pc \in Receives /\ polling
    /\ Timer1 = 0
    /\ IF pc /= "READ_DATA" THEN ConfigEnd(FALSE)
       ELSE IF req = 1 THEN TransferEnd(FALSE) ELSE Continue("STOP_TRANSMISSION")
    /\ UNCHANGED <<timers, tpc, n, card>>

\* SD_SendDataBlock: the data response, then the wait while the card is busy.
\* A multi-sector write that fails still sends the stop token.
SendFailed ==
    IF req = 1 THEN TransferEnd(FALSE) ELSE Continue("WRITE_WAIT")

SendBlock ==
    /\ pc \in Sends /\ ~polling
    /\ Present /\ card.xfer = "write"
    /\ ArmTimer1(WriteTicks)
    /\ polling' = TRUE
    /\ card' = [card EXCEPT !.busy = TRUE, !.stored = Append(@, Slot)]
    /\ UNCHANGED <<noinit, CardType, cs, pc, op, req, cnt, res, data, tpc, n>>

SendRejected ==
    /\ pc \in Sends /\ ~polling
    /\ SendFailed
    /\ card' = [card EXCEPT !.xfer = "none"]
    /\ UNCHANGED <<timers, tpc, n>>

SendDone ==
    /\ pc \in Sends /\ polling
    /\ cnt' = cnt - 1
    /\ IF req = 1 THEN Return("OK")
       ELSE /\ Goto(IF cnt = 1 THEN "WRITE_WAIT" ELSE "WRITE_DATA")
            /\ UNCHANGED <<res, cs>>
    /\ card' = [card EXCEPT !.busy = FALSE, !.xfer = IF cnt = 1 THEN "none" ELSE @]
    /\ UNCHANGED <<noinit, CardType, op, req, data, timers, tpc, n>>

SendTimeout ==
    /\ pc \in Sends /\ polling
    /\ MayBeBusy /\ Timer1 = 0
    /\ SendFailed
    /\ card' = [card EXCEPT !.xfer = "none"]
    /\ UNCHANGED <<timers, tpc, n>>
-----------------------------------------------------------------------------
(* The entry points FatFs calls, one request at a time *)

\* Mutant: SD_Init does not forget the type of the card before.
MMC_disk_initialize_keepType ==
    /\ pc = "idle"
    /\ op' = "initialize" /\ req' = 0 /\ cnt' = 0 /\ data' = <<>>
    /\ cs' = FALSE /\ res' = "none"
    /\ Goto("GO_IDLE_STATE")
    /\ card' = [card EXCEPT !.stored = <<>>]
    /\ UNCHANGED <<noinit, CardType, timers, tpc, n>>

\* FatFs mounts a volume again without looking at STA_NOINIT.
MMC_disk_initialize ==
    /\ pc = "idle"
    /\ op' = "initialize" /\ req' = 0 /\ cnt' = 0 /\ data' = <<>>
    /\ CardType' = "UNKNOWN"
    /\ cs' = FALSE /\ res' = "none"
    /\ Goto("GO_IDLE_STATE")
    /\ card' = [card EXCEPT !.stored = <<>>]
    /\ UNCHANGED <<noinit, timers, tpc, n>>

\* MMC_disk_read, MMC_disk_write and CTRL_SYNC refuse an uninitialised drive.
Request(o, l, k) ==
    /\ pc = "idle"
    /\ op' = o /\ req' = k /\ cnt' = k /\ data' = <<>>
    /\ IF noinit THEN Goto("idle") /\ res' = "NOTRDY" ELSE Goto(l) /\ res' = "none"
    /\ card' = [card EXCEPT !.stored = <<>>]
    /\ UNCHANGED <<noinit, CardType, cs, timers, tpc, n>>

MMC_disk_read ==
    \E k \in 1 .. MaxCount :
        Request("read", IF k > 1 THEN "READ_MULTIPLE" ELSE "READ_SINGLE", k)

MMC_disk_write ==
    \E k \in 1 .. MaxCount :
        Request("write", IF k > 1 THEN "WRITE_MULTIPLE" ELSE "WRITE_SINGLE", k)

MMC_disk_ioctl == Request("sync", "SYNC_WAIT", 1)

Driver ==
    \/ WaitForReady \/ SD_SendCommand \/ SendCommandNotReady
    \/ WaitDone \/ WaitTimeout
    \/ ReceiveStart \/ ReceiveBlock \/ ReceiveTimeout
    \/ SendBlock \/ SendRejected \/ SendDone \/ SendTimeout

FatFs == MMC_disk_initialize \/ MMC_disk_read \/ MMC_disk_write \/ MMC_disk_ioctl

Next == Driver \/ FatFs \/ disk_timerproc \/ Remove \/ Insert

Spec == Init /\ [][Next]_vars

\* Steps the driver takes without waiting for the card: the prologues, the
\* immediate data response, a timer found at zero, and an empty socket, which
\* reads as 0xFF.
SureStep ==
    \/ WaitForReady \/ ReceiveStart \/ SendBlock \/ SendRejected
    \/ SendCommandNotReady \/ WaitTimeout \/ ReceiveTimeout \/ SendTimeout
    \/ ~Present /\ (SD_SendCommand \/ WaitDone \/ SendDone)

\* The driver's task and sdTimerSupport have the same priority and are
\* time-sliced, so each keeps running.  Nothing is assumed of the card.
FairSpec == Spec /\ WF_vars(disk_timerproc) /\ WF_vars(SureStep)
-----------------------------------------------------------------------------
TypeOK ==
    /\ {noinit, cs, polling, hit1, hit2} \subseteq BOOLEAN
    /\ CardType \in {"UNKNOWN", "MMC", "SDV1", "SDV2_SC", "SDV2_HC"}
    /\ pc \in {"idle"} \cup Commands \cup Receives \cup Sends \cup Waits
    /\ op \in {"none", "initialize", "read", "write", "sync"}
    /\ req \in 0 .. MaxCount /\ cnt \in 0 .. req
    /\ res \in {"none", "OK", "NOINIT", "NOTRDY", "ERROR"}
    /\ data \in Seq(1 .. MaxCount)
    /\ Timer1 \in Nat /\ age1 \in 0 .. limit1
    /\ limit1 \in {0, InitTicks, ReadTicks, WriteTicks}
    /\ Timer2 \in 0 .. ReadyTicks /\ age2 \in 0 .. ReadyTicks

\* However a request ends, refused, failed in the middle of a transfer or
\* complete, the card is de-selected when the driver is idle: the SPI bus is
\* free and the next CMD0 finds CS high.
CardReleased == TypeOK /\ (pc = "idle" => ~cs)

\* RES_OK is never partial: a read has filled every sector of buff with its own
\* block, a write has had every block accepted by the card, in order, and has
\* seen the line free again (an empty socket reads as free).  A
\* timeout, a rejected block or an unanswered stop command on the way may only
\* end in an error.
OkMeansAllSectors ==
    pc = "idle" /\ res = "OK" =>
        /\ op = "read" => data = [i \in 1 .. req |-> i]
        /\ op = "write" => card.stored = [i \in 1 .. req |-> i] /\ ~card.busy

\* A card that has come through its initialisation is never taken for one of
\* another kind, however often the drive is initialised again, wherever that
\* fails, and whichever card was in the socket before: sectors would be
\* addressed in the wrong unit (sect <<= 9).  What the driver can do is to have
\* forgotten the type, after an initialisation that did not reach the card;
\* STA_NOINIT need not be set then.
CardIdentified ==
    pc \notin Guessing /\ card.mode = "ready" => CardType \in {card.kind, "UNKNOWN"}

\* A wait gives up only after disk_timerproc has been called as often as the
\* armed value says ("Timer2 = 50; // 500ms", "Data Read Timerout: 100ms").
TimersCountFully ==
    /\ Timer1 = 0 => age1 = limit1
    /\ Timer2 = 0 => age2 = ReadyTicks

\* It gives up early only if it was armed between the load and the store of
\* disk_timerproc: no other path starts a wait with what is left of a former one.
OnlyOverlapsCutWaits ==
    /\ ~hit1 /\ Timer1 = 0 => age1 = limit1
    /\ ~hit2 /\ Timer2 = 0 => age2 = ReadyTicks

\* Every request returns, even with a card that stays busy for ever or is gone:
\* each wait is bounded by a timer, and no wait keeps re-arming the timer of
\* the loop around it.
RequestsReturn == pc /= "idle" ~> pc = "idle"
=============================================================================
