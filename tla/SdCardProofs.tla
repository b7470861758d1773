----------------------------- MODULE SdCardProofs -----------------------------
(***************************************************************************)
(* Theorems about the SD/MMC driver, for every kind of card, every number  *)
(* of sectors in a request, every number of removals and every value the   *)
(* two timers are armed with.  The inductive invariant says, for each      *)
(* place the driver can be in, what of the request the card has done and   *)
(* what the driver may take the card for; and, for each timer, that what   *)
(* is left of it and the calls of disk_timerproc it has seen make up the   *)
(* value it was armed with.                                                *)
(***************************************************************************)
EXTENDS SdCard, TLAPS

-------------------------------------------------------------------------------
(* The inductive invariant *)

\* The two halves of TypeOK.
DriverTypes ==
    /\ noinit \in BOOLEAN /\ cs \in BOOLEAN /\ polling \in BOOLEAN
    /\ CardType \in {"UNKNOWN", "MMC", "SDV1", "SDV2_SC", "SDV2_HC"}
    /\ op \in {"none", "initialize", "read", "write", "sync"}
    /\ req \in 0 .. MaxCount /\ cnt \in 0 .. req
    /\ res \in {"none", "OK", "NOINIT", "NOTRDY", "ERROR"}
    /\ data \in Seq(1 .. MaxCount)

ClockTypes ==
    /\ hit1 \in BOOLEAN /\ hit2 \in BOOLEAN
    /\ Timer1 \in Nat /\ age1 \in 0 .. limit1
    /\ limit1 \in {0, InitTicks, ReadTicks, WriteTicks}
    /\ Timer2 \in 0 .. ReadyTicks /\ age2 \in 0 .. ReadyTicks

Card ==
    [kind : Kinds \cup {"none"}, mode : {"native", "idle", "ready"},
     xfer : {"none", "read", "write"}, stored : Seq(1 .. MaxCount),
     busy : BOOLEAN, removals : Nat]

\* SD_Init before and after it has a guess of the card, SD_ReadConfiguration,
\* and the transfers.
Identifying == {"GO_IDLE_STATE", "SEND_IF_COND", "APP_41", "SD_SEND_OP_COND", "READ_OCR", "APP_CMD"}
Trying == {"SEND_OP_COND", "APP_41_V1", "SD_SEND_OP_COND_V1", "SET_BLOCKLEN"}
Asking == {"CFG_OCR", "SEND_CID", "SEND_CSD", "APP_13", "SD_STATUS"}
Configuring == Asking \cup {"CID_DATA", "CSD_DATA", "STATUS_DATA"}
Reading == {"READ_SINGLE", "READ_MULTIPLE", "READ_DATA", "STOP_TRANSMISSION", "READ_WAIT"}
Writing == {"WRITE_SINGLE", "WRITE_MULTIPLE", "WRITE_DATA", "WRITE_WAIT"}

\* The driver is where the request it is in has taken it.
OnPath ==
    \/ pc = "idle"
    \/ op = "initialize" /\ pc \in Identifying \cup Trying \cup Configuring
    \/ op = "read" /\ pc \in Reading
    \/ op = "write" /\ pc \in Writing
    \/ op = "sync" /\ pc = "SYNC_WAIT"

UpTo(k) == [i \in 1 .. k |-> i]

\* The sectors of the request that are done.
Progress ==
    /\ pc \in {"READ_SINGLE", "READ_MULTIPLE", "WRITE_SINGLE", "WRITE_MULTIPLE"} => cnt = req
    /\ pc \in {"READ_SINGLE", "READ_MULTIPLE", "READ_DATA"} => cnt > 0
    /\ pc \in {"WRITE_SINGLE", "WRITE_MULTIPLE", "WRITE_DATA"} => cnt > 0
    /\ pc \in Reading => data = UpTo(req - cnt)
    /\ pc = "WRITE_DATA" => card.stored = UpTo(IF polling THEN req - cnt + 1 ELSE req - cnt)
    /\ pc = "WRITE_WAIT" /\ cnt = 0 => card.stored = UpTo(req)

DriverInv ==
    /\ DriverTypes /\ card \in Card
    /\ OnPath
    /\ Progress
    /\ pc = "idle" => ~cs
    /\ OkMeansAllSectors

\* What is left of a timer and what it has counted make up what it was armed
\* with, unless it was armed inside disk_timerproc.
Counting ==
    /\ tpc \in {"read1", "write1", "read2", "write2"} /\ n \in Nat
    /\ tpc = "write2" => n <= ReadyTicks
    /\ ~hit1 =>
        IF tpc = "write1" THEN n = Timer1 /\ age1 + Timer1 = limit1 + (IF Timer1 = 0 THEN 0 ELSE 1)
        ELSE age1 + Timer1 = limit1
    /\ ~hit2 =>
        IF tpc = "write2" THEN n = Timer2 /\ age2 + Timer2 = ReadyTicks + (IF Timer2 = 0 THEN 0 ELSE 1)
        ELSE age2 + Timer2 = ReadyTicks

ClockInv == ClockTypes /\ Counting

SafeInv == DriverInv /\ ClockInv

\* What the driver takes a card for that has heard CMD0.  A card put in since
\* then is in its native mode and does not answer.
Identity ==
    /\ pc \in Identifying => CardType = "UNKNOWN"
    /\ card.kind = "none" => card.mode = "native"
    /\ card.mode /= "native" =>
        /\ pc \in {"APP_41", "SD_SEND_OP_COND", "READ_OCR"} => card.kind \in {"SDV2_SC", "SDV2_HC"}
        /\ pc \in {"APP_CMD", "APP_41_V1"} => card.kind \in {"MMC", "SDV1"}
        /\ pc = "SEND_OP_COND" => card.kind = "MMC"
        /\ pc = "SD_SEND_OP_COND_V1" => card.kind = "SDV1"
        /\ pc \in {"SET_BLOCKLEN"} \cup Configuring => CardType = card.kind
        /\ pc \notin Identifying \cup Trying => CardType \in {card.kind, "UNKNOWN"}

-------------------------------------------------------------------------------
(* The timers *)

\* What a step can do with the timers.
LEMMA ClockSteps ==
    ASSUME Next
    PROVE  \/ UNCHANGED <<timers, tpc, n>>
           \/ /\ \E v \in {InitTicks, ReadTicks, WriteTicks} : ArmTimer1(v)
              /\ UNCHANGED <<tpc, n>>
           \/ ArmTimer2 /\ UNCHANGED <<tpc, n>>
           \/ disk_timerproc
<1>1. CASE Driver
  BY <1>1 DEF Driver, WaitForReady, SD_SendCommand, SendCommandNotReady, WaitDone, WaitTimeout,
     ReceiveStart, ReceiveBlock, ReceiveTimeout, SendBlock, SendRejected, SendDone, SendTimeout
<1>2. CASE FatFs
  BY <1>2 DEF FatFs, MMC_disk_initialize, MMC_disk_read, MMC_disk_write, MMC_disk_ioctl, Request
<1> QED BY <1>1, <1>2 DEF Next, Remove, Insert

LEMMA ClockInvStep ==
    ASSUME ClockInv, Next
    PROVE  ClockInv'
<1> USE SdAssumption DEF ClockInv, ClockTypes, Counting
<1>1. CASE UNCHANGED <<timers, tpc, n>>
  BY <1>1 DEF timers
<1>2. ASSUME NEW v \in {InitTicks, ReadTicks, WriteTicks}, ArmTimer1(v), UNCHANGED <<tpc, n>>
      PROVE  ClockInv'
  <2>1. v \in Nat /\ hit1' \in BOOLEAN /\ (~hit1' => tpc /= "write1")
    BY <1>2, Zenon DEF ArmTimer1
  <2> QED BY <1>2, <2>1 DEF ArmTimer1
<1>3. CASE ArmTimer2 /\ UNCHANGED <<tpc, n>>
  <2>1. hit2' \in BOOLEAN /\ (~hit2' => tpc /= "write2")
    BY <1>3, Zenon DEF ArmTimer2
  <2> QED BY <1>3, <2>1 DEF ArmTimer2
<1>4. CASE TimerRead1
  BY <1>4 DEF TimerRead1, older
<1>5. CASE TimerWrite1
  BY <1>5 DEF TimerWrite1
<1>6. CASE TimerRead2
  BY <1>6 DEF TimerRead2, older
<1>7. CASE TimerWrite2
  BY <1>7 DEF TimerWrite2
<1> QED BY ClockSteps, <1>1, <1>2, <1>3, <1>4, <1>5, <1>6, <1>7 DEF disk_timerproc

-------------------------------------------------------------------------------
(* The ends of a step of the driver *)

Types == {"UNKNOWN", "MMC", "SDV1", "SDV2_SC", "SDV2_HC"}
Starting == Identifying \cup Trying \cup Configuring

\* What holds after a step of SD_Init or SD_ReadConfiguration, wherever it
\* went.
InitStep ==
    /\ UNCHANGED <<op, req, cnt, data>> /\ polling' = FALSE
    /\ noinit' \in BOOLEAN /\ cs' \in BOOLEAN /\ CardType' \in Types
    /\ res' \in {"none", "OK", "NOINIT", "NOTRDY", "ERROR"}
    /\ pc' \in {"idle"} \cup Starting /\ (pc' = "idle" => ~cs')

LEMMA InitStepEnds ==
    ASSUME DriverTypes
    PROVE  /\ \A l \in Starting : Continue(l) => InitStep
           /\ \A t \in Types : InitEnd(t) \/ BlockLen(t) => InitStep
           /\ \A t \in Types, l \in Starting, done \in BOOLEAN : LoopV1(t, l, done) => InitStep
           /\ \A ok \in BOOLEAN : ConfigEnd(ok) => InitStep
<1> USE DEF DriverTypes, InitStep, Goto
<1>0. "idle" \notin Starting
  BY DEF Starting, Identifying, Trying, Configuring, Asking
<1>1. ASSUME NEW l \in Starting, Continue(l)
      PROVE  InitStep
  BY <1>0, <1>1 DEF Continue, Types
<1>2. ASSUME NEW t \in Types, InitEnd(t)
      PROVE  InitStep
  BY <1>2 DEF InitEnd, Return, Types, Starting, Configuring, Asking
<1>3. ASSUME NEW t \in Types, BlockLen(t)
      PROVE  InitStep
  BY <1>3 DEF BlockLen, Types, Starting, Trying
<1>4. ASSUME NEW t \in Types, NEW l \in Starting, NEW done \in BOOLEAN, LoopV1(t, l, done)
      PROVE  InitStep
  <2>1. CASE InitEnd("UNKNOWN")
    BY <2>1, <1>2 DEF Types
  <2>2. CASE BlockLen(t)
    BY <2>2, <1>3
  <2>3. CASE CardType' = t /\ Goto(l) /\ UNCHANGED <<noinit, cs, op, req, cnt, res, data>>
    BY <1>0, <2>3 DEF Types
  <2> QED BY <1>4, <2>1, <2>2, <2>3 DEF LoopV1
<1>5. ASSUME NEW ok \in BOOLEAN, ConfigEnd(ok)
      PROVE  InitStep
  BY <1>5 DEF ConfigEnd, Return, Types
<1> QED BY <1>1, <1>2, <1>3, <1>4, <1>5

LEMMA InitCommandEnds ==
    ASSUME DriverInv, op = "initialize", pc \in Commands, NEW r \in R1, AfterCommand(r)
    PROVE  InitStep
<1>0. DriverTypes /\ CardType \in Types /\ "UNKNOWN" \in Types
  BY DEF DriverInv, DriverTypes, Types
<1>1. CASE pc \in Asking
  <2>1. AfterConfigCommand(r)
    BY <1>1 DEF AfterCommand, Asking
  <2>2. {"SEND_CID", "CID_DATA", "CSD_DATA", "SD_STATUS", "STATUS_DATA"} \subseteq Starting
    BY DEF Starting, Configuring, Asking
  <2> QED BY <1>0, <1>1, <2>1, <2>2, InitStepEnds DEF AfterConfigCommand, Asking
<1>2. CASE pc \notin Asking
  <2>1. AfterInitCommand(r) /\ pc \in Identifying \cup Trying
    BY <1>2 DEF AfterCommand, DriverInv, OnPath, Reading, Writing, Commands, Asking, Configuring
  <2>2. /\ {"SEND_IF_COND", "APP_41", "APP_CMD", "SD_SEND_OP_COND", "READ_OCR", "SEND_OP_COND",
            "APP_41_V1", "SD_SEND_OP_COND_V1"} \subseteq Starting
        /\ {"MMC", "SDV1", "SDV2_SC", "SDV2_HC"} \subseteq Types
    BY DEF Starting, Identifying, Trying, Types
  <2> HIDE DEF Starting
  <2>3. CASE pc \in {"GO_IDLE_STATE", "SEND_IF_COND", "APP_41", "SD_SEND_OP_COND", "READ_OCR"}
    BY <1>0, <2>1, <2>2, <2>3, InitStepEnds DEF AfterInitCommand
  <2>4. CASE pc \in {"APP_CMD", "SEND_OP_COND", "APP_41_V1", "SD_SEND_OP_COND_V1", "SET_BLOCKLEN"}
    BY <1>0, <2>1, <2>2, <2>4, InitStepEnds DEF AfterInitCommand
  <2> QED BY <2>1, <2>3, <2>4 DEF Identifying, Trying
<1> QED BY <1>1, <1>2

\* Which keeps the invariant of the driver, whatever the card does meanwhile.
LEMMA InitStepKeeps ==
    ASSUME DriverInv, op = "initialize", InitStep, card' \in Card
    PROVE  DriverInv'
<1>1. DriverTypes'
  BY DEF DriverInv, DriverTypes, InitStep, Types
<1>2. OnPath'
  BY DEF InitStep, OnPath, Starting
<1>3. Progress'
  BY DEF InitStep, Progress, Starting, Identifying, Trying, Configuring, Asking, Reading, Writing
<1>4. OkMeansAllSectors' /\ (pc = "idle" => ~cs)'
  BY DEF InitStep, OkMeansAllSectors
<1> QED BY <1>1, <1>2, <1>3, <1>4 DEF DriverInv

\* The card keeps its types, and a command changes what it has stored only
\* where it starts a write.
LEMMA ObeysTypes ==
    ASSUME card \in Card, NEW m, NEW r
    PROVE  /\ Obeys(m, r) \in Card /\ [Obeys(m, r) EXCEPT !.busy = FALSE] \in Card
           /\ Obeys(m, r).stored = card.stored \/ Obeys(m, r).stored = <<>>
           /\ m \in {"WRITE_SINGLE", "WRITE_MULTIPLE"} /\ r = "ok" => Obeys(m, r).stored = <<>>
<1>1. /\ \A x \in {"native", "idle", "ready"} : [card EXCEPT !.mode = x] \in Card
      /\ \A x \in {"none", "read", "write"} : [card EXCEPT !.xfer = x] \in Card
      /\ [card EXCEPT !.mode = "idle", !.xfer = "none", !.busy = FALSE] \in Card
      /\ [card EXCEPT !.xfer = "write", !.stored = <<>>] \in Card
  <2>1. \A x \in {"native", "idle", "ready"} : [card EXCEPT !.mode = x] \in Card
    BY DEF Card
  <2>2. \A x \in {"none", "read", "write"} : [card EXCEPT !.xfer = x] \in Card
    BY DEF Card
  <2>3. [card EXCEPT !.mode = "idle", !.xfer = "none", !.busy = FALSE] \in Card
    BY DEF Card
  <2>4. [card EXCEPT !.xfer = "write", !.stored = <<>>] \in Card
    <3>1. <<>> \in Seq(1 .. MaxCount)
      OBVIOUS
    <3> QED BY <3>1 DEF Card
  <2> QED BY <2>1, <2>2, <2>3, <2>4
<1>2. Obeys(m, r) \in Card
  BY <1>1 DEF Obeys
<1>3. \A d \in Card : [d EXCEPT !.busy = FALSE] \in Card
  BY DEF Card
<1>4. Obeys(m, r).stored = card.stored \/ Obeys(m, r).stored = <<>>
  BY DEF Obeys, Card
<1>5. m \in {"WRITE_SINGLE", "WRITE_MULTIPLE"} /\ r = "ok" => Obeys(m, r).stored = <<>>
  BY DEF Obeys, Card
<1> QED BY <1>2, <1>3, <1>4, <1>5

LEMMA AnswersAreR1 == ASSUME NEW m PROVE Answers(m) \subseteq R1
  BY DEF Answers, R1

LEMMA UpToFacts ==
    /\ UpTo(0) = <<>>
    /\ \A k \in Nat : Append(UpTo(k), k + 1) = UpTo(k + 1)
  BY DEF UpTo

-------------------------------------------------------------------------------
(* The transfers *)

\* A request that ends well has done all its sectors.
LEMMA TransferEndKeeps ==
    ASSUME DriverInv, card' \in Card, NEW flag \in BOOLEAN, TransferEnd(flag),
           flag /\ op = "read" => data = UpTo(req),
           flag /\ op = "write" => card'.stored = UpTo(req) /\ ~card'.busy
    PROVE  DriverInv'
<1> USE DEF TransferEnd, Return, Goto
<1>1. DriverTypes'
  BY DEF DriverInv, DriverTypes
<1>2. OnPath' /\ Progress' /\ (pc = "idle" => ~cs)'
  BY DEF OnPath, Progress, Reading, Writing
<1>3. OkMeansAllSectors'
  BY DEF OkMeansAllSectors, UpTo
<1> QED BY <1>1, <1>2, <1>3 DEF DriverInv

\* One that goes on has the sectors it says.
LEMMA ContinueKeeps ==
    ASSUME DriverInv, card' \in Card, NEW l, Continue(l), l /= "idle", OnPath', Progress'
    PROVE  DriverInv'
<1>1. DriverTypes' /\ (pc = "idle" => ~cs)' /\ OkMeansAllSectors'
  BY DEF DriverInv, DriverTypes, Continue, Goto, OkMeansAllSectors
<1> QED BY <1>1 DEF DriverInv

LEMMA Places ==
    ASSUME OnPath
    PROVE  /\ pc \in Starting => op = "initialize"
           /\ pc \in Reading => op = "read"
           /\ pc \in Writing => op = "write"
           /\ pc = "SYNC_WAIT" => op = "sync"
  BY DEF OnPath, Starting, Identifying, Trying, Configuring, Asking, Reading, Writing

LEMMA TransferCommandKeeps ==
    ASSUME DriverInv, op /= "initialize", pc \in Commands, NEW r \in R1, AfterCommand(r),
           card' \in Card, pc \in {"WRITE_SINGLE", "WRITE_MULTIPLE"} /\ r = "ok" => card'.stored = <<>>
    PROVE  DriverInv'
<1>0. /\ DriverTypes /\ Progress /\ op \in {"none", "initialize", "read", "write", "sync"}
      /\ req \in Nat /\ cnt \in 0 .. req
  BY DEF DriverInv, DriverTypes
<1>1. AfterTransferCommand(r)
  BY DEF AfterCommand
<1>2. \/ op = "read" /\ pc \in {"READ_SINGLE", "READ_MULTIPLE", "STOP_TRANSMISSION"}
      \/ op = "write" /\ pc \in {"WRITE_SINGLE", "WRITE_MULTIPLE"}
  BY DEF DriverInv, OnPath, Reading, Writing, Commands
<1>3. CASE TransferEnd(FALSE)
  BY <1>3, TransferEndKeeps
<1>4. CASE op = "read" /\ pc \in {"READ_SINGLE", "READ_MULTIPLE"} /\ Continue("READ_DATA")
  <2>1. OnPath' /\ Progress'
    BY <1>0, <1>4, UpToFacts DEF Continue, Goto, OnPath, Progress, Reading, Writing
  <2> QED BY <1>4, <2>1, ContinueKeeps
<1>5. CASE op = "read" /\ pc = "STOP_TRANSMISSION" /\ Continue("READ_WAIT")
  <2>1. OnPath' /\ Progress'
    BY <1>0, <1>5 DEF Continue, Goto, OnPath, Progress, Reading, Writing
  <2> QED BY <1>5, <2>1, ContinueKeeps
<1>6. CASE op = "write" /\ pc \in {"WRITE_SINGLE", "WRITE_MULTIPLE"} /\ r = "ok" /\ Continue("WRITE_DATA")
  <2>1. cnt = req /\ cnt > 0 /\ card'.stored = UpTo(0)
    BY <1>0, <1>6, UpToFacts DEF Progress
  <2>2. OnPath' /\ Progress'
    BY <1>0, <1>6, <2>1 DEF Continue, Goto, OnPath, Progress, Reading, Writing
  <2> QED BY <1>6, <2>2, ContinueKeeps
<1> QED BY <1>1, <1>2, <1>3, <1>4, <1>5, <1>6 DEF AfterTransferCommand

LEMMA SendCommandKeeps ==
    ASSUME DriverInv, SD_SendCommand \/ SendCommandNotReady
    PROVE  DriverInv'
<1>0. card \in Card /\ pc \in Commands
  BY DEF DriverInv, SD_SendCommand, SendCommandNotReady
<1>1. PICK r \in R1 :
        /\ AfterCommand(r)
        /\ card' \in Card
        /\ pc \in {"WRITE_SINGLE", "WRITE_MULTIPLE"} /\ r = "ok" => card'.stored = <<>>
  <2>1. CASE SD_SendCommand
    <3>1. PICK r \in Answers(pc) : card' = [Obeys(pc, r) EXCEPT !.busy = FALSE] /\ AfterCommand(r)
      BY <2>1 DEF SD_SendCommand
    <3>2. r \in R1 /\ Obeys(pc, r) \in Card /\ card' \in Card
      BY <1>0, <3>1, AnswersAreR1, ObeysTypes
    <3>3. card'.stored = Obeys(pc, r).stored
      BY <3>1, <3>2 DEF Card
    <3>4. pc \in {"WRITE_SINGLE", "WRITE_MULTIPLE"} /\ r = "ok" => card'.stored = <<>>
      BY <1>0, <3>3, ObeysTypes
    <3> QED BY <3>1, <3>2, <3>4
  <2>2. CASE SendCommandNotReady
    <3>1. AfterCommand("notready") /\ card' = card /\ "notready" \in R1
      BY <2>2 DEF SendCommandNotReady, R1
    <3> QED BY <1>0, <3>1
  <2> QED BY <2>1, <2>2
<1>2. CASE op = "initialize"
  BY <1>0, <1>1, <1>2, InitCommandEnds, InitStepKeeps
<1>3. CASE op /= "initialize"
  BY <1>0, <1>1, <1>3, TransferCommandKeeps
<1> QED BY <1>2, <1>3

LEMMA WaitKeeps ==
    ASSUME DriverInv, WaitForReady \/ WaitDone \/ WaitTimeout
    PROVE  DriverInv'
<1>0. /\ DriverTypes /\ card \in Card /\ OnPath /\ Progress
      /\ req \in Nat /\ cnt \in 0 .. req
  BY DEF DriverInv, DriverTypes
<1>1. CASE WaitForReady
  <2>1. /\ pc \in Commands \cup Waits /\ pc /= "idle" /\ pc /= "WRITE_DATA"
        /\ polling' = TRUE /\ cs' = TRUE
        /\ UNCHANGED <<noinit, CardType, pc, op, req, cnt, res, data, card>>
    BY <1>1 DEF WaitForReady, Commands, Waits
  <2>2. DriverTypes' /\ OnPath'
    BY <1>0, <2>1 DEF DriverTypes, OnPath
  <2>3. Progress' /\ OkMeansAllSectors'
    BY <1>0, <2>1 DEF Progress, OkMeansAllSectors
  <2> QED BY <1>0, <2>1, <2>2, <2>3 DEF DriverInv
<1>2. CASE WaitDone
  <2>1. pc \in Waits /\ card' = [card EXCEPT !.busy = FALSE] /\ AfterWait(TRUE)
    BY <1>2 DEF WaitDone, Settles
  <2>2. card' \in Card /\ ~card'.busy /\ card'.stored = card.stored
    BY <1>0, <2>1 DEF Card
  <2>3. CASE pc = "SYNC_WAIT"
    <3>1. TransferEnd(TRUE) /\ op = "sync"
      BY <1>0, <2>1, <2>3, Places DEF AfterWait
    <3> QED BY <2>2, <3>1, TransferEndKeeps
  <2>4. CASE pc = "READ_WAIT"
    <3>1. TransferEnd(cnt = 0) /\ op = "read" /\ data = UpTo(req - cnt)
      BY <1>0, <2>1, <2>4, Places DEF AfterWait, Progress, Reading
    <3>2. cnt = 0 => data = UpTo(req)
      BY <1>0, <3>1
    <3> QED BY <2>2, <3>1, <3>2, TransferEndKeeps
  <2>5. CASE pc = "WRITE_WAIT"
    <3>1. TransferEnd(cnt = 0) /\ op = "write" /\ (cnt = 0 => card.stored = UpTo(req))
      BY <1>0, <2>1, <2>5, Places DEF AfterWait, Progress, Writing
    <3> QED BY <2>2, <3>1, TransferEndKeeps
  <2> QED BY <2>1, <2>3, <2>4, <2>5 DEF Waits
<1>3. CASE WaitTimeout
  <2>1. TransferEnd(FALSE) /\ card' = card
    BY <1>3, Zenon DEF WaitTimeout, AfterWait
  <2> QED BY <1>0, <2>1, TransferEndKeeps
<1> QED BY <1>1, <1>2, <1>3

LEMMA ReceiveKeeps ==
    ASSUME DriverInv, ReceiveStart \/ ReceiveBlock \/ ReceiveTimeout
    PROVE  DriverInv'
<1>0. /\ DriverTypes /\ card \in Card /\ OnPath /\ Progress
      /\ req \in 0 .. MaxCount /\ req \in Nat /\ cnt \in 0 .. req /\ cnt \in Nat
  BY SdAssumption DEF DriverInv, DriverTypes
<1>1. /\ pc \in Receives
      /\ pc = "READ_DATA" => op = "read" /\ cnt > 0 /\ data = UpTo(req - cnt)
      /\ pc /= "READ_DATA" => op = "initialize"
  BY <1>0, Places DEF Progress, Reading, ReceiveStart, ReceiveBlock, ReceiveTimeout, Receives, Starting, Configuring
<1>2. CASE ReceiveStart
  <2>1. /\ polling' = TRUE /\ pc /= "idle" /\ pc /= "WRITE_DATA"
        /\ UNCHANGED <<noinit, CardType, cs, pc, op, req, cnt, res, data, card>>
    BY <1>1, <1>2 DEF ReceiveStart, Receives
  <2>2. DriverTypes' /\ OnPath' /\ Progress' /\ OkMeansAllSectors'
    BY <1>0, <2>1 DEF DriverTypes, OnPath, Progress, OkMeansAllSectors
  <2> QED BY <1>0, <2>1, <2>2 DEF DriverInv
<1>3. CASE ReceiveBlock /\ pc /= "READ_DATA"
  <2>1. card' = card /\ op = "initialize"
    BY <1>1, <1>3 DEF ReceiveBlock
  <2>2. Continue("SEND_CSD") \/ Continue("APP_13") \/ ConfigEnd(TRUE)
    BY <1>1, <1>3 DEF ReceiveBlock, Receives
  <2>3. {"SEND_CSD", "APP_13"} \subseteq Starting
    BY DEF Starting, Configuring, Asking
  <2>4. InitStep
    BY <1>0, <2>2, <2>3, InitStepEnds
  <2> QED BY <1>0, <2>1, <2>4, InitStepKeeps
<1>4. CASE ReceiveBlock /\ pc = "READ_DATA"
  <2>1. /\ cnt' = cnt - 1 /\ data' = Append(data, req - cnt + 1)
        /\ UNCHANGED <<noinit, CardType, op, req>>
        /\ IF req = 1 THEN Return("OK")
           ELSE /\ Goto(IF cnt = 1 THEN "STOP_TRANSMISSION" ELSE "READ_DATA")
                /\ UNCHANGED <<res, cs>>
        /\ card' = IF req = 1 THEN [card EXCEPT !.xfer = "none"] ELSE card
    BY <1>4 DEF ReceiveBlock, Slot
  <2>2. card' \in Card
    BY <1>0, <2>1 DEF Card
  <2>3. cnt' \in 0 .. req /\ req - cnt \in Nat /\ req - cnt + 1 \in 1 .. MaxCount
    BY <1>0, <1>1, <1>4, <2>1, SdAssumption
  <2>4. data' = UpTo(req - cnt') /\ data' \in Seq(1 .. MaxCount)
    <3>1. data' = UpTo((req - cnt) + 1)
      BY <1>1, <1>4, <2>1, <2>3, UpToFacts
    <3>2. (req - cnt) + 1 = req - cnt'
      BY <1>0, <2>1
    <3>3. data \in Seq(1 .. MaxCount)
      BY <1>0 DEF DriverTypes
    <3> QED BY <2>1, <2>3, <3>1, <3>2, <3>3
  <2>5. CASE req = 1
    <3>1. cnt' = 0 /\ pc' = "idle" /\ res' = "OK" /\ cs' = FALSE /\ polling' = FALSE
      BY <1>0, <1>1, <1>4, <2>1, <2>5 DEF Return, Goto
    <3>2. DriverTypes' /\ OnPath' /\ Progress'
      BY <1>0, <2>1, <2>3, <2>4, <3>1 DEF DriverTypes, OnPath, Progress, Reading, Writing
    <3>3. OkMeansAllSectors'
      BY <1>0, <1>1, <1>4, <2>1, <2>4, <3>1 DEF OkMeansAllSectors, UpTo
    <3> QED BY <2>2, <3>1, <3>2, <3>3 DEF DriverInv
  <2>6. CASE req /= 1
    <3>1. /\ pc' = (IF cnt = 1 THEN "STOP_TRANSMISSION" ELSE "READ_DATA")
          /\ polling' = FALSE /\ UNCHANGED <<res, cs>>
      BY <2>1, <2>6 DEF Goto
    <3>2. DriverTypes'
      BY <1>0, <2>1, <2>3, <2>4, <3>1 DEF DriverTypes
    <3>3. OnPath' /\ Progress'
      BY <1>0, <1>1, <1>4, <2>1, <2>3, <2>4, <3>1 DEF OnPath, Progress, Reading, Writing
    <3>4. OkMeansAllSectors' /\ (pc = "idle" => ~cs)'
      BY <3>1 DEF OkMeansAllSectors
    <3> QED BY <2>2, <3>2, <3>3, <3>4 DEF DriverInv
  <2> QED BY <2>5, <2>6
<1>5. CASE ReceiveTimeout /\ pc /= "READ_DATA"
  <2>1. card' = card /\ op = "initialize" /\ ConfigEnd(FALSE)
    BY <1>1, <1>5 DEF ReceiveTimeout
  <2> QED BY <1>0, <2>1, InitStepEnds, InitStepKeeps
<1>6. CASE ReceiveTimeout /\ pc = "READ_DATA"
  <2>1. card' = card /\ (TransferEnd(FALSE) \/ Continue("STOP_TRANSMISSION"))
    BY <1>6 DEF ReceiveTimeout
  <2>2. CASE Continue("STOP_TRANSMISSION")
    <3>1. OnPath' /\ Progress'
      BY <1>0, <1>1, <1>6, <2>2 DEF Continue, Goto, OnPath, Progress, Reading, Writing
    <3> QED BY <1>0, <2>1, <2>2, <3>1, ContinueKeeps
  <2> QED BY <1>0, <2>1, <2>2, TransferEndKeeps
<1> QED BY <1>2, <1>3, <1>4, <1>5, <1>6

LEMMA SendKeeps ==
    ASSUME DriverInv, SendBlock \/ SendRejected \/ SendDone \/ SendTimeout
    PROVE  DriverInv'
<1>0. /\ DriverTypes /\ card \in Card /\ OnPath /\ Progress
      /\ req \in 0 .. MaxCount /\ req \in Nat /\ cnt \in 0 .. req /\ cnt \in Nat
  BY SdAssumption DEF DriverInv, DriverTypes
<1>1. /\ pc = "WRITE_DATA" /\ op = "write" /\ cnt > 0
      /\ card.stored = UpTo(IF polling THEN req - cnt + 1 ELSE req - cnt)
  BY <1>0, Places DEF Progress, Writing, SendBlock, SendRejected, SendDone, SendTimeout, Sends
<1>2. CASE SendBlock
  <2>1. /\ polling' = TRUE /\ ~polling
        /\ UNCHANGED <<noinit, CardType, cs, pc, op, req, cnt, res, data>>
        /\ card' = [card EXCEPT !.busy = TRUE, !.stored = Append(@, req - cnt + 1)]
    BY <1>2 DEF SendBlock, Slot
  <2>2. req - cnt \in Nat /\ req - cnt + 1 \in 1 .. MaxCount
    BY <1>0, <1>1, SdAssumption
  <2>3. card.stored \in Seq(1 .. MaxCount)
    BY <1>0 DEF Card
  <2>4. Append(card.stored, req - cnt + 1) \in Seq(1 .. MaxCount)
    BY <2>2, <2>3
  <2>5. card' \in Card /\ card'.stored = Append(card.stored, req - cnt + 1)
    BY <1>0, <2>1, <2>4 DEF Card
  <2>6. card'.stored = UpTo(req - cnt + 1)
    BY <1>1, <2>1, <2>2, <2>5, UpToFacts
  <2>7. DriverTypes' /\ OnPath' /\ Progress'
    BY <1>0, <1>1, <2>1, <2>6 DEF DriverTypes, OnPath, Progress, Reading, Writing
  <2>8. OkMeansAllSectors' /\ (pc = "idle" => ~cs)'
    BY <1>1, <2>1 DEF OkMeansAllSectors
  <2> QED BY <2>5, <2>7, <2>8 DEF DriverInv
<1>3. CASE SendRejected \/ SendTimeout
  <2>1. SendFailed /\ card' = [card EXCEPT !.xfer = "none"]
    BY <1>3 DEF SendRejected, SendTimeout
  <2>2. card' \in Card
    BY <1>0, <2>1 DEF Card
  <2>3. TransferEnd(FALSE) \/ Continue("WRITE_WAIT")
    BY <2>1 DEF SendFailed
  <2>4. CASE Continue("WRITE_WAIT")
    <3>1. OnPath' /\ Progress'
      BY <1>0, <1>1, <2>4 DEF Continue, Goto, OnPath, Progress, Reading, Writing
    <3> QED BY <2>2, <2>4, <3>1, ContinueKeeps
  <2> QED BY <2>2, <2>3, <2>4, TransferEndKeeps
<1>4. CASE SendDone
  <2>1. /\ polling /\ cnt' = cnt - 1
        /\ UNCHANGED <<noinit, CardType, op, req, data>>
        /\ IF req = 1 THEN Return("OK")
           ELSE /\ Goto(IF cnt = 1 THEN "WRITE_WAIT" ELSE "WRITE_DATA")
                /\ UNCHANGED <<res, cs>>
        /\ card' = [card EXCEPT !.busy = FALSE, !.xfer = IF cnt = 1 THEN "none" ELSE @]
    BY <1>4 DEF SendDone
  <2>2. card' \in Card /\ card'.stored = card.stored /\ ~card'.busy
    BY <1>0, <2>1 DEF Card
  <2>3. cnt' \in 0 .. req /\ req - cnt + 1 = req - cnt'
    BY <1>0, <1>1, <2>1
  <2>4. card'.stored = UpTo(req - cnt')
    BY <1>1, <2>1, <2>2, <2>3
  <2>5. CASE req = 1
    <3>1. cnt' = 0 /\ pc' = "idle" /\ res' = "OK" /\ cs' = FALSE /\ polling' = FALSE
      BY <1>0, <1>1, <2>1, <2>5 DEF Return, Goto
    <3>2. DriverTypes' /\ OnPath' /\ Progress'
      BY <1>0, <2>1, <2>3, <3>1 DEF DriverTypes, OnPath, Progress, Reading, Writing
    <3>3. OkMeansAllSectors'
      BY <1>0, <1>1, <2>1, <2>2, <2>4, <3>1 DEF OkMeansAllSectors, UpTo
    <3> QED BY <2>2, <3>1, <3>2, <3>3 DEF DriverInv
  <2>6. CASE req /= 1
    <3>1. /\ pc' = (IF cnt = 1 THEN "WRITE_WAIT" ELSE "WRITE_DATA")
          /\ polling' = FALSE /\ UNCHANGED <<res, cs>>
      BY <2>1, <2>6 DEF Goto
    <3>2. DriverTypes'
      BY <1>0, <2>1, <2>3, <3>1 DEF DriverTypes
    <3>3. OnPath' /\ Progress'
      BY <1>0, <1>1, <2>1, <2>3, <2>4, <3>1 DEF OnPath, Progress, Reading, Writing
    <3>4. OkMeansAllSectors' /\ (pc = "idle" => ~cs)'
      BY <3>1 DEF OkMeansAllSectors
    <3> QED BY <2>2, <3>2, <3>3, <3>4 DEF DriverInv
  <2> QED BY <2>5, <2>6
<1> QED BY <1>2, <1>3, <1>4

LEMMA RequestKeeps ==
    ASSUME DriverInv, FatFs
    PROVE  DriverInv'
<1>0. DriverTypes /\ card' \in Card /\ <<>> \in Seq(1 .. MaxCount)
  <2>1. DriverTypes /\ card \in Card /\ <<>> \in Seq(1 .. MaxCount)
    BY DEF DriverInv
  <2>2. card' = [card EXCEPT !.stored = <<>>]
    BY DEF FatFs, MMC_disk_initialize, MMC_disk_read, MMC_disk_write, MMC_disk_ioctl, Request
  <2> QED BY <2>1, <2>2 DEF Card
<1>1. CASE MMC_disk_initialize
  <2>1. /\ op' = "initialize" /\ req' = 0 /\ cnt' = 0 /\ data' = <<>> /\ CardType' = "UNKNOWN"
        /\ cs' = FALSE /\ pc' = "GO_IDLE_STATE" /\ polling' = FALSE
        /\ res' = "none" /\ UNCHANGED noinit
    BY <1>1 DEF MMC_disk_initialize, Goto
  <2>2. DriverTypes'
    <3>1. data' \in Seq(1 .. MaxCount)
      BY <1>0, <2>1
    <3>2. req' \in 0 .. MaxCount /\ cnt' \in 0 .. req'
      BY <2>1, SdAssumption
    <3> QED BY <1>0, <2>1, <3>1, <3>2 DEF DriverTypes
  <2>3. OnPath' /\ Progress' /\ OkMeansAllSectors'
    BY <2>1 DEF OnPath, Progress, OkMeansAllSectors, Identifying, Reading, Writing
  <2> QED BY <1>0, <2>1, <2>2, <2>3 DEF DriverInv
<1>2. ASSUME NEW o, NEW l, NEW k \in 1 .. MaxCount, Request(o, l, k),
             \/ o = "read" /\ l \in {"READ_SINGLE", "READ_MULTIPLE"}
             \/ o = "write" /\ l \in {"WRITE_SINGLE", "WRITE_MULTIPLE"}
             \/ o = "sync" /\ l = "SYNC_WAIT"
      PROVE  DriverInv'
  <2>1. /\ op' = o /\ req' = k /\ cnt' = k /\ data' = <<>> /\ polling' = FALSE
        /\ (pc' = "idle" /\ res' = "NOTRDY") \/ (pc' = l /\ res' = "none")
        /\ UNCHANGED <<noinit, CardType, cs>> /\ ~cs
    <3>1. pc = "idle" /\ ~cs
      BY <1>2 DEF Request, DriverInv
    <3>2. CASE noinit
      <4>1. Goto("idle") /\ res' = "NOTRDY"
        BY <1>2, <3>2, Zenon DEF Request
      <4>2. op' = o /\ req' = k /\ cnt' = k /\ data' = <<>> /\ UNCHANGED <<noinit, CardType, cs>>
        BY <1>2, Zenon DEF Request
      <4>3. pc' = "idle" /\ polling' = FALSE
        BY <4>1, Zenon DEF Goto
      <4> QED BY <3>1, <4>1, <4>2, <4>3
    <3>3. CASE ~noinit
      BY <1>2, <3>1, <3>3 DEF Request, Goto
    <3> QED BY <3>2, <3>3
  <2>2. DriverTypes'
    <3>1. data' \in Seq(1 .. MaxCount)
      BY <1>0, <2>1
    <3>2. req' \in 0 .. MaxCount /\ cnt' \in 0 .. req'
      BY <1>2, <2>1, SdAssumption
    <3>3. op' \in {"none", "initialize", "read", "write", "sync"} /\ polling' \in BOOLEAN
      BY <1>2, <2>1
    <3> QED BY <1>0, <2>1, <3>1, <3>2, <3>3 DEF DriverTypes
  <2>3. OnPath'
    BY <1>2, <2>1 DEF OnPath, Reading, Writing
  <2>4. Progress'
    <3>1. k \in Nat /\ k > 0
      BY <1>2, SdAssumption
    <3>2. req' = k /\ cnt' = k /\ data' = UpTo(0) /\ (pc' = "idle" \/ pc' = l)
      BY <2>1, UpToFacts
    <3> QED BY <1>2, <3>1, <3>2 DEF Progress, Reading, Writing
  <2>5. OkMeansAllSectors'
    BY <1>2, <2>1 DEF OkMeansAllSectors
  <2> QED BY <1>0, <2>1, <2>2, <2>3, <2>4, <2>5 DEF DriverInv
<1>3. 1 \in 1 .. MaxCount
  BY SdAssumption
<1> QED BY <1>1, <1>2, <1>3 DEF FatFs, MMC_disk_read, MMC_disk_write, MMC_disk_ioctl

\* The timers and the card alone do nothing to a request.
LEMMA OthersKeep ==
    ASSUME DriverInv, UNCHANGED driver, card' \in Card, card'.stored = card.stored,
           card'.busy => card.busy
    PROVE  DriverInv'
<1>1. DriverTypes' /\ OnPath' /\ Progress' /\ (pc = "idle" => ~cs)'
  BY DEF DriverInv, driver, DriverTypes, OnPath, Progress
<1>2. OkMeansAllSectors'
  BY DEF DriverInv, driver, OkMeansAllSectors
<1> QED BY <1>1, <1>2 DEF DriverInv

LEMMA DriverInvStep == ASSUME DriverInv, Next PROVE DriverInv'
<1>0. card \in Card
  BY DEF DriverInv
<1>1. CASE Driver
  BY <1>1, SendCommandKeeps, WaitKeeps, ReceiveKeeps, SendKeeps DEF Driver
<1>2. CASE FatFs
  BY <1>2, RequestKeeps
<1>3. CASE disk_timerproc
  <2>1. UNCHANGED <<driver, card>>
    BY <1>3 DEF disk_timerproc, TimerRead1, TimerWrite1, TimerRead2, TimerWrite2
  <2> QED BY <1>0, <2>1, OthersKeep
<1>4. CASE Remove
  <2>1. UNCHANGED driver /\ card.removals + 1 \in Nat
    BY <1>0, <1>4 DEF Remove, Card
  <2>2. card' = [NoCard EXCEPT !.removals = card.removals + 1, !.stored = card.stored]
    BY <1>4 DEF Remove
  <2>3. card' \in Card /\ card'.stored = card.stored /\ ~card'.busy
    BY <1>0, <2>1, <2>2 DEF Card, NoCard
  <2> QED BY <2>1, <2>3, OthersKeep
<1>5. CASE Insert
  <2>1. PICK k \in Kinds : card' = [card EXCEPT !.kind = k]
    BY <1>5 DEF Insert
  <2>2. card' \in Card /\ card'.stored = card.stored /\ card'.busy = card.busy
    BY <1>0, <2>1 DEF Card
  <2> QED BY <1>5, <2>2, OthersKeep DEF Insert
<1> QED BY <1>1, <1>2, <1>3, <1>4, <1>5 DEF Next

LEMMA InitSafe == Init => SafeInv /\ Identity
<1> SUFFICES ASSUME Init PROVE SafeInv /\ Identity
  OBVIOUS
<1>1. PICK k \in Kinds \cup {"none"} : card = [NoCard EXCEPT !.kind = k]
  BY DEF Init
<1>2. card \in Card /\ card.mode = "native" /\ card.stored = <<>>
  <2>1. <<>> \in Seq(1 .. MaxCount)
    OBVIOUS
  <2> QED BY <1>1, <2>1 DEF Card, NoCard
<1>3. ClockInv
  <2>1. ClockTypes
    <3>1. hit1 \in BOOLEAN /\ hit2 \in BOOLEAN
      BY Zenon DEF Init
    <3>2. age1 \in 0 .. limit1 /\ limit1 = 0 /\ Timer1 \in Nat
      BY DEF Init
    <3>3. Timer2 \in 0 .. ReadyTicks /\ age2 \in 0 .. ReadyTicks
      BY SdAssumption DEF Init
    <3> QED BY <3>1, <3>2, <3>3 DEF ClockTypes
  <2>2. Counting
    BY SdAssumption DEF Init, Counting
  <2> QED BY <2>1, <2>2 DEF ClockInv
<1>4. DriverTypes
  <2>1. data \in Seq(1 .. MaxCount)
    BY DEF Init
  <2>2. req \in 0 .. MaxCount /\ cnt \in 0 .. req
    BY SdAssumption DEF Init
  <2> QED BY <2>1, <2>2 DEF Init, DriverTypes
<1>5. OnPath /\ Progress /\ OkMeansAllSectors /\ ~cs
  BY DEF Init, OnPath, Progress, OkMeansAllSectors, Reading, Writing
<1>6. Identity
  BY <1>2 DEF Init, Identity, Identifying, Trying, Configuring, Asking
<1> QED BY <1>2, <1>3, <1>4, <1>5, <1>6 DEF SafeInv, DriverInv

\* The driver and its timers keep what the invariant says of them, whatever
\* the card does and however disk_timerproc interleaves.
THEOREM DriverInvariant == Spec => []SafeInv
<1>1. SafeInv /\ [Next]_vars => SafeInv'
  <2> SUFFICES ASSUME SafeInv, [Next]_vars PROVE SafeInv'
    OBVIOUS
  <2>1. CASE Next
    BY <2>1, ClockInvStep, DriverInvStep DEF SafeInv
  <2>2. CASE UNCHANGED vars
    <3>1. ClockInv'
      BY <2>2 DEF SafeInv, ClockInv, ClockTypes, Counting, vars, timers
    <3>2. DriverInv'
      BY <2>2, OthersKeep DEF SafeInv, DriverInv, vars
    <3> QED BY <3>1, <3>2 DEF SafeInv
  <2> QED BY <2>1, <2>2
<1> QED BY <1>1, InitSafe, PTL DEF Spec

LEMMA Placed == ASSUME SafeInv PROVE TypeOK
<1>1. pc \in {"idle"} \cup Commands \cup Receives \cup Sends \cup Waits
  BY DEF SafeInv, DriverInv, OnPath, Identifying, Trying, Configuring, Asking, Reading, Writing,
     Commands, Receives, Sends, Waits
<1> QED BY <1>1 DEF SafeInv, DriverInv, ClockInv, ClockTypes, DriverTypes, TypeOK

\* However a request ends, the card is de-selected when the driver is idle.
THEOREM CardIsReleased == Spec => []CardReleased
<1>1. SafeInv => CardReleased
  BY Placed DEF SafeInv, DriverInv, CardReleased
<1> QED BY <1>1, DriverInvariant, PTL

\* RES_OK is never partial.
THEOREM OkIsComplete == Spec => []OkMeansAllSectors
<1>1. SafeInv => OkMeansAllSectors
  BY DEF SafeInv, DriverInv
<1> QED BY <1>1, DriverInvariant, PTL

\* A wait gives up early only if its timer was armed inside disk_timerproc.
THEOREM WaitsAreCut == Spec => []OnlyOverlapsCutWaits
<1>1. SafeInv => OnlyOverlapsCutWaits
  BY SdAssumption DEF SafeInv, ClockInv, ClockTypes, Counting, OnlyOverlapsCutWaits
<1> QED BY <1>1, DriverInvariant, PTL


-------------------------------------------------------------------------------
(* What the driver takes the card for *)

\* The answers from which the driver draws its conclusions.
LEMMA AnswerFacts ==
    ASSUME card \in Card, NEW m, NEW r \in Answers(m), r /= "timeout",
           card.kind = "none" => card.mode = "native"
    PROVE  /\ card.kind /= "none"
           /\ m = "GO_IDLE_STATE" => r = "idle"
           /\ m /= "GO_IDLE_STATE" => card.mode /= "native"
           /\ m = "SEND_IF_COND" =>
                IF r = "illegal" THEN card.kind \in {"MMC", "SDV1"}
                ELSE r \in {"idle", "mismatch"} /\ card.kind \in {"SDV2_SC", "SDV2_HC"}
           /\ m \in AppCommands => (r = "illegal" <=> card.kind = "MMC")
<1>1. card.kind \in {"none", "MMC", "SDV1", "SDV2_SC", "SDV2_HC"} /\ card.mode \in {"native", "idle", "ready"}
  BY SdAssumption DEF Card
<1>2. card.kind /= "none" /\ (m /= "GO_IDLE_STATE" => card.mode /= "native")
  BY DEF Answers, Present, AppCommands, OpConds
<1>3. m = "GO_IDLE_STATE" => r = "idle"
  BY <1>2 DEF Answers, Present, AppCommands, OpConds
<1>4. m = "SEND_IF_COND" =>
        IF r = "illegal" THEN card.kind \in {"MMC", "SDV1"}
        ELSE r \in {"idle", "mismatch"} /\ card.kind \in {"SDV2_SC", "SDV2_HC"}
  BY <1>1, <1>2 DEF Answers, Present, AppCommands, OpConds
<1>5. m \in AppCommands => (r = "illegal" <=> card.kind = "MMC")
  BY <1>2 DEF Answers, Present, AppCommands, OpConds
<1> QED BY <1>2, <1>3, <1>4, <1>5

LEMMA ObeysFacts ==
    ASSUME card \in Card, NEW m, NEW r, card' = [Obeys(m, r) EXCEPT !.busy = FALSE]
    PROVE  /\ card'.kind = card.kind
           /\ \/ card'.mode = card.mode
              \/ m = "GO_IDLE_STATE" /\ r = "idle" /\ card'.mode = "idle"
              \/ m \in OpConds /\ r = "ok"
  BY DEF Obeys, Card

\* SD_Init has given up, or knows what it talks to.
LEMMA InitEndIdentifies ==
    ASSUME card'.kind = "none" => card'.mode = "native", NEW t, InitEnd(t),
           card'.mode /= "native" /\ t /= "UNKNOWN" => t = card'.kind
    PROVE  Identity'
<1>1. CardType' = t
  BY Zenon DEF InitEnd
<1>2. CASE t = "UNKNOWN"
  <2>1. pc' = "idle"
    BY <1>2, Zenon DEF InitEnd, Return, Goto
  <2> QED BY <1>1, <1>2, <2>1 DEF Identity, Identifying, Trying, Configuring, Asking
<1>3. CASE t /= "UNKNOWN"
  <2>1. pc' = "CFG_OCR"
    BY <1>3, Zenon DEF InitEnd, Goto
  <2> QED BY <1>1, <1>3, <2>1 DEF Identity, Identifying, Trying, Configuring, Asking
<1> QED BY <1>2, <1>3

LEMMA BlockLenIdentifies ==
    ASSUME card'.kind = "none" => card'.mode = "native", NEW t, BlockLen(t),
           card'.mode /= "native" => t = card'.kind
    PROVE  Identity'
  BY DEF BlockLen, Goto, Identity, Identifying, Trying, Configuring, Asking

LEMMA LoopIdentifies ==
    ASSUME card'.kind = "none" => card'.mode = "native", NEW t, NEW l, NEW done, LoopV1(t, l, done),
           \/ t = "MMC" /\ l = "SEND_OP_COND" /\ (card'.mode /= "native" => card'.kind = "MMC")
           \/ /\ t = "SDV1" /\ l = "APP_41_V1"
              /\ card'.mode /= "native" => card'.kind \in {"MMC", "SDV1"}
              /\ card'.mode /= "native" /\ done => card'.kind = "SDV1"
    PROVE  Identity'
<1>1. CASE InitEnd("UNKNOWN")
  BY <1>1, InitEndIdentifies
<1>2. CASE done /\ BlockLen(t)
  BY <1>2, BlockLenIdentifies
<1>3. CASE CardType' = t /\ Goto(l) /\ UNCHANGED <<noinit, cs, op, req, cnt, res, data>>
  BY <1>3 DEF Goto, Identity, Identifying, Trying, Configuring, Asking
<1> QED BY <1>1, <1>2, <1>3 DEF LoopV1

\* An answer of the card, or none in time.
LEMMA InitCommandIdentifies ==
    ASSUME DriverInv, Identity, op = "initialize", pc \in Commands, NEW r, AfterCommand(r),
           \/ r \in Answers(pc) /\ card' = [Obeys(pc, r) EXCEPT !.busy = FALSE]
           \/ r = "notready" /\ card' = card
    PROVE  Identity'
<1>1. /\ card \in Card /\ pc \in Identifying \cup Trying \cup Asking
      /\ card.kind \in {"none", "MMC", "SDV1", "SDV2_SC", "SDV2_HC"}
      /\ card.kind = "none" => card.mode = "native"
  BY SdAssumption DEF DriverInv, OnPath, Identity, Identifying, Trying, Configuring, Asking, Reading,
     Writing, Commands, Card
<1>2. \/ r \in {"timeout", "notready"}
      \/ r \in Answers(pc) /\ r /= "timeout" /\ card.kind /= "none"
  BY <1>1, AnswerFacts
<1>3. /\ card'.kind = card.kind
      /\ card'.kind = "none" => card'.mode = "native"
      /\ pc /= "GO_IDLE_STATE" /\ card'.mode /= "native" => card.mode /= "native"
  <2>1. CASE r = "notready" /\ card' = card
    BY <1>1, <2>1
  <2>2. CASE r \in Answers(pc) /\ card' = [Obeys(pc, r) EXCEPT !.busy = FALSE]
    BY <1>1, <2>2, ObeysFacts, AnswerFacts
  <2> QED BY <2>1, <2>2
<1>4. ASSUME NEW l, Continue(l)
      PROVE  pc' = l /\ CardType' = CardType
  BY <1>4 DEF Continue, Goto
<1>5. CASE pc \in Asking
  <2>1. AfterConfigCommand(r)
    BY <1>5 DEF AfterCommand, Asking
  <2>2. CASE ConfigEnd(FALSE)
    <3>1. pc' = "idle" /\ CardType' = CardType
      BY <2>2, Zenon DEF ConfigEnd, Return, Goto
    <3>2. card'.mode /= "native" => CardType = card.kind
      BY <1>3, <1>5 DEF Identity, Configuring, Asking
    <3> QED BY <1>3, <3>1, <3>2 DEF Identity, Identifying, Trying, Configuring, Asking
  <2>3. CASE \E l \in Configuring : Continue(l)
    <3>1. pc' \in Configuring /\ CardType' = CardType
      BY <1>4, <2>3
    <3>2. card'.mode /= "native" => CardType = card.kind
      BY <1>3, <1>5 DEF Identity, Configuring, Asking
    <3> QED BY <1>1, <1>3, <3>1, <3>2 DEF Identity, Identifying, Trying, Configuring, Asking
  <2> QED BY <1>5, <2>1, <2>2, <2>3 DEF AfterConfigCommand, Configuring, Asking
<1>6. CASE pc \in Identifying \cup Trying
  <2>1. AfterInitCommand(r) /\ (pc \in Identifying => CardType = "UNKNOWN")
    BY <1>6 DEF AfterCommand, Identity, Identifying, Trying
  <2>2. ASSUME NEW l \in Identifying, Continue(l), pc \in Identifying,
               card'.mode /= "native" =>
                   /\ l \in {"APP_41", "SD_SEND_OP_COND", "READ_OCR"} => card.kind \in {"SDV2_SC", "SDV2_HC"}
                   /\ l = "APP_CMD" => card.kind \in {"MMC", "SDV1"}
        PROVE  Identity'
    BY <1>1, <1>3, <1>4, <2>1, <2>2 DEF Identity, Identifying, Trying, Configuring, Asking
  <2>3. CASE pc = "GO_IDLE_STATE"
    BY <1>1, <1>3, <2>1, <2>2, <2>3, InitEndIdentifies DEF AfterInitCommand, Identifying
  <2>4. CASE pc = "SEND_IF_COND"
    <3>1. r = "idle" => card.kind \in {"SDV2_SC", "SDV2_HC"}
      BY <1>1, <1>2, <2>4, AnswerFacts
    <3>2. r \notin {"idle", "timeout", "notready", "mismatch"} => card.kind \in {"MMC", "SDV1"}
      BY <1>1, <1>2, <2>4, AnswerFacts
    <3>3. \/ InitEnd(CardType)
          \/ r = "idle" /\ Continue("APP_41")
          \/ r \notin {"idle", "timeout", "notready", "mismatch"} /\ Continue("APP_CMD")
      <4>1. IF r \in {"notready", "timeout", "mismatch"} THEN InitEnd(CardType)
            ELSE IF r = "idle" THEN Continue("APP_41") ELSE Continue("APP_CMD")
        BY <2>1, <2>4 DEF AfterInitCommand
      <4> QED BY <4>1
    <3> QED BY <1>1, <1>3, <2>1, <2>2, <2>4, <3>1, <3>2, <3>3, InitEndIdentifies DEF Identifying
  <2>5. CASE pc \in {"APP_41", "SD_SEND_OP_COND"}
    <3>1. card'.mode /= "native" => card.kind \in {"SDV2_SC", "SDV2_HC"}
      BY <1>3, <2>5 DEF Identity
    <3>2. InitEnd(CardType) \/ \E l \in {"APP_41", "SD_SEND_OP_COND", "READ_OCR"} : Continue(l)
      BY <2>1, <2>5 DEF AfterInitCommand
    <3> QED BY <1>1, <1>3, <2>1, <2>2, <2>5, <3>1, <3>2, InitEndIdentifies DEF Identifying
  <2>6. CASE pc = "READ_OCR"
    <3>1. card'.mode /= "native" => card.kind \in {"SDV2_SC", "SDV2_HC"}
      BY <1>3, <2>6 DEF Identity
    <3> QED BY <1>1, <1>3, <2>1, <2>6, <3>1, InitEndIdentifies, BlockLenIdentifies
            DEF AfterInitCommand, Identifying
  <2>7. CASE pc = "APP_CMD"
    <3>1. card'.mode /= "native" => card.kind \in {"MMC", "SDV1"} /\ (r = "illegal" => card.kind = "MMC")
      BY <1>1, <1>2, <1>3, <2>7, AnswerFacts DEF Identity, AppCommands
    <3>2. (r = "illegal" /\ LoopV1("MMC", "SEND_OP_COND", FALSE)) \/ LoopV1("SDV1", "APP_41_V1", FALSE)
      BY <2>1, <2>7 DEF AfterInitCommand
    <3> QED BY <1>1, <1>3, <3>1, <3>2, LoopIdentifies
  <2>8. CASE pc = "SEND_OP_COND"
    <3>1. card'.mode /= "native" => card.kind = "MMC"
      BY <1>3, <2>8 DEF Identity
    <3>2. LoopV1("MMC", "SEND_OP_COND", r = "ok")
      BY <2>1, <2>8 DEF AfterInitCommand
    <3> QED BY <1>1, <1>3, <3>1, <3>2, LoopIdentifies
  <2>9. CASE pc = "APP_41_V1"
    <3>1. card'.mode /= "native" => card.kind \in {"MMC", "SDV1"} /\ (r \in {"ok", "idle"} => card.kind /= "MMC")
      BY <1>1, <1>2, <1>3, <2>9, AnswerFacts DEF Identity, AppCommands
    <3>2. CASE r \in {"ok", "idle"} /\ Continue("SD_SEND_OP_COND_V1")
      <4>1. pc' = "SD_SEND_OP_COND_V1"
        BY <1>4, <3>2
      <4>2. card'.mode /= "native" => card'.kind = "SDV1"
        BY <1>3, <3>1, <3>2
      <4> QED BY <1>3, <4>1, <4>2 DEF Identity, Identifying, Trying, Configuring, Asking
    <3>3. CASE LoopV1("SDV1", "APP_41_V1", FALSE)
      BY <1>1, <1>3, <3>1, <3>3, LoopIdentifies
    <3> QED BY <2>1, <2>9, <3>2, <3>3 DEF AfterInitCommand
  <2>10. CASE pc = "SD_SEND_OP_COND_V1"
    <3>1. card'.mode /= "native" => card.kind = "SDV1"
      BY <1>3, <2>10 DEF Identity
    <3>2. LoopV1("SDV1", "APP_41_V1", r = "ok")
      BY <2>1, <2>10 DEF AfterInitCommand
    <3> QED BY <1>1, <1>3, <3>1, <3>2, LoopIdentifies
  <2>11. CASE pc = "SET_BLOCKLEN"
    <3>1. card'.mode /= "native" => CardType = card.kind
      BY <1>3, <2>11 DEF Identity
    <3>2. InitEnd(CardType) \/ InitEnd("UNKNOWN")
      BY <2>1, <2>11 DEF AfterInitCommand
    <3> QED BY <1>1, <1>3, <3>1, <3>2, InitEndIdentifies
  <2> QED BY <1>6, <2>3, <2>4, <2>5, <2>6, <2>7, <2>8, <2>9, <2>10, <2>11 DEF Identifying, Trying
<1> QED BY <1>1, <1>5, <1>6

\* What a step outside of SD_Init leaves alone.
LEMMA TransferIdentifies ==
    ASSUME Identity, UNCHANGED CardType, card'.kind = card.kind, card'.mode = card.mode,
           \/ pc' = pc
           \/ pc \notin Identifying \cup Trying /\ pc' \in {"idle"} \cup Reading \cup Writing \cup Waits
    PROVE  Identity'
<1>1. CASE pc' = pc
  BY <1>1 DEF Identity
<1>2. CASE pc \notin Identifying \cup Trying /\ pc' \in {"idle"} \cup Reading \cup Writing \cup Waits
  <2>1. pc' \notin Identifying \cup Trying \cup Configuring
    BY <1>2 DEF Identifying, Trying, Configuring, Asking, Reading, Writing, Waits
  <2> QED BY <1>2, <2>1 DEF Identity, Identifying, Trying
<1> QED BY <1>1, <1>2

\* The end of SD_ReadConfiguration: the drive may be used.
LEMMA ReceiveIdentifies ==
    ASSUME DriverInv, Identity, ReceiveBlock \/ ReceiveTimeout
    PROVE  Identity'
<1>0. card \in Card /\ pc \in Receives /\ OnPath
  BY DEF DriverInv, ReceiveBlock, ReceiveTimeout
<1>1. card'.kind = card.kind /\ card'.mode = card.mode
  BY <1>0 DEF ReceiveBlock, ReceiveTimeout, Card
<1>2. CASE pc = "READ_DATA"
  <2>1. pc \notin Identifying \cup Trying
    BY <1>2 DEF Identifying, Trying
  <2>2. UNCHANGED CardType /\ pc' \in {"idle"} \cup Reading
    <3>1. CASE ReceiveBlock
      BY <1>2, <3>1 DEF ReceiveBlock, Return, Goto, Reading
    <3>2. CASE ReceiveTimeout
      BY <1>2, <3>2 DEF ReceiveTimeout, TransferEnd, Continue, Return, Goto, Reading
    <3> QED BY <3>1, <3>2
  <2> QED BY <1>1, <2>1, <2>2, TransferIdentifies
<1>3. CASE pc /= "READ_DATA"
  <2>1. pc \in Configuring
    BY <1>0, <1>3 DEF Receives, Configuring
  <2>2. card'.mode /= "native" => CardType = card'.kind
    BY <1>1, <2>1 DEF Identity, Configuring, Asking
  <2>3. card'.kind = "none" => card'.mode = "native"
    BY <1>1 DEF Identity
  <2>4. CASE \E ok \in BOOLEAN : ConfigEnd(ok)
    <3>1. pc' = "idle" /\ CardType' = CardType
      BY <2>4, Zenon DEF ConfigEnd, Return, Goto
    <3> QED BY <2>2, <2>3, <3>1 DEF Identity, Identifying, Trying, Configuring, Asking
  <2>5. CASE \E l \in Configuring : Continue(l)
    <3>1. pc' \in Configuring /\ CardType' = CardType
      BY <2>5 DEF Continue, Goto
    <3> QED BY <2>2, <2>3, <3>1 DEF Identity, Identifying, Trying, Configuring, Asking
  <2> QED BY <1>0, <1>3, <2>4, <2>5 DEF ReceiveBlock, ReceiveTimeout, Receives, Configuring, Asking
<1> QED BY <1>2, <1>3

LEMMA IdentityStep ==
    ASSUME DriverInv, Identity, Next
    PROVE  Identity'
<1>0. /\ card \in Card /\ OnPath
      /\ card.kind = "none" => card.mode = "native"
  BY DEF DriverInv, Identity
<1>1. CASE op = "initialize" /\ (SD_SendCommand \/ SendCommandNotReady)
  BY <1>1, InitCommandIdentifies DEF SD_SendCommand, SendCommandNotReady
<1>2. CASE op /= "initialize" /\ (SD_SendCommand \/ SendCommandNotReady)
  <2>1. PICK r : /\ AfterTransferCommand(r) /\ pc \in Commands
                 /\ card' = [Obeys(pc, r) EXCEPT !.busy = FALSE] \/ card' = card
    BY <1>2 DEF SD_SendCommand, SendCommandNotReady, AfterCommand
  <2>2. pc \in Reading \cup Writing
    BY <1>0, <1>2, <2>1 DEF OnPath, Commands
  <2>3. UNCHANGED CardType /\ pc' \in {"idle"} \cup Reading \cup Writing
    BY <2>1, <2>2 DEF AfterTransferCommand, TransferEnd, Continue, Return, Goto, Reading, Writing, Commands
  <2>4. card'.kind = card.kind /\ card'.mode = card.mode
    BY <1>0, <2>1, <2>2, ObeysFacts DEF OpConds, Reading, Writing
  <2>5. pc \notin Identifying \cup Trying
    BY <2>2 DEF Identifying, Trying, Reading, Writing
  <2> QED BY <2>3, <2>4, <2>5, TransferIdentifies
<1>3. CASE ReceiveBlock \/ ReceiveTimeout
  BY <1>3, ReceiveIdentifies
<1>4. CASE WaitForReady \/ ReceiveStart \/ SendBlock \/ disk_timerproc
  <2>1. UNCHANGED <<CardType, pc>>
    BY <1>4 DEF WaitForReady, ReceiveStart, SendBlock, disk_timerproc, TimerRead1, TimerWrite1, TimerRead2,
       TimerWrite2, driver
  <2>2. card'.kind = card.kind /\ card'.mode = card.mode
    BY <1>0, <1>4 DEF WaitForReady, ReceiveStart, SendBlock, disk_timerproc, TimerRead1, TimerWrite1, TimerRead2,
       TimerWrite2, Card
  <2> QED BY <1>0, <2>1, <2>2, TransferIdentifies
<1>5. CASE WaitDone \/ WaitTimeout \/ SendRejected \/ SendDone \/ SendTimeout
  <2>1. pc \in Waits \cup Sends
    BY <1>5 DEF WaitDone, WaitTimeout, SendRejected, SendDone, SendTimeout
  <2>2. pc \notin Identifying \cup Trying
    BY <2>1 DEF Waits, Sends, Identifying, Trying
  <2>3. UNCHANGED CardType /\ pc' \in {"idle"} \cup Writing
    BY <1>5 DEF WaitDone, WaitTimeout, SendRejected, SendDone, SendTimeout, AfterWait, SendFailed,
       TransferEnd, Continue, Return, Goto, Writing
  <2>4. card'.kind = card.kind /\ card'.mode = card.mode
    BY <1>0, <1>5 DEF WaitDone, WaitTimeout, SendRejected, SendDone, SendTimeout, Settles, Card
  <2> QED BY <2>2, <2>3, <2>4, TransferIdentifies
<1>6. CASE MMC_disk_initialize
  <2>1. /\ pc' = "GO_IDLE_STATE" /\ CardType' = "UNKNOWN"
        /\ card'.kind = card.kind /\ card'.mode = card.mode
    BY <1>0, <1>6 DEF MMC_disk_initialize, Goto, Card
  <2> QED BY <1>0, <2>1 DEF Identity, Identifying, Trying, Configuring, Asking
<1>7. ASSUME NEW o, NEW l, NEW k, Request(o, l, k), l \in Reading \cup Writing \cup Waits
      PROVE  Identity'
  <2>1. pc = "idle" /\ CardType' = CardType /\ card' = [card EXCEPT !.stored = <<>>]
    BY <1>7, Zenon DEF Request
  <2>2. pc' \in {"idle"} \cup Reading \cup Writing \cup Waits
    BY <1>7 DEF Request, Goto
  <2>3. pc \notin Identifying \cup Trying
    BY <2>1 DEF Identifying, Trying
  <2>4. card'.kind = card.kind /\ card'.mode = card.mode
    BY <1>0, <2>1 DEF Card
  <2> QED BY <2>1, <2>2, <2>3, <2>4, TransferIdentifies
<1>8. CASE Remove
  <2>1. card'.kind = "none" /\ card'.mode = "native" /\ UNCHANGED <<CardType, pc>>
    BY <1>8 DEF Remove, NoCard, driver
  <2> QED BY <2>1 DEF Identity
<1>9. CASE Insert
  <2>1. card'.mode = "native" /\ UNCHANGED <<CardType, pc>>
    BY <1>0, <1>9 DEF Insert, Present, driver, Card
  <2> QED BY <2>1 DEF Identity
<1>10. CASE MMC_disk_read \/ MMC_disk_write \/ MMC_disk_ioctl
  BY <1>7, <1>10 DEF MMC_disk_read, MMC_disk_write, MMC_disk_ioctl, Reading, Writing, Waits
<1> QED BY <1>1, <1>2, <1>3, <1>4, <1>5, <1>6, <1>8, <1>9, <1>10 DEF Next, Driver, FatFs

\* However often the drive is initialised, whatever was lost on the bus and
\* whichever card was put in, a card that has come through its initialisation
\* is not taken for one of another kind.
THEOREM CardIsIdentified == Spec => []CardIdentified
<1>1. SafeInv /\ Identity /\ [Next]_vars => Identity'
  <2> SUFFICES ASSUME SafeInv, Identity, [Next]_vars PROVE Identity'
    OBVIOUS
  <2>1. CASE UNCHANGED vars
    BY <2>1 DEF Identity, vars, driver
  <2> QED BY <2>1, IdentityStep DEF SafeInv
<1>2. SafeInv /\ Identity => CardIdentified
  BY DEF Identity, CardIdentified, Guessing, Identifying, Trying
<1> QED BY <1>1, <1>2, InitSafe, DriverInvariant, PTL DEF Spec
===============================================================================
