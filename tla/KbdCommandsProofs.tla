------------------------- MODULE KbdCommandsProofs -------------------------
(***************************************************************************)
(* Theorems about KbdCommands, for every ring size, every set of commands  *)
(* and every machine the parameters describe.                              *)
(***************************************************************************)
EXTENDS KbdCommands, FiniteSetTheorems, SequenceTheorems, TLAPS

(***************************************************************************)
(* What makes the bounds inductive.  While kmain is between its load of    *)
(* pending_commands and its store, the handler may only have lowered the   *)
(* variable: the register copy is an upper bound of it.                    *)
(***************************************************************************)
RegInv ==
  /\ pc \in {"add", "count", "first", "query", "query_count"} => pending_commands <= reg
  /\ pc \in {"count", "query_count"} => reg < COMMAND_QUEUE_SIZE

\* The head and the tail of a sequence that is not empty.
LEMMA HeadTailTyped ==
  ASSUME NEW S, NEW s \in Seq(S), s # <<>>
  PROVE  Head(s) \in S /\ Tail(s) \in Seq(S)
BY HeadTailProperties

\* An index reduced modulo the ring size is a slot of the ring.
LEMMA ModInRing ==
  \A a \in Int : a % COMMAND_QUEUE_SIZE \in 0..COMMAND_QUEUE_SIZE-1
BY SizeAssumption

\* The slot arithmetic of current_command stays inside the ring.
LEMMA SlotInRing ==
  ASSUME NEW n \in Int, next_command_idx \in Int
  PROVE  SlotOf(n) \in 0..COMMAND_QUEUE_SIZE-1
<1>1. next_command_idx + COMMAND_QUEUE_SIZE - n \in Int
  BY SizeAssumption
<1> QED BY <1>1, ModInRing DEF SlotOf

\* What current_command returns is a command, also when nothing is pending.
LEMMA CommandTyped ==
  ASSUME TypeOK, NEW n \in Int
  PROVE  CommandAt(n) \in ps2_kbd_command
<1>1. CASE n > 0
  <2>1. next_command_idx \in Int
    BY SizeAssumption DEF TypeOK
  <2>2. SlotOf(n) \in 0..COMMAND_QUEUE_SIZE-1
    BY <2>1, SlotInRing
  <2> QED BY <1>1, <2>2 DEF CommandAt, TypeOK
<1>2. CASE ~(n > 0)
  BY <1>2 DEF CommandAt, ZeroCommand, ps2_kbd_command
<1> QED BY <1>1, <1>2

\* The bytes of a command fit the wire.
LEMMA CommandBytes ==
  ASSUME NEW c \in ps2_kbd_command
  PROVE  c.com \in 0..255 /\ c.arg \in 0..255
BY DEF ps2_kbd_command

\* The query of the scan code set is a command like any other.
LEMMA QueryTyped == QueryCommand \in ps2_kbd_command
BY DEF QueryCommand, ps2_kbd_command, PS2_KBD_COM_SET_SCAN_SET

IInv == TypeOK /\ RegInv

\* The driver as the boot code leaves it satisfies the invariant.
LEMMA InitIInv == Init => IInv
<1> SUFFICES ASSUME Init PROVE IInv
  OBVIOUS
<1>1. /\ command_queue \in [0..COMMAND_QUEUE_SIZE-1 -> ps2_kbd_command]
      /\ cur \in ps2_kbd_command
  BY DEF Init, ps2_kbd_command, ZeroCommand
<1>2. ibuf \in 0..511 \union {NoByte} /\ obuf \in 0..255 \union {NoByte}
  BY DEF Init
<1>3. /\ next_command_idx \in 0..COMMAND_QUEUE_SIZE-1
      /\ pending_commands \in 0..COMMAND_QUEUE_SIZE /\ reg \in 0..COMMAND_QUEUE_SIZE
      /\ calls \in 0..MaxCalls /\ keys \in 0..MaxKeys /\ resends \in 0..MaxResends
      /\ kbd_scan_code_set \in 1..3 /\ devSet \in 1..3
      /\ last \in 0..255 /\ devWait \in 0..255
  BY SizeAssumption, MachineAssumption DEF Init
<1>4. /\ driver_state \in {STATE_READY, STATE_WAITING_COM_ACK, STATE_WAITING_ARG_ACK}
      /\ pc = "idle" /\ irqpc = "idle"
      /\ enabled \in BOOLEAN /\ irq \in BOOLEAN /\ dropped \in BOOLEAN
      /\ missed \in BOOLEAN /\ lost \in BOOLEAN
  BY DEF Init
<1>5. /\ toDev \in Seq(0..255) /\ fromDev \in Seq(0..255) /\ decoded \in Seq(0..255)
      /\ accepted \in Seq(ps2_kbd_command) /\ sent \in Seq(ps2_kbd_command)
  <2>1. <<>> \in Seq(0..255) /\ <<>> \in Seq(ps2_kbd_command)
    OBVIOUS
  <2> QED BY <2>1 DEF Init
<1> QED BY <1>1, <1>2, <1>3, <1>4, <1>5 DEF IInv, TypeOK, RegInv, PcValues

\* queue_add keeps the ring typed and hands a register copy to queue_count.
LEMMA QueueAddTyped ==
  ASSUME IInv, NEW c \in ps2_kbd_command, NEW from, NEW added, NEW full,
         queue_add(c, from, added, full),
         from \in {"add", "query"}
  PROVE  /\ command_queue' \in [0..COMMAND_QUEUE_SIZE-1 -> ps2_kbd_command]
         /\ next_command_idx' \in 0..COMMAND_QUEUE_SIZE-1
         /\ reg' \in 0..COMMAND_QUEUE_SIZE
         /\ pending_commands <= reg'
         /\ pc' = added => reg' < COMMAND_QUEUE_SIZE \/ added = full
         /\ pc' \in {added, full}
<1>1. PICK n \in Loaded : queue_add(c, from, added, full)!(n)
  BY DEF queue_add
<1>2. n \in 0..COMMAND_QUEUE_SIZE /\ pending_commands <= n
  BY <1>1, SizeAssumption DEF Loaded, IInv, TypeOK, RegInv, Goto
<1>3. (next_command_idx + 1) % COMMAND_QUEUE_SIZE \in 0..COMMAND_QUEUE_SIZE-1
  <2>1. next_command_idx + 1 \in Int
    BY SizeAssumption DEF IInv, TypeOK
  <2> QED BY <2>1, ModInRing
<1> QED BY <1>1, <1>2, <1>3, SizeAssumption DEF IInv, TypeOK, Goto

\* Writing to the input buffer keeps it typed.
LEMMA OutbTyped ==
  ASSUME IInv, NEW w \in 0..511 \union {NoByte}, outb(w)
  PROVE  ibuf' \in 0..511 \union {NoByte} /\ lost' \in BOOLEAN
BY DEF IInv, TypeOK, outb

LEMMA PortWriteTyped ==
  ASSUME IInv, NEW b \in 0..255, ps2_port1_write(b)
  PROVE  ibuf' \in 0..511 \union {NoByte} /\ lost' \in BOOLEAN
<1>1. b \in 0..511 \union {NoByte} /\ outb(b)
  BY DEF ps2_port1_write
<1> QED BY <1>1, OutbTyped

LEMMA PortCommandTyped ==
  ASSUME IInv, NEW c \in 0..255, ps2_command(c)
  PROVE  /\ ibuf' \in 0..511 \union {NoByte} /\ lost' \in BOOLEAN
         /\ enabled' \in BOOLEAN
<1>1. CASE PromptCommands
  BY <1>1, OutbTyped DEF ps2_command, Obey
<1>2. CASE ~PromptCommands
  <2>1. command_data + c \in 0..511
    BY DEF command_data
  <2> QED BY <1>2, <2>1, OutbTyped DEF ps2_command, IInv, TypeOK
<1> QED BY <1>1, <1>2

\* handle_next_command keeps the types and only ever lowers the counter.
LEMMA HandleNextTyped ==
  ASSUME IInv, handle_next_command
  PROVE  /\ pending_commands' \in 0..COMMAND_QUEUE_SIZE
         /\ pending_commands' <= pending_commands
         /\ driver_state' \in {STATE_READY, STATE_WAITING_COM_ACK, STATE_WAITING_ARG_ACK}
         /\ ibuf' \in 0..511 \union {NoByte} /\ lost' \in BOOLEAN
         /\ sent' \in Seq(ps2_kbd_command)
         /\ UNCHANGED <<command_queue, next_command_idx>>
<1> DEFINE left == IF pending_commands > 0 THEN pending_commands - 1 ELSE 0
<1>1. left \in 0..COMMAND_QUEUE_SIZE /\ left <= pending_commands
  BY SizeAssumption DEF IInv, TypeOK
<1>2. CommandAt(left) \in ps2_kbd_command /\ CommandAt(left).com \in 0..255
  <2>1. left \in Int
    BY <1>1, SizeAssumption
  <2>2. CommandAt(left) \in ps2_kbd_command
    BY <2>1, CommandTyped DEF IInv
  <2> QED BY <2>2, CommandBytes
<1> HIDE DEF left
<1>3. /\ pending_commands' = left
      /\ IF left > 0
         THEN /\ driver_state' = STATE_WAITING_COM_ACK
              /\ ps2_port1_write(CommandAt(left).com)
              /\ sent' = Append(sent, CommandAt(left))
         ELSE /\ driver_state' = STATE_READY
              /\ UNCHANGED <<ibuf, sent, lost>>
      /\ UNCHANGED <<command_queue, next_command_idx>>
  BY DEF handle_next_command, left
<1>4. CASE left > 0
  <2>1. /\ ps2_port1_write(CommandAt(left).com)
        /\ sent' = Append(sent, CommandAt(left))
        /\ driver_state' = STATE_WAITING_COM_ACK
    BY <1>3, <1>4
  <2>2. ibuf' \in 0..511 \union {NoByte} /\ lost' \in BOOLEAN
    BY <1>2, <2>1, PortWriteTyped
  <2> QED BY <1>1, <1>2, <1>3, <2>1, <2>2 DEF IInv, TypeOK
<1>5. CASE ~(left > 0)
  BY <1>1, <1>3, <1>5 DEF IInv, TypeOK
<1> QED BY <1>4, <1>5

\* A byte taken from the output buffer is a byte, and kmain does not move.
LEMMA TakeByteTyped ==
  ASSUME IInv, TakeByte
  PROVE  /\ irq' \in BOOLEAN /\ obuf' \in 0..255 \union {NoByte}
         /\ last' \in 0..255 /\ obuf \in 0..255
BY DEF IInv, TypeOK, TakeByte, NoByte

\* The steps of kmain.
LEMMA MainIInv ==
  ASSUME IInv, \/ \E c \in Calls : CallCommand(c)
               \/ ps2_kbd_command_arg
  PROVE  IInv'
<1> USE SizeAssumption DEF IInv, RegInv, MainRuns, Goto
<1>1. CASE \E c \in Calls : CallCommand(c)
  BY <1>1, CallsAssumption, MachineAssumption
     DEF CallCommand, TypeOK, PcValues, driverVars, ctrlVars, devVars, historyVars
<1>2. CASE PortDisable
  <2>1. /\ ibuf' \in 0..511 \union {NoByte} /\ lost' \in BOOLEAN
        /\ enabled' \in BOOLEAN
    <3>1. COMMAND_PORT1_DISABLE \in 0..255
      BY DEF COMMAND_PORT1_DISABLE
    <3> QED BY <1>2, <3>1, PortCommandTyped DEF PortDisable
  <2> QED BY <1>2, <2>1 DEF PortDisable, TypeOK, PcValues, driverVars, devVars
<1>3. CASE CheckRoom
  BY <1>3 DEF CheckRoom, TypeOK, PcValues, driverVars, ctrlVars, devVars, historyVars
<1>4. CASE QueueCommand
  <2>1. queue_add(cur, "add", "count", "first") /\ cur \in ps2_kbd_command
    BY <1>4 DEF QueueCommand, TypeOK
  <2>2. /\ command_queue' \in [0..COMMAND_QUEUE_SIZE-1 -> ps2_kbd_command]
        /\ next_command_idx' \in 0..COMMAND_QUEUE_SIZE-1
        /\ reg' \in 0..COMMAND_QUEUE_SIZE
        /\ pending_commands <= reg'
        /\ pc' = "count" => reg' < COMMAND_QUEUE_SIZE
        /\ pc' \in {"count", "first"}
    BY <2>1, QueueAddTyped
  <2> QED BY <1>4, <2>2 DEF QueueCommand, TypeOK, PcValues, ctrlVars, devVars, historyVars
<1>5. CASE CountCommand
  <2>1. cur \in ps2_kbd_command
    BY DEF TypeOK
  <2> QED BY <1>5, <2>1
     DEF CountCommand, queue_count, Loaded, TypeOK, PcValues, ctrlVars, devVars
<1>6. CASE IfFirst
  BY <1>6 DEF IfFirst, Loaded, TypeOK, PcValues, ctrlVars, devVars, historyVars
<1>7. CASE SendFirst
  <2>1. cur \in ps2_kbd_command /\ cur.com \in 0..255
    BY CommandBytes DEF TypeOK
  <2>2. ibuf' \in 0..511 \union {NoByte} /\ lost' \in BOOLEAN
    BY <1>7, <2>1, PortWriteTyped DEF SendFirst
  <2> QED BY <1>7, <2>1, <2>2 DEF SendFirst, TypeOK, PcValues, driverVars, devVars
<1>8. CASE QueueQuery
  <2>1. queue_add(QueryCommand, "query", "query_count", "enable")
    BY <1>8 DEF QueueQuery
  <2>2. /\ command_queue' \in [0..COMMAND_QUEUE_SIZE-1 -> ps2_kbd_command]
        /\ next_command_idx' \in 0..COMMAND_QUEUE_SIZE-1
        /\ reg' \in 0..COMMAND_QUEUE_SIZE
        /\ pending_commands <= reg'
        /\ pc' = "query_count" => reg' < COMMAND_QUEUE_SIZE
        /\ pc' \in {"query_count", "enable"}
    BY <2>1, QueueAddTyped, QueryTyped
  <2>3. dropped' \in BOOLEAN /\ missed' \in BOOLEAN /\ lost' \in BOOLEAN
    BY <1>8 DEF QueueQuery, TypeOK
  <2> QED BY <1>8, <2>2, <2>3 DEF QueueQuery, TypeOK, PcValues, ctrlVars, devVars
<1>9. CASE SkipQuery
  BY <1>9 DEF SkipQuery, TypeOK, PcValues, driverVars, ctrlVars, devVars, historyVars
<1>10. CASE CountQuery
  BY <1>10, QueryTyped
     DEF CountQuery, queue_count, Loaded, TypeOK, PcValues, ctrlVars, devVars
<1>11. CASE PortEnable
  <2>1. /\ ibuf' \in 0..511 \union {NoByte} /\ lost' \in BOOLEAN
        /\ enabled' \in BOOLEAN
    <3>1. COMMAND_PORT1_ENABLE \in 0..255
      BY DEF COMMAND_PORT1_ENABLE
    <3> QED BY <1>11, <3>1, PortCommandTyped DEF PortEnable
  <2> QED BY <1>11, <2>1 DEF PortEnable, TypeOK, PcValues, driverVars, devVars
<1> QED
  BY <1>1, <1>2, <1>3, <1>4, <1>5, <1>6, <1>7, <1>8, <1>9, <1>10, <1>11
     DEF ps2_kbd_command_arg

\* The byte ps2_data_read returns leaves kbd_scan_code_set a scan code set.
LEMMA LearnTyped ==
  ASSUME IInv, NEW b, LearnScanSet(b)
  PROVE  kbd_scan_code_set' \in 1..3
<1>1. CASE \E n \in 1..3 : ScanCodeSetByte[n] = b
  <2>1. (CHOOSE n \in 1..3 : ScanCodeSetByte[n] = b) \in 1..3
    BY <1>1
  <2> QED BY <1>1, <2>1 DEF LearnScanSet
<1>2. CASE ~ \E n \in 1..3 : ScanCodeSetByte[n] = b
  BY <1>2 DEF LearnScanSet, IInv, TypeOK
<1> QED BY <1>1, <1>2

\* The current command is typed, and so are its bytes.
LEMMA CurrentTyped ==
  ASSUME IInv
  PROVE  current_command.com \in 0..255 /\ current_command.arg \in 0..255
<1>1. pending_commands \in Int
  BY SizeAssumption DEF IInv, TypeOK
<1>2. current_command \in ps2_kbd_command
  BY <1>1, CommandTyped DEF IInv, current_command
<1> QED BY <1>2, CommandBytes

\* The steps of the interrupt handler.
LEMMA IrqIInv ==
  ASSUME IInv, kbd_int_handler
  PROVE  IInv'
<1> USE SizeAssumption DEF IInv, RegInv
<1>1. CASE IrqSpurious
  <2>1. irq' \in BOOLEAN
    BY <1>1 DEF IrqSpurious
  <2> QED BY <1>1, <2>1 DEF IrqSpurious, TypeOK, driverVars, mainVars, devVars, historyVars
<1>2. CASE IrqScanCode
  <2>1. /\ irq' \in BOOLEAN /\ obuf' \in 0..255 \union {NoByte}
        /\ last' \in 0..255 /\ obuf \in 0..255
    BY <1>2, TakeByteTyped DEF IrqScanCode
  <2> QED BY <1>2, <2>1 DEF IrqScanCode, TypeOK, driverVars, mainVars, devVars
<1>3. CASE IrqResend
  <2>1. /\ irq' \in BOOLEAN /\ obuf' \in 0..255 \union {NoByte} /\ last' \in 0..255
    BY <1>3, TakeByteTyped DEF IrqResend
  <2>2. ibuf' \in 0..511 \union {NoByte} /\ lost' \in BOOLEAN
    BY <1>3, CurrentTyped, PortWriteTyped DEF IrqResend
  <2> QED BY <1>3, <2>1, <2>2 DEF IrqResend, TypeOK, driverVars, mainVars, devVars
<1>4. CASE IrqSendArg
  <2>1. /\ irq' \in BOOLEAN /\ obuf' \in 0..255 \union {NoByte} /\ last' \in 0..255
    BY <1>4, TakeByteTyped DEF IrqSendArg
  <2>2. ibuf' \in 0..511 \union {NoByte} /\ lost' \in BOOLEAN
    BY <1>4, CurrentTyped, PortWriteTyped DEF IrqSendArg
  <2> QED BY <1>4, <2>1, <2>2 DEF IrqSendArg, TypeOK, mainVars, devVars
<1>5. CASE IrqCommandDone \/ IrqArgDone
  <2>1. /\ irq' \in BOOLEAN /\ obuf' \in 0..255 \union {NoByte} /\ last' \in 0..255
    BY <1>5, TakeByteTyped DEF IrqCommandDone, IrqArgDone
  <2>2. handle_next_command
    BY <1>5 DEF IrqCommandDone, IrqArgDone
  <2>3. UNCHANGED <<kbd_scan_code_set, mainVars, irqpc, enabled, devVars, accepted,
                    decoded, dropped, missed>>
    BY <1>5 DEF IrqCommandDone, IrqArgDone
  <2>4. /\ pending_commands' \in 0..COMMAND_QUEUE_SIZE
        /\ pending_commands' <= pending_commands
        /\ driver_state' \in {STATE_READY, STATE_WAITING_COM_ACK, STATE_WAITING_ARG_ACK}
        /\ ibuf' \in 0..511 \union {NoByte} /\ lost' \in BOOLEAN
        /\ sent' \in Seq(ps2_kbd_command)
        /\ UNCHANGED <<command_queue, next_command_idx>>
    BY <2>2, HandleNextTyped
  <2> QED BY <2>1, <2>3, <2>4 DEF TypeOK, mainVars, devVars
<1>6. CASE IrqPoll
  <2>1. /\ irq' \in BOOLEAN /\ obuf' \in 0..255 \union {NoByte} /\ last' \in 0..255
    BY <1>6, TakeByteTyped DEF IrqPoll
  <2> QED BY <1>6, <2>1 DEF IrqPoll, TypeOK, driverVars, mainVars, devVars, historyVars
<1>7. CASE PollHit \/ PollMiss
  <2>1. kbd_scan_code_set' \in 1..3
    BY <1>7, LearnTyped DEF PollHit, PollMiss
  <2>2. handle_next_command
    BY <1>7 DEF PollHit, PollMiss
  <2>3. irq' \in BOOLEAN /\ obuf' \in 0..255 \union {NoByte} /\ last' \in 0..255
    BY <1>7 DEF PollHit, PollMiss, TypeOK, NoByte
  <2>4. /\ irqpc' = "idle"
        /\ UNCHANGED <<mainVars, enabled, devVars, accepted, decoded, dropped>>
        /\ missed' \in BOOLEAN
    BY <1>7 DEF PollHit, PollMiss, TypeOK
  <2>5. /\ pending_commands' \in 0..COMMAND_QUEUE_SIZE
        /\ pending_commands' <= pending_commands
        /\ driver_state' \in {STATE_READY, STATE_WAITING_COM_ACK, STATE_WAITING_ARG_ACK}
        /\ ibuf' \in 0..511 \union {NoByte} /\ lost' \in BOOLEAN
        /\ sent' \in Seq(ps2_kbd_command)
        /\ UNCHANGED <<command_queue, next_command_idx>>
    BY <2>2, HandleNextTyped
  <2> QED BY <2>1, <2>3, <2>4, <2>5 DEF TypeOK, mainVars, devVars
<1> QED BY <1>1, <1>2, <1>3, <1>4, <1>5, <1>6, <1>7 DEF kbd_int_handler

\* The steps of the controller, the keyboard and the user.
LEMMA DeviceIInv ==
  ASSUME IInv, Controller \/ Keyboard \/ KeyPressed
  PROVE  IInv'
<1> USE SizeAssumption, MachineAssumption DEF IInv, RegInv
<1>1. CASE PortReceive
  <2>1. fromDev \in Seq(0..255) /\ fromDev # <<>>
    BY <1>1 DEF PortReceive, TypeOK
  <2>2. Head(fromDev) \in 0..255 /\ Tail(fromDev) \in Seq(0..255)
    BY <2>1, HeadTailTyped
  <2> QED BY <1>1, <2>2 DEF PortReceive, TypeOK, driverVars, mainVars, historyVars
<1>2. CASE KeyPressed
  BY <1>2 DEF KeyPressed, KeyByte, TypeOK, driverVars, mainVars, ctrlVars, historyVars
<1>3. CASE Keyboard
  <2>1. \A b \in 0..255 : <<b>> \in Seq(0..255)
    OBVIOUS
  <2>2. \A b, c \in 0..255 : <<b, c>> \in Seq(0..255)
    OBVIOUS
  <2>3. /\ ACK \in 0..255 /\ RESEND \in 0..255 /\ PS2_KBD_COM_ECHO \in 0..255
        /\ ScanCodeSetByte[devSet] \in 0..255
    BY DEF ACK, RESEND, PS2_KBD_COM_ECHO, ScanCodeSetByte, TypeOK
  <2>4. PICK a \in Seq(0..255) : DeviceAnswers(a)
    <3>1. CASE DeviceRefuses
      BY <3>1, <2>1, <2>3 DEF DeviceRefuses
    <3>2. CASE DeviceTakesCommand
      BY <3>2, <2>1, <2>3 DEF DeviceTakesCommand
    <3>3. CASE DeviceTakesArg
      BY <3>3, <2>1, <2>2, <2>3 DEF DeviceTakesArg
    <3>4. CASE DeviceRejects
      BY <3>4, <2>1, <2>3 DEF DeviceRejects
    <3> QED BY <1>3, <3>1, <3>2, <3>3, <3>4 DEF Keyboard
  <2>5. toDev' \in Seq(0..255) /\ fromDev' \in Seq(0..255) /\ Head(toDev) \in 0..255
    <3>1. toDev \in Seq(0..255) /\ toDev # <<>> /\ fromDev \in Seq(0..255)
      BY <2>4 DEF DeviceAnswers, TypeOK
    <3>2. Head(toDev) \in 0..255 /\ Tail(toDev) \in Seq(0..255)
      BY <3>1, HeadTailTyped
    <3>3. fromDev \o a \in Seq(0..255)
      BY <3>1, ConcatProperties
    <3> QED BY <2>4, <3>2, <3>3 DEF DeviceAnswers
  <2>6. resends' \in 0..MaxResends /\ devWait' \in 0..255 /\ devSet' \in 1..3
    <3>1. /\ resends \in 0..MaxResends /\ devWait \in 0..255 /\ devSet \in 1..3
          /\ Head(toDev) \in 0..255
      BY <2>5 DEF TypeOK
    <3>2. CASE DeviceRefuses
      BY <3>1, <3>2 DEF DeviceRefuses
    <3>3. CASE DeviceTakesCommand
      <4>1. /\ devWait' = 0 \/ devWait' = Head(toDev)
            /\ devSet' = devSet /\ resends' = resends
        BY <3>3, Zenon DEF DeviceTakesCommand
      <4>2. devWait' \in 0..255
        <5>1. CASE devWait' = 0
          BY <5>1
        <5>2. CASE devWait' = Head(toDev)
          BY <3>1, <5>2, Zenon
        <5> QED BY <4>1, <5>1, <5>2
      <4> QED BY <3>1, <4>1, <4>2
    <3>4. CASE DeviceTakesArg
      BY <3>1, <3>4 DEF DeviceTakesArg
    <3>5. CASE DeviceRejects
      BY <3>1, <3>5 DEF DeviceRejects
    <3> QED BY <1>3, <3>2, <3>3, <3>4, <3>5 DEF Keyboard
  <2> QED BY <2>4, <2>5, <2>6
          DEF DeviceAnswers, TypeOK, driverVars, mainVars, ctrlVars, historyVars
<1>4. CASE CtrlObeys
  BY <1>4 DEF CtrlObeys, Obey, TypeOK, driverVars, mainVars, devVars, historyVars
<1>5. CASE CtrlTakes
  <2>1. <<ibuf>> \in Seq(0..255) /\ enabled' \in BOOLEAN
    BY <1>5 DEF CtrlTakes, TypeOK
  <2> QED BY <1>5, <2>1 DEF CtrlTakes, TypeOK, driverVars, mainVars, historyVars
<1> QED BY <1>1, <1>2, <1>3, <1>4, <1>5 DEF Controller

\* The invariant survives every step, of whichever of the actors.
LEMMA StepIInv == IInv /\ [Next]_vars => IInv'
<1> SUFFICES ASSUME IInv, [Next]_vars PROVE IInv'
  OBVIOUS
<1>1. CASE UNCHANGED vars
  BY <1>1 DEF IInv, TypeOK, RegInv, vars, driverVars, mainVars, ctrlVars, devVars, historyVars
<1>2. CASE KmainLoop
  BY <1>1, <1>2 DEF KmainLoop
<1> QED BY <1>1, <1>2, MainIInv, IrqIInv, DeviceIInv DEF Next

\* The ring of commands and the driver's variables stay within their bounds in
\* every behaviour: any ring size, any machine, any interleaving.
THEOREM TypeSafe == Spec => []TypeOK
<1>1. IInv => TypeOK
  BY DEF IInv
<1> QED BY InitIInv, StepIInv, <1>1, PTL DEF Spec

-----------------------------------------------------------------------------
(* A pending command is never overwritten                                  *)

\* While the ring has room, the slot of the next command is none of the
\* pending ones.
LEMMA FreeSlot ==
  ASSUME IInv, pending_commands < COMMAND_QUEUE_SIZE,
         NEW k \in 1..pending_commands
  PROVE  SlotOf(k) # next_command_idx
<1>1. /\ COMMAND_QUEUE_SIZE \in Nat \ {0}
      /\ next_command_idx \in 0..COMMAND_QUEUE_SIZE-1
      /\ k \in 1..COMMAND_QUEUE_SIZE-1
  BY SizeAssumption DEF IInv, TypeOK
<1>2. \A S \in Nat \ {0} : \A i \in 0..S-1, j \in 1..S-1 : (i + S - j) % S # i
  OBVIOUS
<1> QED BY <1>1, <1>2 DEF SlotOf

\* queue_add writes no slot of a pending command: the copy of
\* pending_commands it tests is never below the variable.
LEMMA QueueAddKeeps ==
  ASSUME IInv, NEW c, NEW from \in {"add", "query"}, NEW added, NEW full,
         queue_add(c, from, added, full)
  PROVE  \A i \in PendingSlots : command_queue'[i] = command_queue[i]
<1>1. PICK n \in Loaded : queue_add(c, from, added, full)!(n)
  BY DEF queue_add
<1>2. n \in 0..COMMAND_QUEUE_SIZE /\ pending_commands <= n
  BY <1>1, SizeAssumption DEF Loaded, IInv, TypeOK, RegInv, Goto
<1>3. CASE n < COMMAND_QUEUE_SIZE
  <2>1. pending_commands < COMMAND_QUEUE_SIZE
    BY <1>2, <1>3, SizeAssumption DEF IInv, TypeOK
  <2>2. command_queue' = [command_queue EXCEPT ![next_command_idx] = c]
    BY <1>1, <1>3
  <2>3. \A i \in PendingSlots : i # next_command_idx
    BY <2>1, FreeSlot DEF PendingSlots
  <2>4. \A i \in PendingSlots : i \in 0..COMMAND_QUEUE_SIZE-1
    <3>1. next_command_idx \in Int /\ \A k \in 1..pending_commands : k \in Int
      BY SizeAssumption DEF IInv, TypeOK
    <3> QED BY <3>1, SlotInRing DEF PendingSlots
  <2> QED BY <2>2, <2>3, <2>4 DEF IInv, TypeOK
<1>4. CASE ~(n < COMMAND_QUEUE_SIZE)
  BY <1>1, <1>4
<1> QED BY <1>3, <1>4

\* Only queue_add writes the ring.
LEMMA OthersKeep ==
  ASSUME Next, ~QueueCommand, ~QueueQuery
  PROVE  command_queue' = command_queue
<1>1. CASE \E c \in Calls : CallCommand(c)
  BY <1>1 DEF CallCommand, driverVars
<1>2. CASE ps2_kbd_command_arg
  BY <1>2 DEF ps2_kbd_command_arg, PortDisable, CheckRoom, CountCommand, IfFirst, SendFirst,
              SkipQuery, CountQuery, PortEnable, driverVars
<1>3. CASE KmainLoop
  BY <1>3 DEF KmainLoop, vars, driverVars
<1>4. CASE kbd_int_handler
  BY <1>4 DEF kbd_int_handler, IrqSpurious, IrqScanCode, IrqResend, IrqSendArg,
              IrqCommandDone, IrqArgDone, IrqPoll, PollHit, PollMiss, handle_next_command,
              driverVars
<1>5. CASE Controller \/ KeyPressed
  BY <1>5 DEF Controller, PortReceive, CtrlObeys, CtrlTakes, KeyPressed, driverVars
<1>6. CASE Keyboard
  BY <1>6 DEF Keyboard, DeviceRefuses, DeviceTakesCommand, DeviceTakesArg, DeviceRejects,
              DeviceAnswers, driverVars
<1> QED BY <1>1, <1>2, <1>3, <1>4, <1>5, <1>6 DEF Next

\* queue_add never overwrites a pending command, whatever the handler does
\* between kmain's load of pending_commands and its stores.
THEOREM PendingSafe == Spec => PendingKept
<1>1. IInv /\ [Next]_vars
        => [\A i \in PendingSlots : command_queue'[i] = command_queue[i]]_vars
  <2> SUFFICES ASSUME IInv, Next
               PROVE  \A i \in PendingSlots : command_queue'[i] = command_queue[i]
    OBVIOUS
  <2>1. CASE QueueCommand
    BY <2>1, QueueAddKeeps DEF QueueCommand
  <2>2. CASE QueueQuery
    BY <2>2, QueueAddKeeps DEF QueueQuery
  <2>3. CASE ~QueueCommand /\ ~QueueQuery
    BY <2>3, OthersKeep
  <2> QED BY <2>1, <2>2, <2>3
<1> QED BY InitIInv, StepIInv, <1>1, PTL DEF Spec, PendingKept

-----------------------------------------------------------------------------
(* A busy driver has a command in the ring                                 *)

(***************************************************************************)
(* IfFirst starts the driver when it reads 1 from pending_commands or from *)
(* its register.  A register that says 1 is not stale: it was written when *)
(* the ring was empty and the driver ready, and a ready driver never       *)
(* lowers the counter.  The handler only polls while the driver is busy.   *)
(***************************************************************************)
FirstInv ==
  /\ pc = "add" => reg < COMMAND_QUEUE_SIZE
  /\ pc = "first" => reg >= 1
  /\ pc = "first" /\ reg = 1 => pending_commands = 1 /\ driver_state = STATE_READY
  /\ irqpc = "poll" => driver_state # STATE_READY

BInv == IInv /\ BusyMeansPending /\ FirstInv

\* kmain starts waiting only for a command it has just counted.
LEMMA MainBInv ==
  ASSUME BInv, \/ \E c \in Calls : CallCommand(c)
               \/ ps2_kbd_command_arg
  PROVE  BusyMeansPending' /\ FirstInv'
<1> USE SizeAssumption DEF BInv, BusyMeansPending, FirstInv, MainRuns, Goto, Loaded
<1>0. /\ pending_commands \in 0..COMMAND_QUEUE_SIZE /\ reg \in 0..COMMAND_QUEUE_SIZE
      /\ pc \in {"add", "count", "first", "query", "query_count"} => pending_commands <= reg
  BY DEF IInv, TypeOK, RegInv
<1>1. CASE \E c \in Calls : CallCommand(c)
  BY <1>1 DEF CallCommand, driverVars
<1>2. CASE PortDisable
  BY <1>2 DEF PortDisable, driverVars
<1>3. CASE CheckRoom
  BY <1>0, <1>3 DEF CheckRoom, driverVars
<1>4. CASE QueueCommand
  BY <1>0, <1>4 DEF QueueCommand, queue_add
<1>5. CASE CountCommand
  BY <1>0, <1>5 DEF CountCommand, queue_count
<1>6. CASE IfFirst
  BY <1>0, <1>6 DEF IfFirst
<1>7. CASE SendFirst
  BY <1>7 DEF SendFirst, driverVars
<1>8. CASE QueueQuery
  BY <1>8 DEF QueueQuery, queue_add
<1>9. CASE SkipQuery
  BY <1>9 DEF SkipQuery, driverVars
<1>10. CASE CountQuery
  BY <1>0, <1>10 DEF CountQuery, queue_count
<1>11. CASE PortEnable
  BY <1>11 DEF PortEnable, driverVars
<1> QED
  BY <1>1, <1>2, <1>3, <1>4, <1>5, <1>6, <1>7, <1>8, <1>9, <1>10, <1>11
     DEF ps2_kbd_command_arg

\* The handler stops waiting when it takes the last command off the ring.
LEMMA IrqBInv ==
  ASSUME BInv, kbd_int_handler
  PROVE  BusyMeansPending' /\ FirstInv'
<1>1. UNCHANGED <<pc, reg>>
  BY DEF kbd_int_handler, IrqSpurious, IrqScanCode, IrqResend, IrqSendArg, IrqCommandDone,
         IrqArgDone, IrqPoll, PollHit, PollMiss, mainVars
<1>2. CASE IrqSpurious \/ IrqScanCode \/ IrqResend \/ IrqPoll
  BY <1>1, <1>2 DEF IrqSpurious, IrqScanCode, IrqResend, IrqPoll, driverVars, BInv,
                    BusyMeansPending, FirstInv, STATE_READY, STATE_WAITING_ARG_ACK
<1>3. CASE IrqSendArg
  BY <1>1, <1>3 DEF IrqSendArg, BInv, BusyMeansPending, FirstInv, STATE_READY,
                    STATE_WAITING_COM_ACK, STATE_WAITING_ARG_ACK
<1>4. CASE IrqCommandDone \/ IrqArgDone
  <2>1. handle_next_command /\ driver_state # STATE_READY /\ irqpc' = "idle"
    BY <1>4 DEF IrqCommandDone, IrqArgDone, TakeByte, STATE_READY, STATE_WAITING_COM_ACK,
                STATE_WAITING_ARG_ACK
  <2>2. BusyMeansPending'
    BY <2>1 DEF handle_next_command, BusyMeansPending
  <2> QED BY <1>1, <2>1, <2>2 DEF BInv, FirstInv
<1>5. CASE PollHit \/ PollMiss
  <2>1. handle_next_command /\ driver_state # STATE_READY /\ irqpc' = "idle"
    BY <1>5 DEF PollHit, PollMiss, BInv, FirstInv
  <2>2. BusyMeansPending'
    BY <2>1 DEF handle_next_command, BusyMeansPending
  <2> QED BY <1>1, <2>1, <2>2 DEF BInv, FirstInv
<1> QED BY <1>2, <1>3, <1>4, <1>5 DEF kbd_int_handler

\* The stronger invariant survives every step.
LEMMA StepBInv == BInv /\ [Next]_vars => BInv'
<1> SUFFICES ASSUME BInv, [Next]_vars PROVE BInv'
  OBVIOUS
<1>1. IInv'
  BY StepIInv DEF BInv
<1>2. CASE UNCHANGED <<driverVars, pc, reg, irqpc>>
  BY <1>1, <1>2 DEF BInv, BusyMeansPending, FirstInv, driverVars
<1>3. CASE Controller \/ Keyboard \/ KeyPressed \/ KmainLoop \/ UNCHANGED vars
  BY <1>2, <1>3 DEF Controller, PortReceive, CtrlObeys, CtrlTakes, KeyPressed, Keyboard,
         DeviceRefuses, DeviceTakesCommand, DeviceTakesArg, DeviceRejects, DeviceAnswers,
         KmainLoop, mainVars, vars
<1> QED BY <1>1, <1>3, MainBInv, IrqBInv DEF Next, BInv

\* The handler never works on the zero command of an empty ring, on any
\* machine and in any interleaving with kmain.
THEOREM BusySafe == Spec => []BusyMeansPending
<1>1. Init => BInv
  <2>1. Init => BusyMeansPending /\ FirstInv
    BY DEF Init, BusyMeansPending, FirstInv
  <2> QED BY <2>1, InitIInv DEF BInv
<1>2. BInv => BusyMeansPending
  BY DEF BInv
<1> QED BY <1>1, <1>2, StepBInv, PTL DEF Spec

-----------------------------------------------------------------------------
(* The bracket of ps2_port1_disable and ps2_port1_enable                   *)

(***************************************************************************)
(* On a machine that takes interrupts promptly, acts on commands at once   *)
(* and keeps a disabled port off, the bracket is a lock: no handler runs   *)
(* and no interrupt is latched inside it.  Inside, "ready" and "nothing    *)
(* pending" come apart for a few steps; the other conjuncts say how far,   *)
(* at each point of the call.                                              *)
(***************************************************************************)
LockMachine == PromptIrq /\ ~WriteEnables /\ PromptCommands

Busy == driver_state # STATE_READY
InBracket == pc \notin {"idle", "disable"}

LockInv ==
  /\ ibuf \in 0..255 \union {NoByte}
  /\ InBracket => ~enabled /\ ~irq /\ irqpc = "idle"
  /\ pc \in {"idle", "disable", "check", "add", "count", "enable"}
       => (Busy <=> pending_commands # 0)
  /\ pc \in {"add", "count", "first", "query", "query_count"} => reg = pending_commands
  /\ pc = "add" => pending_commands < COMMAND_QUEUE_SIZE
  /\ pc = "first" => pending_commands # 0 /\ (Busy <=> pending_commands # 1)
  /\ pc = "send" => Busy /\ pending_commands # 0
  /\ pc \in {"query", "query_count"} => Busy /\ pending_commands # 0

LInv == LockMachine /\ IInv /\ LockInv

\* handle_next_command leaves the driver ready exactly when the ring is empty.
LEMMA HandleNextBusy ==
  ASSUME IInv, handle_next_command
  PROVE  Busy' <=> pending_commands' # 0
BY SizeAssumption
   DEF handle_next_command, Busy, IInv, TypeOK, STATE_READY, STATE_WAITING_COM_ACK

\* kmain leaves its bracket with the driver busy exactly if the ring is in use.
LEMMA MainLock ==
  ASSUME LInv, \/ \E c \in Calls : CallCommand(c)
               \/ ps2_kbd_command_arg
  PROVE  LockInv'
<1> USE SizeAssumption DEF LInv, LockInv, IInv, MainRuns, Goto, Busy, InBracket
<1>1. CASE \E c \in Calls : CallCommand(c)
  BY <1>1 DEF CallCommand, driverVars, ctrlVars
<1>2. CASE PortDisable
  <2>1. COMMAND_PORT1_DISABLE # COMMAND_PORT1_ENABLE
    BY DEF COMMAND_PORT1_DISABLE, COMMAND_PORT1_ENABLE
  <2>2. ~enabled' /\ ibuf' = NoByte
    BY <1>2, <2>1 DEF PortDisable, ps2_command, outb, Obey, LockMachine
  <2> QED BY <1>2, <2>2 DEF PortDisable, LockMachine, driverVars
<1>3. CASE CheckRoom
  BY <1>3 DEF CheckRoom, driverVars, ctrlVars
<1>4. CASE QueueCommand
  BY <1>4 DEF QueueCommand, queue_add, Loaded, ctrlVars
<1>5. CASE CountCommand
  BY <1>5 DEF CountCommand, queue_count, Loaded, ctrlVars, TypeOK
<1>6. CASE IfFirst
  BY <1>6 DEF IfFirst, Loaded, ctrlVars, STATE_READY, STATE_WAITING_COM_ACK
<1>7. CASE SendFirst
  <2>1. cur.com \in 0..255
    BY CommandBytes DEF TypeOK
  <2> QED BY <1>7, <2>1 DEF SendFirst, ps2_port1_write, outb, driverVars
<1>8. CASE QueueQuery
  BY <1>8 DEF QueueQuery, queue_add, Loaded, ctrlVars
<1>9. CASE SkipQuery
  BY <1>9 DEF SkipQuery, driverVars, ctrlVars
<1>10. CASE CountQuery
  BY <1>10 DEF CountQuery, queue_count, Loaded, ctrlVars, TypeOK
<1>11. CASE PortEnable
  BY <1>11 DEF PortEnable, ps2_command, outb, LockMachine, driverVars
<1> QED
  BY <1>1, <1>2, <1>3, <1>4, <1>5, <1>6, <1>7, <1>8, <1>9, <1>10, <1>11
     DEF ps2_kbd_command_arg

\* handle_next_command writes a byte of data, if anything.
LEMMA HandleNextWrites ==
  ASSUME IInv, handle_next_command
  PROVE  ibuf' \in 0..255 \/ UNCHANGED ibuf
<1> DEFINE left == IF pending_commands > 0 THEN pending_commands - 1 ELSE 0
<1>1. left \in Int
  BY SizeAssumption DEF IInv, TypeOK
<1>2. CommandAt(left).com \in 0..255
  BY <1>1, CommandTyped, CommandBytes DEF IInv
<1>3. UNCHANGED ibuf \/ ps2_port1_write(CommandAt(left).com)
  BY DEF handle_next_command
<1> HIDE DEF left
<1> QED BY <1>2, <1>3 DEF ps2_port1_write, outb

\* So does the whole handler.
LEMMA HandlerWrites ==
  ASSUME IInv, kbd_int_handler
  PROVE  ibuf' \in 0..255 \/ UNCHANGED ibuf
<1>1. CASE IrqSpurious \/ IrqScanCode \/ IrqPoll
  BY <1>1 DEF IrqSpurious, IrqScanCode, IrqPoll
<1>2. CASE IrqResend \/ IrqSendArg
  BY <1>2, CurrentTyped DEF IrqResend, IrqSendArg, ps2_port1_write, outb
<1>3. CASE IrqCommandDone \/ IrqArgDone \/ PollHit \/ PollMiss
  BY <1>3, HandleNextWrites DEF IrqCommandDone, IrqArgDone, PollHit, PollMiss
<1> QED BY <1>1, <1>2, <1>3 DEF kbd_int_handler

\* The handler runs only outside the bracket.
LEMMA IrqLock ==
  ASSUME LInv, kbd_int_handler
  PROVE  LockInv'
<1>1. irq \/ irqpc = "poll"
  BY DEF kbd_int_handler, IrqSpurious, IrqScanCode, IrqResend, IrqSendArg, IrqCommandDone,
         IrqArgDone, IrqPoll, PollHit, PollMiss, TakeByte
<1>2. pc \in {"idle", "disable"}
  BY <1>1 DEF LInv, LockInv, InBracket
<1>3. pc' = pc
  BY DEF kbd_int_handler, IrqSpurious, IrqScanCode, IrqResend, IrqSendArg, IrqCommandDone,
         IrqArgDone, IrqPoll, PollHit, PollMiss, mainVars
<1>4. ibuf' \in 0..255 \union {NoByte}
  BY HandlerWrites DEF LInv, LockInv
<1>5. SUFFICES Busy' <=> pending_commands' # 0
  BY <1>2, <1>3, <1>4 DEF LockInv, InBracket
<1>6. Busy <=> pending_commands # 0
  BY <1>2 DEF LInv, LockInv
<1>7. CASE IrqSpurious \/ IrqScanCode \/ IrqResend \/ IrqPoll
  BY <1>6, <1>7 DEF IrqSpurious, IrqScanCode, IrqResend, IrqPoll, driverVars, Busy
<1>8. CASE IrqSendArg
  BY <1>6, <1>8 DEF IrqSendArg, Busy, STATE_READY, STATE_WAITING_COM_ACK,
                    STATE_WAITING_ARG_ACK
<1>9. CASE IrqCommandDone \/ IrqArgDone \/ PollHit \/ PollMiss
  <2>1. handle_next_command
    BY <1>9 DEF IrqCommandDone, IrqArgDone, PollHit, PollMiss
  <2> QED BY <2>1, HandleNextBusy DEF LInv
<1> QED BY <1>7, <1>8, <1>9 DEF kbd_int_handler

\* The controller latches no interrupt while port 1 is off, and finds no
\* command to act on.
LEMMA DeviceLock ==
  ASSUME LInv, Controller \/ Keyboard \/ KeyPressed
  PROVE  LockInv'
<1>1. ~CtrlObeys
  BY DEF CtrlObeys, LInv, LockInv, command_data, NoByte
<1>2. UNCHANGED <<driverVars, mainVars, irqpc, enabled>>
  BY <1>1 DEF Controller, PortReceive, CtrlTakes, KeyPressed, Keyboard, DeviceRefuses,
         DeviceTakesCommand, DeviceTakesArg, DeviceRejects, DeviceAnswers, ctrlVars, LInv,
         LockMachine, IInv, TypeOK
<1>3. /\ irq' = irq \/ enabled
      /\ ibuf' \in {ibuf, NoByte}
  BY <1>1 DEF Controller, PortReceive, CtrlTakes, KeyPressed, Keyboard, DeviceRefuses,
         DeviceTakesCommand, DeviceTakesArg, DeviceRejects, DeviceAnswers, ctrlVars
<1> QED BY <1>2, <1>3 DEF LInv, LockInv, InBracket, Busy, driverVars, mainVars

\* The invariant of the bracket survives every step.
LEMMA StepLInv == LInv /\ [Next]_vars => LInv'
<1> SUFFICES ASSUME LInv, [Next]_vars PROVE LInv'
  OBVIOUS
<1>1. IInv' /\ LockMachine'
  BY StepIInv DEF LInv, LockMachine
<1>2. CASE UNCHANGED vars
  <2>1. LockInv'
    BY <1>2 DEF LInv, LockInv, InBracket, Busy, vars, driverVars, mainVars, ctrlVars
  <2> QED BY <1>1, <2>1 DEF LInv
<1>3. CASE KmainLoop
  BY <1>2, <1>3 DEF KmainLoop
<1>4. CASE Next /\ ~KmainLoop
  BY <1>1, <1>4, MainLock, IrqLock, DeviceLock DEF Next, LInv
<1> QED BY <1>2, <1>3, <1>4

\* Where the bracket works as a lock, no command is ever left behind in the
\* ring with the driver ready.
THEOREM LockSafe == LockMachine /\ Spec => []ReadyMeansEmpty
<1>1. LockMachine /\ Init => LInv
  <2>1. Init => LockInv
    BY DEF Init, LockInv, InBracket, Busy
  <2> QED BY <2>1, InitIInv DEF LInv
<1>2. LInv => ReadyMeansEmpty
  BY DEF LInv, LockInv, ReadyMeansEmpty, Busy
<1> QED BY <1>1, <1>2, StepLInv, PTL DEF Spec

-----------------------------------------------------------------------------
(***************************************************************************)
(* The driver implements CommandFifo, for every ring size and every set of *)
(* commands, on the machines where the port-1 bracket works as a lock.     *)
(***************************************************************************)

S == COMMAND_QUEUE_SIZE

(***************************************************************************)
(* The ring is a window of n slots of the array q that ends before e.      *)
(***************************************************************************)
Queues == [0..S-1 -> ps2_kbd_command]

Window(q, e, n) == [i \in 1..n |-> q[(e + S - n + i - 1) % S]]

\* A window is a sequence of commands.
LEMMA WindowSeq ==
  ASSUME NEW q \in Queues, NEW e \in Int, NEW n \in Nat
  PROVE  /\ Window(q, e, n) \in Seq(ps2_kbd_command)
         /\ Len(Window(q, e, n)) = n
         /\ \A i \in 1..n : Window(q, e, n)[i] = q[(e + S - n + i - 1) % S]
<1>1. \A i \in 1..n : (e + S - n + i - 1) % S \in 0..S-1
  <2> SUFFICES ASSUME NEW i \in 1..n PROVE (e + S - n + i - 1) % S \in 0..S-1
    OBVIOUS
  <2>1. e + S - n + i - 1 \in Int
    BY SizeAssumption DEF S
  <2> QED BY <2>1, ModInRing DEF S
<1>2. \A i \in 1..n : q[(e + S - n + i - 1) % S] \in ps2_kbd_command
  BY <1>1 DEF Queues
<1> QED BY <1>2 DEF Window

\* Counting one more command makes the window longer at its end.
LEMMA WindowAppend ==
  ASSUME NEW q \in Queues, NEW e \in Int, NEW n \in Nat
  PROVE  Window(q, e + 1, n + 1) = Append(Window(q, e, n), q[(e + S) % S])
<1> DEFINE w == Window(q, e, n)  c == q[(e + S) % S]  v == Window(q, e + 1, n + 1)
<1>1. c \in ps2_kbd_command
  <2>1. e + S \in Int
    BY SizeAssumption DEF S
  <2>2. (e + S) % S \in 0..S-1
    BY <2>1, ModInRing DEF S
  <2> QED BY <2>2 DEF Queues
<1>2. /\ w \in Seq(ps2_kbd_command) /\ Len(w) = n
      /\ \A i \in 1..n : w[i] = q[(e + S - n + i - 1) % S]
  BY WindowSeq
<1>3. /\ v \in Seq(ps2_kbd_command) /\ Len(v) = n + 1
      /\ \A i \in 1..n+1 : v[i] = q[((e + 1) + S - (n + 1) + i - 1) % S]
  <2>1. e + 1 \in Int /\ n + 1 \in Nat
    OBVIOUS
  <2> QED BY <2>1, WindowSeq
<1>4. \A i \in 1..n : v[i] = w[i]
  <2> SUFFICES ASSUME NEW i \in 1..n PROVE v[i] = w[i]
    OBVIOUS
  <2>1. (e + 1) + S - (n + 1) + i - 1 = e + S - n + i - 1
    BY SizeAssumption DEF S
  <2>2. i \in 1..n+1
    OBVIOUS
  <2> QED BY <1>2, <1>3, <2>1, <2>2
<1>5. v[n+1] = c
  <2>1. (e + 1) + S - (n + 1) + (n + 1) - 1 = e + S
    BY SizeAssumption DEF S
  <2>2. n + 1 \in 1..n+1
    OBVIOUS
  <2> QED BY <1>3, <2>1, <2>2
<1> HIDE DEF w, c, v
<1>6. v = Append(w, c)
  BY <1>1, <1>2, <1>3, <1>4, <1>5
<1> QED BY <1>6 DEF w, c, v

\* Finishing the oldest command makes the window shorter at its front.
LEMMA WindowTail ==
  ASSUME NEW q \in Queues, NEW e \in Int, NEW n \in Nat \ {0}
  PROVE  /\ Window(q, e, n) # <<>>
         /\ Head(Window(q, e, n)) = q[(e + S - n) % S]
         /\ Tail(Window(q, e, n)) = Window(q, e, n - 1)
<1> DEFINE w == Window(q, e, n)  v == Window(q, e, n - 1)
<1>1. /\ w \in Seq(ps2_kbd_command) /\ Len(w) = n
      /\ \A i \in 1..n : w[i] = q[(e + S - n + i - 1) % S]
  BY WindowSeq
<1>2. /\ v \in Seq(ps2_kbd_command) /\ Len(v) = n - 1
      /\ \A i \in 1..n-1 : v[i] = q[(e + S - (n - 1) + i - 1) % S]
  <2>1. n - 1 \in Nat
    OBVIOUS
  <2> QED BY <2>1, WindowSeq
<1>3. \A i \in 1..n-1 : v[i] = w[i+1]
  <2> SUFFICES ASSUME NEW i \in 1..n-1 PROVE v[i] = w[i+1]
    OBVIOUS
  <2>1. e + S - (n - 1) + i - 1 = e + S - n + (i + 1) - 1
    BY SizeAssumption DEF S
  <2>2. i + 1 \in 1..n
    OBVIOUS
  <2> QED BY <1>1, <1>2, <2>1, <2>2
<1>4. w[1] = q[(e + S - n) % S]
  <2>1. e + S - n + 1 - 1 = e + S - n
    BY SizeAssumption DEF S
  <2>2. 1 \in 1..n
    OBVIOUS
  <2> QED BY <1>1, <2>1, <2>2
<1> HIDE DEF w, v
<1>5. w # <<>> /\ Head(w) = q[(e + S - n) % S]
  BY <1>1, <1>4
<1>6. Tail(w) = v
  <2>1. /\ Tail(w) \in Seq(ps2_kbd_command) /\ Len(Tail(w)) = n - 1
        /\ \A i \in 1..n-1 : Tail(w)[i] = w[i+1]
    BY <1>1, <1>5, HeadTailProperties
  <2> QED BY <1>2, <1>3, <2>1, SeqEqual
<1> QED BY <1>5, <1>6 DEF w, v

\* The modular arithmetic of queue_add: its slot is outside a window that does
\* not fill the ring, and the window ends where it ended.
LEMMA SlotArithmetic ==
  ASSUME NEW N \in Nat \ {0}, NEW i \in 0..N-1, NEW k \in 0..N-1
  PROVE  /\ (((i + 1) % N) - 1 + k) % N = (i + k) % N
         /\ k # 0 => (i + k) % N # i
         /\ (((i + 1) % N) - 1 + N) % N = i
<1>1. CASE i = N - 1
  <2>1. (i + 1) % N = 0
    BY <1>1
  <2>2. (0 - 1 + k) % N = (i + k) % N
    <3>1. CASE k = 0
      BY <1>1, <3>1
    <3>2. CASE k # 0
      <4>1. (0 - 1 + k) % N = k - 1
        BY <3>2
      <4>2. (i + k) % N = k - 1
        BY <1>1, <3>2
      <4> QED BY <4>1, <4>2
    <3> QED BY <3>1, <3>2
  <2>3. (0 - 1 + N) % N = i
    BY <1>1
  <2>4. k # 0 => (i + k) % N # i
    BY <1>1
  <2> QED BY <2>1, <2>2, <2>3, <2>4
<1>2. CASE i # N - 1
  <2>1. (i + 1) % N = i + 1
    BY <1>2
  <2>2. (i + 1 - 1 + N) % N = i
    BY <1>2
  <2>3. k # 0 => (i + k) % N # i
    BY <1>2
  <2>4. i + 1 - 1 + k = i + k
    OBVIOUS
  <2> QED BY <2>1, <2>2, <2>3, <2>4
<1> QED BY <1>1, <1>2

\* queue_add fills the slot behind the window and moves no command.
LEMMA WindowAdd ==
  ASSUME NEW q \in Queues, NEW i \in 0..S-1, NEW n \in Nat, n < S, NEW c \in ps2_kbd_command
  PROVE  LET p == [q EXCEPT ![i] = c]  j == (i + 1) % S
         IN /\ p \in Queues /\ j \in Int
            /\ Window(p, j - 1, n) = Window(q, i, n)
            /\ p[(j - 1 + S) % S] = c
<1> DEFINE p == [q EXCEPT ![i] = c]  j == (i + 1) % S
<1>0. S \in Nat \ {0}
  BY SizeAssumption DEF S
<1>1. p \in Queues /\ j \in Int
  BY <1>0 DEF Queues
<1>2. p[(j - 1 + S) % S] = c
  <2>1. 0 \in 0..S-1
    BY <1>0
  <2>2. (j - 1 + S) % S = i
    BY <1>0, <2>1, SlotArithmetic
  <2> QED BY <2>2 DEF Queues
<1>3. \A m \in 1..n : p[(j - 1 + S - n + m - 1) % S] = q[(i + S - n + m - 1) % S]
  <2> SUFFICES ASSUME NEW m \in 1..n
               PROVE  p[(j - 1 + S - n + m - 1) % S] = q[(i + S - n + m - 1) % S]
    OBVIOUS
  <2> DEFINE k == S - n + m - 1
  <2>1. k \in 0..S-1 /\ k # 0
    BY <1>0
  <2>2. j - 1 + S - n + m - 1 = j - 1 + k /\ i + S - n + m - 1 = i + k
    BY <1>0, <1>1
  <2> HIDE DEF k
  <2>3. (j - 1 + k) % S = (i + k) % S /\ (i + k) % S # i
    BY <1>0, <2>1, SlotArithmetic
  <2>4. (i + k) % S \in 0..S-1
    BY <1>0, <2>1
  <2> QED BY <2>2, <2>3, <2>4 DEF Queues
<1>4. j - 1 \in Int /\ i \in Int
  BY <1>1
<1>5. Window(p, j - 1, n) = Window(q, i, n)
  BY <1>3 DEF Window
<1> QED BY <1>1, <1>2, <1>5

-----------------------------------------------------------------------------
(* The invariant behind the mapping                                        *)

(***************************************************************************)
(* While kmain is inside its bracket, the slot in front of next_command_idx *)
(* holds the command it has just stored: before it is counted, and until   *)
(* its first byte is written.                                              *)
(***************************************************************************)
NewSlot == (next_command_idx - 1 + S) % S

CInv ==
  /\ pc # "idle" => cur \in Calls
  /\ pc \in {"count", "query_count"} => pending_commands < S
  /\ pc \in {"count", "first", "send"} => command_queue[NewSlot] = cur
  /\ pc = "query_count" => command_queue[NewSlot] = QueryCommand
  /\ pc = "send" => pending_commands = 1

FInv == LInv /\ BInv /\ CInv

\* The types the mapping needs.
LEMMA RingTypes ==
  ASSUME IInv
  PROVE  /\ S \in Nat \ {0} /\ command_queue \in Queues
         /\ next_command_idx \in 0..S-1 /\ pending_commands \in 0..S
         /\ cur \in ps2_kbd_command
BY SizeAssumption DEF IInv, TypeOK, S, Queues

\* queue_add: either the ring is full and nothing changes, or the command is in
\* the slot in front of next_command_idx and the window is where it was.
LEMMA QueueAddWindow ==
  ASSUME FInv, NEW c \in ps2_kbd_command, NEW from \in {"add", "query"}, NEW added, NEW full,
         queue_add(c, from, added, full)
  PROVE  \/ /\ pending_commands < S /\ pc' = added
            /\ command_queue'[NewSlot'] = c
            /\ Window(command_queue', next_command_idx' - 1, pending_commands)
                 = Window(command_queue, next_command_idx, pending_commands)
         \/ /\ pending_commands = S /\ pc' = full
            /\ UNCHANGED <<command_queue, next_command_idx>>
<1>1. PICK n \in Loaded : queue_add(c, from, added, full)!(n)
  BY DEF queue_add
<1>2. n = pending_commands
  BY <1>1 DEF Loaded, FInv, LInv, LockInv, Goto
<1>3. /\ S \in Nat \ {0} /\ command_queue \in Queues
      /\ next_command_idx \in 0..S-1 /\ pending_commands \in 0..S
  BY RingTypes DEF FInv, BInv
<1>4. CASE n < COMMAND_QUEUE_SIZE
  <2>1. /\ command_queue' = [command_queue EXCEPT ![next_command_idx] = c]
        /\ next_command_idx' = (next_command_idx + 1) % S /\ pc' = added
    BY <1>1, <1>4 DEF S, Goto
  <2>2. pending_commands < S /\ pending_commands \in Nat
    BY <1>2, <1>3, <1>4 DEF S
  <2>3. NewSlot' = (next_command_idx' - 1 + S) % S
    BY DEF NewSlot, S
  <2>4. /\ Window([command_queue EXCEPT ![next_command_idx] = c],
                  ((next_command_idx + 1) % S) - 1, pending_commands)
             = Window(command_queue, next_command_idx, pending_commands)
        /\ [command_queue EXCEPT ![next_command_idx] = c]
             [(((next_command_idx + 1) % S) - 1 + S) % S] = c
    BY <1>3, <2>2, WindowAdd
  <2> QED BY <2>1, <2>2, <2>3, <2>4
<1>5. CASE ~(n < COMMAND_QUEUE_SIZE)
  BY <1>1, <1>2, <1>3, <1>5 DEF S, Goto
<1> QED BY <1>4, <1>5

\* kmain keeps the slot of the command it is storing.
LEMMA MainCInv ==
  ASSUME FInv, \/ \E c \in Calls : CallCommand(c)
               \/ ps2_kbd_command_arg
  PROVE  CInv'
<1> USE DEF FInv, CInv, NewSlot, Goto
<1>0. cur \in ps2_kbd_command /\ pending_commands \in 0..S
  BY RingTypes DEF BInv
<1>1. CASE \E c \in Calls : CallCommand(c)
  BY <1>1 DEF CallCommand
<1>2. CASE PortDisable
  BY <1>2 DEF PortDisable
<1>3. CASE CheckRoom
  BY <1>3 DEF CheckRoom
<1>4. CASE QueueCommand
  <2>1. queue_add(cur, "add", "count", "first") /\ UNCHANGED <<cur, pending_commands>>
    BY <1>4 DEF QueueCommand
  <2>2. pending_commands < S /\ pc # "idle"
    BY <2>1 DEF queue_add, LInv, LockInv, S
  <2>3. /\ pc' = "count" /\ command_queue'[NewSlot'] = cur
    BY <1>0, <2>1, <2>2, QueueAddWindow
  <2> QED BY <2>1, <2>2, <2>3
<1>5. CASE CountCommand
  BY <1>5 DEF CountCommand, queue_count
<1>6. CASE IfFirst
  BY <1>6 DEF IfFirst, Loaded, LInv, LockInv
<1>7. CASE SendFirst
  BY <1>7 DEF SendFirst
<1>8. CASE QueueQuery
  <2>1. queue_add(QueryCommand, "query", "query_count", "enable")
          /\ UNCHANGED <<cur, pending_commands>>
    BY <1>8 DEF QueueQuery
  <2>2. pc # "idle"
    BY <2>1 DEF queue_add
  <2>3. \/ pending_commands < S /\ pc' = "query_count" /\ command_queue'[NewSlot'] = QueryCommand
        \/ pc' = "enable"
    BY <2>1, QueryTyped, QueueAddWindow
  <2> QED BY <2>1, <2>2, <2>3
<1>9. CASE SkipQuery
  BY <1>9 DEF SkipQuery
<1>10. CASE CountQuery
  BY <1>10 DEF CountQuery, queue_count
<1>11. CASE PortEnable
  BY <1>11 DEF PortEnable
<1> QED
  BY <1>1, <1>2, <1>3, <1>4, <1>5, <1>6, <1>7, <1>8, <1>9, <1>10, <1>11
     DEF ps2_kbd_command_arg

\* The handler and the devices run outside the bracket, or change nothing in it.
LEMMA OtherCInv ==
  ASSUME FInv, kbd_int_handler \/ Controller \/ Keyboard \/ KeyPressed \/ KmainLoop
                 \/ UNCHANGED vars
  PROVE  CInv'
<1>1. CASE kbd_int_handler
  <2>1. irq \/ irqpc = "poll"
    BY <1>1 DEF kbd_int_handler, IrqSpurious, IrqScanCode, IrqResend, IrqSendArg,
                IrqCommandDone, IrqArgDone, IrqPoll, PollHit, PollMiss, TakeByte
  <2>2. pc \in {"idle", "disable"}
    BY <2>1 DEF FInv, LInv, LockInv, InBracket
  <2>3. UNCHANGED <<pc, cur>>
    BY <1>1 DEF kbd_int_handler, IrqSpurious, IrqScanCode, IrqResend, IrqSendArg,
                IrqCommandDone, IrqArgDone, IrqPoll, PollHit, PollMiss, mainVars
  <2> QED BY <2>2, <2>3 DEF FInv, CInv
<1>2. CASE Controller \/ Keyboard \/ KeyPressed \/ KmainLoop \/ UNCHANGED vars
  <2>1. UNCHANGED <<driverVars, mainVars>>
    BY <1>2 DEF Controller, PortReceive, CtrlObeys, CtrlTakes, KeyPressed, Keyboard,
                DeviceRefuses, DeviceTakesCommand, DeviceTakesArg, DeviceRejects,
                DeviceAnswers, KmainLoop, vars
  <2> QED BY <2>1 DEF FInv, CInv, NewSlot, driverVars, mainVars
<1> QED BY <1>1, <1>2

\* The invariant of the mapping survives every step.
LEMMA StepFInv == FInv /\ [Next]_vars => FInv'
<1> SUFFICES ASSUME FInv, [Next]_vars PROVE FInv'
  OBVIOUS
<1>1. LInv' /\ BInv'
  BY StepLInv, StepBInv DEF FInv
<1>2. CInv'
  BY MainCInv, OtherCInv DEF Next
<1> QED BY <1>1, <1>2 DEF FInv

-----------------------------------------------------------------------------
(* The simulation                                                          *)

Waiting == IF Started THEN Tail(Ring) ELSE Ring

\* The mapped ring as a window.
LEMMA RingWindow ==
  /\ pc \in {"count", "query_count"}
       => Ring = Window(command_queue, next_command_idx - 1, pending_commands)
  /\ pc \notin {"count", "query_count"}
       => Ring = Window(command_queue, next_command_idx, pending_commands)
BY DEF Ring, Window, S

\* The ring stays as it is while nobody stores, counts or finishes a command.
LEMMA RingSame ==
  ASSUME UNCHANGED <<command_queue, next_command_idx, pending_commands>>,
         pc \in {"count", "query_count"} <=> pc' \in {"count", "query_count"}
  PROVE  Ring' = Ring
BY DEF Ring

\* Storing a command that is not yet counted does not change it either.
LEMMA RingStored ==
  ASSUME FInv, NEW c \in ps2_kbd_command, NEW from \in {"add", "query"},
         NEW added \in {"count", "query_count"}, NEW full \in {"first", "enable"},
         queue_add(c, from, added, full), pending_commands' = pending_commands
  PROVE  Ring' = Ring /\ pc = from /\ pc' \in {added, full}
<1>1. pc = from
  BY DEF queue_add, Goto
<1>2. CASE /\ pc' = added
           /\ Window(command_queue', next_command_idx' - 1, pending_commands)
                = Window(command_queue, next_command_idx, pending_commands)
  <2>1. Ring = Window(command_queue, next_command_idx, pending_commands)
    BY <1>1, RingWindow
  <2>2. Ring' = Window(command_queue', next_command_idx' - 1, pending_commands')
    BY <1>2 DEF Ring, Window, S
  <2> QED BY <1>1, <1>2, <2>1, <2>2
<1>3. CASE pc' = full /\ UNCHANGED <<command_queue, next_command_idx>>
  BY <1>1, <1>3, RingSame
<1> QED BY <1>2, <1>3, QueueAddWindow

\* ++pending_commands appends the command of the new slot to it.
LEMMA RingCounted ==
  ASSUME FInv, NEW c, NEW from \in {"count", "query_count"},
         NEW to \in {"first", "enable"}, queue_count(c, from, to),
         command_queue[NewSlot] = c,
         UNCHANGED <<command_queue, next_command_idx>>
  PROVE  /\ Ring \in Seq(ps2_kbd_command) /\ Len(Ring) = pending_commands
         /\ pending_commands \in Nat /\ pending_commands < S
         /\ Ring' = Append(Ring, c) /\ pc = from /\ pc' = to
<1> DEFINE q == command_queue  e == next_command_idx - 1  n == pending_commands
<1>1. /\ S \in Nat \ {0} /\ q \in Queues /\ e \in Int /\ n \in Nat
  <2>1. /\ S \in Nat \ {0} /\ q \in Queues /\ next_command_idx \in 0..S-1 /\ n \in 0..S
    BY RingTypes DEF FInv, BInv
  <2> QED BY <2>1
<1>2. pc = from /\ pc' = to /\ n < S /\ pending_commands' = n + 1
  BY DEF queue_count, Goto, Loaded, FInv, LInv, LockInv, CInv
<1>3. Ring = Window(q, e, n)
  BY <1>2, RingWindow
<1>4. Ring' = Window(q, e + 1, n + 1)
  <2>1. Ring' = Window(command_queue', next_command_idx', pending_commands')
    BY <1>2 DEF Ring, Window, S
  <2>2. e + 1 = next_command_idx
    <3>1. next_command_idx \in Int
      BY RingTypes DEF FInv, BInv
    <3> QED BY <3>1
  <2> QED BY <1>2, <2>1, <2>2
<1>5. q[(e + S) % S] = c
  BY DEF NewSlot
<1> HIDE DEF q, e
<1>6. Ring' = Append(Ring, c)
  BY <1>1, <1>3, <1>4, <1>5, WindowAppend
<1>7. Ring \in Seq(ps2_kbd_command) /\ Len(Ring) = n
  BY <1>1, <1>3, WindowSeq
<1> QED BY <1>1, <1>2, <1>6, <1>7

\* When kmain writes its command, that is the only one of the ring.
LEMMA RingSent ==
  ASSUME FInv, pc = "send"
  PROVE  Ring # <<>> /\ Head(Ring) = cur
<1> DEFINE q == command_queue  e == next_command_idx
<1>1. S \in Nat \ {0} /\ q \in Queues /\ e \in Int
  BY RingTypes DEF FInv, BInv
<1>2. q[NewSlot] = cur /\ Ring = Window(q, e, 1)
  BY RingWindow DEF FInv, CInv
<1>3. q[(e + S - 1) % S] = cur
  <2>1. e + S - 1 = e - 1 + S
    BY <1>1
  <2> QED BY <1>2, <2>1 DEF NewSlot
<1> HIDE DEF q, e
<1> QED BY <1>1, <1>2, <1>3, WindowTail

\* Outside the bracket the oldest command is the current one; finishing it leaves
\* the others, and the one that handle_next_command starts is the next.
LEMMA RingAdvanced ==
  ASSUME FInv, driver_state # STATE_READY, pc \in {"idle", "disable"}
  PROVE  /\ pending_commands \in Nat \ {0}
         /\ Ring \in Seq(ps2_kbd_command) /\ Len(Ring) = pending_commands
         /\ Ring # <<>> /\ Head(Ring) = current_command
         /\ handle_next_command /\ pc' = pc =>
              /\ Ring' = Tail(Ring) /\ pending_commands' = pending_commands - 1
              /\ pending_commands' > 0 =>
                   Ring' # <<>> /\ Head(Ring') = CommandAt(pending_commands')
              /\ pending_commands' = 0 => Ring' = <<>>
<1> DEFINE q == command_queue  e == next_command_idx  n == pending_commands
<1>1. /\ S \in Nat \ {0} /\ q \in Queues /\ e \in Int /\ n \in Nat \ {0}
  <2>1. /\ S \in Nat \ {0} /\ q \in Queues /\ e \in 0..S-1 /\ n \in 0..S
    BY RingTypes DEF FInv, BInv
  <2>2. n > 0
    BY DEF FInv, BInv, BusyMeansPending
  <2> QED BY <2>1, <2>2
<1>2. Ring = Window(q, e, n)
  BY RingWindow
<1>3. current_command = q[(e + S - n) % S]
  BY <1>1 DEF current_command, CommandAt, SlotOf, S
<1>4. Ring \in Seq(ps2_kbd_command) /\ Len(Ring) = n
  <2> HIDE DEF q, e, n
  <2> QED BY <1>1, <1>2, WindowSeq
<1>5. Ring # <<>> /\ Head(Ring) = current_command /\ Tail(Ring) = Window(q, e, n - 1)
  <2> HIDE DEF q, e, n
  <2> QED BY <1>1, <1>2, <1>3, WindowTail
<1>6. ASSUME handle_next_command, pc' = pc
      PROVE  /\ Ring' = Tail(Ring) /\ pending_commands' = n - 1
             /\ pending_commands' > 0 =>
                  Ring' # <<>> /\ Head(Ring') = CommandAt(pending_commands')
             /\ pending_commands' = 0 => Ring' = <<>>
  <2>1. pending_commands' = n - 1 /\ UNCHANGED <<command_queue, next_command_idx>>
    BY <1>1, <1>6 DEF handle_next_command
  <2>2. Ring' = Window(q, e, n - 1)
    BY <1>6, <2>1 DEF Ring, Window, S
  <2>3. CASE n - 1 > 0
    <3>1. CommandAt(pending_commands') = q[(e + S - (n - 1)) % S]
      BY <2>1, <2>3 DEF CommandAt, SlotOf, S
    <3>2. n - 1 \in Nat \ {0}
      BY <1>1, <2>3
    <3>3. Ring' # <<>> /\ Head(Ring') = CommandAt(pending_commands')
      <4> HIDE DEF q, e, n
      <4> QED BY <1>1, <2>2, <3>1, <3>2, WindowTail
    <3> QED BY <1>5, <2>1, <2>2, <2>3, <3>3
  <2>4. CASE ~(n - 1 > 0)
    <3>1. n - 1 = 0
      BY <1>1, <2>4
    <3>2. Ring' = <<>>
      BY <2>2, <3>1 DEF Window
    <3> QED BY <1>5, <2>1, <2>2, <3>1, <3>2
  <2> QED BY <2>3, <2>4
<1> QED BY <1>1, <1>4, <1>5, <1>6

-----------------------------------------------------------------------------
(* The steps of the queue                                                  *)

\* A step that touches neither the ring nor what is started is a stutter.
LEMMA Stutters ==
  ASSUME Ring' = Ring, Started' <=> Started, sent' = sent
  PROVE  UNCHANGED <<Waiting, Started, sent>>
BY DEF Waiting, Started

\* ++pending_commands is the acceptance of a command.
LEMMA CountAccepts ==
  ASSUME FInv, NEW c \in Calls \union {QueryCommand}, NEW from \in {"count", "query_count"},
         NEW to \in {"first", "enable"}, queue_count(c, from, to),
         command_queue[NewSlot] = c,
         UNCHANGED <<command_queue, next_command_idx, driver_state, sent>>
  PROVE  /\ Len(Waiting) + (IF Started THEN 1 ELSE 0) < S
         /\ Waiting' = Append(Waiting, c)
         /\ UNCHANGED <<Started, sent>>
<1> DEFINE n == pending_commands
<1>0. S \in Nat
  BY SizeAssumption DEF S
<1>1. /\ Ring \in Seq(ps2_kbd_command) /\ Len(Ring) = n /\ n \in Nat /\ n < S
      /\ Ring' = Append(Ring, c) /\ pc = from /\ pc' = to
  BY RingCounted
<1>2. Started' = Started
  BY <1>1 DEF Started
<1>3. CASE Started
  <2>1. n # 0
    BY <1>3 DEF Started, FInv, BInv, BusyMeansPending
  <2> HIDE DEF n
  <2>2. Ring # <<>> /\ Len(Tail(Ring)) = n - 1
    BY <1>1, <2>1, EmptySeq, HeadTailProperties
  <2>3. c \in ps2_kbd_command
    BY CallsAssumption, QueryTyped
  <2>4. Tail(Append(Ring, c)) = Append(Tail(Ring), c)
    BY <1>1, <2>2, <2>3
  <2> QED BY <1>0, <1>1, <1>2, <1>3, <2>2, <2>4 DEF Waiting
<1>4. CASE ~Started
  <2>1. Waiting = Ring /\ Waiting' = Ring'
    BY <1>2, <1>4 DEF Waiting
  <2> QED BY <1>0, <1>1, <1>2, <1>4, <2>1
<1> QED BY <1>3, <1>4

\* ps2_port1_write(command) by kmain starts the only command of the ring.
LEMMA SendStarts ==
  ASSUME FInv, SendFirst
  PROVE  /\ Waiting # <<>> /\ Waiting' = Tail(Waiting)
         /\ sent' = Append(sent, Head(Waiting)) /\ Started'
<1>1. /\ pc = "send" /\ pc' = "query" /\ sent' = Append(sent, cur) /\ UNCHANGED driverVars
  BY DEF SendFirst, Goto
<1>2. ~Started /\ Started'
  BY <1>1 DEF Started, FInv, LInv, LockInv, Busy, driverVars
<1>3. Ring' = Ring
  BY <1>1, RingSame DEF driverVars
<1> QED BY <1>1, <1>2, <1>3, RingSent DEF Waiting

\* The acknowledgement of a command starts the next one, or finishes the last.
LEMMA AcknowledgeAdvances ==
  ASSUME FInv, handle_next_command, driver_state # STATE_READY,
         pc \in {"idle", "disable"}, pc' = pc
  PROVE  \/ /\ Waiting # <<>> /\ Waiting' = Tail(Waiting)
            /\ sent' = Append(sent, Head(Waiting)) /\ Started'
         \/ /\ Started /\ Waiting = <<>> /\ ~Started' /\ UNCHANGED <<Waiting, sent>>
<1> DEFINE n == pending_commands
<1>1. /\ n \in Nat \ {0} /\ Ring' = Tail(Ring) /\ pending_commands' = n - 1
      /\ n - 1 > 0 => Ring' # <<>> /\ Head(Ring') = CommandAt(n - 1)
      /\ n - 1 = 0 => Ring' = <<>>
  BY RingAdvanced
<1>2. /\ n - 1 > 0 => /\ driver_state' = STATE_WAITING_COM_ACK
                      /\ sent' = Append(sent, CommandAt(n - 1))
      /\ ~(n - 1 > 0) => driver_state' = STATE_READY /\ sent' = sent
  BY <1>1 DEF handle_next_command
<1>3. Started
  BY DEF Started
<1>4. CASE n - 1 > 0
  <2>1. Started'
    BY <1>2, <1>4 DEF Started, STATE_WAITING_COM_ACK, STATE_READY
  <2> QED BY <1>1, <1>2, <1>3, <1>4, <2>1 DEF Waiting
<1>5. CASE ~(n - 1 > 0)
  <2>1. ~Started'
    BY <1>2, <1>5 DEF Started
  <2>2. n - 1 = 0
    BY <1>1, <1>5
  <2> QED BY <1>1, <1>2, <1>3, <1>5, <2>1, <2>2 DEF Waiting
<1> QED BY <1>4, <1>5

\* Every step of the driver and of its environment is a step of the queue, or
\* leaves the queue as it is.
LEMMA StepSimulates ==
  ASSUME FInv, [Next]_vars
  PROVE  [Fifo!Next]_(Fifo!vars)
<1> DEFINE Same == UNCHANGED <<Waiting, Started, sent>>
           Accepts == \E c \in Calls \union {QueryCommand} :
                        /\ Len(Waiting) + (IF Started THEN 1 ELSE 0) < S
                        /\ Waiting' = Append(Waiting, c)
                        /\ UNCHANGED <<Started, sent>>
           Starts == /\ Waiting # <<>> /\ Waiting' = Tail(Waiting)
                     /\ sent' = Append(sent, Head(Waiting)) /\ Started'
           Finishes == Started /\ Waiting = <<>> /\ ~Started' /\ UNCHANGED <<Waiting, sent>>
<1>1. Same \/ Accepts \/ Starts \/ Finishes
  <2>1. CASE \E c \in Calls : CallCommand(c)
    <3>1. /\ UNCHANGED <<command_queue, next_command_idx, pending_commands, sent>>
          /\ Started' <=> Started
          /\ pc = "idle" /\ pc' = "disable"
      BY <2>1 DEF CallCommand, Goto, driverVars, historyVars, Started
    <3> QED BY <3>1, RingSame, Stutters
  <2>2. CASE PortDisable \/ CheckRoom \/ SkipQuery \/ PortEnable
    <3>1. /\ UNCHANGED <<command_queue, next_command_idx, pending_commands, sent>>
          /\ Started' <=> Started
          /\ pc \notin {"count", "query_count"} /\ pc' \notin {"count", "query_count"}
      BY <2>2 DEF PortDisable, CheckRoom, SkipQuery, PortEnable, Goto, driverVars, historyVars,
                  Started
    <3> QED BY <3>1, RingSame, Stutters
  <2>3. CASE QueueCommand
    <3>1. queue_add(cur, "add", "count", "first")
            /\ UNCHANGED <<pending_commands, driver_state, sent>>
      BY <2>3 DEF QueueCommand, historyVars
    <3>2. cur \in ps2_kbd_command
      BY RingTypes DEF FInv, BInv
    <3>3. Ring' = Ring /\ pc = "add" /\ pc' \in {"count", "first"}
      BY <3>1, <3>2, RingStored
    <3>4. Started' <=> Started
      BY <3>1, <3>3 DEF Started
    <3> QED BY <3>1, <3>3, <3>4, Stutters
  <2>4. CASE CountCommand
    <3>1. /\ queue_count(cur, "count", "first")
          /\ UNCHANGED <<command_queue, next_command_idx, driver_state, sent>>
      BY <2>4 DEF CountCommand
    <3>2. cur \in Calls /\ command_queue[NewSlot] = cur
      BY <3>1 DEF queue_count, Goto, FInv, CInv
    <3> QED BY <3>1, <3>2, CountAccepts
  <2>5. CASE IfFirst
    <3>1. /\ UNCHANGED <<command_queue, next_command_idx, pending_commands, sent>>
          /\ pc = "first" /\ pc' \in {"send", "query"}
      BY <2>5 DEF IfFirst, Goto, historyVars
    <3>2. Started' <=> Started
      BY <2>5 DEF IfFirst, Goto, Loaded, FInv, LInv, LockInv, Busy, Started
    <3> QED BY <3>1, <3>2, RingSame, Stutters
  <2>6. CASE SendFirst
    BY <2>6, SendStarts
  <2>7. CASE QueueQuery
    <3>1. queue_add(QueryCommand, "query", "query_count", "enable")
            /\ UNCHANGED <<pending_commands, driver_state, sent>>
      BY <2>7 DEF QueueQuery
    <3>2. Ring' = Ring /\ pc = "query" /\ pc' \in {"query_count", "enable"}
      BY <3>1, QueryTyped, RingStored
    <3>3. Started' <=> Started
      BY <3>1, <3>2 DEF Started
    <3> QED BY <3>1, <3>2, <3>3, Stutters
  <2>8. CASE CountQuery
    <3>1. /\ queue_count(QueryCommand, "query_count", "enable")
          /\ UNCHANGED <<command_queue, next_command_idx, driver_state, sent>>
      BY <2>8 DEF CountQuery
    <3>2. command_queue[NewSlot] = QueryCommand
      BY <3>1 DEF queue_count, Goto, FInv, CInv
    <3> QED BY <3>1, <3>2, CountAccepts
  <2>9. CASE IrqSpurious \/ IrqScanCode \/ IrqResend \/ IrqSendArg \/ IrqPoll
    <3>1. /\ UNCHANGED <<command_queue, next_command_idx, pending_commands, sent, pc>>
          /\ Started' <=> Started
      BY <2>9 DEF IrqSpurious, IrqScanCode, IrqResend, IrqSendArg, IrqPoll, driverVars, mainVars,
                  historyVars, Started, STATE_READY, STATE_WAITING_COM_ACK, STATE_WAITING_ARG_ACK
    <3> QED BY <3>1, RingSame, Stutters
  <2>10. CASE IrqCommandDone \/ IrqArgDone \/ PollHit \/ PollMiss
    <3>1. irq \/ irqpc = "poll"
      BY <2>10 DEF IrqCommandDone, IrqArgDone, PollHit, PollMiss, TakeByte
    <3>2. driver_state # STATE_READY
      BY <2>10 DEF IrqCommandDone, IrqArgDone, PollHit, PollMiss, FInv, BInv, FirstInv,
                   STATE_READY, STATE_WAITING_COM_ACK, STATE_WAITING_ARG_ACK
    <3>3. handle_next_command /\ pc' = pc
      BY <2>10 DEF IrqCommandDone, IrqArgDone, PollHit, PollMiss, mainVars
    <3>4. pc \in {"idle", "disable"}
      BY <3>1 DEF FInv, LInv, LockInv, InBracket
    <3> QED BY <3>2, <3>3, <3>4, AcknowledgeAdvances
  <2>11. CASE Controller \/ Keyboard \/ KeyPressed \/ KmainLoop \/ UNCHANGED vars
    <3>1. UNCHANGED <<driverVars, mainVars, historyVars>>
      BY <2>11 DEF Controller, PortReceive, CtrlObeys, CtrlTakes, KeyPressed, Keyboard,
                   DeviceRefuses, DeviceTakesCommand, DeviceTakesArg, DeviceRejects,
                   DeviceAnswers, KmainLoop, vars
    <3>2. /\ UNCHANGED <<command_queue, next_command_idx, pending_commands, sent, pc>>
          /\ Started' <=> Started
      BY <3>1 DEF driverVars, mainVars, historyVars, Started
    <3> QED BY <3>2, RingSame, Stutters
  <2> QED
    BY <2>1, <2>2, <2>3, <2>4, <2>5, <2>6, <2>7, <2>8, <2>9, <2>10, <2>11
       DEF Next, ps2_kbd_command_arg, kbd_int_handler
<1> HIDE DEF Same, Accepts, Starts, Finishes
<1>2. Same => UNCHANGED Fifo!vars
  BY DEF Same, Fifo!vars, Waiting
<1>3. Accepts => Fifo!Next
  BY DEF Accepts, Fifo!Next, Fifo!Accept, Waiting, S
<1>4. Starts => Fifo!Next
  BY DEF Starts, Fifo!Next, Fifo!Start, Waiting
<1>5. Finishes => Fifo!Next
  BY DEF Finishes, Fifo!Next, Fifo!Finish, Waiting
<1> QED BY <1>1, <1>2, <1>3, <1>4, <1>5

\* Where the bracket works as a lock, the ring with its registers, interrupts and
\* acknowledgements implements the abstract queue of commands: every accepted
\* command is started once, in order, one at a time.
THEOREM RefinesFifo == LockMachine /\ Spec => ImplementsFifo
<1>1. LockMachine /\ Init => FInv
  <2>1. Init => LockInv /\ BusyMeansPending /\ FirstInv /\ CInv
    BY DEF Init, LockInv, InBracket, Busy, BusyMeansPending, FirstInv, CInv
  <2> QED BY <2>1, InitIInv DEF FInv, LInv, BInv
<1>2. Init => Fifo!Init
  <2> SUFFICES ASSUME Init PROVE Fifo!Init
    OBVIOUS
  <2>1. ~Started /\ sent = <<>> /\ pending_commands = 0 /\ pc = "idle"
    BY DEF Init, Started
  <2>2. Ring = <<>>
    BY <2>1 DEF Ring
  <2> QED BY <2>1, <2>2 DEF Fifo!Init
<1>3. FInv /\ [Next]_vars => [Fifo!Next]_(Fifo!vars)
  BY StepSimulates
<1> QED BY <1>1, <1>2, <1>3, StepFInv, PTL DEF Spec, ImplementsFifo, Fifo!Spec

-----------------------------------------------------------------------------
(***************************************************************************)
(* The driver and the keyboard in step: theorems about the bytes between   *)
(* them, on the machines where the port-1 bracket works as a lock, as long *)
(* as no key is pressed and no answer comes late.                          *)
(***************************************************************************)

\* What callers pass as commands are command bytes.
CommandsOnly == \A c \in Calls : IsCommandByte(c.com)

(***************************************************************************)
(* There is one message on the way when a command is started, and none     *)
(* otherwise: the byte for the keyboard, its refusal, its acknowledgement, *)
(* or the two bytes that answer the query.  There is none either, for      *)
(* good, when a write of the driver went over the byte.                    *)
(***************************************************************************)
NothingWritten == ibuf = NoByte /\ toDev = <<>>

\* Byte b is in the input buffer, or the controller has taken it.
Written(b) == \/ ibuf = b /\ toDev = <<>>
              \/ ibuf = NoByte /\ toDev = <<b>>

NoMessage == NothingWritten /\ fromDev = <<>> /\ obuf = NoByte /\ irqpc = "idle"

\* What the keyboard waits for after command byte com.
WaitsAfter(com) == IF com = PS2_KBD_COM_ECHO THEN 0 ELSE com

InArg == driver_state = STATE_WAITING_ARG_ACK

FromKeyboard(a) ==
  /\ NothingWritten /\ irqpc = "idle"
  /\ \/ fromDev = <<a>> /\ obuf = NoByte
     \/ fromDev = <<>> /\ obuf = a

\* Of command c: its byte is on the way to the keyboard.
ByteSent(c) ==
  /\ Written(IF InArg THEN c.arg ELSE c.com)
  /\ fromDev = <<>> /\ obuf = NoByte /\ irqpc = "idle"
  /\ InArg => devWait = WaitsAfter(c.com)

Refused(c) == FromKeyboard(RESEND) /\ (InArg => devWait = WaitsAfter(c.com))

Acknowledged(c) ==
  /\ FromKeyboard(ACK) \/ FromKeyboard(PS2_KBD_COM_ECHO)
  /\ ~InArg => devWait = WaitsAfter(c.com)
  /\ ~(InArg /\ c = QueryCommand)

\* The acknowledgement of the query's argument comes with the scan code set.
Told(c) ==
  LET set == ScanCodeSetByte[devSet]
  IN /\ InArg /\ c = QueryCommand /\ NothingWritten
     /\ \/ irqpc = "idle" /\ fromDev = <<ACK, set>> /\ obuf = NoByte
        \/ irqpc = "idle" /\ fromDev = <<set>> /\ obuf = ACK
        \/ irqpc = "poll" /\ fromDev = <<set>> /\ obuf = NoByte
        \/ irqpc = "poll" /\ fromDev = <<>> /\ obuf = set

OneMessage(c) == ByteSent(c) \/ Refused(c) \/ Acknowledged(c) \/ Told(c)

LinkInv == IF Started THEN OneMessage(Head(Ring)) \/ (lost /\ NoMessage) ELSE NoMessage

\* What is in the ring was passed by a caller, or is the query.
RingInv ==
  /\ \A i \in DOMAIN Ring : Ring[i] \in Calls \union {QueryCommand}
  /\ pc = "send" => driver_state = STATE_WAITING_COM_ACK

\* kmain has counted a SET_SCAN_SET and not yet its query.
QueryDue == pc \in {"first", "send", "query", "query_count"} /\ NeedsQuery

QueryBehind(i) == \E j \in DOMAIN Ring : i < j /\ Ring[j] = QueryCommand

AnySet == \E i \in DOMAIN accepted : IsSetScanSet(accepted[i])

(***************************************************************************)
(* The driver knows the scan code set, or will ask: every SET_SCAN_SET in  *)
(* the ring has a query behind it.                                         *)
(***************************************************************************)
SetInv ==
  ~dropped =>
    /\ AnySet => kbd_scan_code_set = devSet \/ QueryBehind(0) \/ QueryDue
    /\ \A i \in DOMAIN Ring : IsSetScanSet(Ring[i]) => QueryBehind(i) \/ QueryDue

InStep == decoded = <<>> /\ LinkInv /\ SetInv

PInv == CommandsOnly /\ FInv /\ RingInv /\ (Undisturbed => InStep)

-----------------------------------------------------------------------------
(* Lemmas                                                                  *)

\* The answer to the query tells the driver the set in use.
LEMMA AnswerTeaches ==
  ASSUME NEW n \in 1..3, LearnScanSet(ScanCodeSetByte[n])
  PROVE  kbd_scan_code_set' = n
<1>1. \A m \in 1..3 : ScanCodeSetByte[m] = ScanCodeSetByte[n] => m = n
  BY DEF ScanCodeSetByte
<1>2. (CHOOSE m \in 1..3 : ScanCodeSetByte[m] = ScanCodeSetByte[n]) = n
  BY <1>1
<1> QED BY <1>2 DEF LearnScanSet

\* Where the message is does not depend on kmain.
LEMMA LinkSame ==
  ASSUME LinkInv, UNCHANGED <<ibuf, toDev, fromDev, obuf, irqpc, devWait, devSet>>,
         lost => lost',
         Started' <=> Started, Started => driver_state' = driver_state,
         Started => Head(Ring') = Head(Ring)
  PROVE  LinkInv'
<1>1. CASE Started
  <2>1. CASE OneMessage(Head(Ring))
    <3>1. OneMessage(Head(Ring))'
      BY <1>1, <2>1 DEF OneMessage, ByteSent, Refused, Acknowledged, Told, FromKeyboard, InArg,
                        Written, NothingWritten
    <3> QED BY <1>1, <3>1 DEF LinkInv
  <2>2. CASE lost /\ NoMessage
    BY <1>1, <2>2 DEF LinkInv, NoMessage, NothingWritten
  <2> QED BY <1>1, <2>1, <2>2 DEF LinkInv
<1>2. CASE ~Started
  BY <1>2 DEF LinkInv, NoMessage, NothingWritten
<1> QED BY <1>1, <1>2

\* A command to the controller may go over the message: then there is none.
LEMMA LinkOverwritten ==
  ASSUME LInv, LinkInv, NEW command, ps2_command(command),
         UNCHANGED <<toDev, fromDev, obuf, irqpc, devWait, devSet, driver_state>>,
         Started' <=> Started, Ring' = Ring
  PROVE  LinkInv'
<1>1. ibuf' = NoByte /\ lost' = (lost \/ ibuf # NoByte)
  BY DEF ps2_command, outb, LInv, LockMachine
<1>2. CASE ibuf = NoByte
  BY <1>1, <1>2, LinkSame
<1>3. CASE ibuf # NoByte
  <2>1. Started /\ ByteSent(Head(Ring))
    BY <1>3 DEF LinkInv, NoMessage, NothingWritten, OneMessage, Refused, Acknowledged,
                FromKeyboard, Told
  <2>2. NoMessage' /\ lost'
    BY <1>1, <1>3, <2>1 DEF ByteSent, Written, NoMessage, NothingWritten
  <2> QED BY <2>1, <2>2 DEF LinkInv
<1> QED BY <1>2, <1>3

\* What the driver will ask stays, while the ring stays as it is.
LEMMA SetSame ==
  ASSUME SetInv, Ring' = Ring, UNCHANGED <<accepted, kbd_scan_code_set, devSet>>,
         QueryDue /\ ~dropped' => QueryDue', dropped => dropped'
  PROVE  SetInv'
BY DEF SetInv, AnySet, QueryBehind

\* A command more at the end of the ring.
LEMMA SetCounted ==
  ASSUME SetInv, Ring \in Seq(ps2_kbd_command), accepted \in Seq(ps2_kbd_command),
         NEW c \in ps2_kbd_command, Ring' = Append(Ring, c), accepted' = Append(accepted, c),
         UNCHANGED <<kbd_scan_code_set, devSet, dropped>>,
         IsSetScanSet(c) => QueryDue', QueryDue => c = QueryCommand
  PROVE  SetInv'
<1> SUFFICES ASSUME ~dropped PROVE SetInv'
  BY DEF SetInv
<1>1. /\ DOMAIN Ring = 1..Len(Ring) /\ Len(Ring) \in Nat
      /\ DOMAIN Ring' = 1..Len(Ring)+1 /\ Ring'[Len(Ring)+1] = c
      /\ \A i \in 1..Len(Ring) : Ring'[i] = Ring[i]
  OBVIOUS
<1>2. /\ DOMAIN accepted = 1..Len(accepted) /\ Len(accepted) \in Nat
      /\ DOMAIN accepted' = 1..Len(accepted)+1 /\ accepted'[Len(accepted)+1] = c
      /\ \A i \in 1..Len(accepted) : accepted'[i] = accepted[i]
  OBVIOUS
<1>3. \A i \in 0..Len(Ring) : QueryBehind(i) \/ c = QueryCommand => QueryBehind(i)'
  <2> SUFFICES ASSUME NEW i \in 0..Len(Ring), QueryBehind(i) \/ c = QueryCommand
               PROVE  \E j \in DOMAIN Ring' : i < j /\ Ring'[j] = QueryCommand
    BY DEF QueryBehind
  <2>1. CASE c = QueryCommand
    <3>1. Len(Ring) + 1 \in DOMAIN Ring' /\ i < Len(Ring) + 1
      BY <1>1
    <3>2. Ring'[Len(Ring) + 1] = QueryCommand
      BY <1>1, <2>1
    <3> QED BY <3>1, <3>2
  <2>2. CASE QueryBehind(i)
    <3>1. PICK j \in DOMAIN Ring : i < j /\ Ring[j] = QueryCommand
      BY <2>2 DEF QueryBehind
    <3> QED BY <1>1, <3>1
  <2> QED BY <2>1, <2>2
<1>4. AnySet' => (kbd_scan_code_set = devSet \/ QueryBehind(0)' \/ QueryDue')
  <2> SUFFICES ASSUME AnySet' PROVE kbd_scan_code_set = devSet \/ QueryBehind(0)' \/ QueryDue'
    OBVIOUS
  <2>1. AnySet \/ IsSetScanSet(c)
    BY <1>2 DEF AnySet
  <2>2. 0 \in 0..Len(Ring)
    BY <1>1
  <2> QED BY <1>3, <2>1, <2>2 DEF SetInv
<1>5. ASSUME NEW i \in DOMAIN Ring', IsSetScanSet(Ring'[i])
      PROVE  QueryBehind(i)' \/ QueryDue'
  <2>1. CASE i = Len(Ring) + 1
    BY <1>1, <1>5, <2>1
  <2>2. CASE i # Len(Ring) + 1
    <3>1. i \in DOMAIN Ring /\ i \in 0..Len(Ring) /\ Ring'[i] = Ring[i]
      BY <1>1, <2>2
    <3> QED BY <1>3, <1>5, <3>1 DEF SetInv
  <2> QED BY <2>1, <2>2
<1> QED BY <1>4, <1>5 DEF SetInv

\* A command less at its front: the query itself only once it is answered.
LEMMA SetAdvanced ==
  ASSUME SetInv, Ring \in Seq(ps2_kbd_command), Ring # <<>>, Ring' = Tail(Ring),
         UNCHANGED <<accepted, devSet, dropped>>, ~QueryDue,
         \/ Head(Ring) # QueryCommand /\ UNCHANGED kbd_scan_code_set
         \/ kbd_scan_code_set' = devSet
  PROVE  SetInv'
<1> SUFFICES ASSUME ~dropped PROVE SetInv'
  BY DEF SetInv
<1>1. /\ DOMAIN Ring = 1..Len(Ring) /\ Len(Ring) \in Nat \ {0}
      /\ DOMAIN Ring' = 1..Len(Ring)-1
      /\ \A i \in 1..Len(Ring)-1 : Ring'[i] = Ring[i+1]
      /\ Head(Ring) = Ring[1]
  BY HeadTailProperties
<1>2. \A i \in Nat : QueryBehind(i+1) => QueryBehind(i)'
  <2> SUFFICES ASSUME NEW i \in Nat, QueryBehind(i+1)
               PROVE  \E j \in DOMAIN Ring' : i < j /\ Ring'[j] = QueryCommand
    BY DEF QueryBehind
  <2>1. PICK j \in DOMAIN Ring : i + 1 < j /\ Ring[j] = QueryCommand
    BY DEF QueryBehind
  <2>2. j - 1 \in DOMAIN Ring' /\ i < j - 1 /\ Ring'[j-1] = Ring[j]
    BY <1>1, <2>1
  <2> QED BY <2>1, <2>2
<1>3. AnySet' => (kbd_scan_code_set' = devSet \/ QueryBehind(0)' \/ QueryDue')
  <2>1. CASE kbd_scan_code_set' = devSet
    BY <2>1
  <2>2. CASE Head(Ring) # QueryCommand /\ UNCHANGED kbd_scan_code_set
    <3>1. QueryBehind(0) => QueryBehind(0)'
      <4> SUFFICES ASSUME QueryBehind(0) PROVE QueryBehind(0)'
        OBVIOUS
      <4>1. PICK j \in DOMAIN Ring : 0 < j /\ Ring[j] = QueryCommand
        BY DEF QueryBehind
      <4>2. j # 1
        BY <1>1, <2>2, <4>1
      <4>3. QueryBehind(0+1)
        BY <1>1, <4>1, <4>2 DEF QueryBehind
      <4> QED BY <1>2, <4>3
    <3>2. AnySet' => AnySet
      BY DEF AnySet
    <3> QED BY <2>2, <3>1, <3>2 DEF SetInv
  <2> QED BY <2>1, <2>2
<1>4. ASSUME NEW i \in DOMAIN Ring', IsSetScanSet(Ring'[i])
      PROVE  QueryBehind(i)'
  <2>1. i \in Nat /\ i + 1 \in DOMAIN Ring /\ Ring'[i] = Ring[i+1]
    BY <1>1
  <2>2. QueryBehind(i+1)
    BY <1>4, <2>1 DEF SetInv
  <2> QED BY <1>2, <2>1, <2>2
<1>5. devSet' = devSet
  OBVIOUS
<1> QED BY <1>3, <1>4, <1>5 DEF SetInv

\* The ring as a sequence of commands.
LEMMA RingTyped ==
  ASSUME FInv
  PROVE  /\ Ring \in Seq(ps2_kbd_command) /\ Len(Ring) = pending_commands
         /\ pending_commands \in Nat
         /\ Started => Ring # <<>>
<1> DEFINE q == command_queue  e == next_command_idx  n == pending_commands
<1>1. /\ q \in Queues /\ e \in Int /\ e - 1 \in Int /\ n \in Nat
  <2>1. S \in Nat /\ q \in Queues /\ e \in 0..S-1 /\ n \in 0..S
    BY RingTypes DEF FInv, BInv
  <2> QED BY <2>1
<1>2. Ring = Window(q, e - 1, n) \/ Ring = Window(q, e, n)
  BY RingWindow
<1>3. Started => n # 0
  BY DEF Started, FInv, BInv, BusyMeansPending
<1> HIDE DEF q, e, n
<1>4. Ring \in Seq(ps2_kbd_command) /\ Len(Ring) = n
  <2>1. \A f \in Int : Window(q, f, n) \in Seq(ps2_kbd_command) /\ Len(Window(q, f, n)) = n
    BY <1>1, WindowSeq
  <2> QED BY <1>1, <1>2, <2>1
<1> QED BY <1>1, <1>3, <1>4 DEF n

-----------------------------------------------------------------------------
(* kmain                                                                   *)

\* The steps of kmain that leave the ring and the keyboard alone.
LEMMA MainQuiet ==
  ASSUME PInv, \/ \E c \in Calls : CallCommand(c)
               \/ PortDisable \/ CheckRoom \/ QueueCommand \/ IfFirst
               \/ QueueQuery \/ SkipQuery \/ PortEnable
  PROVE  RingInv' /\ (Undisturbed => InStep')
<1>1. Ring' = Ring
  <2>1. CASE QueueCommand
    <3>1. queue_add(cur, "add", "count", "first") /\ UNCHANGED pending_commands
      BY <2>1 DEF QueueCommand
    <3>2. cur \in ps2_kbd_command
      BY RingTypes DEF PInv, FInv, BInv
    <3> QED BY <3>1, <3>2, RingStored DEF PInv
  <2>2. CASE QueueQuery
    <3>1. queue_add(QueryCommand, "query", "query_count", "enable")
            /\ UNCHANGED pending_commands
      BY <2>2 DEF QueueQuery
    <3> QED BY <3>1, QueryTyped, RingStored DEF PInv
  <2>3. CASE ~QueueCommand /\ ~QueueQuery
    <3>1. /\ UNCHANGED <<command_queue, next_command_idx, pending_commands>>
          /\ pc \notin {"count", "query_count"} /\ pc' \notin {"count", "query_count"}
      BY <2>3 DEF CallCommand, PortDisable, CheckRoom, IfFirst, SkipQuery, PortEnable, Goto,
                  driverVars
    <3> QED BY <3>1, RingSame
  <2> QED BY <2>1, <2>2, <2>3
<1>2. /\ UNCHANGED <<toDev, fromDev, obuf, irqpc, devWait, devSet, kbd_scan_code_set>>
      /\ UNCHANGED <<accepted, decoded>>
      /\ \/ UNCHANGED <<ibuf, lost>>
         \/ /\ UNCHANGED driver_state
            /\ \E command : ps2_command(command)
  BY DEF CallCommand, PortDisable, CheckRoom, QueueCommand, IfFirst, QueueQuery, SkipQuery,
         PortEnable, driverVars, ctrlVars, devVars, historyVars
<1>3. /\ Started' <=> Started
      /\ Started => driver_state' = driver_state
      /\ pc' = "send" => driver_state' = STATE_WAITING_COM_ACK
  <2>1. CASE IfFirst
    <3>1. /\ pc = "first" /\ \/ pc' = "send" /\ driver_state' = STATE_WAITING_COM_ACK
                             \/ pc' = "query" /\ driver_state' = driver_state
          /\ pc' = "send" => pending_commands = 1
      BY <2>1 DEF IfFirst, Goto, Loaded, PInv, FInv, LInv, LockInv
    <3>2. pc' = "send" => driver_state = STATE_READY
      BY <3>1 DEF PInv, FInv, LInv, LockInv, Busy
    <3> QED BY <3>1, <3>2 DEF Started
  <2>2. CASE ~IfFirst
    <3>1. driver_state' = driver_state /\ pc # "send" /\ pc' # "send"
      BY <2>2 DEF CallCommand, PortDisable, CheckRoom, QueueCommand, QueueQuery, SkipQuery,
                  PortEnable, queue_add, Goto, driverVars
    <3> QED BY <3>1 DEF Started
  <2> QED BY <2>1, <2>2
<1>4. (QueryDue /\ ~dropped' => QueryDue') /\ (dropped => dropped')
  <2>1. CASE QueueQuery
    <3>1. pc' \in {"query_count", "enable"} /\ dropped' = (dropped \/ pc' = "enable")
            /\ cur' = cur
      BY <2>1 DEF QueueQuery, queue_add, Goto
    <3> QED BY <3>1 DEF QueryDue, NeedsQuery
  <2>2. CASE IfFirst
    <3>1. pc' \in {"send", "query"} /\ cur' = cur /\ dropped' = dropped
      BY <2>2 DEF IfFirst, Goto, historyVars
    <3> QED BY <3>1 DEF QueryDue, NeedsQuery
  <2>3. CASE ~QueueQuery /\ ~IfFirst
    <3>1. ~QueryDue /\ dropped' = dropped
      BY <2>3 DEF QueryDue, CallCommand, PortDisable, CheckRoom, QueueCommand, SkipQuery,
                  PortEnable, queue_add, Goto, historyVars
    <3> QED BY <3>1
  <2> QED BY <2>1, <2>2, <2>3
<1>5. RingInv'
  BY <1>1, <1>3 DEF PInv, RingInv
<1>6. Undisturbed => InStep'
  <2> SUFFICES ASSUME Undisturbed PROVE InStep'
    OBVIOUS
  <2>1. decoded = <<>> /\ LinkInv /\ SetInv /\ LInv
    BY DEF PInv, FInv, InStep
  <2>2. LinkInv'
    BY <1>1, <1>2, <1>3, <2>1, LinkSame, LinkOverwritten
  <2>3. SetInv'
    BY <1>1, <1>2, <1>4, <2>1, SetSame
  <2> QED BY <1>2, <2>1, <2>2, <2>3 DEF InStep
<1> QED BY <1>5, <1>6

\* ++pending_commands
LEMMA MainCounts ==
  ASSUME PInv, CountCommand \/ CountQuery
  PROVE  RingInv' /\ (Undisturbed => InStep')
<1> DEFINE c == IF CountCommand THEN cur ELSE QueryCommand
<1>1. /\ Ring' = Append(Ring, c) /\ accepted' = Append(accepted, c)
      /\ c \in Calls \union {QueryCommand}
      /\ pc \in {"count", "query_count"} /\ pc' \in {"first", "enable"}
  <2>1. CASE CountCommand
    <3>1. /\ queue_count(cur, "count", "first")
          /\ UNCHANGED <<command_queue, next_command_idx>>
      BY <2>1 DEF CountCommand
    <3>2. cur \in Calls /\ command_queue[NewSlot] = cur
      BY <3>1 DEF queue_count, Goto, PInv, FInv, CInv
    <3>3. accepted' = Append(accepted, cur)
      BY <3>1 DEF queue_count
    <3> QED BY <2>1, <3>1, <3>2, <3>3, RingCounted DEF PInv
  <2>2. CASE ~CountCommand
    <3>1. /\ queue_count(QueryCommand, "query_count", "enable")
          /\ UNCHANGED <<command_queue, next_command_idx>>
      BY <2>2 DEF CountQuery
    <3>2. command_queue[NewSlot] = QueryCommand
      BY <3>1 DEF queue_count, Goto, PInv, FInv, CInv
    <3>3. accepted' = Append(accepted, QueryCommand)
      BY <3>1 DEF queue_count
    <3> QED BY <2>2, <3>1, <3>2, <3>3, RingCounted DEF PInv
  <2> QED BY <2>1, <2>2
<1>2. /\ IsSetScanSet(c) => QueryDue'
      /\ QueryDue => c = QueryCommand
  <2>1. CASE CountCommand
    <3>1. pc = "count" /\ pc' = "first" /\ cur' = cur
      BY <2>1 DEF CountCommand, queue_count, Goto
    <3> QED BY <2>1, <3>1 DEF QueryDue, NeedsQuery, IsSetScanSet
  <2>2. CASE ~CountCommand
    BY <2>2 DEF IsSetScanSet, QueryCommand
  <2> QED BY <2>1, <2>2
<1>3. UNCHANGED <<ibuf, lost, toDev, fromDev, obuf, irqpc, devWait, devSet, kbd_scan_code_set,
                  driver_state, decoded, dropped>>
  BY DEF CountCommand, CountQuery, ctrlVars, devVars
<1>4. c \in ps2_kbd_command
  BY <1>1, CallsAssumption, QueryTyped
<1> HIDE DEF c
<1>5. /\ Ring \in Seq(ps2_kbd_command) /\ (Started => Ring # <<>>)
      /\ accepted \in Seq(ps2_kbd_command)
  BY RingTyped DEF PInv, FInv, LInv, IInv, TypeOK
<1>6. RingInv'
  <2>1. \A i \in DOMAIN Ring' : Ring'[i] = c \/ (i \in DOMAIN Ring /\ Ring'[i] = Ring[i])
    BY <1>1, <1>4, <1>5
  <2> QED BY <1>1, <2>1 DEF PInv, RingInv
<1>7. Started' <=> Started
  BY <1>1, <1>3 DEF Started
<1>8. Started => Head(Ring') = Head(Ring)
  BY <1>1, <1>4, <1>5
<1>9. Undisturbed => InStep'
  BY <1>1, <1>2, <1>3, <1>4, <1>5, <1>7, <1>8, LinkSame, SetCounted DEF PInv, InStep
<1> QED BY <1>6, <1>9

\* ps2_port1_write(command)
LEMMA MainSends ==
  ASSUME PInv, SendFirst
  PROVE  RingInv' /\ (Undisturbed => InStep')
<1>1. /\ pc = "send" /\ pc' = "query" /\ ibuf' = cur.com
      /\ UNCHANGED driverVars
      /\ UNCHANGED <<cur, toDev, fromDev, obuf, irqpc, devWait, devSet, accepted, decoded,
                     dropped>>
  BY DEF SendFirst, Goto, ps2_port1_write, outb, devVars
<1>2. Ring' = Ring /\ Head(Ring) = cur
  BY <1>1, RingSame, RingSent DEF PInv, driverVars
<1>3. RingInv'
  BY <1>1, <1>2 DEF PInv, RingInv
<1>4. ASSUME Undisturbed PROVE InStep'
  <2>1. ~Started /\ Started' /\ driver_state' = STATE_WAITING_COM_ACK
    BY <1>1 DEF Started, PInv, RingInv, driverVars, STATE_WAITING_COM_ACK, STATE_READY
  <2>2. NoMessage /\ SetInv /\ decoded = <<>>
    BY <1>4, <2>1 DEF PInv, InStep, LinkInv
  <2>3. ByteSent(cur)'
    <3>1. Written(cur.com)'
      BY <1>1, <2>2 DEF NoMessage, NothingWritten, Written
    <3>2. ~InArg'
      BY <2>1 DEF InArg, STATE_WAITING_COM_ACK, STATE_WAITING_ARG_ACK
    <3> QED BY <1>1, <2>2, <3>1, <3>2 DEF ByteSent, NoMessage
  <2>4. LinkInv'
    BY <1>1, <1>2, <2>1, <2>3 DEF LinkInv, OneMessage
  <2>5. SetInv'
    BY <1>1, <1>2, <2>2, SetSame DEF QueryDue, NeedsQuery, driverVars
  <2> QED BY <1>1, <2>2, <2>4, <2>5 DEF InStep
<1> QED BY <1>3, <1>4

-----------------------------------------------------------------------------
(* The handler                                                             *)

\* The handler runs outside kmain's bracket, on the oldest command.
LEMMA HandlerContext ==
  ASSUME PInv, kbd_int_handler
  PROVE  /\ pc \in {"idle", "disable"} /\ pc' = pc /\ UNCHANGED <<cur, accepted, dropped>>
         /\ ~QueryDue
         /\ Started <=> driver_state # STATE_READY
         /\ Started' <=> driver_state' # STATE_READY
         /\ Started => Ring # <<>> /\ Head(Ring) = current_command
<1>1. irq \/ irqpc = "poll"
  BY DEF kbd_int_handler, IrqSpurious, IrqScanCode, IrqResend, IrqSendArg, IrqCommandDone,
         IrqArgDone, IrqPoll, PollHit, PollMiss, TakeByte
<1>2. pc \in {"idle", "disable"}
  BY <1>1 DEF PInv, FInv, LInv, LockInv, InBracket
<1>3. pc' = pc /\ UNCHANGED <<cur, accepted, dropped>>
  BY DEF kbd_int_handler, IrqSpurious, IrqScanCode, IrqResend, IrqSendArg, IrqCommandDone,
         IrqArgDone, IrqPoll, PollHit, PollMiss, mainVars, historyVars
<1>4. Started => Ring # <<>> /\ Head(Ring) = current_command
  BY <1>2, RingAdvanced DEF PInv, Started
<1> QED BY <1>2, <1>3, <1>4 DEF QueryDue, Started

\* The byte the handler takes, and what it says of the oldest command.
LEMMA TakenByte ==
  ASSUME PInv, Undisturbed, kbd_int_handler, TakeByte
  PROVE  /\ driver_state # STATE_READY
         /\ NothingWritten /\ irqpc = "idle"
         /\ \/ /\ obuf = RESEND /\ fromDev = <<>>
               /\ InArg => devWait = WaitsAfter(current_command.com)
            \/ /\ obuf # RESEND /\ fromDev = <<>>
               /\ ~InArg => devWait = WaitsAfter(current_command.com)
               /\ ~(InArg /\ current_command = QueryCommand)
            \/ /\ obuf # RESEND /\ fromDev = <<ScanCodeSetByte[devSet]>>
               /\ InArg /\ current_command = QueryCommand
<1>1. LinkInv /\ obuf # NoByte /\ irqpc = "idle"
  BY DEF PInv, InStep, TakeByte
<1>2. Started
  BY <1>1 DEF LinkInv, NoMessage
<1>3. OneMessage(current_command)
  BY <1>1, <1>2, HandlerContext DEF LinkInv, NoMessage
<1>4. driver_state # STATE_READY
  BY <1>2 DEF Started
<1>5. CASE ByteSent(current_command)
  BY <1>1, <1>5 DEF ByteSent
<1>6. CASE Refused(current_command)
  BY <1>1, <1>4, <1>6 DEF Refused, FromKeyboard
<1>7. CASE Acknowledged(current_command)
  BY <1>1, <1>4, <1>7 DEF Acknowledged, FromKeyboard, ACK, RESEND, PS2_KBD_COM_ECHO
<1>8. CASE Told(current_command)
  BY <1>1, <1>4, <1>8 DEF Told, ACK, RESEND
<1> QED BY <1>3, <1>5, <1>6, <1>7, <1>8 DEF OneMessage

\* handle_next_command leaves the next command's byte on the way, or nothing.
LEMMA NextSent ==
  ASSUME PInv, kbd_int_handler, handle_next_command, driver_state # STATE_READY,
         NothingWritten, UNCHANGED toDev, fromDev' = <<>>, obuf' = NoByte, irqpc' = "idle"
  PROVE  LinkInv'
<1>1. /\ pc \in {"idle", "disable"} /\ pc' = pc
      /\ Started' <=> driver_state' # STATE_READY
  BY HandlerContext
<1>2. /\ pending_commands \in Nat \ {0} /\ pending_commands' = pending_commands - 1
      /\ pending_commands' > 0 => Head(Ring') = CommandAt(pending_commands')
  BY <1>1, RingAdvanced DEF PInv
<1>3. CASE pending_commands' > 0
  <2>1. /\ driver_state' = STATE_WAITING_COM_ACK
        /\ ibuf' = CommandAt(pending_commands').com
    BY <1>2, <1>3 DEF handle_next_command, ps2_port1_write, outb
  <2> DEFINE c == CommandAt(pending_commands')
  <2>2. ibuf' = c.com /\ toDev' = <<>> /\ ~InArg' /\ Started' /\ Head(Ring') = c
    BY <1>1, <1>2, <1>3, <2>1
       DEF NothingWritten, InArg, STATE_WAITING_COM_ACK, STATE_WAITING_ARG_ACK, STATE_READY
  <2> HIDE DEF c
  <2>3. OneMessage(Head(Ring))'
    BY <2>2 DEF OneMessage, ByteSent, Written
  <2> QED BY <2>2, <2>3 DEF LinkInv
<1>4. CASE ~(pending_commands' > 0)
  <2>1. driver_state' = STATE_READY /\ ibuf' = ibuf
    BY <1>2, <1>4 DEF handle_next_command
  <2> QED BY <1>1, <2>1 DEF LinkInv, NoMessage, NothingWritten
<1> QED BY <1>3, <1>4

\* Finishing a command keeps the ring's commands.
LEMMA NextRing ==
  ASSUME PInv, kbd_int_handler, handle_next_command, driver_state # STATE_READY
  PROVE  /\ RingInv' /\ Ring' = Tail(Ring)
         /\ Ring \in Seq(ps2_kbd_command) /\ Ring # <<>>
<1>1. pc \in {"idle", "disable"} /\ pc' = pc
  BY HandlerContext
<1>2. Ring' = Tail(Ring) /\ Ring \in Seq(ps2_kbd_command) /\ Ring # <<>>
  BY <1>1, RingAdvanced DEF PInv
<1>3. \A i \in DOMAIN Tail(Ring) : i + 1 \in DOMAIN Ring /\ Tail(Ring)[i] = Ring[i+1]
  BY <1>2, HeadTailProperties
<1> QED BY <1>1, <1>2, <1>3 DEF PInv, RingInv

\* The steps of the handler that keep the command.
LEMMA HandlerStays ==
  ASSUME PInv, kbd_int_handler,
         IrqSpurious \/ IrqScanCode \/ IrqResend \/ IrqSendArg \/ IrqPoll
  PROVE  RingInv' /\ (Undisturbed => InStep')
<1> DEFINE c == current_command
<1>0. /\ pc \in {"idle", "disable"} /\ pc' = pc /\ UNCHANGED <<cur, accepted, dropped>>
      /\ ~QueryDue
      /\ Started <=> driver_state # STATE_READY
      /\ Started' <=> driver_state' # STATE_READY
      /\ Started => Ring # <<>> /\ Head(Ring) = c
  BY HandlerContext
<1>1. /\ UNCHANGED <<command_queue, next_command_idx, pending_commands, kbd_scan_code_set>>
      /\ UNCHANGED <<devWait, devSet, toDev, fromDev>>
  BY DEF IrqSpurious, IrqScanCode, IrqResend, IrqSendArg, IrqPoll, driverVars, devVars
<1>2. Ring' = Ring
  BY <1>0, <1>1, RingSame
<1>3. RingInv'
  BY <1>0, <1>2 DEF PInv, RingInv
<1> HIDE DEF c
<1>4. ASSUME Undisturbed PROVE InStep'
  <2>1. SetInv'
    BY <1>0, <1>1, <1>2, <1>4, SetSame DEF PInv, InStep
  <2>2. decoded' = decoded => decoded' = <<>>
    BY <1>4 DEF PInv, InStep
  <2>3. CASE IrqSpurious
    <3>1. /\ UNCHANGED <<ibuf, lost, obuf, irqpc, driver_state, decoded>>
      BY <2>3 DEF IrqSpurious, driverVars, devVars, historyVars
    <3> QED BY <1>0, <1>1, <1>2, <1>4, <2>1, <2>2, <3>1, LinkSame DEF PInv, InStep
  <2>4. CASE IrqScanCode
    BY <1>4, <2>4, TakenByte DEF IrqScanCode
  <2>5. CASE IrqResend
    <3>1. /\ TakeByte /\ obuf = RESEND /\ obuf' = NoByte
          /\ ibuf' = IF driver_state = STATE_WAITING_COM_ACK THEN c.com ELSE c.arg
          /\ UNCHANGED <<driver_state, irqpc, decoded>>
      BY <2>5 DEF IrqResend, TakeByte, ps2_port1_write, outb, driverVars, historyVars, c
    <3>2. /\ driver_state # STATE_READY /\ NothingWritten /\ irqpc = "idle" /\ fromDev = <<>>
          /\ InArg => devWait = WaitsAfter(c.com)
      BY <1>4, <3>1, TakenByte DEF c
    <3>3. driver_state = STATE_WAITING_COM_ACK <=> ~InArg
      BY <3>2 DEF InArg, PInv, FInv, LInv, IInv, TypeOK, STATE_WAITING_COM_ACK,
                  STATE_WAITING_ARG_ACK
    <3>4. Started' /\ Head(Ring') = c /\ (InArg' <=> InArg)
      BY <1>0, <1>2, <3>1, <3>2 DEF InArg
    <3>5. ByteSent(Head(Ring))'
      BY <1>1, <3>1, <3>2, <3>3, <3>4 DEF ByteSent, Written, NothingWritten
    <3> QED BY <2>1, <2>2, <3>1, <3>4, <3>5 DEF InStep, LinkInv, OneMessage
  <2>6. CASE IrqSendArg
    <3>1. /\ TakeByte /\ obuf # RESEND /\ obuf' = NoByte
          /\ driver_state = STATE_WAITING_COM_ACK /\ driver_state' = STATE_WAITING_ARG_ACK
          /\ ibuf' = c.arg
          /\ UNCHANGED <<irqpc, decoded>>
      BY <2>6 DEF IrqSendArg, TakeByte, ps2_port1_write, outb, historyVars, c
    <3>2. ~InArg
      BY <3>1 DEF InArg, STATE_WAITING_COM_ACK, STATE_WAITING_ARG_ACK
    <3>3. /\ NothingWritten /\ irqpc = "idle" /\ fromDev = <<>>
          /\ devWait = WaitsAfter(c.com) /\ driver_state # STATE_READY
      BY <1>4, <3>1, <3>2, TakenByte DEF c
    <3>4. Started' /\ Head(Ring') = c /\ InArg'
      BY <1>0, <1>2, <3>1, <3>3 DEF InArg, STATE_WAITING_ARG_ACK, STATE_READY
    <3>5. ByteSent(Head(Ring))'
      BY <1>1, <3>1, <3>3, <3>4 DEF ByteSent, Written, NothingWritten
    <3> QED BY <2>1, <2>2, <3>1, <3>4, <3>5 DEF InStep, LinkInv, OneMessage
  <2>7. CASE IrqPoll
    <3>1. /\ TakeByte /\ obuf # RESEND /\ obuf' = NoByte /\ irqpc' = "poll"
          /\ driver_state = STATE_WAITING_ARG_ACK /\ c = QueryCommand
          /\ UNCHANGED <<driver_state, ibuf, decoded>>
      BY <2>7 DEF IrqPoll, TakeByte, driverVars, devVars, historyVars, c
    <3>2. InArg
      BY <3>1 DEF InArg
    <3>3. /\ NothingWritten /\ fromDev = <<ScanCodeSetByte[devSet]>> /\ driver_state # STATE_READY
      BY <1>4, <3>1, <3>2, TakenByte DEF c
    <3>4. Started' /\ Head(Ring') = c /\ InArg'
      BY <1>0, <1>2, <3>1, <3>2, <3>3 DEF InArg
    <3>5. Told(Head(Ring))'
      BY <1>1, <3>1, <3>3, <3>4 DEF Told, NothingWritten
    <3> QED BY <2>1, <2>2, <3>1, <3>4, <3>5 DEF InStep, LinkInv, OneMessage
  <2> QED BY <2>3, <2>4, <2>5, <2>6, <2>7
<1> QED BY <1>3, <1>4

\* The steps of the handler that finish the command.
LEMMA HandlerFinishes ==
  ASSUME PInv, kbd_int_handler, IrqCommandDone \/ IrqArgDone \/ PollHit \/ PollMiss
  PROVE  RingInv' /\ (Undisturbed' => InStep')
<1> DEFINE c == current_command
<1>0. /\ UNCHANGED <<cur, accepted, dropped>> /\ ~QueryDue
      /\ Started <=> driver_state # STATE_READY
      /\ Started => Head(Ring) = c
  BY HandlerContext
<1>1. /\ handle_next_command /\ driver_state # STATE_READY
      /\ irqpc' = "idle" /\ UNCHANGED <<toDev, fromDev, devSet, decoded, keys>>
  BY DEF IrqCommandDone, IrqArgDone, PollHit, PollMiss, TakeByte, devVars, PInv, FInv, BInv,
         FirstInv, STATE_READY, STATE_WAITING_COM_ACK, STATE_WAITING_ARG_ACK
<1>2. /\ RingInv' /\ Ring' = Tail(Ring) /\ Ring \in Seq(ps2_kbd_command) /\ Ring # <<>>
  BY <1>1, NextRing
<1> HIDE DEF c
<1>3. ASSUME Undisturbed' PROVE InStep'
  <2>1. Undisturbed /\ ~PollMiss
    BY <1>1, <1>3 DEF Undisturbed, IrqCommandDone, IrqArgDone, PollHit, PollMiss
  <2>2. decoded = <<>> /\ LinkInv /\ SetInv
    BY <2>1 DEF PInv, InStep
  <2>3. CASE IrqCommandDone \/ IrqArgDone
    <3>1. /\ TakeByte /\ obuf # RESEND /\ obuf' = NoByte /\ UNCHANGED kbd_scan_code_set
          /\ \/ driver_state = STATE_WAITING_COM_ACK /\ c.arg = COMMAND_NO_ARG
             \/ driver_state = STATE_WAITING_ARG_ACK /\ c # QueryCommand
      BY <2>3 DEF IrqCommandDone, IrqArgDone, TakeByte, c
    <3>2. c # QueryCommand
      BY <3>1 DEF QueryCommand, COMMAND_NO_ARG
    <3>3. NothingWritten /\ fromDev = <<>>
      BY <2>1, <3>1, <3>2, TakenByte DEF c
    <3>4. LinkInv'
      BY <1>1, <3>1, <3>3, NextSent
    <3>5. SetInv'
      BY <1>0, <1>1, <1>2, <2>2, <3>1, <3>2, SetAdvanced
    <3> QED BY <1>1, <2>2, <3>4, <3>5 DEF InStep
  <2>4. CASE PollHit
    <3>1. irqpc = "poll" /\ obuf # NoByte /\ LearnScanSet(obuf) /\ obuf' = NoByte
      BY <2>4 DEF PollHit
    <3>2. OneMessage(c)
      BY <1>0, <1>1, <2>2, <3>1 DEF LinkInv, NoMessage
    <3>3. NothingWritten /\ fromDev = <<>> /\ obuf = ScanCodeSetByte[devSet]
      BY <3>1, <3>2 DEF OneMessage, ByteSent, Refused, Acknowledged, FromKeyboard, Told
    <3>4. kbd_scan_code_set' = devSet
      <4>1. devSet \in 1..3
        BY DEF PInv, FInv, LInv, IInv, TypeOK
      <4> QED BY <3>1, <3>3, <4>1, AnswerTeaches
    <3>5. LinkInv'
      BY <1>1, <3>1, <3>3, NextSent
    <3>6. SetInv'
      BY <1>0, <1>1, <1>2, <2>2, <3>4, SetAdvanced
    <3> QED BY <1>1, <2>2, <3>5, <3>6 DEF InStep
  <2> QED BY <2>1, <2>3, <2>4
<1> QED BY <1>2, <1>3

-----------------------------------------------------------------------------
(* The controller and the keyboard                                         *)

\* They leave the driver alone.
LEMMA DeviceContext ==
  ASSUME PInv, Controller \/ Keyboard
  PROVE  /\ Ring' = Ring /\ RingInv'
         /\ UNCHANGED <<driver_state, pc, kbd_scan_code_set, accepted, dropped, decoded, irqpc,
                        keys, missed, lost>>
         /\ Started' <=> Started
         /\ QueryDue' <=> QueryDue
         /\ Undisturbed' <=> Undisturbed
<1>1. UNCHANGED <<driverVars, mainVars, historyVars, irqpc, keys>>
  <2>1. CASE Controller
    BY <2>1 DEF Controller, PortReceive, CtrlObeys, CtrlTakes, devVars
  <2>2. CASE Keyboard
    BY <2>2 DEF Keyboard, DeviceRefuses, DeviceTakesCommand, DeviceTakesArg, DeviceRejects,
                DeviceAnswers
  <2> QED BY <2>1, <2>2
<1>2. /\ UNCHANGED <<command_queue, next_command_idx, pending_commands, driver_state, pc, cur>>
      /\ UNCHANGED <<kbd_scan_code_set, accepted, dropped, decoded, irqpc, keys, missed, lost>>
  BY <1>1 DEF driverVars, mainVars, historyVars
<1>3. Ring' = Ring
  BY <1>2, RingSame
<1> QED BY <1>2, <1>3 DEF PInv, RingInv, Started, QueryDue, NeedsQuery, Undisturbed

\* The message moves on to the output buffer.
LEMMA ReceiveInStep ==
  ASSUME PInv, PortReceive
  PROVE  RingInv' /\ (Undisturbed' => InStep')
<1> DEFINE c == Head(Ring)
<1>1. /\ Ring' = Ring /\ RingInv'
      /\ UNCHANGED <<driver_state, kbd_scan_code_set, accepted, dropped, decoded, irqpc>>
      /\ Started' <=> Started
      /\ QueryDue' <=> QueryDue
      /\ Undisturbed' <=> Undisturbed
  BY DeviceContext DEF Controller
<1>2. /\ obuf = NoByte /\ fromDev # <<>> /\ obuf' = Head(fromDev) /\ fromDev' = Tail(fromDev)
      /\ UNCHANGED <<ibuf, toDev, devWait, devSet>>
  BY DEF PortReceive
<1>3. ASSUME Undisturbed PROVE InStep'
  <2>1. decoded = <<>> /\ LinkInv /\ SetInv
    BY <1>3 DEF PInv, InStep
  <2>2. SetInv'
    BY <1>1, <1>2, <2>1, SetSame
  <2>3. Started /\ OneMessage(c)
    BY <1>2, <2>1 DEF LinkInv, NoMessage
  <2> HIDE DEF c
  <2>4. OneMessage(c)'
    <3>1. \A a : FromKeyboard(a) => FromKeyboard(a)'
      <4> SUFFICES ASSUME NEW a, FromKeyboard(a) PROVE FromKeyboard(a)'
        OBVIOUS
      <4>1. fromDev = <<a>>
        BY <1>2 DEF FromKeyboard
      <4>2. Head(fromDev) = a /\ Tail(fromDev) = <<>>
        BY <4>1
      <4> QED BY <1>1, <1>2, <4>2 DEF FromKeyboard, NothingWritten
    <3>2. CASE ByteSent(c)
      BY <1>2, <3>2 DEF ByteSent
    <3>3. CASE Refused(c)
      BY <1>1, <1>2, <3>1, <3>3 DEF Refused, OneMessage, InArg, c
    <3>4. CASE Acknowledged(c)
      BY <1>1, <1>2, <3>1, <3>4 DEF Acknowledged, OneMessage, InArg, c
    <3>5. CASE Told(c)
      <4> DEFINE b == ScanCodeSetByte[devSet]
      <4>1. /\ InArg /\ c = QueryCommand /\ NothingWritten
            /\ \/ irqpc = "idle" /\ fromDev = <<ACK, b>>
               \/ irqpc = "poll" /\ fromDev = <<b>>
        BY <1>2, <3>5 DEF Told, ACK, NoByte
      <4>2. InArg' /\ c' = QueryCommand /\ NothingWritten' /\ b' = b
        BY <1>1, <1>2, <4>1 DEF InArg, NothingWritten, c
      <4> HIDE DEF b
      <4>3. /\ Head(<<ACK, b>>) = ACK /\ Tail(<<ACK, b>>) = <<b>>
            /\ Head(<<b>>) = b /\ Tail(<<b>>) = <<>>
        OBVIOUS
      <4>4. \/ irqpc' = "idle" /\ obuf' = ACK /\ fromDev' = <<b>>
            \/ irqpc' = "poll" /\ obuf' = b /\ fromDev' = <<>>
        BY <1>1, <1>2, <4>1, <4>3
      <4> QED BY <4>2, <4>4 DEF Told, OneMessage, b
    <3> QED BY <2>3, <3>2, <3>3, <3>4, <3>5 DEF OneMessage
  <2> QED BY <1>1, <2>1, <2>2, <2>3, <2>4 DEF InStep, LinkInv, c
<1> QED BY <1>1, <1>3

\* The controller takes the byte that was written.
LEMMA TakesInStep ==
  ASSUME PInv, CtrlTakes
  PROVE  RingInv' /\ (Undisturbed' => InStep')
<1> DEFINE c == Head(Ring)
<1>1. /\ Ring' = Ring /\ RingInv'
      /\ UNCHANGED <<driver_state, kbd_scan_code_set, accepted, dropped, decoded, irqpc>>
      /\ Started' <=> Started
      /\ QueryDue' <=> QueryDue
      /\ Undisturbed' <=> Undisturbed
  BY DeviceContext DEF Controller
<1>2. /\ ibuf # NoByte /\ toDev = <<>> /\ toDev' = <<ibuf>> /\ ibuf' = NoByte
      /\ UNCHANGED <<fromDev, obuf, devWait, devSet>>
  BY DEF CtrlTakes, NoByte
<1>3. ASSUME Undisturbed PROVE InStep'
  <2>1. decoded = <<>> /\ LinkInv /\ SetInv
    BY <1>3 DEF PInv, InStep
  <2>2. SetInv'
    BY <1>1, <1>2, <2>1, SetSame
  <2>3. Started /\ ByteSent(c)
    BY <1>2, <2>1 DEF LinkInv, NoMessage, NothingWritten, OneMessage, Refused, Acknowledged,
                      FromKeyboard, Told
  <2> HIDE DEF c
  <2>4. c' = c /\ (InArg' <=> InArg)
    BY <1>1 DEF c, InArg
  <2>5. ByteSent(c)'
    BY <1>1, <1>2, <2>3, <2>4 DEF ByteSent, Written
  <2> QED BY <1>1, <2>1, <2>2, <2>3, <2>5 DEF InStep, LinkInv, OneMessage, c
<1> QED BY <1>1, <1>3

\* The byte the keyboard takes is the one byte that was on the way.
LEMMA AnswersByte ==
  ASSUME PInv, Keyboard, Undisturbed, NEW a \in Seq(0..255), DeviceAnswers(a)
  PROVE  /\ Started /\ ByteSent(Head(Ring))
         /\ Head(toDev) = (IF InArg THEN Head(Ring).arg ELSE Head(Ring).com)
         /\ NothingWritten' /\ fromDev' = a /\ obuf' = NoByte /\ irqpc' = "idle"
<1>1. /\ toDev # <<>> /\ toDev' = Tail(toDev) /\ fromDev' = fromDev \o a
      /\ UNCHANGED <<ibuf, obuf, irqpc>>
  BY DEF DeviceAnswers, ctrlVars
<1>2. Started /\ ByteSent(Head(Ring))
  BY <1>1 DEF PInv, InStep, LinkInv, NoMessage, NothingWritten, OneMessage, Refused,
              Acknowledged, FromKeyboard, Told
<1> DEFINE b == IF InArg THEN Head(Ring).arg ELSE Head(Ring).com
<1>3. ibuf = NoByte /\ toDev = <<b>> /\ fromDev = <<>> /\ obuf = NoByte /\ irqpc = "idle"
  BY <1>1, <1>2 DEF ByteSent, Written
<1>4. Head(toDev) = b
  <2> HIDE DEF b
  <2> QED BY <1>3
<1>5. NothingWritten' /\ fromDev' = a
  <2>1. Tail(<<b>>) = <<>> /\ <<>> \o a = a
    OBVIOUS
  <2> HIDE DEF b
  <2> QED BY <1>1, <1>3, <2>1 DEF NothingWritten
<1> QED BY <1>1, <1>2, <1>3, <1>4, <1>5

\* A refusal leaves the byte to be sent again.
LEMMA RefusesInStep ==
  ASSUME PInv, Undisturbed, Keyboard, DeviceRefuses \/ DeviceRejects
  PROVE  InStep'
<1> DEFINE c == Head(Ring)
<1>1. /\ Ring' = Ring
      /\ UNCHANGED <<driver_state, kbd_scan_code_set, accepted, dropped, decoded>>
      /\ Started' <=> Started
      /\ QueryDue' <=> QueryDue
  BY DeviceContext
<1>2. DeviceAnswers(<<RESEND>>) /\ UNCHANGED <<devWait, devSet>>
  BY DEF DeviceRefuses, DeviceRejects
<1>3. <<RESEND>> \in Seq(0..255)
  BY DEF RESEND
<1>4. /\ Started /\ ByteSent(c)
      /\ NothingWritten' /\ fromDev' = <<RESEND>> /\ obuf' = NoByte /\ irqpc' = "idle"
  BY <1>2, <1>3, AnswersByte
<1>5. SetInv'
  BY <1>1, <1>2, SetSame DEF PInv, InStep
<1>6. Refused(c)'
  BY <1>1, <1>2, <1>4 DEF Refused, FromKeyboard, ByteSent, InArg
<1> QED BY <1>1, <1>4, <1>5, <1>6 DEF PInv, InStep, LinkInv, OneMessage

\* The oldest command is a command: its first byte says so.
LEMMA OldestCommand ==
  ASSUME PInv, Started
  PROVE  /\ IsCommandByte(Head(Ring).com) /\ Head(Ring) \in ps2_kbd_command
         /\ 1 \in DOMAIN Ring /\ Head(Ring) = Ring[1]
<1>1. Ring \in Seq(ps2_kbd_command) /\ Ring # <<>>
  BY RingTyped DEF PInv
<1>2. 1 \in DOMAIN Ring /\ Head(Ring) = Ring[1]
  BY <1>1
<1>3. Head(Ring) \in Calls \union {QueryCommand}
  BY <1>2 DEF PInv, RingInv
<1>4. IsCommandByte(QueryCommand.com)
  BY DEF IsCommandByte, QueryCommand, PS2_KBD_COM_SET_SCAN_SET, PS2_KBD_COM_SET_LED
<1> QED BY <1>2, <1>3, <1>4, CallsAssumption, QueryTyped DEF PInv, CommandsOnly

\* A command byte is acknowledged, also one that comes as an argument.
LEMMA CommandInStep ==
  ASSUME PInv, Undisturbed, Keyboard, DeviceTakesCommand
  PROVE  InStep'
<1> DEFINE c == Head(Ring)
<1>1. /\ Ring' = Ring
      /\ UNCHANGED <<driver_state, kbd_scan_code_set, accepted, dropped, decoded>>
      /\ Started' <=> Started
      /\ QueryDue' <=> QueryDue
  BY DeviceContext
<1>2. PICK a \in {ACK, PS2_KBD_COM_ECHO} :
        /\ DeviceAnswers(<<a>>) /\ UNCHANGED devSet
        /\ IsCommandByte(Head(toDev)) /\ devWait' = WaitsAfter(Head(toDev))
  BY DEF DeviceTakesCommand, WaitsAfter
<1>3. <<a>> \in Seq(0..255)
  BY DEF ACK, PS2_KBD_COM_ECHO
<1>4. /\ Started /\ Head(toDev) = (IF InArg THEN c.arg ELSE c.com)
      /\ NothingWritten' /\ fromDev' = <<a>> /\ obuf' = NoByte /\ irqpc' = "idle"
  BY <1>2, <1>3, AnswersByte
<1>5. ~(InArg /\ c = QueryCommand)
  BY <1>2, <1>4 DEF QueryCommand, IsCommandByte, PS2_KBD_COM_SET_LED
<1>6. SetInv'
  BY <1>1, <1>2, SetSame DEF PInv, InStep
<1>7. Acknowledged(c)'
  BY <1>1, <1>2, <1>4, <1>5 DEF Acknowledged, FromKeyboard, InArg
<1> QED BY <1>1, <1>4, <1>6, <1>7 DEF PInv, InStep, LinkInv, OneMessage

\* An argument is acknowledged; the query's comes with the set, and a new set is
\* one that a query behind it will ask for.
LEMMA ArgInStep ==
  ASSUME PInv, Undisturbed, Keyboard, DeviceTakesArg
  PROVE  InStep'
<1> DEFINE c == Head(Ring)
<1>1. /\ Ring' = Ring
      /\ UNCHANGED <<driver_state, kbd_scan_code_set, accepted, dropped, decoded>>
      /\ Started' <=> Started
      /\ QueryDue' <=> QueryDue
  BY DeviceContext
<1>2. PICK a \in Seq(0..255) :
        /\ DeviceAnswers(a) /\ ~IsCommandByte(Head(toDev))
        /\ \/ devWait # PS2_KBD_COM_SET_SCAN_SET /\ a = <<ACK>> /\ UNCHANGED devSet
           \/ /\ devWait = PS2_KBD_COM_SET_SCAN_SET /\ Head(toDev) = 0
              /\ a = <<ACK, ScanCodeSetByte[devSet]>> /\ UNCHANGED devSet
           \/ /\ devWait = PS2_KBD_COM_SET_SCAN_SET /\ Head(toDev) # 0
              /\ a = <<ACK>>
  <2>1. <<ACK>> \in Seq(0..255)
    BY DEF ACK
  <2>2. <<ACK, ScanCodeSetByte[devSet]>> \in Seq(0..255)
    <3>1. ScanCodeSetByte[devSet] \in 0..255
      BY DEF ScanCodeSetByte, PInv, FInv, LInv, IInv, TypeOK
    <3> QED BY <3>1 DEF ACK
  <2>3. CASE devWait # PS2_KBD_COM_SET_SCAN_SET
    <3>1. DeviceAnswers(<<ACK>>) /\ ~IsCommandByte(Head(toDev)) /\ UNCHANGED devSet
      BY <2>3 DEF DeviceTakesArg
    <3> QED BY <2>1, <2>3, <3>1
  <2>4. CASE devWait = PS2_KBD_COM_SET_SCAN_SET /\ Head(toDev) = 0
    <3>1. /\ DeviceAnswers(<<ACK, ScanCodeSetByte[devSet]>>)
          /\ ~IsCommandByte(Head(toDev)) /\ UNCHANGED devSet
      BY <2>4 DEF DeviceTakesArg
    <3> QED BY <2>2, <2>4, <3>1
  <2>5. CASE devWait = PS2_KBD_COM_SET_SCAN_SET /\ Head(toDev) # 0
    <3>1. DeviceAnswers(<<ACK>>) /\ ~IsCommandByte(Head(toDev))
      BY <2>5 DEF DeviceTakesArg
    <3> QED BY <2>1, <2>5, <3>1
  <2> QED BY <2>3, <2>4, <2>5
<1>3. /\ Started /\ ByteSent(c) /\ Head(toDev) = (IF InArg THEN c.arg ELSE c.com)
      /\ NothingWritten' /\ fromDev' = a /\ obuf' = NoByte /\ irqpc' = "idle"
  BY <1>2, AnswersByte
<1>4. IsCommandByte(c.com) /\ c \in ps2_kbd_command /\ 1 \in DOMAIN Ring /\ c = Ring[1]
  BY <1>3, OldestCommand
<1>5. InArg /\ Head(toDev) = c.arg /\ devWait = WaitsAfter(c.com)
  BY <1>2, <1>3, <1>4 DEF ByteSent
<1>6. devWait = PS2_KBD_COM_SET_SCAN_SET <=> c.com = PS2_KBD_COM_SET_SCAN_SET
  BY <1>5 DEF WaitsAfter, PS2_KBD_COM_ECHO, PS2_KBD_COM_SET_SCAN_SET
<1>7. c = QueryCommand <=> c.com = PS2_KBD_COM_SET_SCAN_SET /\ c.arg = 0
  BY <1>4 DEF ps2_kbd_command, QueryCommand
<1>8. InArg' /\ c' = c
  BY <1>1, <1>5 DEF InArg
<1> HIDE DEF c
<1>9. OneMessage(c)'
  <2>1. CASE devWait = PS2_KBD_COM_SET_SCAN_SET /\ Head(toDev) = 0
    <3>1. c = QueryCommand
      BY <1>5, <1>6, <1>7, <2>1
    <3>2. fromDev' = <<ACK, ScanCodeSetByte[devSet']>>
      BY <1>2, <1>3, <2>1
    <3> QED BY <1>3, <1>8, <3>1, <3>2 DEF OneMessage, Told
  <2>2. CASE ~(devWait = PS2_KBD_COM_SET_SCAN_SET /\ Head(toDev) = 0)
    <3>1. c # QueryCommand
      BY <1>5, <1>6, <1>7, <2>2
    <3>2. fromDev' = <<ACK>>
      BY <1>2, <1>3, <2>2
    <3> QED BY <1>3, <1>8, <3>1, <3>2 DEF OneMessage, Acknowledged, FromKeyboard
  <2> QED BY <2>1, <2>2
<1>10. SetInv'
  <2>1. CASE devSet' = devSet
    BY <1>1, <2>1, SetSame DEF PInv, InStep
  <2>2. CASE devSet' # devSet
    <3>1. IsSetScanSet(Ring[1])
      BY <1>2, <1>4, <1>5, <1>6, <2>2 DEF IsSetScanSet
    <3>2. ~dropped => QueryBehind(1) \/ QueryDue
      BY <1>4, <3>1 DEF PInv, InStep, SetInv
    <3>3. QueryBehind(1) => QueryBehind(0)
      <4>1. DOMAIN Ring \subseteq Int
        <5>1. Ring \in Seq(ps2_kbd_command)
          BY RingTyped DEF PInv
        <5> QED BY <5>1
      <4> QED BY <4>1 DEF QueryBehind
    <3>4. \A i : QueryBehind(i)' <=> QueryBehind(i)
      BY <1>1 DEF QueryBehind
    <3> QED BY <1>1, <3>2, <3>3, <3>4 DEF PInv, InStep, SetInv
  <2> QED BY <2>1, <2>2
<1> QED BY <1>1, <1>3, <1>9, <1>10 DEF PInv, InStep, LinkInv, c

-----------------------------------------------------------------------------
\* The invariant of the protocol survives every step.
LEMMA StepPInv == PInv /\ [Next]_vars => PInv'
<1> SUFFICES ASSUME PInv, [Next]_vars PROVE PInv'
  OBVIOUS
<1>1. FInv' /\ CommandsOnly'
  BY StepFInv DEF PInv, CommandsOnly
<1>2. SUFFICES RingInv' /\ (Undisturbed' => InStep')
  BY <1>1 DEF PInv
<1>3. CASE \E c \in Calls : CallCommand(c)
  <2>1. Undisturbed' <=> Undisturbed
    BY <1>3 DEF CallCommand, devVars, historyVars, Undisturbed
  <2> QED BY <1>3, <2>1, MainQuiet
<1>4. CASE ps2_kbd_command_arg
  <2>1. Undisturbed' <=> Undisturbed
    BY <1>4 DEF ps2_kbd_command_arg, PortDisable, CheckRoom, QueueCommand, CountCommand, IfFirst,
                SendFirst, QueueQuery, SkipQuery, CountQuery, PortEnable, devVars, historyVars,
                Undisturbed
  <2> QED BY <1>4, <2>1, MainQuiet, MainCounts, MainSends DEF ps2_kbd_command_arg
<1>5. CASE kbd_int_handler
  <2>1. CASE IrqSpurious \/ IrqScanCode \/ IrqResend \/ IrqSendArg \/ IrqPoll
    <3>1. Undisturbed' <=> Undisturbed
      BY <2>1 DEF IrqSpurious, IrqScanCode, IrqResend, IrqSendArg, IrqPoll, devVars, historyVars,
                  Undisturbed
    <3> QED BY <1>5, <2>1, <3>1, HandlerStays
  <2>2. CASE IrqCommandDone \/ IrqArgDone \/ PollHit \/ PollMiss
    BY <1>5, <2>2, HandlerFinishes
  <2> QED BY <1>5, <2>1, <2>2 DEF kbd_int_handler
<1>6. CASE Controller
  <2>1. ~CtrlObeys
    BY DEF CtrlObeys, PInv, FInv, LInv, LockInv, command_data, NoByte
  <2> QED BY <1>6, <2>1, ReceiveInStep, TakesInStep DEF Controller
<1>7. CASE Keyboard
  <2>1. RingInv' /\ (Undisturbed' <=> Undisturbed)
    BY <1>7, DeviceContext
  <2>2. Undisturbed => InStep'
    BY <1>7, RefusesInStep, CommandInStep, ArgInStep DEF Keyboard
  <2> QED BY <2>1, <2>2
<1>8. CASE KeyPressed
  <2>1. /\ UNCHANGED <<command_queue, next_command_idx, pending_commands, driver_state, pc>>
        /\ keys' = keys + 1 /\ keys \in Nat
    BY <1>8, MachineAssumption
       DEF KeyPressed, driverVars, mainVars, PInv, FInv, LInv, IInv, TypeOK
  <2>2. RingInv'
    BY <2>1, RingSame DEF PInv, RingInv
  <2>3. ~Undisturbed'
    BY <2>1 DEF Undisturbed
  <2> QED BY <2>2, <2>3
<1>9. CASE KmainLoop \/ UNCHANGED vars
  <2>1. UNCHANGED <<driverVars, mainVars, irqpc, ctrlVars, devVars, historyVars>>
    BY <1>9 DEF KmainLoop, vars
  <2>2. /\ UNCHANGED <<command_queue, next_command_idx, pending_commands, driver_state, pc, cur>>
        /\ UNCHANGED <<kbd_scan_code_set, accepted, dropped, decoded, irqpc, keys, missed>>
        /\ UNCHANGED <<ibuf, lost, toDev, fromDev, obuf, devWait, devSet>>
    BY <2>1 DEF driverVars, mainVars, ctrlVars, devVars, historyVars
  <2>3. Ring' = Ring
    BY <2>2, RingSame
  <2>4. RingInv'
    BY <2>2, <2>3 DEF PInv, RingInv
  <2>5. (Undisturbed' <=> Undisturbed) /\ (Started' <=> Started) /\ (QueryDue' <=> QueryDue)
    BY <2>2 DEF Undisturbed, Started, QueryDue, NeedsQuery
  <2>6. Undisturbed => InStep'
    BY <2>2, <2>3, <2>5, LinkSame, SetSame DEF PInv, InStep
  <2> QED BY <2>4, <2>5, <2>6
<1> QED BY <1>3, <1>4, <1>5, <1>6, <1>7, <1>8, <1>9 DEF Next

\* And it holds when the driver starts.
LEMMA InitPInv == LockMachine /\ CommandsOnly /\ Init => PInv
<1> SUFFICES ASSUME LockMachine, CommandsOnly, Init PROVE PInv
  OBVIOUS
<1>1. FInv
  <2>1. LockInv /\ BusyMeansPending /\ FirstInv /\ CInv
    BY DEF Init, LockInv, InBracket, Busy, BusyMeansPending, FirstInv, CInv
  <2> QED BY <2>1, InitIInv DEF FInv, LInv, BInv
<1>2. ~Started /\ pending_commands = 0 /\ pc = "idle" /\ accepted = <<>>
  BY DEF Init, Started
<1>3. Ring = <<>>
  BY <1>2 DEF Ring
<1>4. RingInv
  BY <1>2, <1>3 DEF RingInv
<1>5. decoded = <<>> /\ LinkInv
  BY <1>2 DEF Init, LinkInv, NoMessage, NothingWritten
<1>6. SetInv
  BY <1>2, <1>3 DEF SetInv, AnySet
<1> QED BY <1>1, <1>4, <1>5, <1>6 DEF PInv, InStep

\* Where the bracket works as a lock, no answer of the keyboard to a command is
\* ever decoded as a scan code: any ring size, any commands, any interleaving of
\* kmain, the handler and the keyboard, refused bytes included.
THEOREM AnswersSafe ==
  LockMachine /\ CommandsOnly /\ Spec => []NoAnswerDecoded
<1>1. PInv => NoAnswerDecoded
  BY DEF PInv, InStep, NoAnswerDecoded
<1> QED BY <1>1, InitPInv, StepPInv, PTL DEF Spec

\* And when everything has settled, the driver decodes with the scan code set the
\* keyboard uses, after whatever sequence of SET_SCAN_SETs whose queries found room.
THEOREM ScanSetSafe ==
  LockMachine /\ CommandsOnly /\ Spec => []ScanSetLearned
<1>1. PInv => ScanSetLearned
  <2> SUFFICES ASSUME PInv, Quiescent, Undisturbed, NumSets(accepted) > 0, ~dropped
               PROVE  kbd_scan_code_set = devSet
    BY DEF ScanSetLearned
  <2>1. AnySet
    <3>1. {i \in DOMAIN accepted : IsSetScanSet(accepted[i])} # {}
      BY FS_EmptySet DEF NumSets
    <3> QED BY <3>1 DEF AnySet
  <2>2. ~QueryDue
    BY DEF Quiescent, QueryDue
  <2>3. ~QueryBehind(0)
    <3>1. Ring = <<>>
      BY DEF Quiescent, Ring
    <3> QED BY <3>1 DEF QueryBehind
  <2> QED BY <2>1, <2>2, <2>3 DEF PInv, InStep, SetInv
<1> QED BY <1>1, InitPInv, StepPInv, PTL DEF Spec

-----------------------------------------------------------------------------
(* Nothing the driver writes is lost on a controller that keeps up         *)

\* Every write waits first, and only a write that does not find the buffer
\* empty loses something.
LEMMA WritesWait ==
  ASSUME [Next]_vars
  PROVE  UNCHANGED lost \/ (wait_input_buf /\ lost' = (lost \/ ibuf # NoByte))
<1>1. CASE \E c \in Calls : CallCommand(c)
  BY <1>1 DEF CallCommand, historyVars
<1>2. CASE ps2_kbd_command_arg
  <2>1. CASE PortDisable \/ PortEnable
    BY <2>1 DEF PortDisable, PortEnable, ps2_command, outb
  <2>2. CASE SendFirst
    BY <2>2 DEF SendFirst, ps2_port1_write, outb
  <2>3. CASE \/ CheckRoom \/ QueueCommand \/ CountCommand \/ IfFirst
             \/ QueueQuery \/ SkipQuery \/ CountQuery
    BY <2>3 DEF CheckRoom, QueueCommand, CountCommand, IfFirst, QueueQuery, SkipQuery,
                CountQuery, historyVars
  <2> QED BY <1>2, <2>1, <2>2, <2>3 DEF ps2_kbd_command_arg
<1>3. CASE kbd_int_handler
  <2>1. CASE IrqSpurious \/ IrqScanCode \/ IrqPoll
    BY <2>1 DEF IrqSpurious, IrqScanCode, IrqPoll, historyVars
  <2>2. CASE IrqResend \/ IrqSendArg
    BY <2>2 DEF IrqResend, IrqSendArg, ps2_port1_write, outb
  <2>3. CASE IrqCommandDone \/ IrqArgDone \/ PollHit \/ PollMiss
    <3>1. handle_next_command
      BY <2>3 DEF IrqCommandDone, IrqArgDone, PollHit, PollMiss
    <3> QED BY <3>1 DEF handle_next_command, ps2_port1_write, outb
  <2> QED BY <1>3, <2>1, <2>2, <2>3 DEF kbd_int_handler
<1>4. CASE Controller \/ Keyboard \/ KeyPressed \/ KmainLoop \/ UNCHANGED vars
  BY <1>4 DEF Controller, PortReceive, CtrlObeys, CtrlTakes, KeyPressed, Keyboard,
              DeviceRefuses, DeviceTakesCommand, DeviceTakesArg, DeviceRejects,
              DeviceAnswers, KmainLoop, vars, historyVars
<1> QED BY <1>1, <1>2, <1>3, <1>4 DEF Next

\* What disturbed the protocol once has disturbed it for good.
LEMMA DisturbedStays ==
  ASSUME IInv, [Next]_vars, Undisturbed'
  PROVE  Undisturbed
<1>1. keys \in Nat
  BY MachineAssumption DEF IInv, TypeOK
<1>2. keys' = keys \/ keys' = keys + 1
  <2>1. CASE ps2_kbd_command_arg \/ \E c \in Calls : CallCommand(c)
    BY <2>1 DEF CallCommand, ps2_kbd_command_arg, PortDisable, CheckRoom, QueueCommand,
                CountCommand, IfFirst, SendFirst, QueueQuery, SkipQuery, CountQuery,
                PortEnable, devVars
  <2>2. CASE kbd_int_handler
    BY <2>2 DEF kbd_int_handler, IrqSpurious, IrqScanCode, IrqResend, IrqSendArg,
                IrqCommandDone, IrqArgDone, IrqPoll, PollHit, PollMiss, devVars
  <2>3. CASE Controller \/ Keyboard \/ KeyPressed \/ KmainLoop \/ UNCHANGED vars
    BY <2>3 DEF Controller, PortReceive, CtrlObeys, CtrlTakes, KeyPressed, Keyboard,
                DeviceRefuses, DeviceTakesCommand, DeviceTakesArg, DeviceRejects,
                DeviceAnswers, KmainLoop, vars, devVars
  <2> QED BY <2>1, <2>2, <2>3 DEF Next
<1>3. missed' = missed \/ missed'
  <2>1. CASE ps2_kbd_command_arg \/ \E c \in Calls : CallCommand(c)
    BY <2>1 DEF CallCommand, ps2_kbd_command_arg, PortDisable, CheckRoom, QueueCommand,
                CountCommand, IfFirst, SendFirst, QueueQuery, SkipQuery, CountQuery,
                PortEnable, historyVars
  <2>2. CASE kbd_int_handler
    BY <2>2 DEF kbd_int_handler, IrqSpurious, IrqScanCode, IrqResend, IrqSendArg,
                IrqCommandDone, IrqArgDone, IrqPoll, PollHit, PollMiss, historyVars
  <2>3. CASE Controller \/ Keyboard \/ KeyPressed \/ KmainLoop \/ UNCHANGED vars
    BY <2>3 DEF Controller, PortReceive, CtrlObeys, CtrlTakes, KeyPressed, Keyboard,
                DeviceRefuses, DeviceTakesCommand, DeviceTakesArg, DeviceRejects,
                DeviceAnswers, KmainLoop, vars, historyVars
  <2> QED BY <2>1, <2>2, <2>3 DEF Next
<1> QED BY <1>1, <1>2, <1>3 DEF Undisturbed

\* No byte of the driver waits behind another one: while a byte is in the input
\* buffer the one before it has been answered, so the controller can take it.
THEOREM WritesSafe ==
  LockMachine /\ CommandsOnly /\ Spec => []WritesArrive
<1>1. PInv => WritesArrive
  BY DEF PInv, InStep, LinkInv, NoMessage, NothingWritten, OneMessage, ByteSent, Written,
         Refused, Acknowledged, FromKeyboard, Told, WritesArrive
<1> QED BY <1>1, InitPInv, StepPInv, PTL DEF Spec

\* On a controller that empties its input buffer while the driver polls it, no
\* write of the driver ever goes over another, although nobody looks at the
\* result of wait_input_buf.
THEOREM NothingOverwritten ==
  LockMachine /\ CommandsOnly /\ ~InputTimeout /\ Spec => [](Undisturbed => ~lost)
<1> DEFINE Arriving == PInv /\ ~InputTimeout /\ (Undisturbed => ~lost)
<1>1. LockMachine /\ CommandsOnly /\ ~InputTimeout /\ Init => Arriving
  BY InitPInv DEF Init
<1>2. Arriving /\ [Next]_vars => Arriving'
  <2> SUFFICES ASSUME PInv, ~InputTimeout, Undisturbed => ~lost, [Next]_vars, Undisturbed'
               PROVE  ~lost'
    BY StepPInv
  <2>1. Undisturbed
    BY DisturbedStays DEF PInv, FInv, LInv
  <2>2. ibuf # NoByte => toDev = <<>>
    BY <2>1 DEF PInv, InStep, LinkInv, NoMessage, NothingWritten, OneMessage, ByteSent,
                Written, Refused, Acknowledged, FromKeyboard, Told
  <2>3. wait_input_buf => ibuf = NoByte
    BY <2>2 DEF wait_input_buf
  <2> QED BY <2>1, <2>3, WritesWait
<1>3. Arriving => (Undisturbed => ~lost)
  OBVIOUS
<1> QED BY <1>1, <1>2, <1>3, PTL DEF Spec
=============================================================================
