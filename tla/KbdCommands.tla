---------------------------- MODULE KbdCommands ----------------------------
(***************************************************************************)
(* The command half of the PS/2 keyboard driver (kernel/ps2_keyboard.c),   *)
(* with the interrupt path that feeds it (kernel/ps2_8042.c).              *)
(*                                                                         *)
(* Two threads of control share the driver's variables: kmain, which calls *)
(* ps2_kbd_command_arg, and the IRQ1 handler, which runs to completion on  *)
(* top of it.  The driver has no lock: it brackets its critical section    *)
(* with "disable port 1" and "enable port 1".  What that bracket is worth  *)
(* depends on the machine, so the machine is a parameter:                  *)
(*   PromptIrq    - a latched interrupt is taken before the next step of   *)
(*                  kmain (TRUE), or some steps later (FALSE);             *)
(*   WriteEnables - the controller turns port 1 back on when a byte is     *)
(*                  written to the keyboard;                               *)
(*   PollTimeout  - the 64 status polls of wait_output_buf may run out     *)
(*                  before the keyboard answers;                           *)
(*   InputTimeout - those of wait_input_buf may run out before the         *)
(*                  controller takes what was written last, although it    *)
(*                  could: the next write then overwrites it;              *)
(*   PromptCommands - the controller acts on a command before anything     *)
(*                  else happens (TRUE), or some steps later (FALSE).      *)
(*                                                                         *)
(* driver variables are not volatile, so kmain may work on a register copy *)
(* of pending_commands: "reg" is that copy, and each use of it chooses     *)
(* between the copy and the variable, as different builds do.              *)
(***************************************************************************)
EXTENDS Integers, Sequences, FiniteSets

CONSTANTS
  COMMAND_QUEUE_SIZE,  \* slots of the command ring (8 in the code)
  Calls,               \* commands kernel code may pass to ps2_kbd_command_arg
  PromptIrq, WriteEnables, PollTimeout, InputTimeout, PromptCommands,
  MaxCalls,            \* bound: calls of ps2_kbd_command_arg
  MaxKeys,             \* bound: scan code bytes the user produces
  MaxResends           \* bound: bytes the keyboard refuses with RESEND

\* Bytes of the protocol, as the source defines them.
COMMAND_PORT1_ENABLE     == 174   \* 0xAE
COMMAND_PORT1_DISABLE    == 173   \* 0xAD
PS2_KBD_COM_SET_LED      == 237   \* 0xED
PS2_KBD_COM_ECHO         == 238   \* 0xEE
PS2_KBD_COM_SET_SCAN_SET == 240   \* 0xF0
COMMAND_NO_ARG           == 255   \* 0xFF
ACK                      == 250   \* 0xFA
RESEND                   == 254   \* 0xFE
\* The byte that names scan code set n: SCAN_CODE_SET_1, _2 and _3.
ScanCodeSetByte          == <<67, 65, 63>>
KeyByte                  == 28    \* 0x1C, the make code of a key
NoByte                   == -1    \* an empty buffer
command_data             == 256   \* what tells a command from data in the input buffer

STATE_READY           == 0
STATE_WAITING_COM_ACK == 1
STATE_WAITING_ARG_ACK == 2

ps2_kbd_command == [com : 0..255, arg : 0..255]
ZeroCommand     == [com |-> 0, arg |-> 0]
QueryCommand    == [com |-> PS2_KBD_COM_SET_SCAN_SET, arg |-> 0]

ASSUME SizeAssumption  == COMMAND_QUEUE_SIZE \in Nat \ {0}
ASSUME CallsAssumption == Calls \subseteq ps2_kbd_command
ASSUME MachineAssumption ==
  /\ PromptIrq \in BOOLEAN /\ WriteEnables \in BOOLEAN /\ PollTimeout \in BOOLEAN
  /\ InputTimeout \in BOOLEAN /\ PromptCommands \in BOOLEAN
  /\ MaxCalls \in Nat /\ MaxKeys \in Nat /\ MaxResends \in Nat

VARIABLES
  \* the driver's static variables
  command_queue, next_command_idx, pending_commands, driver_state, kbd_scan_code_set,
  \* kmain: where it is inside ps2_kbd_command_arg, its arguments, the register
  pc, cur, reg, calls,
  \* the interrupt handler: "idle", or "poll" inside ps2_data_read
  irqpc,
  \* the controller: port 1 on, input buffer, output buffer, last byte read,
  \* latched IRQ1
  enabled, ibuf, obuf, last, irq,
  \* the keyboard: bytes the controller took for it and bytes it sent, command
  \* that waits for its argument (0: none), set in use, what was spent of the bounds
  toDev, fromDev, devWait, devSet, keys, resends,
  \* history: commands queued, commands whose first byte was sent, bytes given
  \* to handle_data, whether a full ring ever swallowed the follow-up query,
  \* whether the polls ever ran out before the keyboard answered, and whether
  \* a write ever went over one that the controller had not taken
  accepted, sent, decoded, dropped, missed, lost

driverVars  == <<command_queue, next_command_idx, pending_commands, driver_state,
                 kbd_scan_code_set>>
mainVars    == <<pc, cur, reg, calls>>
ctrlVars    == <<enabled, ibuf, obuf, last, irq>>
devVars     == <<toDev, fromDev, devWait, devSet, keys, resends>>
historyVars == <<accepted, sent, decoded, dropped, missed, lost>>
vars == <<driverVars, mainVars, irqpc, ctrlVars, devVars, historyVars>>

PcValues == {"idle", "disable", "check", "add", "count", "first", "send",
             "query", "query_count", "enable"}

Init ==
  /\ command_queue = [i \in 0..COMMAND_QUEUE_SIZE-1 |-> ZeroCommand]
  /\ next_command_idx = 0
  /\ pending_commands = 0
  /\ driver_state = STATE_READY
  /\ kbd_scan_code_set = 1
  /\ pc = "idle" /\ cur = ZeroCommand /\ reg = 0 /\ calls = 0
  /\ irqpc = "idle"
  /\ enabled = TRUE /\ ibuf = NoByte /\ obuf = NoByte /\ last = 0
  /\ irq \in BOOLEAN    \* IRQ1 may be latched since before "sti"
  /\ toDev = <<>> /\ fromDev = <<>> /\ devWait = 0 /\ devSet = 2
  /\ keys = 0 /\ resends = 0
  /\ accepted = <<>> /\ sent = <<>> /\ decoded = <<>>
  /\ dropped = FALSE /\ missed = FALSE /\ lost = FALSE

-----------------------------------------------------------------------------
(* Helpers shared by the two threads                                       *)

\* wait_input_buf: the polls end when the input buffer is empty, and run out
\* when the controller is slow or has another byte to get rid of first.
wait_input_buf == ibuf # NoByte => InputTimeout \/ toDev # <<>>

\* outb: what the controller has not taken is gone.
outb(what) == ibuf' = what /\ lost' = (lost \/ ibuf # NoByte)

\* ps2_write: nobody looks at what wait_input_buf returns.
ps2_port1_write(byte) == wait_input_buf /\ outb(byte)

\* The controller's answer to a command of the driver.
Obey(command) == enabled' = (command = COMMAND_PORT1_ENABLE)

\* ps2_command: written to the other port; a prompt controller acts on it now.
ps2_command(command) ==
  /\ wait_input_buf
  /\ IF PromptCommands THEN outb(NoByte) /\ Obey(command)
                       ELSE outb(command_data + command) /\ UNCHANGED enabled

\* Fault: the newest slot instead of the oldest one.
SlotOf_Newest(n) == (next_command_idx + COMMAND_QUEUE_SIZE - 1) % COMMAND_QUEUE_SIZE

\* The slot of the oldest command when n commands are pending.
SlotOf(n) == (next_command_idx + COMMAND_QUEUE_SIZE - n) % COMMAND_QUEUE_SIZE

\* current_command when n commands are pending
CommandAt(n) == IF n > 0 THEN command_queue[SlotOf(n)] ELSE ZeroCommand

current_command == CommandAt(pending_commands)

-----------------------------------------------------------------------------
(* kmain: ps2_kbd_command_arg                                              *)

\* kmain runs only while no handler does.
MainRuns == irqpc = "idle" /\ (PromptIrq => ~irq)

Goto(from, to) == pc = from /\ pc' = to

\* A load of pending_commands: from memory, or the register copy of it.
Loaded == {pending_commands, reg}

\* Entry of ps2_kbd_command_arg
CallCommand(c) ==
  /\ MainRuns /\ Goto("idle", "disable")
  /\ calls < MaxCalls
  /\ calls' = calls + 1
  /\ cur' = c
  /\ UNCHANGED <<driverVars, reg, irqpc, ctrlVars, devVars, historyVars>>

\* ps2_port1_disable()
PortDisable ==
  /\ MainRuns /\ Goto("disable", "check")
  /\ ps2_command(COMMAND_PORT1_DISABLE)
  /\ UNCHANGED <<driverVars, cur, reg, calls, irqpc, obuf, last, irq, devVars, accepted,
                 sent, decoded, dropped, missed>>

\* if (pending_commands < COMMAND_QUEUE_SIZE)
CheckRoom ==
  /\ MainRuns
  /\ Goto("check", IF pending_commands < COMMAND_QUEUE_SIZE THEN "add" ELSE "enable")
  /\ reg' = pending_commands
  /\ UNCHANGED <<driverVars, cur, calls, irqpc, ctrlVars, devVars, historyVars>>

\* Fault: an off-by-one in the test for room.
queue_add_OffByOne(c, from, added, full) ==
  \E n \in Loaded :
    /\ Goto(from, IF n <= COMMAND_QUEUE_SIZE THEN added ELSE full)
    /\ reg' = n
    /\ IF n <= COMMAND_QUEUE_SIZE
       THEN /\ command_queue' = [command_queue EXCEPT ![next_command_idx] = c]
            /\ next_command_idx' = (next_command_idx + 1) % COMMAND_QUEUE_SIZE
       ELSE UNCHANGED <<command_queue, next_command_idx>>

\* queue_add up to the stores of the slot and of next_command_idx; when the
\* ring is full it does nothing.
queue_add(c, from, added, full) ==
  \E n \in Loaded :
    /\ Goto(from, IF n < COMMAND_QUEUE_SIZE THEN added ELSE full)
    /\ reg' = n
    /\ IF n < COMMAND_QUEUE_SIZE
       THEN /\ command_queue' = [command_queue EXCEPT ![next_command_idx] = c]
            /\ next_command_idx' = (next_command_idx + 1) % COMMAND_QUEUE_SIZE
       ELSE UNCHANGED <<command_queue, next_command_idx>>

\* ++pending_commands at the end of queue_add
queue_count(c, from, to) ==
  \E n \in Loaded :
    /\ Goto(from, to)
    /\ pending_commands' = n + 1
    /\ reg' = n + 1
    /\ accepted' = Append(accepted, c)

QueueCommand ==
  /\ MainRuns
  /\ queue_add(cur, "add", "count", "first")
  /\ UNCHANGED <<pending_commands, driver_state, kbd_scan_code_set, cur, calls, irqpc,
                 ctrlVars, devVars, historyVars>>

CountCommand ==
  /\ MainRuns
  /\ queue_count(cur, "count", "first")
  /\ UNCHANGED <<command_queue, next_command_idx, driver_state, kbd_scan_code_set,
                 cur, calls, irqpc, ctrlVars, devVars, sent, decoded, dropped, missed, lost>>

\* Fault: the command is written although another one is under way.
IfFirst_Always ==
  /\ MainRuns /\ Goto("first", "send")
  /\ driver_state' = STATE_WAITING_COM_ACK
  /\ UNCHANGED <<command_queue, next_command_idx, pending_commands, kbd_scan_code_set,
                 cur, reg, calls, irqpc, ctrlVars, devVars, historyVars>>

\* if (pending_commands == 1) driver_state = STATE_WAITING_COM_ACK
IfFirst ==
  /\ MainRuns
  /\ \E n \in Loaded :
       /\ Goto("first", IF n = 1 THEN "send" ELSE "query")
       /\ driver_state' = IF n = 1 THEN STATE_WAITING_COM_ACK ELSE driver_state
  /\ UNCHANGED <<command_queue, next_command_idx, pending_commands, kbd_scan_code_set,
                 cur, reg, calls, irqpc, ctrlVars, devVars, historyVars>>

\* ps2_port1_write(command)
SendFirst ==
  /\ MainRuns /\ Goto("send", "query")
  /\ ps2_port1_write(cur.com)
  /\ sent' = Append(sent, cur)
  /\ reg' = pending_commands    \* a call: nothing stays in a register across it
  /\ UNCHANGED <<driverVars, cur, calls, irqpc, enabled, obuf, last, irq, devVars,
                 accepted, decoded, dropped, missed>>

\* Fault: the test of the argument is inverted.
NeedsQuery_Inverted == cur.com = PS2_KBD_COM_SET_SCAN_SET /\ cur.arg = 0

\* Only SET_SCAN_SET with an argument is followed by the query.
NeedsQuery == cur.com = PS2_KBD_COM_SET_SCAN_SET /\ cur.arg # 0

\* queue_add(PS2_KBD_COM_SET_SCAN_SET, 0x00), dropped when the ring is full
QueueQuery ==
  /\ MainRuns /\ NeedsQuery
  /\ queue_add(QueryCommand, "query", "query_count", "enable")
  /\ dropped' = (dropped \/ pc' = "enable")
  /\ UNCHANGED <<pending_commands, driver_state, kbd_scan_code_set, cur, calls, irqpc,
                 ctrlVars, devVars, accepted, sent, decoded, missed, lost>>

SkipQuery ==
  /\ MainRuns /\ ~NeedsQuery /\ Goto("query", "enable")
  /\ UNCHANGED <<driverVars, cur, reg, calls, irqpc, ctrlVars, devVars, historyVars>>

CountQuery ==
  /\ MainRuns
  /\ queue_count(QueryCommand, "query_count", "enable")
  /\ UNCHANGED <<command_queue, next_command_idx, driver_state, kbd_scan_code_set,
                 cur, calls, irqpc, ctrlVars, devVars, sent, decoded, dropped, missed, lost>>

\* ps2_port1_enable()
PortEnable ==
  /\ MainRuns /\ Goto("enable", "idle")
  /\ ps2_command(COMMAND_PORT1_ENABLE)
  /\ UNCHANGED <<driverVars, cur, reg, calls, irqpc, obuf, last, irq, devVars, accepted,
                 sent, decoded, dropped, missed>>

\* while(1) ;
KmainLoop == MainRuns /\ pc = "idle" /\ UNCHANGED vars

ps2_kbd_command_arg ==
  \/ PortDisable \/ CheckRoom \/ QueueCommand \/ CountCommand \/ IfFirst
  \/ SendFirst \/ QueueQuery \/ SkipQuery \/ CountQuery \/ PortEnable

-----------------------------------------------------------------------------
(* IRQ1: kbd_int_handler and keyboard_handler                              *)

\* Interrupts are off while the handler runs; it reads the output buffer.
TakeByte ==
  /\ irqpc = "idle" /\ irq /\ obuf # NoByte
  /\ irq' = FALSE /\ obuf' = NoByte /\ last' = obuf

\* The status register says the output buffer is empty: nothing to do.
IrqSpurious ==
  /\ irqpc = "idle" /\ irq /\ obuf = NoByte
  /\ irq' = FALSE
  /\ UNCHANGED <<driverVars, mainVars, irqpc, enabled, ibuf, obuf, last, devVars, historyVars>>

\* Fault: the driver does not become ready when the ring runs empty.
handle_next_command_StaysBusy ==
  LET left == IF pending_commands > 0 THEN pending_commands - 1 ELSE 0
  IN /\ pending_commands' = left
     /\ IF left > 0
        THEN /\ driver_state' = STATE_WAITING_COM_ACK
             /\ ps2_port1_write(CommandAt(left).com)
             /\ sent' = Append(sent, CommandAt(left))
        ELSE UNCHANGED <<driver_state, ibuf, sent, lost>>
     /\ UNCHANGED <<command_queue, next_command_idx>>

\* Fault: the next command is left in the ring and the driver reports ready.
handle_next_command_Lazy ==
  LET left == IF pending_commands > 0 THEN pending_commands - 1 ELSE 0
  IN /\ pending_commands' = left
     /\ driver_state' = STATE_READY
     /\ UNCHANGED <<ibuf, sent, lost, command_queue, next_command_idx>>

\* Fault: the driver waits for an acknowledgement of a byte it did not write.
handle_next_command_Silent ==
  LET left == IF pending_commands > 0 THEN pending_commands - 1 ELSE 0
  IN /\ pending_commands' = left
     /\ driver_state' = IF left > 0 THEN STATE_WAITING_COM_ACK ELSE STATE_READY
     /\ UNCHANGED <<ibuf, sent, lost, command_queue, next_command_idx>>

\* handle_next_command: drop the finished command, start the next one.
handle_next_command ==
  LET left == IF pending_commands > 0 THEN pending_commands - 1 ELSE 0
  IN /\ pending_commands' = left
     /\ IF left > 0
        THEN /\ driver_state' = STATE_WAITING_COM_ACK
             /\ ps2_port1_write(CommandAt(left).com)
             /\ sent' = Append(sent, CommandAt(left))
        ELSE /\ driver_state' = STATE_READY
             /\ UNCHANGED <<ibuf, sent, lost>>
     /\ UNCHANGED <<command_queue, next_command_idx>>

\* A byte that nobody waits for goes to the scan code decoder.
IrqScanCode ==
  /\ TakeByte /\ driver_state = STATE_READY
  /\ decoded' = Append(decoded, obuf)
  /\ UNCHANGED <<driverVars, mainVars, irqpc, enabled, ibuf, devVars, accepted, sent, dropped,
                 missed, lost>>

\* Fault: RESEND is noticed and nothing is written again.
IrqResend_Ignored ==
  /\ TakeByte /\ driver_state # STATE_READY /\ obuf = RESEND
  /\ UNCHANGED <<driverVars, mainVars, irqpc, enabled, ibuf, devVars, historyVars>>

\* RESEND: write the byte it answers again.
IrqResend ==
  /\ TakeByte /\ driver_state # STATE_READY /\ obuf = RESEND
  /\ ps2_port1_write(IF driver_state = STATE_WAITING_COM_ACK
                     THEN current_command.com ELSE current_command.arg)
  /\ UNCHANGED <<driverVars, mainVars, irqpc, enabled, devVars, accepted, sent, decoded,
                 dropped, missed>>

\* Any other byte counts as the acknowledgement of the command byte.
IrqSendArg ==
  /\ TakeByte /\ driver_state = STATE_WAITING_COM_ACK /\ obuf # RESEND
  /\ current_command.arg # COMMAND_NO_ARG
  /\ driver_state' = STATE_WAITING_ARG_ACK
  /\ ps2_port1_write(current_command.arg)
  /\ UNCHANGED <<command_queue, next_command_idx, pending_commands, kbd_scan_code_set,
                 mainVars, irqpc, enabled, devVars, accepted, sent, decoded, dropped, missed>>

IrqCommandDone ==
  /\ TakeByte /\ driver_state = STATE_WAITING_COM_ACK /\ obuf # RESEND
  /\ current_command.arg = COMMAND_NO_ARG
  /\ handle_next_command
  /\ UNCHANGED <<kbd_scan_code_set, mainVars, irqpc, enabled, devVars, accepted, decoded,
                 dropped, missed>>

IrqArgDone ==
  /\ TakeByte /\ driver_state = STATE_WAITING_ARG_ACK /\ obuf # RESEND
  /\ current_command # QueryCommand
  /\ handle_next_command
  /\ UNCHANGED <<kbd_scan_code_set, mainVars, irqpc, enabled, devVars, accepted, decoded,
                 dropped, missed>>

\* Fault: the answer to the query is not read.
IrqPoll_Forgotten ==
  /\ TakeByte /\ driver_state = STATE_WAITING_ARG_ACK /\ obuf # RESEND
  /\ current_command = QueryCommand
  /\ handle_next_command
  /\ UNCHANGED <<kbd_scan_code_set, mainVars, irqpc, enabled, devVars, accepted, decoded,
                 dropped, missed>>

\* The argument of the query is acknowledged: ps2_data_read() for the answer.
IrqPoll ==
  /\ TakeByte /\ driver_state = STATE_WAITING_ARG_ACK /\ obuf # RESEND
  /\ current_command = QueryCommand
  /\ irqpc' = "poll"
  /\ UNCHANGED <<driverVars, mainVars, enabled, ibuf, devVars, historyVars>>

\* The byte ps2_data_read returned: one of the three known ones, or a strange one.
LearnScanSet(byte) ==
  kbd_scan_code_set' =
    IF \E n \in 1..3 : ScanCodeSetByte[n] = byte
    THEN CHOOSE n \in 1..3 : ScanCodeSetByte[n] = byte
    ELSE kbd_scan_code_set

\* ps2_data_read finds the output buffer full; the IRQ it raised stays latched.
PollHit ==
  /\ irqpc = "poll" /\ obuf # NoByte
  /\ LearnScanSet(obuf)
  /\ obuf' = NoByte /\ last' = obuf
  /\ handle_next_command
  /\ irqpc' = "idle"
  /\ UNCHANGED <<mainVars, enabled, irq, devVars, accepted, decoded, dropped, missed>>

\* The polls run out: ps2_data_read returns the byte that was read last.
PollMiss ==
  /\ irqpc = "poll" /\ obuf = NoByte /\ PollTimeout
  /\ LearnScanSet(last)
  /\ handle_next_command
  /\ irqpc' = "idle" /\ missed' = TRUE
  /\ UNCHANGED <<mainVars, enabled, obuf, last, irq, devVars, accepted, decoded, dropped>>

kbd_int_handler ==
  \/ IrqSpurious \/ IrqScanCode \/ IrqResend \/ IrqSendArg \/ IrqCommandDone
  \/ IrqArgDone \/ IrqPoll \/ PollHit \/ PollMiss

-----------------------------------------------------------------------------
(* The controller and the keyboard (external)                              *)

\* A byte from the keyboard reaches the output buffer and raises IRQ1.
PortReceive ==
  /\ enabled /\ obuf = NoByte /\ fromDev # <<>>
  /\ obuf' = Head(fromDev) /\ fromDev' = Tail(fromDev) /\ irq' = TRUE
  /\ UNCHANGED <<driverVars, mainVars, irqpc, enabled, ibuf, last, toDev, devWait, devSet,
                 keys, resends, historyVars>>

\* The controller acts on a command.
CtrlObeys ==
  /\ ibuf >= command_data
  /\ Obey(ibuf - command_data) /\ ibuf' = NoByte
  /\ UNCHANGED <<driverVars, mainVars, irqpc, obuf, last, irq, devVars, historyVars>>

\* The controller takes a byte for the keyboard, when it has sent the one before.
CtrlTakes ==
  /\ ibuf \in 0..255 /\ toDev = <<>>
  /\ toDev' = <<ibuf>> /\ ibuf' = NoByte
  /\ enabled' = (enabled \/ WriteEnables)
  /\ UNCHANGED <<driverVars, mainVars, irqpc, obuf, last, irq, fromDev, devWait, devSet,
                 keys, resends, historyVars>>

IsCommandByte(b) == b >= PS2_KBD_COM_SET_LED

\* The keyboard takes one byte and answers with the bytes of answer.
DeviceAnswers(answer) ==
  /\ enabled /\ toDev # <<>>
  /\ toDev' = Tail(toDev) /\ fromDev' = fromDev \o answer
  /\ UNCHANGED <<driverVars, mainVars, irqpc, ctrlVars, keys, historyVars>>

DeviceRefuses ==
  /\ resends < MaxResends
  /\ resends' = resends + 1
  /\ DeviceAnswers(<<RESEND>>)
  /\ UNCHANGED <<devWait, devSet>>

DeviceTakesCommand ==
  /\ toDev # <<>> /\ IsCommandByte(Head(toDev))
  /\ IF Head(toDev) = PS2_KBD_COM_ECHO
     THEN DeviceAnswers(<<PS2_KBD_COM_ECHO>>) /\ devWait' = 0
     ELSE DeviceAnswers(<<ACK>>) /\ devWait' = Head(toDev)
  /\ UNCHANGED <<devSet, resends>>

DeviceTakesArg ==
  /\ toDev # <<>> /\ devWait # 0 /\ ~IsCommandByte(Head(toDev))
  /\ IF devWait # PS2_KBD_COM_SET_SCAN_SET
     THEN DeviceAnswers(<<ACK>>) /\ UNCHANGED devSet
     ELSE \/ Head(toDev) = 0 /\ DeviceAnswers(<<ACK, ScanCodeSetByte[devSet]>>)
             /\ UNCHANGED devSet
          \/ Head(toDev) \in 1..3 /\ DeviceAnswers(<<ACK>>) /\ devSet' = Head(toDev)
  /\ devWait' = 0
  /\ UNCHANGED resends

\* A byte that is no command where one is due, or no scan code set.
DeviceRejects ==
  /\ toDev # <<>> /\ ~IsCommandByte(Head(toDev))
  /\ \/ devWait = 0
     \/ devWait = PS2_KBD_COM_SET_SCAN_SET /\ Head(toDev) \notin 0..3
  /\ DeviceAnswers(<<RESEND>>)
  /\ UNCHANGED <<devWait, devSet, resends>>

\* The user presses a key: at any moment, whatever the driver waits for.
KeyPressed ==
  /\ keys < MaxKeys
  /\ keys' = keys + 1
  /\ fromDev' = Append(fromDev, KeyByte)
  /\ UNCHANGED <<driverVars, mainVars, irqpc, ctrlVars, toDev, devWait, devSet, resends,
                 historyVars>>

Controller == PortReceive \/ CtrlObeys \/ CtrlTakes

Keyboard == DeviceRefuses \/ DeviceTakesCommand \/ DeviceTakesArg \/ DeviceRejects

-----------------------------------------------------------------------------
Next ==
  \/ \E c \in Calls : CallCommand(c)
  \/ ps2_kbd_command_arg
  \/ KmainLoop
  \/ kbd_int_handler
  \/ Controller
  \/ Keyboard
  \/ KeyPressed

Spec == Init /\ [][Next]_vars

\* A call that has begun goes on, interrupts are taken, the controller and the
\* keyboard do not hang.  Callers and the user owe nothing.
Fairness ==
  /\ WF_vars(ps2_kbd_command_arg)
  /\ WF_vars(kbd_int_handler)
  /\ WF_vars(PortReceive)
  /\ WF_vars(CtrlObeys \/ CtrlTakes)
  /\ WF_vars(Keyboard)

FairSpec == Spec /\ Fairness
-----------------------------------------------------------------------------
(* Properties                                                              *)

\* Types, and with them the bounds of the ring: whatever the handler does
\* between two steps of ps2_kbd_command_arg, stale register copies of
\* pending_commands included, the counter never leaves 0..COMMAND_QUEUE_SIZE.
TypeOK ==
  /\ command_queue \in [0..COMMAND_QUEUE_SIZE-1 -> ps2_kbd_command]
  /\ next_command_idx \in 0..COMMAND_QUEUE_SIZE-1
  /\ pending_commands \in 0..COMMAND_QUEUE_SIZE
  /\ driver_state \in {STATE_READY, STATE_WAITING_COM_ACK, STATE_WAITING_ARG_ACK}
  /\ kbd_scan_code_set \in 1..3
  /\ pc \in PcValues /\ cur \in ps2_kbd_command
  /\ reg \in 0..COMMAND_QUEUE_SIZE /\ calls \in 0..MaxCalls
  /\ irqpc \in {"idle", "poll"}
  /\ enabled \in BOOLEAN /\ irq \in BOOLEAN
  /\ ibuf \in 0..511 \union {NoByte} /\ obuf \in 0..255 \union {NoByte} /\ last \in 0..255
  /\ toDev \in Seq(0..255) /\ fromDev \in Seq(0..255)
  /\ devWait \in 0..255 /\ devSet \in 1..3
  /\ keys \in 0..MaxKeys /\ resends \in 0..MaxResends
  /\ accepted \in Seq(ps2_kbd_command) /\ sent \in Seq(ps2_kbd_command)
  /\ decoded \in Seq(0..255) /\ dropped \in BOOLEAN /\ missed \in BOOLEAN
  /\ lost \in BOOLEAN

\* The slots of the commands that are queued and not yet acknowledged
PendingSlots == {SlotOf(k) : k \in 1..pending_commands}

\* queue_add never overwrites a command that is still pending, even when its
\* room check used a copy of pending_commands that the handler made stale.
PendingKept == [][\A i \in PendingSlots : command_queue'[i] = command_queue[i]]_vars

\* A driver that waits for an acknowledgement has the command it waits for in
\* the ring: current_command never answers with the zero command then, however
\* kmain and the handler interleave and whatever the keyboard sends.
BusyMeansPending == driver_state # STATE_READY => pending_commands > 0

\* Between two calls, the driver is ready exactly when no command is pending:
\* a pending command has always been started, so its acknowledgement will
\* start the next one, and nothing is left behind in the ring.
ReadyMeansEmpty ==
  pc = "idle" => (driver_state = STATE_READY <=> pending_commands = 0)

\* The ring, oldest command first.  Between the stores of queue_add the slot
\* is filled and next_command_idx is past it, and the command is not counted.
Ring ==
  LET end == IF pc \in {"count", "query_count"} THEN next_command_idx - 1
                                                ELSE next_command_idx
  IN [i \in 1..pending_commands |->
        command_queue[(end + COMMAND_QUEUE_SIZE - pending_commands + i - 1)
                      % COMMAND_QUEUE_SIZE]]

\* The oldest command has been written to the keyboard.
Started == driver_state # STATE_READY /\ pc # "send"

Fifo == INSTANCE CommandFifo
  WITH Commands <- Calls \union {QueryCommand}, Capacity <- COMMAND_QUEUE_SIZE,
       waiting <- IF Started THEN Tail(Ring) ELSE Ring,
       busy <- Started, started <- sent

\* The driver implements the abstract queue: whatever kmain and the handler do
\* to the ring, and whatever bytes come as acknowledgements, every accepted
\* command is started once and in order, one at a time, and the driver is not
\* ready before the last one is acknowledged.
ImplementsFifo == Fifo!Spec

\* The keyboard has only answered commands, and always in time.
Undisturbed == keys = 0 /\ ~missed

\* Answers off by one, by a key press or a late answer, and a refused byte as
\* well: the driver and the keyboard can then ask each other to resend for ever.
Crossed == ~Undisturbed /\ resends > 0

\* The driver works its ring off again and again: when key presses are taken
\* for acknowledgements and polls run out, and when the keyboard refuses bytes;
\* but not when a byte was lost: nothing in the driver ever writes it again.
DriverDrains ==
  []<>((pending_commands = 0 /\ driver_state = STATE_READY) \/ Crossed \/ lost)

\* A keyboard that only answers commands never has one of its answers decoded
\* as a scan code: handle_data indexes its tables with the byte it gets.
NoAnswerDecoded == Undisturbed => decoded = <<>>

\* The controller can always take what the driver wrote: no byte waits in the
\* input buffer behind one that the keyboard has yet to take, although kmain and
\* the handler both write and port 1 is off while kmain does.  So the polls of
\* wait_input_buf run out on a slow controller only.
WritesArrive == Undisturbed => ibuf = NoByte \/ toDev = <<>>

\* Nothing is under way anywhere.
Quiescent ==
  /\ pc = "idle" /\ irqpc = "idle" /\ ~irq /\ obuf = NoByte
  /\ ibuf = NoByte /\ toDev = <<>> /\ fromDev = <<>> /\ pending_commands = 0

IsSetScanSet(c) == c.com = PS2_KBD_COM_SET_SCAN_SET /\ c.arg # 0
NumSets(s)      == Cardinality({i \in DOMAIN s : IsSetScanSet(s[i])})
NumQueries(s)   == Cardinality({i \in DOMAIN s : s[i] = QueryCommand})

\* When everything has settled after a SET_SCAN_SET whose query found room,
\* kbd_scan_code_set is the set the keyboard really uses.
ScanSetLearned ==
  Quiescent /\ Undisturbed /\ NumSets(accepted) > 0 /\ ~dropped
    => kbd_scan_code_set = devSet

\* "Ask keyboard what scan set it's using AFTER COMMAND TO USE SCAN CODE SET X"
\* (ps2_keyboard.c:113): each accepted SET_SCAN_SET is followed by the query,
\* the full ring that the comment warns of excepted, and a byte that was lost.
AsksAfterSet ==
  \A n \in 1..MaxCalls :
    (NumSets(accepted) >= n) ~> (NumQueries(sent) >= n \/ dropped \/ Crossed \/ lost)
=============================================================================
