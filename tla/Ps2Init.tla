------------------------------ MODULE Ps2Init ------------------------------
(***************************************************************************)
(* ps2_init of kernel/ps2_8042.c with the controller, the keyboard and a   *)
(* pointing device as environment.  Interrupts are off, so it polls:       *)
(* before a write it waits for the input buffer to empty, before a read    *)
(* for the output buffer to fill, 64 polls each, and then goes on whatever *)
(* the buffer is (wait_input_buf and wait_output_buf return a verdict, and *)
(* nobody looks at it).                                                    *)
(***************************************************************************)
EXTENDS Interrupts, Sequences

CONSTANTS
  BiosConfigs,   \* configuration bytes the firmware, or a reset, may leave
  SelfTests,     \* answers to the self-test
  TestResets,    \* whether the self-test may reset the controller
  MaxKeys,       \* bound: key presses
  MaxMouse,      \* bound: bytes of the pointing device
  nuid64_str,    \* the bytes written to the controller's RAM ("nuid64")
  MaxResends,    \* bound: RESEND answers to the reset
  MaxTimeouts    \* bound: waits that run out of polls before a late answer

ASSUME TimeoutsAssumption == MaxTimeouts \in Nat \ {0}

\* Bytes that fit the controller's RAM behind the configuration byte
ASSUME StringAssumption == nuid64_str \in Seq(0..255) /\ Len(nuid64_str) <= 31

COMMAND_GET_CONFIG    == 32    \* 0x20
COMMAND_SET_CONFIG    == 96    \* 0x60; 0x61 and on write the controller's RAM
COMMAND_TEST          == 170   \* 0xAA
COMMAND_PORT1_ENABLE  == 174   \* 0xAE
COMMAND_PORT1_DISABLE == 173   \* 0xAD
COMMAND_PORT2_DISABLE == 167   \* 0xA7
CONTROLLER_TEST_OK    == 85    \* 0x55
RESET                 == 255   \* 0xFF
ACK                   == 250   \* 0xFA
RESEND                == 254   \* 0xFE
RESET_OK              == 170   \* 0xAA
NoByte                == -1
KeyByte               == 28
MouseByte             == 8

Bit(byte, k) == (byte \div 2^k) % 2

Command(byte) == [do |-> "command", byte |-> byte]
Data(byte)    == [do |-> "data", byte |-> byte]
Do(what)      == [do |-> what, byte |-> 0]

\* The string, byte by byte, into the RAM behind the configuration byte
RamWrites ==
  [i \in 1..2*Len(nuid64_str) |->
     IF i % 2 = 1 THEN Command(COMMAND_SET_CONFIG + ((i + 1) \div 2))
     ELSE Data(nuid64_str[i \div 2])]

\* Fault: the output buffer is flushed while port 1 may still fill it.
Script_FlushFirst ==
  <<Do("flush"), Command(COMMAND_PORT1_DISABLE), Command(COMMAND_PORT2_DISABLE),
    Command(COMMAND_GET_CONFIG), Do("read_config"),
    Command(COMMAND_SET_CONFIG), Do("write_config"),
    Command(COMMAND_TEST), Do("read_test")>>
  \o RamWrites \o
  <<Command(COMMAND_PORT1_ENABLE), Data(RESET), Do("read_reset"), Do("read_bat"), Do("install")>>

\* Fault: the second byte of the keyboard's answer is not waited for.
Script_NoBat ==
  <<Command(COMMAND_PORT1_DISABLE), Command(COMMAND_PORT2_DISABLE), Do("flush"),
    Command(COMMAND_GET_CONFIG), Do("read_config"),
    Command(COMMAND_SET_CONFIG), Do("write_config"),
    Command(COMMAND_TEST), Do("read_test")>>
  \o RamWrites \o
  <<Command(COMMAND_PORT1_ENABLE), Data(RESET), Do("read_reset"), Do("install")>>

\* ps2_init, access by access
Script ==
  <<Command(COMMAND_PORT1_DISABLE), Command(COMMAND_PORT2_DISABLE), Do("flush"),
    Command(COMMAND_GET_CONFIG), Do("read_config"),
    Command(COMMAND_SET_CONFIG), Do("write_config"),
    Command(COMMAND_TEST), Do("read_test")>>
  \o RamWrites \o
  <<Command(COMMAND_PORT1_ENABLE), Data(RESET), Do("read_reset"), Do("read_bat"), Do("install")>>

Finished == Len(Script) + 1
After(what) == CHOOSE i \in DOMAIN Script : Script[i].do = what

VARIABLES
  step, config,                    \* ps2_init: next access, its local variable
  ibuf, obuf, last,                \* controller: its buffers, the last byte read
  ccb, arg, port1, port2,          \* its configuration, command that waits for
                                   \* its byte (0: none), ports enabled
  toDev, fromDev,                  \* bytes to and from the keyboard
  keys, mouse, resends,            \* spent of the bounds
  bios, tested,                    \* history: first configuration, test answer
  timeouts, early, late, reset     \* history: waits in vain; a key, a byte of the
                                   \* pointing device, came after the flush; the
                                   \* self-test reset the controller

initVars == <<step, config>>
bufVars  == <<ibuf, obuf, last>>
ctrlVars == <<ccb, arg, port1, port2>>
devVars  == <<toDev, fromDev, keys, mouse, resends>>
histVars == <<bios, tested, timeouts, early, late, reset>>
ps2Vars  == <<initVars, bufVars, ctrlVars, devVars, histVars>>

NoCommand == Do("none")

Ps2InitState ==
  /\ step = 1 /\ config = 0
  /\ ibuf = NoCommand /\ obuf \in {NoByte, KeyByte} /\ last = 0
  /\ ccb \in BiosConfigs /\ arg = 0 /\ port1 = TRUE /\ port2 = TRUE
  /\ toDev = <<>> /\ fromDev = <<>> /\ keys = 0 /\ mouse = 0 /\ resends = 0
  /\ bios = ccb /\ tested = 0
  /\ timeouts = 0 /\ early = FALSE /\ late = FALSE /\ reset = FALSE

-----------------------------------------------------------------------------
(* ps2_init                                                                *)

Doing(what) == step < Finished /\ Script[step].do = what

\* Neither the controller nor the keyboard has anything to do.
Stuck ==
  /\ ibuf = NoCommand \/ (obuf # NoByte /\ ibuf.byte \in {COMMAND_GET_CONFIG, COMMAND_TEST})
  /\ toDev = <<>>
  /\ ~port1 \/ fromDev = <<>> \/ obuf # NoByte

\* The end of a wait: the buffer is ready, or the polls have run out, because
\* nothing would ever come or because it is late.
Waited(ready) ==
  /\ ready \/ Stuck \/ timeouts < MaxTimeouts
  /\ timeouts' = IF ready \/ timeouts = MaxTimeouts THEN timeouts ELSE timeouts + 1

\* outb after wait_input_buf: a byte the controller has not taken is lost.
Write(kind, byte) ==
  /\ ibuf' = [do |-> kind, byte |-> byte]
  /\ Waited(ibuf = NoCommand)
  /\ UNCHANGED <<obuf, last>>

\* What inb(DATA_PORT) returns: an empty buffer still holds its last byte.
Input == IF obuf # NoByte THEN obuf ELSE last

\* inb, after wait_output_buf if waits
Read(waits) ==
  /\ obuf' = NoByte /\ last' = Input
  /\ Waited(waits => obuf # NoByte)
  /\ UNCHANGED ibuf

WriteByte ==
  /\ Doing("command") \/ Doing("data")
  /\ Write(Script[step].do, Script[step].byte)
  /\ step' = step + 1
  /\ UNCHANGED <<config, ctrlVars, devVars, bios, tested, early, late, reset, intVars>>

Flush ==
  /\ Doing("flush") /\ Read(FALSE)
  /\ step' = step + 1
  /\ UNCHANGED <<config, ctrlVars, devVars, bios, tested, early, late, reset, intVars>>

ReadConfig ==
  /\ Doing("read_config") /\ Read(TRUE)
  /\ config' = Input
  /\ step' = step + 1
  /\ UNCHANGED <<ctrlVars, devVars, bios, tested, early, late, reset, intVars>>

\* port1_interrupt = 1, port2_interrupt = 0, port1_translation = 0
Patched(byte) == byte - Bit(byte, 0) + 1 - 2 * Bit(byte, 1) - 64 * Bit(byte, 6)

WriteConfig ==
  /\ Doing("write_config") /\ Write("data", Patched(config))
  /\ step' = step + 1
  /\ UNCHANGED <<config, ctrlVars, devVars, bios, tested, early, late, reset, intVars>>

\* The early return leaves the keyboard without its handler.
ReadTest ==
  /\ Doing("read_test") /\ Read(TRUE)
  /\ tested' = Input
  /\ step' = IF Input = CONTROLLER_TEST_OK THEN step + 1 ELSE Finished
  /\ UNCHANGED <<config, ctrlVars, devVars, bios, early, late, reset, intVars>>

\* Fault: after RESEND the answer is read again, and nothing is written.
ReadReset_NoRewrite ==
  /\ Doing("read_reset") /\ Read(TRUE)
  /\ step' = IF Input = RESEND THEN step
             ELSE IF Input = ACK THEN step + 1 ELSE After("install")
  /\ UNCHANGED <<config, ctrlVars, devVars, bios, tested, early, late, reset, intVars>>

\* do ... while (resp == 0xFE); after any answer but ACK the second byte of the
\* answer is not read.
ReadReset ==
  /\ Doing("read_reset") /\ Read(TRUE)
  /\ step' = IF Input = RESEND THEN step - 1
             ELSE IF Input = ACK THEN step + 1 ELSE After("install")
  /\ UNCHANGED <<config, ctrlVars, devVars, bios, tested, early, late, reset, intVars>>

\* RESET_OK or not: it only decides what is printed.
ReadBat ==
  /\ Doing("read_bat") /\ Read(TRUE)
  /\ step' = step + 1
  /\ UNCHANGED <<config, ctrlVars, devVars, bios, tested, early, late, reset, intVars>>

Install ==
  /\ Doing("install") /\ irq_set_handler(KBD_IRQ, "kbd_int_handler")
  /\ step' = step + 1
  /\ UNCHANGED <<config, bufVars, ctrlVars, devVars, histVars>>

ps2_init ==
  \/ WriteByte \/ Flush \/ ReadConfig \/ WriteConfig \/ ReadTest \/ ReadReset
  \/ ReadBat \/ Install

\* Fault: the test of the status register is inverted.
kbd_int_handler_Inverted ==
  /\ HandlerDue("kbd_int_handler")
  /\ UNCHANGED <<irr, ps2Vars>>

\* kbd_int_handler: reads the byte if there is one; keyboard_handler, which it
\* calls, is the subject of KbdCommands.
kbd_int_handler ==
  /\ HandlerDue("kbd_int_handler")
  /\ obuf' = NoByte /\ last' = Input
  /\ UNCHANGED <<irr, initVars, ibuf, ctrlVars, devVars, histVars>>

-----------------------------------------------------------------------------
(* The controller and the devices (external)                               *)

\* A byte gets into the output buffer, and with it IRQ1 or IRQ12.
Output(byte, irq, bit) ==
  /\ obuf = NoByte /\ obuf' = byte
  /\ irr' = IF Bit(ccb, bit) = 1 THEN irr \union {irq} ELSE irr
  /\ UNCHANGED <<irq_handlers, lidt, base, isr, iflag, frame>>

CtrlTakes == ibuf' = NoCommand /\ UNCHANGED <<last, initVars, devVars, bios, tested, timeouts,
                                               early, late>>

CtrlPorts ==
  /\ ibuf.do = "command"
  /\ ibuf.byte \in {COMMAND_PORT1_DISABLE, COMMAND_PORT2_DISABLE, COMMAND_PORT1_ENABLE}
  /\ port1' = IF ibuf.byte = COMMAND_PORT2_DISABLE THEN port1
              ELSE ibuf.byte = COMMAND_PORT1_ENABLE
  /\ port2' = (port2 /\ ibuf.byte # COMMAND_PORT2_DISABLE)
  /\ CtrlTakes /\ UNCHANGED <<obuf, ccb, arg, reset, intVars>>

CtrlGetConfig ==
  /\ ibuf = Command(COMMAND_GET_CONFIG)
  /\ Output(ccb, 1, 0)
  /\ CtrlTakes /\ UNCHANGED <<ctrlVars, reset>>

\* "WARN: Can reset controller"
CtrlTest ==
  /\ ibuf = Command(COMMAND_TEST)
  /\ \E answer \in SelfTests : Output(answer, 1, 0)
  /\ \/ UNCHANGED <<ctrlVars, reset>>
     \/ /\ TestResets /\ reset' = TRUE
        /\ ccb' \in BiosConfigs /\ arg' = 0 /\ port1' = TRUE /\ port2' = TRUE
  /\ CtrlTakes

CtrlArgument ==
  /\ ibuf.do = "command" /\ ibuf.byte \in COMMAND_SET_CONFIG..COMMAND_SET_CONFIG+31
  /\ arg' = ibuf.byte
  /\ CtrlTakes /\ UNCHANGED <<obuf, ccb, port1, port2, reset, intVars>>

CtrlStores ==
  /\ ibuf.do = "data" /\ arg # 0
  /\ ccb' = IF arg = COMMAND_SET_CONFIG THEN ibuf.byte ELSE ccb
  /\ arg' = 0
  /\ CtrlTakes /\ UNCHANGED <<obuf, port1, port2, reset, intVars>>

CtrlForwards ==
  /\ ibuf.do = "data" /\ arg = 0
  /\ toDev' = Append(toDev, ibuf.byte) /\ ibuf' = NoCommand
  /\ UNCHANGED <<initVars, obuf, last, ctrlVars, fromDev, keys, mouse, resends, histVars, intVars>>

\* A byte of the keyboard arrives.
Port1Receives ==
  /\ port1 /\ fromDev # <<>> /\ Output(Head(fromDev), 1, 0)
  /\ fromDev' = Tail(fromDev)
  /\ early' = (early \/ (Head(fromDev) = KeyByte /\ After("flush") < step
                         /\ step <= After("install")))
  /\ UNCHANGED <<initVars, ibuf, last, ctrlVars, toDev, keys, mouse, resends, bios, tested,
                 timeouts, late, reset>>

\* The pointing device sends a byte.
Port2Receives ==
  /\ port2 /\ mouse < MaxMouse /\ Output(MouseByte, 12, 1)
  /\ mouse' = mouse + 1
  /\ late' = (late \/ After("flush") < step)
  /\ UNCHANGED <<initVars, ibuf, last, ctrlVars, toDev, fromDev, keys, resends, bios, tested,
                 timeouts, early, reset>>

Controller ==
  \/ CtrlPorts \/ CtrlGetConfig \/ CtrlTest \/ CtrlArgument \/ CtrlStores
  \/ CtrlForwards \/ Port1Receives

\* A key is pressed: the keyboard keeps its byte until port 1 takes it.
KeyPressed ==
  /\ keys < MaxKeys
  /\ keys' = keys + 1 /\ fromDev' = Append(fromDev, KeyByte)
  /\ UNCHANGED <<initVars, bufVars, ctrlVars, toDev, mouse, resends, histVars, intVars>>

\* RESET empties the keyboard's own buffer.
KeyboardResets ==
  /\ toDev # <<>> /\ Head(toDev) = RESET
  /\ toDev' = Tail(toDev) /\ fromDev' = <<ACK, RESET_OK>>
  /\ UNCHANGED <<initVars, bufVars, ctrlVars, keys, mouse, resends, histVars, intVars>>

KeyboardRefuses ==
  /\ toDev # <<>> /\ (Head(toDev) = RESET => resends < MaxResends)
  /\ resends' = IF Head(toDev) = RESET THEN resends + 1 ELSE resends
  /\ toDev' = Tail(toDev) /\ fromDev' = Append(fromDev, RESEND)
  /\ UNCHANGED <<initVars, bufVars, ctrlVars, keys, mouse, histVars, intVars>>

Keyboard == KeyboardResets \/ KeyboardRefuses
=============================================================================
