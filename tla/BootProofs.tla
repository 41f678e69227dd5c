----------------------------- MODULE BootProofs -----------------------------
(***************************************************************************)
(* Proofs about the boot, for any devices, firmware configurations, keys   *)
(* and interrupts: the acknowledgement of interrupts (ServiceSafe), and    *)
(* what ps2_init leaves behind (ConfigSafe, HandOverSafe).                 *)
(***************************************************************************)
EXTENDS Boot, SequenceTheorems, TLAPS

Remapped == [master |-> 32, slave |-> 40]

\* What the interrupt controllers have in service in the handler of vector v:
\* the interrupt, and IRQ2 of the master for one of the slave; or, for a
\* spurious one, nothing on the controller that named it.
Service(v) ==
  \/ \E i \in 0..7 : v = 32 + i /\ isr = {i}
  \/ \E i \in 8..15 : v = 32 + i /\ isr = {i, 2}
  \/ v = 39 /\ isr = {}
  \/ v = 47 /\ isr = {2}

\* Interrupts are off in a handler, and come only after pic_remap.
ServiceInv ==
  /\ frame = NoFrame => isr = {}
  /\ frame # NoFrame => frame.step \in {"handler", "ack"} /\ Service(frame.int_no)
  /\ frame # NoFrame => iflag = FALSE
  /\ iflag \in BOOLEAN
  /\ iflag = TRUE \/ frame # NoFrame =>
       base = Remapped /\ pc \notin {"magic", "idt_init", "halted"}
  /\ pc \notin {"magic", "idt_init", "halted"} => base = Remapped

-----------------------------------------------------------------------------
(* irq_ack                                                                 *)

LEMMA HighestOfOne ==
  ASSUME NEW i \in 0..15
  PROVE  Highest({i}) = {i}
BY DEF Highest, Rank

\* A non-specific end of interrupt to a controller with at most one in service
LEMMA EoiEnds ==
  /\ \A S : S \intersect 0..7 = {} => Eoi(S, 0..7) = S
  /\ \A S : S \intersect 8..15 = {} => Eoi(S, 8..15) = S
  /\ \A i \in 0..7 : Eoi({i}, 0..7) = {}
  /\ \A i \in 8..15 : Eoi({i, 2}, 8..15) = {2}
<1>1. Highest({}) = {}
  BY DEF Highest
<1>2. ASSUME NEW i \in 0..7  PROVE Eoi({i}, 0..7) = {}
  <2>1. {i} \intersect 0..7 = {i}
    OBVIOUS
  <2> QED
    BY <2>1, HighestOfOne DEF Eoi
<1>3. ASSUME NEW i \in 8..15  PROVE Eoi({i, 2}, 8..15) = {2}
  <2>1. {i, 2} \intersect 8..15 = {i}
    <3>1. i \in 8..15 /\ 2 \notin 8..15
      OBVIOUS
    <3> QED
      BY <3>1, Zenon
  <2>2. Eoi({i, 2}, 8..15) = {i, 2} \ {i}
    BY <2>1, HighestOfOne DEF Eoi
  <2>3. i # 2
    OBVIOUS
  <2> QED
    BY <2>2, <2>3
<1>4. ASSUME NEW S, NEW lines, S \intersect lines = {}  PROVE Eoi(S, lines) = S
  BY <1>1, <1>4 DEF Eoi
<1> QED
  BY <1>2, <1>3, <1>4

\* irq_ack ends what is in service for its vector, on the right controllers.
LEMMA AckEnds ==
  ASSUME NEW v, Service(v), irq_ack(v - 32)
  PROVE  isr' = {}
<1>1. CASE \E i \in 0..7 : v = 32 + i /\ isr = {i}
  <2>1. PICK i \in 0..7 : v = 32 + i /\ isr = {i}
    BY <1>1
  <2>2. isr' = Eoi(isr, 0..7)
    BY <2>1 DEF irq_ack
  <2> QED
    BY <2>1, <2>2, EoiEnds
<1>2. CASE \E i \in 8..15 : v = 32 + i /\ isr = {i, 2}
  <2>1. PICK i \in 8..15 : v = 32 + i /\ isr = {i, 2}
    BY <1>2
  <2>2. isr' = Eoi(Eoi(isr, 8..15), 0..7)
    BY <2>1 DEF irq_ack
  <2>3. 2 \in 0..7
    OBVIOUS
  <2> QED
    BY <2>1, <2>2, <2>3, EoiEnds
<1>3. CASE v = 39 /\ isr = {}
  <2>1. isr' = Eoi(isr, 0..7)
    BY <1>3 DEF irq_ack
  <2> QED
    BY <1>3, <2>1, EoiEnds
<1>4. CASE v = 47 /\ isr = {2}
  <2>1. isr' = Eoi(Eoi(isr, 8..15), 0..7)
    BY <1>4 DEF irq_ack
  <2>2. {2} \intersect 8..15 = {} /\ 2 \in 0..7
    OBVIOUS
  <2> QED
    BY <1>4, <2>1, <2>2, EoiEnds
<1> QED
  BY <1>1, <1>2, <1>3, <1>4 DEF Service

-----------------------------------------------------------------------------
(* The steps                                                               *)

\* What most steps leave alone
LEMMA Untouched ==
  ASSUME ServiceInv, UNCHANGED <<base, isr, iflag, frame, pc>>
  PROVE  ServiceInv'
BY DEF ServiceInv, Service

\* The steps of kmain
LEMMA KmainServes ==
  ASSUME ServiceInv, Kmain
  PROVE  ServiceInv'
<1>1. frame = NoFrame /\ frame' = NoFrame /\ isr = {}
  BY DEF Kmain, CheckMagic, KmainIdt, KmainMmu, KmainPit, KmainPs2, KmainSti, Goto,
         KmainRuns, intVars, idt_init, irq_set_handler, pit_init, sti, ps2_init, WriteByte,
         Flush, ReadConfig, WriteConfig, ReadTest, ReadReset, ReadBat, Install, ServiceInv
<1>2. CASE CheckMagic
  BY <1>1, <1>2 DEF CheckMagic, Goto, intVars, ServiceInv
<1>3. CASE KmainIdt
  BY <1>1, <1>3 DEF KmainIdt, Goto, idt_init, pic_remap, ServiceInv, Remapped
<1>4. CASE KmainMmu \/ KmainPit
  BY <1>1, <1>4 DEF KmainMmu, KmainPit, pit_init, Goto, irq_set_handler, ServiceInv
<1>5. CASE KmainPs2
  <2>1. UNCHANGED <<base, isr, iflag>>
    BY <1>5 DEF KmainPs2, ps2_init, WriteByte, Flush, ReadConfig, WriteConfig, ReadTest,
                ReadReset, ReadBat, Install, irq_set_handler, intVars
  <2>2. pc = "ps2_init" /\ pc' \in {"sti", "ps2_init"}
    BY <1>5 DEF KmainPs2, Goto
  <2> QED
    BY <1>1, <2>1, <2>2 DEF ServiceInv
<1>6. CASE KmainSti
  BY <1>1, <1>6 DEF KmainSti, Goto, sti, ServiceInv
<1> QED
  BY <1>2, <1>3, <1>4, <1>5, <1>6 DEF Kmain

LEMMA InterruptServes ==
  ASSUME ServiceInv, Interrupt
  PROVE  ServiceInv'
<1>1. PICK i \in 0..15 : Deliver(i) \/ Spurious(i)
  BY DEF Interrupt
<1>2. iflag = TRUE /\ isr = {} /\ base = Remapped /\ pc \notin {"magic", "idt_init", "halted"}
  BY <1>1 DEF Deliver, Spurious, CanDeliver, ServiceInv
<1>3. base' = base /\ iflag' = FALSE /\ pc' = pc
  BY <1>1 DEF Deliver, Spurious, Interrupted, Interrupt, Kernel
<1>4. frame'.step = "handler" /\ frame' # NoFrame
  BY <1>1 DEF Deliver, Spurious, Interrupted, NoFrame
<1>5. \A j \in 0..15 : Vector(j) = 32 + j
  BY <1>2 DEF Vector, Remapped
<1>6. Service(frame.int_no)'
  <2>1. CASE Deliver(i)
    <3>1. frame'.int_no = 32 + i /\ isr' = IF i < 8 THEN {i} ELSE {i, 2}
      BY <1>2, <1>5, <2>1 DEF Deliver, Interrupted
    <3> QED
      BY <3>1 DEF Service
  <2>2. CASE Spurious(i)
    <3>1. frame'.int_no = (IF i < 8 THEN 39 ELSE 47) /\ isr' = IF i < 8 THEN {} ELSE {2}
      BY <1>2, <1>5, <2>2 DEF Spurious, Interrupted
    <3> QED
      BY <3>1 DEF Service
  <2> QED
    BY <1>1, <2>1, <2>2
<1> QED
  BY <1>2, <1>3, <1>4, <1>6 DEF ServiceInv

LEMMA HandlerServes ==
  ASSUME ServiceInv, irq_handler
  PROVE  ServiceInv'
<1>1. CASE IdleHandler \/ KbdHandler
  <2>1. PICK h : HandlerDue(h)
    BY <1>1 DEF IdleHandler, KbdHandler, kbd_int_handler
  <2>2. /\ frame.step = "handler" /\ frame' = [frame EXCEPT !.step = "ack"]
        /\ UNCHANGED <<base, isr, iflag, pc>>
    BY <1>1, <2>1 DEF HandlerDue, IdleHandler, KbdHandler, Kernel
  <2>3. frame # NoFrame
    BY <2>2 DEF NoFrame
  <2> QED
    BY <2>2, <2>3 DEF ServiceInv, Service, NoFrame
<1>2. CASE IrqReturns
  <2>1. /\ frame.step = "ack" /\ irq_ack(frame.int_no - 32)
        /\ frame' = NoFrame /\ iflag' = TRUE /\ UNCHANGED <<base, pc>>
    BY <1>2 DEF IrqReturns, Return, Kernel
  <2>2. frame # NoFrame
    BY <2>1 DEF NoFrame
  <2>3. isr' = {}
    BY <2>1, <2>2, AckEnds DEF ServiceInv
  <2> QED
    BY <2>1, <2>2, <2>3 DEF ServiceInv
<1> QED
  BY <1>1, <1>2 DEF irq_handler

LEMMA ServiceNext == ServiceInv /\ [Next]_vars => ServiceInv'
<1> SUFFICES ASSUME ServiceInv, [Next]_vars  PROVE ServiceInv'
  OBVIOUS
<1>1. CASE Kmain
  BY <1>1, KmainServes
<1>2. CASE Interrupt
  BY <1>2, InterruptServes
<1>3. CASE irq_handler
  BY <1>3, HandlerServes
<1>4. CASE PageFault
  <2>1. frame = NoFrame /\ pc' = "halted" /\ iflag' = FALSE /\ UNCHANGED <<base, isr, frame>>
    BY <1>4 DEF PageFault, KmainRuns
  <2> QED
    BY <2>1 DEF ServiceInv
<1>5. CASE DeviceRaises
  <2>1. UNCHANGED <<base, isr, iflag, frame, pc>>
    BY <1>5 DEF DeviceRaises, Raise
  <2> QED
    BY <2>1, Untouched
<1>6. CASE Hardware \/ User
  <2>1. UNCHANGED <<base, isr, iflag, frame, pc>>
    BY <1>6 DEF Hardware, User, Kernel, Controller, Keyboard, CtrlPorts, CtrlGetConfig,
                CtrlTest, CtrlArgument, CtrlStores, CtrlForwards, Port1Receives, KeyPressed,
                Port2Receives, KeyboardResets, KeyboardRefuses, Output, intVars
  <2> QED
    BY <2>1, Untouched
<1>7. CASE UNCHANGED vars
  BY <1>7, Untouched DEF vars, intVars
<1> QED
  BY <1>1, <1>2, <1>3, <1>4, <1>5, <1>6, <1>7 DEF Next, Rest

LEMMA ServiceInit == Init => ServiceInv
BY DEF Init, IntInit, ServiceInv

\* irq_ack ends every interrupt the CPU takes, on the controllers that have it
\* in service, spurious ones and those of the slave included, for all devices,
\* and at every moment of the boot.
THEOREM ServiceSafe == Spec => []NothingInService
<1>1. ServiceInv => NothingInService
  <2> SUFFICES ASSUME ServiceInv  PROVE NothingInService
    OBVIOUS
  <2>1. ASSUME NEW i \in isr  PROVE i = 2 \/ Vector(i) = frame.int_no
    <3>1. frame # NoFrame
      BY <2>1 DEF ServiceInv
    <3>2. Service(frame.int_no) /\ base = Remapped
      BY <3>1 DEF ServiceInv
    <3>3. i = 2 \/ (i \in 0..15 /\ frame.int_no = 32 + i)
      BY <2>1, <3>2 DEF Service
    <3> QED
      BY <3>2, <3>3 DEF Vector, Remapped
  <2> QED
    BY <2>1 DEF NothingInService, ServiceInv
<1> QED
  BY <1>1, ServiceInit, ServiceNext, PTL DEF Spec

-----------------------------------------------------------------------------
(* The script of ps2_init                                                  *)

Begin ==
  <<Command(COMMAND_PORT1_DISABLE), Command(COMMAND_PORT2_DISABLE), Do("flush"),
    Command(COMMAND_GET_CONFIG), Do("read_config"),
    Command(COMMAND_SET_CONFIG), Do("write_config"),
    Command(COMMAND_TEST), Do("read_test")>>
End ==
  <<Command(COMMAND_PORT1_ENABLE), Data(RESET), Do("read_reset"), Do("read_bat"), Do("install")>>

\* Where ps2_init turns port 1 on again, behind the RAM writes
EnableAt == 10 + 2 * Len(nuid64_str)

RamCommands == COMMAND_SET_CONFIG+1 .. COMMAND_SET_CONFIG+31

LEMMA EnableType == Len(nuid64_str) \in Nat /\ EnableAt \in Nat /\ EnableAt >= 10
<1>1. Len(nuid64_str) \in Nat
  BY StringAssumption, LenProperties
<1> QED
  BY <1>1 DEF EnableAt

LEMMA ScriptParts ==
  /\ Len(Script) = EnableAt + 4 /\ DOMAIN Script = 1..EnableAt + 4
  /\ \A i \in 1..9 : Script[i] = Begin[i]
  /\ \A i \in 10..EnableAt-1 : Script[i] = RamWrites[i - 9]
  /\ \A i \in 1..5 : Script[EnableAt - 1 + i] = End[i]
<1> DEFINE n == 2 * Len(nuid64_str)
           A == {Begin[i] : i \in 1..9} \union {RamWrites[i] : i \in 1..n}
                  \union {End[i] : i \in 1..5}
           S == Begin \o RamWrites
<1>1. n \in Nat /\ EnableAt = 10 + n
  BY EnableType DEF EnableAt
<1>2. Begin \in Seq(A) /\ Len(Begin) = 9
  <2>1. DOMAIN Begin = 1..9 /\ Len(Begin) = 9 /\ Begin \in Seq({Begin[i] : i \in 1..9})
    BY DEF Begin
  <2> QED
    BY <2>1
<1>3. End \in Seq(A) /\ Len(End) = 5
  <2>1. DOMAIN End = 1..5 /\ Len(End) = 5 /\ End \in Seq({End[i] : i \in 1..5})
    BY DEF End
  <2> QED
    BY <2>1
<1>4. RamWrites \in Seq(A) /\ Len(RamWrites) = n
  <2>1. RamWrites \in [1..n -> A]
    BY DEF RamWrites
  <2> QED
    BY <1>1, <2>1, SeqDef, LenProperties
<1>5. Script = S \o End
  BY DEF Script, Begin, End
<1> HIDE DEF A, n
<1>6. /\ S \in Seq(A) /\ Len(S) = 9 + n
      /\ \A i \in 1..Len(S) : S[i] = IF i <= 9 THEN Begin[i] ELSE RamWrites[i - 9]
  <2>1. /\ S \in Seq(A) /\ Len(S) = Len(Begin) + Len(RamWrites)
        /\ \A i \in 1..Len(Begin) + Len(RamWrites) :
             S[i] = IF i <= Len(Begin) THEN Begin[i] ELSE RamWrites[i - Len(Begin)]
    BY <1>2, <1>4, ConcatProperties, Zenon
  <2> HIDE DEF S
  <2> QED
    BY <1>1, <1>2, <1>4, <2>1
<1> HIDE DEF S
<1>7. /\ Script \in Seq(A) /\ Len(Script) = Len(S) + 5
      /\ \A i \in 1..Len(S) + 5 : Script[i] = IF i <= Len(S) THEN S[i] ELSE End[i - Len(S)]
  <2>1. /\ Script \in Seq(A) /\ Len(Script) = Len(S) + Len(End)
        /\ \A i \in 1..Len(S) + Len(End) :
             Script[i] = IF i <= Len(S) THEN S[i] ELSE End[i - Len(S)]
    BY <1>3, <1>5, <1>6, ConcatProperties, Zenon
  <2> QED
    BY <1>3, <1>6, <2>1
<1>8. DOMAIN Script = 1..Len(Script)
  BY <1>7, LenProperties
<1> QED
  BY <1>1, <1>6, <1>7, <1>8

\* What ps2_init does at each of its accesses
LEMMA ScriptSteps ==
  /\ EnableAt \in Nat /\ EnableAt >= 10 /\ EnableAt % 2 = 0 /\ Finished = EnableAt + 5
  /\ Script[1] = Command(COMMAND_PORT1_DISABLE) /\ Script[2] = Command(COMMAND_PORT2_DISABLE)
  /\ Script[3] = Do("flush")
  /\ Script[4] = Command(COMMAND_GET_CONFIG) /\ Script[5] = Do("read_config")
  /\ Script[6] = Command(COMMAND_SET_CONFIG) /\ Script[7] = Do("write_config")
  /\ Script[8] = Command(COMMAND_TEST) /\ Script[9] = Do("read_test")
  /\ \A i \in 10..EnableAt-1 :
       IF i % 2 = 0 THEN Script[i].do = "command" /\ Script[i].byte \in RamCommands
       ELSE Script[i].do = "data"
  /\ Script[EnableAt] = Command(COMMAND_PORT1_ENABLE) /\ Script[EnableAt + 1] = Data(RESET)
  /\ Script[EnableAt + 2] = Do("read_reset") /\ Script[EnableAt + 3] = Do("read_bat")
  /\ Script[EnableAt + 4] = Do("install")
  /\ After("flush") = 3 /\ After("install") = EnableAt + 4
<1>1. EnableAt \in Nat /\ EnableAt >= 10 /\ EnableAt % 2 = 0 /\ Finished = EnableAt + 5
  <2>1. \A k \in Nat : (10 + 2 * k) % 2 = 0
    OBVIOUS
  <2> QED
    BY <2>1, EnableType, ScriptParts DEF EnableAt, Finished
<1>2. /\ Script[1] = Command(COMMAND_PORT1_DISABLE) /\ Script[2] = Command(COMMAND_PORT2_DISABLE)
      /\ Script[3] = Do("flush")
      /\ Script[4] = Command(COMMAND_GET_CONFIG) /\ Script[5] = Do("read_config")
      /\ Script[6] = Command(COMMAND_SET_CONFIG) /\ Script[7] = Do("write_config")
      /\ Script[8] = Command(COMMAND_TEST) /\ Script[9] = Do("read_test")
  <2>1. \A i \in 1..9 : Script[i] = Begin[i]
    BY ScriptParts
  <2> QED
    BY <2>1 DEF Begin
<1>3. /\ Script[EnableAt] = Command(COMMAND_PORT1_ENABLE) /\ Script[EnableAt + 1] = Data(RESET)
      /\ Script[EnableAt + 2] = Do("read_reset") /\ Script[EnableAt + 3] = Do("read_bat")
      /\ Script[EnableAt + 4] = Do("install")
  <2>1. \A i \in 1..5 : Script[EnableAt - 1 + i] = End[i]
    BY ScriptParts
  <2>2. /\ EnableAt - 1 + 1 = EnableAt /\ EnableAt - 1 + 2 = EnableAt + 1
        /\ EnableAt - 1 + 3 = EnableAt + 2 /\ EnableAt - 1 + 4 = EnableAt + 3
        /\ EnableAt - 1 + 5 = EnableAt + 4
    BY <1>1
  <2>3. End[1] = Script[EnableAt] /\ End[2] = Script[EnableAt + 1] /\ End[3] = Script[EnableAt + 2]
        /\ End[4] = Script[EnableAt + 3] /\ End[5] = Script[EnableAt + 4]
    BY <2>1, <2>2
  <2> QED
    BY <2>3 DEF End
<1>4. ASSUME NEW i \in 10..EnableAt-1
      PROVE  IF i % 2 = 0 THEN Script[i].do = "command" /\ Script[i].byte \in RamCommands
             ELSE Script[i].do = "data"
  <2>1. Script[i] = RamWrites[i - 9]
    BY ScriptParts
  <2>2. i - 9 \in 1..2 * Len(nuid64_str)
    BY <1>1, EnableType DEF EnableAt
  <2>3. Script[i] = IF (i - 9) % 2 = 1 THEN Command(COMMAND_SET_CONFIG + ((i - 9 + 1) \div 2))
                    ELSE Data(nuid64_str[(i - 9) \div 2])
    BY <2>1, <2>2 DEF RamWrites
  <2>4. i \in Int /\ ((i - 9) % 2 = 1 <=> i % 2 = 0)
    BY <1>1
  <2>5. (i - 9 + 1) \div 2 \in 1..31
    <3>1. Len(nuid64_str) <= 31
      BY StringAssumption
    <3>2. i - 9 + 1 \in 2..63
      BY <2>2, <3>1, EnableType
    <3> QED
      BY <3>2
  <2> QED
    BY <2>3, <2>4, <2>5 DEF Command, Data, RamCommands, COMMAND_SET_CONFIG
<1>5. After("flush") = 3 /\ After("install") = EnableAt + 4
  <2>1. \A i \in DOMAIN Script :
          /\ Script[i].do = "flush" => i = 3
          /\ Script[i].do = "install" => i = EnableAt + 4
    <3> SUFFICES ASSUME NEW i \in 1..EnableAt + 4
                 PROVE  /\ Script[i].do = "flush" => i = 3
                        /\ Script[i].do = "install" => i = EnableAt + 4
      BY ScriptParts
    <3>1. CASE i \in 1..9
      BY <1>2, <3>1 DEF Command, Do
    <3>2. CASE i \in 10..EnableAt-1
      BY <1>4, <3>2
    <3>3. CASE i \in EnableAt..EnableAt+4
      <4>1. i = EnableAt \/ i = EnableAt + 1 \/ i = EnableAt + 2 \/ i = EnableAt + 3 \/ i = EnableAt + 4
        BY <1>1, <3>3
      <4> QED
        BY <1>3, <4>1 DEF Command, Data, Do
    <3> QED
      BY <1>1, <3>1, <3>2, <3>3
  <2>2. /\ 3 \in DOMAIN Script /\ Script[3].do = "flush"
        /\ EnableAt + 4 \in DOMAIN Script /\ Script[EnableAt + 4].do = "install"
    BY <1>1, <1>2, <1>3, ScriptParts DEF Do
  <2> QED
    BY <2>1, <2>2 DEF After
<1> QED
  BY <1>1, <1>2, <1>3, <1>4, <1>5

-----------------------------------------------------------------------------
(* The controller and the keyboard during ps2_init                         *)

DevBytes == {KeyByte, ACK, RESEND, RESET_OK}

AllKeys(s) == \A i \in DOMAIN s : s[i] = KeyByte

\* The keyboard has nothing to answer.
Still == toDev = <<>> /\ AllKeys(fromDev)

\* The controller while ps2_init is at the given access: port 1 goes off, the
\* configuration is read and written back, the controller tested, its RAM written.
ConfigAt ==
  /\ step <= EnableAt => Still
  /\ step \in 3..EnableAt => port1 = FALSE
  /\ step \in 1..7 => ccb = bios
  /\ step >= 9 => ccb = Patched(bios)
  /\ step \in (1..6) \union {9} => arg = 0
  /\ step = 1 => ibuf = NoCommand
  /\ step = 2 => ibuf = Command(COMMAND_PORT1_DISABLE) \/ (ibuf = NoCommand /\ port1 = FALSE)
  /\ step \in 3..4 => ibuf \in {Command(COMMAND_PORT2_DISABLE), NoCommand}
  /\ step \in {4, 6, 7, 8} \union 10..EnableAt => obuf = NoByte
  /\ step = 5 => \/ ibuf = Command(COMMAND_GET_CONFIG) /\ obuf = NoByte
                 \/ ibuf = NoCommand /\ obuf = bios
  /\ step = 6 => ibuf = NoCommand
  /\ step \in 6..7 => config = bios
  /\ step = 7 => \/ ibuf = Command(COMMAND_SET_CONFIG) /\ arg = 0
                 \/ ibuf = NoCommand /\ arg = COMMAND_SET_CONFIG
  /\ step = 8 => \/ ibuf = Data(Patched(bios)) /\ arg = COMMAND_SET_CONFIG /\ ccb = bios
                 \/ ibuf = NoCommand /\ arg = 0 /\ ccb = Patched(bios)
  /\ step = 9 => ibuf = NoCommand \/ (ibuf = Command(COMMAND_TEST) /\ obuf = NoByte)
  /\ step \in 10..EnableAt /\ step % 2 = 0 =>
       (ibuf.do = "data" /\ arg \in RamCommands) \/ (ibuf = NoCommand /\ arg = 0)
  /\ step \in 10..EnableAt /\ step % 2 = 1 =>
       \/ ibuf.do = "command" /\ ibuf.byte \in RamCommands /\ arg = 0
       \/ ibuf = NoCommand /\ arg \in RamCommands
  /\ step > EnableAt =>
       arg = 0 /\ ibuf \in {NoCommand, Command(COMMAND_PORT1_ENABLE), Data(RESET)}

\* One key among the keyboard's bytes is no key but RESEND.
OneResend(s) ==
  \E j \in DOMAIN s : s[j] = RESEND /\ \A i \in DOMAIN s \ {j} : s[i] = KeyByte

\* The answer, and keys behind it
Passed(s) == Len(s) >= 1 /\ s[1] = RESET_OK /\ \A i \in DOMAIN s \ {1} : s[i] = KeyByte
Acked(s)  == Len(s) >= 2 /\ s[1] = ACK /\ s[2] = RESET_OK
             /\ \A i \in DOMAIN s \ {1, 2} : s[i] = KeyByte

\* The keyboard, from its reset to the end of its answer
AnswerAt ==
  /\ step = EnableAt + 1 =>
       /\ obuf = NoByte /\ Still
       /\ (ibuf = Command(COMMAND_PORT1_ENABLE) /\ port1 = FALSE) \/ (ibuf = NoCommand /\ port1 = TRUE)
  /\ step > EnableAt + 1 => port1 = TRUE
  /\ step = EnableAt + 2 =>
       \/ ibuf = Data(RESET) /\ obuf = NoByte /\ Still
       \/ /\ ibuf = NoCommand
          /\ \/ toDev = <<RESET>> /\ obuf = NoByte /\ AllKeys(fromDev)
             \/ toDev = <<>> /\ obuf = NoByte /\ OneResend(fromDev)
             \/ toDev = <<>> /\ obuf = RESEND /\ AllKeys(fromDev)
             \/ toDev = <<>> /\ obuf = NoByte /\ Acked(fromDev)
             \/ toDev = <<>> /\ obuf = ACK /\ Passed(fromDev)
  /\ step = EnableAt + 3 =>
       /\ ibuf = NoCommand /\ toDev = <<>>
       /\ (obuf = NoByte /\ Passed(fromDev)) \/ (obuf = RESET_OK /\ AllKeys(fromDev))
  /\ step >= EnableAt + 4 => ibuf = NoCommand /\ Still
  /\ step = EnableAt + 4 => obuf = NoByte
  /\ step = EnableAt + 5 => obuf \in {NoByte, KeyByte} /\ HandlerOf(KBD_IRQ) = "kbd_int_handler"

\* Handlers run only when kmain is in its loop, with ps2_init behind it.
PlaceInv ==
  /\ step \in 1..Finished
  /\ timeouts \in 0..MaxTimeouts /\ fromDev \in Seq(DevBytes)
  /\ iflag = TRUE \/ frame # NoFrame => pc = "loop"
  /\ pc \in {"magic", "idt_init", "mmu_init", "pit_init"} => step = 1
  /\ pc = "ps2_init" => step < Finished
  /\ pc \in {"sti", "loop"} => step = Finished

\* Where AnswerAt holds: a failed test of the controller ends ps2_init early.
Answering ==
  /\ Undisturbed /\ ~early /\ pc \in {"ps2_init", "sti"}
  /\ step = Finished => tested = CONTROLLER_TEST_OK

BootInv ==
  /\ PlaceInv
  /\ Undisturbed => ConfigAt
  /\ Answering => AnswerAt

-----------------------------------------------------------------------------
(* What the keyboard sends                                                 *)

LEMMA KeysOnly ==
  /\ AllKeys(<<>>)
  /\ \A s \in Seq(DevBytes) : AllKeys(s) => AllKeys(Append(s, KeyByte)) /\ OneResend(Append(s, RESEND))
  /\ \A s \in Seq(DevBytes) : AllKeys(s) /\ s # <<>> => Head(s) = KeyByte /\ AllKeys(Tail(s))
<1>1. AllKeys(<<>>)
  BY DEF AllKeys
<1>2. ASSUME NEW s \in Seq(DevBytes), AllKeys(s)  PROVE AllKeys(Append(s, KeyByte))
  BY <1>2 DEF AllKeys
<1>3. ASSUME NEW s \in Seq(DevBytes), AllKeys(s)  PROVE OneResend(Append(s, RESEND))
  <2> DEFINE t == Append(s, RESEND)
             j == Len(s) + 1
  <2>1. DOMAIN t = 1..j /\ t[j] = RESEND /\ \A i \in 1..Len(s) : t[i] = s[i]
    OBVIOUS
  <2>2. j \in DOMAIN t /\ \A i \in DOMAIN t \ {j} : t[i] = KeyByte
    BY <1>3, <2>1 DEF AllKeys
  <2> HIDE DEF t, j
  <2>3. OneResend(t)
    BY <2>1, <2>2 DEF OneResend
  <2> QED
    BY <2>3 DEF t
<1>4. ASSUME NEW s \in Seq(DevBytes), AllKeys(s), s # <<>>
      PROVE  Head(s) = KeyByte /\ AllKeys(Tail(s))
  BY <1>4 DEF AllKeys
<1> QED
  BY <1>1, <1>2, <1>3, <1>4

LEMMA Refusal ==
  \A s \in Seq(DevBytes) : OneResend(s) =>
    /\ OneResend(Append(s, KeyByte))
    /\ Head(s) = KeyByte \/ (Head(s) = RESEND /\ AllKeys(Tail(s)))
BY DEF AllKeys, OneResend, DevBytes, KeyByte, RESEND

LEMMA Reply ==
  /\ Acked(<<ACK, RESET_OK>>)
  /\ \A s \in Seq(DevBytes) : Acked(s) =>
       Acked(Append(s, KeyByte)) /\ Head(s) = ACK /\ Passed(Tail(s))
  /\ \A s \in Seq(DevBytes) : Passed(s) =>
       Passed(Append(s, KeyByte)) /\ Head(s) = RESET_OK /\ AllKeys(Tail(s))
BY DEF AllKeys, Acked, Passed, DevBytes

-----------------------------------------------------------------------------
(* The accesses of ps2_init                                                *)

\* A wait that does not time out ends with the buffer ready.
LEMMA Access ==
  ASSUME PlaceInv, KmainPs2, Undisturbed'
  PROVE  /\ Undisturbed /\ pc = "ps2_init" /\ step \in 1..EnableAt+4
         /\ UNCHANGED <<ccb, arg, port1, toDev, fromDev, bios, early>>
         /\ Script[step].do \in {"command", "data"} =>
              /\ ibuf = NoCommand /\ ibuf' = [do |-> Script[step].do, byte |-> Script[step].byte]
              /\ step' = step + 1 /\ UNCHANGED <<obuf, config, tested>>
         /\ Script[step].do = "flush" =>
              step' = step + 1 /\ obuf' = NoByte /\ UNCHANGED <<ibuf, config, tested>>
         /\ Script[step].do = "read_config" =>
              /\ obuf # NoByte /\ config' = obuf /\ obuf' = NoByte
              /\ step' = step + 1 /\ UNCHANGED <<ibuf, tested>>
         /\ Script[step].do = "write_config" =>
              /\ ibuf = NoCommand /\ ibuf' = Data(Patched(config))
              /\ step' = step + 1 /\ UNCHANGED <<obuf, config, tested>>
         /\ Script[step].do = "read_test" =>
              /\ obuf # NoByte /\ tested' = obuf /\ obuf' = NoByte /\ UNCHANGED <<ibuf, config>>
              /\ step' = IF obuf = CONTROLLER_TEST_OK THEN step + 1 ELSE Finished
         /\ Script[step].do = "read_reset" =>
              /\ obuf # NoByte /\ obuf' = NoByte /\ UNCHANGED <<ibuf, config, tested>>
              /\ step' = IF obuf = RESEND THEN step - 1
                         ELSE IF obuf = ACK THEN step + 1 ELSE After("install")
         /\ Script[step].do = "read_bat" =>
              /\ obuf # NoByte /\ obuf' = NoByte /\ UNCHANGED <<ibuf, config, tested>>
              /\ step' = step + 1
         /\ Script[step].do = "install" =>
              /\ Install /\ step' = step + 1 /\ UNCHANGED <<ibuf, obuf, config, tested>>
<1>1. pc = "ps2_init" /\ step \in 1..EnableAt+4 /\ step < Finished /\ ps2_init
  BY ScriptSteps DEF PlaceInv, KmainPs2
<1>2. timeouts' = 0 /\ timeouts \in Nat /\ MaxTimeouts \in Nat \ {0} /\ timeouts <= MaxTimeouts
  BY TimeoutsAssumption DEF Undisturbed, PlaceInv
<1>3. CASE WriteByte
  <2>1. ibuf = NoCommand /\ timeouts = 0
    BY <1>2, <1>3 DEF WriteByte, Write, Waited
  <2> QED
    BY <1>1, <1>3, <2>1 DEF WriteByte, Doing, Write, ctrlVars, devVars, Undisturbed
<1>4. CASE Flush
  <2>1. timeouts = 0
    BY <1>2, <1>4 DEF Flush, Read, Waited
  <2> QED
    BY <1>1, <1>4, <2>1 DEF Flush, Doing, Read, ctrlVars, devVars, Undisturbed
<1>5. CASE ReadConfig
  <2>1. obuf # NoByte /\ timeouts = 0
    BY <1>2, <1>5 DEF ReadConfig, Read, Waited
  <2> QED
    BY <1>1, <1>5, <2>1 DEF ReadConfig, Doing, Read, Input, ctrlVars, devVars, Undisturbed
<1>6. CASE WriteConfig
  <2>1. ibuf = NoCommand /\ timeouts = 0
    BY <1>2, <1>6 DEF WriteConfig, Write, Waited
  <2> QED
    BY <1>1, <1>6, <2>1 DEF WriteConfig, Doing, Write, Data, ctrlVars, devVars, Undisturbed
<1>7. CASE ReadTest
  <2>1. obuf # NoByte /\ timeouts = 0
    BY <1>2, <1>7 DEF ReadTest, Read, Waited
  <2> QED
    BY <1>1, <1>7, <2>1 DEF ReadTest, Doing, Read, Input, ctrlVars, devVars, Undisturbed
<1>8. CASE ReadReset
  <2>1. obuf # NoByte /\ timeouts = 0
    BY <1>2, <1>8 DEF ReadReset, Read, Waited
  <2> QED
    BY <1>1, <1>8, <2>1 DEF ReadReset, Doing, Read, Input, ctrlVars, devVars, Undisturbed
<1>9. CASE ReadBat
  <2>1. obuf # NoByte /\ timeouts = 0
    BY <1>2, <1>9 DEF ReadBat, Read, Waited
  <2> QED
    BY <1>1, <1>9, <2>1 DEF ReadBat, Doing, Read, Input, ctrlVars, devVars, Undisturbed
<1>10. CASE Install
  BY <1>1, <1>2, <1>10 DEF Install, Doing, bufVars, ctrlVars, devVars, histVars,
                           Undisturbed
<1> QED
  BY <1>1, <1>3, <1>4, <1>5, <1>6, <1>7, <1>8, <1>9, <1>10 DEF ps2_init

LEMMA StillKept == UNCHANGED <<toDev, fromDev>> => (Still' <=> Still)
BY DEF Still, AllKeys

\* What an access does to the controller
LEMMA AccessConfig ==
  ASSUME PlaceInv, ConfigAt, KmainPs2, Undisturbed'
  PROVE  ConfigAt'
<1>1. /\ step \in 1..EnableAt+4 /\ UNCHANGED <<ccb, arg, port1, bios>>
      /\ EnableAt \in Nat /\ EnableAt >= 10 /\ (Still' <=> Still)
  BY Access, ScriptSteps, StillKept
<1>2. CASE step = 1
  <2>1. ibuf' = Command(COMMAND_PORT1_DISABLE) /\ step' = 2
    BY <1>2, Access, ScriptSteps DEF Command
  <2> QED
    BY <1>1, <1>2, <2>1 DEF ConfigAt
<1>3. CASE step = 2
  <2>1. ibuf = NoCommand /\ ibuf' = Command(COMMAND_PORT2_DISABLE) /\ step' = 3
    BY <1>3, Access, ScriptSteps DEF Command
  <2>2. port1 = FALSE
    BY <1>3, <2>1 DEF ConfigAt, Command, NoCommand, Do
  <2> QED
    BY <1>1, <1>3, <2>1, <2>2 DEF ConfigAt
<1>4. CASE step = 3
  <2>1. obuf' = NoByte /\ step' = 4 /\ ibuf' = ibuf
    BY <1>4, Access, ScriptSteps DEF Do
  <2> QED
    BY <1>1, <1>4, <2>1 DEF ConfigAt
<1>5. CASE step = 4
  <2>1. ibuf = NoCommand /\ ibuf' = Command(COMMAND_GET_CONFIG) /\ step' = 5 /\ obuf' = obuf
    BY <1>5, Access, ScriptSteps DEF Command
  <2> QED
    BY <1>1, <1>5, <2>1 DEF ConfigAt
<1>6. CASE step = 5
  <2>1. obuf # NoByte /\ config' = obuf /\ obuf' = NoByte /\ step' = 6 /\ ibuf' = ibuf
    BY <1>6, Access, ScriptSteps DEF Do
  <2> QED
    BY <1>1, <1>6, <2>1 DEF ConfigAt
<1>7. CASE step = 6
  <2>1. ibuf' = Command(COMMAND_SET_CONFIG) /\ step' = 7 /\ obuf' = obuf /\ config' = config
    BY <1>7, Access, ScriptSteps DEF Command
  <2> QED
    BY <1>1, <1>7, <2>1 DEF ConfigAt
<1>8. CASE step = 7
  <2>1. ibuf = NoCommand /\ ibuf' = Data(Patched(config)) /\ step' = 8 /\ obuf' = obuf
    BY <1>8, Access, ScriptSteps DEF Do
  <2>2. config = bios /\ arg = COMMAND_SET_CONFIG
    BY <1>8, <2>1 DEF ConfigAt, Command, NoCommand, Do
  <2> QED
    BY <1>1, <1>8, <2>1, <2>2 DEF ConfigAt
<1>9. CASE step = 8
  <2>1. ibuf = NoCommand /\ ibuf' = Command(COMMAND_TEST) /\ step' = 9 /\ obuf' = obuf
    BY <1>9, Access, ScriptSteps DEF Command
  <2>2. arg = 0 /\ ccb = Patched(bios)
    BY <1>9, <2>1 DEF ConfigAt, Data, NoCommand, Do
  <2> QED
    BY <1>1, <1>9, <2>1, <2>2 DEF ConfigAt
<1>10. CASE step = 9
  <2>1. obuf # NoByte /\ obuf' = NoByte /\ step' \in {10, EnableAt + 5} /\ ibuf' = ibuf
    BY <1>10, Access, ScriptSteps DEF Do
  <2>2. ibuf = NoCommand
    BY <1>10, <2>1 DEF ConfigAt
  <2>3. CASE step' = 10
    BY <1>1, <1>10, <2>1, <2>2, <2>3 DEF ConfigAt
  <2>4. CASE step' = EnableAt + 5
    BY <1>1, <1>10, <2>1, <2>2, <2>4 DEF ConfigAt
  <2> QED
    BY <2>1, <2>3, <2>4
<1>11. CASE step \in 10..EnableAt-1
  <2>1. ibuf = NoCommand /\ ibuf' = [do |-> Script[step].do, byte |-> Script[step].byte]
        /\ step' = step + 1 /\ obuf' = obuf
    BY <1>11, Access, ScriptSteps
  <2>2. NoCommand.do = "none"
    BY DEF NoCommand, Do
  <2>3. CASE step % 2 = 0
    <3>1. step' % 2 = 1 /\ ibuf'.do = "command" /\ ibuf'.byte \in RamCommands /\ arg = 0
      BY <1>11, <2>1, <2>2, <2>3, ScriptSteps DEF ConfigAt
    <3> QED
      BY <1>1, <1>11, <2>1, <3>1 DEF ConfigAt
  <2>4. CASE step % 2 # 0
    <3>1. step % 2 = 1 /\ step' % 2 = 0
      BY <1>11, <2>1, <2>4
    <3>2. ibuf'.do = "data" /\ arg \in RamCommands
      BY <1>11, <2>1, <2>2, <3>1, ScriptSteps DEF ConfigAt
    <3> QED
      BY <1>1, <1>11, <2>1, <3>1, <3>2 DEF ConfigAt
  <2> QED
    BY <2>3, <2>4
<1>12. CASE step = EnableAt
  <2>1. ibuf = NoCommand /\ ibuf' = Command(COMMAND_PORT1_ENABLE) /\ step' = EnableAt + 1
    BY <1>12, Access, ScriptSteps DEF Command
  <2>2. arg = 0
    BY <1>12, <2>1, ScriptSteps DEF ConfigAt, NoCommand, Do
  <2> QED
    BY <1>1, <1>12, <2>1, <2>2 DEF ConfigAt
<1>13. CASE step = EnableAt + 1
  <2>1. ibuf' = Data(RESET) /\ step' = EnableAt + 2
    BY <1>13, Access, ScriptSteps DEF Data
  <2> QED
    BY <1>1, <1>13, <2>1 DEF ConfigAt
<1>14. CASE step \in EnableAt+2..EnableAt+4
  <2>1. step = EnableAt + 2 \/ step = EnableAt + 3 \/ step = EnableAt + 4
    BY <1>1, <1>14
  <2>2. ibuf' = ibuf /\ step' \in EnableAt+1..EnableAt+5
    BY <1>1, <2>1, Access, ScriptSteps DEF Do
  <2>3. step > EnableAt /\ step >= 9 /\ step' \in Int /\ step' > EnableAt /\ step' >= 11
    BY <1>1, <1>14, <2>2
  <2>4. arg = 0 /\ ccb = Patched(bios)
        /\ ibuf \in {NoCommand, Command(COMMAND_PORT1_ENABLE), Data(RESET)}
    BY <2>3 DEF ConfigAt
  <2>5. /\ arg' = 0 /\ ccb' = Patched(bios')
        /\ ibuf' \in {NoCommand, Command(COMMAND_PORT1_ENABLE), Data(RESET)}
    BY <1>1, <2>2, <2>4
  <2>6. /\ ~(step' <= EnableAt) /\ step' \notin 3..EnableAt /\ step' \notin 1..7
        /\ step' \notin (1..6) \union {9} /\ step' \notin {1, 2, 5, 6, 7, 8, 9}
        /\ step' \notin 3..4 /\ step' \notin {4, 6, 7, 8} \union 10..EnableAt
        /\ step' \notin 6..7 /\ step' \notin 10..EnableAt
    BY <1>1, <2>3
  <2> QED
    BY <2>5, <2>6 DEF ConfigAt
<1> QED
  BY <1>1, <1>2, <1>3, <1>4, <1>5, <1>6, <1>7, <1>8, <1>9, <1>10, <1>11, <1>12, <1>13, <1>14

LEMMA Installed == Install => HandlerOf(KBD_IRQ)' = "kbd_int_handler"
BY DEF Install, irq_set_handler, HandlerOf

\* What an access does to the keyboard and its answer
LEMMA AccessAnswer ==
  ASSUME PlaceInv, ConfigAt, Answering => AnswerAt, KmainPs2, Answering'
  PROVE  AnswerAt'
<1>1. /\ step \in 1..EnableAt+4 /\ UNCHANGED <<arg, port1, toDev, fromDev>>
      /\ EnableAt \in Nat /\ EnableAt >= 10 /\ (Still' <=> Still) /\ Finished = EnableAt + 5
  BY Access, ScriptSteps, StillKept DEF Answering
<1>2. AnswerAt
  BY Access, <1>1 DEF Answering
<1>3. CASE step < EnableAt
  <2>1. step' \in 1..EnableAt
    <3>1. CASE step = 9
      BY <1>1, <3>1, Access, ScriptSteps DEF Do, Answering
    <3>2. CASE step \in 1..8
      BY <1>1, <3>2, Access, ScriptSteps DEF Command, Do, Answering
    <3>3. CASE step \in 10..EnableAt-1
      BY <1>1, <3>3, Access, ScriptSteps DEF Answering
    <3> QED
      BY <1>1, <1>3, <3>1, <3>2, <3>3
  <2> QED
    BY <1>1, <2>1 DEF AnswerAt
<1>4. CASE step = EnableAt
  <2>1. ibuf' = Command(COMMAND_PORT1_ENABLE) /\ step' = EnableAt + 1 /\ obuf' = obuf
    BY <1>4, Access, ScriptSteps DEF Command, Answering
  <2>2. obuf = NoByte /\ port1 = FALSE /\ Still
    BY <1>1, <1>4 DEF ConfigAt
  <2> QED
    BY <1>1, <2>1, <2>2 DEF AnswerAt
<1>5. CASE step = EnableAt + 1
  <2>1. ibuf = NoCommand /\ ibuf' = Data(RESET) /\ step' = EnableAt + 2 /\ obuf' = obuf
    BY <1>5, Access, ScriptSteps DEF Data, Answering
  <2>2. obuf = NoByte /\ port1 = TRUE /\ Still
    BY <1>2, <1>5, <2>1 DEF AnswerAt, Command, NoCommand, Do
  <2> QED
    BY <1>1, <2>1, <2>2 DEF AnswerAt
<1>6. CASE step = EnableAt + 2
  <2>1. /\ obuf # NoByte /\ obuf' = NoByte /\ ibuf' = ibuf
        /\ step' = IF obuf = RESEND THEN step - 1
                   ELSE IF obuf = ACK THEN step + 1 ELSE EnableAt + 4
    BY <1>6, Access, ScriptSteps DEF Do, Answering
  <2>2. /\ ibuf = NoCommand /\ port1 = TRUE /\ toDev = <<>>
        /\ (obuf = RESEND /\ AllKeys(fromDev)) \/ (obuf = ACK /\ Passed(fromDev))
    BY <1>1, <1>2, <1>6, <2>1 DEF AnswerAt
  <2>3. CASE obuf = RESEND /\ AllKeys(fromDev)
    <3>1. step' = EnableAt + 1 /\ Still
      BY <1>1, <1>6, <2>1, <2>2, <2>3 DEF Still
    <3> QED
      BY <1>1, <2>1, <2>2, <3>1 DEF AnswerAt
  <2>4. CASE obuf = ACK /\ Passed(fromDev)
    <3>1. step' = EnableAt + 3
      BY <1>1, <1>6, <2>1, <2>4 DEF ACK, RESEND
    <3> QED
      BY <1>1, <2>1, <2>2, <2>4, <3>1 DEF AnswerAt
  <2> QED
    BY <2>2, <2>3, <2>4
<1>7. CASE step = EnableAt + 3
  <2>1. obuf # NoByte /\ obuf' = NoByte /\ ibuf' = ibuf /\ step' = EnableAt + 4
    BY <1>1, <1>7, Access, ScriptSteps DEF Do, Answering
  <2>2. ibuf = NoCommand /\ port1 = TRUE /\ Still
    BY <1>1, <1>2, <1>7, <2>1 DEF AnswerAt, Still
  <2> QED
    BY <1>1, <2>1, <2>2 DEF AnswerAt
<1>8. CASE step = EnableAt + 4
  <2>1. Install /\ ibuf' = ibuf /\ obuf' = obuf /\ step' = EnableAt + 5
    BY <1>1, <1>8, Access, ScriptSteps DEF Do, Answering
  <2>2. ibuf = NoCommand /\ port1 = TRUE /\ Still /\ obuf = NoByte
    BY <1>1, <1>2, <1>8 DEF AnswerAt
  <2>3. HandlerOf(KBD_IRQ)' = "kbd_int_handler"
    BY <2>1, Installed
  <2> QED
    BY <1>1, <2>1, <2>2, <2>3 DEF AnswerAt
<1> QED
  BY <1>1, <1>3, <1>4, <1>5, <1>6, <1>7, <1>8

-----------------------------------------------------------------------------
(* The controller's own steps                                              *)

\* What waits in the input buffer, and when
Waiting(i, at) ==
  \/ i = NoCommand
  \/ i = Command(COMMAND_PORT1_DISABLE) /\ at = 2
  \/ i = Command(COMMAND_PORT2_DISABLE) /\ at \in 3..4
  \/ i = Command(COMMAND_GET_CONFIG) /\ at = 5
  \/ i = Command(COMMAND_SET_CONFIG) /\ at = 7
  \/ i = Data(Patched(bios)) /\ at = 8
  \/ i = Command(COMMAND_TEST) /\ at = 9
  \/ i.do = "data" /\ at \in 10..EnableAt /\ at % 2 = 0
  \/ i.do = "command" /\ i.byte \in RamCommands /\ at \in 10..EnableAt /\ at % 2 = 1
  \/ i \in {Command(COMMAND_PORT1_ENABLE), Data(RESET)} /\ at > EnableAt

LEMMA InputBuffer ==
  ASSUME PlaceInv, ConfigAt
  PROVE  step \in Nat /\ EnableAt \in Nat /\ EnableAt >= 10 /\ Waiting(ibuf, step)
<1>1. step \in Nat /\ step >= 1 /\ EnableAt \in Nat /\ EnableAt >= 10
  BY ScriptSteps DEF PlaceInv
<1>2. CASE step \in 1..9
  BY <1>1, <1>2 DEF ConfigAt, Waiting
<1>3. CASE step \in 10..EnableAt
  <2>1. step % 2 = 0 \/ step % 2 = 1
    BY <1>1
  <2> QED
    BY <1>1, <1>3, <2>1 DEF ConfigAt, Waiting
<1>4. CASE step > EnableAt
  BY <1>1, <1>4 DEF ConfigAt, Waiting
<1> QED
  BY <1>1, <1>2, <1>3, <1>4

LEMMA PortsConfig ==
  ASSUME PlaceInv, ConfigAt, CtrlPorts
  PROVE  ConfigAt'
<1>1. /\ ibuf' = NoCommand /\ UNCHANGED <<step, config, obuf, ccb, arg, bios>>
      /\ EnableAt \in Nat /\ EnableAt >= 10 /\ (Still' <=> Still) /\ step \in Nat
  BY StillKept, InputBuffer DEF CtrlPorts, CtrlTakes, initVars, devVars
<1>2. ibuf.byte = 167 => port1' = port1
  BY DEF CtrlPorts, COMMAND_PORT2_DISABLE
<1>3. ASSUME ibuf.byte = 173  PROVE port1' = FALSE
  <2>1. ~(ibuf.byte = 167) /\ ~(ibuf.byte = 174)
    BY <1>3
  <2>2. port1' = IF ibuf.byte = 167 THEN port1 ELSE ibuf.byte = 174
    BY DEF CtrlPorts, COMMAND_PORT2_DISABLE, COMMAND_PORT1_ENABLE
  <2>3. port1' = (ibuf.byte = 174)
    BY <2>1, <2>2, Zenon
  <2> QED
    BY <2>1, <2>3, Zenon
<1>4. \/ ibuf.byte = 173 /\ step = 2
      \/ ibuf.byte = 167 /\ step \in 3..4
      \/ step > EnableAt
  BY InputBuffer DEF CtrlPorts, Waiting, NoCommand, Do, Command, Data, RamCommands,
    COMMAND_GET_CONFIG, COMMAND_SET_CONFIG, COMMAND_TEST, COMMAND_PORT1_DISABLE,
    COMMAND_PORT2_DISABLE, COMMAND_PORT1_ENABLE
<1>5. CASE ibuf.byte = 173 /\ step = 2
  BY <1>1, <1>3, <1>5 DEF ConfigAt
<1>6. CASE ibuf.byte = 167 /\ step \in 3..4
  BY <1>1, <1>2, <1>6 DEF ConfigAt
<1>7. CASE step > EnableAt
  BY <1>1, <1>7 DEF ConfigAt
<1> QED
  BY <1>4, <1>5, <1>6, <1>7

LEMMA GetConfig ==
  ASSUME PlaceInv, ConfigAt, CtrlGetConfig
  PROVE  ConfigAt' /\ step <= EnableAt
<1>1. /\ ibuf' = NoCommand /\ obuf' = ccb
      /\ UNCHANGED <<step, config, ccb, arg, port1, bios>> /\ (Still' <=> Still)
  BY StillKept DEF CtrlGetConfig, CtrlTakes, Output, initVars, ctrlVars, devVars
<1>2. step = 5 /\ EnableAt >= 10 /\ EnableAt \in Nat
  BY InputBuffer DEF CtrlGetConfig, Waiting, NoCommand, Do, Command, Data, RamCommands,
    COMMAND_GET_CONFIG, COMMAND_SET_CONFIG, COMMAND_TEST, COMMAND_PORT1_DISABLE,
    COMMAND_PORT2_DISABLE, COMMAND_PORT1_ENABLE
<1> QED
  BY <1>1, <1>2 DEF ConfigAt

LEMMA TestConfig ==
  ASSUME PlaceInv, ConfigAt, CtrlTest, ~reset'
  PROVE  ConfigAt' /\ step <= EnableAt
<1>1. /\ ibuf' = NoCommand
      /\ UNCHANGED <<step, config, ccb, arg, port1, bios>> /\ (Still' <=> Still)
  BY StillKept DEF CtrlTest, CtrlTakes, initVars, ctrlVars, devVars
<1>2. step = 9 /\ EnableAt >= 10 /\ EnableAt \in Nat
  BY InputBuffer DEF CtrlTest, Waiting, NoCommand, Do, Command, Data, RamCommands,
    COMMAND_GET_CONFIG, COMMAND_SET_CONFIG, COMMAND_TEST, COMMAND_PORT1_DISABLE,
    COMMAND_PORT2_DISABLE, COMMAND_PORT1_ENABLE
<1> QED
  BY <1>1, <1>2 DEF ConfigAt

LEMMA ArgumentConfig ==
  ASSUME PlaceInv, ConfigAt, CtrlArgument
  PROVE  ConfigAt' /\ step <= EnableAt
<1>1. /\ ibuf' = NoCommand /\ arg' = ibuf.byte
      /\ UNCHANGED <<step, config, obuf, ccb, port1, bios>> /\ (Still' <=> Still)
      /\ step \in Nat /\ EnableAt >= 10 /\ EnableAt \in Nat
  BY StillKept, InputBuffer DEF CtrlArgument, CtrlTakes, initVars, devVars
<1>2. \/ step = 7 /\ ibuf.byte = COMMAND_SET_CONFIG
      \/ step \in 10..EnableAt /\ step % 2 = 1 /\ ibuf.byte \in RamCommands
  BY InputBuffer DEF CtrlArgument, Waiting, NoCommand, Do, Command, Data, RamCommands,
    COMMAND_GET_CONFIG, COMMAND_SET_CONFIG, COMMAND_TEST, COMMAND_PORT1_DISABLE,
    COMMAND_PORT2_DISABLE, COMMAND_PORT1_ENABLE
<1>3. CASE step = 7 /\ ibuf.byte = COMMAND_SET_CONFIG
  BY <1>1, <1>3 DEF ConfigAt
<1>4. CASE step \in 10..EnableAt /\ step % 2 = 1 /\ ibuf.byte \in RamCommands
  BY <1>1, <1>4 DEF ConfigAt
<1> QED
  BY <1>2, <1>3, <1>4

LEMMA StoresConfig ==
  ASSUME PlaceInv, ConfigAt, CtrlStores
  PROVE  ConfigAt' /\ step <= EnableAt
<1>1. /\ ibuf' = NoCommand /\ arg' = 0 /\ arg # 0
      /\ ccb' = IF arg = COMMAND_SET_CONFIG THEN ibuf.byte ELSE ccb
      /\ UNCHANGED <<step, config, obuf, port1, bios>> /\ (Still' <=> Still)
      /\ step \in Nat /\ EnableAt >= 10 /\ EnableAt \in Nat
  BY StillKept, InputBuffer DEF CtrlStores, CtrlTakes, initVars, devVars
<1>2. ibuf.do = "data"
  BY DEF CtrlStores
<1>3. \/ step = 8 /\ ibuf = Data(Patched(bios))
      \/ step \in 10..EnableAt /\ step % 2 = 0
      \/ step > EnableAt
  BY <1>2, InputBuffer DEF Waiting, NoCommand, Do, Command
<1>4. CASE step = 8 /\ ibuf = Data(Patched(bios))
  <2>1. ibuf.byte = Patched(bios) /\ arg = COMMAND_SET_CONFIG
    BY <1>2, <1>4 DEF ConfigAt, Data, NoCommand, Do
  <2> QED
    BY <1>1, <1>4, <2>1 DEF ConfigAt
<1>5. CASE step \in 10..EnableAt /\ step % 2 = 0
  <2>1. arg \in RamCommands
    BY <1>1, <1>5 DEF ConfigAt
  <2>2. ccb' = ccb
    BY <1>1, <2>1 DEF RamCommands, COMMAND_SET_CONFIG
  <2> QED
    BY <1>1, <1>5, <2>2 DEF ConfigAt
<1>6. CASE step > EnableAt
  BY <1>1, <1>6 DEF ConfigAt
<1> QED
  BY <1>3, <1>4, <1>5, <1>6

LEMMA ForwardsConfig ==
  ASSUME PlaceInv, ConfigAt, CtrlForwards
  PROVE  ConfigAt' /\ step > EnableAt
<1>1. /\ ibuf' = NoCommand /\ arg = 0 /\ ibuf.do = "data"
      /\ UNCHANGED <<step, config, obuf, ccb, arg, port1, bios>>
      /\ step \in Nat /\ EnableAt >= 10 /\ EnableAt \in Nat
  BY InputBuffer DEF CtrlForwards, initVars, ctrlVars, histVars
<1>2. \/ step = 8 /\ ibuf = Data(Patched(bios))
      \/ step \in 10..EnableAt /\ step % 2 = 0
      \/ step > EnableAt
  BY <1>1, InputBuffer DEF Waiting, NoCommand, Do, Command
<1>3. step # 8
  BY <1>1, <1>2 DEF ConfigAt, NoCommand, Do, Data, COMMAND_SET_CONFIG
<1>4. ~(step \in 10..EnableAt /\ step % 2 = 0)
  BY <1>1 DEF ConfigAt, NoCommand, Do, RamCommands, COMMAND_SET_CONFIG
<1>5. step > EnableAt
  BY <1>2, <1>3, <1>4
<1> QED
  BY <1>1, <1>5 DEF ConfigAt

-----------------------------------------------------------------------------
(* The devices                                                             *)

LEMMA Port1Config ==
  ASSUME PlaceInv, ConfigAt, Port1Receives
  PROVE  ConfigAt'
<1>1. /\ UNCHANGED <<step, config, ibuf, ccb, arg, port1, bios>> /\ port1 # FALSE
      /\ step \in Nat /\ EnableAt >= 10 /\ EnableAt \in Nat
  BY InputBuffer DEF Port1Receives, initVars, ctrlVars
<1>2. Still => Still'
  BY KeysOnly DEF Port1Receives, Still, PlaceInv
<1>3. step \in 1..2 \/ step > EnableAt
  <2>1. step >= 1
    BY ScriptSteps DEF PlaceInv
  <2>2. step \notin 3..EnableAt
    BY <1>1, Zenon DEF ConfigAt
  <2> QED
    BY <1>1, <2>1, <2>2
<1>4. CASE step \in 1..2
  BY <1>1, <1>2, <1>4 DEF ConfigAt
<1>5. CASE step > EnableAt
  BY <1>1, <1>5 DEF ConfigAt
<1> QED
  BY <1>3, <1>4, <1>5

LEMMA Port2Config ==
  ASSUME PlaceInv, ConfigAt, Port2Receives, ~late'
  PROVE  ConfigAt' /\ step <= EnableAt
<1>1. /\ UNCHANGED <<step, config, ibuf, ccb, arg, port1, bios>> /\ (Still' <=> Still)
      /\ step \in Nat /\ EnableAt >= 10 /\ EnableAt \in Nat
  BY InputBuffer, StillKept DEF Port2Receives, initVars, ctrlVars
<1>2. step <= 3
  <2>1. ~(After("flush") < step)
    BY Zenon DEF Port2Receives
  <2> QED
    BY <1>1, <2>1, ScriptSteps
<1> QED
  BY <1>1, <1>2 DEF ConfigAt

LEMMA KeyConfig ==
  ASSUME PlaceInv, ConfigAt, KeyPressed
  PROVE  ConfigAt'
<1>1. UNCHANGED <<step, config, ibuf, obuf, ccb, arg, port1, bios>>
  BY DEF KeyPressed, initVars, bufVars, ctrlVars, histVars
<1>2. Still => Still'
  BY KeysOnly DEF KeyPressed, Still, PlaceInv
<1> QED
  BY <1>1, <1>2 DEF ConfigAt

LEMMA KeyboardConfig ==
  ASSUME PlaceInv, ConfigAt, Keyboard
  PROVE  ConfigAt' /\ step > EnableAt
<1>1. /\ UNCHANGED <<step, config, ibuf, obuf, ccb, arg, port1, bios>> /\ toDev # <<>>
      /\ step \in Nat /\ EnableAt >= 10 /\ EnableAt \in Nat
  BY InputBuffer DEF Keyboard, KeyboardResets, KeyboardRefuses, initVars, bufVars, ctrlVars, histVars
<1>2. step > EnableAt
  BY <1>1 DEF ConfigAt, Still
<1> QED
  BY <1>1, <1>2 DEF ConfigAt

-----------------------------------------------------------------------------
(* The reset of the keyboard and its answer                                *)

LEMMA PortsAnswer ==
  ASSUME PlaceInv, ConfigAt, AnswerAt, CtrlPorts
  PROVE  AnswerAt'
<1>1. /\ ibuf' = NoCommand /\ UNCHANGED <<step, obuf, toDev, fromDev, irq_handlers>>
      /\ EnableAt \in Nat /\ step \in Nat /\ (Still' <=> Still)
  BY StillKept, InputBuffer DEF CtrlPorts, CtrlTakes, initVars, devVars, intVars
<1>2. ASSUME ibuf = Command(COMMAND_PORT1_ENABLE)  PROVE port1' = TRUE
  <2>1. ~(ibuf.byte = 167) /\ ibuf.byte = 174
    BY <1>2 DEF Command, COMMAND_PORT1_ENABLE
  <2>2. port1' = IF ibuf.byte = 167 THEN port1 ELSE ibuf.byte = 174
    BY DEF CtrlPorts, COMMAND_PORT2_DISABLE, COMMAND_PORT1_ENABLE
  <2>3. port1' = (ibuf.byte = 174)
    BY <2>1, <2>2, Zenon
  <2> QED
    BY <2>1, <2>3, Zenon
<1>3. CASE step <= EnableAt
  BY <1>1, <1>3 DEF AnswerAt
<1>4. CASE step > EnableAt
  <2>1. ibuf = Command(COMMAND_PORT1_ENABLE)
    BY <1>4 DEF CtrlPorts, ConfigAt, NoCommand, Do, Data, Command
  <2>2. step = EnableAt + 1
    <3>1. ibuf # NoCommand /\ ibuf # Data(RESET)
      BY <2>1 DEF Command, NoCommand, Do, Data
    <3>2. step \in EnableAt+1..EnableAt+5
      BY <1>1, <1>4, ScriptSteps DEF PlaceInv
    <3>3. step # EnableAt + 2 /\ step # EnableAt + 3 /\ ~(step >= EnableAt + 4)
      BY <3>1 DEF AnswerAt
    <3> QED
      BY <1>1, <3>2, <3>3
  <2> QED
    BY <1>1, <1>2, <2>1, <2>2 DEF AnswerAt
<1> QED
  BY <1>1, <1>3, <1>4

LEMMA ForwardsAnswer ==
  ASSUME PlaceInv, ConfigAt, AnswerAt, CtrlForwards
  PROVE  AnswerAt'
<1>1. /\ ibuf' = NoCommand /\ UNCHANGED <<step, obuf, port1, fromDev>>
      /\ toDev' = Append(toDev, ibuf.byte) /\ ibuf.do = "data"
  BY DEF CtrlForwards, initVars, ctrlVars
<1>2. EnableAt \in Nat /\ step \in Int /\ step > EnableAt /\ step <= EnableAt + 5
  <2>1. step > EnableAt
    BY ForwardsConfig
  <2> QED
    BY <2>1, ScriptSteps DEF PlaceInv
<1>3. ibuf # NoCommand /\ ibuf # Command(COMMAND_PORT1_ENABLE)
  BY <1>1 DEF NoCommand, Do, Command
<1>4. step = EnableAt + 2
  BY <1>2, <1>3 DEF AnswerAt
<1>5. ibuf = Data(RESET) /\ obuf = NoByte /\ Still /\ port1 = TRUE
  BY <1>2, <1>3, <1>4 DEF AnswerAt
<1>6. toDev' = <<RESET>> /\ AllKeys(fromDev)
  BY <1>1, <1>5 DEF Still, Data
<1>7. /\ step' = EnableAt + 2 /\ port1' = TRUE /\ ibuf' = NoCommand
      /\ toDev' = <<RESET>> /\ obuf' = NoByte /\ AllKeys(fromDev')
  BY <1>1, <1>4, <1>5, <1>6
<1> QED
  BY <1>2, <1>7 DEF AnswerAt

\* A key that gets in between sets early.
LEMMA Port1Answer ==
  ASSUME PlaceInv, ConfigAt, AnswerAt, Port1Receives, ~early'
  PROVE  AnswerAt'
<1>1. /\ UNCHANGED <<step, ibuf, port1, toDev, irq_handlers>>
      /\ obuf = NoByte /\ obuf' = Head(fromDev) /\ fromDev' = Tail(fromDev)
      /\ fromDev # <<>> /\ fromDev \in Seq(DevBytes)
      /\ EnableAt \in Nat /\ EnableAt >= 10 /\ step \in Nat /\ step <= EnableAt + 5
  BY InputBuffer, ScriptSteps DEF Port1Receives, Output, initVars, ctrlVars, PlaceInv
<1>2. ~(Head(fromDev) = KeyByte /\ 3 < step /\ step <= EnableAt + 4)
  <2>1. ~(Head(fromDev) = KeyByte /\ After("flush") < step /\ step <= After("install"))
    BY Zenon DEF Port1Receives
  <2> QED
    BY <2>1, ScriptSteps
<1>3. CASE step <= EnableAt
  BY <1>1, <1>3 DEF AnswerAt
<1>4. CASE step = EnableAt + 1 \/ step = EnableAt + 4
  <2>1. AllKeys(fromDev)
    BY <1>1, <1>4 DEF AnswerAt, Still
  <2>2. Head(fromDev) = KeyByte
    BY <1>1, <2>1, KeysOnly
  <2> QED
    BY <1>1, <1>2, <1>4, <2>2
<1>5. CASE step = EnableAt + 2
  <2>1. ~AllKeys(fromDev)
    <3>1. Head(fromDev) # KeyByte
      BY <1>1, <1>2, <1>5
    <3> QED
      BY <1>1, <3>1, KeysOnly
  <2>2. /\ ibuf = NoCommand /\ toDev = <<>> /\ port1 = TRUE
        /\ OneResend(fromDev) \/ Acked(fromDev)
    BY <1>1, <1>5, <2>1 DEF AnswerAt, Still, NoByte, RESEND, ACK
  <2>3. \/ Head(fromDev) = RESEND /\ AllKeys(Tail(fromDev))
        \/ Head(fromDev) = ACK /\ Passed(Tail(fromDev))
    BY <1>1, <1>2, <1>5, <2>2, Refusal, Reply
  <2> QED
    BY <1>1, <1>5, <2>2, <2>3 DEF AnswerAt
<1>6. CASE step = EnableAt + 3
  <2>1. ibuf = NoCommand /\ toDev = <<>> /\ port1 = TRUE /\ Passed(fromDev)
    BY <1>1, <1>6 DEF AnswerAt, NoByte, RESET_OK
  <2>2. Head(fromDev) = RESET_OK /\ AllKeys(Tail(fromDev))
    BY <1>1, <2>1, Reply
  <2> QED
    BY <1>1, <1>6, <2>1, <2>2 DEF AnswerAt
<1>7. CASE step = EnableAt + 5
  <2>1. /\ ibuf = NoCommand /\ toDev = <<>> /\ port1 = TRUE /\ AllKeys(fromDev)
        /\ HandlerOf(KBD_IRQ) = "kbd_int_handler"
    BY <1>1, <1>7 DEF AnswerAt, Still
  <2>2. Head(fromDev) = KeyByte /\ AllKeys(Tail(fromDev))
    BY <1>1, <2>1, KeysOnly
  <2>3. Still' /\ HandlerOf(KBD_IRQ)' = "kbd_int_handler"
    BY <1>1, <2>1, <2>2 DEF Still, HandlerOf
  <2> QED
    BY <1>1, <1>7, <2>1, <2>2, <2>3 DEF AnswerAt
<1> QED
  BY <1>1, <1>3, <1>4, <1>5, <1>6, <1>7

LEMMA KeyAnswer ==
  ASSUME PlaceInv, ConfigAt, AnswerAt, KeyPressed
  PROVE  AnswerAt'
<1>1. /\ UNCHANGED <<step, ibuf, obuf, port1, toDev, irq_handlers>>
      /\ fromDev' = Append(fromDev, KeyByte) /\ fromDev \in Seq(DevBytes)
  BY DEF KeyPressed, initVars, bufVars, ctrlVars, intVars, PlaceInv
<1>2. /\ AllKeys(fromDev) => AllKeys(fromDev')
      /\ OneResend(fromDev) => OneResend(fromDev')
      /\ Acked(fromDev) => Acked(fromDev')
      /\ Passed(fromDev) => Passed(fromDev')
  BY <1>1, KeysOnly, Refusal, Reply
<1>3. Still => Still'
  BY <1>1, <1>2 DEF Still
<1>4. HandlerOf(KBD_IRQ)' = HandlerOf(KBD_IRQ)
  BY <1>1 DEF HandlerOf
<1> QED
  BY <1>1, <1>2, <1>3, <1>4 DEF AnswerAt

LEMMA KeyboardAnswer ==
  ASSUME PlaceInv, ConfigAt, AnswerAt, Keyboard
  PROVE  AnswerAt'
<1>1. /\ UNCHANGED <<step, ibuf, obuf, port1>> /\ toDev # <<>> /\ toDev' = Tail(toDev)
      /\ fromDev' = <<ACK, RESET_OK>> \/ fromDev' = Append(fromDev, RESEND)
  BY DEF Keyboard, KeyboardResets, KeyboardRefuses, initVars, bufVars, ctrlVars
<1>2. EnableAt \in Nat /\ step \in Int /\ step > EnableAt /\ step <= EnableAt + 5
  <2>1. step > EnableAt
    BY KeyboardConfig
  <2> QED
    BY <2>1, ScriptSteps DEF PlaceInv
<1>3. step = EnableAt + 2
  BY <1>1, <1>2 DEF AnswerAt, Still
<1>4. ibuf = NoCommand /\ toDev = <<RESET>> /\ obuf = NoByte /\ AllKeys(fromDev) /\ port1 = TRUE
  BY <1>1, <1>2, <1>3 DEF AnswerAt, Still
<1>5. toDev' = <<>>
  BY <1>1, <1>4
<1>6. Acked(fromDev') \/ OneResend(fromDev')
  BY <1>1, <1>4, KeysOnly, Reply DEF PlaceInv
<1> QED
  BY <1>1, <1>2, <1>3, <1>4, <1>5, <1>6 DEF AnswerAt

-----------------------------------------------------------------------------
(* The whole boot                                                          *)

\* One access leads to another, or to the end of ps2_init.
LEMMA Ps2Place ==
  ASSUME PlaceInv, KmainPs2
  PROVE  step' \in 1..Finished /\ timeouts' \in 0..MaxTimeouts /\ fromDev' = fromDev
<1>1. ps2_init /\ step \in 1..EnableAt+4 /\ EnableAt \in Nat /\ Finished = EnableAt + 5
  BY ScriptSteps DEF KmainPs2, PlaceInv
<1>2. fromDev' = fromDev
  BY <1>1 DEF ps2_init, WriteByte, Flush, ReadConfig, WriteConfig, ReadTest, ReadReset, ReadBat,
              Install, devVars
<1>3. step' \in 1..Finished
  <2>1. ReadReset => step >= 2
    BY <1>1, ScriptSteps DEF ReadReset, Doing, Command
  <2>2. \/ step' = step + 1 \/ step' = Finished \/ step' = After("install")
        \/ ReadReset /\ step' = step - 1
    BY <1>1 DEF ps2_init, WriteByte, Flush, ReadConfig, WriteConfig, ReadTest, ReadReset, ReadBat,
       Install
  <2>3. After("install") = EnableAt + 4
    BY ScriptSteps
  <2> QED
    BY <1>1, <2>1, <2>2, <2>3
<1>4. timeouts' \in 0..MaxTimeouts
  <2>1. timeouts \in 0..MaxTimeouts /\ MaxTimeouts \in Nat
    BY TimeoutsAssumption DEF PlaceInv
  <2>2. CASE timeouts' = timeouts
    BY <2>1, <2>2
  <2>3. CASE timeouts' = timeouts + 1 /\ timeouts # MaxTimeouts
    BY <2>1, <2>3
  <2>4. timeouts' = timeouts \/ (timeouts' = timeouts + 1 /\ timeouts # MaxTimeouts)
    BY <1>1 DEF ps2_init, WriteByte, Flush, ReadConfig, WriteConfig, ReadTest,
       ReadReset, ReadBat, Install, Write, Read, Waited, histVars
  <2> QED
    BY <2>2, <2>3, <2>4
<1> QED
  BY <1>2, <1>3, <1>4

LEMMA KmainPlace ==
  ASSUME PlaceInv, Kmain
  PROVE  PlaceInv'
<1>1. frame = NoFrame /\ frame' = NoFrame
  BY DEF Kmain, CheckMagic, KmainIdt, KmainMmu, KmainPit, KmainPs2, KmainSti, Goto,
         KmainRuns, intVars, idt_init, irq_set_handler, pit_init, sti, ps2_init, WriteByte,
         Flush, ReadConfig, WriteConfig, ReadTest, ReadReset, ReadBat, Install
<1>2. Finished \in Nat /\ Finished > 1
  BY ScriptSteps
<1>3. CASE CheckMagic \/ KmainIdt \/ KmainMmu \/ KmainPit
  <2>1. UNCHANGED <<step, timeouts, fromDev, iflag>>
    BY <1>3 DEF CheckMagic, KmainIdt, KmainMmu, KmainPit, ps2Vars, initVars, histVars, devVars,
                intVars, idt_init, pit_init, irq_set_handler
  <2>2. \/ pc = "magic" /\ pc' \in {"idt_init", "halted"}
        \/ pc = "idt_init" /\ pc' = "mmu_init"
        \/ pc = "mmu_init" /\ pc' = "pit_init"
        \/ pc = "pit_init" /\ pc' = "ps2_init"
    BY <1>3 DEF CheckMagic, KmainIdt, KmainMmu, KmainPit, Goto
  <2> QED
    BY <1>1, <1>2, <2>1, <2>2 DEF PlaceInv
<1>4. CASE KmainPs2
  <2>1. pc = "ps2_init" /\ pc' = IF step' = Finished THEN "sti" ELSE "ps2_init"
    BY <1>4 DEF KmainPs2, Goto
  <2>2. iflag' = iflag
    BY <1>4 DEF KmainPs2, ps2_init, WriteByte, Flush, ReadConfig, WriteConfig, ReadTest,
                ReadReset, ReadBat, Install, irq_set_handler, intVars
  <2>3. step' \in 1..Finished /\ timeouts' \in 0..MaxTimeouts /\ fromDev' = fromDev
    BY <1>4, Ps2Place
  <2> QED
    BY <1>1, <1>2, <2>1, <2>2, <2>3 DEF PlaceInv
<1>5. CASE KmainSti
  <2>1. pc = "sti" /\ pc' = "loop" /\ UNCHANGED <<step, timeouts, fromDev>>
    BY <1>5 DEF KmainSti, Goto, ps2Vars, initVars, histVars, devVars
  <2> QED
    BY <1>1, <2>1 DEF PlaceInv
<1> QED
  BY <1>3, <1>4, <1>5 DEF Kmain

LEMMA PlaceNext == PlaceInv /\ [Next]_vars => PlaceInv'
<1> SUFFICES ASSUME PlaceInv, [Next]_vars  PROVE PlaceInv'
  OBVIOUS
<1>1. CASE Kmain
  BY <1>1, KmainPlace
<1>2. CASE DeviceRaises \/ Interrupt \/ irq_handler
  <2>1. UNCHANGED <<step, timeouts, fromDev, pc>>
    BY <1>2 DEF DeviceRaises, Interrupt, irq_handler, IdleHandler, KbdHandler, IrqReturns,
      kbd_int_handler, Kernel, ps2Vars, initVars, histVars, devVars
  <2>2. iflag' = TRUE \/ frame' # NoFrame => iflag = TRUE \/ frame # NoFrame
    <3>1. CASE DeviceRaises
      BY <3>1 DEF DeviceRaises, Raise
    <3>2. CASE Interrupt
      BY <3>2 DEF Interrupt, Deliver, Spurious, CanDeliver, PlaceInv
    <3>3. CASE irq_handler
      BY <3>3 DEF irq_handler, IdleHandler, KbdHandler, IrqReturns, kbd_int_handler, HandlerDue,
        Return, NoFrame
    <3> QED
      BY <1>2, <3>1, <3>2, <3>3
  <2> QED
    BY <2>1, <2>2 DEF PlaceInv
<1>3. CASE PageFault
  <2>1. /\ frame = NoFrame /\ pc' = "halted" /\ iflag' = FALSE
        /\ UNCHANGED <<frame, step, timeouts, fromDev>>
    BY <1>3 DEF PageFault, KmainRuns, ps2Vars, initVars, histVars, devVars
  <2> QED
    BY <2>1 DEF PlaceInv
<1>4. CASE Hardware \/ User
  <2>1. UNCHANGED <<iflag, frame, pc, step, timeouts>>
    BY <1>4 DEF Hardware, User, Kernel, Controller, Keyboard, CtrlPorts, CtrlGetConfig,
                CtrlTest, CtrlArgument, CtrlStores, CtrlForwards, Port1Receives, KeyPressed,
                Port2Receives, KeyboardResets, KeyboardRefuses, Output, intVars, CtrlTakes,
                initVars, histVars
  <2>2. fromDev' \in Seq(DevBytes)
    <3>1. \/ fromDev' = fromDev \/ fromDev' = Append(fromDev, KeyByte)
          \/ fromDev' = Append(fromDev, RESEND) \/ fromDev' = <<ACK, RESET_OK>>
          \/ fromDev # <<>> /\ fromDev' = Tail(fromDev)
      BY <1>4 DEF Hardware, User, Controller, Keyboard, CtrlPorts, CtrlGetConfig,
                CtrlTest, CtrlArgument, CtrlStores, CtrlForwards, Port1Receives, KeyPressed,
                Port2Receives, KeyboardResets, KeyboardRefuses, CtrlTakes, devVars
    <3>2. fromDev \in Seq(DevBytes) /\ {KeyByte, ACK, RESEND, RESET_OK} \subseteq DevBytes
      BY DEF PlaceInv, DevBytes
    <3>3. /\ Append(fromDev, KeyByte) \in Seq(DevBytes) /\ Append(fromDev, RESEND) \in Seq(DevBytes)
          /\ fromDev # <<>> => Tail(fromDev) \in Seq(DevBytes)
          /\ <<ACK, RESET_OK>> \in Seq(DevBytes)
      BY <3>2
    <3> QED
      BY <3>1, <3>2, <3>3
  <2> QED
    BY <2>1, <2>2 DEF PlaceInv
<1>5. CASE UNCHANGED vars
  BY <1>5 DEF vars, intVars, ps2Vars, initVars, histVars, devVars, PlaceInv
<1> QED
  BY <1>1, <1>2, <1>3, <1>4, <1>5 DEF Next, Rest

\* The steps of the controller, the devices and the user leave ps2_init where it
\* is, and what disturbs it once disturbs it for good.
LEMMA OutsideKeeps ==
  ASSUME Hardware \/ User
  PROVE  /\ UNCHANGED <<step, pc, timeouts, tested>>
         /\ Undisturbed' => Undisturbed /\ ~late' /\ ~reset'
         /\ Answering' => Answering /\ ~early'
<1>1. UNCHANGED <<step, pc, timeouts, tested>>
  BY DEF Hardware, User, Kernel, Controller, Keyboard, CtrlPorts, CtrlGetConfig,
     CtrlTest, CtrlArgument, CtrlStores, CtrlForwards, Port1Receives, KeyPressed, Port2Receives,
     KeyboardResets, KeyboardRefuses, CtrlTakes, initVars, histVars
<1>2. (late => late') /\ (reset => reset') /\ (early => early')
  <2>1. CASE Port1Receives
    <3>1. late' = late /\ reset' = reset
      BY <2>1 DEF Port1Receives
    <3>2. early => early'
      BY <2>1, Zenon DEF Port1Receives
    <3> QED
      BY <3>1, <3>2
  <2>2. CASE Port2Receives
    <3>1. early' = early /\ reset' = reset
      BY <2>2 DEF Port2Receives
    <3>2. late => late'
      BY <2>2, Zenon DEF Port2Receives
    <3> QED
      BY <3>1, <3>2
  <2>3. CASE CtrlTest
    BY <2>3 DEF CtrlTest, CtrlTakes
  <2>4. CASE \/ CtrlPorts \/ CtrlGetConfig \/ CtrlArgument \/ CtrlStores \/ CtrlForwards
             \/ Keyboard \/ KeyPressed
    BY <2>4 DEF CtrlPorts, CtrlGetConfig, CtrlArgument, CtrlStores, CtrlForwards, Keyboard,
      KeyboardResets, KeyboardRefuses, KeyPressed, CtrlTakes, histVars
  <2> QED
    BY <2>1, <2>2, <2>3, <2>4 DEF Hardware, User, Controller
<1> QED
  BY <1>1, <1>2 DEF Undisturbed, Answering

LEMMA OutsideConfig ==
  ASSUME PlaceInv, ConfigAt, Hardware \/ User, Undisturbed'
  PROVE  ConfigAt'
<1>1. ~late' /\ ~reset'
  BY OutsideKeeps
<1> QED
  BY <1>1, PortsConfig, GetConfig, TestConfig, ArgumentConfig, StoresConfig, ForwardsConfig,
     Port1Config, Port2Config, KeyConfig, KeyboardConfig
     DEF Hardware, User, Controller

LEMMA OutsideAnswer ==
  ASSUME PlaceInv, ConfigAt, AnswerAt, Hardware \/ User, Answering'
  PROVE  AnswerAt'
<1>1. ~early' /\ ~late' /\ ~reset' /\ step' = step
  BY OutsideKeeps DEF Answering
<1>2. CASE CtrlGetConfig \/ CtrlTest \/ CtrlArgument \/ CtrlStores \/ Port2Receives
  <2>1. step <= EnableAt
    BY <1>1, <1>2, GetConfig, TestConfig, ArgumentConfig, StoresConfig, Port2Config
  <2>2. step \in Nat /\ EnableAt \in Nat
    BY InputBuffer
  <2> QED
    BY <1>1, <2>1, <2>2 DEF AnswerAt
<1>3. CASE CtrlPorts \/ CtrlForwards \/ Port1Receives \/ KeyPressed \/ Keyboard
  BY <1>1, <1>3, PortsAnswer, ForwardsAnswer, Port1Answer, KeyAnswer, KeyboardAnswer
<1> QED
  BY <1>2, <1>3 DEF Hardware, User, Controller

\* A step that changes nothing of the controller and the keyboard
LEMMA BootKept ==
  ASSUME UNCHANGED <<step, config, ibuf, obuf, ccb, arg, port1, toDev, fromDev, bios>>
  PROVE  /\ ConfigAt' <=> ConfigAt
         /\ irq_handlers' = irq_handlers => (AnswerAt' <=> AnswerAt)
<1>1. Still' <=> Still
  BY StillKept
<1>2. irq_handlers' = irq_handlers => HandlerOf(KBD_IRQ)' = HandlerOf(KBD_IRQ)
  BY DEF HandlerOf
<1>3. ConfigAt' <=> ConfigAt
  BY <1>1 DEF ConfigAt
<1>4. irq_handlers' = irq_handlers => (AnswerAt' <=> AnswerAt)
  BY <1>1, <1>2 DEF AnswerAt
<1> QED
  BY <1>3, <1>4

LEMMA BootNext == BootInv /\ [Next]_vars => BootInv'
<1> SUFFICES ASSUME BootInv, [Next]_vars
             PROVE  (Undisturbed' => ConfigAt') /\ (Answering' => AnswerAt')
  BY PlaceNext DEF BootInv
<1>1. PlaceInv /\ (Undisturbed => ConfigAt) /\ (Answering => AnswerAt)
  BY DEF BootInv
<1>2. CASE KmainPs2
  <2>1. Undisturbed' => Undisturbed
    BY <1>1, <1>2, Access
  <2>2. Answering' => Undisturbed'
    BY DEF Answering
  <2> QED
    BY <1>1, <1>2, <2>1, <2>2, AccessConfig, AccessAnswer
<1>3. CASE Hardware \/ User
  BY <1>1, <1>3, OutsideKeeps, OutsideConfig, OutsideAnswer DEF Answering
<1>4. CASE CheckMagic \/ KmainIdt \/ KmainMmu \/ KmainPit
  <2>1. /\ UNCHANGED <<step, config, ibuf, obuf, ccb, arg, port1, toDev, fromDev, bios>>
        /\ UNCHANGED <<timeouts, late, reset>>
    BY <1>4 DEF CheckMagic, KmainIdt, KmainMmu, KmainPit, ps2Vars, initVars, bufVars, ctrlVars,
                devVars, histVars
  <2>2. step = 1 /\ EnableAt \in Nat /\ EnableAt >= 10
    BY <1>1, <1>4, ScriptSteps DEF CheckMagic, KmainIdt, KmainMmu, KmainPit, Goto, PlaceInv
  <2>3. Undisturbed' => Undisturbed
    BY <2>1 DEF Undisturbed
  <2>4. AnswerAt'
    BY <2>1, <2>2 DEF AnswerAt
  <2> QED
    BY <1>1, <2>1, <2>3, <2>4, BootKept
<1>5. CASE KmainSti \/ PageFault
  <2>1. /\ UNCHANGED <<step, config, ibuf, obuf, ccb, arg, port1, toDev, fromDev, bios>>
        /\ UNCHANGED <<timeouts, late, reset>> /\ pc' \in {"loop", "halted"}
    BY <1>5 DEF KmainSti, PageFault, Goto, ps2Vars, initVars, bufVars, ctrlVars, devVars, histVars
  <2>2. ~Answering' /\ (Undisturbed' => Undisturbed)
    BY <2>1 DEF Answering, Undisturbed
  <2> QED
    BY <1>1, <2>1, <2>2, BootKept
<1>6. CASE DeviceRaises \/ Interrupt \/ IdleHandler \/ IrqReturns
  <2>1. /\ UNCHANGED <<step, config, ibuf, obuf, ccb, arg, port1, toDev, fromDev, bios>>
        /\ UNCHANGED <<timeouts, late, reset, early, tested, pc, irq_handlers>>
    BY <1>6 DEF DeviceRaises, Raise, Interrupt, Deliver, Spurious, IdleHandler, IrqReturns,
      HandlerDue, Return, Kernel, ps2Vars, initVars, bufVars, ctrlVars, devVars, histVars
  <2>2. (Answering' => Answering) /\ (Undisturbed' => Undisturbed)
    BY <2>1 DEF Answering, Undisturbed
  <2> QED
    BY <1>1, <2>1, <2>2, BootKept
<1>7. CASE KbdHandler
  <2>1. /\ UNCHANGED <<step, config, ibuf, ccb, arg, port1, toDev, fromDev, bios>>
        /\ UNCHANGED <<timeouts, late, reset, pc>>
    BY <1>7 DEF KbdHandler, kbd_int_handler, Kernel, initVars, ctrlVars, devVars, histVars
  <2>2. pc = "loop"
    BY <1>1, <1>7 DEF KbdHandler, kbd_int_handler, HandlerDue, PlaceInv, NoFrame
  <2>3. ~Answering' /\ (Undisturbed' => Undisturbed)
    BY <2>1, <2>2 DEF Answering, Undisturbed
  <2>4. step = EnableAt + 5 /\ EnableAt \in Nat /\ EnableAt >= 10
    BY <1>1, <2>2, ScriptSteps DEF PlaceInv
  <2>5. ConfigAt => ConfigAt'
    BY <2>1, <2>4 DEF ConfigAt
  <2> QED
    BY <1>1, <2>3, <2>5
<1>8. CASE UNCHANGED vars
  <2>1. /\ UNCHANGED <<step, config, ibuf, obuf, ccb, arg, port1, toDev, fromDev, bios>>
        /\ UNCHANGED <<timeouts, late, reset, early, tested, pc, irq_handlers>>
    BY <1>8 DEF vars, intVars, ps2Vars, initVars, bufVars, ctrlVars, devVars, histVars
  <2>2. (Answering' => Answering) /\ (Undisturbed' => Undisturbed)
    BY <2>1 DEF Answering, Undisturbed
  <2> QED
    BY <1>1, <2>1, <2>2, BootKept
<1> QED
  BY <1>2, <1>3, <1>4, <1>5, <1>6, <1>7, <1>8 DEF Next, Rest, Kmain, irq_handler

LEMMA BootInit == Init => BootInv
<1> SUFFICES ASSUME Init  PROVE BootInv
  OBVIOUS
<1>1. EnableAt \in Nat /\ EnableAt >= 10 /\ Finished = EnableAt + 5
  BY ScriptSteps
<1>2. PlaceInv
  BY <1>1, TimeoutsAssumption DEF Init, IntInit, Ps2InitState, PlaceInv
<1>3. ConfigAt
  BY <1>1, KeysOnly DEF Init, Ps2InitState, ConfigAt, Still
<1>4. AnswerAt
  BY <1>1 DEF Init, Ps2InitState, AnswerAt
<1> QED
  BY <1>2, <1>3, <1>4 DEF BootInv

LEMMA BootSafe == Spec => []BootInv
BY BootInit, BootNext, PTL DEF Spec

\* When interrupts are enabled the controller has the firmware's configuration
\* with the three bits of ps2_init changed, for every configuration byte, every
\* string and any number of keys at any moment.
THEOREM ConfigSafe == Spec => []ConfigRight
<1>1. BootInv => ConfigRight
  <2> SUFFICES ASSUME BootInv, pc \in {"sti", "loop"}, Undisturbed  PROVE ccb = Patched(bios)
    BY DEF ConfigRight
  <2>1. step = EnableAt + 5 /\ EnableAt \in Nat /\ EnableAt >= 10
    BY ScriptSteps DEF BootInv, PlaceInv
  <2>2. ConfigAt
    BY DEF BootInv
  <2> QED
    BY <2>1, <2>2 DEF ConfigAt
<1> QED
  BY <1>1, BootSafe, PTL

\* ps2_init leaves port 1 on, its handler installed, and no answer of the
\* keyboard on its way, however often the keyboard refused its reset.
THEOREM HandOverSafe == Spec => []HandsOver
<1>1. BootInv => HandsOver
  <2> SUFFICES ASSUME BootInv, pc = "sti", Undisturbed, ~early, tested = CONTROLLER_TEST_OK
               PROVE  /\ HandlerOf(KBD_IRQ) = "kbd_int_handler"
                      /\ port1 /\ ibuf = NoCommand /\ toDev = <<>>
                      /\ obuf \notin Answers /\ \A i \in DOMAIN fromDev : fromDev[i] \notin Answers
    BY DEF HandsOver
  <2>1. step = EnableAt + 5 /\ EnableAt \in Nat /\ EnableAt >= 10
    BY ScriptSteps DEF BootInv, PlaceInv
  <2>2. AnswerAt
    BY DEF BootInv, Answering
  <2>3. /\ HandlerOf(KBD_IRQ) = "kbd_int_handler" /\ port1 = TRUE /\ ibuf = NoCommand
        /\ toDev = <<>> /\ AllKeys(fromDev) /\ obuf \in {NoByte, KeyByte}
    BY <2>1, <2>2 DEF AnswerAt, Still
  <2>4. NoByte \notin Answers /\ KeyByte \notin Answers
    BY DEF NoByte, KeyByte, Answers, ACK, RESEND, RESET_OK
  <2>5. \A i \in DOMAIN fromDev : fromDev[i] \notin Answers
    BY <2>3, <2>4 DEF AllKeys
  <2> QED
    BY <2>3, <2>4, <2>5
<1> QED
  BY <1>1, BootSafe, PTL
=============================================================================
