------------------------------ MODULE ScanCode ------------------------------
(***************************************************************************)
(* The scan code decoder of the keyboard driver: handle_data and its       *)
(* static variables (kernel/ps2_keyboard.c).                               *)
(*                                                                         *)
(* A user presses and releases keys; the keyboard (external) puts the      *)
(* bytes of scan code set 2 on the wire, one key stroke after the other,   *)
(* and handle_data gets them one by one.  A byte may be lost to the        *)
(* decoder: keyboard_handler takes any byte that comes while a command is  *)
(* pending for an answer.  The characters printed are left out.            *)
(***************************************************************************)
EXTENDS Integers, Sequences

CONSTANTS
  Keys,         \* the keys the user has
  MaxStrokes,   \* bound: key strokes
  MaxLost       \* bound: bytes that keyboard_handler takes for answers

EMUL0   == 224   \* 0xe0
EMUL1   == 225   \* 0xe1
RELEASE == 240   \* 0xf0
BUF     == 8     \* bytes of scan_code_buf

AllKeys == {"A", "F7", "LEFTSHIFT", "KPASTERISK", "UP", "PAGEUP", "PAGEDOWN",
            "SYSRQ", "PAUSE"}
ASSUME KeysAssumption ==
  Keys \subseteq AllKeys /\ MaxStrokes \in Nat /\ MaxLost \in Nat

\* Scan code set 2 (external): what the keyboard sends for a key.
Pressed ==
  [A |-> <<28>>, F7 |-> <<131>>, LEFTSHIFT |-> <<18>>, KPASTERISK |-> <<124>>,
   UP |-> <<EMUL0, 117>>, PAGEUP |-> <<EMUL0, 125>>, PAGEDOWN |-> <<EMUL0, 122>>,
   SYSRQ |-> <<EMUL0, 18, EMUL0, 124>>,
   PAUSE |-> <<EMUL1, 20, 119, EMUL1, RELEASE, 20, RELEASE, 119>>]

Released ==
  [A |-> <<RELEASE, 28>>, F7 |-> <<RELEASE, 131>>, LEFTSHIFT |-> <<RELEASE, 18>>,
   KPASTERISK |-> <<RELEASE, 124>>, UP |-> <<EMUL0, RELEASE, 117>>,
   PAGEUP |-> <<EMUL0, RELEASE, 125>>, PAGEDOWN |-> <<EMUL0, RELEASE, 122>>,
   SYSRQ |-> <<EMUL0, RELEASE, 124, EMUL0, RELEASE, 18>>]

\* scan2_norm_to_keycode and scan2_ext_to_keycode, at the bytes of these keys
\* and of LEFTCTRL and NUMLOCK; "NONE" is the keycode 0.
scan2_norm_to_keycode(d) ==
  CASE d = 28 -> "A" [] d = 131 -> "F7" [] d = 18 -> "LEFTSHIFT"
    [] d = 124 -> "KPASTERISK" [] d = 117 -> "KP8" [] d = 125 -> "KP9"
    [] d = 122 -> "KP3" [] d = 20 -> "LEFTCTRL" [] d = 119 -> "NUMLOCK"
    [] OTHER -> "NONE"

scan2_ext_to_keycode(d) ==
  CASE d = 117 -> "UP" [] d = 122 -> "PAGEDOWN" [] d = 125 -> "PAGEDOWN"
    [] d = 20 -> "RIGHTCTRL" [] OTHER -> "NONE"

NORM_ENTRIES == 132   \* entries of the two tables
EXT_ENTRIES  == 128

VARIABLES
  wire,                         \* bytes of the key stroke still to come
  ext0, released, ext1, is_pause, is_sysrq,
  scan_code_ptr,                \* its distance from scan_code_buf
  expect,
  strokes, events,              \* history: what the user did, what was decoded
  lookups,                      \* history: the table indices used
  lost, whole                   \* history: bytes lost; whole strokes since

flags == <<ext0, released, ext1, is_pause, is_sysrq>>
vars  == <<wire, flags, scan_code_ptr, expect, strokes, events, lookups, lost, whole>>

Init ==
  /\ wire = <<>>
  /\ ext0 = FALSE /\ released = FALSE /\ ext1 = FALSE
  /\ is_pause = FALSE /\ is_sysrq = FALSE
  /\ scan_code_ptr = 0 /\ expect = 1
  /\ strokes = <<>> /\ events = <<>> /\ lookups = {}
  /\ lost = 0 /\ whole = 0

-----------------------------------------------------------------------------
(* The user and the keyboard (external)                                    *)

\* A key goes down or up; Pause sends nothing when it goes up.
Stroke(k, up) ==
  /\ wire = <<>> /\ Len(strokes) < MaxStrokes
  /\ up => k \in DOMAIN Released
  /\ wire' = IF up THEN Released[k] ELSE Pressed[k]
  /\ strokes' = Append(strokes, [code |-> k, released |-> up])
  /\ whole' = whole + 1
  /\ UNCHANGED <<flags, scan_code_ptr, expect, events, lookups, lost>>

\* keyboard_handler waits for an answer and takes this byte for it.
Lost ==
  /\ wire # <<>> /\ lost < MaxLost
  /\ wire' = Tail(wire) /\ lost' = lost + 1 /\ whole' = 0
  /\ UNCHANGED <<flags, scan_code_ptr, expect, strokes, events, lookups>>

-----------------------------------------------------------------------------
(* handle_data                                                             *)

\* Its first lines: every call stores the byte and counts it; more is what
\* the branch taken adds to expect, a u8.
Stored(more) ==
  /\ wire # <<>>
  /\ wire' = Tail(wire)
  /\ scan_code_ptr' = scan_code_ptr + 1
  /\ expect' = (expect - 1 + more) % 256
  /\ UNCHANGED <<strokes, lost, whole>>

Data == Head(wire)

Emul1 ==
  /\ wire # <<>> /\ Data = EMUL1
  /\ Stored(2) /\ ext1' = TRUE
  /\ UNCHANGED <<ext0, released, is_pause, is_sysrq, events, lookups>>

Emul0 ==
  /\ wire # <<>> /\ Data = EMUL0
  /\ Stored(1) /\ ext0' = TRUE
  /\ UNCHANGED <<ext1, released, is_pause, is_sysrq, events, lookups>>

Release ==
  /\ wire # <<>> /\ Data = RELEASE
  /\ Stored(1) /\ released' = TRUE
  /\ UNCHANGED <<ext0, ext1, is_pause, is_sysrq, events, lookups>>

IsPrefix   == Data \in {EMUL0, EMUL1, RELEASE}
PrtScDown  == ext0 /\ ~released /\ Data = 18
PrtScUp    == ext0 /\ released /\ Data = 124
PauseEnds  == ext1 /\ released /\ Data = 119

PrtScPress ==
  /\ wire # <<>> /\ ~IsPrefix /\ PrtScDown
  /\ Stored(1) /\ is_sysrq' = TRUE /\ ext0' = FALSE
  /\ UNCHANGED <<ext1, released, is_pause, events, lookups>>

\* Fault: the second half is not waited for.
PrtScRelease_NoMore ==
  /\ wire # <<>> /\ ~IsPrefix /\ PrtScUp
  /\ Stored(0) /\ is_sysrq' = TRUE /\ ext0' = FALSE /\ released' = TRUE
  /\ UNCHANGED <<ext1, is_pause, events, lookups>>

PrtScRelease ==
  /\ wire # <<>> /\ ~IsPrefix /\ PrtScUp
  /\ Stored(1) /\ is_sysrq' = TRUE /\ ext0' = FALSE /\ released' = TRUE
  /\ UNCHANGED <<ext1, is_pause, events, lookups>>

\* The last byte of Pause: expect becomes 0, and nothing else happens.
PauseLast ==
  /\ wire # <<>> /\ ~IsPrefix /\ PauseEnds
  /\ Stored(1 - expect) /\ is_pause' = TRUE
  /\ UNCHANGED <<ext0, ext1, released, is_sysrq, events, lookups>>

Plain == wire # <<>> /\ ~IsPrefix /\ ~PrtScDown /\ ~PrtScUp /\ ~PauseEnds

More ==
  /\ Plain /\ (expect - 1) % 256 # 0
  /\ Stored(0)
  /\ UNCHANGED <<flags, events, lookups>>

\* The event of a complete scan code
Event ==
  IF is_sysrq THEN [code |-> "SYSRQ", released |-> FALSE]
  ELSE IF is_pause THEN [code |-> "PAUSE", released |-> FALSE]
  ELSE [code |-> IF ext0 THEN scan2_ext_to_keycode(Data) ELSE scan2_norm_to_keycode(Data),
        released |-> released]

\* What the end of handle_data does besides resetting its variables
Reported ==
  /\ Plain /\ (expect - 1) % 256 = 0
  /\ wire' = Tail(wire)
  /\ events' = Append(events, Event)
  /\ lookups' = IF is_sysrq \/ is_pause THEN lookups ELSE lookups \union {<<ext0, Data>>}
  /\ is_sysrq' = FALSE
  /\ is_pause' = (is_pause /\ is_sysrq)
  /\ UNCHANGED <<strokes, lost, whole>>

\* Fault: scan_code_ptr is not set back.
Complete_NoRewind ==
  /\ Reported
  /\ released' = FALSE /\ ext0' = FALSE /\ ext1' = FALSE
  /\ scan_code_ptr' = scan_code_ptr + 1 /\ expect' = 1

\* Fault: ext0 is not set back.
Complete_KeepsExt ==
  /\ Reported
  /\ released' = FALSE /\ ext1' = FALSE /\ UNCHANGED ext0
  /\ scan_code_ptr' = 0 /\ expect' = 1

\* Fault: expect is not set back.
Complete_NoExpect ==
  /\ Reported
  /\ released' = FALSE /\ ext0' = FALSE /\ ext1' = FALSE
  /\ scan_code_ptr' = 0 /\ expect' = 0

Complete ==
  /\ Reported
  /\ released' = FALSE /\ ext0' = FALSE /\ ext1' = FALSE
  /\ scan_code_ptr' = 0 /\ expect' = 1

handle_data ==
  \/ Emul1 \/ Emul0 \/ Release \/ PrtScPress \/ PrtScRelease \/ PauseLast
  \/ More \/ Complete

-----------------------------------------------------------------------------
\* while(1) ; nobody touches the keyboard any more
Quiet == wire = <<>> /\ Len(strokes) = MaxStrokes /\ UNCHANGED vars

Next ==
  \/ \E k \in Keys, up \in BOOLEAN : Stroke(k, up)
  \/ Lost
  \/ handle_data
  \/ Quiet

Spec == Init /\ [][Next]_vars

-----------------------------------------------------------------------------
(* Properties                                                              *)

Typed(k) == \E i \in DOMAIN strokes : strokes[i].code = k

\* No byte is ever stored behind scan_code_buf: not by any key but Pause, and,
\* unless PrtSc is used, not when one byte is lost either.
InBuffer ==
  ~Typed("PAUSE") /\ (lost = 0 \/ (lost = 1 /\ ~Typed("SYSRQ")))
    => scan_code_ptr <= BUF

\* The tables are never read behind their ends while no byte is lost.
InTables ==
  lost = 0 =>
    \A l \in lookups : l[2] < (IF l[1] THEN EXT_ENTRIES ELSE NORM_ENTRIES)

\* Between two key strokes, every stroke before the first Pause has been
\* decoded as its key, in order, each once; and as a press or a release, the
\* one of PrtSc excepted.
Faithful ==
  wire = <<>> /\ lost = 0 =>
    \A n \in DOMAIN strokes :
      (\A i \in 1..n : strokes[i].code # "PAUSE") =>
        /\ n <= Len(events)
        /\ events[n].code = strokes[n].code
        /\ events[n].code # "SYSRQ" => events[n].released = strokes[n].released
        /\ n = Len(strokes) => Len(events) = n

AtStart ==
  /\ ~ext0 /\ ~released /\ ~ext1 /\ ~is_pause /\ ~is_sysrq
  /\ scan_code_ptr = 0 /\ expect = 1

\* Between two key strokes the decoder starts afresh; and where PrtSc is not
\* used, a lost byte costs no more than the strokes around it: two whole
\* strokes later the decoder starts afresh again.
Resynchronised ==
  wire = <<>> /\ ~Typed("PAUSE") /\ (lost = 0 \/ (whole >= 2 /\ ~Typed("SYSRQ")))
    => AtStart
=============================================================================
