--------------------------- MODULE ScanCodeProofs ---------------------------
(***************************************************************************)
(* Proofs about the scan code decoder, for any set of keys, any number of  *)
(* key strokes and any number of lost bytes.                               *)
(*                                                                         *)
(* The decoder keeps no position: where it is in a key stroke is spread    *)
(* over its flags.  The inductive invariants put the position back, as a   *)
(* table with a row for what is left of a stroke on the wire and the flags *)
(* the decoder must have there.                                            *)
(***************************************************************************)
EXTENDS ScanCode, SequenceTheorems, TLAPS

NormBytes == {28, 131, 18, 124}
ExtBytes  == {117, 125, 122}

Keycodes == AllKeys \union
            {"KP8", "KP9", "KP3", "LEFTCTRL", "RIGHTCTRL", "NUMLOCK", "NONE"}

EventType == [code : Keycodes, released : BOOLEAN]

TypeOK ==
  /\ scan_code_ptr \in Nat /\ lost \in Nat /\ whole \in Nat
  /\ strokes \in Seq([code : Keys, released : BOOLEAN])
  /\ events \in Seq(EventType)
  /\ ext0 \in BOOLEAN /\ released \in BOOLEAN

-----------------------------------------------------------------------------
(* What handle_data does with a byte, as long as expect is 1 or 2          *)

\* Every call takes a byte off the wire.
LEMMA TakesByte ==
  ASSUME handle_data
  PROVE  wire # <<>> /\ wire' = Tail(wire) /\ UNCHANGED <<strokes, lost, whole>>
BY DEF handle_data, Emul1, Emul0, Release, PrtScPress, PrtScRelease, PauseLast,
       More, Complete, Reported, Plain, Stored

LEMMA OnEmul0 ==
  ASSUME handle_data, Head(wire) = EMUL0, expect = 1
  PROVE  /\ ext0' = TRUE /\ expect' = 1 /\ scan_code_ptr' = scan_code_ptr + 1
         /\ UNCHANGED <<released, ext1, is_pause, is_sysrq, events, lookups>>
BY DEF handle_data, Emul1, Emul0, Release, PrtScPress, PrtScRelease, PauseLast,
       More, Complete, Reported, Plain, Stored, IsPrefix, Data, EMUL0, EMUL1, RELEASE

LEMMA OnRelease ==
  ASSUME handle_data, Head(wire) = RELEASE, expect \in {1, 2}
  PROVE  /\ released' = TRUE /\ expect' = expect /\ scan_code_ptr' = scan_code_ptr + 1
         /\ UNCHANGED <<ext0, ext1, is_pause, is_sysrq, events, lookups>>
BY DEF handle_data, Emul1, Emul0, Release, PrtScPress, PrtScRelease, PauseLast,
       More, Complete, Reported, Plain, Stored, IsPrefix, Data, EMUL0, EMUL1, RELEASE

LEMMA OnEmul1 ==
  ASSUME handle_data, Head(wire) = EMUL1, expect = 1
  PROVE  /\ ext1' = TRUE /\ expect' = 2
         /\ UNCHANGED <<ext0, released, is_pause, is_sysrq, events, lookups>>
BY DEF handle_data, Emul1, Emul0, Release, PrtScPress, PrtScRelease, PauseLast,
       More, Complete, Reported, Plain, Stored, IsPrefix, Data, EMUL0, EMUL1, RELEASE

LEMMA OnPrtScDown ==
  ASSUME handle_data, Head(wire) = 18, ext0 = TRUE, released = FALSE, expect = 1
  PROVE  /\ ext0' = FALSE /\ is_sysrq' = TRUE /\ expect' = 1
         /\ scan_code_ptr' = scan_code_ptr + 1
         /\ UNCHANGED <<released, ext1, is_pause, events, lookups>>
<1>1. PrtScDown /\ ~PrtScUp /\ ~PauseEnds
  BY DEF Data, PrtScDown, PrtScUp, PauseEnds
<1>2. Data \notin {EMUL0, EMUL1, RELEASE}
  BY DEF Data, EMUL0, EMUL1, RELEASE
<1>3. PrtScPress
  BY <1>1, <1>2 DEF handle_data, Emul1, Emul0, Release, PrtScRelease, PauseLast,
                    More, Complete, Reported, Plain
<1> QED
  BY <1>3 DEF PrtScPress, Stored

LEMMA OnPrtScUp ==
  ASSUME handle_data, Head(wire) = 124, ext0 = TRUE, released = TRUE, expect = 1
  PROVE  /\ ext0' = FALSE /\ released' = TRUE /\ is_sysrq' = TRUE /\ expect' = 1
         /\ scan_code_ptr' = scan_code_ptr + 1
         /\ UNCHANGED <<ext1, is_pause, events, lookups>>
<1>1. PrtScUp /\ ~PrtScDown /\ ~PauseEnds
  BY DEF Data, PrtScDown, PrtScUp, PauseEnds
<1>2. Data \notin {EMUL0, EMUL1, RELEASE}
  BY DEF Data, EMUL0, EMUL1, RELEASE
<1>3. PrtScRelease
  BY <1>1, <1>2 DEF handle_data, Emul1, Emul0, Release, PrtScPress, PauseLast,
                    More, Complete, Reported, Plain
<1> QED
  BY <1>3 DEF PrtScRelease, Stored

LEMMA OnPauseEnds ==
  ASSUME handle_data, Head(wire) = 119, ext1 = TRUE, released = TRUE
  PROVE  is_pause' = TRUE /\ UNCHANGED <<events, lookups>>
<1>1. PauseEnds /\ ~PrtScDown /\ ~PrtScUp
  BY DEF Data, PrtScDown, PrtScUp, PauseEnds
<1>2. Data \notin {EMUL0, EMUL1, RELEASE}
  BY DEF Data, EMUL0, EMUL1, RELEASE
<1>3. PauseLast
  BY <1>1, <1>2 DEF handle_data, Emul1, Emul0, Release, PrtScPress, PrtScRelease,
                    More, Complete, Reported, Plain
<1> QED
  BY <1>3 DEF PauseLast, Stored

LEMMA OnMore ==
  ASSUME handle_data, Head(wire) = 20, expect = 2
  PROVE  expect' = 1 /\ UNCHANGED <<flags, events, lookups>>
BY DEF handle_data, Emul1, Emul0, Release, PrtScPress, PrtScRelease, PauseLast,
       More, Complete, Reported, Plain, Stored, IsPrefix, Data, EMUL0, EMUL1, RELEASE,
       PrtScDown, PrtScUp, PauseEnds, flags

\* A byte that is no prefix, no half of PrtSc and not the end of Pause
LastByte ==
  /\ Head(wire) \in NormBytes \union ExtBytes \union {20, 119}
  /\ ~(ext0 /\ ~released /\ Head(wire) = 18)
  /\ ~(ext0 /\ released /\ Head(wire) = 124)
  /\ ~(ext1 /\ released /\ Head(wire) = 119)

LEMMA OnLast ==
  ASSUME handle_data, LastByte, expect = 1
  PROVE  /\ ext0' = FALSE /\ released' = FALSE /\ ext1' = FALSE /\ is_sysrq' = FALSE
         /\ is_pause = FALSE \/ is_sysrq = FALSE => is_pause' = FALSE
         /\ expect' = 1 /\ scan_code_ptr' = 0
         /\ events' = Append(events, Event)
         /\ lookups' = IF is_sysrq \/ is_pause THEN lookups
                       ELSE lookups \union {<<ext0, Head(wire)>>}
<1>1. Data \notin {EMUL0, EMUL1, RELEASE} /\ ~PrtScDown /\ ~PrtScUp /\ ~PauseEnds
  BY DEF Data, EMUL0, EMUL1, RELEASE, PrtScDown, PrtScUp, PauseEnds, LastByte,
         NormBytes, ExtBytes
<1>2. (expect - 1) % 256 = 0
  OBVIOUS
<1>3. Complete
  BY <1>1, <1>2 DEF handle_data, Emul1, Emul0, Release, PrtScPress, PrtScRelease,
                    PauseLast, More
<1>4. is_pause' = (is_pause /\ is_sysrq)
  BY <1>3 DEF Complete, Reported
<1>5. ASSUME is_pause = FALSE \/ is_sysrq = FALSE  PROVE is_pause' = FALSE
  BY <1>4, <1>5, Zenon
<1> QED
  BY <1>3, <1>5 DEF Complete, Reported, Data

-----------------------------------------------------------------------------
(* No byte lost, and no Pause: the decoder follows the stroke on the wire  *)

Last == strokes[Len(strokes)]

At(w, e, r, sysrq, ptr) ==
  /\ wire = w /\ ext0 = e /\ released = r /\ is_sysrq = sysrq /\ scan_code_ptr = ptr

Norm(x) ==
  /\ Last.code = scan2_norm_to_keycode(x)
  /\ \/ Last.released = FALSE /\ At(<<x>>, FALSE, FALSE, FALSE, 0)
     \/ Last.released = TRUE /\ At(<<RELEASE, x>>, FALSE, FALSE, FALSE, 0)
     \/ Last.released = TRUE /\ At(<<x>>, FALSE, TRUE, FALSE, 1)

Ext(x) ==
  /\ Last.code # "PAGEUP" => Last.code = scan2_ext_to_keycode(x)
  /\ \/ Last.released = FALSE /\ At(<<EMUL0, x>>, FALSE, FALSE, FALSE, 0)
     \/ Last.released = FALSE /\ At(<<x>>, TRUE, FALSE, FALSE, 1)
     \/ Last.released = TRUE /\ At(<<EMUL0, RELEASE, x>>, FALSE, FALSE, FALSE, 0)
     \/ Last.released = TRUE /\ At(<<RELEASE, x>>, TRUE, FALSE, FALSE, 1)
     \/ Last.released = TRUE /\ At(<<x>>, TRUE, TRUE, FALSE, 2)

PrtSc ==
  /\ Last.code = "SYSRQ"
  /\ \/ At(<<EMUL0, 18, EMUL0, 124>>, FALSE, FALSE, FALSE, 0)
     \/ At(<<18, EMUL0, 124>>, TRUE, FALSE, FALSE, 1)
     \/ At(<<EMUL0, 124>>, FALSE, FALSE, TRUE, 2)
     \/ At(<<124>>, TRUE, FALSE, TRUE, 3)
     \/ At(<<EMUL0, RELEASE, 124, EMUL0, RELEASE, 18>>, FALSE, FALSE, FALSE, 0)
     \/ At(<<RELEASE, 124, EMUL0, RELEASE, 18>>, TRUE, FALSE, FALSE, 1)
     \/ At(<<124, EMUL0, RELEASE, 18>>, TRUE, TRUE, FALSE, 2)
     \/ At(<<EMUL0, RELEASE, 18>>, FALSE, TRUE, TRUE, 3)
     \/ At(<<RELEASE, 18>>, TRUE, TRUE, TRUE, 4)
     \/ At(<<18>>, TRUE, TRUE, TRUE, 5)

Between == At(<<>>, FALSE, FALSE, FALSE, 0)

InStroke ==
  /\ strokes # <<>>
  /\ (\E x \in NormBytes : Norm(x)) \/ (\E x \in ExtBytes : Ext(x)) \/ PrtSc

Steady == expect = 1 /\ ext1 = FALSE /\ is_pause = FALSE

Follows ==
  lost = 0 /\ ~Typed("PAUSE") => Steady /\ (Between \/ InStroke)

\* The n-th stroke and the n-th event are the same key, and the same way.
Decoded(n) ==
  /\ n <= Len(events)
  /\ events[n].code = strokes[n].code
  /\ events[n].code # "SYSRQ" => events[n].released = strokes[n].released

PauseFree(n) == \A i \in 1..n : strokes[i].code # "PAUSE"

Done == IF wire = <<>> THEN Len(strokes) ELSE Len(strokes) - 1

EachDecoded ==
  lost = 0 /\ "PAGEUP" \notin Keys =>
    /\ \A n \in 1..Done : PauseFree(n) => Decoded(n)
    /\ ~Typed("PAUSE") => Len(events) = Done

FollowInv == TypeOK /\ Follows /\ EachDecoded

Matches ==
  Last.code # "PAGEUP" =>
    /\ Event.code = Last.code
    /\ Event.code # "SYSRQ" => Event.released = Last.released

\* The last byte of a stroke is reported as the stroke; the others are not.
Ends == Between' /\ events' = Append(events, Event) /\ Matches
GoesOn == wire' # <<>> /\ events' = events

LEMMA NormStep ==
  ASSUME handle_data, Steady, NEW x \in NormBytes, Norm(x)
  PROVE  Steady' /\ (Ends \/ (GoesOn /\ Norm(x)'))
<1>1. wire' = Tail(wire) /\ strokes' = strokes /\ Last' = Last
  BY TakesByte DEF Last
<1>2. CASE wire = <<x>> /\ ext0 = FALSE /\ is_sysrq = FALSE /\ released = Last.released
  <2>1. LastByte
    BY <1>2 DEF LastByte, NormBytes, Steady
  <2>2. Matches
    BY <1>2 DEF Matches, Event, Data, Norm, Steady, NormBytes, scan2_norm_to_keycode
  <2>3. wire' = <<>>
    BY <1>1, <1>2
  <2>4. Between' /\ events' = Append(events, Event)
    BY <2>1, <2>3, OnLast DEF Steady, Between, At
  <2>5. Steady'
    BY <2>1, OnLast DEF Steady
  <2> QED
    BY <2>2, <2>4, <2>5 DEF Ends
<1>3. CASE Last.released = TRUE /\ At(<<RELEASE, x>>, FALSE, FALSE, FALSE, 0)
  <2>1. Head(wire) = RELEASE /\ wire' = <<x>>
    BY <1>1, <1>3 DEF At
  <2>2. At(<<x>>, FALSE, TRUE, FALSE, 1)'
    BY <1>3, <2>1, OnRelease DEF At, Steady
  <2> QED
    BY <1>1, <1>3, <2>1, <2>2, OnRelease DEF Steady, GoesOn, Norm, At
<1> QED
  BY <1>2, <1>3 DEF Norm, At

LEMMA ExtStep ==
  ASSUME handle_data, Steady, NEW x \in ExtBytes, Ext(x)
  PROVE  Steady' /\ (Ends \/ (GoesOn /\ Ext(x)'))
<1>1. wire' = Tail(wire) /\ strokes' = strokes /\ Last' = Last
  BY TakesByte DEF Last
<1>2. CASE wire = <<x>> /\ ext0 = TRUE /\ is_sysrq = FALSE /\ released = Last.released
  <2>1. LastByte
    BY <1>2 DEF LastByte, ExtBytes, Steady
  <2>2. Matches
    BY <1>2 DEF Matches, Event, Data, Ext, Steady, ExtBytes, scan2_ext_to_keycode
  <2>3. wire' = <<>>
    BY <1>1, <1>2
  <2>4. Between' /\ events' = Append(events, Event)
    BY <2>1, <2>3, OnLast DEF Steady, Between, At
  <2>5. Steady'
    BY <2>1, OnLast DEF Steady
  <2> QED
    BY <2>2, <2>4, <2>5 DEF Ends
<1>3. CASE Last.released = FALSE /\ At(<<EMUL0, x>>, FALSE, FALSE, FALSE, 0)
  <2>1. Head(wire) = EMUL0 /\ wire' = <<x>>
    BY <1>1, <1>3 DEF At
  <2>2. At(<<x>>, TRUE, FALSE, FALSE, 1)'
    BY <1>3, <2>1, OnEmul0 DEF At, Steady
  <2> QED
    BY <1>1, <1>3, <2>1, <2>2, OnEmul0 DEF Steady, GoesOn, Ext, At
<1>4. CASE Last.released = TRUE /\ At(<<EMUL0, RELEASE, x>>, FALSE, FALSE, FALSE, 0)
  <2>1. Head(wire) = EMUL0 /\ wire' = <<RELEASE, x>>
    BY <1>1, <1>4 DEF At
  <2>2. At(<<RELEASE, x>>, TRUE, FALSE, FALSE, 1)'
    BY <1>4, <2>1, OnEmul0 DEF At, Steady
  <2> QED
    BY <1>1, <1>4, <2>1, <2>2, OnEmul0 DEF Steady, GoesOn, Ext, At
<1>5. CASE Last.released = TRUE /\ At(<<RELEASE, x>>, TRUE, FALSE, FALSE, 1)
  <2>1. Head(wire) = RELEASE /\ wire' = <<x>>
    BY <1>1, <1>5 DEF At
  <2>2. At(<<x>>, TRUE, TRUE, FALSE, 2)'
    BY <1>5, <2>1, OnRelease DEF At, Steady
  <2> QED
    BY <1>1, <1>5, <2>1, <2>2, OnRelease DEF Steady, GoesOn, Ext, At
<1> QED
  BY <1>2, <1>3, <1>4, <1>5 DEF Ext, At

LEMMA PrtScStep ==
  ASSUME handle_data, Steady, PrtSc
  PROVE  Steady' /\ (Ends \/ (GoesOn /\ PrtSc'))
<1>1. wire' = Tail(wire) /\ strokes' = strokes /\ Last' = Last
  BY TakesByte DEF Last
<1>2. CASE \/ At(<<124>>, TRUE, FALSE, TRUE, 3)
           \/ At(<<18>>, TRUE, TRUE, TRUE, 5)
  <2>1. LastByte
    BY <1>2 DEF LastByte, NormBytes, Steady, At
  <2>2. Matches
    BY <1>2 DEF Matches, Event, PrtSc, At
  <2>3. wire' = <<>>
    BY <1>1, <1>2 DEF At
  <2>4. Between' /\ events' = Append(events, Event)
    BY <2>1, <2>3, OnLast DEF Steady, Between, At
  <2>5. Steady'
    BY <2>1, OnLast DEF Steady
  <2> QED
    BY <2>2, <2>4, <2>5 DEF Ends
<1>3. CASE At(<<EMUL0, 18, EMUL0, 124>>, FALSE, FALSE, FALSE, 0)
  <2>1. Head(wire) = EMUL0 /\ wire' = <<18, EMUL0, 124>>
    BY <1>1, <1>3 DEF At
  <2>2. At(<<18, EMUL0, 124>>, TRUE, FALSE, FALSE, 1)'
    BY <1>3, <2>1, OnEmul0 DEF At, Steady
  <2> QED
    BY <1>1, <1>3, <2>1, <2>2, OnEmul0 DEF Steady, GoesOn, PrtSc, At
<1>4. CASE At(<<18, EMUL0, 124>>, TRUE, FALSE, FALSE, 1)
  <2>1. Head(wire) = 18 /\ wire' = <<EMUL0, 124>>
    BY <1>1, <1>4 DEF At
  <2>2. /\ ext0' = FALSE /\ is_sysrq' = TRUE /\ expect' = 1
        /\ scan_code_ptr' = scan_code_ptr + 1
        /\ UNCHANGED <<released, ext1, is_pause, events>>
    BY <1>4, <2>1, OnPrtScDown DEF At, Steady
  <2>3. At(<<EMUL0, 124>>, FALSE, FALSE, TRUE, 2)'
    BY <1>4, <2>1, <2>2 DEF At, Steady
  <2> QED
    BY <1>1, <1>4, <2>1, <2>2, <2>3 DEF Steady, GoesOn, PrtSc, At
<1>5. CASE At(<<EMUL0, 124>>, FALSE, FALSE, TRUE, 2)
  <2>1. Head(wire) = EMUL0 /\ wire' = <<124>>
    BY <1>1, <1>5 DEF At
  <2>2. At(<<124>>, TRUE, FALSE, TRUE, 3)'
    BY <1>5, <2>1, OnEmul0 DEF At, Steady
  <2> QED
    BY <1>1, <1>5, <2>1, <2>2, OnEmul0 DEF Steady, GoesOn, PrtSc, At
<1>6. CASE At(<<EMUL0, RELEASE, 124, EMUL0, RELEASE, 18>>, FALSE, FALSE, FALSE, 0)
  <2>1. Head(wire) = EMUL0 /\ wire' = <<RELEASE, 124, EMUL0, RELEASE, 18>>
    BY <1>1, <1>6 DEF At
  <2>2. At(<<RELEASE, 124, EMUL0, RELEASE, 18>>, TRUE, FALSE, FALSE, 1)'
    BY <1>6, <2>1, OnEmul0 DEF At, Steady
  <2> QED
    BY <1>1, <1>6, <2>1, <2>2, OnEmul0 DEF Steady, GoesOn, PrtSc, At
<1>7. CASE At(<<RELEASE, 124, EMUL0, RELEASE, 18>>, TRUE, FALSE, FALSE, 1)
  <2>1. Head(wire) = RELEASE /\ wire' = <<124, EMUL0, RELEASE, 18>>
    BY <1>1, <1>7 DEF At
  <2>2. At(<<124, EMUL0, RELEASE, 18>>, TRUE, TRUE, FALSE, 2)'
    BY <1>7, <2>1, OnRelease DEF At, Steady
  <2> QED
    BY <1>1, <1>7, <2>1, <2>2, OnRelease DEF Steady, GoesOn, PrtSc, At
<1>8. CASE At(<<124, EMUL0, RELEASE, 18>>, TRUE, TRUE, FALSE, 2)
  <2>1. Head(wire) = 124 /\ wire' = <<EMUL0, RELEASE, 18>>
    BY <1>1, <1>8 DEF At
  <2>2. At(<<EMUL0, RELEASE, 18>>, FALSE, TRUE, TRUE, 3)'
    BY <1>8, <2>1, OnPrtScUp DEF At, Steady
  <2> QED
    BY <1>1, <1>8, <2>1, <2>2, OnPrtScUp DEF Steady, GoesOn, PrtSc, At
<1>9. CASE At(<<EMUL0, RELEASE, 18>>, FALSE, TRUE, TRUE, 3)
  <2>1. Head(wire) = EMUL0 /\ wire' = <<RELEASE, 18>>
    BY <1>1, <1>9 DEF At
  <2>2. At(<<RELEASE, 18>>, TRUE, TRUE, TRUE, 4)'
    BY <1>9, <2>1, OnEmul0 DEF At, Steady
  <2> QED
    BY <1>1, <1>9, <2>1, <2>2, OnEmul0 DEF Steady, GoesOn, PrtSc, At
<1>10. CASE At(<<RELEASE, 18>>, TRUE, TRUE, TRUE, 4)
  <2>1. Head(wire) = RELEASE /\ wire' = <<18>>
    BY <1>1, <1>10 DEF At
  <2>2. At(<<18>>, TRUE, TRUE, TRUE, 5)'
    BY <1>10, <2>1, OnRelease DEF At, Steady
  <2> QED
    BY <1>1, <1>10, <2>1, <2>2, OnRelease DEF Steady, GoesOn, PrtSc, At
<1> QED
  BY <1>2, <1>3, <1>4, <1>5, <1>6, <1>7, <1>8, <1>9, <1>10 DEF PrtSc

-----------------------------------------------------------------------------
(* The strokes, and the types of the history variables                     *)

\* What the keyboard sends
LEMMA Codes ==
  ASSUME NEW k \in Keys, NEW up \in BOOLEAN, Stroke(k, up)
  PROVE  \/ \E x \in NormBytes :
              /\ k = scan2_norm_to_keycode(x)
              /\ up = FALSE => wire' = <<x>>
              /\ up = TRUE => wire' = <<RELEASE, x>>
         \/ \E x \in ExtBytes :
              /\ k # "PAGEUP" => k = scan2_ext_to_keycode(x)
              /\ k # "PAUSE" /\ k # "SYSRQ"
              /\ up = FALSE => wire' = <<EMUL0, x>>
              /\ up = TRUE => wire' = <<EMUL0, RELEASE, x>>
         \/ /\ k = "SYSRQ"
            /\ up = FALSE => wire' = <<EMUL0, 18, EMUL0, 124>>
            /\ up = TRUE => wire' = <<EMUL0, RELEASE, 124, EMUL0, RELEASE, 18>>
         \/ /\ k = "PAUSE"
            /\ wire' = <<EMUL1, 20, 119, EMUL1, RELEASE, 20, RELEASE, 119>>
<1>1. k \in AllKeys
  BY KeysAssumption
<1>2. up = FALSE => wire' = Pressed[k]
  BY DEF Stroke
<1>3. up = TRUE => wire' = Released[k] /\ k \in DOMAIN Released
  BY DEF Stroke
<1>4. CASE k \in {"A", "F7", "LEFTSHIFT", "KPASTERISK"}
  <2> DEFINE x == IF k = "A" THEN 28 ELSE IF k = "F7" THEN 131
                  ELSE IF k = "LEFTSHIFT" THEN 18 ELSE 124
  <2>1. x \in NormBytes /\ k = scan2_norm_to_keycode(x)
    BY <1>4 DEF NormBytes, scan2_norm_to_keycode
  <2>2. Pressed[k] = <<x>> /\ Released[k] = <<RELEASE, x>>
    BY <1>4 DEF Pressed, Released
  <2> QED
    BY <1>2, <1>3, <2>1, <2>2
<1>5. CASE k \in {"UP", "PAGEUP", "PAGEDOWN"}
  <2> DEFINE x == IF k = "UP" THEN 117 ELSE IF k = "PAGEUP" THEN 125 ELSE 122
  <2>1. x \in ExtBytes /\ (k # "PAGEUP" => k = scan2_ext_to_keycode(x))
    BY <1>5 DEF ExtBytes, scan2_ext_to_keycode
  <2>2. Pressed[k] = <<EMUL0, x>> /\ Released[k] = <<EMUL0, RELEASE, x>>
    BY <1>5 DEF Pressed, Released
  <2>3. k # "PAUSE" /\ k # "SYSRQ"
    BY <1>5
  <2> QED
    BY <1>2, <1>3, <2>1, <2>2, <2>3
<1>6. CASE k = "SYSRQ"
  BY <1>2, <1>3, <1>6 DEF Pressed, Released
<1>7. CASE k = "PAUSE"
  BY <1>2, <1>3, <1>7 DEF Pressed, Released
<1> QED
  BY <1>1, <1>4, <1>5, <1>6, <1>7 DEF AllKeys

LEMMA StrokeSends ==
  ASSUME NEW k \in Keys, NEW up \in BOOLEAN, Stroke(k, up)
  PROVE  wire' # <<>>
<1>1. \A j \in AllKeys : Pressed[j] # <<>>
  BY DEF AllKeys, Pressed
<1>2. \A j \in DOMAIN Released : Released[j] # <<>>
  BY DEF Released
<1>3. up => k \in DOMAIN Released
  BY DEF Stroke
<1>4. wire' = IF up THEN Released[k] ELSE Pressed[k]
  BY DEF Stroke
<1> QED
  BY <1>1, <1>2, <1>3, <1>4, KeysAssumption

LEMMA StrokeKeeps ==
  ASSUME TypeOK, NEW k \in Keys, NEW up \in BOOLEAN, Stroke(k, up)
  PROVE  /\ strokes' \in Seq([code : Keys, released : BOOLEAN])
         /\ Len(strokes') = Len(strokes) + 1
         /\ strokes' # <<>>
         /\ Last' = [code |-> k, released |-> up]
         /\ \A i \in 1..Len(strokes) : strokes'[i] = strokes[i]
<1> DEFINE r == [code |-> k, released |-> up]
<1>1. strokes' = Append(strokes, r) /\ r \in [code : Keys, released : BOOLEAN]
  BY DEF Stroke
<1> HIDE DEF r
<1>2. strokes \in Seq([code : Keys, released : BOOLEAN])
  BY DEF TypeOK
<1>3. /\ strokes' \in Seq([code : Keys, released : BOOLEAN])
      /\ Len(strokes') = Len(strokes) + 1
      /\ strokes'[Len(strokes) + 1] = r
      /\ \A i \in 1..Len(strokes) : strokes'[i] = strokes[i]
  BY <1>1, <1>2, AppendProperties
<1>4. strokes' # <<>>
  BY <1>2, <1>3, LenProperties
<1> QED
  BY <1>3, <1>4 DEF Last, r

LEMMA TypeInit == Init => TypeOK
<1> SUFFICES ASSUME Init  PROVE TypeOK
  OBVIOUS
<1>1. strokes \in Seq([code : Keys, released : BOOLEAN]) /\ events \in Seq(EventType)
  BY DEF Init
<1> QED
  BY <1>1 DEF Init, TypeOK

\* The events are only ever appended to.
LEMMA EventsGrow ==
  ASSUME TypeOK, handle_data
  PROVE  /\ ext0' \in BOOLEAN /\ released' \in BOOLEAN
         /\ scan_code_ptr' \in Nat
         /\ events' = events \/ (events' = Append(events, Event) /\ Event \in EventType)
<1>1. Event \in EventType
  <2>1. scan2_ext_to_keycode(Data) \in Keycodes
    BY DEF scan2_ext_to_keycode, Keycodes, AllKeys
  <2>2. scan2_norm_to_keycode(Data) \in Keycodes
    BY DEF scan2_norm_to_keycode, Keycodes, AllKeys
  <2>3. "SYSRQ" \in Keycodes /\ "PAUSE" \in Keycodes
    BY DEF Keycodes, AllKeys
  <2> QED
    BY <2>1, <2>2, <2>3 DEF Event, EventType, TypeOK
<1>2. CASE Complete
  BY <1>1, <1>2 DEF Complete, Reported
<1>3. CASE Release \/ PrtScRelease
  <2>1. /\ released' = TRUE /\ events' = events
        /\ ext0' = ext0 \/ ext0' = FALSE
    BY <1>3 DEF Release, PrtScRelease
  <2>2. scan_code_ptr' = scan_code_ptr + 1
    BY <1>3 DEF Release, PrtScRelease, Stored
  <2>3. ext0' \in BOOLEAN
    BY <2>1, Zenon DEF TypeOK
  <2> QED
    BY <2>1, <2>2, <2>3 DEF TypeOK
<1>4. CASE Emul1 \/ Emul0 \/ PrtScPress \/ PauseLast \/ More
  <2>1. /\ released' = released /\ events' = events
        /\ ext0' = ext0 \/ ext0' = FALSE \/ ext0' = TRUE
    BY <1>4 DEF Emul1, Emul0, PrtScPress, PauseLast, More, flags
  <2>2. scan_code_ptr' = scan_code_ptr + 1
    BY <1>4 DEF Emul1, Emul0, PrtScPress, PauseLast, More, Stored
  <2>3. ext0' \in BOOLEAN
    BY <2>1, Zenon DEF TypeOK
  <2> QED
    BY <2>1, <2>2, <2>3 DEF TypeOK
<1> QED
  BY <1>2, <1>3, <1>4 DEF handle_data

LEMMA TypeNext == TypeOK /\ [Next]_vars => TypeOK'
<1> SUFFICES ASSUME TypeOK, [Next]_vars  PROVE TypeOK'
  OBVIOUS
<1>1. CASE \E k \in Keys, up \in BOOLEAN : Stroke(k, up)
  <2>1. PICK k \in Keys, up \in BOOLEAN : Stroke(k, up)
    BY <1>1
  <2> QED
    BY <2>1, StrokeKeeps DEF Stroke, TypeOK, flags
<1>2. CASE Lost
  BY <1>2 DEF Lost, TypeOK, flags
<1>3. CASE handle_data
  <2>1. events' \in Seq(EventType)
    BY <1>3, EventsGrow, AppendProperties DEF TypeOK
  <2> QED
    BY <1>3, <2>1, EventsGrow, TakesByte DEF TypeOK
<1>4. CASE UNCHANGED vars
  BY <1>4 DEF vars, flags, TypeOK
<1> QED
  BY <1>1, <1>2, <1>3, <1>4 DEF Next, Quiet

\* A key that has been typed stays typed.
LEMMA StrokeTypes ==
  ASSUME TypeOK, NEW k \in Keys, NEW up \in BOOLEAN, Stroke(k, up), NEW c
  PROVE  (~Typed(c))' <=> ~Typed(c) /\ k # c
<1>1. strokes'[Len(strokes) + 1].code = k
  <2>1. Len(strokes') = Len(strokes) + 1 /\ Last' = [code |-> k, released |-> up]
    BY StrokeKeeps
  <2>2. Last' = strokes'[Len(strokes')]
    BY DEF Last
  <2> QED
    BY <2>1, <2>2
<1>2. strokes \in Seq([code : Keys, released : BOOLEAN])
  BY DEF TypeOK
<1>3. DOMAIN strokes = 1..Len(strokes) /\ DOMAIN strokes' = 1..(Len(strokes) + 1)
  BY <1>2, StrokeKeeps, LenProperties
<1>4. Len(strokes) \in Nat
  BY <1>2, LenProperties
<1> QED
  BY <1>1, <1>3, <1>4, StrokeKeeps DEF Typed

-----------------------------------------------------------------------------
(* The decoder follows the strokes, and each is decoded                    *)

LEMMA InStrokeWire ==
  ASSUME InStroke  PROVE wire # <<>>
BY DEF InStroke, Norm, Ext, PrtSc, At

LEMMA HandleFollows ==
  ASSUME Steady, Between \/ InStroke, handle_data
  PROVE  Steady' /\ (Ends \/ (GoesOn /\ InStroke'))
<1>1. InStroke /\ strokes' = strokes
  BY TakesByte DEF Between, At
<1>2. CASE \E x \in NormBytes : Norm(x)
  <2>1. PICK x \in NormBytes : Norm(x)
    BY <1>2
  <2> QED
    BY <1>1, <2>1, NormStep DEF InStroke
<1>3. CASE \E x \in ExtBytes : Ext(x)
  <2>1. PICK x \in ExtBytes : Ext(x)
    BY <1>3
  <2> QED
    BY <1>1, <2>1, ExtStep DEF InStroke
<1>4. CASE PrtSc
  BY <1>1, <1>4, PrtScStep DEF InStroke
<1> QED
  BY <1>1, <1>2, <1>3, <1>4 DEF InStroke

LEMMA StrokeFollows ==
  ASSUME TypeOK, Follows, NEW k \in Keys, NEW up \in BOOLEAN, Stroke(k, up)
  PROVE  Follows'
<1> SUFFICES ASSUME lost' = 0, (~Typed("PAUSE"))'
             PROVE  Steady' /\ InStroke'
  BY DEF Follows
<1>1. lost = 0 /\ ~Typed("PAUSE") /\ k # "PAUSE"
  BY StrokeTypes DEF Stroke
<1>2. wire = <<>>
  BY DEF Stroke
<1>3. Steady /\ Between
  BY <1>1, <1>2, InStrokeWire DEF Follows
<1>4. UNCHANGED <<flags, scan_code_ptr, expect>>
  BY DEF Stroke
<1>5. /\ ext0' = FALSE /\ released' = FALSE /\ is_sysrq' = FALSE
      /\ scan_code_ptr' = 0
  BY <1>3, <1>4 DEF flags, Between, At
<1>6. strokes' # <<>> /\ Last'.code = k /\ Last'.released = up
  BY StrokeKeeps
<1>7. Steady'
  BY <1>3, <1>4 DEF flags, Steady
<1>8. CASE \E x \in NormBytes :
              /\ k = scan2_norm_to_keycode(x)
              /\ up = FALSE => wire' = <<x>>
              /\ up = TRUE => wire' = <<RELEASE, x>>
  <2>1. PICK x \in NormBytes :
              /\ k = scan2_norm_to_keycode(x)
              /\ up = FALSE => wire' = <<x>>
              /\ up = TRUE => wire' = <<RELEASE, x>>
    BY <1>8
  <2>2. Norm(x)'
    BY <1>5, <1>6, <2>1 DEF Norm, At
  <2> QED
    BY <1>6, <1>7, <2>2 DEF InStroke
<1>9. CASE \E x \in ExtBytes :
              /\ k # "PAGEUP" => k = scan2_ext_to_keycode(x)
              /\ k # "PAUSE" /\ k # "SYSRQ"
              /\ up = FALSE => wire' = <<EMUL0, x>>
              /\ up = TRUE => wire' = <<EMUL0, RELEASE, x>>
  <2>1. PICK x \in ExtBytes :
              /\ k # "PAGEUP" => k = scan2_ext_to_keycode(x)
              /\ up = FALSE => wire' = <<EMUL0, x>>
              /\ up = TRUE => wire' = <<EMUL0, RELEASE, x>>
    BY <1>9
  <2>2. Ext(x)'
    BY <1>5, <1>6, <2>1 DEF Ext, At
  <2> QED
    BY <1>6, <1>7, <2>2 DEF InStroke
<1>10. CASE /\ k = "SYSRQ"
            /\ up = FALSE => wire' = <<EMUL0, 18, EMUL0, 124>>
            /\ up = TRUE => wire' = <<EMUL0, RELEASE, 124, EMUL0, RELEASE, 18>>
  <2>1. PrtSc'
    BY <1>5, <1>6, <1>10 DEF PrtSc, At
  <2> QED
    BY <1>6, <1>7, <2>1 DEF InStroke
<1> QED
  BY <1>1, <1>8, <1>9, <1>10, Codes

LEMMA FollowsNext == TypeOK /\ Follows /\ [Next]_vars => Follows'
<1> SUFFICES ASSUME TypeOK, Follows, [Next]_vars  PROVE Follows'
  OBVIOUS
<1>1. CASE \E k \in Keys, up \in BOOLEAN : Stroke(k, up)
  BY <1>1, StrokeFollows
<1>2. CASE Lost
  BY <1>2 DEF Lost, Follows, TypeOK
<1>3. CASE handle_data
  <2> SUFFICES ASSUME lost' = 0, (~Typed("PAUSE"))'
               PROVE  Steady' /\ (Between' \/ InStroke')
    BY DEF Follows
  <2>1. lost = 0 /\ ~Typed("PAUSE")
    BY <1>3, TakesByte DEF Typed
  <2> QED
    BY <1>3, <2>1, HandleFollows DEF Follows, Ends
<1>4. CASE UNCHANGED vars
  BY <1>4 DEF vars, flags, Follows, Steady, Between, At, InStroke, Norm, Ext, PrtSc,
              Last, Typed
<1> QED
  BY <1>1, <1>2, <1>3, <1>4 DEF Next, Quiet

LEMMA PauseFreeTyped ==
  ASSUME TypeOK
  PROVE  PauseFree(Len(strokes)) <=> ~Typed("PAUSE")
<1>1. DOMAIN strokes = 1..Len(strokes)
  BY LenProperties DEF TypeOK
<1> QED
  BY <1>1 DEF PauseFree, Typed

LEMMA DoneNat ==
  ASSUME TypeOK  PROVE Done \in Int /\ Len(strokes) \in Nat /\ Len(events) \in Nat
BY LenProperties DEF TypeOK, Done

LEMMA StrokeDecodes ==
  ASSUME TypeOK, EachDecoded, NEW k \in Keys, NEW up \in BOOLEAN, Stroke(k, up)
  PROVE  EachDecoded'
<1> SUFFICES ASSUME lost' = 0, "PAGEUP" \notin Keys
             PROVE  /\ \A n \in 1..Done' : PauseFree(n)' => Decoded(n)'
                    /\ (~Typed("PAUSE"))' => Len(events') = Done'
  BY DEF EachDecoded
<1>1. wire = <<>> /\ wire' # <<>> /\ lost = 0 /\ events' = events
  BY StrokeSends DEF Stroke
<1>2. Done = Len(strokes) /\ Done' = Len(strokes)
  BY <1>1, DoneNat, StrokeKeeps DEF Done
<1>3. ASSUME NEW n \in 1..Done', PauseFree(n)'  PROVE Decoded(n)'
  <2>1. \A i \in 1..n : strokes'[i] = strokes[i]
    BY <1>2, StrokeKeeps, DoneNat
  <2>2. PauseFree(n)
    BY <1>3, <2>1 DEF PauseFree
  <2>3. Decoded(n)
    BY <1>1, <1>2, <2>2 DEF EachDecoded
  <2>4. strokes'[n] = strokes[n]
    BY <2>1, <1>2, DoneNat
  <2> QED
    BY <1>1, <2>3, <2>4 DEF Decoded
<1>4. ASSUME (~Typed("PAUSE"))'  PROVE Len(events') = Done'
  BY <1>1, <1>2, <1>4, StrokeTypes DEF EachDecoded
<1> QED
  BY <1>3, <1>4

\* What has been decoded stays decoded.
LEMMA DecodedStays ==
  ASSUME TypeOK, handle_data, NEW n \in 1..Len(strokes), Decoded(n)
  PROVE  Decoded(n)'
<1>1. strokes' = strokes /\ events \in Seq(EventType) /\ n <= Len(events)
  BY TakesByte DEF TypeOK, Decoded
<1>2. CASE events' = events
  BY <1>1, <1>2 DEF Decoded
<1>3. CASE events' = Append(events, Event) /\ Event \in EventType
  <2>1. Len(events') = Len(events) + 1 /\ events'[n] = events[n]
    BY <1>1, <1>3, AppendProperties, DoneNat
  <2> QED
    BY <1>1, <2>1, DoneNat DEF Decoded
<1> QED
  BY <1>2, <1>3, EventsGrow

LEMMA HandleDecodes ==
  ASSUME FollowInv, handle_data
  PROVE  EachDecoded'
<1> USE DEF FollowInv
<1> SUFFICES ASSUME lost' = 0, "PAGEUP" \notin Keys
             PROVE  /\ \A n \in 1..Done' : PauseFree(n)' => Decoded(n)'
                    /\ (~Typed("PAUSE"))' => Len(events') = Done'
  BY DEF EachDecoded
<1>1. lost = 0 /\ wire # <<>> /\ strokes' = strokes
  BY TakesByte
<1>2. Done = Len(strokes) - 1 /\ Len(strokes) \in Nat
  BY <1>1, DoneNat DEF Done
<1>3. Done' = IF wire' = <<>> THEN Len(strokes) ELSE Len(strokes) - 1
  BY <1>1 DEF Done
<1>4. /\ (~Typed("PAUSE"))' <=> ~Typed("PAUSE")
      /\ \A n : PauseFree(n)' <=> PauseFree(n)
  BY <1>1 DEF Typed, PauseFree
<1>5. ASSUME NEW n \in 1..(Len(strokes) - 1), PauseFree(n)  PROVE Decoded(n)'
  <2>1. Decoded(n)
    BY <1>1, <1>2, <1>5 DEF EachDecoded
  <2> QED
    BY <1>2, <2>1, DecodedStays
<1>6. ASSUME ~Typed("PAUSE")
      PROVE  /\ Len(events') = Done'
             /\ wire' = <<>> => Decoded(Len(strokes))'
  <2>1. Len(events) = Len(strokes) - 1
    BY <1>1, <1>2, <1>6 DEF EachDecoded
  <2>2. Ends \/ GoesOn
    BY <1>1, <1>6, HandleFollows DEF Follows
  <2>3. CASE GoesOn
    BY <1>3, <2>1, <2>3 DEF GoesOn
  <2>4. CASE Ends
    <3>1. wire' = <<>> /\ events' = Append(events, Event)
      BY <2>4 DEF Ends, Between, At
    <3>2. events' # events
      BY <3>1, AppendProperties, DoneNat DEF TypeOK
    <3>3. Event \in EventType /\ events \in Seq(EventType)
      BY <3>2, EventsGrow DEF TypeOK
    <3>4. Len(events') = Len(strokes) /\ events'[Len(strokes)] = Event
      BY <1>2, <2>1, <3>1, <3>3, AppendProperties
    <3>5. 1 <= Len(strokes)
      BY <1>2, <2>1, DoneNat
    <3>6. strokes[Len(strokes)] \in [code : Keys, released : BOOLEAN]
      <4> DEFINE S == [code : Keys, released : BOOLEAN]
      <4>1. strokes \in Seq(S)
        BY DEF TypeOK
      <4>2. Len(strokes) \in 1..Len(strokes)
        BY <1>2, <3>5
      <4> HIDE DEF S
      <4>3. strokes[Len(strokes)] \in S
        BY <4>1, <4>2, ElementOfSeq
      <4> QED
        BY <4>3 DEF S
    <3>7. Last.code \in Keys
      BY <3>6 DEF Last
    <3>8. /\ Event.code = Last.code
          /\ Event.code # "SYSRQ" => Event.released = Last.released
      BY <2>4, <3>7 DEF Ends, Matches
    <3>9. Decoded(Len(strokes))'
      BY <1>1, <1>2, <3>4, <3>8 DEF Decoded, Last
    <3> QED
      BY <1>3, <3>1, <3>4, <3>9
  <2> QED
    BY <2>2, <2>3, <2>4
<1>7. ASSUME NEW n \in 1..Done', PauseFree(n)'  PROVE Decoded(n)'
  <2>1. PauseFree(n)
    BY <1>4, <1>7
  <2>2. CASE n <= Len(strokes) - 1
    BY <1>2, <1>3, <1>5, <2>1, <2>2
  <2>3. CASE n = Len(strokes) /\ wire' = <<>>
    <3>1. ~Typed("PAUSE")
      BY <2>1, <2>3, PauseFreeTyped
    <3>2. Decoded(Len(strokes))'
      BY <1>6, <2>3, <3>1
    <3> QED
      BY <1>1, <2>3, <3>2 DEF Decoded
  <2> QED
    BY <1>2, <1>3, <1>7, <2>2, <2>3
<1> QED
  BY <1>4, <1>6, <1>7

LEMMA FollowInit == Init => FollowInv
<1> SUFFICES ASSUME Init  PROVE FollowInv
  OBVIOUS
<1>1. TypeOK
  BY TypeInit
<1>2. Steady /\ Between
  BY DEF Init, Steady, Between, At
<1>3. Done = 0 /\ Len(events) = 0
  BY DEF Init, Done
<1> QED
  BY <1>1, <1>2, <1>3 DEF FollowInv, Follows, EachDecoded

LEMMA FollowNext == FollowInv /\ [Next]_vars => FollowInv'
<1> SUFFICES ASSUME FollowInv, [Next]_vars  PROVE EachDecoded'
  BY TypeNext, FollowsNext DEF FollowInv
<1> USE DEF FollowInv
<1>1. CASE \E k \in Keys, up \in BOOLEAN : Stroke(k, up)
  BY <1>1, StrokeDecodes
<1>2. CASE Lost
  BY <1>2 DEF Lost, EachDecoded, TypeOK
<1>3. CASE handle_data
  BY <1>3, HandleDecodes
<1>4. CASE UNCHANGED vars
  BY <1>4 DEF vars, flags, EachDecoded, Done, PauseFree, Decoded, Typed
<1> QED
  BY <1>1, <1>2, <1>3, <1>4 DEF Next, Quiet

LEMMA FollowAlways == Spec => []FollowInv
BY FollowInit, FollowNext, PTL DEF Spec

\* Whatever is typed without PageUp (whose entry in scan2_ext_to_keycode is
\* that of PageDown), and as long as no byte is lost, handle_data reports every
\* stroke before the first Pause as its key, in order and once.
THEOREM FaithfulSafe == "PAGEUP" \notin Keys /\ Spec => []Faithful
<1> SUFFICES ASSUME "PAGEUP" \notin Keys  PROVE Spec => []Faithful
  OBVIOUS
<1>1. FollowInv => Faithful
  <2> SUFFICES ASSUME FollowInv, wire = <<>>, lost = 0,
                      NEW n \in DOMAIN strokes, PauseFree(n)
               PROVE  /\ Decoded(n)
                      /\ n = Len(strokes) => Len(events) = n
    BY DEF Faithful, PauseFree, Decoded
  <2>1. TypeOK /\ Done = Len(strokes) /\ n \in 1..Len(strokes)
    BY LenProperties DEF FollowInv, TypeOK, Done
  <2>2. Decoded(n)
    BY <2>1 DEF FollowInv, EachDecoded
  <2>3. n = Len(strokes) => Len(events) = n
    BY <2>1, PauseFreeTyped DEF FollowInv, EachDecoded
  <2> QED
    BY <2>2, <2>3
<1> QED
  BY <1>1, FollowAlways, PTL

-----------------------------------------------------------------------------
(* Bytes lost: without Pause and PrtSc the decoder is in step again after  *)
(* two whole strokes.  The tail of an extended key that is lost leaves     *)
(* ext0 set; the next stroke may then look like a half of PrtSc and only   *)
(* the one after it ends the scan code.                                    *)

Passed(n) == whole >= n \/ lost = 0

\* What can be on the wire, and what is left from earlier strokes
Rest ==
  /\ wire = <<>>
  /\ Passed(1) => ext0 = FALSE
  /\ Passed(2) => released = FALSE /\ is_sysrq = FALSE /\ scan_code_ptr = 0

NormLeft(x) ==
  /\ wire = <<x>> \/ wire = <<RELEASE, x>>
  /\ Passed(2) => ext0 = FALSE

ExtLeft(x) ==
  \/ wire = <<x>> \/ wire = <<RELEASE, x>>
  \/ wire = <<EMUL0, x>> \/ wire = <<EMUL0, RELEASE, x>>

Fill(n) == scan_code_ptr + Len(wire) <= n

Bounded ==
  /\ lost = 0 => Fill(3)
  /\ lost = 1 /\ whole = 0 => Fill(2)
  /\ lost = 1 /\ whole = 1 => Fill(5)
  /\ lost = 1 /\ whole >= 2 => Fill(8)

InReach ==
  /\ Steady /\ Bounded
  /\ Rest \/ (\E x \in NormBytes : NormLeft(x)) \/ (\E x \in ExtBytes : ExtLeft(x))

Recovers == ~Typed("PAUSE") /\ ~Typed("SYSRQ") => InReach

RecoverInv == TypeOK /\ Recovers

LEMMA Tails ==
  ASSUME NEW x
  PROVE  /\ Tail(<<x>>) = <<>>
         /\ Tail(<<RELEASE, x>>) = <<x>>
         /\ Tail(<<EMUL0, x>>) = <<x>>
         /\ Tail(<<EMUL0, RELEASE, x>>) = <<RELEASE, x>>
OBVIOUS

\* A complete scan code puts the decoder back to its start.
LEMMA LastRests ==
  ASSUME handle_data, Steady, LastByte, Tail(wire) = <<>>, TypeOK
  PROVE  InReach'
<1>1. wire' = <<>> /\ scan_code_ptr' = 0 /\ ext0' = FALSE
  BY TakesByte, OnLast DEF Steady
<1>2. released' = FALSE /\ is_sysrq' = FALSE
  BY OnLast DEF Steady
<1>3. Steady'
  BY OnLast DEF Steady
<1>4. Rest'
  BY <1>1, <1>2 DEF Rest
<1>5. scan_code_ptr' + Len(wire') = 0
  BY <1>1
<1>6. Bounded'
  BY <1>5 DEF Bounded, Fill
<1> QED
  BY <1>1, <1>3, <1>4, <1>6 DEF InReach

\* A byte stored that ends nothing fills the buffer by the one it takes away.
LEMMA BoundedStays ==
  ASSUME TypeOK, Bounded, wire \in Seq(Int), handle_data,
         scan_code_ptr' = scan_code_ptr + 1
  PROVE  Bounded'
<1>1. wire # <<>> /\ wire' = Tail(wire) /\ lost' = lost /\ whole' = whole
  BY TakesByte
<1>2. Len(wire') = Len(wire) - 1 /\ Len(wire) \in Nat
  BY <1>1, HeadTailProperties, LenProperties
<1> QED
  BY <1>1, <1>2 DEF Bounded, Fill, TypeOK

LEMMA ReachWire ==
  ASSUME InReach  PROVE wire \in Seq(Int)
<1>1. \A x \in Int : /\ <<x>> \in Seq(Int)
                     /\ <<RELEASE, x>> \in Seq(Int)
                     /\ <<EMUL0, x>> \in Seq(Int)
                     /\ <<EMUL0, RELEASE, x>> \in Seq(Int)
  BY DEF EMUL0, RELEASE
<1>2. NormBytes \subseteq Int /\ ExtBytes \subseteq Int
  BY DEF NormBytes, ExtBytes
<1>3. <<>> \in Seq(Int)
  OBVIOUS
<1> QED
  BY <1>1, <1>2, <1>3 DEF InReach, Rest, NormLeft, ExtLeft

LEMMA ReleaseReaches ==
  ASSUME TypeOK, InReach, handle_data, Head(wire) = RELEASE,
         NEW x, wire = <<RELEASE, x>>
  PROVE  /\ wire' = <<x>> /\ Steady' /\ Bounded' /\ ext0' = ext0
         /\ lost' = lost /\ whole' = whole
<1>1. Steady /\ Bounded
  BY DEF InReach
<1>2. /\ expect' = expect /\ scan_code_ptr' = scan_code_ptr + 1
      /\ UNCHANGED <<ext0, ext1, is_pause>>
  BY <1>1, OnRelease DEF Steady
<1>3. Bounded'
  BY <1>1, <1>2, ReachWire, BoundedStays
<1>4. wire' = <<x>> /\ lost' = lost /\ whole' = whole
  BY TakesByte
<1> QED
  BY <1>1, <1>2, <1>3, <1>4 DEF Steady

LEMMA NormReaches ==
  ASSUME TypeOK, InReach, handle_data, NEW x \in NormBytes, NormLeft(x)
  PROVE  InReach'
<1>1. Steady /\ Bounded /\ ext0 \in BOOLEAN /\ released \in BOOLEAN
  BY DEF InReach, TypeOK
<1>2. CASE wire = <<RELEASE, x>>
  <2>1. Head(wire) = RELEASE
    BY <1>2
  <2>2. /\ wire' = <<x>> /\ Steady' /\ Bounded' /\ ext0' = ext0
        /\ lost' = lost /\ whole' = whole
    BY <1>2, <2>1, ReleaseReaches
  <2>3. NormLeft(x)'
    BY <2>2 DEF NormLeft, Passed
  <2> QED
    BY <1>1, <2>2, <2>3 DEF InReach
<1>3. CASE wire = <<x>>
  <2>1. Head(wire) = x /\ Tail(wire) = <<>>
    BY <1>3
  <2>2. CASE LastByte
    BY <1>1, <2>1, <2>2, LastRests
  <2>3. CASE ~LastByte
    <3>1. ext0 = TRUE /\ ((x = 18 /\ released = FALSE) \/ (x = 124 /\ released = TRUE))
      BY <1>1, <2>1, <2>3 DEF LastByte, Steady
    <3>2. /\ ext0' = FALSE /\ expect' = 1 /\ scan_code_ptr' = scan_code_ptr + 1
          /\ UNCHANGED <<ext1, is_pause>>
      BY <1>1, <2>1, <3>1, OnPrtScDown, OnPrtScUp DEF Steady
    <3>3. wire' = <<>> /\ lost' = lost /\ whole' = whole
      BY <2>1, TakesByte
    <3>4. ~Passed(2)
      BY <3>1 DEF NormLeft
    <3>5. Rest'
      BY <3>2, <3>3, <3>4 DEF Rest, Passed
    <3>6. Bounded'
      BY <1>1, <3>2, ReachWire, BoundedStays
    <3>7. Steady'
      BY <1>1, <3>2 DEF Steady
    <3> QED
      BY <3>2, <3>5, <3>6, <3>7 DEF InReach
  <2> QED
    BY <2>2, <2>3
<1> QED
  BY <1>2, <1>3 DEF NormLeft

LEMMA ExtReaches ==
  ASSUME TypeOK, InReach, handle_data, NEW x \in ExtBytes, ExtLeft(x)
  PROVE  InReach'
<1>1. Steady /\ Bounded
  BY DEF InReach
<1>2. CASE wire = <<RELEASE, x>>
  <2>1. Head(wire) = RELEASE
    BY <1>2
  <2>2. wire' = <<x>> /\ Steady' /\ Bounded' /\ ext0' = ext0
    BY <1>2, <2>1, ReleaseReaches
  <2>3. ExtLeft(x)'
    BY <2>2 DEF ExtLeft
  <2> QED
    BY <1>1, <2>2, <2>3 DEF InReach
<1>3. CASE wire = <<x>>
  <2>1. Head(wire) = x /\ Tail(wire) = <<>>
    BY <1>3
  <2>2. LastByte
    BY <2>1 DEF LastByte, ExtBytes
  <2> QED
    BY <1>1, <2>1, <2>2, LastRests
<1>4. CASE wire = <<EMUL0, x>> \/ wire = <<EMUL0, RELEASE, x>>
  <2>1. Head(wire) = EMUL0
    BY <1>4
  <2>2. wire' = <<x>> \/ wire' = <<RELEASE, x>>
    BY <1>4, TakesByte, Tails
  <2>3. /\ ext0' = TRUE /\ expect' = 1 /\ scan_code_ptr' = scan_code_ptr + 1
        /\ UNCHANGED <<ext1, is_pause>>
    BY <1>1, <2>1, OnEmul0 DEF Steady
  <2>4. Bounded'
    BY <1>1, <2>3, ReachWire, BoundedStays
  <2>5. Steady'
    BY <1>1, <2>3 DEF Steady
  <2>6. ExtLeft(x)'
    BY <2>2 DEF ExtLeft
  <2> QED
    BY <2>3, <2>4, <2>5, <2>6 DEF InReach
<1> QED
  BY <1>2, <1>3, <1>4 DEF ExtLeft

LEMMA LostReaches ==
  ASSUME TypeOK, InReach, Lost
  PROVE  InReach'
<1>1. /\ wire # <<>> /\ wire' = Tail(wire) /\ lost' = lost + 1 /\ whole' = 0
      /\ UNCHANGED <<flags, scan_code_ptr, expect>>
  BY DEF Lost
<1>2. Steady'
  BY <1>1 DEF InReach, Steady, flags
<1>3. wire \in Seq(Int)
  BY ReachWire
<1>4. Len(wire') = Len(wire) - 1 /\ Len(wire) \in Nat
  BY <1>1, <1>3, HeadTailProperties, LenProperties
<1>5. Bounded'
  BY <1>1, <1>4 DEF InReach, Bounded, Fill, TypeOK
<1>6. ~Passed(1)' /\ ~Passed(2)'
  BY <1>1 DEF Passed, TypeOK
<1>7. CASE \E x \in NormBytes : NormLeft(x)
  <2>1. PICK x \in NormBytes : NormLeft(x)
    BY <1>7
  <2>2. wire' = <<>> \/ wire' = <<x>>
    BY <1>1, <2>1, Tails DEF NormLeft
  <2>3. Rest' \/ NormLeft(x)'
    BY <1>6, <2>2 DEF Rest, NormLeft
  <2> QED
    BY <1>2, <1>5, <2>3 DEF InReach
<1>8. CASE \E x \in ExtBytes : ExtLeft(x)
  <2>1. PICK x \in ExtBytes : ExtLeft(x)
    BY <1>8
  <2>2. wire' = <<>> \/ wire' = <<x>> \/ wire' = <<RELEASE, x>>
    BY <1>1, <2>1, Tails DEF ExtLeft
  <2>3. Rest' \/ ExtLeft(x)'
    BY <1>6, <2>2 DEF Rest, ExtLeft
  <2> QED
    BY <1>2, <1>5, <2>3 DEF InReach
<1> QED
  BY <1>1, <1>7, <1>8 DEF InReach, Rest

LEMMA StrokeReaches ==
  ASSUME TypeOK, InReach, NEW k \in Keys, NEW up \in BOOLEAN, Stroke(k, up),
         k # "PAUSE", k # "SYSRQ"
  PROVE  InReach'
<1>1. /\ wire = <<>> /\ lost' = lost /\ whole' = whole + 1
      /\ UNCHANGED <<flags, scan_code_ptr, expect>>
  BY DEF Stroke
<1>2. Steady' /\ ext0' = ext0
  BY <1>1 DEF InReach, Steady, flags
<1>3. Rest
  BY <1>1 DEF InReach, NormLeft, ExtLeft
<1>4. PICK x : \/ x \in NormBytes /\ (wire' = <<x>> \/ wire' = <<RELEASE, x>>)
               \/ x \in ExtBytes /\ (wire' = <<EMUL0, x>> \/ wire' = <<EMUL0, RELEASE, x>>)
  BY Codes
<1>5. Len(wire') \in 1..3
  BY <1>4
<1>6. Len(wire) = 0
  BY <1>1
<1>7. Bounded'
  <2>1. \A n \in Nat : scan_code_ptr <= n => Fill(n + 3)'
    <3> SUFFICES ASSUME NEW n \in Nat, scan_code_ptr <= n
                 PROVE  scan_code_ptr' + Len(wire') <= n + 3
      BY DEF Fill
    <3>1. scan_code_ptr' = scan_code_ptr /\ scan_code_ptr \in Nat
      BY <1>1 DEF TypeOK
    <3>2. PICK m \in 1..3 : Len(wire') = m
      BY <1>5
    <3> QED
      BY <3>1, <3>2
  <2>2. \A n \in Nat : Fill(n) => scan_code_ptr <= n
    BY <1>6 DEF Fill, TypeOK
  <2>3. Passed(2) => scan_code_ptr <= 0
    BY <1>3 DEF Rest, TypeOK
  <2>4. lost' = 0 => Fill(3)'
    BY <1>1, <2>1, <2>3 DEF Passed
  <2>5. lost' = 1 /\ whole' = 1 => Fill(5)'
    <3>1. lost = 1 /\ whole = 0 => Fill(5)'
      BY <2>1, <2>2 DEF InReach, Bounded
    <3> QED
      BY <1>1, <3>1 DEF TypeOK
  <2>6. lost' = 1 /\ whole' >= 2 => Fill(8)'
    <3>1. lost = 1 /\ whole = 1 => Fill(8)'
      BY <2>1, <2>2 DEF InReach, Bounded
    <3>2. whole >= 2 => Fill(8)'
      <4> SUFFICES ASSUME whole >= 2  PROVE Fill(8)'
        OBVIOUS
      <4>1. scan_code_ptr <= 5
        BY <2>3 DEF Passed, TypeOK
      <4> QED
        BY <2>1, <4>1
    <3> QED
      BY <1>1, <3>1, <3>2 DEF TypeOK
  <2>7. whole' # 0
    BY <1>1 DEF TypeOK
  <2> QED
    BY <2>4, <2>5, <2>6, <2>7 DEF Bounded
<1>8. Passed(2)' => ext0' = FALSE
  BY <1>1, <1>2, <1>3 DEF Rest, Passed, TypeOK
<1>9. (x \in NormBytes /\ NormLeft(x)') \/ (x \in ExtBytes /\ ExtLeft(x)')
  BY <1>4, <1>8 DEF NormLeft, ExtLeft
<1> QED
  BY <1>2, <1>7, <1>9 DEF InReach

LEMMA RecoverNext == RecoverInv /\ [Next]_vars => RecoverInv'
<1> SUFFICES ASSUME TypeOK, Recovers, [Next]_vars,
                    (~Typed("PAUSE"))', (~Typed("SYSRQ"))'
             PROVE  InReach'
  BY TypeNext DEF RecoverInv, Recovers
<1>1. CASE \E k \in Keys, up \in BOOLEAN : Stroke(k, up)
  <2>1. PICK k \in Keys, up \in BOOLEAN : Stroke(k, up)
    BY <1>1
  <2>2. /\ ~Typed("PAUSE") /\ k # "PAUSE"
        /\ ~Typed("SYSRQ") /\ k # "SYSRQ"
    BY <2>1, StrokeTypes
  <2> QED
    BY <2>1, <2>2, StrokeReaches DEF Recovers
<1>2. CASE Lost
  BY <1>2, LostReaches DEF Lost, Recovers, Typed
<1>3. CASE handle_data
  <2>1. InReach
    BY <1>3, TakesByte DEF Recovers, Typed
  <2>2. wire # <<>>
    BY <1>3, TakesByte
  <2> QED
    BY <1>3, <2>1, <2>2, NormReaches, ExtReaches DEF InReach, Rest
<1>4. CASE UNCHANGED vars
  BY <1>4 DEF vars, flags, Recovers, Typed, InReach, Steady, Bounded, Fill, Rest,
              NormLeft, ExtLeft, Passed
<1> QED
  BY <1>1, <1>2, <1>3, <1>4 DEF Next, Quiet

LEMMA RecoverAlways == Spec => []RecoverInv
<1>1. Init => RecoverInv
  <2> SUFFICES ASSUME Init  PROVE InReach
    BY TypeInit DEF RecoverInv, Recovers
  <2>1. Steady /\ Rest
    BY DEF Init, Steady, Rest
  <2>2. scan_code_ptr + Len(wire) = 0
    BY DEF Init
  <2> QED
    BY <2>1, <2>2 DEF InReach, Bounded, Fill
<1> QED
  BY <1>1, RecoverNext, PTL DEF Spec

\* Between two strokes handle_data starts afresh: without Pause as long as no
\* byte is lost; and without PrtSc too as soon as two whole strokes have
\* followed the lost bytes, however many there were.
THEOREM ResyncSafe == Spec => []Resynchronised
<1>1. FollowInv /\ RecoverInv => Resynchronised
  <2> SUFFICES ASSUME FollowInv, RecoverInv, wire = <<>>, ~Typed("PAUSE"),
                      lost = 0 \/ (whole >= 2 /\ ~Typed("SYSRQ"))
               PROVE  AtStart
    BY DEF Resynchronised
  <2>1. CASE lost = 0
    <3>1. Steady /\ Between
      BY <2>1, InStrokeWire DEF FollowInv, Follows
    <3> QED
      BY <3>1 DEF Steady, Between, At, AtStart
  <2>2. CASE whole >= 2 /\ ~Typed("SYSRQ")
    <3>1. Steady /\ Rest
      BY <2>2 DEF RecoverInv, Recovers, InReach, NormLeft, ExtLeft
    <3>2. Passed(1) /\ Passed(2)
      BY <2>2 DEF Passed, RecoverInv, TypeOK
    <3> QED
      BY <3>1, <3>2 DEF Steady, Rest, AtStart
  <2> QED
    BY <2>1, <2>2
<1> QED
  BY <1>1, FollowAlways, RecoverAlways, PTL

\* The bytes stored stay in scan_code_buf: without Pause as long as no byte is
\* lost, and without PrtSc when one byte is lost too.
THEOREM BufferSafe == Spec => []InBuffer
<1>1. FollowInv /\ RecoverInv => InBuffer
  <2> SUFFICES ASSUME FollowInv, RecoverInv, ~Typed("PAUSE"),
                      lost = 0 \/ (lost = 1 /\ ~Typed("SYSRQ"))
               PROVE  scan_code_ptr <= BUF
    BY DEF InBuffer
  <2>1. CASE lost = 0
    BY <2>1 DEF FollowInv, Follows, Between, InStroke, Norm, Ext, PrtSc, At, BUF
  <2>2. CASE lost = 1 /\ ~Typed("SYSRQ")
    <3>1. InReach /\ TypeOK
      BY <2>2 DEF RecoverInv, Recovers
    <3>2. Len(wire) \in Nat
      BY <3>1, ReachWire, LenProperties
    <3> QED
      BY <2>2, <3>1, <3>2 DEF InReach, Bounded, Fill, BUF, TypeOK
  <2> QED
    BY <2>1, <2>2
<1> QED
  BY <1>1, FollowAlways, RecoverAlways, PTL

-----------------------------------------------------------------------------
(* No byte lost, Pause too: its last byte leaves is_pause set, and expect   *)
(* too small by one; until the next complete scan code the flags may be    *)
(* anything, but nothing is looked up.                                     *)

Fresh ==
  /\ ext0 = FALSE /\ released = FALSE /\ ext1 = FALSE /\ is_sysrq = FALSE /\ expect = 1

PrtScDownLeft ==
  {<<EMUL0, 18, EMUL0, 124>>, <<18, EMUL0, 124>>, <<EMUL0, 124>>, <<124>>}
PrtScUpLeft ==
  {<<EMUL0, RELEASE, 124, EMUL0, RELEASE, 18>>, <<RELEASE, 124, EMUL0, RELEASE, 18>>,
   <<124, EMUL0, RELEASE, 18>>, <<EMUL0, RELEASE, 18>>, <<RELEASE, 18>>}
PauseLeft ==
  {<<EMUL1, 20, 119, EMUL1, RELEASE, 20, RELEASE, 119>>,
   <<20, 119, EMUL1, RELEASE, 20, RELEASE, 119>>,
   <<119, EMUL1, RELEASE, 20, RELEASE, 119>>, <<EMUL1, RELEASE, 20, RELEASE, 119>>,
   <<RELEASE, 20, RELEASE, 119>>, <<20, RELEASE, 119>>, <<RELEASE, 119>>, <<119>>}
NormsLeft(x) == {<<x>>, <<RELEASE, x>>}
ExtsLeft(x) == {<<x>>, <<RELEASE, x>>, <<EMUL0, x>>, <<EMUL0, RELEASE, x>>}

InAnyStroke ==
  \/ wire = <<>>
  \/ \E x \in NormBytes : wire \in NormsLeft(x)
  \/ \E x \in ExtBytes : wire \in ExtsLeft(x)
  \/ wire \in PrtScDownLeft \/ wire \in PrtScUpLeft \/ wire \in PauseLeft

Flags(r, e1, n) == ext0 = FALSE /\ is_sysrq = FALSE /\ released = r /\ ext1 = e1 /\ expect = n

\* The flags inside Pause, from its first byte on or from a later one
InPause ==
  \/ wire \in PauseLeft /\ Fresh
  \/ wire = <<20, 119, EMUL1, RELEASE, 20, RELEASE, 119>> /\ Flags(FALSE, TRUE, 2)
  \/ wire = <<119, EMUL1, RELEASE, 20, RELEASE, 119>> /\ Flags(FALSE, TRUE, 1)
  \/ wire = <<RELEASE, 20, RELEASE, 119>> /\ Flags(FALSE, TRUE, 2)
  \/ wire = <<20, RELEASE, 119>> /\ (Flags(TRUE, FALSE, 1) \/ Flags(TRUE, TRUE, 2))
  \/ wire = <<RELEASE, 119>> /\ Flags(TRUE, TRUE, 1)
  \/ wire = <<119>> /\ (Flags(TRUE, FALSE, 1) \/ Flags(TRUE, TRUE, 1))

InAnyOrder ==
  \/ wire = <<>> /\ Fresh
  \/ expect = 1 /\ ext1 = FALSE /\ ext0 = FALSE /\ is_sysrq = FALSE
     /\ \E x \in NormBytes : wire \in NormsLeft(x)
  \/ expect = 1 /\ ext1 = FALSE /\ \E x \in ExtBytes : wire \in ExtsLeft(x)
  \/ expect = 1 /\ ext1 = FALSE /\ released = FALSE /\ wire \in PrtScDownLeft
  \/ expect = 1 /\ ext1 = FALSE /\ wire \in PrtScUpLeft
  \/ expect = 1 /\ ext1 = FALSE /\ wire = <<18>> /\ released = TRUE
  \/ InPause

TableInv == lost = 0 => InAnyStroke /\ (is_pause = TRUE \/ InAnyOrder) /\ InTables

LEMMA FreshInOrder ==
  ASSUME InAnyStroke', Fresh'  PROVE InAnyOrder'
BY DEF InAnyStroke, InAnyOrder, InPause, Fresh

LEMMA PrtScTails ==
  /\ Tail(<<EMUL0, 18, EMUL0, 124>>) = <<18, EMUL0, 124>>
  /\ Tail(<<18, EMUL0, 124>>) = <<EMUL0, 124>>
  /\ Tail(<<EMUL0, RELEASE, 124, EMUL0, RELEASE, 18>>) = <<RELEASE, 124, EMUL0, RELEASE, 18>>
  /\ Tail(<<RELEASE, 124, EMUL0, RELEASE, 18>>) = <<124, EMUL0, RELEASE, 18>>
  /\ Tail(<<124, EMUL0, RELEASE, 18>>) = <<EMUL0, RELEASE, 18>>
  /\ Tail(<<EMUL0, RELEASE, 18>>) = <<RELEASE, 18>>
  /\ Tail(<<RELEASE, 18>>) = <<18>>
  /\ Tail(<<EMUL0, 124>>) = <<124>>
  /\ Tail(<<124>>) = <<>>
OBVIOUS

LEMMA PauseTails ==
  /\ Tail(<<EMUL1, 20, 119, EMUL1, RELEASE, 20, RELEASE, 119>>)
       = <<20, 119, EMUL1, RELEASE, 20, RELEASE, 119>>
  /\ Tail(<<20, 119, EMUL1, RELEASE, 20, RELEASE, 119>>)
       = <<119, EMUL1, RELEASE, 20, RELEASE, 119>>
  /\ Tail(<<119, EMUL1, RELEASE, 20, RELEASE, 119>>) = <<EMUL1, RELEASE, 20, RELEASE, 119>>
  /\ Tail(<<EMUL1, RELEASE, 20, RELEASE, 119>>) = <<RELEASE, 20, RELEASE, 119>>
  /\ Tail(<<RELEASE, 20, RELEASE, 119>>) = <<20, RELEASE, 119>>
  /\ Tail(<<20, RELEASE, 119>>) = <<RELEASE, 119>>
  /\ Tail(<<RELEASE, 119>>) = <<119>>
  /\ Tail(<<119>>) = <<>>
OBVIOUS

\* Taking a byte off what is left of a stroke leaves less of the stroke.
LEMMA TailLeft ==
  ASSUME InAnyStroke, wire # <<>>, wire' = Tail(wire)
  PROVE  InAnyStroke'
<1>1. CASE \E x \in NormBytes : wire \in NormsLeft(x)
  <2>1. PICK x \in NormBytes : wire \in NormsLeft(x)
    BY <1>1
  <2>2. wire' = <<>> \/ wire' \in NormsLeft(x)
    BY <2>1, Tails DEF NormsLeft
  <2> QED
    BY <2>2 DEF InAnyStroke, NormsLeft
<1>2. CASE \E x \in ExtBytes : wire \in ExtsLeft(x)
  <2>1. PICK x \in ExtBytes : wire \in ExtsLeft(x)
    BY <1>2
  <2>2. wire' = <<>> \/ wire' \in ExtsLeft(x)
    BY <2>1, Tails DEF ExtsLeft
  <2> QED
    BY <2>2 DEF InAnyStroke, ExtsLeft
<1>3. CASE wire \in PrtScDownLeft
  <2>1. wire' = <<>> \/ wire' \in PrtScDownLeft
    BY <1>3, PrtScTails, ZenonT(60) DEF PrtScDownLeft
  <2> QED
    BY <2>1 DEF InAnyStroke, PrtScDownLeft
<1>4. CASE wire \in PrtScUpLeft
  <2>1. wire' = <<18>> \/ wire' \in PrtScUpLeft
    BY <1>4, PrtScTails, ZenonT(60) DEF PrtScUpLeft
  <2> QED
    BY <2>1 DEF InAnyStroke, PrtScUpLeft, NormBytes, NormsLeft
<1>5. CASE wire \in PauseLeft
  <2>1. wire' = <<>> \/ wire' \in PauseLeft
    BY <1>5, PauseTails, ZenonT(60) DEF PauseLeft
  <2> QED
    BY <2>1 DEF InAnyStroke, PauseLeft
<1> QED
  BY <1>1, <1>2, <1>3, <1>4, <1>5 DEF InAnyStroke

\* What a step of handle_data may leave behind, and look up
Leaves == is_pause' = TRUE \/ Fresh' \/ InAnyOrder'

Looks ==
  \/ lookups' = lookups
  \/ /\ lookups' = lookups \union {<<ext0, Head(wire)>>}
     /\ Head(wire) < NORM_ENTRIES
     /\ ext0 = TRUE => Head(wire) < EXT_ENTRIES

LEMMA PauseStep ==
  ASSUME handle_data, is_pause = TRUE
  PROVE  Leaves /\ lookups' = lookups
<1>1. CASE Complete
  BY <1>1 DEF Complete, Reported, Leaves, Fresh
<1>2. CASE Emul1 \/ Emul0 \/ Release \/ PrtScPress \/ PrtScRelease \/ PauseLast \/ More
  BY <1>2 DEF Emul1, Emul0, Release, PrtScPress, PrtScRelease, PauseLast, More, Leaves,
              flags
<1> QED
  BY <1>1, <1>2 DEF handle_data

LEMMA LastLeaves ==
  ASSUME handle_data, LastByte, expect = 1, ext0 = TRUE => Head(wire) < EXT_ENTRIES
  PROVE  Leaves /\ Looks
<1>1. Fresh'
  BY OnLast DEF Fresh
<1>2. Head(wire) < NORM_ENTRIES
  BY DEF LastByte, NormBytes, ExtBytes, NORM_ENTRIES
<1>3. Looks
  BY <1>2, OnLast DEF Looks
<1> QED
  BY <1>1, <1>3 DEF Leaves

LEMMA NormLeaves ==
  ASSUME handle_data, expect = 1, ext1 = FALSE, ext0 = FALSE, is_sysrq = FALSE,
         NEW x \in NormBytes, wire \in NormsLeft(x)
  PROVE  Leaves /\ Looks
<1>1. CASE wire = <<x>>
  <2>1. LastByte
    BY <1>1 DEF LastByte
  <2> QED
    BY <2>1, LastLeaves
<1>2. CASE wire = <<RELEASE, x>>
  <2>1. Head(wire) = RELEASE /\ wire' = <<x>>
    BY <1>2, TakesByte
  <2>2. expect' = 1 /\ UNCHANGED <<ext0, ext1, is_sysrq, lookups>>
    BY <2>1, OnRelease
  <2>3. wire' \in NormsLeft(x)
    BY <2>1 DEF NormsLeft
  <2>4. InAnyOrder'
    BY <2>2, <2>3 DEF InAnyOrder, NormsLeft
  <2> QED
    BY <2>2, <2>4 DEF Leaves, Looks
<1> QED
  BY <1>1, <1>2 DEF NormsLeft

LEMMA ExtLeaves ==
  ASSUME handle_data, expect = 1, ext1 = FALSE,
         NEW x \in ExtBytes, wire \in ExtsLeft(x)
  PROVE  Leaves /\ Looks
<1>1. CASE wire = <<x>>
  <2>1. Head(wire) = x
    BY <1>1
  <2>2. LastByte /\ Head(wire) < EXT_ENTRIES
    BY <2>1 DEF LastByte, ExtBytes, EXT_ENTRIES
  <2> QED
    BY <2>2, LastLeaves
<1>2. CASE wire = <<RELEASE, x>> \/ wire = <<EMUL0, x>> \/ wire = <<EMUL0, RELEASE, x>>
  <2>1. Head(wire) \in {RELEASE, EMUL0}
    BY <1>2
  <2>2. wire' = <<x>> \/ wire' = <<RELEASE, x>>
    BY <1>2, TakesByte, Tails
  <2>3. expect' = 1 /\ UNCHANGED <<ext1, lookups>>
    BY <2>1, OnRelease, OnEmul0
  <2>4. wire' \in ExtsLeft(x)
    BY <2>2 DEF ExtsLeft
  <2>5. InAnyOrder'
    BY <2>3, <2>4 DEF InAnyOrder, ExtsLeft
  <2> QED
    BY <2>3, <2>5 DEF Leaves, Looks
<1> QED
  BY <1>1, <1>2 DEF ExtsLeft

LEMMA PrtScDownLeaves ==
  ASSUME TypeOK, handle_data, expect = 1, ext1 = FALSE, released = FALSE,
         wire \in PrtScDownLeft
  PROVE  Leaves /\ Looks
<1>1. CASE wire = <<EMUL0, 18, EMUL0, 124>> \/ wire = <<EMUL0, 124>>
  <2>1. Head(wire) = EMUL0
    BY <1>1
  <2>2. wire' = <<18, EMUL0, 124>> \/ wire' = <<124>>
    BY <1>1, TakesByte, PrtScTails
  <2>3. expect' = 1 /\ UNCHANGED <<released, ext1, lookups>>
    BY <2>1, OnEmul0
  <2>4. InAnyOrder'
    BY <2>2, <2>3 DEF InAnyOrder, PrtScDownLeft
  <2> QED
    BY <2>3, <2>4 DEF Leaves, Looks
<1>2. CASE wire = <<18, EMUL0, 124>> /\ ext0 = TRUE
  <2>1. Head(wire) = 18 /\ wire' = <<EMUL0, 124>>
    BY <1>2, TakesByte
  <2>2. expect' = 1 /\ UNCHANGED <<released, ext1, lookups>>
    BY <1>2, <2>1, OnPrtScDown
  <2>3. InAnyOrder'
    BY <2>1, <2>2 DEF InAnyOrder, PrtScDownLeft
  <2> QED
    BY <2>2, <2>3 DEF Leaves, Looks
<1>3. CASE (wire = <<18, EMUL0, 124>> /\ ext0 = FALSE) \/ wire = <<124>>
  <2>1. (Head(wire) = 18 /\ ext0 = FALSE) \/ Head(wire) = 124
    BY <1>3
  <2>2. LastByte /\ Head(wire) < EXT_ENTRIES
    BY <2>1 DEF LastByte, NormBytes, EXT_ENTRIES
  <2> QED
    BY <2>2, LastLeaves
<1> QED
  BY <1>1, <1>2, <1>3 DEF PrtScDownLeft, TypeOK

LEMMA PrtScUpLeaves ==
  ASSUME TypeOK, handle_data, expect = 1, ext1 = FALSE, wire \in PrtScUpLeft
  PROVE  Leaves /\ Looks
<1>1. CASE \/ wire = <<EMUL0, RELEASE, 124, EMUL0, RELEASE, 18>>
           \/ wire = <<EMUL0, RELEASE, 18>>
  <2>1. Head(wire) = EMUL0
    BY <1>1
  <2>2. wire' = <<RELEASE, 124, EMUL0, RELEASE, 18>> \/ wire' = <<RELEASE, 18>>
    BY <1>1, TakesByte, PrtScTails
  <2>3. expect' = 1 /\ UNCHANGED <<ext1, lookups>>
    BY <2>1, OnEmul0
  <2>4. InAnyOrder'
    BY <2>2, <2>3 DEF InAnyOrder, PrtScUpLeft
  <2> QED
    BY <2>3, <2>4 DEF Leaves, Looks
<1>2. CASE wire = <<RELEASE, 124, EMUL0, RELEASE, 18>> \/ wire = <<RELEASE, 18>>
  <2>1. Head(wire) = RELEASE
    BY <1>2
  <2>2. wire' = <<124, EMUL0, RELEASE, 18>> \/ wire' = <<18>>
    BY <1>2, TakesByte, PrtScTails
  <2>3. expect' = 1 /\ released' = TRUE /\ UNCHANGED <<ext1, lookups>>
    BY <2>1, OnRelease
  <2>4. InAnyOrder'
    BY <2>2, <2>3 DEF InAnyOrder, PrtScUpLeft
  <2> QED
    BY <2>3, <2>4 DEF Leaves, Looks
<1>3. CASE wire = <<124, EMUL0, RELEASE, 18>> /\ ext0 = TRUE /\ released = TRUE
  <2>1. Head(wire) = 124 /\ wire' = <<EMUL0, RELEASE, 18>>
    BY <1>3, TakesByte
  <2>2. expect' = 1 /\ UNCHANGED <<ext1, lookups>>
    BY <1>3, <2>1, OnPrtScUp
  <2>3. InAnyOrder'
    BY <2>1, <2>2 DEF InAnyOrder, PrtScUpLeft
  <2> QED
    BY <2>2, <2>3 DEF Leaves, Looks
<1>4. CASE wire = <<124, EMUL0, RELEASE, 18>> /\ (ext0 = FALSE \/ released = FALSE)
  <2>1. Head(wire) = 124
    BY <1>4
  <2>2. LastByte /\ Head(wire) < EXT_ENTRIES
    BY <1>4, <2>1 DEF LastByte, NormBytes, EXT_ENTRIES
  <2> QED
    BY <2>2, LastLeaves
<1> QED
  BY <1>1, <1>2, <1>3, <1>4 DEF PrtScUpLeft, TypeOK

\* Between its prefixes and its last byte, Pause looks up LEFTCTRL and NUMLOCK
\* at most.
LEMMA PauseLeaves ==
  ASSUME handle_data, InPause
  PROVE  Leaves /\ Looks
<1>1. CASE wire = <<EMUL1, 20, 119, EMUL1, RELEASE, 20, RELEASE, 119>> /\ Flags(FALSE, FALSE, 1)
  <2>1. Head(wire) = EMUL1 /\ wire' = <<20, 119, EMUL1, RELEASE, 20, RELEASE, 119>>
    BY <1>1, TakesByte, PauseTails
  <2>2. Flags(FALSE, TRUE, 2)' /\ lookups' = lookups
    BY <1>1, <2>1, OnEmul1 DEF Flags
  <2>3. InAnyOrder'
    BY <2>1, <2>2 DEF InAnyOrder, InPause, Flags
  <2> QED
    BY <2>2, <2>3 DEF Leaves, Looks
<1>2. CASE wire = <<EMUL1, RELEASE, 20, RELEASE, 119>> /\ Flags(FALSE, FALSE, 1)
  <2>1. Head(wire) = EMUL1 /\ wire' = <<RELEASE, 20, RELEASE, 119>>
    BY <1>2, TakesByte, PauseTails
  <2>2. Flags(FALSE, TRUE, 2)' /\ lookups' = lookups
    BY <1>2, <2>1, OnEmul1 DEF Flags
  <2>3. InAnyOrder'
    BY <2>1, <2>2 DEF InAnyOrder, InPause, Flags
  <2> QED
    BY <2>2, <2>3 DEF Leaves, Looks
<1>3. CASE wire = <<RELEASE, 20, RELEASE, 119>> /\ Flags(FALSE, FALSE, 1)
  <2>1. Head(wire) = RELEASE /\ wire' = <<20, RELEASE, 119>>
    BY <1>3, TakesByte, PauseTails
  <2>2. Flags(TRUE, FALSE, 1)' /\ lookups' = lookups
    BY <1>3, <2>1, OnRelease DEF Flags
  <2>3. InAnyOrder'
    BY <2>1, <2>2 DEF InAnyOrder, InPause, Flags
  <2> QED
    BY <2>2, <2>3 DEF Leaves, Looks
<1>4. CASE wire = <<RELEASE, 119>> /\ Flags(FALSE, FALSE, 1)
  <2>1. Head(wire) = RELEASE /\ wire' = <<119>>
    BY <1>4, TakesByte, PauseTails
  <2>2. Flags(TRUE, FALSE, 1)' /\ lookups' = lookups
    BY <1>4, <2>1, OnRelease DEF Flags
  <2>3. InAnyOrder'
    BY <2>1, <2>2 DEF InAnyOrder, InPause, Flags
  <2> QED
    BY <2>2, <2>3 DEF Leaves, Looks
<1>5. CASE wire = <<20, 119, EMUL1, RELEASE, 20, RELEASE, 119>> /\ Flags(FALSE, TRUE, 2)
  <2>1. Head(wire) = 20 /\ wire' = <<119, EMUL1, RELEASE, 20, RELEASE, 119>>
    BY <1>5, TakesByte, PauseTails
  <2>2. Flags(FALSE, TRUE, 1)' /\ lookups' = lookups
    BY <1>5, <2>1, OnMore DEF Flags, flags
  <2>3. InAnyOrder'
    BY <2>1, <2>2 DEF InAnyOrder, InPause, Flags
  <2> QED
    BY <2>2, <2>3 DEF Leaves, Looks
<1>6. CASE wire = <<RELEASE, 20, RELEASE, 119>> /\ Flags(FALSE, TRUE, 2)
  <2>1. Head(wire) = RELEASE /\ wire' = <<20, RELEASE, 119>>
    BY <1>6, TakesByte, PauseTails
  <2>2. Flags(TRUE, TRUE, 2)' /\ lookups' = lookups
    BY <1>6, <2>1, OnRelease DEF Flags
  <2>3. InAnyOrder'
    BY <2>1, <2>2 DEF InAnyOrder, InPause, Flags
  <2> QED
    BY <2>2, <2>3 DEF Leaves, Looks
<1>7. CASE wire = <<20, RELEASE, 119>> /\ Flags(TRUE, TRUE, 2)
  <2>1. Head(wire) = 20 /\ wire' = <<RELEASE, 119>>
    BY <1>7, TakesByte, PauseTails
  <2>2. Flags(TRUE, TRUE, 1)' /\ lookups' = lookups
    BY <1>7, <2>1, OnMore DEF Flags, flags
  <2>3. InAnyOrder'
    BY <2>1, <2>2 DEF InAnyOrder, InPause, Flags
  <2> QED
    BY <2>2, <2>3 DEF Leaves, Looks
<1>8. CASE wire = <<RELEASE, 119>> /\ Flags(TRUE, TRUE, 1)
  <2>1. Head(wire) = RELEASE /\ wire' = <<119>>
    BY <1>8, TakesByte, PauseTails
  <2>2. Flags(TRUE, TRUE, 1)' /\ lookups' = lookups
    BY <1>8, <2>1, OnRelease DEF Flags
  <2>3. InAnyOrder'
    BY <2>1, <2>2 DEF InAnyOrder, InPause, Flags
  <2> QED
    BY <2>2, <2>3 DEF Leaves, Looks
<1>9. CASE wire = <<119>> /\ Flags(TRUE, TRUE, 1)
  <2>1. Head(wire) = 119
    BY <1>9
  <2>2. is_pause' = TRUE /\ lookups' = lookups
    BY <1>9, <2>1, OnPauseEnds DEF Flags
  <2> QED
    BY <2>2 DEF Leaves, Looks
<1>10. CASE \/ wire = <<20, 119, EMUL1, RELEASE, 20, RELEASE, 119>> /\ Flags(FALSE, FALSE, 1)
            \/ wire = <<119, EMUL1, RELEASE, 20, RELEASE, 119>> /\ Flags(FALSE, FALSE, 1)
            \/ wire = <<20, RELEASE, 119>> /\ Flags(FALSE, FALSE, 1)
            \/ wire = <<119>> /\ Flags(FALSE, FALSE, 1)
            \/ wire = <<119, EMUL1, RELEASE, 20, RELEASE, 119>> /\ Flags(FALSE, TRUE, 1)
            \/ wire = <<20, RELEASE, 119>> /\ Flags(TRUE, FALSE, 1)
            \/ wire = <<119>> /\ Flags(TRUE, FALSE, 1)
  <2>1. Head(wire) \in {20, 119} /\ ~(ext1 = TRUE /\ released = TRUE) /\ ext0 = FALSE
    BY <1>10 DEF Flags
  <2>2. LastByte /\ expect = 1
    BY <1>10, <2>1 DEF LastByte, Flags
  <2> QED
    BY <2>1, <2>2, LastLeaves
<1>11. Fresh <=> Flags(FALSE, FALSE, 1)
  BY DEF Fresh, Flags
<1> QED
  BY <1>1, <1>2, <1>3, <1>4, <1>5, <1>6, <1>7, <1>8, <1>9, <1>10, <1>11, ZenonT(60)
     DEF InPause, PauseLeft

LEMMA OrderStep ==
  ASSUME TypeOK, InAnyOrder, handle_data
  PROVE  Leaves /\ Looks
<1>1. wire # <<>>
  BY TakesByte
<1>2. CASE expect = 1 /\ ext1 = FALSE /\ wire = <<18>> /\ released = TRUE
  <2>1. Head(wire) = 18
    BY <1>2
  <2>2. LastByte /\ Head(wire) < EXT_ENTRIES
    BY <1>2, <2>1 DEF LastByte, NormBytes, EXT_ENTRIES
  <2> QED
    BY <1>2, <2>2, LastLeaves
<1>3. CASE InPause
  BY <1>3, PauseLeaves
<1>4. CASE expect = 1 /\ ext1 = FALSE /\ ext0 = FALSE /\ is_sysrq = FALSE
           /\ \E x \in NormBytes : wire \in NormsLeft(x)
  BY <1>4, NormLeaves
<1>5. CASE expect = 1 /\ ext1 = FALSE /\ \E x \in ExtBytes : wire \in ExtsLeft(x)
  BY <1>5, ExtLeaves
<1>6. CASE expect = 1 /\ ext1 = FALSE /\ released = FALSE /\ wire \in PrtScDownLeft
  BY <1>6, PrtScDownLeaves
<1>7. CASE expect = 1 /\ ext1 = FALSE /\ wire \in PrtScUpLeft
  BY <1>7, PrtScUpLeaves
<1> QED
  BY <1>1, <1>2, <1>3, <1>4, <1>5, <1>6, <1>7 DEF InAnyOrder

LEMMA TableNext == TypeOK /\ TableInv /\ [Next]_vars => TableInv'
<1> SUFFICES ASSUME TypeOK, TableInv, [Next]_vars, lost' = 0
             PROVE  InAnyStroke' /\ (is_pause' = TRUE \/ InAnyOrder') /\ InTables'
  BY DEF TableInv
<1>1. CASE \E k \in Keys, up \in BOOLEAN : Stroke(k, up)
  <2>1. PICK k \in Keys, up \in BOOLEAN : Stroke(k, up)
    BY <1>1
  <2>2. /\ wire = <<>> /\ lost = 0 /\ lookups' = lookups
        /\ UNCHANGED <<flags, expect>>
    BY <2>1 DEF Stroke
  <2>3. is_pause = TRUE \/ Fresh
    BY <2>2 DEF TableInv, InAnyOrder, InPause, NormsLeft, ExtsLeft, PrtScDownLeft,
                PrtScUpLeft, PauseLeft
  <2>4. is_pause' = TRUE \/ Fresh'
    BY <2>2, <2>3 DEF flags, Fresh
  <2>5. InAnyStroke'
    <3>1. ASSUME NEW x \in NormBytes, wire' = <<x>> \/ wire' = <<RELEASE, x>>
          PROVE  InAnyStroke'
      BY <3>1 DEF InAnyStroke, NormsLeft
    <3>2. ASSUME NEW x \in ExtBytes,
                 wire' = <<EMUL0, x>> \/ wire' = <<EMUL0, RELEASE, x>>
          PROVE  InAnyStroke'
      BY <3>2 DEF InAnyStroke, ExtsLeft
    <3>3. ASSUME \/ wire' = <<EMUL0, 18, EMUL0, 124>>
                 \/ wire' = <<EMUL0, RELEASE, 124, EMUL0, RELEASE, 18>>
                 \/ wire' = <<EMUL1, 20, 119, EMUL1, RELEASE, 20, RELEASE, 119>>
          PROVE  InAnyStroke'
      BY <3>3 DEF InAnyStroke, PrtScDownLeft, PrtScUpLeft, PauseLeft
    <3> QED
      BY <2>1, <3>1, <3>2, <3>3, Codes
  <2>6. InTables'
    BY <2>2 DEF TableInv, InTables
  <2> QED
    BY <2>4, <2>5, <2>6, FreshInOrder
<1>2. CASE Lost
  BY <1>2 DEF Lost, TypeOK
<1>3. CASE handle_data
  <2>1. lost = 0 /\ wire # <<>> /\ wire' = Tail(wire)
    BY <1>3, TakesByte
  <2>2. InAnyStroke'
    BY <2>1, TailLeft DEF TableInv
  <2>3. Leaves /\ Looks
    BY <1>3, <2>1, PauseStep, OrderStep DEF TableInv, Looks
  <2>4. is_pause' = TRUE \/ InAnyOrder'
    BY <2>2, <2>3, FreshInOrder DEF Leaves
  <2>5. InTables'
    <3>1. \A l \in lookups : l[2] < (IF l[1] THEN EXT_ENTRIES ELSE NORM_ENTRIES)
      BY <2>1 DEF TableInv, InTables
    <3>2. Head(wire) < NORM_ENTRIES /\ (ext0 = TRUE => Head(wire) < EXT_ENTRIES)
          => Head(wire) < (IF ext0 THEN EXT_ENTRIES ELSE NORM_ENTRIES)
      BY DEF TypeOK
    <3>3. \A l \in {<<ext0, Head(wire)>>} : l[1] = ext0 /\ l[2] = Head(wire)
      OBVIOUS
    <3> QED
      BY <2>3, <3>1, <3>2, <3>3 DEF Looks, InTables
  <2> QED
    BY <2>2, <2>4, <2>5
<1>4. CASE UNCHANGED vars
  BY <1>4 DEF vars, flags, TableInv, InAnyStroke, InAnyOrder, InPause, Fresh, Flags,
              InTables
<1> QED
  BY <1>1, <1>2, <1>3, <1>4 DEF Next, Quiet

\* The tables of keycodes are read inside their 132 and 128 entries whatever is
\* typed, Pause included, as long as no byte is lost.
THEOREM TablesSafe == Spec => []InTables
<1>1. Init => TypeOK /\ TableInv
  BY TypeInit DEF Init, TableInv, InAnyStroke, InAnyOrder, Fresh, InTables
<1>2. (TypeOK /\ TableInv) /\ [Next]_vars => (TypeOK /\ TableInv)'
  BY TypeNext, TableNext
<1>3. TableInv => InTables
  BY DEF TableInv, InTables
<1> QED
  BY <1>1, <1>2, <1>3, PTL DEF Spec
=============================================================================
