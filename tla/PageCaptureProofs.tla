-------------------------- MODULE PageCaptureProofs --------------------------
(***************************************************************************)
(* What PageCapture promises of one page, for any device that follows the  *)
(* rules of SANE and any sizes: the options hold when the scan starts,     *)
(* the image is not written beyond, the page is read to its end, and each  *)
(* loop comes nearer to its end.                                           *)
(***************************************************************************)
EXTENDS PageCapture, TLAPS

\* The loop of setOptions has dealt with the options it has passed: it never
\* passes one that it, or another option set since, leaves without its value.
PassedHold ==
  at = "options" =>
    \A o \in active : o < option /\ device.kind[o] = "value" => o \in held

\* The device is asked again only while there are tries left.
TriesInv == at \in {"options", "start"} => timeout > 0

\* Nothing is read before the image is allocated; then the next request is for
\* at least one byte, and for no more than is left, unless it is the first one.
BufferInv ==
  /\ at \in {"options", "start", "parameters"} => readSoFar = 0
  /\ at = "read" =>
       /\ total \in Nat
       /\ stillToRead > 0
       /\ bufferSize \in Nat \ {0}
       /\ bufferSize <= stillToRead \/ (readSoFar = 0 /\ bufferSize = Chunk)

TypeInv == CaptureTypeOK /\ TriesInv
OptionInv == TypeInv /\ PassedHold /\ OptionsHold
ReadInv == TypeInv /\ BufferInv /\ StaysInside /\ PageIsWhole

\* The rule of SANE that setOptions relies on, of the device at hand.
LEMMA DeviceObeys ==
  ASSUME device \in Devices
  PROVE  /\ device \in Device
         /\ \A o \in Option :
              /\ device.disturbs[o] \in SUBSET Option
              /\ device.wakes[o] \in SUBSET Option
              /\ o \notin device.reloads =>
                   device.disturbs[o] = {} /\ device.wakes[o] = {}
BY CaptureAssumption DEF Device, ObeysSane

LEMMA BoundsTyped ==
  /\ Options \in Nat
  /\ Chunk \in Nat \ {0}
  /\ \A n \in Totals : n \in Nat \ {0}
  /\ \A n \in Sizes : n \in Nat
  /\ MaxTries \in Nat \ {0}
  /\ MaxIdle \in Nat
BY CaptureAssumption

LEMMA InitCapture == CaptureInit => OptionInv /\ ReadInv
<1> SUFFICES ASSUME CaptureInit PROVE OptionInv /\ ReadInv
  OBVIOUS
<1> USE BoundsTyped DEF CaptureInit
<1>1. TypeInv
  <2>1. active \subseteq Option /\ held \subseteq Option
    BY DeviceObeys DEF Device
  <2>2. timeout \in 0 .. MaxTries /\ timeout > 0 /\ option \in 1 .. Options + 1
    OBVIOUS
  <2>3. idle \in 0 .. MaxIdle /\ rest \in Nat /\ bufferSize \in Int /\ readSoFar \in Nat
    OBVIOUS
  <2> QED BY <2>1, <2>2, <2>3 DEF TypeInv, CaptureTypeOK, TriesInv
<1>2. PassedHold /\ OptionsHold
  BY DeviceObeys DEF PassedHold, OptionsHold, Device, Option
<1>3. BufferInv /\ StaysInside /\ PageIsWhole
  BY DEF BufferInv, StaysInside, PageIsWhole
<1> QED BY <1>1, <1>2, <1>3 DEF OptionInv, ReadInv

------------------------------------------------------------------------------
LEMMA TypeStep ==
  ASSUME TypeInv, [CaptureNext]_captureVars
  PROVE  TypeInv'
<1> USE BoundsTyped DEF TypeInv, TriesInv, CaptureTypeOK, deviceVars, setVars, readVars, Option
<1>1. CASE RefuseOption
  BY <1>1 DEF RefuseOption, Fail
<1>2. CASE SkipOption
  BY <1>2 DEF SkipOption
<1>3. CASE SetValue
  <2>1. active' \subseteq Option /\ held' \subseteq Option
    BY <1>3, DeviceObeys DEF SetValue, Visiting, DeviceTakes, Fail
  <2>2. option' \in 1 .. Options + 1
    BY <1>3 DEF SetValue, Visiting, AfterSetting, Fail
  <2>5. request_resolution' \in BOOLEAN
    BY <1>3 DEF SetValue, NotedResolution, Fail
  <2>3. at = "options" /\ at' \in {"options", "failed"} /\ status' \in {"good", "error"}
    BY <1>3 DEF SetValue, Visiting, Fail
  <2>4. UNCHANGED <<device, timeout, readVars>>
    BY <1>3 DEF SetValue
  <2> QED BY <2>1, <2>2, <2>3, <2>4, <2>5
<1>4. CASE SetAuto
  <2>1. active' \subseteq Option /\ held' \subseteq Option
    BY <1>4, DeviceObeys DEF SetAuto, Visiting, DeviceTakes, GarbageFails, Fail
  <2>2. option' \in 1 .. Options + 1
    <3>1. option \in 1 .. Options
      BY <1>4 DEF SetAuto, Visiting
    <3>2. option' = option \/ option' = 1 \/ option' = option + 1
      BY <1>4 DEF SetAuto, AfterSetting, GarbageFails, Fail
    <3> QED BY <3>1, <3>2
  <2>5. request_resolution' \in BOOLEAN
    BY <1>4 DEF SetAuto, GarbageFails, Fail
  <2>3. at = "options" /\ at' \in {"options", "failed"}
    BY <1>4 DEF SetAuto, Visiting, GarbageFails, Fail
  <2>4. UNCHANGED <<device, status, timeout, readVars>>
    BY <1>4 DEF SetAuto
  <2> QED BY <2>1, <2>2, <2>3, <2>4, <2>5
<1>5. CASE SetNothing
  <2>1. active' = active /\ held' = held /\ at = "options" /\ at' \in {"options", "failed"}
    BY <1>5 DEF SetNothing, Visiting, GarbageFails, Fail
  <2>2. option' \in 1 .. Options + 1 /\ request_resolution' \in BOOLEAN
    BY <1>5 DEF SetNothing, Visiting, GarbageFails, Fail
  <2>3. UNCHANGED <<device, status, timeout, readVars>>
    BY <1>5 DEF SetNothing
  <2> QED BY <2>1, <2>2, <2>3
<1>6. CASE CrashOnNumber
  BY <1>6 DEF CrashOnNumber
<1>7. CASE OptionsDone
  BY <1>7 DEF OptionsDone
<1>8. CASE SaneStart
  <2>1. at' \in {"parameters", "start", "failed"} /\ status' \in {"good", "busy", "error"}
    BY <1>8 DEF SaneStart
  <2>2. timeout' \in 0 .. MaxTries
    BY <1>8 DEF SaneStart
  <2>3. at' = "start" => timeout' > 0
    BY <1>8 DEF SaneStart, LastTry
  <2>4. UNCHANGED <<device, deviceVars, setVars, readVars>>
    BY <1>8 DEF SaneStart
  <2> QED BY <2>1, <2>2, <2>3, <2>4
<1>9. CASE GetParameters
  <2>1. total' \in Totals \cup {0} /\ rest' \in Nat /\ bufferSize' \in Int
    BY <1>9 DEF GetParameters
  <2>2. readSoFar' \in Nat /\ idle' \in 0 .. MaxIdle /\ at' \in {"read", "failed"}
    BY <1>9 DEF GetParameters
  <2>3. UNCHANGED <<device, deviceVars, setVars, status, timeout>>
    BY <1>9 DEF GetParameters
  <2> QED BY <2>1, <2>2, <2>3
<1>10. CASE ReadSome
  BY <1>10 DEF ReadSome, Limited, Smaller, NothingLeft, stillToRead
<1>11. CASE ReadNothing
  BY <1>11 DEF ReadNothing
<1>12. CASE ReadEnds
  BY <1>12 DEF ReadEnds
<1>13. CASE UNCHANGED captureVars
  BY <1>13 DEF captureVars
<1> QED
  BY <1>1, <1>2, <1>3, <1>4, <1>5, <1>6, <1>7, <1>8, <1>9, <1>10, <1>11, <1>12, <1>13
  DEF CaptureNext, SetOptions

\* Setting an option that asks for no reload disturbs none of those before it.
LEMMA OptionStep ==
  ASSUME OptionInv, [CaptureNext]_captureVars
  PROVE  (PassedHold /\ OptionsHold)'
<1>1. /\ device \in Devices
      /\ active \subseteq 1 .. Options /\ active' \subseteq 1 .. Options
      /\ option \in 1 .. Options + 1 /\ Options \in Nat
      /\ PassedHold /\ OptionsHold
  BY BoundsTyped, TypeStep DEF OptionInv, TypeInv, CaptureTypeOK, Option
<1>2. CASE RefuseOption \/ CrashOnNumber
  <2>1. at' \notin {"options", "start", "parameters", "read", "done"}
    BY <1>2 DEF RefuseOption, CrashOnNumber, Fail
  <2> QED BY <2>1 DEF PassedHold, OptionsHold
<1>3. CASE SkipOption
  <2>1. /\ device' = device /\ active' = active /\ held' = held
        /\ option' = option + 1 /\ at = "options" /\ at' = "options"
    BY <1>3 DEF SkipOption, deviceVars
  <2>2. device.kind[option] = "hard" \/ option \notin active
    BY <1>3 DEF SkipOption
  <2> QED BY <1>1, <2>1, <2>2, "hard" # "value" DEF PassedHold, OptionsHold
<1>4. CASE SetValue
  <2>1. device' = device /\ at = "options" /\ at' \in {"options", "failed"}
    BY <1>4 DEF SetValue, Visiting, Fail
  <2>2. CASE at' = "failed"
    BY <2>2 DEF PassedHold, OptionsHold
  <2>3. CASE HasValue(option) /\ option' = option + 1 /\ UNCHANGED deviceVars
    BY <1>1, <2>1, <2>3 DEF PassedHold, OptionsHold, HasValue, deviceVars
  <2>4. CASE DeviceTakes(option, device.kind[option] # "rounding") /\ option' = AfterSetting(option)
    <3>1. CASE option \in device.reloads
      BY <1>1, <2>1, <2>4, <3>1 DEF AfterSetting, PassedHold, OptionsHold, DeviceTakes
    <3>2. CASE option \notin device.reloads
      <4>1. option \in Option
        BY <1>4, <1>1 DEF SetValue, Visiting, Option
      <4>2. device.disturbs[option] = {} /\ device.wakes[option] = {}
        BY <1>1, <3>2, <4>1, DeviceObeys
      <4>3. active' = active /\ held \ {option} \subseteq held' /\ option' = option + 1
        BY <2>4, <3>2, <4>2 DEF DeviceTakes, AfterSetting
      <4>4. device.kind[option] = "value" => option \in held'
        BY <2>4 DEF DeviceTakes
      <4>5. ASSUME NEW o \in active, o < option + 1, device.kind[o] = "value"
            PROVE  o \in held'
        <5>1. CASE o = option
          BY <4>4, <4>5, <5>1
        <5>2. CASE o # option
          <6>1. o < option
            BY <1>1, <4>5, <5>2
          <6> QED BY <1>1, <2>1, <4>3, <4>5, <5>2, <6>1 DEF PassedHold
        <5> QED BY <5>1, <5>2
      <4>6. PassedHold'
        BY <2>1, <4>3, <4>5 DEF PassedHold
      <4> QED BY <2>1, <4>6 DEF OptionsHold
    <3> QED BY <3>1, <3>2
  <2> QED BY <1>4, <2>2, <2>3, <2>4 DEF SetValue, Fail
<1>5. CASE SetAuto
  <2>1. device' = device /\ at = "options" /\ at' \in {"options", "failed"}
    BY <1>5 DEF SetAuto, Visiting, GarbageFails, Fail
  <2>2. CASE at' = "failed"
    BY <2>2 DEF PassedHold, OptionsHold
  <2>3. CASE DeviceTakes(option, FALSE) /\ option' = AfterSetting(option)
    <3>1. CASE option \in device.reloads
      BY <1>1, <2>1, <2>3, <3>1 DEF AfterSetting, PassedHold, OptionsHold, DeviceTakes
    <3>2. CASE option \notin device.reloads
      <4>1. option \in Option /\ device.kind[option] # "value"
        BY <1>5, <1>1 DEF SetAuto, Visiting, Option
      <4>2. device.disturbs[option] = {} /\ device.wakes[option] = {}
        BY <1>1, <3>2, <4>1, DeviceObeys
      <4>3. active' = active /\ held \ {option} \subseteq held' /\ option' = option + 1
        BY <2>3, <3>2, <4>2 DEF DeviceTakes, AfterSetting
      <4>4. ASSUME NEW o \in active, o < option + 1, device.kind[o] = "value"
            PROVE  o \in held'
        <5>1. o # option /\ o < option
          BY <1>1, <4>1, <4>4
        <5> QED BY <1>1, <2>1, <4>3, <4>4, <5>1 DEF PassedHold
      <4> QED BY <2>1, <4>3, <4>4 DEF PassedHold, OptionsHold
    <3> QED BY <3>1, <3>2
  <2> QED BY <1>5, <2>2, <2>3 DEF SetAuto, GarbageFails, Fail
<1>6. CASE SetNothing
  <2>1. device' = device /\ at = "options" /\ at' \in {"options", "failed"}
    BY <1>6 DEF SetNothing, Visiting, GarbageFails, Fail
  <2>2. CASE at' = "failed"
    BY <2>2 DEF PassedHold, OptionsHold
  <2>3. CASE option' = option + 1 /\ UNCHANGED deviceVars
    <3>1. device.kind[option] # "value"
      BY <1>6 DEF SetNothing, Visiting
    <3>2. ASSUME NEW o \in active, o < option + 1, device.kind[o] = "value"
          PROVE  o \in held
      <4>1. o # option /\ o < option
        BY <1>1, <3>1, <3>2
      <4> QED BY <2>1, <3>2, <4>1, <1>1 DEF PassedHold
    <3> QED BY <2>1, <2>3, <3>2 DEF PassedHold, OptionsHold, deviceVars
  <2> QED BY <1>6, <2>2, <2>3 DEF SetNothing, GarbageFails, Fail
<1>7. CASE OptionsDone
  <2>1. /\ device' = device /\ active' = active /\ held' = held
        /\ at = "options" /\ at' = "start" /\ option \notin Option
    BY <1>7 DEF OptionsDone, deviceVars
  <2>2. \A o \in active : o < option
    BY <1>1, <2>1 DEF Option
  <2> QED BY <1>1, <2>1, <2>2 DEF PassedHold, OptionsHold
<1>8. CASE SaneStart \/ GetParameters \/ ReadSome \/ ReadNothing \/ ReadEnds
  <2>1. /\ device' = device /\ active' = active /\ held' = held
        /\ at \in {"start", "parameters", "read"} /\ at' # "options"
    BY <1>8 DEF SaneStart, GetParameters, ReadSome, ReadNothing, ReadEnds, deviceVars
  <2> QED BY <1>1, <2>1 DEF PassedHold, OptionsHold
<1>9. CASE UNCHANGED captureVars
  BY <1>1, <1>9 DEF captureVars, deviceVars, setVars, PassedHold, OptionsHold
<1> QED
  BY <1>2, <1>3, <1>4, <1>5, <1>6, <1>7, <1>8, <1>9 DEF CaptureNext, SetOptions

------------------------------------------------------------------------------
\* Before the page is read only options and tries change.
LEMMA BeforeReading ==
  ASSUME ReadInv, SetOptions \/ SaneStart
  PROVE  (BufferInv /\ StaysInside /\ PageIsWhole)'
<1>1. UNCHANGED readVars
  BY DEF SetOptions, RefuseOption, SkipOption, SetValue, SetAuto, SetNothing,
    CrashOnNumber, OptionsDone, SaneStart
<1>2. at \in {"options", "start"}
  BY DEF SetOptions, RefuseOption, SkipOption, SetValue, SetAuto, SetNothing,
    CrashOnNumber, OptionsDone, SaneStart, Visiting
<1>3. at' \in {"options", "start", "parameters", "failed", "crashed"}
  BY <1>2 DEF SetOptions, RefuseOption, SkipOption, SetValue, SetAuto, SetNothing,
    CrashOnNumber, OptionsDone, SaneStart, Fail, GarbageFails
<1> QED
  BY <1>1, <1>2, <1>3 DEF readVars, ReadInv, BufferInv, StaysInside, PageIsWhole

\* A read that is asked for what is left at most leaves the buffer at least one
\* byte short of the end, or ends the page.
LEMMA ReadStep ==
  ASSUME ReadInv, [CaptureNext]_captureVars
  PROVE  (BufferInv /\ StaysInside /\ PageIsWhole)'
<1> USE BoundsTyped DEF ReadInv, TypeInv, CaptureTypeOK, readVars
<1>1. CASE SetOptions \/ SaneStart
  BY <1>1, BeforeReading
<1>2. CASE GetParameters
  BY <1>2 DEF GetParameters, BufferInv, StaysInside, PageIsWhole, stillToRead
<1>3. CASE ReadSome
  <2>1. PICK n \in 1 .. Smaller(bufferSize, rest) :
          /\ rest' = rest - n
          /\ readSoFar' = readSoFar + n
          /\ bufferSize' = Limited(IF n = bufferSize THEN bufferSize + Chunk ELSE bufferSize,
                                   stillToRead - n)
          /\ at' = IF stillToRead < n THEN "overrun"
                   ELSE IF NothingLeft(n) THEN "done" ELSE "read"
    BY <1>3 DEF ReadSome
  <2>2. /\ total \in Nat /\ total' = total /\ stillToRead \in Nat
        /\ n \in Nat \ {0} /\ n <= bufferSize
        /\ bufferSize <= stillToRead \/ (readSoFar = 0 /\ bufferSize = Chunk)
    BY <1>3 DEF ReadSome, BufferInv, Smaller, stillToRead
  <2>3. stillToRead' = stillToRead - n
    BY <2>1, <2>2 DEF stillToRead
  <2>4. StaysInside'
    BY <2>1, <2>2 DEF StaysInside, stillToRead
  <2>5. PageIsWhole'
    BY <2>1, <2>2 DEF PageIsWhole, NothingLeft, stillToRead
  <2>6. CASE at' = "read"
    <3>1. stillToRead - n \in Nat \ {0}
      BY <2>1, <2>2, <2>6 DEF NothingLeft
    <3>2. bufferSize' \in Nat \ {0} /\ bufferSize' <= stillToRead - n
      BY <2>1, <2>2, <3>1 DEF Limited, Smaller
    <3> QED BY <2>2, <2>3, <2>4, <2>5, <2>6, <3>1, <3>2 DEF BufferInv
  <2>7. CASE at' # "read"
    BY <2>1, <2>4, <2>5, <2>7 DEF BufferInv
  <2> QED BY <2>6, <2>7
<1>4. CASE ReadNothing
  BY <1>4 DEF ReadNothing, BufferInv, StaysInside, PageIsWhole, stillToRead
<1>5. CASE ReadEnds
  BY <1>5 DEF ReadEnds, BufferInv, StaysInside, PageIsWhole
<1>6. CASE UNCHANGED captureVars
  BY <1>6 DEF captureVars, BufferInv, StaysInside, PageIsWhole, stillToRead
<1> QED BY <1>1, <1>2, <1>3, <1>4, <1>5, <1>6 DEF CaptureNext

------------------------------------------------------------------------------
\* Everything keeps its type, for any number of options, tries and bytes.
THEOREM CaptureTypeCorrect == CaptureSpec => []CaptureTypeOK
<1>1. CaptureInit => TypeInv
  BY InitCapture DEF OptionInv
<1>2. TypeInv /\ [CaptureNext]_captureVars => TypeInv'
  BY TypeStep
<1>3. TypeInv => CaptureTypeOK
  BY DEF TypeInv
<1> QED BY <1>1, <1>2, <1>3, PTL DEF CaptureSpec

\* When the scan starts the device holds every value the program has for an
\* active option, however its options change and wake each other.
THEOREM ValuesHold == CaptureSpec => []OptionsHold
<1>1. CaptureInit => OptionInv
  BY InitCapture
<1>2. OptionInv /\ [CaptureNext]_captureVars => OptionInv'
  BY TypeStep, OptionStep DEF OptionInv
<1>3. OptionInv => OptionsHold
  BY DEF OptionInv
<1> QED BY <1>1, <1>2, <1>3, PTL DEF CaptureSpec

\* collectData writes inside its image, for any device and any image that is
\* not smaller than the first request.
THEOREM ImageIsEnough == CaptureSpec => []StaysInside
<1>1. CaptureInit => ReadInv
  BY InitCapture
<1>2. ReadInv /\ [CaptureNext]_captureVars => ReadInv'
  BY TypeStep, ReadStep DEF ReadInv
<1>3. ReadInv => StaysInside
  BY DEF ReadInv
<1> QED BY <1>1, <1>2, <1>3, PTL DEF CaptureSpec

\* A page without errors is read to its end, however its reads are cut.
THEOREM PagesAreWhole == CaptureSpec => []PageIsWhole
<1>1. CaptureInit => ReadInv
  BY InitCapture
<1>2. ReadInv /\ [CaptureNext]_captureVars => ReadInv'
  BY TypeStep, ReadStep DEF ReadInv
<1>3. ReadInv => PageIsWhole
  BY DEF ReadInv
<1> QED BY <1>1, <1>2, <1>3, PTL DEF CaptureSpec

------------------------------------------------------------------------------
(* Towards the end: the steps of CaptureEnds                               *)

\* The first half of Polite, of the device at hand: an option that is set at
\* each visit asks for no reload.
NoVainReload ==
  \A o \in Option :
    device.kind[o] \in {"rounding", "auto", "fallback"} => o \notin device.reloads

\* A step of the loop goes on to the next option, or it gains the value of one
\* and takes it from none but those that one disturbs.
StepGains ==
  at = "options" /\ at' = "options" /\ NoVainReload =>
    \/ option' = option + 1
    \/ /\ device.kind[option] = "value"
       /\ option \in held' \ held
       /\ held \ held' \subseteq device.disturbs[option]

LoopGains == [][StepGains]_captureVars

LEMMA GainStep ==
  ASSUME TypeInv, CaptureNext
  PROVE  StepGains
<1> SUFFICES ASSUME at = "options", at' = "options", NoVainReload
             PROVE  \/ option' = option + 1
                    \/ /\ device.kind[option] = "value"
                       /\ option \in held' \ held
                       /\ held \ held' \subseteq device.disturbs[option]
  BY DEF StepGains
<1>1. CASE SkipOption
  BY <1>1 DEF SkipOption
<1>2. CASE SetValue
  <2>1. option \in Option /\ device.kind[option] \in {"value", "rounding", "fallback"}
    BY <1>2 DEF SetValue, Visiting, TypeInv, CaptureTypeOK
  <2>2. CASE HasValue(option)
    BY <1>2, <2>2 DEF SetValue, Fail
  <2>3. CASE ~HasValue(option)
    <3>1. /\ DeviceTakes(option, device.kind[option] # "rounding")
          /\ option' = AfterSetting(option)
      BY <1>2, <2>3 DEF SetValue, Fail
    <3>2. CASE option \notin device.reloads
      BY <3>1, <3>2 DEF AfterSetting
    <3>3. CASE option \in device.reloads
      <4>1. device.kind[option] = "value"
        BY <2>1, <3>3 DEF NoVainReload
      <4>2. held' = (held \ (device.disturbs[option] \cup {option})) \cup {option}
        BY <3>1, <4>1 DEF DeviceTakes
      <4>3. option \in held' \ held
        BY <2>3, <4>2 DEF HasValue
      <4>4. held \ held' \subseteq device.disturbs[option]
        BY <4>2
      <4> QED BY <4>1, <4>3, <4>4
    <3> QED BY <3>2, <3>3
  <2> QED BY <2>2, <2>3
<1>3. CASE SetAuto
  <2>1. option \in Option /\ option \notin device.reloads
    BY <1>3 DEF SetAuto, Visiting, NoVainReload, TypeInv, CaptureTypeOK
  <2>2. option' = AfterSetting(option)
    BY <1>3 DEF SetAuto, GarbageFails, Fail
  <2> QED BY <2>1, <2>2 DEF AfterSetting
<1>4. CASE SetNothing
  BY <1>4 DEF SetNothing, GarbageFails, Fail
<1>5. CASE RefuseOption \/ CrashOnNumber \/ OptionsDone
  BY <1>5 DEF RefuseOption, CrashOnNumber, OptionsDone, Fail
<1>6. CASE SaneStart \/ GetParameters \/ ReadSome \/ ReadNothing \/ ReadEnds
  BY <1>6 DEF SaneStart, GetParameters, ReadSome, ReadNothing, ReadEnds
<1> QED BY <1>1, <1>2, <1>3, <1>4, <1>5, <1>6 DEF CaptureNext, SetOptions

\* What ends setOptions with a polite device: it starts again only for a value
\* it did not have, and that costs only the values the option disturbs.  As no
\* options disturb each other in a circle this cannot go on (the count of it,
\* a well-founded order, is left to the run).
THEOREM LoopGoesOn == CaptureSpec => LoopGains
<1>1. CaptureInit => TypeInv
  BY InitCapture DEF OptionInv
<1>2. TypeInv /\ [CaptureNext]_captureVars => TypeInv'
  BY TypeStep
<1>3. TypeInv /\ [CaptureNext]_captureVars => [StepGains]_captureVars
  BY GainStep
<1> QED BY <1>1, <1>2, <1>3, PTL DEF CaptureSpec, LoopGains

\* No read asks for nothing, which would bring nothing for ever, and the page is
\* over as soon as nothing of it is left.
AsksForSome == at = "read" => bufferSize > 0 /\ stillToRead > 0

\* A read always asks for something of a page that is not complete, and the
\* tries of sane_start do not run out unnoticed: what ends the other two loops.
THEOREM OtherLoopsGoOn == CaptureSpec => [](AsksForSome /\ TriesInv)
<1>1. CaptureInit => ReadInv
  BY InitCapture
<1>2. ReadInv /\ [CaptureNext]_captureVars => ReadInv'
  BY TypeStep, ReadStep DEF ReadInv
<1>3. ReadInv => AsksForSome /\ TriesInv
  BY DEF ReadInv, BufferInv, TypeInv, AsksForSome
<1> QED BY <1>1, <1>2, <1>3, PTL DEF CaptureSpec
=============================================================================
