----------------------------- MODULE PageCapture -----------------------------
(***************************************************************************)
(* One page as the SANE worker gets it from the scanner: the options are   *)
(* set (setOptions of src/src/scan.c, control_option and                   *)
(* setDefaultScannerOption of src/src/scanner.c), the scan is started and  *)
(* the image is read (internalDoScanningOperation, collectData).           *)
(*                                                                         *)
(* The device is not part of the program: its options, which of them       *)
(* change others, and how it answers each call are chosen at random, and   *)
(* the properties say what they ask of it.                                 *)
(***************************************************************************)
EXTENDS Integers

CONSTANTS
  Options,      \* how many options the device has (besides option 0)
  Resolution,   \* the one that is the scanning resolution
  Devices,      \* the devices
  Chunk,        \* 32768, by which bufferSize grows
  Totals,       \* sizes of a page by the parameters of the device
  Sizes,        \* sizes of the images the device may really have
  MaxTries,     \* 5, the value timeout starts from
  MaxIdle       \* bound on the reads in a row that bring nothing

Option == 1 .. Options

\* How setOptions deals with an option:
\*   "value"     it has a value for it, which the device can hold exactly;
\*   "rounding"  the device holds a value near the one it is given;
\*   "auto"      no value is known, the device may choose one (a text);
\*   "fallback"  the device may choose (a text), or else there is a value;
\*   "number"    the device may choose (a number or a boolean);
\*   "none"      none of the values it has is one of the device's;
\*   "hard"      a switch on the device; "both": by software and by a switch.
Kind == {"value", "rounding", "auto", "fallback", "number", "none", "hard", "both"}

\* A device: the kinds of its options, those it changes and those it activates
\* when one is set, those it asks to be reloaded after, those active at first.
Device == [kind : [Option -> Kind], disturbs : [Option -> SUBSET Option],
           wakes : [Option -> SUBSET Option], reloads : SUBSET Option,
           active : SUBSET Option]

\* It asks for a reload whenever the options changed (SANE's rule), and perhaps
\* at other times.
ObeysSane(d) ==
  \A o \in Option :
    /\ o \notin d.disturbs[o]
    /\ d.disturbs[o] \cup d.wakes[o] # {} => o \in d.reloads

ASSUME CaptureAssumption ==
  /\ Options \in Nat
  /\ Resolution \in Option
  /\ Devices \subseteq {d \in Device : ObeysSane(d)}
  /\ \A d \in Devices : d.kind[Resolution] \in {"value", "rounding", "hard", "both"}
  /\ Chunk \in Nat \ {0}
  /\ Totals \subseteq Nat \ {0}
  /\ Sizes \subseteq Nat
  /\ MaxTries \in Nat \ {0}
  /\ MaxIdle \in Nat

VARIABLES
  device,              \* the device (it does not change)
  active,              \* its active options
  held,                \* those that hold the value setOptions wants
  at,                  \* where internalDoScanningOperation is
  option,              \* the loop counter of setOptions
  status,              \* the result of the last call; "unset" has no value yet
  request_resolution,  \* was the resolution noted?
  timeout,             \* the tries of sane_start that are left
  total,               \* totbytes
  rest,                \* the bytes the device still has
  bufferSize,
  readSoFar,
  idle                 \* how many reads in a row brought nothing (for MaxIdle)

deviceVars == <<active, held>>
setVars == <<option, request_resolution>>
readVars == <<total, rest, bufferSize, readSoFar, idle>>
captureVars == <<device, deviceVars, at, setVars, status, timeout, readVars>>

CaptureInit ==
  /\ device \in Devices
  /\ active = device.active
  /\ held \in SUBSET {o \in Option : device.kind[o] \in {"value", "fallback"}}
  /\ at = "options"
  /\ option = 1
  /\ status = "unset"
  /\ request_resolution = FALSE
  /\ timeout = MaxTries
  /\ total = 0
  /\ rest = 0
  /\ bufferSize = 0
  /\ readSoFar = 0
  /\ idle = 0

stillToRead == total - readSoFar

------------------------------------------------------------------------------
(* setOptions                                                              *)

\* A status of the scan says what failed, and the worker is done.
Fail == at' = "failed" /\ UNCHANGED <<setVars, deviceVars>>

\* Mutant: the loop just goes on after a reload.
NeverRestart(o) == o + 1

\* The next option, or the first one when the device asks for a reload.
AfterSetting(o) == IF o \in device.reloads THEN 1 ELSE o + 1

NotedResolution == request_resolution' = (request_resolution \/ option = Resolution)

\* An option that both sides may set ends the scan, active or not.
RefuseOption ==
  /\ at = "options"
  /\ option \in Option
  /\ device.kind[option] = "both"
  /\ Fail
  /\ UNCHANGED <<device, status, timeout, readVars>>

\* An inactive option, and one that is a switch, is left alone.
SkipOption ==
  /\ at = "options"
  /\ option \in Option
  /\ device.kind[option] # "both"
  /\ device.kind[option] = "hard" \/ option \notin active
  /\ option' = option + 1
  /\ UNCHANGED <<device, deviceVars, at, request_resolution, status, timeout, readVars>>

Visiting(kinds) ==
  at = "options" /\ option \in active /\ device.kind[option] \in kinds

\* sane_control_option: the device takes a value for option o, which may be the
\* one that is wanted, and changes others.
DeviceTakes(o, exact) ==
  /\ held' = (held \ (device.disturbs[o] \cup {o})) \cup (IF exact THEN {o} ELSE {})
  /\ active' = active \cup device.wakes[o]

\* Mutant: the option is set although it has the value.
NeverHas(o) == FALSE

\* control_option asks the device first, so as not to set, and reload, again
\* and again.
HasValue(o) == o \in held

\* The value it should have is set, unless it has it; the device may refuse.
SetValue ==
  /\ Visiting({"value", "rounding", "fallback"})
  /\ \/ /\ HasValue(option)
        /\ status' = "good"
        /\ option' = option + 1
        /\ NotedResolution
        /\ UNCHANGED <<deviceVars, at>>
     \/ /\ ~HasValue(option)
        /\ DeviceTakes(option, device.kind[option] # "rounding")
        /\ status' = "good"
        /\ option' = AfterSetting(option)
        /\ NotedResolution
        /\ UNCHANGED at
     \/ /\ ~HasValue(option)
        /\ status' = "error"
        /\ Fail
  /\ UNCHANGED <<device, timeout, readVars>>

\* The check of status after an option that did not assign it: garbage, when
\* nothing was set so far, may pass for an error.
GarbageFails == status = "unset" /\ Fail

\* setDefaultScannerOption has the device choose; the text there is never equal
\* to the (null) it is compared with, so the option is set each time.  What the
\* device answers is not kept in status.
SetAuto ==
  /\ Visiting({"auto", "fallback"})
  /\ \/ GarbageFails
     \/ /\ DeviceTakes(option, FALSE)
        /\ option' = AfterSetting(option)
        /\ UNCHANGED <<at, request_resolution>>
  /\ UNCHANGED <<device, status, timeout, readVars>>

\* Nothing is set: the device refuses to choose, or there is nothing to set.
SetNothing ==
  /\ Visiting({"auto", "none"})
  /\ \/ GarbageFails
     \/ /\ option' = option + 1
        /\ UNCHANGED <<deviceVars, at, request_resolution>>
  /\ UNCHANGED <<device, status, timeout, readVars>>

\* control_option reads the value it is to set, and there is none when the
\* device is to choose a number: the worker crashes.
CrashOnNumber ==
  /\ Visiting({"number"})
  /\ at' = "crashed"
  /\ UNCHANGED <<device, deviceVars, setVars, status, timeout, readVars>>

OptionsDone ==
  /\ at = "options"
  /\ option \notin Option
  /\ at' = "start"
  /\ UNCHANGED <<device, deviceVars, setVars, status, timeout, readVars>>

SetOptions ==
  \/ RefuseOption \/ SkipOption \/ SetValue \/ SetAuto \/ SetNothing
  \/ CrashOnNumber \/ OptionsDone

------------------------------------------------------------------------------
(* internalDoScanningOperation, until the page is read                     *)

LastTry == timeout = 1

\* A busy device is asked again, MaxTries times in all.
SaneStart ==
  /\ at = "start"
  /\ \/ /\ status' = "good"
        /\ at' = "parameters"
        /\ UNCHANGED timeout
     \/ /\ status' = "busy"
        /\ timeout' = timeout - 1
        /\ at' = IF LastTry THEN "failed" ELSE "start"
     \/ /\ status' = "error"
        /\ at' = "failed"
        /\ UNCHANGED timeout
  /\ UNCHANGED <<device, deviceVars, setVars, readVars>>

\* Without a resolution, or with an image in three frames, the scan ends.
GetParameters ==
  /\ at = "parameters"
  /\ \/ /\ at' = "failed"
        /\ UNCHANGED readVars
     \/ /\ request_resolution
        /\ at' = "read"
        /\ total' \in Totals
        /\ rest' \in Sizes
        /\ bufferSize' = Chunk
        /\ UNCHANGED <<readSoFar, idle>>
  /\ UNCHANGED <<device, deviceVars, setVars, status, timeout>>

------------------------------------------------------------------------------
(* collectData                                                             *)

Smaller(a, b) == IF a < b THEN a ELSE b

\* Mutant: the buffer is not limited to what is left.
Unlimited(grown, left) == grown

\* The buffer of the next read never asks for more than is left of the page.
Limited(grown, left) == Smaller(grown, left)

\* Mutant: a read that brings less than was asked for ends the page.
ShortRead(n) == n < bufferSize \/ stillToRead - n = 0

NothingLeft(n) == stillToRead - n = 0

\* sane_read brings up to as many bytes as it is asked for; when it brings too
\* many they are written behind the image.
ReadSome ==
  /\ at = "read"
  /\ \E n \in 1 .. Smaller(bufferSize, rest) :
       /\ rest' = rest - n
       /\ readSoFar' = readSoFar + n
       /\ bufferSize' = Limited(IF n = bufferSize THEN bufferSize + Chunk ELSE bufferSize,
                                stillToRead - n)
       /\ at' = IF stillToRead < n THEN "overrun"
                ELSE IF NothingLeft(n) THEN "done" ELSE "read"
  /\ status' = "good"
  /\ idle' = 0
  /\ UNCHANGED <<device, deviceVars, setVars, timeout, total>>

\* A read may bring nothing and another is tried.
ReadNothing ==
  /\ at = "read"
  /\ idle < MaxIdle
  /\ idle' = idle + 1
  /\ status' = "good"
  /\ UNCHANGED <<device, deviceVars, at, setVars, timeout, total, rest, bufferSize, readSoFar>>

\* The end of the image, and an error, end the loop: what was read so far is
\* the page.
ReadEnds ==
  /\ at = "read"
  /\ \/ rest = 0 /\ status' = "eof"
     \/ status' = "error"
  /\ at' = "done"
  /\ UNCHANGED <<device, deviceVars, setVars, timeout, readVars>>

CaptureNext == SetOptions \/ SaneStart \/ GetParameters \/ ReadSome \/ ReadNothing \/ ReadEnds

CaptureSpec == CaptureInit /\ [][CaptureNext]_captureVars

\* The worker does nothing else.
FairCapture == CaptureSpec /\ WF_captureVars(CaptureNext)

------------------------------------------------------------------------------
(* Properties                                                              *)

CaptureTypeOK ==
  /\ device \in Devices
  /\ active \subseteq Option
  /\ held \subseteq Option
  /\ at \in {"options", "start", "parameters", "read", "done", "failed", "crashed", "overrun"}
  /\ option \in 1 .. Options + 1
  /\ status \in {"unset", "good", "error", "busy", "eof"}
  /\ request_resolution \in BOOLEAN
  /\ timeout \in 0 .. MaxTries
  /\ total \in Totals \cup {0}
  /\ rest \in Nat
  /\ bufferSize \in Int
  /\ readSoFar \in Nat
  /\ idle \in 0 .. MaxIdle

\* When the scan starts every active option the program has a value for holds
\* it, although setting one option changed and activated others, before it and
\* behind it, and some were set several times.
OptionsHold ==
  at \in {"start", "parameters", "read", "done"} =>
    \A o \in active : device.kind[o] = "value" => o \in held

\* What collectData writes stays inside the image it has allocated, also when
\* the device has more than its parameters said; only a page smaller than the
\* first request relies on the device.
StaysInside == at = "overrun" => total < Chunk

\* A page is read to the end of what there is, however the reads are cut, unless
\* the device reports an error (which is not told from the end of the page).
PageIsWhole ==
  at = "done" /\ status # "error" => readSoFar = total \/ rest = 0

\* No options change each other in a circle, and none that is set at each visit
\* asks for a reload: those are the devices setOptions comes to an end with.
Polite ==
  /\ \A o \in Option :
       device.kind[o] \in {"rounding", "auto", "fallback"} => o \notin device.reloads
  /\ \A S \in (SUBSET Option) \ {{}} : \E o \in S : device.disturbs[o] \cap S = {}

\* With such a device every capture ends: the options are not set over and over
\* again, and no read asks for nothing.
CaptureEnds ==
  (Polite /\ at = "options") ~> at \in {"done", "failed", "crashed", "overrun"}
==============================================================================
