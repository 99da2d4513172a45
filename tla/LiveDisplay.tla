----------------------------- MODULE LiveDisplay -----------------------------
(***************************************************************************)
(* The LiveDisplay service (hardware/livedisplay): display modes with a     *)
(* default that outlives the process, colour calibration and sunlight       *)
(* enhancement.  One thread serves the calls.  Streams are buffered: what   *)
(* setDisplayMode writes reaches a file when the stream is destroyed, after *)
(* the function has looked for errors, the mode last of all.                *)
(***************************************************************************)
EXTENDS Integers, Sequences

CONSTANTS
    Ids,          \* mode ids a client may ask for
    Calibrations, \* what a client may calibrate the colours to
    MaxCalls, MaxCrashes

VARIABLES
    at,           \* the place of the service: "down", "main", "idle", "setDefault", "default", "flushDefault", "flushMode"
    call,         \* the mode and makeDefault of the call in progress
    mDefaultModeId,
    mode, modeMax,   \* the kernel's mode and mode_max
    defaultFile,  \* a mode id, Empty or Absent
    rgb, lux,     \* the kernel's colours and lux
    result,       \* what the last setDisplayMode answered
    last,         \* history: the default last accepted
    lost,         \* history: a write failed unseen, or a crash cut one short
    calls, crashes

vars == <<at, call, mDefaultModeId, mode, modeMax, defaultFile, rgb, lux, result, last, lost, calls, crashes>>
panel == <<rgb, lux, modeMax>>

kModeMap == 0 .. 4
Empty  == -1
Absent == -2

Init ==
    /\ at = "down" /\ call = [id |-> 0, makeDefault |-> FALSE] /\ mDefaultModeId = 0
    /\ mode = 0 /\ modeMax \in {3, 5} /\ defaultFile = Absent
    /\ rgb \in Calibrations /\ lux = 0
    /\ result = "none" /\ last = 0 /\ lost = FALSE /\ calls = 0 /\ crashes = 0

-----------------------------------------------------------------------------
(* DisplayModes *)

\* What the constructor makes of the file: 0 for one that is not a known mode.
DefaultRead(file) == IF file \in {Empty, Absent} THEN 0 ELSE file

\* The constructor: a readable default is set as the mode, too.
Construct ==
    /\ at = "down"
    /\ mDefaultModeId' = DefaultRead(defaultFile)
    /\ call' = [id |-> mDefaultModeId', makeDefault |-> FALSE]
    /\ at' = IF defaultFile \in {Empty, Absent} THEN "main" ELSE "setDefault"
    /\ result' = "none"
    /\ UNCHANGED <<mode, defaultFile, panel, last, lost, calls, crashes>>

\* The kernel takes a mode it has; another write fails.
ModeWritten(id) == IF id < modeMax THEN id ELSE mode

SetDefault ==
    /\ at = "setDefault" /\ at' = "main"
    /\ mode' = ModeWritten(call.id)
    /\ UNCHANGED <<call, mDefaultModeId, defaultFile, panel, result, last, lost, calls, crashes>>

\* main: the three interfaces are registered, or the service ends.
Register ==
    /\ at = "main" /\ at' \in {"idle", "down"}
    /\ UNCHANGED <<call, mDefaultModeId, mode, defaultFile, panel, result, last, lost, calls, crashes>>

Known(id) == id \in kModeMap

\* setDisplayMode up to the first stream: an unknown mode, or no mode file.
setDisplayMode(id, makeDefault) ==
    /\ at = "idle" /\ calls < MaxCalls
    /\ calls' = calls + 1
    /\ call' = [id |-> id, makeDefault |-> makeDefault]
    /\ \/ at' = "idle" /\ result' = "false"
       \/ /\ Known(id)
          /\ at' = IF makeDefault THEN "default" ELSE "flushMode"
          /\ result' = "true"
    /\ UNCHANGED <<mDefaultModeId, mode, defaultFile, panel, last, lost, crashes>>

\* Opening the default file empties it.  When it cannot be opened the call
\* fails, but the mode is still in its stream and reaches the kernel.
OpenDefault ==
    /\ at = "default"
    /\ \/ at' = "flushMode" /\ result' = "false" /\ UNCHANGED <<defaultFile, mDefaultModeId, last>>
       \/ /\ at' = "flushDefault" /\ defaultFile' = Empty
          /\ mDefaultModeId' = call.id /\ last' = call.id
          /\ UNCHANGED result
    /\ UNCHANGED <<call, mode, panel, lost, calls, crashes>>

\* Fault: nothing is written when the mode has not changed.
FileWritten_Changed == IF call.id = mode THEN defaultFile ELSE call.id

\* The end of the default file's stream.
FileWritten == call.id

FlushDefault ==
    /\ at = "flushDefault" /\ at' = "flushMode"
    /\ \/ defaultFile' = FileWritten /\ UNCHANGED lost
       \/ lost' = TRUE /\ UNCHANGED defaultFile
    /\ UNCHANGED <<call, mDefaultModeId, mode, panel, result, last, calls, crashes>>

FlushMode ==
    /\ at = "flushMode" /\ at' = "idle"
    /\ mode' = ModeWritten(call.id)
    /\ UNCHANGED <<call, mDefaultModeId, defaultFile, panel, result, last, lost, calls, crashes>>

\* The mode that is reported, and the modes that are offered.
getCurrentDisplayMode == IF mode \in kModeMap THEN mode ELSE mDefaultModeId
getDisplayModes == {id \in kModeMap : id < modeMax}

-----------------------------------------------------------------------------
(* DisplayColorCalibration and SunlightEnhancement *)

\* A value is written as it comes, in range or not; the kernel may refuse it.
setCalibration(c) ==
    /\ at = "idle" /\ rgb' = c
    /\ UNCHANGED <<at, call, mDefaultModeId, mode, modeMax, defaultFile, lux, result, last, lost, calls, crashes>>

setEnabled(enabled) ==
    /\ at = "idle" /\ lux' = (IF enabled THEN 1 ELSE 0)
    /\ UNCHANGED <<at, call, mDefaultModeId, mode, modeMax, defaultFile, rgb, result, last, lost, calls, crashes>>

\* Another program sets the kernel's mode, known to the service or not.
OtherSetsMode ==
    /\ at = "idle" /\ mode' \in {2, 7} /\ result' = "none"
    /\ UNCHANGED <<at, call, mDefaultModeId, defaultFile, panel, last, lost, calls, crashes>>

\* The process ends; init starts it again.
Crash ==
    /\ at # "down" /\ crashes < MaxCrashes
    /\ at' = "down" /\ crashes' = crashes + 1
    /\ lost' = (lost \/ at = "flushDefault")
    /\ UNCHANGED <<call, mDefaultModeId, mode, defaultFile, panel, result, last, calls>>

-----------------------------------------------------------------------------
Next ==
    \/ Construct \/ SetDefault \/ Register \/ Crash \/ OtherSetsMode
    \/ \E id \in Ids, makeDefault \in BOOLEAN : setDisplayMode(id, makeDefault)
    \/ OpenDefault \/ FlushDefault \/ FlushMode
    \/ \E c \in Calibrations : setCalibration(c)
    \/ \E enabled \in BOOLEAN : setEnabled(enabled)
Spec == Init /\ [][Next]_vars

(* Properties *)

\* setDisplayMode: the default that was accepted last is the default after any
\* number of crashes and restarts, unless its write was lost.
DefaultSurvives == (at = "idle" /\ ~lost) => mDefaultModeId = last

\* The default that is kept is a known mode, and a call for an unknown mode
\* leaves no trace in the file, so that kModeMap.at never throws.
DefaultKnown == mDefaultModeId \in kModeMap /\ defaultFile \in kModeMap \cup {Empty, Absent}

\* A call that answers true has set the mode it was asked for, if that is one
\* that getDisplayModes offers; the others are accepted and refused unseen.
ModeApplied ==
    (at = "idle" /\ result = "true" /\ call.id \in getDisplayModes) => getCurrentDisplayMode = call.id

\* setDisplayMode over crashes: the mode and the default are the ones asked for, and
\* ones that exist.
DisplayInv == DefaultSurvives /\ DefaultKnown /\ ModeApplied
=============================================================================
