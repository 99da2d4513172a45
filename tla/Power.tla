------------------------------- MODULE Power -------------------------------
(***************************************************************************)
(* The power HAL (hardware/power/Power.cpp): the single binder thread that *)
(* executes the calls of the framework, the detached threads of DELAY that *)
(* apply a profile 500 ms after the screen came on, and the detached       *)
(* threads of ASYNC that switch the touchkeys back on.  LOCK_PROTECTION is *)
(* off in Android.mk, so power_lock() is empty and nothing keeps these     *)
(* threads apart; STRICT_BEHAVIOUR is on.                                  *)
(*                                                                         *)
(* The sysfs files a profile sets are taken in the groups of setProfile:   *)
(* group 1 is the apollo cluster, group 2 the atlas cluster, the rest are  *)
(* cpusets, ipa, gpu, hmp, kernel, slow and input_booster.  A group holds  *)
(* the name of the profile whose settings were written last, or Other.     *)
(***************************************************************************)
EXTENDS Naturals, FiniteSets

CONSTANTS
    Delayed,      \* detached threads of DELAY
    KeyThreads,   \* detached threads of ASYNC
    NGroups,      \* number of groups of settings
    Sections,     \* Sections[p]: the groups profile p has settings for
    Selectable,   \* the profiles the SET_PROFILE hint is used with
    ModuleValues, \* the values the user gives the property sys.power.profiles
    MaxCalls,     \* bound on the calls of framework and user
    MaxFailures   \* bound on the failures of updateCpuGov

Binder == "binder"
Threads == Delayed \cup {Binder}
Groups == 1 .. NGroups
Clusters == 1 .. 2

Profiles == {"SCREEN_OFF", "POWER_SAVE", "BALANCED", "HIGH_PERFORMANCE",
             "BIAS_POWER_SAVE", "BIAS_PERFORMANCE"}
INVALID == "INVALID"
Other == "Other"

ASSUME GroupAssumption == NGroups \in Nat /\ NGroups >= 2
ASSUME SectionAssumption == Sections \in [Profiles -> SUBSET Groups]
ASSUME SelectableAssumption == Selectable \subseteq Profiles \ {"SCREEN_OFF"}
ASSUME ModuleAssumption == ModuleValues \subseteq BOOLEAN
ASSUME ThreadAssumption == Binder \notin Delayed
ASSUME BoundAssumption == MaxCalls \in Nat /\ MaxFailures \in Nat

VARIABLES
    mRequestedProfile, mCurrentProfile,
    files,              \* the settings each group of files holds
    run,                \* per thread: where it is in setProfile or after it
    moduleOn,           \* the property sys.power.profiles
    mVariant, mTouchkeysEnabled, mIsDT2WEnabled,
    keysFile,           \* POWER_TOUCHKEYS_ENABLED
    touchFile,          \* mTouchControlPath
    dt2wFile,           \* POWER_DT2W_ENABLED
    keyThread,          \* per ASYNC thread: idle, spawned or the value it writes
    awake,              \* the argument of the last setInteractive
    userKeys,           \* history: the user's choice for the touchkeys
    raced,              \* history: keysFile or mTouchkeysEnabled may have lost it
    wholeRun,           \* history: the last setProfile ran alone and to the end
    calls, failures     \* counters for the bounds

profileVars == <<mRequestedProfile, mCurrentProfile, files, run, wholeRun>>
inputVars == <<mTouchkeysEnabled, keysFile, touchFile, dt2wFile, keyThread>>
userVars == <<awake, userKeys, raced, moduleOn, mIsDT2WEnabled>>
vars == <<profileVars, inputVars, userVars, mVariant, calls, failures>>

\* A thread in setProfile: the argument, the profile whose data it applies, the
\* next group, what it does afterwards, and (history) whether it runs alone.
At(pc, p) == [pc |-> pc, prof |-> p, data |-> INVALID, grp |-> 1,
              after |-> "idle", alone |-> FALSE]
Idle == At("idle", INVALID)
Started(p, then, single) == [pc |-> "load", prof |-> p, data |-> INVALID,
                             grp |-> 1, after |-> then, alone |-> single]

Applying(t) == run[t].pc \in {"load", "write"}

\* The constructor has reached setProfile(BALANCED); setInputState(true) and
\* setFingerprintState(true) follow.  After boot the touchkeys are on.
Init ==
    /\ mRequestedProfile = "BALANCED" /\ mCurrentProfile = "BALANCED"
    /\ files = [g \in Groups |-> Other]
    /\ run = [t \in Threads |-> IF t = Binder
                                THEN Started("BALANCED", "inputOn", TRUE) ELSE Idle]
    /\ moduleOn = TRUE
    /\ mVariant \in {"FLAT", "EDGE"}
    /\ mTouchkeysEnabled = TRUE /\ mIsDT2WEnabled = FALSE
    /\ keysFile = TRUE /\ touchFile = TRUE /\ dt2wFile = FALSE
    /\ keyThread = [k \in KeyThreads |-> "idle"]
    /\ awake = TRUE /\ userKeys = TRUE /\ raced = FALSE
    /\ wholeRun = FALSE
    /\ calls = 0 /\ failures = 0

-----------------------------------------------------------------------------
(* setProfile *)

\* "store it": thread t enters setProfile(p).
Store(t, p, then) ==
    /\ mCurrentProfile' = p
    /\ run' = [u \in Threads |->
                 IF u = t THEN Started(p, then, \A v \in Threads \ {t} : ~Applying(v))
                 ELSE IF Applying(u) THEN [run[u] EXCEPT !.alone = FALSE] ELSE run[u]]

\* Thread t returns from setProfile.
Return(t, whole) ==
    /\ run' = [run EXCEPT ![t] = At(run[t].after, INVALID)]
    /\ wholeRun' = whole

unchangedByRun == <<mRequestedProfile, mCurrentProfile, inputVars, userVars,
                    mVariant, calls>>

\* Modules switched off end here.  Otherwise the data are those of
\* mCurrentProfile, which is read again.
Load(t) ==
    /\ run[t].pc = "load"
    /\ IF moduleOn
         THEN /\ run' = [run EXCEPT ![t].pc = "write", ![t].data = mCurrentProfile]
              /\ UNCHANGED wholeRun
         ELSE Return(t, FALSE)
    /\ UNCHANGED <<unchangedByRun, files, failures>>

\* Fault: the last group is forgotten.
WriteGroup_Short(t) ==
    /\ run[t].pc = "write"
    /\ files' = IF run[t].grp \in Sections[run[t].data]
                  THEN [files EXCEPT ![run[t].grp] = run[t].data] ELSE files
    /\ IF run[t].grp + 1 < NGroups
         THEN /\ run' = [run EXCEPT ![t].grp = @ + 1]
              /\ UNCHANGED wholeRun
         ELSE Return(t, run[t].alone)
    /\ UNCHANGED <<unchangedByRun, failures>>

\* One group of files is written, if the profile has settings for it.
WriteGroup(t) ==
    /\ run[t].pc = "write"
    /\ files' = IF run[t].grp \in Sections[run[t].data]
                  THEN [files EXCEPT ![run[t].grp] = run[t].data] ELSE files
    /\ IF run[t].grp < NGroups
         THEN /\ run' = [run EXCEPT ![t].grp = @ + 1]
              /\ UNCHANGED wholeRun
         ELSE Return(t, run[t].alone)
    /\ UNCHANGED <<unchangedByRun, failures>>

\* updateCpuGov fails after the governor was written: STRICT_BEHAVIOUR returns.
AbortCluster(t) ==
    /\ run[t].pc = "write"
    /\ failures < MaxFailures
    /\ run[t].grp \in Clusters \cap Sections[run[t].data]
    /\ files' = [files EXCEPT ![run[t].grp] = Other]
    /\ Return(t, FALSE)
    /\ failures' = failures + 1
    /\ UNCHANGED unchangedByRun

\* A thread of DELAY has slept and calls setProfile with the captured argument.
DelayOver(t) ==
    /\ run[t].pc = "sleep"
    /\ Store(t, run[t].prof, "idle")
    /\ UNCHANGED <<mRequestedProfile, files, wholeRun, inputVars, userVars,
                   mVariant, calls, failures>>

SetProfile(t) == Load(t) \/ WriteGroup(t) \/ AbortCluster(t)

-----------------------------------------------------------------------------
(* setInputState *)

\* setInputState(true): the touchkeys are left to a new thread, which reads
\* mTouchkeysEnabled when it runs.
InputOn ==
    /\ touchFile' = TRUE
    /\ IF mVariant = "EDGE" THEN UNCHANGED keyThread
       ELSE \E k \in KeyThreads : /\ keyThread[k] = "idle"
                                  /\ keyThread' = [keyThread EXCEPT ![k] = "spawned"]
    /\ dt2wFile' = mIsDT2WEnabled

\* The constructor enables all input devices.
ConstructorInput ==
    /\ run[Binder].pc = "inputOn"
    /\ InputOn
    /\ run' = [run EXCEPT ![Binder] = Idle]
    /\ UNCHANGED <<mRequestedProfile, mCurrentProfile, files, wholeRun, keysFile,
                   mTouchkeysEnabled, userVars, mVariant, calls, failures>>

\* Fault: the touchkeys are switched off before their state is saved.
ReadKeys_OffFirst ==
    /\ run[Binder].pc = "readKeys"
    /\ keysFile' = IF mVariant = "EDGE" THEN keysFile ELSE FALSE
    /\ mTouchkeysEnabled' = IF mVariant = "EDGE" THEN mTouchkeysEnabled ELSE FALSE
    /\ run' = [run EXCEPT ![Binder].pc = "inputOff"]
    /\ UNCHANGED <<mRequestedProfile, mCurrentProfile, files, wholeRun,
                   touchFile, dt2wFile, keyThread, userVars, mVariant, calls, failures>>

\* setInputState(false) saves the state of the touchkeys ...
ReadKeys ==
    /\ run[Binder].pc = "readKeys"
    /\ mTouchkeysEnabled' = IF mVariant = "EDGE" THEN mTouchkeysEnabled ELSE keysFile
    /\ run' = [run EXCEPT ![Binder].pc = "inputOff"]
    /\ UNCHANGED <<mRequestedProfile, mCurrentProfile, files, wholeRun, keysFile,
                   touchFile, dt2wFile, keyThread, userVars, mVariant, calls, failures>>

\* ... and switches the input devices off, the touchscreen unless DT2W needs it.
InputOff ==
    /\ run[Binder].pc = "inputOff"
    /\ keysFile' = IF mVariant = "EDGE" THEN keysFile ELSE FALSE
    /\ touchFile' = IF mIsDT2WEnabled THEN touchFile ELSE FALSE
    /\ dt2wFile' = mIsDT2WEnabled
    /\ run' = [run EXCEPT ![Binder] = Idle]
    /\ UNCHANGED <<mRequestedProfile, mCurrentProfile, files, wholeRun, keyThread,
                   mTouchkeysEnabled, userVars, mVariant, calls, failures>>

\* A thread of ASYNC evaluates mTouchkeysEnabled ...
KeyLoad(k) ==
    /\ keyThread[k] = "spawned"
    /\ keyThread' = [keyThread EXCEPT ![k] = IF mTouchkeysEnabled THEN "on" ELSE "off"]
    /\ UNCHANGED <<profileVars, mTouchkeysEnabled, keysFile, touchFile, dt2wFile,
                   userVars, mVariant, calls, failures>>

\* ... and writes it.
KeyWrite(k) ==
    /\ keyThread[k] \in {"on", "off"}
    /\ keysFile' = (keyThread[k] = "on")
    /\ keyThread' = [keyThread EXCEPT ![k] = "idle"]
    /\ UNCHANGED <<profileVars, mTouchkeysEnabled, touchFile, dt2wFile,
                   userVars, mVariant, calls, failures>>

KeysPending == \E k \in KeyThreads : keyThread[k] # "idle"
Constructing == run[Binder].pc = "inputOn" \/ run[Binder].after = "inputOn"

-----------------------------------------------------------------------------
(* Calls of the framework, one at a time: configureRpcThreadpool(1, true) *)

Call ==
    /\ run[Binder].pc = "idle"
    /\ calls < MaxCalls
    /\ calls' = calls + 1
    /\ UNCHANGED <<mVariant, failures>>

\* resetProfile: the profile it passes to setProfile.
ResetTarget == IF mRequestedProfile = INVALID THEN "BALANCED" ELSE mRequestedProfile

\* Fault: the profile in use is captured instead of the requested one.
ResetLater_Current ==
    \E t \in Delayed :
      /\ run[t].pc = "idle"
      /\ run' = [run EXCEPT ![t] = At("sleep", mCurrentProfile)]

\* resetProfile(500): a new thread sleeps with a copy of the target.
ResetLater ==
    \E t \in Delayed :
      /\ run[t].pc = "idle"
      /\ run' = [run EXCEPT ![t] = At("sleep", ResetTarget)]

\* setInteractive(true), after the screen was off or believed to be off.
SetInteractiveOn ==
    /\ Call
    /\ ~awake
    /\ awake' = TRUE
    /\ ResetLater
    /\ InputOn
    /\ UNCHANGED <<mRequestedProfile, mCurrentProfile, files, wholeRun, keysFile,
                   mTouchkeysEnabled, userKeys, raced, moduleOn, mIsDT2WEnabled>>

\* setInteractive(false) with a dark screen.  setInputState follows the profile.
SetInteractiveOff ==
    /\ Call
    /\ awake
    /\ awake' = FALSE
    /\ Store(Binder, "SCREEN_OFF", "readKeys")
    /\ raced' = (raced \/ KeysPending)
    /\ UNCHANGED <<mRequestedProfile, files, wholeRun, inputVars, userKeys,
                   moduleOn, mIsDT2WEnabled>>

\* setInteractive(false) while screenIsOn(), or with a brightness that cannot be
\* read: "not disabling interactive state when screen is still on".
SetInteractiveSkipped ==
    /\ Call
    /\ awake
    /\ awake' = FALSE
    /\ raced' = TRUE
    /\ UNCHANGED <<profileVars, inputVars, userKeys, moduleOn, mIsDT2WEnabled>>

\* powerHint(SET_PROFILE, p)
HintSetProfile ==
    /\ Call
    /\ \E p \in Selectable : /\ mRequestedProfile' = p
                             /\ Store(Binder, p, "idle")
    /\ UNCHANGED <<files, wholeRun, inputVars, userVars>>

\* powerHint(LOW_POWER, data), and SUSTAINED_PERFORMANCE and VR_MODE, which are
\* alike: a profile while data is set, otherwise resetProfile() with no delay.
HintMode ==
    /\ Call
    /\ \E p \in {"POWER_SAVE", "HIGH_PERFORMANCE", ResetTarget} : Store(Binder, p, "idle")
    /\ UNCHANGED <<mRequestedProfile, files, wholeRun, inputVars, userVars>>

\* setFeature(DOUBLE_TAP_TO_WAKE, activate)
SetFeature ==
    /\ Call
    /\ mIsDT2WEnabled' \in BOOLEAN
    /\ dt2wFile' = mIsDT2WEnabled'
    /\ UNCHANGED <<profileVars, mTouchkeysEnabled, keysFile, touchFile, keyThread,
                   awake, userKeys, raced, moduleOn>>

Framework ==
    \/ SetInteractiveOn \/ SetInteractiveOff \/ SetInteractiveSkipped
    \/ HintSetProfile \/ HintMode \/ SetFeature

-----------------------------------------------------------------------------
(* The user, at any time *)

\* External: the user switches the touchkeys while the device is awake.
UserSetsKeys ==
    /\ awake
    /\ calls < MaxCalls
    /\ keysFile' \in BOOLEAN
    /\ userKeys' = keysFile'
    /\ raced' = (KeysPending \/ Constructing)
    /\ calls' = calls + 1
    /\ UNCHANGED <<profileVars, mTouchkeysEnabled, touchFile, dt2wFile, keyThread,
                   awake, moduleOn, mIsDT2WEnabled, mVariant, failures>>

\* External: the user sets the property isModuleEnabled reads.
UserSetsModule ==
    /\ calls < MaxCalls
    /\ moduleOn' \in ModuleValues
    /\ calls' = calls + 1
    /\ UNCHANGED <<profileVars, inputVars, awake, userKeys, raced, mIsDT2WEnabled,
                   mVariant, failures>>

-----------------------------------------------------------------------------
HalStep ==
    \/ \E t \in Threads : SetProfile(t)
    \/ \E t \in Delayed : DelayOver(t)
    \/ ConstructorInput \/ ReadKeys \/ InputOff
    \/ \E k \in KeyThreads : KeyLoad(k) \/ KeyWrite(k)

Next == HalStep \/ Framework \/ UserSetsKeys \/ UserSetsModule

Spec == Init /\ [][Next]_vars

\* Threads that are started run on, those of DELAY once their sleep is over.
Fairness ==
    /\ \A t \in Threads : WF_vars(Load(t) \/ WriteGroup(t))
    /\ \A t \in Delayed : WF_vars(DelayOver(t))
    /\ WF_vars(ConstructorInput \/ ReadKeys \/ InputOff)
    /\ \A k \in KeyThreads : WF_vars(KeyLoad(k) \/ KeyWrite(k))

FairSpec == Spec /\ Fairness

-----------------------------------------------------------------------------
(* Properties *)

Runs == [pc : {"idle", "sleep", "load", "write", "readKeys", "inputOn", "inputOff"},
         prof : Profiles \cup {INVALID}, data : Profiles \cup {INVALID},
         grp : Groups, after : {"idle", "readKeys", "inputOn"}, alone : BOOLEAN]

ProfileTypeOK ==
    /\ mRequestedProfile \in Profiles /\ mCurrentProfile \in Profiles
    /\ files \in [Groups -> Profiles \cup {Other}]
    /\ run \in [Threads -> Runs]
    /\ \A t \in Threads : /\ run[t].pc = "write" => run[t].data \in Profiles
                          /\ run[t].pc \in {"sleep", "load", "write"}
                               => run[t].prof \in Profiles
    /\ wholeRun \in BOOLEAN /\ moduleOn \in BOOLEAN

InputTypeOK ==
    /\ mVariant \in {"FLAT", "EDGE"}
    /\ mTouchkeysEnabled \in BOOLEAN /\ mIsDT2WEnabled \in BOOLEAN
    /\ keysFile \in BOOLEAN /\ touchFile \in BOOLEAN /\ dt2wFile \in BOOLEAN
    /\ keyThread \in [KeyThreads -> {"idle", "spawned", "on", "off"}]
    /\ awake \in BOOLEAN /\ userKeys \in BOOLEAN /\ raced \in BOOLEAN

BoundsOK == calls \in 0 .. MaxCalls /\ failures \in 0 .. MaxFailures

\* Types of the members of Power, of the files and of the threads: the group
\* setProfile is at always exists, and a thread that writes has the data of a
\* profile, so getProfileData never returns nullptr.
TypeOK == ProfileTypeOK /\ InputTypeOK /\ BoundsOK

\* The settings in the files are those of mCurrentProfile.
InUse == \A g \in Sections[mCurrentProfile] : files[g] = mCurrentProfile
Quiet == \A t \in Threads : ~Applying(t)

\* After a setProfile that met no other one, was not cut short by
\* STRICT_BEHAVIOUR and was not switched off, every group of files the profile
\* has settings for holds them, and mCurrentProfile names that profile, even
\* though setProfile reads mCurrentProfile again after it stored it.
AppliedWhole == Quiet /\ wholeRun => InUse

\* What a thread that has setProfile for itself has done so far.
AloneRun(t) ==
    /\ \A u \in Threads \ {t} : ~Applying(u)
    /\ mCurrentProfile = run[t].prof
    /\ run[t].pc = "load" => run[t].grp = 1
    /\ run[t].pc = "write" =>
         /\ run[t].data = mCurrentProfile
         /\ \A g \in Sections[mCurrentProfile] :
              g < run[t].grp => files[g] = mCurrentProfile
AloneInv == \A t \in Threads : Applying(t) /\ run[t].alone => AloneRun(t)

\* The state of the touchkeys follows the user: it is in the file while the
\* device is awake and in mTouchkeysEnabled while it is off.
KeysSettled == ~KeysPending /\ run[Binder].pc = "idle" /\ mVariant = "FLAT"
KeysKept == KeysSettled => IF awake THEN keysFile = userKeys
                           ELSE mTouchkeysEnabled = userKeys /\ ~keysFile

\* setInputState saves the touchkeys before it switches them off, and restores
\* what it saved, so the user's choice survives any number of screen-off
\* periods, as long as no setInteractive(false) was skipped and neither the
\* user nor setInteractive(false) ran into a thread of ASYNC.
KeysKeptUnlessRaced == ~raced => KeysKept

\* Whenever the binder thread is idle the kernel has the DT2W state of
\* mIsDT2WEnabled and an awake device has its touchscreen on, also if DT2W was
\* switched on or off while the device was off and setInputState(false) had
\* left the touchscreen alone, or setInteractive(false) was skipped.
InputReady == run[Binder].pc = "idle" => /\ dt2wFile = mIsDT2WEnabled
                                         /\ awake => touchFile

\* A device that was switched on leaves the profile SCREEN_OFF, unless it is
\* switched off first: resetProfile(500) is never lost.
LeavesScreenOff == awake ~> (~awake \/ mCurrentProfile # "SCREEN_OFF")

\* setInteractive(true) makes the device usable: it leaves the throttled profile, and
\* its touchscreen and DT2W are as the user wants them, whatever was switched or
\* skipped while it was off.
AwakeDevice == LeavesScreenOff /\ []InputReady
=============================================================================
