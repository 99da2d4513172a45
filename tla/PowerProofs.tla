---------------------------- MODULE PowerProofs ----------------------------
(***************************************************************************)
(* Proofs about Power, for any number of detached threads, any groups of   *)
(* settings and any number of calls and failures, and about PowerProfiles, *)
(* for any documents, hints and governors.                                 *)
(***************************************************************************)
EXTENDS Power, ProfileFiles, TLAPS

LEMMA RecordTypes ==
    /\ Idle \in Runs
    /\ \A p \in Profiles, a \in {"idle", "readKeys", "inputOn"}, b \in BOOLEAN :
         /\ Started(p, a, b) \in Runs
         /\ Started(p, a, b).pc = "load" /\ Started(p, a, b).prof = p
         /\ Started(p, a, b).after = a /\ Started(p, a, b).alone = b
         /\ Started(p, a, b).grp = 1
  BY GroupAssumption DEF Idle, At, Started, Runs, Groups

\* setProfile entered by thread t: what Store does to every thread.
LEMMA StoreFacts ==
    ASSUME ProfileTypeOK, NEW t \in Threads, NEW p \in Profiles,
           NEW a \in {"idle", "readKeys"}, Store(t, p, a)
    PROVE  /\ run' \in [Threads -> Runs]
           /\ mCurrentProfile' = p
           /\ run'[t].pc = "load" /\ run'[t].prof = p /\ run'[t].after = a
           /\ run'[t].grp = 1
           /\ run'[t].alone => \A v \in Threads \ {t} : ~Applying(v)
           /\ \A u \in Threads \ {t} : /\ run'[u].pc = run[u].pc
                                       /\ run'[u].prof = run[u].prof
                                       /\ run'[u].data = run[u].data
                                       /\ run'[u].after = run[u].after
                                       /\ Applying(u) => ~run'[u].alone
  <1>1. \A u \in Threads : run[u] \in Runs
    BY DEF ProfileTypeOK
  <1> DEFINE single == \A v \in Threads \ {t} : ~Applying(v)
  <1>2. run' = [u \in Threads |-> IF u = t THEN Started(p, a, single)
                                  ELSE IF Applying(u) THEN [run[u] EXCEPT !.alone = FALSE]
                                  ELSE run[u]]
    BY DEF Store
  <1>3. single \in BOOLEAN
    OBVIOUS
  <1>4. run'[t] = Started(p, a, single)
    BY <1>2
  <1>5. /\ run'[t] \in Runs
        /\ run'[t].pc = "load" /\ run'[t].prof = p /\ run'[t].after = a
        /\ run'[t].grp = 1
        /\ run'[t].alone = single
    <2> HIDE DEF single
    <2> QED BY <1>3, <1>4, RecordTypes
  <1>6. ASSUME NEW u \in Threads \ {t}
        PROVE  /\ run'[u] \in Runs
               /\ run'[u].pc = run[u].pc /\ run'[u].prof = run[u].prof
               /\ run'[u].data = run[u].data /\ run'[u].after = run[u].after
               /\ Applying(u) => ~run'[u].alone
    <2>1. run'[u] = IF Applying(u) THEN [run[u] EXCEPT !.alone = FALSE] ELSE run[u]
      BY <1>2
    <2>2. run[u] \in Runs
      BY <1>1
    <2>3. CASE Applying(u)
      <3>1. run'[u] = [run[u] EXCEPT !.alone = FALSE]
        BY <2>1, <2>3
      <3> QED BY <2>2, <3>1 DEF Runs
    <2>4. CASE ~Applying(u)
      <3>1. run'[u] = run[u]
        BY <2>1, <2>4
      <3> QED BY <2>2, <2>4, <3>1
    <2> QED BY <2>3, <2>4
  <1>7. run' \in [Threads -> Runs]
    BY <1>2, <1>5, <1>6
  <1> QED BY <1>5, <1>6, <1>7 DEF Store

\* Thread t returns from setProfile.
LEMMA ReturnFacts ==
    ASSUME ProfileTypeOK, NEW t \in Threads, NEW w \in BOOLEAN, Return(t, w)
    PROVE  /\ run' \in [Threads -> Runs]
           /\ run'[t].pc = run[t].after /\ run'[t].after = "idle"
           /\ \A u \in Threads \ {t} : run'[u] = run[u]
           /\ wholeRun' = w
  <1>1. run[t] \in Runs /\ run \in [Threads -> Runs]
    BY DEF ProfileTypeOK
  <1>2. run'[t] = At(run[t].after, INVALID)
    BY <1>1 DEF Return
  <1>3. /\ run'[t] \in Runs
        /\ run'[t].pc = run[t].after /\ run'[t].after = "idle"
    BY <1>1, <1>2, GroupAssumption DEF At, Runs, Groups
  <1> QED BY <1>1, <1>3 DEF Return

LEMMA InitType == Init => TypeOK
  <1> SUFFICES ASSUME Init PROVE TypeOK
    OBVIOUS
  <1>0. Started("BALANCED", "inputOn", TRUE) \in Runs /\ Idle \in Runs
    BY RecordTypes DEF Profiles
  <1>1. run \in [Threads -> Runs]
    BY <1>0 DEF Init
  <1>2. ProfileTypeOK
    BY <1>1 DEF Init, ProfileTypeOK, Profiles, Started, Idle, At
  <1>3. InputTypeOK
    BY DEF Init, InputTypeOK
  <1>4. BoundsOK
    BY BoundAssumption DEF Init, BoundsOK
  <1> QED BY <1>2, <1>3, <1>4 DEF TypeOK

\* A single thread moves on inside its record.
LEMMA OneRun ==
    ASSUME ProfileTypeOK, NEW t \in Threads, NEW r \in Runs,
           run' = [run EXCEPT ![t] = r]
    PROVE  /\ run' \in [Threads -> Runs]
           /\ run'[t] = r
           /\ \A u \in Threads \ {t} : run'[u] = run[u]
  BY DEF ProfileTypeOK

LEMMA ResetTargetType == ProfileTypeOK => ResetTarget \in Profiles
  BY DEF ProfileTypeOK, ResetTarget, Profiles

LEMMA BinderIsThread == Binder \in Threads /\ \A t \in Delayed : t \in Threads
  BY DEF Threads

\* The actions that do not touch the state of setProfile at all.
LEMMA QuietActions ==
    ASSUME \/ SetInteractiveSkipped \/ SetFeature \/ UserSetsKeys
           \/ \E k \in KeyThreads : KeyLoad(k) \/ KeyWrite(k)
    PROVE  UNCHANGED <<profileVars, moduleOn>>
  BY DEF SetInteractiveSkipped, SetFeature, UserSetsKeys, KeyLoad, KeyWrite, userVars

LEMMA ProfileTypeStep == ProfileTypeOK /\ [Next]_vars => ProfileTypeOK'
  <1> SUFFICES ASSUME ProfileTypeOK, [Next]_vars PROVE ProfileTypeOK'
    OBVIOUS
  <1>a. \A t \in Threads : run[t] \in Runs
    BY DEF ProfileTypeOK
  <1>1. ASSUME NEW t \in Threads, Load(t) PROVE ProfileTypeOK'
    <2>1. CASE moduleOn
      <3>1. run'[t] = [run[t] EXCEPT !.pc = "write", !.data = mCurrentProfile]
        BY <1>1, <2>1 DEF Load, ProfileTypeOK
      <3>2. /\ run'[t] \in Runs /\ run'[t].data \in Profiles
            /\ run'[t].prof = run[t].prof
        BY <1>a, <3>1 DEF ProfileTypeOK, Runs
      <3>3. \A u \in Threads \ {t} : run'[u] = run[u]
        BY <1>1, <2>1 DEF Load, ProfileTypeOK
      <3>4. run' \in [Threads -> Runs]
        BY <1>1, <2>1, <3>2 DEF Load, ProfileTypeOK
      <3>5. run[t].pc = "load"
        BY <1>1 DEF Load
      <3> QED
        BY <1>1, <2>1, <3>2, <3>3, <3>4, <3>5
        DEF Load, ProfileTypeOK, unchangedByRun, userVars
    <2>2. CASE ~moduleOn
      <3>1. Return(t, FALSE)
        BY <1>1, <2>2 DEF Load
      <3>2. run[t].after \in {"idle", "readKeys", "inputOn"}
        BY <1>a DEF Runs
      <3> QED
        BY <1>1, <3>1, <3>2, ReturnFacts DEF Load, ProfileTypeOK, unchangedByRun, userVars
    <2> QED BY <2>1, <2>2
  <1>2. ASSUME NEW t \in Threads, WriteGroup(t) PROVE ProfileTypeOK'
    <2>1. run[t].data \in Profiles /\ run[t].grp \in Groups /\ run[t].alone \in BOOLEAN
      BY <1>2, <1>a DEF WriteGroup, ProfileTypeOK, Runs
    <2>2. files' \in [Groups -> Profiles \cup {Other}]
      BY <1>2, <2>1 DEF WriteGroup, ProfileTypeOK
    <2>3. CASE run[t].grp < NGroups
      <3>1. run'[t] = [run[t] EXCEPT !.grp = @ + 1]
        BY <1>2, <2>3 DEF WriteGroup, ProfileTypeOK
      <3>2. run[t].grp + 1 \in Groups
        BY <2>1, <2>3, GroupAssumption DEF Groups
      <3>3. /\ run'[t] \in Runs /\ run'[t].data = run[t].data
            /\ run'[t].prof = run[t].prof /\ run'[t].pc = run[t].pc
        BY <1>a, <3>1, <3>2 DEF Runs
      <3>4. \A u \in Threads \ {t} : run'[u] = run[u]
        BY <1>2, <2>3 DEF WriteGroup, ProfileTypeOK
      <3>5. run' \in [Threads -> Runs]
        BY <1>2, <2>3, <3>3 DEF WriteGroup, ProfileTypeOK
      <3> QED
        BY <1>2, <2>2, <2>3, <3>3, <3>4, <3>5
        DEF WriteGroup, ProfileTypeOK, unchangedByRun, userVars
    <2>4. CASE ~(run[t].grp < NGroups)
      <3>1. Return(t, run[t].alone)
        BY <1>2, <2>4 DEF WriteGroup
      <3>2. run[t].after \in {"idle", "readKeys", "inputOn"}
        BY <1>a DEF Runs
      <3> QED
        BY <1>2, <2>1, <2>2, <3>1, <3>2, ReturnFacts
        DEF WriteGroup, ProfileTypeOK, unchangedByRun, userVars
    <2> QED BY <2>3, <2>4
  <1>3. ASSUME NEW t \in Threads, AbortCluster(t) PROVE ProfileTypeOK'
    <2>1. run[t].after \in {"idle", "readKeys", "inputOn"}
      BY <1>a DEF Runs
    <2>2. files' \in [Groups -> Profiles \cup {Other}]
      BY <1>3 DEF AbortCluster, ProfileTypeOK
    <2>3. Return(t, FALSE)
      BY <1>3 DEF AbortCluster
    <2> QED
      BY <1>3, <2>1, <2>2, <2>3, ReturnFacts
      DEF AbortCluster, ProfileTypeOK, unchangedByRun, userVars
  <1>4. ASSUME NEW t \in Threads, NEW p \in Profiles, NEW a \in {"idle", "readKeys"},
               Store(t, p, a), mRequestedProfile' \in Profiles,
               UNCHANGED <<files, wholeRun, moduleOn>>
        PROVE  ProfileTypeOK'
    <2>1. /\ run' \in [Threads -> Runs] /\ mCurrentProfile' = p
          /\ run'[t].pc = "load" /\ run'[t].prof = p
          /\ \A u \in Threads \ {t} : /\ run'[u].pc = run[u].pc
                                      /\ run'[u].prof = run[u].prof
                                      /\ run'[u].data = run[u].data
      BY <1>4, StoreFacts
    <2>2. ASSUME NEW u \in Threads
          PROVE  /\ run'[u].pc = "write" => run'[u].data \in Profiles
                 /\ run'[u].pc \in {"sleep", "load", "write"} => run'[u].prof \in Profiles
      BY <2>1 DEF ProfileTypeOK
    <2> QED BY <1>4, <2>1, <2>2 DEF ProfileTypeOK
  <1>5. ASSUME NEW t \in Delayed, DelayOver(t) PROVE ProfileTypeOK'
    BY <1>4, <1>5, BinderIsThread DEF DelayOver, ProfileTypeOK, userVars
  <1>6. ASSUME NEW t \in Threads, NEW r \in Runs, r.pc \notin {"write", "load"},
               r.pc = "sleep" => r.prof \in Profiles,
               run' = [run EXCEPT ![t] = r],
               UNCHANGED <<mRequestedProfile, mCurrentProfile, files, wholeRun, moduleOn>>
        PROVE  ProfileTypeOK'
    BY <1>6, OneRun DEF ProfileTypeOK
  <1>7. ASSUME ConstructorInput \/ InputOff PROVE ProfileTypeOK'
    <2>1. Idle.pc = "idle"
      BY DEF Idle, At
    <2>2. /\ run' = [run EXCEPT ![Binder] = Idle]
          /\ UNCHANGED <<mRequestedProfile, mCurrentProfile, files, wholeRun, moduleOn>>
      BY <1>7 DEF ConstructorInput, InputOff, userVars
    <2> QED BY <1>6, <2>1, <2>2, RecordTypes, BinderIsThread
  <1>8. ASSUME ReadKeys PROVE ProfileTypeOK'
    <2> DEFINE r == [run[Binder] EXCEPT !.pc = "inputOff"]
    <2>1. r \in Runs /\ r.pc = "inputOff"
      BY <1>a, BinderIsThread DEF Runs
    <2>2. run' = [run EXCEPT ![Binder] = r]
      BY <1>8 DEF ReadKeys
    <2>3. UNCHANGED <<mRequestedProfile, mCurrentProfile, files, wholeRun, moduleOn>>
      BY <1>8 DEF ReadKeys, userVars
    <2> HIDE DEF r
    <2> QED BY <1>6, <2>1, <2>2, <2>3, BinderIsThread
  <1>9. ASSUME SetInteractiveOn PROVE ProfileTypeOK'
    <2>1. PICK t \in Delayed : run' = [run EXCEPT ![t] = At("sleep", ResetTarget)]
      BY <1>9 DEF SetInteractiveOn, ResetLater
    <2>2. /\ At("sleep", ResetTarget) \in Runs
          /\ At("sleep", ResetTarget).pc = "sleep"
          /\ At("sleep", ResetTarget).prof \in Profiles
      BY ResetTargetType, GroupAssumption DEF At, Runs, Groups
    <2>3. UNCHANGED <<mRequestedProfile, mCurrentProfile, files, wholeRun, moduleOn>>
      BY <1>9 DEF SetInteractiveOn
    <2> QED BY <1>6, <2>1, <2>2, <2>3, BinderIsThread
  <1>10. ASSUME SetInteractiveOff PROVE ProfileTypeOK'
    BY <1>4, <1>10, BinderIsThread DEF SetInteractiveOff, ProfileTypeOK, Profiles
  <1>11. ASSUME HintSetProfile PROVE ProfileTypeOK'
    BY <1>4, <1>11, BinderIsThread, SelectableAssumption DEF HintSetProfile, userVars
  <1>12. ASSUME HintMode PROVE ProfileTypeOK'
    <2>1. PICK p \in {"POWER_SAVE", "HIGH_PERFORMANCE", ResetTarget} :
            Store(Binder, p, "idle")
      BY <1>12 DEF HintMode
    <2>2. p \in Profiles
      BY ResetTargetType DEF Profiles
    <2> QED BY <1>4, <1>12, <2>1, <2>2, BinderIsThread DEF HintMode, userVars, ProfileTypeOK
  <1>13. ASSUME UserSetsModule PROVE ProfileTypeOK'
    BY <1>13, ModuleAssumption DEF UserSetsModule, profileVars, ProfileTypeOK
  <1>14. ASSUME UNCHANGED <<profileVars, moduleOn>> PROVE ProfileTypeOK'
    BY <1>14 DEF profileVars, ProfileTypeOK
  <1>15. CASE UNCHANGED vars
    BY <1>14, <1>15 DEF vars, userVars
  <1> QED
    BY <1>1, <1>2, <1>3, <1>5, <1>7, <1>8, <1>9, <1>10, <1>11, <1>12, <1>13, <1>14,
       <1>15, QuietActions
    DEF Next, HalStep, Framework, SetProfile

LEMMA InputTypeStep == InputTypeOK /\ [Next]_vars => InputTypeOK'
  <1> SUFFICES ASSUME InputTypeOK, [Next]_vars PROVE InputTypeOK'
    OBVIOUS
  <1> USE DEF InputTypeOK, inputVars, userVars
  <1>1. ASSUME NEW t \in Threads, SetProfile(t) PROVE InputTypeOK'
    <2>1. UNCHANGED <<inputVars, userVars, mVariant>>
      BY <1>1 DEF SetProfile, Load, WriteGroup, AbortCluster, unchangedByRun
    <2> QED BY <2>1
  <1>2. ASSUME NEW t \in Delayed, DelayOver(t) PROVE InputTypeOK'
    BY <1>2 DEF DelayOver
  <1>3. ASSUME InputOn
        PROVE  /\ touchFile' \in BOOLEAN /\ dt2wFile' \in BOOLEAN
               /\ keyThread' \in [KeyThreads -> {"idle", "spawned", "on", "off"}]
    BY <1>3 DEF InputOn
  <1>4. ASSUME ConstructorInput PROVE InputTypeOK'
    BY <1>3, <1>4 DEF ConstructorInput
  <1>5. ASSUME ReadKeys PROVE InputTypeOK'
    BY <1>5 DEF ReadKeys
  <1>6. ASSUME InputOff PROVE InputTypeOK'
    BY <1>6 DEF InputOff
  <1>7. ASSUME NEW k \in KeyThreads, KeyLoad(k) \/ KeyWrite(k) PROVE InputTypeOK'
    BY <1>7 DEF KeyLoad, KeyWrite
  <1>8. ASSUME SetInteractiveOn PROVE InputTypeOK'
    BY <1>3, <1>8 DEF SetInteractiveOn, Call
  <1>9. ASSUME Framework, ~SetInteractiveOn PROVE InputTypeOK'
    <2>1. (raced \/ KeysPending) \in BOOLEAN
      OBVIOUS
    <2> QED BY <1>9, <2>1 DEF Framework, SetInteractiveOff, SetInteractiveSkipped,
            HintSetProfile, HintMode, SetFeature, Call
  <1>10. ASSUME UserSetsKeys \/ UserSetsModule PROVE InputTypeOK'
    <2>1. (KeysPending \/ Constructing) \in BOOLEAN
      OBVIOUS
    <2> QED BY <1>10, <2>1 DEF UserSetsKeys, UserSetsModule
  <1>11. CASE UNCHANGED vars
    BY <1>11 DEF vars
  <1> QED
    BY <1>1, <1>2, <1>4, <1>5, <1>6, <1>7, <1>8, <1>9, <1>10, <1>11 DEF Next, HalStep

LEMMA BoundsStep == BoundsOK /\ [Next]_vars => BoundsOK'
  <1> SUFFICES ASSUME BoundsOK, [Next]_vars PROVE BoundsOK'
    OBVIOUS
  <1> USE BoundAssumption DEF BoundsOK
  <1>1. ASSUME NEW t \in Threads, SetProfile(t) PROVE BoundsOK'
    <2>1. CASE Load(t) \/ WriteGroup(t)
      BY <2>1 DEF Load, WriteGroup, unchangedByRun
    <2>2. CASE AbortCluster(t)
      BY <2>2 DEF AbortCluster, unchangedByRun
    <2> QED BY <1>1, <2>1, <2>2 DEF SetProfile
  <1>2. ASSUME Framework PROVE BoundsOK'
    BY <1>2 DEF Framework, SetInteractiveOn, SetInteractiveOff, SetInteractiveSkipped,
                HintSetProfile, HintMode, SetFeature, Call
  <1>3. ASSUME UserSetsKeys \/ UserSetsModule PROVE BoundsOK'
    BY <1>3 DEF UserSetsKeys, UserSetsModule
  <1>4. ASSUME \/ \E t \in Delayed : DelayOver(t)
               \/ ConstructorInput \/ ReadKeys \/ InputOff
               \/ \E k \in KeyThreads : KeyLoad(k) \/ KeyWrite(k)
        PROVE  BoundsOK'
    BY <1>4 DEF DelayOver, ConstructorInput, ReadKeys, InputOff, KeyLoad, KeyWrite
  <1>5. CASE UNCHANGED vars
    BY <1>5 DEF vars
  <1> QED BY <1>1, <1>2, <1>3, <1>4, <1>5 DEF Next, HalStep

\* The members of Power, the files and the threads keep their types: setProfile
\* never runs past its last group and never applies a profile without data.
THEOREM TypeCorrect == Spec => []TypeOK
  <1>1. TypeOK /\ [Next]_vars => TypeOK'
    BY ProfileTypeStep, InputTypeStep, BoundsStep DEF TypeOK
  <1> QED BY <1>1, InitType, PTL DEF Spec

-----------------------------------------------------------------------------
(* AppliedWhole.  A thread that has setProfile for itself finds in           *)
(* mCurrentProfile what it stored there, and nobody else writes the files.   *)

AppliedInv == AloneInv /\ AppliedWhole

LEMMA InitApplied == Init => AppliedInv
  <1> SUFFICES ASSUME Init PROVE AppliedInv
    OBVIOUS
  <1>1. /\ run[Binder].pc = "load" /\ run[Binder].prof = "BALANCED"
        /\ run[Binder].grp = 1
        /\ \A u \in Threads \ {Binder} : run[u].pc = "idle"
    BY BinderIsThread DEF Init, Started, Idle, At
  <1>2. AloneInv
    BY <1>1 DEF Init, AloneInv, AloneRun, Applying
  <1>3. AppliedWhole
    BY DEF Init, AppliedWhole
  <1> QED BY <1>2, <1>3 DEF AppliedInv

LEMMA StepApplied == ProfileTypeOK /\ AppliedInv /\ [Next]_vars => AppliedInv'
  <1> SUFFICES ASSUME ProfileTypeOK, AppliedInv, [Next]_vars PROVE AppliedInv'
    OBVIOUS
  <1>a. \A t \in Threads : run[t] \in Runs
    BY DEF ProfileTypeOK
  \* A thread that leaves setProfile without a clean run.
  <1>b. ASSUME NEW t \in Threads, Return(t, FALSE), Applying(t),
               UNCHANGED mCurrentProfile, 
               \A u \in Threads \ {t} : Applying(u) => ~run[u].alone
        PROVE  AppliedInv'
    <2>1. run'[t].pc = run[t].after /\ run[t].after \in {"idle", "readKeys", "inputOn"}
      BY <1>a, <1>b, ReturnFacts DEF Runs
    <2>2. /\ \A u \in Threads \ {t} : run'[u] = run[u]
          /\ wholeRun' = FALSE
      BY <1>b, ReturnFacts
    <2>3. AloneInv'
      BY <1>b, <2>1, <2>2 DEF AloneInv, Applying
    <2> QED BY <2>2, <2>3 DEF AppliedInv, AppliedWhole
  \* While one thread is inside setProfile, no other one has it for itself.
  <1>c. ASSUME NEW t \in Threads, Applying(t)
        PROVE  \A u \in Threads \ {t} : Applying(u) => ~run[u].alone
    BY <1>c DEF AppliedInv, AloneInv, AloneRun
  <1>1. ASSUME NEW t \in Threads, Load(t) PROVE AppliedInv'
    <2>1. Applying(t) /\ run[t].pc = "load"
      BY <1>1 DEF Load, Applying
    <2>2. CASE moduleOn
      <3>1. /\ run'[t] = [run[t] EXCEPT !.pc = "write", !.data = mCurrentProfile]
            /\ \A u \in Threads \ {t} : run'[u] = run[u]
        BY <1>1, <2>2 DEF Load, ProfileTypeOK
      <3>2. /\ run'[t].pc = "write" /\ run'[t].data = mCurrentProfile
            /\ run'[t].prof = run[t].prof /\ run'[t].alone = run[t].alone
            /\ run'[t].grp = run[t].grp
        BY <1>a, <3>1 DEF Runs
      <3>3. /\ Applying(t)' /\ ~Quiet'
            /\ \A u \in Threads \ {t} : Applying(u)' = Applying(u)
        BY <3>1, <3>2 DEF Applying, Quiet
      <3>4. ASSUME run[t].alone PROVE AloneRun(t)'
        <4>1. AloneRun(t)
          BY <2>1, <3>4 DEF AppliedInv, AloneInv
        <4>2. run'[t].grp = 1 /\ \A g \in Sections[mCurrentProfile] : ~(g < 1)
          BY <2>1, <3>2, <4>1, SectionAssumption DEF AloneRun, ProfileTypeOK, Groups
        <4>3. UNCHANGED <<mCurrentProfile, files>>
          BY <1>1 DEF Load, unchangedByRun
        <4> QED BY <3>2, <3>3, <4>1, <4>2, <4>3 DEF AloneRun
      <3>5. AloneInv'
        <4>1. \A u \in Threads \ {t} : Applying(u)' => ~run'[u].alone
          BY <1>c, <2>1, <3>1, <3>3
        <4>2. run'[t].alone => AloneRun(t)'
          BY <3>2, <3>4
        <4> QED BY <4>1, <4>2 DEF AloneInv
      <3> QED BY <3>3, <3>5 DEF AppliedInv, AppliedWhole
    <2>3. CASE ~moduleOn
      <3>1. Return(t, FALSE) /\ UNCHANGED mCurrentProfile
        BY <1>1, <2>3 DEF Load, unchangedByRun
      <3> QED BY <1>b, <1>c, <2>1, <3>1
    <2> QED BY <2>2, <2>3
  <1>2. ASSUME NEW t \in Threads, WriteGroup(t) PROVE AppliedInv'
    <2>1. Applying(t) /\ run[t].pc = "write"
      BY <1>2 DEF WriteGroup, Applying
    <2>2. UNCHANGED mCurrentProfile
      BY <1>2 DEF WriteGroup, unchangedByRun
    <2>3. run[t].grp \in Groups /\ run[t].data \in Profiles /\ run[t].alone \in BOOLEAN
      BY <1>a, <2>1 DEF Runs, ProfileTypeOK
    \* the groups written so far, this one included
    <2>4. ASSUME run[t].alone
          PROVE  \A g \in Sections[mCurrentProfile] :
                   g <= run[t].grp => files'[g] = mCurrentProfile
      <3>1. AloneRun(t) /\ run[t].data = mCurrentProfile
        BY <2>1, <2>4 DEF AppliedInv, AloneInv, AloneRun
      <3>2. ASSUME NEW g \in Sections[mCurrentProfile], g <= run[t].grp
            PROVE  files'[g] = mCurrentProfile
        <4>1. g \in Groups /\ files \in [Groups -> Profiles \cup {Other}]
          BY SectionAssumption DEF ProfileTypeOK
        <4>2. CASE g = run[t].grp
          BY <1>2, <3>1, <4>1, <4>2 DEF WriteGroup
        <4>3. CASE g # run[t].grp
          <5>1. g < run[t].grp
            BY <2>3, <3>2, <4>1, <4>3 DEF Groups
          <5>2. files[g] = mCurrentProfile
            BY <2>1, <3>1, <5>1 DEF AloneRun
          <5> QED BY <1>2, <4>1, <4>3, <5>2 DEF WriteGroup
        <4> QED BY <4>2, <4>3
      <3> QED BY <3>2
    <2>5. CASE run[t].grp < NGroups
      <3>1. /\ run'[t] = [run[t] EXCEPT !.grp = @ + 1]
            /\ \A u \in Threads \ {t} : run'[u] = run[u]
        BY <1>2, <2>5 DEF WriteGroup, ProfileTypeOK
      <3>2. /\ run'[t].pc = "write" /\ run'[t].data = run[t].data
            /\ run'[t].prof = run[t].prof /\ run'[t].alone = run[t].alone
            /\ run'[t].grp = run[t].grp + 1
        BY <1>a, <2>1, <3>1 DEF Runs
      <3>3. /\ Applying(t)' /\ ~Quiet'
            /\ \A u \in Threads \ {t} : Applying(u)' = Applying(u)
        BY <3>1, <3>2 DEF Applying, Quiet
      <3>4. ASSUME run[t].alone PROVE AloneRun(t)'
        <4>1. AloneRun(t) /\ run[t].data = mCurrentProfile
          BY <2>1, <3>4 DEF AppliedInv, AloneInv, AloneRun
        <4>2. \A g \in Sections[mCurrentProfile] :
                g < run'[t].grp => files'[g] = mCurrentProfile
          <5>1. ASSUME NEW g \in Sections[mCurrentProfile], g < run'[t].grp
                PROVE  g <= run[t].grp
            <6>1. g \in Groups
              BY SectionAssumption DEF ProfileTypeOK
            <6> QED BY <2>3, <3>2, <5>1, <6>1 DEF Groups
          <5> QED BY <2>4, <3>4, <5>1
        <4> QED BY <2>2, <3>2, <3>3, <4>1, <4>2 DEF AloneRun
      <3>5. AloneInv'
        <4>1. \A u \in Threads \ {t} : Applying(u)' => ~run'[u].alone
          BY <1>c, <2>1, <3>1, <3>3
        <4>2. run'[t].alone => AloneRun(t)'
          BY <3>2, <3>4
        <4> QED BY <4>1, <4>2 DEF AloneInv
      <3> QED BY <3>3, <3>5 DEF AppliedInv, AppliedWhole
    <2>6. CASE ~(run[t].grp < NGroups)
      <3>1. Return(t, run[t].alone)
        BY <1>2, <2>6 DEF WriteGroup
      <3>2. CASE ~run[t].alone
        <4>1. Return(t, FALSE)
          BY <2>3, <3>1, <3>2
        <4> QED BY <1>b, <1>c, <2>1, <2>2, <4>1
      <3>3. CASE run[t].alone
        <4>1. run'[t].pc \in {"idle", "readKeys", "inputOn"}
          BY <1>a, <2>3, <3>1, ReturnFacts DEF Runs
        <4>2. \A u \in Threads \ {t} : run'[u] = run[u] /\ ~Applying(u)
          BY <2>1, <2>3, <3>1, <3>3, ReturnFacts DEF AppliedInv, AloneInv, AloneRun
        <4>3. \A u \in Threads : ~Applying(u)'
          BY <4>1, <4>2 DEF Applying
        <4>4. \A g \in Sections[mCurrentProfile] : g <= run[t].grp
          <5>1. \A g \in Sections[mCurrentProfile] : g \in Groups
            BY SectionAssumption DEF ProfileTypeOK
          <5> QED BY <2>3, <2>6, <5>1, GroupAssumption DEF Groups
        <4>5. InUse'
          BY <2>2, <2>4, <3>3, <4>4 DEF InUse
        <4> QED BY <4>3, <4>5 DEF AppliedInv, AloneInv, AppliedWhole
      <3> QED BY <3>2, <3>3
    <2> QED BY <2>5, <2>6
  <1>3. ASSUME NEW t \in Threads, AbortCluster(t) PROVE AppliedInv'
    <2>1. Applying(t) /\ Return(t, FALSE) /\ UNCHANGED mCurrentProfile
      BY <1>3 DEF AbortCluster, Applying, unchangedByRun
    <2> QED BY <1>b, <1>c, <2>1
  <1>4. ASSUME NEW t \in Threads, NEW p \in Profiles, NEW a \in {"idle", "readKeys"},
               Store(t, p, a)
        PROVE  AppliedInv'
    <2>1. /\ mCurrentProfile' = p
          /\ run'[t].pc = "load" /\ run'[t].prof = p /\ run'[t].grp = 1
          /\ run'[t].alone => \A v \in Threads \ {t} : ~Applying(v)
          /\ \A u \in Threads \ {t} : /\ run'[u].pc = run[u].pc
                                      /\ Applying(u) => ~run'[u].alone
      BY <1>4, StoreFacts
    <2>2. /\ Applying(t)' /\ ~Quiet'
          /\ \A u \in Threads \ {t} : Applying(u)' = Applying(u)
      BY <2>1 DEF Applying, Quiet
    <2>3. run'[t].alone => AloneRun(t)'
      BY <2>1, <2>2 DEF AloneRun
    <2>4. AloneInv'
      BY <2>1, <2>2, <2>3 DEF AloneInv
    <2> QED BY <2>2, <2>4 DEF AppliedInv, AppliedWhole
  \* A step outside setProfile leaves everything AppliedInv reads alone.
  <1>5. ASSUME NEW t \in Threads, ~Applying(t), ~Applying(t)',
               \A u \in Threads \ {t} : run'[u] = run[u],
               UNCHANGED <<mCurrentProfile, files, wholeRun>>
        PROVE  AppliedInv'
    <2>1. \A u \in Threads : Applying(u)' = Applying(u)
      BY <1>5 DEF Applying
    <2>2. AloneInv'
      BY <1>5, <2>1 DEF AppliedInv, AloneInv, AloneRun
    <2>3. AppliedWhole'
      BY <1>5, <2>1 DEF AppliedInv, AppliedWhole, Quiet, InUse
    <2> QED BY <2>2, <2>3 DEF AppliedInv
  <1>6. ASSUME NEW t \in Delayed, DelayOver(t) PROVE AppliedInv'
    <2>1. run[t].prof \in Profiles /\ t \in Threads
      BY <1>6, BinderIsThread DEF DelayOver, ProfileTypeOK
    <2> QED BY <1>4, <1>6, <2>1 DEF DelayOver
  <1>7. ASSUME ConstructorInput \/ ReadKeys \/ InputOff PROVE AppliedInv'
    <2>1. run[Binder].pc \in {"inputOn", "readKeys", "inputOff"}
      BY <1>7 DEF ConstructorInput, ReadKeys, InputOff
    <2>2. run'[Binder].pc \in {"idle", "inputOff"}
      <3>1. CASE ConstructorInput \/ InputOff
        <4>1. run'[Binder] = Idle
          BY <3>1, BinderIsThread DEF ConstructorInput, InputOff, ProfileTypeOK
        <4> QED BY <4>1 DEF Idle, At
      <3>2. CASE ReadKeys
        <4>1. run'[Binder] = [run[Binder] EXCEPT !.pc = "inputOff"]
          BY <3>2, BinderIsThread DEF ReadKeys, ProfileTypeOK
        <4> QED BY <1>a, <4>1, BinderIsThread DEF Runs
      <3> QED BY <1>7, <3>1, <3>2
    <2>3. \A u \in Threads \ {Binder} : run'[u] = run[u]
      BY <1>7 DEF ConstructorInput, ReadKeys, InputOff, ProfileTypeOK
    <2>4. UNCHANGED <<mCurrentProfile, files, wholeRun>>
      BY <1>7 DEF ConstructorInput, ReadKeys, InputOff
    <2>5. ~Applying(Binder) /\ ~Applying(Binder)'
      BY <2>1, <2>2 DEF Applying
    <2> QED BY <1>5, <2>3, <2>4, <2>5, BinderIsThread
  <1>8. ASSUME SetInteractiveOn PROVE AppliedInv'
    <2>1. PICK t \in Delayed : run[t].pc = "idle" /\ run' = [run EXCEPT ![t] = At("sleep", ResetTarget)]
      BY <1>8 DEF SetInteractiveOn, ResetLater
    <2>2. run'[t].pc = "sleep" /\ \A u \in Threads \ {t} : run'[u] = run[u]
      BY <2>1, BinderIsThread DEF ProfileTypeOK, At
    <2>3. ~Applying(t) /\ ~Applying(t)'
      BY <2>1, <2>2 DEF Applying
    <2>4. UNCHANGED <<mCurrentProfile, files, wholeRun>>
      BY <1>8 DEF SetInteractiveOn
    <2> QED BY <1>5, <2>2, <2>3, <2>4, BinderIsThread
  <1>9. ASSUME SetInteractiveOff \/ HintSetProfile \/ HintMode PROVE AppliedInv'
    <2>1. PICK p \in Profiles, a \in {"idle", "readKeys"} : Store(Binder, p, a)
      <3>1. CASE SetInteractiveOff
        BY <3>1 DEF SetInteractiveOff, Profiles
      <3>2. CASE HintSetProfile
        BY <3>2, SelectableAssumption DEF HintSetProfile
      <3>3. CASE HintMode
        BY <3>3, ResetTargetType DEF HintMode, Profiles
      <3> QED BY <1>9, <3>1, <3>2, <3>3
    <2> QED BY <1>4, <2>1, BinderIsThread
  <1>10. ASSUME UNCHANGED profileVars PROVE AppliedInv'
    BY <1>10 DEF profileVars, AppliedInv, AloneInv, AloneRun, AppliedWhole, Quiet,
                 InUse, Applying
  <1>11. CASE UserSetsModule
    BY <1>10, <1>11 DEF UserSetsModule
  <1>12. CASE UNCHANGED vars
    BY <1>10, <1>12 DEF vars
  <1> QED
    BY <1>1, <1>2, <1>3, <1>6, <1>7, <1>8, <1>9, <1>10, <1>11, <1>12, QuietActions
    DEF Next, HalStep, Framework, SetProfile

\* Whatever the other threads do, a setProfile that met no other one and ran to
\* its end has left in the files exactly the settings of mCurrentProfile.
THEOREM ProfileApplied == Spec => []AppliedWhole
  <1>1. Init => ProfileTypeOK /\ AppliedInv
    BY InitType, InitApplied DEF TypeOK
  <1>2. ProfileTypeOK /\ AppliedInv /\ [Next]_vars => (ProfileTypeOK /\ AppliedInv)'
    BY ProfileTypeStep, StepApplied
  <1>3. AppliedInv => AppliedWhole
    BY DEF AppliedInv
  <1> QED BY <1>1, <1>2, <1>3, PTL DEF Spec

-----------------------------------------------------------------------------
(* KeysKeptUnlessRaced.  Where the user's choice is kept at every moment:     *)
(* in the file and the threads of ASYNC while the device is awake, in the     *)
(* file until setInputState(false) has saved it, in mTouchkeysEnabled after.  *)

SwitchingOff == run[Binder].after = "readKeys" \/ run[Binder].pc \in {"readKeys", "inputOff"}

PhaseInv ==
    /\ SwitchingOff => ~awake
    /\ Constructing => awake
    /\ run[Binder].pc \notin {"load", "write"} => run[Binder].after = "idle"
    /\ run[Binder].pc # "sleep"

HeldAwake ==
    /\ \A k \in KeyThreads : /\ keyThread[k] = "spawned" => mTouchkeysEnabled = userKeys
                             /\ keyThread[k] = "on" => userKeys
                             /\ keyThread[k] = "off" => ~userKeys
    /\ ~KeysPending => keysFile = userKeys
    /\ Constructing => ~KeysPending /\ mTouchkeysEnabled = userKeys

HeldAsleep ==
    /\ ~KeysPending
    /\ ~SwitchingOff => mTouchkeysEnabled = userKeys /\ ~keysFile
    /\ SwitchingOff /\ run[Binder].pc # "inputOff" => keysFile = userKeys
    /\ run[Binder].pc = "inputOff" => mTouchkeysEnabled = userKeys

KeysHeld == ~raced /\ mVariant = "FLAT" => IF awake THEN HeldAwake ELSE HeldAsleep
KeysInv == PhaseInv /\ KeysHeld

keysVars == <<mTouchkeysEnabled, keysFile, keyThread, awake, userKeys, raced, mVariant>>

LEMMA InitKeys == Init => KeysInv
  <1> SUFFICES ASSUME Init PROVE KeysInv
    OBVIOUS
  <1>1. run[Binder].pc = "load" /\ run[Binder].after = "inputOn"
    BY BinderIsThread DEF Init, Started
  <1>2. ~KeysPending
    BY DEF Init, KeysPending
  <1> QED
    BY <1>1, <1>2 DEF Init, KeysInv, PhaseInv, KeysHeld, HeldAwake, SwitchingOff,
                      Constructing, KeysPending

\* Moving along setProfile, the binder thread neither reaches nor leaves a phase.
LEMMA SamePhase ==
    ASSUME KeysInv, UNCHANGED keysVars,
           SwitchingOff' <=> SwitchingOff, Constructing' <=> Constructing,
           run'[Binder].pc # "inputOff" \/ run'[Binder].pc = run[Binder].pc,
           run[Binder].pc # "inputOff" \/ run'[Binder].pc = run[Binder].pc
    PROVE  KeysHeld'
  BY DEF KeysInv, KeysHeld, HeldAwake, HeldAsleep, KeysPending, keysVars

LEMMA StepKeys == TypeOK /\ KeysInv /\ [Next]_vars => KeysInv'
  <1> SUFFICES ASSUME TypeOK, KeysInv, [Next]_vars PROVE KeysInv'
    OBVIOUS
  <1>a. /\ run \in [Threads -> Runs] /\ run[Binder] \in Runs /\ Binder \in Threads
        /\ ProfileTypeOK /\ PhaseInv /\ KeysHeld
    BY BinderIsThread DEF TypeOK, ProfileTypeOK, KeysInv
  <1>b. keyThread \in [KeyThreads -> {"idle", "spawned", "on", "off"}]
    BY DEF TypeOK, InputTypeOK
  \* The record of the binder thread does not change.
  <1>c. ASSUME UNCHANGED keysVars, run'[Binder].pc = run[Binder].pc,
               run'[Binder].after = run[Binder].after
        PROVE  KeysInv'
    <2>1. (SwitchingOff' <=> SwitchingOff) /\ (Constructing' <=> Constructing)
      BY <1>c DEF SwitchingOff, Constructing
    <2>2. KeysHeld'
      BY <1>c, <2>1, SamePhase
    <2> QED BY <1>a, <1>c, <2>1, <2>2 DEF KeysInv, PhaseInv, keysVars
  \* The binder thread returns from setProfile.
  <1>d. ASSUME UNCHANGED keysVars, NEW w \in BOOLEAN, Return(Binder, w),
               run[Binder].pc \in {"load", "write"}
        PROVE  KeysInv'
    <2>1. /\ run'[Binder].pc = run[Binder].after /\ run'[Binder].after = "idle"
          /\ run[Binder].after \in {"idle", "readKeys", "inputOn"}
      BY <1>a, <1>d, ReturnFacts DEF Runs
    <2>2. (SwitchingOff' <=> SwitchingOff) /\ (Constructing' <=> Constructing)
      BY <1>d, <2>1 DEF SwitchingOff, Constructing
    <2>3. KeysHeld'
      BY <1>d, <2>1, <2>2, SamePhase
    <2> QED BY <1>a, <1>d, <2>1, <2>2, <2>3 DEF KeysInv, PhaseInv, keysVars
  <1>1. ASSUME NEW t \in Threads, SetProfile(t) PROVE KeysInv'
    <2>1. UNCHANGED keysVars
      BY <1>1 DEF SetProfile, Load, WriteGroup, AbortCluster, unchangedByRun, inputVars,
                  userVars, keysVars
    <2>2. CASE t # Binder
      <3>1. run'[Binder] = run[Binder]
        BY <1>1, <1>a, <2>2 DEF SetProfile, Load, WriteGroup, AbortCluster, Return
      <3> QED BY <1>c, <2>1, <3>1
    <2>3. CASE t = Binder /\ \E w \in BOOLEAN : Return(t, w)
      <3>1. run[Binder].pc \in {"load", "write"}
        BY <1>1, <2>3 DEF SetProfile, Load, WriteGroup, AbortCluster
      <3> QED BY <1>d, <2>1, <2>3, <3>1
    <2>4. CASE t = Binder /\ ~\E w \in BOOLEAN : Return(t, w)
      <3>1. /\ run[Binder].pc \in {"load", "write"} /\ run'[Binder].pc = "write"
            /\ run'[Binder].after = run[Binder].after
        <4>1. CASE Load(t)
          <5>1. run'[t] = [run[t] EXCEPT !.pc = "write", !.data = mCurrentProfile]
            BY <1>a, <2>4, <4>1 DEF Load
          <5> QED BY <1>a, <2>4, <4>1, <5>1 DEF Load, Runs
        <4>2. CASE WriteGroup(t)
          <5>1. run[t].alone \in BOOLEAN
            BY <1>a, <2>4 DEF Runs
          <5>2. run'[t] = [run[t] EXCEPT !.grp = @ + 1]
            BY <1>a, <2>4, <4>2, <5>1 DEF WriteGroup
          <5> QED BY <1>a, <2>4, <4>2, <5>2 DEF WriteGroup, Runs
        <4>3. CASE AbortCluster(t)
          BY <2>4, <4>3 DEF AbortCluster
        <4> QED BY <1>1, <4>1, <4>2, <4>3 DEF SetProfile
      <3>2. (SwitchingOff' <=> SwitchingOff) /\ (Constructing' <=> Constructing)
        BY <3>1 DEF SwitchingOff, Constructing
      <3>3. KeysHeld'
        BY <2>1, <3>1, <3>2, SamePhase
      <3> QED BY <1>a, <2>1, <3>1, <3>2, <3>3 DEF KeysInv, PhaseInv, keysVars
    <2> QED BY <2>2, <2>3, <2>4
  <1>2. ASSUME NEW t \in Delayed, DelayOver(t) PROVE KeysInv'
    <2>1. UNCHANGED keysVars
      BY <1>2 DEF DelayOver, inputVars, userVars, keysVars
    <2>2. t # Binder /\ t \in Threads /\ run[t].prof \in Profiles
      BY <1>2, <1>a, ThreadAssumption, BinderIsThread DEF DelayOver, ProfileTypeOK
    <2>3. run'[Binder].pc = run[Binder].pc /\ run'[Binder].after = run[Binder].after
      BY <1>2, <1>a, <2>2, StoreFacts DEF DelayOver
    <2> QED BY <1>c, <2>1, <2>3
  \* setInputState(true): the new thread will read the user's choice.
  <1>e. ASSUME InputOn, mVariant = "FLAT", ~KeysPending, mTouchkeysEnabled = userKeys,
               UNCHANGED <<mTouchkeysEnabled, userKeys>>, ~Constructing'
        PROVE  HeldAwake'
    <2>1. PICK k \in KeyThreads : keyThread' = [keyThread EXCEPT ![k] = "spawned"]
      BY <1>e DEF InputOn
    <2>2. KeysPending' /\ \A j \in KeyThreads : keyThread'[j] \in {"idle", "spawned"}
      BY <1>b, <1>e, <2>1 DEF KeysPending
    <2> QED BY <1>e, <2>2 DEF HeldAwake
  <1>3. ASSUME ConstructorInput PROVE KeysInv'
    <2>1. /\ run[Binder].pc = "inputOn" /\ run'[Binder] = Idle
          /\ UNCHANGED <<mTouchkeysEnabled, userKeys, awake, raced, mVariant>>
      BY <1>a, <1>3 DEF ConstructorInput, userVars
    <2>2. run'[Binder].pc = "idle" /\ run'[Binder].after = "idle"
      BY <2>1 DEF Idle, At
    <2>3. Constructing /\ awake /\ ~Constructing' /\ ~SwitchingOff'
      BY <1>a, <2>1, <2>2 DEF Constructing, SwitchingOff, PhaseInv
    <2>4. ~raced /\ mVariant = "FLAT" => HeldAwake'
      BY <1>a, <1>e, <1>3, <2>1, <2>3 DEF ConstructorInput, KeysHeld, HeldAwake
    <2> QED BY <2>1, <2>2, <2>3, <2>4 DEF KeysInv, PhaseInv, KeysHeld
  <1>4. ASSUME ReadKeys PROVE KeysInv'
    <2>1. /\ run[Binder].pc = "readKeys"
          /\ run'[Binder] = [run[Binder] EXCEPT !.pc = "inputOff"]
          /\ mVariant = "FLAT" => mTouchkeysEnabled' = keysFile
          /\ UNCHANGED <<keysFile, keyThread, userKeys, awake, raced, mVariant>>
      BY <1>a, <1>4 DEF ReadKeys, userVars
    <2>2. run'[Binder].pc = "inputOff" /\ run'[Binder].after = "idle"
      BY <1>a, <2>1 DEF Runs, PhaseInv
    <2>3. SwitchingOff /\ SwitchingOff' /\ ~awake /\ ~Constructing'
      BY <1>a, <2>1, <2>2 DEF Constructing, SwitchingOff, PhaseInv
    <2>4. ~raced /\ mVariant = "FLAT" => HeldAsleep'
      BY <1>a, <2>1, <2>2, <2>3 DEF KeysHeld, HeldAsleep, KeysPending
    <2> QED BY <2>1, <2>2, <2>3, <2>4 DEF KeysInv, PhaseInv, KeysHeld
  <1>5. ASSUME InputOff PROVE KeysInv'
    <2>1. /\ run[Binder].pc = "inputOff" /\ run'[Binder] = Idle
          /\ mVariant = "FLAT" => ~keysFile'
          /\ UNCHANGED <<mTouchkeysEnabled, keyThread, userKeys, awake, raced, mVariant>>
      BY <1>a, <1>5 DEF InputOff, userVars
    <2>2. run'[Binder].pc = "idle" /\ run'[Binder].after = "idle"
      BY <2>1 DEF Idle, At
    <2>3. SwitchingOff /\ ~SwitchingOff' /\ ~awake /\ ~Constructing'
      BY <1>a, <2>1, <2>2 DEF Constructing, SwitchingOff, PhaseInv
    <2>4. ~raced /\ mVariant = "FLAT" => HeldAsleep'
      BY <1>a, <2>1, <2>2, <2>3 DEF KeysHeld, HeldAsleep, KeysPending
    <2> QED BY <2>1, <2>2, <2>3, <2>4 DEF KeysInv, PhaseInv, KeysHeld
  <1>6. ASSUME NEW k \in KeyThreads, KeyLoad(k) \/ KeyWrite(k) PROVE KeysInv'
    <2>1. /\ UNCHANGED <<run, mTouchkeysEnabled, userKeys, awake, raced, mVariant>>
          /\ KeysPending
      BY <1>6 DEF KeyLoad, KeyWrite, profileVars, userVars, KeysPending
    <2>2. PhaseInv' /\ (Constructing' <=> Constructing)
      BY <1>a, <2>1 DEF PhaseInv, SwitchingOff, Constructing
    <2>3. ASSUME ~raced, mVariant = "FLAT" PROVE awake /\ HeldAwake'
      <3>1. awake /\ HeldAwake
        BY <1>a, <2>1, <2>3 DEF KeysHeld, HeldAsleep
      <3>2. CASE KeyLoad(k)
        <4>1. /\ keyThread' = [keyThread EXCEPT ![k] = IF mTouchkeysEnabled THEN "on" ELSE "off"]
              /\ mTouchkeysEnabled = userKeys /\ UNCHANGED keysFile
          BY <3>1, <3>2 DEF KeyLoad, HeldAwake
        <4>2. KeysPending'
          BY <1>b, <4>1 DEF KeysPending
        <4> QED BY <1>b, <2>1, <2>2, <3>1, <4>1, <4>2 DEF HeldAwake
      <3>3. CASE KeyWrite(k)
        <4>1. /\ keyThread' = [keyThread EXCEPT ![k] = "idle"]
              /\ keysFile' = (keyThread[k] = "on") /\ keyThread[k] \in {"on", "off"}
          BY <3>3 DEF KeyWrite
        <4>2. keysFile' = userKeys
          BY <3>1, <4>1 DEF HeldAwake, TypeOK, InputTypeOK
        <4> QED BY <1>b, <2>1, <2>2, <3>1, <4>1, <4>2 DEF HeldAwake
      <3> QED BY <1>6, <3>1, <3>2, <3>3
    <2> QED BY <2>1, <2>2, <2>3 DEF KeysInv, KeysHeld
  <1>7. ASSUME SetInteractiveOn PROVE KeysInv'
    <2>1. /\ run[Binder].pc = "idle" /\ run'[Binder] = run[Binder] /\ ~awake /\ awake'
          /\ InputOn /\ UNCHANGED <<mTouchkeysEnabled, userKeys, raced, mVariant>>
      BY <1>a, <1>7, ThreadAssumption DEF SetInteractiveOn, ResetLater, Call
    <2>2. ~SwitchingOff /\ ~SwitchingOff' /\ ~Constructing' /\ PhaseInv'
      BY <1>a, <2>1 DEF PhaseInv, SwitchingOff, Constructing
    <2>3. ~raced /\ mVariant = "FLAT" => HeldAwake'
      BY <1>a, <1>e, <2>1, <2>2 DEF KeysHeld, HeldAsleep
    <2> QED BY <2>1, <2>2, <2>3 DEF KeysInv, KeysHeld
  <1>8. ASSUME SetInteractiveOff PROVE KeysInv'
    <2>1. /\ run[Binder].pc = "idle" /\ awake /\ ~awake'
          /\ raced' = (raced \/ KeysPending)
          /\ UNCHANGED <<mTouchkeysEnabled, keysFile, keyThread, userKeys, mVariant>>
      BY <1>8 DEF SetInteractiveOff, Call, inputVars
    <2>2. run'[Binder].pc = "load" /\ run'[Binder].after = "readKeys"
      BY <1>a, <1>8, StoreFacts DEF SetInteractiveOff, Profiles
    <2>3. SwitchingOff' /\ ~Constructing' /\ PhaseInv'
      BY <2>1, <2>2 DEF PhaseInv, SwitchingOff, Constructing
    <2>4. ~raced' /\ mVariant = "FLAT" => HeldAsleep'
      <3>1. ASSUME ~raced', mVariant = "FLAT" PROVE ~KeysPending /\ keysFile = userKeys
        BY <1>a, <2>1, <3>1 DEF KeysHeld, HeldAwake
      <3> QED BY <2>1, <2>2, <2>3, <3>1 DEF HeldAsleep, KeysPending
    <2> QED BY <2>1, <2>3, <2>4 DEF KeysInv, KeysHeld
  <1>9. ASSUME SetInteractiveSkipped PROVE KeysInv'
    <2>1. run[Binder].pc = "idle" /\ raced' = TRUE /\ UNCHANGED run
      BY <1>9 DEF SetInteractiveSkipped, Call, profileVars
    <2> QED BY <1>a, <2>1 DEF KeysInv, KeysHeld, PhaseInv, SwitchingOff, Constructing
  <1>10. ASSUME HintSetProfile \/ HintMode PROVE KeysInv'
    <2>1. UNCHANGED keysVars /\ run[Binder].pc = "idle"
      BY <1>10 DEF HintSetProfile, HintMode, Call, inputVars, userVars, keysVars
    <2>2. PICK p \in Profiles : Store(Binder, p, "idle")
      <3>1. CASE HintSetProfile
        BY <3>1, SelectableAssumption DEF HintSetProfile
      <3>2. CASE HintMode
        BY <1>a, <3>2, ResetTargetType DEF HintMode, Profiles
      <3> QED BY <1>10, <3>1, <3>2
    <2>3. run'[Binder].pc = "load" /\ run'[Binder].after = "idle"
      BY <1>a, <2>2, StoreFacts
    <2>4. ~SwitchingOff /\ ~SwitchingOff' /\ ~Constructing /\ ~Constructing'
      BY <1>a, <2>1, <2>3 DEF PhaseInv, SwitchingOff, Constructing
    <2>5. KeysHeld'
      BY <2>1, <2>3, <2>4, SamePhase
    <2> QED BY <1>a, <2>3, <2>4, <2>5 DEF KeysInv, PhaseInv
  <1>11. ASSUME SetFeature \/ UserSetsModule \/ UNCHANGED vars PROVE KeysInv'
    <2>1. UNCHANGED keysVars /\ UNCHANGED run
      BY <1>11 DEF SetFeature, UserSetsModule, Call, vars, profileVars, inputVars,
                   userVars, keysVars
    <2> QED BY <1>c, <2>1
  <1>12. ASSUME UserSetsKeys PROVE KeysInv'
    <2>1. /\ UNCHANGED <<run, keyThread, mTouchkeysEnabled, awake, mVariant>> /\ awake
          /\ userKeys' = keysFile' /\ raced' = (KeysPending \/ Constructing)
      BY <1>12 DEF UserSetsKeys, profileVars
    <2>2. PhaseInv' /\ (Constructing' <=> Constructing) /\ (KeysPending' <=> KeysPending)
      BY <1>a, <2>1 DEF PhaseInv, SwitchingOff, Constructing, KeysPending
    <2>3. ~raced' => HeldAwake'
      BY <1>b, <2>1, <2>2 DEF HeldAwake, KeysPending
    <2> QED BY <2>1, <2>2, <2>3 DEF KeysInv, KeysHeld
  <1> QED
    BY <1>1, <1>2, <1>3, <1>4, <1>5, <1>6, <1>7, <1>8, <1>9, <1>10, <1>11, <1>12
    DEF Next, HalStep, Framework

\* setInputState keeps the user's choice for the touchkeys over any number of
\* screen-off periods, unless one of the races of "raced" has happened.
THEOREM KeysSurvive == Spec => []KeysKeptUnlessRaced
  <1>1. Init => TypeOK /\ KeysInv
    BY InitType, InitKeys
  <1>2. TypeOK /\ KeysInv /\ [Next]_vars => (TypeOK /\ KeysInv)'
    BY ProfileTypeStep, InputTypeStep, BoundsStep, StepKeys DEF TypeOK
  <1>3. TypeOK /\ KeysInv => KeysKeptUnlessRaced
    <2> SUFFICES ASSUME TypeOK, KeysInv, ~raced, KeysSettled PROVE KeysKept
      BY DEF KeysKeptUnlessRaced, KeysKept
    <2>1. ~SwitchingOff
      BY DEF KeysSettled, KeysInv, PhaseInv, SwitchingOff
    <2> QED BY <2>1 DEF KeysInv, KeysHeld, HeldAwake, HeldAsleep, KeysSettled, KeysKept
  <1> QED BY <1>1, <1>2, <1>3, PTL DEF Spec

-----------------------------------------------------------------------------
(* InputReady holds at every moment, not only while the binder thread is      *)
(* idle; PhaseInv keeps setInputState(false) away from an awake device.       *)
InputInv == dt2wFile = mIsDT2WEnabled /\ (awake => touchFile)

LEMMA StepInput == PhaseInv /\ InputInv /\ [Next]_vars => InputInv'
  <1> SUFFICES ASSUME PhaseInv, InputInv, [Next]_vars PROVE InputInv'
    OBVIOUS
  <1> USE DEF InputInv
  <1>1. CASE ConstructorInput \/ SetInteractiveOn
    BY <1>1 DEF ConstructorInput, SetInteractiveOn, InputOn, userVars
  <1>2. CASE InputOff
    BY <1>2 DEF InputOff, PhaseInv, SwitchingOff, userVars
  <1>3. CASE SetInteractiveOff \/ SetInteractiveSkipped \/ SetFeature
    BY <1>3 DEF SetInteractiveOff, SetInteractiveSkipped, SetFeature, inputVars
  <1>4. ASSUME UNCHANGED <<dt2wFile, mIsDT2WEnabled, awake, touchFile>> PROVE InputInv'
    BY <1>4
  <1>5. ASSUME NEW t \in Threads, SetProfile(t) \/ DelayOver(t) PROVE InputInv'
    BY <1>4, <1>5 DEF SetProfile, Load, WriteGroup, AbortCluster, DelayOver, unchangedByRun, inputVars, userVars
  <1>6. ASSUME NEW k \in KeyThreads, KeyLoad(k) \/ KeyWrite(k) PROVE InputInv'
    BY <1>4, <1>6 DEF KeyLoad, KeyWrite, userVars
  <1>7. CASE ReadKeys \/ HintSetProfile \/ HintMode \/ UserSetsKeys \/ UserSetsModule
    BY <1>4, <1>7 DEF ReadKeys, HintSetProfile, HintMode, UserSetsKeys, UserSetsModule, inputVars, userVars
  <1>8. CASE UNCHANGED vars
    BY <1>4, <1>8 DEF vars, inputVars, userVars
  <1> QED BY <1>1, <1>2, <1>3, <1>5, <1>6, <1>7, <1>8, BinderIsThread DEF Next, HalStep, Framework

\* setInputState and setFeature: whatever is switched or skipped while the device
\* is off, and wherever the threads are in setProfile, an idle binder thread
\* has left the touchscreen of an awake device on and DT2W as it was asked for.
\* It is the safety part of AwakeDevice.
THEOREM Inputs == Spec => []InputReady
  <1>1. Init => TypeOK /\ KeysInv /\ InputInv
    BY InitType, InitKeys DEF Init, InputInv
  <1>2. TypeOK /\ KeysInv /\ InputInv /\ [Next]_vars => (TypeOK /\ KeysInv /\ InputInv)'
    BY ProfileTypeStep, InputTypeStep, BoundsStep, StepKeys, StepInput DEF TypeOK, KeysInv
  <1>3. InputInv => InputReady
    BY DEF InputInv, InputReady
  <1> QED BY <1>1, <1>2, <1>3, PTL DEF Spec

-----------------------------------------------------------------------------
(* PowerProfiles: loading the document. *)

LEMMA PP_Order ==
    /\ Len(PP!Order) = 6
    /\ PP!Order[1] = "screen_off" /\ PP!Order[2] = "power_save" /\ PP!Order[3] = "bias_power_save"
    /\ PP!Order[4] = "balanced" /\ PP!Order[5] = "bias_performance" /\ PP!Order[6] = "performance"
BY DEF PP!Order

LEMMA PP_Names ==
    /\ PP!Names = {"screen_off", "power_save", "bias_power_save", "balanced", "bias_performance", "performance"}
    /\ \A i \in 1 .. 6 : PP!Order[i] \in PP!Names
    /\ "nullptr" \notin PP!Names /\ "none" \notin PP!Names
BY DEF PP!Order, PP!Names, PP!ToSet

LEMMA PP_Place == \A n \in PP!Names : \E i \in 1 .. 6 : PP!Order[i] = n
<1> SUFFICES ASSUME NEW n \in PP!Names PROVE \E i \in 1 .. 6 : PP!Order[i] = n
  OBVIOUS
<1> QED BY PP_Order, PP_Names

LEMMA PP_Index == 
  /\ \A i \in 1 .. 6, j \in 1 .. 6 : PP!Order[i] = PP!Order[j] => i = j
  /\ \A n \in PP!Names : PP!Index(n) \in 1 .. 6 /\ PP!Order[PP!Index(n)] = n
<1>1. \A i \in 1 .. 6, j \in 1 .. 6 : PP!Order[i] = PP!Order[j] => i = j
  <2> SUFFICES ASSUME NEW i \in 1 .. 6, NEW j \in 1 .. 6, PP!Order[i] = PP!Order[j] PROVE i = j
    OBVIOUS
  <2>1. i \in {1, 2, 3, 4, 5, 6} /\ j \in {1, 2, 3, 4, 5, 6}
    OBVIOUS
  <2> QED BY <2>1, PP_Order
<1>2. ASSUME NEW n \in PP!Names PROVE PP!Index(n) \in 1 .. 6 /\ PP!Order[PP!Index(n)] = n
  <2>1. PP!Index(n) = CHOOSE i \in 1 .. 6 : PP!Order[i] = n
    BY PP_Order DEF PP!Index
  <2>2. \E i \in 1 .. 6 : PP!Order[i] = n
    BY PP_Place
  <2> QED BY <2>1, <2>2
<1> QED BY <1>1, <1>2

LEMMA PP_Min == \A S : PP!Min(S) = CHOOSE a \in S : \A b \in S : a <= b
BY DEF PP!Min

LEMMA PP_Chosen ==
    ASSUME PP!Chosen(pp_xml) # 0
    PROVE  \E path \in {"USER", "VENDOR", "SYSTEM"} :
             /\ path = IF pp_xml["USER"] # PP!NoFile THEN "USER"
                       ELSE IF pp_xml["VENDOR"] # PP!NoFile THEN "VENDOR" ELSE "SYSTEM"
             /\ PP!Document = pp_xml[path] /\ pp_xml[path] # PP!NoFile
<1>0. PP!PROFILES_PATH[1] = "USER" /\ PP!PROFILES_PATH[2] = "VENDOR" /\ PP!PROFILES_PATH[3] = "SYSTEM" /\ Len(PP!PROFILES_PATH) = 3
  BY DEF PP!PROFILES_PATH
<1>i. PICK I : I = {i \in 1 .. 3 : pp_xml[PP!PROFILES_PATH[i]] # PP!NoFile}
  OBVIOUS
<1>1. PP!Chosen(pp_xml) = IF I # {} THEN PP!Min(I) ELSE 0
  BY <1>0, <1>i DEF PP!Chosen, PP!SelectInSeq
<1>2. /\ \A i \in I : i \in {1, 2, 3} /\ pp_xml[PP!PROFILES_PATH[i]] # PP!NoFile
      /\ \A i \in {1, 2, 3} : i \notin I => pp_xml[PP!PROFILES_PATH[i]] = PP!NoFile
  BY <1>i
<1>3. \E a \in I : \A b \in I : a <= b
  <2>1. I # {}
    BY <1>1
  <2>2. CASE 1 \in I
    BY <1>2, <2>2
  <2>3. CASE 1 \notin I /\ 2 \in I
    BY <1>2, <2>3
  <2>4. CASE 1 \notin I /\ 2 \notin I
    BY <1>2, <2>1, <2>4
  <2> QED BY <2>2, <2>3, <2>4
<1>m. PICK m \in I : m = PP!Chosen(pp_xml) /\ \A b \in I : m <= b
  <2>1. PP!Chosen(pp_xml) = CHOOSE a \in I : \A b \in I : a <= b
    BY <1>1, PP_Min
  <2> QED BY <1>3, <2>1
<1>4. PP!Document = pp_xml[PP!PROFILES_PATH[m]] /\ pp_xml[PP!PROFILES_PATH[m]] # PP!NoFile /\ m \in {1, 2, 3}
  BY <1>2, <1>m DEF PP!Document
<1>5. CASE m = 1
  BY <1>0, <1>4, <1>5
<1>6. CASE m = 2
  <2>1. 1 \notin I
    BY <1>m, <1>6
  <2>2. pp_xml["USER"] = PP!NoFile
    BY <1>0, <1>2, <2>1
  <2> QED BY <1>0, <1>4, <1>6, <2>2
<1>7. CASE m = 3
  <2>1. 1 \notin I /\ 2 \notin I
    BY <1>m, <1>7
  <2>2. pp_xml["USER"] = PP!NoFile /\ pp_xml["VENDOR"] = PP!NoFile
    BY <1>0, <1>2, <2>1
  <2> QED BY <1>0, <1>4, <1>7, <2>2
<1> QED BY <1>4, <1>5, <1>6, <1>7

LEMMA PP_Texts ==
    ASSUME pp_xml \in ProfileXmls, PP!Chosen(pp_xml) # 0, NEW n \in PP!Names, NEW l \in DOMAIN PP!Document[n].settings
    PROVE  PP!Document[n].settings[l] # "none"
<1>1. PICK path \in {"USER", "VENDOR", "SYSTEM"} : PP!Document = pp_xml[path] /\ pp_xml[path] # PP!NoFile
  BY PP_Chosen
<1>2. \A m \in PP!Names : \A k \in DOMAIN pp_xml[path][m].settings : pp_xml[path][m].settings[k] # "none"
  BY <1>1, ProfilesAssumption
<1> QED BY <1>1, <1>2

-----------------------------------------------------------------------------
(* One profile. *)
PP_Fields == {"enabled", "on", "value", "set", "governor_data"}

(* The text a profile has for a setting. *)
PP_Text(p, l) == IF p.set[l] THEN p.value[l] ELSE "none"

PP_Sound(p) ==
    /\ DOMAIN p = PP_Fields
    /\ \A l \in PP!Settings : p.set[l] \in BOOLEAN /\ (p.set[l] => p.value[l] # "none")

LEMMA PP_ZeroFields ==
    /\ DOMAIN PP!Zero = PP_Fields
    /\ \A l \in PP!Settings : PP!Zero.set[l] = FALSE
BY DEF PP!Zero, PP_Fields

LEMMA PP_ZeroSound ==
    /\ PP_Sound(PP!Zero)
    /\ \A l \in PP!Settings : PP_Text(PP!Zero, l) = "none"
BY PP_ZeroFields DEF PP_Sound, PP_Text

LEMMA PP_Own ==
    ASSUME NEW d
    PROVE  /\ PP_Sound(PP!PROFILE_INIT(d))
           /\ PP!PROFILE_INIT(d).enabled = PP!Switch(d.node)
           /\ \A l \in PP!Settings : PP_Text(PP!PROFILE_INIT(d), l) = "none"
<1> DEFINE p == PP!PROFILE_INIT(d)
<1>1. DOMAIN p = PP_Fields /\ p.set = PP!Zero.set /\ p.enabled = PP!Switch(d.node)
  BY PP_ZeroFields DEF PP!PROFILE_INIT, PP_Fields
<1> HIDE DEF p
<1>2. PP_Sound(p) /\ \A l \in PP!Settings : PP_Text(p, l) = "none"
  BY <1>1, PP_ZeroFields DEF PP_Sound, PP_Text
<1> QED BY <1>1, <1>2 DEF p

LEMMA PP_Switched ==
    ASSUME NEW p, NEW q, p.on = q.on, NEW s
    PROVE  PP!Enabled(p, s) <=> PP!Enabled(q, s)
BY DEF PP!Enabled

LEMMA PP_Set ==
    ASSUME NEW base, PP_Sound(base), NEW d, NEW l \in PP!Settings,
           l \in DOMAIN d.settings => d.settings[l] # "none", NEW r, r = PP!PROFILE_SET(base, d, l)
    PROVE  /\ r[2] \in BOOLEAN /\ (r[2] => r[1] # "none")
           /\ (IF r[2] THEN r[1] ELSE "none") =
                IF l \in DOMAIN d.settings /\ PP!Enabled(base, l[1]) THEN d.settings[l] ELSE PP_Text(base, l)
<1>0. base.set[l] \in BOOLEAN /\ (base.set[l] => base.value[l] # "none")
  BY DEF PP_Sound
<1>1. CASE ~PP!Enabled(base, l[1])
  <2>1. r = <<base.value[l], base.set[l]>>
    BY <1>1 DEF PP!PROFILE_SET
  <2> QED BY <1>0, <1>1, <2>1 DEF PP_Text
<1>2. CASE PP!Enabled(base, l[1]) /\ l \in DOMAIN d.settings
  <2>1. r = <<d.settings[l], TRUE>>
    BY <1>2 DEF PP!PROFILE_SET
  <2> QED BY <1>2, <2>1
<1>3. CASE PP!Enabled(base, l[1]) /\ l \notin DOMAIN d.settings /\ base.set[l]
  <2>1. r = <<base.value[l], TRUE>>
    BY <1>3 DEF PP!PROFILE_SET
  <2> QED BY <1>0, <1>3, <2>1 DEF PP_Text
<1>4. CASE PP!Enabled(base, l[1]) /\ l \notin DOMAIN d.settings /\ ~base.set[l]
  <2>1. r = <<"default", FALSE>>
    BY <1>4 DEF PP!PROFILE_SET
  <2> QED BY <1>4, <2>1 DEF PP_Text
<1> QED BY <1>1, <1>2, <1>3, <1>4

LEMMA PP_LoadProfile ==
    ASSUME NEW d, NEW own, own = PP!PROFILE_INIT(d), NEW base, PP_Sound(base), NEW p, p = PP!loadProfile(own, base, d),
           \A l \in DOMAIN d.settings : d.settings[l] # "none"
    PROVE  /\ PP_Sound(p)
           /\ p.on = IF PP!Switch(d.node) THEN base.on ELSE own.on
           /\ \A l \in PP!Settings : PP_Text(p, l) =
                IF PP!Switch(d.node) /\ l \in DOMAIN d.settings /\ PP!Enabled(p, l[1]) THEN d.settings[l]
                ELSE IF PP!Switch(d.node) THEN PP_Text(base, l) ELSE "none"
<1>0. PP_Sound(own) /\ own.enabled = PP!Switch(d.node) /\ \A l \in PP!Settings : PP_Text(own, l) = "none"
  BY PP_Own
<1>1. CASE ~PP!Switch(d.node)
  <2>1. p = own
    BY <1>0, <1>1 DEF PP!loadProfile
  <2> QED BY <1>0, <1>1, <2>1
<1>2. CASE PP!Switch(d.node)
  <2>1. p = [base EXCEPT !.value = [l \in PP!Settings |-> PP!PROFILE_SET(base, d, l)[1]],
                         !.set = [l \in PP!Settings |-> PP!PROFILE_SET(base, d, l)[2]],
                         !.governor_data = [c \in PP!Clusters |-> PP!XML_GET_CPUGOV(base, d, c)]]
    BY <1>0, <1>2 DEF PP!loadProfile
  <2>2. DOMAIN base = PP_Fields
    BY DEF PP_Sound
  <2>3. /\ DOMAIN p = PP_Fields /\ p.on = base.on
        /\ p.value = [l \in PP!Settings |-> PP!PROFILE_SET(base, d, l)[1]]
        /\ p.set = [l \in PP!Settings |-> PP!PROFILE_SET(base, d, l)[2]]
    BY <2>1, <2>2 DEF PP_Fields
  <2>4. ASSUME NEW l \in PP!Settings
        PROVE  /\ p.set[l] \in BOOLEAN /\ (p.set[l] => p.value[l] # "none")
               /\ PP_Text(p, l) = IF l \in DOMAIN d.settings /\ PP!Enabled(base, l[1]) THEN d.settings[l] ELSE PP_Text(base, l)
    <3>1. PICK r : r = PP!PROFILE_SET(base, d, l)
      OBVIOUS
    <3>2. p.set[l] = r[2] /\ p.value[l] = r[1]
      BY <2>3, <3>1
    <3>3. /\ r[2] \in BOOLEAN /\ (r[2] => r[1] # "none")
          /\ (IF r[2] THEN r[1] ELSE "none") =
                IF l \in DOMAIN d.settings /\ PP!Enabled(base, l[1]) THEN d.settings[l] ELSE PP_Text(base, l)
      BY <3>1, PP_Set
    <3>4. PP_Text(p, l) = IF r[2] THEN r[1] ELSE "none"
      BY <3>2 DEF PP_Text
    <3> QED BY <3>2, <3>3, <3>4
  <2>5. PP_Sound(p)
    BY <2>3, <2>4 DEF PP_Sound
  <2>6. \A s : PP!Enabled(p, s) <=> PP!Enabled(base, s)
    BY <2>3, PP_Switched
  <2> QED BY <1>2, <2>3, <2>4, <2>5, <2>6
<1> QED BY <1>1, <1>2

-----------------------------------------------------------------------------
(* The profiles loaded so far agree with the document. *)
PP_Doc(D, i) == D[PP!Order[i]]
PP_Up(D, i) == PP!Index(PP_Doc(D, i).extends)
PP_Inherits(D, i) == PP!Switch(PP_Doc(D, i).node) /\ PP_Doc(D, i).extends \in PP!Names \ {PP!Order[i]}

PP_Loaded(D, P, i) ==
    /\ P[PP!Order[i]].on = IF ~PP_Inherits(D, i) THEN PP!PROFILE_INIT(PP_Doc(D, i)).on
                           ELSE IF PP_Up(D, i) > i THEN PP!Zero.on ELSE P[PP!Order[PP_Up(D, i)]].on
    /\ \A l \in PP!Settings : PP_Text(P[PP!Order[i]], l) =
         IF PP!Switch(PP_Doc(D, i).node) /\ l \in DOMAIN PP_Doc(D, i).settings /\ PP!Enabled(P[PP!Order[i]], l[1])
           THEN PP_Doc(D, i).settings[l]
         ELSE IF PP_Inherits(D, i) /\ PP_Up(D, i) < i THEN PP_Text(P[PP!Order[PP_Up(D, i)]], l) ELSE "none"

PP_Profiles(D, P, pos) ==
    /\ DOMAIN P = PP!Names
    /\ \A n \in PP!Names : PP_Sound(P[n])
    /\ \A i \in 1 .. 6 : IF i <= pos THEN PP_Loaded(D, P, i) ELSE P[PP!Order[i]] = PP!Zero

(* A document once found stays; no step follows a crash. *)
PP_IInv ==
    /\ pp_xml \in ProfileXmls /\ pp_pos \in 0 .. 7
    /\ ~pp_crashed => PP_Profiles(PP!Document, pp_profile, pp_pos)
    /\ ~pp_crashed /\ pp_pos > 0 => PP!Chosen(pp_xml) # 0
    /\ PP!CrashesOnlyUnprepared

LEMMA PP_Other ==
    ASSUME NEW D, NEW i \in 1 .. 6, PP_Inherits(D, i)
    PROVE  PP_Up(D, i) \in 1 .. 6 /\ PP_Up(D, i) # i /\ PP!Order[PP_Up(D, i)] = PP_Doc(D, i).extends
<1>1. PP_Doc(D, i).extends \in PP!Names /\ PP_Doc(D, i).extends # PP!Order[i]
  BY DEF PP_Inherits
<1> QED BY <1>1, PP_Index DEF PP_Up

(* A profile is not disturbed by one that is loaded after it. *)
PP_SameUpTo(P, Q, i) == \A k \in 1 .. i : Q[PP!Order[k]] = P[PP!Order[k]]

LEMMA PP_Undisturbed ==
    ASSUME NEW D, NEW P, NEW Q, NEW i \in 1 .. 6, PP_Loaded(D, P, i), PP_SameUpTo(P, Q, i)
    PROVE  PP_Loaded(D, Q, i)
<1>0. \A k \in 1 .. i : Q[PP!Order[k]] = P[PP!Order[k]]
  BY DEF PP_SameUpTo
<1>1. Q[PP!Order[i]] = P[PP!Order[i]]
  BY <1>0
<1>2. ASSUME PP_Inherits(D, i), ~(PP_Up(D, i) > i) PROVE Q[PP!Order[PP_Up(D, i)]] = P[PP!Order[PP_Up(D, i)]]
  <2>1. PP_Up(D, i) \in 1 .. i
    BY <1>2, PP_Other
  <2> QED BY <1>0, <2>1
<1>3. ASSUME PP_Inherits(D, i), PP_Up(D, i) < i PROVE Q[PP!Order[PP_Up(D, i)]] = P[PP!Order[PP_Up(D, i)]]
  <2>1. PP_Up(D, i) \in 1 .. i
    BY <1>3, PP_Other
  <2> QED BY <1>0, <2>1
<1> QED BY <1>1, <1>2, <1>3 DEF PP_Loaded

(* loadProfileImpl: the next profile agrees with the document, too. *)
LEMMA PP_NextProfile ==
    ASSUME NEW D, NEW P, NEW Q, NEW pos \in 0 .. 5, NEW i \in 1 .. 6, i = pos + 1, PP_Profiles(D, P, pos),
           NEW d, d = PP_Doc(D, i), \A l \in DOMAIN d.settings : d.settings[l] # "none",
           NEW own, own = PP!PROFILE_INIT(d), NEW parent, parent = PP!kProfileNameToData(d.extends),
           NEW base, base = (IF d.extends = "none" \/ parent = PP!Order[i] THEN own ELSE P[parent]),
           ~(own.enabled /\ d.extends # "none" /\ parent = "nullptr"),
           Q = [P EXCEPT ![PP!Order[i]] = PP!loadProfile(own, base, d)]
    PROVE  PP_Profiles(D, Q, i)
<1>p. PICK p : p = PP!loadProfile(own, base, d)
  OBVIOUS
<1>n. PICK n \in PP!Names : n = PP!Order[i]
  BY PP_Names
<1>1. own.enabled = PP!Switch(d.node) /\ PP_Sound(own) /\ \A l \in PP!Settings : PP_Text(own, l) = "none"
  BY PP_Own
<1>2. DOMAIN Q = PP!Names /\ Q[n] = p /\ \A m \in PP!Names : m # n => Q[m] = P[m]
  BY <1>n, <1>p DEF PP_Profiles
<1>3. /\ PP_Inherits(D, i) <=> PP!Switch(d.node) /\ d.extends \in PP!Names \ {n}
      /\ parent = IF d.extends \in PP!Names THEN d.extends ELSE "nullptr"
  BY <1>n DEF PP_Inherits, PP!kProfileNameToData
<1>4. \A k \in 1 .. 6 : PP!Order[k] \in PP!Names /\ (k # i => Q[PP!Order[k]] = P[PP!Order[k]])
  BY <1>2, <1>n, PP_Names, PP_Index
<1>5. PP_Sound(p) /\ PP_Loaded(D, Q, i)
  <2>1. CASE ~PP!Switch(d.node)
    <3>1. p = own
      BY <1>1, <1>p, <2>1 DEF PP!loadProfile
    <3>2. ~PP_Inherits(D, i)
      BY <1>3, <2>1
    <3> QED BY <1>1, <1>2, <1>n, <2>1, <3>1, <3>2 DEF PP_Loaded
  <2>2. CASE PP!Switch(d.node) /\ (d.extends = "none" \/ parent = n)
    <3>1. base = own
      BY <1>n, <2>2
    <3>2. ~PP_Inherits(D, i)
      BY <1>3, <2>2, PP_Names
    <3>3. /\ PP_Sound(p) /\ p.on = own.on
          /\ \A l \in PP!Settings : PP_Text(p, l) =
                IF PP!Switch(d.node) /\ l \in DOMAIN d.settings /\ PP!Enabled(p, l[1]) THEN d.settings[l] ELSE PP_Text(own, l)
      BY <1>1, <1>p, <2>2, <3>1, PP_LoadProfile
    <3> QED BY <1>1, <1>2, <1>n, <3>2, <3>3 DEF PP_Loaded
  <2>3. CASE PP!Switch(d.node) /\ ~(d.extends = "none" \/ parent = n)
    <3>1. base = P[d.extends] /\ d.extends \in PP!Names \ {n} /\ PP_Inherits(D, i)
      BY <1>1, <1>3, <1>n, <2>3
    <3>2. PP_Up(D, i) \in 1 .. 6 /\ PP_Up(D, i) # i /\ base = P[PP!Order[PP_Up(D, i)]] /\ Q[PP!Order[PP_Up(D, i)]] = base
      BY <1>4, <3>1, PP_Other
    <3>3. PP_Sound(base)
      BY <3>1 DEF PP_Profiles
    <3>4. /\ PP_Sound(p) /\ p.on = base.on
          /\ \A l \in PP!Settings : PP_Text(p, l) =
                IF PP!Switch(d.node) /\ l \in DOMAIN d.settings /\ PP!Enabled(p, l[1]) THEN d.settings[l] ELSE PP_Text(base, l)
      BY <1>p, <2>3, <3>3, PP_LoadProfile
    <3>5. PP_Up(D, i) > i => base = PP!Zero
      <4>1. PP_Up(D, i) > i => ~(PP_Up(D, i) <= pos)
        BY <3>2
      <4> QED BY <3>2, <4>1 DEF PP_Profiles
    <3>6. ~(PP_Up(D, i) > i) => PP_Up(D, i) < i
      BY <3>2
    <3> QED BY <1>2, <1>n, <3>1, <3>2, <3>4, <3>5, <3>6, PP_ZeroSound DEF PP_Loaded
  <2> QED BY <2>1, <2>2, <2>3
<1>6. \A m \in PP!Names : PP_Sound(Q[m])
  BY <1>2, <1>5 DEF PP_Profiles
<1>7. ASSUME NEW k \in 1 .. 6
      PROVE  IF k <= i THEN PP_Loaded(D, Q, k) ELSE Q[PP!Order[k]] = PP!Zero
  <2>1. CASE k = i
    BY <1>5, <2>1
  <2>2. CASE k < i
    <3>1. PP_Loaded(D, P, k)
      BY <2>2 DEF PP_Profiles
    <3>2. PP_SameUpTo(P, Q, k)
      BY <1>4, <2>2 DEF PP_SameUpTo
    <3>3. PP_Loaded(D, Q, k)
      BY <3>1, <3>2, PP_Undisturbed
    <3> QED BY <2>2, <3>3
  <2>3. CASE k > i
    <3>1. ~(k <= pos) /\ k # i /\ ~(k <= i)
      BY <2>3
    <3> QED BY <1>4, <3>1 DEF PP_Profiles
  <2> QED BY <2>1, <2>2, <2>3
<1> QED BY <1>2, <1>6, <1>7 DEF PP_Profiles

-----------------------------------------------------------------------------
(* The meaning of the document, which refers to itself.  The profiles that   *)
(* were loaded are one solution of each equation, so there is one; and there *)
(* is only one, as a profile only refers to those before it. *)
PP_SwitchesAre(D, f) ==
    f = [i \in 1 .. 6 |-> IF ~PP_Inherits(D, i) THEN PP!PROFILE_INIT(PP_Doc(D, i)).on
                          ELSE IF PP_Up(D, i) > i THEN PP!Zero.on ELSE f[PP_Up(D, i)]]
PP_Above(D, f, i) == IF PP_Inherits(D, i) /\ PP_Up(D, i) < i THEN f[PP_Up(D, i)] ELSE [l \in PP!Settings |-> "none"]
PP_SettingsAre(D, sw, f) ==
    f = [i \in 1 .. 6 |-> [l \in PP!Settings |->
           IF /\ PP!Switch(PP_Doc(D, i).node) /\ l \in DOMAIN PP_Doc(D, i).settings
              /\ \A k \in 1 .. Len(l[1]) : sw[i][SubSeq(l[1], 1, k)]
             THEN PP_Doc(D, i).settings[l] ELSE PP_Above(D, f, i)[l]]]

LEMMA PP_SwitchesDef ==
    ASSUME NEW g, PP_SwitchesAre(PP!Document, g)
    PROVE  PP_SwitchesAre(PP!Document, PP!Switches)
<1>1. PP!Switches = CHOOSE f : PP_SwitchesAre(PP!Document, f)
  BY PP_Order DEF PP!Switches, PP_SwitchesAre, PP_Inherits, PP_Doc, PP_Up, PP!Inherits
<1> QED BY <1>1, Zenon

LEMMA PP_SettingsDef ==
    ASSUME NEW g, PP_SettingsAre(PP!Document, PP!Switches, g)
    PROVE  PP_SettingsAre(PP!Document, PP!Switches, PP!SettingIn)
<1>1. PP!SettingIn = CHOOSE f : PP_SettingsAre(PP!Document, PP!Switches, f)
  BY PP_Order DEF PP!SettingIn, PP_SettingsAre, PP_Above, PP_Inherits, PP_Doc, PP_Up, PP!Inherits
<1> QED BY <1>1, Zenon

(* Two functions that agree on i if they agree below it agree. *)
LEMMA PP_SixSteps ==
    ASSUME NEW f, NEW g, \A i \in 1 .. 6 : (\A k \in 1 .. i - 1 : f[k] = g[k]) => f[i] = g[i]
    PROVE  \A i \in 1 .. 6 : f[i] = g[i]
<1>1. f[1] = g[1]
  OBVIOUS
<1>2. f[2] = g[2]
  <2>1. \A k \in 1 .. 2 - 1 : k = 1
    OBVIOUS
  <2> QED BY <1>1, <2>1
<1>3. f[3] = g[3]
  <2>1. \A k \in 1 .. 3 - 1 : k \in {1, 2}
    OBVIOUS
  <2> QED BY <1>1, <1>2, <2>1
<1>4. f[4] = g[4]
  <2>1. \A k \in 1 .. 4 - 1 : k \in {1, 2, 3}
    OBVIOUS
  <2> QED BY <1>1, <1>2, <1>3, <2>1
<1>5. f[5] = g[5]
  <2>1. \A k \in 1 .. 5 - 1 : k \in {1, 2, 3, 4}
    OBVIOUS
  <2> QED BY <1>1, <1>2, <1>3, <1>4, <2>1
<1>6. f[6] = g[6]
  <2>1. \A k \in 1 .. 6 - 1 : k \in {1, 2, 3, 4, 5}
    OBVIOUS
  <2> QED BY <1>1, <1>2, <1>3, <1>4, <1>5, <2>1
<1>7. \A i \in 1 .. 6 : i \in {1, 2, 3, 4, 5, 6}
  OBVIOUS
<1> QED BY <1>1, <1>2, <1>3, <1>4, <1>5, <1>6, <1>7

LEMMA PP_OneSwitches ==
    ASSUME NEW D, NEW f, NEW g, PP_SwitchesAre(D, f), PP_SwitchesAre(D, g)
    PROVE  \A i \in 1 .. 6 : f[i] = g[i]
<1>1. ASSUME NEW i \in 1 .. 6, \A k \in 1 .. i - 1 : f[k] = g[k]
      PROVE  f[i] = g[i]
  <2>1. /\ f[i] = IF ~PP_Inherits(D, i) THEN PP!PROFILE_INIT(PP_Doc(D, i)).on
                  ELSE IF PP_Up(D, i) > i THEN PP!Zero.on ELSE f[PP_Up(D, i)]
        /\ g[i] = IF ~PP_Inherits(D, i) THEN PP!PROFILE_INIT(PP_Doc(D, i)).on
                  ELSE IF PP_Up(D, i) > i THEN PP!Zero.on ELSE g[PP_Up(D, i)]
    BY DEF PP_SwitchesAre
  <2>2. PP_Inherits(D, i) /\ ~(PP_Up(D, i) > i) => PP_Up(D, i) \in 1 .. i - 1
    BY PP_Other
  <2> QED BY <1>1, <2>1, <2>2
<1> QED BY <1>1, PP_SixSteps

LEMMA PP_OneSettings ==
    ASSUME NEW D, NEW sw, NEW f, NEW g, PP_SettingsAre(D, sw, f), PP_SettingsAre(D, sw, g)
    PROVE  \A i \in 1 .. 6 : f[i] = g[i]
<1>1. ASSUME NEW i \in 1 .. 6, \A k \in 1 .. i - 1 : f[k] = g[k]
      PROVE  f[i] = g[i]
  <2>1. PP_Inherits(D, i) /\ PP_Up(D, i) < i => PP_Up(D, i) \in 1 .. i - 1
    BY PP_Other
  <2>2. PP_Above(D, f, i) = PP_Above(D, g, i)
    BY <1>1, <2>1 DEF PP_Above
  <2>3. f[i] = [l \in PP!Settings |->
           IF /\ PP!Switch(PP_Doc(D, i).node) /\ l \in DOMAIN PP_Doc(D, i).settings
              /\ \A k \in 1 .. Len(l[1]) : sw[i][SubSeq(l[1], 1, k)]
             THEN PP_Doc(D, i).settings[l] ELSE PP_Above(D, f, i)[l]]
    BY DEF PP_SettingsAre
  <2>4. g[i] = [l \in PP!Settings |->
           IF /\ PP!Switch(PP_Doc(D, i).node) /\ l \in DOMAIN PP_Doc(D, i).settings
              /\ \A k \in 1 .. Len(l[1]) : sw[i][SubSeq(l[1], 1, k)]
             THEN PP_Doc(D, i).settings[l] ELSE PP_Above(D, g, i)[l]]
    BY DEF PP_SettingsAre
  <2> QED BY <2>2, <2>3, <2>4
<1> QED BY <1>1, PP_SixSteps

LEMMA PP_AsWritten ==
    ASSUME NEW D, D = PP!Document, NEW P, PP_Profiles(D, P, 6)
    PROVE  \A i \in 1 .. 6, l \in PP!Settings :
             /\ P[PP!Order[i]].on = PP!Switches[i]
             /\ P[PP!Order[i]].set[l] = (PP!SettingIn[i][l] # "none")
             /\ P[PP!Order[i]].set[l] => P[PP!Order[i]].value[l] = PP!SettingIn[i][l]
<1>0. \A i \in 1 .. 6 : PP_Loaded(D, P, i)
  BY DEF PP_Profiles
<1>o. PICK on : on = [i \in 1 .. 6 |-> P[PP!Order[i]].on]
  OBVIOUS
<1>1. PP_SwitchesAre(D, on)
  <2>1. ASSUME NEW i \in 1 .. 6
        PROVE  on[i] = IF ~PP_Inherits(D, i) THEN PP!PROFILE_INIT(PP_Doc(D, i)).on
                       ELSE IF PP_Up(D, i) > i THEN PP!Zero.on ELSE on[PP_Up(D, i)]
    <3>1. PP_Inherits(D, i) => on[PP_Up(D, i)] = P[PP!Order[PP_Up(D, i)]].on
      BY <1>o, PP_Other
    <3>2. on[i] = P[PP!Order[i]].on
      BY <1>o
    <3> QED BY <1>0, <3>1, <3>2 DEF PP_Loaded
  <2>2. on = [i \in 1 .. 6 |-> on[i]]
    BY <1>o
  <2> QED BY <2>1, <2>2 DEF PP_SwitchesAre
<1>2. \A i \in 1 .. 6 : PP!Switches[i] = P[PP!Order[i]].on
  BY <1>1, <1>o, PP_SwitchesDef, PP_OneSwitches
<1>t. PICK given : given = [i \in 1 .. 6 |-> [l \in PP!Settings |-> PP_Text(P[PP!Order[i]], l)]]
  OBVIOUS
<1>3. PP_SettingsAre(D, PP!Switches, given)
  <2>1. ASSUME NEW i \in 1 .. 6, NEW l \in PP!Settings
        PROVE  given[i][l] = IF /\ PP!Switch(PP_Doc(D, i).node) /\ l \in DOMAIN PP_Doc(D, i).settings
                                /\ \A k \in 1 .. Len(l[1]) : PP!Switches[i][SubSeq(l[1], 1, k)]
                               THEN PP_Doc(D, i).settings[l] ELSE PP_Above(D, given, i)[l]
    <3>1. given[i][l] = PP_Text(P[PP!Order[i]], l)
      BY <1>t
    <3>2. PP!Enabled(P[PP!Order[i]], l[1]) <=> \A k \in 1 .. Len(l[1]) : PP!Switches[i][SubSeq(l[1], 1, k)]
      BY <1>2 DEF PP!Enabled
    <3>3. PP_Above(D, given, i)[l] = IF PP_Inherits(D, i) /\ PP_Up(D, i) < i THEN PP_Text(P[PP!Order[PP_Up(D, i)]], l) ELSE "none"
      BY <1>t, PP_Other DEF PP_Above
    <3> QED BY <1>0, <3>1, <3>2, <3>3 DEF PP_Loaded
  <2>2. given = [i \in 1 .. 6 |-> given[i]] /\ \A i \in 1 .. 6 : given[i] = [l \in PP!Settings |-> given[i][l]]
    BY <1>t
  <2> QED BY <2>1, <2>2 DEF PP_SettingsAre
<1>4. \A i \in 1 .. 6 : PP!SettingIn[i] = given[i]
  BY <1>3, PP_SettingsDef, PP_OneSettings
<1>5. ASSUME NEW i \in 1 .. 6, NEW l \in PP!Settings
      PROVE  /\ P[PP!Order[i]].set[l] = (PP!SettingIn[i][l] # "none")
             /\ P[PP!Order[i]].set[l] => P[PP!Order[i]].value[l] = PP!SettingIn[i][l]
  <2>1. PP!SettingIn[i][l] = PP_Text(P[PP!Order[i]], l)
    BY <1>4, <1>t
  <2>2. P[PP!Order[i]].set[l] \in BOOLEAN /\ (P[PP!Order[i]].set[l] => P[PP!Order[i]].value[l] # "none")
    BY PP_Names DEF PP_Profiles, PP_Sound
  <2> QED BY <2>1, <2>2 DEF PP_Text
<1> QED BY <1>2, <1>5
-----------------------------------------------------------------------------
(* The steps. *)
LEMMA PP_Init == PP!Init => PP_IInv
<1> SUFFICES ASSUME PP!Init PROVE PP_IInv
  OBVIOUS
<1>1. pp_xml \in ProfileXmls /\ pp_profile = [n \in PP!Names |-> PP!Zero] /\ pp_pos = 0 /\ pp_crashed = FALSE
  BY DEF PP!Init
<1>2. PP_Profiles(PP!Document, pp_profile, pp_pos)
  <2>1. \A n \in PP!Names : pp_profile[n] = PP!Zero
    BY <1>1
  <2>2. \A i \in 1 .. 6 : ~(i <= pp_pos)
    BY <1>1
  <2> QED BY <1>1, <2>1, <2>2, PP_ZeroSound, PP_Names DEF PP_Profiles
<1> QED BY <1>1, <1>2 DEF PP_IInv, PP!CrashesOnlyUnprepared

LEMMA PP_SameDocument ==
    ASSUME pp_xml' = pp_xml
    PROVE  PP!Chosen(pp_xml)' = PP!Chosen(pp_xml) /\ PP!Document' = PP!Document
BY DEF PP!Document

LEMMA PP_Load == ASSUME PP_IInv, PP!loadProfileImpl PROVE PP_IInv'
<1>i. PICK i \in 1 .. 6 : i = pp_pos + 1 /\ pp_pos \in 0 .. 5
  BY PP_Order DEF PP!loadProfileImpl, PP_IInv
<1>d. PICK D : D = PP!Document
  OBVIOUS
<1>e. PICK d : d = D[PP!Order[i]]
  OBVIOUS
<1>o. PICK own : own = PP!PROFILE_INIT(d)
  OBVIOUS
<1>p. PICK parent : parent = PP!kProfileNameToData(d.extends)
  OBVIOUS
<1>b. PICK base : base = (IF d.extends = "none" \/ parent = PP!Order[i] THEN own ELSE pp_profile[parent])
  OBVIOUS
<1>1. /\ ~pp_crashed /\ PP!Chosen(pp_xml) # 0 /\ pp_pos' = i /\ pp_xml' = pp_xml /\ pp_mCurrentProfile' = pp_mCurrentProfile
      /\ pp_crashed' = (own.enabled /\ d.extends # "none" /\ parent = "nullptr")
      /\ pp_profile' = IF pp_crashed' THEN pp_profile
                       ELSE [pp_profile EXCEPT ![PP!Order[i]] = PP!loadProfile(own, base, d)]
  BY <1>i, <1>d, <1>e, <1>o, <1>p, <1>b DEF PP!loadProfileImpl
<1>2. PP!Chosen(pp_xml)' = PP!Chosen(pp_xml) /\ PP!Document' = D
  BY <1>1, <1>d, PP_SameDocument
<1>n. PP!Order[i] \in PP!Names
  BY PP_Names
<1>3. \A l \in DOMAIN d.settings : d.settings[l] # "none"
  BY <1>1, <1>d, <1>e, <1>n, PP_Texts DEF PP_IInv
<1>4. CASE pp_crashed'
  <2>1. d.extends \notin PP!Names \cup {"none"}
    BY <1>1, <1>4, <1>p, PP_Names DEF PP!kProfileNameToData
  <2>2. PP!CrashesOnlyUnprepared'
    BY <1>2, <1>n, <1>e, <2>1 DEF PP!CrashesOnlyUnprepared
  <2> QED BY <1>1, <1>i, <1>4, <2>2 DEF PP_IInv
<1>5. CASE ~pp_crashed'
  <2>1. ~(own.enabled /\ d.extends # "none" /\ parent = "nullptr")
    BY <1>1, <1>5
  <2>2. pp_profile' = [pp_profile EXCEPT ![PP!Order[i]] = PP!loadProfile(own, base, d)]
    BY <1>1, <1>5
  <2>3. PP_Profiles(D, pp_profile, pp_pos)
    BY <1>1, <1>d DEF PP_IInv
  <2>4. d = PP_Doc(D, i)
    BY <1>e DEF PP_Doc
  <2>5. PP_Profiles(D, pp_profile', i)
    BY <1>i, <1>o, <1>p, <1>b, <1>3, <2>1, <2>2, <2>3, <2>4, PP_NextProfile
  <2>6. PP_Profiles(PP!Document', pp_profile', pp_pos')
    BY <1>1, <1>2, <2>5
  <2> QED BY <1>1, <1>2, <1>i, <1>5, <2>6 DEF PP_IInv, PP!CrashesOnlyUnprepared
<1> QED BY <1>4, <1>5

LEMMA PP_NoProfiles == ASSUME PP_IInv, PP!NoProfiles PROVE PP_IInv'
<1>1. pp_crashed' /\ PP!Chosen(pp_xml) = 0 /\ pp_xml' = pp_xml /\ pp_pos' = pp_pos
  BY DEF PP!NoProfiles
<1>2. PP!Chosen(pp_xml)' = 0
  BY <1>1, PP_SameDocument
<1> QED BY <1>1, <1>2 DEF PP_IInv, PP!CrashesOnlyUnprepared

(* Every value up to MAX_PROFILES is that of a profile. *)
LEMMA PP_Known ==
    ASSUME NEW v, PP!getProfileData(v) = "nullptr"
    PROVE  v \notin -1 .. PP!MAX_PROFILES - 1
<1>1. ASSUME v \in -1 .. 4 PROVE FALSE
  <2>1. v \in {-1, 0, 1, 2, 3, 4}
    BY <1>1
  <2> QED BY <2>1 DEF PP!getProfileData
<1> QED BY <1>1 DEF PP!MAX_PROFILES

(* A call of a running service leaves the profiles and the document alone. *)
LEMMA PP_Called ==
    ASSUME PP_IInv, ~pp_crashed, pp_pos \in 6 .. 7, pp_xml' = pp_xml, pp_profile' = pp_profile, pp_pos' = 7,
           pp_crashed' => PP!getProfileData(pp_mCurrentProfile') = "nullptr"
    PROVE  PP_IInv'
<1>d. PICK D : D = PP!Document
  OBVIOUS
<1>1. PP!Chosen(pp_xml)' = PP!Chosen(pp_xml) /\ PP!Document' = D
  BY <1>d, PP_SameDocument
<1>2. PP_Profiles(D, pp_profile, pp_pos)
  BY <1>d DEF PP_IInv
<1>3. PP_Profiles(D, pp_profile, 7)
  BY <1>2 DEF PP_Profiles
<1>4. PP_Profiles(PP!Document', pp_profile', pp_pos')
  BY <1>1, <1>3
<1>5. pp_pos' \in 0 .. 7 /\ PP!Chosen(pp_xml)' # 0
  BY <1>1 DEF PP_IInv
<1>6. PP!CrashesOnlyUnprepared'
  BY PP_Known DEF PP!CrashesOnlyUnprepared
<1> QED BY <1>4, <1>5, <1>6 DEF PP_IInv

LEMMA PP_Call ==
    ASSUME PP_IInv, PP!Call
    PROVE  ~pp_crashed /\ pp_pos = 7 /\ pp_xml' = pp_xml /\ pp_profile' = pp_profile /\ pp_pos' = 7
BY PP_Order DEF PP!Call, PP!Ready

LEMMA PP_Step == ASSUME PP_IInv, [PP!Next]_PP!vars PROVE PP_IInv'
<1>1. CASE PP!loadProfileImpl
  BY <1>1, PP_Load
<1>2. CASE PP!NoProfiles
  BY <1>2, PP_NoProfiles
<1>3. CASE PP!Construct
  <2>1. ~pp_crashed /\ pp_pos = 6 /\ pp_pos' = 7 /\ pp_xml' = pp_xml /\ pp_profile' = pp_profile /\ PP!setProfile(1)
    BY <1>3, PP_Order DEF PP!Construct
  <2>2. pp_crashed' => PP!getProfileData(pp_mCurrentProfile') = "nullptr"
    BY <2>1 DEF PP!setProfile
  <2> QED BY <2>1, <2>2, PP_Called
<1>4. CASE PP!HintSetProfile
  <2>1. PICK v \in ProfileHints : PP!setProfile(v) /\ PP!Call
    BY <1>4 DEF PP!HintSetProfile
  <2>2. pp_crashed' => PP!getProfileData(pp_mCurrentProfile') = "nullptr"
    BY <2>1 DEF PP!setProfile
  <2>3. ~pp_crashed /\ pp_pos = 7 /\ pp_xml' = pp_xml /\ pp_profile' = pp_profile /\ pp_pos' = 7
    BY <2>1, PP_Call
  <2> QED BY <2>2, <2>3, PP_Called
<1>5. CASE PP!Interaction
  <2>1. PICK d \in BoostDurations : PP!boostpulse(d)
    BY <1>5 DEF PP!Interaction
  <2>2. PP!Call /\ pp_crashed' = (PP!getProfileData(pp_mCurrentProfile) = "nullptr") /\ pp_mCurrentProfile' = pp_mCurrentProfile
    BY <2>1 DEF PP!boostpulse
  <2>3. ~pp_crashed /\ pp_pos = 7 /\ pp_xml' = pp_xml /\ pp_profile' = pp_profile /\ pp_pos' = 7
    BY <2>2, PP_Call
  <2>4. pp_crashed' => PP!getProfileData(pp_mCurrentProfile') = "nullptr"
    BY <2>2
  <2> QED BY <2>3, <2>4, PP_Called
<1>6. CASE PP!UserSetsModule \/ PP!UserSetsGovernor
  <2>1. PP!Call /\ pp_crashed' = pp_crashed
    BY <1>6 DEF PP!UserSetsModule, PP!UserSetsGovernor
  <2>2. ~pp_crashed /\ pp_pos = 7 /\ pp_xml' = pp_xml /\ pp_profile' = pp_profile /\ pp_pos' = 7
    BY <2>1, PP_Call
  <2> QED BY <2>1, <2>2, PP_Called
<1>7. CASE UNCHANGED PP!vars
  <2>1. /\ pp_xml' = pp_xml /\ pp_profile' = pp_profile /\ pp_pos' = pp_pos /\ pp_crashed' = pp_crashed
        /\ pp_mCurrentProfile' = pp_mCurrentProfile
    BY <1>7 DEF PP!vars
  <2>2. PP!Chosen(pp_xml)' = PP!Chosen(pp_xml) /\ PP!Document' = PP!Document
    BY <2>1, PP_SameDocument
  <2>3. PP_Profiles(PP!Document, pp_profile, pp_pos) => PP_Profiles(PP!Document', pp_profile', pp_pos')
    BY <2>1, <2>2
  <2> QED BY <2>1, <2>2, <2>3 DEF PP_IInv, PP!CrashesOnlyUnprepared
<1> QED BY <1>1, <1>2, <1>3, <1>4, <1>5, <1>6, <1>7 DEF PP!Next

(* Profiles.cpp: for any document at any of the three paths, each profile ends   *)
(* with the switches and settings that its chain of "extends" gives it, whatever *)
(* the order of the profiles, and the service only goes down without a document, *)
(* for an unknown parent or for a value that no profile belongs to. *)
THEOREM ProfilesLoaded == PP!Spec => []ProfilesInv
<1>1. PP_IInv => ProfilesInv
  <2> SUFFICES ASSUME PP_IInv PROVE ProfilesInv
    OBVIOUS
  <2>1. PP!CrashesOnlyUnprepared
    BY DEF PP_IInv
  <2>2. ASSUME pp_pos = 6, ~pp_crashed
        PROVE  /\ PP!Document = pp_xml[IF pp_xml["USER"] # PP!NoFile THEN "USER"
                                       ELSE IF pp_xml["VENDOR"] # PP!NoFile THEN "VENDOR" ELSE "SYSTEM"]
               /\ \A i \in 1 .. 6, l \in PP!Settings :
                    /\ pp_profile[PP!Order[i]].on = PP!Switches[i]
                    /\ pp_profile[PP!Order[i]].set[l] = (PP!SettingIn[i][l] # "none")
                    /\ pp_profile[PP!Order[i]].set[l] => pp_profile[PP!Order[i]].value[l] = PP!SettingIn[i][l]
    <3>1. PP!Chosen(pp_xml) # 0 /\ PP_Profiles(PP!Document, pp_profile, 6)
      BY <2>2 DEF PP_IInv
    <3> QED BY <3>1, PP_Chosen, PP_AsWritten
  <2>3. PP!ProfilesAsWritten
    BY <2>2, PP_Order DEF PP!ProfilesAsWritten
  <2> QED BY <2>1, <2>3 DEF ProfilesInv, PP!ProfilesInv
<1>2. PP!Init => PP_IInv
  BY PP_Init
<1>3. PP_IInv /\ [PP!Next]_PP!vars => PP_IInv'
  BY PP_Step
<1> QED BY <1>1, <1>2, <1>3, PTL DEF PP!Spec
-----------------------------------------------------------------------------
(* From the profile to the files. *)
LEMMA PP_NotFixed == \A l \in PP!Settings : l \notin PP!Fixed
<1> SUFFICES ASSUME NEW s \in PP!Sections, NEW n \in PP!SecPowerProfile(s) PROVE <<s, n>> \notin PP!Fixed
  BY DEF PP!Settings
<1>1. n \notin {"enabled", "enable_dm_hotplug"}
  BY DEF PP!SecPowerProfile, PP!SecPowerProfileCpuCluster, PP!Cores, PP!SecPowerHmpThreshold
<1> QED BY <1>1 DEF PP!Fixed

LEMMA PP_Cores == \A l \in PP!PolicyCores : PP!HasFile(l) /\ PP!Source(l) = l
BY DEF PP!PolicyCores, PP!HasFile, PP!Source

LEMMA PP_WrittenFile ==
    ASSUME NEW p, NEW l \in PP!Settings, l[2] # "active_down_migration"
    PROVE  PP!Written(p, l) = IF PP!HasFile(l) /\ PP!Enabled(p, PP!Section(l)) /\ p.set[l] THEN p.value[l]
                              ELSE IF l \in PP!PolicyCores THEN "online" ELSE pp_files[l]
<1>1. l \notin PP!Fixed /\ PP!Source(l) = l
  BY PP_NotFixed DEF PP!Source
<1>2. CASE l \in PP!PolicyCores /\ ~(PP!Enabled(p, PP!Section(l)) /\ p.set[l])
  BY <1>1, <1>2 DEF PP!Written
<1>3. CASE ~(l \in PP!PolicyCores /\ ~(PP!Enabled(p, PP!Section(l)) /\ p.set[l]))
  <2>1. PP!Written(p, l) = PP!PROFILE_WRITE(p, l)
    BY <1>1, <1>3 DEF PP!Written
  <2> QED BY <1>1, <1>3, <2>1, PP_Cores DEF PP!PROFILE_WRITE
<1> QED BY <1>2, <1>3

(* What a call of setProfile that is carried out writes. *)
LEMMA PP_SetProfile ==
    ASSUME NEW v, PP!setProfile(v), ~pp_crashed', pp_moduleOn, pp_profile[PP!getProfileData(v)].enabled
    PROVE  PP!Apply(v)
BY DEF PP!setProfile

PP_FilesStep ==
    (pp_last'.call = "setProfile" /\ pp_last' # pp_last /\ ~pp_crashed' /\ pp_moduleOn) =>
      LET p == pp_profile[PP!getProfileData(pp_last'.arg)] IN
      p.enabled =>
        \A l \in PP!Settings : l[2] # "active_down_migration" =>
           IF PP!HasFile(l) /\ PP!Enabled(p, PP!Section(l)) /\ p.set[l]
             THEN pp_files'[l] = p.value[l]
           ELSE pp_files'[l] = IF l \in PP!PolicyCores THEN "online" ELSE pp_files[l]

(* The steps that report a call of setProfile make one. *)
LEMMA PP_IsCall ==
    ASSUME PP!Next, pp_last' # pp_last
    PROVE  \/ \E v : PP!setProfile(v) /\ pp_last' = [call |-> "setProfile", arg |-> v] /\ pp_mCurrentProfile' = v
           \/ \E d \in BoostDurations : PP!boostpulse(d)
           \/ pp_last'.call = "user"
<1>1. ~PP!loadProfileImpl /\ ~PP!NoProfiles
  BY DEF PP!loadProfileImpl, PP!NoProfiles
<1>2. CASE PP!Construct
  BY <1>2 DEF PP!Construct, PP!setProfile
<1>3. CASE PP!HintSetProfile
  BY <1>3 DEF PP!HintSetProfile, PP!setProfile
<1>4. CASE PP!Interaction
  BY <1>4 DEF PP!Interaction
<1>5. CASE PP!UserSetsModule \/ PP!UserSetsGovernor
  BY <1>5 DEF PP!UserSetsModule, PP!UserSetsGovernor
<1> QED BY <1>1, <1>2, <1>3, <1>4, <1>5 DEF PP!Next

LEMMA PP_Files == PP!Next => PP_FilesStep
<1> SUFFICES ASSUME PP!Next, pp_last'.call = "setProfile", pp_last' # pp_last, ~pp_crashed', pp_moduleOn,
                    NEW p, p = pp_profile[PP!getProfileData(pp_last'.arg)], p.enabled,
                    NEW l \in PP!Settings, l[2] # "active_down_migration"
             PROVE  IF PP!HasFile(l) /\ PP!Enabled(p, PP!Section(l)) /\ p.set[l]
                      THEN pp_files'[l] = p.value[l]
                    ELSE pp_files'[l] = IF l \in PP!PolicyCores THEN "online" ELSE pp_files[l]
  BY DEF PP_FilesStep
<1>1. PICK v : PP!setProfile(v) /\ pp_last' = [call |-> "setProfile", arg |-> v]
  <2>1. ASSUME NEW d \in BoostDurations, PP!boostpulse(d) PROVE FALSE
    <3>1. pp_last'.call = "boostpulse"
      BY <2>1 DEF PP!boostpulse
    <3> QED BY <3>1
  <2> QED BY <2>1, PP_IsCall
<1>2. PP!Apply(v) /\ p = pp_profile[PP!getProfileData(v)]
  BY <1>1, PP_SetProfile
<1>3. pp_files' = [k \in PP!Settings \cup PP!Fixed |-> PP!Written(p, k)]
  BY <1>2 DEF PP!Apply
<1>4. pp_files'[l] = PP!Written(p, l)
  BY <1>3
<1> QED BY <1>4, PP_WrittenFile

-----------------------------------------------------------------------------
(* From the profile to the governor that runs. *)
PP_Tunes == {"freq_min", "freq_max", "hispeed_freq", "boost_freq", "boostpulse_duration", "boostpulse", "data"}

(* Every governor has all of the files. *)
PP_Directories ==
    DOMAIN pp_tunables = PP!Clusters /\ \A c \in PP!Clusters : DOMAIN pp_tunables[c] = PP_Tunes

LEMMA PP_FreshFiles == DOMAIN PP!Fresh = PP_Tunes
BY DEF PP!Fresh, PP_Tunes

LEMMA PP_Write ==
    ASSUME NEW known, NEW running, NEW t, NEW new
    PROVE  /\ DOMAIN t = PP_Tunes => DOMAIN PP!writeCpuGov(known, running, t, new) = PP_Tunes
           /\ known = running => \A f \in DOMAIN t \cap DOMAIN new : PP!writeCpuGov(known, running, t, new)[f] = new[f]
BY DEF PP!writeCpuGov

LEMMA PP_Applied ==
    ASSUME PP_Directories, NEW v, PP!Apply(v), NEW p, p = pp_profile[PP!getProfileData(v)]
    PROVE  /\ PP_Directories'
           /\ \A c \in PP!Clusters : PP!Enabled(p, <<"cpu", c>>) =>
                pp_tunables'[c].freq_max = p.value[<<<<"cpu", c>>, "freq_max">>]
<1>g. PICK gov : gov = [c \in PP!Clusters |-> PP!WrittenGovernor(p, c)]
  OBVIOUS
<1>s. PICK start : start = [c \in PP!Clusters |-> IF gov[c] = pp_governor[c] THEN pp_tunables[c] ELSE PP!Fresh]
  OBVIOUS
<1>1. \A c \in PP!Clusters : DOMAIN start[c] = PP_Tunes
  BY <1>s, PP_FreshFiles DEF PP_Directories
<1>2. pp_tunables' = [c \in PP!Clusters |->
         IF PP!Enabled(p, <<"cpu", c>>) THEN PP!writeCpuGov(gov[c], gov[c], start[c], PP!ClusterTunables(p, c)) ELSE start[c]]
  BY <1>g, <1>s DEF PP!Apply, PP!updateCpuGov
<1>3. ASSUME NEW c \in PP!Clusters
      PROVE  /\ DOMAIN pp_tunables'[c] = PP_Tunes
             /\ PP!Enabled(p, <<"cpu", c>>) => pp_tunables'[c].freq_max = p.value[<<<<"cpu", c>>, "freq_max">>]
  <2>n. PICK new : new = PP!ClusterTunables(p, c)
    OBVIOUS
  <2>1. "freq_max" \in DOMAIN new /\ new.freq_max = p.value[<<<<"cpu", c>>, "freq_max">>]
    BY <2>n DEF PP!ClusterTunables
  <2>2. CASE PP!Enabled(p, <<"cpu", c>>)
    <3>1. pp_tunables'[c] = PP!writeCpuGov(gov[c], gov[c], start[c], new)
      BY <1>2, <2>n, <2>2
    <3>2. "freq_max" \in DOMAIN start[c] \cap DOMAIN new
      BY <1>1, <2>1 DEF PP_Tunes
    <3> QED BY <1>1, <2>1, <3>1, <3>2, PP_Write
  <2>3. CASE ~PP!Enabled(p, <<"cpu", c>>)
    BY <1>1, <1>2, <2>3
  <2> QED BY <2>2, <2>3
<1> QED BY <1>2, <1>3 DEF PP_Directories

LEMMA PP_Long == ASSUME NEW d \in Int PROVE PP!Duration(d) * 1000 > 0
<1>1. 1000 \div 60 = 16
  OBVIOUS
<1> QED BY <1>1 DEF PP!Duration

LEMMA PP_Boost ==
    ASSUME PP_Directories, NEW d \in Int, PP!boostpulse(d), NEW p, p = pp_profile[PP!getProfileData(pp_mCurrentProfile)]
    PROVE  /\ PP_Directories'
           /\ ~pp_crashed' => \A c \in PP!Clusters : PP!Boosted(p, c) =>
                /\ pp_tunables'[c].boost_freq = p.value[<<<<"cpu", c>>, "freq_boost">>]
                /\ pp_tunables'[c].boostpulse /\ pp_tunables'[c].boostpulse_duration > 0
<1>1. CASE pp_crashed'
  <2>1. pp_tunables' = pp_tunables
    BY <1>1 DEF PP!boostpulse
  <2> QED BY <1>1, <2>1 DEF PP_Directories
<1>2. CASE ~pp_crashed'
  <2> DEFINE New(c) == [boost_freq |-> p.value[<<<<"cpu", c>>, "freq_boost">>],
                        boostpulse_duration |-> PP!Duration(d) * 1000, boostpulse |-> TRUE]
  <2>1. pp_tunables' = [c \in PP!Clusters |->
           IF PP!Boosted(p, c) THEN PP!writeCpuGov(pp_governor[c], pp_governor[c], pp_tunables[c], New(c)) ELSE pp_tunables[c]]
    BY <1>2 DEF PP!boostpulse, PP!updateCpuGov
  <2>2. ASSUME NEW c \in PP!Clusters
        PROVE  /\ DOMAIN pp_tunables'[c] = PP_Tunes
               /\ PP!Boosted(p, c) =>
                    /\ pp_tunables'[c].boost_freq = p.value[<<<<"cpu", c>>, "freq_boost">>]
                    /\ pp_tunables'[c].boostpulse /\ pp_tunables'[c].boostpulse_duration > 0
    <3>0. DOMAIN pp_tunables[c] = PP_Tunes
      BY DEF PP_Directories
    <3>n. PICK new : new = New(c)
      OBVIOUS
    <3>1. /\ DOMAIN new = {"boost_freq", "boostpulse_duration", "boostpulse"} /\ new.boostpulse = TRUE
          /\ new.boost_freq = p.value[<<<<"cpu", c>>, "freq_boost">>] /\ new.boostpulse_duration > 0
      BY <3>n, PP_Long
    <3>2. CASE PP!Boosted(p, c)
      <4>1. pp_tunables'[c] = PP!writeCpuGov(pp_governor[c], pp_governor[c], pp_tunables[c], new)
        BY <2>1, <3>2, <3>n
      <4>2. {"boost_freq", "boostpulse_duration", "boostpulse"} \subseteq DOMAIN pp_tunables[c] \cap DOMAIN new
        BY <3>0, <3>1 DEF PP_Tunes
      <4>3. \A f \in {"boost_freq", "boostpulse_duration", "boostpulse"} : pp_tunables'[c][f] = new[f]
        BY <4>1, <4>2, PP_Write
      <4>4. DOMAIN pp_tunables'[c] = PP_Tunes
        BY <3>0, <4>1, PP_Write
      <4> QED BY <3>1, <4>3, <4>4
    <3>3. CASE ~PP!Boosted(p, c)
      BY <2>1, <3>0, <3>3
    <3> QED BY <3>2, <3>3
  <2>3. DOMAIN pp_tunables' = PP!Clusters
    BY <2>1
  <2> QED BY <2>2, <2>3 DEF PP_Directories
<1> QED BY <1>1, <1>2

LEMMA PP_SetTunables ==
    ASSUME PP_Directories, NEW v, PP!setProfile(v)
    PROVE  PP_Directories'
<1>1. CASE pp_moduleOn /\ ~pp_crashed' /\ pp_profile[PP!getProfileData(v)].enabled
  BY <1>1, PP_SetProfile, PP_Applied
<1>2. CASE ~(pp_moduleOn /\ ~pp_crashed' /\ pp_profile[PP!getProfileData(v)].enabled)
  <2>1. pp_tunables' = pp_tunables
    BY <1>2 DEF PP!setProfile, PP!unwritten
  <2> QED BY <2>1 DEF PP_Directories
<1> QED BY <1>1, <1>2

LEMMA PP_DirectoriesKept == ASSUME PP_Directories, [PP!Next]_PP!vars PROVE PP_Directories'
<1>1. CASE PP!loadProfileImpl \/ PP!NoProfiles \/ PP!UserSetsModule \/ UNCHANGED PP!vars
  <2>1. pp_tunables' = pp_tunables
    BY <1>1 DEF PP!loadProfileImpl, PP!NoProfiles, PP!UserSetsModule, PP!vars
  <2> QED BY <2>1 DEF PP_Directories
<1>2. CASE PP!Construct \/ PP!HintSetProfile
  <2>1. PICK v : PP!setProfile(v)
    BY <1>2 DEF PP!Construct, PP!HintSetProfile
  <2> QED BY <2>1, PP_SetTunables
<1>3. CASE PP!Interaction
  <2>1. PICK d \in Int : PP!boostpulse(d)
    BY <1>3, ProfilesAssumption DEF PP!Interaction
  <2> QED BY <2>1, PP_Boost
<1>4. CASE PP!UserSetsGovernor
  <2>1. PICK c \in PP!Clusters : pp_tunables' = [pp_tunables EXCEPT ![c] = PP!Fresh]
    BY <1>4 DEF PP!UserSetsGovernor
  <2> QED BY <2>1, PP_FreshFiles DEF PP_Directories
<1> QED BY <1>1, <1>2, <1>3, <1>4 DEF PP!Next

PP_TunablesStep ==
    (pp_last' # pp_last /\ ~pp_crashed' /\ pp_pos' > Len(PP!Order) /\ pp_last'.call # "user") =>
      LET p == pp_profile[PP!getProfileData(pp_mCurrentProfile')] IN
      \A c \in PP!Clusters :
        /\ (pp_last'.call = "setProfile" /\ pp_moduleOn /\ p.enabled /\ PP!Enabled(p, <<"cpu", c>>)) =>
             pp_tunables'[c].freq_max = p.value[<<<<"cpu", c>>, "freq_max">>]
        /\ (pp_last'.call = "boostpulse" /\ PP!Boosted(p, c)) =>
             /\ pp_tunables'[c].boost_freq = p.value[<<<<"cpu", c>>, "freq_boost">>]
             /\ pp_tunables'[c].boostpulse /\ pp_tunables'[c].boostpulse_duration > 0

LEMMA PP_Tunables == PP_Directories /\ PP!Next => PP_TunablesStep
<1> SUFFICES ASSUME PP_Directories, PP!Next, pp_last' # pp_last, ~pp_crashed', pp_last'.call # "user",
                    NEW p, p = pp_profile[PP!getProfileData(pp_mCurrentProfile')], NEW c \in PP!Clusters
             PROVE  /\ (pp_last'.call = "setProfile" /\ pp_moduleOn /\ p.enabled /\ PP!Enabled(p, <<"cpu", c>>)) =>
                         pp_tunables'[c].freq_max = p.value[<<<<"cpu", c>>, "freq_max">>]
                    /\ (pp_last'.call = "boostpulse" /\ PP!Boosted(p, c)) =>
                         /\ pp_tunables'[c].boost_freq = p.value[<<<<"cpu", c>>, "freq_boost">>]
                         /\ pp_tunables'[c].boostpulse /\ pp_tunables'[c].boostpulse_duration > 0
  BY DEF PP_TunablesStep
<1>1. CASE \E v : PP!setProfile(v) /\ pp_last' = [call |-> "setProfile", arg |-> v] /\ pp_mCurrentProfile' = v
  <2>1. PICK v : PP!setProfile(v) /\ pp_last'.call = "setProfile" /\ pp_mCurrentProfile' = v
    BY <1>1
  <2>2. ASSUME pp_moduleOn, p.enabled, PP!Enabled(p, <<"cpu", c>>)
        PROVE  pp_tunables'[c].freq_max = p.value[<<<<"cpu", c>>, "freq_max">>]
    <3>1. PP!Apply(v) /\ p = pp_profile[PP!getProfileData(v)]
      BY <2>1, <2>2, PP_SetProfile
    <3> QED BY <2>2, <3>1, PP_Applied
  <2> QED BY <2>1, <2>2
<1>2. CASE \E d \in BoostDurations : PP!boostpulse(d)
  <2>1. PICK d \in Int : PP!boostpulse(d)
    BY <1>2, ProfilesAssumption
  <2>2. pp_last'.call = "boostpulse" /\ pp_mCurrentProfile' = pp_mCurrentProfile
    BY <2>1 DEF PP!boostpulse
  <2>3. p = pp_profile[PP!getProfileData(pp_mCurrentProfile)]
    BY <2>2
  <2> QED BY <2>1, <2>2, <2>3, PP_Boost
<1> QED BY <1>1, <1>2, PP_IsCall

(* Power.cpp, setProfile and boostpulse: for any documents, governors, hints and *)
(* durations, the settings of the profile that is applied are in the files of    *)
(* their names and in the directory of the governor that runs then, and no other *)
(* file has moved. *)
THEOREM SettingsArrive == PP!Spec => SettingsReach
<1>1. PP!Init => PP_Directories
  <2> SUFFICES ASSUME PP!Init PROVE PP_Directories
    OBVIOUS
  <2>1. pp_tunables = [c \in PP!Clusters |-> PP!Fresh]
    BY DEF PP!Init
  <2> QED BY <2>1, PP_FreshFiles DEF PP_Directories
<1>2. PP_Directories /\ [PP!Next]_PP!vars => PP_Directories'
  BY PP_DirectoriesKept
<1>3. [PP!Next]_PP!vars => [PP_FilesStep]_PP!vars
  BY PP_Files
<1>4. PP_Directories /\ [PP!Next]_PP!vars => [PP_TunablesStep]_PP!vars
  BY PP_Tunables
<1>5. PP!Spec => [][PP_FilesStep]_PP!vars /\ [][PP_TunablesStep]_PP!vars
  BY <1>1, <1>2, <1>3, <1>4, PTL DEF PP!Spec
<1>6. SettingsReach <=> [][PP_FilesStep]_PP!vars /\ [][PP_TunablesStep]_PP!vars
  BY DEF SettingsReach, PP!SettingsReach, PP!SettingsReachFiles, PP!TunablesReachGovernor, PP_FilesStep, PP_TunablesStep
<1> QED BY <1>5, <1>6
=============================================================================
