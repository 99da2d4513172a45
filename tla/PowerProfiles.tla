--------------------------- MODULE PowerProfiles ---------------------------
(***************************************************************************)
(* What the power HAL reads and writes: the profiles of power_profiles.xml *)
(* (hardware/power/Profiles.cpp), the sysfs files setProfile and           *)
(* boostpulse derive from them (Power.cpp), and the cached governor names  *)
(* that lead to the tunables of a cluster (hardware/Utils.cpp).  Module    *)
(* Power has the threads; here each call runs to its end.  A text of the   *)
(* document is the profile it stands in, except the name of a governor.    *)
(***************************************************************************)
EXTENDS ProfileLayout

CONSTANTS
    Xmls,         \* what the three paths may hold: per path a document or NoFile
    Governors,    \* governors the kernel offers
    HintData,     \* data of the SET_PROFILE hint
    Durations,    \* data of the INTERACTION hint
    MaxCalls      \* bound on the calls after the start

VARIABLES
    xml,            \* per path: the document, or NoFile
    profile,        \* the six static SecPowerProfile objects
    pos,            \* number of profiles loaded
    mCurrentProfile,
    files,          \* per setting: the sysfs file that has its name
    governor,       \* per cluster: cpufreq/scaling_governor
    tunables,       \* per cluster: the directory of the running governor
    kCpuGovernors,  \* per cluster: the governor's name when last read
    fingerprint, moduleOn, crashed,
    calls, last     \* bound; the last call and its argument

vars == <<xml, profile, pos, mCurrentProfile, files, governor, tunables,
          kCpuGovernors, fingerprint, moduleOn, crashed, calls, last>>

-----------------------------------------------------------------------------
(* The profiles *)

Zero == [enabled |-> FALSE, on |-> [s \in Sections |-> FALSE],
         value |-> [l \in Settings |-> "zero"], set |-> [l \in Settings |-> FALSE],
         governor_data |-> [c \in Clusters |-> <<>>]]

\* The profile a value of SecPowerProfiles stands for, or "nullptr".
getProfileData(v) ==
    CASE v = -1 -> "screen_off" [] v = 0 -> "power_save" [] v = 1 -> "balanced"
      [] v = 2 -> "performance" [] v = 3 -> "bias_power_save" [] v = 4 -> "bias_performance"
      [] OTHER -> "nullptr"
MAX_PROFILES == 5
INVALID == -2147483647 - 1

\* getProfileData(string): operator[] of kProfileNameToData yields a null
\* pointer for a name it does not know.
kProfileNameToData(n) == IF n \in Names THEN n ELSE "nullptr"

-----------------------------------------------------------------------------
(* Loading the document *)

\* loadProfiles: the first of the three paths that is a file, 0 if none is.
Chosen(x) == SelectInSeq(PROFILES_PATH, LAMBDA p : x[p] # NoFile)
Document == xml[PROFILES_PATH[Chosen(xml)]]

to_bool(text) == text \in {"true", "TRUE", "1"}

\* XML_GET of an <enabled> node, with the default "false".
Switch(node) == "enabled" \in DOMAIN node /\ to_bool(node["enabled"])

\* PROFILE_INIT and PROFILE_INIT2: a section that is not there stays as it is.
PROFILE_INIT(d) ==
    [Zero EXCEPT !.enabled = Switch(d.node),
                 !.on = [s \in Sections |-> s \in DOMAIN d.sections /\ Switch(d.sections[s])]]

\* Every section around setting l is switched on.
Enabled(p, s) == \A i \in 1 .. Len(s) : p.on[SubSeq(s, 1, i)]

\* Fault: a setting that is not in the document always gets the default.
PROFILE_SET_Always(p, d, l) ==
    IF ~Enabled(p, l[1]) THEN <<p.value[l], p.set[l]>>
    ELSE IF l \in DOMAIN d.settings THEN <<d.settings[l], TRUE>>
    ELSE <<"default", FALSE>>

\* PROFILE_SET: the text of the document, else what an inherited profile has
\* set, else the default.
PROFILE_SET(p, d, l) ==
    IF ~Enabled(p, l[1]) THEN <<p.value[l], p.set[l]>>
    ELSE IF l \in DOMAIN d.settings THEN <<d.settings[l], TRUE>>
    ELSE IF p.set[l] THEN <<p.value[l], TRUE>>
    ELSE <<"default", FALSE>>

\* XML_GET_CPUGOV: the children of <governor_data>, if there are any, replace
\* the list.
XML_GET_CPUGOV(p, d, c) ==
    IF Enabled(p, <<"cpu", c>>) /\ d.governor_data[c] # <<>>
      THEN d.governor_data[c] ELSE p.governor_data[c]

\* The object after loadProfileImpl: what "extends" copies replaces all of it,
\* the switches the document has just given included.
loadProfile(own, base, d) ==
    IF ~own.enabled THEN own
    ELSE [base EXCEPT !.value = [l \in Settings |-> PROFILE_SET(base, d, l)[1]],
                      !.set = [l \in Settings |-> PROFILE_SET(base, d, l)[2]],
                      !.governor_data = [c \in Clusters |-> XML_GET_CPUGOV(base, d, c)]]

\* One call of loadProfileImpl, in the order of loadProfilesImpl.
loadProfileImpl ==
    /\ pos < Len(Order) /\ ~crashed /\ Chosen(xml) # 0
    /\ LET n == Order[pos + 1]
           d == Document[n]
           own == PROFILE_INIT(d)
           parent == kProfileNameToData(d.extends)
           base == IF d.extends = "none" \/ parent = n THEN own ELSE profile[parent]
       IN /\ crashed' = (own.enabled /\ d.extends # "none" /\ parent = "nullptr")
          /\ profile' = IF crashed' THEN profile
                        ELSE [profile EXCEPT ![n] = loadProfile(own, base, d)]
    /\ pos' = pos + 1
    /\ UNCHANGED <<xml, mCurrentProfile, files, governor, tunables, kCpuGovernors,
                   fingerprint, moduleOn, calls, last>>

\* LOG_FATAL: "Could not find valid power profiles XML file".
NoProfiles ==
    /\ pos = 0 /\ ~crashed /\ Chosen(xml) = 0
    /\ crashed' = TRUE
    /\ UNCHANGED <<xml, profile, pos, mCurrentProfile, files, governor, tunables,
                   kCpuGovernors, fingerprint, moduleOn, calls, last>>

-----------------------------------------------------------------------------
(* The files *)

\* The setting whose value goes to the file of setting l: the file
\* active_down_migration is given semiboost.
Source(l) == IF l[2] = "active_down_migration" THEN <<<<"hmp">>, "semiboost">> ELSE l

\* The files PROFILE_WRITE writes: the cores of a cluster go with the cluster,
\* whether or not their own section is enabled; two settings of a cluster have
\* no file outside the governor's directory.
Section(l) == IF Len(l[1]) = 3 THEN SubSeq(l[1], 1, 2) ELSE l[1]
HasFile(l) == l[2] \notin {"freq_hispeed", "freq_boost"}
PROFILE_WRITE(p, l) ==
    IF HasFile(l) /\ Enabled(p, Section(l)) /\ p.set[Source(l)]
      THEN p.value[Source(l)] ELSE files[l]

\* Files setProfile writes by itself: CPU_ONLINE of the first core of a cluster,
\* before the profile has its say, then ipa/enabled and enable_dm_hotplug.
PolicyCores == {<<<<"cpu", c, "cores">>, "core1">> : c \in Clusters}
Fixed == {<<<<"ipa">>, "enabled">>, <<<<>>, "enable_dm_hotplug">>}
Written(p, l) ==
    IF l \in Fixed /\ Enabled(p, l[1]) THEN "fixed"
    ELSE IF l \in Fixed THEN files[l]
    ELSE IF l \in PolicyCores /\ ~(Enabled(p, Section(l)) /\ p.set[l]) THEN "online"
    ELSE PROFILE_WRITE(p, l)

\* A governor that starts comes with its own defaults.
Fresh == [freq_min |-> "kernel", freq_max |-> "kernel", hispeed_freq |-> "kernel",
          boost_freq |-> "kernel", boostpulse_duration |-> 0, boostpulse |-> FALSE,
          data |-> <<>>]

WrittenGovernor(p, c) ==
    LET l == <<<<"cpu", c>>, "governor">> IN
    IF Enabled(p, <<"cpu", c>>) /\ p.set[l] /\ p.value[l] \in Governors
      THEN p.value[l] ELSE governor[c]

\* The directory of cluster c after writeCpuGov with the name known for it: the
\* files are only there under the name of the running governor.
writeCpuGov(known, running, t, new) ==
    IF known = running THEN [f \in DOMAIN t |-> IF f \in DOMAIN new THEN new[f] ELSE t[f]] ELSE t

\* Fault: the governor's name is read before the new governor is written.
updateCpuGov_Early(c, running) == governor[c]

\* The name updateCpuGov reads.
updateCpuGov(c, running) == running

ClusterTunables(p, c) ==
    [freq_min |-> p.value[<<<<"cpu", c>>, "freq_min">>],
     freq_max |-> p.value[<<<<"cpu", c>>, "freq_max">>],
     hispeed_freq |-> p.value[<<<<"cpu", c>>, "freq_hispeed">>],
     data |-> p.governor_data[c]]

\* setProfile(v) with all files in place.
Apply(v) ==
    LET p == profile[getProfileData(v)]
        gov == [c \in Clusters |-> WrittenGovernor(p, c)]
        on(c) == Enabled(p, <<"cpu", c>>)
        start(c) == IF gov[c] = governor[c] THEN tunables[c] ELSE Fresh
        known == [c \in Clusters |-> IF on(c) THEN updateCpuGov(c, gov[c])
                                     ELSE kCpuGovernors[c]]
    IN /\ governor' = gov
       /\ kCpuGovernors' = known
       /\ tunables' = [c \in Clusters |->
                         IF on(c) THEN writeCpuGov(known[c], gov[c], start(c),
                                                   ClusterTunables(p, c))
                         ELSE start(c)]
       /\ files' = [l \in Settings \cup Fixed |-> Written(p, l)]

unwritten == <<governor, kCpuGovernors, tunables, files>>

\* setProfile: a value no profile belongs to is dereferenced as a null pointer.
setProfile(v) ==
    /\ mCurrentProfile' = v
    /\ last' = [call |-> "setProfile", arg |-> v]
    /\ crashed' = (moduleOn /\ getProfileData(v) = "nullptr")
    /\ IF moduleOn /\ ~crashed' /\ profile[getProfileData(v)].enabled
         THEN Apply(v) ELSE UNCHANGED unwritten

\* The constructor, after loadProfiles: BALANCED, then the input devices and
\* the fingerprint sensor.
setFingerprintState(enabled) == fingerprint' = [wakelocks |-> enabled, pm |-> enabled]
Ready == pos = Len(Order) + 1 /\ ~crashed
Construct ==
    /\ pos = Len(Order) /\ ~crashed
    /\ pos' = pos + 1
    /\ setProfile(1)
    /\ setFingerprintState(TRUE)
    /\ UNCHANGED <<xml, profile, moduleOn, calls>>

Call == Ready /\ calls < MaxCalls /\ calls' = calls + 1 /\ UNCHANGED <<xml, profile, pos, fingerprint>>

HintSetProfile ==
    /\ Call
    /\ \E v \in HintData : setProfile(v)
    /\ UNCHANGED moduleOn

\* boostpulse: nothing asked for is ten frames at 60 Hz.
Duration(d) == IF d <= 0 THEN (1000 \div 60) * 10 ELSE d

Boosted(p, c) == p.value[<<<<"cpu", c>>, "freq_boost">>] \notin {"zero", "default"}

boostpulse(d) ==
    LET n == getProfileData(mCurrentProfile) IN
    /\ Call
    /\ last' = [call |-> "boostpulse", arg |-> d]
    /\ crashed' = (n = "nullptr")
    /\ IF crashed' THEN UNCHANGED <<kCpuGovernors, tunables>>
       ELSE LET p == profile[n]
                known == [c \in Clusters |-> IF Boosted(p, c) THEN updateCpuGov(c, governor[c])
                                             ELSE kCpuGovernors[c]]
                new(c) == [boost_freq |-> p.value[<<<<"cpu", c>>, "freq_boost">>],
                           boostpulse_duration |-> Duration(d) * 1000, boostpulse |-> TRUE]
            IN /\ kCpuGovernors' = known
               /\ tunables' = [c \in Clusters |->
                                 IF Boosted(p, c)
                                   THEN writeCpuGov(known[c], governor[c], tunables[c], new(c))
                                   ELSE tunables[c]]
    /\ UNCHANGED <<mCurrentProfile, files, governor, moduleOn>>

Interaction == \E d \in Durations : boostpulse(d)

\* The user switches the module, or picks a governor by hand.
UserSetsModule ==
    /\ Call /\ moduleOn' = ~moduleOn /\ last' = [call |-> "user", arg |-> 0]
    /\ UNCHANGED <<mCurrentProfile, files, governor, tunables, kCpuGovernors, crashed>>
UserSetsGovernor ==
    /\ Call
    /\ \E c \in Clusters, g \in Governors :
         /\ g # governor[c]
         /\ governor' = [governor EXCEPT ![c] = g]
         /\ tunables' = [tunables EXCEPT ![c] = Fresh]
    /\ last' = [call |-> "user", arg |-> 0]
    /\ UNCHANGED <<mCurrentProfile, files, kCpuGovernors, moduleOn, crashed>>

Init ==
    /\ xml \in Xmls
    /\ profile = [n \in Names |-> Zero]
    /\ pos = 0
    /\ mCurrentProfile = INVALID
    /\ files = [l \in Settings \cup Fixed |-> "kernel"]
    /\ governor = [c \in Clusters |-> "interactive"]
    /\ tunables = [c \in Clusters |-> Fresh]
    /\ kCpuGovernors = [c \in Clusters |-> ""]
    /\ fingerprint = [wakelocks |-> FALSE, pm |-> FALSE]
    /\ moduleOn = TRUE /\ crashed = FALSE
    /\ calls = 0 /\ last = [call |-> "none", arg |-> 0]

Next ==
    \/ loadProfileImpl \/ NoProfiles \/ Construct
    \/ HintSetProfile \/ Interaction \/ UserSetsModule \/ UserSetsGovernor

Spec == Init /\ [][Next]_vars

-----------------------------------------------------------------------------
(* Properties *)

\* What the document means, read without the order of the assignments: the
\* switches of a profile are those of the last profile in its chain of
\* "extends" that is loaded before it, and a setting has the text of the first
\* profile in the chain that has it.
Index(n) == CHOOSE i \in 1 .. Len(Order) : Order[i] = n
Inherits(i) ==
    LET d == Document[Order[i]] IN
    /\ Switch(d.node) /\ d.extends \in Names \ {Order[i]}
Switches[i \in 1 .. Len(Order)] ==
    LET j == Index(Document[Order[i]].extends) IN
    IF ~Inherits(i) THEN PROFILE_INIT(Document[Order[i]]).on
    ELSE IF j > i THEN Zero.on ELSE Switches[j]
SettingIn[i \in 1 .. Len(Order)] ==
    LET d == Document[Order[i]]
        j == Index(d.extends)
        above == IF Inherits(i) /\ j < i THEN SettingIn[j] ELSE [l \in Settings |-> "none"]
    IN [l \in Settings |->
          IF /\ Switch(d.node) /\ l \in DOMAIN d.settings
             /\ \A k \in 1 .. Len(l[1]) : Switches[i][SubSeq(l[1], 1, k)]
            THEN d.settings[l] ELSE above[l]]

\* Profiles.cpp: the document of the most specific path is the one loaded, and
\* each profile ends with the settings its chain of "extends" gives it, whatever
\* the order in which the macros assign, copy and fill up with defaults.
ProfilesAsWritten ==
    (pos = Len(Order) /\ ~crashed) =>
        LET user == IF xml["USER"] # NoFile THEN "USER"
                    ELSE IF xml["VENDOR"] # NoFile THEN "VENDOR" ELSE "SYSTEM"
        IN /\ Document = xml[user]
           /\ \A i \in 1 .. Len(Order), l \in Settings :
                LET p == profile[Order[i]] IN
                /\ p.on = Switches[i]
                /\ p.set[l] = (SettingIn[i][l] # "none")
                /\ p.set[l] => p.value[l] = SettingIn[i][l]

\* Power.cpp, setProfile: once a profile is applied, a file with the name of a
\* setting the profile gives holds that setting, and no other file has moved,
\* but for the first cores, which are switched on unless the profile says not.
\* active_down_migration is the exception: the code gives it semiboost.
SettingsReachFiles ==
    [][(last'.call = "setProfile" /\ last' # last /\ ~crashed' /\ moduleOn) =>
         LET p == profile[getProfileData(last'.arg)] IN
         p.enabled =>
           \A l \in Settings : l[2] # "active_down_migration" =>
              IF HasFile(l) /\ Enabled(p, Section(l)) /\ p.set[l]
                THEN files'[l] = p.value[l]
              ELSE files'[l] = IF l \in PolicyCores THEN "online" ELSE files[l]]_vars

\* Utils.cpp, updateCpuGov: the settings of a cluster go to the governor that
\* runs now, also after the profile itself or the user has changed it, and a
\* boost that is asked for reaches it with a positive length.
TunablesReachGovernor ==
    [][(last' # last /\ ~crashed' /\ pos' > Len(Order) /\ last'.call # "user") =>
         LET p == profile[getProfileData(mCurrentProfile')] IN
         \A c \in Clusters :
           /\ (last'.call = "setProfile" /\ moduleOn /\ p.enabled /\ Enabled(p, <<"cpu", c>>)) =>
                tunables'[c].freq_max = p.value[<<<<"cpu", c>>, "freq_max">>]
           /\ (last'.call = "boostpulse" /\ Boosted(p, c)) =>
                /\ tunables'[c].boost_freq = p.value[<<<<"cpu", c>>, "freq_boost">>]
                /\ tunables'[c].boostpulse /\ tunables'[c].boostpulse_duration > 0]_vars

\* Power::getFeature(SUPPORTED_PROFILES) promises MAX_PROFILES profiles: the
\* service survives every SET_PROFILE hint below that number, and goes down only
\* for a value outside of it, an unknown parent or a missing document.
CrashesOnlyUnprepared ==
    crashed => \/ mCurrentProfile \notin -1 .. MAX_PROFILES - 1
               \/ Chosen(xml) = 0
               \/ \E n \in Names : Document[n].extends \notin Names \cup {"none"}

\* Profiles::load and getProfileData: every profile a hint can name exists and has the
\* settings of its document.
ProfilesInv == ProfilesAsWritten /\ CrashesOnlyUnprepared

\* From the profile to the device: what setProfile and boostpulse are given arrives in
\* the right file and at the governor that runs.
SettingsReach == SettingsReachFiles /\ TunablesReachGovernor
=============================================================================
