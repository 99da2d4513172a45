--------------------------- MODULE ProfileLayout ---------------------------
(***************************************************************************)
(* The layout of a power profile: the profiles by name, the sections of    *)
(* SecPowerProfile with their settings, and the paths a document of them   *)
(* may have (hardware/power/Profiles.h and Profiles.cpp).                  *)
(***************************************************************************)
EXTENDS Integers, Sequences, SequencesExt

Order == <<"screen_off", "power_save", "bias_power_save", "balanced",
           "bias_performance", "performance">>
Names == ToSet(Order)
Clusters == {"apollo", "atlas"}

SecPowerProfileCpuCluster == {"governor", "freq_min", "freq_max", "freq_hispeed", "freq_boost"}
Cores == {"core1", "core2", "core3", "core4"}
SecPowerHmpThreshold == {"down", "up"}

\* The sections of SecPowerProfile with their settings.
Sections ==
    {<<"cpu">>, <<"gpu">>, <<"cpusets">>, <<"hmp">>, <<"kernel">>, <<"ipa">>, <<"slow">>, <<"input_booster">>,
     <<"hmp", "threshold">>, <<"hmp", "sb_threshold">>, <<"gpu", "dvfs">>, <<"gpu", "highspeed">>}
    \cup {<<"cpu", c>> : c \in Clusters} \cup {<<"cpu", c, "cores">> : c \in Clusters}
SecPowerProfile(s) ==
    CASE s \in {<<"cpu", c>> : c \in Clusters} -> SecPowerProfileCpuCluster
      [] s \in {<<"cpu", c, "cores">> : c \in Clusters} -> Cores
      [] s = <<"cpusets">> -> {"defaults", "foreground", "foreground_boost", "background",
                               "system_background", "top_app"}
      [] s = <<"hmp">> -> {"boost", "semiboost", "power_migration", "active_down_migration",
                           "aggressive_up_migration"}
      [] s \in {<<"hmp", "threshold">>, <<"hmp", "sb_threshold">>} -> SecPowerHmpThreshold
      [] s = <<"gpu", "dvfs">> -> {"freq_min", "freq_max"}
      [] s = <<"gpu", "highspeed">> -> {"freq", "load"}
      [] s = <<"kernel">> -> {"pewq"}
      [] s = <<"ipa">> -> {"control_temp"}
      [] s = <<"slow">> -> {"mode_toggle", "timer_rate"}
      [] s = <<"input_booster">> -> {"tail", "head"}
      [] OTHER -> {}
Settings == UNION {{<<s, n>> : n \in SecPowerProfile(s)} : s \in Sections}

\* The three paths; the one that is no file holds NoFile in place of a document.
PROFILES_PATH == <<"USER", "VENDOR", "SYSTEM">>
NoFile == [n \in {} |-> {}]
=============================================================================
