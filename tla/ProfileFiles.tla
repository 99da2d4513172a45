---------------------------- MODULE ProfileFiles ----------------------------
(***************************************************************************)
(* The machine of PowerProfiles with constants and variables of its own    *)
(* names, for the run that checks it and for the proofs about it, which    *)
(* stand beside those about Power.                                         *)
(***************************************************************************)
EXTENDS Integers, Sequences

CONSTANTS ProfileXmls, KernelGovernors, ProfileHints, BoostDurations, HintCalls

VARIABLES
    pp_xml, pp_profile, pp_pos, pp_mCurrentProfile, pp_files, pp_governor, pp_tunables,
    pp_kCpuGovernors, pp_fingerprint, pp_moduleOn, pp_crashed, pp_calls, pp_last

PP == INSTANCE PowerProfiles WITH
    Xmls <- ProfileXmls, Governors <- KernelGovernors, HintData <- ProfileHints,
    Durations <- BoostDurations, MaxCalls <- HintCalls,
    xml <- pp_xml, profile <- pp_profile, pos <- pp_pos, mCurrentProfile <- pp_mCurrentProfile,
    files <- pp_files, governor <- pp_governor, tunables <- pp_tunables, kCpuGovernors <- pp_kCpuGovernors,
    fingerprint <- pp_fingerprint, moduleOn <- pp_moduleOn, crashed <- pp_crashed, calls <- pp_calls, last <- pp_last

\* A duration is a number.  Each path has a document, which says something, if only
\* "not there", of each profile, or none; "none", which stands for a setting that is not
\* given, is the text of no setting.
ASSUME ProfilesAssumption ==
    /\ BoostDurations \subseteq Int
    /\ \A x \in ProfileXmls :
         /\ DOMAIN x = {"USER", "VENDOR", "SYSTEM"}
         /\ \A path \in DOMAIN x : x[path] # PP!NoFile =>
              /\ DOMAIN x[path] = PP!Names
              /\ \A n \in PP!Names : \A l \in DOMAIN x[path][n].settings : x[path][n].settings[l] # "none"

-----------------------------------------------------------------------------
(* Properties *)

\* Profiles::load and getProfileData: every profile a hint can name exists and
\* has the settings of its document.
ProfilesInv == PP!ProfilesInv

\* From the profile to the device: what setProfile and boostpulse are given
\* arrives in the right file and at the governor that runs.
SettingsReach == PP!SettingsReach
=============================================================================
