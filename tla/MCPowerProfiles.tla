-------------------------- MODULE MCPowerProfiles --------------------------
(* Documents with a full profile, profiles that extend an earlier, a later, *)
(* an unknown or their own profile, and switches that are no Booleans.      *)
EXTENDS ProfileFiles, TLC, SequencesExt

Layout == INSTANCE ProfileLayout

Empty == [n \in {} |-> {}]
NoData == [c \in Layout!Clusters |-> <<>>]
Absent == [node |-> Empty, extends |-> "none", sections |-> Empty,
           settings |-> Empty, governor_data |-> NoData]
Full(p) == [node |-> [enabled |-> "1"], extends |-> "none",
            sections |-> [s \in Layout!Sections |-> [enabled |-> "true"]],
            settings |-> [l \in Layout!Settings |-> IF l[2] = "governor" THEN "performance" ELSE p],
            governor_data |-> [c \in Layout!Clusters |-> <<p>>]]

apollo == <<"cpu", "apollo">>
Part(p, x, on, g) ==
    [node |-> [enabled |-> on], extends |-> x,
     sections |-> [s \in {<<"cpu">>, apollo, <<"hmp">>} |-> [enabled |-> "TRUE"]] @@
                  <<"gpu">> :> Empty,
     settings |-> <<apollo, "freq_max">> :> p @@ <<<<"hmp">>, "boost">> :> p @@
                  IF g = "" THEN <<<<"gpu", "dvfs">>, "freq_min">> :> p
                  ELSE <<apollo, "governor">> :> g,
     governor_data |-> [NoData EXCEPT !["apollo"] = <<p, p>>]]

Shapes(p, xs) == {Absent, Full(p)} \cup {Part(p, x, "true", "") : x \in xs}

Documents ==
    {[n \in Layout!Names |-> CASE n = "power_save" -> a [] n = "balanced" -> b
                        [] n = "performance" -> c [] OTHER -> Absent] :
       a \in Shapes("power_save", {"performance"}),
       b \in Shapes("balanced", {"none", "power_save", "unknown", "balanced"})
               \cup {Part("balanced", "power_save", "True", "performance")},
       c \in Shapes("performance", {"none", "balanced"})
               \cup {Part("performance", "balanced", "true", "performance")}}

Only(path, d) == [p \in ToSet(Layout!PROFILES_PATH) |-> IF p = path THEN d ELSE Layout!NoFile]
Plain == [n \in Layout!Names |-> Absent]
MCXmls == {Only("USER", d) : d \in Documents}
            \cup {Only("USER", Layout!NoFile), [Only("SYSTEM", Plain) EXCEPT !["VENDOR"] =
                     CHOOSE d \in Documents : d["balanced"] = Full("balanced")]}
Spec == PP!Spec
MCHintData == {-1, 0, 2, 4, 5}
MCDurations == {0, 5000}
=============================================================================
