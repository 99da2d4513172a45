----------------------------- MODULE IrqBalance -----------------------------
(***************************************************************************)
(* The IRQ balancer (hardware/irqbalance/irqbalance.c).  It reads its      *)
(* configuration and /proc/interrupts once, then in every round the times  *)
(* of each core from /proc/stat, and spreads the IRQs over the cores it    *)
(* takes for online, the busiest first.  /proc/stat lists the online cores *)
(* only, and a line is found by its number: with a core missing, a core is *)
(* given the times of the next one.                                        *)
(***************************************************************************)
EXTENDS Integers, Sequences, FiniteSets, TLC, SequencesExt

CONSTANTS
    Configurations, \* commands of irqbalance.conf: sequences of <<cmd, argument>>
    Interrupts,     \* numbers of /proc/interrupts, in the order of the file
    Cpus,           \* cores of the machine: 0 .. n - 1
    Ticks,          \* what a core's times grow by in a round: <<busy, idle>>
    WrappedLoads,   \* loads above 100 that a difference below zero wraps to
    MaxFiles,       \* files the process may hold open
    MaxRounds

VARIABLES
    pc, conf, todo,       \* configuration, and its commands not yet read
    irqs,                 \* the IRQs to balance
    cpudata,              \* per index: core, online, times and utilization
    stat,                 \* per core: online and times, as the kernel has them
    affinity,             \* per IRQ: the core of its smp_affinity, -1 at first
    openFiles,            \* files left open
    placed,               \* IRQs the last round gave a core
    outside,              \* an index outside of irqs was used
    shifted,              \* history: a core was given the times of another
    rounds

vars == <<pc, conf, todo, irqs, cpudata, stat, affinity, openFiles, placed,
          outside, shifted, rounds>>

NoConf == [NR_CPUS |-> -1, OFFS_CPUS |-> -1, blacklist |-> <<>>]

Init ==
    /\ pc = "configure" /\ conf = NoConf /\ todo \in Configurations
    /\ irqs = <<>> /\ cpudata = <<>>
    /\ stat = [c \in Cpus |-> [online |-> TRUE, busy |-> 0, idle |-> 0]]
    /\ affinity = [i \in ToSet(Interrupts) |-> -1]
    /\ openFiles = 0 /\ placed = {} /\ outside = FALSE /\ shifted = FALSE
    /\ rounds = 0

-----------------------------------------------------------------------------
(* Start *)

\* One command of the configuration; an unknown one ends the program.
read_irqbalance_configuration ==
    /\ pc = "configure"
    /\ IF todo = <<>> THEN pc' = "scan" /\ UNCHANGED <<conf, todo>>
       ELSE LET cmd == Head(todo)[1]
                arg == Head(todo)[2]
            IN /\ pc' = IF cmd \in {"cpun", "cpuo", "tdel", "blck"} THEN pc ELSE "exit"
               /\ conf' = CASE cmd = "cpun" -> [conf EXCEPT !.NR_CPUS = arg]
                            [] cmd = "cpuo" -> [conf EXCEPT !.OFFS_CPUS = arg]
                            [] cmd = "blck" -> [conf EXCEPT !.blacklist = arg]
                            [] OTHER -> conf
               /\ todo' = Tail(todo)
    /\ UNCHANGED <<irqs, cpudata, stat, affinity, openFiles, placed, outside, shifted, rounds>>

\* The IRQs that are not blocked, cut off at the number of IRQs less the
\* length of the blacklist.
Scanned ==
    LET free == SelectSeq(Interrupts, LAMBDA i : i \notin ToSet(conf.blacklist))
        num == Len(Interrupts) - Len(conf.blacklist)
    IN SubSeq(free, 1, IF num < Len(free) THEN num ELSE Len(free))

\* The cores /proc/stat has a line for, and the line that core index i reads:
\* the total and the lines before it are skipped.
Lines == SetToSortSeq({c \in Cpus : stat[c].online}, <)
HasLine(i) == i + conf.OFFS_CPUS \in 1 .. Len(Lines)
LineOf(i) == Lines[i + conf.OFFS_CPUS]

\* A blacklist longer than the file, or no number of cores, makes a size
\* negative and malloc fails; then every core has to be read once.
scan_for_irqs ==
    /\ pc = "scan"
    /\ pc' = IF \/ Len(conf.blacklist) > Len(Interrupts) \/ conf.NR_CPUS < 0
                \/ \E i \in 1 .. conf.NR_CPUS : ~HasLine(i)
             THEN "exit" ELSE "load"
    /\ irqs' = Scanned
    /\ cpudata' = [i \in 1 .. (IF pc' = "exit" THEN 0 ELSE conf.NR_CPUS) |->
                     [core |-> i - 1 + conf.OFFS_CPUS, online |-> TRUE,
                      busy |-> 0, idle |-> 0, cpu_util |-> 0]]
    /\ UNCHANGED <<conf, todo, stat, affinity, openFiles, placed, outside, shifted, rounds>>

-----------------------------------------------------------------------------
(* A round *)

\* The load in percent.  The quotient by zero is 0 on this processor; times that
\* go back wrap around.
Utils(old, new) ==
    LET busy == new.busy - old.busy
        total == busy + new.idle - old.idle
    IN IF busy < 0 \/ total < 0 THEN WrappedLoads
       ELSE IF total = 0 THEN {0} ELSE {(busy * 100) \div total}

\* A file stays open when a line is not what it should be.
LeftOpen(missing) == missing # {}

\* The record of a core that cannot be read.
Unreadable(d) == [d EXCEPT !.online = FALSE]

\* irqbalance_load_watchdog: the cores are read in order up to the first that
\* has no line, whose file stays open.  The later ones keep what they had.
irqbalance_load_watchdog ==
    LET opened == openFiles < MaxFiles
        missing == {i \in DOMAIN cpudata : ~HasLine(i)}
        n == IF ~opened THEN 0 ELSE IF missing = {} THEN Len(cpudata) ELSE Min(missing) - 1
    IN /\ pc = "load"
       /\ \E util \in [1 .. n -> UNION {Utils(cpudata[i], stat[LineOf(i)]) : i \in 1 .. n}] :
            /\ \A i \in 1 .. n : util[i] \in Utils(cpudata[i], stat[LineOf(i)])
            /\ cpudata' = [i \in DOMAIN cpudata |->
                 IF i <= n
                   THEN [cpudata[i] EXCEPT !.online = TRUE, !.cpu_util = util[i],
                                           !.busy = stat[LineOf(i)].busy,
                                           !.idle = stat[LineOf(i)].idle]
                 ELSE IF opened /\ i = n + 1 THEN Unreadable(cpudata[i]) ELSE cpudata[i]]
       /\ openFiles' = IF opened /\ LeftOpen(missing) THEN openFiles + 1 ELSE openFiles
       /\ shifted' = (shifted \/ \E i \in 1 .. n : LineOf(i) # cpudata[i].core)
       /\ pc' = "main"
       /\ UNCHANGED <<conf, todo, irqs, stat, affinity, placed, outside, rounds>>

\* The cores by rising load; equal loads keep their order.
ByLoad ==
    SetToSortSeq(DOMAIN cpudata,
        LAMBDA i, j : \/ cpudata[i].cpu_util < cpudata[j].cpu_util
                      \/ cpudata[i].cpu_util = cpudata[j].cpu_util /\ i < j)

\* Fault: the last core is not given the rest.
Share_NoRest(left, util, others) ==
    LET k == IF others = 0 THEN 1 ELSE others IN
    CHOOSE m \in (-2 * left) .. left :
        /\ left - m * k <= 0 \/ left * left * util >= 100 * (left - m * k) * (left - m * k)
        /\ \A x \in (-2 * left) .. m - 1 :
             left - x * k > 0 /\ left * left * util < 100 * (left - x * k) * (left - x * k)

\* ceil((left - sqrt(util / 100) * left) / others), or all that are left: the
\* least m for which m * others is at least the numerator.
Share(left, util, others) ==
    IF others = 0 THEN left
    ELSE CHOOSE m \in (-2 * left) .. left :
        /\ left - m * others <= 0
             \/ left * left * util >= 100 * (left - m * others) * (left - m * others)
        /\ \A x \in (-2 * left) .. m - 1 :
             /\ left - x * others > 0
             /\ left * left * util < 100 * (left - x * others) * (left - x * others)

\* One core's turn: the next IRQs of the list are pointed to it.
Turn(r, i) ==
    LET d == cpudata[i]
        n == Share(Len(irqs) - r.done, d.cpu_util, r.cpus - 1)
        new == (r.done + 1) .. (r.done + n)
    IN IF ~d.online \/ r.done >= Len(irqs) THEN r
       ELSE [done |-> r.done + n, cpus |-> r.cpus - 1,
             to |-> [k \in new \cap DOMAIN irqs |-> d.core] @@ r.to,
             outside |-> r.outside \/ ~(new \subseteq DOMAIN irqs)]

\* irqbalance_main
irqbalance_main ==
    LET start == [done |-> 0, cpus |-> Cardinality({i \in DOMAIN cpudata : cpudata[i].online}),
                  to |-> [k \in {} |-> 0], outside |-> FALSE]
        r == FoldLeft(Turn, start, Reverse(ByLoad))
        given == {irqs[k] : k \in DOMAIN r.to}
    IN /\ pc = "main"
       /\ placed' = given
       /\ affinity' = [q \in DOMAIN affinity |->
                         IF q \in given /\ openFiles < MaxFiles
                           THEN r.to[CHOOSE k \in DOMAIN r.to : irqs[k] = q]
                           ELSE affinity[q]]
       /\ outside' = (outside \/ r.outside)
       /\ pc' = "sleep"
       /\ UNCHANGED <<conf, todo, irqs, cpudata, stat, openFiles, shifted, rounds>>

\* usleep: time passes, and a core may be switched off or on.
Sleep ==
    /\ pc = "sleep" /\ rounds < MaxRounds
    /\ \E off \in SUBSET (Cpus \ {0}), t \in [Cpus -> Ticks] :
         /\ Cardinality(off) <= 2
         /\ stat' = [c \in Cpus |->
              IF c \in off THEN [stat[c] EXCEPT !.online = FALSE]
              ELSE [online |-> TRUE, busy |-> stat[c].busy + t[c][1],
                                     idle |-> stat[c].idle + t[c][2]]]
    /\ pc' = "load" /\ rounds' = rounds + 1
    /\ UNCHANGED <<conf, todo, irqs, cpudata, affinity, openFiles, placed, outside, shifted>>

Next ==
    \/ read_irqbalance_configuration \/ scan_for_irqs
    \/ irqbalance_load_watchdog \/ irqbalance_main \/ Sleep

Spec == Init /\ [][Next]_vars

-----------------------------------------------------------------------------
(* Properties *)

KnownOnline == {cpudata[i].core : i \in {j \in DOMAIN cpudata : cpudata[j].online}}

\* irqbalance_main: whatever the loads are, and although the shares are rounded
\* up one by one, a round gives every IRQ a core known to be online, as long as
\* no core was given the times of another and a file can be opened.
AllPlaced ==
    (pc = "sleep" /\ ~shifted /\ KnownOnline # {} /\ openFiles < MaxFiles) =>
        /\ placed = ToSet(irqs)
        /\ \A q \in placed : affinity[q] \in KnownOnline

\* irqbalance_main: the list of IRQs is indexed within its bounds unless times
\* of different cores were mixed.
InBounds == outside => shifted

\* scan_for_irqs: a blocked IRQ is never moved; every other IRQ is balanced if
\* the blacklist names IRQs of this machine, each once.
BlacklistKept ==
    /\ \A q \in DOMAIN affinity : q \in ToSet(conf.blacklist) => affinity[q] = -1
    /\ (/\ pc = "load"
        /\ ToSet(conf.blacklist) \subseteq ToSet(Interrupts) /\ IsInjective(conf.blacklist)) =>
           ToSet(irqs) = ToSet(Interrupts) \ ToSet(conf.blacklist)

\* irqbalance_load_watchdog: with all cores online nothing is left open, no core
\* is taken for another, and none is taken for offline.
HealthyRounds ==
    [][(pc = "load" /\ pc' = "main" /\ conf.OFFS_CPUS = 0
          /\ (\A c \in Cpus : stat[c].online) /\ openFiles < MaxFiles /\ conf.NR_CPUS <= Cardinality(Cpus)) =>
         /\ openFiles' = openFiles /\ shifted' = shifted
         /\ \A i \in DOMAIN cpudata : cpudata'[i].online]_vars

\* irqbalance_load_watchdog: a core that is off when its times are read is not
\* used in that round if all cores before it could be read.
FirstMissingSeen ==
    [][(pc = "load" /\ pc' = "main" /\ openFiles < MaxFiles) =>
         \A i \in DOMAIN cpudata :
           (~HasLine(i) /\ \A j \in 1 .. i - 1 : HasLine(j)) => ~cpudata'[i].online]_vars

\* Every round of the balancer places all IRQs it may move on cores that are there and
\* no other, and what irqbalance_load_watchdog reads of a core is about that core.
Balanced == [](AllPlaced /\ InBounds /\ BlacklistKept) /\ HealthyRounds /\ FirstMissingSeen
=============================================================================
