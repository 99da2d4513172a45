----------------------------- MODULE RilDaemons -----------------------------
(***************************************************************************)
(* The daemons of the modem: the commands of ramdisk/init.rilchip.sh,      *)
(* which init runs one at a time, the services they start and stop, and    *)
(* hardware/rild/rild.c, the program of two of them.  init itself is       *)
(* external: a service has a process or not, and is wanted or not.         *)
(***************************************************************************)
EXTENDS Integers, Sequences

CONSTANTS
    Slots,        \* SIMSLOT_COUNT
    LibArgs,      \* how many words rild.libargs can have
    MaxCommands, MaxDeaths

VARIABLES
    svc,          \* init.svc.* of every service, "" for one never started
    wanted,       \* the services init keeps running
    script,       \* what is left of the running command
    last,         \* the last command
    rild,         \* per RIL daemon: at (its place in main), argc, id, name
    past,         \* an argument was written past newArgv
    chained,      \* history: cpboot-daemon was restarted along with a RIL daemon
    commands, deaths

vars == <<svc, wanted, script, last, rild, past, chained, commands, deaths>>

Rilds == {"ril-daemon", "ril-daemon1"}
Services == Rilds \cup {"cpboot-daemon"}
IdOf == [s \in Rilds |-> IF s = "ril-daemon" THEN 1 ELSE 2]

Down == [at |-> "down", argc |-> 0, name |-> ""]

Init ==
    /\ svc = [s \in Services |-> ""] /\ wanted = {}
    /\ script = <<>> /\ last = "none"
    /\ rild = [s \in Rilds |-> Down]
    /\ past = FALSE /\ chained = FALSE /\ commands = 0 /\ deaths = 0

-----------------------------------------------------------------------------
(* init: start and stop of a service, and the death of its process *)

\* A service whose process is still dying is started again when it has died.
Started(s) == svc[s] \in {"", "stopped", "restarting"}
Run(S) ==
    /\ wanted' = wanted \cup S
    /\ svc' = [s \in Services |-> IF s \in S /\ Started(s) THEN "running" ELSE svc[s]]
    /\ rild' = [s \in Rilds |-> IF s \in S /\ Started(s) THEN [Down EXCEPT !.at = "main"] ELSE rild[s]]

Stop(s) ==
    /\ wanted' = wanted \ {s}
    /\ svc' = [svc EXCEPT ![s] = CASE @ = "running" -> "stopping" [] @ = "restarting" -> "stopped" [] OTHER -> @]
    /\ UNCHANGED rild

\* A process ends: killed by stop, or by itself.
Dies(s) ==
    /\ LET ended == s \in Rilds /\ rild[s].at = "exit" IN
       /\ svc[s] = "stopping" \/ (svc[s] = "running" /\ (ended \/ deaths < MaxDeaths))
       /\ deaths' = IF svc[s] = "running" /\ ~ended THEN deaths + 1 ELSE deaths
    /\ svc' = [svc EXCEPT ![s] = IF s \in wanted THEN "restarting" ELSE "stopped"]
    /\ rild' = [t \in Rilds |-> IF t = s THEN Down ELSE rild[t]]
    /\ UNCHANGED <<wanted, script, last, past, chained, commands>>

\* init starts it again; with a RIL daemon (onrestart) cpboot-daemon, too.
Restarts(s) ==
    /\ svc[s] = "restarting"
    /\ chained' = (chained \/ (s \in Rilds /\ "cpboot-daemon" \notin wanted))
    /\ Run({s} \cup (IF s \in Rilds THEN {"cpboot-daemon"} ELSE {}))
    /\ UNCHANGED <<script, last, past, commands, deaths>>

-----------------------------------------------------------------------------
(* init.rilchip.sh *)

Both == <<"cpboot-daemon", "ril-daemon">> \o (IF Slots = 2 THEN <<"ril-daemon1">> ELSE <<>>)
Ops(op) == [i \in DOMAIN Both |-> <<op, Both[i]>>]

\* start, stop, restart, and late-init on a phone without RIL (noril)
CommandOps == [start |-> Ops("svc_start"), stop |-> Ops("svc_stop"),
               restart |-> Ops("svc_stop") \o Ops("svc_start")]

Command(c) ==
    /\ script = <<>> /\ commands < MaxCommands
    /\ script' = CommandOps[c] /\ last' = c /\ commands' = commands + 1
    /\ UNCHANGED <<svc, wanted, rild, past, chained, deaths>>

svc_start(s) == IF svc[s] = "running" THEN UNCHANGED <<svc, wanted, rild>> ELSE Run({s})

\* Fault: only a running service is stopped.
svc_stop_Running(s) == IF svc[s] # "running" THEN UNCHANGED <<svc, wanted, rild>> ELSE Stop(s)
svc_stop(s) == IF svc[s] \in {"stopped", ""} THEN UNCHANGED <<svc, wanted, rild>> ELSE Stop(s)

ScriptStep ==
    /\ script # <<>>
    /\ script' = Tail(script)
    /\ LET s == Head(script)[2] IN
       IF Head(script)[1] = "svc_start" THEN svc_start(s) ELSE svc_stop(s)
    /\ UNCHANGED <<last, past, chained, commands, deaths>>

-----------------------------------------------------------------------------
(* rild.c *)

MAX_RILDS == 3
MAX_LIB_ARGS == 16

\* A process that exits leaves its service to init.
Ends(s) == rild' = [rild EXCEPT ![s].at = "exit"] /\ UNCHANGED past

\* The name the daemon registers its service with: the base, and the client's id
\* behind it unless that is 0.
ServiceName(id) == IF id = 0 THEN <<"slot">> ELSE <<"slot", id>>

\* The options -c and -s, the client id's limit, the library, the event loop.
Options(s) ==
    /\ rild[s].at = "main"
    /\ \/ /\ IdOf[s] < MAX_RILDS
          /\ rild' = [rild EXCEPT ![s].at = "loop", ![s].name = ServiceName(IdOf[s])]
          /\ UNCHANGED past
       \/ Ends(s)                                         \* dlopen fails
    /\ UNCHANGED <<svc, wanted, script, last, chained, commands, deaths>>

\* The words of rild.libargs from newArgv[1] on.
make_argv(words) == words + 1

\* RIL_Init, its arguments with "-c" and the id after them, RIL_register.  A
\* library may have no RIL_Init.
RIL_Init(s) ==
    /\ rild[s].at = "loop"
    /\ \/ Ends(s)
       \/ \E words \in LibArgs :
            LET argc == make_argv(words) + 2 IN
            /\ rild' = [rild EXCEPT ![s].at = "registered", ![s].argc = argc]
            /\ past' = (past \/ argc > MAX_LIB_ARGS)
    /\ UNCHANGED <<svc, wanted, script, last, chained, commands, deaths>>

\* RIL_register_socket, if the library has RIL_SAP_Init; the thread pool.
Serve(s) ==
    /\ rild[s].at = "registered"
    /\ rild' = [rild EXCEPT ![s].at = "serving"]
    /\ UNCHANGED <<svc, wanted, script, last, past, chained, commands, deaths>>

-----------------------------------------------------------------------------
Next ==
    \/ \E c \in DOMAIN CommandOps : Command(c)
    \/ ScriptStep
    \/ \E s \in Services : Dies(s) \/ Restarts(s)
    \/ \E s \in Rilds : Options(s) \/ RIL_Init(s) \/ Serve(s)
Spec == Init /\ [][Next]_vars

(* Properties *)

Idle == script = <<>>
Up(s) == svc[s] \in {"running", "restarting"} \/ s \in wanted

\* rilchip.sh stop: when the command is through, no RIL daemon runs or will run
\* again, even one that was just being restarted, and neither does
\* cpboot-daemon, unless the restart of a RIL daemon has taken it along.
AllStopped ==
    (Idle /\ last = "stop") => /\ \A s \in Rilds : ~Up(s)
                               /\ Up("cpboot-daemon") => chained

\* rilchip.sh start and restart: every daemon of the phone runs or will run, also
\* one whose process was still dying.
AllStarted ==
    (Idle /\ last \in {"start", "restart"}) =>
        \A i \in DOMAIN Both : Up(Both[i])

\* make_argv and the two words after it stay within newArgv as long as
\* rild.libargs has no more than 13 words.
ArgsFit == (\A words \in LibArgs : words <= MAX_LIB_ARGS - 3) => ~past

\* The commands of rilchip.sh against init's restarts: after the last one the daemons are
\* up or down as it asked, and those that start have room for their arguments.
CommandsDone == AllStopped /\ AllStarted /\ ArgsFit
=============================================================================
