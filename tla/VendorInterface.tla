-------------------------- MODULE VendorInterface --------------------------
(***************************************************************************)
(* The Bluetooth HAL (hardware/bluetooth): BluetoothHci, executed by one   *)
(* binder thread, and VendorInterface, whose callbacks are executed by the *)
(* thread of fd_watcher_.  The clients are Bluetooth stacks, one process   *)
(* at a time; a stack that died is told to the HAL by serviceDied.         *)
(*                                                                         *)
(* External: the vendor library configures the firmware by a sequence of   *)
(* internal commands and may send one internal command in an op that sets  *)
(* SCO or the low power mode; the controller completes commands in order;  *)
(* fd_watcher_ calls its timeout again and again while one is configured,  *)
(* and StopWatchingFileDescriptors joins its thread.                       *)
(***************************************************************************)
EXTENDS Naturals, Sequences, FiniteSets

CONSTANTS
    Clients,        \* processes of the Bluetooth stack
    VendorCommands, \* the ops of the vendor library that send a command
    MaxPackets,     \* bound on the packets of a client
    MaxFw           \* bound on the commands of a firmware configuration

NoClient == "none"
NoCommand == "none"
Commands == {"fw", "sco", "lpm", "lpmoff", "stack"}

ASSUME ClientAssumption == NoClient \notin Clients
ASSUME VendorAssumption == VendorCommands \subseteq {"sco", "lpm", "lpmoff"}
ASSUME BoundAssumption == MaxPackets \in Nat /\ MaxFw \in Nat \ {0}

VARIABLES
    g_vendor_interface, lib_interface, hci, \* the pointers are not nullptr
    watching,                \* fd_watcher_ watches the UART
    timer,                   \* a timeout other than 0 is configured
    initialize_complete_cb,  \* the client to tell, or NoClient
    event_cb,                \* the client that gets the events
    lpm_timeout_ms,          \* known, from this or an earlier session
    lpm_wake_deasserted, recent_activity_flag,
    internal_command,        \* the command whose cb is stored, or NoCommand
    binder,                  \* pc and client of the binder thread
    watcher,                 \* pc of the thread of fd_watcher_
    links,                   \* links[c]: number of linkToDeath on c's callback
    unlink_cb, has_died,     \* the client unlink_cb_ unlinks; has_died_
    aborted,                 \* Shutdown or Send found no interface: the process is gone
    uart,                    \* external: commands the controller has to complete
    wake,                    \* external: the wake line to the controller
    fwLeft,                  \* external: commands left in the configuration
    status,                  \* external: per client, what it knows
    answers,                 \* per client: initializationComplete calls it got
    stray,                   \* history: the stack got the event of an internal command
    lost,                    \* history: the slot was overwritten before the answer came
    late,                    \* history: initialize came before a death was told
    active,                  \* history: a packet was sent since the last timeout
    packets                  \* counter for the bound

halVars == <<g_vendor_interface, lib_interface, hci, initialize_complete_cb, event_cb>>
lpmVars == <<timer, lpm_timeout_ms, lpm_wake_deasserted, recent_activity_flag, wake, active>>
deathVars == <<links, unlink_cb, has_died>>
history == <<stray, lost, late>>
clientVars == <<status, answers, packets>>
vars == <<halVars, lpmVars, deathVars, clientVars, history, watching, internal_command,
          binder, watcher, aborted, uart, fwLeft>>

Alive(c) == status[c] \notin {"new", "dead"}
BinderIdle == [pc |-> "idle", who |-> NoClient]

Init ==
    /\ g_vendor_interface = FALSE /\ lib_interface = FALSE /\ hci = FALSE
    /\ watching = FALSE /\ timer = FALSE
    /\ initialize_complete_cb = NoClient /\ event_cb = NoClient
    /\ lpm_timeout_ms = FALSE /\ lpm_wake_deasserted = FALSE
    /\ recent_activity_flag = FALSE /\ internal_command = NoCommand
    /\ binder = BinderIdle /\ watcher = "idle"
    /\ links = [c \in Clients |-> 0] /\ unlink_cb = NoClient /\ has_died = FALSE
    /\ aborted = FALSE
    /\ uart = <<>> /\ wake = FALSE /\ fwLeft = 0
    /\ status = [c \in Clients |-> "new"] /\ answers = [c \in Clients |-> 0]
    /\ stray = FALSE /\ lost = FALSE /\ late = FALSE
    /\ active = FALSE /\ packets = 0

-----------------------------------------------------------------------------
(* Sending, with wakeup_mutex_ held throughout *)

\* Fault: only a packet that wakes the controller counts as activity.
Send_FlagOnWake(cmds) ==
    /\ recent_activity_flag' = (recent_activity_flag \/ lpm_wake_deasserted)
    /\ active' = TRUE
    /\ timer' = IF lpm_wake_deasserted THEN lpm_timeout_ms ELSE timer
    /\ wake' = (wake \/ lpm_wake_deasserted)
    /\ lpm_wake_deasserted' = FALSE
    /\ uart' = uart \o cmds

\* Send, for one packet or for several with nothing in between.
Send(cmds) ==
    /\ recent_activity_flag' = TRUE /\ active' = TRUE
    /\ timer' = IF lpm_wake_deasserted THEN lpm_timeout_ms ELSE timer
    /\ wake' = (wake \/ lpm_wake_deasserted)
    /\ lpm_wake_deasserted' = FALSE
    /\ uart' = uart \o cmds

\* The command in the slot has not been answered yet, or is just being taken.
Unanswered ==
    /\ internal_command # NoCommand
    /\ watcher = "take" \/ \E i \in DOMAIN uart : uart[i] = internal_command

\* transmit_cb: the one slot is overwritten, then the command is sent.
Transmit(op) ==
    /\ internal_command' = op
    /\ Send(<<op>>)
    /\ UNCHANGED lpm_timeout_ms

-----------------------------------------------------------------------------
(* BluetoothHci, in the binder thread *)

\* The session a call of client c is answered in: status and count.
Answer(c, s) ==
    /\ status' = IF status[c] = "waiting" THEN [status EXCEPT ![c] = s] ELSE status
    /\ answers' = [answers EXCEPT ![c] = @ + 1]

\* initialize, called by a new process or by one that has closed its session.
Initialize(c) ==
    /\ binder.pc = "idle" /\ ~aborted
    /\ status[c] \in {"new", "closed"} /\ \A d \in Clients \ {c} : ~Alive(d)
    /\ late' = (late \/ \E d \in Clients : links[d] > 0)
    /\ status' = [status EXCEPT ![c] = "waiting"]
    /\ answers' = [answers EXCEPT ![c] = 0]
    /\ has_died' = FALSE
    /\ links' = [links EXCEPT ![c] = @ + 1]
    /\ IF g_vendor_interface
         THEN /\ binder' = [pc |-> "refuse", who |-> c]
              /\ UNCHANGED g_vendor_interface
         ELSE /\ binder' = [pc |-> "open", who |-> c]
              /\ g_vendor_interface' = TRUE
    /\ UNCHANGED <<lib_interface, hci, initialize_complete_cb, event_cb, lpmVars,
                   unlink_cb, stray, lost, packets, watching, internal_command, watcher,
                   aborted, uart, fwLeft>>

\* "No previous Shutdown()?": initialize answers with an error.
Refuse ==
    /\ binder.pc = "refuse"
    /\ Answer(binder.who, "error")
    /\ unlink_cb' = binder.who
    /\ binder' = BinderIdle
    /\ UNCHANGED <<halVars, lpmVars, links, has_died, history, packets, watching,
                   internal_command, watcher, aborted, uart, fwLeft>>

\* Open fails at the library (lib_interface_ stays NULL) or later (it is set).
\* The object stays in g_vendor_interface.
OpenFails ==
    /\ binder.pc = "open"
    /\ lib_interface' \in BOOLEAN /\ initialize_complete_cb' = binder.who
    /\ Answer(binder.who, "error")
    /\ unlink_cb' = binder.who
    /\ binder' = BinderIdle
    /\ UNCHANGED <<g_vendor_interface, hci, event_cb, lpmVars, links, has_died, history,
                   packets, watching, internal_command, watcher, aborted, uart, fwLeft>>

\* Open succeeds as far as the watcher of the UART.
OpenWatch ==
    /\ binder.pc = "open"
    /\ lib_interface' = TRUE /\ hci' = TRUE /\ watching' = TRUE
    /\ initialize_complete_cb' = binder.who /\ event_cb' = binder.who
    /\ lpm_wake_deasserted' = TRUE
    /\ binder' = [binder EXCEPT !.pc = "firmware"]
    /\ UNCHANGED <<g_vendor_interface, timer, lpm_timeout_ms, recent_activity_flag, wake,
                   active, deathVars, clientVars, history, internal_command, watcher, aborted,
                   uart, fwLeft>>

\* BT_VND_OP_FW_CFG: the library sends its first command.  initialize returns.
OpenFirmware ==
    /\ binder.pc = "firmware"
    /\ \E n \in 0 .. MaxFw - 1 : fwLeft' = n
    /\ Transmit("fw") /\ lost' = (lost \/ Unanswered)
    /\ unlink_cb' = binder.who
    /\ binder' = BinderIdle
    /\ UNCHANGED <<halVars, links, has_died, clientVars, stray, late, watching, watcher, aborted>>

\* sendHciCommand, sendAclData and sendScoData of a stack that was told SUCCESS.
\* Without an interface Send runs into a null pointer.
SendData(c) ==
    /\ binder.pc = "idle" /\ ~aborted
    /\ status[c] = "ready" /\ packets < MaxPackets
    /\ packets' = packets + 1
    /\ IF g_vendor_interface /\ hci
         THEN Send(<<"stack">>) /\ UNCHANGED <<aborted, lpm_timeout_ms>>
         ELSE aborted' = TRUE /\ UNCHANGED <<lpmVars, uart>>
    /\ UNCHANGED <<halVars, deathVars, status, answers, history, watching,
                   internal_command, binder, watcher, fwLeft>>

\* Shutdown, which must find an interface.
EnterShutdown(c) ==
    /\ IF g_vendor_interface
         THEN /\ binder' = [pc |-> "lpmoff", who |-> c]
              /\ UNCHANGED aborted
         ELSE /\ aborted' = TRUE
              /\ UNCHANGED binder
    /\ UNCHANGED <<halVars, lpmVars, unlink_cb, answers, history, packets, watching,
                   internal_command, watcher, uart, fwLeft>>

\* close, called by a stack that has a session or waits for it.
Close(c) ==
    /\ binder.pc = "idle" /\ ~aborted
    /\ status[c] \in {"waiting", "ready"}
    /\ status' = [status EXCEPT ![c] = "closing"]
    /\ links' = IF has_died THEN links ELSE [links EXCEPT ![unlink_cb] = 0]
    /\ EnterShutdown(c)
    /\ UNCHANGED has_died

\* serviceDied, for a link on the callback of a dead process: it closes.
ServiceDied(c) ==
    /\ binder.pc = "idle" /\ ~aborted
    /\ status[c] = "dead" /\ links[c] > 0
    /\ links' = [links EXCEPT ![c] = @ - 1]
    /\ has_died' = TRUE
    /\ EnterShutdown(c)
    /\ UNCHANGED status

\* VendorInterface::Close: BT_VND_LPM_DISABLE, which may send a command.
CloseLpm ==
    /\ binder.pc = "lpmoff"
    /\ IF lib_interface /\ hci /\ "lpmoff" \in VendorCommands
         THEN Transmit("lpmoff") /\ lost' = (lost \/ Unanswered)
         ELSE UNCHANGED <<internal_command, lpmVars, uart, lost>>
    /\ binder' = [binder EXCEPT !.pc = "stop"]
    /\ UNCHANGED <<halVars, deathVars, clientVars, stray, late, watching, watcher, aborted, fwLeft>>

\* Fault: the protocol object is deleted while the UART is still watched.
CloseStop_DeleteFirst ==
    /\ binder.pc = "stop"
    /\ hci' = FALSE
    /\ UNCHANGED <<watching, timer, uart>>
    /\ binder' = [binder EXCEPT !.pc = "teardown"]
    /\ UNCHANGED <<g_vendor_interface, lib_interface, initialize_complete_cb, event_cb,
                   lpm_timeout_ms, lpm_wake_deasserted, recent_activity_flag, wake,
                   active, deathVars, clientVars, history, internal_command, watcher, aborted, fwLeft>>

\* StopWatchingFileDescriptors joins the watcher.
CloseStop ==
    /\ binder.pc = "stop"
    /\ watcher = "idle"
    /\ watching' = FALSE /\ timer' = FALSE /\ uart' = <<>>
    /\ binder' = [binder EXCEPT !.pc = "teardown"]
    /\ UNCHANGED <<halVars, lpm_timeout_ms, lpm_wake_deasserted, recent_activity_flag,
                   wake, active, deathVars, clientVars, history, internal_command, watcher,
                   aborted, fwLeft>>

\* The rest of Close, and Shutdown deletes the object.
CloseTeardown ==
    /\ binder.pc = "teardown"
    /\ g_vendor_interface' = FALSE /\ lib_interface' = FALSE /\ hci' = FALSE
    /\ initialize_complete_cb' = NoClient /\ event_cb' = NoClient
    /\ watching' = FALSE /\ timer' = FALSE /\ uart' = <<>>
    /\ wake' = FALSE
    /\ status' = IF status[binder.who] = "closing"
                    THEN [status EXCEPT ![binder.who] = "closed"] ELSE status
    /\ binder' = BinderIdle
    /\ UNCHANGED <<lpm_timeout_ms, lpm_wake_deasserted, recent_activity_flag, active,
                   deathVars, answers, history, packets, internal_command, watcher,
                   aborted, fwLeft>>

BinderContinues ==
    \/ Refuse \/ OpenFails \/ OpenWatch \/ OpenFirmware
    \/ CloseLpm \/ CloseStop \/ CloseTeardown

-----------------------------------------------------------------------------
(* The thread of fd_watcher_ *)

\* HandleIncomingEvent for the completion of the oldest command: does the
\* internal command match?
Incoming ==
    /\ watching /\ watcher = "idle" /\ uart # <<>> /\ ~aborted
    /\ uart' = Tail(uart)
    /\ IF internal_command = Head(uart)
         THEN /\ watcher' = "take"
              /\ UNCHANGED stray
         ELSE /\ stray' = (stray \/ Head(uart) # "stack")
              /\ UNCHANGED watcher
    /\ UNCHANGED <<halVars, lpmVars, deathVars, status, answers, packets, lost, late, watching,
                   internal_command, binder, aborted, fwLeft>>

\* Fault: the slot is emptied after the callback, which may have filled it.
TakeNext_ZeroAfter ==
    /\ watcher = "take" /\ internal_command = "fw" /\ fwLeft > 0
    /\ fwLeft' = fwLeft - 1
    /\ internal_command' = NoCommand
    /\ Send(<<"fw">>)
    /\ watcher' = "idle"
    /\ UNCHANGED <<halVars, lpm_timeout_ms, deathVars, clientVars, history, watching, binder, aborted>>

\* The slot is emptied and its callback called: the library goes on with the
\* next command of the configuration ...
TakeNext ==
    /\ watcher = "take" /\ internal_command = "fw" /\ fwLeft > 0
    /\ fwLeft' = fwLeft - 1
    /\ Transmit("fw")
    /\ watcher' = "idle"
    /\ UNCHANGED <<halVars, deathVars, clientVars, history, watching, binder, aborted>>

\* ... or has reached its end, and calls firmware_config_cb ...
TakeLast ==
    /\ watcher = "take" /\ internal_command = "fw" /\ fwLeft = 0
    /\ internal_command' = NoCommand
    /\ watcher' = "notify"
    /\ UNCHANGED <<halVars, lpmVars, deathVars, clientVars, history, watching, binder, aborted,
                   uart, fwLeft>>

\* ... or the command was one of those whose callbacks only log.
TakeOther ==
    /\ watcher = "take" /\ internal_command # "fw"
    /\ internal_command' = NoCommand
    /\ watcher' = "idle"
    /\ UNCHANGED <<halVars, lpmVars, deathVars, clientVars, history, watching, binder, aborted,
                   uart, fwLeft>>

\* OnFirmwareConfigured: the client is told, of success or of failure ...
Notify ==
    /\ watcher = "notify"
    /\ initialize_complete_cb # NoClient
    /\ \E s \in {"ready", "error"} : Answer(initialize_complete_cb, s)
    /\ initialize_complete_cb' = NoClient
    /\ watcher' = "configure"
    /\ UNCHANGED <<g_vendor_interface, lib_interface, hci, event_cb, lpmVars, deathVars,
                   history, packets, watching, internal_command, binder, aborted, uart, fwLeft>>

\* The command an op of the vendor library sends, if it sends one.
Sends(op) == IF op \in VendorCommands THEN <<op>> ELSE <<>>

\* ... then SCO and the low power mode are configured and the timer is started.
Configure ==
    /\ watcher = "configure"
    /\ LET ops == Sends("sco") \o Sends("lpm") IN
         IF ops = <<>>
           THEN UNCHANGED <<internal_command, lpm_wake_deasserted, recent_activity_flag,
                            wake, active, uart, lost>>
           ELSE /\ internal_command' = ops[Len(ops)]
                /\ lost' = (lost \/ Unanswered \/ Len(ops) > 1)
                /\ recent_activity_flag' = TRUE /\ active' = TRUE
                /\ wake' = (wake \/ lpm_wake_deasserted)
                /\ lpm_wake_deasserted' = FALSE
                /\ uart' = uart \o ops
    /\ lpm_timeout_ms' = TRUE /\ timer' = TRUE
    /\ watcher' = "idle"
    /\ UNCHANGED <<halVars, deathVars, clientVars, stray, late, watching, binder, aborted, fwLeft>>

\* OnTimeout, with wakeup_mutex_ held.
OnTimeout ==
    /\ watching /\ watcher = "idle" /\ timer /\ ~aborted
    /\ IF recent_activity_flag
         THEN UNCHANGED <<lpm_wake_deasserted, wake, timer>>
         ELSE lpm_wake_deasserted' = TRUE /\ wake' = FALSE /\ timer' = FALSE
    /\ recent_activity_flag' = FALSE /\ active' = FALSE
    /\ UNCHANGED <<halVars, lpm_timeout_ms, deathVars, clientVars, history, watching,
                   internal_command, binder, watcher, aborted, uart, fwLeft>>

Watcher == Incoming \/ TakeNext \/ TakeLast \/ TakeOther \/ Notify \/ Configure

-----------------------------------------------------------------------------
(* External: processes die, and new ones take their place *)

Die(c) ==
    /\ Alive(c)
    /\ status' = [status EXCEPT ![c] = "dead"]
    /\ UNCHANGED <<halVars, lpmVars, deathVars, answers, history, packets, watching,
                   internal_command, binder, watcher, aborted, uart, fwLeft>>

Restart(c) ==
    /\ status[c] = "dead" /\ links[c] = 0 /\ binder.who # c
    /\ initialize_complete_cb # c /\ event_cb # c
    /\ status' = [status EXCEPT ![c] = "new"]
    /\ UNCHANGED <<halVars, lpmVars, deathVars, answers, history, packets, watching,
                   internal_command, binder, watcher, aborted, uart, fwLeft>>

Next ==
    \/ BinderContinues \/ Watcher \/ OnTimeout
    \/ \E c \in Clients : \/ Initialize(c) \/ SendData(c) \/ Close(c) \/ ServiceDied(c)
                          \/ Die(c) \/ Restart(c)

Spec == Init /\ [][Next]_vars

\* Both threads go on, the controller completes commands, timeouts expire and
\* deaths are told.  Clients need not do anything.
Fairness ==
    /\ WF_vars(BinderContinues) /\ WF_vars(Watcher) /\ WF_vars(OnTimeout)
    /\ \A c \in Clients : WF_vars(ServiceDied(c))

FairSpec == Spec /\ Fairness

-----------------------------------------------------------------------------
(* Properties *)

BinderPcs == {"idle", "refuse", "open", "firmware", "lpmoff", "stop", "teardown"}
WatcherPcs == {"idle", "take", "notify", "configure"}

\* Types; a client gets at most one initializationComplete for an initialize,
\* whether Open failed, was refused or the firmware was configured.
TypeOK ==
    /\ g_vendor_interface \in BOOLEAN /\ lib_interface \in BOOLEAN /\ hci \in BOOLEAN
    /\ watching \in BOOLEAN /\ timer \in BOOLEAN /\ lpm_timeout_ms \in BOOLEAN
    /\ lpm_wake_deasserted \in BOOLEAN /\ recent_activity_flag \in BOOLEAN
    /\ has_died \in BOOLEAN /\ aborted \in BOOLEAN /\ wake \in BOOLEAN
    /\ active \in BOOLEAN /\ stray \in BOOLEAN /\ lost \in BOOLEAN /\ late \in BOOLEAN
    /\ {initialize_complete_cb, event_cb, unlink_cb} \subseteq Clients \cup {NoClient}
    /\ internal_command \in Commands \cup {NoCommand}
    /\ binder \in [pc : BinderPcs, who : Clients \cup {NoClient}]
    /\ watcher \in WatcherPcs
    /\ links \in [Clients -> 0 .. 1]
    /\ uart \in Seq(Commands) /\ fwLeft \in 0 .. MaxFw
    /\ status \in [Clients -> {"new", "waiting", "ready", "error", "closing",
                               "closed", "dead"}]
    /\ answers \in [Clients -> 0 .. 1]
    /\ packets \in 0 .. MaxPackets

\* The watcher thread never runs into a pointer that Close has cleared: it has the
\* library and the protocol object whenever it runs, wherever the binder thread is
\* in Open or Close, and however late a death is told.
WatcherFindsObjects ==
    (watching \/ watcher # "idle") => g_vendor_interface /\ lib_interface /\ hci

\* A stack that was told SUCCESS has the session: sendHciCommand finds all objects
\* and the events come to this stack, although it was told by the watcher thread
\* in the middle of OnFirmwareConfigured, unless a death was told late.
ClientHasSession ==
    ~late => \A c \in Clients : status[c] = "ready" /\ binder.pc = "idle" =>
        g_vendor_interface /\ lib_interface /\ hci /\ event_cb = c

\* LOG_ALWAYS_FATAL_IF(!g_vendor_interface) in Shutdown never strikes and Send
\* meets no null pointer: every close, every death of a client and every packet
\* finds the interface of its session, as long as each death is told before the
\* next process calls initialize: failed opens, closes and deaths in any order
\* leave one link per session.
FindsInterfaceUnlessLate == ~late => ~aborted

\* The wake line follows lpm_wake_deasserted, so Send asserts it exactly when
\* needed; and once the firmware is configured an asserted line has a timer
\* running that will deassert it, whatever sends and timeouts have interleaved.
Configured == watching /\ initialize_complete_cb = NoClient /\ watcher = "idle"
WakeFollows ==
    watching => /\ wake = ~lpm_wake_deasserted
                /\ Configured /\ wake => timer

\* The controller is not put to sleep within a timeout period in which a packet
\* was sent to it, even if the timeout expired just after the packet.
QuietBeforeSleep == [][wake /\ ~wake' /\ watching' => ~active]_vars

\* The answers to the commands of the vendor library reach the library and are
\* not passed to the stack, over any number of sessions, as long as the library
\* has one command at a time.
InternalStaysInternal == stray => lost

\* A client that waits for initializationComplete gets it, unless it closes or
\* dies or a death was told late: no answer is lost between the commands of the
\* firmware configuration.
Answered == \A c \in Clients : status[c] = "waiting" ~> (status[c] # "waiting" \/ late)

\* A controller that is left alone is put to sleep by OnTimeout, unless the
\* session ends or the HAL aborts.
Sleeps == Configured ~> (~wake \/ ~watching \/ aborted)

\* No thread meets an object of VendorInterface that is not there, however Open, Close,
\* serviceDied and the watcher thread interleave, and a client that was told SUCCESS
\* has the session.
SessionInv ==
    /\ TypeOK
    /\ WatcherFindsObjects
    /\ ClientHasSession
    /\ FindsInterfaceUnlessLate

\* Low power mode: the wake line follows the flags of Send and OnTimeout, the controller
\* is not put to sleep under a packet, and it is put to sleep when it is left alone.
SleepsQuietly == []WakeFollows /\ QuietBeforeSleep /\ Sleeps
=============================================================================
