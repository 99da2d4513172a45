----------------------- MODULE VendorInterfaceProofs -----------------------
(***************************************************************************)
(* What VendorInterface promises, proved for any set of clients, any       *)
(* vendor library of the kind assumed and any number of packets and        *)
(* firmware commands: the session (SessionInv), the way of the answers to  *)
(* internal commands (InternalStaysInternal), the wake line (WakeFollows)  *)
(* and its timeout (QuietBeforeSleep).                                     *)
(***************************************************************************)
EXTENDS VendorInterface, TLAPS

Opening == {"refuse", "open", "firmware"}
Closing == {"lpmoff", "stop", "teardown"}

(* The client of the last initialize. *)
Last == IF binder.pc \in Opening THEN binder.who ELSE unlink_cb

(* Which objects exist while a thread is where it is. *)
Objects ==
    /\ watcher # "idle" => watching
    /\ watching => lib_interface /\ hci
    /\ lib_interface \/ hci => g_vendor_interface
    /\ binder.pc # "idle" => g_vendor_interface /\ binder.who \in Clients
    /\ binder.pc = "open" => ~lib_interface /\ ~hci
    /\ binder.pc = "firmware" => watching /\ watcher = "idle" /\ uart = <<>>
    /\ binder.pc = "teardown" => ~watching
    /\ hci /\ binder.pc # "teardown" => watching
    /\ ~watching => uart = <<>>

(* One process at a time is alive, the one of the last initialize, and a     *)
(* process that may call initialize has no link and no callback left. *)
Processes ==
    /\ \A c \in Clients : Alive(c) => c = Last
    /\ \A c \in Clients : status[c] \in {"new", "closed"} =>
         links[c] = 0 /\ initialize_complete_cb # c /\ event_cb # c
    /\ binder.pc \in Opening => status[binder.who] \in {"waiting", "dead"}
    /\ binder.pc \in Closing /\ status[binder.who] = "closing" => links[binder.who] = 0
    /\ has_died => binder.pc \notin Opening /\ (binder.pc = "idle" /\ ~aborted => ~g_vendor_interface)

(* The answer to an initialize is still due to the client that is stored. *)
Due ==
    /\ binder.pc \in Opening => answers[binder.who] = 0
    /\ binder.pc = "refuse" => initialize_complete_cb # binder.who
    /\ binder.pc = "firmware" => initialize_complete_cb = binder.who
    /\ watching /\ initialize_complete_cb # NoClient =>
         answers[initialize_complete_cb] = 0 /\ event_cb = initialize_complete_cb

(* As long as no death was told late, one link goes with one session. *)
OneSession ==
    ~late =>
      /\ ~aborted
      /\ \A c \in Clients : links[c] > 0 => c = Last /\ binder.pc \notin Closing /\ g_vendor_interface
      /\ binder.pc # "refuse"
      /\ binder.pc \in Opening \/ (binder.pc = "idle" /\ g_vendor_interface) =>
           Last \in Clients /\ links[Last] > 0
      /\ binder.pc \in Closing => binder.who = unlink_cb /\ status[binder.who] \in {"closing", "dead"}
      /\ \A c \in Clients : status[c] \in {"waiting", "ready"} => links[c] > 0
      /\ \A c \in Clients : status[c] = "ready" => binder.pc = "idle" /\ watching /\ event_cb = c

(* The slot holds the only internal command that is not answered. *)
Slot ==
    /\ stray => lost
    /\ ~lost =>
         /\ \A i \in DOMAIN uart : uart[i] # "stack" => uart[i] = internal_command
         /\ \A i, j \in DOMAIN uart : uart[i] # "stack" /\ uart[j] # "stack" => i = j
         /\ watcher = "take" => \A i \in DOMAIN uart : uart[i] = "stack"
    /\ watcher = "take" => internal_command # NoCommand

(* The wake line, its timer and the activity. *)
Line ==
    /\ active => recent_activity_flag
    /\ ~g_vendor_interface \/ binder.pc = "open" => ~wake
    /\ watching => wake = ~lpm_wake_deasserted
    /\ watching /\ initialize_complete_cb = NoClient /\ watcher # "configure" =>
         lpm_timeout_ms /\ (wake => timer)

IInv == TypeOK /\ Objects /\ Processes /\ Due /\ OneSession /\ Slot /\ Line

-----------------------------------------------------------------------------
(* The parts of a step *)

Statuses == {"new", "waiting", "ready", "error", "closing", "closed", "dead"}
BinderStates == [pc : BinderPcs, who : Clients \cup {NoClient}]

(* Sending keeps the types of what it touches. *)
LEMMA SendTypes ==
    ASSUME TypeOK, NEW cmds \in Seq(Commands), Send(cmds)
    PROVE  /\ recent_activity_flag' \in BOOLEAN /\ active' \in BOOLEAN /\ timer' \in BOOLEAN
           /\ wake' \in BOOLEAN /\ lpm_wake_deasserted' \in BOOLEAN
           /\ uart' \in Seq(Commands)
<1>1. uart \in Seq(Commands)  BY DEF TypeOK
<1>2. uart' \in Seq(Commands)  BY <1>1 DEF Send
<1> QED  BY <1>2 DEF TypeOK, Send

(* One command appended to the UART comes last. *)
LEMMA UartLonger ==
    ASSUME TypeOK, NEW op \in Commands, uart' = uart \o <<op>>
    PROVE  LET n == Len(uart) + 1
           IN /\ DOMAIN uart' = DOMAIN uart \cup {n} /\ uart'[n] = op
              /\ \A i \in DOMAIN uart : uart'[i] = uart[i] /\ i # n
<1>1. uart \in Seq(Commands)  BY DEF TypeOK
<1> QED  BY <1>1

(* What Answer tells a client, and that it tells the others nothing. *)
LEMMA AnswerEffect ==
    ASSUME TypeOK, NEW c \in Clients, NEW s \in {"ready", "error"}, Answer(c, s), answers[c] = 0
    PROVE  /\ status' \in [Clients -> Statuses] /\ answers' \in [Clients -> 0 .. 1]
           /\ status[c] = "waiting" => status'[c] = s
           /\ status[c] # "waiting" => status'[c] = status[c]
           /\ \A d \in Clients : d # c => status'[d] = status[d] /\ answers'[d] = answers[d]
<1>1. status' \in [Clients -> Statuses]  BY DEF TypeOK, Answer, Statuses
<1>2. answers' \in [Clients -> 0 .. 1]  BY DEF TypeOK, Answer
<1> QED  BY <1>1, <1>2 DEF TypeOK, Answer

(* A client's status is set. *)
LEMMA StatusSet ==
    ASSUME TypeOK, NEW c \in Clients, NEW s \in Statuses, status' = [status EXCEPT ![c] = s]
    PROVE  /\ status' \in [Clients -> Statuses] /\ status'[c] = s
           /\ \A d \in Clients : d # c => status'[d] = status[d]
  BY DEF TypeOK, Statuses

LEMMA InitializeEffect ==
    ASSUME TypeOK, Processes, NEW c \in Clients, Initialize(c)
    PROVE  /\ binder.pc = "idle" /\ ~aborted
           /\ status[c] \in {"new", "closed"} /\ \A d \in Clients : d # c => ~Alive(d)
           /\ status' \in [Clients -> Statuses] /\ status'[c] = "waiting"
           /\ \A d \in Clients : d # c => status'[d] = status[d]
           /\ answers' \in [Clients -> 0 .. 1] /\ answers'[c] = 0
           /\ \A d \in Clients : d # c => answers'[d] = answers[d]
           /\ links' \in [Clients -> 0 .. 1] /\ links'[c] = 1
           /\ \A d \in Clients : d # c => links'[d] = links[d]
           /\ late' \in BOOLEAN
           /\ ~late' => ~late /\ \A d \in Clients : links[d] = 0
           /\ has_died' = FALSE /\ g_vendor_interface' = TRUE
           /\ binder' \in BinderStates /\ binder'.who = c
           /\ binder'.pc = IF g_vendor_interface THEN "refuse" ELSE "open"
           /\ UNCHANGED <<lib_interface, hci, initialize_complete_cb, event_cb, lpmVars,
                          unlink_cb, stray, lost, packets, watching, internal_command, watcher,
                          aborted, uart, fwLeft>>
<1>1. status' = [status EXCEPT ![c] = "waiting"] /\ "waiting" \in Statuses
  BY DEF Initialize, Statuses
<1>2. /\ status' \in [Clients -> Statuses] /\ status'[c] = "waiting"
      /\ \A d \in Clients : d # c => status'[d] = status[d]
  BY <1>1, StatusSet
<1>3. links[c] = 0  BY DEF Initialize, Processes
<1>4. /\ links' \in [Clients -> 0 .. 1] /\ links'[c] = 1
      /\ \A d \in Clients : d # c => links'[d] = links[d]
  BY <1>3 DEF Initialize, TypeOK
<1>5. /\ answers' \in [Clients -> 0 .. 1] /\ answers'[c] = 0
      /\ \A d \in Clients : d # c => answers'[d] = answers[d]
  BY DEF Initialize, TypeOK
<1>6. late' = (late \/ \E d \in Clients : links[d] > 0)  BY DEF Initialize
<1>7. late' \in BOOLEAN  BY <1>6
<1>8. ~late' => ~late /\ \A d \in Clients : links[d] = 0
  <2>1. \A d \in Clients : links[d] \in 0 .. 1  BY DEF TypeOK
  <2>2. late \/ (\E d \in Clients : links[d] > 0) => late'  BY <1>6
  <2>3. ~late' => ~late /\ \A d \in Clients : ~(links[d] > 0)  BY <2>2
  <2> QED  BY <2>1, <2>3
<1>9. /\ binder' \in BinderStates /\ binder'.who = c /\ g_vendor_interface' = TRUE
      /\ binder'.pc = IF g_vendor_interface THEN "refuse" ELSE "open"
  BY DEF Initialize, TypeOK, BinderStates, BinderPcs
<1> QED  BY <1>2, <1>4, <1>5, <1>7, <1>8, <1>9 DEF Initialize

(* Close and serviceDied go on to Shutdown, with or without an interface. *)
LEMMA ShutdownEffect ==
    ASSUME TypeOK, NEW c \in Clients, EnterShutdown(c)
    PROVE  /\ binder' \in BinderStates /\ aborted' \in BOOLEAN
           /\ g_vendor_interface => binder'.pc = "lpmoff" /\ binder'.who = c /\ aborted' = aborted
           /\ ~g_vendor_interface => aborted' /\ binder' = binder
           /\ UNCHANGED <<halVars, lpmVars, unlink_cb, answers, history, packets, watching,
                          internal_command, watcher, uart, fwLeft>>
<1>1. CASE g_vendor_interface
  BY <1>1 DEF EnterShutdown, TypeOK, BinderStates, BinderPcs
<1>2. CASE ~g_vendor_interface
  BY <1>2, ZenonT(40) DEF EnterShutdown, TypeOK, BinderStates
<1> QED  BY <1>1, <1>2

LEMMA CloseEffect ==
    ASSUME TypeOK, Processes, NEW c \in Clients, Close(c)
    PROVE  /\ binder.pc = "idle" /\ ~aborted /\ status[c] \in {"waiting", "ready"}
           /\ status' \in [Clients -> Statuses] /\ status'[c] = "closing"
           /\ \A d \in Clients : d # c => status'[d] = status[d]
           /\ c = unlink_cb
           /\ links' \in [Clients -> 0 .. 1]
           /\ has_died => links' = links /\ ~g_vendor_interface
           /\ ~has_died => links'[c] = 0
           /\ \A d \in Clients : d # c => links'[d] = links[d]
           /\ EnterShutdown(c) /\ UNCHANGED has_died
<1>1. status' = [status EXCEPT ![c] = "closing"] /\ "closing" \in Statuses
  BY DEF Close, Statuses
<1>2. /\ status' \in [Clients -> Statuses] /\ status'[c] = "closing"
      /\ \A d \in Clients : d # c => status'[d] = status[d]
  BY <1>1, StatusSet
<1>3. c = unlink_cb  BY DEF Close, Processes, Alive, Last, Opening
<1>4. /\ links' \in [Clients -> 0 .. 1]
      /\ has_died => links' = links
      /\ ~has_died => links'[c] = 0
      /\ \A d \in Clients : d # c => links'[d] = links[d]
  BY <1>3 DEF Close, TypeOK
<1>5. has_died => ~g_vendor_interface  BY DEF Close, Processes
<1> QED  BY <1>2, <1>3, <1>4, <1>5 DEF Close

LEMMA DiedEffect ==
    ASSUME TypeOK, NEW c \in Clients, ServiceDied(c)
    PROVE  /\ binder.pc = "idle" /\ ~aborted /\ status[c] = "dead"
           /\ links[c] = 1 /\ links' \in [Clients -> 0 .. 1] /\ links'[c] = 0
           /\ \A d \in Clients : d # c => links'[d] = links[d]
           /\ has_died' = TRUE /\ EnterShutdown(c) /\ UNCHANGED status
<1>1. /\ links[c] = 1 /\ links' \in [Clients -> 0 .. 1] /\ links'[c] = 0
      /\ \A d \in Clients : d # c => links'[d] = links[d]
  BY DEF ServiceDied, TypeOK
<1> QED  BY <1>1 DEF ServiceDied

LEMMA TeardownEffect ==
    ASSUME TypeOK, Objects, CloseTeardown
    PROVE  /\ binder.pc = "teardown" /\ binder.who \in Clients /\ binder' = BinderIdle
           /\ status' \in [Clients -> Statuses]
           /\ status[binder.who] = "closing" => status'[binder.who] = "closed"
           /\ status[binder.who] # "closing" => status'[binder.who] = status[binder.who]
           /\ \A d \in Clients : d # binder.who => status'[d] = status[d]
<1>1. binder.pc = "teardown" /\ binder.who \in Clients /\ binder' = BinderIdle
  BY DEF CloseTeardown, Objects
<1> QED  BY <1>1 DEF CloseTeardown, TypeOK, Statuses

LEMMA DieEffect ==
    ASSUME TypeOK, NEW c \in Clients, Die(c) \/ Restart(c)
    PROVE  /\ status' \in [Clients -> Statuses]
           /\ \A d \in Clients : d # c => status'[d] = status[d]
           /\ \/ status'[c] = "dead"
              \/ /\ status'[c] = "new" /\ status[c] = "dead" /\ links[c] = 0 /\ binder.who # c
                 /\ initialize_complete_cb # c /\ event_cb # c
           /\ UNCHANGED <<halVars, lpmVars, deathVars, answers, history, packets, watching,
                          internal_command, binder, watcher, aborted, uart, fwLeft>>
<1>1. "dead" \in Statuses /\ "new" \in Statuses  BY DEF Statuses
<1>2. CASE Die(c)  BY <1>1, <1>2, StatusSet DEF Die
<1>3. CASE Restart(c)  BY <1>1, <1>3, StatusSet DEF Restart
<1> QED  BY <1>2, <1>3

LEMMA IdleBinder == BinderIdle \in BinderStates /\ BinderIdle.pc = "idle" /\ BinderIdle.who = NoClient
  BY DEF BinderIdle, BinderStates, BinderPcs

(* The binder thread that goes on with its function. *)
LEMMA BinderMoved ==
    ASSUME TypeOK, NEW pc \in BinderPcs, binder' = [binder EXCEPT !.pc = pc]
    PROVE  binder' \in BinderStates /\ binder'.pc = pc /\ binder'.who = binder.who
  BY DEF TypeOK, BinderStates

(* The commands of the configuration of SCO and low power mode. *)
LEMMA ConfigureOps ==
    LET ops == Sends("sco") \o Sends("lpm")
    IN /\ ops \in Seq(Commands)
       /\ ops # <<>> => ops[Len(ops)] \in Commands
       /\ ops # <<>> => Len(ops) > 1 \/ \E op \in Commands : ops = <<op>> /\ ops[Len(ops)] = op
<1>1. CASE "sco" \in VendorCommands /\ "lpm" \in VendorCommands  BY <1>1 DEF Sends, Commands
<1>2. CASE "sco" \in VendorCommands /\ "lpm" \notin VendorCommands  BY <1>2 DEF Sends, Commands
<1>3. CASE "sco" \notin VendorCommands /\ "lpm" \in VendorCommands  BY <1>3 DEF Sends, Commands
<1>4. CASE "sco" \notin VendorCommands /\ "lpm" \notin VendorCommands  BY <1>4 DEF Sends, Commands
<1> QED  BY <1>1, <1>2, <1>3, <1>4

-----------------------------------------------------------------------------
(* The inductive invariant, one conjunct after the other *)

LEMMA InitIInv == Init => IInv
<1> SUFFICES ASSUME Init PROVE IInv  OBVIOUS
<1>1. TypeOK
  <2>1. links \in [Clients -> 0 .. 1] /\ answers \in [Clients -> 0 .. 1]  BY DEF Init
  <2>2. status \in [Clients -> Statuses]  BY DEF Init, Statuses
  <2>3. packets \in 0 .. MaxPackets /\ fwLeft \in 0 .. MaxFw  BY BoundAssumption DEF Init
  <2>4. binder \in BinderStates  BY IdleBinder DEF Init
  <2>5. uart \in Seq(Commands) /\ watcher \in WatcherPcs  BY DEF Init, WatcherPcs
  <2> QED  BY <2>1, <2>2, <2>3, <2>4, <2>5 DEF Init, TypeOK, Statuses, BinderStates
<1>2. Objects  BY IdleBinder DEF Init, Objects
<1>3. Processes  BY IdleBinder, ClientAssumption DEF Init, Processes, Alive, Opening, Closing
<1>4. Due  BY IdleBinder DEF Init, Due, Opening
<1>5. OneSession  BY IdleBinder DEF Init, OneSession, Opening, Closing
<1>6. Slot /\ Line  BY IdleBinder DEF Init, Slot, Line
<1> QED  BY <1>1, <1>2, <1>3, <1>4, <1>5, <1>6 DEF IInv

(* The actions, as the lemmas below go through them. *)
LEMMA Cases ==
    ASSUME Next
    PROVE  \/ Refuse \/ OpenFails \/ OpenWatch \/ OpenFirmware
           \/ CloseLpm \/ CloseStop \/ CloseTeardown
           \/ Incoming \/ TakeNext \/ TakeLast \/ TakeOther \/ Notify \/ Configure \/ OnTimeout
           \/ \E c \in Clients : \/ Initialize(c) \/ SendData(c) \/ Close(c) \/ ServiceDied(c)
                                 \/ Die(c) \/ Restart(c)
  BY DEF Next, BinderContinues, Watcher

(* The types, the flags apart from the rest. *)
Flags ==
    /\ g_vendor_interface \in BOOLEAN /\ lib_interface \in BOOLEAN /\ hci \in BOOLEAN
    /\ watching \in BOOLEAN /\ timer \in BOOLEAN /\ lpm_timeout_ms \in BOOLEAN
    /\ lpm_wake_deasserted \in BOOLEAN /\ recent_activity_flag \in BOOLEAN
    /\ has_died \in BOOLEAN /\ aborted \in BOOLEAN /\ wake \in BOOLEAN
    /\ active \in BOOLEAN /\ stray \in BOOLEAN /\ lost \in BOOLEAN /\ late \in BOOLEAN
Data ==
    /\ initialize_complete_cb \in Clients \cup {NoClient}
    /\ event_cb \in Clients \cup {NoClient} /\ unlink_cb \in Clients \cup {NoClient}
    /\ internal_command \in Commands \cup {NoCommand}
    /\ binder \in BinderStates /\ watcher \in WatcherPcs
    /\ links \in [Clients -> 0 .. 1] /\ answers \in [Clients -> 0 .. 1]
    /\ uart \in Seq(Commands) /\ fwLeft \in 0 .. MaxFw /\ packets \in 0 .. MaxPackets
    /\ status \in [Clients -> Statuses]

LEMMA TypeParts == TypeOK <=> Flags /\ Data
  BY DEF TypeOK, Flags, Data, Statuses, BinderStates

LEMMA FlagsKept ==
    ASSUME IInv, Next
    PROVE  Flags'
<1>0. Flags /\ TypeOK /\ Processes  BY TypeParts DEF IInv
<1> USE DEF halVars, lpmVars, deathVars, clientVars, history, Flags
<1>1. CASE Refuse  BY <1>0, <1>1 DEF Refuse
<1>2. CASE OpenFails  BY <1>0, <1>2 DEF OpenFails
<1>3. CASE OpenWatch  BY <1>0, <1>3 DEF OpenWatch
<1>4. CASE OpenFirmware  BY <1>0, <1>4 DEF OpenFirmware, Transmit, Send
<1>5. CASE CloseLpm
  <2>1. CASE lib_interface /\ hci /\ "lpmoff" \in VendorCommands
    BY <1>0, <1>5, <2>1 DEF CloseLpm, Transmit, Send
  <2>2. CASE ~(lib_interface /\ hci /\ "lpmoff" \in VendorCommands)
    BY <1>0, <1>5, <2>2 DEF CloseLpm
  <2> QED  BY <2>1, <2>2
<1>6. CASE CloseStop
  <2>1. /\ watching' = FALSE /\ timer' = FALSE
        /\ UNCHANGED <<halVars, lpm_timeout_ms, lpm_wake_deasserted, recent_activity_flag, wake, active, has_died,
                       history, aborted>>
    BY <1>6 DEF CloseStop
  <2> QED  BY <1>0, <2>1, ZenonT(40)
<1>7. CASE CloseTeardown  BY <1>0, <1>7 DEF CloseTeardown
<1>8. CASE Incoming
  <2>1. stray' = stray \/ stray' = (stray \/ Head(uart) # "stack")  BY <1>8 DEF Incoming
  <2>2. stray' \in BOOLEAN  BY <1>0, <2>1
  <2>3. UNCHANGED <<halVars, lpmVars, has_died, lost, late, watching, aborted>>  BY <1>8 DEF Incoming
  <2> QED  BY <1>0, <2>2, <2>3
<1>9. CASE TakeNext  BY <1>0, <1>9 DEF TakeNext, Transmit, Send
<1>10. CASE TakeLast \/ TakeOther  BY <1>0, <1>10 DEF TakeLast, TakeOther
<1>11. CASE Notify  BY <1>0, <1>11 DEF Notify
<1>12. CASE Configure
  <2> DEFINE ops == Sends("sco") \o Sends("lpm")
  <2>1. CASE ops = <<>>  BY <1>0, <1>12, <2>1 DEF Configure
  <2>2. CASE ops # <<>>
    BY <1>0, <1>12, <2>2 DEF Configure
  <2> QED  BY <2>1, <2>2
<1>13. CASE OnTimeout
  <2>1. CASE recent_activity_flag  BY <1>0, <1>13, <2>1 DEF OnTimeout
  <2>2. CASE ~recent_activity_flag  BY <1>0, <1>13, <2>2 DEF OnTimeout
  <2> QED  BY <2>1, <2>2
<1>14. ASSUME NEW c \in Clients, Initialize(c)  PROVE Flags'
  <2>1. late' \in BOOLEAN /\ has_died' = FALSE /\ g_vendor_interface' = TRUE
    BY <1>0, <1>14, InitializeEffect
  <2> QED  BY <1>0, <1>14, <2>1 DEF Initialize
<1>15. ASSUME NEW c \in Clients, SendData(c)  PROVE Flags'
  <2>1. CASE g_vendor_interface /\ hci  BY <1>0, <1>15, <2>1 DEF SendData, Send
  <2>2. CASE ~(g_vendor_interface /\ hci)
    <3>1. aborted' = TRUE /\ UNCHANGED <<halVars, lpmVars, has_died, history, watching>>
      BY <1>15, <2>2 DEF SendData
    <3> QED  BY <1>0, <3>1
  <2> QED  BY <2>1, <2>2
<1>16. ASSUME NEW c \in Clients, EnterShutdown(c), UNCHANGED has_died \/ has_died' = TRUE
       PROVE Flags'
  <2>1. UNCHANGED <<halVars, lpmVars, history, watching>> /\ (aborted' = TRUE \/ UNCHANGED aborted)
    BY <1>16 DEF EnterShutdown
  <2>2. has_died' \in BOOLEAN  BY <1>0, <1>16
  <2>3. aborted' \in BOOLEAN  BY <1>0, <2>1
  <2> QED  BY <1>0, <2>1, <2>2, <2>3
<1>17. ASSUME NEW c \in Clients, Die(c) \/ Restart(c)  PROVE Flags'
  BY <1>0, <1>17 DEF Die, Restart
<1> QED
  BY <1>1, <1>2, <1>3, <1>4, <1>5, <1>6, <1>7, <1>8, <1>9, <1>10, <1>11, <1>12, <1>13, <1>14,
     <1>15, <1>16, <1>17, Cases DEF Close, ServiceDied

LEMMA DataKept ==
    ASSUME IInv, Next
    PROVE  Data'
<1>0. TypeOK /\ Data /\ Objects /\ Processes /\ Due  BY TypeParts DEF IInv
<1> USE DEF halVars, lpmVars, deathVars, clientVars, history, Data
<1>1. CASE Refuse
  <2>1. binder.who \in Clients /\ answers[binder.who] = 0 /\ Answer(binder.who, "error")
    BY <1>0, <1>1 DEF Refuse, Objects, Due, Opening
  <2> QED  BY <1>0, <1>1, <2>1, AnswerEffect, IdleBinder DEF Refuse
<1>2. CASE OpenFails
  <2>1. binder.who \in Clients /\ answers[binder.who] = 0 /\ Answer(binder.who, "error")
    BY <1>0, <1>2 DEF OpenFails, Objects, Due, Opening
  <2> QED  BY <1>0, <1>2, <2>1, AnswerEffect, IdleBinder DEF OpenFails
<1>3. CASE OpenWatch
  <2>1. binder.who \in Clients  BY <1>0, <1>3 DEF OpenWatch, Objects
  <2>2. binder' \in BinderStates  BY <1>0, <1>3, BinderMoved DEF OpenWatch, BinderPcs
  <2> QED  BY <1>0, <1>3, <2>1, <2>2 DEF OpenWatch
<1>4. CASE OpenFirmware
  <2>1. <<"fw">> \in Seq(Commands) /\ "fw" \in Commands  BY DEF Commands
  <2>2. binder.who \in Clients  BY <1>0, <1>4 DEF OpenFirmware, Objects
  <2>3. fwLeft' \in 0 .. MaxFw  BY <1>4, BoundAssumption DEF OpenFirmware
  <2>5. Send(<<"fw">>) /\ internal_command' = "fw" /\ UNCHANGED lpm_timeout_ms
    BY <1>4 DEF OpenFirmware, Transmit
  <2> QED  BY <1>0, <1>4, <2>1, <2>2, <2>3, <2>5, SendTypes, IdleBinder DEF OpenFirmware
<1>5. CASE CloseLpm
  <2>1. <<"lpmoff">> \in Seq(Commands) /\ "lpmoff" \in Commands  BY DEF Commands
  <2>2. binder' \in BinderStates  BY <1>0, <1>5, BinderMoved DEF CloseLpm, BinderPcs
  <2>3. CASE lib_interface /\ hci /\ "lpmoff" \in VendorCommands
    <3>2. Send(<<"lpmoff">>) /\ internal_command' = "lpmoff" /\ UNCHANGED lpm_timeout_ms
      BY <1>5, <2>3 DEF CloseLpm, Transmit
    <3> QED  BY <1>0, <1>5, <2>1, <2>2, <3>2, SendTypes DEF CloseLpm
  <2>4. CASE ~(lib_interface /\ hci /\ "lpmoff" \in VendorCommands)
    BY <1>0, <1>5, <2>2, <2>4 DEF CloseLpm
  <2> QED  BY <2>3, <2>4
<1>6. CASE CloseStop
  <2>1. binder' \in BinderStates  BY <1>0, <1>6, BinderMoved DEF CloseStop, BinderPcs
  <2>2. uart' \in Seq(Commands)  BY <1>6 DEF CloseStop
  <2> QED  BY <1>0, <1>6, <2>1, <2>2 DEF CloseStop
<1>7. CASE CloseTeardown
  <2>1. uart' \in Seq(Commands)  BY <1>7 DEF CloseTeardown
  <2> QED  BY <1>0, <1>7, <2>1, TeardownEffect, IdleBinder DEF CloseTeardown
<1>8. CASE Incoming
  <2>1. uart' \in Seq(Commands)  BY <1>0, <1>8 DEF Incoming
  <2>2. CASE internal_command = Head(uart)
    BY <1>0, <1>8, <2>1, <2>2 DEF Incoming, WatcherPcs
  <2>3. CASE internal_command # Head(uart)
    BY <1>0, <1>8, <2>1, <2>3 DEF Incoming
  <2> QED  BY <2>2, <2>3
<1>9. CASE TakeNext
  <2>1. <<"fw">> \in Seq(Commands) /\ "fw" \in Commands  BY DEF Commands
  <2>2. fwLeft' \in 0 .. MaxFw  BY <1>0, <1>9, BoundAssumption DEF TakeNext
  <2>3. Send(<<"fw">>) /\ internal_command' = "fw" /\ UNCHANGED lpm_timeout_ms
    BY <1>9 DEF TakeNext, Transmit
  <2>4. watcher' \in WatcherPcs  BY <1>9 DEF TakeNext, WatcherPcs
  <2> QED  BY <1>0, <1>9, <2>1, <2>2, <2>3, <2>4, SendTypes DEF TakeNext
<1>10. CASE TakeLast  BY <1>0, <1>10 DEF TakeLast, WatcherPcs
<1>11. CASE TakeOther  BY <1>0, <1>11 DEF TakeOther, WatcherPcs
<1>12. CASE Notify
  <2> DEFINE c == initialize_complete_cb
  <2>1. c \in Clients /\ answers[c] = 0  BY <1>0, <1>12 DEF Notify, Objects, Due
  <2>2. PICK s \in {"ready", "error"} : Answer(c, s)  BY <1>12 DEF Notify
  <2>3. status' \in [Clients -> Statuses] /\ answers' \in [Clients -> 0 .. 1]
    BY <1>0, <2>1, <2>2, AnswerEffect
  <2> QED  BY <1>0, <1>12, <2>3 DEF Notify, WatcherPcs
<1>13. CASE Configure
  <2> DEFINE ops == Sends("sco") \o Sends("lpm")
  <2>1. ops \in Seq(Commands) /\ (ops # <<>> => ops[Len(ops)] \in Commands)  BY ConfigureOps
  <2>2. CASE ops = <<>>  BY <1>0, <1>13, <2>2 DEF Configure, WatcherPcs
  <2>3. CASE ops # <<>>
    <3>2. /\ uart' = uart \o ops /\ internal_command' = ops[Len(ops)]
      BY <1>13, <2>3 DEF Configure
    <3> HIDE DEF ops
    <3>3. uart' \in Seq(Commands) /\ internal_command' \in Commands  BY <1>0, <2>1, <2>3, <3>2
    <3> QED  BY <1>0, <1>13, <2>3, <3>3 DEF Configure, WatcherPcs, ops
  <2> QED  BY <2>2, <2>3
<1>14. CASE OnTimeout  BY <1>0, <1>14 DEF OnTimeout
<1>15. ASSUME NEW c \in Clients, Initialize(c)  PROVE Data'
  BY <1>0, <1>15, InitializeEffect
<1>16. ASSUME NEW c \in Clients, SendData(c)  PROVE Data'
  <2>1. <<"stack">> \in Seq(Commands)  BY DEF Commands
  <2>2. packets' \in 0 .. MaxPackets  BY <1>0, <1>16, BoundAssumption DEF SendData
  <2>3. CASE g_vendor_interface /\ hci
    BY <1>0, <1>16, <2>1, <2>2, <2>3, SendTypes DEF SendData
  <2>4. CASE ~(g_vendor_interface /\ hci)
    BY <1>0, <1>16, <2>2, <2>4 DEF SendData
  <2> QED  BY <2>3, <2>4
<1>17. ASSUME NEW c \in Clients, Close(c)  PROVE Data'
  BY <1>0, <1>17, CloseEffect, ShutdownEffect
<1>18. ASSUME NEW c \in Clients, ServiceDied(c)  PROVE Data'
  BY <1>0, <1>18, DiedEffect, ShutdownEffect
<1>19. ASSUME NEW c \in Clients, Die(c) \/ Restart(c)  PROVE Data'
  BY <1>0, <1>19, DieEffect
<1> QED
  BY <1>1, <1>2, <1>3, <1>4, <1>5, <1>6, <1>7, <1>8, <1>9, <1>10, <1>11, <1>12, <1>13, <1>14,
     <1>15, <1>16, <1>17, <1>18, <1>19, Cases

LEMMA TypeKeeps ==
    ASSUME IInv, Next
    PROVE  TypeOK'
<1>1. (TypeOK <=> Flags /\ Data)'  BY TypeParts, PTL
<1> QED  BY <1>1, FlagsKept, DataKept

LEMMA ObjectsKeeps ==
    ASSUME IInv, Next
    PROVE  Objects'
<1>0. TypeOK /\ Objects /\ Processes  BY DEF IInv
<1> USE DEF halVars, lpmVars, deathVars, clientVars, history, Objects
<1>1. CASE Refuse  BY <1>0, <1>1, IdleBinder DEF Refuse
<1>2. CASE OpenFails  BY <1>0, <1>2, IdleBinder DEF OpenFails
<1>3. CASE OpenWatch
  <2>1. binder.pc = "open" /\ binder'.pc = "firmware" /\ binder'.who = binder.who
    BY <1>0, <1>3, BinderMoved DEF OpenWatch, BinderPcs
  <2> QED  BY <1>0, <1>3, <2>1 DEF OpenWatch
<1>4. CASE OpenFirmware  BY <1>0, <1>4, IdleBinder DEF OpenFirmware, Transmit
<1>5. CASE CloseLpm
  <2>1. binder.pc = "lpmoff" /\ binder'.pc = "stop" /\ binder'.who = binder.who
    BY <1>0, <1>5, BinderMoved DEF CloseLpm, BinderPcs
  <2>2. ~watching => UNCHANGED uart
    BY <1>0, <1>5, <2>1 DEF CloseLpm
  <2> QED  BY <1>0, <1>5, <2>1, <2>2 DEF CloseLpm
<1>6. CASE CloseStop
  <2>1. binder.pc = "stop" /\ binder'.pc = "teardown" /\ binder'.who = binder.who
    BY <1>0, <1>6, BinderMoved DEF CloseStop, BinderPcs
  <2> QED  BY <1>0, <1>6, <2>1 DEF CloseStop
<1>7. CASE CloseTeardown  BY <1>0, <1>7, IdleBinder DEF CloseTeardown
<1>8. CASE Incoming  BY <1>0, <1>8 DEF Incoming
<1>9. CASE TakeNext
  <2>1. binder.pc # "firmware" /\ watching  BY <1>0, <1>9 DEF TakeNext
  <2> QED  BY <1>0, <1>9, <2>1 DEF TakeNext
<1>10. CASE TakeLast \/ TakeOther  BY <1>0, <1>10 DEF TakeLast, TakeOther
<1>11. CASE Notify  BY <1>0, <1>11 DEF Notify
<1>12. CASE Configure
  <2>1. binder.pc # "firmware" /\ watching  BY <1>0, <1>12 DEF Configure
  <2> QED  BY <1>0, <1>12, <2>1 DEF Configure
<1>13. CASE OnTimeout  BY <1>0, <1>13 DEF OnTimeout
<1>14. ASSUME NEW c \in Clients, Initialize(c)  PROVE Objects'
  BY <1>0, <1>14, InitializeEffect
<1>15. ASSUME NEW c \in Clients, SendData(c)  PROVE Objects'
  <2>1. binder.pc = "idle" /\ (hci => watching) /\ (~hci => UNCHANGED uart)
    BY <1>0, <1>15 DEF SendData
  <2> QED  BY <1>0, <1>15, <2>1 DEF SendData
<1>16. ASSUME NEW c \in Clients, EnterShutdown(c), binder.pc = "idle"  PROVE Objects'
  BY <1>0, <1>16, ShutdownEffect
<1>17. ASSUME NEW c \in Clients, Die(c) \/ Restart(c)  PROVE Objects'
  BY <1>0, <1>17 DEF Die, Restart
<1> QED
  BY <1>1, <1>2, <1>3, <1>4, <1>5, <1>6, <1>7, <1>8, <1>9, <1>10, <1>11, <1>12, <1>13, <1>14,
     <1>15, <1>16, <1>17, Cases DEF Close, ServiceDied

LEMMA LineKeeps ==
    ASSUME IInv, Next
    PROVE  Line'
<1>0. Flags /\ TypeOK /\ Objects /\ Processes /\ Line  BY TypeParts DEF IInv
<1> USE DEF halVars, lpmVars, deathVars, clientVars, history
<1>a. ASSUME NEW cmds, Send(cmds), g_vendor_interface, watching, binder'.pc # "open",
             UNCHANGED <<g_vendor_interface, watching, lpm_timeout_ms, initialize_complete_cb>>,
             watcher # "configure" \/ watcher' = "configure"
      PROVE  Line'
  <2>1. /\ recent_activity_flag' = TRUE /\ lpm_wake_deasserted' = FALSE
        /\ lpm_wake_deasserted => timer' = lpm_timeout_ms
        /\ ~lpm_wake_deasserted => timer' = timer
    BY <1>a DEF Send
  <2>2. wake' = TRUE  BY <1>0, <1>a DEF Send, Line, Flags
  <2>3. ASSUME initialize_complete_cb = NoClient, watcher' # "configure"
        PROVE  lpm_timeout_ms' /\ timer'
    <3>1. lpm_timeout_ms /\ (wake => timer) /\ (~lpm_wake_deasserted => wake)
      BY <1>0, <1>a, <2>3 DEF Line
    <3> QED  BY <1>a, <2>1, <3>1
  <2>4. wake' = ~lpm_wake_deasserted'  BY <2>1, <2>2
  <2> QED  BY <1>a, <2>1, <2>3, <2>4 DEF Line
<1>1. CASE Refuse  BY <1>0, <1>1, IdleBinder DEF Refuse, Objects, Line
<1>2. CASE OpenFails  BY <1>0, <1>2, IdleBinder DEF OpenFails, Objects, Line
<1>3. CASE OpenWatch
  <2>1. binder.pc = "open" /\ binder'.pc = "firmware"
    BY <1>0, <1>3, BinderMoved DEF OpenWatch, BinderPcs
  <2>2. binder.who \in Clients /\ initialize_complete_cb' # NoClient /\ g_vendor_interface
    BY <1>0, <1>3, <2>1, ClientAssumption DEF OpenWatch, Objects
  <2>3. wake = FALSE /\ wake' = FALSE /\ lpm_wake_deasserted' = TRUE
    BY <1>0, <1>3, <2>1 DEF OpenWatch, Line, Flags
  <2> QED  BY <1>0, <1>3, <2>1, <2>2, <2>3 DEF OpenWatch, Line
<1>4. CASE OpenFirmware
  <2>1. /\ Send(<<"fw">>) /\ binder'.pc # "open"
        /\ UNCHANGED <<g_vendor_interface, watching, lpm_timeout_ms, initialize_complete_cb, watcher>>
    BY <1>4, IdleBinder DEF OpenFirmware, Transmit
  <2> QED  BY <1>0, <1>4, <1>a, <2>1 DEF OpenFirmware, Objects
<1>5. CASE CloseLpm
  <2>1. binder.pc = "lpmoff" /\ binder'.pc = "stop"
    BY <1>0, <1>5, BinderMoved DEF CloseLpm, BinderPcs
  <2>2. CASE lib_interface /\ hci /\ "lpmoff" \in VendorCommands
    <3>1. /\ Send(<<"lpmoff">>)
          /\ UNCHANGED <<g_vendor_interface, watching, lpm_timeout_ms, initialize_complete_cb, watcher>>
      BY <1>5, <2>2 DEF CloseLpm, Transmit
    <3> QED  BY <1>0, <1>a, <2>1, <2>2, <3>1 DEF Objects
  <2>3. CASE ~(lib_interface /\ hci /\ "lpmoff" \in VendorCommands)
    BY <1>0, <1>5, <2>1, <2>3 DEF CloseLpm, Line
  <2> QED  BY <2>2, <2>3
<1>6. CASE CloseStop
  <2>1. binder.pc = "stop" /\ binder'.pc = "teardown"
    BY <1>0, <1>6, BinderMoved DEF CloseStop, BinderPcs
  <2> QED  BY <1>0, <1>6, <2>1 DEF CloseStop, Line
<1>7. CASE CloseTeardown  BY <1>0, <1>7, IdleBinder DEF CloseTeardown, Line
<1>8. CASE Incoming  BY <1>0, <1>8 DEF Incoming, Line
<1>9. CASE TakeNext
  <2>1. /\ Send(<<"fw">>) /\ watching /\ g_vendor_interface
        /\ UNCHANGED <<g_vendor_interface, watching, lpm_timeout_ms, initialize_complete_cb, binder>>
    BY <1>0, <1>9 DEF TakeNext, Transmit, Objects
  <2>2. binder.pc # "open" /\ watcher # "configure"  BY <1>0, <1>9, <2>1 DEF TakeNext, Objects
  <2> QED  BY <1>0, <1>a, <2>1, <2>2
<1>10. CASE TakeLast \/ TakeOther  BY <1>0, <1>10 DEF TakeLast, TakeOther, Line
<1>11. CASE Notify  BY <1>0, <1>11 DEF Notify, Line
<1>12. CASE Configure
  <2>1. watching /\ g_vendor_interface /\ binder.pc # "open"  BY <1>0, <1>12 DEF Configure, Objects
  <2>2. /\ timer' = TRUE /\ lpm_timeout_ms' = TRUE
        /\ UNCHANGED <<g_vendor_interface, binder, watching>>
    BY <1>12 DEF Configure
  <2> DEFINE ops == Sends("sco") \o Sends("lpm")
  <2>3. CASE ops = <<>>
    BY <1>0, <1>12, <2>1, <2>2, <2>3 DEF Configure, Line
  <2>4. CASE ops # <<>>
    <3>1. /\ recent_activity_flag' = TRUE /\ lpm_wake_deasserted' = FALSE
          /\ wake' = (wake \/ lpm_wake_deasserted)
      BY <1>12, <2>4 DEF Configure
    <3>2. wake' = TRUE  BY <1>0, <2>1, <3>1 DEF Line, Flags
    <3> QED  BY <2>1, <2>2, <3>1, <3>2 DEF Line
  <2> QED  BY <2>3, <2>4
<1>13. CASE OnTimeout
  <2>1. CASE recent_activity_flag
    BY <1>0, <1>13, <2>1 DEF OnTimeout, Line
  <2>2. CASE ~recent_activity_flag
    BY <1>0, <1>13, <2>2 DEF OnTimeout, Line
  <2> QED  BY <2>1, <2>2
<1>14. ASSUME NEW c \in Clients, Initialize(c)  PROVE Line'
  <2>1. /\ g_vendor_interface' = TRUE
        /\ ~g_vendor_interface <=> binder'.pc = "open"
        /\ UNCHANGED <<lpmVars, watching, initialize_complete_cb, watcher>>
    BY <1>0, <1>14, InitializeEffect
  <2> QED  BY <1>0, <2>1 DEF Line
<1>15. ASSUME NEW c \in Clients, SendData(c)  PROVE Line'
  <2>1. CASE g_vendor_interface /\ hci
    <3>1. /\ Send(<<"stack">>) /\ binder.pc = "idle"
          /\ UNCHANGED <<g_vendor_interface, watching, lpm_timeout_ms, initialize_complete_cb,
                         watcher, binder>>
      BY <1>15, <2>1 DEF SendData
    <3> QED  BY <1>0, <1>a, <2>1, <3>1 DEF Objects
  <2>2. CASE ~(g_vendor_interface /\ hci)
    BY <1>0, <1>15, <2>2 DEF SendData, Line
  <2> QED  BY <2>1, <2>2
<1>16. ASSUME NEW c \in Clients, EnterShutdown(c), binder.pc = "idle"  PROVE Line'
  <2>1. binder'.pc # "open" /\ UNCHANGED <<halVars, lpmVars, watching, watcher>>
    BY <1>0, <1>16, ShutdownEffect
  <2> QED  BY <1>0, <2>1 DEF Line
<1>17. ASSUME NEW c \in Clients, Die(c) \/ Restart(c)  PROVE Line'
  BY <1>0, <1>17 DEF Die, Restart, Line
<1> QED
  BY <1>1, <1>2, <1>3, <1>4, <1>5, <1>6, <1>7, <1>8, <1>9, <1>10, <1>11, <1>12, <1>13, <1>14,
     <1>15, <1>16, <1>17, Cases DEF Close, ServiceDied

LEMMA SlotKeeps ==
    ASSUME IInv, Next
    PROVE  Slot'
<1>0. TypeOK /\ Objects /\ Slot  BY DEF IInv
<1> USE DEF halVars, lpmVars, deathVars, clientVars, history
<1>u. \A i \in DOMAIN uart : uart[i] \in Commands /\ uart[i] # NoCommand
  <2>1. uart \in Seq(Commands)  BY <1>0 DEF TypeOK
  <2> QED  BY <2>1 DEF Commands, NoCommand
(* One more internal command, when none is left to be answered. *)
<1>a. ASSUME NEW op \in Commands, op # "stack", uart' = uart \o <<op>>, internal_command' = op,
             ~lost' => ~lost /\ \A i \in DOMAIN uart : uart[i] = "stack",
             watcher' # "take", stray' => lost'
      PROVE  Slot'
  <2>1. PICK n : /\ DOMAIN uart' = DOMAIN uart \cup {n} /\ uart'[n] = op
                 /\ \A i \in DOMAIN uart : uart'[i] = uart[i] /\ i # n
    BY <1>0, <1>a, UartLonger
  <2> QED  BY <1>a, <2>1 DEF Slot
<1>b. ASSUME ~lost, ~Unanswered  PROVE \A i \in DOMAIN uart : uart[i] = "stack"
  BY <1>0, <1>u, <1>b DEF Slot, Unanswered
<1>c. CASE UNCHANGED <<internal_command, watcher, uart, stray, lost>>
  BY <1>0, <1>c DEF Slot
<1>d. CASE uart' = <<>> /\ watcher = "idle" /\ UNCHANGED <<watcher, stray, lost>>
  <2>1. DOMAIN uart' = {}  BY <1>d
  <2> QED  BY <1>0, <1>d, <2>1 DEF Slot
<1>1. CASE OpenFirmware
  <2>1. /\ uart' = uart \o <<"fw">> /\ internal_command' = "fw" /\ UNCHANGED <<watcher, stray>>
        /\ lost' = (lost \/ Unanswered) /\ binder.pc = "firmware"
    BY <1>1 DEF OpenFirmware, Transmit, Send
  <2>2. watcher # "take"  BY <1>0, <2>1 DEF Objects
  <2>3. ~lost' => ~lost /\ ~Unanswered  BY <2>1
  <2>4. "fw" \in Commands  BY DEF Commands
  <2>5. stray' => lost'  BY <1>0, <2>1 DEF Slot
  <2> QED  BY <1>a, <1>b, <2>1, <2>2, <2>3, <2>4, <2>5
<1>2. CASE CloseLpm
  <2>1. CASE lib_interface /\ hci /\ "lpmoff" \in VendorCommands
    <3>1. /\ uart' = uart \o <<"lpmoff">> /\ internal_command' = "lpmoff"
          /\ UNCHANGED <<watcher, stray>> /\ lost' = (lost \/ Unanswered)
      BY <1>2, <2>1 DEF CloseLpm, Transmit, Send
    <3>2. ~lost' => ~lost /\ ~Unanswered  BY <3>1
    <3>3. "lpmoff" \in Commands /\ "lpmoff" # NoCommand  BY DEF Commands, NoCommand
    <3>4. stray' => lost'  BY <1>0, <3>1 DEF Slot
    <3>5. CASE watcher # "take"
      BY <1>a, <1>b, <3>1, <3>2, <3>3, <3>4, <3>5
    <3>6. CASE watcher = "take"
      <4>1. Unanswered  BY <1>0, <3>6 DEF Slot, Unanswered
      <4> QED  BY <3>1, <3>3, <3>4, <4>1 DEF Slot
    <3> QED  BY <3>5, <3>6
  <2>2. CASE ~(lib_interface /\ hci /\ "lpmoff" \in VendorCommands)
    BY <1>2, <1>c, <2>2 DEF CloseLpm
  <2> QED  BY <2>1, <2>2
<1>3. CASE CloseStop  BY <1>3, <1>d DEF CloseStop
<1>4. CASE CloseTeardown  BY <1>0, <1>4, <1>d DEF CloseTeardown, Objects
<1>5. CASE Incoming
  <2>1. /\ uart # <<>> /\ uart' = Tail(uart) /\ UNCHANGED <<internal_command, lost>>
        /\ internal_command = Head(uart) => watcher' = "take" /\ UNCHANGED stray
        /\ internal_command # Head(uart) =>
             /\ UNCHANGED watcher /\ watcher = "idle"
             /\ stray' = (stray \/ Head(uart) # "stack")
    BY <1>5 DEF Incoming
  <2>2. /\ 1 \in DOMAIN uart /\ Head(uart) = uart[1]
        /\ \A i \in DOMAIN uart' : i + 1 \in DOMAIN uart /\ i + 1 # 1 /\ uart'[i] = uart[i + 1]
    <3>1. uart \in Seq(Commands)  BY <1>0 DEF TypeOK
    <3> QED  BY <2>1, <3>1
  <2>3. CASE internal_command = Head(uart)
    <3>1. stray' => lost'  BY <1>0, <2>1, <2>3 DEF Slot
    <3>2. internal_command' # NoCommand  BY <1>u, <2>1, <2>2, <2>3
    <3>3. ASSUME ~lost', NEW i \in DOMAIN uart'
          PROVE  uart'[i] # "stack" => uart'[i] = internal_command'
      BY <1>0, <2>1, <2>2, <3>3 DEF Slot
    <3>4. ASSUME ~lost', NEW i \in DOMAIN uart', NEW j \in DOMAIN uart',
                 uart'[i] # "stack", uart'[j] # "stack"
          PROVE  i = j
      <4>1. i + 1 = j + 1  BY <1>0, <2>1, <2>2, <3>4 DEF Slot
      <4>2. i \in Nat /\ j \in Nat
        <5>1. uart' \in Seq(Commands)  BY <1>0, <2>1 DEF TypeOK
        <5> QED  BY <5>1
      <4> QED  BY <4>1, <4>2
    <3>5. ASSUME ~lost', NEW i \in DOMAIN uart'  PROVE uart'[i] = "stack"
      <4>1. CASE Head(uart) = "stack"
        <5>1. uart'[i] # "stack" => uart'[i] = "stack"  BY <3>3, <3>5, <2>1, <2>3, <4>1
        <5> QED  BY <5>1
      <4>2. CASE Head(uart) # "stack"  BY <1>0, <2>1, <2>2, <3>5, <4>2 DEF Slot
      <4> QED  BY <4>1, <4>2
    <3> QED  BY <3>1, <3>2, <3>3, <3>4, <3>5 DEF Slot
  <2>4. CASE internal_command # Head(uart)
    <3>1. ~lost => Head(uart) = "stack"  BY <1>0, <2>2, <2>4 DEF Slot
    <3>2. stray' => lost'  BY <1>0, <2>1, <2>4, <3>1 DEF Slot
    <3>3. ASSUME ~lost', NEW i \in DOMAIN uart'
          PROVE  uart'[i] # "stack" => uart'[i] = internal_command'
      BY <1>0, <2>1, <2>2, <3>3 DEF Slot
    <3>4. ASSUME ~lost', NEW i \in DOMAIN uart', NEW j \in DOMAIN uart',
                 uart'[i] # "stack", uart'[j] # "stack"
          PROVE  i = j
      <4>1. i + 1 = j + 1  BY <1>0, <2>1, <2>2, <3>4 DEF Slot
      <4>2. i \in Nat /\ j \in Nat
        <5>1. uart' \in Seq(Commands)  BY <1>0, <2>1 DEF TypeOK
        <5> QED  BY <5>1
      <4> QED  BY <4>1, <4>2
    <3> QED  BY <2>1, <2>4, <3>2, <3>3, <3>4 DEF Slot
  <2> QED  BY <2>3, <2>4
<1>6. CASE TakeNext
  <2>1. /\ uart' = uart \o <<"fw">> /\ internal_command' = "fw" /\ UNCHANGED <<lost, stray>>
        /\ watcher = "take" /\ watcher' = "idle"
    BY <1>6 DEF TakeNext, Transmit, Send
  <2>2. "fw" \in Commands  BY DEF Commands
  <2>3. ~lost => \A i \in DOMAIN uart : uart[i] = "stack"  BY <1>0, <2>1 DEF Slot
  <2>4. stray' => lost'  BY <1>0, <2>1 DEF Slot
  <2> QED  BY <1>a, <2>1, <2>2, <2>3, <2>4
<1>7. CASE TakeLast \/ TakeOther
  <2>1. watcher = "take" /\ watcher' # "take" /\ UNCHANGED <<uart, stray, lost>>
    BY <1>7 DEF TakeLast, TakeOther
  <2> QED  BY <1>0, <2>1 DEF Slot
<1>8. CASE Notify
  <2>1. watcher # "take" /\ watcher' # "take" /\ UNCHANGED <<internal_command, uart, stray, lost>>
    BY <1>8 DEF Notify
  <2> QED  BY <1>0, <2>1 DEF Slot
<1>9. CASE Configure
  <2> DEFINE ops == Sends("sco") \o Sends("lpm")
  <2>1. watcher = "configure" /\ watcher' = "idle" /\ UNCHANGED stray  BY <1>9 DEF Configure
  <2>2. CASE ops = <<>>
    <3>1. UNCHANGED <<internal_command, uart, lost>>  BY <1>9, <2>2 DEF Configure
    <3> QED  BY <1>0, <2>1, <3>1 DEF Slot
  <2>3. CASE ops # <<>>
    <3>1. /\ internal_command' = ops[Len(ops)] /\ uart' = uart \o ops
          /\ lost' = (lost \/ Unanswered \/ Len(ops) > 1)
      BY <1>9, <2>3 DEF Configure
    <3>2. ~lost' => ~lost /\ ~Unanswered /\ ~(Len(ops) > 1)  BY <3>1
    <3>3. stray' => lost'  BY <1>0, <2>1, <3>1 DEF Slot
    <3>4. CASE lost'  BY <2>1, <3>3, <3>4 DEF Slot
    <3>5. CASE ~lost'
      <4>1. PICK op \in Commands : ops = <<op>> /\ ops[Len(ops)] = op
        BY <2>3, <3>2, <3>5, ConfigureOps
      <4>2. op # "stack"  BY <4>1 DEF Sends
      <4> HIDE DEF ops
      <4> QED  BY <1>a, <1>b, <2>1, <3>1, <3>2, <3>3, <4>1, <4>2
    <3> QED  BY <3>4, <3>5
  <2> QED  BY <2>2, <2>3
<1>10. ASSUME NEW c \in Clients, SendData(c)  PROVE Slot'
  <2>1. UNCHANGED <<internal_command, watcher, stray, lost>>  BY <1>10 DEF SendData
  <2>2. CASE g_vendor_interface /\ hci
    <3>1. uart' = uart \o <<"stack">> /\ "stack" \in Commands
      BY <1>10, <2>2 DEF SendData, Send, Commands
    <3>2. PICK n : /\ DOMAIN uart' = DOMAIN uart \cup {n} /\ uart'[n] = "stack"
                   /\ \A i \in DOMAIN uart : uart'[i] = uart[i] /\ i # n
      BY <1>0, <3>1, UartLonger
    <3> QED  BY <1>0, <2>1, <3>2 DEF Slot
  <2>3. CASE ~(g_vendor_interface /\ hci)
    <3>1. UNCHANGED uart  BY <1>10, <2>3 DEF SendData
    <3> QED  BY <1>c, <2>1, <3>1
  <2> QED  BY <2>2, <2>3
<1>11. CASE Refuse \/ OpenFails \/ OpenWatch \/ OnTimeout
  BY <1>11, <1>c DEF Refuse, OpenFails, OpenWatch, OnTimeout
<1>12. ASSUME NEW c \in Clients, Initialize(c) \/ Close(c) \/ ServiceDied(c) \/ Die(c) \/ Restart(c)
       PROVE  Slot'
  BY <1>12, <1>c DEF Initialize, Close, ServiceDied, EnterShutdown, Die, Restart
<1> QED
  BY <1>1, <1>2, <1>3, <1>4, <1>5, <1>6, <1>7, <1>8, <1>9, <1>10, <1>11, <1>12, Cases

LEMMA ProcessesKeeps ==
    ASSUME IInv, Next
    PROVE  Processes'
<1>0. Data /\ TypeOK /\ Objects /\ Processes /\ Due  BY TypeParts DEF IInv
<1> USE DEF halVars, lpmVars, deathVars, clientVars, history, Opening, Closing
<1>1. CASE Refuse \/ OpenFails
  <2> DEFINE w == binder.who
  <2>1. /\ w \in Clients /\ answers[w] = 0 /\ Answer(w, "error") /\ binder.pc \in Opening
        /\ binder'.pc = "idle" /\ unlink_cb' = w
        /\ initialize_complete_cb' = initialize_complete_cb \/ initialize_complete_cb' = w
        /\ UNCHANGED <<event_cb, links, has_died, aborted, g_vendor_interface>>
    BY <1>0, <1>1, IdleBinder DEF Refuse, OpenFails, Objects, Due
  <2>2. /\ status[w] = "waiting" => status'[w] = "error"
        /\ status[w] # "waiting" => status'[w] = status[w]
        /\ \A d \in Clients : d # w => status'[d] = status[d]
    BY <1>0, <2>1, AnswerEffect
  <2>3. status[w] \in {"waiting", "dead"} /\ ~has_died  BY <1>0, <2>1 DEF Processes
  <2>4. \A c \in Clients : Alive(c) => c = w  BY <1>0, <2>1 DEF Processes, Last
  <2>5. \A c \in Clients : Alive(c)' => c = w  BY <2>2, <2>4 DEF Alive
  <2>6. \A c \in Clients : status'[c] \in {"new", "closed"} =>
           links'[c] = 0 /\ initialize_complete_cb' # c /\ event_cb' # c
    BY <1>0, <2>1, <2>2, <2>3 DEF Processes
  <2> QED  BY <2>1, <2>3, <2>5, <2>6 DEF Processes, Last
<1>2. CASE OpenWatch
  <2>1. /\ binder.pc = "open" /\ binder'.pc = "firmware" /\ binder'.who = binder.who
        /\ initialize_complete_cb' = binder.who /\ event_cb' = binder.who
        /\ UNCHANGED <<status, links, has_died, aborted, g_vendor_interface>>
    BY <1>0, <1>2, BinderMoved DEF OpenWatch, BinderPcs
  <2> QED  BY <1>0, <2>1 DEF Processes, Last, Alive
<1>3. CASE OpenFirmware
  <2>1. /\ binder.pc = "firmware" /\ binder'.pc = "idle" /\ unlink_cb' = binder.who
        /\ UNCHANGED <<status, links, has_died, aborted, halVars>>
    BY <1>3, IdleBinder DEF OpenFirmware
  <2> QED  BY <1>0, <2>1 DEF Processes, Last, Alive
<1>4. CASE CloseLpm \/ CloseStop
  <2>1. binder.pc \in Closing /\ binder'.pc \in Closing /\ binder'.who = binder.who
    BY <1>0, <1>4, BinderMoved DEF CloseLpm, CloseStop, BinderPcs
  <2>2. UNCHANGED <<status, links, unlink_cb, has_died, aborted, halVars>>
    BY <1>4 DEF CloseLpm, CloseStop
  <2> QED  BY <1>0, <2>1, <2>2 DEF Processes, Last, Alive
<1>5. CASE CloseTeardown
  <2> DEFINE w == binder.who
  <2>1. /\ binder.pc = "teardown" /\ w \in Clients /\ binder'.pc = "idle"
        /\ status[w] = "closing" => status'[w] = "closed"
        /\ status[w] # "closing" => status'[w] = status[w]
        /\ \A d \in Clients : d # w => status'[d] = status[d]
    BY <1>0, <1>5, TeardownEffect, IdleBinder
  <2>2. /\ initialize_complete_cb' = NoClient /\ event_cb' = NoClient /\ g_vendor_interface' = FALSE
        /\ UNCHANGED <<links, unlink_cb, has_died, aborted>>
    BY <1>5 DEF CloseTeardown
  <2>3. \A c \in Clients : Alive(c)' => Alive(c)  BY <2>1 DEF Alive
  <2>4. \A c \in Clients : Alive(c)' => c = unlink_cb  BY <1>0, <2>1, <2>3 DEF Processes, Last
  <2>5. \A c \in Clients : status'[c] \in {"new", "closed"} => links'[c] = 0
    BY <1>0, <2>1, <2>2 DEF Processes
  <2> QED  BY <2>1, <2>2, <2>4, <2>5, ClientAssumption DEF Processes, Last
<1>6. CASE Notify
  <2> DEFINE w == initialize_complete_cb
  <2>1. /\ w \in Clients /\ answers[w] = 0
        /\ initialize_complete_cb' = NoClient
        /\ UNCHANGED <<event_cb, deathVars, aborted, g_vendor_interface, binder>>
    BY <1>0, <1>6 DEF Notify, Objects, Due, Data
  <2>2. PICK s \in {"ready", "error"} : Answer(w, s)  BY <1>6 DEF Notify
  <2>3. /\ status[w] = "waiting" => status'[w] = s
        /\ status[w] # "waiting" => status'[w] = status[w]
        /\ \A d \in Clients : d # w => status'[d] = status[d]
    BY <1>0, <2>1, <2>2, AnswerEffect
  <2>4. \A c \in Clients : Alive(c)' => Alive(c)  BY <2>3 DEF Alive
  <2>5. \A c \in Clients : Alive(c)' => c = Last'  BY <1>0, <2>1, <2>4 DEF Processes, Last
  <2>6. \A c \in Clients : status'[c] \in {"new", "closed"} =>
           links'[c] = 0 /\ initialize_complete_cb' # c /\ event_cb' # c
    BY <1>0, <2>1, <2>3, ClientAssumption DEF Processes
  <2>7. binder.pc \in Opening => binder.who # w
    BY <1>0, <1>6 DEF Notify, Due, Objects
  <2>8. binder.pc # "idle" => binder.who \in Clients  BY <1>0 DEF Objects
  <2>9. binder'.pc \in Opening => status'[binder'.who] \in {"waiting", "dead"}
    BY <1>0, <2>1, <2>3, <2>7, <2>8 DEF Processes
  <2>10. binder'.pc \in Closing /\ status'[binder'.who] = "closing" => links'[binder'.who] = 0
    BY <1>0, <2>1, <2>3, <2>8 DEF Processes
  <2> QED  BY <1>0, <2>1, <2>5, <2>6, <2>9, <2>10 DEF Processes
<1>7. ASSUME NEW c \in Clients, Initialize(c)  PROVE Processes'
  <2>1. /\ binder'.pc \in Opening /\ binder'.who = c
    BY <1>0, <1>7, InitializeEffect
  <2>2. /\ \A d \in Clients : d # c => ~Alive(d)
        /\ status'[c] = "waiting" /\ \A d \in Clients : d # c => status'[d] = status[d]
        /\ \A d \in Clients : d # c => links'[d] = links[d]
        /\ has_died' = FALSE /\ UNCHANGED <<initialize_complete_cb, event_cb>>
    BY <1>0, <1>7, InitializeEffect
  <2>3. \A d \in Clients : Alive(d)' => d = c  BY <2>2 DEF Alive
  <2> QED  BY <1>0, <2>1, <2>2, <2>3 DEF Processes, Last
<1>8. ASSUME NEW c \in Clients, Close(c)  PROVE Processes'
  <2>1. /\ binder.pc = "idle" /\ status'[c] = "closing" /\ status[c] \in {"waiting", "ready"}
        /\ \A d \in Clients : d # c => status'[d] = status[d]
        /\ c = unlink_cb /\ (has_died => ~g_vendor_interface) /\ (~has_died => links'[c] = 0)
        /\ \A d \in Clients : d # c => links'[d] = links[d]
        /\ UNCHANGED has_died
    BY <1>0, <1>8, CloseEffect
  <2>2. /\ g_vendor_interface => binder'.pc = "lpmoff" /\ binder'.who = c
        /\ ~g_vendor_interface => aborted' /\ binder' = binder
        /\ UNCHANGED <<halVars, unlink_cb>>
    BY <1>0, <1>8, CloseEffect, ShutdownEffect
  <2>3. \A d \in Clients : Alive(d)' => Alive(d)  BY <2>1 DEF Alive
  <2>4. \A d \in Clients : Alive(d)' => d = Last'  BY <1>0, <2>1, <2>2, <2>3 DEF Processes, Last
  <2> QED  BY <1>0, <2>1, <2>2, <2>4 DEF Processes
<1>9. ASSUME NEW c \in Clients, ServiceDied(c)  PROVE Processes'
  <2>1. /\ binder.pc = "idle" /\ status[c] = "dead" /\ links'[c] = 0
        /\ \A d \in Clients : d # c => links'[d] = links[d]
        /\ UNCHANGED status
    BY <1>0, <1>9, DiedEffect
  <2>2. /\ g_vendor_interface => binder'.pc = "lpmoff" /\ binder'.who = c
        /\ ~g_vendor_interface => aborted' /\ binder' = binder
        /\ UNCHANGED <<halVars, unlink_cb>>
    BY <1>0, <1>9, DiedEffect, ShutdownEffect
  <2> QED  BY <1>0, <2>1, <2>2 DEF Processes, Last, Alive
<1>10. ASSUME NEW c \in Clients, Die(c) \/ Restart(c)  PROVE Processes'
  <2>1. /\ \A d \in Clients : d # c => status'[d] = status[d]
        /\ \/ status'[c] = "dead"
           \/ /\ status'[c] = "new" /\ links[c] = 0 /\ binder.who # c
              /\ initialize_complete_cb # c /\ event_cb # c
        /\ UNCHANGED <<halVars, deathVars, binder, aborted>>
    BY <1>0, <1>10, DieEffect
  <2>2. \A d \in Clients : Alive(d)' => Alive(d)  BY <2>1 DEF Alive
  <2>3. binder.pc # "idle" => binder.who \in Clients  BY <1>0 DEF Objects
  <2> QED  BY <1>0, <2>1, <2>2, <2>3 DEF Processes, Last
<1>11. CASE UNCHANGED <<halVars, deathVars, status, binder>> /\ (aborted => aborted')
  BY <1>0, <1>11 DEF Processes, Last, Alive
<1>12. CASE Incoming \/ TakeNext \/ TakeLast \/ TakeOther \/ Configure \/ OnTimeout
  BY <1>11, <1>12 DEF Incoming, TakeNext, TakeLast, TakeOther, Configure, OnTimeout
<1>13. ASSUME NEW c \in Clients, SendData(c)  PROVE Processes'
  BY <1>11, <1>13 DEF SendData
<1> QED
  BY <1>1, <1>2, <1>3, <1>4, <1>5, <1>6, <1>7, <1>8, <1>9, <1>10, <1>12, <1>13, Cases

LEMMA DueKeeps ==
    ASSUME IInv, Next
    PROVE  Due'
<1>0. Data /\ TypeOK /\ Objects /\ Processes /\ Due  BY TypeParts DEF IInv
<1> USE DEF halVars, lpmVars, deathVars, clientVars, history, Opening, Closing
<1>1. CASE Refuse
  <2> DEFINE w == binder.who
  <2>1. /\ w \in Clients /\ answers[w] = 0 /\ Answer(w, "error") /\ binder.pc = "refuse"
        /\ binder'.pc = "idle" /\ UNCHANGED <<watching, initialize_complete_cb, event_cb>>
    BY <1>0, <1>1, IdleBinder DEF Refuse, Objects, Due
  <2>2. \A d \in Clients : d # w => answers'[d] = answers[d]
    BY <1>0, <2>1, AnswerEffect
  <2>3. initialize_complete_cb \in Clients \cup {NoClient}  BY <1>0 DEF Data
  <2> QED  BY <1>0, <2>1, <2>2, <2>3 DEF Due
<1>2. CASE OpenFails
  BY <1>0, <1>2, IdleBinder DEF OpenFails, Objects, Due
<1>3. CASE OpenWatch
  <2>1. /\ binder.pc = "open" /\ binder'.pc = "firmware" /\ binder'.who = binder.who
        /\ initialize_complete_cb' = binder.who /\ event_cb' = binder.who /\ UNCHANGED answers
    BY <1>0, <1>3, BinderMoved DEF OpenWatch, BinderPcs
  <2> QED  BY <1>0, <2>1 DEF Due
<1>4. CASE OpenFirmware
  <2>1. binder'.pc = "idle" /\ UNCHANGED <<answers, watching, halVars>>
    BY <1>4, IdleBinder DEF OpenFirmware
  <2> QED  BY <1>0, <2>1 DEF Due
<1>5. CASE CloseLpm \/ CloseStop
  <2>1. binder'.pc \in Closing  BY <1>0, <1>5, BinderMoved DEF CloseLpm, CloseStop, BinderPcs
  <2>2. UNCHANGED <<answers, halVars>> /\ (watching' => watching)  BY <1>5 DEF CloseLpm, CloseStop
  <2> QED  BY <1>0, <2>1, <2>2 DEF Due
<1>6. CASE CloseTeardown  BY <1>6, IdleBinder DEF CloseTeardown, Due
<1>7. CASE Notify
  <2> DEFINE w == initialize_complete_cb
  <2>1. /\ w \in Clients /\ answers[w] = 0 /\ initialize_complete_cb' = NoClient /\ UNCHANGED binder
    BY <1>0, <1>7 DEF Notify, Objects, Due, Data
  <2>2. PICK s \in {"ready", "error"} : Answer(w, s)  BY <1>7 DEF Notify
  <2>3. \A d \in Clients : d # w => answers'[d] = answers[d]
    BY <1>0, <2>1, <2>2, AnswerEffect
  <2>4. binder.pc \in Opening => binder.who # w /\ binder.who \in Clients /\ binder.pc # "firmware"
    BY <1>0, <1>7 DEF Notify, Due, Objects
  <2> QED  BY <1>0, <2>1, <2>3, <2>4, ClientAssumption DEF Due
<1>8. ASSUME NEW c \in Clients, Initialize(c)  PROVE Due'
  <2>1. /\ status[c] \in {"new", "closed"} /\ answers'[c] = 0
        /\ \A d \in Clients : d # c => answers'[d] = answers[d]
        /\ binder'.who = c /\ binder'.pc # "firmware"
        /\ UNCHANGED <<watching, initialize_complete_cb, event_cb>>
    BY <1>0, <1>8, InitializeEffect
  <2>2. initialize_complete_cb # c  BY <1>0, <2>1 DEF Processes
  <2>3. initialize_complete_cb \in Clients \cup {NoClient}  BY <1>0 DEF Data
  <2> QED  BY <1>0, <2>1, <2>2, <2>3 DEF Due
<1>9. ASSUME NEW c \in Clients, EnterShutdown(c), binder.pc = "idle"  PROVE Due'
  <2>1. binder'.pc \notin Opening /\ UNCHANGED <<answers, halVars, watching>>
    BY <1>0, <1>9, ShutdownEffect
  <2> QED  BY <1>0, <2>1 DEF Due
<1>10. CASE UNCHANGED <<answers, binder, initialize_complete_cb, event_cb, watching>>
  BY <1>0, <1>10 DEF Due
<1>11. CASE Incoming \/ TakeNext \/ TakeLast \/ TakeOther \/ Configure \/ OnTimeout
  BY <1>10, <1>11 DEF Incoming, TakeNext, TakeLast, TakeOther, Configure, OnTimeout
<1>12. ASSUME NEW c \in Clients, SendData(c) \/ Die(c) \/ Restart(c)  PROVE Due'
  BY <1>10, <1>12 DEF SendData, Die, Restart
<1> QED
  BY <1>1, <1>2, <1>3, <1>4, <1>5, <1>6, <1>7, <1>8, <1>9, <1>11, <1>12, Cases DEF Close, ServiceDied

LEMMA OneSessionKeeps ==
    ASSUME IInv, Next
    PROVE  OneSession'
<1>0. Data /\ TypeOK /\ Objects /\ Processes /\ Due /\ OneSession  BY TypeParts DEF IInv
<1> USE DEF halVars, lpmVars, deathVars, clientVars, history, Opening, Closing
<1>l. ASSUME UNCHANGED late, late  PROVE OneSession'
  BY <1>l DEF OneSession
<1>i. \A c \in Clients : links[c] \in 0 .. 1  BY <1>0 DEF Data
<1>1. CASE Refuse
  <2>1. UNCHANGED late /\ binder.pc = "refuse"  BY <1>1 DEF Refuse
  <2>2. late  BY <1>0, <2>1 DEF OneSession
  <2> QED  BY <1>l, <2>1, <2>2
<1>2. CASE OpenFails
  <2> DEFINE w == binder.who
  <2>1. /\ w \in Clients /\ answers[w] = 0 /\ Answer(w, "error") /\ binder.pc = "open"
        /\ binder'.pc = "idle" /\ unlink_cb' = w
        /\ UNCHANGED <<links, late, aborted, g_vendor_interface>>
    BY <1>0, <1>2, IdleBinder DEF OpenFails, Objects, Due
  <2>2. /\ status[w] = "waiting" => status'[w] = "error"
        /\ status[w] # "waiting" => status'[w] = status[w]
        /\ \A d \in Clients : d # w => status'[d] = status[d]
    BY <1>0, <2>1, AnswerEffect
  <2>3. \A c \in Clients : status'[c] \in {"waiting", "ready"} => status[c] = status'[c]
    BY <2>2
  <2>4. \A c \in Clients : status[c] # "ready" \/ late  BY <1>0, <2>1 DEF OneSession
  <2> QED  BY <1>0, <1>l, <2>1, <2>3, <2>4 DEF OneSession, Last
<1>3. CASE OpenWatch
  <2>1. /\ binder.pc = "open" /\ binder'.pc = "firmware" /\ binder'.who = binder.who
        /\ UNCHANGED <<status, links, unlink_cb, late, aborted, g_vendor_interface>>
    BY <1>0, <1>3, BinderMoved DEF OpenWatch, BinderPcs
  <2> QED  BY <1>0, <2>1 DEF OneSession, Last
<1>4. CASE OpenFirmware
  <2>1. /\ binder.pc = "firmware" /\ binder'.pc = "idle" /\ unlink_cb' = binder.who
        /\ UNCHANGED <<status, links, late, aborted, halVars, watching>>
    BY <1>4, IdleBinder DEF OpenFirmware
  <2> QED  BY <1>0, <2>1 DEF OneSession, Last
<1>5. CASE CloseLpm \/ CloseStop
  <2>1. binder.pc \in Closing /\ binder'.pc \in Closing /\ binder'.who = binder.who
    BY <1>0, <1>5, BinderMoved DEF CloseLpm, CloseStop, BinderPcs
  <2>2. UNCHANGED <<status, links, unlink_cb, late, aborted, halVars>>
    BY <1>5 DEF CloseLpm, CloseStop
  <2> QED  BY <1>0, <2>1, <2>2 DEF OneSession, Last
<1>6. CASE CloseTeardown
  <2> DEFINE w == binder.who
  <2>1. /\ binder.pc = "teardown" /\ w \in Clients /\ binder'.pc = "idle"
        /\ status[w] = "closing" => status'[w] = "closed"
        /\ status[w] # "closing" => status'[w] = status[w]
        /\ \A d \in Clients : d # w => status'[d] = status[d]
    BY <1>0, <1>6, TeardownEffect, IdleBinder
  <2>2. g_vendor_interface' = FALSE /\ UNCHANGED <<links, unlink_cb, late, aborted>>
    BY <1>6 DEF CloseTeardown
  <2>3. \A c \in Clients : status'[c] \in {"waiting", "ready"} => status[c] = status'[c]
    BY <2>1
  <2> QED  BY <1>0, <1>l, <2>1, <2>2, <2>3 DEF OneSession
<1>7. CASE Notify
  <2> DEFINE w == initialize_complete_cb
  <2>1. /\ w \in Clients /\ answers[w] = 0 /\ event_cb = w /\ watching
        /\ UNCHANGED <<event_cb, deathVars, late, aborted, g_vendor_interface, binder, watching>>
    BY <1>0, <1>7 DEF Notify, Objects, Due, Data
  <2>2. PICK s \in {"ready", "error"} : Answer(w, s)  BY <1>7 DEF Notify
  <2>3. /\ status[w] = "waiting" => status'[w] = s
        /\ status[w] # "waiting" => status'[w] = status[w]
        /\ \A d \in Clients : d # w => status'[d] = status[d]
    BY <1>0, <2>1, <2>2, AnswerEffect
  <2>4. SUFFICES ASSUME ~late  PROVE OneSession'  BY <1>l, <2>1
  <2>5. ASSUME status[w] = "waiting"  PROVE binder.pc = "idle"
    <3>1. w = Last  BY <1>0, <2>1, <2>5 DEF Processes, Alive
    <3>2. binder.pc \notin Closing  BY <1>0, <2>4, <2>5, <3>1 DEF OneSession, Last
    <3>3. binder.pc \notin Opening
      BY <1>0, <1>7, <3>1 DEF Notify, Due, Objects, Last
    <3>4. binder.pc \in BinderPcs  BY <1>0 DEF Data, BinderStates
    <3> QED  BY <3>2, <3>3, <3>4 DEF BinderPcs
  <2>6. \A c \in Clients : status'[c] \in {"waiting", "ready"} =>
          links'[c] > 0 /\ (status'[c] = "ready" => binder'.pc = "idle" /\ watching' /\ event_cb' = c)
    BY <1>0, <2>1, <2>3, <2>4, <2>5 DEF OneSession
  <2>7. binder'.pc \in Closing =>
          binder'.who = unlink_cb' /\ status'[binder'.who] \in {"closing", "dead"}
    BY <1>0, <2>1, <2>3, <2>4, <2>5 DEF OneSession, Objects
  <2> QED  BY <1>0, <2>1, <2>4, <2>6, <2>7 DEF OneSession, Last
<1>8. ASSUME NEW c \in Clients, Initialize(c)  PROVE OneSession'
  <2> SUFFICES ASSUME ~late'  PROVE OneSession'  BY DEF OneSession
  <2>1. /\ ~late /\ \A d \in Clients : links[d] = 0
        /\ binder.pc = "idle" /\ status'[c] = "waiting"
        /\ \A d \in Clients : d # c => status'[d] = status[d] /\ ~Alive(d)
        /\ links'[c] = 1 /\ \A d \in Clients : d # c => links'[d] = links[d]
        /\ g_vendor_interface' = TRUE /\ binder'.who = c /\ UNCHANGED aborted
        /\ binder'.pc = IF g_vendor_interface THEN "refuse" ELSE "open"
    BY <1>0, <1>8, InitializeEffect, ZenonT(40)
  <2>2. ~g_vendor_interface  BY <1>0, <2>1 DEF OneSession
  <2>3. \A d \in Clients : status'[d] \in {"waiting", "ready"} => d = c /\ status'[d] = "waiting"
    BY <2>1 DEF Alive
  <2>4. \A d \in Clients : links'[d] > 0 => d = c  BY <2>1
  <2>5. links'[c] > 0  BY <2>1
  <2> QED  BY <1>0, <2>1, <2>2, <2>3, <2>4, <2>5 DEF OneSession, Last
<1>9. ASSUME NEW c \in Clients, Close(c)  PROVE OneSession'
  <2>1. /\ binder.pc = "idle" /\ status'[c] = "closing" /\ status[c] \in {"waiting", "ready"}
        /\ \A d \in Clients : d # c => status'[d] = status[d]
        /\ c = unlink_cb /\ (has_died => ~g_vendor_interface) /\ (~has_died => links'[c] = 0)
        /\ \A d \in Clients : d # c => links'[d] = links[d]
    BY <1>0, <1>9, CloseEffect
  <2>2. /\ g_vendor_interface => binder'.pc = "lpmoff" /\ binder'.who = c /\ UNCHANGED aborted
        /\ UNCHANGED <<halVars, unlink_cb, late>>
    BY <1>0, <1>9, CloseEffect, ShutdownEffect
  <2>3. SUFFICES ASSUME ~late  PROVE OneSession'  BY <1>l, <2>2
  <2>4. g_vendor_interface /\ ~has_died  BY <1>0, <2>1, <2>3 DEF OneSession
  <2>5. \A d \in Clients : links'[d] = 0
    BY <1>0, <1>i, <2>1, <2>3, <2>4 DEF OneSession, Last
  <2>6. \A d \in Clients : status'[d] \notin {"waiting", "ready"}
    BY <1>0, <2>1 DEF Processes, Alive, Last
  <2> QED  BY <1>0, <2>1, <2>2, <2>3, <2>4, <2>5, <2>6 DEF OneSession
<1>10. ASSUME NEW c \in Clients, ServiceDied(c)  PROVE OneSession'
  <2>1. /\ binder.pc = "idle" /\ status[c] = "dead" /\ links[c] = 1 /\ links'[c] = 0
        /\ \A d \in Clients : d # c => links'[d] = links[d]
        /\ UNCHANGED status
    BY <1>0, <1>10, DiedEffect
  <2>2. /\ g_vendor_interface => binder'.pc = "lpmoff" /\ binder'.who = c /\ UNCHANGED aborted
        /\ UNCHANGED <<halVars, unlink_cb, late>>
    BY <1>0, <1>10, DiedEffect, ShutdownEffect
  <2>3. SUFFICES ASSUME ~late  PROVE OneSession'  BY <1>l, <2>2
  <2>4. links[c] > 0  BY <2>1
  <2>5. g_vendor_interface /\ c = unlink_cb  BY <1>0, <2>1, <2>3, <2>4 DEF OneSession, Last
  <2>6. \A d \in Clients : links'[d] = 0
    BY <1>0, <1>i, <2>1, <2>3, <2>5 DEF OneSession, Last
  <2>7. \A d \in Clients : status'[d] \notin {"waiting", "ready"}
    BY <1>0, <2>1, <2>5 DEF Processes, Alive, Last
  <2> QED  BY <1>0, <2>1, <2>2, <2>3, <2>5, <2>6, <2>7 DEF OneSession
<1>11. ASSUME NEW c \in Clients, Die(c) \/ Restart(c)  PROVE OneSession'
  <2>1. /\ \A d \in Clients : d # c => status'[d] = status[d]
        /\ status'[c] = "dead" \/ (status'[c] = "new" /\ binder.who # c)
        /\ UNCHANGED <<halVars, deathVars, late, binder, aborted, watching>>
    BY <1>0, <1>11, DieEffect
  <2>2. \A d \in Clients : status'[d] \in {"waiting", "ready"} => status[d] = status'[d]
    BY <2>1
  <2>3. SUFFICES ASSUME ~late  PROVE OneSession'  BY <1>l, <2>1
  <2>4. binder.pc \in Closing => status'[binder.who] \in {"closing", "dead"}
    BY <1>0, <2>1, <2>3 DEF OneSession, Objects
  <2> QED  BY <1>0, <2>1, <2>2, <2>3, <2>4 DEF OneSession, Last
<1>12. ASSUME NEW c \in Clients, SendData(c)  PROVE OneSession'
  <2>1. /\ status[c] = "ready" /\ binder.pc = "idle"
        /\ g_vendor_interface /\ hci => UNCHANGED aborted
        /\ UNCHANGED <<halVars, deathVars, late, binder, status, watching>>
    BY <1>12 DEF SendData
  <2>2. SUFFICES ASSUME ~late  PROVE OneSession'  BY <1>l, <2>1
  <2>3. watching  BY <1>0, <2>1, <2>2 DEF OneSession
  <2>4. UNCHANGED aborted  BY <1>0, <2>1, <2>3 DEF Objects
  <2> QED  BY <1>0, <2>1, <2>4 DEF OneSession, Last
<1>13. CASE Incoming \/ TakeNext \/ TakeLast \/ TakeOther \/ Configure \/ OnTimeout
  <2>1. UNCHANGED <<halVars, deathVars, late, binder, status, watching, aborted>>
    BY <1>13 DEF Incoming, TakeNext, TakeLast, TakeOther, Configure, OnTimeout
  <2> QED  BY <1>0, <2>1 DEF OneSession, Last
<1> QED
  BY <1>1, <1>2, <1>3, <1>4, <1>5, <1>6, <1>7, <1>8, <1>9, <1>10, <1>11, <1>12, <1>13, Cases

(* IInv is inductive. *)
LEMMA StepIInv == IInv /\ [Next]_vars => IInv'
<1> SUFFICES ASSUME IInv, [Next]_vars PROVE IInv'  OBVIOUS
<1>1. CASE Next
  BY <1>1, TypeKeeps, ObjectsKeeps, ProcessesKeeps, DueKeeps, OneSessionKeeps, SlotKeeps, LineKeeps
     DEF IInv
<1>2. CASE UNCHANGED vars
  <2> USE <1>2 DEF vars, halVars, lpmVars, deathVars, clientVars, history
  <2>1. TypeOK'  BY DEF IInv, TypeOK
  <2>2. Objects' /\ Slot' /\ Line'  BY DEF IInv, Objects, Slot, Line
  <2>3. Processes'  BY DEF IInv, Processes, Last, Alive
  <2>4. Due' /\ OneSession'  BY DEF IInv, Due, OneSession, Last
  <2> QED  BY <2>1, <2>2, <2>3, <2>4 DEF IInv
<1> QED  BY <1>1, <1>2

LEMMA Invariant == Spec => []IInv
  BY InitIInv, StepIInv, PTL DEF Spec

-----------------------------------------------------------------------------
(* The properties *)

(* The watcher thread finds the objects it uses wherever the binder thread   *)
(* is in Open and Close; a stack that was told SUCCESS has the session; and  *)
(* no close, death or packet misses the interface (the fatal check in        *)
(* Shutdown), unless a death was told after the next initialize.             *)
THEOREM Sessions == Spec => []SessionInv
<1>1. IInv => SessionInv
  <2> SUFFICES ASSUME IInv PROVE SessionInv  OBVIOUS
  <2>1. WatcherFindsObjects  BY DEF IInv, Objects, WatcherFindsObjects
  <2>2. ClientHasSession  BY DEF IInv, Objects, OneSession, ClientHasSession
  <2>3. FindsInterfaceUnlessLate  BY DEF IInv, OneSession, FindsInterfaceUnlessLate
  <2> QED  BY <2>1, <2>2, <2>3 DEF IInv, SessionInv
<1> QED  BY <1>1, Invariant, PTL

(* The event of an internal command reaches the stack only after the one     *)
(* slot of internal_command was overwritten before the answer came.          *)
THEOREM Internal == Spec => []InternalStaysInternal
<1>1. IInv => InternalStaysInternal  BY DEF IInv, Slot, InternalStaysInternal
<1> QED  BY <1>1, Invariant, PTL

(* The wake line follows lpm_wake_deasserted, and once the firmware is       *)
(* configured an asserted line has its timer, over every interleaving of     *)
(* Send and OnTimeout.                                                       *)
THEOREM Wake == Spec => []WakeFollows
<1>1. IInv => WakeFollows
  <2>1. "idle" # "configure"  OBVIOUS
  <2> QED  BY <2>1 DEF IInv, Line, WakeFollows, Configured
<1> QED  BY <1>1, Invariant, PTL

(* OnTimeout never deasserts the wake line in a period in which Send was     *)
(* called.                                                                   *)
THEOREM Quiet == Spec => QuietBeforeSleep
<1>1. IInv /\ [Next]_vars => [wake /\ ~wake' /\ watching' => ~active]_vars
  <2> SUFFICES ASSUME IInv, Next, wake, ~wake', watching'  PROVE ~active
    OBVIOUS
  <2> USE DEF halVars, lpmVars, deathVars, clientVars, history
  <2>1. CASE OnTimeout  BY <2>1 DEF OnTimeout, IInv, Line
  <2>2. CASE CloseTeardown  BY <2>2 DEF CloseTeardown
  <2>3. CASE OpenFirmware \/ TakeNext  BY <2>3 DEF OpenFirmware, TakeNext, Transmit, Send
  <2>4. CASE CloseLpm  BY <2>4 DEF CloseLpm, Transmit, Send
  <2>5. CASE Configure  BY <2>5 DEF Configure
  <2>6. ASSUME NEW c \in Clients, SendData(c)  PROVE FALSE  BY <2>6 DEF SendData, Send
  <2>7. CASE Refuse \/ OpenFails \/ OpenWatch \/ CloseStop \/ Incoming \/ TakeLast \/ TakeOther \/ Notify
    BY <2>7 DEF Refuse, OpenFails, OpenWatch, CloseStop, Incoming, TakeLast, TakeOther, Notify
  <2>8. ASSUME NEW c \in Clients, Initialize(c) \/ Close(c) \/ ServiceDied(c) \/ Die(c) \/ Restart(c)
        PROVE  FALSE
    BY <2>8 DEF Initialize, Close, ServiceDied, EnterShutdown, Die, Restart
  <2> QED  BY <2>1, <2>2, <2>3, <2>4, <2>5, <2>6, <2>7, <2>8, Cases
<1> QED  BY <1>1, Invariant, PTL DEF Spec, QuietBeforeSleep
=============================================================================
