----------------------- MODULE CameraCallbacksProofs -----------------------
(***************************************************************************)
(* What CameraCallbacks promises, proved for any number of HAL threads,    *)
(* any set of locking calls and any number of calls and callbacks: the     *)
(* ownership of messages (OwnershipInv), the callbacks that slip through   *)
(* while callbacks are blocked (AtMostOneSlips) and the way of the         *)
(* registered callbacks to the worker (RegisteredKept).                    *)
(***************************************************************************)
EXTENDS CameraCallbacks, FiniteSetTheorems, TLAPS

Blocking == {"stop_preview", "cancel_auto_focus"}

(* Where the client is inside its functions, and what they rely on. *)
AtWork ==
    /\ client.pc = "idle" => client.op = "none"
    /\ client.pc = "open" => client.op = "open"
    /\ client.pc = "guard" => client.op = "cancel_auto_focus"
    /\ client.pc \in {"exit", "join"} => client.op = "close"
    /\ client.pc \in {"clear", "guard", "vendor", "unblock"} => opened
    /\ client.pc \in {"open", "exit", "join"} => ~opened
    /\ client.op \in Blocking => blockCbs

(* The worker lives from CreateThread to the end of ExitThread, and between  *)
(* two sessions nothing is left in it. *)
Lifetime ==
    /\ opened \/ client.pc \in {"open", "exit", "join"} => thread
    /\ thread /\ client.pc # "join" => worker.pc \notin {"none", "exited"}
    /\ worker.pc = "exited" => client.pc = "join"
    /\ (~opened /\ client.pc \notin {"exit", "join"}) \/ worker.pc = "exited"
         => queue = <<>> /\ worker.msg = NoMsg /\ worker.cb = NULL
    /\ registered # NULL => opened
    /\ \A h \in HalThreads : hal[h].pc # "idle" => registered # NULL
    /\ \A i \in DOMAIN queue : queue[i].id = "EXIT_THREAD" => client.pc = "join"
    /\ worker.msg.id = "EXIT_THREAD" => client.pc = "join"

(* The payload of a message goes with its id and with the pc of its owner. *)
Carrying ==
    /\ \A i \in DOMAIN queue :
         queue[i].id # "none" /\ (queue[i].msg = NULL <=> queue[i].id = "EXIT_THREAD")
    /\ worker.pc \in {"handle", "callback"} =>
         worker.msg.id # "none" /\ (worker.msg.msg = NULL <=> worker.msg.id = "EXIT_THREAD")
    /\ worker.pc \notin {"handle", "callback"} => worker.msg = NoMsg
    /\ worker.pc = "callback" => worker.msg.id = "EXECUTE_CALLBACK" /\ worker.cb # NULL
    /\ \A h \in HalThreads : hal[h].msg # NULL <=> hal[h].pc = "post"

(* Every payload and every callback pointer in use is of this session. *)
Current ==
    /\ base <= next
    /\ \A i \in DOMAIN queue : queue[i].msg # NULL => queue[i].msg >= base
    /\ worker.msg.msg # NULL => worker.msg.msg >= base
    /\ worker.cb # NULL => worker.cb >= base
    /\ \A h \in HalThreads : hal[h].msg # NULL => hal[h].msg >= base

(* What AtMostOneSlips says, without counting. *)
Slips ==
    Silenced =>
      \A h \in HalThreads :
        /\ \A i, j \in DOMAIN queue : queue[i].from = h /\ queue[j].from = h => i = j
        /\ hal[h].pc = "post" => \A i \in DOMAIN queue : queue[i].from # h

(* Updates reach the worker in the order of the set_callbacks, the last of   *)
(* which is the registered one, and nothing else carries its payload. *)
Updates ==
    /\ registered < next /\ worker.cb < next
    /\ \A i \in DOMAIN queue : queue[i].id = "UPDATE_CALLBACKS" =>
         /\ worker.cb < queue[i].msg
         /\ registered # NULL => queue[i].msg <= registered
         /\ worker.msg.id = "UPDATE_CALLBACKS" => worker.msg.msg < queue[i].msg
         /\ \A j \in DOMAIN queue :
              j > i /\ queue[j].id = "UPDATE_CALLBACKS" => queue[i].msg < queue[j].msg
    /\ worker.msg.id = "UPDATE_CALLBACKS" =>
         worker.cb < worker.msg.msg /\ (registered # NULL => worker.msg.msg <= registered)
    /\ registered # NULL =>
         /\ \A i \in DOMAIN queue : queue[i].msg = registered => queue[i].id = "UPDATE_CALLBACKS"
         /\ worker.msg.msg = registered => worker.msg.id = "UPDATE_CALLBACKS"
         /\ \A h \in HalThreads : hal[h].msg # registered

IInv ==
    /\ TypeOK /\ AtWork /\ Lifetime /\ Carrying
    /\ NoDangling /\ Current /\ Slips /\ Updates

-----------------------------------------------------------------------------
(* The parts of a step *)

WorkerStates == [pc : WorkerPcs, msg : Messages, cb : Nat]
HalStates == [pc : {"idle", "check", "post", "delay"}, msg : Nat]

(* NotifyOne wakes the worker and leaves its message and its callbacks. *)
LEMMA Notified ==
    ASSUME TypeOK, worker' = NotifyOne
    PROVE  /\ worker' \in WorkerStates
           /\ worker'.msg = worker.msg /\ worker'.cb = worker.cb
           /\ worker'.pc = worker.pc \/ (worker.pc = "asleep" /\ worker'.pc = "check")
  BY DEF TypeOK, NotifyOne, WorkerStates, WorkerPcs

(* A message that is pushed comes last. *)
LEMMA Pushed ==
    ASSUME TypeOK, NEW m \in Messages, queue' = Append(queue, m)
    PROVE  LET n == Len(queue) + 1
           IN /\ queue' \in Seq(Messages)
              /\ DOMAIN queue' = DOMAIN queue \cup {n} /\ n \in Nat
              /\ queue'[n] = m
              /\ \A i \in DOMAIN queue : i \in Nat /\ i < n /\ queue'[i] = queue[i]
<1>1. queue \in Seq(Messages)  BY DEF TypeOK
<1> QED  BY <1>1

(* Taking the first message moves the others up. *)
LEMMA Taken ==
    ASSUME TypeOK, queue # <<>>, queue' = Tail(queue)
    PROVE  /\ queue' \in Seq(Messages)
           /\ 1 \in DOMAIN queue /\ Head(queue) = queue[1] /\ Head(queue) \in Messages
           /\ \A i \in DOMAIN queue' :
                i \in Nat /\ i + 1 \in DOMAIN queue /\ i + 1 > 1 /\ queue'[i] = queue[i + 1]
<1>1. queue \in Seq(Messages)  BY DEF TypeOK
<1> QED  BY <1>1

LEMMA Emptied ==
    ASSUME queue' = <<>>
    PROVE  queue' \in Seq(Messages) /\ DOMAIN queue' = {}
  OBVIOUS

(* The messages are messages. *)
LEMMA MessageTypes ==
    /\ Exit \in Messages /\ NoMsg \in Messages
    /\ \A p \in Nat : Update(p) \in Messages /\ \A h \in HalThreads : Exec(p, h) \in Messages
    /\ Exit.id = "EXIT_THREAD" /\ Exit.msg = NULL /\ Exit.from = "client"
    /\ NoMsg.id = "none" /\ NoMsg.msg = NULL
    /\ \A p : Update(p).id = "UPDATE_CALLBACKS" /\ Update(p).msg = p /\ Update(p).from = "client"
    /\ \A p, h : Exec(p, h).id = "EXECUTE_CALLBACK" /\ Exec(p, h).msg = p /\ Exec(p, h).from = h
  BY DEF Messages, Exit, NoMsg, Update, Exec, NULL

(* A HAL thread that moves leaves the others where they are. *)
LEMMA HalMoved ==
    ASSUME TypeOK, NEW h \in HalThreads, NEW s \in HalStates, hal' = [hal EXCEPT ![h] = s]
    PROVE  /\ hal' \in [HalThreads -> HalStates]
           /\ hal'[h] = s
           /\ \A g \in HalThreads : g # h => hal'[g] = hal[g]
  BY DEF TypeOK, HalStates

(* The same for a step that changes only its pc. *)
LEMMA HalPcMoved ==
    ASSUME TypeOK, NEW h \in HalThreads, NEW pc \in {"idle", "check", "post", "delay"},
           hal' = [hal EXCEPT ![h].pc = pc]
    PROVE  /\ hal' \in [HalThreads -> HalStates]
           /\ hal'[h].pc = pc
           /\ \A g \in HalThreads : hal'[g].msg = hal[g].msg /\ (g # h => hal'[g].pc = hal[g].pc)
  BY DEF TypeOK, HalStates

(* A payload that is allocated is the next one. *)
LEMMA Allocated ==
    ASSUME TypeOK, heap' = heap \cup {next}, next' = next + 1
    PROVE  next' \in Nat \ {0} /\ heap' \subseteq 1..(next' - 1)
<1>1. next \in Nat \ {0} /\ heap \subseteq 1..(next - 1)  BY DEF TypeOK
<1>2. next' \in Nat \ {0} /\ next \in 1..(next' - 1)  BY <1>1
<1>3. ASSUME NEW p \in 1..(next - 1)  PROVE p \in 1..(next' - 1)  BY <1>1
<1> QED  BY <1>1, <1>2, <1>3

-----------------------------------------------------------------------------
(* What each action does, field by field *)

LEMMA TakeEffect ==
    ASSUME TypeOK, WorkerTake
    PROVE  /\ worker' \in WorkerStates /\ queue' \in Seq(Messages)
           /\ worker.pc = "check" /\ worker'.cb = worker.cb
           /\ \/ /\ queue = <<>> /\ UNCHANGED queue
                 /\ worker'.pc = "asleep" /\ worker'.msg = worker.msg
              \/ /\ queue # <<>> /\ queue' = Tail(queue)
                 /\ worker'.pc = "handle" /\ worker'.msg = queue[1]
           /\ UNCHANGED <<clientVars, hal, heap, next, callbacks>>
<1>1. CASE queue = <<>>
  BY <1>1 DEF WorkerTake, TypeOK, WorkerStates, WorkerPcs
<1>2. CASE queue # <<>>
  <2>1. queue' = Tail(queue) /\ worker' = [worker EXCEPT !.pc = "handle", !.msg = Head(queue)]
    BY <1>2 DEF WorkerTake
  <2>2. Head(queue) \in Messages /\ Head(queue) = queue[1] /\ queue' \in Seq(Messages)
    BY <1>2, <2>1, Taken
  <2> QED  BY <1>2, <2>1, <2>2 DEF WorkerTake, TypeOK, WorkerStates, WorkerPcs
<1> QED  BY <1>1, <1>2

LEMMA WakeEffect ==
    ASSUME TypeOK, WorkerSpurious
    PROVE  /\ worker' \in WorkerStates
           /\ worker.pc = "asleep" /\ worker'.pc = "check"
           /\ worker'.msg = worker.msg /\ worker'.cb = worker.cb
           /\ UNCHANGED <<clientVars, queue, hal, heap, next, callbacks>>
  BY DEF WorkerSpurious, TypeOK, WorkerStates, WorkerPcs

LEMMA DeliverEffect ==
    ASSUME TypeOK, WorkerDeliver
    PROVE  /\ worker' \in WorkerStates
           /\ worker.pc = "handle" /\ worker'.pc = "callback" /\ worker.cb # NULL
           /\ worker.msg.id = "EXECUTE_CALLBACK"
           /\ worker'.msg = worker.msg /\ worker'.cb = worker.cb
           /\ UNCHANGED <<clientVars, queue, hal, heap, next, callbacks>>
  BY DEF WorkerDeliver, TypeOK, WorkerStates, WorkerPcs

(* WorkerDiscard and UserCallbackReturns clean up alike. *)
LEMMA CleanEffect ==
    ASSUME TypeOK, Carrying, WorkerDiscard \/ UserCallbackReturns
    PROVE  /\ worker' \in WorkerStates
           /\ worker.msg.id = "EXECUTE_CALLBACK" /\ worker.pc \in {"handle", "callback"}
           /\ worker'.pc = "check" /\ worker'.msg = NoMsg /\ worker'.cb = worker.cb
           /\ heap' = heap \ {worker.msg.msg}
           /\ UNCHANGED <<clientVars, queue, hal, next, callbacks>>
  BY MessageTypes DEF WorkerDiscard, UserCallbackReturns, TypeOK, Carrying, WorkerStates, WorkerPcs

LEMMA UpdateEffect ==
    ASSUME TypeOK, WorkerUpdate
    PROVE  /\ worker' \in WorkerStates
           /\ worker.pc = "handle" /\ worker.msg.id = "UPDATE_CALLBACKS"
           /\ worker.msg.msg \in Nat
           /\ worker'.pc = "check" /\ worker'.msg = NoMsg /\ worker'.cb = worker.msg.msg
           /\ heap' = heap \ {worker.msg.msg}
           /\ UNCHANGED <<clientVars, queue, hal, next, callbacks>>
<1>1. worker.msg.msg \in Nat  BY DEF TypeOK, Messages
<1> QED  BY <1>1, MessageTypes DEF WorkerUpdate, TypeOK, WorkerStates, WorkerPcs

LEMMA ExitEffect ==
    ASSUME TypeOK, WorkerExit
    PROVE  /\ worker' \in WorkerStates
           /\ worker.msg.id = "EXIT_THREAD"
           /\ worker'.pc = "exited" /\ worker'.msg = NoMsg /\ worker'.cb = NULL
           /\ queue' = <<>>
           /\ UNCHANGED <<clientVars, hal, heap, next, callbacks>>
  BY MessageTypes DEF WorkerExit, TypeOK, WorkerStates, WorkerPcs, NULL

(* HalEnter and HalReturn, and HalCheck with callbacks blocked. *)
LEMMA HalPcEffect ==
    ASSUME TypeOK, NEW h \in HalThreads, HalEnter(h) \/ HalReturn(h) \/ (HalCheck(h) /\ blockCbs)
    PROVE  /\ hal' \in [HalThreads -> HalStates]
           /\ hal[h].pc # "post" /\ hal'[h].pc # "post"
           /\ hal'[h].pc # "idle" => opened /\ registered # NULL
           /\ \A g \in HalThreads : hal'[g].msg = hal[g].msg /\ (g # h => hal'[g].pc = hal[g].pc)
           /\ callbacks' \in 0..MaxCallbacks
           /\ UNCHANGED <<clientVars, queue, worker, heap, next>>
<1>1. CASE HalEnter(h)
  <2>1. callbacks' \in 0..MaxCallbacks  BY <1>1, BoundAssumption DEF HalEnter, TypeOK
  <2>2. hal' = [hal EXCEPT ![h].pc = "check"]  BY <1>1 DEF HalEnter
  <2> QED  BY <1>1, <2>1, <2>2, HalPcMoved DEF HalEnter
<1>2. CASE HalReturn(h)
  BY <1>2, HalPcMoved DEF HalReturn, TypeOK
<1>3. CASE HalCheck(h) /\ blockCbs
  BY <1>3, HalPcMoved DEF HalCheck, TypeOK
<1> QED  BY <1>1, <1>2, <1>3

LEMMA HalCheckEffect ==
    ASSUME TypeOK, NEW h \in HalThreads, HalCheck(h), ~blockCbs
    PROVE  /\ hal' \in [HalThreads -> HalStates]
           /\ hal[h].pc = "check" /\ hal'[h].pc = "post" /\ hal'[h].msg = next
           /\ \A g \in HalThreads : g # h => hal'[g] = hal[g]
           /\ heap' = heap \cup {next} /\ next' = next + 1
           /\ UNCHANGED <<clientVars, queue, worker, callbacks>>
<1> DEFINE s == [pc |-> "post", msg |-> next]
<1>1. s \in HalStates /\ s.pc = "post" /\ s.msg = next  BY DEF TypeOK, HalStates
<1>2. hal' = [hal EXCEPT ![h] = s]  BY DEF HalCheck
<1> HIDE DEF s
<1>3. /\ hal' \in [HalThreads -> HalStates] /\ hal'[h] = s
      /\ \A g \in HalThreads : g # h => hal'[g] = hal[g]
  BY <1>1, <1>2, HalMoved
<1> QED  BY <1>1, <1>3 DEF HalCheck

LEMMA HalPostEffect ==
    ASSUME TypeOK, NEW h \in HalThreads, HalPost(h)
    PROVE  /\ hal' \in [HalThreads -> HalStates]
           /\ hal[h].pc = "post" /\ hal'[h].pc = "delay" /\ hal'[h].msg = NULL
           /\ \A g \in HalThreads : g # h => hal'[g] = hal[g]
           /\ Exec(hal[h].msg, h) \in Messages /\ queue' = Append(queue, Exec(hal[h].msg, h))
           /\ worker' = NotifyOne
           /\ UNCHANGED <<clientVars, heap, next, callbacks>>
<1> DEFINE s == [pc |-> "delay", msg |-> NULL]
<1>1. s \in HalStates /\ s.pc = "delay" /\ s.msg = NULL  BY DEF HalStates, NULL
<1>2. hal' = [hal EXCEPT ![h] = s]  BY DEF HalPost
<1>3. hal[h].msg \in Nat  BY DEF TypeOK
<1>4. Exec(hal[h].msg, h) \in Messages  BY <1>3, MessageTypes
<1> HIDE DEF s
<1>5. /\ hal' \in [HalThreads -> HalStates] /\ hal'[h] = s
      /\ \A g \in HalThreads : g # h => hal'[g] = hal[g]
  BY <1>1, <1>2, HalMoved
<1> QED  BY <1>1, <1>4, <1>5 DEF HalPost, Push

-----------------------------------------------------------------------------
(* The client's actions *)

ClientStates == [pc : ClientPcs, op : Ops \cup {"none"}]
Unmoved == UNCHANGED <<queue, hal, heap, next, callbacks>>

LEMMA Entered ==
    ASSUME TypeOK, NEW op \in Ops, NEW pc \in ClientPcs, Enter(op, pc)
    PROVE  /\ client' \in ClientStates /\ client'.pc = pc /\ client'.op = op
           /\ client.pc = "idle" /\ calls' \in 0..MaxCalls
  BY BoundAssumption DEF TypeOK, Enter, ClientStates

LEMMA Returned ==
    ASSUME Return
    PROVE  client' \in ClientStates /\ client'.pc = "idle" /\ client'.op = "none"
  BY DEF Return, ClientStates, ClientPcs

LEMMA Went ==
    ASSUME TypeOK, NEW pc \in ClientPcs, GoTo(pc)
    PROVE  client' \in ClientStates /\ client'.pc = pc /\ client'.op = client.op
  BY DEF TypeOK, GoTo, ClientStates

LEMMA OpenEffect ==
    ASSUME TypeOK, Open
    PROVE  /\ client' \in ClientStates /\ client'.pc = "open" /\ client'.op = "open"
           /\ client.pc = "idle" /\ calls' \in 0..MaxCalls /\ ~opened
           /\ worker' \in WorkerStates /\ thread' = TRUE /\ blockCbs' = FALSE /\ base' = next
           /\ thread => worker' = worker
           /\ ~thread => worker'.pc = "check" /\ worker'.msg = NoMsg /\ worker'.cb = NULL
           /\ Unmoved /\ UNCHANGED <<opened, registered, guarded>>
<1>1. Enter("open", "open") /\ "open" \in Ops /\ "open" \in ClientPcs  BY DEF Open, Ops, ClientPcs
<1>2. /\ client' \in ClientStates /\ client'.pc = "open" /\ client'.op = "open"
      /\ client.pc = "idle" /\ calls' \in 0..MaxCalls
  BY <1>1, Entered
<1>3. worker' \in WorkerStates
  BY MessageTypes DEF Open, TypeOK, WorkerStates, WorkerPcs, NULL
<1> QED  BY <1>2, <1>3 DEF Open, Unmoved

LEMMA OpenReturnEffect ==
    ASSUME TypeOK, OpenReturn
    PROVE  /\ client' \in ClientStates /\ client'.pc = "idle" /\ client'.op = "none"
           /\ client.pc = "open" /\ opened' \in BOOLEAN
           /\ Unmoved /\ UNCHANGED <<registered, blockCbs, guarded, thread, worker, base, calls>>
  BY Returned DEF OpenReturn, Unmoved

LEMMA SetEffect ==
    ASSUME TypeOK, SetCallbacks
    PROVE  /\ client' \in ClientStates /\ client'.pc = "vendor" /\ client'.op = "set_callbacks"
           /\ client.pc = "idle" /\ calls' \in 0..MaxCalls /\ opened
           /\ heap' = heap \cup {next} /\ next' = next + 1 /\ registered' = next
           /\ Update(next) \in Messages /\ queue' = Append(queue, Update(next))
           /\ worker' = NotifyOne
           /\ UNCHANGED <<opened, blockCbs, guarded, thread, hal, base, callbacks>>
<1>1. /\ Enter("set_callbacks", "vendor")
      /\ "set_callbacks" \in Ops /\ "vendor" \in ClientPcs
  BY DEF SetCallbacks, Ops, ClientPcs
<1>2. /\ client' \in ClientStates /\ client'.pc = "vendor" /\ client'.op = "set_callbacks"
      /\ client.pc = "idle" /\ calls' \in 0..MaxCalls
  BY <1>1, Entered
<1>3. Update(next) \in Messages  BY MessageTypes DEF TypeOK
<1> QED  BY <1>2, <1>3 DEF SetCallbacks, Push

(* Block, AutoFocus, Forward and Close enter their functions. *)
LEMMA CallEffect ==
    ASSUME TypeOK, Block \/ AutoFocus \/ Forward \/ Close
    PROVE  /\ client' \in ClientStates /\ client'.pc \in {"clear", "vendor"}
           /\ client'.op \in Ops
           /\ client'.op \in Blocking => client'.pc = "clear" /\ blockCbs' = TRUE
           /\ client.pc = "idle" /\ calls' \in 0..MaxCalls /\ opened
           /\ blockCbs' \in BOOLEAN
           /\ Unmoved /\ UNCHANGED <<opened, registered, guarded, thread, worker, base>>
<1> USE DEF Unmoved
<1>1. Blocking \subseteq Ops /\ {"auto_focus", "forward", "close"} \subseteq Ops \ Blocking
  BY DEF Blocking, Ops
<1>2. {"clear", "vendor"} \subseteq ClientPcs  BY DEF ClientPcs
<1>3. CASE Block
  <2>1. PICK op \in Blocking : Enter(op, "clear")  BY <1>3 DEF Block, Blocking
  <2> QED  BY <1>1, <1>2, <1>3, <2>1, Entered DEF Block
<1>4. CASE AutoFocus
  BY <1>1, <1>2, <1>4, Entered DEF AutoFocus, TypeOK
<1>5. CASE Forward
  BY <1>1, <1>2, <1>5, Entered DEF Forward, TypeOK
<1>6. CASE Close
  BY <1>1, <1>2, <1>6, Entered DEF Close, TypeOK
<1> QED  BY <1>3, <1>4, <1>5, <1>6

LEMMA ClearEffect ==
    ASSUME TypeOK, ClearCallbacks
    PROVE  /\ client' \in ClientStates /\ client'.op = client.op
           /\ client.pc = "clear" /\ client'.pc \in {"guard", "vendor"}
           /\ client'.pc = "guard" => client.op = "cancel_auto_focus"
           /\ queue' = <<>> /\ worker' = NotifyOne
           /\ UNCHANGED <<opened, registered, blockCbs, guarded, thread, hal, heap, next,
                          base, calls, callbacks>>
<1> DEFINE pc == IF client.op = "cancel_auto_focus" THEN "guard" ELSE "vendor"
<1>1. pc \in ClientPcs /\ pc \in {"guard", "vendor"} /\ (pc = "guard" => client.op = "cancel_auto_focus")
  BY DEF ClientPcs
<1>2. GoTo(pc)  BY DEF ClearCallbacks
<1> HIDE DEF pc
<1>3. client' \in ClientStates /\ client'.pc = pc /\ client'.op = client.op  BY <1>1, <1>2, Went
<1> QED  BY <1>1, <1>3 DEF ClearCallbacks

LEMMA GuardEffect ==
    ASSUME TypeOK, CheckGuard
    PROVE  /\ client' \in ClientStates /\ client.pc = "guard"
           /\ \/ client'.pc = "idle" /\ client'.op = "none"
              \/ client'.pc = "vendor" /\ client'.op = client.op
           /\ Unmoved
           /\ UNCHANGED <<opened, registered, blockCbs, guarded, thread, worker, base, calls>>
<1>1. "vendor" \in ClientPcs  BY DEF ClientPcs
<1>2. Return \/ GoTo("vendor")  BY DEF CheckGuard
<1> QED  BY <1>1, <1>2, Went, Returned DEF CheckGuard, Unmoved

LEMMA VendorEffect ==
    ASSUME TypeOK, VendorReturn
    PROVE  /\ client' \in ClientStates /\ client.pc = "vendor"
           /\ \A h \in HalThreads : hal[h].pc = "idle"
           /\ client.op \in Blocking => client'.pc = "unblock" /\ client'.op = client.op
           /\ client.op = "close" => client'.pc = "exit" /\ client'.op = client.op
           /\ client.op \notin Blocking \cup {"close"} => client'.pc = "idle" /\ client'.op = "none"
           /\ registered' = IF client.op = "close" THEN NULL ELSE registered
           /\ opened' = (opened /\ client.op # "close")
           /\ guarded' \in BOOLEAN
           /\ Unmoved /\ UNCHANGED <<blockCbs, thread, worker, base, calls>>
<1>1. {"unblock", "exit"} \subseteq ClientPcs  BY DEF ClientPcs
<1>2. /\ client.op \in Blocking => GoTo("unblock")
      /\ client.op = "close" => GoTo("exit")
      /\ client.op \notin Blocking \cup {"close"} => Return
  BY DEF VendorReturn, Blocking
<1>3. /\ client' \in ClientStates
      /\ client.op \in Blocking => client'.pc = "unblock" /\ client'.op = client.op
      /\ client.op = "close" => client'.pc = "exit" /\ client'.op = client.op
      /\ client.op \notin Blocking \cup {"close"} => client'.pc = "idle" /\ client'.op = "none"
  BY <1>1, <1>2, Went, Returned
<1> QED  BY <1>3 DEF VendorReturn, Unmoved

LEMMA UnblockEffect ==
    ASSUME TypeOK, Unblock
    PROVE  /\ client' \in ClientStates /\ client'.pc = "idle" /\ client'.op = "none"
           /\ client.pc = "unblock" /\ blockCbs' = FALSE
           /\ Unmoved /\ UNCHANGED <<opened, registered, guarded, thread, worker, base, calls>>
  BY Returned DEF Unblock, Unmoved

LEMMA ExitThreadEffect ==
    ASSUME TypeOK, ExitThread
    PROVE  /\ client' \in ClientStates /\ client'.pc = "join" /\ client'.op = client.op
           /\ client.pc = "exit"
           /\ queue' = Append(queue, Exit) /\ worker' = NotifyOne
           /\ UNCHANGED <<opened, registered, blockCbs, guarded, thread, hal, heap, next,
                          base, calls, callbacks>>
<1>1. "join" \in ClientPcs  BY DEF ClientPcs
<1> QED  BY <1>1, Went DEF ExitThread, Push

LEMMA JoinEffect ==
    ASSUME TypeOK, Join
    PROVE  /\ client' \in ClientStates /\ client'.pc = "idle" /\ client'.op = "none"
           /\ client.pc = "join" /\ worker.pc = "exited" /\ thread' = FALSE
           /\ worker' \in WorkerStates
           /\ worker'.pc = "none" /\ worker'.msg = worker.msg /\ worker'.cb = worker.cb
           /\ Unmoved /\ UNCHANGED <<opened, registered, blockCbs, guarded, base, calls>>
  BY Returned DEF Join, Unmoved, TypeOK, WorkerStates, WorkerPcs

-----------------------------------------------------------------------------
(* The inductive invariant, one conjunct after the other *)

LEMMA InitIInv == Init => IInv
<1> SUFFICES ASSUME Init PROVE IInv  OBVIOUS
<1> USE MessageTypes
<1>1. TypeOK
  <2>1. queue \in Seq(Messages)  BY DEF Init
  <2>2. client \in ClientStates  BY DEF Init, ClientStates, ClientPcs
  <2>3. worker \in WorkerStates  BY DEF Init, WorkerStates, WorkerPcs, NULL
  <2>4. hal \in [HalThreads -> HalStates]  BY DEF Init, HalStates, NULL
  <2>5. calls \in 0..MaxCalls /\ callbacks \in 0..MaxCallbacks  BY BoundAssumption DEF Init
  <2>6. /\ registered \in Nat /\ next \in Nat \ {0} /\ base \in Nat \ {0}
        /\ heap \subseteq 1..(next - 1)
    BY DEF Init, NULL
  <2>7. opened \in BOOLEAN /\ blockCbs \in BOOLEAN /\ guarded \in BOOLEAN /\ thread \in BOOLEAN
    BY DEF Init
  <2> QED
    BY <2>1, <2>2, <2>3, <2>4, <2>5, <2>6, <2>7 DEF TypeOK, ClientStates, WorkerStates, HalStates
<1>2. AtWork  BY DEF Init, AtWork, Blocking
<1>3. Lifetime /\ Carrying  BY DEF Init, Lifetime, Carrying
<1>4. NoDangling  BY DEF Init, NoDangling, Held
<1>5. Current /\ Updates  BY DEF Init, Current, Updates, NULL
<1>6. Slips  BY DEF Init, Slips, Silenced
<1> QED  BY <1>1, <1>2, <1>3, <1>4, <1>5, <1>6 DEF IInv

(* The steps of one kind: the client enters or leaves a function, or its     *)
(* guard runs out, and nothing but its own variables changes. *)
ClientOnly ==
    OpenReturn \/ Block \/ AutoFocus \/ Forward \/ Close \/ CheckGuard \/ VendorReturn
      \/ Unblock \/ GuardExpires

LEMMA ClientOnlyEffect ==
    ASSUME TypeOK, ClientOnly
    PROVE  Unmoved /\ UNCHANGED <<worker, base, thread>>
<1>1. CASE GuardExpires  BY <1>1 DEF GuardExpires, Unmoved
<1> QED  BY <1>1, OpenReturnEffect, CallEffect, GuardEffect, VendorEffect, UnblockEffect DEF ClientOnly

(* Next, as the effects above divide it. *)
LEMMA Cases ==
    ASSUME Next
    PROVE  \/ ClientOnly
           \/ Open \/ SetCallbacks \/ ClearCallbacks \/ ExitThread \/ Join
           \/ WorkerTake \/ WorkerSpurious \/ WorkerDeliver \/ WorkerUpdate \/ WorkerExit
           \/ WorkerDiscard \/ UserCallbackReturns
           \/ \E h \in HalThreads :
                \/ HalEnter(h) \/ HalReturn(h) \/ (HalCheck(h) /\ blockCbs)
                \/ HalCheck(h) /\ ~blockCbs
                \/ HalPost(h)
  BY DEF Next, ClientCalls, ClientContinues, ClientOnly, Worker, Hal

LEMMA TypeKeeps ==
    ASSUME IInv, Next
    PROVE  TypeOK'
<1>0. TypeOK /\ Carrying  BY DEF IInv
<1> USE DEF TypeOK, ClientStates, WorkerStates, HalStates
<1>1. CASE ClientOnly
  <2>1. CASE OpenReturn  BY <1>0, <2>1, OpenReturnEffect DEF Unmoved
  <2>2. CASE Block \/ AutoFocus \/ Forward \/ Close  BY <1>0, <2>2, CallEffect DEF Unmoved
  <2>3. CASE CheckGuard  BY <1>0, <2>3, GuardEffect, ZenonT(40) DEF Unmoved
  <2>4. CASE VendorReturn
    <3>1. registered' \in Nat  BY <1>0, <2>4, VendorEffect DEF NULL
    <3>2. opened' \in BOOLEAN  BY <2>4, VendorEffect, <1>0
    <3> QED  BY <1>0, <2>4, <3>1, <3>2, VendorEffect DEF Unmoved
  <2>5. CASE Unblock  BY <1>0, <2>5, UnblockEffect DEF Unmoved
  <2>6. CASE GuardExpires  BY <1>0, <2>6 DEF GuardExpires
  <2> QED  BY <1>1, <2>1, <2>2, <2>3, <2>4, <2>5, <2>6 DEF ClientOnly
<1>2. CASE Open  BY <1>0, <1>2, OpenEffect DEF Unmoved
<1>3. CASE SetCallbacks
  <2>1. next' \in Nat \ {0} /\ heap' \subseteq 1..(next' - 1)
    BY <1>0, <1>3, SetEffect, Allocated
  <2>2. queue' \in Seq(Messages)  BY <1>0, <1>3, SetEffect, Pushed
  <2>3. worker' \in WorkerStates  BY <1>0, <1>3, SetEffect, Notified
  <2> QED  BY <1>0, <1>3, <2>1, <2>2, <2>3, SetEffect
<1>4. CASE ClearCallbacks  BY <1>0, <1>4, ClearEffect, Notified, Emptied
<1>5. CASE ExitThread  BY <1>0, <1>5, ExitThreadEffect, Notified, Pushed, MessageTypes
<1>6. CASE Join  BY <1>0, <1>6, JoinEffect DEF Unmoved
<1>7. CASE WorkerTake  BY <1>0, <1>7, TakeEffect DEF clientVars
<1>8. CASE WorkerSpurious  BY <1>0, <1>8, WakeEffect DEF clientVars
<1>9. CASE WorkerDeliver  BY <1>0, <1>9, DeliverEffect DEF clientVars
<1>10. CASE WorkerUpdate  BY <1>0, <1>10, UpdateEffect DEF clientVars
<1>11. CASE WorkerExit  BY <1>0, <1>11, ExitEffect, Emptied DEF clientVars
<1>12. CASE WorkerDiscard \/ UserCallbackReturns  BY <1>0, <1>12, CleanEffect DEF clientVars
<1>13. ASSUME NEW h \in HalThreads, HalEnter(h) \/ HalReturn(h) \/ (HalCheck(h) /\ blockCbs)
       PROVE TypeOK'
  BY <1>0, <1>13, HalPcEffect DEF clientVars
<1>14. ASSUME NEW h \in HalThreads, HalCheck(h), ~blockCbs  PROVE TypeOK'
  <2>1. next' \in Nat \ {0} /\ heap' \subseteq 1..(next' - 1)  BY <1>0, <1>14, HalCheckEffect, Allocated
  <2> QED  BY <1>0, <1>14, <2>1, HalCheckEffect DEF clientVars
<1>15. ASSUME NEW h \in HalThreads, HalPost(h)  PROVE TypeOK'
  BY <1>0, <1>15, HalPostEffect, Notified, Pushed, SMTT(30) DEF clientVars
<1> QED
  BY <1>1, <1>2, <1>3, <1>4, <1>5, <1>6, <1>7, <1>8, <1>9, <1>10, <1>11, <1>12, <1>13, <1>14,
     <1>15, Cases

LEMMA AtWorkKeeps ==
    ASSUME IInv, Next
    PROVE  AtWork'
<1>0. TypeOK /\ AtWork  BY DEF IInv
<1>1. CASE ClientOnly
  <2>1. CASE OpenReturn  BY <1>0, <2>1, OpenReturnEffect DEF AtWork, Blocking
  <2>2. CASE Block \/ AutoFocus \/ Forward \/ Close  BY <1>0, <2>2, CallEffect DEF AtWork
  <2>3. CASE CheckGuard  BY <1>0, <2>3, GuardEffect DEF AtWork, Blocking
  <2>4. CASE VendorReturn  BY <1>0, <2>4, VendorEffect DEF AtWork, Blocking
  <2>5. CASE Unblock  BY <1>0, <2>5, UnblockEffect DEF AtWork, Blocking
  <2>6. CASE GuardExpires  BY <1>0, <2>6 DEF GuardExpires, AtWork
  <2> QED  BY <1>1, <2>1, <2>2, <2>3, <2>4, <2>5, <2>6 DEF ClientOnly
<1>2. CASE Open  BY <1>0, <1>2, OpenEffect DEF AtWork, Blocking
<1>3. CASE SetCallbacks  BY <1>0, <1>3, SetEffect DEF AtWork, Blocking
<1>4. CASE ClearCallbacks  BY <1>0, <1>4, ClearEffect DEF AtWork
<1>5. CASE ExitThread  BY <1>0, <1>5, ExitThreadEffect DEF AtWork
<1>6. CASE Join  BY <1>0, <1>6, JoinEffect DEF AtWork, Blocking
<1>7. CASE UNCHANGED clientVars  BY <1>0, <1>7 DEF AtWork, clientVars
<1>8. UNCHANGED clientVars \/ ClientOnly \/ Open \/ SetCallbacks \/ ClearCallbacks \/ ExitThread \/ Join
  BY DEF Next, ClientCalls, ClientContinues, ClientOnly, Worker, WorkerTake, WorkerDeliver,
         WorkerDiscard, WorkerUpdate, WorkerExit, WorkerSpurious, UserCallbackReturns,
         HalEnter, Hal, HalCheck, HalPost, HalReturn
<1> QED  BY <1>1, <1>2, <1>3, <1>4, <1>5, <1>6, <1>7, <1>8

LEMMA LifetimeKeeps ==
    ASSUME IInv, Next
    PROVE  Lifetime'
<1>0. TypeOK /\ AtWork /\ Lifetime /\ Carrying  BY DEF IInv
<1>1. CASE ClientOnly
  <2>0. UNCHANGED <<queue, worker, hal, thread>>  BY <1>0, <1>1, ClientOnlyEffect DEF Unmoved
  <2>1. CASE OpenReturn  BY <1>0, <2>0, <2>1, OpenReturnEffect DEF AtWork, Lifetime
  <2>2. CASE Block \/ AutoFocus \/ Forward \/ Close
    BY <1>0, <2>0, <2>2, CallEffect DEF AtWork, Lifetime
  <2>3. CASE CheckGuard  BY <1>0, <2>0, <2>3, GuardEffect DEF AtWork, Lifetime
  <2>4. CASE VendorReturn  BY <1>0, <2>0, <2>4, VendorEffect DEF AtWork, Lifetime, Blocking
  <2>5. CASE Unblock  BY <1>0, <2>0, <2>5, UnblockEffect DEF AtWork, Lifetime
  <2>6. CASE GuardExpires  BY <1>0, <2>6 DEF GuardExpires, Lifetime
  <2> QED  BY <1>1, <2>1, <2>2, <2>3, <2>4, <2>5, <2>6 DEF ClientOnly
<1>2. CASE Open  BY <1>0, <1>2, OpenEffect, MessageTypes DEF Unmoved, AtWork, Lifetime
<1>3. CASE SetCallbacks
  <2>1. next # NULL  BY <1>0 DEF TypeOK, NULL
  <2> QED
  BY <1>0, <1>3, <2>1, SetEffect, Notified, Pushed, MessageTypes DEF AtWork, Lifetime
<1>4. CASE ClearCallbacks
  BY <1>0, <1>4, ClearEffect, Notified, Emptied DEF AtWork, Lifetime
<1>5. CASE ExitThread
  BY <1>0, <1>5, ExitThreadEffect, Notified, Pushed, MessageTypes DEF AtWork, Lifetime
<1>6. CASE Join
  <2>1. queue = <<>> /\ worker.msg = NoMsg /\ worker.cb = NULL  BY <1>0, <1>6, JoinEffect DEF Lifetime
  <2>2. DOMAIN queue = {}  BY <2>1
  <2> QED  BY <1>0, <1>6, <2>1, <2>2, JoinEffect, MessageTypes DEF Unmoved, AtWork, Lifetime
<1>7. CASE WorkerTake  BY <1>0, <1>7, TakeEffect, Taken DEF clientVars, AtWork, Lifetime
<1>8. CASE WorkerSpurious  BY <1>0, <1>8, WakeEffect DEF clientVars, Lifetime
<1>9. CASE WorkerDeliver  BY <1>0, <1>9, DeliverEffect DEF clientVars, Lifetime
<1>10. CASE WorkerUpdate  BY <1>0, <1>10, UpdateEffect, MessageTypes DEF clientVars, Lifetime
<1>11. CASE WorkerExit  BY <1>0, <1>11, ExitEffect, Emptied, MessageTypes DEF clientVars, Lifetime
<1>12. CASE WorkerDiscard \/ UserCallbackReturns
  BY <1>0, <1>12, CleanEffect, MessageTypes DEF clientVars, Lifetime
<1>13. ASSUME NEW h \in HalThreads, HalEnter(h) \/ HalReturn(h) \/ (HalCheck(h) /\ blockCbs)
       PROVE Lifetime'
  BY <1>0, <1>13, HalPcEffect DEF clientVars, Lifetime
<1>14. ASSUME NEW h \in HalThreads, HalCheck(h), ~blockCbs  PROVE Lifetime'
  BY <1>0, <1>14, HalCheckEffect DEF clientVars, Lifetime
<1>15. ASSUME NEW h \in HalThreads, HalPost(h)  PROVE Lifetime'
  BY <1>0, <1>15, HalPostEffect, Notified, Pushed, MessageTypes DEF clientVars, AtWork, Lifetime
<1> QED
  BY <1>1, <1>2, <1>3, <1>4, <1>5, <1>6, <1>7, <1>8, <1>9, <1>10, <1>11, <1>12, <1>13, <1>14,
     <1>15, Cases

LEMMA CarryingKeeps ==
    ASSUME IInv, Next
    PROVE  Carrying'
<1>0. TypeOK /\ Carrying /\ Lifetime  BY DEF IInv
<1>a. next # NULL  BY <1>0 DEF TypeOK, NULL
<1>1. CASE ClientOnly
  BY <1>0, <1>1, ClientOnlyEffect DEF Unmoved, Carrying
<1>2. CASE Open  BY <1>0, <1>2, OpenEffect DEF Unmoved, Carrying
<1>3. CASE SetCallbacks
  BY <1>0, <1>a, <1>3, SetEffect, Notified, Pushed, MessageTypes DEF Carrying
<1>4. CASE ClearCallbacks
  BY <1>0, <1>4, ClearEffect, Notified, Emptied DEF Carrying
<1>5. CASE ExitThread
  BY <1>0, <1>5, ExitThreadEffect, Notified, Pushed, MessageTypes DEF Carrying
<1>6. CASE Join  BY <1>0, <1>6, JoinEffect DEF Unmoved, Carrying
<1>7. CASE WorkerTake  BY <1>0, <1>7, TakeEffect, Taken DEF Carrying
<1>8. CASE WorkerSpurious  BY <1>0, <1>8, WakeEffect DEF Carrying
<1>9. CASE WorkerDeliver  BY <1>0, <1>9, DeliverEffect DEF Carrying
<1>10. CASE WorkerUpdate  BY <1>0, <1>10, UpdateEffect DEF Carrying
<1>11. CASE WorkerExit  BY <1>0, <1>11, ExitEffect, Emptied DEF Carrying
<1>12. CASE WorkerDiscard \/ UserCallbackReturns  BY <1>0, <1>12, CleanEffect DEF Carrying
<1>13. ASSUME NEW h \in HalThreads, HalEnter(h) \/ HalReturn(h) \/ (HalCheck(h) /\ blockCbs)
       PROVE Carrying'
  BY <1>0, <1>13, HalPcEffect DEF Carrying
<1>14. ASSUME NEW h \in HalThreads, HalCheck(h), ~blockCbs  PROVE Carrying'
  BY <1>0, <1>a, <1>14, HalCheckEffect DEF Carrying
<1>15. ASSUME NEW h \in HalThreads, HalPost(h)  PROVE Carrying'
  <2> DEFINE m == Exec(hal[h].msg, h)
             n == Len(queue) + 1
  <2>1. m \in Messages /\ queue' = Append(queue, m)  BY <1>0, <1>15, HalPostEffect
  <2>2. m.id = "EXECUTE_CALLBACK" /\ m.msg = hal[h].msg  BY MessageTypes
  <2>3. hal[h].msg # NULL  BY <1>0, <1>15, HalPostEffect DEF Carrying
  <2> HIDE DEF m
  <2>4. /\ DOMAIN queue' = DOMAIN queue \cup {n} /\ queue'[n] = m
        /\ \A i \in DOMAIN queue : queue'[i] = queue[i]
    BY <1>0, <2>1, Pushed
  <2> QED
    BY <1>0, <1>15, <2>2, <2>3, <2>4, HalPostEffect, Notified DEF Carrying
<1> QED
  BY <1>1, <1>2, <1>3, <1>4, <1>5, <1>6, <1>7, <1>8, <1>9, <1>10, <1>11, <1>12, <1>13, <1>14,
     <1>15, Cases

(* A payload that is held is smaller than the next one, and freeing one      *)
(* payload that has a single owner leaves the others. *)
LEMMA HeldBound ==
    ASSUME TypeOK, NoDangling
    PROVE  /\ next # NULL
           /\ \A i \in DOMAIN queue : queue[i].msg # NULL => queue[i].msg \in heap /\ queue[i].msg < next
           /\ worker.msg.msg # NULL => worker.msg.msg \in heap /\ worker.msg.msg < next
           /\ \A h \in HalThreads : hal[h].msg # NULL => hal[h].msg \in heap /\ hal[h].msg < next
<1>1. \A p \in heap : p < next  BY DEF TypeOK
<1>2. next # NULL  BY DEF TypeOK, NULL
<1>3. \A i \in DOMAIN queue : queue[i].msg # NULL => queue[i].msg \in heap
  BY DEF NoDangling, Held
<1>4. worker.msg.msg # NULL => worker.msg.msg \in heap  BY DEF NoDangling, Held
<1>5. \A h \in HalThreads : hal[h].msg # NULL => hal[h].msg \in heap  BY DEF NoDangling, Held
<1> QED  BY <1>1, <1>2, <1>3, <1>4, <1>5

(* NoDangling, place by place. *)
Places ==
    /\ \A i \in DOMAIN queue : queue[i].msg # NULL => queue[i].msg \in heap
    /\ worker.msg.msg # NULL => worker.msg.msg \in heap
    /\ \A h \in HalThreads : hal[h].msg # NULL => hal[h].msg \in heap
Distinct ==
    /\ \A i, j \in DOMAIN queue :
         queue[i].msg = queue[j].msg /\ queue[i].msg # NULL => i = j
    /\ \A i \in DOMAIN queue : queue[i].msg = NULL \/ queue[i].msg # worker.msg.msg
    /\ \A g, h \in HalThreads : hal[g].msg = hal[h].msg /\ hal[g].msg # NULL => g = h
    /\ \A h \in HalThreads :
         hal[h].msg # NULL =>
           /\ hal[h].msg # worker.msg.msg
           /\ \A i \in DOMAIN queue : queue[i].msg # hal[h].msg

LEMMA NoDanglingParts == NoDangling <=> Places /\ Distinct
<1>1. Held \subseteq heap <=> Places  BY DEF Held, Places
<1> QED  BY <1>1 DEF NoDangling, Distinct

LEMMA NoDanglingKeeps ==
    ASSUME IInv, Next
    PROVE  Places' /\ Distinct'
<1>0. TypeOK /\ Carrying /\ Lifetime /\ NoDangling  BY DEF IInv
<1>a. Places /\ Distinct  BY <1>0, NoDanglingParts
<1>b. next # NULL /\ next \notin heap
  BY <1>0 DEF TypeOK, NULL
<1>1. CASE ClientOnly
  BY <1>0, <1>a, <1>1, ClientOnlyEffect DEF Unmoved, Places, Distinct
<1>2. CASE Open
  BY <1>0, <1>a, <1>2, OpenEffect, MessageTypes DEF Unmoved, Places, Distinct
<1>3. CASE SetCallbacks
  <2> DEFINE m == Update(next)
             n == Len(queue) + 1
  <2>1. m \in Messages /\ queue' = Append(queue, m)  BY <1>0, <1>3, SetEffect
  <2>2. m.msg = next  BY MessageTypes
  <2> HIDE DEF m
  <2>3. /\ DOMAIN queue' = DOMAIN queue \cup {n} /\ queue'[n] = m
        /\ \A i \in DOMAIN queue : queue'[i] = queue[i]
    BY <1>0, <2>1, Pushed
  <2>4. worker'.msg = worker.msg /\ UNCHANGED hal /\ heap' = heap \cup {next}
    BY <1>0, <1>3, SetEffect, Notified
  <2>5. Places'  BY <1>a, <2>2, <2>3, <2>4 DEF Places
  <2>6. Distinct'  BY <1>a, <1>b, <2>2, <2>3, <2>4 DEF Places, Distinct
  <2> QED  BY <2>5, <2>6
<1>4. CASE ClearCallbacks
  BY <1>0, <1>a, <1>4, ClearEffect, Notified, Emptied DEF Places, Distinct
<1>5. CASE ExitThread
  <2> DEFINE n == Len(queue) + 1
  <2>1. queue' = Append(queue, Exit)  BY <1>0, <1>5, ExitThreadEffect
  <2>2. Exit \in Messages /\ Exit.msg = NULL  BY MessageTypes
  <2>3. /\ DOMAIN queue' = DOMAIN queue \cup {n} /\ queue'[n] = Exit
        /\ \A i \in DOMAIN queue : queue'[i] = queue[i]
    BY <1>0, <2>1, <2>2, Pushed
  <2>4. worker'.msg = worker.msg /\ UNCHANGED <<hal, heap>>
    BY <1>0, <1>5, ExitThreadEffect, Notified
  <2>5. Places'  BY <1>a, <2>2, <2>3, <2>4 DEF Places
  <2>6. Distinct'  BY <1>a, <2>2, <2>3, <2>4 DEF Places, Distinct
  <2> QED  BY <2>5, <2>6
<1>6. CASE Join  BY <1>0, <1>a, <1>6, JoinEffect DEF Unmoved, Places, Distinct
<1>7. CASE WorkerTake
  <2>1. worker.msg.msg = NULL  BY <1>0, <1>7, TakeEffect, MessageTypes DEF Carrying
  <2>2. CASE queue = <<>>
    BY <1>0, <1>a, <1>7, <2>2, TakeEffect DEF Places, Distinct
  <2>3. CASE queue # <<>>
    <3>1. /\ worker'.msg = queue[1] /\ queue' = Tail(queue) /\ UNCHANGED <<hal, heap>>
      BY <1>0, <1>7, <2>3, TakeEffect
    <3>2. /\ 1 \in DOMAIN queue
          /\ \A i \in DOMAIN queue' :
               i \in Nat /\ i + 1 \in DOMAIN queue /\ i + 1 # 1 /\ queue'[i] = queue[i + 1]
      BY <1>0, <2>3, <3>1, Taken
    <3>3. Places'  BY <1>a, <3>1, <3>2 DEF Places
    <3>4. Distinct'  BY <1>a, <3>1, <3>2 DEF Distinct
    <3> QED  BY <3>3, <3>4
  <2> QED  BY <2>2, <2>3
<1>8. CASE WorkerSpurious \/ WorkerDeliver
  BY <1>0, <1>a, <1>8, WakeEffect, DeliverEffect DEF Places, Distinct
<1>9. CASE WorkerUpdate \/ WorkerDiscard \/ UserCallbackReturns
  <2>1. /\ worker'.msg = NoMsg /\ heap' = heap \ {worker.msg.msg} /\ UNCHANGED <<queue, hal>>
    BY <1>0, <1>9, UpdateEffect, CleanEffect
  <2>2. worker'.msg.msg = NULL  BY <2>1, MessageTypes
  <2> QED  BY <1>a, <2>1, <2>2 DEF Places, Distinct
<1>10. CASE WorkerExit
  BY <1>0, <1>a, <1>10, ExitEffect, Emptied, MessageTypes DEF Places, Distinct
<1>11. ASSUME NEW h \in HalThreads, HalEnter(h) \/ HalReturn(h) \/ (HalCheck(h) /\ blockCbs)
       PROVE Places' /\ Distinct'
  BY <1>0, <1>a, <1>11, HalPcEffect DEF Places, Distinct
<1>12. ASSUME NEW h \in HalThreads, HalCheck(h), ~blockCbs  PROVE Places' /\ Distinct'
  BY <1>0, <1>a, <1>b, <1>12, HalCheckEffect DEF Places, Distinct
<1>13. ASSUME NEW h \in HalThreads, HalPost(h)  PROVE Places' /\ Distinct'
  <2> DEFINE m == Exec(hal[h].msg, h)
             n == Len(queue) + 1
  <2>1. m \in Messages /\ queue' = Append(queue, m)  BY <1>0, <1>13, HalPostEffect
  <2>2. m.msg = hal[h].msg  BY MessageTypes
  <2> HIDE DEF m
  <2>3. /\ DOMAIN queue' = DOMAIN queue \cup {n} /\ queue'[n] = m
        /\ \A i \in DOMAIN queue : queue'[i] = queue[i]
    BY <1>0, <2>1, Pushed
  <2>4. /\ worker'.msg = worker.msg /\ UNCHANGED heap
        /\ hal'[h].msg = NULL /\ \A g \in HalThreads : g # h => hal'[g] = hal[g]
    BY <1>0, <1>13, HalPostEffect, Notified
  <2>5. Places'  BY <1>a, <2>2, <2>3, <2>4 DEF Places
  <2>6. Distinct'  BY <1>a, <2>2, <2>3, <2>4 DEF Distinct
  <2> QED  BY <2>5, <2>6
<1> QED
  BY <1>1, <1>2, <1>3, <1>4, <1>5, <1>6, <1>7, <1>8, <1>9, <1>10, <1>11, <1>12, <1>13, Cases

(* The queue after a step that adds a message of thread f to it. *)
Longer(n, id, p, f) ==
    /\ DOMAIN queue' = DOMAIN queue \cup {n} /\ n \in Nat
    /\ queue'[n].id = id /\ queue'[n].msg = p /\ queue'[n].from = f
    /\ \A i \in DOMAIN queue : i \in Nat /\ i < n /\ queue'[i] = queue[i]
    /\ worker'.msg = worker.msg /\ worker'.cb = worker.cb

LEMMA AddsMessage ==
    ASSUME TypeOK
    PROVE  /\ SetCallbacks => \E n : Longer(n, "UPDATE_CALLBACKS", next, "client")
           /\ ExitThread => \E n : Longer(n, "EXIT_THREAD", NULL, "client")
           /\ \A h \in HalThreads :
                HalPost(h) => \E n : Longer(n, "EXECUTE_CALLBACK", hal[h].msg, h)
<1>1. ASSUME NEW m \in Messages, queue' = Append(queue, m), worker' = NotifyOne
      PROVE  Longer(Len(queue) + 1, m.id, m.msg, m.from)
  BY <1>1, Pushed, Notified DEF Longer
<1>2. ASSUME SetCallbacks  PROVE \E n : Longer(n, "UPDATE_CALLBACKS", next, "client")
  <2> DEFINE m == Update(next)
  <2>1. m \in Messages /\ queue' = Append(queue, m) /\ worker' = NotifyOne  BY <1>2, SetEffect
  <2>2. m.id = "UPDATE_CALLBACKS" /\ m.msg = next /\ m.from = "client"  BY MessageTypes
  <2> HIDE DEF m
  <2> QED  BY <1>1, <2>1, <2>2
<1>3. ASSUME ExitThread  PROVE \E n : Longer(n, "EXIT_THREAD", NULL, "client")
  BY <1>1, <1>3, ExitThreadEffect, MessageTypes
<1>4. ASSUME NEW h \in HalThreads, HalPost(h)
      PROVE  \E n : Longer(n, "EXECUTE_CALLBACK", hal[h].msg, h)
  <2> DEFINE m == Exec(hal[h].msg, h)
  <2>1. m \in Messages /\ queue' = Append(queue, m) /\ worker' = NotifyOne  BY <1>4, HalPostEffect
  <2>2. m.id = "EXECUTE_CALLBACK" /\ m.msg = hal[h].msg /\ m.from = h  BY MessageTypes
  <2> HIDE DEF m
  <2> QED  BY <1>1, <2>1, <2>2
<1> QED  BY <1>2, <1>3, <1>4

LEMMA CurrentKeeps ==
    ASSUME IInv, Next
    PROVE  Current'
<1>0. TypeOK /\ AtWork /\ Carrying /\ Lifetime /\ Current  BY DEF IInv
<1>a. next \in Nat /\ next # NULL /\ base \in Nat  BY <1>0 DEF TypeOK, NULL
<1>1. CASE ClientOnly
  BY <1>0, <1>1, ClientOnlyEffect DEF Unmoved, Current
<1>2. CASE Open
  <2>1. queue = <<>> /\ worker.msg = NoMsg /\ worker.cb = NULL /\ registered = NULL
    BY <1>0, <1>2, OpenEffect DEF Lifetime
  <2>2. DOMAIN queue = {}  BY <2>1
  <2>3. \A h \in HalThreads : hal[h].msg = NULL
    BY <1>0, <2>1 DEF Lifetime, Carrying
  <2>4. next <= next  BY <1>a
  <2>5. /\ UNCHANGED <<queue, hal, next>> /\ base' = next
        /\ worker'.msg = NoMsg /\ worker'.cb = NULL
    BY <1>0, <1>2, <2>1, OpenEffect DEF Unmoved
  <2> QED  BY <2>2, <2>3, <2>4, <2>5, MessageTypes DEF Current
<1>3. CASE SetCallbacks
  <2>1. PICK n : Longer(n, "UPDATE_CALLBACKS", next, "client")  BY <1>0, <1>3, AddsMessage
  <2>2. next' = next + 1 /\ UNCHANGED <<base, hal>>  BY <1>0, <1>3, SetEffect
  <2> QED  BY <1>0, <1>a, <2>1, <2>2 DEF Longer, Current
<1>4. CASE ClearCallbacks
  BY <1>0, <1>4, ClearEffect, Notified, Emptied DEF Current
<1>5. CASE ExitThread
  <2>1. PICK n : Longer(n, "EXIT_THREAD", NULL, "client")  BY <1>0, <1>5, AddsMessage
  <2>2. UNCHANGED <<base, next, hal>>  BY <1>0, <1>5, ExitThreadEffect
  <2> QED  BY <1>0, <2>1, <2>2 DEF Longer, Current
<1>6. CASE Join  BY <1>0, <1>6, JoinEffect DEF Unmoved, Current
<1>7. CASE WorkerTake
  BY <1>0, <1>7, TakeEffect, Taken DEF clientVars, Current
<1>8. CASE WorkerSpurious \/ WorkerDeliver
  BY <1>0, <1>8, WakeEffect, DeliverEffect DEF clientVars, Current
<1>9. CASE WorkerUpdate
  BY <1>0, <1>9, UpdateEffect, MessageTypes DEF clientVars, Current
<1>10. CASE WorkerDiscard \/ UserCallbackReturns
  BY <1>0, <1>10, CleanEffect, MessageTypes DEF clientVars, Current
<1>11. CASE WorkerExit
  BY <1>0, <1>11, ExitEffect, Emptied, MessageTypes DEF clientVars, Current
<1>12. ASSUME NEW h \in HalThreads, HalEnter(h) \/ HalReturn(h) \/ (HalCheck(h) /\ blockCbs)
       PROVE Current'
  BY <1>0, <1>12, HalPcEffect DEF clientVars, Current
<1>13. ASSUME NEW h \in HalThreads, HalCheck(h), ~blockCbs  PROVE Current'
  <2>1. /\ hal'[h].msg = next /\ \A g \in HalThreads : g # h => hal'[g] = hal[g]
        /\ next' = next + 1 /\ UNCHANGED <<queue, worker, base>>
    BY <1>0, <1>13, HalCheckEffect DEF clientVars
  <2> QED  BY <1>0, <1>a, <2>1 DEF Current
<1>14. ASSUME NEW h \in HalThreads, HalPost(h)  PROVE Current'
  <2>1. PICK n : Longer(n, "EXECUTE_CALLBACK", hal[h].msg, h)  BY <1>0, <1>14, AddsMessage
  <2>2. /\ hal'[h].msg = NULL /\ \A g \in HalThreads : g # h => hal'[g] = hal[g]
        /\ UNCHANGED <<base, next>>
    BY <1>0, <1>14, HalPostEffect DEF clientVars
  <2> QED  BY <1>0, <2>1, <2>2 DEF Longer, Current
<1> QED
  BY <1>1, <1>2, <1>3, <1>4, <1>5, <1>6, <1>7, <1>8, <1>9, <1>10, <1>11, <1>12, <1>13, <1>14, Cases

LEMMA SlipsKeeps ==
    ASSUME IInv, Next
    PROVE  Slips'
<1>0. TypeOK /\ AtWork /\ Carrying /\ Slips  BY DEF IInv
<1>1. SUFFICES ASSUME Silenced'  PROVE \A h \in HalThreads :
                 /\ \A i, j \in DOMAIN queue' : queue'[i].from = h /\ queue'[j].from = h => i = j
                 /\ hal'[h].pc = "post" => \A i \in DOMAIN queue' : queue'[i].from # h
  BY DEF Slips
<1>2. client'.op \in Blocking /\ client'.pc \in {"guard", "vendor", "unblock"}
  BY <1>1 DEF Silenced, Blocking
<1>3. CASE ClearCallbacks  BY <1>0, <1>3, ClearEffect, Emptied
<1>4. CASE ~ClearCallbacks
  <2>1. CASE ClientOnly
    <3>1. Silenced
      <4>1. CASE GuardExpires  BY <1>2, <4>1 DEF GuardExpires, Silenced, Blocking
      <4>2. CASE CheckGuard \/ VendorReturn
        BY <1>0, <1>2, <4>2, GuardEffect, VendorEffect DEF Silenced, Blocking
      <4>3. CASE OpenReturn \/ Block \/ AutoFocus \/ Forward \/ Close \/ Unblock
        BY <1>0, <1>2, <4>3, OpenReturnEffect, CallEffect, UnblockEffect DEF Blocking
      <4> QED  BY <2>1, <4>1, <4>2, <4>3 DEF ClientOnly
    <3> QED  BY <1>0, <2>1, <3>1, ClientOnlyEffect DEF Slips, Unmoved
  <2>2. CASE Open \/ SetCallbacks \/ ExitThread \/ Join
    BY <1>0, <1>2, <2>2, OpenEffect, SetEffect, ExitThreadEffect, JoinEffect DEF Blocking, AtWork
  <2>3. CASE UNCHANGED client
    <3>1. Silenced /\ blockCbs  BY <1>0, <1>2, <2>3 DEF Silenced, Blocking, AtWork
    <3>2. CASE WorkerTake  BY <1>0, <3>1, <3>2, TakeEffect, Taken, SMTT(30) DEF Slips
    <3>3. CASE WorkerExit  BY <1>0, <3>3, ExitEffect, Emptied
    <3>4. CASE UNCHANGED <<queue, hal>>  BY <1>0, <3>1, <3>4 DEF Slips
    <3>5. ASSUME NEW h \in HalThreads, HalEnter(h) \/ HalReturn(h) \/ (HalCheck(h) /\ blockCbs)
          PROVE  \A g \in HalThreads :
                 /\ \A i, j \in DOMAIN queue' : queue'[i].from = g /\ queue'[j].from = g => i = j
                 /\ hal'[g].pc = "post" => \A i \in DOMAIN queue' : queue'[i].from # g
      BY <1>0, <3>1, <3>5, HalPcEffect DEF Slips
    <3>6. ASSUME NEW h \in HalThreads, HalPost(h)
          PROVE  \A g \in HalThreads :
                 /\ \A i, j \in DOMAIN queue' : queue'[i].from = g /\ queue'[j].from = g => i = j
                 /\ hal'[g].pc = "post" => \A i \in DOMAIN queue' : queue'[i].from # g
      <4>1. PICK n : Longer(n, "EXECUTE_CALLBACK", hal[h].msg, h)  BY <1>0, <3>6, AddsMessage
      <4>2. /\ hal[h].pc = "post" /\ hal'[h].pc = "delay"
            /\ \A g \in HalThreads : g # h => hal'[g] = hal[g]
        BY <1>0, <3>6, HalPostEffect
      <4> QED  BY <1>0, <3>1, <4>1, <4>2 DEF Longer, Slips
    <3>7. CASE WorkerSpurious \/ WorkerDeliver \/ WorkerUpdate \/ WorkerDiscard \/ UserCallbackReturns
      BY <1>0, <3>4, <3>7, WakeEffect, DeliverEffect, UpdateEffect, CleanEffect
    <3>8. CASE ClientOnly  BY <2>1, <3>8
    <3> QED  BY <1>4, <2>2, <3>1, <3>2, <3>3, <3>5, <3>6, <3>7, <3>8, Cases
  <2>4. ClientOnly \/ Open \/ SetCallbacks \/ ExitThread \/ Join \/ UNCHANGED client
    BY <1>4 DEF Next, ClientCalls, ClientContinues, ClientOnly, Worker, WorkerTake, WorkerDeliver,
         WorkerDiscard, WorkerUpdate, WorkerExit, WorkerSpurious, UserCallbackReturns,
         HalEnter, Hal, HalCheck, HalPost, HalReturn, clientVars
  <2> QED  BY <2>1, <2>2, <2>3, <2>4
<1> QED  BY <1>3, <1>4

LEMMA UpdatesKeeps ==
    ASSUME IInv, Next
    PROVE  Updates'
<1>0. TypeOK /\ AtWork /\ Carrying /\ Lifetime /\ NoDangling /\ Updates  BY DEF IInv
<1>a. next \in Nat /\ next # NULL /\ registered \in Nat /\ worker.cb \in Nat
  BY <1>0 DEF TypeOK, NULL
<1>b. /\ \A i \in DOMAIN queue : i \in Nat /\ queue[i].msg \in Nat
      /\ worker.msg.msg \in Nat /\ \A h \in HalThreads : hal[h].msg \in Nat
  <2>1. \A m \in Messages : m.msg \in Nat  BY DEF Messages
  <2>2. queue \in Seq(Messages) /\ worker.msg \in Messages  BY <1>0 DEF TypeOK
  <2>3. \A i \in DOMAIN queue : i \in Nat /\ queue[i] \in Messages  BY <2>2
  <2>4. \A h \in HalThreads : hal[h].msg \in Nat  BY <1>0 DEF TypeOK
  <2> QED  BY <2>1, <2>2, <2>3, <2>4
<1>c. /\ \A i \in DOMAIN queue : queue[i].msg # NULL => queue[i].msg < next
      /\ worker.msg.msg # NULL => worker.msg.msg < next
      /\ \A h \in HalThreads : hal[h].msg # NULL => hal[h].msg < next
  BY <1>0, HeldBound
<1>1. CASE ClientOnly
  <2>1. UNCHANGED <<queue, worker, hal, next>>  BY <1>0, <1>1, ClientOnlyEffect DEF Unmoved
  <2>2. registered' = registered \/ registered' = NULL
    <3>1. CASE VendorReturn  BY <1>0, <3>1, VendorEffect
    <3>2. CASE GuardExpires  BY <3>2 DEF GuardExpires
    <3> QED  BY <1>0, <1>1, <3>1, <3>2, OpenReturnEffect, CallEffect, GuardEffect, UnblockEffect DEF ClientOnly
  <2>3. NULL < next  BY <1>a DEF NULL
  <2> QED  BY <1>0, <2>1, <2>2, <2>3 DEF Updates
<1>2. CASE Open
  <2>1. queue = <<>> /\ worker.msg = NoMsg /\ worker.cb = NULL /\ registered = NULL
    BY <1>0, <1>2, OpenEffect DEF Lifetime
  <2>2. DOMAIN queue = {}  BY <2>1
  <2>3. /\ UNCHANGED <<queue, hal, next, registered>>
        /\ worker'.msg = NoMsg /\ worker'.cb = NULL
    BY <1>0, <1>2, <2>1, OpenEffect DEF Unmoved
  <2> QED  BY <1>0, <2>1, <2>2, <2>3, MessageTypes DEF Updates
<1>3. CASE SetCallbacks
  <2>1. PICK n : Longer(n, "UPDATE_CALLBACKS", next, "client")  BY <1>0, <1>3, AddsMessage
  <2>2. next' = next + 1 /\ registered' = next /\ UNCHANGED hal  BY <1>0, <1>3, SetEffect
  <2>3. /\ \A i \in DOMAIN queue : queue[i].msg < next
        /\ worker.msg.msg < next
        /\ \A h \in HalThreads : hal[h].msg < next
    BY <1>a, <1>b, <1>c DEF NULL
  <2>4. registered' < next' /\ worker'.cb < next'
    BY <1>0, <1>a, <2>1, <2>2 DEF Updates, Longer
  <2>5. \A i \in DOMAIN queue' : queue'[i].id = "UPDATE_CALLBACKS" =>
         /\ worker'.cb < queue'[i].msg
         /\ queue'[i].msg <= registered'
         /\ worker'.msg.id = "UPDATE_CALLBACKS" => worker'.msg.msg < queue'[i].msg
         /\ \A j \in DOMAIN queue' :
              j > i /\ queue'[j].id = "UPDATE_CALLBACKS" => queue'[i].msg < queue'[j].msg
    BY <1>0, <1>a, <1>b, <2>1, <2>2, <2>3 DEF Updates, Longer
  <2>6. worker'.msg.id = "UPDATE_CALLBACKS" =>
         worker'.cb < worker'.msg.msg /\ worker'.msg.msg <= registered'
    BY <1>0, <1>a, <1>b, <2>1, <2>2, <2>3 DEF Updates, Longer
  <2>7. /\ \A i \in DOMAIN queue' : queue'[i].msg = registered' => queue'[i].id = "UPDATE_CALLBACKS"
        /\ worker'.msg.msg = registered' => worker'.msg.id = "UPDATE_CALLBACKS"
        /\ \A h \in HalThreads : hal'[h].msg # registered'
    BY <1>a, <1>b, <2>1, <2>2, <2>3 DEF Longer
  <2> QED  BY <2>4, <2>5, <2>6, <2>7 DEF Updates
<1>4. CASE ClearCallbacks
  BY <1>0, <1>4, ClearEffect, Notified, Emptied DEF Updates
<1>5. CASE ExitThread
  <2>1. PICK n : Longer(n, "EXIT_THREAD", NULL, "client")  BY <1>0, <1>5, AddsMessage
  <2>2. UNCHANGED <<registered, next, hal>>  BY <1>0, <1>5, ExitThreadEffect
  <2> QED  BY <1>0, <2>1, <2>2 DEF Longer, Updates
<1>6. CASE Join  BY <1>0, <1>6, JoinEffect DEF Unmoved, Updates
<1>7. CASE WorkerTake
  <2>1. CASE queue = <<>>
    BY <1>0, <1>7, <2>1, TakeEffect DEF clientVars, Updates
  <2>2. CASE queue # <<>>
    <3>1. /\ worker'.msg = queue[1] /\ worker'.cb = worker.cb /\ queue' = Tail(queue)
          /\ UNCHANGED <<hal, next, registered>>
      BY <1>0, <1>7, <2>2, TakeEffect DEF clientVars
    <3>2. /\ 1 \in DOMAIN queue
          /\ \A i \in DOMAIN queue' :
               i \in Nat /\ i + 1 \in DOMAIN queue /\ i + 1 > 1 /\ queue'[i] = queue[i + 1]
      BY <1>0, <2>2, <3>1, Taken
    <3> QED  BY <1>0, <3>1, <3>2 DEF Updates
  <2> QED  BY <2>1, <2>2
<1>8. CASE WorkerSpurious \/ WorkerDeliver
  BY <1>0, <1>8, WakeEffect, DeliverEffect DEF clientVars, Updates
<1>9. CASE WorkerUpdate
  <2>1. /\ worker.msg.id = "UPDATE_CALLBACKS" /\ worker'.msg = NoMsg /\ worker'.cb = worker.msg.msg
        /\ worker.pc = "handle" /\ UNCHANGED <<queue, hal, next, registered>>
    BY <1>0, <1>9, UpdateEffect DEF clientVars
  <2>2. worker.msg.msg < next  BY <1>0, <1>c, <2>1 DEF Carrying
  <2> QED  BY <1>0, <2>1, <2>2, MessageTypes DEF Updates
<1>10. CASE WorkerDiscard \/ UserCallbackReturns
  BY <1>0, <1>10, CleanEffect, MessageTypes DEF clientVars, Updates
<1>11. CASE WorkerExit
  <2>1. NULL < next  BY <1>a DEF NULL
  <2> QED  BY <1>0, <1>11, <2>1, ExitEffect, Emptied, MessageTypes DEF clientVars, Updates
<1>12. ASSUME NEW h \in HalThreads, HalEnter(h) \/ HalReturn(h) \/ (HalCheck(h) /\ blockCbs)
       PROVE Updates'
  BY <1>0, <1>12, HalPcEffect DEF clientVars, Updates
<1>13. ASSUME NEW h \in HalThreads, HalCheck(h), ~blockCbs  PROVE Updates'
  <2>1. /\ hal'[h].msg = next /\ \A g \in HalThreads : g # h => hal'[g] = hal[g]
        /\ next' = next + 1 /\ UNCHANGED <<queue, worker, registered>>
    BY <1>0, <1>13, HalCheckEffect DEF clientVars
  <2>2. next # registered /\ registered < next + 1 /\ worker.cb < next + 1
    BY <1>0, <1>a DEF Updates
  <2> QED  BY <1>0, <2>1, <2>2 DEF Updates
<1>14. ASSUME NEW h \in HalThreads, HalPost(h)  PROVE Updates'
  <2>1. PICK n : Longer(n, "EXECUTE_CALLBACK", hal[h].msg, h)  BY <1>0, <1>14, AddsMessage
  <2>2. /\ hal'[h].msg = NULL /\ \A g \in HalThreads : g # h => hal'[g] = hal[g]
        /\ UNCHANGED <<next, registered>>
    BY <1>0, <1>14, HalPostEffect DEF clientVars
  <2> QED  BY <1>0, <2>1, <2>2 DEF Longer, Updates
<1> QED
  BY <1>1, <1>2, <1>3, <1>4, <1>5, <1>6, <1>7, <1>8, <1>9, <1>10, <1>11, <1>12, <1>13, <1>14, Cases

(* IInv is inductive. *)
LEMMA StepIInv == IInv /\ [Next]_vars => IInv'
<1> SUFFICES ASSUME IInv, [Next]_vars PROVE IInv'  OBVIOUS
<1>1. CASE Next
  <2>1. NoDangling'
    <3>1. (NoDangling <=> Places /\ Distinct)'  BY NoDanglingParts, PTL
    <3> QED  BY <1>1, <3>1, NoDanglingKeeps
  <2> QED
    BY <1>1, <2>1, TypeKeeps, AtWorkKeeps, LifetimeKeeps, CarryingKeeps, CurrentKeeps, SlipsKeeps,
       UpdatesKeeps DEF IInv
<1>2. CASE UNCHANGED vars
  BY <1>2 DEF vars, IInv, TypeOK, AtWork, Lifetime, Carrying, NoDangling, Held, Current, Slips,
              Silenced, Updates
<1> QED  BY <1>1, <1>2

LEMMA Invariant == Spec => []IInv
  BY InitIInv, StepIInv, PTL DEF Spec

-----------------------------------------------------------------------------
(* The properties *)

(* The payload of every message between the HAL threads, the queue and       *)
(* Process() is allocated and has one owner; the worker runs as long as      *)
(* anybody may post to it; and it only ever delivers callbacks of the camera *)
(* that is open (CallbackWorkerThread.cpp with Camera2Wrapper.cpp).          *)
THEOREM Ownership == Spec => []OwnershipInv
<1>1. IInv => OwnershipInv
  <2> SUFFICES ASSUME IInv PROVE OwnershipInv  OBVIOUS
  <2>1. ThreadExists
    BY DEF IInv, AtWork, Lifetime, ThreadExists
  <2>2. SessionIsolation
    <3>1. ASSUME worker.pc = "callback"
          PROVE  worker.msg.msg # NULL /\ worker.cb # NULL
      BY <3>1 DEF IInv, Carrying
    <3> QED  BY <3>1 DEF IInv, Current, SessionIsolation
  <2> QED  BY <2>1, <2>2 DEF IInv, OwnershipInv
<1> QED  BY <1>1, Invariant, PTL

(* From the moment stop_preview or cancel_auto_focus has cleared the queue   *)
(* until BlockCbs is reset, each HAL thread puts at most one callback into   *)
(* the queue: the one it had allocated before BlockCbs was set.              *)
THEOREM OneSlips == Spec => []AtMostOneSlips
<1>1. IInv => AtMostOneSlips
  <2> SUFFICES ASSUME IInv, Silenced, NEW h \in HalThreads
               PROVE  Cardinality({i \in DOMAIN queue : queue[i].from = h})
                        + (IF hal[h].pc = "post" THEN 1 ELSE 0) <= 1
    BY DEF AtMostOneSlips
  <2> DEFINE S == {i \in DOMAIN queue : queue[i].from = h}
  <2>1. \A i, j \in S : i = j  BY DEF IInv, Slips
  <2>2. hal[h].pc = "post" => S = {}  BY DEF IInv, Slips
  <2> HIDE DEF S
  <2>3. CASE S = {}
    <3>1. Cardinality(S) = 0  BY <2>3, FS_EmptySet
    <3> QED  BY <3>1 DEF S
  <2>4. CASE S # {}
    <3>1. PICK x : S = {x}  BY <2>1, <2>4
    <3>2. Cardinality(S) = 1  BY <3>1, FS_Singleton
    <3>3. hal[h].pc # "post"  BY <2>2, <2>4
    <3> QED  BY <3>2, <3>3 DEF S
  <2> QED  BY <2>3, <2>4
<1> QED  BY <1>1, Invariant, PTL

(* The callbacks of the last set_callbacks stay on their way to the worker,  *)
(* or its current ones, over every step but ClearCallbacks: no other message *)
(* replaces them and no clean-up frees them.                                 *)
THEOREM Registered == Spec => RegisteredKept
<1>1. IInv /\ [Next]_vars =>
        [registered # NULL /\ registered' = registered /\ Reaching
           => Reaching' \/ client.pc = "clear"]_vars
  <2> SUFFICES ASSUME IInv, Next, registered # NULL, registered' = registered, Reaching,
                      client.pc # "clear"
               PROVE  Reaching'
    OBVIOUS
  <2>0. TypeOK /\ AtWork /\ Lifetime /\ Carrying /\ NoDangling /\ Updates  BY DEF IInv
  <2>a. \/ \E i \in DOMAIN queue : queue[i].msg = registered
        \/ worker.msg.msg = registered
        \/ worker.cb = registered
    BY <2>0 DEF Reaching, Held, Updates
  <2>b. SUFFICES \/ \E i \in DOMAIN queue' : queue'[i].msg = registered
                 \/ worker'.msg.msg = registered
                 \/ worker'.cb = registered
    BY DEF Reaching, Held
  <2>c. client.pc # "join" /\ opened  BY <2>0 DEF Lifetime, AtWork
  <2>1. CASE ClientOnly  BY <2>0, <2>a, <2>1, ClientOnlyEffect DEF Unmoved
  <2>2. CASE Open \/ ClearCallbacks \/ Join
    BY <2>0, <2>c, <2>2, OpenEffect, ClearEffect, JoinEffect
  <2>3. CASE SetCallbacks
    <3>1. registered \in Nat /\ registered < next /\ registered = next
      BY <2>0, <2>3, SetEffect DEF TypeOK, Updates
    <3> QED  BY <3>1
  <2>4. CASE ExitThread
    <3>1. PICK n : Longer(n, "EXIT_THREAD", NULL, "client")  BY <2>0, <2>4, AddsMessage
    <3> QED  BY <2>a, <3>1 DEF Longer
  <2>5. CASE WorkerTake
    <3>1. CASE queue = <<>>  BY <2>0, <2>a, <2>5, <3>1, TakeEffect
    <3>2. CASE queue # <<>>
      <4>1. worker.msg.msg = NULL  BY <2>0, <2>5, TakeEffect, MessageTypes DEF Carrying
      <4>2. queue' = Tail(queue) /\ worker'.msg = queue[1] /\ worker'.cb = worker.cb
        BY <2>0, <2>5, <3>2, TakeEffect
      <4>3. ASSUME NEW i \in DOMAIN queue, i # 1
            PROVE  \E j \in DOMAIN queue' : queue'[j] = queue[i]
        <5>1. queue \in Seq(Messages)  BY <2>0 DEF TypeOK
        <5>2. i - 1 \in DOMAIN queue' /\ queue'[i - 1] = queue[i]  BY <3>2, <4>2, <4>3, <5>1
        <5> QED  BY <5>2
      <4> QED  BY <2>a, <4>1, <4>2, <4>3
    <3> QED  BY <3>1, <3>2
  <2>6. CASE WorkerSpurious \/ WorkerDeliver
    BY <2>0, <2>a, <2>6, WakeEffect, DeliverEffect
  <2>7. CASE WorkerUpdate
    <3>1. /\ worker.msg.id = "UPDATE_CALLBACKS" /\ worker'.cb = worker.msg.msg /\ UNCHANGED queue
          /\ worker.msg.msg \in Nat
      BY <2>0, <2>7, UpdateEffect
    <3>2. worker.cb # registered
      <4>1. worker.cb \in Nat /\ registered \in Nat  BY <2>0 DEF TypeOK
      <4> QED  BY <2>0, <3>1, <4>1 DEF Updates
    <3> QED  BY <2>a, <3>1, <3>2
  <2>8. CASE WorkerDiscard \/ UserCallbackReturns
    <3>1. worker.msg.msg # registered  BY <2>0, <2>8, CleanEffect DEF Updates
    <3> QED  BY <2>0, <2>a, <2>8, <3>1, CleanEffect
  <2>9. CASE WorkerExit
    BY <2>0, <2>c, <2>9, ExitEffect DEF Lifetime
  <2>10. ASSUME NEW h \in HalThreads, HalEnter(h) \/ HalReturn(h) \/ HalCheck(h)
         PROVE  UNCHANGED <<queue, worker>>
    BY <2>10 DEF HalEnter, HalReturn, HalCheck
  <2>11. ASSUME NEW h \in HalThreads, HalPost(h)
         PROVE  \/ \E i \in DOMAIN queue' : queue'[i].msg = registered
                \/ worker'.msg.msg = registered
                \/ worker'.cb = registered
    <3>1. PICK n : Longer(n, "EXECUTE_CALLBACK", hal[h].msg, h)  BY <2>0, <2>11, AddsMessage
    <3> QED  BY <2>a, <3>1 DEF Longer
  <2> QED
    BY <2>a, <2>1, <2>2, <2>3, <2>4, <2>5, <2>6, <2>7, <2>8, <2>9, <2>10, <2>11, Cases
<1> QED  BY <1>1, Invariant, PTL DEF Spec, RegisteredKept
=============================================================================
