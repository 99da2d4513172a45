-------------------------- MODULE CameraCallbacks --------------------------
(***************************************************************************)
(* The camera wrapper of one legacy camera: the client thread in the       *)
(* functions of Camera2Wrapper.cpp, the vendor HAL's threads in            *)
(* WrappedNotifyCb and WrappedDataCb, and the worker thread of             *)
(* CallbackWorkerThread.cpp, which calls the client's callbacks.           *)
(*                                                                         *)
(* Critical sections of m_mutex are single steps; so are the accesses to   *)
(* the atomic BlockCbs.  The two callback pointers are registered together *)
(* and the two wrapped callbacks differ only in which pointer is called,   *)
(* so one pointer and one kind of callback stand for both.                 *)
(*                                                                         *)
(* External, from the description at the head of CallbackWorkerThread.cpp: *)
(* "The HAL waits for the callback functions to return before they finish  *)
(* processing the client calls and the client stops processing callbacks   *)
(* until their calling function completes."                                *)
(***************************************************************************)
EXTENDS Naturals, Sequences, FiniteSets

CONSTANTS
    HalThreads,    \* threads of the vendor HAL
    LockingCalls,  \* client calls during which the client handles no callback
    MaxCalls,      \* bound on the calls of the client
    MaxCallbacks   \* bound on the callbacks of the HAL

Ops == {"open", "close", "set_callbacks", "stop_preview", "auto_focus",
        "cancel_auto_focus", "forward"}

ASSUME ClientAssumption == LockingCalls \subseteq Ops
ASSUME BoundAssumption == MaxCalls \in Nat /\ MaxCallbacks \in Nat

VARIABLES
    client,     \* pc and current function of the client thread
    opened,     \* the wrapper device exists (*device is not NULL)
    registered, \* callbacks of the last set_callbacks; from then on the vendor
                \*   HAL holds WrappedNotifyCb and WrappedDataCb
    blockCbs,   \* BlockCbs = 1
    guarded,    \* CancelAFTimeGuard lies in the future
    thread,     \* m_thread is not NULL
    queue,      \* m_queue
    worker,     \* pc, current message and UserNotifyCb/UserDataCb of Process()
    hal,        \* per HAL thread: pc and payload of the callback it runs
    heap,       \* payloads (WorkerMessage, CallbackData) allocated and not freed
    next,       \* the next payload
    base,       \* history: the first payload of this session
    calls, callbacks  \* counters for the bounds

vars == <<client, opened, registered, blockCbs, guarded, thread, queue, worker,
          hal, heap, next, base, calls, callbacks>>
clientVars == <<client, opened, registered, blockCbs, guarded, thread, base, calls>>

NULL == 0

\* A ThreadMsg: its id, its payload and the thread it comes from.  A payload is
\* named by the order of allocation; a CallbackData also stands for the
\* callback pointers in it.
Exec(p, h) == [id |-> "EXECUTE_CALLBACK", msg |-> p, from |-> h]
Update(p) == [id |-> "UPDATE_CALLBACKS", msg |-> p, from |-> "client"]
Exit == [id |-> "EXIT_THREAD", msg |-> NULL, from |-> "client"]
NoMsg == [id |-> "none", msg |-> NULL, from |-> "client"]

Init ==
    /\ client = [pc |-> "idle", op |-> "none"]
    /\ opened = FALSE /\ registered = NULL
    /\ blockCbs = FALSE /\ guarded = FALSE
    /\ thread = FALSE /\ queue = <<>>
    /\ worker = [pc |-> "none", msg |-> NoMsg, cb |-> NULL]
    /\ hal = [h \in HalThreads |-> [pc |-> "idle", msg |-> NULL]]
    /\ heap = {} /\ next = 1 /\ base = 1
    /\ calls = 0 /\ callbacks = 0

-----------------------------------------------------------------------------
(* CallbackWorkerThread: the parts that run in the callers' threads *)

\* m_cv.notify_one(): only Process() ever waits on m_cv.
NotifyOne == IF worker.pc = "asleep" THEN [worker EXCEPT !.pc = "check"] ELSE worker

Push(m) ==
    /\ queue' = Append(queue, m)
    /\ worker' = NotifyOne

-----------------------------------------------------------------------------
(* The worker thread: CallbackWorkerThread::Process *)

\* The critical section at the top of the loop: sleep on m_cv or take a message.
WorkerTake ==
    /\ worker.pc = "check"
    /\ \/ /\ queue = <<>>
          /\ worker' = [worker EXCEPT !.pc = "asleep"]
          /\ UNCHANGED queue
       \/ /\ queue # <<>>
          /\ worker' = [worker EXCEPT !.pc = "handle", !.msg = Head(queue)]
          /\ queue' = Tail(queue)
    /\ UNCHANGED <<clientVars, hal, heap, next, callbacks>>

\* A spurious wake-up of m_cv.wait.
WorkerSpurious ==
    /\ worker.pc = "asleep"
    /\ worker' = [worker EXCEPT !.pc = "check"]
    /\ UNCHANGED <<clientVars, queue, hal, heap, next, callbacks>>

\* MSG_EXECUTE_CALLBACK: fresh and with a callback registered it is passed on.
\* Whether 5 ms went by since the caller's timestamp is not determined.
WorkerDeliver ==
    /\ worker.pc = "handle" /\ worker.msg.id = "EXECUTE_CALLBACK"
    /\ worker.cb # NULL
    /\ worker' = [worker EXCEPT !.pc = "callback"]
    /\ UNCHANGED <<clientVars, queue, hal, heap, next, callbacks>>

\* Fault: the message is taken again after the clean-up.
WorkerDiscard_Keep ==
    /\ worker.pc = "handle" /\ worker.msg.id = "EXECUTE_CALLBACK"
    /\ heap' = heap \ {worker.msg.msg}
    /\ UNCHANGED <<clientVars, queue, worker, hal, next, callbacks>>

\* The message was stale or no callback is registered: only clean up.
WorkerDiscard ==
    /\ worker.pc = "handle" /\ worker.msg.id = "EXECUTE_CALLBACK"
    /\ heap' = heap \ {worker.msg.msg}
    /\ worker' = [worker EXCEPT !.pc = "check", !.msg = NoMsg]
    /\ UNCHANGED <<clientVars, queue, hal, next, callbacks>>

\* External: the client's callback returns, unless the client is inside a call
\* during which it does not process callbacks.  Then the worker cleans up.
UserCallbackReturns ==
    /\ worker.pc = "callback"
    /\ client.op \notin LockingCalls
    /\ heap' = heap \ {worker.msg.msg}
    /\ worker' = [worker EXCEPT !.pc = "check", !.msg = NoMsg]
    /\ UNCHANGED <<clientVars, queue, hal, next, callbacks>>

\* Fault: callbacks that are set already are kept.
WorkerUpdate_First ==
    /\ worker.pc = "handle" /\ worker.msg.id = "UPDATE_CALLBACKS"
    /\ worker' = [pc |-> "check", msg |-> NoMsg, cb |-> IF worker.cb = NULL THEN worker.msg.msg ELSE worker.cb]
    /\ heap' = heap \ {worker.msg.msg}
    /\ UNCHANGED <<clientVars, queue, hal, next, callbacks>>

WorkerUpdate ==
    /\ worker.pc = "handle" /\ worker.msg.id = "UPDATE_CALLBACKS"
    /\ worker' = [pc |-> "check", msg |-> NoMsg, cb |-> worker.msg.msg]
    /\ heap' = heap \ {worker.msg.msg}
    /\ UNCHANGED <<clientVars, queue, hal, next, callbacks>>

\* MSG_EXIT_THREAD: empty the queue and return.  The payloads are not freed.
WorkerExit ==
    /\ worker.pc = "handle" /\ worker.msg.id = "EXIT_THREAD"
    /\ queue' = <<>>
    /\ worker' = [pc |-> "exited", msg |-> NoMsg, cb |-> NULL]
    /\ UNCHANGED <<clientVars, hal, heap, next, callbacks>>

Worker == WorkerTake \/ WorkerDeliver \/ WorkerDiscard \/ WorkerUpdate \/ WorkerExit

-----------------------------------------------------------------------------
(* The HAL threads: WrappedNotifyCb and WrappedDataCb *)

HalEnter(h) ==
    /\ hal[h].pc = "idle"
    /\ opened /\ registered # NULL
    /\ callbacks < MaxCallbacks
    /\ callbacks' = callbacks + 1
    /\ hal' = [hal EXCEPT ![h].pc = "check"]
    /\ UNCHANGED <<clientVars, queue, worker, heap, next>>

\* Fault: BlockCbs is not looked at.
HalCheck_Unblocked(h) ==
    /\ hal[h].pc = "check"
    /\ hal' = [hal EXCEPT ![h] = [pc |-> "post", msg |-> next]]
    /\ heap' = heap \cup {next}
    /\ next' = next + 1
    /\ UNCHANGED <<clientVars, queue, worker, callbacks>>

\* Return if callbacks are blocked, else allocate and fill the WorkerMessage.
HalCheck(h) ==
    /\ hal[h].pc = "check"
    /\ \/ /\ blockCbs
          /\ hal' = [hal EXCEPT ![h].pc = "idle"]
          /\ UNCHANGED <<heap, next>>
       \/ /\ ~blockCbs
          /\ hal' = [hal EXCEPT ![h] = [pc |-> "post", msg |-> next]]
          /\ heap' = heap \cup {next}
          /\ next' = next + 1
    /\ UNCHANGED <<clientVars, queue, worker, callbacks>>

\* Fault: no worker; the HAL thread calls the client's callback itself.
HalPost_Synchronous(h) ==
    /\ hal[h].pc = "post"
    /\ client.op \notin LockingCalls
    /\ hal' = [hal EXCEPT ![h] = [pc |-> "delay", msg |-> NULL]]
    /\ UNCHANGED <<clientVars, queue, worker, heap, next, callbacks>>

\* AddCallback.
HalPost(h) ==
    /\ hal[h].pc = "post"
    /\ Push(Exec(hal[h].msg, h))
    /\ hal' = [hal EXCEPT ![h] = [pc |-> "delay", msg |-> NULL]]
    /\ UNCHANGED <<clientVars, heap, next, callbacks>>

\* usleep, then return to the HAL.
HalReturn(h) ==
    /\ hal[h].pc = "delay"
    /\ hal' = [hal EXCEPT ![h].pc = "idle"]
    /\ UNCHANGED <<clientVars, queue, worker, heap, next, callbacks>>

Hal(h) == HalCheck(h) \/ HalPost(h) \/ HalReturn(h)

-----------------------------------------------------------------------------
(* The client thread *)

Enter(op, pc) ==
    /\ client.pc = "idle"
    /\ calls < MaxCalls
    /\ calls' = calls + 1
    /\ client' = [pc |-> pc, op |-> op]

GoTo(pc) == client' = [client EXCEPT !.pc = pc]
Return == client' = [pc |-> "idle", op |-> "none"]

\* camera2_device_open: CreateThread, BlockCbs = 0.
Open ==
    /\ ~opened
    /\ Enter("open", "open")
    /\ thread' = TRUE
    /\ worker' = IF thread THEN worker ELSE [pc |-> "check", msg |-> NoMsg, cb |-> NULL]
    /\ blockCbs' = FALSE
    /\ base' = next
    /\ UNCHANGED <<opened, registered, guarded, queue, hal, heap, next, callbacks>>

\* The vendor module opens the camera, or one of the failure paths is taken.
OpenReturn ==
    /\ client.pc = "open"
    /\ opened' \in BOOLEAN
    /\ Return
    /\ UNCHANGED <<registered, blockCbs, guarded, thread, queue, worker, hal, heap,
                   next, base, calls, callbacks>>

\* camera2_set_callbacks: SetCallbacks with a new CallbackData, then the vendor.
SetCallbacks ==
    /\ opened
    /\ Enter("set_callbacks", "vendor")
    /\ heap' = heap \cup {next}
    /\ next' = next + 1
    /\ Push(Update(next))
    /\ registered' = next
    /\ UNCHANGED <<opened, blockCbs, guarded, thread, hal, base, callbacks>>

\* camera2_stop_preview and camera2_cancel_auto_focus begin with BlockCbs = 1.
Block ==
    /\ opened
    /\ \E op \in {"stop_preview", "cancel_auto_focus"} : Enter(op, "clear")
    /\ blockCbs' = TRUE
    /\ UNCHANGED <<opened, registered, guarded, thread, queue, worker, hal, heap,
                   next, base, callbacks>>

AutoFocus ==
    /\ opened
    /\ Enter("auto_focus", "clear")
    /\ UNCHANGED <<opened, registered, blockCbs, guarded, thread, queue, worker, hal,
                   heap, next, base, callbacks>>

\* Every other function of camera_device_ops passes the call on to the vendor.
Forward ==
    /\ opened
    /\ Enter("forward", "vendor")
    /\ UNCHANGED <<opened, registered, blockCbs, guarded, thread, queue, worker, hal,
                   heap, next, base, callbacks>>

\* camera2_device_close begins with the vendor's close.
Close ==
    /\ opened
    /\ Enter("close", "vendor")
    /\ UNCHANGED <<opened, registered, blockCbs, guarded, thread, queue, worker, hal,
                   heap, next, base, callbacks>>

\* ClearCallbacks: every message goes, of whatever kind; payloads are not freed.
ClearCallbacks ==
    /\ client.pc = "clear"
    /\ queue' = <<>>
    /\ worker' = NotifyOne
    /\ GoTo(IF client.op = "cancel_auto_focus" THEN "guard" ELSE "vendor")
    /\ UNCHANGED <<opened, registered, blockCbs, guarded, thread, hal, heap, next,
                   base, calls, callbacks>>

\* camera2_cancel_auto_focus within 500 ms of auto_focus returns at once.
CheckGuard ==
    /\ client.pc = "guard"
    /\ IF guarded THEN Return ELSE GoTo("vendor")
    /\ UNCHANGED <<opened, registered, blockCbs, guarded, thread, queue, worker, hal,
                   heap, next, base, calls, callbacks>>

GuardExpires ==
    /\ guarded
    /\ guarded' = FALSE
    /\ UNCHANGED <<client, opened, registered, blockCbs, thread, queue, worker, hal,
                   heap, next, base, calls, callbacks>>

\* External: the vendor's function returns once no HAL thread is in a callback.
VendorReturn ==
    /\ client.pc = "vendor"
    /\ \A h \in HalThreads : hal[h].pc = "idle"
    /\ CASE client.op \in {"stop_preview", "cancel_auto_focus"} -> GoTo("unblock")
         [] client.op = "close" -> GoTo("exit")
         [] OTHER -> Return
    /\ registered' = IF client.op = "close" THEN NULL ELSE registered
    /\ opened' = (opened /\ client.op # "close")
    /\ guarded' = (guarded \/ client.op = "auto_focus")
    /\ UNCHANGED <<blockCbs, thread, queue, worker, hal, heap, next, base, calls,
                   callbacks>>

\* BlockCbs = 0 at the end of stop_preview and cancel_auto_focus.
Unblock ==
    /\ client.pc = "unblock"
    /\ blockCbs' = FALSE
    /\ Return
    /\ UNCHANGED <<opened, registered, guarded, thread, queue, worker, hal, heap, next,
                   base, calls, callbacks>>

\* ExitThread at the end of camera2_device_close: push the exit message ...
ExitThread ==
    /\ client.pc = "exit"
    /\ Push(Exit)
    /\ GoTo("join")
    /\ UNCHANGED <<opened, registered, blockCbs, guarded, thread, hal, heap, next,
                   base, calls, callbacks>>

\* ... and join the worker.
Join ==
    /\ client.pc = "join"
    /\ worker.pc = "exited"
    /\ thread' = FALSE
    /\ worker' = [worker EXCEPT !.pc = "none"]
    /\ Return
    /\ UNCHANGED <<opened, registered, blockCbs, guarded, queue, hal, heap, next,
                   base, calls, callbacks>>

ClientCalls == Open \/ SetCallbacks \/ Block \/ AutoFocus \/ Forward \/ Close
ClientContinues ==
    \/ OpenReturn \/ ClearCallbacks \/ CheckGuard \/ VendorReturn
    \/ Unblock \/ ExitThread \/ Join

Next ==
    \/ ClientCalls \/ ClientContinues \/ GuardExpires
    \/ Worker \/ WorkerSpurious \/ UserCallbackReturns
    \/ \E h \in HalThreads : HalEnter(h) \/ Hal(h)

Spec == Init /\ [][Next]_vars

(* Threads inside a function run on, the vendor's functions and the        *)
(* client's callbacks return once what they wait for has happened.  Nobody *)
(* is obliged to call anything.                                            *)
Fairness ==
    /\ WF_vars(ClientContinues)
    /\ WF_vars(Worker)
    /\ WF_vars(UserCallbackReturns)
    /\ \A h \in HalThreads : WF_vars(Hal(h))

FairSpec == Spec /\ Fairness

-----------------------------------------------------------------------------
(* Properties *)

ClientPcs == {"idle", "open", "vendor", "clear", "guard", "unblock", "exit", "join"}
WorkerPcs == {"none", "check", "asleep", "handle", "callback", "exited"}
Messages ==
    [id : {"EXECUTE_CALLBACK", "UPDATE_CALLBACKS", "EXIT_THREAD", "none"},
     msg : Nat, from : HalThreads \cup {"client"}]

TypeOK ==
    /\ client \in [pc : ClientPcs, op : Ops \cup {"none"}]
    /\ opened \in BOOLEAN /\ blockCbs \in BOOLEAN /\ guarded \in BOOLEAN
    /\ thread \in BOOLEAN
    /\ registered \in Nat /\ next \in Nat \ {0} /\ base \in Nat \ {0}
    /\ heap \subseteq 1..(next - 1)
    /\ queue \in Seq(Messages)
    /\ worker \in [pc : WorkerPcs, msg : Messages, cb : Nat]
    /\ hal \in [HalThreads -> [pc : {"idle", "check", "post", "delay"}, msg : Nat]]
    /\ calls \in 0..MaxCalls /\ callbacks \in 0..MaxCallbacks

\* The payloads some thread or message still points to.
Held ==
    ({queue[i].msg : i \in DOMAIN queue} \cup {worker.msg.msg}
       \cup {hal[h].msg : h \in HalThreads}) \ {NULL}

\* The payload of a message, wherever clearing, delivery or shutdown finds it,
\* is allocated and has a single owner: Process() neither reads a payload that
\* was freed nor frees one twice.
NoDangling ==
    /\ Held \subseteq heap
    /\ \A i, j \in DOMAIN queue :
         queue[i].msg = queue[j].msg /\ queue[i].msg # NULL => i = j
    /\ \A i \in DOMAIN queue : queue[i].msg = NULL \/ queue[i].msg # worker.msg.msg
    /\ \A g, h \in HalThreads : hal[g].msg = hal[h].msg /\ hal[g].msg # NULL => g = h
    /\ \A h \in HalThreads :
         hal[h].msg # NULL =>
           /\ hal[h].msg # worker.msg.msg
           /\ \A i \in DOMAIN queue : queue[i].msg # hal[h].msg

\* stop_preview and cancel_auto_focus have set BlockCbs and cleared the queue.
Silenced ==
    /\ client.op \in {"stop_preview", "cancel_auto_focus"}
    /\ client.pc \in {"guard", "vendor", "unblock"}

\* While the vendor runs stop_preview or cancel_auto_focus, every HAL thread
\* adds at most the one callback it was posting when BlockCbs was set: the
\* worker gets no more than that to hand to the client meanwhile.
AtMostOneSlips ==
    Silenced =>
      \A h \in HalThreads :
        Cardinality({i \in DOMAIN queue : queue[i].from = h})
          + (IF hal[h].pc = "post" THEN 1 ELSE 0) <= 1

\* "Assert that the thread exists": whenever AddCallback, SetCallbacks or
\* ClearCallbacks may run, the worker thread does, and has not left its loop.
ThreadExists ==
    (opened \/ client.pc = "clear" \/ \E h \in HalThreads : hal[h].pc = "post")
      => thread /\ worker.pc \notin {"none", "exited"}

\* The callback pointer the worker calls and the callback it delivers both
\* belong to the camera that is open: nothing of an earlier session is left
\* in the global cbThread.
SessionIsolation ==
    worker.pc = "callback" => worker.cb >= base /\ worker.msg.msg >= base

\* Every client call returns: the HAL never waits for a callback that itself
\* waits for the client.
CallsReturn == client.pc # "idle" ~> client.pc = "idle"

\* Whatever is posted to the worker leaves the queue, even if it was posted
\* while the worker was going to sleep.
QueueDrains == queue # <<>> ~> queue = <<>>

\* "Unblock queueing more callbacks": no function of the wrapper returns to the
\* client with callbacks still blocked.
Unblocked == client.pc = "idle" => ~blockCbs

\* The callbacks of the last set_callbacks are on their way to the worker or
\* are the ones it calls: none of its messages and no call of the client takes
\* them away, except ClearCallbacks, which throws a pending update away too.
Reaching == registered \in Held \/ worker.cb = registered
RegisteredKept ==
    [][registered # NULL /\ registered' = registered /\ Reaching
         => Reaching' \/ client.pc = "clear"]_vars

\* Messages have one owner from AddCallback to the end of Process(), and a worker
\* that takes them as long as any thread can post one; none of an earlier camera's
\* pointers or messages, left in the global cbThread, is delivered.
OwnershipInv == TypeOK /\ ThreadExists /\ NoDangling /\ SessionIsolation

\* Client, vendor and worker never wait for each other in a circle, and the worker
\* does not sleep while messages wait: calls return and the queue empties.
Progress == CallsReturn /\ QueueDrains
=============================================================================
