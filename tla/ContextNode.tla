----------------------------- MODULE ContextNode -----------------------------
(***************************************************************************)
(* How a process reaches its property areas: SystemProperties::Init and     *)
(* AreaInit choose and initialise the contexts, threads then open the area   *)
(* of a context on first use (ContextNode::Open under a bionic Lock),        *)
(* through GetPropAreaForName or ForEach.  The lock is a futex word; each    *)
(* atomic operation on it, and each access to pa_ or no_access_, is a step.  *)
(*                                                                         *)
(* Which context a name belongs to is the subject of PropertyContexts.       *)
(***************************************************************************)
EXTENDS Integers, FiniteSets

CONSTANTS
    Threads,
    Nodes,        \* the contexts
    FileSystems,  \* the states of the files that a process may find
    MaxMaps,      \* bound on the mappings made
    MaxChanges,   \* bound on the changes of files under the process
    MaxCalls      \* bound on the calls of a thread

VARIABLES
    fs,           \* the files of /dev/__properties__
    ctx,          \* kind of contexts_, progress of its initialisation, serial_prop_area_
    node,         \* per context: lock word, pa_, no_access_
    maps,         \* the mappings that exist, and how many were made
    th,           \* per thread: where it is, its context, and the area it works on
    evergood,     \* history: contexts whose file was usable ever since the start
    changes       \* history: changes of files

hist == <<evergood, changes>>
vars == <<fs, ctx, node, maps, th, hist>>

\* absent; not accessible; accessible but refused by map_fd_rw (owner, mode, size, magic); good.
FileState == {"absent", "denied", "bad", "good"}
Free == [lock |-> 0, pa |-> 0, noAccess |-> FALSE]
Idle == [pc |-> "idle", op |-> "none", node |-> "none", todo |-> {}, use |-> 0,
         calls |-> 0, missed |-> {}, revoked |-> FALSE]

FileSystem == [isDir : BOOLEAN, info : FileState, specs : BOOLEAN,
               serial : FileState, area : [Nodes -> FileState]]

ASSUME FilesAssumption == FileSystems \subseteq FileSystem
ASSUME BoundAssumption == MaxMaps \in Nat /\ MaxChanges \in Nat /\ MaxCalls \in Nat

\* For AreaInit the directory is empty apart from what an earlier run left behind.
Init ==
    /\ fs \in FileSystems
    /\ ctx = [kind |-> "none", at |-> "start", todo |-> {}, failed |-> FALSE, serial |-> 0]
    /\ node = [n \in Nodes |-> Free]
    /\ maps = [live |-> {}, made |-> 0]
    /\ th = [t \in Threads |-> Idle]
    /\ evergood = {n \in Nodes : fs.area[n] = "good"}
    /\ changes = 0

-----------------------------------------------------------------------------
(* prop_area::map_prop_area, map_prop_area_rw, unmap_prop_area *)

\* map_fd_rw checks what the file system says of the file, then magic and version.
Mappable(f) == f = "good"

\* A mapping gets the next number.  Beyond MaxMaps mmap fails.
MapOk == maps.made < MaxMaps
Mapped == [live |-> maps.live \cup {maps.made + 1}, made |-> maps.made + 1]
Unmapped(pas) == [maps EXCEPT !.live = @ \ pas]

-----------------------------------------------------------------------------
(* SystemProperties::Init and AreaInit *)

\* property_info decides between the two layouts of a directory; a file is the oldest one.
Layout ==
    IF ~fs.isDir THEN "presplit"
    ELSE IF fs.info \in {"bad", "good"} THEN "serialized" ELSE "split"

\* MapSerialPropertyArea(false) ends an initialisation that could read its spec files.
FinishInit(kind, loaded) ==
    /\ IF loaded /\ Mappable(fs.serial) /\ MapOk
       THEN /\ maps' = Mapped
            /\ ctx' = [ctx EXCEPT !.kind = kind, !.at = "ready", !.serial = maps.made + 1]
       ELSE /\ ctx' = [ctx EXCEPT !.kind = kind, !.at = "failed"]
            /\ UNCHANGED maps
    /\ UNCHANGED <<fs, node, th, hist>>

\* PropertyInfoAreaFile::LoadPath: owner, mode, size, version.
LoadPath == fs.info = "good"

InitSerialized == ctx.at = "start" /\ Layout = "serialized" /\ FinishInit("serialized", LoadPath)
InitSplit == ctx.at = "start" /\ Layout = "split" /\ FinishInit("split", fs.specs)
InitPreSplit == ctx.at = "start" /\ Layout = "presplit" /\ FinishInit("presplit", TRUE)

\* A second call finds initialized_ set (resetprop removed the ResetAccess here).
SystemPropertiesInitAgain ==
    /\ ctx.at = "ready"
    /\ UNCHANGED vars

\* AreaInit: ContextsSerialized with writable = true, one file after the other.
AreaInit ==
    /\ ctx.at = "start" /\ fs.isDir
    /\ ctx' = IF LoadPath
              THEN [ctx EXCEPT !.kind = "serialized", !.at = "areas", !.todo = Nodes]
              ELSE [ctx EXCEPT !.kind = "serialized", !.at = "failed"]
    /\ UNCHANGED <<fs, node, maps, th, hist>>

\* map_prop_area_rw creates the file exclusively: one that exists is a failure, one
\* that may not be created ends the process.
AreaInitOpen ==
    /\ ctx.at = "areas" /\ ctx.todo # {}
    /\ \E n \in ctx.todo :
         IF fs.area[n] = "absent" /\ MapOk
         THEN /\ maps' = Mapped
              /\ node' = [node EXCEPT ![n].pa = maps.made + 1]
              /\ fs' = [fs EXCEPT !.area[n] = "good"]
              /\ ctx' = [ctx EXCEPT !.todo = @ \ {n}]
         ELSE /\ ctx' = IF fs.area[n] = "denied" THEN [ctx EXCEPT !.at = "aborted"]
                        ELSE [ctx EXCEPT !.todo = @ \ {n}, !.failed = TRUE]
              /\ UNCHANGED <<maps, node, fs>>
    /\ UNCHANGED <<th, hist>>

FreeAndUnmap ==
    /\ maps' = Unmapped({node[n].pa : n \in Nodes})
    /\ node' = [n \in Nodes |-> Free]

\* MapSerialPropertyArea(true), unless an area failed.
AreaInitSerial ==
    /\ ctx.at = "areas" /\ ctx.todo = {}
    /\ IF ~ctx.failed /\ fs.serial = "absent" /\ MapOk
       THEN /\ maps' = Mapped
            /\ fs' = [fs EXCEPT !.serial = "good"]
            /\ ctx' = [ctx EXCEPT !.at = "ready", !.serial = maps.made + 1]
            /\ UNCHANGED node
       ELSE /\ ctx' = [ctx EXCEPT !.at = IF ~ctx.failed /\ fs.serial = "denied" THEN "aborted" ELSE "failed"]
            /\ FreeAndUnmap
            /\ UNCHANGED fs
    /\ UNCHANGED <<th, hist>>

\* The files change under the process: an area appears, access is withdrawn or granted.
FileChanges ==
    /\ ctx.at = "ready" /\ changes < MaxChanges
    /\ changes' = changes + 1
    /\ \E n \in Nodes, f \in FileState \ {"absent"} :
         /\ fs.area[n] # f
         /\ fs' = [fs EXCEPT !.area[n] = f]
         /\ evergood' = evergood \ {n}
         /\ th' = [t \in Threads |->
                     IF th[t].node = n /\ f = "denied" THEN [th[t] EXCEPT !.revoked = TRUE] ELSE th[t]]
    /\ UNCHANGED <<ctx, node, maps>>

-----------------------------------------------------------------------------
(* The calls of a thread *)

Go(t, new) == th' = [th EXCEPT ![t] = new]

\* GetPropAreaForName: pa() is looked at without the lock.  One area has all names
\* in the oldest layout.
GetPropAreaForName(t) ==
    /\ ctx.at = "ready" /\ th[t].pc = "idle" /\ th[t].calls < MaxCalls
    /\ \E n \in Nodes :
         Go(t, [th[t] EXCEPT !.op = "get", !.node = n, !.calls = @ + 1,
                             !.revoked = fs.area[n] \in {"absent", "denied"},
                             !.use = IF ctx.kind = "presplit" THEN ctx.serial ELSE node[n].pa,
                             !.pc = IF ctx.kind = "presplit" \/ node[n].pa # 0 THEN "use" ELSE "cas"])
    /\ UNCHANGED <<fs, ctx, node, maps, hist>>

\* ForEach goes over all contexts.
ForEach(t) ==
    /\ ctx.at = "ready" /\ ctx.kind # "presplit" /\ th[t].pc = "idle" /\ th[t].calls < MaxCalls
    /\ Go(t, [th[t] EXCEPT !.op = "foreach", !.pc = "next", !.todo = Nodes, !.calls = @ + 1,
                           !.missed = {}])
    /\ UNCHANGED <<fs, ctx, node, maps, hist>>

ForEachNext(t) ==
    /\ th[t].pc = "next"
    /\ IF th[t].todo = {} THEN Go(t, [th[t] EXCEPT !.pc = "idle", !.node = "none", !.missed = {}])
       ELSE \E n \in th[t].todo :
              Go(t, [th[t] EXCEPT !.node = n, !.todo = @ \ {n}, !.pc = "access",
                                  !.revoked = fs.area[n] \in {"absent", "denied"}])
    /\ UNCHANGED <<fs, ctx, node, maps, hist>>

N(t) == node[th[t].node]

\* CheckAccessAndOpen: the unlocked reads, then access(R_OK) and Open.
CheckAccessAndOpen(t) ==
    /\ th[t].pc = "access"
    /\ LET blocked == fs.area[th[t].node] \in {"absent", "denied"}
           ask == N(t).pa = 0 /\ ~N(t).noAccess
       IN  /\ Go(t, [th[t] EXCEPT !.pc = IF ask /\ ~blocked THEN "cas" ELSE "result"])
           /\ node' = IF ask /\ blocked THEN [node EXCEPT ![th[t].node].noAccess = TRUE] ELSE node
    /\ UNCHANGED <<fs, ctx, maps, hist>>

-----------------------------------------------------------------------------
(* Lock::lock and unlock: 0 unlocked, 1 locked, 2 locked with a waiter *)

LockCas(t) ==
    /\ th[t].pc = "cas"
    /\ IF N(t).lock = 0
       THEN node' = [node EXCEPT ![th[t].node].lock = 1] /\ Go(t, [th[t] EXCEPT !.pc = "crit"])
       ELSE Go(t, [th[t] EXCEPT !.pc = "xchg"]) /\ UNCHANGED node
    /\ UNCHANGED <<fs, ctx, maps, hist>>

\* Fault: a thread that was not the one to find it unlocked enters too.
LockExchange_Enter(t) ==
    /\ th[t].pc = "xchg"
    /\ node' = [node EXCEPT ![th[t].node].lock = 2]
    /\ Go(t, [th[t] EXCEPT !.pc = IF N(t).lock # 1 THEN "crit" ELSE "wait"])
    /\ UNCHANGED <<fs, ctx, maps, hist>>

LockExchange(t) ==
    /\ th[t].pc = "xchg"
    /\ node' = [node EXCEPT ![th[t].node].lock = 2]
    /\ Go(t, [th[t] EXCEPT !.pc = IF N(t).lock = 0 THEN "crit" ELSE "wait"])
    /\ UNCHANGED <<fs, ctx, maps, hist>>

\* Fault: the word is not compared before sleeping.
LockWait_NoCompare(t) ==
    /\ th[t].pc = "wait"
    /\ Go(t, [th[t] EXCEPT !.pc = "sleep"])
    /\ UNCHANGED <<fs, ctx, node, maps, hist>>

\* __futex_wait_ex sleeps only while the word is LockedWithWaiter.
LockWait(t) ==
    /\ th[t].pc = "wait"
    /\ Go(t, [th[t] EXCEPT !.pc = IF N(t).lock = 2 THEN "sleep" ELSE "xchg"])
    /\ UNCHANGED <<fs, ctx, node, maps, hist>>

\* unlock stores Unlocked and remembers whether somebody waits.
Unlock(t) ==
    /\ th[t].pc = "unlock"
    /\ node' = [node EXCEPT ![th[t].node].lock = 0]
    /\ Go(t, [th[t] EXCEPT !.pc = IF N(t).lock = 2 THEN "wake" ELSE "opened"])
    /\ UNCHANGED <<fs, ctx, maps, hist>>

\* __futex_wake_ex(..., 1): one sleeper of this lock.
Wake(t) ==
    /\ th[t].pc = "wake"
    /\ LET asleep == {s \in Threads : th[s].pc = "sleep" /\ th[s].node = th[t].node}
       IN  IF asleep = {} THEN Go(t, [th[t] EXCEPT !.pc = "opened"])
           ELSE \E s \in asleep :
                  th' = [th EXCEPT ![t].pc = "opened", ![s].pc = "xchg"]
    /\ UNCHANGED <<fs, ctx, node, maps, hist>>

-----------------------------------------------------------------------------
(* ContextNode::Open and what its callers do with pa_ *)

\* The critical section: another thread may have been first; else map the file.
OpenLocked(t) ==
    /\ th[t].pc = "crit"
    /\ IF N(t).pa = 0 /\ Mappable(fs.area[th[t].node]) /\ MapOk
       THEN /\ maps' = Mapped
            /\ node' = [node EXCEPT ![th[t].node].pa = maps.made + 1]
       ELSE UNCHANGED <<maps, node>>
    /\ Go(t, [th[t] EXCEPT !.pc = "unlock"])
    /\ UNCHANGED <<fs, ctx, hist>>

\* Back from Open, which returns pa_ (read after the unlock); foreach remembers a failure.
Opened(t) ==
    /\ th[t].pc = "opened"
    /\ node' = IF th[t].op = "foreach" /\ N(t).pa = 0
               THEN [node EXCEPT ![th[t].node].noAccess = TRUE] ELSE node
    /\ Go(t, [th[t] EXCEPT !.pc = "result"])
    /\ UNCHANGED <<fs, ctx, maps, hist>>

\* pa() is read once more and used if it is set.
Result(t) ==
    /\ th[t].pc = "result"
    /\ LET pa == N(t).pa
           over == IF th[t].op = "get" THEN "idle" ELSE "next"
       IN  Go(t, [th[t] EXCEPT !.use = pa, !.pc = IF pa # 0 THEN "use" ELSE over,
                               !.missed = IF pa = 0 THEN @ \cup {th[t].node} ELSE @])
    /\ UNCHANGED <<fs, ctx, node, maps, hist>>

\* prop_area::find, add, del or foreach on the area, and the end of the call.
Use(t) ==
    /\ th[t].pc = "use"
    /\ Go(t, [th[t] EXCEPT !.use = 0, !.pc = IF th[t].op = "get" THEN "idle" ELSE "next"])
    /\ UNCHANGED <<fs, ctx, node, maps, hist>>

\* ResetAccess: a context that may no longer be read is unmapped, without the lock.
ResetAccess(n) ==
    /\ ctx.at = "ready" /\ ctx.kind # "presplit"
    /\ IF fs.area[n] \in {"absent", "denied"}
       THEN /\ maps' = Unmapped({node[n].pa})
            /\ node' = [node EXCEPT ![n].pa = 0, ![n].noAccess = TRUE]
       ELSE /\ node' = [node EXCEPT ![n].noAccess = FALSE]
            /\ UNCHANGED maps
    /\ UNCHANGED <<fs, ctx, th, hist>>

-----------------------------------------------------------------------------
Step(t) ==
    \/ ForEachNext(t) \/ CheckAccessAndOpen(t)
    \/ LockCas(t) \/ LockExchange(t) \/ LockWait(t) \/ Unlock(t) \/ Wake(t)
    \/ OpenLocked(t) \/ Opened(t) \/ Result(t) \/ Use(t)

Next ==
    \/ InitSerialized \/ InitSplit \/ InitPreSplit \/ SystemPropertiesInitAgain
    \/ AreaInit \/ AreaInitOpen \/ AreaInitSerial
    \/ FileChanges
    \/ \E n \in Nodes : ResetAccess(n)
    \/ \E t \in Threads : GetPropAreaForName(t) \/ ForEach(t) \/ Step(t)

Spec == Init /\ [][Next]_vars
\* A thread that began a call keeps running.
FairSpec == Spec /\ \A t \in Threads : WF_vars(Step(t))

-----------------------------------------------------------------------------
(* Properties *)

NodeStates == [lock : 0..2, pa : 0..MaxMaps, noAccess : BOOLEAN]
ThreadPcs == {"idle", "next", "access", "cas", "xchg", "wait", "sleep", "crit", "unlock",
              "wake", "opened", "result", "use"}
ThreadStates ==
    [pc : ThreadPcs, op : {"none", "get", "foreach"}, node : Nodes \cup {"none"},
     todo : SUBSET Nodes, use : 0..MaxMaps, calls : 0..MaxCalls, missed : SUBSET Nodes,
     revoked : BOOLEAN]

\* Type invariant.
TypeOK ==
    /\ fs \in FileSystem
    /\ ctx \in [kind : {"none", "serialized", "split", "presplit"},
                at : {"start", "ready", "failed", "areas", "aborted"},
                todo : SUBSET Nodes, failed : BOOLEAN, serial : 0..MaxMaps]
    /\ node \in [Nodes -> NodeStates]
    /\ maps \in [live : SUBSET (1..MaxMaps), made : 0..MaxMaps]
    /\ th \in [Threads -> ThreadStates]
    /\ evergood \subseteq Nodes /\ changes \in 0..MaxChanges

\* Two threads are never between lock() and unlock() of one context.
MutualExclusion ==
    \A s, t \in Threads :
        s # t /\ th[s].node = th[t].node =>
            ~(th[s].pc \in {"crit", "unlock"} /\ th[t].pc \in {"crit", "unlock"})

\* Every mapping is known to exactly one holder: two threads that open a context at the
\* same time do not map it twice and lose one mapping, a failed initialisation leaves
\* nothing mapped, and no pa_ dangles.
NoMappingLost ==
    LET held == {node[n].pa : n \in Nodes} \cup {ctx.serial}
    IN  /\ maps.live = held \ {0}
        /\ \A m, n \in Nodes : m # n /\ node[m].pa = node[n].pa => node[m].pa = 0
        /\ ctx.at = "failed" => maps.live = {}

\* An area a thread works on stays mapped, unless its access was revoked meanwhile.
AreaInUseStaysMapped ==
    \A t \in Threads : th[t].pc = "use" /\ ~th[t].revoked => th[t].use \in maps.live

\* ForEach leaves out no context whose file could be opened all the time, whatever other
\* threads were opening.
ForEachMissesNone ==
    \A t \in Threads :
        maps.made < MaxMaps /\ th[t].op = "foreach" => th[t].missed \cap evergood = {}

\* Nobody is left asleep in lock(): the wake-up that unlock() owes is never lost, though
\* the word is changed by threads that do not hold the lock.
SleepersWake == \A t \in Threads : th[t].pc = "sleep" ~> th[t].pc # "sleep"

\* What the lock in ContextNode is for: with any number of threads in Open, ForEach and
\* ResetAccess one of them maps the area, the mapping is neither lost nor taken away from
\* a user, and no context that can be opened is passed over.
NodeInv ==
    /\ TypeOK
    /\ MutualExclusion
    /\ NoMappingLost
    /\ AreaInUseStaysMapped
    /\ ForEachMissesNone
=============================================================================
