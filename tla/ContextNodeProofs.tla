-------------------------- MODULE ContextNodeProofs --------------------------
(***************************************************************************)
(* Proofs about ContextNode, for every number of threads and contexts and   *)
(* every state of the files: the futex lock of ContextNode::Open excludes,   *)
(* and no mapping of a property area is lost or taken from its user.  Then   *)
(* the list of PropertyContexts, which says which context a name is in, for   *)
(* any lines in any order: it finds the longest prefix.                      *)
(***************************************************************************)
EXTENDS ContextNode, Data, Integers, SequenceTheorems, FiniteSetTheorems, WellFoundedInduction, TLAPS

-----------------------------------------------------------------------------
(* The inductive invariant *)

\* A thread that works on a context has one, and works only once Init has succeeded.
AtWork ==
    \A t \in Threads :
        /\ th[t].pc # "idle" => ctx.at = "ready"
        /\ th[t].pc \notin {"idle", "next"} => th[t].node \in Nodes
        /\ ctx.kind = "presplit" => th[t].pc = "idle" \/ (th[t].pc = "use" /\ th[t].op = "get")

\* The word of a lock that somebody holds is not Unlocked, and there is one holder.
LockHeld ==
    /\ \A t \in Threads : th[t].pc \in {"crit", "unlock"} => N(t).lock # 0
    /\ MutualExclusion

\* Each mapping has its own number, and one holder: a context or the serial area.
Mappings ==
    /\ maps.live = ({node[n].pa : n \in Nodes} \cup {ctx.serial}) \ {0}
    /\ maps.live \subseteq 1..maps.made
    /\ \A m, n \in Nodes : m # n /\ node[m].pa = node[n].pa => node[m].pa = 0
    /\ \A n \in Nodes : node[n].pa = ctx.serial => ctx.serial = 0
    /\ ctx.at \in {"start", "areas"} => ctx.serial = 0
    /\ ctx.at \in {"start", "failed"} => maps.live = {}
    /\ ctx.at = "ready" => ctx.serial # 0
    /\ ctx.at = "areas" =>
         /\ ctx.kind = "serialized"
         /\ \A n \in Nodes : n \in ctx.todo => node[n].pa = 0
    /\ ctx.kind = "presplit" => \A n \in Nodes : node[n].pa = 0

\* A thread keeps the area of its context as long as the file may be read.
Users ==
    \A t \in Threads :
        /\ th[t].pc \notin {"idle", "next"} /\ ~th[t].revoked => fs.area[th[t].node] \in {"bad", "good"}
        /\ th[t].pc = "use" /\ ctx.kind = "presplit" => th[t].use = ctx.serial
        /\ th[t].pc = "use" /\ ctx.kind # "presplit" /\ ~th[t].revoked =>
             th[t].use = N(t).pa /\ th[t].use # 0

\* While mappings can be made, a context that could be opened all the time is open
\* when a thread comes back from Open, and is never marked inaccessible.
Opening ==
    /\ \A n \in evergood : fs.area[n] = "good"
    /\ maps.made < MaxMaps =>
         /\ \A n \in evergood : ~node[n].noAccess
         /\ \A t \in Threads :
              th[t].pc \in {"unlock", "wake", "opened", "result"} /\ th[t].node \in evergood =>
                N(t).pa # 0
    /\ ForEachMissesNone

IInv == TypeOK /\ AtWork /\ LockHeld /\ Mappings /\ Users /\ Opening

-----------------------------------------------------------------------------
(* What one thread, or the holder of a node, may change. *)

\* A step of thread t leaves the other threads alone.
LEMMA ThreadStep ==
    ASSUME th \in [Threads -> ThreadStates], NEW t \in Threads, NEW new \in ThreadStates, Go(t, new)
    PROVE  /\ th' \in [Threads -> ThreadStates]
           /\ th'[t] = new
           /\ \A s \in Threads : s # t => th'[s] = th[s]
  BY DEF Go

\* A step that only moves thread t on.
LEMMA PcStep ==
    ASSUME th \in [Threads -> ThreadStates], NEW t \in Threads, NEW p \in ThreadPcs,
           Go(t, [th[t] EXCEPT !.pc = p])
    PROVE  /\ th' \in [Threads -> ThreadStates]
           /\ th'[t].pc = p
           /\ \A s \in Threads : s # t => th'[s] = th[s]
           /\ \A s \in Threads :
                /\ th'[s].node = th[s].node /\ th'[s].op = th[s].op /\ th'[s].use = th[s].use
                /\ th'[s].missed = th[s].missed /\ th'[s].revoked = th[s].revoked
  <1>1. [th[t] EXCEPT !.pc = p] \in ThreadStates
    BY DEF ThreadStates
  <1>2. th[t] \in ThreadStates
    OBVIOUS
  <1>3. LET new == [th[t] EXCEPT !.pc = p]
        IN  new.pc = p /\ new.node = th[t].node /\ new.op = th[t].op /\ new.use = th[t].use
              /\ new.missed = th[t].missed /\ new.revoked = th[t].revoked
    BY <1>2 DEF ThreadStates
  <1>4. /\ th' \in [Threads -> ThreadStates]
        /\ th'[t] = [th[t] EXCEPT !.pc = p]
        /\ \A s \in Threads : s # t => th'[s] = th[s]
    BY <1>1, ThreadStep
  <1> QED
    BY <1>3, <1>4

LEMMA PaStep ==
    ASSUME node \in [Nodes -> NodeStates], NEW n \in Nodes, NEW pa \in 0..MaxMaps,
           node' = [node EXCEPT ![n].pa = pa]
    PROVE  /\ node' \in [Nodes -> NodeStates]
           /\ node'[n].pa = pa
           /\ \A m \in Nodes : m # n => node'[m] = node[m]
           /\ \A m \in Nodes : node'[m].lock = node[m].lock /\ node'[m].noAccess = node[m].noAccess
  BY DEF NodeStates

LEMMA AccessStep ==
    ASSUME node \in [Nodes -> NodeStates], NEW n \in Nodes, NEW b \in BOOLEAN,
           node' = [node EXCEPT ![n].noAccess = b]
    PROVE  /\ node' \in [Nodes -> NodeStates]
           /\ node'[n].noAccess = b
           /\ \A m \in Nodes : m # n => node'[m] = node[m]
           /\ \A m \in Nodes : node'[m].lock = node[m].lock /\ node'[m].pa = node[m].pa
  BY DEF NodeStates

LEMMA MappingsKept ==
    ASSUME Mappings, UNCHANGED <<ctx, maps>>, \A n \in Nodes : node'[n].pa = node[n].pa
    PROVE  Mappings'
  <1>1. {node'[n].pa : n \in Nodes} = {node[n].pa : n \in Nodes}
    OBVIOUS
  <1> QED
    BY <1>1 DEF Mappings

-----------------------------------------------------------------------------
(* The steps of a thread inside a call *)

LEMMA LockCasKeeps ==
    ASSUME IInv, NEW t \in Threads, LockCas(t)
    PROVE  IInv'
  <1> USE DEF IInv
  <1>1. /\ th[t].node \in Nodes /\ th[t].pc \notin {"idle", "next", "use"}
        /\ ctx.at = "ready" /\ ctx.kind # "presplit"
    BY DEF LockCas, AtWork
  <1>2. PICK p \in {"crit", "xchg"} :
          /\ Go(t, [th[t] EXCEPT !.pc = p])
          /\ IF p = "crit" THEN N(t).lock = 0 /\ node' = [node EXCEPT ![th[t].node].lock = 1]
                          ELSE node' = node
    BY DEF LockCas
  <1>3. /\ th' \in [Threads -> ThreadStates]
        /\ th'[t].pc = p
        /\ \A s \in Threads : s # t => th'[s] = th[s]
        /\ \A s \in Threads :
             /\ th'[s].node = th[s].node /\ th'[s].op = th[s].op /\ th'[s].use = th[s].use
             /\ th'[s].missed = th[s].missed /\ th'[s].revoked = th[s].revoked
    BY <1>2, PcStep DEF TypeOK, ThreadPcs
  <1>4. /\ node' \in [Nodes -> NodeStates]
        /\ \A m \in Nodes : m # th[t].node => node'[m] = node[m]
        /\ \A m \in Nodes : node'[m].pa = node[m].pa /\ node'[m].noAccess = node[m].noAccess
        /\ IF p = "crit" THEN N(t).lock = 0 /\ node'[th[t].node].lock = 1 ELSE node' = node
    BY <1>1, <1>2 DEF TypeOK, NodeStates, N
  <1>5. UNCHANGED <<fs, ctx, maps, evergood, changes>> /\ evergood \subseteq Nodes
    BY DEF LockCas, TypeOK, hist
  <1>6. TypeOK'
    BY <1>3, <1>4, <1>5 DEF TypeOK
  <1>7. AtWork'
    BY <1>1, <1>3, <1>5 DEF AtWork
  <1>8. LockHeld'
    BY <1>1, <1>2, <1>3, <1>4, <1>5 DEF LockCas, LockHeld, MutualExclusion, N, AtWork
  <1>9. Mappings'
    BY <1>4, <1>5, MappingsKept
  <1>10. Users'
    BY <1>1, <1>3, <1>4, <1>5 DEF Users, AtWork, N, Mappings
  <1>11. Opening'
    BY <1>1, <1>3, <1>4, <1>5 DEF Opening, ForEachMissesNone, N
  <1> QED
    BY <1>6, <1>7, <1>8, <1>9, <1>10, <1>11

LEMMA LockExchangeKeeps ==
    ASSUME IInv, NEW t \in Threads, LockExchange(t)
    PROVE  IInv'
  <1> USE DEF IInv
  <1>1. /\ th[t].node \in Nodes /\ th[t].pc \notin {"idle", "next", "use"}
        /\ ctx.at = "ready" /\ ctx.kind # "presplit"
    BY DEF LockExchange, AtWork
  <1>2. PICK p \in {"crit", "wait"} :
          /\ Go(t, [th[t] EXCEPT !.pc = p])
          /\ node' = [node EXCEPT ![th[t].node].lock = 2] /\ (p = "crit" => N(t).lock = 0)
    BY DEF LockExchange
  <1>3. /\ th' \in [Threads -> ThreadStates]
        /\ th'[t].pc = p
        /\ \A s \in Threads : s # t => th'[s] = th[s]
        /\ \A s \in Threads :
             /\ th'[s].node = th[s].node /\ th'[s].op = th[s].op /\ th'[s].use = th[s].use
             /\ th'[s].missed = th[s].missed /\ th'[s].revoked = th[s].revoked
    BY <1>2, PcStep DEF TypeOK, ThreadPcs
  <1>4. /\ node' \in [Nodes -> NodeStates]
        /\ \A m \in Nodes : m # th[t].node => node'[m] = node[m]
        /\ \A m \in Nodes : node'[m].pa = node[m].pa /\ node'[m].noAccess = node[m].noAccess
        /\ node'[th[t].node].lock = 2 /\ (p = "crit" => N(t).lock = 0)
    BY <1>1, <1>2 DEF TypeOK, NodeStates, N
  <1>5. UNCHANGED <<fs, ctx, maps, evergood, changes>> /\ evergood \subseteq Nodes
    BY DEF LockExchange, TypeOK, hist
  <1>6. TypeOK'
    BY <1>3, <1>4, <1>5 DEF TypeOK
  <1>7. AtWork'
    BY <1>1, <1>3, <1>5 DEF AtWork
  <1>8. LockHeld'
    BY <1>1, <1>2, <1>3, <1>4, <1>5 DEF LockExchange, LockHeld, MutualExclusion, N, AtWork
  <1>9. Mappings'
    BY <1>4, <1>5, MappingsKept
  <1>10. Users'
    BY <1>1, <1>3, <1>4, <1>5 DEF Users, AtWork, N, Mappings
  <1>11. Opening'
    BY <1>1, <1>3, <1>4, <1>5 DEF Opening, ForEachMissesNone, N
  <1> QED
    BY <1>6, <1>7, <1>8, <1>9, <1>10, <1>11

LEMMA LockWaitKeeps ==
    ASSUME IInv, NEW t \in Threads, LockWait(t)
    PROVE  IInv'
  <1> USE DEF IInv
  <1>1. /\ th[t].node \in Nodes /\ th[t].pc \notin {"idle", "next", "use"}
        /\ ctx.at = "ready" /\ ctx.kind # "presplit"
    BY DEF LockWait, AtWork
  <1>2. PICK p \in {"sleep", "xchg"} :
          /\ Go(t, [th[t] EXCEPT !.pc = p])
          /\ node' = node
    BY DEF LockWait
  <1>3. /\ th' \in [Threads -> ThreadStates]
        /\ th'[t].pc = p
        /\ \A s \in Threads : s # t => th'[s] = th[s]
        /\ \A s \in Threads :
             /\ th'[s].node = th[s].node /\ th'[s].op = th[s].op /\ th'[s].use = th[s].use
             /\ th'[s].missed = th[s].missed /\ th'[s].revoked = th[s].revoked
    BY <1>2, PcStep DEF TypeOK, ThreadPcs
  <1>4. node' = node /\ node \in [Nodes -> NodeStates]
    BY <1>2 DEF TypeOK
  <1>5. UNCHANGED <<fs, ctx, maps, evergood, changes>> /\ evergood \subseteq Nodes
    BY DEF LockWait, TypeOK, hist
  <1>6. TypeOK'
    BY <1>3, <1>4, <1>5 DEF TypeOK
  <1>7. AtWork'
    BY <1>1, <1>3, <1>5 DEF AtWork
  <1>8. LockHeld'
    BY <1>1, <1>2, <1>3, <1>4, <1>5 DEF LockWait, LockHeld, MutualExclusion, N, AtWork
  <1>9. Mappings'
    BY <1>4, <1>5, MappingsKept
  <1>10. Users'
    BY <1>1, <1>3, <1>4, <1>5 DEF Users, AtWork, N, Mappings
  <1>11. Opening'
    BY <1>1, <1>3, <1>4, <1>5 DEF Opening, ForEachMissesNone, N
  <1> QED
    BY <1>6, <1>7, <1>8, <1>9, <1>10, <1>11

LEMMA UnlockKeeps ==
    ASSUME IInv, NEW t \in Threads, Unlock(t)
    PROVE  IInv'
  <1> USE DEF IInv
  <1>1. /\ th[t].node \in Nodes /\ th[t].pc \notin {"idle", "next", "use"}
        /\ ctx.at = "ready" /\ ctx.kind # "presplit"
    BY DEF Unlock, AtWork
  <1>2. PICK p \in {"wake", "opened"} :
          /\ Go(t, [th[t] EXCEPT !.pc = p])
          /\ node' = [node EXCEPT ![th[t].node].lock = 0]
    BY DEF Unlock
  <1>3. /\ th' \in [Threads -> ThreadStates]
        /\ th'[t].pc = p
        /\ \A s \in Threads : s # t => th'[s] = th[s]
        /\ \A s \in Threads :
             /\ th'[s].node = th[s].node /\ th'[s].op = th[s].op /\ th'[s].use = th[s].use
             /\ th'[s].missed = th[s].missed /\ th'[s].revoked = th[s].revoked
    BY <1>2, PcStep DEF TypeOK, ThreadPcs
  <1>4. /\ node' \in [Nodes -> NodeStates]
        /\ \A m \in Nodes : m # th[t].node => node'[m] = node[m]
        /\ \A m \in Nodes : node'[m].pa = node[m].pa /\ node'[m].noAccess = node[m].noAccess
    BY <1>1, <1>2 DEF TypeOK, NodeStates, N
  <1>5. UNCHANGED <<fs, ctx, maps, evergood, changes>> /\ evergood \subseteq Nodes
    BY DEF Unlock, TypeOK, hist
  <1>6. TypeOK'
    BY <1>3, <1>4, <1>5 DEF TypeOK
  <1>7. AtWork'
    BY <1>1, <1>3, <1>5 DEF AtWork
  <1>8. LockHeld'
    BY <1>1, <1>2, <1>3, <1>4, <1>5 DEF Unlock, LockHeld, MutualExclusion, N, AtWork
  <1>9. Mappings'
    BY <1>4, <1>5, MappingsKept
  <1>10. Users'
    BY <1>1, <1>3, <1>4, <1>5 DEF Users, AtWork, N, Mappings
  <1>11. Opening'
    BY <1>1, <1>3, <1>4, <1>5 DEF Opening, ForEachMissesNone, N, Unlock
  <1> QED
    BY <1>6, <1>7, <1>8, <1>9, <1>10, <1>11

LEMMA OpenedKeeps ==
    ASSUME IInv, NEW t \in Threads, Opened(t)
    PROVE  IInv'
  <1> USE DEF IInv
  <1>1. /\ th[t].node \in Nodes /\ th[t].pc \notin {"idle", "next", "use"}
        /\ ctx.at = "ready" /\ ctx.kind # "presplit"
    BY DEF Opened, AtWork
  <1>2. PICK p \in {"result"} :
          /\ Go(t, [th[t] EXCEPT !.pc = p])
          /\ \/ node' = node
             \/ N(t).pa = 0 /\ node' = [node EXCEPT ![th[t].node].noAccess = TRUE]
    BY DEF Opened
  <1>3. /\ th' \in [Threads -> ThreadStates]
        /\ th'[t].pc = p
        /\ \A s \in Threads : s # t => th'[s] = th[s]
        /\ \A s \in Threads :
             /\ th'[s].node = th[s].node /\ th'[s].op = th[s].op /\ th'[s].use = th[s].use
             /\ th'[s].missed = th[s].missed /\ th'[s].revoked = th[s].revoked
    BY <1>2, PcStep DEF TypeOK, ThreadPcs
  <1>4. /\ node' \in [Nodes -> NodeStates]
        /\ \A m \in Nodes : m # th[t].node => node'[m] = node[m]
        /\ \A m \in Nodes : node'[m].pa = node[m].pa /\ node'[m].lock = node[m].lock
        /\ node' = node \/ N(t).pa = 0
    <2>1. CASE node' = node
      BY <2>1 DEF TypeOK
    <2>2. CASE node' = [node EXCEPT ![th[t].node].noAccess = TRUE]
      BY <1>1, <1>2, <2>2, AccessStep DEF TypeOK
    <2> QED
      BY <1>2, <2>1, <2>2
  <1>5. UNCHANGED <<fs, ctx, maps, evergood, changes>> /\ evergood \subseteq Nodes
    BY DEF Opened, TypeOK, hist
  <1>6. TypeOK'
    BY <1>3, <1>4, <1>5 DEF TypeOK
  <1>7. AtWork'
    BY <1>1, <1>3, <1>5 DEF AtWork
  <1>8. LockHeld'
    <2>1. p \notin {"crit", "unlock"}
      BY <1>2
    <2> QED
      BY <1>3, <1>4, <2>1 DEF LockHeld, MutualExclusion, N, AtWork
  <1>9. Mappings'
    BY <1>4, <1>5, MappingsKept
  <1>10. Users'
    BY <1>1, <1>3, <1>4, <1>5 DEF Users, AtWork, N, Mappings
  <1>11. Opening'
    BY <1>1, <1>3, <1>4, <1>5 DEF Opening, ForEachMissesNone, N, Opened
  <1> QED
    BY <1>6, <1>7, <1>8, <1>9, <1>10, <1>11

LEMMA CheckAccessAndOpenKeeps ==
    ASSUME IInv, NEW t \in Threads, CheckAccessAndOpen(t)
    PROVE  IInv'
  <1> USE DEF IInv
  <1>1. /\ th[t].node \in Nodes /\ th[t].pc \notin {"idle", "next", "use"}
        /\ ctx.at = "ready" /\ ctx.kind # "presplit"
    BY DEF CheckAccessAndOpen, AtWork
  <1>2. PICK p \in {"cas", "result"} :
          /\ Go(t, [th[t] EXCEPT !.pc = p])
          /\ \/ node' = node /\ (p = "cas" \/ N(t).pa # 0 \/ N(t).noAccess)
             \/ /\ fs.area[th[t].node] \in {"absent", "denied"}
                /\ node' = [node EXCEPT ![th[t].node].noAccess = TRUE]
    BY DEF CheckAccessAndOpen
  <1>3. /\ th' \in [Threads -> ThreadStates]
        /\ th'[t].pc = p
        /\ \A s \in Threads : s # t => th'[s] = th[s]
        /\ \A s \in Threads :
             /\ th'[s].node = th[s].node /\ th'[s].op = th[s].op /\ th'[s].use = th[s].use
             /\ th'[s].missed = th[s].missed /\ th'[s].revoked = th[s].revoked
    BY <1>2, PcStep DEF TypeOK, ThreadPcs
  <1>4. /\ node' \in [Nodes -> NodeStates]
        /\ \A m \in Nodes : m # th[t].node => node'[m] = node[m]
        /\ \A m \in Nodes : node'[m].pa = node[m].pa /\ node'[m].lock = node[m].lock
        /\ node' = node \/ fs.area[th[t].node] \in {"absent", "denied"}
    <2>1. CASE node' = node
      BY <2>1 DEF TypeOK
    <2>2. CASE node' = [node EXCEPT ![th[t].node].noAccess = TRUE]
      BY <1>1, <1>2, <2>2, AccessStep DEF TypeOK
    <2> QED
      BY <1>2, <2>1, <2>2
  <1>5. UNCHANGED <<fs, ctx, maps, evergood, changes>> /\ evergood \subseteq Nodes
    BY DEF CheckAccessAndOpen, TypeOK, hist
  <1>6. TypeOK'
    BY <1>3, <1>4, <1>5 DEF TypeOK
  <1>7. AtWork'
    BY <1>1, <1>3, <1>5 DEF AtWork
  <1>8. LockHeld'
    BY <1>1, <1>3, <1>4, <1>5 DEF LockHeld, MutualExclusion, N, AtWork
  <1>9. Mappings'
    BY <1>4, <1>5, MappingsKept
  <1>10. Users'
    BY <1>1, <1>3, <1>4, <1>5 DEF Users, AtWork, N, Mappings
  <1>11. Opening'
    BY <1>1, <1>2, <1>3, <1>4, <1>5 DEF Opening, ForEachMissesNone, N
  <1> QED
    BY <1>6, <1>7, <1>8, <1>9, <1>10, <1>11

\* A context that has no area gets the mapping just made.
LEMMA MappingAdded ==
    ASSUME TypeOK, Mappings, MapOk, maps' = Mapped, NEW n \in Nodes, node[n].pa = 0,
           \A m \in Nodes : node'[m].pa = IF m = n THEN maps.made + 1 ELSE node[m].pa,
           ctx'.serial = ctx.serial, ctx'.at = ctx.at, ctx'.kind = ctx.kind,
           ctx.kind # "presplit", ctx.at \in {"areas", "ready"},
           ctx.at = "areas" => ctx'.todo = ctx.todo \ {n}
    PROVE  Mappings' /\ maps' \in [live : SUBSET (1..MaxMaps), made : 0..MaxMaps]
  <1>1. /\ maps.made \in Nat /\ maps.made + 1 \in 1..MaxMaps
        /\ maps'.made = maps.made + 1 /\ maps'.live = maps.live \cup {maps.made + 1}
        /\ maps' \in [live : SUBSET (1..MaxMaps), made : 0..MaxMaps]
    BY BoundAssumption DEF TypeOK, MapOk, Mapped
  <1>2. {node'[m].pa : m \in Nodes} \cup {0} = {node[m].pa : m \in Nodes} \cup {0, maps.made + 1}
    OBVIOUS
  <1>3. maps.live \subseteq 1..maps.made /\ ctx.serial \in 0..maps.made
    BY DEF Mappings, TypeOK
  <1>4. maps'.live = ({node'[m].pa : m \in Nodes} \cup {ctx'.serial}) \ {0}
    BY <1>1, <1>2 DEF Mappings
  <1>5. maps'.live \subseteq 1..maps'.made
    BY <1>1, <1>3
  <1>6. \A m \in Nodes : node[m].pa # maps.made + 1
    BY <1>1, <1>3 DEF Mappings
  <1>7. /\ \A k, m \in Nodes : k # m /\ node'[k].pa = node'[m].pa => node'[k].pa = 0
        /\ \A m \in Nodes : node'[m].pa = ctx'.serial => ctx'.serial = 0
    BY <1>1, <1>3, <1>6 DEF Mappings
  <1> QED
    BY <1>1, <1>4, <1>5, <1>7 DEF Mappings

LEMMA OpenLockedKeeps ==
    ASSUME IInv, NEW t \in Threads, OpenLocked(t)
    PROVE  IInv'
  <1> USE DEF IInv
  <1>1. /\ th[t].node \in Nodes /\ th[t].pc = "crit"
        /\ ctx.at = "ready" /\ ctx.kind # "presplit"
    BY DEF OpenLocked, AtWork
  <1>2. Go(t, [th[t] EXCEPT !.pc = "unlock"])
    BY DEF OpenLocked
  <1>3. /\ th' \in [Threads -> ThreadStates]
        /\ th'[t].pc = "unlock"
        /\ \A s \in Threads : s # t => th'[s] = th[s]
        /\ \A s \in Threads :
             /\ th'[s].node = th[s].node /\ th'[s].op = th[s].op /\ th'[s].use = th[s].use
             /\ th'[s].missed = th[s].missed /\ th'[s].revoked = th[s].revoked
    BY <1>2, PcStep DEF TypeOK, ThreadPcs
  <1>4. UNCHANGED <<fs, ctx, evergood, changes>> /\ evergood \subseteq Nodes
    BY DEF OpenLocked, TypeOK, hist
  <1>5. CASE N(t).pa = 0 /\ Mappable(fs.area[th[t].node]) /\ MapOk
    <2>1. maps' = Mapped /\ node' = [node EXCEPT ![th[t].node].pa = maps.made + 1]
      BY <1>5 DEF OpenLocked
    <2>2. maps.made \in Nat /\ maps.made + 1 \in 0..MaxMaps /\ maps'.made = maps.made + 1
      BY <1>5, <2>1, BoundAssumption DEF TypeOK, MapOk, Mapped
    <2>3. /\ node' \in [Nodes -> NodeStates]
          /\ node'[th[t].node].pa = maps.made + 1
          /\ \A m \in Nodes : m # th[t].node => node'[m] = node[m]
          /\ \A m \in Nodes : node'[m].lock = node[m].lock /\ node'[m].noAccess = node[m].noAccess
      BY <1>1, <2>1, <2>2, PaStep DEF TypeOK
    <2>4. Mappings' /\ maps' \in [live : SUBSET (1..MaxMaps), made : 0..MaxMaps]
      BY <1>1, <1>4, <1>5, <2>1, <2>3, MappingAdded DEF N
    <2>5. TypeOK'
      BY <1>3, <1>4, <2>3, <2>4 DEF TypeOK
    <2>6. AtWork'
      BY <1>1, <1>3, <1>4 DEF AtWork
    <2>7. LockHeld'
      BY <1>1, <1>3, <2>3 DEF LockHeld, MutualExclusion, N, AtWork
    <2>8. Users'
      BY <1>1, <1>3, <1>4, <1>5, <2>3 DEF Users, AtWork, N
    <2>9. Opening'
      BY <1>1, <1>3, <1>4, <2>2, <2>3, BoundAssumption DEF Opening, ForEachMissesNone, N, TypeOK
    <2> QED
      BY <2>4, <2>5, <2>6, <2>7, <2>8, <2>9
  <1>6. CASE ~(N(t).pa = 0 /\ Mappable(fs.area[th[t].node]) /\ MapOk)
    <2>1. UNCHANGED <<maps, node>>
      BY <1>6 DEF OpenLocked
    <2>2. TypeOK' /\ AtWork'
      BY <1>1, <1>3, <1>4, <2>1 DEF TypeOK, AtWork
    <2>3. LockHeld'
      BY <1>1, <1>3, <2>1 DEF LockHeld, MutualExclusion, N
    <2>4. Mappings'
      BY <1>4, <2>1, MappingsKept
    <2>5. Users'
      BY <1>1, <1>3, <1>4, <2>1 DEF Users, N
    <2>6. Opening'
      BY <1>1, <1>3, <1>4, <1>6, <2>1 DEF Opening, ForEachMissesNone, N, Mappable, MapOk
    <2> QED
      BY <2>2, <2>3, <2>4, <2>5, <2>6
  <1> QED
    BY <1>5, <1>6

\* A wake-up moves a sleeper of the same context on, too.
LEMMA WakeKeeps ==
    ASSUME IInv, NEW t \in Threads, Wake(t)
    PROVE  IInv'
  <1> USE DEF IInv
  <1>1. /\ th[t].node \in Nodes /\ th[t].pc = "wake"
        /\ ctx.at = "ready" /\ ctx.kind # "presplit"
    BY DEF Wake, AtWork
  <1>2. PICK s \in Threads : /\ th[s].pc = "sleep" \/ s = t
                             /\ th' = [th EXCEPT ![t].pc = "opened",
                                                 ![s].pc = IF s = t THEN "opened" ELSE "xchg"]
    <2>1. CASE {s \in Threads : th[s].pc = "sleep" /\ th[s].node = th[t].node} = {}
      BY <2>1 DEF Wake, Go
    <2>2. CASE {s \in Threads : th[s].pc = "sleep" /\ th[s].node = th[t].node} # {}
      BY <2>2, <1>1 DEF Wake
    <2> QED
      BY <2>1, <2>2
  <1>3. /\ th' \in [Threads -> ThreadStates]
        /\ th'[t].pc = "opened"
        /\ s # t => th'[s].pc = "xchg" /\ th[s].pc = "sleep"
        /\ \A r \in Threads : r \notin {s, t} => th'[r] = th[r]
        /\ \A r \in Threads :
             /\ th'[r].node = th[r].node /\ th'[r].op = th[r].op /\ th'[r].use = th[r].use
             /\ th'[r].missed = th[r].missed /\ th'[r].revoked = th[r].revoked
    BY <1>2, SMTT(30) DEF TypeOK, ThreadStates, ThreadPcs
  <1>4. UNCHANGED <<fs, ctx, node, maps, evergood, changes>> /\ evergood \subseteq Nodes
    BY DEF Wake, TypeOK, hist
  <1>5. TypeOK'
    BY <1>3, <1>4 DEF TypeOK
  <1>6. AtWork'
    BY <1>1, <1>3, <1>4 DEF AtWork
  <1>7. LockHeld'
    BY <1>1, <1>3, <1>4 DEF LockHeld, MutualExclusion, N
  <1>8. Mappings'
    BY <1>4, MappingsKept
  <1>9. Users'
    BY <1>1, <1>3, <1>4 DEF Users, N
  <1>10. Opening'
    BY <1>1, <1>3, <1>4 DEF Opening, ForEachMissesNone, N
  <1> QED
    BY <1>5, <1>6, <1>7, <1>8, <1>9, <1>10

\* The steps that change more of a thread than its place touch nothing else.
ThreadOnly == UNCHANGED <<fs, ctx, node, maps, evergood, changes>> /\ evergood \subseteq Nodes

LEMMA ResultKeeps ==
    ASSUME IInv, NEW t \in Threads, Result(t)
    PROVE  IInv'
  <1> USE DEF IInv
  <1> DEFINE pa == N(t).pa
             over == IF th[t].op = "get" THEN "idle" ELSE "next"
             new == [th[t] EXCEPT !.use = pa, !.pc = IF pa # 0 THEN "use" ELSE over,
                                  !.missed = IF pa = 0 THEN @ \cup {th[t].node} ELSE @]
  <1>1. /\ th[t].node \in Nodes /\ th[t].pc = "result"
        /\ ctx.at = "ready" /\ ctx.kind # "presplit" /\ th[t] \in ThreadStates
    BY DEF Result, AtWork, TypeOK
  <1>2. Go(t, new)
    BY DEF Result
  <1>3. pa \in 0..MaxMaps
    BY <1>1 DEF TypeOK, NodeStates, N
  <1>4. /\ new \in ThreadStates /\ new.use = pa /\ new.pc = (IF pa # 0 THEN "use" ELSE over)
        /\ new.missed = (IF pa = 0 THEN th[t].missed \cup {th[t].node} ELSE th[t].missed)
        /\ new.node = th[t].node /\ new.op = th[t].op /\ new.revoked = th[t].revoked
    BY <1>1, <1>3 DEF ThreadStates, ThreadPcs
  <1> HIDE DEF new
  <1>5. th' \in [Threads -> ThreadStates] /\ th'[t] = new /\ \A s \in Threads : s # t => th'[s] = th[s]
    BY <1>2, <1>4, ThreadStep DEF TypeOK
  <1>6. ThreadOnly
    BY DEF Result, TypeOK, ThreadOnly, hist
  <1>7. TypeOK' /\ AtWork'
    BY <1>1, <1>4, <1>5, <1>6 DEF TypeOK, AtWork, ThreadOnly
  <1>8. LockHeld'
    BY <1>1, <1>4, <1>5, <1>6 DEF LockHeld, MutualExclusion, N, ThreadOnly
  <1>9. Mappings'
    BY <1>6, MappingsKept DEF ThreadOnly
  <1>10. Users'
    BY <1>1, <1>4, <1>5, <1>6 DEF Users, N, ThreadOnly
  <1>11. Opening'
    <2>1. maps.made < MaxMaps => pa # 0 \/ th[t].node \notin evergood
      BY <1>1 DEF Opening
    <2>2. ForEachMissesNone'
      BY <1>1, <1>4, <1>5, <1>6, <2>1 DEF Opening, ForEachMissesNone, ThreadOnly
    <2> QED
      BY <1>1, <1>4, <1>5, <1>6, <2>2 DEF Opening, N, ThreadOnly
  <1> QED
    BY <1>7, <1>8, <1>9, <1>10, <1>11

LEMMA UseKeeps ==
    ASSUME IInv, NEW t \in Threads, Use(t)
    PROVE  IInv'
  <1> USE DEF IInv
  <1> DEFINE new == [th[t] EXCEPT !.use = 0, !.pc = IF th[t].op = "get" THEN "idle" ELSE "next"]
  <1>1. th[t].pc = "use" /\ th[t] \in ThreadStates
    BY DEF Use, TypeOK
  <1>2. Go(t, new)
    BY DEF Use
  <1>3. ctx.kind = "presplit" => th[t].op = "get"
    BY <1>1 DEF AtWork
  <1>4. /\ new \in ThreadStates /\ new.pc = (IF th[t].op = "get" THEN "idle" ELSE "next")
        /\ new.missed = th[t].missed /\ new.op = th[t].op
    <2>1. 0 \in 0..MaxMaps
      BY BoundAssumption
    <2> QED
      BY <1>1, <2>1 DEF ThreadStates, ThreadPcs
  <1> HIDE DEF new
  <1>5. th' \in [Threads -> ThreadStates] /\ th'[t] = new /\ \A s \in Threads : s # t => th'[s] = th[s]
    BY <1>2, <1>4, ThreadStep DEF TypeOK
  <1>6. ThreadOnly
    BY DEF Use, TypeOK, ThreadOnly, hist
  <1>7. TypeOK' /\ AtWork'
    BY <1>1, <1>3, <1>4, <1>5, <1>6 DEF TypeOK, AtWork, ThreadOnly
  <1>8. LockHeld'
    BY <1>1, <1>4, <1>5, <1>6 DEF LockHeld, MutualExclusion, N, ThreadOnly
  <1>9. Mappings'
    BY <1>6, MappingsKept DEF ThreadOnly
  <1>10. Users'
    BY <1>1, <1>4, <1>5, <1>6 DEF Users, N, ThreadOnly
  <1>11. Opening'
    BY <1>1, <1>4, <1>5, <1>6 DEF Opening, ForEachMissesNone, N, ThreadOnly
  <1> QED
    BY <1>7, <1>8, <1>9, <1>10, <1>11

LEMMA ForEachKeeps ==
    ASSUME IInv, NEW t \in Threads, ForEach(t)
    PROVE  IInv'
  <1> USE DEF IInv
  <1> DEFINE new == [th[t] EXCEPT !.op = "foreach", !.pc = "next", !.todo = Nodes, !.calls = @ + 1,
                                  !.missed = {}]
  <1>1. th[t].pc = "idle" /\ th[t] \in ThreadStates /\ ctx.at = "ready" /\ ctx.kind # "presplit"
    BY DEF ForEach, TypeOK
  <1>2. Go(t, new)
    BY DEF ForEach
  <1>3. th[t].calls + 1 \in 0..MaxCalls
    BY <1>1, BoundAssumption DEF ForEach, ThreadStates
  <1>4. new \in ThreadStates /\ new.pc = "next" /\ new.missed = {}
    BY <1>1, <1>3 DEF ThreadStates, ThreadPcs
  <1> HIDE DEF new
  <1>5. th' \in [Threads -> ThreadStates] /\ th'[t] = new /\ \A s \in Threads : s # t => th'[s] = th[s]
    BY <1>2, <1>4, ThreadStep DEF TypeOK
  <1>6. ThreadOnly
    BY DEF ForEach, TypeOK, ThreadOnly, hist
  <1>7. TypeOK' /\ AtWork'
    BY <1>1, <1>4, <1>5, <1>6 DEF TypeOK, AtWork, ThreadOnly
  <1>8. LockHeld'
    BY <1>1, <1>4, <1>5, <1>6 DEF LockHeld, MutualExclusion, N, ThreadOnly
  <1>9. Mappings'
    BY <1>6, MappingsKept DEF ThreadOnly
  <1>10. Users'
    BY <1>1, <1>4, <1>5, <1>6 DEF Users, N, ThreadOnly
  <1>11. Opening'
    BY <1>1, <1>4, <1>5, <1>6 DEF Opening, ForEachMissesNone, N, ThreadOnly
  <1> QED
    BY <1>7, <1>8, <1>9, <1>10, <1>11

LEMMA ForEachNextKeeps ==
    ASSUME IInv, NEW t \in Threads, ForEachNext(t)
    PROVE  IInv'
  <1> USE DEF IInv
  <1>1. /\ th[t].pc = "next" /\ th[t] \in ThreadStates
        /\ ctx.at = "ready" /\ ctx.kind # "presplit"
    BY DEF ForEachNext, AtWork, TypeOK
  <1>2. PICK new \in ThreadStates :
          /\ Go(t, new) /\ new.op = th[t].op
          /\ \/ new.pc = "idle" /\ new.missed = {}
             \/ /\ new.pc = "access" /\ new.missed = th[t].missed /\ new.node \in Nodes
                /\ ~new.revoked => fs.area[new.node] \in {"bad", "good"}
    <2>1. CASE th[t].todo = {}
      <3> DEFINE new == [th[t] EXCEPT !.pc = "idle", !.node = "none", !.missed = {}]
      <3>1. Go(t, new)
        BY <2>1 DEF ForEachNext
      <3>2. new \in ThreadStates /\ new.op = th[t].op /\ new.pc = "idle" /\ new.missed = {}
        BY <1>1 DEF ThreadStates, ThreadPcs
      <3> QED
        BY <3>1, <3>2
    <2>2. CASE th[t].todo # {}
      <3>1. PICK n \in th[t].todo :
              Go(t, [th[t] EXCEPT !.node = n, !.todo = @ \ {n}, !.pc = "access",
                                  !.revoked = fs.area[n] \in {"absent", "denied"}])
        BY <2>2 DEF ForEachNext
      <3> DEFINE b == fs.area[n] \in {"absent", "denied"}
      <3>2. b \in BOOLEAN
        OBVIOUS
      <3> HIDE DEF b
      <3> DEFINE new == [th[t] EXCEPT !.node = n, !.todo = @ \ {n}, !.pc = "access", !.revoked = b]
      <3>3. /\ new \in ThreadStates /\ new.op = th[t].op /\ new.pc = "access"
            /\ new.missed = th[t].missed /\ new.node = n /\ new.revoked = b /\ n \in Nodes
        BY <1>1, <3>2 DEF ThreadStates, ThreadPcs
      <3>4. Go(t, new)
        BY <3>1 DEF b
      <3>5. ~b => fs.area[n] \in {"bad", "good"}
        BY <3>3 DEF TypeOK, FileSystem, FileState, b
      <3> HIDE DEF new
      <3> QED
        BY <3>3, <3>4, <3>5
    <2> QED
      BY <2>1, <2>2
  <1>5. th' \in [Threads -> ThreadStates] /\ th'[t] = new /\ \A s \in Threads : s # t => th'[s] = th[s]
    BY <1>2, ThreadStep DEF TypeOK
  <1>6. ThreadOnly
    BY DEF ForEachNext, TypeOK, ThreadOnly, hist
  <1>7. TypeOK' /\ AtWork'
    BY <1>1, <1>2, <1>5, <1>6 DEF TypeOK, AtWork, ThreadOnly
  <1>8. LockHeld'
    BY <1>1, <1>2, <1>5, <1>6 DEF LockHeld, MutualExclusion, N, ThreadOnly
  <1>9. Mappings'
    BY <1>6, MappingsKept DEF ThreadOnly
  <1>10. Users'
    BY <1>1, <1>2, <1>5, <1>6 DEF Users, N, ThreadOnly
  <1>11. Opening'
    BY <1>1, <1>2, <1>5, <1>6 DEF Opening, ForEachMissesNone, N, ThreadOnly
  <1> QED
    BY <1>7, <1>8, <1>9, <1>10, <1>11

LEMMA GetPropAreaForNameKeeps ==
    ASSUME IInv, NEW t \in Threads, GetPropAreaForName(t)
    PROVE  IInv'
  <1> USE DEF IInv
  <1>1. th[t].pc = "idle" /\ th[t] \in ThreadStates /\ ctx.at = "ready"
    BY DEF GetPropAreaForName, TypeOK
  <1>2. PICK n \in Nodes :
          Go(t, [th[t] EXCEPT !.op = "get", !.node = n, !.calls = @ + 1,
                   !.revoked = fs.area[n] \in {"absent", "denied"},
                   !.use = IF ctx.kind = "presplit" THEN ctx.serial ELSE node[n].pa,
                   !.pc = IF ctx.kind = "presplit" \/ node[n].pa # 0 THEN "use" ELSE "cas"])
    BY DEF GetPropAreaForName
  <1> DEFINE b == fs.area[n] \in {"absent", "denied"}
  <1>3. b \in BOOLEAN
    OBVIOUS
  <1> HIDE DEF b
  <1> DEFINE use == IF ctx.kind = "presplit" THEN ctx.serial ELSE node[n].pa
             pc == IF ctx.kind = "presplit" \/ node[n].pa # 0 THEN "use" ELSE "cas"
             new == [th[t] EXCEPT !.op = "get", !.node = n, !.calls = @ + 1, !.revoked = b,
                                  !.use = use, !.pc = pc]
  <1>4. /\ new \in ThreadStates /\ new.op = "get" /\ new.node = n /\ new.use = use /\ new.pc = pc
        /\ ~new.revoked => fs.area[n] \in {"bad", "good"}
    <2>1. use \in 0..MaxMaps
      BY DEF TypeOK, NodeStates
    <2>2. pc \in ThreadPcs
      BY DEF ThreadPcs
    <2>3. th[t].calls + 1 \in 0..MaxCalls
      BY <1>1, BoundAssumption DEF GetPropAreaForName, ThreadStates
    <2> HIDE DEF use, pc
    <2>4. new \in ThreadStates /\ new.op = "get" /\ new.node = n /\ new.use = use /\ new.pc = pc
            /\ new.revoked = b
      BY <1>1, <1>3, <2>1, <2>2, <2>3 DEF ThreadStates
    <2>5. ~b => fs.area[n] \in {"bad", "good"}
      BY DEF TypeOK, FileSystem, FileState, b
    <2> HIDE DEF new
    <2> QED
      BY <2>4, <2>5
  <1> HIDE DEF new
  <1>5. th' \in [Threads -> ThreadStates] /\ th'[t] = new /\ \A s \in Threads : s # t => th'[s] = th[s]
    BY <1>2, <1>4, ThreadStep DEF TypeOK, new, b
  <1>6. ThreadOnly
    BY DEF GetPropAreaForName, TypeOK, ThreadOnly, hist
  <1>7. TypeOK' /\ AtWork'
    BY <1>1, <1>4, <1>5, <1>6 DEF TypeOK, AtWork, ThreadOnly
  <1>8. LockHeld'
    BY <1>1, <1>4, <1>5, <1>6 DEF LockHeld, MutualExclusion, N, ThreadOnly
  <1>9. Mappings'
    BY <1>6, MappingsKept DEF ThreadOnly
  <1>10. Users'
    BY <1>1, <1>4, <1>5, <1>6 DEF Users, N, ThreadOnly, Mappings
  <1>11. Opening'
    BY <1>1, <1>4, <1>5, <1>6 DEF Opening, ForEachMissesNone, N, ThreadOnly
  <1> QED
    BY <1>7, <1>8, <1>9, <1>10, <1>11

-----------------------------------------------------------------------------
(* Changes of the files, ResetAccess, and the initialisation *)

LEMMA FileChangesKeeps ==
    ASSUME IInv, FileChanges
    PROVE  IInv'
  <1> USE DEF IInv
  <1>1. PICK n \in Nodes, f \in FileState \ {"absent"} :
          /\ fs' = [fs EXCEPT !.area[n] = f]
          /\ evergood' = evergood \ {n}
          /\ th' = [t \in Threads |->
                     IF th[t].node = n /\ f = "denied" THEN [th[t] EXCEPT !.revoked = TRUE] ELSE th[t]]
    BY DEF FileChanges
  <1>2. UNCHANGED <<ctx, node, maps>> /\ changes' \in 0..MaxChanges /\ ctx.at = "ready"
    BY BoundAssumption DEF FileChanges, TypeOK
  <1>3. /\ fs' \in FileSystem
        /\ \A m \in Nodes : fs'.area[m] = IF m = n THEN f ELSE fs.area[m]
    BY <1>1 DEF TypeOK, FileSystem
  <1>4. /\ th' \in [Threads -> ThreadStates]
        /\ \A t \in Threads :
             /\ th'[t].pc = th[t].pc /\ th'[t].node = th[t].node /\ th'[t].op = th[t].op
             /\ th'[t].use = th[t].use /\ th'[t].missed = th[t].missed
             /\ (th[t].node = n /\ f = "denied") \/ th'[t].revoked = th[t].revoked
             /\ th[t].node = n /\ f = "denied" => th'[t].revoked = TRUE
    <2> SUFFICES ASSUME NEW t \in Threads
                 PROVE  /\ th'[t] \in ThreadStates
                        /\ th'[t].pc = th[t].pc /\ th'[t].node = th[t].node /\ th'[t].op = th[t].op
                        /\ th'[t].use = th[t].use /\ th'[t].missed = th[t].missed
                        /\ (th[t].node = n /\ f = "denied") \/ th'[t].revoked = th[t].revoked
                        /\ th[t].node = n /\ f = "denied" => th'[t].revoked = TRUE
      BY <1>1
    <2>1. th[t] \in ThreadStates
      BY DEF TypeOK
    <2>2. th'[t] = IF th[t].node = n /\ f = "denied" THEN [th[t] EXCEPT !.revoked = TRUE] ELSE th[t]
      BY <1>1
    <2>3. CASE th[t].node = n /\ f = "denied"
      BY <2>1, <2>2, <2>3, ZenonT(40) DEF ThreadStates
    <2>4. CASE ~(th[t].node = n /\ f = "denied")
      BY <2>1, <2>2, <2>4
    <2> QED
      BY <2>3, <2>4
  <1>5. evergood \subseteq Nodes /\ evergood' \subseteq Nodes
    BY <1>1 DEF TypeOK
  <1>6. TypeOK' /\ AtWork'
    BY <1>2, <1>3, <1>4, <1>5 DEF TypeOK, AtWork
  <1>7. LockHeld'
    BY <1>2, <1>4 DEF LockHeld, MutualExclusion, N
  <1>8. Mappings'
    BY <1>2, MappingsKept
  <1>9. Users'
    <2>1. f \in {"denied", "bad", "good"}
      BY DEF FileState
    <2> QED
      BY <1>2, <1>3, <1>4, <2>1 DEF Users, N, AtWork
  <1>10. Opening'
    BY <1>1, <1>2, <1>3, <1>4, <1>5 DEF Opening, ForEachMissesNone, N
  <1> QED
    BY <1>6, <1>7, <1>8, <1>9, <1>10

\* ResetAccess takes an area away only from those whose access was revoked.
LEMMA ResetAccessKeeps ==
    ASSUME IInv, NEW n \in Nodes, ResetAccess(n)
    PROVE  IInv'
  <1> USE DEF IInv
  <1>1. /\ UNCHANGED <<fs, ctx, th, evergood, changes>> /\ evergood \subseteq Nodes
        /\ ctx.at = "ready" /\ ctx.kind # "presplit"
    BY DEF ResetAccess, TypeOK, hist
  <1>2. CASE fs.area[n] \in {"absent", "denied"}
    <2>1. maps' = Unmapped({node[n].pa}) /\ node' = [node EXCEPT ![n].pa = 0, ![n].noAccess = TRUE]
      BY <1>2 DEF ResetAccess
    <2>2. /\ maps'.live = maps.live \ {node[n].pa} /\ maps'.made = maps.made
          /\ maps' \in [live : SUBSET (1..MaxMaps), made : 0..MaxMaps]
      BY <2>1 DEF Unmapped, TypeOK
    <2>3. /\ node' \in [Nodes -> NodeStates]
          /\ node'[n].pa = 0
          /\ \A m \in Nodes : m # n => node'[m] = node[m]
          /\ \A m \in Nodes : node'[m].lock = node[m].lock
      <3>1. 0 \in 0..MaxMaps
        BY BoundAssumption
      <3> QED
        BY <2>1, <3>1 DEF TypeOK, NodeStates
    <2>4. TypeOK' /\ AtWork'
      BY <1>1, <2>2, <2>3 DEF TypeOK, AtWork
    <2>5. LockHeld'
      BY <1>1, <2>3 DEF LockHeld, MutualExclusion, N, AtWork
    <2>6. Mappings'
      <3>1. maps'.live = ({node'[m].pa : m \in Nodes} \cup {ctx'.serial}) \ {0}
        BY <1>1, <2>2, <2>3 DEF Mappings
      <3> QED
        BY <1>1, <2>2, <2>3, <3>1 DEF Mappings
    <2>7. Users'
      BY <1>1, <1>2, <2>3 DEF Users, N, AtWork
    <2>8. Opening'
      BY <1>1, <1>2, <2>2, <2>3 DEF Opening, ForEachMissesNone, N
    <2> QED
      BY <2>4, <2>5, <2>6, <2>7, <2>8
  <1>3. CASE fs.area[n] \notin {"absent", "denied"}
    <2>1. node' = [node EXCEPT ![n].noAccess = FALSE] /\ maps' = maps
      BY <1>3 DEF ResetAccess
    <2>2. /\ node' \in [Nodes -> NodeStates]
          /\ node'[n].noAccess = FALSE
          /\ \A m \in Nodes : m # n => node'[m] = node[m]
          /\ \A m \in Nodes : node'[m].lock = node[m].lock /\ node'[m].pa = node[m].pa
      BY <2>1, AccessStep DEF TypeOK
    <2>3. TypeOK' /\ AtWork'
      BY <1>1, <2>1, <2>2 DEF TypeOK, AtWork
    <2>4. LockHeld'
      BY <1>1, <2>2 DEF LockHeld, MutualExclusion, N, AtWork
    <2>5. Mappings'
      BY <1>1, <2>1, <2>2, MappingsKept
    <2>6. Users'
      BY <1>1, <2>2 DEF Users, N, AtWork
    <2>7. Opening'
      BY <1>1, <2>1, <2>2 DEF Opening, ForEachMissesNone, N
    <2> QED
      BY <2>3, <2>4, <2>5, <2>6, <2>7
  <1> QED
    BY <1>2, <1>3

\* Before the end of the initialisation there are no users.
NobodyYet == \A t \in Threads : th[t].pc = "idle"

LEMMA NotReady ==
    ASSUME AtWork, ctx.at # "ready"
    PROVE  NobodyYet
  BY DEF AtWork, NobodyYet

\* The parts about threads hold for any outcome of a step while there are none.
LEMMA NobodyKeeps ==
    ASSUME Opening, NobodyYet, UNCHANGED <<th, evergood>>,
           maps.made \in Nat, maps'.made \in Nat, maps.made <= maps'.made, MaxMaps \in Nat,
           \A n \in evergood : fs'.area[n] = "good" /\ (node'[n].noAccess => node[n].noAccess)
    PROVE  AtWork' /\ LockHeld' /\ Users' /\ Opening'
  <1>1. \A t \in Threads : th'[t].pc = "idle"
    BY DEF NobodyYet
  <1>2. AtWork' /\ LockHeld' /\ Users'
    <2>1. AtWork'
      BY <1>1 DEF AtWork
    <2>2. LockHeld'
      BY <1>1 DEF LockHeld, MutualExclusion
    <2>3. Users'
      BY <1>1 DEF Users
    <2> QED
      BY <2>1, <2>2, <2>3
  <1>3. maps'.made < MaxMaps => maps.made < MaxMaps
    OBVIOUS
  <1>4. ForEachMissesNone'
    BY <1>3 DEF Opening, ForEachMissesNone
  <1>5. maps'.made < MaxMaps => \A n \in evergood' : ~node'[n].noAccess
    BY <1>3 DEF Opening
  <1> QED
    BY <1>1, <1>2, <1>4, <1>5 DEF Opening

LEMMA FinishInitKeeps ==
    ASSUME IInv, ctx.at = "start", NEW kind \in {"serialized", "split", "presplit"},
           NEW loaded \in BOOLEAN, FinishInit(kind, loaded)
    PROVE  IInv'
  <1> USE DEF IInv
  <1>1. /\ NobodyYet /\ maps.live = {} /\ ctx.serial = 0
        /\ \A n \in Nodes : node[n].pa = 0
        /\ UNCHANGED <<fs, node, th, evergood, changes>>
    <2>1. \A n \in Nodes : node[n].pa \notin {0} => node[n].pa \in maps.live
      BY DEF Mappings
    <2> QED
      BY <2>1, NotReady DEF Mappings, FinishInit, hist
  <1>2. CASE loaded /\ Mappable(fs.serial) /\ MapOk
    <2>1. /\ maps' = Mapped
          /\ ctx' = [ctx EXCEPT !.kind = kind, !.at = "ready", !.serial = maps.made + 1]
      BY <1>2 DEF FinishInit
    <2>2. /\ maps.made \in Nat /\ maps.made + 1 \in 1..MaxMaps
          /\ maps'.made = maps.made + 1 /\ maps'.live = {maps.made + 1}
          /\ maps' \in [live : SUBSET (1..MaxMaps), made : 0..MaxMaps]
      BY <1>1, <1>2, <2>1, BoundAssumption DEF TypeOK, MapOk, Mapped
    <2>3. ctx'.kind = kind /\ ctx'.at = "ready" /\ ctx'.serial = maps.made + 1
      BY <2>1 DEF TypeOK
    <2>4. TypeOK'
      BY <1>1, <2>1, <2>2 DEF TypeOK
    <2>5. Mappings'
      <3>1. \A n \in Nodes : node'[n].pa = 0
        BY <1>1
      <3>2. maps'.live = ({node'[m].pa : m \in Nodes} \cup {ctx'.serial}) \ {0}
        BY <2>2, <2>3, <3>1
      <3> QED
        BY <2>2, <2>3, <3>1, <3>2 DEF Mappings
    <2>6. AtWork' /\ LockHeld' /\ Users' /\ Opening'
      BY <1>1, <2>2, NobodyKeeps, BoundAssumption DEF Opening
    <2> QED
      BY <2>4, <2>5, <2>6
  <1>3. CASE ~(loaded /\ Mappable(fs.serial) /\ MapOk)
    <2>1. ctx' = [ctx EXCEPT !.kind = kind, !.at = "failed"] /\ maps' = maps
      BY <1>3 DEF FinishInit
    <2>2. ctx'.kind = kind /\ ctx'.at = "failed" /\ ctx'.serial = 0
      BY <1>1, <2>1 DEF TypeOK
    <2>3. TypeOK'
      BY <1>1, <2>1 DEF TypeOK
    <2>4. Mappings'
      BY <1>1, <2>1, <2>2 DEF Mappings
    <2>5. AtWork' /\ LockHeld' /\ Users' /\ Opening'
      BY <1>1, <2>1, NobodyKeeps, BoundAssumption DEF Opening, TypeOK
    <2> QED
      BY <2>3, <2>4, <2>5
  <1> QED
    BY <1>2, <1>3

LEMMA AreaInitKeeps ==
    ASSUME IInv, AreaInit
    PROVE  IInv'
  <1> USE DEF IInv
  <1>1. /\ NobodyYet /\ maps.live = {} /\ ctx.serial = 0
        /\ UNCHANGED <<fs, node, maps, th, evergood, changes>>
    BY NotReady DEF AreaInit, Mappings, hist
  <1>2. /\ ctx'.kind = "serialized" /\ ctx'.at \in {"areas", "failed"} /\ ctx'.serial = 0
        /\ TypeOK'
    BY <1>1 DEF AreaInit, TypeOK
  <1>3. Mappings'
    BY <1>1, <1>2 DEF Mappings
  <1>4. AtWork' /\ LockHeld' /\ Users' /\ Opening'
    BY <1>1, NobodyKeeps, BoundAssumption DEF Opening, TypeOK
  <1> QED
    BY <1>2, <1>3, <1>4

LEMMA AreaInitOpenKeeps ==
    ASSUME IInv, AreaInitOpen
    PROVE  IInv'
  <1> USE DEF IInv
  <1>1. /\ NobodyYet /\ ctx.at = "areas" /\ UNCHANGED <<th, evergood, changes>>
        /\ evergood \subseteq Nodes
    BY NotReady DEF AreaInitOpen, hist, TypeOK
  <1>2. PICK n \in ctx.todo :
         IF fs.area[n] = "absent" /\ MapOk
         THEN /\ maps' = Mapped
              /\ node' = [node EXCEPT ![n].pa = maps.made + 1]
              /\ fs' = [fs EXCEPT !.area[n] = "good"]
              /\ ctx' = [ctx EXCEPT !.todo = @ \ {n}]
         ELSE /\ ctx' = IF fs.area[n] = "denied" THEN [ctx EXCEPT !.at = "aborted"]
                        ELSE [ctx EXCEPT !.todo = @ \ {n}, !.failed = TRUE]
              /\ UNCHANGED <<maps, node, fs>>
    BY DEF AreaInitOpen
  <1>3. n \in Nodes /\ node[n].pa = 0 /\ ctx.kind = "serialized"
    BY <1>1 DEF TypeOK, Mappings
  <1>4. CASE fs.area[n] = "absent" /\ MapOk
    <2>1. /\ maps' = Mapped
          /\ node' = [node EXCEPT ![n].pa = maps.made + 1]
          /\ fs' = [fs EXCEPT !.area[n] = "good"]
          /\ ctx' = [ctx EXCEPT !.todo = @ \ {n}]
      BY <1>2, <1>4
    <2>2. maps.made \in Nat /\ maps.made + 1 \in 0..MaxMaps /\ maps'.made = maps.made + 1
      BY <1>4, <2>1, BoundAssumption DEF TypeOK, MapOk, Mapped
    <2>3. /\ node' \in [Nodes -> NodeStates]
          /\ node'[n].pa = maps.made + 1
          /\ \A m \in Nodes : m # n => node'[m] = node[m]
          /\ \A m \in Nodes : node'[m].lock = node[m].lock /\ node'[m].noAccess = node[m].noAccess
      BY <1>3, <2>1, <2>2, PaStep DEF TypeOK
    <2>4. /\ fs' \in FileSystem
          /\ \A m \in Nodes : fs'.area[m] = IF m = n THEN "good" ELSE fs.area[m]
      BY <1>3, <2>1 DEF TypeOK, FileSystem, FileState
    <2>5. /\ ctx'.serial = ctx.serial /\ ctx'.at = ctx.at /\ ctx'.kind = ctx.kind
          /\ ctx'.todo = ctx.todo \ {n}
      BY <2>1 DEF TypeOK
    <2>6. Mappings' /\ maps' \in [live : SUBSET (1..MaxMaps), made : 0..MaxMaps]
      BY <1>1, <1>3, <1>4, <2>1, <2>3, <2>5, MappingAdded
    <2>7. TypeOK'
      BY <1>1, <2>1, <2>3, <2>4, <2>6 DEF TypeOK
    <2>8. \A m \in evergood : fs'.area[m] = "good" /\ (node'[m].noAccess => node[m].noAccess)
      BY <1>1, <2>3, <2>4 DEF Opening
    <2>9. AtWork' /\ LockHeld' /\ Users' /\ Opening'
      BY <1>1, <2>2, <2>8, NobodyKeeps, BoundAssumption
    <2> QED
      BY <2>6, <2>7, <2>9
  <1>5. CASE ~(fs.area[n] = "absent" /\ MapOk)
    <2>1. UNCHANGED <<maps, node, fs>>
      BY <1>2, <1>5
    <2>2. /\ ctx'.at \in {"areas", "aborted"} /\ ctx'.kind = ctx.kind /\ ctx'.serial = ctx.serial
          /\ ctx'.todo \subseteq ctx.todo /\ TypeOK'
      <3>1. CASE fs.area[n] = "denied"
        BY <1>1, <1>2, <1>3, <1>5, <2>1, <3>1 DEF TypeOK
      <3>2. CASE fs.area[n] # "denied"
        <4>1. ctx' = [ctx EXCEPT !.todo = @ \ {n}, !.failed = TRUE]
          BY <1>2, <1>5, <3>2
        <4> QED
          BY <1>1, <2>1, <4>1 DEF TypeOK
      <3> QED
        BY <3>1, <3>2
    <2>3. Mappings'
      BY <1>1, <2>1, <2>2 DEF Mappings
    <2>4. AtWork' /\ LockHeld' /\ Users' /\ Opening'
      BY <1>1, <2>1, NobodyKeeps, BoundAssumption DEF Opening, TypeOK
    <2> QED
      BY <2>2, <2>3, <2>4
  <1> QED
    BY <1>4, <1>5

LEMMA AreaInitSerialKeeps ==
    ASSUME IInv, AreaInitSerial
    PROVE  IInv'
  <1> USE DEF IInv
  <1>1. /\ NobodyYet /\ ctx.at = "areas" /\ UNCHANGED <<th, evergood, changes>>
        /\ evergood \subseteq Nodes /\ ctx.serial = 0 /\ ctx.kind = "serialized"
    BY NotReady DEF AreaInitSerial, hist, TypeOK, Mappings
  <1>2. CASE ~ctx.failed /\ fs.serial = "absent" /\ MapOk
    <2>1. /\ maps' = Mapped
          /\ fs' = [fs EXCEPT !.serial = "good"]
          /\ ctx' = [ctx EXCEPT !.at = "ready", !.serial = maps.made + 1]
          /\ node' = node
      BY <1>2 DEF AreaInitSerial
    <2>2. /\ maps.made \in Nat /\ maps.made + 1 \in 1..MaxMaps
          /\ maps'.made = maps.made + 1 /\ maps'.live = maps.live \cup {maps.made + 1}
          /\ maps' \in [live : SUBSET (1..MaxMaps), made : 0..MaxMaps]
      BY <1>2, <2>1, BoundAssumption DEF TypeOK, MapOk, Mapped
    <2>3. /\ ctx'.kind = "serialized" /\ ctx'.at = "ready" /\ ctx'.serial = maps.made + 1
          /\ fs' \in FileSystem /\ fs'.area = fs.area
      BY <1>1, <2>1 DEF TypeOK, FileSystem, FileState
    <2>4. TypeOK'
      BY <1>1, <2>1, <2>2, <2>3 DEF TypeOK
    <2>5. Mappings'
      <3>1. maps'.live = ({node'[m].pa : m \in Nodes} \cup {ctx'.serial}) \ {0}
        BY <1>1, <2>1, <2>2, <2>3 DEF Mappings
      <3>2. \A m \in Nodes : node[m].pa # maps.made + 1
        BY <2>2 DEF Mappings
      <3> QED
        BY <1>1, <2>1, <2>2, <2>3, <3>1, <3>2 DEF Mappings, TypeOK, NodeStates
    <2>6. AtWork' /\ LockHeld' /\ Users' /\ Opening'
      BY <1>1, <2>1, <2>2, <2>3, NobodyKeeps, BoundAssumption DEF Opening
    <2> QED
      BY <2>4, <2>5, <2>6
  <1>3. CASE ~(~ctx.failed /\ fs.serial = "absent" /\ MapOk)
    <2>1. /\ FreeAndUnmap /\ fs' = fs
          /\ ctx' = [ctx EXCEPT !.at = IF ~ctx.failed /\ fs.serial = "denied" THEN "aborted" ELSE "failed"]
      BY <1>3 DEF AreaInitSerial
    <2>2. /\ ctx'.kind = "serialized" /\ ctx'.at \in {"aborted", "failed"} /\ ctx'.serial = 0
          /\ ctx'.todo = ctx.todo /\ ctx'.failed = ctx.failed
      BY <1>1, <2>1 DEF TypeOK
    <2>3. /\ node' \in [Nodes -> NodeStates]
          /\ \A m \in Nodes : node'[m].pa = 0 /\ node'[m].noAccess = FALSE
      BY <2>1, BoundAssumption DEF FreeAndUnmap, Free, NodeStates
    <2>4. /\ maps'.live = {} /\ maps'.made = maps.made
          /\ maps' \in [live : SUBSET (1..MaxMaps), made : 0..MaxMaps]
      <3>1. maps' = [maps EXCEPT !.live = @ \ {node[m].pa : m \in Nodes}]
        BY <2>1 DEF FreeAndUnmap, Unmapped
      <3>2. maps.live \ {node[m].pa : m \in Nodes} = {}
        BY <1>1 DEF Mappings
      <3> QED
        BY <3>1, <3>2 DEF TypeOK
    <2>5. TypeOK'
      <3>1. ctx' \in [kind : {"none", "serialized", "split", "presplit"},
                      at : {"start", "ready", "failed", "areas", "aborted"},
                      todo : SUBSET Nodes, failed : BOOLEAN, serial : 0..MaxMaps]
        BY <2>1 DEF TypeOK
      <3> QED
        BY <1>1, <2>1, <2>3, <2>4, <3>1 DEF TypeOK
    <2>6. Mappings'
      BY <2>2, <2>3, <2>4 DEF Mappings
    <2>7. AtWork' /\ LockHeld' /\ Users' /\ Opening'
      BY <1>1, <2>1, <2>3, <2>4, NobodyKeeps, BoundAssumption DEF Opening, TypeOK
    <2> QED
      BY <2>5, <2>6, <2>7
  <1> QED
    BY <1>2, <1>3

-----------------------------------------------------------------------------
(* The invariant holds *)

LEMMA InitIInv == Init => IInv
  <1> SUFFICES ASSUME Init PROVE IInv
    OBVIOUS
  <1>1. TypeOK
    BY FilesAssumption, BoundAssumption
       DEF Init, TypeOK, ThreadStates, ThreadPcs, NodeStates, Free, Idle
  <1>2. AtWork /\ LockHeld /\ Users
    BY DEF Init, AtWork, LockHeld, MutualExclusion, Users, Idle
  <1>3. Mappings
    BY DEF Init, Mappings, Free
  <1>4. Opening
    BY DEF Init, Opening, ForEachMissesNone, Free, Idle
  <1> QED
    BY <1>1, <1>2, <1>3, <1>4 DEF IInv

LEMMA StepIInv == IInv /\ [Next]_vars => IInv'
  <1> SUFFICES ASSUME IInv, [Next]_vars PROVE IInv'
    OBVIOUS
  <1>1. CASE InitSerialized \/ InitSplit \/ InitPreSplit
    <2>1. fs.specs \in BOOLEAN /\ LoadPath \in BOOLEAN
      BY DEF IInv, TypeOK, FileSystem, LoadPath
    <2> QED
      BY <1>1, <2>1, FinishInitKeeps DEF InitSerialized, InitSplit, InitPreSplit
  <1>2. CASE AreaInit \/ AreaInitOpen \/ AreaInitSerial \/ FileChanges
    BY <1>2, AreaInitKeeps, AreaInitOpenKeeps, AreaInitSerialKeeps, FileChangesKeeps
  <1>3. ASSUME NEW n \in Nodes, ResetAccess(n) PROVE IInv'
    BY <1>3, ResetAccessKeeps
  <1>4. ASSUME NEW t \in Threads, GetPropAreaForName(t) \/ ForEach(t) \/ Step(t) PROVE IInv'
    BY <1>4, GetPropAreaForNameKeeps, ForEachKeeps, ForEachNextKeeps, CheckAccessAndOpenKeeps,
       LockCasKeeps, LockExchangeKeeps, LockWaitKeeps, UnlockKeeps, WakeKeeps, OpenLockedKeeps,
       OpenedKeeps, ResultKeeps, UseKeeps DEF Step
  <1>5. CASE UNCHANGED vars
    BY <1>5 DEF vars, hist, IInv, TypeOK, AtWork, LockHeld, MutualExclusion, Mappings, Users,
                Opening, ForEachMissesNone, N
  <1> QED
    BY <1>1, <1>2, <1>3, <1>4, <1>5 DEF Next, SystemPropertiesInitAgain

(* For any number of threads and contexts: the lock of ContextNode::Open lets one   *)
(* thread in, an area is mapped once and stays mapped for its users until access to *)
(* it is withdrawn, a failed AreaInit leaves nothing mapped, and ForEach passes over *)
(* no context that could be opened.                                                 *)
THEOREM NodesKept == Spec => []NodeInv
  <1>1. IInv => NodeInv
    <2> SUFFICES ASSUME IInv PROVE NodeInv
      OBVIOUS
    <2>1. TypeOK /\ MutualExclusion /\ ForEachMissesNone
      BY DEF IInv, LockHeld, Opening
    <2>2. NoMappingLost
      BY DEF IInv, Mappings, NoMappingLost
    <2>3. AreaInUseStaysMapped
      <3> SUFFICES ASSUME NEW t \in Threads, th[t].pc = "use", ~th[t].revoked
                   PROVE  th[t].use \in maps.live
        BY DEF AreaInUseStaysMapped
      <3>1. ctx.at = "ready" /\ th[t].node \in Nodes /\ ctx.serial # 0
        BY DEF IInv, AtWork, Mappings
      <3>2. CASE ctx.kind = "presplit"
        BY <3>1, <3>2 DEF IInv, Users, Mappings
      <3>3. CASE ctx.kind # "presplit"
        BY <3>1, <3>3 DEF IInv, Users, Mappings, N
      <3> QED
        BY <3>2, <3>3
    <2> QED
      BY <2>1, <2>2, <2>3 DEF NodeInv
  <1> QED
    BY InitIInv, StepIInv, <1>1, PTL DEF Spec

-----------------------------------------------------------------------------
(* PropertyContexts: the list of prefixes. *)

LEMMA PC_Least ==
    ASSUME NEW W \in SUBSET Nat, W # {}
    PROVE  \E j \in W : \A k \in W : j <= k
<1>1. PICK j \in W : \A k \in W : ~(<<k, j>> \in OpToRel(<, Nat))
  BY NatLessThanWellFounded, WFMin
<1>2. OpToRel(<, Nat) = {ss \in Nat \X Nat : ss[1] < ss[2]}
  BY Zenon DEF OpToRel
<1>3. PICK R : R = OpToRel(<, Nat)
  BY Zenon
<1>4. \A k \in W : ~(<<k, j>> \in R)
  BY <1>1, <1>3, Zenon
<1>5. R = {ss \in Nat \X Nat : ss[1] < ss[2]}
  BY <1>2, <1>3, Zenon
<1>6. ASSUME NEW k \in W PROVE j <= k
  <2>1. j \in Nat /\ k \in Nat /\ ~(<<k, j>> \in R)
    BY <1>4
  <2>2. <<k, j>> \in Nat \X Nat /\ <<k, j>>[1] = k /\ <<k, j>>[2] = j
    BY <2>1
  <2>3. ~(k < j)
    BY <1>5, <2>1, <2>2, Zenon
  <2> QED BY <2>1, <2>3
<1> QED BY <1>6

LEMMA PC_Min ==
    ASSUME NEW I \in SUBSET Nat, I # {}
    PROVE  PC!Min(I) \in I /\ \A k \in I : PC!Min(I) <= k
<1>1. \E j \in I : \A k \in I : j <= k
  BY PC_Least
<1>2. PC!Min(I) = CHOOSE j \in I : \A k \in I : j <= k
  BY DEF PC!Min
<1> QED BY <1>1, <1>2

(* q is s with e at the place at. *)
PC_Shifted(S, s, at, e, q) ==
    /\ q \in Seq(S) /\ Len(q) = Len(s) + 1
    /\ \A k \in 1 .. Len(q) : q[k] = IF k < at THEN s[k] ELSE IF k = at THEN e ELSE s[k - 1]

LEMMA PC_Inserted ==
    ASSUME NEW S, NEW s \in Seq(S), NEW at \in 1 .. Len(s) + 1, NEW e \in S, NEW q, q = PC!InsertAt(s, at, e)
    PROVE  PC_Shifted(S, s, at, e, q)
<1>0. Len(s) \in Nat /\ at \in Nat /\ at >= 1 /\ at <= Len(s) + 1 /\ \A k \in 1 .. Len(s) : s[k] \in S
  OBVIOUS
<1>a. PICK a : a = SubSeq(s, 1, at - 1)
  OBVIOUS
<1>b. PICK b : b = SubSeq(s, at, Len(s))
  OBVIOUS
<1>1. a \in Seq(S) /\ Len(a) = at - 1 /\ \A k \in 1 .. at - 1 : a[k] = s[k]
  BY <1>0, <1>a, SubSeqProperties
<1>2. b \in Seq(S) /\ Len(b) = Len(s) - at + 1 /\ \A k \in 1 .. Len(s) - at + 1 : b[k] = s[at + k - 1]
  BY <1>0, <1>b, SubSeqProperties
<1>c. PICK c : c = a \o <<e>>
  OBVIOUS
<1>3. c \in Seq(S) /\ Len(c) = at /\ c[at] = e /\ \A k \in 1 .. at - 1 : c[k] = s[k]
  <2>1. <<e>> \in Seq(S) /\ Len(<<e>>) = 1 /\ <<e>>[1] = e
    OBVIOUS
  <2>2. c \in Seq(S) /\ Len(c) = Len(a) + 1 /\ \A k \in 1 .. Len(c) : c[k] = IF k <= Len(a) THEN a[k] ELSE <<e>>[k - Len(a)]
    BY <1>1, <1>c, <2>1, ConcatProperties
  <2>3. Len(c) = at
    BY <1>0, <1>1, <2>2
  <2>4. c[at] = e
    BY <1>0, <1>1, <2>1, <2>2, <2>3
  <2>5. \A k \in 1 .. at - 1 : c[k] = s[k]
    BY <1>0, <1>1, <2>2, <2>3
  <2> QED BY <2>2, <2>3, <2>4, <2>5
<1>4. q = c \o b
  BY <1>a, <1>b, <1>c DEF PC!InsertAt
<1>5. q \in Seq(S) /\ Len(q) = Len(c) + Len(b) /\ \A k \in 1 .. Len(q) : q[k] = IF k <= Len(c) THEN c[k] ELSE b[k - Len(c)]
  <2>1. b \in Seq(S) /\ c \in Seq(S)
    BY <1>2, <1>3
  <2>2. c \o b \in Seq(S) /\ Len(c \o b) = Len(c) + Len(b)
        /\ \A k \in 1 .. Len(c) + Len(b) : (c \o b)[k] = IF k <= Len(c) THEN c[k] ELSE b[k - Len(c)]
    BY <2>1, ConcatProperties
  <2> QED BY <1>4, <2>2
<1>6. Len(q) = Len(s) + 1
  BY <1>0, <1>2, <1>3, <1>5
<1>7. ASSUME NEW k \in 1 .. Len(q) PROVE q[k] = IF k < at THEN s[k] ELSE IF k = at THEN e ELSE s[k - 1]
  <2>1. CASE k <= at
    BY <1>0, <1>3, <1>5, <2>1
  <2>2. CASE k > at
    <3>1. q[k] = b[k - at] /\ k - at \in 1 .. Len(s) - at + 1
      BY <1>0, <1>3, <1>5, <1>6, <2>2
    <3>2. at + (k - at) - 1 = k - 1
      BY <1>0
    <3> QED BY <1>0, <1>2, <2>2, <3>1, <3>2
  <2> QED BY <1>0, <2>1, <2>2
<1> QED BY <1>5, <1>6, <1>7 DEF PC_Shifted

(* An entry of the list, and the order of the entries: longer words first, of   *)
(* equally long ones that of the lines, and wildcards, the last one read first, *)
(* at the end. *)
PC_Entry(line) == [prefix |-> line.words[1], context |-> line.context]
PC_Entries == {PC_Entry(line) : line \in ContextLines}
PC_IsStar(line) == line.words[1][1] = -1
PC_Size(line) == Len(line.words[1])

PC_Before(L, i, j) ==
    IF PC_IsStar(L[i]) THEN PC_IsStar(L[j]) /\ j < i
    ELSE PC_IsStar(L[j]) \/ PC_Size(L[j]) < PC_Size(L[i]) \/ (PC_Size(L[j]) = PC_Size(L[i]) /\ i < j)

(* The list has each used line once, in that order. *)
PC_Ordered(L, P, idx) ==
    /\ idx \in [1 .. Len(P) -> 1 .. Len(L)]
    /\ \A k \in 1 .. Len(P) : PC!Used(L[idx[k]]) /\ P[k] = PC_Entry(L[idx[k]])
    /\ \A i \in 1 .. Len(L) : PC!Used(L[i]) => \E k \in 1 .. Len(P) : idx[k] = i
    /\ \A a, b \in 1 .. Len(P) : a < b => PC_Before(L, idx[a], idx[b])

LEMMA PC_Words ==
    ASSUME NEW line \in ContextLines, PC!Used(line)
    PROVE  /\ PC_Size(line) \in Nat /\ PC_Size(line) >= 1 /\ line.words[1] \in Seq(Int)
           /\ PC_IsStar(line) => line.words[1] = <<-1>> /\ PC_Size(line) = 1
<1>1. line.words[1] \in Seq(Int) /\ line.words[1] # <<>> /\ (line.words[1][1] = -1 => line.words[1] = <<-1>>)
  BY ContextsAssumption DEF PC!Used
<1>2. Len(line.words[1]) \in Nat /\ Len(line.words[1]) # 0
  BY <1>1, EmptySeq
<1>3. Len(<<-1>>) = 1
  OBVIOUS
<1>4. PC_IsStar(line) => line.words[1] = <<-1>> /\ PC_Size(line) = 1
  BY <1>1, <1>3 DEF PC_Size, PC_IsStar
<1>5. PC_Size(line) \in Nat /\ PC_Size(line) >= 1
  BY <1>2 DEF PC_Size
<1> QED BY <1>1, <1>4, <1>5

LEMMA PC_More ==
    ASSUME NEW L \in Seq(ContextLines), NEW line \in ContextLines
    PROVE  /\ Append(L, line) \in Seq(ContextLines) /\ Len(Append(L, line)) = Len(L) + 1 /\ Append(L, line)[Len(L) + 1] = line
           /\ \A i \in 1 .. Len(L) : Append(L, line)[i] = L[i] /\ L[i] \in ContextLines
           /\ Len(L) \in Nat
BY AppendProperties

(* A line that is not used changes nothing. *)
LEMMA PC_Skipped ==
    ASSUME NEW L \in Seq(ContextLines), NEW P \in Seq(PC_Entries), NEW idx, PC_Ordered(L, P, idx),
           NEW line \in ContextLines, ~PC!Used(line), NEW M, M = Append(L, line)
    PROVE  PC_Ordered(M, P, idx)
<1>1. Len(M) = Len(L) + 1 /\ M[Len(L) + 1] = line /\ (\A i \in 1 .. Len(L) : M[i] = L[i]) /\ Len(L) \in Nat /\ Len(P) \in Nat
  BY PC_More
<1>2. idx \in [1 .. Len(P) -> 1 .. Len(L)] /\ idx \in [1 .. Len(P) -> 1 .. Len(M)]
  BY <1>1 DEF PC_Ordered
<1>3. \A k \in 1 .. Len(P) : M[idx[k]] = L[idx[k]]
  BY <1>1, <1>2
<1>4. \A k \in 1 .. Len(P) : PC!Used(M[idx[k]]) /\ P[k] = PC_Entry(M[idx[k]])
  BY <1>3 DEF PC_Ordered
<1>5. ASSUME NEW i \in 1 .. Len(M), PC!Used(M[i]) PROVE \E k \in 1 .. Len(P) : idx[k] = i
  <2>1. i # Len(L) + 1
    BY <1>1, <1>5
  <2>2. i \in 1 .. Len(L)
    BY <1>1, <2>1
  <2> QED BY <1>1, <1>5, <2>2 DEF PC_Ordered
<1>6. \A a, b \in 1 .. Len(P) : a < b => PC_Before(M, idx[a], idx[b])
  <2>1. ASSUME NEW a \in 1 .. Len(P), NEW b \in 1 .. Len(P), a < b PROVE PC_Before(M, idx[a], idx[b])
    <3>1. PC_Before(L, idx[a], idx[b])
      BY <2>1 DEF PC_Ordered
    <3>2. M[idx[a]] = L[idx[a]] /\ M[idx[b]] = L[idx[b]]
      BY <1>3
    <3> QED BY <3>1, <3>2 DEF PC_Before
  <2> QED BY <2>1
<1> QED BY <1>2, <1>4, <1>5, <1>6 DEF PC_Ordered
(* Where ListAddAfterLen puts an entry: after all that are neither shorter nor a *)
(* wildcard, before one that is. *)
PC_Later(e, w) == Len(e.prefix) < Len(w) \/ e.prefix[1] = -1

LEMMA PC_Place ==
    ASSUME NEW P \in Seq(PC_Entries), NEW w, NEW context, NEW Q, Q = PC!ListAddAfterLen(P, w, context)
    PROVE  \E at \in 1 .. Len(P) + 1 :
             /\ Q = PC!InsertAt(P, at, [prefix |-> w, context |-> context])
             /\ \A k \in 1 .. Len(P) : k < at => ~PC_Later(P[k], w)
             /\ at <= Len(P) => PC_Later(P[at], w)
<1>0. Len(P) \in Nat
  OBVIOUS
<1>i. PICK I : I = {k \in 1 .. Len(P) : PC_Later(P[k], w)}
  OBVIOUS
<1>a. PICK at : at = IF I = {} THEN Len(P) + 1 ELSE PC!Min(I)
  OBVIOUS
<1>1. Q = PC!InsertAt(P, at, [prefix |-> w, context |-> context])
  <2>1. I = {k \in 1 .. Len(P) : Len(P[k].prefix) < Len(w) \/ P[k].prefix[1] = PC!Star}
    BY <1>i DEF PC_Later, PC!Star
  <2>s. PICK sel : sel = IF I # {} THEN PC!Min(I) ELSE 0
    OBVIOUS
  <2>2. Q = PC!InsertAt(P, IF sel = 0 THEN Len(P) + 1 ELSE sel, [prefix |-> w, context |-> context])
    BY <2>1, <2>s DEF PC!ListAddAfterLen, PC!SelectInSeq
  <2>3. I # {} => PC!Min(I) # 0
    <3>1. I \in SUBSET Nat /\ \A k \in I : k >= 1
      BY <1>i
    <3> QED BY <3>1, PC_Min
  <2>4. at = IF sel = 0 THEN Len(P) + 1 ELSE sel
    BY <1>a, <2>s, <2>3
  <2> QED BY <2>2, <2>4
<1>2. CASE I = {}
  <2>1. at = Len(P) + 1 /\ \A k \in 1 .. Len(P) : ~PC_Later(P[k], w)
    BY <1>a, <1>i, <1>2
  <2>2. at \in 1 .. Len(P) + 1 /\ ~(at <= Len(P))
    BY <1>0, <2>1
  <2> QED BY <1>1, <2>1, <2>2
<1>3. CASE I # {}
  <2>1. I \in SUBSET Nat /\ \A k \in I : k \in 1 .. Len(P) /\ PC_Later(P[k], w)
    BY <1>i
  <2>2. at \in I /\ \A k \in I : at <= k
    BY <1>3, <1>a, <2>1, PC_Min
  <2>3. at \in 1 .. Len(P) + 1 /\ PC_Later(P[at], w)
    BY <1>0, <2>1, <2>2
  <2>4. ASSUME NEW k \in 1 .. Len(P), k < at PROVE ~PC_Later(P[k], w)
    <3>1. k \notin I
      BY <1>0, <2>1, <2>2, <2>4
    <3> QED BY <1>i, <3>1
  <2> QED BY <1>1, <2>3, <2>4
<1> QED BY <1>2, <1>3

LEMMA PC_Listed ==
    ASSUME NEW L \in Seq(ContextLines), NEW P \in Seq(PC_Entries), NEW idx, PC_Ordered(L, P, idx), NEW k \in 1 .. Len(P)
    PROVE  /\ idx[k] \in 1 .. Len(L) /\ L[idx[k]] \in ContextLines /\ PC!Used(L[idx[k]])
           /\ P[k].prefix = L[idx[k]].words[1] /\ P[k].context = L[idx[k]].context
           /\ PC_Size(L[idx[k]]) \in Nat /\ PC_Size(L[idx[k]]) >= 1
           /\ Len(P[k].prefix) = PC_Size(L[idx[k]]) /\ (P[k].prefix[1] = -1 <=> PC_IsStar(L[idx[k]]))
<1>1. idx[k] \in 1 .. Len(L) /\ PC!Used(L[idx[k]]) /\ P[k] = PC_Entry(L[idx[k]])
  BY DEF PC_Ordered
<1>2. L[idx[k]] \in ContextLines
  BY <1>1
<1>3. P[k].prefix = L[idx[k]].words[1] /\ P[k].context = L[idx[k]].context
  BY <1>1 DEF PC_Entry
<1>4. PC_Size(L[idx[k]]) \in Nat /\ PC_Size(L[idx[k]]) >= 1
  BY <1>1, <1>2, PC_Words
<1> QED BY <1>1, <1>2, <1>3, <1>4 DEF PC_Size, PC_IsStar

(* Q is the list of the lines M, and has one entry more than P. *)
PC_Grown(M, P, Q) == Q \in Seq(PC_Entries) /\ Len(Q) = Len(P) + 1 /\ \E new : PC_Ordered(M, Q, new)

LEMMA PC_Insert ==
    ASSUME NEW L \in Seq(ContextLines), NEW P \in Seq(PC_Entries), NEW idx, PC_Ordered(L, P, idx),
           NEW line \in ContextLines, PC!Used(line), NEW M, M = Append(L, line),
           NEW Q, Q = PC!ListAddAfterLen(P, line.words[1], line.context)
    PROVE  PC_Grown(M, P, Q)
<1>w. PICK w : w = line.words[1]
  OBVIOUS
<1>e. PICK e : e = PC_Entry(line)
  OBVIOUS
<1>n. PICK n : n = Len(L) + 1
  OBVIOUS
<1>0. /\ Len(M) = n /\ M[n] = line /\ (\A i \in 1 .. Len(L) : M[i] = L[i]) /\ Len(L) \in Nat /\ n \in Nat /\ Len(P) \in Nat
      /\ e \in PC_Entries
  BY <1>n, <1>e, PC_More DEF PC_Entries
<1>1. PICK at \in 1 .. Len(P) + 1 :
        /\ Q = PC!InsertAt(P, at, e)
        /\ \A k \in 1 .. Len(P) : k < at => ~PC_Later(P[k], w)
        /\ at <= Len(P) => PC_Later(P[at], w)
  <2>1. Q = PC!ListAddAfterLen(P, w, line.context) /\ e = [prefix |-> w, context |-> line.context]
    BY <1>w, <1>e DEF PC_Entry
  <2> QED BY <2>1, PC_Place
<1>2. /\ Q \in Seq(PC_Entries) /\ Len(Q) = Len(P) + 1
      /\ \A k \in 1 .. Len(Q) : Q[k] = IF k < at THEN P[k] ELSE IF k = at THEN e ELSE P[k - 1]
  <2>1. e \in PC_Entries /\ at \in 1 .. Len(P) + 1 /\ Q = PC!InsertAt(P, at, e)
    BY <1>0, <1>1
  <2>2. PC_Shifted(PC_Entries, P, at, e, Q)
    BY <2>1, PC_Inserted
  <2> QED BY <2>2 DEF PC_Shifted
<1>3. at \in Nat /\ at >= 1 /\ at <= Len(P) + 1
  BY <1>0
<1>x. PICK new : new = [k \in 1 .. Len(Q) |-> IF k < at THEN idx[k] ELSE IF k = at THEN n ELSE idx[k - 1]]
  OBVIOUS
<1>s. /\ PC_Size(line) \in Nat /\ PC_Size(line) >= 1 /\ (PC_IsStar(line) => PC_Size(line) = 1) /\ Len(w) = PC_Size(line)
  BY <1>w, PC_Words DEF PC_Size
(* Where an entry other than the new one was. *)
<1>4. ASSUME NEW k \in 1 .. Len(Q), k # at
      PROVE  \E o \in 1 .. Len(P) : /\ o = (IF k < at THEN k ELSE k - 1) /\ new[k] = idx[o] /\ Q[k] = P[o]
                                    /\ idx[o] \in 1 .. Len(L) /\ M[idx[o]] = L[idx[o]]
  <2>1. CASE k < at
    <3>1. k \in 1 .. Len(P) /\ new[k] = idx[k] /\ Q[k] = P[k]
      BY <1>0, <1>2, <1>3, <1>x, <2>1
    <3>2. idx[k] \in 1 .. Len(L)
      BY <3>1 DEF PC_Ordered
    <3> QED BY <1>0, <2>1, <3>1, <3>2
  <2>2. CASE ~(k < at)
    <3>1. k - 1 \in 1 .. Len(P) /\ new[k] = idx[k - 1] /\ Q[k] = P[k - 1]
      BY <1>0, <1>2, <1>3, <1>4, <1>x, <2>2
    <3>2. idx[k - 1] \in 1 .. Len(L)
      BY <3>1 DEF PC_Ordered
    <3> QED BY <1>0, <2>2, <3>1, <3>2
  <2> QED BY <2>1, <2>2
<1>5. at \in 1 .. Len(Q) /\ new[at] = n /\ Q[at] = e
  BY <1>0, <1>2, <1>3, <1>x
<1>6. new \in [1 .. Len(Q) -> 1 .. Len(M)]
  <2>1. \A k \in 1 .. Len(Q) : new[k] \in 1 .. Len(M)
    <3>1. ASSUME NEW k \in 1 .. Len(Q) PROVE new[k] \in 1 .. Len(M)
      <4>1. CASE k = at
        BY <1>0, <1>5, <1>n, <4>1
      <4>2. CASE k # at
        <5>1. new[k] \in 1 .. Len(L)
          BY <1>4, <4>2
        <5> QED BY <1>0, <1>n, <5>1
      <4> QED BY <4>1, <4>2
    <3> QED BY <3>1
  <2>2. new = [k \in 1 .. Len(Q) |-> new[k]]
    BY <1>x
  <2> QED BY <2>1, <2>2
<1>7. ASSUME NEW k \in 1 .. Len(Q) PROVE PC!Used(M[new[k]]) /\ Q[k] = PC_Entry(M[new[k]])
  <2>1. CASE k = at
    BY <1>0, <1>5, <1>e, <2>1
  <2>2. CASE k # at
    BY <1>4, <2>2 DEF PC_Ordered
  <2> QED BY <2>1, <2>2
<1>8. ASSUME NEW i \in 1 .. Len(M), PC!Used(M[i]) PROVE \E k \in 1 .. Len(Q) : new[k] = i
  <2>1. CASE i = n
    BY <1>5, <2>1
  <2>2. CASE i # n
    <3>1. i \in 1 .. Len(L) /\ M[i] = L[i]
      BY <1>0, <1>n, <2>2
    <3>2. PICK o \in 1 .. Len(P) : idx[o] = i
      BY <1>8, <3>1 DEF PC_Ordered
    <3>3. CASE o < at
      <4>1. o \in 1 .. Len(Q) /\ new[o] = idx[o]
        BY <1>0, <1>2, <1>3, <1>x, <3>3
      <4> QED BY <3>2, <4>1
    <3>4. CASE ~(o < at)
      <4>1. o + 1 \in 1 .. Len(Q) /\ ~(o + 1 < at) /\ o + 1 # at /\ (o + 1) - 1 = o
        BY <1>0, <1>2, <1>3, <3>4
      <4>2. new[o + 1] = idx[o]
        BY <1>x, <4>1
      <4> QED BY <3>2, <4>1, <4>2
    <3> QED BY <3>3, <3>4
  <2> QED BY <2>1, <2>2
<1>9. ASSUME NEW a \in 1 .. Len(Q), NEW b \in 1 .. Len(Q), a < b PROVE PC_Before(M, new[a], new[b])
  <2>1. CASE a # at /\ b # at
    <3>1. PICK o \in 1 .. Len(P) : o = (IF a < at THEN a ELSE a - 1) /\ new[a] = idx[o] /\ M[idx[o]] = L[idx[o]]
      BY <1>4, <2>1
    <3>2. PICK u \in 1 .. Len(P) : u = (IF b < at THEN b ELSE b - 1) /\ new[b] = idx[u] /\ M[idx[u]] = L[idx[u]]
      BY <1>4, <2>1
    <3>3. o < u
      BY <1>0, <1>2, <1>3, <1>9, <2>1, <3>1, <3>2
    <3>4. PC_Before(L, idx[o], idx[u])
      BY <3>3 DEF PC_Ordered
    <3> QED BY <3>1, <3>2, <3>4 DEF PC_Before
  <2>2. CASE b = at
    <3>1. a < at /\ a # at
      BY <1>9, <2>2, <1>0, <1>3
    <3>2. PICK o \in 1 .. Len(P) : o = a /\ new[a] = idx[o] /\ M[idx[o]] = L[idx[o]] /\ idx[o] \in 1 .. Len(L)
      BY <1>4, <3>1
    <3>3. ~PC_Later(P[o], w)
      BY <1>1, <3>1, <3>2
    <3>4. /\ PC_Size(L[idx[o]]) \in Nat /\ Len(P[o].prefix) = PC_Size(L[idx[o]]) /\ (P[o].prefix[1] = -1 <=> PC_IsStar(L[idx[o]]))
      BY PC_Listed
    <3>5. ~PC_IsStar(L[idx[o]]) /\ ~(PC_Size(L[idx[o]]) < PC_Size(line))
      BY <1>s, <3>3, <3>4 DEF PC_Later
    <3>6. idx[o] < n
      BY <1>0, <1>n, <3>2
    <3>7. PC_Size(line) < PC_Size(L[idx[o]]) \/ PC_Size(line) = PC_Size(L[idx[o]])
      BY <1>s, <3>4, <3>5
    <3>8. new[b] = n /\ M[n] = line
      BY <1>0, <1>5, <2>2
    <3> QED BY <3>2, <3>5, <3>6, <3>7, <3>8 DEF PC_Before
  <2>3. CASE a = at
    <3>1. ~(b < at) /\ b # at
      BY <1>9, <2>3, <1>0, <1>3
    <3>2. PICK u \in 1 .. Len(P) : u = b - 1 /\ new[b] = idx[u] /\ M[idx[u]] = L[idx[u]] /\ idx[u] \in 1 .. Len(L)
      BY <1>4, <3>1
    <3>3. at \in 1 .. Len(P) /\ (u = at \/ at < u)
      BY <1>0, <1>2, <1>3, <3>1, <3>2
    <3>4. PC_Later(P[at], w)
      BY <1>1, <3>3
    <3>5. /\ PC_Size(L[idx[at]]) \in Nat /\ PC_Size(L[idx[at]]) >= 1
          /\ Len(P[at].prefix) = PC_Size(L[idx[at]]) /\ (P[at].prefix[1] = -1 <=> PC_IsStar(L[idx[at]]))
      BY <3>3, PC_Listed
    <3>6. PC_IsStar(L[idx[at]]) \/ PC_Size(L[idx[at]]) < PC_Size(line)
      BY <1>s, <3>4, <3>5 DEF PC_Later
    <3>7. PC_Size(L[idx[u]]) \in Nat
      BY PC_Listed
    <3>8. at < u => PC_Before(L, idx[at], idx[u])
      BY <3>3 DEF PC_Ordered
    <3>9. PC_IsStar(L[idx[u]]) \/ (~PC_IsStar(line) /\ PC_Size(L[idx[u]]) < PC_Size(line))
      <4>1. CASE PC_IsStar(L[idx[at]])
        BY <3>3, <3>8, <4>1 DEF PC_Before
      <4>2. CASE ~PC_IsStar(L[idx[at]])
        <5>1. PC_Size(L[idx[at]]) < PC_Size(line)
          BY <3>6, <4>2
        <5>2. ~PC_IsStar(line)
          BY <1>s, <3>5, <5>1
        <5>3. PC_IsStar(L[idx[u]]) \/ PC_Size(L[idx[u]]) < PC_Size(L[idx[at]]) \/ PC_Size(L[idx[u]]) = PC_Size(L[idx[at]])
          BY <3>3, <3>8, <4>2 DEF PC_Before
        <5> QED BY <1>s, <3>5, <3>7, <5>1, <5>2, <5>3
      <4> QED BY <4>1, <4>2
    <3>10. new[a] = n /\ M[n] = line /\ idx[u] < n
      BY <1>0, <1>5, <1>n, <2>3, <3>2
    <3> QED BY <3>2, <3>9, <3>10 DEF PC_Before
  <2> QED BY <2>1, <2>2, <2>3
<1>10. PC_Ordered(M, Q, new)
  BY <1>6, <1>7, <1>8, <1>9 DEF PC_Ordered
<1> QED BY <1>2, <1>10 DEF PC_Grown

(* No name starts with the wildcard. *)
LEMMA PC_NoStar ==
    ASSUME NEW name \in Seq(Nat)
    PROVE  ~PC!IsPrefix(<<-1>>, name)
<1>1. SUFFICES ASSUME PC!IsPrefix(<<-1>>, name) PROVE FALSE
  OBVIOUS
<1>2. Len(<<-1>>) = 1 /\ <<-1>> \in Seq(Int) /\ <<-1>>[1] = -1
  OBVIOUS
<1>3. Len(name) \in Nat /\ 1 <= Len(name) /\ name[1] \in Nat
  <2>1. 1 <= Len(name)
    BY <1>1, <1>2 DEF PC!IsPrefix
  <2> QED BY <2>1
<1>4. PICK a : a = SubSeq(<<-1>>, 1, 1)
  OBVIOUS
<1>5. PICK b : b = SubSeq(name, 1, 1)
  OBVIOUS
<1>6. a = b
  BY <1>1, <1>2, <1>4, <1>5 DEF PC!IsPrefix
<1>7. a[1] = -1
  BY <1>2, <1>4, SubSeqProperties
<1>8. b[1] = name[1]
  BY <1>3, <1>5, SubSeqProperties
<1> QED BY <1>3, <1>6, <1>7, <1>8

(* Where the search stops: at the first entry that matches. *)
PC_Match(e, name) == e.prefix[1] = -1 \/ PC!IsPrefix(e.prefix, name)

LEMMA PC_First ==
    ASSUME pc_prefixes \in Seq(PC_Entries), NEW name
    PROVE  \/ /\ PC!GetPropAreaForName(name) = "none"
              /\ \A k \in 1 .. Len(pc_prefixes) : ~PC_Match(pc_prefixes[k], name)
           \/ \E at \in 1 .. Len(pc_prefixes) :
                /\ PC!GetPropAreaForName(name) = pc_prefixes[at].context /\ PC_Match(pc_prefixes[at], name)
                /\ \A k \in 1 .. Len(pc_prefixes) : PC_Match(pc_prefixes[k], name) => at <= k
<1>i. PICK I : I = {k \in 1 .. Len(pc_prefixes) : PC_Match(pc_prefixes[k], name)}
  OBVIOUS
<1>1. I = {k \in 1 .. Len(pc_prefixes) : pc_prefixes[k].prefix[1] = PC!Star \/ PC!IsPrefix(pc_prefixes[k].prefix, name)}
  BY <1>i DEF PC_Match, PC!Star
<1>s. PICK sel : sel = IF I # {} THEN PC!Min(I) ELSE 0
  OBVIOUS
<1>2. PC!GetPropAreaForName(name) = IF sel = 0 THEN "none" ELSE pc_prefixes[sel].context
  BY <1>1, <1>s DEF PC!GetPropAreaForName, PC!SelectInSeq, PC!None
<1>3. CASE I = {}
  BY <1>2, <1>3, <1>i, <1>s
<1>4. CASE I # {}
  <2>1. I \in SUBSET Nat /\ \A k \in I : k \in 1 .. Len(pc_prefixes) /\ PC_Match(pc_prefixes[k], name)
    BY <1>i
  <2>2. sel \in I /\ \A k \in I : sel <= k
    BY <1>4, <1>s, <2>1, PC_Min
  <2>3. sel \in 1 .. Len(pc_prefixes) /\ PC_Match(pc_prefixes[sel], name) /\ sel # 0
    BY <2>1, <2>2
  <2>4. \A k \in 1 .. Len(pc_prefixes) : PC_Match(pc_prefixes[k], name) => sel <= k
    BY <1>i, <2>2
  <2> QED BY <1>2, <2>3, <2>4
<1> QED BY <1>3, <1>4

(* The lines that decide, as sets of indexes. *)
PC_Fits(L, name) == {i \in 1 .. Len(L) : PC!Used(L[i]) /\ PC!IsPrefix(L[i].words[1], name)}
PC_Stars(L) == {i \in 1 .. Len(L) : PC!Used(L[i]) /\ PC_IsStar(L[i])}
PC_Wins(L, i, j) == PC_Size(L[i]) > PC_Size(L[j]) \/ (PC_Size(L[i]) = PC_Size(L[j]) /\ i <= j)

PC_Verdict(L, F, S) ==
    IF F # {} THEN L[CHOOSE i \in F : \A j \in F : PC_Wins(L, i, j)].context
    ELSE IF S # {} THEN L[CHOOSE i \in S : \A j \in S : i >= j].context ELSE "none"

LEMMA PC_Decided ==
    ASSUME NEW name
    PROVE  PC!Deciding(name) = PC_Verdict(pc_lines, PC_Fits(pc_lines, name), PC_Stars(pc_lines))
BY Zenon DEF PC!Deciding, PC_Verdict, PC_Fits, PC_Stars, PC_Wins, PC_Size, PC_IsStar, PC!Word, PC!Star, PC!None

LEMMA PC_Lookup ==
    ASSUME pc_lines \in Seq(ContextLines), pc_prefixes \in Seq(PC_Entries), NEW idx,
           PC_Ordered(pc_lines, pc_prefixes, idx), NEW name \in Seq(Nat)
    PROVE  PC!GetPropAreaForName(name) = PC!Deciding(name)
<1>L. PICK L : L = pc_lines
  OBVIOUS
<1>P. PICK P : P = pc_prefixes
  OBVIOUS
<1>F. PICK F : F = PC_Fits(L, name)
  OBVIOUS
<1>S. PICK S : S = PC_Stars(L)
  OBVIOUS
<1>0. L \in Seq(ContextLines) /\ P \in Seq(PC_Entries) /\ PC_Ordered(L, P, idx)
  BY <1>L, <1>P
<1>1. ASSUME NEW k \in 1 .. Len(P)
      PROVE  /\ idx[k] \in 1 .. Len(L) /\ P[k].context = L[idx[k]].context /\ PC_Size(L[idx[k]]) \in Nat /\ PC_Size(L[idx[k]]) >= 1
             /\ PC_Match(P[k], name) <=> (idx[k] \in F \/ idx[k] \in S)
             /\ idx[k] \in S <=> PC_IsStar(L[idx[k]])
             /\ ~(idx[k] \in F /\ idx[k] \in S)
  <2>1. /\ idx[k] \in 1 .. Len(L) /\ L[idx[k]] \in ContextLines /\ PC!Used(L[idx[k]])
        /\ P[k].prefix = L[idx[k]].words[1] /\ P[k].context = L[idx[k]].context
        /\ PC_Size(L[idx[k]]) \in Nat /\ PC_Size(L[idx[k]]) >= 1
        /\ (P[k].prefix[1] = -1 <=> PC_IsStar(L[idx[k]]))
    BY <1>0, PC_Listed
  <2>2. idx[k] \in S <=> PC_IsStar(L[idx[k]])
    BY <1>S, <2>1 DEF PC_Stars
  <2>3. idx[k] \in F <=> PC!IsPrefix(P[k].prefix, name)
    BY <1>F, <2>1 DEF PC_Fits
  <2>4. PC_Match(P[k], name) <=> (idx[k] \in F \/ idx[k] \in S)
    BY <2>1, <2>2, <2>3 DEF PC_Match
  <2>5. ~(idx[k] \in F /\ idx[k] \in S)
    <3>1. SUFFICES ASSUME idx[k] \in F, idx[k] \in S PROVE FALSE
      OBVIOUS
    <3>2. L[idx[k]].words[1] = <<-1>>
      BY <2>1, <2>2, <3>1, PC_Words
    <3> QED BY <2>1, <2>3, <3>1, <3>2, PC_NoStar
  <2> QED BY <2>1, <2>2, <2>4, <2>5
<1>2. ASSUME NEW i, i \in F \/ i \in S PROVE \E k \in 1 .. Len(P) : idx[k] = i
  <2>1. i \in 1 .. Len(L) /\ PC!Used(L[i])
    BY <1>2, <1>F, <1>S DEF PC_Fits, PC_Stars
  <2> QED BY <1>0, <2>1 DEF PC_Ordered
<1>3. PC!Deciding(name) = PC_Verdict(L, F, S)
  BY <1>L, <1>F, <1>S, PC_Decided
<1>4. CASE /\ PC!GetPropAreaForName(name) = "none"
           /\ \A k \in 1 .. Len(P) : ~PC_Match(P[k], name)
  <2>1. F = {} /\ S = {}
    BY <1>1, <1>2, <1>4
  <2> QED BY <1>3, <1>4, <2>1 DEF PC_Verdict
<1>5. ASSUME NEW at \in 1 .. Len(P), PC!GetPropAreaForName(name) = P[at].context, PC_Match(P[at], name),
             \A k \in 1 .. Len(P) : PC_Match(P[k], name) => at <= k
      PROVE  PC!GetPropAreaForName(name) = PC!Deciding(name)
  <2>t. PICK t : t = idx[at]
    OBVIOUS
  <2>0. t \in 1 .. Len(L) /\ t \in Nat /\ Len(P) \in Nat /\ PC_Size(L[t]) \in Nat /\ P[at].context = L[t].context
    BY <1>0, <1>1, <2>t
  (* Every other line that matches comes later in the list. *)
  <2>1. ASSUME NEW i, i \in F \/ i \in S PROVE i = t \/ PC_Before(L, t, i)
    <3>1. PICK k \in 1 .. Len(P) : idx[k] = i
      BY <1>2, <2>1
    <3>2. at <= k
      BY <1>1, <1>5, <2>1, <3>1
    <3>3. k = at \/ at < k
      BY <2>0, <3>2
    <3>4. at < k => PC_Before(L, idx[at], idx[k])
      BY <1>0 DEF PC_Ordered
    <3> QED BY <2>t, <3>1, <3>3, <3>4
  <2>2. ASSUME NEW i, i \in F \/ i \in S
        PROVE  i \in Nat /\ PC_Size(L[i]) \in Nat /\ (i \in S <=> PC_IsStar(L[i])) /\ ~(i \in F /\ i \in S)
    <3>1. PICK k \in 1 .. Len(P) : idx[k] = i
      BY <1>2, <2>2
    <3>2. Len(L) \in Nat
      BY <1>0
    <3> QED BY <1>1, <3>1, <3>2
  <2>3. CASE t \in F
    <3>1. ASSUME NEW j \in F PROVE PC_Wins(L, t, j) /\ (PC_Wins(L, j, t) => j = t)
      <4>1. j \in Nat /\ PC_Size(L[j]) \in Nat /\ ~PC_IsStar(L[j])
        BY <2>2
      <4>2. ~PC_IsStar(L[t])
        BY <2>2, <2>3
      <4>3. j = t \/ PC_Size(L[j]) < PC_Size(L[t]) \/ (PC_Size(L[j]) = PC_Size(L[t]) /\ t < j)
        BY <2>1, <4>1, <4>2 DEF PC_Before
      <4> QED BY <2>0, <4>1, <4>3 DEF PC_Wins
    <3>2. (CHOOSE i \in F : \A j \in F : PC_Wins(L, i, j)) = t
      BY <2>3, <3>1
    <3> QED BY <1>3, <1>5, <2>0, <2>3, <3>2 DEF PC_Verdict
  <2>4. CASE t \notin F
    <3>1. t \in S /\ PC_IsStar(L[t])
      BY <1>1, <1>5, <2>4, <2>t
    <3>2. ASSUME NEW i, i \in F \/ i \in S PROVE i \in S /\ i <= t
      <4>1. i \in Nat /\ (i \in S <=> PC_IsStar(L[i]))
        BY <2>2, <3>2
      <4>2. i = t \/ (PC_IsStar(L[i]) /\ i < t)
        BY <2>1, <3>1, <3>2 DEF PC_Before
      <4> QED BY <2>0, <3>1, <4>1, <4>2
    <3>3. F = {}
      BY <2>2, <3>2
    <3>4. ASSUME NEW j \in S PROVE t >= j /\ (j >= t => j = t)
      <4>1. j \in Nat /\ j <= t
        BY <2>2, <3>2
      <4> QED BY <2>0, <4>1
    <3>5. (CHOOSE i \in S : \A j \in S : i >= j) = t
      BY <3>1, <3>4
    <3> QED BY <1>3, <1>5, <2>0, <3>1, <3>3, <3>5 DEF PC_Verdict
  <2> QED BY <2>3, <2>4
<1>6. \/ /\ PC!GetPropAreaForName(name) = "none"
         /\ \A k \in 1 .. Len(P) : ~PC_Match(P[k], name)
      \/ \E at \in 1 .. Len(P) :
           /\ PC!GetPropAreaForName(name) = P[at].context /\ PC_Match(P[at], name)
           /\ \A k \in 1 .. Len(P) : PC_Match(P[k], name) => at <= k
  BY <1>P, PC_First
<1> QED BY <1>4, <1>5, <1>6

(* The table of contexts, and how many entries there are. *)
PC_ContextsOf == {line.context : line \in ContextLines}
PC_Table(P, C) ==
    /\ C \in Seq(PC_ContextsOf)
    /\ \A a, b \in 1 .. Len(C) : C[a] = C[b] => a = b
    /\ \A k \in 1 .. Len(P) : \E i \in 1 .. Len(C) : C[i] = P[k].context
PC_UsedOf(L) == {i \in 1 .. Len(L) : PC!Used(L[i])}
PC_Counted(L, P) == IsFiniteSet(PC_UsedOf(L)) /\ Cardinality(PC_UsedOf(L)) = Len(P)

LEMMA PC_AddContext ==
    ASSUME NEW P \in Seq(PC_Entries), NEW C, PC_Table(P, C), NEW line \in ContextLines, NEW at, NEW Q,
           PC_Shifted(PC_Entries, P, at, PC_Entry(line), Q), NEW at0 \in 1 .. Len(P) + 1, at = at0,
           NEW D, D = IF \E i \in 1 .. Len(C) : C[i] = line.context THEN C ELSE <<line.context>> \o C
    PROVE  PC_Table(Q, D)
<1>c. PICK c : c = line.context
  OBVIOUS
<1>0. c \in PC_ContextsOf /\ C \in Seq(PC_ContextsOf) /\ Len(C) \in Nat /\ Len(P) \in Nat /\ at \in Nat
  BY <1>c DEF PC_Table, PC_ContextsOf
<1>1. ASSUME NEW k \in 1 .. Len(Q) PROVE Q[k].context = c \/ \E o \in 1 .. Len(P) : Q[k].context = P[o].context
  <2>1. Len(Q) = Len(P) + 1 /\ Q[k] = IF k < at THEN P[k] ELSE IF k = at THEN PC_Entry(line) ELSE P[k - 1]
    BY DEF PC_Shifted
  <2>2. CASE k < at
    <3>1. k \in 1 .. Len(P) /\ Q[k] = P[k]
      BY <1>0, <2>1, <2>2
    <3> QED BY <3>1
  <2>3. CASE k = at
    BY <1>c, <1>0, <2>1, <2>3 DEF PC_Entry
  <2>4. CASE k > at
    <3>1. k - 1 \in 1 .. Len(P) /\ Q[k] = P[k - 1]
      BY <1>0, <2>1, <2>4
    <3> QED BY <3>1
  <2> QED BY <1>0, <2>1, <2>2, <2>3, <2>4
<1>2. CASE \E i \in 1 .. Len(C) : C[i] = c
  <2>1. D = C
    BY <1>c, <1>2
  <2>2. ASSUME NEW k \in 1 .. Len(Q) PROVE \E i \in 1 .. Len(D) : D[i] = Q[k].context
    <3>1. CASE Q[k].context = c
      BY <1>2, <2>1, <3>1
    <3>2. CASE \E o \in 1 .. Len(P) : Q[k].context = P[o].context
      BY <2>1, <3>2 DEF PC_Table
    <3> QED BY <1>1, <3>1, <3>2
  <2>3. \A a, b \in 1 .. Len(D) : D[a] = D[b] => a = b
    BY <2>1 DEF PC_Table
  <2> QED BY <1>0, <2>1, <2>2, <2>3 DEF PC_Table
<1>3. CASE ~\E i \in 1 .. Len(C) : C[i] = c
  <2>1. D = <<c>> \o C
    BY <1>c, <1>3
  <2>2. <<c>> \in Seq(PC_ContextsOf) /\ Len(<<c>>) = 1 /\ <<c>>[1] = c
    BY <1>0
  <2>3. D \in Seq(PC_ContextsOf) /\ Len(D) = 1 + Len(C) /\ \A k \in 1 .. 1 + Len(C) : D[k] = IF k <= 1 THEN <<c>>[k] ELSE C[k - 1]
    BY <1>0, <2>1, <2>2, ConcatProperties
  <2>4. D[1] = c /\ 1 \in 1 .. Len(D)
    BY <1>0, <2>2, <2>3
  <2>5. \A i \in 1 .. Len(C) : i + 1 \in 1 .. Len(D) /\ D[i + 1] = C[i]
    <3>1. ASSUME NEW i \in 1 .. Len(C) PROVE i + 1 \in 1 .. Len(D) /\ D[i + 1] = C[i]
      <4>1. i + 1 \in 1 .. 1 + Len(C) /\ ~(i + 1 <= 1) /\ (i + 1) - 1 = i
        BY <1>0
      <4> QED BY <2>3, <4>1
    <3> QED BY <3>1
  <2>6. ASSUME NEW k \in 1 .. Len(D), k # 1 PROVE k - 1 \in 1 .. Len(C) /\ D[k] = C[k - 1]
    BY <1>0, <2>3, <2>6
  <2>7. ASSUME NEW a \in 1 .. Len(D), NEW b \in 1 .. Len(D), D[a] = D[b] PROVE a = b
    <3>1. CASE a = 1 \/ b = 1
      BY <1>3, <2>4, <2>6, <2>7, <3>1
    <3>2. CASE a # 1 /\ b # 1
      <4>1. a - 1 \in 1 .. Len(C) /\ b - 1 \in 1 .. Len(C) /\ C[a - 1] = C[b - 1]
        BY <2>6, <2>7, <3>2
      <4>2. a - 1 = b - 1
        BY <4>1 DEF PC_Table
      <4> QED BY <1>0, <2>3, <4>2
    <3> QED BY <3>1, <3>2
  <2>8. ASSUME NEW k \in 1 .. Len(Q) PROVE \E i \in 1 .. Len(D) : D[i] = Q[k].context
    <3>1. CASE Q[k].context = c
      BY <2>4, <3>1
    <3>2. CASE \E o \in 1 .. Len(P) : Q[k].context = P[o].context
      <4>1. PICK i \in 1 .. Len(C) : C[i] = Q[k].context
        BY <3>2 DEF PC_Table
      <4> QED BY <2>5, <4>1
    <3> QED BY <1>1, <3>1, <3>2
  <2> QED BY <2>3, <2>7, <2>8 DEF PC_Table
<1> QED BY <1>2, <1>3

LEMMA PC_Count ==
    ASSUME NEW L \in Seq(ContextLines), NEW P, Len(P) \in Nat, PC_Counted(L, P), NEW line \in ContextLines, NEW M, M = Append(L, line)
    PROVE  /\ ~PC!Used(line) => PC_Counted(M, P)
           /\ \A Q : PC!Used(line) /\ Len(Q) = Len(P) + 1 => PC_Counted(M, Q)
<1>0. Len(M) = Len(L) + 1 /\ M[Len(L) + 1] = line /\ (\A i \in 1 .. Len(L) : M[i] = L[i]) /\ Len(L) \in Nat
  BY PC_More
<1>1. ~PC!Used(line) => PC_UsedOf(M) = PC_UsedOf(L)
  BY <1>0 DEF PC_UsedOf
<1>2. PC!Used(line) => PC_UsedOf(M) = PC_UsedOf(L) \cup {Len(L) + 1}
  BY <1>0 DEF PC_UsedOf
<1>3. Len(L) + 1 \notin PC_UsedOf(L)
  BY <1>0 DEF PC_UsedOf
<1>4. IsFiniteSet(PC_UsedOf(L)) /\ Cardinality(PC_UsedOf(L)) = Len(P)
  BY DEF PC_Counted
<1>5. IsFiniteSet(PC_UsedOf(L) \cup {Len(L) + 1}) /\ Cardinality(PC_UsedOf(L) \cup {Len(L) + 1}) = Len(P) + 1
  BY <1>3, <1>4, FS_AddElement
<1> QED BY <1>1, <1>2, <1>4, <1>5 DEF PC_Counted

(* The inductive invariant. *)
PC_Good(L, P, C) ==
    /\ L \in Seq(ContextLines) /\ P \in Seq(PC_Entries)
    /\ \E idx : PC_Ordered(L, P, idx)
    /\ PC_Table(P, C)
    /\ PC_Counted(L, P)
PC_IInv == PC_Good(pc_lines, pc_prefixes, pc_contexts)

LEMMA PC_Starts == PC!Init => PC_IInv
<1>1. ASSUME PC!Init PROVE PC_IInv
  <2>1. pc_lines = <<>> /\ pc_prefixes = <<>> /\ pc_contexts = <<>>
    BY <1>1 DEF PC!Init
  <2>2. Len(<<>>) = 0 /\ 1 .. 0 = {} /\ <<>> \in Seq(ContextLines) /\ <<>> \in Seq(PC_Entries) /\ <<>> \in Seq(PC_ContextsOf)
    OBVIOUS
  <2>3. PC_Ordered(<<>>, <<>>, [k \in 1 .. Len(<<>>) |-> k])
    BY <2>2 DEF PC_Ordered
  <2>4. PC_Table(<<>>, <<>>)
    BY <2>2 DEF PC_Table
  <2>5. PC_UsedOf(<<>>) = {}
    BY <2>2 DEF PC_UsedOf
  <2>6. PC_Counted(<<>>, <<>>)
    BY <2>2, <2>5, FS_EmptySet DEF PC_Counted
  <2>7. PC_Good(<<>>, <<>>, <<>>)
    BY <2>2, <2>3, <2>4, <2>6 DEF PC_Good
  <2> QED BY <2>1, <2>7 DEF PC_IInv
<1> QED BY <1>1

LEMMA PC_AddLine ==
    ASSUME NEW L, NEW P, NEW C, PC_Good(L, P, C), NEW line \in ContextLines, PC!Used(line), NEW M, M = Append(L, line),
           NEW Q, Q = PC!ListAddAfterLen(P, line.words[1], line.context),
           NEW D, D = IF \E i \in 1 .. Len(C) : C[i] = line.context THEN C ELSE <<line.context>> \o C
    PROVE  PC_Good(M, Q, D)
<1>0. L \in Seq(ContextLines) /\ P \in Seq(PC_Entries) /\ PC_Table(P, C) /\ PC_Counted(L, P) /\ Len(P) \in Nat
  BY DEF PC_Good
<1>1. PICK idx : PC_Ordered(L, P, idx)
  BY DEF PC_Good
<1>2. Q \in Seq(PC_Entries) /\ Len(Q) = Len(P) + 1 /\ \E new : PC_Ordered(M, Q, new)
  <2>1. PC_Grown(M, P, Q)
    BY <1>0, <1>1, PC_Insert
  <2> QED BY <2>1 DEF PC_Grown
<1>3. M \in Seq(ContextLines)
  BY <1>0, PC_More
<1>4. PC_Counted(M, Q)
  BY <1>0, <1>2, PC_Count
<1>5. PC_Table(Q, D)
  <2>e. PICK e : e = PC_Entry(line)
    OBVIOUS
  <2>1. PICK at \in 1 .. Len(P) + 1 : Q = PC!InsertAt(P, at, [prefix |-> line.words[1], context |-> line.context])
    BY <1>0, PC_Place
  <2>2. e \in PC_Entries /\ Q = PC!InsertAt(P, at, e)
    BY <2>e, <2>1 DEF PC_Entry, PC_Entries
  <2>3. PC_Shifted(PC_Entries, P, at, e, Q)
    BY <1>0, <2>2, PC_Inserted
  <2>4. PC_Shifted(PC_Entries, P, at, PC_Entry(line), Q)
    BY <2>e, <2>3
  <2> QED BY <1>0, <2>4, PC_AddContext
<1> QED BY <1>2, <1>3, <1>4, <1>5 DEF PC_Good

LEMMA PC_ReadLineKeeps == ASSUME PC_IInv, NEW line \in ContextLines, PC!ReadLine(line) PROVE PC_IInv'
<1>g. PC_Good(pc_lines, pc_prefixes, pc_contexts)
  BY DEF PC_IInv
<1>l. pc_lines' = Append(pc_lines, line)
  BY DEF PC!ReadLine
<1>1. CASE PC!Used(line)
  <2>1. /\ pc_prefixes' = PC!ListAddAfterLen(pc_prefixes, line.words[1], line.context)
        /\ pc_contexts' = PC!AddContext(line.context)
    BY <1>1 DEF PC!ReadLine
  <2>2. pc_contexts' = IF \E i \in 1 .. Len(pc_contexts) : pc_contexts[i] = line.context THEN pc_contexts
                       ELSE <<line.context>> \o pc_contexts
    BY <2>1 DEF PC!AddContext, PC!Contains
  <2>3. PC_Good(pc_lines', pc_prefixes', pc_contexts')
    BY <1>1, <1>g, <1>l, <2>1, <2>2, PC_AddLine
  <2> QED BY <2>3 DEF PC_IInv
<1>2. CASE ~PC!Used(line)
  <2>1. pc_prefixes' = pc_prefixes /\ pc_contexts' = pc_contexts
    BY <1>2 DEF PC!ReadLine
  <2>2. /\ pc_lines \in Seq(ContextLines) /\ pc_prefixes \in Seq(PC_Entries) /\ PC_Table(pc_prefixes, pc_contexts)
        /\ PC_Counted(pc_lines, pc_prefixes) /\ Len(pc_prefixes) \in Nat
    BY <1>g DEF PC_Good
  <2>3. PICK idx : PC_Ordered(pc_lines, pc_prefixes, idx)
    BY <1>g DEF PC_Good
  <2>4. PICK M : M = Append(pc_lines, line)
    OBVIOUS
  <2>5. PC_Ordered(M, pc_prefixes, idx)
    BY <1>2, <2>2, <2>3, <2>4, PC_Skipped
  <2>6. PC_Counted(M, pc_prefixes)
    BY <1>2, <2>2, <2>4, PC_Count
  <2>7. M \in Seq(ContextLines)
    BY <2>2, <2>4, PC_More
  <2>8. PC_Good(M, pc_prefixes, pc_contexts)
    BY <2>2, <2>5, <2>6, <2>7 DEF PC_Good
  <2>9. PC_Good(pc_lines', pc_prefixes', pc_contexts')
    BY <1>l, <2>1, <2>4, <2>8
  <2> QED BY <2>9 DEF PC_IInv
<1> QED BY <1>1, <1>2

LEMMA PC_Step == ASSUME PC_IInv, [PC!Next]_PC!vars PROVE PC_IInv'
<1>1. ASSUME NEW line \in ContextLines, PC!ReadLine(line) PROVE PC_IInv'
  BY <1>1, PC_ReadLineKeeps
<1>2. ASSUME UNCHANGED <<pc_lines, pc_prefixes, pc_contexts>> PROVE PC_IInv'
  BY <1>2 DEF PC_IInv
<1>3. CASE PC!EndOfFile
  BY <1>2, <1>3 DEF PC!EndOfFile
<1>4. CASE UNCHANGED PC!vars
  BY <1>2, <1>4 DEF PC!vars
<1> QED BY <1>1, <1>3, <1>4 DEF PC!Next

LEMMA PC_Means == PC_IInv => PC!ListFindsLongestPrefix /\ PC!ContextsListedOnce
<1>1. ASSUME PC_IInv PROVE PC!ListFindsLongestPrefix /\ PC!ContextsListedOnce
  <2>1. /\ pc_lines \in Seq(ContextLines) /\ pc_prefixes \in Seq(PC_Entries) /\ PC_Table(pc_prefixes, pc_contexts)
        /\ PC_Counted(pc_lines, pc_prefixes)
    BY <1>1 DEF PC_IInv, PC_Good
  <2>2. PICK idx : PC_Ordered(pc_lines, pc_prefixes, idx)
    BY <1>1 DEF PC_IInv, PC_Good
  <2>3. ASSUME NEW name \in PropertyNames PROVE PC!GetPropAreaForName(name) = PC!Deciding(name)
    <3>1. name \in Seq(Nat)
      BY ContextsAssumption
    <3> QED BY <2>1, <2>2, <3>1, PC_Lookup
  <2>4. PC!ListFindsLongestPrefix
    BY <2>3 DEF PC!ListFindsLongestPrefix
  <2>5. pc_contexts \in Seq(PC_ContextsOf) /\ DOMAIN pc_contexts = 1 .. Len(pc_contexts)
    BY <2>1 DEF PC_Table
  <2>6. PC!IsInjective(pc_contexts)
    BY <2>1, <2>5 DEF PC_Table, PC!IsInjective
  <2>7. \A k \in 1 .. Len(pc_prefixes) : PC!Contains(pc_contexts, pc_prefixes[k].context)
    BY <2>1 DEF PC_Table, PC!Contains
  <2>8. \A U : PC!Cardinality(U) = Cardinality(U)
    BY DEF PC!Cardinality, Cardinality
  <2>9. Len(pc_prefixes) = PC!Cardinality({i \in 1 .. Len(pc_lines) : PC!Used(pc_lines[i])})
    BY <2>1, <2>8 DEF PC_Counted, PC_UsedOf
  <2> QED BY <2>4, <2>6, <2>7, <2>9 DEF PC!ContextsListedOnce
<1> QED BY <1>1

(* Whatever the order of the lines in the property_contexts files, a lookup   *)
(* over the list of ContextsSplit gives a name the context of the longest      *)
(* prefix it starts with (of equally long ones the one read first, so the       *)
(* vendor's file overrides no entry of the platform's) and the wildcard only    *)
(* when nothing else matches; each context is in the table once.               *)
THEOREM ContextsFound == PC!Spec => [](PC!ListFindsLongestPrefix /\ PC!ContextsListedOnce)
<1>1. PC!Init => PC_IInv
  BY PC_Starts
<1>2. PC_IInv /\ [PC!Next]_PC!vars => PC_IInv'
  BY PC_Step
<1>3. PC_IInv => PC!ListFindsLongestPrefix /\ PC!ContextsListedOnce
  BY PC_Means
<1> QED BY <1>1, <1>2, <1>3, PTL DEF PC!Spec
=============================================================================
