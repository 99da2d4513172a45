------------------------------ MODULE PropArea ------------------------------
(***************************************************************************)
(* One prop_area: a bump-allocated trie of binary trees in shared memory.   *)
(* A mutator (init's property service, resetprop -n) runs add() and del();   *)
(* readers in other processes run find() and foreach() without any lock.    *)
(*                                                                         *)
(* Memory is a function from offsets to objects; an offset that was never   *)
(* constructed reads as zeroes.  Every load or store of an atomic link, each *)
(* allocation and each construction of an object is a step of its own, in   *)
(* the order of the code.  A token of a name is its length and its rank      *)
(* among the tokens of that length, which is all cmp_prop_name looks at.     *)
(***************************************************************************)
EXTENDS Integers, Sequences, FiniteSets

CONSTANTS
    Mutators, Readers,
    Names,        \* the names looked up, added and deleted: sequences of tokens
    Values,       \* [len, id] records
    DataSize,     \* pa_data_size_
    BtSize,       \* sizeof(prop_bt)
    InfoSize,     \* sizeof(prop_info)
    ValueMax,     \* PROP_VALUE_MAX
    MaxOps        \* bound on the calls of add() and del()

VARIABLES
    mem,          \* data_: offset -> object, only the constructed ones
    bytesUsed,    \* bytes_used_
    th,           \* per thread: where it is in find_property / foreach_property
    ops           \* history: calls of add() and del() so far

vars == <<mem, bytesUsed, th, ops>>

Threads == Mutators \cup Readers
NoName == <<>>
Unbound == [len |-> 0, id |-> "unbound"]
Garbage == [len |-> 0, id |-> "garbage"]

Align(n) == ((n + 3) \div 4) * 4

\* The length of a whole name: its tokens and the dots between them.
NameLen(n) ==
    LET sum[i \in 0..Len(n)] == IF i = 0 THEN 0 ELSE sum[i - 1] + n[i].len
    IN  sum[Len(n)] + Len(n) - 1

\* A call of find() or foreach() is a thread of its own, beside those that add and delete.
ASSUME ThreadsAssumption == Mutators \cap Readers = {}

\* What add() is given: names of tokens, with a length, and values; and the sizes,
\* of structures that are a multiple of four bytes long.
ASSUME NamesAssumption ==
    Names \subseteq Seq([len : Nat, rank : Nat]) \ {NoName} /\ \A n \in Names : NameLen(n) \in Nat
ASSUME ValuesAssumption == \A v \in Values : v.len \in Nat /\ v \notin {Unbound, Garbage}
ASSUME SizeAssumption ==
    /\ DataSize \in Nat /\ BtSize \in 1..DataSize /\ Align(BtSize) = BtSize
    /\ InfoSize \in Nat /\ ValueMax \in Nat /\ MaxOps \in Nat

\* cmp_prop_name: shorter tokens first, strncmp among equally long ones.
Before(one, two) ==
    \/ one.len < two.len
    \/ one.len = two.len /\ one.rank < two.rank

\* Memory of a fresh file reads as zeroes: a node without a name or links.
ZeroNode == [kind |-> "bt", name |-> [len |-> 0, rank |-> 0],
             prop |-> 0, left |-> 0, right |-> 0, children |-> 0]

Obj(o) == IF o \in DOMAIN mem THEN mem[o] ELSE ZeroNode
Put(o, obj) == [x \in DOMAIN mem \cup {o} |-> IF x = o THEN obj ELSE mem[x]]

\* The constructors.  That of prop_bt leaves the links to the zeroes of the file: the
\* bytes above bytes_used_ were never written.
prop_bt(token) == [ZeroNode EXCEPT !.name = token]
prop_info(name, val, long) == [kind |-> "info", name |-> name, val |-> val, long |-> long]

Idle == [pc |-> "idle", op |-> "none", name |-> NoName, val |-> Unbound, pos |-> 1,
         cur |-> 0, link |-> "children", new |-> 0, long |-> 0, res |-> Unbound,
         stack |-> <<>>, seen |-> <<>>, keep |-> {}, met |-> FALSE]

\* The constructor of prop_area leaves room for the root node at offset 0.
Init ==
    /\ mem = [o \in {0} |-> ZeroNode]
    /\ bytesUsed = BtSize
    /\ th = [t \in Threads |-> Idle]
    /\ ops = 0

\* What a name is bound to: the prop_info some node of the trie points at.
Bound(n) ==
    LET infos == {mem[o].prop : o \in {p \in DOMAIN mem : mem[p].kind = "bt"}} \ {0}
        mine == {i \in infos \cap DOMAIN mem : mem[i].kind = "info" /\ mem[i].name = n}
    IN  IF mine = {} THEN Unbound ELSE mem[CHOOSE i \in mine : TRUE].val

Go(t, new) == th' = [th EXCEPT ![t] = new]
\* A call returns; what foreach() and find() saw stays readable until the next call.
Return(t, res) == Go(t, [th[t] EXCEPT !.pc = "idle", !.name = NoName, !.res = res, !.met = FALSE])

-----------------------------------------------------------------------------
(* The calls *)

\* find(name): find_property(root_node(), ..., alloc_if_needed = false).
FindBegin(r) ==
    /\ th[r].pc = "idle"
    /\ \E n \in Names : Go(r, [Idle EXCEPT !.pc = "trie", !.op = "find", !.name = n])
    /\ UNCHANGED <<mem, bytesUsed, ops>>

\* add(name, value): find_property(root_node(), ..., alloc_if_needed = true).
AddBegin(m) ==
    /\ th[m].pc = "idle" /\ ops < MaxOps
    /\ \E n \in Names, v \in Values :
         Go(m, [Idle EXCEPT !.pc = "trie", !.op = "add", !.name = n, !.val = v])
    /\ ops' = ops + 1
    /\ UNCHANGED <<mem, bytesUsed>>

\* del(name): find_prop_bt(root_node(), name, alloc_if_needed = false).
DelBegin(m) ==
    /\ th[m].pc = "idle" /\ ops < MaxOps
    /\ \E n \in Names : Go(m, [Idle EXCEPT !.pc = "trie", !.op = "del", !.name = n])
    /\ ops' = ops + 1
    /\ UNCHANGED <<mem, bytesUsed>>

-----------------------------------------------------------------------------
(* find_prop_bt: along the trie, and through the binary tree of each level *)

Token(t) == th[t].name[th[t].pos]

\* The node a link leads to exists already, or is needed and allocated, or the call fails.
Follow(t, off, link) ==
    IF off # 0 THEN Go(t, [th[t] EXCEPT !.pc = "bt", !.cur = off])
    ELSE IF th[t].op = "add" THEN Go(t, [th[t] EXCEPT !.pc = "allocBt", !.link = link])
    ELSE Return(t, Unbound)

\* One turn of the trie loop: an empty token ends it, else the children are entered.
TrieLevel(t) ==
    /\ th[t].pc = "trie"
    /\ IF Token(t).len = 0
       THEN Return(t, Unbound)
       ELSE Follow(t, Obj(th[t].cur).children, "children")
    /\ UNCHANGED <<mem, bytesUsed, ops>>

\* Fault: names are told apart by their rank only.
BtLevel_RankOnly(t) ==
    /\ th[t].pc = "bt"
    /\ LET node == Obj(th[t].cur)
       IN  IF Token(t).rank = node.name.rank
           THEN Go(t, IF th[t].pos = Len(th[t].name)
                      THEN [th[t] EXCEPT !.pc = IF th[t].op = "del" THEN "clear" ELSE "prop"]
                      ELSE [th[t] EXCEPT !.pc = "trie", !.pos = @ + 1])
           ELSE IF Token(t).rank < node.name.rank
           THEN Follow(t, node.left, "left") ELSE Follow(t, node.right, "right")
    /\ UNCHANGED <<mem, bytesUsed, ops>>

\* One turn of the binary tree loop.  With the last token matched the node is found.
BtLevel(t) ==
    /\ th[t].pc = "bt"
    /\ LET node == Obj(th[t].cur)
       IN  IF Token(t) = node.name
           THEN Go(t, IF th[t].pos = Len(th[t].name)
                      THEN [th[t] EXCEPT !.pc = IF th[t].op = "del" THEN "clear" ELSE "prop"]
                      ELSE [th[t] EXCEPT !.pc = "trie", !.pos = @ + 1])
           ELSE IF Before(Token(t), node.name)
           THEN Follow(t, node.left, "left") ELSE Follow(t, node.right, "right")
    /\ UNCHANGED <<mem, bytesUsed, ops>>

-----------------------------------------------------------------------------
(* Allocation, construction, publication *)

Fits(size) == bytesUsed + Align(size) <= DataSize

\* allocate_obj: the next free bytes, or failure of the whole call.
Allocate(t, size, ok) ==
    IF Fits(size)
    THEN bytesUsed' = bytesUsed + Align(size) /\ Go(t, ok)
    ELSE Return(t, Unbound) /\ UNCHANGED bytesUsed

AllocateBt(t) ==
    /\ th[t].pc = "allocBt"
    /\ Allocate(t, BtSize + Token(t).len + 1,
                [th[t] EXCEPT !.pc = "buildBt", !.new = bytesUsed])
    /\ UNCHANGED <<mem, ops>>

BuildBt(t) ==
    /\ th[t].pc = "buildBt"
    /\ mem' = Put(th[t].new, prop_bt(Token(t)))
    /\ Go(t, [th[t] EXCEPT !.pc = "linkBt"])
    /\ UNCHANGED <<bytesUsed, ops>>

\* Fault: the node is published before it is constructed.
LinkBt_First(t) ==
    \/ /\ th[t].pc = "buildBt"
       /\ mem' = Put(th[t].cur, [Obj(th[t].cur) EXCEPT ![th[t].link] = th[t].new])
       /\ UNCHANGED <<th, bytesUsed, ops>>
    \/ /\ th[t].pc = "linkBt"
       /\ mem' = Put(th[t].cur, [Obj(th[t].cur) EXCEPT ![th[t].link] = th[t].new])
       /\ Go(t, [th[t] EXCEPT !.pc = "bt", !.cur = th[t].new])
       /\ UNCHANGED <<bytesUsed, ops>>

\* Fault: the link to a sibling is set to the node it belongs to.
LinkBt_Self(t) ==
    /\ th[t].pc = "linkBt"
    /\ mem' = Put(th[t].cur, [Obj(th[t].cur) EXCEPT ![th[t].link] =
                         IF th[t].link = "children" THEN th[t].new ELSE th[t].cur])
    /\ Go(t, [th[t] EXCEPT !.pc = "bt", !.cur = th[t].new])
    /\ UNCHANGED <<bytesUsed, ops>>

\* The release store of the new offset; the search goes on in the new node.
LinkBt(t) ==
    /\ th[t].pc = "linkBt"
    /\ mem' = Put(th[t].cur, [Obj(th[t].cur) EXCEPT ![th[t].link] = th[t].new])
    /\ Go(t, [th[t] EXCEPT !.pc = "bt", !.cur = th[t].new])
    /\ UNCHANGED <<bytesUsed, ops>>

\* new_prop_info: first the prop_info, then, for a long value, the room for the value.
AllocateInfo(t) ==
    /\ th[t].pc = "allocInfo"
    /\ Allocate(t, InfoSize + NameLen(th[t].name) + 1,
                [th[t] EXCEPT !.new = bytesUsed,
                              !.pc = IF th[t].val.len >= ValueMax THEN "allocLong" ELSE "buildInfo"])
    /\ UNCHANGED <<mem, ops>>

AllocateLong(t) ==
    /\ th[t].pc = "allocLong"
    /\ Allocate(t, th[t].val.len + 1, [th[t] EXCEPT !.pc = "buildInfo", !.long = bytesUsed])
    /\ UNCHANGED <<mem, ops>>

\* long_property.offset is relative to the prop_info that contains it.
BuildInfo(t) ==
    /\ th[t].pc = "buildInfo"
    /\ mem' = LET new == th[t].new
                  long == th[t].long
                  info == prop_info(th[t].name, th[t].val, IF long = 0 THEN 0 ELSE long - new)
                  objs == (IF long = 0 THEN {} ELSE {long}) \cup {new}
              IN  [o \in DOMAIN mem \cup objs |->
                     IF o = new THEN info
                     ELSE IF o \in objs THEN [kind |-> "chars", val |-> th[t].val] ELSE mem[o]]
    /\ Go(t, [th[t] EXCEPT !.pc = "linkInfo"])
    /\ UNCHANGED <<bytesUsed, ops>>

LinkInfo(t) ==
    /\ th[t].pc = "linkInfo"
    /\ mem' = Put(th[t].cur, [Obj(th[t].cur) EXCEPT !.prop = th[t].new])
    /\ Return(t, th[t].val)
    /\ UNCHANGED <<bytesUsed, ops>>

-----------------------------------------------------------------------------
(* find_property, del *)

\* The first load of current->prop decides; a property that exists is not overwritten.
LoadProp(t) ==
    /\ th[t].pc = "prop"
    /\ IF Obj(th[t].cur).prop # 0 THEN Go(t, [th[t] EXCEPT !.pc = "reread"])
       ELSE IF th[t].op = "add" THEN Go(t, [th[t] EXCEPT !.pc = "allocInfo"])
       ELSE Return(t, Unbound)
    /\ UNCHANGED <<mem, bytesUsed, ops>>

\* What the caller finds at an offset it takes for a prop_info: a long value lies
\* where the relative offset says.  Offset 0 is the root node.
ValueAt(off) ==
    LET obj == Obj(off)
    IN  IF obj.kind # "info" THEN Garbage
        ELSE IF obj.val.len < ValueMax THEN obj.val
        ELSE IF Obj(off + obj.long).kind = "chars" THEN Obj(off + obj.long).val ELSE Garbage

\* to_prop_info(&current->prop) loads the offset a second time.
RereadProp(t) ==
    /\ th[t].pc = "reread"
    /\ Return(t, ValueAt(Obj(th[t].cur).prop))
    /\ UNCHANGED <<mem, bytesUsed, ops>>

\* del stores 0 whether or not the node had a property, and returns true.
ClearProp(t) ==
    /\ th[t].pc = "clear"
    /\ mem' = Put(th[t].cur, [Obj(th[t].cur) EXCEPT !.prop = 0])
    /\ LET n == th[t].name
           met(r) == [th[r] EXCEPT !.met = @ \/ th[r].name = n \/ th[r].op = "foreach",
                                   !.keep = @ \ {n}]
       IN  th' = [x \in Threads |-> IF x = t THEN [th[t] EXCEPT !.pc = "idle", !.name = NoName]
                                    ELSE met(x)]
    /\ UNCHANGED <<bytesUsed, ops>>

-----------------------------------------------------------------------------
(* foreach_property: the recursion is a stack of nodes and what is next in each *)

\* keep is history: the names bound at the call and not deleted since.
ForeachBegin(r) ==
    /\ th[r].pc = "idle"
    /\ Go(r, [Idle EXCEPT !.pc = "foreach", !.op = "foreach", !.res = th[r].res,
                          !.stack = <<[node |-> 0, at |-> "left"]>>,
                          !.keep = {n \in Names : Bound(n) # Unbound}])
    /\ UNCHANGED <<mem, bytesUsed, ops>>

Visit(off) == IF off = 0 THEN <<>> ELSE <<[node |-> off, at |-> "left"]>>

ForeachStep(r) ==
    /\ th[r].pc = "foreach" /\ th[r].stack # <<>>
    /\ LET top == Head(th[r].stack)
           node == Obj(top.node)
           rest == Tail(th[r].stack)
           then(at) == <<[node |-> top.node, at |-> at]>> \o rest
           step == CASE top.at = "left" -> Visit(node.left) \o then("prop")
                     [] top.at = "prop" -> then(IF node.prop # 0 THEN "reread" ELSE "children")
                     [] top.at = "reread" -> then("children")
                     [] top.at = "children" -> Visit(node.children) \o then("right")
                     [] top.at = "right" -> Visit(node.right) \o rest
           info == Obj(node.prop)
       IN  Go(r, [th[r] EXCEPT !.stack = step,
                               !.seen = IF top.at # "reread" THEN @
                                        ELSE Append(@, IF info.kind = "info" THEN info.name
                                                       ELSE NoName)])
    /\ UNCHANGED <<mem, bytesUsed, ops>>

ForeachEnd(r) ==
    /\ th[r].pc = "foreach" /\ th[r].stack = <<>>
    /\ Go(r, [th[r] EXCEPT !.pc = "idle", !.seen = <<>>, !.keep = {}, !.met = FALSE])
    /\ UNCHANGED <<mem, bytesUsed, ops>>

-----------------------------------------------------------------------------
Descend(t) == TrieLevel(t) \/ BtLevel(t) \/ LoadProp(t) \/ RereadProp(t)
Create(t) ==
    \/ AllocateBt(t) \/ BuildBt(t) \/ LinkBt(t)
    \/ AllocateInfo(t) \/ AllocateLong(t) \/ BuildInfo(t) \/ LinkInfo(t)

Next ==
    \/ \E m \in Mutators : AddBegin(m) \/ DelBegin(m) \/ Create(m) \/ ClearProp(m)
    \/ \E r \in Readers : FindBegin(r) \/ ForeachBegin(r) \/ ForeachStep(r) \/ ForeachEnd(r)
    \/ \E t \in Threads : Descend(t)

Spec == Init /\ [][Next]_vars

\* Every step of a call that was begun is taken: nothing in a call waits.
FairSpec ==
    /\ Spec
    /\ \A r \in Readers : WF_vars(Descend(r)) /\ WF_vars(ForeachStep(r) \/ ForeachEnd(r))
    /\ \A m \in Mutators : WF_vars(Descend(m) \/ Create(m) \/ ClearProp(m))

-----------------------------------------------------------------------------
(* Properties *)

\* Type invariant.
TypeOK ==
    /\ DOMAIN mem \subseteq 0..DataSize
    /\ \A o \in DOMAIN mem : mem[o].kind \in {"bt", "info", "chars"}
    /\ bytesUsed \in 0..DataSize
    /\ \A t \in Threads :
         /\ th[t].pc \in {"idle", "trie", "bt", "allocBt", "buildBt", "linkBt", "prop", "reread",
                          "allocInfo", "allocLong", "buildInfo", "linkInfo", "clear", "foreach"}
         /\ th[t].op \in {"none", "find", "add", "del", "foreach"}
         /\ th[t].name \in Names \cup {NoName}
    /\ ops \in 0..MaxOps

Size(obj) ==
    Align(CASE obj.kind = "bt" -> BtSize + (IF obj.name.len = 0 THEN 0 ELSE obj.name.len + 1)
            [] obj.kind = "info" -> InfoSize + NameLen(obj.name) + 1
            [] obj.kind = "chars" -> obj.val.len + 1)

\* A nonzero offset stored in the trie leads to an object that is completely
\* constructed, and no object overlaps another or the end of the mapping: whatever
\* a reader steps on while an add() is under way was finished before it was linked.
PublishedComplete ==
    /\ \A o \in DOMAIN mem :
         mem[o].kind = "bt" =>
            /\ \A f \in {"left", "right", "children"} :
                 mem[o][f] # 0 => /\ mem[o][f] \in DOMAIN mem
                                  /\ mem[mem[o][f]].kind = "bt"
                                  /\ mem[mem[o][f]].name.len > 0
            /\ mem[o].prop # 0 => /\ mem[o].prop \in DOMAIN mem
                                  /\ ValueAt(mem[o].prop) # Garbage
    /\ \A o, p \in DOMAIN mem : o < p => o + Size(mem[o]) <= p
    /\ \A o \in DOMAIN mem : o + Size(mem[o]) <= bytesUsed

\* A prop_info pointer that find() handed out is cached by its callers for ever: the
\* object is never moved, reused or overwritten, and a link once set is not changed
\* (only prop is cleared, by del()).
PointersStayValid ==
    [][\A o \in DOMAIN mem :
         /\ mem'[o].kind = mem[o].kind
         /\ mem[o].kind # "bt" => mem'[o] = mem[o]
         /\ mem[o].kind = "bt" =>
              \A f \in {"left", "right", "children"} : mem[o][f] # 0 => mem'[o][f] = mem[o][f]]_vars

\* When foreach() ends it has reported every property that existed during the whole
\* of its run, none twice, and an object that is no property only if a del() came
\* between its two loads of prop.
ForeachComplete ==
    \A r \in Readers :
        th[r].pc = "foreach" /\ th[r].stack = <<>> =>
            /\ \A n \in th[r].keep : \E i \in 1..Len(th[r].seen) : th[r].seen[i] = n
            /\ \A i, j \in 1..Len(th[r].seen) :
                 th[r].seen[i] = th[r].seen[j] /\ i # j => th[r].seen[i] = NoName
            /\ ~th[r].met => \A i \in 1..Len(th[r].seen) : th[r].seen[i] # NoName

\* The area implements a map: names are bound by the one store that publishes a
\* prop_info, unbound by the one store of del(), and a find() returns the binding of
\* one moment of its run, wherever in the trie the mutator is at work.
Abstract == INSTANCE PropertyMap WITH
    map <- [n \in Names |-> Bound(n)],
        finder <- [r \in Readers |->
                     IF th[r].op = "find" /\ th[r].pc # "idle"
                     THEN [name |-> th[r].name, res |-> Unbound, met |-> th[r].met]
                     ELSE [name |-> NoName, res |-> th[r].res, met |-> FALSE]]
ImplementsMap == Abstract!Spec

\* Every find() and foreach() comes to its end although the mutator extends the trie
\* under it: links never form a cycle.
CallsEnd == \A r \in Readers : th[r].pc # "idle" ~> th[r].pc = "idle"

\* The area as other processes see it, at every moment of an add() or del(): all that
\* can be reached is finished, and stays where it is for those who hold a pointer; and
\* a foreach() that ends has reported what was there all the time, once.
AreaKept == [](TypeOK /\ PublishedComplete /\ ForeachComplete) /\ PointersStayValid
=============================================================================
