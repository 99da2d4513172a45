--------------------------- MODULE PropAreaProofs ---------------------------
(***************************************************************************)
(* Proofs about PropArea, for every set of readers, of names and of values *)
(* and every size of the area, with a single mutator.  What readers reach  *)
(* while add() and del() are under way is complete, lies apart from        *)
(* everything else in the mapping and stays where it is, and a foreach()   *)
(* misses nothing (AreaKept); and the trie implements a map                *)
(* (ImplementsMap).  IInv is about the objects; GInv says that there is an *)
(* assignment of prefixes to the nodes under which every search is where   *)
(* its name would be, and FInv what each foreach() has still to come by.   *)
(***************************************************************************)
EXTENDS PropArea, SequenceTheorems, TLAPS

(* "There is only a single mutator", as Add() says. *)
SingleMutator == \A m, n \in Mutators : m = n

Links == {"left", "right", "children"}
Tokens == [len : Nat, rank : Nat]
Busy == {"trie", "bt", "allocBt", "buildBt", "linkBt", "prop", "reread", "allocInfo", "allocLong", "buildInfo",
         "linkInfo", "clear"}
Fields == {"pc", "op", "name", "val", "pos", "cur", "link", "new", "long", "res", "stack", "seen", "keep", "met"}

Bts == [kind : {"bt"}, name : Tokens, prop : Nat, left : Nat, right : Nat, children : Nat]
Infos == [kind : {"info"}, name : Names, val : Values, long : Int]
Chars == [kind : {"chars"}, val : Values]

IsNode(o) == o \in DOMAIN mem /\ mem[o].kind = "bt"

(* The record of a thread has its fields, and those of TypeOK their types. *)
Shape(r) ==
    /\ DOMAIN r = Fields
    /\ r.pc \in Busy \cup {"idle", "foreach"} /\ r.op \in {"none", "find", "add", "del", "foreach"}
    /\ r.name \in Names \cup {NoName}
Types ==
    /\ DOMAIN th = Threads /\ \A t \in Threads : Shape(th[t])
    /\ bytesUsed \in 0..DataSize /\ ops \in 0..MaxOps

(* Every object is one of the three kinds, a link of a node leads to a node  *)
(* with a name and its prop to a prop_info, whose long value is there. *)
Cells ==
    /\ IsNode(0) /\ DOMAIN mem \subseteq Nat
    /\ \A o \in DOMAIN mem : mem[o] \in Bts \cup Infos \cup Chars
    /\ \A o \in DOMAIN mem : mem[o].kind = "bt" =>
         /\ \A f \in Links : mem[o][f] # 0 => IsNode(mem[o][f]) /\ mem[mem[o][f]].name.len > 0
         /\ mem[o].prop # 0 => mem[o].prop \in DOMAIN mem /\ mem[mem[o].prop].kind = "info"
    /\ \A o \in DOMAIN mem : mem[o].kind = "info" /\ mem[o].val.len >= ValueMax =>
         o + mem[o].long \in DOMAIN mem /\ mem[o + mem[o].long].kind = "chars"

(* The objects lie apart, below bytes_used_. *)
Layout ==
    /\ \A o, p \in DOMAIN mem : o < p => o + Size(mem[o]) <= p
    /\ \A o \in DOMAIN mem : o + Size(mem[o]) <= bytesUsed

(* allocate_obj has reserved the bytes from o on, above all objects. *)
Room(o, size) ==
    /\ o \in Nat /\ o + Align(size) <= bytesUsed
    /\ \A p \in DOMAIN mem : p + Size(mem[p]) <= o

(* Where the mutator is in add() or del(), and what it may rely on there. *)
Work(r) ==
    r.pc \in Busy =>
      /\ r.name \in Names /\ r.pos \in 1..Len(r.name) /\ IsNode(r.cur)
      /\ r.op = "add" => r.val \in Values
      /\ r.pc \in {"bt", "allocBt", "buildBt", "linkBt"} => r.name[r.pos].len > 0
      /\ r.pc \in {"allocBt", "buildBt", "linkBt"} => r.link \in Links /\ mem[r.cur][r.link] = 0
      /\ r.pc = "buildBt" => Room(r.new, BtSize + r.name[r.pos].len + 1)
      /\ r.pc = "linkBt" => IsNode(r.new) /\ mem[r.new].name.len > 0
      /\ r.pc \in {"allocInfo", "allocLong", "buildInfo", "linkInfo"} => r.val \in Values
      /\ r.pc \notin {"buildInfo", "linkInfo"} => r.long = 0
      /\ r.pc \in {"allocLong", "buildInfo"} => Room(r.new, InfoSize + NameLen(r.name) + 1)
      /\ r.pc = "buildInfo" =>
           IF r.long = 0 THEN r.val.len < ValueMax
           ELSE /\ r.long \in Nat /\ r.new + Align(InfoSize + NameLen(r.name) + 1) <= r.long
                /\ r.long + Align(r.val.len + 1) <= bytesUsed
      /\ r.pc = "linkInfo" => r.new \in DOMAIN mem /\ mem[r.new].kind = "info"
Working == \A m \in Mutators : Work(th[m])

IInv == Types /\ Cells /\ Layout /\ Working

-----------------------------------------------------------------------------
(* Sizes and offsets. *)
LEMMA Aligned ==
    ASSUME NEW n \in Nat
    PROVE  Align(n) \in Nat /\ Align(n) >= n
BY DEF Align

LEMMA NameFacts ==
    ASSUME NEW n \in Names
    PROVE  /\ n \in Seq(Tokens) /\ n # NoName /\ NameLen(n) \in Nat /\ Len(n) \in Nat \ {0}
           /\ \A i \in 1..Len(n) : n[i] \in Tokens /\ n[i].len \in Nat
<1>1. n \in Seq(Tokens) /\ n # <<>> /\ NameLen(n) \in Nat
  BY NamesAssumption DEF Tokens, NoName
<1>2. Len(n) \in Nat /\ \A i \in 1..Len(n) : n[i] \in Tokens
  BY <1>1
<1>3. Len(n) # 0
  BY <1>1
<1>4. \A x \in Tokens : x.len \in Nat
  BY DEF Tokens
<1> QED BY <1>1, <1>2, <1>3, <1>4 DEF NoName

(* What the constructors make, and how many bytes they take. *)
LEMMA BtSizes ==
    ASSUME NEW b \in Bts
    PROVE  /\ Size(b) \in Nat \ {0}
           /\ b.name.len > 0 => Size(b) = Align(BtSize + b.name.len + 1)
           /\ b.name.len = 0 => Size(b) = BtSize
<1>1. b.kind = "bt" /\ b.name.len \in Nat /\ BtSize \in Nat \ {0} /\ Align(BtSize) = BtSize
  BY SizeAssumption DEF Bts, Tokens
<1>2. Size(b) = Align(BtSize + (IF b.name.len = 0 THEN 0 ELSE b.name.len + 1))
  BY <1>1 DEF Size
<1>3. CASE b.name.len = 0
  <2>1. Size(b) = Align(BtSize)
    BY <1>1, <1>2, <1>3
  <2> QED BY <1>1, <1>3, <2>1
<1>4. CASE b.name.len # 0
  <2>1. BtSize + b.name.len + 1 \in Nat /\ BtSize + b.name.len + 1 > 0 /\ Size(b) = Align(BtSize + b.name.len + 1)
    <3>1. BtSize + (b.name.len + 1) = BtSize + b.name.len + 1
      BY <1>1
    <3>2. Size(b) = Align(BtSize + (b.name.len + 1))
      BY <1>2, <1>4
    <3> QED BY <1>1, <3>1, <3>2
  <2>2. Align(BtSize + b.name.len + 1) \in Nat /\ Align(BtSize + b.name.len + 1) >= BtSize + b.name.len + 1
    BY <2>1, Aligned
  <2> QED BY <1>4, <2>1, <2>2
<1> QED BY <1>3, <1>4

LEMMA InfoSizes ==
    ASSUME NEW i \in Infos
    PROVE  Size(i) \in Nat \ {0} /\ Size(i) = Align(InfoSize + NameLen(i.name) + 1)
<1>1. i.kind = "info" /\ NameLen(i.name) \in Nat /\ InfoSize \in Nat
  BY SizeAssumption, NameFacts DEF Infos
<1>2. Size(i) = Align(InfoSize + NameLen(i.name) + 1)
  BY <1>1 DEF Size
<1> DEFINE k == NameLen(i.name)
<1>3. InfoSize + k + 1 \in Nat /\ InfoSize + k + 1 > 0
  BY <1>1
<1>4. Align(InfoSize + k + 1) \in Nat /\ Align(InfoSize + k + 1) >= InfoSize + k + 1
  BY <1>3, Aligned
<1> HIDE DEF k
<1>5. Align(InfoSize + k + 1) \in Nat \ {0}
  BY <1>3, <1>4
<1> QED BY <1>2, <1>5 DEF k

LEMMA CharsSizes ==
    ASSUME NEW c \in Chars
    PROVE  Size(c) \in Nat \ {0} /\ Size(c) = Align(c.val.len + 1)
<1>1. c.kind = "chars" /\ c.val.len \in Nat
  BY ValuesAssumption DEF Chars
<1>2. Size(c) = Align(c.val.len + 1)
  BY <1>1 DEF Size
<1>3. c.val.len + 1 \in Nat /\ c.val.len + 1 > 0
  BY <1>1
<1>4. Align(c.val.len + 1) \in Nat /\ Align(c.val.len + 1) >= c.val.len + 1
  BY <1>3, Aligned
<1> QED BY <1>2, <1>3, <1>4

LEMMA Sizes ==
    ASSUME Cells
    PROVE  \A o \in DOMAIN mem : o \in Nat /\ Size(mem[o]) \in Nat \ {0}
BY BtSizes, InfoSizes, CharsSizes DEF Cells

(* Reserved bytes are not part of any object. *)
LEMMA RoomIsFree ==
    ASSUME Cells, NEW o, NEW size, Room(o, size)
    PROVE  o \notin DOMAIN mem /\ \A p \in DOMAIN mem : p < o
BY Sizes DEF Room

(* The kinds of the objects and the fields of a node. *)
LEMMA CellFacts ==
    ASSUME Cells, NEW o \in DOMAIN mem
    PROVE  /\ mem[o].kind \in {"bt", "info", "chars"}
           /\ mem[o].kind = "bt" => mem[o] \in Bts
           /\ mem[o].kind = "info" => mem[o] \in Infos
           /\ mem[o].kind = "chars" => mem[o] \in Chars
BY DEF Cells, Bts, Infos, Chars

LEMMA BtFields ==
    ASSUME NEW b \in Bts
    PROVE  /\ b.kind = "bt" /\ b.name \in Tokens /\ b.prop \in Nat /\ b.left \in Nat /\ b.right \in Nat /\ b.children \in Nat
           /\ \A f \in Links : b[f] \in Nat
BY DEF Bts, Links

(* A node with another link or another prop. *)
LEMMA BtLinked ==
    ASSUME NEW b \in Bts, NEW l \in Links, NEW n \in Nat, NEW c, c = [b EXCEPT ![l] = n]
    PROVE  /\ c \in Bts /\ c.name = b.name /\ c.prop = b.prop
           /\ \A f \in Links : c[f] = IF f = l THEN n ELSE b[f]
BY DEF Bts, Links

LEMMA BtBound ==
    ASSUME NEW b \in Bts, NEW n \in Nat, NEW c, c = [b EXCEPT !.prop = n]
    PROVE  /\ c \in Bts /\ c.name = b.name /\ c.prop = n
           /\ \A f \in Links : c[f] = b[f]
BY DEF Bts, Links

(* The new node: a name and no links. *)
LEMMA BtNew ==
    ASSUME NEW token \in Tokens
    PROVE  /\ prop_bt(token) \in Bts /\ prop_bt(token).name = token /\ prop_bt(token).prop = 0
           /\ \A f \in Links : prop_bt(token)[f] = 0
<1> DEFINE b == prop_bt(token)
<1>1. b \in Bts /\ b.name = token /\ b.prop = 0 /\ b.left = 0 /\ b.right = 0 /\ b.children = 0
  BY DEF prop_bt, ZeroNode, Bts, Tokens
<1> HIDE DEF b
<1>2. \A f \in Links : b[f] = 0
  BY <1>1 DEF Links, Bts
<1> QED BY <1>1, <1>2 DEF b

LEMMA Puts ==
    ASSUME NEW o, NEW obj, mem' = Put(o, obj)
    PROVE  /\ DOMAIN mem' = DOMAIN mem \cup {o} /\ mem'[o] = obj
           /\ \A p \in DOMAIN mem : p # o => mem'[p] = mem[p]
BY DEF Put

-----------------------------------------------------------------------------
(* Steps that leave the objects alone. *)

(* One thread moves on, and perhaps more bytes are reserved. *)
LEMMA Frame ==
    ASSUME IInv, NEW t \in Threads,
           DOMAIN th' = Threads, \A u \in Threads : u # t => th'[u] = th[u], Shape(th'[t]),
           UNCHANGED mem, bytesUsed' \in bytesUsed..DataSize, ops' \in 0..MaxOps,
           t \in Mutators => Work(th[t])'
    PROVE  IInv'
<1>0. bytesUsed \in Nat /\ DataSize \in Nat /\ bytesUsed' \in Nat /\ bytesUsed <= bytesUsed' /\ bytesUsed' <= DataSize
  BY SizeAssumption DEF IInv, Types
<1>1. Types'
  BY <1>0 DEF IInv, Types, Shape
<1>2. Cells'
  BY DEF IInv, Cells, IsNode
<1>s. \A o \in DOMAIN mem : o \in Nat /\ Size(mem[o]) \in Nat /\ Size(mem'[o]) = Size(mem[o])
  BY Sizes DEF IInv
<1>3. Layout'
  <2>1. \A o \in DOMAIN mem : o + Size(mem[o]) <= bytesUsed'
    BY <1>0, <1>s DEF IInv, Layout
  <2> QED BY <1>s, <2>1 DEF IInv, Layout
<1>4. Working'
  <2> SUFFICES ASSUME NEW m \in Mutators
               PROVE  Work(th[m])'
    BY DEF Working
  <2>1. CASE m = t
    BY <2>1
  <2>2. CASE m # t
    <3>1. th'[m] = th[m] /\ Work(th[m])
      BY <2>2 DEF IInv, Working, Threads
    <3>2. \A o, size : Room(o, size) /\ Align(size) \in Nat => Room(o, size)'
      BY <1>0, <1>s DEF Room
    <3>3. \A o, size : o \in Nat /\ Align(size) \in Nat /\ o + Align(size) <= bytesUsed => o + Align(size) <= bytesUsed'
      BY <1>0
    <3>r. PICK r : r = th[m]
      OBVIOUS
    <3>4. CASE r.pc \in Busy
      <4>1. /\ NameLen(r.name) \in Nat
            /\ r.name[r.pos].len \in Nat
            /\ r.val \in Values => r.val.len \in Nat
        BY <3>1, <3>r, <3>4, NameFacts, ValuesAssumption DEF Work
      <4>2. /\ Align(InfoSize + NameLen(r.name) + 1) \in Nat
            /\ Align(BtSize + r.name[r.pos].len + 1) \in Nat
            /\ r.val \in Values => Align(r.val.len + 1) \in Nat
        BY <4>1, Aligned, SizeAssumption
      <4>3. \A o : IsNode(o)' <=> IsNode(o)
        BY DEF IsNode
      <4>4. Work(r)
        BY <3>1, <3>r
      <4>5. /\ r.pc = "buildBt" => Room(r.new, BtSize + r.name[r.pos].len + 1)'
            /\ r.pc \in {"allocLong", "buildInfo"} => Room(r.new, InfoSize + NameLen(r.name) + 1)'
            /\ r.pc = "buildInfo" /\ r.long # 0 => r.long + Align(r.val.len + 1) <= bytesUsed'
        BY <3>2, <3>3, <3>4, <4>2, <4>4 DEF Work
      <4>6. th'[m] = r
        BY <3>1, <3>r
      <4> QED BY <3>4, <4>3, <4>4, <4>5, <4>6 DEF Work, IsNode
    <3>5. CASE r.pc \notin Busy
      BY <3>1, <3>r, <3>5 DEF Work
    <3> QED BY <3>4, <3>5
  <2> QED BY <2>1, <2>2
<1> QED BY <1>1, <1>2, <1>3, <1>4 DEF IInv

(* What Go leaves, and what a changed record keeps. *)
LEMMA Goes ==
    ASSUME Types, NEW t \in Threads, NEW r, Go(t, r)
    PROVE  DOMAIN th' = Threads /\ th'[t] = r /\ \A u \in Threads : u # t => th'[u] = th[u]
BY DEF Go, Types

LEMMA Bytes ==
    ASSUME IInv
    PROVE  bytesUsed \in bytesUsed..DataSize /\ ops \in 0..MaxOps
BY SizeAssumption DEF IInv, Types

(* A call returns. *)
LEMMA Returned ==
    ASSUME IInv, NEW t \in Threads, NEW res, Return(t, res), UNCHANGED <<mem, bytesUsed, ops>>
    PROVE  IInv'
<1> DEFINE r == [th[t] EXCEPT !.pc = "idle", !.name = NoName, !.res = res, !.met = FALSE]
<1>1. DOMAIN th' = Threads /\ th'[t] = r /\ \A u \in Threads : u # t => th'[u] = th[u]
  BY Goes DEF Return, IInv
<1>2. Shape(th[t])
  BY DEF IInv, Types
<1>3. Shape(r) /\ r.pc = "idle"
  BY <1>2 DEF Shape, Fields
<1> HIDE DEF r
<1>4. Work(th[t])'
  BY <1>1, <1>3 DEF Work, Busy
<1> QED BY <1>1, <1>3, <1>4, Frame, Bytes

(* The search follows a link of the node it is at. *)
LEMMA Followed ==
    ASSUME IInv, NEW t \in Threads, NEW l \in Links, NEW off, Follow(t, off, l), UNCHANGED <<mem, bytesUsed, ops>>,
           th[t].pc \in {"trie", "bt"},
           t \in Mutators => off = mem[th[t].cur][l] /\ Token(t).len > 0
    PROVE  IInv'
<1>s. Shape(th[t])
  BY DEF IInv, Types
<1>w. t \in Mutators => Work(th[t]) /\ th[t].pc \in Busy
  BY DEF IInv, Working, Busy
<1>1. CASE off # 0
  <2> DEFINE r == [th[t] EXCEPT !.pc = "bt", !.cur = off]
  <2>1. DOMAIN th' = Threads /\ th'[t] = r /\ \A u \in Threads : u # t => th'[u] = th[u]
    BY <1>1, Goes DEF Follow, IInv
  <2>2. /\ Shape(r) /\ r.pc = "bt" /\ r.cur = off /\ r.name = th[t].name /\ r.pos = th[t].pos /\ r.op = th[t].op
        /\ r.val = th[t].val /\ r.long = th[t].long
    BY <1>s DEF Shape, Fields, Busy
  <2> HIDE DEF r
  <2>3. ASSUME t \in Mutators
        PROVE  Work(th[t])'
    <3>1. IsNode(th[t].cur) /\ off = mem[th[t].cur][l] /\ th[t].name[th[t].pos].len > 0
      BY <1>w, <2>3 DEF Work, Token
    <3>2. IsNode(off)
      BY <1>1, <3>1 DEF IInv, Cells, IsNode
    <3> QED BY <1>w, <2>1, <2>2, <2>3, <3>1, <3>2 DEF Work, IsNode
  <2> QED BY <2>1, <2>2, <2>3, Frame, Bytes
<1>2. CASE off = 0 /\ th[t].op = "add"
  <2> DEFINE r == [th[t] EXCEPT !.pc = "allocBt", !.link = l]
  <2>1. DOMAIN th' = Threads /\ th'[t] = r /\ \A u \in Threads : u # t => th'[u] = th[u]
    BY <1>2, Goes DEF Follow, IInv
  <2>2. /\ Shape(r) /\ r.pc = "allocBt" /\ r.cur = th[t].cur /\ r.name = th[t].name /\ r.pos = th[t].pos /\ r.op = th[t].op
        /\ r.val = th[t].val /\ r.long = th[t].long /\ r.link = l
    BY <1>s DEF Shape, Fields, Busy
  <2> HIDE DEF r
  <2>3. ASSUME t \in Mutators
        PROVE  Work(th[t])'
    <3>1. IsNode(th[t].cur) /\ mem[th[t].cur][l] = 0 /\ th[t].name[th[t].pos].len > 0
      BY <1>2, <1>w, <2>3 DEF Work, Token
    <3> QED BY <1>w, <2>1, <2>2, <2>3, <3>1 DEF Work, IsNode
  <2> QED BY <2>1, <2>2, <2>3, Frame, Bytes
<1>3. CASE off = 0 /\ th[t].op # "add"
  BY <1>3, Returned DEF Follow
<1> QED BY <1>1, <1>2, <1>3

(* The three calls begin at the root. *)
LEMMA Begins ==
    ASSUME IInv, NEW t \in Threads,
           FindBegin(t) \/ AddBegin(t) \/ DelBegin(t)
    PROVE  IInv'
<1>1. PICK r : /\ Go(t, r) /\ Shape(r) /\ r.pc = "trie" /\ r.pos = 1 /\ r.cur = 0 /\ r.long = 0
               /\ r.name \in Names /\ (r.op = "add" => r.val \in Values)
  <2>1. CASE FindBegin(t) \/ DelBegin(t)
    <3>1. PICK n \in Names, o \in {"find", "del"} : Go(t, [Idle EXCEPT !.pc = "trie", !.op = o, !.name = n])
      BY <2>1 DEF FindBegin, DelBegin
    <3> DEFINE r == [Idle EXCEPT !.pc = "trie", !.op = o, !.name = n]
    <3>2. /\ Shape(r) /\ r.pc = "trie" /\ r.name = n /\ r.op = o /\ r.pos = 1 /\ r.cur = 0 /\ r.long = 0
      BY DEF Idle, Shape, Fields, Busy
    <3> HIDE DEF r
    <3>3. Go(t, r)
      BY <3>1 DEF r
    <3> QED BY <3>2, <3>3
  <2>2. CASE AddBegin(t)
    <3>1. PICK n \in Names, v \in Values : Go(t, [Idle EXCEPT !.pc = "trie", !.op = "add", !.name = n, !.val = v])
      BY <2>2 DEF AddBegin
    <3> DEFINE r == [Idle EXCEPT !.pc = "trie", !.op = "add", !.name = n, !.val = v]
    <3>2. /\ Shape(r) /\ r.pc = "trie" /\ r.name = n /\ r.val = v /\ r.pos = 1 /\ r.cur = 0 /\ r.long = 0
      BY DEF Idle, Shape, Fields, Busy
    <3> HIDE DEF r
    <3>3. Go(t, r)
      BY <3>1 DEF r
    <3> QED BY <3>2, <3>3
  <2> QED BY <2>1, <2>2
<1>2. UNCHANGED <<mem, bytesUsed>> /\ ops' \in 0..MaxOps
  <2>1. ops \in 0..MaxOps /\ MaxOps \in Nat
    BY SizeAssumption DEF IInv, Types
  <2>2. CASE FindBegin(t)
    BY <2>1, <2>2 DEF FindBegin
  <2>3. CASE AddBegin(t) \/ DelBegin(t)
    <3>1. UNCHANGED <<mem, bytesUsed>> /\ ops < MaxOps /\ ops' = ops + 1
      BY <2>3 DEF AddBegin, DelBegin
    <3> QED BY <2>1, <3>1
  <2> QED BY <2>2, <2>3
<1>3. DOMAIN th' = Threads /\ th'[t] = r /\ \A u \in Threads : u # t => th'[u] = th[u]
  BY <1>1, Goes DEF IInv
<1>4. 1 \in 1..Len(r.name)
  BY <1>1, NameFacts
<1>5. Work(th[t])'
  BY <1>1, <1>2, <1>3, <1>4 DEF Work, IInv, Cells, IsNode
<1> QED BY <1>1, <1>2, <1>3, <1>5, Frame, Bytes

LEMMA TrieLevelKeeps ==
    ASSUME IInv, NEW t \in Threads, TrieLevel(t)
    PROVE  IInv'
<1>1. CASE Token(t).len = 0
  BY <1>1, Returned DEF TrieLevel
<1>2. CASE Token(t).len # 0
  <2>1. Follow(t, Obj(th[t].cur).children, "children") /\ UNCHANGED <<mem, bytesUsed, ops>> /\ th[t].pc = "trie"
    BY <1>2 DEF TrieLevel
  <2>2. ASSUME t \in Mutators
        PROVE  Obj(th[t].cur).children = mem[th[t].cur]["children"] /\ Token(t).len > 0
    <3>1. Work(th[t]) /\ th[t].pc \in Busy
      BY <2>1, <2>2 DEF IInv, Working, Busy
    <3>2. IsNode(th[t].cur) /\ Token(t).len \in Nat
      BY <3>1, NameFacts DEF Work, Token
    <3> QED BY <1>2, <3>2 DEF Obj, IsNode
  <2>3. "children" \in Links
    BY DEF Links
  <2> QED BY <2>1, <2>2, <2>3, Followed
<1> QED BY <1>1, <1>2

LEMMA BtLevelKeeps ==
    ASSUME IInv, NEW t \in Threads, BtLevel(t)
    PROVE  IInv'
<1> DEFINE node == Obj(th[t].cur)
<1>0. th[t].pc = "bt" /\ UNCHANGED <<mem, bytesUsed, ops>> /\ Shape(th[t])
  BY DEF BtLevel, IInv, Types
<1>w. ASSUME t \in Mutators
      PROVE  /\ Work(th[t]) /\ th[t].pc \in Busy /\ IsNode(th[t].cur) /\ node = mem[th[t].cur] /\ Token(t).len > 0
             /\ node.left = mem[th[t].cur]["left"] /\ node.right = mem[th[t].cur]["right"]
  <2>1. Work(th[t]) /\ th[t].pc \in Busy
    BY <1>0, <1>w DEF IInv, Working, Busy
  <2>2. IsNode(th[t].cur) /\ Token(t).len > 0
    BY <1>0, <2>1 DEF Work, Token
  <2> QED BY <2>1, <2>2 DEF Obj, IsNode
<1>1. CASE Token(t) = node.name /\ th[t].pos = Len(th[t].name)
  <2> DEFINE r == [th[t] EXCEPT !.pc = IF th[t].op = "del" THEN "clear" ELSE "prop"]
  <2>1. DOMAIN th' = Threads /\ th'[t] = r /\ \A u \in Threads : u # t => th'[u] = th[u]
    BY <1>1, Goes DEF BtLevel, IInv
  <2>2. /\ Shape(r) /\ r.pc \in {"clear", "prop"} /\ r.cur = th[t].cur /\ r.name = th[t].name /\ r.pos = th[t].pos
        /\ r.op = th[t].op /\ r.val = th[t].val /\ r.long = th[t].long
    BY <1>0 DEF Shape, Fields, Busy
  <2> HIDE DEF r
  <2>3. t \in Mutators => Work(th[t])'
    BY <1>0, <1>w, <2>1, <2>2 DEF Work, IsNode
  <2> QED BY <1>0, <2>1, <2>2, <2>3, Frame, Bytes
<1>2. CASE Token(t) = node.name /\ th[t].pos # Len(th[t].name)
  <2> DEFINE r == [th[t] EXCEPT !.pc = "trie", !.pos = th[t].pos + 1]
  <2>1. DOMAIN th' = Threads /\ th'[t] = r /\ \A u \in Threads : u # t => th'[u] = th[u]
    BY <1>2, Goes DEF BtLevel, IInv
  <2>2. /\ Shape(r) /\ r.pc = "trie" /\ r.cur = th[t].cur /\ r.name = th[t].name /\ r.pos = th[t].pos + 1
        /\ r.op = th[t].op /\ r.val = th[t].val /\ r.long = th[t].long
    BY <1>0 DEF Shape, Fields, Busy
  <2> HIDE DEF r
  <2>3. ASSUME t \in Mutators
        PROVE  Work(th[t])'
    <3>1. th[t].name \in Names /\ th[t].pos \in 1..Len(th[t].name) /\ Len(th[t].name) \in Nat
      BY <1>w, <2>3, NameFacts DEF Work
    <3>2. th[t].pos + 1 \in 1..Len(th[t].name)
      BY <1>2, <3>1
    <3> QED BY <1>0, <1>w, <2>1, <2>2, <2>3, <3>2 DEF Work, IsNode
  <2> QED BY <1>0, <2>1, <2>2, <2>3, Frame, Bytes
<1>3. CASE Token(t) # node.name
  <2>1. Follow(t, node.left, "left") \/ Follow(t, node.right, "right")
    BY <1>3 DEF BtLevel
  <2>2. "left" \in Links /\ "right" \in Links
    BY DEF Links
  <2> HIDE DEF node
  <2> QED BY <1>0, <1>w, <2>1, <2>2, Followed
<1> QED BY <1>1, <1>2, <1>3

LEMMA LoadPropKeeps ==
    ASSUME IInv, NEW t \in Threads, LoadProp(t)
    PROVE  IInv'
<1>0. th[t].pc = "prop" /\ UNCHANGED <<mem, bytesUsed, ops>> /\ Shape(th[t])
  BY DEF LoadProp, IInv, Types
<1>w. t \in Mutators => Work(th[t]) /\ th[t].pc \in Busy
  BY <1>0 DEF IInv, Working, Busy
<1>1. CASE Return(t, Unbound)
  BY <1>0, <1>1, Returned
<1>2. ASSUME NEW p \in {"reread", "allocInfo"}, Go(t, [th[t] EXCEPT !.pc = p]), p = "allocInfo" => th[t].op = "add"
      PROVE  IInv'
  <2> DEFINE r == [th[t] EXCEPT !.pc = p]
  <2>1. DOMAIN th' = Threads /\ th'[t] = r /\ \A u \in Threads : u # t => th'[u] = th[u]
    BY <1>2, Goes DEF IInv
  <2>2. /\ Shape(r) /\ r.pc = p /\ r.cur = th[t].cur /\ r.name = th[t].name /\ r.pos = th[t].pos
        /\ r.op = th[t].op /\ r.val = th[t].val /\ r.long = th[t].long
    BY <1>0 DEF Shape, Fields, Busy
  <2> HIDE DEF r
  <2>3. t \in Mutators => Work(th[t])'
    BY <1>0, <1>w, <1>2, <2>1, <2>2 DEF Work, IsNode
  <2> QED BY <1>0, <2>1, <2>2, <2>3, Frame, Bytes
<1> QED BY <1>1, <1>2 DEF LoadProp

LEMMA RereadPropKeeps ==
    ASSUME IInv, NEW t \in Threads, RereadProp(t)
    PROVE  IInv'
BY Returned DEF RereadProp

(* foreach() moves nothing but its own stack. *)
LEMMA ForeachKeeps ==
    ASSUME IInv, NEW t \in Threads, ForeachBegin(t) \/ ForeachStep(t) \/ ForeachEnd(t)
    PROVE  IInv'
<1>0. UNCHANGED <<mem, bytesUsed, ops>> /\ Shape(th[t])
  BY DEF ForeachBegin, ForeachStep, ForeachEnd, IInv, Types
<1>1. PICK r : Go(t, r) /\ Shape(r) /\ r.pc \in {"idle", "foreach"}
  <2>1. CASE ForeachBegin(t)
    <3>1. PICK res, stack, keep : Go(t, [Idle EXCEPT !.pc = "foreach", !.op = "foreach", !.res = res, !.stack = stack, !.keep = keep])
      BY <2>1 DEF ForeachBegin
    <3> DEFINE r == [Idle EXCEPT !.pc = "foreach", !.op = "foreach", !.res = res, !.stack = stack, !.keep = keep]
    <3>2. Shape(r) /\ r.pc = "foreach"
      BY DEF Idle, Shape, Fields, Busy
    <3> HIDE DEF r
    <3>3. Go(t, r)
      BY <3>1 DEF r
    <3> QED BY <3>2, <3>3
  <2>2. CASE ForeachStep(t)
    <3>1. th[t].pc = "foreach" /\ \E stack, seen : Go(t, [th[t] EXCEPT !.stack = stack, !.seen = seen])
      BY <2>2 DEF ForeachStep
    <3>2. PICK stack, seen : Go(t, [th[t] EXCEPT !.stack = stack, !.seen = seen])
      BY <3>1
    <3> DEFINE r == [th[t] EXCEPT !.stack = stack, !.seen = seen]
    <3>3. Shape(r) /\ r.pc = "foreach"
      BY <1>0, <3>1 DEF Shape, Fields, Busy
    <3> HIDE DEF r
    <3>4. Go(t, r)
      BY <3>2 DEF r
    <3> QED BY <3>3, <3>4
  <2>3. CASE ForeachEnd(t)
    <3> DEFINE r == [th[t] EXCEPT !.pc = "idle", !.seen = <<>>, !.keep = {}, !.met = FALSE]
    <3>1. Shape(r) /\ r.pc = "idle"
      BY <1>0 DEF Shape, Fields, Busy
    <3> HIDE DEF r
    <3>2. Go(t, r)
      BY <2>3 DEF r, ForeachEnd
    <3> QED BY <3>1, <3>2
  <2> QED BY <2>1, <2>2, <2>3
<1>2. DOMAIN th' = Threads /\ th'[t] = r /\ \A u \in Threads : u # t => th'[u] = th[u]
  BY <1>1, Goes DEF IInv
<1>3. Work(th[t])'
  BY <1>1, <1>2 DEF Work, Busy
<1> QED BY <1>0, <1>1, <1>2, <1>3, Frame, Bytes

-----------------------------------------------------------------------------
(* allocate_obj *)

(* A reservation at bytes_used_ lies above every object and within the area. *)
LEMMA Reserved ==
    ASSUME IInv, NEW size \in Nat, Fits(size), bytesUsed' = bytesUsed + Align(size), UNCHANGED mem
    PROVE  /\ bytesUsed' \in bytesUsed..DataSize
           /\ bytesUsed \in Nat /\ Align(size) \in Nat
           /\ \A p \in DOMAIN mem : p + Size(mem[p]) <= bytesUsed
           /\ \A p \in DOMAIN mem' : p + Size(mem'[p]) <= bytesUsed
<1>1. bytesUsed \in Nat /\ DataSize \in Nat /\ Align(size) \in Nat
  BY Aligned, SizeAssumption DEF IInv, Types
<1>2. bytesUsed + Align(size) <= DataSize
  BY DEF Fits
<1>3. bytesUsed' \in bytesUsed..DataSize
  BY <1>1, <1>2
<1>4. \A p \in DOMAIN mem : p + Size(mem[p]) <= bytesUsed
  BY DEF IInv, Layout
<1> QED BY <1>1, <1>3, <1>4

LEMMA AllocateBtKeeps ==
    ASSUME IInv, NEW t \in Mutators, AllocateBt(t)
    PROVE  IInv'
<1>t. t \in Threads
  BY DEF Threads
<1>0. th[t].pc = "allocBt" /\ UNCHANGED <<mem, ops>> /\ Shape(th[t]) /\ Work(th[t]) /\ th[t].pc \in Busy
  BY <1>t DEF AllocateBt, IInv, Types, Working, Busy
<1> DEFINE size == BtSize + Token(t).len + 1
<1>1. size \in Nat
  <2>1. BtSize \in Nat
    BY SizeAssumption
  <2>2. Token(t).len \in Nat
    BY <1>0, NameFacts DEF Work, Token
  <2> QED BY <2>1, <2>2
<1>2. CASE Fits(size)
  <2> DEFINE r == [th[t] EXCEPT !.pc = "buildBt", !.new = bytesUsed]
  <2>1. bytesUsed' = bytesUsed + Align(size) /\ Go(t, r)
    BY <1>2 DEF AllocateBt, Allocate
  <2>2. DOMAIN th' = Threads /\ th'[t] = r /\ \A u \in Threads : u # t => th'[u] = th[u]
    BY <1>t, <2>1, Goes DEF IInv
  <2>3. /\ Shape(r) /\ r.pc = "buildBt" /\ r.cur = th[t].cur /\ r.name = th[t].name /\ r.pos = th[t].pos
        /\ r.op = th[t].op /\ r.val = th[t].val /\ r.long = th[t].long /\ r.link = th[t].link /\ r.new = bytesUsed
    BY <1>0 DEF Shape, Fields, Busy
  <2> HIDE DEF r
  <2>4. /\ bytesUsed' \in bytesUsed..DataSize /\ bytesUsed \in Nat /\ Align(size) \in Nat
        /\ \A p \in DOMAIN mem' : p + Size(mem'[p]) <= bytesUsed
    BY <1>0, <1>1, <1>2, <2>1, Reserved
  <2>5. size = BtSize + r.name[r.pos].len + 1
    BY <2>3 DEF Token
  <2>6. bytesUsed + Align(BtSize + r.name[r.pos].len + 1) <= bytesUsed'
    BY <2>1, <2>4, <2>5
  <2>7. Work(th[t])'
    BY <1>0, <2>2, <2>3, <2>4, <2>6 DEF Work, Room, IsNode
  <2> QED BY <1>0, <1>t, <2>2, <2>3, <2>4, <2>7, Frame, Bytes
<1>3. CASE ~Fits(size)
  BY <1>0, <1>3, <1>t, Returned DEF AllocateBt, Allocate
<1> QED BY <1>2, <1>3

LEMMA AllocateInfoKeeps ==
    ASSUME IInv, NEW t \in Mutators, AllocateInfo(t)
    PROVE  IInv'
<1>t. t \in Threads
  BY DEF Threads
<1>0. th[t].pc = "allocInfo" /\ UNCHANGED <<mem, ops>> /\ Shape(th[t]) /\ Work(th[t]) /\ th[t].pc \in Busy
  BY <1>t DEF AllocateInfo, IInv, Types, Working, Busy
<1>v. th[t].val \in Values /\ th[t].val.len \in Nat /\ ValueMax \in Nat /\ th[t].name \in Names /\ th[t].long = 0
  BY <1>0, ValuesAssumption, SizeAssumption DEF Work
<1> DEFINE size == InfoSize + NameLen(th[t].name) + 1
<1>1. size \in Nat
  BY <1>v, NameFacts, SizeAssumption
<1>2. CASE Fits(size)
  <2> DEFINE p == IF th[t].val.len >= ValueMax THEN "allocLong" ELSE "buildInfo"
             r == [th[t] EXCEPT !.new = bytesUsed, !.pc = p]
  <2>1. bytesUsed' = bytesUsed + Align(size) /\ Go(t, r)
    BY <1>2 DEF AllocateInfo, Allocate
  <2>2. DOMAIN th' = Threads /\ th'[t] = r /\ \A u \in Threads : u # t => th'[u] = th[u]
    BY <1>t, <2>1, Goes DEF IInv
  <2>3. /\ Shape(r) /\ r.pc = p /\ r.cur = th[t].cur /\ r.name = th[t].name /\ r.pos = th[t].pos
        /\ r.op = th[t].op /\ r.val = th[t].val /\ r.long = 0 /\ r.link = th[t].link /\ r.new = bytesUsed
    BY <1>0, <1>v DEF Shape, Fields, Busy
  <2>4. p \in {"allocLong", "buildInfo"} /\ (p = "buildInfo" => th[t].val.len < ValueMax)
    BY <1>v
  <2> HIDE DEF r, p
  <2>5. /\ bytesUsed' \in bytesUsed..DataSize /\ bytesUsed \in Nat /\ Align(size) \in Nat
        /\ \A q \in DOMAIN mem' : q + Size(mem'[q]) <= bytesUsed
    BY <1>0, <1>1, <1>2, <2>1, Reserved
  <2>6. bytesUsed + Align(InfoSize + NameLen(r.name) + 1) <= bytesUsed'
    BY <2>1, <2>3, <2>5
  <2>7. Work(th[t])'
    BY <1>0, <1>v, <2>2, <2>3, <2>4, <2>5, <2>6 DEF Work, Room, IsNode
  <2> QED BY <1>0, <1>t, <2>2, <2>3, <2>5, <2>7, Frame, Bytes
<1>3. CASE ~Fits(size)
  BY <1>0, <1>3, <1>t, Returned DEF AllocateInfo, Allocate
<1> QED BY <1>2, <1>3

LEMMA AllocateLongKeeps ==
    ASSUME IInv, NEW t \in Mutators, AllocateLong(t)
    PROVE  IInv'
<1>t. t \in Threads
  BY DEF Threads
<1>0. th[t].pc = "allocLong" /\ UNCHANGED <<mem, ops>> /\ Shape(th[t]) /\ Work(th[t]) /\ th[t].pc \in Busy
  BY <1>t DEF AllocateLong, IInv, Types, Working, Busy
<1>v. /\ th[t].val \in Values /\ th[t].val.len \in Nat /\ th[t].name \in Names
      /\ Room(th[t].new, InfoSize + NameLen(th[t].name) + 1)
  BY <1>0, ValuesAssumption DEF Work
<1> DEFINE size == th[t].val.len + 1
           info == Align(InfoSize + NameLen(th[t].name) + 1)
<1>1. size \in Nat
  BY <1>v
<1>i. info \in Nat /\ info > 0 /\ th[t].new \in Nat /\ th[t].new + info <= bytesUsed
  <2>1. InfoSize + NameLen(th[t].name) + 1 \in Nat /\ InfoSize + NameLen(th[t].name) + 1 > 0
    BY <1>v, NameFacts, SizeAssumption
  <2>2. Align(InfoSize + NameLen(th[t].name) + 1) \in Nat
        /\ Align(InfoSize + NameLen(th[t].name) + 1) >= InfoSize + NameLen(th[t].name) + 1
    BY <2>1, Aligned
  <2> QED BY <1>v, <2>1, <2>2 DEF Room
<1>2. CASE Fits(size)
  <2> DEFINE r == [th[t] EXCEPT !.pc = "buildInfo", !.long = bytesUsed]
  <2>1. bytesUsed' = bytesUsed + Align(size) /\ Go(t, r)
    BY <1>2 DEF AllocateLong, Allocate
  <2>2. DOMAIN th' = Threads /\ th'[t] = r /\ \A u \in Threads : u # t => th'[u] = th[u]
    BY <1>t, <2>1, Goes DEF IInv
  <2>3. /\ Shape(r) /\ r.pc = "buildInfo" /\ r.cur = th[t].cur /\ r.name = th[t].name /\ r.pos = th[t].pos
        /\ r.op = th[t].op /\ r.val = th[t].val /\ r.long = bytesUsed /\ r.link = th[t].link /\ r.new = th[t].new
    BY <1>0 DEF Shape, Fields, Busy
  <2> HIDE DEF r
  <2>4. /\ bytesUsed' \in bytesUsed..DataSize /\ bytesUsed \in Nat /\ Align(size) \in Nat
        /\ \A q \in DOMAIN mem' : q + Size(mem'[q]) <= bytesUsed
    BY <1>0, <1>1, <1>2, <2>1, Reserved
  <2>5. bytesUsed # 0 /\ th[t].new + info <= bytesUsed'
    <3> HIDE DEF info
    <3> QED BY <1>i, <2>4
  <2>6. Room(th[t].new, InfoSize + NameLen(th[t].name) + 1)'
    <3>1. th'[t].new = th[t].new /\ th'[t].name = th[t].name
      BY <2>2, <2>3
    <3>2. th[t].new \in Nat /\ th[t].new + Align(InfoSize + NameLen(th[t].name) + 1) <= bytesUsed'
      BY <1>i, <2>5
    <3>3. \A q \in DOMAIN mem' : q + Size(mem'[q]) <= th[t].new
      BY <1>0, <1>v DEF Room
    <3> QED BY <3>1, <3>2, <3>3 DEF Room
  <2>7. Work(th[t])'
    <3>2. th'[t].new + Align(InfoSize + NameLen(th'[t].name) + 1) <= th'[t].long /\ th'[t].long \in Nat /\ th'[t].long # 0
      BY <1>i, <2>2, <2>3, <2>4, <2>5
    <3>3. th'[t].long + Align(th'[t].val.len + 1) <= bytesUsed'
      BY <2>1, <2>2, <2>3, <2>4
    <3> QED BY <1>0, <1>v, <2>2, <2>3, <2>6, <3>2, <3>3 DEF Work, IsNode
  <2> QED BY <1>0, <1>t, <2>2, <2>3, <2>4, <2>7, Frame, Bytes
<1>3. CASE ~Fits(size)
  BY <1>0, <1>3, <1>t, Returned DEF AllocateLong, Allocate
<1> QED BY <1>2, <1>3

-----------------------------------------------------------------------------
(* Steps that store into the area. *)

(* What a store may never do to an object that is there. *)
Kept ==
    \A o \in DOMAIN mem :
      /\ mem'[o].kind = mem[o].kind
      /\ mem[o].kind # "bt" => mem'[o] = mem[o]
      /\ mem[o].kind = "bt" => \A f \in Links : mem[o][f] # 0 => mem'[o][f] = mem[o][f]

LEMMA TypesGo ==
    ASSUME Types, NEW t \in Threads, NEW r, Shape(r), Go(t, r), UNCHANGED <<bytesUsed, ops>>
    PROVE  Types' /\ th'[t] = r
<1>1. DOMAIN th' = Threads /\ th'[t] = r /\ \A u \in Threads : u # t => th'[u] = th[u]
  BY Goes
<1> QED BY <1>1 DEF Types

(* The node at o gets another link or prop. *)
LEMMA Relinked ==
    ASSUME IInv, NEW o, IsNode(o), NEW c \in Bts, mem' = Put(o, c), UNCHANGED bytesUsed,
           c.name = mem[o].name,
           \A f \in Links : c[f] # 0 => c[f] = mem[o][f] \/ (IsNode(c[f]) /\ mem[c[f]].name.len > 0),
           c.prop # 0 => c.prop = mem[o].prop \/ (c.prop \in DOMAIN mem /\ mem[c.prop].kind = "info")
    PROVE  /\ Cells' /\ Layout' /\ DOMAIN mem' = DOMAIN mem /\ mem'[o] = c
           /\ \A p \in DOMAIN mem : mem'[p].kind = mem[p].kind /\ (p # o => mem'[p] = mem[p])
           /\ \A p \in DOMAIN mem : mem[p].kind = "bt" => mem'[p].name = mem[p].name
<1>1. DOMAIN mem' = DOMAIN mem /\ mem'[o] = c /\ \A p \in DOMAIN mem : p # o => mem'[p] = mem[p]
  <2>1. DOMAIN mem' = DOMAIN mem \cup {o} /\ mem'[o] = c /\ \A p \in DOMAIN mem : p # o => mem'[p] = mem[p]
    BY Puts
  <2>2. o \in DOMAIN mem
    BY DEF IsNode
  <2> QED BY <2>1, <2>2
<1>2. mem[o] \in Bts /\ o \in DOMAIN mem
  BY CellFacts DEF IInv, IsNode
<1>3. /\ \A p \in DOMAIN mem : mem'[p].kind = mem[p].kind
      /\ \A p \in DOMAIN mem : mem[p].kind = "bt" => mem'[p].name = mem[p].name
  BY <1>1, <1>2, BtFields
<1>4. Size(c) = Size(mem[o])
  <2>1. c.name.len \in Nat /\ c.name.len = mem[o].name.len
    BY BtFields DEF Tokens
  <2>2. CASE c.name.len = 0
    BY <1>2, <2>1, <2>2, BtSizes
  <2>3. CASE c.name.len > 0
    BY <1>2, <2>1, <2>3, BtSizes
  <2> QED BY <2>1, <2>2, <2>3
<1>5. \A p \in DOMAIN mem : Size(mem'[p]) = Size(mem[p])
  BY <1>1, <1>4
<1>6. Layout'
  BY <1>1, <1>5 DEF IInv, Layout
<1>7. Cells'
  <2>1. IsNode(0)' /\ DOMAIN mem' \subseteq Nat
    BY <1>1, <1>3 DEF IInv, Cells, IsNode
  <2>2. \A p \in DOMAIN mem' : mem'[p] \in Bts \cup Infos \cup Chars
    BY <1>1 DEF IInv, Cells
  <2>3. ASSUME NEW p \in DOMAIN mem', mem'[p].kind = "bt", NEW f \in Links, mem'[p][f] # 0
        PROVE  mem'[p][f] \in DOMAIN mem' /\ mem'[mem'[p][f]].kind = "bt" /\ mem'[mem'[p][f]].name.len > 0
    <3>1. IsNode(mem'[p][f]) /\ mem[mem'[p][f]].name.len > 0
      <4>1. CASE p = o
        BY <1>1, <1>2, <2>3, <4>1 DEF IInv, Cells, IsNode
      <4>2. CASE p # o
        BY <1>1, <2>3, <4>2 DEF IInv, Cells
      <4> QED BY <4>1, <4>2
    <3> QED BY <1>1, <1>3, <3>1 DEF IsNode
  <2>4. ASSUME NEW p \in DOMAIN mem', mem'[p].kind = "bt", mem'[p].prop # 0
        PROVE  mem'[p].prop \in DOMAIN mem' /\ mem'[mem'[p].prop].kind = "info"
    <3>1. mem'[p].prop \in DOMAIN mem /\ mem[mem'[p].prop].kind = "info"
      <4>1. CASE p = o
        BY <1>1, <1>2, <2>4, <4>1 DEF IInv, Cells, IsNode
      <4>2. CASE p # o
        BY <1>1, <2>4, <4>2 DEF IInv, Cells
      <4> QED BY <4>1, <4>2
    <3> QED BY <1>1, <1>3, <3>1
  <2>5. ASSUME NEW p \in DOMAIN mem', mem'[p].kind = "info", mem'[p].val.len >= ValueMax
        PROVE  p + mem'[p].long \in DOMAIN mem' /\ mem'[p + mem'[p].long].kind = "chars"
    <3>1. p # o /\ mem'[p] = mem[p]
      BY <1>1, <1>2, <2>5, BtFields
    <3>2. p + mem[p].long \in DOMAIN mem /\ mem[p + mem[p].long].kind = "chars"
      BY <1>1, <2>5, <3>1 DEF IInv, Cells
    <3> QED BY <1>1, <1>3, <3>1, <3>2
  <2> QED BY <2>1, <2>2, <2>3, <2>4, <2>5 DEF Cells, IsNode
<1> QED BY <1>1, <1>3, <1>6, <1>7

LEMMA LinkBtKeeps ==
    ASSUME SingleMutator, IInv, NEW t \in Mutators, LinkBt(t)
    PROVE  IInv' /\ Kept
<1>t. t \in Threads
  BY DEF Threads
<1>0. th[t].pc = "linkBt" /\ UNCHANGED <<bytesUsed, ops>> /\ Shape(th[t]) /\ Work(th[t]) /\ th[t].pc \in Busy
  BY <1>t DEF LinkBt, IInv, Types, Working, Busy
<1>w. /\ IsNode(th[t].cur) /\ th[t].link \in Links /\ mem[th[t].cur][th[t].link] = 0
      /\ IsNode(th[t].new) /\ mem[th[t].new].name.len > 0
      /\ th[t].name \in Names /\ th[t].pos \in 1..Len(th[t].name) /\ (th[t].op = "add" => th[t].val \in Values)
      /\ th[t].name[th[t].pos].len > 0 /\ th[t].long = 0
  BY <1>0 DEF Work
<1> DEFINE b == mem[th[t].cur]
           c == [b EXCEPT ![th[t].link] = th[t].new]
<1>1. b \in Bts /\ th[t].new \in Nat /\ th[t].cur \in DOMAIN mem
  BY <1>w, CellFacts DEF IInv, IsNode, Cells
<1>2. /\ c \in Bts /\ c.name = b.name /\ c.prop = b.prop
      /\ \A f \in Links : c[f] = IF f = th[t].link THEN th[t].new ELSE b[f]
  BY <1>1, <1>w, BtLinked
<1>3. mem' = Put(th[t].cur, c)
  BY <1>w DEF LinkBt, Obj, IsNode
<1> HIDE DEF c
<1>4. /\ Cells' /\ Layout' /\ DOMAIN mem' = DOMAIN mem /\ mem'[th[t].cur] = c
      /\ \A p \in DOMAIN mem : mem'[p].kind = mem[p].kind /\ (p # th[t].cur => mem'[p] = mem[p])
  <2>1. \A f \in Links : c[f] # 0 => c[f] = b[f] \/ (IsNode(c[f]) /\ mem[c[f]].name.len > 0)
    BY <1>w, <1>2
  <2> QED BY <1>0, <1>w, <1>2, <1>3, <2>1, Relinked
<1>5. Kept
  <2> HIDE DEF b
  <2>1. b = mem[th[t].cur] /\ b[th[t].link] = 0 /\ b.kind = "bt"
    BY <1>w DEF b, IsNode
  <2>2. \A f \in Links : b[f] # 0 => c[f] = b[f]
    BY <1>2, <2>1
  <2>3. ASSUME NEW o \in DOMAIN mem
        PROVE  /\ mem'[o].kind = mem[o].kind
               /\ mem[o].kind # "bt" => mem'[o] = mem[o]
               /\ \A f \in Links : mem[o][f] # 0 => mem'[o][f] = mem[o][f]
    <3>1. CASE o = th[t].cur
      BY <1>4, <2>1, <2>2, <3>1
    <3>2. CASE o # th[t].cur
      BY <1>4, <3>2
    <3> QED BY <3>1, <3>2
  <2> QED BY <2>3 DEF Kept
<1> DEFINE r == [th[t] EXCEPT !.pc = "bt", !.cur = th[t].new]
<1>6. /\ Shape(r) /\ r.pc = "bt" /\ r.cur = th[t].new /\ r.name = th[t].name /\ r.pos = th[t].pos
      /\ r.op = th[t].op /\ r.val = th[t].val /\ r.long = th[t].long
  BY <1>0 DEF Shape, Fields, Busy
<1> HIDE DEF r
<1>7. Types' /\ th'[t] = r
  <2>1. Go(t, r)
    BY DEF LinkBt, r
  <2> QED BY <1>0, <1>t, <1>6, <2>1, TypesGo DEF IInv
<1>8. IsNode(th[t].cur)'
  BY <1>4, <1>6, <1>7, <1>w DEF IsNode
<1>9. Work(th[t])'
  BY <1>6, <1>7, <1>8, <1>w DEF Work
<1>10. Working'
  BY <1>9 DEF Working, SingleMutator
<1> QED BY <1>4, <1>5, <1>7, <1>10 DEF IInv

LEMMA LinkInfoKeeps ==
    ASSUME SingleMutator, IInv, NEW t \in Mutators, LinkInfo(t)
    PROVE  IInv' /\ Kept
<1>t. t \in Threads
  BY DEF Threads
<1>0. th[t].pc = "linkInfo" /\ UNCHANGED <<bytesUsed, ops>> /\ Shape(th[t]) /\ Work(th[t]) /\ th[t].pc \in Busy
  BY <1>t DEF LinkInfo, IInv, Types, Working, Busy
<1>w. IsNode(th[t].cur) /\ th[t].new \in DOMAIN mem /\ mem[th[t].new].kind = "info"
  BY <1>0 DEF Work
<1> DEFINE b == mem[th[t].cur]
           c == [b EXCEPT !.prop = th[t].new]
<1>1. b \in Bts /\ th[t].new \in Nat /\ th[t].cur \in DOMAIN mem
  BY <1>w, CellFacts DEF IInv, IsNode, Cells
<1>2. c \in Bts /\ c.name = b.name /\ c.prop = th[t].new /\ \A f \in Links : c[f] = b[f]
  BY <1>1, BtBound
<1>3. mem' = Put(th[t].cur, c)
  BY <1>w DEF LinkInfo, Obj, IsNode
<1> HIDE DEF c
<1>4. /\ Cells' /\ Layout' /\ DOMAIN mem' = DOMAIN mem /\ mem'[th[t].cur] = c
      /\ \A p \in DOMAIN mem : mem'[p].kind = mem[p].kind /\ (p # th[t].cur => mem'[p] = mem[p])
  BY <1>0, <1>w, <1>2, <1>3, Relinked
<1>5. Kept
  BY <1>w, <1>1, <1>2, <1>4 DEF Kept, IsNode
<1> DEFINE r == [th[t] EXCEPT !.pc = "idle", !.name = NoName, !.res = th[t].val, !.met = FALSE]
<1>6. Shape(r) /\ r.pc = "idle"
  BY <1>0 DEF Shape, Fields, Busy
<1> HIDE DEF r
<1>7. Types' /\ th'[t] = r
  <2>1. Go(t, r)
    BY DEF LinkInfo, Return, r
  <2> QED BY <1>0, <1>t, <1>6, <2>1, TypesGo DEF IInv
<1>8. Work(th[t])'
  BY <1>6, <1>7 DEF Work, Busy
<1>9. Working'
  BY <1>8 DEF Working, SingleMutator
<1> QED BY <1>4, <1>5, <1>7, <1>9 DEF IInv

LEMMA ClearPropKeeps ==
    ASSUME SingleMutator, IInv, NEW t \in Mutators, ClearProp(t)
    PROVE  IInv' /\ Kept
<1>t. t \in Threads
  BY DEF Threads
<1>0. th[t].pc = "clear" /\ UNCHANGED <<bytesUsed, ops>> /\ Work(th[t]) /\ th[t].pc \in Busy
      /\ DOMAIN th = Threads /\ \A u \in Threads : Shape(th[u])
  BY <1>t DEF ClearProp, IInv, Types, Working, Busy
<1>w. IsNode(th[t].cur)
  BY <1>0 DEF Work
<1> DEFINE b == mem[th[t].cur]
           c == [b EXCEPT !.prop = 0]
<1>1. b \in Bts /\ th[t].cur \in DOMAIN mem
  BY <1>w, CellFacts DEF IInv, IsNode
<1>2. c \in Bts /\ c.name = b.name /\ c.prop = 0 /\ \A f \in Links : c[f] = b[f]
  BY <1>1, BtBound
<1>3. mem' = Put(th[t].cur, c)
  BY <1>w DEF ClearProp, Obj, IsNode
<1> HIDE DEF c
<1>4. /\ Cells' /\ Layout' /\ DOMAIN mem' = DOMAIN mem /\ mem'[th[t].cur] = c
      /\ \A p \in DOMAIN mem : mem'[p].kind = mem[p].kind /\ (p # th[t].cur => mem'[p] = mem[p])
  BY <1>0, <1>w, <1>2, <1>3, Relinked
<1>5. Kept
  BY <1>w, <1>1, <1>2, <1>4 DEF Kept, IsNode
<1>6. /\ DOMAIN th' = Threads /\ th'[t] = [th[t] EXCEPT !.pc = "idle", !.name = NoName]
      /\ \A u \in Threads : u # t => \E met, keep : th'[u] = [th[u] EXCEPT !.met = met, !.keep = keep]
  BY <1>t DEF ClearProp
<1>7. Shape(th'[t]) /\ th'[t].pc = "idle"
  <2>1. Shape(th[t])
    BY <1>0, <1>t
  <2> QED BY <1>6, <2>1 DEF Shape, Fields, Busy
<1>8. Types' /\ th'[t].pc = "idle"
  <2>1. ASSUME NEW u \in Threads
        PROVE  Shape(th'[u])
    <3>1. CASE u = t
      BY <1>7, <3>1
    <3>2. CASE u # t
      <4>1. PICK met, keep : th'[u] = [th[u] EXCEPT !.met = met, !.keep = keep]
        BY <1>6, <3>2
      <4>2. Shape(th[u])
        BY <1>0
      <4> QED BY <4>1, <4>2 DEF Shape, Fields
    <3> QED BY <3>1, <3>2
  <2> QED BY <1>0, <1>t, <1>6, <1>7, <2>1 DEF IInv, Types
<1>9. Work(th[t])'
  BY <1>8 DEF Work, Busy
<1>10. Working'
  BY <1>9 DEF Working, SingleMutator
<1> QED BY <1>4, <1>5, <1>8, <1>10 DEF IInv

(* New objects above the old ones, which nothing leads to yet. *)
LEMMA Extended ==
    ASSUME Cells, DOMAIN mem \subseteq DOMAIN mem', DOMAIN mem' \subseteq Nat,
           \A p \in DOMAIN mem : mem'[p] = mem[p],
           \A p \in DOMAIN mem' \ DOMAIN mem :
             /\ mem'[p] \in Bts \cup Infos \cup Chars
             /\ mem'[p].kind = "bt" => mem'[p].prop = 0 /\ \A f \in Links : mem'[p][f] = 0
             /\ mem'[p].kind = "info" /\ mem'[p].val.len >= ValueMax =>
                  p + mem'[p].long \in DOMAIN mem' /\ mem'[p + mem'[p].long].kind = "chars"
    PROVE  Cells' /\ Kept
<1>1. IsNode(0)'
  BY DEF Cells, IsNode
<1>2. \A p \in DOMAIN mem' : mem'[p] \in Bts \cup Infos \cup Chars
  BY DEF Cells
<1>3. ASSUME NEW p \in DOMAIN mem', mem'[p].kind = "bt", NEW f \in Links, mem'[p][f] # 0
      PROVE  mem'[p][f] \in DOMAIN mem' /\ mem'[mem'[p][f]].kind = "bt" /\ mem'[mem'[p][f]].name.len > 0
  <2>1. p \in DOMAIN mem /\ mem'[p] = mem[p]
    BY <1>3
  <2>2. IsNode(mem[p][f]) /\ mem[mem[p][f]].name.len > 0
    BY <1>3, <2>1 DEF Cells
  <2> QED BY <2>1, <2>2 DEF IsNode
<1>4. ASSUME NEW p \in DOMAIN mem', mem'[p].kind = "bt", mem'[p].prop # 0
      PROVE  mem'[p].prop \in DOMAIN mem' /\ mem'[mem'[p].prop].kind = "info"
  <2>1. p \in DOMAIN mem /\ mem'[p] = mem[p]
    BY <1>4
  <2> QED BY <1>4, <2>1 DEF Cells
<1>5. ASSUME NEW p \in DOMAIN mem', mem'[p].kind = "info", mem'[p].val.len >= ValueMax
      PROVE  p + mem'[p].long \in DOMAIN mem' /\ mem'[p + mem'[p].long].kind = "chars"
  <2>1. CASE p \in DOMAIN mem
    <3>1. p + mem[p].long \in DOMAIN mem /\ mem[p + mem[p].long].kind = "chars"
      BY <1>5, <2>1 DEF Cells
    <3> QED BY <2>1, <3>1
  <2>2. CASE p \notin DOMAIN mem
    BY <1>5, <2>2
  <2> QED BY <2>1, <2>2
<1>6. Cells'
  BY <1>1, <1>2, <1>3, <1>4, <1>5 DEF Cells, IsNode
<1>7. Kept
  BY DEF Kept
<1> QED BY <1>6, <1>7

LEMMA BuildBtKeeps ==
    ASSUME SingleMutator, IInv, NEW t \in Mutators, BuildBt(t)
    PROVE  IInv' /\ Kept
<1>t. t \in Threads
  BY DEF Threads
<1>0. th[t].pc = "buildBt" /\ UNCHANGED <<bytesUsed, ops>> /\ Shape(th[t]) /\ Work(th[t]) /\ th[t].pc \in Busy
  BY <1>t DEF BuildBt, IInv, Types, Working, Busy
<1>w. /\ IsNode(th[t].cur) /\ th[t].link \in Links /\ mem[th[t].cur][th[t].link] = 0
      /\ Room(th[t].new, BtSize + Token(t).len + 1)
      /\ th[t].name \in Names /\ th[t].pos \in 1..Len(th[t].name) /\ (th[t].op = "add" => th[t].val \in Values)
      /\ Token(t) = th[t].name[th[t].pos] /\ Token(t).len > 0 /\ th[t].long = 0
  BY <1>0 DEF Work, Token
<1>1. PICK new, b : new = th[t].new /\ b = prop_bt(Token(t))
  OBVIOUS
<1>2. Token(t) \in Tokens
  BY <1>w, NameFacts
<1>3. b \in Bts /\ b.name = Token(t) /\ b.prop = 0 /\ b.kind = "bt" /\ \A f \in Links : b[f] = 0
  BY <1>1, <1>2, BtNew, BtFields
<1>4. new \notin DOMAIN mem /\ \A p \in DOMAIN mem : p < new
  BY <1>1, <1>w, RoomIsFree DEF IInv
<1>5. DOMAIN mem' = DOMAIN mem \cup {new} /\ mem'[new] = b /\ \A p \in DOMAIN mem : mem'[p] = mem[p]
  <2>1. mem' = Put(new, b)
    BY <1>1 DEF BuildBt
  <2>2. /\ DOMAIN mem' = DOMAIN mem \cup {new} /\ mem'[new] = b
        /\ \A p \in DOMAIN mem : p # new => mem'[p] = mem[p]
    BY <2>1, Puts
  <2> QED BY <1>4, <2>2
<1>6. new \in Nat /\ DOMAIN mem \subseteq Nat
  BY <1>1, <1>w DEF Room, IInv, Cells
<1>7. Cells' /\ Kept
  <2>1. DOMAIN mem \subseteq DOMAIN mem' /\ DOMAIN mem' \subseteq Nat /\ \A p \in DOMAIN mem' \ DOMAIN mem : p = new
    BY <1>5, <1>6
  <2> QED BY <1>3, <1>5, <2>1, Extended DEF IInv
<1>8. Layout'
  <2>1. Size(b) = Align(BtSize + Token(t).len + 1) /\ Size(b) \in Nat
    BY <1>3, <1>w, BtSizes
  <2>2. new + Size(b) <= bytesUsed /\ \A p \in DOMAIN mem : p + Size(mem[p]) <= new
    BY <1>1, <1>w, <2>1 DEF Room
  <2>3. \A p \in DOMAIN mem : Size(mem'[p]) = Size(mem[p])
    BY <1>5
  <2>4. Size(mem'[new]) = Size(b)
    BY <1>5
  <2>5. ASSUME NEW o \in DOMAIN mem', NEW p \in DOMAIN mem', o < p
        PROVE  o + Size(mem'[o]) <= p
    <3>1. o \in DOMAIN mem
      BY <1>4, <1>5, <1>6, <2>5
    <3> QED BY <1>5, <2>2, <2>3, <2>5, <3>1 DEF IInv, Layout
  <2>6. \A o \in DOMAIN mem' : o + Size(mem'[o]) <= bytesUsed'
    BY <1>0, <1>5, <2>2, <2>3, <2>4 DEF IInv, Layout
  <2> QED BY <2>5, <2>6 DEF Layout
<1> DEFINE r == [th[t] EXCEPT !.pc = "linkBt"]
<1>9. /\ Shape(r) /\ r.pc = "linkBt" /\ r.cur = th[t].cur /\ r.name = th[t].name /\ r.pos = th[t].pos
      /\ r.op = th[t].op /\ r.val = th[t].val /\ r.long = th[t].long /\ r.new = new /\ r.link = th[t].link
  BY <1>0, <1>1 DEF Shape, Fields, Busy
<1> HIDE DEF r
<1>10. Types' /\ th'[t] = r
  <2>1. Go(t, r)
    BY DEF BuildBt, r
  <2> QED BY <1>0, <1>t, <1>9, <2>1, TypesGo DEF IInv
<1>11. IsNode(th[t].cur)' /\ IsNode(th[t].new)' /\ mem'[new].name.len > 0 /\ mem'[th[t].cur][th[t].link] = 0
  BY <1>3, <1>5, <1>9, <1>10, <1>w DEF IsNode
<1>12. Work(th[t])'
  BY <1>9, <1>10, <1>11, <1>w DEF Work
<1>13. Working'
  BY <1>12 DEF Working, SingleMutator
<1> QED BY <1>7, <1>8, <1>10, <1>13 DEF IInv

LEMMA InfoNew ==
    ASSUME NEW name \in Names, NEW val \in Values, NEW long \in Int
    PROVE  /\ prop_info(name, val, long) \in Infos /\ prop_info(name, val, long).kind = "info"
           /\ prop_info(name, val, long).name = name /\ prop_info(name, val, long).val = val
           /\ prop_info(name, val, long).long = long
BY DEF prop_info, Infos

LEMMA BuildInfoKeeps ==
    ASSUME SingleMutator, IInv, NEW t \in Mutators, BuildInfo(t)
    PROVE  IInv' /\ Kept
<1>t. t \in Threads
  BY DEF Threads
<1>0. th[t].pc = "buildInfo" /\ UNCHANGED <<bytesUsed, ops>> /\ Shape(th[t]) /\ Work(th[t]) /\ th[t].pc \in Busy
  BY <1>t DEF BuildInfo, IInv, Types, Working, Busy
<1>1. PICK new, long, name, val : new = th[t].new /\ long = th[t].long /\ name = th[t].name /\ val = th[t].val
  OBVIOUS
<1>w. /\ IsNode(th[t].cur) /\ Room(new, InfoSize + NameLen(name) + 1)
      /\ name \in Names /\ val \in Values /\ th[t].pos \in 1..Len(name)
      /\ long = 0 => val.len < ValueMax
      /\ long # 0 => /\ long \in Nat /\ new + Align(InfoSize + NameLen(name) + 1) <= long
                     /\ long + Align(val.len + 1) <= bytesUsed
  BY <1>0, <1>1 DEF Work
<1>2. /\ new \in Nat /\ long \in Nat /\ val.len \in Nat /\ ValueMax \in Nat /\ DOMAIN mem \subseteq Nat /\ bytesUsed \in Nat
      /\ new \notin DOMAIN mem /\ \A p \in DOMAIN mem : p < new
  BY <1>w, RoomIsFree, ValuesAssumption, SizeAssumption DEF Room, IInv, Cells, Types
<1>3. PICK info : info = prop_info(name, val, IF long = 0 THEN 0 ELSE long - new)
  OBVIOUS
<1>4. PICK chars : chars = [kind |-> "chars", val |-> val]
  OBVIOUS
<1>5. /\ info \in Infos /\ info.kind = "info" /\ info.name = name /\ info.val = val
      /\ info.long = IF long = 0 THEN 0 ELSE long - new
  <2>1. (IF long = 0 THEN 0 ELSE long - new) \in Int
    BY <1>2
  <2> QED BY <1>3, <1>w, <2>1, InfoNew
<1>6. chars \in Chars /\ chars.kind = "chars" /\ chars.val = val
  BY <1>4, <1>w DEF Chars
<1>7. PICK size : size = Align(InfoSize + NameLen(name) + 1)
  OBVIOUS
<1>8. /\ size \in Nat \ {0} /\ Size(info) = size /\ new + size <= bytesUsed /\ \A p \in DOMAIN mem : p + Size(mem[p]) <= new
      /\ long # 0 => new + size <= long
  BY <1>5, <1>7, <1>w, InfoSizes DEF Room
<1>9. Size(chars) \in Nat /\ (long # 0 => long + Size(chars) <= bytesUsed)
  BY <1>6, <1>w, CharsSizes
<1>10. /\ DOMAIN mem' = DOMAIN mem \cup {new} \cup (IF long = 0 THEN {} ELSE {long})
       /\ mem'[new] = info /\ (long # 0 => mem'[long] = chars)
       /\ \A p \in DOMAIN mem : mem'[p] = mem[p]
  <2> DEFINE objs == (IF long = 0 THEN {} ELSE {long}) \cup {new}
  <2>1. mem' = [o \in DOMAIN mem \cup objs |-> IF o = new THEN info ELSE IF o \in objs THEN chars ELSE mem[o]]
    BY <1>1, <1>3, <1>4 DEF BuildInfo
  <2>2. objs = (IF long = 0 THEN {} ELSE {long}) \cup {new}
    OBVIOUS
  <2> HIDE DEF objs
  <2>3. DOMAIN mem' = DOMAIN mem \cup objs /\ mem'[new] = info
    BY <2>1, <2>2
  <2>4. long # 0 => long # new /\ long \notin DOMAIN mem
    BY <1>2, <1>8
  <2>5. long # 0 => mem'[long] = chars
    BY <2>1, <2>2, <2>4
  <2>6. ASSUME NEW p \in DOMAIN mem
        PROVE  mem'[p] = mem[p]
    <3>1. p \notin objs
      BY <1>2, <2>2, <2>4
    <3>2. p # new
      BY <1>2
    <3> QED BY <2>1, <3>1, <3>2
  <2> QED BY <2>2, <2>3, <2>5, <2>6
<1>11. DOMAIN mem \subseteq DOMAIN mem' /\ DOMAIN mem' \subseteq Nat
       /\ \A p \in DOMAIN mem' \ DOMAIN mem : p = new \/ (long # 0 /\ p = long)
  BY <1>2, <1>10
<1>12. Cells' /\ Kept
  <2>1. ASSUME NEW p \in DOMAIN mem' \ DOMAIN mem
        PROVE  /\ mem'[p] \in Bts \cup Infos \cup Chars
               /\ mem'[p].kind # "bt"
               /\ mem'[p].kind = "info" /\ mem'[p].val.len >= ValueMax =>
                    p + mem'[p].long \in DOMAIN mem' /\ mem'[p + mem'[p].long].kind = "chars"
    <3>1. CASE p = new
      <4>1. mem'[p] = info
        BY <1>10, <3>1
      <4>2. CASE long = 0
        BY <1>2, <1>5, <1>w, <4>1, <4>2
      <4>3. CASE long # 0
        <5>1. new + (long - new) = long
          BY <1>2
        <5>2. p + mem'[p].long = long
          BY <1>5, <3>1, <4>1, <4>3, <5>1
        <5> QED BY <1>5, <1>6, <1>10, <4>1, <4>3, <5>2
      <4> QED BY <4>2, <4>3
    <3>2. CASE long # 0 /\ p = long
      BY <1>6, <1>10, <3>2
    <3> QED BY <1>11, <3>1, <3>2
  <2> QED BY <1>10, <1>11, <2>1, Extended DEF IInv
<1>13. Layout'
  <2>1. \A p \in DOMAIN mem : Size(mem'[p]) = Size(mem[p])
    BY <1>10
  <2>2. Size(mem'[new]) = size /\ (long # 0 => Size(mem'[long]) = Size(chars))
    BY <1>8, <1>10
  <2>3. ASSUME NEW o \in DOMAIN mem', NEW p \in DOMAIN mem', o < p
        PROVE  o + Size(mem'[o]) <= p
    <3>1. CASE o \in DOMAIN mem
      <4>1. Size(mem[o]) \in Nat /\ o + Size(mem[o]) <= new
        BY <1>8, <3>1, Sizes DEF IInv
      <4>2. CASE p \in DOMAIN mem
        BY <2>1, <2>3, <3>1, <4>2 DEF IInv, Layout
      <4>3. CASE p = new \/ (long # 0 /\ p = long)
        <5>1. new <= p
          BY <1>2, <1>8, <4>3
        <5> QED BY <1>2, <1>11, <2>1, <3>1, <4>1, <5>1
      <4> QED BY <1>11, <4>2, <4>3
    <3>2. CASE o = new
      <4>1. p \notin DOMAIN mem
        BY <1>2, <2>3, <3>2
      <4>2. long # 0 /\ p = long
        BY <1>2, <1>11, <2>3, <3>2, <4>1
      <4> QED BY <1>8, <2>2, <3>2, <4>2
    <3>3. CASE long # 0 /\ o = long
      <4>1. new < long
        BY <1>2, <1>8, <3>3
      <4> QED BY <1>2, <1>11, <2>3, <3>3, <4>1
    <3> QED BY <1>11, <3>1, <3>2, <3>3
  <2>4. ASSUME NEW o \in DOMAIN mem'
        PROVE  o + Size(mem'[o]) <= bytesUsed
    <3>1. CASE o \in DOMAIN mem
      BY <2>1, <3>1 DEF IInv, Layout
    <3>2. CASE o = new
      BY <1>8, <2>2, <3>2
    <3>3. CASE long # 0 /\ o = long
      BY <1>9, <2>2, <3>3
    <3> QED BY <1>11, <3>1, <3>2, <3>3
  <2> QED BY <1>0, <2>3, <2>4 DEF Layout
<1> DEFINE r == [th[t] EXCEPT !.pc = "linkInfo"]
<1>14. /\ Shape(r) /\ r.pc = "linkInfo" /\ r.cur = th[t].cur /\ r.name = name /\ r.pos = th[t].pos
       /\ r.op = th[t].op /\ r.val = val /\ r.new = new
  BY <1>0, <1>1 DEF Shape, Fields, Busy
<1> HIDE DEF r
<1>15. Types' /\ th'[t] = r
  <2>1. Go(t, r)
    BY DEF BuildInfo, r
  <2> QED BY <1>0, <1>t, <1>14, <2>1, TypesGo DEF IInv
<1>16. IsNode(th[t].cur)' /\ mem'[new].kind = "info" /\ new \in DOMAIN mem'
  BY <1>5, <1>10, <1>14, <1>15, <1>w DEF IsNode
<1>17. Work(th[t])'
  BY <1>14, <1>15, <1>16, <1>w DEF Work
<1>18. Working'
  BY <1>17 DEF Working, SingleMutator
<1> QED BY <1>12, <1>13, <1>15, <1>18 DEF IInv

-----------------------------------------------------------------------------
(* The invariant. *)
LEMMA InitIInv == Init => IInv
<1> SUFFICES ASSUME Init
             PROVE  IInv
  OBVIOUS
<1>0. PICK z : z = ZeroNode
  OBVIOUS
<1>1. DOMAIN mem = {0} /\ mem[0] = z
  BY <1>0 DEF Init
<1>2. /\ z \in Bts /\ z.kind = "bt" /\ z.name.len = 0 /\ z.prop = 0 /\ \A f \in Links : z[f] = 0
  <2>1. z \in Bts /\ z.kind = "bt" /\ z.name.len = 0 /\ z.prop = 0 /\ z.left = 0 /\ z.right = 0 /\ z.children = 0
    BY <1>0 DEF ZeroNode, Bts, Tokens
  <2> QED BY <2>1 DEF Links
<1>3. Cells
  BY <1>1, <1>2 DEF Cells, IsNode
<1>4. Size(z) = BtSize /\ bytesUsed = BtSize /\ BtSize \in Nat /\ BtSize <= DataSize /\ DataSize \in Nat /\ MaxOps \in Nat
  BY <1>2, BtSizes, SizeAssumption DEF Init
<1>5. Layout
  BY <1>1, <1>4 DEF Layout
<1>6. Shape(Idle) /\ Idle.pc = "idle"
  BY DEF Idle, Shape, Fields, Busy
<1>7. DOMAIN th = Threads /\ \A t \in Threads : th[t] = Idle
  BY DEF Init
<1>8. Types
  BY <1>4, <1>6, <1>7 DEF Types, Init
<1>9. Working
  BY <1>6, <1>7 DEF Working, Work, Busy, Threads
<1> QED BY <1>3, <1>5, <1>8, <1>9 DEF IInv

(* Every step keeps the invariant and all that was published. *)
LEMMA StepIInv ==
    ASSUME SingleMutator, IInv, [Next]_vars
    PROVE  IInv' /\ Kept
<1>1. CASE UNCHANGED vars
  <2>1. UNCHANGED <<mem, bytesUsed, th, ops>>
    BY <1>1 DEF vars
  <2>2. Types'
    BY <2>1 DEF IInv, Types
  <2>3. Cells'
    BY <2>1 DEF IInv, Cells, IsNode
  <2>4. Layout'
    BY <2>1 DEF IInv, Layout
  <2>5. Working'
    BY <2>1 DEF IInv, Working, Work, Room, IsNode
  <2>6. Kept
    BY <2>1 DEF Kept
  <2> QED BY <2>2, <2>3, <2>4, <2>5, <2>6 DEF IInv
<1>2. ASSUME UNCHANGED mem
      PROVE  Kept
  BY <1>2 DEF Kept
<1>3. ASSUME NEW m \in Mutators, AddBegin(m) \/ DelBegin(m)
      PROVE  IInv' /\ Kept
  BY <1>2, <1>3, Begins DEF AddBegin, DelBegin, Threads
<1>4. ASSUME NEW m \in Mutators, AllocateBt(m) \/ AllocateInfo(m) \/ AllocateLong(m)
      PROVE  IInv' /\ Kept
  BY <1>2, <1>4, AllocateBtKeeps, AllocateInfoKeeps, AllocateLongKeeps DEF AllocateBt, AllocateInfo, AllocateLong
<1>5. ASSUME NEW m \in Mutators, BuildBt(m) \/ BuildInfo(m) \/ LinkBt(m) \/ LinkInfo(m) \/ ClearProp(m)
      PROVE  IInv' /\ Kept
  BY <1>5, BuildBtKeeps, BuildInfoKeeps, LinkBtKeeps, LinkInfoKeeps, ClearPropKeeps
<1>6. ASSUME NEW r \in Readers, FindBegin(r) \/ ForeachBegin(r) \/ ForeachStep(r) \/ ForeachEnd(r)
      PROVE  IInv' /\ Kept
  <2>1. r \in Threads /\ UNCHANGED mem
    BY <1>6 DEF Threads, FindBegin, ForeachBegin, ForeachStep, ForeachEnd
  <2> QED BY <1>2, <1>6, <2>1, Begins, ForeachKeeps
<1>7. ASSUME NEW t \in Threads, Descend(t)
      PROVE  IInv' /\ Kept
  <2>1. UNCHANGED mem
    BY <1>7 DEF Descend, TrieLevel, BtLevel, LoadProp, RereadProp
  <2> QED BY <1>2, <1>7, <2>1, TrieLevelKeeps, BtLevelKeeps, LoadPropKeeps, RereadPropKeeps DEF Descend
<1> QED BY <1>1, <1>3, <1>4, <1>5, <1>6, <1>7 DEF Next, Create

LEMMA Invariant ==
    ASSUME SingleMutator
    PROVE  Spec => []IInv
<1>1. IInv /\ [Next]_vars => IInv'
  BY StepIInv
<1> QED BY <1>1, InitIInv, PTL DEF Spec

-----------------------------------------------------------------------------
(* The invariant implies what the run checks. *)
LEMMA Complete == IInv => TypeOK /\ PublishedComplete
<1> SUFFICES ASSUME IInv
             PROVE  TypeOK /\ PublishedComplete
  OBVIOUS
<1>1. TypeOK
  <2>1. ASSUME NEW o \in DOMAIN mem
        PROVE  o \in 0..DataSize /\ mem[o].kind \in {"bt", "info", "chars"}
    <3>1. o \in Nat /\ Size(mem[o]) \in Nat /\ o + Size(mem[o]) <= bytesUsed
      BY Sizes DEF IInv, Layout
    <3>2. bytesUsed \in Nat /\ bytesUsed <= DataSize /\ DataSize \in Nat
      BY SizeAssumption DEF IInv, Types
    <3>3. o <= bytesUsed
      BY <3>1, <3>2
    <3> QED BY <3>1, <3>2, <3>3, CellFacts DEF IInv
  <2> QED BY <2>1 DEF IInv, Types, Shape, Busy, TypeOK
<1>2. ASSUME NEW o \in DOMAIN mem, mem[o].kind = "bt", mem[o].prop # 0
      PROVE  mem[o].prop \in DOMAIN mem /\ ValueAt(mem[o].prop) # Garbage
  <2>1. PICK p : p = mem[o].prop
    OBVIOUS
  <2>2. p \in DOMAIN mem /\ mem[p].kind = "info"
    BY <1>2, <2>1 DEF IInv, Cells
  <2>3. mem[p] \in Infos /\ mem[p].val \in Values
    BY <2>2, CellFacts DEF IInv, Infos
  <2>4. mem[p].val # Garbage /\ mem[p].val.len \in Nat /\ ValueMax \in Nat
    BY <2>3, ValuesAssumption, SizeAssumption
  <2>5. CASE mem[p].val.len < ValueMax
    BY <2>1, <2>2, <2>4, <2>5 DEF ValueAt, Obj
  <2>6. CASE mem[p].val.len >= ValueMax
    <3>1. PICK q : q = p + mem[p].long
      OBVIOUS
    <3>2. q \in DOMAIN mem /\ mem[q].kind = "chars"
      BY <2>2, <2>6, <3>1 DEF IInv, Cells
    <3>3. mem[q] \in Chars
      BY <3>2, CellFacts DEF IInv
    <3>4. mem[q].val # Garbage
      BY <3>3, ValuesAssumption DEF Chars
    <3>5. ~(mem[p].val.len < ValueMax)
      BY <2>4, <2>6
    <3>6. ValueAt(p) = mem[q].val
      BY <2>2, <3>1, <3>2, <3>5 DEF ValueAt, Obj
    <3> QED BY <2>1, <2>2, <3>4, <3>6
  <2> QED BY <2>4, <2>5, <2>6
<1>3. PublishedComplete
  BY <1>2 DEF PublishedComplete, IInv, Cells, Layout, IsNode, Links
<1> QED BY <1>1, <1>3

-----------------------------------------------------------------------------
(* The trie as a map.  A search is for a prefix of a name at a time: the tokens so *)
(* far and the one of this level. *)
Prefixes == Seq(Tokens) \ {<<>>}
Pre(p, k) == SubSeq(p, 1, k)
Cut(p) == Pre(p, Len(p) - 1)
Tip(p) == p[Len(p)]

LEMMA PreFacts ==
    ASSUME NEW p \in Seq(Tokens), NEW k \in 0..Len(p)
    PROVE  /\ Pre(p, k) \in Seq(Tokens) /\ Len(Pre(p, k)) = k
           /\ \A i \in 1..k : Pre(p, k)[i] = p[i]
           /\ k > 0 => Pre(p, k) \in Prefixes
<1>0. Len(p) \in Nat /\ k \in Nat /\ k <= Len(p)
  OBVIOUS
<1>1. \A i \in 1..k : p[i] \in Tokens
  <2>1. \A i \in 1..Len(p) : p[i] \in Tokens
    BY ElementOfSeq
  <2> QED BY <1>0, <2>1
<1>2. /\ SubSeq(p, 1, k) \in Seq(Tokens)
      /\ Len(SubSeq(p, 1, k)) = IF 1 <= k THEN k - 1 + 1 ELSE 0
      /\ \A i \in 1..(k - 1 + 1) : SubSeq(p, 1, k)[i] = p[1 + i - 1]
  BY <1>0, <1>1, SubSeqProperties
<1>3. Len(SubSeq(p, 1, k)) = k
  BY <1>0, <1>2
<1>4. \A i \in 1..k : SubSeq(p, 1, k)[i] = p[i]
  BY <1>0, <1>2
<1>5. k > 0 => SubSeq(p, 1, k) # <<>>
  BY <1>0, <1>3
<1> QED BY <1>2, <1>3, <1>4, <1>5 DEF Pre, Prefixes

LEMMA PreEnds ==
    ASSUME NEW p \in Seq(Tokens)
    PROVE  Pre(p, 0) = <<>> /\ Pre(p, Len(p)) = p
<1>1. Len(p) \in Nat /\ Len(p) \in 0..Len(p) /\ 0 \in 0..Len(p)
  OBVIOUS
<1>2. Pre(p, 0) = <<>>
  BY SubSeqEmpty DEF Pre
<1>3. Pre(p, Len(p)) \in Seq(Tokens) /\ Len(Pre(p, Len(p))) = Len(p) /\ \A i \in 1..Len(p) : Pre(p, Len(p))[i] = p[i]
  BY <1>1, PreFacts
<1> QED BY <1>2, <1>3, SeqEqual

LEMMA PrefixLen ==
    ASSUME NEW p \in Prefixes
    PROVE  p \in Seq(Tokens) /\ Len(p) \in Nat /\ Len(p) > 0 /\ Tip(p) \in Tokens
<1>1. p \in Seq(Tokens) /\ p # <<>> /\ Len(p) \in Nat
  BY DEF Prefixes
<1>2. Len(p) # 0
  BY <1>1
<1>3. Len(p) \in 1..Len(p)
  BY <1>1, <1>2
<1>4. p[Len(p)] \in Tokens
  BY <1>1, <1>3, ElementOfSeq
<1> QED BY <1>1, <1>2, <1>4 DEF Tip

LEMMA CutFacts ==
    ASSUME NEW p \in Prefixes
    PROVE  /\ Cut(p) \in Seq(Tokens) /\ Cut(p) # p /\ Len(Cut(p)) = Len(p) - 1
           /\ \A i \in 1..(Len(p) - 1) : Cut(p)[i] = p[i]
<1>1. p \in Seq(Tokens) /\ Len(p) \in Nat /\ Len(p) > 0
  BY PrefixLen
<1>2. Len(p) - 1 \in 0..Len(p)
  BY <1>1
<1>3. /\ Pre(p, Len(p) - 1) \in Seq(Tokens) /\ Len(Pre(p, Len(p) - 1)) = Len(p) - 1
      /\ \A i \in 1..(Len(p) - 1) : Pre(p, Len(p) - 1)[i] = p[i]
  BY <1>1, <1>2, PreFacts
<1>4. Pre(p, Len(p) - 1) # p
  BY <1>1, <1>3
<1> QED BY <1>3, <1>4 DEF Cut

(* The prefixes of a prefix. *)
LEMMA PrePre ==
    ASSUME NEW p \in Seq(Tokens), NEW k \in 0..Len(p), NEW j \in 0..k
    PROVE  Pre(Pre(p, k), j) = Pre(p, j)
<1>0. Len(p) \in Nat /\ j \in 0..Len(p)
  OBVIOUS
<1>1. Pre(p, k) \in Seq(Tokens) /\ Len(Pre(p, k)) = k /\ \A i \in 1..k : Pre(p, k)[i] = p[i]
  BY PreFacts
<1>2. Pre(p, j) \in Seq(Tokens) /\ Len(Pre(p, j)) = j /\ \A i \in 1..j : Pre(p, j)[i] = p[i]
  BY <1>0, PreFacts
<1>q. PICK q : q = Pre(p, k)
  OBVIOUS
<1>3. Pre(q, j) \in Seq(Tokens) /\ Len(Pre(q, j)) = j /\ \A i \in 1..j : Pre(q, j)[i] = q[i]
  BY <1>1, <1>q, PreFacts
<1>4. \A i \in 1..j : Pre(q, j)[i] = Pre(p, j)[i]
  BY <1>1, <1>2, <1>3, <1>q
<1> QED BY <1>2, <1>3, <1>4, <1>q, SeqEqual

LEMMA PreTip ==
    ASSUME NEW p \in Seq(Tokens), NEW k \in 1..Len(p)
    PROVE  Pre(p, k) \in Prefixes /\ Tip(Pre(p, k)) = p[k] /\ Cut(Pre(p, k)) = Pre(p, k - 1) /\ Len(Pre(p, k)) = k
<1>0. Len(p) \in Nat /\ k \in 0..Len(p) /\ k > 0 /\ k - 1 \in 0..k /\ k \in 1..k
  OBVIOUS
<1>1. Pre(p, k) \in Prefixes /\ Len(Pre(p, k)) = k /\ \A i \in 1..k : Pre(p, k)[i] = p[i]
  BY <1>0, PreFacts
<1>2. Pre(Pre(p, k), k - 1) = Pre(p, k - 1)
  BY <1>0, PrePre
<1> QED BY <1>0, <1>1, <1>2 DEF Tip, Cut

(* The last token and what comes before it make the prefix. *)
LEMMA SamePrefix ==
    ASSUME NEW p \in Prefixes, NEW q \in Prefixes, Cut(p) = Cut(q), Tip(p) = Tip(q)
    PROVE  p = q
<1>1. p \in Seq(Tokens) /\ Len(p) \in Nat /\ Len(p) > 0 /\ q \in Seq(Tokens) /\ Len(q) \in Nat /\ Len(q) > 0
  BY PrefixLen
<1>2. Len(Cut(p)) = Len(p) - 1 /\ Len(Cut(q)) = Len(q) - 1
  BY CutFacts
<1>3. Len(p) = Len(q)
  BY <1>1, <1>2
<1>4. \A i \in 1..(Len(p) - 1) : Cut(p)[i] = p[i] /\ Cut(q)[i] = q[i]
  BY <1>3, CutFacts
<1>5. ASSUME NEW i \in 1..Len(p)
      PROVE  p[i] = q[i]
  <2>1. CASE i = Len(p)
    BY <1>3, <2>1 DEF Tip
  <2>2. CASE i # Len(p)
    BY <1>1, <1>4, <2>2
  <2> QED BY <2>1, <2>2
<1> QED BY <1>1, <1>3, <1>5, SeqEqual

(* The nodes of the trie: all but the one that is constructed and not yet linked. *)
Linked == {o \in DOMAIN mem : mem[o].kind = "bt" /\ ~\E m \in Mutators : th[m].pc = "linkBt" /\ th[m].new = o}

(* With N the prefix a node stands for and R the prefixes whose search passes by   *)
(* the node: those that go on along one of its links. *)
Via(N, R, o, f) ==
    {p \in Prefixes :
       IF f = "children" THEN Cut(p) = N[o]
       ELSE p \in R[o] /\ Tip(p) # Tip(N[o]) /\ (Before(Tip(p), Tip(N[o])) <=> f = "left")}

(* No two nodes stand for the same prefix, what stands before a prefix has a node, *)
(* and a search passes by nodes of one level at a time. *)
Paths(N, R, D) ==
    /\ 0 \in D /\ N[0] = <<>> /\ R[0] = {}
    /\ \A o \in D : o # 0 => N[o] \in Prefixes /\ N[o] \in R[o] /\ \E q \in D : N[q] = Cut(N[o])
    /\ \A o \in D : R[o] \subseteq Prefixes /\ \A p \in R[o] : Cut(p) = Cut(N[o])
    /\ \A o \in D : \A k \in 0..Len(N[o]) : \E q \in D : N[q] = Pre(N[o], k)
    /\ \A o, x \in D : N[o] = N[x] => o = x

(* A link that is set is where the search goes on; along one that is null there is *)
(* no node to be found, and a prefix is missed at one null link only. *)
Ways(N, R, D) ==
    /\ \A o \in D, f \in Links : mem[o][f] # 0 => mem[o][f] \in D /\ R[mem[o][f]] = Via(N, R, o, f)
    /\ \A o \in D, f \in Links : mem[o][f] = 0 => \A x \in D : N[x] \notin Via(N, R, o, f)
    /\ \A o, x \in D, f, h \in Links :
         mem[o][f] = 0 /\ mem[x][h] = 0 /\ (o # x \/ f # h) => Via(N, R, o, f) \cap Via(N, R, x, h) = {}

(* A node has the last token of its prefix, and a prop_info of that name; a node    *)
(* that is not linked has neither links nor a prop_info. *)
Labels(N, D) ==
    /\ \A o \in D : o # 0 => mem[o].name = Tip(N[o]) /\ mem[o].name.len > 0
    /\ \A o \in D : mem[o].prop # 0 => mem[mem[o].prop].name = N[o]
    /\ \A o \in DOMAIN mem : mem[o].kind = "bt" /\ o \notin D => mem[o].prop = 0 /\ \A f \in Links : mem[o][f] = 0

(* Where a search is, and what it has found out by then. *)
Infoing == {"allocInfo", "allocLong", "buildInfo", "linkInfo"}
Seek(N, R, r) ==
    r.pc \in Busy =>
      /\ r.name \in Names /\ r.pos \in 1..Len(r.name) /\ r.cur \in Linked
      /\ r.pc = "trie" => N[r.cur] = Pre(r.name, r.pos - 1)
      /\ r.pc = "bt" => Pre(r.name, r.pos) \in R[r.cur]
      /\ r.pc \in {"allocBt", "buildBt", "linkBt"} => Pre(r.name, r.pos) \in Via(N, R, r.cur, r.link)
      /\ r.pc = "linkBt" => mem[r.new].name = r.name[r.pos]
      /\ r.pc \in Infoing \cup {"prop", "reread", "clear"} => N[r.cur] = r.name
      /\ r.pc \in Infoing => mem[r.cur].prop = 0
      /\ r.pc = "linkInfo" => mem[r.new].name = r.name /\ mem[r.new].val = r.val

MapOf(N, R) ==
    /\ Paths(N, R, Linked) /\ Ways(N, R, Linked) /\ Labels(N, Linked)
    /\ \A t \in Threads : Seek(N, R, th[t])

LEMMA LinkedNodes ==
    ASSUME NEW o \in Linked
    PROVE  IsNode(o)
BY DEF Linked, IsNode

(* A step of one thread that leaves the objects alone. *)
LEMMA MapFrame ==
    ASSUME NEW N, NEW R, MapOf(N, R), NEW t \in Threads,
           \A u \in Threads : u # t => th'[u] = th[u], UNCHANGED mem,
           th[t].pc # "linkBt", th'[t].pc # "linkBt", Seek(N, R, th[t])'
    PROVE  MapOf(N, R)' /\ Linked' = Linked
<1>1. Linked' = Linked
  BY DEF Linked, Threads
<1>2. Paths(N, R, Linked)' /\ Ways(N, R, Linked)' /\ Labels(N, Linked)'
  BY <1>1 DEF MapOf, Paths, Ways, Labels
<1>3. ASSUME NEW u \in Threads
      PROVE  Seek(N, R, th[u])'
  <2>1. CASE u = t
    BY <2>1
  <2>2. CASE u # t
    BY <1>1, <2>2 DEF MapOf, Seek
  <2> QED BY <2>1, <2>2
<1> QED BY <1>1, <1>2, <1>3 DEF MapOf

LEMMA MapReturned ==
    ASSUME IInv, NEW N, NEW R, MapOf(N, R), NEW t \in Threads, NEW res, Return(t, res), UNCHANGED mem, th[t].pc # "linkBt"
    PROVE  MapOf(N, R)' /\ Linked' = Linked
<1> DEFINE r == [th[t] EXCEPT !.pc = "idle", !.name = NoName, !.res = res, !.met = FALSE]
<1>1. DOMAIN th' = Threads /\ th'[t] = r /\ \A u \in Threads : u # t => th'[u] = th[u]
  BY Goes DEF Return, IInv
<1>2. r.pc = "idle"
  BY DEF IInv, Types, Shape, Fields
<1> HIDE DEF r
<1>3. Seek(N, R, th[t])'
  BY <1>1, <1>2 DEF Seek, Busy
<1> QED BY <1>1, <1>2, <1>3, MapFrame

LEMMA MapFollowed ==
    ASSUME IInv, NEW N, NEW R, MapOf(N, R), NEW t \in Threads, NEW l \in Links, NEW off, Follow(t, off, l), UNCHANGED mem,
           th[t].pc \in {"trie", "bt"}, off = mem[th[t].cur][l],
           Pre(th[t].name, th[t].pos) \in Via(N, R, th[t].cur, l)
    PROVE  MapOf(N, R)' /\ Linked' = Linked
<1>s. Shape(th[t])
  BY DEF IInv, Types
<1>k. Seek(N, R, th[t]) /\ th[t].pc \in Busy /\ th[t].pc # "linkBt"
  BY DEF MapOf, Busy
<1>c. th[t].cur \in Linked /\ th[t].name \in Names /\ th[t].pos \in 1..Len(th[t].name)
  BY <1>k DEF Seek
<1>1. CASE off # 0
  <2> DEFINE r == [th[t] EXCEPT !.pc = "bt", !.cur = off]
  <2>1. DOMAIN th' = Threads /\ th'[t] = r /\ \A u \in Threads : u # t => th'[u] = th[u]
    BY <1>1, Goes DEF Follow, IInv
  <2>2. r.pc = "bt" /\ r.cur = off /\ r.name = th[t].name /\ r.pos = th[t].pos
    BY <1>s DEF Shape, Fields
  <2> HIDE DEF r
  <2>3. off \in Linked /\ R[off] = Via(N, R, th[t].cur, l)
    BY <1>1, <1>c DEF MapOf, Ways
  <2>4. Linked' = Linked
    BY <1>k, <2>1, <2>2 DEF Linked, Threads
  <2>5. Seek(N, R, th[t])'
    BY <1>c, <2>1, <2>2, <2>3, <2>4 DEF Seek, Infoing
  <2> QED BY <1>k, <2>1, <2>2, <2>5, MapFrame
<1>2. CASE off = 0 /\ th[t].op = "add"
  <2> DEFINE r == [th[t] EXCEPT !.pc = "allocBt", !.link = l]
  <2>1. DOMAIN th' = Threads /\ th'[t] = r /\ \A u \in Threads : u # t => th'[u] = th[u]
    BY <1>2, Goes DEF Follow, IInv
  <2>2. r.pc = "allocBt" /\ r.cur = th[t].cur /\ r.name = th[t].name /\ r.pos = th[t].pos /\ r.link = l
    BY <1>s DEF Shape, Fields
  <2> HIDE DEF r
  <2>4. Linked' = Linked
    BY <1>k, <2>1, <2>2 DEF Linked, Threads
  <2>5. Seek(N, R, th[t])'
    BY <1>c, <2>1, <2>2, <2>4 DEF Seek, Infoing
  <2> QED BY <1>k, <2>1, <2>2, <2>5, MapFrame
<1>3. CASE off = 0 /\ th[t].op # "add"
  BY <1>3, <1>k, MapReturned DEF Follow
<1> QED BY <1>1, <1>2, <1>3

(* What a search knows at a node. *)
LEMMA AtTrie ==
    ASSUME IInv, NEW N, NEW R, MapOf(N, R), NEW t \in Threads, th[t].pc = "trie"
    PROVE  /\ th[t].cur \in Linked /\ Obj(th[t].cur) = mem[th[t].cur]
           /\ Pre(th[t].name, th[t].pos) \in Via(N, R, th[t].cur, "children")
<1>1. /\ th[t].name \in Names /\ th[t].pos \in 1..Len(th[t].name) /\ th[t].cur \in Linked
      /\ N[th[t].cur] = Pre(th[t].name, th[t].pos - 1)
  BY DEF MapOf, Seek, Busy
<1>2. th[t].name \in Seq(Tokens)
  BY <1>1, NameFacts
<1>3. Pre(th[t].name, th[t].pos) \in Prefixes /\ Cut(Pre(th[t].name, th[t].pos)) = Pre(th[t].name, th[t].pos - 1)
  BY <1>1, <1>2, PreTip
<1>4. th[t].cur \in DOMAIN mem
  BY <1>1 DEF Linked
<1> QED BY <1>1, <1>3, <1>4 DEF Via, Obj

LEMMA AtBt ==
    ASSUME IInv, NEW N, NEW R, MapOf(N, R), NEW t \in Threads, th[t].pc = "bt"
    PROVE  /\ th[t].cur \in Linked /\ Obj(th[t].cur) = mem[th[t].cur]
           /\ Token(t) = mem[th[t].cur].name => Pre(th[t].name, th[t].pos) = N[th[t].cur]
           /\ Token(t) # mem[th[t].cur].name /\ Before(Token(t), mem[th[t].cur].name) =>
                Pre(th[t].name, th[t].pos) \in Via(N, R, th[t].cur, "left")
           /\ Token(t) # mem[th[t].cur].name /\ ~Before(Token(t), mem[th[t].cur].name) =>
                Pre(th[t].name, th[t].pos) \in Via(N, R, th[t].cur, "right")
<1>1. /\ th[t].name \in Names /\ th[t].pos \in 1..Len(th[t].name) /\ th[t].cur \in Linked
      /\ Pre(th[t].name, th[t].pos) \in R[th[t].cur]
  BY DEF MapOf, Seek, Busy
<1>2. th[t].name \in Seq(Tokens)
  BY <1>1, NameFacts
<1>c. PICK c : c = th[t].cur
  OBVIOUS
<1>p. PICK p : p = Pre(th[t].name, th[t].pos)
  OBVIOUS
<1>3. p \in Prefixes /\ Tip(p) = Token(t)
  BY <1>1, <1>2, <1>p, PreTip DEF Token
<1>4. c # 0 /\ c \in DOMAIN mem
  BY <1>1, <1>c DEF Linked, MapOf, Paths
<1>5. N[c] \in Prefixes /\ N[c] \in R[c] /\ Cut(p) = Cut(N[c]) /\ mem[c].name = Tip(N[c])
  BY <1>1, <1>4, <1>c, <1>p DEF MapOf, Paths, Labels
<1>6. Token(t) = mem[c].name => p = N[c]
  BY <1>3, <1>5, SamePrefix
<1>7. Token(t) # mem[c].name /\ Before(Token(t), mem[c].name) => p \in Via(N, R, c, "left")
  BY <1>1, <1>3, <1>5, <1>c, <1>p DEF Via
<1>8. Token(t) # mem[c].name /\ ~Before(Token(t), mem[c].name) => p \in Via(N, R, c, "right")
  BY <1>1, <1>3, <1>5, <1>c, <1>p DEF Via
<1> QED BY <1>1, <1>4, <1>6, <1>7, <1>8, <1>c, <1>p DEF Obj

LEMMA TrieLevelMaps ==
    ASSUME IInv, NEW N, NEW R, MapOf(N, R), NEW t \in Threads, TrieLevel(t)
    PROVE  MapOf(N, R)' /\ Linked' = Linked
<1>0. th[t].pc = "trie" /\ UNCHANGED mem
  BY DEF TrieLevel
<1>1. /\ th[t].cur \in Linked /\ Obj(th[t].cur) = mem[th[t].cur]
      /\ Pre(th[t].name, th[t].pos) \in Via(N, R, th[t].cur, "children")
  BY <1>0, AtTrie
<1>2. CASE Token(t).len = 0
  <2>1. Return(t, Unbound)
    BY <1>2 DEF TrieLevel
  <2> QED BY <1>0, <2>1, MapReturned
<1>3. CASE Token(t).len # 0
  <2>1. Follow(t, mem[th[t].cur]["children"], "children")
    BY <1>1, <1>3 DEF TrieLevel
  <2>2. "children" \in Links
    BY DEF Links
  <2> QED BY <1>0, <1>1, <2>1, <2>2, MapFollowed
<1> QED BY <1>2, <1>3

LEMMA BtLevelMaps ==
    ASSUME IInv, NEW N, NEW R, MapOf(N, R), NEW t \in Threads, BtLevel(t)
    PROVE  MapOf(N, R)' /\ Linked' = Linked
<1>0. th[t].pc = "bt" /\ UNCHANGED mem /\ Shape(th[t])
  BY DEF BtLevel, IInv, Types
<1>c. PICK c : c = th[t].cur
  OBVIOUS
<1>p. PICK p : p = Pre(th[t].name, th[t].pos)
  OBVIOUS
<1>1. /\ c \in Linked /\ Obj(c) = mem[c]
      /\ Token(t) = mem[c].name => p = N[c]
      /\ Token(t) # mem[c].name /\ Before(Token(t), mem[c].name) => p \in Via(N, R, c, "left")
      /\ Token(t) # mem[c].name /\ ~Before(Token(t), mem[c].name) => p \in Via(N, R, c, "right")
  BY <1>0, <1>c, <1>p, AtBt
<1>n. th[t].name \in Names /\ th[t].pos \in 1..Len(th[t].name) /\ th[t].name \in Seq(Tokens) /\ Len(th[t].name) \in Nat
  BY <1>0, NameFacts DEF MapOf, Seek, Busy
<1>2. CASE Token(t) = mem[c].name /\ th[t].pos = Len(th[t].name)
  <2> DEFINE r == [th[t] EXCEPT !.pc = IF th[t].op = "del" THEN "clear" ELSE "prop"]
  <2>1. DOMAIN th' = Threads /\ th'[t] = r /\ \A u \in Threads : u # t => th'[u] = th[u]
    BY <1>1, <1>2, <1>c, Goes DEF BtLevel, IInv
  <2>2. r.pc \in {"clear", "prop"} /\ r.cur = c /\ r.name = th[t].name /\ r.pos = th[t].pos
    BY <1>0, <1>c DEF Shape, Fields
  <2> HIDE DEF r
  <2>3. N[c] = th[t].name
    BY <1>1, <1>2, <1>n, <1>p, PreEnds
  <2>4. Linked' = Linked
    BY <1>0, <2>1, <2>2 DEF Linked, Threads
  <2>5. Seek(N, R, th[t])'
    BY <1>1, <1>n, <2>1, <2>2, <2>3, <2>4 DEF Seek, Infoing
  <2> QED BY <1>0, <2>1, <2>2, <2>5, MapFrame
<1>3. CASE Token(t) = mem[c].name /\ th[t].pos # Len(th[t].name)
  <2> DEFINE r == [th[t] EXCEPT !.pc = "trie", !.pos = th[t].pos + 1]
  <2>1. DOMAIN th' = Threads /\ th'[t] = r /\ \A u \in Threads : u # t => th'[u] = th[u]
    BY <1>1, <1>3, <1>c, Goes DEF BtLevel, IInv
  <2>2. r.pc = "trie" /\ r.cur = c /\ r.name = th[t].name /\ r.pos = th[t].pos + 1
    BY <1>0, <1>c DEF Shape, Fields
  <2> HIDE DEF r
  <2>3. r.pos \in 1..Len(r.name) /\ r.pos - 1 = th[t].pos
    BY <1>3, <1>n, <2>2
  <2>4. Linked' = Linked
    BY <1>0, <2>1, <2>2 DEF Linked, Threads
  <2>5. Seek(N, R, th[t])'
    BY <1>1, <1>3, <1>n, <1>p, <2>1, <2>2, <2>3, <2>4 DEF Seek, Infoing
  <2> QED BY <1>0, <2>1, <2>2, <2>5, MapFrame
<1>4. CASE Token(t) # mem[c].name
  <2>1. \/ Follow(t, mem[c]["left"], "left") /\ p \in Via(N, R, c, "left")
        \/ Follow(t, mem[c]["right"], "right") /\ p \in Via(N, R, c, "right")
    BY <1>1, <1>4, <1>c DEF BtLevel
  <2>2. "left" \in Links /\ "right" \in Links
    BY DEF Links
  <2>3. CASE Follow(t, mem[c]["left"], "left") /\ p \in Via(N, R, c, "left")
    BY <1>0, <1>c, <1>p, <2>2, <2>3, MapFollowed
  <2>4. CASE Follow(t, mem[c]["right"], "right") /\ p \in Via(N, R, c, "right")
    BY <1>0, <1>c, <1>p, <2>2, <2>4, MapFollowed
  <2> QED BY <2>1, <2>3, <2>4
<1> QED BY <1>2, <1>3, <1>4

LEMMA BeginsMap ==
    ASSUME IInv, NEW N, NEW R, MapOf(N, R), NEW t \in Threads, FindBegin(t) \/ AddBegin(t) \/ DelBegin(t)
    PROVE  MapOf(N, R)' /\ Linked' = Linked
<1>0. th[t].pc = "idle" /\ UNCHANGED mem
  BY DEF FindBegin, AddBegin, DelBegin
<1>1. PICK r : Go(t, r) /\ r.pc = "trie" /\ r.pos = 1 /\ r.cur = 0 /\ r.name \in Names
  <2>1. CASE FindBegin(t) \/ DelBegin(t)
    <3>1. PICK n \in Names, o \in {"find", "del"} : Go(t, [Idle EXCEPT !.pc = "trie", !.op = o, !.name = n])
      BY <2>1 DEF FindBegin, DelBegin
    <3> DEFINE r == [Idle EXCEPT !.pc = "trie", !.op = o, !.name = n]
    <3>2. r.pc = "trie" /\ r.name = n /\ r.pos = 1 /\ r.cur = 0
      BY DEF Idle
    <3> HIDE DEF r
    <3>3. Go(t, r)
      BY <3>1 DEF r
    <3> QED BY <3>2, <3>3
  <2>2. CASE AddBegin(t)
    <3>1. PICK n \in Names, v \in Values : Go(t, [Idle EXCEPT !.pc = "trie", !.op = "add", !.name = n, !.val = v])
      BY <2>2 DEF AddBegin
    <3> DEFINE r == [Idle EXCEPT !.pc = "trie", !.op = "add", !.name = n, !.val = v]
    <3>2. r.pc = "trie" /\ r.name = n /\ r.pos = 1 /\ r.cur = 0
      BY DEF Idle
    <3> HIDE DEF r
    <3>3. Go(t, r)
      BY <3>1 DEF r
    <3> QED BY <3>2, <3>3
  <2> QED BY <2>1, <2>2
<1>2. DOMAIN th' = Threads /\ th'[t] = r /\ \A u \in Threads : u # t => th'[u] = th[u]
  BY <1>1, Goes DEF IInv
<1>3. 1 \in 1..Len(r.name) /\ Pre(r.name, 0) = <<>>
  BY <1>1, NameFacts, PreEnds
<1>4. Linked' = Linked
  BY <1>0, <1>1, <1>2 DEF Linked, Threads
<1>5. 0 \in Linked /\ N[0] = <<>>
  BY DEF MapOf, Paths
<1>6. Seek(N, R, th[t])'
  BY <1>1, <1>2, <1>3, <1>4, <1>5 DEF Seek, Infoing
<1> QED BY <1>0, <1>1, <1>2, <1>6, MapFrame

LEMMA LoadPropMaps ==
    ASSUME IInv, NEW N, NEW R, MapOf(N, R), NEW t \in Threads, LoadProp(t)
    PROVE  MapOf(N, R)' /\ Linked' = Linked
<1>0. th[t].pc = "prop" /\ UNCHANGED mem /\ Shape(th[t])
  BY DEF LoadProp, IInv, Types
<1>k. /\ th[t].name \in Names /\ th[t].pos \in 1..Len(th[t].name) /\ th[t].cur \in Linked /\ N[th[t].cur] = th[t].name
      /\ Obj(th[t].cur) = mem[th[t].cur]
  BY <1>0 DEF MapOf, Seek, Busy, Linked, Obj
<1>1. CASE Return(t, Unbound)
  BY <1>0, <1>1, MapReturned
<1>2. ASSUME NEW p \in {"reread", "allocInfo"}, Go(t, [th[t] EXCEPT !.pc = p]), p = "allocInfo" => mem[th[t].cur].prop = 0
      PROVE  MapOf(N, R)' /\ Linked' = Linked
  <2> DEFINE r == [th[t] EXCEPT !.pc = p]
  <2>1. DOMAIN th' = Threads /\ th'[t] = r /\ \A u \in Threads : u # t => th'[u] = th[u]
    BY <1>2, Goes DEF IInv
  <2>2. r.pc = p /\ r.cur = th[t].cur /\ r.name = th[t].name /\ r.pos = th[t].pos
    BY <1>0 DEF Shape, Fields
  <2> HIDE DEF r
  <2>3. Linked' = Linked
    BY <1>0, <2>1, <2>2 DEF Linked, Threads
  <2>4. Seek(N, R, th[t])'
    BY <1>0, <1>k, <1>2, <2>1, <2>2, <2>3 DEF Seek, Infoing
  <2> QED BY <1>0, <2>1, <2>2, <2>4, MapFrame
<1> QED BY <1>k, <1>1, <1>2 DEF LoadProp

LEMMA RereadPropMaps ==
    ASSUME IInv, NEW N, NEW R, MapOf(N, R), NEW t \in Threads, RereadProp(t)
    PROVE  MapOf(N, R)' /\ Linked' = Linked
BY MapReturned DEF RereadProp

LEMMA ForeachMaps ==
    ASSUME IInv, NEW N, NEW R, MapOf(N, R), NEW t \in Threads, ForeachBegin(t) \/ ForeachStep(t) \/ ForeachEnd(t)
    PROVE  MapOf(N, R)' /\ Linked' = Linked
<1>0. UNCHANGED mem /\ Shape(th[t]) /\ th[t].pc # "linkBt"
  BY DEF ForeachBegin, ForeachStep, ForeachEnd, IInv, Types
<1>1. PICK r : Go(t, r) /\ r.pc \in {"idle", "foreach"}
  <2>1. CASE ForeachBegin(t)
    <3>1. PICK res, stack, keep : Go(t, [Idle EXCEPT !.pc = "foreach", !.op = "foreach", !.res = res, !.stack = stack, !.keep = keep])
      BY <2>1 DEF ForeachBegin
    <3> DEFINE r == [Idle EXCEPT !.pc = "foreach", !.op = "foreach", !.res = res, !.stack = stack, !.keep = keep]
    <3>2. r.pc = "foreach"
      BY DEF Idle
    <3> HIDE DEF r
    <3>3. Go(t, r)
      BY <3>1 DEF r
    <3> QED BY <3>2, <3>3
  <2>2. CASE ForeachStep(t)
    <3>1. th[t].pc = "foreach" /\ \E stack, seen : Go(t, [th[t] EXCEPT !.stack = stack, !.seen = seen])
      BY <2>2 DEF ForeachStep
    <3>2. PICK stack, seen : Go(t, [th[t] EXCEPT !.stack = stack, !.seen = seen])
      BY <3>1
    <3> DEFINE r == [th[t] EXCEPT !.stack = stack, !.seen = seen]
    <3>3. r.pc = "foreach"
      BY <1>0, <3>1 DEF Shape, Fields
    <3> HIDE DEF r
    <3>4. Go(t, r)
      BY <3>2 DEF r
    <3> QED BY <3>3, <3>4
  <2>3. CASE ForeachEnd(t)
    <3> DEFINE r == [th[t] EXCEPT !.pc = "idle", !.seen = <<>>, !.keep = {}, !.met = FALSE]
    <3>1. r.pc = "idle"
      BY <1>0 DEF Shape, Fields
    <3> HIDE DEF r
    <3>2. Go(t, r)
      BY <2>3 DEF r, ForeachEnd
    <3> QED BY <3>1, <3>2
  <2> QED BY <2>1, <2>2, <2>3
<1>2. DOMAIN th' = Threads /\ th'[t] = r /\ \A u \in Threads : u # t => th'[u] = th[u]
  BY <1>1, Goes DEF IInv
<1>3. Seek(N, R, th[t])'
  BY <1>1, <1>2 DEF Seek, Busy
<1> QED BY <1>0, <1>1, <1>2, <1>3, MapFrame

(* A reservation moves the search on and stores nothing. *)
LEMMA AllocateMaps ==
    ASSUME IInv, NEW N, NEW R, MapOf(N, R), NEW t \in Threads, AllocateBt(t) \/ AllocateInfo(t) \/ AllocateLong(t)
    PROVE  MapOf(N, R)' /\ Linked' = Linked
<1>0. UNCHANGED mem /\ Shape(th[t]) /\ th[t].pc \in {"allocBt", "allocInfo", "allocLong"}
  BY DEF AllocateBt, AllocateInfo, AllocateLong, IInv, Types
<1>1. CASE \E res : Return(t, res)
  BY <1>0, <1>1, MapReturned
<1>2. ASSUME NEW r, Go(t, r), r.cur = th[t].cur, r.name = th[t].name, r.pos = th[t].pos, r.link = th[t].link,
             \/ th[t].pc = "allocBt" /\ r.pc = "buildBt"
             \/ th[t].pc # "allocBt" /\ r.pc \in {"allocLong", "buildInfo"}
      PROVE  MapOf(N, R)' /\ Linked' = Linked
  <2>1. DOMAIN th' = Threads /\ th'[t] = r /\ \A u \in Threads : u # t => th'[u] = th[u]
    BY <1>2, Goes DEF IInv
  <2>2. Linked' = Linked
    BY <1>0, <1>2, <2>1 DEF Linked, Threads
  <2>3. Seek(N, R, th[t]) /\ th[t].pc \in Busy
    BY <1>0 DEF MapOf, Busy
  <2>4. Seek(N, R, th[t])'
    BY <1>0, <1>2, <2>1, <2>2, <2>3 DEF Seek, Infoing
  <2> QED BY <1>0, <1>2, <2>1, <2>4, MapFrame
<1>3. CASE AllocateBt(t)
  <2> DEFINE r == [th[t] EXCEPT !.pc = "buildBt", !.new = bytesUsed]
  <2>1. Go(t, r) \/ Return(t, Unbound)
    BY <1>3 DEF AllocateBt, Allocate
  <2>2. r.pc = "buildBt" /\ r.cur = th[t].cur /\ r.name = th[t].name /\ r.pos = th[t].pos /\ r.link = th[t].link
    BY <1>0 DEF Shape, Fields
  <2>3. th[t].pc = "allocBt"
    BY <1>3 DEF AllocateBt
  <2> HIDE DEF r
  <2> QED BY <1>1, <1>2, <2>1, <2>2, <2>3
<1>4. CASE AllocateInfo(t)
  <2> DEFINE p == IF th[t].val.len >= ValueMax THEN "allocLong" ELSE "buildInfo"
             r == [th[t] EXCEPT !.new = bytesUsed, !.pc = p]
  <2>1. Go(t, r) \/ Return(t, Unbound)
    BY <1>4 DEF AllocateInfo, Allocate
  <2>2. r.pc \in {"allocLong", "buildInfo"} /\ r.cur = th[t].cur /\ r.name = th[t].name /\ r.pos = th[t].pos /\ r.link = th[t].link
    BY <1>0 DEF Shape, Fields
  <2>3. th[t].pc # "allocBt"
    BY <1>4 DEF AllocateInfo
  <2> HIDE DEF r
  <2> QED BY <1>1, <1>2, <2>1, <2>2, <2>3
<1>5. CASE AllocateLong(t)
  <2> DEFINE r == [th[t] EXCEPT !.pc = "buildInfo", !.long = bytesUsed]
  <2>1. Go(t, r) \/ Return(t, Unbound)
    BY <1>5 DEF AllocateLong, Allocate
  <2>2. r.pc = "buildInfo" /\ r.cur = th[t].cur /\ r.name = th[t].name /\ r.pos = th[t].pos /\ r.link = th[t].link
    BY <1>0 DEF Shape, Fields
  <2>3. th[t].pc # "allocBt"
    BY <1>5 DEF AllocateLong
  <2> HIDE DEF r
  <2> QED BY <1>1, <1>2, <2>1, <2>2, <2>3
<1> QED BY <1>3, <1>4, <1>5

-----------------------------------------------------------------------------
(* The stores, as they look to the trie. *)

(* Where a find() may be, and that it misses the prop_info of its node only after  *)
(* a del() of its name. *)
Reading(r) ==
    /\ r.pc \in {"idle", "foreach", "trie", "bt", "prop", "reread"} /\ r.met \in BOOLEAN
    /\ r.pc = "foreach" => r.op = "foreach"
    /\ r.pc \in Busy => r.op = "find"
    /\ r.pc = "reread" /\ mem[r.cur].prop = 0 => r.met = TRUE
Readings == \A r \in Readers : Reading(th[r])

(* The chars of a long value are the value. *)
Texts ==
    \A o \in DOMAIN mem : mem[o].kind = "info" /\ mem[o].val.len >= ValueMax =>
        mem[o + mem[o].long].val = mem[o].val

(* The node at o is written, in its prop and links only. *)
Written(o) ==
    /\ o \in DOMAIN mem /\ DOMAIN mem' = DOMAIN mem /\ mem[o].kind = "bt" /\ mem'[o].kind = "bt"
    /\ mem'[o].name = mem[o].name
    /\ \A p \in DOMAIN mem : p # o => mem'[p] = mem[p]

LEMMA PropWritten ==
    ASSUME IInv, NEW o, IsNode(o), NEW n \in Nat, mem' = Put(o, [Obj(o) EXCEPT !.prop = n])
    PROVE  Written(o) /\ mem'[o].prop = n /\ \A f \in Links : mem'[o][f] = mem[o][f]
<1>1. mem[o] \in Bts /\ Obj(o) = mem[o] /\ o \in DOMAIN mem /\ mem[o].kind = "bt"
  BY CellFacts DEF IInv, IsNode, Obj
<1>c. PICK c : c = [mem[o] EXCEPT !.prop = n]
  OBVIOUS
<1>2. c \in Bts /\ c.name = mem[o].name /\ c.prop = n /\ \A f \in Links : c[f] = mem[o][f]
  BY <1>1, <1>c, BtBound
<1>3. DOMAIN mem' = DOMAIN mem \cup {o} /\ mem'[o] = c /\ \A p \in DOMAIN mem : p # o => mem'[p] = mem[p]
  BY <1>1, <1>c, Puts
<1>4. c.kind = "bt"
  BY <1>2, BtFields
<1> QED BY <1>1, <1>2, <1>3, <1>4 DEF Written

LEMMA LinkWritten ==
    ASSUME IInv, NEW o, IsNode(o), NEW n \in Nat, NEW l \in Links, mem' = Put(o, [Obj(o) EXCEPT ![l] = n])
    PROVE  /\ Written(o) /\ mem'[o].prop = mem[o].prop
           /\ \A f \in Links : mem'[o][f] = IF f = l THEN n ELSE mem[o][f]
<1>1. mem[o] \in Bts /\ Obj(o) = mem[o] /\ o \in DOMAIN mem /\ mem[o].kind = "bt"
  BY CellFacts DEF IInv, IsNode, Obj
<1> DEFINE b == mem[o]
           c == [b EXCEPT ![l] = n]
<1>c. c = [mem[o] EXCEPT ![l] = n] /\ b = mem[o]
  OBVIOUS
<1>2. c \in Bts /\ c.name = b.name /\ c.prop = b.prop /\ \A f \in Links : c[f] = IF f = l THEN n ELSE b[f]
  BY <1>1, BtLinked
<1> HIDE DEF b, c
<1>3. DOMAIN mem' = DOMAIN mem \cup {o} /\ mem'[o] = c /\ \A p \in DOMAIN mem : p # o => mem'[p] = mem[p]
  BY <1>1, <1>c, Puts
<1>4. c.kind = "bt"
  BY <1>2, BtFields
<1> QED BY <1>1, <1>2, <1>3, <1>4, <1>c DEF Written

LinkBtEffect(t) ==
    /\ th[t].pc = "linkBt" /\ Written(th[t].cur) /\ mem'[th[t].cur].prop = mem[th[t].cur].prop
    /\ \A f \in Links : mem'[th[t].cur][f] = IF f = th[t].link THEN th[t].new ELSE mem[th[t].cur][f]
    /\ th[t].link \in Links /\ mem[th[t].cur][th[t].link] = 0 /\ IsNode(th[t].new)
    /\ th'[t].pc = "bt" /\ th'[t].cur = th[t].new /\ th'[t].name = th[t].name /\ th'[t].pos = th[t].pos
    /\ \A u \in Threads : u # t => th'[u] = th[u]

LEMMA LinkBtDoes ==
    ASSUME IInv, NEW t \in Mutators, LinkBt(t)
    PROVE  LinkBtEffect(t)
<1>t. t \in Threads
  BY DEF Threads
<1>0. th[t].pc = "linkBt" /\ Shape(th[t]) /\ Work(th[t]) /\ th[t].pc \in Busy
  BY <1>t DEF LinkBt, IInv, Types, Working, Busy
<1>1. IsNode(th[t].cur) /\ th[t].link \in Links /\ mem[th[t].cur][th[t].link] = 0 /\ IsNode(th[t].new)
  BY <1>0 DEF Work
<1>2. th[t].new \in Nat
  BY <1>1 DEF IInv, Cells, IsNode
<1>3. PICK o, l, n : o = th[t].cur /\ l = th[t].link /\ n = th[t].new
  OBVIOUS
<1>m. mem' = Put(o, [Obj(o) EXCEPT ![l] = n])
  BY <1>3 DEF LinkBt
<1>w. Written(o) /\ mem'[o].prop = mem[o].prop /\ \A f \in Links : mem'[o][f] = IF f = l THEN n ELSE mem[o][f]
  <2>1. IsNode(o) /\ n \in Nat /\ l \in Links
    BY <1>1, <1>2, <1>3
  <2> HIDE DEF Written
  <2> QED BY <1>m, <2>1, LinkWritten
<1>4. /\ Written(th[t].cur) /\ mem'[th[t].cur].prop = mem[th[t].cur].prop
      /\ \A f \in Links : mem'[th[t].cur][f] = IF f = th[t].link THEN th[t].new ELSE mem[th[t].cur][f]
  BY <1>3, <1>w
<1> DEFINE r == [th[t] EXCEPT !.pc = "bt", !.cur = th[t].new]
<1>5. r.pc = "bt" /\ r.cur = th[t].new /\ r.name = th[t].name /\ r.pos = th[t].pos
  BY <1>0 DEF Shape, Fields
<1>6. Go(t, r)
  BY DEF LinkBt
<1> HIDE DEF r
<1>7. th'[t] = r /\ \A u \in Threads : u # t => th'[u] = th[u]
  BY <1>6, <1>t, Goes DEF IInv
<1> QED BY <1>0, <1>1, <1>4, <1>5, <1>7 DEF LinkBtEffect

LinkInfoEffect(t) ==
    /\ th[t].pc = "linkInfo" /\ Written(th[t].cur) /\ mem'[th[t].cur].prop = th[t].new
    /\ \A f \in Links : mem'[th[t].cur][f] = mem[th[t].cur][f]
    /\ th[t].new \in DOMAIN mem /\ mem[th[t].new].kind = "info" /\ th[t].val \in Values
    /\ th'[t].pc = "idle" /\ \A u \in Threads : u # t => th'[u] = th[u]

LEMMA LinkInfoDoes ==
    ASSUME IInv, NEW t \in Mutators, LinkInfo(t)
    PROVE  LinkInfoEffect(t)
<1>t. t \in Threads
  BY DEF Threads
<1>0. th[t].pc = "linkInfo" /\ Shape(th[t]) /\ Work(th[t]) /\ th[t].pc \in Busy
  BY <1>t DEF LinkInfo, IInv, Types, Working, Busy
<1>1. IsNode(th[t].cur) /\ th[t].new \in DOMAIN mem /\ mem[th[t].new].kind = "info" /\ th[t].val \in Values
  BY <1>0 DEF Work
<1>2. th[t].new \in Nat
  BY <1>1 DEF IInv, Cells
<1>3. mem' = Put(th[t].cur, [Obj(th[t].cur) EXCEPT !.prop = th[t].new])
  BY DEF LinkInfo
<1>4. Written(th[t].cur) /\ mem'[th[t].cur].prop = th[t].new /\ \A f \in Links : mem'[th[t].cur][f] = mem[th[t].cur][f]
  BY <1>1, <1>2, <1>3, PropWritten
<1> DEFINE r == [th[t] EXCEPT !.pc = "idle", !.name = NoName, !.res = th[t].val, !.met = FALSE]
<1>5. r.pc = "idle"
  BY <1>0 DEF Shape, Fields
<1>6. Go(t, r)
  BY DEF LinkInfo, Return
<1> HIDE DEF r
<1>7. th'[t] = r /\ \A u \in Threads : u # t => th'[u] = th[u]
  BY <1>6, <1>t, Goes DEF IInv
<1> QED BY <1>0, <1>1, <1>4, <1>5, <1>7 DEF LinkInfoEffect

ClearPropEffect(t) ==
    /\ th[t].pc = "clear" /\ Written(th[t].cur) /\ mem'[th[t].cur].prop = 0
    /\ \A f \in Links : mem'[th[t].cur][f] = mem[th[t].cur][f]
    /\ th'[t].pc = "idle"
    /\ \A u \in Threads : u # t =>
         /\ th'[u] = [th[u] EXCEPT !.met = th[u].met \/ th[u].name = th[t].name \/ th[u].op = "foreach",
                                   !.keep = th[u].keep \ {th[t].name}]
         /\ \A x \in Fields \ {"met", "keep"} : th'[u][x] = th[u][x]
         /\ th'[u].met = (th[u].met \/ th[u].name = th[t].name \/ th[u].op = "foreach")
         /\ th'[u].keep = th[u].keep \ {th[t].name}

LEMMA ClearPropDoes ==
    ASSUME IInv, NEW t \in Mutators, ClearProp(t)
    PROVE  ClearPropEffect(t)
<1>t. t \in Threads
  BY DEF Threads
<1>0. /\ th[t].pc = "clear" /\ Work(th[t]) /\ th[t].pc \in Busy
      /\ DOMAIN th = Threads /\ \A u \in Threads : Shape(th[u])
  BY <1>t DEF ClearProp, IInv, Types, Working, Busy
<1>1. IsNode(th[t].cur)
  BY <1>0 DEF Work
<1>3. mem' = Put(th[t].cur, [Obj(th[t].cur) EXCEPT !.prop = 0])
  BY DEF ClearProp
<1>4. Written(th[t].cur) /\ mem'[th[t].cur].prop = 0 /\ \A f \in Links : mem'[th[t].cur][f] = mem[th[t].cur][f]
  BY <1>1, <1>3, PropWritten
<1>5. /\ th'[t] = [th[t] EXCEPT !.pc = "idle", !.name = NoName]
      /\ \A u \in Threads : u # t =>
           th'[u] = [th[u] EXCEPT !.met = th[u].met \/ th[u].name = th[t].name \/ th[u].op = "foreach",
                                  !.keep = th[u].keep \ {th[t].name}]
  BY <1>t DEF ClearProp
<1>6. th'[t].pc = "idle"
  BY <1>0, <1>5, <1>t DEF Shape, Fields
<1>7. ASSUME NEW u \in Threads, u # t
      PROVE  /\ \A x \in Fields \ {"met", "keep"} : th'[u][x] = th[u][x]
             /\ th'[u].met = (th[u].met \/ th[u].name = th[t].name \/ th[u].op = "foreach")
             /\ th'[u].keep = th[u].keep \ {th[t].name}
  <2>1. PICK m, k : m = (th[u].met \/ th[u].name = th[t].name \/ th[u].op = "foreach") /\ k = th[u].keep \ {th[t].name}
    OBVIOUS
  <2>2. th'[u] = [th[u] EXCEPT !.met = m, !.keep = k] /\ DOMAIN th[u] = Fields
    BY <1>0, <1>5, <1>7, <2>1 DEF Shape
  <2>3. \A x \in Fields \ {"met", "keep"} : th'[u][x] = th[u][x]
    BY <2>2
  <2>4. "met" \in Fields /\ "keep" \in Fields
    BY DEF Fields
  <2>5. th'[u].met = m /\ th'[u].keep = k
    BY <2>2, <2>4
  <2> QED BY <2>1, <2>3, <2>5
<1> QED BY <1>0, <1>4, <1>5, <1>6, <1>7 DEF ClearPropEffect

BuildBtEffect(t) ==
    /\ th[t].pc = "buildBt" /\ th[t].new \notin DOMAIN mem /\ DOMAIN mem' = DOMAIN mem \cup {th[t].new}
    /\ \A p \in DOMAIN mem : mem'[p] = mem[p]
    /\ mem'[th[t].new].kind = "bt" /\ mem'[th[t].new].name = th[t].name[th[t].pos] /\ mem'[th[t].new].prop = 0
    /\ \A f \in Links : mem'[th[t].new][f] = 0
    /\ th'[t].pc = "linkBt" /\ th'[t].cur = th[t].cur /\ th'[t].name = th[t].name /\ th'[t].pos = th[t].pos
    /\ th'[t].new = th[t].new /\ th'[t].link = th[t].link
    /\ \A u \in Threads : u # t => th'[u] = th[u]

LEMMA BuildBtDoes ==
    ASSUME IInv, NEW t \in Mutators, BuildBt(t)
    PROVE  BuildBtEffect(t)
<1>t. t \in Threads
  BY DEF Threads
<1>0. th[t].pc = "buildBt" /\ Shape(th[t]) /\ Work(th[t]) /\ th[t].pc \in Busy
  BY <1>t DEF BuildBt, IInv, Types, Working, Busy
<1>1. th[t].name \in Names /\ th[t].pos \in 1..Len(th[t].name) /\ Room(th[t].new, BtSize + th[t].name[th[t].pos].len + 1)
  BY <1>0 DEF Work
<1>2. th[t].new \notin DOMAIN mem /\ Token(t) \in Tokens
  BY <1>1, RoomIsFree, NameFacts DEF IInv, Token
<1>b. PICK b : b = prop_bt(Token(t))
  OBVIOUS
<1>3. b \in Bts /\ b.name = Token(t) /\ b.prop = 0 /\ b.kind = "bt" /\ \A f \in Links : b[f] = 0
  BY <1>2, <1>b, BtNew, BtFields
<1>4. DOMAIN mem' = DOMAIN mem \cup {th[t].new} /\ mem'[th[t].new] = b /\ \A p \in DOMAIN mem : p # th[t].new => mem'[p] = mem[p]
  BY <1>b, Puts DEF BuildBt
<1> DEFINE r == [th[t] EXCEPT !.pc = "linkBt"]
<1>5. r.pc = "linkBt" /\ r.cur = th[t].cur /\ r.name = th[t].name /\ r.pos = th[t].pos /\ r.new = th[t].new /\ r.link = th[t].link
  BY <1>0 DEF Shape, Fields
<1>6. Go(t, r)
  BY DEF BuildBt
<1> HIDE DEF r
<1>7. th'[t] = r /\ \A u \in Threads : u # t => th'[u] = th[u]
  BY <1>6, <1>t, Goes DEF IInv
<1> QED BY <1>0, <1>2, <1>3, <1>4, <1>5, <1>7 DEF BuildBtEffect, Token

BuildInfoEffect(t) ==
    /\ th[t].pc = "buildInfo" /\ th[t].new \notin DOMAIN mem /\ DOMAIN mem \subseteq DOMAIN mem' /\ th[t].new \in DOMAIN mem'
    /\ \A p \in DOMAIN mem' \ DOMAIN mem : mem'[p].kind # "bt" /\ (mem'[p].kind = "info" => p = th[t].new)
    /\ \A p \in DOMAIN mem : mem'[p] = mem[p]
    /\ mem'[th[t].new].kind = "info" /\ mem'[th[t].new].name = th[t].name /\ mem'[th[t].new].val = th[t].val
    /\ mem'[th[t].new].val.len >= ValueMax => mem'[th[t].new + mem'[th[t].new].long].val = th[t].val
    /\ th'[t].pc = "linkInfo" /\ th'[t].cur = th[t].cur /\ th'[t].name = th[t].name /\ th'[t].pos = th[t].pos
    /\ th'[t].new = th[t].new /\ th'[t].val = th[t].val
    /\ \A u \in Threads : u # t => th'[u] = th[u]

LEMMA BuildInfoDoes ==
    ASSUME IInv, NEW t \in Mutators, BuildInfo(t)
    PROVE  BuildInfoEffect(t)
<1>t. t \in Threads
  BY DEF Threads
<1>0. th[t].pc = "buildInfo" /\ Shape(th[t]) /\ Work(th[t]) /\ th[t].pc \in Busy
  BY <1>t DEF BuildInfo, IInv, Types, Working, Busy
<1>1. PICK new, long, name, val : new = th[t].new /\ long = th[t].long /\ name = th[t].name /\ val = th[t].val
  OBVIOUS
<1>w. /\ Room(new, InfoSize + NameLen(name) + 1)
      /\ name \in Names /\ val \in Values
      /\ long = 0 => val.len < ValueMax
      /\ long # 0 => long \in Nat /\ new + Align(InfoSize + NameLen(name) + 1) <= long
  BY <1>0, <1>1 DEF Work
<1>2. /\ new \in Nat /\ long \in Nat /\ val.len \in Nat /\ ValueMax \in Nat /\ DOMAIN mem \subseteq Nat
      /\ new \notin DOMAIN mem /\ \A p \in DOMAIN mem : p < new
  BY <1>w, RoomIsFree, ValuesAssumption, SizeAssumption DEF Room, IInv, Cells
<1>3. PICK info : info = prop_info(name, val, IF long = 0 THEN 0 ELSE long - new)
  OBVIOUS
<1>4. PICK chars : chars = [kind |-> "chars", val |-> val]
  OBVIOUS
<1>5. info.kind = "info" /\ info.name = name /\ info.val = val /\ info.long = IF long = 0 THEN 0 ELSE long - new
  <2>1. (IF long = 0 THEN 0 ELSE long - new) \in Int
    BY <1>2
  <2> QED BY <1>3, <1>w, <2>1, InfoNew
<1>6. chars.kind = "chars" /\ chars.val = val
  BY <1>4
<1>7. long # 0 => long > new /\ long \notin DOMAIN mem
  <2>1. NameLen(name) \in Nat /\ InfoSize \in Nat
    BY <1>w, NameFacts, SizeAssumption
  <2>2. InfoSize + NameLen(name) + 1 \in Nat /\ InfoSize + NameLen(name) + 1 > 0
    BY <2>1
  <2>3. Align(InfoSize + NameLen(name) + 1) \in Nat /\ Align(InfoSize + NameLen(name) + 1) > 0
    BY <2>2, Aligned
  <2> QED BY <1>2, <1>w, <2>3
<1>8. /\ DOMAIN mem' = DOMAIN mem \cup {new} \cup (IF long = 0 THEN {} ELSE {long})
      /\ mem'[new] = info /\ (long # 0 => mem'[long] = chars)
      /\ \A p \in DOMAIN mem : mem'[p] = mem[p]
  <2> DEFINE objs == (IF long = 0 THEN {} ELSE {long}) \cup {new}
  <2>1. mem' = [o \in DOMAIN mem \cup objs |-> IF o = new THEN info ELSE IF o \in objs THEN chars ELSE mem[o]]
    BY <1>1, <1>3, <1>4 DEF BuildInfo
  <2>2. objs = (IF long = 0 THEN {} ELSE {long}) \cup {new}
    OBVIOUS
  <2> HIDE DEF objs
  <2>3. DOMAIN mem' = DOMAIN mem \cup objs /\ mem'[new] = info
    BY <2>1, <2>2
  <2>4. long # 0 => long # new
    BY <1>2, <1>7
  <2>5. long # 0 => mem'[long] = chars
    BY <2>1, <2>2, <2>4
  <2>6. ASSUME NEW p \in DOMAIN mem
        PROVE  mem'[p] = mem[p]
    <3>1. p \notin objs /\ p # new
      BY <1>2, <1>7, <2>2
    <3> QED BY <2>1, <3>1
  <2> QED BY <2>2, <2>3, <2>5, <2>6
<1>9. mem'[new].val.len >= ValueMax => mem'[new + mem'[new].long].val = val
  <2>1. CASE long = 0
    BY <1>2, <1>5, <1>8, <1>w, <2>1
  <2>2. CASE long # 0
    <3>1. new + (long - new) = long
      BY <1>2
    <3>2. new + mem'[new].long = long
      BY <1>5, <1>8, <2>2, <3>1
    <3> QED BY <1>6, <1>8, <2>2, <3>2
  <2> QED BY <2>1, <2>2
<1>10. \A p \in DOMAIN mem' \ DOMAIN mem : mem'[p].kind # "bt" /\ (mem'[p].kind = "info" => p = new)
  BY <1>5, <1>6, <1>8
<1> DEFINE r == [th[t] EXCEPT !.pc = "linkInfo"]
<1>11. /\ r.pc = "linkInfo" /\ r.cur = th[t].cur /\ r.name = th[t].name /\ r.pos = th[t].pos
       /\ r.new = th[t].new /\ r.val = th[t].val
  BY <1>0 DEF Shape, Fields
<1>12. Go(t, r)
  BY DEF BuildInfo
<1> HIDE DEF r
<1>13. th'[t] = r /\ \A u \in Threads : u # t => th'[u] = th[u]
  BY <1>12, <1>t, Goes DEF IInv
<1> QED BY <1>0, <1>1, <1>2, <1>5, <1>8, <1>9, <1>10, <1>11, <1>13 DEF BuildInfoEffect

(* A store of the mutator that leaves the links of the trie alone. *)
LEMMA MapStore ==
    ASSUME NEW N, NEW R, MapOf(N, R), Readings, SingleMutator, NEW m \in Mutators,
           Linked' = Linked,
           \A o \in Linked : mem'[o].name = mem[o].name /\ \A f \in Links : mem'[o][f] = mem[o][f],
           \A u \in Threads : u # m =>
             th'[u].pc = th[u].pc /\ th'[u].name = th[u].name /\ th'[u].pos = th[u].pos /\ th'[u].cur = th[u].cur,
           Labels(N, Linked)', Seek(N, R, th[m])'
    PROVE  MapOf(N, R)'
<1>1. Paths(N, R, Linked)'
  BY DEF MapOf, Paths
<1>2. Ways(N, R, Linked)'
  BY DEF MapOf, Ways
<1>3. ASSUME NEW u \in Threads
      PROVE  Seek(N, R, th[u])'
  <2>1. CASE u = m
    BY <2>1
  <2>2. CASE u # m
    <3>1. u \in Readers
      BY <2>2 DEF Threads, SingleMutator
    <3>2. th[u].pc \in {"idle", "foreach", "trie", "bt", "prop", "reread"}
      BY <3>1 DEF Readings, Reading
    <3>3. Seek(N, R, th[u])
      BY DEF MapOf
    <3> QED BY <2>2, <3>2, <3>3 DEF Seek, Busy, Infoing
  <2> QED BY <2>1, <2>2
<1> QED BY <1>1, <1>2, <1>3 DEF MapOf

(* The nodes are the same ones as long as none is about to be linked. *)
LEMMA SameLinked ==
    ASSUME SingleMutator, NEW m \in Mutators, th[m].pc # "linkBt", th'[m].pc # "linkBt",
           DOMAIN mem \subseteq DOMAIN mem', \A o \in DOMAIN mem : mem'[o].kind = mem[o].kind,
           \A o \in DOMAIN mem' \ DOMAIN mem : mem'[o].kind # "bt"
    PROVE  Linked' = Linked
<1>1. \A n \in Mutators : n = m
  BY DEF SingleMutator
<1>2. Linked = {o \in DOMAIN mem : mem[o].kind = "bt"}
  BY <1>1 DEF Linked
<1>3. Linked' = {o \in DOMAIN mem' : mem'[o].kind = "bt"}
  BY <1>1 DEF Linked
<1> QED BY <1>2, <1>3

LEMMA BuildBtMaps ==
    ASSUME SingleMutator, IInv, Readings, NEW N, NEW R, MapOf(N, R), NEW t \in Mutators, BuildBtEffect(t)
    PROVE  MapOf(N, R)' /\ Linked' = Linked
<1>t. t \in Threads
  BY DEF Threads
<1>1. Seek(N, R, th[t]) /\ th[t].pc = "buildBt" /\ th[t].pc \in Busy
  BY <1>t DEF MapOf, BuildBtEffect, Busy
<1>2. Linked' = Linked
  <2>1. \A n \in Mutators : n = t
    BY DEF SingleMutator
  <2>2. Linked = {o \in DOMAIN mem : mem[o].kind = "bt"}
    BY <1>1, <2>1 DEF Linked
  <2>3. Linked' = {o \in DOMAIN mem' : mem'[o].kind = "bt" /\ o # th[t].new}
    BY <2>1 DEF Linked, BuildBtEffect
  <2> QED BY <2>2, <2>3 DEF BuildBtEffect
<1>3. Linked \subseteq DOMAIN mem
  BY DEF Linked
<1>4. Labels(N, Linked)'
  <2>1. \A o \in Linked' : mem'[o] = mem[o]
    BY <1>2, <1>3 DEF BuildBtEffect
  <2>2. \A o \in Linked : mem[o].prop # 0 => mem[o].prop \in DOMAIN mem
    BY DEF IInv, Cells, Linked
  <2>3. \A o \in Linked' : o # 0 => mem'[o].name = Tip(N[o]) /\ mem'[o].name.len > 0
    BY <1>2, <2>1 DEF MapOf, Labels
  <2>4. \A o \in Linked' : mem'[o].prop # 0 => mem'[mem'[o].prop].name = N[o]
    BY <1>2, <2>1, <2>2 DEF MapOf, Labels, BuildBtEffect
  <2>5. \A o \in DOMAIN mem' : mem'[o].kind = "bt" /\ o \notin Linked' => mem'[o].prop = 0 /\ \A f \in Links : mem'[o][f] = 0
    BY <1>2 DEF MapOf, Labels, BuildBtEffect
  <2> QED BY <2>3, <2>4, <2>5 DEF Labels
<1>5. Seek(N, R, th[t])'
  BY <1>1, <1>2 DEF Seek, BuildBtEffect, Infoing
<1> QED BY <1>2, <1>3, <1>4, <1>5, MapStore DEF BuildBtEffect

LEMMA BuildInfoMaps ==
    ASSUME SingleMutator, IInv, Readings, NEW N, NEW R, MapOf(N, R), NEW t \in Mutators, BuildInfoEffect(t)
    PROVE  MapOf(N, R)' /\ Linked' = Linked
<1>t. t \in Threads
  BY DEF Threads
<1>1. Seek(N, R, th[t]) /\ th[t].pc = "buildInfo" /\ th[t].pc \in Busy
  BY <1>t DEF MapOf, BuildInfoEffect, Busy
<1>2. Linked' = Linked
  BY SameLinked DEF BuildInfoEffect
<1>3. Linked \subseteq DOMAIN mem
  BY DEF Linked
<1>4. Labels(N, Linked)'
  <2>1. \A o \in Linked' : mem'[o] = mem[o]
    BY <1>2, <1>3 DEF BuildInfoEffect
  <2>2. \A o \in Linked : mem[o].prop # 0 => mem[o].prop \in DOMAIN mem
    BY DEF IInv, Cells, Linked
  <2>3. \A o \in Linked' : o # 0 => mem'[o].name = Tip(N[o]) /\ mem'[o].name.len > 0
    BY <1>2, <2>1 DEF MapOf, Labels
  <2>4. \A o \in Linked' : mem'[o].prop # 0 => mem'[mem'[o].prop].name = N[o]
    BY <1>2, <2>1, <2>2 DEF MapOf, Labels, BuildInfoEffect
  <2>5. \A o \in DOMAIN mem' : mem'[o].kind = "bt" /\ o \notin Linked' => mem'[o].prop = 0 /\ \A f \in Links : mem'[o][f] = 0
    BY <1>2 DEF MapOf, Labels, BuildInfoEffect
  <2> QED BY <2>3, <2>4, <2>5 DEF Labels
<1>5. Seek(N, R, th[t])'
  BY <1>1, <1>2, <1>3 DEF Seek, BuildInfoEffect, Infoing
<1> QED BY <1>2, <1>3, <1>4, <1>5, MapStore DEF BuildInfoEffect

(* The two stores into prop. *)
LEMMA PropMaps ==
    ASSUME SingleMutator, IInv, Readings, NEW N, NEW R, MapOf(N, R), NEW t \in Mutators,
           th[t].cur \in Linked, Written(th[t].cur), \A f \in Links : mem'[th[t].cur][f] = mem[th[t].cur][f],
           mem'[th[t].cur].prop # 0 => mem'[th[t].cur].prop \in DOMAIN mem /\ mem[mem'[th[t].cur].prop].kind = "info"
                                       /\ mem[mem'[th[t].cur].prop].name = N[th[t].cur],
           th[t].pc # "linkBt", th'[t].pc = "idle",
           \A u \in Threads : u # t =>
             th'[u].pc = th[u].pc /\ th'[u].name = th[u].name /\ th'[u].pos = th[u].pos /\ th'[u].cur = th[u].cur
    PROVE  MapOf(N, R)' /\ Linked' = Linked
<1>c. PICK c : c = th[t].cur
  OBVIOUS
<1>1. /\ c \in DOMAIN mem /\ DOMAIN mem' = DOMAIN mem /\ mem[c].kind = "bt" /\ mem'[c].kind = "bt"
      /\ mem'[c].name = mem[c].name /\ \A p \in DOMAIN mem : p # c => mem'[p] = mem[p]
  BY <1>c DEF Written
<1>2. Linked' = Linked
  BY <1>1, SameLinked
<1>3. Linked \subseteq DOMAIN mem
  BY DEF Linked
<1>4. \A o \in Linked : mem'[o].name = mem[o].name /\ \A f \in Links : mem'[o][f] = mem[o][f]
  BY <1>1, <1>3, <1>c
<1>5. Labels(N, Linked)'
  <2>2. \A o \in Linked : mem[o].prop # 0 => mem[o].prop \in DOMAIN mem /\ mem[mem[o].prop].kind = "info"
    BY DEF IInv, Cells, Linked
  <2>3. \A o \in Linked' : o # 0 => mem'[o].name = Tip(N[o]) /\ mem'[o].name.len > 0
    BY <1>2, <1>4 DEF MapOf, Labels
  <2>4. ASSUME NEW o \in Linked', mem'[o].prop # 0
        PROVE  mem'[mem'[o].prop].name = N[o]
    <3>1. CASE o = c
      BY <1>1, <1>c, <2>4, <3>1
    <3>2. CASE o # c
      <4>1. mem'[o] = mem[o] /\ o \in Linked
        BY <1>1, <1>2, <1>3, <2>4, <3>2
      <4>2. mem[o].prop \in DOMAIN mem /\ mem[mem[o].prop].kind = "info" /\ mem[mem[o].prop].name = N[o]
        BY <2>2, <2>4, <4>1 DEF MapOf, Labels
      <4> QED BY <1>1, <4>1, <4>2
    <3> QED BY <3>1, <3>2
  <2>5. \A o \in DOMAIN mem' : mem'[o].kind = "bt" /\ o \notin Linked' => mem'[o].prop = 0 /\ \A f \in Links : mem'[o][f] = 0
    BY <1>1, <1>2, <1>c DEF MapOf, Labels
  <2> QED BY <2>3, <2>4, <2>5 DEF Labels
<1>6. Seek(N, R, th[t])'
  BY DEF Seek, Busy
<1> QED BY <1>2, <1>4, <1>5, <1>6, MapStore

LEMMA LinkInfoMaps ==
    ASSUME SingleMutator, IInv, Readings, NEW N, NEW R, MapOf(N, R), NEW t \in Mutators, LinkInfoEffect(t)
    PROVE  MapOf(N, R)' /\ Linked' = Linked
<1>t. t \in Threads
  BY DEF Threads
<1>1. Seek(N, R, th[t]) /\ th[t].pc = "linkInfo" /\ th[t].pc \in Busy
  BY <1>t DEF MapOf, LinkInfoEffect, Busy
<1>2. th[t].cur \in Linked /\ N[th[t].cur] = th[t].name /\ mem[th[t].new].name = th[t].name
  BY <1>1 DEF Seek, Infoing
<1> QED BY <1>1, <1>2, PropMaps DEF LinkInfoEffect

LEMMA ClearPropMaps ==
    ASSUME SingleMutator, IInv, Readings, NEW N, NEW R, MapOf(N, R), NEW t \in Mutators, ClearPropEffect(t)
    PROVE  MapOf(N, R)' /\ Linked' = Linked
<1>t. t \in Threads
  BY DEF Threads
<1>1. Seek(N, R, th[t]) /\ th[t].pc = "clear" /\ th[t].pc \in Busy
  BY <1>t DEF MapOf, ClearPropEffect, Busy
<1>2. th[t].cur \in Linked
  BY <1>1 DEF Seek
<1>3. \A u \in Threads : u # t =>
        th'[u].pc = th[u].pc /\ th'[u].name = th[u].name /\ th'[u].pos = th[u].pos /\ th'[u].cur = th[u].cur
  <2>1. {"pc", "name", "pos", "cur"} \subseteq Fields \ {"met", "keep"}
    BY DEF Fields
  <2> QED BY <2>1 DEF ClearPropEffect
<1> QED BY <1>1, <1>2, <1>3, PropMaps DEF ClearPropEffect

-----------------------------------------------------------------------------
(* The new node takes the prefixes that were missed at the link it is stored in. *)
Growth(N, R, D, c, l, p, x, N2, R2) ==
    /\ Paths(N2, R2, D \cup {x})
    /\ \A o \in D, f \in Links : Via(N2, R2, o, f) = Via(N, R, o, f)
    /\ \A f \in Links : f # "children" => Via(N2, R2, x, f) \subseteq Via(N, R, c, l)
    /\ \A q \in Via(N2, R2, x, "children") : Cut(q) = p
    /\ \A q \in Via(N, R, c, l) : Cut(q) = Cut(p)
    /\ \A y \in D : N[y] # p
    /\ \E q \in D : N[q] = Cut(p)

LEMMA Grown ==
    ASSUME NEW N, NEW R, NEW D, Paths(N, R, D), NEW c \in D, NEW l \in Links, NEW p \in Via(N, R, c, l), NEW x, x \notin D,
           \A y \in D : N[y] \notin Via(N, R, c, l),
           NEW N2, N2 = [o \in D \cup {x} |-> IF o = x THEN p ELSE N[o]],
           NEW R2, R2 = [o \in D \cup {x} |-> IF o = x THEN Via(N, R, c, l) ELSE R[o]]
    PROVE  Growth(N, R, D, c, l, p, x, N2, R2)
<1>1. N2[x] = p /\ R2[x] = Via(N, R, c, l) /\ \A o \in D : N2[o] = N[o] /\ R2[o] = R[o]
  OBVIOUS
<1>2. p \in Prefixes /\ Via(N, R, c, l) \subseteq Prefixes
  BY DEF Via
<1>3. \A y \in D : N[y] # p
  OBVIOUS
<1>4. \A q \in Via(N, R, c, l) : Cut(q) = Cut(p)
  <2>1. CASE l = "children"
    BY <2>1 DEF Via
  <2>2. CASE l # "children"
    <3>1. \A q \in Via(N, R, c, l) : q \in R[c]
      BY <2>2 DEF Via
    <3> QED BY <3>1 DEF Paths
  <2> QED BY <2>1, <2>2
<1>5. \E q \in D : N[q] = Cut(p)
  <2>1. CASE l = "children"
    BY <2>1 DEF Via
  <2>2. CASE l # "children"
    <3>1. p \in R[c]
      BY <2>2 DEF Via
    <3>2. c # 0
      BY <3>1 DEF Paths
    <3>3. Cut(p) = Cut(N[c])
      BY <3>1 DEF Paths
    <3> QED BY <3>2, <3>3 DEF Paths
  <2> QED BY <2>1, <2>2
<1>6. \A o \in D, f \in Links : Via(N2, R2, o, f) = Via(N, R, o, f)
  <2> SUFFICES ASSUME NEW o \in D, NEW f \in Links
               PROVE  Via(N2, R2, o, f) = Via(N, R, o, f)
    OBVIOUS
  <2>1. N2[o] = N[o] /\ R2[o] = R[o]
    BY <1>1
  <2> QED BY <2>1 DEF Via
<1>7. \A f \in Links : f # "children" => Via(N2, R2, x, f) \subseteq Via(N, R, c, l)
  <2> SUFFICES ASSUME NEW f \in Links, f # "children", NEW q \in Via(N2, R2, x, f)
               PROVE  q \in Via(N, R, c, l)
    OBVIOUS
  <2>1. q \in R2[x]
    BY DEF Via
  <2> QED BY <1>1, <2>1
<1>8. \A q \in Via(N2, R2, x, "children") : Cut(q) = p
  BY <1>1 DEF Via
<1>9. Paths(N2, R2, D \cup {x})
  <2>0. x # 0
    BY DEF Paths
  <2>1. 0 \in D \cup {x} /\ N2[0] = <<>> /\ R2[0] = {}
    BY <1>1 DEF Paths
  <2>2. ASSUME NEW o \in D \cup {x}, o # 0
        PROVE  N2[o] \in Prefixes /\ N2[o] \in R2[o] /\ \E q \in D \cup {x} : N2[q] = Cut(N2[o])
    <3>1. CASE o = x
      <4>1. PICK q \in D : N[q] = Cut(p)
        BY <1>5
      <4>2. N2[q] = Cut(p)
        BY <1>1, <4>1
      <4> QED BY <1>1, <1>2, <3>1, <4>2
    <3>2. CASE o \in D
      <4>1. PICK q \in D : N[q] = Cut(N[o])
        BY <2>2, <3>2 DEF Paths
      <4>2. N2[q] = Cut(N2[o])
        BY <1>1, <3>2, <4>1
      <4>3. N[o] \in Prefixes /\ N[o] \in R[o]
        BY <2>2, <3>2 DEF Paths
      <4> QED BY <1>1, <3>2, <4>2, <4>3
    <3> QED BY <3>1, <3>2
  <2>3. ASSUME NEW o \in D \cup {x}
        PROVE  R2[o] \subseteq Prefixes /\ \A q \in R2[o] : Cut(q) = Cut(N2[o])
    <3>1. CASE o = x
      BY <1>1, <1>2, <1>4, <3>1
    <3>2. CASE o \in D
      BY <1>1, <3>2 DEF Paths
    <3> QED BY <3>1, <3>2
  <2>4. ASSUME NEW o \in D \cup {x}, NEW y \in D \cup {x}, N2[o] = N2[y]
        PROVE  o = y
    <3>1. CASE o \in D /\ y \in D
      BY <1>1, <2>4, <3>1 DEF Paths
    <3>2. CASE o = x \/ y = x
      BY <1>1, <1>3, <2>4, <3>2
    <3> QED BY <3>1, <3>2
  <2>5. ASSUME NEW o \in D \cup {x}, NEW k \in 0..Len(N2[o])
        PROVE  \E q \in D \cup {x} : N2[q] = Pre(N2[o], k)
    <3>1. CASE o \in D
      <4>1. PICK q \in D : N[q] = Pre(N[o], k)
        BY <1>1, <2>5, <3>1 DEF Paths
      <4> QED BY <1>1, <3>1, <4>1
    <3>2. CASE o = x
      <4>0. p \in Seq(Tokens) /\ Len(p) \in Nat /\ Len(p) > 0 /\ N2[o] = p /\ k \in 0..Len(p)
        BY <1>1, <1>2, <2>5, <3>2, PrefixLen
      <4>1. CASE k = Len(p)
        BY <1>1, <4>0, <4>1, PreEnds
      <4>2. CASE k # Len(p)
        <5>1. PICK q \in D : N[q] = Cut(p)
          BY <1>5
        <5>2. k \in 0..(Len(p) - 1) /\ Len(p) - 1 \in 0..Len(p)
          BY <4>0, <4>2
        <5>3. Len(N[q]) = Len(p) - 1
          BY <1>2, <5>1, CutFacts
        <5>4. PICK y \in D : N[y] = Pre(N[q], k)
          BY <5>2, <5>3 DEF Paths
        <5>5. Pre(Pre(p, Len(p) - 1), k) = Pre(p, k)
          BY <4>0, <5>2, PrePre
        <5> QED BY <1>1, <4>0, <5>1, <5>4, <5>5 DEF Cut
      <4> QED BY <4>1, <4>2
    <3> QED BY <3>1, <3>2
  <2> QED BY <2>1, <2>2, <2>3, <2>4, <2>5 DEF Paths
<1> QED BY <1>3, <1>4, <1>5, <1>6, <1>7, <1>8, <1>9 DEF Growth

LEMMA LinkBtMaps ==
    ASSUME SingleMutator, IInv, Readings, NEW N, NEW R, MapOf(N, R), NEW t \in Mutators, LinkBtEffect(t)
    PROVE  \E N2, R2 : MapOf(N2, R2)' /\ \A o \in Linked : o \in Linked' /\ N2[o] = N[o] /\ R2[o] = R[o]
<1>t. t \in Threads
  BY DEF Threads
<1>1. PICK c, l, x, p, D : c = th[t].cur /\ l = th[t].link /\ x = th[t].new /\ p = Pre(th[t].name, th[t].pos) /\ D = Linked
  OBVIOUS
<1>k. Seek(N, R, th[t]) /\ th[t].pc = "linkBt" /\ th[t].pc \in Busy
  BY <1>t DEF MapOf, LinkBtEffect, Busy
<1>2. /\ th[t].name \in Names /\ th[t].pos \in 1..Len(th[t].name) /\ c \in D
      /\ p \in Via(N, R, c, l) /\ mem[x].name = th[t].name[th[t].pos]
  BY <1>1, <1>k DEF Seek
<1>3. p \in Prefixes /\ Tip(p) = mem[x].name
  BY <1>1, <1>2, NameFacts, PreTip
<1>4. /\ l \in Links /\ mem[c][l] = 0 /\ IsNode(x)
      /\ c \in DOMAIN mem /\ DOMAIN mem' = DOMAIN mem /\ mem[c].kind = "bt" /\ mem'[c].kind = "bt"
      /\ mem'[c].name = mem[c].name /\ mem'[c].prop = mem[c].prop
      /\ \A f \in Links : mem'[c][f] = IF f = l THEN x ELSE mem[c][f]
      /\ \A q \in DOMAIN mem : q # c => mem'[q] = mem[q]
      /\ th'[t].pc = "bt" /\ th'[t].cur = x /\ th'[t].name = th[t].name /\ th'[t].pos = th[t].pos
      /\ \A u \in Threads : u # t => th'[u] = th[u]
  BY <1>1 DEF LinkBtEffect, Written
<1>5. x \notin D /\ Linked' = D \cup {x} /\ D \subseteq DOMAIN mem /\ x \in DOMAIN mem
  <2>1. \A n \in Mutators : n = t
    BY DEF SingleMutator
  <2>2. D = {o \in DOMAIN mem : mem[o].kind = "bt" /\ o # x}
    BY <1>1, <1>k, <2>1 DEF Linked
  <2>3. Linked' = {o \in DOMAIN mem' : mem'[o].kind = "bt"}
    BY <1>4, <2>1 DEF Linked
  <2>4. x \in DOMAIN mem /\ mem[x].kind = "bt"
    BY <1>4 DEF IsNode
  <2> QED BY <1>4, <2>2, <2>3, <2>4
<1>6. c # x
  BY <1>2, <1>5
<1>m. Paths(N, R, D) /\ Ways(N, R, D) /\ Labels(N, D) /\ \A u \in Threads : Seek(N, R, th[u])
  BY <1>1 DEF MapOf
<1>7. \A y \in D : N[y] \notin Via(N, R, c, l)
  BY <1>2, <1>4, <1>m DEF Ways
<1>8. PICK N2 : N2 = [o \in D \cup {x} |-> IF o = x THEN p ELSE N[o]]
  OBVIOUS
<1>9. PICK R2 : R2 = [o \in D \cup {x} |-> IF o = x THEN Via(N, R, c, l) ELSE R[o]]
  OBVIOUS
<1>10. N2[x] = p /\ R2[x] = Via(N, R, c, l) /\ \A o \in D : N2[o] = N[o] /\ R2[o] = R[o]
  BY <1>5, <1>8, <1>9
<1>g. /\ Paths(N2, R2, D \cup {x})
      /\ \A o \in D, f \in Links : Via(N2, R2, o, f) = Via(N, R, o, f)
      /\ \A f \in Links : f # "children" => Via(N2, R2, x, f) \subseteq Via(N, R, c, l)
      /\ \A q \in Via(N2, R2, x, "children") : Cut(q) = p
      /\ \A q \in Via(N, R, c, l) : Cut(q) = Cut(p)
      /\ \A y \in D : N[y] # p
      /\ \E q \in D : N[q] = Cut(p)
  <2>1. Growth(N, R, D, c, l, p, x, N2, R2)
    <3>1. c \in D /\ l \in Links /\ p \in Via(N, R, c, l) /\ x \notin D
      BY <1>2, <1>4, <1>5
    <3> QED BY <1>7, <1>8, <1>9, <1>m, <3>1, Grown
  <2> QED BY <2>1 DEF Growth
<1>x. mem'[x] = mem[x] /\ mem[x].prop = 0 /\ \A f \in Links : mem'[x][f] = 0
  BY <1>4, <1>5, <1>6, <1>m DEF Labels, IsNode
<1>y. mem[x].name.len > 0
  BY <1>1, <1>k DEF IInv, Working, Work
<1>w. Ways(N2, R2, D \cup {x})'
  <2>1. ASSUME NEW o \in D \cup {x}, NEW f \in Links, mem'[o][f] # 0
        PROVE  mem'[o][f] \in D \cup {x} /\ R2[mem'[o][f]] = Via(N2, R2, o, f)
    <3>1. o \in D
      BY <1>x, <2>1
    <3>2. CASE o = c /\ f = l
      BY <1>4, <1>10, <1>g, <3>1, <3>2
    <3>3. CASE ~(o = c /\ f = l)
      <4>1. mem'[o][f] = mem[o][f]
        BY <1>4, <1>5, <3>1, <3>3
      <4>2. mem[o][f] \in D /\ R[mem[o][f]] = Via(N, R, o, f)
        BY <1>m, <2>1, <3>1, <4>1 DEF Ways
      <4> QED BY <1>10, <1>g, <3>1, <4>1, <4>2
    <3> QED BY <3>2, <3>3
  <2>2. ASSUME NEW o \in D, NEW f \in Links, mem'[o][f] = 0
        PROVE  mem[o][f] = 0 /\ (o # c \/ f # l)
    <3>1. x # 0
      BY <1>5, <1>m DEF Paths
    <3> QED BY <1>4, <1>5, <2>2, <3>1
  <2>3. ASSUME NEW o \in D \cup {x}, NEW f \in Links, mem'[o][f] = 0, NEW y \in D \cup {x}
        PROVE  N2[y] \notin Via(N2, R2, o, f)
    <3>1. CASE o \in D
      <4>0. mem[o][f] = 0 /\ (o # c \/ f # l) /\ Via(N2, R2, o, f) = Via(N, R, o, f)
        BY <1>g, <2>2, <2>3, <3>1
      <4>1. CASE y \in D
        <5>1. N[y] \notin Via(N, R, o, f)
          BY <1>m, <3>1, <4>0, <4>1 DEF Ways
        <5> QED BY <1>10, <4>0, <4>1, <5>1
      <4>2. CASE y = x
        <5>1. Via(N, R, o, f) \cap Via(N, R, c, l) = {}
          BY <1>2, <1>4, <1>m, <3>1, <4>0 DEF Ways
        <5> QED BY <1>2, <1>10, <4>0, <4>2, <5>1
      <4> QED BY <4>1, <4>2
    <3>2. CASE o = x /\ f = "children"
      <4> SUFFICES ASSUME N2[y] \in Via(N2, R2, x, "children")
                   PROVE  FALSE
        BY <3>2
      <4>1. Cut(N2[y]) = p /\ N2[y] \in Prefixes
        BY <1>g DEF Via
      <4>2. CASE y = x
        BY <1>10, <4>1, <4>2, CutFacts
      <4>3. CASE y \in D
        <5>1. N[y] \in Prefixes /\ Cut(N[y]) = p
          BY <1>10, <4>1, <4>3
        <5>2. y # 0
          BY <1>m, <5>1 DEF Paths, Prefixes
        <5>3. \E q \in D : N[q] = Cut(N[y])
          BY <1>m, <4>3, <5>2 DEF Paths
        <5> QED BY <1>g, <5>1, <5>3
      <4> QED BY <4>2, <4>3
    <3>3. CASE o = x /\ f # "children"
      <4>1. Via(N2, R2, x, f) \subseteq Via(N, R, c, l)
        BY <1>g, <3>3
      <4>2. CASE y \in D
        BY <1>7, <1>10, <3>3, <4>1, <4>2
      <4>3. CASE y = x
        BY <1>10, <3>3, <4>3 DEF Via
      <4> QED BY <4>2, <4>3
    <3> QED BY <3>1, <3>2, <3>3
  <2>4. ASSUME NEW o \in D, NEW f \in Links, NEW h \in Links, mem'[o][h] = 0
        PROVE  Via(N2, R2, x, f) \cap Via(N2, R2, o, h) = {}
    <3>0. mem[o][h] = 0 /\ (o # c \/ h # l) /\ Via(N2, R2, o, h) = Via(N, R, o, h)
      BY <1>g, <2>2, <2>4
    <3>1. CASE f # "children"
      <4>1. Via(N2, R2, x, f) \subseteq Via(N, R, c, l)
        BY <1>g, <3>1
      <4>2. Via(N, R, c, l) \cap Via(N, R, o, h) = {}
        BY <1>2, <1>4, <1>m, <3>0 DEF Ways
      <4> QED BY <3>0, <4>1, <4>2
    <3>2. CASE f = "children"
      <4> SUFFICES ASSUME NEW q \in Via(N2, R2, x, "children"), q \in Via(N, R, o, h)
                   PROVE  FALSE
        BY <3>0, <3>2
      <4>1. Cut(q) = p
        BY <1>g
      <4>2. CASE h = "children"
        <5>1. N[o] = p
          BY <4>1, <4>2 DEF Via
        <5> QED BY <1>g, <5>1
      <4>3. CASE h # "children"
        <5>1. q \in R[o]
          BY <4>3 DEF Via
        <5>2. o # 0 /\ Cut(N[o]) = p
          BY <1>m, <4>1, <5>1 DEF Paths
        <5>3. \E y \in D : N[y] = p
          BY <1>m, <5>2 DEF Paths
        <5> QED BY <1>g, <5>3
      <4> QED BY <4>2, <4>3
    <3> QED BY <3>1, <3>2
  <2>5. ASSUME NEW f \in Links, NEW h \in Links, f # h
        PROVE  Via(N2, R2, x, f) \cap Via(N2, R2, x, h) = {}
    <3> SUFFICES ASSUME NEW q \in Via(N2, R2, x, f), q \in Via(N2, R2, x, h)
                 PROVE  FALSE
      OBVIOUS
    <3>1. CASE f # "children" /\ h # "children"
      <4>1. f = "left" \/ h = "left"
        BY <2>5, <3>1 DEF Links
      <4> QED BY <2>5, <3>1, <4>1 DEF Via
    <3>2. CASE f = "children" \/ h = "children"
      <4>1. Cut(q) = p /\ q \in Via(N, R, c, l)
        BY <1>g, <2>5, <3>2
      <4>2. Cut(q) = Cut(p)
        BY <1>g, <4>1
      <4> QED BY <1>3, <4>1, <4>2, CutFacts
    <3> QED BY <3>1, <3>2
  <2>6. ASSUME NEW o \in D \cup {x}, NEW y \in D \cup {x}, NEW f \in Links, NEW h \in Links,
               mem'[o][f] = 0, mem'[y][h] = 0, o # y \/ f # h
        PROVE  Via(N2, R2, o, f) \cap Via(N2, R2, y, h) = {}
    <3>1. CASE o \in D /\ y \in D
      <4>1. /\ mem[o][f] = 0 /\ mem[y][h] = 0
            /\ Via(N2, R2, o, f) = Via(N, R, o, f) /\ Via(N2, R2, y, h) = Via(N, R, y, h)
        BY <1>g, <2>2, <2>6, <3>1
      <4>2. Via(N, R, o, f) \cap Via(N, R, y, h) = {}
        BY <1>m, <2>6, <3>1, <4>1 DEF Ways
      <4> QED BY <4>1, <4>2
    <3>2. CASE o = x /\ y \in D
      BY <2>4, <2>6, <3>2
    <3>3. CASE o \in D /\ y = x
      BY <2>4, <2>6, <3>3
    <3>4. CASE o = x /\ y = x
      BY <2>5, <2>6, <3>4
    <3> QED BY <3>1, <3>2, <3>3, <3>4
  <2> QED BY <2>1, <2>3, <2>6 DEF Ways
<1>l. Labels(N2, D \cup {x})'
  <2>1. ASSUME NEW o \in D \cup {x}, o # 0
        PROVE  mem'[o].name = Tip(N2[o]) /\ mem'[o].name.len > 0
    <3>1. CASE o = x
      BY <1>3, <1>10, <1>x, <1>y, <3>1
    <3>2. CASE o \in D
      <4>1. mem'[o].name = mem[o].name
        BY <1>4, <1>5, <3>2
      <4> QED BY <1>10, <1>m, <2>1, <3>2, <4>1 DEF Labels
    <3> QED BY <3>1, <3>2
  <2>2. ASSUME NEW o \in D \cup {x}, mem'[o].prop # 0
        PROVE  mem'[mem'[o].prop].name = N2[o]
    <3>1. o \in D /\ mem'[o].prop = mem[o].prop
      BY <1>4, <1>5, <1>x, <2>2
    <3>2. mem[o].prop \in DOMAIN mem /\ mem[mem[o].prop].kind = "info" /\ mem[mem[o].prop].name = N[o]
      <4>1. o \in DOMAIN mem /\ mem[o].kind = "bt"
        BY <1>1, <3>1 DEF Linked
      <4> QED BY <1>m, <2>2, <3>1, <4>1 DEF Labels, IInv, Cells
    <3>3. mem'[mem[o].prop] = mem[mem[o].prop]
      BY <1>4, <3>2
    <3> QED BY <1>10, <3>1, <3>2, <3>3
  <2>3. ASSUME NEW o \in DOMAIN mem', mem'[o].kind = "bt", o \notin D \cup {x}
        PROVE  mem'[o].prop = 0 /\ \A f \in Links : mem'[o][f] = 0
    <3>1. o # c /\ o \in DOMAIN mem /\ mem'[o] = mem[o]
      BY <1>2, <1>4, <2>3
    <3> QED BY <1>m, <2>3, <3>1 DEF Labels
  <2> QED BY <2>1, <2>2, <2>3 DEF Labels
<1>s. ASSUME NEW u \in Threads
      PROVE  Seek(N2, R2, th[u])'
  <2>1. CASE u = t
    <3>1. th'[u].pc = "bt" /\ th'[u].cur = x /\ th'[u].name = th[t].name /\ th'[u].pos = th[t].pos
      BY <1>4, <2>1
    <3>2. x \in Linked' /\ Pre(th'[u].name, th'[u].pos) \in R2[x]
      BY <1>1, <1>2, <1>5, <1>10, <3>1
    <3> QED BY <1>2, <3>1, <3>2 DEF Seek, Infoing
  <2>2. CASE u # t
    <3>1. u \in Readers /\ th'[u] = th[u]
      BY <1>4, <2>2 DEF Threads, SingleMutator
    <3>2. th[u].pc \in {"idle", "foreach", "trie", "bt", "prop", "reread"}
      BY <3>1 DEF Readings, Reading
    <3>3. Seek(N, R, th[u])
      BY <1>m
    <3>4. th[u].pc \in Busy => th[u].cur \in Linked' /\ N2[th[u].cur] = N[th[u].cur] /\ R2[th[u].cur] = R[th[u].cur]
      BY <1>1, <1>5, <1>10, <3>3 DEF Seek
    <3> QED BY <3>1, <3>2, <3>3, <3>4 DEF Seek, Infoing
  <2> QED BY <2>1, <2>2
<1>z. MapOf(N2, R2)'
  <2>1. Paths(N2, R2, Linked)'
    BY <1>5, <1>g DEF Paths
  <2>2. Ways(N2, R2, Linked)'
    BY <1>5, <1>w DEF Ways
  <2>3. Labels(N2, Linked)'
    BY <1>5, <1>l DEF Labels
  <2> QED BY <1>s, <2>1, <2>2, <2>3 DEF MapOf
<1> QED BY <1>1, <1>5, <1>10, <1>z

-----------------------------------------------------------------------------
(* The readers and the values. *)

LEMMA TextsKept ==
    ASSUME IInv, Texts, DOMAIN mem \subseteq DOMAIN mem',
           \A o \in DOMAIN mem : mem[o].kind # "bt" => mem'[o] = mem[o],
           \A o \in DOMAIN mem : mem[o].kind = "bt" => mem'[o].kind = "bt",
           \A o \in DOMAIN mem' \ DOMAIN mem : mem'[o].kind = "info" /\ mem'[o].val.len >= ValueMax =>
             mem'[o + mem'[o].long].val = mem'[o].val
    PROVE  Texts'
<1> SUFFICES ASSUME NEW o \in DOMAIN mem', mem'[o].kind = "info", mem'[o].val.len >= ValueMax
             PROVE  mem'[o + mem'[o].long].val = mem'[o].val
  BY DEF Texts
<1>1. CASE o \in DOMAIN mem
  <2>1. mem[o].kind # "bt" /\ mem'[o] = mem[o]
    BY <1>1
  <2>2. o + mem[o].long \in DOMAIN mem /\ mem[o + mem[o].long].kind = "chars" /\ mem[o + mem[o].long].val = mem[o].val
    BY <1>1, <2>1 DEF IInv, Cells, Texts
  <2>3. mem'[o + mem[o].long] = mem[o + mem[o].long]
    BY <2>2
  <2> QED BY <2>1, <2>2, <2>3
<1>2. CASE o \notin DOMAIN mem
  BY <1>2
<1> QED BY <1>1, <1>2

LEMMA WrittenTexts ==
    ASSUME IInv, Texts, NEW o, Written(o)
    PROVE  Texts'
BY TextsKept DEF Written

LEMMA BuiltTexts ==
    ASSUME IInv, Texts, NEW t, BuildBtEffect(t) \/ BuildInfoEffect(t)
    PROVE  Texts'
<1>1. CASE BuildBtEffect(t)
  <2>1. \A o \in DOMAIN mem' \ DOMAIN mem : mem'[o].kind = "bt"
    BY <1>1 DEF BuildBtEffect
  <2> QED BY <1>1, <2>1, TextsKept DEF BuildBtEffect
<1>2. CASE BuildInfoEffect(t)
  <2>1. \A o \in DOMAIN mem' \ DOMAIN mem : mem'[o].kind = "info" /\ mem'[o].val.len >= ValueMax =>
             mem'[o + mem'[o].long].val = mem'[o].val
    BY <1>2 DEF BuildInfoEffect
  <2> QED BY <1>2, <2>1, TextsKept DEF BuildInfoEffect
<1> QED BY <1>1, <1>2

(* What a step leaves of the threads that do not take it. *)
LEMMA OthersRead ==
    ASSUME Readings, NEW t \in Threads, \A u \in Threads : u # t => th'[u] = th[u],
           \A r \in Readers : r # t /\ th[r].pc = "reread" /\ mem'[th[r].cur].prop = 0 => mem[th[r].cur].prop = 0,
           t \in Readers => Reading(th[t])'
    PROVE  Readings'
<1> SUFFICES ASSUME NEW r \in Readers
             PROVE  Reading(th[r])'
  BY DEF Readings
<1>1. CASE r = t
  BY <1>1
<1>2. CASE r # t
  <2>1. th'[r] = th[r] /\ Reading(th[r])
    BY <1>2 DEF Threads, Readings
  <2> QED BY <1>2, <2>1 DEF Reading
<1> QED BY <1>1, <1>2

(* A reader's own steps leave the objects alone. *)
LEMMA ReturnReads ==
    ASSUME IInv, Readings, NEW t \in Threads, NEW res, Return(t, res), UNCHANGED mem
    PROVE  Readings'
<1> DEFINE r == [th[t] EXCEPT !.pc = "idle", !.name = NoName, !.res = res, !.met = FALSE]
<1>1. DOMAIN th' = Threads /\ th'[t] = r /\ \A u \in Threads : u # t => th'[u] = th[u]
  BY Goes DEF Return, IInv
<1>2. r.pc = "idle" /\ r.met = FALSE
  BY DEF IInv, Types, Shape, Fields
<1> HIDE DEF r
<1>3. Reading(th[t])'
  BY <1>1, <1>2 DEF Reading, Busy
<1> QED BY <1>1, <1>3, OthersRead

(* One that goes on keeps its op and met. *)
LEMMA GoReads ==
    ASSUME IInv, Readings, NEW t \in Threads, NEW r, Go(t, r), UNCHANGED mem,
           t \in Readers => /\ r.pc \in {"trie", "bt", "prop", "reread"} /\ r.op = "find" /\ r.met \in BOOLEAN
                            /\ r.pc = "reread" => mem[r.cur].prop # 0
    PROVE  Readings'
<1>1. DOMAIN th' = Threads /\ th'[t] = r /\ \A u \in Threads : u # t => th'[u] = th[u]
  BY Goes DEF IInv
<1>2. t \in Readers => Reading(th[t])'
  BY <1>1 DEF Reading
<1> QED BY <1>1, <1>2, OthersRead

LEMMA FollowReads ==
    ASSUME IInv, Readings, NEW t \in Threads, NEW off, NEW l, Follow(t, off, l), UNCHANGED mem, th[t].pc \in {"trie", "bt"}
    PROVE  Readings'
<1>s. Shape(th[t]) /\ th[t].pc \in Busy
  BY DEF IInv, Types, Busy
<1>0. t \in Readers => th[t].op = "find" /\ th[t].met \in BOOLEAN
  BY <1>s DEF Readings, Reading
<1>1. CASE off # 0
  <2> DEFINE r == [th[t] EXCEPT !.pc = "bt", !.cur = off]
  <2>1. Go(t, r)
    BY <1>1 DEF Follow
  <2>2. r.pc = "bt" /\ r.op = th[t].op /\ r.met = th[t].met
    BY <1>s DEF Shape, Fields
  <2> HIDE DEF r
  <2> QED BY <1>0, <2>1, <2>2, GoReads
<1>2. CASE off = 0 /\ th[t].op = "add"
  <2> DEFINE r == [th[t] EXCEPT !.pc = "allocBt", !.link = l]
  <2>1. Go(t, r)
    BY <1>2 DEF Follow
  <2> HIDE DEF r
  <2> QED BY <1>0, <1>2, <2>1, GoReads
<1>3. CASE off = 0 /\ th[t].op # "add"
  BY <1>3, ReturnReads DEF Follow
<1> QED BY <1>1, <1>2, <1>3

LEMMA DescendReads ==
    ASSUME IInv, Readings, NEW N, NEW R, MapOf(N, R), NEW t \in Threads, Descend(t)
    PROVE  Readings'
<1>s. Shape(th[t])
  BY DEF IInv, Types
<1>0. t \in Readers /\ th[t].pc \in Busy => th[t].op = "find" /\ th[t].met \in BOOLEAN
  BY DEF Readings, Reading
<1>1. CASE TrieLevel(t)
  BY <1>1, ReturnReads, FollowReads DEF TrieLevel
<1>2. CASE BtLevel(t)
  <2>0. th[t].pc = "bt" /\ th[t].pc \in Busy /\ UNCHANGED mem
    BY <1>2 DEF BtLevel, Busy
  <2>1. ASSUME NEW off, NEW l, Follow(t, off, l)
        PROVE  Readings'
    BY <2>0, <2>1, FollowReads
  <2>2. ASSUME Go(t, [th[t] EXCEPT !.pc = IF th[t].op = "del" THEN "clear" ELSE "prop"])
        PROVE  Readings'
    <3> DEFINE r == [th[t] EXCEPT !.pc = IF th[t].op = "del" THEN "clear" ELSE "prop"]
    <3>1. Go(t, r)
      BY <2>2
    <3>2. r.op = th[t].op /\ r.met = th[t].met /\ (th[t].op # "del" => r.pc = "prop")
      BY <1>s DEF Shape, Fields
    <3> HIDE DEF r
    <3>3. t \in Readers => r.pc = "prop" /\ r.op = "find" /\ r.met \in BOOLEAN
      BY <1>0, <2>0, <3>2
    <3> QED BY <2>0, <3>1, <3>3, GoReads
  <2>3. ASSUME Go(t, [th[t] EXCEPT !.pc = "trie", !.pos = th[t].pos + 1])
        PROVE  Readings'
    <3> DEFINE r == [th[t] EXCEPT !.pc = "trie", !.pos = th[t].pos + 1]
    <3>1. Go(t, r)
      BY <2>3
    <3>2. r.op = th[t].op /\ r.met = th[t].met /\ r.pc = "trie"
      BY <1>s DEF Shape, Fields
    <3> HIDE DEF r
    <3> QED BY <1>0, <2>0, <3>1, <3>2, GoReads
  <2> QED BY <1>2, <2>1, <2>2, <2>3 DEF BtLevel
<1>3. CASE LoadProp(t)
  <2>0. th[t].pc = "prop" /\ th[t].pc \in Busy /\ UNCHANGED mem
    BY <1>3 DEF LoadProp, Busy
  <2>1. th[t].cur \in Linked /\ Obj(th[t].cur) = mem[th[t].cur]
    BY <2>0 DEF MapOf, Seek, Linked, Obj
  <2>2. CASE mem[th[t].cur].prop # 0
    <3> DEFINE r == [th[t] EXCEPT !.pc = "reread"]
    <3>1. Go(t, r)
      BY <1>3, <2>1, <2>2 DEF LoadProp
    <3>2. r.op = th[t].op /\ r.met = th[t].met /\ r.pc = "reread" /\ r.cur = th[t].cur
      BY <1>s DEF Shape, Fields
    <3> HIDE DEF r
    <3> QED BY <1>0, <2>0, <2>2, <3>1, <3>2, GoReads
  <2>3. CASE mem[th[t].cur].prop = 0 /\ th[t].op = "add"
    <3> DEFINE r == [th[t] EXCEPT !.pc = "allocInfo"]
    <3>1. Go(t, r)
      BY <1>3, <2>1, <2>3 DEF LoadProp
    <3> HIDE DEF r
    <3> QED BY <1>0, <2>0, <2>3, <3>1, GoReads
  <2>4. CASE mem[th[t].cur].prop = 0 /\ th[t].op # "add"
    BY <1>3, <2>0, <2>1, <2>4, ReturnReads DEF LoadProp
  <2> QED BY <2>2, <2>3, <2>4
<1>4. CASE RereadProp(t)
  BY <1>4, ReturnReads DEF RereadProp
<1> QED BY <1>1, <1>2, <1>3, <1>4 DEF Descend

LEMMA BeginReads ==
    ASSUME IInv, Readings, NEW t \in Readers, FindBegin(t) \/ ForeachBegin(t) \/ ForeachStep(t) \/ ForeachEnd(t)
    PROVE  Readings'
<1>t. t \in Threads
  BY DEF Threads
<1>s. Shape(th[t]) /\ UNCHANGED mem /\ Reading(th[t])
  BY <1>t DEF IInv, Types, FindBegin, ForeachBegin, ForeachStep, ForeachEnd, Readings
<1>1. CASE FindBegin(t)
  <2>1. PICK n \in Names : Go(t, [Idle EXCEPT !.pc = "trie", !.op = "find", !.name = n])
    BY <1>1 DEF FindBegin
  <2> DEFINE r == [Idle EXCEPT !.pc = "trie", !.op = "find", !.name = n]
  <2>2. r.pc = "trie" /\ r.op = "find" /\ r.met = FALSE
    BY DEF Idle
  <2> HIDE DEF r
  <2>3. Go(t, r)
    BY <2>1 DEF r
  <2> QED BY <1>s, <1>t, <2>2, <2>3, GoReads
<1>2. ASSUME NEW r, Go(t, r), r.pc = "idle" \/ (r.pc = "foreach" /\ r.op = "foreach"), r.met \in BOOLEAN
      PROVE  Readings'
  <2>1. DOMAIN th' = Threads /\ th'[t] = r /\ \A u \in Threads : u # t => th'[u] = th[u]
    BY <1>2, <1>t, Goes DEF IInv
  <2>2. Reading(th[t])'
    BY <1>2, <2>1 DEF Reading, Busy
  <2> QED BY <1>s, <1>t, <2>1, <2>2, OthersRead
<1>3. CASE ForeachBegin(t)
  <2>1. PICK res, stack, keep : Go(t, [Idle EXCEPT !.pc = "foreach", !.op = "foreach", !.res = res, !.stack = stack, !.keep = keep])
    BY <1>3 DEF ForeachBegin
  <2> DEFINE r == [Idle EXCEPT !.pc = "foreach", !.op = "foreach", !.res = res, !.stack = stack, !.keep = keep]
  <2>2. r.pc = "foreach" /\ r.op = "foreach" /\ r.met = FALSE
    BY DEF Idle
  <2> HIDE DEF r
  <2>3. Go(t, r)
    BY <2>1 DEF r
  <2> QED BY <1>2, <2>2, <2>3
<1>4. CASE ForeachStep(t)
  <2>1. th[t].pc = "foreach" /\ \E stack, seen : Go(t, [th[t] EXCEPT !.stack = stack, !.seen = seen])
    BY <1>4 DEF ForeachStep
  <2>2. PICK stack, seen : Go(t, [th[t] EXCEPT !.stack = stack, !.seen = seen])
    BY <2>1
  <2> DEFINE r == [th[t] EXCEPT !.stack = stack, !.seen = seen]
  <2>3. r.pc = th[t].pc /\ r.op = th[t].op /\ r.met = th[t].met
    BY <1>s DEF Shape, Fields
  <2> HIDE DEF r
  <2>4. Go(t, r)
    BY <2>2 DEF r
  <2>5. r.pc = "foreach" /\ r.op = "foreach" /\ r.met \in BOOLEAN
    BY <1>s, <2>1, <2>3 DEF Reading
  <2> QED BY <1>2, <2>4, <2>5
<1>5. CASE ForeachEnd(t)
  <2> DEFINE r == [th[t] EXCEPT !.pc = "idle", !.seen = <<>>, !.keep = {}, !.met = FALSE]
  <2>1. r.pc = "idle" /\ r.met = FALSE
    BY <1>s DEF Shape, Fields
  <2> HIDE DEF r
  <2>2. Go(t, r)
    BY <1>5 DEF r, ForeachEnd
  <2> QED BY <1>2, <2>1, <2>2
<1> QED BY <1>1, <1>3, <1>4, <1>5

(* The mutator's steps. *)
LEMMA NotReader ==
    ASSUME NEW t \in Mutators
    PROVE  t \notin Readers /\ t \in Threads
BY ThreadsAssumption DEF Threads

LEMMA MutatorReads ==
    ASSUME IInv, Readings, NEW t \in Mutators, UNCHANGED mem, NEW r, Go(t, r)
    PROVE  Readings'
BY NotReader, GoReads

LEMMA StoreReads ==
    ASSUME IInv, Readings, NEW N, NEW R, MapOf(N, R), NEW t \in Mutators,
           BuildBtEffect(t) \/ BuildInfoEffect(t) \/ LinkBtEffect(t) \/ LinkInfoEffect(t)
    PROVE  Readings'
<1>1. \A u \in Threads : u # t => th'[u] = th[u]
  BY DEF BuildBtEffect, BuildInfoEffect, LinkBtEffect, LinkInfoEffect
<1>2. ASSUME NEW r \in Readers, th[r].pc = "reread", mem'[th[r].cur].prop = 0
      PROVE  mem[th[r].cur].prop = 0
  <2>1. th[r].cur \in DOMAIN mem
    BY <1>2 DEF MapOf, Seek, Busy, Linked, Threads
  <2>2. CASE BuildBtEffect(t) \/ BuildInfoEffect(t)
    BY <1>2, <2>1, <2>2 DEF BuildBtEffect, BuildInfoEffect
  <2>3. CASE LinkBtEffect(t)
    BY <1>2, <2>1, <2>3 DEF LinkBtEffect, Written
  <2>4. CASE LinkInfoEffect(t)
    <3>1. th[t].new # 0
      BY <2>4 DEF LinkInfoEffect, IInv, Cells, IsNode
    <3> QED BY <1>2, <2>1, <2>4, <3>1 DEF LinkInfoEffect, Written
  <2> QED BY <2>2, <2>3, <2>4
<1> QED BY <1>1, <1>2, NotReader, OthersRead

LEMMA ClearPropReads ==
    ASSUME IInv, Readings, NEW N, NEW R, MapOf(N, R), NEW t \in Mutators, ClearPropEffect(t)
    PROVE  Readings'
<1> SUFFICES ASSUME NEW r \in Readers
             PROVE  Reading(th[r])'
  BY DEF Readings
<1>1. r # t /\ r \in Threads /\ t \in Threads
  BY NotReader DEF Threads
<1>2. /\ th'[r].pc = th[r].pc /\ th'[r].op = th[r].op /\ th'[r].cur = th[r].cur
      /\ th'[r].met = (th[r].met \/ th[r].name = th[t].name \/ th[r].op = "foreach")
  <2>1. {"pc", "op", "cur"} \subseteq Fields \ {"met", "keep"}
    BY DEF Fields
  <2> QED BY <1>1, <2>1 DEF ClearPropEffect
<1>3. Reading(th[r])
  BY DEF Readings
<1>4. th'[r].met \in BOOLEAN
  BY <1>2, Zenon
<1>5. ASSUME th[r].pc = "reread", mem'[th[r].cur].prop = 0
      PROVE  th'[r].met = TRUE
  <2>1. th[r].cur \in Linked /\ N[th[r].cur] = th[r].name
    BY <1>1, <1>5 DEF MapOf, Seek, Busy, Infoing
  <2>2. th[t].cur \in Linked /\ N[th[t].cur] = th[t].name
    BY <1>1 DEF MapOf, Seek, Busy, Infoing, ClearPropEffect
  <2>3. CASE th[r].cur = th[t].cur
    <3>1. th[r].name = th[t].name
      BY <2>1, <2>2, <2>3
    <3> QED BY <1>2, <3>1, Zenon
  <2>4. CASE th[r].cur # th[t].cur
    <3>1. mem[th[r].cur].prop = 0
      BY <1>5, <2>1, <2>4 DEF ClearPropEffect, Written, Linked
    <3>2. th[r].met = TRUE
      BY <1>3, <1>5, <3>1 DEF Reading
    <3> QED BY <1>2, <3>2, Zenon
  <2> QED BY <2>3, <2>4
<1> QED BY <1>2, <1>3, <1>4, <1>5 DEF Reading

-----------------------------------------------------------------------------
(* What a name is bound to. *)

(* The prop_info of a name: the one that some node points at. *)
Mine(n) == {i \in DOMAIN mem : /\ mem[i].kind = "info" /\ mem[i].name = n
                               /\ \E o \in DOMAIN mem : mem[o].kind = "bt" /\ mem[o].prop = i}

LEMMA BoundMine ==
    ASSUME IInv, IInv', NEW n
    PROVE  /\ Bound(n) = IF Mine(n) = {} THEN Unbound ELSE mem[CHOOSE i \in Mine(n) : TRUE].val
           /\ Bound(n)' = IF Mine(n)' = {} THEN Unbound ELSE mem'[CHOOSE i \in Mine(n)' : TRUE].val
<1>1. Bound(n) = IF Mine(n) = {} THEN Unbound ELSE mem[CHOOSE i \in Mine(n) : TRUE].val
  <2> DEFINE infos == {mem[o].prop : o \in {p \in DOMAIN mem : mem[p].kind = "bt"}} \ {0}
             mine == {i \in infos \cap DOMAIN mem : mem[i].kind = "info" /\ mem[i].name = n}
  <2>1. mem[0].kind = "bt"
    BY DEF IInv, Cells, IsNode
  <2>2. mine = Mine(n)
    BY <2>1 DEF Mine
  <2>3. Bound(n) = IF mine = {} THEN Unbound ELSE mem[CHOOSE i \in mine : TRUE].val
    BY DEF Bound
  <2> QED BY <2>2, <2>3
<1>2. Bound(n)' = IF Mine(n)' = {} THEN Unbound ELSE mem'[CHOOSE i \in Mine(n)' : TRUE].val
  <2> DEFINE infos == {mem'[o].prop : o \in {p \in DOMAIN mem' : mem'[p].kind = "bt"}} \ {0}
             mine == {i \in infos \cap DOMAIN mem' : mem'[i].kind = "info" /\ mem'[i].name = n}
  <2>1. mem'[0].kind = "bt"
    BY DEF IInv, Cells, IsNode
  <2>2. mine = Mine(n)'
    BY <2>1 DEF Mine
  <2>3. Bound(n)' = IF mine = {} THEN Unbound ELSE mem'[CHOOSE i \in mine : TRUE].val
    BY DEF Bound
  <2> QED BY <2>2, <2>3
<1> QED BY <1>1, <1>2

(* A name is bound at the node that stands for it, and only there. *)
LEMMA MineAt ==
    ASSUME IInv, NEW N, NEW R, MapOf(N, R), NEW x \in Linked
    PROVE  Mine(N[x]) = IF mem[x].prop = 0 THEN {} ELSE {mem[x].prop}
<1>1. x \in DOMAIN mem /\ mem[x].kind = "bt"
  BY DEF Linked
<1>2. mem[x].prop # 0 => mem[x].prop \in Mine(N[x])
  BY <1>1 DEF Mine, IInv, Cells, MapOf, Labels
<1>3. ASSUME NEW i \in Mine(N[x])
      PROVE  mem[x].prop # 0 /\ i = mem[x].prop
  <2>1. PICK o \in DOMAIN mem : mem[o].kind = "bt" /\ mem[o].prop = i
    BY <1>3 DEF Mine
  <2>2. i # 0 /\ mem[i].name = N[x]
    BY <1>3 DEF Mine, IInv, Cells, IsNode
  <2>3. o \in Linked
    BY <2>1, <2>2 DEF MapOf, Labels
  <2>4. N[o] = N[x]
    BY <2>1, <2>2, <2>3 DEF MapOf, Labels
  <2>5. o = x
    BY <2>3, <2>4 DEF MapOf, Paths
  <2> QED BY <2>1, <2>2, <2>5
<1> QED BY <1>2, <1>3

LEMMA MineNowhere ==
    ASSUME IInv, NEW N, NEW R, MapOf(N, R), NEW n, \A x \in Linked : N[x] # n
    PROVE  Mine(n) = {}
<1> SUFFICES ASSUME NEW i \in Mine(n)
             PROVE  FALSE
  OBVIOUS
<1>1. PICK o \in DOMAIN mem : mem[o].kind = "bt" /\ mem[o].prop = i
  BY DEF Mine
<1>2. i # 0 /\ mem[i].name = n
  BY DEF Mine, IInv, Cells, IsNode
<1>3. o \in Linked
  BY <1>1, <1>2 DEF MapOf, Labels
<1>4. N[o] = n
  BY <1>1, <1>2, <1>3 DEF MapOf, Labels
<1> QED BY <1>3, <1>4

LEMMA BoundAt ==
    ASSUME IInv, IInv', NEW N, NEW R, MapOf(N, R), NEW x \in Linked
    PROVE  Bound(N[x]) = IF mem[x].prop = 0 THEN Unbound ELSE mem[mem[x].prop].val
<1>1. Mine(N[x]) = IF mem[x].prop = 0 THEN {} ELSE {mem[x].prop}
  BY MineAt
<1>2. Bound(N[x]) = IF Mine(N[x]) = {} THEN Unbound ELSE mem[CHOOSE i \in Mine(N[x]) : TRUE].val
  BY BoundMine
<1>3. mem[x].prop # 0 => (CHOOSE i \in Mine(N[x]) : TRUE) = mem[x].prop
  BY <1>1
<1> QED BY <1>1, <1>2, <1>3

(* A search that finds a null link, or an empty token, has missed its name. *)
LEMMA Missed ==
    ASSUME IInv, IInv', NEW N, NEW R, MapOf(N, R), NEW n \in Names, NEW k \in 1..Len(n), NEW c \in Linked, NEW l \in Links,
           Pre(n, k) \in Via(N, R, c, l), mem[c][l] = 0 \/ n[k].len = 0
    PROVE  Bound(n) = Unbound
<1>1. ASSUME NEW x \in Linked, N[x] = n
      PROVE  FALSE
  <2>1. n \in Seq(Tokens) /\ Len(n) \in Nat /\ k \in 0..Len(N[x])
    BY <1>1, NameFacts
  <2>2. PICK y \in Linked : N[y] = Pre(n, k)
    BY <1>1, <2>1 DEF MapOf, Paths
  <2>3. Pre(n, k) \in Prefixes /\ Tip(Pre(n, k)) = n[k]
    BY <2>1, PreTip
  <2>4. y # 0
    BY <2>2, <2>3 DEF MapOf, Paths, Prefixes
  <2>5. CASE mem[c][l] = 0
    BY <2>2, <2>5 DEF MapOf, Ways
  <2>6. CASE n[k].len = 0
    <3>1. mem[y].name = Tip(N[y]) /\ mem[y].name.len > 0
      BY <2>4 DEF MapOf, Labels
    <3> QED BY <2>2, <2>3, <2>6, <3>1
  <2> QED BY <2>5, <2>6
<1>2. Mine(n) = {}
  BY <1>1, MineNowhere
<1> QED BY <1>2, BoundMine

(* Stores that bind and unbind nothing. *)
LEMMA BoundKept ==
    ASSUME IInv, IInv',
           \A o \in DOMAIN mem : o \in DOMAIN mem' /\ mem'[o].kind = mem[o].kind,
           \A o \in DOMAIN mem : mem[o].kind = "info" => mem'[o] = mem[o],
           \A o \in DOMAIN mem : mem[o].kind = "bt" => mem'[o].prop = mem[o].prop,
           \A o \in DOMAIN mem' \ DOMAIN mem : mem'[o].kind = "bt" => mem'[o].prop = 0
    PROVE  \A n : Bound(n)' = Bound(n)
<1> SUFFICES ASSUME NEW n
             PROVE  Bound(n)' = Bound(n)
  OBVIOUS
<1>1. ASSUME NEW i \in Mine(n)
      PROVE  i \in Mine(n)' /\ mem'[i] = mem[i]
  <2>1. PICK o \in DOMAIN mem : mem[o].kind = "bt" /\ mem[o].prop = i
    BY DEF Mine
  <2>2. i \in DOMAIN mem /\ mem[i].kind = "info" /\ mem[i].name = n
    BY DEF Mine
  <2>3. mem'[i] = mem[i] /\ i \in DOMAIN mem' /\ o \in DOMAIN mem' /\ mem'[o].kind = "bt" /\ mem'[o].prop = i
    BY <2>1, <2>2
  <2> QED BY <2>2, <2>3 DEF Mine
<1>2. ASSUME NEW i \in Mine(n)'
      PROVE  i \in Mine(n)
  <2>1. PICK o \in DOMAIN mem' : mem'[o].kind = "bt" /\ mem'[o].prop = i
    BY DEF Mine
  <2>2. i # 0 /\ i \in DOMAIN mem' /\ mem'[i].kind = "info" /\ mem'[i].name = n
    BY DEF Mine, IInv, Cells, IsNode
  <2>3. o \in DOMAIN mem /\ mem[o].kind = "bt" /\ mem[o].prop = i
    BY <2>1, <2>2
  <2>4. i \in DOMAIN mem /\ mem[i].kind = "info"
    BY <2>2, <2>3 DEF IInv, Cells
  <2> QED BY <2>2, <2>3, <2>4 DEF Mine
<1>3. Mine(n)' = Mine(n)
  BY <1>1, <1>2
<1>4. /\ Bound(n) = IF Mine(n) = {} THEN Unbound ELSE mem[CHOOSE i \in Mine(n) : TRUE].val
      /\ Bound(n)' = IF Mine(n)' = {} THEN Unbound ELSE mem'[CHOOSE i \in Mine(n)' : TRUE].val
  BY BoundMine
<1>5. Mine(n) # {} => (CHOOSE i \in Mine(n) : TRUE) \in Mine(n)
  OBVIOUS
<1> QED BY <1>1, <1>3, <1>4, <1>5

(* The two stores into the prop of a node change the binding of its name. *)
LEMMA BoundStored ==
    ASSUME IInv, IInv', NEW N, NEW R, MapOf(N, R), MapOf(N, R)', Linked' = Linked, NEW c \in Linked, Written(c)
    PROVE  /\ Bound(N[c])' = IF mem'[c].prop = 0 THEN Unbound ELSE mem'[mem'[c].prop].val
           /\ \A n : n # N[c] => Bound(n)' = Bound(n)
<1>0. /\ c \in DOMAIN mem /\ DOMAIN mem' = DOMAIN mem /\ mem[c].kind = "bt" /\ mem'[c].kind = "bt"
      /\ \A p \in DOMAIN mem : p # c => mem'[p] = mem[p]
  BY DEF Written
<1>1. Mine(N[c])' = IF mem'[c].prop = 0 THEN {} ELSE {mem'[c].prop}
  <2>1. mem'[c].prop # 0 => mem'[c].prop \in Mine(N[c])'
    BY <1>0 DEF Mine, IInv, Cells, MapOf, Labels
  <2>2. ASSUME NEW i \in Mine(N[c])'
        PROVE  mem'[c].prop # 0 /\ i = mem'[c].prop
    <3>1. PICK o \in DOMAIN mem' : mem'[o].kind = "bt" /\ mem'[o].prop = i
      BY <2>2 DEF Mine
    <3>2. i # 0 /\ mem'[i].name = N[c]
      BY <2>2 DEF Mine, IInv, Cells, IsNode
    <3>3. o \in Linked'
      BY <3>1, <3>2 DEF MapOf, Labels
    <3>4. N[o] = N[c]
      BY <3>1, <3>2, <3>3 DEF MapOf, Labels
    <3>5. o = c
      BY <3>3, <3>4 DEF MapOf, Paths
    <3> QED BY <3>1, <3>2, <3>5
  <2> QED BY <2>1, <2>2
<1>2. Bound(N[c])' = IF mem'[c].prop = 0 THEN Unbound ELSE mem'[mem'[c].prop].val
  <2>1. Bound(N[c])' = IF Mine(N[c])' = {} THEN Unbound ELSE mem'[CHOOSE i \in Mine(N[c])' : TRUE].val
    BY BoundMine
  <2>2. mem'[c].prop # 0 => (CHOOSE i \in Mine(N[c])' : TRUE) = mem'[c].prop
    BY <1>1
  <2> QED BY <1>1, <2>1, <2>2
<1>3. ASSUME NEW n, n # N[c]
      PROVE  Bound(n)' = Bound(n)
  <2>1. ASSUME NEW i \in Mine(n)
        PROVE  i \in Mine(n)' /\ mem'[i] = mem[i]
    <3>1. PICK o \in DOMAIN mem : mem[o].kind = "bt" /\ mem[o].prop = i
      BY DEF Mine
    <3>2. i \in DOMAIN mem /\ mem[i].kind = "info" /\ mem[i].name = n /\ i # 0
      BY DEF Mine, IInv, Cells, IsNode
    <3>3. o # c
      <4>1. o = c => mem[i].name = N[c]
        BY <3>1, <3>2 DEF MapOf, Labels
      <4> QED BY <1>3, <3>2, <4>1
    <3>4. mem'[o] = mem[o] /\ mem'[i] = mem[i] /\ o \in DOMAIN mem' /\ i \in DOMAIN mem'
      BY <1>0, <3>1, <3>2, <3>3
    <3> QED BY <3>1, <3>2, <3>4 DEF Mine
  <2>2. ASSUME NEW i \in Mine(n)'
        PROVE  i \in Mine(n)
    <3>1. PICK o \in DOMAIN mem' : mem'[o].kind = "bt" /\ mem'[o].prop = i
      BY DEF Mine
    <3>2. i \in DOMAIN mem' /\ mem'[i].kind = "info" /\ mem'[i].name = n /\ i # 0
      BY DEF Mine, IInv, Cells, IsNode
    <3>3. o # c
      <4>1. o = c => mem'[i].name = N[c]
        BY <3>1, <3>2 DEF MapOf, Labels
      <4> QED BY <1>3, <3>2, <4>1
    <3>4. mem'[o] = mem[o] /\ mem'[i] = mem[i] /\ o \in DOMAIN mem /\ i \in DOMAIN mem
      BY <1>0, <3>1, <3>2, <3>3
    <3> QED BY <3>1, <3>2, <3>4 DEF Mine
  <2>3. Mine(n)' = Mine(n)
    BY <2>1, <2>2
  <2>4. /\ Bound(n) = IF Mine(n) = {} THEN Unbound ELSE mem[CHOOSE i \in Mine(n) : TRUE].val
        /\ Bound(n)' = IF Mine(n)' = {} THEN Unbound ELSE mem'[CHOOSE i \in Mine(n)' : TRUE].val
    BY BoundMine
  <2>5. Mine(n) # {} => (CHOOSE i \in Mine(n) : TRUE) \in Mine(n)
    OBVIOUS
  <2> QED BY <2>1, <2>3, <2>4, <2>5
<1> QED BY <1>2, <1>3

(* What find() hands out is what the prop_info holds. *)
LEMMA ValueRead ==
    ASSUME IInv, Texts, NEW o \in DOMAIN mem, mem[o].kind = "bt"
    PROVE  /\ mem[o].prop = 0 => ValueAt(mem[o].prop) = Garbage
           /\ mem[o].prop # 0 => ValueAt(mem[o].prop) = mem[mem[o].prop].val
<1>1. PICK p : p = mem[o].prop
  OBVIOUS
<1>2. CASE p = 0
  <2>1. 0 \in DOMAIN mem /\ mem[0].kind = "bt"
    BY DEF IInv, Cells, IsNode
  <2>2. ValueAt(0) = Garbage
    BY <2>1 DEF ValueAt, Obj
  <2> QED BY <1>1, <1>2, <2>2
<1>3. CASE p # 0
  <2>2. p \in DOMAIN mem /\ mem[p].kind = "info"
    BY <1>1, <1>3 DEF IInv, Cells
  <2>3. mem[p] \in Infos /\ mem[p].val \in Values
    BY <2>2, CellFacts DEF IInv, Infos
  <2>4. mem[p].val.len \in Nat /\ ValueMax \in Nat
    BY <2>3, ValuesAssumption, SizeAssumption
  <2>5. CASE mem[p].val.len < ValueMax
    <3>1. ValueAt(p) = mem[p].val
      BY <2>2, <2>5 DEF ValueAt, Obj
    <3> QED BY <1>1, <1>3, <3>1
  <2>6. CASE ~(mem[p].val.len < ValueMax)
    <3>1. PICK q : q = p + mem[p].long
      OBVIOUS
    <3>2. mem[p].val.len >= ValueMax
      BY <2>4, <2>6
    <3>3. q \in DOMAIN mem /\ mem[q].kind = "chars" /\ mem[q].val = mem[p].val
      BY <2>2, <3>1, <3>2 DEF IInv, Cells, Texts
    <3>4. ValueAt(p) = mem[q].val
      BY <2>2, <2>6, <3>1, <3>3 DEF ValueAt, Obj
    <3> QED BY <1>1, <1>3, <3>3, <3>4
  <2> QED BY <2>5, <2>6
<1> QED BY <1>1, <1>2, <1>3

-----------------------------------------------------------------------------
(* The steps of the map. *)

(* A reader as the map sees it. *)
Finder(r) ==
    IF th[r].op = "find" /\ th[r].pc # "idle"
    THEN [name |-> th[r].name, res |-> Unbound, met |-> th[r].met]
    ELSE [name |-> NoName, res |-> th[r].res, met |-> FALSE]

LEMMA MapStutters ==
    ASSUME \A n \in Names : Bound(n)' = Bound(n), \A r \in Readers : Finder(r)' = Finder(r)
    PROVE  UNCHANGED Abstract!vars
BY DEF Abstract!vars, Finder

LEMMA MapAdds ==
    ASSUME NEW n \in Names, NEW v \in Values, Bound(n) = Unbound, Bound(n)' = v,
           \A o \in Names : o # n => Bound(o)' = Bound(o), \A r \in Readers : Finder(r)' = Finder(r)
    PROVE  Abstract!Next
<1>1. Abstract!Add(n, v)
  BY DEF Abstract!Add, Finder
<1> QED BY <1>1 DEF Abstract!Next

LEMMA MapDels ==
    ASSUME NEW n \in Names, Bound(n)' = Unbound, \A o \in Names : o # n => Bound(o)' = Bound(o),
           \A r \in Readers : Finder(r)' = IF Finder(r).name = n THEN [Finder(r) EXCEPT !.met = TRUE] ELSE Finder(r)
    PROVE  Abstract!Next
<1>1. Abstract!Del(n)
  BY DEF Abstract!Del, Finder
<1> QED BY <1>1 DEF Abstract!Next

LEMMA MapFindBegins ==
    ASSUME NEW r \in Readers, NEW n \in Names, Finder(r).name = NoName,
           Finder(r)' = [name |-> n, res |-> Unbound, met |-> FALSE],
           \A s \in Readers : s # r => Finder(s)' = Finder(s), \A o \in Names : Bound(o)' = Bound(o)
    PROVE  Abstract!Next
<1> DEFINE finder == [s \in Readers |-> Finder(s)]
           map == [o \in Names |-> Bound(o)]
<1>2. finder[r].name = NoName
  OBVIOUS
<1>3. finder' = [finder EXCEPT ![r] = [name |-> n, res |-> Unbound, met |-> FALSE]] /\ map' = map
  OBVIOUS
<1>4. /\ finder[r].name = NoName
      /\ \E o \in Names : finder' = [finder EXCEPT ![r] = [name |-> o, res |-> Unbound, met |-> FALSE]]
      /\ map' = map
  BY <1>2, <1>3
<1>1. Abstract!FindBegin(r)
  BY <1>4 DEF Abstract!FindBegin, Finder
<1> QED BY <1>1 DEF Abstract!Next

LEMMA MapFindEnds ==
    ASSUME NEW r \in Readers, NEW v, Finder(r).name \in Names, Finder(r).name # NoName,
           v = Bound(Finder(r).name) \/ (Finder(r).met = TRUE /\ v = Garbage),
           Finder(r)' = [name |-> NoName, res |-> v, met |-> FALSE],
           \A s \in Readers : s # r => Finder(s)' = Finder(s), \A o \in Names : Bound(o)' = Bound(o)
    PROVE  Abstract!Next
<1> DEFINE finder == [s \in Readers |-> Finder(s)]
           map == [n \in Names |-> Bound(n)]
<1>2. finder[r] = Finder(r) /\ map[Finder(r).name] = Bound(Finder(r).name)
  OBVIOUS
<1>3. finder' = [finder EXCEPT ![r] = [name |-> NoName, res |-> v, met |-> FALSE]] /\ map' = map
  OBVIOUS
<1>4. v \in {map[finder[r].name]} \cup IF finder[r].met THEN {Garbage} ELSE {}
  BY <1>2
<1>5. /\ finder[r].name # NoName
      /\ \E u \in {map[finder[r].name]} \cup IF finder[r].met THEN {Garbage} ELSE {} :
           finder' = [finder EXCEPT ![r] = [name |-> NoName, res |-> u, met |-> FALSE]]
      /\ map' = map
  BY <1>2, <1>3, <1>4
<1>1. Abstract!FindEnd(r)
  BY <1>5 DEF Abstract!FindEnd, Finder
<1> QED BY <1>1 DEF Abstract!Next

(* What the map does while the area takes a step. *)
MapSteps == Abstract!Next \/ UNCHANGED Abstract!vars

LEMMA SameBound ==
    ASSUME UNCHANGED mem
    PROVE  \A n : Bound(n)' = Bound(n)
BY DEF Bound

LEMMA SameFinder ==
    ASSUME NEW m \in Mutators, \A u \in Threads : u # m => th'[u] = th[u]
    PROVE  \A r \in Readers : Finder(r)' = Finder(r)
<1> SUFFICES ASSUME NEW r \in Readers
             PROVE  Finder(r)' = Finder(r)
  OBVIOUS
<1>1. th'[r] = th[r]
  BY NotReader DEF Threads
<1> QED BY <1>1 DEF Finder

LEMMA MutatorStutters ==
    ASSUME IInv, NEW t \in Mutators, NEW r, Go(t, r), UNCHANGED mem
    PROVE  MapSteps
<1>1. \A u \in Threads : u # t => th'[u] = th[u]
  BY Goes, NotReader DEF IInv
<1> QED BY <1>1, SameBound, SameFinder, MapStutters DEF MapSteps

LEMMA Seeking ==
    ASSUME Readings, NEW N, NEW R, MapOf(N, R), NEW r \in Readers, th[r].pc \in Busy
    PROVE  /\ Finder(r) = [name |-> th[r].name, res |-> Unbound, met |-> th[r].met]
           /\ Finder(r).name = th[r].name /\ Finder(r).met = th[r].met
           /\ th[r].name \in Names /\ th[r].name # NoName /\ r \in Threads /\ th[r].op = "find"
<1>1. th[r].op = "find" /\ r \in Threads /\ th[r].pc # "idle"
  BY DEF Readings, Reading, Threads, Busy
<1>2. th[r].name \in Names
  BY <1>1 DEF MapOf, Seek
<1>3. th[r].name # NoName
  BY <1>2, NameFacts
<1>4. Finder(r) = [name |-> th[r].name, res |-> Unbound, met |-> th[r].met]
  BY <1>1 DEF Finder
<1> QED BY <1>1, <1>2, <1>3, <1>4

LEMMA SeekReturns ==
    ASSUME IInv, Readings, NEW N, NEW R, MapOf(N, R), NEW r \in Readers, th[r].pc \in Busy, NEW v, Return(r, v), UNCHANGED mem,
           v = Bound(th[r].name) \/ (th[r].met = TRUE /\ v = Garbage)
    PROVE  MapSteps
<1>1. /\ Finder(r).name = th[r].name /\ Finder(r).met = th[r].met
      /\ th[r].name \in Names /\ th[r].name # NoName /\ r \in Threads
  BY Seeking
<1> DEFINE q == [th[r] EXCEPT !.pc = "idle", !.name = NoName, !.res = v, !.met = FALSE]
<1>2. th'[r] = q /\ \A u \in Threads : u # r => th'[u] = th[u]
  BY <1>1, Goes DEF Return, IInv
<1>3. q.pc = "idle" /\ q.res = v
  BY <1>1 DEF IInv, Types, Shape, Fields
<1> HIDE DEF q
<1>4. Finder(r)' = [name |-> NoName, res |-> v, met |-> FALSE]
  BY <1>2, <1>3 DEF Finder
<1>5. ASSUME NEW s \in Readers, s # r
      PROVE  Finder(s)' = Finder(s)
  <2>1. th'[s] = th[s]
    BY <1>2, <1>5 DEF Threads
  <2> QED BY <2>1 DEF Finder
<1>6. v = Bound(Finder(r).name) \/ (Finder(r).met = TRUE /\ v = Garbage)
  BY <1>1
<1>7. \A o \in Names : Bound(o)' = Bound(o)
  BY SameBound
<1>8. Finder(r).name \in Names /\ Finder(r).name # NoName
  BY <1>1
<1> QED BY <1>4, <1>5, <1>6, <1>7, <1>8, MapFindEnds DEF MapSteps

LEMMA SeekGoes ==
    ASSUME IInv, Readings, NEW N, NEW R, MapOf(N, R), NEW r \in Readers, th[r].pc \in Busy, NEW q, Go(r, q), UNCHANGED mem,
           q.pc # "idle", q.op = th[r].op, q.name = th[r].name, q.met = th[r].met
    PROVE  MapSteps
<1>1. /\ Finder(r) = [name |-> th[r].name, res |-> Unbound, met |-> th[r].met]
      /\ r \in Threads /\ th[r].op = "find"
  BY Seeking
<1>2. th'[r] = q /\ \A u \in Threads : u # r => th'[u] = th[u]
  BY <1>1, Goes DEF IInv
<1>3. ASSUME NEW s \in Readers
      PROVE  Finder(s)' = Finder(s)
  <2>1. CASE s = r
    BY <1>1, <1>2, <2>1 DEF Finder
  <2>2. CASE s # r
    <3>1. th'[s] = th[s]
      BY <1>2, <2>2 DEF Threads
    <3> QED BY <3>1 DEF Finder
  <2> QED BY <2>1, <2>2
<1> QED BY <1>3, SameBound, MapStutters DEF MapSteps

LEMMA SeekFollows ==
    ASSUME IInv, IInv', Readings, NEW N, NEW R, MapOf(N, R), NEW r \in Readers, th[r].pc \in {"trie", "bt"},
           NEW l \in Links, NEW off, Follow(r, off, l), UNCHANGED mem, off = mem[th[r].cur][l],
           Pre(th[r].name, th[r].pos) \in Via(N, R, th[r].cur, l)
    PROVE  MapSteps
<1>0. th[r].pc \in Busy
  BY DEF Busy
<1>1. th[r].op = "find" /\ r \in Threads /\ Shape(th[r])
  BY <1>0 DEF Readings, Reading, Threads, IInv, Types
<1>2. CASE off # 0
  <2> DEFINE q == [th[r] EXCEPT !.pc = "bt", !.cur = off]
  <2>1. Go(r, q)
    BY <1>2 DEF Follow
  <2>2. q.pc = "bt" /\ q.op = th[r].op /\ q.name = th[r].name /\ q.met = th[r].met
    BY <1>1 DEF Shape, Fields
  <2> HIDE DEF q
  <2>3. q.pc # "idle"
    BY <2>2
  <2> QED BY <1>0, <2>1, <2>2, <2>3, SeekGoes
<1>3. CASE off = 0
  <2>1. Return(r, Unbound)
    BY <1>1, <1>3 DEF Follow
  <2>2. th[r].name \in Names /\ th[r].pos \in 1..Len(th[r].name) /\ th[r].cur \in Linked
    BY <1>0, <1>1 DEF MapOf, Seek
  <2>3. Bound(th[r].name) = Unbound
    BY <1>3, <2>2, Missed
  <2> QED BY <1>0, <2>1, <2>3, SeekReturns
<1> QED BY <1>2, <1>3

LEMMA DescendSteps ==
    ASSUME IInv, IInv', Readings, Texts, NEW N, NEW R, MapOf(N, R), NEW r \in Readers, Descend(r)
    PROVE  MapSteps
<1>t. r \in Threads /\ Shape(th[r]) /\ Reading(th[r])
  BY DEF Threads, IInv, Types, Readings
<1>1. CASE TrieLevel(r)
  <2>0. th[r].pc = "trie" /\ UNCHANGED mem /\ th[r].pc \in Busy
    BY <1>1 DEF TrieLevel, Busy
  <2>1. /\ th[r].cur \in Linked /\ Obj(th[r].cur) = mem[th[r].cur]
        /\ Pre(th[r].name, th[r].pos) \in Via(N, R, th[r].cur, "children")
    BY <1>t, <2>0, AtTrie
  <2>2. "children" \in Links
    BY DEF Links
  <2>3. CASE Token(r).len = 0
    <3>1. Return(r, Unbound)
      BY <1>1, <2>3 DEF TrieLevel
    <3>2. th[r].name \in Names /\ th[r].pos \in 1..Len(th[r].name)
      BY <1>t, <2>0 DEF MapOf, Seek
    <3>3. th[r].name[th[r].pos].len = 0
      BY <2>3 DEF Token
    <3>4. Bound(th[r].name) = Unbound
      BY <2>1, <2>2, <3>2, <3>3, Missed
    <3> QED BY <2>0, <3>1, <3>4, SeekReturns
  <2>4. CASE Token(r).len # 0
    <3>1. Follow(r, mem[th[r].cur]["children"], "children")
      BY <1>1, <2>1, <2>4 DEF TrieLevel
    <3> QED BY <2>0, <2>1, <2>2, <3>1, SeekFollows
  <2> QED BY <2>3, <2>4
<1>2. CASE BtLevel(r)
  <2>0. th[r].pc = "bt" /\ UNCHANGED mem /\ th[r].pc \in Busy
    BY <1>2 DEF BtLevel, Busy
  <2>c. PICK c : c = th[r].cur
    OBVIOUS
  <2>p. PICK p : p = Pre(th[r].name, th[r].pos)
    OBVIOUS
  <2>1. /\ c \in Linked /\ Obj(c) = mem[c]
        /\ Token(r) # mem[c].name /\ Before(Token(r), mem[c].name) => p \in Via(N, R, c, "left")
        /\ Token(r) # mem[c].name /\ ~Before(Token(r), mem[c].name) => p \in Via(N, R, c, "right")
    BY <1>t, <2>0, <2>c, <2>p, AtBt
  <2>2. CASE Token(r) = mem[c].name
    <3>1. CASE th[r].pos = Len(th[r].name)
      <4> DEFINE q == [th[r] EXCEPT !.pc = "prop"]
      <4>o. th[r].op = "find"
        BY <1>t, <2>0 DEF Reading
      <4>1. Go(r, q)
        BY <1>2, <2>1, <2>2, <2>c, <3>1, <4>o DEF BtLevel
      <4>2. q.pc = "prop" /\ q.op = th[r].op /\ q.name = th[r].name /\ q.met = th[r].met
        BY <1>t DEF Shape, Fields
      <4> HIDE DEF q
      <4>3. q.pc # "idle"
        BY <4>2
      <4> QED BY <2>0, <4>1, <4>2, <4>3, SeekGoes
    <3>2. CASE th[r].pos # Len(th[r].name)
      <4> DEFINE q == [th[r] EXCEPT !.pc = "trie", !.pos = th[r].pos + 1]
      <4>1. Go(r, q)
        BY <1>2, <2>1, <2>2, <2>c, <3>2 DEF BtLevel
      <4>2. q.pc = "trie" /\ q.op = th[r].op /\ q.name = th[r].name /\ q.met = th[r].met
        BY <1>t DEF Shape, Fields
      <4> HIDE DEF q
      <4>3. q.pc # "idle"
        BY <4>2
      <4> QED BY <2>0, <4>1, <4>2, <4>3, SeekGoes
    <3> QED BY <3>1, <3>2
  <2>3. CASE Token(r) # mem[c].name
    <3>1. \/ Follow(r, mem[c]["left"], "left") /\ p \in Via(N, R, c, "left")
          \/ Follow(r, mem[c]["right"], "right") /\ p \in Via(N, R, c, "right")
      BY <1>2, <2>1, <2>3, <2>c DEF BtLevel
    <3>2. "left" \in Links /\ "right" \in Links
      BY DEF Links
    <3>3. CASE Follow(r, mem[c]["left"], "left") /\ p \in Via(N, R, c, "left")
      BY <2>0, <2>c, <2>p, <3>2, <3>3, SeekFollows
    <3>4. CASE Follow(r, mem[c]["right"], "right") /\ p \in Via(N, R, c, "right")
      BY <2>0, <2>c, <2>p, <3>2, <3>4, SeekFollows
    <3> QED BY <3>1, <3>3, <3>4
  <2> QED BY <2>2, <2>3
<1>3. CASE LoadProp(r)
  <2>0. th[r].pc = "prop" /\ UNCHANGED mem /\ th[r].pc \in Busy
    BY <1>3 DEF LoadProp, Busy
  <2>1. th[r].cur \in Linked /\ Obj(th[r].cur) = mem[th[r].cur] /\ N[th[r].cur] = th[r].name
    BY <1>t, <2>0 DEF MapOf, Seek, Infoing, Linked, Obj
  <2>2. th[r].op = "find"
    BY <1>t, <2>0 DEF Reading
  <2>3. CASE mem[th[r].cur].prop # 0
    <3> DEFINE q == [th[r] EXCEPT !.pc = "reread"]
    <3>1. Go(r, q)
      BY <1>3, <2>1, <2>3 DEF LoadProp
    <3>2. q.pc = "reread" /\ q.op = th[r].op /\ q.name = th[r].name /\ q.met = th[r].met
      BY <1>t DEF Shape, Fields
    <3> HIDE DEF q
    <3>3. q.pc # "idle"
      BY <3>2
    <3> QED BY <2>0, <3>1, <3>2, <3>3, SeekGoes
  <2>4. CASE mem[th[r].cur].prop = 0
    <3>1. Return(r, Unbound)
      BY <1>3, <2>1, <2>2, <2>4 DEF LoadProp
    <3>2. Bound(N[th[r].cur]) = Unbound
      BY <2>1, <2>4, BoundAt
    <3> QED BY <2>0, <2>1, <3>1, <3>2, SeekReturns
  <2> QED BY <2>3, <2>4
<1>4. CASE RereadProp(r)
  <2>0. th[r].pc = "reread" /\ UNCHANGED mem /\ th[r].pc \in Busy
    BY <1>4 DEF RereadProp, Busy
  <2>1. /\ th[r].cur \in Linked /\ Obj(th[r].cur) = mem[th[r].cur] /\ N[th[r].cur] = th[r].name
        /\ th[r].cur \in DOMAIN mem /\ mem[th[r].cur].kind = "bt"
    BY <1>t, <2>0 DEF MapOf, Seek, Infoing, Linked, Obj
  <2>2. PICK v : v = ValueAt(mem[th[r].cur].prop)
    OBVIOUS
  <2>3. Return(r, v)
    BY <1>4, <2>1, <2>2 DEF RereadProp
  <2>4. CASE mem[th[r].cur].prop = 0
    <3>1. v = Garbage
      BY <2>1, <2>2, <2>4, ValueRead
    <3>2. th[r].met = TRUE
      BY <1>t, <2>0, <2>4 DEF Reading
    <3> QED BY <2>0, <2>3, <3>1, <3>2, SeekReturns
  <2>5. CASE mem[th[r].cur].prop # 0
    <3>1. v = mem[mem[th[r].cur].prop].val
      BY <2>1, <2>2, <2>5, ValueRead
    <3>2. Bound(N[th[r].cur]) = mem[mem[th[r].cur].prop].val
      BY <2>1, <2>5, BoundAt
    <3>3. v = Bound(th[r].name)
      BY <2>1, <3>1, <3>2
    <3> QED BY <2>0, <2>3, <3>3, SeekReturns
  <2> QED BY <2>4, <2>5
<1> QED BY <1>1, <1>2, <1>3, <1>4 DEF Descend

(* The readers' other calls. *)
LEMMA BeginSteps ==
    ASSUME IInv, Readings, NEW r \in Readers, FindBegin(r) \/ ForeachBegin(r) \/ ForeachStep(r) \/ ForeachEnd(r)
    PROVE  MapSteps
<1>t. r \in Threads /\ Shape(th[r]) /\ Reading(th[r]) /\ UNCHANGED mem
  BY DEF Threads, IInv, Types, Readings, FindBegin, ForeachBegin, ForeachStep, ForeachEnd
<1>b. \A o \in Names : Bound(o)' = Bound(o)
  BY <1>t, SameBound
<1>o. ASSUME NEW q, Go(r, q)
      PROVE  th'[r] = q /\ \A s \in Readers : s # r => Finder(s)' = Finder(s)
  <2>1. th'[r] = q /\ \A u \in Threads : u # r => th'[u] = th[u]
    BY <1>o, <1>t, Goes DEF IInv
  <2>2. ASSUME NEW s \in Readers, s # r
        PROVE  Finder(s)' = Finder(s)
    <3>1. th'[s] = th[s]
      BY <2>1, <2>2 DEF Threads
    <3> QED BY <3>1 DEF Finder
  <2> QED BY <2>1, <2>2
<1>1. CASE FindBegin(r)
  <2>1. PICK n \in Names : Go(r, [Idle EXCEPT !.pc = "trie", !.op = "find", !.name = n])
    BY <1>1 DEF FindBegin
  <2> DEFINE q == [Idle EXCEPT !.pc = "trie", !.op = "find", !.name = n]
  <2>2. q.pc = "trie" /\ q.op = "find" /\ q.met = FALSE /\ q.name = n
    BY DEF Idle
  <2> HIDE DEF q
  <2>3. Go(r, q)
    BY <2>1 DEF q
  <2>4. th'[r] = q /\ \A s \in Readers : s # r => Finder(s)' = Finder(s)
    BY <1>o, <2>3
  <2>5. Finder(r)' = [name |-> n, res |-> Unbound, met |-> FALSE]
    BY <2>2, <2>4 DEF Finder
  <2>6. th[r].pc = "idle"
    BY <1>1 DEF FindBegin
  <2>7. Finder(r).name = NoName
    BY <2>6 DEF Finder
  <2> QED BY <1>b, <2>4, <2>5, <2>7, MapFindBegins DEF MapSteps
<1>2. ASSUME NEW q, Go(r, q), q.res = th[r].res, q.pc = "idle" \/ q.op = "foreach", th[r].pc = "idle" \/ th[r].op = "foreach"
      PROVE  MapSteps
  <2>1. th'[r] = q /\ \A s \in Readers : s # r => Finder(s)' = Finder(s)
    BY <1>2, <1>o
  <2>2. Finder(r)' = [name |-> NoName, res |-> th[r].res, met |-> FALSE]
    BY <1>2, <2>1 DEF Finder
  <2>3. Finder(r) = [name |-> NoName, res |-> th[r].res, met |-> FALSE]
    BY <1>2 DEF Finder
  <2> QED BY <1>b, <2>1, <2>2, <2>3, MapStutters DEF MapSteps
<1>3. CASE ForeachBegin(r)
  <2>1. PICK stack, keep : Go(r, [Idle EXCEPT !.pc = "foreach", !.op = "foreach", !.res = th[r].res, !.stack = stack, !.keep = keep])
    BY <1>3 DEF ForeachBegin
  <2> DEFINE q == [Idle EXCEPT !.pc = "foreach", !.op = "foreach", !.res = th[r].res, !.stack = stack, !.keep = keep]
  <2>2. q.op = "foreach" /\ q.res = th[r].res
    BY DEF Idle
  <2> HIDE DEF q
  <2>3. Go(r, q)
    BY <2>1 DEF q
  <2>4. th[r].pc = "idle"
    BY <1>3 DEF ForeachBegin
  <2> QED BY <1>2, <2>2, <2>3, <2>4
<1>4. CASE ForeachStep(r)
  <2>1. th[r].pc = "foreach" /\ \E stack, seen : Go(r, [th[r] EXCEPT !.stack = stack, !.seen = seen])
    BY <1>4 DEF ForeachStep
  <2>2. PICK stack, seen : Go(r, [th[r] EXCEPT !.stack = stack, !.seen = seen])
    BY <2>1
  <2> DEFINE q == [th[r] EXCEPT !.stack = stack, !.seen = seen]
  <2>3. q.op = th[r].op /\ q.res = th[r].res
    BY <1>t DEF Shape, Fields
  <2> HIDE DEF q
  <2>4. Go(r, q)
    BY <2>2 DEF q
  <2>5. th[r].op = "foreach"
    BY <1>t, <2>1 DEF Reading
  <2> QED BY <1>2, <2>3, <2>4, <2>5
<1>5. CASE ForeachEnd(r)
  <2> DEFINE q == [th[r] EXCEPT !.pc = "idle", !.seen = <<>>, !.keep = {}, !.met = FALSE]
  <2>1. q.pc = "idle" /\ q.res = th[r].res
    BY <1>t DEF Shape, Fields
  <2> HIDE DEF q
  <2>2. Go(r, q)
    BY <1>5 DEF q, ForeachEnd
  <2>3. th[r].op = "foreach"
    BY <1>5, <1>t DEF Reading, ForeachEnd
  <2> QED BY <1>2, <2>1, <2>2, <2>3
<1> QED BY <1>1, <1>3, <1>4, <1>5

(* The stores: one binds, one unbinds, the others are hidden. *)
LEMMA HiddenSteps ==
    ASSUME IInv, IInv', NEW t \in Mutators, BuildBtEffect(t) \/ BuildInfoEffect(t) \/ LinkBtEffect(t)
    PROVE  MapSteps
<1>1. \A u \in Threads : u # t => th'[u] = th[u]
  BY DEF BuildBtEffect, BuildInfoEffect, LinkBtEffect
<1>2. \A n : Bound(n)' = Bound(n)
  <2>1. CASE BuildBtEffect(t)
    BY <2>1, BoundKept DEF BuildBtEffect
  <2>2. CASE BuildInfoEffect(t)
    BY <2>2, BoundKept DEF BuildInfoEffect
  <2>3. CASE LinkBtEffect(t)
    <3>1. \A o \in DOMAIN mem : o \in DOMAIN mem' /\ mem'[o].kind = mem[o].kind /\ (mem[o].kind = "info" => mem'[o] = mem[o])
                                /\ (mem[o].kind = "bt" => mem'[o].prop = mem[o].prop)
      BY <2>3 DEF LinkBtEffect, Written
    <3>2. DOMAIN mem' = DOMAIN mem
      BY <2>3 DEF LinkBtEffect, Written
    <3> QED BY <3>1, <3>2, BoundKept
  <2> QED BY <2>1, <2>2, <2>3
<1> QED BY <1>1, <1>2, SameFinder, MapStutters DEF MapSteps

LEMMA LinkInfoSteps ==
    ASSUME IInv, IInv', NEW N, NEW R, MapOf(N, R), MapOf(N, R)', Linked' = Linked, NEW t \in Mutators, LinkInfoEffect(t)
    PROVE  MapSteps
<1>t. t \in Threads
  BY DEF Threads
<1>1. PICK c, n, v, x : c = th[t].cur /\ n = th[t].name /\ v = th[t].val /\ x = th[t].new
  OBVIOUS
<1>k. Seek(N, R, th[t]) /\ th[t].pc = "linkInfo" /\ th[t].pc \in Busy
  BY <1>t DEF MapOf, LinkInfoEffect, Busy
<1>2. /\ c \in Linked /\ N[c] = n /\ n \in Names /\ mem[c].prop = 0 /\ mem[x].val = v
      /\ v \in Values /\ x \in DOMAIN mem /\ mem[x].kind = "info" /\ mem'[c].prop = x /\ Written(c)
  BY <1>1, <1>k DEF Seek, Infoing, LinkInfoEffect
<1>3. Bound(n) = Unbound
  BY <1>2, BoundAt
<1>4. x # 0 /\ mem'[x] = mem[x]
  <2>1. mem[0].kind = "bt"
    BY DEF IInv, Cells, IsNode
  <2> QED BY <1>2, <2>1 DEF Written
<1>5. Bound(n)' = v /\ \A o : o # n => Bound(o)' = Bound(o)
  <2>1. /\ Bound(N[c])' = IF mem'[c].prop = 0 THEN Unbound ELSE mem'[mem'[c].prop].val
        /\ \A o : o # N[c] => Bound(o)' = Bound(o)
    BY <1>2, BoundStored
  <2>2. Bound(N[c])' = v
    BY <1>2, <1>4, <2>1
  <2>3. Bound(n)' = Bound(N[c])'
    BY <1>2
  <2> QED BY <1>2, <2>1, <2>2, <2>3
<1>6. \A r \in Readers : Finder(r)' = Finder(r)
  BY SameFinder DEF LinkInfoEffect
<1> QED BY <1>2, <1>3, <1>5, <1>6, MapAdds DEF MapSteps

\* A find() that meets a del() keeps its name and its answer.
LEMMA Noted ==
    \A n, u, m, f : f = [name |-> n, res |-> u, met |-> m]
                       => [f EXCEPT !.met = TRUE] = [name |-> n, res |-> u, met |-> TRUE]
<1> TAKE n, u, m, f
<1>1. PICK b : b = TRUE
  OBVIOUS
<1>2. f = [name |-> n, res |-> u, met |-> m] => [f EXCEPT !.met = b] = [name |-> n, res |-> u, met |-> b]
  OBVIOUS
<1> QED BY <1>1, <1>2, Zenon

LEMMA ClearPropSteps ==
    ASSUME IInv, IInv', Readings, NEW N, NEW R, MapOf(N, R), MapOf(N, R)', Linked' = Linked, NEW t \in Mutators, ClearPropEffect(t)
    PROVE  MapSteps
<1>t. t \in Threads
  BY DEF Threads
<1>1. PICK c, n : c = th[t].cur /\ n = th[t].name
  OBVIOUS
<1>k. Seek(N, R, th[t]) /\ th[t].pc = "clear" /\ th[t].pc \in Busy
  BY <1>t DEF MapOf, ClearPropEffect, Busy
<1>2. c \in Linked /\ N[c] = n /\ n \in Names /\ mem'[c].prop = 0 /\ Written(c)
  BY <1>1, <1>k DEF Seek, Infoing, ClearPropEffect
<1>5. Bound(n)' = Unbound /\ \A o : o # n => Bound(o)' = Bound(o)
  <2>1. /\ Bound(N[c])' = IF mem'[c].prop = 0 THEN Unbound ELSE mem'[mem'[c].prop].val
        /\ \A o : o # N[c] => Bound(o)' = Bound(o)
    BY <1>2, BoundStored
  <2>3. Bound(n)' = Bound(N[c])'
    BY <1>2
  <2> QED BY <1>2, <2>1, <2>3
<1>6. ASSUME NEW r \in Readers
      PROVE  Finder(r)' = IF Finder(r).name = n THEN [Finder(r) EXCEPT !.met = TRUE] ELSE Finder(r)
  <2>1. r # t /\ r \in Threads
    BY NotReader DEF Threads
  <2>2. /\ th'[r].pc = th[r].pc /\ th'[r].op = th[r].op /\ th'[r].name = th[r].name /\ th'[r].res = th[r].res
        /\ th'[r].met = (th[r].met \/ th[r].name = n \/ th[r].op = "foreach")
    <3>1. {"pc", "op", "name", "res"} \subseteq Fields \ {"met", "keep"}
      BY DEF Fields
    <3> QED BY <1>1, <2>1, <3>1 DEF ClearPropEffect
  <2>3. CASE th[r].op = "find" /\ th[r].pc # "idle"
    <3>1. /\ Finder(r) = [name |-> th[r].name, res |-> Unbound, met |-> th[r].met]
          /\ Finder(r)' = [name |-> th[r].name, res |-> Unbound, met |-> th'[r].met]
      BY <2>2, <2>3 DEF Finder
    <3>2. th[r].met \in BOOLEAN
      BY DEF Readings, Reading
    <3>3. th[r].op # "foreach"
      BY <2>3
    <3>4. CASE th[r].name = n
      <4>1. th'[r].met = TRUE
        BY <2>2, <3>4, Zenon
      <4>2. PICK m : m = th[r].met
        OBVIOUS
      <4>3. Finder(r) = [name |-> n, res |-> Unbound, met |-> m]
        BY <3>1, <3>4, <4>2
      <4>4. Finder(r)' = [name |-> n, res |-> Unbound, met |-> TRUE]
        BY <3>1, <3>4, <4>1, Zenon
      <4>5. Finder(r).name = n
        BY <4>3
      <4>6. [Finder(r) EXCEPT !.met = TRUE] = [name |-> n, res |-> Unbound, met |-> TRUE]
        <5>1. PICK f : f = Finder(r)
          OBVIOUS
        <5>2. f = [name |-> n, res |-> Unbound, met |-> m]
          BY <4>3, <5>1
        <5>3. [f EXCEPT !.met = TRUE] = [name |-> n, res |-> Unbound, met |-> TRUE]
          BY <5>2, Noted, Zenon
        <5> QED BY <5>1, <5>3, Zenon
      <4> QED BY <4>4, <4>5, <4>6
    <3>5. CASE th[r].name # n
      <4>1. th'[r].met = th[r].met
        BY <2>2, <3>2, <3>3, <3>5, Zenon
      <4> QED BY <3>1, <3>5, <4>1
    <3> QED BY <3>4, <3>5
  <2>4. CASE ~(th[r].op = "find" /\ th[r].pc # "idle")
    <3>1. /\ Finder(r) = [name |-> NoName, res |-> th[r].res, met |-> FALSE]
          /\ Finder(r)' = [name |-> NoName, res |-> th[r].res, met |-> FALSE]
      BY <2>2, <2>4 DEF Finder
    <3>2. n # NoName
      BY <1>2, NameFacts
    <3> QED BY <3>1, <3>2
  <2> QED BY <2>3, <2>4
<1> QED BY <1>2, <1>5, <1>6, MapDels DEF MapSteps

-----------------------------------------------------------------------------
(* The area is a map. *)
GInv == Readings /\ Texts /\ \E N, R : MapOf(N, R)

LEMMA InitGInv ==
    ASSUME Init
    PROVE  GInv /\ Abstract!Init
<1>i. IInv
  BY InitIInv
<1>0. PICK z : z = ZeroNode
  OBVIOUS
<1>1. DOMAIN mem = {0} /\ mem[0] = z
  BY <1>0 DEF Init
<1>2. z.kind = "bt" /\ z.prop = 0 /\ \A f \in Links : z[f] = 0
  <2>1. z.kind = "bt" /\ z.prop = 0 /\ z.left = 0 /\ z.right = 0 /\ z.children = 0
    BY <1>0 DEF ZeroNode
  <2> QED BY <2>1 DEF Links
<1>3. Idle.pc = "idle" /\ Idle.met = FALSE /\ Idle.op = "none" /\ Idle.res = Unbound
  BY DEF Idle
<1>4. \A t \in Threads : th[t] = Idle
  BY DEF Init
<1>5. Readings
  BY <1>3, <1>4 DEF Readings, Reading, Threads, Busy
<1>6. Texts
  BY <1>1, <1>2 DEF Texts
<1>7. \E N, R : MapOf(N, R)
  <2>1. PICK N, R : N = [o \in {0} |-> <<>>] /\ R = [o \in {0} |-> {}]
    OBVIOUS
  <2>2. N[0] = <<>> /\ R[0] = {}
    BY <2>1
  <2>3. Linked = {0}
    BY <1>1, <1>2, <1>3, <1>4 DEF Linked, Threads
  <2>4. Paths(N, R, Linked)
    <3>1. <<>> \in Seq(Tokens) /\ Len(<<>>) = 0
      OBVIOUS
    <3>2. Pre(<<>>, 0) = <<>>
      BY <3>1, PreEnds
    <3>3. \A k \in 0..Len(N[0]) : N[0] = Pre(N[0], k)
      BY <2>2, <3>1, <3>2
    <3> QED BY <2>2, <2>3, <3>3 DEF Paths
  <2>5. Ways(N, R, Linked)
    <3>1. \A f \in Links : mem[0][f] = 0
      BY <1>1, <1>2
    <3>2. \A f \in Links : f # "children" => Via(N, R, 0, f) = {}
      BY <2>2 DEF Via
    <3>3. \A f \in Links : N[0] \notin Via(N, R, 0, f)
      BY <2>2 DEF Via, Prefixes
    <3> QED BY <2>3, <3>1, <3>2, <3>3 DEF Ways
  <2>6. Labels(N, Linked)
    BY <1>1, <1>2, <2>3 DEF Labels
  <2>7. \A t \in Threads : Seek(N, R, th[t])
    BY <1>3, <1>4 DEF Seek, Busy
  <2> QED BY <2>4, <2>5, <2>6, <2>7 DEF MapOf
<1>8. Abstract!Init
  <2>1. \A n : Bound(n) = Unbound
    <3> SUFFICES ASSUME NEW n
                 PROVE  Bound(n) = Unbound
      OBVIOUS
    <3> DEFINE infos == {mem[o].prop : o \in {p \in DOMAIN mem : mem[p].kind = "bt"}} \ {0}
               mine == {i \in infos \cap DOMAIN mem : mem[i].kind = "info" /\ mem[i].name = n}
    <3>1. mine = {}
      BY <1>1, <1>2
    <3> QED BY <3>1 DEF Bound
  <2>2. \A r \in Readers : Finder(r) = [name |-> NoName, res |-> Unbound, met |-> FALSE]
    BY <1>3, <1>4 DEF Finder, Threads
  <2> QED BY <2>1, <2>2 DEF Abstract!Init, Finder
<1> QED BY <1>5, <1>6, <1>7, <1>8 DEF GInv

LEMMA StepGInv ==
    ASSUME SingleMutator, IInv, GInv, [Next]_vars
    PROVE  GInv' /\ MapSteps
<1>i. IInv'
  BY StepIInv
<1>0. PICK N, R : MapOf(N, R)
  BY DEF GInv
<1>g. Readings /\ Texts
  BY DEF GInv
<1>t. ASSUME UNCHANGED mem
      PROVE  Texts'
  BY <1>g, <1>t DEF Texts
<1>1. CASE UNCHANGED vars
  <2>1. UNCHANGED <<mem, th>>
    BY <1>1 DEF vars
  <2>2. Readings' /\ Texts'
    BY <1>g, <2>1 DEF Readings, Reading, Texts
  <2>3. MapOf(N, R)'
    BY <1>0, <2>1 DEF MapOf, Linked, Paths, Ways, Labels, Seek
  <2>4. (\A n \in Names : Bound(n)' = Bound(n)) /\ \A r \in Readers : Finder(r)' = Finder(r)
    BY <2>1 DEF Bound, Finder
  <2> QED BY <2>2, <2>3, <2>4, MapStutters DEF GInv, MapSteps
<1>2. ASSUME NEW m \in Mutators, AddBegin(m) \/ DelBegin(m)
      PROVE  GInv' /\ MapSteps
  <2>1. m \in Threads /\ UNCHANGED mem /\ \E r : Go(m, r)
    BY <1>2, NotReader DEF AddBegin, DelBegin
  <2>2. MapOf(N, R)'
    BY <1>0, <1>2, <2>1, BeginsMap
  <2> QED BY <1>g, <1>t, <2>1, <2>2, MutatorReads, MutatorStutters DEF GInv
<1>3. ASSUME NEW m \in Mutators, AllocateBt(m) \/ AllocateInfo(m) \/ AllocateLong(m)
      PROVE  GInv' /\ MapSteps
  <2>1. m \in Threads /\ UNCHANGED mem /\ \E r : Go(m, r)
    BY <1>3, NotReader DEF AllocateBt, AllocateInfo, AllocateLong, Allocate, Return
  <2>2. MapOf(N, R)'
    BY <1>0, <1>3, <2>1, AllocateMaps
  <2> QED BY <1>g, <1>t, <2>1, <2>2, MutatorReads, MutatorStutters DEF GInv
<1>4. ASSUME NEW m \in Mutators, BuildBt(m) \/ BuildInfo(m)
      PROVE  GInv' /\ MapSteps
  <2>1. BuildBtEffect(m) \/ BuildInfoEffect(m)
    BY <1>4, BuildBtDoes, BuildInfoDoes
  <2>2. MapOf(N, R)'
    BY <1>0, <1>g, <2>1, BuildBtMaps, BuildInfoMaps
  <2> QED BY <1>0, <1>g, <1>i, <2>1, <2>2, BuiltTexts, StoreReads, HiddenSteps DEF GInv
<1>5. ASSUME NEW m \in Mutators, LinkBt(m)
      PROVE  GInv' /\ MapSteps
  <2>1. LinkBtEffect(m)
    BY <1>5, LinkBtDoes
  <2>2. \E N2, R2 : MapOf(N2, R2)'
    BY <1>0, <1>g, <2>1, LinkBtMaps
  <2>3. Texts'
    BY <1>g, <2>1, WrittenTexts DEF LinkBtEffect
  <2>4. Readings'
    BY <1>0, <1>g, <2>1, StoreReads
  <2> QED BY <1>i, <2>1, <2>2, <2>3, <2>4, HiddenSteps DEF GInv
<1>6. ASSUME NEW m \in Mutators, LinkInfo(m)
      PROVE  GInv' /\ MapSteps
  <2>1. LinkInfoEffect(m)
    BY <1>6, LinkInfoDoes
  <2>2. MapOf(N, R)' /\ Linked' = Linked
    BY <1>0, <1>g, <2>1, LinkInfoMaps
  <2>3. Texts'
    BY <1>g, <2>1, WrittenTexts DEF LinkInfoEffect
  <2>4. Readings'
    BY <1>0, <1>g, <2>1, StoreReads
  <2> QED BY <1>0, <1>i, <2>1, <2>2, <2>3, <2>4, LinkInfoSteps DEF GInv
<1>7. ASSUME NEW m \in Mutators, ClearProp(m)
      PROVE  GInv' /\ MapSteps
  <2>1. ClearPropEffect(m)
    BY <1>7, ClearPropDoes
  <2>2. MapOf(N, R)' /\ Linked' = Linked
    BY <1>0, <1>g, <2>1, ClearPropMaps
  <2>3. Texts'
    BY <1>g, <2>1, WrittenTexts DEF ClearPropEffect
  <2>4. Readings'
    BY <1>0, <1>g, <2>1, ClearPropReads
  <2> QED BY <1>0, <1>g, <1>i, <2>1, <2>2, <2>3, <2>4, ClearPropSteps DEF GInv
<1>8. ASSUME NEW r \in Readers, FindBegin(r) \/ ForeachBegin(r) \/ ForeachStep(r) \/ ForeachEnd(r)
      PROVE  GInv' /\ MapSteps
  <2>1. r \in Threads /\ UNCHANGED mem
    BY <1>8 DEF Threads, FindBegin, ForeachBegin, ForeachStep, ForeachEnd
  <2>2. MapOf(N, R)'
    BY <1>0, <1>8, <2>1, BeginsMap, ForeachMaps
  <2>3. Readings'
    BY <1>8, <1>g, BeginReads
  <2>4. MapSteps
    BY <1>8, <1>g, BeginSteps
  <2> QED BY <1>t, <2>1, <2>2, <2>3, <2>4 DEF GInv
<1>9. ASSUME NEW t \in Threads, Descend(t)
      PROVE  GInv' /\ MapSteps
  <2>1. UNCHANGED mem
    BY <1>9 DEF Descend, TrieLevel, BtLevel, LoadProp, RereadProp
  <2>2. MapOf(N, R)'
    BY <1>0, <1>9, TrieLevelMaps, BtLevelMaps, LoadPropMaps, RereadPropMaps DEF Descend
  <2>3. Readings'
    BY <1>0, <1>9, <1>g, DescendReads
  <2>4. CASE t \in Readers
    BY <1>0, <1>9, <1>g, <1>i, <1>t, <2>1, <2>2, <2>3, <2>4, DescendSteps DEF GInv
  <2>5. CASE t \in Mutators
    <3>1. \E r : Go(t, r)
      BY <1>9 DEF Descend, TrieLevel, BtLevel, LoadProp, RereadProp, Follow, Return
    <3>2. MapSteps
      BY <2>1, <2>5, <3>1, MutatorStutters
    <3> QED BY <1>t, <2>1, <2>2, <2>3, <3>2 DEF GInv
  <2> QED BY <2>4, <2>5 DEF Threads
<1> QED BY <1>1, <1>2, <1>3, <1>4, <1>5, <1>6, <1>7, <1>8, <1>9 DEF Next, Create

(* The trie, extended node by node under readers without a lock, implements the map   *)
(* of PropertyMap: a name is bound by the one store that publishes its prop_info and   *)
(* unbound by the one store of del(), whatever was reserved, built and linked before;  *)
(* and every find() returns what its name was bound to at a moment of its run, wherever *)
(* in the trees the mutator was at work, or garbage if a del() of the name came between *)
(* its two loads of prop.  For any number of readers, any names, values and area size.  *)
THEOREM Implements ==
    ASSUME SingleMutator
    PROVE  Spec => ImplementsMap
<1>1. Init => GInv /\ Abstract!Init
  BY InitGInv
<1>2. IInv /\ GInv /\ [Next]_vars => GInv' /\ [Abstract!Next]_(Abstract!vars)
  BY StepGInv DEF MapSteps
<1> QED BY <1>1, <1>2, Invariant, PTL DEF Spec, ImplementsMap, Abstract!Spec

-----------------------------------------------------------------------------
(* foreach().  The prefixes that lie behind a link of a node: beyond the node itself, *)
(* in its binary tree or in the trie below.  A node that is linked later comes to lie *)
(* behind the link it is stored in. *)
Behind(N, R, o, f) ==
    {q \in Prefixes :
       IF f = "children" THEN Len(N[o]) < Len(q) /\ Pre(q, Len(N[o])) = N[o]
       ELSE Len(N[o]) <= Len(q) /\ Pre(q, Len(N[o])) \in Via(N, R, o, f)}

Ats == {"left", "prop", "reread", "children", "right"}
Entries == [node : Nat, at : Ats]

(* What an entry of the stack has still to come by. *)
Pending(N, R, e) ==
    {q \in Prefixes :
       \/ e.at \in {"left", "prop", "reread"} /\ q = N[e.node]
       \/ e.at = "left" /\ q \in Behind(N, R, e.node, "left")
       \/ e.at # "right" /\ q \in Behind(N, R, e.node, "children")
       \/ q \in Behind(N, R, e.node, "right")}

LEMMA PathLen ==
    ASSUME NEW N, NEW R, NEW D, Paths(N, R, D), NEW o \in D
    PROVE  N[o] \in Seq(Tokens) /\ Len(N[o]) \in Nat
<1>0. <<>> \in Seq(Tokens) /\ Len(<<>>) = 0
  OBVIOUS
<1>1. CASE o = 0
  BY <1>0, <1>1 DEF Paths
<1>2. CASE o # 0
  BY <1>2, PrefixLen DEF Paths
<1> QED BY <1>1, <1>2

(* What lies behind different links of a node, and the node, are different things. *)
LEMMA Apart ==
    ASSUME NEW N, NEW R, NEW D, Paths(N, R, D), NEW o \in D, NEW q \in Prefixes
    PROVE  /\ q = N[o] => \A f \in Links : q \notin Behind(N, R, o, f)
           /\ q \in Behind(N, R, o, "left") => q \notin Behind(N, R, o, "children") /\ q \notin Behind(N, R, o, "right")
           /\ q \in Behind(N, R, o, "children") => q \notin Behind(N, R, o, "right")
<1>1. N[o] \in Seq(Tokens) /\ Len(N[o]) \in Nat /\ q \in Seq(Tokens) /\ Len(q) \in Nat
  BY PathLen, PrefixLen
<1>2. N[o] \notin Via(N, R, o, "left") /\ N[o] \notin Via(N, R, o, "right")
  BY DEF Via
<1>3. Via(N, R, o, "left") \cap Via(N, R, o, "right") = {}
  BY DEF Via
<1>4. q = N[o] => Pre(q, Len(N[o])) = N[o]
  BY <1>1, PreEnds
<1>5. q = N[o] => \A f \in Links : q \notin Behind(N, R, o, f)
  BY <1>1, <1>2, <1>4 DEF Behind, Links
<1>6. q \in Behind(N, R, o, "children") => Pre(q, Len(N[o])) = N[o]
  BY DEF Behind
<1>7. /\ q \in Behind(N, R, o, "left") => Pre(q, Len(N[o])) \in Via(N, R, o, "left")
      /\ q \in Behind(N, R, o, "right") => Pre(q, Len(N[o])) \in Via(N, R, o, "right")
  BY DEF Behind
<1> QED BY <1>2, <1>3, <1>5, <1>6, <1>7

(* A node that a link leads to, with all that lies behind its links, is what lies   *)
(* behind that link. *)
LEMMA BelowNode ==
    ASSUME NEW N, NEW R, NEW D, Paths(N, R, D), NEW x \in D, x # 0, NEW e, e.node = x, e.at = "left", NEW q \in Prefixes
    PROVE  q \in Pending(N, R, e) <=> Len(N[x]) <= Len(q) /\ Pre(q, Len(N[x])) \in R[x]
<1>1. /\ N[x] \in Seq(Tokens) /\ Len(N[x]) \in Nat /\ q \in Seq(Tokens) /\ Len(q) \in Nat
      /\ N[x] \in Prefixes /\ N[x] \in R[x] /\ R[x] \subseteq Prefixes /\ \A p \in R[x] : Cut(p) = Cut(N[x])
  BY PathLen, PrefixLen DEF Paths
<1>2. Via(N, R, x, "left") \subseteq R[x] /\ Via(N, R, x, "right") \subseteq R[x]
  BY DEF Via
<1>3. ASSUME NEW p \in R[x], p # N[x]
      PROVE  p \in Via(N, R, x, "left") \/ p \in Via(N, R, x, "right")
  <2>1. p \in Prefixes /\ Cut(p) = Cut(N[x])
    BY <1>1
  <2>2. Tip(p) # Tip(N[x])
    BY <1>1, <1>3, <2>1, SamePrefix
  <2> QED BY <2>1, <2>2 DEF Via
<1>4. Len(q) = Len(N[x]) => Pre(q, Len(N[x])) = q
  BY <1>1, PreEnds
<1>5. q = N[x] => Pre(q, Len(N[x])) = N[x]
  BY <1>1, PreEnds
<1>6. ASSUME Len(N[x]) <= Len(q), Pre(q, Len(N[x])) \in R[x]
      PROVE  q \in Pending(N, R, e)
  <2>1. CASE Pre(q, Len(N[x])) = N[x]
    <3>1. q = N[x] \/ q \in Behind(N, R, x, "children")
      BY <1>1, <1>4, <1>6, <2>1 DEF Behind
    <3> QED BY <3>1 DEF Pending
  <2>2. CASE Pre(q, Len(N[x])) # N[x]
    <3>1. q \in Behind(N, R, x, "left") \/ q \in Behind(N, R, x, "right")
      BY <1>3, <1>6, <2>2 DEF Behind
    <3> QED BY <3>1 DEF Pending
  <2> QED BY <2>1, <2>2
<1>7. ASSUME q \in Pending(N, R, e)
      PROVE  Len(N[x]) <= Len(q) /\ Pre(q, Len(N[x])) \in R[x]
  <2>1. \/ q = N[x] \/ q \in Behind(N, R, x, "left")
        \/ q \in Behind(N, R, x, "children") \/ q \in Behind(N, R, x, "right")
    BY <1>7 DEF Pending
  <2>2. CASE q = N[x]
    BY <1>1, <1>5, <2>2
  <2>3. CASE q \in Behind(N, R, x, "children")
    BY <1>1, <2>3 DEF Behind
  <2>4. CASE q \in Behind(N, R, x, "left") \/ q \in Behind(N, R, x, "right")
    BY <1>2, <2>4 DEF Behind
  <2> QED BY <2>1, <2>2, <2>3, <2>4
<1> QED BY <1>6, <1>7

LEMMA BelowLink ==
    ASSUME NEW N, NEW R, MapOf(N, R), NEW o \in Linked, NEW f \in Links, NEW x, x = mem[o][f], x # 0,
           NEW e, e.node = x, e.at = "left"
    PROVE  x \in Linked /\ Pending(N, R, e) = Behind(N, R, o, f)
<1>0. Paths(N, R, Linked) /\ x \in Linked /\ R[x] = Via(N, R, o, f)
  BY DEF MapOf, Ways
<1>1. /\ N[x] \in Seq(Tokens) /\ Len(N[x]) \in Nat /\ N[o] \in Seq(Tokens) /\ Len(N[o]) \in Nat
      /\ N[x] \in Prefixes /\ N[x] \in Via(N, R, o, f)
  BY <1>0, PathLen DEF Paths
<1> SUFFICES ASSUME NEW q \in Prefixes
             PROVE  q \in Pending(N, R, e) <=> q \in Behind(N, R, o, f)
  <2>1. Pending(N, R, e) \subseteq Prefixes /\ Behind(N, R, o, f) \subseteq Prefixes
    BY DEF Pending, Behind
  <2> QED BY <1>0, <2>1
<1>2. q \in Seq(Tokens) /\ Len(q) \in Nat
  BY PrefixLen
<1>3. q \in Pending(N, R, e) <=> Len(N[x]) <= Len(q) /\ Pre(q, Len(N[x])) \in R[x]
  BY <1>0, BelowNode
<1>4. CASE f = "children"
  <2>1. Len(N[x]) = Len(N[o]) + 1
    <3>1. Cut(N[x]) = N[o]
      BY <1>1, <1>4 DEF Via
    <3>2. Len(Cut(N[x])) = Len(N[x]) - 1
      BY <1>1, CutFacts
    <3> QED BY <1>1, <3>1, <3>2
  <2>2. ASSUME Len(N[x]) <= Len(q)
        PROVE  Pre(q, Len(N[x])) \in Prefixes /\ Cut(Pre(q, Len(N[x]))) = Pre(q, Len(N[o]))
    <3>1. Len(N[x]) \in 1..Len(q) /\ Len(N[x]) - 1 = Len(N[o])
      BY <1>1, <1>2, <2>1, <2>2
    <3> QED BY <1>2, <3>1, PreTip
  <2>3. Len(N[x]) <= Len(q) <=> Len(N[o]) < Len(q)
    BY <1>1, <1>2, <2>1
  <2>4. Len(N[x]) <= Len(q) => (Pre(q, Len(N[x])) \in R[x] <=> Pre(q, Len(N[o])) = N[o])
    BY <1>0, <1>4, <2>2 DEF Via
  <2>5. q \in Behind(N, R, o, f) <=> Len(N[o]) < Len(q) /\ Pre(q, Len(N[o])) = N[o]
    BY <1>4 DEF Behind
  <2> QED BY <1>3, <2>3, <2>4, <2>5
<1>5. CASE f # "children"
  <2>1. N[x] \in R[o] /\ o # 0 /\ N[o] \in Prefixes
    BY <1>0, <1>1, <1>5 DEF Via, Paths
  <2>2. Cut(N[x]) = Cut(N[o])
    BY <1>0, <2>1 DEF Paths
  <2>3. Len(Cut(N[x])) = Len(N[x]) - 1 /\ Len(Cut(N[o])) = Len(N[o]) - 1
    BY <1>1, <2>1, CutFacts
  <2>4. Len(N[x]) = Len(N[o])
    BY <1>1, <2>2, <2>3
  <2>5. q \in Behind(N, R, o, f) <=> Len(N[o]) <= Len(q) /\ Pre(q, Len(N[o])) \in Via(N, R, o, f)
    BY <1>5 DEF Behind
  <2> QED BY <1>0, <1>3, <2>4, <2>5
<1> QED BY <1>4, <1>5

(* Behind a null link there is no node. *)
LEMMA NothingBehind ==
    ASSUME NEW N, NEW R, MapOf(N, R), NEW o \in Linked, NEW f \in Links, mem[o][f] = 0, NEW y \in Linked
    PROVE  N[y] \notin Behind(N, R, o, f)
<1> SUFFICES ASSUME N[y] \in Behind(N, R, o, f)
             PROVE  FALSE
  OBVIOUS
<1>0. Paths(N, R, Linked) /\ \A z \in Linked : N[z] \notin Via(N, R, o, f)
  BY DEF MapOf, Ways
<1>1. N[y] \in Seq(Tokens) /\ Len(N[y]) \in Nat /\ N[o] \in Seq(Tokens) /\ Len(N[o]) \in Nat
  BY <1>0, PathLen
<1>2. CASE f = "children"
  <2>1. Len(N[o]) < Len(N[y]) /\ Pre(N[y], Len(N[o])) = N[o]
    BY <1>2 DEF Behind
  <2>k. PICK k : k = Len(N[o]) + 1
    OBVIOUS
  <2>2. k \in 0..Len(N[y]) /\ k \in 1..Len(N[y]) /\ k - 1 = Len(N[o])
    BY <1>1, <2>1, <2>k
  <2>3. PICK z \in Linked : N[z] = Pre(N[y], k)
    BY <1>0, <2>2 DEF Paths
  <2>4. Pre(N[y], k) \in Prefixes /\ Cut(Pre(N[y], k)) = Pre(N[y], k - 1)
    BY <1>1, <2>2, PreTip
  <2>5. N[z] \in Via(N, R, o, f)
    BY <1>2, <2>1, <2>2, <2>3, <2>4 DEF Via
  <2> QED BY <1>0, <2>5
<1>3. CASE f # "children"
  <2>1. Len(N[o]) <= Len(N[y]) /\ Pre(N[y], Len(N[o])) \in Via(N, R, o, f)
    BY <1>3 DEF Behind
  <2>2. Len(N[o]) \in 0..Len(N[y])
    BY <1>1, <2>1
  <2>3. PICK z \in Linked : N[z] = Pre(N[y], Len(N[o]))
    BY <1>0, <2>2 DEF Paths
  <2> QED BY <1>0, <2>1, <2>3
<1> QED BY <1>2, <1>3

-----------------------------------------------------------------------------
(* The stack of a foreach(): no prefix is pending twice, nor once it was reported; a *)
(* name that is to be kept has its prop_info and was reported or is pending; and with *)
(* no del() under way there is nothing but properties to report. *)
Spread(N, R, s) ==
    /\ s \in Seq(Entries) /\ \A i \in 1..Len(s) : s[i].node \in Linked
    /\ \A i, j \in 1..Len(s) : \A q : q \in Pending(N, R, s[i]) /\ q \in Pending(N, R, s[j]) => i = j
Heard(N, R, s, seen) ==
    /\ seen \in Seq(Seq(Tokens))
    /\ \A i \in 1..Len(s), j \in 1..Len(seen) : seen[j] \notin Pending(N, R, s[i])
    /\ \A i, j \in 1..Len(seen) : seen[i] = seen[j] => i = j \/ seen[i] = NoName
Owed(N, R, s, seen, keep) ==
    \A n \in keep :
        /\ n \in Prefixes /\ \E y \in Linked : N[y] = n /\ mem[y].prop # 0
        /\ (\E j \in 1..Len(seen) : seen[j] = n) \/ (\E i \in 1..Len(s) : n \in Pending(N, R, s[i]))
Clean(s, seen) ==
    /\ \A j \in 1..Len(seen) : seen[j] # NoName
    /\ \A i \in 1..Len(s) : s[i].at = "reread" => mem[s[i].node].prop # 0
Tour(N, R, r) ==
    r.pc = "foreach" =>
      /\ Spread(N, R, r.stack) /\ Heard(N, R, r.stack, r.seen) /\ Owed(N, R, r.stack, r.seen, r.keep)
      /\ r.met # TRUE => Clean(r.stack, r.seen)

(* The top of the stack makes way for others, which share what it had pending. *)
Turn(N, R, e, u) ==
    /\ u \in Seq(Entries)
    /\ \A i \in 1..Len(u) : u[i].node \in Linked /\ Pending(N, R, u[i]) \subseteq Pending(N, R, e)
    /\ \A i, j \in 1..Len(u) : \A q : q \in Pending(N, R, u[i]) /\ q \in Pending(N, R, u[j]) => i = j

LEMMA Stacked ==
    ASSUME NEW S, NEW s \in Seq(S), s # <<>>, NEW u \in Seq(S), NEW t, t = u \o Tail(s)
    PROVE  /\ t \in Seq(S) /\ Len(s) \in Nat /\ Len(s) > 0 /\ Len(u) \in Nat /\ Len(t) \in Nat
           /\ \A i \in 1..Len(t) : \/ i \in 1..Len(u) /\ t[i] = u[i]
                                   \/ i > Len(u) /\ i - Len(u) + 1 \in 2..Len(s) /\ t[i] = s[i - Len(u) + 1]
           /\ \A i \in 1..Len(u) : i \in 1..Len(t) /\ t[i] = u[i]
           /\ \A j \in 2..Len(s) : Len(u) + j - 1 \in 1..Len(t) /\ t[Len(u) + j - 1] = s[j]
<1>1. Tail(s) \in Seq(S) /\ Len(Tail(s)) = Len(s) - 1 /\ \A i \in 1..Len(Tail(s)) : Tail(s)[i] = s[i + 1]
  BY HeadTailProperties
<1>2. /\ t \in Seq(S) /\ Len(t) = Len(u) + Len(Tail(s))
      /\ \A i \in 1..(Len(u) + Len(Tail(s))) : t[i] = IF i <= Len(u) THEN u[i] ELSE Tail(s)[i - Len(u)]
  BY <1>1, ConcatProperties
<1>3. Len(s) \in Nat /\ Len(s) > 0 /\ Len(u) \in Nat /\ Len(t) = Len(u) + Len(s) - 1
  <2>1. Len(s) \in Nat /\ Len(u) \in Nat /\ Len(s) # 0
    OBVIOUS
  <2> QED BY <1>1, <1>2, <2>1
<1>4. ASSUME NEW i \in 1..Len(t), ~(i \in 1..Len(u))
      PROVE  i > Len(u) /\ i - Len(u) + 1 \in 2..Len(s) /\ t[i] = s[i - Len(u) + 1]
  <2>1. i > Len(u) /\ i - Len(u) + 1 \in 2..Len(s) /\ i - Len(u) \in 1..Len(Tail(s)) /\ i \in 1..(Len(u) + Len(Tail(s)))
    BY <1>1, <1>3, <1>4
  <2>2. t[i] = Tail(s)[i - Len(u)]
    BY <1>2, <1>3, <2>1
  <2> QED BY <1>1, <2>1, <2>2
<1>5. ASSUME NEW i \in 1..Len(u)
      PROVE  i \in 1..Len(t) /\ t[i] = u[i]
  BY <1>1, <1>2, <1>3
<1>6. ASSUME NEW j \in 2..Len(s)
      PROVE  Len(u) + j - 1 \in 1..Len(t) /\ t[Len(u) + j - 1] = s[j]
  <2>1. /\ Len(u) + j - 1 \in 1..Len(t) /\ Len(u) + j - 1 > Len(u)
        /\ j - 1 \in 1..Len(Tail(s)) /\ (Len(u) + j - 1) - Len(u) = j - 1 /\ (j - 1) + 1 = j
    BY <1>1, <1>3
  <2>2. t[Len(u) + j - 1] = Tail(s)[j - 1]
    BY <1>1, <1>2, <1>3, <2>1
  <2> QED BY <1>1, <2>1, <2>2
<1>7. \A i \in 1..Len(t) : \/ i \in 1..Len(u) /\ t[i] = u[i]
                           \/ i > Len(u) /\ i - Len(u) + 1 \in 2..Len(s) /\ t[i] = s[i - Len(u) + 1]
  BY <1>4, <1>5
<1>8. t \in Seq(S) /\ Len(t) \in Nat
  BY <1>2
<1> QED BY <1>3, <1>5, <1>6, <1>7, <1>8

LEMMA TurnSpread ==
    ASSUME NEW N, NEW R, NEW s, Spread(N, R, s), s # <<>>, NEW u, Turn(N, R, s[1], u), NEW t, t = u \o Tail(s)
    PROVE  Spread(N, R, t)
<1>0. s \in Seq(Entries) /\ u \in Seq(Entries)
  BY DEF Spread, Turn
<1>1. /\ t \in Seq(Entries) /\ Len(s) \in Nat /\ Len(s) > 0 /\ Len(u) \in Nat /\ Len(t) \in Nat
      /\ \A i \in 1..Len(t) : \/ i \in 1..Len(u) /\ t[i] = u[i]
                              \/ i > Len(u) /\ i - Len(u) + 1 \in 2..Len(s) /\ t[i] = s[i - Len(u) + 1]
  BY <1>0, Stacked
<1>2. 1 \in 1..Len(s) /\ \A j \in 2..Len(s) : j \in 1..Len(s) /\ j # 1
  BY <1>1
<1>3. \A i \in 1..Len(t) : t[i].node \in Linked
  BY <1>1, <1>2 DEF Spread, Turn
<1>4. ASSUME NEW i \in 1..Len(t), NEW j \in 1..Len(t), NEW q, q \in Pending(N, R, t[i]), q \in Pending(N, R, t[j])
      PROVE  i = j
  <2>1. CASE i \in 1..Len(u) /\ t[i] = u[i] /\ j \in 1..Len(u) /\ t[j] = u[j]
    BY <1>4, <2>1 DEF Turn
  <2>2. ASSUME NEW a \in 1..Len(u), NEW b \in 2..Len(s), q \in Pending(N, R, u[a]), q \in Pending(N, R, s[b])
        PROVE  FALSE
    <3>1. q \in Pending(N, R, s[1])
      BY <2>2 DEF Turn
    <3> QED BY <1>2, <2>2, <3>1 DEF Spread
  <2>3. ASSUME i > Len(u), i - Len(u) + 1 \in 2..Len(s), t[i] = s[i - Len(u) + 1],
               j > Len(u), j - Len(u) + 1 \in 2..Len(s), t[j] = s[j - Len(u) + 1]
        PROVE  i = j
    <3>1. i - Len(u) + 1 = j - Len(u) + 1
      BY <1>2, <1>4, <2>3 DEF Spread
    <3> QED BY <1>1, <3>1
  <2> QED BY <1>1, <1>4, <2>1, <2>2, <2>3
<1> QED BY <1>1, <1>3, <1>4 DEF Spread

LEMMA TurnHeard ==
    ASSUME NEW N, NEW R, NEW s, Spread(N, R, s), s # <<>>, NEW u, Turn(N, R, s[1], u), NEW t, t = u \o Tail(s),
           NEW seen, Heard(N, R, s, seen)
    PROVE  Heard(N, R, t, seen)
<1>0. s \in Seq(Entries) /\ u \in Seq(Entries)
  BY DEF Spread, Turn
<1>1. /\ Len(s) \in Nat /\ Len(s) > 0
      /\ \A i \in 1..Len(t) : \/ i \in 1..Len(u) /\ t[i] = u[i]
                              \/ i > Len(u) /\ i - Len(u) + 1 \in 2..Len(s) /\ t[i] = s[i - Len(u) + 1]
  BY <1>0, Stacked
<1>2. 1 \in 1..Len(s) /\ \A j \in 2..Len(s) : j \in 1..Len(s)
  BY <1>1
<1>3. ASSUME NEW i \in 1..Len(t), NEW j \in 1..Len(seen)
      PROVE  seen[j] \notin Pending(N, R, t[i])
  <2>1. \A k \in 1..Len(s) : seen[j] \notin Pending(N, R, s[k])
    BY DEF Heard
  <2>2. \A k \in 1..Len(u) : seen[j] \notin Pending(N, R, u[k])
    BY <1>2, <2>1 DEF Turn
  <2> QED BY <1>1, <1>2, <2>1, <2>2
<1> QED BY <1>3 DEF Heard

LEMMA TurnOwed ==
    ASSUME NEW N, NEW R, NEW s, Spread(N, R, s), s # <<>>, NEW u, Turn(N, R, s[1], u), NEW t, t = u \o Tail(s),
           NEW seen, NEW seen2, NEW keep, Owed(N, R, s, seen, keep),
           \A j \in 1..Len(seen) : \E k \in 1..Len(seen2) : seen2[k] = seen[j],
           \A y \in Linked : mem[y].prop # 0 /\ N[y] \in Pending(N, R, s[1]) =>
             (\E k \in 1..Len(seen2) : seen2[k] = N[y]) \/ \E i \in 1..Len(u) : N[y] \in Pending(N, R, u[i])
    PROVE  Owed(N, R, t, seen2, keep)
<1>0. s \in Seq(Entries) /\ u \in Seq(Entries)
  BY DEF Spread, Turn
<1>1. /\ Len(s) \in Nat /\ Len(s) > 0
      /\ \A i \in 1..Len(u) : i \in 1..Len(t) /\ t[i] = u[i]
      /\ \A j \in 2..Len(s) : Len(u) + j - 1 \in 1..Len(t) /\ t[Len(u) + j - 1] = s[j]
  BY <1>0, Stacked
<1>2. \A j \in 1..Len(s) : j = 1 \/ j \in 2..Len(s)
  BY <1>1
<1>3. ASSUME NEW n \in keep
      PROVE  (\E j \in 1..Len(seen2) : seen2[j] = n) \/ (\E i \in 1..Len(t) : n \in Pending(N, R, t[i]))
  <2>1. CASE \E j \in 1..Len(seen) : seen[j] = n
    BY <2>1
  <2>2. ASSUME NEW i \in 2..Len(s), n \in Pending(N, R, s[i])
        PROVE  \E k \in 1..Len(t) : n \in Pending(N, R, t[k])
    BY <1>1, <2>2
  <2>3. CASE n \in Pending(N, R, s[1])
    <3>1. PICK y \in Linked : N[y] = n /\ mem[y].prop # 0
      BY DEF Owed
    <3>2. (\E k \in 1..Len(seen2) : seen2[k] = n) \/ \E i \in 1..Len(u) : n \in Pending(N, R, u[i])
      BY <2>3, <3>1
    <3> QED BY <1>1, <3>2
  <2> QED BY <1>2, <2>1, <2>2, <2>3 DEF Owed
<1> QED BY <1>3 DEF Owed

LEMMA TurnClean ==
    ASSUME NEW s \in Seq(Entries), s # <<>>, NEW u \in Seq(Entries), NEW t, t = u \o Tail(s), NEW seen, Clean(s, seen),
           \A i \in 1..Len(u) : u[i].at = "reread" => mem[u[i].node].prop # 0
    PROVE  Clean(t, seen)
<1>1. /\ Len(s) \in Nat /\ Len(s) > 0
      /\ \A i \in 1..Len(t) : \/ i \in 1..Len(u) /\ t[i] = u[i]
                              \/ i > Len(u) /\ i - Len(u) + 1 \in 2..Len(s) /\ t[i] = s[i - Len(u) + 1]
  BY Stacked
<1>2. \A j \in 2..Len(s) : j \in 1..Len(s)
  BY <1>1
<1> QED BY <1>1, <1>2 DEF Clean

(* A report. *)
Longer(seen, n, seen2) ==
    /\ seen2 \in Seq(Seq(Tokens)) /\ Len(seen) \in Nat /\ Len(seen2) = Len(seen) + 1
    /\ \A j \in 1..Len(seen2) : (j \in 1..Len(seen) /\ seen2[j] = seen[j]) \/ (j = Len(seen) + 1 /\ seen2[j] = n)
    /\ \A j \in 1..Len(seen) : j \in 1..Len(seen2) /\ seen2[j] = seen[j]
    /\ Len(seen) + 1 \in 1..Len(seen2) /\ seen2[Len(seen) + 1] = n

LEMMA Reported ==
    ASSUME NEW seen \in Seq(Seq(Tokens)), NEW n \in Seq(Tokens), NEW seen2, seen2 = Append(seen, n)
    PROVE  Longer(seen, n, seen2)
<1>1. /\ seen2 \in Seq(Seq(Tokens)) /\ Len(seen2) = Len(seen) + 1 /\ seen2[Len(seen) + 1] = n
      /\ \A j \in 1..Len(seen) : seen2[j] = seen[j]
  BY AppendProperties
<1>2. Len(seen) \in Nat
  OBVIOUS
<1> QED BY <1>1, <1>2 DEF Longer

LEMMA ReportedHeard ==
    ASSUME NEW N, NEW R, NEW s, NEW seen, Heard(N, R, s, seen), NEW n \in Seq(Tokens), NEW seen2, seen2 = Append(seen, n),
           \A i \in 1..Len(s) : n \notin Pending(N, R, s[i]),
           n = NoName \/ \A j \in 1..Len(seen) : seen[j] # n
    PROVE  Heard(N, R, s, seen2)
<1>0. seen \in Seq(Seq(Tokens))
  BY DEF Heard
<1>1. Longer(seen, n, seen2)
  BY <1>0, Reported
<1>2. \A i \in 1..Len(s), j \in 1..Len(seen2) : seen2[j] \notin Pending(N, R, s[i])
  BY <1>1 DEF Heard, Longer
<1>3. \A i, j \in 1..Len(seen2) : seen2[i] = seen2[j] => i = j \/ seen2[i] = NoName
  BY <1>1 DEF Heard, Longer
<1> QED BY <1>1, <1>2, <1>3 DEF Heard, Longer

-----------------------------------------------------------------------------
(* The turns of the recursion. *)
LEMMA TurnOne ==
    ASSUME NEW N, NEW R, NEW e, NEW a \in Entries, a.node \in Linked, Pending(N, R, a) \subseteq Pending(N, R, e), NEW u, u = <<a>>
    PROVE  Turn(N, R, e, u) /\ Len(u) = 1 /\ u[1] = a
<1>1. u \in Seq(Entries) /\ Len(u) = 1 /\ u[1] = a
  OBVIOUS
<1>2. \A i \in 1..Len(u) : i = 1
  BY <1>1
<1> QED BY <1>1, <1>2 DEF Turn

(* The turn u does everything that is pending at e, and starts with no report. *)
Into(N, R, e, u) ==
    /\ Turn(N, R, e, u)
    /\ \A i \in 1..Len(u) : u[i].at # "reread"
    /\ \A y \in Linked : N[y] \in Pending(N, R, e) => \E i \in 1..Len(u) : N[y] \in Pending(N, R, u[i])

Two(u, b, a) == u \in Seq(Entries) /\ Len(u) = 2 /\ u[1] = b /\ u[2] = a

LEMMA Pair ==
    ASSUME NEW a \in Entries, NEW b \in Entries, NEW u, u = <<b>> \o <<a>>
    PROVE  Two(u, b, a)
<1>1. PICK v, w : v = <<b>> /\ w = <<a>>
  OBVIOUS
<1>2. v \in Seq(Entries) /\ w \in Seq(Entries) /\ Len(v) = 1 /\ Len(w) = 1 /\ v[1] = b /\ w[1] = a
  BY <1>1
<1>3. u = v \o w
  BY <1>1
<1>4. ASSUME NEW x \in Seq(Entries), NEW y \in Seq(Entries), Len(x) = 1, Len(y) = 1
      PROVE  x \o y \in Seq(Entries) /\ Len(x \o y) = 2 /\ (x \o y)[1] = x[1] /\ (x \o y)[2] = y[1]
  <2>1. /\ x \o y \in Seq(Entries) /\ Len(x \o y) = Len(x) + Len(y)
        /\ \A i \in 1..(Len(x) + Len(y)) : (x \o y)[i] = IF i <= Len(x) THEN x[i] ELSE y[i - Len(x)]
    BY ConcatProperties
  <2> QED BY <1>4, <2>1
<1>5. v \o w \in Seq(Entries) /\ Len(v \o w) = 2 /\ (v \o w)[1] = v[1] /\ (v \o w)[2] = w[1]
  BY <1>2, <1>4
<1> QED BY <1>2, <1>3, <1>5 DEF Two

LEMMA Regrouped ==
    ASSUME NEW v \in Seq(Entries), NEW w \in Seq(Entries), NEW x \in Seq(Entries)
    PROVE  (v \o w) \o x = v \o (w \o x)
  BY ConcatAssociative

(* Into the node behind a link, if there is one, and then on where e was. *)
LEMMA TurnInto ==
    ASSUME IInv, NEW N, NEW R, MapOf(N, R), NEW o \in Linked, NEW f \in Links, NEW e, NEW a \in Entries, a.node = o,
           a.at # "reread",
           Pending(N, R, e) = Pending(N, R, a) \cup Behind(N, R, o, f),
           Pending(N, R, a) \cap Behind(N, R, o, f) = {},
           NEW u, u = Visit(mem[o][f]) \o <<a>>
    PROVE  Into(N, R, e, u)
<1>1. CASE mem[o][f] = 0
  <2>1. u = <<a>>
    <3>1. <<a>> \in Seq(Entries)
      OBVIOUS
    <3>2. <<>> \o <<a>> = <<a>>
      BY <3>1, ConcatEmptySeq
    <3> QED BY <1>1, <3>2 DEF Visit
  <2>2. Turn(N, R, e, u) /\ Len(u) = 1 /\ u[1] = a
    BY <2>1, TurnOne
  <2>3. \A y \in Linked : N[y] \notin Behind(N, R, o, f)
    BY <1>1, NothingBehind
  <2>4. 1 \in 1..Len(u) /\ \A i \in 1..Len(u) : i = 1
    BY <2>2
  <2> QED BY <2>2, <2>3, <2>4 DEF Into
<1>2. CASE mem[o][f] # 0
  <2>x. PICK x : x = mem[o][f]
    OBVIOUS
  <2>b. PICK b : b = [node |-> x, at |-> "left"]
    OBVIOUS
  <2>1. x \in Nat
    BY <2>x, CellFacts, BtFields DEF IInv, Linked
  <2>2. b \in Entries /\ b.node = x /\ b.at = "left"
    BY <2>1, <2>b DEF Entries, Ats
  <2>3. x \in Linked /\ Pending(N, R, b) = Behind(N, R, o, f)
    BY <1>2, <2>2, <2>x, BelowLink
  <2>4. u = <<b>> \o <<a>>
    BY <1>2, <2>b, <2>x DEF Visit
  <2>5. u \in Seq(Entries) /\ Len(u) = 2 /\ u[1] = b /\ u[2] = a
    <3>1. a \in Entries /\ b \in Entries
      BY <2>2
    <3>2. Two(u, b, a)
      BY <2>4, <3>1, Pair, Zenon
    <3> QED BY <3>2 DEF Two
  <2>6. 1 \in 1..Len(u) /\ 2 \in 1..Len(u) /\ \A i \in 1..Len(u) : i = 1 \/ i = 2
    BY <2>5
  <2>7. Turn(N, R, e, u)
    BY <2>2, <2>3, <2>5, <2>6 DEF Turn
  <2>8. \A i \in 1..Len(u) : u[i].at # "reread"
    BY <2>2, <2>5, <2>6
  <2>9. ASSUME NEW y \in Linked, N[y] \in Pending(N, R, e)
        PROVE  N[y] \in Pending(N, R, u[1]) \/ N[y] \in Pending(N, R, u[2])
    BY <2>3, <2>5, <2>9
  <2> QED BY <2>6, <2>7, <2>8, <2>9 DEF Into
<1> QED BY <1>1, <1>2

(* And with nothing left to do in the node. *)
LEMMA TurnLast ==
    ASSUME IInv, NEW N, NEW R, MapOf(N, R), NEW o \in Linked, NEW e, Pending(N, R, e) = Behind(N, R, o, "right"),
           NEW u, u = Visit(mem[o]["right"])
    PROVE  Into(N, R, e, u)
<1>f. "right" \in Links
  BY DEF Links
<1>1. CASE mem[o]["right"] = 0
  <2>1. u \in Seq(Entries) /\ Len(u) = 0
    BY <1>1 DEF Visit
  <2>2. \A i \in 1..Len(u) : FALSE
    BY <2>1
  <2>3. \A y \in Linked : N[y] \notin Behind(N, R, o, "right")
    BY <1>1, <1>f, NothingBehind
  <2> QED BY <2>1, <2>2, <2>3 DEF Turn, Into
<1>2. CASE mem[o]["right"] # 0
  <2>x. PICK x : x = mem[o]["right"]
    OBVIOUS
  <2>b. PICK b : b = [node |-> x, at |-> "left"]
    OBVIOUS
  <2>1. x \in Nat
    BY <1>f, <2>x, CellFacts, BtFields DEF IInv, Linked
  <2>2. b \in Entries /\ b.node = x /\ b.at = "left"
    BY <2>1, <2>b DEF Entries, Ats
  <2>3. x \in Linked /\ Pending(N, R, b) = Behind(N, R, o, "right")
    BY <1>2, <1>f, <2>2, <2>x, BelowLink
  <2>4. u = <<b>>
    BY <1>2, <2>b, <2>x DEF Visit
  <2>5. Turn(N, R, e, u) /\ Len(u) = 1 /\ u[1] = b
    BY <2>2, <2>3, <2>4, TurnOne
  <2>6. 1 \in 1..Len(u) /\ \A i \in 1..Len(u) : i = 1
    BY <2>5
  <2> QED BY <2>2, <2>3, <2>5, <2>6 DEF Into
<1> QED BY <1>1, <1>2

(* The five places in a node: what is pending at one and no longer at the next. *)
LEMMA Places ==
    ASSUME NEW N, NEW R, NEW D, Paths(N, R, D), NEW o \in D, NEW e, e.node = o, NEW a, a.node = o
    PROVE  /\ e.at = "left" /\ a.at = "prop" =>
                /\ Pending(N, R, e) = Pending(N, R, a) \cup Behind(N, R, o, "left")
                /\ Pending(N, R, a) \cap Behind(N, R, o, "left") = {}
           /\ e.at = "prop" /\ a.at = "reread" => Pending(N, R, e) = Pending(N, R, a)
           /\ e.at \in {"prop", "reread"} /\ a.at = "children" =>
                /\ Pending(N, R, e) = Pending(N, R, a) \cup ({N[o]} \cap Prefixes)
                /\ N[o] \notin Pending(N, R, a)
           /\ e.at = "children" /\ a.at = "right" =>
                /\ Pending(N, R, e) = Pending(N, R, a) \cup Behind(N, R, o, "children")
                /\ Pending(N, R, a) \cap Behind(N, R, o, "children") = {}
           /\ e.at = "right" => Pending(N, R, e) = Behind(N, R, o, "right")
<1>1. \A f : Behind(N, R, o, f) \subseteq Prefixes
  BY DEF Behind
<1>2. \A q \in Prefixes : q = N[o] => \A f \in Links : q \notin Behind(N, R, o, f)
  BY Apart
<1>3. \A q \in Prefixes : q \in Behind(N, R, o, "left") => q \notin Behind(N, R, o, "children") /\ q \notin Behind(N, R, o, "right")
  BY Apart
<1>4. \A q \in Prefixes : q \in Behind(N, R, o, "children") => q \notin Behind(N, R, o, "right")
  BY Apart
<1>5. ASSUME e.at = "left", a.at = "prop"
      PROVE  /\ Pending(N, R, e) = Pending(N, R, a) \cup Behind(N, R, o, "left")
             /\ Pending(N, R, a) \cap Behind(N, R, o, "left") = {}
  <2>1. Pending(N, R, e) = Pending(N, R, a) \cup Behind(N, R, o, "left")
    BY <1>1, <1>5 DEF Pending
  <2>2. Pending(N, R, a) \cap Behind(N, R, o, "left") = {}
    BY <1>1, <1>2, <1>3, <1>5 DEF Pending, Links
  <2> QED BY <2>1, <2>2
<1>6. e.at = "prop" /\ a.at = "reread" => Pending(N, R, e) = Pending(N, R, a)
  BY DEF Pending
<1>7. ASSUME e.at \in {"prop", "reread"}, a.at = "children"
      PROVE  /\ Pending(N, R, e) = Pending(N, R, a) \cup ({N[o]} \cap Prefixes)
             /\ N[o] \notin Pending(N, R, a)
  <2>1. Pending(N, R, e) = Pending(N, R, a) \cup ({N[o]} \cap Prefixes)
    BY <1>1, <1>7 DEF Pending
  <2>2. N[o] \notin Pending(N, R, a)
    BY <1>2, <1>7 DEF Pending, Links
  <2> QED BY <2>1, <2>2
<1>8. ASSUME e.at = "children", a.at = "right"
      PROVE  /\ Pending(N, R, e) = Pending(N, R, a) \cup Behind(N, R, o, "children")
             /\ Pending(N, R, a) \cap Behind(N, R, o, "children") = {}
  <2>1. Pending(N, R, e) = Pending(N, R, a) \cup Behind(N, R, o, "children")
    BY <1>1, <1>8 DEF Pending
  <2>2. Pending(N, R, a) \cap Behind(N, R, o, "children") = {}
    BY <1>1, <1>4, <1>8 DEF Pending
  <2> QED BY <2>1, <2>2
<1>9. e.at = "right" => Pending(N, R, e) = Behind(N, R, o, "right")
  BY <1>1 DEF Pending
<1> QED BY <1>5, <1>6, <1>7, <1>8, <1>9

(* One turn of foreach_property, from where the invariant holds. *)
Toured(N, R, s, seen, keep, dirty) ==
    /\ Spread(N, R, s) /\ Heard(N, R, s, seen) /\ Owed(N, R, s, seen, keep)
    /\ ~dirty => Clean(s, seen)

LEMMA TourQuietly ==
    ASSUME NEW N, NEW R, NEW s, s # <<>>, NEW seen, NEW keep, NEW dirty, Toured(N, R, s, seen, keep, dirty),
           NEW u, Turn(N, R, s[1], u), NEW t, t = u \o Tail(s),
           \A i \in 1..Len(u) : u[i].at = "reread" => mem[u[i].node].prop # 0,
           \A y \in Linked : mem[y].prop # 0 /\ N[y] \in Pending(N, R, s[1]) => \E i \in 1..Len(u) : N[y] \in Pending(N, R, u[i])
    PROVE  Toured(N, R, t, seen, keep, dirty)
<1>1. Spread(N, R, s) /\ Heard(N, R, s, seen) /\ Owed(N, R, s, seen, keep) /\ (~dirty => Clean(s, seen))
  BY DEF Toured
<1>2. s \in Seq(Entries) /\ u \in Seq(Entries)
  BY <1>1 DEF Spread, Turn
<1>3. Spread(N, R, t) /\ Heard(N, R, t, seen)
  BY <1>1, TurnSpread, TurnHeard
<1>4. Owed(N, R, t, seen, keep)
  <2>1. \A j \in 1..Len(seen) : \E k \in 1..Len(seen) : seen[k] = seen[j]
    OBVIOUS
  <2>2. \A y \in Linked : mem[y].prop # 0 /\ N[y] \in Pending(N, R, s[1]) =>
          (\E k \in 1..Len(seen) : seen[k] = N[y]) \/ \E i \in 1..Len(u) : N[y] \in Pending(N, R, u[i])
    OBVIOUS
  <2>3. Owed(N, R, s, seen, keep) /\ Spread(N, R, s)
    BY <1>1
  <2> QED BY <2>1, <2>2, <2>3, TurnOwed
<1>5. Clean(s, seen) => Clean(t, seen)
  BY <1>2, TurnClean
<1> QED BY <1>1, <1>3, <1>4, <1>5 DEF Toured

LEMMA TourTop ==
    ASSUME NEW N, NEW R, NEW s, Spread(N, R, s), s # <<>>
    PROVE  s \in Seq(Entries) /\ 1 \in 1..Len(s) /\ s[1] = Head(s) /\ s[1] \in Entries /\ s[1].node \in Linked /\ Tail(s) \in Seq(Entries)
<1>1. s \in Seq(Entries)
  BY DEF Spread
<1>2. Len(s) \in Nat /\ Len(s) # 0 /\ s[1] = Head(s) /\ Tail(s) \in Seq(Entries)
  BY <1>1
<1>3. 1 \in 1..Len(s)
  BY <1>2
<1>4. s[1] \in Entries
  BY <1>1, <1>3, ElementOfSeq
<1> QED BY <1>1, <1>2, <1>3, <1>4 DEF Spread

LEMMA TourLeft ==
    ASSUME IInv, NEW N, NEW R, MapOf(N, R), NEW s, s # <<>>, NEW seen, NEW keep, NEW dirty, Toured(N, R, s, seen, keep, dirty),
           NEW o, o = s[1].node, NEW f \in Links, NEW at,
           \/ s[1].at = "left" /\ f = "left" /\ at = "prop"
           \/ s[1].at = "children" /\ f = "children" /\ at = "right",
           NEW t, t = Visit(mem[o][f]) \o (<<[node |-> o, at |-> at]>> \o Tail(s))
    PROVE  Toured(N, R, t, seen, keep, dirty)
<1>1. s \in Seq(Entries) /\ s[1] \in Entries /\ o \in Linked /\ Tail(s) \in Seq(Entries)
  BY TourTop DEF Toured
<1>2. Paths(N, R, Linked)
  BY DEF MapOf
<1>a. PICK a : a = [node |-> o, at |-> at]
  OBVIOUS
<1>3. a \in Entries /\ a.node = o /\ a.at = at /\ a.at # "reread"
  BY <1>1, <1>a DEF Entries, Ats
<1>4. /\ Pending(N, R, s[1]) = Pending(N, R, a) \cup Behind(N, R, o, f)
      /\ Pending(N, R, a) \cap Behind(N, R, o, f) = {}
  BY <1>1, <1>2, <1>3, Places
<1>u. PICK u : u = Visit(mem[o][f]) \o <<a>>
  OBVIOUS
<1>5. Into(N, R, s[1], u)
  BY <1>1, <1>3, <1>4, <1>u, TurnInto
<1>6. t = u \o Tail(s)
  <2>1. mem[o][f] \in Nat
    BY <1>1, CellFacts, BtFields DEF IInv, Linked
  <2>2. Visit(mem[o][f]) \in Seq(Entries)
    <3>1. [node |-> mem[o][f], at |-> "left"] \in Entries
      BY <2>1 DEF Entries, Ats
    <3> QED BY <3>1 DEF Visit
  <2>3. <<a>> \in Seq(Entries)
    BY <1>3
  <2>4. (Visit(mem[o][f]) \o <<a>>) \o Tail(s) = Visit(mem[o][f]) \o (<<a>> \o Tail(s))
    <3>1. PICK v, w, x : v = Visit(mem[o][f]) /\ w = <<a>> /\ x = Tail(s)
      OBVIOUS
    <3>2. v \in Seq(Entries) /\ w \in Seq(Entries) /\ x \in Seq(Entries)
      BY <1>1, <2>2, <2>3, <3>1
    <3>3. (v \o w) \o x = v \o (w \o x)
      BY <3>2, Regrouped, Zenon
    <3> QED BY <3>1, <3>3, Zenon
  <2> QED BY <1>a, <1>u, <2>4
<1>7. /\ Turn(N, R, s[1], u) /\ \A i \in 1..Len(u) : u[i].at = "reread" => mem[u[i].node].prop # 0
      /\ \A y \in Linked : mem[y].prop # 0 /\ N[y] \in Pending(N, R, s[1]) => \E i \in 1..Len(u) : N[y] \in Pending(N, R, u[i])
  BY <1>5 DEF Into
<1> QED BY <1>6, <1>7, TourQuietly

LEMMA TourRight ==
    ASSUME IInv, NEW N, NEW R, MapOf(N, R), NEW s, s # <<>>, NEW seen, NEW keep, NEW dirty, Toured(N, R, s, seen, keep, dirty),
           NEW o, o = s[1].node, s[1].at = "right", NEW t, t = Visit(mem[o]["right"]) \o Tail(s)
    PROVE  Toured(N, R, t, seen, keep, dirty)
<1>1. s[1] \in Entries /\ o \in Linked
  BY TourTop DEF Toured
<1>2. Pending(N, R, s[1]) = Behind(N, R, o, "right")
  BY <1>1, Places DEF MapOf
<1>u. PICK u : u = Visit(mem[o]["right"])
  OBVIOUS
<1>5. Into(N, R, s[1], u)
  BY <1>1, <1>2, <1>u, TurnLast
<1>6. /\ Turn(N, R, s[1], u) /\ \A i \in 1..Len(u) : u[i].at = "reread" => mem[u[i].node].prop # 0
      /\ \A y \in Linked : mem[y].prop # 0 /\ N[y] \in Pending(N, R, s[1]) => \E i \in 1..Len(u) : N[y] \in Pending(N, R, u[i])
  BY <1>5 DEF Into
<1> QED BY <1>6, <1>u, TourQuietly

LEMMA TourProp ==
    ASSUME IInv, NEW N, NEW R, MapOf(N, R), NEW s, s # <<>>, NEW seen, NEW keep, NEW dirty, Toured(N, R, s, seen, keep, dirty),
           NEW o, o = s[1].node, s[1].at = "prop", NEW at, at = IF mem[o].prop # 0 THEN "reread" ELSE "children",
           NEW t, t = <<[node |-> o, at |-> at]>> \o Tail(s)
    PROVE  Toured(N, R, t, seen, keep, dirty)
<1>1. s[1] \in Entries /\ o \in Linked
  BY TourTop DEF Toured
<1>2. Paths(N, R, Linked)
  BY DEF MapOf
<1>a. PICK a : a = [node |-> o, at |-> at]
  OBVIOUS
<1>3. a \in Entries /\ a.node = o /\ a.at = at
  BY <1>1, <1>a DEF Entries, Ats
<1>4. Pending(N, R, a) \subseteq Pending(N, R, s[1])
  BY <1>1, <1>2, <1>3, Places
<1>u. PICK u : u = <<a>>
  OBVIOUS
<1>5. Turn(N, R, s[1], u) /\ Len(u) = 1 /\ u[1] = a
  BY <1>1, <1>3, <1>4, <1>u, TurnOne
<1>6. 1 \in 1..Len(u) /\ \A i \in 1..Len(u) : i = 1
  BY <1>5
<1>7. \A i \in 1..Len(u) : u[i].at = "reread" => mem[u[i].node].prop # 0
  BY <1>3, <1>5, <1>6
<1>8. ASSUME NEW y \in Linked, mem[y].prop # 0, N[y] \in Pending(N, R, s[1])
      PROVE  N[y] \in Pending(N, R, a)
  <2>1. CASE mem[o].prop # 0
    BY <1>1, <1>2, <1>3, <1>8, <2>1, Places
  <2>2. CASE mem[o].prop = 0
    <3>1. N[y] # N[o]
      BY <1>1, <1>2, <1>8, <2>2 DEF Paths
    <3> QED BY <1>1, <1>2, <1>3, <1>8, <2>2, <3>1, Places
  <2> QED BY <2>1, <2>2
<1>9. \A y \in Linked : mem[y].prop # 0 /\ N[y] \in Pending(N, R, s[1]) => \E i \in 1..Len(u) : N[y] \in Pending(N, R, u[i])
  BY <1>5, <1>6, <1>8
<1>10. Turn(N, R, s[1], u) /\ t = u \o Tail(s)
  BY <1>a, <1>u, <1>5
<1> QED BY <1>7, <1>9, <1>10, TourQuietly

(* The second load of prop: the name of the prop_info is reported, or what is no name. *)
LEMMA Rereads ==
    ASSUME IInv, NEW N, NEW R, MapOf(N, R), NEW o \in Linked, NEW n,
           n = IF Obj(mem[o].prop).kind = "info" THEN Obj(mem[o].prop).name ELSE NoName
    PROVE  /\ mem[o].prop # 0 => n = N[o] /\ n \in Prefixes
           /\ mem[o].prop = 0 => n = NoName
           /\ n \in Seq(Tokens)
<1>1. o \in DOMAIN mem /\ mem[o].kind = "bt" /\ 0 \in DOMAIN mem /\ mem[0].kind = "bt"
  BY DEF Linked, IInv, Cells, IsNode
<1>2. CASE mem[o].prop # 0
  <2>1. mem[o].prop \in DOMAIN mem /\ mem[mem[o].prop].kind = "info" /\ mem[mem[o].prop].name = N[o]
    BY <1>1, <1>2 DEF IInv, Cells, MapOf, Labels
  <2>2. mem[mem[o].prop] \in Infos
    BY <2>1, CellFacts DEF IInv
  <2>3. mem[mem[o].prop].name \in Names
    BY <2>2 DEF Infos
  <2>4. n = N[o]
    BY <2>1 DEF Obj
  <2>5. N[o] \in Seq(Tokens) /\ N[o] # <<>>
    BY <2>1, <2>3, NameFacts, NamesAssumption DEF NoName
  <2> QED BY <1>2, <2>4, <2>5 DEF Prefixes
<1>3. CASE mem[o].prop = 0
  <2>1. n = NoName
    BY <1>1, <1>3 DEF Obj
  <2>2. NoName \in Seq(Tokens)
    BY DEF NoName
  <2> QED BY <1>3, <2>1, <2>2
<1> QED BY <1>2, <1>3

LEMMA TourReread ==
    ASSUME IInv, NEW N, NEW R, MapOf(N, R), NEW s, s # <<>>, NEW seen, NEW keep, NEW dirty, Toured(N, R, s, seen, keep, dirty),
           NEW o, o = s[1].node, s[1].at = "reread", NEW t, t = <<[node |-> o, at |-> "children"]>> \o Tail(s),
           NEW n, n = IF Obj(mem[o].prop).kind = "info" THEN Obj(mem[o].prop).name ELSE NoName,
           NEW seen2, seen2 = Append(seen, n)
    PROVE  Toured(N, R, t, seen2, keep, dirty)
<1>0. Spread(N, R, s) /\ Heard(N, R, s, seen) /\ Owed(N, R, s, seen, keep) /\ (~dirty => Clean(s, seen))
  BY DEF Toured
<1>1. s \in Seq(Entries) /\ 1 \in 1..Len(s) /\ s[1] \in Entries /\ o \in Linked
  BY <1>0, TourTop
<1>2. Paths(N, R, Linked)
  BY DEF MapOf
<1>n. /\ mem[o].prop # 0 => n = N[o] /\ n \in Prefixes
      /\ mem[o].prop = 0 => n = NoName
      /\ n \in Seq(Tokens)
  BY <1>1, Rereads
<1>a. PICK a : a = [node |-> o, at |-> "children"]
  OBVIOUS
<1>3. a \in Entries /\ a.node = o /\ a.at = "children"
  BY <1>1, <1>a DEF Entries, Ats
<1>4. Pending(N, R, s[1]) = Pending(N, R, a) \cup ({N[o]} \cap Prefixes) /\ N[o] \notin Pending(N, R, a)
  BY <1>1, <1>2, <1>3, Places
<1>u. PICK u : u = <<a>>
  OBVIOUS
<1>5. Turn(N, R, s[1], u) /\ Len(u) = 1 /\ u[1] = a
  BY <1>1, <1>3, <1>4, <1>u, TurnOne
<1>6. 1 \in 1..Len(u) /\ \A i \in 1..Len(u) : i = 1
  BY <1>5
<1>t. t = u \o Tail(s) /\ u \in Seq(Entries)
  BY <1>a, <1>u, <1>5 DEF Turn
<1>7. Spread(N, R, t) /\ Heard(N, R, t, seen)
  BY <1>0, <1>5, <1>t, TurnSpread, TurnHeard
<1>8. Longer(seen, n, seen2)
  <2>1. seen \in Seq(Seq(Tokens)) /\ n \in Seq(Tokens)
    BY <1>0, <1>n DEF Heard
  <2> QED BY <2>1, Reported
<1>9. Heard(N, R, t, seen2)
  <2>1. ASSUME NEW i \in 1..Len(t)
        PROVE  n \notin Pending(N, R, t[i])
    <3>1. CASE mem[o].prop = 0
      BY <1>n, <3>1 DEF Pending, Prefixes, NoName
    <3>2. CASE mem[o].prop # 0
      <4>1. n = N[o] /\ n \in Pending(N, R, s[1]) /\ n \notin Pending(N, R, u[1])
        BY <1>n, <1>4, <1>5, <3>2
      <4>2. \/ i \in 1..Len(u) /\ t[i] = u[i]
            \/ i > Len(u) /\ i - Len(u) + 1 \in 2..Len(s) /\ t[i] = s[i - Len(u) + 1]
        BY <1>1, <1>t, Stacked
      <4>3. Len(s) \in Nat
        BY <1>1
      <4>4. \A j \in 2..Len(s) : n \notin Pending(N, R, s[j])
        <5> SUFFICES ASSUME NEW j \in 2..Len(s), n \in Pending(N, R, s[j])
                     PROVE  FALSE
          OBVIOUS
        <5>1. j \in 1..Len(s) /\ j # 1
          BY <4>3
        <5> QED BY <1>0, <1>1, <4>1, <5>1 DEF Spread
      <4> QED BY <1>6, <4>1, <4>2, <4>4
    <3> QED BY <3>1, <3>2
  <2>2. n = NoName \/ \A j \in 1..Len(seen) : seen[j] # n
    BY <1>0, <1>1, <1>n, <1>4 DEF Heard
  <2> QED BY <1>7, <1>n, <2>1, <2>2, ReportedHeard
<1>10. Owed(N, R, t, seen2, keep)
  <2>1. \A j \in 1..Len(seen) : \E k \in 1..Len(seen2) : seen2[k] = seen[j]
    BY <1>8 DEF Longer
  <2>2. ASSUME NEW y \in Linked, mem[y].prop # 0, N[y] \in Pending(N, R, s[1])
        PROVE  (\E k \in 1..Len(seen2) : seen2[k] = N[y]) \/ \E i \in 1..Len(u) : N[y] \in Pending(N, R, u[i])
    <3>1. CASE N[y] = N[o]
      <4>1. y = o
        BY <1>1, <1>2, <3>1 DEF Paths
      <4>2. n = N[y]
        BY <1>n, <2>2, <4>1
      <4>3. Len(seen) + 1 \in 1..Len(seen2) /\ seen2[Len(seen) + 1] = N[y]
        BY <1>8, <4>2 DEF Longer
      <4> QED BY <4>3
    <3>2. CASE N[y] # N[o]
      BY <1>4, <1>5, <1>6, <2>2, <3>2
    <3> QED BY <3>1, <3>2
  <2>3. \A y \in Linked : mem[y].prop # 0 /\ N[y] \in Pending(N, R, s[1]) =>
          (\E k \in 1..Len(seen2) : seen2[k] = N[y]) \/ \E i \in 1..Len(u) : N[y] \in Pending(N, R, u[i])
    BY <2>2
  <2>4. Owed(N, R, s, seen, keep) /\ Spread(N, R, s) /\ Turn(N, R, s[1], u)
    BY <1>0, <1>5
  <2>5. t = u \o Tail(s) /\ s # <<>>
    BY <1>t
  <2>6. PICK q : q = seen2
    OBVIOUS
  <2>7. /\ \A j \in 1..Len(seen) : \E k \in 1..Len(q) : q[k] = seen[j]
        /\ \A y \in Linked : mem[y].prop # 0 /\ N[y] \in Pending(N, R, s[1]) =>
             (\E k \in 1..Len(q) : q[k] = N[y]) \/ \E i \in 1..Len(u) : N[y] \in Pending(N, R, u[i])
    BY <2>1, <2>3, <2>6
  <2>8. Owed(N, R, t, q, keep)
    BY <2>4, <2>5, <2>7, TurnOwed
  <2> QED BY <2>6, <2>8
<1>11. ASSUME Clean(s, seen)
       PROVE  Clean(t, seen2)
  <2>1. Clean(t, seen)
    <3>1. \A i \in 1..Len(u) : u[i].at = "reread" => mem[u[i].node].prop # 0
      BY <1>3, <1>5, <1>6
    <3> QED BY <1>1, <1>t, <1>11, <3>1, TurnClean
  <2>2. n # NoName
    BY <1>1, <1>n, <1>11 DEF Clean, Prefixes, NoName
  <2> QED BY <1>8, <2>1, <2>2 DEF Clean, Longer
<1> QED BY <1>0, <1>7, <1>9, <1>10, <1>11 DEF Toured

(* A step of foreach(). *)
LEMMA ForeachTours ==
    ASSUME IInv, NEW N, NEW R, MapOf(N, R), NEW r \in Readers, ForeachStep(r), Tour(N, R, th[r])
    PROVE  /\ th'[r].pc = "foreach"
           /\ Toured(N, R, th'[r].stack, th'[r].seen, th'[r].keep, th'[r].met = TRUE)
<1>r. r \in Threads /\ Shape(th[r]) /\ th[r].pc = "foreach" /\ th[r].stack # <<>>
  BY DEF Threads, IInv, Types, ForeachStep
<1>0. PICK s, seen, keep, dirty, o : /\ s = th[r].stack /\ seen = th[r].seen /\ keep = th[r].keep
                                     /\ dirty = (th[r].met = TRUE) /\ o = s[1].node
  OBVIOUS
<1>1. Toured(N, R, s, seen, keep, dirty) /\ s # <<>>
  BY <1>r, <1>0 DEF Tour, Toured
<1>2. s[1] = Head(s) /\ s[1] \in Entries /\ o \in Linked
  BY <1>0, <1>1, TourTop DEF Toured
<1>3. Obj(o) = mem[o] /\ s[1].at \in Ats
  BY <1>2 DEF Obj, Linked, Entries
<1>4. ASSUME NEW t, NEW q, Go(r, [th[r] EXCEPT !.stack = t, !.seen = q]), Toured(N, R, t, q, keep, dirty)
      PROVE  /\ th'[r].pc = "foreach"
             /\ Toured(N, R, th'[r].stack, th'[r].seen, th'[r].keep, th'[r].met = TRUE)
  <2> DEFINE z == [th[r] EXCEPT !.stack = t, !.seen = q]
  <2>1. z.pc = th[r].pc /\ z.stack = t /\ z.seen = q /\ z.keep = th[r].keep /\ z.met = th[r].met
    BY <1>r DEF Shape, Fields
  <2> HIDE DEF z
  <2>2. th'[r] = z
    BY <1>4, <1>r, Goes DEF IInv, z
  <2>3. th'[r].stack = t /\ th'[r].seen = q /\ th'[r].keep = keep
    BY <1>0, <2>1, <2>2
  <2>4. (th'[r].met = TRUE) = dirty
    BY <1>0, <2>1, <2>2, Zenon
  <2>5. Toured(N, R, th'[r].stack, th'[r].seen, th'[r].keep, th'[r].met = TRUE)
    BY <1>4, <2>3, <2>4, Zenon
  <2> QED BY <1>r, <2>1, <2>2, <2>5
<1>5. CASE s[1].at = "left"
  <2>1. PICK t : t = Visit(mem[o]["left"]) \o (<<[node |-> o, at |-> "prop"]>> \o Tail(s))
    OBVIOUS
  <2>2. Go(r, [th[r] EXCEPT !.stack = t, !.seen = seen])
    BY <1>0, <1>2, <1>3, <1>5, <2>1 DEF ForeachStep
  <2>3. Toured(N, R, t, seen, keep, dirty)
    BY <1>0, <1>1, <1>5, <2>1, TourLeft DEF Links
  <2> QED BY <1>4, <2>2, <2>3
<1>6. CASE s[1].at = "prop"
  <2>1. PICK t, at : t = <<[node |-> o, at |-> at]>> \o Tail(s) /\ at = IF mem[o].prop # 0 THEN "reread" ELSE "children"
    OBVIOUS
  <2>2. Go(r, [th[r] EXCEPT !.stack = t, !.seen = seen])
    BY <1>0, <1>2, <1>3, <1>6, <2>1 DEF ForeachStep
  <2>3. Toured(N, R, t, seen, keep, dirty)
    BY <1>0, <1>1, <1>6, <2>1, TourProp
  <2> QED BY <1>4, <2>2, <2>3
<1>7. CASE s[1].at = "reread"
  <2>n. PICK n : n = IF Obj(mem[o].prop).kind = "info" THEN Obj(mem[o].prop).name ELSE NoName
    OBVIOUS
  <2>1. PICK t, q : t = <<[node |-> o, at |-> "children"]>> \o Tail(s) /\ q = Append(seen, n)
    OBVIOUS
  <2>2. Go(r, [th[r] EXCEPT !.stack = t, !.seen = q])
    BY <1>0, <1>2, <1>3, <1>7, <2>1, <2>n DEF ForeachStep
  <2>3. Toured(N, R, t, q, keep, dirty)
    <3>1. o = s[1].node
      BY <1>0
    <3> QED BY <1>1, <1>7, <2>1, <2>n, <3>1, TourReread
  <2> QED BY <1>4, <2>2, <2>3
<1>8. CASE s[1].at = "children"
  <2>1. PICK t : t = Visit(mem[o]["children"]) \o (<<[node |-> o, at |-> "right"]>> \o Tail(s))
    OBVIOUS
  <2>2. Go(r, [th[r] EXCEPT !.stack = t, !.seen = seen])
    BY <1>0, <1>2, <1>3, <1>8, <2>1 DEF ForeachStep
  <2>3. Toured(N, R, t, seen, keep, dirty)
    BY <1>0, <1>1, <1>8, <2>1, TourLeft DEF Links
  <2> QED BY <1>4, <2>2, <2>3
<1>9. CASE s[1].at = "right"
  <2>1. PICK t : t = Visit(mem[o]["right"]) \o Tail(s)
    OBVIOUS
  <2>2. Go(r, [th[r] EXCEPT !.stack = t, !.seen = seen])
    BY <1>0, <1>2, <1>3, <1>9, <2>1 DEF ForeachStep
  <2>3. Toured(N, R, t, seen, keep, dirty)
    BY <1>0, <1>1, <1>9, <2>1, TourRight
  <2> QED BY <1>4, <2>2, <2>3
<1> QED BY <1>3, <1>5, <1>6, <1>7, <1>8, <1>9 DEF Ats

-----------------------------------------------------------------------------
(* Steps of the others: nodes keep what they stand for, and a prop_info stays. *)
LEMMA SamePending ==
    ASSUME NEW N, NEW R, NEW N2, NEW R2, NEW D, \A o \in D : N2[o] = N[o] /\ R2[o] = R[o], NEW e, e.node \in D
    PROVE  Pending(N2, R2, e) = Pending(N, R, e)
<1>1. \A o \in D : \A f : Via(N2, R2, o, f) = Via(N, R, o, f)
  BY DEF Via
<1>2. \A o \in D : \A f : Behind(N2, R2, o, f) = Behind(N, R, o, f)
  BY <1>1 DEF Behind
<1> QED BY <1>2 DEF Pending

LEMMA TourKept ==
    ASSUME NEW N, NEW R, NEW N2, NEW R2, \A o \in Linked : o \in Linked' /\ N2[o] = N[o] /\ R2[o] = R[o],
           \A y \in Linked : mem[y].prop # 0 => mem'[y].prop # 0,
           NEW r, Tour(N, R, th[r]), th'[r] = th[r]
    PROVE  Tour(N2, R2, th[r])'
<1> SUFFICES ASSUME th[r].pc = "foreach"
             PROVE  /\ Spread(N2, R2, th[r].stack)' /\ Heard(N2, R2, th[r].stack, th[r].seen)'
                    /\ Owed(N2, R2, th[r].stack, th[r].seen, th[r].keep)'
                    /\ th[r].met # TRUE => Clean(th[r].stack, th[r].seen)'
  BY DEF Tour
<1>0. PICK s, seen, keep : s = th[r].stack /\ seen = th[r].seen /\ keep = th[r].keep
  OBVIOUS
<1>1. Spread(N, R, s) /\ Heard(N, R, s, seen) /\ Owed(N, R, s, seen, keep) /\ (th[r].met # TRUE => Clean(s, seen))
  BY <1>0 DEF Tour
<1>2. /\ Spread(N2, R2, s)' /\ Heard(N2, R2, s, seen)'
      /\ \A i \in 1..Len(s) : s[i].node \in Linked /\ Pending(N2, R2, s[i]) = Pending(N, R, s[i])
  <2>1. ASSUME NEW i \in 1..Len(s)
        PROVE  s[i].node \in Linked /\ Pending(N2, R2, s[i]) = Pending(N, R, s[i])
    <3>1. PICK e, D : e = s[i] /\ D = Linked
      OBVIOUS
    <3>2. e.node \in D /\ \A o \in D : N2[o] = N[o] /\ R2[o] = R[o]
      BY <1>1, <3>1 DEF Spread
    <3>3. Pending(N2, R2, e) = Pending(N, R, e)
      BY <3>2, SamePending
    <3> QED BY <3>1, <3>2, <3>3
  <2>2. Spread(N2, R2, s)'
    BY <1>1, <2>1 DEF Spread
  <2>3. Heard(N2, R2, s, seen)'
    BY <1>1, <2>1 DEF Heard
  <2> QED BY <2>1, <2>2, <2>3
<1>3. Owed(N2, R2, s, seen, keep)'
  BY <1>1, <1>2 DEF Owed
<1>4. Clean(s, seen) => Clean(s, seen)'
  BY <1>2 DEF Clean
<1>5. th'[r].stack = s /\ th'[r].seen = seen /\ th'[r].keep = keep
  BY <1>0
<1>6. Spread(N2, R2, th[r].stack)' /\ Heard(N2, R2, th[r].stack, th[r].seen)'
  BY <1>2, <1>5 DEF Spread, Heard
<1>7. Owed(N2, R2, th[r].stack, th[r].seen, th[r].keep)'
  BY <1>3, <1>5 DEF Owed
<1>8. th[r].met # TRUE => Clean(th[r].stack, th[r].seen)'
  BY <1>1, <1>4, <1>5 DEF Clean
<1> QED BY <1>6, <1>7, <1>8

FInv == \E N, R : MapOf(N, R) /\ \A r \in Readers : Tour(N, R, th[r])

LEMMA ToursKept ==
    ASSUME NEW N, NEW R, \A r \in Readers : Tour(N, R, th[r]), NEW N2, NEW R2, MapOf(N2, R2)',
           \A o \in Linked : o \in Linked' /\ N2[o] = N[o] /\ R2[o] = R[o],
           \A y \in Linked : mem[y].prop # 0 => mem'[y].prop # 0,
           NEW t, \A u \in Threads : u # t => th'[u] = th[u],
           t \in Readers => Tour(N2, R2, th[t])'
    PROVE  FInv'
<1>1. ASSUME NEW r \in Readers
      PROVE  Tour(N2, R2, th[r])'
  <2>1. CASE r = t
    BY <2>1
  <2>2. CASE r # t
    <3>1. th'[r] = th[r] /\ Tour(N, R, th[r])
      BY <2>2 DEF Threads
    <3> QED BY <3>1, TourKept
  <2> QED BY <2>1, <2>2
<1> QED BY <1>1 DEF FInv

(* find() is no foreach(). *)
LEMMA GoPlain ==
    ASSUME IInv, NEW t \in Threads, NEW q, Go(t, q), q.pc # "foreach"
    PROVE  th'[t].pc # "foreach" /\ \A u \in Threads : u # t => th'[u] = th[u]
BY Goes DEF IInv

LEMMA ReturnPlain ==
    ASSUME IInv, NEW t \in Threads, NEW res, Return(t, res)
    PROVE  th'[t].pc # "foreach" /\ \A u \in Threads : u # t => th'[u] = th[u]
<1> DEFINE q == [th[t] EXCEPT !.pc = "idle", !.name = NoName, !.res = res, !.met = FALSE]
<1>1. q.pc = "idle"
  BY DEF IInv, Types, Shape, Fields
<1>2. Go(t, q)
  BY DEF Return
<1> HIDE DEF q
<1>3. q.pc # "foreach"
  BY <1>1
<1> QED BY <1>2, <1>3, GoPlain

LEMMA FollowPlain ==
    ASSUME IInv, NEW t \in Threads, NEW off, NEW l, Follow(t, off, l)
    PROVE  th'[t].pc # "foreach" /\ \A u \in Threads : u # t => th'[u] = th[u]
<1>s. Shape(th[t])
  BY DEF IInv, Types
<1>1. CASE off # 0
  <2> DEFINE q == [th[t] EXCEPT !.pc = "bt", !.cur = off]
  <2>1. q.pc = "bt"
    BY <1>s DEF Shape, Fields
  <2>2. Go(t, q)
    BY <1>1 DEF Follow
  <2> HIDE DEF q
  <2>3. q.pc # "foreach"
    BY <2>1
  <2> QED BY <2>2, <2>3, GoPlain
<1>2. CASE off = 0 /\ th[t].op = "add"
  <2> DEFINE q == [th[t] EXCEPT !.pc = "allocBt", !.link = l]
  <2>1. q.pc = "allocBt"
    BY <1>s DEF Shape, Fields
  <2>2. Go(t, q)
    BY <1>2 DEF Follow
  <2> HIDE DEF q
  <2>3. q.pc # "foreach"
    BY <2>1
  <2> QED BY <2>2, <2>3, GoPlain
<1>3. CASE off = 0 /\ th[t].op # "add"
  BY <1>3, ReturnPlain DEF Follow
<1> QED BY <1>1, <1>2, <1>3

LEMMA DescendPlain ==
    ASSUME IInv, NEW t \in Threads, Descend(t)
    PROVE  th'[t].pc # "foreach" /\ \A u \in Threads : u # t => th'[u] = th[u]
<1>s. Shape(th[t])
  BY DEF IInv, Types
<1>1. ASSUME NEW p, p # "foreach", Go(t, [th[t] EXCEPT !.pc = p])
      PROVE  th'[t].pc # "foreach" /\ \A u \in Threads : u # t => th'[u] = th[u]
  <2> DEFINE q == [th[t] EXCEPT !.pc = p]
  <2>1. q.pc = p
    BY <1>s DEF Shape, Fields
  <2> HIDE DEF q
  <2>2. Go(t, q) /\ q.pc # "foreach"
    BY <1>1, <2>1 DEF q
  <2> QED BY <2>2, GoPlain
<1>2. CASE TrieLevel(t)
  <2>1. Return(t, Unbound) \/ \E off, l : Follow(t, off, l)
    BY <1>2 DEF TrieLevel
  <2> QED BY <2>1, ReturnPlain, FollowPlain
<1>3. CASE BtLevel(t)
  <2>1. \/ \E p \in {"clear", "prop"} : Go(t, [th[t] EXCEPT !.pc = p])
        \/ Go(t, [th[t] EXCEPT !.pc = "trie", !.pos = th[t].pos + 1])
        \/ \E off, l : Follow(t, off, l)
    BY <1>3 DEF BtLevel
  <2>2. CASE \E p \in {"clear", "prop"} : Go(t, [th[t] EXCEPT !.pc = p])
    BY <1>1, <2>2
  <2>3. CASE Go(t, [th[t] EXCEPT !.pc = "trie", !.pos = th[t].pos + 1])
    <3> DEFINE q == [th[t] EXCEPT !.pc = "trie", !.pos = th[t].pos + 1]
    <3>1. q.pc = "trie"
      BY <1>s DEF Shape, Fields
    <3> HIDE DEF q
    <3>2. Go(t, q) /\ q.pc # "foreach"
      BY <2>3, <3>1 DEF q
    <3> QED BY <3>2, GoPlain
  <2>4. CASE \E off, l : Follow(t, off, l)
    BY <2>4, FollowPlain
  <2> QED BY <2>1, <2>2, <2>3, <2>4
<1>4. CASE LoadProp(t)
  <2>1. Return(t, Unbound) \/ \E p \in {"reread", "allocInfo"} : Go(t, [th[t] EXCEPT !.pc = p])
    BY <1>4 DEF LoadProp
  <2> QED BY <1>1, <2>1, ReturnPlain
<1>5. CASE RereadProp(t)
  BY <1>5, ReturnPlain DEF RereadProp
<1> QED BY <1>2, <1>3, <1>4, <1>5 DEF Descend

(* The call: everything is pending, and what is bound has its node. *)
LEMMA BeginsTour ==
    ASSUME IInv, IInv', NEW N, NEW R, MapOf(N, R), Linked' = Linked, NEW r \in Readers, ForeachBegin(r)
    PROVE  Tour(N, R, th[r])' /\ \A u \in Threads : u # r => th'[u] = th[u]
<1>0. r \in Threads /\ UNCHANGED mem
  BY DEF Threads, ForeachBegin
<1>1. PICK e, keep : e = [node |-> 0, at |-> "left"] /\ keep = {n \in Names : Bound(n) # Unbound}
  OBVIOUS
<1>2. e \in Entries /\ e.node = 0 /\ e.at = "left"
  BY <1>1 DEF Entries, Ats
<1>s. PICK s : s = <<e>>
  OBVIOUS
<1>3. s \in Seq(Entries) /\ Len(s) = 1 /\ s[1] = e
  BY <1>2, <1>s
<1>4. 1 \in 1..Len(s) /\ \A i \in 1..Len(s) : i = 1
  BY <1>3
<1>5. 0 \in Linked /\ N[0] = <<>>
  BY DEF MapOf, Paths
<1>6. Spread(N, R, s)
  BY <1>2, <1>3, <1>4, <1>5 DEF Spread
<1>7. Heard(N, R, s, <<>>) /\ Clean(s, <<>>)
  <2>1. <<>> \in Seq(Seq(Tokens)) /\ Len(<<>>) = 0
    OBVIOUS
  <2>2. \A j \in 1..Len(<<>>) : FALSE
    BY <2>1
  <2> QED BY <1>2, <1>3, <1>4, <2>1, <2>2 DEF Heard, Clean
<1>8. Owed(N, R, s, <<>>, keep)
  <2> SUFFICES ASSUME NEW n \in keep
               PROVE  /\ n \in Prefixes /\ \E y \in Linked : N[y] = n /\ mem[y].prop # 0
                      /\ \E i \in 1..Len(s) : n \in Pending(N, R, s[i])
    BY DEF Owed
  <2>1. n \in Names /\ Bound(n) # Unbound
    BY <1>1
  <2>2. n \in Seq(Tokens) /\ n # <<>>
    BY <2>1, NameFacts, NamesAssumption DEF NoName
  <2>3. n \in Prefixes /\ Len(n) > 0
    BY <2>2 DEF Prefixes
  <2>4. Mine(n) # {}
    BY <2>1, BoundMine
  <2>5. PICK y \in Linked : N[y] = n
    BY <2>4, MineNowhere
  <2>6. mem[y].prop # 0
    BY <2>4, <2>5, MineAt
  <2>7. Pre(n, 0) = <<>> /\ Len(N[0]) = 0
    BY <1>5, <2>2, PreEnds
  <2>8. n \in Behind(N, R, 0, "children")
    BY <1>5, <2>3, <2>7 DEF Behind
  <2>9. n \in Pending(N, R, e)
    BY <1>2, <2>3, <2>8 DEF Pending
  <2> QED BY <1>3, <1>4, <2>3, <2>5, <2>6, <2>9
<1>9. PICK res : Go(r, [Idle EXCEPT !.pc = "foreach", !.op = "foreach", !.res = res, !.stack = s, !.keep = keep])
  BY <1>1, <1>s DEF ForeachBegin
<1> DEFINE q == [Idle EXCEPT !.pc = "foreach", !.op = "foreach", !.res = res, !.stack = s, !.keep = keep]
<1>10. q.stack = s /\ q.seen = <<>> /\ q.keep = keep
  BY DEF Idle
<1> HIDE DEF q
<1>11. th'[r] = q /\ \A u \in Threads : u # r => th'[u] = th[u]
  BY <1>0, <1>9, Goes DEF IInv, q
<1>12. Spread(N, R, s)' /\ Heard(N, R, s, <<>>)' /\ Owed(N, R, s, <<>>, keep)' /\ Clean(s, <<>>)'
  BY <1>0, <1>6, <1>7, <1>8 DEF Spread, Heard, Owed, Clean
<1>13. th'[r].stack = s /\ th'[r].seen = <<>> /\ th'[r].keep = keep
  BY <1>10, <1>11
<1>14. /\ Spread(N, R, th[r].stack)' /\ Heard(N, R, th[r].stack, th[r].seen)'
       /\ Owed(N, R, th[r].stack, th[r].seen, th[r].keep)' /\ Clean(th[r].stack, th[r].seen)'
  BY <1>12, <1>13 DEF Spread, Heard, Owed, Clean
<1> QED BY <1>11, <1>14 DEF Tour

(* del(): the name is owed no longer, and who is under way has met it. *)
LEMMA ClearPropTours ==
    ASSUME IInv, Readings, NEW N, NEW R, MapOf(N, R), MapOf(N, R)', Linked' = Linked,
           \A r \in Readers : Tour(N, R, th[r]), NEW t \in Mutators, ClearPropEffect(t)
    PROVE  FInv'
<1>t. t \in Threads
  BY DEF Threads
<1>1. PICK c, n : c = th[t].cur /\ n = th[t].name
  OBVIOUS
<1>2. c \in Linked /\ N[c] = n /\ Written(c)
  <2>1. Seek(N, R, th[t]) /\ th[t].pc = "clear" /\ th[t].pc \in Busy
    BY <1>t DEF MapOf, ClearPropEffect, Busy
  <2> QED BY <1>1, <2>1 DEF Seek, Infoing, ClearPropEffect
<1>3. \A y \in Linked : y # c => mem'[y] = mem[y]
  BY <1>2 DEF Written, Linked
<1>4. ASSUME NEW r \in Readers
      PROVE  Tour(N, R, th[r])'
  <2>1. r # t /\ r \in Threads
    BY NotReader DEF Threads
  <2>2. /\ th'[r].pc = th[r].pc /\ th'[r].op = th[r].op /\ th'[r].stack = th[r].stack /\ th'[r].seen = th[r].seen
        /\ th'[r].keep = th[r].keep \ {n}
    <3>1. {"pc", "op", "stack", "seen"} \subseteq Fields \ {"met", "keep"}
      BY DEF Fields
    <3> QED BY <1>1, <2>1, <3>1 DEF ClearPropEffect
  <2> SUFFICES ASSUME th[r].pc = "foreach"
               PROVE  /\ Spread(N, R, th[r].stack)' /\ Heard(N, R, th[r].stack, th[r].seen)'
                      /\ Owed(N, R, th[r].stack, th[r].seen, th[r].keep)' /\ th'[r].met = TRUE
    BY <2>2 DEF Tour
  <2>3. th'[r].met = TRUE
    <3>1. th[r].op = "foreach"
      BY DEF Readings, Reading
    <3>2. th'[r].met = (th[r].met \/ th[r].name = th[t].name \/ th[r].op = "foreach")
      BY <2>1 DEF ClearPropEffect
    <3> QED BY <3>1, <3>2, Zenon
  <2>4. PICK s, seen, keep : s = th[r].stack /\ seen = th[r].seen /\ keep = th[r].keep
    OBVIOUS
  <2>5. Spread(N, R, s) /\ Heard(N, R, s, seen) /\ Owed(N, R, s, seen, keep)
    BY <2>4 DEF Tour
  <2>6. Spread(N, R, th[r].stack)' /\ Heard(N, R, th[r].stack, th[r].seen)'
    BY <2>2, <2>4, <2>5 DEF Spread, Heard
  <2>7. \A k \in keep \ {n} : \E y \in Linked : N[y] = k /\ mem'[y].prop # 0
    BY <1>2, <1>3, <2>5 DEF Owed
  <2>8. Owed(N, R, th[r].stack, th[r].seen, th[r].keep)'
    BY <2>2, <2>4, <2>5, <2>7 DEF Owed
  <2> QED BY <2>3, <2>6, <2>8
<1> QED BY <1>4 DEF FInv

LEMMA InitFInv ==
    ASSUME Init
    PROVE  FInv
<1>1. PICK N, R : MapOf(N, R)
  BY InitGInv DEF GInv
<1>2. Idle.pc = "idle"
  BY DEF Idle
<1>3. \A r \in Readers : Tour(N, R, th[r])
  BY <1>2 DEF Init, Tour, Threads
<1> QED BY <1>1, <1>3 DEF FInv

LEMMA StepFInv ==
    ASSUME SingleMutator, IInv, IInv', GInv, FInv, [Next]_vars
    PROVE  FInv'
<1>0. PICK N, R : MapOf(N, R) /\ \A r \in Readers : Tour(N, R, th[r])
  BY DEF FInv
<1>g. Readings
  BY DEF GInv
<1>p. ASSUME MapOf(N, R)', Linked' = Linked, \A y \in Linked : mem[y].prop # 0 => mem'[y].prop # 0,
             NEW t, \A u \in Threads : u # t => th'[u] = th[u], t \in Readers => Tour(N, R, th[t])'
      PROVE  FInv'
  <2>1. \A o \in Linked : o \in Linked' /\ N[o] = N[o] /\ R[o] = R[o]
    BY <1>p
  <2> QED BY <1>0, <1>p, <2>1, ToursKept
<1>1. CASE UNCHANGED vars
  <2>1. UNCHANGED <<mem, th>>
    BY <1>1 DEF vars
  <2>2. MapOf(N, R)' /\ Linked' = Linked
    BY <1>0, <2>1 DEF MapOf, Linked, Paths, Ways, Labels, Seek
  <2>3. ASSUME NEW r \in Readers
        PROVE  Tour(N, R, th[r])'
    <3>1. Tour(N, R, th[r]) /\ th'[r] = th[r] /\ \A o \in Linked : o \in Linked' /\ N[o] = N[o] /\ R[o] = R[o]
      BY <1>0, <2>1, <2>2
    <3>2. \A y \in Linked : mem[y].prop # 0 => mem'[y].prop # 0
      BY <2>1
    <3> QED BY <3>1, <3>2, TourKept
  <2> QED BY <2>2, <2>3 DEF FInv
<1>2. ASSUME NEW m \in Mutators, AddBegin(m) \/ DelBegin(m)
      PROVE  FInv'
  <2>1. m \in Threads /\ m \notin Readers /\ UNCHANGED mem /\ \E r : Go(m, r)
    BY <1>2, NotReader DEF AddBegin, DelBegin
  <2>2. \A u \in Threads : u # m => th'[u] = th[u]
    BY <2>1, Goes DEF IInv
  <2>3. MapOf(N, R)' /\ Linked' = Linked
    BY <1>0, <1>2, <2>1, BeginsMap
  <2> QED BY <1>p, <2>1, <2>2, <2>3
<1>3. ASSUME NEW m \in Mutators, AllocateBt(m) \/ AllocateInfo(m) \/ AllocateLong(m)
      PROVE  FInv'
  <2>1. m \in Threads /\ m \notin Readers /\ UNCHANGED mem /\ \E r : Go(m, r)
    BY <1>3, NotReader DEF AllocateBt, AllocateInfo, AllocateLong, Allocate, Return
  <2>2. \A u \in Threads : u # m => th'[u] = th[u]
    BY <2>1, Goes DEF IInv
  <2>3. MapOf(N, R)' /\ Linked' = Linked
    BY <1>0, <1>3, <2>1, AllocateMaps
  <2> QED BY <1>p, <2>1, <2>2, <2>3
<1>4. ASSUME NEW m \in Mutators, BuildBt(m) \/ BuildInfo(m)
      PROVE  FInv'
  <2>1. BuildBtEffect(m) \/ BuildInfoEffect(m)
    BY <1>4, BuildBtDoes, BuildInfoDoes
  <2>2. MapOf(N, R)' /\ Linked' = Linked
    BY <1>0, <1>g, <2>1, BuildBtMaps, BuildInfoMaps
  <2>3. m \notin Readers /\ \A u \in Threads : u # m => th'[u] = th[u]
    BY <2>1, NotReader DEF BuildBtEffect, BuildInfoEffect
  <2>4. \A y \in Linked : mem'[y] = mem[y]
    BY <2>1 DEF BuildBtEffect, BuildInfoEffect, Linked
  <2> QED BY <1>p, <2>2, <2>3, <2>4
<1>5. ASSUME NEW m \in Mutators, LinkBt(m)
      PROVE  FInv'
  <2>1. LinkBtEffect(m)
    BY <1>5, LinkBtDoes
  <2>2. PICK N2, R2 : MapOf(N2, R2)' /\ \A o \in Linked : o \in Linked' /\ N2[o] = N[o] /\ R2[o] = R[o]
    BY <1>0, <1>g, <2>1, LinkBtMaps
  <2>3. m \notin Readers /\ \A u \in Threads : u # m => th'[u] = th[u]
    BY <2>1, NotReader DEF LinkBtEffect
  <2>4. \A y \in Linked : mem'[y].prop = mem[y].prop
    BY <2>1 DEF LinkBtEffect, Written, Linked
  <2> QED BY <1>0, <2>2, <2>3, <2>4, ToursKept
<1>6. ASSUME NEW m \in Mutators, LinkInfo(m)
      PROVE  FInv'
  <2>1. LinkInfoEffect(m)
    BY <1>6, LinkInfoDoes
  <2>2. MapOf(N, R)' /\ Linked' = Linked
    BY <1>0, <1>g, <2>1, LinkInfoMaps
  <2>3. m \notin Readers /\ \A u \in Threads : u # m => th'[u] = th[u]
    BY <2>1, NotReader DEF LinkInfoEffect
  <2>4. th[m].new # 0
    BY <2>1 DEF LinkInfoEffect, IInv, Cells, IsNode
  <2>5. \A y \in Linked : mem[y].prop # 0 => mem'[y].prop # 0
    BY <2>1, <2>4 DEF LinkInfoEffect, Written, Linked
  <2> QED BY <1>p, <2>2, <2>3, <2>5
<1>7. ASSUME NEW m \in Mutators, ClearProp(m)
      PROVE  FInv'
  <2>1. ClearPropEffect(m)
    BY <1>7, ClearPropDoes
  <2>2. MapOf(N, R)' /\ Linked' = Linked
    BY <1>0, <1>g, <2>1, ClearPropMaps
  <2> QED BY <1>0, <1>g, <2>1, <2>2, ClearPropTours
<1>8. ASSUME NEW r \in Readers, FindBegin(r) \/ ForeachBegin(r) \/ ForeachStep(r) \/ ForeachEnd(r)
      PROVE  FInv'
  <2>1. r \in Threads /\ UNCHANGED mem /\ \E q : Go(r, q)
    BY <1>8 DEF Threads, FindBegin, ForeachBegin, ForeachStep, ForeachEnd
  <2>2. MapOf(N, R)' /\ Linked' = Linked
    BY <1>0, <1>8, <2>1, BeginsMap, ForeachMaps
  <2>3. \A u \in Threads : u # r => th'[u] = th[u]
    BY <2>1, Goes DEF IInv
  <2>4. Tour(N, R, th[r])'
    <3>1. CASE FindBegin(r)
      <4>1. PICK n \in Names : Go(r, [Idle EXCEPT !.pc = "trie", !.op = "find", !.name = n])
        BY <3>1 DEF FindBegin
      <4> DEFINE q == [Idle EXCEPT !.pc = "trie", !.op = "find", !.name = n]
      <4>2. q.pc = "trie"
        BY DEF Idle
      <4> HIDE DEF q
      <4>3. Go(r, q) /\ q.pc # "foreach"
        BY <4>1, <4>2 DEF q
      <4> QED BY <2>1, <4>3, GoPlain DEF Tour
    <3>2. CASE ForeachBegin(r)
      BY <1>0, <2>2, <3>2, BeginsTour
    <3>3. CASE ForeachStep(r)
      <4>1. Toured(N, R, th'[r].stack, th'[r].seen, th'[r].keep, th'[r].met = TRUE)
        BY <1>0, <3>3, ForeachTours
      <4>2. PICK s, seen, keep : s = th'[r].stack /\ seen = th'[r].seen /\ keep = th'[r].keep
        OBVIOUS
      <4>3. /\ Spread(N, R, s) /\ Heard(N, R, s, seen) /\ Owed(N, R, s, seen, keep)
            /\ th'[r].met # TRUE => Clean(s, seen)
        BY <4>1, <4>2 DEF Toured
      <4>4. /\ Spread(N, R, s)' /\ Heard(N, R, s, seen)' /\ Owed(N, R, s, seen, keep)'
            /\ th'[r].met # TRUE => Clean(s, seen)'
        BY <2>1, <2>2, <4>3 DEF Spread, Heard, Owed, Clean
      <4>5. /\ Spread(N, R, th[r].stack)' /\ Heard(N, R, th[r].stack, th[r].seen)'
            /\ Owed(N, R, th[r].stack, th[r].seen, th[r].keep)'
            /\ th'[r].met # TRUE => Clean(th[r].stack, th[r].seen)'
        <5>1. Spread(N, R, th[r].stack)'
          BY <4>2, <4>4 DEF Spread
        <5>2. Heard(N, R, th[r].stack, th[r].seen)'
          BY <4>2, <4>4 DEF Heard
        <5>3. Owed(N, R, th[r].stack, th[r].seen, th[r].keep)'
          BY <4>2, <4>4 DEF Owed
        <5>4. th'[r].met # TRUE => Clean(th[r].stack, th[r].seen)'
          BY <4>2, <4>4 DEF Clean
        <5> QED BY <5>1, <5>2, <5>3, <5>4
      <4> QED BY <4>5 DEF Tour
    <3>4. CASE ForeachEnd(r)
      <4> DEFINE q == [th[r] EXCEPT !.pc = "idle", !.seen = <<>>, !.keep = {}, !.met = FALSE]
      <4>1. q.pc = "idle"
        BY <2>1 DEF IInv, Types, Shape, Fields
      <4> HIDE DEF q
      <4>2. Go(r, q) /\ q.pc # "foreach"
        BY <3>4, <4>1 DEF q, ForeachEnd
      <4> QED BY <2>1, <4>2, GoPlain DEF Tour
    <3> QED BY <1>8, <3>1, <3>2, <3>3, <3>4
  <2> QED BY <1>p, <2>1, <2>2, <2>3, <2>4
<1>9. ASSUME NEW t \in Threads, Descend(t)
      PROVE  FInv'
  <2>1. UNCHANGED mem
    BY <1>9 DEF Descend, TrieLevel, BtLevel, LoadProp, RereadProp
  <2>2. MapOf(N, R)' /\ Linked' = Linked
    BY <1>0, <1>9, TrieLevelMaps, BtLevelMaps, LoadPropMaps, RereadPropMaps DEF Descend
  <2>3. th'[t].pc # "foreach" /\ \A u \in Threads : u # t => th'[u] = th[u]
    BY <1>9, DescendPlain
  <2>4. Tour(N, R, th[t])'
    BY <2>3 DEF Tour
  <2> QED BY <1>p, <2>1, <2>2, <2>3, <2>4
<1> QED BY <1>1, <1>2, <1>3, <1>4, <1>5, <1>6, <1>7, <1>8, <1>9 DEF Next, Create

LEMMA TourComplete ==
    ASSUME GInv, FInv
    PROVE  ForeachComplete
<1> SUFFICES ASSUME NEW r \in Readers, th[r].pc = "foreach", th[r].stack = <<>>
             PROVE  /\ \A n \in th[r].keep : \E i \in 1..Len(th[r].seen) : th[r].seen[i] = n
                    /\ \A i, j \in 1..Len(th[r].seen) :
                         th[r].seen[i] = th[r].seen[j] /\ i # j => th[r].seen[i] = NoName
                    /\ ~th[r].met => \A i \in 1..Len(th[r].seen) : th[r].seen[i] # NoName
  BY DEF ForeachComplete
<1>1. PICK N, R : Tour(N, R, th[r])
  BY DEF FInv
<1>2. PICK s, seen, keep : s = th[r].stack /\ seen = th[r].seen /\ keep = th[r].keep
  OBVIOUS
<1>3. Heard(N, R, s, seen) /\ Owed(N, R, s, seen, keep) /\ (th[r].met # TRUE => Clean(s, seen))
  BY <1>1, <1>2 DEF Tour
<1>4. \A i \in 1..Len(s) : FALSE
  <2>1. Len(s) = 0
    BY <1>2
  <2> QED BY <2>1
<1>5. \A n \in keep : \E i \in 1..Len(seen) : seen[i] = n
  BY <1>3, <1>4 DEF Owed
<1>6. \A i, j \in 1..Len(seen) : seen[i] = seen[j] /\ i # j => seen[i] = NoName
  BY <1>3 DEF Heard
<1>7. ~th[r].met => th[r].met # TRUE
  BY Zenon
<1>8. ~th[r].met => \A i \in 1..Len(seen) : seen[i] # NoName
  BY <1>3, <1>7 DEF Clean
<1> QED BY <1>2, <1>5, <1>6, <1>8

(* While the one mutator adds and deletes, at every step between a reservation, a      *)
(* construction and the store that publishes it: every offset a reader can load leads  *)
(* to a finished object, a long value lies where its prop_info says, objects do not    *)
(* overlap and end below bytes_used_ within the mapping, no object moves or changes    *)
(* its kind, a prop_info is never written again, and a link once set stays.  And a     *)
(* foreach() that ends has reported each property that was there all along, once,      *)
(* however the trie grew behind it and before it; an object that is no property is     *)
(* reported only if a del() fell between the two loads of its prop.  For any number of *)
(* readers, any names and values, any area size. *)
THEOREM Area ==
    ASSUME SingleMutator
    PROVE  Spec => AreaKept
<1>1. IInv /\ [Next]_vars => [Kept]_vars
  BY StepIInv
<1>2. [Kept]_vars => [\A o \in DOMAIN mem :
         /\ mem'[o].kind = mem[o].kind
         /\ mem[o].kind # "bt" => mem'[o] = mem[o]
         /\ mem[o].kind = "bt" =>
              \A f \in {"left", "right", "children"} : mem[o][f] # 0 => mem'[o][f] = mem[o][f]]_vars
  BY DEF Kept, Links
<1>3. Init => GInv /\ FInv
  BY InitGInv, InitFInv
<1>4. IInv /\ IInv' /\ GInv /\ FInv /\ [Next]_vars => GInv' /\ FInv'
  BY StepGInv, StepFInv
<1>5. GInv /\ FInv => ForeachComplete
  BY TourComplete
<1> QED BY <1>1, <1>2, <1>3, <1>4, <1>5, Invariant, Complete, PTL DEF Spec, AreaKept, PointersStayValid
=============================================================================
