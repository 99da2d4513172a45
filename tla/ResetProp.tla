----------------------------- MODULE ResetProp -----------------------------
(* The resetprop tool (src/tools/resetprop/resetprop.c), the client side of  *)
(* the property service (system_property_set.cpp) and the storage of the     *)
(* persistent properties (persist_properties.c).                             *)
(*                                                                           *)
(* Several tool processes run side by side, each one command; they share the *)
(* property area, the socket of init's property service and the directory of *)
(* the persistent properties.  Init's side of the socket is external: it is  *)
(* modelled from the replies the client code distinguishes.  A process may   *)
(* be killed at every step.                                                  *)
EXTENDS Naturals, Sequences, FiniteSets

CONSTANTS
    Tools,        \* processes running resetprop
    Names,        \* legal property names
    BadNames,     \* names check_legal_property_name refuses
    ReadOnly,     \* the names starting with "ro."
    PersistNames, \* the names starting with "persist."
    VersionName,  \* "ro.property_service.version", one of ReadOnly
    Values,       \* property values
    LongValues,   \* the values of PROP_VALUE_MAX characters or more
    Truncated,    \* [Values -> Values], the first four characters of a value
    CommandLines, \* argument vectors the tools are started with
    FileLines,    \* the lines of the file given to --file
    Areas,        \* contents the property area may have at the start
    Stores,       \* contents the storage may have at the start
    MaxCommands   \* bound on the commands started

VARIABLES
    props,   \* the property area: name to value, or Absent
    nodes,   \* the names that have a node in the area's trie; nodes are never freed
    mode,    \* "file": one persistent_properties file; "dir": a file per name
    store,   \* the persistent properties, or Damaged
    tmp,     \* persistent_properties.tmp: a content, Damaged or NoFile
    inbox,   \* connections of the property service that wait to be handled
    reply,   \* what the service sent to each tool before closing
    proc,    \* the process of each tool
    effect,  \* ghost: what the current command did to its name
    overlap, \* ghost: the storage had two writers between a decode and its rename
    started  \* number of commands started

vars == <<props, nodes, mode, store, tmp, inbox, reply, proc, effect, overlap, started>>

Absent  == "absent"
(* A file that cannot be decoded, and no file. *)
Damaged == [n \in Names |-> "damaged"]
NoFile  == [n \in Names |-> "no file"]
Contents == [Names -> Values \cup {Absent}]

(* A process that has not been started, or has ended. *)
Idle == [pc |-> "idle", op |-> "none", name |-> Absent, value |-> Absent, trigger |-> TRUE, persist |-> FALSE,
         line |-> 0, ver |-> 0, pi |-> Absent, old |-> Absent, list |-> NoFile, ret |-> 0]

-----------------------------------------------------------------------------
(* main(): flags and options in front of the operands.  Every letter of a    *)
(* word that starts with "-" is a flag; "--file" and "--delete" count only   *)
(* in front of exactly one operand, and an unknown "--" word is read as the  *)
(* flag v followed by the flags its letters stand for.                       *)
FlagLetters == [w \in {"-n", "-p", "-v", "-np", "-x", "--file", "--delete", "--help", "--n"} |->
    CASE w = "-n"  -> {"n"} [] w = "-p" -> {"p"} [] w = "-v" -> {"v"} [] w = "-np" -> {"n", "p"}
      [] w = "--n" -> {"v", "n"} [] OTHER -> {"h"}]
IsFlag(w) == w \in DOMAIN FlagLetters

FlagsOf(argv) ==
    LET first == CHOOSE k \in 0 .. Len(argv) : /\ \A i \in 1 .. k : IsFlag(argv[i])
                                               /\ k < Len(argv) => ~IsFlag(argv[k + 1])
        option == {i \in 1 .. first : argv[i] \in {"--file", "--delete"} /\ Len(argv) - i = 1}
        upTo == IF option = {} THEN first ELSE (CHOOSE i \in option : TRUE) - 1
        letters == UNION {FlagLetters[argv[i]] : i \in 1 .. upTo}
    IN [trigger |-> "n" \notin letters, persist |-> "p" \in letters, usage |-> "h" \in letters,
        option |-> IF option = {} THEN "none" ELSE argv[upTo + 1], rest |-> SubSeq(argv, first + 1, Len(argv))]

Main(argv) ==
    LET f == FlagsOf(argv)
        n == Len(f.rest)
        bare == f.option = "none"
        op == IF f.usage THEN "usage"
              ELSE CASE f.option = "--file" -> "file" [] f.option = "--delete" -> "delete"
                     [] bare /\ n = 0 -> "list" [] bare /\ n = 1 -> "get" [] bare /\ n = 2 -> "set"
                     [] OTHER -> "usage"
    IN [Idle EXCEPT !.op = op, !.trigger = f.trigger, !.persist = f.persist,
                    !.name  = IF op \in {"get", "set", "delete"} THEN f.rest[1] ELSE Absent,
                    !.value = IF op = "set" THEN f.rest[2] ELSE Absent]

(* Names and values are told apart from their absence, and what main() is    *)
(* called with, what the file has and what was stored are names and values.  *)
WellFormed ==
    /\ PersistNames \cup ReadOnly \subseteq Names /\ VersionName \in ReadOnly
    /\ Names \cap BadNames = {}
    /\ Values \cap {Absent, "damaged", "no file"} = {} /\ Truncated \in [Values -> Values] /\ "nobody" \notin Tools
    /\ Areas \subseteq Contents /\ Stores \subseteq Contents /\ Len(FileLines) \in Nat
    /\ \A argv \in CommandLines : LET p == Main(argv) IN
         /\ p.op \in {"get", "set", "delete"} => p.name \in Names \cup BadNames
         /\ p.op = "set" => p.value \in Values
    /\ \A k \in 1 .. Len(FileLines) : FileLines[k].kind = "set" =>
         FileLines[k].name \in Names \cup BadNames /\ FileLines[k].value \in Values
ASSUME ToolAssumption == WellFormed

(* check_legal_property_name(): every entry point but the file starts here. *)
check_legal_property_name(n) == n \notin BadNames

(* read_prop_file(): comments, lines without "=" and lines with an empty     *)
(* name or value are skipped.                                                *)
NextLine(i) ==
    LET ok == {k \in i + 1 .. Len(FileLines) : FileLines[k].kind = "set"}
    IN IF ok = {} THEN 0 ELSE CHOOSE k \in ok : \A j \in ok : k <= j

(* The function of the command has returned r.  read_prop_file() ignores it  *)
(* and goes on with the next line; the value read so far of the protocol     *)
(* version stays with the process.                                           *)
Returned(p, r) ==
    LET k == NextLine(p.line)
    IN IF p.op = "file" /\ k # 0
       THEN [p EXCEPT !.line = k, !.pi = Absent, !.name = FileLines[k].name, !.value = FileLines[k].value,
                      !.pc = IF check_legal_property_name(FileLines[k].name) THEN "find" ELSE "skip"]
       ELSE [p EXCEPT !.pc = "ended", !.ret = IF p.op = "file" THEN 0 ELSE r]

Entry(p) ==
    LET legal == check_legal_property_name(p.name)
    IN CASE p.op = "file"  -> Returned(p, 0)
         [] p.op = "list"  -> [p EXCEPT !.pc = "list"]
         [] p.op \in {"get", "set"} /\ legal -> [p EXCEPT !.pc = "find"]
         [] p.op = "delete" /\ legal ->
              [p EXCEPT !.pc = IF p.persist /\ p.name \in PersistNames THEN "decode" ELSE "del"]
         [] OTHER          -> Returned(p, 1)

Start(t) == \E argv \in CommandLines :
    /\ proc[t].pc = "idle" /\ started < MaxCommands
    /\ proc' = [proc EXCEPT ![t] = Entry(Main(argv))]
    /\ effect' = [effect EXCEPT ![t] = {}]
    /\ started' = started + 1
    /\ UNCHANGED <<props, nodes, mode, store, tmp, inbox, reply, overlap>>

(* A file line whose name is illegal: setprop2() returns at once. *)
SkipLine(t) ==
    /\ proc[t].pc = "skip"
    /\ proc' = [proc EXCEPT ![t] = Returned(proc[t], 1)]
    /\ UNCHANGED <<props, nodes, mode, store, tmp, inbox, reply, effect, overlap, started>>

(* The process exits and its descriptors are closed. *)
Exit(t) ==
    /\ proc[t].pc = "ended"
    /\ proc' = [proc EXCEPT ![t] = Idle]
    /\ reply' = [reply EXCEPT ![t] = "none"]
    /\ UNCHANGED <<props, nodes, mode, store, tmp, inbox, effect, overlap, started>>

(* ~PropertyServiceConnection(): a connection its client has closed is still *)
(* handled, but nobody is told.                                              *)
Abandoned(t) == [i \in DOMAIN inbox |-> IF inbox[i].tool = t THEN [inbox[i] EXCEPT !.tool = "nobody"] ELSE inbox[i]]

(* SIGKILL at any point of a command. *)
Kill(t) ==
    /\ proc[t].pc \notin {"idle", "ended"}
    /\ proc' = [proc EXCEPT ![t] = Idle]
    /\ reply' = [reply EXCEPT ![t] = "none"]
    /\ inbox' = Abandoned(t)
    /\ UNCHANGED <<props, nodes, mode, store, tmp, effect, overlap, started>>

-----------------------------------------------------------------------------
(* SystemProperties::Find(): the pointer stays with the process.  A prop_info*)
(* that is deleted later keeps its bytes: the pointer then reads and writes  *)
(* an entry no other process finds.                                          *)
Find(n) == props[n] # Absent

(* Fault: a deleted entry is wiped and given to the next property. *)
Repoint_Reused(ps, n, v) == ps

Repoint(ps, n, v) ==
    [u \in Tools |-> IF ps[u].name = n /\ ps[u].pi = "live" THEN [ps[u] EXCEPT !.pi = "orphan", !.old = v] ELSE ps[u]]

(* SystemProperties::Delete(), with ret the value the caller goes on with. *)
Delete(t, p) ==
    /\ props' = [props EXCEPT ![p.name] = Absent]
    /\ proc' = [Repoint(proc, p.name, props[p.name]) EXCEPT ![t] = p]
    /\ effect' = [effect EXCEPT ![t] = @ \cup (IF Find(p.name) THEN {"deleted"} ELSE {})]

(* setprop2(): what is done depends on what Find() says now. *)
SetFind(t) ==
    LET p == proc[t]
        found == Find(p.name)
        next == IF p.trigger THEN IF found /\ p.name \in ReadOnly THEN "remove" ELSE "connect"
                ELSE IF found THEN "update" ELSE "add"
    IN /\ p.pc = "find" /\ p.op \in {"set", "file"}
       /\ proc' = [proc EXCEPT ![t].pc = next, ![t].pi = IF found THEN "live" ELSE Absent]
       /\ effect' = [effect EXCEPT ![t] = {}]
       /\ UNCHANGED <<props, nodes, mode, store, tmp, inbox, reply, overlap, started>>

(* A read-only property is deleted before init is asked to set it. *)
SetRemove(t) ==
    /\ proc[t].pc = "remove"
    /\ Delete(t, [proc[t] EXCEPT !.pc = "connect", !.pi = Absent])
    /\ UNCHANGED <<nodes, mode, store, tmp, inbox, reply, overlap, started>>

(* The entry was deleted meanwhile: whoever still points to it, rather than  *)
(* to an older one of the name, reads the new value there.                   *)
Overwritten(p) ==
    [u \in Tools |-> IF p.pi = "orphan" /\ proc[u].name = p.name /\ proc[u].pi = "orphan"
                     THEN [proc[u] EXCEPT !.old = p.value] ELSE proc[u]]

(* SystemProperties::Update() through the pointer found before. *)
SetUpdate(t) == \E ps \in {proc, Overwritten(proc[t])} :
    LET p == proc[t]
        fits == p.value \notin LongValues
    IN /\ p.pc = "update"
       /\ IF fits /\ p.pi = "live"
          THEN props' = [props EXCEPT ![p.name] = p.value] /\ effect' = [effect EXCEPT ![t] = {"set"}]
          ELSE UNCHANGED <<props, effect>>
       /\ proc' = [(IF fits THEN ps ELSE proc) EXCEPT ![t] = Returned(p, IF fits THEN 0 ELSE 1)]
       /\ UNCHANGED <<nodes, mode, store, tmp, inbox, reply, overlap, started>>

(* SystemProperties::Add(): long values only for read-only names; an entry   *)
(* somebody else added meanwhile is found and kept; the area may be full.    *)
SetAdd(t) == \E full \in BOOLEAN :
    LET p == proc[t]
        fits == p.value \in LongValues => p.name \in ReadOnly
        adds == fits /\ ~full /\ ~Find(p.name)
    IN /\ p.pc = "add"
       /\ props' = IF adds THEN [props EXCEPT ![p.name] = p.value] ELSE props
       /\ nodes' = IF adds THEN nodes \cup {p.name} ELSE nodes
       /\ effect' = IF adds THEN [effect EXCEPT ![t] = {"set"}] ELSE effect
       /\ proc' = [proc EXCEPT ![t] = Returned(p, IF fits /\ (~full \/ Find(p.name)) THEN 0 ELSE 1)]
       /\ UNCHANGED <<mode, store, tmp, inbox, reply, overlap, started>>

-----------------------------------------------------------------------------
(* detect_protocol_version(): once per process, from a property that this    *)
(* very tool may have removed.                                               *)
detect_protocol_version(p) ==
    IF p.ver # 0 THEN p.ver ELSE IF Find(VersionName) THEN 2 ELSE 1

(* __system_property_set() up to the connection: the old protocol refuses    *)
(* long values, the new one only outside "ro.".                              *)
Connect(t) == \E connected \in BOOLEAN :
    LET p == [proc[t] EXCEPT !.ver = detect_protocol_version(proc[t])]
        long == p.value \in LongValues /\ (p.ver = 1 \/ p.name \notin ReadOnly)
    IN /\ p.pc = "connect"
       /\ proc' = [proc EXCEPT ![t] = IF connected /\ ~long THEN [p EXCEPT !.pc = "send"] ELSE Returned(p, 1)]
       /\ UNCHANGED <<props, nodes, mode, store, tmp, inbox, reply, effect, overlap, started>>

(* send() of a prop_msg, or writev() of the SocketWriter. *)
Send(t) == \E written \in BOOLEAN :
    LET p == proc[t]
    IN /\ p.pc = "send"
       /\ inbox' = IF written THEN Append(inbox, [tool |-> t, name |-> p.name, value |-> p.value]) ELSE inbox
       /\ reply' = [reply EXCEPT ![t] = "none"]
       /\ proc' = [proc EXCEPT ![t] = IF written THEN [p EXCEPT !.pc = "await"] ELSE Returned(p, 1)]
       /\ UNCHANGED <<props, nodes, mode, store, tmp, effect, overlap, started>>

(* Init's property service (external): it refuses a read-only property that  *)
(* exists, may refuse by policy, may close without an answer, and otherwise  *)
(* sets the property and, for "persist." names, rewrites the storage through *)
(* the same temporary file the tool uses.                                    *)
Rewriters == {t \in Tools : proc[t].pc \in {"creat", "encode", "rename"}}
ServiceHandle == \E answer \in {"success", "error", "closed"} :
    LET m == Head(inbox)
        waits == m.tool \in Tools
        stores == answer = "success" /\ m.name \in PersistNames
    IN /\ inbox # <<>>
       /\ answer = "success" => ~(m.name \in ReadOnly /\ Find(m.name))
       /\ stores => store # Damaged
       /\ inbox' = Tail(inbox)
       /\ reply' = IF waits THEN [reply EXCEPT ![m.tool] = answer] ELSE reply
       /\ props' = IF answer = "success" THEN [props EXCEPT ![m.name] = m.value] ELSE props
       /\ nodes' = IF answer = "success" THEN nodes \cup {m.name} ELSE nodes
       /\ effect' = IF answer = "success" /\ waits THEN [effect EXCEPT ![m.tool] = @ \cup {"set"}] ELSE effect
       /\ store' = IF stores THEN [store EXCEPT ![m.name] = m.value] ELSE store
       /\ tmp' = IF stores /\ mode = "file" THEN NoFile ELSE tmp
       /\ overlap' = (overlap \/ (stores /\ Rewriters # {}))
       /\ UNCHANGED <<mode, proc, started>>

(* Fault: a failed recv() leaves the initial result unchecked. *)
RecvResult_Ignored(t) == IF reply[t] = "error" THEN 1 ELSE 0

(* The end of __system_property_set().  The new protocol waits for a number  *)
(* that says success; the old one only for the socket to close, and counts a *)
(* poll() that times out after 250 ms as success too.                        *)
RecvResult(t) == IF reply[t] = "success" THEN 0 ELSE 1
Await(t) ==
    LET p == proc[t]
    IN /\ p.pc = "await"
       /\ p.ver = 2 => reply[t] # "none"
       /\ proc' = [proc EXCEPT ![t] = Returned(p, IF p.ver = 2 THEN RecvResult(t) ELSE 0)]
       /\ inbox' = Abandoned(t)
       /\ reply' = [reply EXCEPT ![t] = "none"]
       /\ UNCHANGED <<props, nodes, mode, store, tmp, effect, overlap, started>>

-----------------------------------------------------------------------------
(* persist_getprop(): the first record of the file, or the first four bytes  *)
(* of the property's own file (the size given to read() is that of an int).  *)
persist_getprop(n) ==
    IF store = Damaged THEN Absent
    ELSE IF mode = "file" \/ store[n] = Absent THEN store[n] ELSE Truncated[store[n]]

(* getprop2(): a read-only value is handed to the callback in place, after   *)
(* its serial has been read; other values are copied under their serial.     *)
GetFind(t) ==
    LET p == proc[t]
    IN /\ p.pc = "find" /\ p.op = "get"
       /\ proc' = [proc EXCEPT ![t] =
            IF Find(p.name)
            THEN IF p.name \in ReadOnly THEN [p EXCEPT !.pc = "callback", !.pi = "live"]
                 ELSE Returned([p EXCEPT !.value = props[p.name]], 0)
            ELSE IF p.persist /\ p.name \in PersistNames THEN [p EXCEPT !.pc = "stored"] ELSE Returned(p, 1)]
       /\ UNCHANGED <<props, nodes, mode, store, tmp, inbox, reply, effect, overlap, started>>

GetCallback(t) ==
    LET p == proc[t]
    IN /\ p.pc = "callback"
       /\ proc' = [proc EXCEPT ![t] = Returned([p EXCEPT !.value = IF p.pi = "live" THEN props[p.name] ELSE p.old], 0)]
       /\ UNCHANGED <<props, nodes, mode, store, tmp, inbox, reply, effect, overlap, started>>

GetStored(t) ==
    LET p == proc[t]
        v == persist_getprop(p.name)
    IN /\ p.pc = "stored"
       /\ proc' = [proc EXCEPT ![t] = Returned([p EXCEPT !.value = v], IF v = Absent THEN 1 ELSE 0)]
       /\ UNCHANGED <<props, nodes, mode, store, tmp, inbox, reply, effect, overlap, started>>

(* print_props(): the area, and with -p the stored names the area lacks. *)
Listed(p) == [n \in Names |-> IF Find(n) \/ ~p.persist THEN props[n] ELSE persist_getprop(n)]
List(t) ==
    /\ proc[t].pc = "list"
    /\ proc' = [proc EXCEPT ![t] = Returned([proc[t] EXCEPT !.list = Listed(proc[t])], 0)]
    /\ UNCHANGED <<props, nodes, mode, store, tmp, inbox, reply, effect, overlap, started>>

-----------------------------------------------------------------------------
(* persist_deleteprop() with one file: all records are decoded, the name is  *)
(* dropped, the others are written to the temporary file, which then takes   *)
(* the place of the file.  Without the name nothing is written.              *)
Decode(t) ==
    LET p == proc[t]
        found == store # Damaged /\ store[p.name] # Absent
    IN /\ p.pc = "decode" /\ mode = "file"
       /\ proc' = [proc EXCEPT ![t] =
            IF found THEN [p EXCEPT !.pc = "creat", !.list = [store EXCEPT ![p.name] = Absent]]
            ELSE [p EXCEPT !.pc = "del", !.persist = FALSE]]
       /\ overlap' = (overlap \/ (found /\ Rewriters # {}))
       /\ UNCHANGED <<props, nodes, mode, store, tmp, inbox, reply, effect, started>>

(* create_ostream(): creat() truncates a temporary file that is there. *)
Creat(t) ==
    /\ proc[t].pc = "creat"
    /\ tmp' = Damaged
    /\ proc' = [proc EXCEPT ![t].pc = "encode"]
    /\ UNCHANGED <<props, nodes, mode, store, inbox, reply, effect, overlap, started>>

(* Fault: the result of pb_encode() is ignored. *)
Encode_Unchecked(t) == \E written \in BOOLEAN :
    /\ proc[t].pc = "encode"
    /\ tmp' = IF written /\ tmp # NoFile THEN proc[t].list ELSE tmp
    /\ proc' = [proc EXCEPT ![t].pc = "rename"]
    /\ UNCHANGED <<props, nodes, mode, store, inbox, reply, effect, overlap, started>>

(* pb_encode() with write_callback(): a short or failed write gives up and   *)
(* leaves the temporary file behind.                                         *)
Encode(t) == \E written \in BOOLEAN :
    LET p == proc[t]
    IN /\ p.pc = "encode"
       /\ tmp' = IF written /\ tmp # NoFile THEN p.list ELSE tmp
       /\ proc' = [proc EXCEPT ![t] = IF written THEN [p EXCEPT !.pc = "rename"]
                                      ELSE [p EXCEPT !.pc = "del", !.persist = FALSE]]
       /\ UNCHANGED <<props, nodes, mode, store, inbox, reply, effect, overlap, started>>

(* rename(), whose result is not looked at. *)
Rename(t) ==
    /\ proc[t].pc = "rename"
    /\ store' = IF tmp = NoFile THEN store ELSE tmp
    /\ tmp' = NoFile
    /\ effect' = [effect EXCEPT ![t] = IF tmp = NoFile THEN @ ELSE @ \cup {"unstored"}]
    /\ proc' = [proc EXCEPT ![t].pc = "del"]
    /\ UNCHANGED <<props, nodes, mode, inbox, reply, overlap, started>>

(* The same with a file per property: unlink(). *)
Unlink(t) ==
    LET p == proc[t]
        found == store # Damaged /\ store[p.name] # Absent
    IN /\ p.pc = "decode" /\ mode = "dir"
       /\ store' = IF found THEN [store EXCEPT ![p.name] = Absent] ELSE store
       /\ effect' = [effect EXCEPT ![t] = IF found THEN @ \cup {"unstored"} ELSE @]
       /\ proc' = [proc EXCEPT ![t] = [p EXCEPT !.pc = "del", !.persist = found]]
       /\ UNCHANGED <<props, nodes, mode, tmp, inbox, reply, overlap, started>>

(* The end of deleteprop2(): its result joins both deletions.  prop_area::del *)
(* succeeds when the trie has a node for the name, with or without a property.*)
DeleteResult(p) == IF p.name \notin nodes /\ ~(p.persist /\ p.name \in PersistNames) THEN 1 ELSE 0
Del(t) ==
    /\ proc[t].pc = "del"
    /\ Delete(t, Returned(proc[t], DeleteResult(proc[t])))
    /\ UNCHANGED <<nodes, mode, store, tmp, inbox, reply, overlap, started>>

-----------------------------------------------------------------------------
Init ==
    /\ props \in Areas /\ nodes = {n \in Names : props[n] # Absent} /\ store \in Stores /\ mode \in {"file", "dir"}
    /\ tmp = NoFile /\ inbox = <<>> /\ overlap = FALSE /\ started = 0
    /\ reply = [t \in Tools |-> "none"]
    /\ proc = [t \in Tools |-> Idle]
    /\ effect = [t \in Tools |-> {}]

Step(t) == \/ SkipLine(t) \/ Exit(t) \/ SetFind(t) \/ SetRemove(t) \/ SetUpdate(t) \/ SetAdd(t)
           \/ Connect(t) \/ Send(t) \/ Await(t) \/ GetFind(t) \/ GetCallback(t) \/ GetStored(t) \/ List(t)
           \/ Decode(t) \/ Creat(t) \/ Encode(t) \/ Rename(t) \/ Unlink(t) \/ Del(t)

Next == ServiceHandle \/ \E t \in Tools : Start(t) \/ Kill(t) \/ Step(t)

Spec == Init /\ [][Next]_vars

(* A started process runs, and init's single-threaded service keeps taking   *)
(* connections from its socket.                                              *)
FairSpec == Spec /\ WF_vars(ServiceHandle) /\ \A t \in Tools : WF_vars(Step(t))

-----------------------------------------------------------------------------
Process == [pc : {"idle", "ended", "list", "skip", "find", "remove", "update", "add", "connect", "send", "await",
                  "callback", "stored", "decode", "creat", "encode", "rename", "del"},
            op : {"none", "usage", "file", "delete", "list", "get", "set"},
            name : Names \cup BadNames \cup {Absent}, value : Values \cup {Absent},
            trigger : BOOLEAN, persist : BOOLEAN, line : 0 .. Len(FileLines), ver : 0 .. 2,
            pi : {Absent, "live", "orphan"}, old : Values \cup {Absent},
            list : Contents \cup {NoFile}, ret : 0 .. 1]

(* Every variable keeps its type: no command works with a value it did not   *)
(* get from the area, the storage, its arguments or the file (the buffer     *)
(* prop of persist_getprop() is not returned unset), and a tool has one      *)
(* connection.                                                               *)
TypeOK ==
    /\ props \in Contents /\ nodes \subseteq Names /\ (\A n \in Names : Find(n) => n \in nodes)
    /\ mode \in {"file", "dir"}
    /\ store = Damaged \/ store \in Contents
    /\ tmp \in {NoFile, Damaged} \/ tmp \in Contents
    /\ \A i \in DOMAIN inbox : inbox[i] \in [tool : Tools \cup {"nobody"}, name : Names, value : Values]
    /\ \A i, j \in DOMAIN inbox : i # j /\ inbox[i].tool \in Tools => inbox[i].tool # inbox[j].tool
    /\ \A t \in Tools : /\ proc[t] \in Process
                        /\ reply[t] \in {"none", "success", "error", "closed"}
                        /\ effect[t] \subseteq {"deleted", "set", "unstored"}

(* setprop2(): with the new protocol the exit code says whether init has set *)
(* the property; a failed command has changed nothing, except that a         *)
(* read-only property is gone.  With the old protocol only failure is sure.  *)
SetTellsEffect ==
    \A t \in Tools : LET p == proc[t] IN
        p.pc = "ended" /\ p.op = "set" /\ p.name \in Names =>
            /\ p.ver = 2 => (p.ret = 0 <=> "set" \in effect[t])
            /\ p.ret # 0 => effect[t] \subseteq (IF p.name \in ReadOnly /\ p.trigger THEN {"deleted"} ELSE {})

(* deleteprop2(): a command that fails has removed nothing, and one that     *)
(* succeeds has removed the name from the area or from the storage, unless   *)
(* the area once had the name, or two writers met.                           *)
DeleteTellsEffect ==
    \A t \in Tools : LET p == proc[t] IN
        p.pc = "ended" /\ p.op = "delete" /\ p.name \in Names /\ ~overlap =>
            IF p.ret = 0 THEN effect[t] # {} \/ p.name \in nodes ELSE effect[t] = {}

(* Every command ends: the old protocol gives up after 250 ms, and the new   *)
(* one ends with an answer or with the end of the connection.                *)
CommandEnds == \A t \in Tools : proc[t].pc # "idle" ~> proc[t].pc = "idle"

(* What a reader that has found a read-only property will hand out. *)
ValueRead(p) == IF p.pi = "live" THEN props[p.name] ELSE p.old

(* ReadCallback() hands out a read-only value in place, without looking at   *)
(* the serial again.  Between the two steps neither a deletion, nor a        *)
(* property of the same name that takes its place, nor init changes what the *)
(* reader gets; only Update() of another resetprop does, which works in      *)
(* place on read-only properties too.                                        *)
ReadOnlyKept ==
    [][\A t \in Tools :
        proc[t].pc = "callback" /\ proc'[t].pc = "callback" /\ ValueRead(proc[t])' # ValueRead(proc[t]) =>
            \E u \in Tools : proc[u].pc = "update" /\ proc'[u].pc # "update" /\ proc[u].name = proc[t].name]_vars

(* main(): every command ends, works only with values it was given, and its  *)
(* exit code tells what it has done to the area and to the storage.          *)
ExitTells == [](TypeOK /\ SetTellsEffect /\ DeleteTellsEffect) /\ CommandEnds

(* persist_deleteprop(): wherever the process is killed and whichever write  *)
(* fails, persistent_properties stays a complete file that lacks no property *)
(* but the one the command names, unless two writers met.                    *)
StorageKept ==
    [][(~overlap' /\ store # store') =>
        /\ store' # Damaged
        /\ \A n \in Names : store'[n] = Absent =>
            \/ store[n] = Absent
            \/ \E t \in Tools : proc[t].op = "delete" /\ proc[t].name = n /\ proc[t].pc \in {"decode", "rename"}]_vars
=============================================================================
