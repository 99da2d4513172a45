------------------------------ MODULE FileTree ------------------------------
(***************************************************************************)
(* The walks over directory trees of resetprop's utilities                 *)
(* (tools/resetprop/utils/file.c): rm_rf, mv_f, cp_afc and link_dir, one   *)
(* entry of readdir() after another, while another process may create      *)
(* files.  The wrappers of xwrap.c log a failed call and go on; so does    *)
(* the model.                                                              *)
(***************************************************************************)
EXTENDS Integers, Sequences, FiniteSets, TLC, SequencesExt

CONSTANTS
    Trees,      \* file systems to start from: [ino, inode]
    Lists,      \* values of excl_list
    Source, Destination,    \* the paths the functions are called with
    MaxCalls, MaxCreated    \* bounds: calls; files another process creates

VARIABLES
    fs,         \* ino: path -> inode number; inode: number -> kind, data, attr
    excl_list,
    op,         \* function that runs, or that ran last
    pc,         \* "idle", "walk" or "end"
    stack,      \* open directories: path, path of its counterpart, entries to come
    attr,       \* the struct file_attr of the outermost call
    before,     \* history: fs when the function was called
    created,    \* history: what another process created during the call
    calls

vars == <<fs, excl_list, op, pc, stack, attr, before, created, calls>>

-----------------------------------------------------------------------------
(* System calls: each takes a file system and returns the next one *)

Under(p, d) == IsStrictPrefix(d, p)
Kind(s, p) == IF p \in DOMAIN s.ino THEN s.inode[s.ino[p]].kind ELSE "none"
AttrOf(s, p) == IF p \in DOMAIN s.ino THEN s.inode[s.ino[p]].attr ELSE "none"
DataOf(s, p) == s.inode[s.ino[p]].data
readdir(s, d) == {Last(p) : p \in {q \in DOMAIN s.ino : Len(q) = Len(d) + 1 /\ Front(q) = d}}
Follow(s, p) == IF Kind(s, p) = "lnk" THEN DataOf(s, p) ELSE p

\* A new name for an inode, where the directory is there and the name is free.
Link(s, p, n) ==
    IF p \in DOMAIN s.ino \/ Kind(s, Front(p)) # "dir" THEN s
    ELSE [s EXCEPT !.ino = p :> n @@ @]
Create(s, p, kind, data, a) ==
    LET n == Len(s.inode) + 1
        t == Link(s, p, n)
    IN IF t = s THEN s
       ELSE [t EXCEPT !.inode = Append(@, [kind |-> kind, data |-> data, attr |-> a])]
unlink(s, p) ==
    IF readdir(s, p) # {} THEN s
    ELSE [s EXCEPT !.ino = [q \in DOMAIN @ \ {p} |-> @[q]]]
mkdir(s, p, a) == Create(s, p, "dir", "none", a)
symlink(s, p, to) == Create(s, p, "lnk", to, "link")
linkat(s, p, q) == Link(s, q, s.ino[p])
rename(s, p, q) ==
    IF p \notin DOMAIN s.ino \/ Kind(s, q) = "dir" \/ Kind(s, Front(q)) # "dir" THEN s
    ELSE LET n == s.ino[p] IN
         [s EXCEPT !.ino = q :> n @@ [r \in DOMAIN @ \ {p} |-> @[r]]]

\* chmod and chown follow a symbolic link.
setattr(s, p, a) ==
    LET t == Follow(s, p) IN
    IF t \notin DOMAIN s.ino THEN s ELSE [s EXCEPT !.inode[s.ino[t]].attr = a]

\* open(O_CREAT | O_TRUNC) of q, which follows a link, then sendfile from p,
\* which may be the file that was just cut off.
sendfile(s, p, q, a) ==
    LET t == Follow(s, q)
        made == Create(s, t, "reg", "empty", a)
    IN IF Kind(s, t) \notin {"reg", "none"} \/ Kind(made, t) # "reg" THEN s
       ELSE LET cut == [made EXCEPT !.inode[made.ino[t]].data = "empty"]
                data == DataOf(cut, p)
            IN [cut EXCEPT !.inode[cut.ino[t]].data = data]

\* mkdirs: every directory on the way that is not there yet.
mkdirs(s, p, a) == FoldLeft(LAMBDA t, n : mkdir(t, SubSeq(p, 1, n), a), s, [n \in 1 .. Len(p) |-> n])

-----------------------------------------------------------------------------
(* The functions *)

Open(s, p, q) == IF Kind(s, p) = "dir" THEN <<[src |-> p, dst |-> q, todo |-> readdir(s, p)]>> ELSE <<>>

Start(name, s, frames) ==
    /\ pc = "idle" /\ calls < MaxCalls
    /\ fs' = s /\ stack' = frames /\ op' = name
    /\ pc' = IF frames = <<>> THEN "end" ELSE "walk"
    /\ before' = fs /\ created' = {} /\ calls' = calls + 1
    /\ attr' = AttrOf(fs, Source)
    /\ UNCHANGED excl_list

\* open(O_NOFOLLOW); what is no directory is left to remove().
rm_rf == Start("rm_rf", fs, Open(fs, Source, Source))

mv_f ==
    LET a == AttrOf(fs, Source)
        made == setattr(mkdirs(fs, Destination, a), Destination, a)
    IN /\ Source \in DOMAIN fs.ino
       /\ IF Kind(fs, Source) = "dir"
            THEN Start("mv_f", made, Open(made, Source, Follow(made, Destination)))
            ELSE Start("mv_f", setattr(rename(fs, Source, Destination), Destination, a), <<>>)

cp_afc ==
    LET a == AttrOf(fs, Source)
        made == mkdirs(fs, Destination, a)
        gone == IF Kind(fs, Destination) = "dir" THEN fs ELSE unlink(fs, Destination)
    IN /\ Source \in DOMAIN fs.ino
       /\ CASE Kind(fs, Source) = "dir" ->
                 Start("cp_afc", made, Open(made, Source, Follow(made, Destination)))
            [] Kind(fs, Source) = "reg" ->
                 Start("cp_afc", sendfile(gone, Source, Destination, a), <<>>)
            [] Kind(fs, Source) = "lnk" ->
                 Start("cp_afc", symlink(gone, Destination, DataOf(fs, Source)), <<>>)
            [] OTHER -> Start("cp_afc", gone, <<>>)

link_dir ==
    /\ Kind(fs, Source) = "dir" /\ Kind(fs, Destination) = "dir"
    /\ Start("link_dir", fs, Open(fs, Source, Destination))

is_excl(name) == name \in excl_list

\* Only a directory is walked through.
Enters(kind) == kind = "dir"

\* Fault: a file that cannot be moved is removed.
MovedEntry_Drops(s, p, q, a) == unlink(setattr(rename(s, p, q), q, a), p)

\* A file or a link of mv_dir.
MovedEntry(s, p, q, a) == setattr(rename(s, p, q), q, a)

\* A file of clone_dir; fsetattr works on what was opened.
CopiedFile(s, p, q, a) ==
    LET t == sendfile(s, p, q, a) IN
    IF Kind(t, Follow(t, q)) = "reg" THEN setattr(t, q, a) ELSE t

\* What an entry that is no directory leads to in each of the walks.
Entry(s, p, q) ==
    LET kind == Kind(s, p)
        a == AttrOf(s, p)
    IN CASE op = "rm_rf" -> unlink(s, p)
         [] op = "mv_f" /\ kind \in {"reg", "lnk"} -> MovedEntry(s, p, q, a)
         [] op = "cp_afc" /\ kind = "reg" -> CopiedFile(s, p, q, a)
         [] op = "cp_afc" /\ kind = "lnk" -> setattr(symlink(s, q, DataOf(s, p)), q, a)
         [] op = "link_dir" -> linkat(s, p, q)
         [] OTHER -> s

\* A directory gets its counterpart before it is entered.
Entered(s, p, q) ==
    IF op = "rm_rf" THEN s
    ELSE LET a == AttrOf(s, p) IN setattr(mkdir(s, q, a), q, a)

Top == Last(stack)

\* One turn of the loop in in_order_walk, mv_dir, clone_dir or link_dir.
NextEntry ==
    /\ pc = "walk" /\ Top.todo # {}
    /\ \E name \in Top.todo :
         LET p == Append(Top.src, name)
             q == Append(Top.dst, name)
             s == IF Enters(Kind(fs, p)) THEN Entered(fs, p, q) ELSE Entry(fs, p, q)
             rest == [stack EXCEPT ![Len(stack)].todo = @ \ {name}]
         IN IF is_excl(name) THEN fs' = fs /\ stack' = rest
            ELSE /\ fs' = s
                 /\ stack' = IF Enters(Kind(fs, p)) THEN rest \o Open(s, p, Follow(s, q)) ELSE rest
    /\ UNCHANGED <<excl_list, op, pc, attr, before, created, calls>>

\* After a subdirectory: unlinkat(AT_REMOVEDIR), which spares what is not empty.
Leave(s, d) == unlink(s, d)

LeaveDirectory ==
    /\ pc = "walk" /\ Top.todo = {}
    /\ stack' = Front(stack)
    /\ pc' = IF Len(stack) = 1 THEN "end" ELSE pc
    /\ fs' = IF Len(stack) > 1 /\ op \in {"rm_rf", "mv_f"} THEN Leave(fs, Top.src) ELSE fs
    /\ UNCHANGED <<excl_list, op, attr, before, created, calls>>

\* remove(path), rmdir(source) or setattr(destination).
Return ==
    /\ pc = "end"
    /\ pc' = "idle"
    /\ fs' = CASE op = "rm_rf" -> unlink(fs, Source)
               [] op = "mv_f" /\ Kind(fs, Source) = "dir" -> unlink(fs, Source)
               [] op = "cp_afc" -> setattr(fs, Destination, attr)
               [] OTHER -> fs
    /\ UNCHANGED <<excl_list, op, stack, attr, before, created, calls>>

\* Another process creates a file, which an open readdir() may or may not see.
OtherCreates ==
    /\ pc # "idle" /\ Cardinality(created) < MaxCreated
    /\ \E d \in {p \in DOMAIN fs.ino : Kind(fs, p) = "dir"}, seen \in BOOLEAN :
         LET p == Append(d, "new") IN
         /\ p \notin DOMAIN fs.ino
         /\ fs' = Create(fs, p, "reg", "theirs", "theirs")
         /\ created' = created \cup {p}
         /\ stack' = [i \in DOMAIN stack |->
                        IF seen /\ stack[i].src = d
                          THEN [stack[i] EXCEPT !.todo = @ \cup {"new"}] ELSE stack[i]]
    /\ UNCHANGED <<excl_list, op, pc, attr, before, calls>>

Init ==
    /\ fs \in Trees /\ excl_list \in Lists
    /\ op = "none" /\ pc = "idle" /\ stack = <<>> /\ attr = "none"
    /\ before = fs /\ created = {} /\ calls = 0

Next ==
    \/ rm_rf \/ mv_f \/ cp_afc \/ link_dir
    \/ NextEntry \/ LeaveDirectory \/ Return \/ OtherCreates

Spec == Init /\ [][Next]_vars

-----------------------------------------------------------------------------
(* Properties *)

Done(f) == pc = "idle" /\ op = f
Excluded(p) == \E i \in Len(Source) + 1 .. Len(p) : p[i] \in excl_list

\* rm_rf with excl_list: what remains of the tree is the excluded entries with
\* all that is in them, what another process has put there meanwhile, and the
\* directories on the way to these; an excluded entry is never lost.
RemovedExactly ==
    Done("rm_rf") =>
        LET kept == {p \in DOMAIN before.ino : Under(p, Source) /\ Excluded(p)}
        IN /\ kept \subseteq DOMAIN fs.ino
           /\ \A p \in DOMAIN fs.ino : IsPrefix(Source, p) =>
                \E q \in kept \cup created : IsPrefix(p, q)

\* mv_f, also onto a tree that has entries of the same names: no file of the
\* source disappears unless its name is taken again before the end of the walk,
\* and one whose place was free has moved there unless it is
\* excluded or neither a file nor a link.
NothingLost ==
    Done("mv_f") =>
        /\ \A p \in DOMAIN before.ino :
             (IsPrefix(Source, p) /\ Kind(before, p) # "dir" /\ p \notin created) =>
                \E q \in DOMAIN fs.ino : fs.ino[q] = before.ino[p]
        /\ (\A p \in DOMAIN before.ino : ~IsPrefix(Destination, p)) =>
             \A p \in DOMAIN before.ino \ created :
               (IsPrefix(Source, p) /\ Kind(before, p) \in {"reg", "lnk"} /\ ~Excluded(p)) =>
                  LET q == Destination \o SubSeq(p, Len(Source) + 1, Len(p)) IN
                  q \in DOMAIN fs.ino /\ fs.ino[q] = before.ino[p]

LinkedTo(s, p) ==
    \E q \in DOMAIN s.ino \ {p} :
        \/ s.ino[q] = s.ino[p]
        \/ Kind(s, q) = "lnk" /\ DataOf(s, q) = p

\* cp_afc and link_dir leave the source as it is; a file that has a hard or a
\* symbolic link to it is the exception, as clone_dir opens and cuts off what an
\* entry of the destination leads to.
SourceKept ==
    (Done("cp_afc") \/ Done("link_dir")) =>
        \A p \in DOMAIN before.ino :
            (IsPrefix(Source, p) /\ ~LinkedTo(before, p)) =>
                /\ p \in DOMAIN fs.ino /\ fs.ino[p] = before.ino[p]
                /\ fs.inode[fs.ino[p]] = before.inode[before.ino[p]]

\* cp_afc into a place that was free: every file that is not excluded is there
\* with the data and the attributes of its source.
CopyComplete ==
    (Done("cp_afc") /\ \A p \in DOMAIN before.ino : ~IsPrefix(Destination, p)) =>
        \A p \in DOMAIN before.ino :
            (IsPrefix(Source, p) /\ Kind(before, p) = "reg" /\ ~Excluded(p) /\ ~LinkedTo(before, p)) =>
                LET q == Destination \o SubSeq(p, Len(Source) + 1, Len(p)) IN
                /\ q \in DOMAIN fs.ino
                /\ fs.inode[fs.ino[q]] = before.inode[before.ino[p]]

\* The four walks do to the tree what they are called for and nothing else, with another
\* process creating files on their way.
TreesInv == RemovedExactly /\ NothingLost /\ SourceKept /\ CopyComplete
=============================================================================
