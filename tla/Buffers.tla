------------------------------- MODULE Buffers -------------------------------
(***************************************************************************)
(* The growing buffers of resetprop's utilities: struct vector             *)
(* (utils/vector.c), the line of __getdelim (utils/misc.c), the block of   *)
(* stream_full_read (utils/file.c), and fdgets with its fixed size.  What  *)
(* matters is where is written and how much is allocated there, and who    *)
(* frees the entries of a vector.                                          *)
(***************************************************************************)
EXTENDS Integers, Sequences, FiniteSets, Functions, SequencesExt

CONSTANTS
    Vectors,    \* names of vectors
    Items,      \* pointers to push; NULL is "null"
    MaxSize,    \* bound on a vector's size
    MaxFreed,   \* bound on how often an item is freed
    Chunks,     \* lengths read() may return to stream_full_read
    MaxStream,  \* bound on the bytes of a stream
    LineSizes,  \* *n of a caller that brings its own line, 0 without a line
    MaxLine,    \* bound on the length of a line
    Sizes       \* sizes of the array given to fdgets

VARIABLES
    vec,        \* per vector: entries, capacity, and whether there is a block
    freed,      \* how often each item was freed
    dup,        \* items two vectors hold since vec_dup
    job,        \* the reader that runs: its block, what is written, what is left
    over        \* something was written outside of its block

vars == <<vec, freed, dup, job, over>>

NoVector == [entry |-> <<>>, cap |-> 0, state |-> "none"]
Idle == [kind |-> "none", cap |-> 0, pos |-> 0, avail |-> 0]

Init ==
    /\ vec = [v \in Vectors |-> NoVector]
    /\ freed = [i \in Items |-> 0] /\ dup = {}
    /\ job = Idle /\ over = FALSE

-----------------------------------------------------------------------------
(* struct vector *)

vec_size(v) == Len(vec[v].entry)

vec_init(v) ==
    /\ vec[v].state # "live"
    /\ vec' = [vec EXCEPT ![v] = [entry |-> <<>>, cap |-> 1, state |-> "live"]]
    /\ UNCHANGED <<freed, dup, over>>

\* The capacity before an entry is added.
Grown(v) == IF vec_size(v) = vec[v].cap THEN vec[v].cap * 2 ELSE vec[v].cap

vec_push_back(v, i) ==
    /\ vec[v].state = "live" /\ vec_size(v) < MaxSize
    /\ vec' = [vec EXCEPT ![v].cap = Grown(v), ![v].entry = Append(@, i)]
    /\ over' = (over \/ vec_size(v) + 1 > Grown(v))
    /\ UNCHANGED <<freed, dup>>

vec_pop_back(v) ==
    /\ vec[v].state = "live" /\ vec_size(v) > 0
    /\ vec' = [vec EXCEPT ![v].entry = Front(@)]
    /\ UNCHANGED <<freed, dup, over>>

\* Null pointers come last and are cut off.  The rest is in any order: what a
\* comparison makes of it is not modelled.
Full(s) == {k \in DOMAIN s : s[k] # "null"}
vec_sort(v) ==
    /\ vec[v].state = "live"
    /\ \E p \in Bijection(1 .. Cardinality(Full(vec[v].entry)), Full(vec[v].entry)) :
         vec' = [vec EXCEPT ![v].entry = [k \in DOMAIN p |-> @[p[k]]]]
    /\ UNCHANGED <<freed, dup, over>>

Held(v, i) == Cardinality({k \in DOMAIN vec[v].entry : vec[v].entry[k] = i})
Destroyed(v) == vec' = [vec EXCEPT ![v] = [entry |-> <<>>, cap |-> 0, state |-> "destroyed"]]

vec_destroy(v) ==
    /\ vec[v].state # "none"
    /\ Destroyed(v)
    /\ UNCHANGED <<freed, dup, over>>

vec_deep_destroy(v) ==
    /\ vec[v].state # "none"
    /\ freed' = [i \in Items |-> freed[i] + Held(v, i)]
    /\ \A i \in Items : freed'[i] <= MaxFreed
    /\ Destroyed(v)
    /\ UNCHANGED <<dup, over>>

\* vec_dup copies the entries, not what they point to.
vec_dup(v, w) ==
    /\ vec[v].state = "live" /\ vec[w].state # "live"
    /\ vec' = [vec EXCEPT ![w] = vec[v]]
    /\ dup' = dup \cup ToSet(vec[v].entry)
    /\ UNCHANGED <<freed, over>>

\* A caller pushes a pointer it has just allocated.
Fresh(i) == IF i = "null" THEN TRUE
            ELSE freed[i] = 0 /\ \A v \in Vectors : i \notin ToSet(vec[v].entry)

VectorNext ==
    /\ job.kind = "none" /\ UNCHANGED job
    /\ \E v \in Vectors :
         \/ vec_init(v) \/ vec_pop_back(v) \/ vec_sort(v) \/ vec_destroy(v) \/ vec_deep_destroy(v)
         \/ \E i \in Items \cup {"null"} : Fresh(i) /\ vec_push_back(v, i)
         \/ \E w \in Vectors : vec_dup(v, w)

-----------------------------------------------------------------------------
(* Readers *)

Begin(j) ==
    /\ job.kind = "none" /\ vec = [v \in Vectors |-> NoVector]
    /\ job' = j
    /\ UNCHANGED <<vec, freed, dup, over>>

MIN_CHUNK == 64
GetdelimBegin ==
    \E n \in LineSizes :
        LET size == IF n = 0 THEN MIN_CHUNK ELSE n IN
        Begin([kind |-> "getdelim", cap |-> size, pos |-> 0, avail |-> size])

\* Fault: the block grows when it is full, with no room for the terminator.
GrownLine_Full(j) ==
    IF j.avail >= 1 THEN j
    ELSE LET n == IF j.cap > MIN_CHUNK THEN j.cap * 2 ELSE j.cap + MIN_CHUNK
         IN [j EXCEPT !.cap = n, !.avail = n - j.pos]

\* The block of the line before the next character is stored.
GrownLine(j) ==
    IF j.avail >= 2 THEN j
    ELSE LET n == IF j.cap > MIN_CHUNK THEN j.cap * 2 ELSE j.cap + MIN_CHUNK
         IN [j EXCEPT !.cap = n, !.avail = n - j.pos]

\* A character, or the end of the line or of the file: a terminator is stored.
__getdelim ==
    /\ job.kind = "getdelim" /\ job.pos < MaxLine
    /\ LET j == GrownLine(job) IN
       \/ job' = [j EXCEPT !.pos = @ + 1, !.avail = @ - 1] /\ over' = (over \/ j.pos >= j.cap)
       \/ job' = Idle /\ over' = (over \/ j.pos + 1 >= j.cap)
       \/ job' = Idle /\ over' = (over \/ j.pos >= j.cap)
    /\ UNCHANGED <<vec, freed, dup>>

StreamBegin == Begin([kind |-> "stream", cap |-> Max(Chunks), pos |-> 0, avail |-> 0])

\* stream_full_read: the block starts with the length of the largest read.
stream_full_read ==
    /\ job.kind = "stream"
    /\ \/ \E n \in Chunks :
            LET cap == IF job.pos + n > job.cap THEN job.cap * 2 ELSE job.cap IN
            /\ job.pos + n <= MaxStream
            /\ job' = [job EXCEPT !.cap = cap, !.pos = @ + n]
            /\ over' = (over \/ job.pos + n > cap)
       \/ job' = Idle /\ over' = over
    /\ UNCHANGED <<vec, freed, dup>>

\* fdgets: a byte at a time while there is room, then the terminators.  A
\* size of 0 makes size - 1 the largest number there is.
FdgetsBegin == \E n \in Sizes : Begin([kind |-> "fdgets", cap |-> n, pos |-> 0, avail |-> 0])
fdgets ==
    /\ job.kind = "fdgets" /\ job.pos < MaxLine
    /\ \/ job.pos + 1 < job.cap /\ job' = [job EXCEPT !.pos = @ + 1]
       \/ job' = Idle
    /\ over' = (over \/ job.pos >= job.cap)
    /\ UNCHANGED <<vec, freed, dup>>

Next ==
    \/ VectorNext
    \/ GetdelimBegin \/ __getdelim \/ StreamBegin \/ stream_full_read
    \/ FdgetsBegin \/ fdgets

Spec == Init /\ [][Next]_vars

-----------------------------------------------------------------------------
(* Properties *)

\* vec_push_back, __getdelim, stream_full_read, fdgets: nothing is stored
\* outside of the block there is at that moment, the terminator of a line
\* included, however the lengths fall on the capacities.
InBlock == ~over /\ \A v \in Vectors : vec[v].state = "live" => vec_size(v) <= vec[v].cap

\* vec_deep_destroy: an entry is freed at most once, however often a vector is
\* destroyed, unless vec_dup has given it to a second vector.
FreedOnce == \A i \in Items : freed[i] > 1 => i \in dup

\* Growing blocks and shared entries: nothing is stored outside, nothing freed twice.
BuffersInv == InBlock /\ FreedOnce
=============================================================================
