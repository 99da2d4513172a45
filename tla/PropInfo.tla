------------------------------ MODULE PropInfo ------------------------------
(***************************************************************************)
(* One prop_info of the shared property area and the area-wide serial, as  *)
(* SystemProperties uses them: Update() is the writer side of a sequence   *)
(* lock, Serial()/Read()/ReadCallback() the reader side, Wait()/WaitAny()  *)
(* sleep on a futex until a serial changes.                                *)
(*                                                                         *)
(* Every shared load, store, character copy and futex call is a step of    *)
(* its own.  The copies (strlcpy, memcpy) touch the characters in any      *)
(* order.  Shared memory is sequentially consistent, which is what the     *)
(* fences of the code are there for.                                       *)
(***************************************************************************)
EXTENDS Integers, Sequences

CONSTANTS
    Mutators,    \* threads that call Update: init's property service, resetprop -n
    Readers,     \* threads that call Read or ReadCallback
    Waiters,     \* threads that call Wait or WaitAny
    Chars,       \* characters a value is made of
    Values,      \* the values Update is called with, all shorter than PROP_VALUE_MAX
    MaxLen,      \* PROP_VALUE_MAX - 1
    CtrMod,      \* 2^24: the counter in the low bytes of the serial wraps here
    MaxUpdates   \* bound on the calls of Update

ASSUME LengthAssumption ==
    /\ MaxLen \in Nat
    /\ Values # {}
    /\ \A v \in Values : v \in Seq(Chars) /\ Len(v) <= MaxLen

ASSUME CounterAssumption ==
    /\ CtrMod \in Nat /\ CtrMod >= 2 /\ CtrMod % 2 = 0
    /\ MaxUpdates \in Nat

ASSUME ThreadAssumption ==
    /\ Mutators \cap Readers = {}
    /\ Mutators \cap Waiters = {}
    /\ Readers \cap Waiters = {}

VARIABLES
    serial,      \* prop_info::serial, split into its length byte and its counter
    value,       \* prop_info::value
    areaSerial,  \* serial of the area that GetSerialPropArea returns
    cur,         \* history: the value published last
    updates,     \* history: number of calls of Update
    mut,         \* per mutator: pc, local serial, argument, characters to copy
    rdr,         \* per reader: pc, first serial, buffer, characters to copy,
                 \*   and (history) updates published since the first load
    wtr          \* per waiter: pc, old serial, which serial it waits on

shared == <<serial, value, areaSerial>>
vars == <<serial, value, areaSerial, cur, updates, mut, rdr, wtr>>

Pos == 1..MaxLen
Serials == [len : 0..MaxLen, ctr : 0..(CtrMod - 1)]

\* SERIAL_DIRTY, `serial |= 1` and `(len << 24) | ((serial + 1) & 0xffffff)`.
Dirty(s) == s.ctr % 2 = 1
SetDirty(s) == [s EXCEPT !.ctr = IF s.ctr % 2 = 1 THEN s.ctr ELSE s.ctr + 1]

NextSerial(s, len) ==
    [len |-> len, ctr |-> IF s.ctr + 1 = CtrMod THEN 0 ELSE s.ctr + 1]

Init ==
    /\ cur \in Values
    /\ serial = [len |-> Len(cur), ctr |-> 0]
    /\ value \in [Pos -> Chars]
    /\ \A i \in 1..Len(cur) : value[i] = cur[i]
    /\ areaSerial = 0
    /\ updates = 0
    /\ mut = [m \in Mutators |->
                [pc |-> "idle", ser |-> serial, val |-> cur, todo |-> {}, area |-> 0]]
    /\ rdr = [r \in Readers |->
                [pc |-> "idle", ser |-> serial, buf |-> value, todo |-> {}, upd |-> 0]]
    /\ wtr = [w \in Waiters |->
                [pc |-> "idle", old |-> [len |-> 0, ctr |-> 0], on |-> "area"]]

-----------------------------------------------------------------------------
(* SystemProperties::Update *)

\* The argument passed the length check; load the serial and set its dirty bit.
UpdateLoad(m) ==
    /\ mut[m].pc = "idle"
    /\ updates < MaxUpdates
    /\ \E v \in Values :
         mut' = [mut EXCEPT ![m].pc = "dirty", ![m].ser = SetDirty(serial), ![m].val = v]
    /\ updates' = updates + 1
    /\ UNCHANGED <<serial, value, areaSerial, cur, rdr, wtr>>

\* Fault: the dirty serial is computed but not stored.
UpdateDirty_NotStored(m) ==
    /\ mut[m].pc = "dirty"
    /\ mut' = [mut EXCEPT ![m].pc = "copy", ![m].todo = 1..Len(mut[m].val)]
    /\ UNCHANGED <<serial, value, areaSerial, cur, updates, rdr, wtr>>

UpdateDirty(m) ==
    /\ mut[m].pc = "dirty"
    /\ serial' = mut[m].ser
    /\ mut' = [mut EXCEPT ![m].pc = "copy", ![m].todo = 1..Len(mut[m].val)]
    /\ UNCHANGED <<value, areaSerial, cur, updates, rdr, wtr>>

UpdateCopy(m) ==
    /\ mut[m].pc = "copy"
    /\ \E i \in mut[m].todo :
         /\ value' = [value EXCEPT ![i] = mut[m].val[i]]
         /\ mut' = [mut EXCEPT ![m].todo = @ \ {i}]
    /\ UNCHANGED <<serial, areaSerial, cur, updates, rdr, wtr>>

\* Fault: the serial is published while characters are still to be copied.
UpdatePublish_Early(m) ==
    /\ mut[m].pc = "copy"
    /\ serial' = NextSerial(mut[m].ser, Len(mut[m].val))
    /\ cur' = mut[m].val
    /\ rdr' = [r \in Readers |->
                 IF rdr[r].pc = "copy" THEN [rdr[r] EXCEPT !.upd = @ + 1] ELSE rdr[r]]
    /\ mut' = [mut EXCEPT ![m].pc = "wake"]
    /\ UNCHANGED <<value, areaSerial, updates, wtr>>

UpdatePublish(m) ==
    /\ mut[m].pc = "copy"
    /\ mut[m].todo = {}
    /\ serial' = NextSerial(mut[m].ser, Len(mut[m].val))
    /\ cur' = mut[m].val
    /\ rdr' = [r \in Readers |->
                 IF rdr[r].pc = "copy" THEN [rdr[r] EXCEPT !.upd = @ + 1] ELSE rdr[r]]
    /\ mut' = [mut EXCEPT ![m].pc = "wake"]
    /\ UNCHANGED <<value, areaSerial, updates, wtr>>

\* __futex_wake(&pi->serial, INT32_MAX): everyone asleep on this serial.
UpdateWake(m) ==
    /\ mut[m].pc = "wake"
    /\ rdr' = [r \in Readers |->
                 IF rdr[r].pc = "sleep" THEN [rdr[r] EXCEPT !.pc = "serial"] ELSE rdr[r]]
    /\ wtr' = [w \in Waiters |->
                 IF wtr[w].pc = "sleep" /\ wtr[w].on = "prop"
                 THEN [wtr[w] EXCEPT !.pc = "reload"] ELSE wtr[w]]
    /\ mut' = [mut EXCEPT ![m].pc = "areaLoad"]
    /\ UNCHANGED <<shared, cur, updates>>

UpdateAreaLoad(m) ==
    /\ mut[m].pc = "areaLoad"
    /\ mut' = [mut EXCEPT ![m].pc = "areaStore", ![m].area = areaSerial]
    /\ UNCHANGED <<shared, cur, updates, rdr, wtr>>

UpdateAreaStore(m) ==
    /\ mut[m].pc = "areaStore"
    /\ areaSerial' = mut[m].area + 1
    /\ mut' = [mut EXCEPT ![m].pc = "areaWake"]
    /\ UNCHANGED <<serial, value, cur, updates, rdr, wtr>>

UpdateAreaWake(m) ==
    /\ mut[m].pc = "areaWake"
    /\ wtr' = [w \in Waiters |->
                 IF wtr[w].pc = "sleep" /\ wtr[w].on = "area"
                 THEN [wtr[w] EXCEPT !.pc = "reload"] ELSE wtr[w]]
    /\ mut' = [mut EXCEPT ![m].pc = "idle"]
    /\ UNCHANGED <<shared, cur, updates, rdr>>

Update(m) ==
    \/ UpdateLoad(m) \/ UpdateDirty(m) \/ UpdateCopy(m) \/ UpdatePublish(m)
    \/ UpdateWake(m) \/ UpdateAreaLoad(m) \/ UpdateAreaStore(m) \/ UpdateAreaWake(m)

-----------------------------------------------------------------------------
(* SystemProperties::Serial, Read and ReadCallback *)

ReadBegin(r) ==
    /\ rdr[r].pc = "idle"
    /\ rdr' = [rdr EXCEPT ![r].pc = "serial"]
    /\ UNCHANGED <<shared, cur, updates, mut, wtr>>

\* The load of Serial(): a dirty serial is waited for, a clean one starts the copy.
SerialLoad(r) ==
    /\ rdr[r].pc = "serial"
    /\ rdr' = [rdr EXCEPT ![r].ser = serial,
                          ![r].pc = IF Dirty(serial) THEN "futex" ELSE "copy",
                          ![r].todo = IF Dirty(serial) THEN {} ELSE 1..serial.len,
                          ![r].upd = 0]
    /\ UNCHANGED <<shared, cur, updates, mut, wtr>>

\* Fault: sleep without comparing the word.
SerialFutex_NoCompare(r) ==
    /\ rdr[r].pc = "futex"
    /\ rdr' = [rdr EXCEPT ![r].pc = "sleep"]
    /\ UNCHANGED <<shared, cur, updates, mut, wtr>>

\* __futex_wait sleeps only if the word still has the value that was loaded.
SerialFutex(r) ==
    /\ rdr[r].pc = "futex"
    /\ rdr' = [rdr EXCEPT ![r].pc = IF serial = rdr[r].ser THEN "sleep" ELSE "serial"]
    /\ UNCHANGED <<shared, cur, updates, mut, wtr>>

\* The wait ends early (EINTR): the loop loads the serial again.
SerialInterrupt(r) ==
    /\ rdr[r].pc = "sleep"
    /\ rdr' = [rdr EXCEPT ![r].pc = "serial"]
    /\ UNCHANGED <<shared, cur, updates, mut, wtr>>

ReadCopy(r) ==
    /\ rdr[r].pc = "copy"
    /\ \E i \in rdr[r].todo :
         rdr' = [rdr EXCEPT ![r].buf[i] = value[i], ![r].todo = @ \ {i}]
    /\ UNCHANGED <<shared, cur, updates, mut, wtr>>

\* The confirming load: return the buffer if the serial is unchanged, else retry.
ReadConfirm(r) ==
    /\ rdr[r].pc = "copy"
    /\ rdr[r].todo = {}
    /\ rdr' = [rdr EXCEPT ![r].pc = IF serial = rdr[r].ser THEN "idle" ELSE "serial",
                          ![r].upd = 0]
    /\ UNCHANGED <<shared, cur, updates, mut, wtr>>

Read(r) ==
    SerialLoad(r) \/ SerialFutex(r) \/ ReadCopy(r) \/ ReadConfirm(r)

-----------------------------------------------------------------------------
(* SystemProperties::Wait and WaitAny *)

\* The word a waiter watches; the area serial has no length byte.
Watched(on) == IF on = "area" THEN [len |-> 0, ctr |-> areaSerial] ELSE serial

\* The caller obtained old_serial from AreaSerial() or Serial() (clean).
WaitBegin(w) ==
    /\ wtr[w].pc = "idle"
    /\ \E on \in {"area", "prop"} :
         /\ on = "prop" => ~Dirty(serial)
         /\ wtr' = [wtr EXCEPT ![w] = [pc |-> "futex", old |-> Watched(on), on |-> on]]
    /\ UNCHANGED <<shared, cur, updates, mut, rdr>>

WaitFutex(w) ==
    /\ wtr[w].pc = "futex"
    /\ wtr' = [wtr EXCEPT ![w].pc =
                 IF Watched(wtr[w].on) = wtr[w].old THEN "sleep" ELSE "reload"]
    /\ UNCHANGED <<shared, cur, updates, mut, rdr>>

WaitReload(w) ==
    /\ wtr[w].pc = "reload"
    /\ wtr' = [wtr EXCEPT ![w].pc =
                 IF Watched(wtr[w].on) = wtr[w].old THEN "futex" ELSE "idle"]
    /\ UNCHANGED <<shared, cur, updates, mut, rdr>>

\* -ETIMEDOUT; WaitAny passes no timeout.
WaitTimeout(w) ==
    /\ wtr[w].pc = "sleep" /\ wtr[w].on = "prop"
    /\ wtr' = [wtr EXCEPT ![w].pc = "idle"]
    /\ UNCHANGED <<shared, cur, updates, mut, rdr>>

\* Any other failure of the wait (EINTR) only leads to another load.
WaitInterrupt(w) ==
    /\ wtr[w].pc = "sleep"
    /\ wtr' = [wtr EXCEPT ![w].pc = "reload"]
    /\ UNCHANGED <<shared, cur, updates, mut, rdr>>

Wait(w) ==
    WaitBegin(w) \/ WaitFutex(w) \/ WaitReload(w) \/ WaitTimeout(w) \/ WaitInterrupt(w)

Next ==
    \/ \E m \in Mutators : Update(m)
    \/ \E r \in Readers : ReadBegin(r) \/ Read(r) \/ SerialInterrupt(r)
    \/ \E w \in Waiters : Wait(w)

Spec == Init /\ [][Next]_vars

(* A thread that has entered one of the functions keeps running; nobody is *)
(* obliged to call Update, Read or Wait again.                             *)
Fairness ==
    /\ \A m \in Mutators :
         WF_vars(UpdateDirty(m) \/ UpdateCopy(m) \/ UpdatePublish(m) \/ UpdateWake(m)
                 \/ UpdateAreaLoad(m) \/ UpdateAreaStore(m) \/ UpdateAreaWake(m))
    /\ \A r \in Readers : WF_vars(Read(r))
    /\ \A w \in Waiters : WF_vars(WaitFutex(w) \/ WaitReload(w))

FairSpec == Spec /\ Fairness

-----------------------------------------------------------------------------
(* Properties *)

MutatorStates ==
    [pc : {"idle", "dirty", "copy", "wake", "areaLoad", "areaStore", "areaWake"},
     ser : Serials, val : Values, todo : SUBSET Pos, area : Nat]

ReaderStates ==
    [pc : {"idle", "serial", "futex", "sleep", "copy"},
     ser : Serials, buf : [Pos -> Chars], todo : SUBSET Pos, upd : Nat]

WaiterStates ==
    [pc : {"idle", "futex", "sleep", "reload"},
     old : [len : 0..MaxLen, ctr : Nat], on : {"area", "prop"}]

\* Every variable keeps its type; Update() copies no more than its argument,
\* and Read() never copies past the value buffer, whatever length byte
\* Serial() handed to it.
TypeOK ==
    /\ serial \in Serials
    /\ value \in [Pos -> Chars]
    /\ areaSerial \in Nat
    /\ cur \in Values
    /\ updates \in 0..MaxUpdates
    /\ mut \in [Mutators -> MutatorStates]
    /\ \A m \in Mutators :
         mut[m].todo \subseteq (IF mut[m].pc = "copy" THEN 1..Len(mut[m].val) ELSE {})
    /\ rdr \in [Readers -> ReaderStates]
    /\ wtr \in [Waiters -> WaiterStates]

\* r's call of Read or ReadCallback returns its buffer in this step.
Returns(r) == rdr[r].pc = "copy" /\ rdr'[r].pc = "idle"

\* A Read or ReadCallback that returns hands out exactly the value published
\* last, never a mix of two values and never a stale one, as long as the
\* 24-bit counter has not gone all the way round between its two loads.
ReturnsWhole ==
    [][\A r \in Readers :
         Returns(r) /\ 2 * rdr[r].upd < CtrMod =>
            /\ rdr[r].ser.len = Len(cur)
            /\ \A i \in 1..Len(cur) : rdr[r].buf[i] = cur[i]]_vars

\* Some Update() is between its two stores to the serial.
Busy == \E m \in Mutators : mut[m].pc = "copy"

\* Addition of two numbers below CtrMod, in the 24-bit counter.
Wrap(n) == IF n >= CtrMod THEN n - CtrMod ELSE n

\* Between updates the serial is clean and describes the value published last.
QuietInv ==
    ~Busy =>
      /\ ~Dirty(serial)
      /\ serial.len = Len(cur)
      /\ \A i \in 1..Len(cur) : value[i] = cur[i]

\* Inside Update() the local serial matches the shared one, and the characters
\* already copied are in place.
WriterInv ==
    \A m \in Mutators :
      /\ mut[m].pc = "dirty" => mut[m].ser = SetDirty(serial)
      /\ mut[m].pc = "copy" =>
           /\ mut[m].ser = serial
           /\ Dirty(serial)
           /\ \A i \in (1..Len(mut[m].val)) \ mut[m].todo : value[i] = mut[m].val[i]

\* A reader that copies holds a clean serial, and the shared counter is ahead
\* of it by exactly the stores made since; if there were none, the characters
\* it has copied are those of the value.
ReaderInv ==
    \A r \in Readers :
      rdr[r].pc = "copy" =>
        /\ ~Dirty(rdr[r].ser)
        /\ 2 * rdr[r].upd < CtrMod =>
             /\ serial.ctr = Wrap(rdr[r].ser.ctr + 2 * rdr[r].upd + (IF Busy THEN 1 ELSE 0))
             /\ rdr[r].upd = 0 /\ ~Busy =>
                  /\ serial = rdr[r].ser
                  /\ \A i \in (1..serial.len) \ rdr[r].todo : rdr[r].buf[i] = value[i]

\* "There is only a single mutator", as Add() says.
SingleMutator == \A m1, m2 \in Mutators : m1 = m2

\* The sequence lock of Update() and Read(): what each phase of the two
\* protocols may rely on.  Inductive, given TypeOK and a single mutator.
SeqLockInv == QuietInv /\ WriterInv /\ ReaderInv

\* Read() and ReadCallback() return once no more updates arrive: the wait for
\* a dirty serial never misses the wake-up of Update().
ReadReturns == \A r \in Readers : rdr[r].pc # "idle" ~> rdr[r].pc = "idle"

\* WaitAny() returns if the area serial moved past the caller's old serial:
\* the store and the wake-up of Update() are not lost between the caller's
\* comparison and its sleep.
WaitAnyReturns ==
    \A w \in Waiters :
      wtr[w].pc # "idle" /\ wtr[w].on = "area" /\ wtr[w].old.ctr # areaSerial
        ~> wtr[w].pc = "idle"

\* Nobody who sleeps on a futex of the property system is forgotten by Update(): neither
\* a Read() or ReadCallback() that met a dirty serial nor a WaitAny().
NoSleeperLost == ReadReturns /\ WaitAnyReturns
=============================================================================
