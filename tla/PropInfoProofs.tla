--------------------------- MODULE PropInfoProofs ---------------------------
(***************************************************************************)
(* Proofs about PropInfo, for every set of readers and waiters, every set  *)
(* of values and every counter width.                                      *)
(***************************************************************************)
EXTENDS PropInfo, TLAPS

LEMMA ValuesAreShort ==
    ASSUME NEW v \in Values
    PROVE  /\ Len(v) \in 0..MaxLen
           /\ 1..Len(v) \subseteq Pos
           /\ \A i \in 1..Len(v) : v[i] \in Chars
  BY LengthAssumption DEF Pos

LEMMA SerialsClosed ==
    ASSUME NEW s \in Serials
    PROVE  /\ SetDirty(s) \in Serials
           /\ \A n \in 0..MaxLen : NextSerial(s, n) \in Serials
  BY CounterAssumption DEF Serials, SetDirty, NextSerial

LEMMA InitType == Init => TypeOK
  <1> SUFFICES ASSUME Init PROVE TypeOK
    OBVIOUS
  <1>1. cur \in Values /\ serial \in Serials /\ value \in [Pos -> Chars]
    BY ValuesAreShort, CounterAssumption DEF Init, Serials
  <1>2. mut \in [Mutators -> MutatorStates]
    BY <1>1 DEF Init, MutatorStates
  <1>3. rdr \in [Readers -> ReaderStates]
    BY <1>1 DEF Init, ReaderStates
  <1>4. wtr \in [Waiters -> WaiterStates]
    BY LengthAssumption DEF Init, WaiterStates
  <1>5. areaSerial \in Nat /\ updates \in 0..MaxUpdates
    BY CounterAssumption DEF Init
  <1>6. \A m \in Mutators : mut[m].todo = {}
    BY DEF Init
  <1> QED
    BY <1>1, <1>2, <1>3, <1>4, <1>5, <1>6 DEF TypeOK

LEMMA StepType == TypeOK /\ [Next]_vars => TypeOK'
  <1> SUFFICES ASSUME TypeOK, [Next]_vars PROVE TypeOK'
    OBVIOUS
  <1> USE DEF TypeOK
  <1>1. ASSUME NEW m \in Mutators, UpdateLoad(m) PROVE TypeOK'
    <2>1. PICK v \in Values :
            mut' = [mut EXCEPT ![m].pc = "dirty", ![m].ser = SetDirty(serial), ![m].val = v]
      BY <1>1 DEF UpdateLoad
    <2>2. mut' \in [Mutators -> MutatorStates]
      <3>1. SetDirty(serial) \in Serials
        BY SerialsClosed
      <3>2. mut'[m] = [mut[m] EXCEPT !.pc = "dirty", !.ser = SetDirty(serial), !.val = v]
        BY <2>1
      <3>3. mut[m] \in MutatorStates
        OBVIOUS
      <3>4. mut'[m] \in MutatorStates
        BY <3>1, <3>2, <3>3 DEF MutatorStates
      <3> QED BY <2>1, <3>4
    <2>3. mut[m].todo = {} /\ mut'[m].todo = {}
      BY <1>1, <2>1 DEF UpdateLoad, MutatorStates
    <2>4. \A n \in Mutators : n # m => mut'[n] = mut[n]
      BY <2>1
    <2>5. updates \in Int /\ updates' \in 0..MaxUpdates
      BY <1>1, CounterAssumption DEF UpdateLoad
    <2> QED
      BY <1>1, <2>2, <2>3, <2>4, <2>5 DEF UpdateLoad
  <1>2. ASSUME NEW m \in Mutators, UpdateDirty(m) PROVE TypeOK'
    <2>1. mut' = [mut EXCEPT ![m] = [mut[m] EXCEPT !.pc = "copy", !.todo = 1..Len(mut[m].val)]]
      BY <1>2 DEF UpdateDirty
    <2>2. 1..Len(mut[m].val) \subseteq Pos /\ mut[m].ser \in Serials
      BY ValuesAreShort DEF MutatorStates
    <2>3. [mut[m] EXCEPT !.pc = "copy", !.todo = 1..Len(mut[m].val)] \in MutatorStates
      BY <2>2 DEF MutatorStates
    <2>4. mut' \in [Mutators -> MutatorStates] /\ \A n \in Mutators : n # m => mut'[n] = mut[n]
      BY <2>1, <2>3
    <2>5. mut'[m].pc = "copy" /\ mut'[m].todo = 1..Len(mut[m].val) /\ mut'[m].val = mut[m].val
      BY <2>1 DEF MutatorStates
    <2> QED
      BY <1>2, <2>2, <2>4, <2>5 DEF UpdateDirty
  <1>3. ASSUME NEW m \in Mutators, UpdateCopy(m) PROVE TypeOK'
    <2>1. PICK i \in mut[m].todo :
            /\ value' = [value EXCEPT ![i] = mut[m].val[i]]
            /\ mut' = [mut EXCEPT ![m].todo = @ \ {i}]
      BY <1>3 DEF UpdateCopy
    <2>2. mut' \in [Mutators -> MutatorStates]
      BY <2>1 DEF MutatorStates
    <2>3. i \in 1..Len(mut[m].val) /\ mut[m].val \in Values
      BY <1>3 DEF UpdateCopy, MutatorStates
    <2>4. value' \in [Pos -> Chars]
      BY <2>1, <2>3, ValuesAreShort
    <2> QED
      BY <1>3, <2>1, <2>2, <2>4 DEF UpdateCopy, MutatorStates
  <1>4. ASSUME NEW m \in Mutators, UpdatePublish(m) PROVE TypeOK'
    <2>1. serial' \in Serials /\ cur' \in Values
      BY <1>4, ValuesAreShort, SerialsClosed DEF UpdatePublish, MutatorStates
    <2>2. mut' \in [Mutators -> MutatorStates]
      BY <1>4 DEF UpdatePublish, MutatorStates
    <2>3. rdr' \in [Readers -> ReaderStates]
      <3> SUFFICES ASSUME NEW r \in Readers PROVE rdr'[r] \in ReaderStates
        BY <1>4 DEF UpdatePublish
      <3>1. rdr[r].upd + 1 \in Nat
        BY DEF ReaderStates
      <3> QED BY <1>4, <3>1 DEF UpdatePublish, ReaderStates
    <2> QED
      BY <1>4, <2>1, <2>2, <2>3 DEF UpdatePublish, MutatorStates
  <1>5. ASSUME NEW m \in Mutators, UpdateWake(m) PROVE TypeOK'
    <2>1. rdr' \in [Readers -> ReaderStates]
      <3> SUFFICES ASSUME NEW r \in Readers PROVE rdr'[r] \in ReaderStates
        BY <1>5 DEF UpdateWake
      <3> QED BY <1>5 DEF UpdateWake, ReaderStates
    <2>2. wtr' \in [Waiters -> WaiterStates]
      <3> SUFFICES ASSUME NEW w \in Waiters PROVE wtr'[w] \in WaiterStates
        BY <1>5 DEF UpdateWake
      <3> QED BY <1>5 DEF UpdateWake, WaiterStates
    <2> QED
      BY <1>5, <2>1, <2>2 DEF UpdateWake, MutatorStates, shared
  <1>6. ASSUME NEW m \in Mutators, UpdateAreaLoad(m) PROVE TypeOK'
    <2>1. mut' = [mut EXCEPT ![m] = [mut[m] EXCEPT !.pc = "areaStore", !.area = areaSerial]]
      BY <1>6 DEF UpdateAreaLoad
    <2>2. [mut[m] EXCEPT !.pc = "areaStore", !.area = areaSerial] \in MutatorStates
      BY DEF MutatorStates
    <2>3. mut' \in [Mutators -> MutatorStates] /\ \A n \in Mutators : n # m => mut'[n] = mut[n]
      BY <2>1, <2>2
    <2>4. mut[m].todo = {} /\ mut'[m].todo = {}
      BY <1>6, <2>1 DEF UpdateAreaLoad, MutatorStates
    <2> QED
      BY <1>6, <2>3, <2>4 DEF UpdateAreaLoad, shared
  <1>7. ASSUME NEW m \in Mutators, UpdateAreaStore(m) PROVE TypeOK'
    <2>1. areaSerial' \in Nat
      BY <1>7 DEF UpdateAreaStore, MutatorStates
    <2> QED
      BY <1>7, <2>1 DEF UpdateAreaStore, MutatorStates
  <1>8. ASSUME NEW m \in Mutators, UpdateAreaWake(m) PROVE TypeOK'
    <2>1. wtr' \in [Waiters -> WaiterStates]
      <3> SUFFICES ASSUME NEW w \in Waiters PROVE wtr'[w] \in WaiterStates
        BY <1>8 DEF UpdateAreaWake
      <3> QED BY <1>8 DEF UpdateAreaWake, WaiterStates
    <2> QED
      BY <1>8, <2>1 DEF UpdateAreaWake, MutatorStates, shared
  <1>9. ASSUME NEW r \in Readers, ReadBegin(r) PROVE TypeOK'
    BY <1>9 DEF ReadBegin, ReaderStates, shared
  <1>10. ASSUME NEW r \in Readers, SerialLoad(r) PROVE TypeOK'
    <2>1. 1..serial.len \subseteq Pos
      BY LengthAssumption DEF Serials, Pos
    <2> QED
      BY <1>10, <2>1 DEF SerialLoad, ReaderStates, shared
  <1>11. ASSUME NEW r \in Readers, SerialFutex(r) PROVE TypeOK'
    <2>1. PICK pc \in {"sleep", "serial"} : rdr' = [rdr EXCEPT ![r].pc = pc]
      BY <1>11 DEF SerialFutex
    <2>2. [rdr[r] EXCEPT !.pc = pc] \in ReaderStates
      BY DEF ReaderStates
    <2>3. rdr' \in [Readers -> ReaderStates]
      BY <2>1, <2>2
    <2> QED
      BY <1>11, <2>3 DEF SerialFutex, shared
  <1>12. ASSUME NEW r \in Readers, ReadCopy(r) PROVE TypeOK'
    <2>1. PICK i \in rdr[r].todo :
            rdr' = [rdr EXCEPT ![r].buf[i] = value[i], ![r].todo = @ \ {i}]
      BY <1>12 DEF ReadCopy
    <2>2. i \in Pos
      BY DEF ReaderStates
    <2>3. rdr'[r] = [rdr[r] EXCEPT !.buf = [@ EXCEPT ![i] = value[i]], !.todo = @ \ {i}]
      BY <2>1
    <2>4. [rdr[r].buf EXCEPT ![i] = value[i]] \in [Pos -> Chars]
      BY <2>2 DEF ReaderStates
    <2>5. rdr'[r] \in ReaderStates
      BY <2>3, <2>4 DEF ReaderStates
    <2>6. rdr' \in [Readers -> ReaderStates]
      BY <2>1, <2>5
    <2> QED
      BY <1>12, <2>6 DEF ReadCopy, shared
  <1>13. ASSUME NEW r \in Readers, ReadConfirm(r) PROVE TypeOK'
    <2>1. PICK pc \in {"idle", "serial"} :
            rdr' = [rdr EXCEPT ![r].pc = pc, ![r].upd = 0]
      BY <1>13 DEF ReadConfirm
    <2>2. rdr'[r] = [rdr[r] EXCEPT !.pc = pc, !.upd = 0]
      BY <2>1
    <2>3. rdr[r] \in ReaderStates /\ 0 \in Nat
      OBVIOUS
    <2>4. rdr'[r] \in ReaderStates
      BY <2>2, <2>3 DEF ReaderStates
    <2>5. rdr' \in [Readers -> ReaderStates]
      BY <2>1, <2>4
    <2> QED
      BY <1>13, <2>5 DEF ReadConfirm, shared
  <1>14. ASSUME NEW r \in Readers, SerialInterrupt(r) PROVE TypeOK'
    BY <1>14 DEF SerialInterrupt, ReaderStates, shared
  <1>15. ASSUME NEW w \in Waiters, WaitBegin(w) PROVE TypeOK'
    BY <1>15, LengthAssumption DEF WaitBegin, WaiterStates, Watched, shared, Serials
  <1>16. ASSUME NEW w \in Waiters, WaitFutex(w) PROVE TypeOK'
    BY <1>16, SMTT(30) DEF WaitFutex, WaiterStates, shared
  <1>17. ASSUME NEW w \in Waiters, WaitReload(w) PROVE TypeOK'
    BY <1>17 DEF WaitReload, WaiterStates, shared
  <1>18. ASSUME NEW w \in Waiters, WaitTimeout(w) PROVE TypeOK'
    BY <1>18 DEF WaitTimeout, WaiterStates, shared
  <1>19. ASSUME NEW w \in Waiters, WaitInterrupt(w) PROVE TypeOK'
    BY <1>19 DEF WaitInterrupt, WaiterStates, shared
  <1>20. CASE UNCHANGED vars
    BY <1>20 DEF vars
  <1> QED
    BY <1>1, <1>2, <1>3, <1>4, <1>5, <1>6, <1>7, <1>8, <1>9, <1>10, <1>11, <1>12,
       <1>13, <1>14, <1>15, <1>16, <1>17, <1>18, <1>19, <1>20
       DEF Next, Update, Read, Wait

(* Every variable keeps its type; a reader never copies past the buffer.   *)
THEOREM TypeCorrect == Spec => []TypeOK
  BY InitType, StepType, PTL DEF Spec

-----------------------------------------------------------------------------
(* Arithmetic of the serial. *)

LEMMA Parity ==
    ASSUME NEW n \in Nat
    PROVE  /\ n % 2 = 0 \/ n % 2 = 1
           /\ n % 2 = 1 => (n + 1) % 2 = 0
           /\ n % 2 = 0 => (n + 1) % 2 = 1
  OBVIOUS

LEMMA DirtyStep ==
    ASSUME NEW s \in Serials, ~Dirty(s)
    PROVE  /\ SetDirty(s) \in Serials
           /\ Dirty(SetDirty(s))
           /\ SetDirty(s).ctr = s.ctr + 1
  <1>1. s.ctr \in Nat /\ s.ctr % 2 # 1
    BY CounterAssumption DEF Serials, Dirty
  <1>2. (s.ctr + 1) % 2 = 1
    BY <1>1, Parity
  <1>3. SetDirty(s) = [s EXCEPT !.ctr = s.ctr + 1]
    BY <1>1 DEF SetDirty
  <1>4. SetDirty(s).ctr = s.ctr + 1
    BY <1>3 DEF Serials
  <1> QED
    BY <1>2, <1>4, SerialsClosed DEF Dirty

LEMMA CleanStep ==
    ASSUME NEW s \in Serials, Dirty(s), NEW n \in 0..MaxLen
    PROVE  /\ NextSerial(s, n) \in Serials
           /\ ~Dirty(NextSerial(s, n))
           /\ NextSerial(s, n).len = n
           /\ NextSerial(s, n).ctr = IF s.ctr + 1 = CtrMod THEN 0 ELSE s.ctr + 1
  <1>1. s.ctr \in Nat /\ s.ctr % 2 = 1
    BY CounterAssumption DEF Serials, Dirty
  <1>2. (s.ctr + 1) % 2 = 0
    BY <1>1, Parity
  <1>3. 0 % 2 = 0
    OBVIOUS
  <1> QED
    BY <1>2, <1>3, SerialsClosed DEF NextSerial, Dirty

LEMMA WrapDirty ==
    ASSUME NEW c \in 0..(CtrMod - 1), NEW u \in Nat, 2 * u < CtrMod,
           Wrap(c + 2 * u + 0) + 1 < CtrMod
    PROVE  Wrap(c + 2 * u + 1) = Wrap(c + 2 * u + 0) + 1
  BY CounterAssumption DEF Wrap

LEMMA WrapClean ==
    ASSUME NEW c \in 0..(CtrMod - 1), NEW u \in Nat, 2 * (u + 1) < CtrMod,
           NEW k \in Nat, k = Wrap(c + 2 * u + 1)
    PROVE  Wrap(c + 2 * (u + 1) + 0) = IF k + 1 = CtrMod THEN 0 ELSE k + 1
  BY CounterAssumption DEF Wrap

LEMMA WrapBack ==
    ASSUME NEW c \in 0..(CtrMod - 1), NEW u \in Nat, 2 * u < CtrMod,
           c = Wrap(c + 2 * u + 0)
    PROVE  u = 0
  BY CounterAssumption DEF Wrap

-----------------------------------------------------------------------------
(* The sequence lock. *)

LEMMA InitSeqLock == Init => SeqLockInv
  <1> SUFFICES ASSUME Init PROVE SeqLockInv
    OBVIOUS
  <1>1. \A m \in Mutators : mut[m].pc = "idle"
    BY DEF Init
  <1>2. \A r \in Readers : rdr[r].pc = "idle"
    BY DEF Init
  <1>3. serial.ctr = 0 /\ serial.len = Len(cur) /\ 0 % 2 = 0
    BY DEF Init
  <1> QED
    BY <1>1, <1>2, <1>3
       DEF Init, SeqLockInv, QuietInv, WriterInv, ReaderInv, Busy, Dirty

\* A step of a reader, a waiter or the tail of Update() that leaves the value,
\* the serial and every reader's copy alone.
LEMMA FrameSeqLock ==
    ASSUME SeqLockInv,
           UNCHANGED <<serial, value, cur>>,
           \A m \in Mutators :
             \/ mut'[m] = mut[m]
             \/ mut[m].pc \notin {"dirty", "copy"} /\ mut'[m].pc \notin {"dirty", "copy"},
           \A r \in Readers : rdr'[r] = rdr[r] \/ rdr'[r].pc # "copy"
    PROVE  SeqLockInv'
  <1>1. Busy' = Busy
    BY DEF Busy
  <1>2. QuietInv'
    BY <1>1 DEF SeqLockInv, QuietInv, Dirty
  <1>3. WriterInv'
    BY DEF SeqLockInv, WriterInv, Dirty, SetDirty
  <1>4. ReaderInv'
    BY <1>1 DEF SeqLockInv, ReaderInv, Dirty, Wrap
  <1> QED
    BY <1>2, <1>3, <1>4 DEF SeqLockInv

LEMMA UpdateSeqLock ==
    ASSUME SingleMutator, TypeOK, TypeOK', SeqLockInv, NEW m \in Mutators, Update(m)
    PROVE  SeqLockInv'
  <1>1. \A n \in Mutators : n = m
    BY DEF SingleMutator
  <1>2. Busy <=> mut[m].pc = "copy"
    BY <1>1 DEF Busy
  <1>3. Busy' <=> mut'[m].pc = "copy"
    BY <1>1 DEF Busy
  <1>4. mut[m] \in MutatorStates /\ mut[m].val \in Values /\ mut[m].ser \in Serials
    BY DEF TypeOK, MutatorStates
  <1>5. mut \in [Mutators -> MutatorStates]
    BY DEF TypeOK
  <1>6. serial \in Serials /\ serial.ctr \in 0..(CtrMod - 1) /\ serial.ctr \in Nat
    BY CounterAssumption DEF TypeOK, Serials
  <1>7. \A r \in Readers : rdr[r].ser.ctr \in 0..(CtrMod - 1) /\ rdr[r].upd \in Nat
    BY DEF TypeOK, ReaderStates, Serials
  <1>8. CASE UpdateLoad(m)
    <2>1. PICK v \in Values :
            mut' = [mut EXCEPT ![m].pc = "dirty", ![m].ser = SetDirty(serial), ![m].val = v]
      BY <1>8 DEF UpdateLoad
    <2>2. mut'[m].pc = "dirty" /\ mut'[m].ser = SetDirty(serial)
      BY <2>1, <1>4, <1>5 DEF MutatorStates
    <2>3. UNCHANGED <<serial, value, cur, rdr>> /\ ~Busy /\ ~Busy'
      BY <1>8, <1>2, <1>3, <2>2 DEF UpdateLoad
    <2>4. QuietInv'
      BY <2>3 DEF SeqLockInv, QuietInv, Dirty
    <2>5. WriterInv'
      BY <1>1, <2>2, <2>3 DEF WriterInv, SetDirty
    <2>6. ReaderInv'
      BY <2>3 DEF SeqLockInv, ReaderInv, Dirty, Wrap
    <2> QED
      BY <2>4, <2>5, <2>6 DEF SeqLockInv
  <1>9. CASE UpdateDirty(m)
    <2>1. ~Busy /\ ~Dirty(serial) /\ mut[m].ser = SetDirty(serial)
      BY <1>9, <1>2 DEF UpdateDirty, SeqLockInv, QuietInv, WriterInv
    <2>2. /\ serial' = mut[m].ser /\ Dirty(serial)'
          /\ serial'.ctr = serial.ctr + 1
          /\ serial.ctr + 1 < CtrMod
      BY <1>9, <1>6, <2>1, DirtyStep, CounterAssumption, SMTT(30) DEF UpdateDirty, Serials, Dirty
    <2>3. /\ mut'[m].pc = "copy" /\ mut'[m].ser = mut[m].ser
          /\ mut'[m].val = mut[m].val /\ mut'[m].todo = 1..Len(mut[m].val)
      BY <1>9, <1>4, <1>5 DEF UpdateDirty, MutatorStates
    <2>4. UNCHANGED <<value, cur, rdr>> /\ Busy'
      BY <1>9, <1>3, <2>3 DEF UpdateDirty
    <2>5. QuietInv'
      BY <2>4 DEF QuietInv
    <2>6. WriterInv'
      BY <1>1, <2>2, <2>3 DEF WriterInv
    <2>7. ReaderInv'
      <3> SUFFICES ASSUME NEW r \in Readers, rdr[r].pc = "copy"
                   PROVE  /\ ~Dirty(rdr[r].ser)
                          /\ 2 * rdr[r].upd < CtrMod =>
                               serial'.ctr = Wrap(rdr[r].ser.ctr + 2 * rdr[r].upd + 1)
        BY <2>4 DEF ReaderInv, Dirty, Wrap
      <3>1. /\ ~Dirty(rdr[r].ser)
            /\ 2 * rdr[r].upd < CtrMod =>
                 serial.ctr = Wrap(rdr[r].ser.ctr + 2 * rdr[r].upd + 0)
        BY <2>1 DEF SeqLockInv, ReaderInv
      <3> QED
        BY <3>1, <1>7, <2>2, WrapDirty
    <2> QED
      BY <2>5, <2>6, <2>7 DEF SeqLockInv
  <1>10. CASE UpdateCopy(m)
    <2>1. PICK i \in mut[m].todo :
            /\ value' = [value EXCEPT ![i] = mut[m].val[i]]
            /\ mut' = [mut EXCEPT ![m].todo = @ \ {i}]
      BY <1>10 DEF UpdateCopy
    <2>2. /\ mut'[m].pc = "copy" /\ mut'[m].ser = mut[m].ser
          /\ mut'[m].val = mut[m].val /\ mut'[m].todo = mut[m].todo \ {i}
      BY <1>10, <1>4, <1>5, <2>1 DEF UpdateCopy, MutatorStates
    <2>3. UNCHANGED <<serial, cur, rdr>> /\ Busy /\ Busy'
      BY <1>10, <1>2, <1>3, <2>2 DEF UpdateCopy
    <2>4. /\ mut[m].ser = serial /\ Dirty(serial)
          /\ \A j \in (1..Len(mut[m].val)) \ mut[m].todo : value[j] = mut[m].val[j]
      BY <1>10 DEF UpdateCopy, SeqLockInv, WriterInv
    <2>5. value \in [Pos -> Chars] /\ 1..Len(mut[m].val) \subseteq Pos
      BY <1>4, ValuesAreShort DEF TypeOK
    <2>6. \A j \in (1..Len(mut[m].val)) \ (mut[m].todo \ {i}) : value'[j] = mut[m].val[j]
      BY <2>1, <2>4, <2>5
    <2>7. QuietInv'
      BY <2>3 DEF QuietInv
    <2>8. WriterInv'
      BY <1>1, <2>2, <2>3, <2>4, <2>6 DEF WriterInv, Dirty
    <2>9. ReaderInv'
      BY <2>3 DEF SeqLockInv, ReaderInv, Dirty, Wrap
    <2> QED
      BY <2>7, <2>8, <2>9 DEF SeqLockInv
  <1>11. CASE UpdatePublish(m)
    <2>1. /\ mut[m].ser = serial /\ Dirty(serial) /\ Busy
          /\ \A j \in 1..Len(mut[m].val) : value[j] = mut[m].val[j]
      BY <1>11, <1>2 DEF UpdatePublish, SeqLockInv, WriterInv
    <2>2. Len(mut[m].val) \in 0..MaxLen
      BY <1>4, ValuesAreShort
    <2>3. /\ ~Dirty(serial)' /\ serial'.len = Len(mut[m].val)
          /\ serial'.ctr = IF serial.ctr + 1 = CtrMod THEN 0 ELSE serial.ctr + 1
      BY <1>11, <1>6, <2>1, <2>2, CleanStep DEF UpdatePublish, Dirty
    <2>4. mut'[m].pc = "wake"
      BY <1>11, <1>4, <1>5 DEF UpdatePublish, MutatorStates
    <2>5. value' = value /\ cur' = mut[m].val /\ ~Busy'
      BY <1>11, <1>3, <2>4 DEF UpdatePublish
    <2>6. QuietInv'
      BY <2>1, <2>3, <2>5 DEF QuietInv
    <2>7. WriterInv'
      BY <1>1, <2>4 DEF WriterInv
    <2>8. ReaderInv'
      <3> SUFFICES ASSUME NEW r \in Readers, rdr'[r].pc = "copy"
                   PROVE  /\ ~Dirty(rdr'[r].ser)
                          /\ rdr'[r].upd # 0
                          /\ 2 * rdr'[r].upd < CtrMod =>
                               serial'.ctr = Wrap(rdr'[r].ser.ctr + 2 * rdr'[r].upd + 0)
        BY <2>5 DEF ReaderInv, Dirty, Wrap
      <3>1. /\ rdr[r].pc = "copy" /\ rdr'[r].ser = rdr[r].ser
            /\ rdr'[r].upd = rdr[r].upd + 1
        BY <1>11 DEF UpdatePublish, TypeOK, ReaderStates
      <3>2. /\ ~Dirty(rdr[r].ser)
            /\ 2 * rdr[r].upd < CtrMod =>
                 serial.ctr = Wrap(rdr[r].ser.ctr + 2 * rdr[r].upd + 1)
        BY <2>1, <3>1 DEF SeqLockInv, ReaderInv
      <3>3. 2 * (rdr[r].upd + 1) < CtrMod => 2 * rdr[r].upd < CtrMod
        BY <1>7, CounterAssumption
      <3>4. ASSUME 2 * (rdr[r].upd + 1) < CtrMod
            PROVE  serial'.ctr = Wrap(rdr[r].ser.ctr + 2 * (rdr[r].upd + 1) + 0)
        <4>1. serial.ctr = Wrap(rdr[r].ser.ctr + 2 * rdr[r].upd + 1)
          BY <3>2, <3>3, <3>4
        <4>2. Wrap(rdr[r].ser.ctr + 2 * (rdr[r].upd + 1) + 0)
                = IF serial.ctr + 1 = CtrMod THEN 0 ELSE serial.ctr + 1
          BY <4>1, <3>4, <1>6, <1>7, WrapClean
        <4> QED
          BY <4>2, <2>3
      <3>5. rdr[r].upd + 1 # 0
        BY <1>7
      <3> QED
        BY <3>1, <3>2, <3>4, <3>5
    <2> QED
      BY <2>6, <2>7, <2>8 DEF SeqLockInv
  <1>12. CASE UpdateWake(m) \/ UpdateAreaLoad(m) \/ UpdateAreaStore(m) \/ UpdateAreaWake(m)
    <2>1. /\ mut[m].pc \notin {"dirty", "copy"} /\ mut'[m].pc \notin {"dirty", "copy"}
          /\ UNCHANGED <<serial, value, cur>>
      BY <1>12, <1>4, <1>5
         DEF UpdateWake, UpdateAreaLoad, UpdateAreaStore, UpdateAreaWake, shared, MutatorStates
    <2>2. \A r \in Readers : rdr'[r] = rdr[r] \/ rdr'[r].pc # "copy"
      BY <1>12
         DEF UpdateWake, UpdateAreaLoad, UpdateAreaStore, UpdateAreaWake, TypeOK, ReaderStates
    <2> QED
      BY <1>1, <2>1, <2>2, FrameSeqLock
  <1> QED
    BY <1>8, <1>9, <1>10, <1>11, <1>12 DEF Update

\* A reader's step touches only its own locals.
LEMMA ReaderLocal ==
    ASSUME TypeOK, NEW r \in Readers, ReadBegin(r) \/ Read(r) \/ SerialInterrupt(r)
    PROVE  /\ UNCHANGED <<serial, value, cur, mut>>
           /\ \A q \in Readers : q # r => rdr'[q] = rdr[q]
  <1>1. rdr \in [Readers -> ReaderStates]
    BY DEF TypeOK
  <1>2. CASE ReadBegin(r) \/ SerialFutex(r) \/ SerialInterrupt(r)
    BY <1>1, <1>2 DEF ReadBegin, SerialFutex, SerialInterrupt, shared
  <1>3. CASE SerialLoad(r)
    BY <1>1, <1>3 DEF SerialLoad, shared
  <1>4. CASE ReadCopy(r)
    BY <1>1, <1>4 DEF ReadCopy, shared
  <1>5. CASE ReadConfirm(r)
    BY <1>1, <1>5 DEF ReadConfirm, shared
  <1> QED
    BY <1>2, <1>3, <1>4, <1>5 DEF Read

LEMMA ReadSeqLock ==
    ASSUME TypeOK, SeqLockInv, NEW r \in Readers, ReadBegin(r) \/ Read(r) \/ SerialInterrupt(r)
    PROVE  SeqLockInv'
  <1>1. rdr \in [Readers -> ReaderStates] /\ rdr[r] \in ReaderStates
    BY DEF TypeOK
  <1>2. UNCHANGED <<serial, value, cur, mut>> /\ \A q \in Readers : q # r => rdr'[q] = rdr[q]
    BY ReaderLocal
  <1>3. CASE rdr'[r].pc # "copy"
    BY <1>2, <1>3, FrameSeqLock
  <1>4. CASE rdr'[r].pc = "copy" /\ SerialLoad(r)
    <2>1. ~Dirty(serial) /\ ~Busy
      <3>1. ~Dirty(serial)
        BY <1>1, <1>4 DEF SerialLoad, ReaderStates
      <3> QED
        BY <3>1 DEF SeqLockInv, WriterInv, Busy
    <2>2. rdr'[r].ser = serial /\ rdr'[r].upd = 0 /\ rdr'[r].todo = 1..serial.len
      BY <1>1, <1>4, <2>1 DEF SerialLoad, ReaderStates
    <2>3. serial.ctr = Wrap(serial.ctr + 2 * 0 + 0)
      BY CounterAssumption DEF TypeOK, Serials, Wrap
    <2>4. Busy' = Busy
      BY <1>2 DEF Busy
    <2>5. ReaderInv'
      <3> SUFFICES ASSUME NEW q \in Readers, rdr'[q].pc = "copy"
                   PROVE  /\ ~Dirty(rdr'[q].ser)
                          /\ 2 * rdr'[q].upd < CtrMod =>
                               /\ serial.ctr = Wrap(rdr'[q].ser.ctr + 2 * rdr'[q].upd + 0)
                               /\ rdr'[q].upd = 0 =>
                                    /\ serial = rdr'[q].ser
                                    /\ \A i \in (1..serial.len) \ rdr'[q].todo :
                                         rdr'[q].buf[i] = value[i]
        BY <1>2, <2>1, <2>4 DEF ReaderInv, Dirty, Wrap
      <3>1. CASE q = r
        BY <3>1, <2>1, <2>2, <2>3
      <3>2. CASE q # r
        BY <3>2, <1>2, <2>1 DEF SeqLockInv, ReaderInv
      <3> QED
        BY <3>1, <3>2
    <2>6. QuietInv' /\ WriterInv'
      BY <1>2, <2>4 DEF SeqLockInv, QuietInv, WriterInv, Dirty, SetDirty
    <2> QED
      BY <2>5, <2>6 DEF SeqLockInv
  <1>5. CASE ReadCopy(r)
    <2>1. PICK i \in rdr[r].todo :
            rdr' = [rdr EXCEPT ![r].buf[i] = value[i], ![r].todo = @ \ {i}]
      BY <1>5 DEF ReadCopy
    <2>2. rdr'[r] = [rdr[r] EXCEPT !.buf = [@ EXCEPT ![i] = value[i]], !.todo = @ \ {i}]
      BY <1>1, <2>1
    <2>3. /\ rdr'[r].pc = rdr[r].pc /\ rdr'[r].ser = rdr[r].ser /\ rdr'[r].upd = rdr[r].upd
          /\ rdr'[r].buf = [rdr[r].buf EXCEPT ![i] = value[i]]
          /\ rdr'[r].todo = rdr[r].todo \ {i}
      BY <1>1, <2>2 DEF ReaderStates
    <2>4. rdr[r].buf \in [Pos -> Chars] /\ 1..serial.len \subseteq Pos
      BY <1>1, LengthAssumption DEF ReaderStates, TypeOK, Serials, Pos
    <2>5. Busy' = Busy
      BY <1>2 DEF Busy
    <2>6. (\A j \in (1..serial.len) \ rdr[r].todo : rdr[r].buf[j] = value[j])
          => \A j \in (1..serial.len) \ rdr'[r].todo : rdr'[r].buf[j] = value[j]
      BY <2>3, <2>4
    <2>7. ReaderInv'
      <3> SUFFICES ASSUME NEW q \in Readers, rdr'[q].pc = "copy"
                   PROVE  /\ ~Dirty(rdr'[q].ser)
                          /\ 2 * rdr'[q].upd < CtrMod =>
                               /\ serial.ctr = Wrap(rdr'[q].ser.ctr + 2 * rdr'[q].upd
                                                      + (IF Busy THEN 1 ELSE 0))
                               /\ rdr'[q].upd = 0 /\ ~Busy =>
                                    /\ serial = rdr'[q].ser
                                    /\ \A j \in (1..serial.len) \ rdr'[q].todo :
                                         rdr'[q].buf[j] = value[j]
        BY <1>2, <2>5 DEF ReaderInv, Dirty, Wrap
      <3>1. CASE q = r
        BY <3>1, <2>3, <2>6 DEF SeqLockInv, ReaderInv
      <3>2. CASE q # r
        BY <3>2, <1>2 DEF SeqLockInv, ReaderInv
      <3> QED
        BY <3>1, <3>2
    <2>8. QuietInv' /\ WriterInv'
      BY <1>2, <2>5 DEF SeqLockInv, QuietInv, WriterInv, Dirty, SetDirty
    <2> QED
      BY <2>7, <2>8 DEF SeqLockInv
  <1>6. SerialLoad(r) \/ ReadCopy(r) \/ rdr'[r].pc # "copy"
    BY <1>1 DEF ReadBegin, Read, SerialFutex, ReadConfirm, SerialInterrupt, ReaderStates
  <1> QED
    BY <1>3, <1>4, <1>5, <1>6

LEMMA WaitSeqLock ==
    ASSUME SeqLockInv, NEW w \in Waiters, Wait(w)
    PROVE  SeqLockInv'
  BY FrameSeqLock
     DEF Wait, WaitBegin, WaitFutex, WaitReload, WaitTimeout, WaitInterrupt, shared

LEMMA StepSeqLock ==
    ASSUME SingleMutator
    PROVE  TypeOK /\ TypeOK' /\ SeqLockInv /\ [Next]_vars => SeqLockInv'
  <1> SUFFICES ASSUME TypeOK, TypeOK', SeqLockInv, [Next]_vars PROVE SeqLockInv'
    OBVIOUS
  <1>1. CASE UNCHANGED vars
    BY <1>1, FrameSeqLock DEF vars
  <1>2. ASSUME NEW m \in Mutators, Update(m) PROVE SeqLockInv'
    BY <1>2, UpdateSeqLock
  <1>3. ASSUME NEW r \in Readers, ReadBegin(r) \/ Read(r) \/ SerialInterrupt(r)
        PROVE  SeqLockInv'
    BY <1>3, ReadSeqLock
  <1>4. ASSUME NEW w \in Waiters, Wait(w) PROVE SeqLockInv'
    BY <1>4, WaitSeqLock
  <1> QED
    BY <1>1, <1>2, <1>3, <1>4 DEF Next

(* With a single mutator, the sequence lock of Update() and Read() keeps   *)
(* every phase's assumptions, whatever readers and waiters do.             *)
THEOREM SeqLock ==
    ASSUME SingleMutator
    PROVE  Spec => []SeqLockInv
  <1>1. Init => SeqLockInv
    BY InitSeqLock
  <1>2. TypeOK /\ TypeOK' /\ SeqLockInv /\ [Next]_vars => SeqLockInv'
    BY StepSeqLock
  <1> QED
    BY <1>1, <1>2, TypeCorrect, PTL DEF Spec

\* The confirming load of Read() accepts only a whole value.
LEMMA ConfirmWhole ==
    ASSUME TypeOK, SeqLockInv, [Next]_vars, NEW r \in Readers,
           Returns(r), 2 * rdr[r].upd < CtrMod
    PROVE  /\ rdr[r].ser.len = Len(cur)
           /\ \A i \in 1..Len(cur) : rdr[r].buf[i] = cur[i]
  <1>1. rdr \in [Readers -> ReaderStates] /\ rdr[r] \in ReaderStates
    BY DEF TypeOK
  <1>2. rdr'[r].pc # rdr[r].pc /\ rdr[r].pc = "copy" /\ rdr'[r].pc = "idle"
    BY DEF Returns
  <1>3. \A q \in Readers :
          ReadBegin(q) \/ Read(q) \/ SerialInterrupt(q) => q = r \/ rdr'[r] = rdr[r]
    BY ReaderLocal
  <1>4. \A m \in Mutators : Update(m) => rdr'[r].pc = rdr[r].pc \/ rdr[r].pc = "sleep"
    BY <1>1 DEF Update, UpdateLoad, UpdateDirty, UpdateCopy, UpdatePublish, UpdateWake,
           UpdateAreaLoad, UpdateAreaStore, UpdateAreaWake, TypeOK, ReaderStates
  <1>5. \A w \in Waiters : Wait(w) => rdr' = rdr
    BY DEF Wait, WaitBegin, WaitFutex, WaitReload, WaitTimeout, WaitInterrupt
  <1>6. ReadBegin(r) \/ Read(r) \/ SerialInterrupt(r)
    BY <1>2, <1>3, <1>4, <1>5 DEF Next, vars
  <1>7. ReadConfirm(r)
    BY <1>1, <1>2, <1>6
       DEF ReadBegin, Read, SerialLoad, SerialFutex, ReadCopy, SerialInterrupt, ReaderStates
  <1>8. serial = rdr[r].ser /\ rdr[r].todo = {}
    BY <1>1, <1>2, <1>7 DEF ReadConfirm, ReaderStates
  <1>9. ~Dirty(serial) /\ ~Busy
    BY <1>2, <1>8 DEF SeqLockInv, ReaderInv, WriterInv, Busy
  <1>10. serial.ctr = Wrap(serial.ctr + 2 * rdr[r].upd + 0)
    BY <1>2, <1>8, <1>9 DEF SeqLockInv, ReaderInv
  <1>11. rdr[r].upd = 0
    BY <1>1, <1>10, WrapBack DEF TypeOK, Serials, ReaderStates
  <1>12. \A i \in 1..serial.len : rdr[r].buf[i] = value[i]
    BY <1>2, <1>8, <1>9, <1>11 DEF SeqLockInv, ReaderInv
  <1> QED
    BY <1>8, <1>9, <1>12 DEF SeqLockInv, QuietInv

(* With a single mutator, a Read() or ReadCallback() that returns hands    *)
(* out exactly the value published last, unless 2^23 updates went by.      *)
THEOREM ReadsWhole ==
    ASSUME SingleMutator
    PROVE  Spec => ReturnsWhole
  <1>1. TypeOK /\ SeqLockInv /\ [Next]_vars =>
          [\A r \in Readers :
             Returns(r) /\ 2 * rdr[r].upd < CtrMod =>
               /\ rdr[r].ser.len = Len(cur)
               /\ \A i \in 1..Len(cur) : rdr[r].buf[i] = cur[i]]_vars
    BY ConfirmWhole
  <1> QED
    BY <1>1, TypeCorrect, SeqLock, PTL DEF Spec, ReturnsWhole
=============================================================================
